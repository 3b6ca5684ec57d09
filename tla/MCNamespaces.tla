---------------------------- MODULE MCNamespaces ----------------------------
(* TLC instances of Namespaces: symmetry over what is only drawn or        *)
(* compared.                                                               *)
EXTENDS Namespaces, TLC

IdSymmetry ==
  Permutations(NsIds) \cup Permutations(SignIns) \cup Permutations(Slugs) \cup
  Permutations(Accounts) \cup Permutations(Logins)
=============================================================================
