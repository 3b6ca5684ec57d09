---------------------------- MODULE MCAuthServer ----------------------------
(* TLC instances of AuthServer: symmetry over the identifiers that are     *)
(* only drawn and compared.                                                *)
EXTENDS AuthServer, TLC

IdSymmetry ==
  Permutations(ClientIds) \cup Permutations(SessionIds) \cup Permutations(CodeIds) \cup
  Permutations(KeyIds) \cup Permutations(Exchanges)
=============================================================================
