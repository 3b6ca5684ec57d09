------------------------------ MODULE MCPublish ------------------------------
(* TLC instances of Publish.  amy owns her namespace and an organisation's *)
(* that ben is a member of; ben owns his.                                  *)
EXTENDS Publish, TLC

CONSTANTS amy, ben, own, org, house, pkg, toml, lib, good, uses, bad, torn

MCRole == [u \in Users |-> [n \in Namespaces |->
  CASE u = amy /\ n \in {own, org} -> "owner"
    [] u = ben /\ n = org          -> "member"
    [] OTHER                       -> ""]]

MCHouse   == <<house, pkg, 1>>
MCBundled == [f \in Files |-> good]

(* "uses" is a lib.typ that imports version 1 of the publisher's package.  *)
MCImports == [c \in Contents |->
  IF c = uses THEN {<<own, pkg, 1>>} ELSE {}]

RequestSymmetry == Permutations(Requests)
=============================================================================
