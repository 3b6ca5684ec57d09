---------------------------- MODULE MCWorkspaces ----------------------------
(* TLC instances of Workspaces.                                            *)
EXTENDS Workspaces, TLC

RequestSymmetry == Permutations(Requests)
=============================================================================
