-------------------------- MODULE MCWorkspaceFiles --------------------------
(* TLC instances of WorkspaceFiles.                                        *)
EXTENDS WorkspaceFiles, TLC

(* The calls have no order, and no liveness is checked here.               *)
Symmetry == Permutations(Requests)
=============================================================================
