----------------------------- MODULE MCMigrations -----------------------------
(* A small instance of Migrations for TLC: a pod of an old binary and two  *)
(* of the newest.                                                          *)
EXTENDS Migrations, TLC

CONSTANTS old, new1, new2
MCPods   == {old, new1, new2}
MCLatest == (old :> 2) @@ (new1 :> 4) @@ (new2 :> 4)
=============================================================================
