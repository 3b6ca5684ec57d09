----------------------------- MODULE MCQuotaLocks -----------------------------
(* TLC instances of QuotaLocks.                                            *)
EXTENDS QuotaLocks
=============================================================================
