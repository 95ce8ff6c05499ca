----------------------------- MODULE MCKeyCache -----------------------------
(* Small instances of KeyCache for TLC. *)
EXTENDS KeyCache

CONSTANTS t1, t2, t3, k1, k2, p1

=============================================================================
