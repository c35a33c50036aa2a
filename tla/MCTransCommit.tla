--------------------------- MODULE MCTransCommit ---------------------------
(* TransCommit for TLC: t1 and t2 (and t3) write the binary log, e1 does not *)
EXTENDS TransCommit

CONSTANTS t1, t2, t3, e1
=============================================================================
