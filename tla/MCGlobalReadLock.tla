------------------------- MODULE MCGlobalReadLock -------------------------
(* GlobalReadLock for TLC: the connections of each run are model values.   *)
EXTENDS GlobalReadLock

CONSTANTS f1, f2, c1, d1, w1, w2
=============================================================================
