----------------------------- MODULE MCLockSys -----------------------------
(* LockSys for TLC.  In the run on rows a reads a range and inserts into    *)
(* it, b inserts, c updates and deletes; in the run on waits a circle of    *)
(* three can close over two records and the AUTO-INC lock.                  *)
EXTENDS LockSys

AllIX == [t \in Trx |-> "IX"]

RowsReads ==
    ({"a"} \X {3, Sup, SupL} \X {"S"} \X {"ordinary"})
    \cup {<<"c", 1, "S", "rec">>, <<"c", 3, "X", "rec">>, <<"a", 1, "S", "rec">>}
RowsMaxOps == [t \in Trx |-> 2]

WaitsReads ==
    {<<"a", 1, "X", "ordinary">>, <<"a", 2, "X", "rec">>,
     <<"b", 1, "S", "rec">>, <<"c", 2, "S", "ordinary">>}
WaitsMaxOps == [t \in Trx |-> IF t = "b" THEN 1 ELSE 2]
=============================================================================
