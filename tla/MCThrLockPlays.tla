-------------------------- MODULE MCThrLockPlays --------------------------
(***************************************************************************)
(* ThrLock for TLC with two plays in one run: the owners of InsertWishes   *)
(* take part, or those of FailWishes.  The others' threads were killed     *)
(* before, so that they ask for nothing.  The two share no table: a run of *)
(* all together would show nothing more.                                   *)
(***************************************************************************)
EXTENDS MCThrLock

ThreadsOf(W) == {ThreadOf[w[1]] : w \in W}

PlayInit ==
    /\ LockInit
    /\ \E W \in {InsertWishes, FailWishes} :
         abort = [t \in Thread |-> t \notin ThreadsOf(W)]

PlaySpec == PlayInit /\ [][Next]_vars
=============================================================================
