-------------------------- MODULE GlobalReadLock --------------------------
(***************************************************************************)
(* FLUSH TABLES WITH READ LOCK: the global read lock of sql/lock.cc, with  *)
(* the part of sql/sql_base.cc it depends on (the version of open tables   *)
(* and close_cached_tables), and its users: COMMIT (sql/handler.cc),       *)
(* statements that take name locks or create objects, and statements that  *)
(* write to tables (mysql_lock_tables).                                    *)
(*                                                                         *)
(* The four counters are protected by LOCK_global_read_lock, the table     *)
(* versions by LOCK_open; both sides sleep on the one condition variable   *)
(* COND_refresh.  A critical section is one step, except that the test of  *)
(* a wait loop and the pthread_cond_wait that follows are two: the tests   *)
(* read variables that the other mutex protects.  "asleep" is the set of   *)
(* threads in pthread_cond_wait, a broadcast empties it.                   *)
(***************************************************************************)
EXTENDS Integers, FiniteSets

CONSTANTS
    Flusher,     \* connections that run FLUSH TABLES WITH READ LOCK
    Committer,   \* connections that COMMIT: wait_if_global_read_lock(thd, 0, 0)
    Definer,     \* DDL and name locks: wait_if_global_read_lock(thd, 0, 1)
    Writer,      \* table writes: wait_if_global_read_lock(thd, 1, 1)
    Killable,    \* connections that a KILL may hit
    MaxFlushes,  \* bound on the FLUSH statements of each connection
    None         \* nobody holds LOCK_global_read_lock

Thread == Flusher \cup Committer \cup Definer \cup Writer

ASSUME GlobalReadLockAssumption ==
    /\ Flusher \cap (Committer \cup Definer \cup Writer) = {}
    /\ Committer \cap (Definer \cup Writer) = {} /\ Definer \cap Writer = {}
    /\ Killable \subseteq Thread /\ None \notin Thread /\ IsFiniteSet(Thread)
    /\ MaxFlushes \in Nat

GOT_GLOBAL_READ_LOCK               == 1
MADE_GLOBAL_READ_LOCK_BLOCK_COMMIT == 2

VARIABLES
    global_read_lock, blocks_commit, waiting_for, protect,  \* the counters
    refresh_version,  \* the version that tables opened now get
    grl,        \* thd->global_read_lock
    killed,     \* thd->killed
    pc,         \* where each thread is
    tables,     \* version of the tables the thread has open, 0 when it has none
    asleep,     \* threads in pthread_cond_wait(&COND_refresh, ...)
    mutex,      \* who holds LOCK_global_read_lock between a test and its wait
    signal,     \* threads that have left their mutex and are about to broadcast
    flushes     \* FLUSH statements started, for the bound

counters == <<global_read_lock, blocks_commit, waiting_for, protect>>
vars == <<counters, refresh_version, grl, killed, pc, tables, asleep, mutex,
          signal, flushes>>

Init ==
    /\ global_read_lock = 0 /\ blocks_commit = 0 /\ waiting_for = 0 /\ protect = 0
    /\ refresh_version = 1
    /\ grl = [t \in Thread |-> 0]
    /\ killed = [t \in Thread |-> FALSE]
    /\ pc = [t \in Thread |-> "idle"]
    /\ tables = [t \in Thread |-> 0]
    /\ asleep = {} /\ signal = {}
    /\ mutex = None
    /\ flushes = [t \in Thread |-> 0]

Goto(t, l) == pc' = [pc EXCEPT ![t] = l]

(* t runs inside LOCK_global_read_lock *)
Enter(t) == mutex = None /\ t \notin asleep

(* the test of a wait loop said "wait": t still holds the mutex, then sleeps *)
Doze(t)  == mutex' = t
Sleep(t) ==
    /\ mutex = t
    /\ mutex' = None
    /\ asleep' = asleep \cup {t}
    /\ UNCHANGED <<counters, refresh_version, grl, killed, pc, tables, signal, flushes>>

(* pthread_cond_broadcast(&COND_refresh) after the mutex was released *)
Broadcast(t) ==
    /\ t \in signal
    /\ asleep' = {}
    /\ signal' = signal \ {t}
    /\ UNCHANGED <<counters, refresh_version, grl, killed, pc, tables, mutex, flushes>>

Ready(t, l) == pc[t] = l /\ t \notin signal

-----------------------------------------------------------------------------
(* lock_global_read_lock *)

FlushTables(t) ==
    /\ t \in Flusher /\ Ready(t, "idle") /\ Enter(t) /\ ~killed[t]
    /\ flushes[t] < MaxFlushes
    /\ waiting_for' = waiting_for + 1
    /\ flushes' = [flushes EXCEPT ![t] = @ + 1]
    /\ Goto(t, "lock")
    /\ UNCHANGED <<global_read_lock, blocks_commit, protect, refresh_version, grl,
                   killed, tables, asleep, mutex, signal>>

LockWait(t) ==
    /\ pc[t] = "lock" /\ Enter(t)
    /\ protect > 0 /\ ~killed[t]
    /\ Doze(t)
    /\ UNCHANGED <<counters, refresh_version, grl, killed, pc, tables, asleep,
                   signal, flushes>>

(* mutant: a killed FLUSH goes on being counted as waiting *)
LockDoneLeaky(t) ==
    /\ pc[t] = "lock" /\ Enter(t)
    /\ protect = 0 \/ killed[t]
    /\ IF killed[t]
         THEN Goto(t, "idle") /\ UNCHANGED <<grl, global_read_lock, waiting_for>>
         ELSE /\ grl' = [grl EXCEPT ![t] = GOT_GLOBAL_READ_LOCK]
              /\ global_read_lock' = global_read_lock + 1
              /\ waiting_for' = waiting_for - 1
              /\ Goto(t, "close")
    /\ UNCHANGED <<blocks_commit, protect, refresh_version, killed, tables, asleep,
                   mutex, signal, flushes>>

LockDone(t) ==
    /\ pc[t] = "lock" /\ Enter(t)
    /\ protect = 0 \/ killed[t]
    /\ waiting_for' = waiting_for - 1
    /\ IF killed[t]
         THEN Goto(t, "idle") /\ UNCHANGED <<grl, global_read_lock>>
         ELSE /\ grl' = [grl EXCEPT ![t] = GOT_GLOBAL_READ_LOCK]
              /\ global_read_lock' = global_read_lock + 1
              /\ Goto(t, "close")
    /\ UNCHANGED <<blocks_commit, protect, refresh_version, killed, tables, asleep,
                   mutex, signal, flushes>>

-----------------------------------------------------------------------------
(* close_cached_tables, under LOCK_open: force everybody to close and wake *)
(* those who wait with tables open                                         *)
CloseCachedTables(t) ==
    /\ Ready(t, "close")
    /\ refresh_version' = refresh_version + 1
    /\ asleep' = {}
    /\ Goto(t, "closing")
    /\ UNCHANGED <<counters, grl, killed, tables, mutex, signal, flushes>>

OldTables == {u \in Thread : tables[u] # 0 /\ tables[u] < refresh_version}

(* the test and the wait of this loop are both under LOCK_open, as are the *)
(* changes of what it tests                                                *)
ClosingWait(t) ==
    /\ pc[t] = "closing" /\ t \notin asleep
    /\ OldTables # {} /\ ~killed[t]
    /\ asleep' = asleep \cup {t}
    /\ UNCHANGED <<counters, refresh_version, grl, killed, pc, tables, mutex, signal,
                   flushes>>

(* mutant: does not wait until the old tables are closed *)
ClosingDoneImpatient(t) ==
    /\ pc[t] = "closing" /\ Enter(t)
    /\ IF grl[t] = GOT_GLOBAL_READ_LOCK
         THEN blocks_commit' = blocks_commit + 1 /\ Goto(t, "make")
         ELSE UNCHANGED blocks_commit /\ Goto(t, "held")
    /\ UNCHANGED <<global_read_lock, waiting_for, protect, refresh_version, grl,
                   killed, tables, asleep, mutex, signal, flushes>>

(* ... and make_global_read_lock_block_commit begins, unless this thread   *)
(* had the whole lock before                                               *)
ClosingDone(t) ==
    /\ pc[t] = "closing" /\ Enter(t)
    /\ OldTables = {} \/ killed[t]
    /\ IF grl[t] = GOT_GLOBAL_READ_LOCK
         THEN blocks_commit' = blocks_commit + 1 /\ Goto(t, "make")
         ELSE UNCHANGED blocks_commit /\ Goto(t, "held")
    /\ UNCHANGED <<global_read_lock, waiting_for, protect, refresh_version, grl,
                   killed, tables, asleep, mutex, signal, flushes>>

-----------------------------------------------------------------------------
(* make_global_read_lock_block_commit *)

MakeWait(t) ==
    /\ pc[t] = "make" /\ Enter(t)
    /\ protect > 0 /\ ~killed[t]
    /\ Doze(t)
    /\ UNCHANGED <<counters, refresh_version, grl, killed, pc, tables, asleep,
                   signal, flushes>>

MakeDone(t) ==
    /\ pc[t] = "make" /\ Enter(t)
    /\ protect = 0 \/ killed[t]
    /\ IF killed[t]
         THEN blocks_commit' = blocks_commit - 1 /\ Goto(t, "undo") /\ UNCHANGED grl
         ELSE /\ grl' = [grl EXCEPT ![t] = MADE_GLOBAL_READ_LOCK_BLOCK_COMMIT]
              /\ Goto(t, "held")
              /\ UNCHANGED blocks_commit
    /\ UNCHANGED <<global_read_lock, waiting_for, protect, refresh_version, killed,
                   tables, asleep, mutex, signal, flushes>>

-----------------------------------------------------------------------------
(* What a connection does under the lock: another FLUSH, a COMMIT of its   *)
(* own, UNLOCK TABLES (also THD::cleanup when the connection ends)         *)

FlushAgain(t) ==
    /\ Ready(t, "held") /\ ~killed[t] /\ flushes[t] < MaxFlushes
    /\ flushes' = [flushes EXCEPT ![t] = @ + 1]
    /\ Goto(t, "close")
    /\ UNCHANGED <<counters, refresh_version, grl, killed, tables, asleep, mutex, signal>>

OwnCommit(t) ==
    /\ Ready(t, "held") /\ Enter(t) /\ ~killed[t]
    /\ Goto(t, "owncommit")
    /\ UNCHANGED <<counters, refresh_version, grl, killed, tables, asleep, mutex,
                   signal, flushes>>

OwnCommitDone(t) ==
    /\ pc[t] = "owncommit"
    /\ Goto(t, "held")
    /\ UNCHANGED <<counters, refresh_version, grl, killed, tables, asleep, mutex,
                   signal, flushes>>

(* mutant: gives back a block of commits that was already undone *)
UnlockTwice(t) ==
    /\ pc[t] \in {"held", "undo"} /\ Enter(t)
    /\ global_read_lock' = global_read_lock - 1
    /\ blocks_commit' = blocks_commit - 1
    /\ signal' = IF global_read_lock = 1 THEN signal \cup {t} ELSE signal
    /\ grl' = [grl EXCEPT ![t] = 0]
    /\ Goto(t, "idle")
    /\ UNCHANGED <<waiting_for, protect, refresh_version, killed, tables, asleep,
                   mutex, flushes>>

(* mutant: pthread_cond_signal, which wakes only one of the waiters *)
UnlockSignals(t) ==
    /\ pc[t] \in {"held", "undo"} /\ Enter(t)
    /\ global_read_lock' = global_read_lock - 1
    /\ blocks_commit' = IF grl[t] = MADE_GLOBAL_READ_LOCK_BLOCK_COMMIT
                          THEN blocks_commit - 1 ELSE blocks_commit
    /\ \/ asleep = {} /\ asleep' = {}
       \/ \E u \in asleep : asleep' = asleep \ {u}
    /\ grl' = [grl EXCEPT ![t] = 0]
    /\ Goto(t, "idle")
    /\ UNCHANGED <<waiting_for, protect, refresh_version, killed, tables, mutex,
                   signal, flushes>>

(* unlock_global_read_lock; the broadcast follows outside the mutex *)
UnlockGlobalReadLock(t) ==
    /\ pc[t] \in {"held", "undo"} /\ Enter(t)
    /\ global_read_lock' = global_read_lock - 1
    /\ blocks_commit' = IF grl[t] = MADE_GLOBAL_READ_LOCK_BLOCK_COMMIT
                          THEN blocks_commit - 1 ELSE blocks_commit
    /\ signal' = IF global_read_lock = 1 THEN signal \cup {t} ELSE signal
    /\ grl' = [grl EXCEPT ![t] = 0]
    /\ Goto(t, "idle")
    /\ UNCHANGED <<waiting_for, protect, refresh_version, killed, tables, asleep,
                   mutex, flushes>>

-----------------------------------------------------------------------------
(* wait_if_global_read_lock *)

must_wait(t) == global_read_lock > 0 /\ (t \notin Committer \/ blocks_commit > 0)

(* the condition of the while loop; writers also leave it on a refresh *)
KeepsWaiting(t) ==
    /\ must_wait(t) /\ ~killed[t]
    /\ t \in Writer => tables[t] = refresh_version

(* COMMIT, CREATE, DROP, ... arrive *)
Begin(t) ==
    /\ t \in Committer \cup Definer /\ Ready(t, "idle") /\ ~killed[t]
    /\ Goto(t, "begin")
    /\ UNCHANGED <<counters, refresh_version, grl, killed, tables, asleep, mutex,
                   signal, flushes>>

(* the first test, outside the loop: with nothing to wait for, thd->killed *)
(* is not even looked at                                                   *)
MayPass(t) == pc[t] = "begin" /\ ~must_wait(t)

EnterWait(t) ==
    /\ pc[t] = "begin" /\ Enter(t) /\ must_wait(t)
    /\ Goto(t, "wait")
    /\ UNCHANGED <<counters, refresh_version, grl, killed, tables, asleep, mutex,
                   signal, flushes>>

WaitIfWait(t) ==
    /\ pc[t] = "wait" /\ Enter(t) /\ KeepsWaiting(t)
    /\ Doze(t)
    /\ UNCHANGED <<counters, refresh_version, grl, killed, pc, tables, asleep,
                   signal, flushes>>

(* the wait is over, or there was none *)
LeavesWait(t) == Enter(t) /\ (MayPass(t) \/ (pc[t] = "wait" /\ ~KeepsWaiting(t)))

(* commits and definers get protection, also when they never had to wait *)
WaitIfProtect(t) ==
    /\ t \notin Writer /\ LeavesWait(t)
    /\ IF pc[t] = "wait" /\ killed[t]
         THEN Goto(t, "idle") /\ UNCHANGED protect
         ELSE Goto(t, "protected") /\ protect' = protect + 1
    /\ UNCHANGED <<global_read_lock, blocks_commit, waiting_for, refresh_version, grl,
                   killed, tables, asleep, mutex, signal, flushes>>

(* mutant: the last one out wakes only those in lock_global_read_lock *)
StartWaitingSilent(t) ==
    /\ pc[t] = "protected" /\ Enter(t)
    /\ protect' = protect - 1
    /\ signal' = IF protect = 1 /\ waiting_for > 0 THEN signal \cup {t} ELSE signal
    /\ Goto(t, "idle")
    /\ UNCHANGED <<global_read_lock, blocks_commit, waiting_for, refresh_version, grl,
                   killed, tables, asleep, mutex, flushes>>

(* start_waiting_global_read_lock, after the job *)
StartWaiting(t) ==
    /\ pc[t] = "protected" /\ Enter(t)
    /\ protect' = protect - 1
    /\ signal' = IF protect = 1 /\ (waiting_for > 0 \/ blocks_commit > 0)
                   THEN signal \cup {t} ELSE signal
    /\ Goto(t, "idle")
    /\ UNCHANGED <<global_read_lock, blocks_commit, waiting_for, refresh_version, grl,
                   killed, tables, asleep, mutex, flushes>>

-----------------------------------------------------------------------------
(* A statement that writes: open_tables, mysql_lock_tables, the work,      *)
(* close_thread_tables                                                     *)

OpenTables(t) ==
    /\ t \in Writer /\ Ready(t, "idle") /\ ~killed[t]
    /\ tables' = [tables EXCEPT ![t] = refresh_version]
    /\ Goto(t, "opened")
    /\ UNCHANGED <<counters, refresh_version, grl, killed, asleep, mutex, signal, flushes>>

(* mysql_lock_tables looks at global_read_lock without the mutex *)
LockTables(t) ==
    /\ pc[t] = "opened"
    /\ Goto(t, IF global_read_lock > 0 THEN "begin" ELSE "writing")
    /\ UNCHANGED <<counters, refresh_version, grl, killed, tables, asleep, mutex,
                   signal, flushes>>

(* wait_if_global_read_lock returned: killed, or tables to be reopened, or go *)
WriterGoes(t) ==
    /\ t \in Writer /\ LeavesWait(t)
    /\ Goto(t, IF (pc[t] = "wait" /\ killed[t]) \/ tables[t] # refresh_version THEN "reopen" ELSE "writing")
    /\ UNCHANGED <<counters, refresh_version, grl, killed, tables, asleep, mutex,
                   signal, flushes>>

(* close_thread_tables: threads that wait for a refresh are told *)
CloseTables(t) ==
    /\ pc[t] \in {"writing", "reopen"}
    /\ tables' = [tables EXCEPT ![t] = 0]
    /\ asleep' = IF tables[t] # refresh_version THEN {} ELSE asleep
    /\ Goto(t, "idle")
    /\ UNCHANGED <<counters, refresh_version, grl, killed, mutex, signal, flushes>>

-----------------------------------------------------------------------------
(* THD::awake: the broadcast is under the mutex the victim waits with *)
Kill(t) ==
    /\ t \in Killable /\ ~killed[t] /\ mutex = None
    /\ killed' = [killed EXCEPT ![t] = TRUE]
    /\ asleep' = IF t \in asleep THEN {} ELSE asleep
    /\ UNCHANGED <<counters, refresh_version, grl, pc, tables, mutex, signal, flushes>>

(* what a thread goes on to do once it has started a statement *)
Continue(t) ==
    \/ Sleep(t) \/ Broadcast(t)
    \/ LockWait(t) \/ LockDone(t)
    \/ CloseCachedTables(t) \/ ClosingWait(t) \/ ClosingDone(t)
    \/ MakeWait(t) \/ MakeDone(t)
    \/ OwnCommitDone(t) \/ UnlockGlobalReadLock(t)
    \/ EnterWait(t) \/ WaitIfWait(t) \/ WaitIfProtect(t) \/ StartWaiting(t)
    \/ LockTables(t) \/ WriterGoes(t) \/ CloseTables(t)

Next ==
    \E t \in Thread :
        \/ Continue(t)
        \/ FlushTables(t) \/ FlushAgain(t) \/ OwnCommit(t)
        \/ Begin(t) \/ OpenTables(t)
        \/ Kill(t)

Spec == Init /\ [][Next]_vars

(* Threads keep running, and one that wants the mutex gets it if it is     *)
(* free again and again; whoever has the global read lock unlocks it some  *)
(* day, however often it commits or flushes before.                        *)
FairSpec ==
    /\ Spec
    /\ \A t \in Thread : SF_vars(Continue(t)) /\ SF_vars(UnlockGlobalReadLock(t))

-----------------------------------------------------------------------------
(* Properties *)

TypeOK ==
    /\ global_read_lock \in Nat /\ blocks_commit \in Nat
    /\ waiting_for \in Nat /\ protect \in Nat
    /\ refresh_version \in Nat \ {0}
    /\ grl \in [Thread -> 0..2] /\ killed \in [Thread -> BOOLEAN]
    /\ pc \in [Thread -> {"idle", "lock", "close", "closing", "make", "held", "undo",
                          "owncommit", "begin", "wait", "protected", "opened",
                          "writing", "reopen"}]
    /\ tables \in [Thread -> Nat]
    /\ asleep \subseteq Thread /\ signal \subseteq Thread
    /\ mutex \in Thread \cup {None}
    /\ flushes \in [Thread -> Nat]

(* Each counter counts what its comment in sql/lock.cc says, on every path *)
(* in and out, killed or not: none leaks and none underflows.              *)
CountersExact ==
    /\ global_read_lock = Cardinality({t \in Thread : grl[t] # 0})
    /\ blocks_commit = Cardinality({t \in Thread : grl[t] = 2 \/ pc[t] = "make"})
    /\ waiting_for = Cardinality({t \in Thread : pc[t] = "lock"})
    /\ protect = Cardinality({t \in Thread : pc[t] = "protected"})

(* FLUSH TABLES WITH READ LOCK gives a non-moving server: from its return  *)
(* to UNLOCK TABLES no other connection is inside a commit or a definition *)
(* and none has a table locked for writing.                                *)
QuietUnderReadLock ==
    \A t, u \in Thread : pc[t] \in {"held", "owncommit"} /\ grl[t] = 2 =>
        pc[u] \notin {"protected", "writing"}

(* Once the FLUSHer has forbidden new commits, the running ones finish and *)
(* let it go on.                                                           *)
MakeBlockCommitEnds == \A t \in Flusher : pc[t] = "make" ~> pc[t] # "make"

(* A COMMIT or a definition that had to wait proceeds after UNLOCK TABLES. *)
WaitersProceed == \A t \in Committer \cup Definer : pc[t] = "wait" ~> pc[t] # "wait"

(* lock_global_read_lock, "we must allow COMMIT until all tables are        *)
(* closed": no COMMIT sleeps on while every FLUSH is before its second step *)
(* and no broadcast is under way.                                           *)
CommitAllowed ==
    \A t \in Committer : pc[t] = "wait" /\ t \in asleep /\ signal = {} => must_wait(t)

(* FLUSH TABLES is stalled by tables in use only for a moment: whoever has *)
(* an old table open closes it.                                            *)
FlushEnds == \A t \in Flusher : pc[t] = "closing" ~> pc[t] # "closing"
=============================================================================
