----------------------------- MODULE SyncLatch -----------------------------
(***************************************************************************)
(* The latches of InnoDB: mutexes (sync0sync.c, sync0sync.ic), read-write  *)
(* locks (sync0rw.c, sync0rw.ic) and the wait array in which a thread      *)
(* sleeps when spinning did not help (sync0arr.c).                         *)
(*                                                                         *)
(* A mutex is modelled at the grain of its memory accesses, in the build   *)
(* that uses os_fast_mutex_trylock.  The code of an rw-lock between        *)
(* mutex_enter and mutex_exit of the lock's own mutex is one step; so is   *)
(* what the wait array does under its OS mutex.  A thread has at most one  *)
(* cell of the array, so a cell is named by its thread.                    *)
(***************************************************************************)
EXTENDS Naturals, FiniteSets

CONSTANTS
    Thread,    \* threads that ask for latches
    Io,        \* an i/o handler thread, which ends page reads
    Mutex, RwLock,
    Plays,     \* who asks for which latches, and how: sets of <<thread, object, mode>>
    MaxDepth,  \* bound on recursive x-locks
    None

ASSUME SyncLatchAssumption ==
    /\ IsFiniteSet(Thread) /\ Io \notin Thread /\ None \notin Thread \cup {Io}
    /\ Mutex \cap RwLock = {} /\ None \notin Mutex \cup RwLock
    /\ Plays \subseteq SUBSET (Thread \X (Mutex \cup RwLock) \X {"mutex", "s", "x", "passed"})
    /\ \A P \in Plays : \A p \in P : p[3] = "mutex" <=> p[2] \in Mutex
    /\ MaxDepth \in Nat \ {0}

Threads == Thread \cup {Io}
Object  == Mutex \cup RwLock

VARIABLES
    barrier,   \* TRUE where mutex_reset_lock_word is a memory barrier
    word,      \* mutex->lock_word
    os,        \* the thread that has mutex->os_fast_mutex, or None
    waiters,   \* the waiters field of a mutex or rw-lock
    rw,        \* writer, writer_thread, writer_count, pass, reader_count
    cell,      \* the cell a thread has reserved: the object, the event
    pc, obj, mode,  \* what a thread does, with which latch, how
    sees,      \* what mutex_exit read from the waiters field, if it did
    play       \* which of Plays this is

platform == <<barrier, play>>
vars == <<barrier, word, os, waiters, rw, cell, pc, obj, mode, sees, play>>

Mode == {"mutex", "s", "x", "passed"}
FreeCell == [obj |-> None, event |-> FALSE]
Unlocked == [writer |-> "NOT_LOCKED", thread |-> None, count |-> 0, pass |-> FALSE, readers |-> 0]

Init ==
    /\ barrier \in BOOLEAN /\ play \in Plays
    /\ word = [m \in Mutex |-> 0] /\ os = [m \in Mutex |-> None]
    /\ waiters = [o \in Object |-> FALSE]
    /\ rw = [l \in RwLock |-> Unlocked]
    /\ cell = [t \in Threads |-> FreeCell]
    /\ pc = [t \in Threads |-> "idle"]
    /\ obj = [t \in Threads |-> None] /\ mode = [t \in Threads |-> "mutex"]
    /\ sees = [t \in Threads |-> "unread"]

Goto(t, l) == pc' = [pc EXCEPT ![t] = l]

(* a caller wants a latch, and has none: a page for reading or writing    *)
(* (buf_page_get_gen), a mutex                                             *)
Request(t, o, m) ==
    /\ pc[t] = "idle" /\ <<t, o, m>> \in play
    /\ obj' = [obj EXCEPT ![t] = o] /\ mode' = [mode EXCEPT ![t] = m]
    /\ Goto(t, "try")
    /\ UNCHANGED <<platform, word, os, waiters, rw, cell, sees>>

-----------------------------------------------------------------------------
(* The wait array *)

sync_array_reserve_cell(t) == cell' = [cell EXCEPT ![t] = [obj |-> obj[t], event |-> FALSE]]

sync_array_free_cell(t) == cell' = [cell EXCEPT ![t] = FreeCell]

(* sync_array_wait_event, then back to the loop of the lock function *)
WaitEvent(t) ==
    /\ pc[t] = "sleep" /\ cell[t].event
    /\ sync_array_free_cell(t)
    /\ Goto(t, IF mode[t] = "s" THEN "again" ELSE "try")
    /\ UNCHANGED <<platform, word, os, waiters, rw, obj, mode, sees>>

SetEvents(T) == cell' = [t \in Threads |-> IF t \in T THEN [cell[t] EXCEPT !.event = TRUE] ELSE cell[t]]

sync_array_signal_object(t) ==
    /\ pc[t] = "signal"
    /\ SetEvents({u \in Threads : cell[u].obj = obj[t]})
    /\ Goto(t, "idle")
    /\ obj' = [obj EXCEPT ![t] = None]
    /\ UNCHANGED <<platform, word, os, waiters, rw, mode, sees>>

(* mutant: only free locks are looked for, not those reserved for the waiter *)
CanWakeUpFree(u) ==
    LET o == cell[u].obj IN
    o \in RwLock /\ rw[o].writer = "NOT_LOCKED"

sync_arr_cell_can_wake_up(u) ==
    LET o == cell[u].obj IN
    \/ o \in Mutex /\ word[o] = 0
    \/ /\ o \in RwLock /\ mode[u] = "s"
       /\ rw[o].writer = "NOT_LOCKED"
    \/ /\ o \in RwLock /\ mode[u] # "s" /\ rw[o].readers = 0
       /\ \/ rw[o].writer = "NOT_LOCKED"
          \/ rw[o].writer = "WAIT_EX" /\ rw[o].thread = u

(* the monitor thread, every second *)
sync_arr_wake_threads_if_sema_free ==
    /\ SetEvents({u \in Threads : cell[u].obj # None /\ sync_arr_cell_can_wake_up(u)})
    /\ UNCHANGED <<platform, word, os, waiters, rw, pc, obj, mode, sees>>

-----------------------------------------------------------------------------
(* mutex_enter_func, mutex_spin_wait *)

(* mutex_test_and_set gets the OS mutex *)
TestAndSet(t) ==
    /\ pc[t] \in {"try", "retry"} /\ mode[t] = "mutex" /\ os[obj[t]] = None
    /\ os' = [os EXCEPT ![obj[t]] = t]
    /\ Goto(t, "got")
    /\ UNCHANGED <<platform, word, waiters, rw, cell, obj, mode, sees>>

SetWord(t) ==
    /\ pc[t] = "got"
    /\ word' = [word EXCEPT ![obj[t]] = 1]
    /\ sync_array_free_cell(t)
    /\ Goto(t, "hold")
    /\ UNCHANGED <<platform, os, waiters, rw, obj, mode, sees>>

(* SYNC_SPIN_ROUNDS attempts failed *)
SpinFails(t) ==
    /\ pc[t] = "try" /\ mode[t] = "mutex" /\ os[obj[t]] # None
    /\ Goto(t, "reserve")
    /\ UNCHANGED <<platform, word, os, waiters, rw, cell, obj, mode, sees>>

Reserve(t) ==
    /\ pc[t] = "reserve"
    /\ sync_array_reserve_cell(t)
    /\ Goto(t, "flag")
    /\ UNCHANGED <<platform, word, os, waiters, rw, obj, mode, sees>>

(* mutant: the thread goes to sleep without another look at the mutex *)
SetWaitersAndSleep(t) ==
    /\ pc[t] = "flag"
    /\ waiters' = [waiters EXCEPT ![obj[t]] = TRUE]
    /\ Goto(t, "sleep")
    /\ UNCHANGED <<platform, word, os, rw, cell, obj, mode, sees>>

SetWaiters(t) ==
    /\ pc[t] = "flag"
    /\ waiters' = [waiters EXCEPT ![obj[t]] = TRUE]
    /\ Goto(t, "retry")
    /\ UNCHANGED <<platform, word, os, rw, cell, obj, mode, sees>>

(* the last of four more attempts failed *)
RetryFails(t) ==
    /\ pc[t] = "retry" /\ os[obj[t]] # None
    /\ Goto(t, "sleep")
    /\ UNCHANGED <<platform, word, os, waiters, rw, cell, obj, mode, sees>>

-----------------------------------------------------------------------------
(* mutex_exit *)

ResetWord(t) ==
    /\ pc[t] = "hold" /\ mode[t] = "mutex"
    /\ word' = [word EXCEPT ![obj[t]] = 0]
    /\ Goto(t, "unlock")
    /\ UNCHANGED <<platform, os, waiters, rw, cell, obj, mode, sees>>

Sees(t) == IF waiters[obj[t]] THEN "waiters" ELSE "nobody"

(* a speculative processor performs the read of the waiters field first *)
ReadEarly(t) ==
    /\ ~barrier /\ pc[t] = "unlock" /\ sees[t] = "unread"
    /\ sees' = [sees EXCEPT ![t] = Sees(t)]
    /\ UNCHANGED <<platform, word, os, waiters, rw, cell, pc, obj, mode>>

UnlockOs(t) ==
    /\ pc[t] = "unlock"
    /\ os' = [os EXCEPT ![obj[t]] = None]
    /\ Goto(t, "read")
    /\ UNCHANGED <<platform, word, waiters, rw, cell, obj, mode, sees>>

GetWaiters(t) ==
    /\ pc[t] = "read"
    /\ LET w == IF sees[t] = "unread" THEN Sees(t) ELSE sees[t] IN
         /\ Goto(t, IF w = "waiters" THEN "clear" ELSE "idle")
         /\ obj' = [obj EXCEPT ![t] = IF w = "waiters" THEN @ ELSE None]
    /\ sees' = [sees EXCEPT ![t] = "unread"]
    /\ UNCHANGED <<platform, word, os, waiters, rw, cell, mode>>

(* mutex_signal_object resets the field before it signals *)
ClearWaiters(t) ==
    /\ pc[t] = "clear"
    /\ waiters' = [waiters EXCEPT ![obj[t]] = FALSE]
    /\ Goto(t, "signal")
    /\ UNCHANGED <<platform, word, os, rw, cell, obj, mode, sees>>

-----------------------------------------------------------------------------
(* rw_lock_s_lock_func, rw_lock_s_lock_spin, rw_lock_x_lock_func *)

(* mutant: a writer that has reserved the lock does not count the readers *)
SucceedsReserved(t, l) ==
    IF mode[t] = "s" THEN l.writer = "NOT_LOCKED"
    ELSE \/ l.writer = "NOT_LOCKED" /\ l.readers = 0
         \/ l.writer = "WAIT_EX" /\ l.thread = t

(* rw_lock_s_lock_low, rw_lock_x_lock_low: does the attempt succeed, and   *)
(* the lock after it                                                       *)
Succeeds(t, l) ==
    IF mode[t] = "s" THEN l.writer = "NOT_LOCKED"
    ELSE /\ l.readers = 0
         /\ l.writer = "NOT_LOCKED" \/ (l.writer = "WAIT_EX" /\ l.thread = t)

Attempt(t, l) ==
    LET pass == mode[t] = "passed" IN
    CASE Succeeds(t, l) /\ mode[t] = "s" -> [l EXCEPT !.readers = @ + 1]
      [] Succeeds(t, l) /\ mode[t] # "s" ->
           [l EXCEPT !.writer = "EX", !.thread = t, !.count = @ + 1, !.pass = pass]
      [] ~Succeeds(t, l) /\ mode[t] # "s" /\ l.writer = "NOT_LOCKED" ->
           [l EXCEPT !.writer = "WAIT_EX", !.thread = t, !.pass = pass]
      [] OTHER -> l

TryRw(t) ==
    /\ pc[t] = "try" /\ mode[t] # "mutex"
    /\ rw' = [rw EXCEPT ![obj[t]] = Attempt(t, @)]
    /\ Goto(t, IF Succeeds(t, rw[obj[t]]) THEN "hold" ELSE "again")
    /\ UNCHANGED <<platform, word, os, waiters, cell, obj, mode, sees>>

(* after the spin: once more, else reserve a cell and set waiters, all     *)
(* under the mutex of the lock                                             *)
TryRwAgain(t) ==
    /\ pc[t] = "again"
    /\ rw' = [rw EXCEPT ![obj[t]] = Attempt(t, @)]
    /\ IF Succeeds(t, rw[obj[t]])
         THEN Goto(t, "hold") /\ UNCHANGED <<waiters, cell>>
         ELSE /\ sync_array_reserve_cell(t)
              /\ waiters' = [waiters EXCEPT ![obj[t]] = TRUE]
              /\ Goto(t, "sleep")
    /\ UNCHANGED <<platform, word, os, obj, mode, sees>>

(* an x-lock of a thread that has one *)
Relock(t) ==
    /\ pc[t] = "hold" /\ mode[t] = "x" /\ rw[obj[t]].count < MaxDepth
    /\ rw' = [rw EXCEPT ![obj[t]].count = @ + 1]
    /\ UNCHANGED <<platform, word, os, waiters, cell, pc, obj, mode, sees>>

-----------------------------------------------------------------------------
(* rw_lock_s_unlock_func, rw_lock_x_unlock_func *)

Unlock(l, m) ==
    IF m = "s" THEN [l EXCEPT !.readers = @ - 1]
    ELSE [l EXCEPT !.count = @ - 1, !.writer = IF l.count = 1 THEN "NOT_LOCKED" ELSE @]

(* mutant: the last reader leaves without a signal *)
LastWriter(l, m) == m # "s" /\ l.count = 1

Last(l, m) == IF m = "s" THEN l.readers = 1 ELSE l.count = 1

UnlockRw(t, o, m, else) ==
    /\ rw' = [rw EXCEPT ![o] = Unlock(@, m)]
    /\ IF waiters[o] /\ Last(rw[o], m)
         THEN /\ waiters' = [waiters EXCEPT ![o] = FALSE]
              /\ Goto(t, "signal")
              /\ obj' = [obj EXCEPT ![t] = o]
         ELSE /\ Goto(t, else)
              /\ obj' = [obj EXCEPT ![t] = IF else = "idle" THEN None ELSE @]
              /\ UNCHANGED waiters
    /\ UNCHANGED <<platform, word, os, cell, mode, sees>>

SUnlock(t) ==
    pc[t] = "hold" /\ mode[t] = "s" /\ UnlockRw(t, obj[t], "s", "idle")

XUnlock(t) ==
    /\ pc[t] = "hold" /\ mode[t] = "x"
    /\ UnlockRw(t, obj[t], "x", IF rw[obj[t]].count > 1 THEN "hold" ELSE "idle")

(* an x-lock with pass # 0 is left to another thread: buf_page_init_for_read *)
Pass(t) ==
    /\ pc[t] = "hold" /\ mode[t] = "passed"
    /\ Goto(t, "idle") /\ obj' = [obj EXCEPT ![t] = None]
    /\ UNCHANGED <<platform, word, os, waiters, rw, cell, mode, sees>>

Passed(l) ==
    /\ rw[l].writer = "EX" /\ rw[l].pass
    /\ \A t \in Threads : obj[t] = l => pc[t] # "hold"

(* buf_page_io_complete: the handler thread unlocks *)
PassedUnlock(l) ==
    /\ pc[Io] = "idle" /\ Passed(l)
    /\ UnlockRw(Io, l, "passed", "idle")

(* rw_lock_x_lock_move_ownership: it first makes the lock its own, to lock *)
(* it once more                                                            *)
MoveOwnership(l) ==
    /\ pc[Io] = "idle" /\ Passed(l)
    /\ rw' = [rw EXCEPT ![l].thread = Io, ![l].pass = FALSE]
    /\ obj' = [obj EXCEPT ![Io] = l] /\ mode' = [mode EXCEPT ![Io] = "x"]
    /\ Goto(Io, "hold")
    /\ UNCHANGED <<platform, word, os, waiters, cell, sees>>

-----------------------------------------------------------------------------
Step(t) ==
    \/ TestAndSet(t) \/ SetWord(t) \/ SpinFails(t) \/ Reserve(t) \/ SetWaiters(t) \/ RetryFails(t)
    \/ WaitEvent(t)
    \/ ResetWord(t) \/ UnlockOs(t) \/ GetWaiters(t) \/ ClearWaiters(t) \/ sync_array_signal_object(t)
    \/ TryRw(t) \/ TryRwAgain(t) \/ SUnlock(t) \/ XUnlock(t) \/ Pass(t)

IoStep == \E l \in RwLock : PassedUnlock(l) \/ MoveOwnership(l)

Next ==
    \/ \E t \in Threads : Step(t) \/ ReadEarly(t) \/ Relock(t)
    \/ \E t \in Thread, o \in Object, m \in Mode : Request(t, o, m)
    \/ IoStep
    \/ sync_arr_wake_threads_if_sema_free

Spec == Init /\ [][Next]_vars

(* Threads run and let go of a latch in the end, page reads end, and the   *)
(* monitor thread looks every second; nobody has to ask for a latch.       *)
FairSpec ==
    /\ Spec
    /\ \A t \in Threads : WF_vars(Step(t)) /\ SF_vars(XUnlock(t) /\ pc'[t] # "hold")
    /\ WF_vars(IoStep)
    /\ WF_vars(sync_arr_wake_threads_if_sema_free)

-----------------------------------------------------------------------------
(* Properties *)

Sleeping(t) == pc[t] = "sleep" /\ ~cell[t].event

SHolders(l) == {t \in Threads : pc[t] = "hold" /\ obj[t] = l /\ mode[t] = "s"}
XHolders(l) == {t \in Threads : pc[t] = "hold" /\ obj[t] = l /\ mode[t] \in {"x", "passed"}}

(* The types, and the assertion of mutex_test_and_set: who gets the OS     *)
(* mutex finds lock_word zero.                                             *)
TypeOK ==
    /\ barrier \in BOOLEAN /\ play \in Plays
    /\ word \in [Mutex -> {0, 1}] /\ os \in [Mutex -> Threads \cup {None}]
    /\ \A m \in Mutex : os[m] = None \/ pc[os[m]] = "got" => word[m] = 0
    /\ waiters \in [Object -> BOOLEAN]
    /\ rw \in [RwLock -> [writer : {"NOT_LOCKED", "EX", "WAIT_EX"}, thread : Threads \cup {None},
                          count : 0 .. MaxDepth, pass : BOOLEAN, readers : 0 .. Cardinality(Thread)]]
    /\ cell \in [Threads -> [obj : Object \cup {None}, event : BOOLEAN]]
    /\ pc \in [Threads -> {"idle", "try", "got", "reserve", "flag", "retry", "again", "sleep", "hold",
                           "unlock", "read", "clear", "signal"}]
    /\ obj \in [Threads -> Object \cup {None}] /\ mode \in [Threads -> Mode]
    /\ sees \in [Threads -> {"unread", "waiters", "nobody"}]

(* A latch is held by one thread exclusively or by readers, its counts are *)
(* those of its holders, also when it is passed to the i/o thread or taken *)
(* several times.  With the types.                                         *)
LatchesExact ==
    /\ TypeOK
    /\ \A m \in Mutex : \A t \in Threads :
         pc[t] \in {"got", "hold", "unlock"} /\ obj[t] = m => os[m] = t
    /\ \A l \in RwLock :
         /\ rw[l].readers = Cardinality(SHolders(l))
         /\ Cardinality(XHolders(l)) <= 1
         /\ XHolders(l) # {} \/ Passed(l) <=> rw[l].writer = "EX"
         /\ rw[l].writer = "EX" => rw[l].count > 0 /\ rw[l].readers = 0
         /\ \A t \in XHolders(l) : rw[l].thread = t

(* LEMMA 1 of sync0sync.c, where the reset of the lock word is a barrier:  *)
(* a thread that sleeps on a mutex has set the waiters field and the mutex *)
(* is in use, or somebody is about to read the field or to signal.         *)
MutexNoLostWakeup ==
    barrier => \A t \in Threads : Sleeping(t) /\ obj[t] \in Mutex =>
        LET about(S) == \E u \in Threads : obj[u] = obj[t] /\ pc[u] \in S
        IN \/ about({"clear", "signal"})
           \/ waiters[obj[t]] /\ (os[obj[t]] # None \/ about({"read"}))

(* The same for rw-locks: whoever sleeps has set waiters and its own       *)
(* attempt would fail now, or a signal is under way.  So the writer that   *)
(* has reserved the lock does not sleep on when the last reader has left   *)
(* (rw_lock_s_unlock_func), nor does anybody when a writer has.            *)
RwNoLostWakeup ==
    \A t \in Threads : Sleeping(t) /\ obj[t] \in RwLock =>
        \/ \E u \in Threads : obj[u] = obj[t] /\ pc[u] = "signal"
        \/ waiters[obj[t]] /\ ~Succeeds(t, rw[obj[t]])

(* No infinite wait on an event, even where the processor reads the        *)
(* waiters field early: the monitor thread wakes whom mutex_exit missed.   *)
WaitEnds == \A t \in Threads : Sleeping(t) ~> ~Sleeping(t)
=============================================================================
