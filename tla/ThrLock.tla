------------------------------ MODULE ThrLock ------------------------------
(***************************************************************************)
(* The table lock manager, mysys/thr_lock.c, as the server uses it:        *)
(* sql/lock.cc (mysql_lock_tables, mysql_unlock_tables, mysql_lock_abort)  *)
(* for statements and cursors, sql/sql_insert.cc (handle_inserts) for the  *)
(* INSERT DELAYED handler threads.                                         *)
(*                                                                         *)
(* Every function of thr_lock.c works on one THR_LOCK under lock->mutex,   *)
(* so one call is one step here; the calls of different threads, and the   *)
(* successive calls made by thr_multi_lock and thr_multi_unlock, interleave*)
(* freely.  The four lists of a THR_LOCK are sequences of lock data, a     *)
(* pthread condition is the flag "cond" (the wake-up predicate of          *)
(* wait_for_lock is data->cond == 0, so no signal can be missed).          *)
(***************************************************************************)
EXTENDS Integers, Sequences, FiniteSets, SequencesExt, Lists

CONSTANTS
    Lock,            \* addresses of the THR_LOCK objects, one for each table
    Data,            \* THR_LOCK_DATA objects, one for each open table instance
    LockOf,          \* data->lock
    Owner,           \* THR_LOCK_OWNER: a connection's statement or a cursor
    OwnerOf,         \* data->owner
    Thread,          \* THR_LOCK_INFO: the connection's thread
    ThreadOf,        \* owner->info
    Cursor,          \* owners that are server-side cursors
    Delayed,         \* owners that are INSERT DELAYED handler threads
    Dropper,         \* owners that run DROP / ALTER / FLUSH (mysql_lock_abort)
    Killable,        \* threads that KILL CONNECTION may hit
    Requests,        \* what statements ask for: functions from data to types
    CheckStatus,     \* locks whose engine has a check_status callback
    UpgradedCI,      \* thr_upgraded_concurrent_insert_lock
    MaxWriteLockCount \* max_write_lock_count

TL_UNLOCK                  == 0
TL_READ                    == 1
TL_READ_WITH_SHARED_LOCKS  == 2
TL_READ_HIGH_PRIORITY      == 3
TL_READ_NO_INSERT          == 4
TL_WRITE_ALLOW_WRITE       == 5
TL_WRITE_ALLOW_READ        == 6
TL_WRITE_CONCURRENT_INSERT == 7
TL_WRITE_DELAYED           == 8
TL_WRITE_LOW_PRIORITY      == 9
TL_WRITE                   == 10
TL_WRITE_ONLY              == 11

LockType == TL_UNLOCK .. TL_WRITE_ONLY

ASSUME ThrLockAssumption ==
    /\ Lock \subseteq Nat
    /\ LockOf \in [Data -> Lock]
    /\ OwnerOf \in [Data -> Owner]
    /\ ThreadOf \in [Owner -> Thread]
    /\ Cursor \subseteq Owner /\ Delayed \subseteq Owner /\ Dropper \subseteq Owner
    /\ Killable \subseteq Thread /\ CheckStatus \subseteq Lock
    /\ UpgradedCI \in {TL_WRITE, TL_WRITE_LOW_PRIORITY}
    /\ MaxWriteLockCount \in Nat
    /\ \A r \in Requests :
         /\ DOMAIN r \subseteq Data /\ DOMAIN r # {}
         /\ \A d \in DOMAIN r : r[d] \in TL_READ .. TL_WRITE
         /\ \A d, e \in DOMAIN r : OwnerOf[d] = OwnerOf[e]
         /\ IsFiniteSet(DOMAIN r)

(* handle_delayed_insert opens one table, with TL_WRITE_DELAYED, and nobody *)
(* else locks a table with that type: mysql_insert hands the rows to the    *)
(* handler, and sql_prepare.cc:985 warns of two such locks                  *)
ASSUME DelayedAssumption ==
    /\ \A d, e \in Data : OwnerOf[d] = OwnerOf[e] /\ OwnerOf[d] \in Delayed => d = e
    /\ \A r \in Requests : \A d \in DOMAIN r :
         r[d] = TL_WRITE_DELAYED <=> OwnerOf[d] \in Delayed

VARIABLES
    lock,    \* the THR_LOCK objects: four lists and two counters
    type,    \* data->type
    cond,    \* data->cond != 0
    pc,      \* where each owner is
    locks,   \* MYSQL_LOCK.locks: the array of the owner's statement, sorted
    pos,     \* the element of that array being locked or unlocked
    asked,   \* the lock type the running statement asked for, for each data
    abort    \* thread_var->abort

vars == <<lock, type, cond, pc, locks, pos, asked, abort>>

(* the data the owner's current thr_lock or thr_unlock call is about *)
Cur(o) == locks[o][pos[o]]

InUse(l)   == ToSet(lock[l].read) \cup ToSet(lock[l].write)
Waiting(l) == ToSet(lock[l].read_wait) \cup ToSet(lock[l].write_wait)

IsRead(t)  == t <= TL_READ_NO_INSERT
Empty(q)   == q = << >>

(* the type of the first lock of a list, TL_UNLOCK when there is none *)
HeadType(q) == IF Empty(q) THEN TL_UNLOCK ELSE type[Head(q)]

(* owner->info->n_cursors: open cursors of the thread *)
NCursors(t) == Cardinality({c \in Cursor : ThreadOf[c] = t /\ pc[c] = "locked"})

(* a thread runs one statement, or one cursor operation, at a time *)
ThreadFree(o) ==
    \A p \in Owner \ {o} : ThreadOf[p] = ThreadOf[o] => pc[p] \in {"idle", "locked"}

-----------------------------------------------------------------------------
(* thr_lock_init, thr_lock_data_init *)
LockInit ==
    /\ lock = [l \in Lock |-> [read |-> << >>, write |-> << >>,
                               read_wait |-> << >>, write_wait |-> << >>,
                               read_no_write_count |-> 0, write_lock_count |-> 0]]
    /\ type = [d \in Data |-> TL_UNLOCK]
    /\ cond = [d \in Data |-> FALSE]
    /\ pc = [o \in Owner |-> "idle"]
    /\ locks = [o \in Owner |-> << >>]
    /\ pos = [o \in Owner |-> 1]
    /\ asked = [d \in Data |-> TL_UNLOCK]

(* and my_thread_init: nobody is killed yet *)
Init == LockInit /\ abort = [t \in Thread |-> FALSE]

-----------------------------------------------------------------------------
(* sort_locks: by address of the lock, and the stronger type first on one  *)
(* lock.  The array arrives in any order; equal elements keep it.          *)
LOCK_CMP(ty, d, e) ==
    \/ LockOf[d] < LockOf[e]
    \/ LockOf[d] = LockOf[e] /\ ty[d] > ty[e]

(* mutant: the array is locked in the order it arrives in *)
sort_locks_unsorted(D, ty) == SetToSeqs(D)

sort_locks(D, ty) ==
    {s \in SetToSeqs(D) : \A i, j \in 1..Len(s) : i < j => ~LOCK_CMP(ty, s[j], s[i])}

(* A statement starts to lock its tables.  handler::store_lock puts the    *)
(* asked type into data->type only when that is TL_UNLOCK.                 *)
LockTables(o) ==
    /\ pc[o] = "idle" /\ ThreadFree(o) /\ ~abort[ThreadOf[o]]
    /\ \E r \in {q \in Requests : \A d \in DOMAIN q : OwnerOf[d] = o} :
         LET ty == [d \in Data |-> IF d \in DOMAIN r /\ type[d] = TL_UNLOCK
                                     THEN r[d] ELSE type[d]]
         IN /\ type' = ty
            /\ \E s \in sort_locks(DOMAIN r, ty) : locks' = [locks EXCEPT ![o] = s]
            /\ asked' = [d \in Data |-> IF d \in DOMAIN r THEN r[d] ELSE asked[d]]
    /\ pc' = [pc EXCEPT ![o] = "locking"]
    /\ pos' = [pos EXCEPT ![o] = 1]
    /\ UNCHANGED <<lock, cond, abort>>

(* thr_lock returned THR_LOCK_SUCCESS: the next element, or all are locked *)
Advance(o) ==
    IF pos[o] = Len(locks[o])
      THEN /\ pc' = [pc EXCEPT ![o] = "locked"]
           /\ UNCHANGED pos
      ELSE /\ pc' = [pc EXCEPT ![o] = "locking"]
           /\ pos' = [pos EXCEPT ![o] = @ + 1]

(* thr_lock failed: thr_multi_lock unlocks the elements locked so far; the *)
(* ones never tried keep data->type, nobody resets it                      *)
Fail(o) ==
    /\ locks' = [locks EXCEPT ![o] = SubSeq(@, 1, pos[o] - 1)]
    /\ pos' = [pos EXCEPT ![o] = 1]
    /\ pc' = [pc EXCEPT ![o] = "unlocking"]

(* thr_lock gave up because the table goes away: mysql_lock_tables has the *)
(* obsolete table reopened, which initialises all its lock data            *)
Reopened(o, l) ==
    [d \in Data |-> IF /\ LockOf[d] = l
                       /\ \E i \in pos[o] .. Len(locks[o]) : locks[o][i] = d
                      THEN TL_UNLOCK ELSE type[d]]

(* thr_lock: a read request is granted at once *)
ReadGranted(L, d, t) ==
    IF Empty(L.write)
      THEN \/ HeadType(L.write_wait) <= TL_WRITE_LOW_PRIORITY
           \/ t = TL_READ_HIGH_PRIORITY
           \/ \E e \in ToSet(L.read) : OwnerOf[e] = OwnerOf[d]
      ELSE LET w == Head(L.write) IN
           \/ OwnerOf[d] = OwnerOf[w]
           \/ /\ type[w] <= TL_WRITE_DELAYED
              /\ \/ t <= TL_READ_HIGH_PRIORITY
                 \/ type[w] \notin {TL_WRITE_CONCURRENT_INSERT, TL_WRITE_ALLOW_READ}

(* mutant: a concurrent insert does not look at the no-insert readers *)
WriteGrantedAnyReader(L, d, t) ==
    IF Empty(L.write)
      THEN Empty(L.write_wait) /\ (Empty(L.read) \/ t <= TL_WRITE_DELAYED)
      ELSE OwnerOf[d] = OwnerOf[Head(L.write)]

(* thr_lock: a write request is granted at once *)
WriteGranted(L, d, t) ==
    IF Empty(L.write)
      THEN /\ Empty(L.write_wait)
           /\ \/ Empty(L.read)
              \/ /\ t <= TL_WRITE_DELAYED
                 /\ \/ t \notin {TL_WRITE_CONCURRENT_INSERT, TL_WRITE_ALLOW_WRITE}
                    \/ L.read_no_write_count = 0
      ELSE \/ OwnerOf[d] = OwnerOf[Head(L.write)]
           \/ /\ t = TL_WRITE_ALLOW_WRITE
              /\ Empty(L.write_wait)
              /\ HeadType(L.write) = TL_WRITE_ALLOW_WRITE

(* thr_lock: the table is being dropped or altered, new requests fail *)
Refused(L, d, t) ==
    /\ HeadType(L.write) = TL_WRITE_ONLY
    /\ IsRead(t) => OwnerOf[d] # OwnerOf[Head(L.write)]

(* thr_lock: a delayed write lock is queued and the call returns at once *)
DelayedQueued(L, t) ==
    /\ t = TL_WRITE_DELAYED
    /\ HeadType(L.write) # TL_WRITE_ALLOW_READ
    /\ \A e \in ToSet(L.write_wait) : type[e] # TL_WRITE_ALLOW_READ
    /\ ~Empty(L.write) \/ ~Empty(L.read)

(* thr_lock: what TL_WRITE_CONCURRENT_INSERT becomes.  "full" is the       *)
(* engine's answer when check_status is called: no concurrent insert now.  *)
RequestType(L, d, full) ==
    IF /\ type[d] = TL_WRITE_CONCURRENT_INSERT
       /\ \/ LockOf[d] \notin CheckStatus
          \/ Empty(L.write) /\ Empty(L.write_wait) /\ full
      THEN UpgradedCI ELSE type[d]

Granted(L, d, t) ==
    /\ ~Refused(L, d, t) /\ ~DelayedQueued(L, t)
    /\ IF IsRead(t) THEN ReadGranted(L, d, t) ELSE WriteGranted(L, d, t)

MustWait(L, d, t) == ~(Refused(L, d, t) \/ DelayedQueued(L, t) \/ Granted(L, d, t))

(* the trivial deadlock with a cursor of one's own connection *)
OwnDeadlock(L, o) ==
    LET h == IF ~Empty(L.read) THEN L.read ELSE L.write
    IN ~Empty(h) /\ ThreadOf[OwnerOf[Head(h)]] = ThreadOf[o]

-----------------------------------------------------------------------------
(* One call of thr_lock, one action for each way it can go *)

LockGranted(o) ==
    /\ pc[o] = "locking"
    /\ LET d == Cur(o) L == lock[LockOf[d]] IN
       \E full \in BOOLEAN : LET t == RequestType(L, d, full) IN
         /\ Granted(L, d, t)
         /\ type' = [type EXCEPT ![d] = t]
         /\ lock' = [lock EXCEPT ![LockOf[d]] =
              IF IsRead(t)
                THEN [L EXCEPT !.read = Append(@, d),
                               !.read_no_write_count =
                                   @ + (IF t = TL_READ_NO_INSERT THEN 1 ELSE 0)]
                ELSE [L EXCEPT !.write = Append(@, d)]]
         /\ cond' = [cond EXCEPT ![d] = FALSE]
    /\ Advance(o)
    /\ UNCHANGED <<locks, asked, abort>>

LockRefused(o) ==
    /\ pc[o] = "locking"
    /\ LET d == Cur(o) IN
         /\ Refused(lock[LockOf[d]], d, type[d])
         /\ type' = Reopened(o, LockOf[d])
         /\ cond' = [cond EXCEPT ![d] = FALSE]
    /\ Fail(o)
    /\ UNCHANGED <<lock, asked, abort>>

LockDelayedQueued(o) ==
    /\ pc[o] = "locking"
    /\ LET d == Cur(o) L == lock[LockOf[d]] IN
         /\ ~Refused(L, d, type[d]) /\ DelayedQueued(L, type[d])
         /\ lock' = [lock EXCEPT ![LockOf[d]].write_wait = Append(@, d)]
         /\ cond' = [cond EXCEPT ![d] = TRUE]
    /\ Advance(o)
    /\ UNCHANGED <<type, locks, asked, abort>>

(* data->type keeps the requested type: the caller does not reset it *)
LockDeadlock(o) ==
    /\ pc[o] = "locking"
    /\ LET d == Cur(o) L == lock[LockOf[d]] IN
       \E full \in BOOLEAN : LET t == RequestType(L, d, full) IN
         /\ MustWait(L, d, t) /\ OwnDeadlock(L, o)
         /\ type' = [type EXCEPT ![d] = t]
         /\ cond' = [cond EXCEPT ![d] = FALSE]
    /\ Fail(o)
    /\ UNCHANGED <<lock, asked, abort>>

(* wait_for_lock, up to the first pthread_cond_wait; a thread whose abort  *)
(* flag is already set leaves the queue before anybody sees it there       *)
LockWait(o) ==
    /\ pc[o] = "locking"
    /\ LET d == Cur(o) L == lock[LockOf[d]] IN
       \E full \in BOOLEAN : LET t == RequestType(L, d, full) IN
         /\ MustWait(L, d, t) /\ ~OwnDeadlock(L, o)
         /\ IF abort[ThreadOf[o]]
              THEN /\ type' = [type EXCEPT ![d] = TL_UNLOCK]
                   /\ Fail(o)
                   /\ UNCHANGED lock
              ELSE /\ type' = [type EXCEPT ![d] = t]
                   /\ lock' = IF IsRead(t)
                        THEN [lock EXCEPT ![LockOf[d]].read_wait = Append(@, d)]
                        ELSE [lock EXCEPT ![LockOf[d]].write_wait = Append(@, d)]
                   /\ pc' = [pc EXCEPT ![o] = "waiting"]
                   /\ UNCHANGED <<locks, pos>>
         /\ cond' = [cond EXCEPT ![d] = TRUE]
    /\ UNCHANGED <<asked, abort>>

(* wait_for_lock: somebody granted the lock, or aborted the wait *)
WaitEnds(o) ==
    /\ pc[o] = "waiting" /\ ~cond[Cur(o)]
    /\ IF type[Cur(o)] = TL_UNLOCK
         THEN /\ Fail(o)
              /\ type' = Reopened(o, LockOf[Cur(o)])
         ELSE Advance(o) /\ UNCHANGED <<locks, type>>
    /\ UNCHANGED <<lock, cond, asked, abort>>

(* leave whichever list the data is on *)
Unlink(L, d) ==
    [L EXCEPT !.read = Without(@, {d}), !.write = Without(@, {d}),
              !.read_wait = Without(@, {d}), !.write_wait = Without(@, {d})]

(* wait_for_lock: the connection was killed, or the wait for a lock that a *)
(* cursor may be blocking timed out; the waiter just leaves the queue      *)
WaitBroken(o) ==
    /\ pc[o] = "waiting" /\ cond[Cur(o)]
    /\ LET d == Cur(o) IN
         /\ lock' = [lock EXCEPT ![LockOf[d]] = Unlink(@, d)]
         /\ type' = [type EXCEPT ![d] = TL_UNLOCK]
    /\ Fail(o)
    /\ UNCHANGED <<cond, asked, abort>>

WaitKilled(o)   == abort[ThreadOf[o]] /\ WaitBroken(o)
WaitTimedOut(o) == NCursors(ThreadOf[o]) > 0 /\ WaitBroken(o)

(* THD::awake for KILL CONNECTION *)
Kill(t) ==
    /\ t \in Killable /\ ~abort[t]
    /\ abort' = [abort EXCEPT ![t] = TRUE]
    /\ UNCHANGED <<lock, type, cond, pc, locks, pos, asked>>

-----------------------------------------------------------------------------
(* thr_unlock: the released data is gone from its list; who runs next?  S  *)
(* is a record of the THR_LOCK, the types and the wait flags.              *)

(* mutant: the freed no-insert readers are not counted *)
free_all_read_locks_uncounted(S, using_concurrent_insert) ==
    [S EXCEPT !.l.read = @ \o S.l.read_wait, !.l.read_wait = << >>,
              !.cond = [d \in Data |-> @[d] /\ d \notin ToSet(S.l.read_wait)]]

(* free_all_read_locks: all waiting reads run, except TL_READ_NO_INSERT    *)
(* when a concurrent insert or a multi-writer lock was just granted        *)
free_all_read_locks(S, using_concurrent_insert) ==
    LET stays == {d \in ToSet(S.l.read_wait) :
                    using_concurrent_insert /\ S.type[d] = TL_READ_NO_INSERT}
        run   == Without(S.l.read_wait, stays)
        stay  == Without(S.l.read_wait, ToSet(run))
        noIns == {d \in ToSet(run) : S.type[d] = TL_READ_NO_INSERT}
    IN IF Empty(S.l.read_wait) THEN S ELSE
       [S EXCEPT
         !.l.read = @ \o run,
         !.l.read_wait = stay,
         !.l.read_no_write_count = @ + Cardinality(noIns),
         !.l.write_lock_count = IF Empty(stay) THEN 0 ELSE @,
         !.cond = [d \in Data |-> @[d] /\ d \notin ToSet(run)]]

(* how many writers are granted together: one, or a run of multi-writers *)
Batch(S) ==
    LET ww == S.l.write_wait
        multi(i) == S.type[ww[i]] = TL_WRITE_ALLOW_WRITE
    IN CHOOSE n \in 1..Len(ww) :
         /\ \A i \in 1 .. n - 1 : multi(i) /\ multi(i + 1)
         /\ n < Len(ww) => ~(multi(n) /\ multi(n + 1))

(* mutant: the granted writer stays linked in the wait queue *)
GrantWritesLinked(S, t) ==
    [S EXCEPT !.l.write = Append(@, Head(S.l.write_wait)),
              !.type[Head(S.l.write_wait)] = t,
              !.cond[Head(S.l.write_wait)] = FALSE]

(* the first writers of the queue run; t is the type the first one gets *)
GrantWrites(S, t) ==
    LET n == Batch(S)
        run == SubSeq(S.l.write_wait, 1, n)
    IN [S EXCEPT
         !.l.write = @ \o run,
         !.l.write_wait = SubSeq(@, n + 1, Len(@)),
         !.type[Head(S.l.write_wait)] = t,
         !.cond = [d \in Data |-> @[d] /\ d \notin ToSet(run)]]

ConcurrentInsertOrMulti(t) == t \in {TL_WRITE_CONCURRENT_INSERT, TL_WRITE_ALLOW_WRITE}

(* nothing is in use any more: a writer first, unless it has low priority  *)
(* against a high priority reader or writers had too many turns in a row   *)
NextWhenFree(S, full) ==
    LET w  == Head(S.l.write_wait)
        t  == S.type[w]
        t2 == IF t = TL_WRITE_CONCURRENT_INSERT /\ full THEN TL_WRITE ELSE t
        tooMany == S.l.write_lock_count > MaxWriteLockCount
        readers == ~Empty(S.l.read_wait)
        writerFirst ==
            /\ ~Empty(S.l.write_wait)
            /\ \/ t # TL_WRITE_LOW_PRIORITY
               \/ ~readers
               \/ S.type[Head(S.l.read_wait)] < TL_READ_HIGH_PRIORITY
    IN IF ~writerFirst THEN free_all_read_locks(S, FALSE)
       ELSE IF tooMany /\ readers
         THEN free_all_read_locks([S EXCEPT !.l.write_lock_count = 0], FALSE)
       ELSE LET G == GrantWrites([S EXCEPT !.l.write_lock_count =
                                     IF tooMany THEN 0 ELSE @ + 1], t2)
            IN IF t2 >= TL_WRITE_LOW_PRIORITY THEN G
               ELSE free_all_read_locks(G, ConcurrentInsertOrMulti(t2))

(* mutant: readers are not looked at when the last writer leaves *)
NextWhenReadLockedWriters(S, full) ==
    LET t == S.type[Head(S.l.write_wait)]
    IN IF Empty(S.l.write_wait) \/ t > TL_WRITE_DELAYED \/ S.l.read_no_write_count > 0
         THEN S ELSE GrantWrites(S, t)

(* only read locks are in use: a writer that tolerates them may join, and  *)
(* readers may when no writer is waiting                                   *)
NextWhenReadLocked(S, full) ==
    LET t == S.type[Head(S.l.write_wait)]
        joins == /\ t <= TL_WRITE_DELAYED
                 /\ ~ConcurrentInsertOrMulti(t) \/ S.l.read_no_write_count = 0
    IN IF Empty(S.l.write_wait) THEN free_all_read_locks(S, FALSE)
       ELSE IF ~joins THEN S
       ELSE IF t = TL_WRITE_CONCURRENT_INSERT /\ full
         THEN free_all_read_locks(
                [S EXCEPT !.type[Head(S.l.write_wait)] = TL_WRITE], FALSE)
       ELSE free_all_read_locks(GrantWrites(S, t), ConcurrentInsertOrMulti(t))

thr_unlock(d, full) ==
    LET L == Unlink(lock[LockOf[d]], d)
        S == [l |-> [L EXCEPT !.read_no_write_count =
                        @ - (IF type[d] = TL_READ_NO_INSERT THEN 1 ELSE 0)],
              type |-> [type EXCEPT ![d] = TL_UNLOCK],
              cond |-> cond]
    IN CASE ~Empty(L.write) -> S
         [] Empty(L.write) /\ Empty(L.read) -> NextWhenFree(S, full)
         [] OTHER -> NextWhenReadLocked(S, full)

-----------------------------------------------------------------------------
(* The end of a statement, or the clean-up after a failed thr_lock *)

UnlockTables(o) ==
    /\ pc[o] = "locked" /\ ThreadFree(o)
    /\ pc' = [pc EXCEPT ![o] = "unlocking"]
    /\ pos' = [pos EXCEPT ![o] = 1]
    /\ UNCHANGED <<lock, type, cond, locks, asked, abort>>

(* thr_multi_unlock, one element; elements marked TL_UNLOCK are skipped *)
UnlockNext(o) ==
    /\ pc[o] = "unlocking" /\ pos[o] <= Len(locks[o])
    /\ LET d == Cur(o) IN
       IF type[d] = TL_UNLOCK
         THEN UNCHANGED <<lock, type, cond>>
         ELSE \E full \in BOOLEAN : LET S == thr_unlock(d, full) IN
                /\ lock' = [lock EXCEPT ![LockOf[d]] = S.l]
                /\ type' = S.type
                /\ cond' = S.cond
    /\ pos' = [pos EXCEPT ![o] = @ + 1]
    /\ UNCHANGED <<pc, locks, asked, abort>>

(* mysql_lock_tables, or the end of the statement, after the unlock *)
StatementEnds(o) ==
    /\ pc[o] = "unlocking" /\ pos[o] > Len(locks[o])
    /\ pc' = [pc EXCEPT ![o] = "idle"]
    /\ pos' = [pos EXCEPT ![o] = 1]
    /\ locks' = [locks EXCEPT ![o] = << >>]
    /\ asked' = [d \in Data |-> IF OwnerOf[d] = o THEN TL_UNLOCK ELSE asked[d]]
    /\ UNCHANGED <<lock, type, cond, abort>>

-----------------------------------------------------------------------------
(* thr_abort_locks, called by a thread that has the table locked for       *)
(* writing and does not share it with other writers: everybody who waits   *)
(* is thrown out and, by the type of the first write lock, later requests  *)
(* fail                                                                    *)
AbortLocks(o) ==
    /\ o \in Dropper /\ pc[o] = "locked"
    /\ \E d \in ToSet(locks[o]) :
         /\ type[d] \in (TL_WRITE_ALLOW_READ .. TL_WRITE_ONLY) \ {TL_WRITE_DELAYED}
         /\ LET l == LockOf[d] W == Waiting(l) h == Head(lock[l].write) IN
              /\ lock' = [lock EXCEPT ![l].read_wait = << >>, ![l].write_wait = << >>]
              /\ type' = [e \in Data |-> IF e \in W THEN TL_UNLOCK
                                         ELSE IF e = h THEN TL_WRITE_ONLY ELSE type[e]]
              /\ cond' = [e \in Data |-> cond[e] /\ e \notin W]
    /\ UNCHANGED <<pc, locks, pos, asked, abort>>

(* mutant: the aborted waiter keeps its condition *)
AbortLocksForThreadAsleep(o, l, t) ==
    /\ o \in Dropper /\ ThreadOf[o] # t
    /\ pc[o] = "locked" \/ (pc[o] = "idle" /\ ~abort[ThreadOf[o]])
    /\ LET W == {d \in Waiting(l) : ThreadOf[OwnerOf[d]] = t}
       IN /\ W # {}
          /\ lock' = [lock EXCEPT ![l].read_wait = Without(@, W),
                                  ![l].write_wait = Without(@, W)]
          /\ type' = [d \in Data |-> IF d \in W THEN TL_UNLOCK ELSE type[d]]
    /\ UNCHANGED <<cond, pc, locks, pos, asked, abort>>

(* thr_abort_locks_for_thread, from remove_table_from_cache in a statement *)
(* that has locks or needs none                                            *)
AbortLocksForThread(o, l, t) ==
    /\ o \in Dropper /\ ThreadOf[o] # t
    /\ pc[o] = "locked" \/ (pc[o] = "idle" /\ ~abort[ThreadOf[o]])
    /\ LET W == {d \in Waiting(l) : ThreadOf[OwnerOf[d]] = t}
       IN /\ W # {}
          /\ lock' = [lock EXCEPT ![l].read_wait = Without(@, W),
                                  ![l].write_wait = Without(@, W)]
          /\ type' = [d \in Data |-> IF d \in W THEN TL_UNLOCK ELSE type[d]]
          /\ cond' = [d \in Data |-> cond[d] /\ d \notin W]
    /\ UNCHANGED <<pc, locks, pos, asked, abort>>

-----------------------------------------------------------------------------
(* The INSERT DELAYED handler thread: upgrade before it inserts the rows,  *)
(* let waiting readers run now and then                                    *)

(* thr_upgrade_write_delay_lock, up to the wait *)
UpgradeWriteDelayLock(o) ==
    /\ \/ pc[o] = "locked" /\ o \in Delayed
       \/ pc[o] = "upgrade"
    /\ LET d == locks[o][1] l == LockOf[d] IN
       IF type[d] = TL_UNLOCK
         THEN /\ pc' = [pc EXCEPT ![o] = "unlocking"]
              /\ pos' = [pos EXCEPT ![o] = 1]
              /\ UNCHANGED <<lock, type, cond>>
         ELSE /\ type[d] < TL_WRITE_LOW_PRIORITY
              /\ type' = [type EXCEPT ![d] = TL_WRITE]
              /\ IF ~cond[d] /\ Empty(lock[l].read)
                   THEN /\ pc' = [pc EXCEPT ![o] = "locked"]
                        /\ UNCHANGED <<lock, cond>>
                   ELSE /\ pc' = [pc EXCEPT ![o] = "upgrading"]
                        /\ cond' = [cond EXCEPT ![d] = TRUE]
                        /\ lock' = IF cond[d] THEN lock
                             ELSE [lock EXCEPT ![l].write = Without(@, {d}),
                                               ![l].write_wait = <<d>> \o @]
              /\ UNCHANGED pos
    /\ UNCHANGED <<locks, asked, abort>>

(* its wait_for_lock ignores KILL; only a grant or an abort ends it *)
UpgradeEnds(o) ==
    /\ pc[o] = "upgrading" /\ ~cond[locks[o][1]]
    /\ IF type[locks[o][1]] = TL_UNLOCK
         THEN /\ pc' = [pc EXCEPT ![o] = "unlocking"]
              /\ pos' = [pos EXCEPT ![o] = 1]
         ELSE /\ pc' = [pc EXCEPT ![o] = "locked"]
              /\ UNCHANGED pos
    /\ UNCHANGED <<lock, type, cond, locks, asked, abort>>

(* thr_reschedule_write_lock, its first critical section; the upgrade that *)
(* it ends with is a second one                                            *)
RescheduleWriteLock(o) ==
    /\ o \in Delayed /\ pc[o] = "locked"
    /\ LET d == locks[o][1] l == LockOf[d]
           L == lock[l]
           S == [l |-> [L EXCEPT !.write = Without(@, {d}), !.write_wait = <<d>> \o @],
                 type |-> [type EXCEPT ![d] = TL_WRITE_DELAYED],
                 cond |-> [cond EXCEPT ![d] = TRUE]]
           F == free_all_read_locks(S, FALSE)
       IN /\ type[d] = TL_WRITE /\ ~Empty(L.read_wait)
          /\ lock' = [lock EXCEPT ![l] = F.l]
          /\ type' = F.type
          /\ cond' = F.cond
    /\ pc' = [pc EXCEPT ![o] = "upgrade"]
    /\ UNCHANGED <<locks, pos, asked, abort>>

-----------------------------------------------------------------------------
(* the steps a running statement goes on to by itself *)
Continue(o) ==
    \/ LockGranted(o) \/ LockRefused(o) \/ LockDelayedQueued(o)
    \/ LockDeadlock(o) \/ LockWait(o)
    \/ WaitEnds(o) \/ WaitKilled(o) \/ WaitTimedOut(o)
    \/ UnlockTables(o) \/ UnlockNext(o) \/ StatementEnds(o)
    \/ (pc[o] = "upgrade" /\ UpgradeWriteDelayLock(o)) \/ UpgradeEnds(o)

Next ==
    \/ \E o \in Owner :
         \/ LockTables(o) \/ Continue(o)
         \/ (pc[o] = "locked" /\ UpgradeWriteDelayLock(o)) \/ RescheduleWriteLock(o)
         \/ AbortLocks(o)
         \/ \E l \in Lock, t \in Thread : AbortLocksForThread(o, l, t)
    \/ \E t \in Thread : Kill(t)

Spec == Init /\ [][Next]_vars

(* A thread that is inside thr_multi_lock, thr_multi_unlock or the delayed *)
(* handler's lock changes keeps running, and a statement ends.             *)
FairSpec == Spec /\ \A o \in Owner : WF_vars(Continue(o))

-----------------------------------------------------------------------------
(* Properties *)

(* The lists hold lock data of their lock, each at most once and each in   *)
(* at most one list.                                                       *)
TypeOK ==
    /\ \A l \in Lock :
         /\ lock[l] \in [read : Seq(Data), write : Seq(Data), read_wait : Seq(Data),
                         write_wait : Seq(Data), read_no_write_count : Nat,
                         write_lock_count : 0 .. MaxWriteLockCount + 1]
         /\ LET all == lock[l].read \o lock[l].write \o lock[l].read_wait
                         \o lock[l].write_wait
            IN Cardinality(ToSet(all)) = Len(all) /\ \A d \in ToSet(all) : LockOf[d] = l
    /\ type \in [Data -> LockType] /\ asked \in [Data -> LockType]
    /\ cond \in [Data -> BOOLEAN] /\ abort \in [Thread -> BOOLEAN]
    /\ pc \in [Owner -> {"idle", "locking", "waiting", "locked", "unlocking",
                         "upgrade", "upgrading"}]
    /\ locks \in [Owner -> Seq(Data)] /\ pos \in [Owner -> Nat]

(* What two owners may hold together, as check_locks has it: a writer      *)
(* tolerates readers up to TL_WRITE_DELAYED, concurrent inserts and multi- *)
(* writer locks only readers that did not ask for no inserts; only multi-  *)
(* writer locks tolerate each other.  A lock turned into TL_WRITE_ONLY     *)
(* lets its old readers finish.                                            *)
Compatible(d, w) ==
    \/ OwnerOf[d] = OwnerOf[w]
    \/ IF IsRead(type[d])
         THEN \/ type[w] = TL_WRITE_ONLY
              \/ /\ type[w] <= TL_WRITE_DELAYED
                 /\ type[w] \in {TL_WRITE_CONCURRENT_INSERT, TL_WRITE_ALLOW_WRITE} =>
                      type[d] # TL_READ_NO_INSERT
         ELSE type[d] = TL_WRITE_ALLOW_WRITE /\ type[w] = TL_WRITE_ALLOW_WRITE

(* No grant of thr_lock, thr_unlock, free_all_read_locks, the upgrade or   *)
(* the rescheduling of a delayed lock ever lets two owners hold locks on   *)
(* one table that exclude each other: what check_locks and the comment in  *)
(* thr_lock say.                                                           *)
HoldersCompatible ==
    \A l \in Lock : \A w \in ToSet(lock[l].write), d \in InUse(l) : Compatible(d, w)

(* the pair that thr_lock, which tests for TL_WRITE_ALLOW_READ in its      *)
(* place, and thr_unlock let pass                                          *)
Overlooked(d, w) == type[d] = TL_READ_NO_INSERT /\ type[w] = TL_WRITE_ALLOW_WRITE

(* The same of every other pair of lock types, on every path by which a    *)
(* lock comes into use or changes its type.                                *)
HoldersExclude ==
    \A l \in Lock : \A w \in ToSet(lock[l].write), d \in InUse(l) :
        Compatible(d, w) \/ Overlooked(d, w)

(* check_locks: read_no_write_count is the number of TL_READ_NO_INSERT     *)
(* locks in use, whatever list moves, aborts and upgrades happened.        *)
NoInsertCountExact ==
    \A l \in Lock : lock[l].read_no_write_count =
        Cardinality({d \in ToSet(lock[l].read) : type[d] = TL_READ_NO_INSERT})

(* the waits for a table that only a grant or thr_abort_locks ends, since  *)
(* nobody who uses it can be killed or time out and nobody is left to DROP *)
Unbroken(l) ==
    /\ \A d \in Data : LockOf[d] = l =>
         LET t == ThreadOf[OwnerOf[d]] IN t \notin Killable /\ \A c \in Cursor : ThreadOf[c] # t
    /\ \A o \in Dropper : abort[ThreadOf[o]]

(* check_locks, the wait queues: a reader that waits has a reason.  It is  *)
(* a writer in use that the reader cannot join, or a writer that waits for *)
(* readers in use; and nobody waits for a table that nobody uses.          *)
WaitsHaveReason(l) ==
    LET L == lock[l] IN
    IF Empty(L.write)
      THEN /\ Empty(L.read) => Empty(L.read_wait) /\ Empty(L.write_wait)
           /\ Empty(L.write_wait) => Empty(L.read_wait)
      ELSE ~Empty(L.read_wait) => \/ HeadType(L.write) > TL_WRITE_DELAYED
                                 \/ HeadType(L.read_wait) > TL_READ_HIGH_PRIORITY

(* What check_locks says of the wait queues, on every path by which a lock *)
(* is granted, released, aborted or changed; where no wait is broken off.  *)
NoForgottenWaiters == \A l \in Lock : Unbroken(l) => WaitsHaveReason(l)

(* The same although a waiting writer may be killed, time out or be thrown *)
(* out by a DROP.  The code does not keep it: wait_for_lock and            *)
(* thr_abort_locks_for_thread take the writer off its queue and wake no    *)
(* reader behind it.                                                       *)
NobodyForgotten == \A l \in Lock : WaitsHaveReason(l)

(* A statement never works under a weaker lock than it asked for: every    *)
(* element of its lock array is at least of the asked type.                *)
GetsWhatItAsked ==
    \A o \in Owner : pc[o] = "locked" /\ o \notin Delayed =>
        \A d \in ToSet(locks[o]) : asked[d] <= type[d]

(* A waiting owner is linked in the queue of its lock until the grant or   *)
(* the abort that clears data->cond, so that wake-ups find it.             *)
WaitersQueued ==
    \A o \in Owner :
        /\ pc[o] = "waiting" /\ cond[Cur(o)] => Cur(o) \in Waiting(LockOf[Cur(o)])
        /\ pc[o] = "upgrading" /\ cond[locks[o][1]] =>
             locks[o][1] \in ToSet(lock[LockOf[locks[o][1]]].write_wait)

(* No owner that waits for a table lock waits for ever: the sorted order   *)
(* of thr_multi_lock excludes a deadlock, max_write_lock_count keeps       *)
(* writers from starving readers, the queues keep readers from starving    *)
(* writers.                                                                *)
WaitEndsEventually == \A o \in Owner : pc[o] = "waiting" ~> pc[o] # "waiting"

=============================================================================
