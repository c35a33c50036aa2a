-------------------------- MODULE SyncLatchProofs --------------------------
(***************************************************************************)
(* Proofs about SyncLatch, for any number of threads, mutexes and rw-locks *)
(* and any choice of who asks for which of them, on processors with and    *)
(* without the memory barrier.                                             *)
(***************************************************************************)
EXTENDS SyncLatch, FiniteSetTheorems, TLAPS

(* what a thread can be doing with a latch of each kind; the i/o thread    *)
(* never asks for one                                                      *)
Places ==
    /\ \A t \in Threads :
         /\ pc[t] = "idle" <=> obj[t] = None
         /\ pc[t] \in {"got", "reserve", "flag", "retry", "unlock", "read", "clear"} => mode[t] = "mutex"
         /\ pc[t] = "again" => mode[t] # "mutex"
         /\ pc[t] \notin {"idle", "signal"} => (mode[t] = "mutex" <=> obj[t] \in Mutex)
    /\ pc[Io] \in {"idle", "hold", "signal"} /\ mode[Io] \in {"mutex", "x"}
    /\ pc[Io] = "hold" => mode[Io] = "x"

(* the OS mutex of a mutex, from where the threads are *)
Owners ==
    /\ \A m \in Mutex : os[m] # None => obj[os[m]] = m /\ pc[os[m]] \in {"got", "hold", "unlock"}
    /\ \A t \in Threads : obj[t] \in Mutex /\ pc[t] \in {"got", "hold", "unlock"} => os[obj[t]] = t

(* the lock word is set only while its owner is inside *)
Words == \A m \in Mutex : word[m] = 1 => os[m] # None /\ pc[os[m]] = "hold"

(* an rw-lock, from its holders *)
Counted == \A l \in RwLock : rw[l].readers = Cardinality(SHolders(l))
Exclusive ==
    \A l \in RwLock :
        /\ \A t \in XHolders(l) : rw[l].writer = "EX" /\ rw[l].thread = t
        /\ \A t \in XHolders(l) : mode[t] = "passed" => rw[l].pass
        /\ rw[l].writer = "EX" => XHolders(l) # {} \/ rw[l].pass
        /\ rw[l].writer = "EX" <=> rw[l].count # 0
        /\ rw[l].writer = "EX" => rw[l].readers = 0

(* a cell is reserved for the latch its thread waits for *)
Cells == \A t \in Threads : pc[t] \in {"flag", "retry", "sleep"} => cell[t].obj = obj[t]

(* with the barrier nobody reads the waiters field too early *)
Unread == barrier => \A t \in Threads : sees[t] = "unread"

(* MutexNoLostWakeup, from the moment the waiters field is set *)
About(o, S) == \E u \in Threads : obj[u] = o /\ pc[u] \in S
MutexWait(t) ==
    pc[t] \in {"retry", "sleep"} /\ ~cell[t].event /\ obj[t] \in Mutex =>
        \/ About(obj[t], {"clear", "signal"})
        \/ waiters[obj[t]] /\ (pc[t] = "retry" \/ os[obj[t]] # None \/ About(obj[t], {"read"}))
MutexWaits == barrier => \A t \in Threads : MutexWait(t)

LatchInv ==
    /\ TypeOK /\ Places /\ Owners /\ Words /\ Counted /\ Exclusive /\ Cells /\ Unread
    /\ MutexWaits /\ RwNoLostWakeup

-----------------------------------------------------------------------------
(* Facts about the operators *)

(* one thread more or less in a finite set changes its size by one *)
LEMMA CountOne ==
    ASSUME NEW S \in SUBSET Thread, NEW t \in Thread
    PROVE  /\ Cardinality(S) \in Nat /\ Cardinality(S) <= Cardinality(Thread)
           /\ Cardinality(S) = 0 <=> S = {}
           /\ t \notin S => Cardinality(S \cup {t}) = Cardinality(S) + 1
           /\ t \in S => Cardinality(S \ {t}) = Cardinality(S) - 1
<1>1. IsFiniteSet(S) /\ Cardinality(S) <= Cardinality(Thread)
  BY SyncLatchAssumption, FS_Subset
<1>2. Cardinality(S) \in Nat /\ (Cardinality(S) = 0 <=> S = {})
  BY <1>1, FS_CardinalityType, FS_EmptySet
<1> QED
  BY <1>1, <1>2, FS_AddElement, FS_RemoveElement

(* the i/o thread never reads *)
LEMMA ReadersAreThreads ==
    ASSUME Places, NEW l \in RwLock
    PROVE  SHolders(l) \in SUBSET Thread
BY DEF Places, SHolders, Threads

(* the latches are of one kind, and None is not one *)
LEMMA Kinds ==
    /\ Io \in Threads /\ None \notin Threads /\ None \notin Object
    /\ \A o \in Object : o \in Mutex <=> o \notin RwLock
    /\ \A t, o, m : play \in Plays /\ <<t, o, m>> \in play =>
         t \in Thread /\ o \in Object /\ m \in Mode /\ (m = "mutex" <=> o \in Mutex)
<1>1. \A P \in Plays : \A p \in P : p \in Thread \X (Mutex \cup RwLock) \X {"mutex", "s", "x", "passed"}
  BY SyncLatchAssumption
<1>2. \A P \in Plays : \A t, o, m : <<t, o, m>> \in P =>
         t \in Thread /\ o \in Mutex \cup RwLock /\ m \in {"mutex", "s", "x", "passed"}
  BY <1>1
<1>3. \A P \in Plays : \A t, o, m : <<t, o, m>> \in P => (m = "mutex" <=> o \in Mutex)
  BY <1>1, SyncLatchAssumption
<1> QED
  BY <1>2, <1>3, SyncLatchAssumption DEF Object, Threads, Mode

LEMMA LatchInit == Init => LatchInv
<1> SUFFICES ASSUME Init PROVE LatchInv
  OBVIOUS
<1> USE Kinds, SyncLatchAssumption DEF Init
<1>1. TypeOK
  <2>1. Cardinality(Thread) \in Nat
    BY CountOne, FS_CardinalityType
  <2> QED
    BY <2>1 DEF TypeOK, Unlocked, FreeCell, Mode, Threads, Object
<1>2. Places /\ Owners /\ Words /\ Cells /\ Unread
  BY DEF Places, Owners, Words, Cells, Unread, Threads
<1>3. Counted
  <2>1. \A l \in RwLock : SHolders(l) = {}
    BY DEF SHolders
  <2> QED
    BY <2>1, FS_EmptySet DEF Counted, Unlocked
<1>4. Exclusive
  BY DEF Exclusive, XHolders, Unlocked
<1>5. MutexWaits /\ RwNoLostWakeup
  BY DEF MutexWaits, MutexWait, RwNoLostWakeup, Sleeping
<1> QED
  BY <1>1, <1>2, <1>3, <1>4, <1>5 DEF LatchInv

-----------------------------------------------------------------------------
(* The steps of mutex_enter and mutex_exit *)

MutexStep(t) ==
    \/ TestAndSet(t) \/ SetWord(t) \/ SpinFails(t) \/ Reserve(t) \/ SetWaiters(t) \/ RetryFails(t)
    \/ ResetWord(t) \/ ReadEarly(t) \/ UnlockOs(t) \/ GetWaiters(t) \/ ClearWaiters(t)

LEMMA MutexTypes ==
    ASSUME LatchInv, NEW t \in Threads, MutexStep(t)
    PROVE  TypeOK' /\ Places' /\ Owners' /\ Words' /\ Cells' /\ Unread'
<1> USE Kinds DEF LatchInv, MutexStep, TestAndSet, SetWord, SpinFails, Reserve, SetWaiters, RetryFails,
       ResetWord, ReadEarly, UnlockOs, GetWaiters, ClearWaiters, Goto, platform,
       sync_array_free_cell, sync_array_reserve_cell, FreeCell, Sees
<1>0. obj[t] \in Mutex /\ obj[t] \in Object
  BY DEF Places, TypeOK, Object
<1>1. Places'
  BY <1>0 DEF Places, TypeOK
<1>2. Owners'
  <2>1. CASE TestAndSet(t) BY <1>0, <2>1 DEF Owners, TypeOK
  <2>2. CASE UnlockOs(t) BY <1>0, <2>2 DEF Owners, TypeOK
  <2>3. CASE os' = os BY <1>0, <2>3 DEF Owners, TypeOK
  <2> QED BY <2>1, <2>2, <2>3
<1>3. Words'
  BY <1>0 DEF Words, Owners, Places, TypeOK
<1>4. Cells'
  BY <1>0 DEF Cells, TypeOK
<1>5. Unread'
  BY <1>0 DEF Unread, TypeOK
<1>6. TypeOK'
  <2>1. CASE TestAndSet(t) BY <1>0, <1>2, <1>3, <2>1 DEF TypeOK, Owners, Words
  <2>2. CASE SetWord(t) BY <1>0, <1>2, <1>3, <2>2 DEF TypeOK, Owners, Words
  <2>3. CASE SpinFails(t) BY <1>0, <1>2, <1>3, <2>3 DEF TypeOK, Owners, Words
  <2>4. CASE Reserve(t) BY <1>0, <1>2, <1>3, <2>4 DEF TypeOK, Owners, Words
  <2>5. CASE SetWaiters(t) BY <1>0, <1>2, <1>3, <2>5 DEF TypeOK, Owners, Words
  <2>6. CASE RetryFails(t) BY <1>0, <1>2, <1>3, <2>6 DEF TypeOK, Owners, Words
  <2>7. CASE ResetWord(t) BY <1>0, <1>2, <1>3, <2>7 DEF TypeOK, Owners, Words
  <2>8. CASE ReadEarly(t) BY <1>0, <1>2, <1>3, <2>8 DEF TypeOK, Owners, Words
  <2>9. CASE UnlockOs(t) BY <1>0, <1>2, <1>3, <2>9 DEF TypeOK, Owners, Words
  <2>10. CASE GetWaiters(t) BY <1>0, <1>2, <1>3, <2>10 DEF TypeOK, Owners, Words
  <2>11. CASE ClearWaiters(t) BY <1>0, <1>2, <1>3, <2>11 DEF TypeOK, Owners, Words
  <2> QED BY <2>1, <2>2, <2>3, <2>4, <2>5, <2>6, <2>7, <2>8, <2>9, <2>10, <2>11
<1> QED
  BY <1>1, <1>2, <1>3, <1>4, <1>5, <1>6

(* the rw-locks do not change when their holders and their fields do not *)
LEMMA SameHolders ==
    ASSUME LatchInv, rw' = rw,
           \A l \in RwLock : /\ SHolders(l)' = SHolders(l) /\ XHolders(l)' = XHolders(l)
                             /\ \A u \in XHolders(l) : mode'[u] = mode[u]
    PROVE  Counted' /\ Exclusive'
BY DEF LatchInv, Counted, Exclusive

LEMMA MutexWakeups ==
    ASSUME LatchInv, NEW t \in Threads, MutexStep(t)
    PROVE  Counted' /\ Exclusive' /\ MutexWaits' /\ RwNoLostWakeup'
<1> USE Kinds DEF LatchInv, MutexStep, TestAndSet, SetWord, SpinFails, Reserve, SetWaiters, RetryFails,
       ResetWord, ReadEarly, UnlockOs, GetWaiters, ClearWaiters, Goto, platform,
       sync_array_free_cell, sync_array_reserve_cell, FreeCell, Sees
<1>0. obj[t] \in Mutex /\ obj[t] \in Object /\ mode[t] = "mutex" /\ mode' = mode /\ rw' = rw
  BY DEF Places, TypeOK, Object
<1>1. Counted' /\ Exclusive'
  <2>1. \A l \in RwLock : SHolders(l)' = SHolders(l) /\ XHolders(l)' = XHolders(l)
    BY <1>0 DEF SHolders, XHolders, TypeOK
  <2> QED
    BY <1>0, <2>1, SameHolders
<1>2. RwNoLostWakeup'
  <2>1. /\ \A l \in RwLock : waiters'[l] = waiters[l]
        /\ obj'[t] \in {obj[t], None}
        /\ \A u \in Threads \ {t} : obj'[u] = obj[u] /\ pc'[u] = pc[u] /\ cell'[u] = cell[u]
    <3>1. \A l \in RwLock : waiters'[l] = waiters[l]
      BY <1>0 DEF TypeOK, Object
    <3>2. obj'[t] \in {obj[t], None} /\ \A u \in Threads \ {t} : obj'[u] = obj[u]
      BY <1>0 DEF TypeOK
    <3>3. \A u \in Threads \ {t} : pc'[u] = pc[u]
      BY <1>0 DEF TypeOK
    <3>4. \A u \in Threads \ {t} : cell'[u] = cell[u]
      BY <1>0 DEF TypeOK
    <3> QED BY <3>1, <3>2, <3>3, <3>4
  <2>2. obj[t] \notin RwLock /\ obj'[t] \notin RwLock
    BY <1>0, <2>1, SyncLatchAssumption
  <2>3. \A u \in Threads : obj'[u] \in RwLock => obj'[u] = obj[u] /\ u # t /\ pc'[u] = pc[u] /\ cell'[u] = cell[u]
    BY <2>1, <2>2
  <2>4. \A u \in Threads : obj[u] \in RwLock => obj'[u] = obj[u] /\ pc'[u] = pc[u]
    BY <2>1, <2>2
  <2> QED
    BY <1>0, <2>1, <2>3, <2>4 DEF RwNoLostWakeup, Succeeds, Sleeping
<1>3. MutexWaits'
  <2> SUFFICES ASSUME barrier, NEW u \in Threads PROVE MutexWait(u)'
    BY DEF MutexWaits
  <2> USE <1>0 DEF MutexWait
  <2>1. CASE TestAndSet(t) BY <2>1 DEF MutexWaits, About, TypeOK, Unread
  <2>2. CASE SetWord(t) BY <1>0, <2>2 DEF MutexWaits, About, TypeOK, Unread
  <2>3. CASE SpinFails(t) BY <1>0, <2>3 DEF MutexWaits, About, TypeOK, Unread
  <2>4. CASE Reserve(t) BY <1>0, <2>4 DEF MutexWaits, About, TypeOK, Unread
  <2>5. CASE SetWaiters(t) BY <1>0, <2>5 DEF MutexWaits, About, TypeOK, Unread
  <2>6. CASE RetryFails(t) BY <1>0, <2>6 DEF MutexWaits, About, TypeOK, Unread
  <2>7. CASE ResetWord(t) BY <1>0, <2>7 DEF MutexWaits, About, TypeOK, Unread
  <2>8. CASE ReadEarly(t) BY <1>0, <2>8 DEF MutexWaits, About, TypeOK, Unread
  <2>9. CASE UnlockOs(t)
    <3>1. pc[t] = "unlock" /\ pc'[t] = "read" /\ obj' = obj /\ waiters' = waiters /\ cell' = cell
      BY <2>9 DEF TypeOK
    <3>2. \A v \in Threads \ {t} : pc'[v] = pc[v]
      BY <2>9 DEF TypeOK
    <3>3. CASE obj[u] = obj[t]
      BY <2>9, <3>1, <3>2, <3>3 DEF MutexWaits, About
    <3>4. CASE obj[u] # obj[t]
      <4>1. \A v \in Threads : obj[v] = obj[u] => pc'[v] = pc[v]
        BY <3>2, <3>4
      <4>2. obj[u] \in Mutex => os'[obj[u]] = os[obj[u]]
        BY <2>9, <3>4 DEF TypeOK
      <4> QED
        BY <3>1, <4>1, <4>2 DEF MutexWaits, About
    <3> QED
      BY <3>3, <3>4
  <2>10. CASE GetWaiters(t)
    <3>1. /\ pc[t] = "read" /\ waiters' = waiters /\ os' = os /\ cell' = cell
          /\ waiters[obj[t]] => obj'[t] = obj[t] /\ pc'[t] = "clear"
          /\ pc'[t] \in {"clear", "idle"}
      BY <2>10 DEF TypeOK, Unread
    <3>2. \A v \in Threads \ {t} : pc'[v] = pc[v] /\ obj'[v] = obj[v]
      BY <2>10 DEF TypeOK
    <3>3. u # t => MutexWait(u) /\ pc'[u] = pc[u] /\ obj'[u] = obj[u]
      BY <3>2 DEF MutexWaits
    <3> QED
      BY <3>1, <3>2, <3>3 DEF About
  <2>11. CASE ClearWaiters(t)
    <3>1. pc[t] = "clear" /\ pc'[t] = "signal" /\ obj' = obj /\ os' = os /\ cell' = cell
      BY <2>11 DEF TypeOK
    <3>2. \A v \in Threads \ {t} : pc'[v] = pc[v]
      BY <2>11 DEF TypeOK
    <3>3. CASE obj[u] = obj[t]
      BY <3>1, <3>2, <3>3 DEF MutexWaits, About
    <3>4. CASE obj[u] # obj[t]
      <4>1. \A v \in Threads : obj[v] = obj[u] => pc'[v] = pc[v]
        BY <3>2, <3>4
      <4>2. obj[u] \in Mutex => waiters'[obj[u]] = waiters[obj[u]]
        BY <2>11, <3>4 DEF TypeOK, Object
      <4> QED
        BY <3>1, <4>1, <4>2 DEF MutexWaits, About
    <3> QED
      BY <3>3, <3>4
  <2> QED BY <2>1, <2>2, <2>3, <2>4, <2>5, <2>6, <2>7, <2>8, <2>9, <2>10, <2>11
<1> QED
  BY <1>1, <1>2, <1>3

-----------------------------------------------------------------------------
(* The steps of the wait array, and a thread that asks for a latch *)

WaitStep ==
    \/ \E t \in Threads : WaitEvent(t) \/ sync_array_signal_object(t)
    \/ \E t \in Thread, o \in Object, m \in Mode : Request(t, o, m)
    \/ sync_arr_wake_threads_if_sema_free

(* waking threads changes nothing but the event of their cells *)
LEMMA SetEventsFacts ==
    ASSUME TypeOK, NEW T, SetEvents(T)
    PROVE  /\ cell' \in [Threads -> [obj : Object \cup {None}, event : BOOLEAN]]
           /\ \A u \in Threads : cell'[u].obj = cell[u].obj
           /\ \A u \in Threads : cell'[u].event <=> (u \in T \/ cell[u].event)
<1>1. \A u \in Threads : cell[u] \in [obj : Object \cup {None}, event : BOOLEAN]
  BY DEF TypeOK
<1>2. \A u \in Threads : cell'[u] = IF u \in T THEN [cell[u] EXCEPT !.event = TRUE] ELSE cell[u]
  BY DEF SetEvents
<1>3. \A u \in Threads : cell'[u] \in [obj : Object \cup {None}, event : BOOLEAN]
  BY <1>1, <1>2
<1>4. cell' = [u \in Threads |-> cell'[u]]
  BY DEF SetEvents
<1>5. \A u \in Threads : u \in T => cell'[u].event /\ cell'[u].obj = cell[u].obj
  BY <1>1, <1>2
<1> QED
  BY <1>2, <1>3, <1>4, <1>5

LEMMA WaitStepKeeps ==
    ASSUME LatchInv, WaitStep
    PROVE  LatchInv'
<1> USE Kinds DEF LatchInv, Goto, platform, FreeCell
<1>1. ASSUME NEW t \in Threads, WaitEvent(t)
      PROVE  LatchInv'
  <2> USE <1>1 DEF WaitEvent, sync_array_free_cell
  <2>1. TypeOK' /\ Places' /\ Cells' /\ Unread'
    BY DEF TypeOK, Places, Cells, Unread
  <2>2. Owners' /\ Words'
    BY DEF Owners, Words, TypeOK
  <2>3. \A l \in RwLock : SHolders(l)' = SHolders(l) /\ XHolders(l)' = XHolders(l)
    BY DEF SHolders, XHolders, TypeOK
  <2>4. Counted' /\ Exclusive'
    BY <2>3, SameHolders
  <2>5. MutexWaits'
    BY DEF MutexWaits, MutexWait, About, TypeOK
  <2>6. RwNoLostWakeup'
    BY DEF RwNoLostWakeup, Succeeds, Sleeping, TypeOK
  <2> QED
    BY <2>1, <2>2, <2>4, <2>5, <2>6
<1>2. ASSUME NEW t \in Threads, sync_array_signal_object(t)
      PROVE  LatchInv'
  <2> USE <1>2 DEF sync_array_signal_object
  <2>0. /\ cell' \in [Threads -> [obj : Object \cup {None}, event : BOOLEAN]]
        /\ \A u \in Threads : cell'[u].obj = cell[u].obj
        /\ \A u \in Threads : cell'[u].event <=> (cell[u].obj = obj[t] \/ cell[u].event)
    BY SetEventsFacts
  <2>1. TypeOK' /\ Unread'
    BY <2>0, ZenonT(40) DEF TypeOK, Unread
  <2>2. Places' /\ Cells'
    BY <2>0 DEF TypeOK, Places, Cells
  <2>3. Owners' /\ Words'
    BY DEF Owners, Words, TypeOK
  <2>4. \A l \in RwLock : SHolders(l)' = SHolders(l) /\ XHolders(l)' = XHolders(l)
    BY DEF SHolders, XHolders, TypeOK
  <2>5. Counted' /\ Exclusive'
    BY <2>4, SameHolders
  <2>6. /\ pc'[t] = "idle" /\ obj'[t] = None
        /\ \A v \in Threads \ {t} : pc'[v] = pc[v] /\ obj'[v] = obj[v]
    BY DEF TypeOK
  <2>7. \A u \in Threads : pc'[u] \in {"retry", "sleep"} /\ ~cell'[u].event =>
            obj'[u] = obj[u] /\ obj[u] # obj[t] /\ u # t /\ pc'[u] = pc[u] /\ ~cell[u].event
    BY <2>0, <2>6 DEF Cells
  <2>8. MutexWaits'
    BY <2>6, <2>7 DEF MutexWaits, MutexWait, About
  <2>9. RwNoLostWakeup'
    BY <2>6, <2>7 DEF RwNoLostWakeup, Succeeds, Sleeping
  <2> QED
    BY <2>1, <2>2, <2>3, <2>5, <2>8, <2>9
<1>3. ASSUME NEW t \in Thread, NEW o \in Object, NEW m \in Mode, Request(t, o, m)
      PROVE  LatchInv'
  <2> USE <1>3 DEF Request, Threads
  <2>0. m = "mutex" <=> o \in Mutex
    BY DEF TypeOK
  <2>1. TypeOK' /\ Cells' /\ Unread'
    BY DEF TypeOK, Cells, Unread
  <2>7. Places'
    BY <2>0, SyncLatchAssumption DEF TypeOK, Places
  <2>2. Owners' /\ Words'
    BY DEF Owners, Words, TypeOK
  <2>3. \A l \in RwLock : SHolders(l)' = SHolders(l) /\ XHolders(l)' = XHolders(l)
    BY DEF SHolders, XHolders, TypeOK
  <2>4. Counted' /\ Exclusive'
    BY <2>3, SameHolders DEF TypeOK, XHolders
  <2>5. MutexWaits'
    BY DEF MutexWaits, MutexWait, About, TypeOK
  <2>6. RwNoLostWakeup'
    BY DEF RwNoLostWakeup, Succeeds, Sleeping, TypeOK
  <2> QED
    BY <2>1, <2>2, <2>4, <2>5, <2>6, <2>7
<1>4. ASSUME sync_arr_wake_threads_if_sema_free
      PROVE  LatchInv'
  <2> USE <1>4 DEF sync_arr_wake_threads_if_sema_free
  <2>0. /\ cell' \in [Threads -> [obj : Object \cup {None}, event : BOOLEAN]]
        /\ \A u \in Threads : cell'[u].obj = cell[u].obj
        /\ \A u \in Threads : cell[u].event => cell'[u].event
    BY SetEventsFacts
  <2>1. TypeOK' /\ Places' /\ Cells' /\ Unread'
    BY <2>0 DEF TypeOK, Places, Cells, Unread
  <2>2. Owners' /\ Words'
    BY DEF Owners, Words, TypeOK
  <2>3. \A l \in RwLock : SHolders(l)' = SHolders(l) /\ XHolders(l)' = XHolders(l)
    BY DEF SHolders, XHolders, TypeOK
  <2>4. Counted' /\ Exclusive'
    BY <2>3, SameHolders
  <2>5. MutexWaits'
    BY <2>0 DEF MutexWaits, MutexWait, About
  <2>6. RwNoLostWakeup'
    BY <2>0 DEF RwNoLostWakeup, Succeeds, Sleeping
  <2> QED
    BY <2>1, <2>2, <2>4, <2>5, <2>6
<1> QED
  BY <1>1, <1>2, <1>3, <1>4 DEF WaitStep

-----------------------------------------------------------------------------
(* The steps of the rw-locks *)

(* what one of them leaves alone: the mutexes and the other threads *)
Apart(t) ==
    /\ os' = os /\ word' = word /\ sees' = sees /\ barrier' = barrier /\ play' = play
    /\ t \in Threads /\ obj[t] \notin Mutex /\ obj'[t] \notin Mutex
    /\ \A u \in Threads \ {t} : pc'[u] = pc[u] /\ obj'[u] = obj[u] /\ mode'[u] = mode[u] /\ cell'[u] = cell[u]
    /\ \A m \in Mutex : waiters'[m] = waiters[m]

LEMMA ApartKeeps ==
    ASSUME LatchInv, NEW t, Apart(t)
    PROVE  Owners' /\ Words' /\ MutexWaits' /\ Unread'
<1> USE Kinds DEF LatchInv, Apart
<1>1. \A m \in Mutex : os[m] # None => os[m] \in Threads \ {t}
  BY DEF Owners, TypeOK
<1>2. \A u \in Threads : obj'[u] \in Mutex => u # t
  OBVIOUS
<1>3. Owners'
  BY <1>1, <1>2 DEF Owners
<1>4. Words'
  BY <1>1 DEF Words
<1>5. Unread'
  BY DEF Unread
<1>6. MutexWaits'
  <2> SUFFICES ASSUME barrier, NEW u \in Threads PROVE MutexWait(u)'
    BY DEF MutexWaits
  <2>1. CASE u = t BY <2>1 DEF MutexWait
  <2>2. CASE u # t
    <3>1. obj[u] \in Mutex => \A v \in Threads : obj[v] = obj[u] => v # t
      OBVIOUS
    <3> QED BY <2>2, <3>1 DEF MutexWaits, MutexWait, About
  <2> QED BY <2>1, <2>2
<1> QED
  BY <1>3, <1>4, <1>5, <1>6

LockRecord == [writer : {"NOT_LOCKED", "EX", "WAIT_EX"}, thread : Threads \cup {None},
               count : Nat, pass : BOOLEAN, readers : Nat]

LEMMA LockRecords ==
    ASSUME LatchInv, NEW l \in RwLock
    PROVE  /\ rw[l] \in LockRecord /\ rw[l].count <= MaxDepth
           /\ SHolders(l) \in SUBSET Thread /\ IsFiniteSet(SHolders(l))
<1>1. Cardinality(Thread) \in Nat /\ MaxDepth \in Nat
  BY SyncLatchAssumption, FS_CardinalityType
<1>2. rw[l] \in LockRecord /\ rw[l].count <= MaxDepth
  BY <1>1 DEF LatchInv, TypeOK, LockRecord
<1>3. SHolders(l) \in SUBSET Thread
  BY ReadersAreThreads DEF LatchInv
<1> QED
  BY <1>2, <1>3, SyncLatchAssumption, FS_Subset

(* rw_lock_s_lock_low and rw_lock_x_lock_low *)
LEMMA AttemptFacts ==
    ASSUME NEW t \in Threads, mode[t] \in {"s", "x", "passed"}, NEW l \in LockRecord
    PROVE  /\ Attempt(t, l) \in LockRecord
           /\ Succeeds(t, l) /\ mode[t] = "s" =>
                /\ l.writer = "NOT_LOCKED" /\ Attempt(t, l).writer = "NOT_LOCKED"
                /\ Attempt(t, l).readers = l.readers + 1 /\ Attempt(t, l).count = l.count
           /\ Succeeds(t, l) /\ mode[t] # "s" =>
                /\ l.writer # "EX" /\ l.readers = 0
                /\ Attempt(t, l).writer = "EX" /\ Attempt(t, l).thread = t
                /\ Attempt(t, l).count = l.count + 1 /\ Attempt(t, l).readers = 0
                /\ (Attempt(t, l).pass <=> mode[t] = "passed")
           /\ ~Succeeds(t, l) =>
                /\ Attempt(t, l).writer # "NOT_LOCKED"
                /\ Attempt(t, l).readers = l.readers /\ Attempt(t, l).count = l.count
                /\ Attempt(t, l).writer = "EX" <=> l.writer = "EX"
                /\ l.writer = "EX" => Attempt(t, l) = l
           /\ \A u \in Threads : ~Succeeds(u, l) => ~Succeeds(u, Attempt(t, l))
<1> USE DEF LockRecord
<1>1. CASE Succeeds(t, l) /\ mode[t] = "s"
  <2>1. Attempt(t, l) = [l EXCEPT !.readers = @ + 1]
    BY <1>1 DEF Attempt
  <2> QED BY <1>1, <2>1 DEF Succeeds
<1>2. CASE Succeeds(t, l) /\ mode[t] # "s"
  <2>1. Attempt(t, l) = [l EXCEPT !.writer = "EX", !.thread = t, !.count = @ + 1, !.pass = (mode[t] = "passed")]
    BY <1>2 DEF Attempt
  <2>2. \A p \in BOOLEAN : LET r == [l EXCEPT !.writer = "EX", !.thread = t, !.count = @ + 1, !.pass = p]
                            IN /\ r.writer = "EX" /\ r.thread = t
                               /\ r.count = l.count + 1 /\ r.readers = l.readers /\ r.pass = p
    OBVIOUS
  <2>5. \A p \in BOOLEAN, c \in Nat :
            [l EXCEPT !.writer = "EX", !.thread = t, !.count = c, !.pass = p] \in LockRecord
    OBVIOUS
  <2>6. l.count + 1 \in Nat
    OBVIOUS
  <2>3. l.writer # "EX" /\ l.readers = 0
    BY <1>2 DEF Succeeds
  <2>4. (mode[t] = "passed") \in BOOLEAN
    OBVIOUS
  <2> HIDE DEF LockRecord
  <2>7. Attempt(t, l) \in LockRecord
    BY <2>1, <2>4, <2>5, <2>6
  <2>8. Attempt(t, l).writer = "EX"
    BY <2>1, <2>2, <2>4
  <2>9. \A u \in Threads : ~Succeeds(u, Attempt(t, l))
    BY <2>8 DEF Succeeds
  <2> QED BY <1>2, <2>1, <2>2, <2>3, <2>4, <2>7, <2>9
<1>3. CASE ~Succeeds(t, l) /\ mode[t] # "s" /\ l.writer = "NOT_LOCKED"
  <2>1. Attempt(t, l) = [l EXCEPT !.writer = "WAIT_EX", !.thread = t, !.pass = (mode[t] = "passed")]
    BY <1>3 DEF Attempt
  <2>2. Attempt(t, l).writer = "WAIT_EX" /\ Attempt(t, l).readers = l.readers /\ Attempt(t, l).thread = t
    BY <2>1
  <2>3. l.readers # 0
    BY <1>3 DEF Succeeds
  <2>4. \A u \in Threads : ~Succeeds(u, Attempt(t, l))
    BY <2>2, <2>3 DEF Succeeds
  <2> QED BY <1>3, <2>1, <2>4
<1>4. CASE ~Succeeds(t, l) /\ (mode[t] = "s" \/ l.writer # "NOT_LOCKED")
  <2>1. Attempt(t, l) = l
    BY <1>4 DEF Attempt
  <2>2. l.writer # "NOT_LOCKED"
    BY <1>4 DEF Succeeds
  <2> QED BY <1>4, <2>1, <2>2
<1> QED
  BY <1>1, <1>2, <1>3, <1>4

(* a changed rw-lock has its type when its count is bounded and its readers are threads *)
LEMMA LockTypes ==
    ASSUME LatchInv, Places', Counted', NEW l \in RwLock, NEW a \in LockRecord, a.count <= MaxDepth,
           rw' = [rw EXCEPT ![l] = a]
    PROVE  rw' \in [RwLock -> [writer : {"NOT_LOCKED", "EX", "WAIT_EX"}, thread : Threads \cup {None},
                               count : 0 .. MaxDepth, pass : BOOLEAN, readers : 0 .. Cardinality(Thread)]]
<1> DEFINE R == [writer : {"NOT_LOCKED", "EX", "WAIT_EX"}, thread : Threads \cup {None},
                 count : 0 .. MaxDepth, pass : BOOLEAN, readers : 0 .. Cardinality(Thread)]
<1>1. rw \in [RwLock -> R]
  BY DEF LatchInv, TypeOK
<1>2. Cardinality(Thread) \in Nat /\ MaxDepth \in Nat
  BY SyncLatchAssumption, FS_CardinalityType
<1>3. a.readers = Cardinality(SHolders(l)')
  <2> HIDE DEF R
  <2> QED BY <1>1 DEF Counted
<1>4. SHolders(l)' \in SUBSET Thread
  BY DEF Places, SHolders, Threads
<1>5. IsFiniteSet(SHolders(l)') /\ Cardinality(SHolders(l)') <= Cardinality(Thread)
  BY <1>4, SyncLatchAssumption, FS_Subset
<1>6. a \in R
  BY <1>2, <1>3, <1>5 DEF LockRecord
<1> HIDE DEF R
<1>7. rw' \in [RwLock -> R]
  BY <1>1, <1>6
<1> QED
  BY <1>7 DEF R

(* the attempts to lock, before and after the spin *)
LEMMA TryKeeps ==
    ASSUME LatchInv, NEW t \in Threads, TryRw(t) \/ TryRwAgain(t), NEW l, l = obj[t]
    PROVE  LatchInv'
<1> USE Kinds DEF LatchInv
<1>1. l \in RwLock /\ l \in Object /\ mode[t] \in {"s", "x", "passed"} /\ t \in Thread /\ pc[t] \in {"try", "again"}
  BY DEF TryRw, TryRwAgain, Places, TypeOK, Mode, Threads, Object
<1>2. /\ rw[l] \in LockRecord /\ rw'[l] = Attempt(t, rw[l])
      /\ \A k \in RwLock \ {l} : rw'[k] = rw[k]
      /\ rw' = [k \in RwLock |-> rw'[k]]
  BY <1>1, LockRecords DEF TryRw, TryRwAgain, TypeOK
<1>3. /\ os' = os /\ word' = word /\ sees' = sees /\ barrier' = barrier /\ play' = play
      /\ obj' = obj /\ mode' = mode
      /\ pc' = [pc EXCEPT ![t] = pc'[t]]
  BY DEF TryRw, TryRwAgain, platform, Goto, TypeOK
<1>4. IF Succeeds(t, rw[l])
      THEN pc'[t] = "hold" /\ waiters' = waiters /\ cell' = cell
      ELSE \/ pc'[t] = "again" /\ waiters' = waiters /\ cell' = cell
           \/ /\ pc'[t] = "sleep" /\ waiters' = [waiters EXCEPT ![l] = TRUE]
              /\ cell' = [cell EXCEPT ![t] = [obj |-> l, event |-> FALSE]]
  BY DEF TryRw, TryRwAgain, platform, Goto, TypeOK, sync_array_reserve_cell
<1>5. Apart(t)
  <2>1. \A u \in Threads \ {t} : pc'[u] = pc[u]
    BY <1>3 DEF TypeOK
  <2>2. \A u \in Threads \ {t} : cell'[u] = cell[u]
    BY <1>4 DEF TypeOK
  <2>3. \A m \in Mutex : waiters'[m] = waiters[m]
    BY <1>1, <1>4 DEF TypeOK, Object
  <2> QED
    BY <1>1, <1>3, <2>1, <2>2, <2>3 DEF Apart
<1>6. Owners' /\ Words' /\ MutexWaits' /\ Unread'
  BY <1>5, ApartKeeps
<1>7. Places' /\ Cells'
  <2>1. Places'
    BY <1>1, <1>3, <1>4 DEF Places, TypeOK
  <2>2. Cells'
    BY <1>1, <1>3, <1>4 DEF Cells, TypeOK
  <2> QED BY <2>1, <2>2
<1>8. /\ \A k \in RwLock : Succeeds(t, rw[l]) /\ k = l /\ mode[t] = "s" =>
            SHolders(k)' = SHolders(k) \cup {t} /\ t \notin SHolders(k) /\ XHolders(k)' = XHolders(k)
      /\ \A k \in RwLock : Succeeds(t, rw[l]) /\ k = l /\ mode[t] # "s" =>
            SHolders(k)' = SHolders(k) /\ XHolders(k)' = XHolders(k) \cup {t}
      /\ \A k \in RwLock : ~Succeeds(t, rw[l]) \/ k # l =>
            SHolders(k)' = SHolders(k) /\ XHolders(k)' = XHolders(k)
  BY <1>1, <1>3, <1>4 DEF SHolders, XHolders, TypeOK
<1> DEFINE r == rw[l]
<1> DEFINE a == Attempt(t, rw[l])
<1>9. /\ a \in LockRecord /\ r \in LockRecord
      /\ Succeeds(t, r) /\ mode[t] = "s" =>
            r.writer = "NOT_LOCKED" /\ a.writer = "NOT_LOCKED" /\ a.readers = r.readers + 1 /\ a.count = r.count
      /\ Succeeds(t, r) /\ mode[t] # "s" =>
            /\ r.writer # "EX" /\ r.readers = 0 /\ a.writer = "EX" /\ a.thread = t
            /\ a.count = r.count + 1 /\ a.readers = 0 /\ (a.pass <=> mode[t] = "passed")
      /\ ~Succeeds(t, r) =>
            /\ a.writer # "NOT_LOCKED" /\ a.readers = r.readers /\ a.count = r.count
            /\ a.writer = "EX" <=> r.writer = "EX"
            /\ r.writer = "EX" => a = r
      /\ \A u \in Threads : ~Succeeds(u, r) => ~Succeeds(u, a)
  BY <1>1, <1>2, AttemptFacts
<1>10. rw'[l] = a /\ rw[l] = r
  BY <1>2
<1>11. Counted'
  <2>1. \A k \in RwLock \ {l} : rw'[k].readers = Cardinality(SHolders(k)')
    BY <1>2, <1>8 DEF Counted
  <2>2. rw'[l].readers = Cardinality(SHolders(l)')
    <3>1. SHolders(l) \in SUBSET Thread
      BY <1>1, LockRecords
    <3>2. r.readers = Cardinality(SHolders(l))
      BY <1>1 DEF Counted
    <3> HIDE DEF a, r
    <3>3. CASE Succeeds(t, r) /\ mode[t] = "s"
      <4>1. Cardinality(SHolders(l) \cup {t}) = Cardinality(SHolders(l)) + 1
        BY <1>1, <1>8, <3>1, <3>3, CountOne DEF r
      <4> QED
        BY <1>1, <1>8, <1>9, <1>10, <3>2, <3>3, <4>1 DEF r
    <3>4. CASE Succeeds(t, r) /\ mode[t] # "s"
      BY <1>1, <1>8, <1>9, <1>10, <3>2, <3>4 DEF r
    <3>5. CASE ~Succeeds(t, r)
      BY <1>1, <1>8, <1>9, <1>10, <3>2, <3>5 DEF r
    <3> QED BY <3>3, <3>4, <3>5
  <2> QED
    BY <2>1, <2>2 DEF Counted
<1>12. Exclusive'
  <2>1. ASSUME NEW k \in RwLock \ {l}
        PROVE  /\ \A u \in XHolders(k)' : rw'[k].writer = "EX" /\ rw'[k].thread = u
               /\ \A u \in XHolders(k)' : mode'[u] = "passed" => rw'[k].pass
               /\ rw'[k].writer = "EX" => XHolders(k)' # {} \/ rw'[k].pass
               /\ rw'[k].writer = "EX" <=> rw'[k].count # 0
               /\ rw'[k].writer = "EX" => rw'[k].readers = 0
    BY <1>2, <1>3, <1>8, <2>1 DEF Exclusive
  <2>2. /\ \A u \in XHolders(l) : r.writer = "EX" /\ r.thread = u
        /\ \A u \in XHolders(l) : mode[u] = "passed" => r.pass
        /\ r.writer = "EX" => XHolders(l) # {} \/ r.pass
        /\ r.writer = "EX" <=> r.count # 0
        /\ r.writer = "EX" => r.readers = 0
    BY <1>1 DEF Exclusive
  <2>3. /\ \A u \in XHolders(l)' : a.writer = "EX" /\ a.thread = u
        /\ \A u \in XHolders(l)' : mode[u] = "passed" => a.pass
        /\ a.writer = "EX" => XHolders(l)' # {} \/ a.pass
        /\ a.writer = "EX" <=> a.count # 0
        /\ a.writer = "EX" => a.readers = 0
    <3> HIDE DEF a
    <3>1. CASE Succeeds(t, r) /\ mode[t] = "s"
      BY <1>1, <1>8, <1>9, <2>2, <3>1 DEF r
    <3>2. CASE Succeeds(t, r) /\ mode[t] # "s"
      <4>1. XHolders(l)' = {t} /\ r.count = 0
        BY <1>1, <1>8, <2>2, <1>9, <3>2 DEF LockRecord
      <4> QED
        BY <1>9, <3>2, <4>1 DEF LockRecord
    <3>3. CASE ~Succeeds(t, r)
      BY <1>1, <1>8, <1>9, <2>2, <3>3 DEF r
    <3> QED BY <3>1, <3>2, <3>3
  <2> HIDE DEF a, r
  <2> QED
    BY <1>3, <1>10, <2>1, <2>3 DEF Exclusive
<1>13. TypeOK'
  <2>1. a.count \in 0 .. MaxDepth
    <3>1. r.count \in 0 .. MaxDepth /\ MaxDepth \in Nat \ {0}
      BY <1>1, SyncLatchAssumption DEF TypeOK
    <3>2. r.writer # "EX" => r.count = 0
      BY <1>1 DEF Exclusive
    <3> HIDE DEF a, r
    <3> QED BY <1>9, <3>1, <3>2
  <2>4. rw' \in [RwLock -> [writer : {"NOT_LOCKED", "EX", "WAIT_EX"}, thread : Threads \cup {None},
                            count : 0 .. MaxDepth, pass : BOOLEAN, readers : 0 .. Cardinality(Thread)]]
    <3>1. rw' = [rw EXCEPT ![l] = a]
      BY <1>1 DEF TryRw, TryRwAgain, TypeOK
    <3>2. a.count <= MaxDepth
      <4> HIDE DEF a
      <4> QED BY <2>1, SyncLatchAssumption
    <3> HIDE DEF a
    <3> QED BY <1>1, <1>7, <1>9, <1>11, <3>1, <3>2, LockTypes
  <2>5. /\ pc' \in [Threads -> {"idle", "try", "got", "reserve", "flag", "retry", "again", "sleep", "hold",
                                "unlock", "read", "clear", "signal"}]
        /\ cell' \in [Threads -> [obj : Object \cup {None}, event : BOOLEAN]]
        /\ waiters' \in [Object -> BOOLEAN]
    <3>1. [obj |-> l, event |-> FALSE] \in [obj : Object \cup {None}, event : BOOLEAN]
      BY <1>1
    <3>2. pc'[t] \in {"again", "sleep", "hold"}
      BY <1>4
    <3>3. pc' \in [Threads -> {"idle", "try", "got", "reserve", "flag", "retry", "again", "sleep", "hold",
                               "unlock", "read", "clear", "signal"}]
      BY <1>3, <3>2 DEF TypeOK
    <3>4. cell' \in [Threads -> [obj : Object \cup {None}, event : BOOLEAN]]
      <4> DEFINE C == [obj : Object \cup {None}, event : BOOLEAN]
      <4>1. cell \in [Threads -> C] /\ [obj |-> l, event |-> FALSE] \in C
        BY <3>1 DEF TypeOK
      <4> HIDE DEF C
      <4>2. cell' \in [Threads -> C]
        BY <1>4, <4>1
      <4> QED
        BY <4>2 DEF C
    <3>5. waiters' \in [Object -> BOOLEAN]
      BY <1>4 DEF TypeOK
    <3> QED
      BY <3>3, <3>4, <3>5
  <2>6. \A m \in Mutex : os[m] # None => pc'[os[m]] = pc[os[m]]
    BY <1>5 DEF Owners, Apart, TypeOK
  <2> QED
    BY <1>3, <2>4, <2>5, <2>6 DEF TypeOK
<1>14. RwNoLostWakeup'
  <2> SUFFICES ASSUME NEW u \in Threads, Sleeping(u)', obj'[u] \in RwLock
               PROVE  \/ \E v \in Threads : obj'[v] = obj'[u] /\ pc'[v] = "signal"
                      \/ waiters'[obj'[u]] /\ ~Succeeds(u, rw[obj[u]])'
    BY DEF RwNoLostWakeup
  <2>0. Succeeds(u, rw[obj[u]])' <=> Succeeds(u, rw'[obj'[u]])
    BY <1>3 DEF Succeeds
  <2>1. \A k \in RwLock : ~Succeeds(u, rw[k]) => ~Succeeds(u, rw'[k])
    <3> HIDE DEF a, r
    <3> QED BY <1>2, <1>9, <1>10
  <2>2. \A k \in RwLock : waiters[k] => waiters'[k]
    BY <1>1, <1>4 DEF TypeOK, Object
  <2>3. \A v \in Threads : pc[v] = "signal" => pc'[v] = "signal"
    BY <1>1, <1>5 DEF Apart
  <2>4. CASE u # t
    BY <1>3, <1>5, <2>0, <2>1, <2>2, <2>3, <2>4 DEF RwNoLostWakeup, Sleeping, Apart
  <2>5. CASE u = t
    <3>1. ~Succeeds(t, r) /\ waiters'[l] /\ obj'[u] = l
      BY <1>1, <1>3, <1>4, <2>5 DEF Sleeping, TypeOK
    <3> HIDE DEF a, r
    <3> QED BY <1>9, <1>10, <2>0, <2>5, <3>1
  <2> QED BY <2>4, <2>5
<1> QED
  BY <1>6, <1>7, <1>11, <1>12, <1>13, <1>14

(* what an unlock starts from: the read lock or the write lock of t, or a   *)
(* write lock that was passed to the i/o thread                             *)
MayUnlock(t, l, m, else) ==
    \/ pc[t] = "hold" /\ obj[t] = l /\ mode[t] = "s" /\ m = "s" /\ else = "idle"
    \/ /\ pc[t] = "hold" /\ obj[t] = l /\ mode[t] = "x" /\ m = "x"
       /\ else = IF rw[l].count > 1 THEN "hold" ELSE "idle"
    \/ t = Io /\ pc[t] = "idle" /\ Passed(l) /\ m = "passed" /\ else = "idle"

(* the lock before and after an unlock *)
LEMMA UnlockFacts ==
    ASSUME LatchInv, NEW t \in Threads, NEW l \in RwLock, NEW m, NEW else, MayUnlock(t, l, m, else)
    PROVE  /\ Unlock(rw[l], m) \in LockRecord
           /\ m = "s" => /\ rw[l].readers > 0 /\ rw[l].writer # "EX" /\ t \in SHolders(l)
                         /\ Unlock(rw[l], m).readers = rw[l].readers - 1
                         /\ Unlock(rw[l], m).writer = rw[l].writer
                         /\ Unlock(rw[l], m).count = rw[l].count
           /\ m # "s" => /\ rw[l].count > 0 /\ rw[l].writer = "EX" /\ rw[l].readers = 0
                         /\ XHolders(l) \subseteq {t}
                         /\ Unlock(rw[l], m).readers = 0
                         /\ Unlock(rw[l], m).count = rw[l].count - 1
                         /\ Unlock(rw[l], m).thread = rw[l].thread
                         /\ Unlock(rw[l], m).pass = rw[l].pass
                         /\ Unlock(rw[l], m).writer = IF rw[l].count = 1 THEN "NOT_LOCKED" ELSE "EX"
<1> DEFINE r == rw[l]
<1>1. r \in LockRecord /\ SHolders(l) \in SUBSET Thread
  BY LockRecords
<1>2. CASE m = "s"
  <2>1. t \in SHolders(l) /\ t \in Thread
    BY <1>1, <1>2 DEF MayUnlock, SHolders
  <2>2. r.readers # 0
    BY <1>1, <2>1, CountOne DEF LatchInv, Counted
  <2>3. r.writer # "EX"
    BY <2>2 DEF LatchInv, Exclusive
  <2>4. Unlock(r, m) = [r EXCEPT !.readers = @ - 1]
    BY <1>2 DEF Unlock
  <2> HIDE DEF r
  <2>5. Unlock(r, m) \in LockRecord /\ Unlock(r, m).readers = r.readers - 1
    BY <1>1, <2>2, <2>4 DEF LockRecord
  <2>6. Unlock(r, m).writer = r.writer /\ Unlock(r, m).count = r.count /\ r.readers > 0
    BY <1>1, <2>2, <2>4 DEF LockRecord
  <2> QED
    BY <1>2, <2>1, <2>3, <2>5, <2>6 DEF r
<1>3. CASE m # "s"
  <2>1. r.writer = "EX" /\ XHolders(l) \subseteq {t}
    BY <1>3 DEF MayUnlock, XHolders, Passed, LatchInv, Exclusive
  <2>2. r.count # 0 /\ r.readers = 0
    BY <2>1 DEF LatchInv, Exclusive
  <2>3. Unlock(r, m) = [r EXCEPT !.count = @ - 1, !.writer = IF r.count = 1 THEN "NOT_LOCKED" ELSE @]
    BY <1>3 DEF Unlock
  <2> HIDE DEF r
  <2>4. Unlock(r, m) \in LockRecord /\ Unlock(r, m).count = r.count - 1
    <3>1. \A c \in Nat, w \in {"NOT_LOCKED", "EX", "WAIT_EX"} : [r EXCEPT !.count = c, !.writer = w] \in LockRecord
      BY <1>1 DEF LockRecord
    <3>2. r.count - 1 \in Nat
      BY <1>1, <2>2 DEF LockRecord
    <3> QED
      BY <1>1, <2>1, <2>3, <3>1, <3>2 DEF LockRecord
  <2>5. /\ Unlock(r, m).readers = 0 /\ Unlock(r, m).thread = r.thread /\ Unlock(r, m).pass = r.pass
        /\ Unlock(r, m).writer = IF r.count = 1 THEN "NOT_LOCKED" ELSE "EX"
        /\ r.count > 0
    BY <1>1, <2>1, <2>2, <2>3 DEF LockRecord
  <2> QED
    BY <1>3, <2>1, <2>2, <2>4, <2>5 DEF r
<1> QED
  BY <1>2, <1>3

LEMMA UnlockKeeps ==
    ASSUME LatchInv, NEW t \in Threads, NEW l \in RwLock, NEW m, NEW else,
           MayUnlock(t, l, m, else), UnlockRw(t, l, m, else)
    PROVE  LatchInv'
<1> DEFINE r == rw[l]
<1> DEFINE a == Unlock(rw[l], m)
<1> DEFINE told == waiters[l] /\ Last(rw[l], m)
<1> USE Kinds DEF LatchInv
<1>1. l \in Object /\ m \in {"s", "x", "passed"} /\ else \in {"idle", "hold"} /\ pc[t] \in {"idle", "hold"}
  BY DEF MayUnlock, Object
<1>2. /\ os' = os /\ word' = word /\ sees' = sees /\ barrier' = barrier /\ play' = play
      /\ mode' = mode /\ cell' = cell /\ rw' = [rw EXCEPT ![l] = a]
      /\ \A u \in Threads \ {t} : pc'[u] = pc[u] /\ obj'[u] = obj[u]
      /\ pc' = [pc EXCEPT ![t] = pc'[t]] /\ obj' = [obj EXCEPT ![t] = obj'[t]]
  BY DEF UnlockRw, platform, Goto, TypeOK
<1>3. /\ told => pc'[t] = "signal" /\ obj'[t] = l /\ waiters' = [waiters EXCEPT ![l] = FALSE]
      /\ ~told => /\ pc'[t] = else /\ waiters' = waiters
                  /\ obj'[t] = IF else = "idle" THEN None ELSE obj[t]
  BY DEF UnlockRw, Goto, TypeOK
<1>4. /\ a \in LockRecord /\ r \in LockRecord /\ r.count <= MaxDepth
      /\ m = "s" => /\ r.readers > 0 /\ r.writer # "EX" /\ t \in SHolders(l)
                    /\ a.readers = r.readers - 1 /\ a.writer = r.writer /\ a.count = r.count
      /\ m # "s" => /\ r.count > 0 /\ r.writer = "EX" /\ r.readers = 0 /\ XHolders(l) \subseteq {t}
                    /\ a.readers = 0 /\ a.count = r.count - 1 /\ a.thread = r.thread /\ a.pass = r.pass
                    /\ a.writer = IF r.count = 1 THEN "NOT_LOCKED" ELSE "EX"
  BY UnlockFacts, LockRecords
<1>5. told => IF m = "s" THEN r.readers = 1 ELSE r.count = 1
  BY DEF Last
<1>6. waiters[l] /\ ~told => IF m = "s" THEN r.readers # 1 ELSE r.count # 1
  BY DEF Last
<1>7. else = "hold" <=> m = "x" /\ r.count > 1
  BY DEF MayUnlock
<1>8. /\ pc[t] = "hold" => obj[t] = l /\ m = mode[t] /\ m \in {"s", "x"}
      /\ pc[t] = "idle" => t = Io /\ m = "passed" /\ obj[t] = None
      /\ t = Io => m # "s"
  BY DEF MayUnlock, Places
<1>9. told => else = "idle"
  <2> HIDE DEF r, told
  <2> QED BY <1>1, <1>4, <1>5, <1>7 DEF LockRecord
<1> HIDE DEF r, a, told
<1>10. rw'[l] = a /\ rw[l] = r /\ \A k \in RwLock \ {l} : rw'[k] = rw[k]
  BY <1>2 DEF TypeOK, r
<1>11. Apart(t)
  <2>1. \A k \in Mutex : waiters'[k] = waiters[k]
    BY <1>1, <1>3 DEF TypeOK, Object
  <2> QED
    BY <1>1, <1>2, <1>3, <1>8, <2>1 DEF Apart, Object
<1>12. Owners' /\ Words' /\ MutexWaits' /\ Unread'
  BY <1>11, ApartKeeps
<1>13. pc'[t] \in {"idle", "hold", "signal"} /\ (pc'[t] = "hold" => pc[t] = "hold" /\ obj'[t] = obj[t] /\ m = "x")
  BY <1>1, <1>3, <1>7, <1>8
<1>14. Places'
  <2>1. pc'[t] = "idle" <=> obj'[t] = None
    BY <1>1, <1>3, <1>8, <1>7
  <2> QED
    BY <1>2, <1>13, <2>1 DEF Places, TypeOK
<1>15. Cells'
  BY <1>2, <1>13 DEF Cells
<1>16. \A k \in RwLock \ {l} : SHolders(k)' = SHolders(k) /\ XHolders(k)' = XHolders(k)
  BY <1>1, <1>2, <1>8, <1>13 DEF SHolders, XHolders
<1>17. m = "s" => SHolders(l)' = SHolders(l) \ {t} /\ XHolders(l)' = XHolders(l)
  BY <1>1, <1>2, <1>8, <1>13 DEF SHolders, XHolders
<1>18. m # "s" => SHolders(l)' = SHolders(l)
  BY <1>1, <1>2, <1>8, <1>13 DEF SHolders
<1>19. m # "s" => XHolders(l)' = IF pc'[t] = "hold" THEN XHolders(l) ELSE {}
  BY <1>1, <1>2, <1>4, <1>8, <1>13 DEF XHolders
<1>20. m # "s" => (pc'[t] = "hold" <=> m = "x" /\ r.count > 1)
  BY <1>3, <1>4, <1>5, <1>7, <1>9 DEF LockRecord
<1>21. Counted'
  <2>1. \A k \in RwLock \ {l} : rw'[k].readers = Cardinality(SHolders(k)')
    BY <1>10, <1>16 DEF Counted
  <2>2. rw'[l].readers = Cardinality(SHolders(l)')
    <3>1. SHolders(l) \in SUBSET Thread
      BY LockRecords
    <3>2. r.readers = Cardinality(SHolders(l))
      BY <1>10 DEF Counted
    <3>3. CASE m = "s"
      <4>1. Cardinality(SHolders(l) \ {t}) = Cardinality(SHolders(l)) - 1
        BY <1>4, <3>1, <3>3, CountOne
      <4> QED
        BY <1>4, <1>10, <1>17, <3>2, <3>3, <4>1
    <3>4. CASE m # "s"
      BY <1>4, <1>10, <1>18, <3>2, <3>4
    <3> QED BY <3>3, <3>4
  <2> QED
    BY <2>1, <2>2 DEF Counted
<1>22. Exclusive'
  <2>1. ASSUME NEW k \in RwLock \ {l}
        PROVE  /\ \A u \in XHolders(k)' : rw'[k].writer = "EX" /\ rw'[k].thread = u
               /\ \A u \in XHolders(k)' : mode'[u] = "passed" => rw'[k].pass
               /\ rw'[k].writer = "EX" => XHolders(k)' # {} \/ rw'[k].pass
               /\ rw'[k].writer = "EX" <=> rw'[k].count # 0
               /\ rw'[k].writer = "EX" => rw'[k].readers = 0
    BY <1>2, <1>10, <1>16, <2>1 DEF Exclusive
  <2>2. /\ \A u \in XHolders(l) : r.writer = "EX" /\ r.thread = u
        /\ \A u \in XHolders(l) : mode[u] = "passed" => r.pass
        /\ r.writer = "EX" => XHolders(l) # {} \/ r.pass
        /\ r.writer = "EX" <=> r.count # 0
        /\ r.writer = "EX" => r.readers = 0
    BY <1>10 DEF Exclusive
  <2>3. /\ \A u \in XHolders(l)' : a.writer = "EX" /\ a.thread = u
        /\ \A u \in XHolders(l)' : mode[u] = "passed" => a.pass
        /\ a.writer = "EX" => XHolders(l)' # {} \/ a.pass
        /\ a.writer = "EX" <=> a.count # 0
        /\ a.writer = "EX" => a.readers = 0
    <3>1. CASE m = "s"
      BY <1>4, <1>17, <2>2, <3>1
    <3>2. CASE m = "x"
      BY <1>4, <1>19, <1>20, <2>2, <3>2 DEF LockRecord
    <3>3. CASE m = "passed"
      <4>1. r.pass
        BY <1>8, <1>1, <3>3 DEF MayUnlock, Passed, r
      <4>2. XHolders(l)' = {} /\ a.pass
        BY <1>4, <1>19, <1>20, <3>3, <4>1
      <4>3. a.writer = "EX" <=> a.count # 0
        BY <1>4, <3>3 DEF LockRecord
      <4> QED
        BY <1>4, <3>3, <4>2, <4>3
    <3> QED BY <1>1, <3>1, <3>2, <3>3
  <2> QED
    BY <1>2, <1>10, <2>1, <2>3 DEF Exclusive
<1>23. TypeOK'
  <2>1. rw' \in [RwLock -> [writer : {"NOT_LOCKED", "EX", "WAIT_EX"}, thread : Threads \cup {None},
                            count : 0 .. MaxDepth, pass : BOOLEAN, readers : 0 .. Cardinality(Thread)]]
    <3>1. a.count <= MaxDepth
      BY <1>4, SyncLatchAssumption DEF LockRecord
    <3> QED BY <1>2, <1>4, <1>14, <1>21, <3>1, LockTypes
  <2>2. /\ pc' \in [Threads -> {"idle", "try", "got", "reserve", "flag", "retry", "again", "sleep", "hold",
                                "unlock", "read", "clear", "signal"}]
        /\ obj' \in [Threads -> Object \cup {None}]
        /\ waiters' \in [Object -> BOOLEAN]
    <3>1. pc' \in [Threads -> {"idle", "try", "got", "reserve", "flag", "retry", "again", "sleep", "hold",
                                "unlock", "read", "clear", "signal"}]
      BY <1>2, <1>13 DEF TypeOK
    <3>2. obj'[t] \in Object \cup {None}
      BY <1>1, <1>3 DEF TypeOK
    <3>3. obj' \in [Threads -> Object \cup {None}]
      BY <1>2, <3>2 DEF TypeOK
    <3>4. waiters' \in [Object -> BOOLEAN]
      BY <1>3 DEF TypeOK
    <3> QED BY <3>1, <3>3, <3>4
  <2>3. \A k \in Mutex : os[k] # None => pc'[os[k]] = pc[os[k]]
    BY <1>11 DEF Owners, Apart, TypeOK
  <2> QED
    BY <1>2, <2>1, <2>2, <2>3 DEF TypeOK
<1>24. RwNoLostWakeup'
  <2> SUFFICES ASSUME NEW u \in Threads, Sleeping(u)', obj'[u] \in RwLock
               PROVE  \/ \E v \in Threads : obj'[v] = obj'[u] /\ pc'[v] = "signal"
                      \/ waiters'[obj'[u]] /\ ~Succeeds(u, rw[obj[u]])'
    BY DEF RwNoLostWakeup
  <2>0. Succeeds(u, rw[obj[u]])' <=> Succeeds(u, rw'[obj'[u]])
    BY <1>2 DEF Succeeds
  <2>1. u # t /\ Sleeping(u) /\ obj'[u] = obj[u]
    BY <1>2, <1>13 DEF Sleeping
  <2>2. \A v \in Threads : pc[v] = "signal" => pc'[v] = "signal" /\ obj'[v] = obj[v]
    BY <1>1, <1>2
  <2>3. CASE obj[u] # l
    <3>1. waiters'[obj[u]] = waiters[obj[u]]
      BY <1>3, <2>1, <2>3 DEF TypeOK, Object
    <3> QED
      BY <1>10, <2>0, <2>1, <2>2, <2>3, <3>1 DEF RwNoLostWakeup
  <2>4. CASE obj[u] = l
    <3>1. CASE told
      BY <1>3, <2>1, <2>4, <3>1
    <3>2. CASE ~told /\ ~waiters[l]
      BY <2>1, <2>2, <2>4, <3>2 DEF RwNoLostWakeup
    <3>3. CASE ~told /\ waiters[l]
      <4>1. ~Succeeds(u, r) => ~Succeeds(u, a)
        BY <1>4, <1>6, <3>3 DEF LockRecord, Succeeds
      <4>2. CASE Succeeds(u, r)
        BY <1>10, <2>1, <2>2, <2>4, <4>2 DEF RwNoLostWakeup
      <4>3. CASE ~Succeeds(u, r)
        BY <1>3, <1>10, <2>0, <2>1, <2>4, <3>3, <4>1, <4>3
      <4> QED BY <4>2, <4>3
    <3> QED BY <3>1, <3>2, <3>3
  <2> QED BY <2>3, <2>4
<1> QED
  BY <1>12, <1>14, <1>15, <1>21, <1>22, <1>23, <1>24

(* a thread leaves its x-lock to the i/o thread *)
LEMMA PassKeeps ==
    ASSUME LatchInv, NEW t \in Threads, Pass(t)
    PROVE  LatchInv'
<1> USE Kinds DEF LatchInv, Pass, Goto, platform
<1>1. obj[t] \in RwLock /\ t \in Thread
  BY DEF Places, TypeOK, Object, Threads
<1>2. TypeOK'
  BY <1>1 DEF TypeOK, Owners
<1>3. Apart(t)
  BY <1>1, SyncLatchAssumption DEF Apart, TypeOK
<1>4. Owners' /\ Words' /\ MutexWaits' /\ Unread'
  BY <1>3, ApartKeeps
<1>5. Places' /\ Cells'
  BY <1>1 DEF Places, Cells, TypeOK
<1>6. \A k \in RwLock : SHolders(k)' = SHolders(k) /\ XHolders(k)' = XHolders(k) \ {t}
  BY <1>1 DEF SHolders, XHolders, TypeOK
<1>7. Counted'
  BY <1>6 DEF Counted
<1>8. \A k \in RwLock : t \in XHolders(k) => rw[k].pass
  BY DEF Exclusive
<1>9. \A k \in RwLock : rw[k].writer = "EX" => XHolders(k) \ {t} # {} \/ rw[k].pass
  BY <1>8 DEF Exclusive
<1>10. Exclusive'
  BY <1>6, <1>9 DEF Exclusive
<1>11. RwNoLostWakeup'
  <2>1. \A v \in Threads : pc[v] = "signal" => pc'[v] = "signal" /\ obj'[v] = obj[v]
    BY DEF TypeOK
  <2>2. \A v \in Threads : pc'[v] = "sleep" => pc[v] = "sleep" /\ obj'[v] = obj[v]
    BY DEF TypeOK
  <2> QED
    BY <2>1, <2>2 DEF RwNoLostWakeup, Succeeds, Sleeping
<1> QED
  BY <1>2, <1>4, <1>5, <1>7, <1>10, <1>11

(* rw_lock_x_lock_move_ownership *)
LEMMA MoveKeeps ==
    ASSUME LatchInv, NEW l \in RwLock, MoveOwnership(l)
    PROVE  LatchInv'
<1> DEFINE r == rw[l]
<1> DEFINE a == [r EXCEPT !.thread = Io, !.pass = FALSE]
<1> USE Kinds DEF LatchInv
<1>1. /\ pc[Io] = "idle" /\ obj[Io] = None /\ r.writer = "EX" /\ XHolders(l) = {}
      /\ r \in LockRecord /\ r.count <= MaxDepth /\ r.count # 0 /\ r.readers = 0
  BY LockRecords DEF MoveOwnership, Places, Passed, XHolders, Exclusive
<1>2. /\ os' = os /\ word' = word /\ sees' = sees /\ barrier' = barrier /\ play' = play
      /\ cell' = cell /\ waiters' = waiters
      /\ pc' = [pc EXCEPT ![Io] = "hold"] /\ obj' = [obj EXCEPT ![Io] = l] /\ mode' = [mode EXCEPT ![Io] = "x"]
  BY DEF MoveOwnership, platform, Goto
<1>3. rw' = [rw EXCEPT ![l] = a]
  BY DEF MoveOwnership, TypeOK
<1> HIDE DEF r
<1>4. /\ a \in LockRecord /\ a.writer = "EX" /\ a.count = r.count /\ a.readers = 0
      /\ a.thread = Io /\ ~a.pass
  BY <1>1 DEF LockRecord
<1> HIDE DEF a
<1>5. rw'[l] = a /\ \A k \in RwLock \ {l} : rw'[k] = rw[k]
  BY <1>3 DEF TypeOK
<1>6. /\ pc'[Io] = "hold" /\ obj'[Io] = l /\ mode'[Io] = "x"
      /\ \A u \in Threads \ {Io} : pc'[u] = pc[u] /\ obj'[u] = obj[u] /\ mode'[u] = mode[u]
  BY <1>2 DEF TypeOK
<1>7. Apart(Io)
  BY <1>1, <1>2, <1>6, SyncLatchAssumption DEF Apart
<1>8. Owners' /\ Words' /\ MutexWaits' /\ Unread'
  BY <1>7, ApartKeeps
<1>9. Places' /\ Cells'
  BY <1>1, <1>2, <1>6, SyncLatchAssumption DEF Places, Cells
<1>10. /\ \A k \in RwLock : SHolders(k)' = SHolders(k)
       /\ \A k \in RwLock \ {l} : XHolders(k)' = XHolders(k)
       /\ XHolders(l)' = {Io}
  <2>1. \A k \in RwLock : SHolders(k)' = SHolders(k)
    BY <1>1, <1>6 DEF SHolders
  <2>2. \A k \in RwLock \ {l} : XHolders(k)' = XHolders(k)
    BY <1>1, <1>6 DEF XHolders
  <2>3. XHolders(l)' = {Io}
    BY <1>1, <1>6 DEF XHolders
  <2> QED BY <2>1, <2>2, <2>3
<1>11. Counted'
  BY <1>1, <1>4, <1>5, <1>10 DEF Counted, r
<1>12. Exclusive'
  <2>1. ASSUME NEW k \in RwLock \ {l}
        PROVE  /\ \A u \in XHolders(k)' : rw'[k].writer = "EX" /\ rw'[k].thread = u
               /\ \A u \in XHolders(k)' : mode'[u] = "passed" => rw'[k].pass
               /\ rw'[k].writer = "EX" => XHolders(k)' # {} \/ rw'[k].pass
               /\ rw'[k].writer = "EX" <=> rw'[k].count # 0
               /\ rw'[k].writer = "EX" => rw'[k].readers = 0
    <3>1. \A u \in XHolders(k) : mode'[u] = mode[u]
      BY <1>1, <1>6 DEF XHolders
    <3> QED
      BY <1>5, <1>10, <2>1, <3>1 DEF Exclusive
  <2> QED
    BY <1>1, <1>4, <1>5, <1>6, <1>10, <2>1 DEF Exclusive
<1>13. TypeOK'
  <2>1. rw' \in [RwLock -> [writer : {"NOT_LOCKED", "EX", "WAIT_EX"}, thread : Threads \cup {None},
                            count : 0 .. MaxDepth, pass : BOOLEAN, readers : 0 .. Cardinality(Thread)]]
    BY <1>1, <1>3, <1>4, <1>9, <1>11, LockTypes
  <2>2. /\ pc' \in [Threads -> {"idle", "try", "got", "reserve", "flag", "retry", "again", "sleep", "hold",
                                "unlock", "read", "clear", "signal"}]
        /\ obj' \in [Threads -> Object \cup {None}] /\ mode' \in [Threads -> Mode]
    BY <1>2 DEF TypeOK, Mode, Object
  <2>3. \A k \in Mutex : os[k] # None => pc'[os[k]] = pc[os[k]]
    BY <1>7 DEF Owners, Apart, TypeOK
  <2> QED
    BY <1>2, <2>1, <2>2, <2>3 DEF TypeOK
<1>14. RwNoLostWakeup'
  <2> SUFFICES ASSUME NEW u \in Threads, Sleeping(u)', obj'[u] \in RwLock
               PROVE  \/ \E v \in Threads : obj'[v] = obj'[u] /\ pc'[v] = "signal"
                      \/ waiters'[obj'[u]] /\ ~Succeeds(u, rw[obj[u]])'
    BY DEF RwNoLostWakeup
  <2>1. u # Io /\ Sleeping(u) /\ obj'[u] = obj[u] /\ mode'[u] = mode[u]
    BY <1>2, <1>6 DEF Sleeping
  <2>2. \A v \in Threads : pc[v] = "signal" => pc'[v] = "signal" /\ obj'[v] = obj[v]
    BY <1>1, <1>6
  <2>3. Succeeds(u, rw[obj[u]])' <=> Succeeds(u, rw'[obj[u]])
    BY <2>1 DEF Succeeds
  <2>4. CASE obj[u] = l
    BY <1>1, <1>4, <1>5, <2>1, <2>2, <2>4, <1>2 DEF RwNoLostWakeup, Succeeds, r
  <2>5. CASE obj[u] # l
    BY <1>2, <1>5, <2>1, <2>2, <2>3, <2>5 DEF RwNoLostWakeup
  <2> QED BY <2>4, <2>5
<1> QED
  BY <1>8, <1>9, <1>11, <1>12, <1>13, <1>14

(* an x-lock is taken once more *)
LEMMA RelockKeeps ==
    ASSUME LatchInv, NEW t \in Threads, Relock(t), NEW l, l = obj[t]
    PROVE  LatchInv'
<1> DEFINE r == rw[l]
<1> DEFINE a == [r EXCEPT !.count = @ + 1]
<1> USE Kinds DEF LatchInv
<1>1. l \in RwLock /\ pc[t] = "hold" /\ mode[t] = "x" /\ t \in XHolders(l)
  BY DEF Relock, Places, TypeOK, Object, XHolders
<1>2. r \in LockRecord /\ r.count < MaxDepth /\ r.writer = "EX"
  BY <1>1, LockRecords DEF Relock, Exclusive
<1>3. rw' = [rw EXCEPT ![l] = a]
  BY <1>1 DEF Relock, TypeOK
<1>4. /\ os' = os /\ word' = word /\ sees' = sees /\ barrier' = barrier /\ play' = play
      /\ cell' = cell /\ waiters' = waiters /\ pc' = pc /\ obj' = obj /\ mode' = mode
  BY DEF Relock, platform
<1> HIDE DEF r
<1>5. /\ a \in LockRecord /\ a.writer = "EX" /\ a.count = r.count + 1 /\ a.readers = r.readers
      /\ a.thread = r.thread /\ a.pass = r.pass
  BY <1>2 DEF LockRecord
<1> HIDE DEF a
<1>6. rw'[l] = a /\ \A k \in RwLock \ {l} : rw'[k] = rw[k]
  BY <1>1, <1>3 DEF TypeOK
<1>7. Places' /\ Owners' /\ Words' /\ Cells' /\ Unread' /\ MutexWaits'
  BY <1>4 DEF Places, Owners, Words, Cells, Unread, MutexWaits, MutexWait, About
<1>8. \A k \in RwLock : SHolders(k)' = SHolders(k) /\ XHolders(k)' = XHolders(k)
  BY <1>4 DEF SHolders, XHolders
<1>9. Counted'
  BY <1>1, <1>5, <1>6, <1>8 DEF Counted, r
<1>10. Exclusive'
  <2>1. r.count # 0 /\ a.count # 0
    BY <1>1, <1>2, <1>5 DEF Exclusive, r, LockRecord
  <2> QED
    BY <1>1, <1>2, <1>4, <1>5, <1>6, <1>8, <2>1 DEF Exclusive, r
<1>11. TypeOK'
  <2>1. a.count <= MaxDepth
    BY <1>2, <1>5, SyncLatchAssumption DEF LockRecord
  <2>2. rw' \in [RwLock -> [writer : {"NOT_LOCKED", "EX", "WAIT_EX"}, thread : Threads \cup {None},
                            count : 0 .. MaxDepth, pass : BOOLEAN, readers : 0 .. Cardinality(Thread)]]
    BY <1>1, <1>3, <1>5, <1>7, <1>9, <2>1, LockTypes
  <2> QED
    BY <1>4, <2>2 DEF TypeOK
<1>12. RwNoLostWakeup'
  <2>1. \A k \in RwLock : /\ rw'[k].writer = rw[k].writer /\ rw'[k].readers = rw[k].readers
                          /\ rw'[k].thread = rw[k].thread
    BY <1>2, <1>5, <1>6 DEF r
  <2> QED
    BY <1>4, <2>1 DEF RwNoLostWakeup, Succeeds, Sleeping
<1> QED
  BY <1>7, <1>9, <1>10, <1>11, <1>12

-----------------------------------------------------------------------------
LEMMA LatchStep == LatchInv /\ [Next]_vars => LatchInv'
<1> SUFFICES ASSUME LatchInv, [Next]_vars PROVE LatchInv'
  OBVIOUS
<1>1. ASSUME NEW t \in Threads, MutexStep(t) PROVE LatchInv'
  BY <1>1, MutexTypes, MutexWakeups DEF LatchInv
<1>2. CASE WaitStep
  BY <1>2, WaitStepKeeps
<1>3. ASSUME NEW t \in Threads, TryRw(t) \/ TryRwAgain(t) PROVE LatchInv'
  BY <1>3, TryKeeps
<1>4. ASSUME NEW t \in Threads, SUnlock(t) \/ XUnlock(t) PROVE LatchInv'
  <2>1. obj[t] \in RwLock
    BY <1>4, Kinds DEF SUnlock, XUnlock, LatchInv, Places, TypeOK
  <2>2. CASE SUnlock(t)
    <3>1. MayUnlock(t, obj[t], "s", "idle") /\ UnlockRw(t, obj[t], "s", "idle")
      BY <2>2 DEF SUnlock, MayUnlock
    <3> QED BY <2>1, <3>1, UnlockKeeps
  <2>3. CASE XUnlock(t)
    <3> DEFINE else == IF rw[obj[t]].count > 1 THEN "hold" ELSE "idle"
    <3>1. MayUnlock(t, obj[t], "x", else) /\ UnlockRw(t, obj[t], "x", else)
      BY <2>3 DEF XUnlock, MayUnlock
    <3> HIDE DEF else
    <3> QED BY <2>1, <3>1, UnlockKeeps
  <2> QED BY <1>4, <2>2, <2>3
<1>5. ASSUME NEW l \in RwLock, PassedUnlock(l) PROVE LatchInv'
  <2>1. MayUnlock(Io, l, "passed", "idle") /\ UnlockRw(Io, l, "passed", "idle")
    BY <1>5 DEF PassedUnlock, MayUnlock
  <2> QED BY <1>5, <2>1, UnlockKeeps, Kinds
<1>6. ASSUME NEW t \in Threads, Pass(t) PROVE LatchInv'
  BY <1>6, PassKeeps
<1>7. ASSUME NEW l \in RwLock, MoveOwnership(l) PROVE LatchInv'
  BY <1>7, MoveKeeps
<1>8. ASSUME NEW t \in Threads, Relock(t) PROVE LatchInv'
  BY <1>8, RelockKeeps
<1>9. CASE UNCHANGED vars
  BY <1>9 DEF vars, LatchInv, TypeOK, Places, Owners, Words, Counted, SHolders, Exclusive, XHolders, Cells,
     Unread, MutexWaits, MutexWait, About, RwNoLostWakeup, Succeeds, Sleeping
<1> QED
  BY <1>1, <1>2, <1>3, <1>4, <1>5, <1>6, <1>7, <1>8, <1>9 DEF Next, Step, IoStep, MutexStep, WaitStep
-----------------------------------------------------------------------------
THEOREM LatchInvariant == Spec => []LatchInv
BY LatchInit, LatchStep, PTL DEF Spec

(* Mutual exclusion, the counts of readers and of recursive x-locks, and    *)
(* the assertion that who gets the OS mutex finds lock_word zero, for any   *)
(* number of threads and latches, x-locks passed between threads included.  *)
THEOREM LatchesStayExact == Spec => []LatchesExact
<1>1. LatchInv => LatchesExact
  <2> SUFFICES ASSUME LatchInv PROVE LatchesExact
    OBVIOUS
  <2> USE DEF LatchInv
  <2>1. \A m \in Mutex : \A t \in Threads : pc[t] \in {"got", "hold", "unlock"} /\ obj[t] = m => os[m] = t
    BY DEF Owners
  <2>2. ASSUME NEW l \in RwLock PROVE Cardinality(XHolders(l)) <= 1
    <3>1. XHolders(l) = {} \/ \E t \in Threads : XHolders(l) = {t}
      BY DEF Exclusive, XHolders
    <3> QED BY <3>1, FS_EmptySet, FS_Singleton
  <2>3. ASSUME NEW l \in RwLock PROVE XHolders(l) # {} \/ Passed(l) <=> rw[l].writer = "EX"
    <3>1. rw[l].writer = "EX" => SHolders(l) = {}
      <4>1. SHolders(l) \in SUBSET Thread /\ IsFiniteSet(SHolders(l)) /\ rw[l].readers = Cardinality(SHolders(l))
        BY LockRecords DEF Counted
      <4> QED BY <4>1, FS_EmptySet DEF Exclusive
    <3>2. rw[l].writer = "EX" /\ XHolders(l) = {} => Passed(l)
      <4>1. l \notin Mutex
        BY SyncLatchAssumption
      <4>2. \A t \in Threads : obj[t] = l /\ pc[t] = "hold" => mode[t] \in {"s", "x", "passed"}
        BY <4>1 DEF Places, TypeOK, Mode
      <4> QED
        BY <3>1, <4>2 DEF Passed, SHolders, XHolders, Exclusive
    <3> QED BY <3>2 DEF Exclusive, Passed
  <2>4. ASSUME NEW l \in RwLock
        PROVE  /\ rw[l].writer = "EX" => rw[l].count > 0 /\ rw[l].readers = 0
               /\ \A t \in XHolders(l) : rw[l].thread = t
    BY LockRecords DEF Exclusive, LockRecord
  <2> QED
    BY <2>1, <2>2, <2>3, <2>4 DEF LatchesExact, Counted
<1> QED
  BY <1>1, LatchInvariant, PTL

(* LEMMA 1 of sync0sync.c, for any number of threads on any number of       *)
(* mutexes: where the reset of the lock word is a barrier, nobody is left   *)
(* asleep by a mutex_exit that did not see it.                              *)
THEOREM MutexWakeupsArrive == Spec => []MutexNoLostWakeup
<1>1. LatchInv => MutexNoLostWakeup
  BY DEF LatchInv, MutexNoLostWakeup, MutexWaits, MutexWait, About, Sleeping
<1> QED
  BY <1>1, LatchInvariant, PTL

(* The same of readers and writers that sleep on an rw-lock: nobody is left *)
(* asleep by an unlock after which its own attempt would succeed, so not    *)
(* the writer that has reserved the lock when the last reader leaves.       *)
THEOREM RwWakeupsArrive == Spec => []RwNoLostWakeup
<1>1. LatchInv => RwNoLostWakeup
  BY DEF LatchInv
<1> QED
  BY <1>1, LatchInvariant, PTL
=============================================================================
