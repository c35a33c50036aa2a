----------------------- MODULE GlobalReadLockProofs -----------------------
(***************************************************************************)
(* Proofs about GlobalReadLock, for any number of connections of each kind *)
(* and any number of FLUSH statements, with a KILL at any point.           *)
(***************************************************************************)
EXTENDS GlobalReadLock, FiniteSetTheorems, TLAPS

(* whom each of the four counters counts *)
Locking    == {t \in Thread : grl[t] # 0}
Blocking   == {t \in Thread : grl[t] = 2 \/ pc[t] = "make"}
Asking     == {t \in Thread : pc[t] = "lock"}
Protecting == {t \in Thread : pc[t] = "protected"}

(* where the threads of each kind can be *)
Places ==
    /\ \A t \in Flusher : pc[t] \in {"idle", "lock", "close", "closing", "make", "held",
                                     "undo", "owncommit"}
    /\ \A t \in Committer \cup Definer : pc[t] \in {"idle", "begin", "wait", "protected"}
    /\ \A t \in Writer : pc[t] \in {"idle", "opened", "begin", "wait", "writing", "reopen"}

(* thd->global_read_lock, from where the thread is *)
LockState ==
    \A t \in Thread :
        /\ pc[t] \in {"make", "undo"} => grl[t] = 1
        /\ pc[t] \in {"held", "owncommit"} => grl[t] = 2
        /\ pc[t] \in {"close", "closing"} => grl[t] # 0
        /\ pc[t] \notin {"make", "undo", "held", "owncommit", "close", "closing"} => grl[t] = 0

(* a table is open exactly in a writing statement, with a version that is  *)
(* not of the future                                                       *)
Versions ==
    \A t \in Thread :
        /\ tables[t] <= refresh_version
        /\ pc[t] \in {"writing", "opened"} => tables[t] # 0

(* Whoever writes while a FLUSHer waits for tables to be closed is among   *)
(* those it waits for, because nobody starts to write then.                *)
WritersAreOld ==
    \A t, u \in Thread : pc[t] = "closing" /\ pc[u] = "writing" => tables[u] < refresh_version

(* After that nobody writes; a killed FLUSHer did not wait, but it will    *)
(* give the lock back.                                                     *)
WritersAreGone ==
    \A t, u \in Thread : grl[t] = 2 \/ (pc[t] = "make" /\ ~killed[t]) => pc[u] # "writing"

(* once the second step is done nobody is protected *)
NobodyProtected ==
    \A t, u \in Thread : grl[t] = 2 => pc[u] # "protected"

ReadLockInv ==
    /\ TypeOK /\ CountersExact /\ Places /\ LockState
    /\ Versions /\ WritersAreOld /\ WritersAreGone /\ NobodyProtected

(* CountersExact with its sets named *)
Counts ==
    /\ global_read_lock = Cardinality(Locking) /\ blocks_commit = Cardinality(Blocking)
    /\ waiting_for = Cardinality(Asking) /\ protect = Cardinality(Protecting)

-----------------------------------------------------------------------------
(* Counting *)

(* one thread more or less in a set of threads changes its size by one *)
LEMMA CountOne ==
    ASSUME NEW S \in SUBSET Thread, NEW t \in Thread
    PROVE  /\ IsFiniteSet(S) /\ Cardinality(S) \in Nat
           /\ Cardinality(S) = 0 => S = {}
           /\ t \notin S => Cardinality(S \cup {t}) = Cardinality(S) + 1
           /\ t \in S => Cardinality(S \ {t}) = Cardinality(S) - 1 /\ Cardinality(S) # 0
<1>1. IsFiniteSet(S)
  BY GlobalReadLockAssumption, FS_Subset
<1>2. Cardinality(S) \in Nat /\ (Cardinality(S) = 0 <=> S = {})
  BY <1>1, FS_CardinalityType, FS_EmptySet
<1> QED
  BY <1>1, <1>2, FS_AddElement, FS_RemoveElement

(* the same of the four sets of this state *)
LEMMA CountEach ==
    ASSUME NEW t \in Thread, NEW S \in {Locking, Blocking, Asking, Protecting}
    PROVE  /\ t \notin S => Cardinality(S \cup {t}) = Cardinality(S) + 1
           /\ t \in S => Cardinality(S \ {t}) = Cardinality(S) - 1 /\ Cardinality(S) # 0
<1>1. S \in SUBSET Thread
  BY DEF Locking, Blocking, Asking, Protecting
<1> QED
  BY <1>1, CountOne

(* a counter is positive when somebody is counted *)
LEMMA Positive ==
    ASSUME CountersExact, NEW t \in Thread
    PROVE  /\ grl[t] # 0 => global_read_lock > 0
           /\ grl[t] = 2 => blocks_commit > 0
           /\ pc[t] = "protected" => protect > 0
<1>1. Cardinality(Locking) \in Nat /\ (t \in Locking => Cardinality(Locking) # 0)
  BY CountOne DEF Locking
<1>2. Cardinality(Blocking) \in Nat /\ (t \in Blocking => Cardinality(Blocking) # 0)
  BY CountOne DEF Blocking
<1>3. Cardinality(Protecting) \in Nat /\ (t \in Protecting => Cardinality(Protecting) # 0)
  BY CountOne DEF Protecting
<1> QED
  BY <1>1, <1>2, <1>3 DEF CountersExact, Locking, Blocking, Protecting

LEMMA ReadLockInit == Init => ReadLockInv
<1> SUFFICES ASSUME Init PROVE ReadLockInv
  OBVIOUS
<1> USE GlobalReadLockAssumption DEF Init
<1>1. Locking = {} /\ Blocking = {} /\ Asking = {} /\ Protecting = {}
  BY DEF Locking, Blocking, Asking, Protecting
<1>2. CountersExact
  BY <1>1, FS_EmptySet DEF CountersExact, Locking, Blocking, Asking, Protecting
<1>3. TypeOK
  BY DEF TypeOK
<1>4. Places /\ LockState
  BY DEF Places, LockState, Thread
<1>5. Versions /\ WritersAreOld /\ WritersAreGone /\ NobodyProtected
  BY DEF Versions, WritersAreOld, WritersAreGone, NobodyProtected
<1> QED
  BY <1>2, <1>3, <1>4, <1>5 DEF ReadLockInv
-----------------------------------------------------------------------------
(* Every step preserves the invariant *)

(* the steps that leave the counters alone *)
Uncounted(t) ==
    \/ Sleep(t) \/ Broadcast(t) \/ LockWait(t) \/ CloseCachedTables(t)
    \/ ClosingWait(t) \/ MakeWait(t) \/ FlushAgain(t) \/ OwnCommit(t)
    \/ OwnCommitDone(t) \/ Begin(t) \/ EnterWait(t) \/ WaitIfWait(t) \/ OpenTables(t)
    \/ LockTables(t) \/ WriterGoes(t) \/ CloseTables(t) \/ Kill(t)

LEMMA UncountedCounts ==
    ASSUME ReadLockInv, NEW t \in Thread, Uncounted(t)
    PROVE  CountersExact'
<1> USE DEF ReadLockInv, counters, Goto, Doze, Uncounted, Sleep, Broadcast,
       LockWait, CloseCachedTables, ClosingWait, MakeWait, FlushAgain,
       OwnCommit, OwnCommitDone, Begin, EnterWait, WaitIfWait, OpenTables,
       LockTables, WriterGoes, CloseTables, Kill
<1>1. counters' = counters /\ grl' = grl
  BY DEF Uncounted, Sleep, Broadcast, LockWait, CloseCachedTables,
         ClosingWait, MakeWait, FlushAgain, OwnCommit, OwnCommitDone, Begin,
         EnterWait, WaitIfWait, OpenTables, LockTables, WriterGoes,
         CloseTables, Kill
<1>2. /\ Locking' = Locking /\ Blocking' = Blocking
      /\ Asking' = Asking /\ Protecting' = Protecting
  BY <1>1 DEF Ready, Locking, Blocking, Asking, Protecting, TypeOK, Places,
         LockState, Thread, LeavesWait, MayPass
<1> QED
  BY <1>1, <1>2 DEF CountersExact, Locking, Blocking, Asking, Protecting

LEMMA UncountedPlaces ==
    ASSUME ReadLockInv, NEW t \in Thread, Uncounted(t)
    PROVE  TypeOK' /\ Places' /\ LockState'
<1> USE GlobalReadLockAssumption DEF ReadLockInv, counters, Goto, Doze,
       Uncounted, Sleep, Broadcast, LockWait, CloseCachedTables, ClosingWait,
       MakeWait, FlushAgain, OwnCommit, OwnCommitDone, Begin, EnterWait,
       WaitIfWait, OpenTables, LockTables, WriterGoes, CloseTables, Kill
<1>1. TypeOK'
  <2>1. CASE Sleep(t) BY <2>1 DEF TypeOK
  <2>2. CASE Broadcast(t) BY <2>2 DEF TypeOK
  <2>3. CASE LockWait(t) BY <2>3 DEF TypeOK
  <2>4. CASE CloseCachedTables(t) BY <2>4 DEF TypeOK
  <2>5. CASE ClosingWait(t) BY <2>5 DEF TypeOK
  <2>6. CASE MakeWait(t) BY <2>6 DEF TypeOK
  <2>7. CASE FlushAgain(t) BY <2>7 DEF TypeOK
  <2>8. CASE OwnCommit(t) BY <2>8 DEF TypeOK
  <2>9. CASE OwnCommitDone(t) BY <2>9 DEF TypeOK
  <2>10. CASE Begin(t) BY <2>10 DEF TypeOK
  <2>11. CASE EnterWait(t) BY <2>11 DEF TypeOK
  <2>12. CASE WaitIfWait(t) BY <2>12 DEF TypeOK
  <2>13. CASE OpenTables(t) BY <2>13 DEF TypeOK
  <2>14. CASE LockTables(t) BY <2>14 DEF TypeOK
  <2>15. CASE WriterGoes(t) BY <2>15 DEF TypeOK
  <2>16. CASE CloseTables(t) BY <2>16 DEF TypeOK
  <2>17. CASE Kill(t) BY <2>17 DEF TypeOK
  <2> QED BY <2>1, <2>2, <2>3, <2>4, <2>5, <2>6, <2>7, <2>8, <2>9, <2>10,
         <2>11, <2>12, <2>13, <2>14, <2>15, <2>16, <2>17
<1>2. Places'
  BY DEF Ready, TypeOK, Places, Thread, LeavesWait, MayPass
<1>3. LockState'
  BY DEF Ready, TypeOK, LockState, Places, Thread, LeavesWait, MayPass
<1> QED
  BY <1>1, <1>2, <1>3

LEMMA UncountedWriters ==
    ASSUME ReadLockInv, NEW t \in Thread, Uncounted(t)
    PROVE  Versions' /\ WritersAreOld' /\ WritersAreGone' /\ NobodyProtected'
<1> USE GlobalReadLockAssumption DEF ReadLockInv, counters, Goto, Doze,
       Uncounted, Sleep, Broadcast, LockWait, CloseCachedTables, ClosingWait,
       MakeWait, FlushAgain, OwnCommit, OwnCommitDone, Begin, EnterWait,
       WaitIfWait, OpenTables, LockTables, WriterGoes, CloseTables, Kill
<1>0. \A u \in Thread : grl[u] # 0 => global_read_lock > 0
  BY Positive
<1>1. Versions'
  BY DEF Ready, TypeOK, Versions, LeavesWait, MayPass
<1>2. WritersAreOld'
  BY <1>0 DEF Ready, TypeOK, Versions, WritersAreOld, LockState, LeavesWait,
         MayPass, KeepsWaiting, must_wait
<1>3. WritersAreGone'
  BY <1>0 DEF Ready, TypeOK, WritersAreGone, LockState, LeavesWait, MayPass,
         KeepsWaiting, must_wait
<1>4. NobodyProtected'
  BY DEF Ready, TypeOK, NobodyProtected
<1> QED
  BY <1>1, <1>2, <1>3, <1>4

LEMMA FlushTablesKeeps ==
    ASSUME ReadLockInv, NEW t \in Thread, FlushTables(t)
    PROVE  ReadLockInv'
<1> USE GlobalReadLockAssumption DEF ReadLockInv, FlushTables, Ready, Goto
<1>1. TypeOK'
  BY DEF TypeOK
<1>2. /\ Locking' = Locking /\ Blocking' = Blocking /\ Protecting' = Protecting
      /\ Asking' = Asking \cup {t} /\ t \notin Asking
  BY DEF Locking, Blocking, Asking, Protecting, TypeOK
<1>3. CountersExact'
  <2>1. Counts
    BY DEF Counts, CountersExact, Locking, Blocking, Asking, Protecting
  <2>2. Counts'
    BY <1>2, <2>1, CountEach DEF Counts
  <2> QED
    BY <2>2 DEF Counts, CountersExact, Locking, Blocking, Asking, Protecting
<1>4. Places' /\ LockState'
  BY DEF Places, LockState, TypeOK, Thread
<1>5. Versions' /\ WritersAreOld' /\ WritersAreGone' /\ NobodyProtected'
  BY DEF Versions, WritersAreOld, WritersAreGone, NobodyProtected, TypeOK
<1> QED
  BY <1>1, <1>3, <1>4, <1>5

LEMMA LockDoneKeeps ==
    ASSUME ReadLockInv, NEW t \in Thread, LockDone(t)
    PROVE  ReadLockInv'
<1> USE GlobalReadLockAssumption
    DEF ReadLockInv, LockDone, Goto, GOT_GLOBAL_READ_LOCK
<1>1. /\ Blocking' = Blocking /\ Protecting' = Protecting
      /\ Asking' = Asking \ {t} /\ t \in Asking /\ t \notin Locking
      /\ Locking' = IF killed[t] THEN Locking ELSE Locking \cup {t}
  BY DEF Locking, Blocking, Asking, Protecting, TypeOK, LockState
<1>2. CountersExact'
  <2>1. Counts
    BY DEF Counts, CountersExact, Locking, Blocking, Asking, Protecting
  <2>2. Counts'
    BY <1>1, <2>1, CountEach DEF Counts
  <2> QED
    BY <2>2 DEF Counts, CountersExact, Locking, Blocking, Asking, Protecting
<1>3. waiting_for # 0
  BY <1>1, CountOne DEF CountersExact, Asking
<1>4. TypeOK'
  BY <1>3 DEF TypeOK
<1>5. Places' /\ LockState'
  BY DEF Places, LockState, TypeOK, Thread
<1>6. Versions' /\ WritersAreOld' /\ WritersAreGone' /\ NobodyProtected'
  BY DEF Versions, WritersAreOld, WritersAreGone, NobodyProtected, TypeOK
<1> QED
  BY <1>2, <1>4, <1>5, <1>6

LEMMA ClosingDoneKeeps ==
    ASSUME ReadLockInv, NEW t \in Thread, ClosingDone(t)
    PROVE  ReadLockInv'
<1> USE GlobalReadLockAssumption
    DEF ReadLockInv, ClosingDone, Goto, GOT_GLOBAL_READ_LOCK
<1>1. /\ Locking' = Locking /\ Protecting' = Protecting /\ Asking' = Asking
      /\ Blocking' = IF grl[t] = 1 THEN Blocking \cup {t} ELSE Blocking
      /\ grl[t] = 1 => t \notin Blocking
  BY DEF Locking, Blocking, Asking, Protecting, TypeOK, LockState
<1>2. CountersExact'
  <2>1. Counts
    BY DEF Counts, CountersExact, Locking, Blocking, Asking, Protecting
  <2>2. Counts'
    BY <1>1, <2>1, CountEach DEF Counts
  <2> QED
    BY <2>2 DEF Counts, CountersExact, Locking, Blocking, Asking, Protecting
<1>3. TypeOK'
  BY DEF TypeOK
<1>4. Places' /\ LockState'
  BY DEF Places, LockState, TypeOK, Thread
<1>5. ~killed[t] => \A u \in Thread : pc[u] # "writing"
  BY DEF OldTables, Versions, WritersAreOld
<1>6. Versions' /\ WritersAreOld' /\ WritersAreGone' /\ NobodyProtected'
  BY <1>5 DEF Versions, WritersAreOld, WritersAreGone, NobodyProtected, TypeOK
<1> QED
  BY <1>2, <1>3, <1>4, <1>6

LEMMA MakeDoneKeeps ==
    ASSUME ReadLockInv, NEW t \in Thread, MakeDone(t)
    PROVE  ReadLockInv'
<1> USE GlobalReadLockAssumption
    DEF ReadLockInv, MakeDone, Goto, MADE_GLOBAL_READ_LOCK_BLOCK_COMMIT
<1>1. /\ Locking' = Locking /\ Protecting' = Protecting /\ Asking' = Asking
      /\ Blocking' = IF killed[t] THEN Blocking \ {t} ELSE Blocking
      /\ t \in Blocking
  BY DEF Locking, Blocking, Asking, Protecting, TypeOK, LockState
<1>2. CountersExact'
  <2>1. Counts
    BY DEF Counts, CountersExact, Locking, Blocking, Asking, Protecting
  <2>2. Counts'
    BY <1>1, <2>1, CountEach DEF Counts
  <2> QED
    BY <2>2 DEF Counts, CountersExact, Locking, Blocking, Asking, Protecting
<1>3. blocks_commit # 0
  BY <1>1, CountOne DEF CountersExact, Blocking
<1>4. TypeOK'
  BY <1>3 DEF TypeOK
<1>5. Places' /\ LockState'
  BY DEF Places, LockState, TypeOK, Thread
<1>6. ~killed[t] => \A u \in Thread : pc[u] # "protected"
  BY Positive
<1>7. Versions' /\ WritersAreOld' /\ WritersAreGone' /\ NobodyProtected'
  BY <1>6 DEF Versions, WritersAreOld, WritersAreGone, NobodyProtected, TypeOK
<1> QED
  BY <1>2, <1>4, <1>5, <1>7

LEMMA UnlockKeeps ==
    ASSUME ReadLockInv, NEW t \in Thread, UnlockGlobalReadLock(t)
    PROVE  ReadLockInv'
<1> USE GlobalReadLockAssumption
    DEF ReadLockInv, UnlockGlobalReadLock, Goto, MADE_GLOBAL_READ_LOCK_BLOCK_COMMIT
<1>1. /\ Locking' = Locking \ {t} /\ Protecting' = Protecting /\ Asking' = Asking
      /\ Blocking' = IF grl[t] = 2 THEN Blocking \ {t} ELSE Blocking
      /\ t \in Locking /\ (grl[t] = 2 => t \in Blocking)
  BY DEF Locking, Blocking, Asking, Protecting, TypeOK, LockState
<1>2. CountersExact'
  <2>1. Counts
    BY DEF Counts, CountersExact, Locking, Blocking, Asking, Protecting
  <2>2. Counts'
    BY <1>1, <2>1, CountEach DEF Counts
  <2> QED
    BY <2>2 DEF Counts, CountersExact, Locking, Blocking, Asking, Protecting
<1>3. global_read_lock # 0 /\ (grl[t] = 2 => blocks_commit # 0)
  BY <1>1, CountOne DEF CountersExact, Locking, Blocking
<1>4. TypeOK'
  BY <1>3 DEF TypeOK
<1>5. Places' /\ LockState'
  BY DEF Places, LockState, TypeOK, Thread
<1>6. Versions' /\ WritersAreOld' /\ WritersAreGone' /\ NobodyProtected'
  BY DEF Versions, WritersAreOld, WritersAreGone, NobodyProtected, TypeOK
<1> QED
  BY <1>2, <1>4, <1>5, <1>6

LEMMA WaitIfProtectKeeps ==
    ASSUME ReadLockInv, NEW t \in Thread, WaitIfProtect(t)
    PROVE  ReadLockInv'
<1> USE GlobalReadLockAssumption DEF ReadLockInv, WaitIfProtect, LeavesWait, MayPass, Goto
<1>1. /\ Locking' = Locking /\ Blocking' = Blocking /\ Asking' = Asking
      /\ Protecting' = IF pc[t] = "wait" /\ killed[t] THEN Protecting ELSE Protecting \cup {t}
      /\ t \notin Protecting
  BY DEF Locking, Blocking, Asking, Protecting, TypeOK
<1>2. CountersExact'
  <2>1. Counts
    BY DEF Counts, CountersExact, Locking, Blocking, Asking, Protecting
  <2>2. Counts'
    BY <1>1, <2>1, CountEach DEF Counts
  <2> QED
    BY <2>2 DEF Counts, CountersExact, Locking, Blocking, Asking, Protecting
<1>3. TypeOK'
  BY DEF TypeOK
<1>4. Places' /\ LockState'
  BY DEF Places, LockState, TypeOK, Thread
<1>5. pc'[t] = "protected" => \A u \in Thread : grl[u] # 2
  BY Positive DEF must_wait, KeepsWaiting, TypeOK
<1>6. Versions' /\ WritersAreOld' /\ WritersAreGone' /\ NobodyProtected'
  BY <1>5 DEF Versions, WritersAreOld, WritersAreGone, NobodyProtected, TypeOK
<1> QED
  BY <1>2, <1>3, <1>4, <1>6

LEMMA StartWaitingKeeps ==
    ASSUME ReadLockInv, NEW t \in Thread, StartWaiting(t)
    PROVE  ReadLockInv'
<1> USE GlobalReadLockAssumption DEF ReadLockInv, StartWaiting, Goto
<1>1. /\ Locking' = Locking /\ Blocking' = Blocking /\ Asking' = Asking
      /\ Protecting' = Protecting \ {t} /\ t \in Protecting
  BY DEF Locking, Blocking, Asking, Protecting, TypeOK
<1>2. CountersExact'
  <2>1. Counts
    BY DEF Counts, CountersExact, Locking, Blocking, Asking, Protecting
  <2>2. Counts'
    BY <1>1, <2>1, CountEach DEF Counts
  <2> QED
    BY <2>2 DEF Counts, CountersExact, Locking, Blocking, Asking, Protecting
<1>3. TypeOK'
  BY <1>1, Positive DEF TypeOK, Protecting
<1>4. Places' /\ LockState'
  BY DEF Places, LockState, TypeOK, Thread
<1>5. Versions' /\ WritersAreOld' /\ WritersAreGone' /\ NobodyProtected'
  BY DEF Versions, WritersAreOld, WritersAreGone, NobodyProtected, TypeOK
<1> QED
  BY <1>2, <1>3, <1>4, <1>5

LEMMA ReadLockStep == ReadLockInv /\ [Next]_vars => ReadLockInv'
<1> SUFFICES ASSUME ReadLockInv, [Next]_vars PROVE ReadLockInv'
  OBVIOUS
<1>1. CASE UNCHANGED vars
  BY <1>1 DEF vars, counters, ReadLockInv, TypeOK, CountersExact, Places, LockState,
              Versions, WritersAreOld, WritersAreGone, NobodyProtected
<1>2. ASSUME NEW t \in Thread, Uncounted(t) PROVE ReadLockInv'
  BY <1>2, UncountedCounts, UncountedPlaces, UncountedWriters DEF ReadLockInv
<1> QED
  BY <1>1, <1>2, FlushTablesKeeps, LockDoneKeeps, ClosingDoneKeeps, MakeDoneKeeps,
     UnlockKeeps, WaitIfProtectKeeps, StartWaitingKeeps
     DEF Next, Continue, Uncounted

-----------------------------------------------------------------------------
(* The invariant holds in every reachable state. *)
THEOREM ReadLockInvariant == Spec => []ReadLockInv
BY ReadLockInit, ReadLockStep, PTL DEF Spec

(* The four counters of sql/lock.cc never underflow, and every variable    *)
(* keeps its type, for any number of connections.                          *)
THEOREM TypeCorrect == Spec => []TypeOK
<1>1. ReadLockInv => TypeOK
  BY DEF ReadLockInv
<1> QED
  BY <1>1, ReadLockInvariant, PTL

(* Each counter is the number of connections in the states its comment     *)
(* names, on every way into and out of FLUSH, COMMIT and DDL, killed or not.*)
THEOREM CountersStayExact == Spec => []CountersExact
<1>1. ReadLockInv => CountersExact
  BY DEF ReadLockInv
<1> QED
  BY <1>1, ReadLockInvariant, PTL

(* From the return of FLUSH TABLES WITH READ LOCK to UNLOCK TABLES nobody  *)
(* commits, defines or writes, however many connections flush, write and   *)
(* are killed.                                                             *)
THEOREM ServerIsQuiet == Spec => []QuietUnderReadLock
<1>1. ReadLockInv => QuietUnderReadLock
  BY DEF ReadLockInv, QuietUnderReadLock, WritersAreGone, NobodyProtected
<1> QED
  BY <1>1, ReadLockInvariant, PTL
=============================================================================
