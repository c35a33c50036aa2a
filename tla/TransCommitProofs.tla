------------------------- MODULE TransCommitProofs -------------------------
(***************************************************************************)
(* Proofs about TransCommit for any number of transactions, crashes and    *)
(* log files.                                                              *)
(***************************************************************************)
EXTENDS TransCommit, FiniteSetTheorems, TLAPS

(* the transactions that prepared_xids counts *)
Counted == {t \in Txn : pc[t] \in {"commit", "unlog"} /\ t \notin NoBinlog}

(* nobody runs when the server does not *)
QuietWhenDown == server # "up" => \A r \in Thread : Idle(r)

(* LOCK_log is held from the Xid event to its sync, and during a rotation  *)
LockHeld ==
    /\ \A t \in Txn : pc[t] = "sync" => LOCK_log = t
    /\ \A r \in Thread : pc[r] \in {"close", "open"} => LOCK_log = r

(* a transaction without binary log events goes straight to its commit;    *)
(* the thread of FLUSH LOGS only rotates                                   *)
Roles ==
    /\ \A t \in Txn \cap NoBinlog :
         pc[t] \in {"new", "active", "commit", "done", "crashed"}
    /\ pc[Flusher] \in {"new", "close", "open"}

CountExact == prepared_xids = Cardinality(Counted)

(* while a file is being replaced nothing that is logged is uncommitted *)
NoneCountedInOpen ==
    \A r \in Thread, t \in Txn : pc[r] = "open" => t \notin Counted

LogInv == TypeOK /\ QuietWhenDown /\ LockHeld /\ Roles /\ CountExact /\ NoneCountedInOpen

-----------------------------------------------------------------------------
(* A change of pc outside the counted places leaves the count alone, the   *)
(* two others change it by one.                                            *)

LEMMA CountedFinite == IsFiniteSet(Counted) /\ Cardinality(Counted) \in Nat
<1>1. IsFiniteSet(Counted)
  BY TransCommitAssumption, FS_Subset DEF Counted
<1> QED
  BY <1>1, FS_CardinalityType

LEMMA CountedAdd ==
    ASSUME NEW t \in Txn, t \notin Counted, Counted' = Counted \cup {t}
    PROVE  Cardinality(Counted') = Cardinality(Counted) + 1
BY CountedFinite, FS_AddElement

LEMMA CountedRemove ==
    ASSUME NEW t \in Txn, t \in Counted, Counted' = Counted \ {t}
    PROVE  Cardinality(Counted') = Cardinality(Counted) - 1
BY CountedFinite, FS_RemoveElement

LEMMA CountedNone ==
    ASSUME Counted' = {}
    PROVE  Cardinality(Counted') = 0
BY FS_EmptySet

LEMMA CountedZero ==
    ASSUME Cardinality(Counted) = 0
    PROVE  Counted = {}
BY CountedFinite, FS_EmptySet

LEMMA LogInit == Init => LogInv
<1> SUFFICES ASSUME Init PROVE LogInv
  OBVIOUS
<1> USE TransCommitAssumption DEF Init
<1>1. Counted = {}
  BY DEF Counted, Thread
<1>2. CountExact
  BY <1>1, FS_EmptySet DEF CountExact
<1>3. TypeOK
  BY DEF TypeOK, Thread
<1>4. QuietWhenDown /\ LockHeld /\ Roles
  BY DEF QuietWhenDown, LockHeld, Roles, Thread
<1>5. NoneCountedInOpen
  BY <1>1 DEF NoneCountedInOpen
<1> QED
  BY <1>2, <1>3, <1>4, <1>5 DEF LogInv

-----------------------------------------------------------------------------
(* Every step preserves LogInv *)

LEMMA SetTrxType ==
    ASSUME TypeOK, NEW t \in Txn, NEW s \in {"active", "prepared", "committed", "aborted"},
           SetTrx(t, s)
    PROVE  /\ trx' \in [Txn -> {"active", "prepared", "committed", "aborted"}]
           /\ trxOs' \in [Txn -> {"active", "prepared", "committed", "aborted"}]
           /\ trxDisk' \in [Txn -> {"active", "prepared", "committed", "aborted"}]
BY DEF TypeOK, SetTrx

LEMMA TxnStepsKeepLogInv ==
    ASSUME LogInv, NEW t \in Txn,
           \/ Begin(t) \/ Commit(t) \/ Rollback(t) \/ Prepare(t) \/ WriteXid(t)
           \/ WriteFails(t) \/ SyncFails(t) \/ RollbackAfterError(t)
           \/ CommitDone(t) \/ RecoverXid(t)
    PROVE  LogInv'
<1> USE TransCommitAssumption DEF LogInv
<1>1. TypeOK'
  <2>1. CASE Begin(t) BY <2>1 DEF Begin, TypeOK, Thread, Goto, trxVars, logVars, lockVars
  <2>2. CASE Commit(t) BY <2>2 DEF Commit, TypeOK, Thread, Goto, trxVars, logVars, lockVars
  <2>3. CASE Rollback(t)
    BY <2>3, SetTrxType DEF Rollback, TypeOK, Thread, Goto, logVars, lockVars
  <2>4. CASE Prepare(t)
    BY <2>4, SetTrxType DEF Prepare, TypeOK, Thread, Goto, trxVars, logVars, lockVars
  <2>5. CASE WriteXid(t)
    BY <2>5 DEF WriteXid, TypeOK, Thread, Goto, trxVars, logVars, lockVars
  <2>6. CASE WriteFails(t)
    BY <2>6 DEF WriteFails, TypeOK, Thread, Goto, trxVars, logVars, lockVars
  <2>7. CASE SyncFails(t)
    BY <2>7 DEF SyncFails, CountSync, TypeOK, Thread, Goto, trxVars, logVars, lockVars
  <2>8. CASE RollbackAfterError(t)
    BY <2>8, SetTrxType DEF RollbackAfterError, TypeOK, Thread, Goto, logVars, lockVars
  <2>9. CASE CommitDone(t)
    BY <2>9 DEF CommitDone, TypeOK, Thread, Goto, trxVars, logVars, lockVars
  <2>10. CASE RecoverXid(t)
    BY <2>10, SetTrxType DEF RecoverXid, TypeOK, Thread, logVars, lockVars
  <2> QED BY <2>1, <2>2, <2>3, <2>4, <2>5, <2>6, <2>7, <2>8, <2>9, <2>10
<1>2. /\ Counted' = Counted
      /\ prepared_xids' = prepared_xids
  BY DEF Begin, Commit, Rollback, Prepare, WriteXid, WriteFails, SyncFails,
         RollbackAfterError, CommitDone, RecoverXid, Goto, Counted, TypeOK, Thread,
         logVars, Roles
<1>3. CountExact'
  BY <1>2 DEF CountExact
<1>4. QuietWhenDown'
  BY DEF Begin, Commit, Rollback, Prepare, WriteXid, WriteFails, SyncFails,
         RollbackAfterError, CommitDone, RecoverXid, Goto, TypeOK, Thread,
         QuietWhenDown, Idle
<1>5. LockHeld'
  BY DEF Begin, Commit, Rollback, Prepare, WriteXid, WriteFails, SyncFails,
         RollbackAfterError, CommitDone, RecoverXid, Goto, TypeOK, Thread,
         LockHeld, lockVars
<1>6. Roles'
  BY DEF Begin, Commit, Rollback, Prepare, WriteXid, WriteFails, SyncFails,
         RollbackAfterError, CommitDone, RecoverXid, Goto, TypeOK, Thread, Roles
<1>7. NoneCountedInOpen'
  BY <1>2 DEF Begin, Commit, Rollback, Prepare, WriteXid, WriteFails, SyncFails,
         RollbackAfterError, CommitDone, RecoverXid, Goto, TypeOK, Thread,
         NoneCountedInOpen
<1> QED
  BY <1>1, <1>3, <1>4, <1>5, <1>6, <1>7

LEMMA SyncXidKeepsLogInv ==
    ASSUME LogInv, NEW t \in Txn, SyncXid(t)
    PROVE  LogInv'
<1> USE TransCommitAssumption DEF LogInv, SyncXid, CountSync, Goto
<1>1. TypeOK'
  BY DEF TypeOK, Thread, trxVars
<1>2. t \notin NoBinlog
  BY DEF Roles
<1>3. Counted' = Counted \cup {t} /\ t \notin Counted
  BY <1>2 DEF Counted, TypeOK, Thread
<1>4. CountExact'
  BY <1>3, CountedAdd DEF CountExact
<1>5. QuietWhenDown' /\ LockHeld' /\ Roles'
  BY <1>2 DEF QuietWhenDown, LockHeld, Roles, Idle, TypeOK, Thread
<1>6. NoneCountedInOpen'
  BY <1>3 DEF NoneCountedInOpen, LockHeld, TypeOK, Thread
<1> QED
  BY <1>1, <1>4, <1>5, <1>6

LEMMA EngineCommitKeepsLogInv ==
    ASSUME LogInv, NEW t \in Txn, EngineCommit(t)
    PROVE  LogInv'
<1> USE TransCommitAssumption DEF LogInv, EngineCommit, Goto
<1>1. TypeOK'
  BY SetTrxType DEF TypeOK, Thread, logVars
<1>2. Counted' = Counted /\ prepared_xids' = prepared_xids
  BY DEF Counted, TypeOK, Thread, logVars
<1>3. CountExact'
  BY <1>2 DEF CountExact
<1>4. QuietWhenDown' /\ LockHeld' /\ Roles'
  BY DEF QuietWhenDown, LockHeld, Roles, Idle, TypeOK, Thread
<1>5. NoneCountedInOpen'
  BY <1>2 DEF NoneCountedInOpen, TypeOK, Thread
<1> QED
  BY <1>1, <1>3, <1>4, <1>5

LEMMA UnlogKeepsLogInv ==
    ASSUME LogInv, NEW t \in Txn, Unlog(t)
    PROVE  LogInv'
<1> USE TransCommitAssumption DEF LogInv, Unlog, Goto
<1>1. t \notin NoBinlog
  BY DEF Roles
<1>2. Counted' = Counted \ {t} /\ t \in Counted
  BY <1>1 DEF Counted, TypeOK, Thread
<1>3. CountExact'
  BY <1>2, CountedRemove DEF CountExact
<1>4. prepared_xids' \in Nat
  <2>1. prepared_xids # 0
    BY <1>2, CountedZero DEF CountExact
  <2> QED BY <2>1 DEF TypeOK
<1>5. TypeOK'
  BY <1>4 DEF TypeOK, Thread, trxVars, lockVars
<1>6. QuietWhenDown' /\ LockHeld' /\ Roles'
  BY <1>1 DEF QuietWhenDown, LockHeld, Roles, Idle, TypeOK, Thread, lockVars
<1>7. NoneCountedInOpen'
  BY <1>2 DEF NoneCountedInOpen, TypeOK, Thread
<1> QED
  BY <1>3, <1>5, <1>6, <1>7

LEMMA RotationKeepsLogInv ==
    ASSUME LogInv, NEW r \in Thread, NewFile(r) \/ CloseFile(r) \/ OpenFile(r)
    PROVE  LogInv'
<1> USE TransCommitAssumption DEF LogInv, NewFile, CloseFile, OpenFile, Goto
<1>1. TypeOK'
  <2>1. ASSUME NewFile(r) PROVE TypeOK'
    BY <2>1 DEF TypeOK, Thread, trxVars, logVars, lockVars
  <2>2. ASSUME CloseFile(r) PROVE TypeOK'
    BY <2>2 DEF TypeOK, Thread, trxVars, logVars, lockVars
  <2>3. ASSUME OpenFile(r) PROVE TypeOK'
    BY <2>3 DEF TypeOK, Thread, trxVars, logVars, lockVars
  <2> QED BY <2>1, <2>2, <2>3
<1>2. server = "up" /\ server' = "up"
  BY DEF QuietWhenDown, Idle, TypeOK, Thread
<1>3. Counted' = Counted /\ prepared_xids' = prepared_xids
  <2>1. prepared_xids' = prepared_xids
    BY DEF logVars
  <2>2. \A t \in Txn : pc'[t] \in {"commit", "unlog"} <=> pc[t] \in {"commit", "unlog"}
    <3>1. CASE NewFile(r)
      BY <3>1 DEF TypeOK, Thread
    <3>2. CASE CloseFile(r)
      BY <3>2 DEF TypeOK, Thread
    <3>3. CASE OpenFile(r)
      BY <3>3 DEF TypeOK, Thread
    <3> QED BY <3>1, <3>2, <3>3
  <2> QED BY <2>1, <2>2 DEF Counted
<1>4. CountExact'
  BY <1>3 DEF CountExact
<1>5. QuietWhenDown' /\ LockHeld'
  <2>1. QuietWhenDown'
    BY <1>2 DEF QuietWhenDown
  <2>2. ASSUME NewFile(r) PROVE LockHeld'
    BY <2>2 DEF LockHeld, TypeOK, Thread
  <2>3. ASSUME CloseFile(r) PROVE LockHeld'
    BY <2>3 DEF LockHeld, TypeOK, Thread, lockVars
  <2>4. ASSUME OpenFile(r) PROVE LockHeld'
    BY <2>4 DEF LockHeld, TypeOK, Thread
  <2> QED BY <2>1, <2>2, <2>3, <2>4
<1>6. Roles'
  BY DEF Roles, TypeOK, Thread
<1>7. NoneCountedInOpen'
  <2>1. CASE CloseFile(r)
    BY <2>1, <1>3, CountedZero DEF CountExact, NoneCountedInOpen
  <2>2. CASE NewFile(r) \/ OpenFile(r)
    BY <2>2, <1>3 DEF NoneCountedInOpen, TypeOK, Thread
  <2> QED BY <2>1, <2>2
<1> QED
  BY <1>1, <1>4, <1>5, <1>6, <1>7

LEMMA ServerStepsKeepLogInv ==
    ASSUME LogInv,
           \/ LogFlush \/ WriteBack \/ Shutdown \/ ShutdownEngine \/ StartEngine
           \/ StartServer
    PROVE  LogInv'
<1> USE TransCommitAssumption
        DEF LogInv, LogFlush, WriteBack, Shutdown, ShutdownEngine, StartEngine, StartServer
<1>1. TypeOK'
  <2>1. ASSUME LogFlush PROVE TypeOK'
    BY <2>1 DEF TypeOK, Thread, trxVars, logVars, lockVars
  <2>2. ASSUME WriteBack PROVE TypeOK'
    BY <2>2 DEF TypeOK, Thread, trxVars, logVars, lockVars
  <2>3. ASSUME Shutdown PROVE TypeOK'
    BY <2>3 DEF TypeOK, Thread, trxVars, logVars, lockVars
  <2>4. ASSUME ShutdownEngine PROVE TypeOK'
    BY <2>4 DEF TypeOK, Thread, trxVars, logVars, lockVars
  <2>5. ASSUME StartEngine PROVE TypeOK'
    BY <2>5 DEF TypeOK, Thread, trxVars, logVars, lockVars
  <2>6. ASSUME StartServer PROVE TypeOK'
    BY <2>6 DEF TypeOK, Thread, trxVars, logVars, lockVars
  <2> QED BY <2>1, <2>2, <2>3, <2>4, <2>5, <2>6
<1>2. pc' = pc /\ Counted' = Counted /\ prepared_xids' = prepared_xids
  BY DEF Counted, logVars
<1>3. CountExact' /\ NoneCountedInOpen'
  BY <1>2 DEF CountExact, NoneCountedInOpen
<1>4. Roles'
  BY <1>2 DEF Roles
<1>5. QuietWhenDown'
  BY <1>2 DEF QuietWhenDown, Idle
<1>6. LockHeld'
  BY <1>2 DEF LockHeld, lockVars
<1> QED
  BY <1>1, <1>3, <1>4, <1>5, <1>6

LEMMA CrashKeepsLogInv ==
    ASSUME LogInv, NEW kind \in Crashes, Crash(kind)
    PROVE  LogInv'
<1> USE TransCommitAssumption DEF LogInv, Crash
<1>1. TypeOK'
  BY DEF TypeOK, Thread, Idle
<1>2. Counted' = {}
  BY DEF Counted, Thread, Idle
<1>3. CountExact' /\ NoneCountedInOpen'
  BY <1>2, CountedNone DEF CountExact, NoneCountedInOpen
<1>4. QuietWhenDown' /\ LockHeld'
  BY DEF QuietWhenDown, LockHeld, Idle, Thread
<1>5. Roles'
  BY DEF Roles, Idle, Thread
<1> QED
  BY <1>1, <1>3, <1>4, <1>5

LEMMA LogInvStep == LogInv /\ [Next]_vars => LogInv'
<1> SUFFICES ASSUME LogInv, [Next]_vars PROVE LogInv'
  OBVIOUS
<1>1. CASE UNCHANGED vars
  BY <1>1 DEF vars, trxVars, logVars, lockVars, LogInv, TypeOK, QuietWhenDown, LockHeld,
              Roles, CountExact, NoneCountedInOpen, Counted, Idle
<1>2. ASSUME NEW t \in Txn, Begin(t) \/ Commit(t) \/ Rollback(t) \/ RecoverXid(t)
      PROVE  LogInv'
  BY <1>2, TxnStepsKeepLogInv
<1>3. ASSUME NEW r \in Thread, Continue(r) \/ NewFile(r)
      PROVE  LogInv'
  BY <1>3, TxnStepsKeepLogInv, SyncXidKeepsLogInv, EngineCommitKeepsLogInv,
     UnlogKeepsLogInv, RotationKeepsLogInv DEF Continue
<1>4. CASE LogFlush \/ WriteBack \/ Shutdown \/ ShutdownEngine \/ StartEngine \/ StartServer
  BY <1>4, ServerStepsKeepLogInv
<1>5. ASSUME NEW kind \in Crashes, Crash(kind)
      PROVE  LogInv'
  BY <1>5, CrashKeepsLogInv
<1> QED
  BY <1>1, <1>2, <1>3, <1>4, <1>5 DEF Next

(* LogInv is an invariant for all settings, with and without write errors *)
THEOREM LogInvariant == Spec => []LogInv
<1>1. Init => LogInv
  BY LogInit
<1>2. LogInv /\ [Next]_vars => LogInv'
  BY LogInvStep
<1> QED
  BY <1>1, <1>2, PTL DEF Spec

(* Type correctness; that prepared_xids never goes below zero is the part  *)
(* that needs the count of the transactions between log and unlog.         *)
THEOREM TypeCorrect == Spec => []TypeOK
BY LogInvariant, PTL DEF LogInv

-----------------------------------------------------------------------------
(***************************************************************************)
(* Proof that the two-phase commit of TransCommit is atomic: under         *)
(* SafeSettings InnoDB and the binary log agree, what a client was told    *)
(* lasts, and TransCommit implements AtomicCommit, for any number of       *)
(* transactions, crashes and log files.                                    *)
(***************************************************************************)

(* under the safe settings nothing waits to be written, except the Xid     *)
(* event of a transaction that is just being synced                        *)
Stored ==
    /\ trxOs = trx
    /\ "os" \in Crashes =>
         /\ trxDisk = trx
         /\ \A t \in Txn : synced[t] = logged[t] \/ (pc[t] = "sync" /\ synced[t] = 0)

(* the log files: transactions are only in files that exist, and not       *)
(* before their commit comes there; the last file is in use when the       *)
(* server is, except in the middle of a rotation                           *)
Files ==
    /\ last # 0 /\ \A t \in Txn : logged[t] <= last
    /\ \A t \in Txn : pc[t] \in {"new", "active", "prepare", "log"} => logged[t] = 0
    /\ server = "up" => in_use \/ \E r \in Thread : pc[r] = "open"

Running(t) == ~Idle(t)

(* the transactions whose xid may still be looked up *)
Live(t) == Running(t) \/ logged[t] = last \/ trx[t] = "prepared"

(* query_id starts again at 1, but not while a xid is alive *)
XidsDiffer ==
    /\ \A t \in Txn : Live(t) => xid[t] < query_id
    /\ \A t, u \in Txn : Live(t) /\ Live(u) /\ xid[t] = xid[u] => t = u

Unlogged(t) == logged[t] = 0
Findable(t) == logged[t] = last /\ in_use

(* what InnoDB and the binary log have of a transaction, from where its    *)
(* thread is; what a crash leaves is put right before the server is up     *)
Fate(t) ==
    /\ pc[t] \in {"new", "active", "prepare"} => trx[t] = "active"
    /\ pc[t] = "log" => trx[t] = "prepared"
    /\ pc[t] \in {"sync", "commit"} => trx[t] = "prepared" /\ Findable(t)
    /\ pc[t] \in {"unlog", "unlogged", "close", "open"} =>
         trx[t] = "committed" /\ ~Unlogged(t)
    /\ pc[t] = "done" => \/ trx[t] = "committed" /\ ~Unlogged(t)
                         \/ trx[t] = "aborted" /\ Unlogged(t)
    /\ pc[t] = "crashed" =>
         \/ trx[t] = "committed" /\ ~Unlogged(t)
         \/ trx[t] = "aborted" /\ Unlogged(t)
         \/ server = "down" /\ trx[t] = "active" /\ Unlogged(t)
         \/ server \in {"down", "recovering"} /\ trx[t] = "prepared"
            /\ (Unlogged(t) \/ Findable(t))

(* without write errors no COMMIT turns into a rollback *)
NoErrors == \A t \in Txn : pc[t] # "rollback"

(* what the client was told, and what no crash may take back *)
Answered ==
    \A t \in Txn :
      /\ answer[t] # "none" => pc[t] = "done"
      /\ answer[t] = "commit" => trx[t] = "committed"
      /\ answer[t] = "abort" => trx[t] = "aborted"
      /\ pc[t] \in {"unlog", "unlogged", "close", "open"} => trx[t] = "committed"
      /\ pc[t] \in {"new", "active", "prepare", "log", "sync", "commit"} =>
           trx[t] \in {"active", "prepared"}
      /\ trx[t] = "prepared" => t \in TwoPhase

(* prepare_commit_mutex is held from the prepare to the commit *)
Ordered ==
    /\ \A t \in Txn : pc[t] \in {"log", "sync"} => prepare_commit_mutex = t
    /\ \A t \in Txn : InDoubt(t) =>
         \/ pc[t] \in {"sync", "commit"} /\ prepare_commit_mutex = t
         \/ pc[t] = "crashed" /\ server = "down"
         \/ pc[t] = "crashed" /\ server = "recovering" /\ trx[t] = "prepared"
    /\ SameOrder

AtomicInv ==
    /\ LogInv /\ Stored /\ Files /\ XidsDiffer
    /\ \A t \in TwoPhase : Fate(t)
    /\ NoErrors /\ Answered /\ Ordered

-----------------------------------------------------------------------------
(* The steps that are left when the binary log can be written *)

TxnStep(t) ==
    \/ Begin(t) \/ Commit(t) \/ Rollback(t) \/ Prepare(t) \/ WriteXid(t)
    \/ SyncXid(t) \/ EngineCommit(t) \/ Unlog(t) \/ CommitDone(t) \/ RecoverXid(t)

Rotation(r) == NewFile(r) \/ CloseFile(r) \/ OpenFile(r)

ServerStep ==
    \/ LogFlush \/ WriteBack \/ Shutdown \/ ShutdownEngine \/ StartEngine \/ StartServer

LEMMA SafeSteps ==
    ASSUME SafeSettings, NoErrors, Next
    PROVE  \/ \E t \in Txn : TxnStep(t)
           \/ \E r \in Thread : Rotation(r)
           \/ ServerStep
           \/ \E kind \in Crashes : Crash(kind)
<1>1. \A t \in Txn : ~WriteFails(t) /\ ~SyncFails(t) /\ ~RollbackAfterError(t)
  BY DEF SafeSettings, NoErrors, WriteFails, SyncFails, RollbackAfterError
<1> QED
  BY <1>1 DEF Next, Continue, TxnStep, Rotation, ServerStep

(* a new state of a transaction is as safe as the settings ask for *)
LEMMA SetTrxStored ==
    ASSUME SafeSettings, Stored, TypeOK, NEW t \in Txn, NEW s, SetTrx(t, s)
    PROVE  /\ trx' = [trx EXCEPT ![t] = s]
           /\ trxOs' = trx'
           /\ "os" \in Crashes => trxDisk' = trx'
BY DEF SafeSettings, Stored, SetTrx

(* a crash takes nothing from InnoDB, and from the binary log at most the  *)
(* event of a transaction that has not been synced                         *)
LEMMA CrashLoses ==
    ASSUME SafeSettings, Stored, TypeOK, NEW kind \in Crashes, Crash(kind)
    PROVE  /\ trx' = trx /\ trxOs' = trx'
           /\ "os" \in Crashes => trxDisk' = trx' /\ synced' = logged'
           /\ \A t \in Txn : \/ logged'[t] = logged[t]
                             \/ pc[t] = "sync" /\ logged'[t] = 0
<1>1. CASE kind = "os"
  BY <1>1 DEF SafeSettings, Stored, Crash
<1>2. CASE kind # "os"
  BY <1>2 DEF SafeSettings, Stored, Crash
<1> QED BY <1>1, <1>2

LEMMA StoredStep ==
    ASSUME SafeSettings, AtomicInv, Next
    PROVE  Stored'
<1> USE TransCommitAssumption DEF AtomicInv, LogInv
<1>1. ASSUME NEW t \in Txn, TxnStep(t)
      PROVE  Stored'
  <2>1. CASE Begin(t) \/ Commit(t) \/ Unlog(t) \/ CommitDone(t)
    BY <2>1 DEF Begin, Commit, Unlog, CommitDone, Goto, Stored, TypeOK, Thread, trxVars, logVars
  <2>2. CASE Rollback(t)
    BY <2>2, SetTrxStored DEF Rollback, Goto, Stored, TypeOK, Thread, logVars
  <2>3. CASE Prepare(t)
    BY <2>3, SetTrxStored DEF Prepare, Goto, Stored, TypeOK, Thread, trxVars, logVars
  <2>4. CASE EngineCommit(t)
    BY <2>4, SetTrxStored DEF EngineCommit, Goto, Stored, TypeOK, Thread, logVars
  <2>5. CASE RecoverXid(t)
    BY <2>5, SetTrxStored DEF RecoverXid, Stored, TypeOK, Thread, logVars
  <2>6. CASE WriteXid(t)
    BY <2>6 DEF WriteXid, Goto, Stored, Files, TypeOK, Thread, trxVars
  <2>7. CASE SyncXid(t)
    BY <2>7 DEF SyncXid, CountSync, SyncsNow, SafeSettings, Goto, Stored, TypeOK, Thread, trxVars
  <2> QED BY <1>1, <2>1, <2>2, <2>3, <2>4, <2>5, <2>6, <2>7 DEF TxnStep
<1>2. ASSUME NEW r \in Thread, Rotation(r)
      PROVE  Stored'
  <2>1. CASE NewFile(r)
    BY <2>1 DEF NewFile, Goto, Stored, TypeOK, Thread, trxVars, logVars
  <2>2. CASE CloseFile(r)
    BY <2>2 DEF CloseFile, Goto, Stored, TypeOK, Thread, trxVars, logVars
  <2>3. CASE OpenFile(r)
    BY <2>3 DEF OpenFile, Goto, Stored, TypeOK, Thread, trxVars, logVars
  <2> QED BY <1>2, <2>1, <2>2, <2>3 DEF Rotation
<1>3. CASE ServerStep
  BY <1>3 DEF ServerStep, LogFlush, WriteBack, Shutdown, ShutdownEngine, StartEngine,
              StartServer, Stored, trxVars, logVars
<1>4. ASSUME NEW kind \in Crashes, Crash(kind)
      PROVE  Stored'
  BY <1>4, CrashLoses DEF Stored
<1> QED
  BY <1>1, <1>2, <1>3, <1>4, SafeSteps

-----------------------------------------------------------------------------
(* The log files *)

LEMMA FilesStep ==
    ASSUME SafeSettings, AtomicInv, Next
    PROVE  Files'
<1> USE TransCommitAssumption DEF AtomicInv, LogInv
<1>1. ASSUME NEW t \in Txn, TxnStep(t)
      PROVE  Files'
  <2>1. CASE Begin(t) \/ Commit(t) \/ Rollback(t) \/ Unlog(t) \/ CommitDone(t)
    BY <2>1 DEF Begin, Commit, Rollback, Unlog, CommitDone, Goto, Files, TypeOK, Thread, logVars
  <2>2. CASE Prepare(t) \/ EngineCommit(t)
    BY <2>2 DEF Prepare, EngineCommit, Goto, Files, TypeOK, Thread, logVars
  <2>3. CASE WriteXid(t)
    BY <2>3 DEF WriteXid, Goto, Files, TypeOK, Thread
  <2>4. CASE SyncXid(t)
    BY <2>4 DEF SyncXid, CountSync, Goto, Files, TypeOK, Thread
  <2>5. CASE RecoverXid(t)
    BY <2>5 DEF RecoverXid, Files, logVars
  <2> QED BY <1>1, <2>1, <2>2, <2>3, <2>4, <2>5 DEF TxnStep
<1>2. ASSUME NEW r \in Thread, Rotation(r)
      PROVE  Files'
  <2>1. CASE NewFile(r)
    BY <2>1 DEF NewFile, Goto, Files, TypeOK, Thread, logVars
  <2>2. CASE CloseFile(r)
    BY <2>2 DEF CloseFile, Goto, Files, TypeOK, Thread
  <2>3. CASE OpenFile(r)
    BY <2>3 DEF OpenFile, Goto, Files, TypeOK, Thread
  <2> QED BY <1>2, <2>1, <2>2, <2>3 DEF Rotation
<1>3. CASE ServerStep
  <2>1. CASE LogFlush \/ WriteBack
    BY <2>1 DEF LogFlush, WriteBack, Files, logVars
  <2>2. CASE Shutdown \/ ShutdownEngine
    BY <2>2 DEF Shutdown, ShutdownEngine, Files, logVars
  <2>3. CASE StartEngine
    BY <2>3 DEF StartEngine, Files, logVars
  <2>4. CASE StartServer
    BY <2>4 DEF StartServer, Files, TypeOK
  <2> QED BY <1>3, <2>1, <2>2, <2>3, <2>4 DEF ServerStep
<1>4. ASSUME NEW kind \in Crashes, Crash(kind)
      PROVE  Files'
  BY <1>4, CrashLoses DEF Crash, Files, Idle, TypeOK, Thread
<1> QED
  BY <1>1, <1>2, <1>3, <1>4, SafeSteps

-----------------------------------------------------------------------------
(* A xid that is alive is not given away again *)

LEMMA XidsKept ==
    ASSUME XidsDiffer, xid' = xid, query_id' = query_id,
           \A t \in Txn : Live(t)' => Live(t)
    PROVE  XidsDiffer'
BY DEF XidsDiffer

LEMMA XidsStep ==
    ASSUME SafeSettings, AtomicInv, Next
    PROVE  XidsDiffer'
<1> USE TransCommitAssumption DEF AtomicInv, LogInv
<1>1. ASSUME NEW t \in Txn, TxnStep(t)
      PROVE  XidsDiffer'
  <2>1. CASE Begin(t)
    <3>1. \A u \in Txn \ {t} : (Live(u)' <=> Live(u)) /\ xid'[u] = xid[u]
      BY <2>1 DEF Begin, Goto, Live, Running, Idle, TypeOK, Thread, trxVars, logVars
    <3>2. xid'[t] = query_id /\ query_id' = query_id + 1
      BY <2>1 DEF Begin, TypeOK
    <3> QED BY <3>1, <3>2 DEF XidsDiffer, TypeOK
  <2>2. CASE Commit(t) \/ Unlog(t) \/ CommitDone(t)
    BY <2>2, XidsKept DEF Commit, Unlog, CommitDone, Goto, Live, Running, Idle, TypeOK, Thread,
                trxVars, logVars
  <2>3. CASE Rollback(t)
    BY <2>3, XidsKept, SetTrxStored
       DEF Rollback, Goto, Live, Running, Idle, TypeOK, Thread, logVars
  <2>4. CASE Prepare(t)
    BY <2>4, XidsKept, SetTrxStored
       DEF Prepare, Goto, Live, Running, Idle, TypeOK, Thread, trxVars, logVars
  <2>5. CASE WriteXid(t)
    BY <2>5, XidsKept DEF WriteXid, Goto, Live, Running, Idle, TypeOK, Thread, trxVars
  <2>6. CASE SyncXid(t)
    BY <2>6, XidsKept DEF SyncXid, Goto, Live, Running, Idle, TypeOK, Thread, trxVars
  <2>7. CASE EngineCommit(t)
    BY <2>7, XidsKept, SetTrxStored
       DEF EngineCommit, Goto, Live, Running, Idle, TypeOK, Thread, logVars
  <2>8. CASE RecoverXid(t)
    BY <2>8, XidsKept, SetTrxStored DEF RecoverXid, Live, Running, Idle, TypeOK, logVars
  <2> QED BY <1>1, <2>1, <2>2, <2>3, <2>4, <2>5, <2>6, <2>7, <2>8 DEF TxnStep
<1>2. ASSUME NEW r \in Thread, Rotation(r)
      PROVE  XidsDiffer'
  <2>1. CASE NewFile(r)
    BY <2>1, XidsKept
       DEF NewFile, Goto, Live, Running, Idle, TypeOK, Thread, trxVars, logVars
  <2>2. CASE CloseFile(r)
    BY <2>2, XidsKept
       DEF CloseFile, Goto, Live, Running, Idle, TypeOK, Thread, trxVars, logVars
  <2>3. CASE OpenFile(r)
    BY <2>3, XidsKept
       DEF OpenFile, Goto, Live, Running, Idle, Files, TypeOK, Thread, trxVars
  <2> QED BY <1>2, <2>1, <2>2, <2>3 DEF Rotation
<1>3. CASE ServerStep
  <2>1. CASE LogFlush \/ WriteBack \/ Shutdown \/ ShutdownEngine
    BY <2>1, XidsKept DEF LogFlush, WriteBack, Shutdown, ShutdownEngine, Live, Running, Idle,
                trxVars, logVars
  <2>2. CASE StartEngine
    BY <2>2, XidsKept DEF StartEngine, Live, Running, Idle, TypeOK, logVars
  <2>3. CASE StartServer
    <3>1. \A t \in Txn : ~Live(t)'
      BY <2>3 DEF StartServer, QuietWhenDown, Live, Running, Idle, Files, TypeOK, Thread, trxVars
    <3> QED BY <3>1 DEF XidsDiffer
  <2> QED BY <1>3, <2>1, <2>2, <2>3 DEF ServerStep
<1>4. ASSUME NEW kind \in Crashes, Crash(kind)
      PROVE  XidsDiffer'
  BY <1>4, CrashLoses, XidsKept DEF Crash, Files, Live, Running, Idle, TypeOK, Thread
<1> QED
  BY <1>1, <1>2, <1>3, <1>4, SafeSteps

-----------------------------------------------------------------------------
(* What becomes of a transaction *)

LEMMA FateKept ==
    ASSUME NEW t \in TwoPhase, Fate(t), pc'[t] = pc[t], trx'[t] = trx[t],
           logged'[t] = logged[t], last' = last, in_use' = in_use, server' = server
    PROVE  Fate(t)'
BY DEF Fate, Unlogged, Findable

(* nothing is between its Xid event and its commit while a file is replaced *)
LEMMA NothingHalfLogged ==
    ASSUME LogInv, NEW r \in Thread, NEW t \in TwoPhase,
           pc[r] = "open" \/ (pc[r] = "close" /\ prepared_xids = 0)
    PROVE  pc[t] \notin {"sync", "commit"}
<1> USE TransCommitAssumption DEF LogInv, TwoPhase
<1>1. pc[t] # "sync"
  BY DEF LockHeld, Thread
<1>2. t \notin Counted
  BY CountedZero DEF NoneCountedInOpen, CountExact
<1> QED BY <1>1, <1>2 DEF Counted

(* ha_recover looks the xid up and finds its own event, or none *)
LEMMA RecoveryDecides ==
    ASSUME TypeOK, Files, XidsDiffer, NEW t \in Txn, trx[t] = "prepared",
           Unlogged(t) \/ Findable(t)
    PROVE  xid[t] \in CommitList <=> Findable(t)
<1>1. CASE Findable(t)
  BY <1>1 DEF Findable, CommitList
<1>2. CASE ~Findable(t)
  <2>1. \A u \in Txn : logged[u] = last => xid[u] # xid[t]
    BY <1>2 DEF XidsDiffer, Live, Unlogged, Findable, Files
  <2> QED BY <1>2, <2>1 DEF CommitList
<1> QED BY <1>1, <1>2

LEMMA FateStep ==
    ASSUME SafeSettings, AtomicInv, Next, NEW u \in TwoPhase
    PROVE  Fate(u)'
<1> USE TransCommitAssumption DEF AtomicInv, LogInv
<1>u. u \in Txn /\ u \in Thread /\ Fate(u) /\ u \notin NoBinlog /\ u \notin NoXA
  BY DEF TwoPhase, Thread
<1>1. ASSUME NEW t \in Txn, TxnStep(t)
      PROVE  Fate(u)'
  <2>1. CASE t # u
    <3>1. pc'[u] = pc[u] /\ trx'[u] = trx[u] /\ logged'[u] = logged[u]
      BY <1>1, <1>u, <2>1, SetTrxStored
         DEF TxnStep, Begin, Commit, Rollback, Prepare, WriteXid, SyncXid, EngineCommit, Unlog,
             CommitDone, RecoverXid, Goto, TypeOK, Thread, trxVars, logVars
    <3>2. last' = last /\ in_use' = in_use /\ server' = server
      BY <1>1
         DEF TxnStep, Begin, Commit, Rollback, Prepare, WriteXid, SyncXid, EngineCommit, Unlog,
             CommitDone, RecoverXid, logVars
    <3> QED BY <1>u, <3>1, <3>2, FateKept
  <2>2. CASE t = u
    <3> USE <1>u, <2>2 DEF Fate, Unlogged, Findable, Goto, TypeOK, Thread
    <3>1. CASE Begin(t) \/ Commit(t)
      BY <3>1 DEF Begin, Commit, trxVars, logVars
    <3>2. CASE Rollback(t)
      BY <3>2, SetTrxStored DEF Rollback, Files, logVars
    <3>3. CASE Prepare(t)
      BY <3>3, SetTrxStored DEF Prepare, Files, logVars
    <3>4. CASE WriteXid(t)
      <4>1. in_use
        BY <3>4 DEF WriteXid, Files, LockHeld, QuietWhenDown, Idle
      <4> QED BY <3>4, <4>1 DEF WriteXid, trxVars
    <3>5. CASE SyncXid(t)
      BY <3>5 DEF SyncXid, trxVars
    <3>6. CASE EngineCommit(t)
      BY <3>6, SetTrxStored DEF EngineCommit, Files, logVars
    <3>7. CASE Unlog(t) \/ CommitDone(t)
      BY <3>7 DEF Unlog, CommitDone, trxVars, logVars
    <3>8. CASE RecoverXid(t)
      <4>1. pc[t] = "crashed"
        BY <3>8 DEF RecoverXid, QuietWhenDown, Idle
      <4>2. Unlogged(t) \/ Findable(t)
        BY <3>8, <4>1 DEF RecoverXid
      <4>3. trx'[t] = IF Findable(t) THEN "committed" ELSE "aborted"
        BY <3>8, <4>2, RecoveryDecides, SetTrxStored DEF RecoverXid
      <4> QED BY <3>8, <4>1, <4>2, <4>3 DEF RecoverXid, Files, logVars
    <3> QED BY <1>1, <3>1, <3>2, <3>3, <3>4, <3>5, <3>6, <3>7, <3>8 DEF TxnStep
  <2> QED BY <2>1, <2>2
<1>2. ASSUME NEW r \in Thread, Rotation(r)
      PROVE  Fate(u)'
  <2> USE <1>u DEF Fate, Unlogged, Findable, Goto, TypeOK, Thread
  <2>1. CASE NewFile(r)
    BY <2>1 DEF NewFile, trxVars, logVars
  <2>2. CASE CloseFile(r)
    <3>1. pc[u] \notin {"sync", "commit"} /\ server = "up"
      BY <2>2, NothingHalfLogged DEF CloseFile, QuietWhenDown, Idle
    <3> QED BY <2>2, <3>1 DEF CloseFile, trxVars
  <2>3. CASE OpenFile(r)
    <3>1. pc[u] \notin {"sync", "commit"} /\ server = "up"
      BY <2>3, NothingHalfLogged DEF OpenFile, QuietWhenDown, Idle
    <3> QED BY <2>3, <3>1 DEF OpenFile, trxVars
  <2> QED BY <1>2, <2>1, <2>2, <2>3 DEF Rotation
<1>3. CASE ServerStep
  <2> USE <1>u DEF Fate, Unlogged, Findable, Idle
  <2>1. CASE LogFlush \/ WriteBack
    BY <2>1 DEF LogFlush, WriteBack, logVars
  <2>2. CASE Shutdown
    BY <2>2 DEF Shutdown, trxVars
  <2>3. CASE ShutdownEngine
    BY <2>3 DEF ShutdownEngine, QuietWhenDown, logVars
  <2>4. CASE StartEngine
    BY <2>4 DEF StartEngine, QuietWhenDown, TypeOK, logVars
  <2>5. CASE StartServer
    BY <2>5 DEF StartServer, QuietWhenDown, trxVars
  <2> QED BY <1>3, <2>1, <2>2, <2>3, <2>4, <2>5 DEF ServerStep
<1>4. ASSUME NEW kind \in Crashes, Crash(kind)
      PROVE  Fate(u)'
  BY <1>u, <1>4, CrashLoses DEF Crash, Fate, Unlogged, Findable, Idle, Files, NoErrors, TypeOK, Thread
<1> QED
  BY <1>1, <1>2, <1>3, <1>4, SafeSteps

-----------------------------------------------------------------------------
(* What the client was told, and the order of commits *)

LEMMA AnsweredStep ==
    ASSUME SafeSettings, AtomicInv, Next
    PROVE  NoErrors' /\ Answered'
<1> USE TransCommitAssumption DEF AtomicInv, LogInv
<1>1. ASSUME NEW t \in Txn, TxnStep(t)
      PROVE  NoErrors' /\ Answered'
  <2> USE DEF NoErrors, Answered, TwoPhase, Goto, TypeOK, Thread
  <2>1. CASE Begin(t) \/ Commit(t) \/ WriteXid(t)
    BY <2>1 DEF Begin, Commit, WriteXid, trxVars
  <2>2. CASE SyncXid(t)
    BY <2>2 DEF SyncXid, trxVars
  <2>3. CASE Unlog(t) \/ CommitDone(t)
    BY <2>3 DEF Unlog, CommitDone, trxVars
  <2>4. CASE Rollback(t)
    BY <2>4, SetTrxStored DEF Rollback
  <2>5. CASE Prepare(t)
    BY <2>5, SetTrxStored DEF Prepare, Roles, trxVars
  <2>6. CASE EngineCommit(t)
    BY <2>6, SetTrxStored DEF EngineCommit
  <2>7. CASE RecoverXid(t)
    <3>1. pc[t] = "crashed"
      BY <2>7 DEF RecoverXid, QuietWhenDown, Idle, Fate
    <3> QED BY <2>7, <3>1, SetTrxStored DEF RecoverXid
  <2> QED BY <1>1, <2>1, <2>2, <2>3, <2>4, <2>5, <2>6, <2>7 DEF TxnStep
<1>2. ASSUME NEW r \in Thread, Rotation(r)
      PROVE  NoErrors' /\ Answered'
  <2> USE DEF NoErrors, Answered, Goto, TypeOK, Thread
  <2>1. CASE NewFile(r)
    BY <2>1 DEF NewFile, trxVars
  <2>2. CASE CloseFile(r)
    BY <2>2 DEF CloseFile, trxVars
  <2>3. CASE OpenFile(r)
    BY <2>3 DEF OpenFile, trxVars
  <2> QED BY <1>2, <2>1, <2>2, <2>3 DEF Rotation
<1>3. CASE ServerStep
  <2> USE DEF NoErrors, Answered
  <2>1. CASE LogFlush \/ WriteBack \/ Shutdown \/ ShutdownEngine \/ StartServer
    BY <2>1 DEF LogFlush, WriteBack, Shutdown, ShutdownEngine, StartServer, trxVars
  <2>2. CASE StartEngine
    BY <2>2 DEF StartEngine, TypeOK
  <2> QED BY <1>3, <2>1, <2>2 DEF ServerStep
<1>4. ASSUME NEW kind \in Crashes, Crash(kind)
      PROVE  NoErrors' /\ Answered'
  BY <1>4, CrashLoses DEF Crash, NoErrors, Answered, Idle, TypeOK, Thread
<1> QED
  BY <1>1, <1>2, <1>3, <1>4, SafeSteps

LEMMA OrderedStep ==
    ASSUME SafeSettings, AtomicInv, Next
    PROVE  Ordered'
<1> USE TransCommitAssumption DEF AtomicInv, LogInv
<1>1. ASSUME NEW t \in Txn, TxnStep(t)
      PROVE  Ordered'
  <2> USE DEF Ordered, SameOrder, InDoubt, Goto, TypeOK, Thread
  <2>1. CASE Begin(t) \/ Commit(t)
    BY <2>1 DEF Begin, Commit, trxVars, logVars, lockVars
  <2>2. CASE Unlog(t) \/ CommitDone(t)
    BY <2>2 DEF Unlog, CommitDone, trxVars, logVars, lockVars
  <2>3. CASE Rollback(t)
    BY <2>3, SetTrxStored DEF Rollback, logVars, lockVars
  <2>4. CASE Prepare(t)
    BY <2>4, SetTrxStored DEF Prepare, Files, trxVars, logVars
  <2>5. CASE WriteXid(t)
    BY <2>5 DEF WriteXid, QuietWhenDown, Idle, trxVars
  <2>6. CASE SyncXid(t)
    BY <2>6 DEF SyncXid, trxVars
  <2>7. CASE EngineCommit(t)
    BY <2>7, SetTrxStored DEF EngineCommit, logVars
  <2>8. CASE RecoverXid(t)
    BY <2>8, SetTrxStored DEF RecoverXid, logVars, lockVars
  <2> QED BY <1>1, <2>1, <2>2, <2>3, <2>4, <2>5, <2>6, <2>7, <2>8 DEF TxnStep
<1>2. ASSUME NEW r \in Thread, Rotation(r)
      PROVE  Ordered'
  <2> USE DEF Ordered, SameOrder, InDoubt, Goto, TypeOK, Thread
  <2>1. CASE NewFile(r)
    BY <2>1 DEF NewFile, trxVars, logVars
  <2>2. CASE CloseFile(r)
    BY <2>2 DEF CloseFile, trxVars, lockVars
  <2>3. CASE OpenFile(r)
    BY <2>3 DEF OpenFile, trxVars
  <2> QED BY <1>2, <2>1, <2>2, <2>3 DEF Rotation
<1>3. CASE ServerStep
  <2> USE DEF Ordered, SameOrder, InDoubt
  <2>1. CASE LogFlush \/ WriteBack
    BY <2>1 DEF LogFlush, WriteBack, logVars, lockVars
  <2>2. CASE Shutdown
    BY <2>2 DEF Shutdown, Idle, Thread, trxVars, lockVars
  <2>3. CASE ShutdownEngine
    BY <2>3 DEF ShutdownEngine, QuietWhenDown, Idle, Thread, logVars
  <2>4. CASE StartEngine
    BY <2>4 DEF StartEngine, QuietWhenDown, Idle, TypeOK, Thread, logVars, lockVars
  <2>5. CASE StartServer
    BY <2>5 DEF StartServer, trxVars, lockVars
  <2> QED BY <1>3, <2>1, <2>2, <2>3, <2>4, <2>5 DEF ServerStep
<1>4. ASSUME NEW kind \in Crashes, Crash(kind)
      PROVE  Ordered'
  BY <1>4, CrashLoses DEF Crash, Ordered, SameOrder, InDoubt, Idle, TypeOK, Thread
<1> QED
  BY <1>1, <1>2, <1>3, <1>4, SafeSteps

-----------------------------------------------------------------------------
(* The invariant and what follows from it *)

LEMMA AtomicInit == SafeSettings /\ Init => AtomicInv
<1> SUFFICES ASSUME SafeSettings, Init PROVE AtomicInv
  OBVIOUS
<1>1. LogInv
  BY LogInit
<1>2. Stored /\ Files
  BY DEF Init, Stored, Files, Thread
<1>3. XidsDiffer
  BY DEF Init, XidsDiffer, Live, Running, Idle, Thread
<1>4. \A t \in TwoPhase : Fate(t)
  BY DEF Init, TwoPhase, Fate, Thread
<1>5. NoErrors /\ Answered /\ Ordered
  BY DEF Init, NoErrors, Answered, Ordered, SameOrder, InDoubt, Thread
<1> QED
  BY <1>1, <1>2, <1>3, <1>4, <1>5 DEF AtomicInv

LEMMA AtomicStep == SafeSettings /\ AtomicInv /\ [Next]_vars => AtomicInv'
<1> SUFFICES ASSUME SafeSettings, AtomicInv, [Next]_vars PROVE AtomicInv'
  OBVIOUS
<1>1. LogInv'
  BY LogInvStep DEF AtomicInv
<1>2. CASE Next
  BY <1>1, <1>2, StoredStep, FilesStep, XidsStep, FateStep, AnsweredStep, OrderedStep
     DEF AtomicInv
<1>3. CASE UNCHANGED vars
  <2> USE <1>3 DEF vars, trxVars, logVars, lockVars, AtomicInv
  <2>1. Stored' /\ Files' /\ NoErrors'
    BY DEF Stored, Files, NoErrors
  <2>2. XidsDiffer'
    BY XidsKept DEF Live, Running, Idle
  <2>3. \A t \in TwoPhase : Fate(t)'
    BY FateKept
  <2>4. Answered' /\ Ordered'
    BY DEF Answered, Ordered, SameOrder, InDoubt
  <2> QED BY <1>1, <2>1, <2>2, <2>3, <2>4
<1> QED
  BY <1>2, <1>3

LEMMA AtomicImplies ==
    AtomicInv => /\ EngineMatchesBinlog /\ NothingUnlogged /\ OnlyLastLogMatters
                 /\ CommitIsDurable /\ SameOrder
<1> SUFFICES ASSUME AtomicInv
             PROVE  /\ EngineMatchesBinlog /\ NothingUnlogged /\ OnlyLastLogMatters
                    /\ CommitIsDurable /\ SameOrder
  OBVIOUS
<1> USE DEF AtomicInv, LogInv
<1>1. \A t \in TwoPhase : t \in Txn /\ t \in Thread
  BY DEF TwoPhase, Thread
<1>2. EngineMatchesBinlog
  BY <1>1 DEF EngineMatchesBinlog, Fate, Unlogged
<1>3. NothingUnlogged
  BY <1>1 DEF NothingUnlogged, Fate, Unlogged, NoErrors, TypeOK
<1>4. OnlyLastLogMatters
  BY <1>1 DEF OnlyLastLogMatters, Fate, Unlogged, Findable, Files, NoErrors, TypeOK
<1>5. CommitIsDurable /\ SameOrder
  BY DEF CommitIsDurable, Answered, Ordered
<1> QED BY <1>2, <1>3, <1>4, <1>5

LEMMA AtomicInvariant ==
    ASSUME SafeSettings
    PROVE  Spec => []AtomicInv
<1>1. Init => AtomicInv
  BY AtomicInit
<1>2. AtomicInv /\ [Next]_vars => AtomicInv'
  BY AtomicStep
<1> QED
  BY <1>1, <1>2, PTL DEF Spec

(* Under the safe settings a transaction that is over is committed in      *)
(* InnoDB exactly if the binary log has its Xid event.                     *)
THEOREM EngineAgrees ==
    ASSUME SafeSettings
    PROVE  Spec => []EngineMatchesBinlog
<1>1. AtomicInv => EngineMatchesBinlog
  BY AtomicImplies
<1> QED BY <1>1, AtomicInvariant, PTL

(* Recovery needs the last log file only: nothing that is prepared and     *)
(* logged is in an older file, or in a last file that was marked closed.   *)
THEOREM LastLogSuffices ==
    ASSUME SafeSettings
    PROVE  Spec => []OnlyLastLogMatters
<1>1. AtomicInv => OnlyLastLogMatters
  BY AtomicImplies
<1> QED BY <1>1, AtomicInvariant, PTL

(* InnoDB never has a transaction that the binary log lacks.               *)
THEOREM EverythingLogged ==
    ASSUME SafeSettings
    PROVE  Spec => []NothingUnlogged
<1>1. AtomicInv => NothingUnlogged
  BY AtomicImplies
<1> QED BY <1>1, AtomicInvariant, PTL

(* What a client was told is committed stays committed.                    *)
THEOREM CommitLasts ==
    ASSUME SafeSettings
    PROVE  Spec => []CommitIsDurable
<1>1. AtomicInv => CommitIsDurable
  BY AtomicImplies
<1> QED BY <1>1, AtomicInvariant, PTL

(* At most one transaction is in the binary log and not yet committed in   *)
(* InnoDB: both have the same order.                                       *)
THEOREM OneAtATime ==
    ASSUME SafeSettings
    PROVE  Spec => []SameOrder
<1>1. AtomicInv => SameOrder
  BY AtomicImplies
<1> QED BY <1>1, AtomicInvariant, PTL

-----------------------------------------------------------------------------
(* TransCommit implements AtomicCommit.  In every step an outcome that is  *)
(* decided stays, and an answer that was given stays.                      *)

Out(t) == IF WouldCommit(t) THEN "commit"
          ELSE IF trx[t] = "aborted" THEN "abort" ELSE "none"

LEMMA WouldCommitIs ==
    ASSUME SafeSettings, AtomicInv, NEW t \in Txn
    PROVE  /\ trx[t] = "committed" => WouldCommit(t)
           /\ trx[t] \in {"active", "aborted"} => ~WouldCommit(t)
           /\ WouldCommit(t) /\ trx[t] # "committed" =>
                /\ t \in TwoPhase /\ trx[t] = "prepared" /\ KeptLog[t] = last
                /\ Findable(t) /\ logged[t] # 0
                /\ \/ pc[t] \in {"sync", "commit"}
                   \/ pc[t] = "crashed" /\ server \in {"down", "recovering"}
<1> USE DEF AtomicInv, LogInv
<1>1. Kept = trx
  BY DEF Kept, Stored, SafeSettings
<1>2. ASSUME KeptLog[t] = last
      PROVE  logged[t] = last /\ logged[t] # 0
  BY <1>2 DEF KeptLog, Stored, Files
<1>3. ASSUME trx[t] = "prepared", logged[t] # 0
      PROVE  /\ t \in TwoPhase
             /\ \/ pc[t] \in {"sync", "commit"}
                \/ pc[t] = "crashed" /\ server \in {"down", "recovering"}
  BY <1>3 DEF Answered, Fate, Files, NoErrors, TypeOK, Thread
<1> QED
  BY <1>1, <1>2, <1>3 DEF WouldCommit, Findable, TypeOK

(* a state that InnoDB has reached for good is never left *)
LEMMA DecidedStays ==
    ASSUME SafeSettings, AtomicInv, Next, NEW u \in Txn
    PROVE  /\ trx[u] \in {"committed", "aborted"} => trx'[u] = trx[u]
           /\ answer[u] # "none" => answer'[u] = answer[u]
<1> USE TransCommitAssumption DEF AtomicInv, LogInv, TypeOK, Thread, Answered
<1>1. ASSUME NEW t \in Txn, TxnStep(t)
      PROVE  /\ trx[u] \in {"committed", "aborted"} => trx'[u] = trx[u]
             /\ answer[u] # "none" => answer'[u] = answer[u]
  <2>1. CASE Begin(t) \/ Commit(t) \/ WriteXid(t) \/ SyncXid(t) \/ Unlog(t) \/ CommitDone(t)
    BY <2>1 DEF Begin, Commit, WriteXid, SyncXid, Unlog, CommitDone, trxVars
  <2>2. CASE Rollback(t) \/ Prepare(t)
    BY <2>2, SetTrxStored DEF Rollback, Prepare, trxVars
  <2>3. CASE EngineCommit(t)
    BY <2>3, SetTrxStored DEF EngineCommit
  <2>4. CASE RecoverXid(t)
    BY <2>4, SetTrxStored DEF RecoverXid
  <2> QED BY <1>1, <2>1, <2>2, <2>3, <2>4 DEF TxnStep
<1>2. ASSUME NEW r \in Thread, Rotation(r)
      PROVE  /\ trx[u] \in {"committed", "aborted"} => trx'[u] = trx[u]
             /\ answer[u] # "none" => answer'[u] = answer[u]
  BY <1>2 DEF Rotation, NewFile, CloseFile, OpenFile, trxVars
<1>3. ASSUME ServerStep
      PROVE  /\ trx[u] \in {"committed", "aborted"} => trx'[u] = trx[u]
             /\ answer[u] # "none" => answer'[u] = answer[u]
  BY <1>3 DEF ServerStep, LogFlush, WriteBack, Shutdown, ShutdownEngine, StartEngine,
              StartServer, trxVars
<1>4. ASSUME NEW kind \in Crashes, Crash(kind)
      PROVE  /\ trx[u] \in {"committed", "aborted"} => trx'[u] = trx[u]
             /\ answer[u] # "none" => answer'[u] = answer[u]
  BY <1>4, CrashLoses DEF Crash
<1> QED
  BY <1>1, <1>2, <1>3, <1>4, SafeSteps

(* once a crash would leave a transaction to be committed it is, or a      *)
(* crash still would                                                       *)
LEMMA WouldCommitStays ==
    ASSUME SafeSettings, AtomicInv, AtomicInv', Next, NEW u \in Txn, WouldCommit(u)
    PROVE  WouldCommit(u)'
<1> USE TransCommitAssumption DEF AtomicInv, LogInv
<1>1. ASSUME trx'[u] = "committed"
      PROVE  WouldCommit(u)'
  BY <1>1 DEF WouldCommit, Kept, Stored
<1>2. ASSUME trx'[u] = "prepared", in_use', KeptLog'[u] = last'
      PROVE  WouldCommit(u)'
  BY <1>2 DEF WouldCommit, Kept, Stored
<1>3. CASE trx[u] = "committed"
  BY <1>1, <1>3, DecidedStays
<1>4. CASE trx[u] # "committed"
  <2>1. /\ u \in TwoPhase /\ trx[u] = "prepared" /\ KeptLog[u] = last
        /\ in_use /\ logged[u] = last /\ logged[u] # 0
    BY <1>4, WouldCommitIs DEF Findable
  <2>2. \/ pc[u] \in {"sync", "commit"}
        \/ pc[u] = "crashed" /\ server \in {"down", "recovering"}
    BY <1>4, WouldCommitIs
  <2>3. ASSUME NEW t \in Txn, TxnStep(t)
        PROVE  WouldCommit(u)'
    <3>1. CASE Begin(t) \/ Commit(t) \/ Unlog(t) \/ CommitDone(t)
      BY <3>1, <2>1, <1>2 DEF Begin, Commit, Unlog, CommitDone, KeptLog, trxVars, logVars
    <3>2. CASE Rollback(t) \/ Prepare(t)
      <4>1. t # u
        BY <3>2, <2>2 DEF Rollback, Prepare
      <4>2. trx'[u] = trx[u]
        BY <3>2, <4>1, SetTrxStored DEF Rollback, Prepare, TypeOK, trxVars
      <4> QED BY <3>2, <4>2, <2>1, <1>2 DEF Rollback, Prepare, KeptLog, logVars
    <3>3. CASE WriteXid(t)
      BY <3>3, <2>1, <2>2, <1>2 DEF WriteXid, KeptLog, TypeOK, trxVars
    <3>4. CASE SyncXid(t)
      BY <3>4, <2>1, <1>2 DEF SyncXid, KeptLog, trxVars
    <3>5. CASE EngineCommit(t)
      BY <3>5, <2>1, <1>1, <1>2, SetTrxStored DEF EngineCommit, KeptLog, TypeOK, logVars
    <3>6. CASE RecoverXid(t)
      <4>1. CASE t = u
        BY <3>6, <4>1, <2>1, <1>1, RecoveryDecides, SetTrxStored
           DEF RecoverXid, Findable, TypeOK
      <4>2. CASE t # u
        BY <3>6, <4>2, <2>1, <1>2, SetTrxStored DEF RecoverXid, KeptLog, TypeOK, logVars
      <4> QED BY <4>1, <4>2
    <3> QED BY <2>3, <3>1, <3>2, <3>3, <3>4, <3>5, <3>6 DEF TxnStep
  <2>4. ASSUME NEW r \in Thread, Rotation(r)
        PROVE  WouldCommit(u)'
    <3>1. server = "up"
      BY <2>4 DEF Rotation, NewFile, CloseFile, OpenFile, QuietWhenDown, Idle
    <3>2. NewFile(r)
      BY <2>1, <2>2, <2>4, <3>1, NothingHalfLogged DEF Rotation, CloseFile, OpenFile
    <3> QED BY <2>1, <3>2, <1>2 DEF NewFile, KeptLog, trxVars, logVars
  <2>5. ASSUME ServerStep
        PROVE  WouldCommit(u)'
    <3>1. ~Shutdown /\ ~ShutdownEngine /\ ~StartServer
      BY <2>1, <2>2 DEF Shutdown, ShutdownEngine, StartServer, QuietWhenDown, Idle, Thread
    <3>2. CASE LogFlush
      BY <3>2, <2>1, <1>2 DEF LogFlush, KeptLog, logVars
    <3>3. CASE WriteBack
      BY <3>3, <2>1, <1>2 DEF WriteBack, KeptLog
    <3>4. CASE StartEngine
      BY <3>4, <2>1, <1>2 DEF StartEngine, KeptLog, TypeOK, logVars
    <3> QED BY <2>5, <3>1, <3>2, <3>3, <3>4 DEF ServerStep
  <2>6. ASSUME NEW kind \in Crashes, Crash(kind)
        PROVE  WouldCommit(u)'
    BY <2>6, <2>1, <1>2, CrashLoses DEF Crash, KeptLog, SafeSettings
  <2> QED BY <2>3, <2>4, <2>5, <2>6, SafeSteps
<1> QED BY <1>3, <1>4

LEMMA ImplementsInit == SafeSettings /\ Init => Promise!Init
<1> SUFFICES ASSUME SafeSettings, Init PROVE Promise!Init
  OBVIOUS
<1>1. \A t \in Txn : ~WouldCommit(t) /\ trx[t] # "aborted"
  BY DEF Init, WouldCommit, Kept
<1> QED
  BY <1>1 DEF Promise!Init, Init

LEMMA ImplementsStep ==
    ASSUME SafeSettings, AtomicInv, AtomicInv', Next
    PROVE  Promise!Next
<1> USE DEF AtomicInv, LogInv
<1>1. ASSUME NEW t \in Txn
      PROVE  /\ trx'[t] = "committed" => Out(t)' = "commit"
             /\ trx'[t] = "aborted" => Out(t)' = "abort"
  BY <1>1 DEF Out, WouldCommit, Kept, Stored
<1>2. ASSUME NEW t \in Txn, Out(t) # "none"
      PROVE  Out(t)' = Out(t)
  <2>1. CASE WouldCommit(t)
    BY <2>1, WouldCommitStays DEF Out
  <2>2. CASE ~WouldCommit(t) /\ trx[t] = "aborted"
    BY <2>2, <1>1, DecidedStays DEF Out
  <2> QED BY <1>2, <2>1, <2>2 DEF Out
<1>3. ASSUME NEW t \in Txn, answer[t] # "none"
      PROVE  answer'[t] = answer[t]
  BY <1>3, DecidedStays
<1>4. ASSUME NEW t \in Txn
      PROVE  answer'[t] \in {answer[t], Out(t)'}
  <2>1. CASE answer'[t] = "none"
    BY <2>1, <1>3
  <2>2. CASE answer'[t] = "commit"
    BY <2>2, <1>1 DEF Answered
  <2>3. CASE answer'[t] = "abort"
    BY <2>3, <1>1 DEF Answered
  <2> QED BY <2>1, <2>2, <2>3 DEF TypeOK
<1>5. answer' \in [Txn -> {"none", "commit", "abort"}]
  BY DEF TypeOK
<1>6. \A t \in Txn : Out(t)' \in {"none", "commit", "abort"}
  BY DEF Out
<1> QED
  BY <1>2, <1>3, <1>4, <1>5, <1>6 DEF Promise!Next, Promise!Outcome, Out

(* The two-phase commit implements AtomicCommit: every transaction gets    *)
(* one outcome, no crash, rotation or recovery changes it, and the client  *)
(* is told that outcome.                                                   *)
THEOREM CommitIsAtomic ==
    ASSUME SafeSettings
    PROVE  Spec => ImplementsAtomicCommit
<1>1. Init => Promise!Init
  BY ImplementsInit
<1>2. AtomicInv /\ AtomicInv' /\ [Next]_vars => [Promise!Next]_<<
          [t \in Txn |-> IF WouldCommit(t) THEN "commit"
                         ELSE IF trx[t] = "aborted" THEN "abort" ELSE "none"], answer>>
  <2>1. CASE Next
    BY <2>1, ImplementsStep
  <2>2. CASE UNCHANGED vars
    BY <2>2 DEF vars, trxVars, logVars, WouldCommit, Kept, KeptLog
  <2> QED BY <2>1, <2>2
<1> QED
  BY <1>1, <1>2, AtomicInvariant, PTL DEF Spec, ImplementsAtomicCommit, Promise!Spec

=============================================================================
