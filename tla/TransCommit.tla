---------------------------- MODULE TransCommit ----------------------------
(***************************************************************************)
(* COMMIT across InnoDB and the binary log, and recovery after a crash:    *)
(* ha_commit_trans and ha_recover (sql/handler.cc), the binary log as the  *)
(* transaction coordinator (TC_LOG_BINLOG, MYSQL_LOG::write and new_file   *)
(* in sql/log.cc), and the InnoDB side of prepare and commit               *)
(* (sql/ha_innodb.cc, innobase/trx/trx0trx.c).                             *)
(*                                                                         *)
(* A state of a transaction in InnoDB is held three times: in the log      *)
(* buffer (trx), in the log file as the operating system has it (trxOs)    *)
(* and on disk (trxDisk).  The binary log is held twice: as written        *)
(* (logged) and on disk (synced).  A crash of mysqld loses the first, a    *)
(* crash of the machine everything that is not on disk.                    *)
(***************************************************************************)
EXTENDS Integers, FiniteSets

CONSTANTS
    Txn,          \* transactions; each is run once, by a connection of its own
    NoBinlog,     \* transactions that only InnoDB takes part in
    NoXA,         \* transactions with innodb_support_xa = 0
    Flusher,      \* the connection that runs FLUSH LOGS
    Nobody,       \* a mutex is free
    FlushLogAtTrxCommit,  \* innodb_flush_log_at_trx_commit
    SyncBinlog,   \* sync_binlog
    Crashes,      \* which crashes happen: "mysqld", "os"
    WriteErrors,  \* whether writing or syncing the binary log can fail
    MaxCrashes,   \* bound on crashes and shutdowns
    MaxFiles      \* bound on the number of binary log files

ASSUME TransCommitAssumption ==
    /\ IsFiniteSet(Txn)
    /\ Flusher \notin Txn /\ Nobody \notin Txn \cup {Flusher}
    /\ FlushLogAtTrxCommit \in 0..2 /\ SyncBinlog \in Nat
    /\ WriteErrors \in BOOLEAN
    /\ MaxCrashes \in Nat /\ MaxFiles \in Nat

Thread == Txn \cup {Flusher}

(* the transactions that use the two-phase commit *)
TwoPhase == Txn \ (NoBinlog \cup NoXA)

VARIABLES
    server,        \* "up", "stopping", "down", "recovering"
    pc,            \* where each thread is
    trx, trxOs, trxDisk,  \* state of each transaction in InnoDB
    xid,           \* my_xid of each transaction
    query_id,      \* the next my_xid; it starts again at every server start
    logged, synced,  \* the log file that has the Xid event, 0 when none has
    last,          \* the last log file of the index
    in_use,        \* LOG_EVENT_BINLOG_IN_USE_F of the last log file
    sync_binlog_counter,
    prepared_xids, \* Xid events written whose transactions are not unlogged
    LOCK_log, prepare_commit_mutex,
    answer,        \* what the client of each transaction was told
    crashes        \* for the bound

trxVars  == <<trx, trxOs, trxDisk>>
logVars  == <<logged, synced, last, in_use, sync_binlog_counter, prepared_xids>>
lockVars == <<LOCK_log, prepare_commit_mutex>>
vars == <<server, pc, trxVars, xid, query_id, logVars, lockVars, answer, crashes>>

Init ==
    /\ server = "up"
    /\ pc = [r \in Thread |-> "new"]
    /\ trx = [t \in Txn |-> "active"] /\ trxOs = trx /\ trxDisk = trx
    /\ xid = [t \in Txn |-> 0] /\ query_id = 1
    /\ logged = [t \in Txn |-> 0] /\ synced = logged
    /\ last = 1 /\ in_use = TRUE
    /\ sync_binlog_counter = 0 /\ prepared_xids = 0
    /\ LOCK_log = Nobody /\ prepare_commit_mutex = Nobody
    /\ answer = [t \in Txn |-> "none"]
    /\ crashes = 0

Goto(r, l) == pc' = [pc EXCEPT ![r] = l]

(* trx_commit_off_kernel, trx_prepare_off_kernel and the end of a rollback: *)
(* the new state goes into the log buffer, and as far as the setting says  *)
SetTrx(t, s) ==
    /\ trx' = [trx EXCEPT ![t] = s]
    /\ trxOs' = IF FlushLogAtTrxCommit = 0 THEN trxOs ELSE trx'
    /\ trxDisk' = IF FlushLogAtTrxCommit = 1 THEN trx' ELSE trxDisk

-----------------------------------------------------------------------------
(* A transaction, up to COMMIT or ROLLBACK *)

(* the first statement: trans_register_ha gives the transaction its xid *)
Begin(t) ==
    /\ server = "up" /\ pc[t] = "new"
    /\ Goto(t, "active")
    /\ xid' = [xid EXCEPT ![t] = query_id]
    /\ query_id' = query_id + 1
    /\ UNCHANGED <<server, trxVars, logVars, lockVars, answer, crashes>>

Commit(t) ==
    /\ pc[t] = "active"
    /\ Goto(t, IF t \in NoBinlog THEN "commit" ELSE "prepare")
    /\ UNCHANGED <<server, trxVars, xid, query_id, logVars, lockVars, answer, crashes>>

(* ha_rollback_trans; the binlog cache is thrown away *)
Rollback(t) ==
    /\ pc[t] = "active"
    /\ SetTrx(t, "aborted")
    /\ Goto(t, "done")
    /\ answer' = [answer EXCEPT ![t] = "abort"]
    /\ UNCHANGED <<server, xid, query_id, logVars, lockVars, crashes>>

-----------------------------------------------------------------------------
(* ha_commit_trans *)

(* mutant: the mutex is not kept until the commit *)
PrepareUnordered(t) ==
    /\ pc[t] = "prepare" /\ prepare_commit_mutex = Nobody
    /\ IF t \in NoXA THEN UNCHANGED trxVars ELSE SetTrx(t, "prepared")
    /\ Goto(t, "log")
    /\ UNCHANGED <<server, xid, query_id, logVars, lockVars, answer, crashes>>

(* innobase_xa_prepare *)
Prepare(t) ==
    /\ pc[t] = "prepare" /\ prepare_commit_mutex = Nobody
    /\ prepare_commit_mutex' = t
    /\ IF t \in NoXA THEN UNCHANGED trxVars ELSE SetTrx(t, "prepared")
    /\ Goto(t, "log")
    /\ UNCHANGED <<server, xid, query_id, logVars, LOCK_log, answer, crashes>>

(* TC_LOG_BINLOG::log: the cached events and the Xid event are written *)
WriteXid(t) ==
    /\ pc[t] = "log" /\ LOCK_log = Nobody
    /\ LOCK_log' = t
    /\ logged' = [logged EXCEPT ![t] = last]
    /\ Goto(t, "sync")
    /\ UNCHANGED <<server, trxVars, xid, query_id, synced, last, in_use,
                   sync_binlog_counter, prepared_xids, prepare_commit_mutex,
                   answer, crashes>>

(* ... or cannot be written *)
WriteFails(t) ==
    /\ WriteErrors /\ pc[t] = "log" /\ LOCK_log = Nobody
    /\ Goto(t, "rollback")
    /\ UNCHANGED <<server, trxVars, xid, query_id, logVars, lockVars, answer, crashes>>

SyncsNow == SyncBinlog # 0 /\ sync_binlog_counter + 1 >= SyncBinlog

(* flush_and_sync counts before it calls my_sync; without a period the     *)
(* count means nothing                                                     *)
CountSync ==
    sync_binlog_counter' = IF SyncsNow \/ SyncBinlog = 0 THEN 0 ELSE sync_binlog_counter + 1

(* flush_and_sync; then the log file must not be rotated before unlog *)
SyncXid(t) ==
    /\ pc[t] = "sync"
    /\ synced' = IF SyncsNow THEN logged ELSE synced
    /\ CountSync
    /\ prepared_xids' = prepared_xids + 1
    /\ LOCK_log' = Nobody
    /\ Goto(t, "commit")
    /\ UNCHANGED <<server, trxVars, xid, query_id, logged, last, in_use,
                   prepare_commit_mutex, answer, crashes>>

(* my_sync, or reading the cache file, fails: the Xid event is in the file *)
SyncFails(t) ==
    /\ WriteErrors /\ pc[t] = "sync"
    /\ CountSync
    /\ LOCK_log' = Nobody
    /\ Goto(t, "rollback")
    /\ UNCHANGED <<server, trxVars, xid, query_id, logged, synced, last, in_use,
                   prepared_xids, prepare_commit_mutex, answer, crashes>>

(* mutant: the failed transaction is unlogged *)
RollbackUnlogs(t) ==
    /\ pc[t] = "rollback"
    /\ SetTrx(t, "aborted")
    /\ prepared_xids' = prepared_xids - 1
    /\ Goto(t, "done")
    /\ answer' = [answer EXCEPT ![t] = "abort"]
    /\ UNCHANGED <<server, xid, query_id, logged, synced, last, in_use,
                   sync_binlog_counter, lockVars, crashes>>

(* ha_rollback_trans after an error: innobase_rollback clears active_trans *)
(* and leaves prepare_commit_mutex alone                                   *)
RollbackAfterError(t) ==
    /\ pc[t] = "rollback"
    /\ SetTrx(t, "aborted")
    /\ Goto(t, "done")
    /\ answer' = [answer EXCEPT ![t] = "abort"]
    /\ UNCHANGED <<server, xid, query_id, logVars, lockVars, crashes>>

(* mutant: the client has its answer before the log is flushed *)
EngineCommitLazy(t) ==
    /\ pc[t] = "commit"
    /\ trx' = [trx EXCEPT ![t] = "committed"]
    /\ prepare_commit_mutex' =
         IF prepare_commit_mutex = t THEN Nobody ELSE prepare_commit_mutex
    /\ IF t \in NoBinlog
         THEN Goto(t, "done") /\ answer' = [answer EXCEPT ![t] = "commit"]
         ELSE Goto(t, "unlog") /\ UNCHANGED answer
    /\ UNCHANGED <<server, trxOs, trxDisk, xid, query_id, logVars, LOCK_log, crashes>>

(* mutant: the mutex is never released *)
EngineCommitHolds(t) ==
    /\ pc[t] = "commit"
    /\ SetTrx(t, "committed")
    /\ IF t \in NoBinlog
         THEN Goto(t, "done") /\ answer' = [answer EXCEPT ![t] = "commit"]
         ELSE Goto(t, "unlog") /\ UNCHANGED answer
    /\ UNCHANGED <<server, xid, query_id, logVars, lockVars, crashes>>

(* ha_commit_one_phase: innobase_commit; binlog_commit finds its cache empty *)
EngineCommit(t) ==
    /\ pc[t] = "commit"
    /\ SetTrx(t, "committed")
    /\ prepare_commit_mutex' =
         IF prepare_commit_mutex = t THEN Nobody ELSE prepare_commit_mutex
    /\ IF t \in NoBinlog
         THEN Goto(t, "done") /\ answer' = [answer EXCEPT ![t] = "commit"]
         ELSE Goto(t, "unlog") /\ UNCHANGED answer
    /\ UNCHANGED <<server, xid, query_id, logVars, LOCK_log, crashes>>

(* mutant: the xid stays counted *)
UnlogLost(t) ==
    /\ pc[t] = "unlog"
    /\ Goto(t, "unlogged")
    /\ UNCHANGED <<server, trxVars, xid, query_id, logVars, lockVars, answer, crashes>>

(* TC_LOG_BINLOG::unlog, its first part *)
Unlog(t) ==
    /\ pc[t] = "unlog"
    /\ prepared_xids' = prepared_xids - 1
    /\ Goto(t, "unlogged")
    /\ UNCHANGED <<server, trxVars, xid, query_id, logged, synced, last, in_use,
                   sync_binlog_counter, lockVars, answer, crashes>>

(* its second part: rotate_and_purge, when the file is not full *)
CommitDone(t) ==
    /\ pc[t] = "unlogged" /\ LOCK_log = Nobody
    /\ Goto(t, "done")
    /\ answer' = [answer EXCEPT ![t] = "commit"]
    /\ UNCHANGED <<server, trxVars, xid, query_id, logVars, lockVars, crashes>>

-----------------------------------------------------------------------------
(* MYSQL_LOG::new_file: the file is full, or FLUSH LOGS *)
NewFile(r) ==
    /\ pc[r] = IF r = Flusher THEN "new" ELSE "unlogged"
    /\ server = "up" /\ LOCK_log = Nobody /\ last < MaxFiles
    /\ LOCK_log' = r
    /\ Goto(r, "close")
    /\ UNCHANGED <<server, trxVars, xid, query_id, logVars, prepare_commit_mutex,
                   answer, crashes>>

(* mutant: does not wait for prepared_xids *)
CloseFileEarly(r) ==
    /\ pc[r] = "close"
    /\ in_use' = FALSE
    /\ synced' = logged
    /\ Goto(r, "open")
    /\ UNCHANGED <<server, trxVars, xid, query_id, logged, last, sync_binlog_counter,
                   prepared_xids, lockVars, answer, crashes>>

(* when all xids are unlogged, the file is marked as closed and synced *)
CloseFile(r) ==
    /\ pc[r] = "close" /\ prepared_xids = 0
    /\ in_use' = FALSE
    /\ synced' = logged
    /\ Goto(r, "open")
    /\ UNCHANGED <<server, trxVars, xid, query_id, logged, last, sync_binlog_counter,
                   prepared_xids, lockVars, answer, crashes>>

(* MYSQL_LOG::open: the new file, marked as in use, then the index *)
OpenFile(r) ==
    /\ pc[r] = "open"
    /\ last' = last + 1
    /\ in_use' = TRUE
    /\ LOCK_log' = Nobody
    /\ IF r = Flusher
         THEN Goto(r, "new") /\ UNCHANGED answer
         ELSE Goto(r, "done") /\ answer' = [answer EXCEPT ![r] = "commit"]
    /\ UNCHANGED <<server, trxVars, xid, query_id, logged, synced,
                   sync_binlog_counter, prepared_xids, prepare_commit_mutex, crashes>>

-----------------------------------------------------------------------------
(* Writes nobody waits for: InnoDB's master thread once a second, and the  *)
(* operating system whenever it likes                                      *)
LogFlush ==
    /\ server \in {"up", "stopping", "recovering"}
    /\ trxOs' = trx /\ trxDisk' = trx
    /\ UNCHANGED <<server, pc, trx, xid, query_id, logVars, lockVars, answer, crashes>>

WriteBack ==
    /\ \/ trxDisk' = trxOs /\ UNCHANGED synced
       \/ synced' = logged /\ UNCHANGED trxDisk
    /\ UNCHANGED <<server, pc, trx, trxOs, xid, query_id, logged, last, in_use,
                   sync_binlog_counter, prepared_xids, lockVars, answer, crashes>>

-----------------------------------------------------------------------------
(* Shutdown, crash, recovery *)

Idle(r) == pc[r] \in {"new", "done", "crashed"}

(* clean_up: the binary log first, then the storage engines *)
Shutdown ==
    /\ server = "up" /\ \A r \in Thread : Idle(r)
    /\ crashes < MaxCrashes
    /\ server' = "stopping"
    /\ in_use' = FALSE
    /\ synced' = logged
    /\ UNCHANGED <<pc, trxVars, xid, query_id, logged, last, sync_binlog_counter,
                   prepared_xids, lockVars, answer, crashes>>

ShutdownEngine ==
    /\ server = "stopping"
    /\ server' = "down"
    /\ trxOs' = trx /\ trxDisk' = trx
    /\ prepare_commit_mutex' = Nobody
    /\ crashes' = crashes + 1
    /\ UNCHANGED <<pc, trx, xid, query_id, logVars, LOCK_log, answer>>

Crash(kind) ==
    /\ kind \in Crashes /\ server # "down" /\ crashes < MaxCrashes
    /\ server' = "down"
    /\ pc' = [r \in Thread |-> IF Idle(r) THEN pc[r]
                               ELSE IF r = Flusher THEN "new" ELSE "crashed"]
    /\ IF kind = "os"
         THEN trx' = trxDisk /\ trxOs' = trxDisk /\ logged' = synced
         ELSE trx' = trxOs /\ UNCHANGED <<trxOs, logged>>
    /\ prepared_xids' = 0 /\ sync_binlog_counter' = 0
    /\ LOCK_log' = Nobody /\ prepare_commit_mutex' = Nobody
    /\ crashes' = crashes + 1
    /\ UNCHANGED <<trxDisk, xid, query_id, synced, last, in_use, answer>>

(* ha_init: InnoDB applies its log and rolls back what was not prepared *)
StartEngine ==
    /\ server = "down"
    /\ server' = "recovering"
    /\ trx' = [t \in Txn |-> IF pc[t] = "crashed" /\ trx[t] = "active"
                               THEN "aborted" ELSE trx[t]]
    /\ trxOs' = trx' /\ trxDisk' = trx'
    /\ UNCHANGED <<pc, xid, query_id, logVars, lockVars, answer, crashes>>

(* mutant: all log files are searched for the xid *)
CommitListOfAllLogs == {xid[t] : t \in {u \in Txn : logged[u] # 0}}

(* mutant: the hash is keyed by the wrong event and is always empty *)
CommitListEmpty == {}

(* TC_LOG_BINLOG::open and recover: the xids of the last log file, when it *)
(* was not closed; otherwise ha_recover(0) finds no list                   *)
CommitList ==
    IF in_use THEN {xid[t] : t \in {u \in Txn : logged[u] = last}} ELSE {}

(* ha_recover, one prepared transaction *)
RecoverXid(t) ==
    /\ server = "recovering" /\ trx[t] = "prepared"
    /\ SetTrx(t, IF xid[t] \in CommitList THEN "committed" ELSE "aborted")
    /\ UNCHANGED <<server, pc, xid, query_id, logVars, lockVars, answer, crashes>>

(* a new binary log, and the server accepts connections *)
StartServer ==
    /\ server = "recovering" /\ \A t \in Txn : trx[t] # "prepared"
    /\ server' = "up"
    /\ last' = last + 1 /\ in_use' = TRUE
    /\ query_id' = 1
    /\ UNCHANGED <<pc, trxVars, xid, logged, synced, sync_binlog_counter,
                   prepared_xids, lockVars, answer, crashes>>

-----------------------------------------------------------------------------
(* what a thread that runs a COMMIT, or FLUSH LOGS, goes on to do *)
Continue(r) ==
    \/ r \in Txn /\ \/ Prepare(r) \/ WriteXid(r) \/ WriteFails(r) \/ SyncXid(r)
                    \/ SyncFails(r) \/ RollbackAfterError(r) \/ EngineCommit(r)
                    \/ Unlog(r) \/ CommitDone(r)
    \/ CloseFile(r) \/ OpenFile(r)

Next ==
    \/ \E t \in Txn : Begin(t) \/ Commit(t) \/ Rollback(t) \/ RecoverXid(t)
    \/ \E r \in Thread : Continue(r) \/ NewFile(r)
    \/ LogFlush \/ WriteBack
    \/ Shutdown \/ ShutdownEngine \/ StartEngine \/ StartServer
    \/ \E kind \in Crashes : Crash(kind)

Spec == Init /\ [][Next]_vars

(* threads keep running, and a mutex that is free again and again is got *)
FairSpec == Spec /\ \A r \in Thread : SF_vars(Continue(r))

-----------------------------------------------------------------------------
(* Properties *)

TypeOK ==
    /\ server \in {"up", "stopping", "down", "recovering"}
    /\ pc \in [Thread -> {"new", "active", "prepare", "log", "sync", "rollback",
                          "commit", "unlog", "unlogged", "close", "open", "done",
                          "crashed"}]
    /\ trx \in [Txn -> {"active", "prepared", "committed", "aborted"}]
    /\ trxOs \in [Txn -> {"active", "prepared", "committed", "aborted"}]
    /\ trxDisk \in [Txn -> {"active", "prepared", "committed", "aborted"}]
    /\ xid \in [Txn -> Nat] /\ query_id \in Nat
    /\ logged \in [Txn -> Nat] /\ synced \in [Txn -> Nat]
    /\ last \in Nat /\ in_use \in BOOLEAN
    /\ sync_binlog_counter \in Nat /\ prepared_xids \in Nat
    /\ LOCK_log \in Thread \cup {Nobody}
    /\ prepare_commit_mutex \in Thread \cup {Nobody}
    /\ answer \in [Txn -> {"none", "commit", "abort"}]
    /\ crashes \in Nat

(* A transaction that is over, by COMMIT, ROLLBACK or a crash and the      *)
(* recovery, is committed in InnoDB exactly if the binary log has it: a    *)
(* slave that replays the log ends with the same data.                     *)
EngineMatchesBinlog ==
    \A t \in TwoPhase : server = "up" /\ pc[t] \in {"done", "crashed"} =>
        (trx[t] = "committed" <=> logged[t] # 0)

(* InnoDB never has a transaction that the binary log lacks, whatever      *)
(* fails: a slave is not missing what the master has.                      *)
NothingUnlogged ==
    \A t \in TwoPhase : trx[t] = "committed" => logged[t] # 0

(* new_file, "on recover we only need to scan one - latest - binlog file": *)
(* a transaction that is prepared and logged is in the last file, and that *)
(* file says that it was in use.                                           *)
OnlyLastLogMatters ==
    \A t \in TwoPhase : trx[t] = "prepared" /\ logged[t] # 0 =>
        logged[t] = last /\ in_use

(* A client that was told that its transaction is committed finds it       *)
(* committed, also after any number of crashes.                            *)
CommitIsDurable ==
    \A t \in Txn : server = "up" /\ answer[t] = "commit" => trx[t] = "committed"

InDoubt(t) == logged[t] # 0 /\ trx[t] \in {"active", "prepared"}

(* innobase_xa_prepare: the order of transactions in the binary log and in *)
(* InnoDB is the same.  A transaction is written to the log only when the  *)
(* one before it is committed in InnoDB.                                   *)
SameOrder == \A t, u \in Txn : InDoubt(t) /\ InDoubt(u) => t = u

(* The settings under which the promise holds: nothing that a crash takes  *)
(* away was waited for, and writing the binary log does not fail.          *)
SafeSettings ==
    /\ WriteErrors = FALSE
    /\ \/ "os" \notin Crashes /\ FlushLogAtTrxCommit # 0
       \/ Crashes = {"os"} /\ FlushLogAtTrxCommit = 1 /\ SyncBinlog = 1

(* A COMMIT ends, whatever other connections do, unless the server does.   *)
CommitEnds == \A t \in Txn : pc[t] = "prepare" ~> pc[t] \in {"done", "crashed"}

(* FLUSH LOGS gets through although transactions keep committing.          *)
RotationEnds == pc[Flusher] = "close" ~> pc[Flusher] = "new"

-----------------------------------------------------------------------------
(* What is left of a transaction after the worst crash that can happen     *)

Kept == IF "os" \in Crashes THEN trxDisk ELSE trxOs
KeptLog == IF "os" \in Crashes THEN synced ELSE logged

WouldCommit(t) ==
    \/ Kept[t] = "committed"
    \/ Kept[t] = "prepared" /\ in_use /\ KeptLog[t] = last

Promise == INSTANCE AtomicCommit WITH
    outcome <- [t \in Txn |-> IF WouldCommit(t) THEN "commit"
                              ELSE IF trx[t] = "aborted" THEN "abort" ELSE "none"],
    told <- answer

(* The two-phase commit implements AtomicCommit: once the Xid event would  *)
(* survive a crash the transaction is committed, and no crash, no rotation *)
(* and no recovery takes that back or contradicts what the client heard.   *)
ImplementsAtomicCommit == Promise!Spec
=============================================================================
