------------------------------ MODULE RelayLog ------------------------------
(***************************************************************************)
(* The replication slave: the I/O thread copies the events of the master's *)
(* binary log into the relay log, the SQL thread reads them from there and *)
(* executes them (sql/slave.cc, the relay log part of sql/log.cc, the      *)
(* exec_event methods of sql/log_event.cc).                                *)
(*                                                                         *)
(* A position is a pair <<file, number of events passed>>, in the master's *)
(* log and in the relay log alike.  LOCK_log makes an append, a rotation   *)
(* and a read of the hot log one step each; what lies between two of them  *)
(* interleaves.  The two info files and the relay log's write buffer       *)
(* (IO_CACHE) are modelled for a crash of the server process.              *)
(***************************************************************************)
EXTENDS Integers, Sequences, FiniteSets, SequencesExt

CONSTANTS
    MasterLog,     \* the files of the master's binary log: sequences of kinds
    MaxSize,       \* max_relay_log_size, in events
    SlaveTransRetries, \* slave_transaction_retries
    MaxFaults,     \* bound: crashes, STOP SLAVE, losses of the connection,
                   \* deadlocks and lock wait timeouts of the SQL thread,
                   \* FLUSH LOGS, all together
    None

ASSUME RelayLogAssumption ==
    /\ MasterLog \in Seq(Seq({"begin", "query", "commit", "intvar", "own"}))
    /\ MasterLog # << >>
    /\ MaxSize \in Nat \ {0}
    /\ SlaveTransRetries \in Nat
    /\ MaxFaults \in Nat

VARIABLES
    mi,     \* master_log_name, master_log_pos: the next place to read from
    minfo,  \* master.info
    io,     \* I/O thread: where it is; whether it has yet to get the Rotate a
            \* dump begins with
    ign,    \* ign_master_log_name_end, ign_master_log_pos_end
    log,    \* the relay log: its files (purged ones are empty), the first one
            \* of the index, how much of the last one has left the IO_CACHE
    rli,    \* event, group: relay log coordinates; master: group_master_log_*;
            \* hot: the open count, when it reads the I/O thread's IO_CACHE
    info,   \* relay-log.info
    sql,    \* SQL thread: where it is; OPTION_BEGIN; what the transaction has
            \* done; whether an Intvar waits for its query; trans_retries
    db,     \* the events committed on the slave, in order
    ignore_log_space_limit,
    faults  \* how much of MaxFaults is used up; whether there was a crash, and
            \* a retry with what the transaction had done kept

vars == <<mi, minfo, io, ign, log, rli, info, sql, db, ignore_log_space_limit, faults>>

-----------------------------------------------------------------------------
(* The master's log.  The end of a file and the start of the next one are  *)
(* the same place.                                                         *)
LogPos == UNION {{<<f, p>> : p \in 0 .. Len(MasterLog[f])} : f \in 1 .. Len(MasterLog)}
Events == {x \in LogPos : x[2] > 0}
KindOf(x) == MasterLog[x[1]][x[2]]
UpTo(x, y) == x[1] < y[1] \/ (x[1] = y[1] /\ x[2] <= y[2])
EndOfFile(x) == x[2] = Len(MasterLog[x[1]])
SamePlace(x, y) == {e \in Events : UpTo(e, x)} = {e \in Events : UpTo(e, y)}

ASSUME NoneAssumption == None \notin LogPos

(* The master writes a transaction's BEGIN, statements and COMMIT in one go *)
(* into one file (MYSQL_LOG::write of a transaction's cache).              *)
InTransaction(x) ==
    \E b \in 1 .. x[2] : /\ MasterLog[x[1]][b] = "begin"
                         /\ \A c \in b + 1 .. x[2] : MasterLog[x[1]][c] # "commit"

ASSUME WholeTransactions ==
    \A x \in LogPos : InTransaction(x) =>
        ~EndOfFile(x) /\ MasterLog[x[1]][x[2] + 1] # "begin"

(* events that change the slave's data *)
Effects == {e \in Events : KindOf(e) = "query"}

(* Entries of the relay log: its own Format_desc and Rotate, which have the *)
(* slave's server id, a Rotate of the master, an event of the master.      *)
Self      == [k |-> "self", at |-> <<1, 0>>]
Rotate(x) == [k |-> "rotate", at |-> x]
Event(x)  == [k |-> KindOf(x), at |-> x]

Active == Len(log.files)

(* MYSQL_LOG::new_file: the old file ends with a Rotate and is flushed, the *)
(* new one begins with a Format_desc and is flushed                        *)
new_file(L) ==
    [L EXCEPT !.files = Append([L.files EXCEPT ![Len(L.files)] = Append(@, Self)], <<Self>>),
              !.flushed = 1]

(* MYSQL_LOG::append, appendv *)
appendv(L, e) ==
    LET M == [L EXCEPT !.files[Len(L.files)] = Append(@, e)]
    IN IF Len(Last(M.files)) > MaxSize THEN new_file(M) ELSE M

(* signal_update, and the broadcast on log_space_cond *)
Updated == sql' = IF sql.pc = "wait" THEN [sql EXCEPT !.pc = "next"] ELSE sql
SpaceBroadcast == io' = IF io.pc = "wait" THEN [io EXCEPT !.pc = "space"] ELSE io

-----------------------------------------------------------------------------
SqlStopped == [pc |-> "stopped", begin |-> FALSE, work |-> << >>, intvar |-> FALSE, tries |-> 0]
IoStopped == [pc |-> "stopped", fresh |-> FALSE]

(* a slave that has never run: CHANGE MASTER to the start of the first log *)
Init ==
    /\ mi = <<1, 0>> /\ minfo = <<1, 0>> /\ ign = None
    /\ io = IoStopped /\ sql = SqlStopped
    /\ log = [files |-> <<<<Self>>>>, first |-> 1, flushed |-> 1]
    /\ rli = [event |-> <<1, 0>>, group |-> <<1, 0>>, master |-> <<1, 0>>, hot |-> 1]
    /\ info = [group |-> <<1, 0>>, master |-> <<1, 0>>]
    /\ db = << >>
    /\ ignore_log_space_limit = FALSE
    /\ faults = [n |-> 0, crash |-> FALSE, kept |-> FALSE]

Fault == faults.n < MaxFaults /\ faults' = [faults EXCEPT !.n = @ + 1]

-----------------------------------------------------------------------------
(* The I/O thread *)

(* handle_slave_io up to request_dump; the master answers with a Rotate to *)
(* the place asked for                                                     *)
RequestDump ==
    /\ io.pc = "stopped"
    /\ io' = [pc |-> "read", fresh |-> TRUE]
    /\ UNCHANGED <<mi, minfo, ign, log, rli, info, sql, db, ignore_log_space_limit, faults>>

(* read_event fails: the thread connects again and asks from mi *)
ConnectionLost ==
    /\ io.pc = "read" /\ ~io.fresh /\ Fault
    /\ io' = [io EXCEPT !.fresh = TRUE]
    /\ UNCHANGED <<mi, minfo, ign, log, rli, info, sql, db, ignore_log_space_limit>>

(* queue_event of a Rotate, first part: process_io_rotate takes the place   *)
(* over and rotates the relay log                                          *)
ProcessIoRotate ==
    /\ io.pc = "read"
    /\ \/ io.fresh /\ UNCHANGED mi
       \/ ~io.fresh /\ EndOfFile(mi) /\ mi[1] < Len(MasterLog) /\ mi' = <<mi[1] + 1, 0>>
    /\ log' = new_file(log)
    /\ io' = [io EXCEPT !.pc = "rotated", !.fresh = FALSE]
    /\ Updated
    /\ UNCHANGED <<minfo, ign, rli, info, db, ignore_log_space_limit, faults>>

(* queue_event: the event goes to the relay log *)
Queue(e, pc) ==
    /\ log' = appendv(log, e)
    /\ ign' = None
    /\ io' = [io EXCEPT !.pc = pc]
    /\ Updated

QueueRotate ==
    /\ io.pc = "rotated"
    /\ Queue(Rotate(mi), "flush")
    /\ UNCHANGED <<mi, minfo, rli, info, db, ignore_log_space_limit, faults>>

QueueEvent ==
    /\ io.pc = "read" /\ ~io.fresh /\ ~EndOfFile(mi)
    /\ mi' = <<mi[1], mi[2] + 1>>
    /\ KindOf(mi') # "own"
    /\ Queue(Event(mi'), "flush")
    /\ UNCHANGED <<minfo, rli, info, db, ignore_log_space_limit, faults>>

(* queue_event: an event that this server has written itself is not put in *)
(* the relay log, only its end is remembered                               *)
QueueIgnored ==
    /\ io.pc = "read" /\ ~io.fresh /\ ~EndOfFile(mi)
    /\ mi' = <<mi[1], mi[2] + 1>>
    /\ KindOf(mi') = "own"
    /\ ign' = mi'
    /\ io' = [io EXCEPT !.pc = "flush"]
    /\ Updated
    /\ UNCHANGED <<minfo, log, rli, info, db, ignore_log_space_limit, faults>>

(* mutant: flush_relay_log_cache is not set *)
FlushRelayLogCache_none ==
    /\ io.pc \in {"flush", "died"}
    /\ io' = [io EXCEPT !.pc = IF @ = "died" THEN "last_info" ELSE "info"]
    /\ UNCHANGED <<mi, minfo, ign, log, rli, info, sql, db, ignore_log_space_limit, faults>>

(* flush_master_info: the relay log first *)
FlushRelayLogCache ==
    /\ io.pc \in {"flush", "died"}
    /\ io' = [io EXCEPT !.pc = IF @ = "died" THEN "last_info" ELSE "info"]
    /\ log' = [log EXCEPT !.flushed = Len(log.files[Active])]
    /\ UNCHANGED <<mi, minfo, ign, rli, info, sql, db, ignore_log_space_limit, faults>>

(* flush_master_info: then master.info *)
FlushMasterInfo ==
    /\ io.pc \in {"info", "last_info"}
    /\ minfo' = mi
    /\ io' = [io EXCEPT !.pc = IF @ = "info" THEN "space" ELSE "stopped"]
    /\ UNCHANGED <<mi, ign, log, rli, info, sql, db, ignore_log_space_limit, faults>>

(* wait_for_relay_log_space.  log_space_total is raised by this thread and *)
(* lowered by the purge of the SQL thread without a lock they share, so it *)
(* can have any value: the test of the limit is a free choice.             *)
WaitForRelayLogSpace ==
    /\ io.pc = "space"
    /\ \E full \in BOOLEAN :
         io' = [io EXCEPT !.pc = IF full /\ ~ignore_log_space_limit
                                   THEN "wait" ELSE "read"]
    /\ UNCHANGED <<mi, minfo, ign, log, rli, info, sql, db, ignore_log_space_limit, faults>>

(* STOP SLAVE IO_THREAD, noticed wherever io_slave_killed is called;       *)
(* write_ignored_events_info_to_relay_log leaves a trace of ignored events *)
IoStop ==
    /\ io.pc \in {"read", "space", "wait"} /\ Fault
    /\ io' = [io EXCEPT !.pc = IF ign = None THEN "stopped" ELSE "dying",
                        !.fresh = FALSE]
    /\ UNCHANGED <<mi, minfo, ign, log, rli, info, sql, db, ignore_log_space_limit>>

(* it takes ign under LOCK_log ... *)
TakeIgnored ==
    /\ io.pc = "dying"
    /\ io' = [io EXCEPT !.pc = IF ign = None THEN "stopped" ELSE "trace"]
    /\ ign' = None
    /\ UNCHANGED <<mi, minfo, log, rli, info, sql, db, ignore_log_space_limit, faults>>

(* ... and appends the Rotate, to what was ign and is mi, after it has let *)
(* LOCK_log go                                                             *)
TraceIgnored ==
    /\ io.pc = "trace"
    /\ Queue(Rotate(mi), "died")
    /\ UNCHANGED <<mi, minfo, rli, info, db, ignore_log_space_limit, faults>>

-----------------------------------------------------------------------------
(* FLUSH LOGS: rotate_relay_log *)
FlushLogs ==
    /\ Fault
    /\ io.pc # "broken"
    /\ log' = new_file(log)
    /\ Updated
    /\ UNCHANGED <<mi, minfo, io, ign, rli, info, db, ignore_log_space_limit>>

-----------------------------------------------------------------------------
(* The SQL thread *)

(* init_relay_log_pos: back to the start of the group.  The file is read   *)
(* through the I/O thread's IO_CACHE when it is the active one.            *)
HotIf(f) == IF f = Active THEN f ELSE 0
BackToGroup == rli' = [rli EXCEPT !.event = rli.group, !.hot = HotIf(rli.group[1])]

SqlStart ==
    /\ sql.pc = "stopped"
    /\ sql' = [SqlStopped EXCEPT !.pc = "next"]
    /\ BackToGroup
    /\ ignore_log_space_limit' = FALSE
    /\ UNCHANGED <<mi, minfo, io, ign, log, info, db, faults>>

(* STOP SLAVE SQL_THREAD: an open transaction is rolled back with the THD *)
SqlStop ==
    /\ sql.pc \in {"next", "wait"} /\ Fault
    /\ sql' = SqlStopped
    /\ ignore_log_space_limit' = FALSE
    /\ UNCHANGED <<mi, minfo, io, ign, log, rli, info, db>>

(* The SQL thread reads the hot log as long as it is not rotated; then     *)
(* reopen_relay_log opens the same file as a cold one.                     *)
ReadsHot == rli.hot = Active
AtEof == rli.event[2] >= Len(log.files[rli.event[1]])

(* mutant: ignored events are forgotten at the end of the hot log *)
WaitForUpdate_blind ==
    /\ sql.pc = "next" /\ ReadsHot /\ AtEof
    /\ sql' = [sql EXCEPT !.pc = "wait"]
    /\ ignore_log_space_limit' = TRUE
    /\ SpaceBroadcast
    /\ UNCHANGED <<mi, minfo, ign, log, rli, info, db, faults>>

(* mutant: the I/O thread is not told to ignore the limit *)
WaitForUpdate_limit ==
    /\ sql.pc = "next" /\ ReadsHot /\ AtEof /\ ign = None
    /\ sql' = [sql EXCEPT !.pc = "wait"]
    /\ UNCHANGED <<mi, minfo, io, ign, log, rli, info, db, ignore_log_space_limit, faults>>

(* next_event: all is read; let the I/O thread go on and wait for it *)
WaitForUpdate ==
    /\ sql.pc = "next" /\ ReadsHot /\ AtEof /\ ign = None
    /\ sql' = [sql EXCEPT !.pc = "wait"]
    /\ ignore_log_space_limit' = TRUE
    /\ SpaceBroadcast
    /\ UNCHANGED <<mi, minfo, ign, log, rli, info, db, faults>>

(* purge_first_log's second argument *)
Included == rli.group = rli.event

(* mutant: the files that are read are deleted, not those that are executed *)
PurgeFirstLog_read ==
    /\ sql.pc = "next" /\ ~ReadsHot /\ AtEof
    /\ LET to == rli.event[1] + 1 IN
       /\ log' = [log EXCEPT !.first = to,
                             !.files = [f \in DOMAIN @ |-> IF f < to THEN << >> ELSE @[f]]]
    /\ ignore_log_space_limit' = FALSE
    /\ sql' = [sql EXCEPT !.pc = "purged"]
    /\ SpaceBroadcast
    /\ UNCHANGED <<mi, minfo, ign, rli, info, db, faults>>

(* next_event at the end of a cold file, purge_first_log: the files that   *)
(* are done with are deleted and the limit counts again                     *)
PurgeFirstLog ==
    /\ sql.pc = "next" /\ ~ReadsHot /\ AtEof
    /\ LET to == IF Included THEN rli.group[1] + 1 ELSE rli.group[1] IN
       /\ log' = [log EXCEPT !.first = to,
                             !.files = [f \in DOMAIN @ |-> IF f < to THEN << >> ELSE @[f]]]
    /\ ignore_log_space_limit' = FALSE
    /\ sql' = [sql EXCEPT !.pc = "purged"]
    /\ SpaceBroadcast
    /\ UNCHANGED <<mi, minfo, ign, rli, info, db, faults>>

(* the rest of purge_first_log and of next_event: the coordinates of the   *)
(* next file, which may be hot or cold                                     *)
SwitchLog ==
    /\ sql.pc = "purged"
    /\ LET next == <<rli.event[1] + 1, 0>> IN
       /\ rli' = [rli EXCEPT !.event = next, !.hot = HotIf(next[1]),
                             !.group = IF Included THEN next ELSE @]
    /\ info' = [group |-> rli'.group, master |-> rli'.master]
    /\ sql' = [sql EXCEPT !.pc = "next"]
    /\ UNCHANGED <<mi, minfo, io, ign, log, db, ignore_log_space_limit, faults>>

-----------------------------------------------------------------------------
(* exec_relay_log_event: next_event has found an event, which is executed. *)
(* Nothing another thread does comes between the two.                      *)
NextEvent == log.files[rli.event[1]][rli.event[2] + 1]
Future == <<rli.event[1], rli.event[2] + 1>>
Executes(kinds) == sql.pc = "next" /\ ~AtEof /\ NextEvent.k \in kinds

(* inc_event_relay_log_pos *)
IncEvent ==
    /\ rli' = [rli EXCEPT !.event = Future]
    /\ UNCHANGED info

(* inc_group_relay_log_pos and flush_relay_log_info *)
IncGroup(master) ==
    /\ rli' = [rli EXCEPT !.event = Future, !.group = Future, !.master = master]
    /\ info' = [group |-> rli'.group, master |-> rli'.master]

(* Format_desc and Rotate of the relay log itself *)
ExecSelf ==
    /\ Executes({"self"})
    /\ IF sql.begin THEN IncEvent ELSE IncGroup(rli.master)
    /\ UNCHANGED <<mi, minfo, io, ign, log, sql, db, ignore_log_space_limit, faults>>

(* mutant: the coordinates move although a transaction is open *)
RotateCoordinates_always(to, future) ==
    [rli EXCEPT !.event = future, !.master = to, !.group = <<rli.group[1], future[2]>>]

(* Rotate_log_event::exec_event: nothing but the event's coordinates in a  *)
(* transaction; group_relay_log_name stays as it is                        *)
RotateCoordinates(to, future) ==
    IF sql.begin THEN [rli EXCEPT !.event = future]
    ELSE [rli EXCEPT !.event = future, !.master = to, !.group = <<rli.group[1], future[2]>>]

ExecRotate ==
    /\ Executes({"rotate"})
    /\ rli' = RotateCoordinates(NextEvent.at, Future)
    /\ info' = [group |-> rli'.group, master |-> rli'.master]
    /\ UNCHANGED <<mi, minfo, io, ign, log, sql, db, ignore_log_space_limit, faults>>

(* next_event: the I/O thread ignored the last events; a Rotate is made up *)
(* and executed so that the positions advance                              *)
ExecIgnoredEnd ==
    /\ sql.pc = "next" /\ ReadsHot /\ AtEof /\ ign # None
    /\ rli' = RotateCoordinates(ign, rli.event)
    /\ info' = [group |-> rli'.group, master |-> rli'.master]
    /\ ign' = None
    /\ UNCHANGED <<mi, minfo, io, log, sql, db, ignore_log_space_limit, faults>>

(* Intvar, Rand, User_var, SET ONE_SHOT: they belong to the next query *)
ExecIntvar ==
    /\ Executes({"intvar"})
    /\ IncEvent
    /\ sql' = [sql EXCEPT !.intvar = TRUE]
    /\ UNCHANGED <<mi, minfo, io, ign, log, db, ignore_log_space_limit, faults>>

(* BEGIN: a transaction that is still open is committed (end_active_trans) *)
ExecBegin ==
    /\ Executes({"begin"})
    /\ db' = db \o sql.work
    /\ IncEvent
    /\ sql' = [sql EXCEPT !.begin = TRUE, !.work = << >>]
    /\ UNCHANGED <<mi, minfo, io, ign, log, ignore_log_space_limit, faults>>

(* a query inside a transaction *)
ExecInTransaction ==
    /\ Executes({"query"}) /\ sql.begin
    /\ IncEvent
    /\ sql' = [sql EXCEPT !.work = Append(@, NextEvent.at), !.intvar = FALSE]
    /\ UNCHANGED <<mi, minfo, io, ign, log, db, ignore_log_space_limit, faults>>

(* COMMIT, Xid, or a query that is a transaction of its own: the engine    *)
(* commits before the positions are written                                *)
ExecCommit ==
    /\ Executes({"commit", "query"}) /\ (NextEvent.k = "query" => ~sql.begin)
    /\ db' = db \o (IF NextEvent.k = "commit" THEN sql.work ELSE <<NextEvent.at>>)
    /\ sql' = [SqlStopped EXCEPT !.pc = "committed"]
    /\ UNCHANGED <<mi, minfo, io, ign, log, rli, info, ignore_log_space_limit, faults>>

(* Log_event::exec_event after the commit: log_pos without the log's name *)
IncGroupRelayLogPos ==
    /\ sql.pc = "committed"
    /\ IncGroup(<<rli.master[1], NextEvent.at[2]>>)
    /\ sql' = [sql EXCEPT !.pc = "next"]
    /\ UNCHANGED <<mi, minfo, io, ign, log, db, ignore_log_space_limit, faults>>

(* exec_relay_log_event: a query fails with a deadlock, for which the      *)
(* engine rolls back the transaction, or with a lock wait timeout, for     *)
(* which it rolls back the query and keeps what came before.  Either way   *)
(* OPTION_BEGIN stays and the SQL thread goes back to the BEGIN.  Outside  *)
(* a transaction trans_retries is set to 0 again at once.                  *)
RetryTransaction ==
    /\ Executes({"query"}) /\ sql.tries < SlaveTransRetries
    /\ faults.n < MaxFaults
    /\ \E kept \in {<< >>, sql.work} :
         /\ sql' = [sql EXCEPT !.work = kept, !.intvar = FALSE,
                               !.tries = IF sql.begin THEN @ + 1 ELSE 0]
         /\ faults' = [faults EXCEPT !.n = @ + 1, !.kept = @ \/ kept # << >>]
    /\ BackToGroup
    /\ UNCHANGED <<mi, minfo, io, ign, log, info, db, ignore_log_space_limit>>

(* the same error once too often: the SQL thread stops *)
GiveUp ==
    /\ Executes({"query"}) /\ sql.tries >= SlaveTransRetries /\ Fault
    /\ sql' = SqlStopped
    /\ ignore_log_space_limit' = FALSE
    /\ UNCHANGED <<mi, minfo, io, ign, log, rli, info, db>>

-----------------------------------------------------------------------------
(* The server dies and is started again.  What is in the IO_CACHE is lost  *)
(* but for what the cache wrote by itself; init_relay_log_info opens a new *)
(* relay log file, and fails when relay-log.info names a deleted one.      *)
Crash ==
    /\ faults.n < MaxFaults /\ io.pc # "broken"
    /\ faults' = [faults EXCEPT !.n = @ + 1, !.crash = TRUE]
    /\ \E n \in log.flushed .. Len(log.files[Active]) :
         log' = [log EXCEPT !.files = Append([log.files EXCEPT ![Active] = SubSeq(@, 1, n)],
                                             <<Self>>),
                            !.flushed = 1]
    /\ mi' = minfo /\ ign' = None
    /\ rli' = [event |-> info.group, group |-> info.group, master |-> info.master, hot |-> 0]
    /\ ignore_log_space_limit' = FALSE
    /\ LET pc == IF info.group[1] < log.first THEN "broken" ELSE "stopped" IN
       io' = [IoStopped EXCEPT !.pc = pc] /\ sql' = [SqlStopped EXCEPT !.pc = pc]
    /\ UNCHANGED <<minfo, info, db>>

-----------------------------------------------------------------------------
IoStep ==
    \/ RequestDump \/ ProcessIoRotate \/ QueueRotate \/ QueueEvent
    \/ QueueIgnored \/ FlushRelayLogCache \/ FlushMasterInfo
    \/ WaitForRelayLogSpace \/ TakeIgnored \/ TraceIgnored

SqlStep ==
    \/ SqlStart \/ WaitForUpdate \/ PurgeFirstLog \/ SwitchLog \/ ExecSelf
    \/ ExecRotate \/ ExecIgnoredEnd \/ ExecIntvar \/ ExecBegin
    \/ ExecInTransaction \/ ExecCommit \/ IncGroupRelayLogPos

Next ==
    \/ IoStep \/ SqlStep
    \/ ConnectionLost \/ IoStop \/ SqlStop \/ RetryTransaction \/ GiveUp
    \/ FlushLogs \/ Crash

Spec == Init /\ [][Next]_vars

(* Both threads run, and who stopped the slave starts it again. *)
FairSpec == Spec /\ WF_vars(IoStep) /\ WF_vars(SqlStep)

-----------------------------------------------------------------------------
(* Properties *)

(* The coordinates the SQL thread would go back to, in memory and on disk, *)
(* are in a file that still exists, but for the file being switched.       *)
TypeOK ==
    /\ mi \in LogPos /\ minfo \in LogPos /\ ign \in LogPos \cup {None}
    /\ io \in [pc : {"stopped", "read", "rotated", "flush", "info",
                     "space", "wait", "dying", "trace", "died", "last_info",
                     "broken"},
               fresh : BOOLEAN]
    /\ log.first \in 1 .. Active + 1 /\ log.flushed \in 1 .. Len(log.files[Active])
    /\ rli.event[1] \in 1 .. Active /\ rli.hot \in 0 .. Active /\ rli.master \in LogPos
    /\ sql.pc \in {"stopped", "next", "committed", "purged", "wait", "broken"}
    /\ \A i \in 1 .. Len(db) : db[i] \in Effects
    /\ ignore_log_space_limit \in BOOLEAN
    /\ sql.pc \notin {"purged", "broken"} =>
         /\ rli.group[1] \in log.first .. Active
         /\ info.group[1] \in log.first .. Active

(* Nothing is skipped: whatever crashes, stops and retries there are, an   *)
(* event is committed only after all that precede it in the master's log.  *)
(* And nothing is executed twice, unless the slave server died or a retry  *)
(* began with the earlier statements of the transaction still open.        *)
AppliedInOrder ==
    /\ \A i \in 1 .. Len(db) : \A e \in Effects :
         UpTo(e, db[i]) /\ e # db[i] => \E j \in 1 .. i - 1 : db[j] = e
    /\ ~faults.crash /\ ~faults.kept => \A i, j \in 1 .. Len(db) : db[i] = db[j] => i = j

(* Exec_master_log_pos can be trusted: what precedes group_master_log_pos  *)
(* is committed and, without a crash or such a retry, what follows is not, *)
(* except between a commit and the update of the position.                 *)
PositionsTrue ==
    /\ \A e \in Effects : UpTo(e, rli.master) => \E i \in 1 .. Len(db) : db[i] = e
    /\ ~faults.crash /\ ~faults.kept /\ sql.pc # "committed" =>
         \A i \in 1 .. Len(db) : UpTo(db[i], rli.master)

(* When the SQL thread has nothing to do, its position is the one the I/O  *)
(* thread has read to, events that were ignored included.  Not so inside a *)
(* group, nor before the first Rotate of a connection after a crash.       *)
IdleMeansCaughtUp ==
    sql.pc = "wait" /\ ~sql.begin /\ (mi \in Events => KindOf(mi) # "intvar")
      /\ io.pc \notin {"trace", "rotated"} /\ (faults.crash => io.pc # "stopped" /\ ~io.fresh)
    => SamePlace(rli.master, mi)

(* The slave gets to the end of the master's log, whatever the space limit *)
(* and the stops are; only a crash in the middle of a purge prevents it.   *)
CatchesUp ==
    <>(io.pc = "broken" \/ SamePlace(rli.master, <<Len(MasterLog), Len(Last(MasterLog))>>))

(* A transaction that is retried "has been rolled back", says the comment  *)
(* in exec_relay_log_event: then a slave that did not die executes nothing *)
(* twice.  After a lock wait timeout it does.                              *)
RetriedFromScratch ==
    ~faults.crash => \A i, j \in 1 .. Len(db) : db[i] = db[j] => i = j

(* A query is executed with the Intvar that comes before it: the comment   *)
(* in st_relay_log_info (slave.h) says that the two are one group, and that *)
(* the coordinates are those of the group's beginning.                     *)
IntvarWithQuery ==
    Executes({"query"}) /\ NextEvent.at[2] > 1 =>
        LET previous == <<NextEvent.at[1], NextEvent.at[2] - 1>>
        IN KindOf(previous) = "intvar" => sql.intvar
=============================================================================
