# MySQL 5.0.15 in TLA+

A verification project for the MySQL 5.0.15 server (`trunk/mysql-5.0.15`). It
models the places where threads of the server, crashes and files meet in ways
that tests hardly reach: the table lock manager, the global read lock, the
commit of a transaction in InnoDB and the binary log with its recovery, InnoDB's
record locks, InnoDB's latches, the query cache, and the two threads of a
replication slave. Paths below are relative to `trunk/mysql-5.0.15`.

## The system and its parts

`mysqld` runs one thread for each connection and a few of its own. A statement
opens its tables (table cache), locks them (table lock manager), reads and
writes rows through a storage engine, and ends with a commit, which the server
coordinates over the engines and the binary log.

| part | state | operations | what is hard | what makes it correct |
|---|---|---|---|---|
| Table locks, `mysys/thr_lock.c`, used by `sql/lock.cc`, `sql/sql_insert.cc` | for each table the lists of read and write locks in use and waiting, two counters; for each open table instance its type and condition | `thr_lock`, `thr_unlock`, `thr_multi_lock`, `thr_multi_unlock`, `thr_abort_locks`, `thr_abort_locks_for_thread`, `thr_upgrade_write_delay_lock`, `thr_reschedule_write_lock` | 11 lock types granted on six paths, batches, aborts, KILL and timeouts during a wait, a partly locked array | holders are compatible, nobody is forgotten, no deadlock, no starvation |
| Global read lock, `sql/lock.cc`, with `refresh_version` of `sql/sql_base.cc` | four counters under `LOCK_global_read_lock`, table versions under `LOCK_open`, one condition `COND_refresh` | the two steps of `FLUSH TABLES WITH READ LOCK`, `UNLOCK TABLES`, `wait_if_global_read_lock`, `start_waiting_global_read_lock` | two mutexes and one condition, KILL at each wait, several holders | counters exact, nothing moves under the lock, all waits end |
| Commit and recovery, `sql/handler.cc`, `sql/log.cc`, `sql/ha_innodb.cc`, `innobase/trx/trx0trx.c` | transaction states in the redo log (buffer, file, disk), Xid events in binary log files (written, synced), the in-use flag, `prepared_xids`, two mutexes | prepare, log, commit, unlog, rotation, shutdown, start, `ha_recover` | crashes between any two steps and during recovery, write errors, rotation against commits, xids that start again | InnoDB and the log agree, one outcome for each transaction, durability, same order, COMMIT and rotation end |
| Table cache, `sql/sql_base.cc` | hash of open tables with versions, name locks | open, close, flush, drop | waits under `LOCK_open`, versions | no old table is used after a flush (partly, in GlobalReadLock) |
| InnoDB lock system, `innobase/lock/lock0lock.c` | lock queues by record and table, transaction ids in records | lock table and record, insert, modify, release, deadlock search, timeout; inheritance at insert, delete, split, merge, discard | implicit locks, gap locks that move with the records, cycles, cancelled waits | conflicts are serialised, no phantoms, every cycle is found, nobody waits for nothing |
| InnoDB latches, `innobase/sync` | lock word, waiters flag, wait array; counts of an rw-lock | spin, reserve a cell, wait, signal; s-lock, x-lock, pass | the flag, the event and the lock word are separate | mutual exclusion, no lost wake-up, every sleep ends |
| Query cache, `sql/sql_cache.cc`, with InnoDB's permission callback | query and table blocks, their lists, writers, block locks | look up, register, fill, end, invalidate, evict, reset, resize | a result stored while its table changes, an old read view, memory limit | no stale result, blocks and writers agree, statements end |
| Replication slave, `sql/slave.cc`, `sql/log.cc`, `sql/log_event.cc` | relay log files, `master.info`, `relay-log.info`, coordinates of event and group | I/O thread, SQL thread, rotation, purge, retry | two threads on one file, a crash between the event and the position, a Rotate inside a transaction | no event skipped, none done twice without a crash or a lock wait timeout, positions true, the slave catches up |
| MyISAM key cache, `mysys/mf_keycache.c` | blocks, hash links, LRU chains | read, write, flush, resize | states of a block while its owner sleeps | a reader gets the block it asked for |

How they interact: a COMMIT first passes the global read lock
(`wait_if_global_read_lock`), then runs the two-phase commit; a statement
passes the global read lock in `mysql_lock_tables` before it calls
`thr_multi_lock`; FLUSH bumps `refresh_version` and wakes threads that wait in
either subsystem; DROP and FLUSH abort waits in the table lock manager. A SELECT
asks the query cache before it opens its tables, and a COMMIT invalidates what
the transaction has changed, after InnoDB has committed; InnoDB's answer to the
query cache depends on its table locks and on transaction ids. The SQL thread
of a slave executes through all of these like a connection. The other parts (parser, optimizer, engines' storage formats, protocol, clients,
NDB, bundled libraries) are listed in PROJECT.json with the reason why they are
left out.

## Modules

| module | models |
|---|---|
| `Lists`, `ListLemmas` | unlinking from a list; what it and the operators on sequences do to lists of any length |
| `ThrLock` | `mysys/thr_lock.c` and how statements, cursors and INSERT DELAYED handlers call it |
| `ThrLockProofs` | the invariant of `ThrLock`, one lemma per action, and the theorems |
| `GlobalReadLock` | the global read lock and the waiting part of `close_cached_tables` |
| `AtomicCommit` | abstract: every transaction gets one outcome, which never changes and is what the client is told |
| `TransCommit` | the two-phase commit, rotation, crashes and recovery; implements `AtomicCommit` |
| `TransCommitProofs` | proofs of the safety properties of `TransCommit` and of the refinement |
| `GlobalReadLockProofs` | proofs of all safety properties of `GlobalReadLock` |
| `LockSys` | InnoDB's record locks on one clustered index and the lock on its table |
| `LockSysProofs` | three invariants of `LockSys` (queues, what was read, the waits-for graph), one lemma per action for each, and the theorems |
| `SyncLatch` | InnoDB's mutexes, rw-locks and wait array |
| `SyncLatchProofs` | proofs of the safety properties of `SyncLatch` |
| `QueryCache` | the query cache with InnoDB's permission and MyISAM's table locks |
| `QueryCacheProofs` | the two halves of the invariant of `QueryCache`, one lemma per action, and the theorems |
| `RelayLog` | the replication slave's two threads, the relay log and both info files |
| `RelayLogProofs` | lemmas on the relay log as a value (what is pending in it after an append, a rotation, a purge, a crash); the invariant of `RelayLog`, one lemma per action, and the theorems |
| `MCThrLock`, `MCThrLockPlays`, `MCGlobalReadLock`, `MCTransCommit`, `MCLockSys`, `MCSyncLatch`, `MCQueryCache`, `MCRelayLog` | the instances TLC checks |

A definition marked "mutant" in a comment is not part of the model: it is the
broken variant of the definition after it that the property of the same subject
must detect.

### ThrLock

Every function of `thr_lock.c` works on one THR_LOCK inside `lock->mutex`, so
one call is one action; the calls of `thr_multi_lock` interleave with other
threads. `pc` says where an owner (a statement, a cursor or a delayed handler)
is: `locking`, `waiting`, `locked`, `unlocking`, and `upgrade` and `upgrading`
for the delayed handler. A lock request has one action for each way it can go:
granted, refused, queued as delayed, deadlock with one's own cursor, wait. A
wait ends by a grant or abort (`WaitEnds`), KILL or a timeout. `thr_unlock` is
an operator that computes the next state of the lock, with the three cases of
the code: nothing in use, only reads in use, a write lock still in use.

Abstractions: list pointers are sequences (`Without` unlinks elements); the callbacks `get_status`,
`copy_status` and `update_status` and the statistics are left out; the answer
of `check_status` is a free Boolean. `thr_abort_locks` is called by an owner that
has the table locked for writing (DROP, ALTER, RENAME); the calls of FLUSH TABLES
under LOCK TABLES READ (`sql/sql_base.cc:1477`) and of REPAIR of an InnoDB table
(`sql/sql_table.cc:2077`), whose owner has a weaker lock, are left out. The sort of the lock array is any order
that the comparison `LOCK_CMP` allows. `DelayedAssumption` says how the server
uses TL_WRITE_DELAYED: only a handler thread asks for it, and a handler has one
table open.

### GlobalReadLock

A critical section is one action, except that the test of a wait loop and the
`pthread_cond_wait` after it are two, because the tests read variables that the
other mutex protects. `asleep` is the set of threads inside the condition wait;
a broadcast that the code makes after it has released its mutex is an action of
its own (`signal`). With two FLUSHers the COMMIT of one of them is allowed
under the lock of the other one, as in the code; `QuietUnderReadLock` is about
all other connections.

### TransCommit

A transaction's thread goes `active`, `prepare`, `log`, `sync`, `commit`,
`unlog`, `unlogged`, `done`; a thread whose log file is full, or FLUSH LOGS,
goes through `close` and `open`. The state of a transaction in InnoDB is kept
in the log buffer, the log file and on disk, the Xid event in the file and on
disk; `innodb_flush_log_at_trx_commit` and `sync_binlog` decide what is written
when, the master thread and the operating system may write more at any time.
`Crash("mysqld")` loses the log buffer, `Crash("os")` all that is not on disk.
`StartEngine` is InnoDB's recovery, `RecoverXid` is one round of `ha_recover`,
`StartServer` opens a new binary log.

Abstractions: the mini-transaction of the prepare and its flush are one step,
because a crash between them leaves the state before or the state after; so are
the clearing of the in-use flag and the sync of the closed file. A transaction
whose Xid event is missing is invisible to recovery, so the event stands for the
whole transaction. `Flusher` stands for every rotation that a committing
thread does not do. `innodb_commit_concurrency`, savepoints, XA PREPARE and the
case that a new log file cannot be opened are left out.

### LockSys

`queue` gives each record, supremum and the table its sequence of requests,
`writer` the active transaction whose id a record carries (its implicit lock),
`split` the first key of the right page. The lock system runs inside
`kernel_mutex` and an operation keeps its page latched, so an operation is one
step, the change of the record included; the rounds of a deadlock search are
steps with `kernel` held, and `Release` lets the mutex go after every
`ReleaseInterval` requests. `ReadRecord`, `InsertRecord` and `ModifyRecord` are
the three `lock_clust_rec_*_check_and_lock`/`lock_rec_insert_check_and_lock`
callers; `UndoChange`, `Purge`, `SplitPage` and `MergePages` are what the
B-tree does to the locks.

Abstractions: a `lock_t` is one bitmap over a page, here each record has its
own queue (sharing a `lock_t` never moves a request over a waiting one); the
order of the depth-first search is left open, so that any transaction it could
meet may be the victim; the cut-offs of the search (200 levels, a million
steps) are never reached. A modification follows a locking read of the same
record, as in `row_search_for_mysql`. Secondary indexes, read views,
`innodb_locks_unsafe_for_binlog` and page reorganisation are left out.

### SyncLatch

A mutex is modelled at the grain of its memory accesses, in the build that uses
`os_fast_mutex_trylock`: take the OS mutex, set the word; and on exit reset the
word, unlock, read `waiters`, clear it, signal. `barrier` says whether the reset
of the word orders the read of `waiters` behind it; where it does not, the read
may come early (`ReadEarly`), which is the case the comment in `mutex_exit`
describes. An rw-lock's section under its own mutex is one step. `cell` is the
wait array, `sync_arr_wake_threads_if_sema_free` the second look that the
monitor thread takes every second.

Abstractions: a thread has one cell, so cells are named by threads; the rounds
of spinning and the four retries are one failed and one repeated attempt; the
`_nowait` and `_direct` variants and debug checks are left out.

### QueryCache

`qc` has the query blocks, `queries_blocks` and the lists of the table blocks;
`guard` is `structure_guard_mutex`, and what a thread does under it without
waiting is one step. A SELECT goes through lookup, permission for each table,
registration, reading, packets and end; a change through its engine's locks,
commit or rollback and invalidation, at once or deferred to the commit
(`changed`). Table contents are version numbers: `need` is what a SELECT must
see (what clients were told when it came), `res` what it has read. A SELECT at
READ UNCOMMITTED also reads the rows of running statements; `dirty` is the set of
tables of which a result has such rows. (InnoDB refuses the query cache to
SERIALIZABLE only, `sql/ha_innodb.cc:908`.) A SELECT reads its tables at one
moment. A play says whether a MyISAM table takes concurrent inserts.

Abstractions: blocks have one size and a packet takes one; packing and joining
of results, the bins of free memory, MERGE tables and views, temporary tables,
privileges at a hit, other engines' callbacks, `query_cache_wlock_invalidate`
and DDL are left out.

### RelayLog

A position is a pair of a file and a number of events, in the master's log and
in the relay log alike. `log.files` is the relay log with the slave's own
Format_desc and Rotate entries, `log.flushed` what of the active file has left
the IO_CACHE; `rli.hot` says whether the SQL thread reads the I/O thread's
cache. `LOCK_log` makes an append, a rotation and a read one step each; the
relay log is flushed before `master.info` is written, and the engine commits
before `relay-log.info` is. `Crash` is the death and restart of the server
process: it loses what is in the cache, except for a prefix that the cache may
have written by itself, and both threads go back to their info files.
`RetryTransaction` is a query's deadlock or lock wait timeout: InnoDB rolls back
the transaction for the first and only the query for the second
(`sql/ha_innodb.cc:412-419`); the SQL thread goes back to the group either way,
with OPTION_BEGIN and whatever work is left, which the BEGIN then commits
(`end_active_trans`). `faults.kept` remembers that this has happened. After
`SlaveTransRetries` retries of one transaction the thread stops (`GiveUp`); outside
a transaction the code sets the count to 0 again, so that it never gives up there.

Abstractions: the Rotate that a dump begins with and the real one are the same
event; the master's Format_desc is left out; connecting and `request_dump` are
one step; an event is found and executed in one step, since no other thread's
step between the two matters; `log_space_total` is updated by both threads
without a common lock, so the test of the limit is a free choice.
`relay_log_purge` is 1. CHANGE MASTER, RESET SLAVE, UNTIL, the skip counter,
replication rules, masters older than 5.0, torn or unwritable events and a crash
of the machine are left out.

Assumptions on the master's log: `WholeTransactions` says that a transaction's
BEGIN, statements and COMMIT are in one file without another transaction between
them. `MYSQL_LOG::write` copies the cache of a transaction into the log under
`LOCK_log`, and rotates afterwards; a master that died in the middle of that copy
is not covered. `NoneAssumption`: None is not a position.

## Runs

| run | question | result |
|---|---|---|
| `thrlock_order` | three connections, two tables, one used twice, any textual order | `WaitEndsEventually` holds: sorting excludes deadlock, and `max_write_lock_count` keeps two writers from starving a reader |
| `thrlock_plays` | two plays, in each of which the connections of the other are already killed: concurrent inserts, no-insert and high priority readers, low priority and multi-writer locks, a delayed handler, on one table; or two tables with a cursor, KILL, timeout, DROP, a delayed handler and a multi-writer lock | holders compatible but for the pair of `thrlock_noinsert`, `read_no_write_count` exact, no forgotten reader where no KILL, timeout or DROP breaks a wait off; lists consistent, sleepers stay in their queue |
| `thrlock_noinsert` | a multi-writer lock and a no-insert reader | expected violation of `HoldersCompatible`, what `check_locks` and a comment say: the reader joins |
| `locksys_rows` | a range reader that also inserts, an inserter, an updater on three keys; purge, rollback, split, merge, discard | holders compatible with implicit locks, waiters find them, nobody waits for nothing, no unseen cycle, no phantoms |
| `locksys_waits` | three transactions, two records, the AUTO-INC lock, a timeout, release in chunks | every lock wait ends |
| `sync_latch` | three threads on a mutex, or readers, writers and a page read on an rw-lock, with and without the barrier | exclusion, no lost wake-up where the code claims so, every sleep ends |
| `query_cache` | two readers, a writer, an administrator; InnoDB and MyISAM tables, transactions and rollbacks, three isolation levels, foreign keys, concurrent inserts, a small cache | no stale result but for concurrent inserts, what a read view shows, blocks and writers agree, statements end |
| `relay_log` | a master's log of two files, rotation inside a transaction, two faults out of crash, stop, lost connection, deadlock, lock wait timeout, FLUSH LOGS | nothing skipped, nothing repeated without a crash or a timeout that keeps work, positions true, idle means caught up, the slave catches up |
| `grl_safe` | two FLUSHers, a COMMIT, a definition, a table write, KILL | counters exact, nothing moves under the lock |
| `grl_live` | two FLUSHers, a COMMIT, a definition, KILL | the second step of FLUSH ends, waiters proceed |
| `tc_errors` | write and sync errors, mysqld crashes, weaker settings | type correctness, nothing unlogged is committed, answers last |
| `tc_live` | three transactions, one without XA, rotation by commits and FLUSH LOGS, two machine crashes, full durability settings | InnoDB and the log agree, the last log suffices, same order, refinement of AtomicCommit, COMMIT and FLUSH LOGS end |

Bounds and why they are enough. `ThrLock`: three to four owners on one to three
locks; every pair of types that the code tells apart meets in some run, in
every order of arrival, and `MaxWriteLockCount = 1` makes the turn of the
readers come. `GlobalReadLock`: `MaxFlushes = 2` lets two FLUSHes meet, or one what an
earlier one left. `TransCommit`: three transactions are needed for one to be
recovered, one to reuse its xid and one to commit beside them; two crashes reach
a crash during the recovery from a crash; `MaxFiles` bounds rotations without a
restart, restarts open files of their own. The proofs below have no bounds.
`LockSys`: two operations for each of three transactions let a reader insert into
its own range and a victim come after another victim; three keys leave a gap
between two records; `MaxSplits = 1` gives the index two pages, and a discard or
merge makes it one again. `SyncLatch`: two threads can race and the third is the
one that is forgotten; `MaxDepth = 2` is the first recursive x-lock.
`QueryCache`: each play has the statements that its question needs, `memory = 5`
forces eviction while a second query is filled, two packets give a result a
middle. `RelayLog`: two queries in the transaction, so that the second can fail
with the first one's work open; `MaxSize = 3` puts a rotation into the transaction,
`MaxFaults = 2` a fault into the recovery from a fault; `SlaveTransRetries = 1`
gives up at the second one.

Deadlock checking is off in `grl_safe` (a FLUSH whose writer has missed the
broadcast stops for good, see below), in `locksys_rows` and `locksys_waits`
(clients end), in `query_cache` (clients stop sending) and in `relay_log` (a
slave that has caught up idles).

Fairness. ThrLock: weak fairness of what a running statement does next; a
statement that holds its locks ends. GlobalReadLock: strong fairness, because
the mutex is handed to whoever waits for it again and again, and the client
that holds the lock eventually unlocks. TransCommit: strong fairness of each
thread's next step, for the same reason with `LOCK_log` and
`prepare_commit_mutex`. LockSys: weak fairness of threads inside InnoDB, and a
client that is not waiting ends its transaction. SyncLatch: weak fairness of each
thread's own steps, of the i/o thread and of the monitor's look at the array; a
thread that takes an x-lock recursively does not do so for ever. QueryCache: as
long as any thread can go on inside a statement, one does; the statements are
bounded, so all of them end or all are stuck. RelayLog: weak fairness of both threads; who stops the slave starts it
again. No run assumes that a client sends a statement, that a
KILL comes, or that a crash does not.

## Disagreements with the code's own words

Each of these is a behaviour of the code that one of its comments, assertions or
functions rules out. The first is the run `thrlock_noinsert` and a finding in
PROJECT.json. For the others there is a configuration with the one property that
the words state and the code violates; TLC prints the steps.

| configuration | module | property violated |
|---|---|---|
| `ThrLock_noinsert.cfg` | `MCThrLock` | `HoldersCompatible` |
| `ThrLock_kill.cfg` | `MCThrLock` | `NobodyForgotten` |
| `ThrLock_stale.cfg` | `MCThrLock` | `GetsWhatItAsked` |
| `TransCommit_stuck.cfg` | `MCTransCommit` | `CommitEnds` |
| `TransCommit_syncfail.cfg` | `MCTransCommit` | `EngineMatchesBinlog` |
| `GlobalReadLock_refresh.cfg` | `MCGlobalReadLock` | `FlushEnds` |
| `GlobalReadLock_two.cfg` | `MCGlobalReadLock` | `CommitAllowed` |
| `QueryCache_concurrent.cfg` | `MCQueryCache` | `EveryResultFresh` |
| `QueryCache_dirty.cfg` | `MCQueryCache` | `NothingUncommitted` |
| `QueryCache_cascade.cfg` | `MCQueryCache` | `SameAsView` |
| `RelayLog_timeout.cfg` | `MCRelayLog` | `RetriedFromScratch` |
| `RelayLog_intvar.cfg` | `MCRelayLog` | `IntvarWithQuery` |

* `ThrLock_noinsert.cfg`: the comment before the test of a read request
  (`mysys/thr_lock.c:443`) says that a no-insert reader cannot join a
  TL_WRITE_ALLOW_WRITE lock, and `check_locks` (233-246) calls the pair wrong; the
  test names TL_WRITE_ALLOW_READ in that place, so it can. The tests of write
  requests name TL_WRITE_ALLOW_WRITE: the pair is excluded in one order of arrival
  and allowed in the other. `HoldersExclude`, which `thrlock_plays` checks and
  `ThrLockProofs` proves, is about all other pairs.
* `TransCommit_stuck.cfg`: `innobase_xa_prepare` locks `prepare_commit_mutex`; when
  `TC_LOG_BINLOG::log` then fails, `innobase_rollback` (`sql/ha_innodb.cc:1968`)
  clears `active_trans` and does not unlock it (only `innobase_commit` does,
  1570-1573), so every later COMMIT waits for ever. The comment at 7126-7138 says
  that the mutex is released on commit and that "we don't want to block for
  undefined period of time".
* `TransCommit_syncfail.cfg`: if the sync fails after the Xid event was written, InnoDB rolls
  back what the log has, and `ha_commit_trans` returns 1, "transaction was rolled
  back" (`sql/handler.cc:744`).
* `ThrLock_kill.cfg`: a writer that is killed or times out while it waits leaves the
  queue and wakes nobody; readers that only it held back go on waiting although
  only readers use the table, a state that `check_locks` calls wrong. A writer that
  `thr_abort_locks_for_thread` throws out leaves the same behind.
* `ThrLock_stale.cfg`: after a failed `thr_multi_lock` the untried elements keep
  `data->type`, and `store_lock` sets a type only over TL_UNLOCK: the next
  statement can run under a weaker lock than it asked for.
* `GlobalReadLock_refresh.cfg`: `wait_if_global_read_lock` tests `refresh_version` under the wrong
  mutex; the broadcast of FLUSH can come between test and wait, and writer and
  FLUSH wait for each other for ever. The comment at `sql/lock.cc:797-800` speaks
  of "a moment".
* `GlobalReadLock_two.cfg`: `unlock_global_read_lock` broadcasts only when the last holder leaves; a
  COMMIT that only the second step of the first one blocked sleeps on while the
  other waits for tables in its first step. The comment at `sql/lock.cc:854-857`
  says "we must allow COMMIT until all tables are closed", or else three threads
  can deadlock. (`WaitersProceed` holds: the COMMIT goes on when the last one
  unlocks. Row locks, which close the circle of the comment, are not modelled.)
* `QueryCache_concurrent.cfg`: the invalidation (`sql/sql_insert.cc:538`) comes before
  `mi_update_status` makes the row of a concurrent insert visible; a SELECT in
  between stores a result that nothing removes (`sql/sql_cache.cc:110`: "this
  queries will be removed from cache").
* `QueryCache_dirty.cfg`: InnoDB refuses the cache only to SERIALIZABLE; what a READ
  UNCOMMITTED SELECT has stored is sent to a connection that reads committed rows,
  while the change is not committed. The comment at `sql/ha_innodb.cc:827-828`
  says that the cache is then disabled for the table.
* `QueryCache_cascade.cfg`: a table changed by a foreign key inside a transaction is
  invalidated after InnoDB's commit (`sql/handler.cc:856`,
  `sql/sql_cache.cc:1263`); a transaction that begins in between gets the old
  result. The comment at `sql/ha_innodb.cc:835-837` says "immediately". If that
  transaction is rolled back nothing is invalidated, and rows that never were
  committed stay in the cache when a READ UNCOMMITTED SELECT has stored them.
* `RelayLog_timeout.cfg`: after a lock wait timeout the slave goes back to BEGIN with
  the earlier statements' work open; the BEGIN commits it and it is done again.
  The comment at `sql/slave.cc:3136-3139` says that the transaction "has been
  rolled back", which was so before 5.0.13.
* `RelayLog_intvar.cfg`: the relay log's own Format_desc after an Intvar moves the
  group coordinates past it; a stop or a retry before the query then executes the
  query without its Intvar. The comment at `sql/slave.h:192-201` makes both one
  group.

Others appear when the constants of a run are changed; no words of the code are
against them:

* TransCommit with `Crashes = {"mysqld", "os"}` violates `EngineMatchesBinlog`:
  recovery commits on the word of an event that is only in the page cache and
  never syncs that file.
* QueryCache with a query over two tables and `memory = 2` violates `ListsExact`:
  `register_all_tables` (`sql/sql_cache.cc:2108-2113`) does not unlink what it has
  linked when a later table finds no memory.
* RelayLog: a crash between the deletion of relay log files in `purge_first_log`
  and the write of `relay-log.info` leaves that file naming a deleted log, and
  the slave does not start (`io.pc = "broken"`); the properties are stated with
  this exception.

## Proofs

`TransCommitProofs!TypeCorrect` proves `Spec => []TypeOK` for every value of the
constants, write errors and both kinds of crashes included. The hard part of
`TypeOK` is `prepared_xids \in Nat`: the counter is lowered in `unlog` without a
test. The inductive invariant `LogInv` says that it is the number of
transactions between their Xid event and their unlog (`CountExact`), that
threads are idle when the server is down, who holds `LOCK_log`, and that none is
counted while a log file is replaced.

The other theorems assume `SafeSettings`: the binary log can be written, and
either only mysqld crashes and `innodb_flush_log_at_trx_commit` is not 0, or only
the machine crashes and both settings are 1. (With both kinds of crashes the
second disagreement above applies.) Under it these are proved for any number of
transactions, crashes and log files: `EngineMatchesBinlog`,
`OnlyLastLogMatters`, `NothingUnlogged`, `CommitIsDurable`, `SameOrder`, and that
`TransCommit` implements `AtomicCommit`. The invariant `AtomicInv` adds to
`LogInv`:

* `Stored`: nothing that counts is lost in a crash, except the Xid event of a
  transaction that is being synced;
* `Files`: events are only in files that exist, and the last one is in use;
* `XidsDiffer`: a xid that can still be looked up belongs to one transaction,
  although `query_id` starts again at 1; this is why only the last file may be
  searched;
* `Fate`: what InnoDB and the log have of a transaction, from where its thread
  is, and what a crash may leave;
* `NoErrors`, `Answered`, `Ordered`: rollbacks, answers to clients and
  `prepare_commit_mutex`.

Each conjunct has a lemma with one step per action; `CrashLoses` and
`RecoveryDecides` carry the argument (a crash leaves the outcome decided;
`ha_recover` finds a transaction's own event or none). For the refinement,
`WouldCommit`, "a crash now would end with this transaction committed", never
becomes false again.

`GlobalReadLockProofs` proves `TypeOK`, `CountersExact` and `QuietUnderReadLock`
for any finite set of connections of each kind and any number of FLUSH
statements. That the threads are finitely many is the only assumption beyond the
kinds being disjoint: the counters are cardinalities. `ReadLockInv` adds to the
properties where the threads of each kind can be and what
`thd->global_read_lock` is there (`Places`, `LockState`), the versions of open
tables (`Versions`), that whoever writes while a FLUSH waits for tables is among
those it waits for (`WritersAreOld`), that afterwards nobody writes
(`WritersAreGone`) and nobody is protected (`NobodyProtected`).
`QuietUnderReadLock` is not inductive without them: it holds because no writer
starts between the two steps of the lock.

`SyncLatchProofs` proves `LatchesExact`, `MutexNoLostWakeup` and
`RwNoLostWakeup` for any finite number of threads, any mutexes and rw-locks, any
requests, with and without the memory barrier (without it `MutexNoLostWakeup`
says nothing, see the runs). `RwNoLostWakeup` compares a sleeper with its own
attempt: nobody sleeps on an rw-lock that would be given to it now, unless a
signal is under way; the owner of a reservation (`WAIT_EX`) is waiting for the
last reader only, everybody else for the lock to be free. `LatchInv` consists of `Places`, the owner of the
OS mutex and the lock word from where the threads are (`Owners`, `Words`), the
rw-lock's fields from its holders (`Counted`, `Exclusive`), what a cell is
reserved for (`Cells`), `Unread`, and `MutexWaits`, which follows a waiter from
the moment it has set the waiters field: the window between its last attempt and
its sleep is the one the property is about.

`ThrLockProofs` proves `TypeOK`, `HoldersExclude`, `NoInsertCountExact` and
`WaitersQueued` for any set of tables, open instances, connections, cursors,
delayed handlers, killable threads and statements, and any
`max_write_lock_count`; the assumptions are those named in `ThrLock`. `ThrInv`
has two halves.

* `LockOK`, about one THR_LOCK: its four lists share nothing (`Lists`), the list
  a data is on shows in its type and its wait flag (`Roles`), `Counted`, and what
  is in use agrees (`WritersAgree`, `ReadersAgree`). The code tests new requests
  against the *first* write lock only; that this is enough needs `Ordered`: among
  the write locks of one owner the first excludes at least what the later ones
  do.
* `OwnerInv`, about one statement: which elements of its array are on a list
  (`Array`, `Placed`), that only the element it called `thr_lock` for last can be
  in a queue (`QueuedLast`), that an untried element comes after the stronger
  ones on the same table (`Sorted`, from the second half of `LOCK_CMP`; with it
  an append keeps `Ordered`), and `Asleep`. The delayed handlers are the
  exception everywhere, since `thr_lock` returns to them while they are queued;
  `DelayedTypes` limits what their locks can be.

`thr_unlock` unlinks a data, may free the readers, may count them again and may
grant writers, all in one step. `LockOK` is therefore a predicate of a triple of
lock, types and flags, and each of these parts is shown to keep it and to change
nobody's list but by a grant (`Passed`). For the owners a step is not about, a
grant, an abort or a mark as TL_WRITE_ONLY is all that can happen to their data
(`OtherOwner`). What `Without`, `free_all_read_locks` and `Batch` do to a list of
any length is proved by induction over a set of numbers (`NatSetInduction`), one
for each definition. TLC has checked `ThrInv` on two instances.

`RelayLogProofs` proves `TypeOK`, `AppliedInOrder`, `PositionsTrue` and
`IdleMeansCaughtUp` for any master's log with whole transactions, any
`max_relay_log_size` and any number of faults, crashes included. All is said in
terms of one function, `Pending`: the entries after the group's coordinates
without those the relay log writes for itself. `RelayInv` has the parts

* `Coordinates`, `Io`: where the coordinates point, and what each place in the
  threads' code implies for the info files and the cache;
* `Relayed`: what precedes `mi` in the master's log is committed or pending, and
  so is what precedes `minfo` wherever a crash may cut the relay log (`NoGap`,
  `Supported`); an incomplete transaction at the end is one that the I/O thread
  is inside of (`Anchored`); only a Rotate changes the file (`SameFile`,
  `InFile`, `EndsIn`, `GoesOn`), and none does inside a transaction
  (`RotateInside`). The last ones are needed since `exec_event` sets `log_pos`
  without the log's name;
* `Executed`: what the SQL thread has read beyond the group is in its open
  transaction or committed, and it has passed no COMMIT; a BEGIN that it has passed
  is the one of its open transaction (`Opened`), unless a retry has gone back over
  open work;
* `InOrder`, and without a crash or such a retry `Once`: the order of pending entries is the
  master's, they come after all that is committed, transactions are separate;
* `Latest`: the last thing read is the position, or pending, or ignored, or part
  of an incomplete transaction.

The lemmas of the module's first half mention no variable: a step
appends to `Pending`, cuts off its end (`CutOff`, a crash) or drops its beginning
(`Dropped`, the group's coordinates move). TLC has checked `RelayInv` as an
invariant on the instance of `relay_log`.

`QueryCacheProofs` proves `WriterOwnsBlock`, `ListsExact`, `NoStaleResult` and
`SameAsView` for any number of readers and writers, queries of any tables of
both engines, isolation levels and transactions, any size of the cache, resets
and resizes. The constants' assumptions are that queries and tables are finitely
many (memory is counted in blocks) and that None is neither a block nor a view.
Two conditions on the plays exclude what the list of disagreements above says
about the code; every play of the run meets them.

* `Whole`, for all four: a registration does not fail half way, since each query
  has one table or there is memory for everything. (`register_all_tables` does
  not undo what it has linked.) With one table per query the cache may be as
  small as it likes, with evictions, refused registrations and results that
  outgrow it.
* `NoDeferral`, for `SameAsView`: no foreign key changes a table inside a
  transaction, or no SELECT is in one.

Concurrent inserts and READ UNCOMMITTED are covered: `NoStaleResult` excepts the
tables that take concurrent inserts, and no others of the same query;
`SameAsView` says that a transaction never gets uncommitted rows from the cache.

`BlockInv`, the first part, says who works on a block: the writer that is
registering or filling it, with the block's lock or `net->query_cache_query`;
the readers it is being sent to (`Held`); whoever holds
`structure_guard_mutex`, from where it is (`Guarded`); and that the lists hold
what is there (`Linked`). An eviction takes only complete results that nobody
reads, so it disturbs none of this (`EvictedOK`).

`FreshInv` says why results are fresh.

* `Enough(v, t)`: version `v` of a table has what clients know, and each
  writer's own last change unless that writer is still to free the queries of the
  table (`Inval`).
* `Cleaned`: while a writer has a table locked whose invalidation is behind it,
  no query of the table is in the cache or has the permission to get there
  (`Concerned`). The usual invalidation comes *before* the commit; InnoDB's lock,
  or MyISAM's, outlives it and keeps new queries out. A deferred one comes after
  the commit, and `Inval` covers the time in between.
* `Will`: what a SELECT that is allowed to store its query is going to read. It
  is `Enough` from the permission to the last packet, because a view that InnoDB
  has permitted is the last state (`ViewOK`) and MyISAM's tables are locked
  (`TablesHeld`); `EntryFresh` takes it over when the result is complete.

`ViewInv` replaces "enough" by "the same": unless an invalidation of the table
is under way, what is stored or will be is what is committed (`ReaderCurrent`,
`EntryCurrent`). InnoDB refuses when a lock is held, so a permitted reader needs
to know that an invalidation under way means a lock (`Undeferred`); this is what a
deferred one breaks. The lemmas have one form: a SELECT's step leaves the others
alone and goes on with what it was going to store (`Inside`), a writer's leaves
SELECTs and blocks alone (`Outside`). TLC has checked both parts on the instance
of `query_cache`, and `FreshInv` with two writers.

`LockSysProofs` proves `TypeOK`, `HoldersCompatible`, `ImplicitIsExplicit`,
`NoForgottenWaiters`, `RepeatableReads` and `NoUnseenDeadlock` for any keys,
any finite set of transactions with any plan of reads, inserts, changes and
AUTO-INC locks, any number of page splits and any interval of `Release`. There
are three invariants, each proved from the one before.

* `LockInv`, about the queues. Compatible holders are not enough to carry on
  with: a request further back may be granted past one that waits. `Ordered`
  says that what is granted is compatible with everything *ahead* of it, waiting
  or not, and `Held` that what waits has something ahead to wait for; a grant
  looks ahead only, so the two keep each other. The exception is gap locks,
  which wait for nobody and may be inherited behind a waiter (`Real`).
  `ImplicitIsExplicit` covers the locks that are in no queue, `RowsOK` ties
  undo logs to the records they will take back, and `SleepOK` excepts the
  transaction that holds `kernel_mutex` for its deadlock search: it waits in a
  queue already and does not sleep yet. A purge moves a whole queue, and a merge
  or a discard several; what `Grants` and inheritance do to a queue of any length
  is proved by induction over a set of numbers, as for `ThrLock`.
* `ReadInv`, about what was read: a record that a transaction has read is locked
  by it, and a key that was in a gap it has read is covered by a gap lock on the
  record that *now* follows the key (`Follows`). Insert, purge, split, merge and
  discard change which record that is; each must hand the lock on to the new
  one. `RepeatableReads` follows, since an insert asks the record after it.
* `GraphInv`, about the waits-for graph: no set of waiting transactions in which
  each waits for another one of the set (`Acyclic`), except through the one that
  is searching. A grant, a release or a cancelled wait only removes edges, and an
  inherited gap lock goes behind whoever waits (`Within`); only a request that
  joins a queue adds edges, and it starts the search. `ReachedClosed` and
  `ReachedCircle` say that a search which finds nothing to close has seen
  everything that could lead back to its start.

TLC has checked `LockInv`, `ReadInv` and `GraphInv` on the instances of both
runs.

Only model-checked: all liveness properties (fairness and ENABLED are outside
the prover); `NoForgottenWaiters` of ThrLock, which a KILL or a timeout breaks
(see above) and which is therefore stated of tables whose users are neither killed nor time out;
and the properties of `tc_errors` other than `TypeOK` when the log can fail.

## What is left out, and the plan

Not modelled: see the components in PROJECT.json, each with its reason. The tree
holds far more than the parts above (optimizer, parser, NDB Cluster, storage
formats, clients, bundled libraries); most of it is sequential computation over
unbounded data or byte-level I/O.

Next, in this order:

1. `XaStates`: the XA statements and `ha_recover` for foreign xids.
2. Composition of `GlobalReadLock` and `TransCommit`: no Xid event is written
   while a FLUSH TABLES WITH READ LOCK is held.
