----------------------------- MODULE QueryCache -----------------------------
(***************************************************************************)
(* The query cache (sql/sql_cache.cc): results are registered before the   *)
(* query runs, filled packet by packet while it sends its rows, completed  *)
(* at its end, and removed when a table changes; together with the part of *)
(* InnoDB that says when a result may be stored or used (row0sel.c,        *)
(* lock0lock.c) and the table locks of MyISAM.                             *)
(*                                                                         *)
(* structure_guard_mutex is the variable guard; what a thread does under   *)
(* it without waiting is one step.  A query block carries its own lock.    *)
(***************************************************************************)
EXTENDS Naturals, Sequences, SequencesExt, FiniteSets, Lists

CONSTANTS
    Reader, Writer, Admin,  \* connections
    Query, Table,
    Myisam,      \* the tables of MyISAM; the others are InnoDB's
    Plays,       \* how the connections work and how much, and the size of the cache
    NPackets,    \* packets of a result
    None

Client == Reader \cup Writer \cup {Admin}
Play == [mode : [Reader \cup Writer -> {"auto", "trans"}],  \* autocommit or BEGIN
         isolation : [Reader -> {"RU", "RC", "RR"}],  \* InnoDB refuses SERIALIZABLE the cache
         tables : [Query -> Seq(Table)],  \* of each query that is used
         left : [Client -> Nat],       \* bound on the statements of a connection
         memory : Nat,                 \* blocks of the cache
         cascade : BOOLEAN,            \* are there foreign keys with ON DELETE CASCADE
         concurrent : BOOLEAN]         \* concurrent inserts into MyISAM tables

ASSUME QueryCacheAssumption ==
    /\ IsFiniteSet(Client) /\ Reader \cap Writer = {} /\ Admin \notin Reader \cup Writer
    /\ IsFiniteSet(Query) /\ IsFiniteSet(Table)
    /\ None \notin Client \cup Query \cup Table
    /\ Myisam \subseteq Table
    /\ \A p \in Plays : p \in Play
    /\ NPackets \in Nat \ {0}

VARIABLES
    play,    \* one of Plays
    qc,      \* entry: the query blocks; lru: queries_blocks; tbl: the lists of the table blocks
    size,    \* query_cache_size > 0
    guard,   \* who has structure_guard_mutex
    net,     \* net->query_cache_query
    pc, query, todo, safe, n,  \* where a connection is: query, tables to ask for, safe_to_cache_query, packets sent
    res,     \* the versions of the tables a SELECT has read
    dirty,   \* the tables whose uncommitted rows it has read, at READ UNCOMMITTED
    need,    \* what a SELECT must see: the versions acknowledged when it came
    ver, acked,  \* committed version of a table, the last one a client was told of
    locks,   \* InnoDB: who has an IX lock
    inv,     \* active transactions with an id below table->query_cache_inv_trx_id
    active, view,  \* has a connection an InnoDB transaction, its read view
    tl,      \* MyISAM table locks: readers and the writer
    target, changed, mine, \* a writer: tables to invalidate, transaction.changed_tables, its own versions
    left     \* statements a connection may still send

cache  == <<play, qc, size, guard, net>>
thd    == <<query, todo, safe, n, res, dirty, need>>
engine == <<ver, acked, locks, inv, active, view, tl>>
writer == <<target, changed, mine>>
vars   == <<cache, pc, thd, engine, writer, left>>

Block == [st : {"new", "begin", "result"}, writer : Reader \cup {None}, lock : Client \cup {None},
          readers : SUBSET Reader, pkts : 0 .. NPackets,
          data : [Table -> Nat], dirty : SUBSET Table]
NoVersions == [t \in Table |-> 0]

ASSUME NoneAssumption == None \notin Block /\ None \notin [Table -> Nat]

Init ==
    /\ play \in Plays
    /\ qc = [entry |-> [q \in Query |-> None], lru |-> <<>>, tbl |-> [t \in Table |-> {}]]
    /\ size = TRUE /\ guard = None /\ net = [c \in Client |-> None]
    /\ pc = [c \in Client |-> "idle"] /\ query = [r \in Reader |-> None]
    /\ todo = [r \in Reader |-> <<>>] /\ safe = [r \in Reader |-> TRUE] /\ n = [r \in Reader |-> 0]
    /\ res = [r \in Reader |-> NoVersions] /\ dirty = [r \in Reader |-> {}]
    /\ need = [r \in Reader |-> NoVersions]
    /\ ver = NoVersions /\ acked = NoVersions
    /\ locks = [t \in Table |-> {}] /\ inv = [t \in Table |-> {}]
    /\ active = [c \in Client |-> FALSE] /\ view = [r \in Reader |-> None]
    /\ tl = [t \in Table |-> [readers |-> {}, writer |-> None]]
    /\ target = [w \in Writer |-> {}] /\ changed = [w \in Writer |-> {}]
    /\ mine = [w \in Writer |-> NoVersions]
    /\ left = play.left

(* a connection that is idle keeps nothing of its last SELECT *)
EndSelect(r) ==
    /\ query' = [query EXCEPT ![r] = None] /\ need' = [need EXCEPT ![r] = NoVersions]
    /\ res' = [res EXCEPT ![r] = NoVersions] /\ dirty' = [dirty EXCEPT ![r] = {}]
    /\ n' = [n EXCEPT ![r] = 0] /\ safe' = [safe EXCEPT ![r] = TRUE]
    /\ todo' = [todo EXCEPT ![r] = <<>>]
    /\ pc' = [pc EXCEPT ![r] = "idle"]

Goto(c, l) == pc' = [pc EXCEPT ![c] = l]
TablesOf(q) == ToSet(play.tables[q])

-----------------------------------------------------------------------------
(* Blocks *)

State(q) == IF qc.entry[q] = None THEN "absent" ELSE qc.entry[q].st

InUse(x) == x.lock # None \/ x.readers # {}

(* mutant: the query stays in the lists of its tables *)
FreeQueryLinked(c, q) ==
    [entry |-> [c.entry EXCEPT ![q] = None], lru |-> Without(c.lru, {q}), tbl |-> c.tbl]

free_query(c, q) ==
    [entry |-> [c.entry EXCEPT ![q] = None],
     lru   |-> Without(c.lru, {q}),
     tbl   |-> [t \in Table |-> c.tbl[t] \ {q}]]

(* mutant: the connection that writes the result is not told *)
ForgetNobody(q) == UNCHANGED net

(* free_query tells the connection that writes the result *)
ForgetWriter(q) ==
    net' = [c \in Client |-> IF c = qc.entry[q].writer THEN None ELSE net[c]]

Blocks(c) ==
    Cardinality({q \in Query : c.entry[q] # None}) + Cardinality({t \in Table : c.tbl[t] # {}})
    + Cardinality({p \in Query \X (1 .. NPackets) : c.entry[p[1]] # None /\ p[2] <= c.entry[p[1]].pkts})

(* the oldest complete result nobody uses *)
free_old_query(c) ==
    LET old == {i \in DOMAIN c.lru : c.entry[c.lru[i]].st = "result" /\ ~InUse(c.entry[c.lru[i]])}
    IN  {free_query(c, c.lru[i]) : i \in {j \in old : \A k \in old : j <= k}}

(* one more block, if there can be one *)
allocate_block(c) == IF Blocks(c) < play.memory THEN {c} ELSE free_old_query(c)

insert_table(s, q, t) ==
    IF ~s.ok THEN s
    ELSE IF s.qc.tbl[t] = {} /\ allocate_block(s.qc) = {} THEN [s EXCEPT !.ok = FALSE]
    ELSE LET c == IF s.qc.tbl[t] # {} THEN s.qc ELSE CHOOSE d \in allocate_block(s.qc) : TRUE
         IN  [s EXCEPT !.qc = [c EXCEPT !.tbl[t] = @ \cup {q}]]

register_all_tables(c, q) ==
    LET used == play.tables[q]
        after[i \in 0 .. Len(used)] ==
          IF i = 0 THEN [qc |-> c, ok |-> TRUE] ELSE insert_table(after[i - 1], q, used[i])
    IN  after[Len(used)]

-----------------------------------------------------------------------------
(* InnoDB: row_search_check_if_query_cache_permitted *)

(* mutant: query_cache_inv_trx_id is not compared *)
PermittedUnlocked(r, t) == locks[t] = {}

Permitted(r, t) == locks[t] = {} /\ r \notin inv[t]

EndTrx(r) ==
    /\ active' = [active EXCEPT ![r] = FALSE] /\ view' = [view EXCEPT ![r] = None]
    /\ inv' = [t \in Table |-> inv[t] \ {r}]

ViewOf(r) == IF view[r] = None THEN ver ELSE view[r]

(* A transaction begins, with a read view where the isolation level has one *)
Ask(r, t) ==
    /\ active' = [active EXCEPT ![r] = TRUE]
    /\ view' = [view EXCEPT ![r] = IF Permitted(r, t) /\ play.isolation[r] = "RR" THEN ViewOf(r) ELSE @]
    /\ UNCHANGED <<ver, acked, locks, inv, tl>>

InnodbTables(q) == Without(play.tables[q], Myisam)

-----------------------------------------------------------------------------
(* A SELECT: send_result_to_client *)

Select(r, q) ==
    /\ pc[r] = "idle" /\ left[r] > 0 /\ play.tables[q] # <<>>
    /\ left' = [left EXCEPT ![r] = @ - 1]
    /\ query' = [query EXCEPT ![r] = q] /\ need' = [need EXCEPT ![r] = acked]
    /\ Goto(r, "lookup")
    /\ UNCHANGED <<cache, todo, safe, n, res, dirty, engine, writer>>

LookupMiss(r) ==
    /\ pc[r] = "lookup"
    /\ \/ ~size
       \/ guard = None /\ State(query[r]) # "result"
    /\ Goto(r, "open")
    /\ UNCHANGED <<cache, thd, engine, writer, left>>

(* mutant: nor is InnoDB asked in a transaction *)
FoundUnasked(r) ==
    /\ pc[r] = "lookup" /\ size /\ guard = None
    /\ State(query[r]) = "result" /\ qc.entry[query[r]].lock = None
    /\ guard' = r
    /\ qc' = [qc EXCEPT !.entry[query[r]].readers = @ \cup {r}]
    /\ Goto(r, "ask_hit")
    /\ UNCHANGED <<play, size, net, thd, engine, writer, left>>

(* InnoDB lets an autocommit SELECT have the result without a look *)
Found(r) ==
    /\ pc[r] = "lookup" /\ size /\ guard = None
    /\ State(query[r]) = "result" /\ qc.entry[query[r]].lock = None
    /\ guard' = r
    /\ qc' = [qc EXCEPT !.entry[query[r]].readers = @ \cup {r}]
    /\ todo' = [todo EXCEPT ![r] = IF play.mode[r] = "auto" THEN <<>> ELSE InnodbTables(query[r])]
    /\ Goto(r, "ask_hit")
    /\ UNCHANGED <<play, size, net, query, safe, n, res, dirty, need, engine, writer, left>>

(* mutant: the block stays locked for reading when InnoDB refuses *)
AskHitKeepsLock(r) ==
    /\ pc[r] = "ask_hit" /\ todo[r] # <<>>
    /\ Ask(r, Head(todo[r]))
    /\ IF Permitted(r, Head(todo[r]))
         THEN todo' = [todo EXCEPT ![r] = Tail(@)] /\ UNCHANGED <<pc, guard, safe>>
         ELSE /\ safe' = [safe EXCEPT ![r] = FALSE]
              /\ guard' = None /\ Goto(r, "open")
              /\ UNCHANGED todo
    /\ UNCHANGED <<play, qc, size, net, query, n, res, dirty, need, writer, left>>

AskHit(r) ==
    /\ pc[r] = "ask_hit" /\ todo[r] # <<>>
    /\ Ask(r, Head(todo[r]))
    /\ IF Permitted(r, Head(todo[r]))
         THEN todo' = [todo EXCEPT ![r] = Tail(@)] /\ UNCHANGED <<pc, qc, guard, safe>>
         ELSE /\ safe' = [safe EXCEPT ![r] = FALSE]
              /\ qc' = [qc EXCEPT !.entry[query[r]].readers = @ \ {r}]
              /\ guard' = None /\ Goto(r, "open")
              /\ UNCHANGED todo
    /\ UNCHANGED <<play, size, net, query, n, res, dirty, need, writer, left>>

Hit(r) ==
    /\ pc[r] = "ask_hit" /\ todo[r] = <<>>
    /\ qc' = [qc EXCEPT !.lru = Append(Without(@, {query[r]}), query[r])]
    /\ guard' = None
    /\ Goto(r, "sending")
    /\ UNCHANGED <<play, size, net, thd, engine, writer, left>>

Sent(r) ==
    /\ pc[r] = "sending"
    /\ qc' = [qc EXCEPT !.entry[query[r]].readers = @ \ {r}]
    /\ EndSelect(r)
    /\ UNCHANGED <<play, size, guard, net, engine, writer, left>>

-----------------------------------------------------------------------------
(* The SELECT runs: open_and_lock_tables, store_query *)

(* a MyISAM table is seen as it is when its lock is granted (mi_get_status) *)
Open(r) ==
    LET my == TablesOf(query[r]) \cap Myisam IN
    /\ pc[r] = "open"
    /\ \A t \in my : tl[t].writer = None \/ play.concurrent
    /\ tl' = [t \in Table |-> IF t \in my THEN [tl[t] EXCEPT !.readers = @ \cup {r}] ELSE tl[t]]
    /\ res' = [res EXCEPT ![r] = ver]
    /\ Goto(r, "store")
    /\ UNCHANGED <<cache, query, todo, safe, n, dirty, need, ver, acked, locks, inv, active, view, writer, left>>

StoreNot(r) ==
    /\ pc[r] = "store" /\ (~size \/ ~safe[r])
    /\ Goto(r, "read")
    /\ UNCHANGED <<cache, thd, engine, writer, left>>

StoreEnter(r) ==
    /\ pc[r] = "store" /\ safe[r] /\ size /\ guard = None
    /\ guard' = r
    /\ todo' = [todo EXCEPT ![r] = InnodbTables(query[r])]
    /\ Goto(r, "ask_store")
    /\ UNCHANGED <<play, qc, size, net, query, safe, n, res, dirty, need, engine, writer, left>>

ask_handler_allowance(r) ==
    /\ pc[r] = "ask_store" /\ todo[r] # <<>>
    /\ Ask(r, Head(todo[r]))
    /\ IF Permitted(r, Head(todo[r]))
         THEN todo' = [todo EXCEPT ![r] = Tail(@)] /\ UNCHANGED <<pc, guard, safe>>
         ELSE /\ safe' = [safe EXCEPT ![r] = FALSE]
              /\ guard' = None /\ Goto(r, "read")
              /\ UNCHANGED todo
    /\ UNCHANGED <<play, qc, size, net, query, n, res, dirty, need, writer, left>>

NewBlock(r) ==
    [st |-> "new", writer |-> None, lock |-> r, readers |-> {}, pkts |-> 0,
     data |-> NoVersions, dirty |-> {}]

(* the query block is registered with its lock set for writing *)
Register(r) ==
    LET q == query[r] IN
    /\ pc[r] = "ask_store" /\ todo[r] = <<>>
    /\ guard' = None
    /\ IF qc.entry[q] # None \/ allocate_block(qc) = {}
         THEN Goto(r, "read") /\ UNCHANGED qc
         ELSE \E c \in allocate_block(qc) :
              LET s == register_all_tables([c EXCEPT !.entry[q] = NewBlock(r)], q)
              IN  IF s.ok
                    THEN qc' = [s.qc EXCEPT !.lru = Append(@, q)] /\ Goto(r, "publish")
                    ELSE qc' = [s.qc EXCEPT !.entry[q] = None] /\ Goto(r, "read")
    /\ UNCHANGED <<play, size, net, thd, engine, writer, left>>

(* after structure_guard_mutex is released *)
Publish(r) ==
    /\ pc[r] = "publish"
    /\ net' = [net EXCEPT ![r] = query[r]]
    /\ qc' = [qc EXCEPT !.entry[query[r]].writer = r, !.entry[query[r]].lock = None]
    /\ Goto(r, "read")
    /\ UNCHANGED <<play, size, guard, thd, engine, writer, left>>

(* A read of InnoDB's tables: a consistent one, or, at READ UNCOMMITTED, of *)
(* the rows as they are, those of a running transaction among them.         *)
Read(r) ==
    LET db  == {t \in TablesOf(query[r]) : t \notin Myisam}
        now == IF play.isolation[r] = "RR" THEN ViewOf(r) ELSE ver
    IN /\ pc[r] = "read"
       /\ res' = [res EXCEPT ![r] = [t \in Table |-> IF t \in db THEN now[t] ELSE @[t]]]
       /\ dirty' = [dirty EXCEPT ![r] = IF play.isolation[r] = "RU" THEN {t \in db : locks[t] # {}} ELSE {}]
       /\ active' = [active EXCEPT ![r] = @ \/ db # {}]
       /\ view' = [view EXCEPT ![r] = IF db # {} /\ play.isolation[r] = "RR" THEN now ELSE @]
       /\ Goto(r, "packet")
       /\ UNCHANGED <<cache, query, todo, safe, n, need, ver, acked, locks, inv, tl, writer, left>>

-----------------------------------------------------------------------------
(* The result is sent: query_cache_insert, query_cache_end_of_result *)

(* the packet goes to the client only *)
InsertNot(r) ==
    /\ pc[r] = "packet" /\ n[r] < NPackets /\ net[r] = None
    /\ n' = [n EXCEPT ![r] = @ + 1]
    /\ UNCHANGED <<cache, pc, query, todo, safe, res, dirty, need, engine, writer, left>>

query_cache_insert(r) ==
    /\ pc[r] = "packet" /\ n[r] < NPackets /\ net[r] # None /\ guard = None
    /\ \E c \in allocate_block(qc) :
         LET b == c.entry[net[r]] IN
         qc' = [c EXCEPT !.entry[net[r]] =
                  [b EXCEPT !.st = "begin", !.lock = r, !.pkts = b.pkts + 1, !.data = res[r], !.dirty = dirty[r]]]
    /\ Goto(r, "copy")
    /\ UNCHANGED <<play, size, guard, net, thd, engine, writer, left>>

(* no memory, or more than query_cache_limit *)
InsertFails(r) ==
    /\ pc[r] = "packet" /\ n[r] < NPackets /\ net[r] # None /\ guard = None
    /\ qc' = free_query(qc, net[r]) /\ ForgetWriter(net[r])
    /\ n' = [n EXCEPT ![r] = @ + 1]
    /\ UNCHANGED <<play, size, guard, pc, query, todo, safe, res, dirty, need, engine, writer, left>>

(* the data is copied without structure_guard_mutex *)
Copied(r) ==
    /\ pc[r] = "copy"
    /\ qc' = [qc EXCEPT !.entry[net[r]].lock = None]
    /\ n' = [n EXCEPT ![r] = @ + 1]
    /\ Goto(r, "packet")
    /\ UNCHANGED <<play, size, guard, net, query, todo, safe, res, dirty, need, engine, writer, left>>

query_cache_end_of_result(r) ==
    /\ pc[r] = "packet" /\ n[r] = NPackets
    /\ IF net[r] = None THEN Goto(r, "finish") /\ UNCHANGED qc
       ELSE /\ guard = None
            /\ qc' = [qc EXCEPT !.entry[net[r]].lock = r]
            /\ Goto(r, "complete")
    /\ UNCHANGED <<play, size, guard, net, thd, engine, writer, left>>

Complete(r) ==
    /\ pc[r] = "complete"
    /\ qc' = [qc EXCEPT !.entry[net[r]] = [@ EXCEPT !.st = "result", !.writer = None, !.lock = None]]
    /\ Goto(r, "clear")
    /\ UNCHANGED <<play, size, guard, net, thd, engine, writer, left>>

ClearNet(r) ==
    /\ pc[r] = "clear"
    /\ net' = [net EXCEPT ![r] = None]
    /\ Goto(r, "finish")
    /\ UNCHANGED <<play, qc, size, guard, thd, engine, writer, left>>

(* the SELECT ends with an error *)
query_cache_abort(r) ==
    /\ pc[r] = "packet"
    /\ IF net[r] = None THEN UNCHANGED <<qc, net>>
       ELSE guard = None /\ qc' = free_query(qc, net[r]) /\ net' = [net EXCEPT ![r] = None]
    /\ Goto(r, "finish")
    /\ UNCHANGED <<play, size, guard, thd, engine, writer, left>>

(* table locks may go before the last packet does (mysql_unlock_read_tables); *)
(* with them goes the transaction of an autocommit SELECT                     *)
UnlockTables(r) ==
    /\ pc[r] \in {"packet", "copy", "complete", "clear"}
    /\ tl' = [t \in Table |-> [tl[t] EXCEPT !.readers = @ \ {r}]]
    /\ IF play.mode[r] = "auto" THEN EndTrx(r) ELSE UNCHANGED <<active, view, inv>>
    /\ <<tl', active'>> # <<tl, active>>
    /\ UNCHANGED <<cache, pc, thd, ver, acked, locks, writer, left>>

Finish(r) ==
    /\ pc[r] = "finish"
    /\ tl' = [t \in Table |-> [tl[t] EXCEPT !.readers = @ \ {r}]]
    /\ IF play.mode[r] = "auto" THEN EndTrx(r) ELSE UNCHANGED <<active, view, inv>>
    /\ EndSelect(r)
    /\ UNCHANGED <<cache, ver, acked, locks, writer, left>>

(* COMMIT of a transaction that only read *)
CommitReads(r) ==
    /\ pc[r] = "idle" /\ active[r]
    /\ EndTrx(r)
    /\ UNCHANGED <<cache, pc, thd, ver, acked, locks, tl, writer, left>>

-----------------------------------------------------------------------------
(* A statement changes a table, or a foreign key changes it on the way *)

Deferred(w, how) == how = "cascade" /\ play.mode[w] = "trans"

(* The tables whose queries go: at once by Query_cache::invalidate, or, for *)
(* a change by foreign key inside a transaction, when it has committed.     *)
Modify(w, t, how) ==
    /\ pc[w] \in {"idle", "begun"} /\ left[w] > 0
    /\ how = "cascade" => play.cascade /\ t \notin Myisam
    /\ IF t \in Myisam
         THEN /\ tl[t].writer = None /\ (tl[t].readers = {} \/ play.concurrent)
              /\ tl' = [tl EXCEPT ![t].writer = w]
              /\ UNCHANGED <<locks, active>>
         ELSE /\ locks' = [locks EXCEPT ![t] = @ \cup {w}] /\ active' = [active EXCEPT ![w] = TRUE]
              /\ UNCHANGED tl
    /\ left' = [left EXCEPT ![w] = @ - 1]
    /\ target' = [target EXCEPT ![w] = {t}]
    /\ Goto(w, IF Deferred(w, how) THEN "defer" ELSE "check")
    /\ UNCHANGED <<cache, thd, ver, acked, inv, view, changed, mine>>

Defer(w) ==
    /\ pc[w] = "defer"
    /\ changed' = [changed EXCEPT ![w] = IF size THEN @ \cup target[w] ELSE @]
    /\ Goto(w, "begun")
    /\ UNCHANGED <<cache, thd, engine, target, mine, left>>

(* what follows the invalidation *)
AfterInvalidate(w) ==
    IF \E t \in Myisam : tl[t].writer = w THEN "unlock"
    ELSE IF ~active[w] THEN "ack"
    ELSE IF play.mode[w] = "auto" THEN "commit" ELSE "begun"

(* query_cache_size is read without the mutex *)
InvalidateNot(w) ==
    /\ pc[w] = "check" /\ ~size
    /\ Goto(w, AfterInvalidate(w))
    /\ UNCHANGED <<cache, thd, engine, writer, left>>

InvalidateEnter(w) ==
    /\ pc[w] = "check" /\ size /\ guard = None
    /\ guard' = w
    /\ Goto(w, "free")
    /\ UNCHANGED <<play, qc, size, net, thd, engine, writer, left>>

Registered(T) == UNION {qc.tbl[t] : t \in T}

(* each block is locked before it is freed, with the mutex held *)
invalidate_table(w) ==
    /\ pc[w] = "free"
    /\ \E q \in Registered(target[w]) :
         /\ ~InUse(qc.entry[q])
         /\ qc' = free_query(qc, q) /\ ForgetWriter(q)
    /\ UNCHANGED <<play, size, guard, pc, thd, engine, writer, left>>

InvalidateDone(w) ==
    /\ pc[w] = "free" /\ Registered(target[w]) = {}
    /\ guard' = None
    /\ Goto(w, AfterInvalidate(w))
    /\ UNCHANGED <<play, qc, size, net, thd, engine, writer, left>>

(* lock_release_off_kernel: the running transactions may not use the cache, *)
(* unless the transaction has nothing to undo, as after its rollback        *)
ReleaseLocks(w, undo) ==
    /\ locks' = [t \in Table |-> locks[t] \ {w}]
    /\ inv' = [t \in Table |-> IF undo /\ w \in locks[t] THEN {c \in Client : active[c]} \ {w} ELSE inv[t] \ {w}]
    /\ active' = [active EXCEPT ![w] = FALSE]

(* ha_commit_one_phase: the engine first, then the tables changed by foreign keys *)
Commit(w) ==
    LET next == [t \in Table |-> IF w \in locks[t] THEN ver[t] + 1 ELSE ver[t]] IN
    /\ pc[w] \in {"commit", "begun"}
    /\ ver' = next
    /\ mine' = [mine EXCEPT ![w] = [t \in Table |-> IF w \in locks[t] THEN next[t] ELSE @[t]]]
    /\ ReleaseLocks(w, TRUE)
    /\ target' = [target EXCEPT ![w] = changed[w]] /\ changed' = [changed EXCEPT ![w] = {}]
    /\ Goto(w, IF changed[w] # {} THEN "check" ELSE "ack")
    /\ UNCHANGED <<cache, thd, acked, view, tl, left>>

Rollback(w) ==
    /\ pc[w] = "begun"
    /\ ReleaseLocks(w, FALSE)
    /\ changed' = [changed EXCEPT ![w] = {}]
    /\ Goto(w, "idle")
    /\ UNCHANGED <<cache, thd, ver, acked, view, tl, target, mine, left>>

(* thr_unlock with mi_update_status: the rows are there for everybody *)
UnlockMyisam(w) ==
    LET my(t) == tl[t].writer = w IN
    /\ pc[w] = "unlock"
    /\ ver' = [t \in Table |-> IF my(t) THEN ver[t] + 1 ELSE ver[t]]
    /\ mine' = [mine EXCEPT ![w] = [t \in Table |-> IF my(t) THEN ver[t] + 1 ELSE @[t]]]
    /\ tl' = [t \in Table |-> IF my(t) THEN [tl[t] EXCEPT !.writer = None] ELSE tl[t]]
    /\ Goto(w, "ack")
    /\ UNCHANGED <<cache, thd, acked, locks, inv, active, view, target, changed, left>>

(* the client gets its answer *)
Answer(w) ==
    /\ pc[w] = "ack"
    /\ acked' = [t \in Table |-> IF mine[w][t] > acked[t] THEN mine[w][t] ELSE acked[t]]
    /\ Goto(w, IF active[w] THEN "begun" ELSE "idle")
    /\ UNCHANGED <<cache, thd, ver, locks, inv, active, view, tl, writer, left>>

-----------------------------------------------------------------------------
(* RESET QUERY CACHE, SET GLOBAL query_cache_size *)

Flush ==
    /\ pc[Admin] = "idle" /\ left[Admin] > 0 /\ guard = None
    /\ left' = [left EXCEPT ![Admin] = @ - 1]
    /\ guard' = Admin
    /\ pc' \in {[pc EXCEPT ![Admin] = "reset"], [pc EXCEPT ![Admin] = "resize"]}
    /\ UNCHANGED <<play, qc, size, net, thd, engine, writer>>

flush_cache ==
    /\ pc[Admin] \in {"reset", "resize"} /\ qc.lru # <<>>
    /\ ~InUse(qc.entry[Head(qc.lru)])
    /\ qc' = free_query(qc, Head(qc.lru)) /\ ForgetWriter(Head(qc.lru))
    /\ UNCHANGED <<play, size, guard, pc, thd, engine, writer, left>>

FlushDone ==
    /\ pc[Admin] = "reset" /\ qc.lru = <<>>
    /\ guard' = None
    /\ Goto(Admin, "idle")
    /\ UNCHANGED <<play, qc, size, net, thd, engine, writer, left>>

free_cache ==
    /\ pc[Admin] = "resize" /\ qc.lru = <<>>
    /\ size' = FALSE
    /\ Goto(Admin, "init")
    /\ UNCHANGED <<play, qc, guard, net, thd, engine, writer, left>>

init_cache ==
    /\ pc[Admin] = "init"
    /\ size' \in BOOLEAN
    /\ guard' = None
    /\ Goto(Admin, "idle")
    /\ UNCHANGED <<play, qc, net, thd, engine, writer, left>>

-----------------------------------------------------------------------------
SelectStep(r) ==
    \/ LookupMiss(r) \/ Found(r) \/ AskHit(r) \/ Hit(r) \/ Sent(r)
    \/ Open(r) \/ StoreNot(r) \/ StoreEnter(r) \/ ask_handler_allowance(r) \/ Register(r) \/ Publish(r)
    \/ Read(r) \/ InsertNot(r) \/ query_cache_insert(r) \/ InsertFails(r) \/ Copied(r)
    \/ query_cache_end_of_result(r) \/ Complete(r) \/ ClearNet(r) \/ query_cache_abort(r) \/ Finish(r)

WriteStep(w) ==
    \/ Defer(w) \/ InvalidateNot(w) \/ InvalidateEnter(w) \/ invalidate_table(w) \/ InvalidateDone(w)
    \/ pc[w] = "commit" /\ Commit(w)
    \/ UnlockMyisam(w) \/ Answer(w)

AdminStep == flush_cache \/ FlushDone \/ free_cache \/ init_cache

Next ==
    \/ \E r \in Reader : SelectStep(r) \/ UnlockTables(r) \/ CommitReads(r) \/ \E q \in Query : Select(r, q)
    \/ \E w \in Writer :
         \/ WriteStep(w) \/ Rollback(w)
         \/ pc[w] = "begun" /\ Commit(w)
         \/ \E t \in UNION {TablesOf(q) : q \in Query}, how \in {"direct", "cascade"} : Modify(w, t, how)
    \/ AdminStep \/ Flush

Spec == Init /\ [][Next]_vars

Step == AdminStep \/ (\E r \in Reader : SelectStep(r)) \/ (\E w \in Writer : WriteStep(w))

(* A thread that can run runs, and clients take what they are sent; nobody *)
(* has to send a statement.                                                *)
FairSpec == Spec /\ WF_vars(Step)

-----------------------------------------------------------------------------
(* Properties *)

TypeOK ==
    /\ qc.entry \in [Query -> Block \cup {None}] /\ qc.tbl \in [Table -> SUBSET Query]
    /\ ToSet(qc.lru) \subseteq Query
    /\ size \in BOOLEAN /\ guard \in Client \cup {None} /\ net \in [Client -> Query \cup {None}]
    /\ todo \in [Reader -> Seq(Table)] /\ safe \in [Reader -> BOOLEAN] /\ n \in [Reader -> 0 .. NPackets]
    /\ {ver, acked} \subseteq [Table -> Nat] /\ view \in [Reader -> [Table -> Nat] \cup {None}]
    /\ locks \in [Table -> SUBSET Writer] /\ inv \in [Table -> SUBSET Client]
    /\ Blocks(qc) <= play.memory

(* a MyISAM table that takes concurrent inserts *)
Concurrent(t) == t \in Myisam /\ play.concurrent

(* The result a SELECT gets from the cache is complete and has every change *)
(* of its tables that a client had been told of when the SELECT came, where *)
(* no concurrent insert can be under way.                                   *)
NoStaleResult ==
    \A r \in Reader : pc[r] = "sending" =>
        LET b == qc.entry[query[r]] IN
        /\ b # None /\ b.st = "result" /\ b.pkts = NPackets
        /\ \A t \in TablesOf(query[r]) : Concurrent(t) \/ need[r][t] <= b.data[t]

(* In a transaction a SELECT gets from the cache what its own read view    *)
(* would show, and at no isolation level rows that were not committed when *)
(* the result was stored.                                                  *)
SameAsView ==
    \A r \in Reader : pc[r] = "sending" /\ play.mode[r] = "trans" =>
        LET b == qc.entry[query[r]] IN
        \A t \in TablesOf(query[r]) \ Myisam :
            t \notin b.dirty /\ (view[r] # None => b.data[t] = view[r][t])

(* What sql_cache.cc:110 says, "when table will be changed                  *)
(* (insert/delete/...) this queries will be removed from cache": no table   *)
(* of a result has a change that was acknowledged before the SELECT came    *)
(* and that the result does not have.                                       *)
EveryResultFresh ==
    \A r \in Reader : pc[r] = "sending" =>
        \A t \in TablesOf(query[r]) : need[r][t] <= qc.entry[query[r]].data[t]

(* What ha_innodb.cc:828 says, "the use of the query cache for TBL is       *)
(* disabled when there is an uncommitted change to TBL": a connection that  *)
(* reads committed rows only gets no others from the cache.                 *)
NothingUncommitted ==
    \A r \in Reader : pc[r] = "sending" /\ play.isolation[r] # "RU" => qc.entry[query[r]].dirty = {}

(* net->query_cache_query is the block its connection writes, or null; a   *)
(* block that is freed is forgotten by its writer (free_query).            *)
WriterOwnsBlock ==
    \A r \in Reader :
        /\ net[r] # None /\ pc[r] # "clear" =>
             net[r] = query[r] /\ qc.entry[net[r]] # None /\ qc.entry[net[r]].writer = r
        /\ \A q \in Query : qc.entry[q] # None /\ qc.entry[q].writer = r => net[r] = q

(* Table blocks list exactly the queries that use them, and every query in *)
(* the cache is in queries_blocks once.  With the types.                   *)
ListsExact ==
    /\ TypeOK
    /\ \A t \in Table : qc.tbl[t] = {q \in Query : qc.entry[q] # None /\ t \in TablesOf(q)}
    /\ ToSet(qc.lru) = {q \in Query : qc.entry[q] # None} /\ IsInjective(qc.lru)

(* All statements end: nobody waits for ever for the mutex or a block,     *)
(* while connections may send a bounded number of statements only.         *)
StatementsEnd == <>[](\A c \in Client : pc[c] \in {"idle", "begun"})
=============================================================================
