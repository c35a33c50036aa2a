-------------------------- MODULE QueryCacheProofs --------------------------
(***************************************************************************)
(* Proofs about the query cache, for any number of connections, queries    *)
(* and tables, any statements and any size of the cache.                   *)
(*                                                                         *)
(* The first part of the invariant says who works on a block and with what *)
(* right; the second one, why what is in a block is not older than what    *)
(* any client has been told.                                               *)
(***************************************************************************)
EXTENDS QueryCache, ListLemmas

(* A registration cannot fail half way: no query uses two tables, or there *)
(* is memory for everything.  (register_all_tables does not undo what it   *)
(* has linked.)                                                            *)
OneTable(p) ==
    \A q \in Query : \A i, j \in DOMAIN p.tables[q] : p.tables[q][i] = p.tables[q][j]
Roomy(p) ==
    p.memory >= Cardinality(Query) + Cardinality(Table) + Cardinality(Query \X (1 .. NPackets))
Whole == \A p \in Plays : OneTable(p) \/ Roomy(p)

-----------------------------------------------------------------------------
(* Who works on a block *)

ReaderPlace == {"idle", "lookup", "ask_hit", "sending", "open", "store", "ask_store", "publish",
                "read", "packet", "copy", "complete", "clear", "finish"}
WriterPlace == {"idle", "begun", "defer", "check", "free", "unlock", "commit", "ack"}
AdminPlace  == {"idle", "reset", "resize", "init"}

Versions == [Table -> Nat]
Caches   == [entry : [Query -> Block \cup {None}], lru : Seq(Query), tbl : [Table -> SUBSET Query]]

TypedCache ==
    /\ play \in Plays /\ qc \in Caches /\ size \in BOOLEAN
    /\ guard \in Client \cup {None} /\ net \in [Client -> Query \cup {None}]
TypedThreads ==
    /\ pc \in [Client -> ReaderPlace \cup WriterPlace \cup AdminPlace]
    /\ \A r \in Reader : pc[r] \in ReaderPlace
    /\ \A w \in Writer : pc[w] \in WriterPlace
    /\ pc[Admin] \in AdminPlace
    /\ query \in [Reader -> Query \cup {None}] /\ todo \in [Reader -> Seq(Table)]
    /\ safe \in [Reader -> BOOLEAN] /\ n \in [Reader -> 0 .. NPackets]
    /\ res \in [Reader -> Versions] /\ dirty \in [Reader -> SUBSET Table] /\ need \in [Reader -> Versions]
TypedEngine ==
    /\ ver \in Versions /\ acked \in Versions
    /\ locks \in [Table -> SUBSET Writer] /\ inv \in [Table -> SUBSET Client]
    /\ active \in [Client -> BOOLEAN] /\ view \in [Reader -> Versions \cup {None}]
    /\ tl \in [Table -> [readers : SUBSET Reader, writer : Writer \cup {None}]]
TypedWriters ==
    /\ target \in [Writer -> SUBSET Table] /\ changed \in [Writer -> SUBSET Table]
    /\ mine \in [Writer -> Versions] /\ left \in [Client -> Nat]
Typed == TypedCache /\ TypedThreads /\ TypedEngine /\ TypedWriters

Present(c) == {q \in Query : c.entry[q] # None}
Tabled(c)  == {t \in Table : c.tbl[t] # {}}
Packets(c) == {p \in Query \X (1 .. NPackets) : c.entry[p[1]] # None /\ p[2] <= c.entry[p[1]].pkts}

(* the lists of the tables and of all queries hold what is there; a query  *)
(* in X is being registered, and linked to the tables in D so far          *)
Linked(c, X, D) ==
    /\ \A t \in Table : c.tbl[t] = {q \in Present(c) : IF q \in X THEN t \in D ELSE t \in TablesOf(q)}
    /\ ToSet(c.lru) = Present(c) \ X /\ Distinct(c.lru)

Busy(r) == pc[r] \in {"read", "packet", "copy", "complete"}
Writes(r, q) == query[r] = q /\ (pc[r] = "publish" \/ (net[r] = q /\ Busy(r)))
Reads(r, q)  == query[r] = q /\ pc[r] \in {"ask_hit", "sending"}

(* the block as its writer left it *)
WriterBlock(r, b) ==
    /\ b # None /\ b.st # "result" /\ b.readers = {}
    /\ b.writer = IF pc[r] = "publish" THEN None ELSE r
    /\ b.lock = IF pc[r] \in {"publish", "copy", "complete"} THEN r ELSE None
    /\ b.pkts = IF pc[r] = "copy" THEN n[r] + 1 ELSE n[r]
    /\ b.pkts > 0 => b.data = res[r] /\ b.dirty = dirty[r]

ReaderBlock(r, b) == b # None /\ b.st = "result" /\ r \in b.readers

(* everybody finds the block it works on *)
Held(c) ==
    \A r \in Reader, q \in Query :
        /\ Writes(r, q) => WriterBlock(r, c.entry[q])
        /\ Reads(r, q) => ReaderBlock(r, c.entry[q])

(* a block is complete, or somebody works on it *)
EntryOK(c, q) ==
    c.entry[q] # None =>
      IF c.entry[q].st = "result"
        THEN /\ c.entry[q].writer = None /\ c.entry[q].lock = None
             /\ c.entry[q].pkts = NPackets
             /\ \A r \in c.entry[q].readers : Reads(r, q)
        ELSE \E r \in Reader : Writes(r, q)

CacheOK(c, X, D) ==
    /\ c \in Caches /\ Linked(c, X, D) /\ Blocks(c) <= play.memory
    /\ Held(c) /\ \A q \in Query \ X : EntryOK(c, q)

ReaderInv(r) ==
    /\ pc[r] = "idle" \/ query[r] \in Query
    /\ net[r] # None => net[r] = query[r] /\ (Busy(r) \/ pc[r] = "clear")
    /\ pc[r] \in {"copy", "complete"} => net[r] # None
    /\ pc[r] = "copy" => n[r] < NPackets
    /\ pc[r] = "complete" => n[r] = NPackets
    /\ pc[r] \in {"lookup", "ask_hit", "publish", "read", "ask_store", "store", "open"} => n[r] = 0
    /\ pc[r] = "idle" => n[r] = 0
    /\ pc[r] \in {"ask_hit", "ask_store"} <=> guard = r

(* who has the mutex, and what is there without a cache *)
Guarded ==
    /\ \A w \in Writer : pc[w] = "free" <=> guard = w
    /\ pc[Admin] \in {"reset", "resize", "init"} <=> guard = Admin
    /\ guard \in Reader \cup Writer => size
    /\ pc[Admin] = "init" => ~size
    /\ ~size => Present(qc) = {}

BlockInv ==
    /\ Typed /\ Guarded /\ CacheOK(qc, {}, {})
    /\ \A r \in Reader : ReaderInv(r)

-----------------------------------------------------------------------------
(* Why a result is fresh *)

(* w will free the queries of t before its client gets an answer *)
Inval(w, t) == pc[w] \in {"check", "free"} /\ t \in target[w]
(* or it will do so once it has committed *)
Pending(w, t) == t \in changed[w] \/ (pc[w] \in {"check", "free", "defer"} /\ t \in target[w])

(* InnoDB has allowed r to store its query, as far as t is concerned *)
Asked(r, t) ==
    pc[r] = "ask_store" /\ t \in TablesOf(query[r]) \ Myisam /\ t \notin ToSet(todo[r])

(* a query of t is in the cache, or may be put there *)
Concerned(t) == (\E q \in Present(qc) : t \in TablesOf(q)) \/ \E r \in Reader : Asked(r, t)

(* w changes t, without a concurrent insert, and has freed the queries of t *)
Purges(w, t) == ~Concurrent(t) /\ (w \in locks[t] \/ tl[t].writer = w) /\ ~Pending(w, t)

Cleaned == \A t \in Table, w \in Writer : Purges(w, t) => ~Concerned(t)

SharedOK ==
    \A t \in Table : acked[t] <= ver[t] /\ (tl[t].writer # None => Concurrent(t) \/ tl[t].readers = {})

WriterInv(w) ==
    /\ \A t \in Table : w \in locks[t] => active[w] /\ t \notin Myisam
    /\ \A t \in Table : tl[t].writer = w =>
         /\ t \in Myisam /\ pc[w] \in {"check", "free", "unlock"}
         /\ pc[w] \in {"check", "free"} => t \in target[w]
    /\ changed[w] \cap Myisam = {}
    /\ pc[w] = "defer" => target[w] \cap Myisam = {}
    /\ \A t \in Table : mine[w][t] <= ver[t]

(* v has what clients know of t, or what they do not know will go first; *)
(* after a concurrent insert nothing is known of v                       *)
Enough(v, t) == Concurrent(t) \/ (acked[t] <= v /\ \A w \in Writer : mine[w][t] <= v \/ Inval(w, t))

(* what r reads, or has read, of t *)
Will(r, t) ==
    IF t \in Myisam \/ pc[r] \in {"packet", "copy", "complete"} THEN res[r][t]
    ELSE IF play.isolation[r] = "RR" /\ view[r] # None THEN view[r][t] ELSE ver[t]

(* MyISAM's tables do not change while they are locked for reading *)
TablesHeld(r) ==
    \A t \in Myisam : pc[r] \in {"store", "ask_store", "publish", "read"} /\ t \in TablesOf(query[r]) =>
        Concurrent(t) \/ (r \in tl[t].readers /\ res[r][t] = ver[t])

(* a read view is not older than InnoDB says it is *)
ViewOK(r) ==
    view[r] # None =>
        /\ active[r]
        /\ \A t \in Table \ Myisam : view[r][t] <= ver[t] /\ (r \notin inv[t] => view[r][t] = ver[t])

KnownOK(r) == \A t \in Table : res[r][t] <= ver[t] /\ need[r][t] <= acked[t]

(* r may store what it reads of t *)
Wants(r, t) == Asked(r, t) \/ (Writes(r, query[r]) /\ t \in TablesOf(query[r]))

FreshWriter(r) == \A t \in Table : Wants(r, t) => Enough(Will(r, t), t)

FreshReader(r) ==
    \A q \in Query : Reads(r, q) => \A t \in TablesOf(q) : Concurrent(t) \/ need[r][t] <= qc.entry[q].data[t]

ReaderFresh(r) == TablesHeld(r) /\ ViewOK(r) /\ KnownOK(r) /\ FreshWriter(r) /\ FreshReader(r)

EntryFresh(q) ==
    qc.entry[q] # None =>
        /\ \A t \in Table : qc.entry[q].data[t] <= ver[t]
        /\ qc.entry[q].st = "result" => \A t \in TablesOf(q) : Enough(qc.entry[q].data[t], t)

FreshInv ==
    /\ Cleaned /\ SharedOK
    /\ \A w \in Writer : WriterInv(w)
    /\ \A r \in Reader : ReaderFresh(r)
    /\ \A q \in Query : EntryFresh(q)

-----------------------------------------------------------------------------
(* Why it is the same as the read view *)

(* no foreign key changes a table inside a transaction, or no SELECT is in one *)
NoDeferral ==
    \A p \in Plays : \/ ~p.cascade
                     \/ \A w \in Writer : p.mode[w] = "auto"
                     \/ \A r \in Reader : p.mode[r] = "auto"

(* nobody frees the queries of t: what was stored is what is committed *)
Still(t) == \A w \in Writer : ~Inval(w, t)

(* some SELECT is in a transaction *)
Mixed == \E r \in Reader : play.mode[r] = "trans"

(* r has read rows of t that were not committed *)
Tainted(r, t) == pc[r] \in {"packet", "copy", "complete"} /\ t \in dirty[r]

ReaderCurrent(r) ==
    \A t \in Table \ Myisam : Still(t) /\ Wants(r, t) =>
        Will(r, t) = ver[t] /\ (Mixed => ~Tainted(r, t))

EntryCurrent(q) ==
    qc.entry[q] # None /\ qc.entry[q].st = "result" =>
        \A t \in TablesOf(q) \ Myisam : Still(t) =>
            qc.entry[q].data[t] = ver[t] /\ (Mixed => t \notin qc.entry[q].dirty)

(* a change is invalidated while InnoDB's lock is held, not after the commit *)
Undeferred(w) ==
    Mixed =>
        /\ changed[w] = {} /\ pc[w] # "defer"
        /\ \A t \in Table \ Myisam : Inval(w, t) => w \in locks[t]

(* the result that r has found, as far as InnoDB has been asked *)
Matches(r) ==
    \A q \in Query : Reads(r, q) /\ play.mode[r] = "trans" =>
        \A t \in TablesOf(q) \ Myisam : pc[r] = "sending" \/ t \notin ToSet(todo[r]) =>
            /\ play.isolation[r] = "RR" => view[r] # None
            /\ view[r] # None => qc.entry[q].data[t] = view[r][t]
            /\ t \notin qc.entry[q].dirty

Repeatable(r) == view[r] # None => play.isolation[r] = "RR"

ViewInv ==
    /\ \A r \in Reader : ReaderCurrent(r) /\ Matches(r) /\ Repeatable(r)
    /\ \A q \in Query : EntryCurrent(q)
    /\ \A w \in Writer : Undeferred(w)

-----------------------------------------------------------------------------
(* How much memory is used *)

(* a set with at most one element more *)
LEMMA OneMore ==
    ASSUME NEW S, NEW T, NEW x, IsFiniteSet(T), S \subseteq T \cup {x}
    PROVE  /\ IsFiniteSet(S) /\ Cardinality(S) \in Nat /\ Cardinality(T) \in Nat
           /\ Cardinality(S) <= Cardinality(T) + 1
           /\ S \subseteq T => Cardinality(S) <= Cardinality(T)
<1>1. IsFiniteSet(T \cup {x}) /\ Cardinality(T \cup {x}) \in {Cardinality(T), Cardinality(T) + 1}
  BY FS_AddElement
<1>2. S \in SUBSET (T \cup {x}) OBVIOUS
<1>3. IsFiniteSet(S) /\ Cardinality(S) <= Cardinality(T \cup {x}) BY <1>1, <1>2, FS_Subset
<1>4. Cardinality(S) \in Nat /\ Cardinality(T) \in Nat BY <1>3, FS_CardinalityType
<1>5. ASSUME S \subseteq T PROVE Cardinality(S) <= Cardinality(T)
  <2>1. S \in SUBSET T BY <1>5
  <2> QED BY <2>1, FS_Subset
<1> QED BY <1>1, <1>3, <1>4, <1>5

(* a set without one of its elements *)
LEMMA OneLess ==
    ASSUME NEW S, NEW T, NEW x, IsFiniteSet(T), x \in T, S \subseteq T \ {x}
    PROVE  Cardinality(S) + 1 <= Cardinality(T)
<1>1. IsFiniteSet(T \ {x}) /\ Cardinality(T \ {x}) = Cardinality(T) - 1 BY FS_RemoveElement
<1>2. S \in SUBSET (T \ {x}) OBVIOUS
<1>3. IsFiniteSet(S) /\ Cardinality(S) <= Cardinality(T \ {x}) BY <1>1, <1>2, FS_Subset
<1>4. Cardinality(S) \in Nat /\ Cardinality(T) \in Nat BY <1>3, FS_CardinalityType
<1> QED BY <1>1, <1>3, <1>4

(* there are finitely many queries, tables and packets *)
LEMMA FinitelyMany ==
    IsFiniteSet(Query) /\ IsFiniteSet(Table) /\ IsFiniteSet(Query \X (1 .. NPackets))
<1>1. IsFiniteSet(Query) /\ IsFiniteSet(Table) /\ NPackets \in Nat BY QueryCacheAssumption DEF QueryCacheAssumption
<1>2. IsFiniteSet(1 .. NPackets) BY <1>1, FS_Interval
<1>3. IsFiniteSet(Query \X (1 .. NPackets)) BY <1>1, <1>2, FS_Product
<1> QED BY <1>1, <1>3

(* the three kinds of blocks *)
LEMMA BlocksAre ==
    ASSUME NEW c
    PROVE  /\ IsFiniteSet(Present(c)) /\ IsFiniteSet(Tabled(c)) /\ IsFiniteSet(Packets(c))
           /\ Cardinality(Present(c)) \in Nat /\ Cardinality(Tabled(c)) \in Nat
           /\ Cardinality(Packets(c)) \in Nat
           /\ Blocks(c) = Cardinality(Present(c)) + Cardinality(Tabled(c)) + Cardinality(Packets(c))
           /\ Blocks(c) \in Nat
<1>1. IsFiniteSet(Query) /\ IsFiniteSet(Table) BY FinitelyMany
<1>3. IsFiniteSet(Query \X (1 .. NPackets)) BY FinitelyMany
<1>4. /\ Present(c) \in SUBSET Query /\ Tabled(c) \in SUBSET Table
      /\ Packets(c) \in SUBSET (Query \X (1 .. NPackets))
  BY DEF Present, Tabled, Packets
<1>5. IsFiniteSet(Present(c)) /\ IsFiniteSet(Tabled(c)) /\ IsFiniteSet(Packets(c))
  BY <1>1, <1>3, <1>4, FS_Subset
<1>6. /\ Cardinality(Present(c)) \in Nat /\ Cardinality(Tabled(c)) \in Nat
      /\ Cardinality(Packets(c)) \in Nat
  BY <1>5, FS_CardinalityType
<1>7. Blocks(c) = Cardinality(Present(c)) + Cardinality(Tabled(c)) + Cardinality(Packets(c))
  BY DEF Blocks, Present, Tabled, Packets
<1> QED BY <1>5, <1>6, <1>7

(* a cache with no more in it *)
LEMMA NoMoreBlocks ==
    ASSUME NEW c, NEW d, Present(d) \subseteq Present(c), Tabled(d) \subseteq Tabled(c),
           Packets(d) \subseteq Packets(c)
    PROVE  Blocks(d) <= Blocks(c)
<1>1. /\ Cardinality(Present(d)) <= Cardinality(Present(c))
      /\ Cardinality(Tabled(d)) <= Cardinality(Tabled(c))
      /\ Cardinality(Packets(d)) <= Cardinality(Packets(c))
  BY BlocksAre, FS_Subset
<1> QED BY <1>1, BlocksAre

(* a cache with one block more *)
LEMMA OneBlockMore ==
    ASSUME NEW c, NEW d, NEW x,
           \/ /\ Present(d) \subseteq Present(c) \cup {x} /\ Tabled(d) \subseteq Tabled(c)
              /\ Packets(d) \subseteq Packets(c)
           \/ /\ Present(d) \subseteq Present(c) /\ Tabled(d) \subseteq Tabled(c) \cup {x}
              /\ Packets(d) \subseteq Packets(c)
           \/ /\ Present(d) \subseteq Present(c) /\ Tabled(d) \subseteq Tabled(c)
              /\ Packets(d) \subseteq Packets(c) \cup {x}
    PROVE  Blocks(d) <= Blocks(c) + 1
<1> DEFINE P == Cardinality(Present(c)) T == Cardinality(Tabled(c)) K == Cardinality(Packets(c))
           p == Cardinality(Present(d)) t == Cardinality(Tabled(d)) k == Cardinality(Packets(d))
<1>1. IsFiniteSet(Present(c)) /\ IsFiniteSet(Tabled(c)) /\ IsFiniteSet(Packets(c)) BY BlocksAre
<1>2. /\ Present(d) \subseteq Present(c) => p <= P
      /\ Tabled(d) \subseteq Tabled(c) => t <= T
      /\ Packets(d) \subseteq Packets(c) => k <= K
  BY <1>1, FS_Subset
<1>3. /\ Present(d) \subseteq Present(c) \cup {x} => p <= P + 1
      /\ Tabled(d) \subseteq Tabled(c) \cup {x} => t <= T + 1
      /\ Packets(d) \subseteq Packets(c) \cup {x} => k <= K + 1
  BY <1>1, OneMore
<1>4. /\ Blocks(c) = P + T + K /\ Blocks(d) = p + t + k
      /\ P \in Nat /\ T \in Nat /\ K \in Nat /\ p \in Nat /\ t \in Nat /\ k \in Nat
  BY BlocksAre
<1> HIDE DEF P, T, K, p, t, k
<1> QED BY <1>2, <1>3, <1>4

(* with room for everything, a table that is not there has room *)
LEMMA RoomForTable ==
    ASSUME NEW c, NEW p, Roomy(p), p.memory \in Nat, NEW t \in Table, c.tbl[t] = {}
    PROVE  Blocks(c) < p.memory
<1>1. IsFiniteSet(Query) /\ IsFiniteSet(Table) BY FinitelyMany
<1>3. IsFiniteSet(Query \X (1 .. NPackets)) BY FinitelyMany
<1>4. /\ Present(c) \in SUBSET Query /\ Tabled(c) \subseteq Table \ {t}
      /\ Packets(c) \in SUBSET (Query \X (1 .. NPackets))
  BY DEF Present, Tabled, Packets
<1>5. Cardinality(Present(c)) <= Cardinality(Query) BY <1>1, <1>4, FS_Subset
<1>6. Cardinality(Packets(c)) <= Cardinality(Query \X (1 .. NPackets)) BY <1>3, <1>4, FS_Subset
<1>7. Cardinality(Tabled(c)) + 1 <= Cardinality(Table) BY <1>1, <1>4, OneLess
<1>8. /\ Cardinality(Query) \in Nat /\ Cardinality(Table) \in Nat
      /\ Cardinality(Query \X (1 .. NPackets)) \in Nat
  BY <1>1, <1>3, FS_CardinalityType
<1> DEFINE Q == Cardinality(Query) T == Cardinality(Table) K == Cardinality(Query \X (1 .. NPackets))
<1>9. p.memory >= Q + T + K BY DEF Roomy
<1>10. /\ Blocks(c) = Cardinality(Present(c)) + Cardinality(Tabled(c)) + Cardinality(Packets(c))
       /\ Cardinality(Present(c)) \in Nat /\ Cardinality(Tabled(c)) \in Nat
       /\ Cardinality(Packets(c)) \in Nat
  BY BlocksAre
<1> HIDE DEF Q, T, K
<1> QED BY <1>5, <1>6, <1>7, <1>8, <1>9, <1>10 DEF Q, T, K

-----------------------------------------------------------------------------
(* The operations on the cache *)

(* how the connections work *)
LEMMA PlayFacts ==
    ASSUME play \in Plays
    PROVE  /\ play \in Play /\ play.memory \in Nat
           /\ \A q \in Query : play.tables[q] \in Seq(Table) /\ TablesOf(q) \subseteq Table
<1>1. play \in Play BY QueryCacheAssumption DEF QueryCacheAssumption
<1>2. play.memory \in Nat /\ \A q \in Query : play.tables[q] \in Seq(Table) BY <1>1 DEF Play
<1> QED BY <1>1, <1>2 DEF TablesOf, ToSet

(* the fields of a cache *)
LEMMA CacheFacts ==
    ASSUME NEW c \in Caches
    PROVE  /\ c.entry \in [Query -> Block \cup {None}] /\ c.lru \in Seq(Query)
           /\ c.tbl \in [Table -> SUBSET Query]
           /\ c = [entry |-> c.entry, lru |-> c.lru, tbl |-> c.tbl]
           /\ \A q \in Present(c) : c.entry[q] \in Block
BY DEF Caches, Present

(* a query leaves all lists *)
LEMMA FreeQueryIs ==
    ASSUME NEW c \in Caches, NEW X, NEW D, Linked(c, X, D), NEW q \in Query, q \notin X, NEW d, d = free_query(c, q)
    PROVE  /\ d \in Caches /\ Linked(d, X, D) /\ Present(d) = Present(c) \ {q}
           /\ d.entry[q] = None /\ \A p \in Query \ {q} : d.entry[p] = c.entry[p]
           /\ Blocks(d) <= Blocks(c) /\ (q \in Present(c) => Blocks(d) < Blocks(c))
<1>1. /\ c.entry \in [Query -> Block \cup {None}] /\ c.lru \in Seq(Query)
      /\ c.tbl \in [Table -> SUBSET Query]
  BY CacheFacts
<1>2. /\ d.entry = [c.entry EXCEPT ![q] = None] /\ d.lru = Without(c.lru, {q})
      /\ d.tbl = [t \in Table |-> c.tbl[t] \ {q}]
      /\ d = [entry |-> d.entry, lru |-> d.lru, tbl |-> d.tbl]
  BY DEF free_query
<1>3. /\ d.entry \in [Query -> Block \cup {None}] /\ d.entry[q] = None
      /\ \A p \in Query \ {q} : d.entry[p] = c.entry[p]
  BY <1>1, <1>2
<1>4. d.lru \in Seq(Query) /\ ToSet(d.lru) = ToSet(c.lru) \ {q} BY <1>1, <1>2, WithoutFacts
<1>5. Distinct(d.lru) BY <1>1, <1>2, WithoutDistinct DEF Linked
<1>6. d.tbl \in [Table -> SUBSET Query] /\ \A t \in Table : d.tbl[t] = c.tbl[t] \ {q} BY <1>1, <1>2
<1>7. d \in Caches
  <2>1. [entry |-> d.entry, lru |-> d.lru, tbl |-> d.tbl] \in Caches BY <1>3, <1>4, <1>6 DEF Caches
  <2> QED BY <2>1, <1>2
<1>8. Present(d) = Present(c) \ {q} BY <1>3 DEF Present
<1>9. Linked(d, X, D)
  <2>1. ASSUME NEW t \in Table
        PROVE  d.tbl[t] = {p \in Present(d) : IF p \in X THEN t \in D ELSE t \in TablesOf(p)}
    <3>1. c.tbl[t] = {p \in Present(c) : IF p \in X THEN t \in D ELSE t \in TablesOf(p)} BY DEF Linked
    <3> QED BY <3>1, <1>6, <1>8
  <2>2. ToSet(d.lru) = Present(d) \ X BY <1>4, <1>8 DEF Linked
  <2> QED BY <2>1, <2>2, <1>5 DEF Linked
<1>10. Tabled(d) \subseteq Tabled(c) BY <1>6 DEF Tabled
<1>11. Packets(d) \subseteq Packets(c) BY <1>3 DEF Packets
<1>12. Blocks(d) <= Blocks(c) BY <1>8, <1>10, <1>11, NoMoreBlocks
<1>13. ASSUME q \in Present(c) PROVE Blocks(d) < Blocks(c)
  <2>1. Cardinality(Present(d)) + 1 <= Cardinality(Present(c)) BY <1>8, <1>13, OneLess, BlocksAre
  <2>2. Cardinality(Tabled(d)) <= Cardinality(Tabled(c)) /\ Cardinality(Packets(d)) <= Cardinality(Packets(c))
    BY <1>10, <1>11, BlocksAre, FS_Subset
  <2> QED BY <2>1, <2>2, BlocksAre
<1> QED BY <1>3, <1>7, <1>8, <1>9, <1>12, <1>13

(* complete results that nobody uses are gone, the rest is the same *)
Idle(b) == b # None /\ b.st = "result" /\ b.readers = {}
Evicted(c, d, X) ==
    \A p \in Query : d.entry[p] = c.entry[p] \/ (p \notin X /\ d.entry[p] = None /\ Idle(c.entry[p]))

(* and that harms nobody *)
LEMMA EvictedOK ==
    ASSUME NEW c, NEW d, NEW X, Evicted(c, d, X), Held(c), \A q \in Query \ X : EntryOK(c, q)
    PROVE  Held(d) /\ \A q \in Query \ X : EntryOK(d, q)
<1>1. ASSUME NEW r \in Reader, NEW q \in Query
      PROVE  /\ Writes(r, q) => WriterBlock(r, d.entry[q])
             /\ Reads(r, q) => ReaderBlock(r, d.entry[q])
  <2>1. d.entry[q] = c.entry[q] \/ Idle(c.entry[q]) BY DEF Evicted
  <2>2. /\ Writes(r, q) => WriterBlock(r, c.entry[q])
        /\ Reads(r, q) => ReaderBlock(r, c.entry[q])
    BY DEF Held
  <2>3. ASSUME Idle(c.entry[q]) PROVE ~Writes(r, q) /\ ~Reads(r, q)
    BY <2>2, <2>3 DEF Idle, WriterBlock, ReaderBlock
  <2> QED BY <2>1, <2>2, <2>3
<1>2. ASSUME NEW q \in Query \ X PROVE EntryOK(d, q)
  <2>1. d.entry[q] = c.entry[q] \/ d.entry[q] = None BY DEF Evicted
  <2> QED BY <2>1 DEF EntryOK
<1> QED BY <1>1, <1>2 DEF Held

(* memory for one more block *)
LEMMA AllocateOK ==
    ASSUME play \in Plays, NEW c, NEW X, NEW D, CacheOK(c, X, D), NEW d \in allocate_block(c)
    PROVE  CacheOK(d, X, D) /\ Evicted(c, d, X) /\ Blocks(d) < play.memory
<1>1. CASE Blocks(c) < play.memory
  <2>1. d = c BY <1>1 DEF allocate_block
  <2> QED BY <1>1, <2>1 DEF Evicted
<1>2. CASE ~(Blocks(c) < play.memory)
  <2>1. PICK i \in DOMAIN c.lru : /\ c.entry[c.lru[i]].st = "result" /\ ~InUse(c.entry[c.lru[i]])
                                  /\ d = free_query(c, c.lru[i])
    BY <1>2 DEF allocate_block, free_old_query
  <2>2. PICK q : q = c.lru[i] OBVIOUS
  <2>3. c \in Caches /\ Linked(c, X, D) /\ Blocks(c) <= play.memory BY DEF CacheOK
  <2>4. q \in Present(c) /\ q \notin X /\ q \in Query BY <2>2, <2>3 DEF Linked, ToSet, Present
  <2>5. Idle(c.entry[q]) BY <2>1, <2>2, <2>4 DEF Idle, InUse, Present
  <2>6. /\ d \in Caches /\ Linked(d, X, D) /\ d.entry[q] = None
        /\ \A p \in Query \ {q} : d.entry[p] = c.entry[p]
        /\ Blocks(d) < Blocks(c)
    BY <2>1, <2>2, <2>3, <2>4, FreeQueryIs
  <2>7. Evicted(c, d, X) BY <2>4, <2>5, <2>6 DEF Evicted
  <2>8. Held(d) /\ \A p \in Query \ X : EntryOK(d, p) BY <2>7, EvictedOK DEF CacheOK
  <2>9. Blocks(d) < play.memory /\ Blocks(d) <= play.memory BY <2>3, <2>6, BlocksAre, PlayFacts
  <2> QED BY <2>6, <2>7, <2>8, <2>9 DEF CacheOK
<1> QED BY <1>1, <1>2

Joined(c, q, t) == [c EXCEPT !.tbl[t] = @ \cup {q}]
Grown(c, d, q, D, t) ==
    /\ d \in Caches /\ Linked(d, {q}, D \cup {t}) /\ d.entry = c.entry
    /\ Held(d) /\ \A p \in Query \ {q} : EntryOK(d, p)
    /\ (c.tbl[t] # {} => Blocks(d) <= Blocks(c)) /\ Blocks(d) <= Blocks(c) + 1

(* a query that is being registered joins the list of a table *)
LEMMA AddTable ==
    ASSUME NEW c, NEW q \in Query, NEW D, CacheOK(c, {q}, D), q \in Present(c), NEW t \in Table,
           NEW d, d = Joined(c, q, t)
    PROVE  Grown(c, d, q, D, t)
<1>1. /\ c \in Caches /\ Linked(c, {q}, D) /\ Held(c) /\ \A p \in Query \ {q} : EntryOK(c, p)
  BY DEF CacheOK
<1>2. /\ c.entry \in [Query -> Block \cup {None}] /\ c.lru \in Seq(Query)
      /\ c.tbl \in [Table -> SUBSET Query] /\ c = [entry |-> c.entry, lru |-> c.lru, tbl |-> c.tbl]
  BY <1>1, CacheFacts
<1>3. d.entry = c.entry /\ d.lru = c.lru /\ d.tbl = [c.tbl EXCEPT ![t] = @ \cup {q}] BY <1>2 DEF Joined
<1>4. /\ d.tbl \in [Table -> SUBSET Query] /\ d.tbl[t] = c.tbl[t] \cup {q}
      /\ \A u \in Table \ {t} : d.tbl[u] = c.tbl[u]
  BY <1>2, <1>3
<1>5. d \in Caches
  <2>1. d = [entry |-> c.entry, lru |-> c.lru, tbl |-> d.tbl] BY <1>2, <1>3 DEF Joined
  <2>2. [entry |-> c.entry, lru |-> c.lru, tbl |-> d.tbl] \in Caches BY <1>2, <1>4 DEF Caches
  <2> QED BY <2>1, <2>2
<1>6. Present(d) = Present(c) BY <1>3 DEF Present
<1>7. Linked(d, {q}, D \cup {t})
  <2>1. ASSUME NEW u \in Table
        PROVE  d.tbl[u] = {p \in Present(d) : IF p \in {q} THEN u \in D \cup {t} ELSE u \in TablesOf(p)}
    <3>1. c.tbl[u] = {p \in Present(c) : IF p \in {q} THEN u \in D ELSE u \in TablesOf(p)} BY <1>1 DEF Linked
    <3>2. CASE u = t BY <3>1, <3>2, <1>4, <1>6
    <3>3. CASE u # t BY <3>1, <3>3, <1>4, <1>6
    <3> QED BY <3>2, <3>3
  <2> QED BY <2>1, <1>1, <1>3, <1>6 DEF Linked
<1>8. Held(d) /\ \A p \in Query \ {q} : EntryOK(d, p) BY <1>1, <1>3 DEF Held, EntryOK
<1>9. Packets(d) = Packets(c) BY <1>3 DEF Packets
<1>10. Tabled(d) \subseteq Tabled(c) \cup {t} /\ (c.tbl[t] # {} => Tabled(d) \subseteq Tabled(c))
  BY <1>4 DEF Tabled
<1>11. Blocks(d) <= Blocks(c) + 1 BY <1>6, <1>9, <1>10, OneBlockMore
<1>12. c.tbl[t] # {} => Blocks(d) <= Blocks(c) BY <1>6, <1>9, <1>10, NoMoreBlocks
<1> QED BY <1>3, <1>5, <1>7, <1>8, <1>11, <1>12 DEF Grown

(* u is what insert_table makes of c: d, with q in the list of t, or a failure *)
Inserted(u, c, d, q, D, t) ==
    /\ \/ u = [qc |-> d, ok |-> TRUE] /\ CacheOK(d, {q}, D \cup {t})
       \/ /\ u = [qc |-> d, ok |-> FALSE] /\ d = c
          /\ c.tbl[t] = {} /\ allocate_block(c) = {}
    /\ Evicted(c, d, {q})

(* insert_table links the query, or leaves the cache as it is *)
LEMMA InsertTableOK ==
    ASSUME play \in Plays, NEW c, NEW q \in Query, NEW D, CacheOK(c, {q}, D), q \in Present(c),
           NEW t \in Table, NEW s, s = [qc |-> c, ok |-> TRUE]
    PROVE  \E d : Inserted(insert_table(s, q, t), c, d, q, D, t)
<1>1. s.ok = TRUE /\ s.qc = c /\ s = [qc |-> s.qc, ok |-> s.ok] OBVIOUS
<1>2. CASE c.tbl[t] = {} /\ allocate_block(c) = {}
  <2>1. insert_table(s, q, t) = [qc |-> c, ok |-> FALSE] BY <1>1, <1>2 DEF insert_table
  <2>2. Evicted(c, c, {q}) BY DEF Evicted
  <2>3. Inserted(insert_table(s, q, t), c, c, q, D, t) BY <2>1, <2>2, <1>2 DEF Inserted
  <2> QED BY <2>3
<1>3. CASE ~(c.tbl[t] = {} /\ allocate_block(c) = {})
  <2>1. PICK e : e = IF c.tbl[t] # {} THEN c ELSE CHOOSE x \in allocate_block(c) : TRUE OBVIOUS
  <2>2. PICK d : d = Joined(e, q, t) OBVIOUS
  <2>3. insert_table(s, q, t) = [qc |-> d, ok |-> TRUE] BY <1>1, <1>3, <2>1, <2>2 DEF insert_table, Joined
  <2>4. CASE c.tbl[t] # {}
    <3>1. e = c BY <2>1, <2>4
    <3>2. /\ d \in Caches /\ Linked(d, {q}, D \cup {t}) /\ d.entry = c.entry
          /\ Held(d) /\ \A p \in Query \ {q} : EntryOK(d, p)
          /\ Blocks(d) <= Blocks(c)
      <4>1. Grown(c, d, q, D, t) BY <2>2, <3>1, AddTable
      <4> QED BY <4>1, <2>4 DEF Grown
    <3>3. Blocks(d) <= play.memory BY <3>2, BlocksAre, PlayFacts DEF CacheOK
    <3>4. Evicted(c, d, {q}) BY <3>2 DEF Evicted
    <3>5. CacheOK(d, {q}, D \cup {t}) BY <3>2, <3>3 DEF CacheOK
    <3>6. Inserted(insert_table(s, q, t), c, d, q, D, t) BY <2>3, <3>4, <3>5 DEF Inserted
    <3> QED BY <3>6
  <2>5. CASE c.tbl[t] = {}
    <3>1. e \in allocate_block(c) BY <1>3, <2>1, <2>5
    <3>2. CacheOK(e, {q}, D) /\ Evicted(c, e, {q}) /\ Blocks(e) < play.memory BY <3>1, AllocateOK
    <3>3. q \in Present(e) BY <3>2 DEF Evicted, Present
    <3>4. /\ d \in Caches /\ Linked(d, {q}, D \cup {t}) /\ d.entry = e.entry
          /\ Held(d) /\ \A p \in Query \ {q} : EntryOK(d, p)
          /\ Blocks(d) <= Blocks(e) + 1
      <4>1. Grown(e, d, q, D, t) BY <2>2, <3>2, <3>3, AddTable
      <4> QED BY <4>1 DEF Grown
    <3>5. Blocks(d) <= play.memory
      <4>1. Blocks(d) \in Nat /\ Blocks(e) \in Nat /\ play.memory \in Nat BY BlocksAre, PlayFacts
      <4> QED BY <4>1, <3>2, <3>4
    <3>6. Evicted(c, d, {q}) BY <3>2, <3>4 DEF Evicted
    <3>7. CacheOK(d, {q}, D \cup {t}) BY <3>4, <3>5 DEF CacheOK
    <3>8. Inserted(insert_table(s, q, t), c, d, q, D, t) BY <2>3, <3>6, <3>7 DEF Inserted
    <3> QED BY <3>8
  <2> QED BY <2>4, <2>5
<1> QED BY <1>2, <1>3

(* the equation of the recursion in register_all_tables *)
AfterTable(g, c, q, i) ==
    IF i = 0 THEN [qc |-> c, ok |-> TRUE] ELSE insert_table(g[i - 1], q, play.tables[q][i])

(* the recursion has a solution, and its last value is the result *)
LEMMA RegisterIs ==
    ASSUME NEW c, NEW q, play.tables[q] \in Seq(Table)
    PROVE  LET m == Len(play.tables[q]) IN
           \E g : g = [i \in 0 .. m |-> AfterTable(g, c, q, i)] /\ register_all_tables(c, q) = g[m]
<1> DEFINE Upto(k) == \E g : g = [i \in 0 .. k |-> AfterTable(g, c, q, i)]
           T == {k \in Nat : Upto(k)}
           m == Len(play.tables[q])
<1>1. 0 \in T
  <2> DEFINE g == [i \in 0 .. 0 |-> [qc |-> c, ok |-> TRUE]]
  <2>1. g = [i \in 0 .. 0 |-> AfterTable(g, c, q, i)] BY DEF AfterTable
  <2> QED BY <2>1
<1>2. ASSUME NEW k \in Nat, k \in T PROVE k + 1 \in T
  <2>1. PICK g : g = [i \in 0 .. k |-> AfterTable(g, c, q, i)] BY <1>2
  <2> DEFINE h == [i \in 0 .. k + 1 |-> IF i <= k THEN g[i] ELSE AfterTable(g, c, q, k + 1)]
  <2>2. \A i \in 0 .. k + 1 : h[i] = AfterTable(h, c, q, i)
    <3> SUFFICES ASSUME NEW i \in 0 .. k + 1 PROVE h[i] = AfterTable(h, c, q, i) OBVIOUS
    <3>1. i # 0 => h[i - 1] = g[i - 1] OBVIOUS
    <3>2. CASE i <= k
      <4>1. g[i] = AfterTable(g, c, q, i) BY <2>1, <3>2
      <4> QED BY <3>1, <3>2, <4>1 DEF AfterTable
    <3>3. CASE i = k + 1 BY <3>1, <3>3 DEF AfterTable
    <3> QED BY <3>2, <3>3
  <2>3. h = [i \in 0 .. k + 1 |-> AfterTable(h, c, q, i)] BY <2>2
  <2> HIDE DEF h
  <2>4. Upto(k + 1) BY <2>3, Zenon
  <2> QED BY <2>4
<1>3. Nat \subseteq T
  <2> HIDE DEF T
  <2> QED BY <1>1, <1>2, NatSetInduction
<1>4. \E g : g = [i \in 0 .. m |-> AfterTable(g, c, q, i)] BY <1>3
<1>5. PICK g : g = CHOOSE f : f = [i \in 0 .. m |-> AfterTable(f, c, q, i)] OBVIOUS
<1>6. g = [i \in 0 .. m |-> AfterTable(g, c, q, i)] BY <1>4, <1>5
<1>7. register_all_tables(c, q) = g[m] BY <1>5 DEF register_all_tables, AfterTable
<1> QED BY <1>6, <1>7

(* what register_all_tables makes of a cache c with the new query q *)
Registering(s, c, q, D) ==
    /\ s = [qc |-> s.qc, ok |-> s.ok] /\ s.ok \in BOOLEAN
    /\ CacheOK(s.qc, {q}, IF s.ok THEN D ELSE {})
    /\ Evicted(c, s.qc, {q})

(* one table more *)
LEMMA RegisterStep ==
    ASSUME play \in Plays, Whole, NEW c, NEW q \in Query, q \in Present(c), NEW k \in Nat,
           k + 1 \in DOMAIN play.tables[q], NEW s,
           NEW D, D = {play.tables[q][i] : i \in 1 .. k}, Registering(s, c, q, D)
    PROVE  Registering(insert_table(s, q, play.tables[q][k + 1]), c, q, D \cup {play.tables[q][k + 1]})
<1> DEFINE t == play.tables[q][k + 1]  u == insert_table(s, q, t)
<1>0. play.tables[q] \in Seq(Table) BY PlayFacts
<1>1. t \in Table /\ k + 1 \in 1 .. Len(play.tables[q]) BY <1>0
<1>2. CASE ~s.ok
  <2>1. u = s BY <1>2 DEF insert_table
  <2> QED BY <2>1, <1>2 DEF Registering
<1>3. CASE s.ok
  <2>1. PICK e : e = s.qc OBVIOUS
  <2>2. s = [qc |-> e, ok |-> TRUE] /\ CacheOK(e, {q}, D) /\ Evicted(c, e, {q})
    BY <1>3, <2>1 DEF Registering
  <2>3. q \in Present(e) BY <2>2 DEF Evicted, Present
  <2>4. PICK d : Inserted(u, e, d, q, D, t)
    <3>1. PICK x : x = t OBVIOUS
    <3>2. x \in Table BY <1>1, <3>1
    <3> HIDE DEF t
    <3>3. \E d : Inserted(insert_table(s, q, x), e, d, q, D, x) BY <2>2, <2>3, <3>2, InsertTableOK
    <3> QED BY <3>1, <3>3
  <2>5. Evicted(c, d, {q}) BY <2>2, <2>4 DEF Evicted, Inserted
  <2>6. CASE u = [qc |-> d, ok |-> TRUE] /\ CacheOK(d, {q}, D \cup {t})
    <3>1. u.qc = d /\ u.ok = TRUE /\ u = [qc |-> u.qc, ok |-> u.ok] BY <2>6
    <3> HIDE DEF u, t
    <3>2. Registering(u, c, q, D \cup {t}) BY <3>1, <2>5, <2>6 DEF Registering
    <3> QED BY <3>2 DEF u, t
  <2>7. CASE u = [qc |-> d, ok |-> FALSE] /\ d = e /\ e.tbl[t] = {} /\ allocate_block(e) = {}
    <3>1. u.qc = d /\ u.ok = FALSE /\ u = [qc |-> u.qc, ok |-> u.ok] BY <2>7
    <3>2. t \notin D
      <4>1. e.tbl[t] = {p \in Present(e) : IF p \in {q} THEN t \in D ELSE t \in TablesOf(p)}
        BY <2>2, <1>1 DEF CacheOK, Linked
      <4> HIDE DEF t
      <4> QED BY <4>1, <2>3, <2>7
    <3>3. ~Roomy(play)
      <4>1. ~(Blocks(e) < play.memory) BY <2>7 DEF allocate_block
      <4> QED BY <4>1, <2>7, <1>1, PlayFacts, RoomForTable
    <3>4. OneTable(play) BY <3>3 DEF Whole
    <3>5. k = 0
      <4> SUFFICES ASSUME k # 0 PROVE FALSE OBVIOUS
      <4>1. 1 \in 1 .. k /\ 1 \in DOMAIN play.tables[q] BY <1>1, <1>0
      <4>2. play.tables[q][1] = t BY <4>1, <3>4 DEF OneTable
      <4>3. t \in D BY <4>1, <4>2
      <4> QED BY <4>3, <3>2
    <3>6. D = {} BY <3>5
    <3> HIDE DEF u, t
    <3>7. Registering(u, c, q, D \cup {t}) BY <3>1, <3>6, <2>2, <2>5, <2>7 DEF Registering
    <3> QED BY <3>7 DEF u, t
  <2> QED BY <2>4, <2>6, <2>7 DEF Inserted
<1>4. s.ok \in BOOLEAN BY DEF Registering
<1> QED BY <1>2, <1>3, <1>4

(* all tables of the query *)
LEMMA RegisterOK ==
    ASSUME play \in Plays, Whole, NEW c, NEW q \in Query, q \in Present(c), CacheOK(c, {q}, {})
    PROVE  Registering(register_all_tables(c, q), c, q, TablesOf(q))
<1> DEFINE used == play.tables[q]  m == Len(used)
<1>0. used \in Seq(Table) /\ m \in Nat /\ DOMAIN used = 1 .. m BY PlayFacts
<1>1. PICK g : g = [i \in 0 .. m |-> AfterTable(g, c, q, i)] /\ register_all_tables(c, q) = g[m]
  BY <1>0, RegisterIs
<1> HIDE DEF m
<1> DEFINE Ds(k) == {used[i] : i \in 1 .. k}
           T == {k \in Nat : k <= m => Registering(g[k], c, q, Ds(k))}
<1>2. 0 \in T
  <2>1. g[0] = [qc |-> c, ok |-> TRUE] BY <1>0, <1>1 DEF AfterTable
  <2>2. PICK s : s = g[0] OBVIOUS
  <2>3. s.qc = c /\ s.ok = TRUE /\ s = [qc |-> s.qc, ok |-> s.ok] BY <2>1, <2>2
  <2>4. Ds(0) = {} OBVIOUS
  <2>5. Evicted(c, c, {q}) BY DEF Evicted
  <2> HIDE DEF Ds
  <2>6. Registering(s, c, q, Ds(0)) BY <2>3, <2>4, <2>5 DEF Registering
  <2> QED BY <2>2, <2>6
<1>3. ASSUME NEW k \in Nat, k \in T PROVE k + 1 \in T
  <2> SUFFICES ASSUME k + 1 <= m PROVE Registering(g[k + 1], c, q, Ds(k + 1)) OBVIOUS
  <2>1. k <= m /\ k + 1 \in DOMAIN used /\ k + 1 \in 0 .. m BY <1>0
  <2>2. PICK s, D : s = g[k] /\ D = Ds(k) OBVIOUS
  <2>3. Registering(s, c, q, D) BY <1>3, <2>1, <2>2
  <2>4. g[k + 1] = insert_table(s, q, used[k + 1])
    <3>1. g[k + 1] = AfterTable(g, c, q, k + 1) BY <1>1, <2>1
    <3> QED BY <3>1, <2>2 DEF AfterTable
  <2>5. Ds(k + 1) = D \cup {used[k + 1]} BY <2>2
  <2>6. Registering(insert_table(s, q, used[k + 1]), c, q, D \cup {used[k + 1]})
    BY <2>1, <2>2, <2>3, RegisterStep
  <2> QED BY <2>4, <2>5, <2>6
<1>4. Nat \subseteq T
  <2> HIDE DEF T
  <2> QED BY <1>2, <1>3, NatSetInduction
<1>5. m \in T
  <2> HIDE DEF T
  <2> QED BY <1>0, <1>4, Zenon
<1>6. Registering(g[m], c, q, Ds(m))
  <2>1. m <= m BY <1>0
  <2> QED BY <1>5, <2>1
<1>7. Ds(m) = TablesOf(q) BY <1>0 DEF TablesOf, ToSet
<1> QED BY <1>1, <1>6, <1>7

-----------------------------------------------------------------------------
(* One connection works on one block *)

(* connections are different, and null is none of them *)
LEMMA Clients ==
    /\ \A r \in Reader : r \in Client /\ r # None /\ r \notin Writer /\ r # Admin
    /\ \A w \in Writer : w \in Client /\ w # None /\ w \notin Reader /\ w # Admin
    /\ Admin \in Client /\ Admin # None /\ Admin \notin Reader /\ Admin \notin Writer
    /\ None \notin Client /\ None \notin Query /\ NPackets \in Nat /\ NPackets > 0
    /\ None \notin Reader /\ None \notin Writer
BY QueryCacheAssumption DEF QueryCacheAssumption, Client

(* the invariant, apart from the types of what the cache does not use *)
LEMMA BlockFacts ==
    ASSUME BlockInv
    PROVE  /\ play \in Plays /\ qc \in Caches /\ Linked(qc, {}, {}) /\ Blocks(qc) <= play.memory
           /\ Held(qc) /\ (\A q \in Query : EntryOK(qc, q))
           /\ \A q \in Present(qc) : qc.entry[q] \in Block /\ q \in Query
           /\ \A r \in Reader : ReaderInv(r)
<1>1. play \in Plays /\ qc \in Caches BY DEF BlockInv, Typed, TypedCache
<1>2. \A q \in Present(qc) : qc.entry[q] \in Block /\ q \in Query BY <1>1, CacheFacts DEF Present
<1> QED BY <1>1, <1>2 DEF BlockInv, CacheOK

(* a block has one writer, and nobody reads it before it is complete *)
LEMMA OneWriter ==
    ASSUME BlockInv, NEW q \in Query, NEW r \in Reader, Writes(r, q), NEW s \in Reader
    PROVE  (Writes(s, q) => s = r) /\ ~Reads(s, q)
<1>1. WriterBlock(r, qc.entry[q]) /\ (Writes(s, q) => WriterBlock(s, qc.entry[q]))
  BY BlockFacts DEF Held
<1>2. Reads(s, q) => ReaderBlock(s, qc.entry[q]) BY BlockFacts DEF Held
<1>3. r # None /\ s # None BY Clients
<1> QED BY <1>1, <1>2, <1>3 DEF WriterBlock, ReaderBlock

(* who is the writer of a block knows it *)
LEMMA OwnerIs ==
    ASSUME BlockInv, NEW q \in Present(qc), NEW s, s = qc.entry[q].writer, s # None
    PROVE  s \in Reader /\ net[s] = q /\ query[s] = q /\ Busy(s) /\ Writes(s, q)
<1>1. q \in Query /\ EntryOK(qc, q) /\ qc.entry[q] # None BY BlockFacts DEF Present
<1>2. PICK r \in Reader : Writes(r, q) BY <1>1 DEF EntryOK
<1>3. WriterBlock(r, qc.entry[q]) BY <1>1, <1>2, BlockFacts DEF Held
<1>4. s = r /\ pc[r] # "publish" BY <1>3 DEF WriterBlock
<1> QED BY <1>2, <1>4 DEF Writes

(* what a connection does about blocks stays the same in a step *)
Same(s) ==
    pc'[s] = pc[s] /\ query'[s] = query[s] /\ net'[s] = net[s] /\ n'[s] = n[s] /\ res'[s] = res[s] /\ dirty'[s] = dirty[s]
SameWork(s) ==
    \A q \in Query : /\ Writes(s, q)' <=> Writes(s, q)
                     /\ Reads(s, q)' <=> Reads(s, q)
                     /\ \A b : Writes(s, q) /\ WriterBlock(s, b) => WriterBlock(s, b)'

(* a connection that does not move does the same work *)
LEMMA SameIs == ASSUME NEW s, Same(s) PROVE SameWork(s)
BY DEF Same, SameWork, Writes, Reads, Busy, WriterBlock

(* everything but the block of q is as it was, or an unused result has gone *)
Around(c, d, q) ==
    \A p \in Query \ {q} : d.entry[p] = c.entry[p] \/ (d.entry[p] = None /\ Idle(c.entry[p]))

(* a connection works on the block of q *)
Touch(r, q, d) ==
    /\ play' = play /\ qc' = d
    /\ query[r] = q /\ query'[r] \in {q, None} /\ \A s \in Reader \ {r} : SameWork(s)
    /\ d \in Caches /\ Linked(d, {}, {}) /\ Blocks(d) <= play.memory /\ Around(qc, d, q)
    /\ \A s \in Reader \ {r} : /\ Writes(s, q) => WriterBlock(s, d.entry[q])
                               /\ Reads(s, q) => ReaderBlock(s, d.entry[q])
    /\ Writes(r, q)' => WriterBlock(r, d.entry[q])'
    /\ Reads(r, q)' => ReaderBlock(r, d.entry[q])
    /\ EntryOK(d, q)'

(* that leaves the cache in order *)
LEMMA TouchOK ==
    ASSUME BlockInv, NEW r \in Reader, NEW q \in Query, NEW d, Touch(r, q, d)
    PROVE  CacheOK(qc, {}, {})'
<1>1. /\ qc \in Caches /\ Held(qc) /\ (\A p \in Query : EntryOK(qc, p)) BY BlockFacts
<1>2. None \notin Query BY Clients
<1>3. Held(d)'
  <2> SUFFICES ASSUME NEW s \in Reader, NEW p \in Query
               PROVE  /\ Writes(s, p)' => WriterBlock(s, d.entry[p])'
                      /\ Reads(s, p)' => ReaderBlock(s, d.entry[p])
    BY DEF Held, ReaderBlock
  <2>1. /\ Writes(s, p) => WriterBlock(s, qc.entry[p])
        /\ Reads(s, p) => ReaderBlock(s, qc.entry[p])
    BY <1>1 DEF Held
  <2>2. p # q => d.entry[p] = qc.entry[p] \/ Idle(qc.entry[p]) BY DEF Touch, Around
  <2>3. Idle(qc.entry[p]) => ~Writes(s, p) /\ ~Reads(s, p)
    BY <2>1 DEF Idle, WriterBlock, ReaderBlock
  <2>4. CASE s # r
    <3>1. SameWork(s) BY <2>4 DEF Touch
    <3>2. /\ Writes(s, p) => WriterBlock(s, d.entry[p])
          /\ Reads(s, p) => ReaderBlock(s, d.entry[p])
      <4>1. CASE p = q BY <4>1, <2>4 DEF Touch
      <4>2. CASE p # q BY <4>2, <2>1, <2>2, <2>3
      <4> QED BY <4>1, <4>2
    <3> QED BY <3>1, <3>2 DEF SameWork
  <2>5. CASE s = r
    <3>1. CASE p = q BY <3>1, <2>5 DEF Touch
    <3>2. CASE p # q
      <4>1. ~Writes(s, p)' /\ ~Reads(s, p)' BY <3>2, <2>5, <1>2 DEF Touch, Writes, Reads
      <4> QED BY <4>1
    <3> QED BY <3>1, <3>2
  <2> QED BY <2>4, <2>5
<1>4. ASSUME NEW p \in Query PROVE EntryOK(d, p)'
  <2>1. CASE p = q BY <2>1 DEF Touch
  <2>2. CASE p # q
    <3> SUFFICES ASSUME d.entry[p] # None PROVE EntryOK(d, p)' BY DEF EntryOK
    <3>1. d.entry[p] = qc.entry[p] BY <2>2 DEF Touch, Around
    <3>2. ~Writes(r, p) /\ ~Reads(r, p) BY <2>2 DEF Touch, Writes, Reads
    <3>3. \A s \in Reader : (Writes(s, p) => Writes(s, p)') /\ (Reads(s, p) => Reads(s, p)')
      BY <3>2 DEF Touch, SameWork
    <3>4. EntryOK(qc, p) BY <1>1
    <3>5. ASSUME qc.entry[p].st = "result" PROVE qc.entry[p].readers \subseteq Reader
      <4>1. qc.entry[p] \in Block BY <1>1, <3>1, CacheFacts DEF Present
      <4> QED BY <4>1 DEF Block
    <3> QED BY <3>1, <3>3, <3>4, <3>5 DEF EntryOK
  <2> QED BY <2>1, <2>2
<1>5. Linked(d, {}, {})' BY DEF Touch, Linked, TablesOf, Present
<1> QED BY <1>3, <1>4, <1>5 DEF CacheOK, Touch, Held, EntryOK, Linked, Blocks

(* nobody's work changes, nor does the cache *)
LEMMA QuietOK ==
    ASSUME BlockInv, play' = play, qc' = qc, \A s \in Reader : SameWork(s)
    PROVE  CacheOK(qc, {}, {})'
<1> PICK d : d = qc OBVIOUS
<1>1. /\ d \in Caches /\ Linked(d, {}, {}) /\ Blocks(d) <= play.memory
      /\ Held(d) /\ (\A q \in Query : EntryOK(d, q))
      /\ \A q \in Present(d) : d.entry[q] \in Block
  BY BlockFacts
<1>2. Held(d)'
  <2> SUFFICES ASSUME NEW s \in Reader, NEW p \in Query
               PROVE  /\ Writes(s, p)' => WriterBlock(s, d.entry[p])'
                      /\ Reads(s, p)' => ReaderBlock(s, d.entry[p])
    BY DEF Held, ReaderBlock
  <2> QED BY <1>1 DEF Held, SameWork
<1>3. ASSUME NEW p \in Query PROVE EntryOK(d, p)'
  <2> SUFFICES ASSUME d.entry[p] # None PROVE EntryOK(d, p)' BY DEF EntryOK
  <2>1. d.entry[p].readers \subseteq Reader BY <1>1 DEF Present, Block
  <2>2. EntryOK(d, p) BY <1>1
  <2> QED BY <2>1, <2>2 DEF EntryOK, SameWork
<1>4. Linked(d, {}, {})' BY <1>1 DEF Linked, TablesOf, Present
<1> QED BY <1>1, <1>2, <1>3, <1>4 DEF CacheOK, Held, EntryOK, Linked, Blocks

(* a block takes a new value *)
Put(c, q, b) == [c EXCEPT !.entry[q] = b]
PutIs(c, q, b, d) ==
    /\ d \in Caches /\ Linked(d, {}, {}) /\ Present(d) = Present(c) /\ d.entry[q] = b
    /\ \A p \in Query \ {q} : d.entry[p] = c.entry[p]
    /\ b.pkts <= c.entry[q].pkts => Blocks(d) <= Blocks(c)
    /\ b.pkts <= c.entry[q].pkts + 1 => Blocks(d) <= Blocks(c) + 1

(* that leaves the lists alone, and takes a block of memory for a packet *)
LEMMA PutOK ==
    ASSUME NEW c \in Caches, Linked(c, {}, {}), NEW q \in Present(c), NEW b \in Block, NEW d, d = Put(c, q, b)
    PROVE  PutIs(c, q, b, d)
<1>1. /\ c.entry \in [Query -> Block \cup {None}] /\ c.lru \in Seq(Query)
      /\ c.tbl \in [Table -> SUBSET Query] /\ c = [entry |-> c.entry, lru |-> c.lru, tbl |-> c.tbl]
      /\ c.entry[q] \in Block /\ q \in Query /\ b # None
  BY CacheFacts, NoneAssumption DEF Present, NoneAssumption
<1>2. /\ d.entry = [c.entry EXCEPT ![q] = b] /\ d.lru = c.lru /\ d.tbl = c.tbl
      /\ d = [entry |-> d.entry, lru |-> d.lru, tbl |-> d.tbl]
  BY <1>1 DEF Put
<1>3. /\ d.entry \in [Query -> Block \cup {None}] /\ d.entry[q] = b
      /\ \A p \in Query \ {q} : d.entry[p] = c.entry[p]
  BY <1>1, <1>2
<1>4. d \in Caches
  <2>1. [entry |-> d.entry, lru |-> d.lru, tbl |-> d.tbl] \in Caches BY <1>1, <1>2, <1>3 DEF Caches
  <2> QED BY <2>1, <1>2
<1>5. Present(d) = Present(c) BY <1>1, <1>3 DEF Present
<1>6. Linked(d, {}, {}) BY <1>2, <1>5 DEF Linked
<1>7. Tabled(d) = Tabled(c) BY <1>2 DEF Tabled
<1>8. b.pkts \in Nat /\ c.entry[q].pkts \in Nat BY <1>1, Clients DEF Block
<1>9. ASSUME b.pkts <= c.entry[q].pkts PROVE Blocks(d) <= Blocks(c)
  <2>1. Packets(d) \subseteq Packets(c)
    <3> SUFFICES ASSUME NEW p \in Query, NEW i \in 1 .. NPackets, d.entry[p] # None, i <= d.entry[p].pkts
                 PROVE  c.entry[p] # None /\ i <= c.entry[p].pkts
      BY DEF Packets
    <3>1. CASE p = q BY <3>1, <1>3, <1>8, <1>9, <1>1, Clients DEF Present
    <3>2. CASE p # q BY <3>2, <1>3
    <3> QED BY <3>1, <3>2
  <2> QED BY <2>1, <1>5, <1>7, NoMoreBlocks
<1>10. ASSUME b.pkts <= c.entry[q].pkts + 1 PROVE Blocks(d) <= Blocks(c) + 1
  <2>1. PICK x : x = <<q, c.entry[q].pkts + 1>> OBVIOUS
  <2>2. Packets(d) \subseteq Packets(c) \cup {x}
    <3> SUFFICES ASSUME NEW p \in Query, NEW i \in 1 .. NPackets, d.entry[p] # None, i <= d.entry[p].pkts,
                        <<p, i>> # x
                 PROVE  c.entry[p] # None /\ i <= c.entry[p].pkts
      BY DEF Packets
    <3>1. CASE p = q
      <4>1. i # c.entry[q].pkts + 1 /\ i <= b.pkts BY <3>1, <2>1, <1>3
      <4>2. i \in Nat BY Clients
      <4> QED BY <4>1, <4>2, <3>1, <1>8, <1>10, <1>1 DEF Present
    <3>2. CASE p # q BY <3>2, <1>3
    <3> QED BY <3>1, <3>2
  <2>3. Present(d) \subseteq Present(c) /\ Tabled(d) \subseteq Tabled(c) BY <1>5, <1>7
  <2> HIDE DEF Put
  <2> QED BY <2>2, <2>3, OneBlockMore
<1> QED BY <1>3, <1>4, <1>5, <1>6, <1>9, <1>10 DEF PutIs

(* a block nobody has locked is freed, and its writer forgets it *)
Free(q) ==
    /\ play' = play /\ query' = query /\ res' = res /\ dirty' = dirty
    /\ ~InUse(qc.entry[q]) /\ qc' = free_query(qc, q)
    /\ \A s \in Reader : IF s = qc.entry[q].writer
                           THEN net'[s] = None /\ pc'[s] \in {"packet", "copy", "complete", "read", "finish"}
                           ELSE Same(s)

(* that leaves the cache in order *)
LEMMA FreeOK ==
    ASSUME BlockInv, NEW q \in Present(qc), Free(q)
    PROVE  CacheOK(qc, {}, {})' /\ Present(qc)' \subseteq Present(qc)
<1>0. /\ qc \in Caches /\ Linked(qc, {}, {}) /\ Held(qc) /\ (\A p \in Query : EntryOK(qc, p))
      /\ q \in Query /\ Blocks(qc) <= play.memory /\ play \in Plays /\ qc.entry[q] # None
      /\ \A p \in Present(qc) : qc.entry[p] \in Block
  BY BlockFacts DEF Present
<1>1. PICK d : d = free_query(qc, q) OBVIOUS
<1>2. /\ d \in Caches /\ Linked(d, {}, {}) /\ Present(d) = Present(qc) \ {q} /\ d.entry[q] = None
      /\ \A p \in Query \ {q} : d.entry[p] = qc.entry[p]
      /\ Blocks(d) <= Blocks(qc)
  BY <1>0, <1>1, FreeQueryIs
<1>3. None \notin Query /\ None \notin Reader BY Clients
<1>4. ASSUME NEW s \in Reader, s = qc.entry[q].writer
      PROVE  query[s] = q /\ \A p \in Query : ~Writes(s, p)' /\ ~Reads(s, p)'
  <2>1. query[s] = q BY <1>3, <1>4, OwnerIs
  <2> QED BY <2>1, <1>3, <1>4 DEF Free, Writes, Reads
<1>5. ASSUME NEW s \in Reader, s # qc.entry[q].writer
      PROVE  SameWork(s) /\ ~Writes(s, q) /\ ~Reads(s, q)
  <2>1. SameWork(s) BY <1>5, SameIs DEF Free
  <2>2. /\ Writes(s, q) => WriterBlock(s, qc.entry[q])
        /\ Reads(s, q) => ReaderBlock(s, qc.entry[q])
    BY <1>0 DEF Held
  <2>3. qc.entry[q].lock = None /\ qc.entry[q].readers = {} BY DEF Free, InUse
  <2> QED BY <2>1, <2>2, <2>3, <1>3, <1>5 DEF WriterBlock, ReaderBlock
<1>6. Held(d)'
  <2> SUFFICES ASSUME NEW s \in Reader, NEW p \in Query
               PROVE  /\ Writes(s, p)' => WriterBlock(s, d.entry[p])'
                      /\ Reads(s, p)' => ReaderBlock(s, d.entry[p])
    BY DEF Held, ReaderBlock
  <2>1. CASE s = qc.entry[q].writer BY <2>1, <1>4
  <2>2. CASE s # qc.entry[q].writer
    <3>1. SameWork(s) /\ ~Writes(s, q) /\ ~Reads(s, q) BY <2>2, <1>5
    <3>2. CASE p = q BY <3>1, <3>2 DEF SameWork
    <3>3. CASE p # q
      <4>1. d.entry[p] = qc.entry[p] BY <3>3, <1>2
      <4>2. /\ Writes(s, p) => WriterBlock(s, d.entry[p])
            /\ Reads(s, p) => ReaderBlock(s, d.entry[p])
        BY <4>1, <1>0 DEF Held
      <4> QED BY <4>2, <3>1 DEF SameWork
    <3> QED BY <3>2, <3>3
  <2> QED BY <2>1, <2>2
<1>7. ASSUME NEW p \in Query PROVE EntryOK(d, p)'
  <2> SUFFICES ASSUME d.entry[p] # None PROVE EntryOK(d, p)' BY DEF EntryOK
  <2>1. p # q /\ d.entry[p] = qc.entry[p] BY <1>2
  <2>2. \A s \in Reader : (Writes(s, p) => Writes(s, p)') /\ (Reads(s, p) => Reads(s, p)')
    <3> SUFFICES ASSUME NEW s \in Reader, Writes(s, p) \/ Reads(s, p) PROVE SameWork(s) BY DEF SameWork
    <3>1. query[s] # q BY <2>1 DEF Writes, Reads
    <3> QED BY <3>1, <1>4, <1>5
  <2>3. EntryOK(qc, p) /\ qc.entry[p].readers \subseteq Reader BY <1>0, <2>1 DEF Present, Block
  <2> QED BY <2>1, <2>2, <2>3 DEF EntryOK
<1>8. Linked(d, {}, {})' BY <1>2 DEF Linked, TablesOf, Present, Free
<1>9. Blocks(d) <= play.memory BY <1>0, <1>2, BlocksAre, PlayFacts
<1>10. Present(qc)' \subseteq Present(qc) BY <1>1, <1>2 DEF Present, Free
<1> QED BY <1>1, <1>2, <1>6, <1>7, <1>8, <1>9, <1>10 DEF CacheOK, Free, Held, EntryOK, Linked, Blocks

-----------------------------------------------------------------------------
(* The types *)

TypedRest ==
    /\ play \in Plays /\ size \in BOOLEAN
    /\ guard \in Client \cup {None} /\ net \in [Client -> Query \cup {None}]
    /\ TypedThreads /\ TypedEngine /\ TypedWriters

(* a step of a SELECT keeps the types *)
LEMMA ReaderTypes ==
    ASSUME BlockInv, NEW r \in Reader,
           SelectStep(r) \/ UnlockTables(r) \/ CommitReads(r) \/ \E q \in Query : Select(r, q)
    PROVE  TypedRest'
<1> USE DEF Goto, cache, thd, engine, writer, TypedRest, TypedThreads, TypedEngine, TypedWriters,
            Versions, ReaderPlace
<1>1. TypedRest BY DEF BlockInv, Typed, TypedCache
<1>2. ReaderInv(r) BY BlockFacts
<1>3. r \in Client /\ r # None /\ r \notin Writer /\ r # Admin /\ NPackets \in Nat /\ NPackets > 0 BY Clients
<1>4. pc[r] # "idle" => query[r] \in Query BY <1>2 DEF ReaderInv
<1>5. pc[r] = "copy" => n[r] < NPackets BY <1>2 DEF ReaderInv
<1>6. pc[r] # "idle" => InnodbTables(query[r]) \in Seq(Table)
  BY <1>1, <1>4, PlayFacts, WithoutFacts DEF InnodbTables
<1>7. todo[r] \in Seq(Table) /\ (todo[r] # << >> => Tail(todo[r]) \in Seq(Table)) BY <1>1
<1> USE <1>1, <1>3
<1>8. ASSUME pc' = pc \/ \E l \in ReaderPlace : pc' = [pc EXCEPT ![r] = l]
      PROVE  /\ pc' \in [Client -> ReaderPlace \cup WriterPlace \cup AdminPlace]
             /\ \A s \in Reader : pc'[s] \in ReaderPlace
             /\ \A w \in Writer : pc'[w] \in WriterPlace
             /\ pc'[Admin] \in AdminPlace
  <2> HIDE DEF ReaderPlace
  <2>1. CASE pc' = pc BY <2>1
  <2>2. CASE \E l \in ReaderPlace : pc' = [pc EXCEPT ![r] = l]
    <3>1. PICK l \in ReaderPlace : pc' = [pc EXCEPT ![r] = l] BY <2>2
    <3>2. pc'[r] = l /\ \A c \in Client \ {r} : pc'[c] = pc[c] BY <3>1
    <3>3. \A c \in Writer \cup {Admin} : c \in Client /\ c # r BY Clients
    <3>4. pc' \in [Client -> ReaderPlace \cup WriterPlace \cup AdminPlace] BY <3>1
    <3> QED BY <3>2, <3>3, <3>4, Clients
  <2> QED BY <1>8, <2>1, <2>2
<1>9. \A t \in Table : /\ [tl[t] EXCEPT !.readers = @ \cup {r}] \in [readers : SUBSET Reader, writer : Writer \cup {None}]
                       /\ [tl[t] EXCEPT !.readers = @ \ {r}] \in [readers : SUBSET Reader, writer : Writer \cup {None}]
  <2> SUFFICES ASSUME NEW t \in Table, NEW x, x = tl[t]
               PROVE  /\ [x EXCEPT !.readers = @ \cup {r}] \in [readers : SUBSET Reader, writer : Writer \cup {None}]
                      /\ [x EXCEPT !.readers = @ \ {r}] \in [readers : SUBSET Reader, writer : Writer \cup {None}]
    OBVIOUS
  <2>1. x \in [readers : SUBSET Reader, writer : Writer \cup {None}] OBVIOUS
  <2> HIDE <1>1
  <2> QED BY <2>1
<1>9a. ASSUME EndTrx(r)
       PROVE  /\ inv' \in [Table -> SUBSET Client] /\ active' \in [Client -> BOOLEAN]
              /\ view' \in [Reader -> Versions \cup {None}]
  BY <1>9a DEF EndTrx
<1>10. CASE LookupMiss(r) BY <1>10 DEF LookupMiss
<1>11. CASE Found(r) BY <1>11, <1>4, <1>6, SMTT(30) DEF Found
<1>12. CASE AskHit(r)
  <2>1. TypedThreads'
    <3>1. pc' = pc \/ \E l \in ReaderPlace : pc' = [pc EXCEPT ![r] = l] BY <1>12 DEF AskHit
    <3>2. /\ query' \in [Reader -> Query \cup {None}] /\ todo' \in [Reader -> Seq(Table)]
          /\ safe' \in [Reader -> BOOLEAN] /\ n' \in [Reader -> 0 .. NPackets]
          /\ res' \in [Reader -> Versions] /\ dirty' \in [Reader -> SUBSET Table] /\ need' \in [Reader -> Versions]
      BY <1>12, <1>7 DEF AskHit
    <3> QED BY <3>1, <3>2, <1>8
  <2>2. TypedEngine' BY <1>12, <1>7 DEF AskHit, Ask, ViewOf
  <2>3. TypedWriters' BY <1>12, <1>7 DEF AskHit, Ask, ViewOf
  <2>4. play' \in Plays /\ size' \in BOOLEAN /\ guard' \in Client \cup {None} BY <1>12, <1>7 DEF AskHit, Ask, ViewOf
  <2>5. net' \in [Client -> Query \cup {None}] BY <1>12, <1>7 DEF AskHit, Ask, ViewOf
  <2> QED BY <2>1, <2>2, <2>3, <2>4, <2>5
<1>13. CASE Hit(r) BY <1>13 DEF Hit
<1>14. CASE Sent(r) BY <1>14 DEF Sent, EndSelect, NoVersions
<1>15. CASE Open(r)
  <2>1. TypedThreads' BY <1>15 DEF Open
  <2>2. TypedEngine'
    <3>1. tl' \in [Table -> [readers : SUBSET Reader, writer : Writer \cup {None}]] BY <1>15, <1>9 DEF Open
    <3>2. /\ ver' \in Versions /\ acked' \in Versions
          /\ locks' \in [Table -> SUBSET Writer] /\ inv' \in [Table -> SUBSET Client]
          /\ active' \in [Client -> BOOLEAN] /\ view' \in [Reader -> Versions \cup {None}]
      BY <1>15 DEF Open
    <3> QED BY <3>1, <3>2
  <2>3. TypedWriters' BY <1>15 DEF Open
  <2>4. play' \in Plays /\ size' \in BOOLEAN /\ guard' \in Client \cup {None} BY <1>15 DEF Open
  <2>5. net' \in [Client -> Query \cup {None}] BY <1>15 DEF Open
  <2> QED BY <2>1, <2>2, <2>3, <2>4, <2>5
<1>16. CASE StoreNot(r) BY <1>16 DEF StoreNot
<1>17. CASE StoreEnter(r)
  <2>1. TypedThreads' BY <1>17, <1>4, <1>6 DEF StoreEnter
  <2>2. TypedEngine' BY <1>17, <1>4, <1>6 DEF StoreEnter
  <2>3. TypedWriters' BY <1>17, <1>4, <1>6 DEF StoreEnter
  <2>4. play' \in Plays /\ size' \in BOOLEAN /\ guard' \in Client \cup {None} BY <1>17, <1>4, <1>6 DEF StoreEnter
  <2>5. net' \in [Client -> Query \cup {None}] BY <1>17, <1>4, <1>6 DEF StoreEnter
  <2> QED BY <2>1, <2>2, <2>3, <2>4, <2>5
<1>18. CASE ask_handler_allowance(r)
  <2>1. TypedThreads'
    <3>1. pc' = pc \/ \E l \in ReaderPlace : pc' = [pc EXCEPT ![r] = l] BY <1>18 DEF ask_handler_allowance
    <3>2. /\ query' \in [Reader -> Query \cup {None}] /\ todo' \in [Reader -> Seq(Table)]
          /\ safe' \in [Reader -> BOOLEAN] /\ n' \in [Reader -> 0 .. NPackets]
          /\ res' \in [Reader -> Versions] /\ dirty' \in [Reader -> SUBSET Table] /\ need' \in [Reader -> Versions]
      BY <1>18, <1>7 DEF ask_handler_allowance
    <3> QED BY <3>1, <3>2, <1>8
  <2>2. TypedEngine' BY <1>18, <1>7 DEF ask_handler_allowance, Ask, ViewOf
  <2>3. TypedWriters' BY <1>18, <1>7 DEF ask_handler_allowance, Ask, ViewOf
  <2>4. play' \in Plays /\ size' \in BOOLEAN /\ guard' \in Client \cup {None} BY <1>18, <1>7 DEF ask_handler_allowance, Ask, ViewOf
  <2>5. net' \in [Client -> Query \cup {None}] BY <1>18, <1>7 DEF ask_handler_allowance, Ask, ViewOf
  <2> QED BY <2>1, <2>2, <2>3, <2>4, <2>5
<1>19. CASE Register(r)
  <2>1. TypedThreads'
    <3>1. pc' = pc \/ \E l \in ReaderPlace : pc' = [pc EXCEPT ![r] = l] BY <1>19 DEF Register
    <3>2. /\ query' \in [Reader -> Query \cup {None}] /\ todo' \in [Reader -> Seq(Table)]
          /\ safe' \in [Reader -> BOOLEAN] /\ n' \in [Reader -> 0 .. NPackets]
          /\ res' \in [Reader -> Versions] /\ dirty' \in [Reader -> SUBSET Table] /\ need' \in [Reader -> Versions]
      BY <1>19 DEF Register
    <3> QED BY <3>1, <3>2, <1>8
  <2>2. TypedEngine' BY <1>19 DEF Register
  <2>3. TypedWriters' BY <1>19 DEF Register
  <2>4. play' \in Plays /\ size' \in BOOLEAN /\ guard' \in Client \cup {None} BY <1>19 DEF Register
  <2>5. net' \in [Client -> Query \cup {None}] BY <1>19 DEF Register
  <2> QED BY <2>1, <2>2, <2>3, <2>4, <2>5
<1>20. CASE Publish(r)
  <2>1. \E l \in ReaderPlace : pc' = [pc EXCEPT ![r] = l] BY <1>20 DEF Publish
  <2>2. net' \in [Client -> Query \cup {None}] BY <1>20, <1>4 DEF Publish
  <2>3. UNCHANGED <<play, size, guard, query, todo, safe, n, res, dirty, need, ver, acked, locks, inv,
                    active, view, tl, target, changed, mine, left>> BY <1>20 DEF Publish
  <2> QED BY <2>1, <2>2, <2>3, <1>8
<1>21. CASE Read(r)
  <2>1. TypedThreads'
    <3>1. \E l \in ReaderPlace : pc' = [pc EXCEPT ![r] = l] BY <1>21 DEF Read
    <3>2. res' \in [Reader -> Versions] BY <1>21 DEF Read, ViewOf
    <3>3. dirty' \in [Reader -> SUBSET Table]
      <4>1. TablesOf(query[r]) \subseteq Table BY <1>4, <1>21, PlayFacts DEF Read
      <4>2. \E D \in SUBSET Table : dirty' = [dirty EXCEPT ![r] = D] BY <4>1, <1>21 DEF Read
      <4> QED BY <4>2
    <3>4. UNCHANGED <<query, todo, safe, n, need>> BY <1>21 DEF Read
    <3> QED BY <3>1, <3>2, <3>3, <3>4, <1>8
  <2>2. TypedEngine' BY <1>21 DEF Read, ViewOf
  <2>3. TypedWriters' BY <1>21 DEF Read, ViewOf
  <2>4. play' \in Plays /\ size' \in BOOLEAN /\ guard' \in Client \cup {None} BY <1>21 DEF Read, ViewOf
  <2>5. net' \in [Client -> Query \cup {None}] BY <1>21 DEF Read, ViewOf
  <2> QED BY <2>1, <2>2, <2>3, <2>4, <2>5
<1>22. CASE InsertNot(r) BY <1>22 DEF InsertNot
<1>23. CASE query_cache_insert(r) BY <1>23 DEF query_cache_insert
<1>24. CASE InsertFails(r) BY <1>24 DEF InsertFails, ForgetWriter
<1>25. CASE Copied(r) BY <1>25, <1>5, SMTT(30) DEF Copied
<1>26. CASE query_cache_end_of_result(r)
  <2>1. TypedThreads'
    <3>1. pc' = pc \/ \E l \in ReaderPlace : pc' = [pc EXCEPT ![r] = l] BY <1>26 DEF query_cache_end_of_result
    <3>2. /\ query' \in [Reader -> Query \cup {None}] /\ todo' \in [Reader -> Seq(Table)]
          /\ safe' \in [Reader -> BOOLEAN] /\ n' \in [Reader -> 0 .. NPackets]
          /\ res' \in [Reader -> Versions] /\ dirty' \in [Reader -> SUBSET Table] /\ need' \in [Reader -> Versions]
      BY <1>26 DEF query_cache_end_of_result
    <3> QED BY <3>1, <3>2, <1>8
  <2>2. TypedEngine' BY <1>26 DEF query_cache_end_of_result
  <2>3. TypedWriters' BY <1>26 DEF query_cache_end_of_result
  <2>4. play' \in Plays /\ size' \in BOOLEAN /\ guard' \in Client \cup {None} BY <1>26 DEF query_cache_end_of_result
  <2>5. net' \in [Client -> Query \cup {None}] BY <1>26 DEF query_cache_end_of_result
  <2> QED BY <2>1, <2>2, <2>3, <2>4, <2>5
<1>27. CASE Complete(r) BY <1>27 DEF Complete
<1>28. CASE ClearNet(r) BY <1>28 DEF ClearNet
<1>29. CASE query_cache_abort(r)
  <2>1. TypedThreads' BY <1>29 DEF query_cache_abort
  <2>2. TypedEngine' BY <1>29 DEF query_cache_abort
  <2>3. TypedWriters' BY <1>29 DEF query_cache_abort
  <2>4. play' \in Plays /\ size' \in BOOLEAN /\ guard' \in Client \cup {None} BY <1>29 DEF query_cache_abort
  <2>5. net' \in [Client -> Query \cup {None}] BY <1>29 DEF query_cache_abort
  <2> QED BY <2>1, <2>2, <2>3, <2>4, <2>5
<1>30. CASE Finish(r)
  <2>1. TypedThreads' BY <1>30, SMTT(30) DEF Finish, EndSelect, NoVersions, EndTrx
  <2>2. TypedEngine'
    <3>1. tl' \in [Table -> [readers : SUBSET Reader, writer : Writer \cup {None}]] BY <1>30, <1>9 DEF Finish
    <3>2. /\ ver' \in Versions /\ acked' \in Versions
          /\ locks' \in [Table -> SUBSET Writer] /\ inv' \in [Table -> SUBSET Client]
          /\ active' \in [Client -> BOOLEAN] /\ view' \in [Reader -> Versions \cup {None}]
      <4>1. CASE play.mode[r] = "auto"
        <5>1. EndTrx(r) /\ UNCHANGED <<ver, acked, locks>> BY <1>30, <4>1 DEF Finish
        <5> QED BY <5>1, <1>9a
      <4>2. CASE play.mode[r] # "auto" BY <1>30, <4>2 DEF Finish
      <4> QED BY <4>1, <4>2
    <3> QED BY <3>1, <3>2
  <2>3. TypedWriters' BY <1>30 DEF Finish, EndSelect, NoVersions, EndTrx
  <2>4. play' \in Plays /\ size' \in BOOLEAN /\ guard' \in Client \cup {None} BY <1>30 DEF Finish, EndSelect, NoVersions, EndTrx
  <2>5. net' \in [Client -> Query \cup {None}] BY <1>30 DEF Finish, EndSelect, NoVersions, EndTrx
  <2> QED BY <2>1, <2>2, <2>3, <2>4, <2>5
<1>31. CASE UnlockTables(r)
  <2>1. TypedThreads' BY <1>31 DEF UnlockTables, EndTrx
  <2>2. TypedEngine'
    <3>1. tl' \in [Table -> [readers : SUBSET Reader, writer : Writer \cup {None}]] BY <1>31, <1>9 DEF UnlockTables
    <3>2. /\ ver' \in Versions /\ acked' \in Versions
          /\ locks' \in [Table -> SUBSET Writer] /\ inv' \in [Table -> SUBSET Client]
          /\ active' \in [Client -> BOOLEAN] /\ view' \in [Reader -> Versions \cup {None}]
      <4>1. CASE play.mode[r] = "auto"
        <5>1. EndTrx(r) /\ UNCHANGED <<ver, acked, locks>> BY <1>31, <4>1 DEF UnlockTables
        <5> QED BY <5>1, <1>9a
      <4>2. CASE play.mode[r] # "auto" BY <1>31, <4>2 DEF UnlockTables
      <4> QED BY <4>1, <4>2
    <3> QED BY <3>1, <3>2
  <2>3. TypedWriters' BY <1>31 DEF UnlockTables, EndTrx
  <2>4. play' \in Plays /\ size' \in BOOLEAN /\ guard' \in Client \cup {None} BY <1>31 DEF UnlockTables, EndTrx
  <2>5. net' \in [Client -> Query \cup {None}] BY <1>31 DEF UnlockTables, EndTrx
  <2> QED BY <2>1, <2>2, <2>3, <2>4, <2>5
<1>32. CASE CommitReads(r) BY <1>32 DEF CommitReads, EndTrx
<1>33. ASSUME NEW q \in Query, Select(r, q) PROVE TypedRest'
  <2>1. \E l \in ReaderPlace : pc' = [pc EXCEPT ![r] = l] BY <1>33 DEF Select
  <2>2. left' \in [Client -> Nat]
    <3>1. left \in [Client -> Nat] /\ left[r] > 0 /\ left' = [left EXCEPT ![r] = left[r] - 1] BY <1>33 DEF Select
    <3>2. left[r] - 1 \in Nat BY <3>1
    <3> QED BY <3>1, <3>2
  <2>3. query' \in [Reader -> Query \cup {None}] /\ need' \in [Reader -> Versions] BY <1>33 DEF Select
  <2>4. /\ UNCHANGED <<play, size, guard, net, todo, safe, n, res, dirty, ver, acked, locks, inv, active, view, tl>>
        /\ UNCHANGED <<target, changed, mine>>
    BY <1>33 DEF Select
  <2> QED BY <2>1, <2>2, <2>3, <2>4, <1>8
<1> QED BY <1>10, <1>11, <1>12, <1>13, <1>14, <1>15, <1>16, <1>17, <1>18, <1>19, <1>20, <1>21, <1>22, <1>23, <1>24, <1>25, <1>26, <1>27, <1>28, <1>29, <1>30, <1>31, <1>32, <1>33 DEF SelectStep

(* a step of a statement that changes tables keeps the types *)
LEMMA WriterTypes ==
    ASSUME BlockInv, NEW w \in Writer,
           \/ WriteStep(w) \/ Rollback(w) \/ Commit(w)
           \/ \E t \in Table, how \in {"direct", "cascade"} : Modify(w, t, how)
    PROVE  TypedRest'
<1> USE DEF Goto, cache, thd, engine, writer, TypedRest, TypedThreads, TypedEngine, TypedWriters,
            Versions, WriterPlace
<1>1. TypedRest BY DEF BlockInv, Typed, TypedCache
<1>3. w \in Client /\ w # None /\ w \notin Reader /\ w # Admin BY Clients
<1> USE <1>1, <1>3
<1>8. ASSUME pc' = pc \/ \E l \in WriterPlace : pc' = [pc EXCEPT ![w] = l]
      PROVE  /\ pc' \in [Client -> ReaderPlace \cup WriterPlace \cup AdminPlace]
             /\ \A s \in Reader : pc'[s] \in ReaderPlace
             /\ \A v \in Writer : pc'[v] \in WriterPlace
             /\ pc'[Admin] \in AdminPlace
  <2> HIDE DEF WriterPlace
  <2>1. CASE pc' = pc BY <2>1
  <2>2. CASE \E l \in WriterPlace : pc' = [pc EXCEPT ![w] = l]
    <3>1. PICK l \in WriterPlace : pc' = [pc EXCEPT ![w] = l] BY <2>2
    <3>2. pc'[w] = l /\ \A c \in Client \ {w} : pc'[c] = pc[c] BY <3>1
    <3>3. \A c \in Reader \cup {Admin} : c \in Client /\ c # w BY Clients
    <3>4. pc' \in [Client -> ReaderPlace \cup WriterPlace \cup AdminPlace] BY <3>1
    <3> QED BY <3>2, <3>3, <3>4, Clients
  <2> QED BY <1>8, <2>1, <2>2
<1>9. \A t \in Table, v \in Writer \cup {None} :
          [tl[t] EXCEPT !.writer = v] \in [readers : SUBSET Reader, writer : Writer \cup {None}]
  <2> SUFFICES ASSUME NEW t \in Table, NEW v \in Writer \cup {None}, NEW x, x = tl[t]
               PROVE  [x EXCEPT !.writer = v] \in [readers : SUBSET Reader, writer : Writer \cup {None}]
    OBVIOUS
  <2>1. x \in [readers : SUBSET Reader, writer : Writer \cup {None}] OBVIOUS
  <2> HIDE <1>1
  <2> QED BY <2>1
<1>9a. AfterInvalidate(w) \in WriterPlace BY DEF AfterInvalidate
<1>9b. ASSUME NEW undo \in BOOLEAN, ReleaseLocks(w, undo)
       PROVE  /\ locks' \in [Table -> SUBSET Writer] /\ inv' \in [Table -> SUBSET Client]
              /\ active' \in [Client -> BOOLEAN]
  BY <1>9b DEF ReleaseLocks
<1>10. CASE Defer(w) BY <1>10 DEF Defer
<1>11. CASE InvalidateNot(w)
  <2> HIDE DEF WriterPlace
  <2>1. \E l \in WriterPlace : pc' = [pc EXCEPT ![w] = l] BY <1>11, <1>9a DEF InvalidateNot
  <2> QED BY <2>1, <1>8, <1>11 DEF InvalidateNot
<1>12. CASE InvalidateEnter(w) BY <1>12 DEF InvalidateEnter
<1>13. CASE invalidate_table(w)
  <2>1. PICK q : ForgetWriter(q) BY <1>13 DEF invalidate_table
  <2>2. net' \in [Client -> Query \cup {None}] BY <2>1 DEF ForgetWriter
  <2> QED BY <2>2, <1>13 DEF invalidate_table
<1>14. CASE InvalidateDone(w)
  <2> HIDE DEF WriterPlace
  <2>1. \E l \in WriterPlace : pc' = [pc EXCEPT ![w] = l] BY <1>14, <1>9a DEF InvalidateDone
  <2> QED BY <2>1, <1>8, <1>14 DEF InvalidateDone
<1>15. CASE Commit(w)
  <2>1. \E l \in WriterPlace : pc' = [pc EXCEPT ![w] = l] BY <1>15 DEF Commit
  <2>2. ver' \in Versions BY <1>15 DEF Commit
  <2>3. mine' \in [Writer -> Versions] BY <1>15 DEF Commit
  <2>4. target' \in [Writer -> SUBSET Table] /\ changed' \in [Writer -> SUBSET Table] BY <1>15 DEF Commit
  <2>5. ReleaseLocks(w, TRUE) BY <1>15 DEF Commit
  <2>6. UNCHANGED <<play, size, guard, net, query, todo, safe, n, res, dirty, need, acked, view, tl, left>> BY <1>15 DEF Commit
  <2> QED BY <2>1, <2>2, <2>3, <2>4, <2>5, <2>6, <1>8, <1>9b
<1>16. CASE UnlockMyisam(w)
  <2>1. \E l \in WriterPlace : pc' = [pc EXCEPT ![w] = l] BY <1>16 DEF UnlockMyisam
  <2>2. ver' \in Versions BY <1>16 DEF UnlockMyisam
  <2>3. mine' \in [Writer -> Versions] BY <1>16 DEF UnlockMyisam
  <2>4. tl' \in [Table -> [readers : SUBSET Reader, writer : Writer \cup {None}]] BY <1>16, <1>9 DEF UnlockMyisam
  <2>5. UNCHANGED <<play, size, guard, net, query, todo, safe, n, res, dirty, need, acked, locks, inv, active, view, target, changed, left>>
    BY <1>16 DEF UnlockMyisam
  <2> QED BY <2>1, <2>2, <2>3, <2>4, <2>5, <1>8
<1>17. CASE Answer(w)
  <2>1. \E l \in WriterPlace : pc' = [pc EXCEPT ![w] = l] BY <1>17 DEF Answer
  <2>2. acked' \in Versions BY <1>17 DEF Answer
  <2> QED BY <2>1, <2>2, <1>8, <1>17 DEF Answer
<1>18. CASE Rollback(w)
  <2>1. ReleaseLocks(w, FALSE) BY <1>18 DEF Rollback
  <2>2. \E l \in WriterPlace : pc' = [pc EXCEPT ![w] = l] BY <1>18 DEF Rollback
  <2>3. changed' \in [Writer -> SUBSET Table] BY <1>18 DEF Rollback
  <2>4. UNCHANGED <<play, size, guard, net, query, todo, safe, n, res, dirty, need, ver, acked, view, tl,
                    target, mine, left>> BY <1>18 DEF Rollback
  <2> QED BY <2>1, <2>2, <2>3, <2>4, <1>8, <1>9b
<1>19. ASSUME NEW t \in Table, NEW how \in {"direct", "cascade"}, Modify(w, t, how) PROVE TypedRest'
  <2>1. \E l \in WriterPlace : pc' = [pc EXCEPT ![w] = l] BY <1>19 DEF Modify
  <2>2. left' \in [Client -> Nat]
    <3>1. left \in [Client -> Nat] /\ left[w] > 0 /\ left' = [left EXCEPT ![w] = left[w] - 1] BY <1>19 DEF Modify
    <3>2. left[w] - 1 \in Nat BY <3>1
    <3> QED BY <3>1, <3>2
  <2>3. target' \in [Writer -> SUBSET Table] BY <1>19 DEF Modify
  <2>4. tl' \in [Table -> [readers : SUBSET Reader, writer : Writer \cup {None}]]
    <3>1. CASE t \in Myisam
      <4>1. tl' = [tl EXCEPT ![t] = [tl[t] EXCEPT !.writer = w]] BY <3>1, <1>19 DEF Modify
      <4>2. [tl[t] EXCEPT !.writer = w] \in [readers : SUBSET Reader, writer : Writer \cup {None}] BY <1>9
      <4> QED BY <4>1, <4>2
    <3>2. CASE t \notin Myisam BY <3>2, <1>19 DEF Modify
    <3> QED BY <3>1, <3>2
  <2>5. locks' \in [Table -> SUBSET Writer] /\ active' \in [Client -> BOOLEAN]
    <3>1. CASE t \in Myisam BY <3>1, <1>19 DEF Modify
    <3>2. CASE t \notin Myisam
      <4>1. locks' = [locks EXCEPT ![t] = @ \cup {w}] /\ active' = [active EXCEPT ![w] = TRUE]
        BY <3>2, <1>19 DEF Modify
      <4> QED BY <4>1
    <3> QED BY <3>1, <3>2
  <2>6. UNCHANGED <<play, size, guard, net, query, todo, safe, n, res, dirty, need, ver, acked, inv, view, changed, mine>>
    BY <1>19 DEF Modify
  <2> QED BY <2>1, <2>2, <2>3, <2>4, <2>5, <2>6, <1>8
<1> QED BY <1>10, <1>11, <1>12, <1>13, <1>14, <1>15, <1>16, <1>17, <1>18, <1>19, ZenonT(40) DEF WriteStep

(* a step of the administrator keeps the types *)
LEMMA AdminTypes ==
    ASSUME BlockInv, AdminStep \/ Flush
    PROVE  TypedRest'
<1> USE DEF Goto, cache, thd, engine, writer, TypedRest, TypedThreads, AdminPlace
<1>1. TypedRest BY DEF BlockInv, Typed, TypedCache
<1>3. Admin \in Client /\ Admin # None /\ Admin \notin Reader /\ Admin \notin Writer BY Clients
<1> USE <1>1, <1>3
<1>4. ASSUME UNCHANGED <<engine, target, changed, mine, left>> PROVE TypedEngine' /\ TypedWriters'
  BY <1>4 DEF TypedEngine, TypedWriters
<1>5. ASSUME UNCHANGED engine PROVE TypedEngine' BY <1>5 DEF TypedEngine
<1>6. ASSUME NEW l \in AdminPlace, pc' = [pc EXCEPT ![Admin] = l], UNCHANGED thd PROVE TypedThreads'
  <2>1. pc'[Admin] = l /\ \A c \in Client \ {Admin} : pc'[c] = pc[c] BY <1>6
  <2>2. \A c \in Reader \cup Writer : c \in Client /\ c # Admin BY Clients
  <2>3. pc' \in [Client -> ReaderPlace \cup WriterPlace \cup AdminPlace]
    <3> HIDE DEF AdminPlace
    <3> QED BY <1>6
  <2>4. \A r \in Reader : pc'[r] \in ReaderPlace BY <2>1, <2>2
  <2>5. \A w \in Writer : pc'[w] \in WriterPlace BY <2>1, <2>2
  <2> QED BY <2>1, <2>3, <2>4, <2>5, <1>6
<1>10. CASE Flush
  <2>1. TypedEngine' BY <1>5, <1>10 DEF Flush
  <2>2. left' \in [Client -> Nat]
    <3>1. left \in [Client -> Nat] /\ left[Admin] > 0 /\ left' = [left EXCEPT ![Admin] = left[Admin] - 1]
      BY <1>10 DEF Flush, TypedWriters
    <3>2. left[Admin] - 1 \in Nat BY <3>1
    <3> QED BY <3>1, <3>2
  <2>3. TypedWriters' BY <2>2, <1>10 DEF Flush, TypedWriters
  <2>4. TypedThreads'
    <3>1. \E l \in AdminPlace : pc' = [pc EXCEPT ![Admin] = l] BY <1>10 DEF Flush
    <3>2. UNCHANGED thd BY <1>10 DEF Flush
    <3> HIDE DEF TypedThreads, thd
    <3> QED BY <3>1, <3>2, <1>6
  <2> HIDE DEF TypedThreads
  <2> QED BY <2>1, <2>3, <2>4, <1>10 DEF Flush
<1>11. CASE flush_cache
  <2>2. net' \in [Client -> Query \cup {None}] BY <1>11 DEF flush_cache, ForgetWriter
  <2> QED BY <2>2, <1>4, <1>11 DEF flush_cache
<1>12. CASE FlushDone BY <1>4, <1>12 DEF FlushDone
<1>13. CASE free_cache
  <2>1. pc' = [pc EXCEPT ![Admin] = "init"] /\ UNCHANGED thd BY <1>13 DEF free_cache
  <2>2. TypedThreads'
    <3> HIDE DEF TypedThreads, thd
    <3> QED BY <2>1, <1>6
  <2> HIDE DEF TypedThreads
  <2> QED BY <2>2, <1>4, <1>13 DEF free_cache
<1>14. CASE init_cache BY <1>4, <1>14 DEF init_cache
<1> QED BY <1>10, <1>11, <1>12, <1>13, <1>14 DEF AdminStep

-----------------------------------------------------------------------------
(* A step of one connection *)

(* the mutex is taken, released or left alone by c *)
GuardStep(c) ==
    \/ guard' = guard
    \/ guard = None /\ guard' = c
    \/ guard = c /\ guard' = None

(* a connection that does not move *)
LEMMA ReaderKept ==
    ASSUME NEW s \in Reader, ReaderInv(s), Same(s), NEW c, c # s, GuardStep(c)
    PROVE  ReaderInv(s)'
<1>1. s # None BY Clients
<1> QED BY <1>1 DEF ReaderInv, Same, GuardStep, Busy

(* what is true of the others when c moves *)
Stay(c) ==
    /\ play' = play /\ GuardStep(c)
    /\ \A s \in Reader \ {c} : Same(s)
    /\ \A d \in Client \ {c} : pc'[d] = pc[d]

(* a SELECT moves *)
LEMMA ReaderMoves ==
    ASSUME BlockInv, NEW r \in Reader, TypedRest', CacheOK(qc, {}, {})', size' = size, Stay(r), ReaderInv(r)',
           guard' = r => size, size \/ Present(qc)' \subseteq Present(qc)
    PROVE  BlockInv'
<1>1. \A s \in Reader : ReaderInv(s) BY BlockFacts
<1>2. \A s \in Reader : ReaderInv(s)' BY <1>1, ReaderKept DEF Stay
<1>3. qc' \in Caches BY DEF CacheOK
<1>4. Typed' BY <1>3 DEF Typed, TypedRest, TypedCache
<1>5. Guarded'
  <2>1. Guarded BY DEF BlockInv
  <2>2. \A w \in Writer : pc'[w] = pc[w] /\ (guard' = w <=> guard = w) BY Clients DEF Stay, GuardStep
  <2>3. pc'[Admin] = pc[Admin] /\ (guard' = Admin <=> guard = Admin) BY Clients DEF Stay, GuardStep
  <2>4. guard' \in Reader \cup Writer => size' BY <2>1, Clients DEF Guarded, Stay, GuardStep
  <2>5. ~size' => Present(qc)' = {} BY <2>1 DEF Guarded
  <2>6. \A w \in Writer : pc'[w] = "free" <=> guard' = w BY <2>1, <2>2 DEF Guarded
  <2>7. /\ pc'[Admin] \in {"reset", "resize", "init"} <=> guard' = Admin
        /\ pc'[Admin] = "init" => ~size'
    BY <2>1, <2>3 DEF Guarded
  <2> QED BY <2>4, <2>5, <2>6, <2>7 DEF Guarded
<1> QED BY <1>2, <1>4, <1>5 DEF BlockInv

(* a SELECT moves, and the cache does not *)
LEMMA ReaderQuiet ==
    ASSUME BlockInv, NEW r \in Reader, TypedRest', qc' = qc, size' = size, Stay(r), ReaderInv(r)',
           guard' = r => size, SameWork(r)
    PROVE  BlockInv'
<1>1. \A s \in Reader : SameWork(s) BY SameIs DEF Stay
<1>2. CacheOK(qc, {}, {})' BY <1>1, QuietOK DEF Stay
<1>3. Present(qc)' \subseteq Present(qc) BY DEF Present
<1> QED BY <1>2, <1>3, ReaderMoves

(* a writer or the administrator moves, and the cache does not *)
LEMMA OtherQuiet ==
    ASSUME BlockInv, NEW c \in Writer \cup {Admin}, TypedRest', qc' = qc, Stay(c), Guarded'
    PROVE  BlockInv'
<1>1. \A s \in Reader : Same(s) /\ s # c BY Clients DEF Stay
<1>2. \A s \in Reader : SameWork(s) BY <1>1, SameIs
<1>3. CacheOK(qc, {}, {})' BY <1>2, QuietOK DEF Stay
<1>4. \A s \in Reader : ReaderInv(s)' BY <1>1, BlockFacts, ReaderKept DEF Stay
<1>5. qc' \in Caches BY <1>3 DEF CacheOK
<1>6. Typed' BY <1>5 DEF Typed, TypedRest, TypedCache
<1> QED BY <1>3, <1>4, <1>6 DEF BlockInv

(* a writer moves *)
LEMMA WriterQuiet ==
    ASSUME BlockInv, NEW w \in Writer, TypedRest', UNCHANGED <<play, qc, size, net, query, n, res, dirty>>,
           NEW l, pc' = [pc EXCEPT ![w] = l],
           \/ guard' = guard /\ pc[w] # "free" /\ l # "free"
           \/ guard = None /\ guard' = w /\ l = "free" /\ size
           \/ pc[w] = "free" /\ guard' = None /\ l # "free"
    PROVE  BlockInv'
<1>1. Guarded /\ pc \in [Client -> ReaderPlace \cup WriterPlace \cup AdminPlace]
  BY DEF BlockInv, Typed, TypedThreads
<1>2. pc'[w] = l /\ \A c \in Client \ {w} : pc'[c] = pc[c] BY <1>1, Clients
<1>3. GuardStep(w) BY <1>1 DEF Guarded, GuardStep
<1>4. Stay(w)
  <2>1. \A s \in Reader \ {w} : Same(s) BY <1>2, Clients DEF Same
  <2> QED BY <2>1, <1>2, <1>3 DEF Stay
<1>5. Guarded'
  <2>1. \A v \in Writer : pc'[v] = "free" <=> guard' = v BY <1>1, <1>2, Clients DEF Guarded
  <2>2. pc'[Admin] = pc[Admin] /\ (guard' = Admin <=> guard = Admin) BY <1>2, <1>3, Clients DEF GuardStep
  <2>3. guard' \in Reader \cup Writer => size' BY <1>1, Clients DEF Guarded
  <2>4. ~size' => Present(qc)' = {} BY <1>1 DEF Guarded, Present
  <2> QED BY <2>1, <2>2, <2>3, <2>4, <1>1 DEF Guarded
<1>6. qc' = qc OBVIOUS
<1> HIDE DEF BlockInv
<1> QED BY <1>4, <1>5, <1>6, OtherQuiet

(* a block is freed: the writer or the administrator c has the mutex *)
LEMMA FreeMoves ==
    ASSUME BlockInv, TypedRest', NEW q \in Present(qc), ~InUse(qc.entry[q]), qc' = free_query(qc, q),
           ForgetWriter(q), UNCHANGED <<play, size, guard, pc, query, n, res, dirty>>
    PROVE  BlockInv'
<1>0. /\ \A s \in Reader : s \in Client /\ s # None
      /\ net \in [Client -> Query \cup {None}]
  BY Clients DEF BlockInv, Typed, TypedCache
<1>1. ASSUME NEW s \in Reader, s = qc.entry[q].writer
      PROVE  net'[s] = None /\ pc[s] \in {"packet", "read"} /\ pc'[s] = pc[s]
  <2>1. Writes(s, q) /\ Busy(s) BY <1>0, <1>1, OwnerIs
  <2>2. WriterBlock(s, qc.entry[q]) BY <2>1, BlockFacts DEF Held
  <2>3. pc[s] \notin {"copy", "complete"} BY <2>2, <1>0 DEF WriterBlock, InUse
  <2> QED BY <2>1, <2>3, <1>0, <1>1 DEF Busy, ForgetWriter
<1>2. ASSUME NEW s \in Reader, s # qc.entry[q].writer PROVE Same(s)
  BY <1>0, <1>2 DEF ForgetWriter, Same
<1>3. Free(q) BY <1>1, <1>2 DEF Free
<1>4. CacheOK(qc, {}, {})' /\ Present(qc)' \subseteq Present(qc) BY <1>3, FreeOK
<1>5. ASSUME NEW s \in Reader PROVE ReaderInv(s)'
  <2>1. ReaderInv(s) BY BlockFacts
  <2>2. CASE s = qc.entry[q].writer
    <3>1. net'[s] = None /\ pc[s] \in {"packet", "read"} /\ pc'[s] = pc[s] BY <2>2, <1>1
    <3> QED BY <2>1, <3>1 DEF ReaderInv
  <2>3. CASE s # qc.entry[q].writer
    <3>1. Same(s) BY <2>3, <1>2
    <3> QED BY <2>1, <3>1 DEF ReaderInv, Same, Busy
  <2> QED BY <2>2, <2>3
<1>6. qc' \in Caches BY <1>4 DEF CacheOK
<1>7. Typed' BY <1>6 DEF Typed, TypedRest, TypedCache
<1>8. Guarded' BY <1>4 DEF BlockInv, Guarded
<1> QED BY <1>4, <1>5, <1>7, <1>8 DEF BlockInv

(* the steps of a statement that changes tables *)
LEMMA WriterBlocks ==
    ASSUME BlockInv, NEW w \in Writer,
           \/ WriteStep(w) \/ Rollback(w) \/ Commit(w)
           \/ \E t \in Table, how \in {"direct", "cascade"} : Modify(w, t, how)
    PROVE  BlockInv'
<1>1. TypedRest' BY WriterTypes
<1>2. Guarded BY DEF BlockInv
<1>3. AfterInvalidate(w) # "free" BY DEF AfterInvalidate
<1>4. ASSUME NEW l, pc' = [pc EXCEPT ![w] = l], pc[w] # "free", l # "free", UNCHANGED cache,
             UNCHANGED <<query, n, res, dirty>>
      PROVE  BlockInv'
  <2>1. UNCHANGED <<play, qc, size, net, query, n, res, dirty>> /\ guard' = guard BY <1>4 DEF cache
  <2> HIDE DEF BlockInv
  <2> QED BY <2>1, <1>1, <1>4, WriterQuiet
<1> USE DEF Goto, thd
<1>10. CASE Defer(w)
  <2>1. pc' = [pc EXCEPT ![w] = "begun"] /\ pc[w] # "free" /\ UNCHANGED cache /\ UNCHANGED <<query, n, res, dirty>>
    BY <1>10 DEF Defer
  <2> QED BY <2>1, <1>4
<1>11. CASE InvalidateNot(w)
  <2>1. pc' = [pc EXCEPT ![w] = AfterInvalidate(w)] /\ pc[w] # "free" /\ UNCHANGED cache /\ UNCHANGED <<query, n, res, dirty>>
    BY <1>11 DEF InvalidateNot
  <2>2. PICK l : l = AfterInvalidate(w) OBVIOUS
  <2> QED BY <2>1, <2>2, <1>3, <1>4
<1>12. CASE InvalidateEnter(w)
  <2>1. /\ pc' = [pc EXCEPT ![w] = "free"] /\ guard = None /\ guard' = w /\ size
        /\ UNCHANGED <<play, qc, size, net, query, n, res, dirty>>
    BY <1>12 DEF InvalidateEnter
  <2> HIDE DEF BlockInv
  <2> QED BY <2>1, <1>1, WriterQuiet
<1>13. CASE invalidate_table(w)
  <2>1. PICK q \in Registered(target[w]) : ~InUse(qc.entry[q]) /\ qc' = free_query(qc, q) /\ ForgetWriter(q)
    BY <1>13 DEF invalidate_table
  <2>2. q \in Present(qc)
    <3>1. target[w] \subseteq Table BY DEF BlockInv, Typed, TypedWriters
    <3>2. PICK t \in Table : q \in qc.tbl[t] BY <2>1, <3>1 DEF Registered
    <3> QED BY <3>2, BlockFacts DEF Linked
  <2>3. UNCHANGED <<play, size, guard, pc, query, n, res, dirty>> BY <1>13 DEF invalidate_table
  <2> QED BY <2>1, <2>2, <2>3, <1>1, FreeMoves
<1>14. CASE InvalidateDone(w)
  <2>1. /\ pc' = [pc EXCEPT ![w] = AfterInvalidate(w)] /\ pc[w] = "free" /\ guard' = None
        /\ UNCHANGED <<play, qc, size, net, query, n, res, dirty>>
    BY <1>14 DEF InvalidateDone
  <2>2. PICK l : l = AfterInvalidate(w) OBVIOUS
  <2> HIDE DEF BlockInv
  <2> QED BY <2>1, <2>2, <1>1, <1>3, WriterQuiet
<1>15. CASE Commit(w)
  <2>1. PICK l : l = IF changed[w] # {} THEN "check" ELSE "ack" OBVIOUS
  <2>3. pc' = [pc EXCEPT ![w] = l] /\ l # "free" BY <1>15, <2>1 DEF Commit
  <2>2. pc[w] # "free" /\ UNCHANGED cache /\ UNCHANGED <<query, n, res, dirty>> BY <1>15 DEF Commit
  <2> QED BY <2>2, <2>3, <1>4
<1>16. CASE UnlockMyisam(w)
  <2>1. pc' = [pc EXCEPT ![w] = "ack"] /\ pc[w] # "free" /\ UNCHANGED cache /\ UNCHANGED <<query, n, res, dirty>>
    BY <1>16 DEF UnlockMyisam
  <2> QED BY <2>1, <1>4
<1>17. CASE Answer(w)
  <2>1. PICK l : l = IF active[w] THEN "begun" ELSE "idle" OBVIOUS
  <2>3. pc' = [pc EXCEPT ![w] = l] /\ l # "free" BY <1>17, <2>1 DEF Answer
  <2>2. pc[w] # "free" /\ UNCHANGED cache /\ UNCHANGED <<query, n, res, dirty>> BY <1>17 DEF Answer
  <2> QED BY <2>2, <2>3, <1>4
<1>18. CASE Rollback(w)
  <2>1. pc' = [pc EXCEPT ![w] = "idle"] /\ pc[w] # "free" /\ UNCHANGED cache /\ UNCHANGED <<query, n, res, dirty>>
    BY <1>18 DEF Rollback
  <2> QED BY <2>1, <1>4
<1>19. ASSUME NEW t \in Table, NEW how \in {"direct", "cascade"}, Modify(w, t, how) PROVE BlockInv'
  <2>1. PICK l : pc' = [pc EXCEPT ![w] = l] /\ l # "free" BY <1>19 DEF Modify
  <2>2. pc[w] # "free" /\ UNCHANGED cache /\ UNCHANGED <<query, n, res, dirty>> BY <1>19 DEF Modify
  <2> QED BY <2>1, <2>2, <1>4
<1> QED BY <1>10, <1>11, <1>12, <1>13, <1>14, <1>15, <1>16, <1>17, <1>18, <1>19 DEF WriteStep

(* the steps of the administrator *)
LEMMA AdminBlocks ==
    ASSUME BlockInv, AdminStep \/ Flush
    PROVE  BlockInv'
<1>1. TypedRest' BY AdminTypes
<1>2. Guarded /\ pc \in [Client -> ReaderPlace \cup WriterPlace \cup AdminPlace]
  BY DEF BlockInv, Typed, TypedThreads
<1>3. Admin \in Client /\ Admin # None BY Clients
<1>4. ASSUME NEW l, pc' = [pc EXCEPT ![Admin] = l], UNCHANGED <<play, qc, net, query, n, res, dirty>>,
             GuardStep(Admin), guard' = Admin <=> l \in {"reset", "resize", "init"},
             l = "init" => ~size', size' = size \/ Present(qc) = {}, guard' \in Reader \cup Writer => size' = size
      PROVE  BlockInv'
  <2>1. pc'[Admin] = l /\ \A c \in Client \ {Admin} : pc'[c] = pc[c] BY <1>2, <1>3, <1>4
  <2>2. \A s \in Reader \ {Admin} : Same(s) BY <2>1, <1>4, Clients DEF Same
  <2>3. Stay(Admin) BY <2>1, <2>2, <1>4 DEF Stay
  <2>4. Guarded'
    <3>1. \A w \in Writer : pc'[w] = pc[w] /\ (guard' = w <=> guard = w) BY <2>1, <1>4, Clients DEF GuardStep
    <3>2. guard' \in Reader \cup Writer => guard' = guard BY <1>4, Clients DEF GuardStep
    <3>3. Present(qc)' = Present(qc) BY <1>4 DEF Present
    <3>4. \A w \in Writer : pc'[w] = "free" <=> guard' = w BY <3>1, <1>2 DEF Guarded
    <3>5. guard' \in Reader \cup Writer => size' BY <3>2, <1>2, <1>4 DEF Guarded
    <3>6. ~size' => Present(qc)' = {} BY <3>3, <1>2, <1>4 DEF Guarded
    <3> QED BY <3>4, <3>5, <3>6, <2>1, <1>4 DEF Guarded
  <2>5. qc' = qc BY <1>4
  <2> HIDE DEF BlockInv
  <2> QED BY <2>3, <2>4, <2>5, <1>1, OtherQuiet
<1>5. ASSUME qc.lru = << >> PROVE Present(qc) = {} BY <1>5, BlockFacts DEF Linked, ToSet
<1> USE DEF Goto, thd
<1>10. CASE Flush
  <2>1. PICK l : pc' = [pc EXCEPT ![Admin] = l] /\ l \in {"reset", "resize"} BY <1>10 DEF Flush
  <2>2. guard = None /\ guard' = Admin /\ size' = size /\ UNCHANGED <<play, qc, net, query, n, res, dirty>> BY <1>10 DEF Flush
  <2> QED BY <2>1, <2>2, <1>4 DEF GuardStep
<1>11. CASE flush_cache
  <2>1. PICK q : q = Head(qc.lru) OBVIOUS
  <2>2. ~InUse(qc.entry[q]) /\ qc' = free_query(qc, q) /\ ForgetWriter(q) BY <2>1, <1>11 DEF flush_cache
  <2>3. q \in Present(qc)
    <3>1. qc.lru \in Seq(Query) BY BlockFacts, CacheFacts
    <3>2. qc.lru # << >> BY <1>11 DEF flush_cache
    <3>3. q \in ToSet(qc.lru) BY <2>1, <3>1, <3>2 DEF ToSet
    <3> QED BY <3>3, BlockFacts DEF Linked
  <2>4. UNCHANGED <<play, size, guard, pc, query, n, res, dirty>> BY <1>11 DEF flush_cache
  <2> QED BY <2>2, <2>3, <2>4, <1>1, FreeMoves
<1>12. CASE FlushDone
  <2>1. /\ pc' = [pc EXCEPT ![Admin] = "idle"] /\ pc[Admin] = "reset" /\ guard' = None /\ size' = size
        /\ UNCHANGED <<play, qc, net, query, n, res, dirty>>
    BY <1>12 DEF FlushDone
  <2>2. guard = Admin BY <2>1, <1>2 DEF Guarded
  <2> QED BY <2>1, <2>2, <1>3, <1>4 DEF GuardStep
<1>13. CASE free_cache
  <2>1. /\ pc' = [pc EXCEPT ![Admin] = "init"] /\ pc[Admin] = "resize" /\ guard' = guard /\ ~size'
        /\ UNCHANGED <<play, qc, net, query, n, res, dirty>> /\ qc.lru = << >>
    BY <1>13 DEF free_cache
  <2>2. guard = Admin /\ Present(qc) = {} BY <2>1, <1>2, <1>5 DEF Guarded
  <2> QED BY <2>1, <2>2, <1>3, <1>4, Clients DEF GuardStep
<1>14. CASE init_cache
  <2>1. /\ pc' = [pc EXCEPT ![Admin] = "idle"] /\ pc[Admin] = "init" /\ guard' = None
        /\ UNCHANGED <<play, qc, net, query, n, res, dirty>>
    BY <1>14 DEF init_cache
  <2>2. guard = Admin /\ Present(qc) = {} BY <2>1, <1>2 DEF Guarded
  <2> QED BY <2>1, <2>2, <1>3, <1>4, Clients DEF GuardStep
<1> QED BY <1>10, <1>11, <1>12, <1>13, <1>14 DEF AdminStep

-----------------------------------------------------------------------------
(* The steps of a SELECT *)

(* r is at l in the new state, and the others are where they were *)
LEMMA Moving ==
    ASSUME BlockInv, NEW r \in Reader, NEW l, pc' = [pc EXCEPT ![r] = l], play' = play, GuardStep(r),
           \A s \in Reader \ {r} :
               query'[s] = query[s] /\ net'[s] = net[s] /\ n'[s] = n[s] /\ res'[s] = res[s] /\ dirty'[s] = dirty[s]
    PROVE  Stay(r) /\ pc'[r] = l
<1>1. pc \in [Client -> ReaderPlace \cup WriterPlace \cup AdminPlace] BY DEF BlockInv, Typed, TypedThreads
<1>2. pc'[r] = l /\ \A c \in Client \ {r} : pc'[c] = pc[c] BY <1>1, Clients
<1> QED BY <1>2, Clients DEF Stay, Same

(* the steps that leave the cache as it is *)
LEMMA SelectQuiet ==
    ASSUME BlockInv, NEW r \in Reader,
           \/ LookupMiss(r) \/ (AskHit(r) /\ Permitted(r, Head(todo[r]))) \/ Open(r) \/ StoreNot(r) \/ StoreEnter(r)
           \/ ask_handler_allowance(r) \/ Read(r) \/ InsertNot(r) \/ ClearNet(r) \/ Finish(r)
           \/ UnlockTables(r) \/ CommitReads(r) \/ \E q \in Query : Select(r, q)
    PROVE  BlockInv'
<1>1. TypedRest'
  BY ReaderTypes DEF SelectStep
<1>2. ReaderInv(r) /\ Guarded BY BlockFacts DEF BlockInv
<1>3. /\ pc \in [Client -> ReaderPlace \cup WriterPlace \cup AdminPlace] /\ net \in [Client -> Query \cup {None}]
      /\ query \in [Reader -> Query \cup {None}] /\ n \in [Reader -> 0 .. NPackets] /\ res \in [Reader -> Versions] /\ dirty \in [Reader -> SUBSET Table]
      /\ r \in Client /\ r # None
  BY Clients DEF BlockInv, Typed, TypedCache, TypedThreads
<1> USE DEF Goto, cache, thd
<1>10. CASE LookupMiss(r)
  <2>1. /\ pc' = [pc EXCEPT ![r] = "open"] /\ pc[r] = "lookup"
        /\ UNCHANGED <<play, qc, size, guard, net, query, n, res, dirty>>
    BY <1>10 DEF LookupMiss
  <2>2. Stay(r) /\ pc'[r] = "open" BY <2>1, <1>3, Moving DEF GuardStep
  <2>3. ReaderInv(r)' BY <2>1, <2>2, <1>2, <1>3 DEF ReaderInv, Busy
  <2>4. SameWork(r) BY <2>1, <2>2, <1>2, <1>3 DEF SameWork, Writes, Reads, Busy, WriterBlock, ReaderInv
  <2> QED BY <2>1, <2>2, <2>3, <2>4, <1>1, <1>2, <1>3, ReaderQuiet DEF Guarded
<1>11. ASSUME UNCHANGED <<play, qc, size, guard, net, pc, query, n, res, dirty>> PROVE BlockInv'
  <2>1. Stay(r) /\ Same(r) BY <1>11 DEF Stay, Same, GuardStep
  <2>2. ReaderInv(r)' BY <1>11, <1>2 DEF ReaderInv, Busy
  <2>3. SameWork(r) BY <2>1, SameIs
  <2> QED BY <2>1, <2>2, <2>3, <1>1, <1>2, <1>11, ReaderQuiet, Zenon DEF Guarded
<1>12. CASE AskHit(r) /\ Permitted(r, Head(todo[r]))
  <2>1. UNCHANGED <<play, qc, size, guard, net, pc, query, n, res, dirty>> BY <1>12 DEF AskHit
  <2> QED BY <2>1, <1>11
<1>13. CASE Open(r)
  <2>1. /\ pc' = [pc EXCEPT ![r] = "store"] /\ pc[r] = "open" /\ \A s \in Reader \ {r} : res'[s] = res[s] /\ dirty'[s] = dirty[s]
        /\ UNCHANGED <<play, qc, size, guard, net, query, n>>
    BY <1>13 DEF Open
  <2>2. Stay(r) /\ pc'[r] = "store" BY <2>1, <1>3, Moving DEF GuardStep
  <2>3. ReaderInv(r)' BY <2>1, <2>2, <1>2, <1>3 DEF ReaderInv, Busy
  <2>4. SameWork(r) BY <2>1, <2>2, <1>2, <1>3 DEF SameWork, Writes, Reads, Busy, WriterBlock, ReaderInv
  <2> QED BY <2>1, <2>2, <2>3, <2>4, <1>1, <1>2, <1>3, ReaderQuiet DEF Guarded
<1>14. CASE StoreNot(r)
  <2>1. /\ pc' = [pc EXCEPT ![r] = "read"] /\ pc[r] = "store"
        /\ UNCHANGED <<play, qc, size, guard, net, query, n, res, dirty>>
    BY <1>14 DEF StoreNot
  <2>2. Stay(r) /\ pc'[r] = "read" BY <2>1, <1>3, Moving DEF GuardStep
  <2>3. ReaderInv(r)' BY <2>1, <2>2, <1>2, <1>3 DEF ReaderInv, Busy
  <2>4. SameWork(r)
    <3>1. net[r] = None BY <2>1, <1>2 DEF ReaderInv, Busy
    <3> QED BY <2>1, <2>2, <3>1, Clients DEF SameWork, Writes, Reads, Busy
  <2> QED BY <2>1, <2>2, <2>3, <2>4, <1>1, <1>2, <1>3, ReaderQuiet DEF Guarded
<1>15. CASE StoreEnter(r)
  <2>1. /\ pc' = [pc EXCEPT ![r] = "ask_store"] /\ pc[r] = "store" /\ guard = None /\ guard' = r /\ size
        /\ UNCHANGED <<play, qc, size, net, query, n, res, dirty>>
    BY <1>15 DEF StoreEnter
  <2>2. Stay(r) /\ pc'[r] = "ask_store" BY <2>1, <1>3, Moving DEF GuardStep
  <2>3. ReaderInv(r)' BY <2>1, <2>2, <1>2, <1>3 DEF ReaderInv, Busy
  <2>4. SameWork(r) BY <2>1, <2>2, <1>2, <1>3 DEF SameWork, Writes, Reads, Busy, WriterBlock, ReaderInv
  <2> QED BY <2>1, <2>2, <2>3, <2>4, <1>1, <1>2, <1>3, ReaderQuiet DEF Guarded
<1>16. CASE ask_handler_allowance(r)
  <2>1. CASE Permitted(r, Head(todo[r]))
    <3>1. UNCHANGED <<play, qc, size, guard, net, pc, query, n, res, dirty>> BY <1>16, <2>1 DEF ask_handler_allowance
    <3> QED BY <3>1, <1>11
  <2>2. CASE ~Permitted(r, Head(todo[r]))
    <3>1. /\ pc' = [pc EXCEPT ![r] = "read"] /\ pc[r] = "ask_store" /\ guard' = None
          /\ UNCHANGED <<play, qc, size, net, query, n, res, dirty>>
      BY <1>16, <2>2 DEF ask_handler_allowance
    <3>2. Stay(r) /\ pc'[r] = "read" BY <3>1, <1>2, Moving DEF GuardStep, ReaderInv
    <3>3. ReaderInv(r)' BY <3>1, <3>2, <1>2, <1>3 DEF ReaderInv, Busy
    <3>4. SameWork(r)
      <4>1. net[r] = None BY <3>1, <1>2 DEF ReaderInv, Busy
      <4> QED BY <3>1, <3>2, <4>1, Clients DEF SameWork, Writes, Reads, Busy
    <3> QED BY <3>1, <3>2, <3>3, <3>4, <1>1, <1>3, ReaderQuiet
  <2> QED BY <2>1, <2>2
<1>17. CASE Read(r)
  <2>1. /\ pc' = [pc EXCEPT ![r] = "packet"] /\ pc[r] = "read" /\ \A s \in Reader \ {r} : res'[s] = res[s] /\ dirty'[s] = dirty[s]
        /\ UNCHANGED <<play, qc, size, guard, net, query, n>>
    BY <1>17 DEF Read
  <2>2. Stay(r) /\ pc'[r] = "packet" BY <2>1, <1>3, Moving DEF GuardStep
  <2>3. ReaderInv(r)' BY <2>1, <2>2, <1>2, <1>3 DEF ReaderInv, Busy
  <2>4. SameWork(r) BY <2>1, <2>2, <1>2, <1>3 DEF SameWork, Writes, Reads, Busy, WriterBlock, ReaderInv
  <2> QED BY <2>1, <2>2, <2>3, <2>4, <1>1, <1>2, <1>3, ReaderQuiet DEF Guarded
<1>18. CASE InsertNot(r)
  <2>1. /\ UNCHANGED <<play, qc, size, guard, net, pc, query, res, dirty>> /\ net[r] = None /\ pc[r] = "packet"
        /\ \A s \in Reader \ {r} : n'[s] = n[s]
    BY <1>18, <1>3 DEF InsertNot
  <2>2. Stay(r) BY <2>1 DEF Stay, Same, GuardStep
  <2>3. ReaderInv(r)' BY <2>1, <1>2, <1>3 DEF ReaderInv, Busy
  <2>4. SameWork(r) BY <2>1, <1>2, <1>3, Clients DEF SameWork, Writes, Reads, Busy, ReaderInv
  <2> QED BY <2>1, <2>2, <2>3, <2>4, <1>1, <1>2, ReaderQuiet DEF Guarded
<1>19. CASE ClearNet(r)
  <2>1. /\ pc' = [pc EXCEPT ![r] = "finish"] /\ pc[r] = "clear" /\ net'[r] = None /\ \A s \in Reader \ {r} : net'[s] = net[s]
        /\ UNCHANGED <<play, qc, size, guard, query, n, res, dirty>>
    BY <1>19, <1>3, Clients DEF ClearNet
  <2>2. Stay(r) /\ pc'[r] = "finish" BY <2>1, <1>3, Moving DEF GuardStep
  <2>3. ReaderInv(r)' BY <2>1, <2>2, <1>2, <1>3 DEF ReaderInv, Busy
  <2>4. SameWork(r) BY <2>1, <2>2, <1>2, <1>3 DEF SameWork, Writes, Reads, Busy, WriterBlock, ReaderInv
  <2> QED BY <2>1, <2>2, <2>3, <2>4, <1>1, <1>2, <1>3, ReaderQuiet DEF Guarded
<1>20. CASE Finish(r)
  <2>1. /\ pc' = [pc EXCEPT ![r] = "idle"] /\ pc[r] = "finish" /\ n'[r] = 0
        /\ \A s \in Reader \ {r} : query'[s] = query[s] /\ n'[s] = n[s] /\ res'[s] = res[s] /\ dirty'[s] = dirty[s]
        /\ UNCHANGED <<play, qc, size, guard, net>>
    BY <1>20, <1>3 DEF Finish, EndSelect
  <2>2. Stay(r) /\ pc'[r] = "idle" BY <2>1, <1>3, Moving DEF GuardStep
  <2>3. ReaderInv(r)' BY <2>1, <2>2, <1>2, <1>3 DEF ReaderInv, Busy
  <2>4. SameWork(r) BY <2>1, <2>2, <1>2, <1>3 DEF SameWork, Writes, Reads, Busy, WriterBlock, ReaderInv
  <2> QED BY <2>1, <2>2, <2>3, <2>4, <1>1, <1>2, <1>3, ReaderQuiet DEF Guarded
<1>21. CASE UnlockTables(r) \/ CommitReads(r)
  <2>1. UNCHANGED <<play, qc, size, guard, net, pc, query, n, res, dirty>> BY <1>21 DEF UnlockTables, CommitReads
  <2> QED BY <2>1, <1>11
<1>22. ASSUME NEW q \in Query, Select(r, q) PROVE BlockInv'
  <2>1. /\ pc' = [pc EXCEPT ![r] = "lookup"] /\ pc[r] = "idle"
        /\ query'[r] = q /\ \A s \in Reader \ {r} : query'[s] = query[s]
        /\ UNCHANGED <<play, qc, size, guard, net, n, res, dirty>>
    BY <1>22, <1>3 DEF Select
  <2>2. Stay(r) /\ pc'[r] = "lookup" BY <2>1, <1>3, Moving DEF GuardStep
  <2>3. ReaderInv(r)' BY <2>1, <2>2, <1>2, <1>3 DEF ReaderInv, Busy
  <2>4. SameWork(r) BY <2>1, <2>2 DEF SameWork, Writes, Reads, Busy
  <2> QED BY <2>1, <2>2, <2>3, <2>4, <1>1, <1>2, <1>3, ReaderQuiet DEF Guarded
<1> QED BY <1>10, <1>12, <1>13, <1>14, <1>15, <1>16, <1>17, <1>18, <1>19, <1>20, <1>21, <1>22

BlockOK(b, q) ==
    IF b.st = "result"
      THEN b.writer = None /\ b.lock = None /\ b.pkts = NPackets /\ \A s \in b.readers : Reads(s, q)
      ELSE \E s \in Reader : Writes(s, q)

(* everybody who works on the block of q, r as he will, finds b in order *)
Fits(r, q, b) ==
    /\ \A s \in Reader \ {r} : /\ Writes(s, q) => WriterBlock(s, b)
                               /\ Reads(s, q) => ReaderBlock(s, b)
    /\ Writes(r, q)' => WriterBlock(r, b)'
    /\ Reads(r, q)' => ReaderBlock(r, b)
    /\ BlockOK(b, q)'

(* a SELECT changes its block, in the cache c that memory was found in *)
LEMMA PutMoves ==
    ASSUME BlockInv, NEW r \in Reader, NEW q, q \in Present(qc), query[r] = q, NEW b \in Block,
           NEW c, c \in Caches, Linked(c, {}, {}), Around(qc, c, q), c.entry[q] = qc.entry[q],
           \/ Blocks(c) <= play.memory /\ b.pkts <= c.entry[q].pkts
           \/ Blocks(c) < play.memory /\ b.pkts <= c.entry[q].pkts + 1,
           qc' = Put(c, q, b), size' = size,
           TypedRest', Stay(r), ReaderInv(r)', query'[r] \in {q, None}, guard' = r => size, Fits(r, q, b)
    PROVE  BlockInv'
<1>1. q \in Query /\ play \in Plays /\ Guarded BY BlockFacts DEF BlockInv
<1>2. q \in Present(c) BY <1>1 DEF Present
<1>3. PICK d : d = Put(c, q, b) OBVIOUS
<1>4. PutIs(c, q, b, d) BY <1>2, <1>3, PutOK
<1>5. Blocks(d) <= play.memory
  <2>1. Blocks(d) \in Nat /\ Blocks(c) \in Nat /\ play.memory \in Nat BY <1>1, BlocksAre, PlayFacts
  <2> QED BY <1>4, <2>1 DEF PutIs
<1>6. Around(qc, d, q) BY <1>4 DEF Around, PutIs
<1>7. EntryOK(d, q)'
  <2>1. d.entry[q] = b /\ BlockOK(b, q)' BY <1>4 DEF PutIs, Fits
  <2> QED BY <2>1 DEF EntryOK, BlockOK
<1>8. Touch(r, q, d)
  <2>1. \A s \in Reader \ {r} : SameWork(s) BY SameIs DEF Stay
  <2>2. play' = play /\ qc' = d BY <1>3 DEF Stay
  <2>3. d \in Caches /\ Linked(d, {}, {}) /\ d.entry[q] = b BY <1>4 DEF PutIs
  <2> QED BY <2>1, <2>2, <2>3, <1>5, <1>6, <1>7 DEF Touch, Fits
<1>9. CacheOK(qc, {}, {})' BY <1>1, <1>8, TouchOK
<1>10. size BY <1>1 DEF Guarded
<1> QED BY <1>9, <1>10, ReaderMoves

(* the block a SELECT writes *)
LEMMA WriterAt ==
    ASSUME BlockInv, NEW r \in Reader, pc[r] = "publish" \/ (net[r] # None /\ Busy(r))
    PROVE  LET q == query[r] IN
           /\ q \in Query /\ q \in Present(qc) /\ qc.entry[q] \in Block
           /\ Writes(r, q) /\ WriterBlock(r, qc.entry[q]) /\ (net[r] # None => net[r] = q)
           /\ \A s \in Reader \ {r} : ~Writes(s, q) /\ ~Reads(s, q)
           /\ ~Reads(r, q)
<1>1. ReaderInv(r) BY BlockFacts
<1>2. PICK q : q = query[r] OBVIOUS
<1>3. q \in Query /\ Writes(r, q) /\ (net[r] # None => net[r] = q) BY <1>1, <1>2 DEF ReaderInv, Writes, Busy
<1>4. WriterBlock(r, qc.entry[q]) BY <1>3, BlockFacts DEF Held
<1>5. q \in Present(qc) BY <1>3, <1>4 DEF WriterBlock, Present
<1>6. qc.entry[q] \in Block BY <1>5, BlockFacts
<1>7. \A s \in Reader : (Writes(s, q) => s = r) /\ ~Reads(s, q) BY <1>3, OneWriter
<1> QED BY <1>2, <1>3, <1>4, <1>5, <1>6, <1>7

(* the block a SELECT reads *)
LEMMA ReaderAt ==
    ASSUME BlockInv, NEW r \in Reader, pc[r] \in {"ask_hit", "sending"}
    PROVE  LET q == query[r] IN
           /\ q \in Query /\ q \in Present(qc) /\ qc.entry[q] \in Block
           /\ Reads(r, q) /\ ReaderBlock(r, qc.entry[q]) /\ BlockOK(qc.entry[q], q)
           /\ \A s \in Reader : ~Writes(s, q) /\ (Reads(s, q) => s \in qc.entry[q].readers)
<1>1. ReaderInv(r) BY BlockFacts
<1>2. PICK q : q = query[r] OBVIOUS
<1>3. q \in Query /\ Reads(r, q) BY <1>1, <1>2 DEF ReaderInv, Reads
<1>4. ReaderBlock(r, qc.entry[q]) BY <1>3, BlockFacts DEF Held
<1>5. q \in Present(qc) BY <1>3, <1>4 DEF ReaderBlock, Present
<1>6. qc.entry[q] \in Block BY <1>5, BlockFacts
<1>7. \A s \in Reader : ~Writes(s, q) BY <1>3, OneWriter
<1>8. \A s \in Reader : Reads(s, q) => s \in qc.entry[q].readers BY <1>3, BlockFacts DEF Held, ReaderBlock
<1>9. BlockOK(qc.entry[q], q)
  <2>1. EntryOK(qc, q) /\ qc.entry[q] # None BY <1>3, <1>4, BlockFacts DEF ReaderBlock
  <2> QED BY <2>1 DEF EntryOK, BlockOK
<1> QED BY <1>2, <1>3, <1>4, <1>5, <1>6, <1>7, <1>8, <1>9

(* the cache as it is *)
LEMMA CacheHere ==
    ASSUME BlockInv, NEW q
    PROVE  qc \in Caches /\ Linked(qc, {}, {}) /\ Around(qc, qc, q) /\ Blocks(qc) <= play.memory
BY BlockFacts DEF Around

(* a result is found, and locked for reading *)
LEMMA FoundBlocks == ASSUME BlockInv, NEW r \in Reader, Found(r) PROVE BlockInv'
<1>1. TypedRest' BY ReaderTypes DEF SelectStep
<1>2. ReaderInv(r) /\ pc[r] = "lookup" BY BlockFacts DEF Found
<1>3. PICK q : q = query[r] OBVIOUS
<1>4. q \in Query /\ net[r] = None BY <1>2, <1>3 DEF ReaderInv, Busy
<1>5. PICK e : e = qc.entry[q] OBVIOUS
<1>6. e # None /\ e.st = "result" /\ e.lock = None BY <1>3, <1>5 DEF Found, State
<1>7. q \in Present(qc) /\ e \in Block BY <1>4, <1>5, <1>6, BlockFacts DEF Present
<1>8. PICK b : b = [e EXCEPT !.readers = @ \cup {r}] OBVIOUS
<1>9. /\ b \in Block /\ b.readers = e.readers \cup {r} /\ b.st = "result" /\ b.writer = e.writer
      /\ b.lock = e.lock /\ b.pkts = e.pkts /\ e.readers \subseteq Reader /\ b # None /\ b.pkts \in Nat
  BY <1>6, <1>7, <1>8, NoneAssumption, Clients DEF Block, NoneAssumption
<1>10. /\ pc' = [pc EXCEPT ![r] = "ask_hit"] /\ guard = None /\ guard' = r /\ size
       /\ UNCHANGED <<play, size, net, query, n, res, dirty>>
  BY DEF Found, Goto
<1>11. Stay(r) /\ pc'[r] = "ask_hit" BY <1>10, Moving DEF GuardStep
<1>12. qc' = Put(qc, q, b)
  <2>1. qc' = [qc EXCEPT !.entry[q].readers = @ \cup {r}] BY <1>3 DEF Found
  <2> QED BY <2>1, <1>5, <1>8 DEF Put
<1>13. ReaderInv(r)' BY <1>2, <1>10, <1>11 DEF ReaderInv, Busy
<1>14. BlockOK(e, q)
  <2>1. EntryOK(qc, q) BY <1>4, BlockFacts
  <2> QED BY <2>1, <1>5, <1>6 DEF EntryOK, BlockOK
<1>15. Fits(r, q, b)
  <2>1. \A s \in Reader : /\ Writes(s, q) => WriterBlock(s, e)
                          /\ Reads(s, q) => ReaderBlock(s, e)
    BY <1>4, <1>5, BlockFacts DEF Held
  <2>2. \A s \in Reader : ~Writes(s, q) BY <2>1, <1>6 DEF WriterBlock
  <2>3. \A s \in Reader : Reads(s, q) => ReaderBlock(s, b) BY <2>1, <1>9 DEF ReaderBlock
  <2>4. ~Writes(r, q)' BY <1>11 DEF Writes, Busy
  <2>5. ReaderBlock(r, b) BY <1>9 DEF ReaderBlock
  <2>6. BlockOK(b, q)'
    <3>1. \A s \in e.readers : Reads(s, q) BY <1>6, <1>14 DEF BlockOK
    <3>2. r \notin e.readers BY <3>1, <1>2 DEF Reads
    <3>3. Reads(r, q)' BY <1>3, <1>10, <1>11 DEF Reads
    <3>4. \A s \in e.readers : Reads(s, q)' BY <3>1, <3>2, <1>9, <1>11 DEF Stay, Same, Reads
    <3>5. e.writer = None /\ e.pkts = NPackets BY <1>6, <1>14 DEF BlockOK
    <3> QED BY <3>3, <3>4, <3>5, <1>6, <1>9 DEF BlockOK
  <2> QED BY <2>2, <2>3, <2>4, <2>5, <2>6 DEF Fits
<1>16. Blocks(qc) <= play.memory /\ b.pkts <= qc.entry[q].pkts BY <1>5, <1>9, BlockFacts
<1> QED BY <1>1, <1>3, <1>5, <1>7, <1>9, <1>10, <1>11, <1>12, <1>13, <1>15, <1>16, CacheHere, PutMoves

(* a result is not read any more *)
LEMMA UnreadBlocks ==
    ASSUME BlockInv, NEW r \in Reader, pc[r] \in {"ask_hit", "sending"}, NEW l \in {"open", "idle"},
           TypedRest', qc' = [qc EXCEPT !.entry[query[r]].readers = @ \ {r}],
           Stay(r), pc'[r] = l, query'[r] \in {query[r], None}, l # "idle" => query'[r] = query[r],
           net' = net, n'[r] = 0, size' = size, guard' # r
    PROVE  BlockInv'
<1>2. ReaderInv(r) BY BlockFacts
<1>3. PICK q, e : q = query[r] /\ e = qc.entry[q] OBVIOUS
<1>4. /\ q \in Query /\ q \in Present(qc) /\ e \in Block /\ Reads(r, q) /\ ReaderBlock(r, e) /\ BlockOK(e, q)
      /\ \A s \in Reader : ~Writes(s, q) /\ (Reads(s, q) => s \in e.readers)
  BY <1>3, ReaderAt
<1>5. net[r] = None BY <1>2 DEF ReaderInv, Busy
<1>6. e.st = "result" BY <1>4 DEF ReaderBlock
<1>8. PICK b : b = [e EXCEPT !.readers = @ \ {r}] OBVIOUS
<1>9. /\ b \in Block /\ b.readers = e.readers \ {r} /\ b.st = "result" /\ b.writer = e.writer
      /\ b.lock = e.lock /\ b.pkts = e.pkts /\ e.readers \subseteq Reader /\ b # None /\ b.pkts \in Nat
  BY <1>4, <1>6, <1>8, NoneAssumption, Clients DEF Block, NoneAssumption
<1>12. qc' = Put(qc, q, b)
  <2>1. qc' = [qc EXCEPT !.entry[q].readers = @ \ {r}] BY <1>3
  <2> QED BY <2>1, <1>3, <1>8 DEF Put
<1>13. ReaderInv(r)' BY <1>2, <1>3, <1>4, <1>5 DEF ReaderInv, Busy
<1>15. Fits(r, q, b)
  <2>1. \A s \in Reader \ {r} : Reads(s, q) => ReaderBlock(s, b) BY <1>4, <1>9 DEF ReaderBlock
  <2>2. ~Writes(r, q)' /\ ~Reads(r, q)' BY DEF Writes, Reads, Busy
  <2>3. BlockOK(b, q)'
    <3>1. \A s \in e.readers : Reads(s, q) BY <1>6, <1>4 DEF BlockOK
    <3>2. \A s \in b.readers : Reads(s, q)' BY <3>1, <1>9 DEF Stay, Same, Reads
    <3>3. e.writer = None /\ e.lock = None /\ e.pkts = NPackets BY <1>6, <1>4 DEF BlockOK
    <3> QED BY <3>2, <3>3, <1>9 DEF BlockOK
  <2> QED BY <2>1, <2>2, <2>3, <1>4 DEF Fits
<1>16. Blocks(qc) <= play.memory /\ b.pkts <= qc.entry[q].pkts BY <1>3, <1>9, BlockFacts
<1> QED BY <1>3, <1>4, <1>9, <1>12, <1>13, <1>15, <1>16, CacheHere, PutMoves

(* InnoDB refuses the result, or it has been sent *)
LEMMA LeaveBlocks ==
    ASSUME BlockInv, NEW r \in Reader, (AskHit(r) /\ ~Permitted(r, Head(todo[r]))) \/ Sent(r)
    PROVE  BlockInv'
<1>1. TypedRest' BY ReaderTypes DEF SelectStep
<1>2. ReaderInv(r) BY BlockFacts
<1>3. /\ query \in [Reader -> Query \cup {None}] /\ n \in [Reader -> 0 .. NPackets] /\ res \in [Reader -> Versions] /\ dirty \in [Reader -> SUBSET Table]
      /\ r # None
  BY Clients DEF BlockInv, Typed, TypedThreads
<1>4. CASE AskHit(r) /\ ~Permitted(r, Head(todo[r]))
  <2>1. /\ pc' = [pc EXCEPT ![r] = "open"] /\ pc[r] = "ask_hit" /\ guard' = None
        /\ qc' = [qc EXCEPT !.entry[query[r]].readers = @ \ {r}]
        /\ UNCHANGED <<play, size, net, query, n, res, dirty>>
    BY <1>4 DEF AskHit, Goto
  <2>2. Stay(r) /\ pc'[r] = "open" BY <2>1, <1>2, Moving DEF GuardStep, ReaderInv
  <2>3. n'[r] = 0 BY <2>1, <1>2 DEF ReaderInv
  <2> QED BY <2>1, <2>2, <2>3, <1>1, <1>3, UnreadBlocks
<1>5. CASE Sent(r)
  <2>1. /\ pc' = [pc EXCEPT ![r] = "idle"] /\ pc[r] = "sending"
        /\ qc' = [qc EXCEPT !.entry[query[r]].readers = @ \ {r}]
        /\ UNCHANGED <<play, size, net, guard>>
    BY <1>5 DEF Sent, EndSelect
  <2>2. /\ query'[r] = None /\ n'[r] = 0
        /\ \A s \in Reader \ {r} : query'[s] = query[s] /\ n'[s] = n[s] /\ res'[s] = res[s] /\ dirty'[s] = dirty[s]
    BY <1>3, <1>5 DEF Sent, EndSelect
  <2>3. Stay(r) /\ pc'[r] = "idle" BY <2>1, <2>2, Moving DEF GuardStep
  <2>4. guard' # r BY <2>1, <1>2 DEF ReaderInv
  <2> QED BY <2>1, <2>2, <2>3, <2>4, <1>1, UnreadBlocks
<1> QED BY <1>4, <1>5

(* a query goes to the end of queries_blocks *)
LEMMA ToEndOK ==
    ASSUME NEW c \in Caches, Linked(c, {}, {}), NEW q \in Present(c),
           NEW d, d = [c EXCEPT !.lru = Append(Without(@, {q}), q)]
    PROVE  d \in Caches /\ Linked(d, {}, {}) /\ d.entry = c.entry /\ Blocks(d) = Blocks(c)
<1>1. /\ c.entry \in [Query -> Block \cup {None}] /\ c.lru \in Seq(Query)
      /\ c.tbl \in [Table -> SUBSET Query] /\ c = [entry |-> c.entry, lru |-> c.lru, tbl |-> c.tbl]
      /\ q \in Query
  BY CacheFacts DEF Present
<1>2. PICK u : u = Without(c.lru, {q}) OBVIOUS
<1>3. u \in Seq(Query) /\ ToSet(u) = ToSet(c.lru) \ {q} /\ Distinct(u)
  BY <1>1, <1>2, WithoutFacts, WithoutDistinct DEF Linked
<1>4. PICK v : v = Append(u, q) OBVIOUS
<1>5. v \in Seq(Query) /\ ToSet(v) = ToSet(u) \cup {q} /\ Distinct(v) BY <1>1, <1>3, <1>4, AppendFacts
<1>6. d = [c EXCEPT !.lru = v] BY <1>2, <1>4
<1>7. d.entry = c.entry /\ d.tbl = c.tbl /\ d.lru = v /\ d = [entry |-> c.entry, lru |-> v, tbl |-> c.tbl] BY <1>1, <1>6
<1>8. d \in Caches
  <2>1. [entry |-> c.entry, lru |-> v, tbl |-> c.tbl] \in Caches BY <1>1, <1>5 DEF Caches
  <2> QED BY <2>1, <1>7
<1>9. Present(d) = Present(c) BY <1>7 DEF Present
<1>10. Linked(d, {}, {}) BY <1>3, <1>5, <1>7, <1>9 DEF Linked
<1>11. Blocks(d) = Blocks(c) BY <1>7 DEF Blocks
<1> QED BY <1>7, <1>8, <1>10, <1>11

(* InnoDB has no objection to the result *)
LEMMA HitBlocks == ASSUME BlockInv, NEW r \in Reader, Hit(r) PROVE BlockInv'
<1>1. TypedRest' BY ReaderTypes DEF SelectStep
<1>2. ReaderInv(r) /\ pc[r] = "ask_hit" /\ Guarded BY BlockFacts DEF Hit, BlockInv
<1>3. PICK q, e : q = query[r] /\ e = qc.entry[q] OBVIOUS
<1>4. /\ q \in Query /\ q \in Present(qc) /\ e \in Block /\ Reads(r, q) /\ ReaderBlock(r, e) /\ BlockOK(e, q)
      /\ \A s \in Reader : ~Writes(s, q) /\ (Reads(s, q) => s \in e.readers)
  BY <1>2, <1>3, ReaderAt
<1>5. PICK d : d = [qc EXCEPT !.lru = Append(Without(@, {q}), q)] OBVIOUS
<1>6. /\ pc' = [pc EXCEPT ![r] = "sending"] /\ guard' = None /\ qc' = d
      /\ UNCHANGED <<play, size, net, query, n, res, dirty>>
  BY <1>3, <1>5 DEF Hit, Goto, thd
<1>7. Stay(r) /\ pc'[r] = "sending" BY <1>2, <1>6, Moving DEF GuardStep, ReaderInv
<1>8. ReaderInv(r)' BY <1>2, <1>6, <1>7, Clients DEF ReaderInv, Busy
<1>9. /\ d \in Caches /\ Linked(d, {}, {}) /\ d.entry = qc.entry /\ Blocks(d) = Blocks(qc)
  BY <1>4, <1>5, ToEndOK, BlockFacts
<1>10. Reads(r, q)' /\ ~Writes(r, q)' BY <1>3, <1>6, <1>7 DEF Reads, Writes, Busy
<1>11. EntryOK(d, q)'
  <2>1. e.st = "result" /\ e.readers \subseteq Reader BY <1>4 DEF ReaderBlock, Block
  <2>2. \A s \in e.readers : Reads(s, q)'
    BY <2>1, <1>4, <1>7, <1>10 DEF BlockOK, Stay, Same, Reads
  <2>3. e.writer = None /\ e.lock = None /\ e.pkts = NPackets BY <2>1, <1>4 DEF BlockOK
  <2> QED BY <2>1, <2>2, <2>3, <1>3, <1>9 DEF EntryOK
<1>12. Touch(r, q, d)
  <2>1. \A s \in Reader \ {r} : SameWork(s) BY <1>7, SameIs DEF Stay
  <2>2. Around(qc, d, q) BY <1>9 DEF Around
  <2>3. Blocks(d) <= play.memory BY <1>9, BlockFacts
  <2>4. \A s \in Reader : Reads(s, q) => ReaderBlock(s, d.entry[q]) BY <1>3, <1>4, <1>9 DEF ReaderBlock
  <2>5. query'[r] = q BY <1>3, <1>6
  <2> QED BY <2>1, <2>2, <2>3, <2>4, <2>5, <1>3, <1>4, <1>6, <1>9, <1>10, <1>11 DEF Touch
<1>13. CacheOK(qc, {}, {})' BY <1>4, <1>12, TouchOK
<1>14. guard' # r BY <1>6, Clients
<1>15. size BY <1>2, <1>4 DEF Guarded
<1> QED BY <1>1, <1>6, <1>7, <1>8, <1>13, <1>14, <1>15, ReaderMoves

(* the writer changes its block and goes on writing *)
LEMMA WriteBlocks ==
    ASSUME BlockInv, NEW r \in Reader, TypedRest', Stay(r), ReaderInv(r)', size' = size, guard' = r => size,
           pc[r] = "publish" \/ (net[r] # None /\ Busy(r)),
           NEW q, q = query[r], query'[r] = q, NEW b \in Block,
           NEW c, c \in Caches, Linked(c, {}, {}), Around(qc, c, q), c.entry[q] = qc.entry[q],
           \/ Blocks(c) <= play.memory /\ b.pkts <= c.entry[q].pkts
           \/ Blocks(c) < play.memory /\ b.pkts <= c.entry[q].pkts + 1,
           qc' = Put(c, q, b), Writes(r, q)', WriterBlock(r, b)'
    PROVE  BlockInv'
<1>1. /\ q \in Query /\ q \in Present(qc) /\ qc.entry[q] \in Block
      /\ \A s \in Reader \ {r} : ~Writes(s, q) /\ ~Reads(s, q)
  BY WriterAt
<1>2. ~Reads(r, q)' BY DEF Reads, Writes, Busy
<1>3. BlockOK(b, q)' BY DEF BlockOK, WriterBlock
<1>4. Fits(r, q, b) BY <1>1, <1>2, <1>3 DEF Fits
<1> QED BY <1>1, <1>4, PutMoves

(* the writer is known to its block, and the block is unlocked *)
LEMMA PublishBlocks == ASSUME BlockInv, NEW r \in Reader, Publish(r) PROVE BlockInv'
<1>1. TypedRest' BY ReaderTypes DEF SelectStep
<1>2. ReaderInv(r) /\ pc[r] = "publish" BY BlockFacts DEF Publish
<1>3. PICK q, e : q = query[r] /\ e = qc.entry[q] OBVIOUS
<1>4. /\ q \in Query /\ q \in Present(qc) /\ e \in Block /\ WriterBlock(r, e) BY <1>2, <1>3, WriterAt
<1>5. PICK b : b = [e EXCEPT !.writer = r, !.lock = None] OBVIOUS
<1>6. /\ b \in Block /\ b.readers = e.readers /\ b.st = e.st /\ b.writer = r
      /\ b.lock = None /\ b.pkts = e.pkts /\ b # None /\ b.pkts \in Nat /\ b.data = e.data /\ b.dirty = e.dirty
  <2>1. /\ e.st \in {"new", "begin", "result"} /\ e.readers \in SUBSET Reader /\ e.pkts \in 0 .. NPackets
        /\ e.data \in [Table -> Nat] /\ e.dirty \in SUBSET Table
    BY <1>4 DEF Block
  <2>2. b = [st |-> e.st, writer |-> r, lock |-> None, readers |-> e.readers, pkts |-> e.pkts, data |-> e.data, dirty |-> e.dirty]
    BY <1>4, <1>5 DEF Block
  <2>3. b \in Block BY <2>1, <2>2 DEF Block
  <2>4. b # None BY <2>3, NoneAssumption DEF NoneAssumption
  <2> QED BY <2>1, <2>2, <2>3, <2>4, Clients
<1>7. qc' = Put(qc, q, b)
  <2>1. qc' = [qc EXCEPT !.entry[q].writer = r, !.entry[q].lock = None] BY <1>3 DEF Publish
  <2>2. qc \in Caches BY BlockFacts
  <2>3. qc = [entry |-> qc.entry, lru |-> qc.lru, tbl |-> qc.tbl] /\ qc.entry \in [Query -> Block \cup {None}] BY <2>2, CacheFacts
  <2> QED BY <2>1, <2>3, <1>3, <1>4, <1>5 DEF Put
<1>8. /\ pc' = [pc EXCEPT ![r] = "read"] /\ net' = [net EXCEPT ![r] = q]
      /\ UNCHANGED <<play, size, guard, query, n, res, dirty>>
  BY <1>3 DEF Publish, Goto, thd
<1>9. net'[r] = q /\ \A s \in Reader \ {r} : net'[s] = net[s]
  BY <1>8, Clients DEF BlockInv, Typed, TypedCache
<1>10. Stay(r) /\ pc'[r] = "read" BY <1>8, <1>9, Moving DEF GuardStep
<1>11. ReaderInv(r)' BY <1>2, <1>3, <1>4, <1>8, <1>9, <1>10 DEF ReaderInv, Busy
<1>12. Writes(r, q)' BY <1>3, <1>8, <1>9, <1>10 DEF Writes, Busy
<1>13. WriterBlock(r, b)' BY <1>2, <1>4, <1>6, <1>8, <1>10 DEF WriterBlock
<1>14. guard' # r BY <1>2, <1>8 DEF ReaderInv
<1>15. Blocks(qc) <= play.memory /\ b.pkts <= qc.entry[q].pkts BY <1>3, <1>6, BlockFacts
<1>16. query'[r] = q BY <1>3, <1>8
<1> QED BY <1>1, <1>2, <1>3, <1>6, <1>7, <1>8, <1>10, <1>11, <1>12, <1>13, <1>14, <1>15, <1>16, CacheHere, WriteBlocks

(* a packet gets memory, and its block is locked for writing *)
LEMMA InsertBlocks == ASSUME BlockInv, NEW r \in Reader, query_cache_insert(r) PROVE BlockInv'
<1>1. TypedRest' BY ReaderTypes DEF SelectStep
<1>2. ReaderInv(r) /\ pc[r] = "packet" /\ n[r] < NPackets /\ net[r] # None /\ guard = None
  BY BlockFacts DEF query_cache_insert
<1>3. PICK q, e : q = query[r] /\ e = qc.entry[q] OBVIOUS
<1>4. /\ q \in Query /\ q \in Present(qc) /\ e \in Block /\ WriterBlock(r, e) /\ net[r] = q
  BY <1>2, <1>3, WriterAt DEF Busy
<1>5. /\ play \in Plays /\ r \in Client /\ res[r] \in Versions /\ dirty[r] \in SUBSET Table /\ n[r] \in 0 .. NPackets
      /\ CacheOK(qc, {}, {}) /\ NPackets \in Nat /\ r # None
  BY Clients DEF BlockInv, Typed, TypedCache, TypedThreads
<1>6. PICK c \in allocate_block(qc) :
        qc' = [c EXCEPT !.entry[q] = [c.entry[q] EXCEPT !.st = "begin", !.lock = r, !.pkts = c.entry[q].pkts + 1, !.data = res[r], !.dirty = dirty[r]]]
  BY <1>4 DEF query_cache_insert
<1>7. CacheOK(c, {}, {}) /\ Evicted(qc, c, {}) /\ Blocks(c) < play.memory BY <1>5, AllocateOK
<1>8. c.entry[q] = e BY <1>3, <1>4, <1>7 DEF Evicted, Idle, WriterBlock
<1>9. Around(qc, c, q) BY <1>7 DEF Around, Evicted
<1>10. PICK b : b = [e EXCEPT !.st = "begin", !.lock = r, !.pkts = e.pkts + 1, !.data = res[r], !.dirty = dirty[r]] OBVIOUS
<1>11. qc' = Put(c, q, b)
  <2>1. b = [c.entry[q] EXCEPT !.st = "begin", !.lock = r, !.pkts = c.entry[q].pkts + 1, !.data = res[r], !.dirty = dirty[r]] BY <1>8, <1>10
  <2> QED BY <2>1, <1>6 DEF Put
<1>12. /\ b \in Block /\ b.st = "begin" /\ b.writer = e.writer /\ b.lock = r /\ b.readers = e.readers
       /\ b.pkts = e.pkts + 1 /\ b.data = res[r] /\ b.dirty = dirty[r] /\ b # None /\ b.pkts \in Nat
  <2>1. /\ e.writer \in Reader \cup {None} /\ e.readers \in SUBSET Reader /\ e.pkts \in 0 .. NPackets
    BY <1>4 DEF Block
  <2>2. e.pkts = n[r] BY <1>2, <1>4 DEF WriterBlock
  <2>3. b = [st |-> "begin", writer |-> e.writer, lock |-> r, readers |-> e.readers, pkts |-> e.pkts + 1, data |-> res[r], dirty |-> dirty[r]]
    BY <1>4, <1>10 DEF Block
  <2>4. e.pkts + 1 \in 0 .. NPackets BY <2>1, <2>2, <1>2, <1>5
  <2>5. b \in Block BY <2>1, <2>3, <2>4, <1>5 DEF Block, Versions
  <2>6. b # None BY <2>5, NoneAssumption DEF NoneAssumption
  <2> QED BY <2>3, <2>4, <2>5, <2>6, <1>5
<1>13. /\ pc' = [pc EXCEPT ![r] = "copy"] /\ UNCHANGED <<play, size, guard, net, query, n, res, dirty>>
  BY DEF query_cache_insert, Goto, thd
<1>14. Stay(r) /\ pc'[r] = "copy" BY <1>13, Moving DEF GuardStep
<1>15. ReaderInv(r)' BY <1>2, <1>13, <1>14 DEF ReaderInv, Busy
<1>16. Writes(r, q)' BY <1>3, <1>4, <1>13, <1>14 DEF Writes, Busy
<1>17. WriterBlock(r, b)' BY <1>2, <1>4, <1>12, <1>13, <1>14 DEF WriterBlock
<1>18. guard' # r BY <1>2, <1>5, <1>13
<1>19. Blocks(c) < play.memory /\ b.pkts <= c.entry[q].pkts + 1
  <2>1. b.pkts = c.entry[q].pkts + 1 /\ b.pkts \in Nat BY <1>8, <1>12
  <2> QED BY <2>1, <1>7
<1>20. query'[r] = q /\ c.entry[q] = qc.entry[q] /\ Busy(r) BY <1>2, <1>3, <1>8, <1>13 DEF Busy
<1>21. c \in Caches /\ Linked(c, {}, {}) BY <1>7 DEF CacheOK
<1> QED BY <1>1, <1>2, <1>3, <1>9, <1>11, <1>12, <1>13, <1>14, <1>15, <1>16, <1>17, <1>18, <1>19, <1>20, <1>21, WriteBlocks

(* the lock of a block is set or released by its writer *)
LEMMA LockBlocks ==
    ASSUME BlockInv, NEW r \in Reader, Copied(r) \/ (query_cache_end_of_result(r) /\ net[r] # None)
    PROVE  BlockInv'
<1>1. TypedRest' BY ReaderTypes DEF SelectStep
<1>2. ReaderInv(r) /\ Busy(r) /\ net[r] # None
  BY BlockFacts DEF Copied, query_cache_end_of_result, Busy, ReaderInv
<1>3. PICK q, e : q = query[r] /\ e = qc.entry[q] OBVIOUS
<1>4. /\ q \in Query /\ q \in Present(qc) /\ e \in Block /\ WriterBlock(r, e) /\ net[r] = q
  BY <1>2, <1>3, WriterAt
<1>5. /\ r \in Client /\ n \in [Reader -> 0 .. NPackets] /\ NPackets \in Nat /\ r # None
      /\ qc = [entry |-> qc.entry, lru |-> qc.lru, tbl |-> qc.tbl] /\ qc.entry \in [Query -> Block \cup {None}]
      /\ Blocks(qc) <= play.memory
  BY Clients, BlockFacts, CacheFacts DEF BlockInv, Typed, TypedThreads
<1>6. ASSUME NEW l, l \in Client \cup {None}, NEW b, b = [e EXCEPT !.lock = l]
      PROVE  /\ b \in Block /\ b.readers = e.readers /\ b.st = e.st /\ b.writer = e.writer
             /\ b.lock = l /\ b.pkts = e.pkts /\ b # None /\ b.pkts \in Nat /\ b.data = e.data /\ b.dirty = e.dirty
             /\ b.pkts <= qc.entry[q].pkts
  <2>1. /\ e.st \in {"new", "begin", "result"} /\ e.readers \in SUBSET Reader /\ e.pkts \in 0 .. NPackets
        /\ e.data \in [Table -> Nat] /\ e.dirty \in SUBSET Table /\ e.writer \in Reader \cup {None}
    BY <1>4 DEF Block
  <2>2. b = [st |-> e.st, writer |-> e.writer, lock |-> l, readers |-> e.readers, pkts |-> e.pkts, data |-> e.data, dirty |-> e.dirty]
    BY <1>4, <1>6 DEF Block
  <2>3. b \in Block BY <2>1, <2>2, <1>6 DEF Block
  <2>4. b # None BY <2>3, NoneAssumption DEF NoneAssumption
  <2> QED BY <2>1, <2>2, <2>3, <2>4, <1>3, <1>5
<1>7. CASE Copied(r)
  <2>1. PICK b : b = [e EXCEPT !.lock = None] OBVIOUS
  <2>2. /\ b \in Block /\ b.readers = e.readers /\ b.st = e.st /\ b.writer = e.writer
        /\ b.lock = None /\ b.pkts = e.pkts /\ b # None /\ b.pkts \in Nat /\ b.data = e.data /\ b.dirty = e.dirty
        /\ b.pkts <= qc.entry[q].pkts
    BY <2>1, <1>6
  <2>3. /\ pc' = [pc EXCEPT ![r] = "packet"] /\ n' = [n EXCEPT ![r] = @ + 1] /\ pc[r] = "copy"
        /\ UNCHANGED <<play, size, guard, net, query, res, dirty>>
    BY <1>7 DEF Copied, Goto
  <2>4. n'[r] = n[r] + 1 /\ \A s \in Reader \ {r} : n'[s] = n[s] BY <2>3, <1>5
  <2>5. Stay(r) /\ pc'[r] = "packet" BY <2>3, <2>4, Moving DEF GuardStep
  <2>6. qc' = Put(qc, q, b)
    <3>1. qc' = [qc EXCEPT !.entry[q].lock = None] BY <1>4, <1>7 DEF Copied
    <3> QED BY <3>1, <2>1, <1>3, <1>4, <1>5 DEF Put
  <2>7. ReaderInv(r)' BY <2>3, <2>4, <2>5, <1>2 DEF ReaderInv, Busy
  <2>8. Writes(r, q)' BY <2>3, <2>5, <1>3, <1>4 DEF Writes, Busy
  <2>9. WriterBlock(r, b)' BY <2>2, <2>3, <2>4, <2>5, <1>4 DEF WriterBlock
  <2>10. guard' # r /\ query'[r] = q BY <2>3, <1>2, <1>3 DEF ReaderInv
  <2> QED BY <2>2, <2>3, <2>5, <2>6, <2>7, <2>8, <2>9, <2>10, <1>1, <1>2, <1>3, <1>5, CacheHere, WriteBlocks
<1>8. CASE query_cache_end_of_result(r) /\ net[r] # None
  <2>1. PICK b : b = [e EXCEPT !.lock = r] OBVIOUS
  <2>2. /\ b \in Block /\ b.readers = e.readers /\ b.st = e.st /\ b.writer = e.writer
        /\ b.lock = r /\ b.pkts = e.pkts /\ b # None /\ b.pkts \in Nat /\ b.data = e.data /\ b.dirty = e.dirty
        /\ b.pkts <= qc.entry[q].pkts
    BY <2>1, <1>5, <1>6
  <2>3. /\ pc' = [pc EXCEPT ![r] = "complete"] /\ pc[r] = "packet" /\ n[r] = NPackets /\ guard = None
        /\ UNCHANGED <<play, size, guard, net, query, n, res, dirty>>
    BY <1>8 DEF query_cache_end_of_result, Goto, thd
  <2>5. Stay(r) /\ pc'[r] = "complete" BY <2>3, Moving DEF GuardStep
  <2>6. qc' = Put(qc, q, b)
    <3>1. qc' = [qc EXCEPT !.entry[q].lock = r] BY <1>4, <1>8 DEF query_cache_end_of_result
    <3> QED BY <3>1, <2>1, <1>3, <1>4, <1>5 DEF Put
  <2>7. ReaderInv(r)' BY <2>3, <2>5, <1>2 DEF ReaderInv, Busy
  <2>8. Writes(r, q)' BY <2>3, <2>5, <1>3, <1>4 DEF Writes, Busy
  <2>9. WriterBlock(r, b)' BY <2>2, <2>3, <2>5, <1>4 DEF WriterBlock
  <2>10. guard' # r /\ query'[r] = q BY <2>3, <1>2, <1>3, <1>5
  <2> QED BY <2>2, <2>3, <2>5, <2>6, <2>7, <2>8, <2>9, <2>10, <1>1, <1>2, <1>3, <1>5, CacheHere, WriteBlocks
<1> QED BY <1>7, <1>8

(* the result is complete *)
LEMMA CompleteBlocks == ASSUME BlockInv, NEW r \in Reader, Complete(r) PROVE BlockInv'
<1>1. TypedRest' BY ReaderTypes DEF SelectStep
<1>2. ReaderInv(r) /\ pc[r] = "complete" /\ n[r] = NPackets /\ net[r] # None /\ guard # r
  BY BlockFacts DEF Complete, ReaderInv
<1>3. PICK q, e : q = query[r] /\ e = qc.entry[q] OBVIOUS
<1>4. /\ q \in Query /\ q \in Present(qc) /\ e \in Block /\ WriterBlock(r, e) /\ net[r] = q
      /\ \A s \in Reader \ {r} : ~Writes(s, q) /\ ~Reads(s, q)
  BY <1>2, <1>3, WriterAt DEF Busy
<1>5. /\ NPackets \in Nat /\ r # None
      /\ qc = [entry |-> qc.entry, lru |-> qc.lru, tbl |-> qc.tbl] /\ qc.entry \in [Query -> Block \cup {None}]
      /\ Blocks(qc) <= play.memory
  BY Clients, BlockFacts, CacheFacts
<1>6. PICK b : b = [e EXCEPT !.st = "result", !.writer = None, !.lock = None] OBVIOUS
<1>7. /\ b \in Block /\ b.readers = {} /\ b.st = "result" /\ b.writer = None
      /\ b.lock = None /\ b.pkts = NPackets /\ b # None /\ b.pkts <= qc.entry[q].pkts
  <2>1. e.readers = {} /\ e.pkts = NPackets BY <1>2, <1>4 DEF WriterBlock
  <2>2. e.data \in [Table -> Nat] /\ e.dirty \in SUBSET Table BY <1>4 DEF Block
  <2>3. b = [st |-> "result", writer |-> None, lock |-> None, readers |-> e.readers, pkts |-> e.pkts, data |-> e.data, dirty |-> e.dirty]
    BY <1>4, <1>6 DEF Block
  <2>4. b \in Block BY <2>1, <2>2, <2>3, <1>5 DEF Block
  <2>5. b # None BY <2>4, NoneAssumption DEF NoneAssumption
  <2> QED BY <2>1, <2>3, <2>4, <2>5, <1>3, <1>5
<1>8. qc' = Put(qc, q, b)
  <2>1. qc' = [qc EXCEPT !.entry[q] = [@ EXCEPT !.st = "result", !.writer = None, !.lock = None]]
    BY <1>4 DEF Complete
  <2> QED BY <2>1, <1>3, <1>4, <1>5, <1>6 DEF Put
<1>9. pc' = [pc EXCEPT ![r] = "clear"] /\ UNCHANGED <<play, size, guard, net, query, n, res, dirty>>
  BY DEF Complete, Goto, thd
<1>10. Stay(r) /\ pc'[r] = "clear" BY <1>9, Moving DEF GuardStep
<1>11. ReaderInv(r)' BY <1>2, <1>9, <1>10 DEF ReaderInv, Busy
<1>12. ~Writes(r, q)' /\ ~Reads(r, q)' BY <1>10 DEF Writes, Reads, Busy
<1>13. BlockOK(b, q)' BY <1>7 DEF BlockOK
<1>14. Fits(r, q, b) BY <1>4, <1>12, <1>13 DEF Fits
<1>15. query'[r] = q /\ guard' # r BY <1>2, <1>3, <1>9
<1> QED BY <1>1, <1>3, <1>4, <1>5, <1>7, <1>8, <1>9, <1>10, <1>11, <1>14, <1>15, CacheHere, PutMoves

(* the writer frees its own block *)
LEMMA OwnFreeBlocks ==
    ASSUME BlockInv, NEW r \in Reader, net[r] # None, InsertFails(r) \/ query_cache_abort(r)
    PROVE  BlockInv'
<1>1. TypedRest' BY ReaderTypes DEF SelectStep
<1>2. ReaderInv(r) /\ pc[r] = "packet" /\ guard = None
  BY BlockFacts DEF InsertFails, query_cache_abort
<1>3. PICK q, e : q = query[r] /\ e = qc.entry[q] OBVIOUS
<1>4. /\ q \in Query /\ q \in Present(qc) /\ e \in Block /\ WriterBlock(r, e) /\ net[r] = q
  BY <1>2, <1>3, WriterAt DEF Busy
<1>5. ~InUse(e) /\ e.writer = r BY <1>2, <1>4 DEF WriterBlock, InUse
<1>6. qc' = free_query(qc, q) /\ UNCHANGED <<play, size, guard, query, res, dirty>>
  BY <1>4 DEF InsertFails, query_cache_abort, thd
<1>7. /\ net'[r] = None /\ \A s \in Reader \ {r} : net'[s] = net[s] /\ n'[s] = n[s]
      /\ net'[r] = None
  <2>1. /\ net \in [Client -> Query \cup {None}] /\ n \in [Reader -> 0 .. NPackets]
        /\ \A s \in Reader : s \in Client
    BY Clients DEF BlockInv, Typed, TypedCache, TypedThreads
  <2>2. CASE InsertFails(r) BY <2>1, <2>2, <1>3, <1>4, <1>5 DEF InsertFails, ForgetWriter
  <2>3. CASE query_cache_abort(r) BY <2>1, <2>3 DEF query_cache_abort, thd
  <2> QED BY <2>2, <2>3
<1>8. PICK l \in {"packet", "finish"} : pc' = [pc EXCEPT ![r] = l]
  <2>1. pc \in [Client -> ReaderPlace \cup WriterPlace \cup AdminPlace] /\ r \in Client
    BY Clients DEF BlockInv, Typed, TypedThreads
  <2>2. CASE InsertFails(r)
    <3>1. pc' = [pc EXCEPT ![r] = "packet"] BY <2>1, <2>2, <1>2 DEF InsertFails
    <3> QED BY <3>1
  <2>3. CASE query_cache_abort(r) BY <2>3 DEF query_cache_abort, Goto
  <2> QED BY <2>2, <2>3
<1>9. Stay(r) /\ pc'[r] = l BY <1>6, <1>7, <1>8, Moving DEF GuardStep
<1>10. ReaderInv(r)' BY <1>2, <1>6, <1>7, <1>9, <1>3, <1>4 DEF ReaderInv, Busy
<1>11. Free(q) BY <1>3, <1>5, <1>6, <1>7, <1>9 DEF Free, Stay
<1>12. CacheOK(qc, {}, {})' /\ Present(qc)' \subseteq Present(qc) BY <1>4, <1>11, FreeOK
<1>13. guard' # r BY <1>2, <1>6, Clients
<1> QED BY <1>1, <1>6, <1>9, <1>10, <1>12, <1>13, ReaderMoves

(* a result that is not stored ends *)
LEMMA EndBlocks ==
    ASSUME BlockInv, NEW r \in Reader, net[r] = None, query_cache_end_of_result(r) \/ query_cache_abort(r)
    PROVE  BlockInv'
<1>1. TypedRest' BY ReaderTypes DEF SelectStep
<1>2. ReaderInv(r) /\ pc[r] = "packet" BY BlockFacts DEF query_cache_end_of_result, query_cache_abort
<1>3. pc' = [pc EXCEPT ![r] = "finish"] /\ UNCHANGED <<play, qc, size, guard, net, query, n, res, dirty>>
  BY DEF query_cache_end_of_result, query_cache_abort, Goto, thd
<1>4. Stay(r) /\ pc'[r] = "finish" BY <1>3, Moving DEF GuardStep
<1>5. ReaderInv(r)' BY <1>2, <1>3, <1>4 DEF ReaderInv, Busy
<1>6. SameWork(r) BY <1>2, <1>3, <1>4, Clients DEF SameWork, Writes, Reads, Busy
<1>7. guard' # r BY <1>2, <1>3 DEF ReaderInv
<1> QED BY <1>1, <1>3, <1>4, <1>5, <1>6, <1>7, ReaderQuiet

(* a new block for q, which is in no list yet *)
LEMMA NewBlockOK ==
    ASSUME play \in Plays, NEW c, CacheOK(c, {}, {}), Blocks(c) < play.memory, NEW q \in Query, c.entry[q] = None,
           NEW b \in Block, b.pkts = 0, NEW d, d = Put(c, q, b)
    PROVE  CacheOK(d, {q}, {}) /\ d.entry[q] = b /\ \A p \in Query \ {q} : d.entry[p] = c.entry[p]
<1>1. /\ c.entry \in [Query -> Block \cup {None}] /\ c.lru \in Seq(Query)
      /\ c.tbl \in [Table -> SUBSET Query] /\ c = [entry |-> c.entry, lru |-> c.lru, tbl |-> c.tbl]
      /\ b # None /\ Linked(c, {}, {}) /\ Held(c) /\ \A p \in Query : EntryOK(c, p)
  BY CacheFacts, NoneAssumption DEF NoneAssumption, CacheOK
<1>2. /\ d.entry = [c.entry EXCEPT ![q] = b] /\ d.lru = c.lru /\ d.tbl = c.tbl
      /\ d = [entry |-> d.entry, lru |-> d.lru, tbl |-> d.tbl]
  BY <1>1 DEF Put
<1>3. /\ d.entry \in [Query -> Block \cup {None}] /\ d.entry[q] = b
      /\ \A p \in Query \ {q} : d.entry[p] = c.entry[p]
  BY <1>1, <1>2
<1>4. d \in Caches
  <2>1. [entry |-> d.entry, lru |-> d.lru, tbl |-> d.tbl] \in Caches BY <1>1, <1>2, <1>3 DEF Caches
  <2> QED BY <2>1, <1>2
<1>5. Present(d) = Present(c) \cup {q} /\ q \notin Present(c) BY <1>1, <1>3 DEF Present
<1>6. Linked(d, {q}, {})
  <2>1. ASSUME NEW t \in Table
        PROVE  d.tbl[t] = {p \in Present(d) : IF p \in {q} THEN t \in {} ELSE t \in TablesOf(p)}
    <3>1. c.tbl[t] = {p \in Present(c) : IF p \in {} THEN t \in {} ELSE t \in TablesOf(p)} BY <1>1 DEF Linked
    <3> QED BY <3>1, <1>2, <1>5
  <2>2. ToSet(d.lru) = Present(d) \ {q} BY <1>1, <1>2, <1>5 DEF Linked
  <2> QED BY <2>1, <2>2, <1>1, <1>2 DEF Linked
<1>7. Blocks(d) <= play.memory
  <2>1. Tabled(d) \subseteq Tabled(c) BY <1>2 DEF Tabled
  <2>2. Packets(d) \subseteq Packets(c)
    <3> SUFFICES ASSUME NEW p \in Query, NEW i \in 1 .. NPackets, d.entry[p] # None, i <= d.entry[p].pkts
                 PROVE  c.entry[p] # None /\ i <= c.entry[p].pkts
      BY DEF Packets
    <3>1. p # q BY <1>3, Clients
    <3> QED BY <3>1, <1>3
  <2>3. Blocks(d) <= Blocks(c) + 1
    <3>1. Present(d) \subseteq Present(c) \cup {q} BY <1>5
    <3> QED BY <3>1, <2>1, <2>2, OneBlockMore
  <2>4. Blocks(d) \in Nat /\ Blocks(c) \in Nat /\ play.memory \in Nat BY BlocksAre, PlayFacts
  <2> QED BY <2>3, <2>4
<1>8. Held(d)
  <2> SUFFICES ASSUME NEW s \in Reader, NEW p \in Query
               PROVE  /\ Writes(s, p) => WriterBlock(s, d.entry[p])
                      /\ Reads(s, p) => ReaderBlock(s, d.entry[p])
    BY DEF Held
  <2>1. /\ Writes(s, p) => WriterBlock(s, c.entry[p])
        /\ Reads(s, p) => ReaderBlock(s, c.entry[p])
    BY <1>1 DEF Held
  <2>2. CASE p = q BY <2>1, <2>2 DEF WriterBlock, ReaderBlock
  <2>3. CASE p # q BY <2>1, <2>3, <1>3
  <2> QED BY <2>2, <2>3
<1>9. \A p \in Query \ {q} : EntryOK(d, p) BY <1>1, <1>3 DEF EntryOK
<1> QED BY <1>3, <1>4, <1>6, <1>7, <1>8, <1>9 DEF CacheOK

(* the new query joins queries_blocks *)
LEMMA JoinOK ==
    ASSUME play \in Plays, NEW c, NEW q \in Query, NEW d,
           CacheOK(c, {q}, TablesOf(q)), d = [c EXCEPT !.lru = Append(@, q)], q \in Present(c)
    PROVE  d \in Caches /\ Linked(d, {}, {}) /\ Blocks(d) <= play.memory /\ d.entry = c.entry
<1>1. /\ c \in Caches /\ c.entry \in [Query -> Block \cup {None}] /\ c.lru \in Seq(Query)
      /\ c.tbl \in [Table -> SUBSET Query] /\ c = [entry |-> c.entry, lru |-> c.lru, tbl |-> c.tbl]
      /\ Blocks(c) <= play.memory
  BY CacheFacts DEF CacheOK
<1>2. PICK v : v = Append(c.lru, q) OBVIOUS
<1>3. Linked(c, {q}, TablesOf(q)) BY DEF CacheOK
<1>4. q \notin ToSet(c.lru) /\ Distinct(c.lru) BY <1>3 DEF Linked
<1>5. v \in Seq(Query) /\ ToSet(v) = ToSet(c.lru) \cup {q} /\ Distinct(v) BY <1>1, <1>2, <1>4, AppendFacts
<1>6. d.entry = c.entry /\ d.tbl = c.tbl /\ d.lru = v /\ d = [entry |-> c.entry, lru |-> v, tbl |-> c.tbl]
  BY <1>1, <1>2
<1>7. d \in Caches
  <2>1. [entry |-> c.entry, lru |-> v, tbl |-> c.tbl] \in Caches BY <1>1, <1>5 DEF Caches
  <2> QED BY <2>1, <1>6
<1>8. Present(d) = Present(c) BY <1>6 DEF Present
<1>9. Linked(d, {}, {})
  <2>1. ASSUME NEW t \in Table
        PROVE  d.tbl[t] = {p \in Present(d) : IF p \in {} THEN t \in {} ELSE t \in TablesOf(p)}
    <3>1. c.tbl[t] = {p \in Present(c) : IF p \in {q} THEN t \in TablesOf(q) ELSE t \in TablesOf(p)}
      BY <1>3 DEF Linked
    <3>2. \A p : (IF p \in {q} THEN t \in TablesOf(q) ELSE t \in TablesOf(p)) <=> t \in TablesOf(p) OBVIOUS
    <3> QED BY <3>1, <3>2, <1>6, <1>8
  <2>2. ToSet(d.lru) = Present(d) \ {} BY <1>3, <1>5, <1>6, <1>8 DEF Linked
  <2> QED BY <2>1, <2>2, <1>5, <1>6 DEF Linked
<1>10. Blocks(d) = Blocks(c) BY <1>6 DEF Blocks
<1> QED BY <1>6, <1>7, <1>9, <1>10, <1>1

(* or its block goes again *)
LEMMA UnjoinOK ==
    ASSUME play \in Plays, NEW c, NEW q \in Query, NEW d,
           CacheOK(c, {q}, {}), d = Put(c, q, None)
    PROVE  /\ d \in Caches /\ Linked(d, {}, {}) /\ Blocks(d) <= play.memory
           /\ d.entry[q] = None /\ \A p \in Query \ {q} : d.entry[p] = c.entry[p]
<1>1. /\ c \in Caches /\ c.entry \in [Query -> Block \cup {None}] /\ c.lru \in Seq(Query)
      /\ c.tbl \in [Table -> SUBSET Query] /\ c = [entry |-> c.entry, lru |-> c.lru, tbl |-> c.tbl]
      /\ Blocks(c) <= play.memory
  BY CacheFacts DEF CacheOK
<1>2. Linked(c, {q}, {}) BY DEF CacheOK
<1>3. /\ d.entry = [c.entry EXCEPT ![q] = None] /\ d.lru = c.lru /\ d.tbl = c.tbl
      /\ d = [entry |-> d.entry, lru |-> d.lru, tbl |-> d.tbl]
  BY <1>1 DEF Put
<1>4. /\ d.entry \in [Query -> Block \cup {None}] /\ d.entry[q] = None
      /\ \A p \in Query \ {q} : d.entry[p] = c.entry[p]
  BY <1>1, <1>3
<1>5. d \in Caches
  <2>1. [entry |-> d.entry, lru |-> d.lru, tbl |-> d.tbl] \in Caches BY <1>1, <1>3, <1>4 DEF Caches
  <2> QED BY <2>1, <1>3
<1>6. Present(d) = Present(c) \ {q} BY <1>4 DEF Present
<1>7. Linked(d, {}, {})
  <2>1. ASSUME NEW t \in Table
        PROVE  d.tbl[t] = {p \in Present(d) : IF p \in {} THEN t \in {} ELSE t \in TablesOf(p)}
    <3>1. c.tbl[t] = {p \in Present(c) : IF p \in {q} THEN t \in {} ELSE t \in TablesOf(p)} BY <1>2 DEF Linked
    <3> QED BY <3>1, <1>3, <1>6
  <2>2. ToSet(d.lru) = Present(d) \ {} BY <1>2, <1>3, <1>6 DEF Linked
  <2> QED BY <2>1, <2>2, <1>2, <1>3 DEF Linked
<1>8. Blocks(d) <= Blocks(c)
  <2>1. Packets(d) \subseteq Packets(c) BY <1>4 DEF Packets
  <2>2. Tabled(d) \subseteq Tabled(c) BY <1>3 DEF Tabled
  <2>3. Present(d) \subseteq Present(c) BY <1>6
  <2> QED BY <2>1, <2>2, <2>3, NoMoreBlocks
<1>9. Blocks(d) <= play.memory
  <2>1. Blocks(d) \in Nat /\ Blocks(c) \in Nat /\ play.memory \in Nat BY BlocksAre, PlayFacts
  <2>2. Blocks(c) <= play.memory BY <1>1
  <2> QED BY <2>1, <2>2, <1>8
<1> QED BY <1>4, <1>5, <1>7, <1>9

(* what a registration leaves of the blocks *)
Registers(r) ==
    /\ Around(qc, qc', query[r])
    /\ qc'.entry[query[r]] \in {qc.entry[query[r]], None, NewBlock(r)}

(* the query block is registered with its lock set, or nothing of it is left *)
LEMMA RegisterBlocks == ASSUME Whole, BlockInv, NEW r \in Reader, Register(r) PROVE BlockInv' /\ Registers(r)
<1>1. TypedRest' BY ReaderTypes DEF SelectStep
<1>2. ReaderInv(r) /\ Guarded /\ pc[r] = "ask_store" /\ guard = r /\ n[r] = 0 /\ net[r] = None
  BY BlockFacts DEF BlockInv, Register, ReaderInv, Busy
<1>3. PICK q : q = query[r] OBVIOUS
<1>4. q \in Query /\ size /\ play \in Plays /\ CacheOK(qc, {}, {}) /\ r \in Client /\ r # None
  BY <1>2, <1>3, Clients, BlockFacts DEF ReaderInv, Guarded, BlockInv
<1>5. guard' = None /\ UNCHANGED <<play, size, net, query, n, res, dirty>> BY DEF Register, thd
<1>6. query'[r] = q /\ guard' # r BY <1>3, <1>4, <1>5
<1>7. CASE qc.entry[q] # None \/ allocate_block(qc) = {}
  <2>1. pc' = [pc EXCEPT ![r] = "read"] /\ qc' = qc BY <1>3, <1>7 DEF Register, Goto
  <2>2. Stay(r) /\ pc'[r] = "read" BY <2>1, <1>2, <1>5, Moving DEF GuardStep
  <2>3. ReaderInv(r)' BY <2>2, <1>2, <1>5, <1>6 DEF ReaderInv, Busy
  <2>4. SameWork(r) BY <2>2, <1>2, <1>5, Clients DEF SameWork, Writes, Reads, Busy
  <2>5. BlockInv' BY <2>1, <2>2, <2>3, <2>4, <1>1, <1>5, <1>6, ReaderQuiet
  <2>6. Registers(r) BY <2>1, <1>3 DEF Registers, Around
  <2> QED BY <2>5, <2>6
<1>8. CASE ~(qc.entry[q] # None \/ allocate_block(qc) = {})
  <2>1. qc.entry[q] = None BY <1>8
  <2>2. PICK c \in allocate_block(qc) :
          LET s == register_all_tables([c EXCEPT !.entry[q] = NewBlock(r)], q)
          IN  IF s.ok
                THEN qc' = [s.qc EXCEPT !.lru = Append(@, q)] /\ pc' = [pc EXCEPT ![r] = "publish"]
                ELSE qc' = [s.qc EXCEPT !.entry[q] = None] /\ pc' = [pc EXCEPT ![r] = "read"]
    BY <1>3, <1>8 DEF Register, Goto
  <2>3. CacheOK(c, {}, {}) /\ Evicted(qc, c, {}) /\ Blocks(c) < play.memory BY <1>4, AllocateOK
  <2>4. c.entry[q] = None BY <2>1, <2>3, <1>4 DEF Evicted
  <2>5. PICK b : b = NewBlock(r) OBVIOUS
  <2>6. b \in Block /\ b.pkts = 0
    <3>1. 0 \in 0 .. NPackets /\ NoVersions \in [Table -> Nat] BY Clients DEF NoVersions
    <3> QED BY <3>1, <2>5, <1>4 DEF NewBlock, Block
  <2>7. PICK a : a = Put(c, q, b) OBVIOUS
  <2>8. CacheOK(a, {q}, {}) /\ a.entry[q] = b /\ \A p \in Query \ {q} : a.entry[p] = c.entry[p]
    BY <2>3, <2>4, <2>6, <2>7, <1>4, NewBlockOK
  <2>9. b # None BY <2>6, NoneAssumption DEF NoneAssumption
  <2>10. q \in Present(a) BY <2>8, <2>9, <1>4 DEF Present
  <2>11. PICK s : s = register_all_tables(a, q) OBVIOUS
  <2>12. Registering(s, a, q, TablesOf(q)) BY <2>8, <2>10, <2>11, <1>4, RegisterOK
  <2>13. PICK e : e = s.qc OBVIOUS
  <2>14. /\ IF s.ok THEN qc' = [e EXCEPT !.lru = Append(@, q)] /\ pc' = [pc EXCEPT ![r] = "publish"]
                    ELSE qc' = [e EXCEPT !.entry[q] = None] /\ pc' = [pc EXCEPT ![r] = "read"]
         /\ s.ok \in BOOLEAN
         /\ CacheOK(e, {q}, IF s.ok THEN TablesOf(q) ELSE {}) /\ Evicted(a, e, {q})
    BY <2>2, <2>5, <2>7, <2>11, <2>12, <2>13 DEF Put, Registering
  <2>15. e.entry[q] = b /\ q \in Present(e) BY <2>8, <2>9, <2>14, <1>4 DEF Evicted, Present
  <2>16. Around(qc, e, q)
    <3> SUFFICES ASSUME NEW p \in Query \ {q}
                 PROVE  e.entry[p] = qc.entry[p] \/ (e.entry[p] = None /\ Idle(qc.entry[p]))
      BY DEF Around
    <3>1. e.entry[p] = a.entry[p] \/ (e.entry[p] = None /\ Idle(a.entry[p])) BY <2>14 DEF Evicted
    <3>2. a.entry[p] = c.entry[p] BY <2>8
    <3>3. c.entry[p] = qc.entry[p] \/ (c.entry[p] = None /\ Idle(qc.entry[p])) BY <2>3 DEF Evicted
    <3> QED BY <3>1, <3>2, <3>3 DEF Idle
  <2>17. \A x \in Reader : ~Writes(x, q) /\ ~Reads(x, q)
    <3>1. Held(qc) BY BlockFacts
    <3> QED BY <3>1, <2>1, <1>4 DEF Held, WriterBlock, ReaderBlock
  <2>18. PICK d : d = qc' OBVIOUS
  <2>19. PICK l : l = IF s.ok THEN "publish" ELSE "read" OBVIOUS
  <2>19a. l \in {"publish", "read"} BY <2>19
  <2>20. Stay(r) /\ pc'[r] = l
    <3>1. pc' = [pc EXCEPT ![r] = l] BY <2>14, <2>19
    <3>2. GuardStep(r) /\ play' = play BY <1>2, <1>5 DEF GuardStep
    <3>3. \A x \in Reader \ {r} : query'[x] = query[x] /\ net'[x] = net[x] /\ n'[x] = n[x] /\ res'[x] = res[x] /\ dirty'[x] = dirty[x] BY <1>5
    <3> QED BY <3>1, <3>2, <3>3, Moving
  <2>21. ReaderInv(r)' BY <2>19a, <2>20, <1>2, <1>3, <1>4, <1>5, <1>6 DEF ReaderInv, Busy
  <2>22. /\ d \in Caches /\ Linked(d, {}, {}) /\ Blocks(d) <= play.memory
         /\ \A p \in Query \ {q} : d.entry[p] = e.entry[p]
         /\ d.entry[q] = IF s.ok THEN b ELSE None
    <3>1. CASE s.ok
      <4>1. CacheOK(e, {q}, TablesOf(q)) /\ d = [e EXCEPT !.lru = Append(@, q)] BY <2>14, <2>18, <3>1
      <4> QED BY <4>1, <2>15, <3>1, <1>4, JoinOK
    <3>2. CASE ~s.ok
      <4>1. CacheOK(e, {q}, {}) /\ d = Put(e, q, None) BY <2>14, <2>18, <3>2 DEF Put
      <4>2. /\ d \in Caches /\ Linked(d, {}, {}) /\ Blocks(d) <= play.memory
            /\ \A p \in Query \ {q} : d.entry[p] = e.entry[p]
            /\ d.entry[q] = None
        BY <4>1, <1>4, UnjoinOK
      <4> QED BY <4>2, <3>2
    <3> QED BY <3>1, <3>2
  <2>23. Around(qc, d, q) BY <2>16, <2>22 DEF Around
  <2>24. ~Reads(r, q)' BY <2>19a, <2>20 DEF Reads
  <2>25. s.ok => Writes(r, q)' /\ WriterBlock(r, b)'
    <3> SUFFICES ASSUME s.ok PROVE Writes(r, q)' /\ WriterBlock(r, b)' OBVIOUS
    <3>1. pc'[r] = "publish" BY <2>19, <2>20
    <3>2. b.st = "new" /\ b.writer = None /\ b.lock = r /\ b.readers = {} /\ b.pkts = 0 BY <2>5 DEF NewBlock
    <3>3. WriterBlock(r, b)' BY <3>1, <3>2, <2>9, <1>2, <1>5 DEF WriterBlock
    <3> QED BY <3>1, <3>3, <1>6 DEF Writes
  <2>26. ~s.ok => ~Writes(r, q)'
    <3> SUFFICES ASSUME ~s.ok PROVE ~Writes(r, q)' OBVIOUS
    <3>1. pc'[r] = "read" BY <2>19, <2>20
    <3>2. net'[r] # q BY <1>2, <1>4, <1>5, Clients
    <3> QED BY <3>1, <3>2 DEF Writes
  <2>27. EntryOK(d, q)'
    <3>1. CASE s.ok
      <4>1. d.entry[q] = b /\ b.st # "result" BY <2>5, <2>22, <3>1 DEF NewBlock
      <4>2. \E x \in Reader : Writes(x, q)' BY <2>25, <3>1
      <4> QED BY <4>1, <4>2 DEF EntryOK
    <3>2. CASE ~s.ok BY <2>22, <3>2 DEF EntryOK
    <3> QED BY <3>1, <3>2
  <2>28. Touch(r, q, d)
    <3>1. \A x \in Reader \ {r} : SameWork(x) BY <2>20, SameIs DEF Stay
    <3>2. Writes(r, q)' => WriterBlock(r, d.entry[q])' BY <2>22, <2>25, <2>26
    <3> QED BY <3>1, <3>2, <2>17, <2>18, <2>22, <2>23, <2>24, <2>27, <1>3, <1>5, <1>6 DEF Touch
  <2>29. CacheOK(qc, {}, {})' BY <2>28, <1>4, TouchOK
  <2>30. BlockInv' BY <2>20, <2>21, <2>29, <1>1, <1>4, <1>5, <1>6, ReaderMoves
  <2>31. Registers(r) BY <2>5, <2>18, <2>22, <2>23, <1>3 DEF Registers
  <2> QED BY <2>30, <2>31
<1> QED BY <1>7, <1>8

(* every step of a SELECT *)
LEMMA ReaderBlocks ==
    ASSUME Whole, BlockInv, NEW r \in Reader,
           SelectStep(r) \/ UnlockTables(r) \/ CommitReads(r) \/ \E q \in Query : Select(r, q)
    PROVE  BlockInv'
<1>1. CASE AskHit(r) BY <1>1, SelectQuiet, LeaveBlocks
<1>2. CASE query_cache_end_of_result(r) BY <1>2, LockBlocks, EndBlocks
<1>3. CASE InsertFails(r)
  <2>1. net[r] # None BY <1>3 DEF InsertFails
  <2> QED BY <1>3, <2>1, OwnFreeBlocks
<1>4. CASE query_cache_abort(r) BY <1>4, OwnFreeBlocks, EndBlocks
<1>5. CASE Sent(r) BY <1>5, LeaveBlocks
<1>6. CASE Copied(r) BY <1>6, LockBlocks
<1>7. CASE Found(r) \/ Hit(r) \/ Register(r) \/ Publish(r) \/ query_cache_insert(r) \/ Complete(r)
  BY <1>7, FoundBlocks, HitBlocks, RegisterBlocks, PublishBlocks, InsertBlocks, CompleteBlocks
<1>8. CASE \/ LookupMiss(r) \/ Open(r) \/ StoreNot(r) \/ StoreEnter(r)
           \/ ask_handler_allowance(r) \/ Read(r) \/ InsertNot(r) \/ ClearNet(r) \/ Finish(r)
           \/ UnlockTables(r) \/ CommitReads(r)
  BY <1>8, SelectQuiet
<1>9. CASE \E q \in Query : Select(r, q) BY <1>9, SelectQuiet
<1> QED BY <1>1, <1>2, <1>3, <1>4, <1>5, <1>6, <1>7, <1>8, <1>9, Zenon DEF SelectStep

(* every step *)
LEMMA NextBlocks == ASSUME Whole, BlockInv, [Next]_vars PROVE BlockInv'
<1>1. CASE UNCHANGED vars
  <2>1. /\ UNCHANGED <<play, qc, size, guard, net, pc, query, todo, safe, n, res, dirty, need>>
        /\ UNCHANGED <<ver, acked, locks, inv, active, view, tl, target, changed, mine, left>>
    BY <1>1 DEF vars, cache, thd, engine, writer
  <2>2. \A s \in Reader : Same(s) BY <2>1 DEF Same
  <2>3. CacheOK(qc, {}, {})' BY <2>1, <2>2, SameIs, QuietOK
  <2>4. Typed' BY <2>1 DEF BlockInv, Typed, TypedCache, TypedThreads, TypedEngine, TypedWriters
  <2>5. Guarded' BY <2>1 DEF BlockInv, Guarded, Present
  <2>6. \A r \in Reader : ReaderInv(r)' BY <2>1 DEF BlockInv, ReaderInv, Busy
  <2> QED BY <2>3, <2>4, <2>5, <2>6 DEF BlockInv
<1>2. CASE \E r \in Reader : SelectStep(r) \/ UnlockTables(r) \/ CommitReads(r) \/ \E q \in Query : Select(r, q)
  BY <1>2, ReaderBlocks
<1>3. ASSUME NEW w \in Writer,
             \/ WriteStep(w) \/ Rollback(w)
             \/ pc[w] = "begun" /\ Commit(w)
             \/ \E t \in UNION {TablesOf(q) : q \in Query}, how \in {"direct", "cascade"} : Modify(w, t, how)
      PROVE  BlockInv'
  <2>1. UNION {TablesOf(q) : q \in Query} \subseteq Table BY BlockFacts, PlayFacts
  <2>2. ASSUME NEW t \in UNION {TablesOf(q) : q \in Query}, NEW how \in {"direct", "cascade"}, Modify(w, t, how)
        PROVE  BlockInv'
    <3>1. t \in Table BY <2>1
    <3> QED BY <3>1, <2>2, WriterBlocks
  <2> QED BY <1>3, <2>2, WriterBlocks
<1>4. CASE AdminStep \/ Flush BY <1>4, AdminBlocks
<1> QED BY <1>1, <1>2, <1>3, <1>4 DEF Next

(* the beginning *)
LEMMA InitBlocks == ASSUME Init PROVE BlockInv
<1> USE DEF Init
<1>1. play \in Plays /\ play \in Play /\ play.memory \in Nat BY PlayFacts
<1>2. qc = [entry |-> [q \in Query |-> None], lru |-> << >>, tbl |-> [t \in Table |-> {}]] OBVIOUS
<1>3. /\ qc.entry = [q \in Query |-> None] /\ qc.lru = << >> /\ qc.tbl = [t \in Table |-> {}] BY <1>2
<1>4. qc \in Caches BY <1>2, <1>3 DEF Caches
<1>5. Typed
  <2>1. TypedCache BY <1>1, <1>4, Clients DEF TypedCache
  <2>2. TypedThreads BY Clients DEF TypedThreads, ReaderPlace, WriterPlace, AdminPlace, Versions, NoVersions
  <2>3. TypedEngine BY Clients DEF TypedEngine, Versions, NoVersions
  <2>4. TypedWriters
    <3>1. left \in [Client -> Nat] BY <1>1 DEF Play
    <3> QED BY <3>1 DEF TypedWriters, Versions, NoVersions
  <2> QED BY <2>1, <2>2, <2>3, <2>4 DEF Typed
<1>6. Present(qc) = {} BY <1>3 DEF Present
<1>7. \A c \in Client : pc[c] = "idle" /\ net[c] = None OBVIOUS
<1>8. Guarded BY <1>6, <1>7, Clients DEF Guarded
<1>9. \A r \in Reader : ReaderInv(r) BY <1>7, Clients DEF ReaderInv
<1>10. Linked(qc, {}, {})
  <2>1. ToSet(qc.lru) = {} BY <1>3 DEF ToSet
  <2>2. Distinct(qc.lru) BY <1>3 DEF Distinct
  <2> QED BY <1>3, <1>6, <2>1, <2>2 DEF Linked
<1>11. Held(qc) BY <1>7, Clients DEF Held, Writes, Reads, Busy
<1>12. \A q \in Query : EntryOK(qc, q) BY <1>3 DEF EntryOK
<1>13. Blocks(qc) <= play.memory
  <2>1. Tabled(qc) = {} /\ Packets(qc) = {} BY <1>3 DEF Tabled, Packets
  <2>2. Cardinality({}) = 0 BY FS_EmptySet
  <2>3. Blocks(qc) = Cardinality(Present(qc)) + Cardinality(Tabled(qc)) + Cardinality(Packets(qc)) BY BlocksAre
  <2>4. Cardinality(Present(qc)) = 0 /\ Cardinality(Tabled(qc)) = 0 /\ Cardinality(Packets(qc)) = 0
    BY <2>1, <2>2, <1>6, Zenon
  <2>5. Blocks(qc) = 0 BY <2>3, <2>4
  <2> QED BY <2>5, <1>1
<1> QED BY <1>4, <1>5, <1>8, <1>9, <1>10, <1>11, <1>12, <1>13 DEF BlockInv, CacheOK

(* In every reachable state whoever fills, reads or frees a block finds it *)
(* as the cache means it to be (Query_cache::insert, end_of_result, abort, *)
(* send_result_to_client, invalidate_table, flush_cache): the invariant    *)
(* that the results below rest on.                                         *)
THEOREM QcBlocks == ASSUME Whole PROVE Spec => []BlockInv
<1>1. Init => BlockInv BY InitBlocks
<1>2. BlockInv /\ [Next]_vars => BlockInv' BY NextBlocks
<1> QED BY <1>1, <1>2, PTL DEF Spec

(* what the invariant says about net->query_cache_query *)
LEMMA OwnsFromBlocks == BlockInv => WriterOwnsBlock
<1> SUFFICES ASSUME BlockInv, NEW r \in Reader
             PROVE  /\ net[r] # None /\ pc[r] # "clear" =>
                         net[r] = query[r] /\ qc.entry[net[r]] # None /\ qc.entry[net[r]].writer = r
                    /\ \A q \in Query : qc.entry[q] # None /\ qc.entry[q].writer = r => net[r] = q
  BY DEF WriterOwnsBlock
<1>1. ASSUME net[r] # None, pc[r] # "clear"
      PROVE  net[r] = query[r] /\ qc.entry[net[r]] # None /\ qc.entry[net[r]].writer = r
  <2>1. Busy(r) BY <1>1, BlockFacts DEF ReaderInv
  <2>2. net[r] = query[r] /\ WriterBlock(r, qc.entry[query[r]]) BY <2>1, <1>1, WriterAt
  <2> QED BY <2>1, <2>2 DEF WriterBlock, Busy
<1>2. ASSUME NEW q \in Query, qc.entry[q] # None, qc.entry[q].writer = r PROVE net[r] = q
  <2>1. q \in Present(qc) /\ r # None BY <1>2, Clients DEF Present
  <2> QED BY <2>1, <1>2, OwnerIs
<1> QED BY <1>1, <1>2

(* A connection that sends a result and the block it fills know each other *)
(* in every reachable state, however invalidations, flushes and errors     *)
(* interleave with it (free_query, query_cache_insert): for any number of  *)
(* connections, queries and tables, and any size of the cache.             *)
THEOREM QcWriterOwnsBlock == ASSUME Whole PROVE Spec => []WriterOwnsBlock
<1>1. Spec => []BlockInv BY QcBlocks
<1>2. BlockInv => WriterOwnsBlock BY OwnsFromBlocks
<1> QED BY <1>1, <1>2, PTL

(* what the invariant says about the lists *)
LEMMA ListsFromBlocks == BlockInv => ListsExact
<1> SUFFICES ASSUME BlockInv PROVE ListsExact OBVIOUS
<1>1. /\ qc \in Caches /\ Linked(qc, {}, {}) /\ Blocks(qc) <= play.memory BY BlockFacts
<1>2. /\ qc.entry \in [Query -> Block \cup {None}] /\ qc.lru \in Seq(Query)
      /\ qc.tbl \in [Table -> SUBSET Query]
  BY <1>1, CacheFacts
<1>3. ToSet(qc.lru) = {q \in Query : qc.entry[q] # None} BY <1>1 DEF Linked, Present
<1>4. \A t \in Table : qc.tbl[t] = {q \in Query : qc.entry[q] # None /\ t \in TablesOf(q)}
  BY <1>1 DEF Linked, Present
<1>5. IsInjective(qc.lru) BY <1>1 DEF Linked, Distinct, IsInjective
<1>6. TypeOK
  <2>1. /\ size \in BOOLEAN /\ guard \in Client \cup {None} /\ net \in [Client -> Query \cup {None}]
        /\ todo \in [Reader -> Seq(Table)] /\ safe \in [Reader -> BOOLEAN] /\ n \in [Reader -> 0 .. NPackets]
        /\ ver \in [Table -> Nat] /\ acked \in [Table -> Nat] /\ view \in [Reader -> [Table -> Nat] \cup {None}]
        /\ locks \in [Table -> SUBSET Writer] /\ inv \in [Table -> SUBSET Client]
    BY DEF BlockInv, Typed, TypedCache, TypedThreads, TypedEngine, Versions
  <2>2. ToSet(qc.lru) \subseteq Query BY <1>3
  <2> QED BY <2>1, <2>2, <1>1, <1>2 DEF TypeOK
<1> QED BY <1>3, <1>4, <1>5, <1>6 DEF ListsExact

(* The lists of the tables hold exactly the queries that use them, so that *)
(* an invalidation reaches every result it must, queries_blocks holds each *)
(* query once, and no more blocks are in use than there are, in every      *)
(* reachable state (register_all_tables, free_query, insert_table).        *)
THEOREM QcListsExact == ASSUME Whole PROVE Spec => []ListsExact
<1>1. Spec => []BlockInv BY QcBlocks
<1>2. BlockInv => ListsExact BY ListsFromBlocks
<1> QED BY <1>1, <1>2, PTL

-----------------------------------------------------------------------------
(* Fresh results *)

(* the numbers the argument is about *)
LEMMA FreshTypes ==
    ASSUME BlockInv
    PROVE  /\ play \in Plays
           /\ \A t \in Table : ver[t] \in Nat /\ acked[t] \in Nat
           /\ \A r \in Reader, t \in Table :
                /\ res[r][t] \in Nat /\ need[r][t] \in Nat /\ (view[r] # None => view[r][t] \in Nat)
                /\ Will(r, t) \in Nat
           /\ \A w \in Writer, t \in Table : mine[w][t] \in Nat
           /\ \A q \in Present(qc), t \in Table : qc.entry[q].data[t] \in Nat
           /\ \A q \in Query : TablesOf(q) \subseteq Table
<1>1. /\ play \in Plays /\ ver \in [Table -> Nat] /\ acked \in [Table -> Nat]
      /\ res \in [Reader -> [Table -> Nat]] /\ need \in [Reader -> [Table -> Nat]]
      /\ view \in [Reader -> [Table -> Nat] \cup {None}] /\ mine \in [Writer -> [Table -> Nat]]
  BY DEF BlockInv, Typed, TypedCache, TypedThreads, TypedEngine, TypedWriters, Versions
<1>2. \A t \in Table : ver[t] \in Nat /\ acked[t] \in Nat BY <1>1
<1>3. ASSUME NEW r \in Reader, NEW t \in Table
      PROVE  /\ res[r][t] \in Nat /\ need[r][t] \in Nat /\ (view[r] # None => view[r][t] \in Nat)
             /\ Will(r, t) \in Nat
  <2>1. res[r][t] \in Nat /\ need[r][t] \in Nat /\ (view[r] # None => view[r][t] \in Nat)
    <3>1. res[r] \in [Table -> Nat] /\ need[r] \in [Table -> Nat] BY <1>1
    <3>2. view[r] # None => view[r] \in [Table -> Nat] BY <1>1
    <3> QED BY <3>1, <3>2
  <2> QED BY <2>1, <1>2 DEF Will
<1>4. ASSUME NEW w \in Writer, NEW t \in Table PROVE mine[w][t] \in Nat
  <2>1. mine[w] \in [Table -> Nat] BY <1>1
  <2> QED BY <2>1
<1>5. ASSUME NEW q \in Present(qc), NEW t \in Table PROVE qc.entry[q].data[t] \in Nat
  <2>1. qc.entry[q] \in Block BY BlockFacts
  <2>2. qc.entry[q].data \in [Table -> Nat] BY <2>1 DEF Block
  <2> QED BY <2>2
<1> QED BY <1>1, <1>2, <1>3, <1>4, <1>5, PlayFacts

(* what has been committed is enough *)
LEMMA EnoughNow ==
    ASSUME BlockInv, SharedOK, \A w \in Writer : WriterInv(w), NEW t \in Table
    PROVE  Enough(ver[t], t)
BY DEF Enough, SharedOK, WriterInv, Concurrent

-----------------------------------------------------------------------------
(* What a step leaves to the others *)

(* the block of q, if it is there, is as it was for those who read it *)
Kept(q) ==
    qc'.entry[q] # None => /\ qc.entry[q] # None
                           /\ qc'.entry[q].data = qc.entry[q].data /\ qc'.entry[q].dirty = qc.entry[q].dirty
                           /\ qc'.entry[q].st = qc.entry[q].st

Steady ==
    /\ play' = play
    /\ \A t \in Table : ver[t] <= ver'[t] /\ acked[t] <= acked'[t]
    /\ \A t \in Table, v \in Nat : Concerned(t) /\ Enough(v, t) => Enough(v, t)'

(* r goes on with what it has *)
SameSelect(r) ==
    /\ pc'[r] = pc[r] /\ query'[r] = query[r] /\ todo'[r] = todo[r] /\ res'[r] = res[r] /\ need'[r] = need[r]
    /\ dirty'[r] = dirty[r] /\ view'[r] = view[r] /\ net'[r] \in {net[r], None} /\ (active[r] => active'[r])
    /\ \A t \in Myisam : r \in tl[t].readers => Concurrent(t) \/ (r \in tl'[t].readers /\ ver'[t] = ver[t])
    /\ \A t \in Table \ Myisam : \/ active[r] => r \in inv'[t]
                                 \/ ver'[t] = ver[t] /\ (r \in inv[t] => r \in inv'[t])

(* then the block of q is as fresh as it was *)
LEMMA EntryStays ==
    ASSUME BlockInv, BlockInv', Steady, NEW q \in Query, EntryFresh(q), Kept(q)
    PROVE  EntryFresh(q)'
<1> SUFFICES ASSUME qc'.entry[q] # None PROVE EntryFresh(q)' BY DEF EntryFresh
<1>1. /\ qc.entry[q] # None /\ qc'.entry[q].data = qc.entry[q].data /\ qc'.entry[q].st = qc.entry[q].st
  BY DEF Kept
<1>2. q \in Present(qc) BY <1>1 DEF Present
<1>3. PICK d : d = qc.entry[q].data OBVIOUS
<1>4. /\ \A t \in Table : d[t] \in Nat /\ ver[t] \in Nat /\ d[t] <= ver[t]
      /\ TablesOf(q) \subseteq Table
  BY <1>1, <1>2, <1>3, FreshTypes DEF EntryFresh
<1>5. \A t \in Table : ver'[t] \in Nat
  <2>1. ver' \in [Table -> Nat] BY DEF BlockInv, Typed, TypedEngine, Versions
  <2> QED BY <2>1
<1>6. \A t \in Table : d[t] <= ver'[t] BY <1>4, <1>5 DEF Steady
<1>7. ASSUME qc.entry[q].st = "result", NEW t \in TablesOf(q) PROVE Enough(d[t], t)'
  <2>1. Concerned(t) BY <1>2 DEF Concerned
  <2>2. t \in Table /\ d[t] \in Nat BY <1>4
  <2>3. Enough(d[t], t) BY <1>1, <1>3, <1>7 DEF EntryFresh
  <2>4. PICK v \in Nat : v = d[t] BY <2>2
  <2>5. Enough(v, t)' BY <2>1, <2>2, <2>3, <2>4 DEF Steady
  <2> QED BY <2>4, <2>5
<1>8. TablesOf(q)' = TablesOf(q) BY DEF TablesOf, Steady
<1> QED BY <1>1, <1>3, <1>6, <1>7, <1>8 DEF EntryFresh, Enough, Inval, Steady, Concurrent

(* if r stores t, a query of t is in the cache, or may be put there *)
LEMMA WantsConcerned ==
    ASSUME BlockInv, NEW r \in Reader, NEW t \in Table, Wants(r, t)
    PROVE  Concerned(t)
<1>1. CASE Asked(r, t) BY <1>1 DEF Concerned
<1>2. CASE Writes(r, query[r]) /\ t \in TablesOf(query[r])
  <2>1. pc[r] = "publish" \/ (net[r] # None /\ Busy(r))
    <3>1. pc[r] # "idle" BY <1>2 DEF Writes, Busy
    <3>2. query[r] # None BY <3>1, BlockFacts, Clients DEF ReaderInv
    <3> QED BY <1>2, <3>2 DEF Writes
  <2>2. query[r] \in Present(qc) BY <2>1, WriterAt
  <2> QED BY <1>2, <2>2 DEF Concerned
<1> QED BY <1>1, <1>2 DEF Wants

(* r stores, if it does, what it was going to store *)
LEMMA WantsStays ==
    ASSUME BlockInv, play' = play, NEW r \in Reader, SameSelect(r), NEW t \in Table, Wants(r, t)'
    PROVE  Wants(r, t) /\ Concerned(t)
<1>1. /\ query'[r] = query[r] /\ pc'[r] = pc[r] /\ todo'[r] = todo[r]
      /\ \A q : TablesOf(q)' = TablesOf(q)
  BY DEF SameSelect, TablesOf, Concurrent
<1>2. Asked(r, t)' => Asked(r, t) BY <1>1 DEF Asked
<1>3. Writes(r, query[r])' => Writes(r, query[r])
  <2>1. ASSUME net'[r] # net[r], net'[r] = query[r] PROVE Writes(r, query[r]) \/ ~Busy(r)
    <3>1. query[r] = None BY <2>1 DEF SameSelect, Concurrent
    <3>2. pc[r] = "idle" BY <3>1, BlockFacts, Clients DEF ReaderInv
    <3> QED BY <3>2 DEF Busy
  <2> QED BY <1>1, <2>1 DEF Writes, Busy
<1>4. Wants(r, t) BY <1>1, <1>2, <1>3 DEF Wants
<1>5. Concerned(t) BY <1>4, WantsConcerned
<1> QED BY <1>4, <1>5

(* and so is what r has got, or will store *)
LEMMA ReaderStays ==
    ASSUME BlockInv, BlockInv', Steady, NEW r \in Reader, ReaderFresh(r), SameSelect(r),
           \A q \in Query : Reads(r, q) => Kept(q)
    PROVE  ReaderFresh(r)'
<1>1. /\ \A t \in Table : /\ ver[t] \in Nat /\ acked[t] \in Nat /\ res[r][t] \in Nat /\ need[r][t] \in Nat
                          /\ Will(r, t) \in Nat /\ (view[r] # None => view[r][t] \in Nat)
      /\ \A q \in Query : TablesOf(q) \subseteq Table
  BY FreshTypes
<1>2. \A t \in Table : ver'[t] \in Nat /\ acked'[t] \in Nat
  <2>1. ver' \in [Table -> Nat] /\ acked' \in [Table -> Nat] BY DEF BlockInv, Typed, TypedEngine, Versions
  <2> QED BY <2>1
<1>3. play' = play /\ \A q : TablesOf(q)' = TablesOf(q) BY DEF Steady, TablesOf
<1>4. Myisam \subseteq Table BY QueryCacheAssumption DEF QueryCacheAssumption
<1>5. TablesHeld(r)' BY <1>3, <1>4 DEF TablesHeld, SameSelect, ReaderFresh, Concurrent
<1>6. ViewOK(r)'
  <2> SUFFICES ASSUME view[r] # None PROVE ViewOK(r)' BY DEF ViewOK, SameSelect, Concurrent
  <2>1. active[r] /\ active'[r] /\ view'[r] = view[r] BY DEF ReaderFresh, ViewOK, SameSelect, Concurrent
  <2>2. ASSUME NEW t \in Table \ Myisam
        PROVE  view[r][t] <= ver'[t] /\ (r \notin inv'[t] => view[r][t] = ver'[t])
    <3>1. view[r][t] <= ver[t] /\ (r \notin inv[t] => view[r][t] = ver[t]) BY DEF ReaderFresh, ViewOK
    <3>2. view[r][t] <= ver'[t] BY <3>1, <1>1, <1>2 DEF Steady
    <3>3. r \in inv'[t] \/ (ver'[t] = ver[t] /\ (r \in inv[t] => r \in inv'[t])) BY <2>1 DEF SameSelect, Concurrent
    <3> QED BY <3>1, <3>2, <3>3
  <2> QED BY <2>1, <2>2 DEF ViewOK
<1>7. KnownOK(r)'
  <2> SUFFICES ASSUME NEW t \in Table PROVE res[r][t] <= ver'[t] /\ need[r][t] <= acked'[t]
    BY DEF KnownOK, SameSelect, Concurrent
  <2>1. res[r][t] <= ver[t] /\ need[r][t] <= acked[t] BY DEF ReaderFresh, KnownOK
  <2> QED BY <2>1, <1>1, <1>2 DEF Steady
<1>8. FreshWriter(r)'
  <2> SUFFICES ASSUME NEW t \in Table, Wants(r, t)' PROVE Enough(Will(r, t), t)' BY DEF FreshWriter
  <2>1. Wants(r, t) /\ Concerned(t) BY WantsStays DEF Steady
  <2>6. PICK v \in Nat : v = Will(r, t) BY <1>1
  <2>7. Enough(v, t) BY <2>1, <2>6 DEF ReaderFresh, FreshWriter
  <2>8. Enough(v, t)' BY <2>1, <2>7 DEF Steady
  <2>9. v <= Will(r, t)' /\ Will(r, t)' \in Nat
    <3>1. Will(r, t)' \in {Will(r, t), ver'[t]} /\ (Will(r, t)' # Will(r, t) => Will(r, t) = ver[t])
      BY <1>3 DEF Will, SameSelect, Concurrent
    <3> QED BY <3>1, <2>6, <1>1, <1>2 DEF Steady
  <2>10. PICK u \in Nat : u = Will(r, t)' BY <2>9
  <2>11. Enough(u, t)'
    <3>1. acked'[t] \in Nat /\ \A w \in Writer : mine'[w][t] \in Nat
      <4>1. mine' \in [Writer -> [Table -> Nat]] BY DEF BlockInv, Typed, TypedWriters, Versions
      <4>2. \A w \in Writer : mine'[w] \in [Table -> Nat] BY <4>1
      <4> QED BY <1>2, <4>2
    <3>2. v <= u BY <2>9, <2>10
    <3> QED BY <2>8, <3>1, <3>2 DEF Enough, Concurrent
  <2> QED BY <2>10, <2>11
<1>9. FreshReader(r)'
  <2> SUFFICES ASSUME NEW q \in Query, Reads(r, q)', NEW t \in TablesOf(q)
               PROVE  Concurrent(t) \/ need'[r][t] <= qc'.entry[q].data[t]
    BY <1>3 DEF FreshReader, Concurrent
  <2>1. Reads(r, q) BY DEF Reads, SameSelect, Concurrent
  <2>2. qc'.entry[q] # None BY BlockFacts DEF BlockInv, CacheOK, Held, ReaderBlock
  <2>3. qc'.entry[q].data = qc.entry[q].data BY <2>1, <2>2 DEF Kept
  <2>4. Concurrent(t) \/ need[r][t] <= qc.entry[q].data[t] BY <2>1 DEF ReaderFresh, FreshReader, Concurrent
  <2> QED BY <2>3, <2>4 DEF SameSelect, Concurrent
<1> QED BY <1>5, <1>6, <1>7, <1>8, <1>9 DEF ReaderFresh

(* w changes nothing of what it has said about t *)
SameWriter(w) ==
    /\ pc'[w] = pc[w] /\ (active[w] => active'[w])
    /\ target'[w] = target[w] /\ changed'[w] = changed[w] /\ mine'[w] = mine[w]
    /\ \A t \in Table : (w \in locks'[t] => w \in locks[t]) /\ (tl'[t].writer = w => tl[t].writer = w)

(* what w may do while there are queries of t *)
WriterDoes(w) ==
    /\ WriterInv(w)'
    /\ \A t \in Table : Concerned(t) /\ Purges(w, t)' => Purges(w, t)
    /\ \A t \in Table, v \in Nat :
         Concerned(t) /\ Enough(v, t) => Concurrent(t) \/ mine'[w][t] <= v \/ Inval(w, t)'

Forward ==
    /\ play' = play
    /\ \A t \in Table : ver[t] <= ver'[t] /\ acked[t] <= acked'[t]
    /\ \A t \in Table, v \in Nat : Concerned(t) /\ Enough(v, t) => Concurrent(t) \/ acked'[t] <= v

(* a step goes through that does to nobody what it may not *)
Harmless ==
    /\ Forward /\ SharedOK' /\ \A w \in Writer : WriterDoes(w)
    /\ \A r \in Reader : ReaderFresh(r)' \/ (SameSelect(r) /\ \A q \in Query : Reads(r, q) => Kept(q))
    /\ \A q \in Query : EntryFresh(q)' \/ Kept(q)
    /\ \A t \in Table : Concerned(t)' => Concerned(t) \/ \A w \in Writer : ~Purges(w, t)'

(* the others do what they may *)
LEMMA WriterStays ==
    ASSUME BlockInv, BlockInv', Forward, NEW w \in Writer, WriterInv(w), SameWriter(w)
    PROVE  WriterDoes(w)
<1>1. \A t \in Table : ver[t] \in Nat /\ mine[w][t] \in Nat BY FreshTypes
<1>2. \A t \in Table : ver'[t] \in Nat
  <2>1. ver' \in [Table -> Nat] BY DEF BlockInv, Typed, TypedEngine, Versions
  <2> QED BY <2>1
<1>3. WriterInv(w)'
  <2>1. \A t \in Table : mine[w][t] <= ver'[t]
    <3> TAKE t \in Table
    <3>1. mine[w][t] <= ver[t] /\ ver[t] <= ver'[t] BY DEF WriterInv, Forward, Concurrent
    <3> QED BY <3>1, <1>1, <1>2
  <2> QED BY <2>1 DEF WriterInv, SameWriter
<1>4. \A t \in Table : Purges(w, t)' => Purges(w, t) BY DEF Purges, Pending, SameWriter, Forward, Concurrent
<1>5. \A t \in Table, v \in Nat : Enough(v, t) => Concurrent(t) \/ mine'[w][t] <= v \/ Inval(w, t)'
  BY DEF Enough, Inval, SameWriter, Concurrent
<1> QED BY <1>3, <1>4, <1>5 DEF WriterDoes, Concurrent

(* and the invariant is kept *)
LEMMA HarmlessOK == ASSUME BlockInv, BlockInv', FreshInv, Harmless PROVE FreshInv'
<1>1. Steady
  <2> SUFFICES ASSUME NEW t \in Table, NEW v \in Nat, Concerned(t), Enough(v, t) PROVE Enough(v, t)'
    BY DEF Steady, Harmless, Forward, Concurrent
  <2>1. Concurrent(t) \/ acked'[t] <= v BY DEF Harmless, Forward, Concurrent
  <2>2. \A w \in Writer : Concurrent(t) \/ mine'[w][t] <= v \/ Inval(w, t)' BY DEF Harmless, WriterDoes, Concurrent
  <2>3. play' = play BY DEF Harmless, Forward, Concurrent
  <2> QED BY <2>1, <2>2, <2>3 DEF Enough, Concurrent
<1>2. ASSUME NEW r \in Reader PROVE ReaderFresh(r)'
  <2>1. ReaderFresh(r) BY DEF FreshInv
  <2>2. ReaderFresh(r)' \/ (SameSelect(r) /\ \A q \in Query : Reads(r, q) => Kept(q)) BY DEF Harmless
  <2> QED BY <2>1, <2>2, <1>1, ReaderStays
<1>3. ASSUME NEW q \in Query PROVE EntryFresh(q)'
  <2>1. EntryFresh(q) /\ (EntryFresh(q)' \/ Kept(q)) BY DEF FreshInv, Harmless
  <2> QED BY <2>1, <1>1, EntryStays
<1>4. Cleaned'
  <2> SUFFICES ASSUME NEW t \in Table, NEW w \in Writer, Purges(w, t)', Concerned(t)' PROVE FALSE
    BY DEF Cleaned
  <2>1. Concerned(t) BY DEF Harmless
  <2>2. Purges(w, t) BY <2>1 DEF Harmless, WriterDoes, Concurrent
  <2> QED BY <2>1, <2>2 DEF FreshInv, Cleaned
<1>5. \A w \in Writer : WriterInv(w)' BY DEF Harmless, WriterDoes, Concurrent
<1> QED BY <1>2, <1>3, <1>4, <1>5 DEF FreshInv, Harmless

-----------------------------------------------------------------------------
(* What a SELECT leaves to the others *)

QuietFor(r) ==
    /\ UNCHANGED <<play, ver, acked, locks, target, changed, mine>>
    /\ \A w \in Writer : pc'[w] = pc[w] /\ active'[w] = active[w]
    /\ \A s \in Reader \ {r} :
         /\ pc'[s] = pc[s] /\ query'[s] = query[s] /\ todo'[s] = todo[s] /\ res'[s] = res[s] /\ dirty'[s] = dirty[s] /\ need'[s] = need[s]
         /\ view'[s] = view[s] /\ net'[s] \in {net[s], None} /\ active'[s] = active[s]
    /\ \A t \in Table :
         /\ tl'[t].writer = tl[t].writer
         /\ \A s \in Reader \ {r} : s \in tl'[t].readers <=> s \in tl[t].readers
         /\ tl[t].writer # None /\ r \in tl'[t].readers => Concurrent(t) \/ r \in tl[t].readers
         /\ \A s \in Reader \ {r} : s \in inv'[t] <=> s \in inv[t]

(* r makes a block, or fills it *)
Makes(r, q) ==
    /\ EntryFresh(q)' /\ \A s \in Reader \ {r} : ~Reads(s, q)
    /\ \/ qc'.entry[q].st # "result"
       \/ qc'.entry[q].data = res[r] /\ qc'.entry[q].dirty = dirty[r]
          /\ pc[r] = "complete" /\ Writes(r, q) /\ query[r] = q
    /\ q \notin Present(qc) => \A t \in TablesOf(q), w \in Writer : ~Purges(w, t)

(* what r will store is what it was going to store, or what is committed *)
Follows(r) ==
    \A t \in Table : Wants(r, t)' =>
        Concurrent(t) \/ Will(r, t)' = ver[t] \/ (Wants(r, t) /\ Will(r, t)' = Will(r, t))

Rest(r) == TablesHeld(r) /\ ViewOK(r) /\ KnownOK(r) /\ FreshReader(r)

(* nobody but clients and writers says what is enough *)
LEMMA EnoughQuiet ==
    ASSUME NEW r \in Reader, QuietFor(r), NEW t, NEW v
    PROVE  Enough(v, t) => Enough(v, t)'
BY DEF QuietFor, Enough, Inval, Concurrent

(* so it is enough to look at r and at the block it works on *)
Inside(r) == QuietFor(r) /\ Follows(r) /\ \A q \in Query : Kept(q) \/ Makes(r, q)

(* then the rest stays fresh *)
LEMMA ByReader ==
    ASSUME BlockInv, BlockInv', FreshInv, NEW r \in Reader, QuietFor(r), Rest(r)', Follows(r),
           \A q \in Query : Kept(q) \/ Makes(r, q),
           \A t \in Table : Asked(r, t)' => Asked(r, t) \/ locks[t] = {}
    PROVE  FreshInv' /\ Inside(r)
<1>1. /\ UNCHANGED <<play, ver, acked, locks, target, changed, mine>>
      /\ \A q : TablesOf(q)' = TablesOf(q)
  BY DEF QuietFor, TablesOf, Concurrent
<1>2. /\ \A t \in Table : ver[t] \in Nat /\ acked[t] \in Nat
      /\ \A q \in Query : TablesOf(q) \subseteq Table
      /\ Myisam \subseteq Table
  BY FreshTypes, QueryCacheAssumption DEF QueryCacheAssumption
<1>3. Forward BY <1>1, <1>2 DEF Forward, Enough, Concurrent
<1>4. ASSUME NEW w \in Writer PROVE WriterDoes(w)
  <2>1. SameWriter(w) BY <1>1 DEF QuietFor, SameWriter, Concurrent
  <2>2. WriterInv(w) BY DEF FreshInv
  <2> QED BY <2>1, <2>2, <1>3, WriterStays
<1>5. SharedOK'
  <2>1. SharedOK /\ tl \in [Table -> [readers : SUBSET Reader, writer : Writer \cup {None}]]
    BY DEF FreshInv, BlockInv, Typed, TypedEngine
  <2>2. tl' \in [Table -> [readers : SUBSET Reader, writer : Writer \cup {None}]]
    BY DEF BlockInv, Typed, TypedEngine
  <2>3. ASSUME NEW t \in Table, tl'[t].writer # None, ~Concurrent(t) PROVE tl'[t].readers = {}
    <3>1. tl[t].writer # None /\ tl[t].readers = {} BY <2>1, <2>3 DEF QuietFor, SharedOK, Concurrent
    <3>2. tl'[t].readers \subseteq Reader BY <2>2
    <3>3. \A s \in Reader : s \notin tl'[t].readers BY <2>3, <3>1 DEF QuietFor
    <3> QED BY <3>2, <3>3
  <2> QED BY <2>1, <2>3, <1>1 DEF SharedOK, Concurrent
<1>6. ASSUME NEW s \in Reader, s # r PROVE SameSelect(s) /\ \A q \in Query : Reads(s, q) => Kept(q)
  <2>1. SameSelect(s) BY <1>1, <1>2, <1>6 DEF QuietFor, SameSelect, Concurrent
  <2>2. \A q \in Query : Reads(s, q) => Kept(q) BY <1>6 DEF Makes
  <2> QED BY <2>1, <2>2
<1>7. \A q \in Query : EntryFresh(q)' \/ Kept(q) BY DEF Makes
<1>8. ASSUME NEW t \in Table, Concerned(t)', ~Concerned(t) PROVE \A w \in Writer : ~Purges(w, t)'
  <2>1. \A w \in Writer : Purges(w, t)' => Purges(w, t) BY <1>1 DEF Purges, Pending, QuietFor, Concurrent
  <2>2. ASSUME NEW q \in Present(qc)', t \in TablesOf(q) PROVE \A w \in Writer : ~Purges(w, t)
    <3>1. q \in Query /\ q \notin Present(qc) /\ qc'.entry[q] # None BY <1>8, <2>2 DEF Concerned, Present
    <3>2. ~Kept(q) BY <3>1 DEF Kept, Present
    <3> QED BY <3>1, <3>2, <2>2 DEF Makes
  <2>3. ASSUME NEW s \in Reader, Asked(s, t)' PROVE \A w \in Writer : ~Purges(w, t)
    <3>1. ~Asked(s, t) BY <1>8 DEF Concerned
    <3>2. s = r BY <2>3, <3>1, <1>1 DEF QuietFor, Asked, Concurrent
    <3>3. locks[t] = {} /\ t \notin Myisam BY <2>3, <3>1, <3>2 DEF Asked
    <3>4. \A w \in Writer : tl[t].writer # w BY <3>3 DEF FreshInv, WriterInv
    <3> QED BY <3>3, <3>4 DEF Purges, Concurrent
  <2>4. (\E q \in Present(qc)' : t \in TablesOf(q)) \/ \E s \in Reader : Asked(s, t)' BY <1>8, <1>1 DEF Concerned
  <2> QED BY <2>1, <2>2, <2>3, <2>4
<1>9. FreshWriter(r)'
  <2> SUFFICES ASSUME NEW t \in Table, Wants(r, t)' PROVE Enough(Will(r, t), t)' BY DEF FreshWriter
  <2>1. PICK v : v = Will(r, t)' OBVIOUS
  <2>2. Enough(v, t)
    <3>1. CASE v = ver[t]
      <4>1. Enough(ver[t], t) BY EnoughNow DEF FreshInv
      <4> QED BY <3>1, <4>1
    <3>2. CASE Wants(r, t) /\ v = Will(r, t) BY <3>2 DEF FreshInv, ReaderFresh, FreshWriter
    <3>3. CASE Concurrent(t) BY <3>3 DEF Enough, Concurrent
    <3> QED BY <2>1, <3>1, <3>2, <3>3 DEF Follows, Concurrent
  <2>3. Enough(v, t)' BY <2>2, EnoughQuiet
  <2> QED BY <2>1, <2>3
<1>10. ReaderFresh(r)' BY <1>9 DEF ReaderFresh, Rest
<1>11. Harmless BY <1>3, <1>4, <1>5, <1>6, <1>7, <1>8, <1>10 DEF Harmless
<1> QED BY <1>11, HarmlessOK DEF Inside

(* where the variables are defined *)
LEMMA Domains ==
    ASSUME BlockInv
    PROVE  /\ DOMAIN pc = Client /\ DOMAIN net = Client /\ DOMAIN active = Client /\ DOMAIN left = Client
           /\ DOMAIN query = Reader /\ DOMAIN todo = Reader /\ DOMAIN res = Reader /\ DOMAIN dirty = Reader /\ DOMAIN need = Reader
           /\ DOMAIN safe = Reader /\ DOMAIN n = Reader /\ DOMAIN view = Reader
           /\ tl \in [Table -> [readers : SUBSET Reader, writer : Writer \cup {None}]]
           /\ DOMAIN target = Writer /\ DOMAIN changed = Writer /\ DOMAIN mine = Writer
           /\ locks \in [Table -> SUBSET Writer] /\ inv \in [Table -> SUBSET Client]
BY DEF BlockInv, Typed, TypedCache, TypedThreads, TypedEngine, TypedWriters

(* the steps that do not use the engines *)
LEMMA QuietThread ==
    ASSUME BlockInv, NEW r \in Reader, play' = play, engine' = engine, writer' = writer,
           \A c \in Client \ {r} : pc'[c] = pc[c] /\ net'[c] \in {net[c], None},
           \A s \in Reader \ {r} : query'[s] = query[s] /\ todo'[s] = todo[s] /\ res'[s] = res[s] /\ dirty'[s] = dirty[s] /\ need'[s] = need[s]
    PROVE  QuietFor(r)
<1>1. UNCHANGED <<ver, acked, locks, inv, active, view, tl, target, changed, mine>> BY DEF engine, writer
<1>2. /\ \A w \in Writer : w \in Client \ {r}
      /\ \A s \in Reader \ {r} : s \in Client \ {r}
  BY Clients
<1> QED BY <1>1, <1>2 DEF QuietFor, Concurrent

(* one by one *)
LEMMA QuietSteps ==
    ASSUME BlockInv, NEW r \in Reader,
           \/ LookupMiss(r) \/ Found(r) \/ Hit(r) \/ Sent(r) \/ StoreNot(r) \/ StoreEnter(r) \/ Register(r)
           \/ Publish(r) \/ InsertNot(r) \/ query_cache_insert(r) \/ InsertFails(r) \/ Copied(r)
           \/ query_cache_end_of_result(r) \/ Complete(r) \/ ClearNet(r) \/ query_cache_abort(r)
           \/ \E q \in Query : Select(r, q)
    PROVE  QuietFor(r)
<1>0. /\ DOMAIN pc = Client /\ DOMAIN net = Client /\ DOMAIN left = Client
      /\ DOMAIN query = Reader /\ DOMAIN todo = Reader /\ DOMAIN res = Reader /\ DOMAIN dirty = Reader /\ DOMAIN need = Reader
  BY Domains
<1> DEFINE Thread == /\ play' = play /\ engine' = engine /\ writer' = writer
                     /\ \A c \in Client \ {r} : pc'[c] = pc[c] /\ net'[c] \in {net[c], None}
                     /\ \A s \in Reader \ {r} : query'[s] = query[s] /\ todo'[s] = todo[s] /\ res'[s] = res[s] /\ dirty'[s] = dirty[s] /\ need'[s] = need[s]
<1>1. CASE LookupMiss(r) \/ StoreNot(r)
  <2>1. Thread BY <1>0, <1>1 DEF LookupMiss, StoreNot, Goto, cache, thd
  <2> QED BY <2>1, QuietThread
<1>2. CASE Found(r) \/ StoreEnter(r)
  <2>1. Thread BY <1>0, <1>2 DEF Found, StoreEnter, Goto
  <2> QED BY <2>1, QuietThread
<1>3. CASE Hit(r) \/ Register(r) \/ query_cache_insert(r)
  <2>1. UNCHANGED <<play, net, thd, engine, writer>> BY <1>3 DEF Hit, Register, query_cache_insert
  <2>2. \E l : pc' = [pc EXCEPT ![r] = l] BY <1>3 DEF Hit, Register, query_cache_insert, Goto
  <2>3. Thread BY <1>0, <2>1, <2>2 DEF thd
  <2> QED BY <2>3, QuietThread
<1>4. CASE Sent(r)
  <2>1. Thread BY <1>0, <1>4 DEF Sent, EndSelect
  <2> QED BY <2>1, QuietThread
<1>5. CASE Publish(r) \/ ClearNet(r) \/ query_cache_abort(r)
  <2>1. Thread BY <1>0, <1>5 DEF Publish, ClearNet, query_cache_abort, Goto, thd
  <2> QED BY <2>1, QuietThread
<1>6. CASE InsertNot(r) \/ Copied(r)
  <2>1. Thread BY <1>0, <1>6 DEF InsertNot, Copied, Goto, cache
  <2> QED BY <2>1, QuietThread
<1>7. CASE InsertFails(r)
  <2>1. \A c \in Client : net'[c] \in {net[c], None} BY <1>7 DEF InsertFails, ForgetWriter
  <2>2. UNCHANGED <<play, pc, query, todo, res, dirty, need, engine, writer>> BY <1>7 DEF InsertFails
  <2>3. Thread BY <2>1, <2>2
  <2> QED BY <2>3, QuietThread
<1>8. CASE query_cache_end_of_result(r) \/ Complete(r)
  <2>1. UNCHANGED <<play, net, thd, engine, writer>> BY <1>8 DEF query_cache_end_of_result, Complete
  <2>2. \E l : pc' = [pc EXCEPT ![r] = l] BY <1>8 DEF query_cache_end_of_result, Complete, Goto
  <2>3. Thread BY <1>0, <2>1, <2>2 DEF thd
  <2> QED BY <2>3, QuietThread
<1>9. ASSUME NEW q \in Query, Select(r, q) PROVE QuietFor(r)
  <2>1. Thread BY <1>0, <1>9 DEF Select, Goto, cache
  <2> QED BY <2>1, QuietThread
<1> HIDE DEF Thread
<1> QED BY <1>1, <1>2, <1>3, <1>4, <1>5, <1>6, <1>7, <1>8, <1>9

(* those that do *)
LEMMA QuietEngine ==
    ASSUME BlockInv, NEW r \in Reader,
           \/ AskHit(r) \/ Open(r) \/ ask_handler_allowance(r) \/ Read(r) \/ Finish(r)
           \/ UnlockTables(r) \/ CommitReads(r)
    PROVE  QuietFor(r)
<1>0. /\ DOMAIN pc = Client /\ DOMAIN net = Client /\ DOMAIN active = Client
      /\ DOMAIN query = Reader /\ DOMAIN todo = Reader /\ DOMAIN res = Reader /\ DOMAIN dirty = Reader /\ DOMAIN need = Reader
      /\ DOMAIN view = Reader
      /\ tl \in [Table -> [readers : SUBSET Reader, writer : Writer \cup {None}]]
      /\ inv \in [Table -> SUBSET Client]
  BY Domains
<1>1. /\ \A w \in Writer : w \in Client /\ w # r
      /\ \A s \in Reader : s \in Client
  BY Clients
<1>2. CASE AskHit(r) \/ ask_handler_allowance(r)
  <2>1. UNCHANGED <<play, net, query, res, dirty, need, ver, acked, locks, inv, tl, target, changed, mine>>
    BY <1>2 DEF AskHit, ask_handler_allowance, Ask, writer
  <2>2. /\ \E x : active' = [active EXCEPT ![r] = x]
        /\ \E x : view' = [view EXCEPT ![r] = x]
        /\ pc' = pc \/ \E x : pc' = [pc EXCEPT ![r] = x]
        /\ todo' = todo \/ \E x : todo' = [todo EXCEPT ![r] = x]
    BY <1>2 DEF AskHit, ask_handler_allowance, Ask, Goto
  <2> QED BY <1>0, <1>1, <2>1, <2>2 DEF QuietFor, Concurrent
<1>3. CASE Open(r)
  <2>1. UNCHANGED <<play, net, query, todo, dirty, need, ver, acked, locks, inv, active, view, target, changed, mine>>
    BY <1>3 DEF Open, cache, writer
  <2>2. res' = [res EXCEPT ![r] = ver] /\ pc' = [pc EXCEPT ![r] = "store"] BY <1>3 DEF Open, Goto
  <2>4. PICK my : my = TablesOf(query[r]) \cap Myisam OBVIOUS
  <2>5. /\ \A t \in my : t \in Myisam /\ (tl[t].writer = None \/ play.concurrent)
        /\ tl' = [t \in Table |-> IF t \in my THEN [tl[t] EXCEPT !.readers = @ \cup {r}] ELSE tl[t]]
    BY <1>3, <2>4 DEF Open
  <2>6. ASSUME NEW t \in Table
        PROVE  /\ tl'[t].writer = tl[t].writer
               /\ \A s \in Reader \ {r} : s \in tl'[t].readers <=> s \in tl[t].readers
               /\ tl[t].writer # None /\ r \in tl'[t].readers => Concurrent(t) \/ r \in tl[t].readers
    BY <1>0, <2>5 DEF Concurrent
  <2> QED BY <1>0, <1>1, <2>1, <2>2, <2>6 DEF QuietFor, Concurrent
<1>4. CASE Read(r)
  <2>1. UNCHANGED <<play, net, query, todo, need, ver, acked, locks, inv, tl, target, changed, mine>>
    BY <1>4 DEF Read, cache, writer
  <2>2. /\ \E x : active' = [active EXCEPT ![r] = x]
        /\ \E x : view' = [view EXCEPT ![r] = x]
        /\ \E x : res' = [res EXCEPT ![r] = x]
        /\ \E x : dirty' = [dirty EXCEPT ![r] = x]
        /\ pc' = [pc EXCEPT ![r] = "packet"]
    BY <1>4 DEF Read, Goto
  <2> QED BY <1>0, <1>1, <2>1, <2>2 DEF QuietFor, Concurrent
<1>5. CASE Finish(r) \/ UnlockTables(r) \/ CommitReads(r)
  <2>1. UNCHANGED <<play, net, ver, acked, locks, target, changed, mine>>
    BY <1>5 DEF Finish, UnlockTables, CommitReads, cache, writer
  <2>2. /\ pc' = pc \/ \E x : pc' = [pc EXCEPT ![r] = x]
        /\ query' = query \/ \E x : query' = [query EXCEPT ![r] = x]
        /\ todo' = todo \/ \E x : todo' = [todo EXCEPT ![r] = x]
        /\ res' = res \/ \E x : res' = [res EXCEPT ![r] = x]
        /\ dirty' = dirty \/ \E x : dirty' = [dirty EXCEPT ![r] = x]
        /\ need' = need \/ \E x : need' = [need EXCEPT ![r] = x]
    BY <1>5 DEF Finish, UnlockTables, CommitReads, EndSelect, thd
  <2>3. /\ active' = active \/ active' = [active EXCEPT ![r] = FALSE]
        /\ view' = view \/ view' = [view EXCEPT ![r] = None]
        /\ inv' = inv \/ inv' = [t \in Table |-> inv[t] \ {r}]
    BY <1>5 DEF Finish, UnlockTables, CommitReads, EndTrx
  <2>4. tl' = tl \/ tl' = [t \in Table |-> [tl[t] EXCEPT !.readers = @ \ {r}]]
    BY <1>5 DEF Finish, UnlockTables, CommitReads
  <2>5. \A t \in Table : \A s \in Reader \ {r} : s \in inv'[t] <=> s \in inv[t] BY <1>0, <2>3
  <2>6. ASSUME NEW t \in Table
        PROVE  /\ tl'[t].writer = tl[t].writer
               /\ \A s \in Reader \ {r} : s \in tl'[t].readers <=> s \in tl[t].readers
               /\ tl[t].writer # None /\ r \in tl'[t].readers => Concurrent(t) \/ r \in tl[t].readers
    BY <1>0, <2>4
  <2>7. /\ \A w \in Writer : pc'[w] = pc[w] /\ active'[w] = active[w]
        /\ \A s \in Reader \ {r} :
             /\ pc'[s] = pc[s] /\ query'[s] = query[s] /\ todo'[s] = todo[s] /\ res'[s] = res[s] /\ dirty'[s] = dirty[s] /\ need'[s] = need[s]
             /\ view'[s] = view[s] /\ active'[s] = active[s]
    BY <1>0, <1>1, <2>2, <2>3
  <2> QED BY <2>1, <2>5, <2>6, <2>7 DEF QuietFor, Concurrent
<1> QED BY <1>2, <1>3, <1>4, <1>5

-----------------------------------------------------------------------------
(* Blocks that are kept *)

(* a block changes, but not for those who read it *)
LEMMA KeptPut ==
    ASSUME BlockInv, NEW q \in Present(qc), NEW b, qc' = Put(qc, q, b),
           b.data = qc.entry[q].data, b.dirty = qc.entry[q].dirty, b.st = qc.entry[q].st
    PROVE  \A p \in Query : Kept(p)
<1>1. qc \in Caches /\ q \in Query /\ qc.entry[q] # None BY BlockFacts DEF Present
<1>2. qc = [entry |-> qc.entry, lru |-> qc.lru, tbl |-> qc.tbl] /\ qc.entry \in [Query -> Block \cup {None}]
  BY <1>1, CacheFacts
<1>3. qc'.entry = [qc.entry EXCEPT ![q] = b] BY <1>2 DEF Put
<1>4. ASSUME NEW p \in Query PROVE Kept(p)
  <2>1. CASE p = q
    <3>1. qc'.entry[p] = b BY <2>1, <1>1, <1>2, <1>3
    <3> QED BY <3>1, <2>1, <1>1 DEF Kept
  <2>2. CASE p # q
    <3>1. qc'.entry[p] = qc.entry[p] BY <2>2, <1>2, <1>3
    <3> QED BY <3>1 DEF Kept
  <2> QED BY <2>1, <2>2
<1> QED BY <1>4

(* nothing happens to the blocks, or some of them go *)
LEMMA KeptAll == ASSUME qc'.entry = qc.entry PROVE \A p \in Query : Kept(p)
BY DEF Kept

(* a query is freed *)
LEMMA KeptFree ==
    ASSUME BlockInv, NEW q \in Query, qc' = free_query(qc, q)
    PROVE  \A p \in Query : Kept(p)
<1>1. qc.entry \in [Query -> Block \cup {None}] BY BlockFacts, CacheFacts
<1>2. qc'.entry = [qc.entry EXCEPT ![q] = None] BY DEF free_query
<1>3. ASSUME NEW p \in Query PROVE qc'.entry[p] \in {qc.entry[p], None} BY <1>1, <1>2
<1> QED BY <1>3 DEF Kept

(* a SELECT that finds a result *)
LEMMA KeptReads ==
    ASSUME BlockInv, NEW r \in Reader, Found(r) \/ AskHit(r) \/ Hit(r) \/ Sent(r)
    PROVE  \A p \in Query : Kept(p)
<1>1. PICK q : q = query[r] OBVIOUS
<1>2. q \in Present(qc) /\ qc.entry[q] \in Block
  <2>1. CASE Found(r)
    <3>1. qc.entry[q] # None BY <2>1, <1>1 DEF Found, State
    <3>2. q \in Query BY <2>1, <1>1, BlockFacts DEF Found, ReaderInv
    <3>3. q \in Present(qc) BY <3>1, <3>2 DEF Present
    <3> QED BY <3>3, BlockFacts
  <2>2. CASE AskHit(r) \/ Hit(r) \/ Sent(r)
    <3>1. pc[r] \in {"ask_hit", "sending"} BY <2>2 DEF AskHit, Hit, Sent
    <3> QED BY <3>1, <1>1, ReaderAt
  <2> QED BY <2>1, <2>2
<1>3. qc = [entry |-> qc.entry, lru |-> qc.lru, tbl |-> qc.tbl] BY BlockFacts, CacheFacts
<1>4. qc'.entry = qc.entry \/ \E S : qc' = [qc EXCEPT !.entry[q].readers = S]
  <2>1. CASE Found(r) BY <2>1, <1>1 DEF Found
  <2>2. CASE AskHit(r)
    <3>1. qc' = qc \/ qc' = [qc EXCEPT !.entry[q].readers = @ \ {r}] BY <2>2, <1>1 DEF AskHit
    <3> QED BY <3>1
  <2>3. CASE Hit(r) BY <2>3, <1>1, <1>3 DEF Hit
  <2>4. CASE Sent(r) BY <2>4, <1>1 DEF Sent
  <2> QED BY <2>1, <2>2, <2>3, <2>4
<1>5. CASE qc'.entry = qc.entry BY <1>5, KeptAll
<1>6. ASSUME NEW S, qc' = [qc EXCEPT !.entry[q].readers = S] PROVE \A p \in Query : Kept(p)
  <2>1. PICK b : b = [qc.entry[q] EXCEPT !.readers = S] OBVIOUS
  <2>2. b.data = qc.entry[q].data /\ b.dirty = qc.entry[q].dirty /\ b.st = qc.entry[q].st BY <2>1, <1>2 DEF Block
  <2>3. qc' = Put(qc, q, b) BY <1>6, <2>1 DEF Put
  <2> QED BY <2>2, <2>3, <1>2, KeptPut
<1> QED BY <1>4, <1>5, <1>6

(* and one that stores its own *)
LEMMA KeptWrites ==
    ASSUME BlockInv, NEW r \in Reader,
           \/ Publish(r) \/ InsertNot(r) \/ InsertFails(r) \/ Copied(r) \/ query_cache_end_of_result(r)
           \/ ClearNet(r) \/ query_cache_abort(r)
    PROVE  \A p \in Query : Kept(p)
<1>1. CASE InsertNot(r) \/ ClearNet(r) \/ (net[r] = None /\ (query_cache_end_of_result(r) \/ query_cache_abort(r)))
  <2>1. qc' = qc BY <1>1 DEF InsertNot, ClearNet, query_cache_end_of_result, query_cache_abort, cache
  <2> QED BY <2>1, KeptAll
<1>2. CASE net[r] # None /\ (InsertFails(r) \/ query_cache_abort(r))
  <2>1. PICK q : q = net[r] OBVIOUS
  <2>2. q \in Query /\ qc' = free_query(qc, q)
    BY <1>2, <2>1, Clients DEF InsertFails, query_cache_abort, BlockInv, Typed, TypedCache
  <2> QED BY <2>2, KeptFree
<1>3. CASE Publish(r) \/ Copied(r) \/ (net[r] # None /\ query_cache_end_of_result(r))
  <2>1. PICK q : q = query[r] OBVIOUS
  <2>2. pc[r] = "publish" \/ (net[r] # None /\ Busy(r))
    BY <1>3, BlockFacts DEF Publish, Copied, query_cache_end_of_result, Busy, ReaderInv
  <2>3. q \in Present(qc) /\ qc.entry[q] \in Block /\ (pc[r] # "publish" => net[r] = q) BY <2>1, <2>2, WriterAt
  <2>4. qc = [entry |-> qc.entry, lru |-> qc.lru, tbl |-> qc.tbl] /\ qc.entry \in [Query -> Block \cup {None}]
        /\ q \in Query
    BY <2>3, BlockFacts, CacheFacts DEF Present
  <2>5. PICK e : e = qc.entry[q] OBVIOUS
  <2>6. \E b : qc' = Put(qc, q, b) /\ b.data = e.data /\ b.dirty = e.dirty /\ b.st = e.st
    <3>1. CASE Publish(r)
      <4>1. PICK b : b = [e EXCEPT !.writer = r, !.lock = None] OBVIOUS
      <4>2. b.data = e.data /\ b.dirty = e.dirty /\ b.st = e.st BY <4>1, <2>3, <2>5 DEF Block
      <4>3. qc' = [qc EXCEPT !.entry[q].writer = r, !.entry[q].lock = None] BY <3>1, <2>1 DEF Publish
      <4>4. qc' = Put(qc, q, b) BY <4>1, <4>3, <2>4, <2>5 DEF Put
      <4> QED BY <4>2, <4>4
    <3>2. ASSUME NEW l, qc' = [qc EXCEPT !.entry[q].lock = l]
          PROVE  \E b : qc' = Put(qc, q, b) /\ b.data = e.data /\ b.dirty = e.dirty /\ b.st = e.st
      <4>1. PICK b : b = [e EXCEPT !.lock = l] OBVIOUS
      <4>2. b.data = e.data /\ b.dirty = e.dirty /\ b.st = e.st BY <4>1, <2>3, <2>5 DEF Block
      <4>3. qc' = Put(qc, q, b) BY <3>2, <4>1, <2>5 DEF Put
      <4> QED BY <4>2, <4>3
    <3>3. CASE Copied(r)
      <4>1. q = net[r] BY <3>3, <2>3 DEF Copied
      <4>2. qc' = [qc EXCEPT !.entry[q].lock = None] BY <3>3, <4>1 DEF Copied
      <4> QED BY <4>2, <3>2
    <3>4. CASE net[r] # None /\ query_cache_end_of_result(r)
      <4>1. q = net[r] BY <3>4, <2>3 DEF query_cache_end_of_result
      <4>2. qc' = [qc EXCEPT !.entry[q].lock = r] BY <3>4, <4>1 DEF query_cache_end_of_result
      <4> QED BY <4>2, <3>2
    <3> QED BY <1>3, <3>1, <3>3, <3>4
  <2> QED BY <2>3, <2>5, <2>6, KeptPut
<1>4. InsertFails(r) => net[r] # None BY DEF InsertFails
<1> QED BY <1>1, <1>2, <1>3, <1>4

-----------------------------------------------------------------------------
(* What a SELECT has when it moves *)

(* the view does not change *)
LEMMA ViewSame ==
    ASSUME NEW r \in Reader, ViewOK(r), UNCHANGED <<ver, inv, active, view>>
    PROVE  ViewOK(r)'
BY DEF ViewOK

(* the numbers do not change *)
LEMMA KnownSame ==
    ASSUME NEW r \in Reader, KnownOK(r), UNCHANGED <<ver, acked>>, res'[r] = res[r], need'[r] = need[r]
    PROVE  KnownOK(r)'
BY DEF KnownOK

(* out of the cache and of the tables *)
LEMMA OutFresh ==
    ASSUME NEW r \in Reader, pc'[r] \in {"idle", "lookup", "open", "clear", "finish"}, ViewOK(r)', KnownOK(r)'
    PROVE  Rest(r)' /\ Follows(r) /\ \A t \in Table : ~Asked(r, t)'
<1>1. TablesHeld(r)' BY DEF TablesHeld, Concurrent
<1>2. \A t \in Table : ~Asked(r, t)' BY DEF Asked
<1>3. Follows(r) BY <1>2 DEF Follows, Wants, Writes, Busy, Concurrent
<1>4. FreshReader(r)' BY DEF FreshReader, Reads, Concurrent
<1> QED BY <1>1, <1>2, <1>3, <1>4 DEF Rest

(* between the locks and the rows *)
Early(l) == l \in {"store", "ask_store", "publish", "read"}

(* nothing is stored then *)
LEMMA EarlyFresh ==
    ASSUME NEW r \in Reader, ReaderFresh(r), Early(pc[r]), Early(pc'[r]),
           UNCHANGED <<play, ver, acked, tl>>, query'[r] = query[r], res'[r] = res[r], need'[r] = need[r],
           ViewOK(r)'
    PROVE  Rest(r)'
<1>1. TablesHeld(r)' BY DEF TablesHeld, ReaderFresh, Early, TablesOf, Concurrent
<1>2. KnownOK(r)' BY KnownSame DEF ReaderFresh
<1>3. FreshReader(r)' BY DEF FreshReader, Reads, Early, Concurrent
<1> QED BY <1>1, <1>2, <1>3 DEF Rest

(* while the rows are sent *)
Late(l) == l \in {"packet", "copy", "complete"}

(* what is stored then has been read *)
LEMMA LateFresh ==
    ASSUME NEW r \in Reader, QuietFor(r), ReaderFresh(r), Late(pc[r]), Late(pc'[r]),
           query'[r] = query[r], res'[r] = res[r], need'[r] = need[r], net'[r] \in {net[r], None}, query[r] # None,
           ViewOK(r)'
    PROVE  Rest(r)' /\ Follows(r) /\ \A t \in Table : ~Asked(r, t)'
<1>1. UNCHANGED <<play, ver, acked>> BY DEF QuietFor, Concurrent
<1>2. TablesHeld(r)' BY DEF TablesHeld, Late, Concurrent
<1>3. KnownOK(r)' BY <1>1, KnownSame DEF ReaderFresh
<1>4. \A t \in Table : ~Asked(r, t)' BY DEF Asked, Late
<1>5. Follows(r)
  <2> SUFFICES ASSUME NEW t \in Table, (Writes(r, query[r]) /\ t \in TablesOf(query[r]))'
               PROVE  Wants(r, t) /\ Will(r, t)' = Will(r, t)
    BY <1>4 DEF Follows, Wants, Concurrent
  <2>1. Writes(r, query[r]) /\ t \in TablesOf(query[r]) BY <1>1 DEF Writes, Busy, Late, TablesOf
  <2>2. Will(r, t)' = Will(r, t) BY DEF Will, Late
  <2> QED BY <2>1, <2>2 DEF Wants
<1>6. FreshReader(r)' BY DEF FreshReader, Reads, Late, Concurrent
<1> QED BY <1>2, <1>3, <1>4, <1>5, <1>6 DEF Rest

(* with a result of the cache in hand *)
LEMMA HitFresh ==
    ASSUME NEW r \in Reader, NEW q \in Query, query'[r] = q, pc'[r] \in {"ask_hit", "sending"},
           ViewOK(r)', KnownOK(r)', play' = play,
           \A t \in TablesOf(q) : Concurrent(t) \/ need'[r][t] <= qc'.entry[q].data[t]
    PROVE  Rest(r)' /\ Follows(r) /\ \A t \in Table : ~Asked(r, t)'
<1>1. TablesHeld(r)' BY DEF TablesHeld, Concurrent
<1>2. \A t \in Table : ~Asked(r, t)' BY DEF Asked
<1>3. Follows(r) BY <1>2 DEF Follows, Wants, Writes, Busy, Concurrent
<1>4. FreshReader(r)' BY DEF FreshReader, Reads, TablesOf, Concurrent
<1> QED BY <1>1, <1>2, <1>3, <1>4 DEF Rest

(* a transaction gets a view, or keeps the one it has *)
LEMMA ViewTaken ==
    ASSUME BlockInv, NEW r \in Reader, ViewOK(r), UNCHANGED <<ver, inv>>, view'[r] \in {view[r], ViewOf(r)},
           active'[r] \/ (view'[r] = view[r] /\ active'[r] = active[r])
    PROVE  ViewOK(r)'
<1>1. \A t \in Table : ver[t] \in Nat BY FreshTypes
<1>2. CASE view'[r] = view[r] BY <1>2 DEF ViewOK
<1>3. CASE view[r] = None /\ view'[r] = ver /\ active'[r]
  <2>1. \A t \in Table : ver[t] <= ver[t] BY <1>1
  <2> QED BY <1>3, <2>1 DEF ViewOK
<1> QED BY <1>2, <1>3 DEF ViewOf

-----------------------------------------------------------------------------
(* The steps of a SELECT *)

(* a SELECT that is done with the cache *)
LEMMA FinishFresh ==
    ASSUME BlockInv, BlockInv', FreshInv, NEW r \in Reader, QuietFor(r), \A q \in Query : Kept(q),
           pc'[r] \in {"idle", "lookup", "open", "clear", "finish"}, ViewOK(r)', KnownOK(r)'
    PROVE  FreshInv' /\ Inside(r)
<1>1. Rest(r)' /\ Follows(r) /\ \A t \in Table : ~Asked(r, t)' BY OutFresh
<1> QED BY <1>1, ByReader

(* a SELECT comes, misses the cache, or leaves it *)
LEMMA MissFresh ==
    ASSUME BlockInv, BlockInv', FreshInv, NEW r \in Reader,
           \/ \E q \in Query : Select(r, q)
           \/ LookupMiss(r) \/ Sent(r) \/ ClearNet(r) \/ query_cache_abort(r)
           \/ (net[r] = None /\ query_cache_end_of_result(r))
    PROVE  FreshInv' /\ Inside(r)
<1>0. /\ DOMAIN pc = Client /\ DOMAIN need = Reader /\ DOMAIN res = Reader /\ DOMAIN dirty = Reader /\ r \in Client
      /\ \A t \in Table : ver[t] \in Nat /\ acked[t] \in Nat
  BY Domains, FreshTypes, Clients
<1>1. QuietFor(r) BY QuietSteps
<1>2. \A q \in Query : Kept(q)
  <2>1. CASE LookupMiss(r) \/ \E q \in Query : Select(r, q)
    <3>1. qc' = qc BY <2>1 DEF LookupMiss, Select, cache
    <3> QED BY <3>1, KeptAll
  <2> QED BY <2>1, KeptReads, KeptWrites
<1>3. pc'[r] \in {"idle", "lookup", "open", "clear", "finish"}
  BY <1>0 DEF Select, LookupMiss, Sent, EndSelect, ClearNet, query_cache_abort, query_cache_end_of_result, Goto
<1>4. UNCHANGED <<ver, inv, active, view, acked>>
  BY DEF Select, LookupMiss, Sent, ClearNet, query_cache_abort, query_cache_end_of_result, engine
<1>5. ViewOK(r)' BY <1>4, ViewSame DEF FreshInv, ReaderFresh
<1>6. KnownOK(r)'
  <2>1. KnownOK(r) BY DEF FreshInv, ReaderFresh
  <2>2. CASE \E q \in Query : Select(r, q)
    <3>1. need'[r] = acked /\ res' = res BY <2>2, <1>0 DEF Select
    <3>2. \A t \in Table : res[r][t] <= ver[t] /\ acked[t] <= acked[t] BY <2>1, <1>0 DEF KnownOK
    <3> QED BY <3>1, <3>2, <1>4 DEF KnownOK
  <2>3. CASE Sent(r)
    <3>1. need'[r] = NoVersions /\ res'[r] = NoVersions BY <2>3, <1>0 DEF Sent, EndSelect
    <3>2. \A t \in Table : NoVersions[t] <= ver[t] /\ NoVersions[t] <= acked[t] BY <1>0 DEF NoVersions
    <3> QED BY <3>1, <3>2, <1>4 DEF KnownOK
  <2>4. CASE LookupMiss(r) \/ ClearNet(r) \/ query_cache_abort(r) \/ query_cache_end_of_result(r)
    <3>1. need' = need /\ res' = res
      BY <2>4 DEF LookupMiss, ClearNet, query_cache_abort, query_cache_end_of_result, thd
    <3> QED BY <3>1, <2>1, <1>4, KnownSame
  <2> QED BY <2>2, <2>3, <2>4
<1> QED BY <1>1, <1>2, <1>3, <1>5, <1>6, FinishFresh

(* the transaction and the tables are given back *)
LEMMA EndFresh ==
    ASSUME BlockInv, BlockInv', FreshInv, NEW r \in Reader,
           Finish(r) \/ UnlockTables(r) \/ CommitReads(r)
    PROVE  FreshInv' /\ Inside(r)
<1>0. /\ DOMAIN pc = Client /\ DOMAIN need = Reader /\ DOMAIN res = Reader /\ DOMAIN dirty = Reader /\ DOMAIN view = Reader /\ r \in Client
      /\ \A t \in Table : ver[t] \in Nat /\ acked[t] \in Nat
  BY Domains, FreshTypes, Clients
<1>1. QuietFor(r) BY QuietEngine
<1>2. \A q \in Query : Kept(q)
  <2>1. qc' = qc BY DEF Finish, UnlockTables, CommitReads, cache
  <2> QED BY <2>1, KeptAll
<1>3. ViewOK(r)'
  <2>1. ver' = ver BY DEF Finish, UnlockTables, CommitReads
  <2>2. UNCHANGED <<active, view, inv>> \/ view'[r] = None
    BY <1>0 DEF Finish, UnlockTables, CommitReads, EndTrx
  <2>3. CASE UNCHANGED <<active, view, inv>> BY <2>1, <2>3, ViewSame DEF FreshInv, ReaderFresh
  <2>4. CASE view'[r] = None BY <2>4 DEF ViewOK
  <2> QED BY <2>2, <2>3, <2>4
<1>4. KnownOK(r)'
  <2>1. KnownOK(r) /\ UNCHANGED <<ver, acked>> BY DEF FreshInv, ReaderFresh, Finish, UnlockTables, CommitReads
  <2>2. CASE Finish(r)
    <3>1. need'[r] = NoVersions /\ res'[r] = NoVersions BY <2>2, <1>0 DEF Finish, EndSelect
    <3>2. \A t \in Table : NoVersions[t] <= ver[t] /\ NoVersions[t] <= acked[t] BY <1>0 DEF NoVersions
    <3> QED BY <3>1, <3>2, <2>1 DEF KnownOK
  <2>3. CASE UnlockTables(r) \/ CommitReads(r)
    <3>1. need' = need /\ res' = res BY <2>3 DEF UnlockTables, CommitReads, thd
    <3> QED BY <3>1, <2>1, KnownSame
  <2> QED BY <2>2, <2>3
<1>5. CASE UnlockTables(r) /\ pc[r] # "clear"
  <2>1. Late(pc[r]) /\ pc' = pc BY <1>5 DEF UnlockTables, Late
  <2>2. UNCHANGED <<query, res, dirty, need, net>> BY <1>5 DEF UnlockTables, thd, cache
  <2>3. query[r] # None BY <2>1, BlockFacts, Clients DEF ReaderInv, Late
  <2>4. Rest(r)' /\ Follows(r) /\ \A t \in Table : ~Asked(r, t)'
    BY <2>1, <2>2, <2>3, <1>1, <1>3, LateFresh DEF FreshInv
  <2> QED BY <2>4, <1>1, <1>2, ByReader
<1>6. CASE ~(UnlockTables(r) /\ pc[r] # "clear")
  <2>1. pc'[r] \in {"idle", "lookup", "open", "clear", "finish"}
    BY <1>0, <1>6 DEF Finish, UnlockTables, CommitReads, EndSelect
  <2> QED BY <2>1, <1>1, <1>2, <1>3, <1>4, FinishFresh
<1> QED BY <1>5, <1>6

(* a result is found: it has what the client must see *)
LEMMA FoundFresh == ASSUME BlockInv, BlockInv', FreshInv, NEW r \in Reader, Found(r) PROVE FreshInv' /\ Inside(r)
<1>0. /\ DOMAIN pc = Client /\ r \in Client
      /\ \A t \in Table : ver[t] \in Nat /\ acked[t] \in Nat /\ need[r][t] \in Nat
      /\ \A q \in Query : TablesOf(q) \subseteq Table
  BY Domains, FreshTypes, Clients
<1>1. QuietFor(r) /\ \A q \in Query : Kept(q) BY QuietSteps, KeptReads
<1>2. UNCHANGED <<play, query, res, dirty, need, ver, inv, active, view, acked>> BY DEF Found, engine
<1>3. PICK q : q = query[r] OBVIOUS
<1>4. /\ q \in Query /\ q \in Present(qc) /\ qc.entry[q].st = "result" /\ qc.entry[q] # None
  <2>1. qc.entry[q] # None /\ qc.entry[q].st = "result" BY <1>3 DEF Found, State
  <2>2. q \in Query BY <1>3, BlockFacts DEF Found, ReaderInv
  <2> QED BY <2>1, <2>2 DEF Present
<1>5. pc'[r] = "ask_hit" BY <1>0 DEF Found, Goto
<1>6. ViewOK(r)' /\ KnownOK(r)' BY <1>2, ViewSame, KnownSame DEF FreshInv, ReaderFresh
<1>7. Reads(r, q)' BY <1>2, <1>3, <1>5 DEF Reads
<1>8. qc'.entry[q] # None BY <1>4, <1>7 DEF BlockInv, CacheOK, Held, ReaderBlock
<1>9. qc'.entry[q].data = qc.entry[q].data BY <1>1, <1>4, <1>8 DEF Kept
<1>10. ASSUME NEW t \in TablesOf(q) PROVE Concurrent(t) \/ need'[r][t] <= qc'.entry[q].data[t]
  <2>1. t \in Table BY <1>0, <1>4
  <2>2. need[r][t] <= acked[t] BY <2>1 DEF FreshInv, ReaderFresh, KnownOK
  <2>3. Enough(qc.entry[q].data[t], t) BY <1>4 DEF FreshInv, EntryFresh
  <2>4. Concurrent(t) \/ acked[t] <= qc.entry[q].data[t] BY <2>3 DEF Enough, Concurrent
  <2>5. qc.entry[q].data[t] \in Nat BY <2>1, <1>4, FreshTypes
  <2>6. Concurrent(t) \/ need[r][t] <= qc.entry[q].data[t] BY <2>1, <2>2, <2>4, <2>5, <1>0
  <2> QED BY <2>6, <1>2, <1>9
<1>11. Rest(r)' /\ Follows(r) /\ \A t \in Table : ~Asked(r, t)'
  BY <1>2, <1>3, <1>4, <1>5, <1>6, <1>10, HitFresh
<1> QED BY <1>1, <1>11, ByReader

(* the result stays the one that was found *)
LEMMA AskHitFresh ==
    ASSUME BlockInv, BlockInv', FreshInv, NEW r \in Reader, AskHit(r) \/ Hit(r)
    PROVE  FreshInv' /\ Inside(r)
<1>0. /\ DOMAIN pc = Client /\ DOMAIN view = Reader /\ DOMAIN active = Client /\ r \in Client BY Domains, Clients
<1>1. QuietFor(r) /\ \A q \in Query : Kept(q) BY QuietSteps, QuietEngine, KeptReads
<1>2. UNCHANGED <<play, query, res, dirty, need, ver, inv, acked>> BY DEF AskHit, Hit, Ask, engine, thd
<1>3. ViewOK(r)'
  <2>1. ViewOK(r) BY DEF FreshInv, ReaderFresh
  <2>2. CASE Hit(r)
    <3>1. UNCHANGED <<active, view>> BY <2>2 DEF Hit, engine
    <3> QED BY <3>1, <2>1, <1>2, ViewSame
  <2>3. CASE AskHit(r)
    <3>1. active'[r] /\ view'[r] \in {view[r], ViewOf(r)} BY <2>3, <1>0 DEF AskHit, Ask
    <3> QED BY <3>1, <2>1, <1>2, ViewTaken
  <2> QED BY <2>2, <2>3
<1>4. KnownOK(r)' BY <1>2, KnownSame DEF FreshInv, ReaderFresh
<1>5. CASE pc'[r] = "open" BY <1>5, <1>1, <1>3, <1>4, FinishFresh
<1>6. CASE pc'[r] \in {"ask_hit", "sending"}
  <2>1. PICK q : q = query[r] OBVIOUS
  <2>2. pc[r] = "ask_hit" BY DEF AskHit, Hit
  <2>3. q \in Query /\ Reads(r, q) BY <2>1, <2>2, ReaderAt
  <2>4. Reads(r, q)' BY <2>1, <1>2, <1>6 DEF Reads
  <2>5. qc'.entry[q] # None BY <2>3, <2>4 DEF BlockInv, CacheOK, Held, ReaderBlock
  <2>6. qc'.entry[q].data = qc.entry[q].data BY <2>3, <2>5, <1>1 DEF Kept
  <2>7. \A t \in TablesOf(q) : Concurrent(t) \/ need'[r][t] <= qc'.entry[q].data[t]
    BY <2>3, <2>6, <1>2 DEF FreshInv, ReaderFresh, FreshReader, Concurrent
  <2>8. Rest(r)' /\ Follows(r) /\ \A t \in Table : ~Asked(r, t)' BY <2>1, <2>3, <2>7, <1>2, <1>3, <1>4, <1>6, HitFresh
  <2> QED BY <2>8, <1>1, ByReader
<1>7. pc'[r] \in {"open", "ask_hit", "sending"} BY <1>0 DEF AskHit, Hit, Goto
<1> QED BY <1>5, <1>6, <1>7

(* MyISAM's tables are seen as they are *)
LEMMA OpenFresh ==
    ASSUME BlockInv, BlockInv', FreshInv, NEW r \in Reader, Open(r)
    PROVE  FreshInv' /\ Inside(r)
<1>0. /\ DOMAIN pc = Client /\ DOMAIN res = Reader /\ DOMAIN dirty = Reader /\ r \in Client /\ Myisam \subseteq Table
      /\ tl \in [Table -> [readers : SUBSET Reader, writer : Writer \cup {None}]]
      /\ \A t \in Table : ver[t] \in Nat
  BY Domains, Clients, FreshTypes, QueryCacheAssumption DEF QueryCacheAssumption
<1>1. QuietFor(r) BY QuietEngine
<1>2. UNCHANGED <<play, qc, net, query, todo, need, ver, inv, active, view, acked>> BY DEF Open, cache
<1>3. \A q \in Query : Kept(q) BY <1>2, KeptAll
<1>4. res'[r] = ver /\ pc'[r] = "store" BY <1>0 DEF Open, Goto
<1>5. ViewOK(r)' BY <1>2, ViewSame DEF FreshInv, ReaderFresh
<1>6. KnownOK(r)'
  <2>1. \A t \in Table : ver[t] <= ver[t] BY <1>0
  <2>2. \A t \in Table : need[r][t] <= acked[t] BY DEF FreshInv, ReaderFresh, KnownOK
  <2> QED BY <2>1, <2>2, <1>2, <1>4 DEF KnownOK
<1>7. TablesHeld(r)'
  <2> SUFFICES ASSUME NEW t \in Myisam, t \in TablesOf(query[r]) PROVE r \in tl'[t].readers
    BY <1>2, <1>4 DEF TablesHeld, TablesOf, Concurrent
  <2>1. tl'[t] = [tl[t] EXCEPT !.readers = @ \cup {r}] BY <1>0 DEF Open
  <2> QED BY <2>1, <1>0
<1>8. \A t \in Table : ~Asked(r, t)' BY <1>4 DEF Asked
<1>9. Follows(r) BY <1>4, <1>8 DEF Follows, Wants, Writes, Busy, Concurrent
<1>10. FreshReader(r)' BY <1>4 DEF FreshReader, Reads, Concurrent
<1>11. Rest(r)' BY <1>5, <1>6, <1>7, <1>10 DEF Rest
<1> QED BY <1>1, <1>3, <1>8, <1>9, <1>11, ByReader

(* nobody is asked yet *)
LEMMA StoreFresh ==
    ASSUME BlockInv, BlockInv', FreshInv, NEW r \in Reader, StoreNot(r) \/ StoreEnter(r)
    PROVE  FreshInv' /\ Inside(r)
<1>0. /\ DOMAIN pc = Client /\ DOMAIN todo = Reader /\ r \in Client /\ None \notin Query BY Domains, Clients
<1>1. QuietFor(r) BY QuietSteps
<1>2. UNCHANGED <<play, qc, net, query, res, dirty, need, ver, inv, active, view, acked, tl>>
  BY DEF StoreNot, StoreEnter, cache, thd, engine
<1>3. \A q \in Query : Kept(q) BY <1>2, KeptAll
<1>4. pc[r] = "store" /\ pc'[r] \in {"read", "ask_store"} BY <1>0 DEF StoreNot, StoreEnter, Goto
<1>5. net[r] = None /\ query[r] \in Query BY <1>4, BlockFacts DEF ReaderInv, Busy
<1>6. ASSUME NEW t \in Table PROVE ~Asked(r, t)'
  <2>1. CASE StoreNot(r)
    <3>1. pc'[r] = "read" BY <2>1, <1>0 DEF StoreNot, Goto
    <3> QED BY <3>1 DEF Asked
  <2>2. CASE StoreEnter(r)
    <3>1. todo'[r] = Without(play.tables[query[r]], Myisam) BY <2>2, <1>0 DEF StoreEnter, InnodbTables
    <3>2. play.tables[query[r]] \in Seq(Table) BY <1>5, PlayFacts, BlockFacts
    <3>3. ToSet(todo'[r]) = TablesOf(query[r]) \ Myisam BY <3>1, <3>2, WithoutFacts DEF TablesOf
    <3>4. TablesOf(query[r])' = TablesOf(query[r]) BY <1>2 DEF TablesOf
    <3> QED BY <3>3, <3>4 DEF Asked
  <2> QED BY <2>1, <2>2
<1>7. ~Writes(r, query[r])' BY <1>0, <1>2, <1>4, <1>5 DEF Writes
<1>8. Follows(r) BY <1>6, <1>7 DEF Follows, Wants, Concurrent
<1>9. ViewOK(r)' BY <1>2, ViewSame DEF FreshInv, ReaderFresh
<1>10. Rest(r)' BY <1>2, <1>4, <1>9, EarlyFresh DEF FreshInv, Early
<1> QED BY <1>1, <1>3, <1>6, <1>8, <1>10, ByReader

(* a view that is taken shows what would have been read without it *)
LEMMA WillSame ==
    ASSUME NEW r \in Reader, NEW t \in Table, Early(pc[r]), Early(pc'[r]), UNCHANGED <<play, ver, res>>,
           view'[r] \in {view[r], ViewOf(r)}
    PROVE  Will(r, t)' = Will(r, t)
BY DEF Will, Early, ViewOf

(* InnoDB allows it when nobody changes the table and the view is the last one *)
LEMMA AskStoreFresh ==
    ASSUME BlockInv, BlockInv', FreshInv, NEW r \in Reader, ask_handler_allowance(r)
    PROVE  FreshInv' /\ Inside(r)
<1>0. /\ DOMAIN pc = Client /\ DOMAIN todo = Reader /\ DOMAIN view = Reader /\ DOMAIN active = Client
      /\ r \in Client /\ None \notin Query /\ todo[r] \in Seq(Table)
  BY Domains, Clients DEF BlockInv, Typed, TypedThreads
<1>1. QuietFor(r) BY QuietEngine
<1>2. UNCHANGED <<play, qc, net, query, res, dirty, need, ver, inv, acked, tl, locks>>
  BY DEF ask_handler_allowance, Ask
<1>3. \A q \in Query : Kept(q) BY <1>2, KeptAll
<1>4. pc[r] = "ask_store" /\ todo[r] # << >> /\ pc'[r] \in {"read", "ask_store"}
  BY <1>0 DEF ask_handler_allowance, Goto
<1>5. net[r] = None /\ query[r] \in Query BY <1>4, BlockFacts DEF ReaderInv, Busy
<1>6. active'[r] /\ view'[r] \in {view[r], ViewOf(r)} BY <1>0 DEF ask_handler_allowance, Ask
<1>7. ViewOK(r) /\ ViewOK(r)' BY <1>2, <1>6, ViewTaken DEF FreshInv, ReaderFresh
<1>8. ~Writes(r, query[r])' BY <1>0, <1>2, <1>4, <1>5 DEF Writes
<1>9. PICK h : h = Head(todo[r]) OBVIOUS
<1>10. ASSUME NEW t \in Table, Asked(r, t)', ~Asked(r, t)
       PROVE  t = h /\ Permitted(r, h) /\ t \notin Myisam
  <2>1. pc'[r] = "ask_store" /\ t \notin ToSet(todo'[r]) /\ t \in TablesOf(query[r]) \ Myisam
    BY <1>2, <1>10 DEF Asked, TablesOf
  <2>2. t \in ToSet(todo[r]) BY <2>1, <1>4, <1>10 DEF Asked
  <2>3. Permitted(r, h) /\ todo'[r] = Tail(todo[r])
    BY <2>1, <1>0, <1>4, <1>9 DEF ask_handler_allowance, Goto
  <2>4. t = h
    <3>1. PICK i \in 1 .. Len(todo[r]) : todo[r][i] = t BY <2>2, <1>0 DEF ToSet
    <3>2. ASSUME i # 1 PROVE FALSE
      <4>1. /\ i - 1 \in 1 .. Len(Tail(todo[r])) /\ Tail(todo[r])[i - 1] = todo[r][i]
            /\ DOMAIN Tail(todo[r]) = 1 .. Len(Tail(todo[r]))
        BY <3>2, <1>0, <1>4
      <4>2. t \in ToSet(Tail(todo[r])) BY <3>1, <4>1 DEF ToSet
      <4> QED BY <4>2, <2>1, <2>3
    <3> QED BY <3>1, <3>2, <1>0, <1>4, <1>9
  <2> QED BY <2>1, <2>3, <2>4
<1>11. \A t \in Table : Asked(r, t)' => Asked(r, t) \/ locks[t] = {} BY <1>10 DEF Permitted
<1>12. Follows(r)
  <2> SUFFICES ASSUME NEW t \in Table, Asked(r, t)'
               PROVE  Will(r, t)' = ver[t] \/ (Wants(r, t) /\ Will(r, t)' = Will(r, t))
    BY <1>8 DEF Follows, Wants, Concurrent
  <2>1. Early(pc[r]) /\ Early(pc'[r]) BY <1>4 DEF Early
  <2>2. Will(r, t)' = Will(r, t) BY <2>1, <1>2, <1>6, WillSame
  <2>3. CASE Asked(r, t) BY <2>2, <2>3 DEF Wants
  <2>4. CASE ~Asked(r, t)
    <3>1. r \notin inv[t] /\ t \notin Myisam BY <2>4, <1>10 DEF Permitted
    <3>2. Will(r, t) = ver[t] BY <3>1, <1>4, <1>7 DEF Will, ViewOK
    <3> QED BY <2>2, <3>2
  <2> QED BY <2>3, <2>4
<1>13. Rest(r)' BY <1>2, <1>4, <1>7, EarlyFresh DEF FreshInv, Early
<1> QED BY <1>1, <1>3, <1>11, <1>12, <1>13, ByReader

(* from now on an invalidation finds the block *)
LEMMA PublishFresh ==
    ASSUME BlockInv, BlockInv', FreshInv, NEW r \in Reader, Publish(r)
    PROVE  FreshInv' /\ Inside(r)
<1>0. /\ DOMAIN pc = Client /\ r \in Client BY Domains, Clients
<1>1. QuietFor(r) /\ \A q \in Query : Kept(q) BY QuietSteps, KeptWrites
<1>2. UNCHANGED <<play, query, todo, res, dirty, need, ver, inv, active, view, acked, tl>> BY DEF Publish, thd, engine
<1>3. pc[r] = "publish" /\ pc'[r] = "read" BY <1>0 DEF Publish, Goto
<1>4. Writes(r, query[r]) BY <1>3 DEF Writes
<1>5. \A t \in Table : ~Asked(r, t)' BY <1>3 DEF Asked
<1>6. Follows(r)
  <2> SUFFICES ASSUME NEW t \in Table, t \in TablesOf(query[r])' PROVE Wants(r, t) /\ Will(r, t)' = Will(r, t)
    BY <1>5 DEF Follows, Wants, Concurrent
  <2>1. Wants(r, t) BY <1>2, <1>4 DEF TablesOf, Wants
  <2>2. Will(r, t)' = Will(r, t) BY <1>2, <1>3 DEF Will
  <2> QED BY <2>1, <2>2
<1>7. ViewOK(r)' BY <1>2, ViewSame DEF FreshInv, ReaderFresh
<1>8. Rest(r)' BY <1>2, <1>3, <1>7, EarlyFresh DEF FreshInv, Early
<1> QED BY <1>1, <1>5, <1>6, <1>8, ByReader

(* what is read is what was going to be read *)
LEMMA ReadFresh ==
    ASSUME BlockInv, BlockInv', FreshInv, NEW r \in Reader, Read(r)
    PROVE  FreshInv' /\ Inside(r)
<1>0. /\ DOMAIN pc = Client /\ DOMAIN res = Reader /\ DOMAIN dirty = Reader /\ DOMAIN view = Reader /\ DOMAIN active = Client
      /\ r \in Client /\ None \notin Query
      /\ \A t \in Table : ver[t] \in Nat
  BY Domains, Clients, FreshTypes
<1>1. QuietFor(r) BY QuietEngine
<1>2. UNCHANGED <<play, qc, net, query, need, ver, inv, acked>> BY DEF Read, cache
<1>3. \A q \in Query : Kept(q) BY <1>2, KeptAll
<1>4. pc[r] = "read" /\ pc'[r] = "packet" BY <1>0 DEF Read, Goto
<1>5. query[r] \in Query /\ TablesOf(query[r]) \subseteq Table BY <1>4, BlockFacts, FreshTypes DEF ReaderInv
<1>6. PICK db, now : /\ db = {t \in TablesOf(query[r]) : t \notin Myisam}
                     /\ now = IF play.isolation[r] = "RR" THEN ViewOf(r) ELSE ver
  OBVIOUS
<1>7. /\ res'[r] = [t \in Table |-> IF t \in db THEN now[t] ELSE res[r][t]]
      /\ active'[r] = (active[r] \/ db # {})
      /\ view'[r] = IF db # {} /\ play.isolation[r] = "RR" THEN now ELSE view[r]
  BY <1>0, <1>6 DEF Read
<1>8. ViewOK(r) /\ KnownOK(r) BY DEF FreshInv, ReaderFresh
<1>9. ViewOK(r)'
  <2>1. view'[r] \in {view[r], ViewOf(r)} BY <1>6, <1>7
  <2>2. active'[r] \/ (view'[r] = view[r] /\ active'[r] = active[r])
    <3>1. active[r] \in BOOLEAN BY <1>0 DEF BlockInv, Typed, TypedEngine
    <3>2. CASE db = {}
      <4>1. view'[r] = view[r] BY <3>2, <1>7
      <4>2. active'[r] = (active[r] \/ FALSE) BY <3>2, <1>7
      <4> QED BY <3>1, <4>1, <4>2
    <3>3. CASE db # {} BY <3>3, <1>7
    <3> QED BY <3>2, <3>3
  <2> QED BY <2>1, <2>2, <1>2, <1>8, ViewTaken
<1>10. \A t \in Table : ~Asked(r, t)' BY <1>4 DEF Asked
<1>11. \A t \in db : now[t] = Will(r, t) BY <1>4, <1>6 DEF Will, ViewOf
<1>12. KnownOK(r)'
  <2> SUFFICES ASSUME NEW t \in Table PROVE res'[r][t] <= ver[t] /\ need[r][t] <= acked[t] BY <1>2 DEF KnownOK
  <2>1. need[r][t] <= acked[t] /\ res[r][t] <= ver[t] BY <1>8 DEF KnownOK
  <2>2. CASE t \in db
    <3>1. res'[r][t] = now[t] /\ t \notin Myisam BY <2>2, <1>6, <1>7
    <3>2. now[t] <= ver[t]
      <4>1. CASE now = ver BY <4>1, <1>0
      <4>2. CASE now # ver
        <5>1. now = view[r] /\ view[r] # None BY <4>2, <1>6 DEF ViewOf
        <5> QED BY <5>1, <3>1, <1>8 DEF ViewOK
      <4> QED BY <4>1, <4>2
    <3> QED BY <2>1, <3>1, <3>2
  <2>3. CASE t \notin db BY <2>1, <2>3, <1>7
  <2> QED BY <2>2, <2>3
<1>13. Follows(r)
  <2> SUFFICES ASSUME NEW t \in Table, (Writes(r, query[r]) /\ t \in TablesOf(query[r]))'
               PROVE  Wants(r, t) /\ Will(r, t)' = Will(r, t)
    BY <1>10 DEF Follows, Wants, Concurrent
  <2>1. Writes(r, query[r]) /\ t \in TablesOf(query[r]) BY <1>2, <1>4 DEF Writes, Busy, TablesOf
  <2>2. Will(r, t)' = Will(r, t)
    <3>1. Will(r, t)' = res'[r][t] BY <1>4 DEF Will
    <3>2. CASE t \in Myisam BY <3>1, <3>2, <1>6, <1>7 DEF Will
    <3>3. CASE t \notin Myisam
      <4>1. t \in db BY <3>3, <2>1, <1>6
      <4> QED BY <3>1, <4>1, <1>7, <1>11
    <3> QED BY <3>2, <3>3
  <2> QED BY <2>1, <2>2 DEF Wants
<1>14. TablesHeld(r)' /\ FreshReader(r)' BY <1>4 DEF TablesHeld, FreshReader, Reads, Concurrent
<1>15. Rest(r)' BY <1>9, <1>12, <1>14 DEF Rest
<1> QED BY <1>1, <1>3, <1>10, <1>13, <1>15, ByReader

(* whoever changes one of the tables has not freed its queries yet *)
LEMMA RegisterFresh ==
    ASSUME Whole, BlockInv, BlockInv', FreshInv, NEW r \in Reader, Register(r)
    PROVE  FreshInv' /\ Inside(r)
<1>0. /\ DOMAIN pc = Client /\ r \in Client /\ None \notin Query /\ None \notin Writer /\ Myisam \subseteq Table
      /\ \A t \in Table : ver[t] \in Nat
      /\ ReaderFresh(r) /\ SharedOK /\ \A w \in Writer : WriterInv(w)
  BY Domains, Clients, FreshTypes, QueryCacheAssumption DEF QueryCacheAssumption, FreshInv
<1>1. QuietFor(r) /\ Registers(r) BY QuietSteps, RegisterBlocks
<1>2. UNCHANGED <<play, net, query, todo, res, dirty, need, ver, inv, active, view, acked, tl>>
  BY DEF Register, thd, engine
<1>3. /\ pc[r] = "ask_store" /\ todo[r] = << >> /\ pc'[r] \in {"read", "publish"}
  BY <1>0 DEF Register, Goto
<1>4. PICK q : q = query[r] OBVIOUS
<1>5. net[r] = None /\ q \in Query /\ TablesOf(q) \subseteq Table
  BY <1>3, <1>4, BlockFacts, FreshTypes DEF ReaderInv, Busy
<1>6. ASSUME NEW t \in TablesOf(q), t \notin Myisam PROVE Asked(r, t)
  <2>1. ToSet(todo[r]) = {} BY <1>3 DEF ToSet
  <2> QED BY <2>1, <1>3, <1>4, <1>6 DEF Asked
<1>7. ASSUME NEW t \in TablesOf(q), t \in Myisam
      PROVE  Concurrent(t) \/ (r \in tl[t].readers /\ Will(r, t) = ver[t])
  BY <1>0, <1>3, <1>4, <1>7 DEF ReaderFresh, TablesHeld, Will, Concurrent
<1>8. ASSUME NEW t \in TablesOf(q), NEW w \in Writer PROVE ~Purges(w, t)
  <2>1. t \in Table BY <1>5
  <2>2. CASE t \notin Myisam
    <3>1. Concerned(t) BY <2>2, <1>6 DEF Concerned
    <3> QED BY <2>1, <3>1 DEF FreshInv, Cleaned
  <2>3. CASE t \in Myisam
    <3>1. Concurrent(t) \/ tl[t].writer = None BY <2>1, <2>3, <1>0, <1>7 DEF SharedOK, Concurrent
    <3>2. w \notin locks[t] BY <2>1, <2>3, <1>0 DEF WriterInv
    <3> QED BY <3>1, <3>2, <1>0 DEF Purges, Concurrent
  <2> QED BY <2>2, <2>3
<1>9. ASSUME NEW p \in Query PROVE Kept(p) \/ Makes(r, p)
  <2>1. CASE qc.entry[q] # None
    <3>1. qc' = qc BY <2>1, <1>4 DEF Register
    <3> QED BY <3>1, KeptAll
  <2>2. CASE p # q
    <3>1. qc'.entry[p] \in {qc.entry[p], None} BY <2>2, <1>1, <1>4 DEF Registers, Around
    <3> QED BY <3>1 DEF Kept
  <2>3. CASE p = q /\ qc.entry[q] = None /\ qc'.entry[q] = None BY <2>3 DEF Kept
  <2>4. CASE p = q /\ qc.entry[q] = None /\ qc'.entry[q] = NewBlock(r)
    <3>1. qc'.entry[q].st = "new" /\ qc'.entry[q].data = NoVersions BY <2>4 DEF NewBlock
    <3>2. \A t \in Table : NoVersions[t] <= ver'[t] BY <1>0, <1>2 DEF NoVersions
    <3>3. EntryFresh(q)' BY <3>1, <3>2 DEF EntryFresh
    <3>4. \A s \in Reader : ~Reads(s, q) BY <2>4, <1>5, BlockFacts DEF Held, ReaderBlock
    <3> QED BY <2>4, <3>1, <3>3, <3>4, <1>8 DEF Makes
  <2> QED BY <2>1, <2>2, <2>3, <2>4, <1>1, <1>4 DEF Registers
<1>10. \A t \in Table : ~Asked(r, t)' BY <1>3 DEF Asked
<1>11. Follows(r)
  <2> SUFFICES ASSUME NEW t \in Table, t \in TablesOf(query[r])'
               PROVE  Concurrent(t) \/ Will(r, t)' = ver[t] \/ (Wants(r, t) /\ Will(r, t)' = Will(r, t))
    BY <1>10 DEF Follows, Wants, Concurrent
  <2>1. t \in TablesOf(q) BY <1>2, <1>4 DEF TablesOf
  <2>2. Will(r, t)' = Will(r, t) BY <1>2, <1>3 DEF Will
  <2>3. CASE t \notin Myisam BY <2>1, <2>2, <2>3, <1>6 DEF Wants
  <2>4. CASE t \in Myisam BY <2>1, <2>2, <2>4, <1>7
  <2> QED BY <2>3, <2>4
<1>12. ViewOK(r)' BY <1>0, <1>2, ViewSame DEF ReaderFresh
<1>13. Rest(r)' BY <1>0, <1>2, <1>3, <1>12, EarlyFresh DEF Early
<1> QED BY <1>1, <1>9, <1>10, <1>11, <1>13, ByReader

(* the packets are what was read *)
LEMMA PacketFresh ==
    ASSUME BlockInv, BlockInv', FreshInv, NEW r \in Reader,
           \/ InsertNot(r) \/ query_cache_insert(r) \/ InsertFails(r) \/ Copied(r)
           \/ (net[r] # None /\ query_cache_end_of_result(r))
    PROVE  FreshInv' /\ Inside(r)
<1>0. /\ DOMAIN pc = Client /\ r \in Client /\ ReaderFresh(r) /\ \A q \in Query : TablesOf(q) \subseteq Table
  BY Domains, Clients, FreshTypes DEF FreshInv
<1>1. QuietFor(r) BY QuietSteps
<1>2. UNCHANGED <<query, res, dirty, need, ver, inv, active, view, acked>>
  BY DEF InsertNot, query_cache_insert, InsertFails, Copied, query_cache_end_of_result, thd, engine
<1>3. Late(pc[r]) /\ Late(pc'[r])
  BY <1>0 DEF InsertNot, query_cache_insert, InsertFails, Copied, query_cache_end_of_result, Goto, Late
<1>4. query[r] \in Query /\ query[r] # None BY <1>3, Clients, BlockFacts DEF ReaderInv, Late
<1>5. net'[r] \in {net[r], None}
  BY <1>0 DEF InsertNot, query_cache_insert, InsertFails, ForgetWriter, Copied, query_cache_end_of_result, cache
<1>6. ViewOK(r)' BY <1>0, <1>2, ViewSame DEF ReaderFresh
<1>7. Rest(r)' /\ Follows(r) /\ \A t \in Table : ~Asked(r, t)' BY <1>0, <1>1, <1>2, <1>3, <1>4, <1>5, <1>6, LateFresh
<1>8. ASSUME NEW p \in Query PROVE Kept(p) \/ Makes(r, p)
  <2>1. CASE ~query_cache_insert(r) BY <2>1, KeptWrites
  <2>2. CASE query_cache_insert(r)
    <3>1. PICK q : q = query[r] OBVIOUS
    <3>2. pc[r] = "packet" /\ net[r] # None BY <2>2 DEF query_cache_insert
    <3>3. /\ q \in Query /\ q \in Present(qc) /\ net[r] = q /\ WriterBlock(r, qc.entry[q]) /\ ~Reads(r, q)
          /\ \A s \in Reader \ {r} : ~Reads(s, q)
      BY <3>1, <3>2, WriterAt DEF Busy
    <3>4. PICK c \in allocate_block(qc) :
            qc' = [c EXCEPT !.entry[q] =
                     [c.entry[q] EXCEPT !.st = "begin", !.lock = r, !.pkts = c.entry[q].pkts + 1, !.data = res[r], !.dirty = dirty[r]]]
      <4>1. net[r] = q BY <3>3
      <4> QED BY <2>2, <4>1 DEF query_cache_insert
    <3>5. CacheOK(c, {}, {}) /\ Evicted(qc, c, {}) BY AllocateOK DEF BlockInv, Typed, TypedCache
    <3>6. c.entry[q] = qc.entry[q] BY <3>3, <3>5 DEF Evicted, Idle, WriterBlock
    <3>7. /\ c = [entry |-> c.entry, lru |-> c.lru, tbl |-> c.tbl] /\ c.entry \in [Query -> Block \cup {None}]
          /\ c.entry[q] \in Block
      <4>1. c \in Caches /\ qc.entry[q] \in Block BY <3>3, <3>5, BlockFacts DEF CacheOK
      <4> QED BY <4>1, <3>6, CacheFacts
    <3>8. PICK b : b = [c.entry[q] EXCEPT !.st = "begin", !.lock = r, !.pkts = c.entry[q].pkts + 1, !.data = res[r], !.dirty = dirty[r]] OBVIOUS
    <3>9. b.st = "begin" /\ b.data = res[r] BY <3>7, <3>8 DEF Block
    <3>10. qc'.entry = [c.entry EXCEPT ![q] = b]
      <4>1. qc' = [c EXCEPT !.entry[q] = b] BY <3>4, <3>8
      <4> QED BY <4>1, <3>7
    <3>11. CASE p = q
      <4>1. qc'.entry[q] = b BY <3>3, <3>7, <3>10
      <4>2. \A t \in Table : res[r][t] <= ver'[t] BY <1>0, <1>2 DEF ReaderFresh, KnownOK
      <4>3. EntryFresh(q)' BY <4>1, <4>2, <3>9 DEF EntryFresh
      <4> QED BY <4>1, <4>3, <3>3, <3>9, <3>11 DEF Makes
    <3>12. CASE p # q
      <4>1. qc'.entry[p] = c.entry[p] BY <3>7, <3>10, <3>12
      <4>2. qc'.entry[p] \in {qc.entry[p], None} BY <4>1, <3>5 DEF Evicted
      <4> QED BY <4>2 DEF Kept
    <3> QED BY <3>11, <3>12
  <2> QED BY <2>1, <2>2
<1> QED BY <1>1, <1>7, <1>8, ByReader

(* and the result has all of them *)
LEMMA CompleteFresh ==
    ASSUME BlockInv, BlockInv', FreshInv, NEW r \in Reader, Complete(r)
    PROVE  FreshInv' /\ Inside(r)
<1>0. /\ DOMAIN pc = Client /\ r \in Client /\ ReaderFresh(r) /\ NPackets \in Nat /\ NPackets > 0
      /\ \A q \in Query : TablesOf(q) \subseteq Table
  BY Domains, Clients, FreshTypes DEF FreshInv
<1>1. QuietFor(r) BY QuietSteps
<1>2. UNCHANGED <<play, query, res, dirty, need, ver, inv, active, view, acked>> BY DEF Complete, thd, engine
<1>3. pc[r] = "complete" /\ pc'[r] = "clear" BY <1>0 DEF Complete, Goto
<1>4. ViewOK(r)' /\ KnownOK(r)' BY <1>0, <1>2, ViewSame, KnownSame DEF ReaderFresh
<1>5. Rest(r)' /\ Follows(r) /\ \A t \in Table : ~Asked(r, t)' BY <1>3, <1>4, OutFresh
<1>6. PICK q, e : q = query[r] /\ e = qc.entry[q] OBVIOUS
<1>7. net[r] # None /\ n[r] = NPackets BY <1>3, BlockFacts DEF ReaderInv
<1>8. /\ q \in Query /\ q \in Present(qc) /\ e \in Block /\ WriterBlock(r, e) /\ net[r] = q /\ Writes(r, q)
      /\ \A s \in Reader \ {r} : ~Reads(s, q)
  BY <1>3, <1>6, <1>7, WriterAt DEF Busy
<1>9. e.data = res[r] /\ e.dirty = dirty[r] BY <1>0, <1>3, <1>7, <1>8 DEF WriterBlock
<1>10. qc = [entry |-> qc.entry, lru |-> qc.lru, tbl |-> qc.tbl] /\ qc.entry \in [Query -> Block \cup {None}]
  BY BlockFacts, CacheFacts
<1>11. PICK b : b = [e EXCEPT !.st = "result", !.writer = None, !.lock = None] OBVIOUS
<1>12. b.data = res[r] /\ b.dirty = dirty[r] BY <1>8, <1>9, <1>11 DEF Block
<1>13. qc'.entry = [qc.entry EXCEPT ![q] = b]
  <2>1. qc' = [qc EXCEPT !.entry[q] = [@ EXCEPT !.st = "result", !.writer = None, !.lock = None]]
    BY <1>8 DEF Complete
  <2> QED BY <2>1, <1>6, <1>8, <1>10, <1>11
<1>14. ASSUME NEW t \in TablesOf(q) PROVE Enough(res[r][t], t)'
  <2>1. t \in Table BY <1>0, <1>8
  <2>2. Will(r, t) = res[r][t] BY <1>3 DEF Will
  <2>3. PICK v : v = res[r][t] OBVIOUS
  <2>4. Enough(v, t) BY <2>1, <2>2, <2>3, <1>0, <1>6, <1>8 DEF ReaderFresh, FreshWriter, Wants
  <2>5. Enough(v, t)' BY <2>4, <1>1, EnoughQuiet
  <2> QED BY <2>3, <2>5, <1>2
<1>15. ASSUME NEW p \in Query PROVE Kept(p) \/ Makes(r, p)
  <2>1. CASE p = q
    <3>1. qc'.entry[q] = b BY <1>8, <1>10, <1>13
    <3>2. \A t \in Table : res[r][t] <= ver'[t] BY <1>0, <1>2 DEF ReaderFresh, KnownOK
    <3>3. PICK d : d = res[r] OBVIOUS
    <3>4. qc'.entry[q].data = d BY <3>1, <3>3, <1>12
    <3>5. \A t \in TablesOf(q)' : Enough(d[t], t)' BY <3>3, <1>2, <1>14 DEF TablesOf, Enough, Inval, Concurrent
    <3>6. EntryFresh(q)' BY <3>2, <3>3, <3>4, <3>5 DEF EntryFresh, Enough, Inval, Concurrent
    <3> QED BY <2>1, <3>1, <3>6, <1>3, <1>6, <1>8, <1>12 DEF Makes
  <2>2. CASE p # q
    <3>1. qc'.entry[p] = qc.entry[p] BY <2>2, <1>10, <1>13
    <3> QED BY <3>1 DEF Kept
  <2> QED BY <2>1, <2>2
<1> QED BY <1>1, <1>5, <1>15, ByReader

-----------------------------------------------------------------------------
(* The steps of the others *)

(* SELECTs go on, and blocks are kept or freed *)
Outside == play' = play /\ (\A r \in Reader : SameSelect(r)) /\ \A q \in Query : Kept(q)

(* then it is enough to look at the writers *)
LEMMA ByOther ==
    ASSUME BlockInv, BlockInv', FreshInv, Forward, SharedOK', \A w \in Writer : WriterDoes(w),
           \A r \in Reader : SameSelect(r), \A q \in Query : Kept(q)
    PROVE  FreshInv' /\ Outside
<1>1. ASSUME NEW t \in Table, Concerned(t)' PROVE Concerned(t)
  <2>1. \A q : TablesOf(q)' = TablesOf(q) BY DEF Forward, TablesOf, Concurrent
  <2>2. Present(qc)' \subseteq Present(qc) BY DEF Present, Kept
  <2>3. \A r \in Reader : Asked(r, t)' => Asked(r, t) BY <2>1 DEF SameSelect, Asked, Concurrent
  <2> QED BY <1>1, <2>1, <2>2, <2>3 DEF Concerned
<1>2. Harmless BY <1>1 DEF Harmless
<1>3. Outside BY DEF Outside, Forward, Concurrent
<1> QED BY <1>2, <1>3, HarmlessOK

(* the engines and the SELECTs are left alone *)
Apart(c) ==
    /\ play' = play /\ engine' = engine /\ thd' = thd
    /\ \A d \in Client \ {c} : pc'[d] = pc[d]
    /\ \A r \in Reader : net'[r] \in {net[r], None}
    /\ \A w \in Writer \ {c} : target'[w] = target[w] /\ changed'[w] = changed[w] /\ mine'[w] = mine[w]

(* so they stay fresh *)
LEMMA ApartFresh ==
    ASSUME BlockInv, BlockInv', FreshInv, NEW c \in Client, c \notin Reader, Apart(c),
           \A q \in Query : Kept(q), c \in Writer => WriterDoes(c)
    PROVE  FreshInv' /\ Outside
<1>1. UNCHANGED <<query, todo, safe, n, res, dirty, need, ver, acked, locks, inv, active, view, tl>>
  BY DEF Apart, engine, thd
<1>2. \A t \in Table : ver[t] \in Nat /\ acked[t] \in Nat BY FreshTypes
<1>3. Forward BY <1>1, <1>2 DEF Forward, Enough, Apart, Concurrent
<1>4. SharedOK' BY <1>1 DEF FreshInv, SharedOK, Apart, Concurrent
<1>5. ASSUME NEW r \in Reader PROVE SameSelect(r)
  <2>1. pc'[r] = pc[r] BY Clients DEF Apart
  <2> QED BY <2>1, <1>1 DEF SameSelect, Apart, Concurrent
<1>6. ASSUME NEW w \in Writer PROVE WriterDoes(w)
  <2>1. CASE w = c BY <2>1
  <2>2. CASE w # c
    <3>1. pc'[w] = pc[w] BY <2>2, Clients DEF Apart
    <3>2. SameWriter(w) BY <2>2, <3>1, <1>1 DEF SameWriter, Apart
    <3> QED BY <3>2, <1>3, WriterStays DEF FreshInv
  <2> QED BY <2>1, <2>2
<1> QED BY <1>3, <1>4, <1>5, <1>6, ByOther

(* RESET QUERY CACHE and SET GLOBAL query_cache_size *)
LEMMA AdminFresh ==
    ASSUME BlockInv, BlockInv', FreshInv, AdminStep \/ Flush
    PROVE  FreshInv' /\ Outside
<1>0. DOMAIN pc = Client /\ Admin \in Client /\ Admin \notin Reader /\ Admin \notin Writer BY Domains, Clients
<1>1. UNCHANGED <<play, thd, engine, writer>>
  BY DEF AdminStep, Flush, flush_cache, FlushDone, free_cache, init_cache
<1>2. \A d \in Client \ {Admin} : pc'[d] = pc[d]
  BY <1>0 DEF AdminStep, Flush, flush_cache, FlushDone, free_cache, init_cache, Goto
<1>3. \A r \in Reader : net'[r] \in {net[r], None}
  BY Clients DEF AdminStep, Flush, flush_cache, ForgetWriter, FlushDone, free_cache, init_cache
<1>4. Apart(Admin) BY <1>1, <1>2, <1>3 DEF Apart, writer
<1>5. \A q \in Query : Kept(q)
  <2>1. CASE flush_cache
    <3>1. qc.lru \in Seq(Query) /\ qc.lru # << >> /\ qc' = free_query(qc, Head(qc.lru))
      BY <2>1, BlockFacts, CacheFacts DEF flush_cache
    <3>2. Head(qc.lru) \in Query BY <3>1
    <3> QED BY <3>1, <3>2, KeptFree
  <2>2. CASE ~flush_cache
    <3>1. qc' = qc BY <2>2 DEF AdminStep, Flush, FlushDone, free_cache, init_cache
    <3> QED BY <3>1, KeptAll
  <2> QED BY <2>1, <2>2
<1> QED BY <1>0, <1>4, <1>5, ApartFresh

(* without a cache there is nothing to free *)
LEMMA NoCache == ASSUME BlockInv, ~size PROVE \A t \in Table : ~Concerned(t)
<1>1. Present(qc) = {} /\ guard \notin Reader BY DEF BlockInv, Guarded
<1>2. \A r \in Reader : pc[r] # "ask_store" BY <1>1, BlockFacts DEF ReaderInv
<1> QED BY <1>1, <1>2 DEF Concerned, Asked

(* an invalidation that is done has freed everything *)
LEMMA Invalidated ==
    ASSUME BlockInv, NEW w \in Writer, pc[w] = "free", Registered(target[w]) = {}, NEW t \in target[w], t \in Table
    PROVE  ~Concerned(t)
<1>1. guard = w /\ w \notin Reader BY Clients DEF BlockInv, Guarded
<1>2. \A r \in Reader : pc[r] # "ask_store" BY <1>1, BlockFacts DEF ReaderInv
<1>3. qc.tbl[t] = {} BY DEF Registered
<1>4. \A q \in Present(qc) : t \notin TablesOf(q) BY <1>3, BlockFacts DEF Linked
<1> QED BY <1>2, <1>4 DEF Concerned, Asked

(* Query_cache::invalidate *)
LEMMA InvalidateFresh ==
    ASSUME BlockInv, BlockInv', FreshInv, NEW w \in Writer,
           Defer(w) \/ InvalidateNot(w) \/ InvalidateEnter(w) \/ invalidate_table(w) \/ InvalidateDone(w)
    PROVE  FreshInv' /\ Outside
<1>0. /\ DOMAIN pc = Client /\ DOMAIN changed = Writer /\ w \in Client /\ w \notin Reader
      /\ \A u \in Writer : target[u] \subseteq Table /\ u \in Client
      /\ WriterInv(w)
  BY Domains, Clients DEF BlockInv, Typed, TypedWriters, FreshInv
<1>1. UNCHANGED <<play, thd, engine, target, mine>>
  BY DEF Defer, InvalidateNot, InvalidateEnter, invalidate_table, InvalidateDone, cache, writer
<1>2. UNCHANGED <<ver, acked, locks, inv, active, view, tl>> BY <1>1 DEF engine
<1>3. /\ \A d \in Client \ {w} : pc'[d] = pc[d]
      /\ \A r \in Reader : net'[r] \in {net[r], None}
      /\ \A u \in Writer \ {w} : changed'[u] = changed[u]
  BY <1>0, Clients DEF Defer, InvalidateNot, InvalidateEnter, invalidate_table, ForgetWriter, InvalidateDone, cache, writer, Goto
<1>4. Apart(w) BY <1>1, <1>3 DEF Apart
<1>5. \A q \in Query : Kept(q)
  <2>1. CASE invalidate_table(w)
    <3>1. PICK q \in Registered(target[w]) : qc' = free_query(qc, q) BY <2>1 DEF invalidate_table
    <3>2. q \in Query
      <4>1. qc.tbl \in [Table -> SUBSET Query] BY BlockFacts, CacheFacts
      <4> QED BY <4>1, <3>1, <1>0 DEF Registered
    <3> QED BY <3>1, <3>2, KeptFree
  <2>2. CASE ~invalidate_table(w)
    <3>1. qc' = qc BY <2>2 DEF Defer, InvalidateNot, InvalidateEnter, InvalidateDone, cache
    <3> QED BY <3>1, KeptAll
  <2> QED BY <2>1, <2>2
<1>6. WriterDoes(w)
  <2>1. CASE InvalidateEnter(w) \/ invalidate_table(w)
    <3>1. changed' = changed /\ pc[w] \in {"check", "free"} /\ pc'[w] \in {"check", "free"}
      BY <2>1, <1>0 DEF InvalidateEnter, invalidate_table, Goto, writer
    <3>2. WriterInv(w)' BY <3>1, <1>0, <1>1, <1>2 DEF WriterInv
    <3>3. \A t \in Table : (Purges(w, t)' => Purges(w, t)) /\ (Inval(w, t) => Inval(w, t)')
      BY <3>1, <1>1, <1>2 DEF Purges, Pending, Inval, Concurrent
    <3> QED BY <3>2, <3>3, <1>1 DEF WriterDoes, Enough, Concurrent
  <2>2. CASE InvalidateNot(w) \/ InvalidateDone(w)
    <3>1. changed' = changed /\ pc'[w] = AfterInvalidate(w) /\ pc[w] \in {"check", "free"}
      BY <2>2, <1>0 DEF InvalidateNot, InvalidateDone, Goto, writer
    <3>2. ASSUME NEW t \in Table, Concerned(t) PROVE t \notin target[w]
      <4>1. CASE ~size BY <4>1, <3>2, NoCache
      <4>2. CASE InvalidateDone(w) BY <4>2, <3>2, Invalidated DEF InvalidateDone
      <4> QED BY <2>2, <4>1, <4>2 DEF InvalidateNot
    <3>3. WriterInv(w)'
      <4>1. \A t \in Table : tl[t].writer = w => t \in Myisam /\ pc'[w] = "unlock"
        BY <3>1, <1>0 DEF WriterInv, AfterInvalidate
      <4>2. pc'[w] # "defer" BY <3>1 DEF AfterInvalidate
      <4> QED BY <4>1, <4>2, <3>1, <1>0, <1>1, <1>2 DEF WriterInv
    <3>4. ASSUME NEW t \in Table, Concerned(t)
          PROVE  (Purges(w, t)' => Purges(w, t)) /\ ~Inval(w, t)
      BY <3>1, <3>2, <3>4, <1>1, <1>2 DEF Purges, Pending, Inval, Concurrent
    <3> QED BY <3>3, <3>4, <1>1 DEF WriterDoes, Enough, Concurrent
  <2>3. CASE Defer(w)
    <3>1. pc[w] = "defer" /\ pc'[w] = "begun" /\ changed'[w] = IF size THEN changed[w] \cup target[w] ELSE changed[w]
      BY <2>3, <1>0 DEF Defer, Goto
    <3>2. WriterInv(w)' BY <3>1, <1>0, <1>1, <1>2 DEF WriterInv
    <3>3. ASSUME NEW t \in Table, Concerned(t), Purges(w, t)' PROVE Purges(w, t)
      <4>1. size BY <3>3, NoCache
      <4> QED BY <4>1, <3>1, <3>3, <1>1, <1>2 DEF Purges, Pending, Concurrent
    <3>4. \A t \in Table : ~Inval(w, t) BY <3>1 DEF Inval
    <3> QED BY <3>2, <3>3, <3>4, <1>1 DEF WriterDoes, Enough, Concurrent
  <2> QED BY <2>1, <2>2, <2>3
<1> QED BY <1>0, <1>4, <1>5, <1>6, ApartFresh

(* a table is changed: its queries will be freed *)
LEMMA ModifyFresh ==
    ASSUME BlockInv, BlockInv', FreshInv, NEW w \in Writer, NEW x \in Table, NEW how, Modify(w, x, how)
    PROVE  FreshInv' /\ Outside
<1>0. /\ DOMAIN pc = Client /\ DOMAIN target = Writer /\ DOMAIN active = Client /\ w \in Client /\ w \notin Reader
      /\ tl \in [Table -> [readers : SUBSET Reader, writer : Writer \cup {None}]] /\ locks \in [Table -> SUBSET Writer]
      /\ \A u \in Writer : u \in Client
      /\ \A t \in Table : ver[t] \in Nat /\ acked[t] \in Nat
      /\ w # None
  BY Domains, Clients, FreshTypes
<1>1. /\ pc[w] \in {"idle", "begun"} /\ target' = [target EXCEPT ![w] = {x}]
      /\ UNCHANGED <<play, qc, net, query, todo, res, dirty, need, ver, acked, inv, view, changed, mine>>
  BY DEF Modify, cache, thd
<1>2. /\ pc'[w] \in {"check", "defer"} /\ (pc'[w] = "defer" => x \notin Myisam)
      /\ \A d \in Client \ {w} : pc'[d] = pc[d]
      /\ target'[w] = {x} /\ \A u \in Writer \ {w} : target'[u] = target[u]
  <2>1. how = "cascade" => x \notin Myisam BY DEF Modify
  <2>2. pc' = [pc EXCEPT ![w] = IF Deferred(w, how) THEN "defer" ELSE "check"] BY DEF Modify, Goto
  <2> QED BY <2>1, <2>2, <1>0, <1>1 DEF Deferred
<1>3. CASE x \in Myisam
  <2>1. /\ Concurrent(x) \/ tl[x].readers = {}
        /\ tl' = [tl EXCEPT ![x].writer = w] /\ UNCHANGED <<locks, active>>
    BY <1>0, <1>3 DEF Modify, Concurrent
  <2>2. /\ tl'[x].writer = w /\ tl'[x].readers = tl[x].readers
        /\ \A t \in Table \ {x} : tl'[t] = tl[t]
    BY <2>1, <1>0
  <2>3. \A t \in Table : tl'[t].readers = tl[t].readers BY <2>1, <2>2
  <2>4. /\ \A t \in Table : acked[t] <= ver[t] /\ (tl[t].writer # None => Concurrent(t) \/ tl[t].readers = {})
        /\ WriterInv(w) /\ \A u \in Writer : WriterInv(u)
    BY DEF FreshInv, SharedOK, Concurrent
  <2>5. SharedOK'
    <3>1. \A t \in Table : tl'[t].writer # None => Concurrent(t) \/ tl'[t].readers = {} BY <2>1, <2>2, <2>4
    <3> QED BY <3>1, <2>4, <1>1 DEF SharedOK, Concurrent
  <2>6. Forward BY <1>0, <1>1 DEF Forward, Enough, Concurrent
  <2>7. ASSUME NEW r \in Reader PROVE SameSelect(r)
    <3>1. pc'[r] = pc[r] BY <1>2, Clients
    <3>2. Myisam \subseteq Table BY QueryCacheAssumption DEF QueryCacheAssumption
    <3> QED BY <3>1, <3>2, <2>1, <2>3, <1>1 DEF SameSelect, Concurrent
  <2>8. ASSUME NEW u \in Writer, u # w PROVE WriterDoes(u)
    <3>1. \A t \in Table : tl'[t].writer = u => tl[t].writer = u BY <2>2, <2>8
    <3>2. SameWriter(u) BY <2>1, <2>8, <3>1, <1>0, <1>1, <1>2 DEF SameWriter
    <3> QED BY <3>2, <2>4, <2>6, WriterStays
  <2>9. WriterDoes(w)
    <3>1. \A t \in Table : tl'[t].writer = w => t = x BY <2>2, <2>4, <1>1 DEF WriterInv
    <3>2. pc'[w] = "check" BY <1>2, <1>3
    <3>3. WriterInv(w)' BY <2>1, <2>4, <3>1, <3>2, <1>1, <1>2, <1>3 DEF WriterInv
    <3>4. \A t \in Table : Purges(w, t)' => Purges(w, t)
      BY <2>1, <2>2, <3>2, <1>1, <1>2 DEF Purges, Pending, Concurrent
    <3>5. \A t \in Table : ~Inval(w, t) BY <1>1 DEF Inval
    <3> QED BY <3>3, <3>4, <3>5, <1>1 DEF WriterDoes, Enough, Concurrent
  <2> QED BY <2>5, <2>6, <2>7, <2>8, <2>9, <1>1, KeptAll, ByOther
<1>4. CASE x \notin Myisam
  <2>1. /\ locks' = [locks EXCEPT ![x] = @ \cup {w}] /\ active' = [active EXCEPT ![w] = TRUE] /\ tl' = tl
    BY <1>4 DEF Modify
  <2>2. /\ locks'[x] = locks[x] \cup {w} /\ \A t \in Table \ {x} : locks'[t] = locks[t]
        /\ active'[w] = TRUE /\ \A c \in Client \ {w} : active'[c] = active[c]
    BY <2>1, <1>0
  <2>3. WriterInv(w) /\ SharedOK /\ \A u \in Writer : WriterInv(u) BY DEF FreshInv
  <2>4. SharedOK' BY <2>1, <2>3, <1>1 DEF SharedOK, Concurrent
  <2>5. Forward BY <1>0, <1>1 DEF Forward, Enough, Concurrent
  <2>6. ASSUME NEW r \in Reader PROVE SameSelect(r)
    <3>1. pc'[r] = pc[r] /\ active'[r] = active[r] BY <1>2, <2>2, Clients
    <3> QED BY <3>1, <2>1, <1>1 DEF SameSelect, Concurrent
  <2>7. ASSUME NEW u \in Writer, u # w PROVE WriterDoes(u)
    <3>1. \A t \in Table : u \in locks'[t] => u \in locks[t] BY <2>2, <2>7
    <3>2. SameWriter(u) BY <2>1, <2>2, <2>7, <3>1, <1>0, <1>1, <1>2 DEF SameWriter
    <3> QED BY <3>2, <2>3, <2>5, WriterStays
  <2>8. WriterDoes(w)
    <3>1. WriterInv(w)'
      <4>1. \A t \in Table : w \in locks'[t] => active'[w] /\ t \notin Myisam BY <2>2, <2>3, <1>4 DEF WriterInv
      <4>2. \A t \in Table : tl[t].writer # w BY <2>3, <1>1 DEF WriterInv
      <4> QED BY <4>1, <4>2, <2>1, <2>3, <1>1, <1>2, <1>4 DEF WriterInv
    <3>2. \A t \in Table : Purges(w, t)' => Purges(w, t)
      BY <2>1, <2>2, <1>1, <1>2 DEF Purges, Pending, Concurrent
    <3>3. \A t \in Table : ~Inval(w, t) BY <1>1 DEF Inval
    <3> QED BY <3>1, <3>2, <3>3, <1>1 DEF WriterDoes, Enough, Concurrent
  <2> QED BY <2>4, <2>5, <2>6, <2>7, <2>8, <1>1, KeptAll, ByOther
<1> QED BY <1>3, <1>4

(* what is true of the others when InnoDB's locks are released *)
LEMMA ReleaseFacts ==
    ASSUME BlockInv, FreshInv, NEW w \in Writer, NEW undo \in BOOLEAN, ReleaseLocks(w, undo), pc[w] \in {"commit", "begun"}
    PROVE  /\ \A t \in Table : w \notin locks'[t] /\ (\A u \in Writer \ {w} : u \in locks'[t] <=> u \in locks[t])
           /\ \A c \in Client \ {w} : active'[c] = active[c]
           /\ \A t \in Table : tl[t].writer # w
           /\ \A r \in Reader, t \in Table :
                IF undo /\ w \in locks[t] THEN active[r] => r \in inv'[t] ELSE r \in inv[t] => r \in inv'[t]
           /\ \A t \in Myisam : w \notin locks[t]
<1>0. /\ locks \in [Table -> SUBSET Writer] /\ inv \in [Table -> SUBSET Client] /\ DOMAIN active = Client
      /\ WriterInv(w) /\ Myisam \subseteq Table
      /\ \A r \in Reader : r \in Client /\ r # w
  BY Domains, Clients, QueryCacheAssumption DEF FreshInv, QueryCacheAssumption
<1>1. \A t \in Table : w \notin locks'[t] /\ (\A u \in Writer \ {w} : u \in locks'[t] <=> u \in locks[t])
  BY <1>0 DEF ReleaseLocks
<1>2. \A c \in Client \ {w} : active'[c] = active[c] BY <1>0 DEF ReleaseLocks
<1>3. \A t \in Table : tl[t].writer # w BY <1>0 DEF WriterInv
<1>4. \A r \in Reader, t \in Table :
         IF undo /\ w \in locks[t] THEN active[r] => r \in inv'[t] ELSE r \in inv[t] => r \in inv'[t]
  BY <1>0 DEF ReleaseLocks
<1>5. \A t \in Myisam : w \notin locks[t] BY <1>0 DEF WriterInv
<1> QED BY <1>1, <1>2, <1>3, <1>4, <1>5

(* A commit makes a change known while results of the table may be there,  *)
(* but only if the table is still to be invalidated.                       *)
LEMMA CommitFresh ==
    ASSUME BlockInv, BlockInv', FreshInv, NEW w \in Writer, Commit(w)
    PROVE  FreshInv' /\ Outside
<1>0. /\ DOMAIN pc = Client /\ DOMAIN target = Writer /\ DOMAIN changed = Writer /\ DOMAIN mine = Writer
      /\ w \in Client /\ w \notin Reader /\ \A u \in Writer : u \in Client
      /\ \A t \in Table : ver[t] \in Nat /\ acked[t] \in Nat /\ mine[w][t] \in Nat
      /\ Myisam \subseteq Table
      /\ WriterInv(w) /\ SharedOK /\ \A u \in Writer : WriterInv(u)
  BY Domains, Clients, FreshTypes, QueryCacheAssumption DEF QueryCacheAssumption, FreshInv
<1>1. /\ pc[w] \in {"commit", "begun"} /\ ReleaseLocks(w, TRUE)
      /\ UNCHANGED <<play, qc, net, query, todo, res, dirty, need, acked, view, tl>>
  BY DEF Commit, cache, thd
<1>2. /\ \A t \in Table : w \notin locks'[t] /\ (\A u \in Writer \ {w} : u \in locks'[t] <=> u \in locks[t])
      /\ \A c \in Client \ {w} : active'[c] = active[c]
      /\ \A t \in Table : tl[t].writer # w
      /\ \A r \in Reader, t \in Table :
           IF w \in locks[t] THEN active[r] => r \in inv'[t] ELSE r \in inv[t] => r \in inv'[t]
      /\ \A t \in Myisam : w \notin locks[t]
  BY <1>1, ReleaseFacts
<1>3. \A t \in Table : ver'[t] = IF w \in locks[t] THEN ver[t] + 1 ELSE ver[t] BY DEF Commit
<1>4. /\ \A t \in Table : mine'[w][t] = IF w \in locks[t] THEN ver'[t] ELSE mine[w][t]
      /\ \A u \in Writer \ {w} : mine'[u] = mine[u]
  BY <1>0 DEF Commit
<1>5. /\ target'[w] = changed[w] /\ changed'[w] = {} /\ pc'[w] = IF changed[w] # {} THEN "check" ELSE "ack"
      /\ \A u \in Writer \ {w} : target'[u] = target[u] /\ changed'[u] = changed[u]
      /\ \A d \in Client \ {w} : pc'[d] = pc[d]
  BY <1>0 DEF Commit, Goto
<1>6. \A t \in Table : ver[t] <= ver'[t] /\ ver'[t] \in Nat BY <1>0, <1>3
<1>7. Forward BY <1>0, <1>1, <1>6 DEF Forward, Enough, Concurrent
<1>8. SharedOK'
  <2>1. \A t \in Table : acked[t] <= ver'[t] BY <1>0, <1>6 DEF SharedOK, Concurrent
  <2> QED BY <2>1, <1>0, <1>1 DEF SharedOK, Concurrent
<1>9. ASSUME NEW r \in Reader PROVE SameSelect(r)
  <2>1. pc'[r] = pc[r] /\ active'[r] = active[r] BY <1>2, <1>5, <1>0, Clients
  <2>2. \A t \in Myisam : ver'[t] = ver[t] BY <1>0, <1>2, <1>3
  <2>3. \A t \in Table \ Myisam : \/ active[r] => r \in inv'[t]
                                  \/ ver'[t] = ver[t] /\ (r \in inv[t] => r \in inv'[t])
    BY <1>2, <1>3
  <2> QED BY <2>1, <2>2, <2>3, <1>1 DEF SameSelect, Concurrent
<1>10. ASSUME NEW u \in Writer, u # w PROVE WriterDoes(u)
  <2>1. SameWriter(u) BY <1>0, <1>1, <1>2, <1>4, <1>5, <1>10 DEF SameWriter
  <2> QED BY <2>1, <1>0, <1>7, WriterStays
<1>11. WriterDoes(w)
  <2>1. WriterInv(w)'
    <3>1. \A t \in Table : mine'[w][t] <= ver'[t]
      <4> TAKE t \in Table
      <4>1. mine[w][t] <= ver[t] BY <1>0 DEF WriterInv
      <4> QED BY <4>1, <1>0, <1>4, <1>6
    <3>2. pc'[w] # "defer" /\ changed'[w] \cap Myisam = {} BY <1>5
    <3> QED BY <3>1, <3>2, <1>1, <1>2 DEF WriterInv
  <2>2. \A t \in Table : ~Purges(w, t)' BY <1>1, <1>2 DEF Purges, Concurrent
  <2>3. ASSUME NEW t \in Table, NEW v \in Nat, Concerned(t), Enough(v, t)
        PROVE  Concurrent(t) \/ mine'[w][t] <= v \/ Inval(w, t)'
    <3>1. CASE w \in locks[t]
      <4>1. ~Purges(w, t) BY <2>3 DEF FreshInv, Cleaned
      <4>2. Concurrent(t) \/ t \in changed[w] BY <3>1, <4>1, <1>1 DEF Purges, Pending, Concurrent
      <4>3. t \in changed[w] => Inval(w, t)' BY <1>5 DEF Inval
      <4> QED BY <4>2, <4>3
    <3>2. CASE w \notin locks[t]
      <4>1. ~Inval(w, t) BY <1>1 DEF Inval
      <4>2. Concurrent(t) \/ mine[w][t] <= v BY <4>1, <2>3 DEF Enough, Concurrent
      <4> QED BY <3>2, <4>2, <1>4
    <3> QED BY <3>1, <3>2
  <2> QED BY <2>1, <2>2, <2>3 DEF WriterDoes, Concurrent
<1> QED BY <1>1, <1>7, <1>8, <1>9, <1>10, <1>11, KeptAll, ByOther

(* a rollback changes nothing *)
LEMMA RollbackFresh ==
    ASSUME BlockInv, BlockInv', FreshInv, NEW w \in Writer, Rollback(w)
    PROVE  FreshInv' /\ Outside
<1>0. /\ DOMAIN pc = Client /\ DOMAIN changed = Writer
      /\ w \in Client /\ w \notin Reader /\ \A u \in Writer : u \in Client
      /\ \A t \in Table : ver[t] \in Nat /\ acked[t] \in Nat
      /\ WriterInv(w) /\ SharedOK /\ \A u \in Writer : WriterInv(u)
  BY Domains, Clients, FreshTypes DEF FreshInv
<1>1. /\ pc[w] \in {"commit", "begun"} /\ ReleaseLocks(w, FALSE)
      /\ UNCHANGED <<play, qc, net, query, todo, res, dirty, need, ver, acked, view, tl, target, mine>>
  BY DEF Rollback, cache, thd
<1>2. /\ \A t \in Table : w \notin locks'[t] /\ (\A u \in Writer \ {w} : u \in locks'[t] <=> u \in locks[t])
      /\ \A c \in Client \ {w} : active'[c] = active[c]
      /\ \A t \in Table : tl[t].writer # w
      /\ \A r \in Reader, t \in Table : r \in inv[t] => r \in inv'[t]
  BY <1>1, ReleaseFacts
<1>3. /\ changed'[w] = {} /\ pc'[w] = "idle"
      /\ \A u \in Writer \ {w} : changed'[u] = changed[u]
      /\ \A d \in Client \ {w} : pc'[d] = pc[d]
  BY <1>0 DEF Rollback, Goto
<1>4. Forward BY <1>0, <1>1 DEF Forward, Enough, Concurrent
<1>5. SharedOK' BY <1>0, <1>1 DEF SharedOK, Concurrent
<1>6. ASSUME NEW r \in Reader PROVE SameSelect(r)
  <2>1. pc'[r] = pc[r] /\ active'[r] = active[r] BY <1>2, <1>3, <1>0, Clients
  <2>2. \A t \in Table \ Myisam : \/ active[r] => r \in inv'[t]
                                  \/ ver'[t] = ver[t] /\ (r \in inv[t] => r \in inv'[t])
    BY <1>1, <1>2
  <2> QED BY <2>1, <2>2, <1>1 DEF SameSelect, Concurrent
<1>7. ASSUME NEW u \in Writer, u # w PROVE WriterDoes(u)
  <2>1. SameWriter(u) BY <1>0, <1>1, <1>2, <1>3, <1>7 DEF SameWriter
  <2> QED BY <2>1, <1>0, <1>4, WriterStays
<1>8. WriterDoes(w)
  <2>1. WriterInv(w)' BY <1>0, <1>1, <1>2, <1>3 DEF WriterInv
  <2>2. \A t \in Table : ~Purges(w, t)' BY <1>1, <1>2 DEF Purges, Concurrent
  <2>3. \A t \in Table : ~Inval(w, t) BY <1>1 DEF Inval
  <2> QED BY <2>1, <2>2, <2>3, <1>1 DEF WriterDoes, Enough, Concurrent
<1> QED BY <1>1, <1>4, <1>5, <1>6, <1>7, <1>8, KeptAll, ByOther

(* the rows of a MyISAM table are there for everybody: its queries are not *)
LEMMA UnlockFresh ==
    ASSUME BlockInv, BlockInv', FreshInv, NEW w \in Writer, UnlockMyisam(w)
    PROVE  FreshInv' /\ Outside
<1>0. /\ DOMAIN pc = Client /\ DOMAIN mine = Writer
      /\ tl \in [Table -> [readers : SUBSET Reader, writer : Writer \cup {None}]]
      /\ w \in Client /\ w \notin Reader /\ w # None /\ \A u \in Writer : u \in Client /\ u # None
      /\ \A t \in Table : ver[t] \in Nat /\ acked[t] \in Nat /\ mine[w][t] \in Nat
      /\ Myisam \subseteq Table
      /\ WriterInv(w) /\ SharedOK /\ \A u \in Writer : WriterInv(u)
  BY Domains, Clients, FreshTypes, QueryCacheAssumption DEF QueryCacheAssumption, FreshInv
<1>1. /\ pc[w] = "unlock"
      /\ UNCHANGED <<play, qc, net, query, todo, res, dirty, need, acked, locks, inv, active, view, target, changed>>
  BY DEF UnlockMyisam, cache, thd
<1>2. \A t \in Table : ver'[t] = IF tl[t].writer = w THEN ver[t] + 1 ELSE ver[t] BY DEF UnlockMyisam
<1>3. /\ \A t \in Table : mine'[w][t] = IF tl[t].writer = w THEN ver'[t] ELSE mine[w][t]
      /\ \A u \in Writer \ {w} : mine'[u] = mine[u]
  BY <1>0 DEF UnlockMyisam
<1>4. \A t \in Table : IF tl[t].writer = w THEN tl'[t].writer = None /\ tl'[t].readers = tl[t].readers ELSE tl'[t] = tl[t]
  BY <1>0 DEF UnlockMyisam
<1>5. pc'[w] = "ack" /\ \A d \in Client \ {w} : pc'[d] = pc[d] BY <1>0 DEF UnlockMyisam, Goto
<1>6. \A t \in Table : ver[t] <= ver'[t] /\ ver'[t] \in Nat BY <1>0, <1>2
<1>7. Forward BY <1>0, <1>1, <1>6 DEF Forward, Enough, Concurrent
<1>8. SharedOK'
  <2>1. \A t \in Table : acked[t] <= ver'[t] BY <1>0, <1>6 DEF SharedOK, Concurrent
  <2>2. \A t \in Table : tl'[t].writer # None => Concurrent(t) \/ tl'[t].readers = {} BY <1>0, <1>4 DEF SharedOK, Concurrent
  <2> QED BY <2>1, <2>2, <1>1 DEF SharedOK, Concurrent
<1>9. \A t \in Table : tl[t].writer = w => t \in Myisam BY <1>0 DEF WriterInv
<1>10. ASSUME NEW r \in Reader PROVE SameSelect(r)
  <2>1. pc'[r] = pc[r] BY <1>5, <1>0, Clients
  <2>2. ASSUME NEW t \in Myisam, r \in tl[t].readers, ~Concurrent(t) PROVE r \in tl'[t].readers /\ ver'[t] = ver[t]
    <3>1. t \in Table /\ tl[t].writer # w BY <2>2, <1>0 DEF SharedOK, Concurrent
    <3> QED BY <3>1, <2>2, <1>2, <1>4
  <2>3. \A t \in Table \ Myisam : ver'[t] = ver[t] BY <1>2, <1>9
  <2> QED BY <2>1, <2>2, <2>3, <1>1 DEF SameSelect, Concurrent
<1>11. ASSUME NEW u \in Writer, u # w PROVE WriterDoes(u)
  <2>1. \A t \in Table : tl'[t].writer = u => tl[t].writer = u BY <1>0, <1>4
  <2>2. SameWriter(u) BY <2>1, <1>0, <1>1, <1>3, <1>5, <1>11 DEF SameWriter
  <2> QED BY <2>2, <1>0, <1>7, WriterStays
<1>12. WriterDoes(w)
  <2>1. \A t \in Table : tl'[t].writer # w BY <1>0, <1>4
  <2>2. WriterInv(w)'
    <3>1. \A t \in Table : mine'[w][t] <= ver'[t]
      <4> TAKE t \in Table
      <4>1. mine[w][t] <= ver[t] BY <1>0 DEF WriterInv
      <4> QED BY <4>1, <1>0, <1>3, <1>6
    <3> QED BY <3>1, <2>1, <1>0, <1>1, <1>5 DEF WriterInv
  <2>3. \A t \in Table : Purges(w, t)' => Purges(w, t) BY <2>1, <1>1, <1>5 DEF Purges, Pending, Concurrent
  <2>4. ASSUME NEW t \in Table, NEW v \in Nat, Concerned(t), Enough(v, t), ~Concurrent(t) PROVE mine'[w][t] <= v
    <3>1. tl[t].writer # w
      <4> SUFFICES ASSUME tl[t].writer = w PROVE FALSE OBVIOUS
      <4>1. t \notin changed[w] BY <1>0, <1>9 DEF WriterInv
      <4>2. Purges(w, t) BY <2>4, <4>1, <1>1 DEF Purges, Pending
      <4> QED BY <4>2, <2>4 DEF FreshInv, Cleaned
    <3>2. ~Inval(w, t) BY <1>1 DEF Inval
    <3>3. mine[w][t] <= v BY <3>2, <2>4 DEF Enough, Concurrent
    <3> QED BY <3>1, <3>3, <1>3
  <2> QED BY <2>2, <2>3, <2>4 DEF WriterDoes, Concurrent
<1> QED BY <1>1, <1>7, <1>8, <1>10, <1>11, <1>12, KeptAll, ByOther

(* the client is told of its change when the queries of the table are gone *)
LEMMA AnswerFresh ==
    ASSUME BlockInv, BlockInv', FreshInv, NEW w \in Writer, Answer(w)
    PROVE  FreshInv' /\ Outside
<1>0. /\ DOMAIN pc = Client /\ w \in Client /\ w \notin Reader /\ \A u \in Writer : u \in Client
      /\ \A t \in Table : ver[t] \in Nat /\ acked[t] \in Nat /\ mine[w][t] \in Nat
      /\ WriterInv(w) /\ SharedOK /\ \A u \in Writer : WriterInv(u)
  BY Domains, Clients, FreshTypes DEF FreshInv
<1>1. /\ pc[w] = "ack"
      /\ UNCHANGED <<play, qc, net, query, todo, res, dirty, need, ver, locks, inv, active, view, tl, target, changed, mine>>
  BY DEF Answer, cache, thd, writer
<1>2. \A t \in Table : acked'[t] = IF mine[w][t] > acked[t] THEN mine[w][t] ELSE acked[t] BY DEF Answer
<1>3. pc'[w] \in {"begun", "idle"} /\ \A d \in Client \ {w} : pc'[d] = pc[d] BY <1>0 DEF Answer, Goto
<1>4. \A t \in Table : acked[t] <= acked'[t] /\ acked'[t] <= ver[t] BY <1>0, <1>2 DEF SharedOK, WriterInv, Concurrent
<1>5. Forward
  <2>1. ASSUME NEW t \in Table, NEW v \in Nat, Enough(v, t), ~Concurrent(t) PROVE acked'[t] <= v
    <3>1. ~Inval(w, t) BY <1>1 DEF Inval
    <3>2. mine[w][t] <= v /\ acked[t] <= v BY <2>1, <3>1 DEF Enough, Concurrent
    <3> QED BY <3>2, <1>0, <1>2
  <2>2. \A t \in Table : ver[t] <= ver'[t] BY <1>0, <1>1
  <2> QED BY <2>1, <2>2, <1>1, <1>4 DEF Forward, Concurrent
<1>6. SharedOK' BY <1>0, <1>1, <1>4 DEF SharedOK, Concurrent
<1>7. ASSUME NEW r \in Reader PROVE SameSelect(r)
  <2>1. pc'[r] = pc[r] BY <1>3, <1>0, Clients
  <2> QED BY <2>1, <1>1 DEF SameSelect, Concurrent
<1>8. ASSUME NEW u \in Writer, u # w PROVE WriterDoes(u)
  <2>1. SameWriter(u) BY <1>0, <1>1, <1>3, <1>8 DEF SameWriter
  <2> QED BY <2>1, <1>0, <1>5, WriterStays
<1>9. WriterDoes(w)
  <2>1. WriterInv(w)' BY <1>0, <1>1, <1>3 DEF WriterInv
  <2>2. \A t \in Table : Purges(w, t)' => Purges(w, t) BY <1>1, <1>3 DEF Purges, Pending, Concurrent
  <2>3. \A t \in Table : ~Inval(w, t) BY <1>1 DEF Inval
  <2> QED BY <2>1, <2>2, <2>3, <1>1 DEF WriterDoes, Enough, Concurrent
<1> QED BY <1>1, <1>5, <1>6, <1>7, <1>8, <1>9, KeptAll, ByOther

(* every step of a SELECT *)
LEMMA SelectFresh ==
    ASSUME Whole, BlockInv, BlockInv', FreshInv, NEW r \in Reader,
           SelectStep(r) \/ UnlockTables(r) \/ CommitReads(r) \/ \E q \in Query : Select(r, q)
    PROVE  FreshInv' /\ Inside(r)
<1>1. CASE \/ \E q \in Query : Select(r, q)
           \/ LookupMiss(r) \/ Sent(r) \/ ClearNet(r) \/ query_cache_abort(r)
           \/ (net[r] = None /\ query_cache_end_of_result(r))
  BY <1>1, MissFresh
<1>2. CASE Finish(r) \/ UnlockTables(r) \/ CommitReads(r) BY <1>2, EndFresh
<1>3. CASE Found(r) BY <1>3, FoundFresh
<1>4. CASE AskHit(r) \/ Hit(r) BY <1>4, AskHitFresh
<1>5. CASE Open(r) BY <1>5, OpenFresh
<1>6. CASE StoreNot(r) \/ StoreEnter(r) BY <1>6, StoreFresh
<1>7. CASE ask_handler_allowance(r) BY <1>7, AskStoreFresh
<1>8. CASE Register(r) BY <1>8, RegisterFresh
<1>9. CASE Publish(r) BY <1>9, PublishFresh
<1>10. CASE Read(r) BY <1>10, ReadFresh
<1>11. CASE \/ InsertNot(r) \/ query_cache_insert(r) \/ InsertFails(r) \/ Copied(r)
            \/ (net[r] # None /\ query_cache_end_of_result(r))
  BY <1>11, PacketFresh
<1>12. CASE Complete(r) BY <1>12, CompleteFresh
<1> QED BY <1>1, <1>2, <1>3, <1>4, <1>5, <1>6, <1>7, <1>8, <1>9, <1>10, <1>11, <1>12 DEF SelectStep

(* every step of a statement that changes tables *)
LEMMA WriteFresh ==
    ASSUME BlockInv, BlockInv', FreshInv, NEW w \in Writer,
           \/ WriteStep(w) \/ Rollback(w)
           \/ pc[w] = "begun" /\ Commit(w)
           \/ \E t \in UNION {TablesOf(q) : q \in Query}, how \in {"direct", "cascade"} : Modify(w, t, how)
    PROVE  FreshInv' /\ Outside
<1>1. CASE Defer(w) \/ InvalidateNot(w) \/ InvalidateEnter(w) \/ invalidate_table(w) \/ InvalidateDone(w)
  BY <1>1, InvalidateFresh
<1>2. CASE Commit(w) BY <1>2, CommitFresh
<1>3. CASE Rollback(w) BY <1>3, RollbackFresh
<1>4. CASE UnlockMyisam(w) BY <1>4, UnlockFresh
<1>5. CASE Answer(w) BY <1>5, AnswerFresh
<1>6. ASSUME NEW t \in UNION {TablesOf(q) : q \in Query}, NEW how \in {"direct", "cascade"}, Modify(w, t, how)
      PROVE  FreshInv' /\ Outside
  <2>1. t \in Table BY FreshTypes
  <2> QED BY <2>1, <1>6, ModifyFresh
<1> QED BY <1>1, <1>2, <1>3, <1>4, <1>5, <1>6 DEF WriteStep

(* no step *)
LEMMA StutterFresh == ASSUME BlockInv, BlockInv', FreshInv, UNCHANGED vars PROVE FreshInv' /\ Outside
<1>1. /\ UNCHANGED <<play, qc, net, query, todo, res, dirty, need, ver, acked, locks, inv, active, view, tl>>
      /\ UNCHANGED <<target, changed, mine, pc, thd, engine>>
  BY DEF vars, cache, thd, engine, writer
<1>2. Apart(Admin) BY <1>1 DEF Apart
<1>3. \A q \in Query : Kept(q) BY <1>1, KeptAll
<1> QED BY <1>2, <1>3, Clients, ApartFresh

(* every step *)
LEMMA NextFresh == ASSUME Whole, BlockInv, FreshInv, [Next]_vars PROVE FreshInv'
<1>0. BlockInv' BY NextBlocks
<1>1. CASE UNCHANGED vars BY <1>0, <1>1, StutterFresh
<1>2. ASSUME NEW r \in Reader,
             SelectStep(r) \/ UnlockTables(r) \/ CommitReads(r) \/ \E q \in Query : Select(r, q)
      PROVE  FreshInv'
  BY <1>0, <1>2, SelectFresh
<1>3. ASSUME NEW w \in Writer,
             \/ WriteStep(w) \/ Rollback(w)
             \/ pc[w] = "begun" /\ Commit(w)
             \/ \E t \in UNION {TablesOf(q) : q \in Query}, how \in {"direct", "cascade"} : Modify(w, t, how)
      PROVE  FreshInv'
  BY <1>0, <1>3, WriteFresh
<1>4. CASE AdminStep \/ Flush BY <1>4, <1>0, AdminFresh
<1> QED BY <1>1, <1>2, <1>3, <1>4 DEF Next

(* the beginning *)
LEMMA InitFresh == ASSUME Init PROVE FreshInv
<1> USE DEF Init
<1>1. /\ \A c \in Client : pc[c] = "idle"
      /\ \A r \in Reader : r \in Client
      /\ \A w \in Writer : w \in Client /\ w # None
  BY Clients
<1>2. qc.entry = [q \in Query |-> None] OBVIOUS
<1>3. /\ \A t \in Table : ver[t] = 0 /\ acked[t] = 0 /\ tl[t].writer = None /\ tl[t].readers = {} /\ locks[t] = {}
      /\ \A r \in Reader, t \in Table : res[r][t] = 0 /\ need[r][t] = 0
      /\ \A w \in Writer, t \in Table : mine[w][t] = 0
  BY DEF NoVersions
<1>4. Cleaned BY <1>1, <1>3 DEF Cleaned, Purges, Concurrent
<1>5. SharedOK BY <1>3 DEF SharedOK, Concurrent
<1>6. ASSUME NEW w \in Writer PROVE WriterInv(w)
  <2>1. pc[w] = "idle" /\ changed[w] = {} /\ w # None BY <1>1
  <2> QED BY <2>1, <1>3 DEF WriterInv
<1>7. ASSUME NEW r \in Reader PROVE ReaderFresh(r)
  <2>1. pc[r] = "idle" /\ view[r] = None BY <1>1
  <2>2. TablesHeld(r) /\ ViewOK(r) /\ FreshReader(r) BY <2>1 DEF TablesHeld, ViewOK, FreshReader, Reads, Concurrent
  <2>3. KnownOK(r) BY <1>3 DEF KnownOK
  <2>4. FreshWriter(r) BY <2>1 DEF FreshWriter, Wants, Asked, Writes, Busy
  <2> QED BY <2>2, <2>3, <2>4 DEF ReaderFresh
<1>8. \A q \in Query : EntryFresh(q) BY <1>2 DEF EntryFresh
<1> QED BY <1>4, <1>5, <1>6, <1>7, <1>8 DEF FreshInv

(* what the invariant says about a result that is sent *)
LEMMA FreshResult == BlockInv /\ FreshInv => NoStaleResult
<1> SUFFICES ASSUME BlockInv, FreshInv, NEW r \in Reader, pc[r] = "sending"
             PROVE  LET b == qc.entry[query[r]] IN
                    /\ b # None /\ b.st = "result" /\ b.pkts = NPackets
                    /\ \A t \in TablesOf(query[r]) : Concurrent(t) \/ need[r][t] <= b.data[t]
  BY DEF NoStaleResult, Concurrent
<1>1. PICK q : q = query[r] OBVIOUS
<1>2. /\ q \in Query /\ Reads(r, q) /\ ReaderBlock(r, qc.entry[q]) /\ qc.entry[q] # None BY <1>1, ReaderAt DEF ReaderBlock
<1>3. qc.entry[q].st = "result" /\ qc.entry[q].pkts = NPackets
  BY <1>2, BlockFacts DEF ReaderBlock, EntryOK
<1>5. \A t \in TablesOf(q) : Concurrent(t) \/ need[r][t] <= qc.entry[q].data[t]
  BY <1>2 DEF FreshInv, ReaderFresh, FreshReader, Concurrent
<1> QED BY <1>1, <1>2, <1>3, <1>5

(* No client ever gets a result from the cache that is not complete, or     *)
(* that lacks a change of which some client had been told when the SELECT   *)
(* came, except a concurrent insert: for any number of readers and writers, *)
(* tables of both engines, isolation levels, transactions, foreign keys,    *)
(* sizes of the cache, resets and resizes (store_query,                     *)
(* send_result_to_client, invalidate,                                       *)
(* row_search_check_if_query_cache_permitted).                              *)
THEOREM QcNoStaleResult == ASSUME Whole PROVE Spec => []NoStaleResult
<1>1. Init => BlockInv /\ FreshInv BY InitBlocks, InitFresh
<1>2. BlockInv /\ FreshInv /\ [Next]_vars => (BlockInv /\ FreshInv)' BY NextBlocks, NextFresh
<1>3. BlockInv /\ FreshInv => NoStaleResult BY FreshResult
<1> QED BY <1>1, <1>2, <1>3, PTL DEF Spec

-----------------------------------------------------------------------------
(* Results in a transaction *)

(* what is committed changes only while the queries of the table go *)
Level ==
    /\ play' = play
    /\ \A t \in Table \ Myisam : Concerned(t) /\ Still(t)' => Still(t) /\ ver'[t] = ver[t]

(* then what r is going to store stays what is committed *)
LEMMA ReaderLevel ==
    ASSUME BlockInv, Level, NEW r \in Reader, SameSelect(r), ReaderCurrent(r)
    PROVE  ReaderCurrent(r)'
<1> SUFFICES ASSUME NEW t \in Table \ Myisam, Still(t)', Wants(r, t)' 
             PROVE  Will(r, t)' = ver'[t] /\ (Mixed' => ~Tainted(r, t)')
  BY DEF ReaderCurrent
<1>1. Wants(r, t) /\ Concerned(t) BY WantsStays DEF Level
<1>2. Still(t) /\ ver'[t] = ver[t] BY <1>1 DEF Level
<1>3. Will(r, t) = ver[t] /\ (Mixed => ~Tainted(r, t)) BY <1>1, <1>2 DEF ReaderCurrent
<1>4. Will(r, t)' = Will(r, t) BY <1>2 DEF Will, SameSelect, Level, Concurrent
<1>5. (Mixed' <=> Mixed) /\ (Tainted(r, t)' <=> Tainted(r, t)) BY DEF Mixed, Tainted, SameSelect, Level, Concurrent
<1> QED BY <1>2, <1>3, <1>4, <1>5

(* and so does what is stored *)
LEMMA EntryLevel ==
    ASSUME BlockInv, Level, NEW q \in Query, Kept(q), EntryCurrent(q)
    PROVE  EntryCurrent(q)'
<1> SUFFICES ASSUME qc'.entry[q] # None, qc'.entry[q].st = "result", NEW t \in TablesOf(q) \ Myisam, t \in Table, Still(t)'
             PROVE  qc'.entry[q].data[t] = ver'[t] /\ (Mixed => t \notin qc'.entry[q].dirty)
  <2>1. TablesOf(q)' = TablesOf(q) BY DEF Level, TablesOf
  <2>2. TablesOf(q) \subseteq Table BY FreshTypes
  <2>3. Mixed' <=> Mixed BY DEF Mixed, Level
  <2> QED BY <2>1, <2>2, <2>3 DEF EntryCurrent
<1>1. /\ qc.entry[q] # None /\ qc.entry[q].st = "result"
      /\ qc'.entry[q].data = qc.entry[q].data /\ qc'.entry[q].dirty = qc.entry[q].dirty
  BY DEF Kept
<1>2. Concerned(t) BY <1>1 DEF Concerned, Present
<1>3. Still(t) /\ ver'[t] = ver[t] BY <1>2 DEF Level
<1> QED BY <1>1, <1>3 DEF EntryCurrent

(* a result that is used does not change *)
LEMMA MatchesStays ==
    ASSUME BlockInv', play' = play, NEW r \in Reader, SameSelect(r), Matches(r), Repeatable(r),
           \A q \in Query : Reads(r, q) => Kept(q)
    PROVE  Matches(r)' /\ Repeatable(r)'
<1>1. Repeatable(r)' BY DEF Repeatable, SameSelect, Concurrent
<1>2. ASSUME NEW q \in Query, Reads(r, q)'
      PROVE  Reads(r, q) /\ qc'.entry[q].data = qc.entry[q].data /\ qc'.entry[q].dirty = qc.entry[q].dirty
  <2>1. Reads(r, q) BY <1>2 DEF Reads, SameSelect, Concurrent
  <2>2. qc'.entry[q] # None BY <1>2 DEF BlockInv, CacheOK, Held, ReaderBlock
  <2> QED BY <2>1, <2>2 DEF Kept
<1>3. \A q : TablesOf(q)' = TablesOf(q) BY DEF TablesOf
<1>4. Matches(r)' BY <1>2, <1>3 DEF Matches, SameSelect, Concurrent
<1> QED BY <1>1, <1>4

(* whoever changes a table is about to free its queries *)
LEMMA LockedMoves ==
    ASSUME FreshInv, ViewInv, Mixed, NEW t \in Table \ Myisam, Concerned(t), locks[t] \cap Writer # {}
    PROVE  ~Still(t)
<1>1. PICK w \in Writer : w \in locks[t] OBVIOUS
<1>2. ~Purges(w, t) BY DEF FreshInv, Cleaned
<1>3. Pending(w, t) BY <1>1, <1>2 DEF Purges, Concurrent
<1>4. changed[w] = {} /\ pc[w] # "defer" BY DEF ViewInv, Undeferred, Mixed
<1>5. Inval(w, t) BY <1>3, <1>4 DEF Pending, Inval
<1> QED BY <1>5 DEF Still

(* r reads uncommitted rows only while somebody changes the table *)
DirtyKept(r) ==
    \A t \in Table : Wants(r, t)' /\ Tainted(r, t)' => Wants(r, t) /\ (Tainted(r, t) \/ locks[t] # {})

(* a step of a SELECT: it is enough to look at its own view *)
LEMMA ByReaderView ==
    ASSUME BlockInv, BlockInv', FreshInv, ViewInv, NEW r \in Reader, Inside(r), DirtyKept(r),
           Matches(r)', Repeatable(r)'
    PROVE  ViewInv'
<1>1. /\ UNCHANGED <<play, ver, locks, target, changed>> /\ (\A w \in Writer : pc'[w] = pc[w])
      /\ \A q : TablesOf(q)' = TablesOf(q)
  BY DEF Inside, QuietFor, TablesOf, Concurrent
<1>2. \A t : Still(t)' <=> Still(t) BY <1>1 DEF Still, Inval
<1>3. Level BY <1>1, <1>2 DEF Level
<1>4. ASSUME NEW s \in Reader, s # r PROVE SameSelect(s) /\ \A q \in Query : Reads(s, q) => Kept(q)
  <2>1. Myisam \subseteq Table BY QueryCacheAssumption DEF QueryCacheAssumption
  <2>2. SameSelect(s) BY <1>1, <1>4, <2>1 DEF Inside, QuietFor, SameSelect, Concurrent
  <2>3. \A q \in Query : Reads(s, q) => Kept(q) BY <1>4 DEF Inside, Makes
  <2> QED BY <2>2, <2>3
<1>5. ASSUME NEW s \in Reader PROVE ReaderCurrent(s)' /\ Matches(s)' /\ Repeatable(s)'
  <2>1. ReaderCurrent(s) /\ Matches(s) /\ Repeatable(s) BY DEF ViewInv
  <2>2. CASE s # r BY <2>1, <2>2, <1>1, <1>3, <1>4, ReaderLevel, MatchesStays
  <2>3. CASE s = r
    <3> SUFFICES ASSUME NEW t \in Table \ Myisam, Still(t)', Wants(r, t)'
                 PROVE  Will(r, t)' = ver'[t] /\ (Mixed' => ~Tainted(r, t)')
      BY <2>3 DEF ReaderCurrent
    <3>1. Will(r, t)' = ver[t] \/ (Wants(r, t) /\ Will(r, t)' = Will(r, t)) BY DEF Inside, Follows, Concurrent
    <3>2. Wants(r, t) => Will(r, t) = ver[t] /\ (Mixed => ~Tainted(r, t)) BY <2>1, <2>3, <1>2 DEF ReaderCurrent
    <3>3. ASSUME Mixed', Tainted(r, t)' PROVE FALSE
      <4>1. Mixed BY <3>3, <1>1 DEF Mixed
      <4>2. Wants(r, t) /\ locks[t] # {} BY <3>2, <3>3, <4>1 DEF DirtyKept
      <4>3. Concerned(t) BY <4>2, WantsConcerned
      <4>4. locks[t] \cap Writer # {}
        <5>1. locks[t] \subseteq Writer BY Domains
        <5> QED BY <4>2, <5>1
      <4> QED BY <4>1, <4>3, <4>4, <1>2, LockedMoves
    <3> QED BY <3>1, <3>2, <3>3, <1>1
  <2> QED BY <2>2, <2>3
<1>6. ASSUME NEW q \in Query PROVE EntryCurrent(q)'
  <2>1. EntryCurrent(q) BY DEF ViewInv
  <2>2. CASE Kept(q) BY <2>1, <2>2, <1>3, EntryLevel
  <2>3. CASE Makes(r, q) /\ qc'.entry[q].st # "result" BY <2>3 DEF EntryCurrent
  <2>4. CASE Makes(r, q) /\ qc'.entry[q].st = "result"
    <3>1. /\ qc'.entry[q].data = res[r] /\ qc'.entry[q].dirty = dirty[r]
          /\ pc[r] = "complete" /\ Writes(r, q) /\ query[r] = q
      BY <2>4 DEF Makes
    <3>2. ASSUME NEW t \in TablesOf(q) \ Myisam, Still(t) PROVE res[r][t] = ver[t] /\ (Mixed => t \notin dirty[r])
      <4>1. t \in Table /\ Wants(r, t) BY <3>1, <3>2, FreshTypes DEF Wants
      <4>2. Will(r, t) = ver[t] /\ (Mixed => ~Tainted(r, t)) BY <4>1, <3>2 DEF ViewInv, ReaderCurrent
      <4> QED BY <4>2, <3>1 DEF Will, Tainted
    <3>3. Mixed' <=> Mixed BY <1>1 DEF Mixed
    <3> QED BY <3>1, <3>2, <3>3, <1>1, <1>2 DEF EntryCurrent
  <2> QED BY <2>2, <2>3, <2>4 DEF Inside
<1>7. \A w \in Writer : Undeferred(w)' BY <1>1 DEF ViewInv, Undeferred, Mixed, Inval
<1> QED BY <1>5, <1>6, <1>7 DEF ViewInv

(* what the other writers do, and what w does *)
Regular(w) ==
    /\ Undeferred(w)'
    /\ \A t \in Table \ Myisam : Concerned(t) /\ ~Inval(w, t)' => ~Inval(w, t) /\ ver'[t] = ver[t]
    /\ \A u \in Writer \ {w} :
         /\ pc'[u] = pc[u] /\ target'[u] = target[u] /\ changed'[u] = changed[u]
         /\ \A t \in Table : u \in locks[t] => u \in locks'[t]

(* a step of the others *)
LEMMA ByOtherView ==
    ASSUME BlockInv, BlockInv', ViewInv, Outside, Level, \A w \in Writer : Undeferred(w)'
    PROVE  ViewInv'
<1>1. \A r \in Reader : ReaderCurrent(r)' BY ReaderLevel DEF ViewInv, Outside
<1>2. \A q \in Query : EntryCurrent(q)' BY EntryLevel DEF ViewInv, Outside
<1>3. \A r \in Reader : Matches(r)' /\ Repeatable(r)' BY MatchesStays DEF ViewInv, Outside
<1> QED BY <1>1, <1>2, <1>3 DEF ViewInv

(* a step of a writer *)
LEMMA ByWriterView ==
    ASSUME BlockInv, BlockInv', ViewInv, Outside, NEW w \in Writer, Regular(w)
    PROVE  ViewInv'
<1>1. Level
  <2>1. play' = play BY DEF Outside
  <2>2. ASSUME NEW t \in Table \ Myisam, Concerned(t), Still(t)' PROVE Still(t) /\ ver'[t] = ver[t]
    <3>1. ~Inval(w, t) /\ ver'[t] = ver[t] BY <2>2 DEF Regular, Still
    <3>2. \A u \in Writer \ {w} : ~Inval(u, t) BY <2>2 DEF Regular, Still, Inval
    <3> QED BY <3>1, <3>2 DEF Still
  <2> QED BY <2>1, <2>2 DEF Level
<1>2. ASSUME NEW u \in Writer PROVE Undeferred(u)'
  <2>1. CASE u = w BY <2>1 DEF Regular
  <2>2. CASE u # w BY <2>2 DEF Regular, ViewInv, Undeferred, Mixed, Inval, Outside
  <2> QED BY <2>1, <2>2
<1> QED BY <1>1, <1>2, ByOtherView

(* the view of a SELECT: it reads one only in REPEATABLE READ *)
LEMMA RepeatableStays ==
    ASSUME BlockInv, NEW r \in Reader, Repeatable(r), play' = play,
           view'[r] \in {view[r], None} \/ play.isolation[r] = "RR"
    PROVE  Repeatable(r)'
BY DEF Repeatable

(* a step that does not use a result *)
LEMMA AwayView ==
    ASSUME NEW r \in Reader, pc'[r] \notin {"ask_hit", "sending"}
    PROVE  Matches(r)'
BY DEF Matches, Reads

(* a result is found: InnoDB has not been asked yet *)
LEMMA FoundView == ASSUME BlockInv, NEW r \in Reader, Found(r) PROVE Matches(r)'
<1>0. DOMAIN todo = Reader /\ DOMAIN pc = Client /\ r \in Client BY Domains, Clients
<1>1. UNCHANGED <<play, query>> /\ pc'[r] = "ask_hit" BY <1>0 DEF Found, Goto
<1>2. ASSUME NEW q \in Query, Reads(r, q)', play.mode[r] = "trans", NEW t \in TablesOf(q) \ Myisam PROVE t \in ToSet(todo'[r])
  <2>1. q = query[r] BY <1>1, <1>2 DEF Reads
  <2>2. todo'[r] = Without(play.tables[q], Myisam) BY <2>1, <1>0, <1>2 DEF Found, InnodbTables
  <2>3. play.tables[q] \in Seq(Table) BY PlayFacts, BlockFacts
  <2>4. ToSet(todo'[r]) = TablesOf(q) \ Myisam BY <2>2, <2>3, WithoutFacts DEF TablesOf
  <2> QED BY <2>4
<1>3. \A q : TablesOf(q)' = TablesOf(q) BY <1>1 DEF TablesOf
<1> QED BY <1>1, <1>2, <1>3 DEF Matches

(* InnoDB allows a result when it is what the view shows *)
LEMMA AskHitView ==
    ASSUME BlockInv, FreshInv, ViewInv, NEW r \in Reader, AskHit(r)
    PROVE  Matches(r)'
<1>0. /\ DOMAIN todo = Reader /\ DOMAIN view = Reader /\ DOMAIN pc = Client /\ r \in Client
      /\ todo[r] \in Seq(Table) /\ todo[r] # << >>
  BY Domains, Clients DEF BlockInv, Typed, TypedThreads, AskHit
<1>1. /\ UNCHANGED <<play, query, ver, inv, locks>> /\ \A q : TablesOf(q)' = TablesOf(q)
  BY DEF AskHit, Ask, TablesOf
<1>2. PICK h : h = Head(todo[r]) OBVIOUS
<1>3. CASE ~Permitted(r, h)
  <2>1. pc'[r] = "open" BY <1>0, <1>2, <1>3 DEF AskHit, Goto
  <2> QED BY <2>1, AwayView
<1>4. CASE Permitted(r, h)
  <2>1. /\ todo'[r] = Tail(todo[r]) /\ qc' = qc
        /\ view'[r] = IF play.isolation[r] = "RR" THEN ViewOf(r) ELSE view[r]
        /\ pc'[r] = "ask_hit"
    BY <1>0, <1>2, <1>4 DEF AskHit, Ask
  <2> SUFFICES ASSUME NEW q \in Query, Reads(r, q)', play.mode[r] = "trans",
                      NEW t \in TablesOf(q) \ Myisam, t \notin ToSet(todo'[r])
               PROVE  /\ play.isolation[r] = "RR" => view'[r] # None
                      /\ view'[r] # None => qc.entry[q].data[t] = view'[r][t]
                      /\ t \notin qc.entry[q].dirty
    BY <2>1, <1>1 DEF Matches
  <2>2. q = query[r] BY <1>1 DEF Reads
  <2>3. q \in Query /\ Reads(r, q) /\ t \in Table BY <2>2, ReaderAt, FreshTypes DEF AskHit
  <2>4. ver # None
    <3>1. ver \in [Table -> Nat] BY DEF BlockInv, Typed, TypedEngine, Versions
    <3> QED BY <3>1, NoneAssumption
  <2>5. play.isolation[r] = "RR" => view'[r] # None BY <2>1, <2>4 DEF ViewOf
  <2>6. CASE t \notin ToSet(todo[r])
    <3>1. /\ play.isolation[r] = "RR" => view[r] # None
          /\ view[r] # None => qc.entry[q].data[t] = view[r][t]
          /\ t \notin qc.entry[q].dirty
      BY <2>3, <2>6 DEF ViewInv, Matches
    <3>2. view'[r] = view[r] BY <2>1, <3>1 DEF ViewOf
    <3> QED BY <3>1, <3>2, <2>5
  <2>7. CASE t \in ToSet(todo[r])
    <3>1. t = h
      <4>1. PICK i \in 1 .. Len(todo[r]) : todo[r][i] = t BY <2>7, <1>0 DEF ToSet
      <4>2. ASSUME i # 1 PROVE FALSE
        <5>1. /\ i - 1 \in 1 .. Len(Tail(todo[r])) /\ Tail(todo[r])[i - 1] = todo[r][i]
              /\ DOMAIN Tail(todo[r]) = 1 .. Len(Tail(todo[r]))
          BY <4>2, <1>0
        <5>2. t \in ToSet(Tail(todo[r])) BY <4>1, <5>1 DEF ToSet
        <5> QED BY <5>2, <2>1
      <4> QED BY <4>1, <4>2, <1>0, <1>2
    <3>2. locks[t] = {} /\ r \notin inv[t] BY <3>1, <1>4 DEF Permitted
    <3>3. Mixed /\ Still(t) BY <3>2, <2>3 DEF Mixed, Still, ViewInv, Undeferred, Mixed
    <3>4. qc.entry[q].data[t] = ver[t] /\ t \notin qc.entry[q].dirty
      <4>1. ReaderBlock(r, qc.entry[q]) /\ qc.entry[q] # None BY <2>3, BlockFacts DEF Held, ReaderBlock
      <4>2. qc.entry[q].st = "result" BY <4>1 DEF ReaderBlock
      <4> QED BY <4>1, <4>2, <3>3 DEF ViewInv, EntryCurrent
    <3>5. view[r] # None => view[r][t] = ver[t] BY <3>2, <2>3 DEF FreshInv, ReaderFresh, ViewOK
    <3>6. view'[r] # None => view'[r][t] = ver[t] BY <3>5, <2>1 DEF ViewOf
    <3> QED BY <3>4, <3>6, <2>5
  <2> QED BY <2>6, <2>7
<1> QED BY <1>3, <1>4

(* the result is sent *)
LEMMA HitView == ASSUME BlockInv, ViewInv, NEW r \in Reader, Hit(r) PROVE Matches(r)'
<1>0. DOMAIN pc = Client /\ r \in Client BY Domains, Clients
<1>1. UNCHANGED <<play, query, todo, view>> BY DEF Hit, thd, engine
<1>2. qc = [entry |-> qc.entry, lru |-> qc.lru, tbl |-> qc.tbl] BY BlockFacts, CacheFacts
<1>3. qc'.entry = qc.entry BY <1>2 DEF Hit
<1>4. \A q \in Query : Reads(r, q)' => Reads(r, q) BY <1>1 DEF Hit, Reads
<1>5. \A q : TablesOf(q)' = TablesOf(q) BY <1>1 DEF TablesOf
<1>6. ToSet(todo[r]) = {} BY DEF Hit, ToSet
<1> QED BY <1>1, <1>3, <1>4, <1>5, <1>6 DEF ViewInv, Matches

(* what is read stays what it was *)
LEMMA LateDirty ==
    ASSUME NEW r \in Reader, Late(pc[r]), Late(pc'[r]), play' = play,
           query'[r] = query[r], dirty'[r] = dirty[r], net'[r] \in {net[r], None}, query[r] # None
    PROVE  DirtyKept(r)
<1> SUFFICES ASSUME NEW t \in Table, Wants(r, t)', Tainted(r, t)' PROVE Wants(r, t) /\ Tainted(r, t)
  BY DEF DirtyKept
<1>1. ~Asked(r, t)' BY DEF Asked, Late
<1>2. (Writes(r, query[r]) /\ t \in TablesOf(query[r]))' BY <1>1 DEF Wants
<1>3. Writes(r, query[r]) /\ t \in TablesOf(query[r]) BY <1>2 DEF Writes, Busy, Late, TablesOf
<1> QED BY <1>3 DEF Wants, Tainted, Late

(* every step of a SELECT *)
LEMMA DirtyStays ==
    ASSUME BlockInv, NEW r \in Reader, QuietFor(r),
           SelectStep(r) \/ UnlockTables(r) \/ CommitReads(r) \/ \E q \in Query : Select(r, q)
    PROVE  DirtyKept(r)
<1>0. /\ DOMAIN pc = Client /\ DOMAIN dirty = Reader /\ r \in Client /\ play' = play
      /\ Late(pc[r]) => query[r] # None
  BY Domains, Clients, BlockFacts DEF QuietFor, ReaderInv, Late, Concurrent
<1>1. CASE Read(r)
  <2>1. /\ pc[r] = "read" /\ pc'[r] = "packet" /\ UNCHANGED <<net, query>>
        /\ dirty'[r] \subseteq {t \in TablesOf(query[r]) : locks[t] # {}}
    BY <1>0, <1>1 DEF Read, Goto, cache
  <2> SUFFICES ASSUME NEW t \in Table, Wants(r, t)', Tainted(r, t)' PROVE Wants(r, t) /\ locks[t] # {}
    BY DEF DirtyKept
  <2>2. locks[t] # {} BY <2>1 DEF Tainted
  <2>3. ~Asked(r, t)' BY <2>1 DEF Asked
  <2>4. (Writes(r, query[r]) /\ t \in TablesOf(query[r]))' BY <2>3 DEF Wants
  <2>5. Writes(r, query[r]) /\ t \in TablesOf(query[r]) BY <2>1, <2>4, <1>0 DEF Writes, Busy, TablesOf
  <2> QED BY <2>2, <2>5 DEF Wants
<1>2. CASE \/ InsertNot(r) \/ query_cache_insert(r) \/ InsertFails(r) \/ Copied(r)
           \/ query_cache_end_of_result(r) \/ UnlockTables(r)
  <2>1. CASE ~Late(pc'[r]) BY <2>1 DEF DirtyKept, Tainted, Late
  <2>2. CASE Late(pc'[r])
    <3>1. Late(pc[r])
      BY <1>2, <2>2 DEF InsertNot, query_cache_insert, InsertFails, Copied, query_cache_end_of_result, UnlockTables, Late
    <3>2. UNCHANGED <<query, dirty>>
      BY <1>2 DEF InsertNot, query_cache_insert, InsertFails, Copied, query_cache_end_of_result, UnlockTables, thd
    <3>3. net'[r] \in {net[r], None}
      BY <1>0, <1>2 DEF InsertNot, query_cache_insert, InsertFails, ForgetWriter, Copied, query_cache_end_of_result,
         UnlockTables, cache
    <3> QED BY <2>2, <3>1, <3>2, <3>3, <1>0, LateDirty
  <2> QED BY <2>1, <2>2
<1>3. CASE \/ LookupMiss(r) \/ Found(r) \/ AskHit(r) \/ Hit(r) \/ Sent(r) \/ Open(r) \/ StoreNot(r) \/ StoreEnter(r)
           \/ ask_handler_allowance(r) \/ Register(r) \/ Publish(r) \/ Complete(r) \/ ClearNet(r)
           \/ query_cache_abort(r) \/ Finish(r) \/ CommitReads(r) \/ \E q \in Query : Select(r, q)
  <2>1. ~Late(pc'[r])
    BY <1>0, <1>3 DEF LookupMiss, Found, AskHit, Hit, Sent, Open, StoreNot, StoreEnter, ask_handler_allowance,
       Register, Publish, Complete, ClearNet, query_cache_abort, Finish, CommitReads, Select, EndSelect, Goto, Late
  <2> QED BY <2>1 DEF DirtyKept, Tainted, Late
<1> QED BY <1>1, <1>2, <1>3 DEF SelectStep

(* every step of a SELECT *)
LEMMA SelectView ==
    ASSUME Whole, BlockInv, BlockInv', FreshInv, ViewInv, NEW r \in Reader,
           SelectStep(r) \/ UnlockTables(r) \/ CommitReads(r) \/ \E q \in Query : Select(r, q)
    PROVE  ViewInv'
<1>0. DOMAIN pc = Client /\ DOMAIN view = Reader /\ r \in Client BY Domains, Clients
<1>1. Inside(r) /\ play' = play BY SelectFresh DEF Inside, QuietFor, Concurrent
<1>2. Repeatable(r) BY DEF ViewInv
<1>8. DirtyKept(r) BY <1>1, DirtyStays DEF Inside
<1>3. CASE Found(r) \/ AskHit(r) \/ Hit(r)
  <2>1. Matches(r)' BY <1>3, FoundView, AskHitView, HitView
  <2>2. view'[r] \in {view[r], None} \/ play.isolation[r] = "RR" BY <1>0, <1>3 DEF Found, AskHit, Ask, Hit, engine
  <2> QED BY <2>1, <2>2, <1>1, <1>2, <1>8, RepeatableStays, ByReaderView
<1>4. CASE Read(r) \/ ask_handler_allowance(r)
  <2>1. pc'[r] \notin {"ask_hit", "sending"} BY <1>0, <1>4 DEF Read, ask_handler_allowance, Goto
  <2>2. view'[r] \in {view[r], None} \/ play.isolation[r] = "RR" BY <1>0, <1>4 DEF Read, ask_handler_allowance, Ask
  <2> QED BY <2>1, <2>2, <1>1, <1>2, <1>8, AwayView, RepeatableStays, ByReaderView
<1>5. CASE Finish(r) \/ UnlockTables(r) \/ CommitReads(r)
  <2>1. pc'[r] \notin {"ask_hit", "sending"} BY <1>0, <1>5 DEF Finish, EndSelect, UnlockTables, CommitReads
  <2>2. view'[r] \in {view[r], None} BY <1>0, <1>5 DEF Finish, UnlockTables, CommitReads, EndTrx
  <2> QED BY <2>1, <2>2, <1>1, <1>2, <1>8, AwayView, RepeatableStays, ByReaderView
<1>6. CASE \/ \E q \in Query : Select(r, q)
           \/ LookupMiss(r) \/ Sent(r) \/ ClearNet(r) \/ query_cache_abort(r) \/ query_cache_end_of_result(r)
           \/ StoreNot(r) \/ StoreEnter(r) \/ Register(r) \/ Publish(r)
           \/ InsertNot(r) \/ query_cache_insert(r) \/ InsertFails(r) \/ Copied(r) \/ Complete(r)
  <2>1. pc'[r] \notin {"ask_hit", "sending"}
    BY <1>0, <1>6 DEF Select, LookupMiss, Sent, EndSelect, ClearNet, query_cache_abort, query_cache_end_of_result,
       StoreNot, StoreEnter, Register, Publish, InsertNot, query_cache_insert, InsertFails, Copied, Complete, Goto
  <2>2. view' = view
    BY <1>6 DEF Select, LookupMiss, Sent, ClearNet, query_cache_abort, query_cache_end_of_result,
       StoreNot, StoreEnter, Register, Publish, InsertNot, query_cache_insert, InsertFails, Copied, Complete, engine
  <2> QED BY <2>1, <2>2, <1>1, <1>2, <1>8, AwayView, RepeatableStays, ByReaderView
<1>7. CASE Open(r)
  <2>1. pc'[r] = "store" /\ view' = view BY <1>0, <1>7 DEF Open, Goto
  <2> QED BY <2>1, <1>1, <1>2, <1>8, AwayView, RepeatableStays, ByReaderView
<1> QED BY <1>3, <1>4, <1>5, <1>6, <1>7 DEF SelectStep

(* Query_cache::invalidate *)
LEMMA InvalidateView ==
    ASSUME BlockInv, ViewInv, NEW w \in Writer,
           Defer(w) \/ InvalidateNot(w) \/ InvalidateEnter(w) \/ invalidate_table(w) \/ InvalidateDone(w)
    PROVE  Regular(w)
<1>0. DOMAIN pc = Client /\ DOMAIN changed = Writer /\ w \in Client /\ \A u \in Writer : u \in Client BY Domains, Clients
<1>1. UNCHANGED <<play, target, locks, ver>>
  BY DEF Defer, InvalidateNot, InvalidateEnter, invalidate_table, InvalidateDone, cache, writer, engine
<1>2. \A u \in Writer \ {w} : pc'[u] = pc[u] /\ changed'[u] = changed[u]
  BY <1>0 DEF Defer, InvalidateNot, InvalidateEnter, invalidate_table, InvalidateDone, writer, Goto
<1>3. Undeferred(w) BY DEF ViewInv
<1>4. CASE InvalidateEnter(w) \/ invalidate_table(w)
  <2>1. changed' = changed /\ pc[w] \in {"check", "free"} /\ pc'[w] \in {"check", "free"}
    BY <1>0, <1>4 DEF InvalidateEnter, invalidate_table, Goto, writer
  <2>2. \A t \in Table : Inval(w, t)' <=> Inval(w, t) BY <2>1, <1>1 DEF Inval
  <2>3. Undeferred(w)' BY <2>1, <2>2, <1>1, <1>3 DEF Undeferred, Mixed
  <2> QED BY <2>2, <2>3, <1>1, <1>2 DEF Regular
<1>5. CASE InvalidateNot(w) \/ InvalidateDone(w)
  <2>1. changed' = changed /\ pc'[w] = AfterInvalidate(w)
    BY <1>0, <1>5 DEF InvalidateNot, InvalidateDone, Goto, writer
  <2>2. ASSUME NEW t \in Table, Concerned(t) PROVE ~Inval(w, t)
    <3>1. CASE ~size BY <3>1, <2>2, NoCache
    <3>2. CASE InvalidateDone(w) BY <3>2, <2>2, Invalidated DEF InvalidateDone, Inval
    <3> QED BY <3>1, <3>2, <1>5 DEF InvalidateNot
  <2>3. pc'[w] \notin {"check", "free", "defer"} BY <2>1 DEF AfterInvalidate
  <2>4. Undeferred(w)' BY <2>1, <2>3, <1>1, <1>3 DEF Undeferred, Mixed, Inval
  <2> QED BY <2>2, <2>4, <1>1, <1>2 DEF Regular
<1>6. CASE Defer(w)
  <2>1. pc[w] = "defer" BY <1>6 DEF Defer
  <2>2. Undeferred(w)' BY <2>1, <1>1, <1>3 DEF Undeferred, Mixed
  <2>3. \A t : ~Inval(w, t) BY <2>1 DEF Inval
  <2> QED BY <2>2, <2>3, <1>1, <1>2 DEF Regular
<1> QED BY <1>4, <1>5, <1>6

(* a table is changed *)
LEMMA ModifyView ==
    ASSUME NoDeferral, BlockInv, ViewInv, NEW w \in Writer, NEW x \in Table, NEW how, Modify(w, x, how)
    PROVE  Regular(w)
<1>0. /\ DOMAIN pc = Client /\ DOMAIN target = Writer /\ w \in Client /\ \A u \in Writer : u \in Client
      /\ locks \in [Table -> SUBSET Writer] /\ play \in Plays
  BY Domains, Clients, BlockFacts
<1>1. UNCHANGED <<play, ver, changed>> /\ pc[w] \in {"idle", "begun"} BY DEF Modify, cache
<1>2. /\ pc' = [pc EXCEPT ![w] = IF Deferred(w, how) THEN "defer" ELSE "check"]
      /\ target' = [target EXCEPT ![w] = {x}]
  BY DEF Modify, Goto
<1>3. locks' = IF x \in Myisam THEN locks ELSE [locks EXCEPT ![x] = @ \cup {w}] BY DEF Modify
<1>4. \A u \in Writer \ {w} : /\ pc'[u] = pc[u] /\ target'[u] = target[u] /\ changed'[u] = changed[u]
                              /\ \A t \in Table : u \in locks[t] => u \in locks'[t]
  BY <1>0, <1>1, <1>2, <1>3
<1>5. \A t : ~Inval(w, t) BY <1>1 DEF Inval
<1>6. Undeferred(w)'
  <2> SUFFICES ASSUME Mixed
               PROVE  /\ changed'[w] = {} /\ pc'[w] # "defer"
                      /\ \A t \in Table \ Myisam : Inval(w, t)' => w \in locks'[t]
    BY <1>1 DEF Undeferred, Mixed
  <2>1. changed[w] = {} BY DEF ViewInv, Undeferred, Mixed
  <2>2. ~play.cascade \/ play.mode[w] = "auto" BY <1>0 DEF NoDeferral, Mixed
  <2>3. ~Deferred(w, how) BY <2>2 DEF Deferred, Modify
  <2>4. pc'[w] = "check" /\ target'[w] = {x} BY <2>3, <1>0, <1>2
  <2>5. x \notin Myisam => w \in locks'[x] BY <1>0, <1>3
  <2> QED BY <2>1, <2>4, <2>5, <1>1 DEF Inval
<1> QED BY <1>1, <1>4, <1>5, <1>6 DEF Regular

(* the end of a transaction *)
LEMMA CommitView ==
    ASSUME BlockInv, FreshInv, ViewInv, NEW w \in Writer, Commit(w) \/ Rollback(w)
    PROVE  Regular(w)
<1>0. /\ DOMAIN pc = Client /\ DOMAIN target = Writer /\ DOMAIN changed = Writer
      /\ w \in Client /\ \A u \in Writer : u \in Client
  BY Domains, Clients
<1>1. play' = play /\ pc[w] \in {"commit", "begun"} /\ (\E undo \in BOOLEAN : ReleaseLocks(w, undo)) BY DEF Commit, Rollback, cache
<1>2. \A u \in Writer \ {w} : /\ pc'[u] = pc[u] /\ target'[u] = target[u] /\ changed'[u] = changed[u]
                              /\ \A t \in Table : u \in locks[t] => u \in locks'[t]
  <2>1. \A u \in Writer \ {w}, t \in Table : u \in locks[t] => u \in locks'[t] BY <1>1 DEF ReleaseLocks
  <2>2. \A u \in Writer \ {w} : pc'[u] = pc[u] /\ target'[u] = target[u] /\ changed'[u] = changed[u]
    BY <1>0 DEF Commit, Rollback, Goto
  <2> QED BY <2>1, <2>2
<1>3. \A t : ~Inval(w, t) BY <1>1 DEF Inval
<1>4. changed'[w] = {} BY <1>0 DEF Commit, Rollback
<1>5. CASE Commit(w)
  <2>1. target'[w] = changed[w] /\ pc'[w] = IF changed[w] # {} THEN "check" ELSE "ack"
    BY <1>0, <1>5 DEF Commit, Goto
  <2>2. Undeferred(w)' BY <2>1, <1>1, <1>4 DEF ViewInv, Undeferred, Mixed, Inval
  <2>3. ASSUME NEW t \in Table \ Myisam, Concerned(t), ~Inval(w, t)' PROVE ver'[t] = ver[t]
    <3>1. t \notin changed[w] BY <2>1, <2>3 DEF Inval
    <3>2. ~Purges(w, t) BY <2>3 DEF FreshInv, Cleaned
    <3>3. w \notin locks[t] BY <3>1, <3>2, <1>1 DEF Purges, Pending, Concurrent
    <3> QED BY <3>3, <1>5 DEF Commit
  <2> QED BY <2>2, <2>3, <1>2, <1>3 DEF Regular
<1>6. CASE Rollback(w)
  <2>1. pc'[w] = "idle" /\ ver' = ver BY <1>0, <1>6 DEF Rollback, Goto
  <2>2. Undeferred(w)' BY <2>1, <1>4 DEF Undeferred, Mixed, Inval
  <2> QED BY <2>1, <2>2, <1>2, <1>3 DEF Regular
<1> QED BY <1>5, <1>6

(* MyISAM's tables are unlocked; the client gets its answer *)
LEMMA AnswerView ==
    ASSUME BlockInv, FreshInv, ViewInv, NEW w \in Writer, UnlockMyisam(w) \/ Answer(w)
    PROVE  Regular(w)
<1>0. DOMAIN pc = Client /\ w \in Client /\ \A u \in Writer : u \in Client BY Domains, Clients
<1>1. /\ UNCHANGED <<play, target, changed, locks>> /\ pc[w] \in {"unlock", "ack"} /\ pc'[w] \in {"ack", "begun", "idle"}
      /\ \A u \in Writer \ {w} : pc'[u] = pc[u]
  BY <1>0 DEF UnlockMyisam, Answer, cache, writer, Goto
<1>2. \A t : ~Inval(w, t) BY <1>1 DEF Inval
<1>3. Undeferred(w)' BY <1>1 DEF ViewInv, Undeferred, Mixed, Inval
<1>4. \A t \in Table \ Myisam : ver'[t] = ver[t]
  <2>1. \A t \in Table \ Myisam : tl[t].writer # w BY DEF FreshInv, WriterInv
  <2> QED BY <2>1 DEF UnlockMyisam, Answer
<1> QED BY <1>1, <1>2, <1>3, <1>4 DEF Regular

(* nothing happens to tables *)
LEMMA CalmView ==
    ASSUME BlockInv, BlockInv', ViewInv, Outside, UNCHANGED <<ver, locks, writer>>, \A w \in Writer : pc'[w] = pc[w]
    PROVE  ViewInv'
<1>1. UNCHANGED <<play, target, changed>> BY DEF writer, Outside
<1>2. \A t : Still(t)' <=> Still(t) BY <1>1 DEF Still, Inval
<1>3. Level BY <1>1, <1>2 DEF Level
<1>4. \A w \in Writer : Undeferred(w)' BY <1>1 DEF ViewInv, Undeferred, Mixed, Inval
<1> QED BY <1>3, <1>4, ByOtherView

(* every step *)
LEMMA NextView ==
    ASSUME Whole, NoDeferral, BlockInv, FreshInv, ViewInv, [Next]_vars PROVE ViewInv'
<1>0. BlockInv' BY NextBlocks
<1>1. CASE UNCHANGED vars
  <2>1. UNCHANGED <<ver, locks, writer, pc>> BY <1>1 DEF vars, engine
  <2> QED BY <2>1, <1>0, <1>1, StutterFresh, CalmView
<1>2. ASSUME NEW r \in Reader,
             SelectStep(r) \/ UnlockTables(r) \/ CommitReads(r) \/ \E q \in Query : Select(r, q)
      PROVE  ViewInv'
  BY <1>0, <1>2, SelectView
<1>3. ASSUME NEW w \in Writer,
             \/ WriteStep(w) \/ Rollback(w)
             \/ pc[w] = "begun" /\ Commit(w)
             \/ \E t \in UNION {TablesOf(q) : q \in Query}, how \in {"direct", "cascade"} : Modify(w, t, how)
      PROVE  ViewInv'
  <2>1. Outside BY <1>0, <1>3, WriteFresh
  <2>2. Regular(w)
    <3>1. ASSUME NEW t \in UNION {TablesOf(q) : q \in Query}, NEW how \in {"direct", "cascade"}, Modify(w, t, how)
          PROVE  Regular(w)
      <4>1. t \in Table BY FreshTypes
      <4> QED BY <3>1, <4>1, ModifyView
    <3> QED BY <1>3, <3>1, InvalidateView, CommitView, AnswerView DEF WriteStep
  <2> QED BY <2>1, <2>2, <1>0, ByWriterView
<1>4. CASE AdminStep \/ Flush
  <2>1. UNCHANGED <<ver, locks, writer>>
    BY <1>4 DEF AdminStep, Flush, flush_cache, FlushDone, free_cache, init_cache, engine
  <2>2. \A w \in Writer : pc'[w] = pc[w]
    BY <1>4, Clients, Domains DEF AdminStep, Flush, flush_cache, FlushDone, free_cache, init_cache, Goto
  <2> QED BY <2>1, <2>2, <1>0, <1>4, AdminFresh, CalmView
<1> QED BY <1>1, <1>2, <1>3, <1>4 DEF Next

(* the beginning *)
LEMMA InitView == ASSUME Init PROVE ViewInv
<1> USE DEF Init
<1>1. /\ \A c \in Client : pc[c] = "idle"
      /\ \A r \in Reader : r \in Client /\ view[r] = None
      /\ \A w \in Writer : w \in Client /\ changed[w] = {}
      /\ \A q \in Query : qc.entry[q] = None
  BY Clients
<1>2. ASSUME NEW r \in Reader PROVE ReaderCurrent(r) /\ Matches(r) /\ Repeatable(r)
  <2>1. pc[r] = "idle" /\ view[r] = None BY <1>1
  <2> QED BY <2>1 DEF ReaderCurrent, Wants, Asked, Writes, Busy, Matches, Reads, Repeatable
<1>3. \A q \in Query : EntryCurrent(q) BY <1>1 DEF EntryCurrent
<1>4. \A w \in Writer : Undeferred(w) BY <1>1 DEF Undeferred, Mixed, Inval
<1> QED BY <1>2, <1>3, <1>4 DEF ViewInv

(* what the invariant says about a result that is sent *)
LEMMA ViewResult == BlockInv /\ ViewInv => SameAsView
<1> SUFFICES ASSUME BlockInv, ViewInv, NEW r \in Reader, pc[r] = "sending", play.mode[r] = "trans",
                    NEW t \in TablesOf(query[r]) \ Myisam
             PROVE  /\ t \notin qc.entry[query[r]].dirty
                    /\ view[r] # None => qc.entry[query[r]].data[t] = view[r][t]
  BY DEF SameAsView
<1>1. query[r] \in Query /\ Reads(r, query[r]) BY ReaderAt
<1> QED BY <1>1 DEF ViewInv, Matches

(* Inside a transaction a result from the cache is what the transaction's   *)
(* own read view would show, and has no rows that were not committed when   *)
(* it was stored: for any number of readers and writers, tables and         *)
(* isolation levels, READ UNCOMMITTED among them, as long as no change by a *)
(* foreign key inside a transaction meets a SELECT inside a transaction.    *)
(* Such a change is invalidated only after its locks are gone               *)
(* (ha_commit_one_phase), when row_search_check_if_query_cache_permitted no *)
(* longer sees it.                                                          *)
THEOREM QcSameAsView == ASSUME Whole, NoDeferral PROVE Spec => []SameAsView
<1>1. Init => BlockInv /\ FreshInv /\ ViewInv BY InitBlocks, InitFresh, InitView
<1>2. BlockInv /\ FreshInv /\ ViewInv /\ [Next]_vars => (BlockInv /\ FreshInv /\ ViewInv)'
  BY NextBlocks, NextFresh, NextView
<1>3. BlockInv /\ ViewInv => SameAsView BY ViewResult
<1> QED BY <1>1, <1>2, <1>3, PTL DEF Spec

=============================================================================
