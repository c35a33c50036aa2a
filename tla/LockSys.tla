------------------------------ MODULE LockSys ------------------------------
(***************************************************************************)
(* The lock system of InnoDB, innobase/lock/lock0lock.c: record locks on   *)
(* the leaf pages of one clustered index, the lock on its table, implicit  *)
(* locks, deadlock search, and what inserts, purge, rollback, page splits  *)
(* and page merges do to the locks.                                        *)
(*                                                                         *)
(* All of it runs inside kernel_mutex, and an operation on a record keeps  *)
(* its page latched until the record is locked or changed, so an operation *)
(* is one step.  The exception is the deadlock search, which may cancel    *)
(* several waits one after the other: its rounds are steps, and "kernel"   *)
(* names the transaction that holds kernel_mutex meanwhile.                *)
(*                                                                         *)
(* A lock_t carries a bitmap of the records it locks; here each record has *)
(* a queue of its own requests.  Sharing a lock_t never moves a request    *)
(* over a waiting one, and the order among granted ones has no effect.     *)
(***************************************************************************)
EXTENDS Integers, Sequences, FiniteSets, SequencesExt, Lists

CONSTANTS
    Key,        \* keys a record may have
    InitRecs,   \* committed records at the start
    InitMarked, \* those of them that are delete marked and wait for purge
    Trx,        \* transactions
    TableMode,  \* the table lock a transaction starts with: IS, IX, S or X
    Begun,      \* transactions that have that lock at the start
    Reads,      \* locking reads they may make: a set of <<trx, record, mode, kind>>
    Inserters, Modifiers, \* transactions that insert, update and delete
    AutoInc,    \* inserters that need the AUTO-INC lock
    TimesOut,   \* transactions whose lock wait may time out
    MaxSplits,  \* bound on page splits
    MaxOps,     \* bound on the operations of each transaction
    ReleaseInterval, \* LOCK_RELEASE_KERNEL_INTERVAL
    Sup,        \* supremum record of the page that ends the index
    SupL,       \* supremum record of the left page, when there are two pages
    Tab,        \* the table
    None

Rec      == Key \cup {Sup, SupL}
Resource == Rec \cup {Tab}
IsSup(r) == r \in {Sup, SupL}

Kind == {"ordinary", "gap", "rec", "insert", "table"}
Mode == {"IS", "IX", "S", "X", "AI"}

(* lock_t, for one record or table *)
Request == [trx : Trx, mode : Mode, kind : Kind, wait : BOOLEAN]

ASSUME LockSysAssumption ==
    /\ Key \subseteq Nat /\ Sup # SupL /\ Sup # Tab /\ SupL # Tab
    /\ {Sup, SupL, Tab, None} \cap Key = {}
    /\ InitMarked \subseteq InitRecs /\ InitRecs \subseteq Key
    /\ IsFiniteSet(Trx) /\ None \notin Trx
    /\ TableMode \in [Trx -> {"IS", "IX", "S", "X"}]
    /\ Begun \subseteq Trx
    /\ \A t, u \in Begun : t # u => {TableMode[t], TableMode[u]} \subseteq {"IS", "IX"}
    /\ Reads \subseteq Trx \X Rec \X {"S", "X"} \X {"ordinary", "gap", "rec"}
    /\ Inserters \subseteq Trx /\ Modifiers \subseteq Trx
    /\ AutoInc \subseteq Inserters /\ TimesOut \subseteq Trx
    /\ MaxSplits \in Nat /\ MaxOps \in [Trx -> Nat] /\ ReleaseInterval \in Nat \ {0}

VARIABLES
    recs,    \* user records in the index
    marked,  \* those that are delete marked
    writer,  \* the active transaction whose id a record carries, or None
    split,   \* first key of the right page, None when there is one page
    queue,   \* for each resource its lock requests, in order
    pc,      \* where each transaction is
    undo,    \* its undo log records; their number is trx->undo_no
    kernel,  \* who holds kernel_mutex in a deadlock search, or None
    ops,     \* operations started, for the bound
    splits,  \* page splits so far, for the bound
    seen     \* keys a transaction has locked by a read and may rely on

vars == <<recs, marked, writer, split, queue, pc, undo, kernel, ops, splits, seen>>
rows == <<recs, marked, writer, split, splits, undo>>

Active(t) == pc[t] \in {"run", "wait", "victim", "rollback"}

NewLock(t, mode, kind) == [trx |-> t, mode |-> mode, kind |-> kind, wait |-> FALSE]

Init ==
    /\ recs = InitRecs /\ marked = InitMarked
    /\ writer = [k \in Key |-> None]
    /\ split = None
    /\ queue = [r \in Resource |-> IF r # Tab THEN << >>
                  ELSE SetToSeq({NewLock(t, TableMode[t], "table") : t \in Begun})]
    /\ pc = [t \in Trx |-> "run"]
    /\ undo = [t \in Trx |-> << >>]
    /\ kernel = None
    /\ ops = [t \in Trx |-> 0] /\ splits = 0
    /\ seen = [t \in Trx |-> {}]

-----------------------------------------------------------------------------
(* The leaf pages *)

OnLeft(k)  == split # None /\ k < split
SamePage(j, k) == OnLeft(j) = OnLeft(k)

(* page_rec_get_next of the place where k is, or would be *)
NextRec(k) ==
    LET after == {j \in recs : j > k /\ SamePage(j, k)}
    IN IF after # {} THEN CHOOSE j \in after : \A i \in after : j <= i
       ELSE IF OnLeft(k) THEN SupL ELSE Sup

(* the keys that the gap before a record or supremum has room for *)
GapBefore(r) == {k \in Key \ recs : NextRec(k) = r}

Alone(k) == split # None /\ \A j \in recs : SamePage(j, k) => j = k

-----------------------------------------------------------------------------
(* Modes and conflicts *)

lock_mode_stronger_or_eq(m1, m2) ==
    \/ m1 = "X" \/ m1 = m2
    \/ m1 \in {"S", "IX"} /\ m2 = "IS"

lock_mode_compatible(m1, m2) ==
    {m1, m2} \in {{"S"}, {"S", "IS"}, {"IS"}, {"IX"}, {"IS", "IX"},
                  {"AI", "IS"}, {"AI", "IX"}}

(* lock_has_to_wait, lock_rec_has_to_wait: q waits for p on resource r *)
lock_has_to_wait(q, p, r) ==
    /\ q.trx # p.trx /\ ~lock_mode_compatible(q.mode, p.mode)
    /\ \/ r = Tab
       \/ /\ p.kind # "insert"
          /\ IF q.kind = "insert" THEN p.kind # "rec"
             ELSE q.kind # "gap" /\ ~IsSup(r) /\ p.kind # "gap"

(* mutant: a lock of any mode will do *)
lock_rec_has_any(Q, t, r, mode, kind) ==
    \E p \in ToSet(Q[r]) :
        /\ p.trx = t /\ ~p.wait /\ p.kind # "insert"
        /\ p.kind = "ordinary" \/ p.kind = kind \/ IsSup(r)

(* a granted explicit lock of t at least as strong *)
lock_rec_has_expl(Q, t, r, mode, kind) ==
    \E p \in ToSet(Q[r]) :
        /\ p.trx = t /\ ~p.wait /\ p.kind # "insert"
        /\ lock_mode_stronger_or_eq(p.mode, mode)
        /\ p.kind = "ordinary" \/ p.kind = kind \/ IsSup(r)

lock_table_has(t, mode) ==
    \E p \in ToSet(queue[Tab]) : p.trx = t /\ lock_mode_stronger_or_eq(p.mode, mode)

Conflicting(Q, q, r) == \E p \in ToSet(Q[r]) : lock_has_to_wait(q, p, r)

(* all locks on a supremum are of the gap type: their flags are reset *)
OnRec(q, r) == IF IsSup(r) /\ q.kind # "insert" THEN [q EXCEPT !.kind = "ordinary"] ELSE q

(* lock_rec_add_to_queue of a granted lock: the bit of a similar lock is   *)
(* used when nobody waits on the record                                    *)
lock_rec_add_to_queue(Q, r, q) ==
    LET p == OnRec(q, r)
    IN IF p \in ToSet(Q[r]) /\ \A o \in ToSet(Q[r]) : ~o.wait THEN Q
       ELSE [Q EXCEPT ![r] = Append(@, p)]

(* mutant: only the request at the head of a queue is granted *)
GrantsHead(Q) ==
    [r \in Resource |-> [i \in DOMAIN Q[r] |->
        IF i = 1 THEN [Q[r][i] EXCEPT !.wait = FALSE] ELSE Q[r][i]]]

(* the loops of lock_rec_dequeue_from_page and lock_table_dequeue: grant   *)
(* what has no conflicting request ahead                                   *)
Grants(Q) ==
    [r \in Resource |-> [i \in DOMAIN Q[r] |->
        IF /\ Q[r][i].wait
           /\ \A j \in 1 .. i - 1 : ~lock_has_to_wait(Q[r][i], Q[r][j], r)
          THEN [Q[r][i] EXCEPT !.wait = FALSE] ELSE Q[r][i]]]

IsWaiting(Q, t) == \E r \in Resource : \E q \in ToSet(Q[r]) : q.trx = t /\ q.wait

(* lock_grant, lock_rec_cancel: whose wait is over runs again *)
Queues(Q, p) ==
    /\ queue' = Q
    /\ pc' = [t \in Trx |-> IF p[t] = "wait" /\ ~IsWaiting(queue', t) THEN "run" ELSE p[t]]

(* lock_cancel_waiting_and_release *)
CancelWait(Q, t) ==
    Grants([r \in Resource |-> Without(Q[r], {q \in Request : q.trx = t /\ q.wait})])

-----------------------------------------------------------------------------
(* What happens to the locks when records come and go *)

(* the requests in S become granted gap locks of the heir, in r's order *)
InheritIf(Q, heir, r, S) ==
    LET after[i \in 0 .. Len(Q[r])] ==
          IF i = 0 THEN Q
          ELSE IF Q[r][i].kind # "insert" /\ Q[r][i] \in S
            THEN lock_rec_add_to_queue(after[i - 1], heir, NewLock(Q[r][i].trx, Q[r][i].mode, "gap"))
            ELSE after[i - 1]
    IN after[Len(Q[r])]

(* all requests, also the waiting ones *)
lock_rec_inherit_to_gap(Q, heir, r) == InheritIf(Q, heir, r, ToSet(Q[r]))

(* mutant: an inserted record splits a locked gap and takes no lock along *)
InheritNothing(Q, heir, r) == Q

lock_rec_inherit_to_gap_if_gap_lock(Q, heir, r) ==
    InheritIf(Q, heir, r, {q \in ToSet(Q[r]) : IsSup(r) \/ q.kind # "rec"})

(* the waiting ones are cancelled, nobody is left to be granted *)
lock_rec_reset_and_release_wait(Q, r) == [Q EXCEPT ![r] = << >>]

lock_update_insert(Q, k) == lock_rec_inherit_to_gap_if_gap_lock(Q, k, NextRec(k))

lock_update_delete(Q, k) ==
    lock_rec_reset_and_release_wait(lock_rec_inherit_to_gap(Q, NextRec(k), k), k)

(* lock_update_discard: k is the last record of its page, the page goes.   *)
(* A page with a left neighbour leaves its locks to that one's supremum,   *)
(* which now ends the index; the first page leaves them to the next record.*)
lock_update_discard(Q, k) ==
    LET L == OnLeft(k)
        sup  == IF L THEN SupL ELSE Sup
        heir == IF L THEN CHOOSE j \in recs : j >= split /\ \A i \in recs : i >= split => j <= i
                ELSE SupL
        H == lock_rec_inherit_to_gap(lock_rec_inherit_to_gap(Q, heir, k), heir, sup)
        R == lock_rec_reset_and_release_wait(lock_rec_reset_and_release_wait(H, k), sup)
    IN IF L THEN R ELSE [R EXCEPT ![Sup] = R[SupL], ![SupL] = << >>]

(* btr_cur_optimistic_delete and btr_cur_pessimistic_delete: record k goes *)
DeleteRecord(k) ==
    /\ recs' = recs \ {k}
    /\ marked' = marked \ {k}
    /\ writer' = [writer EXCEPT ![k] = None]
    /\ split' = IF Alone(k) THEN None ELSE split
    /\ Queues(IF Alone(k) THEN lock_update_discard(queue, k) ELSE lock_update_delete(queue, k), pc)

-----------------------------------------------------------------------------
(* Lock requests *)

Running(t) == pc[t] = "run" /\ kernel = None
MayStart(t) == Running(t) /\ ops[t] < MaxOps[t]
Count(t) == ops' = [ops EXCEPT ![t] = @ + 1]

(* lock_rec_enqueue_waiting, lock_table_enqueue_waiting, up to the search *)
EnqueueWaiting(Q, t, r, q) ==
    /\ queue' = [Q EXCEPT ![r] = Append(@, OnRec([q EXCEPT !.wait = TRUE], r))]
    /\ kernel' = t
    /\ Count(t)
    /\ UNCHANGED <<rows, pc, seen>>

(* mutant: an implicit lock is not made explicit for those who come later *)
ConvertNothing(Q, r) == Q

(* lock_rec_convert_impl_to_expl *)
lock_rec_convert_impl_to_expl(Q, r) ==
    IF IsSup(r) \/ writer[r] = None \/ lock_rec_has_expl(Q, writer[r], r, "X", "rec") THEN Q
    ELSE lock_rec_add_to_queue(Q, r, NewLock(writer[r], "X", "rec"))

(* lock_table_other_has_incompatible *)
TableFree(t, mode) ==
    ~Conflicting(queue, NewLock(t, mode, "table"), Tab)

(* lock_table, for the table lock a statement begins with *)
LockTable(t, mode) ==
    /\ Running(t) /\ ~lock_table_has(t, mode)
    /\ mode = TableMode[t] \/ (mode = "AI" /\ t \in AutoInc /\ lock_table_has(t, TableMode[t]))
    /\ IF TableFree(t, mode)
         THEN /\ queue' = [queue EXCEPT ![Tab] = Append(@, NewLock(t, mode, "table"))]
              /\ UNCHANGED <<rows, pc, kernel, ops, seen>>
         ELSE /\ ops[t] < MaxOps[t]
              /\ EnqueueWaiting(queue, t, Tab, NewLock(t, mode, "table"))

(* lock_table_unlock_auto_inc, at the end of the statement *)
UnlockAutoInc(t) ==
    /\ Running(t) /\ \E q \in ToSet(queue[Tab]) : q.trx = t /\ q.mode = "AI"
    /\ Queues(Grants([queue EXCEPT ![Tab] =
                        Without(@, {q \in Request : q.trx = t /\ q.mode = "AI"})]), pc)
    /\ UNCHANGED <<rows, kernel, ops, seen>>

(* lock_clust_rec_read_check_and_lock: a locking read passes record r *)
ReadRecord(t, r, mode, kind) ==
    /\ MayStart(t) /\ lock_table_has(t, IF mode = "X" THEN "IX" ELSE "IS")
    /\ r \in recs \cup {Sup} \cup (IF split # None THEN {SupL} ELSE {})
    /\ IsSup(r) => kind = "ordinary"
    /\ LET Q == lock_rec_convert_impl_to_expl(queue, r)
           q == NewLock(t, mode, kind)
           has == lock_rec_has_expl(Q, t, r, mode, kind)
       IN IF ~has /\ Conflicting(Q, q, r)
            THEN EnqueueWaiting(Q, t, r, q)
            ELSE /\ queue' = IF has THEN Q ELSE lock_rec_add_to_queue(Q, r, q)
                 /\ seen' = [seen EXCEPT ![t] = @
                      \cup (IF kind = "rec" THEN {} ELSE GapBefore(r))
                      \cup (IF kind = "gap" \/ IsSup(r) THEN {} ELSE {r})]
                 /\ Count(t)
                 /\ UNCHANGED <<rows, pc, kernel>>

(* lock_rec_insert_check_and_lock and the insert: the gap must be free *)
InsertRecord(t, k) ==
    /\ t \in Inserters /\ MayStart(t) /\ k \in Key \ recs
    /\ lock_table_has(t, "IX") /\ t \in AutoInc => lock_table_has(t, "AI")
    /\ LET q == NewLock(t, "X", "insert") IN
       IF Conflicting(queue, q, NextRec(k))
         THEN EnqueueWaiting(queue, t, NextRec(k), q)
         ELSE /\ queue' = lock_update_insert(queue, k)
              /\ recs' = recs \cup {k}
              /\ writer' = [writer EXCEPT ![k] = t]
              /\ undo' = [undo EXCEPT ![t] = Append(@, [rec |-> k, new |-> TRUE, mark |-> FALSE])]
              /\ Count(t)
              /\ UNCHANGED <<marked, split, splits, pc, kernel, seen>>

(* lock_clust_rec_modify_check_and_lock and the change: delete mark, update *)
(* or, for an insert over a delete marked record, unmark.  It follows a     *)
(* locking read of the record; no explicit lock is left behind.             *)
ModifyRecord(t, k, mark) ==
    /\ t \in Modifiers /\ MayStart(t) /\ k \in recs
    /\ k \in marked => ~mark
    /\ lock_table_has(t, "IX")
    /\ lock_rec_has_expl(queue, t, k, "S", "rec") \/ writer[k] = t
    /\ LET Q == lock_rec_convert_impl_to_expl(queue, k)
           q == NewLock(t, "X", "rec")
       IN IF ~lock_rec_has_expl(Q, t, k, "X", "rec") /\ Conflicting(Q, q, k)
            THEN EnqueueWaiting(Q, t, k, q)
            ELSE /\ queue' = Q
                 /\ marked' = IF mark THEN marked \cup {k} ELSE marked \ {k}
                 /\ writer' = [writer EXCEPT ![k] = t]
                 /\ undo' = [undo EXCEPT ![t] =
                       Append(@, [rec |-> k, new |-> FALSE, mark |-> k \in marked])]
                 /\ Count(t)
                 /\ UNCHANGED <<recs, split, splits, pc, kernel, seen>>

-----------------------------------------------------------------------------
(* The deadlock search: lock_deadlock_occurs, lock_deadlock_recursive *)

(* whom t's waiting request waits for: conflicting requests ahead of it *)
WaitsFor(t) ==
    {u \in Trx : \E r \in Resource : \E i \in DOMAIN queue[r] :
        /\ queue[r][i].trx = t /\ queue[r][i].wait
        /\ \E j \in 1 .. i - 1 :
             queue[r][j].trx = u /\ lock_has_to_wait(queue[r][i], queue[r][j], r)}

(* the search goes on from those that wait themselves *)
Reached(t) ==
    LET R[n \in 0 .. Cardinality(Trx)] ==
          IF n = 0 THEN WaitsFor(t)
          ELSE LET S == R[n - 1] IN S \cup UNION {WaitsFor(u) : u \in {v \in S : pc[v] = "wait"}}
    IN R[Cardinality(Trx)]

(* mutant: the search does not go on from the transactions it finds waiting *)
ClosingDirectly(t) == {w \in WaitsFor(t) : pc[w] = "wait" /\ t \in WaitsFor(w)}

(* those found waiting for the transaction where the search began *)
Closing(t) == {w \in Reached(t) : pc[w] = "wait" /\ t \in WaitsFor(w)}

(* no cycle, or no more: wait, unless the lock was granted meanwhile *)
SearchEnds(t) ==
    /\ kernel = t /\ Closing(t) = {}
    /\ pc' = [pc EXCEPT ![t] = IF IsWaiting(queue, t) THEN "wait" ELSE "run"]
    /\ kernel' = None
    /\ UNCHANGED <<rows, queue, ops, seen>>

(* LOCK_VICTIM_IS_START: the other one has done as much; our request goes  *)
VictimIsStart(t) ==
    /\ kernel = t
    /\ \E w \in Closing(t) : Len(undo[w]) >= Len(undo[t])
    /\ queue' = [r \in Resource |-> Without(queue[r], {q \in Request : q.trx = t /\ q.wait})]
    /\ pc' = [pc EXCEPT ![t] = "victim"]
    /\ kernel' = None
    /\ UNCHANGED <<rows, ops, seen>>

(* mutant: the search is not repeated after another victim was found *)
VictimIsOtherOnce(t) ==
    /\ kernel = t
    /\ \E w \in Closing(t) :
         /\ Len(undo[w]) < Len(undo[t])
         /\ Queues(CancelWait(queue, w), [pc EXCEPT ![w] = "victim", ![t] = "wait"])
    /\ kernel' = None
    /\ UNCHANGED <<rows, ops, seen>>

(* LOCK_VICTIM_IS_OTHER: cancel its wait and search again *)
VictimIsOther(t) ==
    /\ kernel = t
    /\ \E w \in Closing(t) :
         /\ Len(undo[w]) < Len(undo[t])
         /\ Queues(CancelWait(queue, w), [pc EXCEPT ![w] = "victim"])
    /\ UNCHANGED <<rows, kernel, ops, seen>>

(* srv_lock_timeout_and_monitor_thread; only the statement is rolled back *)
WaitTimesOut(t) ==
    /\ t \in TimesOut /\ pc[t] = "wait" /\ kernel = None
    /\ Queues(CancelWait(queue, t), pc)
    /\ UNCHANGED <<rows, kernel, ops, seen>>

-----------------------------------------------------------------------------
(* The end of a transaction *)

(* trx_commit_off_kernel: no longer active, its implicit locks are gone *)
EndsActive(t) ==
    /\ pc' = [pc EXCEPT ![t] = "release"]
    /\ writer' = [k \in Key |-> IF writer[k] = t THEN None ELSE writer[k]]
    /\ seen' = [seen EXCEPT ![t] = {}]

Commit(t) ==
    /\ Running(t)
    /\ EndsActive(t)
    /\ undo' = [undo EXCEPT ![t] = << >>]
    /\ UNCHANGED <<recs, marked, split, splits, queue, kernel, ops>>

(* ROLLBACK, or the error of a deadlock victim *)
Rollback(t) ==
    /\ Running(t) \/ (pc[t] = "victim" /\ kernel = None)
    /\ pc' = [pc EXCEPT ![t] = "rollback"]
    /\ seen' = [seen EXCEPT ![t] = {}]
    /\ UNCHANGED <<rows, queue, kernel, ops>>

(* row_undo_ins, row_undo_mod: one change is taken back, without locks *)
UndoChange(t) ==
    /\ pc[t] = "rollback" /\ kernel = None /\ undo[t] # << >>
    /\ LET u == Last(undo[t])
           rest == Front(undo[t])
       IN /\ undo' = [undo EXCEPT ![t] = rest]
          /\ IF u.new THEN DeleteRecord(u.rec)
             ELSE /\ marked' = IF u.mark THEN marked \cup {u.rec} ELSE marked \ {u.rec}
                  /\ writer' = [writer EXCEPT ![u.rec] =
                        IF \E v \in ToSet(rest) : v.rec = u.rec THEN t ELSE None]
                  /\ UNCHANGED <<recs, split, queue, pc>>
    /\ UNCHANGED <<kernel, ops, splits, seen>>

RollbackEnds(t) ==
    /\ pc[t] = "rollback" /\ kernel = None /\ undo[t] = << >>
    /\ EndsActive(t)
    /\ UNCHANGED <<recs, marked, split, splits, queue, undo, kernel, ops>>

OwnRequests(t) ==
    UNION {{<<r, i>> : i \in {n \in DOMAIN queue[r] : queue[r][n].trx = t}} : r \in Resource}

(* what is left of the list s when only the elements at the places I stay *)
Keep(s, I) ==
    LET places == Without([i \in DOMAIN s |-> i], DOMAIN s \ I)
    IN [n \in DOMAIN places |-> s[places[n]]]

(* lock_release_off_kernel: the mutex is let go after every                *)
(* LOCK_RELEASE_KERNEL_INTERVAL locks                                      *)
Release(t) ==
    /\ pc[t] = "release" /\ kernel = None
    /\ \E own \in {OwnRequests(t)} :
       \E S \in IF Cardinality(own) <= ReleaseInterval THEN {own} ELSE kSubset(ReleaseInterval, own) :
       \E Q \in {[r \in Resource |-> Keep(queue[r], {i \in DOMAIN queue[r] : <<r, i>> \notin S})]} :
         Queues(Grants(Q), IF S = own THEN [pc EXCEPT ![t] = "done"] ELSE pc)
    /\ UNCHANGED <<rows, kernel, ops, seen>>

-----------------------------------------------------------------------------
(* Purge and the B-tree *)

(* row_purge_remove_clust_if_poss: the delete mark is committed *)
Purge(k) ==
    /\ kernel = None /\ k \in marked /\ writer[k] = None
    /\ DeleteRecord(k)
    /\ UNCHANGED <<undo, kernel, ops, splits, seen>>

(* btr_page_split_and_insert, lock_update_split_right: record k becomes    *)
(* the first of a new right page, which takes the old supremum's locks     *)
SplitPage(k) ==
    /\ kernel = None /\ split = None /\ splits < MaxSplits
    /\ k \in recs /\ \E j \in recs : j < k
    /\ split' = k /\ splits' = splits + 1
    /\ queue' = lock_rec_inherit_to_gap(queue, SupL, k)
    /\ UNCHANGED <<recs, marked, writer, undo, pc, kernel, ops, seen>>

(* btr_compress, lock_update_merge_left or lock_update_merge_right: the    *)
(* supremum between the pages goes, its locks to the record behind it      *)
MergePages ==
    /\ kernel = None /\ split # None
    /\ LET right == {k \in recs : k >= split}
           k == CHOOSE j \in right : \A i \in right : j <= i
       IN /\ right # {}
          /\ Queues(lock_rec_reset_and_release_wait(lock_rec_inherit_to_gap(queue, k, SupL), SupL), pc)
    /\ split' = None
    /\ UNCHANGED <<recs, marked, writer, undo, kernel, ops, splits, seen>>

-----------------------------------------------------------------------------
Continue(t) ==
    \/ SearchEnds(t) \/ VictimIsStart(t) \/ VictimIsOther(t)
    \/ UndoChange(t) \/ RollbackEnds(t) \/ Release(t)
    \/ (pc[t] = "victim" /\ Rollback(t))

Next ==
    \/ \E t \in Trx :
         \/ Continue(t)
         \/ \E m \in {TableMode[t], "AI"} : LockTable(t, m)
         \/ UnlockAutoInc(t)
         \/ \E p \in Reads : p[1] = t /\ ReadRecord(t, p[2], p[3], p[4])
         \/ \E k \in Key : InsertRecord(t, k) \/ \E b \in BOOLEAN : ModifyRecord(t, k, b)
         \/ WaitTimesOut(t)
         \/ Commit(t) \/ Rollback(t)
    \/ \E k \in Key : Purge(k) \/ SplitPage(k)
    \/ MergePages

Spec == Init /\ [][Next]_vars

(* A thread inside InnoDB keeps running, and a client whose transaction is *)
(* not waiting ends it some day.                                           *)
FairSpec == Spec /\ \A t \in Trx : WF_vars(Continue(t)) /\ SF_vars(Commit(t))

-----------------------------------------------------------------------------
(* Properties *)

(* The types, and: lock requests are only on records that are in the index,*)
(* which lock_rec_validate_page demands of every bit.                      *)
TypeOK ==
    /\ recs \subseteq Key /\ marked \subseteq recs
    /\ writer \in [Key -> Trx \cup {None}]
    /\ split \in Key \cup {None}
    /\ queue \in [Resource -> Seq(Request)]
    /\ \A k \in Key \ recs : queue[k] = << >>
    /\ split = None => queue[SupL] = << >>
    /\ pc \in [Trx -> {"run", "wait", "victim", "rollback", "release", "done"}]
    /\ undo \in [Trx -> Seq([rec : Key, new : BOOLEAN, mark : BOOLEAN])]
    /\ kernel \in Trx \cup {None}
    /\ ops \in [Trx -> Nat] /\ \A t \in Trx : ops[t] <= MaxOps[t]
    /\ splits \in 0 .. MaxSplits /\ seen \in [Trx -> SUBSET Key]

(* RULE 3 of lock0lock.c, with the implicit locks: no two transactions     *)
(* have conflicting granted locks on a record itself or on the table, and  *)
(* nobody has one on a record that another active transaction has changed. *)
HoldersCompatible ==
    /\ \A r \in Key \cup {Tab} : \A p, q \in ToSet(queue[r]) :
         p.trx # q.trx /\ ~p.wait /\ ~q.wait /\ {p.kind, q.kind} \cap {"gap", "insert"} = {}
            => lock_mode_compatible(p.mode, q.mode)
    /\ \A k \in recs : writer[k] # None => \A q \in ToSet(queue[k]) :
         q.trx # writer[k] /\ ~q.wait => q.kind \in {"gap", "insert"}

(* RULE 1: who waits for a record's implicit lock finds it in the queue,   *)
(* so that a release can grant by looking at the queue alone.              *)
ImplicitIsExplicit ==
    \A k \in recs : \A q \in ToSet(queue[k]) :
        writer[k] # None /\ q.trx # writer[k] /\ q.kind \notin {"gap", "insert"}
            => lock_rec_has_expl(queue, writer[k], k, "X", "rec")

(* lock_rec_queue_validate, lock_table_queue_validate: whoever waits has a *)
(* conflicting request ahead, whatever records were purged, pages merged   *)
(* or waits cancelled; and a transaction sleeps exactly when it waits.     *)
(* With the types and what TypeOK says of requests on absent records.      *)
NoForgottenWaiters ==
    /\ TypeOK
    /\ \A r \in Resource : \A i \in DOMAIN queue[r] : queue[r][i].wait =>
         \E j \in 1 .. i - 1 : lock_has_to_wait(queue[r][i], queue[r][j], r)
    /\ \A t \in Trx : kernel # t => (IsWaiting(queue, t) <=> pc[t] = "wait")

(* RULE 4's purpose: the waits-for graph never becomes cyclic unnoticed,   *)
(* although it is searched only when a transaction asks for a lock.        *)
NoUnseenDeadlock == kernel = None => \A t \in Trx : t \notin Reached(t)

(* FACT B: what a transaction has read under locks stays as it was, with   *)
(* no phantoms: no other transaction inserts, changes or takes back a      *)
(* record there before it ends, over purges, splits and merges.            *)
RepeatableReads ==
    [][\A t \in Trx : \A k \in seen[t] :
         \/ undo'[t] # undo[t] \/ pc'[t] \in {"rollback", "release"}
         \/ /\ (k \in recs' \ marked') = (k \in recs \ marked)
            /\ writer'[k] \in {writer[k], None}]_vars

(* Every lock wait ends, by a grant, a deadlock or a timeout, when clients *)
(* end their transactions: no unbroken cycle, no starvation.               *)
WaitEnds == \A t \in Trx : pc[t] = "wait" ~> pc[t] # "wait"
=============================================================================
