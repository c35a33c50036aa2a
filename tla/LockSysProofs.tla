--------------------------- MODULE LockSysProofs ---------------------------
(***************************************************************************)
(* Proofs about InnoDB's lock system, LockSys, for any records, any number *)
(* of transactions and any operations of theirs.                           *)
(*                                                                         *)
(* LockInv is the inductive invariant.  Its heart is what it says of one   *)
(* queue: Ordered (a granted lock is compatible with every request ahead,  *)
(* also with one that waits) and Held (a waiting one has a conflicting     *)
(* request ahead).  From it follow the types, RULE 1 and RULE 3 of         *)
(* lock0lock.c and the assertions of lock_rec_queue_validate.              *)
(*                                                                         *)
(* ReadInv, on top of it, says that whatever a transaction has read under  *)
(* locks is locked by it: a record there by a lock on the record, a key    *)
(* that is not there by one on the gap it would be in, wherever inserts,   *)
(* purges, splits and merges have moved that gap.  FACT B follows.         *)
(*                                                                         *)
(* GraphInv says that the waits-for graph has no circle, except through    *)
(* the transaction whose request is being searched for one.  RULE 4's      *)
(* purpose follows: no other step adds to the graph.                       *)
(***************************************************************************)
EXTENDS LockSys, ListLemmas

-----------------------------------------------------------------------------
(* The inductive invariant *)

(* a request that is for the record itself, or the table, not for a gap *)
Real(q, r) == r = Tab \/ (r \in Key /\ q.kind \notin {"gap", "insert"})

(* what is granted is compatible with everything ahead, waiting or not *)
Ordered(s, r) ==
    \A i, j \in DOMAIN s :
        i < j /\ s[i].trx # s[j].trx /\ ~s[j].wait /\ Real(s[i], r) /\ Real(s[j], r)
            => lock_mode_compatible(s[i].mode, s[j].mode)

(* what waits has something to wait for ahead *)
Held(s, r) ==
    \A i \in DOMAIN s : s[i].wait => \E j \in 1 .. i - 1 : lock_has_to_wait(s[i], s[j], r)

(* the records, who changed them last and how that is undone *)
RowsOK ==
    /\ recs \subseteq Key /\ marked \subseteq recs
    /\ writer \in [Key -> Trx \cup {None}] /\ split \in Key \cup {None}
    /\ undo \in [Trx -> Seq([rec : Key, new : BOOLEAN, mark : BOOLEAN])]
    /\ splits \in 0 .. MaxSplits
    /\ split # None => (\E j \in recs : j < split) /\ (\E j \in recs : j >= split)
    /\ \A k \in Key \ recs : writer[k] = None
    /\ \A t \in Trx : \A i \in DOMAIN undo[t] : writer[undo[t][i].rec] = t
    /\ \A t \in Trx : \A i, j \in DOMAIN undo[t] :
         i < j /\ undo[t][j].new => undo[t][i].rec # undo[t][j].rec

(* the transactions; one that has committed has changed nothing any more *)
TrxOK ==
    /\ pc \in [Trx -> {"run", "wait", "victim", "rollback", "release", "done"}]
    /\ kernel \in Trx \cup {None}
    /\ ops \in [Trx -> Nat] /\ \A t \in Trx : ops[t] <= MaxOps[t]
    /\ seen \in [Trx -> SUBSET Key]
    /\ \A k \in Key : writer[k] # None => pc[writer[k]] \notin {"release", "done"}

(* queues in order, for the records R and the first key sp of the right page *)
Sound(Q, R, sp) ==
    /\ Q \in [Resource -> Seq(Request)]
    /\ \A k \in Key \ R : Q[k] = << >>
    /\ sp = None => Q[SupL] = << >>
    /\ \A r \in Resource : Ordered(Q[r], r) /\ Held(Q[r], r)

QueuesOK == Sound(queue, recs, split)

(* who sleeps; a transaction that searches for deadlocks has joined a      *)
(* queue as the last one                                                   *)
SleepOK ==
    /\ \A t \in Trx : kernel # t => (IsWaiting(queue, t) <=> pc[t] = "wait")
    /\ kernel # None =>
         /\ pc[kernel] = "run"
         /\ \A r \in Resource : \A i \in DOMAIN queue[r] :
              queue[r][i].trx = kernel /\ queue[r][i].wait => i = Len(queue[r])

LockInv == RowsOK /\ TrxOK /\ QueuesOK /\ ImplicitIsExplicit /\ SleepOK

-----------------------------------------------------------------------------
(* Constants and modes *)

(* what the assumption says, in the form the proofs use *)
LEMMA Constants ==
    /\ Tab \notin Rec /\ Sup \notin Key /\ SupL \notin Key /\ Sup # SupL /\ None \notin Key
    /\ None \notin Trx /\ Key \subseteq Nat /\ Key \subseteq Resource
    /\ Sup \in Resource /\ SupL \in Resource /\ Tab \in Resource /\ Tab \notin Key
    /\ \A k \in Key : ~IsSup(k)
    /\ ~IsSup(Tab) /\ IsSup(Sup) /\ IsSup(SupL)
BY LockSysAssumption DEF Rec, Resource, IsSup

(* an exclusive lock is compatible with nothing; compatibility goes both ways *)
LEMMA Modes ==
    /\ \A m : ~lock_mode_compatible("X", m) /\ ~lock_mode_compatible(m, "X")
    /\ \A a, b : lock_mode_compatible(a, b) <=> lock_mode_compatible(b, a)
<1>1. ASSUME NEW m PROVE ~lock_mode_compatible("X", m) /\ ~lock_mode_compatible(m, "X")
  BY DEF lock_mode_compatible
<1>2. ASSUME NEW a, NEW b PROVE lock_mode_compatible(a, b) <=> lock_mode_compatible(b, a)
  <2>1. {a, b} = {b, a} OBVIOUS
  <2> QED BY <2>1 DEF lock_mode_compatible
<1> QED BY <1>1, <1>2

(* a real request waits for every real one of another transaction that is  *)
(* not compatible with it                                                  *)
LEMMA RealConflict ==
    ASSUME NEW r, NEW p, NEW q, Real(p, r), Real(q, r), p.trx # q.trx,
           ~lock_has_to_wait(q, p, r)
    PROVE  lock_mode_compatible(p.mode, q.mode)
<1>1. CASE r = Tab BY <1>1, Modes DEF lock_has_to_wait
<1>2. CASE r # Tab
  <2>1. r \in Key /\ ~IsSup(r) /\ p.kind \notin {"gap", "insert"} /\ q.kind \notin {"gap", "insert"}
    BY <1>2, Constants DEF Real
  <2> QED BY <2>1, Modes DEF lock_has_to_wait
<1> QED BY <1>1, <1>2

(* only modes and kinds matter *)
LEMMA SameConflict ==
    ASSUME NEW r, NEW p, NEW q, NEW p2, NEW q2,
           p.trx = p2.trx, p.mode = p2.mode, p.kind = p2.kind,
           q.trx = q2.trx, q.mode = q2.mode, q.kind = q2.kind
    PROVE  lock_has_to_wait(q, p, r) <=> lock_has_to_wait(q2, p2, r)
BY DEF lock_has_to_wait

(* a request is its fields *)
LEMMA NewLockFacts ==
    ASSUME NEW t \in Trx, NEW m \in Mode, NEW c \in Kind
    PROVE  \E q \in Request : /\ q = NewLock(t, m, c) /\ q.trx = t /\ q.mode = m /\ q.kind = c
                              /\ ~q.wait
<1>1. PICK q : q = NewLock(t, m, c) OBVIOUS
<1>2. q \in Request /\ q.trx = t /\ q.mode = m /\ q.kind = c /\ ~q.wait BY <1>1 DEF NewLock, Request
<1> QED BY <1>1, <1>2

(* all of a supremum's locks are ordinary ones *)
LEMMA OnRecFacts ==
    ASSUME NEW q \in Request, NEW r
    PROVE  /\ OnRec(q, r) \in Request
           /\ OnRec(q, r).trx = q.trx /\ OnRec(q, r).mode = q.mode /\ OnRec(q, r).wait = q.wait
           /\ ~IsSup(r) \/ q.kind \in {"insert", "ordinary"} => OnRec(q, r) = q
           /\ IsSup(r) /\ q.kind # "insert" => OnRec(q, r).kind = "ordinary"
<1>1. /\ [q EXCEPT !.kind = "ordinary"] \in Request
      /\ [q EXCEPT !.kind = "ordinary"].trx = q.trx /\ [q EXCEPT !.kind = "ordinary"].mode = q.mode
      /\ [q EXCEPT !.kind = "ordinary"].wait = q.wait /\ [q EXCEPT !.kind = "ordinary"].kind = "ordinary"
  BY DEF Request, Kind
<1>2. q.kind = "ordinary" => [q EXCEPT !.kind = "ordinary"] = q BY DEF Request
<1> QED BY <1>1, <1>2 DEF OnRec

-----------------------------------------------------------------------------
(* One queue *)

(* a sequence of requests in order *)
Fine(s, r) == s \in Seq(Request) /\ Ordered(s, r) /\ Held(s, r)

(* the request q may join the queue s at its end *)
Joins(q, s, r) ==
    /\ q \in Request
    /\ q.wait => \E p \in ToSet(s) : lock_has_to_wait(q, p, r)
    /\ ~q.wait => \A p \in ToSet(s) :
         p.trx # q.trx /\ Real(p, r) /\ Real(q, r) => lock_mode_compatible(p.mode, q.mode)

(* what Append does, in the form the provers use *)
LEMMA AppendIs ==
    ASSUME NEW S, NEW s \in Seq(S), NEW q \in S
    PROVE  /\ Append(s, q) \in Seq(S) /\ Len(Append(s, q)) = Len(s) + 1 /\ Len(s) \in Nat
           /\ DOMAIN Append(s, q) = 1 .. Len(s) + 1 /\ DOMAIN s = 1 .. Len(s)
           /\ \A i \in 1 .. Len(s) : Append(s, q)[i] = s[i] /\ s[i] \in S
           /\ Append(s, q)[Len(s) + 1] = q
OBVIOUS

(* a queue stays in order when a request joins it that waits for a reason, *)
(* or is granted for one                                                   *)
LEMMA JoinFine ==
    ASSUME NEW s, NEW r, Fine(s, r), NEW q, Joins(q, s, r)
    PROVE  Fine(Append(s, q), r)
<1>0. s \in Seq(Request) /\ q \in Request BY DEF Fine, Joins
<1>1. PICK w : w = Append(s, q) OBVIOUS
<1>2. PICK n \in Nat : n = Len(s) BY <1>0
<1>3. /\ w \in Seq(Request) /\ DOMAIN w = 1 .. n + 1 /\ DOMAIN s = 1 .. n
      /\ \A i \in 1 .. n : w[i] = s[i] /\ s[i] \in Request
      /\ w[n + 1] = q
  BY <1>0, <1>1, <1>2, AppendIs
<1>4. Ordered(w, r)
  <2> SUFFICES ASSUME NEW i \in 1 .. n + 1, NEW j \in 1 .. n + 1,
                      i < j, w[i].trx # w[j].trx, ~w[j].wait, Real(w[i], r), Real(w[j], r)
               PROVE  lock_mode_compatible(w[i].mode, w[j].mode)
    BY <1>3 DEF Ordered
  <2>1. i \in 1 .. n BY <1>2
  <2>2. CASE j \in 1 .. n BY <2>1, <2>2, <1>3 DEF Fine, Ordered
  <2>3. CASE j = n + 1
    <3>1. w[i] \in ToSet(s) BY <2>1, <1>3 DEF ToSet
    <3>2. w[j] = q BY <2>3, <1>3
    <3> QED BY <3>1, <3>2 DEF Joins
  <2> QED BY <2>2, <2>3, <1>2
<1>5. Held(w, r)
  <2> SUFFICES ASSUME NEW i \in 1 .. n + 1, w[i].wait
               PROVE  \E j \in 1 .. i - 1 : lock_has_to_wait(w[i], w[j], r)
    BY <1>3 DEF Held
  <2>1. CASE i \in 1 .. n
    <3>1. PICK j \in 1 .. i - 1 : lock_has_to_wait(s[i], s[j], r)
      BY <2>1, <1>3 DEF Fine, Held
    <3>2. j \in 1 .. n BY <1>2, <2>1
    <3> QED BY <3>1, <3>2, <2>1, <1>3
  <2>2. CASE i = n + 1
    <3>1. PICK p \in ToSet(s) : lock_has_to_wait(q, p, r) BY <2>2, <1>3 DEF Joins
    <3>2. PICK j \in 1 .. n : s[j] = p BY <1>3 DEF ToSet
    <3>3. j \in 1 .. i - 1 BY <2>2, <1>2
    <3> QED BY <3>1, <3>2, <3>3, <2>2, <1>3
  <2> QED BY <2>1, <2>2, <1>2
<1> QED BY <1>1, <1>3, <1>4, <1>5 DEF Fine

(* w is what is left of s when some requests go *)
Part(w, s) ==
    /\ w \in Seq(Request) /\ ToSet(w) \subseteq ToSet(s)
    /\ \A a, b \in DOMAIN w : a < b =>
         \E i, j \in DOMAIN s : i < j /\ w[a] = s[i] /\ w[b] = s[j]

(* a queue stays ordered when requests leave it *)
LEMMA PartOrdered ==
    ASSUME NEW s, NEW w, NEW r, Ordered(s, r), Part(w, s)
    PROVE  Ordered(w, r)
BY DEF Ordered, Part

(* Without leaves a part of a queue *)
LEMMA WithoutPart ==
    ASSUME NEW s \in Seq(Request), NEW D
    PROVE  Part(Without(s, D), s) /\ ToSet(Without(s, D)) = ToSet(s) \ D
BY WithoutFacts DEF Part

(* Keep leaves a part of a queue, the requests at the given places *)
LEMMA KeepPart ==
    ASSUME NEW s \in Seq(Request), NEW I, I \subseteq DOMAIN s
    PROVE  Part(Keep(s, I), s) /\ ToSet(Keep(s, I)) = {s[i] : i \in I}
<1>1. PICK all : all = [i \in DOMAIN s |-> i] OBVIOUS
<1>2. all \in Seq(Nat) /\ DOMAIN all = DOMAIN s /\ \A i \in DOMAIN s : all[i] = i /\ i \in Nat
  <2>1. DOMAIN s = 1 .. Len(s) /\ Len(s) \in Nat OBVIOUS
  <2> QED BY <2>1, <1>1
<1>3. ToSet(all) = DOMAIN s BY <1>2 DEF ToSet
<1>4. PICK z : z = Without(all, DOMAIN s \ I) OBVIOUS
<1>5. /\ z \in Seq(Nat) /\ ToSet(z) = I
      /\ \A a, b \in DOMAIN z : a < b => \E i, j \in DOMAIN all : i < j /\ z[a] = all[i] /\ z[b] = all[j]
  <2>1. PICK D : D = DOMAIN s \ I OBVIOUS
  <2>2. ToSet(all) \ D = I BY <2>1, <1>3
  <2>3. z = Without(all, D) BY <2>1, <1>4
  <2>4. PICK N : N = Nat /\ all \in Seq(N) BY <1>2
  <2>5. /\ z \in Seq(N) /\ ToSet(z) = I
        /\ \A a, b \in DOMAIN z : a < b => \E i, j \in DOMAIN all : i < j /\ z[a] = all[i] /\ z[b] = all[j]
    <3>1. all \in Seq(N) BY <2>4
    <3>2. z \in Seq(N) BY <2>3, <3>1, WithoutFacts
    <3>3. ToSet(z) = ToSet(all) \ D BY <2>3, <3>1, WithoutFacts
    <3>4. \A a, b \in DOMAIN z : a < b => \E i, j \in DOMAIN all : i < j /\ z[a] = all[i] /\ z[b] = all[j]
      BY <2>3, <3>1, WithoutFacts
    <3> QED BY <3>2, <3>3, <3>4, <2>2
  <2> QED BY <2>4, <2>5
<1>6. PICK w : w = [n \in DOMAIN z |-> s[z[n]]] OBVIOUS
<1>7. Keep(s, I) = w BY <1>1, <1>4, <1>6 DEF Keep
<1>8. \A n \in DOMAIN z : z[n] \in I BY <1>5 DEF ToSet
<1>9. DOMAIN z = 1 .. Len(z) /\ Len(z) \in Nat BY <1>5
<1>10. w \in Seq(Request)
  <2>1. \A n \in 1 .. Len(z) : s[z[n]] \in Request BY <1>8, <1>9
  <2> QED BY <2>1, <1>6, <1>9
<1>11. ToSet(w) = {s[i] : i \in I} BY <1>5, <1>6 DEF ToSet
<1>12. \A a, b \in DOMAIN w : a < b => \E i, j \in DOMAIN s : i < j /\ w[a] = s[i] /\ w[b] = s[j]
  BY <1>2, <1>5, <1>6, <1>8
<1>13. {s[i] : i \in I} \subseteq ToSet(s) BY DEF ToSet
<1> QED BY <1>7, <1>10, <1>11, <1>12, <1>13 DEF Part

(* what is last stays last *)
LEMMA PartLast ==
    ASSUME NEW s \in Seq(Request), NEW w, Part(w, s), NEW t,
           \A i \in DOMAIN s : s[i].trx = t /\ s[i].wait => i = Len(s)
    PROVE  \A i \in DOMAIN w : w[i].trx = t /\ w[i].wait => i = Len(w)
<1> SUFFICES ASSUME NEW i \in DOMAIN w, w[i].trx = t, w[i].wait, i # Len(w) PROVE FALSE OBVIOUS
<1>1. w \in Seq(Request) BY DEF Part
<1>2. i \in Nat /\ Len(w) \in Nat /\ i < Len(w) /\ Len(w) \in DOMAIN w BY <1>1
<1>3. PICK a, b \in DOMAIN s : a < b /\ w[i] = s[a] /\ w[Len(w)] = s[b] BY <1>2 DEF Part
<1>4. a = Len(s) BY <1>3
<1> QED BY <1>3, <1>4

-----------------------------------------------------------------------------
(* All queues *)

AllQueues == [Resource -> Seq(Request)]

(* g is the queue s after some waiting requests were granted *)
MoreGranted(g, s) ==
    /\ g \in Seq(Request) /\ DOMAIN g = DOMAIN s /\ Len(g) = Len(s)
    /\ \A i \in DOMAIN s : /\ g[i].trx = s[i].trx /\ g[i].mode = s[i].mode /\ g[i].kind = s[i].kind
                           /\ g[i].wait => s[i].wait

(* what Grants does to one queue *)
GrantsOne(s, r) ==
    [i \in DOMAIN s |->
        IF s[i].wait /\ \A j \in 1 .. i - 1 : ~lock_has_to_wait(s[i], s[j], r)
          THEN [s[i] EXCEPT !.wait = FALSE] ELSE s[i]]

(* one queue after the loop of lock_rec_dequeue_from_page: requests are    *)
(* granted, the order is kept, and whoever still waits has a conflicting   *)
(* request ahead                                                           *)
LEMMA GrantsOneFacts ==
    ASSUME NEW s \in Seq(Request), NEW r
    PROVE  /\ MoreGranted(GrantsOne(s, r), s) /\ Held(GrantsOne(s, r), r)
           /\ Ordered(s, r) => Ordered(GrantsOne(s, r), r)
<1>1. PICK g : g = GrantsOne(s, r) OBVIOUS
<1>2. PICK n \in Nat : n = Len(s) /\ DOMAIN s = 1 .. n OBVIOUS
<1>3. DOMAIN g = 1 .. n /\ \A i \in 1 .. n :
         g[i] = IF s[i].wait /\ \A j \in 1 .. i - 1 : ~lock_has_to_wait(s[i], s[j], r)
                  THEN [s[i] EXCEPT !.wait = FALSE] ELSE s[i]
  BY <1>1, <1>2 DEF GrantsOne
<1>4. ASSUME NEW i \in 1 .. n
      PROVE  /\ g[i] \in Request /\ s[i] \in Request
             /\ g[i].trx = s[i].trx /\ g[i].mode = s[i].mode /\ g[i].kind = s[i].kind
             /\ g[i].wait => s[i].wait /\ \E j \in 1 .. i - 1 : lock_has_to_wait(s[i], s[j], r)
             /\ ~g[i].wait /\ s[i].wait => \A j \in 1 .. i - 1 : ~lock_has_to_wait(s[i], s[j], r)
  <2>1. s[i] \in Request BY <1>2
  <2>2. CASE s[i].wait /\ \A j \in 1 .. i - 1 : ~lock_has_to_wait(s[i], s[j], r)
    <3>1. g[i] = [s[i] EXCEPT !.wait = FALSE] BY <1>3, <2>2
    <3>2. g[i] \in Request /\ g[i].trx = s[i].trx /\ g[i].mode = s[i].mode
          /\ g[i].kind = s[i].kind /\ g[i].wait = FALSE
      BY <3>1, <2>1 DEF Request
    <3> QED BY <3>2, <2>1, <2>2
  <2>3. CASE ~(s[i].wait /\ \A j \in 1 .. i - 1 : ~lock_has_to_wait(s[i], s[j], r))
    <3>1. g[i] = s[i] BY <1>3, <2>3
    <3> QED BY <3>1, <2>1, <2>3
  <2> QED BY <2>2, <2>3
<1>5. g \in Seq(Request) /\ Len(g) = n
  <2>1. g = [i \in 1 .. n |-> g[i]] BY <1>1, <1>2 DEF GrantsOne
  <2>2. \A i \in 1 .. n : g[i] \in Request BY <1>4
  <2> QED BY <2>1, <2>2
<1>6. MoreGranted(g, s) BY <1>2, <1>3, <1>4, <1>5 DEF MoreGranted
<1>7. Held(g, r)
  <2> SUFFICES ASSUME NEW i \in 1 .. n, g[i].wait
               PROVE  \E j \in 1 .. i - 1 : lock_has_to_wait(g[i], g[j], r)
    BY <1>3 DEF Held
  <2>1. PICK j \in 1 .. i - 1 : lock_has_to_wait(s[i], s[j], r) BY <1>4
  <2>2. j \in 1 .. n BY <1>2
  <2>3. lock_has_to_wait(g[i], g[j], r) BY <2>1, <2>2, <1>4, SameConflict
  <2> QED BY <2>3
<1>8. ASSUME Ordered(s, r) PROVE Ordered(g, r)
  <2> SUFFICES ASSUME NEW i \in 1 .. n, NEW j \in 1 .. n,
                      i < j, g[i].trx # g[j].trx, ~g[j].wait, Real(g[i], r), Real(g[j], r)
               PROVE  lock_mode_compatible(g[i].mode, g[j].mode)
    BY <1>3 DEF Ordered
  <2>1. /\ s[i].trx # s[j].trx /\ Real(s[i], r) /\ Real(s[j], r)
        /\ g[i].mode = s[i].mode /\ g[j].mode = s[j].mode
    BY <1>4 DEF Real
  <2>2. CASE ~s[j].wait BY <2>1, <2>2, <1>2, <1>8 DEF Ordered
  <2>3. CASE s[j].wait
    <3>1. i \in 1 .. j - 1 BY <1>2
    <3>2. ~lock_has_to_wait(s[j], s[i], r) BY <3>1, <2>3, <1>4
    <3> QED BY <3>2, <2>1, RealConflict
  <2> QED BY <2>2, <2>3
<1> QED BY <1>1, <1>6, <1>7, <1>8

(* a dequeue grants what it can: after it nobody waits for nothing *)
LEMMA GrantsFacts ==
    ASSUME NEW Q \in AllQueues
    PROVE  /\ Grants(Q) \in AllQueues
           /\ \A r \in Resource : MoreGranted(Grants(Q)[r], Q[r]) /\ Held(Grants(Q)[r], r)
           /\ \A r \in Resource : Ordered(Q[r], r) => Ordered(Grants(Q)[r], r)
<1>1. Grants(Q) = [r \in Resource |-> GrantsOne(Q[r], r)] BY DEF Grants, GrantsOne
<1>2. ASSUME NEW r \in Resource
      PROVE  /\ Grants(Q)[r] = GrantsOne(Q[r], r) /\ GrantsOne(Q[r], r) \in Seq(Request)
             /\ MoreGranted(Grants(Q)[r], Q[r]) /\ Held(Grants(Q)[r], r)
             /\ Ordered(Q[r], r) => Ordered(Grants(Q)[r], r)
  <2>1. Q[r] \in Seq(Request) BY DEF AllQueues
  <2> QED BY <2>1, <1>1, GrantsOneFacts DEF MoreGranted
<1> QED BY <1>1, <1>2 DEF AllQueues

(* lock_rec_add_to_queue changes one queue, by at most one request *)
LEMMA AddFacts ==
    ASSUME NEW Q \in AllQueues, NEW r \in Resource, NEW q \in Request
    PROVE  /\ lock_rec_add_to_queue(Q, r, q) \in AllQueues
           /\ \A o \in Resource \ {r} : lock_rec_add_to_queue(Q, r, q)[o] = Q[o]
           /\ \/ lock_rec_add_to_queue(Q, r, q) = Q
              \/ lock_rec_add_to_queue(Q, r, q)[r] = Append(Q[r], OnRec(q, r))
           /\ OnRec(q, r) \in ToSet(lock_rec_add_to_queue(Q, r, q)[r])
<1>1. PICK p \in Request : p = OnRec(q, r) BY OnRecFacts
<1>2. Q[r] \in Seq(Request) BY DEF AllQueues
<1>3. Append(Q[r], p) \in Seq(Request) /\ p \in ToSet(Append(Q[r], p)) BY <1>2, AppendFacts
<1>4. PICK A : A = [Q EXCEPT ![r] = Append(@, p)] OBVIOUS
<1>5. A \in AllQueues /\ A[r] = Append(Q[r], p) /\ \A o \in Resource \ {r} : A[o] = Q[o]
  BY <1>3, <1>4 DEF AllQueues
<1>6. \/ lock_rec_add_to_queue(Q, r, q) = Q /\ p \in ToSet(Q[r])
      \/ lock_rec_add_to_queue(Q, r, q) = A
  BY <1>1, <1>4 DEF lock_rec_add_to_queue
<1> QED BY <1>1, <1>3, <1>5, <1>6

-----------------------------------------------------------------------------
(* Gap inheritance *)

(* how a gap lock on r is kept; all locks on a supremum are for its gap *)
GapKind(r) == IF IsSup(r) THEN "ordinary" ELSE "gap"

(* w is the queue s of record r with granted gap locks behind *)
GapsJoin(w, s, r) ==
    /\ w \in Seq(Request) /\ Len(s) \in Nat /\ Len(w) \in Nat /\ Len(s) <= Len(w)
    /\ \A i \in 1 .. Len(s) : w[i] = s[i]
    /\ \A i \in Len(s) + 1 .. Len(w) : ~w[i].wait /\ w[i].kind = GapKind(r)

(* granted gap locks at the end do not disturb a queue *)
LEMMA GapsJoinFine ==
    ASSUME NEW s, NEW w, NEW r \in Rec, Fine(s, r), GapsJoin(w, s, r)
    PROVE  Fine(w, r)
<1>1. /\ s \in Seq(Request) /\ w \in Seq(Request) /\ Len(s) \in Nat /\ Len(w) \in Nat
      /\ DOMAIN s = 1 .. Len(s) /\ DOMAIN w = 1 .. Len(w) /\ Len(s) <= Len(w)
      /\ \A i \in 1 .. Len(s) : w[i] = s[i]
      /\ \A i \in Len(s) + 1 .. Len(w) : ~w[i].wait /\ w[i].kind = GapKind(r)
  BY DEF Fine, GapsJoin
<1>2. r # Tab /\ (IsSup(r) => r \notin Key) BY Constants
<1>3. ASSUME NEW i \in Len(s) + 1 .. Len(w) PROVE ~Real(w[i], r) BY <1>1, <1>2 DEF Real, GapKind
<1>4. Ordered(w, r)
  <2> SUFFICES ASSUME NEW i \in 1 .. Len(w), NEW j \in 1 .. Len(w),
                      i < j, w[i].trx # w[j].trx, ~w[j].wait, Real(w[i], r), Real(w[j], r)
               PROVE  lock_mode_compatible(w[i].mode, w[j].mode)
    BY <1>1 DEF Ordered
  <2>1. i \in 1 .. Len(s) /\ j \in 1 .. Len(s) BY <1>1, <1>3
  <2> QED BY <2>1, <1>1 DEF Fine, Ordered
<1>5. Held(w, r)
  <2> SUFFICES ASSUME NEW i \in 1 .. Len(w), w[i].wait
               PROVE  \E j \in 1 .. i - 1 : lock_has_to_wait(w[i], w[j], r)
    BY <1>1 DEF Held
  <2>1. i \in 1 .. Len(s) BY <1>1
  <2>2. PICK j \in 1 .. i - 1 : lock_has_to_wait(s[i], s[j], r) BY <2>1, <1>1 DEF Fine, Held
  <2>3. j \in 1 .. Len(s) BY <2>1, <1>1
  <2> QED BY <2>1, <2>2, <2>3, <1>1
<1> QED BY <1>1, <1>4, <1>5 DEF Fine

(* the same queue, or one more gap lock *)
LEMMA GapsJoinMore ==
    ASSUME NEW s \in Seq(Request), NEW w, NEW r, GapsJoin(w, s, r), NEW q \in Request,
           ~q.wait, q.kind = GapKind(r)
    PROVE  GapsJoin(Append(w, q), s, r)
<1>1. PICK v : v = Append(w, q) OBVIOUS
<1>2. PICK n \in Nat : n = Len(w) BY DEF GapsJoin
<1>3. PICK m \in Nat : m = Len(s) /\ m <= n BY <1>2 DEF GapsJoin
<1>4. /\ v \in Seq(Request) /\ Len(v) = n + 1 /\ v[n + 1] = q /\ \A i \in 1 .. n : v[i] = w[i]
  BY <1>1, <1>2, AppendIs DEF GapsJoin
<1>5. \A i \in 1 .. m : v[i] = s[i] BY <1>2, <1>3, <1>4 DEF GapsJoin
<1>6. ASSUME NEW i \in m + 1 .. n + 1 PROVE ~v[i].wait /\ v[i].kind = GapKind(r)
  <2>1. CASE i = n + 1 BY <2>1, <1>4
  <2>2. CASE i # n + 1
    <3>1. i \in m + 1 .. n /\ i \in 1 .. n BY <2>2, <1>3
    <3> QED BY <3>1, <1>2, <1>3, <1>4 DEF GapsJoin
  <2> QED BY <2>1, <2>2
<1> QED BY <1>1, <1>2, <1>3, <1>4, <1>5, <1>6 DEF GapsJoin

(* A is Q after the heir has got some granted gap locks *)
Inherits(A, Q, heir) ==
    /\ A \in AllQueues
    /\ \A o \in Resource \ {heir} : A[o] = Q[o]
    /\ GapsJoin(A[heir], Q[heir], heir)

(* the heir has the gap lock that the request q leaves *)
Left(q, s, heir) ==
    \E p \in ToSet(s) : /\ p.trx = q.trx /\ p.mode = q.mode /\ ~p.wait
                        /\ p.kind = GapKind(heir)

(* one more request is inherited *)
LEMMA InheritOne ==
    ASSUME NEW Q \in AllQueues, NEW heir \in Rec, NEW A, Inherits(A, Q, heir), NEW q \in Request
    PROVE  LET B == lock_rec_add_to_queue(A, heir, NewLock(q.trx, q.mode, "gap")) IN
           /\ Inherits(B, Q, heir) /\ Left(q, B[heir], heir)
           /\ ToSet(A[heir]) \subseteq ToSet(B[heir])
<1> DEFINE B0 == lock_rec_add_to_queue(A, heir, NewLock(q.trx, q.mode, "gap"))
<1>1. PICK B : B = B0 OBVIOUS
<1>2. PICK l \in Request : l = NewLock(q.trx, q.mode, "gap") /\ l.trx = q.trx /\ l.mode = q.mode
                           /\ l.kind = "gap" /\ ~l.wait
  <2>1. q.trx \in Trx /\ q.mode \in Mode /\ "gap" \in Kind BY DEF Request, Kind
  <2> QED BY <2>1, NewLockFacts
<1>3. PICK p \in Request : p = OnRec(l, heir) /\ p.trx = q.trx /\ p.mode = q.mode /\ ~p.wait
                           /\ p.kind = GapKind(heir)
  BY <1>2, OnRecFacts DEF GapKind
<1>4. heir \in Resource BY DEF Resource
<1>5. A \in AllQueues BY DEF Inherits
<1>6. /\ B \in AllQueues /\ \A o \in Resource \ {heir} : B[o] = A[o]
      /\ B = A \/ B[heir] = Append(A[heir], p)
      /\ p \in ToSet(B[heir])
  <2>1. B = lock_rec_add_to_queue(A, heir, l) BY <1>1, <1>2
  <2> HIDE DEF B0
  <2>2. /\ lock_rec_add_to_queue(A, heir, l) \in AllQueues
        /\ \A o \in Resource \ {heir} : lock_rec_add_to_queue(A, heir, l)[o] = A[o]
        /\ \/ lock_rec_add_to_queue(A, heir, l) = A
           \/ lock_rec_add_to_queue(A, heir, l)[heir] = Append(A[heir], OnRec(l, heir))
        /\ OnRec(l, heir) \in ToSet(lock_rec_add_to_queue(A, heir, l)[heir])
    BY <1>4, <1>5, AddFacts, Zenon
  <2> QED BY <2>1, <2>2, <1>3, Zenon
<1>7. Left(q, B[heir], heir) BY <1>3, <1>6 DEF Left
<1>8. A[heir] \in Seq(Request) /\ Q[heir] \in Seq(Request) BY <1>4, <1>5 DEF AllQueues
<1>9. GapsJoin(B[heir], Q[heir], heir)
  <2>1. CASE B = A BY <2>1 DEF Inherits
  <2>2. CASE B[heir] = Append(A[heir], p)
    <3>1. GapsJoin(A[heir], Q[heir], heir) BY DEF Inherits
    <3> QED BY <3>1, <2>2, <1>3, <1>8, GapsJoinMore
  <2> QED BY <2>1, <2>2, <1>6
<1>10. ToSet(A[heir]) \subseteq ToSet(B[heir])
  <2>1. CASE B = A BY <2>1
  <2>2. CASE B[heir] = Append(A[heir], p) BY <2>2, <1>8, AppendFacts
  <2> QED BY <2>1, <2>2, <1>6
<1> HIDE DEF B0
<1>11. Inherits(B, Q, heir) BY <1>6, <1>9 DEF Inherits
<1> QED BY <1>1, <1>7, <1>10, <1>11 DEF B0

(* the equation of the recursion in InheritIf *)
InheritAt(g, Q, heir, r, S, i) ==
    IF i = 0 THEN Q
    ELSE IF Q[r][i].kind # "insert" /\ Q[r][i] \in S
      THEN lock_rec_add_to_queue(g[i - 1], heir, NewLock(Q[r][i].trx, Q[r][i].mode, "gap"))
      ELSE g[i - 1]

(* g solves the recursion, and InheritIf takes its last value *)
InheritBy(g, Q, heir, r, S) ==
    /\ g = [i \in 0 .. Len(Q[r]) |-> InheritAt(g, Q, heir, r, S, i)]
    /\ InheritIf(Q, heir, r, S) = g[Len(Q[r])]

(* the recursion in InheritIf has a solution *)
LEMMA InheritIs ==
    ASSUME NEW Q, NEW heir, NEW r, NEW S, Len(Q[r]) \in Nat
    PROVE  \E g : InheritBy(g, Q, heir, r, S)
<1> DEFINE Upto(n) == \E g : g = [i \in 0 .. n |-> InheritAt(g, Q, heir, r, S, i)]
           T == {n \in Nat : Upto(n)}
<1>1. 0 \in T
  <2> DEFINE g == [i \in 0 .. 0 |-> Q]
  <2>1. g = [i \in 0 .. 0 |-> InheritAt(g, Q, heir, r, S, i)] BY DEF InheritAt
  <2> QED BY <2>1
<1>2. ASSUME NEW n \in Nat, n \in T PROVE n + 1 \in T
  <2>1. PICK g : g = [i \in 0 .. n |-> InheritAt(g, Q, heir, r, S, i)] BY <1>2
  <2> DEFINE h == [i \in 0 .. n + 1 |-> IF i <= n THEN g[i] ELSE InheritAt(g, Q, heir, r, S, n + 1)]
  <2>2. \A i \in 0 .. n + 1 : h[i] = InheritAt(h, Q, heir, r, S, i)
    <3> SUFFICES ASSUME NEW i \in 0 .. n + 1 PROVE h[i] = InheritAt(h, Q, heir, r, S, i) OBVIOUS
    <3>1. i # 0 => h[i - 1] = g[i - 1] OBVIOUS
    <3>2. CASE i <= n
      <4>1. g[i] = InheritAt(g, Q, heir, r, S, i) BY <2>1, <3>2
      <4> QED BY <3>1, <3>2, <4>1 DEF InheritAt
    <3>3. CASE i = n + 1 BY <3>1, <3>3 DEF InheritAt
    <3> QED BY <3>2, <3>3
  <2>3. h = [i \in 0 .. n + 1 |-> InheritAt(h, Q, heir, r, S, i)] BY <2>2
  <2> HIDE DEF h
  <2>4. Upto(n + 1) BY <2>3, Zenon
  <2> QED BY <2>4
<1>3. Nat \subseteq T
  <2> HIDE DEF T
  <2> QED BY <1>1, <1>2, NatSetInduction
<1>4. \E g : g = [i \in 0 .. Len(Q[r]) |-> InheritAt(g, Q, heir, r, S, i)] BY <1>3
<1>5. PICK g : g = CHOOSE f : f = [i \in 0 .. Len(Q[r]) |-> InheritAt(f, Q, heir, r, S, i)] OBVIOUS
<1>6. g = [i \in 0 .. Len(Q[r]) |-> InheritAt(g, Q, heir, r, S, i)] BY <1>4, <1>5
<1>7. InheritIf(Q, heir, r, S) = g[Len(Q[r])] BY <1>5 DEF InheritIf, InheritAt
<1> QED BY <1>6, <1>7 DEF InheritBy

(* gap inheritance gives the heir granted gap locks and nothing else, one  *)
(* for each request that is inherited                                      *)
LEMMA InheritFacts ==
    ASSUME NEW Q \in AllQueues, NEW heir \in Rec, NEW r \in Resource, NEW S
    PROVE  /\ Inherits(InheritIf(Q, heir, r, S), Q, heir)
           /\ \A q \in ToSet(Q[r]) : q.kind # "insert" /\ q \in S
                => Left(q, InheritIf(Q, heir, r, S)[heir], heir)
<1>1. Q[r] \in Seq(Request) /\ Len(Q[r]) \in Nat /\ DOMAIN Q[r] = 1 .. Len(Q[r]) BY DEF AllQueues
<1>2a. PICK g : InheritBy(g, Q, heir, r, S) BY <1>1, InheritIs, Zenon
<1>2. /\ g = [i \in 0 .. Len(Q[r]) |-> InheritAt(g, Q, heir, r, S, i)]
      /\ InheritIf(Q, heir, r, S) = g[Len(Q[r])]
  BY <1>2a DEF InheritBy
<1>3. PICK m \in Nat : m = Len(Q[r]) BY <1>1
<1> DEFINE Good(n) ==
             /\ Inherits(g[n], Q, heir)
             /\ \A i \in 1 .. n : Q[r][i].kind # "insert" /\ Q[r][i] \in S => Left(Q[r][i], g[n][heir], heir)
           T == {n \in Nat : n <= m => Good(n)}
<1>4. 0 \in T
  <2>1. g[0] = Q BY <1>1, <1>2 DEF InheritAt
  <2>2. heir \in Resource BY DEF Resource
  <2>3. Q[heir] \in Seq(Request) BY <2>2 DEF AllQueues
  <2>4. GapsJoin(Q[heir], Q[heir], heir) BY <2>3 DEF GapsJoin
  <2>5. Inherits(g[0], Q, heir) BY <2>1, <2>4 DEF Inherits
  <2> QED BY <2>5
<1>5. ASSUME NEW n \in Nat, n \in T PROVE n + 1 \in T
  <2> SUFFICES ASSUME n + 1 <= m PROVE Good(n + 1) OBVIOUS
  <2>1. Good(n) /\ n + 1 \in 1 .. m BY <1>5
  <2>2. PICK q \in Request : q = Q[r][n + 1] BY <1>1, <1>3, <2>1
  <2>3. g[n + 1] = IF q.kind # "insert" /\ q \in S
                     THEN lock_rec_add_to_queue(g[n], heir, NewLock(q.trx, q.mode, "gap")) ELSE g[n]
    <3>1. g[n + 1] = InheritAt(g, Q, heir, r, S, n + 1) BY <1>2, <1>3, <2>1
    <3> QED BY <3>1, <2>2 DEF InheritAt
  <2>4. Inherits(g[n], Q, heir) BY <2>1
  <2>5. \A i \in 1 .. n : Q[r][i].kind # "insert" /\ Q[r][i] \in S => Left(Q[r][i], g[n][heir], heir)
    BY <2>1
  <2> HIDE DEF Good, T
  <2>6. CASE q.kind # "insert" /\ q \in S
    <3>1. /\ Inherits(g[n + 1], Q, heir) /\ Left(q, g[n + 1][heir], heir)
          /\ ToSet(g[n][heir]) \subseteq ToSet(g[n + 1][heir])
      BY <2>3, <2>4, <2>6, InheritOne
    <3>2. ASSUME NEW i \in 1 .. n + 1, Q[r][i].kind # "insert", Q[r][i] \in S
          PROVE  Left(Q[r][i], g[n + 1][heir], heir)
      <4>1. CASE i = n + 1 BY <4>1, <3>1, <2>2
      <4>2. CASE i # n + 1
        <5>1. i \in 1 .. n BY <4>2
        <5>2. Left(Q[r][i], g[n][heir], heir) BY <5>1, <3>2, <2>5
        <5> QED BY <5>2, <3>1 DEF Left
      <4> QED BY <4>1, <4>2
    <3> QED BY <3>1, <3>2 DEF Good
  <2>7. CASE ~(q.kind # "insert" /\ q \in S)
    <3>1. g[n + 1] = g[n] BY <2>3, <2>7
    <3>2. ASSUME NEW i \in 1 .. n + 1, Q[r][i].kind # "insert", Q[r][i] \in S
          PROVE  Left(Q[r][i], g[n][heir], heir)
      <4>1. i # n + 1 BY <2>2, <2>7, <3>2
      <4>2. i \in 1 .. n BY <4>1
      <4> QED BY <4>2, <3>2, <2>5
    <3> QED BY <3>1, <3>2, <2>4 DEF Good
  <2> QED BY <2>6, <2>7
<1>6. Nat \subseteq T
  <2> HIDE DEF T
  <2> QED BY <1>4, <1>5, NatSetInduction
<1>7. Good(m)
  <2> HIDE DEF Good
  <2>1. m <= m OBVIOUS
  <2>2. m \in T BY <1>6, Zenon
  <2> QED BY <2>1, <2>2
<1> HIDE DEF T
<1>8. ASSUME NEW q \in ToSet(Q[r]), q.kind # "insert", q \in S
      PROVE  Left(q, g[m][heir], heir)
  <2>1. PICK i \in 1 .. m : Q[r][i] = q BY <1>1, <1>3 DEF ToSet
  <2> QED BY <2>1, <1>7, <1>8
<1>9. Inherits(g[m], Q, heir) BY <1>7
<1>10. InheritIf(Q, heir, r, S) = g[m] BY <1>2, <1>3
<1> HIDE DEF Good
<1> QED BY <1>8, <1>9, <1>10

-----------------------------------------------------------------------------
(* What a change of the queues leaves *)

(* the parts of Sound, by queue *)
LEMMA SoundParts ==
    ASSUME NEW Q, NEW R, NEW sp
    PROVE  Sound(Q, R, sp) <=>
             /\ Q \in AllQueues
             /\ \A r \in Resource : Fine(Q[r], r)
             /\ \A k \in Key \ R : Q[k] = << >>
             /\ sp = None => Q[SupL] = << >>
BY DEF Sound, Fine, AllQueues

(* ImplicitIsExplicit of other queues, records and writers *)
Shown(Q, R, wr) ==
    \A k \in R : \A q \in ToSet(Q[k]) :
        wr[k] # None /\ q.trx # wr[k] /\ q.kind \notin {"gap", "insert"}
            => lock_rec_has_expl(Q, wr[k], k, "X", "rec")

(* no transaction has a new request for the record, and t keeps its locks *)
Keeps(w, s, t) ==
    /\ \A q \in ToSet(w) : q.kind \notin {"gap", "insert"} =>
         \E o \in ToSet(s) : o.trx = q.trx /\ o.kind = q.kind
    /\ \A p \in ToSet(s) : p.trx = t /\ ~p.wait =>
         \E o \in ToSet(w) : o.trx = t /\ ~o.wait /\ o.mode = p.mode /\ o.kind = p.kind

(* RULE 1 still holds when records that an active transaction has changed  *)
(* get no new requests and keep its locks                                  *)
LEMMA ShownKept ==
    ASSUME NEW Q, NEW R, NEW wr, Shown(Q, R, wr), NEW Q2, NEW R2, NEW wr2,
           \A k \in R2 : wr2[k] # None => k \in R /\ wr2[k] = wr[k] /\ Keeps(Q2[k], Q[k], wr[k])
    PROVE  Shown(Q2, R2, wr2)
<1> SUFFICES ASSUME NEW k \in R2, NEW q \in ToSet(Q2[k]),
                    wr2[k] # None, q.trx # wr2[k], q.kind \notin {"gap", "insert"}
             PROVE  lock_rec_has_expl(Q2, wr2[k], k, "X", "rec")
  BY DEF Shown
<1>1. k \in R /\ wr2[k] = wr[k] /\ Keeps(Q2[k], Q[k], wr[k]) OBVIOUS
<1>2. PICK o \in ToSet(Q[k]) : o.trx = q.trx /\ o.kind = q.kind BY <1>1 DEF Keeps
<1>3. lock_rec_has_expl(Q, wr[k], k, "X", "rec") BY <1>1, <1>2 DEF Shown
<1>4. PICK p \in ToSet(Q[k]) :
        /\ p.trx = wr[k] /\ ~p.wait /\ p.kind # "insert" /\ lock_mode_stronger_or_eq(p.mode, "X")
        /\ p.kind = "ordinary" \/ p.kind = "rec" \/ IsSup(k)
  BY <1>3 DEF lock_rec_has_expl
<1>5. PICK z \in ToSet(Q2[k]) : z.trx = wr[k] /\ ~z.wait /\ z.mode = p.mode /\ z.kind = p.kind
  BY <1>1, <1>4 DEF Keeps
<1> QED BY <1>1, <1>4, <1>5 DEF lock_rec_has_expl

(* a queue keeps what it has *)
LEMMA KeepsSame == ASSUME NEW s, NEW t PROVE Keeps(s, s, t)
BY DEF Keeps

(* and over two changes *)
LEMMA KeepsBoth ==
    ASSUME NEW v, NEW w, NEW s, NEW t, Keeps(v, w, t), Keeps(w, s, t)
    PROVE  Keeps(v, s, t)
<1>1. ASSUME NEW q \in ToSet(v), q.kind \notin {"gap", "insert"}
      PROVE  \E o \in ToSet(s) : o.trx = q.trx /\ o.kind = q.kind
  <2>1. PICK o \in ToSet(w) : o.trx = q.trx /\ o.kind = q.kind BY <1>1 DEF Keeps
  <2>2. PICK z \in ToSet(s) : z.trx = o.trx /\ z.kind = o.kind BY <2>1, <1>1 DEF Keeps
  <2> QED BY <2>1, <2>2
<1>2. ASSUME NEW p \in ToSet(s), p.trx = t, ~p.wait
      PROVE  \E o \in ToSet(v) : o.trx = t /\ ~o.wait /\ o.mode = p.mode /\ o.kind = p.kind
  <2>1. PICK o \in ToSet(w) : o.trx = t /\ ~o.wait /\ o.mode = p.mode /\ o.kind = p.kind BY <1>2 DEF Keeps
  <2>2. PICK z \in ToSet(v) : z.trx = t /\ ~z.wait /\ z.mode = o.mode /\ z.kind = o.kind BY <2>1 DEF Keeps
  <2> QED BY <2>1, <2>2
<1> QED BY <1>1, <1>2 DEF Keeps

(* a grant takes no lock away *)
LEMMA KeepsGranted ==
    ASSUME NEW s \in Seq(Request), NEW g, MoreGranted(g, s), NEW t
    PROVE  Keeps(g, s, t)
<1>1. DOMAIN g = DOMAIN s BY DEF MoreGranted
<1>2. ASSUME NEW q \in ToSet(g) PROVE \E o \in ToSet(s) : o.trx = q.trx /\ o.kind = q.kind
  <2>1. PICK i \in DOMAIN s : q = g[i] BY <1>1 DEF ToSet
  <2> QED BY <2>1 DEF ToSet, MoreGranted
<1>3. ASSUME NEW p \in ToSet(s), p.trx = t, ~p.wait
      PROVE  \E o \in ToSet(g) : o.trx = t /\ ~o.wait /\ o.mode = p.mode /\ o.kind = p.kind
  <2>1. PICK i \in DOMAIN s : p = s[i] BY DEF ToSet
  <2>2. g[i] \in ToSet(g) BY <1>1 DEF ToSet
  <2>3. g[i].trx = t /\ ~g[i].wait /\ g[i].mode = p.mode /\ g[i].kind = p.kind BY <2>1, <1>3 DEF MoreGranted
  <2> QED BY <2>2, <2>3
<1> QED BY <1>2, <1>3 DEF Keeps

(* what is new in a queue after inheritance is granted and for the gap *)
LEMMA GapsJoinSet ==
    ASSUME NEW s \in Seq(Request), NEW w, NEW r, GapsJoin(w, s, r)
    PROVE  /\ ToSet(s) \subseteq ToSet(w)
           /\ \A q \in ToSet(w) : q \in ToSet(s) \/ (~q.wait /\ q.kind = GapKind(r))
<1>1. /\ w \in Seq(Request) /\ Len(s) \in Nat /\ Len(w) \in Nat
      /\ DOMAIN s = 1 .. Len(s) /\ DOMAIN w = 1 .. Len(w) /\ Len(s) <= Len(w)
      /\ \A i \in 1 .. Len(s) : w[i] = s[i]
      /\ \A i \in Len(s) + 1 .. Len(w) : ~w[i].wait /\ w[i].kind = GapKind(r)
  BY DEF GapsJoin
<1>2. ASSUME NEW q \in ToSet(s) PROVE q \in ToSet(w)
  <2>1. PICK i \in 1 .. Len(s) : q = s[i] BY <1>1 DEF ToSet
  <2>2. i \in 1 .. Len(w) /\ w[i] = q BY <2>1, <1>1
  <2> QED BY <2>2, <1>1 DEF ToSet
<1>3. ASSUME NEW q \in ToSet(w) PROVE q \in ToSet(s) \/ (~q.wait /\ q.kind = GapKind(r))
  <2>1. PICK i \in 1 .. Len(w) : q = w[i] BY <1>1 DEF ToSet
  <2>2. CASE i \in 1 .. Len(s)
    <3>1. q = s[i] BY <2>1, <2>2, <1>1
    <3> QED BY <3>1, <2>2, <1>1 DEF ToSet
  <2>3. CASE i \in Len(s) + 1 .. Len(w) BY <2>1, <2>3, <1>1
  <2> QED BY <2>2, <2>3, <1>1
<1> QED BY <1>2, <1>3

(* inherited gap locks are no requests for the record *)
LEMMA KeepsGaps ==
    ASSUME NEW s \in Seq(Request), NEW w, NEW r \in Key, GapsJoin(w, s, r), NEW t
    PROVE  Keeps(w, s, t)
<1>1. ~IsSup(r) BY Constants
<1> QED BY <1>1, GapsJoinSet DEF Keeps, GapKind

(* requests that leave are no new ones *)
LEMMA KeepsPart ==
    ASSUME NEW s, NEW w, NEW t, ToSet(w) \subseteq ToSet(s),
           \A p \in ToSet(s) : p.trx = t /\ ~p.wait => p \in ToSet(w)
    PROVE  Keeps(w, s, t)
BY DEF Keeps

(* nobody waits who did not wait *)
Calms(Q2, Q) == \A t \in Trx : IsWaiting(Q2, t) => IsWaiting(Q, t)

(* nobody waits who did not wait before, when every waiting request was    *)
(* one                                                                     *)
LEMMA CalmsBy ==
    ASSUME NEW Q, NEW Q2,
           \A r \in Resource : \A q \in ToSet(Q2[r]) : q.wait =>
             \E o \in Resource : \E p \in ToSet(Q[o]) : p.trx = q.trx /\ p.wait
    PROVE  Calms(Q2, Q)
BY DEF Calms, IsWaiting

(* grants make nobody wait *)
LEMMA CalmsGranted ==
    ASSUME NEW Q \in AllQueues, NEW G, \A r \in Resource : MoreGranted(G[r], Q[r])
    PROVE  Calms(G, Q)
<1>1. ASSUME NEW r \in Resource, NEW q \in ToSet(G[r]), q.wait
      PROVE  \E p \in ToSet(Q[r]) : p.trx = q.trx /\ p.wait
  <2>1. PICK i \in DOMAIN Q[r] : q = G[r][i] BY DEF ToSet, MoreGranted
  <2>2. Q[r][i].trx = q.trx /\ Q[r][i].wait BY <2>1, <1>1 DEF MoreGranted
  <2> QED BY <2>1, <2>2 DEF ToSet
<1> QED BY <1>1, CalmsBy

(* whoever's wait is over runs again *)
LEMMA QueuesSleep ==
    ASSUME NEW Q, NEW p, Queues(Q, p), p \in [Trx -> {"run", "wait", "victim", "rollback", "release", "done"}],
           NEW t \in Trx, IsWaiting(Q, t) => p[t] = "wait"
    PROVE  IsWaiting(queue', t) <=> pc'[t] = "wait"
<1>1. queue' = Q /\ pc'[t] = IF p[t] = "wait" /\ ~IsWaiting(queue', t) THEN "run" ELSE p[t]
  BY DEF Queues
<1> QED BY <1>1

(* a change of the queues wakes transactions up and does nothing else to   *)
(* them                                                                    *)
LEMMA QueuesType ==
    ASSUME NEW Q, NEW p, Queues(Q, p), p \in [Trx -> {"run", "wait", "victim", "rollback", "release", "done"}]
    PROVE  /\ pc' \in [Trx -> {"run", "wait", "victim", "rollback", "release", "done"}]
           /\ \A t \in Trx : pc'[t] = p[t] \/ (p[t] = "wait" /\ pc'[t] = "run")
BY DEF Queues

-----------------------------------------------------------------------------
(* Records come and go *)

(* a record, or a supremum, that is there *)
Present(r) == r \in recs \/ r = Sup \/ (r = SupL /\ split # None)

(* the least of a set of keys *)
LEMMA FirstOf ==
    ASSUME NEW T, T \subseteq Nat, T # {}
    PROVE  /\ (CHOOSE j \in T : \A i \in T : j <= i) \in T
           /\ \A i \in T : (CHOOSE j \in T : \A i2 \in T : j <= i2) <= i
<1>1. \E j \in T : \A i \in T : j <= i BY LeastNumber
<1> QED BY <1>1

(* page_rec_get_next: the next record of the page, or its supremum when    *)
(* there is none                                                           *)
LEMMA NextRecFacts ==
    ASSUME RowsOK, NEW k \in Key
    PROVE  /\ NextRec(k) \in Rec /\ NextRec(k) \in Resource /\ Present(NextRec(k)) /\ NextRec(k) # k
           /\ NextRec(k) \in Key => /\ NextRec(k) \in recs /\ NextRec(k) > k /\ SamePage(NextRec(k), k)
                                    /\ \A j \in recs : j > k /\ SamePage(j, k) => NextRec(k) <= j
           /\ NextRec(k) \notin Key => /\ \A j \in recs : ~(j > k /\ SamePage(j, k))
                                       /\ NextRec(k) = IF OnLeft(k) THEN SupL ELSE Sup
<1> DEFINE after0 == {j \in recs : j > k /\ SamePage(j, k)}
<1>1. PICK T : T = after0 OBVIOUS
<1>2. recs \subseteq Key /\ Key \subseteq Nat /\ Key \subseteq Rec /\ k \in Nat
      /\ Sup \notin Key /\ SupL \notin Key /\ Sup \in Rec /\ SupL \in Rec /\ Rec \subseteq Resource
  BY Constants DEF RowsOK, Rec, Resource
<1>3. NextRec(k) = IF T # {} THEN CHOOSE j \in T : \A i \in T : j <= i
                   ELSE IF OnLeft(k) THEN SupL ELSE Sup
  BY <1>1 DEF NextRec
<1>4. CASE T # {}
  <2>1. T \subseteq Nat BY <1>1, <1>2
  <2>2. PICK x : x = CHOOSE j \in T : \A i \in T : j <= i OBVIOUS
  <2>3. x \in T /\ \A i \in T : x <= i BY <2>1, <2>2, <1>4, FirstOf
  <2>4. NextRec(k) = x BY <2>2, <1>3, <1>4
  <2>5. x \in recs /\ x > k /\ SamePage(x, k) BY <2>3, <1>1
  <2>6. \A j \in recs : j > k /\ SamePage(j, k) => x <= j BY <2>3, <1>1
  <2>7. x \in Key /\ x # k BY <2>5, <1>2
  <2> QED BY <2>4, <2>5, <2>6, <2>7, <1>2 DEF Present
<1>5. CASE T = {}
  <2>1. NextRec(k) = IF OnLeft(k) THEN SupL ELSE Sup BY <1>3, <1>5
  <2>2. \A j \in recs : ~(j > k /\ SamePage(j, k)) BY <1>1, <1>5
  <2>3. OnLeft(k) => split # None BY DEF OnLeft
  <2> QED BY <2>1, <2>2, <2>3, <1>2 DEF Present
<1> QED BY <1>4, <1>5

(* an empty queue is in order *)
LEMMA EmptyFine == ASSUME NEW r PROVE Fine(<< >>, r) /\ ToSet(<< >>) = {} /\ << >> \in Seq(Request)
BY DEF Fine, Ordered, Held, ToSet

(* the queues stay in order when one record inherits gap locks *)
LEMMA InheritsFine ==
    ASSUME NEW Q \in AllQueues, NEW heir \in Rec, NEW A, Inherits(A, Q, heir),
           \A r \in Resource : Fine(Q[r], r)
    PROVE  \A r \in Resource : Fine(A[r], r)
<1> SUFFICES ASSUME NEW r \in Resource PROVE Fine(A[r], r) OBVIOUS
<1>1. CASE r = heir BY <1>1, GapsJoinFine DEF Inherits
<1>2. CASE r # heir BY <1>2 DEF Inherits
<1> QED BY <1>1, <1>2

(* no request goes and no wait begins by inheritance *)
LEMMA InheritsSets ==
    ASSUME NEW Q \in AllQueues, NEW heir \in Rec, NEW A, Inherits(A, Q, heir), NEW r \in Resource
    PROVE  /\ ToSet(Q[r]) \subseteq ToSet(A[r])
           /\ \A q \in ToSet(A[r]) : q.wait => q \in ToSet(Q[r])
           /\ GapsJoin(A[r], Q[r], r)
<1>1. Q[r] \in Seq(Request) BY DEF AllQueues
<1>2. CASE r = heir
  <2>1. GapsJoin(A[r], Q[r], r) BY <1>2 DEF Inherits
  <2> QED BY <2>1, <1>1, GapsJoinSet
<1>3. CASE r # heir
  <2>1. A[r] = Q[r] BY <1>3 DEF Inherits
  <2>2. GapsJoin(Q[r], Q[r], r) BY <1>1 DEF GapsJoin
  <2> QED BY <2>1, <2>2
<1> QED BY <1>2, <1>3

(* gap locks that join in two rounds *)
LEMMA GapsJoinBoth ==
    ASSUME NEW v, NEW w, NEW s, NEW r, GapsJoin(v, w, r), GapsJoin(w, s, r)
    PROVE  GapsJoin(v, s, r)
<1>1. PICK a, b, c \in Nat : a = Len(s) /\ b = Len(w) /\ c = Len(v) BY DEF GapsJoin
<1>2. /\ a <= b /\ b <= c /\ v \in Seq(Request)
      /\ \A i \in 1 .. a : w[i] = s[i]
      /\ \A i \in 1 .. b : v[i] = w[i]
      /\ \A i \in a + 1 .. b : ~w[i].wait /\ w[i].kind = GapKind(r)
      /\ \A i \in b + 1 .. c : ~v[i].wait /\ v[i].kind = GapKind(r)
  BY <1>1 DEF GapsJoin
<1>3. \A i \in 1 .. a : v[i] = s[i] BY <1>1, <1>2
<1>4. ASSUME NEW i \in a + 1 .. c PROVE ~v[i].wait /\ v[i].kind = GapKind(r)
  <2>1. CASE i \in a + 1 .. b
    <3>1. i \in 1 .. b BY <2>1, <1>1
    <3> QED BY <2>1, <3>1, <1>2
  <2>2. CASE i \in b + 1 .. c BY <2>2, <1>2
  <2> QED BY <2>1, <2>2, <1>1
<1> QED BY <1>1, <1>2, <1>3, <1>4 DEF GapsJoin

(* the queues after Q, when record k is gone and heir has its locks *)
Bequeaths(A, Q, k, heir) ==
    /\ A \in AllQueues /\ A[k] = << >>
    /\ \A r \in Resource \ {k} : GapsJoin(A[r], Q[r], r) /\ (r # heir => A[r] = Q[r])
    /\ \A q \in ToSet(Q[k]) : q.kind # "insert" => Left(q, A[heir], heir)

(* lock_rec_inherit_to_gap and lock_rec_reset_and_release_wait *)
LEMMA BequeathFacts ==
    ASSUME NEW Q \in AllQueues, NEW k \in Rec, NEW heir \in Rec, k # heir
    PROVE  Bequeaths(lock_rec_reset_and_release_wait(lock_rec_inherit_to_gap(Q, heir, k), k), Q, k, heir)
<1>1. PICK H : H = InheritIf(Q, heir, k, ToSet(Q[k])) OBVIOUS
<1>2. k \in Resource /\ heir \in Resource BY DEF Resource
<1>3. Inherits(H, Q, heir) /\ \A q \in ToSet(Q[k]) : q.kind # "insert" => Left(q, H[heir], heir)
  BY <1>1, <1>2, InheritFacts
<1>4. H \in AllQueues BY <1>3 DEF Inherits
<1>5. PICK A : A = [H EXCEPT ![k] = << >>] OBVIOUS
<1>6. A \in AllQueues /\ A[k] = << >> /\ \A r \in Resource \ {k} : A[r] = H[r]
  BY <1>2, <1>4, <1>5, EmptyFine DEF AllQueues
<1>7. ASSUME NEW r \in Resource \ {k} PROVE GapsJoin(A[r], Q[r], r) /\ (r # heir => A[r] = Q[r])
  <2>1. GapsJoin(H[r], Q[r], r) BY <1>3, InheritsSets
  <2>2. r # heir => H[r] = Q[r] BY <1>3 DEF Inherits
  <2> QED BY <2>1, <2>2, <1>6
<1>8. A[heir] = H[heir] BY <1>2, <1>6
<1>9. Bequeaths(A, Q, k, heir) BY <1>3, <1>6, <1>7, <1>8 DEF Bequeaths
<1> QED BY <1>1, <1>5, <1>9 DEF lock_rec_reset_and_release_wait, lock_rec_inherit_to_gap

(* the queues stay in order when a record goes and another one inherits    *)
(* its locks, and nobody begins to wait                                    *)
LEMMA BequeathSound ==
    ASSUME NEW Q \in AllQueues, NEW k \in Rec, NEW heir \in Rec, NEW A, Bequeaths(A, Q, k, heir),
           \A r \in Resource : Fine(Q[r], r)
    PROVE  /\ \A r \in Resource : Fine(A[r], r)
           /\ Calms(A, Q)
<1>1. ASSUME NEW r \in Resource PROVE Fine(A[r], r) /\ \A q \in ToSet(A[r]) : q.wait => q \in ToSet(Q[r])
  <2>1. CASE r = k
    <3>1. A[r] = << >> BY <2>1 DEF Bequeaths
    <3> QED BY <3>1, EmptyFine
  <2>2. CASE r # k
    <3>1. GapsJoin(A[r], Q[r], r) /\ Fine(Q[r], r) BY <2>2 DEF Bequeaths
    <3>2. CASE r \in Rec
      <4>1. Q[r] \in Seq(Request) BY <3>1 DEF Fine
      <4> QED BY <3>1, <3>2, <4>1, GapsJoinFine, GapsJoinSet
    <3>3. CASE r \notin Rec
      <4>1. r # heir BY <3>3
      <4> QED BY <2>2, <3>1, <4>1 DEF Bequeaths
    <3> QED BY <3>2, <3>3
  <2> QED BY <2>1, <2>2
<1> QED BY <1>1, CalmsBy

(* the queues after lock_update_discard, which leaves the locks of record  *)
(* k and of the supremum of its page to heir                               *)
Discarded(A, k, heir) ==
    /\ A \in AllQueues /\ A[k] = << >> /\ A[SupL] = << >>
    /\ \A r \in Resource \ {k, SupL, heir} : A[r] = queue[r]
    /\ GapsJoin(A[heir], IF OnLeft(k) THEN queue[heir] ELSE queue[SupL], heir)
    /\ \A q \in ToSet(queue[k]) \cup ToSet(queue[IF OnLeft(k) THEN SupL ELSE Sup]) :
         q.kind # "insert" => Left(q, A[heir], heir)
    /\ OnLeft(k) => heir \in recs /\ heir >= split /\ \A i \in recs : i >= split => heir <= i
    /\ ~OnLeft(k) => heir = Sup

(* inheritance twice, from record k and from the supremum sup *)
LEMMA InheritTwice ==
    ASSUME NEW Q \in AllQueues, NEW k \in Rec, NEW heir \in Rec, NEW sup \in Rec,
           k # heir, sup # heir, k # sup
    PROVE  LET H == lock_rec_inherit_to_gap(lock_rec_inherit_to_gap(Q, heir, k), heir, sup)
               R == lock_rec_reset_and_release_wait(lock_rec_reset_and_release_wait(H, k), sup)
           IN /\ R \in AllQueues /\ R[k] = << >> /\ R[sup] = << >>
              /\ \A r \in Resource \ {k, sup, heir} : R[r] = Q[r]
              /\ GapsJoin(R[heir], Q[heir], heir)
              /\ \A q \in ToSet(Q[k]) \cup ToSet(Q[sup]) : q.kind # "insert" => Left(q, R[heir], heir)
<1> DEFINE H0 == lock_rec_inherit_to_gap(lock_rec_inherit_to_gap(Q, heir, k), heir, sup)
           R0 == lock_rec_reset_and_release_wait(lock_rec_reset_and_release_wait(H0, k), sup)
<1>1. k \in Resource /\ heir \in Resource /\ sup \in Resource BY DEF Resource
<1>2. PICK G : G = lock_rec_inherit_to_gap(Q, heir, k) OBVIOUS
<1>3. Inherits(G, Q, heir) /\ \A q \in ToSet(Q[k]) : q.kind # "insert" => Left(q, G[heir], heir)
  <2>1. PICK S : S = ToSet(Q[k]) OBVIOUS
  <2>2. G = InheritIf(Q, heir, k, S) BY <1>2, <2>1 DEF lock_rec_inherit_to_gap
  <2> QED BY <1>1, <2>1, <2>2, InheritFacts
<1>4. G \in AllQueues /\ G[sup] = Q[sup] BY <1>1, <1>3 DEF Inherits
<1>5. PICK H : H = lock_rec_inherit_to_gap(G, heir, sup) OBVIOUS
<1>6. Inherits(H, G, heir) /\ \A q \in ToSet(G[sup]) : q.kind # "insert" => Left(q, H[heir], heir)
  <2>1. PICK S : S = ToSet(G[sup]) OBVIOUS
  <2>2. H = InheritIf(G, heir, sup, S) BY <1>5, <2>1 DEF lock_rec_inherit_to_gap
  <2> QED BY <1>1, <1>4, <2>1, <2>2, InheritFacts
<1>7. H \in AllQueues BY <1>6 DEF Inherits
<1>8. GapsJoin(H[heir], Q[heir], heir) BY <1>3, <1>6, GapsJoinBoth DEF Inherits
<1>9. ToSet(G[heir]) \subseteq ToSet(H[heir]) BY <1>1, <1>4, <1>6, InheritsSets
<1>10. \A q \in ToSet(Q[k]) \cup ToSet(Q[sup]) : q.kind # "insert" => Left(q, H[heir], heir)
  <2>1. ASSUME NEW q \in ToSet(Q[k]), q.kind # "insert" PROVE Left(q, H[heir], heir)
    <3>1. Left(q, G[heir], heir) BY <2>1, <1>3
    <3> QED BY <3>1, <1>9 DEF Left
  <2> QED BY <2>1, <1>4, <1>6
<1>11. PICK R : R = [[H EXCEPT ![k] = << >>] EXCEPT ![sup] = << >>] OBVIOUS
<1>12. R \in AllQueues /\ R[k] = << >> /\ R[sup] = << >> /\ R[heir] = H[heir]
       /\ \A r \in Resource \ {k, sup} : R[r] = H[r]
  BY <1>1, <1>7, <1>11, EmptyFine DEF AllQueues
<1>13. \A r \in Resource \ {k, sup, heir} : R[r] = Q[r] BY <1>3, <1>6, <1>12 DEF Inherits
<1>14. R0 = R BY <1>2, <1>5, <1>11 DEF lock_rec_reset_and_release_wait
<1> HIDE DEF R0
<1>15. /\ R0 \in AllQueues /\ R0[k] = << >> /\ R0[sup] = << >>
       /\ \A r \in Resource \ {k, sup, heir} : R0[r] = Q[r]
       /\ GapsJoin(R0[heir], Q[heir], heir)
       /\ \A q \in ToSet(Q[k]) \cup ToSet(Q[sup]) : q.kind # "insert" => Left(q, R0[heir], heir)
  BY <1>8, <1>10, <1>12, <1>13, <1>14
<1> QED BY <1>15 DEF R0

(* lock_update_discard leaves the locks of the page to the first record of *)
(* the next page, or to the supremum of the page before it                 *)
LEMMA DiscardFacts ==
    ASSUME RowsOK, queue \in AllQueues, NEW k \in recs, Alone(k)
    PROVE  \E heir \in recs \cup {Sup} : heir # k /\ Discarded(lock_update_discard(queue, k), k, heir)
<1>1. /\ recs \subseteq Key /\ k \in Key /\ Key \subseteq Rec /\ Sup \in Rec /\ SupL \in Rec
      /\ Sup \notin Key /\ SupL \notin Key /\ Sup # SupL /\ recs \subseteq Nat /\ split \in Nat
      /\ Sup \in Resource /\ SupL \in Resource
      /\ \E j \in recs : j >= split
  BY Constants DEF RowsOK, Alone, Rec
<1>2. CASE OnLeft(k)
  <2>1. PICK heir : heir = CHOOSE j \in recs : j >= split /\ \A i \in recs : i >= split => j <= i OBVIOUS
  <2>2. heir \in recs /\ heir >= split /\ \A i \in recs : i >= split => heir <= i
    <3>1. PICK T : T = {j \in recs : j >= split} OBVIOUS
    <3>2. T \subseteq Nat /\ T # {} BY <1>1, <3>1
    <3>3. \E j \in T : \A i \in T : j <= i BY <3>2, LeastNumber
    <3> QED BY <3>1, <3>3, <2>1
  <2>3. heir # k BY <2>2, <1>1, <1>2 DEF OnLeft
  <2>4. PICK R : R = lock_rec_reset_and_release_wait(lock_rec_reset_and_release_wait(
                        lock_rec_inherit_to_gap(lock_rec_inherit_to_gap(queue, heir, k), heir, SupL), k), SupL)
    OBVIOUS
  <2>5. lock_update_discard(queue, k) = R BY <1>2, <2>1, <2>4 DEF lock_update_discard
  <2>6. heir \in Rec /\ k \in Rec /\ heir # SupL /\ k # SupL BY <1>1, <2>2
  <2>7. /\ R \in AllQueues /\ R[k] = << >> /\ R[SupL] = << >>
        /\ \A r \in Resource \ {k, SupL, heir} : R[r] = queue[r]
        /\ GapsJoin(R[heir], queue[heir], heir)
        /\ \A q \in ToSet(queue[k]) \cup ToSet(queue[SupL]) : q.kind # "insert" => Left(q, R[heir], heir)
    BY <1>1, <2>3, <2>4, <2>6, InheritTwice
  <2>8. Discarded(R, k, heir) BY <1>2, <2>2, <2>7 DEF Discarded
  <2> QED BY <2>2, <2>3, <2>5, <2>8
<1>3. CASE ~OnLeft(k)
  <2>1. PICK R : R = lock_rec_reset_and_release_wait(lock_rec_reset_and_release_wait(
                        lock_rec_inherit_to_gap(lock_rec_inherit_to_gap(queue, SupL, k), SupL, Sup), k), Sup)
    OBVIOUS
  <2>2. k \in Rec /\ k # Sup /\ k # SupL /\ k \in Resource BY <1>1, Constants
  <2>3. /\ R \in AllQueues /\ R[k] = << >> /\ R[Sup] = << >>
        /\ \A r \in Resource \ {k, Sup, SupL} : R[r] = queue[r]
        /\ GapsJoin(R[SupL], queue[SupL], SupL)
        /\ \A q \in ToSet(queue[k]) \cup ToSet(queue[Sup]) : q.kind # "insert" => Left(q, R[SupL], SupL)
    BY <1>1, <2>1, <2>2, InheritTwice
  <2>4. PICK A : A = [R EXCEPT ![Sup] = R[SupL], ![SupL] = << >>] OBVIOUS
  <2>5. lock_update_discard(queue, k) = A BY <1>3, <2>1, <2>4 DEF lock_update_discard
  <2>6. /\ A \in AllQueues /\ A[Sup] = R[SupL] /\ A[SupL] = << >>
        /\ \A r \in Resource \ {Sup, SupL} : A[r] = R[r]
    BY <1>1, <2>3, <2>4, EmptyFine DEF AllQueues
  <2>7. GapsJoin(A[Sup], queue[SupL], Sup) BY <2>3, <2>6, Constants DEF GapsJoin, GapKind
  <2>8. \A q \in ToSet(queue[k]) \cup ToSet(queue[Sup]) : q.kind # "insert" => Left(q, A[Sup], Sup)
    BY <2>3, <2>6, Constants DEF Left, GapKind
  <2>9. A[k] = << >> /\ \A r \in Resource \ {k, SupL, Sup} : A[r] = queue[r] BY <2>2, <2>3, <2>6
  <2>10. Discarded(A, k, Sup) BY <1>3, <2>6, <2>7, <2>8, <2>9 DEF Discarded
  <2>11. Sup # k BY <2>2
  <2> QED BY <2>5, <2>10, <2>11
<1> QED BY <1>2, <1>3

(* all supremum records are alike *)
LEMMA SupFine ==
    ASSUME NEW s, Fine(s, SupL)
    PROVE  Fine(s, Sup)
<1>1. \A p, q : lock_has_to_wait(q, p, SupL) <=> lock_has_to_wait(q, p, Sup)
  BY Constants, LockSysAssumption DEF lock_has_to_wait
<1>2. \A q : ~Real(q, Sup) BY Constants, LockSysAssumption DEF Real
<1> QED BY <1>1, <1>2 DEF Fine, Ordered, Held

(* what a removal of record k leaves in the queues *)
Removed(Q, k) ==
    /\ Sound(Q, recs \ {k}, IF Alone(k) THEN None ELSE split)
    /\ Calms(Q, queue)
    /\ \A j \in recs \ {k} : GapsJoin(Q[j], queue[j], j)

(* the queues after lock_update_delete are in order *)
LEMMA DeleteFacts ==
    ASSUME RowsOK, QueuesOK, NEW k \in recs, ~Alone(k)
    PROVE  Removed(lock_update_delete(queue, k), k)
<1>1. /\ queue \in AllQueues /\ \A r \in Resource : Fine(queue[r], r)
      /\ \A j \in Key \ recs : queue[j] = << >>
      /\ split = None => queue[SupL] = << >>
  BY SoundParts DEF QueuesOK
<1>2. recs \subseteq Key /\ k \in Key /\ k \in Rec /\ SupL \notin Key /\ k \in Resource
      /\ Key \subseteq Resource /\ SupL \in Resource
  BY Constants DEF RowsOK, Rec
<1>3. PICK heir \in Rec : heir = NextRec(k) /\ Present(heir) /\ heir # k BY <1>2, NextRecFacts
<1>4. PICK Q : Q = lock_update_delete(queue, k) OBVIOUS
<1>5. Bequeaths(Q, queue, k, heir) BY <1>1, <1>2, <1>3, <1>4, BequeathFacts DEF lock_update_delete
<1>6. (\A r \in Resource : Fine(Q[r], r)) /\ Calms(Q, queue) BY <1>1, <1>2, <1>5, BequeathSound
<1>7. \A j \in Key \ (recs \ {k}) : Q[j] = << >>
  <2> SUFFICES ASSUME NEW j \in Key \ (recs \ {k}) PROVE Q[j] = << >> OBVIOUS
  <2>1. CASE j = k BY <2>1, <1>5 DEF Bequeaths
  <2>2. CASE j # k
    <3>1. j \notin recs /\ j # Sup /\ j # SupL BY <2>2, Constants
    <3>2. j # heir BY <3>1, <1>3 DEF Present
    <3> QED BY <2>2, <3>1, <3>2, <1>1, <1>2, <1>5 DEF Bequeaths
  <2> QED BY <2>1, <2>2
<1>8. split = None => Q[SupL] = << >>
  <2> SUFFICES ASSUME split = None PROVE Q[SupL] = << >> OBVIOUS
  <2>1. SupL # heir /\ SupL # k BY <1>2, <1>3, Constants DEF Present, RowsOK
  <2> QED BY <2>1, <1>1, <1>2, <1>5 DEF Bequeaths
<1>9. \A j \in recs \ {k} : GapsJoin(Q[j], queue[j], j) BY <1>2, <1>5 DEF Bequeaths
<1>10. Q \in AllQueues BY <1>5 DEF Bequeaths
<1>11. Sound(Q, recs \ {k}, split) BY <1>6, <1>7, <1>8, <1>10, SoundParts
<1> QED BY <1>4, <1>6, <1>9, <1>11 DEF Removed

(* and so they are after lock_update_discard *)
LEMMA DiscardRemoves ==
    ASSUME RowsOK, QueuesOK, NEW k \in recs, Alone(k)
    PROVE  Removed(lock_update_discard(queue, k), k)
<1>1. /\ queue \in AllQueues /\ \A r \in Resource : Fine(queue[r], r)
      /\ \A j \in Key \ recs : queue[j] = << >>
  BY SoundParts DEF QueuesOK
<1>2. recs \subseteq Key /\ k \in Key /\ k \in Rec /\ SupL \notin Key /\ k \in Resource
      /\ Key \subseteq Resource /\ SupL \in Resource /\ Sup \in Resource /\ Sup \notin Key
      /\ Key \subseteq Rec /\ Sup \in Rec /\ Sup # SupL
  BY Constants DEF RowsOK, Rec
<1>3. PICK Q : Q = lock_update_discard(queue, k) OBVIOUS
<1>4. PICK heir \in recs \cup {Sup} : heir # k /\ Discarded(Q, k, heir) BY <1>1, <1>3, DiscardFacts
<1>5. heir \in Rec /\ heir \in Resource /\ heir # SupL BY <1>2
<1>6. PICK s : s = IF OnLeft(k) THEN queue[heir] ELSE queue[SupL] OBVIOUS
<1>7. Fine(s, heir) /\ GapsJoin(Q[heir], s, heir) /\ s \in Seq(Request)
  <2>1. GapsJoin(Q[heir], s, heir) BY <1>4, <1>6 DEF Discarded
  <2>2. CASE OnLeft(k) BY <2>1, <2>2, <1>1, <1>5, <1>6 DEF Fine
  <2>3. CASE ~OnLeft(k)
    <3>1. heir = Sup BY <2>3, <1>4 DEF Discarded
    <3> QED BY <2>1, <2>3, <3>1, <1>1, <1>2, <1>6, SupFine DEF Fine
  <2> QED BY <2>2, <2>3
<1>8. ASSUME NEW r \in Resource
      PROVE  /\ Fine(Q[r], r)
             /\ \A q \in ToSet(Q[r]) : q.wait => \E o \in Resource : q \in ToSet(queue[o])
  <2>1. CASE r \in {k, SupL}
    <3>1. Q[r] = << >> BY <2>1, <1>4 DEF Discarded
    <3> QED BY <3>1, EmptyFine
  <2>2. CASE r = heir
    <3>1. Fine(Q[r], r) BY <2>2, <1>5, <1>7, GapsJoinFine
    <3>2. \A q \in ToSet(Q[r]) : q.wait => q \in ToSet(s) BY <2>2, <1>7, GapsJoinSet
    <3>3. s = queue[heir] \/ s = queue[SupL] BY <1>6
    <3> QED BY <3>1, <3>2, <3>3, <1>2, <1>5
  <2>3. CASE r \notin {k, SupL, heir}
    <3>1. Q[r] = queue[r] BY <2>3, <1>4 DEF Discarded
    <3> QED BY <3>1, <1>1
  <2> QED BY <2>1, <2>2, <2>3
<1>9. Calms(Q, queue) BY <1>8, CalmsBy
<1>10. \A j \in Key \ (recs \ {k}) : Q[j] = << >>
  <2> SUFFICES ASSUME NEW j \in Key \ (recs \ {k}) PROVE Q[j] = << >> OBVIOUS
  <2>1. CASE j = k BY <2>1, <1>4 DEF Discarded
  <2>2. CASE j # k
    <3>1. j \notin recs /\ j # Sup /\ j # SupL /\ j # heir /\ j \in Resource BY <2>2, <1>2
    <3> QED BY <2>2, <3>1, <1>1, <1>4 DEF Discarded
  <2> QED BY <2>1, <2>2
<1>11. \A j \in recs \ {k} : GapsJoin(Q[j], queue[j], j)
  <2> SUFFICES ASSUME NEW j \in recs \ {k} PROVE GapsJoin(Q[j], queue[j], j) OBVIOUS
  <2>1. j \in Resource /\ j # SupL /\ j # Sup BY <1>2
  <2>2. CASE j = heir
    <3>1. OnLeft(k) BY <2>1, <2>2, <1>4 DEF Discarded
    <3> QED BY <2>2, <3>1, <1>6, <1>7
  <2>3. CASE j # heir
    <3>1. Q[j] = queue[j] BY <2>1, <2>3, <1>4 DEF Discarded
    <3>2. queue[j] \in Seq(Request) BY <2>1, <1>1 DEF Fine
    <3> QED BY <3>1, <3>2 DEF GapsJoin
  <2> QED BY <2>2, <2>3
<1>12. Q \in AllQueues /\ Q[SupL] = << >> BY <1>4 DEF Discarded
<1>13. Sound(Q, recs \ {k}, None) BY <1>8, <1>10, <1>12, SoundParts
<1> QED BY <1>3, <1>9, <1>11, <1>13 DEF Removed

-----------------------------------------------------------------------------
(* A request joins a queue *)

(* A is Q with the request p at the end of the queue of r *)
JoinsAt(A, Q, r, p) ==
    /\ A \in AllQueues /\ A[r] = Append(Q[r], p) /\ ToSet(A[r]) = ToSet(Q[r]) \cup {p}
    /\ \A o \in Resource \ {r} : A[o] = Q[o]

(* a request appended to a queue has joined it *)
LEMMA JoinsAtFacts ==
    ASSUME NEW Q \in AllQueues, NEW r \in Resource, NEW p \in Request
    PROVE  JoinsAt([Q EXCEPT ![r] = Append(@, p)], Q, r, p)
<1>1. Q[r] \in Seq(Request) BY DEF AllQueues
<1>2. PICK s : s = Append(Q[r], p) OBVIOUS
<1>3. s \in Seq(Request) /\ ToSet(s) = ToSet(Q[r]) \cup {p} BY <1>1, <1>2, AppendFacts
<1>4. PICK A : A = [Q EXCEPT ![r] = s] OBVIOUS
<1>5. A \in AllQueues /\ A[r] = s /\ \A o \in Resource \ {r} : A[o] = Q[o] BY <1>3, <1>4 DEF AllQueues
<1>6. JoinsAt(A, Q, r, p) BY <1>2, <1>3, <1>5 DEF JoinsAt
<1> QED BY <1>2, <1>4, <1>6

(* the queues stay in order when a request joins for a reason *)
LEMMA JoinSound ==
    ASSUME NEW Q, NEW R, NEW sp, Sound(Q, R, sp), NEW r \in Resource, r \in Key => r \in R,
           r = SupL => sp # None, NEW p, Joins(p, Q[r], r), NEW A, JoinsAt(A, Q, r, p)
    PROVE  Sound(A, R, sp)
<1>1. /\ Q \in AllQueues /\ \A o \in Resource : Fine(Q[o], o)
      /\ \A k \in Key \ R : Q[k] = << >>
      /\ sp = None => Q[SupL] = << >>
  BY SoundParts
<1>2. ASSUME NEW o \in Resource PROVE Fine(A[o], o)
  <2>1. CASE o = r
    <3>1. A[o] = Append(Q[r], p) BY <2>1 DEF JoinsAt
    <3> QED BY <2>1, <3>1, <1>1, JoinFine
  <2>2. CASE o # r BY <2>2, <1>1 DEF JoinsAt
  <2> QED BY <2>1, <2>2
<1>3. \A k \in Key \ R : A[k] = << >> BY <1>1, Constants DEF JoinsAt
<1>4. sp = None => A[SupL] = << >> BY <1>1, Constants DEF JoinsAt
<1>5. A \in AllQueues BY DEF JoinsAt
<1> QED BY <1>2, <1>3, <1>4, <1>5, SoundParts

(* RULE 1 still holds when a request joins and the implicit lock it meets  *)
(* is explicit                                                             *)
LEMMA JoinShown ==
    ASSUME NEW Q, NEW R, NEW wr, Shown(Q, R, wr), R \subseteq Key, NEW r \in Resource, NEW p, NEW A, JoinsAt(A, Q, r, p),
           r \in R /\ wr[r] # None /\ p.trx # wr[r] /\ p.kind \notin {"gap", "insert"}
             => lock_rec_has_expl(Q, wr[r], r, "X", "rec")
    PROVE  Shown(A, R, wr)
<1> SUFFICES ASSUME NEW k \in R, NEW q \in ToSet(A[k]),
                    wr[k] # None, q.trx # wr[k], q.kind \notin {"gap", "insert"}
             PROVE  lock_rec_has_expl(A, wr[k], k, "X", "rec")
  BY DEF Shown
<1>1. k \in Resource BY Constants
<1>2. ToSet(Q[k]) \subseteq ToSet(A[k]) /\ (q \in ToSet(Q[k]) \/ (k = r /\ q = p))
  BY <1>1 DEF JoinsAt
<1>3. lock_rec_has_expl(Q, wr[k], k, "X", "rec") BY <1>2 DEF Shown
<1> QED BY <1>2, <1>3 DEF lock_rec_has_expl

(* who waits after a request has joined *)
LEMMA JoinWaiting ==
    ASSUME NEW Q, NEW r \in Resource, NEW p, NEW A, JoinsAt(A, Q, r, p), NEW t
    PROVE  IsWaiting(A, t) <=> IsWaiting(Q, t) \/ (p.trx = t /\ p.wait)
<1>1. \A o \in Resource : \A q : q \in ToSet(A[o]) <=> q \in ToSet(Q[o]) \/ (o = r /\ q = p)
  BY DEF JoinsAt
<1> QED BY <1>1 DEF IsWaiting

(* C is Q after a granted lock of t was added on record r, if needed *)
Adds(C, Q, r) ==
    /\ Sound(C, recs, split) /\ Shown(C, recs, writer)
    /\ \A t \in Trx : IsWaiting(C, t) <=> IsWaiting(Q, t)
    /\ \A o \in Resource : ToSet(Q[o]) \subseteq ToSet(C[o])
    /\ \A o \in Resource \ {r} : C[o] = Q[o]

(* nothing has to be added when the lock is there *)
LEMMA AddsSame ==
    ASSUME NEW Q, NEW r, Sound(Q, recs, split), Shown(Q, recs, writer)
    PROVE  Adds(Q, Q, r)
BY DEF Adds

(* the queues after lock_rec_add_to_queue of a granted lock that is        *)
(* compatible                                                              *)
LEMMA AddSound ==
    ASSUME RowsOK, NEW Q, Sound(Q, recs, split), Shown(Q, recs, writer), NEW r \in Rec, Present(r),
           NEW q \in Request, ~q.wait, Joins(OnRec(q, r), Q[r], r),
           r \in Key /\ writer[r] # None /\ q.trx # writer[r] /\ q.kind \notin {"gap", "insert"}
             => lock_rec_has_expl(Q, writer[r], r, "X", "rec")
    PROVE  /\ Adds(lock_rec_add_to_queue(Q, r, q), Q, r)
           /\ OnRec(q, r) \in ToSet(lock_rec_add_to_queue(Q, r, q)[r])
<1>1. PICK p \in Request : p = OnRec(q, r) /\ p.wait = q.wait /\ (r \in Key => p = q)
  BY OnRecFacts, Constants
<1>2. PICK A : A = lock_rec_add_to_queue(Q, r, q) OBVIOUS
<1>3. r \in Resource /\ Q \in AllQueues /\ recs \subseteq Key BY SoundParts DEF Resource, RowsOK
<1>4. /\ A \in AllQueues /\ \A o \in Resource \ {r} : A[o] = Q[o]
      /\ A = Q \/ A[r] = Append(Q[r], p)
      /\ p \in ToSet(A[r])
  BY <1>1, <1>2, <1>3, AddFacts
<1>5. CASE A = Q BY <1>1, <1>2, <1>4, <1>5, AddsSame
<1>6. CASE A[r] = Append(Q[r], p)
  <2>1. Q[r] \in Seq(Request) BY <1>3 DEF AllQueues
  <2>2. JoinsAt(A, Q, r, p) BY <2>1, <1>4, <1>6, AppendFacts DEF JoinsAt
  <2>3. r \in Key => r \in recs BY Constants DEF Present
  <2>4. r = SupL => split # None BY <1>3, Constants DEF Present
  <2>5. Sound(A, recs, split) BY <2>2, <2>3, <2>4, <1>1, <1>3, JoinSound
  <2>6. Shown(A, recs, writer)
    <3>1. r \in recs /\ writer[r] # None /\ p.trx # writer[r] /\ p.kind \notin {"gap", "insert"}
             => lock_rec_has_expl(Q, writer[r], r, "X", "rec")
      BY <1>1, <1>3
    <3> QED BY <3>1, <2>2, <1>3, JoinShown
  <2>7. ASSUME NEW t \in Trx PROVE IsWaiting(A, t) <=> IsWaiting(Q, t)
    BY <2>2, <1>1, <1>3, JoinWaiting
  <2>8. \A o \in Resource : ToSet(Q[o]) \subseteq ToSet(A[o]) BY <2>2 DEF JoinsAt
  <2>9. Adds(A, Q, r) BY <2>5, <2>6, <2>7, <2>8, <1>4 DEF Adds
  <2> QED BY <2>9, <1>1, <1>2, <1>4
<1> QED BY <1>5, <1>6, <1>4

(* a granted lock on the record is an explicit one *)
LEMMA ExplIs ==
    ASSUME NEW Q, NEW t, NEW k, NEW mode, NEW p \in ToSet(Q[k]),
           p.trx = t, ~p.wait, p.kind = "rec", p.mode = mode
    PROVE  lock_rec_has_expl(Q, t, k, mode, "rec")
BY DEF lock_rec_has_expl, lock_mode_stronger_or_eq

(* an implicit lock is made explicit; nobody can be in its way *)
LEMMA ConvertFacts ==
    ASSUME LockInv, NEW r \in Rec, Present(r)
    PROVE  LET C == lock_rec_convert_impl_to_expl(queue, r) IN
           /\ Adds(C, queue, r)
           /\ r \in Key /\ writer[r] # None => lock_rec_has_expl(C, writer[r], r, "X", "rec")
<1> DEFINE C0 == lock_rec_convert_impl_to_expl(queue, r)
<1>1. PICK C : C = C0 OBVIOUS
<1>2. Sound(queue, recs, split) /\ Shown(queue, recs, writer) /\ RowsOK
  BY DEF LockInv, QueuesOK, ImplicitIsExplicit, Shown
<1>3. CASE IsSup(r) \/ writer[r] = None \/ lock_rec_has_expl(queue, writer[r], r, "X", "rec")
  <2>1. C = queue BY <1>1, <1>3 DEF lock_rec_convert_impl_to_expl
  <2>2. Adds(queue, queue, r) BY <1>2, AddsSame
  <2>3. r \in Key => ~IsSup(r) BY Constants
  <2> QED BY <1>1, <1>3, <2>1, <2>2, <2>3
<1>4. CASE ~(IsSup(r) \/ writer[r] = None \/ lock_rec_has_expl(queue, writer[r], r, "X", "rec"))
  <2>1. r \in Key /\ r \in recs BY <1>4, Constants DEF Rec, IsSup, Present
  <2>2. PICK w \in Trx : w = writer[r] BY <1>2, <1>4, <2>1 DEF RowsOK
  <2>3. PICK q \in Request : q = NewLock(w, "X", "rec") /\ q.trx = w /\ q.mode = "X" /\ q.kind = "rec" /\ ~q.wait
    <3>1. "X" \in Mode /\ "rec" \in Kind BY DEF Mode, Kind
    <3> QED BY <3>1, NewLockFacts
  <2>4. OnRec(q, r) = q BY <1>4, OnRecFacts
  <2>5. Joins(q, queue[r], r)
    <3>1. ASSUME NEW p \in ToSet(queue[r]), p.trx # w, Real(p, r) PROVE FALSE
      <4>1. p.kind \notin {"gap", "insert"} BY <3>1, <2>1, Constants DEF Real
      <4> QED BY <4>1, <3>1, <2>1, <2>2, <1>2, <1>4 DEF Shown
    <3> QED BY <3>1, <2>3 DEF Joins
  <2>6. C = lock_rec_add_to_queue(queue, r, q)
    BY <1>1, <1>4, <2>2, <2>3 DEF lock_rec_convert_impl_to_expl
  <2>7. Adds(C, queue, r) /\ q \in ToSet(C[r]) BY <1>2, <2>2, <2>3, <2>4, <2>5, <2>6, AddSound
  <2>8. lock_rec_has_expl(C, w, r, "X", "rec") BY <2>3, <2>7, ExplIs
  <2> QED BY <1>1, <2>2, <2>7, <2>8
<1> QED BY <1>3, <1>4

-----------------------------------------------------------------------------
(* Lock requests *)

Places == {"run", "wait", "victim", "rollback", "release", "done"}

(* the parts of the invariant *)
LEMMA InvParts ==
    ASSUME LockInv
    PROVE  /\ RowsOK /\ TrxOK /\ QueuesOK /\ SleepOK
           /\ Sound(queue, recs, split) /\ Shown(queue, recs, writer) /\ queue \in AllQueues
BY SoundParts DEF LockInv, QueuesOK, ImplicitIsExplicit, Shown

(* no row has changed *)
LEMMA RowsSame == ASSUME RowsOK, UNCHANGED rows PROVE RowsOK'
BY DEF RowsOK, rows

(* the invariant from its parts, after a step *)
LEMMA NextInv ==
    ASSUME RowsOK', TrxOK', Sound(queue', recs', split'), Shown(queue', recs', writer'), SleepOK'
    PROVE  LockInv'
BY DEF LockInv, QueuesOK, ImplicitIsExplicit, Shown

(* the queues may have changed, only granted locks were added and no wait  *)
(* has begun or ended                                                      *)
LEMMA GrantedOK ==
    ASSUME LockInv, kernel = None, RowsOK', TrxOK', UNCHANGED <<pc, kernel>>,
           Sound(queue', recs', split'), Shown(queue', recs', writer'),
           \A t \in Trx : IsWaiting(queue', t) <=> IsWaiting(queue, t)
    PROVE  LockInv'
<1>1. SleepOK' BY InvParts DEF SleepOK
<1> QED BY <1>1, NextInv

(* the request q may wait in the queue of r *)
MayWait(Q, t, r, q) ==
    /\ Running(t) /\ ops[t] < MaxOps[t]
    /\ r \in Resource /\ (r \in Key => r \in recs) /\ (r = SupL => split # None)
    /\ Sound(Q, recs, split) /\ Shown(Q, recs, writer)
    /\ \A u \in Trx : IsWaiting(Q, u) <=> IsWaiting(queue, u)
    /\ q \in Request /\ q.trx = t /\ (IsSup(r) => q.kind \in {"insert", "ordinary"})
    /\ Conflicting(Q, q, r)
    /\ r \in Key /\ writer[r] # None /\ q.kind \notin {"gap", "insert"}
         => lock_rec_has_expl(Q, writer[r], r, "X", "rec")

(* lock_rec_enqueue_waiting, lock_table_enqueue_waiting: a request that    *)
(* has to wait joins, and the search begins                                *)
LEMMA EnqueueOK ==
    ASSUME LockInv, NEW t \in Trx, NEW Q, NEW r, NEW q, MayWait(Q, t, r, q), EnqueueWaiting(Q, t, r, q)
    PROVE  LockInv'
<1>1. RowsOK /\ TrxOK /\ SleepOK /\ Q \in AllQueues BY InvParts, SoundParts DEF MayWait
<1>2. PICK p : p = [q EXCEPT !.wait = TRUE] OBVIOUS
<1>3. /\ p \in Request /\ p.trx = t /\ p.mode = q.mode /\ p.kind = q.kind /\ p.wait
      /\ q \in Request /\ q.trx = t
  BY <1>2 DEF MayWait, Request
<1>4. OnRec(p, r) = p BY <1>3, OnRecFacts DEF MayWait
<1>5. PICK A : A = [Q EXCEPT ![r] = Append(@, p)] OBVIOUS
<1>6. queue' = A /\ kernel' = t /\ ops' = [ops EXCEPT ![t] = @ + 1] /\ UNCHANGED <<rows, pc, seen>>
  BY <1>2, <1>4, <1>5 DEF EnqueueWaiting, Count
<1>7. r \in Resource BY DEF MayWait
<1>8. JoinsAt(A, Q, r, p) BY <1>1, <1>3, <1>5, <1>7, JoinsAtFacts
<1>9. Joins(p, Q[r], r)
  <2>1. PICK o \in ToSet(Q[r]) : lock_has_to_wait(q, o, r) BY DEF MayWait, Conflicting
  <2>2. lock_has_to_wait(p, o, r) BY <2>1, <1>3, SameConflict
  <2> QED BY <2>2, <1>3 DEF Joins
<1>10. recs' = recs /\ split' = split /\ writer' = writer /\ recs \subseteq Key
  BY <1>1, <1>6 DEF rows, RowsOK
<1>11. Sound(queue', recs', split') BY <1>6, <1>7, <1>8, <1>9, <1>10, JoinSound DEF MayWait
<1>12. Shown(queue', recs', writer')
  <2>1. Shown(Q, recs, writer) BY DEF MayWait
  <2>2. r \in recs /\ writer[r] # None /\ p.trx # writer[r] /\ p.kind \notin {"gap", "insert"}
          => lock_rec_has_expl(Q, writer[r], r, "X", "rec")
    BY <1>3, <1>10 DEF MayWait
  <2>3. Shown(A, recs, writer) BY <2>1, <2>2, <1>7, <1>8, <1>10, JoinShown
  <2> QED BY <2>3, <1>6, <1>10
<1>13. RowsOK' BY <1>1, <1>6, RowsSame
<1>14. TrxOK'
  <2>1. ops[t] \in Nat /\ ops[t] < MaxOps[t] /\ MaxOps[t] \in Nat
    BY <1>1, LockSysAssumption DEF TrxOK, MayWait
  <2>2. ops' \in [Trx -> Nat] /\ \A u \in Trx : ops'[u] <= MaxOps[u]
    BY <2>1, <1>1, <1>6 DEF TrxOK
  <2> QED BY <2>2, <1>1, <1>6, <1>10 DEF TrxOK
<1>15. kernel = None /\ pc[t] = "run" /\ t # None BY Constants DEF MayWait, Running
<1>16. SleepOK'
  <2>1. ~IsWaiting(Q, t) BY <1>1, <1>15 DEF SleepOK, MayWait
  <2>2. ASSUME NEW u \in Trx, u # t PROVE IsWaiting(queue', u) <=> pc'[u] = "wait"
    <3>1. IsWaiting(A, u) <=> IsWaiting(Q, u) BY <2>2, <1>3, <1>7, <1>8, JoinWaiting
    <3>2. kernel # u BY <1>15, Constants
    <3> QED BY <3>1, <3>2, <1>1, <1>6 DEF SleepOK, MayWait
  <2>3. ASSUME NEW o \in Resource, NEW i \in DOMAIN A[o], A[o][i].trx = t, A[o][i].wait
        PROVE  i = Len(A[o])
    <3>1. Q[o] \in Seq(Request) BY <1>1 DEF AllQueues
    <3>2. ASSUME NEW j \in DOMAIN Q[o] PROVE ~(Q[o][j].trx = t /\ Q[o][j].wait)
      <4>1. Q[o][j] \in ToSet(Q[o]) BY DEF ToSet
      <4> QED BY <4>1, <2>1 DEF IsWaiting
    <3>3. CASE o # r BY <3>2, <3>3, <2>3, <1>8 DEF JoinsAt
    <3>4. CASE o = r
      <4>1. A[o] = Append(Q[o], p) BY <3>4, <1>8 DEF JoinsAt
      <4>2. /\ DOMAIN A[o] = 1 .. Len(Q[o]) + 1 /\ Len(A[o]) = Len(Q[o]) + 1 /\ Len(Q[o]) \in Nat
            /\ DOMAIN Q[o] = 1 .. Len(Q[o]) /\ \A j \in 1 .. Len(Q[o]) : A[o][j] = Q[o][j]
        BY <3>1, <4>1, <1>3, AppendIs
      <4>3. i \notin 1 .. Len(Q[o]) BY <3>2, <2>3, <4>2
      <4> QED BY <4>2, <4>3
    <3> QED BY <3>3, <3>4
  <2> QED BY <2>2, <2>3, <1>6, <1>15 DEF SleepOK
<1> QED BY <1>11, <1>12, <1>13, <1>14, <1>16, NextInv

(* lock_table *)
LEMMA LockTableOK ==
    ASSUME LockInv, NEW t \in Trx, NEW mode \in Mode, LockTable(t, mode)
    PROVE  LockInv'
<1>1. /\ RowsOK /\ TrxOK /\ SleepOK /\ queue \in AllQueues
      /\ Sound(queue, recs, split) /\ Shown(queue, recs, writer)
  BY InvParts
<1>2. Tab \in Resource /\ Tab \notin Key /\ Tab # SupL /\ ~IsSup(Tab) /\ recs \subseteq Key
  BY <1>1, Constants, LockSysAssumption DEF RowsOK
<1>3. PICK q \in Request : q = NewLock(t, mode, "table") /\ q.trx = t /\ q.mode = mode /\ q.kind = "table" /\ ~q.wait
  <2>1. "table" \in Kind BY DEF Kind
  <2> QED BY <2>1, NewLockFacts
<1>4. CASE TableFree(t, mode)
  <2>1. PICK A : A = [queue EXCEPT ![Tab] = Append(@, q)] OBVIOUS
  <2>2. queue' = A /\ UNCHANGED <<rows, pc, kernel, ops, seen>> BY <1>3, <1>4, <2>1 DEF LockTable
  <2>3. JoinsAt(A, queue, Tab, q) BY <1>1, <1>2, <1>3, <2>1, JoinsAtFacts
  <2>4. Joins(q, queue[Tab], Tab)
    <3>1. ASSUME NEW p \in ToSet(queue[Tab]), p.trx # q.trx, Real(p, Tab), Real(q, Tab)
          PROVE  lock_mode_compatible(p.mode, q.mode)
      <4>1. ~lock_has_to_wait(q, p, Tab) BY <1>3, <1>4 DEF TableFree, Conflicting
      <4> QED BY <3>1, <4>1, RealConflict
    <3> QED BY <3>1, <1>3 DEF Joins
  <2>5. UNCHANGED <<recs, split, writer>> BY <2>2 DEF rows
  <2>6. Sound(queue', recs', split') BY <1>1, <1>2, <2>2, <2>3, <2>4, <2>5, JoinSound
  <2>7. Shown(A, recs, writer) BY <1>1, <1>2, <2>3, JoinShown
  <2>8. \A u \in Trx : IsWaiting(queue', u) <=> IsWaiting(queue, u) BY <1>2, <1>3, <2>2, <2>3, JoinWaiting
  <2>9. RowsOK' BY <1>1, <2>2, RowsSame
  <2>10. TrxOK' BY <1>1, <2>2, <2>5 DEF TrxOK
  <2>11. kernel = None BY DEF LockTable, Running
  <2> QED BY <2>2, <2>5, <2>6, <2>7, <2>8, <2>9, <2>10, <2>11, GrantedOK
<1>5. CASE ~TableFree(t, mode)
  <2>1. EnqueueWaiting(queue, t, Tab, q) /\ Running(t) /\ ops[t] < MaxOps[t] BY <1>3, <1>5 DEF LockTable
  <2>2. Conflicting(queue, q, Tab) BY <1>3, <1>5 DEF TableFree
  <2>3. MayWait(queue, t, Tab, q) BY <1>1, <1>2, <1>3, <2>1, <2>2 DEF MayWait
  <2> QED BY <2>1, <2>3, EnqueueOK
<1> QED BY <1>4, <1>5

(* one more operation of t is counted *)
LEMMA CountOK ==
    ASSUME TrxOK, NEW t \in Trx, ops[t] < MaxOps[t], Count(t)
    PROVE  ops' \in [Trx -> Nat] /\ \A u \in Trx : ops'[u] <= MaxOps[u]
<1>1. ops[t] \in Nat /\ MaxOps[t] \in Nat /\ ops' = [ops EXCEPT ![t] = @ + 1]
  BY LockSysAssumption DEF TrxOK, Count
<1> QED BY <1>1 DEF TrxOK

(* lock_clust_rec_read_check_and_lock *)
LEMMA ReadRecordOK ==
    ASSUME LockInv, NEW t \in Trx, NEW r \in Rec, NEW mode \in {"S", "X"},
           NEW kind \in {"ordinary", "gap", "rec"}, ReadRecord(t, r, mode, kind)
    PROVE  LockInv'
<1>1. /\ RowsOK /\ TrxOK /\ SleepOK /\ queue \in AllQueues
      /\ Sound(queue, recs, split) /\ Shown(queue, recs, writer) /\ recs \subseteq Key
  BY InvParts DEF RowsOK
<1>2. Present(r) BY DEF ReadRecord, Present
<1>3. Running(t) /\ ops[t] < MaxOps[t] /\ (IsSup(r) => kind = "ordinary") BY DEF ReadRecord, MayStart
<1>4. PICK C : C = lock_rec_convert_impl_to_expl(queue, r) OBVIOUS
<1>5. /\ Adds(C, queue, r)
      /\ r \in Key /\ writer[r] # None => lock_rec_has_expl(C, writer[r], r, "X", "rec")
  BY <1>2, <1>4, ConvertFacts
<1>6. PICK q \in Request : q = NewLock(t, mode, kind) /\ q.trx = t /\ q.mode = mode /\ q.kind = kind /\ ~q.wait
  <2>1. mode \in Mode /\ kind \in Kind BY DEF Mode, Kind
  <2> QED BY <2>1, NewLockFacts
<1>7. r \in Resource /\ (r \in Key => r \in recs) /\ (r = SupL => split # None)
  BY <1>1, <1>2, Constants DEF Present, Resource
<1>8. PICK has : has = lock_rec_has_expl(C, t, r, mode, kind) OBVIOUS
<1>9. IF ~has /\ Conflicting(C, q, r)
        THEN EnqueueWaiting(C, t, r, q)
        ELSE /\ queue' = IF has THEN C ELSE lock_rec_add_to_queue(C, r, q)
             /\ seen' = [seen EXCEPT ![t] = @
                  \cup (IF kind = "rec" THEN {} ELSE GapBefore(r))
                  \cup (IF kind = "gap" \/ IsSup(r) THEN {} ELSE {r})]
             /\ Count(t)
             /\ UNCHANGED <<rows, pc, kernel>>
  BY <1>4, <1>6, <1>8, Zenon DEF ReadRecord
<1>10. CASE ~has /\ Conflicting(C, q, r)
  <2>1. EnqueueWaiting(C, t, r, q) BY <1>9, <1>10
  <2>2. MayWait(C, t, r, q) BY <1>3, <1>5, <1>6, <1>7, <1>10 DEF MayWait, Adds
  <2> QED BY <2>1, <2>2, EnqueueOK
<1>11. CASE ~(~has /\ Conflicting(C, q, r))
  <2>1. /\ queue' = IF has THEN C ELSE lock_rec_add_to_queue(C, r, q)
        /\ Count(t) /\ UNCHANGED <<rows, pc, kernel>>
        /\ seen' = [seen EXCEPT ![t] = @
                  \cup (IF kind = "rec" THEN {} ELSE GapBefore(r))
                  \cup (IF kind = "gap" \/ IsSup(r) THEN {} ELSE {r})]
    BY <1>9, <1>11
  <2>2. UNCHANGED <<recs, split, writer, pc, kernel>> BY <2>1 DEF rows
  <2>3. Adds(queue', C, r)
    <3>1. CASE has
      <4>1. Adds(C, C, r) BY <1>5, AddsSame DEF Adds
      <4> QED BY <3>1, <4>1, <2>1
    <3>2. CASE ~has
      <4>1. OnRec(q, r) = q BY <1>3, <1>6, OnRecFacts
      <4>2. Joins(q, C[r], r)
        <5>1. ASSUME NEW p \in ToSet(C[r]), p.trx # q.trx, Real(p, r), Real(q, r)
              PROVE  lock_mode_compatible(p.mode, q.mode)
          <6>1. ~lock_has_to_wait(q, p, r) BY <1>11, <3>2 DEF Conflicting
          <6> QED BY <5>1, <6>1, RealConflict
        <5> QED BY <5>1, <1>6 DEF Joins
      <4>3. Sound(C, recs, split) /\ Shown(C, recs, writer) BY <1>5 DEF Adds
      <4>4. Adds(lock_rec_add_to_queue(C, r, q), C, r)
        BY <4>1, <4>2, <4>3, <1>1, <1>2, <1>5, <1>6, AddSound
      <4> QED BY <4>4, <3>2, <2>1
    <3> QED BY <3>1, <3>2
  <2>4. RowsOK' BY <1>1, <2>1, RowsSame
  <2>5. seen' \in [Trx -> SUBSET Key]
    <3>1. PICK X : X = (IF kind = "rec" THEN {} ELSE GapBefore(r))
                       \cup (IF kind = "gap" \/ IsSup(r) THEN {} ELSE {r}) OBVIOUS
    <3>2. X \subseteq Key BY <3>1 DEF GapBefore, Rec, IsSup
    <3>3. seen' = [seen EXCEPT ![t] = @ \cup X] BY <2>1, <3>1, Zenon
    <3> QED BY <3>2, <3>3, <1>1 DEF TrxOK
  <2>6. TrxOK' BY <2>2, <2>5, <2>1, <1>1, <1>3, CountOK DEF TrxOK
  <2>7. Sound(queue', recs', split') /\ Shown(queue', recs', writer')
        /\ \A u \in Trx : IsWaiting(queue', u) <=> IsWaiting(queue, u)
    BY <2>2, <2>3, <1>5 DEF Adds
  <2>8. kernel = None BY <1>3 DEF Running
  <2> QED BY <2>2, <2>4, <2>6, <2>7, <2>8, GrantedOK
<1> QED BY <1>10, <1>11

(* a change of record k by t, with its undo log record e *)
LEMMA ChangeOK ==
    ASSUME RowsOK, NEW t \in Trx, NEW k \in Key, NEW e \in [rec : Key, new : BOOLEAN, mark : BOOLEAN],
           e.rec = k, writer[k] \in {t, None}, e.new => k \notin recs,
           undo' = [undo EXCEPT ![t] = Append(@, e)], writer' = [writer EXCEPT ![k] = t],
           recs' = recs \cup {k}, marked' \subseteq recs', UNCHANGED <<split, splits>>
    PROVE  RowsOK'
<1>1. PICK E : E = [rec : Key, new : BOOLEAN, mark : BOOLEAN] OBVIOUS
<1>2. undo \in [Trx -> Seq(E)] /\ e \in E BY <1>1 DEF RowsOK
<1>3. undo[t] \in Seq(E) BY <1>2
<1>4. PICK n \in Nat : n = Len(undo[t]) BY <1>3
<1>5. PICK w : w = Append(undo[t], e) OBVIOUS
<1>6. /\ w \in Seq(E) /\ DOMAIN w = 1 .. n + 1 /\ DOMAIN undo[t] = 1 .. n
      /\ \A i \in 1 .. n : w[i] = undo[t][i] /\ undo[t][i] \in E
      /\ w[n + 1] = e
  BY <1>2, <1>3, <1>4, <1>5, AppendIs
<1>7. undo' = [undo EXCEPT ![t] = w] BY <1>5
<1>8. undo' \in [Trx -> Seq(E)] /\ undo'[t] = w /\ \A u \in Trx \ {t} : undo'[u] = undo[u]
  BY <1>2, <1>6, <1>7
<1>9. /\ writer' \in [Key -> Trx \cup {None}] /\ writer'[k] = t
      /\ \A j \in Key \ {k} : writer'[j] = writer[j]
  BY DEF RowsOK
<1>10. \A u \in Trx : \A i \in DOMAIN undo[u] : undo[u][i].rec \in Key /\ writer[undo[u][i].rec] = u
  <2> SUFFICES ASSUME NEW u \in Trx, NEW i \in DOMAIN undo[u]
               PROVE  undo[u][i].rec \in Key /\ writer[undo[u][i].rec] = u OBVIOUS
  <2>1. undo[u] \in Seq(E) BY <1>2
  <2>2. undo[u][i] \in E BY <2>1
  <2>3. undo[u][i].rec \in Key BY <2>2, <1>1
  <2> QED BY <2>3 DEF RowsOK
<1>11. ASSUME NEW u \in Trx, NEW i \in DOMAIN undo'[u] PROVE writer'[undo'[u][i].rec] = u
  <2>1. CASE u = t
    <3>1. CASE i = n + 1 BY <2>1, <3>1, <1>6, <1>8, <1>9
    <3>2. CASE i # n + 1
      <4>1. i \in 1 .. n /\ undo'[u][i] = undo[t][i] BY <2>1, <3>2, <1>6, <1>8
      <4>2. undo[t][i].rec \in Key /\ writer[undo[t][i].rec] = t BY <4>1, <1>6, <1>10
      <4> QED BY <4>1, <4>2, <2>1, <1>9
    <3> QED BY <3>1, <3>2
  <2>2. CASE u # t
    <3>1. undo'[u] = undo[u] BY <2>2, <1>8
    <3>2. undo[u][i].rec \in Key /\ writer[undo[u][i].rec] = u BY <3>1, <1>10
    <3>3. undo[u][i].rec # k BY <3>2, <2>2, Constants
    <3> QED BY <3>1, <3>2, <3>3, <1>9
  <2> QED BY <2>1, <2>2
<1>12. ASSUME NEW u \in Trx, NEW i \in DOMAIN undo'[u], NEW j \in DOMAIN undo'[u], i < j, undo'[u][j].new
       PROVE  undo'[u][i].rec # undo'[u][j].rec
  <2>1. CASE u # t BY <2>1, <1>8, <1>12 DEF RowsOK
  <2>2. CASE u = t
    <3>1. i \in 1 .. n + 1 /\ j \in 1 .. n + 1 BY <2>2, <1>6, <1>8
    <3>2. i \in 1 .. n /\ undo'[u][i] = undo[t][i] BY <2>2, <3>1, <1>6, <1>8, <1>12
    <3>3. CASE j \in 1 .. n
      <4>1. undo'[u][j] = undo[t][j] BY <2>2, <3>3, <1>6, <1>8
      <4> QED BY <3>2, <3>3, <4>1, <1>6, <1>12 DEF RowsOK
    <3>4. CASE j = n + 1
      <4>1. undo'[u][j] = e BY <2>2, <3>4, <1>6, <1>8
      <4>2. k \notin recs BY <4>1, <1>12
      <4>3. writer[k] = None BY <4>2 DEF RowsOK
      <4>4. writer[undo[t][i].rec] = t BY <3>2, <1>6, <1>10
      <4> QED BY <3>2, <4>1, <4>3, <4>4, Constants
    <3> QED BY <3>1, <3>3, <3>4
  <2> QED BY <2>1, <2>2
<1>13. recs' \subseteq Key /\ \A j \in Key \ recs' : writer'[j] = None BY <1>9 DEF RowsOK
<1>14. split' # None => (\E j \in recs' : j < split') /\ (\E j \in recs' : j >= split') BY DEF RowsOK
<1>15. split' \in Key \cup {None} /\ splits' \in 0 .. MaxSplits BY DEF RowsOK
<1>16. undo' \in [Trx -> Seq([rec : Key, new : BOOLEAN, mark : BOOLEAN])] BY <1>1, <1>8
<1>17. \A u \in Trx : \A i \in DOMAIN undo'[u] : writer'[undo'[u][i].rec] = u BY <1>11
<1>18. \A u \in Trx : \A i, j \in DOMAIN undo'[u] :
         i < j /\ undo'[u][j].new => undo'[u][i].rec # undo'[u][j].rec
  BY <1>12
<1>19. writer' \in [Key -> Trx \cup {None}] BY <1>9
<1> QED BY <1>13, <1>14, <1>15, <1>16, <1>17, <1>18, <1>19, Zenon DEF RowsOK

(* a record is not held by two transactions in modes that conflict *)
LEMMA Holders ==
    ASSUME NEW Q, NEW R, NEW sp, Sound(Q, R, sp), NEW r \in Key \cup {Tab},
           NEW p \in ToSet(Q[r]), NEW q \in ToSet(Q[r]), p.trx # q.trx, ~p.wait, ~q.wait,
           Real(p, r), Real(q, r)
    PROVE  lock_mode_compatible(p.mode, q.mode)
<1>1. r \in Resource BY Constants
<1>2. Q[r] \in Seq(Request) /\ Ordered(Q[r], r) BY <1>1 DEF Sound
<1>3. PICK i, j \in DOMAIN Q[r] : Q[r][i] = p /\ Q[r][j] = q BY DEF ToSet
<1>4. i \in Nat /\ j \in Nat /\ i # j BY <1>2, <1>3
<1>5. CASE i < j BY <1>2, <1>3, <1>5 DEF Ordered
<1>6. CASE j < i
  <2>1. lock_mode_compatible(q.mode, p.mode) BY <1>2, <1>3, <1>6 DEF Ordered
  <2> QED BY <2>1, Modes
<1> QED BY <1>4, <1>5, <1>6

(* an explicit exclusive lock on a record is one for the record itself *)
LEMMA ExplX ==
    ASSUME NEW Q, NEW t, NEW k \in Key, lock_rec_has_expl(Q, t, k, "X", "rec")
    PROVE  \E p \in ToSet(Q[k]) : /\ p.trx = t /\ ~p.wait /\ p.mode = "X" /\ Real(p, k)
                                  /\ p.kind \in {"ordinary", "rec"}
<1>1. PICK p \in ToSet(Q[k]) :
        /\ p.trx = t /\ ~p.wait /\ p.kind # "insert" /\ lock_mode_stronger_or_eq(p.mode, "X")
        /\ p.kind = "ordinary" \/ p.kind = "rec" \/ IsSup(k)
  BY DEF lock_rec_has_expl
<1>2. p.mode = "X" BY <1>1 DEF lock_mode_stronger_or_eq
<1>3. p.kind \in {"ordinary", "rec"} BY <1>1, Constants
<1>4. Real(p, k) BY <1>3 DEF Real
<1> QED BY <1>1, <1>2, <1>3, <1>4

(* t may change record k: nobody else has changed or locked it *)
LEMMA MayChange ==
    ASSUME RowsOK, NEW C, Sound(C, recs, split), NEW k \in recs, NEW t \in Trx, NEW q \in Request,
           q.trx = t, q.mode = "X", q.kind = "rec",
           lock_rec_has_expl(C, t, k, "X", "rec") \/ ~Conflicting(C, q, k),
           writer[k] # None => lock_rec_has_expl(C, writer[k], k, "X", "rec")
    PROVE  /\ writer[k] \in {t, None}
           /\ \A p \in ToSet(C[k]) : p.trx # t /\ Real(p, k) =>
                p.wait /\ lock_rec_has_expl(C, t, k, "X", "rec")
<1>1. k \in Key /\ recs \subseteq Key BY DEF RowsOK
<1>2. Real(q, k) BY <1>1, Constants DEF Real
<1>3. ASSUME NEW p \in ToSet(C[k]), p.trx # t, Real(p, k)
      PROVE  p.wait /\ lock_rec_has_expl(C, t, k, "X", "rec")
  <2>1. lock_rec_has_expl(C, t, k, "X", "rec")
    <3> SUFFICES ASSUME ~Conflicting(C, q, k) PROVE FALSE OBVIOUS
    <3>1. ~lock_has_to_wait(q, p, k) BY DEF Conflicting
    <3>2. lock_mode_compatible(p.mode, q.mode) BY <3>1, <1>2, <1>3, RealConflict
    <3> QED BY <3>2, Modes
  <2>2. PICK z \in ToSet(C[k]) : z.trx = t /\ ~z.wait /\ z.mode = "X" /\ Real(z, k) BY <2>1, <1>1, ExplX
  <2>3. ASSUME ~p.wait PROVE FALSE
    <3>1. lock_mode_compatible(p.mode, z.mode) BY <2>2, <2>3, <1>1, <1>3, Holders
    <3> QED BY <3>1, <2>2, Modes
  <2> QED BY <2>1, <2>3
<1>4. writer[k] \in {t, None}
  <2> SUFFICES ASSUME writer[k] # None, writer[k] # t PROVE FALSE OBVIOUS
  <2>1. PICK p \in ToSet(C[k]) : p.trx = writer[k] /\ ~p.wait /\ Real(p, k) BY <1>1, ExplX
  <2> QED BY <2>1, <1>3
<1> QED BY <1>3, <1>4

(* lock_clust_rec_modify_check_and_lock and the change *)
LEMMA ModifyRecordOK ==
    ASSUME LockInv, NEW t \in Trx, NEW k \in Key, NEW mark \in BOOLEAN, ModifyRecord(t, k, mark)
    PROVE  LockInv'
<1>1. /\ RowsOK /\ TrxOK /\ SleepOK /\ queue \in AllQueues
      /\ Sound(queue, recs, split) /\ Shown(queue, recs, writer) /\ recs \subseteq Key
  BY InvParts DEF RowsOK
<1>2. Running(t) /\ ops[t] < MaxOps[t] /\ k \in recs BY DEF ModifyRecord, MayStart
<1>3. k \in Rec /\ Present(k) /\ ~IsSup(k) /\ k # SupL /\ k \in Resource BY <1>2, Constants DEF Rec, Present
<1>4. PICK C : C = lock_rec_convert_impl_to_expl(queue, k) OBVIOUS
<1>5. Adds(C, queue, k) /\ (writer[k] # None => lock_rec_has_expl(C, writer[k], k, "X", "rec"))
  BY <1>3, <1>4, ConvertFacts
<1>6. PICK q \in Request : q = NewLock(t, "X", "rec") /\ q.trx = t /\ q.mode = "X" /\ q.kind = "rec" /\ ~q.wait
  <2>1. "X" \in Mode /\ "rec" \in Kind BY DEF Mode, Kind
  <2> QED BY <2>1, NewLockFacts
<1>7. PICK e : e = [rec |-> k, new |-> FALSE, mark |-> k \in marked] OBVIOUS
<1>8. IF ~lock_rec_has_expl(C, t, k, "X", "rec") /\ Conflicting(C, q, k)
        THEN EnqueueWaiting(C, t, k, q)
        ELSE /\ queue' = C
             /\ marked' = IF mark THEN marked \cup {k} ELSE marked \ {k}
             /\ writer' = [writer EXCEPT ![k] = t]
             /\ undo' = [undo EXCEPT ![t] = Append(@, e)]
             /\ Count(t)
             /\ UNCHANGED <<recs, split, splits, pc, kernel, seen>>
  BY <1>4, <1>6, <1>7, Zenon DEF ModifyRecord
<1>9. CASE ~lock_rec_has_expl(C, t, k, "X", "rec") /\ Conflicting(C, q, k)
  <2>1. EnqueueWaiting(C, t, k, q) BY <1>8, <1>9
  <2>2. MayWait(C, t, k, q) BY <1>2, <1>3, <1>5, <1>6, <1>9 DEF MayWait, Adds
  <2> QED BY <2>1, <2>2, EnqueueOK
<1>10. CASE ~(~lock_rec_has_expl(C, t, k, "X", "rec") /\ Conflicting(C, q, k))
  <2>1. /\ queue' = C
        /\ marked' = IF mark THEN marked \cup {k} ELSE marked \ {k}
        /\ writer' = [writer EXCEPT ![k] = t]
        /\ undo' = [undo EXCEPT ![t] = Append(@, e)]
        /\ Count(t)
        /\ UNCHANGED <<recs, split, splits, pc, kernel, seen>>
    BY <1>8, <1>10
  <2>2. Sound(C, recs, split) /\ Shown(C, recs, writer)
        /\ \A u \in Trx : IsWaiting(C, u) <=> IsWaiting(queue, u)
    BY <1>5 DEF Adds
  <2>3. /\ writer[k] \in {t, None}
        /\ \A p \in ToSet(C[k]) : p.trx # t /\ Real(p, k) =>
             p.wait /\ lock_rec_has_expl(C, t, k, "X", "rec")
    BY <2>2, <1>1, <1>2, <1>5, <1>6, <1>10, MayChange
  <2>4. RowsOK'
    <3>1. e \in [rec : Key, new : BOOLEAN, mark : BOOLEAN] /\ e.rec = k /\ ~e.new BY <1>7
    <3>2. recs' = recs \cup {k} /\ marked' \subseteq recs' BY <2>1, <1>1, <1>2 DEF RowsOK
    <3> QED BY <3>1, <3>2, <2>1, <2>3, <1>1, ChangeOK
  <2>5. /\ writer[k] \in {t, None} /\ writer'[k] = t /\ \A j \in Key \ {k} : writer'[j] = writer[j]
    BY <2>1, <2>3, <1>1 DEF RowsOK
  <2>6. TrxOK'
    <3>1. pc[t] = "run" BY <1>2 DEF Running
    <3>2. ops' \in [Trx -> Nat] /\ \A u \in Trx : ops'[u] <= MaxOps[u] BY <2>1, <1>1, <1>2, CountOK
    <3>3. \A j \in Key : writer'[j] # None => pc'[writer'[j]] \notin {"release", "done"}
      BY <3>1, <2>1, <2>5, <1>1 DEF TrxOK
    <3> QED BY <3>2, <3>3, <2>1, <1>1 DEF TrxOK
  <2>7. Shown(C, recs, writer')
    <3> SUFFICES ASSUME NEW j \in recs, NEW p \in ToSet(C[j]),
                        writer'[j] # None, p.trx # writer'[j], p.kind \notin {"gap", "insert"}
                 PROVE  lock_rec_has_expl(C, writer'[j], j, "X", "rec")
      BY DEF Shown
    <3>1. CASE j = k
      <4>1. Real(p, k) BY <3>1, Constants DEF Real
      <4> QED BY <3>1, <4>1, <2>3, <2>5
    <3>2. CASE j # k BY <3>2, <2>2, <2>5, <1>1 DEF Shown
    <3> QED BY <3>1, <3>2
  <2>8. kernel = None BY <1>2 DEF Running
  <2>9. Sound(queue', recs', split') /\ Shown(queue', recs', writer')
        /\ \A u \in Trx : IsWaiting(queue', u) <=> IsWaiting(queue, u)
    BY <2>1, <2>2, <2>7
  <2> QED BY <2>1, <2>4, <2>6, <2>8, <2>9, GrantedOK
<1> QED BY <1>9, <1>10

(* lock_rec_insert_check_and_lock and the insert *)
LEMMA InsertRecordOK ==
    ASSUME LockInv, NEW t \in Trx, NEW k \in Key, InsertRecord(t, k)
    PROVE  LockInv'
<1>1. /\ RowsOK /\ TrxOK /\ SleepOK /\ queue \in AllQueues
      /\ Sound(queue, recs, split) /\ Shown(queue, recs, writer) /\ recs \subseteq Key
  BY InvParts DEF RowsOK
<1>2. Running(t) /\ ops[t] < MaxOps[t] /\ k \notin recs BY DEF InsertRecord, MayStart
<1>3. k \in Rec /\ k \in Resource BY Constants DEF Rec
<1>4. PICK r \in Rec : r = NextRec(k) /\ Present(r) /\ r \in Resource BY <1>1, NextRecFacts
<1>5. PICK q \in Request : q = NewLock(t, "X", "insert") /\ q.trx = t /\ q.mode = "X" /\ q.kind = "insert" /\ ~q.wait
  <2>1. "X" \in Mode /\ "insert" \in Kind BY DEF Mode, Kind
  <2> QED BY <2>1, NewLockFacts
<1>6. PICK e : e = [rec |-> k, new |-> TRUE, mark |-> FALSE] OBVIOUS
<1>7. IF Conflicting(queue, q, r)
        THEN EnqueueWaiting(queue, t, r, q)
        ELSE /\ queue' = lock_update_insert(queue, k)
             /\ recs' = recs \cup {k}
             /\ writer' = [writer EXCEPT ![k] = t]
             /\ undo' = [undo EXCEPT ![t] = Append(@, e)]
             /\ Count(t)
             /\ UNCHANGED <<marked, split, splits, pc, kernel, seen>>
  BY <1>4, <1>5, <1>6, Zenon DEF InsertRecord
<1>8. CASE Conflicting(queue, q, r)
  <2>1. EnqueueWaiting(queue, t, r, q) BY <1>7, <1>8
  <2>2. (r \in Key => r \in recs) /\ (r = SupL => split # None) BY <1>1, <1>4, Constants DEF Present
  <2>3. MayWait(queue, t, r, q) BY <1>1, <1>2, <1>4, <1>5, <1>8, <2>2 DEF MayWait
  <2> QED BY <2>1, <2>3, EnqueueOK
<1>9. CASE ~Conflicting(queue, q, r)
  <2>1. /\ queue' = lock_update_insert(queue, k)
        /\ recs' = recs \cup {k}
        /\ writer' = [writer EXCEPT ![k] = t]
        /\ undo' = [undo EXCEPT ![t] = Append(@, e)]
        /\ Count(t)
        /\ UNCHANGED <<marked, split, splits, pc, kernel, seen>>
    BY <1>7, <1>9
  <2>2. PICK A : A = queue' OBVIOUS
  <2>3. Inherits(A, queue, k)
    <3>1. PICK S : S = {o \in ToSet(queue[r]) : IsSup(r) \/ o.kind # "rec"} OBVIOUS
    <3>2. A = InheritIf(queue, k, r, S)
      BY <2>1, <2>2, <3>1, <1>4 DEF lock_update_insert, lock_rec_inherit_to_gap_if_gap_lock
    <3> QED BY <3>2, <1>1, <1>3, <1>4, InheritFacts
  <2>4. /\ \A o \in Resource : Fine(queue[o], o)
        /\ \A j \in Key \ recs : queue[j] = << >>
        /\ split = None => queue[SupL] = << >>
    BY <1>1, SoundParts
  <2>5. A \in AllQueues /\ \A o \in Resource \ {k} : A[o] = queue[o] BY <2>3 DEF Inherits
  <2>6. Sound(A, recs', split')
    <3>1. \A o \in Resource : Fine(A[o], o) BY <2>3, <2>4, <1>1, <1>3, InheritsFine
    <3>2. \A j \in Key \ recs' : A[j] = << >> BY <2>1, <2>4, <2>5, Constants
    <3>3. split' = None => A[SupL] = << >> BY <2>1, <2>4, <2>5, Constants
    <3> QED BY <3>1, <3>2, <3>3, <2>5, SoundParts
  <2>7. writer[k] = None /\ writer'[k] = t /\ \A j \in Key \ {k} : writer'[j] = writer[j]
    BY <2>1, <1>1, <1>2 DEF RowsOK
  <2>8. Shown(A, recs', writer')
    <3> SUFFICES ASSUME NEW j \in recs', NEW p \in ToSet(A[j]),
                        writer'[j] # None, p.trx # writer'[j], p.kind \notin {"gap", "insert"}
                 PROVE  lock_rec_has_expl(A, writer'[j], j, "X", "rec")
      BY DEF Shown
    <3>1. CASE j = k
      <4>1. queue[k] = << >> /\ queue[k] \in Seq(Request) /\ ToSet(queue[k]) = {} BY <2>4, <1>2, EmptyFine
      <4>2. GapsJoin(A[k], queue[k], k) /\ ~IsSup(k) BY <2>3, Constants DEF Inherits
      <4>3. PICK s \in Seq(Request) : s = queue[k] BY <4>1
      <4>4. p \in ToSet(s) \/ p.kind = "gap" BY <3>1, <4>2, <4>3, GapsJoinSet DEF GapKind
      <4> QED BY <4>1, <4>3, <4>4
    <3>2. CASE j # k
      <4>1. j \in recs /\ j \in Key /\ j \in Resource BY <3>2, <2>1, <1>1, Constants
      <4>2. A[j] = queue[j] /\ writer'[j] = writer[j] BY <3>2, <4>1, <2>5, <2>7
      <4>3. lock_rec_has_expl(queue, writer[j], j, "X", "rec") BY <4>1, <4>2, <1>1 DEF Shown
      <4> QED BY <4>2, <4>3 DEF lock_rec_has_expl
    <3> QED BY <3>1, <3>2
  <2>9. ASSUME NEW u \in Trx PROVE IsWaiting(A, u) <=> IsWaiting(queue, u)
    <3>1. \A o \in Resource : /\ ToSet(queue[o]) \subseteq ToSet(A[o])
                              /\ \A p \in ToSet(A[o]) : p.wait => p \in ToSet(queue[o])
      BY <2>3, <1>1, <1>3, InheritsSets
    <3> QED BY <3>1 DEF IsWaiting
  <2>10. RowsOK'
    <3>1. e \in [rec : Key, new : BOOLEAN, mark : BOOLEAN] /\ e.rec = k BY <1>6
    <3>2. marked' \subseteq recs' BY <2>1, <1>1 DEF RowsOK
    <3> QED BY <3>1, <3>2, <2>1, <2>7, <1>1, <1>2, ChangeOK
  <2>11. TrxOK'
    <3>1. pc[t] = "run" BY <1>2 DEF Running
    <3>2. ops' \in [Trx -> Nat] /\ \A u \in Trx : ops'[u] <= MaxOps[u] BY <2>1, <1>1, <1>2, CountOK
    <3>3. \A j \in Key : writer'[j] # None => pc'[writer'[j]] \notin {"release", "done"}
      BY <3>1, <2>1, <2>7, <1>1 DEF TrxOK
    <3> QED BY <3>2, <3>3, <2>1, <1>1 DEF TrxOK
  <2>12. kernel = None BY <1>2 DEF Running
  <2> QED BY <2>1, <2>2, <2>6, <2>8, <2>9, <2>10, <2>11, <2>12, GrantedOK
<1> QED BY <1>8, <1>9

-----------------------------------------------------------------------------
(* The end of a wait *)

(* nothing is left of an empty queue *)
LEMMA PartEmpty == ASSUME NEW w, Part(w, << >>) PROVE w = << >>
<1>1. w \in Seq(Request) /\ ToSet(w) = {} BY EmptyFine DEF Part
<1>2. DOMAIN w = 1 .. Len(w) /\ Len(w) \in Nat BY <1>1
<1>3. ASSUME Len(w) # 0 PROVE FALSE
  <2>1. 1 \in DOMAIN w BY <1>2, <1>3
  <2>2. w[1] \in ToSet(w) BY <2>1 DEF ToSet
  <2> QED BY <2>2, <1>1
<1> QED BY <1>1, <1>3

(* some requests leave their queues, but no lock of a transaction on a     *)
(* record that it has changed                                              *)
Leaves(Q) ==
    /\ Q \in AllQueues
    /\ \A r \in Resource : Part(Q[r], queue[r])
    /\ \A k \in recs : writer[k] # None =>
         \A p \in ToSet(queue[k]) : p.trx = writer[k] /\ ~p.wait => p \in ToSet(Q[k])

(* what this leaves, when the others are granted what they can be *)
LEMMA LeavesOK ==
    ASSUME LockInv, NEW Q, Leaves(Q)
    PROVE  /\ Sound(Grants(Q), recs, split) /\ Shown(Grants(Q), recs, writer)
           /\ Calms(Grants(Q), Q) /\ Calms(Q, queue) /\ Shown(Q, recs, writer)
           /\ \A r \in Resource : Ordered(Q[r], r)
<1>1. /\ RowsOK /\ queue \in AllQueues /\ Sound(queue, recs, split) /\ Shown(queue, recs, writer)
      /\ recs \subseteq Key
  BY InvParts DEF RowsOK
<1>2. Q \in AllQueues BY DEF Leaves
<1>3. PICK G : G = Grants(Q) OBVIOUS
<1>4. /\ G \in AllQueues /\ \A r \in Resource : MoreGranted(G[r], Q[r]) /\ Held(G[r], r)
      /\ \A r \in Resource : Ordered(Q[r], r) => Ordered(G[r], r)
  BY <1>2, <1>3, GrantsFacts
<1>5. \A r \in Resource : Ordered(Q[r], r) BY <1>1, PartOrdered DEF Leaves, Sound
<1>6. ASSUME NEW r \in Resource, queue[r] = << >> PROVE G[r] = << >>
  <2>1. Q[r] = << >> BY <1>6, PartEmpty DEF Leaves
  <2>2. MoreGranted(G[r], << >>) BY <2>1, <1>4
  <2>3. G[r] \in Seq(Request) /\ Len(G[r]) = 0 BY <2>2 DEF MoreGranted
  <2> QED BY <2>3
<1>7. Sound(G, recs, split)
  <2>1. \A r \in Resource : Fine(G[r], r) BY <1>4, <1>5 DEF Fine, AllQueues
  <2>2. \A k \in Key \ recs : G[k] = << >> BY <1>1, <1>6, Constants DEF Sound
  <2>3. split = None => G[SupL] = << >> BY <1>1, <1>6, Constants DEF Sound
  <2> QED BY <1>4, <2>1, <2>2, <2>3, SoundParts
<1>8. Calms(G, Q) BY <1>2, <1>4, CalmsGranted
<1>9. Calms(Q, queue) BY CalmsBy DEF Leaves, Part
<1>10. ASSUME NEW k \in recs, writer[k] # None PROVE Keeps(Q[k], queue[k], writer[k]) /\ Keeps(G[k], queue[k], writer[k])
  <2>1. k \in Resource BY <1>1, Constants
  <2>2. Q[k] \in Seq(Request) /\ ToSet(Q[k]) \subseteq ToSet(queue[k]) BY <2>1, <1>2 DEF Leaves, Part, AllQueues
  <2>3. Keeps(Q[k], queue[k], writer[k]) BY <2>2, <1>10, KeepsPart DEF Leaves
  <2>4. Keeps(G[k], Q[k], writer[k]) BY <2>1, <2>2, <1>4, KeepsGranted
  <2> QED BY <2>3, <2>4, KeepsBoth
<1>11. Shown(G, recs, writer) BY <1>1, <1>10, ShownKept
<1>12. Shown(Q, recs, writer) BY <1>1, <1>10, ShownKept
<1> QED BY <1>3, <1>5, <1>7, <1>8, <1>9, <1>11, <1>12

(* the waiting requests of t *)
Waits(t) == {q \in Request : q.trx = t /\ q.wait}

(* lock_cancel_waiting_and_release, before others are granted: only        *)
(* waiting requests leave                                                  *)
LEMMA WithoutWaits ==
    ASSUME LockInv, NEW t \in Trx
    PROVE  LET Q == [r \in Resource |-> Without(queue[r], Waits(t))] IN
           /\ Leaves(Q) /\ ~IsWaiting(Q, t)
           /\ \A r \in Resource : ToSet(Q[r]) = ToSet(queue[r]) \ Waits(t)
<1>1. queue \in AllQueues /\ recs \subseteq Key BY InvParts DEF RowsOK
<1> DEFINE Q0 == [r \in Resource |-> Without(queue[r], Waits(t))]
<1>2. PICK Q : Q = Q0 OBVIOUS
<1>3. ASSUME NEW r \in Resource
      PROVE  /\ Q[r] \in Seq(Request) /\ Part(Q[r], queue[r]) /\ ToSet(Q[r]) = ToSet(queue[r]) \ Waits(t)
             /\ ToSet(queue[r]) \subseteq Request
  <2>1. queue[r] \in Seq(Request) BY <1>1 DEF AllQueues
  <2>2. Q[r] = Without(queue[r], Waits(t)) BY <1>2
  <2>3. Part(Q[r], queue[r]) /\ ToSet(Q[r]) = ToSet(queue[r]) \ Waits(t) BY <2>1, <2>2, WithoutPart
  <2>4. Q[r] \in Seq(Request) BY <2>3 DEF Part
  <2>5. ToSet(queue[r]) \subseteq Request BY <2>1 DEF ToSet
  <2> QED BY <2>3, <2>4, <2>5
<1>4. Q = [r \in Resource |-> Q[r]] BY <1>2
<1> HIDE DEF Q0
<1>5. Q \in AllQueues BY <1>3, <1>4 DEF AllQueues
<1>6. ASSUME NEW k \in recs, NEW p \in ToSet(queue[k]), p.trx = writer[k], ~p.wait PROVE p \in ToSet(Q[k])
  <2>1. k \in Resource BY <1>1, Constants
  <2> QED BY <2>1, <1>3, <1>6 DEF Waits
<1>7. Leaves(Q) BY <1>3, <1>5, <1>6 DEF Leaves
<1>8. ~IsWaiting(Q, t) BY <1>3 DEF IsWaiting, Waits
<1> QED BY <1>2, <1>3, <1>7, <1>8 DEF Q0

(* the transactions after a dequeue *)
LEMMA DequeueTrx ==
    ASSUME LockInv, NEW p \in [Trx -> Places], NEW Q, Queues(Q, p), UNCHANGED <<rows, ops, seen>>,
           kernel' \in Trx \cup {None},
           \A t \in Trx : p[t] \in {"release", "done"} => pc[t] \in {"release", "done"}
    PROVE  TrxOK' /\ RowsOK'
<1>1. RowsOK /\ TrxOK BY InvParts
<1>2. pc' \in [Trx -> Places] /\ \A t \in Trx : pc'[t] = p[t] \/ (p[t] = "wait" /\ pc'[t] = "run")
  BY QueuesType DEF Places
<1>3. writer' = writer BY DEF rows
<1>4. writer \in [Key -> Trx \cup {None}] BY <1>1 DEF RowsOK
<1>5. ASSUME NEW k \in Key, writer'[k] # None PROVE pc'[writer'[k]] \notin {"release", "done"}
  <2>1. writer[k] \in Trx /\ pc[writer[k]] \notin {"release", "done"} BY <1>1, <1>3, <1>4, <1>5 DEF TrxOK
  <2> QED BY <2>1, <1>2, <1>3
<1>6. TrxOK' BY <1>1, <1>2, <1>5 DEF TrxOK, Places
<1> QED BY <1>1, <1>6, RowsSame

(* lock_cancel_waiting_and_release, by the timeout thread *)
LEMMA WaitTimesOutOK ==
    ASSUME LockInv, NEW t \in Trx, WaitTimesOut(t)
    PROVE  LockInv'
<1>1. RowsOK /\ TrxOK /\ SleepOK BY InvParts
<1>2. PICK Q : Q = [r \in Resource |-> Without(queue[r], Waits(t))] OBVIOUS
<1>3. Queues(Grants(Q), pc) /\ kernel = None /\ UNCHANGED <<rows, kernel, ops, seen>>
  BY <1>2 DEF WaitTimesOut, CancelWait, Waits
<1>4. Leaves(Q) BY <1>2, WithoutWaits
<1>5. /\ Sound(Grants(Q), recs, split) /\ Shown(Grants(Q), recs, writer)
      /\ Calms(Grants(Q), Q) /\ Calms(Q, queue)
  BY <1>4, LeavesOK
<1>6. UNCHANGED <<recs, split, writer>> /\ queue' = Grants(Q) BY <1>3 DEF rows, Queues
<1>7. pc \in [Trx -> Places] BY <1>1 DEF TrxOK, Places
<1>8. TrxOK' /\ RowsOK' BY <1>3, <1>7, <1>1, DequeueTrx DEF TrxOK
<1>9. ASSUME NEW u \in Trx PROVE IsWaiting(queue', u) <=> pc'[u] = "wait"
  <2>1. IsWaiting(Grants(Q), u) => IsWaiting(queue, u) BY <1>5 DEF Calms
  <2>2. kernel # u BY <1>3, Constants
  <2>3. IsWaiting(Grants(Q), u) => pc[u] = "wait" BY <2>1, <2>2, <1>1 DEF SleepOK
  <2> QED BY <2>3, <1>3, <1>7, QueuesSleep DEF Places
<1>10. SleepOK' BY <1>3, <1>9 DEF SleepOK
<1> QED BY <1>5, <1>6, <1>8, <1>10, NextInv

(* the queues when t's AUTO-INC lock has left, before others are granted *)
UnlocksTo(Q, t) ==
    /\ Leaves(Q) /\ Queues(Grants(Q), pc)
    /\ \A r \in Resource \ {Tab} : Q[r] = queue[r]

(* lock_table_unlock_auto_inc in the form of UnlocksTo *)
LEMMA UnlockIs ==
    ASSUME LockInv, NEW t \in Trx, UnlockAutoInc(t)
    PROVE  \E Q : UnlocksTo(Q, t)
<1>1. queue \in AllQueues /\ recs \subseteq Key BY InvParts DEF RowsOK
<1>2. PICK D : D = {q \in Request : q.trx = t /\ q.mode = "AI"} OBVIOUS
<1>3. PICK Q : Q = [queue EXCEPT ![Tab] = Without(@, D)] OBVIOUS
<1>4. Queues(Grants(Q), pc) BY <1>2, <1>3 DEF UnlockAutoInc
<1>5. Tab \in Resource /\ Tab \notin Key /\ queue[Tab] \in Seq(Request) BY <1>1, Constants DEF AllQueues
<1>6. PICK s : s = Without(queue[Tab], D) OBVIOUS
<1>7. Part(s, queue[Tab]) /\ s \in Seq(Request) BY <1>5, <1>6, WithoutPart DEF Part
<1>8. Q \in AllQueues /\ Q[Tab] = s /\ \A r \in Resource \ {Tab} : Q[r] = queue[r]
  BY <1>1, <1>3, <1>5, <1>6, <1>7 DEF AllQueues
<1>9. ASSUME NEW r \in Resource PROVE Part(Q[r], queue[r])
  <2>1. CASE r = Tab BY <2>1, <1>7, <1>8
  <2>2. CASE r # Tab
    <3>1. Q[r] = queue[r] /\ queue[r] \in Seq(Request) BY <2>2, <1>1, <1>8 DEF AllQueues
    <3> QED BY <3>1 DEF Part
  <2> QED BY <2>1, <2>2
<1>10. ASSUME NEW k \in recs PROVE Q[k] = queue[k] BY <1>1, <1>5, <1>8, Constants
<1>11. Leaves(Q) BY <1>8, <1>9, <1>10 DEF Leaves
<1> QED BY <1>4, <1>8, <1>11 DEF UnlocksTo

(* lock_table_unlock_auto_inc *)
LEMMA UnlockAutoIncOK ==
    ASSUME LockInv, NEW t \in Trx, UnlockAutoInc(t)
    PROVE  LockInv'
<1>1. RowsOK /\ TrxOK /\ SleepOK BY InvParts
<1>2. PICK Q : UnlocksTo(Q, t) BY UnlockIs
<1>3. Leaves(Q) /\ Queues(Grants(Q), pc) BY <1>2 DEF UnlocksTo
<1>4. kernel = None /\ UNCHANGED <<rows, kernel, ops, seen>> BY DEF UnlockAutoInc, Running
<1>5. /\ Sound(Grants(Q), recs, split) /\ Shown(Grants(Q), recs, writer)
      /\ Calms(Grants(Q), Q) /\ Calms(Q, queue)
  BY <1>3, LeavesOK
<1>6. UNCHANGED <<recs, split, writer>> /\ queue' = Grants(Q) BY <1>3, <1>4 DEF rows, Queues
<1>7. pc \in [Trx -> Places] BY <1>1 DEF TrxOK, Places
<1>8. TrxOK' /\ RowsOK' BY <1>3, <1>4, <1>7, <1>1, DequeueTrx DEF TrxOK
<1>9. ASSUME NEW u \in Trx PROVE IsWaiting(queue', u) <=> pc'[u] = "wait"
  <2>1. IsWaiting(Grants(Q), u) => IsWaiting(queue, u) BY <1>5 DEF Calms
  <2>2. kernel # u BY <1>4, Constants
  <2>3. IsWaiting(Grants(Q), u) => pc[u] = "wait" BY <2>1, <2>2, <1>1 DEF SleepOK
  <2> QED BY <2>3, <1>3, <1>7, QueuesSleep DEF Places
<1>10. SleepOK' BY <1>4, <1>9 DEF SleepOK
<1> QED BY <1>5, <1>6, <1>8, <1>10, NextInv

(* the search ends without a victim, or with no more *)
LEMMA SearchEndsOK ==
    ASSUME LockInv, NEW t \in Trx, SearchEnds(t)
    PROVE  LockInv'
<1>1. RowsOK /\ TrxOK /\ SleepOK /\ Sound(queue, recs, split) /\ Shown(queue, recs, writer) BY InvParts
<1>2. /\ kernel = t /\ kernel' = None /\ UNCHANGED <<rows, queue, ops, seen>>
      /\ pc' = [pc EXCEPT ![t] = IF IsWaiting(queue, t) THEN "wait" ELSE "run"]
  BY DEF SearchEnds
<1>3. UNCHANGED <<recs, split, writer>> BY <1>2 DEF rows
<1>4. RowsOK' BY <1>1, <1>2, RowsSame
<1>5. writer \in [Key -> Trx \cup {None}] BY <1>1 DEF RowsOK
<1>6. TrxOK' BY <1>1, <1>2, <1>3, <1>5 DEF TrxOK
<1>7. ASSUME NEW u \in Trx PROVE IsWaiting(queue', u) <=> pc'[u] = "wait"
  <2>1. CASE u = t BY <2>1, <1>1, <1>2 DEF TrxOK
  <2>2. CASE u # t BY <2>2, <1>1, <1>2 DEF TrxOK, SleepOK
  <2> QED BY <2>1, <2>2
<1>8. SleepOK' BY <1>2, <1>7 DEF SleepOK
<1> QED BY <1>1, <1>2, <1>3, <1>4, <1>6, <1>8, NextInv

(* the others go on having something to wait for ahead *)
LEMMA LastLeaves ==
    ASSUME NEW s, NEW r, Fine(s, r), NEW D,
           \A i \in DOMAIN s : s[i] \in D => i = Len(s)
    PROVE  Fine(Without(s, D), r)
<1>1. s \in Seq(Request) /\ Ordered(s, r) /\ Held(s, r) BY DEF Fine
<1>2. PICK w : w = Without(s, D) OBVIOUS
<1>3. Part(w, s) /\ w \in Seq(Request) BY <1>1, <1>2, WithoutPart DEF Part
<1>4. Ordered(w, r) BY <1>1, <1>3, PartOrdered
<1>5. Len(w) <= Len(s) /\ \A i \in 1 .. Len(w) : w[i] = s[i] BY <1>1, <1>2, WithoutLast
<1>6. PICK m, n \in Nat : m = Len(w) /\ n = Len(s) /\ m <= n /\ DOMAIN w = 1 .. m /\ DOMAIN s = 1 .. n
  BY <1>1, <1>3, <1>5
<1>7. Held(w, r)
  <2> SUFFICES ASSUME NEW i \in 1 .. m, w[i].wait
               PROVE  \E j \in 1 .. i - 1 : lock_has_to_wait(w[i], w[j], r)
    BY <1>6 DEF Held
  <2>1. w[i] = s[i] /\ i \in 1 .. n BY <1>5, <1>6
  <2>2. PICK j \in 1 .. i - 1 : lock_has_to_wait(s[i], s[j], r) BY <2>1, <1>1, <1>6 DEF Held
  <2>3. j \in 1 .. m BY <1>6
  <2>4. w[j] = s[j] BY <2>3, <1>5, <1>6
  <2> QED BY <2>1, <2>2, <2>4
<1> QED BY <1>2, <1>3, <1>4, <1>7 DEF Fine

(* LOCK_VICTIM_IS_START *)
LEMMA VictimIsStartOK ==
    ASSUME LockInv, NEW t \in Trx, VictimIsStart(t)
    PROVE  LockInv'
<1>1. RowsOK /\ TrxOK /\ SleepOK /\ queue \in AllQueues /\ recs \subseteq Key
      /\ Sound(queue, recs, split)
  BY InvParts DEF RowsOK
<1>2. PICK Q : Q = [r \in Resource |-> Without(queue[r], Waits(t))] OBVIOUS
<1>3. /\ kernel = t /\ queue' = Q /\ pc' = [pc EXCEPT ![t] = "victim"] /\ kernel' = None
      /\ UNCHANGED <<rows, ops, seen>>
  BY <1>2 DEF VictimIsStart, Waits
<1>4. Leaves(Q) /\ ~IsWaiting(Q, t) /\ \A r \in Resource : ToSet(Q[r]) = ToSet(queue[r]) \ Waits(t)
  BY <1>2, WithoutWaits
<1>5. Shown(Q, recs, writer) /\ Calms(Q, queue) BY <1>4, LeavesOK
<1>6. UNCHANGED <<recs, split, writer>> BY <1>3 DEF rows
<1>7. t # None BY Constants
<1>8. ASSUME NEW r \in Resource PROVE Fine(Q[r], r) /\ (queue[r] = << >> => Q[r] = << >>)
  <2>1. Fine(queue[r], r) BY <1>1, SoundParts
  <2>2. \A i \in DOMAIN queue[r] : queue[r][i] \in Waits(t) => i = Len(queue[r])
    BY <1>1, <1>3, <1>7 DEF SleepOK, Waits
  <2>3. Q[r] = Without(queue[r], Waits(t)) BY <1>2
  <2>4. Part(Q[r], queue[r]) BY <1>4 DEF Leaves
  <2> QED BY <2>1, <2>2, <2>3, <2>4, LastLeaves, PartEmpty
<1>9. Sound(Q, recs, split)
  <2>1. Q \in AllQueues BY <1>4 DEF Leaves
  <2>2. \A k \in Key \ recs : Q[k] = << >> BY <1>1, <1>8, Constants DEF Sound
  <2>3. split = None => Q[SupL] = << >> BY <1>1, <1>8, Constants DEF Sound
  <2> QED BY <1>8, <2>1, <2>2, <2>3, SoundParts
<1>10. RowsOK' BY <1>1, <1>3, RowsSame
<1>11. writer \in [Key -> Trx \cup {None}] BY <1>1 DEF RowsOK
<1>12. TrxOK' BY <1>1, <1>3, <1>6, <1>11 DEF TrxOK
<1>13. ASSUME NEW u \in Trx PROVE IsWaiting(queue', u) <=> pc'[u] = "wait"
  <2>1. CASE u = t BY <2>1, <1>1, <1>3, <1>4 DEF TrxOK
  <2>2. CASE u # t
    <3>1. IsWaiting(queue, u) <=> pc[u] = "wait" BY <2>2, <1>1, <1>3 DEF SleepOK
    <3>2. pc'[u] = pc[u] BY <2>2, <1>1, <1>3 DEF TrxOK
    <3>3. IsWaiting(queue, u) => IsWaiting(Q, u) BY <2>2, <1>4 DEF IsWaiting, Waits
    <3> QED BY <3>1, <3>2, <3>3, <1>3, <1>5 DEF Calms
  <2> QED BY <2>1, <2>2
<1>14. SleepOK' BY <1>3, <1>13 DEF SleepOK
<1> QED BY <1>3, <1>5, <1>6, <1>9, <1>10, <1>12, <1>14, NextInv

(* whom a deadlock search finds is a waiting transaction *)
LEMMA ClosingIs ==
    ASSUME LockInv, NEW t, NEW w \in Closing(t)
    PROVE  w \in Trx /\ pc[w] = "wait"
<1>1. queue \in AllQueues BY InvParts
<1>2. pc[w] = "wait" /\ t \in WaitsFor(w) BY DEF Closing
<1>3. PICK r \in Resource : \E i \in DOMAIN queue[r] : queue[r][i].trx = w BY <1>2 DEF WaitsFor
<1>4. PICK i \in DOMAIN queue[r] : queue[r][i].trx = w BY <1>3
<1>5. queue[r] \in Seq(Request) BY <1>1 DEF AllQueues
<1>6. queue[r][i] \in Request BY <1>5
<1> QED BY <1>2, <1>4, <1>6 DEF Request

(* LOCK_VICTIM_IS_OTHER *)
LEMMA VictimIsOtherOK ==
    ASSUME LockInv, NEW t \in Trx, VictimIsOther(t)
    PROVE  LockInv'
<1>1. RowsOK /\ TrxOK /\ SleepOK /\ queue \in AllQueues BY InvParts
<1>2. PICK w \in Closing(t) : Queues(CancelWait(queue, w), [pc EXCEPT ![w] = "victim"])
  BY DEF VictimIsOther
<1>3. kernel = t /\ UNCHANGED <<rows, kernel, ops, seen>> BY DEF VictimIsOther
<1>4. w \in Trx /\ pc[w] = "wait" BY ClosingIs
<1>5. w # t /\ t # None /\ pc[t] = "run" BY <1>1, <1>3, <1>4, Constants DEF SleepOK
<1>6. PICK Q : Q = [r \in Resource |-> Without(queue[r], Waits(w))] OBVIOUS
<1>7. PICK p : p = [pc EXCEPT ![w] = "victim"] OBVIOUS
<1>8. Queues(Grants(Q), p) BY <1>2, <1>6, <1>7 DEF CancelWait, Waits
<1>9. Leaves(Q) /\ ~IsWaiting(Q, w) BY <1>4, <1>6, WithoutWaits
<1>10. /\ Sound(Grants(Q), recs, split) /\ Shown(Grants(Q), recs, writer)
       /\ Calms(Grants(Q), Q) /\ Calms(Q, queue)
  BY <1>9, LeavesOK
<1>11. UNCHANGED <<recs, split, writer>> /\ queue' = Grants(Q) BY <1>3, <1>8 DEF rows, Queues
<1>12. p \in [Trx -> Places] /\ p[w] = "victim" /\ \A u \in Trx \ {w} : p[u] = pc[u]
  BY <1>1, <1>4, <1>7 DEF TrxOK, Places
<1>13. TrxOK' /\ RowsOK' BY <1>1, <1>3, <1>8, <1>12, DequeueTrx DEF TrxOK
<1>14. ASSUME NEW u \in Trx, u # t PROVE IsWaiting(queue', u) <=> pc'[u] = "wait"
  <2>1. IsWaiting(Grants(Q), u) => IsWaiting(Q, u) /\ IsWaiting(queue, u) BY <1>10 DEF Calms
  <2>2. IsWaiting(Grants(Q), u) => p[u] = "wait"
    <3>1. CASE u = w BY <3>1, <2>1, <1>9
    <3>2. CASE u # w BY <3>2, <2>1, <1>1, <1>3, <1>12, <1>14 DEF SleepOK
    <3> QED BY <3>1, <3>2
  <2> QED BY <2>2, <1>8, <1>12, QueuesSleep DEF Places
<1>15. pc'[t] = "run" BY <1>5, <1>8, <1>12 DEF Queues
<1>16. ASSUME NEW r \in Resource, NEW i \in DOMAIN queue'[r], queue'[r][i].trx = t, queue'[r][i].wait
       PROVE  i = Len(queue'[r])
  <2>1. queue[r] \in Seq(Request) /\ Q[r] \in Seq(Request) /\ Part(Q[r], queue[r])
    BY <1>1, <1>9 DEF AllQueues, Leaves
  <2>2. MoreGranted(queue'[r], Q[r]) BY <1>9, <1>11, GrantsFacts DEF Leaves
  <2>3. \A j \in DOMAIN queue[r] : queue[r][j].trx = t /\ queue[r][j].wait => j = Len(queue[r])
    BY <1>1, <1>3, <1>5 DEF SleepOK
  <2>4. \A j \in DOMAIN Q[r] : Q[r][j].trx = t /\ Q[r][j].wait => j = Len(Q[r])
    BY <2>1, <2>3, PartLast
  <2>5. i \in DOMAIN Q[r] /\ Q[r][i].trx = t /\ Q[r][i].wait /\ Len(queue'[r]) = Len(Q[r])
    BY <2>2, <1>16 DEF MoreGranted
  <2> QED BY <2>4, <2>5
<1>17. SleepOK' BY <1>3, <1>14, <1>15, <1>16 DEF SleepOK
<1> QED BY <1>10, <1>11, <1>13, <1>17, NextInv

-----------------------------------------------------------------------------
(* The end of a transaction *)

(* the elements of a sequence *)
LEMMA SeqElem == ASSUME NEW S, NEW s \in Seq(S), NEW i \in DOMAIN s PROVE s[i] \in S
OBVIOUS

(* trx_commit_off_kernel *)
LEMMA EndsOK ==
    ASSUME LockInv, NEW t \in Trx, EndsActive(t), kernel = None, pc[t] # "wait",
           undo' = [undo EXCEPT ![t] = << >>],
           UNCHANGED <<recs, marked, split, splits, queue, kernel, ops>>
    PROVE  LockInv'
<1>1. RowsOK /\ TrxOK /\ SleepOK /\ Sound(queue, recs, split) /\ Shown(queue, recs, writer) BY InvParts
<1>2. /\ writer \in [Key -> Trx \cup {None}] /\ recs \subseteq Key
      /\ undo \in [Trx -> Seq([rec : Key, new : BOOLEAN, mark : BOOLEAN])]
  BY <1>1 DEF RowsOK
<1>3. /\ writer' \in [Key -> Trx \cup {None}]
      /\ \A k \in Key : writer'[k] = IF writer[k] = t THEN None ELSE writer[k]
  BY <1>2 DEF EndsActive
<1>4. undo'[t] = << >> /\ \A u \in Trx \ {t} : undo'[u] = undo[u] BY <1>2
<1>5. undo' \in [Trx -> Seq([rec : Key, new : BOOLEAN, mark : BOOLEAN])]
  <2>1. PICK E : E = [rec : Key, new : BOOLEAN, mark : BOOLEAN] OBVIOUS
  <2>2. undo \in [Trx -> Seq(E)] BY <2>1, <1>2
  <2>3. << >> \in Seq(E) OBVIOUS
  <2>4. undo' \in [Trx -> Seq(E)] BY <2>2, <2>3
  <2> QED BY <2>1, <2>4
<1>6. ASSUME NEW u \in Trx, NEW i \in DOMAIN undo'[u] PROVE writer'[undo'[u][i].rec] = u
  <2>1. CASE u = t BY <2>1, <1>4
  <2>2. CASE u # t
    <3>1. undo'[u] = undo[u] /\ undo[u] \in Seq([rec : Key, new : BOOLEAN, mark : BOOLEAN]) BY <2>2, <1>2, <1>4
    <3>2. undo[u][i] \in [rec : Key, new : BOOLEAN, mark : BOOLEAN] BY <3>1, SeqElem
    <3>3. undo[u][i].rec \in Key /\ writer[undo[u][i].rec] = u BY <3>1, <3>2, <1>1 DEF RowsOK
    <3> QED BY <2>2, <3>1, <3>3, <1>3
  <2> QED BY <2>1, <2>2
<1>7. \A u \in Trx : \A i, j \in DOMAIN undo'[u] :
        i < j /\ undo'[u][j].new => undo'[u][i].rec # undo'[u][j].rec
  <2> SUFFICES ASSUME NEW u \in Trx, NEW i \in DOMAIN undo'[u], NEW j \in DOMAIN undo'[u],
                      i < j, undo'[u][j].new
               PROVE  undo'[u][i].rec # undo'[u][j].rec
    OBVIOUS
  <2>1. u # t BY <1>4
  <2>2. undo'[u] = undo[u] BY <2>1, <1>4
  <2> QED BY <2>2, <1>1 DEF RowsOK
<1>8. \A k \in Key \ recs' : writer'[k] = None BY <1>1, <1>3 DEF RowsOK
<1>9. recs' \subseteq Key /\ marked' \subseteq recs' /\ split' \in Key \cup {None} /\ splits' \in 0 .. MaxSplits
      /\ (split' # None => (\E j \in recs' : j < split') /\ (\E j \in recs' : j >= split'))
  BY <1>1 DEF RowsOK
<1>10. \A u \in Trx : \A i \in DOMAIN undo'[u] : writer'[undo'[u][i].rec] = u BY <1>6
<1>11. RowsOK' BY <1>3, <1>5, <1>7, <1>8, <1>9, <1>10, Zenon DEF RowsOK
<1>12. pc' = [pc EXCEPT ![t] = "release"] /\ seen' = [seen EXCEPT ![t] = {}] BY DEF EndsActive
<1>13. pc \in [Trx -> Places] /\ pc' \in [Trx -> Places] BY <1>1, <1>12 DEF TrxOK, Places
<1>14. pc'[t] = "release" /\ \A u \in Trx \ {t} : pc'[u] = pc[u] BY <1>12, <1>13
<1>15. \A k \in Key : writer'[k] # None => pc'[writer'[k]] \notin {"release", "done"}
  BY <1>1, <1>2, <1>3, <1>14 DEF TrxOK
<1>16. TrxOK' BY <1>1, <1>12, <1>13, <1>15 DEF TrxOK, Places
<1>17. Shown(queue, recs, writer')
  <2>1. \A k \in recs : writer'[k] # None => k \in recs /\ writer'[k] = writer[k] /\ Keeps(queue[k], queue[k], writer[k])
    BY <1>2, <1>3, KeepsSame
  <2> QED BY <2>1, <1>1, ShownKept
<1>18. ASSUME NEW u \in Trx PROVE IsWaiting(queue', u) <=> pc'[u] = "wait"
  <2>1. kernel # u BY Constants
  <2>2. IsWaiting(queue, u) <=> pc[u] = "wait" BY <2>1, <1>1 DEF SleepOK
  <2> QED BY <2>2, <1>14
<1>19. SleepOK' BY <1>18 DEF SleepOK
<1> QED BY <1>1, <1>11, <1>16, <1>17, <1>19, NextInv

(* trx_commit_off_kernel *)
LEMMA CommitOK ==
    ASSUME LockInv, NEW t \in Trx, Commit(t)
    PROVE  LockInv'
<1>1. /\ EndsActive(t) /\ kernel = None /\ pc[t] # "wait" /\ undo' = [undo EXCEPT ![t] = << >>]
      /\ UNCHANGED <<recs, marked, split, splits, queue, kernel, ops>>
  BY DEF Commit, Running
<1> QED BY <1>1, EndsOK

(* the end of a rollback *)
LEMMA RollbackEndsOK ==
    ASSUME LockInv, NEW t \in Trx, RollbackEnds(t)
    PROVE  LockInv'
<1>1. /\ EndsActive(t) /\ kernel = None /\ pc[t] # "wait" /\ undo' = undo /\ undo[t] = << >>
      /\ UNCHANGED <<recs, marked, split, splits, queue, kernel, ops>>
  BY DEF RollbackEnds
<1>2. undo \in [Trx -> Seq([rec : Key, new : BOOLEAN, mark : BOOLEAN])] BY InvParts DEF RowsOK
<1>3. undo' = [undo EXCEPT ![t] = << >>] BY <1>1, <1>2
<1> QED BY <1>1, <1>3, EndsOK

(* ROLLBACK, or the error of a deadlock victim *)
LEMMA RollbackOK ==
    ASSUME LockInv, NEW t \in Trx, Rollback(t)
    PROVE  LockInv'
<1>1. RowsOK /\ TrxOK /\ SleepOK /\ Sound(queue, recs, split) /\ Shown(queue, recs, writer) BY InvParts
<1>2. /\ kernel = None /\ pc[t] # "wait" /\ pc' = [pc EXCEPT ![t] = "rollback"]
      /\ seen' = [seen EXCEPT ![t] = {}] /\ UNCHANGED <<rows, queue, kernel, ops>>
  BY DEF Rollback, Running
<1>3. UNCHANGED <<recs, split, writer>> BY <1>2 DEF rows
<1>4. RowsOK' BY <1>1, <1>2, RowsSame
<1>5. writer \in [Key -> Trx \cup {None}] BY <1>1 DEF RowsOK
<1>6. TrxOK' BY <1>1, <1>2, <1>3, <1>5 DEF TrxOK
<1>7. ASSUME NEW u \in Trx PROVE IsWaiting(queue', u) <=> pc'[u] = "wait"
  <2>1. kernel # u BY <1>2, Constants
  <2>2. IsWaiting(queue, u) <=> pc[u] = "wait" BY <2>1, <1>1 DEF SleepOK
  <2> QED BY <2>2, <1>1, <1>2 DEF TrxOK
<1>8. SleepOK' BY <1>2, <1>7 DEF SleepOK
<1> QED BY <1>1, <1>2, <1>3, <1>4, <1>6, <1>8, NextInv

(* what is left in the undo logs does not speak of record k *)
Forgets(U, k) ==
    /\ U \in [Trx -> Seq([rec : Key, new : BOOLEAN, mark : BOOLEAN])]
    /\ \A u \in Trx : \A i \in DOMAIN U[u] : writer[U[u][i].rec] = u /\ U[u][i].rec # k
    /\ \A u \in Trx : \A i, j \in DOMAIN U[u] : i < j /\ U[u][j].new => U[u][i].rec # U[u][j].rec

(* btr_cur_optimistic_delete and btr_cur_pessimistic_delete *)
LEMMA DeleteOK ==
    ASSUME LockInv, kernel = None, NEW k \in recs, DeleteRecord(k), Forgets(undo', k),
           UNCHANGED <<splits, kernel, ops, seen>>
    PROVE  LockInv'
<1>1. RowsOK /\ TrxOK /\ QueuesOK /\ SleepOK /\ queue \in AllQueues /\ Shown(queue, recs, writer) BY InvParts
<1>2. recs \subseteq Key /\ k \in Key /\ marked \subseteq recs /\ writer \in [Key -> Trx \cup {None}]
      /\ Key \subseteq Nat /\ split \in Key \cup {None}
  BY <1>1, Constants DEF RowsOK
<1>3. PICK Q : Q = IF Alone(k) THEN lock_update_discard(queue, k) ELSE lock_update_delete(queue, k) OBVIOUS
<1>4. Removed(Q, k)
  <2>1. CASE Alone(k) BY <2>1, <1>1, <1>3, DiscardRemoves
  <2>2. CASE ~Alone(k) BY <2>2, <1>1, <1>3, DeleteFacts
  <2> QED BY <2>1, <2>2
<1>5. /\ Queues(Q, pc) /\ recs' = recs \ {k} /\ marked' = marked \ {k}
      /\ writer' = [writer EXCEPT ![k] = None] /\ split' = IF Alone(k) THEN None ELSE split
  BY <1>3 DEF DeleteRecord
<1>6. queue' = Q BY <1>5 DEF Queues
<1>7. Sound(queue', recs', split') BY <1>4, <1>5, <1>6 DEF Removed
<1>8. writer' \in [Key -> Trx \cup {None}] /\ writer'[k] = None /\ \A j \in Key \ {k} : writer'[j] = writer[j]
  BY <1>2, <1>5
<1>9. Shown(queue', recs', writer')
  <2>1. ASSUME NEW j \in recs' PROVE j \in recs /\ writer'[j] = writer[j] /\ Keeps(queue'[j], queue[j], writer[j])
    <3>1. j \in recs /\ j # k /\ j \in Key /\ j \in Resource BY <1>2, <1>5, Constants
    <3>2. GapsJoin(queue'[j], queue[j], j) BY <3>1, <1>4, <1>6 DEF Removed
    <3>3. queue[j] \in Seq(Request) BY <3>1, <1>1 DEF AllQueues
    <3>4. Keeps(queue'[j], queue[j], writer[j]) BY <3>1, <3>2, <3>3, KeepsGaps
    <3> QED BY <3>1, <3>4, <1>8
  <2> QED BY <2>1, <1>1, ShownKept
<1>10. pc \in [Trx -> Places] BY <1>1 DEF TrxOK, Places
<1>11. pc' \in [Trx -> Places] /\ \A t \in Trx : pc'[t] = pc[t] \/ (pc[t] = "wait" /\ pc'[t] = "run")
  BY <1>5, <1>10, QueuesType DEF Places
<1>12. TrxOK'
  <2>1. ASSUME NEW j \in Key, writer'[j] # None PROVE pc'[writer'[j]] \notin {"release", "done"}
    <3>1. writer'[j] = writer[j] /\ writer[j] \in Trx BY <2>1, <1>2, <1>8
    <3>2. pc[writer[j]] \notin {"release", "done"} BY <2>1, <3>1, <1>1 DEF TrxOK
    <3> QED BY <3>1, <3>2, <1>11
  <2> QED BY <2>1, <1>1, <1>11 DEF TrxOK, Places
<1>13. ASSUME NEW t \in Trx PROVE IsWaiting(queue', t) <=> pc'[t] = "wait"
  <2>1. kernel # t BY Constants
  <2>2. IsWaiting(Q, t) => pc[t] = "wait" BY <2>1, <1>1, <1>4 DEF SleepOK, Removed, Calms
  <2> QED BY <2>2, <1>5, <1>10, QueuesSleep DEF Places
<1>14. SleepOK' BY <1>13 DEF SleepOK
<1>15. split' # None => (\E j \in recs' : j < split') /\ (\E j \in recs' : j >= split')
  <2> SUFFICES ASSUME split' # None PROVE (\E j \in recs' : j < split') /\ (\E j \in recs' : j >= split')
    OBVIOUS
  <2>1. ~Alone(k) /\ split' = split /\ split # None /\ split \in Nat BY <1>2, <1>5
  <2>2. PICK o \in recs : SamePage(o, k) /\ o # k BY <2>1 DEF Alone
  <2>3. PICK a \in recs : a < split BY <2>1, <1>1 DEF RowsOK
  <2>4. PICK b \in recs : b >= split BY <2>1, <1>1 DEF RowsOK
  <2>5. o \in Nat /\ k \in Nat /\ (o < split <=> k < split) BY <1>2, <2>1, <2>2 DEF SamePage, OnLeft
  <2>6. a \in Nat /\ b \in Nat BY <1>2
  <2>7. \E j \in recs' : j < split
    <3>1. CASE a = k BY <3>1, <2>2, <2>3, <2>5, <1>5
    <3>2. CASE a # k BY <3>2, <2>3, <1>5
    <3> QED BY <3>1, <3>2
  <2>8. \E j \in recs' : j >= split
    <3>1. CASE b = k
      <4>1. o >= split BY <3>1, <2>1, <2>4, <2>5, <2>6
      <4> QED BY <4>1, <2>2, <1>5
    <3>2. CASE b # k BY <3>2, <2>4, <1>5
    <3> QED BY <3>1, <3>2
  <2> QED BY <2>1, <2>7, <2>8
<1>16. ASSUME NEW u \in Trx, NEW i \in DOMAIN undo'[u] PROVE writer'[undo'[u][i].rec] = u
  <2>1. undo'[u] \in Seq([rec : Key, new : BOOLEAN, mark : BOOLEAN]) BY DEF Forgets
  <2>2. undo'[u][i] \in [rec : Key, new : BOOLEAN, mark : BOOLEAN] BY <2>1, SeqElem
  <2>3. undo'[u][i].rec \in Key /\ writer[undo'[u][i].rec] = u /\ undo'[u][i].rec # k BY <2>2 DEF Forgets
  <2> QED BY <2>3, <1>8
<1>17. \A j \in Key \ recs' : writer'[j] = None BY <1>1, <1>5, <1>8 DEF RowsOK
<1>18. recs' \subseteq Key /\ marked' \subseteq recs' /\ split' \in Key \cup {None} /\ splits' \in 0 .. MaxSplits
  BY <1>1, <1>5 DEF RowsOK
<1>19. /\ undo' \in [Trx -> Seq([rec : Key, new : BOOLEAN, mark : BOOLEAN])]
       /\ \A u \in Trx : \A i, j \in DOMAIN undo'[u] :
            i < j /\ undo'[u][j].new => undo'[u][i].rec # undo'[u][j].rec
  BY DEF Forgets
<1>20. \A u \in Trx : \A i \in DOMAIN undo'[u] : writer'[undo'[u][i].rec] = u BY <1>16
<1>21. RowsOK' BY <1>8, <1>15, <1>17, <1>18, <1>19, <1>20, Zenon DEF RowsOK
<1> QED BY <1>7, <1>9, <1>12, <1>14, <1>21, NextInv

(* row_purge_remove_clust_if_poss *)
LEMMA PurgeOK ==
    ASSUME LockInv, NEW k \in Key, Purge(k)
    PROVE  LockInv'
<1>1. RowsOK BY InvParts
<1>2. /\ kernel = None /\ k \in recs /\ writer[k] = None /\ DeleteRecord(k)
      /\ UNCHANGED <<undo, kernel, ops, splits, seen>>
  BY <1>1 DEF Purge, RowsOK
<1>3. ASSUME NEW u \in Trx, NEW i \in DOMAIN undo[u] PROVE writer[undo[u][i].rec] = u /\ undo[u][i].rec # k
  BY <1>1, <1>2, Constants DEF RowsOK
<1>4. /\ undo \in [Trx -> Seq([rec : Key, new : BOOLEAN, mark : BOOLEAN])]
      /\ \A u \in Trx : \A i, j \in DOMAIN undo[u] : i < j /\ undo[u][j].new => undo[u][i].rec # undo[u][j].rec
  BY <1>1 DEF RowsOK
<1>5. Forgets(undo, k) BY <1>3, <1>4, Zenon DEF Forgets
<1>6. Forgets(undo', k) BY <1>2, <1>5
<1> QED BY <1>2, <1>6, DeleteOK

(* a list that is not empty is its front and its last element *)
LEMMA FrontFacts ==
    ASSUME NEW S, NEW s \in Seq(S), s # << >>
    PROVE  \E n \in Nat : /\ Len(s) = n + 1 /\ DOMAIN s = 1 .. n + 1 /\ Last(s) = s[n + 1] /\ s[n + 1] \in S
                          /\ Front(s) \in Seq(S) /\ DOMAIN Front(s) = 1 .. n
                          /\ \A i \in 1 .. n : Front(s)[i] = s[i]
<1>1. Len(s) \in Nat /\ Len(s) # 0 /\ DOMAIN s = 1 .. Len(s) OBVIOUS
<1>2. PICK n \in Nat : n = Len(s) - 1 /\ Len(s) = n + 1
  <2>1. Len(s) - 1 \in Nat /\ Len(s) = (Len(s) - 1) + 1 BY <1>1
  <2> QED BY <2>1
<1>3. Front(s) = [i \in 1 .. n |-> s[i]] BY <1>2 DEF Front
<1>4. \A i \in 1 .. n : s[i] \in S BY <1>1, <1>2
<1>5. Front(s) \in Seq(S) /\ DOMAIN Front(s) = 1 .. n /\ \A i \in 1 .. n : Front(s)[i] = s[i] BY <1>3, <1>4
<1>6. Last(s) = s[n + 1] /\ s[n + 1] \in S BY <1>1, <1>2 DEF Last
<1> QED BY <1>1, <1>2, <1>5, <1>6

(* row_undo_ins, row_undo_mod *)
LEMMA UndoChangeOK ==
    ASSUME LockInv, NEW t \in Trx, UndoChange(t)
    PROVE  LockInv'
<1> DEFINE E == [rec : Key, new : BOOLEAN, mark : BOOLEAN]
<1>1. /\ RowsOK /\ TrxOK /\ SleepOK /\ Sound(queue, recs, split) /\ Shown(queue, recs, writer)
      /\ recs \subseteq Key /\ writer \in [Key -> Trx \cup {None}] /\ undo \in [Trx -> Seq(E)]
  BY InvParts DEF RowsOK
<1>2. /\ pc[t] = "rollback" /\ kernel = None /\ undo[t] # << >> /\ UNCHANGED <<kernel, ops, splits, seen>>
  BY DEF UndoChange
<1>3. PICK n \in Nat : /\ Len(undo[t]) = n + 1 /\ DOMAIN undo[t] = 1 .. n + 1
                       /\ Last(undo[t]) = undo[t][n + 1] /\ undo[t][n + 1] \in E
                       /\ Front(undo[t]) \in Seq(E) /\ DOMAIN Front(undo[t]) = 1 .. n
                       /\ \A i \in 1 .. n : Front(undo[t])[i] = undo[t][i]
  <2>1. undo[t] \in Seq(E) BY <1>1
  <2> HIDE DEF E
  <2> QED BY <2>1, <1>2, FrontFacts
<1>4. PICK e \in E : e = Last(undo[t]) /\ e = undo[t][n + 1] BY <1>3
<1>5. PICK rest \in Seq(E) : rest = Front(undo[t]) BY <1>3
<1>6. DOMAIN rest = 1 .. n /\ \A i \in 1 .. n : rest[i] = undo[t][i] BY <1>3, <1>5
<1>7. /\ undo' = [undo EXCEPT ![t] = rest]
      /\ IF e.new THEN DeleteRecord(e.rec)
         ELSE /\ marked' = IF e.mark THEN marked \cup {e.rec} ELSE marked \ {e.rec}
              /\ writer' = [writer EXCEPT ![e.rec] = IF \E v \in ToSet(rest) : v.rec = e.rec THEN t ELSE None]
              /\ UNCHANGED <<recs, split, queue, pc>>
  BY <1>4, <1>5, Zenon DEF UndoChange
<1>8. PICK k \in Key : k = e.rec BY <1>4
<1>9. n + 1 \in DOMAIN undo[t] /\ writer[k] = t /\ k \in recs
  <2>1. n + 1 \in DOMAIN undo[t] BY <1>3
  <2>2. writer[k] = t BY <2>1, <1>1, <1>4, <1>8 DEF RowsOK
  <2> QED BY <2>1, <2>2, <1>1, Constants DEF RowsOK
<1>10. undo' \in [Trx -> Seq(E)] /\ undo'[t] = rest /\ \A u \in Trx \ {t} : undo'[u] = undo[u] BY <1>1, <1>7
<1>11. ASSUME NEW u \in Trx, NEW i \in DOMAIN undo'[u]
       PROVE  /\ i \in DOMAIN undo[u] /\ undo'[u][i] = undo[u][i] /\ undo'[u][i].rec \in Key
              /\ writer[undo'[u][i].rec] = u /\ (u # t => undo'[u][i].rec # k)
              /\ u = t => i \in 1 .. n /\ undo'[u][i] \in ToSet(rest)
  <2>1. i \in DOMAIN undo[u] /\ undo'[u][i] = undo[u][i] /\ (u = t => i \in 1 .. n /\ undo'[u][i] \in ToSet(rest))
    <3>1. CASE u = t
      <4>1. i \in 1 .. n BY <3>1, <1>6, <1>10
      <4>2. i \in 1 .. n + 1 BY <4>1
      <4>3. undo'[u][i] = rest[i] /\ rest[i] = undo[u][i] BY <3>1, <4>1, <1>6, <1>10
      <4> QED BY <3>1, <4>1, <4>2, <4>3, <1>3, <1>6 DEF ToSet
    <3>2. CASE u # t BY <3>2, <1>10
    <3> QED BY <3>1, <3>2
  <2>2. undo[u][i].rec \in Key
    <3>1. undo[u] \in Seq(E) BY <1>1
    <3>2. undo[u][i] \in E BY <3>1, <2>1, SeqElem
    <3> QED BY <3>2
  <2>3. writer[undo[u][i].rec] = u BY <2>1, <1>1 DEF RowsOK
  <2> QED BY <2>1, <2>2, <2>3, <1>9
<1>12. \A u \in Trx : \A i, j \in DOMAIN undo'[u] : i < j /\ undo'[u][j].new => undo'[u][i].rec # undo'[u][j].rec
  BY <1>1, <1>11 DEF RowsOK
<1>13. CASE e.new
  <2>1. ASSUME NEW u \in Trx, NEW i \in DOMAIN undo'[u] PROVE undo'[u][i].rec # k
    <3>1. CASE u # t BY <3>1, <1>11
    <3>2. CASE u = t
      <4>1. i \in DOMAIN undo[t] /\ i \in 1 .. n /\ undo'[u][i] = undo[t][i] BY <3>2, <1>11
      <4>2. i < n + 1 BY <4>1
      <4> QED BY <4>1, <4>2, <1>1, <1>4, <1>8, <1>9, <1>13 DEF RowsOK
    <3> QED BY <3>1, <3>2
  <2>2. Forgets(undo', k)
    <3>1. \A u \in Trx : \A i \in DOMAIN undo'[u] : writer[undo'[u][i].rec] = u /\ undo'[u][i].rec # k
      BY <2>1, <1>11
    <3>2. undo' \in [Trx -> Seq([rec : Key, new : BOOLEAN, mark : BOOLEAN])] BY <1>10
    <3> QED BY <3>1, <3>2, <1>12, Zenon DEF Forgets
  <2>3. DeleteRecord(k) BY <1>7, <1>8, <1>13
  <2> QED BY <2>2, <2>3, <1>2, <1>9, DeleteOK
<1>14. CASE ~e.new
  <2>1. /\ marked' = IF e.mark THEN marked \cup {k} ELSE marked \ {k}
        /\ writer' = [writer EXCEPT ![k] = IF \E v \in ToSet(rest) : v.rec = k THEN t ELSE None]
        /\ UNCHANGED <<recs, split, queue, pc>>
    BY <1>7, <1>8, <1>14
  <2>2. /\ writer' \in [Key -> Trx \cup {None}] /\ \A j \in Key \ {k} : writer'[j] = writer[j]
        /\ writer'[k] = IF \E v \in ToSet(rest) : v.rec = k THEN t ELSE None
    BY <2>1, <1>1
  <2>3. \A u \in Trx : \A i \in DOMAIN undo'[u] : writer'[undo'[u][i].rec] = u
    <3> SUFFICES ASSUME NEW u \in Trx, NEW i \in DOMAIN undo'[u] PROVE writer'[undo'[u][i].rec] = u OBVIOUS
    <3>1. CASE undo'[u][i].rec = k BY <3>1, <2>2, <1>11
    <3>2. CASE undo'[u][i].rec # k BY <3>2, <2>2, <1>11
    <3> QED BY <3>1, <3>2
  <2>4. \A j \in Key \ recs' : writer'[j] = None BY <2>1, <2>2, <1>1, <1>9 DEF RowsOK
  <2>5. recs' \subseteq Key /\ marked' \subseteq recs' /\ split' \in Key \cup {None} /\ splits' \in 0 .. MaxSplits
    BY <2>1, <1>1, <1>2, <1>9 DEF RowsOK
  <2>6. split' # None => (\E j \in recs' : j < split') /\ (\E j \in recs' : j >= split')
    BY <2>1, <1>1 DEF RowsOK
  <2>7. undo' \in [Trx -> Seq([rec : Key, new : BOOLEAN, mark : BOOLEAN])] BY <1>10
  <2>8. RowsOK' BY <2>2, <2>3, <2>4, <2>5, <2>6, <2>7, <1>12, Zenon DEF RowsOK
  <2>9. \A j \in Key : writer'[j] # None => writer'[j] = writer[j] BY <2>2, <1>9
  <2>10. TrxOK' BY <2>1, <2>9, <1>1, <1>2 DEF TrxOK
  <2>11. Shown(queue', recs', writer')
    <3>1. \A j \in recs' : writer'[j] # None => j \in recs /\ writer'[j] = writer[j] /\ Keeps(queue'[j], queue[j], writer[j])
      BY <2>1, <2>9, <1>1, KeepsSame
    <3> QED BY <3>1, <1>1, ShownKept
  <2>12. Sound(queue', recs', split') /\ \A u \in Trx : IsWaiting(queue', u) <=> IsWaiting(queue, u)
    BY <2>1, <1>1
  <2> QED BY <2>1, <2>8, <2>10, <2>11, <2>12, <1>2, GrantedOK
<1> QED BY <1>13, <1>14

(* the queues and transactions when some requests of t have left, before   *)
(* others are granted                                                      *)
ReleasesTo(Q, p, t) ==
    /\ Leaves(Q) /\ Queues(Grants(Q), p) /\ p \in [Trx -> Places]
    /\ p[t] \in {"release", "done"} /\ \A u \in Trx \ {t} : p[u] = pc[u]
    /\ \A r \in Resource : \A q \in ToSet(queue[r]) : q.trx # t => q \in ToSet(Q[r])

(* lock_release_off_kernel; t has changed nothing any more *)
LEMMA ReleaseIs ==
    ASSUME LockInv, NEW t \in Trx, Release(t)
    PROVE  \E Q, p : ReleasesTo(Q, p, t)
<1>1. RowsOK /\ TrxOK /\ SleepOK /\ queue \in AllQueues /\ recs \subseteq Key
      /\ writer \in [Key -> Trx \cup {None}]
  BY InvParts DEF RowsOK
<1>2. pc[t] = "release" /\ kernel = None /\ UNCHANGED <<rows, kernel, ops, seen>> BY DEF Release
<1>3. PICK S \in SUBSET OwnRequests(t) :
        \E Q \in {[r \in Resource |-> Keep(queue[r], {i \in DOMAIN queue[r] : <<r, i>> \notin S})]} :
          Queues(Grants(Q), IF S = OwnRequests(t) THEN [pc EXCEPT ![t] = "done"] ELSE pc)
  <2>1. PICK own : own = OwnRequests(t) OBVIOUS
  <2>2. PICK S \in IF Cardinality(own) <= ReleaseInterval THEN {own} ELSE kSubset(ReleaseInterval, own) :
          \E Q \in {[r \in Resource |-> Keep(queue[r], {i \in DOMAIN queue[r] : <<r, i>> \notin S})]} :
            Queues(Grants(Q), IF S = own THEN [pc EXCEPT ![t] = "done"] ELSE pc)
    BY <2>1, Zenon DEF Release
  <2>3. S \in SUBSET own BY <2>2 DEF kSubset
  <2> QED BY <2>1, <2>2, <2>3
<1>4. PICK Q : /\ Q = [r \in Resource |-> Keep(queue[r], {i \in DOMAIN queue[r] : <<r, i>> \notin S})]
               /\ Queues(Grants(Q), IF S = OwnRequests(t) THEN [pc EXCEPT ![t] = "done"] ELSE pc)
  BY <1>3
<1>5. PICK p : p = IF S = OwnRequests(t) THEN [pc EXCEPT ![t] = "done"] ELSE pc OBVIOUS
<1>6. pc \in [Trx -> Places] BY <1>1 DEF TrxOK, Places
<1>7. p \in [Trx -> Places] /\ p[t] \in {"release", "done"} /\ \A u \in Trx \ {t} : p[u] = pc[u]
  BY <1>2, <1>5, <1>6 DEF Places
<1>8. ASSUME NEW r \in Resource
      PROVE  /\ Q[r] \in Seq(Request) /\ Part(Q[r], queue[r])
             /\ \A q \in ToSet(queue[r]) : q.trx # t => q \in ToSet(Q[r])
  <2>1. queue[r] \in Seq(Request) BY <1>1 DEF AllQueues
  <2>2. PICK I : I = {i \in DOMAIN queue[r] : <<r, i>> \notin S} OBVIOUS
  <2>3. Q[r] = Keep(queue[r], I) /\ I \subseteq DOMAIN queue[r] BY <2>2, <1>4
  <2>4. Part(Q[r], queue[r]) /\ ToSet(Q[r]) = {queue[r][i] : i \in I} BY <2>1, <2>3, KeepPart
  <2>5. ASSUME NEW q \in ToSet(queue[r]), q.trx # t PROVE q \in ToSet(Q[r])
    <3>1. PICK i \in DOMAIN queue[r] : q = queue[r][i] BY DEF ToSet
    <3>2. <<r, i>> \notin OwnRequests(t) BY <3>1, <2>5 DEF OwnRequests
    <3>3. i \in I BY <3>2, <2>2
    <3> QED BY <3>1, <3>3, <2>4
  <2> QED BY <2>4, <2>5 DEF Part
<1>9. Q = [r \in Resource |-> Q[r]] BY <1>4
<1>10. Q \in AllQueues BY <1>8, <1>9 DEF AllQueues
<1>11. ASSUME NEW k \in recs, writer[k] # None, NEW q \in ToSet(queue[k]), q.trx = writer[k] PROVE q \in ToSet(Q[k])
  <2>1. k \in Key /\ k \in Resource BY <1>1, Constants
  <2>2. writer[k] # t BY <2>1, <1>1, <1>2, <1>11 DEF TrxOK
  <2> QED BY <2>1, <2>2, <1>8, <1>11
<1>12. Leaves(Q) BY <1>8, <1>10, <1>11 DEF Leaves
<1>13. Queues(Grants(Q), p) BY <1>4, <1>5
<1> QED BY <1>7, <1>8, <1>12, <1>13 DEF ReleasesTo

(* lock_release_off_kernel, as many locks as one round releases *)
LEMMA ReleaseOK ==
    ASSUME LockInv, NEW t \in Trx, Release(t)
    PROVE  LockInv'
<1>1. RowsOK /\ TrxOK /\ SleepOK BY InvParts
<1>2. pc[t] = "release" /\ kernel = None /\ UNCHANGED <<rows, kernel, ops, seen>> BY DEF Release
<1>3. PICK Q, p : ReleasesTo(Q, p, t) BY ReleaseIs
<1>4. /\ p \in [Trx -> Places] /\ p[t] \in {"release", "done"} /\ \A u \in Trx \ {t} : p[u] = pc[u]
  BY <1>3 DEF ReleasesTo
<1>5. Leaves(Q) BY <1>3 DEF ReleasesTo
<1>6. /\ Sound(Grants(Q), recs, split) /\ Shown(Grants(Q), recs, writer)
       /\ Calms(Grants(Q), Q) /\ Calms(Q, queue)
  BY <1>5, LeavesOK
<1>7. Queues(Grants(Q), p) BY <1>3 DEF ReleasesTo
<1>8. UNCHANGED <<recs, split, writer>> /\ queue' = Grants(Q) BY <1>2, <1>7 DEF rows, Queues
<1>9. TrxOK' /\ RowsOK'
  <2>1. \A u \in Trx : p[u] \in {"release", "done"} => pc[u] \in {"release", "done"} BY <1>2, <1>4
  <2>2. kernel' \in Trx \cup {None} BY <1>2
  <2> QED BY <2>1, <2>2, <1>2, <1>4, <1>7, DequeueTrx
<1>10. ASSUME NEW u \in Trx PROVE IsWaiting(queue', u) <=> pc'[u] = "wait"
  <2>1. IsWaiting(Grants(Q), u) => IsWaiting(queue, u) BY <1>6 DEF Calms
  <2>2. kernel # u BY <1>2, Constants
  <2>3. IsWaiting(queue, u) => pc[u] = "wait" BY <2>2, <1>1 DEF SleepOK
  <2>4. pc[u] = "wait" => p[u] = "wait" BY <1>2, <1>4
  <2> QED BY <2>1, <2>3, <2>4, <1>4, <1>7, QueuesSleep DEF Places
<1>11. SleepOK' BY <1>2, <1>10 DEF SleepOK
<1> QED BY <1>6, <1>8, <1>9, <1>11, NextInv

-----------------------------------------------------------------------------
(* Splits and merges *)

(* lock_update_split_right *)
LEMMA SplitPageOK ==
    ASSUME LockInv, NEW k \in Key, SplitPage(k)
    PROVE  LockInv'
<1>1. /\ RowsOK /\ TrxOK /\ queue \in AllQueues /\ recs \subseteq Key
      /\ Sound(queue, recs, split) /\ Shown(queue, recs, writer)
  BY InvParts DEF RowsOK
<1>2. /\ kernel = None /\ split = None /\ splits < MaxSplits /\ k \in recs /\ split' = k /\ splits' = splits + 1
      /\ queue' = lock_rec_inherit_to_gap(queue, SupL, k)
      /\ UNCHANGED <<recs, marked, writer, undo, pc, kernel, ops, seen>>
  BY DEF SplitPage
<1>3. PICK j \in recs : j < k BY DEF SplitPage
<1>4. SupL \in Rec /\ k \in Resource /\ SupL \notin Key /\ k # None /\ k \in Nat BY Constants DEF Rec
<1>5. PICK A : A = queue' OBVIOUS
<1>6. Inherits(A, queue, SupL)
  <2>1. A = InheritIf(queue, SupL, k, ToSet(queue[k])) BY <1>2, <1>5 DEF lock_rec_inherit_to_gap
  <2> QED BY <2>1, <1>1, <1>4, InheritFacts
<1>7. /\ \A r \in Resource : Fine(queue[r], r)
      /\ \A i \in Key \ recs : queue[i] = << >>
  BY <1>1, SoundParts
<1>8. A \in AllQueues /\ \A o \in Resource \ {SupL} : A[o] = queue[o] BY <1>6 DEF Inherits
<1>9. Sound(A, recs, k)
  <2>1. \A r \in Resource : Fine(A[r], r) BY <1>1, <1>4, <1>6, <1>7, InheritsFine
  <2>2. \A i \in Key \ recs : A[i] = << >> BY <1>4, <1>7, <1>8, Constants
  <2> QED BY <2>1, <2>2, <1>4, <1>8, SoundParts
<1>10. Shown(A, recs, writer)
  <2>1. \A i \in recs : A[i] = queue[i] BY <1>1, <1>4, <1>8, Constants
  <2>2. \A i \in recs : writer[i] # None => i \in recs /\ writer[i] = writer[i] /\ Keeps(A[i], queue[i], writer[i])
    BY <2>1, KeepsSame
  <2> QED BY <2>2, <1>1, ShownKept
<1>11. ASSUME NEW u \in Trx PROVE IsWaiting(A, u) <=> IsWaiting(queue, u)
  <2>1. \A o \in Resource : /\ ToSet(queue[o]) \subseteq ToSet(A[o])
                            /\ \A p \in ToSet(A[o]) : p.wait => p \in ToSet(queue[o])
    BY <1>1, <1>4, <1>6, InheritsSets
  <2> QED BY <2>1 DEF IsWaiting
<1>12. splits' \in 0 .. MaxSplits BY <1>1, <1>2, LockSysAssumption DEF RowsOK
<1>13. (\E i \in recs' : i < split') /\ (\E i \in recs' : i >= split') BY <1>2, <1>3, <1>4
<1>14. RowsOK' BY <1>1, <1>2, <1>12, <1>13 DEF RowsOK
<1>15. TrxOK' BY <1>1, <1>2 DEF TrxOK
<1> QED BY <1>2, <1>5, <1>9, <1>10, <1>11, <1>14, <1>15, GrantedOK

(* lock_update_merge_left, lock_update_merge_right *)
LEMMA MergePagesOK ==
    ASSUME LockInv, MergePages
    PROVE  LockInv'
<1>1. /\ RowsOK /\ TrxOK /\ SleepOK /\ queue \in AllQueues /\ recs \subseteq Key
      /\ Sound(queue, recs, split) /\ Shown(queue, recs, writer)
  BY InvParts DEF RowsOK
<1>2. /\ kernel = None /\ split # None /\ split' = None
      /\ UNCHANGED <<recs, marked, writer, undo, kernel, ops, splits, seen>>
  BY DEF MergePages
<1>3. PICK T : T = {j \in recs : j >= split} OBVIOUS
<1>4. PICK k : k = CHOOSE j \in T : \A i \in T : j <= i OBVIOUS
<1>5. PICK A : A = lock_rec_reset_and_release_wait(lock_rec_inherit_to_gap(queue, k, SupL), SupL) OBVIOUS
<1>6. T # {} /\ Queues(A, pc) BY <1>3, <1>4, <1>5 DEF MergePages
<1>7. k \in T
  <2>1. T \subseteq Nat BY <1>1, <1>3, Constants
  <2> QED BY <2>1, <1>4, <1>6, FirstOf
<1>8. k \in recs /\ k \in Key /\ k \in Rec /\ SupL \in Rec /\ SupL # k /\ SupL \notin Key
  BY <1>1, <1>3, <1>7, Constants DEF Rec
<1>9. Bequeaths(A, queue, SupL, k) BY <1>1, <1>5, <1>8, BequeathFacts
<1>10. /\ \A r \in Resource : Fine(queue[r], r)
       /\ \A i \in Key \ recs : queue[i] = << >>
  BY <1>1, SoundParts
<1>11. (\A r \in Resource : Fine(A[r], r)) /\ Calms(A, queue) BY <1>1, <1>8, <1>9, <1>10, BequeathSound
<1>12. /\ A \in AllQueues /\ A[SupL] = << >>
       /\ \A r \in Resource \ {SupL} : GapsJoin(A[r], queue[r], r) /\ (r # k => A[r] = queue[r])
  BY <1>9 DEF Bequeaths
<1>13. Sound(A, recs, None)
  <2>1. \A i \in Key \ recs : A[i] = << >> BY <1>8, <1>10, <1>12, Constants
  <2> QED BY <2>1, <1>11, <1>12, SoundParts
<1>14. Shown(A, recs, writer)
  <2>1. ASSUME NEW i \in recs PROVE Keeps(A[i], queue[i], writer[i])
    <3>1. i \in Key /\ i \in Resource /\ i # SupL BY <1>1, <1>8, Constants
    <3>2. queue[i] \in Seq(Request) /\ GapsJoin(A[i], queue[i], i) BY <3>1, <1>1, <1>12 DEF AllQueues
    <3> QED BY <3>1, <3>2, KeepsGaps
  <2> QED BY <2>1, <1>1, ShownKept
<1>15. queue' = A BY <1>6 DEF Queues
<1>16. pc \in [Trx -> Places] BY <1>1 DEF TrxOK, Places
<1>17. pc' \in [Trx -> Places] /\ \A u \in Trx : pc'[u] = pc[u] \/ (pc[u] = "wait" /\ pc'[u] = "run")
  BY <1>6, <1>16, QueuesType DEF Places
<1>18. TrxOK'
  <2>1. ASSUME NEW j \in Key, writer[j] # None PROVE pc'[writer[j]] \notin {"release", "done"}
    <3>1. writer[j] \in Trx /\ pc[writer[j]] \notin {"release", "done"} BY <2>1, <1>1 DEF RowsOK, TrxOK
    <3> QED BY <3>1, <1>17
  <2> QED BY <2>1, <1>1, <1>2, <1>17 DEF TrxOK, Places
<1>19. ASSUME NEW u \in Trx PROVE IsWaiting(queue', u) <=> pc'[u] = "wait"
  <2>1. kernel # u BY <1>2, Constants
  <2>2. IsWaiting(A, u) => pc[u] = "wait" BY <2>1, <1>1, <1>11 DEF SleepOK, Calms
  <2> QED BY <2>2, <1>6, <1>16, QueuesSleep DEF Places
<1>20. SleepOK' BY <1>2, <1>19 DEF SleepOK
<1>21. RowsOK' BY <1>1, <1>2 DEF RowsOK
<1> QED BY <1>2, <1>13, <1>14, <1>15, <1>18, <1>20, <1>21, NextInv

-----------------------------------------------------------------------------
(* The specification *)

(* SetToSeq lists the elements of a finite set *)
LEMMA SetToSeqIs ==
    ASSUME NEW S, IsFiniteSet(S)
    PROVE  SetToSeq(S) \in Seq(S)
<1>1. PICK n : n = Cardinality(S) OBVIOUS
<1>2. n \in Nat /\ ExistsBijection(1 .. n, S) BY <1>1, FS_CardinalityType
<1>3. \E f \in [1 .. n -> S] : IsInjective(f) BY <1>2 DEF ExistsBijection, Bijection, Injection
<1>4. SetToSeq(S) \in [1 .. n -> S] BY <1>1, <1>3 DEF SetToSeq
<1> QED BY <1>2, <1>4

(* only compatible table locks are there at the start *)
LEMMA InitOK == Init => LockInv
<1> SUFFICES ASSUME Init PROVE LockInv OBVIOUS
<1>1. RowsOK
  <2>1. recs \subseteq Key /\ marked \subseteq recs /\ split = None /\ splits \in 0 .. MaxSplits
    BY LockSysAssumption DEF Init
  <2>2. writer \in [Key -> Trx \cup {None}] /\ \A k \in Key : writer[k] = None BY DEF Init
  <2>3. undo \in [Trx -> Seq([rec : Key, new : BOOLEAN, mark : BOOLEAN])] /\ \A t \in Trx : undo[t] = << >>
    <3>1. PICK E : E = [rec : Key, new : BOOLEAN, mark : BOOLEAN] OBVIOUS
    <3>2. << >> \in Seq(E) OBVIOUS
    <3>3. undo \in [Trx -> Seq(E)] /\ \A t \in Trx : undo[t] = << >> BY <3>2 DEF Init
    <3> QED BY <3>1, <3>3
  <2> QED BY <2>1, <2>2, <2>3 DEF RowsOK
<1>2. TrxOK BY LockSysAssumption DEF Init, TrxOK
<1> DEFINE B0 == {NewLock(t, TableMode[t], "table") : t \in Begun}
<1>3. PICK B : B = B0 OBVIOUS
<1>4. ASSUME NEW q \in B
      PROVE  q \in Request /\ ~q.wait /\ q.trx \in Begun /\ q.mode = TableMode[q.trx]
  <2>1. PICK t \in Begun : q = NewLock(t, TableMode[t], "table") BY <1>3
  <2>2. t \in Trx /\ TableMode[t] \in Mode /\ "table" \in Kind BY LockSysAssumption DEF Mode, Kind
  <2>3. PICK o \in Request : /\ o = NewLock(t, TableMode[t], "table") /\ o.trx = t /\ o.mode = TableMode[t] /\ ~o.wait
    BY <2>2, NewLockFacts
  <2> QED BY <2>1, <2>3
<1>5. IsFiniteSet(B)
  <2>1. IsFiniteSet(Begun) BY LockSysAssumption, FS_Subset
  <2>2. PICK f : f = [t \in Begun |-> NewLock(t, TableMode[t], "table")] OBVIOUS
  <2>3. f \in Surjection(Begun, B) BY <2>2, <1>3 DEF Surjection
  <2> QED BY <2>1, <2>3, FS_Surjection
<1>6. PICK s : s = SetToSeq(B) OBVIOUS
<1>7. s \in Seq(B) BY <1>5, <1>6, SetToSeqIs
<1>8. queue = [r \in Resource |-> IF r # Tab THEN << >> ELSE s] BY <1>3, <1>6 DEF Init
<1> HIDE DEF B0
<1>9. \A i \in DOMAIN s : s[i] \in B BY <1>7, SeqElem
<1>10. s \in Seq(Request)
  <2>1. B \subseteq Request BY <1>4
  <2> QED BY <2>1, <1>7
<1>11. Ordered(s, Tab)
  <2> SUFFICES ASSUME NEW i \in DOMAIN s, NEW j \in DOMAIN s, s[i].trx # s[j].trx
               PROVE  lock_mode_compatible(s[i].mode, s[j].mode)
    BY DEF Ordered
  <2>1. PICK a \in Begun, b \in Begun : a # b /\ s[i].mode = TableMode[a] /\ s[j].mode = TableMode[b]
    BY <1>4, <1>9
  <2>2. TableMode[a] \in {"IS", "IX"} /\ TableMode[b] \in {"IS", "IX"} BY <2>1, LockSysAssumption
  <2>3. \A x, y \in {"IS", "IX"} : lock_mode_compatible(x, y) BY DEF lock_mode_compatible
  <2> QED BY <2>1, <2>2, <2>3
<1>12. Held(s, Tab) BY <1>4, <1>9 DEF Held
<1>13. Fine(s, Tab) BY <1>10, <1>11, <1>12 DEF Fine
<1>14. ASSUME NEW r \in Resource PROVE Fine(queue[r], r) /\ queue[r] \in Seq(Request) /\ \A q \in ToSet(queue[r]) : ~q.wait
  <2>1. CASE r = Tab
    <3>1. queue[r] = s BY <2>1, <1>8
    <3>2. \A q \in ToSet(s) : ~q.wait BY <1>4, <1>9 DEF ToSet
    <3> QED BY <2>1, <3>1, <3>2, <1>10, <1>13
  <2>2. CASE r # Tab
    <3>1. queue[r] = << >> BY <2>2, <1>8
    <3> QED BY <3>1, EmptyFine
  <2> QED BY <2>1, <2>2
<1>15. queue \in AllQueues BY <1>8, <1>14 DEF AllQueues
<1>16. \A r \in Resource \ {Tab} : queue[r] = << >> BY <1>8
<1>17. QueuesOK
  <2>1. \A k \in Key \ recs : queue[k] = << >> BY <1>16, Constants
  <2>2. queue[SupL] = << >> BY <1>16, Constants DEF Rec
  <2> QED BY <2>1, <2>2, <1>14, <1>15, SoundParts DEF QueuesOK
<1>18. ImplicitIsExplicit
  <2>1. recs \subseteq Key /\ \A k \in Key : writer[k] = None BY LockSysAssumption DEF Init
  <2> QED BY <2>1 DEF ImplicitIsExplicit
<1>19. SleepOK
  <2>1. \A t \in Trx : ~IsWaiting(queue, t) BY <1>14 DEF IsWaiting
  <2>2. kernel = None /\ \A t \in Trx : pc[t] = "run" BY DEF Init
  <2> QED BY <2>1, <2>2 DEF SleepOK
<1> QED BY <1>1, <1>2, <1>17, <1>18, <1>19 DEF LockInv

(* every step keeps the invariant *)
LEMMA NextOK == LockInv /\ [Next]_vars => LockInv'
<1> SUFFICES ASSUME LockInv, [Next]_vars PROVE LockInv' OBVIOUS
<1>1. CASE UNCHANGED vars
  <2>1. RowsOK' BY <1>1, InvParts, RowsSame DEF vars, rows
  <2>2. TrxOK' BY <1>1, InvParts DEF vars, TrxOK
  <2>3. Sound(queue', recs', split') /\ Shown(queue', recs', writer') BY <1>1, InvParts DEF vars
  <2>4. SleepOK' BY <1>1, InvParts DEF vars, SleepOK
  <2> QED BY <2>1, <2>2, <2>3, <2>4, NextInv
<1>2. CASE Next
  <2>1. ASSUME NEW t \in Trx, Continue(t) PROVE LockInv'
    BY <2>1, SearchEndsOK, VictimIsStartOK, VictimIsOtherOK, UndoChangeOK, RollbackEndsOK, ReleaseOK, RollbackOK
    DEF Continue
  <2>2. ASSUME NEW t \in Trx, NEW m \in {TableMode[t], "AI"}, LockTable(t, m) PROVE LockInv'
    <3>1. m \in Mode BY LockSysAssumption DEF Mode
    <3> QED BY <2>2, <3>1, LockTableOK
  <2>3. ASSUME NEW t \in Trx, NEW p \in Reads, ReadRecord(t, p[2], p[3], p[4]) PROVE LockInv'
    <3>1. p[2] \in Rec /\ p[3] \in {"S", "X"} /\ p[4] \in {"ordinary", "gap", "rec"} BY LockSysAssumption
    <3> QED BY <2>3, <3>1, ReadRecordOK
  <2>4. ASSUME NEW t \in Trx, NEW k \in Key, InsertRecord(t, k) PROVE LockInv' BY <2>4, InsertRecordOK
  <2>5. ASSUME NEW t \in Trx, NEW k \in Key, NEW b \in BOOLEAN, ModifyRecord(t, k, b) PROVE LockInv'
    BY <2>5, ModifyRecordOK
  <2>6. ASSUME NEW t \in Trx, UnlockAutoInc(t) PROVE LockInv' BY <2>6, UnlockAutoIncOK
  <2>7. ASSUME NEW t \in Trx, WaitTimesOut(t) PROVE LockInv' BY <2>7, WaitTimesOutOK
  <2>8. ASSUME NEW t \in Trx, Commit(t) PROVE LockInv' BY <2>8, CommitOK
  <2>9. ASSUME NEW t \in Trx, Rollback(t) PROVE LockInv' BY <2>9, RollbackOK
  <2>10. ASSUME NEW k \in Key, Purge(k) PROVE LockInv' BY <2>10, PurgeOK
  <2>11. ASSUME NEW k \in Key, SplitPage(k) PROVE LockInv' BY <2>11, SplitPageOK
  <2>12. ASSUME MergePages PROVE LockInv' BY <2>12, MergePagesOK
  <2> QED BY <1>2, <2>1, <2>2, <2>3, <2>4, <2>5, <2>6, <2>7, <2>8, <2>9, <2>10, <2>11, <2>12, Zenon DEF Next
<1> QED BY <1>1, <1>2

(* LockInv holds in every reachable state: the queues are in order,        *)
(* implicit locks that others wait for are explicit, and a transaction     *)
(* sleeps exactly when a request of its own waits, whatever records are    *)
(* inserted, purged, split or merged, and whatever waits time out or are   *)
(* chosen as victims by lock_deadlock_occurs.                              *)
THEOREM LockSysInvariant == Spec => []LockInv
<1>1. Init => LockInv BY InitOK
<1>2. LockInv /\ [Next]_vars => LockInv' BY NextOK
<1> QED BY <1>1, <1>2, PTL DEF Spec

(* the invariant gives the types *)
LEMMA TypeHolds == LockInv => TypeOK
<1> SUFFICES ASSUME LockInv PROVE TypeOK OBVIOUS
<1>1. RowsOK /\ TrxOK /\ QueuesOK BY InvParts
<1> QED BY <1>1 DEF RowsOK, TrxOK, QueuesOK, Sound, TypeOK

(* The types, and what lock_rec_validate_page demands: no request on a     *)
(* record that is not in the index, nor on the supremum of a page that is  *)
(* not there.                                                              *)
THEOREM LockSysType == Spec => []TypeOK
BY LockSysInvariant, TypeHolds, PTL

(* who holds a lock is behind the others in its queue, or they are behind  *)
(* it: Ordered makes them compatible; a writer has the explicit lock by    *)
(* RULE 1                                                                  *)
LEMMA HoldersHold == LockInv => HoldersCompatible
<1> SUFFICES ASSUME LockInv PROVE HoldersCompatible OBVIOUS
<1>1. RowsOK /\ Sound(queue, recs, split) /\ Shown(queue, recs, writer) /\ recs \subseteq Key BY InvParts DEF RowsOK
<1>2. ASSUME NEW r \in Key \cup {Tab}, NEW p \in ToSet(queue[r]), NEW q \in ToSet(queue[r]),
             p.trx # q.trx, ~p.wait, ~q.wait, {p.kind, q.kind} \cap {"gap", "insert"} = {}
      PROVE  lock_mode_compatible(p.mode, q.mode)
  <2>1. Real(p, r) /\ Real(q, r) BY <1>2 DEF Real
  <2> QED BY <2>1, <1>1, <1>2, Holders
<1>3. ASSUME NEW k \in recs, writer[k] # None, NEW q \in ToSet(queue[k]), q.trx # writer[k], ~q.wait,
             q.kind \notin {"gap", "insert"}
      PROVE  FALSE
  <2>1. k \in Key BY <1>1
  <2>2. lock_rec_has_expl(queue, writer[k], k, "X", "rec") BY <1>1, <1>3 DEF Shown
  <2>3. PICK p \in ToSet(queue[k]) : p.trx = writer[k] /\ ~p.wait /\ p.mode = "X" /\ Real(p, k)
    BY <2>1, <2>2, ExplX
  <2>4. Real(q, k) BY <2>1, <1>3 DEF Real
  <2>5. lock_mode_compatible(p.mode, q.mode) BY <2>1, <2>3, <2>4, <1>1, <1>3, Holders
  <2> QED BY <2>3, <2>5, Modes
<1> QED BY <1>2, <1>3 DEF HoldersCompatible

(* RULE 3 of lock0lock.c with the implicit locks: lock_rec_lock,           *)
(* lock_rec_insert_check_and_lock, the grants of                           *)
(* lock_rec_dequeue_from_page and gap inheritance never give two           *)
(* transactions conflicting locks on a record or the table, nor one on a   *)
(* record that another active transaction has changed.                     *)
THEOREM LockSysHoldersCompatible == Spec => []HoldersCompatible
BY LockSysInvariant, HoldersHold, PTL

(* RULE 1 of lock0lock.c: lock_rec_convert_impl_to_expl has made the       *)
(* implicit lock of a record explicit whenever another transaction has a   *)
(* request for it, over commits, rollbacks, purges and page changes.       *)
THEOREM LockSysImplicitIsExplicit == Spec => []ImplicitIsExplicit
<1>1. LockInv => ImplicitIsExplicit BY DEF LockInv
<1> QED BY <1>1, LockSysInvariant, PTL

(* Held and SleepOK, in the words of the property *)
LEMMA NobodyForgotten == LockInv => NoForgottenWaiters
<1> SUFFICES ASSUME LockInv PROVE NoForgottenWaiters OBVIOUS
<1>1. TypeOK /\ Sound(queue, recs, split) /\ SleepOK BY InvParts, TypeHolds
<1>2. \A r \in Resource : Held(queue[r], r) BY <1>1 DEF Sound
<1> QED BY <1>1, <1>2 DEF NoForgottenWaiters, Held, SleepOK

(* What lock_rec_queue_validate and lock_table_queue_validate assert:      *)
(* whoever waits has a conflicting request ahead, and a transaction sleeps *)
(* exactly when it waits; so no release, timeout, victim, purge or merge   *)
(* leaves a waiter behind that nobody will grant.                          *)
THEOREM LockSysNoForgottenWaiters == Spec => []NoForgottenWaiters
BY LockSysInvariant, NobodyForgotten, PTL

-----------------------------------------------------------------------------
(* What follows a key *)

OnL(sp, k) == sp # None /\ k < sp

(* r is the record or supremum behind key k, when the records are R and    *)
(* the right page, if any, begins at sp                                    *)
Follows(R, sp, k, r) ==
    \/ /\ r \in R /\ r > k /\ (OnL(sp, r) <=> OnL(sp, k))
       /\ \A j \in R : j > k /\ (OnL(sp, j) <=> OnL(sp, k)) => r <= j
    \/ /\ \A j \in R : ~(j > k /\ (OnL(sp, j) <=> OnL(sp, k)))
       /\ r = IF OnL(sp, k) THEN SupL ELSE Sup

(* NextRec finds what follows *)
LEMMA NextFollows ==
    ASSUME RowsOK, NEW k \in Key
    PROVE  Follows(recs, split, k, NextRec(k))
<1>1. PICK r : r = NextRec(k) OBVIOUS
<1>2. /\ r \in Key => /\ r \in recs /\ r > k /\ SamePage(r, k)
                      /\ \A j \in recs : j > k /\ SamePage(j, k) => r <= j
      /\ r \notin Key => /\ \A j \in recs : ~(j > k /\ SamePage(j, k))
                         /\ r = IF OnLeft(k) THEN SupL ELSE Sup
  BY <1>1, NextRecFacts
<1>3. CASE r \in Key BY <1>1, <1>2, <1>3 DEF Follows, SamePage, OnLeft, OnL
<1>4. CASE r \notin Key BY <1>1, <1>2, <1>4 DEF Follows, SamePage, OnLeft, OnL
<1> QED BY <1>3, <1>4

(* what follows a key is a record or a supremum *)
LEMMA FollowsRec ==
    ASSUME NEW R, R \subseteq Key, NEW sp, NEW k, NEW r, Follows(R, sp, k, r)
    PROVE  r \in Rec /\ r \in Resource
BY DEF Follows, Rec, Resource

(* only one record follows a key *)
LEMMA FollowsOne ==
    ASSUME NEW R, R \subseteq Key, NEW sp, NEW k \in Key, NEW a, NEW b,
           Follows(R, sp, k, a), Follows(R, sp, k, b)
    PROVE  a = b
<1>1. R \subseteq Nat BY Constants
<1>2. CASE a \in R /\ a > k /\ (OnL(sp, a) <=> OnL(sp, k))
  <2>1. \A j \in R : j > k /\ (OnL(sp, j) <=> OnL(sp, k)) => a <= j BY <1>2 DEF Follows
  <2>2. /\ b \in R /\ b > k /\ (OnL(sp, b) <=> OnL(sp, k))
        /\ \A j \in R : j > k /\ (OnL(sp, j) <=> OnL(sp, k)) => b <= j
    BY <1>2 DEF Follows
  <2>3. a <= b /\ b <= a BY <1>2, <2>1, <2>2
  <2> QED BY <1>1, <1>2, <2>2, <2>3
<1>3. CASE ~(a \in R /\ a > k /\ (OnL(sp, a) <=> OnL(sp, k))) BY <1>1, <1>3 DEF Follows
<1> QED BY <1>2, <1>3

(* k is inserted *)
LEMMA FollowsInsert ==
    ASSUME NEW R, R \subseteq Key, NEW sp \in Key \cup {None}, NEW k \in Key \ R, NEW j \in Key, j # k,
           NEW r, Follows(R, sp, j, r), NEW s, Follows(R, sp, k, s)
    PROVE  Follows(R \cup {k}, sp, j, r) \/ (Follows(R \cup {k}, sp, j, k) /\ r = s)
<1>1. R \subseteq Nat /\ k \in Nat /\ j \in Nat BY Constants
<1>2. CASE j < k /\ (OnL(sp, j) <=> OnL(sp, k)) /\ \A i \in R : i > j /\ (OnL(sp, i) <=> OnL(sp, j)) => k <= i
  <2>1. Follows(R \cup {k}, sp, j, k) BY <1>1, <1>2 DEF Follows
  <2>2. \A i \in R : i > j /\ (OnL(sp, i) <=> OnL(sp, j)) <=> i > k /\ (OnL(sp, i) <=> OnL(sp, k))
    BY <1>1, <1>2
  <2>3. Follows(R, sp, k, r) BY <1>1, <1>2, <2>2 DEF Follows
  <2> QED BY <2>1, <2>3, FollowsOne
<1>3. CASE ~(j < k /\ (OnL(sp, j) <=> OnL(sp, k)) /\ \A i \in R : i > j /\ (OnL(sp, i) <=> OnL(sp, j)) => k <= i)
  <2>1. CASE ~(j < k /\ (OnL(sp, j) <=> OnL(sp, k))) BY <1>1, <2>1 DEF Follows
  <2>2. CASE j < k /\ (OnL(sp, j) <=> OnL(sp, k))
    <3>1. PICK i \in R : i > j /\ (OnL(sp, i) <=> OnL(sp, j)) /\ ~(k <= i) BY <1>3, <2>2
    <3>2. r \in R /\ r > j /\ (OnL(sp, r) <=> OnL(sp, j)) /\ r <= i
          /\ \A n \in R : n > j /\ (OnL(sp, n) <=> OnL(sp, j)) => r <= n
      BY <3>1 DEF Follows
    <3>3. r <= k BY <1>1, <3>1, <3>2
    <3> QED BY <3>2, <3>3 DEF Follows
  <2> QED BY <2>1, <2>2
<1> QED BY <1>2, <1>3

(* k is deleted, its page stays *)
LEMMA FollowsDelete ==
    ASSUME NEW R, R \subseteq Key, NEW sp \in Key \cup {None}, NEW k \in R, NEW j \in Key,
           NEW r, Follows(R, sp, j, r), NEW s, Follows(R, sp, k, s)
    PROVE  Follows(R \ {k}, sp, j, IF r = k THEN s ELSE r)
<1>1. R \subseteq Nat /\ k \in Nat /\ j \in Nat /\ Sup \notin R /\ SupL \notin R BY Constants
<1>2. CASE r # k BY <1>1, <1>2 DEF Follows
<1>3. CASE r = k
  <2>1. /\ k > j /\ (OnL(sp, k) <=> OnL(sp, j))
        /\ \A i \in R : i > j /\ (OnL(sp, i) <=> OnL(sp, j)) => k <= i
    BY <1>1, <1>3 DEF Follows
  <2>2. \A i \in R \ {k} : i > j /\ (OnL(sp, i) <=> OnL(sp, j)) <=> i > k /\ (OnL(sp, i) <=> OnL(sp, k))
    BY <1>1, <2>1
  <2>3. CASE s \in R
    <3>1. s > k /\ (OnL(sp, s) <=> OnL(sp, k)) /\ \A i \in R : i > k /\ (OnL(sp, i) <=> OnL(sp, k)) => s <= i
      BY <1>1, <2>3 DEF Follows
    <3>2. s \in R \ {k} BY <1>1, <2>3, <3>1
    <3>3. Follows(R \ {k}, sp, j, s) BY <2>2, <3>1, <3>2 DEF Follows
    <3> QED BY <3>3, <1>3
  <2>4. CASE s \notin R
    <3>1. (\A i \in R : ~(i > k /\ (OnL(sp, i) <=> OnL(sp, k)))) /\ s = IF OnL(sp, k) THEN SupL ELSE Sup
      BY <2>4 DEF Follows
    <3>2. Follows(R \ {k}, sp, j, s) BY <2>1, <2>2, <3>1 DEF Follows
    <3> QED BY <3>2, <1>3
  <2> QED BY <2>3, <2>4
<1> QED BY <1>2, <1>3

(* k was the last record of the left page *)
LEMMA FollowsDiscardLeft ==
    ASSUME NEW R, R \subseteq Key, NEW sp \in Key, NEW k \in R, OnL(sp, k),
           \A i \in R : OnL(sp, i) => i = k,
           NEW h \in R, h >= sp, \A i \in R : i >= sp => h <= i,
           NEW j \in Key, NEW r, Follows(R, sp, j, r)
    PROVE  \/ r \in {k, SupL} /\ Follows(R \ {k}, None, j, h)
           \/ r \notin {k, SupL} /\ Follows(R \ {k}, None, j, r)
<1>1. R \subseteq Nat /\ k \in Nat /\ j \in Nat /\ sp \in Nat /\ sp # None /\ Sup \notin R /\ SupL \notin R /\ Sup # SupL
  BY Constants
<1>2. k < sp /\ (\A i \in R : i < sp => i = k) /\ \A i : ~OnL(None, i) BY <1>1 DEF OnL
<1>3. h # k /\ \A i \in R \ {k} : i >= sp BY <1>1, <1>2
<1>4. CASE j < sp
  <2>1. Follows(R \ {k}, None, j, h) BY <1>1, <1>2, <1>3, <1>4 DEF Follows
  <2>2. r \in {k, SupL} BY <1>1, <1>2, <1>4 DEF Follows, OnL
  <2> QED BY <2>1, <2>2
<1>5. CASE ~(j < sp)
  <2>1. \A i \in R \ {k} : i > j /\ (OnL(sp, i) <=> OnL(sp, j)) <=> i > j BY <1>1, <1>3, <1>5 DEF OnL
  <2>2. ~OnL(sp, j) BY <1>5 DEF OnL
  <2>3. CASE r \in R
    <3>1. r > j /\ (OnL(sp, r) <=> OnL(sp, j)) /\ \A i \in R : i > j /\ (OnL(sp, i) <=> OnL(sp, j)) => r <= i
      BY <1>1, <2>3 DEF Follows
    <3>2. r # k /\ r # SupL BY <1>1, <2>2, <2>3, <3>1
    <3>3. Follows(R \ {k}, None, j, r) BY <1>2, <2>1, <2>3, <3>1, <3>2 DEF Follows
    <3> QED BY <3>2, <3>3
  <2>4. CASE r \notin R
    <3>1. (\A i \in R : ~(i > j /\ (OnL(sp, i) <=> OnL(sp, j)))) /\ r = Sup BY <2>2, <2>4 DEF Follows
    <3>2. r # k /\ r # SupL BY <1>1, <3>1
    <3>3. Follows(R \ {k}, None, j, r) BY <1>2, <2>1, <3>1 DEF Follows
    <3> QED BY <3>2, <3>3
  <2> QED BY <2>3, <2>4
<1> QED BY <1>4, <1>5

(* k was the last record of the right page *)
LEMMA FollowsDiscardRight ==
    ASSUME NEW R, R \subseteq Key, NEW sp \in Key, NEW k \in R, ~OnL(sp, k),
           \A i \in R : ~OnL(sp, i) => i = k,
           NEW j \in Key, NEW r, Follows(R, sp, j, r)
    PROVE  \/ r \in {k, Sup, SupL} /\ Follows(R \ {k}, None, j, Sup)
           \/ r \notin {k, Sup, SupL} /\ Follows(R \ {k}, None, j, r)
<1>1. R \subseteq Nat /\ k \in Nat /\ j \in Nat /\ sp \in Nat /\ sp # None /\ Sup \notin R /\ SupL \notin R /\ Sup # SupL
  BY Constants
<1>2. k >= sp /\ (\A i \in R : i >= sp => i = k) /\ \A i : ~OnL(None, i) BY <1>1 DEF OnL
<1>3. \A i \in R \ {k} : i < sp BY <1>1, <1>2
<1>4. CASE ~(j < sp)
  <2>1. \A i \in R \ {k} : ~(i > j) BY <1>1, <1>3, <1>4
  <2>2. Follows(R \ {k}, None, j, Sup) BY <1>2, <2>1 DEF Follows
  <2>3. r \in {k, Sup} BY <1>1, <1>2, <1>4, <2>1 DEF Follows, OnL
  <2> QED BY <2>2, <2>3
<1>5. CASE j < sp
  <2>1. OnL(sp, j) /\ \A i \in R : OnL(sp, i) <=> i # k BY <1>1, <1>2, <1>3, <1>5 DEF OnL
  <2>2. CASE r \in R
    <3>1. r > j /\ OnL(sp, r) /\ \A i \in R : i > j /\ OnL(sp, i) => r <= i BY <1>1, <2>1, <2>2 DEF Follows
    <3>2. r \notin {k, Sup, SupL} BY <1>1, <2>1, <2>2, <3>1
    <3>3. Follows(R \ {k}, None, j, r) BY <1>2, <2>1, <2>2, <3>1, <3>2 DEF Follows
    <3> QED BY <3>2, <3>3
  <2>3. CASE r \notin R
    <3>1. (\A i \in R : ~(i > j /\ OnL(sp, i))) /\ r = SupL BY <2>1, <2>3 DEF Follows
    <3>2. \A i \in R \ {k} : ~(i > j) BY <2>1, <3>1
    <3>3. Follows(R \ {k}, None, j, Sup) BY <1>2, <3>2 DEF Follows
    <3> QED BY <3>1, <3>3
  <2> QED BY <2>2, <2>3
<1> QED BY <1>4, <1>5

(* the right page now begins at k *)
LEMMA FollowsSplit ==
    ASSUME NEW R, R \subseteq Key, NEW k \in R, NEW j \in Key \ R, NEW r, Follows(R, None, j, r)
    PROVE  Follows(R, k, j, IF r = k THEN SupL ELSE r)
<1>1. R \subseteq Nat /\ k \in Nat /\ j \in Nat /\ j # k /\ k # None /\ Sup \notin R BY Constants
<1>2. \A i : ~OnL(None, i) /\ (OnL(k, i) <=> i < k) BY <1>1 DEF OnL
<1>3. CASE j < k
  <2>1. r \in R /\ r > j /\ r <= k /\ \A i \in R : i > j => r <= i BY <1>1, <1>2, <1>3 DEF Follows
  <2>2. CASE r = k
    <3>1. \A i \in R : ~(i > j /\ i < k) BY <1>1, <2>1, <2>2
    <3>2. Follows(R, k, j, SupL) BY <1>2, <1>3, <3>1 DEF Follows
    <3> QED BY <2>2, <3>2
  <2>3. CASE r # k
    <3>1. r < k BY <1>1, <2>1, <2>3
    <3>2. Follows(R, k, j, r) BY <1>2, <1>3, <2>1, <3>1 DEF Follows
    <3> QED BY <2>3, <3>2
  <2> QED BY <2>2, <2>3
<1>4. CASE j > k
  <2>1. ~(j < k) /\ \A i \in R : i > j => ~(i < k) BY <1>1, <1>4
  <2>2. r # k BY <1>1, <1>2, <1>4 DEF Follows
  <2>3. Follows(R, k, j, r) BY <1>2, <2>1 DEF Follows
  <2> QED BY <2>2, <2>3
<1> QED BY <1>1, <1>3, <1>4

(* the pages become one; k was the first record of the right one *)
LEMMA FollowsMerge ==
    ASSUME NEW R, R \subseteq Key, NEW sp \in Key, NEW k \in R, k >= sp, \A i \in R : i >= sp => k <= i,
           NEW j \in Key, NEW r, Follows(R, sp, j, r)
    PROVE  Follows(R, None, j, IF r = SupL THEN k ELSE r)
<1>1. R \subseteq Nat /\ k \in Nat /\ j \in Nat /\ sp \in Nat /\ sp # None /\ Sup # SupL /\ SupL \notin R BY Constants
<1>2. \A i : ~OnL(None, i) /\ (OnL(sp, i) <=> i < sp) BY <1>1 DEF OnL
<1>3. CASE j < sp
  <2>1. CASE r = SupL
    <3>1. \A i \in R : ~(i > j /\ i < sp) BY <1>1, <1>2, <1>3, <2>1 DEF Follows
    <3>2. Follows(R, None, j, k) BY <1>1, <1>2, <1>3, <3>1 DEF Follows
    <3> QED BY <2>1, <3>2
  <2>2. CASE r # SupL
    <3>1. r \in R /\ r > j /\ r < sp /\ \A i \in R : i > j /\ i < sp => r <= i BY <1>1, <1>2, <1>3, <2>2 DEF Follows
    <3>2. \A i \in R : i > j => r <= i BY <1>1, <3>1
    <3>3. Follows(R, None, j, r) BY <1>2, <3>1, <3>2 DEF Follows
    <3> QED BY <2>2, <3>3
  <2> QED BY <2>1, <2>2
<1>4. CASE ~(j < sp)
  <2>1. \A i \in R : i > j => ~(i < sp) BY <1>1, <1>4
  <2>2. r # SupL /\ Follows(R, None, j, r) BY <1>1, <1>2, <1>4, <2>1 DEF Follows
  <2> QED BY <2>2
<1> QED BY <1>3, <1>4

-----------------------------------------------------------------------------
(* What a transaction relies on is locked by it *)

(* t has the lock on a record, or on the gap before it, for a read *)
RecHeld(s, t) ==
    \E p \in ToSet(s) : /\ p.trx = t /\ ~p.wait /\ p.mode \in {"S", "X"}
                        /\ p.kind \in {"ordinary", "rec"}
GapHeld(s, t) ==
    \E p \in ToSet(s) : /\ p.trx = t /\ ~p.wait /\ p.mode \in {"S", "X"}
                        /\ p.kind \notin {"insert", "rec"}

(* what the transactions have read and rely on is locked *)
SeenBy(Q, R, sp, wr, sn) ==
    \A t \in Trx : \A k \in sn[t] :
        IF k \in R THEN wr[k] = t \/ RecHeld(Q[k], t)
        ELSE \E r \in Rec : Follows(R, sp, k, r) /\ GapHeld(Q[r], t)

Ended == {"rollback", "release", "done"}

(* locks on a supremum are for its gap *)
GapsOnly(Q) == \A r \in {Sup, SupL} : \A q \in ToSet(Q[r]) : q.kind # "rec"

ReadInv ==
    /\ SeenBy(queue, recs, split, writer, seen)
    /\ \A t \in Trx : pc[t] \in Ended => seen[t] = {}
    /\ GapsOnly(queue)

(* t still has the locks that it has *)
Retains(w, s, t) ==
    \A p \in ToSet(s) : p.trx = t /\ ~p.wait =>
        \E o \in ToSet(w) : o.trx = t /\ ~o.wait /\ o.mode = p.mode /\ o.kind = p.kind

(* nothing has left the queue *)
LEMMA RetainsMore == ASSUME NEW w, NEW s, ToSet(s) \subseteq ToSet(w), NEW t PROVE Retains(w, s, t)
BY DEF Retains

(* grants take no lock away *)
LEMMA RetainsGranted ==
    ASSUME NEW s \in Seq(Request), NEW g, MoreGranted(g, s), NEW t
    PROVE  Retains(g, s, t)
BY KeepsGranted DEF Keeps, Retains

(* over two changes *)
LEMMA RetainsBoth ==
    ASSUME NEW v, NEW w, NEW s, NEW t, Retains(v, w, t), Retains(w, s, t)
    PROVE  Retains(v, s, t)
<1> SUFFICES ASSUME NEW p \in ToSet(s), p.trx = t, ~p.wait
             PROVE  \E o \in ToSet(v) : o.trx = t /\ ~o.wait /\ o.mode = p.mode /\ o.kind = p.kind
  BY DEF Retains
<1>1. PICK o \in ToSet(w) : o.trx = t /\ ~o.wait /\ o.mode = p.mode /\ o.kind = p.kind BY DEF Retains
<1>2. PICK z \in ToSet(v) : z.trx = t /\ ~z.wait /\ z.mode = o.mode /\ z.kind = o.kind BY <1>1 DEF Retains
<1> QED BY <1>1, <1>2

(* a lock that is kept still holds the record, or the gap *)
LEMMA HeldKept ==
    ASSUME NEW w, NEW s, NEW t, Retains(w, s, t)
    PROVE  (RecHeld(s, t) => RecHeld(w, t)) /\ (GapHeld(s, t) => GapHeld(w, t))
<1>1. ASSUME RecHeld(s, t) PROVE RecHeld(w, t)
  <2>1. PICK p \in ToSet(s) : p.trx = t /\ ~p.wait /\ p.mode \in {"S", "X"} /\ p.kind \in {"ordinary", "rec"}
    BY <1>1 DEF RecHeld
  <2>2. PICK o \in ToSet(w) : o.trx = t /\ ~o.wait /\ o.mode = p.mode /\ o.kind = p.kind BY <2>1 DEF Retains
  <2> QED BY <2>1, <2>2 DEF RecHeld
<1>2. ASSUME GapHeld(s, t) PROVE GapHeld(w, t)
  <2>1. PICK p \in ToSet(s) : p.trx = t /\ ~p.wait /\ p.mode \in {"S", "X"} /\ p.kind \notin {"insert", "rec"}
    BY <1>2 DEF GapHeld
  <2>2. PICK o \in ToSet(w) : o.trx = t /\ ~o.wait /\ o.mode = p.mode /\ o.kind = p.kind BY <2>1 DEF Retains
  <2> QED BY <2>1, <2>2 DEF GapHeld
<1> QED BY <1>1, <1>2

(* the records and pages stay, and whoever relies on something keeps its locks *)
LEMMA SeenKept ==
    ASSUME NEW Q, NEW R, NEW sp, NEW wr, NEW sn, SeenBy(Q, R, sp, wr, sn), NEW Q2, NEW wr2, NEW sn2,
           R \subseteq Key,
           \A t \in Trx : sn2[t] \subseteq sn[t],
           \A t \in Trx : sn2[t] # {} => /\ \A r \in Rec : Retains(Q2[r], Q[r], t)
                                         /\ \A k \in Key : wr[k] = t => wr2[k] = t
    PROVE  SeenBy(Q2, R, sp, wr2, sn2)
<1> SUFFICES ASSUME NEW t \in Trx, NEW k \in sn2[t]
             PROVE  IF k \in R THEN wr2[k] = t \/ RecHeld(Q2[k], t)
                    ELSE \E r \in Rec : Follows(R, sp, k, r) /\ GapHeld(Q2[r], t)
  BY DEF SeenBy
<1>1. k \in sn[t] /\ (\A r \in Rec : Retains(Q2[r], Q[r], t)) /\ \A j \in Key : wr[j] = t => wr2[j] = t OBVIOUS
<1>2. CASE k \in R
  <2>1. k \in Key /\ k \in Rec BY <1>2 DEF Rec
  <2>2. wr[k] = t \/ RecHeld(Q[k], t) BY <1>1, <1>2 DEF SeenBy
  <2> QED BY <1>1, <1>2, <2>1, <2>2, HeldKept
<1>3. CASE k \notin R
  <2>1. PICK r \in Rec : Follows(R, sp, k, r) /\ GapHeld(Q[r], t) BY <1>1, <1>3 DEF SeenBy
  <2>2. GapHeld(Q2[r], t) BY <1>1, <2>1, HeldKept
  <2> QED BY <1>3, <2>1, <2>2
<1> QED BY <1>2, <1>3

(* the locks after the step, when the records and pages stay *)
LEMMA ReadKept ==
    ASSUME LockInv, ReadInv, UNCHANGED <<recs, split>>,
           \A t \in Trx : seen'[t] \in {seen[t], {}},
           \A t \in Trx : seen'[t] # {} => /\ \A r \in Rec : Retains(queue'[r], queue[r], t)
                                           /\ \A k \in Key : writer[k] = t => writer'[k] = t,
           \A t \in Trx : pc'[t] \in Ended => pc[t] \in Ended \/ seen'[t] = {},
           GapsOnly(queue')
    PROVE  ReadInv'
<1>1. recs \subseteq Key BY InvParts DEF RowsOK
<1>2. SeenBy(queue, recs, split, writer, seen) BY DEF ReadInv
<1>3. \A t \in Trx : seen'[t] \subseteq seen[t] OBVIOUS
<1>4. SeenBy(queue', recs, split, writer', seen') BY <1>1, <1>2, <1>3, SeenKept
<1>5. \A t \in Trx : pc'[t] \in Ended => seen'[t] = {} BY DEF ReadInv
<1> QED BY <1>4, <1>5 DEF ReadInv

(* only the table's queue changes, if any *)
LEMMA ReadSame ==
    ASSUME LockInv, ReadInv, UNCHANGED <<recs, split, writer, seen>>,
           \A t \in Trx : pc'[t] \in Ended => pc[t] \in Ended,
           \A r \in Rec : queue'[r] = queue[r]
    PROVE  ReadInv'
<1>1. \A t \in Trx : \A r \in Rec : Retains(queue'[r], queue[r], t) BY RetainsMore
<1>2. GapsOnly(queue') BY DEF ReadInv, GapsOnly, Rec
<1> QED BY <1>1, <1>2, ReadKept

(* a request begins to wait *)
LEMMA EnqueueRead ==
    ASSUME LockInv, ReadInv, NEW t \in Trx, NEW Q, NEW r, NEW q, MayWait(Q, t, r, q), EnqueueWaiting(Q, t, r, q),
           \A o \in Resource : ToSet(queue[o]) \subseteq ToSet(Q[o]),
           \A o \in {Sup, SupL} : Q[o] = queue[o]
    PROVE  ReadInv'
<1>1. Q \in AllQueues /\ r \in Resource BY SoundParts DEF MayWait
<1>2. PICK p : p = [q EXCEPT !.wait = TRUE] OBVIOUS
<1>3. p \in Request /\ p.kind = q.kind BY <1>2 DEF MayWait, Request
<1>4. OnRec(p, r) = p BY <1>3, OnRecFacts DEF MayWait
<1>5. PICK A : A = [Q EXCEPT ![r] = Append(@, p)] OBVIOUS
<1>6. queue' = A /\ UNCHANGED <<rows, pc, seen>> BY <1>2, <1>4, <1>5 DEF EnqueueWaiting
<1>7. JoinsAt(A, Q, r, p) BY <1>1, <1>3, <1>5, JoinsAtFacts
<1>8. \A o \in Resource : ToSet(Q[o]) \subseteq ToSet(A[o]) BY <1>7 DEF JoinsAt
<1>9. \A u \in Trx : \A o \in Rec : Retains(queue'[o], queue[o], u)
  <2>1. \A o \in Rec : o \in Resource BY DEF Resource
  <2>2. \A o \in Rec : ToSet(queue[o]) \subseteq ToSet(A[o]) BY <2>1, <1>8
  <2> QED BY <2>2, <1>6, RetainsMore
<1>10. GapsOnly(queue')
  <2> SUFFICES ASSUME NEW o \in {Sup, SupL}, NEW z \in ToSet(A[o]) PROVE z.kind # "rec" BY <1>6 DEF GapsOnly
  <2>1. o \in Resource /\ IsSup(o) BY Constants
  <2>2. z \in ToSet(queue[o]) \/ (z = p /\ o = r) BY <2>1, <1>7 DEF JoinsAt
  <2>3. z \in ToSet(queue[o]) => z.kind # "rec" BY DEF ReadInv, GapsOnly
  <2>4. o = r => p.kind # "rec" BY <2>1, <1>3 DEF MayWait
  <2> QED BY <2>2, <2>3, <2>4
<1>11. UNCHANGED <<recs, split, writer>> BY <1>6 DEF rows
<1> QED BY <1>6, <1>9, <1>10, <1>11, ReadKept

(* requests leave, others are granted *)
LEMMA DequeueRead ==
    ASSUME LockInv, ReadInv, NEW Q, NEW p, Leaves(Q), Queues(Grants(Q), p), UNCHANGED <<recs, split, writer, seen>>,
           p \in [Trx -> Places], \A t \in Trx : p[t] \in Ended => pc[t] \in Ended,
           \A t \in Trx : seen[t] # {} => \A r \in Rec : Retains(Q[r], queue[r], t)
    PROVE  ReadInv'
<1>1. queue' = Grants(Q) /\ Q \in AllQueues BY DEF Queues, Leaves
<1>2. \A r \in Resource : MoreGranted(queue'[r], Q[r]) BY <1>1, GrantsFacts
<1>3. \A r \in Rec : r \in Resource BY DEF Resource
<1>4. ASSUME NEW t \in Trx, seen[t] # {}, NEW r \in Rec PROVE Retains(queue'[r], queue[r], t)
  <2>1. Q[r] \in Seq(Request) BY <1>1, <1>3 DEF AllQueues
  <2>2. Retains(queue'[r], Q[r], t) BY <2>1, <1>2, <1>3, RetainsGranted
  <2> QED BY <2>2, <1>4, RetainsBoth
<1>5. GapsOnly(queue')
  <2> SUFFICES ASSUME NEW o \in {Sup, SupL}, NEW z \in ToSet(queue'[o]) PROVE z.kind # "rec" BY DEF GapsOnly
  <2>1. o \in Resource BY Constants
  <2>2. PICK i \in DOMAIN Q[o] : z = queue'[o][i] BY <2>1, <1>2 DEF ToSet, MoreGranted
  <2>3. z.kind = Q[o][i].kind BY <2>1, <2>2, <1>2 DEF MoreGranted
  <2>4. Q[o][i] \in ToSet(Q[o]) BY <2>2 DEF ToSet
  <2>5. Q[o][i] \in ToSet(queue[o]) BY <2>1, <2>4 DEF Leaves, Part
  <2> QED BY <2>3, <2>5 DEF ReadInv, GapsOnly
<1>6. \A t \in Trx : pc'[t] \in Ended => pc[t] \in Ended
  <2>1. \A t \in Trx : pc'[t] = p[t] \/ (p[t] = "wait" /\ pc'[t] = "run") BY QueuesType DEF Places
  <2> QED BY <2>1 DEF Ended
<1> QED BY <1>4, <1>5, <1>6, ReadKept

(* what RepeatableReads says of a step *)
Steady ==
    \A t \in Trx : \A k \in seen[t] :
         \/ undo'[t] # undo[t] \/ pc'[t] \in {"rollback", "release"}
         \/ /\ (k \in recs' \ marked') = (k \in recs \ marked)
            /\ writer'[k] \in {writer[k], None}

(* no row is changed *)
LEMMA SteadyRows == ASSUME UNCHANGED rows PROVE Steady
<1>1. UNCHANGED <<recs, marked, writer>> BY DEF rows
<1> QED BY <1>1 DEF Steady

(* lock_table concerns no record *)
LEMMA LockTableRead ==
    ASSUME LockInv, ReadInv, NEW t \in Trx, NEW mode \in Mode, LockTable(t, mode)
    PROVE  ReadInv' /\ Steady
<1>1. queue \in AllQueues BY InvParts
<1>2. /\ UNCHANGED <<rows, pc, seen>>
      /\ \E s : queue' = [queue EXCEPT ![Tab] = s]
  BY DEF LockTable, EnqueueWaiting
<1>3. PICK s : queue' = [queue EXCEPT ![Tab] = s] BY <1>2
<1>4. \A r \in Rec : queue'[r] = queue[r] BY <1>1, <1>3, Constants DEF AllQueues, Resource
<1>5. UNCHANGED <<recs, split, writer, seen, pc>> BY <1>2 DEF rows
<1>6. ReadInv' BY <1>4, <1>5, ReadSame
<1> QED BY <1>2, <1>6, SteadyRows

(* nor does the end of a search *)
LEMMA SearchEndsRead ==
    ASSUME LockInv, ReadInv, NEW t \in Trx, SearchEnds(t)
    PROVE  ReadInv' /\ Steady
<1>1. pc \in [Trx -> Places] BY InvParts DEF TrxOK, Places
<1>2. pc' = [pc EXCEPT ![t] = IF IsWaiting(queue, t) THEN "wait" ELSE "run"] /\ UNCHANGED <<rows, queue, seen>>
  BY DEF SearchEnds
<1>3. \A u \in Trx : pc'[u] \in Ended => pc[u] \in Ended BY <1>1, <1>2 DEF Ended
<1>4. UNCHANGED <<recs, split, writer, seen, queue>> BY <1>2 DEF rows
<1>5. ReadInv' BY <1>3, <1>4, ReadSame
<1> QED BY <1>2, <1>5, SteadyRows

(* t ends, or takes its changes back, and relies on nothing any more *)
LEMMA EndsRead ==
    ASSUME LockInv, ReadInv, NEW t \in Trx, UNCHANGED <<recs, marked, split, queue>>,
           pc' \in {[pc EXCEPT ![t] = "release"], [pc EXCEPT ![t] = "rollback"]},
           seen' = [seen EXCEPT ![t] = {}],
           writer' \in {writer, [k \in Key |-> IF writer[k] = t THEN None ELSE writer[k]]}
    PROVE  ReadInv' /\ Steady
<1>1. pc \in [Trx -> Places] /\ seen \in [Trx -> SUBSET Key] BY InvParts DEF TrxOK, Places
<1>2. seen'[t] = {} /\ \A u \in Trx \ {t} : seen'[u] = seen[u] /\ pc'[u] = pc[u] BY <1>1
<1>3. \A k \in Key : writer'[k] \in {writer[k], None} /\ (writer[k] # t => writer'[k] = writer[k]) OBVIOUS
<1>4. \A u \in Trx \ {t} : \A k \in Key : writer[k] = u => writer'[k] = u BY <1>3
<1>5. \A u \in Trx : \A r \in Rec : Retains(queue'[r], queue[r], u) BY RetainsMore
<1>6. GapsOnly(queue') BY DEF ReadInv, GapsOnly
<1>7. ReadInv'
  <2>1. \A u \in Trx : seen'[u] \in {seen[u], {}} BY <1>2
  <2>2. \A u \in Trx : seen'[u] # {} => \A k \in Key : writer[k] = u => writer'[k] = u BY <1>2, <1>4
  <2>3. \A u \in Trx : pc'[u] \in Ended => pc[u] \in Ended \/ seen'[u] = {} BY <1>2
  <2> QED BY <2>1, <2>2, <2>3, <1>5, <1>6, ReadKept
<1>8. Steady BY <1>1, <1>3 DEF Steady
<1> QED BY <1>7, <1>8

(* trx_commit_off_kernel *)
LEMMA CommitRead ==
    ASSUME LockInv, ReadInv, NEW t \in Trx, Commit(t)
    PROVE  ReadInv' /\ Steady
BY EndsRead DEF Commit, EndsActive

(* the end of a rollback *)
LEMMA RollbackEndsRead ==
    ASSUME LockInv, ReadInv, NEW t \in Trx, RollbackEnds(t)
    PROVE  ReadInv' /\ Steady
BY EndsRead DEF RollbackEnds, EndsActive

(* the start of a rollback *)
LEMMA RollbackRead ==
    ASSUME LockInv, ReadInv, NEW t \in Trx, Rollback(t)
    PROVE  ReadInv' /\ Steady
BY EndsRead DEF Rollback, rows

(* a wait is cancelled *)
LEMMA WaitTimesOutRead ==
    ASSUME LockInv, ReadInv, NEW t \in Trx, WaitTimesOut(t)
    PROVE  ReadInv' /\ Steady
<1>1. PICK Q : Q = [r \in Resource |-> Without(queue[r], Waits(t))] OBVIOUS
<1>2. Queues(Grants(Q), pc) /\ UNCHANGED <<rows, seen>>
  BY <1>1 DEF WaitTimesOut, CancelWait, Waits
<1>3. Leaves(Q) /\ \A r \in Resource : ToSet(Q[r]) = ToSet(queue[r]) \ Waits(t) BY <1>1, WithoutWaits
<1>4. \A u \in Trx : \A r \in Rec : Retains(Q[r], queue[r], u) BY <1>3 DEF Retains, Waits, Resource
<1>5. UNCHANGED <<recs, split, writer, seen>> BY <1>2 DEF rows
<1>6. pc \in [Trx -> Places] BY InvParts DEF TrxOK, Places
<1>7. ReadInv' BY <1>2, <1>3, <1>4, <1>5, <1>6, DequeueRead
<1> QED BY <1>2, <1>7, SteadyRows

(* LOCK_VICTIM_IS_OTHER: only a waiting request leaves *)
LEMMA VictimIsOtherRead ==
    ASSUME LockInv, ReadInv, NEW t \in Trx, VictimIsOther(t)
    PROVE  ReadInv' /\ Steady
<1>1. PICK w \in Closing(t) : Queues(CancelWait(queue, w), [pc EXCEPT ![w] = "victim"])
  BY DEF VictimIsOther
<1>2. UNCHANGED <<rows, seen>> BY DEF VictimIsOther
<1>3. w \in Trx /\ pc[w] = "wait" BY ClosingIs
<1>4. PICK Q : Q = [r \in Resource |-> Without(queue[r], Waits(w))] OBVIOUS
<1>5. PICK p : p = [pc EXCEPT ![w] = "victim"] OBVIOUS
<1>6. Queues(Grants(Q), p) BY <1>1, <1>4, <1>5 DEF CancelWait, Waits
<1>7. Leaves(Q) /\ \A r \in Resource : ToSet(Q[r]) = ToSet(queue[r]) \ Waits(w) BY <1>3, <1>4, WithoutWaits
<1>8. \A u \in Trx : \A r \in Rec : Retains(Q[r], queue[r], u) BY <1>7 DEF Retains, Waits, Resource
<1>9. UNCHANGED <<recs, split, writer, seen>> BY <1>2 DEF rows
<1>10. pc \in [Trx -> Places] BY InvParts DEF TrxOK, Places
<1>11. p \in [Trx -> Places] /\ \A u \in Trx : p[u] \in Ended => pc[u] \in Ended
  BY <1>5, <1>10 DEF Places, Ended
<1>12. ReadInv' BY <1>6, <1>7, <1>8, <1>9, <1>11, DequeueRead
<1> QED BY <1>2, <1>12, SteadyRows

(* LOCK_VICTIM_IS_START: only a waiting request leaves *)
LEMMA VictimIsStartRead ==
    ASSUME LockInv, ReadInv, NEW t \in Trx, VictimIsStart(t)
    PROVE  ReadInv' /\ Steady
<1>1. PICK Q : Q = [r \in Resource |-> Without(queue[r], Waits(t))] OBVIOUS
<1>2. queue' = Q /\ pc' = [pc EXCEPT ![t] = "victim"] /\ UNCHANGED <<rows, seen>>
  BY <1>1 DEF VictimIsStart, Waits
<1>3. \A r \in Resource : ToSet(Q[r]) = ToSet(queue[r]) \ Waits(t) BY <1>1, WithoutWaits
<1>4. \A u \in Trx : \A r \in Rec : Retains(queue'[r], queue[r], u) BY <1>2, <1>3 DEF Retains, Waits, Resource
<1>5. GapsOnly(queue') BY <1>2, <1>3, Constants DEF ReadInv, GapsOnly
<1>6. UNCHANGED <<recs, split, writer, seen>> BY <1>2 DEF rows
<1>7. pc \in [Trx -> Places] BY InvParts DEF TrxOK, Places
<1>8. \A u \in Trx : pc'[u] \in Ended => pc[u] \in Ended BY <1>2, <1>7 DEF Ended
<1>9. ReadInv' BY <1>4, <1>5, <1>6, <1>8, ReadKept
<1> QED BY <1>2, <1>9, SteadyRows

(* lock_table_unlock_auto_inc: only a table lock leaves *)
LEMMA UnlockAutoIncRead ==
    ASSUME LockInv, ReadInv, NEW t \in Trx, UnlockAutoInc(t)
    PROVE  ReadInv' /\ Steady
<1>1. PICK Q : UnlocksTo(Q, t) BY UnlockIs
<1>2. Leaves(Q) /\ (\A r \in Resource \ {Tab} : Q[r] = queue[r]) /\ Queues(Grants(Q), pc) BY <1>1 DEF UnlocksTo
<1>3. UNCHANGED <<rows, seen>> BY DEF UnlockAutoInc
<1>4. \A u \in Trx : \A r \in Rec : Retains(Q[r], queue[r], u)
  BY <1>2, RetainsMore, Constants DEF Resource
<1>5. UNCHANGED <<recs, split, writer, seen>> BY <1>3 DEF rows
<1>6. pc \in [Trx -> Places] BY InvParts DEF TrxOK, Places
<1>7. ReadInv' BY <1>2, <1>4, <1>5, <1>6, DequeueRead
<1> QED BY <1>3, <1>7, SteadyRows

(* lock_release_off_kernel: the transaction relies on nothing any more *)
LEMMA ReleaseRead ==
    ASSUME LockInv, ReadInv, NEW t \in Trx, Release(t)
    PROVE  ReadInv' /\ Steady
<1>1. PICK Q, p : ReleasesTo(Q, p, t) BY ReleaseIs
<1>2. /\ Leaves(Q) /\ Queues(Grants(Q), p) /\ p \in [Trx -> Places]
      /\ \A u \in Trx \ {t} : p[u] = pc[u]
      /\ \A r \in Resource : \A q \in ToSet(queue[r]) : q.trx # t => q \in ToSet(Q[r])
  BY <1>1 DEF ReleasesTo
<1>3. pc[t] = "release" /\ UNCHANGED <<rows, seen>> BY DEF Release
<1>4. seen[t] = {} BY <1>3 DEF ReadInv, Ended
<1>5. \A u \in Trx : seen[u] # {} => \A r \in Rec : Retains(Q[r], queue[r], u)
  BY <1>2, <1>4 DEF Retains, Resource
<1>6. UNCHANGED <<recs, split, writer, seen>> BY <1>3 DEF rows
<1>7. \A u \in Trx : p[u] \in Ended => pc[u] \in Ended BY <1>2, <1>3 DEF Ended
<1>8. ReadInv' BY <1>2, <1>5, <1>6, <1>7, DequeueRead
<1> QED BY <1>3, <1>8, SteadyRows

-----------------------------------------------------------------------------
(* Reads and changes *)

(* the suprema carry no implicit locks *)
LEMMA ConvertSups ==
    ASSUME LockInv, NEW r \in Rec, Present(r)
    PROVE  \A o \in {Sup, SupL} : lock_rec_convert_impl_to_expl(queue, r)[o] = queue[o]
<1>1. PICK C : C = lock_rec_convert_impl_to_expl(queue, r) OBVIOUS
<1>2. Adds(C, queue, r) BY <1>1, ConvertFacts
<1>3. CASE IsSup(r)
  <2>1. C = queue BY <1>1, <1>3 DEF lock_rec_convert_impl_to_expl
  <2> QED BY <1>1, <2>1
<1>4. CASE ~IsSup(r)
  <2>1. \A o \in {Sup, SupL} : o \in Resource \ {r} BY <1>4, Constants
  <2> QED BY <1>1, <1>2, <2>1 DEF Adds
<1> QED BY <1>3, <1>4

(* t has the lock on r that a read asks for *)
HasLock(s, t, r, kind) ==
    \E p \in ToSet(s) : /\ p.trx = t /\ ~p.wait /\ p.mode \in {"S", "X"} /\ p.kind # "insert"
                        /\ p.kind = "ordinary" \/ p.kind = kind \/ IsSup(r)

(* the queues after the read that asks for q need not wait *)
Granted(C, r, q) ==
    IF lock_rec_has_expl(C, q.trx, r, q.mode, q.kind) THEN C ELSE lock_rec_add_to_queue(C, r, q)

(* a request that a read can make *)
ReadRequest(q, r) ==
    /\ q \in Request /\ q.mode \in {"S", "X"} /\ q.kind \in {"ordinary", "gap", "rec"} /\ ~q.wait
    /\ IsSup(r) => q.kind = "ordinary"

(* what a read that need not wait leaves *)
LEMMA ReadGranted ==
    ASSUME LockInv, ReadInv, NEW r \in Rec, Present(r), NEW C, C = lock_rec_convert_impl_to_expl(queue, r),
           NEW q, ReadRequest(q, r)
    PROVE  /\ \A o \in Rec : ToSet(queue[o]) \subseteq ToSet(Granted(C, r, q)[o])
           /\ GapsOnly(Granted(C, r, q))
           /\ HasLock(Granted(C, r, q)[r], q.trx, r, q.kind)
<1> SUFFICES ASSUME NEW t \in Trx, NEW mode \in {"S", "X"}, NEW kind \in {"ordinary", "gap", "rec"},
                    q \in Request, q.trx = t, q.mode = mode, q.kind = kind, ~q.wait,
                    IsSup(r) => kind = "ordinary",
                    NEW A, A = IF lock_rec_has_expl(C, t, r, mode, kind) THEN C
                               ELSE lock_rec_add_to_queue(C, r, q)
             PROVE  /\ \A o \in Rec : ToSet(queue[o]) \subseteq ToSet(A[o])
                    /\ GapsOnly(A)
                    /\ HasLock(A[r], t, r, kind)
  <2>1. /\ q \in Request /\ q.trx \in Trx /\ q.mode \in {"S", "X"}
        /\ q.kind \in {"ordinary", "gap", "rec"} /\ ~q.wait /\ (IsSup(r) => q.kind = "ordinary")
    BY DEF ReadRequest, Request
  <2>2. Granted(C, r, q) = IF lock_rec_has_expl(C, q.trx, r, q.mode, q.kind) THEN C
                           ELSE lock_rec_add_to_queue(C, r, q)
    BY DEF Granted
  <2> QED BY <2>1, <2>2
<1>1. r \in Resource /\ \A o \in Rec : o \in Resource BY DEF Resource
<1>2. Adds(C, queue, r) /\ C \in AllQueues /\ \A o \in {Sup, SupL} : C[o] = queue[o]
  BY ConvertFacts, ConvertSups, SoundParts DEF Adds
<1>3. GapsOnly(C) BY <1>2 DEF ReadInv, GapsOnly
<1>4. \A o \in Rec : ToSet(queue[o]) \subseteq ToSet(C[o]) BY <1>1, <1>2 DEF Adds
<1>5. CASE lock_rec_has_expl(C, t, r, mode, kind)
  <2>1. A = C BY <1>5
  <2>2. PICK p \in ToSet(C[r]) : /\ p.trx = t /\ ~p.wait /\ p.kind # "insert"
                                 /\ lock_mode_stronger_or_eq(p.mode, mode)
                                 /\ p.kind = "ordinary" \/ p.kind = kind \/ IsSup(r)
    BY <1>5 DEF lock_rec_has_expl
  <2>3. p.mode \in {"S", "X"} BY <2>2 DEF lock_mode_stronger_or_eq
  <2>4. HasLock(C[r], t, r, kind) BY <2>2, <2>3 DEF HasLock
  <2> QED BY <2>1, <2>4, <1>3, <1>4
<1>6. CASE ~lock_rec_has_expl(C, t, r, mode, kind)
  <2>1. A = lock_rec_add_to_queue(C, r, q) BY <1>6
  <2>2. OnRec(q, r) = q BY OnRecFacts
  <2>3. /\ \A o \in Resource \ {r} : A[o] = C[o]
        /\ A = C \/ A[r] = Append(C[r], q)
        /\ q \in ToSet(A[r])
    BY <2>1, <2>2, <1>1, <1>2, AddFacts
  <2>4. ToSet(A[r]) = ToSet(C[r]) \cup {q}
    <3>1. CASE A = C BY <3>1, <2>3
    <3>2. CASE A # C
      <4>1. C[r] \in Seq(Request) BY <1>1, <1>2 DEF AllQueues
      <4>2. PICK s \in Seq(Request) : s = C[r] BY <4>1
      <4>3. ToSet(Append(s, q)) = ToSet(s) \cup {q} BY AppendFacts
      <4> QED BY <4>2, <4>3, <3>2, <2>3
    <3> QED BY <3>1, <3>2
  <2>5. \A o \in Rec : ToSet(queue[o]) \subseteq ToSet(A[o]) BY <2>3, <2>4, <1>1, <1>4
  <2>6. GapsOnly(A)
    <3> SUFFICES ASSUME NEW o \in {Sup, SupL}, NEW z \in ToSet(A[o]) PROVE z.kind # "rec" BY DEF GapsOnly
    <3>1. o \in Resource /\ IsSup(o) BY Constants
    <3>2. z \in ToSet(C[o]) \/ (z = q /\ o = r) BY <3>1, <2>3, <2>4
    <3>3. z \in ToSet(C[o]) => z.kind # "rec" BY <1>3 DEF GapsOnly
    <3> QED BY <3>1, <3>2, <3>3
  <2>7. HasLock(A[r], t, r, kind) BY <2>3 DEF HasLock
  <2> QED BY <2>5, <2>6, <2>7
<1> QED BY <1>5, <1>6

(* a locking read: what it adds to what t relies on, it has locked *)
LEMMA ReadRecordRead ==
    ASSUME LockInv, ReadInv, NEW t \in Trx, NEW r \in Rec, NEW mode \in {"S", "X"},
           NEW kind \in {"ordinary", "gap", "rec"}, ReadRecord(t, r, mode, kind)
    PROVE  ReadInv' /\ Steady
<1>1. RowsOK /\ recs \subseteq Key /\ seen \in [Trx -> SUBSET Key] BY InvParts DEF RowsOK, TrxOK
<1>2. Present(r) BY DEF ReadRecord, Present
<1>3. Running(t) /\ ops[t] < MaxOps[t] /\ (IsSup(r) => kind = "ordinary") BY DEF ReadRecord, MayStart
<1>4. PICK C : C = lock_rec_convert_impl_to_expl(queue, r) OBVIOUS
<1>5. /\ Adds(C, queue, r)
      /\ r \in Key /\ writer[r] # None => lock_rec_has_expl(C, writer[r], r, "X", "rec")
      /\ \A o \in {Sup, SupL} : C[o] = queue[o]
  BY <1>2, <1>4, ConvertFacts, ConvertSups
<1>6. PICK q \in Request : q = NewLock(t, mode, kind) /\ q.trx = t /\ q.mode = mode /\ q.kind = kind /\ ~q.wait
  <2>1. mode \in Mode /\ kind \in Kind BY DEF Mode, Kind
  <2> QED BY <2>1, NewLockFacts
<1>7. r \in Resource /\ (r \in Key => r \in recs) /\ (r = SupL => split # None)
  BY <1>1, <1>2, Constants DEF Present, Resource
<1>8. PICK has : has = lock_rec_has_expl(C, t, r, mode, kind) OBVIOUS
<1>9. PICK X : X = (IF kind = "rec" THEN {} ELSE GapBefore(r))
                   \cup (IF kind = "gap" \/ IsSup(r) THEN {} ELSE {r}) OBVIOUS
<1>10. IF ~has /\ Conflicting(C, q, r)
         THEN EnqueueWaiting(C, t, r, q)
         ELSE /\ queue' = IF has THEN C ELSE lock_rec_add_to_queue(C, r, q)
              /\ seen' = [seen EXCEPT ![t] = @
                   \cup (IF kind = "rec" THEN {} ELSE GapBefore(r))
                   \cup (IF kind = "gap" \/ IsSup(r) THEN {} ELSE {r})]
              /\ Count(t)
              /\ UNCHANGED <<rows, pc, kernel>>
  BY <1>4, <1>6, <1>8, Zenon DEF ReadRecord
<1>11. CASE ~has /\ Conflicting(C, q, r)
  <2>1. EnqueueWaiting(C, t, r, q) BY <1>10, <1>11
  <2>2. MayWait(C, t, r, q) BY <1>3, <1>5, <1>6, <1>7, <1>11 DEF MayWait, Adds
  <2>3. \A o \in Resource : ToSet(queue[o]) \subseteq ToSet(C[o]) BY <1>5 DEF Adds
  <2>4. ReadInv' BY <2>1, <2>2, <2>3, <1>5, EnqueueRead
  <2>5. UNCHANGED rows BY <2>1 DEF EnqueueWaiting, rows
  <2> QED BY <2>4, <2>5, SteadyRows
<1>12. CASE ~(~has /\ Conflicting(C, q, r))
  <2>1. /\ queue' = IF has THEN C ELSE lock_rec_add_to_queue(C, r, q)
        /\ UNCHANGED <<rows, pc>> /\ UNCHANGED <<recs, split, writer>>
    BY <1>10, <1>12 DEF rows
  <2>2. seen' = [seen EXCEPT ![t] = @ \cup X]
    <3>1. seen' = [seen EXCEPT ![t] = @
                   \cup (IF kind = "rec" THEN {} ELSE GapBefore(r))
                   \cup (IF kind = "gap" \/ IsSup(r) THEN {} ELSE {r})]
      BY <1>10, <1>12
    <3> QED BY <3>1, <1>9, Zenon
  <2>3. \A u \in Trx : seen'[u] = seen[u] \cup (IF u = t THEN X ELSE {}) BY <2>2, <1>1
  <2>4. PICK A : A = queue' OBVIOUS
  <2>5. /\ \A o \in Rec : ToSet(queue[o]) \subseteq ToSet(A[o])
        /\ GapsOnly(A)
        /\ HasLock(A[r], t, r, kind)
    <3>1. A = Granted(C, r, q)
      <4>1. A = IF lock_rec_has_expl(C, t, r, mode, kind) THEN C ELSE lock_rec_add_to_queue(C, r, q)
        BY <2>1, <2>4, <1>8, Zenon
      <4> QED BY <4>1, <1>6 DEF Granted
    <3>2. ReadRequest(q, r) BY <1>3, <1>6 DEF ReadRequest
    <3> QED BY <3>1, <3>2, <1>2, <1>4, <1>6, ReadGranted
  <2>6. PICK p \in ToSet(A[r]) : /\ p.trx = t /\ ~p.wait /\ p.mode \in {"S", "X"} /\ p.kind # "insert"
                                 /\ p.kind = "ordinary" \/ p.kind = kind \/ IsSup(r)
    BY <2>5 DEF HasLock
  <2>7. SeenBy(A, recs, split, writer, seen)
    <3>1. \A u \in Trx : \A o \in Rec : Retains(A[o], queue[o], u) BY <2>5, RetainsMore
    <3>2. SeenBy(queue, recs, split, writer, seen) BY DEF ReadInv
    <3> QED BY <3>1, <3>2, <1>1, SeenKept
  <2>8. SeenBy(A, recs, split, writer, seen')
    <3> SUFFICES ASSUME NEW u \in Trx, NEW k \in seen'[u]
                 PROVE  IF k \in recs THEN writer[k] = u \/ RecHeld(A[k], u)
                        ELSE \E o \in Rec : Follows(recs, split, k, o) /\ GapHeld(A[o], u)
      BY DEF SeenBy
    <3>1. CASE k \in seen[u] BY <3>1, <2>7 DEF SeenBy
    <3>2. CASE k \notin seen[u]
      <4>1. u = t /\ k \in X BY <3>2, <2>3
      <4>2. CASE kind # "rec" /\ k \in GapBefore(r)
        <5>1. k \in Key \ recs /\ NextRec(k) = r BY <4>2 DEF GapBefore
        <5>2. Follows(recs, split, k, r) BY <5>1, <1>1, NextFollows
        <5>3. p.kind # "rec"
          <6>1. CASE IsSup(r) BY <6>1, <2>5, <2>6 DEF GapsOnly, IsSup
          <6>2. CASE ~IsSup(r) BY <6>2, <2>6, <4>2
          <6> QED BY <6>1, <6>2
        <5>4. GapHeld(A[r], u) BY <4>1, <5>3, <2>6 DEF GapHeld
        <5> QED BY <5>1, <5>2, <5>4
      <4>3. CASE k = r /\ kind # "gap" /\ ~IsSup(r)
        <5>1. k \in recs BY <4>3, <1>2 DEF Present, IsSup
        <5>2. p.kind \in {"ordinary", "rec"} BY <4>3, <2>6
        <5>3. RecHeld(A[k], u) BY <4>1, <4>3, <5>2, <2>6 DEF RecHeld
        <5> QED BY <5>1, <5>3
      <4>4. (kind # "rec" /\ k \in GapBefore(r)) \/ (k = r /\ kind # "gap" /\ ~IsSup(r)) BY <4>1, <1>9
      <4> QED BY <4>2, <4>3, <4>4
    <3> QED BY <3>1, <3>2
  <2>9. \A u \in Trx : pc'[u] \in Ended => seen'[u] = {}
    <3>1. pc[t] = "run" BY <1>3 DEF Running
    <3> QED BY <3>1, <2>1, <2>3 DEF ReadInv, Ended
  <2>10. ReadInv' BY <2>1, <2>4, <2>5, <2>8, <2>9 DEF ReadInv
  <2> QED BY <2>1, <2>10, SteadyRows
<1> QED BY <1>11, <1>12

(* an undo log record is written *)
LEMMA LogGrows ==
    ASSUME RowsOK, NEW t \in Trx, NEW e \in [rec : Key, new : BOOLEAN, mark : BOOLEAN],
           undo' = [undo EXCEPT ![t] = Append(@, e)]
    PROVE  undo'[t] # undo[t]
<1>1. PICK E : E = [rec : Key, new : BOOLEAN, mark : BOOLEAN] OBVIOUS
<1>2. undo \in [Trx -> Seq(E)] BY <1>1 DEF RowsOK
<1>3. PICK s \in Seq(E) : s = undo[t] BY <1>2
<1>4. undo'[t] = Append(s, e) BY <1>2, <1>3
<1>5. PICK w : w = Append(s, e) OBVIOUS
<1>6. Len(w) = Len(s) + 1 /\ Len(s) \in Nat BY <1>1, <1>5, AppendIs
<1>7. w # s BY <1>6
<1> QED BY <1>3, <1>4, <1>5, <1>7

(* a change of a record: whoever else has read it would be in its way *)
LEMMA ModifyRecordRead ==
    ASSUME LockInv, ReadInv, NEW t \in Trx, NEW k \in Key, NEW mark \in BOOLEAN, ModifyRecord(t, k, mark)
    PROVE  ReadInv' /\ Steady
<1>1. RowsOK /\ recs \subseteq Key /\ seen \in [Trx -> SUBSET Key] /\ writer \in [Key -> Trx \cup {None}]
  BY InvParts DEF RowsOK, TrxOK
<1>2. Running(t) /\ ops[t] < MaxOps[t] /\ k \in recs BY DEF ModifyRecord, MayStart
<1>3. k \in Rec /\ Present(k) /\ ~IsSup(k) /\ k # SupL /\ k \in Resource BY <1>2, Constants DEF Rec, Present
<1>4. PICK C : C = lock_rec_convert_impl_to_expl(queue, k) OBVIOUS
<1>5. /\ Adds(C, queue, k) /\ (writer[k] # None => lock_rec_has_expl(C, writer[k], k, "X", "rec"))
      /\ \A o \in {Sup, SupL} : C[o] = queue[o]
  BY <1>3, <1>4, ConvertFacts, ConvertSups
<1>6. PICK q \in Request : q = NewLock(t, "X", "rec") /\ q.trx = t /\ q.mode = "X" /\ q.kind = "rec" /\ ~q.wait
  <2>1. "X" \in Mode /\ "rec" \in Kind BY DEF Mode, Kind
  <2> QED BY <2>1, NewLockFacts
<1>7. PICK e : e = [rec |-> k, new |-> FALSE, mark |-> k \in marked] OBVIOUS
<1>8. IF ~lock_rec_has_expl(C, t, k, "X", "rec") /\ Conflicting(C, q, k)
        THEN EnqueueWaiting(C, t, k, q)
        ELSE /\ queue' = C
             /\ marked' = IF mark THEN marked \cup {k} ELSE marked \ {k}
             /\ writer' = [writer EXCEPT ![k] = t]
             /\ undo' = [undo EXCEPT ![t] = Append(@, e)]
             /\ Count(t)
             /\ UNCHANGED <<recs, split, splits, pc, kernel, seen>>
  BY <1>4, <1>6, <1>7, Zenon DEF ModifyRecord
<1>9. \A o \in Resource : ToSet(queue[o]) \subseteq ToSet(C[o]) BY <1>5 DEF Adds
<1>10. CASE ~lock_rec_has_expl(C, t, k, "X", "rec") /\ Conflicting(C, q, k)
  <2>1. EnqueueWaiting(C, t, k, q) BY <1>8, <1>10
  <2>2. MayWait(C, t, k, q) BY <1>2, <1>3, <1>5, <1>6, <1>10 DEF MayWait, Adds
  <2>3. ReadInv' BY <2>1, <2>2, <1>5, <1>9, EnqueueRead
  <2>4. UNCHANGED rows BY <2>1 DEF EnqueueWaiting, rows
  <2> QED BY <2>3, <2>4, SteadyRows
<1>11. CASE ~(~lock_rec_has_expl(C, t, k, "X", "rec") /\ Conflicting(C, q, k))
  <2>1. /\ queue' = C
        /\ marked' = IF mark THEN marked \cup {k} ELSE marked \ {k}
        /\ writer' = [writer EXCEPT ![k] = t]
        /\ undo' = [undo EXCEPT ![t] = Append(@, e)]
        /\ UNCHANGED <<recs, split, pc, seen>>
    BY <1>8, <1>11
  <2>2. /\ writer[k] \in {t, None}
        /\ \A p \in ToSet(C[k]) : p.trx # t /\ Real(p, k) =>
             p.wait /\ lock_rec_has_expl(C, t, k, "X", "rec")
    BY <1>1, <1>2, <1>5, <1>6, <1>11, MayChange DEF Adds
  <2>3. /\ writer'[k] = t /\ \A j \in Key \ {k} : writer'[j] = writer[j]
    BY <2>1, <1>1
  <2>4. \A u \in Trx : \A j \in Key : writer[j] = u => writer'[j] = u BY <2>2, <2>3, Constants
  <2>5. \A u \in Trx : \A o \in Rec : Retains(queue'[o], queue[o], u) BY <2>1, <1>9, RetainsMore DEF Resource
  <2>6. GapsOnly(queue') BY <2>1, <1>5 DEF ReadInv, GapsOnly
  <2>7. ReadInv' BY <2>1, <2>4, <2>5, <2>6, ReadKept
  <2>8. ASSUME NEW u \in Trx, k \in seen[u] PROVE u = t
    <3> SUFFICES ASSUME u # t PROVE FALSE OBVIOUS
    <3>1. writer[k] = u \/ RecHeld(queue[k], u) BY <1>2, <2>8 DEF ReadInv, SeenBy
    <3>2. writer[k] # u BY <2>2, Constants
    <3>3. PICK p \in ToSet(queue[k]) : p.trx = u /\ ~p.wait /\ p.kind \in {"ordinary", "rec"}
      BY <3>1, <3>2 DEF RecHeld
    <3>4. p \in ToSet(C[k]) /\ Real(p, k) BY <3>3, <1>3, <1>9 DEF Real
    <3> QED BY <3>3, <3>4, <2>2
  <2>9. undo'[t] # undo[t]
    <3>1. e \in [rec : Key, new : BOOLEAN, mark : BOOLEAN] BY <1>7
    <3> QED BY <3>1, <2>1, <1>1, LogGrows
  <2>10. Steady
    <3> SUFFICES ASSUME NEW u \in Trx, NEW j \in seen[u], u # t
                 PROVE  (j \in recs' \ marked') = (j \in recs \ marked) /\ writer'[j] \in {writer[j], None}
      BY <2>9 DEF Steady
    <3>1. j # k /\ j \in Key BY <2>8, <1>1
    <3> QED BY <3>1, <2>1, <2>3
  <2> QED BY <2>7, <2>10
<1> QED BY <1>10, <1>11

(* an insert: whoever else has read the gap would be in its way, and the   *)
(* new record takes the gap's locks along                                  *)
LEMMA InsertRecordRead ==
    ASSUME LockInv, ReadInv, NEW t \in Trx, NEW k \in Key, InsertRecord(t, k)
    PROVE  ReadInv' /\ Steady
<1>1. /\ RowsOK /\ queue \in AllQueues /\ recs \subseteq Key /\ split \in Key \cup {None}
      /\ seen \in [Trx -> SUBSET Key] /\ writer \in [Key -> Trx \cup {None}]
      /\ Sound(queue, recs, split) /\ Shown(queue, recs, writer)
  BY InvParts DEF RowsOK, TrxOK
<1>2. Running(t) /\ ops[t] < MaxOps[t] /\ k \notin recs BY DEF InsertRecord, MayStart
<1>3. k \in Rec /\ k \in Resource /\ ~IsSup(k) /\ k # Sup /\ k # SupL BY Constants DEF Rec
<1>4. PICK r \in Rec : r = NextRec(k) /\ Present(r) /\ r \in Resource BY <1>1, NextRecFacts
<1>5. PICK q \in Request : q = NewLock(t, "X", "insert") /\ q.trx = t /\ q.mode = "X" /\ q.kind = "insert" /\ ~q.wait
  <2>1. "X" \in Mode /\ "insert" \in Kind BY DEF Mode, Kind
  <2> QED BY <2>1, NewLockFacts
<1>6. PICK e : e = [rec |-> k, new |-> TRUE, mark |-> FALSE] OBVIOUS
<1>7. IF Conflicting(queue, q, r)
        THEN EnqueueWaiting(queue, t, r, q)
        ELSE /\ queue' = lock_update_insert(queue, k)
             /\ recs' = recs \cup {k}
             /\ writer' = [writer EXCEPT ![k] = t]
             /\ undo' = [undo EXCEPT ![t] = Append(@, e)]
             /\ Count(t)
             /\ UNCHANGED <<marked, split, splits, pc, kernel, seen>>
  BY <1>4, <1>5, <1>6, Zenon DEF InsertRecord
<1>8. CASE Conflicting(queue, q, r)
  <2>1. EnqueueWaiting(queue, t, r, q) BY <1>7, <1>8
  <2>2. (r \in Key => r \in recs) /\ (r = SupL => split # None) BY <1>1, <1>4, Constants DEF Present
  <2>3. MayWait(queue, t, r, q) BY <1>1, <1>2, <1>4, <1>5, <1>8, <2>2 DEF MayWait
  <2>4. ReadInv' BY <2>1, <2>3, EnqueueRead
  <2>5. UNCHANGED rows BY <2>1 DEF EnqueueWaiting, rows
  <2> QED BY <2>4, <2>5, SteadyRows
<1>9. CASE ~Conflicting(queue, q, r)
  <2>1. /\ queue' = lock_update_insert(queue, k)
        /\ recs' = recs \cup {k}
        /\ writer' = [writer EXCEPT ![k] = t]
        /\ undo' = [undo EXCEPT ![t] = Append(@, e)]
        /\ UNCHANGED <<marked, split, pc, seen>>
    BY <1>7, <1>9
  <2>2. PICK A : A = queue' OBVIOUS
  <2>3. PICK S : S = {o \in ToSet(queue[r]) : IsSup(r) \/ o.kind # "rec"} OBVIOUS
  <2>4. A = InheritIf(queue, k, r, S)
    BY <2>1, <2>2, <2>3, <1>4 DEF lock_update_insert, lock_rec_inherit_to_gap_if_gap_lock
  <2>5. /\ Inherits(A, queue, k)
        /\ \A o \in ToSet(queue[r]) : o.kind # "insert" /\ o \in S => Left(o, A[k], k)
    BY <2>4, <1>1, <1>3, <1>4, InheritFacts
  <2>6. \A o \in Resource \ {k} : A[o] = queue[o] BY <2>5 DEF Inherits
  <2>7. \A o \in Resource : ToSet(queue[o]) \subseteq ToSet(A[o]) BY <2>5, <1>1, <1>3, InheritsSets
  <2>8. Follows(recs, split, k, r) BY <1>1, <1>4, NextFollows
  <2>9. writer'[k] = t /\ \A j \in Key \ {k} : writer'[j] = writer[j] BY <2>1, <1>1
  <2>10. ASSUME NEW u \in Trx, k \in seen[u] PROVE u = t
    <3> SUFFICES ASSUME u # t PROVE FALSE OBVIOUS
    <3>1. PICK s \in Rec : Follows(recs, split, k, s) /\ GapHeld(queue[s], u) BY <2>10, <1>2 DEF ReadInv, SeenBy
    <3>2. s = r BY <3>1, <2>8, <1>1, FollowsOne
    <3>3. PICK p \in ToSet(queue[r]) : p.trx = u /\ p.kind \notin {"insert", "rec"} BY <3>1, <3>2 DEF GapHeld
    <3>4. lock_has_to_wait(q, p, r) BY <3>3, <1>5, Modes DEF lock_has_to_wait
    <3> QED BY <3>3, <3>4, <1>9 DEF Conflicting
  <2>11. SeenBy(A, recs', split, writer', seen)
    <3> SUFFICES ASSUME NEW u \in Trx, NEW j \in seen[u]
                 PROVE  IF j \in recs' THEN writer'[j] = u \/ RecHeld(A[j], u)
                        ELSE \E o \in Rec : Follows(recs', split, j, o) /\ GapHeld(A[o], u)
      BY DEF SeenBy
    <3>1. j \in Key BY <1>1
    <3>2. CASE j = k BY <3>2, <2>1, <2>9, <2>10
    <3>3. CASE j # k /\ j \in recs
      <4>1. writer[j] = u \/ RecHeld(queue[j], u) BY <3>3 DEF ReadInv, SeenBy
      <4>2. A[j] = queue[j] /\ writer'[j] = writer[j] BY <3>1, <3>3, <2>6, <2>9, Constants
      <4> QED BY <3>3, <4>1, <4>2, <2>1
    <3>4. CASE j # k /\ j \notin recs
      <4>1. PICK s \in Rec : Follows(recs, split, j, s) /\ GapHeld(queue[s], u) BY <3>4 DEF ReadInv, SeenBy
      <4>2. PICK p \in ToSet(queue[s]) : /\ p.trx = u /\ ~p.wait /\ p.mode \in {"S", "X"}
                                         /\ p.kind \notin {"insert", "rec"}
        BY <4>1 DEF GapHeld
      <4>3. CASE Follows(recs \cup {k}, split, j, s)
        <5>1. p \in ToSet(A[s]) BY <4>2, <2>7 DEF Resource
        <5>2. GapHeld(A[s], u) BY <5>1, <4>2 DEF GapHeld
        <5> QED BY <5>2, <4>3, <3>4, <2>1
      <4>4. CASE Follows(recs \cup {k}, split, j, k) /\ s = r
        <5>1. p \in S /\ p \in ToSet(queue[r]) BY <4>2, <4>4, <2>3
        <5>2. Left(p, A[k], k) BY <5>1, <4>2, <2>5
        <5>3. GapHeld(A[k], u) BY <5>2, <4>2, <1>3 DEF Left, GapKind, GapHeld
        <5> QED BY <5>3, <4>4, <3>4, <2>1, <1>3
      <4> QED BY <4>1, <4>3, <4>4, <3>1, <3>4, <2>8, <1>1, <1>2, FollowsInsert
    <3> QED BY <3>2, <3>3, <3>4
  <2>12. GapsOnly(A)
    <3>1. \A o \in {Sup, SupL} : A[o] = queue[o] BY <2>6, <1>3, Constants
    <3> QED BY <3>1 DEF ReadInv, GapsOnly
  <2>13. ReadInv' BY <2>1, <2>2, <2>11, <2>12 DEF ReadInv
  <2>14. undo'[t] # undo[t]
    <3>1. e \in [rec : Key, new : BOOLEAN, mark : BOOLEAN] BY <1>6
    <3> QED BY <3>1, <2>1, <1>1, LogGrows
  <2>15. Steady
    <3> SUFFICES ASSUME NEW u \in Trx, NEW j \in seen[u], u # t
                 PROVE  (j \in recs' \ marked') = (j \in recs \ marked) /\ writer'[j] \in {writer[j], None}
      BY <2>14 DEF Steady
    <3>1. j # k /\ j \in Key BY <2>10, <1>1
    <3> QED BY <3>1, <2>1, <2>9
  <2> QED BY <2>13, <2>15
<1> QED BY <1>8, <1>9

-----------------------------------------------------------------------------
(* Records and pages go *)

(* the records R2 of R stay, and the gap locks are where they must be *)
LEMMA SeenMoves ==
    ASSUME NEW Q, NEW R, NEW sp, NEW wr, NEW sn, SeenBy(Q, R, sp, wr, sn), NEW Q2, NEW R2, NEW sp2, NEW wr2,
           R2 \subseteq R, R \subseteq Key, \A u \in Trx : sn[u] \subseteq Key,
           \A j \in R2 : wr2[j] = wr[j] /\ ToSet(Q[j]) \subseteq ToSet(Q2[j]),
           \A u \in Trx : \A j \in sn[u] : j \in R \ R2 =>
               \E o \in Rec : Follows(R2, sp2, j, o) /\ GapHeld(Q2[o], u),
           \A u \in Trx : \A j \in Key \ R : \A s \in Rec : Follows(R, sp, j, s) /\ GapHeld(Q[s], u) =>
               \E o \in Rec : Follows(R2, sp2, j, o) /\ GapHeld(Q2[o], u)
    PROVE  SeenBy(Q2, R2, sp2, wr2, sn)
<1> SUFFICES ASSUME NEW u \in Trx, NEW j \in sn[u]
             PROVE  IF j \in R2 THEN wr2[j] = u \/ RecHeld(Q2[j], u)
                    ELSE \E o \in Rec : Follows(R2, sp2, j, o) /\ GapHeld(Q2[o], u)
  BY DEF SeenBy
<1>1. CASE j \in R2
  <2>1. wr[j] = u \/ RecHeld(Q[j], u) BY <1>1 DEF SeenBy
  <2>2. Retains(Q2[j], Q[j], u) BY <1>1, RetainsMore
  <2> QED BY <1>1, <2>1, <2>2, HeldKept
<1>2. CASE j \in R \ R2 BY <1>2
<1>3. CASE j \notin R
  <2>1. PICK s \in Rec : Follows(R, sp, j, s) /\ GapHeld(Q[s], u) BY <1>3 DEF SeenBy
  <2>2. j \in Key \ R /\ j \notin R2 BY <1>3
  <2> QED BY <2>1, <2>2
<1> QED BY <1>1, <1>2, <1>3

(* the heir's gap lock is as good as the lock that was inherited *)
LEMMA LeftHeld ==
    ASSUME NEW s, NEW w, NEW heir, NEW u, \A q \in ToSet(s) : q.kind # "insert" => Left(q, w, heir),
           RecHeld(s, u) \/ GapHeld(s, u)
    PROVE  GapHeld(w, u)
<1>1. PICK p \in ToSet(s) : p.trx = u /\ p.mode \in {"S", "X"} /\ p.kind # "insert"
  BY DEF RecHeld, GapHeld
<1>2. PICK o \in ToSet(w) : o.trx = p.trx /\ o.mode = p.mode /\ ~o.wait /\ o.kind = GapKind(heir)
  BY <1>1 DEF Left
<1>3. o.kind \notin {"insert", "rec"} BY <1>2 DEF GapKind
<1> QED BY <1>1, <1>2, <1>3 DEF GapHeld

(* more gap locks: none is lost, and on a supremum none is of another kind *)
LEMMA GapsHeld ==
    ASSUME NEW s \in Seq(Request), NEW w, NEW r, GapsJoin(w, s, r), NEW u
    PROVE  /\ GapHeld(s, u) => GapHeld(w, u)
           /\ IsSup(r) /\ (\A q \in ToSet(s) : q.kind # "rec") => \A q \in ToSet(w) : q.kind # "rec"
<1>1. /\ ToSet(s) \subseteq ToSet(w)
      /\ \A q \in ToSet(w) : q \in ToSet(s) \/ (~q.wait /\ q.kind = GapKind(r))
  BY GapsJoinSet
<1>2. GapHeld(s, u) => GapHeld(w, u) BY <1>1, RetainsMore, HeldKept
<1>3. IsSup(r) => GapKind(r) # "rec" BY DEF GapKind
<1> QED BY <1>1, <1>2, <1>3

(* the locks when record k is gone, and its page stays *)
LEMMA DeleteSeen ==
    ASSUME LockInv, ReadInv, NEW k \in recs, ~Alone(k),
           \A u \in Trx : k \in seen[u] => RecHeld(queue[k], u),
           NEW A, A = lock_update_delete(queue, k), NEW wr, \A j \in recs \ {k} : wr[j] = writer[j]
    PROVE  SeenBy(A, recs \ {k}, split, wr, seen) /\ GapsOnly(A)
<1>1. /\ RowsOK /\ queue \in AllQueues /\ recs \subseteq Key /\ k \in Key /\ split \in Key \cup {None}
      /\ seen \in [Trx -> SUBSET Key]
  BY InvParts DEF RowsOK, TrxOK
<1>2. PICK h \in Rec : h = NextRec(k) /\ h # k BY <1>1, NextRecFacts
<1>3. k \in Rec /\ ~IsSup(k) /\ k # Sup /\ k # SupL BY <1>1, Constants DEF Rec
<1>4. Bequeaths(A, queue, k, h) BY <1>1, <1>2, <1>3, BequeathFacts DEF lock_update_delete
<1>5. /\ \A r \in Resource \ {k} : GapsJoin(A[r], queue[r], r)
      /\ \A q \in ToSet(queue[k]) : q.kind # "insert" => Left(q, A[h], h)
  BY <1>4 DEF Bequeaths
<1>6. Follows(recs, split, k, h) BY <1>1, <1>2, NextFollows
<1>7. ASSUME NEW r \in Resource \ {k} PROVE queue[r] \in Seq(Request) /\ ToSet(queue[r]) \subseteq ToSet(A[r])
  <2>1. queue[r] \in Seq(Request) BY <1>1 DEF AllQueues
  <2> QED BY <2>1, <1>5, GapsJoinSet
<1>8. ASSUME NEW j \in recs \ {k} PROVE wr[j] = writer[j] /\ ToSet(queue[j]) \subseteq ToSet(A[j])
  BY <1>1, <1>7, Constants
<1>9. ASSUME NEW u \in Trx, k \in seen[u] PROVE Follows(recs \ {k}, split, k, h) /\ GapHeld(A[h], u)
  <2>1. GapHeld(A[h], u) BY <1>5, <1>9, LeftHeld
  <2>2. Follows(recs \ {k}, split, k, IF h = k THEN h ELSE h) BY <1>1, <1>6, FollowsDelete
  <2> QED BY <2>1, <2>2
<1>10. ASSUME NEW u \in Trx, NEW j \in Key \ recs, NEW s \in Rec, Follows(recs, split, j, s), GapHeld(queue[s], u)
       PROVE  \E o \in Rec : Follows(recs \ {k}, split, j, o) /\ GapHeld(A[o], u)
  <2>1. Follows(recs \ {k}, split, j, IF s = k THEN h ELSE s) BY <1>1, <1>6, <1>10, FollowsDelete
  <2>2. CASE s = k
    <3>1. GapHeld(A[h], u) BY <2>2, <1>5, <1>10, LeftHeld
    <3> QED BY <2>1, <2>2, <3>1
  <2>3. CASE s # k
    <3>1. s \in Resource \ {k} BY <2>3 DEF Resource
    <3>2. GapHeld(A[s], u) BY <3>1, <1>5, <1>7, <1>10, GapsHeld
    <3> QED BY <2>1, <2>3, <3>2
  <2> QED BY <2>2, <2>3
<1>11. SeenBy(A, recs \ {k}, split, wr, seen)
  <2>1. SeenBy(queue, recs, split, writer, seen) BY DEF ReadInv
  <2>2. PICK R2 : R2 = recs \ {k} OBVIOUS
  <2>3. \A u \in Trx : \A j \in seen[u] : j \in recs \ R2 =>
          \E o \in Rec : Follows(R2, split, j, o) /\ GapHeld(A[o], u)
    BY <1>9, <2>2
  <2>4. \A j \in R2 : wr[j] = writer[j] /\ ToSet(queue[j]) \subseteq ToSet(A[j]) BY <1>8, <2>2
  <2>5. \A u \in Trx : \A j \in Key \ recs : \A s \in Rec : Follows(recs, split, j, s) /\ GapHeld(queue[s], u) =>
          \E o \in Rec : Follows(R2, split, j, o) /\ GapHeld(A[o], u)
    BY <1>10, <2>2
  <2>6. R2 \subseteq recs /\ \A u \in Trx : seen[u] \subseteq Key BY <1>1, <2>2
  <2>7. SeenBy(A, R2, split, wr, seen) BY <1>1, <2>1, <2>3, <2>4, <2>5, <2>6, SeenMoves
  <2> QED BY <2>2, <2>7
<1>12. GapsOnly(A)
  <2> SUFFICES ASSUME NEW o \in {Sup, SupL} PROVE \A q \in ToSet(A[o]) : q.kind # "rec" BY DEF GapsOnly
  <2>1. o \in Resource \ {k} /\ IsSup(o) BY <1>3, Constants
  <2>2. \A q \in ToSet(queue[o]) : q.kind # "rec" BY DEF ReadInv, GapsOnly
  <2> QED BY <2>1, <2>2, <1>5, <1>7, GapsHeld
<1> QED BY <1>11, <1>12

(* the locks when k was the last record of the left page *)
LEMMA DiscardSeenLeft ==
    ASSUME LockInv, ReadInv, NEW k \in recs, Alone(k), OnLeft(k),
           \A u \in Trx : k \in seen[u] => RecHeld(queue[k], u),
           NEW A, NEW h \in recs \cup {Sup}, h # k, Discarded(A, k, h),
           NEW wr, \A j \in recs \ {k} : wr[j] = writer[j]
    PROVE  SeenBy(A, recs \ {k}, None, wr, seen) /\ GapsOnly(A)
<1>1. /\ RowsOK /\ queue \in AllQueues /\ recs \subseteq Key /\ k \in Key /\ split \in Key
      /\ seen \in [Trx -> SUBSET Key]
  BY InvParts DEF RowsOK, TrxOK, OnLeft
<1>2. k \in Rec /\ k # Sup /\ k # SupL /\ SupL \in Resource /\ Sup # SupL /\ SupL \notin recs
  BY <1>1, Constants DEF Rec
<1>3. OnL(split, k) /\ \A i \in recs : OnL(split, i) => i = k
  BY DEF OnL, Alone, SamePage, OnLeft
<1>4. h \in recs /\ h >= split /\ (\A i \in recs : i >= split => h <= i) /\ h \in Rec /\ h \in Resource /\ h # SupL
  BY <1>1, <1>2, Constants DEF Discarded, Rec
<1>5. /\ \A r \in Resource \ {k, SupL, h} : A[r] = queue[r]
      /\ A[SupL] = << >> /\ GapsJoin(A[h], queue[h], h)
      /\ \A q \in ToSet(queue[k]) : q.kind # "insert" => Left(q, A[h], h)
      /\ \A q \in ToSet(queue[SupL]) : q.kind # "insert" => Left(q, A[h], h)
  BY DEF Discarded
<1>6. ASSUME NEW r \in Resource \ {k, SupL} PROVE ToSet(queue[r]) \subseteq ToSet(A[r])
  <2>1. CASE r = h
    <3>1. queue[h] \in Seq(Request) BY <1>1, <1>4 DEF AllQueues
    <3> QED BY <2>1, <3>1, <1>5, GapsJoinSet
  <2>2. CASE r # h BY <2>2, <1>5
  <2> QED BY <2>1, <2>2
<1>7. ASSUME NEW j \in recs \ {k} PROVE wr[j] = writer[j] /\ ToSet(queue[j]) \subseteq ToSet(A[j])
  <2>1. j \in Resource \ {k, SupL} BY <1>1, <1>2, Constants
  <2> QED BY <2>1, <1>6
<1>8. ASSUME NEW j \in Key, NEW s, Follows(recs, split, j, s)
      PROVE  \/ s \in {k, SupL} /\ Follows(recs \ {k}, None, j, h)
             \/ s \notin {k, SupL} /\ Follows(recs \ {k}, None, j, s)
  BY <1>1, <1>3, <1>4, <1>8, FollowsDiscardLeft
<1>9. ASSUME NEW u \in Trx, k \in seen[u] PROVE Follows(recs \ {k}, None, k, h) /\ GapHeld(A[h], u)
  <2>1. GapHeld(A[h], u) BY <1>5, <1>9, LeftHeld
  <2>2. PICK s : s = NextRec(k) /\ Follows(recs, split, k, s) BY <1>1, NextFollows
  <2>3. s \notin recs
    <3> SUFFICES ASSUME s \in recs PROVE FALSE OBVIOUS
    <3>1. s > k /\ OnL(split, s) BY <2>2, <1>2, <1>3, Constants DEF Follows
    <3>2. s = k /\ k \in Nat BY <3>1, <1>1, <1>3, Constants
    <3> QED BY <3>1, <3>2
  <2>4. s = SupL BY <2>2, <2>3, <1>3 DEF Follows
  <2> QED BY <2>1, <2>2, <2>4, <1>1, <1>8
<1>10. ASSUME NEW u \in Trx, NEW j \in Key \ recs, NEW s \in Rec, Follows(recs, split, j, s), GapHeld(queue[s], u)
       PROVE  \E o \in Rec : Follows(recs \ {k}, None, j, o) /\ GapHeld(A[o], u)
  <2>1. CASE s \in {k, SupL}
    <3>1. Follows(recs \ {k}, None, j, h) BY <2>1, <1>8, <1>10
    <3>2. GapHeld(A[h], u) BY <2>1, <1>5, <1>10, LeftHeld
    <3> QED BY <3>1, <3>2, <1>4
  <2>2. CASE s \notin {k, SupL}
    <3>1. Follows(recs \ {k}, None, j, s) BY <2>2, <1>8, <1>10
    <3>2. s \in Resource \ {k, SupL} BY <2>2 DEF Resource
    <3>3. GapHeld(A[s], u) BY <3>2, <1>6, <1>10, RetainsMore, HeldKept
    <3> QED BY <3>1, <3>3
  <2> QED BY <2>1, <2>2
<1>11. SeenBy(A, recs \ {k}, None, wr, seen)
  <2>1. SeenBy(queue, recs, split, writer, seen) BY DEF ReadInv
  <2>2. PICK R2 : R2 = recs \ {k} OBVIOUS
  <2>3. \A u \in Trx : \A j \in seen[u] : j \in recs \ R2 =>
          \E o \in Rec : Follows(R2, None, j, o) /\ GapHeld(A[o], u)
    BY <1>4, <1>9, <2>2
  <2>4. \A j \in R2 : wr[j] = writer[j] /\ ToSet(queue[j]) \subseteq ToSet(A[j]) BY <1>7, <2>2
  <2>5. \A u \in Trx : \A j \in Key \ recs : \A s \in Rec : Follows(recs, split, j, s) /\ GapHeld(queue[s], u) =>
          \E o \in Rec : Follows(R2, None, j, o) /\ GapHeld(A[o], u)
    BY <1>10, <2>2
  <2>6. R2 \subseteq recs /\ \A u \in Trx : seen[u] \subseteq Key BY <1>1, <2>2
  <2>7. SeenBy(A, R2, None, wr, seen) BY <1>1, <2>1, <2>3, <2>4, <2>5, <2>6, SeenMoves
  <2> QED BY <2>2, <2>7
<1>12. GapsOnly(A)
  <2>1. A[Sup] = queue[Sup] BY <1>1, <1>2, <1>4, <1>5, Constants
  <2>2. ToSet(A[SupL]) = {} BY <1>5, EmptyFine
  <2> QED BY <2>1, <2>2 DEF ReadInv, GapsOnly
<1> QED BY <1>11, <1>12

(* the locks when k was the last record of the right page *)
LEMMA DiscardSeenRight ==
    ASSUME LockInv, ReadInv, NEW k \in recs, Alone(k), ~OnLeft(k),
           \A u \in Trx : k \in seen[u] => RecHeld(queue[k], u),
           NEW A, NEW h, Discarded(A, k, h),
           NEW wr, \A j \in recs \ {k} : wr[j] = writer[j]
    PROVE  SeenBy(A, recs \ {k}, None, wr, seen) /\ GapsOnly(A)
<1>1. /\ RowsOK /\ queue \in AllQueues /\ recs \subseteq Key /\ k \in Key /\ split \in Key
      /\ seen \in [Trx -> SUBSET Key]
  BY InvParts DEF RowsOK, TrxOK, Alone
<1>2. /\ k \in Rec /\ k # Sup /\ k # SupL /\ SupL \in Resource /\ Sup # SupL /\ Sup \in Rec
      /\ IsSup(Sup) /\ SupL \notin recs /\ Sup \notin recs
  BY <1>1, Constants DEF Rec
<1>3. ~OnL(split, k) /\ \A i \in recs : ~OnL(split, i) => i = k
  BY DEF OnL, Alone, SamePage, OnLeft
<1>4. h = Sup BY DEF Discarded
<1>5. /\ \A r \in Resource \ {k, SupL, Sup} : A[r] = queue[r]
      /\ A[SupL] = << >> /\ GapsJoin(A[Sup], queue[SupL], Sup)
      /\ \A q \in ToSet(queue[k]) : q.kind # "insert" => Left(q, A[Sup], Sup)
      /\ \A q \in ToSet(queue[Sup]) : q.kind # "insert" => Left(q, A[Sup], Sup)
  BY <1>4 DEF Discarded
<1>6. queue[SupL] \in Seq(Request) BY <1>1, <1>2 DEF AllQueues
<1>7. ASSUME NEW j \in recs \ {k} PROVE wr[j] = writer[j] /\ ToSet(queue[j]) \subseteq ToSet(A[j])
  <2>1. j \in Resource \ {k, SupL, Sup} BY <1>1, <1>2, Constants
  <2> QED BY <2>1, <1>5
<1>8. ASSUME NEW j \in Key, NEW s, Follows(recs, split, j, s)
      PROVE  \/ s \in {k, Sup, SupL} /\ Follows(recs \ {k}, None, j, Sup)
             \/ s \notin {k, Sup, SupL} /\ Follows(recs \ {k}, None, j, s)
  BY <1>1, <1>3, <1>8, FollowsDiscardRight
<1>9. ASSUME NEW u \in Trx, k \in seen[u] PROVE Follows(recs \ {k}, None, k, Sup) /\ GapHeld(A[Sup], u)
  <2>1. GapHeld(A[Sup], u) BY <1>5, <1>9, LeftHeld
  <2>2. PICK s : s = NextRec(k) /\ Follows(recs, split, k, s) BY <1>1, NextFollows
  <2>3. s \notin recs
    <3> SUFFICES ASSUME s \in recs PROVE FALSE OBVIOUS
    <3>1. s > k /\ ~OnL(split, s) BY <2>2, <1>2, <1>3, Constants DEF Follows
    <3>2. s = k /\ k \in Nat BY <3>1, <1>1, <1>3, Constants
    <3> QED BY <3>1, <3>2
  <2>4. s = Sup BY <2>2, <2>3, <1>3 DEF Follows
  <2> QED BY <2>1, <2>2, <2>4, <1>1, <1>8
<1>10. ASSUME NEW u \in Trx, NEW j \in Key \ recs, NEW s \in Rec, Follows(recs, split, j, s), GapHeld(queue[s], u)
       PROVE  \E o \in Rec : Follows(recs \ {k}, None, j, o) /\ GapHeld(A[o], u)
  <2>1. CASE s \in {k, Sup, SupL}
    <3>1. Follows(recs \ {k}, None, j, Sup) BY <2>1, <1>8, <1>10
    <3>2. CASE s = SupL
      <4>1. GapHeld(A[Sup], u) BY <3>2, <1>5, <1>6, <1>10, GapsHeld
      <4> QED BY <3>1, <4>1, <1>2
    <3>3. CASE s # SupL
      <4>1. GapHeld(A[Sup], u) BY <2>1, <3>3, <1>5, <1>10, LeftHeld
      <4> QED BY <3>1, <4>1, <1>2
    <3> QED BY <3>2, <3>3
  <2>2. CASE s \notin {k, Sup, SupL}
    <3>1. Follows(recs \ {k}, None, j, s) BY <2>2, <1>8, <1>10
    <3>2. A[s] = queue[s] BY <2>2, <1>5 DEF Resource
    <3> QED BY <3>1, <3>2, <1>10
  <2> QED BY <2>1, <2>2
<1>11. SeenBy(A, recs \ {k}, None, wr, seen)
  <2>1. SeenBy(queue, recs, split, writer, seen) BY DEF ReadInv
  <2>2. PICK R2 : R2 = recs \ {k} OBVIOUS
  <2>3. \A u \in Trx : \A j \in seen[u] : j \in recs \ R2 =>
          \E o \in Rec : Follows(R2, None, j, o) /\ GapHeld(A[o], u)
    BY <1>2, <1>9, <2>2
  <2>4. \A j \in R2 : wr[j] = writer[j] /\ ToSet(queue[j]) \subseteq ToSet(A[j]) BY <1>7, <2>2
  <2>5. \A u \in Trx : \A j \in Key \ recs : \A s \in Rec : Follows(recs, split, j, s) /\ GapHeld(queue[s], u) =>
          \E o \in Rec : Follows(R2, None, j, o) /\ GapHeld(A[o], u)
    BY <1>10, <2>2
  <2>6. R2 \subseteq recs /\ \A u \in Trx : seen[u] \subseteq Key BY <1>1, <2>2
  <2>7. SeenBy(A, R2, None, wr, seen) BY <1>1, <2>1, <2>3, <2>4, <2>5, <2>6, SeenMoves
  <2> QED BY <2>2, <2>7
<1>12. GapsOnly(A)
  <2>1. \A q \in ToSet(queue[SupL]) : q.kind # "rec" BY DEF ReadInv, GapsOnly
  <2>2. \A q \in ToSet(A[Sup]) : q.kind # "rec" BY <2>1, <1>2, <1>5, <1>6, GapsHeld
  <2>3. ToSet(A[SupL]) = {} BY <1>5, EmptyFine
  <2> QED BY <2>2, <2>3 DEF GapsOnly
<1> QED BY <1>11, <1>12

(* btr_cur_optimistic_delete and btr_cur_pessimistic_delete *)
LEMMA DeleteRead ==
    ASSUME LockInv, ReadInv, NEW k \in recs, DeleteRecord(k), seen' = seen,
           \A u \in Trx : k \in seen[u] => RecHeld(queue[k], u)
    PROVE  ReadInv'
<1>1. RowsOK /\ queue \in AllQueues /\ recs \subseteq Key /\ writer \in [Key -> Trx \cup {None}]
      /\ pc \in [Trx -> Places]
  BY InvParts DEF RowsOK, TrxOK, Places
<1>2. PICK A : A = IF Alone(k) THEN lock_update_discard(queue, k) ELSE lock_update_delete(queue, k) OBVIOUS
<1>3. /\ Queues(A, pc) /\ recs' = recs \ {k} /\ writer' = [writer EXCEPT ![k] = None]
      /\ split' = IF Alone(k) THEN None ELSE split
  BY <1>2 DEF DeleteRecord
<1>4. queue' = A BY <1>3 DEF Queues
<1>5. \A j \in recs \ {k} : writer'[j] = writer[j] BY <1>1, <1>3
<1>6. PICK wr : wr = writer' OBVIOUS
<1>7. SeenBy(A, recs \ {k}, split', wr, seen) /\ GapsOnly(A)
  <2>1. CASE ~Alone(k)
    <3>1. split' = split /\ A = lock_update_delete(queue, k) BY <2>1, <1>2, <1>3
    <3>2. SeenBy(A, recs \ {k}, split, wr, seen) /\ GapsOnly(A) BY <2>1, <3>1, <1>5, <1>6, DeleteSeen
    <3> QED BY <3>1, <3>2
  <2>2. CASE Alone(k)
    <3>1. split' = None /\ A = lock_update_discard(queue, k) BY <2>2, <1>2, <1>3
    <3>2. PICK h \in recs \cup {Sup} : h # k /\ Discarded(A, k, h) BY <2>2, <3>1, <1>1, DiscardFacts
    <3>3. CASE OnLeft(k)
      <4>1. SeenBy(A, recs \ {k}, None, wr, seen) /\ GapsOnly(A)
        BY <2>2, <3>2, <3>3, <1>5, <1>6, DiscardSeenLeft
      <4> QED BY <3>1, <4>1
    <3>4. CASE ~OnLeft(k)
      <4>1. SeenBy(A, recs \ {k}, None, wr, seen) /\ GapsOnly(A)
        BY <2>2, <3>2, <3>4, <1>5, <1>6, DiscardSeenRight
      <4> QED BY <3>1, <4>1
    <3> QED BY <3>3, <3>4
  <2> QED BY <2>1, <2>2
<1>8. \A u \in Trx : pc'[u] \in Ended => seen'[u] = {}
  <2>1. \A u \in Trx : pc'[u] = pc[u] \/ (pc[u] = "wait" /\ pc'[u] = "run") BY <1>1, <1>3, QueuesType DEF Places
  <2> QED BY <2>1 DEF ReadInv, Ended
<1> QED BY <1>3, <1>4, <1>6, <1>7, <1>8 DEF ReadInv

(* row_purge_remove_clust_if_poss: a committed delete stays one *)
LEMMA PurgeRead ==
    ASSUME LockInv, ReadInv, NEW k \in Key, Purge(k)
    PROVE  ReadInv' /\ Steady
<1>1. RowsOK /\ marked \subseteq recs /\ writer \in [Key -> Trx \cup {None}] /\ seen \in [Trx -> SUBSET Key]
  BY InvParts DEF RowsOK, TrxOK
<1>2. k \in recs /\ k \in marked /\ writer[k] = None /\ DeleteRecord(k) /\ seen' = seen BY <1>1 DEF Purge
<1>3. ASSUME NEW u \in Trx, k \in seen[u] PROVE RecHeld(queue[k], u)
  BY <1>2, <1>3, Constants DEF ReadInv, SeenBy
<1>4. ReadInv' BY <1>2, <1>3, DeleteRead
<1>5. recs' = recs \ {k} /\ marked' = marked \ {k} /\ writer' = [writer EXCEPT ![k] = None]
  BY <1>2 DEF DeleteRecord
<1>6. ASSUME NEW u \in Trx, NEW j \in seen[u]
      PROVE  (j \in recs' \ marked') = (j \in recs \ marked) /\ writer'[j] \in {writer[j], None}
  <2>1. j \in Key BY <1>1
  <2>2. CASE j = k BY <2>1, <2>2, <1>1, <1>2, <1>5
  <2>3. CASE j # k BY <2>1, <2>3, <1>1, <1>5
  <2> QED BY <2>2, <2>3
<1> QED BY <1>4, <1>6 DEF Steady

(* nobody relies on a record that another transaction has changed *)
LEMMA NotSeen ==
    ASSUME LockInv, ReadInv, NEW t \in Trx, seen[t] = {}, NEW k \in recs, writer[k] = t, NEW u \in Trx
    PROVE  k \notin seen[u]
<1> SUFFICES ASSUME k \in seen[u] PROVE FALSE OBVIOUS
<1>1. u # t /\ t # None BY Constants
<1>2. RecHeld(queue[k], u) BY <1>1 DEF ReadInv, SeenBy
<1>3. PICK p \in ToSet(queue[k]) : p.trx = u /\ ~p.wait /\ p.kind \in {"ordinary", "rec"} BY <1>2 DEF RecHeld
<1>4. p.kind \in {"gap", "insert"} BY <1>1, <1>3, HoldersHold DEF HoldersCompatible
<1> QED BY <1>3, <1>4

(* row_undo_ins, row_undo_mod *)
LEMMA UndoChangeRead ==
    ASSUME LockInv, ReadInv, NEW t \in Trx, UndoChange(t)
    PROVE  ReadInv' /\ Steady
<1> DEFINE E == [rec : Key, new : BOOLEAN, mark : BOOLEAN]
<1>1. /\ RowsOK /\ recs \subseteq Key /\ writer \in [Key -> Trx \cup {None}] /\ undo \in [Trx -> Seq(E)]
      /\ seen \in [Trx -> SUBSET Key]
  BY InvParts DEF RowsOK, TrxOK
<1>2. pc[t] = "rollback" /\ undo[t] # << >> /\ seen' = seen BY DEF UndoChange
<1>3. seen[t] = {} BY <1>2 DEF ReadInv, Ended
<1>4. PICK n \in Nat : /\ DOMAIN undo[t] = 1 .. n + 1
                       /\ Last(undo[t]) = undo[t][n + 1] /\ undo[t][n + 1] \in E
  <2>1. undo[t] \in Seq(E) BY <1>1
  <2> HIDE DEF E
  <2> QED BY <2>1, <1>2, FrontFacts
<1>5. PICK e \in E : e = Last(undo[t]) /\ e = undo[t][n + 1] BY <1>4
<1>6. PICK rest : rest = Front(undo[t]) OBVIOUS
<1>7. IF e.new THEN DeleteRecord(e.rec)
      ELSE /\ marked' = IF e.mark THEN marked \cup {e.rec} ELSE marked \ {e.rec}
           /\ writer' = [writer EXCEPT ![e.rec] = IF \E v \in ToSet(rest) : v.rec = e.rec THEN t ELSE None]
           /\ UNCHANGED <<recs, split, queue, pc>>
  BY <1>5, <1>6, Zenon DEF UndoChange
<1>8. PICK k \in Key : k = e.rec BY <1>5
<1>9. writer[k] = t /\ k \in recs
  <2>1. n + 1 \in DOMAIN undo[t] BY <1>4
  <2>2. writer[k] = t BY <2>1, <1>1, <1>5, <1>8 DEF RowsOK
  <2> QED BY <2>2, <1>1, Constants DEF RowsOK
<1>10. \A u \in Trx : k \notin seen[u] BY <1>3, <1>9, NotSeen
<1>11. CASE e.new
  <2>1. DeleteRecord(k) BY <1>7, <1>8, <1>11
  <2>2. ReadInv' BY <2>1, <1>2, <1>9, <1>10, DeleteRead
  <2>3. recs' = recs \ {k} /\ marked' = marked \ {k} /\ writer' = [writer EXCEPT ![k] = None]
    BY <2>1 DEF DeleteRecord
  <2>4. ASSUME NEW u \in Trx, NEW j \in seen[u]
        PROVE  (j \in recs' \ marked') = (j \in recs \ marked) /\ writer'[j] \in {writer[j], None}
    <3>1. j \in Key /\ j # k BY <1>1, <1>10
    <3> QED BY <3>1, <2>3, <1>1
  <2> QED BY <2>2, <2>4 DEF Steady
<1>12. CASE ~e.new
  <2>1. /\ marked' = IF e.mark THEN marked \cup {k} ELSE marked \ {k}
        /\ \E v : writer' = [writer EXCEPT ![k] = v]
        /\ UNCHANGED <<recs, split, queue, pc>>
    BY <1>7, <1>8, <1>12
  <2>2. \A j \in Key \ {k} : writer'[j] = writer[j] BY <2>1, <1>1
  <2>3. \A u \in Trx : seen[u] # {} => \A j \in Key : writer[j] = u => writer'[j] = u BY <2>2, <1>3, <1>9
  <2>4. \A u \in Trx : \A r \in Rec : Retains(queue'[r], queue[r], u) BY <2>1, RetainsMore
  <2>5. GapsOnly(queue') BY <2>1 DEF ReadInv
  <2>6. ReadInv' BY <2>1, <2>3, <2>4, <2>5, <1>2, ReadKept
  <2>7. ASSUME NEW u \in Trx, NEW j \in seen[u]
        PROVE  (j \in recs' \ marked') = (j \in recs \ marked) /\ writer'[j] \in {writer[j], None}
    <3>1. j \in Key /\ j # k BY <1>1, <1>10
    <3> QED BY <3>1, <2>1, <2>2
  <2> QED BY <2>6, <2>7 DEF Steady
<1> QED BY <1>11, <1>12

(* lock_update_split_right *)
LEMMA SplitPageRead ==
    ASSUME LockInv, ReadInv, NEW k \in Key, SplitPage(k)
    PROVE  ReadInv' /\ Steady
<1>1. RowsOK /\ queue \in AllQueues /\ recs \subseteq Key /\ seen \in [Trx -> SUBSET Key]
  BY InvParts DEF RowsOK, TrxOK
<1>2. /\ split = None /\ k \in recs /\ split' = k
      /\ queue' = lock_rec_inherit_to_gap(queue, SupL, k)
      /\ UNCHANGED <<recs, marked, writer, pc, seen>>
  BY DEF SplitPage
<1>3. SupL \in Rec /\ k \in Resource /\ SupL \notin recs BY <1>1, Constants DEF Rec
<1>4. PICK A : A = queue' OBVIOUS
<1>5. /\ Inherits(A, queue, SupL)
      /\ \A q \in ToSet(queue[k]) : q.kind # "insert" => Left(q, A[SupL], SupL)
  <2>1. A = InheritIf(queue, SupL, k, ToSet(queue[k])) BY <1>2, <1>4 DEF lock_rec_inherit_to_gap
  <2> QED BY <2>1, <1>1, <1>3, InheritFacts
<1>6. ASSUME NEW r \in Resource
      PROVE  GapsJoin(A[r], queue[r], r) /\ queue[r] \in Seq(Request) /\ ToSet(queue[r]) \subseteq ToSet(A[r])
  BY <1>1, <1>3, <1>5, InheritsSets DEF AllQueues
<1>7. ASSUME NEW u \in Trx, NEW j \in Key \ recs, NEW s \in Rec, Follows(recs, split, j, s), GapHeld(queue[s], u)
      PROVE  \E o \in Rec : Follows(recs, k, j, o) /\ GapHeld(A[o], u)
  <2>1. Follows(recs, k, j, IF s = k THEN SupL ELSE s) BY <1>1, <1>2, <1>7, FollowsSplit
  <2>2. CASE s = k
    <3>1. GapHeld(A[SupL], u) BY <2>2, <1>5, <1>7, LeftHeld
    <3> QED BY <2>1, <2>2, <3>1, <1>3
  <2>3. CASE s # k
    <3>1. s \in Resource BY DEF Resource
    <3>2. GapHeld(A[s], u) BY <3>1, <1>6, <1>7, GapsHeld
    <3> QED BY <2>1, <2>3, <3>2
  <2> QED BY <2>2, <2>3
<1>8. \A j \in recs : writer[j] = writer[j] /\ ToSet(queue[j]) \subseteq ToSet(A[j]) BY <1>1, <1>6, Constants
<1>9. SeenBy(A, recs, k, writer, seen)
  <2>1. SeenBy(queue, recs, split, writer, seen) BY DEF ReadInv
  <2>2. \A u \in Trx : seen[u] \subseteq Key BY <1>1
  <2>3. \A u \in Trx : \A j \in seen[u] : j \in recs \ recs =>
          \E o \in Rec : Follows(recs, k, j, o) /\ GapHeld(A[o], u)
    OBVIOUS
  <2> QED BY <2>1, <2>2, <2>3, <1>1, <1>7, <1>8, SeenMoves
<1>10. GapsOnly(A)
  <2> SUFFICES ASSUME NEW o \in {Sup, SupL} PROVE \A q \in ToSet(A[o]) : q.kind # "rec" BY DEF GapsOnly
  <2>1. o \in Resource /\ IsSup(o) BY Constants
  <2>2. \A q \in ToSet(queue[o]) : q.kind # "rec" BY DEF ReadInv, GapsOnly
  <2> QED BY <2>1, <2>2, <1>6, GapsHeld
<1>11. ReadInv' BY <1>2, <1>4, <1>9, <1>10 DEF ReadInv
<1>12. Steady BY <1>2 DEF Steady
<1> QED BY <1>11, <1>12

(* lock_update_merge_left, lock_update_merge_right *)
LEMMA MergePagesRead ==
    ASSUME LockInv, ReadInv, MergePages
    PROVE  ReadInv' /\ Steady
<1>1. /\ RowsOK /\ queue \in AllQueues /\ recs \subseteq Key /\ split \in Key \cup {None}
      /\ seen \in [Trx -> SUBSET Key] /\ pc \in [Trx -> Places]
  BY InvParts DEF RowsOK, TrxOK, Places
<1>2. split # None /\ split' = None /\ UNCHANGED <<recs, marked, writer, seen>> BY DEF MergePages
<1>3. PICK T : T = {j \in recs : j >= split} OBVIOUS
<1>4. PICK k : k = CHOOSE j \in T : \A i \in T : j <= i OBVIOUS
<1>5. PICK A : A = lock_rec_reset_and_release_wait(lock_rec_inherit_to_gap(queue, k, SupL), SupL) OBVIOUS
<1>6. T # {} /\ Queues(A, pc) BY <1>3, <1>4, <1>5 DEF MergePages
<1>7. k \in T /\ \A i \in T : k <= i
  <2>1. T \subseteq Nat BY <1>1, <1>3, Constants
  <2> QED BY <2>1, <1>4, <1>6, FirstOf
<1>8. /\ k \in recs /\ k \in Rec /\ SupL \in Rec /\ SupL # k /\ SupL \notin recs /\ Sup # k /\ Sup # SupL
      /\ k >= split /\ (\A i \in recs : i >= split => k <= i) /\ Sup \in Resource
  BY <1>1, <1>3, <1>7, Constants DEF Rec
<1>9. Bequeaths(A, queue, SupL, k) BY <1>1, <1>5, <1>8, BequeathFacts
<1>10. /\ A[SupL] = << >>
       /\ \A r \in Resource \ {SupL} : GapsJoin(A[r], queue[r], r) /\ (r # k => A[r] = queue[r])
       /\ \A q \in ToSet(queue[SupL]) : q.kind # "insert" => Left(q, A[k], k)
  BY <1>9 DEF Bequeaths
<1>11. ASSUME NEW r \in Resource \ {SupL}
       PROVE  queue[r] \in Seq(Request) /\ ToSet(queue[r]) \subseteq ToSet(A[r])
  <2>1. queue[r] \in Seq(Request) BY <1>1 DEF AllQueues
  <2> QED BY <2>1, <1>10, GapsJoinSet
<1>12. ASSUME NEW u \in Trx, NEW j \in Key \ recs, NEW s \in Rec, Follows(recs, split, j, s), GapHeld(queue[s], u)
       PROVE  \E o \in Rec : Follows(recs, None, j, o) /\ GapHeld(A[o], u)
  <2>1. Follows(recs, None, j, IF s = SupL THEN k ELSE s) BY <1>1, <1>2, <1>8, <1>12, FollowsMerge
  <2>2. CASE s = SupL
    <3>1. GapHeld(A[k], u) BY <2>2, <1>10, <1>12, LeftHeld
    <3> QED BY <2>1, <2>2, <3>1, <1>8
  <2>3. CASE s # SupL
    <3>1. s \in Resource \ {SupL} BY <2>3 DEF Resource
    <3>2. GapHeld(A[s], u) BY <3>1, <1>10, <1>11, <1>12, GapsHeld
    <3> QED BY <2>1, <2>3, <3>2
  <2> QED BY <2>2, <2>3
<1>13. \A j \in recs : writer[j] = writer[j] /\ ToSet(queue[j]) \subseteq ToSet(A[j])
  BY <1>1, <1>8, <1>11, Constants
<1>14. SeenBy(A, recs, None, writer, seen)
  <2>1. SeenBy(queue, recs, split, writer, seen) BY DEF ReadInv
  <2>2. \A u \in Trx : seen[u] \subseteq Key BY <1>1
  <2>3. \A u \in Trx : \A j \in seen[u] : j \in recs \ recs =>
          \E o \in Rec : Follows(recs, None, j, o) /\ GapHeld(A[o], u)
    OBVIOUS
  <2> QED BY <2>1, <2>2, <2>3, <1>1, <1>12, <1>13, SeenMoves
<1>15. GapsOnly(A)
  <2>1. A[Sup] = queue[Sup] BY <1>8, <1>10
  <2>2. ToSet(A[SupL]) = {} BY <1>10, EmptyFine
  <2> QED BY <2>1, <2>2 DEF ReadInv, GapsOnly
<1>16. \A u \in Trx : pc'[u] \in Ended => seen'[u] = {}
  <2>1. \A u \in Trx : pc'[u] = pc[u] \/ (pc[u] = "wait" /\ pc'[u] = "run") BY <1>1, <1>6, QueuesType DEF Places
  <2> QED BY <2>1, <1>2 DEF ReadInv, Ended
<1>17. queue' = A BY <1>6 DEF Queues
<1>18. ReadInv' BY <1>2, <1>14, <1>15, <1>16, <1>17 DEF ReadInv
<1>19. Steady BY <1>2 DEF Steady
<1> QED BY <1>18, <1>19

-----------------------------------------------------------------------------
(* What was read stays *)

(* nothing has been read at the start *)
LEMMA InitRead == Init => ReadInv
<1> SUFFICES ASSUME Init PROVE ReadInv OBVIOUS
<1>1. \A t \in Trx : seen[t] = {} BY DEF Init
<1>2. queue[Sup] = << >> /\ queue[SupL] = << >> BY Constants, LockSysAssumption DEF Init, Rec
<1>3. ToSet(queue[Sup]) = {} /\ ToSet(queue[SupL]) = {} BY <1>2, EmptyFine
<1> QED BY <1>1, <1>3 DEF ReadInv, SeenBy, GapsOnly

(* every step leaves what was read locked, and as it was *)
LEMMA NextRead == LockInv /\ ReadInv /\ [Next]_vars => ReadInv' /\ Steady
<1> SUFFICES ASSUME LockInv, ReadInv, [Next]_vars PROVE ReadInv' /\ Steady OBVIOUS
<1>1. CASE UNCHANGED vars
  <2>1. ReadInv' BY <1>1 DEF vars, ReadInv
  <2>2. UNCHANGED rows BY <1>1 DEF vars, rows
  <2> QED BY <2>1, <2>2, SteadyRows
<1>2. CASE Next
  <2>1. ASSUME NEW t \in Trx, Continue(t) PROVE ReadInv' /\ Steady
    BY <2>1, SearchEndsRead, VictimIsStartRead, VictimIsOtherRead, UndoChangeRead, RollbackEndsRead, ReleaseRead,
       RollbackRead
    DEF Continue
  <2>2. ASSUME NEW t \in Trx, NEW m \in {TableMode[t], "AI"}, LockTable(t, m) PROVE ReadInv' /\ Steady
    <3>1. m \in Mode BY LockSysAssumption DEF Mode
    <3> QED BY <2>2, <3>1, LockTableRead
  <2>3. ASSUME NEW t \in Trx, NEW p \in Reads, ReadRecord(t, p[2], p[3], p[4]) PROVE ReadInv' /\ Steady
    <3>1. p[2] \in Rec /\ p[3] \in {"S", "X"} /\ p[4] \in {"ordinary", "gap", "rec"} BY LockSysAssumption
    <3> QED BY <2>3, <3>1, ReadRecordRead
  <2>4. ASSUME NEW t \in Trx, NEW k \in Key, InsertRecord(t, k) PROVE ReadInv' /\ Steady BY <2>4, InsertRecordRead
  <2>5. ASSUME NEW t \in Trx, NEW k \in Key, NEW b \in BOOLEAN, ModifyRecord(t, k, b) PROVE ReadInv' /\ Steady
    BY <2>5, ModifyRecordRead
  <2>6. ASSUME NEW t \in Trx, UnlockAutoInc(t) PROVE ReadInv' /\ Steady BY <2>6, UnlockAutoIncRead
  <2>7. ASSUME NEW t \in Trx, WaitTimesOut(t) PROVE ReadInv' /\ Steady BY <2>7, WaitTimesOutRead
  <2>8. ASSUME NEW t \in Trx, Commit(t) PROVE ReadInv' /\ Steady BY <2>8, CommitRead
  <2>9. ASSUME NEW t \in Trx, Rollback(t) PROVE ReadInv' /\ Steady BY <2>9, RollbackRead
  <2>10. ASSUME NEW k \in Key, Purge(k) PROVE ReadInv' /\ Steady BY <2>10, PurgeRead
  <2>11. ASSUME NEW k \in Key, SplitPage(k) PROVE ReadInv' /\ Steady BY <2>11, SplitPageRead
  <2>12. ASSUME MergePages PROVE ReadInv' /\ Steady BY <2>12, MergePagesRead
  <2> QED BY <1>2, <2>1, <2>2, <2>3, <2>4, <2>5, <2>6, <2>7, <2>8, <2>9, <2>10, <2>11, <2>12, Zenon DEF Next
<1> QED BY <1>1, <1>2

(* What a transaction has read under locks                                 *)
(* (lock_clust_rec_read_check_and_lock) is locked by it until it ends:     *)
(* lock_update_insert, lock_update_delete, lock_update_discard,            *)
(* lock_update_split_right and lock_update_merge_left or _right hand every *)
(* gap lock on to the record the gap then belongs to.                      *)
THEOREM LockSysReadsAreLocked == Spec => []ReadInv
<1>1. Init => ReadInv BY InitRead
<1>2. LockInv /\ ReadInv /\ [Next]_vars => ReadInv' BY NextRead
<1> QED BY <1>1, <1>2, LockSysInvariant, PTL DEF Spec

(* FACT B of lock0lock.c: no other transaction inserts, changes or takes   *)
(* back a record that a transaction has read under locks, or one in a gap  *)
(* it has read, before it ends. No phantoms, over purges, splits and       *)
(* merges.                                                                 *)
THEOREM LockSysRepeatableReads == Spec => RepeatableReads
<1>1. LockInv /\ ReadInv /\ [Next]_vars => [Steady]_vars BY NextRead
<1>2. Spec => [][Steady]_vars BY <1>1, LockSysInvariant, LockSysReadsAreLocked, PTL DEF Spec
<1> QED BY <1>2 DEF RepeatableReads, Steady

-----------------------------------------------------------------------------
(* The waits-for graph *)

(* WaitsFor, for other queues *)
WaitsIn(Q, t) ==
    {u \in Trx : \E r \in Resource : \E i \in DOMAIN Q[r] :
        /\ Q[r][i].trx = t /\ Q[r][i].wait
        /\ \E j \in 1 .. i - 1 :
             Q[r][j].trx = u /\ lock_has_to_wait(Q[r][i], Q[r][j], r)}

(* no circle, except through x: of every set of transactions without x     *)
(* some member waits for no other member                                   *)
Acyclic(Q, x) ==
    \A S \in SUBSET (Trx \ {x}) : S # {} => \E s \in S : WaitsIn(Q, s) \cap S = {}

(* a circle has closed only through a transaction that is being searched for it *)
GraphInv == Acyclic(queue, kernel)

(* whom u waits for in queue w of resource r, it waits for in queue s of o *)
Within(w, r, s, o, u) ==
    \A i \in DOMAIN w : w[i].wait /\ w[i].trx = u =>
        \A j \in 1 .. i - 1 : lock_has_to_wait(w[i], w[j], r) =>
            \E b \in DOMAIN s : \E a \in 1 .. b - 1 :
                /\ s[b].wait /\ s[b].trx = u /\ s[a].trx = w[j].trx
                /\ lock_has_to_wait(s[b], s[a], o)

(* when this holds of every queue, u waits for nobody new *)
LEMMA WaitsWithin ==
    ASSUME NEW Q, NEW Q2, NEW u, \A r \in Resource : \E o \in Resource : Within(Q2[r], r, Q[o], o, u)
    PROVE  WaitsIn(Q2, u) \subseteq WaitsIn(Q, u)
<1> SUFFICES ASSUME NEW v \in Trx, v \in WaitsIn(Q2, u) PROVE v \in WaitsIn(Q, u) BY DEF WaitsIn
<1>1. PICK r \in Resource : \E i \in DOMAIN Q2[r] :
        /\ Q2[r][i].trx = u /\ Q2[r][i].wait
        /\ \E j \in 1 .. i - 1 : Q2[r][j].trx = v /\ lock_has_to_wait(Q2[r][i], Q2[r][j], r)
  BY DEF WaitsIn
<1>2. PICK i \in DOMAIN Q2[r] :
        /\ Q2[r][i].trx = u /\ Q2[r][i].wait
        /\ \E j \in 1 .. i - 1 : Q2[r][j].trx = v /\ lock_has_to_wait(Q2[r][i], Q2[r][j], r)
  BY <1>1
<1>3. PICK j \in 1 .. i - 1 : Q2[r][j].trx = v /\ lock_has_to_wait(Q2[r][i], Q2[r][j], r) BY <1>2
<1>4. PICK o \in Resource : Within(Q2[r], r, Q[o], o, u) OBVIOUS
<1>5. PICK b \in DOMAIN Q[o] : \E a \in 1 .. b - 1 :
        /\ Q[o][b].wait /\ Q[o][b].trx = u /\ Q[o][a].trx = v /\ lock_has_to_wait(Q[o][b], Q[o][a], o)
  BY <1>2, <1>3, <1>4 DEF Within
<1> QED BY <1>5 DEF WaitsIn

(* the same queue *)
LEMMA WithinSame == ASSUME NEW s, NEW r, NEW u PROVE Within(s, r, s, r, u)
BY DEF Within

(* nobody waits in an empty queue *)
LEMMA WithinEmpty == ASSUME NEW s, NEW r, NEW o, NEW u PROVE Within(<< >>, r, s, o, u)
BY DEF Within

(* requests leave *)
LEMMA WithinPart ==
    ASSUME NEW s \in Seq(Request), NEW w, Part(w, s), NEW r, NEW u
    PROVE  Within(w, r, s, r, u)
<1> SUFFICES ASSUME NEW i \in DOMAIN w, w[i].wait, w[i].trx = u, NEW j \in 1 .. i - 1, lock_has_to_wait(w[i], w[j], r)
             PROVE  \E b \in DOMAIN s : \E a \in 1 .. b - 1 :
                      /\ s[b].wait /\ s[b].trx = u /\ s[a].trx = w[j].trx /\ lock_has_to_wait(s[b], s[a], r)
  BY DEF Within
<1>1. w \in Seq(Request) /\ DOMAIN w = 1 .. Len(w) /\ DOMAIN s = 1 .. Len(s) /\ Len(w) \in Nat /\ Len(s) \in Nat
  BY DEF Part
<1>2. j \in DOMAIN w /\ j < i BY <1>1
<1>3. PICK a \in DOMAIN s, b \in DOMAIN s : a < b /\ w[j] = s[a] /\ w[i] = s[b] BY <1>2 DEF Part
<1>4. a \in 1 .. b - 1 BY <1>1, <1>3
<1> QED BY <1>3, <1>4

(* requests are granted *)
LEMMA WithinGranted ==
    ASSUME NEW s \in Seq(Request), NEW g, MoreGranted(g, s), NEW r, NEW u
    PROVE  Within(g, r, s, r, u)
<1> SUFFICES ASSUME NEW i \in DOMAIN g, g[i].wait, g[i].trx = u, NEW j \in 1 .. i - 1, lock_has_to_wait(g[i], g[j], r)
             PROVE  \E b \in DOMAIN s : \E a \in 1 .. b - 1 :
                      /\ s[b].wait /\ s[b].trx = u /\ s[a].trx = g[j].trx /\ lock_has_to_wait(s[b], s[a], r)
  BY DEF Within
<1>1. DOMAIN g = DOMAIN s /\ DOMAIN s = 1 .. Len(s) /\ Len(s) \in Nat BY DEF MoreGranted
<1>2. j \in DOMAIN s /\ i \in DOMAIN s BY <1>1
<1>3. /\ g[i].trx = s[i].trx /\ g[i].mode = s[i].mode /\ g[i].kind = s[i].kind /\ s[i].wait
      /\ g[j].trx = s[j].trx /\ g[j].mode = s[j].mode /\ g[j].kind = s[j].kind
  BY <1>2 DEF MoreGranted
<1>4. lock_has_to_wait(s[i], s[j], r) BY <1>3, SameConflict
<1> QED BY <1>2, <1>3, <1>4

(* granted gap locks join at the end *)
LEMMA WithinGaps ==
    ASSUME NEW s \in Seq(Request), NEW w, NEW r, GapsJoin(w, s, r), NEW u
    PROVE  Within(w, r, s, r, u)
<1> SUFFICES ASSUME NEW i \in DOMAIN w, w[i].wait, w[i].trx = u, NEW j \in 1 .. i - 1, lock_has_to_wait(w[i], w[j], r)
             PROVE  \E b \in DOMAIN s : \E a \in 1 .. b - 1 :
                      /\ s[b].wait /\ s[b].trx = u /\ s[a].trx = w[j].trx /\ lock_has_to_wait(s[b], s[a], r)
  BY DEF Within
<1>1. /\ DOMAIN w = 1 .. Len(w) /\ DOMAIN s = 1 .. Len(s) /\ Len(w) \in Nat /\ Len(s) \in Nat
      /\ \A n \in 1 .. Len(s) : w[n] = s[n]
      /\ \A n \in Len(s) + 1 .. Len(w) : ~w[n].wait
  BY DEF GapsJoin
<1>2. i \in DOMAIN s /\ j \in DOMAIN s BY <1>1
<1>3. w[i] = s[i] /\ w[j] = s[j] BY <1>1, <1>2
<1> QED BY <1>2, <1>3

(* one more request, granted or not of u *)
LEMMA WithinAppend ==
    ASSUME NEW s \in Seq(Request), NEW q \in Request, NEW r, NEW u, ~q.wait \/ q.trx # u
    PROVE  Within(Append(s, q), r, s, r, u)
<1>1. PICK w : w = Append(s, q) OBVIOUS
<1>2. /\ DOMAIN w = 1 .. Len(s) + 1 /\ DOMAIN s = 1 .. Len(s) /\ Len(s) \in Nat
      /\ (\A n \in 1 .. Len(s) : w[n] = s[n]) /\ w[Len(s) + 1] = q
  BY <1>1, AppendIs
<1>3. ASSUME NEW i \in DOMAIN w, w[i].wait, w[i].trx = u, NEW j \in 1 .. i - 1, lock_has_to_wait(w[i], w[j], r)
      PROVE  \E b \in DOMAIN s : \E a \in 1 .. b - 1 :
               /\ s[b].wait /\ s[b].trx = u /\ s[a].trx = w[j].trx /\ lock_has_to_wait(s[b], s[a], r)
  <2>1. i # Len(s) + 1 BY <1>2, <1>3
  <2>2. i \in DOMAIN s /\ j \in 1 .. Len(s) BY <1>2, <2>1
  <2>3. w[i] = s[i] /\ w[j] = s[j] BY <1>2, <2>2
  <2> QED BY <1>3, <2>2, <2>3
<1>4. Within(w, r, s, r, u) BY <1>3 DEF Within
<1> QED BY <1>1, <1>4

(* the graph has not grown, and the search may have begun at x2 *)
LEMMA AcyclicKept ==
    ASSUME NEW Q, NEW x, Acyclic(Q, x), NEW Q2, NEW x2, x2 = x \/ x = None,
           \A u \in Trx \ {x2} : WaitsIn(Q2, u) \subseteq WaitsIn(Q, u)
    PROVE  Acyclic(Q2, x2)
<1> SUFFICES ASSUME NEW S \in SUBSET (Trx \ {x2}), S # {} PROVE \E s \in S : WaitsIn(Q2, s) \cap S = {}
  BY DEF Acyclic
<1>1. S \in SUBSET (Trx \ {x}) BY Constants
<1>2. PICK s \in S : WaitsIn(Q, s) \cap S = {} BY <1>1 DEF Acyclic
<1>3. WaitsIn(Q2, s) \subseteq WaitsIn(Q, s) OBVIOUS
<1> QED BY <1>2, <1>3

(* nobody waits for more than before *)
Slower(Q2, Q) == \A u \in Trx : WaitsIn(Q2, u) \subseteq WaitsIn(Q, u)

(* no circle closes when nobody waits for more than before *)
LEMMA GraphKept ==
    ASSUME GraphInv, kernel' = kernel, Slower(queue', queue)
    PROVE  GraphInv'
BY AcyclicKept DEF GraphInv, Slower

(* over two changes *)
LEMMA SlowerBoth ==
    ASSUME NEW Q3, NEW Q2, NEW Q, Slower(Q3, Q2), Slower(Q2, Q)
    PROVE  Slower(Q3, Q)
BY DEF Slower

(* a request joins: nobody else waits for more than before, nor its        *)
(* transaction, when it is granted                                         *)
LEMMA JoinSlower ==
    ASSUME NEW Q \in AllQueues, NEW r \in Resource, NEW p \in Request, NEW A, JoinsAt(A, Q, r, p),
           NEW u, ~p.wait \/ p.trx # u
    PROVE  WaitsIn(A, u) \subseteq WaitsIn(Q, u)
<1>1. ASSUME NEW o \in Resource PROVE Within(A[o], o, Q[o], o, u)
  <2>1. CASE o = r
    <3>1. Q[r] \in Seq(Request) /\ A[r] = Append(Q[r], p) BY DEF AllQueues, JoinsAt
    <3> QED BY <2>1, <3>1, WithinAppend
  <2>2. CASE o # r
    <3>1. A[o] = Q[o] BY <2>2 DEF JoinsAt
    <3> QED BY <3>1, WithinSame
  <2> QED BY <2>1, <2>2
<1> QED BY <1>1, WaitsWithin

(* lock_rec_add_to_queue of a granted lock *)
LEMMA AddSlower ==
    ASSUME NEW Q \in AllQueues, NEW r \in Resource, NEW q \in Request, ~q.wait
    PROVE  Slower(lock_rec_add_to_queue(Q, r, q), Q)
<1>1. PICK A : A = lock_rec_add_to_queue(Q, r, q) OBVIOUS
<1>2. PICK p : p = OnRec(q, r) OBVIOUS
<1>3. p \in Request /\ ~p.wait BY <1>2, OnRecFacts
<1>4. (\A o \in Resource \ {r} : A[o] = Q[o]) /\ (A = Q \/ A[r] = Append(Q[r], p)) BY <1>1, <1>2, AddFacts
<1>5. ASSUME NEW u \in Trx, NEW o \in Resource PROVE Within(A[o], o, Q[o], o, u)
  <2>1. CASE A[o] = Q[o] BY <2>1, WithinSame
  <2>2. CASE A[o] # Q[o]
    <3>1. o = r /\ A[r] = Append(Q[r], p) BY <2>2, <1>4
    <3>2. Q[r] \in Seq(Request) BY DEF AllQueues
    <3> QED BY <3>1, <3>2, <1>3, WithinAppend
  <2> QED BY <2>1, <2>2
<1>6. \A u \in Trx : WaitsIn(A, u) \subseteq WaitsIn(Q, u) BY <1>5, WaitsWithin
<1> QED BY <1>1, <1>6 DEF Slower

(* the same queues *)
LEMMA SlowerSame == ASSUME NEW Q PROVE Slower(Q, Q)
BY DEF Slower

(* lock_rec_convert_impl_to_expl: the explicit lock goes behind those who  *)
(* might wait                                                              *)
LEMMA ConvertSlower ==
    ASSUME LockInv, NEW r \in Rec, Present(r)
    PROVE  Slower(lock_rec_convert_impl_to_expl(queue, r), queue)
<1>1. queue \in AllQueues /\ r \in Resource /\ writer \in [Key -> Trx \cup {None}]
  BY InvParts DEF RowsOK, Resource
<1>2. CASE lock_rec_convert_impl_to_expl(queue, r) = queue BY <1>2, SlowerSame
<1>3. CASE lock_rec_convert_impl_to_expl(queue, r) # queue
  <2>1. /\ ~IsSup(r) /\ writer[r] # None
        /\ lock_rec_convert_impl_to_expl(queue, r) = lock_rec_add_to_queue(queue, r, NewLock(writer[r], "X", "rec"))
    BY <1>3 DEF lock_rec_convert_impl_to_expl
  <2>2. r \in Key BY <2>1 DEF Rec, IsSup
  <2>3. writer[r] \in Trx /\ "X" \in Mode /\ "rec" \in Kind BY <2>1, <2>2, <1>1 DEF Mode, Kind
  <2>4. PICK q \in Request : q = NewLock(writer[r], "X", "rec") /\ ~q.wait BY <2>3, NewLockFacts
  <2> QED BY <2>1, <2>4, <1>1, AddSlower
<1> QED BY <1>2, <1>3

(* a request begins to wait, and the search for a circle begins *)
LEMMA EnqueueGraph ==
    ASSUME GraphInv, kernel = None, NEW t \in Trx, NEW Q \in AllQueues, Slower(Q, queue), NEW r \in Resource,
           NEW q \in Request, q.trx = t, EnqueueWaiting(Q, t, r, q)
    PROVE  GraphInv'
<1>1. PICK z : z = [q EXCEPT !.wait = TRUE] OBVIOUS
<1>2. z \in Request /\ z.trx = t BY <1>1 DEF Request
<1>3. PICK p : p = OnRec(z, r) OBVIOUS
<1>4. p \in Request /\ p.trx = t BY <1>2, <1>3, OnRecFacts
<1>5. queue' = [Q EXCEPT ![r] = Append(@, p)] /\ kernel' = t BY <1>1, <1>3 DEF EnqueueWaiting
<1>6. JoinsAt(queue', Q, r, p) BY <1>4, <1>5, JoinsAtFacts
<1>7. ASSUME NEW u \in Trx \ {t} PROVE WaitsIn(queue', u) \subseteq WaitsIn(queue, u)
  <2>1. WaitsIn(queue', u) \subseteq WaitsIn(Q, u) BY <1>4, <1>6, JoinSlower
  <2> QED BY <2>1 DEF Slower
<1>8. Acyclic(queue', t) BY <1>7, AcyclicKept DEF GraphInv
<1> QED BY <1>5, <1>8 DEF GraphInv

(* requests leave, others are granted *)
LEMMA LeavesSlower ==
    ASSUME LockInv, NEW Q, Leaves(Q)
    PROVE  Slower(Q, queue) /\ Slower(Grants(Q), queue)
<1>1. queue \in AllQueues /\ Q \in AllQueues /\ \A r \in Resource : Part(Q[r], queue[r]) BY InvParts DEF Leaves
<1>2. Slower(Q, queue)
  <2>1. ASSUME NEW u \in Trx, NEW r \in Resource PROVE Within(Q[r], r, queue[r], r, u)
    BY <1>1, WithinPart DEF AllQueues
  <2> QED BY <2>1, WaitsWithin DEF Slower
<1>3. Slower(Grants(Q), Q)
  <2>1. PICK G : G = Grants(Q) OBVIOUS
  <2>2. ASSUME NEW u \in Trx, NEW r \in Resource PROVE Within(G[r], r, Q[r], r, u)
    <3>1. Q[r] \in Seq(Request) /\ MoreGranted(G[r], Q[r]) BY <1>1, <2>1, GrantsFacts DEF AllQueues
    <3> QED BY <3>1, WithinGranted
  <2>3. \A u \in Trx : WaitsIn(G, u) \subseteq WaitsIn(Q, u) BY <2>2, WaitsWithin
  <2> QED BY <2>1, <2>3 DEF Slower
<1> QED BY <1>2, <1>3, SlowerBoth

(* nor does a circle close by a release *)
LEMMA DequeueGraph ==
    ASSUME LockInv, GraphInv, NEW Q, NEW p, Leaves(Q), Queues(Grants(Q), p), kernel' = kernel
    PROVE  GraphInv'
<1>1. queue' = Grants(Q) BY DEF Queues
<1> QED BY <1>1, LeavesSlower, GraphKept

(* queues get granted gap locks *)
LEMMA GapsSlower ==
    ASSUME NEW Q \in AllQueues, NEW A,
           \A r \in Resource : A[r] = << >> \/ GapsJoin(A[r], Q[r], r)
    PROVE  Slower(A, Q)
<1>1. ASSUME NEW u \in Trx, NEW r \in Resource PROVE Within(A[r], r, Q[r], r, u)
  <2>1. Q[r] \in Seq(Request) BY DEF AllQueues
  <2> QED BY <2>1, WithinGaps, WithinEmpty
<1> QED BY <1>1, WaitsWithin DEF Slower

-----------------------------------------------------------------------------
(* The deadlock search finds every circle through the one it began with *)

(* the equation of the recursion in Reached *)
ReachAt(g, t, n) ==
    IF n = 0 THEN WaitsFor(t)
    ELSE g[n - 1] \cup UNION {WaitsFor(u) : u \in {v \in g[n - 1] : pc[v] = "wait"}}

(* g solves it, and Reached takes its last value *)
ReachBy(g, t) ==
    /\ g = [n \in 0 .. Cardinality(Trx) |-> ReachAt(g, t, n)]
    /\ Reached(t) = g[Cardinality(Trx)]

(* the recursion in Reached has a solution *)
LEMMA ReachIs ==
    ASSUME NEW t
    PROVE  \E g : ReachBy(g, t)
<1>0. PICK N \in Nat : N = Cardinality(Trx) BY LockSysAssumption, FS_CardinalityType
<1> DEFINE Upto(n) == \E g : g = [i \in 0 .. n |-> ReachAt(g, t, i)]
           T == {n \in Nat : Upto(n)}
<1>1. 0 \in T
  <2> DEFINE g == [i \in 0 .. 0 |-> WaitsFor(t)]
  <2>1. g = [i \in 0 .. 0 |-> ReachAt(g, t, i)] BY DEF ReachAt
  <2> QED BY <2>1
<1>2. ASSUME NEW n \in Nat, n \in T PROVE n + 1 \in T
  <2>1. PICK g : g = [i \in 0 .. n |-> ReachAt(g, t, i)] BY <1>2
  <2> DEFINE h == [i \in 0 .. n + 1 |-> IF i <= n THEN g[i] ELSE ReachAt(g, t, n + 1)]
  <2>2. \A i \in 0 .. n + 1 : h[i] = ReachAt(h, t, i)
    <3> SUFFICES ASSUME NEW i \in 0 .. n + 1 PROVE h[i] = ReachAt(h, t, i) OBVIOUS
    <3>1. i # 0 => h[i - 1] = g[i - 1] OBVIOUS
    <3>2. CASE i <= n
      <4>1. g[i] = ReachAt(g, t, i) BY <2>1, <3>2
      <4> QED BY <3>1, <3>2, <4>1 DEF ReachAt
    <3>3. CASE i = n + 1
      <4>1. h[i] = ReachAt(g, t, i) BY <3>3
      <4>2. PICK X : X = g[n] OBVIOUS
      <4>3. i # 0 /\ i - 1 = n /\ h[n] = X BY <3>3, <4>2
      <4> HIDE DEF h
      <4>4. ReachAt(g, t, i) = X \cup UNION {WaitsFor(u) : u \in {v \in X : pc[v] = "wait"}} BY <4>2, <4>3 DEF ReachAt
      <4>5. ReachAt(h, t, i) = X \cup UNION {WaitsFor(u) : u \in {v \in X : pc[v] = "wait"}} BY <4>3 DEF ReachAt
      <4> QED BY <4>1, <4>4, <4>5
    <3> QED BY <3>2, <3>3
  <2>3. h = [i \in 0 .. n + 1 |-> ReachAt(h, t, i)] BY <2>2
  <2> HIDE DEF h
  <2>4. Upto(n + 1) BY <2>3, Zenon
  <2> QED BY <2>4
<1>3. Nat \subseteq T
  <2> HIDE DEF T
  <2> QED BY <1>1, <1>2, NatSetInduction
<1>4. \E g : g = [i \in 0 .. N |-> ReachAt(g, t, i)] BY <1>3
<1>5. PICK g : g = CHOOSE f : f = [i \in 0 .. N |-> ReachAt(f, t, i)] OBVIOUS
<1>6. g = [i \in 0 .. N |-> ReachAt(g, t, i)] BY <1>4, <1>5
<1>7. Reached(t) = g[N] BY <1>0, <1>5 DEF Reached, ReachAt
<1> QED BY <1>0, <1>6, <1>7 DEF ReachBy

(* how the search goes on, step by step *)
LEMMA ReachSteps ==
    ASSUME NEW t, NEW g, ReachBy(g, t)
    PROVE  /\ Cardinality(Trx) \in Nat /\ g[0] = WaitsFor(t) /\ Reached(t) = g[Cardinality(Trx)]
           /\ \A n \in Nat : n + 1 <= Cardinality(Trx) =>
                g[n + 1] = g[n] \cup UNION {WaitsFor(u) : u \in {v \in g[n] : pc[v] = "wait"}}
<1>1. PICK N \in Nat : N = Cardinality(Trx) BY LockSysAssumption, FS_CardinalityType
<1>2. g = [n \in 0 .. N |-> ReachAt(g, t, n)] /\ Reached(t) = g[N] BY <1>1 DEF ReachBy
<1>3. g[0] = WaitsFor(t) BY <1>2 DEF ReachAt
<1>4. ASSUME NEW n \in Nat, n + 1 <= N
      PROVE  g[n + 1] = g[n] \cup UNION {WaitsFor(u) : u \in {v \in g[n] : pc[v] = "wait"}}
  <2>1. n + 1 \in 0 .. N /\ n + 1 # 0 /\ (n + 1) - 1 = n BY <1>4
  <2>2. g[n + 1] = ReachAt(g, t, n + 1) BY <1>2, <2>1
  <2> QED BY <2>1, <2>2 DEF ReachAt
<1> QED BY <1>1, <1>2, <1>3, <1>4

(* X contains whom its waiting members wait for *)
Closed(X) == \A s \in X : pc[s] = "wait" => WaitsFor(s) \subseteq X

(* as many rounds as there are transactions are enough *)
LEMMA ReachedClosed ==
    ASSUME NEW t
    PROVE  Closed(Reached(t)) /\ WaitsFor(t) \subseteq Reached(t) /\ Reached(t) \subseteq Trx
<1>1. PICK g : ReachBy(g, t) BY ReachIs
<1>2. PICK N \in Nat : N = Cardinality(Trx) BY LockSysAssumption, FS_CardinalityType
<1>3. /\ g[0] = WaitsFor(t) /\ Reached(t) = g[N]
      /\ \A n \in Nat : n + 1 <= N =>
           g[n + 1] = g[n] \cup UNION {WaitsFor(u) : u \in {v \in g[n] : pc[v] = "wait"}}
  BY <1>1, <1>2, ReachSteps
<1>4. \A u : WaitsFor(u) \subseteq Trx BY DEF WaitsFor
<1> DEFINE Good(n) == /\ WaitsFor(t) \subseteq g[n] /\ g[n] \subseteq Trx
                      /\ Closed(g[n]) \/ Cardinality(g[n]) >= n
           T == {n \in Nat : n <= N => Good(n)}
<1>5. 0 \in T
  <2>1. g[0] \in SUBSET Trx BY <1>3, <1>4
  <2>2. IsFiniteSet(g[0]) BY <2>1, LockSysAssumption, FS_Subset
  <2>3. Cardinality(g[0]) \in Nat BY <2>2, FS_CardinalityType
  <2>4. Good(0) BY <2>1, <2>3, <1>3
  <2> QED BY <2>4
<1>6. ASSUME NEW n \in Nat, n \in T PROVE n + 1 \in T
  <2> SUFFICES ASSUME n + 1 <= N PROVE Good(n + 1) OBVIOUS
  <2>1. WaitsFor(t) \subseteq g[n] /\ g[n] \subseteq Trx /\ (Closed(g[n]) \/ Cardinality(g[n]) >= n) BY <1>6
  <2>2. PICK X, Y : X = g[n] /\ Y = g[n + 1] OBVIOUS
  <2>3. Y = X \cup UNION {WaitsFor(u) : u \in {v \in X : pc[v] = "wait"}} BY <2>2, <1>3
  <2>4. X \subseteq Y /\ Y \subseteq Trx /\ WaitsFor(t) \subseteq Y BY <2>1, <2>2, <2>3, <1>4
  <2>5. Closed(Y) \/ Cardinality(Y) >= n + 1
    <3>1. CASE Closed(X)
      <4>1. Y = X BY <2>3, <3>1 DEF Closed
      <4> QED BY <3>1, <4>1
    <3>2. CASE ~Closed(X)
      <4>1. X # Y BY <2>3, <3>2 DEF Closed
      <4>2. IsFiniteSet(Y) BY <2>4, LockSysAssumption, FS_Subset
      <4>3. X \in SUBSET Y BY <2>4
      <4>4. IsFiniteSet(X) /\ Cardinality(X) <= Cardinality(Y) /\ Cardinality(Y) # Cardinality(X)
        BY <4>1, <4>2, <4>3, FS_Subset
      <4>5. Cardinality(X) \in Nat /\ Cardinality(Y) \in Nat BY <4>2, <4>4, FS_CardinalityType
      <4>6. Cardinality(X) >= n BY <2>1, <2>2, <3>2
      <4> QED BY <4>4, <4>5, <4>6
    <3> QED BY <3>1, <3>2
  <2> QED BY <2>2, <2>4, <2>5
<1>7. Nat \subseteq T
  <2> HIDE DEF T
  <2> QED BY <1>5, <1>6, NatSetInduction
<1>8. Good(N)
  <2> HIDE DEF Good
  <2>1. N \in T /\ N <= N BY <1>7
  <2> QED BY <2>1
<1>9. PICK X : X = g[N] OBVIOUS
<1>10. WaitsFor(t) \subseteq X /\ X \subseteq Trx /\ (Closed(X) \/ Cardinality(X) >= N) BY <1>8, <1>9
<1>11. Closed(X)
  <2>1. CASE Cardinality(X) >= N
    <3>1. X \in SUBSET Trx /\ IsFiniteSet(Trx) BY <1>10, LockSysAssumption
    <3>2. IsFiniteSet(X) /\ Cardinality(X) <= N /\ (N = Cardinality(X) => Trx = X) BY <3>1, <1>2, FS_Subset
    <3>3. Cardinality(X) \in Nat BY <3>2, FS_CardinalityType
    <3>4. X = Trx BY <2>1, <3>2, <3>3
    <3> QED BY <3>4, <1>4 DEF Closed
  <2> QED BY <2>1, <1>10
<1> QED BY <1>3, <1>9, <1>10, <1>11

(* a transaction that reaches itself is on a circle *)
LEMMA ReachedCircle ==
    ASSUME NEW t \in Trx, t \in Reached(t)
    PROVE  \E S \in SUBSET Trx : S # {} /\ \A s \in S : WaitsFor(s) \cap S # {}
<1>1. PICK g : ReachBy(g, t) BY ReachIs
<1>2. PICK N \in Nat : N = Cardinality(Trx) BY LockSysAssumption, FS_CardinalityType
<1>3. /\ g[0] = WaitsFor(t) /\ Reached(t) = g[N]
      /\ \A n \in Nat : n + 1 <= N =>
           g[n + 1] = g[n] \cup UNION {WaitsFor(u) : u \in {v \in g[n] : pc[v] = "wait"}}
  BY <1>1, <1>2, ReachSteps
<1> DEFINE Back(X) == t \in X /\ \A w \in Trx : WaitsFor(w) \cap X # {} => w \in X
           B == {s \in Trx : \A X \in SUBSET Trx : Back(X) => s \in X}
<1>4. Back(B) BY DEF WaitsFor
<1>5. ASSUME NEW s \in B, s # t PROVE WaitsFor(s) \cap B # {}
  <2> SUFFICES ASSUME WaitsFor(s) \cap B = {} PROVE FALSE OBVIOUS
  <2> DEFINE Z == B \ {s}
  <2>1. t \in Z BY <1>4, <1>5
  <2>2. ASSUME NEW w \in Trx, WaitsFor(w) \cap Z # {} PROVE w \in Z
    <3>1. WaitsFor(w) \cap B # {} BY <2>2
    <3>2. w \in B /\ w # s BY <3>1, <1>4
    <3> QED BY <3>2
  <2>3. Z \in SUBSET Trx /\ Back(Z) BY <2>1, <2>2
  <2>4. s \in Z BY <2>3
  <2> QED BY <2>4
<1>6. WaitsFor(t) \cap B # {}
  <2> DEFINE Meets(n) == g[n] \cap B # {} => WaitsFor(t) \cap B # {}
             T == {n \in Nat : n <= N => Meets(n) /\ g[n] \subseteq Trx}
  <2>0. \A u : WaitsFor(u) \subseteq Trx BY DEF WaitsFor
  <2>1. 0 \in T BY <1>3, <2>0
  <2>2. ASSUME NEW n \in Nat, n \in T PROVE n + 1 \in T
    <3> SUFFICES ASSUME n + 1 <= N PROVE Meets(n + 1) /\ g[n + 1] \subseteq Trx OBVIOUS
    <3>1. Meets(n) /\ g[n] \subseteq Trx BY <2>2
    <3>2. g[n + 1] = g[n] \cup UNION {WaitsFor(u) : u \in {v \in g[n] : pc[v] = "wait"}} BY <1>3
    <3>3. g[n + 1] \subseteq Trx BY <3>1, <3>2, <2>0
    <3>4. ASSUME NEW x \in g[n + 1] \cap B PROVE g[n] \cap B # {}
      <4>1. CASE x \in g[n] BY <4>1
      <4>2. CASE x \notin g[n]
        <5>1. PICK u \in g[n] : x \in WaitsFor(u) BY <4>2, <3>2
        <5>2. u \in B BY <5>1, <3>1, <1>4
        <5> QED BY <5>1, <5>2
      <4> QED BY <4>1, <4>2
    <3> QED BY <3>1, <3>3, <3>4
  <2>3. Nat \subseteq T
    <3> HIDE DEF T
    <3> QED BY <2>1, <2>2, NatSetInduction
  <2>4. Meets(N)
    <3> HIDE DEF Meets
    <3>1. N \in T /\ N <= N BY <2>3
    <3> QED BY <3>1
  <2>5. t \in g[N] \cap B BY <1>3, <1>4
  <2> QED BY <2>4, <2>5
<1>7. B \in SUBSET Trx /\ B # {} BY <1>4
<1>8. \A s \in B : WaitsFor(s) \cap B # {} BY <1>5, <1>6
<1> HIDE DEF B
<1> QED BY <1>7, <1>8

(* WaitsFor is WaitsIn of the present queues *)
LEMMA WaitsAre == ASSUME NEW u PROVE WaitsFor(u) = WaitsIn(queue, u)
BY DEF WaitsFor, WaitsIn

(* no circle is left behind when nobody searches *)
LEMMA NoCircle == GraphInv => NoUnseenDeadlock
<1> SUFFICES ASSUME GraphInv, kernel = None, NEW t \in Trx, t \in Reached(t) PROVE FALSE
  BY DEF NoUnseenDeadlock
<1>1. PICK S \in SUBSET Trx : S # {} /\ \A s \in S : WaitsFor(s) \cap S # {} BY ReachedCircle
<1>2. S \in SUBSET (Trx \ {kernel}) BY Constants
<1>3. PICK s \in S : WaitsIn(queue, s) \cap S = {} BY <1>1, <1>2 DEF GraphInv, Acyclic
<1> QED BY <1>1, <1>3, WaitsAre

-----------------------------------------------------------------------------
(* Every step keeps the waits-for graph without circles *)

(* whoever has no waiting request waits for nobody *)
LEMMA NotWaiting ==
    ASSUME NEW Q, NEW t, ~IsWaiting(Q, t)
    PROVE  WaitsIn(Q, t) = {}
<1>1. \A r \in Resource : \A i \in DOMAIN Q[r] : Q[r][i] \in ToSet(Q[r]) BY DEF ToSet
<1> QED BY <1>1 DEF WaitsIn, IsWaiting

(* the queues stay as they are, outside a search *)
LEMMA GraphSame ==
    ASSUME GraphInv, UNCHANGED <<queue, kernel>>
    PROVE  GraphInv'
BY SlowerSame, GraphKept

(* lock_table *)
LEMMA LockTableGraph ==
    ASSUME LockInv, GraphInv, NEW t \in Trx, NEW mode \in Mode, LockTable(t, mode)
    PROVE  GraphInv'
<1>1. queue \in AllQueues /\ Tab \in Resource BY InvParts, Constants
<1>2. PICK q \in Request : q = NewLock(t, mode, "table") /\ q.trx = t /\ ~q.wait
  <2>1. "table" \in Kind BY DEF Kind
  <2> QED BY <2>1, NewLockFacts
<1>3. kernel = None BY DEF LockTable, Running
<1>4. CASE TableFree(t, mode)
  <2>1. queue' = [queue EXCEPT ![Tab] = Append(@, q)] /\ kernel' = kernel BY <1>2, <1>4 DEF LockTable
  <2>2. JoinsAt(queue', queue, Tab, q) BY <1>1, <2>1, JoinsAtFacts
  <2>3. \A u \in Trx : WaitsIn(queue', u) \subseteq WaitsIn(queue, u) BY <1>1, <1>2, <2>2, JoinSlower
  <2> QED BY <2>1, <2>3, GraphKept DEF Slower
<1>5. CASE ~TableFree(t, mode)
  <2>1. EnqueueWaiting(queue, t, Tab, q) BY <1>2, <1>5 DEF LockTable
  <2> QED BY <2>1, <1>1, <1>2, <1>3, SlowerSame, EnqueueGraph
<1> QED BY <1>4, <1>5

(* lock_clust_rec_read_check_and_lock *)
LEMMA ReadRecordGraph ==
    ASSUME LockInv, GraphInv, NEW t \in Trx, NEW r \in Rec, NEW mode \in {"S", "X"},
           NEW kind \in {"ordinary", "gap", "rec"}, ReadRecord(t, r, mode, kind)
    PROVE  GraphInv'
<1>1. Present(r) /\ r \in Resource BY DEF ReadRecord, Present, Resource
<1>2. kernel = None BY DEF ReadRecord, MayStart, Running
<1>3. PICK C : C = lock_rec_convert_impl_to_expl(queue, r) OBVIOUS
<1>4. C \in AllQueues /\ Slower(C, queue)
  <2>1. Adds(C, queue, r) BY <1>1, <1>3, ConvertFacts
  <2> QED BY <2>1, <1>1, <1>3, ConvertSlower, SoundParts DEF Adds
<1>5. PICK q \in Request : q = NewLock(t, mode, kind) /\ q.trx = t /\ ~q.wait
  <2>1. mode \in Mode /\ kind \in Kind BY DEF Mode, Kind
  <2> QED BY <2>1, NewLockFacts
<1>6. PICK has : has = lock_rec_has_expl(C, t, r, mode, kind) OBVIOUS
<1>7. IF ~has /\ Conflicting(C, q, r)
        THEN EnqueueWaiting(C, t, r, q)
        ELSE /\ queue' = IF has THEN C ELSE lock_rec_add_to_queue(C, r, q)
             /\ kernel' = kernel
  BY <1>3, <1>5, <1>6, Zenon DEF ReadRecord
<1>8. CASE ~has /\ Conflicting(C, q, r)
  <2>1. EnqueueWaiting(C, t, r, q) BY <1>7, <1>8
  <2> QED BY <2>1, <1>1, <1>2, <1>4, <1>5, EnqueueGraph
<1>9. CASE ~(~has /\ Conflicting(C, q, r))
  <2>1. kernel' = kernel /\ (queue' = C \/ queue' = lock_rec_add_to_queue(C, r, q)) BY <1>7, <1>9
  <2>2. Slower(lock_rec_add_to_queue(C, r, q), C) BY <1>1, <1>4, <1>5, AddSlower
  <2>3. Slower(queue', queue) BY <2>1, <2>2, <1>4, SlowerBoth
  <2> QED BY <2>1, <2>3, GraphKept
<1> QED BY <1>8, <1>9

(* lock_clust_rec_modify_check_and_lock *)
LEMMA ModifyRecordGraph ==
    ASSUME LockInv, GraphInv, NEW t \in Trx, NEW k \in Key, NEW mark \in BOOLEAN, ModifyRecord(t, k, mark)
    PROVE  GraphInv'
<1>1. k \in Rec /\ k \in Resource /\ Present(k) BY Constants DEF ModifyRecord, Present, Rec
<1>2. kernel = None BY DEF ModifyRecord, MayStart, Running
<1>3. PICK C : C = lock_rec_convert_impl_to_expl(queue, k) OBVIOUS
<1>4. C \in AllQueues /\ Slower(C, queue)
  <2>1. Adds(C, queue, k) BY <1>1, <1>3, ConvertFacts
  <2> QED BY <2>1, <1>1, <1>3, ConvertSlower, SoundParts DEF Adds
<1>5. PICK q \in Request : q = NewLock(t, "X", "rec") /\ q.trx = t /\ ~q.wait
  <2>1. "X" \in Mode /\ "rec" \in Kind BY DEF Mode, Kind
  <2> QED BY <2>1, NewLockFacts
<1>6. IF ~lock_rec_has_expl(C, t, k, "X", "rec") /\ Conflicting(C, q, k)
        THEN EnqueueWaiting(C, t, k, q) ELSE queue' = C /\ kernel' = kernel
  BY <1>3, <1>5, Zenon DEF ModifyRecord
<1>7. CASE EnqueueWaiting(C, t, k, q) BY <1>1, <1>2, <1>4, <1>5, <1>7, EnqueueGraph
<1>8. CASE queue' = C /\ kernel' = kernel BY <1>4, <1>8, GraphKept
<1> QED BY <1>6, <1>7, <1>8

(* lock_rec_insert_check_and_lock, lock_update_insert *)
LEMMA InsertRecordGraph ==
    ASSUME LockInv, GraphInv, NEW t \in Trx, NEW k \in Key, InsertRecord(t, k)
    PROVE  GraphInv'
<1>1. RowsOK /\ queue \in AllQueues BY InvParts
<1>2. kernel = None BY DEF InsertRecord, MayStart, Running
<1>3. k \in Rec /\ k \in Resource BY Constants DEF Rec
<1>4. PICK r \in Rec : r = NextRec(k) /\ r \in Resource BY <1>1, NextRecFacts
<1>5. PICK q \in Request : q = NewLock(t, "X", "insert") /\ q.trx = t /\ ~q.wait
  <2>1. "X" \in Mode /\ "insert" \in Kind BY DEF Mode, Kind
  <2> QED BY <2>1, NewLockFacts
<1>6. IF Conflicting(queue, q, r) THEN EnqueueWaiting(queue, t, r, q)
      ELSE queue' = lock_update_insert(queue, k) /\ kernel' = kernel
  BY <1>4, <1>5, Zenon DEF InsertRecord
<1>7. CASE EnqueueWaiting(queue, t, r, q) BY <1>1, <1>2, <1>4, <1>5, <1>7, SlowerSame, EnqueueGraph
<1>8. CASE queue' = lock_update_insert(queue, k) /\ kernel' = kernel
  <2>1. PICK S : S = {o \in ToSet(queue[r]) : IsSup(r) \/ o.kind # "rec"} OBVIOUS
  <2>2. queue' = InheritIf(queue, k, r, S)
    BY <1>4, <1>8, <2>1 DEF lock_update_insert, lock_rec_inherit_to_gap_if_gap_lock
  <2>3. Inherits(queue', queue, k) BY <2>2, <1>1, <1>3, <1>4, InheritFacts
  <2>4. \A o \in Resource : GapsJoin(queue'[o], queue[o], o) BY <2>3, <1>1, <1>3, InheritsSets
  <2>5. Slower(queue', queue) BY <2>4, <1>1, GapsSlower
  <2> QED BY <2>5, <1>8, GraphKept
<1> QED BY <1>6, <1>7, <1>8

(* lock_table_unlock_auto_inc *)
LEMMA UnlockAutoIncGraph ==
    ASSUME LockInv, GraphInv, NEW t \in Trx, UnlockAutoInc(t)
    PROVE  GraphInv'
<1>1. PICK Q : UnlocksTo(Q, t) BY UnlockIs
<1>2. Leaves(Q) /\ Queues(Grants(Q), pc) BY <1>1 DEF UnlocksTo
<1>3. kernel' = kernel BY DEF UnlockAutoInc
<1> QED BY <1>2, <1>3, DequeueGraph

(* a wait that times out *)
LEMMA WaitTimesOutGraph ==
    ASSUME LockInv, GraphInv, NEW t \in Trx, WaitTimesOut(t)
    PROVE  GraphInv'
<1>1. PICK Q : Q = [r \in Resource |-> Without(queue[r], Waits(t))] OBVIOUS
<1>2. Queues(Grants(Q), pc) /\ kernel' = kernel BY <1>1 DEF WaitTimesOut, CancelWait, Waits
<1>3. Leaves(Q) BY <1>1, WithoutWaits
<1> QED BY <1>2, <1>3, DequeueGraph

(* LOCK_VICTIM_IS_OTHER: the search goes on with a smaller graph *)
LEMMA VictimIsOtherGraph ==
    ASSUME LockInv, GraphInv, NEW t \in Trx, VictimIsOther(t)
    PROVE  GraphInv'
<1>1. PICK w \in Closing(t) : Queues(CancelWait(queue, w), [pc EXCEPT ![w] = "victim"])
  BY DEF VictimIsOther
<1>2. w \in Trx BY ClosingIs
<1>3. PICK Q : Q = [r \in Resource |-> Without(queue[r], Waits(w))] OBVIOUS
<1>4. PICK p : p = [pc EXCEPT ![w] = "victim"] OBVIOUS
<1>5. Queues(Grants(Q), p) BY <1>1, <1>3, <1>4 DEF CancelWait, Waits
<1>6. Leaves(Q) BY <1>2, <1>3, WithoutWaits
<1>7. kernel' = kernel BY DEF VictimIsOther
<1> QED BY <1>5, <1>6, <1>7, DequeueGraph

(* lock_release_off_kernel *)
LEMMA ReleaseGraph ==
    ASSUME LockInv, GraphInv, NEW t \in Trx, Release(t)
    PROVE  GraphInv'
<1>1. PICK Q, p : ReleasesTo(Q, p, t) BY ReleaseIs
<1>2. Leaves(Q) /\ Queues(Grants(Q), p) BY <1>1 DEF ReleasesTo
<1>3. kernel' = kernel BY DEF Release
<1> QED BY <1>2, <1>3, DequeueGraph

(* who began the search gives up its own request *)
LEMMA VictimIsStartGraph ==
    ASSUME LockInv, GraphInv, NEW t \in Trx, VictimIsStart(t)
    PROVE  GraphInv'
<1>1. PICK Q : Q = [r \in Resource |-> Without(queue[r], Waits(t))] OBVIOUS
<1>2. queue' = Q /\ kernel = t /\ kernel' = None BY <1>1 DEF VictimIsStart, Waits
<1>3. Leaves(Q) /\ ~IsWaiting(Q, t) BY <1>1, WithoutWaits
<1>4. Slower(Q, queue) BY <1>3, LeavesSlower
<1>5. WaitsIn(Q, t) = {} BY <1>3, NotWaiting
<1>6. ASSUME NEW S \in SUBSET (Trx \ {None}), S # {} PROVE \E s \in S : WaitsIn(Q, s) \cap S = {}
  <2>1. CASE t \in S BY <2>1, <1>5
  <2>2. CASE t \notin S
    <3>1. S \in SUBSET (Trx \ {t}) BY <2>2
    <3>2. PICK s \in S : WaitsIn(queue, s) \cap S = {} BY <3>1, <1>2, <1>6 DEF GraphInv, Acyclic
    <3>3. WaitsIn(Q, s) \subseteq WaitsIn(queue, s) BY <1>4 DEF Slower
    <3> QED BY <3>2, <3>3
  <2> QED BY <2>1, <2>2
<1>7. Acyclic(Q, None) BY <1>6 DEF Acyclic
<1> QED BY <1>2, <1>7 DEF GraphInv

(* the search has found nobody that waits for the one who began it *)
LEMMA SearchEndsGraph ==
    ASSUME LockInv, GraphInv, NEW t \in Trx, SearchEnds(t)
    PROVE  GraphInv'
<1>1. kernel = t /\ kernel' = None /\ queue' = queue /\ Closing(t) = {} BY DEF SearchEnds
<1>2. Closed(Reached(t)) /\ WaitsFor(t) \subseteq Reached(t) /\ Reached(t) \subseteq Trx BY ReachedClosed
<1>3. \A u \in Trx : t # u => (IsWaiting(queue, u) <=> pc[u] = "wait") BY <1>1, InvParts DEF SleepOK
<1>4. \A u : WaitsFor(u) = WaitsIn(queue, u) /\ u \notin WaitsFor(u) BY WaitsAre DEF WaitsFor, lock_has_to_wait
<1>5. ASSUME NEW S \in SUBSET Trx, S # {}, \A s \in S : WaitsFor(s) \cap S # {} PROVE FALSE
  <2>1. t \in S
    <3> SUFFICES ASSUME t \notin S PROVE FALSE OBVIOUS
    <3>1. S \in SUBSET (Trx \ {kernel}) BY <1>1
    <3>2. PICK s \in S : WaitsIn(queue, s) \cap S = {} BY <3>1, <1>5 DEF GraphInv, Acyclic
    <3> QED BY <3>2, <1>4, <1>5
  <2> DEFINE Z == (S \cap Reached(t)) \ {t}
  <2>2. Z # {}
    <3>1. PICK v : v \in WaitsFor(t) /\ v \in S BY <2>1, <1>5
    <3> QED BY <3>1, <1>2, <1>4
  <2>3. ASSUME NEW s \in Z PROVE WaitsFor(s) \cap Z # {}
    <3>1. s \in S /\ s \in Reached(t) /\ s # t /\ s \in Trx OBVIOUS
    <3>2. PICK v : v \in WaitsFor(s) /\ v \in S BY <3>1, <1>5
    <3>3. IsWaiting(queue, s) BY <3>2, <1>4, NotWaiting
    <3>4. pc[s] = "wait" BY <3>1, <3>3, <1>3
    <3>5. v # t BY <3>1, <3>2, <3>4, <1>1 DEF Closing
    <3>6. v \in Reached(t) BY <3>1, <3>2, <3>4, <1>2 DEF Closed
    <3> QED BY <3>2, <3>5, <3>6
  <2>4. Z \in SUBSET (Trx \ {kernel}) BY <1>1
  <2>5. PICK s \in Z : WaitsIn(queue, s) \cap Z = {}
    <3> HIDE DEF Z
    <3> QED BY <2>2, <2>4 DEF GraphInv, Acyclic
  <2> HIDE DEF Z
  <2> QED BY <2>3, <2>5, <1>4
<1>6. Acyclic(queue, None)
  <2> SUFFICES ASSUME NEW S \in SUBSET (Trx \ {None}), S # {} PROVE \E s \in S : WaitsIn(queue, s) \cap S = {}
    BY DEF Acyclic
  <2>1. S \in SUBSET Trx OBVIOUS
  <2>2. PICK s \in S : ~(WaitsFor(s) \cap S # {}) BY <2>1, <1>5
  <2> QED BY <2>2, <1>4
<1> QED BY <1>1, <1>6 DEF GraphInv

(* a record goes: those who waited for it run again, its locks become gap locks *)
LEMMA DeleteGraph ==
    ASSUME LockInv, GraphInv, NEW k \in recs, DeleteRecord(k), kernel' = kernel
    PROVE  GraphInv'
<1>1. RowsOK /\ queue \in AllQueues /\ k \in Key /\ k \in Rec /\ k \in Resource BY InvParts, Constants DEF RowsOK, Rec
<1>2. PICK A : A = IF Alone(k) THEN lock_update_discard(queue, k) ELSE lock_update_delete(queue, k) OBVIOUS
<1>3. Queues(A, pc) BY <1>2 DEF DeleteRecord
<1>4. queue' = A BY <1>3 DEF Queues
<1>5. CASE ~Alone(k)
  <2>1. PICK heir \in Rec : heir = NextRec(k) /\ heir # k BY <1>1, NextRecFacts
  <2>2. Bequeaths(A, queue, k, heir) BY <1>1, <1>2, <1>5, <2>1, BequeathFacts DEF lock_update_delete
  <2>3. \A r \in Resource : A[r] = << >> \/ GapsJoin(A[r], queue[r], r) BY <2>2 DEF Bequeaths
  <2> QED BY <2>3, <1>1, <1>4, GapsSlower, GraphKept
<1>6. CASE Alone(k)
  <2>1. PICK heir \in recs \cup {Sup} : heir # k /\ Discarded(A, k, heir) BY <1>1, <1>2, <1>6, DiscardFacts
  <2>2. Sup \in Resource /\ SupL \in Resource /\ heir \in Resource BY <1>1, Constants DEF RowsOK, Rec
  <2>3. ASSUME NEW u \in Trx, NEW r \in Resource PROVE \E o \in Resource : Within(A[r], r, queue[o], o, u)
    <3>1. CASE r \in {k, SupL}
      <4>1. A[r] = << >> BY <3>1, <2>1 DEF Discarded
      <4> QED BY <4>1, WithinEmpty
    <3>2. CASE r \notin {k, SupL, heir}
      <4>1. A[r] = queue[r] BY <3>2, <2>1 DEF Discarded
      <4> QED BY <4>1, WithinSame
    <3>3. CASE r = heir /\ OnLeft(k)
      <4>1. GapsJoin(A[r], queue[r], r) /\ queue[r] \in Seq(Request) BY <3>3, <2>1, <1>1 DEF Discarded, AllQueues
      <4> QED BY <4>1, WithinGaps
    <3>4. CASE r = heir /\ ~OnLeft(k)
      <4>1. r = Sup /\ GapsJoin(A[r], queue[SupL], r) /\ queue[SupL] \in Seq(Request)
        BY <3>4, <2>1, <2>2, <1>1 DEF Discarded, AllQueues
      <4>2. Within(A[r], r, queue[SupL], r, u) BY <4>1, WithinGaps
      <4>3. \A p, q : lock_has_to_wait(q, p, Sup) => lock_has_to_wait(q, p, SupL)
        BY Constants, LockSysAssumption DEF lock_has_to_wait
      <4>4. Within(A[r], r, queue[SupL], SupL, u) BY <4>1, <4>2, <4>3 DEF Within
      <4> QED BY <4>4, <2>2
    <3> QED BY <3>1, <3>2, <3>3, <3>4
  <2>4. \A u \in Trx : WaitsIn(A, u) \subseteq WaitsIn(queue, u) BY <2>3, WaitsWithin
  <2> QED BY <2>4, <1>4, GraphKept DEF Slower
<1> QED BY <1>5, <1>6

(* row_purge_remove_clust_if_poss *)
LEMMA PurgeGraph ==
    ASSUME LockInv, GraphInv, NEW k \in Key, Purge(k)
    PROVE  GraphInv'
<1>1. RowsOK BY InvParts
<1>2. k \in recs /\ DeleteRecord(k) /\ kernel' = kernel BY <1>1 DEF Purge, RowsOK
<1> QED BY <1>2, DeleteGraph

(* row_undo_ins, row_undo_mod *)
LEMMA UndoChangeGraph ==
    ASSUME LockInv, GraphInv, NEW t \in Trx, UndoChange(t)
    PROVE  GraphInv'
<1> DEFINE E == [rec : Key, new : BOOLEAN, mark : BOOLEAN]
<1>1. RowsOK /\ undo \in [Trx -> Seq(E)] BY InvParts DEF RowsOK
<1>2. undo[t] # << >> /\ kernel' = kernel BY DEF UndoChange
<1>3. PICK n \in Nat : /\ DOMAIN undo[t] = 1 .. n + 1
                       /\ Last(undo[t]) = undo[t][n + 1] /\ undo[t][n + 1] \in E
  <2>1. undo[t] \in Seq(E) BY <1>1
  <2> HIDE DEF E
  <2> QED BY <2>1, <1>2, FrontFacts
<1>4. PICK e \in E : e = Last(undo[t]) /\ e = undo[t][n + 1] BY <1>3
<1>5. IF e.new THEN DeleteRecord(e.rec) ELSE queue' = queue BY <1>4, Zenon DEF UndoChange
<1>6. e.rec \in recs
  <2>1. n + 1 \in DOMAIN undo[t] BY <1>3
  <2>2. e.rec \in Key /\ writer[e.rec] = t BY <2>1, <1>1, <1>4 DEF RowsOK
  <2> QED BY <2>2, <1>1, Constants DEF RowsOK
<1>7. CASE e.new BY <1>2, <1>5, <1>6, <1>7, DeleteGraph
<1>8. CASE ~e.new BY <1>2, <1>5, <1>8, GraphSame
<1> QED BY <1>7, <1>8

(* lock_update_split_right *)
LEMMA SplitPageGraph ==
    ASSUME LockInv, GraphInv, NEW k \in Key, SplitPage(k)
    PROVE  GraphInv'
<1>1. queue \in AllQueues /\ SupL \in Rec /\ k \in Resource BY InvParts, Constants DEF Rec
<1>2. queue' = lock_rec_inherit_to_gap(queue, SupL, k) /\ kernel' = kernel BY DEF SplitPage
<1>3. Inherits(queue', queue, SupL)
  <2>1. queue' = InheritIf(queue, SupL, k, ToSet(queue[k])) BY <1>2 DEF lock_rec_inherit_to_gap
  <2> QED BY <2>1, <1>1, InheritFacts
<1>4. \A o \in Resource : GapsJoin(queue'[o], queue[o], o) BY <1>1, <1>3, InheritsSets
<1>5. Slower(queue', queue) BY <1>1, <1>4, GapsSlower
<1> QED BY <1>2, <1>5, GraphKept

(* lock_update_merge_left, lock_update_merge_right *)
LEMMA MergePagesGraph ==
    ASSUME LockInv, GraphInv, MergePages
    PROVE  GraphInv'
<1>1. queue \in AllQueues /\ recs \subseteq Key BY InvParts DEF RowsOK
<1>2. kernel' = kernel BY DEF MergePages
<1>3. PICK T : T = {j \in recs : j >= split} OBVIOUS
<1>4. PICK k : k = CHOOSE j \in T : \A i \in T : j <= i OBVIOUS
<1>5. PICK A : A = lock_rec_reset_and_release_wait(lock_rec_inherit_to_gap(queue, k, SupL), SupL) OBVIOUS
<1>6. T # {} /\ Queues(A, pc) BY <1>3, <1>4, <1>5 DEF MergePages
<1>7. k \in T
  <2>1. T \subseteq Nat BY <1>1, <1>3, Constants
  <2> QED BY <2>1, <1>4, <1>6, FirstOf
<1>8. k \in Rec /\ SupL \in Rec /\ SupL # k BY <1>1, <1>3, <1>7, Constants DEF Rec
<1>9. Bequeaths(A, queue, SupL, k) BY <1>1, <1>5, <1>8, BequeathFacts
<1>10. \A r \in Resource : A[r] = << >> \/ GapsJoin(A[r], queue[r], r) BY <1>9 DEF Bequeaths
<1>11. Slower(A, queue) BY <1>1, <1>10, GapsSlower
<1>12. queue' = A BY <1>6 DEF Queues
<1> QED BY <1>2, <1>11, <1>12, GraphKept

(* nobody waits at the start *)
LEMMA InitGraph == Init => GraphInv
<1> SUFFICES ASSUME Init PROVE GraphInv OBVIOUS
<1>1. kernel = None /\ \A t \in Trx : pc[t] = "run" BY DEF Init
<1>2. \A t \in Trx : kernel # t => (IsWaiting(queue, t) <=> pc[t] = "wait") BY InitOK, InvParts DEF SleepOK
<1>3. \A t \in Trx : ~IsWaiting(queue, t) BY <1>1, <1>2, Constants
<1>4. \A t \in Trx : WaitsIn(queue, t) = {} BY <1>3, NotWaiting
<1> QED BY <1>4 DEF GraphInv, Acyclic

(* every step keeps the graph free of unseen circles *)
LEMMA NextGraph == LockInv /\ GraphInv /\ [Next]_vars => GraphInv'
<1> SUFFICES ASSUME LockInv, GraphInv, [Next]_vars PROVE GraphInv' OBVIOUS
<1>1. CASE UNCHANGED vars BY <1>1, GraphSame DEF vars
<1>2. CASE Next
  <2>1. ASSUME NEW t \in Trx, Continue(t) PROVE GraphInv'
    <3>1. CASE RollbackEnds(t) BY <3>1, GraphSame DEF RollbackEnds
    <3>2. CASE Rollback(t) BY <3>2, GraphSame DEF Rollback
    <3> QED BY <2>1, <3>1, <3>2, SearchEndsGraph, VictimIsStartGraph, VictimIsOtherGraph, UndoChangeGraph, ReleaseGraph
      DEF Continue
  <2>2. ASSUME NEW t \in Trx, NEW m \in {TableMode[t], "AI"}, LockTable(t, m) PROVE GraphInv'
    <3>1. m \in Mode BY LockSysAssumption DEF Mode
    <3> QED BY <2>2, <3>1, LockTableGraph
  <2>3. ASSUME NEW t \in Trx, NEW p \in Reads, ReadRecord(t, p[2], p[3], p[4]) PROVE GraphInv'
    <3>1. p[2] \in Rec /\ p[3] \in {"S", "X"} /\ p[4] \in {"ordinary", "gap", "rec"} BY LockSysAssumption
    <3> QED BY <2>3, <3>1, ReadRecordGraph
  <2>4. ASSUME NEW t \in Trx, NEW k \in Key, InsertRecord(t, k) PROVE GraphInv' BY <2>4, InsertRecordGraph
  <2>5. ASSUME NEW t \in Trx, NEW k \in Key, NEW b \in BOOLEAN, ModifyRecord(t, k, b) PROVE GraphInv'
    BY <2>5, ModifyRecordGraph
  <2>6. ASSUME NEW t \in Trx, UnlockAutoInc(t) PROVE GraphInv' BY <2>6, UnlockAutoIncGraph
  <2>7. ASSUME NEW t \in Trx, WaitTimesOut(t) PROVE GraphInv' BY <2>7, WaitTimesOutGraph
  <2>8. ASSUME NEW t \in Trx, Commit(t) PROVE GraphInv' BY <2>8, GraphSame DEF Commit
  <2>9. ASSUME NEW t \in Trx, Rollback(t) PROVE GraphInv' BY <2>9, GraphSame DEF Rollback
  <2>10. ASSUME NEW k \in Key, Purge(k) PROVE GraphInv' BY <2>10, PurgeGraph
  <2>11. ASSUME NEW k \in Key, SplitPage(k) PROVE GraphInv' BY <2>11, SplitPageGraph
  <2>12. ASSUME MergePages PROVE GraphInv' BY <2>12, MergePagesGraph
  <2> QED BY <1>2, <2>1, <2>2, <2>3, <2>4, <2>5, <2>6, <2>7, <2>8, <2>9, <2>10, <2>11, <2>12, Zenon DEF Next
<1> QED BY <1>1, <1>2

(* RULE 4's purpose: lock_deadlock_occurs, which runs only when a request  *)
(* begins to wait and starts from that request, leaves no circle of        *)
(* waiting transactions behind, although releases, grants, inheritance and *)
(* cancelled waits change the graph without a search.                      *)
THEOREM LockSysNoUnseenDeadlock == Spec => []NoUnseenDeadlock
<1>1. Init => GraphInv BY InitGraph
<1>2. LockInv /\ GraphInv /\ [Next]_vars => GraphInv' BY NextGraph
<1>3. Spec => []GraphInv BY <1>1, <1>2, LockSysInvariant, PTL DEF Spec
<1> QED BY <1>3, NoCircle, PTL

=============================================================================
