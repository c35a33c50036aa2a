--------------------------- MODULE ThrLockProofs ---------------------------
(***************************************************************************)
(* Proofs about the table lock manager, for any number of tables, open     *)
(* table instances and connections.                                        *)
(*                                                                         *)
(* The part of the invariant about one THR_LOCK is a predicate of the      *)
(* lock, the types and the wait flags (LockOK): thr_unlock and the         *)
(* functions it calls pass through several such triples in one step, and   *)
(* each of them is shown to keep it.                                       *)
(***************************************************************************)
EXTENDS ThrLock, ListLemmas

LockRecord == [read : Seq(Data), write : Seq(Data), read_wait : Seq(Data),
               write_wait : Seq(Data), read_no_write_count : Nat,
               write_lock_count : 0 .. MaxWriteLockCount + 1]

Members(L) == ToSet(L.read) \cup ToSet(L.write) \cup ToSet(L.read_wait) \cup ToSet(L.write_wait)

(* the lists are lists of this lock's data and have nothing in common *)
Lists(L, l) ==
    /\ L \in LockRecord
    /\ Distinct(L.read) /\ Distinct(L.write)
    /\ Distinct(L.read_wait) /\ Distinct(L.write_wait)
    /\ ToSet(L.read) \cap ToSet(L.write) = {} /\ ToSet(L.read_wait) \cap ToSet(L.write_wait) = {}
    /\ ToSet(L.read) \cap ToSet(L.read_wait) = {} /\ ToSet(L.read) \cap ToSet(L.write_wait) = {}
    /\ ToSet(L.write) \cap ToSet(L.read_wait) = {} /\ ToSet(L.write) \cap ToSet(L.write_wait) = {}
    /\ \A d \in Members(L) : LockOf[d] = l

(* the list a data is on says what its type and its condition are *)
Roles(L, ty, cd) ==
    /\ \A d \in ToSet(L.read) : ty[d] \in TL_READ .. TL_READ_NO_INSERT /\ ~cd[d]
    /\ \A d \in ToSet(L.read_wait) : ty[d] \in TL_READ .. TL_READ_NO_INSERT /\ cd[d]
    /\ \A d \in ToSet(L.write) : ty[d] \in TL_WRITE_ALLOW_WRITE .. TL_WRITE_ONLY /\ ~cd[d]
    /\ \A d \in ToSet(L.write_wait) : ty[d] \in TL_WRITE_ALLOW_WRITE .. TL_WRITE /\ cd[d]
    /\ \A d \in Members(L) : ty[d] = TL_WRITE_CONCURRENT_INSERT => LockOf[d] \in CheckStatus

Counted(L, ty) ==
    L.read_no_write_count = Cardinality({d \in ToSet(L.read) : ty[d] = TL_READ_NO_INSERT})

(* t excludes at least those that u excludes *)
AtLeast(t, u) == t >= u \/ t >= TL_WRITE_LOW_PRIORITY

(* what one owner has in the list of writers is in the order of its array *)
Ordered(s, ty) ==
    \A i, j \in DOMAIN s : i < j /\ OwnerOf[s[i]] = OwnerOf[s[j]] => AtLeast(ty[s[i]], ty[s[j]])

WritersAgree(W, ty) ==
    \A v, w \in W : \/ OwnerOf[v] = OwnerOf[w]
                    \/ ty[v] = TL_WRITE_ALLOW_WRITE /\ ty[w] = TL_WRITE_ALLOW_WRITE

Tolerates(w, d, ty) ==
    \/ OwnerOf[d] = OwnerOf[w]
    \/ ty[w] = TL_WRITE_ONLY
    \/ /\ ty[w] <= TL_WRITE_DELAYED
       /\ ty[w] = TL_WRITE_CONCURRENT_INSERT => ty[d] # TL_READ_NO_INSERT

ReadersAgree(R, W, ty) == \A w \in W, d \in R : Tolerates(w, d, ty)

LockOK(L, l, ty, cd) ==
    /\ Lists(L, l) /\ Roles(L, ty, cd) /\ Counted(L, ty)
    /\ Ordered(L.write, ty) /\ WritersAgree(ToSet(L.write), ty)
    /\ ReadersAgree(ToSet(L.read), ToSet(L.write), ty)

-----------------------------------------------------------------------------
(* The invariant *)

Where == {"idle", "locking", "waiting", "locked", "unlocking", "upgrade", "upgrading"}

Typed ==
    /\ lock \in [Lock -> LockRecord]
    /\ type \in [Data -> LockType] /\ asked \in [Data -> LockType]
    /\ cond \in [Data -> BOOLEAN] /\ abort \in [Thread -> BOOLEAN]
    /\ pc \in [Owner -> Where]
    /\ locks \in [Owner -> Seq(Data)] /\ pos \in [Owner -> Nat \ {0}]

(* a delayed handler's lock, and nobody else's, is TL_WRITE_DELAYED *)
DelayedTypes(ty) ==
    \A d \in Data :
        /\ ty[d] = TL_WRITE_DELAYED => OwnerOf[d] \in Delayed
        /\ OwnerOf[d] \in Delayed => ty[d] \in {TL_UNLOCK, TL_WRITE_DELAYED, TL_WRITE, TL_WRITE_ONLY}

Linked(d) == d \in Members(lock[LockOf[d]])
Queued(d) == d \in Waiting(LockOf[d])

(* thr_lock was called for the i-th element and thr_unlock was not *)
Called(o, i) ==
    /\ pc[o] = "locking" => i < pos[o]
    /\ pc[o] = "waiting" => i <= pos[o]
    /\ pc[o] = "unlocking" => i >= pos[o]

(* thr_lock is still to be called for the j-th element *)
Untried(o, j) ==
    \/ pc[o] = "locking" /\ j >= pos[o]
    \/ pc[o] = "waiting" /\ j > pos[o]

Array(o) ==
    /\ Distinct(locks[o]) /\ \A i \in DOMAIN locks[o] : OwnerOf[locks[o][i]] = o
    /\ pc[o] = "idle" => locks[o] = << >>
    /\ pc[o] \in {"locking", "waiting"} => pos[o] \in DOMAIN locks[o]
    /\ pc[o] \in {"locked", "upgrade", "upgrading"} => locks[o] # << >>
    /\ pc[o] \in {"upgrade", "upgrading"} => o \in Delayed

(* linked is what thr_lock was called for, unless its wait was aborted *)
Placed(o) ==
    /\ \A d \in Data : OwnerOf[d] = o /\ Linked(d) =>
         \E i \in DOMAIN locks[o] : locks[o][i] = d /\ Called(o, i)
    /\ \A i \in DOMAIN locks[o] :
         Called(o, i) /\ type[locks[o][i]] # TL_UNLOCK => Linked(locks[o][i])
    /\ \A d \in Data : OwnerOf[d] = o /\ type[d] = TL_WRITE_ONLY => Linked(d)

(* only the element that thr_lock was called for last waits in a queue, *)
(* or the element is a delayed handler's                                *)
QueuedLast(o) ==
    \A d \in Data : OwnerOf[d] = o /\ Queued(d) =>
        \/ pc[o] = "waiting" /\ Cur(o) = d
        \/ o \in Delayed /\ (type[d] = TL_WRITE_DELAYED \/ pc[o] = "upgrading")

(* what is still to be locked has a type, and comes after the stronger  *)
(* locks of its table                                                   *)
Sorted(o) ==
    \A j \in DOMAIN locks[o] : Untried(o, j) =>
        /\ type[locks[o][j]] \in TL_READ .. TL_WRITE
        /\ \A i \in DOMAIN locks[o] :
             i < j /\ LockOf[locks[o][i]] = LockOf[locks[o][j]] =>
                 type[locks[o][i]] = TL_UNLOCK \/ AtLeast(type[locks[o][i]], type[locks[o][j]])

(* who sleeps was not thrown out of its queue *)
Asleep(o) ==
    /\ pc[o] = "waiting" /\ cond[Cur(o)] => type[Cur(o)] # TL_UNLOCK
    /\ pc[o] = "upgrading" /\ cond[locks[o][1]] => type[locks[o][1]] # TL_UNLOCK

OwnerInv(o) == Array(o) /\ Placed(o) /\ QueuedLast(o) /\ Sorted(o) /\ Asleep(o)

ThrInv ==
    /\ Typed /\ DelayedTypes(type)
    /\ \A o \in Owner : OwnerInv(o)
    /\ \A l \in Lock : LockOK(lock[l], l, type, cond)

-----------------------------------------------------------------------------
(* One lock, its types and its wait flags: S is such a triple *)

USE DEF TL_UNLOCK, TL_READ, TL_READ_WITH_SHARED_LOCKS, TL_READ_HIGH_PRIORITY,
        TL_READ_NO_INSERT, TL_WRITE_ALLOW_WRITE, TL_WRITE_ALLOW_READ,
        TL_WRITE_CONCURRENT_INSERT, TL_WRITE_DELAYED, TL_WRITE_LOW_PRIORITY,
        TL_WRITE, TL_WRITE_ONLY, LockType

Triples == [l : LockRecord, type : [Data -> LockType], cond : [Data -> BOOLEAN]]

Triple(S, l) ==
    /\ S \in Triples
    /\ DelayedTypes(S.type)
    /\ LockOK(S.l, l, S.type, S.cond)

(* Nobody joins or leaves; a wait may end, and a concurrent insert that    *)
(* waits may become a plain write lock.                                    *)
Passed(S, T) ==
    /\ Members(T.l) = Members(S.l)
    /\ ToSet(T.l.read_wait) \subseteq ToSet(S.l.read_wait)
    /\ ToSet(T.l.write_wait) \subseteq ToSet(S.l.write_wait)
    /\ \A d \in Data : T.type[d] = S.type[d] \/ ( /\ d \in ToSet(S.l.write_wait)
                                                 /\ S.type[d] = TL_WRITE_CONCURRENT_INSERT
                                                 /\ T.type[d] = TL_WRITE )
    /\ \A d \in Data \ Members(S.l) : T.cond[d] = S.cond[d]

(* several such steps are one *)
LEMMA PassedOn ==
    ASSUME NEW S, NEW T, NEW U, Passed(S, T), Passed(T, U)
    PROVE  Passed(S, U)
<1>1. \A d \in Data : U.type[d] = S.type[d] \/ ( /\ d \in ToSet(S.l.write_wait)
                                                /\ S.type[d] = TL_WRITE_CONCURRENT_INSERT
                                                /\ U.type[d] = TL_WRITE )
  <2> SUFFICES ASSUME NEW d \in Data
               PROVE  U.type[d] = S.type[d] \/ ( /\ d \in ToSet(S.l.write_wait)
                                                /\ S.type[d] = TL_WRITE_CONCURRENT_INSERT
                                                /\ U.type[d] = TL_WRITE )
    OBVIOUS
  <2> QED BY DEF Passed
<1> QED BY <1>1 DEF Passed

(* no step is such a step *)
LEMMA PassedSelf == ASSUME NEW S PROVE Passed(S, S)
BY DEF Passed

(* the elements of the lists are lock data *)
LEMMA MembersAreData ==
    ASSUME NEW L \in LockRecord
    PROVE  /\ ToSet(L.read) \subseteq Data /\ ToSet(L.write) \subseteq Data
           /\ ToSet(L.read_wait) \subseteq Data /\ ToSet(L.write_wait) \subseteq Data
BY DEF LockRecord, ToSet

(* the no-insert readers among some are finitely many *)
NoInsert(R, ty) == {d \in R : ty[d] = TL_READ_NO_INSERT}

(* and so they can be counted *)
LEMMA NoInsertFinite ==
    ASSUME NEW s \in Seq(Data), NEW ty
    PROVE  /\ IsFiniteSet(NoInsert(ToSet(s), ty))
           /\ Cardinality(NoInsert(ToSet(s), ty)) \in Nat
<1>1. IsFiniteSet(ToSet(s)) BY ListFinite
<1>2. NoInsert(ToSet(s), ty) \in SUBSET ToSet(s) BY DEF NoInsert
<1>3. IsFiniteSet(NoInsert(ToSet(s), ty)) BY <1>1, <1>2, FS_Subset
<1> QED BY <1>3, FS_CardinalityType

(* a list without writers of the same owner in the wrong order *)
LEMMA OrderedWithout ==
    ASSUME NEW s \in Seq(Data), NEW D, NEW ty, Ordered(s, ty)
    PROVE  Ordered(Without(s, D), ty)
<1> DEFINE w == Without(s, D)
<1>2. \A a, b \in DOMAIN w : a < b => \E i, j \in DOMAIN s : i < j /\ w[a] = s[i] /\ w[b] = s[j]
  BY WithoutFacts
<1> HIDE DEF w
<1>3. ASSUME NEW a \in DOMAIN w, NEW b \in DOMAIN w, a < b, OwnerOf[w[a]] = OwnerOf[w[b]]
      PROVE  AtLeast(ty[w[a]], ty[w[b]])
  <2>1. PICK i, j \in DOMAIN s : i < j /\ w[a] = s[i] /\ w[b] = s[j] BY <1>2, <1>3
  <2> QED BY <2>1, <1>3 DEF Ordered
<1>4. Ordered(w, ty) BY <1>3 DEF Ordered
<1> QED BY <1>4 DEF w

-----------------------------------------------------------------------------
(* free_all_read_locks *)

(* F is S with the readers of the list run no longer waiting *)
Freed(S, ci, F, run, stay) ==
    /\ F \in Triples /\ F.type = S.type
    /\ F.l.read = S.l.read \o run /\ F.l.write = S.l.write
    /\ F.l.read_wait = stay /\ F.l.write_wait = S.l.write_wait
    /\ Distinct(S.l.read_wait) => Distinct(run) /\ Distinct(stay)
    /\ ToSet(run) \cap ToSet(stay) = {} /\ ToSet(run) \cup ToSet(stay) = ToSet(S.l.read_wait)
    /\ ci => \A d \in ToSet(run) : S.type[d] # TL_READ_NO_INSERT
    /\ F.l.read_no_write_count = S.l.read_no_write_count
                                   + Cardinality(NoInsert(ToSet(run), S.type))
    /\ \A d \in Data : F.cond[d] = (S.cond[d] /\ d \notin ToSet(run))

(* the waiting readers run, but for the no-insert readers when told so *)
LEMMA FreeReadsIs ==
    ASSUME NEW S \in Triples, NEW ci \in BOOLEAN
    PROVE  \E run, stay \in Seq(Data) : Freed(S, ci, free_all_read_locks(S, ci), run, stay)
<1> DEFINE F == free_all_read_locks(S, ci)
<1>1. CASE Empty(S.l.read_wait)
  <2>1. F = S BY <1>1 DEF free_all_read_locks
  <2>2. S.l.read_wait = << >> /\ S.l.read \in Seq(Data) /\ S.l.read_no_write_count \in Nat
    BY <1>1 DEF Empty, LockRecord, Triples
  <2>3. ToSet(<< >>) = {} /\ Distinct(<< >>) /\ << >> \in Seq(Data) BY DEF ToSet, Distinct
  <2>4. S.l.read \o << >> = S.l.read BY <2>2
  <2>5. NoInsert({}, S.type) = {} /\ Cardinality({}) = 0 BY FS_EmptySet DEF NoInsert
  <2>6. S.l.read_no_write_count = S.l.read_no_write_count + 0 BY <2>2
  <2> HIDE DEF F
  <2>7. \A d \in Data : S.cond[d] = (S.cond[d] /\ d \notin ToSet(<< >>)) BY <2>3 DEF Triples
  <2>8. Freed(S, ci, F, << >>, << >>) BY <2>1, <2>2, <2>3, <2>4, <2>5, <2>6, <2>7 DEF Freed
  <2> QED BY <2>3, <2>8, Zenon DEF F
<1>2. CASE ~Empty(S.l.read_wait)
  <2> DEFINE stays == {d \in ToSet(S.l.read_wait) : ci /\ S.type[d] = TL_READ_NO_INSERT}
             run   == Without(S.l.read_wait, stays)
             stay  == Without(S.l.read_wait, ToSet(run))
             noIns == {d \in ToSet(run) : S.type[d] = TL_READ_NO_INSERT}
  <2>1. /\ S.l \in LockRecord /\ S.l.read_wait \in Seq(Data) /\ S.l.read \in Seq(Data)
        /\ S.l.read_no_write_count \in Nat
    BY DEF LockRecord, Triples
  <2>2. run \in Seq(Data) /\ ToSet(run) = ToSet(S.l.read_wait) \ stays BY <2>1, WithoutFacts
  <2>3. Distinct(S.l.read_wait) => Distinct(run) BY <2>1, WithoutDistinct
  <2> HIDE DEF run
  <2>4. stay \in Seq(Data) /\ ToSet(stay) = ToSet(S.l.read_wait) \ ToSet(run) BY <2>1, WithoutFacts
  <2>5. Distinct(S.l.read_wait) => Distinct(stay) BY <2>1, WithoutDistinct
  <2> HIDE DEF stay
  <2>6. F = [S EXCEPT
         !.l.read = @ \o run,
         !.l.read_wait = stay,
         !.l.read_no_write_count = @ + Cardinality(noIns),
         !.l.write_lock_count = IF Empty(stay) THEN 0 ELSE @,
         !.cond = [d \in Data |-> @[d] /\ d \notin ToSet(run)]]
    BY <1>2 DEF free_all_read_locks, run, stay
  <2>7. noIns = NoInsert(ToSet(run), S.type) BY DEF NoInsert
  <2>8. Cardinality(noIns) \in Nat BY <2>2, <2>7, NoInsertFinite
  <2> HIDE DEF noIns, F
  <2>9. F.type = S.type /\ F.cond = [d \in Data |-> S.cond[d] /\ d \notin ToSet(run)] BY <2>6
  <2>10. F.l = [read |-> S.l.read \o run, write |-> S.l.write, read_wait |-> stay,
                write_wait |-> S.l.write_wait,
                read_no_write_count |-> S.l.read_no_write_count + Cardinality(noIns),
                write_lock_count |-> IF Empty(stay) THEN 0 ELSE S.l.write_lock_count]
    BY <2>6 DEF LockRecord, Triples
  <2>11. /\ F.l.read = S.l.read \o run /\ F.l.write = S.l.write
         /\ F.l.read_wait = stay /\ F.l.write_wait = S.l.write_wait
         /\ F.l.read_no_write_count = S.l.read_no_write_count + Cardinality(noIns)
    BY <2>10
  <2>12. S.l.read \o run \in Seq(Data) BY <2>1, <2>2
  <2>13. F.l \in LockRecord
    <3>1. 0 \in 0 .. MaxWriteLockCount + 1 BY ThrLockAssumption DEF ThrLockAssumption
    <3>2. S.l.write \in Seq(Data) /\ S.l.write_wait \in Seq(Data) BY <2>1 DEF LockRecord
    <3>3. (IF Empty(stay) THEN 0 ELSE S.l.write_lock_count) \in 0 .. MaxWriteLockCount + 1
      BY <3>1, <2>1 DEF LockRecord
    <3>4. S.l.read_no_write_count + Cardinality(noIns) \in Nat BY <2>1, <2>8
    <3> HIDE DEF F
    <3> QED BY <2>10, <2>12, <2>4, <3>2, <3>3, <3>4 DEF LockRecord
  <2>14. F = [l |-> F.l, type |-> F.type, cond |-> F.cond] BY <2>6 DEF Triples
  <2>15. F.cond \in [Data -> BOOLEAN] /\ F.type \in [Data -> LockType] BY <2>9 DEF Triples
  <2>16. F \in Triples BY <2>13, <2>14, <2>15 DEF Triples
  <2>17. ci => \A d \in ToSet(run) : S.type[d] # TL_READ_NO_INSERT BY <2>2
  <2>18. /\ ToSet(run) \cap ToSet(stay) = {}
         /\ ToSet(run) \cup ToSet(stay) = ToSet(S.l.read_wait)
    BY <2>2, <2>4
  <2>19. \A d \in Data : F.cond[d] = (S.cond[d] /\ d \notin ToSet(run)) BY <2>9
  <2>20. run \in Seq(Data) /\ stay \in Seq(Data) BY <2>2, <2>4
  <2>21. Freed(S, ci, F, run, stay)
    BY <2>3, <2>5, <2>7, <2>9, <2>11, <2>16, <2>17, <2>18, <2>19 DEF Freed
  <2> QED BY <2>20, <2>21, Zenon DEF F
<1> QED BY <1>1, <1>2

(* Waiting readers may run when the writers in use tolerate them: nobody   *)
(* is lost, the count stays exact, and all holders are compatible.         *)
LEMMA FreeReadsOK ==
    ASSUME NEW S, NEW l, Triple(S, l), NEW ci \in BOOLEAN,
           \A w \in ToSet(S.l.write) :
               S.type[w] <= TL_WRITE_DELAYED /\ (S.type[w] = TL_WRITE_CONCURRENT_INSERT => ci)
    PROVE  LET F == free_all_read_locks(S, ci) IN
           /\ Triple(F, l) /\ Passed(S, F)
           /\ F.type = S.type /\ F.l.write = S.l.write /\ F.l.write_wait = S.l.write_wait
<1> DEFINE F == free_all_read_locks(S, ci)
<1>1. S \in Triples /\ DelayedTypes(S.type) /\ LockOK(S.l, l, S.type, S.cond) BY DEF Triple
<1>2. PICK run, stay \in Seq(Data) : Freed(S, ci, F, run, stay) BY <1>1, FreeReadsIs
<1> HIDE DEF F
<1>3. /\ F \in Triples /\ F.type = S.type /\ F.l.write = S.l.write
      /\ F.l.read_wait = stay /\ F.l.write_wait = S.l.write_wait /\ F.l.read = S.l.read \o run
  BY <1>2 DEF Freed
<1>4. /\ S.l \in LockRecord /\ F.l \in LockRecord /\ S.l.read \in Seq(Data)
      /\ S.l.read_no_write_count \in Nat
  BY <1>1, <1>3 DEF Triples, LockRecord
<1>5. Lists(S.l, l) /\ Roles(S.l, S.type, S.cond) BY <1>1 DEF LockOK
<1>6. ToSet(run) \cap ToSet(stay) = {} /\ ToSet(run) \cup ToSet(stay) = ToSet(S.l.read_wait)
  BY <1>2 DEF Freed
<1>7. ToSet(F.l.read) = ToSet(S.l.read) \cup ToSet(run) BY <1>3, <1>4, ConcatFacts
<1>8. Distinct(run) /\ Distinct(stay) BY <1>2, <1>5 DEF Freed, Lists
<1>9. Distinct(F.l.read)
  <2>1. ToSet(S.l.read) \cap ToSet(run) = {} /\ Distinct(S.l.read) BY <1>5, <1>6 DEF Lists
  <2> QED BY <2>1, <1>3, <1>4, <1>8, ConcatFacts
<1>10. Members(F.l) = Members(S.l) BY <1>3, <1>6, <1>7 DEF Members
<1>11. Lists(F.l, l)
  <2>1. \A d \in Members(F.l) : LockOf[d] = l BY <1>5, <1>10 DEF Lists
  <2>2. /\ ToSet(F.l.read) \cap ToSet(F.l.write) = {}
        /\ ToSet(F.l.read_wait) \cap ToSet(F.l.write_wait) = {}
        /\ ToSet(F.l.read) \cap ToSet(F.l.read_wait) = {}
        /\ ToSet(F.l.read) \cap ToSet(F.l.write_wait) = {}
        /\ ToSet(F.l.write) \cap ToSet(F.l.read_wait) = {}
        /\ ToSet(F.l.write) \cap ToSet(F.l.write_wait) = {}
    BY <1>3, <1>5, <1>6, <1>7 DEF Lists
  <2>3. Distinct(F.l.write) /\ Distinct(F.l.read_wait) /\ Distinct(F.l.write_wait)
    BY <1>3, <1>5, <1>8 DEF Lists
  <2> QED BY <2>1, <2>2, <2>3, <1>4, <1>9 DEF Lists
<1>12. \A d \in Data : F.cond[d] = (S.cond[d] /\ d \notin ToSet(run)) BY <1>2 DEF Freed
<1>13. Members(S.l) \subseteq Data BY <1>4, MembersAreData DEF Members
<1>14. Roles(F.l, F.type, F.cond)
  <2>1. ToSet(S.l.read) \subseteq Data /\ ToSet(S.l.write) \subseteq Data
        /\ ToSet(S.l.read_wait) \subseteq Data /\ ToSet(S.l.write_wait) \subseteq Data
    BY <1>4, MembersAreData
  <2>2. \A d \in ToSet(F.l.read) : F.type[d] \in TL_READ .. TL_READ_NO_INSERT /\ ~F.cond[d]
    BY <1>3, <1>5, <1>6, <1>7, <1>12, <2>1 DEF Roles
  <2>3. \A d \in ToSet(F.l.read_wait) : F.type[d] \in TL_READ .. TL_READ_NO_INSERT /\ F.cond[d]
    BY <1>3, <1>5, <1>6, <1>12, <2>1 DEF Roles
  <2>4. \A d \in ToSet(F.l.write) : F.type[d] \in TL_WRITE_ALLOW_WRITE .. TL_WRITE_ONLY /\ ~F.cond[d]
    BY <1>3, <1>5, <1>12, <2>1 DEF Roles
  <2>5. \A d \in ToSet(F.l.write_wait) : F.type[d] \in TL_WRITE_ALLOW_WRITE .. TL_WRITE /\ F.cond[d]
    BY <1>3, <1>5, <1>6, <1>12, <2>1 DEF Roles, Lists
  <2>6. \A d \in Members(F.l) : F.type[d] = TL_WRITE_CONCURRENT_INSERT => LockOf[d] \in CheckStatus
    BY <1>3, <1>5, <1>10 DEF Roles
  <2> QED BY <2>2, <2>3, <2>4, <2>5, <2>6 DEF Roles
<1>15. Counted(F.l, F.type)
  <2> DEFINE A == NoInsert(ToSet(S.l.read), S.type)  B == NoInsert(ToSet(run), S.type)
  <2>1. IsFiniteSet(A) /\ IsFiniteSet(B) /\ Cardinality(A) \in Nat /\ Cardinality(B) \in Nat
    BY <1>4, NoInsertFinite
  <2>2. NoInsert(ToSet(F.l.read), F.type) = A \cup B BY <1>3, <1>7 DEF NoInsert
  <2>3. A \cap B = {} BY <1>5, <1>6 DEF NoInsert, Lists
  <2>4. S.l.read_no_write_count = Cardinality(A) BY <1>1 DEF LockOK, Counted, NoInsert
  <2>5. F.l.read_no_write_count = Cardinality(A) + Cardinality(B) BY <1>2, <2>4 DEF Freed
  <2> HIDE DEF A, B
  <2>6. Cardinality(A \cup B) = Cardinality(A) + Cardinality(B)
    <3>1. Cardinality(A \cup B) = Cardinality(A) + Cardinality(B) - Cardinality(A \cap B)
      BY <2>1, FS_Union
    <3>2. Cardinality(A \cap B) = 0 BY <2>3, FS_EmptySet
    <3> QED BY <2>1, <3>1, <3>2
  <2> QED BY <2>2, <2>5, <2>6 DEF Counted, NoInsert
<1>16. Ordered(F.l.write, F.type) /\ WritersAgree(ToSet(F.l.write), F.type)
  BY <1>1, <1>3 DEF LockOK
<1>17. ReadersAgree(ToSet(F.l.read), ToSet(F.l.write), F.type)
  <2> SUFFICES ASSUME NEW w \in ToSet(S.l.write), NEW d \in ToSet(F.l.read)
               PROVE  Tolerates(w, d, S.type)
    BY <1>3 DEF ReadersAgree
  <2>1. CASE d \in ToSet(S.l.read) BY <2>1, <1>1 DEF LockOK, ReadersAgree
  <2>2. CASE d \in ToSet(run)
    <3>1. ci => S.type[d] # TL_READ_NO_INSERT BY <1>2, <2>2 DEF Freed
    <3> QED BY <3>1 DEF Tolerates
  <2> QED BY <2>1, <2>2, <1>7
<1>18. Triple(F, l) BY <1>1, <1>3, <1>11, <1>14, <1>15, <1>16, <1>17 DEF Triple, LockOK
<1>19. Passed(S, F)
  <2>1. \A d \in Data \ Members(S.l) : F.cond[d] = S.cond[d]
    <3> SUFFICES ASSUME NEW d \in Data \ Members(S.l) PROVE F.cond[d] = S.cond[d] OBVIOUS
    <3>1. d \notin ToSet(run) BY <1>6 DEF Members
    <3>2. S.cond[d] \in BOOLEAN BY <1>1 DEF Triples
    <3> QED BY <3>1, <3>2, <1>12
  <2> QED BY <1>3, <1>6, <1>10, <2>1 DEF Passed
<1> QED BY <1>3, <1>18, <1>19 DEF F

-----------------------------------------------------------------------------
(* The grant of the first writers of the queue *)

Multi(S, i) == S.type[S.l.write_wait[i]] = TL_WRITE_ALLOW_WRITE

(* one writer is granted, or a run of multi-writers *)
LEMMA BatchIs ==
    ASSUME NEW S, NEW ww \in Seq(Data), S.l.write_wait = ww, ww # << >>
    PROVE  /\ Batch(S) \in 1 .. Len(ww)
           /\ \A i \in 1 .. Batch(S) - 1 : Multi(S, i) /\ Multi(S, i + 1)
<1> DEFINE T == {n \in 1 .. Len(ww) : n < Len(ww) => ~(Multi(S, n) /\ Multi(S, n + 1))}
           P(n) == /\ \A i \in 1 .. n - 1 : Multi(S, i) /\ Multi(S, i + 1)
                   /\ n < Len(ww) => ~(Multi(S, n) /\ Multi(S, n + 1))
<1>1. Len(ww) \in Nat /\ Len(ww) > 0 OBVIOUS
<1>2. Len(ww) \in T BY <1>1
<1>3. T \in SUBSET Nat BY <1>1
<1>4. PICK n \in T : \A y \in T : n <= y
  <2> HIDE DEF T
  <2> QED BY <1>2, <1>3, LeastNumber
<1>5. \A i \in 1 .. n - 1 : Multi(S, i) /\ Multi(S, i + 1)
  <2> SUFFICES ASSUME NEW i \in 1 .. n - 1 PROVE Multi(S, i) /\ Multi(S, i + 1) OBVIOUS
  <2>1. i \in 1 .. Len(ww) /\ i < Len(ww) /\ ~(n <= i) BY <1>1, <1>4
  <2>2. i \notin T BY <1>4, <2>1
  <2> HIDE DEF Multi
  <2> QED BY <2>1, <2>2
<1>6. \E m \in 1 .. Len(ww) : P(m) BY <1>4, <1>5
<1>7. Batch(S) = CHOOSE m \in 1 .. Len(ww) : P(m) BY Zenon DEF Batch, Multi
<1>8. Batch(S) \in 1 .. Len(ww) /\ P(Batch(S))
  <2> HIDE DEF P
  <2> QED BY <1>6, <1>7
<1> QED BY <1>8

(* G is S with the writers of the list run no longer waiting *)
Granting(S, t, G, run, rest) ==
    /\ G \in Triples
    /\ G.type = [S.type EXCEPT ![Head(S.l.write_wait)] = t]
    /\ G.l.read = S.l.read /\ G.l.write = S.l.write \o run
    /\ G.l.read_wait = S.l.read_wait /\ G.l.write_wait = rest
    /\ G.l.read_no_write_count = S.l.read_no_write_count
    /\ \A d \in Data : G.cond[d] = (S.cond[d] /\ d \notin ToSet(run))
    /\ Distinct(run) /\ Distinct(rest)
    /\ ToSet(run) \cap ToSet(rest) = {} /\ ToSet(run) \cup ToSet(rest) = ToSet(S.l.write_wait)
    /\ Head(S.l.write_wait) \in ToSet(run)
    /\ \/ \A d \in ToSet(run) : d = Head(S.l.write_wait)
       \/ \A d \in ToSet(run) : S.type[d] = TL_WRITE_ALLOW_WRITE

(* the loop of thr_unlock that grants write locks does so *)
LEMMA GrantWritesIs ==
    ASSUME NEW S \in Triples, NEW t \in LockType, S.l.write_wait # << >>, Distinct(S.l.write_wait)
    PROVE  \E run, rest \in Seq(Data) : Granting(S, t, GrantWrites(S, t), run, rest)
<1> DEFINE n == Batch(S)  ww == S.l.write_wait
           run == SubSeq(ww, 1, n)  rest == SubSeq(ww, n + 1, Len(ww))
           G == GrantWrites(S, t)
<1>1. ww \in Seq(Data) /\ S.l \in LockRecord /\ S.l.write \in Seq(Data) BY DEF Triples, LockRecord
<1>2. n \in 1 .. Len(ww) /\ \A i \in 1 .. n - 1 : Multi(S, i) /\ Multi(S, i + 1) BY <1>1, BatchIs
<1>3. G = [S EXCEPT
         !.l.write = @ \o run,
         !.l.write_wait = rest,
         !.type[Head(S.l.write_wait)] = t,
         !.cond = [d \in Data |-> @[d] /\ d \notin ToSet(run)]]
  BY Zenon DEF GrantWrites
<1> HIDE DEF n, G
<1>4. n \in 0 .. Len(ww) /\ n \in Nat /\ n >= 1 BY <1>1, <1>2
<1>5. /\ run \in Seq(Data) /\ rest \in Seq(Data) /\ Distinct(run) /\ Distinct(rest)
      /\ Len(run) = n /\ \A i \in 1 .. n : run[i] = ww[i]
      /\ ToSet(run) \cap ToSet(rest) = {} /\ ToSet(run) \cup ToSet(rest) = ToSet(ww)
  BY <1>1, <1>4, CutFacts
<1>6. DOMAIN run = 1 .. n BY <1>5
<1> HIDE DEF run, rest
<1>7. Head(ww) = ww[1] BY <1>1
<1>8. Head(ww) \in ToSet(run)
  <2>1. 1 \in DOMAIN run /\ run[1] = ww[1] BY <1>4, <1>5, <1>6
  <2> QED BY <2>1, <1>7 DEF ToSet
<1>9. \/ \A d \in ToSet(run) : d = Head(ww)
      \/ \A d \in ToSet(run) : S.type[d] = TL_WRITE_ALLOW_WRITE
  <2>1. CASE n = 1
    <3>1. ASSUME NEW d \in ToSet(run) PROVE d = Head(ww)
      <4>1. PICK i \in DOMAIN run : run[i] = d BY InList
      <4>2. i = 1 BY <1>6, <2>1
      <4> QED BY <4>1, <4>2, <1>5, <1>7, <2>1
    <3> QED BY <3>1
  <2>2. CASE n # 1
    <3>1. ASSUME NEW d \in ToSet(run) PROVE S.type[d] = TL_WRITE_ALLOW_WRITE
      <4>1. PICK i \in DOMAIN run : run[i] = d BY InList
      <4>2. i \in 1 .. n /\ ww[i] = d BY <1>5, <1>6, <4>1
      <4>3. CASE i < n
        <5>1. i \in 1 .. n - 1 BY <4>2, <4>3, <1>4
        <5> QED BY <5>1, <4>2, <1>2 DEF Multi
      <4>4. CASE ~(i < n)
        <5>1. i - 1 \in 1 .. n - 1 /\ (i - 1) + 1 = i BY <4>2, <4>4, <1>4, <2>2
        <5>2. Multi(S, i) BY <5>1, <1>2
        <5> QED BY <5>2, <4>2 DEF Multi
      <4> QED BY <4>3, <4>4
    <3> QED BY <3>1
  <2> QED BY <2>1, <2>2
<1>10. Head(ww) \in Data BY <1>1
<1>11. G.type = [S.type EXCEPT ![Head(S.l.write_wait)] = t] BY <1>3 DEF Triples
<1>12. G.cond = [d \in Data |-> S.cond[d] /\ d \notin ToSet(run)] BY <1>3 DEF Triples
<1>13. G.l = [read |-> S.l.read, write |-> S.l.write \o run, read_wait |-> S.l.read_wait,
             write_wait |-> rest, read_no_write_count |-> S.l.read_no_write_count,
             write_lock_count |-> S.l.write_lock_count]
  BY <1>3 DEF Triples, LockRecord
<1>14. G = [l |-> G.l, type |-> G.type, cond |-> G.cond] BY <1>3 DEF Triples
<1>15. G.l \in LockRecord
  <2>1. S.l.write \o run \in Seq(Data) BY <1>1, <1>5
  <2> QED BY <2>1, <1>1, <1>5, <1>13 DEF LockRecord
<1>16. G.type \in [Data -> LockType] BY <1>11, <1>10 DEF Triples
<1>17. G.cond \in [Data -> BOOLEAN] BY <1>12
<1>18. G \in Triples BY <1>14, <1>15, <1>16, <1>17 DEF Triples
<1>19. /\ G.l.read = S.l.read /\ G.l.write = S.l.write \o run
       /\ G.l.read_wait = S.l.read_wait /\ G.l.write_wait = rest
       /\ G.l.read_no_write_count = S.l.read_no_write_count
  BY <1>13
<1>20. \A d \in Data : G.cond[d] = (S.cond[d] /\ d \notin ToSet(run)) BY <1>12
<1>21. Granting(S, t, G, run, rest)
  BY <1>5, <1>8, <1>9, <1>11, <1>18, <1>19, <1>20 DEF Granting
<1> QED BY <1>5, <1>21, Zenon DEF G

(* The first writers of the queue may run when no writer is in use and     *)
(* they tolerate the readers in use.                                       *)
LEMMA GrantWritesOK ==
    ASSUME NEW S, NEW l, Triple(S, l), NEW t,
           S.l.write = << >>, S.l.write_wait # << >>,
           \/ t = S.type[Head(S.l.write_wait)]
           \/ S.type[Head(S.l.write_wait)] = TL_WRITE_CONCURRENT_INSERT /\ t = TL_WRITE,
           \A d \in ToSet(S.l.read) :
               /\ t <= TL_WRITE_DELAYED
               /\ t = TL_WRITE_CONCURRENT_INSERT => S.type[d] # TL_READ_NO_INSERT
    PROVE  LET G == GrantWrites(S, t) IN
           /\ Triple(G, l) /\ Passed(S, G)
           /\ G.l.read_wait = S.l.read_wait /\ \A w \in ToSet(G.l.write) : G.type[w] = t
<1> DEFINE G == GrantWrites(S, t)  h == Head(S.l.write_wait)
<1>1. S \in Triples /\ DelayedTypes(S.type) /\ LockOK(S.l, l, S.type, S.cond) BY DEF Triple
<1>2. Lists(S.l, l) /\ Roles(S.l, S.type, S.cond) BY <1>1 DEF LockOK
<1>3. /\ S.l.write_wait \in Seq(Data) /\ S.l \in LockRecord /\ Distinct(S.l.write_wait)
      /\ S.type \in [Data -> LockType] /\ S.cond \in [Data -> BOOLEAN]
  BY <1>1, <1>2 DEF Triples, LockRecord, Lists
<1>4. h \in Data /\ h \in ToSet(S.l.write_wait)
  <2>1. h = S.l.write_wait[1] /\ 1 \in DOMAIN S.l.write_wait BY <1>3
  <2> QED BY <2>1, <1>3 DEF ToSet
<1>5. S.type[h] \in TL_WRITE_ALLOW_WRITE .. TL_WRITE BY <1>2, <1>4 DEF Roles
<1>6. t \in TL_WRITE_ALLOW_WRITE .. TL_WRITE /\ t \in LockType BY <1>5
<1>7. PICK run, rest \in Seq(Data) : Granting(S, t, G, run, rest) BY <1>1, <1>3, <1>6, GrantWritesIs
<1> HIDE DEF G
<1>8. /\ G \in Triples /\ G.type = [S.type EXCEPT ![h] = t]
      /\ G.l.read = S.l.read /\ G.l.read_wait = S.l.read_wait /\ G.l.write_wait = rest
      /\ Distinct(run) /\ Distinct(rest) /\ h \in ToSet(run)
      /\ ToSet(run) \cap ToSet(rest) = {} /\ ToSet(run) \cup ToSet(rest) = ToSet(S.l.write_wait)
  BY <1>7 DEF Granting
<1>9. G.l.write = run
  <2>1. G.l.write = << >> \o run BY <1>7 DEF Granting
  <2> QED BY <2>1
<1> HIDE DEF h
<1>10. \A d \in Data : G.type[d] = IF d = h THEN t ELSE S.type[d] BY <1>3, <1>4, <1>8
<1>11. /\ ToSet(S.l.read) \subseteq Data /\ ToSet(S.l.write_wait) \subseteq Data
       /\ ToSet(S.l.read_wait) \subseteq Data
  BY <1>3, MembersAreData
<1>12. \A w \in ToSet(run) : G.type[w] = t
  <2>1. CASE \A d \in ToSet(run) : d = h BY <2>1, <1>4, <1>8, <1>10
  <2>2. CASE \A d \in ToSet(run) : S.type[d] = TL_WRITE_ALLOW_WRITE
    <3>1. S.type[h] = TL_WRITE_ALLOW_WRITE BY <2>2, <1>8
    <3>2. t = TL_WRITE_ALLOW_WRITE BY <3>1 DEF h
    <3> QED BY <2>2, <3>2, <1>8, <1>10, <1>11
  <2> QED BY <2>1, <2>2, <1>7 DEF Granting, h
<1>13. ToSet(S.l.write) = {} BY DEF ToSet
<1>14. Members(G.l) = Members(S.l) BY <1>8, <1>9, <1>13 DEF Members
<1>15. Lists(G.l, l)
  <2>1. \A d \in Members(G.l) : LockOf[d] = l BY <1>2, <1>14 DEF Lists
  <2>2. /\ ToSet(G.l.read) \cap ToSet(G.l.write) = {}
        /\ ToSet(G.l.read_wait) \cap ToSet(G.l.write_wait) = {}
        /\ ToSet(G.l.read) \cap ToSet(G.l.read_wait) = {}
        /\ ToSet(G.l.read) \cap ToSet(G.l.write_wait) = {}
        /\ ToSet(G.l.write) \cap ToSet(G.l.read_wait) = {}
        /\ ToSet(G.l.write) \cap ToSet(G.l.write_wait) = {}
    BY <1>2, <1>8, <1>9 DEF Lists
  <2>3. G.l \in LockRecord BY <1>8 DEF Triples
  <2>4. Distinct(G.l.read) /\ Distinct(G.l.write) /\ Distinct(G.l.read_wait) /\ Distinct(G.l.write_wait)
    BY <1>2, <1>8, <1>9 DEF Lists
  <2> QED BY <2>1, <2>2, <2>3, <2>4 DEF Lists
<1>16. h \notin ToSet(S.l.read) /\ h \notin ToSet(S.l.read_wait) /\ h \notin ToSet(rest)
  BY <1>2, <1>4, <1>8 DEF Lists
<1>17. \A d \in Data : G.cond[d] = (S.cond[d] /\ d \notin ToSet(run)) BY <1>7 DEF Granting
<1>18. Roles(G.l, G.type, G.cond)
  <2>1. \A d \in ToSet(G.l.read) : G.type[d] \in TL_READ .. TL_READ_NO_INSERT /\ ~G.cond[d]
    BY <1>2, <1>8, <1>10, <1>11, <1>16, <1>17 DEF Roles
  <2>2. \A d \in ToSet(G.l.read_wait) : G.type[d] \in TL_READ .. TL_READ_NO_INSERT /\ G.cond[d]
    <3> SUFFICES ASSUME NEW d \in ToSet(S.l.read_wait)
                 PROVE  G.type[d] \in TL_READ .. TL_READ_NO_INSERT /\ G.cond[d]
      BY <1>8
    <3>1. d \notin ToSet(run) BY <1>2, <1>8 DEF Lists
    <3>2. d \in Data /\ d # h BY <1>11, <1>16
    <3> QED BY <3>1, <3>2, <1>2, <1>10, <1>17 DEF Roles
  <2>3. \A d \in ToSet(G.l.write) : G.type[d] \in TL_WRITE_ALLOW_WRITE .. TL_WRITE_ONLY /\ ~G.cond[d]
    <3>1. \A d \in ToSet(run) : ~G.cond[d] BY <1>8, <1>11, <1>17
    <3> QED BY <3>1, <1>6, <1>9, <1>12
  <2>4. \A d \in ToSet(G.l.write_wait) : G.type[d] \in TL_WRITE_ALLOW_WRITE .. TL_WRITE /\ G.cond[d]
    <3> SUFFICES ASSUME NEW d \in ToSet(rest)
                 PROVE  G.type[d] \in TL_WRITE_ALLOW_WRITE .. TL_WRITE /\ G.cond[d]
      BY <1>8
    <3>1. d \notin ToSet(run) /\ d \in ToSet(S.l.write_wait) BY <1>8
    <3>2. d \in Data /\ d # h BY <3>1, <1>11, <1>16
    <3> QED BY <3>1, <3>2, <1>2, <1>10, <1>17 DEF Roles
  <2>5. \A d \in Members(G.l) : G.type[d] = TL_WRITE_CONCURRENT_INSERT => LockOf[d] \in CheckStatus
    <3> SUFFICES ASSUME NEW d \in Members(S.l), G.type[d] = TL_WRITE_CONCURRENT_INSERT
                 PROVE  LockOf[d] \in CheckStatus
      BY <1>14
    <3>1. d \in Data BY <1>11, <1>13 DEF Members
    <3>2. S.type[d] = TL_WRITE_CONCURRENT_INSERT BY <3>1, <1>10 DEF h
    <3> QED BY <3>2, <1>2 DEF Roles
  <2> QED BY <2>1, <2>2, <2>3, <2>4, <2>5 DEF Roles
<1>19. Counted(G.l, G.type)
  <2>1. {d \in ToSet(G.l.read) : G.type[d] = TL_READ_NO_INSERT}
          = {d \in ToSet(S.l.read) : S.type[d] = TL_READ_NO_INSERT}
    BY <1>8, <1>10, <1>11, <1>16
  <2>2. G.l.read_no_write_count = S.l.read_no_write_count BY <1>7 DEF Granting
  <2> QED BY <2>1, <2>2, <1>1 DEF Counted, LockOK
<1>20. Ordered(G.l.write, G.type)
  <2>1. \A i \in DOMAIN run : run[i] \in ToSet(run) BY DEF ToSet
  <2>2. AtLeast(t, t) BY <1>6 DEF AtLeast
  <2> QED BY <2>1, <2>2, <1>9, <1>12 DEF Ordered
<1>21. WritersAgree(ToSet(G.l.write), G.type)
  <2>1. CASE \A d \in ToSet(run) : d = h BY <2>1, <1>9 DEF WritersAgree
  <2>2. CASE \A d \in ToSet(run) : S.type[d] = TL_WRITE_ALLOW_WRITE
    <3>1. S.type[h] = TL_WRITE_ALLOW_WRITE BY <2>2, <1>8
    <3>2. t = TL_WRITE_ALLOW_WRITE BY <3>1 DEF h
    <3> QED BY <3>2, <1>9, <1>12 DEF WritersAgree
  <2> QED BY <2>1, <2>2, <1>7 DEF Granting, h
<1>22. ReadersAgree(ToSet(G.l.read), ToSet(G.l.write), G.type)
  <2> SUFFICES ASSUME NEW w \in ToSet(run), NEW d \in ToSet(S.l.read) PROVE Tolerates(w, d, G.type)
    BY <1>8, <1>9 DEF ReadersAgree
  <2>1. G.type[d] = S.type[d] BY <1>10, <1>11, <1>16
  <2> QED BY <2>1, <1>12 DEF Tolerates
<1>23. DelayedTypes(G.type)
  <2> SUFFICES ASSUME NEW d \in Data
               PROVE  /\ G.type[d] = TL_WRITE_DELAYED => OwnerOf[d] \in Delayed
                      /\ OwnerOf[d] \in Delayed =>
                           G.type[d] \in {TL_UNLOCK, TL_WRITE_DELAYED, TL_WRITE, TL_WRITE_ONLY}
    BY DEF DelayedTypes
  <2>1. CASE G.type[d] = S.type[d] BY <2>1, <1>1 DEF DelayedTypes
  <2>2. CASE G.type[d] # S.type[d]
    <3>1. d = h /\ G.type[d] = t BY <2>2, <1>10
    <3>2. S.type[h] = TL_WRITE_CONCURRENT_INSERT /\ t = TL_WRITE BY <2>2, <3>1 DEF h
    <3> QED BY <3>1, <3>2
  <2> QED BY <2>1, <2>2
<1>24. Triple(G, l)
  BY <1>8, <1>15, <1>18, <1>19, <1>20, <1>21, <1>22, <1>23 DEF Triple, LockOK
<1>25. Passed(S, G)
  <2>1. \A d \in Data \ Members(S.l) : G.cond[d] = S.cond[d]
    <3> SUFFICES ASSUME NEW d \in Data \ Members(S.l) PROVE G.cond[d] = S.cond[d] OBVIOUS
    <3>1. d \notin ToSet(run) BY <1>8 DEF Members
    <3>2. S.cond[d] \in BOOLEAN BY <1>3
    <3> QED BY <3>1, <3>2, <1>17
  <2>2. \A d \in Data : G.type[d] = S.type[d] \/ ( /\ d \in ToSet(S.l.write_wait)
                                                  /\ S.type[d] = TL_WRITE_CONCURRENT_INSERT
                                                  /\ G.type[d] = TL_WRITE )
    BY <1>4, <1>10 DEF h
  <2> QED BY <1>8, <1>14, <2>1, <2>2 DEF Passed
<1> QED BY <1>8, <1>9, <1>12, <1>24, <1>25 DEF G

-----------------------------------------------------------------------------
(* Who runs next: the functions of thr_unlock on the lock that was left *)

(* the count of the writers' turns is free *)
LEMMA RecountOK ==
    ASSUME NEW S, NEW l, Triple(S, l), NEW c \in 0 .. MaxWriteLockCount + 1
    PROVE  LET T == [S EXCEPT !.l.write_lock_count = c] IN
           /\ Triple(T, l) /\ Passed(S, T) /\ T.type = S.type
           /\ T.l.read = S.l.read /\ T.l.write = S.l.write
           /\ T.l.read_wait = S.l.read_wait /\ T.l.write_wait = S.l.write_wait
<1> DEFINE T == [S EXCEPT !.l.write_lock_count = c]
<1>1. S \in Triples /\ DelayedTypes(S.type) /\ LockOK(S.l, l, S.type, S.cond) BY DEF Triple
<1>2. S.l \in LockRecord BY <1>1 DEF Triples
<1>3. T.type = S.type /\ T.cond = S.cond /\ T.l = [S.l EXCEPT !.write_lock_count = c] BY <1>1 DEF Triples
<1>4. /\ T.l.read = S.l.read /\ T.l.write = S.l.write
      /\ T.l.read_wait = S.l.read_wait /\ T.l.write_wait = S.l.write_wait
      /\ T.l.read_no_write_count = S.l.read_no_write_count
  BY <1>2, <1>3 DEF LockRecord
<1>5. T.l \in LockRecord BY <1>2, <1>3, ZenonT(40) DEF LockRecord
<1>6. T \in Triples
  <2>1. T = [l |-> T.l, type |-> S.type, cond |-> S.cond] BY <1>1 DEF Triples
  <2> HIDE DEF T
  <2> QED BY <1>1, <1>5, <2>1 DEF Triples
<1> HIDE DEF T
<1>7. Members(T.l) = Members(S.l) BY <1>4 DEF Members
<1>8. Lists(T.l, l) BY <1>1, <1>4, <1>5, <1>7 DEF LockOK, Lists
<1>9. Roles(T.l, T.type, T.cond) BY <1>1, <1>3, <1>4, <1>7 DEF LockOK, Roles
<1>10. Triple(T, l) BY <1>1, <1>3, <1>4, <1>6, <1>8, <1>9 DEF Triple, LockOK, Counted
<1>11. Passed(S, T) BY <1>3, <1>4, <1>7 DEF Passed
<1> QED BY <1>3, <1>4, <1>10, <1>11 DEF T

(* a count of zero means that there is no no-insert reader *)
LEMMA NoneCounted ==
    ASSUME NEW L \in LockRecord, NEW ty, Counted(L, ty), L.read_no_write_count = 0,
           NEW d \in ToSet(L.read)
    PROVE  ty[d] # TL_READ_NO_INSERT
<1>1. L.read \in Seq(Data) BY DEF LockRecord
<1>2. IsFiniteSet(NoInsert(ToSet(L.read), ty)) BY <1>1, NoInsertFinite
<1>3. Cardinality(NoInsert(ToSet(L.read), ty)) = 0 BY DEF Counted, NoInsert
<1>4. NoInsert(ToSet(L.read), ty) = {} BY <1>2, <1>3, FS_EmptySet
<1> QED BY <1>4 DEF NoInsert

(* a granted batch of writers lets the readers that it tolerates join *)
LEMMA GrantAllOK ==
    ASSUME NEW S, NEW l, Triple(S, l), NEW t,
           S.l.write = << >>, S.l.write_wait # << >>,
           \/ t = S.type[Head(S.l.write_wait)]
           \/ S.type[Head(S.l.write_wait)] = TL_WRITE_CONCURRENT_INSERT /\ t = TL_WRITE,
           t <= TL_WRITE_DELAYED,
           \A d \in ToSet(S.l.read) :
               t = TL_WRITE_CONCURRENT_INSERT => S.type[d] # TL_READ_NO_INSERT
    PROVE  LET F == free_all_read_locks(GrantWrites(S, t), ConcurrentInsertOrMulti(t))
           IN Triple(F, l) /\ Passed(S, F)
<1> DEFINE G == GrantWrites(S, t)  ci == ConcurrentInsertOrMulti(t)
           F == free_all_read_locks(G, ci)
<1>1. Triple(G, l) /\ Passed(S, G) /\ \A w \in ToSet(G.l.write) : G.type[w] = t
  BY GrantWritesOK
<1>2. ci \in BOOLEAN /\ (t = TL_WRITE_CONCURRENT_INSERT => ci) BY DEF ConcurrentInsertOrMulti
<1> HIDE DEF G, ci
<1>3. Triple(F, l) /\ Passed(G, F) BY <1>1, <1>2, FreeReadsOK
<1> HIDE DEF F
<1>4. Passed(S, F) BY <1>1, <1>3, PassedOn
<1> QED BY <1>3, <1>4 DEF F, G, ci

(* nobody uses the lock *)
LEMMA NextWhenFreeOK ==
    ASSUME NEW S, NEW l, Triple(S, l), NEW full \in BOOLEAN,
           S.l.write = << >>, S.l.read = << >>
    PROVE  Triple(NextWhenFree(S, full), l) /\ Passed(S, NextWhenFree(S, full))
<1> DEFINE w  == Head(S.l.write_wait)
           t  == S.type[w]
           t2 == IF t = TL_WRITE_CONCURRENT_INSERT /\ full THEN TL_WRITE ELSE t
           tooMany == S.l.write_lock_count > MaxWriteLockCount
           readers == ~Empty(S.l.read_wait)
           writerFirst ==
            /\ ~Empty(S.l.write_wait)
            /\ \/ t # TL_WRITE_LOW_PRIORITY
               \/ ~readers
               \/ S.type[Head(S.l.read_wait)] < TL_READ_HIGH_PRIORITY
           S0 == [S EXCEPT !.l.write_lock_count = 0]
           S1 == [S EXCEPT !.l.write_lock_count = IF tooMany THEN 0 ELSE @ + 1]
           N == NextWhenFree(S, full)
           G == GrantWrites(S1, t2)
<1>1. N = IF ~writerFirst THEN free_all_read_locks(S, FALSE)
          ELSE IF tooMany /\ readers THEN free_all_read_locks(S0, FALSE)
          ELSE IF t2 >= TL_WRITE_LOW_PRIORITY THEN G
               ELSE free_all_read_locks(G, ConcurrentInsertOrMulti(t2))
  BY Zenon DEF NextWhenFree
<1>2. ToSet(<< >>) = {} BY DEF ToSet
<1>3. S.l.write_lock_count \in 0 .. MaxWriteLockCount + 1 /\ MaxWriteLockCount \in Nat
  BY ThrLockAssumption DEF Triple, Triples, LockRecord, ThrLockAssumption
<1> DEFINE c == IF tooMany THEN 0 ELSE S.l.write_lock_count + 1
<1>4. 0 \in 0 .. MaxWriteLockCount + 1 /\ c \in 0 .. MaxWriteLockCount + 1 BY <1>3
<1> DEFINE T1 == [S EXCEPT !.l.write_lock_count = c]
<1>5. S1 = T1 OBVIOUS
<1> HIDE DEF c
<1>6. /\ Triple(T1, l) /\ Passed(S, T1) /\ T1.type = S.type
      /\ T1.l.read = S.l.read /\ T1.l.write = S.l.write
      /\ T1.l.read_wait = S.l.read_wait /\ T1.l.write_wait = S.l.write_wait
  BY <1>4, RecountOK
<1>7. Triple(S0, l) /\ Passed(S, S0) /\ S0.l.write = S.l.write BY <1>4, RecountOK
<1> HIDE DEF N, S0, T1, S1, tooMany, readers, G
<1>8. CASE ~writerFirst
  <2>1. Triple(free_all_read_locks(S, FALSE), l) /\ Passed(S, free_all_read_locks(S, FALSE))
    BY <1>2, FreeReadsOK
  <2> HIDE DEF writerFirst
  <2> QED BY <2>1, <1>1, <1>8 DEF N
<1>9. CASE writerFirst /\ tooMany /\ readers
  <2>1. Triple(free_all_read_locks(S0, FALSE), l) /\ Passed(S0, free_all_read_locks(S0, FALSE))
    BY <1>2, <1>7, FreeReadsOK
  <2>2. Passed(S, free_all_read_locks(S0, FALSE)) BY <1>7, <2>1, PassedOn
  <2> HIDE DEF writerFirst
  <2> QED BY <2>1, <2>2, <1>1, <1>9 DEF N
<1>10. CASE writerFirst /\ ~(tooMany /\ readers)
  <2>1. T1.l.write_wait # << >> /\ T1.l.write = << >> /\ ToSet(T1.l.read) = {}
    BY <1>2, <1>6, <1>10 DEF Empty
  <2>2. \/ t2 = T1.type[Head(T1.l.write_wait)]
        \/ T1.type[Head(T1.l.write_wait)] = TL_WRITE_CONCURRENT_INSERT /\ t2 = TL_WRITE
    BY <1>6
  <2>3. t2 \in LockType
    <3>1. S.l.write_wait \in Seq(Data) /\ S.type \in [Data -> LockType] BY DEF Triple, Triples, LockRecord
    <3>2. w \in Data BY <3>1, <1>6, <2>1
    <3> QED BY <3>1, <3>2
  <2> HIDE DEF t2, t, w
  <2>4. CASE t2 >= TL_WRITE_LOW_PRIORITY
    <3>1. Triple(GrantWrites(T1, t2), l) /\ Passed(T1, GrantWrites(T1, t2))
      BY <1>6, <2>1, <2>2, GrantWritesOK
    <3>2. Passed(S, GrantWrites(T1, t2)) BY <1>6, <3>1, PassedOn
    <3>3. N = GrantWrites(T1, t2)
      <4> HIDE DEF writerFirst
      <4> QED BY <1>1, <1>5, <1>10, <2>4 DEF G
    <3> QED BY <3>1, <3>2, <3>3 DEF N
  <2>5. CASE ~(t2 >= TL_WRITE_LOW_PRIORITY)
    <3> DEFINE H == free_all_read_locks(GrantWrites(T1, t2), ConcurrentInsertOrMulti(t2))
    <3>1. t2 <= TL_WRITE_DELAYED BY <2>3, <2>5
    <3>2. Triple(H, l) /\ Passed(T1, H)
      BY <1>6, <2>1, <2>2, <3>1, GrantAllOK
    <3>3. Passed(S, H) BY <1>6, <3>2, PassedOn
    <3>4. N = H
      <4> HIDE DEF writerFirst
      <4> QED BY <1>1, <1>5, <1>10, <2>5 DEF G
    <3> QED BY <3>2, <3>3, <3>4 DEF N
  <2> QED BY <2>4, <2>5
<1> QED BY <1>8, <1>9, <1>10

(* a waiting concurrent insert becomes a plain write lock *)
LEMMA RetypeOK ==
    ASSUME NEW S, NEW l, Triple(S, l), S.l.write_wait # << >>,
           S.type[Head(S.l.write_wait)] = TL_WRITE_CONCURRENT_INSERT
    PROVE  LET T == [S EXCEPT !.type[Head(S.l.write_wait)] = TL_WRITE]
           IN Triple(T, l) /\ Passed(S, T) /\ T.l = S.l
<1> DEFINE h == Head(S.l.write_wait)
           T == [S EXCEPT !.type[h] = TL_WRITE]
<1>1. S \in Triples /\ DelayedTypes(S.type) /\ LockOK(S.l, l, S.type, S.cond) BY DEF Triple
<1>2. S.l \in LockRecord /\ S.l.write_wait \in Seq(Data) /\ S.type \in [Data -> LockType]
  BY <1>1 DEF Triples, LockRecord
<1>3. h \in Data /\ h \in ToSet(S.l.write_wait)
  <2>1. h = S.l.write_wait[1] /\ 1 \in DOMAIN S.l.write_wait BY <1>2
  <2> QED BY <2>1, <1>2 DEF ToSet
<1> HIDE DEF h
<1>4. T.l = S.l /\ T.cond = S.cond /\ T.type = [S.type EXCEPT ![h] = TL_WRITE] BY <1>1 DEF Triples
<1>5. T \in Triples
  <2>1. T = [l |-> S.l, type |-> [S.type EXCEPT ![h] = TL_WRITE], cond |-> S.cond] BY <1>1 DEF Triples
  <2>2. [S.type EXCEPT ![h] = TL_WRITE] \in [Data -> LockType] BY <1>2, <1>3
  <2> HIDE DEF T
  <2> QED BY <1>1, <2>1, <2>2 DEF Triples
<1> HIDE DEF T
<1>6. \A d \in Data : T.type[d] = IF d = h THEN TL_WRITE ELSE S.type[d] BY <1>2, <1>4
<1>7. /\ ToSet(S.l.read) \subseteq Data /\ ToSet(S.l.write_wait) \subseteq Data
      /\ ToSet(S.l.read_wait) \subseteq Data /\ ToSet(S.l.write) \subseteq Data
  BY <1>2, MembersAreData
<1>8. h \notin ToSet(S.l.read) /\ h \notin ToSet(S.l.read_wait) /\ h \notin ToSet(S.l.write)
  BY <1>1, <1>3 DEF LockOK, Lists
<1>9. Roles(S.l, S.type, S.cond) BY <1>1 DEF LockOK
<1>10. Roles(T.l, T.type, T.cond)
  <2>1. \A d \in ToSet(S.l.read) : T.type[d] \in TL_READ .. TL_READ_NO_INSERT /\ ~T.cond[d]
    BY <1>4, <1>6, <1>7, <1>8, <1>9 DEF Roles
  <2>2. \A d \in ToSet(S.l.read_wait) : T.type[d] \in TL_READ .. TL_READ_NO_INSERT /\ T.cond[d]
    BY <1>4, <1>6, <1>7, <1>8, <1>9 DEF Roles
  <2>3. \A d \in ToSet(S.l.write) : T.type[d] \in TL_WRITE_ALLOW_WRITE .. TL_WRITE_ONLY /\ ~T.cond[d]
    BY <1>4, <1>6, <1>7, <1>8, <1>9 DEF Roles
  <2>4. \A d \in ToSet(S.l.write_wait) : T.type[d] \in TL_WRITE_ALLOW_WRITE .. TL_WRITE /\ T.cond[d]
    BY <1>4, <1>6, <1>7, <1>9 DEF Roles
  <2>5. \A d \in Members(S.l) : T.type[d] = TL_WRITE_CONCURRENT_INSERT => LockOf[d] \in CheckStatus
    BY <1>6, <1>7, <1>9 DEF Roles, Members
  <2> QED BY <2>1, <2>2, <2>3, <2>4, <2>5, <1>4 DEF Roles
<1>11. Counted(T.l, T.type)
  <2>1. {d \in ToSet(S.l.read) : T.type[d] = TL_READ_NO_INSERT}
          = {d \in ToSet(S.l.read) : S.type[d] = TL_READ_NO_INSERT}
    BY <1>6, <1>7, <1>8
  <2> QED BY <2>1, <1>1, <1>4 DEF Counted, LockOK
<1>12. \A d \in ToSet(S.l.read) \cup ToSet(S.l.write) : T.type[d] = S.type[d] BY <1>6, <1>7, <1>8
<1>13. Ordered(T.l.write, T.type)
  <2>1. \A i \in DOMAIN S.l.write : T.type[S.l.write[i]] = S.type[S.l.write[i]] BY <1>12 DEF ToSet
  <2> QED BY <2>1, <1>1, <1>4 DEF LockOK, Ordered
<1>14. WritersAgree(ToSet(T.l.write), T.type) BY <1>1, <1>4, <1>12 DEF LockOK, WritersAgree
<1>15. ReadersAgree(ToSet(T.l.read), ToSet(T.l.write), T.type)
  BY <1>1, <1>4, <1>12 DEF LockOK, ReadersAgree, Tolerates
<1>16. DelayedTypes(T.type)
  <2>1. OwnerOf[h] \notin Delayed BY <1>1, <1>3 DEF DelayedTypes, h
  <2> QED BY <2>1, <1>1, <1>6 DEF DelayedTypes
<1>17. Triple(T, l)
  BY <1>1, <1>4, <1>5, <1>10, <1>11, <1>13, <1>14, <1>15, <1>16 DEF Triple, LockOK
<1>18. Passed(S, T) BY <1>3, <1>4, <1>6 DEF Passed, h
<1> QED BY <1>4, <1>17, <1>18 DEF T, h

(* only readers use the lock *)
LEMMA NextWhenReadLockedOK ==
    ASSUME NEW S, NEW l, Triple(S, l), NEW full \in BOOLEAN, S.l.write = << >>
    PROVE  Triple(NextWhenReadLocked(S, full), l) /\ Passed(S, NextWhenReadLocked(S, full))
<1> DEFINE t == S.type[Head(S.l.write_wait)]
           joins == /\ t <= TL_WRITE_DELAYED
                    /\ ~ConcurrentInsertOrMulti(t) \/ S.l.read_no_write_count = 0
           T == [S EXCEPT !.type[Head(S.l.write_wait)] = TL_WRITE]
           N == NextWhenReadLocked(S, full)
           H == free_all_read_locks(GrantWrites(S, t), ConcurrentInsertOrMulti(t))
<1>1. N = IF Empty(S.l.write_wait) THEN free_all_read_locks(S, FALSE)
          ELSE IF ~joins THEN S
          ELSE IF t = TL_WRITE_CONCURRENT_INSERT /\ full THEN free_all_read_locks(T, FALSE)
          ELSE H
  BY Zenon DEF NextWhenReadLocked
<1>2. ToSet(<< >>) = {} BY DEF ToSet
<1> HIDE DEF N, H, t, T
<1>3. CASE Empty(S.l.write_wait)
  <2>1. Triple(free_all_read_locks(S, FALSE), l) /\ Passed(S, free_all_read_locks(S, FALSE))
    BY <1>2, FreeReadsOK
  <2> QED BY <2>1, <1>1, <1>3 DEF N
<1>4. CASE ~Empty(S.l.write_wait) /\ ~joins
  <2>1. N = S
    <3> HIDE DEF joins
    <3> QED BY <1>1, <1>4
  <2> QED BY <2>1, PassedSelf DEF N
<1>5. CASE ~Empty(S.l.write_wait) /\ joins /\ t = TL_WRITE_CONCURRENT_INSERT /\ full
  <2>1. Triple(T, l) /\ Passed(S, T) /\ T.l = S.l BY <1>5, RetypeOK DEF Empty, t, T
  <2>2. Triple(free_all_read_locks(T, FALSE), l) /\ Passed(T, free_all_read_locks(T, FALSE))
    BY <1>2, <2>1, FreeReadsOK
  <2>3. Passed(S, free_all_read_locks(T, FALSE)) BY <2>1, <2>2, PassedOn
  <2>4. N = free_all_read_locks(T, FALSE)
    <3> HIDE DEF joins
    <3> QED BY <1>1, <1>5
  <2> QED BY <2>2, <2>3, <2>4 DEF N
<1>6. CASE ~Empty(S.l.write_wait) /\ joins /\ ~(t = TL_WRITE_CONCURRENT_INSERT /\ full)
  <2>1. \A d \in ToSet(S.l.read) : t = TL_WRITE_CONCURRENT_INSERT => S.type[d] # TL_READ_NO_INSERT
    <3> SUFFICES ASSUME NEW d \in ToSet(S.l.read), t = TL_WRITE_CONCURRENT_INSERT
                 PROVE  S.type[d] # TL_READ_NO_INSERT
      OBVIOUS
    <3>1. S.l.read_no_write_count = 0 BY <1>6 DEF ConcurrentInsertOrMulti
    <3>2. S.l \in LockRecord /\ Counted(S.l, S.type) BY DEF Triple, Triples, LockOK
    <3> QED BY <3>1, <3>2, NoneCounted
  <2>2. Triple(H, l) /\ Passed(S, H) BY <1>6, <2>1, GrantAllOK DEF Empty, H, t
  <2>3. N = H
    <3> HIDE DEF joins
    <3> QED BY <1>1, <1>6
  <2> QED BY <2>2, <2>3 DEF N
<1> QED BY <1>3, <1>4, <1>5, <1>6

-----------------------------------------------------------------------------
(* Leaving a lock *)

(* M is L without the data in D *)
Shrunk(L, M, D) ==
    /\ M \in LockRecord
    /\ Distinct(M.read) /\ Distinct(M.write) /\ Distinct(M.read_wait) /\ Distinct(M.write_wait)
    /\ ToSet(M.read) = ToSet(L.read) \ D /\ ToSet(M.write) = ToSet(L.write) \ D
    /\ ToSet(M.read_wait) = ToSet(L.read_wait) \ D
    /\ ToSet(M.write_wait) = ToSet(L.write_wait) \ D

(* those who stay are as compatible as before, whatever happens to others *)
LEMMA ShrinkOK ==
    ASSUME NEW L, NEW l, NEW ty, NEW cd, LockOK(L, l, ty, cd),
           NEW M, NEW D, Shrunk(L, M, D), NEW ty2, NEW cd2,
           \A d \in Members(L) \ D : ty2[d] = ty[d] /\ cd2[d] = cd[d],
           Ordered(M.write, ty), Counted(M, ty)
    PROVE  LockOK(M, l, ty2, cd2) /\ Members(M) = Members(L) \ D
<1>1. Members(M) = Members(L) \ D BY DEF Members, Shrunk
<1>2. Lists(L, l) /\ Roles(L, ty, cd) BY DEF LockOK
<1>3. Lists(M, l)
  <2>1. \A d \in Members(M) : LockOf[d] = l BY <1>1, <1>2 DEF Lists
  <2>2. /\ ToSet(M.read) \cap ToSet(M.write) = {} /\ ToSet(M.read_wait) \cap ToSet(M.write_wait) = {}
        /\ ToSet(M.read) \cap ToSet(M.read_wait) = {} /\ ToSet(M.read) \cap ToSet(M.write_wait) = {}
        /\ ToSet(M.write) \cap ToSet(M.read_wait) = {} /\ ToSet(M.write) \cap ToSet(M.write_wait) = {}
    BY <1>2 DEF Lists, Shrunk
  <2> QED BY <2>1, <2>2 DEF Lists, Shrunk
<1>4. /\ \A d \in ToSet(M.read) : d \in ToSet(L.read) /\ d \in Members(L) \ D
      /\ \A d \in ToSet(M.write) : d \in ToSet(L.write) /\ d \in Members(L) \ D
      /\ \A d \in ToSet(M.read_wait) : d \in ToSet(L.read_wait) /\ d \in Members(L) \ D
      /\ \A d \in ToSet(M.write_wait) : d \in ToSet(L.write_wait) /\ d \in Members(L) \ D
  BY DEF Members, Shrunk
<1>5. Roles(M, ty2, cd2)
  <2>1. \A d \in ToSet(M.read) : ty2[d] \in TL_READ .. TL_READ_NO_INSERT /\ ~cd2[d]
    BY <1>2, <1>4 DEF Roles
  <2>2. \A d \in ToSet(M.read_wait) : ty2[d] \in TL_READ .. TL_READ_NO_INSERT /\ cd2[d]
    BY <1>2, <1>4 DEF Roles
  <2>3. \A d \in ToSet(M.write) : ty2[d] \in TL_WRITE_ALLOW_WRITE .. TL_WRITE_ONLY /\ ~cd2[d]
    BY <1>2, <1>4 DEF Roles
  <2>4. \A d \in ToSet(M.write_wait) : ty2[d] \in TL_WRITE_ALLOW_WRITE .. TL_WRITE /\ cd2[d]
    BY <1>2, <1>4 DEF Roles
  <2>5. \A d \in Members(M) : ty2[d] = TL_WRITE_CONCURRENT_INSERT => LockOf[d] \in CheckStatus
    BY <1>1, <1>2 DEF Roles
  <2> QED BY <2>1, <2>2, <2>3, <2>4, <2>5 DEF Roles
<1>6. Counted(M, ty2)
  <2>1. {d \in ToSet(M.read) : ty2[d] = TL_READ_NO_INSERT}
          = {d \in ToSet(M.read) : ty[d] = TL_READ_NO_INSERT}
    BY <1>4
  <2> QED BY <2>1 DEF Counted
<1>7. Ordered(M.write, ty2)
  <2>1. \A i \in DOMAIN M.write : ty2[M.write[i]] = ty[M.write[i]] BY <1>4 DEF ToSet
  <2> QED BY <2>1 DEF Ordered
<1>8. WritersAgree(ToSet(M.write), ty2) BY <1>4 DEF LockOK, WritersAgree
<1>9. ReadersAgree(ToSet(M.read), ToSet(M.write), ty2)
  <2> SUFFICES ASSUME NEW w \in ToSet(M.write), NEW d \in ToSet(M.read) PROVE Tolerates(w, d, ty2)
    BY DEF ReadersAgree
  <2>1. Tolerates(w, d, ty) BY <1>4 DEF LockOK, ReadersAgree
  <2>2. ty2[w] = ty[w] /\ ty2[d] = ty[d] BY <1>4
  <2> QED BY <2>1, <2>2 DEF Tolerates
<1> QED BY <1>1, <1>3, <1>5, <1>6, <1>7, <1>8, <1>9 DEF LockOK

(* a lock looks at the types and flags of its own data only *)
LEMMA FrameOK ==
    ASSUME NEW L, NEW l, NEW ty, NEW cd, LockOK(L, l, ty, cd), NEW ty2, NEW cd2,
           \A d \in Members(L) : ty2[d] = ty[d] /\ cd2[d] = cd[d]
    PROVE  LockOK(L, l, ty2, cd2)
<1>1. Shrunk(L, L, {}) BY DEF Shrunk, LockOK, Lists
<1>2. Ordered(L.write, ty) /\ Counted(L, ty) BY DEF LockOK
<1>3. \A d \in Members(L) \ {} : ty2[d] = ty[d] /\ cd2[d] = cd[d] OBVIOUS
<1> QED BY <1>1, <1>2, <1>3, ShrinkOK

(* the members of the lock keep their type and their flag *)
Framed(L, l, ty, cd, ty2, cd2) ==
    LockOK(L, l, ty, cd) /\ \A d \in Members(L) : ty2[d] = ty[d] /\ cd2[d] = cd[d]

(* what happens to the data of other locks does not matter, in one fact *)
LEMMA FramedOK ==
    ASSUME NEW L, NEW l, NEW ty, NEW cd, NEW ty2, NEW cd2, Framed(L, l, ty, cd, ty2, cd2)
    PROVE  LockOK(L, l, ty2, cd2)
BY FrameOK DEF Framed

(* Unlink takes the data from whichever list it is on *)
LEMMA UnlinkIs ==
    ASSUME NEW L, NEW l, Lists(L, l), NEW d
    PROVE  /\ Shrunk(L, Unlink(L, d), {d})
           /\ Unlink(L, d).write = Without(L.write, {d})
           /\ Unlink(L, d).read_no_write_count = L.read_no_write_count
           /\ Unlink(L, d).read = Without(L.read, {d})
           /\ Unlink(L, d) = [read |-> Without(L.read, {d}), write |-> Without(L.write, {d}),
                              read_wait |-> Without(L.read_wait, {d}),
                              write_wait |-> Without(L.write_wait, {d}),
                              read_no_write_count |-> L.read_no_write_count,
                              write_lock_count |-> L.write_lock_count]
<1> DEFINE U == Unlink(L, d)
<1>1. /\ L \in LockRecord /\ L.read \in Seq(Data) /\ L.write \in Seq(Data)
      /\ L.read_wait \in Seq(Data) /\ L.write_wait \in Seq(Data)
  BY DEF Lists, LockRecord
<1>2. U = [L EXCEPT !.read = Without(L.read, {d}), !.write = Without(L.write, {d}),
                    !.read_wait = Without(L.read_wait, {d}),
                    !.write_wait = Without(L.write_wait, {d})]
  BY DEF Unlink
<1>3. U = [read |-> Without(L.read, {d}), write |-> Without(L.write, {d}),
           read_wait |-> Without(L.read_wait, {d}), write_wait |-> Without(L.write_wait, {d}),
           read_no_write_count |-> L.read_no_write_count, write_lock_count |-> L.write_lock_count]
  BY <1>1, <1>2 DEF LockRecord
<1>4. /\ Without(L.read, {d}) \in Seq(Data) /\ ToSet(Without(L.read, {d})) = ToSet(L.read) \ {d}
      /\ Distinct(Without(L.read, {d}))
  BY <1>1, WithoutFacts, WithoutDistinct DEF Lists
<1>5. /\ Without(L.write, {d}) \in Seq(Data) /\ ToSet(Without(L.write, {d})) = ToSet(L.write) \ {d}
      /\ Distinct(Without(L.write, {d}))
  BY <1>1, WithoutFacts, WithoutDistinct DEF Lists
<1>6. /\ Without(L.read_wait, {d}) \in Seq(Data)
      /\ ToSet(Without(L.read_wait, {d})) = ToSet(L.read_wait) \ {d}
      /\ Distinct(Without(L.read_wait, {d}))
  BY <1>1, WithoutFacts, WithoutDistinct DEF Lists
<1>7. /\ Without(L.write_wait, {d}) \in Seq(Data)
      /\ ToSet(Without(L.write_wait, {d})) = ToSet(L.write_wait) \ {d}
      /\ Distinct(Without(L.write_wait, {d}))
  BY <1>1, WithoutFacts, WithoutDistinct DEF Lists
<1> HIDE DEF U
<1>8. U \in LockRecord BY <1>1, <1>3, <1>4, <1>5, <1>6, <1>7 DEF LockRecord
<1>9. /\ U.read = Without(L.read, {d}) /\ U.write = Without(L.write, {d})
      /\ U.read_wait = Without(L.read_wait, {d}) /\ U.write_wait = Without(L.write_wait, {d})
      /\ U.read_no_write_count = L.read_no_write_count
  BY <1>3
<1>10. Shrunk(L, U, {d}) BY <1>4, <1>5, <1>6, <1>7, <1>8, <1>9 DEF Shrunk
<1> QED BY <1>3, <1>9, <1>10 DEF U

(* what thr_unlock of d leaves, before it looks who runs next *)
LEMMA LeaveOK ==
    ASSUME NEW L, NEW l, NEW ty \in [Data -> LockType], NEW cd \in [Data -> BOOLEAN],
           DelayedTypes(ty), LockOK(L, l, ty, cd), NEW d \in Data,
           ty[d] = TL_READ_NO_INSERT <=> d \in NoInsert(ToSet(L.read), ty),
           NEW M, M = [read |-> Without(L.read, {d}), write |-> Without(L.write, {d}),
                       read_wait |-> Without(L.read_wait, {d}),
                       write_wait |-> Without(L.write_wait, {d}),
                       read_no_write_count |-> L.read_no_write_count
                                                 - (IF ty[d] = TL_READ_NO_INSERT THEN 1 ELSE 0),
                       write_lock_count |-> L.write_lock_count]
    PROVE  /\ Triple([l |-> M, type |-> [ty EXCEPT ![d] = TL_UNLOCK], cond |-> cd], l)
           /\ Shrunk(L, M, {d})
<1> DEFINE k == IF ty[d] = TL_READ_NO_INSERT THEN 1 ELSE 0
           c == L.read_no_write_count - k
           U == Unlink(L, d)
           ty2 == [ty EXCEPT ![d] = TL_UNLOCK]
           S == [l |-> M, type |-> ty2, cond |-> cd]
<1>1. Lists(L, l) /\ L \in LockRecord /\ L.read \in Seq(Data) /\ L.write \in Seq(Data)
  BY DEF LockOK, Lists, LockRecord
<1> DEFINE A == NoInsert(ToSet(L.read), ty)
<1>2. IsFiniteSet(A) /\ Cardinality(A) \in Nat BY <1>1, NoInsertFinite
<1>3. L.read_no_write_count = Cardinality(A) BY DEF LockOK, Counted, NoInsert
<1>4. NoInsert(ToSet(L.read) \ {d}, ty) = A \ {d} BY DEF NoInsert
<1>5. (ty[d] = TL_READ_NO_INSERT) <=> d \in A OBVIOUS
<1> HIDE DEF A
<1>6. /\ IsFiniteSet(A \ {d})
      /\ Cardinality(A \ {d}) = IF d \in A THEN Cardinality(A) - 1 ELSE Cardinality(A)
  BY <1>2, FS_RemoveElement
<1>7. Cardinality(A \ {d}) \in Nat BY <1>6, FS_CardinalityType
<1>8. c = Cardinality(A \ {d}) BY <1>2, <1>3, <1>5, <1>6
<1>9. c \in Nat /\ M.read_no_write_count = c BY <1>7, <1>8
<1> HIDE DEF c
<1>10. /\ Shrunk(L, U, {d}) /\ U \in LockRecord /\ U.read = M.read /\ U.write = M.write
       /\ U.read_wait = M.read_wait /\ U.write_wait = M.write_wait
  <2>1. Shrunk(L, U, {d}) BY <1>1, UnlinkIs
  <2>2. U = [read |-> Without(L.read, {d}), write |-> Without(L.write, {d}),
             read_wait |-> Without(L.read_wait, {d}), write_wait |-> Without(L.write_wait, {d}),
             read_no_write_count |-> L.read_no_write_count, write_lock_count |-> L.write_lock_count]
    BY <1>1, UnlinkIs
  <2> HIDE DEF U
  <2> QED BY <2>1, <2>2 DEF Shrunk
<1> HIDE DEF U
<1>11. M \in LockRecord BY <1>1, <1>9, <1>10 DEF LockRecord
<1>12. M.write = Without(L.write, {d}) OBVIOUS
<1>13. Shrunk(L, M, {d})
  <2> HIDE DEF LockRecord
  <2> QED BY <1>10, <1>11 DEF Shrunk
<1>14. Ordered(M.write, ty)
  <2>1. Ordered(L.write, ty) BY DEF LockOK
  <2> QED BY <2>1, <1>1, <1>12, OrderedWithout
<1>15. Counted(M, ty) BY <1>4, <1>8, <1>9, <1>13 DEF Counted, NoInsert, Shrunk
<1>16. \A e \in Members(L) \ {d} : ty2[e] = ty[e] /\ cd[e] = cd[e]
  <2>1. Members(L) \subseteq Data BY <1>1, MembersAreData DEF Members
  <2> QED BY <2>1
<1>17. ty2 \in [Data -> LockType] /\ DelayedTypes(ty2) BY DEF DelayedTypes
<1> HIDE DEF ty2
<1>18. LockOK(M, l, ty2, cd) BY <1>13, <1>14, <1>15, <1>16, ShrinkOK
<1>19. S \in Triples /\ S.l = M /\ S.type = ty2 /\ S.cond = cd BY <1>11, <1>17 DEF Triples
<1>20. Triple(S, l) BY <1>17, <1>18, <1>19 DEF Triple
<1> QED BY <1>13, <1>20 DEF ty2

(* T is the lock of d, the types and the flags after d was unlocked *)
Left(d, T) ==
    LET L == lock[LockOf[d]] IN
    /\ Members(T.l) = Members(L) \ {d}
    /\ ToSet(T.l.read_wait) \subseteq ToSet(L.read_wait) \ {d}
    /\ ToSet(T.l.write_wait) \subseteq ToSet(L.write_wait) \ {d}
    /\ T.type[d] = TL_UNLOCK
    /\ \A e \in Data \ {d} : T.type[e] = type[e] \/ ( /\ e \in ToSet(L.write_wait)
                                                     /\ type[e] = TL_WRITE_CONCURRENT_INSERT
                                                     /\ T.type[e] = TL_WRITE )
    /\ \A e \in Data \ Members(L) : T.cond[e] = cond[e]

(* Whoever thr_unlock lets run, all holders are compatible, nobody else    *)
(* has left the lock, and the count is exact.                              *)
LEMMA UnlockOK ==
    ASSUME type \in [Data -> LockType], cond \in [Data -> BOOLEAN], DelayedTypes(type),
           NEW d \in Data, LockOK(lock[LockOf[d]], LockOf[d], type, cond),
           type[d] = TL_READ_NO_INSERT => d \in ToSet(lock[LockOf[d]].read),
           NEW full \in BOOLEAN
    PROVE  Triple(thr_unlock(d, full), LockOf[d]) /\ Left(d, thr_unlock(d, full))
<1> DEFINE l == LockOf[d]  L == lock[l]  U == Unlink(L, d)
           M == [U EXCEPT !.read_no_write_count =
                        @ - (IF type[d] = TL_READ_NO_INSERT THEN 1 ELSE 0)]
           ty2 == [type EXCEPT ![d] = TL_UNLOCK]
           S == [l |-> M, type |-> ty2, cond |-> cond]
           T == thr_unlock(d, full)
<1>1. T = CASE ~Empty(U.write) -> S
            [] Empty(U.write) /\ Empty(U.read) -> NextWhenFree(S, full)
            [] OTHER -> NextWhenReadLocked(S, full)
  BY Zenon DEF thr_unlock
<1>2. type[d] = TL_READ_NO_INSERT <=> d \in NoInsert(ToSet(L.read), type) BY DEF NoInsert
<1>3. Triple(S, l) /\ Shrunk(L, M, {d}) /\ M.read = U.read /\ M.write = U.write
  <2> DEFINE R == [read |-> Without(L.read, {d}), write |-> Without(L.write, {d}),
                   read_wait |-> Without(L.read_wait, {d}),
                   write_wait |-> Without(L.write_wait, {d}),
                   read_no_write_count |-> L.read_no_write_count
                                             - (IF type[d] = TL_READ_NO_INSERT THEN 1 ELSE 0),
                   write_lock_count |-> L.write_lock_count]
  <2> HIDE DEF L, l
  <2>1. LockOK(L, l, type, cond) /\ Lists(L, l) BY DEF L, l, LockOK
  <2>2. M = R /\ R.read = U.read /\ R.write = U.write BY <2>1, UnlinkIs
  <2>3. Triple([l |-> R, type |-> ty2, cond |-> cond], l) /\ Shrunk(L, R, {d})
    BY <1>2, <2>1, LeaveOK
  <2> QED BY <2>2, <2>3, Zenon
<1> HIDE DEF U, M, T, ty2, l, L
<1>4. S.l = M /\ S.type = ty2 /\ S.cond = cond OBVIOUS
<1> HIDE DEF S
<1>5. Triple(T, l) /\ Passed(S, T)
  <2>1. CASE ~Empty(U.write)
    <3>1. T = S BY <1>1, <2>1
    <3> QED BY <3>1, <1>3, PassedSelf
  <2>2. CASE Empty(U.write) /\ Empty(U.read)
    <3>1. T = NextWhenFree(S, full) BY <1>1, <2>2
    <3>2. S.l.write = << >> /\ S.l.read = << >> BY <1>3, <1>4, <2>2 DEF Empty
    <3> QED BY <3>1, <3>2, <1>3, NextWhenFreeOK
  <2>3. CASE Empty(U.write) /\ ~Empty(U.read)
    <3>1. T = NextWhenReadLocked(S, full) BY <1>1, <2>3
    <3>2. S.l.write = << >> BY <1>3, <1>4, <2>3 DEF Empty
    <3> QED BY <3>1, <3>2, <1>3, NextWhenReadLockedOK
  <2> QED BY <2>1, <2>2, <2>3
<1>6. Members(M) = Members(L) \ {d} BY <1>3 DEF Shrunk, Members
<1>7. Members(T.l) = Members(L) \ {d} BY <1>4, <1>5, <1>6 DEF Passed
<1>8. /\ ToSet(T.l.read_wait) \subseteq ToSet(L.read_wait) \ {d}
      /\ ToSet(T.l.write_wait) \subseteq ToSet(L.write_wait) \ {d}
  BY <1>3, <1>4, <1>5 DEF Passed, Shrunk
<1>9. \A e \in Data : ty2[e] = IF e = d THEN TL_UNLOCK ELSE type[e] BY DEF ty2
<1>10. \A e \in Data : T.type[e] = ty2[e] \/ ( /\ e \in ToSet(L.write_wait)
                                             /\ ty2[e] = TL_WRITE_CONCURRENT_INSERT
                                             /\ T.type[e] = TL_WRITE )
  BY <1>3, <1>4, <1>5 DEF Passed, Shrunk
<1>11. T.type[d] = TL_UNLOCK BY <1>9, <1>10
<1>12. \A e \in Data \ {d} : T.type[e] = type[e] \/ ( /\ e \in ToSet(L.write_wait)
                                                     /\ type[e] = TL_WRITE_CONCURRENT_INSERT
                                                     /\ T.type[e] = TL_WRITE )
  BY <1>9, <1>10
<1>13. \A e \in Data \ Members(L) : T.cond[e] = cond[e] BY <1>4, <1>5, <1>6 DEF Passed
<1>14. Left(d, T) BY <1>7, <1>8, <1>11, <1>12, <1>13 DEF Left, L, l
<1> QED BY <1>5, <1>14 DEF T, l

-----------------------------------------------------------------------------
(* What the invariant says of one data *)

(* the list of a data shows in its type and its flag *)
LEMMA DataFacts ==
    ASSUME ThrInv, NEW d \in Data
    PROVE  /\ LockOf[d] \in Lock /\ OwnerOf[d] \in Owner
           /\ Linked(d) => type[d] # TL_UNLOCK
           /\ Queued(d) => Linked(d) /\ cond[d] /\ type[d] \in TL_READ .. TL_WRITE
           /\ Linked(d) /\ cond[d] => Queued(d)
<1>1. LockOf[d] \in Lock /\ OwnerOf[d] \in Owner BY ThrLockAssumption DEF ThrLockAssumption
<1>2. Roles(lock[LockOf[d]], type, cond) BY <1>1 DEF ThrInv, LockOK
<1>3. /\ Linked(d) => type[d] # TL_UNLOCK
      /\ Linked(d) /\ cond[d] => Queued(d)
  BY <1>2 DEF Linked, Queued, Waiting, Members, Roles
<1>4. Queued(d) => Linked(d) /\ cond[d] /\ type[d] \in TL_READ .. TL_WRITE
  BY <1>2 DEF Linked, Queued, Waiting, Members, Roles
<1> QED BY <1>1, <1>3, <1>4

(* a delayed handler has one data *)
LEMMA OneData ==
    ASSUME NEW d \in Data, NEW e \in Data, OwnerOf[d] = OwnerOf[e], OwnerOf[d] \in Delayed
    PROVE  d = e
BY DelayedAssumption DEF DelayedAssumption

(* the elements of an owner's array *)
LEMMA ArrayFacts ==
    ASSUME ThrInv, NEW o \in Owner
    PROVE  /\ locks[o] \in Seq(Data) /\ pos[o] \in Nat /\ pos[o] >= 1
           /\ DOMAIN locks[o] = 1 .. Len(locks[o]) /\ Len(locks[o]) \in Nat
           /\ \A i \in DOMAIN locks[o] : locks[o][i] \in Data /\ OwnerOf[locks[o][i]] = o
           /\ \A i, j \in DOMAIN locks[o] : locks[o][i] = locks[o][j] => i = j
<1>1. locks[o] \in Seq(Data) /\ pos[o] \in Nat \ {0} BY DEF ThrInv, Typed
<1>2. Array(o) BY DEF ThrInv, OwnerInv
<1> QED BY <1>1, <1>2 DEF Array, Distinct

-----------------------------------------------------------------------------
(* An owner that the step is not about *)

(* its data may be granted, with a stronger type than it asked for *)
Kept(e) ==
    /\ type'[e] = type[e] \/ (Queued(e) /\ type[e] = TL_WRITE_CONCURRENT_INSERT /\ type'[e] = TL_WRITE)
    /\ Linked(e)' <=> Linked(e)
    /\ Queued(e)' => Queued(e)
    /\ cond'[e] => cond[e]

(* or thrown out of the queue *)
Aborted(e) ==
    Queued(e) /\ type'[e] = TL_UNLOCK /\ ~Linked(e)' /\ ~Queued(e)' /\ ~cond'[e]

(* or marked as a lock on a table that goes away *)
Marked(e) ==
    /\ type[e] # TL_UNLOCK /\ type'[e] = TL_WRITE_ONLY /\ Linked(e)
    /\ Linked(e)' /\ ~Queued(e)' /\ pc[OwnerOf[e]] = "locked"

(* none of that harms its owner *)
LEMMA OtherOwner ==
    ASSUME ThrInv, NEW p \in Owner,
           pc'[p] = pc[p], locks'[p] = locks[p], pos'[p] = pos[p],
           \A e \in Data : OwnerOf[e] = p => Kept(e) \/ Aborted(e) \/ Marked(e)
    PROVE  OwnerInv(p)'
<1>1. /\ Array(p) /\ Placed(p) /\ QueuedLast(p) /\ Sorted(p) /\ Asleep(p)
      /\ type \in [Data -> LockType] /\ cond \in [Data -> BOOLEAN]
  BY DEF ThrInv, OwnerInv, Typed
<1>2. /\ \A i \in DOMAIN locks[p] : locks[p][i] \in Data /\ OwnerOf[locks[p][i]] = p
      /\ \A i, j \in DOMAIN locks[p] : locks[p][i] = locks[p][j] => i = j
      /\ pos[p] \in Nat /\ DOMAIN locks[p] \in SUBSET Nat
  BY ArrayFacts
<1>3. Array(p)' BY <1>1 DEF Array
<1>4. \A i : Called(p, i)' <=> Called(p, i) BY DEF Called
<1>5. \A i : Untried(p, i)' <=> Untried(p, i) BY DEF Untried
<1>6. Placed(p)'
  <2>1. ASSUME NEW d \in Data, OwnerOf[d] = p, Linked(d)'
        PROVE  \E i \in DOMAIN locks'[p] : locks'[p][i] = d /\ Called(p, i)'
    <3>1. Linked(d) BY <2>1 DEF Kept, Aborted, Marked
    <3> QED BY <3>1, <2>1, <1>1, <1>4 DEF Placed
  <2>2. ASSUME NEW i \in DOMAIN locks[p], Called(p, i), NEW e \in Data, e = locks[p][i],
               type'[e] # TL_UNLOCK
        PROVE  Linked(e)'
    <3>1. OwnerOf[e] = p BY <1>2, <2>2
    <3>2. CASE Kept(e)
      <4>1. type[e] # TL_UNLOCK BY <3>2, <2>2 DEF Kept
      <4>2. Linked(e) BY <4>1, <2>2, <1>1 DEF Placed
      <4> QED BY <4>2, <3>2 DEF Kept
    <3>3. CASE Aborted(e) BY <3>3, <2>2 DEF Aborted
    <3>4. CASE Marked(e) BY <3>4 DEF Marked
    <3> QED BY <3>1, <3>2, <3>3, <3>4
  <2>3. ASSUME NEW d \in Data, OwnerOf[d] = p, type'[d] = TL_WRITE_ONLY
        PROVE  Linked(d)'
    <3>1. CASE Kept(d)
      <4>1. type[d] = TL_WRITE_ONLY BY <3>1, <2>3 DEF Kept
      <4> QED BY <4>1, <3>1, <2>3, <1>1 DEF Kept, Placed
    <3>2. CASE Aborted(d) BY <3>2, <2>3 DEF Aborted
    <3>3. CASE Marked(d) BY <3>3 DEF Marked
    <3> QED BY <2>3, <3>1, <3>2, <3>3
  <2>4. ASSUME NEW i \in DOMAIN locks'[p], Called(p, i)', type'[locks'[p][i]] # TL_UNLOCK
        PROVE  locks'[p][i] \in Members(lock'[LockOf[locks'[p][i]]])
    <3>1. PICK e \in Data : e = locks[p][i] BY <1>2, <2>4
    <3>2. Linked(e)' BY <3>1, <2>2, <2>4, <1>4
    <3> QED BY <3>1, <3>2 DEF Linked
  <2>5. (\A i \in DOMAIN locks[p] :
         Called(p, i) /\ type[locks[p][i]] # TL_UNLOCK => Linked(locks[p][i]))'
    BY <2>4 DEF Linked
  <2> QED BY <2>1, <2>3, <2>5 DEF Placed
<1>7. QueuedLast(p)'
  <2> SUFFICES ASSUME NEW d \in Data, OwnerOf[d] = p, Queued(d)'
               PROVE  \/ pc'[p] = "waiting" /\ locks'[p][pos'[p]] = d
                      \/ p \in Delayed /\ (type'[d] = TL_WRITE_DELAYED \/ pc'[p] = "upgrading")
    BY DEF QueuedLast, Cur
  <2>1. Kept(d) BY DEF Aborted, Marked
  <2>2. Queued(d) BY <2>1 DEF Kept
  <2>3. \/ pc[p] = "waiting" /\ locks[p][pos[p]] = d
        \/ p \in Delayed /\ (type[d] = TL_WRITE_DELAYED \/ pc[p] = "upgrading")
    BY <2>2, <1>1 DEF QueuedLast, Cur
  <2> QED BY <2>1, <2>3 DEF Kept
<1>8. Sorted(p)'
  <2> SUFFICES ASSUME NEW j \in DOMAIN locks[p], Untried(p, j)
               PROVE  /\ type'[locks[p][j]] \in TL_READ .. TL_WRITE
                      /\ \A i \in DOMAIN locks[p] :
                           i < j /\ LockOf[locks[p][i]] = LockOf[locks[p][j]] =>
                             \/ type'[locks[p][i]] = TL_UNLOCK
                             \/ AtLeast(type'[locks[p][i]], type'[locks[p][j]])
    BY <1>5 DEF Sorted
  <2> DEFINE e == locks[p][j]
  <2>1. e \in Data /\ OwnerOf[e] = p /\ pc[p] \in {"locking", "waiting"} BY <1>2 DEF Untried
  <2>2. ~Linked(e)
    <3> SUFFICES ASSUME Linked(e) PROVE FALSE OBVIOUS
    <3>1. PICK i \in DOMAIN locks[p] : locks[p][i] = e /\ Called(p, i) BY <2>1, <1>1 DEF Placed
    <3>2. i = j BY <3>1, <1>2
    <3> QED BY <3>1, <3>2, <1>2 DEF Called, Untried
  <2>3. ~Queued(e) BY <2>1, <2>2, DataFacts
  <2>4. type'[e] = type[e] BY <2>1, <2>2, <2>3 DEF Kept, Aborted, Marked
  <2>5. /\ type[e] \in TL_READ .. TL_WRITE
        /\ \A i \in DOMAIN locks[p] :
             i < j /\ LockOf[locks[p][i]] = LockOf[e] =>
                 type[locks[p][i]] = TL_UNLOCK \/ AtLeast(type[locks[p][i]], type[e])
    BY <1>1 DEF Sorted
  <2>6. ASSUME NEW i \in DOMAIN locks[p], i < j, LockOf[locks[p][i]] = LockOf[e]
        PROVE  type'[locks[p][i]] = TL_UNLOCK \/ AtLeast(type'[locks[p][i]], type[e])
    <3> DEFINE f == locks[p][i]
    <3>1. f \in Data /\ OwnerOf[f] = p BY <1>2
    <3>2. CASE Kept(f)
      <4>1. CASE type'[f] = type[f] BY <4>1, <2>5, <2>6
      <4>2. CASE type'[f] = TL_WRITE BY <4>2 DEF AtLeast
      <4> QED BY <3>2, <4>1, <4>2 DEF Kept
    <3>3. CASE Aborted(f) BY <3>3 DEF Aborted
    <3>4. CASE Marked(f) BY <3>1, <3>4, <2>1 DEF Marked
    <3> QED BY <3>1, <3>2, <3>3, <3>4
  <2> QED BY <2>4, <2>5, <2>6
<1>9. Asleep(p)'
  <2>1. ASSUME pc[p] = "waiting", cond'[locks[p][pos[p]]] PROVE type'[locks[p][pos[p]]] # TL_UNLOCK
    <3> DEFINE e == locks[p][pos[p]]
    <3>1. e \in Data /\ OwnerOf[e] = p BY <2>1, <1>1, <1>2 DEF Array
    <3>2. CASE Kept(e)
      <4>1. type[e] # TL_UNLOCK BY <2>1, <3>2, <1>1 DEF Kept, Asleep, Cur
      <4> QED BY <4>1, <3>2 DEF Kept
    <3>3. CASE Aborted(e) BY <3>3, <2>1 DEF Aborted
    <3>4. CASE Marked(e) BY <3>4 DEF Marked
    <3> QED BY <3>1, <3>2, <3>3, <3>4
  <2>2. ASSUME pc[p] = "upgrading", cond'[locks[p][1]] PROVE type'[locks[p][1]] # TL_UNLOCK
    <3> DEFINE e == locks[p][1]
    <3>0. 1 \in DOMAIN locks[p]
      <4>1. locks[p] # << >> /\ locks[p] \in Seq(Data) BY <2>2, <1>1, ArrayFacts DEF Array
      <4> QED BY <4>1
    <3>1. e \in Data /\ OwnerOf[e] = p BY <3>0, <1>2
    <3>2. CASE Kept(e)
      <4>1. type[e] # TL_UNLOCK BY <2>2, <3>2, <1>1 DEF Kept, Asleep
      <4> QED BY <4>1, <3>2 DEF Kept
    <3>3. CASE Aborted(e) BY <3>3, <2>2 DEF Aborted
    <3>4. CASE Marked(e) BY <3>4 DEF Marked
    <3> QED BY <3>1, <3>2, <3>3, <3>4
  <2> QED BY <2>1, <2>2 DEF Asleep, Cur
<1> QED BY <1>3, <1>6, <1>7, <1>8, <1>9 DEF OwnerInv

-----------------------------------------------------------------------------
(* The owner whose thr_lock call failed or succeeded *)

(* the elements before the current one *)
Tried(o, e) == \E i \in DOMAIN locks[o] : i < pos[o] /\ locks[o][i] = e

(* thr_multi_lock gives up: it unlocks the elements before this one *)
LEMMA FailOK ==
    ASSUME ThrInv, NEW o \in Owner, pc[o] \in {"locking", "waiting"}, Fail(o),
           \A e \in Data : OwnerOf[e] = o =>
               IF Tried(o, e)
                 THEN type'[e] = type[e] /\ (Linked(e)' <=> Linked(e)) /\ (Queued(e)' => Queued(e))
                 ELSE ~Linked(e)' /\ type'[e] # TL_WRITE_ONLY
    PROVE  OwnerInv(o)'
<1> DEFINE n == pos[o] - 1  a == SubSeq(locks[o], 1, n)
<1>1. /\ locks[o] \in Seq(Data) /\ pos[o] \in Nat /\ pos[o] >= 1
      /\ DOMAIN locks[o] = 1 .. Len(locks[o]) /\ Len(locks[o]) \in Nat
      /\ \A i \in DOMAIN locks[o] : locks[o][i] \in Data /\ OwnerOf[locks[o][i]] = o
      /\ \A i, j \in DOMAIN locks[o] : locks[o][i] = locks[o][j] => i = j
  BY ArrayFacts
<1>2. /\ Array(o) /\ Placed(o) /\ QueuedLast(o) /\ Sorted(o) /\ Asleep(o)
      /\ pc \in [Owner -> Where] /\ locks \in [Owner -> Seq(Data)] /\ pos \in [Owner -> Nat \ {0}]
  BY DEF ThrInv, OwnerInv, Typed
<1>3. locks'[o] = a /\ pos'[o] = 1 /\ pc'[o] = "unlocking" BY <1>2 DEF Fail
<1>4. pos[o] \in DOMAIN locks[o] /\ Distinct(locks[o]) BY <1>2 DEF Array
<1>5. n \in 0 .. Len(locks[o]) /\ n \in Nat BY <1>1, <1>4
<1>6. a \in Seq(Data) /\ Distinct(a) /\ Len(a) = n /\ \A i \in 1 .. n : a[i] = locks[o][i]
  BY <1>1, <1>4, <1>5, CutFacts
<1>14. DOMAIN a = 1 .. n BY <1>6
<1> HIDE DEF a
<1>7. /\ DOMAIN a = {i \in DOMAIN locks[o] : i < pos[o]}
      /\ \A i \in DOMAIN a : a[i] = locks[o][i] /\ i \in Nat /\ i >= 1
  BY <1>1, <1>4, <1>5, <1>6, <1>14
<1>8. \A i \in DOMAIN a : Tried(o, a[i]) /\ a[i] \in Data /\ OwnerOf[a[i]] = o /\ Called(o, i)
  BY <1>1, <1>7 DEF Tried, Called
<1>9. Array(o)'
  <2>1. Distinct(a) /\ \A i \in DOMAIN a : OwnerOf[a[i]] = o BY <1>6, <1>8
  <2> QED BY <2>1, <1>3 DEF Array
<1>10. \A i \in DOMAIN a : Called(o, i)' BY <1>3, <1>7 DEF Called
<1>11. Placed(o)'
  <2>1. ASSUME NEW d \in Data, OwnerOf[d] = o, Linked(d)'
        PROVE  \E i \in DOMAIN locks'[o] : locks'[o][i] = d /\ Called(o, i)'
    <3>1. Tried(o, d) BY <2>1
    <3>2. PICK i \in DOMAIN locks[o] : i < pos[o] /\ locks[o][i] = d BY <3>1 DEF Tried
    <3>3. i \in DOMAIN a /\ a[i] = d BY <3>2, <1>7
    <3> QED BY <3>3, <1>3, <1>10
  <2>2. ASSUME NEW i \in DOMAIN locks'[o], type'[locks'[o][i]] # TL_UNLOCK
        PROVE  locks'[o][i] \in Members(lock'[LockOf[locks'[o][i]]])
    <3>1. PICK e \in Data : e = a[i] /\ Tried(o, e) /\ OwnerOf[e] = o /\ Called(o, i)
                            /\ i \in DOMAIN locks[o] /\ e = locks[o][i]
      BY <1>3, <1>7, <1>8, <2>2
    <3>2. type'[e] = type[e] /\ (Linked(e)' <=> Linked(e)) BY <3>1
    <3>3. Linked(e) BY <3>1, <3>2, <2>2, <1>2, <1>3, ZenonT(40) DEF Placed
    <3> QED BY <3>1, <3>2, <3>3, <1>3 DEF Linked
  <2>3. (\A i \in DOMAIN locks[o] :
         Called(o, i) /\ type[locks[o][i]] # TL_UNLOCK => Linked(locks[o][i]))'
    BY <2>2 DEF Linked
  <2>4. ASSUME NEW d \in Data, OwnerOf[d] = o, type'[d] = TL_WRITE_ONLY PROVE Linked(d)'
    <3>1. Tried(o, d) /\ type[d] = TL_WRITE_ONLY BY <2>4
    <3> QED BY <3>1, <2>4, <1>2 DEF Placed
  <2> QED BY <2>1, <2>3, <2>4 DEF Placed
<1>12. QueuedLast(o)'
  <2> SUFFICES ASSUME NEW d \in Data, OwnerOf[d] = o, Queued(d)'
               PROVE  o \in Delayed /\ type'[d] = TL_WRITE_DELAYED
    BY DEF QueuedLast
  <2>1. Linked(d)' BY DEF Queued, Linked, Waiting, Members
  <2>2. Tried(o, d) /\ Queued(d) /\ type'[d] = type[d] BY <2>1
  <2>3. d # locks[o][pos[o]] BY <2>2, <1>1, <1>4 DEF Tried
  <2> QED BY <2>2, <2>3, <1>2 DEF QueuedLast, Cur
<1>13. Sorted(o)' /\ Asleep(o)' BY <1>3 DEF Sorted, Asleep, Untried
<1> QED BY <1>9, <1>11, <1>12, <1>13 DEF OwnerInv

(* thr_lock succeeded: this element is on a list now, the others stay where they are *)
LEMMA AdvanceOK ==
    ASSUME ThrInv, NEW o \in Owner, pc[o] \in {"locking", "waiting"}, Advance(o), locks' = locks,
           NEW d \in Data, d = Cur(o),
           \A e \in Data : OwnerOf[e] = o /\ e # d =>
               type'[e] = type[e] /\ (Linked(e)' <=> Linked(e)) /\ (Queued(e)' => Queued(e)),
           type'[d] = type[d] \/ type'[d] \in {TL_WRITE_LOW_PRIORITY, TL_WRITE},
           Linked(d)', Queued(d)' => o \in Delayed /\ type'[d] = TL_WRITE_DELAYED
    PROVE  OwnerInv(o)'
<1>1. /\ locks[o] \in Seq(Data) /\ pos[o] \in Nat /\ pos[o] >= 1
      /\ DOMAIN locks[o] = 1 .. Len(locks[o]) /\ Len(locks[o]) \in Nat
      /\ \A i \in DOMAIN locks[o] : locks[o][i] \in Data /\ OwnerOf[locks[o][i]] = o
      /\ \A i, j \in DOMAIN locks[o] : locks[o][i] = locks[o][j] => i = j
  BY ArrayFacts
<1>2. /\ Array(o) /\ Placed(o) /\ QueuedLast(o) /\ Sorted(o) /\ Asleep(o)
      /\ pc \in [Owner -> Where] /\ pos \in [Owner -> Nat \ {0}]
  BY DEF ThrInv, OwnerInv, Typed
<1>3. pos[o] \in DOMAIN locks[o] /\ locks[o][pos[o]] = d /\ OwnerOf[d] = o
  BY <1>1, <1>2 DEF Array, Cur
<1>4. \/ pos[o] = Len(locks[o]) /\ pc'[o] = "locked" /\ pos'[o] = pos[o]
      \/ /\ pos[o] # Len(locks[o]) /\ pc'[o] = "locking" /\ pos'[o] = pos[o] + 1
         /\ pos'[o] \in DOMAIN locks[o]
  BY <1>1, <1>2, <1>3 DEF Advance
<1>5. \A i \in DOMAIN locks[o] : Called(o, i)' <=> i <= pos[o] BY <1>1, <1>4 DEF Called
<1>6. \A i \in DOMAIN locks[o] : i < pos[o] => Called(o, i) BY <1>1 DEF Called
<1>7. \A i \in DOMAIN locks[o] : Called(o, i) => i <= pos[o] BY <1>1 DEF Called
<1>8. \A j \in DOMAIN locks[o] : Untried(o, j)' => Untried(o, j) /\ j > pos[o]
  BY <1>1, <1>4 DEF Untried
<1>9. Array(o)'
  <2>1. locks[o] # << >> BY <1>1, <1>3
  <2> QED BY <2>1, <1>2, <1>4 DEF Array
<1>10. Placed(o)'
  <2>1. ASSUME NEW e \in Data, OwnerOf[e] = o, Linked(e)'
        PROVE  \E i \in DOMAIN locks[o] : locks[o][i] = e /\ Called(o, i)'
    <3>1. CASE e = d BY <3>1, <1>1, <1>3, <1>5
    <3>2. CASE e # d
      <4>1. Linked(e) BY <3>2, <2>1
      <4>2. PICK i \in DOMAIN locks[o] : locks[o][i] = e /\ Called(o, i)
        BY <4>1, <2>1, <1>2 DEF Placed
      <4> QED BY <4>2, <1>5, <1>7
    <3> QED BY <3>1, <3>2
  <2>2. ASSUME NEW i \in DOMAIN locks[o], Called(o, i)', type'[locks[o][i]] # TL_UNLOCK
        PROVE  locks[o][i] \in Members(lock'[LockOf[locks[o][i]]])
    <3>1. PICK e \in Data : e = locks[o][i] /\ OwnerOf[e] = o BY <1>1, <2>2
    <3>2. CASE e = d BY <3>1, <3>2 DEF Linked
    <3>3. CASE e # d
      <4>1. Called(o, i)
        <5>1. i <= pos[o] /\ i # pos[o] BY <1>3, <1>5, <2>2, <3>1, <3>3
        <5> QED BY <5>1, <1>1, <1>6
      <4>2. Linked(e) BY <4>1, <3>1, <3>3, <2>2, <1>2 DEF Placed
      <4>3. Linked(e)' BY <4>2, <3>1, <3>3
      <4> QED BY <4>3, <3>1 DEF Linked
    <3> QED BY <3>2, <3>3
  <2>3. (\A i \in DOMAIN locks[o] :
         Called(o, i) /\ type[locks[o][i]] # TL_UNLOCK => Linked(locks[o][i]))'
    BY <2>2 DEF Linked
  <2>4. ASSUME NEW e \in Data, OwnerOf[e] = o, type'[e] = TL_WRITE_ONLY PROVE Linked(e)'
    BY <2>4, <1>2 DEF Placed
  <2> QED BY <2>1, <2>3, <2>4 DEF Placed
<1>11. QueuedLast(o)'
  <2> SUFFICES ASSUME NEW e \in Data, OwnerOf[e] = o, Queued(e)'
               PROVE  o \in Delayed /\ type'[e] = TL_WRITE_DELAYED
    BY DEF QueuedLast
  <2>1. CASE e = d BY <2>1
  <2>2. CASE e # d
    <3>1. Queued(e) /\ type'[e] = type[e] BY <2>2
    <3> QED BY <3>1, <2>2, <1>2, <1>3 DEF QueuedLast, Cur
  <2> QED BY <2>1, <2>2
<1>12. Sorted(o)'
  <2> SUFFICES ASSUME NEW j \in DOMAIN locks[o], Untried(o, j)'
               PROVE  /\ type'[locks[o][j]] \in TL_READ .. TL_WRITE
                      /\ \A i \in DOMAIN locks[o] :
                           i < j /\ LockOf[locks[o][i]] = LockOf[locks[o][j]] =>
                             \/ type'[locks[o][i]] = TL_UNLOCK
                             \/ AtLeast(type'[locks[o][i]], type'[locks[o][j]])
    BY DEF Sorted
  <2>1. Untried(o, j) /\ j > pos[o] BY <1>8
  <2>2. PICK e \in Data : e = locks[o][j] /\ OwnerOf[e] = o BY <1>1
  <2>3. e # d BY <2>1, <2>2, <1>1, <1>3
  <2>4. type'[e] = type[e] BY <2>2, <2>3
  <2>5. /\ type[e] \in TL_READ .. TL_WRITE
        /\ \A i \in DOMAIN locks[o] :
             i < j /\ LockOf[locks[o][i]] = LockOf[e] =>
                 type[locks[o][i]] = TL_UNLOCK \/ AtLeast(type[locks[o][i]], type[e])
    BY <2>1, <2>2, <1>2 DEF Sorted
  <2>6. ASSUME NEW i \in DOMAIN locks[o], i < j, LockOf[locks[o][i]] = LockOf[e]
        PROVE  type'[locks[o][i]] = TL_UNLOCK \/ AtLeast(type'[locks[o][i]], type[e])
    <3>1. PICK f \in Data : f = locks[o][i] /\ OwnerOf[f] = o BY <1>1
    <3>2. CASE type'[f] = type[f] BY <3>1, <3>2, <2>5, <2>6
    <3>3. CASE type'[f] # type[f]
      <4>1. f = d BY <3>1, <3>3
      <4> QED BY <4>1, <3>1, <3>3 DEF AtLeast
    <3> QED BY <3>2, <3>3
  <2> QED BY <2>2, <2>4, <2>5, <2>6
<1>13. Asleep(o)' BY <1>4 DEF Asleep
<1> QED BY <1>9, <1>10, <1>11, <1>12, <1>13 DEF OwnerInv

-----------------------------------------------------------------------------
(* The steps that leave all locks alone *)

(* only types of data that are on no list change *)
LEMMA NoLockChanges ==
    ASSUME ThrInv, lock' = lock, Typed', DelayedTypes(type'), NEW o \in Owner, OwnerInv(o)',
           \A p \in Owner \ {o} : pc'[p] = pc[p] /\ locks'[p] = locks[p] /\ pos'[p] = pos[p],
           \A e \in Data : OwnerOf[e] # o \/ Linked(e) => type'[e] = type[e] /\ cond'[e] = cond[e]
    PROVE  ThrInv'
<1>1. ASSUME NEW p \in Owner \ {o} PROVE OwnerInv(p)'
  <2>1. ASSUME NEW e \in Data, OwnerOf[e] = p PROVE Kept(e)
    <3>1. type'[e] = type[e] /\ cond'[e] = cond[e] BY <2>1
    <3>2. (Linked(e)' <=> Linked(e)) /\ (Queued(e)' <=> Queued(e)) BY DEF Linked, Queued, Waiting
    <3> QED BY <3>1, <3>2 DEF Kept
  <2> QED BY <2>1, OtherOwner
<1>2. ASSUME NEW l \in Lock PROVE LockOK(lock[l], l, type', cond')
  <2>1. LockOK(lock[l], l, type, cond) BY DEF ThrInv
  <2>2. \A e \in Members(lock[l]) : e \in Data /\ LockOf[e] = l
    BY <2>1, MembersAreData DEF LockOK, Lists, Members
  <2>3. \A e \in Members(lock[l]) : type'[e] = type[e] /\ cond'[e] = cond[e]
    BY <2>2 DEF Linked
  <2> QED BY <2>1, <2>3, FrameOK
<1> QED BY <1>1, <1>2 DEF ThrInv

(* what was never tried is not linked *)
LEMMA UntriedUnlinked ==
    ASSUME ThrInv, NEW o \in Owner, pc[o] \in {"locking", "waiting"},
           NEW e \in Data, OwnerOf[e] = o, ~Tried(o, e), pc[o] = "waiting" => e # Cur(o)
    PROVE  ~Linked(e) /\ ~Queued(e) /\ type[e] # TL_WRITE_ONLY
<1> SUFFICES ASSUME Linked(e) PROVE FALSE
  <2>1. ~Linked(e) => ~Queued(e) /\ type[e] # TL_WRITE_ONLY
    BY DataFacts DEF ThrInv, OwnerInv, Placed
  <2> QED BY <2>1
<1>1. PICK i \in DOMAIN locks[o] : locks[o][i] = e /\ Called(o, i) BY DEF ThrInv, OwnerInv, Placed
<1>2. i \in Nat /\ pos[o] \in Nat BY ArrayFacts
<1> QED BY <1>1, <1>2 DEF Tried, Called, Cur

(* the current element, and those tried before, are different data *)
LEMMA CurFacts ==
    ASSUME ThrInv, NEW o \in Owner, pc[o] \in {"locking", "waiting"}
    PROVE  /\ Cur(o) \in Data /\ OwnerOf[Cur(o)] = o /\ ~Tried(o, Cur(o))
           /\ LockOf[Cur(o)] \in Lock /\ pos[o] \in DOMAIN locks[o]
           /\ pc[o] = "locking" => ~Linked(Cur(o)) /\ type[Cur(o)] \in TL_READ .. TL_WRITE
<1>1. pos[o] \in DOMAIN locks[o] BY DEF ThrInv, OwnerInv, Array
<1>2. /\ pos[o] \in Nat /\ DOMAIN locks[o] \in SUBSET Nat
      /\ \A i \in DOMAIN locks[o] : locks[o][i] \in Data /\ OwnerOf[locks[o][i]] = o
      /\ \A i, j \in DOMAIN locks[o] : locks[o][i] = locks[o][j] => i = j
  BY ArrayFacts
<1>3. Cur(o) \in Data /\ OwnerOf[Cur(o)] = o BY <1>1, <1>2 DEF Cur
<1>4. ~Tried(o, Cur(o)) BY <1>1, <1>2 DEF Cur, Tried
<1>5. LockOf[Cur(o)] \in Lock BY <1>3, DataFacts
<1>6. ASSUME pc[o] = "locking" PROVE ~Linked(Cur(o)) /\ type[Cur(o)] \in TL_READ .. TL_WRITE
  <2>1. PICK d \in Data : d = Cur(o) BY <1>3
  <2>2. ~Linked(d) BY <2>1, <1>3, <1>4, <1>6, UntriedUnlinked
  <2>3. Untried(o, pos[o]) BY <1>2, <1>6 DEF Untried
  <2>4. type[Cur(o)] \in TL_READ .. TL_WRITE BY <2>3, <1>1 DEF ThrInv, OwnerInv, Sorted, Cur
  <2> QED BY <2>1, <2>2, <2>4
<1> QED BY <1>1, <1>3, <1>4, <1>5, <1>6

(* a failed thr_lock that leaves the locks alone *)
LEMMA FailStep ==
    ASSUME ThrInv, NEW o \in Owner, pc[o] \in {"locking", "waiting"}, Fail(o),
           lock' = lock, asked' = asked, abort' = abort,
           NEW d \in Data, d = Cur(o), ~Linked(d),
           type' \in [Data -> LockType], DelayedTypes(type'), cond' \in [Data -> BOOLEAN],
           \A e \in Data \ {d} : cond'[e] = cond[e],
           \A e \in Data : \/ type'[e] = type[e]
                           \/ OwnerOf[e] = o /\ ~Tried(o, e) /\ type'[e] # TL_WRITE_ONLY
    PROVE  ThrInv'
<1>1. OwnerOf[d] = o /\ ~Tried(o, d) BY CurFacts
<1>2. /\ pc \in [Owner -> Where] /\ locks \in [Owner -> Seq(Data)] /\ pos \in [Owner -> Nat \ {0}]
      /\ asked \in [Data -> LockType] /\ abort \in [Thread -> BOOLEAN] /\ lock \in [Lock -> LockRecord]
  BY DEF ThrInv, Typed
<1>3. ASSUME NEW e \in Data, OwnerOf[e] = o, ~Tried(o, e) PROVE ~Linked(e) /\ type[e] # TL_WRITE_ONLY
  <2>1. CASE e = d
    <3>1. type[d] # TL_WRITE_ONLY BY <1>1 DEF ThrInv, OwnerInv, Placed
    <3> QED BY <2>1, <3>1
  <2>2. CASE e # d BY <2>2, <1>3, UntriedUnlinked
  <2> QED BY <2>1, <2>2
<1>4. \A e \in Data : (Linked(e)' <=> Linked(e)) /\ (Queued(e)' <=> Queued(e))
  BY DEF Linked, Queued, Waiting
<1>5. \A e \in Data : OwnerOf[e] = o =>
               IF Tried(o, e)
                 THEN type'[e] = type[e] /\ (Linked(e)' <=> Linked(e)) /\ (Queued(e)' => Queued(e))
                 ELSE ~Linked(e)' /\ type'[e] # TL_WRITE_ONLY
  BY <1>3, <1>4
<1>6. OwnerInv(o)' BY <1>5, FailOK
<1>7. \A p \in Owner \ {o} : pc'[p] = pc[p] /\ locks'[p] = locks[p] /\ pos'[p] = pos[p]
  BY <1>2 DEF Fail
<1>8. Typed'
  <2>1. pos[o] - 1 \in 0 .. Len(locks[o]) /\ locks[o] \in Seq(Data) /\ Distinct(locks[o])
    <3>1. pos[o] \in DOMAIN locks[o] BY CurFacts
    <3>2. DOMAIN locks[o] = 1 .. Len(locks[o]) /\ locks[o] \in Seq(Data) /\ Len(locks[o]) \in Nat
      BY ArrayFacts
    <3>3. Distinct(locks[o]) BY DEF ThrInv, OwnerInv, Array
    <3> QED BY <3>1, <3>2, <3>3
  <2>2. SubSeq(locks[o], 1, pos[o] - 1) \in Seq(Data) BY <2>1, CutFacts
  <2>3. locks' \in [Owner -> Seq(Data)] BY <2>2, <1>2 DEF Fail
  <2>4. pos' \in [Owner -> Nat \ {0}] /\ pc' \in [Owner -> Where] BY <1>2 DEF Fail, Where
  <2> QED BY <2>3, <2>4, <1>2 DEF Typed
<1>9. \A e \in Data : OwnerOf[e] # o \/ Linked(e) => type'[e] = type[e] /\ cond'[e] = cond[e]
  BY <1>1, <1>3
<1> QED BY <1>6, <1>7, <1>8, <1>9, NoLockChanges

(* the reopened table's data are the caller's own, and not yet locked *)
LEMMA ReopenedIs ==
    ASSUME ThrInv, NEW o \in Owner, NEW l
    PROVE  /\ Reopened(o, l) \in [Data -> LockType]
           /\ \A e \in Data : \/ Reopened(o, l)[e] = type[e]
                              \/ OwnerOf[e] = o /\ ~Tried(o, e) /\ Reopened(o, l)[e] = TL_UNLOCK
<1> DEFINE ty == Reopened(o, l)
<1>1. type \in [Data -> LockType] BY DEF ThrInv, Typed
<1>2. ty = [d \in Data |-> IF /\ LockOf[d] = l
                              /\ \E i \in pos[o] .. Len(locks[o]) : locks[o][i] = d
                             THEN TL_UNLOCK ELSE type[d]]
  BY DEF Reopened
<1> HIDE DEF ty
<1>3. ty \in [Data -> LockType] BY <1>1, <1>2
<1>4. /\ pos[o] \in Nat /\ pos[o] >= 1 /\ DOMAIN locks[o] = 1 .. Len(locks[o]) /\ Len(locks[o]) \in Nat
      /\ \A i \in DOMAIN locks[o] : locks[o][i] \in Data /\ OwnerOf[locks[o][i]] = o
      /\ \A i, j \in DOMAIN locks[o] : locks[o][i] = locks[o][j] => i = j
  BY ArrayFacts
<1>5. ASSUME NEW e \in Data, ty[e] # type[e]
      PROVE  OwnerOf[e] = o /\ ~Tried(o, e) /\ ty[e] = TL_UNLOCK
  <2>1. PICK i \in pos[o] .. Len(locks[o]) : locks[o][i] = e BY <1>2, <1>5
  <2>2. i \in DOMAIN locks[o] /\ i >= pos[o] BY <2>1, <1>4
  <2>3. ~Tried(o, e) BY <2>1, <2>2, <1>4 DEF Tried
  <2>4. ty[e] = TL_UNLOCK BY <1>2, <1>5
  <2> QED BY <2>1, <2>2, <2>3, <2>4, <1>4
<1> QED BY <1>3, <1>5 DEF ty

(* types that get weaker do no harm to the delayed handlers *)
LEMMA DelayedUnlock ==
    ASSUME ThrInv, NEW ty, \A e \in Data : ty[e] = type[e] \/ ty[e] = TL_UNLOCK
    PROVE  DelayedTypes(ty)
<1>1. DelayedTypes(type) BY DEF ThrInv
<1> QED BY <1>1 DEF DelayedTypes

(* the table is going away: its lock is TL_WRITE_ONLY *)
LEMMA LockRefusedOK ==
    ASSUME ThrInv, NEW o \in Owner, LockRefused(o)
    PROVE  ThrInv'
<1>1. pc[o] = "locking" /\ Fail(o) /\ lock' = lock /\ asked' = asked /\ abort' = abort
  BY DEF LockRefused
<1>2. PICK d \in Data : d = Cur(o) /\ ~Linked(d) BY <1>1, CurFacts
<1>3. type' = Reopened(o, LockOf[d]) /\ cond' = [cond EXCEPT ![d] = FALSE] BY <1>2 DEF LockRefused
<1>4. cond \in [Data -> BOOLEAN] BY DEF ThrInv, Typed
<1>5. cond' \in [Data -> BOOLEAN] /\ \A e \in Data \ {d} : cond'[e] = cond[e] BY <1>3, <1>4
<1>6. /\ type' \in [Data -> LockType]
      /\ \A e \in Data : \/ type'[e] = type[e]
                         \/ OwnerOf[e] = o /\ ~Tried(o, e) /\ type'[e] = TL_UNLOCK
  BY <1>3, ReopenedIs
<1>7. DelayedTypes(type') BY <1>6, DelayedUnlock
<1> QED BY <1>1, <1>2, <1>5, <1>6, <1>7, FailStep

(* what thr_lock makes of the asked type *)
LEMMA RequestTypeIs ==
    ASSUME ThrInv, NEW d \in Data, NEW L, NEW full, type[d] \in TL_READ .. TL_WRITE
    PROVE  LET t == RequestType(L, d, full) IN
           /\ t \in TL_READ .. TL_WRITE
           /\ \/ t = type[d]
              \/ /\ type[d] = TL_WRITE_CONCURRENT_INSERT /\ t \in {TL_WRITE_LOW_PRIORITY, TL_WRITE}
                 /\ LockOf[d] \in CheckStatus => Empty(L.write) /\ Empty(L.write_wait)
           /\ t = TL_WRITE_CONCURRENT_INSERT => LockOf[d] \in CheckStatus
           /\ DelayedTypes([type EXCEPT ![d] = t]) /\ [type EXCEPT ![d] = t] \in [Data -> LockType]
<1> DEFINE t == RequestType(L, d, full)
<1>1. UpgradedCI \in {TL_WRITE, TL_WRITE_LOW_PRIORITY} BY ThrLockAssumption DEF ThrLockAssumption
<1>2. t = IF /\ type[d] = TL_WRITE_CONCURRENT_INSERT
             /\ \/ LockOf[d] \notin CheckStatus
                \/ Empty(L.write) /\ Empty(L.write_wait) /\ full
            THEN UpgradedCI ELSE type[d]
  BY DEF RequestType
<1> HIDE DEF t
<1>3. \/ t = type[d]
      \/ /\ type[d] = TL_WRITE_CONCURRENT_INSERT /\ t \in {TL_WRITE_LOW_PRIORITY, TL_WRITE}
         /\ LockOf[d] \in CheckStatus => Empty(L.write) /\ Empty(L.write_wait)
  BY <1>1, <1>2
<1>4. t \in TL_READ .. TL_WRITE BY <1>3
<1>5. t = TL_WRITE_CONCURRENT_INSERT => LockOf[d] \in CheckStatus BY <1>1, <1>2
<1>6. type \in [Data -> LockType] /\ DelayedTypes(type) BY DEF ThrInv, Typed
<1>7. [type EXCEPT ![d] = t] \in [Data -> LockType] BY <1>4, <1>6
<1>8. DelayedTypes([type EXCEPT ![d] = t])
  <2>1. \A e \in Data : [type EXCEPT ![d] = t][e] = IF e = d THEN t ELSE type[e] BY <1>6
  <2>2. t # type[d] => OwnerOf[d] \notin Delayed /\ t # TL_WRITE_DELAYED BY <1>3, <1>6 DEF DelayedTypes
  <2> QED BY <2>1, <2>2, <1>6 DEF DelayedTypes
<1> QED BY <1>3, <1>4, <1>5, <1>7, <1>8 DEF t

(* thr_lock found that the thread would wait for its own cursor *)
LEMMA LockDeadlockOK ==
    ASSUME ThrInv, NEW o \in Owner, LockDeadlock(o)
    PROVE  ThrInv'
<1>1. pc[o] = "locking" /\ Fail(o) /\ lock' = lock /\ asked' = asked /\ abort' = abort
  BY DEF LockDeadlock
<1>2. PICK d \in Data : /\ d = Cur(o) /\ ~Linked(d) /\ type[d] \in TL_READ .. TL_WRITE
                        /\ OwnerOf[d] = o /\ ~Tried(o, d)
  BY <1>1, CurFacts
<1>3. PICK full \in BOOLEAN : /\ type' = [type EXCEPT ![d] = RequestType(lock[LockOf[d]], d, full)]
                              /\ cond' = [cond EXCEPT ![d] = FALSE]
  BY <1>2 DEF LockDeadlock
<1> DEFINE t == RequestType(lock[LockOf[d]], d, full)
<1>4. cond \in [Data -> BOOLEAN] /\ type \in [Data -> LockType] BY DEF ThrInv, Typed
<1>5. cond' \in [Data -> BOOLEAN] /\ \A e \in Data \ {d} : cond'[e] = cond[e] BY <1>3, <1>4
<1>6. t \in TL_READ .. TL_WRITE /\ DelayedTypes(type') /\ type' \in [Data -> LockType]
  BY <1>2, <1>3, RequestTypeIs
<1> HIDE DEF t
<1>7. type' = [type EXCEPT ![d] = t] BY <1>3 DEF t
<1>8. \A e \in Data : \/ type'[e] = type[e]
                      \/ OwnerOf[e] = o /\ ~Tried(o, e) /\ type'[e] # TL_WRITE_ONLY
  BY <1>2, <1>4, <1>6, <1>7
<1> QED BY <1>1, <1>2, <1>5, <1>6, <1>8, FailStep

(* wait_for_lock returns, with the lock or thrown out of the queue *)
LEMMA WaitEndsOK ==
    ASSUME ThrInv, NEW o \in Owner, WaitEnds(o)
    PROVE  ThrInv'
<1>1. /\ pc[o] = "waiting" /\ ~cond[Cur(o)]
      /\ lock' = lock /\ cond' = cond /\ asked' = asked /\ abort' = abort
  BY DEF WaitEnds
<1>2. PICK d \in Data : d = Cur(o) /\ OwnerOf[d] = o /\ ~cond[d] /\ pos[o] \in DOMAIN locks[o]
  BY <1>1, CurFacts
<1>3. /\ cond \in [Data -> BOOLEAN] /\ type \in [Data -> LockType] /\ DelayedTypes(type)
      /\ pc \in [Owner -> Where] /\ pos \in [Owner -> Nat \ {0}]
  BY DEF ThrInv, Typed
<1>4. CASE type[d] = TL_UNLOCK
  <2>1. Fail(o) /\ type' = Reopened(o, LockOf[d]) BY <1>2, <1>4 DEF WaitEnds
  <2>2. ~Linked(d) BY <1>4, DataFacts
  <2>3. /\ type' \in [Data -> LockType]
        /\ \A e \in Data : \/ type'[e] = type[e]
                           \/ OwnerOf[e] = o /\ ~Tried(o, e) /\ type'[e] = TL_UNLOCK
    BY <2>1, ReopenedIs
  <2>4. DelayedTypes(type') BY <2>3, DelayedUnlock
  <2> QED BY <1>1, <1>2, <1>3, <2>1, <2>2, <2>3, <2>4, FailStep
<1>5. CASE type[d] # TL_UNLOCK
  <2>1. Advance(o) /\ type' = type /\ locks' = locks BY <1>2, <1>5 DEF WaitEnds
  <2>2. Linked(d)
    <3>1. Called(o, pos[o]) BY <1>1, <1>3 DEF Called
    <3> QED BY <3>1, <1>2, <1>5 DEF ThrInv, OwnerInv, Placed, Cur
  <2>3. ~Queued(d) BY <1>2, DataFacts
  <2>4. \A e \in Data : (Linked(e)' <=> Linked(e)) /\ (Queued(e)' <=> Queued(e))
    BY <1>1 DEF Linked, Queued, Waiting
  <2>5. Linked(d)' /\ ~Queued(d)' BY <2>2, <2>3, <2>4
  <2>6. OwnerInv(o)' BY <1>1, <1>2, <2>1, <2>4, <2>5, AdvanceOK
  <2>7. \A p \in Owner \ {o} : pc'[p] = pc[p] /\ locks'[p] = locks[p] /\ pos'[p] = pos[p]
    BY <2>1, <1>3 DEF Advance
  <2>8. Typed'
    <3>1. pos' \in [Owner -> Nat \ {0}] /\ pc' \in [Owner -> Where] BY <2>1, <1>3 DEF Advance, Where
    <3> QED BY <3>1, <1>1, <2>1 DEF ThrInv, Typed
  <2> QED BY <1>1, <1>3, <2>1, <2>6, <2>7, <2>8, NoLockChanges
<1> QED BY <1>4, <1>5

(* the sorted array of a statement *)
LEMMA SortedArray ==
    ASSUME NEW D, D \subseteq Data, IsFiniteSet(D), D # {}, NEW ty \in [Data -> LockType],
           NEW s \in sort_locks(D, ty)
    PROVE  /\ s \in Seq(Data) /\ Distinct(s) /\ 1 \in DOMAIN s /\ s # << >>
           /\ \A i \in DOMAIN s : s[i] \in D
           /\ \A i, j \in DOMAIN s : i < j /\ LockOf[s[i]] = LockOf[s[j]] => ty[s[i]] >= ty[s[j]]
<1> DEFINE n == Cardinality(D)
<1>1. n \in Nat BY FS_CardinalityType
<1>2. n # 0 BY FS_EmptySet
<1>3. s \in [1 .. n -> D] /\ \A i, j \in 1 .. n : i # j => s[i] # s[j]
  BY DEF sort_locks, SetToSeqs
<1>4. \A i, j \in 1 .. Len(s) : i < j => ~LOCK_CMP(ty, s[j], s[i]) BY DEF sort_locks
<1> HIDE DEF n
<1>5. s \in Seq(Data) /\ DOMAIN s = 1 .. n /\ Len(s) = n BY <1>1, <1>3
<1>6. Distinct(s) BY <1>3, <1>5 DEF Distinct
<1>7. 1 \in DOMAIN s BY <1>1, <1>2, <1>5
<1>8. ASSUME NEW i \in DOMAIN s, NEW j \in DOMAIN s, i < j, LockOf[s[i]] = LockOf[s[j]]
      PROVE  ty[s[i]] >= ty[s[j]]
  <2>1. ~LOCK_CMP(ty, s[j], s[i]) BY <1>4, <1>5, <1>8
  <2>2. s[i] \in Data /\ s[j] \in Data BY <1>5
  <2>3. ty[s[i]] \in 0 .. 11 /\ ty[s[j]] \in 0 .. 11 BY <2>2
  <2> QED BY <2>1, <2>3, <1>8 DEF LOCK_CMP
<1>9. s # << >> BY <1>5, <1>7
<1> QED BY <1>3, <1>5, <1>6, <1>7, <1>8, <1>9

(* thr_multi_lock starts on a sorted array *)
LEMMA LockTablesOK ==
    ASSUME ThrInv, NEW o \in Owner, LockTables(o)
    PROVE  ThrInv'
<1>1. /\ pc[o] = "idle" /\ lock' = lock /\ cond' = cond /\ abort' = abort
      /\ pc' = [pc EXCEPT ![o] = "locking"] /\ pos' = [pos EXCEPT ![o] = 1]
  BY DEF LockTables
<1>2. PICK r \in Requests :
        /\ \A d \in DOMAIN r : OwnerOf[d] = o
        /\ type' = [d \in Data |-> IF d \in DOMAIN r /\ type[d] = TL_UNLOCK
                                     THEN r[d] ELSE type[d]]
        /\ \E s \in sort_locks(DOMAIN r, type') : locks' = [locks EXCEPT ![o] = s]
        /\ asked' = [d \in Data |-> IF d \in DOMAIN r THEN r[d] ELSE asked[d]]
  BY DEF LockTables
<1>3. /\ DOMAIN r \subseteq Data /\ DOMAIN r # {} /\ IsFiniteSet(DOMAIN r)
      /\ \A d \in DOMAIN r : r[d] \in TL_READ .. TL_WRITE
      /\ \A d \in DOMAIN r : r[d] = TL_WRITE_DELAYED <=> OwnerOf[d] \in Delayed
  BY ThrLockAssumption, DelayedAssumption DEF ThrLockAssumption, DelayedAssumption
<1>4. /\ cond \in [Data -> BOOLEAN] /\ type \in [Data -> LockType] /\ DelayedTypes(type)
      /\ pc \in [Owner -> Where] /\ pos \in [Owner -> Nat \ {0}] /\ locks \in [Owner -> Seq(Data)]
      /\ asked \in [Data -> LockType]
      /\ Array(o) /\ Placed(o) /\ QueuedLast(o)
  BY DEF ThrInv, Typed, OwnerInv
<1>5. type' \in [Data -> LockType] BY <1>2, <1>3, <1>4
<1>6. asked' \in [Data -> LockType] BY <1>2, <1>3, <1>4
<1>7. DelayedTypes(type') BY <1>2, <1>3, <1>4 DEF DelayedTypes
<1>8. PICK s \in sort_locks(DOMAIN r, type') : locks' = [locks EXCEPT ![o] = s] BY <1>2
<1>9. /\ s \in Seq(Data) /\ Distinct(s) /\ 1 \in DOMAIN s /\ s # << >>
      /\ \A i \in DOMAIN s : s[i] \in DOMAIN r
      /\ \A i, j \in DOMAIN s : i < j /\ LockOf[s[i]] = LockOf[s[j]] => type'[s[i]] >= type'[s[j]]
  BY <1>3, <1>5, SortedArray
<1>10. locks'[o] = s /\ pc'[o] = "locking" /\ pos'[o] = 1 /\ locks' \in [Owner -> Seq(Data)]
       /\ pc' \in [Owner -> Where] /\ pos' \in [Owner -> Nat \ {0}]
  BY <1>1, <1>4, <1>8, <1>9 DEF Where
<1>11. Typed' BY <1>1, <1>5, <1>6, <1>10 DEF ThrInv, Typed
<1>12. \A e \in Data : OwnerOf[e] = o => ~Linked(e)
  <2>1. locks[o] = << >> /\ DOMAIN << >> = {} BY <1>1, <1>4 DEF Array
  <2> QED BY <2>1, <1>4 DEF Placed
<1>13. \A e \in Data : (Linked(e)' <=> Linked(e)) /\ (Queued(e)' => Linked(e))
  BY <1>1 DEF Linked, Queued, Waiting, Members
<1>14. OwnerInv(o)'
  <2>1. Array(o)'
    <3>1. \A i \in DOMAIN s : OwnerOf[s[i]] = o BY <1>2, <1>9
    <3> QED BY <3>1, <1>9, <1>10 DEF Array
  <2>2. \A i \in DOMAIN s : ~Called(o, i)'
    <3>1. \A i \in DOMAIN s : i \in Nat /\ ~(i < 1) BY <1>9
    <3> QED BY <3>1, <1>10 DEF Called
  <2>3. (\A i \in DOMAIN locks[o] :
         Called(o, i) /\ type[locks[o][i]] # TL_UNLOCK => Linked(locks[o][i]))'
    BY <2>2, <1>10
  <2>4. ASSUME NEW e \in Data, OwnerOf[e] = o PROVE type'[e] # TL_WRITE_ONLY
    <3>1. type[e] # TL_WRITE_ONLY BY <2>4, <1>4, <1>12 DEF Placed
    <3> QED BY <3>1, <1>2, <1>3
  <2>5. Placed(o)' BY <2>3, <2>4, <1>12, <1>13 DEF Placed
  <2>6. QueuedLast(o)' BY <1>12, <1>13 DEF QueuedLast
  <2>7. Sorted(o)'
    <3> SUFFICES ASSUME NEW j \in DOMAIN s
                 PROVE  /\ type'[s[j]] \in TL_READ .. TL_WRITE
                        /\ \A i \in DOMAIN s : i < j /\ LockOf[s[i]] = LockOf[s[j]] =>
                              type'[s[i]] = TL_UNLOCK \/ AtLeast(type'[s[i]], type'[s[j]])
      BY <1>10 DEF Sorted
    <3>1. PICK e \in Data : e = s[j] /\ e \in DOMAIN r /\ OwnerOf[e] = o BY <1>2, <1>3, <1>9
    <3>2. type[e] \in LockType /\ type[e] # TL_WRITE_ONLY BY <3>1, <1>4, <1>12 DEF Placed
    <3>3. type'[e] \in TL_READ .. TL_WRITE BY <3>1, <3>2, <1>2, <1>3
    <3> QED BY <3>1, <3>3, <1>9 DEF AtLeast
  <2>8. Asleep(o)' BY <1>10 DEF Asleep
  <2> QED BY <2>1, <2>5, <2>6, <2>7, <2>8 DEF OwnerInv
<1>15. \A p \in Owner \ {o} : pc'[p] = pc[p] /\ locks'[p] = locks[p] /\ pos'[p] = pos[p]
  BY <1>1, <1>4, <1>8
<1>16. \A e \in Data : OwnerOf[e] # o \/ Linked(e) => type'[e] = type[e] /\ cond'[e] = cond[e]
  BY <1>1, <1>2, <1>12
<1> QED BY <1>1, <1>7, <1>11, <1>14, <1>15, <1>16, NoLockChanges

(* an owner whose place in the code changes, nothing else *)
LEMMA MoveOK ==
    ASSUME ThrInv, NEW o \in Owner, lock' = lock, type' = type, cond' = cond, locks' = locks,
           asked' = asked, abort' = abort,
           NEW c \in Where, pc' = [pc EXCEPT ![o] = c],
           \/ pos' = pos /\ c = "locked"
           \/ pos' = [pos EXCEPT ![o] = 1] /\ c = "unlocking",
           pc[o] \in {"locked", "upgrade", "upgrading"},
           pc[o] = "upgrading" => ~cond[locks[o][1]]
    PROVE  ThrInv'
<1>1. /\ pc \in [Owner -> Where] /\ pos \in [Owner -> Nat \ {0}]
      /\ Array(o) /\ Placed(o) /\ QueuedLast(o)
  BY DEF ThrInv, Typed, OwnerInv
<1>2. pc'[o] = c /\ pc' \in [Owner -> Where] /\ pos' \in [Owner -> Nat \ {0}]
      /\ (c = "unlocking" => pos'[o] = 1)
  BY <1>1
<1>3. Typed' BY <1>2 DEF ThrInv, Typed
<1>4. DelayedTypes(type') BY DEF ThrInv
<1>5. /\ locks[o] \in Seq(Data) /\ DOMAIN locks[o] \in SUBSET (Nat \ {0})
      /\ \A i \in DOMAIN locks[o] : locks[o][i] \in Data /\ OwnerOf[locks[o][i]] = o
  <2>1. DOMAIN locks[o] = 1 .. Len(locks[o]) /\ locks[o] \in Seq(Data) BY ArrayFacts
  <2> QED BY <2>1, ArrayFacts
<1>6. \A i \in DOMAIN locks[o] : Called(o, i) /\ Called(o, i)' BY <1>2, <1>5 DEF Called
<1>7. \A e \in Data : (Linked(e)' <=> Linked(e)) /\ (Queued(e)' <=> Queued(e))
  BY DEF Linked, Queued, Waiting
<1>8. Array(o)' BY <1>1, <1>2 DEF Array
<1>9. Placed(o)'
  <2>1. (\A i \in DOMAIN locks[o] :
         Called(o, i) /\ type[locks[o][i]] # TL_UNLOCK => Linked(locks[o][i]))'
    BY <1>1, <1>6 DEF Placed, Linked
  <2> QED BY <2>1, <1>1, <1>6, <1>7 DEF Placed
<1>10. QueuedLast(o)'
  <2> SUFFICES ASSUME NEW d \in Data, OwnerOf[d] = o, Queued(d)
               PROVE  o \in Delayed /\ type[d] = TL_WRITE_DELAYED
    BY <1>7 DEF QueuedLast
  <2>1. o \in Delayed /\ (type[d] = TL_WRITE_DELAYED \/ pc[o] = "upgrading") BY <1>1 DEF QueuedLast
  <2>2. CASE pc[o] = "upgrading"
    <3>1. 1 \in DOMAIN locks[o] BY <2>2, <1>1, <1>5 DEF Array
    <3>2. d = locks[o][1] BY <2>1, <3>1, <1>5, OneData
    <3> QED BY <3>2, <2>2, DataFacts
  <2> QED BY <2>1, <2>2
<1>11. Sorted(o)' /\ Asleep(o)' BY <1>2 DEF Sorted, Untried, Asleep
<1>12. OwnerInv(o)' BY <1>8, <1>9, <1>10, <1>11 DEF OwnerInv
<1>13. \A p \in Owner \ {o} : pc'[p] = pc[p] /\ locks'[p] = locks[p] /\ pos'[p] = pos[p] BY <1>1
<1> QED BY <1>3, <1>4, <1>12, <1>13, NoLockChanges

(* thr_multi_unlock starts *)
LEMMA UnlockTablesOK ==
    ASSUME ThrInv, NEW o \in Owner, UnlockTables(o)
    PROVE  ThrInv'
<1>1. "unlocking" \in Where BY DEF Where
<1> QED BY <1>1, MoveOK DEF UnlockTables

(* thr_upgrade_write_delay_lock returns *)
LEMMA UpgradeEndsOK ==
    ASSUME ThrInv, NEW o \in Owner, UpgradeEnds(o)
    PROVE  ThrInv'
<1>1. "unlocking" \in Where /\ "locked" \in Where BY DEF Where
<1>2. /\ lock' = lock /\ type' = type /\ cond' = cond /\ locks' = locks /\ asked' = asked
      /\ abort' = abort /\ pc[o] = "upgrading" /\ ~cond[locks[o][1]]
      /\ \/ pc' = [pc EXCEPT ![o] = "unlocking"] /\ pos' = [pos EXCEPT ![o] = 1]
         \/ pc' = [pc EXCEPT ![o] = "locked"] /\ pos' = pos
  BY DEF UpgradeEnds
<1> QED BY <1>1, <1>2, MoveOK

(* thr_multi_unlock is through the array *)
LEMMA StatementEndsOK ==
    ASSUME ThrInv, NEW o \in Owner, StatementEnds(o)
    PROVE  ThrInv'
<1>1. /\ pc \in [Owner -> Where] /\ pos \in [Owner -> Nat \ {0}] /\ locks \in [Owner -> Seq(Data)]
      /\ asked \in [Data -> LockType] /\ Array(o) /\ Placed(o)
  BY DEF ThrInv, Typed, OwnerInv
<1>2. << >> \in Seq(Data) /\ DOMAIN << >> = {} OBVIOUS
<1>3. /\ lock' = lock /\ type' = type /\ cond' = cond /\ abort' = abort
      /\ pc[o] = "unlocking" /\ pos[o] > Len(locks[o])
      /\ pc' = [pc EXCEPT ![o] = "idle"] /\ pos' = [pos EXCEPT ![o] = 1]
      /\ locks' = [locks EXCEPT ![o] = << >>]
      /\ asked' = [d \in Data |-> IF OwnerOf[d] = o THEN TL_UNLOCK ELSE asked[d]]
  BY DEF StatementEnds
<1>4. /\ pc'[o] = "idle" /\ locks'[o] = << >> /\ pc' \in [Owner -> Where]
      /\ pos' \in [Owner -> Nat \ {0}] /\ locks' \in [Owner -> Seq(Data)]
  BY <1>1, <1>2, <1>3 DEF Where
<1>5. asked' \in [Data -> LockType] BY <1>1, <1>3
<1>6. Typed' BY <1>3, <1>4, <1>5 DEF ThrInv, Typed
<1>7. \A e \in Data : OwnerOf[e] = o => ~Linked(e)
  <2>1. \A i \in DOMAIN locks[o] : ~Called(o, i)
    <3>1. DOMAIN locks[o] = 1 .. Len(locks[o]) /\ Len(locks[o]) \in Nat /\ pos[o] \in Nat BY ArrayFacts
    <3> QED BY <3>1, <1>3 DEF Called
  <2> QED BY <2>1, <1>1 DEF Placed
<1>8. \A e \in Data : (Linked(e)' <=> Linked(e)) /\ (Queued(e)' => Linked(e))
  BY <1>3 DEF Linked, Queued, Waiting, Members
<1>9. Array(o)' BY <1>2, <1>4 DEF Array, Distinct
<1>10. Placed(o)'
  <2>1. (\A i \in DOMAIN locks[o] :
         Called(o, i) /\ type[locks[o][i]] # TL_UNLOCK => Linked(locks[o][i]))'
    BY <1>2, <1>4
  <2> QED BY <2>1, <1>1, <1>3, <1>7, <1>8 DEF Placed
<1>11. QueuedLast(o)' BY <1>7, <1>8 DEF QueuedLast
<1>12. Sorted(o)' /\ Asleep(o)' BY <1>4 DEF Sorted, Untried, Asleep
<1>13. OwnerInv(o)' BY <1>9, <1>10, <1>11, <1>12 DEF OwnerInv
<1>14. \A p \in Owner \ {o} : pc'[p] = pc[p] /\ locks'[p] = locks[p] /\ pos'[p] = pos[p]
  BY <1>1, <1>3
<1>15. DelayedTypes(type') BY <1>3 DEF ThrInv
<1> QED BY <1>3, <1>6, <1>13, <1>14, <1>15, NoLockChanges

(* steps that change at most the abort flags *)
LEMMA SameOK ==
    ASSUME ThrInv, abort' \in [Thread -> BOOLEAN],
           UNCHANGED <<lock, type, cond, pc, locks, pos, asked>>
    PROVE  ThrInv'
<1>1. Typed' /\ DelayedTypes(type') BY DEF ThrInv, Typed
<1>2. \A l \in Lock : LockOK(lock'[l], l, type', cond') BY DEF ThrInv
<1>3. ASSUME NEW p \in Owner PROVE OwnerInv(p)'
  <2>1. ASSUME NEW e \in Data PROVE Kept(e) BY DEF Kept, Linked, Queued, Waiting
  <2> QED BY <2>1, OtherOwner
<1> QED BY <1>1, <1>2, <1>3 DEF ThrInv

-----------------------------------------------------------------------------
(* Joining a list of a lock; the type and the flag are already set *)

InQueues(L) == ToSet(L.read_wait) \cup ToSet(L.write_wait)

(* M is the lock L with d, a reader that was on no list, in its wait queue *)
EnqueuedRead(L, M, l, ty, cd, d) ==
    /\ LockOK(L, l, ty, cd) /\ d \in Data /\ LockOf[d] = l /\ d \notin Members(L)
    /\ ty[d] \in TL_READ .. TL_READ_NO_INSERT /\ cd[d]
    /\ M \in LockRecord /\ M.read = L.read /\ M.write = L.write /\ M.write_wait = L.write_wait
    /\ M.read_wait = Append(L.read_wait, d) /\ M.read_no_write_count = L.read_no_write_count

(* a reader that joins the wait queue keeps the lock in order *)
LEMMA JoinReadWaitOK ==
    ASSUME NEW L, NEW M, NEW l, NEW ty, NEW cd, NEW d, EnqueuedRead(L, M, l, ty, cd, d)
    PROVE  /\ LockOK(M, l, ty, cd) /\ Members(M) = Members(L) \cup {d}
           /\ InQueues(M) = InQueues(L) \cup {d}
<1> USE DEF EnqueuedRead
<1>1. Lists(L, l) /\ Roles(L, ty, cd) /\ L \in LockRecord /\ L.read_wait \in Seq(Data)
  BY DEF LockOK, Lists, LockRecord
<1>5. ToSet(M.read_wait) = ToSet(L.read_wait) \cup {d} /\ Distinct(M.read_wait)
  <2>1. d \notin ToSet(L.read_wait) /\ Distinct(L.read_wait) BY <1>1 DEF Members, Lists
  <2> QED BY <2>1, <1>1, AppendFacts
<1>6. Members(M) = Members(L) \cup {d} BY <1>5 DEF Members
<1>7. InQueues(M) = InQueues(L) \cup {d} BY <1>5 DEF InQueues
<1>8. Lists(M, l)
  <2>1. d \notin ToSet(L.read) /\ d \notin ToSet(L.write) /\ d \notin ToSet(L.write_wait) BY DEF Members
  <2> QED BY <2>1, <1>1, <1>5, <1>6 DEF Lists
<1>9. Roles(M, ty, cd) BY <1>1, <1>5, <1>6 DEF Roles
<1>10. LockOK(M, l, ty, cd) BY <1>8, <1>9 DEF LockOK, Counted
<1> QED BY <1>6, <1>7, <1>10

(* M is the lock L with d, a writer that was on no list, in its wait queue, *)
(* at the end or in front                                                   *)
Enqueued(L, M, l, ty, cd, d) ==
    /\ LockOK(L, l, ty, cd) /\ d \in Data /\ LockOf[d] = l /\ d \notin Members(L)
    /\ ty[d] \in TL_WRITE_ALLOW_WRITE .. TL_WRITE /\ cd[d]
    /\ ty[d] = TL_WRITE_CONCURRENT_INSERT => l \in CheckStatus
    /\ M \in LockRecord /\ M.read = L.read /\ M.write = L.write /\ M.read_wait = L.read_wait
    /\ M.read_no_write_count = L.read_no_write_count
    /\ M.write_wait = Append(L.write_wait, d) \/ M.write_wait = <<d>> \o L.write_wait

(* a writer that joins the wait queue, at its end or in front of it, keeps *)
(* the lock in order                                                       *)
LEMMA JoinWriteWaitOK ==
    ASSUME NEW L, NEW M, NEW l, NEW ty, NEW cd, NEW d, Enqueued(L, M, l, ty, cd, d)
    PROVE  /\ LockOK(M, l, ty, cd) /\ Members(M) = Members(L) \cup {d}
           /\ InQueues(M) = InQueues(L) \cup {d}
<1> USE DEF Enqueued
<1>1. Lists(L, l) /\ Roles(L, ty, cd) /\ L \in LockRecord /\ L.write_wait \in Seq(Data)
  BY DEF LockOK, Lists, LockRecord
<1> DEFINE A == Append(L.write_wait, d)  a == <<d>>  B == a \o L.write_wait  Q == M.write_wait
<1>2. d \notin ToSet(L.write_wait) /\ Distinct(L.write_wait) BY <1>1 DEF Members, Lists
<1>3. A \in Seq(Data) /\ ToSet(A) = ToSet(L.write_wait) \cup {d} /\ Distinct(A)
  BY <1>1, <1>2, AppendFacts
<1>4. B \in Seq(Data) /\ ToSet(B) = ToSet(L.write_wait) \cup {d} /\ Distinct(B)
  <2>1. a \in Seq(Data) /\ ToSet(a) = {d} /\ Distinct(a) BY DEF ToSet, Distinct
  <2> HIDE DEF a
  <2>2. ToSet(a) \cap ToSet(L.write_wait) = {} BY <2>1, <1>2
  <2> QED BY <2>1, <2>2, <1>1, <1>2, ConcatFacts
<1> HIDE DEF A, B
<1>5. Distinct(Q) /\ ToSet(Q) = ToSet(L.write_wait) \cup {d} BY <1>3, <1>4 DEF A, B
<1>6. Members(M) = Members(L) \cup {d} BY <1>5 DEF Members
<1>7. InQueues(M) = InQueues(L) \cup {d} BY <1>5 DEF InQueues
<1>8. Lists(M, l)
  <2>1. d \notin ToSet(L.read) /\ d \notin ToSet(L.write) /\ d \notin ToSet(L.read_wait) BY DEF Members
  <2>2. /\ ToSet(L.read_wait) \cap ToSet(Q) = {} /\ ToSet(L.read) \cap ToSet(Q) = {}
        /\ ToSet(L.write) \cap ToSet(Q) = {}
    BY <2>1, <1>1, <1>5 DEF Lists
  <2>3. \A e \in Members(M) : LockOf[e] = l BY <1>1, <1>6 DEF Lists
  <2> QED BY <2>2, <2>3, <1>1, <1>5 DEF Lists
<1>9. Roles(M, ty, cd)
  <2>1. \A e \in ToSet(M.write_wait) : ty[e] \in TL_WRITE_ALLOW_WRITE .. TL_WRITE /\ cd[e]
    BY <1>1, <1>5 DEF Roles
  <2>2. \A e \in Members(M) : ty[e] = TL_WRITE_CONCURRENT_INSERT => LockOf[e] \in CheckStatus
    BY <1>1, <1>6 DEF Roles
  <2> QED BY <2>1, <2>2, <1>1 DEF Roles
<1>10. LockOK(M, l, ty, cd) BY <1>8, <1>9 DEF LockOK, Counted
<1> QED BY <1>6, <1>7, <1>10

(* M is the lock L with d, a reader that was on no list, in use; the       *)
(* writers in use can stand it                                             *)
JoinedRead(L, M, l, ty, cd, d) ==
    /\ LockOK(L, l, ty, cd) /\ d \in Data /\ LockOf[d] = l /\ d \notin Members(L)
    /\ ty[d] \in TL_READ .. TL_READ_NO_INSERT /\ ~cd[d]
    /\ \A w \in ToSet(L.write) : Tolerates(w, d, ty)
    /\ M \in LockRecord /\ M.read = Append(L.read, d) /\ M.write = L.write
    /\ M.read_wait = L.read_wait /\ M.write_wait = L.write_wait
    /\ M.read_no_write_count =
         L.read_no_write_count + (IF ty[d] = TL_READ_NO_INSERT THEN 1 ELSE 0)

(* a reader that is granted the lock keeps the lock in order *)
LEMMA JoinReadOK ==
    ASSUME NEW L, NEW M, NEW l, NEW ty, NEW cd, NEW d, JoinedRead(L, M, l, ty, cd, d)
    PROVE  /\ LockOK(M, l, ty, cd) /\ Members(M) = Members(L) \cup {d}
           /\ InQueues(M) = InQueues(L)
<1> USE DEF JoinedRead
<1> DEFINE k == IF ty[d] = TL_READ_NO_INSERT THEN 1 ELSE 0
<1>1. /\ Lists(L, l) /\ Roles(L, ty, cd) /\ L \in LockRecord /\ L.read \in Seq(Data)
      /\ L.read_no_write_count \in Nat
  BY DEF LockOK, Lists, LockRecord
<1>3. M.read_no_write_count = L.read_no_write_count + k OBVIOUS
<1>5. d \notin ToSet(L.read) /\ Distinct(L.read) BY <1>1 DEF Members, Lists
<1>6. ToSet(M.read) = ToSet(L.read) \cup {d} /\ Distinct(M.read)
  BY <1>1, <1>5, AppendFacts
<1>7. Members(M) = Members(L) \cup {d} BY <1>6 DEF Members
<1>8. InQueues(M) = InQueues(L) BY DEF InQueues
<1>9. Lists(M, l)
  <2>1. d \notin ToSet(L.read_wait) /\ d \notin ToSet(L.write) /\ d \notin ToSet(L.write_wait)
    BY DEF Members
  <2> QED BY <2>1, <1>1, <1>6, <1>7 DEF Lists
<1>10. Roles(M, ty, cd) BY <1>1, <1>6, <1>7 DEF Roles
<1>11. Counted(M, ty)
  <2> DEFINE A == NoInsert(ToSet(L.read), ty)
  <2>1. IsFiniteSet(A) /\ Cardinality(A) \in Nat BY <1>1, NoInsertFinite
  <2>2. L.read_no_write_count = Cardinality(A) BY DEF LockOK, Counted, NoInsert
  <2>3. d \notin A BY <1>5 DEF NoInsert
  <2>4. NoInsert(ToSet(M.read), ty) = IF ty[d] = TL_READ_NO_INSERT THEN A \cup {d} ELSE A
    BY <1>6 DEF NoInsert
  <2> HIDE DEF A
  <2>5. Cardinality(A \cup {d}) = Cardinality(A) + 1 BY <2>1, <2>3, FS_AddElement
  <2>6. Cardinality(NoInsert(ToSet(M.read), ty)) = Cardinality(A) + k BY <2>1, <2>4, <2>5
  <2> QED BY <2>2, <2>6, <1>3 DEF Counted, NoInsert
<1>12. ReadersAgree(ToSet(M.read), ToSet(M.write), ty)
  BY <1>6 DEF LockOK, ReadersAgree
<1>13. LockOK(M, l, ty, cd) BY <1>9, <1>10, <1>11, <1>12 DEF LockOK
<1> QED BY <1>7, <1>8, <1>13

(* M is the lock L with d, a writer that was on no list, in use; the       *)
(* readers and the writers in use and d can stand each other               *)
JoinedWrite(L, M, l, ty, cd, d) ==
    /\ LockOK(L, l, ty, cd) /\ d \in Data /\ LockOf[d] = l /\ d \notin Members(L)
    /\ ty[d] \in TL_WRITE_ALLOW_WRITE .. TL_WRITE /\ ~cd[d]
    /\ ty[d] = TL_WRITE_CONCURRENT_INSERT => l \in CheckStatus
    /\ \A v \in ToSet(L.write) :
         IF OwnerOf[v] = OwnerOf[d] THEN AtLeast(ty[v], ty[d])
         ELSE ty[v] = TL_WRITE_ALLOW_WRITE /\ ty[d] = TL_WRITE_ALLOW_WRITE
    /\ \A e \in ToSet(L.read) : Tolerates(d, e, ty)
    /\ M \in LockRecord /\ M.read = L.read /\ M.write = Append(L.write, d)
    /\ M.read_wait = L.read_wait /\ M.write_wait = L.write_wait
    /\ M.read_no_write_count = L.read_no_write_count

(* a writer that is granted the lock keeps the lock in order *)
LEMMA JoinWriteOK ==
    ASSUME NEW L, NEW M, NEW l, NEW ty, NEW cd, NEW d, JoinedWrite(L, M, l, ty, cd, d)
    PROVE  /\ LockOK(M, l, ty, cd) /\ Members(M) = Members(L) \cup {d}
           /\ InQueues(M) = InQueues(L)
<1> USE DEF JoinedWrite
<1>1. Lists(L, l) /\ Roles(L, ty, cd) /\ L \in LockRecord /\ L.write \in Seq(Data)
  BY DEF LockOK, Lists, LockRecord
<1>5. d \notin ToSet(L.write) /\ Distinct(L.write) BY <1>1 DEF Members, Lists
<1>6. ToSet(M.write) = ToSet(L.write) \cup {d} /\ Distinct(M.write)
  BY <1>1, <1>5, AppendFacts
<1>7. Members(M) = Members(L) \cup {d} BY <1>6 DEF Members
<1>8. InQueues(M) = InQueues(L) BY DEF InQueues
<1>9. Lists(M, l)
  <2>1. d \notin ToSet(L.read_wait) /\ d \notin ToSet(L.read) /\ d \notin ToSet(L.write_wait)
    BY DEF Members
  <2> QED BY <2>1, <1>1, <1>6, <1>7 DEF Lists
<1>10. Roles(M, ty, cd)
  <2>1. \A e \in ToSet(M.write) : ty[e] \in TL_WRITE_ALLOW_WRITE .. TL_WRITE_ONLY /\ ~cd[e]
    BY <1>1, <1>6 DEF Roles
  <2>2. \A e \in Members(M) : ty[e] = TL_WRITE_CONCURRENT_INSERT => LockOf[e] \in CheckStatus
    BY <1>1, <1>7 DEF Roles
  <2> QED BY <2>1, <2>2, <1>1 DEF Roles
<1>11. Ordered(M.write, ty)
  <2>1. /\ DOMAIN M.write = 1 .. Len(L.write) + 1 /\ Len(L.write) \in Nat /\ DOMAIN L.write = 1 .. Len(L.write)
        /\ \A i \in DOMAIN L.write : M.write[i] = L.write[i] /\ L.write[i] \in ToSet(L.write)
        /\ M.write[Len(L.write) + 1] = d
    BY <1>1 DEF ToSet
  <2> SUFFICES ASSUME NEW i \in DOMAIN M.write, NEW j \in DOMAIN M.write, i < j,
                      OwnerOf[M.write[i]] = OwnerOf[M.write[j]]
               PROVE  AtLeast(ty[M.write[i]], ty[M.write[j]])
    BY DEF Ordered
  <2>2. i \in DOMAIN L.write BY <2>1
  <2>3. CASE j \in DOMAIN L.write BY <2>1, <2>2, <2>3 DEF LockOK, Ordered
  <2>4. CASE j = Len(L.write) + 1 BY <2>1, <2>2, <2>4
  <2> QED BY <2>1, <2>3, <2>4
<1>12. WritersAgree(ToSet(M.write), ty) BY <1>6 DEF LockOK, WritersAgree
<1>13. ReadersAgree(ToSet(M.read), ToSet(M.write), ty)
  BY <1>6 DEF LockOK, ReadersAgree
<1>14. LockOK(M, l, ty, cd) BY <1>9, <1>10, <1>11, <1>12, <1>13 DEF LockOK, Counted
<1> QED BY <1>7, <1>8, <1>14

-----------------------------------------------------------------------------
(* The steps that change one lock *)

(* one owner moves, and on one lock others are granted, thrown out or marked *)
LEMMA OneLockChanges ==
    ASSUME ThrInv, NEW l0 \in Lock, NEW L, lock' = [lock EXCEPT ![l0] = L],
           Typed', DelayedTypes(type'), LockOK(L, l0, type', cond'),
           NEW o \in Owner, OwnerInv(o)',
           \A p \in Owner \ {o} : pc'[p] = pc[p] /\ locks'[p] = locks[p] /\ pos'[p] = pos[p],
           \A e \in Data : LockOf[e] # l0 => type'[e] = type[e] /\ cond'[e] = cond[e],
           \A e \in Data : LockOf[e] = l0 /\ OwnerOf[e] # o => Kept(e) \/ Aborted(e) \/ Marked(e)
    PROVE  ThrInv'
<1>1. lock \in [Lock -> LockRecord] BY DEF ThrInv, Typed
<1>2. lock'[l0] = L /\ \A l \in Lock \ {l0} : lock'[l] = lock[l] BY <1>1
<1>3. \A l \in Lock : LockOK(lock[l], l, type, cond) BY DEF ThrInv
<1>6. LockOK(lock'[l0], l0, type', cond') BY <1>2
<1>4. ASSUME NEW l \in Lock PROVE LockOK(lock'[l], l, type', cond')
  <2>1. CASE l = l0 BY <2>1, <1>6
  <2>2. CASE l # l0
    <3>1. LockOK(lock[l], l, type, cond) /\ lock'[l] = lock[l] BY <2>2, <1>2, <1>3
    <3>2. \A e \in Members(lock[l]) : e \in Data /\ LockOf[e] = l
      BY <3>1, MembersAreData DEF LockOK, Lists, Members
    <3>3. \A e \in Members(lock[l]) : type'[e] = type[e] /\ cond'[e] = cond[e] BY <2>2, <3>2
    <3>4. LockOK(lock[l], l, type', cond') BY <3>1, <3>3, FrameOK
    <3> QED BY <3>1, <3>4
  <2> QED BY <2>1, <2>2
<1>5. ASSUME NEW p \in Owner \ {o} PROVE OwnerInv(p)'
  <2>1. ASSUME NEW e \in Data, OwnerOf[e] = p PROVE Kept(e) \/ Aborted(e) \/ Marked(e)
    <3>1. CASE LockOf[e] = l0 BY <3>1, <2>1
    <3>2. CASE LockOf[e] # l0
      <4>1. LockOf[e] \in Lock BY DataFacts
      <4>2. lock'[LockOf[e]] = lock[LockOf[e]] BY <4>1, <3>2, <1>2
      <4>3. (Linked(e)' <=> Linked(e)) /\ (Queued(e)' => Queued(e)) BY <4>2 DEF Linked, Queued, Waiting
      <4> QED BY <4>3, <3>2 DEF Kept
    <3> QED BY <3>1, <3>2
  <2> QED BY <2>1, OtherOwner
<1> QED BY <1>4, <1>5 DEF ThrInv

(* d joined a lock: the others are where they were *)
LEMMA Joined ==
    ASSUME ThrInv, NEW d \in Data, NEW L, lock' = [lock EXCEPT ![LockOf[d]] = L],
           Members(L) = Members(lock[LockOf[d]]) \cup {d},
           InQueues(L) \subseteq InQueues(lock[LockOf[d]]) \cup {d}
    PROVE  /\ Linked(d)'
           /\ \A e \in Data \ {d} : (Linked(e)' <=> Linked(e)) /\ (Queued(e)' => Queued(e))
           /\ d \notin InQueues(L) => ~Queued(d)'
<1>1. lock \in [Lock -> LockRecord] BY DEF ThrInv, Typed
<1>2. LockOf[d] \in Lock BY DataFacts
<1>3. lock'[LockOf[d]] = L /\ \A l \in Lock \ {LockOf[d]} : lock'[l] = lock[l] BY <1>1, <1>2
<1>4. Linked(d)' BY <1>3 DEF Linked
<1>5. ASSUME NEW e \in Data \ {d} PROVE (Linked(e)' <=> Linked(e)) /\ (Queued(e)' => Queued(e))
  <2>1. CASE LockOf[e] = LockOf[d] BY <2>1, <1>3 DEF Linked, Queued, Waiting, InQueues
  <2>2. CASE LockOf[e] # LockOf[d]
    <3>1. LockOf[e] \in Lock BY DataFacts
    <3>2. lock'[LockOf[e]] = lock[LockOf[e]] BY <3>1, <2>2, <1>3
    <3> QED BY <3>2 DEF Linked, Queued, Waiting
  <2> QED BY <2>1, <2>2
<1>6. d \notin InQueues(L) => ~Queued(d)' BY <1>3 DEF Queued, Waiting, InQueues
<1> QED BY <1>4, <1>5, <1>6

(* thr_lock for d is done: d is on one of the lists and the array goes on *)
LEMMA JoinStep ==
    ASSUME ThrInv, NEW o \in Owner, pc[o] = "locking", Advance(o), locks' = locks,
           asked' = asked, abort' = abort,
           NEW d \in Data, d = Cur(o), NEW t, NEW b \in BOOLEAN,
           type' = [type EXCEPT ![d] = t], cond' = [cond EXCEPT ![d] = b],
           type' \in [Data -> LockType], DelayedTypes(type'),
           t = type[d] \/ t \in {TL_WRITE_LOW_PRIORITY, TL_WRITE},
           NEW L, lock' = [lock EXCEPT ![LockOf[d]] = L], LockOK(L, LockOf[d], type', cond'),
           Members(L) = Members(lock[LockOf[d]]) \cup {d},
           \/ InQueues(L) = InQueues(lock[LockOf[d]])
           \/ InQueues(L) = InQueues(lock[LockOf[d]]) \cup {d} /\ o \in Delayed /\ t = TL_WRITE_DELAYED
    PROVE  ThrInv'
<1>1. OwnerOf[d] = o /\ ~Linked(d) /\ LockOf[d] \in Lock BY CurFacts
<1>2. /\ cond \in [Data -> BOOLEAN] /\ type \in [Data -> LockType]
      /\ pc \in [Owner -> Where] /\ pos \in [Owner -> Nat \ {0}] /\ lock \in [Lock -> LockRecord]
  BY DEF ThrInv, Typed
<1>3. /\ Linked(d)'
      /\ \A e \in Data \ {d} : (Linked(e)' <=> Linked(e)) /\ (Queued(e)' => Queued(e))
      /\ d \notin InQueues(L) => ~Queued(d)'
  BY Joined
<1>4. /\ type'[d] = t /\ cond' \in [Data -> BOOLEAN]
      /\ \A e \in Data \ {d} : type'[e] = type[e] /\ cond'[e] = cond[e]
  BY <1>2
<1>5. d \notin InQueues(lock[LockOf[d]]) BY <1>1 DEF Linked, InQueues, Members
<1>6. Queued(d)' => o \in Delayed /\ type'[d] = TL_WRITE_DELAYED BY <1>3, <1>4, <1>5
<1>7. OwnerInv(o)'
  <2>1. \A e \in Data : OwnerOf[e] = o /\ e # d =>
               type'[e] = type[e] /\ (Linked(e)' <=> Linked(e)) /\ (Queued(e)' => Queued(e))
    BY <1>3, <1>4
  <2> QED BY <2>1, <1>3, <1>4, <1>6, AdvanceOK
<1>8. \A p \in Owner \ {o} : pc'[p] = pc[p] /\ locks'[p] = locks[p] /\ pos'[p] = pos[p]
  BY <1>2 DEF Advance
<1>9. Typed'
  <2>1. pos' \in [Owner -> Nat \ {0}] /\ pc' \in [Owner -> Where] BY <1>2 DEF Advance, Where
  <2>2. L \in LockRecord BY DEF LockOK, Lists
  <2>3. lock' \in [Lock -> LockRecord] BY <2>2, <1>1, <1>2
  <2> QED BY <2>1, <2>3, <1>4 DEF ThrInv, Typed
<1>10. \A e \in Data : OwnerOf[e] # o => Kept(e) BY <1>1, <1>3, <1>4 DEF Kept
<1>11. \A e \in Data : LockOf[e] # LockOf[d] => type'[e] = type[e] /\ cond'[e] = cond[e] BY <1>4
<1> QED BY <1>1, <1>7, <1>8, <1>9, <1>10, <1>11, OneLockChanges

(* a delayed handler queues without waiting *)
LEMMA LockDelayedQueuedOK ==
    ASSUME ThrInv, NEW o \in Owner, LockDelayedQueued(o)
    PROVE  ThrInv'
<1>1. /\ pc[o] = "locking" /\ Advance(o) /\ locks' = locks /\ asked' = asked /\ abort' = abort
      /\ type' = type
  BY DEF LockDelayedQueued
<1>2. PICK d \in Data : d = Cur(o) /\ ~Linked(d) /\ OwnerOf[d] = o /\ LockOf[d] \in Lock
  BY <1>1, CurFacts
<1> DEFINE l == LockOf[d]  M == [lock[l] EXCEPT !.write_wait = Append(@, d)]
<1>3. /\ DelayedQueued(lock[l], type[d]) /\ cond' = [cond EXCEPT ![d] = TRUE]
      /\ lock' = [lock EXCEPT ![l].write_wait = Append(@, d)]
  BY <1>2 DEF LockDelayedQueued
<1>4. /\ cond \in [Data -> BOOLEAN] /\ type \in [Data -> LockType] /\ DelayedTypes(type)
      /\ lock \in [Lock -> LockRecord] /\ LockOK(lock[l], l, type, cond)
  BY <1>2 DEF ThrInv, Typed
<1>5. type[d] = TL_WRITE_DELAYED /\ o \in Delayed BY <1>2, <1>3, <1>4 DEF DelayedQueued, DelayedTypes
<1>6. d \notin Members(lock[l]) /\ Members(lock[l]) \subseteq Data
  BY <1>2, <1>4, MembersAreData DEF Linked, LockOK, Lists, Members
<1>7. LockOK(lock[l], l, type, cond')
  <2>1. \A e \in Members(lock[l]) : type[e] = type[e] /\ cond'[e] = cond[e] BY <1>3, <1>4, <1>6
  <2> QED BY <2>1, <1>4, FrameOK
<1>8. cond'[d] BY <1>3, <1>4
<1>9. lock' = [lock EXCEPT ![l] = M] BY <1>3
<1>10. /\ LockOK(M, l, type, cond') /\ Members(M) = Members(lock[l]) \cup {d}
       /\ InQueues(M) = InQueues(lock[l]) \cup {d}
  <2>1. /\ type[d] \in TL_WRITE_ALLOW_WRITE .. TL_WRITE
        /\ type[d] = TL_WRITE_CONCURRENT_INSERT => l \in CheckStatus
    BY <1>5
  <2>2. lock[l] \in LockRecord BY <1>2, <1>4
  <2>3. Append(lock[l].write_wait, d) \in Seq(Data) BY <2>2 DEF LockRecord
  <2>4. M \in LockRecord BY <2>2, <2>3 DEF LockRecord
  <2>5. /\ M.read = lock[l].read /\ M.write = lock[l].write /\ M.read_wait = lock[l].read_wait
        /\ M.write_wait = Append(lock[l].write_wait, d)
        /\ M.read_no_write_count = lock[l].read_no_write_count
    BY <2>2 DEF LockRecord
  <2>6. LockOf[d] = l /\ d \notin Members(lock[l]) BY <1>6
  <2> HIDE DEF M, l
  <2>7. Enqueued(lock[l], M, l, type, cond', d) BY <2>1, <2>4, <2>5, <2>6, <1>7, <1>8 DEF Enqueued
  <2> QED BY <2>7, JoinWriteWaitOK
<1>11. type' = [type EXCEPT ![d] = type[d]] BY <1>1, <1>4
<1>12. type' \in [Data -> LockType] /\ DelayedTypes(type') /\ TRUE \in BOOLEAN BY <1>1, <1>4
<1>13. LockOK(M, l, type', cond') BY <1>1, <1>10
<1> HIDE DEF M
<1> QED BY <1>1, <1>2, <1>3, <1>5, <1>9, <1>10, <1>11, <1>12, <1>13, JoinStep, Zenon

(* the data that thr_lock is called for gets its type and its flag; it is  *)
(* on no list, so that the lock stays in order                             *)
LEMMA SetForLock ==
    ASSUME ThrInv, NEW d \in Data, ~Linked(d), NEW t, NEW b \in BOOLEAN,
           type' = [type EXCEPT ![d] = t], cond' = [cond EXCEPT ![d] = b]
    PROVE  /\ LockOK(lock[LockOf[d]], LockOf[d], type, cond)
           /\ LockOK(lock[LockOf[d]], LockOf[d], type', cond')
           /\ lock[LockOf[d]] \in LockRecord /\ Members(lock[LockOf[d]]) \subseteq Data
           /\ d \notin Members(lock[LockOf[d]]) /\ LockOf[d] \in Lock
           /\ type'[d] = t /\ cond'[d] = b /\ cond' \in [Data -> BOOLEAN]
           /\ \A e \in Data \ {d} : type'[e] = type[e] /\ cond'[e] = cond[e]
<1>1. LockOf[d] \in Lock BY DataFacts
<1>2. /\ cond \in [Data -> BOOLEAN] /\ type \in [Data -> LockType] /\ lock \in [Lock -> LockRecord]
  BY DEF ThrInv, Typed
<1>3. LockOK(lock[LockOf[d]], LockOf[d], type, cond) /\ lock[LockOf[d]] \in LockRecord
  BY <1>1, <1>2 DEF ThrInv
<1>4. d \notin Members(lock[LockOf[d]]) /\ Members(lock[LockOf[d]]) \subseteq Data
  BY <1>3, MembersAreData DEF Linked, Members
<1>5. /\ type'[d] = t /\ cond'[d] = b /\ cond' \in [Data -> BOOLEAN]
      /\ \A e \in Data \ {d} : type'[e] = type[e] /\ cond'[e] = cond[e]
  BY <1>2
<1>6. \A e \in Members(lock[LockOf[d]]) : type'[e] = type[e] /\ cond'[e] = cond[e]
  BY <1>4, <1>5
<1>7. LockOK(lock[LockOf[d]], LockOf[d], type', cond')
  <2> DEFINE l == LockOf[d]  L == lock[l]
  <2>1. LockOK(L, l, type, cond) BY <1>3
  <2>2. \A e \in Members(L) : type'[e] = type[e] /\ cond'[e] = cond[e] BY <1>6
  <2> HIDE DEF L, l
  <2>3. Framed(L, l, type, cond, type', cond') BY <2>1, <2>2 DEF Framed
  <2>4. LockOK(L, l, type', cond') BY <2>3, FramedOK
  <2> QED BY <2>4 DEF L, l
<1> QED BY <1>1, <1>3, <1>4, <1>5, <1>7

(* thr_lock grants a read lock only if every writer in use tolerates it:   *)
(* it looks at the first writer, whose owner's other locks are weaker      *)
LEMMA ReadGrantedOK ==
    ASSUME ThrInv, NEW d \in Data, ~Linked(d), NEW t \in TL_READ .. TL_READ_NO_INSERT,
           ReadGranted(lock[LockOf[d]], d, t),
           NEW w \in ToSet(lock[LockOf[d]].write)
    PROVE  \/ OwnerOf[d] = OwnerOf[w]
           \/ /\ type[w] <= TL_WRITE_DELAYED
              /\ type[w] = TL_WRITE_CONCURRENT_INSERT => t # TL_READ_NO_INSERT
<1> DEFINE l == LockOf[d]  L == lock[l]  h == L.write[1]
<1>1. l \in Lock BY DataFacts
<1>2. LockOK(L, l, type, cond) /\ L \in LockRecord /\ type \in [Data -> LockType] /\ DelayedTypes(type)
  BY <1>1 DEF ThrInv, Typed
<1> HIDE DEF L, l
<1>3. L.write \in Seq(Data) BY <1>2 DEF LockRecord
<1>4. PICK j \in DOMAIN L.write : L.write[j] = w BY InList DEF L, l
<1>5. /\ L.write # << >> /\ 1 \in DOMAIN L.write /\ j \in Nat /\ 1 <= j /\ Head(L.write) = h
      /\ h \in Data /\ w \in Data /\ h \in ToSet(L.write) /\ w \in ToSet(L.write)
  BY <1>3, <1>4 DEF ToSet
<1>6. WritersAgree(ToSet(L.write), type) /\ Ordered(L.write, type) BY <1>2 DEF LockOK
<1>7. type[w] = TL_WRITE_ALLOW_WRITE \/ OwnerOf[w] = OwnerOf[h] BY <1>5, <1>6 DEF WritersAgree
<1>8. \/ OwnerOf[d] = OwnerOf[h]
      \/ /\ type[h] <= TL_WRITE_DELAYED
         /\ t <= TL_READ_HIGH_PRIORITY \/ type[h] \notin {TL_WRITE_CONCURRENT_INSERT, TL_WRITE_ALLOW_READ}
  BY <1>5 DEF ReadGranted, Empty, L, l
<1> HIDE DEF h
<1>9. type[h] \in 0 .. 11 /\ type[w] \in 0 .. 11 BY <1>2, <1>5
<1>10. CASE type[w] = TL_WRITE_ALLOW_WRITE BY <1>10
<1>11. CASE OwnerOf[w] = OwnerOf[h] /\ OwnerOf[d] # OwnerOf[h]
  <2>1. CASE j = 1 
    <3>1. w = h BY <2>1, <1>4 DEF h
    <3> QED BY <3>1, <1>8, <1>9, <1>11
  <2>2. CASE j # 1
    <3>1. AtLeast(type[h], type[w])
      <4>1. 1 < j BY <2>2, <1>5
      <4> QED BY <4>1, <1>4, <1>5, <1>6, <1>11 DEF Ordered, h
    <3>2. type[h] >= type[w] BY <3>1, <1>8, <1>9, <1>11 DEF AtLeast
    <3>3. h # w
      <4>1. Distinct(L.write) BY <1>2 DEF LockOK, Lists
      <4> QED BY <4>1, <2>2, <1>4, <1>5 DEF Distinct, h
    <3>4. type[h] # TL_WRITE_DELAYED
      <4> SUFFICES ASSUME type[h] = TL_WRITE_DELAYED PROVE FALSE OBVIOUS
      <4>1. OwnerOf[h] \in Delayed BY <1>2, <1>5 DEF DelayedTypes
      <4> QED BY <4>1, <3>3, <1>5, <1>11, OneData
    <3> QED BY <3>2, <3>4, <1>8, <1>9, <1>11
  <2> QED BY <2>1, <2>2
<1> QED BY <1>7, <1>10, <1>11

(* what an owner already has in use on the lock it locks next is at least  *)
(* as strong as what it asks for: the array is sorted                      *)
LEMMA StrongerFirst ==
    ASSUME ThrInv, NEW o \in Owner, pc[o] = "locking", NEW d \in Data, d = Cur(o), ~Linked(d),
           NEW full, NEW t, t = RequestType(lock[LockOf[d]], d, full),
           ~Empty(lock[LockOf[d]].write),
           NEW v \in Data, Linked(v), OwnerOf[v] = o, LockOf[v] = LockOf[d]
    PROVE  AtLeast(type[v], t) /\ type[v] # TL_WRITE_DELAYED
<1>1. OwnerOf[d] = o /\ type[d] \in TL_READ .. TL_WRITE /\ pos[o] \in DOMAIN locks[o]
  BY CurFacts
<1>2. v # d OBVIOUS
<1>3. type \in [Data -> LockType] /\ DelayedTypes(type) BY DEF ThrInv, Typed
<1>4. type[v] \in 0 .. 11 /\ type[v] # TL_UNLOCK BY <1>3, DataFacts
<1>5. type[v] # TL_WRITE_DELAYED
  <2> SUFFICES ASSUME type[v] = TL_WRITE_DELAYED PROVE FALSE OBVIOUS
  <2>1. OwnerOf[v] \in Delayed BY <1>3 DEF DelayedTypes
  <2> QED BY <2>1, <1>1, <1>2, OneData
<1>6. AtLeast(type[v], type[d])
  <2>1. PICK i \in DOMAIN locks[o] : locks[o][i] = v /\ Called(o, i) BY DEF ThrInv, OwnerInv, Placed
  <2>2. i < pos[o] BY <2>1 DEF Called
  <2>3. Untried(o, pos[o]) BY ArrayFacts DEF Untried
  <2>4. Sorted(o) BY DEF ThrInv, OwnerInv
  <2>5. type[v] = TL_UNLOCK \/ AtLeast(type[v], type[d])
    BY <2>1, <2>2, <2>3, <2>4, <1>1 DEF Sorted, Cur
  <2> QED BY <2>5, <1>4
<1>7. CASE t = type[d] BY <1>5, <1>6, <1>7
<1>8. CASE t # type[d]
  <2>1. type[d] = TL_WRITE_CONCURRENT_INSERT /\ LockOf[d] \notin CheckStatus
    BY <1>8 DEF RequestType
  <2>2. Roles(lock[LockOf[v]], type, cond) BY DataFacts DEF ThrInv, LockOK
  <2>3. type[v] # TL_WRITE_CONCURRENT_INSERT BY <2>1, <2>2 DEF Roles, Linked
  <2> QED BY <2>1, <2>3, <1>4, <1>5, <1>6 DEF AtLeast
<1> QED BY <1>7, <1>8

(* thr_lock grants a write lock only if every writer and every reader in   *)
(* use can stand it                                                        *)
LEMMA WriteGrantedOK ==
    ASSUME ThrInv, NEW o \in Owner, pc[o] = "locking", NEW d \in Data, d = Cur(o), ~Linked(d),
           NEW full, NEW t \in TL_WRITE_ALLOW_WRITE .. TL_WRITE,
           t = RequestType(lock[LockOf[d]], d, full),
           WriteGranted(lock[LockOf[d]], d, t), ~Refused(lock[LockOf[d]], d, t)
    PROVE  /\ \A v \in ToSet(lock[LockOf[d]].write) :
                IF OwnerOf[v] = OwnerOf[d] THEN AtLeast(type[v], t)
                ELSE type[v] = TL_WRITE_ALLOW_WRITE /\ t = TL_WRITE_ALLOW_WRITE
           /\ \A e \in ToSet(lock[LockOf[d]].read) :
                \/ OwnerOf[e] = OwnerOf[d]
                \/ /\ t <= TL_WRITE_DELAYED
                   /\ t = TL_WRITE_CONCURRENT_INSERT => type[e] # TL_READ_NO_INSERT
<1> DEFINE l == LockOf[d]  L == lock[l]  h == L.write[1]
<1>1. l \in Lock /\ OwnerOf[d] = o BY DataFacts, CurFacts
<1>2. LockOK(L, l, type, cond) /\ L \in LockRecord /\ type \in [Data -> LockType] /\ DelayedTypes(type)
  BY <1>1 DEF ThrInv, Typed
<1>3. ASSUME ~Empty(L.write), NEW v \in ToSet(L.write), OwnerOf[v] = o
      PROVE  v \in Data /\ AtLeast(type[v], t) /\ type[v] # TL_WRITE_DELAYED
  <2>1. v \in Data /\ LockOf[v] = LockOf[d] BY <1>2, <1>3, MembersAreData DEF LockOK, Lists, Members
  <2>2. Linked(v) BY <2>1, <1>3 DEF Linked, Members
  <2> QED BY <2>1, <2>2, <1>3, StrongerFirst
<1>4. WriteGranted(L, d, t) /\ ~Refused(L, d, t) OBVIOUS
<1> SUFFICES /\ \A v \in ToSet(L.write) :
                IF OwnerOf[v] = o THEN AtLeast(type[v], t)
                ELSE type[v] = TL_WRITE_ALLOW_WRITE /\ t = TL_WRITE_ALLOW_WRITE
             /\ \A e \in ToSet(L.read) :
                \/ OwnerOf[e] = o
                \/ /\ t <= TL_WRITE_DELAYED
                   /\ t = TL_WRITE_CONCURRENT_INSERT => type[e] # TL_READ_NO_INSERT
  BY <1>1
<1> HIDE DEF L, l
<1>5. L.write \in Seq(Data) /\ L.read \in Seq(Data) BY <1>2 DEF LockRecord
<1>6. \A v \in ToSet(L.write) : v \in Data /\ type[v] \in 5 .. 11
  BY <1>2, MembersAreData DEF LockOK, Roles
<1>7. CASE Empty(L.write)
  <2>1. ToSet(L.write) = {} BY <1>7 DEF Empty, ToSet
  <2>2. CASE Empty(L.read)
    <3>1. ToSet(L.read) = {} BY <2>2 DEF Empty, ToSet
    <3> QED BY <2>1, <3>1
  <2>3. CASE ~Empty(L.read)
    <3>1. /\ t <= TL_WRITE_DELAYED 
          /\ t = TL_WRITE_CONCURRENT_INSERT => L.read_no_write_count = 0
      BY <1>4, <1>7, <2>3 DEF WriteGranted
    <3>2. L.read_no_write_count = 0 => \A e \in ToSet(L.read) : type[e] # TL_READ_NO_INSERT
      BY <1>2, NoneCounted DEF LockOK
    <3> QED BY <2>1, <3>1, <3>2
  <2> QED BY <2>2, <2>3
<1>8. CASE ~Empty(L.write)
  <2>1. h \in ToSet(L.write) /\ h \in Data /\ Head(L.write) = h /\ 1 \in DOMAIN L.write
    BY <1>5, <1>8 DEF Empty, ToSet
  <2>2. type[h] # TL_WRITE_ONLY BY <2>1, <1>4, <1>8 DEF Refused, HeadType, IsRead
  <2>3. \A v \in ToSet(L.write) : \/ OwnerOf[v] = OwnerOf[h]
                                  \/ type[v] = TL_WRITE_ALLOW_WRITE /\ type[h] = TL_WRITE_ALLOW_WRITE
    BY <2>1, <1>2 DEF LockOK, WritersAgree
  <2>4. \A e \in ToSet(L.read) : Tolerates(h, e, type) BY <2>1, <1>2 DEF LockOK, ReadersAgree
  <2> HIDE DEF h
  <2>5. CASE OwnerOf[h] = o
    <3>1. AtLeast(type[h], t) /\ type[h] # TL_WRITE_DELAYED BY <2>1, <2>5, <1>3, <1>8
    <3>2. type[h] \in 5 .. 11 BY <2>1, <1>6
    <3>3. ASSUME NEW v \in ToSet(L.write), OwnerOf[v] # o 
          PROVE  type[v] = TL_WRITE_ALLOW_WRITE /\ t = TL_WRITE_ALLOW_WRITE
      BY <3>1, <3>3, <2>3, <2>5 DEF AtLeast
    <3>4. ASSUME NEW e \in ToSet(L.read), OwnerOf[e] # o
          PROVE  /\ t <= TL_WRITE_DELAYED
                 /\ t = TL_WRITE_CONCURRENT_INSERT => type[e] # TL_READ_NO_INSERT
      <4>1. /\ type[h] <= TL_WRITE_DELAYED
            /\ type[h] = TL_WRITE_CONCURRENT_INSERT => type[e] # TL_READ_NO_INSERT
        BY <3>4, <2>2, <2>4, <2>5 DEF Tolerates
      <4> QED BY <4>1, <3>1, <3>2 DEF AtLeast
    <3> QED BY <3>3, <3>4, <1>3, <1>8
  <2>6. CASE t = TL_WRITE_ALLOW_WRITE /\ type[h] = TL_WRITE_ALLOW_WRITE
    <3>1. ASSUME NEW v \in ToSet(L.write), OwnerOf[v] # o PROVE type[v] = TL_WRITE_ALLOW_WRITE
      <4>1. CASE OwnerOf[v] # OwnerOf[h] BY <4>1, <2>3
      <4>2. CASE OwnerOf[v] = OwnerOf[h]
        <5>1. PICK j \in DOMAIN L.write : L.write[j] = v BY InList
        <5>2. j = 1 \/ 1 < j BY <1>5
        <5>3. CASE j = 1 BY <5>1, <5>3, <2>6 DEF h
        <5>4. CASE 1 < j
          <6>1. AtLeast(type[h], type[v]) BY <5>1, <5>4, <4>2, <2>1, <1>2 DEF LockOK, Ordered, h
          <6> QED BY <6>1, <2>6, <1>6 DEF AtLeast
        <5> QED BY <5>2, <5>3, <5>4
      <4> QED BY <4>1, <4>2
    <3>2. \A v \in ToSet(L.write) : AtLeast(type[v], t) BY <2>6, <1>6 DEF AtLeast
    <3> QED BY <3>1, <3>2, <2>6
  <2>7. OwnerOf[h] = o \/ (t = TL_WRITE_ALLOW_WRITE /\ type[h] = TL_WRITE_ALLOW_WRITE)
    BY <2>1, <1>1, <1>4, <1>8 DEF WriteGranted, HeadType
  <2> QED BY <2>5, <2>6, <2>7
<1> QED BY <1>7, <1>8

(* thr_lock grants the lock at once *)
LEMMA LockGrantedOK ==
    ASSUME ThrInv, NEW o \in Owner, LockGranted(o)
    PROVE  ThrInv'
<1>1. /\ pc[o] = "locking" /\ Advance(o) /\ locks' = locks /\ asked' = asked /\ abort' = abort
  BY DEF LockGranted
<1>2. PICK d \in Data : /\ d = Cur(o) /\ ~Linked(d) /\ OwnerOf[d] = o
                        /\ type[d] \in TL_READ .. TL_WRITE
  BY <1>1, CurFacts
<1> DEFINE l == LockOf[d]  L == lock[l]
<1>3. PICK full \in BOOLEAN :
        /\ Granted(L, d, RequestType(L, d, full))
        /\ type' = [type EXCEPT ![d] = RequestType(L, d, full)]
        /\ lock' = [lock EXCEPT ![l] =
              IF IsRead(RequestType(L, d, full))
                THEN [L EXCEPT !.read = Append(@, d),
                               !.read_no_write_count =
                                   @ + (IF RequestType(L, d, full) = TL_READ_NO_INSERT THEN 1 ELSE 0)]
                ELSE [L EXCEPT !.write = Append(@, d)]]
        /\ cond' = [cond EXCEPT ![d] = FALSE]
  BY <1>2, Zenon DEF LockGranted
<1>4. PICK t : t = RequestType(L, d, full) OBVIOUS
<1>5. /\ t \in TL_READ .. TL_WRITE /\ (t = TL_WRITE_CONCURRENT_INSERT => l \in CheckStatus)
      /\ t = type[d] \/ t \in {TL_WRITE_LOW_PRIORITY, TL_WRITE}
      /\ DelayedTypes([type EXCEPT ![d] = t]) /\ [type EXCEPT ![d] = t] \in [Data -> LockType]
  <2>1. t \in TL_READ .. TL_WRITE /\ (t = TL_WRITE_CONCURRENT_INSERT => LockOf[d] \in CheckStatus)
    BY <1>2, <1>4, ThrLockAssumption DEF RequestType, ThrLockAssumption
  <2>2. DelayedTypes([type EXCEPT ![d] = t]) /\ [type EXCEPT ![d] = t] \in [Data -> LockType]
    BY <1>2, <1>4, RequestTypeIs
  <2>3. t = type[d] \/ t \in {TL_WRITE_LOW_PRIORITY, TL_WRITE}
    BY <1>4, ThrLockAssumption DEF RequestType, ThrLockAssumption
  <2> QED BY <2>1, <2>2, <2>3
<1>6. /\ type' = [type EXCEPT ![d] = t] /\ cond' = [cond EXCEPT ![d] = FALSE]
      /\ Granted(L, d, t) /\ FALSE \in BOOLEAN
  BY <1>3, <1>4
<1>7. type' \in [Data -> LockType] /\ DelayedTypes(type') BY <1>5, <1>6
<1>8. /\ LockOK(L, l, type, cond) /\ LockOK(L, l, type', cond')
      /\ L \in LockRecord /\ Members(L) \subseteq Data /\ d \notin Members(L) /\ l \in Lock
      /\ type'[d] = t /\ ~cond'[d] /\ \A e \in Data \ {d} : type'[e] = type[e] /\ cond'[e] = cond[e]
  BY <1>2, <1>6, SetForLock
<1>9. /\ L.read \in Seq(Data) /\ L.write \in Seq(Data) /\ L.read_no_write_count \in Nat
      /\ Append(L.read, d) \in Seq(Data) /\ Append(L.write, d) \in Seq(Data)
  <2>1. L.read \in Seq(Data) /\ L.write \in Seq(Data) /\ L.read_no_write_count \in Nat
    BY <1>8 DEF LockRecord
  <2> QED BY <2>1
<1>10. ToSet(L.read) \subseteq Members(L) /\ ToSet(L.write) \subseteq Members(L) BY DEF Members
<1>11. \A e \in Members(L) : e \in Data /\ e # d /\ type'[e] = type[e] BY <1>8
<1>12. PICK k \in Nat : k = L.read_no_write_count + (IF t = TL_READ_NO_INSERT THEN 1 ELSE 0) BY <1>9
<1> DEFINE R == [L EXCEPT !.read = Append(@, d), !.read_no_write_count = k]
           W == [L EXCEPT !.write = Append(@, d)]
           M == IF IsRead(t) THEN R ELSE W
<1>13. lock' = [lock EXCEPT ![l] = M]
  <2>1. lock' = [lock EXCEPT ![l] =
              IF IsRead(t)
                THEN [L EXCEPT !.read = Append(@, d),
                               !.read_no_write_count =
                                   @ + (IF t = TL_READ_NO_INSERT THEN 1 ELSE 0)]
                ELSE [L EXCEPT !.write = Append(@, d)]]
    BY <1>3, <1>4, Zenon
  <2>2. R = [L EXCEPT !.read = Append(@, d),
                      !.read_no_write_count = @ + (IF t = TL_READ_NO_INSERT THEN 1 ELSE 0)]
    BY <1>8, <1>12 DEF LockRecord
  <2> HIDE DEF L, l
  <2> QED BY <2>1, <2>2, Zenon
<1>14. /\ R \in LockRecord /\ R.read = Append(L.read, d) /\ R.write = L.write
       /\ R.read_wait = L.read_wait /\ R.write_wait = L.write_wait /\ R.read_no_write_count = k
  BY <1>8, <1>9 DEF LockRecord
<1>15. /\ W \in LockRecord /\ W.read = L.read /\ W.write = Append(L.write, d)
       /\ W.read_wait = L.read_wait /\ W.write_wait = L.write_wait
       /\ W.read_no_write_count = L.read_no_write_count
  BY <1>8, <1>9 DEF LockRecord
<1>16. LockOf[d] = l OBVIOUS
<1>17. /\ LockOK(M, l, type', cond') /\ Members(M) = Members(L) \cup {d}
       /\ InQueues(M) = InQueues(L)
  <2>1. CASE IsRead(t)
    <3>1. t \in TL_READ .. TL_READ_NO_INSERT /\ ReadGranted(L, d, t)
      BY <1>5, <1>6, <2>1 DEF IsRead, Granted
    <3>2. \A w \in ToSet(L.write) : \/ OwnerOf[d] = OwnerOf[w]
                                    \/ /\ type[w] <= TL_WRITE_DELAYED
                                       /\ type[w] = TL_WRITE_CONCURRENT_INSERT => t # TL_READ_NO_INSERT
      BY <3>1, <1>2, ReadGrantedOK
    <3> HIDE DEF R, W, L, l
    <3>3. \A w \in ToSet(L.write) : Tolerates(w, d, type')
      BY <3>2, <1>8, <1>10, <1>11 DEF Tolerates
    <3>4. JoinedRead(L, R, l, type', cond', d)
      BY <3>1, <3>3, <1>8, <1>12, <1>14, <1>16 DEF JoinedRead
    <3>5. /\ LockOK(R, l, type', cond') /\ Members(R) = Members(L) \cup {d}
          /\ InQueues(R) = InQueues(L)
      BY <3>4, JoinReadOK
    <3> QED BY <3>5, <2>1
  <2>2. CASE ~IsRead(t)
    <3>1. t \in TL_WRITE_ALLOW_WRITE .. TL_WRITE /\ WriteGranted(L, d, t) /\ ~Refused(L, d, t)
      BY <1>5, <1>6, <2>2 DEF IsRead, Granted
    <3>2. /\ \A v \in ToSet(L.write) :
                IF OwnerOf[v] = OwnerOf[d] THEN AtLeast(type[v], t)
                ELSE type[v] = TL_WRITE_ALLOW_WRITE /\ t = TL_WRITE_ALLOW_WRITE
          /\ \A e \in ToSet(L.read) :
                \/ OwnerOf[e] = OwnerOf[d]
                \/ /\ t <= TL_WRITE_DELAYED
                   /\ t = TL_WRITE_CONCURRENT_INSERT => type[e] # TL_READ_NO_INSERT
      BY <3>1, <1>1, <1>2, <1>4, WriteGrantedOK
    <3> HIDE DEF R, W, L, l
    <3>3. \A e \in ToSet(L.read) : Tolerates(d, e, type')
      BY <3>2, <1>8, <1>10, <1>11 DEF Tolerates
    <3>4. \A v \in ToSet(L.write) :
             IF OwnerOf[v] = OwnerOf[d] THEN AtLeast(type'[v], type'[d])
             ELSE type'[v] = TL_WRITE_ALLOW_WRITE /\ type'[d] = TL_WRITE_ALLOW_WRITE
      BY <3>2, <1>8, <1>10, <1>11
    <3>5. JoinedWrite(L, W, l, type', cond', d)
      BY <3>1, <3>3, <3>4, <1>5, <1>8, <1>15, <1>16 DEF JoinedWrite
    <3>6. /\ LockOK(W, l, type', cond') /\ Members(W) = Members(L) \cup {d}
          /\ InQueues(W) = InQueues(L)
      BY <3>5, JoinWriteOK
    <3> QED BY <3>6, <2>2
  <2> QED BY <2>1, <2>2
<1> HIDE DEF M
<1> QED BY <1>1, <1>2, <1>5, <1>6, <1>7, <1>13, <1>17, JoinStep, Zenon

(* thr_lock for d goes to sleep: d is in a wait queue *)
LEMMA WaitStep ==
    ASSUME ThrInv, NEW o \in Owner, pc[o] = "locking", pc' = [pc EXCEPT ![o] = "waiting"],
           locks' = locks, pos' = pos, asked' = asked, abort' = abort,
           NEW d \in Data, d = Cur(o), NEW t \in TL_READ .. TL_WRITE,
           type' = [type EXCEPT ![d] = t], cond' = [cond EXCEPT ![d] = TRUE],
           type' \in [Data -> LockType], DelayedTypes(type'),
           t = type[d] \/ t \in {TL_WRITE_LOW_PRIORITY, TL_WRITE},
           NEW L, lock' = [lock EXCEPT ![LockOf[d]] = L], LockOK(L, LockOf[d], type', cond'),
           Members(L) = Members(lock[LockOf[d]]) \cup {d},
           InQueues(L) = InQueues(lock[LockOf[d]]) \cup {d}
    PROVE  ThrInv'
<1>1. /\ OwnerOf[d] = o /\ ~Linked(d) /\ LockOf[d] \in Lock /\ pos[o] \in DOMAIN locks[o]
      /\ type[d] \in TL_READ .. TL_WRITE
  BY CurFacts
<1>2. /\ cond \in [Data -> BOOLEAN] /\ type \in [Data -> LockType]
      /\ pc \in [Owner -> Where] /\ lock \in [Lock -> LockRecord]
      /\ Array(o) /\ Placed(o) /\ QueuedLast(o) /\ Sorted(o)
  BY DEF ThrInv, Typed, OwnerInv
<1>3. Linked(d)' /\ \A e \in Data \ {d} : (Linked(e)' <=> Linked(e)) /\ (Queued(e)' => Queued(e))
  BY Joined
<1>4. /\ type'[d] = t /\ cond' \in [Data -> BOOLEAN]
      /\ \A e \in Data \ {d} : type'[e] = type[e] /\ cond'[e] = cond[e]
  BY <1>2
<1>5. /\ locks[o] \in Seq(Data) /\ pos[o] \in Nat /\ DOMAIN locks[o] \in SUBSET Nat
      /\ \A i \in DOMAIN locks[o] : locks[o][i] \in Data /\ OwnerOf[locks[o][i]] = o
      /\ \A i, j \in DOMAIN locks[o] : locks[o][i] = locks[o][j] => i = j
  BY ArrayFacts
<1>6. /\ pc'[o] = "waiting" /\ pc' \in [Owner -> Where] /\ \A p \in Owner \ {o} : pc'[p] = pc[p]
  BY <1>2 DEF Where
<1>7. locks[o][pos[o]] = d BY DEF Cur
<1>8. Array(o)' BY <1>1, <1>2, <1>6 DEF Array
<1>9. Placed(o)'
  <2>1. \A i : (Called(o, i)' <=> i <= pos[o]) /\ (Called(o, i) <=> i < pos[o]) BY <1>6 DEF Called
  <2>2. ASSUME NEW e \in Data, OwnerOf[e] = o, Linked(e)'
        PROVE  \E i \in DOMAIN locks'[o] : locks'[o][i] = e /\ Called(o, i)'
    <3>1. CASE e = d BY <3>1, <2>1, <1>1, <1>5, <1>7
    <3>2. CASE e # d
      <4>1. Linked(e) BY <3>2, <2>2, <1>3
      <4>2. PICK i \in DOMAIN locks[o] : locks[o][i] = e /\ Called(o, i) BY <4>1, <2>2, <1>2 DEF Placed
      <4> QED BY <4>2, <2>1, <1>5
    <3> QED BY <3>1, <3>2
  <2>3. ASSUME NEW i \in DOMAIN locks[o], Called(o, i)', NEW e \in Data, e = locks[o][i],
               type'[e] # TL_UNLOCK
        PROVE  Linked(e)'
    <3>1. CASE e = d BY <3>1, <1>3
    <3>2. CASE e # d
      <4>1. i < pos[o] BY <3>2, <2>1, <2>3, <1>5, <1>7
      <4>2. Linked(e) BY <4>1, <3>2, <2>1, <2>3, <1>2, <1>4 DEF Placed
      <4> QED BY <4>2, <3>2, <1>3
    <3> QED BY <3>1, <3>2
  <2>4. ASSUME NEW e \in Data, OwnerOf[e] = o, type'[e] = TL_WRITE_ONLY PROVE Linked(e)'
    BY <2>4, <1>2, <1>3, <1>4 DEF Placed
  <2>5. (\A i \in DOMAIN locks[o] :
         Called(o, i) /\ type[locks[o][i]] # TL_UNLOCK => Linked(locks[o][i]))'
    <3> SUFFICES ASSUME NEW i \in DOMAIN locks[o], Called(o, i)', type'[locks[o][i]] # TL_UNLOCK
                 PROVE  locks[o][i] \in Members(lock'[LockOf[locks[o][i]]])
      BY DEF Linked
    <3>1. PICK e \in Data : e = locks[o][i] BY <1>5
    <3>2. Linked(e)' BY <3>1, <2>3
    <3> QED BY <3>1, <3>2 DEF Linked
  <2> QED BY <2>2, <2>4, <2>5 DEF Placed
<1>10. QueuedLast(o)'
  <2> SUFFICES ASSUME NEW e \in Data, OwnerOf[e] = o, Queued(e)', e # d PROVE FALSE
    BY <1>6, <1>7 DEF QueuedLast, Cur
  <2>1. Queued(e) BY <1>3
  <2>2. o \in Delayed BY <2>1, <1>2 DEF QueuedLast
  <2> QED BY <2>2, <1>1, OneData
<1>11. Sorted(o)'
  <2> SUFFICES ASSUME NEW j \in DOMAIN locks[o], j > pos[o]
               PROVE  /\ type'[locks[o][j]] \in TL_READ .. TL_WRITE
                      /\ \A i \in DOMAIN locks[o] :
                           i < j /\ LockOf[locks[o][i]] = LockOf[locks[o][j]] =>
                             \/ type'[locks[o][i]] = TL_UNLOCK
                             \/ AtLeast(type'[locks[o][i]], type'[locks[o][j]])
    BY <1>6 DEF Sorted, Untried
  <2>1. Untried(o, j) BY <1>5 DEF Untried
  <2> DEFINE e == locks[o][j]
  <2>2. e \in Data /\ e # d BY <1>1, <1>5, <1>7
  <2>3. type'[e] = type[e] BY <2>2, <1>4
  <2>4. /\ type[e] \in TL_READ .. TL_WRITE
        /\ \A i \in DOMAIN locks[o] :
             i < j /\ LockOf[locks[o][i]] = LockOf[e] =>
                 type[locks[o][i]] = TL_UNLOCK \/ AtLeast(type[locks[o][i]], type[e])
    BY <2>1, <1>2 DEF Sorted
  <2>5. ASSUME NEW i \in DOMAIN locks[o], i < j, LockOf[locks[o][i]] = LockOf[e]
        PROVE  type'[locks[o][i]] = TL_UNLOCK \/ AtLeast(type'[locks[o][i]], type[e])
    <3>1. PICK f \in Data : f = locks[o][i] BY <1>5
    <3>2. type[f] = TL_UNLOCK \/ AtLeast(type[f], type[e]) BY <3>1, <2>4, <2>5
    <3>3. CASE f = d
      <4>1. type'[f] = t BY <3>3, <1>4
      <4>2. AtLeast(type[d], type[e]) BY <3>2, <3>3, <1>1
      <4>3. AtLeast(t, type[e]) BY <4>2 DEF AtLeast
      <4> QED BY <4>1, <4>3, <3>1
    <3>4. CASE f # d BY <3>1, <3>2, <3>4, <1>4
    <3> QED BY <3>3, <3>4
  <2> QED BY <2>3, <2>4, <2>5
<1>12. Asleep(o)' BY <1>4, <1>6, <1>7, SMTT(30) DEF Asleep, Cur
<1>13. OwnerInv(o)' BY <1>8, <1>9, <1>10, <1>11, <1>12 DEF OwnerInv
<1>14. Typed'
  <2>1. L \in LockRecord BY DEF LockOK, Lists
  <2>2. lock' \in [Lock -> LockRecord] BY <2>1, <1>1, <1>2
  <2> QED BY <2>2, <1>4, <1>6 DEF ThrInv, Typed
<1>15. \A e \in Data : OwnerOf[e] # o => Kept(e) BY <1>1, <1>3, <1>4 DEF Kept
<1>16. \A e \in Data : LockOf[e] # LockOf[d] => type'[e] = type[e] /\ cond'[e] = cond[e] BY <1>4
<1> QED BY <1>1, <1>6, <1>13, <1>14, <1>15, <1>16, OneLockChanges

(* thr_lock must wait: it sleeps in a queue, or gives up if it was killed *)
LEMMA LockWaitOK ==
    ASSUME ThrInv, NEW o \in Owner, LockWait(o)
    PROVE  ThrInv'
<1>1. pc[o] = "locking" /\ asked' = asked /\ abort' = abort BY DEF LockWait
<1>2. PICK d \in Data : /\ d = Cur(o) /\ ~Linked(d) /\ OwnerOf[d] = o /\ ~Tried(o, d)
                        /\ type[d] \in TL_READ .. TL_WRITE
  BY <1>1, CurFacts
<1> DEFINE l == LockOf[d]  L == lock[l]
<1>3. PICK full \in BOOLEAN :
        /\ IF abort[ThreadOf[o]]
             THEN /\ type' = [type EXCEPT ![d] = TL_UNLOCK]
                  /\ Fail(o)
                  /\ lock' = lock
             ELSE /\ type' = [type EXCEPT ![d] = RequestType(L, d, full)]
                  /\ lock' = IF IsRead(RequestType(L, d, full))
                       THEN [lock EXCEPT ![l].read_wait = Append(@, d)]
                       ELSE [lock EXCEPT ![l].write_wait = Append(@, d)]
                  /\ pc' = [pc EXCEPT ![o] = "waiting"]
                  /\ locks' = locks /\ pos' = pos
        /\ cond' = [cond EXCEPT ![d] = TRUE]
  BY <1>2, Zenon DEF LockWait
<1>4. CASE abort[ThreadOf[o]]
  <2>1. type' = [type EXCEPT ![d] = TL_UNLOCK] /\ Fail(o) /\ lock' = lock BY <1>3, <1>4
  <2>2. cond \in [Data -> BOOLEAN] /\ type \in [Data -> LockType] BY DEF ThrInv, Typed
  <2>3. /\ cond' \in [Data -> BOOLEAN] /\ \A e \in Data \ {d} : cond'[e] = cond[e]
        /\ type' \in [Data -> LockType] /\ type'[d] = TL_UNLOCK
        /\ \A e \in Data : e = d \/ type'[e] = type[e]
    BY <1>3, <2>1, <2>2
  <2>4. DelayedTypes(type') BY <2>3, DelayedUnlock
  <2>5. \A e \in Data : \/ type'[e] = type[e]
                        \/ OwnerOf[e] = o /\ ~Tried(o, e) /\ type'[e] # TL_WRITE_ONLY
    BY <2>3, <1>2
  <2> QED BY <2>1, <2>3, <2>4, <2>5, <1>1, <1>2, FailStep
<1>5. CASE ~abort[ThreadOf[o]]
  <2>1. PICK t : t = RequestType(L, d, full) OBVIOUS
  <2>2. /\ t \in TL_READ .. TL_WRITE /\ (t = TL_WRITE_CONCURRENT_INSERT => l \in CheckStatus)
        /\ t = type[d] \/ t \in {TL_WRITE_LOW_PRIORITY, TL_WRITE}
    BY <1>2, <2>1, ThrLockAssumption DEF RequestType, ThrLockAssumption
  <2>3. DelayedTypes([type EXCEPT ![d] = t]) /\ [type EXCEPT ![d] = t] \in [Data -> LockType]
    BY <1>2, <2>1, RequestTypeIs
  <2>4. /\ type' = [type EXCEPT ![d] = t] /\ cond' = [cond EXCEPT ![d] = TRUE]
        /\ pc' = [pc EXCEPT ![o] = "waiting"] /\ locks' = locks /\ pos' = pos /\ TRUE \in BOOLEAN
        /\ lock' = IF IsRead(t) THEN [lock EXCEPT ![l].read_wait = Append(@, d)]
                                ELSE [lock EXCEPT ![l].write_wait = Append(@, d)]
    BY <1>3, <1>5, <2>1
  <2>5. type' \in [Data -> LockType] /\ DelayedTypes(type') BY <2>3, <2>4
  <2>6. /\ LockOK(L, l, type', cond')
        /\ L \in LockRecord /\ d \notin Members(L) /\ l \in Lock
        /\ type'[d] = t /\ cond'[d]
    BY <1>2, <2>4, SetForLock
  <2>7. Append(L.read_wait, d) \in Seq(Data) /\ Append(L.write_wait, d) \in Seq(Data)
    <3>1. L.read_wait \in Seq(Data) /\ L.write_wait \in Seq(Data) BY <2>6 DEF LockRecord
    <3> QED BY <3>1
  <2> DEFINE R == [L EXCEPT !.read_wait = Append(@, d)]
             W == [L EXCEPT !.write_wait = Append(@, d)]
             M == IF IsRead(t) THEN R ELSE W
  <2>8. lock' = [lock EXCEPT ![l] = M]
    <3>1. CASE IsRead(t) BY <3>1, <2>4
    <3>2. CASE ~IsRead(t) BY <3>2, <2>4
    <3> QED BY <3>1, <3>2
  <2>9. /\ R \in LockRecord /\ R.read = L.read /\ R.write = L.write
        /\ R.read_wait = Append(L.read_wait, d) /\ R.write_wait = L.write_wait
        /\ R.read_no_write_count = L.read_no_write_count
    BY <2>6, <2>7 DEF LockRecord
  <2>10. /\ W \in LockRecord /\ W.read = L.read /\ W.write = L.write
         /\ W.read_wait = L.read_wait /\ W.write_wait = Append(L.write_wait, d)
         /\ W.read_no_write_count = L.read_no_write_count
    BY <2>6, <2>7 DEF LockRecord
  <2>11. LockOf[d] = l OBVIOUS
  <2>12. /\ LockOK(M, l, type', cond') /\ Members(M) = Members(L) \cup {d}
         /\ InQueues(M) = InQueues(L) \cup {d}
    <3> HIDE DEF R, W, L, l
    <3>1. CASE IsRead(t)
      <4>1. EnqueuedRead(L, R, l, type', cond', d)
        BY <3>1, <2>2, <2>6, <2>9, <2>11 DEF EnqueuedRead, IsRead
      <4>2. /\ LockOK(R, l, type', cond') /\ Members(R) = Members(L) \cup {d}
            /\ InQueues(R) = InQueues(L) \cup {d}
        BY <4>1, JoinReadWaitOK
      <4> QED BY <4>2, <3>1
    <3>2. CASE ~IsRead(t)
      <4>1. Enqueued(L, W, l, type', cond', d)
        BY <3>2, <2>2, <2>6, <2>10, <2>11 DEF Enqueued, IsRead
      <4>2. /\ LockOK(W, l, type', cond') /\ Members(W) = Members(L) \cup {d}
            /\ InQueues(W) = InQueues(L) \cup {d}
        BY <4>1, JoinWriteWaitOK
      <4> QED BY <4>2, <3>2
    <3> QED BY <3>1, <3>2
  <2> HIDE DEF M
  <2> QED BY <1>1, <1>2, <2>2, <2>4, <2>5, <2>8, <2>12, WaitStep, Zenon
<1> QED BY <1>4, <1>5

(* a member of a wait queue leaves it *)
LEMMA QueueLeftOK ==
    ASSUME ThrInv, NEW l \in Lock, NEW D \in SUBSET Waiting(l),
           NEW M, M.read = lock[l].read, M.write = lock[l].write, M \in LockRecord,
           M.read_wait = Without(lock[l].read_wait, D), M.write_wait = Without(lock[l].write_wait, D),
           M.read_no_write_count = lock[l].read_no_write_count,
           NEW ty2, NEW cd2,
           \A d \in Members(lock[l]) \ D : ty2[d] = type[d] /\ cd2[d] = cond[d]
    PROVE  /\ LockOK(M, l, ty2, cd2) /\ Members(M) = Members(lock[l]) \ D
           /\ InQueues(M) = InQueues(lock[l]) \ D
<1>1. PICK L : L = lock[l] OBVIOUS
<1>2. LockOK(L, l, type, cond) /\ L \in LockRecord BY <1>1 DEF ThrInv, Typed
<1>3. Lists(L, l) /\ L.read_wait \in Seq(Data) /\ L.write_wait \in Seq(Data)
  BY <1>2 DEF LockOK, LockRecord
<1>4. /\ ToSet(M.read_wait) = ToSet(L.read_wait) \ D /\ ToSet(M.write_wait) = ToSet(L.write_wait) \ D
      /\ Distinct(M.read_wait) /\ Distinct(M.write_wait)
  <2>1. Distinct(L.read_wait) /\ Distinct(L.write_wait) BY <1>3 DEF Lists
  <2> QED BY <2>1, <1>1, <1>3, WithoutFacts, WithoutDistinct
<1>5. ToSet(L.read) \ D = ToSet(L.read) /\ ToSet(L.write) \ D = ToSet(L.write)
  BY <1>1, <1>3 DEF Lists, Waiting
<1>6. Shrunk(L, M, D) BY <1>1, <1>3, <1>4, <1>5 DEF Shrunk, Lists
<1>7. Ordered(M.write, type) /\ Counted(M, type) BY <1>1, <1>2 DEF LockOK, Counted
<1>8. \A d \in Members(L) \ D : ty2[d] = type[d] /\ cd2[d] = cond[d] BY <1>1
<1>9. LockOK(M, l, ty2, cd2) /\ Members(M) = Members(L) \ D BY <1>2, <1>6, <1>7, <1>8, ShrinkOK
<1>10. InQueues(M) = InQueues(L) \ D BY <1>4 DEF InQueues
<1> QED BY <1>1, <1>9, <1>10

(* some data left a lock: the others are where they were, or granted *)
LEMMA Departed ==
    ASSUME ThrInv, NEW l \in Lock, NEW M, lock' = [lock EXCEPT ![l] = M],
           NEW D \in SUBSET Data, \A e \in D : LockOf[e] = l,
           Members(M) = Members(lock[l]) \ D, InQueues(M) \subseteq InQueues(lock[l]) \ D
    PROVE  /\ \A e \in D : ~Linked(e)' /\ ~Queued(e)'
           /\ \A e \in Data \ D : (Linked(e)' <=> Linked(e)) /\ (Queued(e)' => Queued(e))
<1>1. lock \in [Lock -> LockRecord] BY DEF ThrInv, Typed
<1>2. lock'[l] = M /\ \A k \in Lock \ {l} : lock'[k] = lock[k] BY <1>1
<1>3. ASSUME NEW e \in D PROVE ~Linked(e)' /\ ~Queued(e)'
  BY <1>2, <1>3 DEF Linked, Queued, Waiting, InQueues
<1>4. ASSUME NEW e \in Data \ D PROVE (Linked(e)' <=> Linked(e)) /\ (Queued(e)' => Queued(e))
  <2>1. CASE LockOf[e] = l BY <2>1, <1>2 DEF Linked, Queued, Waiting, InQueues
  <2>2. CASE LockOf[e] # l
    <3>1. LockOf[e] \in Lock BY DataFacts
    <3>2. lock'[LockOf[e]] = lock[LockOf[e]] BY <3>1, <2>2, <1>2
    <3> QED BY <3>2 DEF Linked, Queued, Waiting
  <2> QED BY <2>1, <2>2
<1> QED BY <1>3, <1>4

(* wait_for_lock gives up: the waiter leaves the queue and the locks taken *)
(* so far are unlocked                                                     *)
LEMMA WaitBrokenOK ==
    ASSUME ThrInv, NEW o \in Owner, WaitBroken(o)
    PROVE  ThrInv'
<1>1. pc[o] = "waiting" /\ Fail(o) /\ cond' = cond /\ asked' = asked /\ abort' = abort
  BY DEF WaitBroken
<1>2. PICK d \in Data : /\ d = Cur(o) /\ OwnerOf[d] = o /\ ~Tried(o, d)
                        /\ LockOf[d] \in Lock /\ pos[o] \in DOMAIN locks[o]
  BY <1>1, CurFacts
<1>3. /\ cond[d] /\ type' = [type EXCEPT ![d] = TL_UNLOCK]
      /\ lock' = [lock EXCEPT ![LockOf[d]] = Unlink(lock[LockOf[d]], d)]
  BY <1>2 DEF WaitBroken
<1>4. /\ type \in [Data -> LockType] /\ lock \in [Lock -> LockRecord]
      /\ locks \in [Owner -> Seq(Data)] /\ pos \in [Owner -> Nat \ {0}] /\ pc \in [Owner -> Where]
      /\ Asleep(o) /\ Placed(o)
  BY DEF ThrInv, Typed, OwnerInv
<1>5. Queued(d) /\ Linked(d)
  <2>1. type[d] # TL_UNLOCK BY <1>1, <1>2, <1>3, <1>4 DEF Asleep
  <2>2. Called(o, pos[o]) BY <1>1, ArrayFacts DEF Called
  <2>3. Linked(d) BY <2>1, <2>2, <1>2, <1>4 DEF Placed, Cur
  <2> QED BY <2>3, <1>3, DataFacts
<1>6. PICK l \in Lock, L \in LockRecord : l = LockOf[d] /\ L = lock[l] BY <1>2, <1>4
<1>7. LockOK(L, l, type, cond) /\ Lists(L, l) BY <1>6 DEF ThrInv, LockOK
<1>8. PICK M : M = Unlink(L, d) OBVIOUS
<1>9. /\ Shrunk(L, M, {d}) /\ M.write = Without(L.write, {d})
      /\ M.read_no_write_count = L.read_no_write_count
  BY <1>7, <1>8, UnlinkIs
<1>10. Ordered(M.write, type)
  <2>1. L.write \in Seq(Data) /\ Ordered(L.write, type) BY <1>7 DEF LockOK, LockRecord
  <2> QED BY <2>1, <1>9, OrderedWithout
<1>11. Counted(M, type)
  <2>1. d \notin ToSet(L.read) BY <1>5, <1>6, <1>7 DEF Queued, Waiting, Lists
  <2>2. ToSet(M.read) = ToSet(L.read) BY <2>1, <1>9 DEF Shrunk
  <2> QED BY <2>2, <1>7, <1>9 DEF LockOK, Counted
<1>12. /\ type'[d] = TL_UNLOCK /\ type' \in [Data -> LockType]
       /\ \A e \in Data \ {d} : type'[e] = type[e]
  BY <1>3, <1>4
<1>13. LockOK(M, l, type', cond') /\ Members(M) = Members(L) \ {d}
  <2>1. \A e \in Members(L) \ {d} : type'[e] = type[e] /\ cond'[e] = cond[e]
    BY <1>1, <1>12, MembersAreData DEF Members
  <2> QED BY <2>1, <1>7, <1>9, <1>10, <1>11, ShrinkOK
<1>14. InQueues(M) \subseteq InQueues(L) \ {d} BY <1>9 DEF InQueues, Shrunk
<1>15. lock' = [lock EXCEPT ![l] = M] BY <1>3, <1>6, <1>8
<1>16. /\ ~Linked(d)' /\ ~Queued(d)'
       /\ \A e \in Data \ {d} : (Linked(e)' <=> Linked(e)) /\ (Queued(e)' => Queued(e))
  <2>1. {d} \in SUBSET Data /\ \A e \in {d} : LockOf[e] = l BY <1>6
  <2>2. Members(M) = Members(lock[l]) \ {d} /\ InQueues(M) \subseteq InQueues(lock[l]) \ {d}
    BY <1>6, <1>13, <1>14
  <2> QED BY <2>1, <2>2, <1>15, Departed
<1>17. OwnerInv(o)'
  <2> SUFFICES ASSUME NEW e \in Data, OwnerOf[e] = o
               PROVE  IF Tried(o, e)
                        THEN type'[e] = type[e] /\ (Linked(e)' <=> Linked(e)) /\ (Queued(e)' => Queued(e))
                        ELSE ~Linked(e)' /\ type'[e] # TL_WRITE_ONLY
    BY <1>1, FailOK
  <2>1. CASE e = d BY <2>1, <1>2, <1>12, <1>16
  <2>2. CASE e # d /\ Tried(o, e) BY <2>2, <1>12, <1>16
  <2>3. CASE e # d /\ ~Tried(o, e)
    <3>1. ~Linked(e) /\ type[e] # TL_WRITE_ONLY BY <2>3, <1>1, <1>2, UntriedUnlinked
    <3> QED BY <3>1, <2>3, <1>12, <1>16
  <2> QED BY <2>1, <2>2, <2>3
<1>18. /\ \A p \in Owner \ {o} : pc'[p] = pc[p] /\ locks'[p] = locks[p] /\ pos'[p] = pos[p]
       /\ pc' \in [Owner -> Where] /\ pos' \in [Owner -> Nat \ {0}]
  BY <1>1, <1>4 DEF Fail, Where
<1>19. Typed'
  <2>1. M \in LockRecord BY <1>9 DEF Shrunk
  <2>2. lock' \in [Lock -> LockRecord] BY <2>1, <1>4, <1>15
  <2>3. locks' \in [Owner -> Seq(Data)]
    <3>1. /\ locks[o] \in Seq(Data) /\ pos[o] - 1 \in 0 .. Len(locks[o])
      BY <1>2, ArrayFacts
    <3>2. SubSeq(locks[o], 1, pos[o] - 1) \in Seq(Data) BY <3>1
    <3> QED BY <3>2, <1>1, <1>4 DEF Fail
  <2> QED BY <2>2, <2>3, <1>1, <1>12, <1>18 DEF ThrInv, Typed
<1>20. DelayedTypes(type') BY <1>12, DelayedUnlock
<1>21. \A e \in Data : OwnerOf[e] # o => Kept(e) BY <1>1, <1>2, <1>12, <1>16 DEF Kept
<1>22. \A e \in Data : LockOf[e] # l => type'[e] = type[e] /\ cond'[e] = cond[e]
  BY <1>1, <1>6, <1>12
<1> QED BY <1>13, <1>15, <1>17, <1>18, <1>19, <1>20, <1>21, <1>22, OneLockChanges

(* thr_multi_unlock is done with one element *)
LEMMA UnlockedOne ==
    ASSUME ThrInv, NEW o \in Owner, pc[o] = "unlocking", pos[o] \in DOMAIN locks[o],
           pos' = [pos EXCEPT ![o] = @ + 1], pc' = pc, locks' = locks,
           NEW d \in Data, d = Cur(o), type'[d] = TL_UNLOCK, ~Linked(d)', ~Queued(d)',
           \A e \in Data : OwnerOf[e] = o /\ e # d =>
               type'[e] = type[e] /\ (Linked(e)' <=> Linked(e)) /\ (Queued(e)' => Queued(e))
    PROVE  OwnerInv(o)'
<1>1. Array(o) /\ Placed(o) /\ QueuedLast(o) /\ pos \in [Owner -> Nat \ {0}]
  BY DEF ThrInv, OwnerInv, Typed
<1>2. /\ pos[o] \in Nat /\ DOMAIN locks[o] \in SUBSET Nat
      /\ \A i \in DOMAIN locks[o] : locks[o][i] \in Data /\ OwnerOf[locks[o][i]] = o
      /\ \A i, j \in DOMAIN locks[o] : locks[o][i] = locks[o][j] => i = j
  BY ArrayFacts
<1>3. locks[o][pos[o]] = d /\ pos'[o] = pos[o] + 1 BY <1>1 DEF Cur
<1>4. Array(o)' BY <1>1 DEF Array
<1>5. \A i \in DOMAIN locks[o] : /\ Called(o, i)' <=> i > pos[o]
                                 /\ Called(o, i) <=> i >= pos[o]
  BY <1>2, <1>3 DEF Called
<1>6. Placed(o)'
  <2>1. ASSUME NEW e \in Data, OwnerOf[e] = o, Linked(e)'
        PROVE  \E i \in DOMAIN locks'[o] : locks'[o][i] = e /\ Called(o, i)'
    <3>1. e # d /\ Linked(e) BY <2>1
    <3>2. PICK i \in DOMAIN locks[o] : locks[o][i] = e /\ Called(o, i) BY <3>1, <2>1, <1>1 DEF Placed
    <3>3. i > pos[o] BY <3>1, <3>2, <1>2, <1>3, <1>5
    <3> QED BY <3>2, <3>3, <1>5
  <2>2. ASSUME NEW i \in DOMAIN locks[o], Called(o, i)', type'[locks[o][i]] # TL_UNLOCK
        PROVE  locks[o][i] \in Members(lock'[LockOf[locks[o][i]]])
    <3>1. PICK e \in Data : e = locks[o][i] /\ OwnerOf[e] = o BY <1>2
    <3>2. e # d /\ i >= pos[o] BY <3>1, <2>2, <1>2, <1>5
    <3>3. Linked(e) BY <3>1, <3>2, <2>2, <1>1, <1>5 DEF Placed
    <3>4. Linked(e)' BY <3>1, <3>2, <3>3
    <3> QED BY <3>1, <3>4 DEF Linked
  <2>3. (\A i \in DOMAIN locks[o] :
         Called(o, i) /\ type[locks[o][i]] # TL_UNLOCK => Linked(locks[o][i]))'
    BY <2>2 DEF Linked
  <2>4. ASSUME NEW e \in Data, OwnerOf[e] = o, type'[e] = TL_WRITE_ONLY PROVE Linked(e)'
    <3>1. e # d BY <2>4
    <3> QED BY <3>1, <2>4, <1>1 DEF Placed
  <2> QED BY <2>1, <2>3, <2>4 DEF Placed
<1>7. QueuedLast(o)'
  <2> SUFFICES ASSUME NEW e \in Data, OwnerOf[e] = o, Queued(e)' PROVE FALSE BY DEF QueuedLast
  <2>1. e # d /\ Queued(e) OBVIOUS
  <2>2. o \in Delayed BY <2>1, <1>1 DEF QueuedLast
  <2>3. OwnerOf[d] = o BY <1>2, <1>3
  <2> QED BY <2>1, <2>2, <2>3, OneData
<1>8. Sorted(o)' /\ Asleep(o)' BY DEF Sorted, Untried, Asleep
<1> QED BY <1>4, <1>6, <1>7, <1>8 DEF OwnerInv

(* thr_multi_unlock unlocks one element, and thr_unlock lets others run *)
LEMMA UnlockNextOK ==
    ASSUME ThrInv, NEW o \in Owner, UnlockNext(o)
    PROVE  ThrInv'
<1>1. /\ pc[o] = "unlocking" /\ pos[o] <= Len(locks[o]) /\ pos' = [pos EXCEPT ![o] = @ + 1]
      /\ pc' = pc /\ locks' = locks /\ asked' = asked /\ abort' = abort
  BY DEF UnlockNext
<1>2. pos[o] \in DOMAIN locks[o] /\ pos[o] \in Nat BY <1>1, ArrayFacts
<1>3. PICK d \in Data : d = Cur(o) /\ OwnerOf[d] = o BY <1>2, ArrayFacts DEF Cur
<1>4. LockOf[d] \in Lock BY DataFacts
<1>5. /\ type \in [Data -> LockType] /\ cond \in [Data -> BOOLEAN] /\ DelayedTypes(type)
      /\ lock \in [Lock -> LockRecord] /\ pos \in [Owner -> Nat \ {0}]
      /\ Placed(o) /\ QueuedLast(o) /\ LockOK(lock[LockOf[d]], LockOf[d], type, cond)
  BY <1>4 DEF ThrInv, Typed, OwnerInv
<1>6. /\ pos' \in [Owner -> Nat \ {0}]
      /\ \A p \in Owner \ {o} : pc'[p] = pc[p] /\ locks'[p] = locks[p] /\ pos'[p] = pos[p]
  BY <1>1, <1>5
<1>7. ASSUME NEW e \in Data, OwnerOf[e] = o, Queued(e) PROVE o \in Delayed /\ e = d
  <2>1. o \in Delayed BY <1>1, <1>5, <1>7 DEF QueuedLast
  <2> QED BY <2>1, <1>3, <1>7, OneData
<1>8. CASE type[d] = TL_UNLOCK
  <2>1. lock' = lock /\ type' = type /\ cond' = cond BY <1>3, <1>8 DEF UnlockNext
  <2>2. \A e \in Data : (Linked(e)' <=> Linked(e)) /\ (Queued(e)' <=> Queued(e))
    BY <2>1 DEF Linked, Queued, Waiting
  <2>3. ~Linked(d) /\ ~Queued(d) BY <1>8, DataFacts
  <2>4. OwnerInv(o)' BY <2>1, <2>2, <2>3, <1>1, <1>2, <1>3, <1>8, UnlockedOne
  <2>5. Typed' BY <2>1, <1>1, <1>6 DEF ThrInv, Typed
  <2>6. \A e \in Data : OwnerOf[e] # o \/ Linked(e) => type'[e] = type[e] /\ cond'[e] = cond[e]
    BY <2>1
  <2> QED BY <2>1, <2>4, <2>5, <2>6, <1>5, <1>6, NoLockChanges
<1>9. CASE type[d] # TL_UNLOCK
  <2>1. PICK full \in BOOLEAN : /\ lock' = [lock EXCEPT ![LockOf[d]] = thr_unlock(d, full).l]
                                /\ type' = thr_unlock(d, full).type
                                /\ cond' = thr_unlock(d, full).cond
    BY <1>3, <1>9 DEF UnlockNext
  <2>2. type[d] = TL_READ_NO_INSERT => d \in ToSet(lock[LockOf[d]].read)
    <3> SUFFICES ASSUME type[d] = TL_READ_NO_INSERT, d \notin ToSet(lock[LockOf[d]].read)
                 PROVE  FALSE
      OBVIOUS
    <3>1. Called(o, pos[o]) BY <1>1, <1>2 DEF Called
    <3>2. Linked(d) BY <3>1, <1>2, <1>3, <1>5, <1>9 DEF Placed, Cur
    <3>3. Queued(d) BY <3>2, <1>5 DEF Linked, Members, Queued, Waiting, LockOK, Roles
    <3>4. OwnerOf[d] \in Delayed BY <3>3, <1>3, <1>7
    <3> QED BY <3>4, <1>5 DEF DelayedTypes
  <2>3. Triple(thr_unlock(d, full), LockOf[d]) /\ Left(d, thr_unlock(d, full))
    BY <2>2, <1>5, UnlockOK
  <2>4. PICK T : T = thr_unlock(d, full) OBVIOUS
  <2>5. PICK l \in Lock, L \in LockRecord : l = LockOf[d] /\ L = lock[l] BY <1>4, <1>5
  <2>6. /\ lock' = [lock EXCEPT ![l] = T.l] /\ type' = T.type /\ cond' = T.cond
        /\ Triple(T, l) /\ Left(d, T) /\ LockOK(L, l, type, cond)
    BY <2>1, <2>3, <2>4, <2>5, <1>5
  <2>7. /\ T.l \in LockRecord /\ type' \in [Data -> LockType] /\ cond' \in [Data -> BOOLEAN]
        /\ DelayedTypes(type') /\ LockOK(T.l, l, type', cond')
    BY <2>6 DEF Triple, Triples
  <2>8. /\ Members(T.l) = Members(L) \ {d}
        /\ ToSet(T.l.read_wait) \subseteq ToSet(L.read_wait) \ {d}
        /\ ToSet(T.l.write_wait) \subseteq ToSet(L.write_wait) \ {d}
        /\ type'[d] = TL_UNLOCK
        /\ \A e \in Data \ {d} : type'[e] = type[e] \/ ( /\ e \in ToSet(L.write_wait)
                                                        /\ type[e] = TL_WRITE_CONCURRENT_INSERT
                                                        /\ type'[e] = TL_WRITE )
        /\ \A e \in Data \ Members(L) : cond'[e] = cond[e]
    BY <2>5, <2>6 DEF Left
  <2>9. InQueues(T.l) \subseteq InQueues(L) \ {d} BY <2>8 DEF InQueues
  <2>10. /\ ~Linked(d)' /\ ~Queued(d)'
         /\ \A e \in Data \ {d} : (Linked(e)' <=> Linked(e)) /\ (Queued(e)' => Queued(e))
    <3>1. {d} \in SUBSET Data /\ \A e \in {d} : LockOf[e] = l BY <2>5
    <3>2. Members(T.l) = Members(lock[l]) \ {d} /\ InQueues(T.l) \subseteq InQueues(lock[l]) \ {d}
      BY <2>5, <2>8, <2>9
    <3>3. PICK M : M = T.l OBVIOUS
    <3> QED BY <3>1, <3>2, <3>3, <2>6, Departed
  <2>11. \A e \in Members(L) : e \in Data /\ LockOf[e] = l
    BY <2>6, MembersAreData DEF LockOK, Lists, Members
  <2>12. \A e \in ToSet(L.write_wait) : e \in Data /\ Queued(e) /\ LockOf[e] = l
    BY <2>5, <2>11 DEF Queued, Waiting, Members
  <2>13. OwnerInv(o)'
    <3>1. \A e \in Data : OwnerOf[e] = o /\ e # d => type'[e] = type[e] BY <2>8, <2>12, <1>7
    <3> QED BY <3>1, <2>8, <2>10, <1>1, <1>2, <1>3, UnlockedOne
  <2>14. ASSUME NEW e \in Data, LockOf[e] = l, OwnerOf[e] # o PROVE Kept(e)
    <3>1. e # d BY <2>14, <1>3
    <3>2. cond'[e] => cond[e]
      <4>1. CASE e \notin Members(L) BY <4>1, <2>8
      <4>2. CASE e \in Members(L)
        <5> SUFFICES ASSUME cond'[e] PROVE cond[e] OBVIOUS
        <5>1. e \in Members(T.l) BY <4>2, <3>1, <2>8
        <5>2. e \in InQueues(T.l) BY <5>1, <2>7 DEF LockOK, Roles, Members, InQueues
        <5>3. e \in InQueues(L) BY <5>2, <2>9
        <5> QED BY <5>3, <2>6 DEF LockOK, Roles, InQueues
      <4> QED BY <4>1, <4>2
    <3>3. type'[e] = type[e] \/ (Queued(e) /\ type[e] = TL_WRITE_CONCURRENT_INSERT /\ type'[e] = TL_WRITE)
      BY <3>1, <2>8, <2>12
    <3> QED BY <3>1, <3>2, <3>3, <2>10 DEF Kept
  <2>15. \A e \in Data : LockOf[e] # l => type'[e] = type[e] /\ cond'[e] = cond[e]
    BY <2>5, <2>8, <2>11, <2>12
  <2>16. Typed'
    <3>1. lock' \in [Lock -> LockRecord] BY <2>6, <2>7, <1>5
    <3> QED BY <3>1, <2>7, <1>1, <1>6 DEF ThrInv, Typed
  <2>17. PICK M : M = T.l OBVIOUS
  <2>18. lock' = [lock EXCEPT ![l] = M] /\ LockOK(M, l, type', cond') BY <2>6, <2>7, <2>17
  <2> QED BY <2>7, <2>13, <2>14, <2>15, <2>16, <2>18, <1>6, OneLockChanges
<1> QED BY <1>8, <1>9

-----------------------------------------------------------------------------
(* Waiters are thrown out *)

(* nobody moves in its program; the waiters in D leave the lock *)
LEMMA ThrownOut ==
    ASSUME ThrInv, UNCHANGED <<pc, locks, pos, asked, abort>>, NEW o \in Owner,
           NEW l \in Lock, NEW M \in LockRecord, lock' = [lock EXCEPT ![l] = M],
           NEW D \in SUBSET Waiting(l),
           Members(M) = Members(lock[l]) \ D, InQueues(M) = InQueues(lock[l]) \ D,
           LockOK(M, l, type', cond'),
           type' \in [Data -> LockType], cond' \in [Data -> BOOLEAN], DelayedTypes(type'),
           \A e \in D : type'[e] = TL_UNLOCK /\ ~cond'[e],
           \A e \in Data \ D : cond'[e] = cond[e],
           \A e \in Data \ D : \/ type'[e] = type[e]
                               \/ /\ type[e] # TL_UNLOCK /\ type'[e] = TL_WRITE_ONLY /\ LockOf[e] = l
                                  /\ Linked(e) /\ ~Queued(e) /\ pc[OwnerOf[e]] = "locked"
    PROVE  ThrInv'
<1>1. lock \in [Lock -> LockRecord] /\ LockOK(lock[l], l, type, cond) BY DEF ThrInv, Typed
<1>2. \A e \in D : e \in Data /\ LockOf[e] = l /\ Queued(e)
  <2>1. \A e \in Waiting(l) : e \in Members(lock[l]) BY DEF Waiting, Members
  <2>2. \A e \in Members(lock[l]) : e \in Data /\ LockOf[e] = l
    BY <1>1, MembersAreData DEF LockOK, Lists, Members
  <2> QED BY <2>1, <2>2 DEF Queued
<1>3. /\ \A e \in D : ~Linked(e)' /\ ~Queued(e)'
      /\ \A e \in Data \ D : (Linked(e)' <=> Linked(e)) /\ (Queued(e)' => Queued(e))
  <2>1. D \in SUBSET Data /\ \A e \in D : LockOf[e] = l BY <1>2
  <2> QED BY <2>1, Departed
<1>4. ASSUME NEW e \in Data PROVE Kept(e) \/ Aborted(e) \/ Marked(e)
  <2>1. CASE e \in D BY <2>1, <1>2, <1>3 DEF Aborted
  <2>2. CASE e \notin D /\ type'[e] = type[e] BY <2>2, <1>3 DEF Kept
  <2>3. CASE e \notin D /\ type'[e] # type[e] BY <2>3, <1>3 DEF Marked
  <2> QED BY <2>1, <2>2, <2>3
<1>5. OwnerInv(o)' BY <1>4, OtherOwner
<1>6. \A e \in Data : LockOf[e] # l => type'[e] = type[e] /\ cond'[e] = cond[e] BY <1>2
<1>7. Typed'
  <2>1. lock' \in [Lock -> LockRecord] BY <1>1
  <2> QED BY <2>1 DEF ThrInv, Typed
<1> QED BY <1>4, <1>5, <1>6, <1>7, OneLockChanges

(* the first writer in use is marked TL_WRITE_ONLY *)
LEMMA MarkOK ==
    ASSUME NEW M, NEW l, NEW ty, NEW cd, LockOK(M, l, ty, cd), M.write # << >>,
           NEW d, d = M.write[1], \A w \in ToSet(M.write) : OwnerOf[w] = OwnerOf[d],
           NEW ty2, ty2[d] = TL_WRITE_ONLY, \A e \in Members(M) \ {d} : ty2[e] = ty[e]
    PROVE  LockOK(M, l, ty2, cd)
<1>1. /\ Lists(M, l) /\ Roles(M, ty, cd) /\ Counted(M, ty) /\ Ordered(M.write, ty)
      /\ WritersAgree(ToSet(M.write), ty) /\ ReadersAgree(ToSet(M.read), ToSet(M.write), ty)
      /\ M.write \in Seq(Data)
  BY DEF LockOK, Lists, LockRecord
<1>2. /\ 1 \in DOMAIN M.write /\ DOMAIN M.write \in SUBSET Nat /\ d \in ToSet(M.write)
      /\ \A j \in DOMAIN M.write : 1 <= j
  BY <1>1 DEF ToSet
<1>3. \A j \in DOMAIN M.write : j # 1 => M.write[j] # d /\ M.write[j] \in ToSet(M.write)
  BY <1>1, <1>2 DEF Lists, Distinct, ToSet
<1>4. d \notin ToSet(M.read) /\ d \notin ToSet(M.read_wait) /\ d \notin ToSet(M.write_wait)
  BY <1>1, <1>2 DEF Lists
<1>5. /\ \A e \in ToSet(M.read) : ty2[e] = ty[e]
      /\ \A e \in ToSet(M.read_wait) : ty2[e] = ty[e]
      /\ \A e \in ToSet(M.write_wait) : ty2[e] = ty[e]
      /\ \A e \in ToSet(M.write) : e # d => ty2[e] = ty[e]
  BY <1>4 DEF Members
<1>6. Roles(M, ty2, cd)
  <2>1. \A e \in ToSet(M.write) : ty2[e] \in TL_WRITE_ALLOW_WRITE .. TL_WRITE_ONLY /\ ~cd[e]
    <3> SUFFICES ASSUME NEW e \in ToSet(M.write)
                 PROVE  ty2[e] \in TL_WRITE_ALLOW_WRITE .. TL_WRITE_ONLY /\ ~cd[e]
      OBVIOUS
    <3>1. CASE e = d BY <3>1, <1>1 DEF Roles
    <3>2. CASE e # d BY <3>2, <1>1, <1>5 DEF Roles
    <3> QED BY <3>1, <3>2
  <2>2. \A e \in Members(M) : ty2[e] = TL_WRITE_CONCURRENT_INSERT => LockOf[e] \in CheckStatus
    BY <1>1 DEF Roles
  <2> QED BY <2>1, <2>2, <1>1, <1>5 DEF Roles
<1>7. Counted(M, ty2)
  <2>1. {e \in ToSet(M.read) : ty2[e] = TL_READ_NO_INSERT} = {e \in ToSet(M.read) : ty[e] = TL_READ_NO_INSERT}
    BY <1>5
  <2> QED BY <2>1, <1>1 DEF Counted
<1>8. Ordered(M.write, ty2)
  <2> SUFFICES ASSUME NEW i \in DOMAIN M.write, NEW j \in DOMAIN M.write, i < j,
                      OwnerOf[M.write[i]] = OwnerOf[M.write[j]]
               PROVE  AtLeast(ty2[M.write[i]], ty2[M.write[j]])
    BY DEF Ordered
  <2>1. CASE i = 1 BY <2>1 DEF AtLeast
  <2>2. CASE i # 1
    <3>1. j # 1 BY <1>2
    <3>2. ty2[M.write[i]] = ty[M.write[i]] /\ ty2[M.write[j]] = ty[M.write[j]]
      BY <2>2, <3>1, <1>3, <1>5
    <3> QED BY <3>2, <1>1 DEF Ordered
  <2> QED BY <2>1, <2>2
<1>9. WritersAgree(ToSet(M.write), ty2)
  BY DEF WritersAgree
<1>10. ReadersAgree(ToSet(M.read), ToSet(M.write), ty2)
  <2> SUFFICES ASSUME NEW w \in ToSet(M.write), NEW e \in ToSet(M.read) PROVE Tolerates(w, e, ty2)
    BY DEF ReadersAgree
  <2>1. CASE w = d BY <2>1 DEF Tolerates
  <2>2. CASE w # d
    <3>1. Tolerates(w, e, ty) BY <1>1 DEF ReadersAgree
    <3>2. ty2[w] = ty[w] /\ ty2[e] = ty[e] BY <2>2, <1>5
    <3> QED BY <3>1, <3>2 DEF Tolerates
  <2> QED BY <2>1, <2>2
<1> QED BY <1>1, <1>6, <1>7, <1>8, <1>9, <1>10 DEF LockOK

(* thr_abort_locks_for_thread *)
LEMMA AbortLocksForThreadOK ==
    ASSUME ThrInv, NEW o \in Owner, NEW l \in Lock, NEW t, AbortLocksForThread(o, l, t)
    PROVE  ThrInv'
<1> DEFINE W == {d \in Waiting(l) : ThreadOf[OwnerOf[d]] = t}
<1>1. /\ lock' = [lock EXCEPT ![l].read_wait = Without(@, W), ![l].write_wait = Without(@, W)]
      /\ type' = [d \in Data |-> IF d \in W THEN TL_UNLOCK ELSE type[d]]
      /\ cond' = [d \in Data |-> cond[d] /\ d \notin W]
      /\ UNCHANGED <<pc, locks, pos, asked, abort>>
  BY DEF AbortLocksForThread
<1>2. PICK D \in SUBSET Waiting(l) : D = W OBVIOUS
<1>3. PICK L \in LockRecord : L = lock[l] /\ LockOK(L, l, type, cond) BY DEF ThrInv, Typed
<1>4. /\ type \in [Data -> LockType] /\ cond \in [Data -> BOOLEAN] /\ lock \in [Lock -> LockRecord]
  BY DEF ThrInv, Typed
<1> HIDE DEF W
<1>5. Without(L.read_wait, D) \in Seq(Data) /\ Without(L.write_wait, D) \in Seq(Data)
  <2>1. L.read_wait \in Seq(Data) /\ L.write_wait \in Seq(Data) BY DEF LockRecord
  <2> QED BY <2>1, WithoutFacts
<1> DEFINE N == [L EXCEPT !.read_wait = Without(@, D), !.write_wait = Without(@, D)]
<1>6. /\ N \in LockRecord /\ N.read = L.read /\ N.write = L.write
      /\ N.read_wait = Without(L.read_wait, D) /\ N.write_wait = Without(L.write_wait, D)
      /\ N.read_no_write_count = L.read_no_write_count
  BY <1>5 DEF LockRecord
<1>7. lock' = [lock EXCEPT ![l] = N] BY <1>1, <1>2, <1>3, <1>4
<1> HIDE DEF N
<1>8. PICK M \in LockRecord : M = N BY <1>6
<1>9. /\ type' \in [Data -> LockType] /\ cond' \in [Data -> BOOLEAN]
      /\ \A e \in Data \ D : type'[e] = type[e] /\ cond'[e] = cond[e]
      /\ \A e \in Data : type'[e] = type[e] \/ type'[e] = TL_UNLOCK
  BY <1>1, <1>2, <1>4
<1>10. \A e \in Members(L) : e \in Data BY MembersAreData DEF Members
<1>11. /\ LockOK(M, l, type', cond') /\ Members(M) = Members(lock[l]) \ D
       /\ InQueues(M) = InQueues(lock[l]) \ D
  <2>1. \A d \in Members(lock[l]) \ D : type'[d] = type[d] /\ cond'[d] = cond[d] BY <1>3, <1>9, <1>10
  <2>2. /\ M.read = lock[l].read /\ M.write = lock[l].write
        /\ M.read_wait = Without(lock[l].read_wait, D) /\ M.write_wait = Without(lock[l].write_wait, D)
        /\ M.read_no_write_count = lock[l].read_no_write_count
    BY <1>3, <1>6, <1>8
  <2> QED BY <2>1, <2>2, QueueLeftOK
<1>12. \A e \in D : type'[e] = TL_UNLOCK /\ ~cond'[e]
  <2>1. \A e \in D : e \in Data BY <1>3, <1>10 DEF Waiting, Members
  <2> QED BY <2>1, <1>1, <1>2
<1>13. DelayedTypes(type') BY <1>9, DelayedUnlock
<1>14. lock' = [lock EXCEPT ![l] = M] BY <1>7, <1>8
<1>15. UNCHANGED <<pc, locks, pos, asked, abort>> BY <1>1
<1> QED BY <1>9, <1>11, <1>12, <1>13, <1>14, <1>15, ThrownOut

(* thr_abort_locks *)
LEMMA AbortLocksOK ==
    ASSUME ThrInv, NEW o \in Owner, AbortLocks(o)
    PROVE  ThrInv'
<1>1. pc[o] = "locked" /\ UNCHANGED <<pc, locks, pos, asked, abort>> BY DEF AbortLocks
<1>2. PICK c \in ToSet(locks[o]) :
         /\ type[c] \in (TL_WRITE_ALLOW_READ .. TL_WRITE_ONLY) \ {TL_WRITE_DELAYED}
         /\ lock' = [lock EXCEPT ![LockOf[c]].read_wait = << >>, ![LockOf[c]].write_wait = << >>]
         /\ type' = [e \in Data |-> IF e \in Waiting(LockOf[c]) THEN TL_UNLOCK
                                    ELSE IF e = Head(lock[LockOf[c]].write) THEN TL_WRITE_ONLY
                                    ELSE type[e]]
         /\ cond' = [e \in Data |-> cond[e] /\ e \notin Waiting(LockOf[c])]
  BY DEF AbortLocks
<1>3. PICK i \in DOMAIN locks[o] : locks[o][i] = c BY InList
<1>4. c \in Data /\ OwnerOf[c] = o BY <1>3, ArrayFacts
<1>5. PICK l \in Lock : l = LockOf[c] BY <1>4, DataFacts
<1>6. PICK L \in LockRecord : L = lock[l] /\ LockOK(L, l, type, cond) BY DEF ThrInv, Typed
<1>7. PICK D \in SUBSET Waiting(l) : D = Waiting(l) OBVIOUS
<1>8. /\ type \in [Data -> LockType] /\ cond \in [Data -> BOOLEAN] /\ lock \in [Lock -> LockRecord]
      /\ Placed(o) /\ QueuedLast(o) /\ DelayedTypes(type)
  BY DEF ThrInv, Typed, OwnerInv
<1>9. c \in ToSet(L.write)
  <2>1. Called(o, i) BY <1>1 DEF Called
  <2>2. Linked(c) BY <2>1, <1>2, <1>3, <1>8 DEF Placed
  <2>3. ~Queued(c) BY <1>1, <1>2, <1>4, <1>8 DEF QueuedLast
  <2>4. c \in ToSet(L.read) \cup ToSet(L.write)
    BY <2>2, <2>3, <1>5, <1>6 DEF Linked, Queued, Waiting, Members
  <2> QED BY <2>4, <1>2, <1>6 DEF LockOK, Roles
<1>10. PICK d \in Data :
         /\ L.write # << >> /\ L.write[1] = d /\ Head(lock[l].write) = d /\ d \in ToSet(L.write)
         /\ d \notin D /\ LockOf[d] = l /\ Linked(d) /\ ~Queued(d) /\ type[d] # TL_UNLOCK
         /\ OwnerOf[d] = o /\ \A w \in ToSet(L.write) : OwnerOf[w] = OwnerOf[d]
  <2>1. L.write \in Seq(Data) BY DEF LockRecord
  <2>2. L.write # << >> BY <1>9 DEF ToSet
  <2>3. PICK d \in Data : d = L.write[1] /\ d \in ToSet(L.write) BY <2>1, <2>2 DEF ToSet
  <2>4. Head(lock[l].write) = d BY <2>1, <2>2, <2>3, <1>6
  <2>5. \A w \in ToSet(L.write) : OwnerOf[w] = OwnerOf[c]
    BY <1>2, <1>6, <1>9 DEF LockOK, WritersAgree
  <2>6. OwnerOf[d] = o /\ \A w \in ToSet(L.write) : OwnerOf[w] = OwnerOf[d] BY <2>3, <2>5, <1>4
  <2>7. d \in Members(L) /\ d \notin ToSet(L.read_wait) /\ d \notin ToSet(L.write_wait)
    BY <2>3, <1>6 DEF LockOK, Lists, Members
  <2>8. LockOf[d] = l BY <2>7, <1>6 DEF LockOK, Lists
  <2>9. d \notin D /\ Linked(d) /\ ~Queued(d)
    BY <2>7, <2>8, <1>6, <1>7 DEF Linked, Queued, Waiting
  <2>10. type[d] # TL_UNLOCK BY <2>3, <1>6 DEF LockOK, Roles
  <2> QED BY <2>2, <2>3, <2>4, <2>6, <2>8, <2>9, <2>10
<1> DEFINE N == [L EXCEPT !.read_wait = << >>, !.write_wait = << >>]
<1>11. /\ N \in LockRecord /\ N.read = L.read /\ N.write = L.write
       /\ N.read_wait = << >> /\ N.write_wait = << >>
       /\ N.read_no_write_count = L.read_no_write_count
  <2>0. << >> \in Seq(Data) OBVIOUS
  <2>1. PICK q \in Seq(Data) : q = << >> BY <2>0, Zenon
  <2>2. N = [L EXCEPT !.read_wait = q, !.write_wait = q] BY <2>1
  <2> HIDE DEF N
  <2>3. /\ N \in LockRecord /\ N.read = L.read /\ N.write = L.write
        /\ N.read_wait = q /\ N.write_wait = q
        /\ N.read_no_write_count = L.read_no_write_count
    BY <2>2 DEF LockRecord
  <2> QED BY <2>1, <2>3
<1>12. lock' = [lock EXCEPT ![l] = N] BY <1>2, <1>5, <1>6, <1>8
<1> HIDE DEF N
<1>13. PICK M \in LockRecord : M = N BY <1>11
<1>14. Without(L.read_wait, D) = << >> /\ Without(L.write_wait, D) = << >>
  <2>1. ASSUME NEW s \in Seq(Data), ToSet(s) \subseteq D PROVE Without(s, D) = << >>
    <3>1. Without(s, D) \in Seq(Data) /\ ToSet(Without(s, D)) = {} BY <2>1, WithoutFacts
    <3>2. PICK w \in Seq(Data) : w = Without(s, D) BY <3>1
    <3>3. w # << >> => w[1] \in ToSet(w) BY DEF ToSet
    <3> QED BY <3>1, <3>2, <3>3
  <2>2. L.read_wait \in Seq(Data) /\ L.write_wait \in Seq(Data) BY DEF LockRecord
  <2>3. ToSet(L.read_wait) \subseteq D /\ ToSet(L.write_wait) \subseteq D BY <1>6, <1>7 DEF Waiting
  <2> QED BY <2>1, <2>2, <2>3
<1>15. \A e \in Members(L) : e \in Data BY MembersAreData DEF Members
<1>16. D \in SUBSET Data BY <1>6, <1>7, <1>15 DEF Waiting, Members
<1>17. /\ type' \in [Data -> LockType] /\ cond' \in [Data -> BOOLEAN] /\ type'[d] = TL_WRITE_ONLY
       /\ \A e \in Data \ D : cond'[e] = cond[e]
       /\ \A e \in (Data \ D) \ {d} : type'[e] = type[e]
       /\ \A e \in D : type'[e] = TL_UNLOCK /\ ~cond'[e]
  <2>1. /\ type' = [e \in Data |-> IF e \in D THEN TL_UNLOCK
                                   ELSE IF e = d THEN TL_WRITE_ONLY ELSE type[e]]
        /\ cond' = [e \in Data |-> cond[e] /\ e \notin D]
    BY <1>2, <1>5, <1>7, <1>10
  <2>2. /\ \A e \in Data : type'[e] = IF e \in D THEN TL_UNLOCK
                                       ELSE IF e = d THEN TL_WRITE_ONLY ELSE type[e]
        /\ \A e \in Data : cond'[e] = (cond[e] /\ e \notin D)
    BY <2>1, Zenon
  <2>3. type' \in [Data -> LockType]
    <3>1. \A e \in Data : (IF e \in D THEN TL_UNLOCK
                            ELSE IF e = d THEN TL_WRITE_ONLY ELSE type[e]) \in LockType
      BY <1>8
    <3> QED BY <3>1, <2>1
  <2>4. cond' \in [Data -> BOOLEAN] BY <2>1, <1>8
  <2> QED BY <2>2, <2>3, <2>4, <1>4, <1>8, <1>10, <1>16
<1>18. PICK ty \in [Data -> LockType] : ty = [e \in Data |-> IF e \in D THEN TL_UNLOCK ELSE type[e]]
  <2>1. \A e \in Data : (IF e \in D THEN TL_UNLOCK ELSE type[e]) \in LockType BY <1>8
  <2> QED BY <2>1
<1>19. ty[d] = type[d] /\ \A e \in Data \ D : ty[e] = type[e] BY <1>4, <1>10, <1>18
<1>20. /\ LockOK(M, l, ty, cond') /\ Members(M) = Members(lock[l]) \ D
       /\ InQueues(M) = InQueues(lock[l]) \ D
  <2>1. \A e \in Members(lock[l]) \ D : ty[e] = type[e] /\ cond'[e] = cond[e]
    BY <1>6, <1>15, <1>17, <1>19
  <2>2. /\ M.read = lock[l].read /\ M.write = lock[l].write
        /\ M.read_wait = Without(lock[l].read_wait, D) /\ M.write_wait = Without(lock[l].write_wait, D)
        /\ M.read_no_write_count = lock[l].read_no_write_count
    BY <1>6, <1>11, <1>13, <1>14
  <2> QED BY <2>1, <2>2, QueueLeftOK
<1>21. LockOK(M, l, type', cond')
  <2>1. M.write # << >> /\ d = M.write[1] BY <1>10, <1>11, <1>13
  <2>2. \A w \in ToSet(M.write) : OwnerOf[w] = OwnerOf[d] BY <1>10, <1>11, <1>13
  <2>3. \A e \in Members(M) \ {d} : type'[e] = ty[e] BY <1>6, <1>15, <1>17, <1>19, <1>20
  <2> QED BY <2>1, <2>2, <2>3, <1>17, <1>20, MarkOK
<1>22. DelayedTypes(type')
  <2>1. \A e \in Data : \/ type'[e] = type[e] \/ type'[e] = TL_UNLOCK
                        \/ type'[e] = TL_WRITE_ONLY
    BY <1>17
  <2> QED BY <2>1, <1>8 DEF DelayedTypes
<1>23. lock' = [lock EXCEPT ![l] = M] BY <1>12, <1>13
<1>24. \A e \in Data \ D : \/ type'[e] = type[e]
                           \/ /\ type[e] # TL_UNLOCK /\ type'[e] = TL_WRITE_ONLY /\ LockOf[e] = l
                              /\ Linked(e) /\ ~Queued(e) /\ pc[OwnerOf[e]] = "locked"
  BY <1>1, <1>10, <1>17
<1> QED BY <1>1, <1>17, <1>20, <1>21, <1>22, <1>23, <1>24, ThrownOut

-----------------------------------------------------------------------------
(* The INSERT DELAYED handler thread *)

(* a delayed handler that has the table in use is the only writer *)
LEMMA WriterAlone ==
    ASSUME NEW L, NEW l, NEW ty, NEW cd, LockOK(L, l, ty, cd), NEW d \in ToSet(L.write),
           OwnerOf[d] \in Delayed, ty[d] # TL_WRITE_ALLOW_WRITE
    PROVE  ToSet(L.write) = {d}
<1>1. L \in LockRecord /\ WritersAgree(ToSet(L.write), ty) BY DEF LockOK, Lists
<1>2. ToSet(L.write) \subseteq Data BY <1>1, MembersAreData
<1>3. \A w \in ToSet(L.write) : OwnerOf[w] = OwnerOf[d] BY <1>1 DEF WritersAgree
<1>4. \A w \in ToSet(L.write) : w = d BY <1>2, <1>3, OneData
<1> QED BY <1>4

(* its lock becomes TL_WRITE while nobody reads *)
LEMMA RaiseOK ==
    ASSUME NEW L, NEW l, NEW ty, NEW cd, LockOK(L, l, ty, cd), NEW d \in ToSet(L.write),
           OwnerOf[d] \in Delayed, ty[d] # TL_WRITE_ALLOW_WRITE, L.read = << >>,
           NEW ty2, ty2[d] = TL_WRITE, \A e \in Members(L) \ {d} : ty2[e] = ty[e]
    PROVE  LockOK(L, l, ty2, cd)
<1>1. ToSet(L.write) = {d} BY WriterAlone
<1>2. /\ Lists(L, l) /\ Roles(L, ty, cd) /\ Counted(L, ty) /\ L.write \in Seq(Data)
  BY DEF LockOK, Lists, LockRecord
<1>3. ToSet(L.read) = {} BY DEF ToSet
<1>4. /\ \A e \in ToSet(L.read_wait) : e # d /\ ty2[e] = ty[e]
      /\ \A e \in ToSet(L.write_wait) : e # d /\ ty2[e] = ty[e]
  BY <1>1, <1>2 DEF Lists, Members
<1>5. Roles(L, ty2, cd)
  <2>1. \A e \in ToSet(L.write) : ty2[e] \in TL_WRITE_ALLOW_WRITE .. TL_WRITE_ONLY /\ ~cd[e]
    BY <1>1, <1>2 DEF Roles
  <2>2. \A e \in Members(L) : ty2[e] = TL_WRITE_CONCURRENT_INSERT => LockOf[e] \in CheckStatus
    BY <1>2 DEF Roles
  <2> QED BY <2>1, <2>2, <1>2, <1>3, <1>4 DEF Roles
<1>6. Counted(L, ty2)
  <2>1. {e \in ToSet(L.read) : ty2[e] = TL_READ_NO_INSERT} = {e \in ToSet(L.read) : ty[e] = TL_READ_NO_INSERT}
    BY <1>3
  <2> QED BY <2>1, <1>2 DEF Counted
<1>7. Ordered(L.write, ty2)
  <2>1. \A i \in DOMAIN L.write : L.write[i] = d BY <1>1 DEF ToSet
  <2> QED BY <2>1 DEF Ordered, AtLeast
<1>8. WritersAgree(ToSet(L.write), ty2) BY <1>1 DEF WritersAgree
<1>9. ReadersAgree(ToSet(L.read), ToSet(L.write), ty2) BY <1>3 DEF ReadersAgree
<1> QED BY <1>2, <1>5, <1>6, <1>7, <1>8, <1>9 DEF LockOK

(* or while it waits *)
LEMMA RaiseWaitingOK ==
    ASSUME NEW L, NEW l, NEW ty, NEW cd, LockOK(L, l, ty, cd), NEW d \in ToSet(L.write_wait),
           NEW ty2, ty2[d] = TL_WRITE, \A e \in Members(L) \ {d} : ty2[e] = ty[e]
    PROVE  LockOK(L, l, ty2, cd)
<1>1. /\ Lists(L, l) /\ Roles(L, ty, cd) /\ Counted(L, ty) /\ Ordered(L.write, ty)
      /\ WritersAgree(ToSet(L.write), ty) /\ ReadersAgree(ToSet(L.read), ToSet(L.write), ty)
  BY DEF LockOK
<1>2. d \notin ToSet(L.read) /\ d \notin ToSet(L.write) /\ d \notin ToSet(L.read_wait) BY <1>1 DEF Lists
<1>3. /\ \A e \in ToSet(L.read) : ty2[e] = ty[e]
      /\ \A e \in ToSet(L.write) : ty2[e] = ty[e]
      /\ \A e \in ToSet(L.read_wait) : ty2[e] = ty[e]
      /\ \A e \in ToSet(L.write_wait) : ty2[e] = ty[e] \/ ty2[e] = TL_WRITE
  BY <1>2 DEF Members
<1>4. Roles(L, ty2, cd)
  <2>1. \A e \in ToSet(L.write_wait) : ty2[e] \in TL_WRITE_ALLOW_WRITE .. TL_WRITE /\ cd[e]
    BY <1>1, <1>3 DEF Roles
  <2>2. \A e \in Members(L) : ty2[e] = TL_WRITE_CONCURRENT_INSERT => LockOf[e] \in CheckStatus
    BY <1>1 DEF Roles
  <2> QED BY <2>1, <2>2, <1>1, <1>3 DEF Roles
<1>5. Counted(L, ty2)
  <2>1. {e \in ToSet(L.read) : ty2[e] = TL_READ_NO_INSERT} = {e \in ToSet(L.read) : ty[e] = TL_READ_NO_INSERT}
    BY <1>3
  <2> QED BY <2>1, <1>1 DEF Counted
<1>6. Ordered(L.write, ty2)
  <2>1. \A i \in DOMAIN L.write : L.write[i] \in ToSet(L.write) BY DEF ToSet
  <2>2. \A i \in DOMAIN L.write : ty2[L.write[i]] = ty[L.write[i]] BY <2>1, <1>3
  <2> QED BY <2>2, <1>1 DEF Ordered
<1>7. WritersAgree(ToSet(L.write), ty2) BY <1>1, <1>3 DEF WritersAgree
<1>8. ReadersAgree(ToSet(L.read), ToSet(L.write), ty2) BY <1>1, <1>3 DEF ReadersAgree, Tolerates
<1> QED BY <1>1, <1>4, <1>5, <1>6, <1>7, <1>8 DEF LockOK

(* M is the lock L with the delayed handler's d, so far in use, in front of *)
(* the wait queue                                                           *)
Requeued(L, M, l, ty, cd, ty2, cd2, d) ==
    /\ LockOK(L, l, ty, cd) /\ d \in ToSet(L.write)
    /\ OwnerOf[d] \in Delayed /\ ty[d] # TL_WRITE_ALLOW_WRITE
    /\ M \in LockRecord /\ M.read = L.read /\ M.read_wait = L.read_wait
    /\ M.read_no_write_count = L.read_no_write_count
    /\ M.write = Without(L.write, {d}) /\ M.write_wait = <<d>> \o L.write_wait
    /\ ty2[d] \in {TL_WRITE_DELAYED, TL_WRITE} /\ cd2[d]
    /\ \A e \in Members(L) \ {d} : ty2[e] = ty[e] /\ cd2[e] = cd[e]

(* this keeps the lock in order, and no writer is left in use *)
LEMMA RequeueOK ==
    ASSUME NEW L, NEW M, NEW l, NEW ty, NEW cd, NEW ty2, NEW cd2, NEW d,
           Requeued(L, M, l, ty, cd, ty2, cd2, d)
    PROVE  /\ LockOK(M, l, ty2, cd2) /\ Members(M) = Members(L)
           /\ InQueues(M) = InQueues(L) \cup {d} /\ ToSet(M.write) = {}
<1>1. LockOK(L, l, ty, cd) /\ ToSet(L.write) = {d}
  <2>1. /\ LockOK(L, l, ty, cd) /\ d \in ToSet(L.write)
        /\ OwnerOf[d] \in Delayed /\ ty[d] # TL_WRITE_ALLOW_WRITE
    BY DEF Requeued
  <2> QED BY <2>1, WriterAlone
<1>2. /\ Lists(L, l) /\ L \in LockRecord /\ L.write \in Seq(Data) /\ Ordered(L.write, ty)
      /\ Counted(L, ty)
  BY <1>1 DEF LockOK, Lists, LockRecord
<1>3. /\ Without(L.write, {d}) \in Seq(Data) /\ ToSet(Without(L.write, {d})) = ToSet(L.write) \ {d}
      /\ Distinct(Without(L.write, {d})) /\ Ordered(Without(L.write, {d}), ty)
  <2>1. Distinct(L.write) BY <1>2 DEF Lists
  <2> QED BY <2>1, <1>2, WithoutFacts, WithoutDistinct, OrderedWithout
<1>4. PICK N : N = [L EXCEPT !.write = Without(@, {d})] OBVIOUS
<1>5. /\ N \in LockRecord /\ N.read = L.read /\ N.read_wait = L.read_wait
      /\ N.write_wait = L.write_wait /\ N.write = Without(L.write, {d})
      /\ N.read_no_write_count = L.read_no_write_count
  BY <1>2, <1>3, <1>4 DEF LockRecord
<1>6. d \notin ToSet(L.read) /\ d \notin ToSet(L.read_wait) /\ d \notin ToSet(L.write_wait)
  BY <1>1, <1>2 DEF Lists
<1>7. Shrunk(L, N, {d}) BY <1>2, <1>3, <1>5, <1>6 DEF Shrunk, Lists
<1>8. Ordered(N.write, ty) /\ Counted(N, ty) BY <1>2, <1>3, <1>5 DEF Counted
<1>9. LockOK(N, l, ty2, cd2) /\ Members(N) = Members(L) \ {d}
  <2>1. \A e \in Members(L) \ {d} : ty2[e] = ty[e] /\ cd2[e] = cd[e] BY DEF Requeued
  <2> QED BY <2>1, <1>1, <1>7, <1>8, ShrinkOK
<1>10. d \in Data /\ LockOf[d] = l /\ d \in Members(L)
  BY <1>1, <1>2, MembersAreData DEF Lists, Members
<1>11. Enqueued(N, M, l, ty2, cd2, d) BY <1>5, <1>9, <1>10 DEF Enqueued, Requeued
<1>12. /\ LockOK(M, l, ty2, cd2) /\ Members(M) = Members(N) \cup {d}
       /\ InQueues(M) = InQueues(N) \cup {d}
  BY <1>11, JoinWriteWaitOK
<1>13. InQueues(N) = InQueues(L) BY <1>5 DEF InQueues
<1>14. M.write = Without(L.write, {d}) BY DEF Requeued
<1> QED BY <1>1, <1>3, <1>9, <1>10, <1>12, <1>13, <1>14

(* the handler goes on with its only lock linked *)
LEMMA HandlerOK ==
    ASSUME ThrInv, NEW o \in Owner, o \in Delayed, pc[o] \in {"locked", "upgrade"},
           locks' = locks, pc'[o] \in {"locked", "upgrade", "upgrading"},
           NEW d \in Data, d = locks[o][1], OwnerOf[d] = o, 1 \in DOMAIN locks[o],
           Linked(d)', type'[d] \in {TL_WRITE_DELAYED, TL_WRITE},
           Queued(d)' => type'[d] = TL_WRITE_DELAYED \/ pc'[o] = "upgrading"
    PROVE  OwnerInv(o)'
<1>1. Array(o) BY DEF ThrInv, OwnerInv
<1>2. \A e \in Data : OwnerOf[e] = o => e = d BY OneData
<1>3. Array(o)' BY <1>1 DEF Array
<1>4. Placed(o)'
  <2>1. \A i : Called(o, i)' BY DEF Called
  <2>2. \A i \in DOMAIN locks[o] : locks[o][i] = d BY <1>2, ArrayFacts
  <2>3. (\A i \in DOMAIN locks[o] :
         Called(o, i) /\ type[locks[o][i]] # TL_UNLOCK => Linked(locks[o][i]))'
    BY <2>2 DEF Linked
  <2>4. ASSUME NEW e \in Data, OwnerOf[e] = o, Linked(e)'
        PROVE  \E i \in DOMAIN locks'[o] : locks'[o][i] = e /\ Called(o, i)'
    BY <2>1, <2>4, <1>2
  <2>5. ASSUME NEW e \in Data, OwnerOf[e] = o, type'[e] = TL_WRITE_ONLY PROVE Linked(e)'
    BY <2>5, <1>2
  <2> QED BY <2>3, <2>4, <2>5 DEF Placed
<1>5. QueuedLast(o)' BY <1>2 DEF QueuedLast
<1>6. Sorted(o)' /\ Asleep(o)' BY DEF Sorted, Untried, Asleep
<1> QED BY <1>3, <1>4, <1>5, <1>6 DEF OwnerInv

(* the handler has one lock, and it is linked unless its wait was aborted *)
LEMMA HandlerFacts ==
    ASSUME ThrInv, NEW o \in Owner,
           (pc[o] = "locked" /\ o \in Delayed) \/ pc[o] = "upgrade"
    PROVE  /\ o \in Delayed /\ 1 \in DOMAIN locks[o] /\ locks[o][1] \in Data
           /\ OwnerOf[locks[o][1]] = o /\ LockOf[locks[o][1]] \in Lock
           /\ type[locks[o][1]] \in {TL_UNLOCK, TL_WRITE_DELAYED, TL_WRITE, TL_WRITE_ONLY}
           /\ type[locks[o][1]] # TL_UNLOCK => Linked(locks[o][1])
<1>1. Array(o) /\ Placed(o) /\ DelayedTypes(type) BY DEF ThrInv, OwnerInv
<1>2. o \in Delayed /\ locks[o] # << >> BY <1>1 DEF Array
<1>3. locks[o] \in Seq(Data) BY ArrayFacts
<1>4. 1 \in DOMAIN locks[o] BY <1>2, <1>3
<1>5. locks[o][1] \in Data /\ OwnerOf[locks[o][1]] = o BY <1>4, ArrayFacts
<1>6. LockOf[locks[o][1]] \in Lock BY <1>5, DataFacts
<1>7. type[locks[o][1]] \in {TL_UNLOCK, TL_WRITE_DELAYED, TL_WRITE, TL_WRITE_ONLY}
  BY <1>1, <1>2, <1>5 DEF DelayedTypes
<1>8. Called(o, 1) BY DEF Called
<1>9. type[locks[o][1]] # TL_UNLOCK => Linked(locks[o][1]) BY <1>1, <1>4, <1>8 DEF Placed
<1> QED BY <1>2, <1>4, <1>5, <1>6, <1>7, <1>9

(* the handler changes the type or the list of its lock; waiters may be    *)
(* granted                                                                 *)
LEMMA HandlerStep ==
    ASSUME ThrInv, NEW o \in Owner, (pc[o] = "locked" /\ o \in Delayed) \/ pc[o] = "upgrade",
           UNCHANGED <<locks, pos, asked, abort>>,
           NEW c \in {"locked", "upgrade", "upgrading"}, pc' = [pc EXCEPT ![o] = c],
           NEW d \in Data, d = locks[o][1], Linked(d),
           NEW t \in {TL_WRITE_DELAYED, TL_WRITE}, type' = [type EXCEPT ![d] = t],
           cond' \in [Data -> BOOLEAN], \A e \in Data \ {d} : cond'[e] => cond[e],
           \A e \in Data \ Members(lock[LockOf[d]]) : cond'[e] = cond[e],
           NEW M, lock' = [lock EXCEPT ![LockOf[d]] = M], LockOK(M, LockOf[d], type', cond'),
           Members(M) = Members(lock[LockOf[d]]),
           InQueues(M) \subseteq InQueues(lock[LockOf[d]]) \cup {d},
           d \in InQueues(M) => t = TL_WRITE_DELAYED \/ c = "upgrading"
    PROVE  ThrInv'
<1>1. o \in Delayed /\ 1 \in DOMAIN locks[o] /\ OwnerOf[d] = o /\ LockOf[d] \in Lock BY HandlerFacts
<1>2. /\ type \in [Data -> LockType] /\ DelayedTypes(type) /\ lock \in [Lock -> LockRecord]
      /\ pc \in [Owner -> Where]
  BY DEF ThrInv, Typed
<1>3. /\ type' \in [Data -> LockType] /\ type'[d] = t /\ \A e \in Data \ {d} : type'[e] = type[e]
  <2>1. t \in LockType OBVIOUS
  <2> QED BY <2>1, <1>2
<1>4. DelayedTypes(type') BY <1>1, <1>2, <1>3 DEF DelayedTypes
<1>5. d \in Members(lock[LockOf[d]]) BY DEF Linked
<1>6. /\ Linked(d)' /\ (d \notin InQueues(M) => ~Queued(d)')
      /\ \A e \in Data \ {d} : (Linked(e)' <=> Linked(e)) /\ (Queued(e)' => Queued(e))
  <2>1. Members(M) = Members(lock[LockOf[d]]) \cup {d} BY <1>5
  <2> QED BY <2>1, Joined
<1>7. /\ pc'[o] = c /\ pc' \in [Owner -> Where]
      /\ \A p \in Owner \ {o} : pc'[p] = pc[p] /\ locks'[p] = locks[p] /\ pos'[p] = pos[p]
  BY <1>2 DEF Where
<1>8. OwnerInv(o)' BY <1>1, <1>3, <1>6, <1>7, HandlerOK
<1>9. Typed'
  <2>1. M \in LockRecord BY DEF LockOK, Lists
  <2>2. lock' \in [Lock -> LockRecord] BY <2>1, <1>1, <1>2
  <2> QED BY <2>2, <1>3, <1>7 DEF ThrInv, Typed
<1>10. \A e \in Data : OwnerOf[e] # o => Kept(e) BY <1>1, <1>3, <1>6 DEF Kept
<1>11. \A e \in Data : LockOf[e] # LockOf[d] => type'[e] = type[e] /\ cond'[e] = cond[e]
  <2>1. \A e \in Members(lock[LockOf[d]]) : LockOf[e] = LockOf[d] BY <1>1 DEF ThrInv, LockOK, Lists
  <2> QED BY <2>1, <1>3
<1> QED BY <1>1, <1>4, <1>7, <1>8, <1>9, <1>10, <1>11, OneLockChanges

(* thr_upgrade_write_delay_lock *)
LEMMA UpgradeWriteDelayLockOK ==
    ASSUME ThrInv, NEW o \in Owner, UpgradeWriteDelayLock(o)
    PROVE  ThrInv'
<1>1. /\ (pc[o] = "locked" /\ o \in Delayed) \/ pc[o] = "upgrade"
      /\ locks' = locks /\ asked' = asked /\ abort' = abort
  BY DEF UpgradeWriteDelayLock
<1>2. PICK d \in Data : /\ d = locks[o][1] /\ OwnerOf[d] = o /\ LockOf[d] \in Lock /\ o \in Delayed
                        /\ type[d] \in {TL_UNLOCK, TL_WRITE_DELAYED, TL_WRITE, TL_WRITE_ONLY}
                        /\ type[d] # TL_UNLOCK => Linked(d)
  BY <1>1, HandlerFacts
<1>3. CASE type[d] = TL_UNLOCK
  <2>1. /\ pc' = [pc EXCEPT ![o] = "unlocking"] /\ pos' = [pos EXCEPT ![o] = 1]
        /\ lock' = lock /\ type' = type /\ cond' = cond
    BY <1>2, <1>3 DEF UpgradeWriteDelayLock
  <2>2. "unlocking" \in Where BY DEF Where
  <2> QED BY <2>1, <2>2, <1>1, MoveOK
<1>4. CASE type[d] # TL_UNLOCK
  <2>1. /\ type[d] < TL_WRITE_LOW_PRIORITY /\ type' = [type EXCEPT ![d] = TL_WRITE] /\ pos' = pos
        /\ IF ~cond[d] /\ Empty(lock[LockOf[d]].read)
             THEN /\ pc' = [pc EXCEPT ![o] = "locked"]
                  /\ lock' = lock /\ cond' = cond
             ELSE /\ pc' = [pc EXCEPT ![o] = "upgrading"]
                  /\ cond' = [cond EXCEPT ![d] = TRUE]
                  /\ lock' = IF cond[d] THEN lock
                             ELSE [lock EXCEPT ![LockOf[d]].write = Without(@, {d}),
                                               ![LockOf[d]].write_wait = <<d>> \o @]
    BY <1>2, <1>4 DEF UpgradeWriteDelayLock
  <2>2. type[d] = TL_WRITE_DELAYED /\ Linked(d)
    <3>1. type[d] < TL_WRITE_LOW_PRIORITY BY <2>1, Zenon
    <3> HIDE <2>1
    <3> QED BY <3>1, <1>2, <1>4
  <2>3. PICK l \in Lock : l = LockOf[d] BY <1>2
  <2>4. PICK L \in LockRecord : L = lock[l] /\ LockOK(L, l, type, cond) BY DEF ThrInv, Typed
  <2>5. /\ type \in [Data -> LockType] /\ cond \in [Data -> BOOLEAN] /\ lock \in [Lock -> LockRecord]
    BY DEF ThrInv, Typed
  <2>6. /\ \A e \in Members(L) : e \in Data
        /\ type'[d] = TL_WRITE /\ \A e \in Members(L) \ {d} : type'[e] = type[e]
    BY <2>1, <2>5, MembersAreData DEF Members
  <2>7. d \in ToSet(L.write) \cup ToSet(L.write_wait) /\ (d \in ToSet(L.write) <=> ~cond[d])
    BY <2>2, <2>3, <2>4 DEF Linked, Members, LockOK, Roles
  <2>8. CASE ~cond[d] /\ Empty(L.read)
    <3>1. pc' = [pc EXCEPT ![o] = "locked"] /\ lock' = lock /\ cond' = cond BY <2>1, <2>3, <2>4, <2>8
    <3>2. LockOK(L, l, type', cond')
      <4>1. d \in ToSet(L.write) /\ L.read = << >> BY <2>7, <2>8 DEF Empty
      <4>2. LockOK(L, l, type', cond) BY <4>1, <2>2, <2>4, <2>6, <1>2, RaiseOK
      <4> QED BY <4>2, <3>1
    <3>3. lock' = [lock EXCEPT ![LockOf[d]] = L] BY <3>1, <2>3, <2>4, <2>5
    <3>4. d \notin InQueues(L) BY <2>4, <2>7, <2>8 DEF LockOK, Lists, InQueues
    <3>5. Members(L) = Members(lock[LockOf[d]]) /\ InQueues(L) \subseteq InQueues(lock[LockOf[d]]) \cup {d}
      BY <2>3, <2>4
    <3> QED BY <3>1, <3>2, <3>3, <3>4, <3>5, <2>1, <2>2, <2>3, <2>5, <1>1, <1>2, HandlerStep
  <2>9. CASE cond[d]
    <3>1. pc' = [pc EXCEPT ![o] = "upgrading"] /\ lock' = lock /\ cond' = [cond EXCEPT ![d] = TRUE]
      BY <2>1, <2>9
    <3>2. cond' = cond BY <3>1, <2>5, <2>9
    <3>3. LockOK(L, l, type', cond')
      <4>1. d \in ToSet(L.write_wait) BY <2>7, <2>9
      <4>2. LockOK(L, l, type', cond) BY <4>1, <2>4, <2>6, RaiseWaitingOK
      <4> QED BY <4>2, <3>2
    <3>4. lock' = [lock EXCEPT ![LockOf[d]] = L] BY <3>1, <2>3, <2>4, <2>5
    <3>5. Members(L) = Members(lock[LockOf[d]]) /\ InQueues(L) \subseteq InQueues(lock[LockOf[d]]) \cup {d}
      BY <2>3, <2>4
    <3>6. /\ cond' \in [Data -> BOOLEAN] /\ \A e \in Data \ {d} : cond'[e] => cond[e]
          /\ \A e \in Data \ Members(lock[LockOf[d]]) : cond'[e] = cond[e]
      BY <3>2, <2>5
    <3>7. UNCHANGED <<locks, pos, asked, abort>> /\ LockOK(L, LockOf[d], type', cond')
      BY <3>3, <2>1, <2>3, <1>1
    <3>8. PICK c \in {"locked", "upgrade", "upgrading"} : c = "upgrading" OBVIOUS
    <3>9. pc' = [pc EXCEPT ![o] = c] BY <3>1, <3>8
    <3> QED BY <3>4, <3>5, <3>6, <3>7, <3>8, <3>9, <2>1, <2>2, <1>1, <1>2, HandlerStep
  <2>10. CASE ~cond[d] /\ ~Empty(L.read)
    <3>1. /\ pc' = [pc EXCEPT ![o] = "upgrading"] /\ cond' = [cond EXCEPT ![d] = TRUE]
          /\ lock' = [lock EXCEPT ![l].write = Without(@, {d}), ![l].write_wait = <<d>> \o @]
      BY <2>1, <2>3, <2>4, <2>10
    <3>2. Without(L.write, {d}) \in Seq(Data) /\ <<d>> \o L.write_wait \in Seq(Data)
      <4>1. L.write \in Seq(Data) /\ L.write_wait \in Seq(Data) BY DEF LockRecord
      <4>2. <<d>> \in Seq(Data) OBVIOUS
      <4> QED BY <4>1, <4>2, WithoutFacts, ConcatFacts
    <3>3. PICK a, b \in Seq(Data) : a = Without(L.write, {d}) /\ b = <<d>> \o L.write_wait
      BY <3>2, Zenon
    <3>4. PICK M : M = [L EXCEPT !.write = a, !.write_wait = b] OBVIOUS
    <3>5. lock' = [lock EXCEPT ![l] = M] BY <3>1, <3>3, <3>4, <2>4, <2>5
    <3>6. /\ M \in LockRecord /\ M.read = L.read /\ M.read_wait = L.read_wait
          /\ M.read_no_write_count = L.read_no_write_count /\ M.write = a /\ M.write_wait = b
      BY <3>4 DEF LockRecord
    <3>7. /\ cond' \in [Data -> BOOLEAN] /\ cond'[d] /\ \A e \in Data \ {d} : cond'[e] = cond[e]
      BY <3>1, <2>5
    <3>8. Requeued(L, M, l, type, cond, type', cond', d)
      <4>1. \A e \in Members(L) \ {d} : type'[e] = type[e] /\ cond'[e] = cond[e] BY <2>6, <3>7
      <4>2. d \in ToSet(L.write) BY <2>7, <2>10
      <4> QED BY <4>1, <4>2, <3>3, <3>6, <3>7, <2>2, <2>4, <2>6, <1>2 DEF Requeued
    <3>9. /\ LockOK(M, l, type', cond') /\ Members(M) = Members(L)
          /\ InQueues(M) = InQueues(L) \cup {d}
      BY <3>8, RequeueOK
    <3>10. /\ LockOK(M, LockOf[d], type', cond') /\ Members(M) = Members(lock[LockOf[d]])
           /\ InQueues(M) \subseteq InQueues(lock[LockOf[d]]) \cup {d}
           /\ lock' = [lock EXCEPT ![LockOf[d]] = M]
      BY <3>5, <3>9, <2>3, <2>4
    <3>11. \A e \in Data \ Members(lock[LockOf[d]]) : cond'[e] = cond[e]
      BY <3>7, <2>2 DEF Linked
    <3> QED BY <3>1, <3>7, <3>10, <3>11, <2>1, <2>2, <1>1, <1>2, HandlerStep, ZenonT(40)
  <2> QED BY <2>8, <2>9, <2>10
<1> QED BY <1>3, <1>4

(* thr_reschedule_write_lock *)
LEMMA RescheduleWriteLockOK ==
    ASSUME ThrInv, NEW o \in Owner, RescheduleWriteLock(o)
    PROVE  ThrInv'
<1>1. /\ pc[o] = "locked" /\ o \in Delayed /\ pc' = [pc EXCEPT ![o] = "upgrade"]
      /\ UNCHANGED <<locks, pos, asked, abort>>
  BY DEF RescheduleWriteLock
<1>2. PICK d \in Data : /\ d = locks[o][1] /\ OwnerOf[d] = o /\ LockOf[d] \in Lock
                        /\ type[d] # TL_UNLOCK => Linked(d)
  BY <1>1, HandlerFacts
<1> DEFINE l0 == LockOf[d]  L0 == lock[l0]
           S0 == [l |-> [L0 EXCEPT !.write = Without(@, {d}), !.write_wait = <<d>> \o @],
                  type |-> [type EXCEPT ![d] = TL_WRITE_DELAYED],
                  cond |-> [cond EXCEPT ![d] = TRUE]]
           F0 == free_all_read_locks(S0, FALSE)
<1>3. /\ type[d] = TL_WRITE
      /\ lock' = [lock EXCEPT ![l0] = F0.l] /\ type' = F0.type /\ cond' = F0.cond
  BY <1>2, Zenon DEF RescheduleWriteLock
<1>4. PICK l \in Lock : l = l0 BY <1>2
<1>5. PICK L \in LockRecord : L = lock[l] /\ LockOK(L, l, type, cond) BY DEF ThrInv, Typed
<1>6. /\ type \in [Data -> LockType] /\ cond \in [Data -> BOOLEAN] /\ lock \in [Lock -> LockRecord]
      /\ DelayedTypes(type) /\ QueuedLast(o)
  BY DEF ThrInv, Typed, OwnerInv
<1>7. Linked(d) /\ ~Queued(d) BY <1>1, <1>2, <1>3, <1>6, SMTT(30) DEF QueuedLast
<1>8. d \in ToSet(L.write)
  BY <1>3, <1>4, <1>5, <1>7 DEF Linked, Queued, Waiting, Members, LockOK, Roles
<1>9. Without(L.write, {d}) \in Seq(Data) /\ <<d>> \o L.write_wait \in Seq(Data)
  <2>1. L.write \in Seq(Data) /\ L.write_wait \in Seq(Data) BY DEF LockRecord
  <2>2. <<d>> \in Seq(Data) OBVIOUS
  <2> QED BY <2>1, <2>2, WithoutFacts, ConcatFacts
<1>10. PICK a, b \in Seq(Data) : a = Without(L.write, {d}) /\ b = <<d>> \o L.write_wait
  BY <1>9, Zenon
<1>11. PICK M : M = [L EXCEPT !.write = a, !.write_wait = b] OBVIOUS
<1>12. PICK ty : ty = [type EXCEPT ![d] = TL_WRITE_DELAYED] OBVIOUS
<1>13. PICK cd : cd = [cond EXCEPT ![d] = TRUE] OBVIOUS
<1>14. PICK S : S = [l |-> M, type |-> ty, cond |-> cd] OBVIOUS
<1>15. S0 = S
  <2>1. M = [L0 EXCEPT !.write = Without(@, {d}), !.write_wait = <<d>> \o @]
    BY <1>4, <1>5, <1>10, <1>11
  <2> QED BY <2>1, <1>12, <1>13, <1>14
<1>16. /\ M \in LockRecord /\ M.read = L.read /\ M.read_wait = L.read_wait
       /\ M.read_no_write_count = L.read_no_write_count /\ M.write = a /\ M.write_wait = b
  BY <1>11 DEF LockRecord
<1>17. /\ cd \in [Data -> BOOLEAN] /\ cd[d] /\ \A e \in Data \ {d} : cd[e] = cond[e]
  BY <1>6, <1>13
<1>18. /\ ty \in [Data -> LockType] /\ ty[d] = TL_WRITE_DELAYED
       /\ \A e \in Data \ {d} : ty[e] = type[e]
  BY <1>6, <1>12
<1>19. Requeued(L, M, l, type, cond, ty, cd, d)
  <2>1. \A e \in Members(L) \ {d} : ty[e] = type[e] /\ cd[e] = cond[e]
    BY <1>17, <1>18, MembersAreData DEF Members
  <2>2. type[d] # TL_WRITE_ALLOW_WRITE BY <1>3 DEF TL_WRITE, TL_WRITE_ALLOW_WRITE
  <2>3. OwnerOf[d] \in Delayed BY <1>1, <1>2
  <2> HIDE DEF l0, L0, S0, F0
  <2> QED BY <2>1, <2>2, <2>3, <1>5, <1>8, <1>10, <1>16, <1>17, <1>18, ZenonT(40) DEF Requeued
<1>20. /\ LockOK(M, l, ty, cd) /\ Members(M) = Members(L)
       /\ InQueues(M) = InQueues(L) \cup {d} /\ ToSet(M.write) = {}
  BY <1>19, RequeueOK
<1>21. S.l = M /\ S.type = ty /\ S.cond = cd BY <1>14
<1>22. Triple(S, l)
  <2>1. DelayedTypes(ty) BY <1>1, <1>2, <1>6, <1>18 DEF DelayedTypes
  <2>2. S \in Triples BY <1>14, <1>16, <1>17, <1>18 DEF Triples
  <2> QED BY <2>1, <2>2, <1>20, <1>21 DEF Triple
<1>23. PICK F : F = free_all_read_locks(S, FALSE) OBVIOUS
<1>24. Triple(F, l) /\ Passed(S, F) /\ F.type = S.type /\ F.l.write_wait = S.l.write_wait
  <2>1. \A w \in ToSet(S.l.write) :
          S.type[w] <= TL_WRITE_DELAYED /\ (S.type[w] = TL_WRITE_CONCURRENT_INSERT => FALSE)
    BY <1>20, <1>21
  <2> QED BY <2>1, <1>22, <1>23, FreeReadsOK
<1>25. lock' = [lock EXCEPT ![l] = F.l] /\ type' = ty /\ cond' = F.cond
  <2>1. F0 = F BY <1>15, <1>23
  <2> HIDE DEF F0, S0, L0
  <2> QED BY <2>1, <1>3, <1>4, <1>21, <1>24
<1>26. PICK N : N = F.l OBVIOUS
<1>27. /\ LockOK(N, l, type', cond') /\ cond' \in [Data -> BOOLEAN]
  BY <1>21, <1>24, <1>25, <1>26 DEF Triple, Triples
<1>28. /\ Members(N) = Members(L) /\ InQueues(N) \subseteq InQueues(L) \cup {d}
       /\ \A e \in Data \ Members(L) : cond'[e] = cond[e]
  <2>1. /\ Members(N) = Members(M) /\ InQueues(N) \subseteq InQueues(M)
        /\ \A e \in Data \ Members(M) : cond'[e] = cd[e]
    BY <1>21, <1>24, <1>25, <1>26 DEF Passed, InQueues
  <2>2. d \in Members(L) BY <1>8 DEF Members
  <2> QED BY <2>1, <2>2, <1>17, <1>20
<1>29. \A e \in Data \ {d} : cond'[e] => cond[e]
  <2> SUFFICES ASSUME NEW e \in Data \ {d}, cond'[e] PROVE cond[e] OBVIOUS
  <2>1. CASE e \notin Members(L) BY <2>1, <1>28
  <2>2. CASE e \in Members(L)
    <3>1. e \in InQueues(N) BY <2>2, <1>27, <1>28 DEF LockOK, Roles, Members, InQueues
    <3>2. e \in InQueues(L) BY <3>1, <1>28
    <3> QED BY <3>2, <1>5 DEF LockOK, Roles, InQueues
  <2> QED BY <2>1, <2>2
<1>30. /\ lock' = [lock EXCEPT ![LockOf[d]] = N] /\ LockOK(N, LockOf[d], type', cond')
       /\ Members(N) = Members(lock[LockOf[d]])
       /\ InQueues(N) \subseteq InQueues(lock[LockOf[d]]) \cup {d}
       /\ \A e \in Data \ Members(lock[LockOf[d]]) : cond'[e] = cond[e]
  BY <1>4, <1>5, <1>25, <1>26, <1>27, <1>28
<1>31. PICK c \in {"locked", "upgrade", "upgrading"} : c = "upgrade" OBVIOUS
<1>32. PICK t \in {TL_WRITE_DELAYED, TL_WRITE} : t = TL_WRITE_DELAYED OBVIOUS
<1>33. pc' = [pc EXCEPT ![o] = c] /\ type' = [type EXCEPT ![d] = t] BY <1>1, <1>12, <1>25, <1>31, <1>32
<1> HIDE DEF L0, l0, S0, F0
<1> QED BY <1>1, <1>2, <1>7, <1>27, <1>29, <1>30, <1>31, <1>32, <1>33, HandlerStep

-----------------------------------------------------------------------------
(* The invariant is inductive *)

(* thr_lock_init and thr_lock_data_init establish the invariant *)
LEMMA InitOK == Init => ThrInv
<1> SUFFICES ASSUME Init PROVE ThrInv OBVIOUS
<1>1. << >> \in Seq(Data) /\ DOMAIN << >> = {} /\ ToSet(<< >>) = {} BY DEF ToSet
<1>2. PICK q \in Seq(Data) : q = << >> BY <1>1, Zenon
<1>3. PICK L : L = [read |-> q, write |-> q, read_wait |-> q, write_wait |-> q,
                    read_no_write_count |-> 0, write_lock_count |-> 0]
  OBVIOUS
<1>4. L \in LockRecord
  <2>1. 0 \in 0 .. MaxWriteLockCount + 1 BY ThrLockAssumption DEF ThrLockAssumption
  <2> QED BY <2>1, <1>3 DEF LockRecord
<1>5. lock = [l \in Lock |-> L] BY <1>2, <1>3 DEF Init, LockInit
<1>6. /\ L.read = q /\ L.write = q /\ L.read_wait = q /\ L.write_wait = q
      /\ L.read_no_write_count = 0 /\ ToSet(q) = {} /\ DOMAIN q = {}
  BY <1>1, <1>2, <1>3
<1>7. Members(L) = {} BY <1>6 DEF Members
<1>8. ASSUME NEW l \in Lock PROVE LockOK(lock[l], l, type, cond)
  <2>1. Lists(L, l) BY <1>4, <1>6, <1>7 DEF Lists, Distinct
  <2>2. Roles(L, type, cond) BY <1>6, <1>7 DEF Roles
  <2>3. Counted(L, type)
    <3>1. {d \in ToSet(L.read) : type[d] = TL_READ_NO_INSERT} = {} BY <1>6
    <3>2. Cardinality({}) = 0 BY FS_EmptySet
    <3> QED BY <3>1, <3>2, <1>6 DEF Counted
  <2>4. /\ Ordered(L.write, type) /\ WritersAgree(ToSet(L.write), type)
        /\ ReadersAgree(ToSet(L.read), ToSet(L.write), type)
    BY <1>6 DEF Ordered, WritersAgree, ReadersAgree
  <2>5. LockOK(L, l, type, cond) BY <2>1, <2>2, <2>3, <2>4 DEF LockOK
  <2> QED BY <2>5, <1>5
<1>9. Typed
  <2>1. lock \in [Lock -> LockRecord] BY <1>4, <1>5
  <2>2. "idle" \in Where BY DEF Where
  <2>3. locks \in [Owner -> Seq(Data)] BY <1>1 DEF Init, LockInit
  <2> QED BY <2>1, <2>2, <2>3 DEF Init, LockInit, Typed
<1>10. DelayedTypes(type) BY DEF Init, LockInit, DelayedTypes
<1>11. ASSUME NEW o \in Owner PROVE OwnerInv(o)
  <2>1. pc[o] = "idle" /\ locks[o] = << >> BY DEF Init, LockInit
  <2>2. \A d \in Data : ~Linked(d) /\ ~Queued(d)
    <3> SUFFICES ASSUME NEW d \in Data PROVE ~Linked(d) /\ ~Queued(d) OBVIOUS
    <3>1. LockOf[d] \in Lock BY ThrLockAssumption DEF ThrLockAssumption
    <3>2. lock[LockOf[d]] = L BY <3>1, <1>5
    <3> QED BY <3>2, <1>6, <1>7 DEF Linked, Queued, Waiting
  <2>3. \A d \in Data : type[d] = TL_UNLOCK BY DEF Init, LockInit
  <2>4. Array(o) BY <2>1, <1>1 DEF Array, Distinct
  <2>5. Placed(o) BY <2>1, <2>2, <2>3, <1>1 DEF Placed
  <2>6. QueuedLast(o) BY <2>2 DEF QueuedLast
  <2>7. Sorted(o) /\ Asleep(o) BY <2>1 DEF Sorted, Untried, Asleep
  <2> QED BY <2>4, <2>5, <2>6, <2>7 DEF OwnerInv
<1> QED BY <1>8, <1>9, <1>10, <1>11 DEF ThrInv

(* every step keeps it *)
LEMMA NextOK ==
    ASSUME ThrInv, [Next]_vars
    PROVE  ThrInv'
<1>1. ASSUME NEW o \in Owner, Continue(o) PROVE ThrInv'
  <2>1. CASE LockGranted(o) BY <2>1, LockGrantedOK
  <2>2. CASE LockRefused(o) BY <2>2, LockRefusedOK
  <2>3. CASE LockDelayedQueued(o) BY <2>3, LockDelayedQueuedOK
  <2>4. CASE LockDeadlock(o) BY <2>4, LockDeadlockOK
  <2>5. CASE LockWait(o) BY <2>5, LockWaitOK
  <2>6. CASE WaitEnds(o) BY <2>6, WaitEndsOK
  <2>7. CASE WaitKilled(o) BY <2>7, WaitBrokenOK DEF WaitKilled
  <2>8. CASE WaitTimedOut(o) BY <2>8, WaitBrokenOK DEF WaitTimedOut
  <2>9. CASE UnlockTables(o) BY <2>9, UnlockTablesOK
  <2>10. CASE UnlockNext(o) BY <2>10, UnlockNextOK
  <2>11. CASE StatementEnds(o) BY <2>11, StatementEndsOK
  <2>12. CASE UpgradeWriteDelayLock(o) BY <2>12, UpgradeWriteDelayLockOK
  <2>13. CASE UpgradeEnds(o) BY <2>13, UpgradeEndsOK
  <2> QED BY <1>1, <2>1, <2>2, <2>3, <2>4, <2>5, <2>6, <2>7, <2>8, <2>9, <2>10, <2>11, <2>12,
             <2>13 DEF Continue
<1>2. ASSUME NEW t \in Thread, Kill(t) PROVE ThrInv'
  <2>1. abort' \in [Thread -> BOOLEAN] BY <1>2 DEF ThrInv, Typed, Kill
  <2> QED BY <2>1, <1>2, SameOK DEF Kill
<1>3. CASE UNCHANGED vars
  <2>1. abort' \in [Thread -> BOOLEAN] BY <1>3 DEF ThrInv, Typed, vars
  <2> QED BY <2>1, <1>3, SameOK DEF vars
<1>4. ASSUME NEW o \in Owner, LockTables(o) PROVE ThrInv' BY <1>4, LockTablesOK
<1>5. ASSUME NEW o \in Owner, UpgradeWriteDelayLock(o) PROVE ThrInv' BY <1>5, UpgradeWriteDelayLockOK
<1>6. ASSUME NEW o \in Owner, RescheduleWriteLock(o) PROVE ThrInv' BY <1>6, RescheduleWriteLockOK
<1>7. ASSUME NEW o \in Owner, AbortLocks(o) PROVE ThrInv' BY <1>7, AbortLocksOK
<1>8. ASSUME NEW o \in Owner, NEW l \in Lock, NEW t \in Thread, AbortLocksForThread(o, l, t)
      PROVE  ThrInv'
  BY <1>8, AbortLocksForThreadOK
<1> QED BY <1>1, <1>2, <1>3, <1>4, <1>5, <1>6, <1>7, <1>8 DEF Next

-----------------------------------------------------------------------------
(* What follows *)

(* the lists of one lock hold every data once *)
LEMMA OnceInAll ==
    ASSUME NEW L, NEW l, Lists(L, l)
    PROVE  LET all == L.read \o L.write \o L.read_wait \o L.write_wait
           IN Cardinality(ToSet(all)) = Len(all) /\ \A d \in ToSet(all) : LockOf[d] = l
<1>1. PICK a \in Seq(Data), b \in Seq(Data), c \in Seq(Data), e \in Seq(Data) :
        a = L.read /\ b = L.write /\ c = L.read_wait /\ e = L.write_wait
  BY DEF Lists, LockRecord
<1>2. /\ Distinct(a) /\ Distinct(b) /\ Distinct(c) /\ Distinct(e)
      /\ ToSet(a) \cap ToSet(b) = {} /\ ToSet(c) \cap ToSet(e) = {} /\ ToSet(a) \cap ToSet(c) = {}
      /\ ToSet(a) \cap ToSet(e) = {} /\ ToSet(b) \cap ToSet(c) = {} /\ ToSet(b) \cap ToSet(e) = {}
  BY <1>1 DEF Lists
<1>3. PICK ab : ab = a \o b OBVIOUS
<1>4. ab \in Seq(Data) /\ ToSet(ab) = ToSet(a) \cup ToSet(b) /\ Distinct(ab)
  BY <1>2, <1>3, ConcatFacts
<1>5. PICK abc : abc = ab \o c OBVIOUS
<1>6. abc \in Seq(Data) /\ ToSet(abc) = ToSet(ab) \cup ToSet(c) /\ Distinct(abc)
  <2>1. ToSet(ab) \cap ToSet(c) = {} BY <1>2, <1>4
  <2> QED BY <1>2, <1>4, <1>5, <2>1, ConcatFacts
<1>7. PICK all : all = abc \o e OBVIOUS
<1>8. all \in Seq(Data) /\ ToSet(all) = ToSet(abc) \cup ToSet(e) /\ Distinct(all)
  <2>1. ToSet(abc) \cap ToSet(e) = {} BY <1>2, <1>4, <1>6
  <2> QED BY <1>2, <1>6, <1>7, <2>1, ConcatFacts
<1>9. Cardinality(ToSet(all)) = Len(all) BY <1>8, ListFinite
<1>10. ToSet(all) = Members(L) BY <1>1, <1>4, <1>6, <1>8 DEF Members
<1>11. \A d \in ToSet(all) : LockOf[d] = l BY <1>10 DEF Lists
<1>12. L.read \o L.write \o L.read_wait \o L.write_wait = all BY <1>1, <1>3, <1>5, <1>7
<1> QED BY <1>9, <1>11, <1>12

(* the type invariant: every data is on at most one of its lock's lists *)
LEMMA TypeOKFollows ==
    ASSUME ThrInv
    PROVE  TypeOK
<1>1. ASSUME NEW l \in Lock
      PROVE  /\ lock[l] \in LockRecord
             /\ LET all == lock[l].read \o lock[l].write \o lock[l].read_wait \o lock[l].write_wait
                IN Cardinality(ToSet(all)) = Len(all) /\ \A d \in ToSet(all) : LockOf[d] = l
  <2>1. Lists(lock[l], l) BY DEF ThrInv, LockOK
  <2>2. lock[l] \in LockRecord BY <2>1 DEF Lists
  <2> QED BY <2>1, <2>2, OnceInAll
<1>2. pos \in [Owner -> Nat] BY DEF ThrInv, Typed
<1>3. /\ type \in [Data -> LockType] /\ asked \in [Data -> LockType]
      /\ cond \in [Data -> BOOLEAN] /\ abort \in [Thread -> BOOLEAN]
      /\ locks \in [Owner -> Seq(Data)]
  BY DEF ThrInv, Typed
<1>4. pc \in [Owner -> {"idle", "locking", "waiting", "locked", "unlocking", "upgrade", "upgrading"}]
  BY DEF ThrInv, Typed, Where
<1> QED BY <1>1, <1>2, <1>3, <1>4, Zenon DEF TypeOK, LockRecord

(* locks in use together do not exclude each other, but for one pair *)
LEMMA HoldersFollow ==
    ASSUME ThrInv
    PROVE  HoldersExclude
<1> SUFFICES ASSUME NEW l \in Lock, NEW w \in ToSet(lock[l].write), NEW d \in InUse(l)
             PROVE  Compatible(d, w) \/ Overlooked(d, w)
  BY DEF HoldersExclude
<1>1. LockOK(lock[l], l, type, cond) BY DEF ThrInv
<1>2. CASE d \in ToSet(lock[l].read)
  <2>1. Tolerates(w, d, type) BY <1>1, <1>2 DEF LockOK, ReadersAgree
  <2>2. type[d] \in TL_READ .. TL_READ_NO_INSERT BY <1>1, <1>2 DEF LockOK, Roles
  <2> QED BY <2>1, <2>2 DEF Tolerates, Compatible, Overlooked, IsRead
<1>3. CASE d \in ToSet(lock[l].write)
  <2>1. OwnerOf[d] = OwnerOf[w] \/ (type[d] = TL_WRITE_ALLOW_WRITE /\ type[w] = TL_WRITE_ALLOW_WRITE)
    BY <1>1, <1>3 DEF LockOK, WritersAgree
  <2>2. type[d] \in TL_WRITE_ALLOW_WRITE .. TL_WRITE_ONLY BY <1>1, <1>3 DEF LockOK, Roles
  <2> QED BY <2>1, <2>2 DEF Compatible, IsRead
<1> QED BY <1>2, <1>3 DEF InUse

(* whoever sleeps is in a queue *)
LEMMA QueuedFollows ==
    ASSUME ThrInv
    PROVE  WaitersQueued
<1> SUFFICES ASSUME NEW o \in Owner
             PROVE  /\ pc[o] = "waiting" /\ cond[Cur(o)] => Cur(o) \in Waiting(LockOf[Cur(o)])
                    /\ pc[o] = "upgrading" /\ cond[locks[o][1]] =>
                         locks[o][1] \in ToSet(lock[LockOf[locks[o][1]]].write_wait)
  BY DEF WaitersQueued
<1>1. Array(o) /\ Placed(o) /\ Asleep(o) BY DEF ThrInv, OwnerInv
<1>2. ASSUME pc[o] = "waiting", cond[Cur(o)] PROVE Cur(o) \in Waiting(LockOf[Cur(o)])
  <2>1. pos[o] \in DOMAIN locks[o] BY <1>1, <1>2 DEF Array
  <2>2. Called(o, pos[o]) BY <1>2, ArrayFacts DEF Called
  <2>3. type[Cur(o)] # TL_UNLOCK BY <1>1, <1>2 DEF Asleep
  <2>4. Linked(Cur(o)) BY <1>1, <2>1, <2>2, <2>3 DEF Placed, Cur
  <2>5. Cur(o) \in Data BY <2>1, ArrayFacts DEF Cur
  <2> QED BY <1>2, <2>4, <2>5, DataFacts DEF Queued
<1>3. ASSUME pc[o] = "upgrading", cond[locks[o][1]]
      PROVE  locks[o][1] \in ToSet(lock[LockOf[locks[o][1]]].write_wait)
  <2>1. locks[o] # << >> /\ o \in Delayed BY <1>1, <1>3 DEF Array
  <2>2. locks[o] \in Seq(Data) BY ArrayFacts
  <2>3. 1 \in DOMAIN locks[o] BY <2>1, <2>2
  <2>4. PICK d \in Data : d = locks[o][1] /\ OwnerOf[d] = o BY <2>3, ArrayFacts
  <2>5. Called(o, 1) BY <1>3 DEF Called
  <2>6. type[d] # TL_UNLOCK BY <1>1, <1>3, <2>4 DEF Asleep
  <2>7. Linked(d) BY <1>1, <2>3, <2>4, <2>5, <2>6 DEF Placed
  <2>8. Queued(d) /\ LockOf[d] \in Lock BY <1>3, <2>4, <2>7, DataFacts
  <2>9. type[d] \in {TL_WRITE_DELAYED, TL_WRITE, TL_WRITE_ONLY}
    BY <2>1, <2>4, <2>6 DEF ThrInv, DelayedTypes
  <2>10. Roles(lock[LockOf[d]], type, cond) BY <2>8 DEF ThrInv, LockOK
  <2>11. d \notin ToSet(lock[LockOf[d]].read_wait) BY <2>9, <2>10 DEF Roles
  <2> QED BY <2>4, <2>8, <2>11 DEF Queued, Waiting
<1> QED BY <1>2, <1>3

(* The invariant of the lock manager holds throughout: every list of every *)
(* THR_LOCK and every statement's lock array stay consistent whatever      *)
(* thr_lock, thr_unlock, the aborts, the upgrade and the rescheduling do.  *)
THEOREM ThrInvariant == Spec => []ThrInv
<1>1. Init => ThrInv BY InitOK
<1>2. ThrInv /\ [Next]_vars => ThrInv' BY NextOK
<1> QED BY <1>1, <1>2, PTL DEF Spec

(* The pointer surgery of thr_lock.c never loses the shape of the lists:   *)
(* every THR_LOCK_DATA is on at most one list, of its own THR_LOCK, and    *)
(* write_lock_count passes max_write_lock_count by one at most.            *)
THEOREM ThrTypes == Spec => []TypeOK
<1>1. ThrInv => TypeOK BY TypeOKFollows
<1> QED BY <1>1, ThrInvariant, PTL

(* thr_lock, thr_unlock, free_all_read_locks, the aborts and the functions *)
(* that change a granted type never let two owners hold locks on one table *)
(* that exclude each other, but for TL_READ_NO_INSERT beside               *)
(* TL_WRITE_ALLOW_WRITE, which thr_lock tests for by the wrong name.       *)
THEOREM ThrHolders == Spec => []HoldersExclude
<1>1. ThrInv => HoldersExclude BY HoldersFollow
<1> QED BY <1>1, ThrInvariant, PTL

(* read_no_write_count, by which thr_lock and thr_unlock decide about      *)
(* concurrent inserts, is the number of TL_READ_NO_INSERT locks in use.    *)
THEOREM ThrNoInsertCount == Spec => []NoInsertCountExact
<1>1. ThrInv => NoInsertCountExact BY DEF ThrInv, LockOK, Counted, NoInsertCountExact
<1> QED BY <1>1, ThrInvariant, PTL

(* Whoever sleeps in wait_for_lock or in thr_upgrade_write_delay_lock is   *)
(* in a queue that the next unlock looks at: no grant, abort or time-out   *)
(* of another thread takes it out and leaves its condition set.            *)
THEOREM ThrWaiters == Spec => []WaitersQueued
<1>1. ThrInv => WaitersQueued BY QueuedFollows
<1> QED BY <1>1, ThrInvariant, PTL

=============================================================================
