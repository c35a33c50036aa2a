--------------------------- MODULE RelayLogProofs ---------------------------
(***************************************************************************)
(* Proofs for RelayLog, for any log of the master whose transactions are   *)
(* whole, any size of the relay log's files and any number of faults.      *)
(*                                                                         *)
(* What the relay log holds for the SQL thread is one function, Pending:   *)
(* the entries after the group's coordinates, without those that the relay *)
(* log writes for itself.  Every action appends to it, cuts its end off (a *)
(* crash), or takes from its beginning (the coordinates move).  The parts  *)
(* of the invariant are stated about Pending as a value, and the lemmas    *)
(* on these three changes, in the first half of the module, mention no     *)
(* variable.                                                               *)
(*                                                                         *)
(* The second half is the invariant itself, its preservation by every      *)
(* action, and the properties that follow from it.                         *)
(* Three chains are tied together: the place the I/O thread goes on from   *)
(* (mi, and minfo after a crash), what is pending in the relay log, and    *)
(* what is committed.  Whatever precedes the first in the master's log is  *)
(* in one of the others (Relayed); what the SQL thread has read of the     *)
(* pending entries is in its open transaction or committed (Executed); and *)
(* as long as the server has not died and no retry began with work kept,   *)
(* the three do not overlap (Once).                                        *)
(* Latest is about the end of the chain, for a SQL thread that is idle.    *)
(***************************************************************************)
EXTENDS RelayLog, TLAPS

Kinds == {"begin", "query", "commit", "intvar", "rotate"}

Sent == [k : Kinds, at : LogPos]
Record == [k : Kinds \cup {"self"}, at : LogPos]

(* a relay log L: its entries, those pending after g, its end, the ends    *)
(* that a crash now could give it                                          *)
EntryAt(L, z) == L.files[z[1]][z[2]]
EntriesOf(L) == UNION {{<<f, i>> : i \in 1 .. Len(L.files[f])} : f \in 1 .. Len(L.files)}
PendingOf(L, g) ==
    [z \in {y \in EntriesOf(L) : ~UpTo(y, g) /\ EntryAt(L, y).k # "self"}
       |-> EntryAt(L, z)]
EndOf(L) == <<Len(L.files), Len(L.files[Len(L.files)])>>
CutsOf(L) == {<<Len(L.files), n>> : n \in L.flushed .. Len(L.files[Len(L.files)])}

GoodLog(L) ==
    /\ L \in [files : Seq(Seq(Record)), first : Nat, flushed : Nat]
    /\ Len(L.files) >= 1
    /\ L.first \in 1 .. Len(L.files) /\ L.flushed \in 1 .. Len(L.files[Len(L.files)])
    /\ \A f \in L.first .. Len(L.files) : Len(L.files[f]) >= 1 /\ L.files[f][1] = Self

-----------------------------------------------------------------------------
(* Positions are ordered. *)

(* UpTo is a total order of places. *)
LEMMA UpToOrder ==
    /\ \A x \in Nat \X Nat : UpTo(x, x)
    /\ \A x, y \in Nat \X Nat : UpTo(x, y) \/ UpTo(y, x)
    /\ \A x, y \in Nat \X Nat : UpTo(x, y) /\ UpTo(y, x) => x = y
    /\ \A x, y, z \in Nat \X Nat : UpTo(x, y) /\ UpTo(y, z) => UpTo(x, z)
BY DEF UpTo

(* Places of the master's log. *)
LEMMA PlacesArePairs ==
    /\ LogPos \subseteq Nat \X Nat
    /\ \A x \in LogPos : x = <<x[1], x[2]>>
    /\ \A x \in LogPos : x[1] \in 1 .. Len(MasterLog) /\ x[2] \in 0 .. Len(MasterLog[x[1]])
    /\ \A f \in 1 .. Len(MasterLog) : \A p \in 0 .. Len(MasterLog[f]) : <<f, p>> \in LogPos
    /\ \A x \in Events : x \in LogPos /\ x[2] > 0
    /\ \A x \in Effects : x \in Events /\ KindOf(x) = "query"
BY RelayLogAssumption DEF LogPos, Events, Effects

(* Entries of the relay log. *)
LEMMA EntriesArePairs ==
    ASSUME NEW L, L.files \in Seq(Seq(Record))
    PROVE  /\ EntriesOf(L) \subseteq Nat \X Nat
           /\ \A z \in Nat \X Nat : z \in EntriesOf(L) <=>
                z[1] \in 1 .. Len(L.files) /\ z[2] \in 1 .. Len(L.files[z[1]])
           /\ \A z \in EntriesOf(L) : EntryAt(L, z) \in Record
<1>1. \A z : z \in EntriesOf(L) <=>
         \E f \in 1 .. Len(L.files) : \E i \in 1 .. Len(L.files[f]) : z = <<f, i>>
  <2> DEFINE A == 1 .. Len(L.files)
             B(f) == {<<f, i>> : i \in 1 .. Len(L.files[f])}
  <2>1. EntriesOf(L) = UNION {B(f) : f \in A}
    BY DEF EntriesOf
  <2>2. \A f \in A : \A z : z \in B(f) <=> \E i \in 1 .. Len(L.files[f]) : z = <<f, i>>
    OBVIOUS
  <2> HIDE DEF A, B
  <2>3. \A z : z \in UNION {B(f) : f \in A} <=> \E f \in A : z \in B(f)
    OBVIOUS
  <2>4. \A z : z \in EntriesOf(L) <=> \E f \in A : \E i \in 1 .. Len(L.files[f]) : z = <<f, i>>
    BY <2>1, <2>2, <2>3, Zenon
  <2> QED BY <2>4 DEF A
<1>2. \A f \in 1 .. Len(L.files) : L.files[f] \in Seq(Record)
  OBVIOUS
<1>3. \A f \in 1 .. Len(L.files) : \A i \in 1 .. Len(L.files[f]) : L.files[f][i] \in Record
  BY <1>2
<1>4. \A f \in 1 .. Len(L.files) : Len(L.files[f]) \in Nat
  BY <1>2
<1>5. EntriesOf(L) \subseteq Nat \X Nat
  BY <1>1, <1>4
<1>6. \A z \in Nat \X Nat : z \in EntriesOf(L) <=>
        z[1] \in 1 .. Len(L.files) /\ z[2] \in 1 .. Len(L.files[z[1]])
  BY <1>1
<1>7. \A z \in EntriesOf(L) : EntryAt(L, z) \in Record
  BY <1>1, <1>3 DEF EntryAt
<1> QED BY <1>5, <1>6, <1>7

(* Which entries are pending. *)
LEMMA PendingIs ==
    \A L, g, z :
        /\ z \in DOMAIN PendingOf(L, g) <=>
             z \in EntriesOf(L) /\ ~UpTo(z, g) /\ EntryAt(L, z).k # "self"
        /\ z \in DOMAIN PendingOf(L, g) => PendingOf(L, g)[z] = EntryAt(L, z)
BY DEF PendingOf

(* Pending entries are equal when their places and records are. *)
LEMMA SamePending ==
    ASSUME NEW L, NEW M, NEW g, NEW h,
           DOMAIN PendingOf(L, g) = DOMAIN PendingOf(M, h),
           \A z \in DOMAIN PendingOf(L, g) : PendingOf(L, g)[z] = PendingOf(M, h)[z]
    PROVE  PendingOf(L, g) = PendingOf(M, h)
BY DEF PendingOf

(* The relay log's own entry. *)
LEMMA SelfIsRecord == Self \in Record /\ Self.k = "self"
<1>1. <<1, 0>> \in LogPos
  BY PlacesArePairs, RelayLogAssumption
<1> QED BY <1>1 DEF Self, Record

(* a log M with the entries of L and others, which are its own or N *)
Adds(L, M, N, g) ==
    /\ \A z \in EntriesOf(L) : z \in EntriesOf(M) /\ EntryAt(M, z) = EntryAt(L, z)
    /\ \A z \in EntriesOf(M) : z \in EntriesOf(L) \/ z \in N \/ EntryAt(M, z).k = "self"
    /\ \A z \in N : z \in EntriesOf(M) /\ ~UpTo(z, g) /\ EntryAt(M, z).k # "self"

(* What is pending after an addition. *)
LEMMA PendingGrows ==
    /\ \A L, M, N, g : Adds(L, M, N, g) =>
         DOMAIN PendingOf(M, g) = DOMAIN PendingOf(L, g) \cup N
    /\ \A L, M, N, g, z : Adds(L, M, N, g) /\ z \in DOMAIN PendingOf(L, g) =>
         PendingOf(M, g)[z] = PendingOf(L, g)[z]
    /\ \A L, M, N, g, z : Adds(L, M, N, g) /\ z \in N => PendingOf(M, g)[z] = EntryAt(M, z)
<1>1. \A L, M, N, g, z : Adds(L, M, N, g) =>
        (z \in DOMAIN PendingOf(M, g) <=> z \in DOMAIN PendingOf(L, g) \/ z \in N)
  BY PendingIs DEF Adds
<1>2. \A L, M, N, g, z : Adds(L, M, N, g) /\ z \in DOMAIN PendingOf(L, g) =>
         PendingOf(M, g)[z] = PendingOf(L, g)[z]
  BY <1>1, PendingIs DEF Adds
<1>3. \A L, M, N, g, z : Adds(L, M, N, g) /\ z \in N => PendingOf(M, g)[z] = EntryAt(M, z)
  BY <1>1, PendingIs
<1>4. \A L, M, N, g : Adds(L, M, N, g) => DOMAIN PendingOf(M, g) = DOMAIN PendingOf(L, g) \cup N
  BY <1>1
<1> QED BY <1>2, <1>3, <1>4

(* A relay log as a record. *)
LEMMA LogRecord ==
    ASSUME NEW X \in Seq(Seq(Record)), NEW a \in Nat, NEW b \in Nat
    PROVE  [files |-> X, first |-> a, flushed |-> b]
             \in [files : Seq(Seq(Record)), first : Nat, flushed : Nat]
OBVIOUS

(* A relay log with two of its fields changed. *)
LEMMA LogExcept ==
    ASSUME NEW L, GoodLog(L), NEW X, NEW n
    PROVE  /\ [L EXCEPT !.files = X, !.flushed = n] = [files |-> X, first |-> L.first, flushed |-> n]
           /\ [L EXCEPT !.files = X] = [files |-> X, first |-> L.first, flushed |-> L.flushed]
           /\ [L EXCEPT !.flushed = n] = [files |-> L.files, first |-> L.first, flushed |-> n]
           /\ [L EXCEPT !.first = n, !.files = X] = [files |-> X, first |-> n, flushed |-> L.flushed]
<1> DEFINE S == Seq(Seq(Record))
<1>1. L \in [files : S, first : Nat, flushed : Nat]
  BY DEF GoodLog
<1> HIDE DEF S
<1>2. [L EXCEPT !.files = X, !.flushed = n] = [files |-> X, first |-> L.first, flushed |-> n]
  <2>1. [L EXCEPT !.files = X] = [files |-> X, first |-> L.first, flushed |-> L.flushed]
    BY <1>1
  <2>2. [[files |-> X, first |-> L.first, flushed |-> L.flushed] EXCEPT !.flushed = n]
          = [files |-> X, first |-> L.first, flushed |-> n]
    OBVIOUS
  <2> QED BY <2>1, <2>2
<1>3. [L EXCEPT !.files = X] = [files |-> X, first |-> L.first, flushed |-> L.flushed]
  BY <1>1
<1>4. [L EXCEPT !.flushed = n] = [files |-> L.files, first |-> L.first, flushed |-> n]
  BY <1>1
<1>5. [L EXCEPT !.first = n, !.files = X] = [files |-> X, first |-> n, flushed |-> L.flushed]
  <2>1. [L EXCEPT !.first = n] = [files |-> L.files, first |-> n, flushed |-> L.flushed]
    BY <1>1
  <2>2. [[files |-> L.files, first |-> n, flushed |-> L.flushed] EXCEPT !.files = X]
          = [files |-> X, first |-> n, flushed |-> L.flushed]
    OBVIOUS
  <2> QED BY <2>1, <2>2
<1> QED BY <1>2, <1>3, <1>4, <1>5

(* MYSQL_LOG::new_file: nothing is pending that was not *)
LEMMA NewFile ==
    ASSUME NEW L, GoodLog(L)
    PROVE  /\ GoodLog(new_file(L))
           /\ new_file(L).first = L.first /\ Len(new_file(L).files) = Len(L.files) + 1
           /\ EndOf(new_file(L)) = <<Len(L.files) + 1, 1>>
           /\ CutsOf(new_file(L)) = {<<Len(L.files) + 1, 1>>}
           /\ \A g : PendingOf(new_file(L), g) = PendingOf(L, g)
<1> DEFINE A == Len(L.files)
           B == Len(L.files[A])
           F == [L.files EXCEPT ![A] = Append(L.files[A], Self)]
           G == Append(F, <<Self>>)
           N == new_file(L)
<1>1. /\ L.files \in Seq(Seq(Record)) /\ A \in Nat /\ A >= 1
      /\ L.first \in 1 .. A
      /\ L.files[A] \in Seq(Record) /\ B \in Nat
      /\ \A f \in L.first .. A : Len(L.files[f]) >= 1 /\ L.files[f][1] = Self
  BY DEF GoodLog
<1>2. N = [files |-> G, first |-> L.first, flushed |-> 1]
  <2>1. N = [L EXCEPT !.files = G, !.flushed = 1]
    BY DEF new_file
  <2> HIDE DEF N, G
  <2> QED BY <2>1, LogExcept, ZenonT(40)
<1>3. /\ Append(L.files[A], Self) \in Seq(Record)
      /\ Len(Append(L.files[A], Self)) = B + 1
      /\ \A i \in 1 .. B : Append(L.files[A], Self)[i] = L.files[A][i]
      /\ Append(L.files[A], Self)[B + 1] = Self
  BY <1>1, SelfIsRecord
<1>4. /\ F \in Seq(Seq(Record)) /\ Len(F) = A /\ F[A] = Append(L.files[A], Self)
      /\ \A f \in 1 .. A - 1 : F[f] = L.files[f]
  BY <1>1, <1>3
<1>5. <<Self>> \in Seq(Record) /\ Len(<<Self>>) = 1 /\ <<Self>>[1] = Self
  BY SelfIsRecord
<1> HIDE DEF A, B, F
<1>6. /\ G \in Seq(Seq(Record)) /\ Len(G) = A + 1 /\ G[A] = Append(L.files[A], Self)
      /\ G[A + 1] = <<Self>>
      /\ \A f \in 1 .. A - 1 : G[f] = L.files[f]
  BY <1>1, <1>4, <1>5
<1> HIDE DEF G
<1>7. /\ N.files = G /\ N.first = L.first /\ N.flushed = 1
      /\ N \in [files : Seq(Seq(Record)), first : Nat, flushed : Nat]
  BY <1>1, <1>2, <1>6
<1> HIDE DEF N
<1>8. \A f \in L.first .. A + 1 : Len(G[f]) >= 1 /\ G[f][1] = Self
  <2> TAKE f \in L.first .. A + 1
  <2>1. CASE f \in L.first .. A - 1
    <3>1. f \in 1 .. A - 1 /\ f \in L.first .. A
      BY <2>1, <1>1
    <3>2. G[f] = L.files[f]
      BY <3>1, <1>6
    <3> QED BY <3>1, <3>2, <1>1
  <2>2. CASE f = A
    <3>1. B >= 1 /\ L.files[A][1] = Self
      BY <1>1 DEF B
    <3>2. 1 \in 1 .. B
      BY <3>1, <1>1
    <3>3. Append(L.files[A], Self)[1] = Self /\ Len(Append(L.files[A], Self)) >= 1
      BY <3>1, <3>2, <1>1, <1>3
    <3> QED BY <2>2, <3>3, <1>6
  <2>3. CASE f = A + 1
    BY <2>3, <1>5, <1>6
  <2> QED BY <2>1, <2>2, <2>3, <1>1
<1>9. GoodLog(N)
  <2>1. N.files[Len(N.files)] = <<Self>> /\ Len(N.files) = A + 1
    BY <1>6, <1>7
  <2>2. Len(N.files[Len(N.files)]) = 1
    BY <2>1, <1>5
  <2>3. N.first \in 1 .. Len(N.files) /\ N.flushed \in 1 .. Len(N.files[Len(N.files)]) /\ Len(N.files) >= 1
    BY <2>1, <2>2, <1>1, <1>7
  <2> QED BY <2>1, <2>3, <1>7, <1>8 DEF GoodLog
<1>10. EndOf(N) = <<A + 1, 1>> /\ CutsOf(N) = {<<A + 1, 1>>}
  <2>1. N.files[Len(N.files)] = <<Self>> /\ Len(N.files) = A + 1
    BY <1>6, <1>7
  <2>2. Len(N.files[Len(N.files)]) = 1
    BY <2>1, <1>5
  <2>3. EndOf(N) = <<A + 1, 1>>
    BY <2>1, <2>2 DEF EndOf
  <2>4. CutsOf(N) = {<<A + 1, n>> : n \in 1 .. 1}
    BY <2>1, <2>2, <1>7 DEF CutsOf
  <2> QED BY <2>3, <2>4
<1>11. \A z \in EntriesOf(L) : z \in EntriesOf(N) /\ EntryAt(N, z) = EntryAt(L, z)
  <2> TAKE z \in EntriesOf(L)
  <2>1. z \in Nat \X Nat /\ z[1] \in 1 .. A /\ z[2] \in 1 .. Len(L.files[z[1]])
    BY <1>1, EntriesArePairs DEF A
  <2>2. CASE z[1] \in 1 .. A - 1
    <3>1. G[z[1]] = L.files[z[1]]
      BY <2>2, <1>6
    <3>2. z[1] \in 1 .. A + 1
      BY <2>2, <1>1
    <3> QED BY <2>1, <3>1, <3>2, <1>6, <1>7, EntriesArePairs DEF EntryAt
  <2>3. CASE z[1] = A
    <3>1. G[z[1]][z[2]] = EntryAt(L, z) /\ z[2] \in 1 .. Len(G[z[1]]) /\ z[1] \in 1 .. A + 1
      BY <2>1, <2>3, <1>1, <1>3, <1>6 DEF EntryAt
    <3> QED BY <2>1, <3>1, <1>6, <1>7, EntriesArePairs DEF EntryAt
  <2> QED BY <2>1, <2>2, <2>3, <1>1
<1>12. \A z \in EntriesOf(N) : z \in EntriesOf(L) \/ EntryAt(N, z).k = "self"
  <2> TAKE z \in EntriesOf(N)
  <2>1. z \in Nat \X Nat /\ z[1] \in 1 .. A + 1 /\ z[2] \in 1 .. Len(G[z[1]])
    BY <1>6, <1>7, EntriesArePairs DEF EntryAt
  <2>2. CASE z[1] \in 1 .. A - 1
    <3>1. G[z[1]] = L.files[z[1]]
      BY <2>2, <1>6
    <3>2. z[1] \in 1 .. A
      BY <2>2, <1>1
    <3> QED BY <2>1, <3>1, <3>2, <1>1, EntriesArePairs DEF A
  <2>3. CASE z[1] = A /\ z[2] \in 1 .. B
    <3>1. z[1] \in 1 .. Len(L.files) /\ z[2] \in 1 .. Len(L.files[z[1]])
      BY <2>3, <1>1 DEF A, B
    <3> QED BY <2>1, <3>1, <1>1, EntriesArePairs
  <2>4. CASE z[1] = A /\ z[2] = B + 1
    BY <2>4, <1>3, <1>6, <1>7, SelfIsRecord DEF EntryAt
  <2>5. CASE z[1] = A + 1
    BY <2>1, <2>5, <1>5, <1>6, <1>7, SelfIsRecord DEF EntryAt
  <2>6. z[1] = A => z[2] \in 1 .. B + 1
    BY <2>1, <1>3, <1>6
  <2>7. z[1] \in 1 .. A - 1 \/ z[1] = A \/ z[1] = A + 1
    <3>1. z[1] \in 1 .. A + 1 /\ A \in Nat
      BY <2>1, <1>1
    <3> QED BY <3>1
  <2>8. z[2] \in 1 .. B + 1 => z[2] \in 1 .. B \/ z[2] = B + 1
    BY <1>1
  <2> QED BY <2>2, <2>3, <2>4, <2>5, <2>6, <2>7, <2>8
<1>13. ASSUME NEW g PROVE PendingOf(N, g) = PendingOf(L, g)
  <2> DEFINE none == {}
  <2>1. Adds(L, N, none, g)
    BY <1>11, <1>12 DEF Adds
  <2> HIDE DEF none
  <2>2. \A z \in DOMAIN PendingOf(L, g) : PendingOf(N, g)[z] = PendingOf(L, g)[z]
    BY <2>1, PendingGrows
  <2>3. DOMAIN PendingOf(N, g) = DOMAIN PendingOf(L, g) \cup none
    BY <2>1, PendingGrows
  <2>4. DOMAIN PendingOf(N, g) = DOMAIN PendingOf(L, g)
    BY <2>3 DEF none
  <2> QED BY <2>2, <2>4, SamePending
<1> QED BY <1>6, <1>7, <1>9, <1>10, <1>13 DEF N, A

(* The end of the relay log, and where a crash may cut it. *)
LEMMA EndIsLast ==
    ASSUME NEW L, GoodLog(L)
    PROVE  /\ EndOf(L) \in Nat \X Nat
           /\ EndOf(L) \in CutsOf(L)
           /\ \A z \in EntriesOf(L) : UpTo(z, EndOf(L))
           /\ \A c \in CutsOf(L) : c \in Nat \X Nat /\ UpTo(<<Len(L.files), L.flushed>>, c)
           /\ <<Len(L.files), L.flushed>> \in CutsOf(L)
<1> DEFINE A == Len(L.files)
           B == Len(L.files[A])
           n0 == L.flushed
<1>1. /\ L.files \in Seq(Seq(Record)) /\ A \in Nat /\ A >= 1 /\ n0 \in Nat
      /\ B \in Nat /\ n0 \in 1 .. B
  BY DEF GoodLog
<1>2. EndOf(L) = <<A, B>> /\ CutsOf(L) = {<<A, n>> : n \in n0 .. B}
  BY DEF EndOf, CutsOf
<1>3. \A z \in EntriesOf(L) : z \in Nat \X Nat /\ z[1] \in 1 .. A /\ z[2] \in 1 .. Len(L.files[z[1]])
  BY <1>1, EntriesArePairs
<1>4. \A z \in EntriesOf(L) : UpTo(z, <<A, B>>)
  <2> TAKE z \in EntriesOf(L)
  <2>1. z[1] \in 1 .. A /\ (z[1] = A => z[2] \in 1 .. B)
    BY <1>3
  <2> HIDE DEF A, B
  <2>2. z[1] < A \/ (z[1] = A /\ z[2] <= B)
    BY <2>1, <1>1
  <2> QED BY <2>2 DEF UpTo
<1> HIDE DEF A, B, n0
<1>5. \A n \in n0 .. B : <<A, n>> \in Nat \X Nat /\ UpTo(<<A, n0>>, <<A, n>>)
  BY <1>1 DEF UpTo
<1>6. /\ <<A, B>> \in Nat \X Nat /\ <<A, B>> \in CutsOf(L) /\ <<A, n0>> \in CutsOf(L)
      /\ \A c \in CutsOf(L) : c \in Nat \X Nat /\ UpTo(<<A, n0>>, c)
  <2>1. n0 \in n0 .. B /\ B \in n0 .. B
    BY <1>1
  <2>2. \A c \in CutsOf(L) : \E n \in n0 .. B : c = <<A, n>>
    BY <1>2
  <2>3. \A n \in n0 .. B : <<A, n>> \in CutsOf(L)
    BY <1>2
  <2> QED BY <2>1, <2>2, <2>3, <1>5
<1> QED BY <1>2, <1>4, <1>6 DEF A, n0

(* Q is P with entry e after all others *)
Extended(P, Q, n, e) ==
    /\ n \in Nat \X Nat
    /\ DOMAIN Q = DOMAIN P \cup {n} /\ Q[n] = e
    /\ \A z \in DOMAIN P : Q[z] = P[z] /\ UpTo(z, n) /\ ~UpTo(n, z)

With(L, e) == [L EXCEPT !.files[Len(L.files)] = Append(@, e)]
NextPlace(L) == <<Len(L.files), Len(L.files[Len(L.files)]) + 1>>

IsAppended(L, M, e, n, S, g) ==
    /\ GoodLog(M)
    /\ M.first = L.first /\ Len(M.files) = Len(L.files)
    /\ EndOf(M) = n /\ CutsOf(M) = CutsOf(L) \cup S
    /\ EntryAt(M, n) = e
    /\ Adds(L, M, S, g)

(* MYSQL_LOG::append, without the rotation. *)
LEMMA AppendOne ==
    ASSUME NEW L, GoodLog(L), NEW e \in Sent,
           NEW M, M = With(L, e),
           NEW n, n = NextPlace(L),
           NEW S, S = {n}, NEW g, ~UpTo(n, g)
    PROVE  IsAppended(L, M, e, n, S, g)
<1> DEFINE A == Len(L.files)
           B == Len(L.files[A])
           F == [L.files EXCEPT ![A] = Append(L.files[A], e)]
<1>s. e \in Record /\ e.k # "self"
  BY DEF Sent, Record, Kinds
<1>1. /\ L.files \in Seq(Seq(Record)) /\ A \in Nat /\ A >= 1
      /\ L.first \in 1 .. A /\ L.first \in Nat /\ L.flushed \in 1 .. B /\ L.flushed \in Nat
      /\ L.files[A] \in Seq(Record) /\ B \in Nat
      /\ \A f \in L.first .. A : Len(L.files[f]) >= 1 /\ L.files[f][1] = Self
  BY DEF GoodLog
<1>2. M = [files |-> F, first |-> L.first, flushed |-> L.flushed]
  <2>1. M = [L EXCEPT !.files = F]
    BY DEF With
  <2> HIDE DEF F
  <2> QED BY <2>1, LogExcept
<1>3. /\ Append(L.files[A], e) \in Seq(Record)
      /\ Len(Append(L.files[A], e)) = B + 1
      /\ \A i \in 1 .. B : Append(L.files[A], e)[i] = L.files[A][i]
      /\ Append(L.files[A], e)[B + 1] = e
  BY <1>1, <1>s
<1>4. /\ F \in Seq(Seq(Record)) /\ Len(F) = A /\ F[A] = Append(L.files[A], e)
      /\ \A f \in 1 .. A - 1 : F[f] = L.files[f]
  <2>1. F \in Seq(Seq(Record)) /\ Len(F) = A
    BY <1>1, <1>3
  <2>2. F[A] = Append(L.files[A], e)
    BY <1>1
  <2>3. \A f \in 1 .. A - 1 : F[f] = L.files[f]
    BY <1>1
  <2> QED BY <2>1, <2>2, <2>3
<1>5. EndOf(L) = <<A, B>> /\ CutsOf(L) = {<<A, i>> : i \in L.flushed .. B}
  BY DEF EndOf, CutsOf
<1>0. n = <<A, B + 1>>
  BY DEF NextPlace
<1> HIDE DEF A, B, F
<1>6. /\ M.files = F /\ M.first = L.first /\ M.flushed = L.flushed
      /\ M \in [files : Seq(Seq(Record)), first : Nat, flushed : Nat]
  <2>1. F \in Seq(Seq(Record)) /\ L.first \in Nat /\ L.flushed \in Nat
    BY <1>1, <1>4
  <2>2. M \in [files : Seq(Seq(Record)), first : Nat, flushed : Nat]
    BY <2>1, <1>2, LogRecord
  <2> QED BY <2>2, <1>2
<1>7. M.files[Len(M.files)] = Append(L.files[A], e) /\ Len(M.files) = A
  BY <1>4, <1>6
<1>8. Len(M.files[Len(M.files)]) = B + 1
  BY <1>3, <1>7
<1>9. \A f \in L.first .. A : Len(F[f]) >= 1 /\ F[f][1] = Self
  <2> TAKE f \in L.first .. A
  <2>1. CASE f \in L.first .. A - 1
    <3>1. f \in 1 .. A - 1 /\ f \in L.first .. A
      BY <2>1, <1>1
    <3>2. F[f] = L.files[f]
      BY <3>1, <1>4
    <3> QED BY <3>1, <3>2, <1>1
  <2>2. CASE f = A
    <3>1. B >= 1 /\ L.files[A][1] = Self
      BY <1>1 DEF B
    <3>2. 1 \in 1 .. B
      BY <3>1, <1>1
    <3>3. Append(L.files[A], e)[1] = Self /\ Len(Append(L.files[A], e)) >= 1
      BY <3>1, <3>2, <1>1, <1>3
    <3> QED BY <2>2, <3>3, <1>4
  <2> QED BY <2>1, <2>2, <1>1
<1>10. GoodLog(M)
  <2>1. M.first \in 1 .. Len(M.files) /\ M.flushed \in 1 .. Len(M.files[Len(M.files)]) /\ Len(M.files) >= 1
    BY <1>1, <1>6, <1>7, <1>8
  <2> QED BY <2>1, <1>6, <1>7, <1>9 DEF GoodLog
<1>11. EndOf(M) = n
  BY <1>0, <1>7, <1>8 DEF EndOf
<1>12. CutsOf(M) = CutsOf(L) \cup {n}
  <2>1. CutsOf(M) = {<<A, i>> : i \in L.flushed .. B + 1}
    BY <1>6, <1>7, <1>8 DEF CutsOf
  <2> DEFINE k == L.flushed
  <2>2. k \in Nat /\ k \in 1 .. B /\ B \in Nat
    BY <1>1
  <2> HIDE DEF k
  <2>3. k .. B + 1 = (k .. B) \cup {B + 1}
    BY <2>2
  <2> USE DEF k
  <2> QED BY <2>1, <2>3, <1>0, <1>5
<1>13. EntryAt(M, n) = e
  <2>1. n[1] = A /\ n[2] = B + 1
    BY <1>0
  <2>2. M.files[n[1]][n[2]] = Append(L.files[A], e)[B + 1]
    BY <2>1, <1>4, <1>6
  <2> QED BY <2>2, <1>3 DEF EntryAt
<1>14. n \in EntriesOf(M)
  <2>1. n \in Nat \X Nat /\ n[1] \in 1 .. Len(M.files) /\ n[2] \in 1 .. Len(M.files[n[1]])
    <3>1. n[1] = A /\ n[2] = B + 1 /\ n \in Nat \X Nat
      BY <1>0, <1>1
    <3>2. Len(M.files[n[1]]) = B + 1 /\ Len(M.files) = A
      BY <3>1, <1>3, <1>4, <1>6
    <3> QED BY <3>1, <3>2, <1>1
  <2> QED BY <2>1, <1>4, <1>6, EntriesArePairs
<1>15. \A z \in EntriesOf(L) : z \in EntriesOf(M) /\ EntryAt(M, z) = EntryAt(L, z)
  <2> TAKE z \in EntriesOf(L)
  <2>1. z \in Nat \X Nat /\ z[1] \in 1 .. A /\ z[2] \in 1 .. Len(L.files[z[1]])
    BY <1>1, EntriesArePairs DEF A
  <2>2. CASE z[1] \in 1 .. A - 1
    <3>1. F[z[1]] = L.files[z[1]]
      BY <2>2, <1>4
    <3> QED BY <2>1, <3>1, <1>4, <1>6, EntriesArePairs DEF EntryAt
  <2>3. CASE z[1] = A
    <3>1. F[z[1]][z[2]] = L.files[z[1]][z[2]] /\ z[2] \in 1 .. Len(F[z[1]])
      BY <2>1, <2>3, <1>1, <1>3, <1>4 DEF B
    <3> QED BY <2>1, <3>1, <1>4, <1>6, EntriesArePairs DEF EntryAt
  <2>4. z[1] \in 1 .. A - 1 \/ z[1] = A
    <3>1. z[1] \in 1 .. A /\ A \in Nat
      BY <2>1, <1>1
    <3> QED BY <3>1
  <2> QED BY <2>2, <2>3, <2>4
<1>16. \A z \in EntriesOf(M) : z \in EntriesOf(L) \/ z = n
  <2> TAKE z \in EntriesOf(M)
  <2>1. z \in Nat \X Nat /\ z[1] \in 1 .. A /\ z[2] \in 1 .. Len(F[z[1]])
    BY <1>4, <1>6, EntriesArePairs
  <2>2. CASE z[1] \in 1 .. A - 1
    <3>1. F[z[1]] = L.files[z[1]]
      BY <2>2, <1>4
    <3> QED BY <2>1, <3>1, <1>1, EntriesArePairs DEF A
  <2>3. CASE z[1] = A /\ z[2] \in 1 .. B
    <3>1. z[1] \in 1 .. Len(L.files) /\ z[2] \in 1 .. Len(L.files[z[1]])
      BY <2>3, <1>1 DEF A, B
    <3> QED BY <2>1, <3>1, <1>1, EntriesArePairs
  <2>4. CASE z[1] = A /\ z[2] = B + 1
    BY <2>1, <2>4, <1>0
  <2>5. z[1] = A => z[2] \in 1 .. B + 1
    BY <2>1, <1>3, <1>4
  <2>6. z[1] \in 1 .. A - 1 \/ z[1] = A
    <3>1. z[1] \in 1 .. A /\ A \in Nat
      BY <2>1, <1>1
    <3> QED BY <3>1
  <2>7. z[2] \in 1 .. B + 1 => z[2] \in 1 .. B \/ z[2] = B + 1
    BY <1>1
  <2> QED BY <2>2, <2>3, <2>4, <2>5, <2>6, <2>7
<1>17. Adds(L, M, S, g)
  BY <1>s, <1>13, <1>14, <1>15, <1>16 DEF Adds
<1> QED BY <1>6, <1>7, <1>10, <1>11, <1>12, <1>13, <1>17 DEF A, IsAppended

(* MYSQL_LOG::appendv: the entry comes after all others, and before where   *)
(* a crash could end the log, if it is not lost                            *)
LEMMA Appends ==
    ASSUME NEW L, GoodLog(L), NEW e \in Sent,
           NEW n, n = NextPlace(L),
           NEW N, N = appendv(L, e),
           NEW g \in Nat \X Nat, UpTo(g, EndOf(L))
    PROVE  /\ GoodLog(N)
           /\ N.first = L.first /\ Len(N.files) \in Nat /\ Len(N.files) >= Len(L.files)
           /\ Extended(PendingOf(L, g), PendingOf(N, g), n, e)
           /\ UpTo(n, EndOf(N)) /\ ~UpTo(n, EndOf(L)) /\ UpTo(EndOf(L), n)
           /\ \A c \in CutsOf(N) : (c \in CutsOf(L) /\ ~UpTo(n, c)) \/ UpTo(n, c)
<1> DEFINE A == Len(L.files)
           B == Len(L.files[A])
           M == With(L, e)
<1>1. N = M \/ N = new_file(M)
  BY DEF appendv, With
<1>2. A \in Nat /\ B \in Nat /\ n = <<A, B + 1>> /\ EndOf(L) = <<A, B>>
      /\ CutsOf(L) = {<<A, i>> : i \in L.flushed .. B} /\ L.flushed \in Nat
  BY DEF GoodLog, EndOf, CutsOf, NextPlace
<1>3. M = With(L, e)
  OBVIOUS
<1> HIDE DEF M, A, B
<1>4. ~UpTo(n, EndOf(L)) /\ UpTo(EndOf(L), n) /\ n \in Nat \X Nat /\ EndOf(L) \in Nat \X Nat
  BY <1>2 DEF UpTo
<1>5. ~UpTo(n, g)
  BY <1>4, UpToOrder
<1> DEFINE S == {n}
<1>6. S = {n}
  OBVIOUS
<1> HIDE DEF S
<1>7. /\ GoodLog(M)
      /\ M.first = L.first /\ Len(M.files) = Len(L.files)
      /\ EndOf(M) = n /\ CutsOf(M) = CutsOf(L) \cup S
      /\ EntryAt(M, n) = e
      /\ Adds(L, M, S, g)
  <2>1. IsAppended(L, M, e, n, S, g)
    BY <1>3, <1>5, <1>6, AppendOne
  <2> QED BY <2>1 DEF IsAppended
<1>12. Adds(L, M, S, g)
  BY <1>7
<1>8. Extended(PendingOf(L, g), PendingOf(M, g), n, e)
  <2>1. DOMAIN PendingOf(M, g) = DOMAIN PendingOf(L, g) \cup S
    BY <1>12, PendingGrows
  <2>2. \A z \in DOMAIN PendingOf(L, g) : PendingOf(M, g)[z] = PendingOf(L, g)[z]
    BY <1>12, PendingGrows
  <2>3. PendingOf(M, g)[n] = e
    <3>1. n \in S
      BY <1>6
    <3>2. PendingOf(M, g)[n] = EntryAt(M, n)
      BY <3>1, <1>12, PendingGrows
    <3> QED BY <3>2, <1>7
  <2>4. \A z \in DOMAIN PendingOf(L, g) : UpTo(z, n) /\ ~UpTo(n, z)
    <3> TAKE z \in DOMAIN PendingOf(L, g)
    <3>1. z \in EntriesOf(L) /\ L.files \in Seq(Seq(Record))
      BY PendingIs DEF GoodLog
    <3>2. z \in Nat \X Nat /\ UpTo(z, EndOf(L))
      BY <3>1, EndIsLast, EntriesArePairs
    <3> QED BY <3>2, <1>4, UpToOrder
  <2> QED BY <2>1, <2>2, <2>3, <2>4, <1>4, <1>6 DEF Extended
<1>9. \A c \in CutsOf(L) : ~UpTo(n, c)
  BY <1>2 DEF UpTo
<1>10. CASE N = M
  <2>1. UpTo(n, n) /\ Len(M.files) \in Nat /\ Len(M.files) >= Len(L.files)
    BY <1>2, <1>4, <1>7, UpToOrder DEF A
  <2>2. \A c \in CutsOf(M) : (c \in CutsOf(L) /\ ~UpTo(n, c)) \/ UpTo(n, c)
    BY <2>1, <1>6, <1>7, <1>9
  <2> QED BY <1>10, <2>1, <2>2, <1>4, <1>7, <1>8
<1>11. CASE N = new_file(M)
  <2>1. /\ GoodLog(N) /\ N.first = L.first /\ Len(N.files) = A + 1
        /\ EndOf(N) = <<A + 1, 1>> /\ CutsOf(N) = {<<A + 1, 1>>}
        /\ PendingOf(N, g) = PendingOf(M, g)
    BY <1>7, <1>11, NewFile DEF A
  <2>2. UpTo(n, <<A + 1, 1>>)
    BY <1>2 DEF UpTo
  <2>3. Len(N.files) \in Nat /\ Len(N.files) >= Len(L.files)
    BY <2>1, <1>2 DEF A
  <2> QED BY <2>1, <2>2, <2>3, <1>4, <1>8
<1> QED BY <1>1, <1>10, <1>11

(* MYSQL_LOG::purge_first_log: the files before t are deleted *)
Purged(L, t) ==
    [L EXCEPT !.first = t,
              !.files = [f \in DOMAIN @ |-> IF f < t THEN << >> ELSE @[f]]]

(* purge_first_log: nothing that is pending is deleted. *)
LEMMA Purges ==
    ASSUME NEW L, GoodLog(L), NEW t \in Nat, t >= L.first, t <= Len(L.files),
           NEW M, M = Purged(L, t),
           NEW g, \A z \in DOMAIN PendingOf(L, g) : z[1] >= t
    PROVE  /\ GoodLog(M)
           /\ M.first = t /\ Len(M.files) = Len(L.files)
           /\ M.flushed = L.flushed
           /\ \A f \in t .. Len(L.files) : M.files[f] = L.files[f]
           /\ EndOf(M) = EndOf(L) /\ CutsOf(M) = CutsOf(L)
           /\ PendingOf(M, g) = PendingOf(L, g)
<1> DEFINE A == Len(L.files)
           F == [f \in 1 .. A |-> IF f < t THEN << >> ELSE L.files[f]]
<1>1. /\ L.files \in Seq(Seq(Record)) /\ A \in Nat /\ A >= 1
      /\ L.first \in 1 .. A /\ L.flushed \in Nat /\ L.flushed \in 1 .. Len(L.files[A])
      /\ \A f \in L.first .. A : Len(L.files[f]) >= 1 /\ L.files[f][1] = Self
      /\ \A f \in 1 .. A : L.files[f] \in Seq(Record)
      /\ DOMAIN L.files = 1 .. A
  BY DEF GoodLog
<1>2. M = [files |-> F, first |-> t, flushed |-> L.flushed]
  <2>1. M = [L EXCEPT !.first = t, !.files = F]
    BY <1>1 DEF Purged
  <2> HIDE DEF F
  <2> QED BY <2>1, LogExcept, ZenonT(40)
<1>3. /\ F \in Seq(Seq(Record)) /\ Len(F) = A
      /\ \A f \in t .. A : F[f] = L.files[f]
      /\ \A f \in 1 .. t - 1 : F[f] = << >>
  <2>1. << >> \in Seq(Record)
    OBVIOUS
  <2>2. F \in [1 .. A -> Seq(Record)]
    BY <1>1, <2>1
  <2>3. F \in Seq(Seq(Record)) /\ Len(F) = A
    BY <2>2, <1>1
  <2>4. t \in 1 .. A
    BY <1>1
  <2> QED BY <2>3, <2>4, <1>1
<1> HIDE DEF F
<1>4. /\ M.files = F /\ M.first = t /\ M.flushed = L.flushed
      /\ M \in [files : Seq(Seq(Record)), first : Nat, flushed : Nat]
  <2>1. M \in [files : Seq(Seq(Record)), first : Nat, flushed : Nat]
    BY <1>1, <1>2, <1>3, LogRecord
  <2> QED BY <2>1, <1>2
<1>5. M.files[Len(M.files)] = L.files[A] /\ Len(M.files) = A
  <2>1. A \in t .. A
    BY <1>1
  <2>2. F[A] = L.files[A] /\ Len(F) = A
    BY <2>1, <1>3
  <2> QED BY <2>2, <1>4
<1>6. GoodLog(M)
  <2>1. \A f \in t .. A : Len(F[f]) >= 1 /\ F[f][1] = Self
    <3> TAKE f \in t .. A
    <3>1. f \in L.first .. A
      BY <1>1
    <3>2. F[f] = L.files[f]
      BY <1>3
    <3> QED BY <3>1, <3>2, <1>1
  <2>2. M.first \in 1 .. Len(M.files) /\ M.flushed \in 1 .. Len(M.files[Len(M.files)]) /\ Len(M.files) >= 1
    BY <1>1, <1>4, <1>5
  <2> QED BY <2>1, <2>2, <1>4, <1>5 DEF GoodLog
<1>7. EndOf(M) = EndOf(L) /\ CutsOf(M) = CutsOf(L)
  BY <1>4, <1>5 DEF EndOf, CutsOf
<1>8. \A z \in EntriesOf(M) : z \in EntriesOf(L) /\ EntryAt(M, z) = EntryAt(L, z)
  <2> TAKE z \in EntriesOf(M)
  <2>1. z \in Nat \X Nat /\ z[1] \in 1 .. A /\ z[2] \in 1 .. Len(F[z[1]])
    BY <1>3, <1>4, EntriesArePairs
  <2>2. z[1] \in t .. A
    <3>1. z[1] \in 1 .. t - 1 => Len(F[z[1]]) = 0
      BY <1>3
    <3>2. z[1] \notin 1 .. t - 1
      BY <2>1, <3>1
    <3>3. z[1] \in 1 .. A /\ A \in Nat /\ t \in Nat
      BY <2>1, <1>1
    <3> QED BY <3>2, <3>3
  <2>3. F[z[1]] = L.files[z[1]]
    BY <2>2, <1>3
  <2> QED BY <2>1, <2>3, <1>1, <1>4, EntriesArePairs DEF EntryAt
<1>9. \A z \in EntriesOf(L) : z[1] >= t => z \in EntriesOf(M)
  <2> SUFFICES ASSUME NEW z \in EntriesOf(L), z[1] >= t PROVE z \in EntriesOf(M)
    OBVIOUS
  <2>1. z \in Nat \X Nat /\ z[1] \in 1 .. A /\ z[2] \in 1 .. Len(L.files[z[1]])
    BY <1>1, EntriesArePairs
  <2>2. F[z[1]] = L.files[z[1]]
    BY <2>1, <1>1, <1>3, SMTT(30)
  <2> QED BY <2>1, <2>2, <1>3, <1>4, EntriesArePairs
<1>10. \A z : z \in DOMAIN PendingOf(M, g) <=> z \in DOMAIN PendingOf(L, g)
  <2> TAKE z
  <2>1. z \in DOMAIN PendingOf(M, g) => z \in DOMAIN PendingOf(L, g)
    BY <1>8, PendingIs
  <2>2. z \in DOMAIN PendingOf(L, g) => z \in EntriesOf(L) /\ z \in EntriesOf(M)
    BY <1>9, PendingIs
  <2>3. z \in DOMAIN PendingOf(L, g) => z \in DOMAIN PendingOf(M, g)
    BY <2>2, <1>8, PendingIs
  <2> QED BY <2>1, <2>3
<1>11. \A z \in DOMAIN PendingOf(M, g) : PendingOf(M, g)[z] = PendingOf(L, g)[z]
  BY <1>8, <1>10, PendingIs
<1>12. DOMAIN PendingOf(M, g) = DOMAIN PendingOf(L, g)
  BY <1>10
<1>13. PendingOf(M, g) = PendingOf(L, g)
  BY <1>11, <1>12, SamePending
<1> QED BY <1>3, <1>4, <1>5, <1>6, <1>7, <1>13

(* Q is P without what comes after c; without what comes up to g *)
CutOff(P, Q, c) ==
    DOMAIN Q = {z \in DOMAIN P : UpTo(z, c)} /\ \A z \in DOMAIN Q : Q[z] = P[z]
Dropped(P, Q, g) ==
    DOMAIN Q = {z \in DOMAIN P : ~UpTo(z, g)} /\ \A z \in DOMAIN Q : Q[z] = P[z]

(* a crash: the last file ends at n, the restart opens a new one *)
Crashed(L, n) ==
    [L EXCEPT !.files = Append([L.files EXCEPT ![Len(L.files)] = SubSeq(@, 1, n)], <<Self>>),
              !.flushed = 1]

(* What a crash leaves of the relay log. *)
LEMMA Crashes ==
    ASSUME NEW L, GoodLog(L), NEW n, n \in L.flushed .. Len(L.files[Len(L.files)]),
           NEW N, N = Crashed(L, n), NEW g
    PROVE  /\ GoodLog(N)
           /\ N.first = L.first /\ Len(N.files) = Len(L.files) + 1
           /\ EndOf(N) = <<Len(L.files) + 1, 1>> /\ CutsOf(N) = {<<Len(L.files) + 1, 1>>}
           /\ <<Len(L.files), n>> \in CutsOf(L)
           /\ CutOff(PendingOf(L, g), PendingOf(N, g), <<Len(L.files), n>>)
<1> DEFINE A == Len(L.files)
           B == Len(L.files[A])
           H == SubSeq(L.files[A], 1, n)
           F == [L.files EXCEPT ![A] = H]
           G == Append(F, <<Self>>)
<1>1. /\ L.files \in Seq(Seq(Record)) /\ A \in Nat /\ A >= 1
      /\ L.first \in 1 .. A /\ L.flushed \in Nat /\ L.flushed >= 1
      /\ L.files[A] \in Seq(Record) /\ B \in Nat
      /\ \A f \in L.first .. A : Len(L.files[f]) >= 1 /\ L.files[f][1] = Self
      /\ n \in Nat /\ n >= 1 /\ n <= B
  BY DEF GoodLog
<1>2. N = [files |-> G, first |-> L.first, flushed |-> 1]
  <2>1. N = [L EXCEPT !.files = G, !.flushed = 1]
    BY DEF Crashed
  <2> HIDE DEF G
  <2> QED BY <2>1, LogExcept, ZenonT(40)
<1>3. /\ H \in Seq(Record) /\ Len(H) = n
      /\ \A i \in 1 .. n : H[i] = L.files[A][i]
  BY <1>1
<1> HIDE DEF H
<1>4. /\ F \in Seq(Seq(Record)) /\ Len(F) = A /\ F[A] = H
      /\ \A f \in 1 .. A - 1 : F[f] = L.files[f]
  BY <1>1, <1>3
<1>5. <<Self>> \in Seq(Record) /\ Len(<<Self>>) = 1 /\ <<Self>>[1] = Self
  BY SelfIsRecord
<1>c. <<A, n>> \in CutsOf(L)
  BY DEF CutsOf
<1> HIDE DEF A, B, F
<1>6. /\ G \in Seq(Seq(Record)) /\ Len(G) = A + 1 /\ G[A] = H
      /\ G[A + 1] = <<Self>>
      /\ \A f \in 1 .. A - 1 : G[f] = L.files[f]
  BY <1>1, <1>4, <1>5
<1> HIDE DEF G
<1>7. /\ N.files = G /\ N.first = L.first /\ N.flushed = 1
      /\ N \in [files : Seq(Seq(Record)), first : Nat, flushed : Nat]
  BY <1>1, <1>2, <1>6
<1>8. \A f \in L.first .. A + 1 : Len(G[f]) >= 1 /\ G[f][1] = Self
  <2> TAKE f \in L.first .. A + 1
  <2>1. CASE f \in L.first .. A - 1
    <3>1. f \in 1 .. A - 1 /\ f \in L.first .. A
      BY <2>1, <1>1
    <3>2. G[f] = L.files[f]
      BY <3>1, <1>6
    <3> QED BY <3>1, <3>2, <1>1
  <2>2. CASE f = A
    <3>1. L.files[A][1] = Self /\ 1 \in 1 .. n
      BY <1>1
    <3> QED BY <2>2, <3>1, <1>1, <1>3, <1>6
  <2>3. CASE f = A + 1
    BY <2>3, <1>5, <1>6
  <2> QED BY <2>1, <2>2, <2>3, <1>1
<1>9. N.files[Len(N.files)] = <<Self>> /\ Len(N.files) = A + 1
  BY <1>6, <1>7
<1>10. Len(N.files[Len(N.files)]) = 1
  BY <1>9, <1>5
<1>11. GoodLog(N)
  <2>1. N.first \in 1 .. Len(N.files) /\ N.flushed \in 1 .. Len(N.files[Len(N.files)]) /\ Len(N.files) >= 1
    BY <1>9, <1>10, <1>1, <1>7
  <2> QED BY <2>1, <1>7, <1>8, <1>9 DEF GoodLog
<1>12. EndOf(N) = <<A + 1, 1>> /\ CutsOf(N) = {<<A + 1, 1>>}
  <2>1. EndOf(N) = <<A + 1, 1>>
    BY <1>9, <1>10 DEF EndOf
  <2>2. CutsOf(N) = {<<A + 1, i>> : i \in 1 .. 1}
    BY <1>9, <1>10, <1>7 DEF CutsOf
  <2> QED BY <2>1, <2>2
<1>13. \A z \in EntriesOf(L) : UpTo(z, <<A, n>>) => z \in EntriesOf(N) /\ EntryAt(N, z) = EntryAt(L, z)
  <2> SUFFICES ASSUME NEW z \in EntriesOf(L), UpTo(z, <<A, n>>)
               PROVE  z \in EntriesOf(N) /\ EntryAt(N, z) = EntryAt(L, z)
    OBVIOUS
  <2>1. z \in Nat \X Nat /\ z[1] \in 1 .. A /\ z[2] \in 1 .. Len(L.files[z[1]])
    BY <1>1, EntriesArePairs DEF A
  <2>2. CASE z[1] \in 1 .. A - 1
    <3>1. G[z[1]] = L.files[z[1]]
      BY <2>2, <1>6
    <3>2. z[1] \in 1 .. A + 1
      BY <2>2, <1>1
    <3> QED BY <2>1, <3>1, <3>2, <1>6, <1>7, EntriesArePairs DEF EntryAt
  <2>3. CASE z[1] = A
    <3>1. z[2] <= n /\ z[2] \in Nat /\ z[2] >= 1
      BY <2>1, <2>3, <1>1 DEF UpTo
    <3>2. z[2] \in 1 .. n
      BY <3>1, <1>1
    <3>3. G[z[1]][z[2]] = L.files[z[1]][z[2]] /\ z[2] \in 1 .. Len(G[z[1]])
      BY <3>2, <2>3, <1>3, <1>6
    <3>4. z[1] \in 1 .. A + 1
      BY <2>3, <1>1
    <3> QED BY <2>1, <3>3, <3>4, <1>6, <1>7, EntriesArePairs DEF EntryAt
  <2>4. z[1] \in 1 .. A - 1 \/ z[1] = A
    <3>1. z[1] \in 1 .. A /\ A \in Nat
      BY <2>1, <1>1
    <3> QED BY <3>1
  <2> QED BY <2>2, <2>3, <2>4
<1>14. \A z \in EntriesOf(N) : EntryAt(N, z).k # "self" => z \in EntriesOf(L) /\ UpTo(z, <<A, n>>)
  <2> SUFFICES ASSUME NEW z \in EntriesOf(N), EntryAt(N, z).k # "self"
               PROVE  z \in EntriesOf(L) /\ UpTo(z, <<A, n>>)
    OBVIOUS
  <2>1. z \in Nat \X Nat /\ z[1] \in 1 .. A + 1 /\ z[2] \in 1 .. Len(G[z[1]])
    BY <1>6, <1>7, EntriesArePairs
  <2>2. CASE z[1] \in 1 .. A - 1
    <3>1. G[z[1]] = L.files[z[1]]
      BY <2>2, <1>6
    <3>2. z[1] \in 1 .. A /\ z[1] < A
      BY <2>2, <1>1
    <3>3. z \in EntriesOf(L)
      BY <2>1, <3>1, <3>2, <1>1, EntriesArePairs DEF A
    <3> QED BY <3>2, <3>3 DEF UpTo
  <2>3. CASE z[1] = A
    <3>1. z[2] \in 1 .. n
      BY <2>1, <2>3, <1>3, <1>6
    <3>2. z[2] \in 1 .. B /\ z[2] <= n
      BY <3>1, <1>1
    <3>3. z[1] \in 1 .. Len(L.files) /\ z[2] \in 1 .. Len(L.files[z[1]])
      BY <2>3, <3>2, <1>1 DEF A, B
    <3>4. z \in EntriesOf(L)
      BY <2>1, <3>3, <1>1, EntriesArePairs
    <3> QED BY <2>3, <3>2, <3>4 DEF UpTo
  <2>4. CASE z[1] = A + 1
    BY <2>1, <2>4, <1>5, <1>6, <1>7, SelfIsRecord DEF EntryAt
  <2>5. z[1] \in 1 .. A - 1 \/ z[1] = A \/ z[1] = A + 1
    <3>1. z[1] \in 1 .. A + 1 /\ A \in Nat
      BY <2>1, <1>1
    <3> QED BY <3>1
  <2> QED BY <2>2, <2>3, <2>4, <2>5
<1>15. \A z : z \in DOMAIN PendingOf(N, g) <=> z \in DOMAIN PendingOf(L, g) /\ UpTo(z, <<A, n>>)
  <2> TAKE z
  <2>1. z \in DOMAIN PendingOf(N, g) => z \in EntriesOf(L) /\ UpTo(z, <<A, n>>) /\ EntryAt(N, z) = EntryAt(L, z)
    BY <1>13, <1>14, PendingIs
  <2>2. z \in DOMAIN PendingOf(N, g) => z \in DOMAIN PendingOf(L, g)
    BY <2>1, PendingIs
  <2>3. z \in DOMAIN PendingOf(L, g) /\ UpTo(z, <<A, n>>) => z \in DOMAIN PendingOf(N, g)
    BY <1>13, PendingIs
  <2> QED BY <2>1, <2>2, <2>3
<1>16. \A z \in DOMAIN PendingOf(N, g) : PendingOf(N, g)[z] = PendingOf(L, g)[z]
  BY <1>13, <1>15, PendingIs
<1>17. CutOff(PendingOf(L, g), PendingOf(N, g), <<A, n>>)
  BY <1>15, <1>16 DEF CutOff
<1> QED BY <1>c, <1>6, <1>7, <1>11, <1>12, <1>17 DEF A

(* the group's coordinates move from g to h *)
LEMMA MoveGroup ==
    ASSUME NEW L, NEW g \in Nat \X Nat, NEW h \in Nat \X Nat, UpTo(g, h), GoodLog(L)
    PROVE  Dropped(PendingOf(L, g), PendingOf(L, h), h)
<1>1. \A z \in EntriesOf(L) : z \in Nat \X Nat
  BY EntriesArePairs DEF GoodLog
<1>2. \A z : z \in DOMAIN PendingOf(L, h) <=> z \in DOMAIN PendingOf(L, g) /\ ~UpTo(z, h)
  BY <1>1, PendingIs, UpToOrder
<1>3. \A z \in DOMAIN PendingOf(L, h) : PendingOf(L, h)[z] = PendingOf(L, g)[z]
  BY <1>2, PendingIs
<1> QED BY <1>2, <1>3 DEF Dropped

(* flush_master_info: the IO_CACHE is written *)
LEMMA Flushes ==
    ASSUME NEW L, GoodLog(L), NEW N, N = [L EXCEPT !.flushed = Len(L.files[Len(L.files)])]
    PROVE  /\ GoodLog(N) /\ N.files = L.files /\ N.first = L.first
           /\ EndOf(N) = EndOf(L) /\ CutsOf(N) = {EndOf(L)}
           /\ <<Len(N.files), N.flushed>> = EndOf(L)
           /\ \A g : PendingOf(N, g) = PendingOf(L, g)
<1> DEFINE A == Len(L.files)
           B == Len(L.files[A])
<1>1. /\ L.files \in Seq(Seq(Record)) /\ A \in Nat /\ A >= 1 /\ B \in Nat /\ B >= 1
      /\ L.first \in 1 .. A /\ L.first \in Nat
      /\ \A f \in L.first .. A : Len(L.files[f]) >= 1 /\ L.files[f][1] = Self
  BY DEF GoodLog
<1>2. N = [files |-> L.files, first |-> L.first, flushed |-> B]
  BY LogExcept
<1>3. N.files = L.files /\ N.first = L.first /\ N.flushed = B
      /\ N \in [files : Seq(Seq(Record)), first : Nat, flushed : Nat]
  BY <1>1, <1>2, LogRecord
<1>4. EndOf(L) = <<A, B>> /\ EndOf(N) = <<A, B>>
  BY <1>3 DEF EndOf
<1>5. CutsOf(N) = {<<A, i>> : i \in B .. B}
  BY <1>3 DEF CutsOf
<1> HIDE DEF A, B
<1>6. B .. B = {B} /\ B \in 1 .. B
  BY <1>1
<1>7. CutsOf(N) = {<<A, B>>}
  BY <1>5, <1>6
<1>8. GoodLog(N)
  BY <1>1, <1>3, <1>6 DEF GoodLog, A, B
<1>9. \A g : PendingOf(N, g) = PendingOf(L, g)
  BY <1>3 DEF PendingOf, EntriesOf, EntryAt
<1> QED BY <1>3, <1>4, <1>7, <1>8, <1>9 DEF A

-----------------------------------------------------------------------------
(***************************************************************************)
(* The parts of RelayLog's invariant that are about the pending entries P, *)
(* the committed events D, a place x in the master's log and a place c in  *)
(* the relay log, and what becomes of them when an entry is appended, when *)
(* the end is cut off and when the group's coordinates move.               *)
(***************************************************************************)

PendingType(P) ==
    \A z \in DOMAIN P :
        /\ z \in Nat \X Nat
        /\ P[z].k \in Kinds /\ P[z].at \in LogPos
        /\ P[z].k # "rotate" => P[z].at \in Events /\ KindOf(P[z].at) = P[z].k

(* whatever comes before an entry in the master's log is committed or is   *)
(* pending before that entry                                               *)
NoGap(P, D) ==
    \A z \in DOMAIN P : \A e \in Effects : UpTo(e, P[z].at) =>
        e \in D \/ \E w \in DOMAIN P : UpTo(w, z) /\ P[w].k = "query" /\ P[w].at = e

(* the same for a place from which the I/O thread goes on, were the relay  *)
(* log to end at c                                                         *)
Covered(P, D, x, c) ==
    \A e \in Effects : UpTo(e, x) =>
        e \in D \/ \E w \in DOMAIN P : UpTo(w, c) /\ P[w].k = "query" /\ P[w].at = e

(* a transaction that the relay log, ended at c, has the beginning of only *)
Dangling(P, b, c) ==
    /\ P[b].k = "begin" /\ UpTo(b, c)
    /\ \A w \in DOMAIN P : P[w].k = "commit" /\ UpTo(w, c) => UpTo(w, b)

(* is the one that the I/O thread will send the rest of, or all of again *)
Inside(x, p) == x[1] = p[1] /\ (InTransaction(x) \/ x[2] < p[2])

Anchored(P, x, c) == \A b \in DOMAIN P : Dangling(P, b, c) => Inside(x, P[b].at)

Supported(P, D, x, c) == Covered(P, D, x, c) /\ Anchored(P, x, c)

(* only a Rotate leads into another file of the master's log *)
SameFile(P) ==
    \A u, z \in DOMAIN P :
        UpTo(u, z) /\ (\A w \in DOMAIN P : ~UpTo(w, u) /\ UpTo(w, z) => P[w].k # "rotate")
        => P[u].at[1] = P[z].at[1]

(* what comes after p is in file f up to the next Rotate *)
InFile(P, f, p) ==
    \A z \in DOMAIN P :
        ~UpTo(z, p) /\ (\A w \in DOMAIN P : ~UpTo(w, p) /\ UpTo(w, z) => P[w].k # "rotate")
        => P[z].at[1] = f

(* after the last Rotate the file is f, the one the I/O thread reads; when *)
(* there is none after p, it is h                                          *)
EndsIn(P, f) ==
    \A u \in DOMAIN P : (\A w \in DOMAIN P : ~UpTo(w, u) => P[w].k # "rotate")
        => P[u].at[1] = f

GoesOn(P, h, f, p) == (\A w \in DOMAIN P : ~UpTo(w, p) => P[w].k # "rotate") => h = f

(* a Rotate inside a transaction does not leave the transaction's file *)
RotateInside(P) ==
    \A r, b \in DOMAIN P :
        /\ P[r].k = "rotate" /\ P[b].k = "begin" /\ UpTo(b, r)
        /\ \A w \in DOMAIN P : P[w].k = "commit" /\ UpTo(w, r) => UpTo(w, b)
        => P[r].at[1] = P[b].at[1]

Known(D, m) == \A e \in Effects : UpTo(e, m) => e \in D

(* Without a crash: the order is the master's, nothing comes twice, *)
(* transactions do not overlap.                                     *)
Precedes(x, y, strict) == UpTo(x, y) /\ (strict => x # y)

Ordered(P) ==
    \A z, w \in DOMAIN P : ~UpTo(w, z) => Precedes(P[z].at, P[w].at, P[w].k # "rotate")

Separate(P) ==
    \A b, z \in DOMAIN P : P[b].k = "begin" /\ P[z].k = "begin" /\ ~UpTo(z, b) =>
        \E w \in DOMAIN P : ~UpTo(w, b) /\ UpTo(w, z) /\ P[w].k = "commit"

(* what is committed comes before what is pending after p *)
NotYet(P, D, p) ==
    \A d \in D : \A z \in DOMAIN P : ~UpTo(z, p) => Precedes(d, P[z].at, P[z].k # "rotate")

Bounded(P, D, x) ==
    /\ \A d \in D : UpTo(d, x)
    /\ \A z \in DOMAIN P : UpTo(P[z].at, x)

(* the queries W of the open transaction, in order, are among what is      *)
(* pending up to p                                                         *)
WorkIn(P, W, p) ==
    \A i \in 1 .. Len(W) :
        /\ \E w \in DOMAIN P : UpTo(w, p) /\ P[w].k = "query" /\ P[w].at = W[i]
        /\ \A j \in 1 .. i - 1 : Precedes(W[j], W[i], TRUE)

(* an order in which what comes before W[i] is committed before it *)
Ripe(D, W) ==
    \A i \in 1 .. Len(W) : \A e \in Effects : UpTo(e, W[i]) /\ e # W[i]
      => e \in D \/ \E j \in 1 .. i - 1 : W[j] = e

(* a transaction in file f is what comes first *)
Opened(P, f) ==
    \E b \in DOMAIN P : /\ P[b].k = "begin" /\ P[b].at[1] = f
                        /\ \A w \in DOMAIN P : ~UpTo(b, w) => P[w].k = "intvar"

-----------------------------------------------------------------------------
(* The place after x in the master's log, when it is in the same file. *)

Successor(x, y) == x \in LogPos /\ y \in Events /\ y = <<x[1], x[2] + 1>>

(* Nothing lies between a place and its successor. *)
LEMMA SuccessorOrder ==
    ASSUME NEW x, NEW y, Successor(x, y)
    PROVE  /\ x \in LogPos /\ y \in LogPos /\ x[1] = y[1]
           /\ UpTo(x, y) /\ ~UpTo(y, x) /\ x[2] < y[2]
           /\ \A e \in LogPos : UpTo(e, y) <=> UpTo(e, x) \/ e = y
           /\ \A e \in LogPos : UpTo(e, x) => e # y
<1>1. x \in Nat \X Nat /\ y \in Nat \X Nat /\ x \in LogPos /\ y \in LogPos
  BY PlacesArePairs DEF Successor
<1>2. y[1] = x[1] /\ y[2] = x[2] + 1
  BY DEF Successor
<1>3. \A e \in Nat \X Nat : UpTo(e, y) <=> UpTo(e, x) \/ e = y
  BY <1>1, <1>2 DEF UpTo
<1>4. UpTo(x, y) /\ ~UpTo(y, x) /\ x[2] < y[2]
  BY <1>1, <1>2 DEF UpTo
<1> QED BY <1>1, <1>2, <1>3, <1>4, PlacesArePairs

(* An event that is not a COMMIT does not end a transaction. *)
LEMMA StaysInside ==
    ASSUME NEW x, NEW y, Successor(x, y), KindOf(y) # "commit",
           NEW p \in Events, KindOf(p) = "begin", Inside(x, p)
    PROVE  Inside(y, p)
<1>1. /\ x \in Nat \X Nat /\ y \in Nat \X Nat /\ p \in Nat \X Nat
      /\ y[1] = x[1] /\ y[2] = x[2] + 1 /\ p[2] > 0 /\ p = <<p[1], p[2]>>
  BY PlacesArePairs DEF Successor
<1>2. CASE InTransaction(x)
  <2>1. PICK b \in 1 .. x[2] : /\ MasterLog[x[1]][b] = "begin"
                               /\ \A c \in b + 1 .. x[2] : MasterLog[x[1]][c] # "commit"
    BY <1>2 DEF InTransaction
  <2>2. b \in 1 .. y[2] /\ MasterLog[y[1]][b] = "begin"
    BY <2>1, <1>1
  <2>3. \A c \in b + 1 .. y[2] : MasterLog[y[1]][c] # "commit"
    <3> TAKE c \in b + 1 .. y[2]
    <3>1. c \in b + 1 .. x[2] \/ c = y[2]
      BY <1>1, <2>1
    <3> QED BY <3>1, <2>1, <1>1 DEF KindOf
  <2>4. InTransaction(y)
    BY <2>2, <2>3 DEF InTransaction
  <2> QED BY <2>4, <1>1 DEF Inside
<1>3. CASE ~InTransaction(x)
  <2>1. x[1] = p[1] /\ x[2] < p[2]
    BY <1>3 DEF Inside
  <2>2. CASE y[2] < p[2]
    BY <2>1, <2>2, <1>1 DEF Inside
  <2>3. CASE y[2] = p[2]
    <3>1. y[2] \in 1 .. y[2] /\ MasterLog[y[1]][y[2]] = "begin" /\ \A c \in y[2] + 1 .. y[2] : FALSE
      BY <2>1, <2>3, <1>1 DEF KindOf
    <3>2. InTransaction(y)
      BY <3>1 DEF InTransaction
    <3> QED BY <3>2, <2>1, <1>1 DEF Inside
  <2> QED BY <2>1, <2>2, <2>3, <1>1
<1> QED BY <1>2, <1>3

(* A transaction that has just begun is open. *)
LEMMA BeginIsInside ==
    ASSUME NEW y \in Events, KindOf(y) = "begin"
    PROVE  Inside(y, y)
<1>1. y[2] \in Nat /\ y[2] > 0
  BY PlacesArePairs
<1>2. y[2] \in 1 .. y[2] /\ \A c \in y[2] + 1 .. y[2] : FALSE
  BY <1>1
<1>3. InTransaction(y)
  BY <1>2 DEF InTransaction, KindOf
<1> QED BY <1>3 DEF Inside

(* The end of a file of the master's log is not inside a transaction. *)
LEMMA EndIsOutside ==
    ASSUME NEW x \in LogPos, EndOfFile(x), NEW p \in Events
    PROVE  ~Inside(x, p)
<1>1. ~InTransaction(x)
  BY WholeTransactions
<1>2. /\ p[2] \in 0 .. Len(MasterLog[p[1]]) /\ x[2] = Len(MasterLog[x[1]])
      /\ x[2] \in 0 .. Len(MasterLog[x[1]]) /\ p[1] \in 1 .. Len(MasterLog)
  BY PlacesArePairs DEF EndOfFile
<1>3. Len(MasterLog[p[1]]) \in Nat
  BY <1>2, RelayLogAssumption
<1>4. x[1] = p[1] => ~(x[2] < p[2])
  BY <1>2, <1>3
<1> QED BY <1>1, <1>4 DEF Inside

-----------------------------------------------------------------------------
(* queue_event: entry e of place x is appended, the I/O thread goes to y *)

Follows(x, e, y) ==
    /\ x \in LogPos /\ y \in LogPos /\ e \in Sent
    /\ \/ e.k = "rotate" /\ e.at = x /\ y = x
       \/ e.k # "rotate" /\ Successor(x, y) /\ e.at = y /\ KindOf(y) = e.k

(* What is sent comes after all that was read before. *)
LEMMA FollowsOrder ==
    ASSUME NEW x, NEW e, NEW y, Follows(x, e, y)
    PROVE  /\ x \in LogPos /\ y \in LogPos /\ e.at = y /\ x[1] = y[1]
           /\ e.k \in Kinds
           /\ e.k # "rotate" => y \in Events /\ KindOf(y) = e.k /\ Successor(x, y)
           /\ e.k = "rotate" => y = x
           /\ \A d \in LogPos : UpTo(d, x) => Precedes(d, y, e.k # "rotate")
           /\ \A d \in LogPos : UpTo(d, y) => UpTo(d, x) \/ (d = y /\ e.k # "rotate")
<1>1. e.k \in Kinds
  BY DEF Follows, Sent
<1>2. CASE e.k = "rotate"
  BY <1>1, <1>2 DEF Follows, Precedes
<1>3. CASE e.k # "rotate"
  <2>1. Successor(x, y) /\ e.at = y /\ KindOf(y) = e.k
    BY <1>3 DEF Follows
  <2>2. y \in Events
    BY <2>1 DEF Successor
  <2> QED BY <2>1, <2>2, <1>1, <1>3, SuccessorOrder DEF Precedes
<1> QED BY <1>2, <1>3

(* The new entry is the last one. *)
LEMMA ExtendedBy ==
    ASSUME NEW P, NEW Q, NEW n, NEW e, PendingType(P), Extended(P, Q, n, e)
    PROVE  /\ n \in DOMAIN Q /\ Q[n] = e /\ n \in Nat \X Nat
           /\ \A z \in DOMAIN P : /\ z \in DOMAIN Q /\ Q[z] = P[z] /\ z \in Nat \X Nat
                                  /\ UpTo(z, n) /\ ~UpTo(n, z)
           /\ \A z \in DOMAIN Q : z \in DOMAIN P \/ z = n
BY DEF PendingType, Extended

(* An appended entry has the type of an entry. *)
LEMMA AppendTyped ==
    ASSUME NEW P, NEW Q, NEW n, NEW e, NEW x, NEW y,
           PendingType(P), Extended(P, Q, n, e), Follows(x, e, y)
    PROVE  PendingType(Q)
BY ExtendedBy, FollowsOrder DEF PendingType

(* queue_event leaves no gap before the new entry. *)
LEMMA AppendNoGap ==
    ASSUME NEW P, NEW Q, NEW n, NEW e, NEW x, NEW y, NEW D, NEW c,
           PendingType(P), Extended(P, Q, n, e), Follows(x, e, y),
           NoGap(P, D), Covered(P, D, x, c)
    PROVE  NoGap(Q, D)
<1>1. /\ n \in DOMAIN Q /\ Q[n] = e /\ n \in Nat \X Nat
      /\ \A z \in DOMAIN P : z \in DOMAIN Q /\ Q[z] = P[z] /\ UpTo(z, n)
      /\ \A z \in DOMAIN Q : z \in DOMAIN P \/ z = n
  BY ExtendedBy
<1>2. \A z \in DOMAIN P : \A d \in Effects : UpTo(d, Q[z].at) =>
        d \in D \/ \E w \in DOMAIN Q : UpTo(w, z) /\ Q[w].k = "query" /\ Q[w].at = d
  BY <1>1 DEF NoGap
<1>3. ASSUME NEW d \in Effects, UpTo(d, e.at)
      PROVE  d \in D \/ \E w \in DOMAIN Q : UpTo(w, n) /\ Q[w].k = "query" /\ Q[w].at = d
  <2>1. d \in LogPos /\ KindOf(d) = "query"
    BY PlacesArePairs
  <2>2. CASE UpTo(d, x)
    BY <2>2, <1>1 DEF Covered
  <2>3. CASE d = y /\ e.k # "rotate"
    <3>1. Q[n].k = "query" /\ Q[n].at = d
      BY <2>1, <2>3, <1>1, FollowsOrder
    <3> QED BY <3>1, <1>1, UpToOrder
  <2> QED BY <2>1, <2>2, <2>3, <1>3, FollowsOrder
<1> QED BY <1>1, <1>2, <1>3 DEF NoGap

(* Dangling transactions of Q, where the I/O thread reads *)
LEMMA AppendDangling ==
    ASSUME NEW P, NEW Q, NEW n, NEW e, NEW c0, NEW c,
           PendingType(P), Extended(P, Q, n, e),
           \A z \in DOMAIN P : UpTo(z, c0), c \in Nat \X Nat, UpTo(n, c),
           NEW b \in DOMAIN Q, Dangling(Q, b, c)
    PROVE  \/ b = n /\ e.k = "begin"
           \/ b \in DOMAIN P /\ Q[b] = P[b] /\ Dangling(P, b, c0) /\ e.k # "commit"
<1>1. /\ n \in DOMAIN Q /\ Q[n] = e /\ n \in Nat \X Nat
      /\ \A z \in DOMAIN P : /\ z \in DOMAIN Q /\ Q[z] = P[z] /\ z \in Nat \X Nat
                             /\ UpTo(z, n) /\ ~UpTo(n, z)
      /\ \A z \in DOMAIN Q : z \in DOMAIN P \/ z = n
  BY ExtendedBy
<1>2. CASE b = n
  BY <1>1, <1>2 DEF Dangling
<1>3. CASE b \in DOMAIN P
  <2>1. \A w \in DOMAIN P : UpTo(w, c)
    BY <1>1, UpToOrder
  <2>2. Dangling(P, b, c0)
    BY <2>1, <1>1, <1>3 DEF Dangling
  <2>3. e.k # "commit"
    BY <1>1, <1>3 DEF Dangling
  <2> QED BY <2>2, <2>3, <1>1, <1>3
<1> QED BY <1>1, <1>2, <1>3

(* After queue_event the I/O thread goes on from the place it has read. *)
LEMMA AppendSupported ==
    ASSUME NEW P, NEW Q, NEW n, NEW e, NEW x, NEW y, NEW D, NEW c0, NEW c,
           PendingType(P), Extended(P, Q, n, e), Follows(x, e, y),
           Supported(P, D, x, c0),
           \A z \in DOMAIN P : UpTo(z, c0), c \in Nat \X Nat, UpTo(n, c)
    PROVE  Supported(Q, D, y, c)
<1>1. /\ n \in DOMAIN Q /\ Q[n] = e /\ n \in Nat \X Nat
      /\ \A z \in DOMAIN P : z \in DOMAIN Q /\ Q[z] = P[z] /\ z \in Nat \X Nat /\ UpTo(z, n)
  BY ExtendedBy
<1>2. \A z \in DOMAIN P : UpTo(z, c)
  BY <1>1, UpToOrder
<1>3. Covered(Q, D, y, c)
  <2> SUFFICES ASSUME NEW d \in Effects, UpTo(d, y)
               PROVE  d \in D \/ \E w \in DOMAIN Q : UpTo(w, c) /\ Q[w].k = "query" /\ Q[w].at = d
    BY DEF Covered
  <2>1. d \in LogPos /\ KindOf(d) = "query"
    BY PlacesArePairs
  <2>2. CASE UpTo(d, x)
    BY <2>2, <1>1, <1>2 DEF Supported, Covered
  <2>3. CASE d = y /\ e.k # "rotate"
    BY <2>1, <2>3, <1>1, FollowsOrder
  <2> QED BY <2>1, <2>2, <2>3, FollowsOrder
<1>4. Anchored(Q, y, c)
  <2> SUFFICES ASSUME NEW b \in DOMAIN Q, Dangling(Q, b, c) PROVE Inside(y, Q[b].at)
    BY DEF Anchored
  <2>1. CASE b = n /\ e.k = "begin"
    <3>1. y \in Events /\ KindOf(y) = "begin" /\ Q[b].at = y
      BY <2>1, <1>1, FollowsOrder
    <3> QED BY <3>1, BeginIsInside
  <2>2. CASE b \in DOMAIN P /\ Q[b] = P[b] /\ Dangling(P, b, c0) /\ e.k # "commit"
    <3>1. Inside(x, P[b].at)
      BY <2>2 DEF Supported, Anchored
    <3>2. P[b].at \in Events /\ KindOf(P[b].at) = "begin"
      BY <2>2 DEF Dangling, PendingType
    <3>3. CASE e.k = "rotate"
      BY <3>1, <3>3, <2>2, FollowsOrder
    <3>4. CASE e.k # "rotate"
      <4>1. Successor(x, y) /\ KindOf(y) # "commit"
        BY <3>4, <2>2, FollowsOrder
      <4> QED BY <4>1, <3>1, <3>2, <2>2, StaysInside
    <3> QED BY <3>3, <3>4
  <2> QED BY <2>1, <2>2, AppendDangling
<1> QED BY <1>3, <1>4 DEF Supported

(* the place in master.info, m: the append is lost, or it is not *)
LEMMA AppendKeepsSupport ==
    ASSUME NEW P, NEW Q, NEW n, NEW e, NEW x, NEW y, NEW D, NEW m, NEW c0, NEW c,
           PendingType(P), Extended(P, Q, n, e), Follows(x, e, y),
           Supported(P, D, m, c0), e.k = "begin" => m = x,
           \A z \in DOMAIN P : UpTo(z, c0), c \in Nat \X Nat, UpTo(n, c)
    PROVE  Supported(Q, D, m, c)
<1>1. /\ n \in DOMAIN Q /\ Q[n] = e /\ n \in Nat \X Nat
      /\ \A z \in DOMAIN P : z \in DOMAIN Q /\ Q[z] = P[z] /\ z \in Nat \X Nat /\ UpTo(z, n)
  BY ExtendedBy
<1>2. \A z \in DOMAIN P : UpTo(z, c)
  BY <1>1, UpToOrder
<1>3. Covered(Q, D, m, c)
  BY <1>1, <1>2 DEF Supported, Covered
<1>4. Anchored(Q, m, c)
  <2> SUFFICES ASSUME NEW b \in DOMAIN Q, Dangling(Q, b, c) PROVE Inside(m, Q[b].at)
    BY DEF Anchored
  <2>1. CASE b = n /\ e.k = "begin"
    <3>1. Successor(x, y) /\ Q[b].at = y /\ m = x
      BY <2>1, <1>1, FollowsOrder
    <3> QED BY <3>1, SuccessorOrder DEF Inside
  <2>2. CASE b \in DOMAIN P /\ Q[b] = P[b] /\ Dangling(P, b, c0) /\ e.k # "commit"
    BY <2>2 DEF Supported, Anchored
  <2> QED BY <2>1, <2>2, AppendDangling
<1> QED BY <1>3, <1>4 DEF Supported

(* A crash that loses the new entry loses nothing else. *)
LEMMA AppendLost ==
    ASSUME NEW P, NEW Q, NEW n, NEW e, NEW D, NEW m, NEW c,
           PendingType(P), Extended(P, Q, n, e), Supported(P, D, m, c), ~UpTo(n, c)
    PROVE  Supported(Q, D, m, c)
<1>1. /\ n \in DOMAIN Q /\ Q[n] = e
      /\ \A z \in DOMAIN P : z \in DOMAIN Q /\ Q[z] = P[z]
      /\ \A z \in DOMAIN Q : z \in DOMAIN P \/ z = n
  BY ExtendedBy
<1>2. Covered(Q, D, m, c)
  BY <1>1 DEF Supported, Covered
<1>3. Anchored(Q, m, c)
  <2> SUFFICES ASSUME NEW b \in DOMAIN Q, Dangling(Q, b, c) PROVE Inside(m, Q[b].at)
    BY DEF Anchored
  <2>1. b \in DOMAIN P /\ Q[b] = P[b]
    BY <1>1 DEF Dangling
  <2>2. Dangling(P, b, c)
    BY <2>1, <1>1 DEF Dangling
  <2> QED BY <2>1, <2>2 DEF Supported, Anchored
<1> QED BY <1>2, <1>3 DEF Supported

(* Entries change the file of the master's log only at a Rotate. *)
LEMMA AppendSameFile ==
    ASSUME NEW P, NEW Q, NEW n, NEW e, NEW x, NEW y,
           PendingType(P), Extended(P, Q, n, e), Follows(x, e, y),
           SameFile(P), e.k # "rotate" => EndsIn(P, x[1])
    PROVE  SameFile(Q)
<1>1. /\ n \in DOMAIN Q /\ Q[n] = e
      /\ \A z \in DOMAIN P : z \in DOMAIN Q /\ Q[z] = P[z] /\ UpTo(z, n) /\ ~UpTo(n, z)
      /\ \A z \in DOMAIN Q : z \in DOMAIN P \/ z = n
  BY ExtendedBy
<1> SUFFICES ASSUME NEW u \in DOMAIN Q, NEW z \in DOMAIN Q, UpTo(u, z),
                    \A w \in DOMAIN Q : ~UpTo(w, u) /\ UpTo(w, z) => Q[w].k # "rotate"
             PROVE  Q[u].at[1] = Q[z].at[1]
  BY DEF SameFile
<1>2. CASE u \in DOMAIN P /\ z \in DOMAIN P
  <2>1. \A w \in DOMAIN P : ~UpTo(w, u) /\ UpTo(w, z) => P[w].k # "rotate"
    BY <1>1
  <2>2. P[u].at[1] = P[z].at[1]
    BY <2>1, <1>2 DEF SameFile
  <2> QED BY <2>2, <1>1, <1>2
<1>3. CASE u \in DOMAIN P /\ z = n
  <2>1. e.k # "rotate"
    BY <1>1, <1>3, UpToOrder DEF Extended
  <2>2. \A w \in DOMAIN P : ~UpTo(w, u) => P[w].k # "rotate"
    BY <1>1, <1>3
  <2>3. P[u].at[1] = x[1]
    BY <2>1, <2>2, <1>3 DEF EndsIn
  <2> QED BY <2>3, <1>1, <1>3, FollowsOrder
<1>4. CASE u = n
  BY <1>1, <1>4
<1> QED BY <1>1, <1>2, <1>3, <1>4

(* The same, counted from the place p. *)
LEMMA AppendInFile ==
    ASSUME NEW P, NEW Q, NEW n, NEW e, NEW x, NEW y, NEW f, NEW p,
           PendingType(P), Extended(P, Q, n, e), Follows(x, e, y), ~UpTo(n, p),
           InFile(P, f, p), e.k # "rotate" => GoesOn(P, f, x[1], p)
    PROVE  InFile(Q, f, p)
<1>1. /\ n \in DOMAIN Q /\ Q[n] = e /\ UpTo(n, n)
      /\ \A z \in DOMAIN P : z \in DOMAIN Q /\ Q[z] = P[z] /\ UpTo(z, n) /\ ~UpTo(n, z)
      /\ \A z \in DOMAIN Q : z \in DOMAIN P \/ z = n
  BY ExtendedBy, UpToOrder
<1> SUFFICES ASSUME NEW z \in DOMAIN Q, ~UpTo(z, p),
                    \A w \in DOMAIN Q : ~UpTo(w, p) /\ UpTo(w, z) => Q[w].k # "rotate"
             PROVE  Q[z].at[1] = f
  BY DEF InFile
<1>2. CASE z \in DOMAIN P
  <2>1. \A w \in DOMAIN P : ~UpTo(w, p) /\ UpTo(w, z) => P[w].k # "rotate"
    BY <1>1
  <2> QED BY <2>1, <1>1, <1>2 DEF InFile
<1>3. CASE z = n
  <2>1. e.k # "rotate"
    BY <1>1, <1>3
  <2>2. \A w \in DOMAIN P : ~UpTo(w, p) => P[w].k # "rotate"
    BY <1>1, <1>3
  <2>3. f = x[1]
    BY <2>1, <2>2 DEF GoesOn
  <2> QED BY <2>3, <1>1, <1>3, FollowsOrder
<1> QED BY <1>1, <1>2, <1>3

(* The last entries are in the file that the I/O thread reads. *)
LEMMA AppendEndsIn ==
    ASSUME NEW P, NEW Q, NEW n, NEW e, NEW x, NEW y,
           PendingType(P), Extended(P, Q, n, e), Follows(x, e, y),
           e.k # "rotate" => EndsIn(P, x[1])
    PROVE  EndsIn(Q, y[1])
<1>1. /\ n \in DOMAIN Q /\ Q[n] = e
      /\ \A z \in DOMAIN P : z \in DOMAIN Q /\ Q[z] = P[z] /\ UpTo(z, n) /\ ~UpTo(n, z)
      /\ \A z \in DOMAIN Q : z \in DOMAIN P \/ z = n
  BY ExtendedBy
<1> SUFFICES ASSUME NEW u \in DOMAIN Q, \A w \in DOMAIN Q : ~UpTo(w, u) => Q[w].k # "rotate"
             PROVE  Q[u].at[1] = y[1]
  BY DEF EndsIn
<1>2. CASE u \in DOMAIN P
  <2>1. e.k # "rotate"
    BY <1>1, <1>2
  <2>2. \A w \in DOMAIN P : ~UpTo(w, u) => P[w].k # "rotate"
    BY <1>1
  <2>3. P[u].at[1] = x[1]
    BY <2>1, <2>2, <1>2 DEF EndsIn
  <2> QED BY <2>3, <1>1, <1>2, FollowsOrder
<1>3. CASE u = n
  BY <1>1, <1>3, FollowsOrder
<1> QED BY <1>1, <1>2, <1>3

(* Without a Rotate after p the file is still that of p. *)
LEMMA AppendGoesOn ==
    ASSUME NEW P, NEW Q, NEW n, NEW e, NEW x, NEW y, NEW h, NEW p,
           PendingType(P), Extended(P, Q, n, e), Follows(x, e, y), ~UpTo(n, p),
           e.k # "rotate" => GoesOn(P, h, x[1], p)
    PROVE  GoesOn(Q, h, y[1], p)
<1>1. /\ n \in DOMAIN Q /\ Q[n] = e
      /\ \A z \in DOMAIN P : z \in DOMAIN Q /\ Q[z] = P[z]
  BY ExtendedBy
<1> SUFFICES ASSUME \A w \in DOMAIN Q : ~UpTo(w, p) => Q[w].k # "rotate" PROVE h = y[1]
  BY DEF GoesOn
<1>2. e.k # "rotate" /\ \A w \in DOMAIN P : ~UpTo(w, p) => P[w].k # "rotate"
  BY <1>1
<1>3. h = x[1]
  BY <1>2 DEF GoesOn
<1> QED BY <1>3, FollowsOrder

(* A Rotate appended inside a transaction is one to the same file. *)
LEMMA AppendRotateInside ==
    ASSUME NEW P, NEW Q, NEW n, NEW e, NEW x, NEW y, NEW c0,
           PendingType(P), Extended(P, Q, n, e), Follows(x, e, y),
           Anchored(P, x, c0), \A z \in DOMAIN P : UpTo(z, c0), RotateInside(P)
    PROVE  RotateInside(Q)
<1>1. /\ n \in DOMAIN Q /\ Q[n] = e
      /\ \A z \in DOMAIN P : z \in DOMAIN Q /\ Q[z] = P[z] /\ UpTo(z, n) /\ ~UpTo(n, z)
      /\ \A z \in DOMAIN Q : z \in DOMAIN P \/ z = n
  BY ExtendedBy
<1> SUFFICES ASSUME NEW r \in DOMAIN Q, NEW b \in DOMAIN Q,
                    Q[r].k = "rotate", Q[b].k = "begin", UpTo(b, r),
                    \A w \in DOMAIN Q : Q[w].k = "commit" /\ UpTo(w, r) => UpTo(w, b)
             PROVE  Q[r].at[1] = Q[b].at[1]
  BY DEF RotateInside
<1>2. CASE r \in DOMAIN P
  <2>1. b \in DOMAIN P
    BY <1>1, <1>2
  <2>2. \A w \in DOMAIN P : P[w].k = "commit" /\ UpTo(w, r) => UpTo(w, b)
    BY <1>1
  <2>3. P[r].at[1] = P[b].at[1]
    BY <2>1, <2>2, <1>1, <1>2 DEF RotateInside
  <2> QED BY <2>1, <2>3, <1>1, <1>2
<1>3. CASE r = n
  <2>1. e.k = "rotate"
    BY <1>1, <1>3
  <2>2. b \in DOMAIN P
    BY <2>1, <1>1
  <2>3. Dangling(P, b, c0)
    BY <2>2, <1>1, <1>3 DEF Dangling
  <2>4. Inside(x, P[b].at)
    BY <2>2, <2>3 DEF Anchored
  <2>5. x[1] = P[b].at[1]
    BY <2>4 DEF Inside
  <2> QED BY <2>2, <2>5, <1>1, <1>3, FollowsOrder
<1> QED BY <1>1, <1>2, <1>3

(* The transaction that comes first does so still. *)
LEMMA AppendOpened ==
    ASSUME NEW P, NEW Q, NEW n, NEW e, NEW f, PendingType(P), Extended(P, Q, n, e), Opened(P, f)
    PROVE  Opened(Q, f)
<1>1. PICK b \in DOMAIN P : /\ P[b].k = "begin" /\ P[b].at[1] = f
                            /\ \A w \in DOMAIN P : ~UpTo(b, w) => P[w].k = "intvar"
  BY DEF Opened
<1> QED BY <1>1, ExtendedBy DEF Opened

(* Without a crash, entries are appended in the master's order. *)
LEMMA AppendOrdered ==
    ASSUME NEW P, NEW Q, NEW n, NEW e, NEW x, NEW y, NEW D,
           PendingType(P), Extended(P, Q, n, e), Follows(x, e, y),
           Bounded(P, D, x), D \subseteq LogPos
    PROVE  /\ Ordered(P) => Ordered(Q)
           /\ Bounded(Q, D, y)
           /\ \A p : NotYet(P, D, p) => NotYet(Q, D, p)
<1>1. /\ n \in DOMAIN Q /\ Q[n] = e /\ n \in Nat \X Nat
      /\ \A z \in DOMAIN P : z \in DOMAIN Q /\ Q[z] = P[z] /\ UpTo(z, n) /\ ~UpTo(n, z)
      /\ \A z \in DOMAIN Q : z \in DOMAIN P \/ z = n
  BY ExtendedBy
<1>2. /\ \A z \in DOMAIN P : P[z].at \in LogPos /\ UpTo(P[z].at, x)
      /\ \A d \in D : d \in LogPos /\ UpTo(d, x)
  BY DEF Bounded, PendingType
<1>3. /\ \A z \in DOMAIN P : Precedes(P[z].at, e.at, e.k # "rotate")
      /\ \A d \in D : Precedes(d, e.at, e.k # "rotate")
  BY <1>2, FollowsOrder
<1>4. Ordered(P) => Ordered(Q)
  <2> SUFFICES ASSUME Ordered(P), NEW z \in DOMAIN Q, NEW w \in DOMAIN Q, ~UpTo(w, z)
               PROVE  Precedes(Q[z].at, Q[w].at, Q[w].k # "rotate")
    BY DEF Ordered
  <2>1. z # n
    BY <1>1, UpToOrder
  <2>2. z \in DOMAIN P
    BY <2>1, <1>1
  <2>3. CASE w = n
    BY <2>2, <2>3, <1>1, <1>3
  <2>4. CASE w \in DOMAIN P
    BY <2>2, <2>4, <1>1 DEF Ordered
  <2> QED BY <2>3, <2>4, <1>1
<1>5. Bounded(Q, D, y)
  <2>1. /\ \A z \in DOMAIN P : UpTo(P[z].at, y)
        /\ \A d \in D : UpTo(d, y)
    BY <1>3, FollowsOrder DEF Precedes
  <2>2. UpTo(e.at, y)
    BY FollowsOrder, PlacesArePairs, UpToOrder
  <2> QED BY <2>1, <2>2, <1>1 DEF Bounded
<1>6. \A p : NotYet(P, D, p) => NotYet(Q, D, p)
  BY <1>1, <1>3 DEF NotYet
<1> QED BY <1>4, <1>5, <1>6

(* The open transaction does not notice an append. *)
LEMMA AppendWork ==
    ASSUME NEW P, NEW Q, NEW n, NEW e, NEW W, NEW p,
           PendingType(P), Extended(P, Q, n, e), WorkIn(P, W, p)
    PROVE  WorkIn(Q, W, p)
<1>1. \A z \in DOMAIN P : z \in DOMAIN Q /\ Q[z] = P[z]
  BY ExtendedBy
<1> SUFFICES ASSUME NEW i \in 1 .. Len(W)
             PROVE  /\ \E w \in DOMAIN Q : UpTo(w, p) /\ Q[w].k = "query" /\ Q[w].at = W[i]
                    /\ \A j \in 1 .. i - 1 : Precedes(W[j], W[i], TRUE)
  BY DEF WorkIn
<1>2. PICK w \in DOMAIN P : UpTo(w, p) /\ P[w].k = "query" /\ P[w].at = W[i]
  BY DEF WorkIn
<1>3. \A j \in 1 .. i - 1 : Precedes(W[j], W[i], TRUE)
  BY DEF WorkIn
<1> QED BY <1>1, <1>2, <1>3

(* A transaction begins after the COMMIT of the one before. *)
LEMMA AppendSeparate ==
    ASSUME NEW P, NEW Q, NEW n, NEW e, NEW x, NEW y, NEW D, NEW c0,
           PendingType(P), Extended(P, Q, n, e), Follows(x, e, y),
           Bounded(P, D, x), Anchored(P, x, c0), \A z \in DOMAIN P : UpTo(z, c0),
           Separate(P)
    PROVE  Separate(Q)
<1>1. /\ n \in DOMAIN Q /\ Q[n] = e
      /\ \A z \in DOMAIN P : /\ z \in DOMAIN Q /\ Q[z] = P[z] /\ z \in Nat \X Nat
                             /\ UpTo(z, n) /\ ~UpTo(n, z)
      /\ \A z \in DOMAIN Q : z \in DOMAIN P \/ z = n
  BY ExtendedBy
<1> SUFFICES ASSUME NEW b \in DOMAIN Q, NEW z \in DOMAIN Q,
                    Q[b].k = "begin", Q[z].k = "begin", ~UpTo(z, b)
             PROVE  \E w \in DOMAIN Q : ~UpTo(w, b) /\ UpTo(w, z) /\ Q[w].k = "commit"
  BY DEF Separate
<1>2. b \in DOMAIN P
  BY <1>1, UpToOrder DEF Extended
<1>3. CASE z \in DOMAIN P
  <2>1. PICK w \in DOMAIN P : ~UpTo(w, b) /\ UpTo(w, z) /\ P[w].k = "commit"
    BY <1>1, <1>2, <1>3 DEF Separate
  <2> QED BY <2>1, <1>1
<1>4. CASE z = n
  <2> SUFFICES ASSUME \A w \in DOMAIN P : P[w].k = "commit" => UpTo(w, b) PROVE FALSE
    BY <1>1, <1>4
  <2>1. Dangling(P, b, c0)
    BY <1>1, <1>2 DEF Dangling
  <2>2. Inside(x, P[b].at) /\ UpTo(P[b].at, x)
    BY <2>1, <1>2 DEF Anchored, Bounded
  <2>3. x \in Nat \X Nat /\ P[b].at \in Nat \X Nat /\ x \in LogPos
    BY <1>2, FollowsOrder, PlacesArePairs DEF PendingType
  <2>4. InTransaction(x)
    BY <2>2, <2>3 DEF Inside, UpTo
  <2>5. e.k = "begin" /\ Successor(x, y) /\ KindOf(y) = "begin"
    BY <1>1, <1>4, FollowsOrder
  <2>6. MasterLog[x[1]][x[2] + 1] = "begin"
    BY <2>5 DEF Successor, KindOf
  <2> QED BY <2>3, <2>4, <2>6, WholeTransactions
<1> QED BY <1>1, <1>3, <1>4

-----------------------------------------------------------------------------
(* The I/O thread reads on, and nothing is appended: an event that this     *)
(* server has written itself (queue_event), and a Rotate to the next file  *)
(* (process_io_rotate).                                                    *)

(* An event of this server itself is no gap. *)
LEMMA IgnoredSupported ==
    ASSUME NEW P, NEW D, NEW x, NEW y, NEW c,
           PendingType(P), Successor(x, y), KindOf(y) = "own", Supported(P, D, x, c)
    PROVE  Supported(P, D, y, c)
<1>1. Covered(P, D, y, c)
  <2> SUFFICES ASSUME NEW d \in Effects, UpTo(d, y)
               PROVE  d \in D \/ \E w \in DOMAIN P : UpTo(w, c) /\ P[w].k = "query" /\ P[w].at = d
    BY DEF Covered
  <2>1. d \in LogPos /\ KindOf(d) = "query"
    BY PlacesArePairs
  <2>2. UpTo(d, x)
    BY <2>1, SuccessorOrder
  <2> QED BY <2>2 DEF Supported, Covered
<1>2. Anchored(P, y, c)
  <2> SUFFICES ASSUME NEW b \in DOMAIN P, Dangling(P, b, c) PROVE Inside(y, P[b].at)
    BY DEF Anchored
  <2>1. Inside(x, P[b].at)
    BY DEF Supported, Anchored
  <2>2. P[b].at \in Events /\ KindOf(P[b].at) = "begin"
    BY DEF Dangling, PendingType
  <2> QED BY <2>1, <2>2, StaysInside
<1> QED BY <1>1, <1>2 DEF Supported

NextFile(x, y) ==
    x \in LogPos /\ EndOfFile(x) /\ x[1] < Len(MasterLog) /\ y = <<x[1] + 1, 0>>

(* The end of a file and the start of the next one are one place. *)
LEMMA NextFileOrder ==
    ASSUME NEW x, NEW y, NextFile(x, y)
    PROVE  /\ y \in LogPos
           /\ \A e \in LogPos : UpTo(e, x) => UpTo(e, y)
           /\ \A e \in Events : UpTo(e, y) => UpTo(e, x)
<1>1. x \in Nat \X Nat /\ y[1] = x[1] + 1 /\ y[2] = 0 /\ x[1] \in 1 .. Len(MasterLog)
      /\ x[2] = Len(MasterLog[x[1]]) /\ y \in Nat \X Nat
  BY PlacesArePairs DEF NextFile, EndOfFile
<1>2. Len(MasterLog) \in Nat /\ \A f \in 1 .. Len(MasterLog) : Len(MasterLog[f]) \in Nat
  BY RelayLogAssumption
<1>3. y[1] \in 1 .. Len(MasterLog)
  BY <1>1, <1>2 DEF NextFile
<1>4. y \in LogPos
  <2>1. 0 \in 0 .. Len(MasterLog[y[1]])
    BY <1>2, <1>3
  <2>2. <<y[1], 0>> \in LogPos
    BY <2>1, <1>3, PlacesArePairs
  <2> QED BY <2>2, <1>1 DEF NextFile
<1>5. \A e \in Nat \X Nat : UpTo(e, x) => UpTo(e, y)
  BY <1>1 DEF UpTo
<1>6. ASSUME NEW e \in Events, UpTo(e, y) PROVE UpTo(e, x)
  <2>1. e \in Nat \X Nat /\ e[2] > 0 /\ e[1] \in 1 .. Len(MasterLog) /\ e[2] \in 0 .. Len(MasterLog[e[1]])
    BY PlacesArePairs
  <2>2. e[1] < x[1] + 1
    BY <2>1, <1>1, <1>6 DEF UpTo
  <2>3. e[1] < x[1] \/ e[1] = x[1]
    BY <2>1, <2>2, <1>1
  <2>4. e[1] = x[1] => e[2] <= x[2]
    BY <2>1, <1>1, <1>2
  <2> QED BY <2>3, <2>4 DEF UpTo
<1> QED BY <1>4, <1>5, <1>6, PlacesArePairs

(* The I/O thread may go on in the next file. *)
LEMMA NextFileSupported ==
    ASSUME NEW P, NEW D, NEW x, NEW y, NEW c,
           PendingType(P), NextFile(x, y), Supported(P, D, x, c)
    PROVE  Supported(P, D, y, c)
<1>1. Covered(P, D, y, c)
  BY NextFileOrder, PlacesArePairs DEF Supported, Covered
<1>2. Anchored(P, y, c)
  <2> SUFFICES ASSUME NEW b \in DOMAIN P, Dangling(P, b, c) PROVE FALSE
    BY DEF Anchored
  <2>1. Inside(x, P[b].at)
    BY DEF Supported, Anchored
  <2>2. P[b].at \in Events /\ x \in LogPos /\ EndOfFile(x)
    BY DEF Dangling, PendingType, NextFile
  <2> QED BY <2>1, <2>2, EndIsOutside
<1> QED BY <1>1, <1>2 DEF Supported

(* What was read stays behind the I/O thread. *)
LEMMA ReadOnBounded ==
    ASSUME NEW P, NEW D, NEW x, NEW y, PendingType(P), D \subseteq LogPos,
           Successor(x, y) \/ NextFile(x, y), Bounded(P, D, x)
    PROVE  Bounded(P, D, y)
<1>1. \A e \in LogPos : UpTo(e, x) => UpTo(e, y)
  BY SuccessorOrder, NextFileOrder
<1> QED BY <1>1 DEF Bounded, PendingType

(* The relay log may end anywhere after what is pending. *)
LEMMA SupportedAbove ==
    ASSUME NEW P, NEW D, NEW x, NEW c, NEW h, Supported(P, D, x, c),
           \A z \in DOMAIN P : UpTo(z, c) /\ UpTo(z, h)
    PROVE  Supported(P, D, x, h)
<1>1. \A b \in DOMAIN P : Dangling(P, b, h) => Dangling(P, b, c)
  BY DEF Dangling
<1> QED BY <1>1 DEF Supported, Covered, Anchored

(* A transaction that is not complete at c is not at another end h. *)
LEMMA DanglingAbove ==
    ASSUME NEW P, NEW c, NEW h, \A z \in DOMAIN P : UpTo(z, c) /\ UpTo(z, h),
           NEW b \in DOMAIN P, Dangling(P, b, c)
    PROVE  Dangling(P, b, h)
BY DEF Dangling

-----------------------------------------------------------------------------
(* More is committed. *)

(* A commit keeps everything that is said of what is committed. *)
LEMMA MoreDone ==
    ASSUME NEW P, NEW D, NEW E, D \subseteq E
    PROVE  /\ NoGap(P, D) => NoGap(P, E)
           /\ \A x, c : Supported(P, D, x, c) => Supported(P, E, x, c)
           /\ \A x : Known(D, x) => Known(E, x)
BY DEF NoGap, Supported, Covered, Known

-----------------------------------------------------------------------------
(* A crash: what comes after c is lost, the relay log goes on at h. *)

(* Entries that a crash leaves were entries before it. *)
LEMMA CutParts ==
    ASSUME NEW P, NEW Q, NEW c, PendingType(P), CutOff(P, Q, c), c \in Nat \X Nat
    PROVE  /\ PendingType(Q)
           /\ \A D : NoGap(P, D) => NoGap(Q, D)
           /\ SameFile(P) => SameFile(Q)
           /\ \A f, p : InFile(P, f, p) => InFile(Q, f, p)
           /\ RotateInside(P) => RotateInside(Q)
<1>1. /\ \A z : z \in DOMAIN Q <=> z \in DOMAIN P /\ UpTo(z, c)
      /\ \A z \in DOMAIN Q : Q[z] = P[z]
      /\ \A z \in DOMAIN P : z \in Nat \X Nat
  BY DEF CutOff, PendingType
<1>2. \A w \in DOMAIN P, z \in DOMAIN Q : UpTo(w, z) => w \in DOMAIN Q
  BY <1>1, UpToOrder
<1>3. PendingType(Q)
  BY <1>1 DEF PendingType
<1>4. ASSUME NEW D, NoGap(P, D) PROVE NoGap(Q, D)
  <2> SUFFICES ASSUME NEW z \in DOMAIN Q, NEW e \in Effects, UpTo(e, Q[z].at)
               PROVE  e \in D \/ \E w \in DOMAIN Q : UpTo(w, z) /\ Q[w].k = "query" /\ Q[w].at = e
    BY DEF NoGap
  <2>1. e \in D \/ \E w \in DOMAIN P : UpTo(w, z) /\ P[w].k = "query" /\ P[w].at = e
    BY <1>1, <1>4 DEF NoGap
  <2> QED BY <2>1, <1>1, <1>2
<1>5. ASSUME SameFile(P) PROVE SameFile(Q)
  <2> SUFFICES ASSUME NEW u \in DOMAIN Q, NEW z \in DOMAIN Q, UpTo(u, z),
                      \A w \in DOMAIN Q : ~UpTo(w, u) /\ UpTo(w, z) => Q[w].k # "rotate"
               PROVE  Q[u].at[1] = Q[z].at[1]
    BY DEF SameFile
  <2>1. \A w \in DOMAIN P : ~UpTo(w, u) /\ UpTo(w, z) => P[w].k # "rotate"
    BY <1>1, <1>2
  <2>2. P[u].at[1] = P[z].at[1]
    BY <2>1, <1>1, <1>5 DEF SameFile
  <2> QED BY <2>2, <1>1
<1>6. ASSUME NEW f, NEW p, InFile(P, f, p) PROVE InFile(Q, f, p)
  <2> SUFFICES ASSUME NEW z \in DOMAIN Q, ~UpTo(z, p),
                      \A w \in DOMAIN Q : ~UpTo(w, p) /\ UpTo(w, z) => Q[w].k # "rotate"
               PROVE  Q[z].at[1] = f
    BY DEF InFile
  <2>1. \A w \in DOMAIN P : ~UpTo(w, p) /\ UpTo(w, z) => P[w].k # "rotate"
    BY <1>1, <1>2
  <2> QED BY <2>1, <1>1, <1>6 DEF InFile
<1>7. ASSUME RotateInside(P) PROVE RotateInside(Q)
  <2> SUFFICES ASSUME NEW r \in DOMAIN Q, NEW b \in DOMAIN Q,
                      Q[r].k = "rotate", Q[b].k = "begin", UpTo(b, r),
                      \A w \in DOMAIN Q : Q[w].k = "commit" /\ UpTo(w, r) => UpTo(w, b)
               PROVE  Q[r].at[1] = Q[b].at[1]
    BY DEF RotateInside
  <2>1. \A w \in DOMAIN P : P[w].k = "commit" /\ UpTo(w, r) => UpTo(w, b)
    BY <1>1, <1>2
  <2>2. P[r].at[1] = P[b].at[1]
    BY <2>1, <1>1, <1>7 DEF RotateInside
  <2> QED BY <2>2, <1>1
<1> QED BY <1>3, <1>4, <1>5, <1>6, <1>7

(* After a crash the I/O thread goes on from master.info. *)
LEMMA CutSupported ==
    ASSUME NEW P, NEW Q, NEW c, NEW D, NEW x, NEW h,
           CutOff(P, Q, c), Supported(P, D, x, c), \A z \in DOMAIN Q : UpTo(z, h)
    PROVE  Supported(Q, D, x, h)
<1>1. /\ \A z : z \in DOMAIN Q <=> z \in DOMAIN P /\ UpTo(z, c)
      /\ \A z \in DOMAIN Q : Q[z] = P[z]
  BY DEF CutOff
<1>2. Covered(Q, D, x, h)
  BY <1>1 DEF Supported, Covered
<1>3. Anchored(Q, x, h)
  <2> SUFFICES ASSUME NEW b \in DOMAIN Q, Dangling(Q, b, h) PROVE Inside(x, Q[b].at)
    BY DEF Anchored
  <2>1. Dangling(P, b, c) /\ b \in DOMAIN P /\ P[b] = Q[b]
    BY <1>1 DEF Dangling
  <2> QED BY <2>1 DEF Supported, Anchored
<1> QED BY <1>2, <1>3 DEF Supported

-----------------------------------------------------------------------------
(* The group's coordinates move to g; the queries up to there are committed. *)

Gone(P, D, g) == \A w \in DOMAIN P : UpTo(w, g) /\ P[w].k = "query" => P[w].at \in D

(* What is left of the pending entries is what comes after g. *)
LEMMA DroppedBy ==
    ASSUME NEW P, NEW Q, NEW g, PendingType(P), Dropped(P, Q, g), g \in Nat \X Nat
    PROVE  /\ \A z : z \in DOMAIN Q <=> z \in DOMAIN P /\ ~UpTo(z, g)
           /\ \A z \in DOMAIN Q : Q[z] = P[z] /\ z \in DOMAIN P
           /\ \A z \in DOMAIN P : z \in Nat \X Nat
           /\ \A w \in DOMAIN P, z \in DOMAIN Q : ~UpTo(w, z) => w \in DOMAIN Q
           /\ \A w \in DOMAIN P, z \in DOMAIN Q : w \notin DOMAIN Q => UpTo(w, z)
<1>1. /\ \A z : z \in DOMAIN Q <=> z \in DOMAIN P /\ ~UpTo(z, g)
      /\ \A z \in DOMAIN Q : Q[z] = P[z]
      /\ \A z \in DOMAIN P : z \in Nat \X Nat
  BY DEF Dropped, PendingType
<1>2. \A w \in DOMAIN P, z \in DOMAIN Q : w \notin DOMAIN Q => UpTo(w, z)
  BY <1>1, UpToOrder
<1> QED BY <1>1, <1>2

(* No gap opens when what is dropped is committed. *)
LEMMA DropSupported ==
    ASSUME NEW P, NEW Q, NEW g, PendingType(P), Dropped(P, Q, g), g \in Nat \X Nat,
           NEW D, Gone(P, D, g)
    PROVE  /\ NoGap(P, D) => NoGap(Q, D)
           /\ \A x, c : Supported(P, D, x, c) => Supported(Q, D, x, c)
<1>1. /\ \A z : z \in DOMAIN Q <=> z \in DOMAIN P /\ ~UpTo(z, g)
      /\ \A z \in DOMAIN Q : Q[z] = P[z] /\ z \in DOMAIN P
      /\ \A w \in DOMAIN P, z \in DOMAIN Q : w \notin DOMAIN Q => UpTo(w, z)
  BY DroppedBy
<1>2. \A w \in DOMAIN P : P[w].k = "query" => P[w].at \in D \/ w \in DOMAIN Q
  BY <1>1 DEF Gone
<1>3. ASSUME NoGap(P, D) PROVE NoGap(Q, D)
  <2> SUFFICES ASSUME NEW z \in DOMAIN Q, NEW e \in Effects, UpTo(e, Q[z].at)
               PROVE  e \in D \/ \E w \in DOMAIN Q : UpTo(w, z) /\ Q[w].k = "query" /\ Q[w].at = e
    BY DEF NoGap
  <2>1. e \in D \/ \E w \in DOMAIN P : UpTo(w, z) /\ P[w].k = "query" /\ P[w].at = e
    BY <1>1, <1>3 DEF NoGap
  <2> QED BY <2>1, <1>1, <1>2
<1>4. ASSUME NEW x, NEW c, Supported(P, D, x, c) PROVE Supported(Q, D, x, c)
  <2>1. Covered(Q, D, x, c)
    <3> SUFFICES ASSUME NEW e \in Effects, UpTo(e, x)
                 PROVE  e \in D \/ \E w \in DOMAIN Q : UpTo(w, c) /\ Q[w].k = "query" /\ Q[w].at = e
      BY DEF Covered
    <3>1. e \in D \/ \E w \in DOMAIN P : UpTo(w, c) /\ P[w].k = "query" /\ P[w].at = e
      BY <1>4 DEF Supported, Covered
    <3> QED BY <3>1, <1>1, <1>2
  <2>2. Anchored(Q, x, c)
    <3> SUFFICES ASSUME NEW b \in DOMAIN Q, Dangling(Q, b, c) PROVE Inside(x, Q[b].at)
      BY DEF Anchored
    <3>1. Dangling(P, b, c) /\ b \in DOMAIN P /\ P[b] = Q[b]
      BY <1>1 DEF Dangling
    <3> QED BY <3>1, <1>4 DEF Supported, Anchored
  <2> QED BY <2>1, <2>2 DEF Supported
<1> QED BY <1>3, <1>4

(* The files of the master's log stay those of the entries left. *)
LEMMA DropFiles ==
    ASSUME NEW P, NEW Q, NEW g, PendingType(P), Dropped(P, Q, g), g \in Nat \X Nat
    PROVE  /\ SameFile(P) => SameFile(Q)
           /\ \A f : InFile(P, f, g) => InFile(Q, f, g)
           /\ \A f : EndsIn(P, f) => EndsIn(Q, f)
           /\ \A h, f : GoesOn(P, h, f, g) => GoesOn(Q, h, f, g)
           /\ RotateInside(P) => RotateInside(Q)
<1>1. /\ \A z : z \in DOMAIN Q <=> z \in DOMAIN P /\ ~UpTo(z, g)
      /\ \A z \in DOMAIN Q : Q[z] = P[z] /\ z \in DOMAIN P
      /\ \A w \in DOMAIN P, z \in DOMAIN Q : ~UpTo(w, z) => w \in DOMAIN Q
      /\ \A w \in DOMAIN P, z \in DOMAIN Q : w \notin DOMAIN Q => UpTo(w, z)
  BY DroppedBy
<1>2. ASSUME SameFile(P) PROVE SameFile(Q)
  <2> SUFFICES ASSUME NEW u \in DOMAIN Q, NEW z \in DOMAIN Q, UpTo(u, z),
                      \A w \in DOMAIN Q : ~UpTo(w, u) /\ UpTo(w, z) => Q[w].k # "rotate"
               PROVE  Q[u].at[1] = Q[z].at[1]
    BY DEF SameFile
  <2>1. \A w \in DOMAIN P : ~UpTo(w, u) /\ UpTo(w, z) => P[w].k # "rotate"
    BY <1>1
  <2>2. P[u].at[1] = P[z].at[1]
    BY <2>1, <1>1, <1>2 DEF SameFile
  <2> QED BY <2>2, <1>1
<1>3. ASSUME NEW f, InFile(P, f, g) PROVE InFile(Q, f, g)
  BY <1>1, <1>3 DEF InFile
<1>4. ASSUME NEW f, EndsIn(P, f) PROVE EndsIn(Q, f)
  BY <1>1, <1>4 DEF EndsIn
<1>5. ASSUME NEW h, NEW f, GoesOn(P, h, f, g) PROVE GoesOn(Q, h, f, g)
  BY <1>1, <1>5 DEF GoesOn
<1>6. ASSUME RotateInside(P) PROVE RotateInside(Q)
  <2> SUFFICES ASSUME NEW r \in DOMAIN Q, NEW b \in DOMAIN Q,
                      Q[r].k = "rotate", Q[b].k = "begin", UpTo(b, r),
                      \A w \in DOMAIN Q : Q[w].k = "commit" /\ UpTo(w, r) => UpTo(w, b)
               PROVE  Q[r].at[1] = Q[b].at[1]
    BY DEF RotateInside
  <2>1. \A w \in DOMAIN P : P[w].k = "commit" /\ UpTo(w, r) => UpTo(w, b)
    BY <1>1
  <2>2. P[r].at[1] = P[b].at[1]
    BY <2>1, <1>1, <1>6 DEF RotateInside
  <2> QED BY <2>2, <1>1
<1> QED BY <1>2, <1>3, <1>4, <1>5, <1>6

(* So do order, separation and bounds. *)
LEMMA DropOrdered ==
    ASSUME NEW P, NEW Q, NEW g, PendingType(P), Dropped(P, Q, g), g \in Nat \X Nat
    PROVE  /\ PendingType(Q)
           /\ Ordered(P) => Ordered(Q)
           /\ Separate(P) => Separate(Q)
           /\ \A D, x : Bounded(P, D, x) => Bounded(Q, D, x)
           /\ \A D, p : NotYet(P, D, p) => NotYet(Q, D, p)
           /\ \A b, c : b \in DOMAIN Q /\ Dangling(P, b, c) => Dangling(Q, b, c)
<1>1. /\ \A z : z \in DOMAIN Q <=> z \in DOMAIN P /\ ~UpTo(z, g)
      /\ \A z \in DOMAIN Q : Q[z] = P[z] /\ z \in DOMAIN P
      /\ \A w \in DOMAIN P, z \in DOMAIN Q : ~UpTo(w, z) => w \in DOMAIN Q
  BY DroppedBy
<1>2. PendingType(Q)
  BY <1>1 DEF PendingType
<1>3. ASSUME Ordered(P) PROVE Ordered(Q)
  BY <1>1, <1>3 DEF Ordered
<1>4. ASSUME Separate(P) PROVE Separate(Q)
  <2> SUFFICES ASSUME NEW b \in DOMAIN Q, NEW z \in DOMAIN Q,
                      Q[b].k = "begin", Q[z].k = "begin", ~UpTo(z, b)
               PROVE  \E w \in DOMAIN Q : ~UpTo(w, b) /\ UpTo(w, z) /\ Q[w].k = "commit"
    BY DEF Separate
  <2>1. PICK w \in DOMAIN P : ~UpTo(w, b) /\ UpTo(w, z) /\ P[w].k = "commit"
    BY <1>1, <1>4 DEF Separate
  <2> QED BY <2>1, <1>1
<1>5. \A D, x : Bounded(P, D, x) => Bounded(Q, D, x)
  BY <1>1 DEF Bounded
<1>6. \A D, p : NotYet(P, D, p) => NotYet(Q, D, p)
  BY <1>1 DEF NotYet
<1>7. \A b, c : b \in DOMAIN Q /\ Dangling(P, b, c) => Dangling(Q, b, c)
  BY <1>1 DEF Dangling
<1> QED BY <1>2, <1>3, <1>4, <1>5, <1>6, <1>7

-----------------------------------------------------------------------------
(* The event's coordinates move from p to q, over at most one entry. *)

Step(P, p, q) == \A z \in DOMAIN P : UpTo(z, q) <=> UpTo(z, p) \/ z = q

(* A step over an entry that is not a Rotate stays in the file. *)
LEMMA StepFiles ==
    ASSUME NEW P, NEW p, NEW q, Step(P, p, q), q \in DOMAIN P => P[q].k # "rotate"
    PROVE  /\ \A f : InFile(P, f, p) => InFile(P, f, q)
           /\ \A h, f : GoesOn(P, h, f, p) => GoesOn(P, h, f, q)
<1>1. ASSUME NEW f, InFile(P, f, p) PROVE InFile(P, f, q)
  <2> SUFFICES ASSUME NEW z \in DOMAIN P, ~UpTo(z, q),
                      \A w \in DOMAIN P : ~UpTo(w, q) /\ UpTo(w, z) => P[w].k # "rotate"
               PROVE  P[z].at[1] = f
    BY DEF InFile
  <2>1. ~UpTo(z, p) /\ \A w \in DOMAIN P : ~UpTo(w, p) /\ UpTo(w, z) => P[w].k # "rotate"
    BY DEF Step
  <2> QED BY <2>1, <1>1 DEF InFile
<1>2. ASSUME NEW h, NEW f, GoesOn(P, h, f, p) PROVE GoesOn(P, h, f, q)
  BY <1>2 DEF GoesOn, Step
<1> QED BY <1>1, <1>2

(* After a Rotate, its file is the one that counts. *)
LEMMA StepRotate ==
    ASSUME NEW P, NEW q \in DOMAIN P, PendingType(P), P[q].k = "rotate"
    PROVE  /\ SameFile(P) => InFile(P, P[q].at[1], q)
           /\ \A f : EndsIn(P, f) => GoesOn(P, P[q].at[1], f, q)
<1>1. ASSUME SameFile(P) PROVE InFile(P, P[q].at[1], q)
  <2> SUFFICES ASSUME NEW z \in DOMAIN P, ~UpTo(z, q),
                      \A w \in DOMAIN P : ~UpTo(w, q) /\ UpTo(w, z) => P[w].k # "rotate"
               PROVE  P[z].at[1] = P[q].at[1]
    BY DEF InFile
  <2>1. UpTo(q, z)
    BY UpToOrder DEF PendingType
  <2> QED BY <2>1, <1>1 DEF SameFile
<1>2. \A f : EndsIn(P, f) => GoesOn(P, P[q].at[1], f, q)
  BY DEF EndsIn, GoesOn
<1> QED BY <1>1, <1>2

(* The entry stepped onto is in the file of the coordinates. *)
LEMMA StepOnto ==
    ASSUME NEW P, NEW p, NEW q \in DOMAIN P, Step(P, p, q), ~UpTo(q, p),
           P[q].k # "rotate", NEW f, InFile(P, f, p)
    PROVE  P[q].at[1] = f
<1>1. \A w \in DOMAIN P : ~UpTo(w, p) /\ UpTo(w, q) => P[w].k # "rotate"
  BY DEF Step
<1> QED BY <1>1 DEF InFile

(* The coordinates of a place with the same entries after it. *)
LEMMA SameStep ==
    ASSUME NEW P, NEW p, NEW q, \A z \in DOMAIN P : UpTo(z, q) <=> UpTo(z, p)
    PROVE  /\ \A f : InFile(P, f, p) => InFile(P, f, q)
           /\ \A h, f : GoesOn(P, h, f, p) => GoesOn(P, h, f, q)
           /\ \A D : NotYet(P, D, p) => NotYet(P, D, q)
BY DEF InFile, GoesOn, NotYet

-----------------------------------------------------------------------------
(* What is pending, what is committed, and the end of the relay log *)

Pending == PendingOf(log, rli.group)
Done == {db[i] : i \in 1 .. Len(db)}
End == EndOf(log)
Cuts == CutsOf(log)

-----------------------------------------------------------------------------
(* The invariant *)

Reading == sql.pc \in {"next", "wait", "purged", "committed"}

Coordinates ==
    /\ rli \in [event : Nat \X Nat, group : Nat \X Nat, master : LogPos, hot : Nat]
    /\ info = [group |-> rli.group, master |-> rli.master]
    /\ rli.event[1] \in 1 .. Active /\ rli.group[1] \in 1 .. Active /\ rli.hot <= Active
    /\ UpTo(rli.group, End)
    /\ sql.pc \notin {"purged", "broken"} => rli.group[1] >= log.first
    /\ Reading =>
         /\ UpTo(rli.group, rli.event) /\ UpTo(rli.event, End)
         /\ rli.hot = 0 => rli.event[1] < Active
         /\ rli.hot # 0 => rli.hot = rli.event[1]
    /\ sql.pc \in {"next", "wait", "purged"} /\ ~sql.begin /\ rli.event[2] > 0 =>
         rli.group[1] = rli.event[1]
    /\ sql.pc = "wait" => ReadsHot /\ AtEof /\ ign = None
    /\ sql.pc = "purged" =>
         /\ rli.event[1] < Active
         /\ log.first = IF Included THEN rli.group[1] + 1 ELSE rli.group[1]
         /\ \A z \in DOMAIN Pending : ~UpTo(z, rli.event) => z[1] > rli.event[1]

(* the I/O thread has a dump whose Rotate is in the relay log *)
Linked == io.pc \in {"flush", "info", "space", "wait"} \/ (io.pc = "read" /\ ~io.fresh)

Io ==
    /\ mi \in LogPos /\ minfo \in LogPos
    /\ io \in [pc : {"stopped", "read", "rotated", "flush", "info", "space", "wait",
                     "dying", "trace", "died", "last_info", "broken"},
               fresh : BOOLEAN]
    /\ io.fresh => io.pc = "read"
    /\ io.pc \notin {"rotated", "flush", "info"} => minfo = mi
    /\ io.pc \in {"info", "last_info"} =>
         \A z \in DOMAIN Pending : UpTo(z, <<Active, log.flushed>>)
    /\ ign # None => ign \in LogPos /\ UpTo(ign, mi) /\ (io.pc # "rotated" => ign = mi)
    /\ io.pc = "broken" => sql.pc = "broken"
    /\ ignore_log_space_limit \in BOOLEAN
    /\ faults \in [n : Nat, crash : BOOLEAN, kept : BOOLEAN]

Relayed ==
    /\ PendingType(Pending)
    /\ NoGap(Pending, Done)
    /\ Supported(Pending, Done, mi, End)
    /\ \A c \in Cuts : Supported(Pending, Done, minfo, c)
    /\ SameFile(Pending)
    /\ InFile(Pending, rli.master[1], rli.group)
    /\ Linked => EndsIn(Pending, mi[1]) /\ GoesOn(Pending, rli.master[1], mi[1], rli.group)
    /\ RotateInside(Pending)
    /\ Known(Done, rli.master)

(* where the SQL thread is, between the group's coordinates and the event's *)
Executed ==
    /\ sql \in [pc : {"stopped", "next", "committed", "purged", "wait", "broken"},
                begin : BOOLEAN, work : Seq(Effects), intvar : BOOLEAN, tries : Nat]
    /\ \A i \in 1 .. Len(sql.work) : \A e \in Effects : UpTo(e, sql.work[i]) /\ e # sql.work[i]
         => e \in Done \/ \E j \in 1 .. i - 1 : sql.work[j] = e
    /\ Reading =>
         /\ InFile(Pending, rli.master[1], rli.event)
         /\ Linked => GoesOn(Pending, rli.master[1], mi[1], rli.event)
         /\ \A w \in DOMAIN Pending : UpTo(w, rli.event) =>
              /\ Pending[w].k # "commit"
              /\ Pending[w].k = "query" =>
                   Pending[w].at \in Done \/ \E i \in 1 .. Len(sql.work) : sql.work[i] = Pending[w].at
    /\ ~sql.begin => sql.work = << >>
    /\ sql.pc \in {"next", "wait", "purged"} =>
         IF sql.begin
           THEN Opened(Pending, rli.master[1])
           ELSE \A w \in DOMAIN Pending : UpTo(w, rli.event) => Pending[w].k = "intvar"
    /\ sql.pc = "committed" =>
         /\ ~sql.begin
         /\ Future \in DOMAIN Pending /\ Pending[Future].k \in {"commit", "query"}
         /\ Pending[Future].k = "query" =>
              /\ Pending[Future].at \in Done
              /\ \A w \in DOMAIN Pending : UpTo(w, rli.event) => Pending[w].k = "intvar"

InOrder ==
    /\ db \in Seq(Effects)
    /\ \A i \in 1 .. Len(db) : \A e \in Effects :
         UpTo(e, db[i]) /\ e # db[i] => \E j \in 1 .. i - 1 : db[j] = e

(* what is committed: in the relay log, in the master's log *)
Mark == IF sql.pc = "committed" THEN Future ELSE rli.group
Reached == IF sql.pc = "committed" THEN Pending[Future].at ELSE rli.master

WorkOnce == Reading => WorkIn(Pending, sql.work, rli.event)

CommittedOnce == \A i, j \in 1 .. Len(db) : db[i] = db[j] => i = j

Once ==
    ~faults.crash /\ ~faults.kept =>
    /\ Ordered(Pending) /\ Separate(Pending)
    /\ Bounded(Pending, Done, mi)
    /\ ign # None => Bounded(Pending, Done, ign)
    /\ NotYet(Pending, Done, Mark)
    /\ \A d \in Done : UpTo(d, Reached)
    /\ WorkOnce /\ CommittedOnce

(* the last thing that was read from the master can be found *)
Settled == io.pc \notin {"trace", "rotated", "broken"} /\ (faults.crash => io.pc # "stopped" /\ ~io.fresh)

Latest ==
    Settled /\ ign = None =>
      \/ DOMAIN Pending = {} /\ (rli.master = mi \/ (mi \in Events /\ KindOf(mi) = "intvar"))
      \/ \E u \in DOMAIN Pending : (\A w \in DOMAIN Pending : UpTo(w, u)) /\ Pending[u].at = mi
      \/ \E b \in DOMAIN Pending : Dangling(Pending, b, End)

RelayInv ==
    /\ GoodLog(log) /\ Coordinates /\ Io /\ Relayed /\ Executed /\ InOrder /\ Once /\ Latest

-----------------------------------------------------------------------------
(* What is pending, and what is committed. *)

(* Pending entries are between the group's coordinates and the end. *)
LEMMA PendingFacts ==
    ASSUME GoodLog(log)
    PROVE  /\ End \in Nat \X Nat /\ End \in Cuts /\ \A c \in Cuts : c \in Nat \X Nat
           /\ \A z \in DOMAIN Pending :
                /\ z \in EntriesOf(log) /\ Pending[z] = EntryAt(log, z)
                /\ z \in Nat \X Nat /\ UpTo(z, End) /\ ~UpTo(z, rli.group)
                /\ z[1] \in 1 .. Active /\ z[2] >= 1 /\ z[2] <= Len(log.files[z[1]])
<1>1. log.files \in Seq(Seq(Record))
  BY DEF GoodLog
<1>2. End \in Nat \X Nat /\ End \in Cuts /\ \A c \in Cuts : c \in Nat \X Nat
  BY EndIsLast DEF End, Cuts
<1> SUFFICES ASSUME NEW z \in DOMAIN Pending
             PROVE  /\ z \in EntriesOf(log) /\ Pending[z] = EntryAt(log, z)
                    /\ z \in Nat \X Nat /\ UpTo(z, End) /\ ~UpTo(z, rli.group)
                    /\ z[1] \in 1 .. Active /\ z[2] >= 1 /\ z[2] <= Len(log.files[z[1]])
  BY <1>2
<1>3. z \in EntriesOf(log) /\ Pending[z] = EntryAt(log, z) /\ ~UpTo(z, rli.group)
  BY PendingIs DEF Pending
<1>4. z \in Nat \X Nat /\ z[1] \in 1 .. Active /\ z[2] \in 1 .. Len(log.files[z[1]])
  BY <1>1, <1>3, EntriesArePairs DEF Active
<1>5. UpTo(z, End)
  BY <1>3, EndIsLast DEF End
<1> QED BY <1>3, <1>4, <1>5

(* What is committed are places of the master's log. *)
LEMMA DoneFacts ==
    ASSUME db \in Seq(Effects)
    PROVE  Done \subseteq Effects /\ Done \subseteq LogPos
<1>1. Done \subseteq Effects
  BY DEF Done
<1> QED BY <1>1, PlacesArePairs

-----------------------------------------------------------------------------
(* The state a slave starts from: one relay log file, nothing pending. *)
LEMMA InitRelayInv ==
    ASSUME Init PROVE RelayInv
<1>1. <<1, 0>> \in LogPos /\ <<1, 0>> \in Nat \X Nat
  BY PlacesArePairs, RelayLogAssumption
<1>2. Self \in Record
  BY SelfIsRecord
<1>3. /\ log.files = <<<<Self>>>> /\ log.first = 1 /\ log.flushed = 1
      /\ log \in [files : Seq(Seq(Record)), first : Nat, flushed : Nat]
  <2>1. <<Self>> \in Seq(Record)
    BY <1>2
  <2> DEFINE F == <<<<Self>>>>
  <2>2. F \in Seq(Seq(Record))
    BY <2>1
  <2>3. log = [files |-> F, first |-> 1, flushed |-> 1]
    BY DEF Init
  <2> HIDE DEF F
  <2>4. log \in [files : Seq(Seq(Record)), first : Nat, flushed : Nat]
    BY <2>2, <2>3, LogRecord
  <2>5. log.files = F /\ log.first = 1 /\ log.flushed = 1
    BY <2>3
  <2> QED BY <2>4, <2>5 DEF F
<1>4. Len(log.files) = 1 /\ log.files[1] = <<Self>> /\ Len(log.files[1]) = 1 /\ log.files[1][1] = Self
  BY <1>3
<1>5. GoodLog(log)
  <2>1. \A f \in 1 .. 1 : f = 1
    OBVIOUS
  <2> QED BY <2>1, <1>3, <1>4 DEF GoodLog
<1>6. Active = 1 /\ End = <<1, 1>>
  BY <1>4 DEF Active, End, EndOf
<1>7. DOMAIN Pending = {}
  <2> SUFFICES ASSUME NEW z \in DOMAIN Pending PROVE FALSE
    OBVIOUS
  <2>1. z \in EntriesOf(log) /\ EntryAt(log, z).k # "self"
    BY PendingIs DEF Pending
  <2>2. z \in Nat \X Nat /\ z[1] \in 1 .. 1 /\ z[2] \in 1 .. Len(log.files[z[1]])
    BY <2>1, <1>3, <1>4, EntriesArePairs
  <2>3. z[1] = 1
    BY <2>2
  <2>4. z[2] = 1
    BY <2>2, <2>3, <1>4
  <2>5. EntryAt(log, z) = Self
    BY <2>3, <2>4, <1>4 DEF EntryAt
  <2> QED BY <2>1, <2>5, SelfIsRecord
<1>8. db = << >> /\ Done = {} /\ db \in Seq(Effects) /\ Len(db) = 0
  BY DEF Init, Done
<1>9. \A e \in Effects : ~UpTo(e, <<1, 0>>)
  BY PlacesArePairs DEF UpTo
<1>10. Coordinates
  BY <1>1, <1>3, <1>6 DEF Init, Coordinates, Reading, SqlStopped, UpTo
<1>11. Io
  BY <1>1 DEF Init, Io, IoStopped
<1>12. Relayed
  BY <1>7, <1>9 DEF Init, Relayed, PendingType, NoGap, Supported, Covered, Anchored, SameFile,
                    InFile, RotateInside, Known, Linked, IoStopped
<1>13. Executed
  BY <1>7 DEF Init, Executed, SqlStopped, Reading
<1>14. InOrder
  BY <1>8 DEF InOrder
<1>15. Once
  BY <1>7, <1>8 DEF Init, Once, Ordered, Separate, Bounded, NotYet, SqlStopped, Reading,
                    WorkOnce, WorkIn, CommittedOnce
<1>16. Latest
  BY <1>7 DEF Init, Latest
<1> QED BY <1>5, <1>10, <1>11, <1>12, <1>13, <1>14, <1>15, <1>16 DEF RelayInv

-----------------------------------------------------------------------------
(* Steps of the I/O thread that leave the relay log and mi alone *)

IoMove ==
    /\ UNCHANGED <<mi, minfo, log, rli, info, sql, db>>
    /\ io' \in [pc : {"stopped", "read", "rotated", "flush", "info", "space", "wait",
                      "dying", "trace", "died", "last_info", "broken"},
                fresh : BOOLEAN]
    /\ io'.fresh => io'.pc = "read"
    /\ io'.pc \notin {"rotated", "info", "last_info", "broken"} /\ minfo = mi
    /\ ign' = None \/ (ign' = ign /\ io.pc # "rotated")
    /\ Linked' => Linked
    /\ Settled' /\ ign' = None => Settled /\ ign = None
    /\ ignore_log_space_limit' \in BOOLEAN
    /\ faults' \in [n : Nat, crash : BOOLEAN, kept : BOOLEAN] /\ faults'.crash = faults.crash /\ faults'.kept = faults.kept

(* They change nothing the invariant depends on. *)
LEMMA IoMoveInv ==
    ASSUME RelayInv, IoMove PROVE RelayInv'
<1>1. /\ Pending' = Pending /\ Done' = Done /\ End' = End /\ Cuts' = Cuts /\ Active' = Active
      /\ GoodLog(log)' /\ Reading' = Reading /\ Future' = Future
      /\ (ReadsHot <=> ReadsHot') /\ (AtEof <=> AtEof') /\ Included' = Included
  BY DEF IoMove, RelayInv, Pending, Done, End, Cuts, Active, Reading, Future, ReadsHot, AtEof, Included
<1>2. Coordinates'
  BY <1>1 DEF IoMove, RelayInv, Coordinates
<1>3. Io'
  BY <1>1 DEF IoMove, RelayInv, Io
<1>4. Relayed'
  BY <1>1 DEF IoMove, RelayInv, Relayed
<1>5. Executed'
  BY <1>1 DEF IoMove, RelayInv, Executed
<1>6. InOrder'
  BY <1>1 DEF IoMove, RelayInv, InOrder
<1>7. Once'
  BY <1>1 DEF IoMove, RelayInv, Once, Mark, Reached, WorkOnce, CommittedOnce
<1>8. Latest'
  BY <1>1 DEF IoMove, RelayInv, Latest
<1> QED BY <1>1, <1>2, <1>3, <1>4, <1>5, <1>6, <1>7, <1>8 DEF RelayInv

(* A fault that is not a crash counts, and leaves faults.crash alone. *)
LEMMA FaultFacts ==
    ASSUME Io, Fault
    PROVE  faults' \in [n : Nat, crash : BOOLEAN, kept : BOOLEAN] /\ faults'.crash = faults.crash /\ faults'.kept = faults.kept
<1>1. faults \in [n : Nat, crash : BOOLEAN, kept : BOOLEAN] /\ faults' = [faults EXCEPT !.n = faults.n + 1]
  BY DEF Io, Fault
<1>2. faults.n + 1 \in Nat
  BY <1>1
<1> QED BY <1>1, <1>2

(* RequestDump, ConnectionLost, WaitForRelayLogSpace, IoStop, TakeIgnored. *)
LEMMA IoMoves ==
    ASSUME RelayInv,
           RequestDump \/ ConnectionLost \/ WaitForRelayLogSpace \/ IoStop \/ TakeIgnored
    PROVE  RelayInv'
<1>1. Io
  BY DEF RelayInv
<1>2. CASE RequestDump
  <2>1. IoMove
    BY <1>1, <1>2 DEF RequestDump, Io, IoMove, Linked, Settled
  <2> QED BY <2>1, IoMoveInv
<1>3. CASE ConnectionLost
  <2>1. faults' \in [n : Nat, crash : BOOLEAN, kept : BOOLEAN] /\ faults'.crash = faults.crash /\ faults'.kept = faults.kept
    BY <1>1, <1>3, FaultFacts DEF ConnectionLost
  <2>2. IoMove
    BY <2>1, <1>1, <1>3 DEF ConnectionLost, Io, IoMove, Linked, Settled
  <2> QED BY <2>2, IoMoveInv
<1>4. CASE WaitForRelayLogSpace
  <2>1. IoMove
    BY <1>1, <1>4 DEF WaitForRelayLogSpace, Io, IoMove, Linked, Settled
  <2> QED BY <2>1, IoMoveInv
<1>5. CASE IoStop
  <2>1. faults' \in [n : Nat, crash : BOOLEAN, kept : BOOLEAN] /\ faults'.crash = faults.crash /\ faults'.kept = faults.kept
    BY <1>1, <1>5, FaultFacts DEF IoStop
  <2>2. IoMove
    BY <2>1, <1>1, <1>5 DEF IoStop, Io, IoMove, Linked, Settled
  <2> QED BY <2>2, IoMoveInv
<1>6. CASE TakeIgnored
  <2>1. IoMove
    BY <1>1, <1>6 DEF TakeIgnored, Io, IoMove, Linked, Settled
  <2> QED BY <2>1, IoMoveInv
<1> QED BY <1>2, <1>3, <1>4, <1>5, <1>6

(* flush_master_info, the relay log: no crash can lose entries now. *)
LEMMA FlushRelayLogCacheInv ==
    ASSUME RelayInv, FlushRelayLogCache PROVE RelayInv'
<1>1. /\ GoodLog(log)' /\ log'.files = log.files /\ log'.first = log.first
      /\ End' = End /\ Cuts' = {End} /\ <<Active', log'.flushed>> = End
      /\ Pending' = Pending
  BY Flushes, ZenonT(40) DEF RelayInv, FlushRelayLogCache, Active, End, Cuts, Pending
<1>2. /\ Done' = Done /\ Active' = Active /\ Reading' = Reading /\ Future' = Future
      /\ (ReadsHot <=> ReadsHot') /\ (AtEof <=> AtEof') /\ Included' = Included
  BY <1>1 DEF FlushRelayLogCache, Done, Active, Reading, Future, ReadsHot, AtEof, Included
<1>3. /\ End \in Cuts /\ \A z \in DOMAIN Pending : UpTo(z, End)
  BY PendingFacts DEF RelayInv
<1>4. /\ io' \in [pc : {"stopped", "read", "rotated", "flush", "info", "space", "wait",
                        "dying", "trace", "died", "last_info", "broken"}, fresh : BOOLEAN]
      /\ ~io'.fresh
      /\ (io.pc = "died" /\ io'.pc = "last_info") \/ (io.pc = "flush" /\ io'.pc = "info")
      /\ io'.fresh = io.fresh
  BY DEF RelayInv, Io, FlushRelayLogCache
<1>5. (Linked' => Linked) /\ (Settled' => Settled)
  BY <1>4 DEF Linked, Settled, FlushRelayLogCache
<1>6. Coordinates'
  BY <1>1, <1>2 DEF FlushRelayLogCache, RelayInv, Coordinates
<1>7. Io'
  BY <1>1, <1>2, <1>3, <1>4 DEF FlushRelayLogCache, RelayInv, Io
<1>8. Relayed'
  BY <1>1, <1>2, <1>3, <1>5 DEF FlushRelayLogCache, RelayInv, Relayed
<1>9. Executed'
  BY <1>1, <1>2, <1>5 DEF FlushRelayLogCache, RelayInv, Executed
<1>10. InOrder'
  BY <1>2 DEF FlushRelayLogCache, RelayInv, InOrder
<1>11. Once'
  BY <1>1, <1>2 DEF FlushRelayLogCache, RelayInv, Once, Mark, Reached, WorkOnce, CommittedOnce
<1>12. Latest'
  BY <1>1, <1>2, <1>5 DEF FlushRelayLogCache, RelayInv, Latest
<1> QED BY <1>1, <1>6, <1>7, <1>8, <1>9, <1>10, <1>11, <1>12 DEF RelayInv

(* flush_master_info, master.info: it may say what the relay log has. *)
LEMMA FlushMasterInfoInv ==
    ASSUME RelayInv, FlushMasterInfo PROVE RelayInv'
<1>1. /\ Pending' = Pending /\ Done' = Done /\ End' = End /\ Cuts' = Cuts /\ Active' = Active
      /\ GoodLog(log)' /\ Reading' = Reading /\ Future' = Future
      /\ (ReadsHot <=> ReadsHot') /\ (AtEof <=> AtEof') /\ Included' = Included
  BY DEF FlushMasterInfo, RelayInv, Pending, Done, End, Cuts, Active, Reading, Future,
         ReadsHot, AtEof, Included
<1>2. \A c \in Cuts : \A z \in DOMAIN Pending : UpTo(z, c) /\ UpTo(z, End)
  <2>1. \A z \in DOMAIN Pending : /\ z \in Nat \X Nat /\ UpTo(z, End)
                                  /\ UpTo(z, <<Active, log.flushed>>)
    BY PendingFacts DEF RelayInv, Io, FlushMasterInfo
  <2>2. /\ <<Active, log.flushed>> \in Nat \X Nat
        /\ \A c \in Cuts : c \in Nat \X Nat /\ UpTo(<<Active, log.flushed>>, c)
    BY EndIsLast DEF RelayInv, Active, Cuts
  <2> QED BY <2>1, <2>2, UpToOrder
<1>3. \A c \in Cuts : Supported(Pending, Done, mi, c)
  BY <1>2, SupportedAbove DEF RelayInv, Relayed
<1>4. /\ io' \in [pc : {"stopped", "read", "rotated", "flush", "info", "space", "wait",
                        "dying", "trace", "died", "last_info", "broken"}, fresh : BOOLEAN]
      /\ ~io'.fresh
      /\ (io.pc = "last_info" /\ io'.pc = "stopped") \/ (io.pc = "info" /\ io'.pc = "space")
      /\ io'.fresh = io.fresh
  BY DEF RelayInv, Io, FlushMasterInfo
<1>5. (Linked' => Linked) /\ (Settled' => Settled)
  BY <1>4 DEF Linked, Settled, FlushMasterInfo
<1>6. Coordinates'
  BY <1>1 DEF FlushMasterInfo, RelayInv, Coordinates
<1>7. Io'
  BY <1>1, <1>4 DEF FlushMasterInfo, RelayInv, Io
<1>8. Relayed'
  BY <1>1, <1>3, <1>5 DEF FlushMasterInfo, RelayInv, Relayed
<1>9. Executed'
  BY <1>1, <1>5 DEF FlushMasterInfo, RelayInv, Executed
<1>10. InOrder'
  BY <1>1 DEF FlushMasterInfo, RelayInv, InOrder
<1>11. Once'
  BY <1>1 DEF FlushMasterInfo, RelayInv, Once, Mark, Reached, WorkOnce, CommittedOnce
<1>12. Latest'
  BY <1>1, <1>5 DEF FlushMasterInfo, RelayInv, Latest
<1> QED BY <1>1, <1>6, <1>7, <1>8, <1>9, <1>10, <1>11, <1>12 DEF RelayInv

-----------------------------------------------------------------------------
(* The relay log grows: signal_update wakes the SQL thread, whose          *)
(* coordinates stay.                                                       *)

(* signal_update changes only where the SQL thread is. *)
LEMMA UpdatedFacts ==
    ASSUME Executed, Updated
    PROVE  /\ sql' \in [pc : {"stopped", "next", "committed", "purged", "wait", "broken"},
                        begin : BOOLEAN, work : Seq(Effects), intvar : BOOLEAN, tries : Nat]
           /\ sql'.begin = sql.begin /\ sql'.work = sql.work
           /\ sql'.pc # "wait"
           /\ sql'.pc = sql.pc \/ (sql.pc = "wait" /\ sql'.pc = "next")
<1>1. CASE sql.pc = "wait"
  <2>1. sql' = [sql EXCEPT !.pc = "next"]
    BY <1>1 DEF Updated
  <2> QED BY <2>1, <1>1 DEF Executed
<1>2. CASE sql.pc # "wait"
  <2>1. sql' = sql
    BY <1>2 DEF Updated
  <2> QED BY <2>1, <1>2 DEF Executed
<1> QED BY <1>1, <1>2

(* The coordinates stay good when the relay log grows. *)
LEMMA GrownCoordinates ==
    ASSUME RelayInv, GoodLog(log)', Updated, UNCHANGED <<rli, info>>,
           log'.first = log.first, Active' \in Nat, Active' >= Active,
           UpTo(End, End'),
           \A z \in DOMAIN Pending' : z \in DOMAIN Pending \/ z[1] = Active
    PROVE  Coordinates'
<1>1. /\ sql'.begin = sql.begin /\ sql'.pc # "wait"
      /\ sql'.pc = sql.pc \/ (sql.pc = "wait" /\ sql'.pc = "next")
  BY UpdatedFacts DEF RelayInv
<1>2. End \in Nat \X Nat /\ End' \in Nat \X Nat
  BY EndIsLast DEF RelayInv, End
<1>3. Active \in Nat
  BY DEF RelayInv, GoodLog, Active
<1>4. /\ rli \in [event : Nat \X Nat, group : Nat \X Nat, master : LogPos, hot : Nat]
      /\ UpTo(rli.group, End)
      /\ Reading => UpTo(rli.event, End)
  BY DEF RelayInv, Coordinates
<1>5. UpTo(rli.group, End') /\ (Reading => UpTo(rli.event, End'))
  BY <1>2, <1>4, UpToOrder
<1>6. Reading' = Reading
  BY <1>1 DEF Reading
<1>7. /\ rli'.event[1] \in 1 .. Active' /\ rli'.group[1] \in 1 .. Active' /\ rli'.hot <= Active'
      /\ (Reading => (rli'.hot = 0 => rli'.event[1] < Active') /\ (rli'.hot # 0 => rli'.hot = rli'.event[1]))
  BY <1>3 DEF RelayInv, Coordinates
<1>8. sql'.pc = "purged" =>
         /\ rli'.event[1] < Active'
         /\ log'.first = IF Included' THEN rli'.group[1] + 1 ELSE rli'.group[1]
         /\ \A z \in DOMAIN Pending' : ~UpTo(z, rli'.event) => z[1] > rli'.event[1]
  BY <1>1, <1>3, <1>7 DEF RelayInv, Coordinates, Included
<1>9. /\ rli' \in [event : Nat \X Nat, group : Nat \X Nat, master : LogPos, hot : Nat]
      /\ info' = [group |-> rli'.group, master |-> rli'.master]
      /\ sql'.pc \notin {"purged", "broken"} => rli'.group[1] >= log'.first
      /\ Reading' => UpTo(rli'.group, rli'.event)
      /\ sql'.pc \in {"next", "wait", "purged"} /\ ~sql'.begin /\ rli'.event[2] > 0 =>
           rli'.group[1] = rli'.event[1]
  BY <1>1, <1>6 DEF RelayInv, Coordinates
<1> QED BY <1>1, <1>5, <1>6, <1>7, <1>8, <1>9 DEF Coordinates

(* process_io_rotate and FLUSH LOGS *)
NewFileStep ==
    /\ log' = new_file(log) /\ Updated
    /\ UNCHANGED <<minfo, ign, rli, info, db, ignore_log_space_limit>>
    /\ \/ io' = io /\ mi' = mi /\ io.pc # "broken"
       \/ /\ io.pc = "read" /\ io' = [pc |-> "rotated", fresh |-> FALSE]
          /\ mi' = mi \/ NextFile(mi, mi')
    /\ faults' \in [n : Nat, crash : BOOLEAN, kept : BOOLEAN] /\ faults'.crash = faults.crash /\ faults'.kept = faults.kept

(* A rotation adds entries of the relay log itself only. *)
LEMMA NewFileInv ==
    ASSUME RelayInv, NewFileStep PROVE RelayInv'
<1>1. /\ GoodLog(log)' /\ log'.first = log.first /\ Active' = Active + 1
      /\ End' = <<Active + 1, 1>> /\ Cuts' = {End'} /\ Pending' = Pending
  BY NewFile DEF RelayInv, NewFileStep, Active, End, Cuts, Pending
<1>2. Active \in Nat /\ Active' \in Nat /\ Active' >= Active
  BY <1>1 DEF RelayInv, GoodLog, Active
<1>3. /\ End \in Nat \X Nat /\ End' \in Nat \X Nat /\ End \in Cuts
      /\ \A z \in DOMAIN Pending : z \in Nat \X Nat /\ UpTo(z, End)
  BY <1>1, <1>2, PendingFacts DEF RelayInv
<1>4. UpTo(End, End')
  <2>1. End[1] = Active
    BY DEF End, EndOf, Active
  <2> QED BY <2>1, <1>1, <1>2 DEF UpTo
<1>5. \A z \in DOMAIN Pending : UpTo(z, End) /\ UpTo(z, End')
  BY <1>3, <1>4, UpToOrder
<1>6. /\ sql' \in [pc : {"stopped", "next", "committed", "purged", "wait", "broken"},
                   begin : BOOLEAN, work : Seq(Effects), intvar : BOOLEAN, tries : Nat]
      /\ sql'.begin = sql.begin /\ sql'.work = sql.work
      /\ sql'.pc # "wait"
      /\ sql'.pc = sql.pc \/ (sql.pc = "wait" /\ sql'.pc = "next")
  BY UpdatedFacts DEF RelayInv, NewFileStep
<1>7. Reading' = Reading
  BY <1>6 DEF Reading
<1>8. Done' = Done /\ Done \subseteq LogPos /\ Future' = Future
  BY DoneFacts DEF RelayInv, InOrder, NewFileStep, Done, Future
<1>9. /\ Linked' => Linked /\ mi' = mi
      /\ Settled' => Settled /\ mi' = mi
  BY DEF NewFileStep, Linked, Settled
<1>10. /\ mi \in LogPos /\ mi' \in LogPos
       /\ \A e \in LogPos : UpTo(e, mi) => UpTo(e, mi')
       /\ Supported(Pending, Done, mi, End) => Supported(Pending, Done, mi', End)
       /\ Bounded(Pending, Done, mi) => Bounded(Pending, Done, mi')
  BY <1>8, NextFileOrder, NextFileSupported, ReadOnBounded DEF RelayInv, Io, Relayed, NewFileStep
<1>11. Coordinates'
  BY <1>1, <1>2, <1>4, GrownCoordinates DEF NewFileStep
<1>12. Io'
  <2>1. \A z \in DOMAIN Pending : UpTo(z, <<Active', log'.flushed>>)
    <3>1. <<Active', log'.flushed>> = End'
      BY <1>1, EndIsLast DEF Active, Cuts
    <3> QED BY <3>1, <1>5
  <2>2. ign' # None => ign' \in LogPos /\ UpTo(ign', mi') /\ (io'.pc # "rotated" => ign' = mi')
    BY <1>10 DEF RelayInv, Io, NewFileStep
  <2>3. io' \in [pc : {"stopped", "read", "rotated", "flush", "info", "space", "wait",
                       "dying", "trace", "died", "last_info", "broken"}, fresh : BOOLEAN]
    <3>1. CASE io' = io
      BY <3>1 DEF RelayInv, Io
    <3>2. CASE io' = [pc |-> "rotated", fresh |-> FALSE]
      BY <3>2
    <3> QED BY <3>1, <3>2 DEF NewFileStep
  <2> QED BY <2>1, <2>2, <2>3, <1>1, <1>10 DEF RelayInv, Io, NewFileStep
<1>13. Relayed'
  <2>1. Supported(Pending, Done, mi', End')
    BY <1>5, <1>10, SupportedAbove DEF RelayInv, Relayed
  <2>2. Supported(Pending, Done, minfo, End')
    BY <1>3, <1>5, SupportedAbove DEF RelayInv, Relayed
  <2> QED BY <2>1, <2>2, <1>1, <1>8, <1>9 DEF RelayInv, Relayed, NewFileStep
<1>14. Executed'
  BY <1>1, <1>6, <1>7, <1>8, <1>9 DEF RelayInv, Executed, NewFileStep
<1>15. InOrder'
  BY <1>8 DEF RelayInv, InOrder, NewFileStep
<1>16. Once'
  <2>1. rli' = rli /\ db' = db /\ ign' = ign /\ faults'.crash = faults.crash /\ faults'.kept = faults.kept
    BY DEF NewFileStep
  <2>2. Mark' = Mark /\ Reached' = Reached
    BY <2>1, <1>1, <1>6, <1>8 DEF Mark, Reached
  <2>3. CommittedOnce => CommittedOnce'
    BY <2>1 DEF CommittedOnce
  <2>4. WorkOnce => WorkOnce'
    <3>1. Pending' = Pending /\ sql'.work = sql.work /\ rli' = rli
      BY <2>1, <1>1, <1>6
    <3> QED BY <3>1, <1>7 DEF WorkOnce
  <2> QED BY <2>1, <2>2, <2>3, <2>4, <1>1, <1>8, <1>10 DEF RelayInv, Once
<1>17. Latest'
  <2>1. \A b \in DOMAIN Pending : Dangling(Pending, b, End) => Dangling(Pending, b, End')
    BY <1>5, DanglingAbove
  <2> QED BY <2>1, <1>1, <1>9 DEF RelayInv, Latest, NewFileStep
<1> QED BY <1>1, <1>11, <1>12, <1>13, <1>14, <1>15, <1>16, <1>17 DEF RelayInv

(* process_io_rotate and FLUSH LOGS. *)
LEMMA NewFiles ==
    ASSUME RelayInv, ProcessIoRotate \/ FlushLogs PROVE RelayInv'
<1>1. Io
  BY DEF RelayInv
<1>2. CASE ProcessIoRotate
  <2>1. io' = [pc |-> "rotated", fresh |-> FALSE]
    BY <1>1, <1>2 DEF ProcessIoRotate, Io
  <2>2. NewFileStep
    BY <2>1, <1>1, <1>2 DEF ProcessIoRotate, NewFileStep, NextFile, Io
  <2> QED BY <2>2, NewFileInv
<1>3. CASE FlushLogs
  <2>1. NewFileStep
    BY <1>1, <1>3, FaultFacts DEF FlushLogs, NewFileStep
  <2> QED BY <2>1, NewFileInv
<1> QED BY <1>2, <1>3

-----------------------------------------------------------------------------
(* queue_event *)

(* The next event of the master's log is the successor of mi. *)
LEMMA ReadNext ==
    ASSUME NEW x \in LogPos, ~EndOfFile(x), NEW y, y = <<x[1], x[2] + 1>>
    PROVE  Successor(x, y)
<1>1. x[1] \in 1 .. Len(MasterLog) /\ x[2] \in 0 .. Len(MasterLog[x[1]]) /\ x[2] # Len(MasterLog[x[1]])
  BY PlacesArePairs DEF EndOfFile
<1>2. Len(MasterLog[x[1]]) \in Nat
  BY <1>1, RelayLogAssumption
<1>3. x[2] + 1 \in 0 .. Len(MasterLog[x[1]]) /\ x[2] + 1 > 0
  BY <1>1, <1>2
<1>4. y \in LogPos
  BY <1>1, <1>3, PlacesArePairs
<1> QED BY <1>3, <1>4 DEF Successor, Events

(* queue_event of an event that this server has written. *)
LEMMA QueueIgnoredInv ==
    ASSUME RelayInv, QueueIgnored PROVE RelayInv'
<1>1. Successor(mi, mi') /\ KindOf(mi') = "own"
  BY ReadNext DEF RelayInv, Io, QueueIgnored
<1>2. mi' \in LogPos /\ mi'[1] = mi[1] /\ UpTo(mi', mi')
  BY <1>1, SuccessorOrder, PlacesArePairs, UpToOrder
<1>3. /\ Pending' = Pending /\ Done' = Done /\ End' = End /\ Cuts' = Cuts /\ Active' = Active
      /\ GoodLog(log)' /\ Future' = Future
  BY DEF QueueIgnored, RelayInv, Pending, Done, End, Cuts, Active, Future
<1>4. /\ sql' \in [pc : {"stopped", "next", "committed", "purged", "wait", "broken"},
                   begin : BOOLEAN, work : Seq(Effects), intvar : BOOLEAN, tries : Nat]
      /\ sql'.begin = sql.begin /\ sql'.work = sql.work
      /\ sql'.pc # "wait"
      /\ sql'.pc = sql.pc \/ (sql.pc = "wait" /\ sql'.pc = "next")
  BY UpdatedFacts DEF RelayInv, QueueIgnored
<1>5. Reading' = Reading
  BY <1>4 DEF Reading
<1>6. io.pc = "read" /\ Linked /\ io' = [pc |-> "flush", fresh |-> FALSE]
  BY DEF QueueIgnored, RelayInv, Io, Linked
<1>7. PendingType(Pending) /\ Done \subseteq LogPos
  BY DoneFacts DEF RelayInv, Relayed, InOrder
<1>8. Coordinates'
  <2>1. Active \in Nat /\ Active >= Active
    BY DEF RelayInv, GoodLog, Active
  <2>2. UpTo(End, End)
    BY PendingFacts, UpToOrder DEF RelayInv
  <2> QED BY <2>1, <2>2, <1>3, GrownCoordinates DEF QueueIgnored
<1>9. Io'
  BY <1>2, <1>6 DEF RelayInv, Io, QueueIgnored
<1>10. Relayed'
  <2>1. Supported(Pending, Done, mi', End)
    BY <1>1, <1>7, IgnoredSupported DEF RelayInv, Relayed
  <2> QED BY <2>1, <1>2, <1>3, <1>6 DEF RelayInv, Relayed, QueueIgnored
<1>11. Executed'
  BY <1>2, <1>3, <1>4, <1>5, <1>6 DEF RelayInv, Executed, QueueIgnored
<1>12. InOrder'
  BY <1>3 DEF RelayInv, InOrder, QueueIgnored
<1>13. Once'
  <2>1. rli' = rli /\ db' = db /\ ign' = mi' /\ faults' = faults
    BY DEF QueueIgnored
  <2>2. Mark' = Mark /\ Reached' = Reached
    BY <2>1, <1>3, <1>4 DEF Mark, Reached
  <2>3. CommittedOnce => CommittedOnce'
    BY <2>1 DEF CommittedOnce
  <2>4. WorkOnce => WorkOnce'
    <3>1. Pending' = Pending /\ sql'.work = sql.work /\ rli' = rli
      BY <2>1, <1>3, <1>4
    <3> QED BY <3>1, <1>5 DEF WorkOnce
  <2>5. Bounded(Pending, Done, mi) => Bounded(Pending, Done, mi')
    BY <1>1, <1>7, ReadOnBounded
  <2> QED BY <2>1, <2>2, <2>3, <2>4, <2>5, <1>3 DEF RelayInv, Once
<1>14. Latest'
  BY <1>2, NoneAssumption DEF QueueIgnored, Latest
<1> QED BY <1>3, <1>8, <1>9, <1>10, <1>11, <1>12, <1>13, <1>14 DEF RelayInv

(* an entry goes into the relay log *)
QueueStep(e) ==
    /\ Follows(mi, e, mi') /\ log' = appendv(log, e) /\ ign' = None /\ Updated
    /\ UNCHANGED <<minfo, rli, info, db, ignore_log_space_limit, faults>>
    /\ e.k # "rotate" => Linked /\ minfo = mi
    /\ \/ io' = [pc |-> "flush", fresh |-> FALSE]
       \/ io' = [pc |-> "died", fresh |-> FALSE] /\ minfo = mi'

(* The parts of a queued entry, in terms of Pending. *)
LEMMA QueueStepFacts ==
    ASSUME RelayInv, NEW e, QueueStep(e), NEW n, n = NextPlace(log)
    PROVE  /\ GoodLog(log)' /\ log'.first = log.first /\ Active' \in Nat /\ Active' >= Active
           /\ Extended(Pending, Pending', n, e)
           /\ UpTo(n, End') /\ ~UpTo(n, End) /\ UpTo(End, n) /\ n[1] = Active
           /\ UpTo(End, End') /\ End' \in Nat \X Nat
           /\ ~UpTo(n, rli.group) /\ (Reading => ~UpTo(n, rli.event))
           /\ \A c \in Cuts' : (c \in Cuts /\ ~UpTo(n, c)) \/ UpTo(n, c)
           /\ \A c \in Cuts' : c \in Nat \X Nat
<1>1. /\ e \in Sent /\ log' = appendv(log, e) /\ rli' = rli /\ GoodLog(log)
      /\ rli.group \in Nat \X Nat /\ UpTo(rli.group, EndOf(log))
  BY DEF QueueStep, Follows, RelayInv, Coordinates, End
<1>2. /\ GoodLog(log)'
      /\ log'.first = log.first /\ Len(log'.files) \in Nat /\ Len(log'.files) >= Len(log.files)
      /\ Extended(PendingOf(log, rli.group), PendingOf(log', rli.group), n, e)
      /\ UpTo(n, EndOf(log')) /\ ~UpTo(n, EndOf(log)) /\ UpTo(EndOf(log), n)
      /\ \A c \in CutsOf(log') : (c \in CutsOf(log) /\ ~UpTo(n, c)) \/ UpTo(n, c)
  BY <1>1, Appends
<1>3. Extended(Pending, Pending', n, e)
  BY <1>1, <1>2 DEF Pending
<1>4. n \in Nat \X Nat
  BY <1>3 DEF Extended
<1>5. End \in Nat \X Nat /\ End' \in Nat \X Nat /\ \A c \in Cuts' : c \in Nat \X Nat
  BY <1>1, <1>2, EndIsLast DEF End, Cuts
<1>6. UpTo(n, End') /\ ~UpTo(n, End) /\ UpTo(End, n)
      /\ \A c \in Cuts' : (c \in Cuts /\ ~UpTo(n, c)) \/ UpTo(n, c)
  BY <1>2 DEF End, Cuts
<1>7. UpTo(End, End')
  BY <1>4, <1>5, <1>6, UpToOrder
<1>8. /\ rli.event \in Nat \X Nat /\ UpTo(rli.group, End)
      /\ Reading => UpTo(rli.event, End)
  BY DEF RelayInv, Coordinates
<1>9. ~UpTo(n, rli.group) /\ (Reading => ~UpTo(n, rli.event))
  BY <1>1, <1>4, <1>5, <1>6, <1>8, UpToOrder
<1>10. n[1] = Active /\ Active' = Len(log'.files)
  BY DEF NextPlace, Active
<1> QED BY <1>2, <1>3, <1>5, <1>6, <1>7, <1>9, <1>10 DEF Active

(* queue_event of any other entry. *)
LEMMA QueueStepInv ==
    ASSUME RelayInv, NEW e, QueueStep(e) PROVE RelayInv'
<1> DEFINE n == NextPlace(log)
<1>0. n = NextPlace(log)
  OBVIOUS
<1> HIDE DEF n
<1>1. /\ GoodLog(log)' /\ log'.first = log.first /\ Active' \in Nat /\ Active' >= Active
      /\ Extended(Pending, Pending', n, e)
      /\ UpTo(n, End') /\ ~UpTo(n, End) /\ UpTo(End, n) /\ n[1] = Active
      /\ UpTo(End, End') /\ End' \in Nat \X Nat
      /\ ~UpTo(n, rli.group) /\ (Reading => ~UpTo(n, rli.event))
      /\ \A c \in Cuts' : (c \in Cuts /\ ~UpTo(n, c)) \/ UpTo(n, c)
      /\ \A c \in Cuts' : c \in Nat \X Nat
  BY <1>0, QueueStepFacts
<1>2. /\ Follows(mi, e, mi') /\ PendingType(Pending)
      /\ Extended(Pending, Pending', n, e)
      /\ rli' = rli /\ info' = info /\ minfo' = minfo /\ db' = db /\ faults' = faults
      /\ ign' = None
  BY <1>1 DEF QueueStep, RelayInv, Relayed
<1>3. /\ n \in DOMAIN Pending' /\ Pending'[n] = e /\ n \in Nat \X Nat
      /\ \A z \in DOMAIN Pending : /\ z \in DOMAIN Pending' /\ Pending'[z] = Pending[z]
                                   /\ UpTo(z, n) /\ ~UpTo(n, z)
      /\ \A z \in DOMAIN Pending' : z \in DOMAIN Pending \/ z = n
  BY <1>2, ExtendedBy
<1>4. /\ mi \in LogPos /\ mi' \in LogPos /\ e.at = mi' /\ mi[1] = mi'[1]
  BY <1>2, FollowsOrder
<1>5. /\ sql' \in [pc : {"stopped", "next", "committed", "purged", "wait", "broken"},
                   begin : BOOLEAN, work : Seq(Effects), intvar : BOOLEAN, tries : Nat]
      /\ sql'.begin = sql.begin /\ sql'.work = sql.work
      /\ sql'.pc # "wait"
      /\ sql'.pc = sql.pc \/ (sql.pc = "wait" /\ sql'.pc = "next")
  BY UpdatedFacts DEF RelayInv, QueueStep
<1>6. Reading' = Reading
  BY <1>5 DEF Reading
<1>7. Done' = Done /\ Done \subseteq LogPos /\ Future' = Future
  BY DoneFacts DEF RelayInv, InOrder, QueueStep, Done, Future
<1>8. /\ End \in Cuts /\ \A z \in DOMAIN Pending : UpTo(z, End)
  BY PendingFacts DEF RelayInv
<1>9. Coordinates'
  <2>1. \A z \in DOMAIN Pending' : z \in DOMAIN Pending \/ z[1] = Active
    BY <1>1, <1>3
  <2> QED BY <2>1, <1>1, <1>2, GrownCoordinates DEF QueueStep
<1>10. Io'
  <2>1. io' \in [pc : {"stopped", "read", "rotated", "flush", "info", "space", "wait",
                       "dying", "trace", "died", "last_info", "broken"}, fresh : BOOLEAN]
        /\ ~io'.fresh /\ io'.pc \in {"flush", "died"} /\ (io'.pc = "died" => minfo = mi')
    <3>1. CASE io' = [pc |-> "flush", fresh |-> FALSE]
      BY <3>1
    <3>2. CASE io' = [pc |-> "died", fresh |-> FALSE] /\ minfo = mi'
      BY <3>2
    <3> QED BY <3>1, <3>2 DEF QueueStep
  <2> QED BY <2>1, <1>2, <1>4 DEF RelayInv, Io, QueueStep
<1>11. e.k # "rotate" => /\ EndsIn(Pending, mi[1]) /\ GoesOn(Pending, rli.master[1], mi[1], rli.group)
                         /\ minfo = mi
                         /\ Reading => GoesOn(Pending, rli.master[1], mi[1], rli.event)
  BY DEF QueueStep, RelayInv, Relayed, Executed
<1>12. Relayed'
  <2>1. PendingType(Pending')
    BY <1>2, AppendTyped
  <2>2. NoGap(Pending', Done)
    BY <1>2, AppendNoGap DEF RelayInv, Relayed, Supported
  <2>3. Supported(Pending', Done, mi', End')
    BY <1>1, <1>2, <1>8, AppendSupported DEF RelayInv, Relayed
  <2>4. ASSUME NEW c \in Cuts' PROVE Supported(Pending', Done, minfo, c)
    <3>1. CASE c \in Cuts /\ ~UpTo(n, c)
      <4>1. Supported(Pending, Done, minfo, c)
        BY <3>1 DEF RelayInv, Relayed
      <4> QED BY <4>1, <3>1, <1>2, AppendLost
    <3>2. CASE UpTo(n, c)
      <4>1. Supported(Pending, Done, minfo, End)
        BY <1>8 DEF RelayInv, Relayed
      <4>2. c \in Nat \X Nat /\ (e.k = "begin" => minfo = mi)
        BY <1>1, <1>11
      <4> QED BY <4>1, <4>2, <3>2, <1>2, <1>8, AppendKeepsSupport
    <3> QED BY <3>1, <3>2, <1>1
  <2>5. SameFile(Pending')
    BY <1>2, <1>11, AppendSameFile DEF RelayInv, Relayed
  <2>6. InFile(Pending', rli.master[1], rli.group)
    BY <1>1, <1>2, <1>11, AppendInFile DEF RelayInv, Relayed
  <2>7. EndsIn(Pending', mi'[1])
    BY <1>2, <1>11, AppendEndsIn
  <2>8. GoesOn(Pending', rli.master[1], mi'[1], rli.group)
    BY <1>1, <1>2, <1>11, AppendGoesOn
  <2>9. RotateInside(Pending')
    BY <1>2, <1>8, AppendRotateInside DEF RelayInv, Relayed, Supported
  <2>10. Known(Done, rli.master)
    BY DEF RelayInv, Relayed
  <2> QED BY <2>1, <2>2, <2>3, <2>4, <2>5, <2>6, <2>7, <2>8, <2>9, <2>10, <1>2, <1>7 DEF Relayed
<1>13. Executed'
  <2>1. ASSUME Reading PROVE /\ InFile(Pending', rli.master[1], rli.event)
                             /\ GoesOn(Pending', rli.master[1], mi'[1], rli.event)
    <3>1. InFile(Pending, rli.master[1], rli.event) /\ ~UpTo(n, rli.event)
      BY <2>1, <1>1 DEF RelayInv, Executed
    <3>2. e.k # "rotate" => GoesOn(Pending, rli.master[1], mi[1], rli.event)
      BY <2>1, <1>11
    <3>3. InFile(Pending', rli.master[1], rli.event)
      BY <3>1, <3>2, <1>2, AppendInFile
    <3>4. GoesOn(Pending', rli.master[1], mi'[1], rli.event)
      BY <3>1, <3>2, <1>2, AppendGoesOn
    <3> QED BY <3>3, <3>4
  <2>2. ASSUME Reading, NEW w \in DOMAIN Pending', UpTo(w, rli.event)
        PROVE  w \in DOMAIN Pending /\ Pending'[w] = Pending[w]
    BY <2>2, <1>1, <1>3
  <2>3. Reading => \A w \in DOMAIN Pending' : UpTo(w, rli.event) =>
              /\ Pending'[w].k # "commit"
              /\ Pending'[w].k = "query" =>
                   Pending'[w].at \in Done \/ \E i \in 1 .. Len(sql.work) : sql.work[i] = Pending'[w].at
    BY <2>2 DEF RelayInv, Executed
  <2>4. sql'.pc \in {"next", "wait", "purged"} =>
         IF sql.begin
           THEN Opened(Pending', rli.master[1])
           ELSE \A w \in DOMAIN Pending' : UpTo(w, rli.event) => Pending'[w].k = "intvar"
    <3>1. Opened(Pending, rli.master[1]) => Opened(Pending', rli.master[1])
      BY <1>2, AppendOpened
    <3> QED BY <3>1, <2>2, <1>3, <1>5 DEF RelayInv, Executed, Reading
  <2>5. sql'.pc = "committed" =>
         /\ ~sql.begin
         /\ Future \in DOMAIN Pending' /\ Pending'[Future].k \in {"commit", "query"}
         /\ Pending'[Future].k = "query" =>
              /\ Pending'[Future].at \in Done
              /\ \A w \in DOMAIN Pending' : UpTo(w, rli.event) => Pending'[w].k = "intvar"
    BY <2>2, <1>3, <1>5 DEF RelayInv, Executed, Reading
  <2>6. /\ \A i \in 1 .. Len(sql.work) : \A d \in Effects : UpTo(d, sql.work[i]) /\ d # sql.work[i]
             => d \in Done \/ \E j \in 1 .. i - 1 : sql.work[j] = d
        /\ ~sql.begin => sql.work = << >>
    BY DEF RelayInv, Executed
  <2> QED BY <2>1, <2>3, <2>4, <2>5, <2>6, <1>2, <1>5, <1>6, <1>7 DEF Executed
<1>14. InOrder'
  BY <1>2, <1>7 DEF RelayInv, InOrder
<1>15. Once'
  <2> SUFFICES ASSUME ~faults.crash /\ ~faults.kept
               PROVE  /\ Ordered(Pending') /\ Separate(Pending')
                      /\ Bounded(Pending', Done, mi')
                      /\ NotYet(Pending', Done, Mark')
                      /\ \A d \in Done : UpTo(d, Reached')
                      /\ WorkOnce' /\ CommittedOnce'
    BY <1>2, <1>7 DEF Once
  <2>1. /\ Ordered(Pending) /\ Separate(Pending) /\ Bounded(Pending, Done, mi)
        /\ NotYet(Pending, Done, Mark) /\ WorkOnce /\ CommittedOnce
        /\ \A d \in Done : UpTo(d, Reached)
    BY DEF RelayInv, Once
  <2>2. Ordered(Pending') /\ Bounded(Pending', Done, mi') /\ NotYet(Pending', Done, Mark)
    BY <2>1, <1>2, <1>7, AppendOrdered
  <2>3. Separate(Pending')
    BY <2>1, <1>2, <1>8, AppendSeparate DEF RelayInv, Relayed, Supported
  <2>4. Mark' = Mark
    BY <1>2, <1>5, <1>7 DEF Mark
  <2>5. Reached' = Reached
    <3>1. sql.pc = "committed" => Pending'[Future] = Pending[Future]
      BY <1>3 DEF RelayInv, Executed
    <3> QED BY <3>1, <1>2, <1>5, <1>7 DEF Reached
  <2>6. CommittedOnce'
    BY <2>1, <1>2 DEF CommittedOnce
  <2>7. WorkOnce'
    <3>1. sql'.work = sql.work /\ rli' = rli
      BY <1>2, <1>5
    <3>2. ASSUME Reading PROVE WorkIn(Pending', sql.work, rli.event)
      <4>1. WorkIn(Pending, sql.work, rli.event)
        BY <3>2, <2>1 DEF WorkOnce
      <4> QED BY <4>1, <1>2, AppendWork
    <3> QED BY <3>1, <3>2, <1>6 DEF WorkOnce
  <2> QED BY <2>1, <2>2, <2>3, <2>4, <2>5, <2>6, <2>7
<1>16. Latest'
  <2>1. \A w \in DOMAIN Pending' : UpTo(w, n)
    BY <1>3, UpToOrder
  <2>2. Pending'[n].at = mi'
    BY <1>3, <1>4
  <2> QED BY <2>1, <2>2, <1>3 DEF Latest
<1> QED BY <1>1, <1>9, <1>10, <1>12, <1>13, <1>14, <1>15, <1>16 DEF RelayInv

(* The three actions that put an entry into the relay log. *)
LEMMA Queues ==
    ASSUME RelayInv, QueueRotate \/ TraceIgnored \/ QueueEvent PROVE RelayInv'
<1>1. Io
  BY DEF RelayInv
<1>2. mi \in LogPos /\ Rotate(mi) \in Sent /\ Rotate(mi).k = "rotate" /\ Rotate(mi).at = mi
  BY <1>1 DEF Io, Rotate, Sent, Kinds
<1>3. mi' = mi => Follows(mi, Rotate(mi), mi')
  BY <1>2 DEF Follows
<1>4. CASE QueueRotate
  <2>1. io' = [pc |-> "flush", fresh |-> FALSE]
    BY <1>1, <1>4 DEF QueueRotate, Queue, Io
  <2>2. QueueStep(Rotate(mi))
    BY <2>1, <1>2, <1>3, <1>4 DEF QueueRotate, Queue, QueueStep
  <2> QED BY <2>2, QueueStepInv
<1>5. CASE TraceIgnored
  <2>1. io' = [pc |-> "died", fresh |-> FALSE] /\ minfo = mi
    BY <1>1, <1>5 DEF TraceIgnored, Queue, Io
  <2>2. QueueStep(Rotate(mi))
    BY <2>1, <1>2, <1>3, <1>5 DEF TraceIgnored, Queue, QueueStep
  <2> QED BY <2>2, QueueStepInv
<1>6. CASE QueueEvent
  <2>1. Successor(mi, mi')
    BY <1>1, <1>6, ReadNext DEF Io, QueueEvent
  <2>2. mi' \in Events /\ mi' \in LogPos /\ KindOf(mi') # "own"
    BY <2>1, <1>6, SuccessorOrder DEF Successor, QueueEvent
  <2>3. KindOf(mi') \in {"begin", "query", "commit", "intvar", "own"}
    <3>1. mi'[1] \in 1 .. Len(MasterLog) /\ mi'[2] \in 0 .. Len(MasterLog[mi'[1]]) /\ mi'[2] > 0
      BY <2>2, PlacesArePairs
    <3>2. MasterLog[mi'[1]] \in Seq({"begin", "query", "commit", "intvar", "own"})
      BY <3>1, RelayLogAssumption
    <3>3. mi'[2] \in 1 .. Len(MasterLog[mi'[1]])
      BY <3>1, <3>2
    <3> QED BY <3>2, <3>3 DEF KindOf
  <2> DEFINE e == [k |-> KindOf(mi'), at |-> mi']
  <2>4. e \in Sent /\ e.k = KindOf(mi') /\ e.at = mi' /\ e.k # "rotate"
    BY <2>2, <2>3 DEF Sent, Kinds
  <2>5. Event(mi)' = e
    BY DEF Event, KindOf
  <2>6. log' = appendv(log, e)
    BY <1>6, <2>5 DEF QueueEvent, Queue, Event, KindOf
  <2> HIDE DEF e
  <2>7. Follows(mi, e, mi')
    BY <2>1, <2>2, <2>4, <1>2 DEF Follows
  <2>8. io' = [pc |-> "flush", fresh |-> FALSE] /\ minfo = mi /\ Linked
    BY <1>1, <1>6 DEF QueueEvent, Queue, Io, Linked
  <2>9. QueueStep(e)
    BY <2>6, <2>7, <2>8, <1>6 DEF QueueEvent, Queue, QueueStep
  <2> QED BY <2>9, QueueStepInv
<1> QED BY <1>4, <1>5, <1>6

-----------------------------------------------------------------------------
(* The SQL thread starts, or goes back to the start of the group *)

(* The coordinates with some fields changed. *)
LEMMA RliExcept ==
    ASSUME NEW S, NEW r, r \in [event : S, group : S, master : LogPos, hot : Nat],
           NEW e, NEW g, NEW m, NEW h
    PROVE  /\ [r EXCEPT !.event = e] = [event |-> e, group |-> r.group, master |-> r.master, hot |-> r.hot]
           /\ [r EXCEPT !.event = e, !.hot = h]
                = [event |-> e, group |-> r.group, master |-> r.master, hot |-> h]
           /\ [r EXCEPT !.event = e, !.hot = h, !.group = g]
                = [event |-> e, group |-> g, master |-> r.master, hot |-> h]
           /\ [r EXCEPT !.event = e, !.group = g, !.master = m]
                = [event |-> e, group |-> g, master |-> m, hot |-> r.hot]
           /\ [r EXCEPT !.event = e, !.master = m, !.group = g]
                = [event |-> e, group |-> g, master |-> m, hot |-> r.hot]
<1> DEFINE R(a, b, c, d) == [event |-> a, group |-> b, master |-> c, hot |-> d]
<1>1. [r EXCEPT !.event = e] = R(e, r.group, r.master, r.hot)
  OBVIOUS
<1>2. [[r EXCEPT !.event = e] EXCEPT !.hot = h] = R(e, r.group, r.master, h)
  <2>1. [R(e, r.group, r.master, r.hot) EXCEPT !.hot = h] = R(e, r.group, r.master, h)
    OBVIOUS
  <2> QED BY <2>1, <1>1
<1>3. [[[r EXCEPT !.event = e] EXCEPT !.hot = h] EXCEPT !.group = g] = R(e, g, r.master, h)
  <2>1. [R(e, r.group, r.master, h) EXCEPT !.group = g] = R(e, g, r.master, h)
    OBVIOUS
  <2> QED BY <2>1, <1>2
<1>4. [[[r EXCEPT !.event = e] EXCEPT !.group = g] EXCEPT !.master = m] = R(e, g, m, r.hot)
  <2>1. [R(e, r.group, r.master, r.hot) EXCEPT !.group = g] = R(e, g, r.master, r.hot)
    OBVIOUS
  <2>2. [R(e, g, r.master, r.hot) EXCEPT !.master = m] = R(e, g, m, r.hot)
    OBVIOUS
  <2> QED BY <2>1, <2>2, <1>1
<1>5. [[[r EXCEPT !.event = e] EXCEPT !.master = m] EXCEPT !.group = g] = R(e, g, m, r.hot)
  <2>1. [R(e, r.group, r.master, r.hot) EXCEPT !.master = m] = R(e, r.group, m, r.hot)
    OBVIOUS
  <2>2. [R(e, r.group, m, r.hot) EXCEPT !.group = g] = R(e, g, m, r.hot)
    OBVIOUS
  <2> QED BY <2>1, <2>2, <1>1
<1> QED BY <1>1, <1>2, <1>3, <1>4, <1>5

BackStep ==
    /\ sql.pc \in {"stopped", "next"} /\ sql'.pc = "next"
    /\ sql' \in [pc : {"stopped", "next", "committed", "purged", "wait", "broken"},
                 begin : BOOLEAN, work : Seq(Effects), intvar : BOOLEAN, tries : Nat]
    /\ IF sql'.begin THEN Opened(Pending, rli.master[1]) ELSE sql'.work = << >>
    /\ Ripe(Done, sql'.work)
    /\ BackToGroup
    /\ UNCHANGED <<mi, minfo, io, ign, log, info, db>>
    /\ ignore_log_space_limit' \in BOOLEAN
    /\ faults' \in [n : Nat, crash : BOOLEAN, kept : BOOLEAN]
    /\ faults'.crash = faults.crash /\ (faults.kept => faults'.kept)
    /\ faults'.kept \/ sql'.work = << >>

(* init_relay_log_pos: back to the group's coordinates. *)
LEMMA BackStepInv ==
    ASSUME RelayInv, BackStep PROVE RelayInv'
<1>1. /\ rli' \in [event : Nat \X Nat, group : Nat \X Nat, master : LogPos, hot : Nat]
      /\ rli'.event = rli.group /\ rli'.group = rli.group /\ rli'.master = rli.master
      /\ rli'.hot = IF rli.group[1] = Active THEN Active ELSE 0
  <2>1. rli \in [event : Nat \X Nat, group : Nat \X Nat, master : LogPos, hot : Nat]
    BY DEF RelayInv, Coordinates
  <2>2. Active \in Nat /\ HotIf(rli.group[1]) = IF rli.group[1] = Active THEN Active ELSE 0
    BY DEF RelayInv, GoodLog, Active, HotIf
  <2>3. rli' = [event |-> rli.group, group |-> rli.group, master |-> rli.master,
                hot |-> HotIf(rli.group[1])]
    BY <2>1, RliExcept DEF BackStep, BackToGroup
  <2>4. rli.group \in Nat \X Nat /\ rli.master \in LogPos
    BY <2>1
  <2> QED BY <2>2, <2>3, <2>4
<1>2. sql'.pc = "next"
  BY DEF BackStep
<1>3. /\ Pending' = Pending /\ Done' = Done /\ End' = End /\ Cuts' = Cuts /\ Active' = Active
      /\ GoodLog(log)'
  BY <1>1 DEF BackStep, RelayInv, Pending, Done, End, Cuts, Active
<1>4. \A z \in DOMAIN Pending : ~UpTo(z, rli.group)
  BY PendingFacts DEF RelayInv
<1>5. Linked' = Linked /\ (Settled' => Settled)
  BY DEF BackStep, Linked, Settled
<1>6. Coordinates'
  <2>1. /\ rli.group \in Nat \X Nat /\ rli.group[1] \in 1 .. Active /\ UpTo(rli.group, End)
        /\ rli.group[1] >= log.first /\ Active \in Nat
        /\ info = [group |-> rli.group, master |-> rli.master]
    BY SMTT(30) DEF BackStep, RelayInv, Coordinates, GoodLog, Active
  <2>2. UpTo(rli.group, rli.group)
    BY <2>1, UpToOrder
  <2> QED BY <2>1, <2>2, <1>1, <1>2, <1>3 DEF Coordinates, BackStep, Reading
<1>7. Io'
  BY <1>2, <1>3 DEF BackStep, RelayInv, Io
<1>8. Relayed'
  BY <1>1, <1>3, <1>5 DEF BackStep, RelayInv, Relayed
<1>9. Executed'
  <2>1. /\ sql' \in [pc : {"stopped", "next", "committed", "purged", "wait", "broken"},
                     begin : BOOLEAN, work : Seq(Effects), intvar : BOOLEAN, tries : Nat]
        /\ sql'.pc = "next" /\ (~sql'.begin => sql'.work = << >>)
        /\ sql'.begin => Opened(Pending, rli.master[1])
        /\ \A i \in 1 .. Len(sql'.work) : \A e \in Effects :
             UpTo(e, sql'.work[i]) /\ e # sql'.work[i]
             => e \in Done \/ \E j \in 1 .. i - 1 : sql'.work[j] = e
    BY DEF BackStep, Ripe
  <2>2. /\ InFile(Pending', rli'.master[1], rli'.event)
        /\ Linked' => GoesOn(Pending', rli'.master[1], mi'[1], rli'.event)
    BY <1>1, <1>3, <1>5 DEF BackStep, RelayInv, Relayed
  <2>3. \A z \in DOMAIN Pending' : ~UpTo(z, rli'.event)
    BY <1>1, <1>3, <1>4
  <2> QED BY <2>1, <2>2, <2>3, <1>1, <1>3 DEF Executed
<1>10. InOrder'
  BY <1>3 DEF BackStep, RelayInv, InOrder
<1>11. Once'
  <2>1. Mark' = Mark /\ Reached' = Reached
    BY <1>1, <1>2, <1>3 DEF Mark, Reached, BackStep
  <2>2. ~faults'.kept => WorkOnce'
    BY DEF BackStep, WorkOnce, WorkIn
  <2>3. CommittedOnce => CommittedOnce'
    BY DEF CommittedOnce, BackStep
  <2> QED BY <2>1, <2>2, <2>3, <1>3 DEF BackStep, RelayInv, Once
<1>12. Latest'
  BY <1>1, <1>3, <1>5 DEF BackStep, RelayInv, Latest
<1> QED BY <1>3, <1>6, <1>7, <1>8, <1>9, <1>10, <1>11, <1>12 DEF RelayInv

(* START SLAVE and the retry of a transaction, of which something may be   *)
(* left.                                                                   *)
LEMMA GoesBack ==
    ASSUME RelayInv, SqlStart \/ RetryTransaction PROVE RelayInv'
<1>1. Io
  BY DEF RelayInv
<1>2. CASE SqlStart
  <2>1. sql' = [pc |-> "next", begin |-> FALSE, work |-> << >>, intvar |-> FALSE, tries |-> 0]
    BY <1>2 DEF SqlStart, SqlStopped
  <2>2. << >> \in Seq(Effects) /\ Ripe(Done, << >>)
    BY DEF Ripe
  <2>3. /\ sql.pc = "stopped" /\ BackToGroup /\ ignore_log_space_limit' = FALSE
        /\ UNCHANGED <<mi, minfo, io, ign, log, info, db, faults>>
    BY <1>2 DEF SqlStart
  <2>4. faults \in [n : Nat, crash : BOOLEAN, kept : BOOLEAN]
    BY <1>1 DEF Io
  <2>5. /\ sql' \in [pc : {"stopped", "next", "committed", "purged", "wait", "broken"},
                     begin : BOOLEAN, work : Seq(Effects), intvar : BOOLEAN, tries : Nat]
        /\ sql'.pc = "next" /\ sql'.begin = FALSE /\ sql'.work = << >>
    BY <2>1, <2>2
  <2>6. BackStep
    BY <2>2, <2>3, <2>4, <2>5 DEF BackStep
  <2> QED BY <2>6, BackStepInv
<1>3. CASE RetryTransaction
  <2>1. PICK kept \in {<< >>, sql.work} :
          /\ sql' = [sql EXCEPT !.work = kept, !.intvar = FALSE,
                                !.tries = IF sql.begin THEN sql.tries + 1 ELSE 0]
          /\ faults' = [faults EXCEPT !.n = faults.n + 1, !.kept = faults.kept \/ kept # << >>]
    BY <1>3 DEF RetryTransaction
  <2>2. /\ sql \in [pc : {"stopped", "next", "committed", "purged", "wait", "broken"},
                    begin : BOOLEAN, work : Seq(Effects), intvar : BOOLEAN, tries : Nat]
        /\ sql.pc = "next" /\ Ripe(Done, sql.work) /\ (~sql.begin => sql.work = << >>)
        /\ sql.begin => Opened(Pending, rli.master[1])
    BY <1>3 DEF RelayInv, Executed, Ripe, RetryTransaction, Executes
  <2>3. << >> \in Seq(Effects) /\ Ripe(Done, << >>)
    BY DEF Ripe
  <2>4. kept \in Seq(Effects) /\ Ripe(Done, kept) /\ (~sql.begin => kept = << >>)
    BY <2>2, <2>3
  <2>5. (IF sql.begin THEN sql.tries + 1 ELSE 0) \in Nat
    BY <2>2
  <2>6. /\ sql' \in [pc : {"stopped", "next", "committed", "purged", "wait", "broken"},
                     begin : BOOLEAN, work : Seq(Effects), intvar : BOOLEAN, tries : Nat]
        /\ sql'.pc = "next" /\ sql'.begin = sql.begin /\ sql'.work = kept
    BY <2>1, <2>2, <2>4, <2>5
  <2>7. /\ faults' \in [n : Nat, crash : BOOLEAN, kept : BOOLEAN] /\ faults'.crash = faults.crash
        /\ faults'.kept = (faults.kept \/ kept # << >>)
    <3>1. faults \in [n : Nat, crash : BOOLEAN, kept : BOOLEAN] /\ faults.n + 1 \in Nat
      BY <1>1 DEF Io
    <3>2. (faults.kept \/ kept # << >>) \in BOOLEAN
      OBVIOUS
    <3> QED BY <3>1, <3>2, <2>1
  <2>8. BackStep
    BY <2>2, <2>4, <2>6, <2>7, <1>1, <1>3 DEF RetryTransaction, BackStep, Io
  <2> QED BY <2>8, BackStepInv
<1> QED BY <1>2, <1>3

(* STOP SLAVE, or an error too many, rolls back what is open. *)
LEMMA SqlStopInv ==
    ASSUME RelayInv, SqlStop \/ GiveUp PROVE RelayInv'
<1>1. faults' \in [n : Nat, crash : BOOLEAN, kept : BOOLEAN] /\ faults'.crash = faults.crash /\ faults'.kept = faults.kept
  BY FaultFacts DEF RelayInv, SqlStop, GiveUp
<1>2. sql' = [pc |-> "stopped", begin |-> FALSE, work |-> << >>, intvar |-> FALSE, tries |-> 0]
      /\ UNCHANGED <<mi, minfo, io, ign, log, rli, info, db>> /\ sql.pc \in {"next", "wait"}
      /\ ignore_log_space_limit' \in BOOLEAN
  BY DEF SqlStop, GiveUp, Executes, SqlStopped
<1>3. /\ Pending' = Pending /\ Done' = Done /\ End' = End /\ Cuts' = Cuts /\ Active' = Active
      /\ GoodLog(log)'
  BY <1>2 DEF RelayInv, Pending, Done, End, Cuts, Active
<1>4. Linked' = Linked /\ (Settled' => Settled) /\ ~Reading'
  BY <1>1, <1>2 DEF Linked, Settled, Reading
<1>5. Coordinates'
  BY <1>2, <1>3, <1>4 DEF RelayInv, Coordinates
<1>6. Io'
  BY <1>1, <1>2, <1>3 DEF RelayInv, Io
<1>7. Relayed'
  BY <1>2, <1>3, <1>4 DEF RelayInv, Relayed
<1>8. Executed'
  BY <1>2, <1>4 DEF Executed
<1>9. InOrder'
  BY <1>2, <1>3 DEF RelayInv, InOrder
<1>10. Once'
  <2>1. Mark' = Mark /\ Reached' = Reached
    BY <1>2 DEF Mark, Reached
  <2>2. WorkOnce' /\ (CommittedOnce => CommittedOnce')
    BY <1>2, <1>4 DEF WorkOnce, CommittedOnce
  <2> QED BY <2>1, <2>2, <1>1, <1>2, <1>3 DEF RelayInv, Once
<1>11. Latest'
  BY <1>2, <1>3, <1>4 DEF RelayInv, Latest
<1> QED BY <1>3, <1>5, <1>6, <1>7, <1>8, <1>9, <1>10, <1>11 DEF RelayInv

-----------------------------------------------------------------------------
(* next_event at the end of a file *)

(* The broadcast changes only where the I/O thread is. *)
LEMMA BroadcastFacts ==
    ASSUME Io, SpaceBroadcast, UNCHANGED <<mi, minfo, ign, faults>>
    PROVE  /\ io' \in [pc : {"stopped", "read", "rotated", "flush", "info", "space", "wait",
                             "dying", "trace", "died", "last_info", "broken"}, fresh : BOOLEAN]
           /\ io'.fresh = io.fresh
           /\ io'.pc = io.pc \/ (io.pc = "wait" /\ io'.pc = "space")
           /\ Linked' = Linked /\ Settled' = Settled
<1>1. CASE io.pc = "wait"
  <2>1. io' = [io EXCEPT !.pc = "space"]
    BY <1>1 DEF SpaceBroadcast
  <2> QED BY <2>1, <1>1 DEF Io, Linked, Settled
<1>2. CASE io.pc # "wait"
  <2>1. io' = io
    BY <1>2 DEF SpaceBroadcast
  <2> QED BY <2>1 DEF Io, Linked, Settled
<1> QED BY <1>1, <1>2

(* The SQL thread begins to wait. *)
LEMMA WaitForUpdateInv ==
    ASSUME RelayInv, WaitForUpdate PROVE RelayInv'
<1>1. /\ io' \in [pc : {"stopped", "read", "rotated", "flush", "info", "space", "wait",
                        "dying", "trace", "died", "last_info", "broken"}, fresh : BOOLEAN]
      /\ io'.fresh = io.fresh
      /\ io'.pc = io.pc \/ (io.pc = "wait" /\ io'.pc = "space")
      /\ Linked' = Linked /\ Settled' = Settled
  BY BroadcastFacts DEF RelayInv, WaitForUpdate
<1>2. /\ sql' \in [pc : {"stopped", "next", "committed", "purged", "wait", "broken"},
                   begin : BOOLEAN, work : Seq(Effects), intvar : BOOLEAN, tries : Nat]
      /\ sql.pc = "next" /\ sql'.pc = "wait" /\ sql'.begin = sql.begin /\ sql'.work = sql.work
      /\ UNCHANGED <<mi, minfo, ign, log, rli, info, db, faults>>
      /\ ReadsHot /\ AtEof /\ ign = None
  BY DEF WaitForUpdate, RelayInv, Executed
<1>3. /\ Pending' = Pending /\ Done' = Done /\ End' = End /\ Cuts' = Cuts /\ Active' = Active
      /\ GoodLog(log)' /\ Reading' = Reading /\ ReadsHot' /\ AtEof'
  BY <1>2 DEF RelayInv, Pending, Done, End, Cuts, Active, Reading, ReadsHot, AtEof
<1>4. Coordinates'
  BY <1>2, <1>3 DEF RelayInv, Coordinates
<1>5. Io'
  BY <1>1, <1>2, <1>3 DEF RelayInv, Io, WaitForUpdate
<1>6. Relayed'
  BY <1>1, <1>2, <1>3 DEF RelayInv, Relayed
<1>7. Executed'
  BY <1>1, <1>2, <1>3 DEF RelayInv, Executed
<1>8. InOrder'
  BY <1>2, <1>3 DEF RelayInv, InOrder
<1>9. Once'
  <2>1. Mark' = Mark /\ Reached' = Reached
    BY <1>2 DEF Mark, Reached
  <2>2. WorkOnce => WorkOnce'
    BY <1>2, <1>3 DEF WorkOnce
  <2>3. CommittedOnce => CommittedOnce'
    BY <1>2 DEF CommittedOnce
  <2> QED BY <2>1, <2>2, <2>3, <1>2, <1>3 DEF RelayInv, Once
<1>10. Latest'
  BY <1>1, <1>2, <1>3 DEF RelayInv, Latest
<1> QED BY <1>3, <1>4, <1>5, <1>6, <1>7, <1>8, <1>9, <1>10 DEF RelayInv

(* purge_first_log, the deletion of files. *)
LEMMA PurgeFirstLogInv ==
    ASSUME RelayInv, PurgeFirstLog PROVE RelayInv'
<1> DEFINE t == IF Included THEN rli.group[1] + 1 ELSE rli.group[1]
<1>1. /\ sql.pc = "next" /\ ~ReadsHot /\ AtEof /\ log' = Purged(log, t)
      /\ UNCHANGED <<mi, minfo, ign, rli, info, db, faults>>
      /\ sql' \in [pc : {"stopped", "next", "committed", "purged", "wait", "broken"},
                   begin : BOOLEAN, work : Seq(Effects), intvar : BOOLEAN, tries : Nat]
      /\ sql'.pc = "purged" /\ sql'.begin = sql.begin /\ sql'.work = sql.work
  BY DEF PurgeFirstLog, Purged, RelayInv, Executed
<1>2. /\ rli.event \in Nat \X Nat /\ rli.group \in Nat \X Nat
      /\ rli.event[1] \in 1 .. Active /\ rli.group[1] \in 1 .. Active /\ Active \in Nat
      /\ UpTo(rli.group, rli.event) /\ rli.group[1] >= log.first /\ log.first \in Nat
  BY <1>1 DEF RelayInv, Coordinates, Reading, GoodLog, Active
<1>3. rli.event[1] < Active
  <2>1. rli.hot # Active /\ (rli.hot = 0 => rli.event[1] < Active) /\ (rli.hot # 0 => rli.hot = rli.event[1])
    BY <1>1 DEF RelayInv, Coordinates, Reading, ReadsHot
  <2> QED BY <2>1, <1>2
<1>4. \A z \in DOMAIN Pending : ~UpTo(z, rli.event) => z[1] > rli.event[1]
  <2> SUFFICES ASSUME NEW z \in DOMAIN Pending, ~UpTo(z, rli.event) PROVE z[1] > rli.event[1]
    OBVIOUS
  <2>1. z \in Nat \X Nat /\ z[2] <= Len(log.files[z[1]])
    BY PendingFacts DEF RelayInv
  <2>2. z[1] = rli.event[1] => z[2] <= rli.event[2]
    <3>1. Len(log.files[rli.event[1]]) \in Nat
      BY <1>2, SMTT(30) DEF RelayInv, GoodLog, Active
    <3>2. rli.event[2] >= Len(log.files[rli.event[1]])
      BY <1>1 DEF AtEof
    <3> QED BY <3>1, <3>2, <2>1, <1>2
  <2> QED BY <2>1, <2>2, <1>2 DEF UpTo
<1>5. t \in Nat /\ t >= log.first /\ t <= Active
  BY <1>2, <1>3 DEF Included, UpTo
<1>6. \A z \in DOMAIN Pending : z[1] >= t
  <2> TAKE z \in DOMAIN Pending
  <2>1. z \in Nat \X Nat /\ ~UpTo(z, rli.group)
    BY PendingFacts DEF RelayInv
  <2>2. CASE Included
    BY <2>1, <2>2, <1>2, <1>4 DEF Included
  <2>3. CASE ~Included
    BY <2>1, <2>3, <1>2 DEF UpTo
  <2> QED BY <2>2, <2>3
<1> HIDE DEF t
<1>7. /\ GoodLog(log)' /\ log'.first = t /\ Active' = Active /\ log'.flushed = log.flushed
      /\ End' = End /\ Cuts' = Cuts /\ Pending' = Pending
  <2>1. /\ GoodLog(log) /\ t <= Len(log.files)
        /\ \A z \in DOMAIN PendingOf(log, rli.group) : z[1] >= t
    BY <1>5, <1>6 DEF RelayInv, Active, Pending
  <2>2. /\ GoodLog(log') /\ log'.first = t /\ Len(log'.files) = Len(log.files)
        /\ log'.flushed = log.flushed
        /\ EndOf(log') = EndOf(log) /\ CutsOf(log') = CutsOf(log)
        /\ PendingOf(log', rli.group) = PendingOf(log, rli.group)
    BY <2>1, <1>1, <1>5, Purges
  <2> QED BY <2>2, <1>1 DEF Active, End, Cuts, Pending
<1>8. /\ io' \in [pc : {"stopped", "read", "rotated", "flush", "info", "space", "wait",
                        "dying", "trace", "died", "last_info", "broken"}, fresh : BOOLEAN]
      /\ io'.fresh = io.fresh
      /\ io'.pc = io.pc \/ (io.pc = "wait" /\ io'.pc = "space")
      /\ Linked' = Linked /\ Settled' = Settled
  BY BroadcastFacts DEF RelayInv, PurgeFirstLog
<1>9. Done' = Done /\ Reading' = Reading /\ Included' = Included
  BY <1>1 DEF Done, Reading, Included
<1>10. Coordinates'
  <2>1. log'.first = IF Included' THEN rli'.group[1] + 1 ELSE rli'.group[1]
    BY <1>1, <1>7, <1>9 DEF t
  <2>2. sql'.pc = "purged" => /\ rli'.event[1] < Active'
                              /\ \A z \in DOMAIN Pending' : ~UpTo(z, rli'.event) => z[1] > rli'.event[1]
    BY <1>1, <1>3, <1>4, <1>7
  <2>3. Reading
    BY <1>1 DEF Reading
  <2> QED BY <2>1, <2>2, <2>3, <1>1, <1>7, <1>9 DEF RelayInv, Coordinates
<1>11. Io'
  <2>1. ignore_log_space_limit' \in BOOLEAN
    BY DEF PurgeFirstLog
  <2>2. io.pc # "broken" /\ io'.pc # "broken"
    BY <1>1, <1>8 DEF RelayInv, Io
  <2>3. io'.pc \in {"info", "last_info"} => \A z \in DOMAIN Pending' : UpTo(z, <<Active', log'.flushed>>)
    BY <1>7, <1>8 DEF RelayInv, Io
  <2> QED BY <2>1, <2>2, <2>3, <1>1, <1>8 DEF RelayInv, Io
<1>12. Relayed'
  BY <1>1, <1>7, <1>8, <1>9 DEF RelayInv, Relayed
<1>13. Executed'
  BY <1>1, <1>7, <1>8, <1>9 DEF RelayInv, Executed
<1>14. InOrder'
  BY <1>1, <1>9 DEF RelayInv, InOrder
<1>15. Once'
  <2>1. Mark' = Mark /\ Reached' = Reached
    BY <1>1 DEF Mark, Reached
  <2>2. WorkOnce => WorkOnce'
    BY <1>1, <1>7, <1>9 DEF WorkOnce
  <2>3. CommittedOnce => CommittedOnce'
    BY <1>1 DEF CommittedOnce
  <2> QED BY <2>1, <2>2, <2>3, <1>1, <1>7, <1>9 DEF RelayInv, Once
<1>16. Latest'
  BY <1>1, <1>7, <1>8 DEF RelayInv, Latest
<1> QED BY <1>7, <1>10, <1>11, <1>12, <1>13, <1>14, <1>15, <1>16 DEF RelayInv

(* The rest of purge_first_log: the coordinates of the next file. *)
LEMMA SwitchLogInv ==
    ASSUME RelayInv, SwitchLog PROVE RelayInv'
<1> DEFINE next == <<rli.event[1] + 1, 0>>
           group == IF Included THEN next ELSE rli.group
<1>1. /\ sql.pc = "purged" /\ UNCHANGED <<mi, minfo, io, ign, log, db, ignore_log_space_limit, faults>>
      /\ sql' \in [pc : {"stopped", "next", "committed", "purged", "wait", "broken"},
                   begin : BOOLEAN, work : Seq(Effects), intvar : BOOLEAN, tries : Nat]
      /\ sql'.pc = "next" /\ sql'.begin = sql.begin /\ sql'.work = sql.work
  BY DEF SwitchLog, RelayInv, Executed
<1>2. /\ rli \in [event : Nat \X Nat, group : Nat \X Nat, master : LogPos, hot : Nat]
      /\ rli.event[1] \in 1 .. Active /\ rli.group[1] \in 1 .. Active /\ Active \in Nat
      /\ UpTo(rli.group, rli.event) /\ rli.event[1] < Active
      /\ log.first = IF Included THEN rli.group[1] + 1 ELSE rli.group[1]
      /\ \A z \in DOMAIN Pending : ~UpTo(z, rli.event) => z[1] > rli.event[1]
      /\ UpTo(rli.group, End)
  BY <1>1 DEF RelayInv, Coordinates, Reading, GoodLog, Active
<1>3. next \in Nat \X Nat /\ group \in Nat \X Nat /\ next[1] = rli.event[1] + 1 /\ next[2] = 0
  BY <1>2
<1>4. rli' = [event |-> next, group |-> group, master |-> rli.master, hot |-> HotIf(next[1])]
      /\ info' = [group |-> rli'.group, master |-> rli'.master]
  BY <1>2, RliExcept DEF SwitchLog
<1>5. HotIf(next[1]) = IF next[1] = Active THEN Active ELSE 0
  BY DEF HotIf
<1> HIDE DEF next
<1>6. /\ rli' \in [event : Nat \X Nat, group : Nat \X Nat, master : LogPos, hot : Nat]
      /\ rli'.event = next /\ rli'.group = group /\ rli'.master = rli.master
      /\ rli'.hot = IF next[1] = Active THEN Active ELSE 0
  BY <1>2, <1>3, <1>4, <1>5
<1>7. \A z \in DOMAIN Pending : UpTo(z, next) <=> UpTo(z, rli.event)
  <2> TAKE z \in DOMAIN Pending
  <2>1. z \in Nat \X Nat /\ z[2] >= 1
    BY PendingFacts DEF RelayInv
  <2>2. UpTo(z, rli.event) => UpTo(z, next)
    BY <2>1, <1>2, <1>3 DEF UpTo
  <2>3. z[1] > rli.event[1] => ~UpTo(z, next)
    BY <2>1, <1>2, <1>3 DEF UpTo
  <2> QED BY <2>2, <2>3, <1>2
<1>8. \A z \in DOMAIN Pending : ~UpTo(z, group)
  <2> TAKE z \in DOMAIN Pending
  <2>1. ~UpTo(z, rli.group)
    BY PendingFacts DEF RelayInv
  <2> QED BY <2>1, <1>7 DEF Included
<1>9. Pending' = Pending
  <2>1. UpTo(rli.group, group)
    <3>1. CASE Included
      BY <3>1, <1>2, <1>3 DEF Included, UpTo
    <3>2. CASE ~Included
      BY <3>2, <1>2, UpToOrder
    <3> QED BY <3>1, <3>2
  <2>2. Dropped(PendingOf(log, rli.group), PendingOf(log, group), group)
    BY <2>1, <1>2, <1>3, MoveGroup DEF RelayInv
  <2>3. Dropped(Pending, Pending', group) /\ Pending' = PendingOf(log, group)
    BY <2>2, <1>1, <1>6 DEF Pending
  <2>4. \A z : z \in DOMAIN Pending' <=> z \in DOMAIN Pending
    BY <2>3, <1>8 DEF Dropped
  <2>5. DOMAIN PendingOf(log, group) = DOMAIN PendingOf(log, rli.group)
        /\ \A z \in DOMAIN PendingOf(log, group) : PendingOf(log, group)[z] = PendingOf(log, rli.group)[z]
    BY <2>2, <2>3, <2>4 DEF Dropped, Pending
  <2>6. PendingOf(log, group) = PendingOf(log, rli.group)
    BY <2>5, SamePending
  <2> QED BY <2>3, <2>6 DEF Pending
<1> HIDE DEF group
<1>10. /\ Done' = Done /\ End' = End /\ Cuts' = Cuts /\ Active' = Active /\ GoodLog(log)'
       /\ Linked' = Linked /\ Settled' = Settled /\ Reading' = Reading
  BY <1>1 DEF RelayInv, Done, End, Cuts, Active, Linked, Settled, Reading
<1>11. Coordinates'
  <2>1. UpTo(next, End)
    <3>1. End \in Nat \X Nat /\ End[1] = Active
      BY PendingFacts DEF RelayInv, End, EndOf, Active
    <3> QED BY <3>1, <1>2, <1>3 DEF UpTo
  <2>2. CASE Included
    <3>1. group = next /\ log.first = next[1] /\ UpTo(next, next)
      BY <2>2, <1>2, <1>3, UpToOrder DEF Included, group
    <3>2. next[1] \in 1 .. Active
      BY <1>2, <1>3
    <3>3. rli'.event = next /\ rli'.group = next /\ rli'.group[1] >= log'.first
      BY <3>1, <1>1, <1>3, <1>6
    <3>4. rli'.hot <= Active' /\ (rli'.hot = 0 => next[1] < Active') /\ (rli'.hot # 0 => rli'.hot = next[1])
      BY <3>2, <1>2, <1>6, <1>10
    <3> QED BY <3>1, <3>2, <3>3, <3>4, <2>1, <1>1, <1>3, <1>4, <1>6, <1>10 DEF Coordinates
  <2>3. CASE ~Included
    <3>1. group = rli.group /\ log.first = rli.group[1]
      BY <2>3, <1>2 DEF group
    <3>2. next[1] \in 1 .. Active
      BY <1>2, <1>3
    <3>3. UpTo(rli.group, next)
      BY <1>2, <1>3 DEF UpTo
    <3> QED BY <3>1, <3>2, <3>3, <2>1, <1>1, <1>2, <1>3, <1>4, <1>6, <1>10 DEF Coordinates, Reading
  <2> QED BY <2>2, <2>3
<1>12. Io'
  BY <1>1, <1>9, <1>10 DEF RelayInv, Io
<1>13. Relayed'
  <2>1. \A z \in DOMAIN Pending : UpTo(z, group) <=> UpTo(z, rli.group)
    BY <1>8, PendingFacts DEF RelayInv
  <2>2. /\ InFile(Pending, rli.master[1], group)
        /\ Linked => GoesOn(Pending, rli.master[1], mi[1], group)
    BY <2>1, SameStep DEF RelayInv, Relayed
  <2> QED BY <2>2, <1>1, <1>6, <1>9, <1>10 DEF RelayInv, Relayed
<1>14. Executed'
  <2>1. Reading /\ sql.pc # "committed"
    BY <1>1 DEF Reading
  <2>2. /\ InFile(Pending, rli.master[1], next)
        /\ Linked => GoesOn(Pending, rli.master[1], mi[1], next)
    BY <2>1, <1>7, SameStep DEF RelayInv, Executed
  <2>3. /\ \A w \in DOMAIN Pending : UpTo(w, next) =>
             /\ Pending[w].k # "commit"
             /\ Pending[w].k = "query" =>
                  Pending[w].at \in Done \/ \E i \in 1 .. Len(sql.work) : sql.work[i] = Pending[w].at
        /\ IF sql.begin
             THEN Opened(Pending, rli.master[1])
             ELSE \A w \in DOMAIN Pending : UpTo(w, next) => Pending[w].k = "intvar"
    BY <2>1, <1>1, <1>7 DEF RelayInv, Executed
  <2> QED BY <2>2, <2>3, <1>1, <1>6, <1>9, <1>10 DEF RelayInv, Executed
<1>15. InOrder'
  BY <1>1, <1>10 DEF RelayInv, InOrder
<1>16. Once'
  <2>1. NotYet(Pending, Done, Mark) => NotYet(Pending, Done, Mark')
    BY <1>1, <1>6, <1>8, PendingFacts, SameStep DEF Mark, RelayInv
  <2>2. Reached' = Reached
    BY <1>1, <1>6 DEF Reached
  <2>3. WorkOnce => WorkOnce'
    <3>1. WorkIn(Pending, sql.work, rli.event) => WorkIn(Pending, sql.work, next)
      BY <1>7 DEF WorkIn
    <3> QED BY <3>1, <1>1, <1>6, <1>9, <1>10 DEF WorkOnce
  <2>4. CommittedOnce => CommittedOnce'
    BY <1>1 DEF CommittedOnce
  <2> QED BY <2>1, <2>2, <2>3, <2>4, <1>1, <1>9, <1>10 DEF RelayInv, Once
<1>17. Latest'
  BY <1>1, <1>6, <1>9, <1>10 DEF RelayInv, Latest
<1> QED BY <1>10, <1>11, <1>12, <1>13, <1>14, <1>15, <1>16, <1>17 DEF RelayInv

-----------------------------------------------------------------------------
(* exec_relay_log_event: the next entry *)

(* The next entry is pending unless it is the relay log's own. *)
LEMMA NextFacts ==
    ASSUME RelayInv, sql.pc = "next" \/ sql.pc = "committed", ~AtEof
    PROVE  /\ rli.event \in Nat \X Nat /\ rli.group \in Nat \X Nat
           /\ Future \in Nat \X Nat /\ Future[1] = rli.event[1] /\ Future[2] = rli.event[2] + 1
           /\ UpTo(rli.event, Future) /\ ~UpTo(Future, rli.event) /\ UpTo(Future, End)
           /\ UpTo(rli.group, Future) /\ ~UpTo(Future, rli.group)
           /\ \A z \in Nat \X Nat : UpTo(z, Future) <=> UpTo(z, rli.event) \/ z = Future
           /\ Step(Pending, rli.event, Future)
           /\ NextEvent.k # "self" => Future \in DOMAIN Pending /\ Pending[Future] = NextEvent
           /\ NextEvent.k = "self" => Future \notin DOMAIN Pending
           /\ rli.event[2] = 0 => NextEvent.k = "self"
<1>1. /\ rli.event \in Nat \X Nat /\ rli.group \in Nat \X Nat /\ rli.event[1] \in 1 .. Active
      /\ rli.group[1] >= log.first /\ rli.group[1] \in Nat /\ log.first \in Nat
      /\ UpTo(rli.group, rli.event)
  BY DEF RelayInv, Coordinates, Reading, GoodLog
<1>2. Future[1] = rli.event[1] /\ Future[2] = rli.event[2] + 1 /\ Future \in Nat \X Nat
  BY <1>1 DEF Future
<1>3. log.files \in Seq(Seq(Record)) /\ Active \in Nat /\ Active = Len(log.files)
  BY DEF RelayInv, GoodLog, Active
<1>4. Len(log.files[rli.event[1]]) \in Nat /\ ~(rli.event[2] >= Len(log.files[rli.event[1]]))
  BY <1>1, <1>3 DEF AtEof
<1>5. Future[2] \in 1 .. Len(log.files[Future[1]]) /\ Future[1] \in 1 .. Len(log.files)
  BY <1>1, <1>2, <1>3, <1>4, SMTT(30)
<1>6. Future \in EntriesOf(log)
  BY <1>2, <1>3, <1>5, EntriesArePairs
<1>7. EntryAt(log, Future) = NextEvent
  BY <1>2 DEF EntryAt, NextEvent
<1>8. UpTo(rli.event, Future) /\ ~UpTo(Future, rli.event)
      /\ \A z \in Nat \X Nat : UpTo(z, Future) <=> UpTo(z, rli.event) \/ z = Future
  BY <1>1, <1>2 DEF UpTo
<1>9. UpTo(Future, End)
  BY <1>6, EndIsLast DEF RelayInv, End
<1>10. UpTo(rli.group, Future) /\ ~UpTo(Future, rli.group)
  BY <1>1, <1>2, <1>8, UpToOrder
<1>11. Step(Pending, rli.event, Future)
  BY <1>8, PendingFacts DEF Step, RelayInv
<1>12. /\ NextEvent.k # "self" => Future \in DOMAIN Pending /\ Pending[Future] = NextEvent
       /\ NextEvent.k = "self" => Future \notin DOMAIN Pending
  BY <1>6, <1>7, <1>10, PendingIs DEF Pending
<1>13. rli.event[2] = 0 => NextEvent.k = "self"
  <2>1. rli.event[1] \in log.first .. Active
    BY <1>1, <1>3 DEF UpTo
  <2>2. log.files[rli.event[1]][1] = Self
    BY <2>1, <1>3 DEF RelayInv, GoodLog
  <2> QED BY <2>2, SelfIsRecord DEF NextEvent
<1> QED BY <1>1, <1>2, <1>8, <1>9, <1>10, <1>11, <1>12, <1>13

(* What is not an Intvar is executed in a transaction only after the BEGIN *)
(* has been passed, also when a retry has gone back to before it.          *)
LEMMA BeginIsPassed ==
    ASSUME RelayInv, sql.pc = "next", sql.begin, ~AtEof,
           NextEvent.k \in {"query", "commit", "rotate"}
    PROVE  \E b \in DOMAIN Pending :
             UpTo(b, rli.event) /\ Pending[b].k = "begin" /\ Pending[b].at[1] = rli.master[1]
<1>1. PICK b \in DOMAIN Pending :
        /\ Pending[b].k = "begin" /\ Pending[b].at[1] = rli.master[1]
        /\ \A w \in DOMAIN Pending : ~UpTo(b, w) => Pending[w].k = "intvar"
  BY DEF RelayInv, Executed, Opened
<1>2. /\ Step(Pending, rli.event, Future)
      /\ Future \in DOMAIN Pending /\ Pending[Future] = NextEvent
  BY NextFacts
<1>3. UpTo(b, Future)
  BY <1>1, <1>2
<1>4. b # Future
  BY <1>1, <1>2
<1> QED BY <1>1, <1>2, <1>3, <1>4 DEF Step

(* the files of the master's log, from the next entry on *)
LEMMA NextFiles ==
    ASSUME RelayInv, sql.pc = "next", ~AtEof, NextEvent.k = "rotate" => sql.begin
    PROVE  /\ InFile(Pending, rli.master[1], Future)
           /\ Linked => GoesOn(Pending, rli.master[1], mi[1], Future)
<1>1. /\ Step(Pending, rli.event, Future) /\ UpTo(rli.event, Future) /\ ~UpTo(Future, rli.event)
      /\ NextEvent.k # "self" => Future \in DOMAIN Pending /\ Pending[Future] = NextEvent
      /\ NextEvent.k = "self" => Future \notin DOMAIN Pending
      /\ rli.event \in Nat \X Nat /\ Future \in Nat \X Nat
  BY NextFacts
<1>2. Reading /\ PendingType(Pending)
  BY DEF Reading, RelayInv, Relayed
<1>3. /\ InFile(Pending, rli.master[1], rli.event)
      /\ Linked => GoesOn(Pending, rli.master[1], mi[1], rli.event)
  BY <1>2 DEF RelayInv, Executed
<1>4. CASE NextEvent.k # "rotate"
  <2>1. Future \in DOMAIN Pending => Pending[Future].k # "rotate"
    BY <1>1, <1>4
  <2> QED BY <2>1, <1>1, <1>3, StepFiles
<1>5. CASE NextEvent.k = "rotate"
  <2>1. Future \in DOMAIN Pending /\ Pending[Future].k = "rotate"
    BY <1>1, <1>5
  <2>2. PICK b \in DOMAIN Pending :
          UpTo(b, rli.event) /\ Pending[b].k = "begin" /\ Pending[b].at[1] = rli.master[1]
    BY <1>5, BeginIsPassed
  <2>3. UpTo(b, Future)
    BY <2>2, <1>1 DEF Step
  <2>4. \A w \in DOMAIN Pending : Pending[w].k = "commit" /\ UpTo(w, Future) => UpTo(w, b)
    <3>1. \A w \in DOMAIN Pending : UpTo(w, rli.event) => Pending[w].k # "commit"
      BY <1>2 DEF RelayInv, Executed
    <3> QED BY <3>1, <2>1, <1>1 DEF Step
  <2>5. Pending[Future].at[1] = rli.master[1]
    BY <2>1, <2>2, <2>3, <2>4 DEF RelayInv, Relayed, RotateInside
  <2>6. InFile(Pending, Pending[Future].at[1], Future)
    BY <2>1, <1>2, StepRotate DEF RelayInv, Relayed
  <2>7. Linked => GoesOn(Pending, Pending[Future].at[1], mi[1], Future)
    BY <2>1, <1>2, StepRotate DEF RelayInv, Relayed
  <2> QED BY <2>5, <2>6, <2>7
<1> QED BY <1>4, <1>5

(* inc_event_relay_log_pos: the event's coordinates move, the group's stay *)
EventStep ==
    /\ sql.pc = "next" /\ ~AtEof /\ (NextEvent.k = "rotate" => sql.begin)
    /\ rli' = [rli EXCEPT !.event = Future] /\ info' = info
    /\ UNCHANGED <<mi, minfo, io, ign, log, ignore_log_space_limit, faults>>
    /\ sql' \in [pc : {"stopped", "next", "committed", "purged", "wait", "broken"},
                 begin : BOOLEAN, work : Seq(Effects), intvar : BOOLEAN, tries : Nat]
    /\ sql'.pc = "next" /\ (sql'.begin \/ (~sql.begin /\ NextEvent.k # "self"))

(* The parts of the invariant that all such steps keep. *)
LEMMA EventStepParts ==
    ASSUME RelayInv, EventStep, Done \subseteq Done'
    PROVE  /\ GoodLog(log)' /\ Coordinates' /\ Io' /\ Relayed' /\ Latest'
           /\ rli'.event = Future /\ rli'.group = rli.group /\ rli'.master = rli.master
           /\ Pending' = Pending /\ Reading /\ Reading'
           /\ InFile(Pending', rli'.master[1], rli'.event)
           /\ Linked' => GoesOn(Pending', rli'.master[1], mi'[1], rli'.event)
           /\ Mark' = Mark /\ Reached' = Reached
<1>1. /\ rli.event \in Nat \X Nat /\ rli.group \in Nat \X Nat
      /\ Future \in Nat \X Nat /\ Future[1] = rli.event[1] /\ Future[2] = rli.event[2] + 1
      /\ UpTo(Future, End) /\ UpTo(rli.group, Future)
      /\ rli.event[2] = 0 => NextEvent.k = "self"
  BY NextFacts DEF EventStep
<1>2. rli \in [event : Nat \X Nat, group : Nat \X Nat, master : LogPos, hot : Nat]
  BY DEF RelayInv, Coordinates
<1>3. rli' = [event |-> Future, group |-> rli.group, master |-> rli.master, hot |-> rli.hot]
  BY <1>2, RliExcept DEF EventStep
<1>4. /\ rli' \in [event : Nat \X Nat, group : Nat \X Nat, master : LogPos, hot : Nat]
      /\ rli'.event = Future /\ rli'.group = rli.group /\ rli'.master = rli.master
      /\ rli'.hot = rli.hot
  BY <1>1, <1>2, <1>3
<1>5. /\ Pending' = Pending /\ End' = End /\ Cuts' = Cuts /\ Active' = Active /\ GoodLog(log)'
      /\ Linked' = Linked /\ Settled' = Settled /\ Reading /\ Reading'
  BY <1>4 DEF EventStep, RelayInv, Pending, End, Cuts, Active, Linked, Settled, Reading
<1>6. /\ InFile(Pending, rli.master[1], Future)
      /\ Linked => GoesOn(Pending, rli.master[1], mi[1], Future)
  BY NextFiles DEF EventStep
<1>7. Coordinates'
  <2>1. ~sql'.begin => rli.group[1] = Future[1]
    <3>1. ~sql'.begin => ~sql.begin /\ rli.event[2] # 0
      BY <1>1 DEF EventStep
    <3>2. rli.event[2] # 0 => rli.event[2] > 0
      BY <1>1
    <3>3. ~sql.begin /\ rli.event[2] > 0 => rli.group[1] = rli.event[1]
      BY DEF RelayInv, Coordinates, EventStep
    <3> QED BY <3>1, <3>2, <3>3, <1>1
  <2>2. sql'.pc = "next" /\ sql.pc = "next"
    BY DEF EventStep
  <2>3. /\ info' = [group |-> rli.group, master |-> rli.master]
        /\ rli.event[1] \in 1 .. Active /\ rli.group[1] \in 1 .. Active /\ rli.hot <= Active
        /\ UpTo(rli.group, End) /\ rli.group[1] >= log.first
        /\ rli.hot = 0 => rli.event[1] < Active
        /\ rli.hot # 0 => rli.hot = rli.event[1]
        /\ log' = log
    BY <2>2, <1>5 DEF RelayInv, Coordinates, EventStep
  <2> QED BY <2>1, <2>2, <2>3, <1>1, <1>4, <1>5 DEF Coordinates
<1>8. Io'
  BY <1>5 DEF RelayInv, Io, EventStep
<1>9. Relayed'
  <2>1. NoGap(Pending, Done') /\ Supported(Pending, Done', mi, End) /\ Known(Done', rli.master)
        /\ \A c \in Cuts : Supported(Pending, Done', minfo, c)
    BY MoreDone DEF RelayInv, Relayed
  <2> QED BY <2>1, <1>4, <1>5 DEF RelayInv, Relayed, EventStep
<1>10. Latest'
  BY <1>4, <1>5 DEF RelayInv, Latest, EventStep
<1>11. Mark' = Mark /\ Reached' = Reached
  BY <1>4 DEF Mark, Reached, EventStep
<1> QED BY <1>4, <1>5, <1>6, <1>7, <1>8, <1>9, <1>10, <1>11 DEF EventStep

(* The queries of the open transaction stay behind the event. *)
LEMMA WorkGoesOn ==
    ASSUME NEW P, NEW W, NEW p, NEW q, Step(P, p, q), WorkIn(P, W, p)
    PROVE  WorkIn(P, W, q)
<1>1. \A z \in DOMAIN P : UpTo(z, p) => UpTo(z, q)
  BY DEF Step
<1> SUFFICES ASSUME NEW i \in 1 .. Len(W)
             PROVE  /\ \E w \in DOMAIN P : UpTo(w, q) /\ P[w].k = "query" /\ P[w].at = W[i]
                    /\ \A j \in 1 .. i - 1 : Precedes(W[j], W[i], TRUE)
  BY DEF WorkIn
<1>2. PICK w \in DOMAIN P : UpTo(w, p) /\ P[w].k = "query" /\ P[w].at = W[i]
  BY DEF WorkIn
<1>3. \A j \in 1 .. i - 1 : Precedes(W[j], W[i], TRUE)
  BY DEF WorkIn
<1> QED BY <1>1, <1>2, <1>3

(* entries that change no data: the relay log's own and a Rotate inside a  *)
(* transaction, Intvar                                                     *)
QuietStep ==
    /\ EventStep /\ db' = db /\ sql'.work = sql.work /\ sql'.begin = sql.begin
    /\ NextEvent.k \in {"self", "rotate", "intvar"}

(* Such a step keeps the invariant. *)
LEMMA QuietStepInv ==
    ASSUME RelayInv, QuietStep PROVE RelayInv'
<1>1. EventStep /\ Done' = Done /\ db' = db
  BY DEF QuietStep, Done
<1>2. /\ GoodLog(log)' /\ Coordinates' /\ Io' /\ Relayed' /\ Latest'
      /\ rli'.event = Future /\ rli'.group = rli.group /\ rli'.master = rli.master
      /\ Pending' = Pending /\ Reading /\ Reading'
      /\ InFile(Pending', rli'.master[1], rli'.event)
      /\ Linked' => GoesOn(Pending', rli'.master[1], mi'[1], rli'.event)
      /\ Mark' = Mark /\ Reached' = Reached
  BY <1>1, EventStepParts
<1>3. /\ Step(Pending, rli.event, Future)
      /\ NextEvent.k # "self" => Future \in DOMAIN Pending /\ Pending[Future] = NextEvent
      /\ NextEvent.k = "self" => Future \notin DOMAIN Pending
  BY <1>1, NextFacts DEF EventStep
<1>4. \A w \in DOMAIN Pending : UpTo(w, Future) =>
        UpTo(w, rli.event) \/ (w = Future /\ Pending[w].k = NextEvent.k /\ Pending[w].k \in {"rotate", "intvar"})
  BY <1>3 DEF Step, QuietStep
<1>5. Executed'
  <2>1. \A w \in DOMAIN Pending : UpTo(w, Future) =>
              /\ Pending[w].k # "commit"
              /\ Pending[w].k = "query" =>
                   Pending[w].at \in Done \/ \E i \in 1 .. Len(sql.work) : sql.work[i] = Pending[w].at
    BY <1>2, <1>4 DEF RelayInv, Executed
  <2>2. sql.begin => Opened(Pending, rli.master[1])
    BY DEF RelayInv, Executed, QuietStep, EventStep
  <2>3. ~sql.begin => \A w \in DOMAIN Pending : UpTo(w, Future) => Pending[w].k = "intvar"
    BY <1>4 DEF RelayInv, Executed, QuietStep, EventStep
  <2>4. /\ sql' \in [pc : {"stopped", "next", "committed", "purged", "wait", "broken"},
                     begin : BOOLEAN, work : Seq(Effects), intvar : BOOLEAN, tries : Nat]
        /\ sql'.pc = "next" /\ sql'.work = sql.work /\ sql'.begin = sql.begin
    BY DEF QuietStep, EventStep
  <2>5. /\ \A i \in 1 .. Len(sql.work) : \A d \in Effects : UpTo(d, sql.work[i]) /\ d # sql.work[i]
             => d \in Done \/ \E j \in 1 .. i - 1 : sql.work[j] = d
        /\ ~sql.begin => sql.work = << >>
    BY DEF RelayInv, Executed
  <2> QED BY <2>1, <2>2, <2>3, <2>4, <2>5, <1>1, <1>2 DEF Executed
<1>6. InOrder'
  BY <1>1 DEF RelayInv, InOrder
<1>7. Once'
  <2>1. WorkOnce => WorkOnce'
    <3>1. sql'.work = sql.work
      BY DEF QuietStep
    <3>2. WorkIn(Pending, sql.work, rli.event) => WorkIn(Pending, sql.work, Future)
      BY <1>3, WorkGoesOn
    <3> QED BY <3>1, <3>2, <1>2 DEF WorkOnce
  <2>2. CommittedOnce => CommittedOnce'
    BY <1>1 DEF CommittedOnce
  <2>3. mi' = mi /\ ign' = ign /\ faults' = faults
    BY DEF QuietStep, EventStep
  <2> QED BY <2>1, <2>2, <2>3, <1>1, <1>2 DEF RelayInv, Once
<1> QED BY <1>2, <1>5, <1>6, <1>7 DEF RelayInv

(* a query of the open transaction *)
LEMMA ExecInTransactionInv ==
    ASSUME RelayInv, ExecInTransaction PROVE RelayInv'
<1>1. sql.pc = "next" /\ ~AtEof /\ NextEvent.k = "query" /\ sql.begin /\ db' = db /\ Done' = Done
  BY DEF ExecInTransaction, Executes, Done
<1>2. /\ Step(Pending, rli.event, Future)
      /\ Future \in DOMAIN Pending /\ Pending[Future] = NextEvent
      /\ ~UpTo(Future, rli.event)
  BY <1>1, NextFacts
<1> DEFINE at == NextEvent.at
<1>3. at \in Effects /\ Pending[Future].at = at /\ Pending[Future].k = "query"
  BY <1>1, <1>2 DEF RelayInv, Relayed, PendingType, Effects
<1>4. sql' = [sql EXCEPT !.work = Append(sql.work, at), !.intvar = FALSE]
  BY DEF ExecInTransaction
<1> HIDE DEF at
<1>5. /\ sql.work \in Seq(Effects)
      /\ sql \in [pc : {"stopped", "next", "committed", "purged", "wait", "broken"},
                  begin : BOOLEAN, work : Seq(Effects), intvar : BOOLEAN, tries : Nat]
  BY DEF RelayInv, Executed
<1> DEFINE W == Append(sql.work, at)
           n == Len(sql.work)
<1>6. /\ W \in Seq(Effects) /\ Len(W) = n + 1 /\ n \in Nat
      /\ \A i \in 1 .. n : W[i] = sql.work[i]
      /\ W[n + 1] = at
  BY <1>3, <1>5
<1>7. \A i \in 1 .. n + 1 : i \in 1 .. n \/ i = n + 1
  BY <1>6
<1> HIDE DEF W
<1>8. /\ sql' \in [pc : {"stopped", "next", "committed", "purged", "wait", "broken"},
                   begin : BOOLEAN, work : Seq(Effects), intvar : BOOLEAN, tries : Nat]
      /\ sql'.pc = "next" /\ sql'.begin /\ sql'.work = W
  BY <1>1, <1>4, <1>5, <1>6 DEF W
<1>9. EventStep
  BY <1>1, <1>8 DEF EventStep, ExecInTransaction, IncEvent
<1>10. /\ GoodLog(log)' /\ Coordinates' /\ Io' /\ Relayed' /\ Latest'
       /\ rli'.event = Future /\ rli'.group = rli.group /\ rli'.master = rli.master
       /\ Pending' = Pending /\ Reading /\ Reading'
       /\ InFile(Pending', rli'.master[1], rli'.event)
       /\ Linked' => GoesOn(Pending', rli'.master[1], mi'[1], rli'.event)
       /\ Mark' = Mark /\ Reached' = Reached
  BY <1>1, <1>9, EventStepParts
<1>11. \A d : (\E i \in 1 .. n : sql.work[i] = d) => \E i \in 1 .. Len(W) : W[i] = d
  BY <1>6
<1>12. Executed'
  <2>1. ASSUME NEW w \in DOMAIN Pending, UpTo(w, Future)
        PROVE  /\ Pending[w].k # "commit"
               /\ Pending[w].k = "query" =>
                    Pending[w].at \in Done \/ \E i \in 1 .. Len(W) : W[i] = Pending[w].at
    <3>1. CASE UpTo(w, rli.event)
      BY <3>1, <1>10, <1>11 DEF RelayInv, Executed
    <3>2. CASE w = Future
      <4>1. n + 1 \in 1 .. Len(W) /\ W[n + 1] = Pending[w].at
        BY <3>2, <1>3, <1>6
      <4> QED BY <4>1, <3>2, <1>3
    <3> QED BY <2>1, <3>1, <3>2, <1>2 DEF Step
  <2>2. Opened(Pending, rli.master[1])
    BY <1>1 DEF RelayInv, Executed
  <2>3. ASSUME NEW i \in 1 .. Len(W), NEW d \in Effects, UpTo(d, W[i]), d # W[i]
        PROVE  d \in Done \/ \E j \in 1 .. i - 1 : W[j] = d
    <3>1. CASE i \in 1 .. n
      <4>1. W[i] = sql.work[i]
        BY <3>1, <1>6
      <4>2. d \in Done \/ \E j \in 1 .. i - 1 : sql.work[j] = d
        BY <4>1, <3>1, <2>3 DEF RelayInv, Executed
      <4>3. \A j \in 1 .. i - 1 : W[j] = sql.work[j]
        BY <3>1, <1>6
      <4> QED BY <4>2, <4>3
    <3>2. CASE i = n + 1
      <4>1. UpTo(d, Pending[Future].at) /\ d # Pending[Future].at
        BY <3>2, <2>3, <1>3, <1>6
      <4>2. d \in Done \/ \E w \in DOMAIN Pending :
              UpTo(w, Future) /\ Pending[w].k = "query" /\ Pending[w].at = d
        BY <4>1, <1>2 DEF RelayInv, Relayed, NoGap
      <4>3. ASSUME NEW w \in DOMAIN Pending, UpTo(w, Future), Pending[w].k = "query", Pending[w].at = d
            PROVE  d \in Done \/ \E j \in 1 .. n : sql.work[j] = d
        <5>1. UpTo(w, rli.event)
          BY <4>1, <4>3, <1>2 DEF Step
        <5> QED BY <5>1, <4>3, <1>10 DEF RelayInv, Executed
      <4>4. d \in Done \/ \E j \in 1 .. n : W[j] = d
        BY <4>2, <4>3, <1>6
      <4>5. i - 1 = n
        BY <3>2, <1>6
      <4> QED BY <4>4, <4>5
    <3> QED BY <3>1, <3>2, <1>6, <1>7
  <2> QED BY <2>1, <2>2, <2>3, <1>1, <1>8, <1>10 DEF Executed
<1>13. InOrder'
  BY <1>1 DEF RelayInv, InOrder
<1>14. Once'
  <2> SUFFICES ASSUME ~faults.crash /\ ~faults.kept, WorkOnce, Ordered(Pending) PROVE WorkOnce'
    <3>1. CommittedOnce => CommittedOnce'
      BY <1>1 DEF CommittedOnce
    <3>2. mi' = mi /\ ign' = ign /\ faults' = faults
      BY DEF ExecInTransaction
    <3> QED BY <3>1, <3>2, <1>1, <1>10 DEF RelayInv, Once
  <2>1. WorkIn(Pending, sql.work, rli.event)
    BY <1>10 DEF WorkOnce
  <2>2. ASSUME NEW i \in 1 .. Len(W)
        PROVE  /\ \E w \in DOMAIN Pending : UpTo(w, Future) /\ Pending[w].k = "query" /\ Pending[w].at = W[i]
               /\ \A j \in 1 .. i - 1 : Precedes(W[j], W[i], TRUE)
    <3>1. CASE i \in 1 .. n
      <4>1. W[i] = sql.work[i] /\ \A j \in 1 .. i - 1 : W[j] = sql.work[j]
        BY <3>1, <1>6
      <4>2. PICK w \in DOMAIN Pending : UpTo(w, rli.event) /\ Pending[w].k = "query" /\ Pending[w].at = sql.work[i]
        BY <2>1, <3>1 DEF WorkIn
      <4>3. \A j \in 1 .. i - 1 : Precedes(sql.work[j], sql.work[i], TRUE)
        BY <2>1, <3>1 DEF WorkIn
      <4> QED BY <4>1, <4>2, <4>3, <1>2 DEF Step
    <3>2. CASE i = n + 1
      <4>1. UpTo(Future, Future)
        BY <1>2, PendingFacts, UpToOrder DEF RelayInv
      <4>2. ASSUME NEW j \in 1 .. n PROVE Precedes(sql.work[j], at, TRUE)
        <5>1. PICK w \in DOMAIN Pending : UpTo(w, rli.event) /\ Pending[w].k = "query" /\ Pending[w].at = sql.work[j]
          BY <2>1, <4>2 DEF WorkIn
        <5>2. ~UpTo(Future, w)
          <6>1. w \in Nat \X Nat /\ Future \in Nat \X Nat /\ rli.event \in Nat \X Nat
            BY <1>2, PendingFacts DEF RelayInv, Coordinates
          <6> QED BY <6>1, <5>1, <1>2, UpToOrder
        <5>3. Precedes(Pending[w].at, Pending[Future].at, Pending[Future].k # "rotate")
          BY <5>2, <1>2 DEF Ordered
        <5> QED BY <5>1, <5>3, <1>3 DEF Precedes
      <4>3. i - 1 = n /\ W[i] = at
        BY <3>2, <1>6
      <4>4. \A j \in 1 .. i - 1 : Precedes(W[j], W[i], TRUE)
        BY <4>2, <4>3, <1>6
      <4> QED BY <4>1, <4>3, <4>4, <1>2, <1>3
    <3> QED BY <3>1, <3>2, <1>6, <1>7
  <2>3. WorkIn(Pending, W, Future)
    BY <2>2 DEF WorkIn
  <2> QED BY <2>3, <1>8, <1>10 DEF WorkOnce
<1> QED BY <1>10, <1>12, <1>13, <1>14 DEF RelayInv

(* The three actions that take such a step. *)
LEMMA QuietSteps ==
    ASSUME RelayInv, (ExecSelf /\ sql.begin) \/ (ExecRotate /\ sql.begin) \/ ExecIntvar
    PROVE  RelayInv'
<1>1. /\ sql \in [pc : {"stopped", "next", "committed", "purged", "wait", "broken"},
                  begin : BOOLEAN, work : Seq(Effects), intvar : BOOLEAN, tries : Nat]
      /\ info = [group |-> rli.group, master |-> rli.master]
      /\ rli \in [event : Nat \X Nat, group : Nat \X Nat, master : LogPos, hot : Nat]
  BY DEF RelayInv, Executed, Coordinates
<1>2. CASE ExecSelf /\ sql.begin
  <2>1. QuietStep
    BY <1>1, <1>2 DEF ExecSelf, Executes, IncEvent, QuietStep, EventStep
  <2> QED BY <2>1, QuietStepInv
<1>3. CASE ExecRotate /\ sql.begin
  <2>1. rli' = [rli EXCEPT !.event = Future]
    BY <1>3 DEF ExecRotate, RotateCoordinates
  <2>2. rli'.group = rli.group /\ rli'.master = rli.master
    BY <2>1, <1>1
  <2>3. info' = info
    BY <2>2, <1>1, <1>3 DEF ExecRotate
  <2>4. QuietStep
    BY <2>1, <2>3, <1>1, <1>3 DEF ExecRotate, Executes, QuietStep, EventStep
  <2> QED BY <2>4, QuietStepInv
<1>4. CASE ExecIntvar
  <2>1. /\ sql' \in [pc : {"stopped", "next", "committed", "purged", "wait", "broken"},
                     begin : BOOLEAN, work : Seq(Effects), intvar : BOOLEAN, tries : Nat]
        /\ sql'.pc = "next" /\ sql'.begin = sql.begin /\ sql'.work = sql.work
        /\ NextEvent.k = "intvar" /\ sql.pc = "next" /\ ~AtEof
    BY <1>1, <1>4 DEF ExecIntvar, Executes
  <2>2. rli' = [rli EXCEPT !.event = Future] /\ info' = info
    BY <1>4 DEF ExecIntvar, IncEvent
  <2>3. sql'.begin \/ (~sql.begin /\ NextEvent.k # "self")
    BY <2>1, <1>1
  <2>4. UNCHANGED <<mi, minfo, io, ign, log, db, ignore_log_space_limit, faults>>
    BY <1>4 DEF ExecIntvar
  <2>5. EventStep
    BY <2>1, <2>2, <2>3, <2>4 DEF EventStep
  <2>6. QuietStep
    BY <2>1, <2>4, <2>5 DEF QuietStep
  <2> QED BY <2>6, QuietStepInv
<1> QED BY <1>2, <1>3, <1>4

-----------------------------------------------------------------------------
(* The engine commits W. *)

(* Indices of s \o t. *)
LEMMA Concatenation ==
    ASSUME NEW S, NEW s \in Seq(S), NEW t \in Seq(S)
    PROVE  /\ s \o t \in Seq(S) /\ Len(s \o t) = Len(s) + Len(t)
           /\ \A i \in 1 .. Len(s) : i \in 1 .. Len(s \o t) /\ (s \o t)[i] = s[i]
           /\ \A i \in 1 .. Len(t) : Len(s) + i \in 1 .. Len(s \o t) /\ (s \o t)[Len(s) + i] = t[i]
           /\ \A k \in 1 .. Len(s \o t) :
                k \in 1 .. Len(s) \/ \E i \in 1 .. Len(t) : k = Len(s) + i
<1>1. /\ s \o t \in Seq(S) /\ Len(s \o t) = Len(s) + Len(t) /\ Len(s) \in Nat /\ Len(t) \in Nat
      /\ \A i \in 1 .. Len(s) : (s \o t)[i] = s[i]
      /\ \A i \in 1 .. Len(t) : (s \o t)[Len(s) + i] = t[i]
  OBVIOUS
<1> DEFINE m == Len(s)
           n == Len(t)
<1>2. m \in Nat /\ n \in Nat
  BY <1>1
<1>3. ASSUME NEW k \in 1 .. m + n PROVE k \in 1 .. m \/ \E i \in 1 .. n : k = m + i
  <2> HIDE DEF m, n
  <2>1. CASE k > m
    <3>1. k - m \in 1 .. n /\ k = m + (k - m)
      BY <2>1, <1>2
    <3> QED BY <3>1
  <2> QED BY <2>1, <1>2
<1>4. \A i \in 1 .. m : i \in 1 .. m + n
  BY <1>2
<1>5. \A i \in 1 .. n : m + i \in 1 .. m + n
  BY <1>2
<1> QED BY <1>1, <1>3, <1>4, <1>5

Distinct(D, W) ==
    \A i \in 1 .. Len(W) : W[i] \notin D /\ \A j \in 1 .. i - 1 : W[j] # W[i]

(* A commit of W in order, and without repetition if W is new. *)
LEMMA Commits ==
    ASSUME InOrder, NEW W \in Seq(Effects), Ripe(Done, W), db' = db \o W
    PROVE  /\ InOrder' /\ Done \subseteq Done'
           /\ \A i \in 1 .. Len(W) : W[i] \in Done'
           /\ \A d \in Done' : d \in Done \/ \E i \in 1 .. Len(W) : W[i] = d
           /\ CommittedOnce /\ Distinct(Done, W) => CommittedOnce'
<1> DEFINE m == Len(db)
           n == Len(W)
           s == db
           t == db \o W
<1>1. s \in Seq(Effects) /\ m \in Nat /\ n \in Nat /\ db' = t
  BY DEF InOrder
<1>2. /\ t \in Seq(Effects) /\ Len(t) = m + n
      /\ \A i \in 1 .. m : i \in 1 .. m + n /\ t[i] = s[i]
      /\ \A i \in 1 .. n : m + i \in 1 .. m + n /\ t[m + i] = W[i]
      /\ \A k \in 1 .. m + n : k \in 1 .. m \/ \E i \in 1 .. n : k = m + i
  BY <1>1, Concatenation
<1>3. /\ \A d : d \in Done <=> \E i \in 1 .. m : d = s[i]
      /\ \A d : d \in Done' <=> \E i \in 1 .. m + n : d = t[i]
  BY <1>1, <1>2 DEF Done
<1>4. \A i \in 1 .. m : \A e \in Effects :
         UpTo(e, s[i]) /\ e # s[i] => \E j \in 1 .. i - 1 : s[j] = e
  BY DEF InOrder
<1>5. CommittedOnce <=> \A i, j \in 1 .. m : s[i] = s[j] => i = j
  BY DEF CommittedOnce
<1>6. CommittedOnce' <=> \A i, j \in 1 .. m + n : t[i] = t[j] => i = j
  BY <1>1, <1>2 DEF CommittedOnce
<1>7. InOrder' <=> /\ t \in Seq(Effects)
                   /\ \A i \in 1 .. m + n : \A e \in Effects :
                        UpTo(e, t[i]) /\ e # t[i] => \E j \in 1 .. i - 1 : t[j] = e
  BY <1>1, <1>2 DEF InOrder
<1>8. /\ \A i \in 1 .. n : \A e \in Effects : UpTo(e, W[i]) /\ e # W[i]
           => e \in Done \/ \E j \in 1 .. i - 1 : W[j] = e
  BY DEF Ripe
<1> HIDE DEF m, n, s, t
<1>9. Done \subseteq Done'
  BY <1>2, <1>3
<1>10. \A i \in 1 .. n : W[i] \in Done'
  <2> TAKE i \in 1 .. n
  <2>1. m + i \in 1 .. m + n /\ t[m + i] = W[i]
    BY <1>2
  <2> QED BY <2>1, <1>3
<1>11. \A d \in Done' : d \in Done \/ \E i \in 1 .. n : W[i] = d
  <2> TAKE d \in Done'
  <2>1. PICK k \in 1 .. m + n : d = t[k]
    BY <1>3
  <2>2. CASE k \in 1 .. m
    BY <2>1, <2>2, <1>2, <1>3
  <2>3. CASE \E i \in 1 .. n : k = m + i
    BY <2>1, <2>3, <1>2
  <2> QED BY <2>2, <2>3, <1>2
<1>12. ASSUME NEW k \in 1 .. m + n, NEW e \in Effects, UpTo(e, t[k]), e # t[k]
       PROVE  \E j \in 1 .. k - 1 : t[j] = e
  <2>1. CASE k \in 1 .. m
    <3>1. t[k] = s[k]
      BY <2>1, <1>2
    <3>2. PICK j \in 1 .. k - 1 : s[j] = e
      BY <3>1, <2>1, <1>4, <1>12
    <3>3. j \in 1 .. m
      BY <2>1, <1>1
    <3> QED BY <3>2, <3>3, <1>2
  <2>2. CASE \E i \in 1 .. n : k = m + i
    <3>1. PICK i \in 1 .. n : k = m + i
      BY <2>2
    <3>2. t[k] = W[i]
      BY <3>1, <1>2
    <3>3. e \in Done \/ \E j \in 1 .. i - 1 : W[j] = e
      BY <3>2, <1>8, <1>12
    <3>4. CASE e \in Done
      <4>1. PICK j \in 1 .. m : e = s[j]
        BY <3>4, <1>3
      <4>2. j \in 1 .. k - 1 /\ t[j] = e
        BY <4>1, <3>1, <1>1, <1>2
      <4> QED BY <4>2
    <3>5. ASSUME NEW j \in 1 .. i - 1, W[j] = e PROVE \E h \in 1 .. k - 1 : t[h] = e
      <4>1. j \in 1 .. n /\ m + j \in 1 .. k - 1
        BY <3>1, <1>1
      <4>2. t[m + j] = e
        BY <4>1, <3>5, <1>2
      <4> QED BY <4>1, <4>2
    <3> QED BY <3>3, <3>4, <3>5
  <2> QED BY <2>1, <2>2, <1>2
<1>13. ASSUME CommittedOnce, Distinct(Done, W) PROVE CommittedOnce'
  <2>0. \A i \in 1 .. n : W[i] \notin Done /\ \A j \in 1 .. i - 1 : W[j] # W[i]
    BY <1>13 DEF Distinct, n
  <2> SUFFICES ASSUME NEW k \in 1 .. m + n, NEW l \in 1 .. m + n, t[k] = t[l] PROVE k = l
    BY <1>6
  <2>1. CASE k \in 1 .. m /\ l \in 1 .. m
    BY <2>1, <1>2, <1>5, <1>13
  <2>2. ASSUME NEW i \in 1 .. n, NEW j \in 1 .. m PROVE t[m + i] # t[j]
    BY <2>0, <2>2, <1>2, <1>3
  <2>3. ASSUME NEW i \in 1 .. n, NEW j \in 1 .. n, t[m + i] = t[m + j] PROVE i = j
    <3>1. W[i] = W[j]
      BY <2>3, <1>2
    <3>2. ~(i \in 1 .. j - 1) /\ ~(j \in 1 .. i - 1)
      BY <3>1, <2>0
    <3> QED BY <3>2, <1>1
  <2> QED BY <2>1, <2>2, <2>3, <1>2
<1> QED BY <1>2, <1>7, <1>9, <1>10, <1>11, <1>12, <1>13 DEF n

(* BEGIN commits what is open: what a lock wait timeout has left of the    *)
(* transaction that is retried, or a transaction that a crash has cut off. *)
LEMMA ExecBeginInv ==
    ASSUME RelayInv, ExecBegin PROVE RelayInv'
<1>1. sql.pc = "next" /\ ~AtEof /\ NextEvent.k = "begin" /\ db' = db \o sql.work
  BY DEF ExecBegin, Executes
<1>2. /\ sql \in [pc : {"stopped", "next", "committed", "purged", "wait", "broken"},
                  begin : BOOLEAN, work : Seq(Effects), intvar : BOOLEAN, tries : Nat]
      /\ sql.work \in Seq(Effects) /\ Ripe(Done, sql.work) /\ InOrder
      /\ ~sql.begin => sql.work = << >>
  BY DEF RelayInv, Executed, Ripe
<1>3. /\ InOrder' /\ Done \subseteq Done'
      /\ \A i \in 1 .. Len(sql.work) : sql.work[i] \in Done'
      /\ \A d \in Done' : d \in Done \/ \E i \in 1 .. Len(sql.work) : sql.work[i] = d
      /\ CommittedOnce /\ Distinct(Done, sql.work) => CommittedOnce'
  BY <1>1, <1>2, Commits
<1>4. /\ sql' \in [pc : {"stopped", "next", "committed", "purged", "wait", "broken"},
                   begin : BOOLEAN, work : Seq(Effects), intvar : BOOLEAN, tries : Nat]
      /\ sql'.pc = "next" /\ sql'.begin /\ sql'.work = << >> /\ Len(sql'.work) = 0
  <2>1. sql' = [sql EXCEPT !.begin = TRUE, !.work = << >>]
    BY DEF ExecBegin
  <2>2. << >> \in Seq(Effects) /\ Len(<< >>) = 0
    OBVIOUS
  <2>3. sql'.pc = "next" /\ sql'.begin /\ sql'.work = << >> /\ sql'.intvar = sql.intvar
    BY <2>1, <1>1, <1>2
  <2> QED BY <2>1, <2>2, <2>3, <1>2
<1>5. EventStep
  BY <1>1, <1>4 DEF EventStep, ExecBegin, IncEvent
<1>6. /\ GoodLog(log)' /\ Coordinates' /\ Io' /\ Relayed' /\ Latest'
      /\ rli'.event = Future /\ rli'.group = rli.group /\ rli'.master = rli.master
      /\ Pending' = Pending /\ Reading /\ Reading'
      /\ InFile(Pending', rli'.master[1], rli'.event)
      /\ Linked' => GoesOn(Pending', rli'.master[1], mi'[1], rli'.event)
      /\ Mark' = Mark /\ Reached' = Reached
  BY <1>3, <1>5, EventStepParts
<1>7. /\ Step(Pending, rli.event, Future) /\ ~UpTo(Future, rli.event)
      /\ Future \in DOMAIN Pending /\ Pending[Future].k = "begin" /\ UpTo(Future, Future)
  BY <1>1, NextFacts, UpToOrder
<1>8. Pending[Future].at[1] = rli.master[1]
  <2>1. InFile(Pending, rli.master[1], rli.event)
    BY <1>6 DEF RelayInv, Executed
  <2>2. Pending[Future].k # "rotate"
    BY <1>7
  <2> QED BY <2>1, <2>2, <1>7, StepOnto
<1>9. \A w \in DOMAIN Pending : UpTo(w, rli.event) =>
        /\ Pending[w].k # "commit"
        /\ Pending[w].k = "query" =>
             Pending[w].at \in Done \/ \E i \in 1 .. Len(sql.work) : sql.work[i] = Pending[w].at
  BY <1>6 DEF RelayInv, Executed
<1>10. Executed'
  <2>1. \A w \in DOMAIN Pending : UpTo(w, Future) =>
          Pending[w].k # "commit" /\ (Pending[w].k = "query" => Pending[w].at \in Done')
    <3> TAKE w \in DOMAIN Pending
    <3> SUFFICES ASSUME UpTo(w, Future)
                 PROVE  Pending[w].k # "commit" /\ (Pending[w].k = "query" => Pending[w].at \in Done')
      OBVIOUS
    <3>1. CASE UpTo(w, rli.event)
      BY <3>1, <1>3, <1>9
    <3>2. CASE w = Future
      BY <3>2, <1>7
    <3> QED BY <3>1, <3>2, <1>7 DEF Step
  <2>2. Opened(Pending, rli.master[1])
    <3>1. CASE sql.begin
      BY <3>1, <1>1 DEF RelayInv, Executed
    <3>2. CASE ~sql.begin
      <4>1. \A w \in DOMAIN Pending : UpTo(w, rli.event) => Pending[w].k = "intvar"
        BY <3>2, <1>1 DEF RelayInv, Executed
      <4>2. \A w \in DOMAIN Pending : ~UpTo(Future, w) => UpTo(w, rli.event)
        <5> TAKE w \in DOMAIN Pending
        <5>1. w \in Nat \X Nat /\ Future \in Nat \X Nat
          BY <1>1, NextFacts, PendingFacts DEF RelayInv
        <5>2. ~UpTo(Future, w) => UpTo(w, Future) /\ w # Future
          BY <5>1, <1>7, UpToOrder
        <5> QED BY <5>2, <1>7 DEF Step
      <4> QED BY <4>1, <4>2, <1>7, <1>8 DEF Opened
    <3> QED BY <3>1, <3>2
  <2> QED BY <2>1, <2>2, <1>4, <1>6 DEF Executed
<1>11. Once'
  <2> SUFFICES ASSUME ~faults.crash /\ ~faults.kept PROVE Once'
    BY DEF ExecBegin, Once
  <2>1. ASSUME NEW i \in 1 .. Len(sql.work) PROVE FALSE
    <3>1. PICK w \in DOMAIN Pending : UpTo(w, rli.event) /\ Pending[w].k = "query"
      BY <1>6 DEF RelayInv, Once, WorkOnce, WorkIn
    <3>2. sql.begin
      BY <1>2
    <3>3. PICK b \in DOMAIN Pending : /\ Pending[b].k = "begin" /\ UpTo(b, w)
      BY <3>1, <3>2, <1>1 DEF RelayInv, Executed, Opened
    <3>4. /\ b \in Nat \X Nat /\ w \in Nat \X Nat
          /\ Future \in Nat \X Nat /\ rli.event \in Nat \X Nat
      BY <1>1, NextFacts, PendingFacts DEF RelayInv
    <3>5. ~UpTo(Future, b)
      BY <3>1, <3>3, <3>4, <1>7, UpToOrder
    <3>6. PICK c \in DOMAIN Pending : ~UpTo(c, b) /\ UpTo(c, Future) /\ Pending[c].k = "commit"
      BY <3>3, <3>5, <1>7 DEF RelayInv, Once, Separate
    <3>7. UpTo(c, rli.event)
      BY <3>6, <1>7 DEF Step
    <3> QED BY <3>6, <3>7, <1>9
  <2>3. Done' = Done /\ Distinct(Done, sql.work)
    <3>1. \A i \in 1 .. Len(sql.work) : FALSE
      BY <2>1
    <3>2. Done' \subseteq Done
      BY <3>1, <1>3
    <3> QED BY <3>1, <3>2, <1>3 DEF Distinct
  <2>4. CommittedOnce'
    BY <2>3, <1>3 DEF RelayInv, Once
  <2>5. WorkOnce'
    BY <1>4 DEF WorkOnce, WorkIn
  <2>6. mi' = mi /\ ign' = ign /\ faults' = faults
    BY DEF ExecBegin
  <2> QED BY <2>3, <2>4, <2>5, <2>6, <1>6 DEF RelayInv, Once
<1> QED BY <1>3, <1>6, <1>10, <1>11 DEF RelayInv

(* the commit of a transaction, or of a query outside one; the positions *)
(* follow in the next step                                                 *)
LEMMA ExecCommitInv ==
    ASSUME RelayInv, ExecCommit PROVE RelayInv'
<1>1. /\ sql.pc = "next" /\ ~AtEof /\ NextEvent.k \in {"commit", "query"}
      /\ NextEvent.k = "query" => ~sql.begin
      /\ UNCHANGED <<mi, minfo, io, ign, log, rli, info, ignore_log_space_limit, faults>>
  BY DEF ExecCommit, Executes
<1>2. /\ sql.work \in Seq(Effects) /\ Ripe(Done, sql.work) /\ InOrder
      /\ ~sql.begin => sql.work = << >>
      /\ PendingType(Pending)
      /\ Reading
  BY <1>1 DEF RelayInv, Executed, Ripe, Relayed, Reading
<1>3. /\ Step(Pending, rli.event, Future) /\ ~UpTo(Future, rli.event)
      /\ Future \in DOMAIN Pending /\ Pending[Future] = NextEvent /\ UpTo(Future, Future)
      /\ Future \in Nat \X Nat /\ rli.event \in Nat \X Nat
  BY <1>1, NextFacts, UpToOrder
<1> DEFINE at == NextEvent.at
           W == IF NextEvent.k = "commit" THEN sql.work ELSE <<at>>
<1>4. /\ at \in LogPos /\ Pending[Future].at = at /\ Pending[Future].k = NextEvent.k
      /\ NextEvent.k = "query" => at \in Effects
  BY <1>1, <1>2, <1>3 DEF PendingType, Effects
<1>5. db' = db \o W
  BY DEF ExecCommit
<1> HIDE DEF at
<1>6. NextEvent.k = "query" => /\ W = <<at>> /\ Len(W) = 1 /\ W[1] = at
                               /\ \A i \in 1 .. Len(W) : i = 1
  BY <1>4
<1>7. NextEvent.k = "commit" => W = sql.work
  OBVIOUS
<1>8. W \in Seq(Effects)
  BY <1>1, <1>2, <1>4
<1> HIDE DEF W
<1>9. \A w \in DOMAIN Pending : UpTo(w, rli.event) =>
        /\ Pending[w].k # "commit"
        /\ Pending[w].k = "query" =>
             Pending[w].at \in Done \/ \E i \in 1 .. Len(sql.work) : sql.work[i] = Pending[w].at
  BY <1>2 DEF RelayInv, Executed
<1>10. ~sql.begin => \A w \in DOMAIN Pending : UpTo(w, rli.event) => Pending[w].k = "intvar"
  BY <1>1 DEF RelayInv, Executed
<1>11. NextEvent.k = "query" => \A w \in DOMAIN Pending : UpTo(w, Future) /\ Pending[w].k = "query" => w = Future
  BY <1>1, <1>3, <1>10 DEF Step
<1>12. Ripe(Done, W)
  <2>1. CASE NextEvent.k = "commit"
    BY <2>1, <1>2, <1>7
  <2>2. CASE NextEvent.k = "query"
    <3>1. ASSUME NEW e \in Effects, UpTo(e, at), e # at PROVE e \in Done
      <4>1. e \in Done \/ \E w \in DOMAIN Pending : UpTo(w, Future) /\ Pending[w].k = "query" /\ Pending[w].at = e
        BY <3>1, <1>3, <1>4 DEF RelayInv, Relayed, NoGap
      <4> QED BY <4>1, <3>1, <2>2, <1>4, <1>11
    <3> QED BY <3>1, <2>2, <1>6 DEF Ripe
  <2> QED BY <2>1, <2>2, <1>1
<1>13. /\ InOrder' /\ Done \subseteq Done'
       /\ \A i \in 1 .. Len(W) : W[i] \in Done'
       /\ \A d \in Done' : d \in Done \/ \E i \in 1 .. Len(W) : W[i] = d
       /\ CommittedOnce /\ Distinct(Done, W) => CommittedOnce'
  BY <1>2, <1>5, <1>8, <1>12, Commits
<1>14. sql' = [pc |-> "committed", begin |-> FALSE, work |-> << >>, intvar |-> FALSE, tries |-> 0]
  BY DEF ExecCommit, SqlStopped
<1>15. /\ Pending' = Pending /\ End' = End /\ Cuts' = Cuts /\ Active' = Active /\ GoodLog(log)'
       /\ Linked' = Linked /\ Settled' = Settled /\ Reading' /\ Future' = Future
  BY <1>1, <1>14 DEF RelayInv, Pending, End, Cuts, Active, Linked, Settled, Reading, Future
<1>16. Coordinates'
  BY <1>1, <1>2, <1>14, <1>15 DEF RelayInv, Coordinates
<1>17. Io'
  BY <1>1, <1>14, <1>15 DEF RelayInv, Io
<1>18. Relayed'
  <2>1. NoGap(Pending, Done') /\ Supported(Pending, Done', mi, End) /\ Known(Done', rli.master)
        /\ \A c \in Cuts : Supported(Pending, Done', minfo, c)
    BY <1>13, MoreDone DEF RelayInv, Relayed
  <2> QED BY <2>1, <1>1, <1>15 DEF RelayInv, Relayed
<1>19. \A w \in DOMAIN Pending : UpTo(w, rli.event) =>
         Pending[w].k # "commit" /\ (Pending[w].k = "query" => Pending[w].at \in Done')
  <2> TAKE w \in DOMAIN Pending
  <2>1. CASE NextEvent.k = "commit"
    BY <2>1, <1>7, <1>9, <1>13
  <2>2. CASE NextEvent.k = "query"
    BY <2>2, <1>1, <1>10
  <2> QED BY <2>1, <2>2, <1>1
<1>20. NextEvent.k = "query" => at \in Done'
  BY <1>6, <1>13
<1>21. Executed'
  <2>1. /\ InFile(Pending, rli.master[1], rli.event)
        /\ Linked => GoesOn(Pending, rli.master[1], mi[1], rli.event)
    BY <1>2 DEF RelayInv, Executed
  <2>2. /\ sql' \in [pc : {"stopped", "next", "committed", "purged", "wait", "broken"},
                     begin : BOOLEAN, work : Seq(Effects), intvar : BOOLEAN, tries : Nat]
        /\ sql'.pc = "committed" /\ ~sql'.begin /\ sql'.work = << >> /\ Len(sql'.work) = 0
    BY <1>14
  <2>3. Pending[Future].k \in {"commit", "query"}
        /\ (Pending[Future].k = "query" => Pending[Future].at \in Done'
              /\ \A w \in DOMAIN Pending : UpTo(w, rli.event) => Pending[w].k = "intvar")
    BY <1>1, <1>4, <1>10, <1>20
  <2> QED BY <2>1, <2>2, <2>3, <1>1, <1>3, <1>15, <1>19 DEF Executed
<1>22. ~faults.crash /\ ~faults.kept => Once'
  <2> SUFFICES ASSUME ~faults.crash /\ ~faults.kept PROVE Once'
    OBVIOUS
  <2>1. /\ Ordered(Pending) /\ Separate(Pending) /\ Bounded(Pending, Done, mi)
        /\ ign # None => Bounded(Pending, Done, ign)
        /\ NotYet(Pending, Done, rli.group) /\ CommittedOnce
        /\ WorkIn(Pending, sql.work, rli.event)
    BY <1>1, <1>2 DEF RelayInv, Once, Mark, WorkOnce
  <2>2. WorkIn(Pending, W, Future)
    <3>1. CASE NextEvent.k = "commit"
      BY <3>1, <2>1, <1>3, <1>7, WorkGoesOn
    <3>2. CASE NextEvent.k = "query"
      <4>1. \A i \in 1 .. Len(W) : \A j \in 1 .. i - 1 : FALSE
        BY <3>2, <1>6
      <4> QED BY <4>1, <3>2, <1>3, <1>4, <1>6 DEF WorkIn
    <3> QED BY <3>1, <3>2, <1>1
  <2>3. Distinct(Done, W)
    <3> SUFFICES ASSUME NEW i \in 1 .. Len(W)
                 PROVE  W[i] \notin Done /\ \A j \in 1 .. i - 1 : W[j] # W[i]
      BY DEF Distinct
    <3>1. PICK w \in DOMAIN Pending : Pending[w].k = "query" /\ Pending[w].at = W[i]
      BY <2>2 DEF WorkIn
    <3>2. \A j \in 1 .. i - 1 : W[j] # W[i]
      BY <2>2 DEF WorkIn, Precedes
    <3>3. ~UpTo(w, rli.group)
      BY PendingFacts DEF RelayInv
    <3>4. \A d \in Done : d # W[i]
      BY <2>1, <3>1, <3>3 DEF NotYet, Precedes
    <3> QED BY <3>2, <3>4
  <2>4. \A d \in Done' : d \in Done \/ \E w \in DOMAIN Pending :
           UpTo(w, Future) /\ Pending[w].k = "query" /\ Pending[w].at = d
    <3> TAKE d \in Done'
    <3>1. ASSUME NEW i \in 1 .. Len(W), W[i] = d
          PROVE  \E w \in DOMAIN Pending : UpTo(w, Future) /\ Pending[w].k = "query" /\ Pending[w].at = d
      BY <3>1, <2>2 DEF WorkIn
    <3> QED BY <3>1, <1>13
  <2>5. Bounded(Pending, Done', mi) /\ (ign # None => Bounded(Pending, Done', ign))
    BY <2>1, <2>4 DEF Bounded
  <2>6. NotYet(Pending, Done', Future)
    <3> SUFFICES ASSUME NEW d \in Done', NEW z \in DOMAIN Pending, ~UpTo(z, Future)
                 PROVE  Precedes(d, Pending[z].at, Pending[z].k # "rotate")
      BY DEF NotYet
    <3>1. CASE d \in Done
      <4>1. ~UpTo(z, rli.group)
        BY PendingFacts DEF RelayInv
      <4> QED BY <4>1, <3>1, <2>1 DEF NotYet
    <3>2. ASSUME NEW w \in DOMAIN Pending, UpTo(w, Future), Pending[w].at = d
          PROVE  Precedes(d, Pending[z].at, Pending[z].k # "rotate")
      <4>1. z \in Nat \X Nat /\ w \in Nat \X Nat
        BY PendingFacts DEF RelayInv
      <4>2. ~UpTo(z, w)
        BY <4>1, <3>2, <1>3, UpToOrder
      <4> QED BY <4>2, <3>2, <2>1 DEF Ordered
    <3> QED BY <3>1, <3>2, <2>4
  <2>7. \A d \in Done' : UpTo(d, at)
    <3> TAKE d \in Done'
    <3>1. CASE d \in Done
      <4>1. ~UpTo(Future, rli.group)
        BY <1>3, PendingFacts DEF RelayInv
      <4> QED BY <4>1, <3>1, <2>1, <1>3, <1>4 DEF NotYet, Precedes
    <3>2. ASSUME NEW w \in DOMAIN Pending, UpTo(w, Future), Pending[w].at = d
          PROVE  UpTo(d, at)
      <4>1. CASE w = Future
        BY <4>1, <3>2, <1>4, PlacesArePairs, UpToOrder
      <4>2. CASE w # Future
        <5>1. w \in Nat \X Nat
          BY PendingFacts DEF RelayInv
        <5>2. ~UpTo(Future, w)
          BY <5>1, <4>2, <3>2, <1>3, UpToOrder
        <5> QED BY <5>2, <3>2, <2>1, <1>3, <1>4 DEF Ordered, Precedes
      <4> QED BY <4>1, <4>2
    <3> QED BY <3>1, <3>2, <2>4
  <2>8. Mark' = Future /\ Reached' = at
    BY <1>4, <1>14, <1>15 DEF Mark, Reached
  <2>9. WorkOnce'
    BY <1>14 DEF WorkOnce, WorkIn
  <2> QED BY <2>1, <2>3, <2>5, <2>6, <2>7, <2>8, <2>9, <1>1, <1>13, <1>15 DEF Once
<1>23. Once'
  BY <1>22, <1>1 DEF Once
<1>24. Latest'
  BY <1>1, <1>15 DEF RelayInv, Latest
<1> QED BY <1>13, <1>15, <1>16, <1>17, <1>18, <1>21, <1>23, <1>24 DEF RelayInv

-----------------------------------------------------------------------------
(* inc_group_relay_log_pos: the group's coordinates move to g, those of the *)
(* master's log to m.                                                      *)

UpToDate(P, m, x, c) ==
    \/ DOMAIN P = {} /\ (m = x \/ (x \in Events /\ KindOf(x) = "intvar"))
    \/ \E u \in DOMAIN P : (\A w \in DOMAIN P : UpTo(w, u)) /\ P[u].at = x
    \/ \E b \in DOMAIN P : Dangling(P, b, c)

(* Latest is UpToDate of the variables. *)
LEMMA LatestIs == Latest <=> (Settled /\ ign = None => UpToDate(Pending, rli.master, mi, End))
BY DEF Latest, UpToDate

(* The last thing read can still be found when the group moves to g. *)
LEMMA DropUpToDate ==
    ASSUME NEW P, NEW Q, NEW g, PendingType(P), Dropped(P, Q, g), g \in Nat \X Nat,
           NEW h, NEW m, NEW x, NEW c, UpToDate(P, h, x, c),
           DOMAIN P = {} => m = h,
           \A u \in DOMAIN P : UpTo(u, g) /\ (\A w \in DOMAIN P : UpTo(w, u)) /\ P[u].at = x
             => m = x \/ (x \in Events /\ KindOf(x) = "intvar"),
           \A b \in DOMAIN P : UpTo(b, g) => ~Dangling(P, b, c)
    PROVE  UpToDate(Q, m, x, c)
<1>1. /\ \A z : z \in DOMAIN Q <=> z \in DOMAIN P /\ ~UpTo(z, g)
      /\ \A z \in DOMAIN Q : Q[z] = P[z] /\ z \in DOMAIN P
      /\ \A z \in DOMAIN P : z \in Nat \X Nat
  BY DroppedBy
<1>2. CASE DOMAIN P = {} /\ (h = x \/ (x \in Events /\ KindOf(x) = "intvar"))
  BY <1>1, <1>2 DEF UpToDate
<1>3. ASSUME NEW u \in DOMAIN P, \A w \in DOMAIN P : UpTo(w, u), P[u].at = x
      PROVE  UpToDate(Q, m, x, c)
  <2>1. CASE UpTo(u, g)
    <3>1. \A w \in DOMAIN P : UpTo(w, g)
      BY <2>1, <1>1, <1>3, UpToOrder
    <3>2. DOMAIN Q = {}
      BY <3>1, <1>1
    <3> QED BY <3>2, <2>1, <1>3 DEF UpToDate
  <2>2. CASE ~UpTo(u, g)
    <3>1. u \in DOMAIN Q /\ Q[u].at = x /\ \A w \in DOMAIN Q : UpTo(w, u)
      BY <2>2, <1>1, <1>3
    <3> QED BY <3>1 DEF UpToDate
  <2> QED BY <2>1, <2>2
<1>4. ASSUME NEW b \in DOMAIN P, Dangling(P, b, c) PROVE UpToDate(Q, m, x, c)
  <2>1. b \in DOMAIN Q
    BY <1>1, <1>4
  <2>2. Dangling(Q, b, c)
    BY <2>1, <1>4, DropOrdered
  <2> QED BY <2>1, <2>2 DEF UpToDate
<1> QED BY <1>2, <1>3, <1>4 DEF UpToDate

GroupMove(g, m) ==
    /\ UNCHANGED <<mi, minfo, io, log, db, ignore_log_space_limit, faults>>
    /\ rli' = [event |-> g, group |-> g, master |-> m, hot |-> rli.hot]
    /\ info' = [group |-> g, master |-> m]
    /\ sql.pc \in {"next", "committed"}
    /\ sql' \in [pc : {"stopped", "next", "committed", "purged", "wait", "broken"},
                 begin : BOOLEAN, work : Seq(Effects), intvar : BOOLEAN, tries : Nat]
    /\ sql'.pc = "next" /\ ~sql'.begin /\ sql'.work = << >>
    /\ ign' = None \/ ign' = ign
    /\ g \in Nat \X Nat /\ g[1] = rli.event[1] /\ UpTo(rli.group, g) /\ UpTo(g, End)
    /\ m \in LogPos /\ Known(Done, m) /\ Gone(Pending, Done, g)
    /\ InFile(Pending, m[1], g) /\ (Linked => GoesOn(Pending, m[1], mi[1], g))
    /\ ~faults.crash /\ ~faults.kept => NotYet(Pending, Done, g) /\ \A d \in Done : UpTo(d, m)
    /\ Settled /\ ign' = None => UpToDate(PendingOf(log, g), m, mi, End)

(* Such a move keeps the invariant. *)
LEMMA GroupMoveInv ==
    ASSUME RelayInv, NEW g, NEW m, GroupMove(g, m) PROVE RelayInv'
<1> DEFINE P == PendingOf(log, g)
<1>1. /\ g \in Nat \X Nat /\ rli.group \in Nat \X Nat /\ UpTo(rli.group, g) /\ GoodLog(log)
      /\ PendingType(Pending) /\ rli.hot \in Nat /\ m \in LogPos
  BY DEF RelayInv, Coordinates, GroupMove, Relayed
<1>2. Dropped(Pending, P, g)
  BY <1>1, MoveGroup DEF Pending
<1>3. /\ rli' \in [event : Nat \X Nat, group : Nat \X Nat, master : LogPos, hot : Nat]
      /\ rli'.event = g /\ rli'.group = g /\ rli'.master = m /\ rli'.hot = rli.hot
      /\ info' = [group |-> g, master |-> m]
  BY <1>1 DEF GroupMove
<1>4. Pending' = P
  BY <1>3 DEF Pending, GroupMove
<1>5. /\ End' = End /\ Cuts' = Cuts /\ Active' = Active /\ GoodLog(log)' /\ Done' = Done
      /\ Linked' = Linked /\ Settled' = Settled /\ Reading /\ Reading'
  BY <1>1 DEF GroupMove, End, Cuts, Active, Linked, Settled, Reading, Done
<1>6. Gone(Pending, Done, g)
  BY DEF GroupMove
<1>7. /\ NoGap(Pending, Done) => NoGap(P, Done)
      /\ \A x, c : Supported(Pending, Done, x, c) => Supported(P, Done, x, c)
  BY <1>1, <1>2, <1>6, DropSupported
<1>8. /\ SameFile(Pending) => SameFile(P)
      /\ \A f : InFile(Pending, f, g) => InFile(P, f, g)
      /\ \A f : EndsIn(Pending, f) => EndsIn(P, f)
      /\ \A h, f : GoesOn(Pending, h, f, g) => GoesOn(P, h, f, g)
      /\ RotateInside(Pending) => RotateInside(P)
  BY <1>1, <1>2, DropFiles
<1>9. /\ PendingType(P)
      /\ Ordered(Pending) => Ordered(P)
      /\ Separate(Pending) => Separate(P)
      /\ \A D, x : Bounded(Pending, D, x) => Bounded(P, D, x)
      /\ \A D, p : NotYet(Pending, D, p) => NotYet(P, D, p)
  BY <1>1, <1>2, DropOrdered
<1>10. \A z \in DOMAIN P : ~UpTo(z, g) /\ z \in DOMAIN Pending
  BY <1>2 DEF Dropped
<1> HIDE DEF P
<1>11. Coordinates'
  <2>0. sql.pc \notin {"purged", "broken"} /\ log.first \in Nat /\ Active \in Nat
    <3>1. sql.pc \in {"next", "committed"}
      BY DEF GroupMove
    <3>2. log.first \in Nat /\ Active \in Nat
      BY <1>1 DEF GoodLog, Active
    <3> QED BY <3>1, <3>2
  <2>1. /\ rli.event[1] \in 1 .. Active /\ rli.group[1] \in 1 .. Active /\ rli.hot <= Active
        /\ rli.group[1] >= log.first /\ log.first \in Nat /\ Active \in Nat
        /\ rli.hot = 0 => rli.event[1] < Active
        /\ rli.hot # 0 => rli.hot = rli.event[1]
    BY <2>0, <1>5 DEF RelayInv, Coordinates
  <2>2. g[1] = rli.event[1] /\ UpTo(g, End) /\ sql'.pc = "next" /\ log' = log
    BY DEF GroupMove
  <2>3. g[1] >= log.first /\ g[1] \in 1 .. Active
    BY <2>1, <2>2, <1>1 DEF UpTo
  <2>4. UpTo(g, g)
    BY <1>1, UpToOrder
  <2> QED BY <2>1, <2>2, <2>3, <2>4, <1>3, <1>5 DEF Coordinates
<1>12. Io'
  <2>1. io'.pc \in {"info", "last_info"} => \A z \in DOMAIN Pending' : UpTo(z, <<Active', log'.flushed>>)
    BY <1>4, <1>5, <1>10 DEF RelayInv, Io, GroupMove
  <2>2. io'.pc # "broken"
    BY DEF RelayInv, Io, GroupMove
  <2> QED BY <2>1, <2>2 DEF RelayInv, Io, GroupMove
<1>13. Relayed'
  <2>1. /\ InFile(P, m[1], g) /\ (Linked => GoesOn(P, m[1], mi[1], g)) /\ Known(Done, m)
    BY <1>8 DEF GroupMove
  <2>2. mi' = mi /\ minfo' = minfo
    BY DEF GroupMove
  <2> QED BY <2>1, <2>2, <1>3, <1>4, <1>5, <1>7, <1>8, <1>9 DEF RelayInv, Relayed
<1>14. Executed'
  <2>1. /\ InFile(P, m[1], g) /\ (Linked => GoesOn(P, m[1], mi[1], g)) /\ mi' = mi
    BY <1>8 DEF GroupMove
  <2>2. Len(sql'.work) = 0 /\ sql'.work = << >> /\ ~sql'.begin /\ sql'.pc = "next"
    BY DEF GroupMove
  <2>3. sql' \in [pc : {"stopped", "next", "committed", "purged", "wait", "broken"},
                  begin : BOOLEAN, work : Seq(Effects), intvar : BOOLEAN, tries : Nat]
    BY DEF GroupMove
  <2> QED BY <2>1, <2>2, <2>3, <1>3, <1>4, <1>5, <1>10 DEF Executed
<1>15. InOrder'
  BY DEF RelayInv, InOrder, GroupMove
<1>16. Once'
  <2> SUFFICES ASSUME ~faults.crash /\ ~faults.kept PROVE Once'
    BY DEF Once, GroupMove
  <2>1. /\ NotYet(P, Done, g) /\ \A d \in Done : UpTo(d, m)
    BY <1>9 DEF GroupMove
  <2>2. Mark' = g /\ Reached' = m
    BY <1>3 DEF Mark, Reached, GroupMove
  <2>3. WorkOnce'
    BY DEF WorkOnce, WorkIn, GroupMove
  <2>4. CommittedOnce => CommittedOnce'
    BY DEF CommittedOnce, GroupMove
  <2>5. mi' = mi /\ faults' = faults /\ (ign' # None => ign' = ign)
    BY DEF GroupMove
  <2> QED BY <2>1, <2>2, <2>3, <2>4, <2>5, <1>4, <1>5, <1>9 DEF RelayInv, Once
<1>17. Latest'
  <2>1. Settled /\ ign' = None => UpToDate(P, m, mi, End)
    BY DEF GroupMove, P
  <2>2. mi' = mi
    BY DEF GroupMove
  <2> QED BY <2>1, <2>2, <1>3, <1>4, <1>5 DEF Latest, UpToDate
<1> QED BY <1>5, <1>11, <1>12, <1>13, <1>14, <1>15, <1>16, <1>17 DEF RelayInv

(* Format_desc and Rotate of the relay log, outside a transaction *)
LEMMA ExecSelfInv ==
    ASSUME RelayInv, ExecSelf, ~sql.begin PROVE RelayInv'
<1> DEFINE m == rli.master
<1>1. /\ sql.pc = "next" /\ ~AtEof /\ NextEvent.k = "self"
      /\ UNCHANGED <<mi, minfo, io, ign, log, sql, db, ignore_log_space_limit, faults>>
  BY DEF ExecSelf, Executes
<1>2. rli \in [event : Nat \X Nat, group : Nat \X Nat, master : LogPos, hot : Nat]
  BY DEF RelayInv, Coordinates
<1>3. /\ Future \in Nat \X Nat /\ Future[1] = rli.event[1] /\ UpTo(rli.group, Future)
      /\ UpTo(Future, End) /\ Step(Pending, rli.event, Future) /\ Future \notin DOMAIN Pending
      /\ rli.group \in Nat \X Nat
  BY <1>1, NextFacts
<1>4. rli' = [rli EXCEPT !.event = Future, !.group = Future, !.master = m]
      /\ info' = [group |-> rli'.group, master |-> rli'.master]
  BY DEF ExecSelf, IncGroup
<1>5. rli' = [event |-> Future, group |-> Future, master |-> m, hot |-> rli.hot]
  BY <1>2, <1>4, RliExcept
<1>6. info' = [group |-> Future, master |-> m]
  BY <1>4, <1>5
<1>7. \A w \in DOMAIN Pending : UpTo(w, Future) => Pending[w].k = "intvar"
  BY <1>1, <1>3 DEF RelayInv, Executed, Step
<1>8. Gone(Pending, Done, Future)
  BY <1>7 DEF Gone
<1>9. InFile(Pending, m[1], Future) /\ (Linked => GoesOn(Pending, m[1], mi[1], Future))
  BY <1>1, NextFiles
<1>10. ~faults.crash /\ ~faults.kept => NotYet(Pending, Done, Future) /\ \A d \in Done : UpTo(d, m)
  <2>1. \A z \in DOMAIN Pending : ~UpTo(z, rli.group)
    BY PendingFacts DEF RelayInv
  <2>2. ~faults.crash /\ ~faults.kept => NotYet(Pending, Done, rli.group) /\ \A d \in Done : UpTo(d, m)
    BY <1>1 DEF RelayInv, Once, Mark, Reached
  <2> QED BY <2>1, <2>2 DEF NotYet
<1>11. Settled /\ ign' = None => UpToDate(PendingOf(log, Future), m, mi, End)
  <2> SUFFICES ASSUME Settled, ign' = None PROVE UpToDate(PendingOf(log, Future), m, mi, End)
    OBVIOUS
  <2>1. UpToDate(Pending, m, mi, End)
    BY <1>1, LatestIs DEF RelayInv
  <2>2. PendingType(Pending) /\ GoodLog(log)
    BY DEF RelayInv, Relayed
  <2>3. Dropped(Pending, PendingOf(log, Future), Future)
    BY <2>2, <1>3, MoveGroup DEF Pending
  <2>4. \A u \in DOMAIN Pending : UpTo(u, Future) => /\ Pending[u].at \in Events /\ KindOf(Pending[u].at) = "intvar"
                                                     /\ ~Dangling(Pending, u, End)
    BY <2>2, <1>7 DEF PendingType, Dangling
  <2> QED BY <2>1, <2>2, <2>3, <2>4, <1>3, DropUpToDate
<1>12. /\ m \in LogPos /\ Known(Done, m) /\ sql'.work = << >> /\ ~sql'.begin /\ sql'.pc = "next"
       /\ sql' \in [pc : {"stopped", "next", "committed", "purged", "wait", "broken"},
                    begin : BOOLEAN, work : Seq(Effects), intvar : BOOLEAN, tries : Nat]
  BY <1>1, <1>2 DEF RelayInv, Relayed, Executed
<1> HIDE DEF m
<1>13. GroupMove(Future, m)
  BY <1>1, <1>3, <1>5, <1>6, <1>8, <1>9, <1>10, <1>11, <1>12 DEF GroupMove
<1> QED BY <1>13, GroupMoveInv

(* a Rotate of the master, outside a transaction: the next file's name *)
LEMMA ExecRotateInv ==
    ASSUME RelayInv, ExecRotate, ~sql.begin PROVE RelayInv'
<1> DEFINE m == NextEvent.at
<1>1. /\ sql.pc = "next" /\ ~AtEof /\ NextEvent.k = "rotate"
      /\ UNCHANGED <<mi, minfo, io, ign, log, sql, db, ignore_log_space_limit, faults>>
  BY DEF ExecRotate, Executes
<1>2. /\ rli \in [event : Nat \X Nat, group : Nat \X Nat, master : LogPos, hot : Nat]
      /\ PendingType(Pending)
  BY DEF RelayInv, Coordinates, Relayed
<1>3. /\ Future \in Nat \X Nat /\ Future[1] = rli.event[1] /\ UpTo(rli.group, Future)
      /\ UpTo(Future, End) /\ Step(Pending, rli.event, Future)
      /\ Future \in DOMAIN Pending /\ Pending[Future].at = m /\ Pending[Future].k = "rotate"
      /\ rli.group \in Nat \X Nat /\ rli.event[2] # 0 /\ rli.event \in Nat \X Nat
  BY <1>1, NextFacts
<1>4. rli.group[1] = Future[1]
  <2>1. rli.event[2] > 0
    BY <1>3
  <2> QED BY <2>1, <1>1, <1>3 DEF RelayInv, Coordinates
<1>5. <<rli.group[1], Future[2]>> = Future
  BY <1>3, <1>4
<1>6. rli' = [rli EXCEPT !.event = Future, !.master = m, !.group = Future]
      /\ info' = [group |-> rli'.group, master |-> rli'.master]
  BY <1>5 DEF ExecRotate, RotateCoordinates
<1>7. rli' = [event |-> Future, group |-> Future, master |-> m, hot |-> rli.hot]
  BY <1>2, <1>6, RliExcept
<1>8. info' = [group |-> Future, master |-> m]
  BY <1>6, <1>7
<1>9. \A w \in DOMAIN Pending : UpTo(w, Future) => Pending[w].k = "intvar" \/ w = Future
  BY <1>1, <1>3 DEF RelayInv, Executed, Step
<1>10. \A w \in DOMAIN Pending : UpTo(w, Future) => Pending[w].k # "query" /\ Pending[w].k # "begin"
  BY <1>3, <1>9
<1>11. Gone(Pending, Done, Future)
  BY <1>10 DEF Gone
<1>12. m \in LogPos /\ Known(Done, m)
  <2>1. m \in LogPos
    BY <1>2, <1>3 DEF PendingType
  <2>2. ASSUME NEW e \in Effects, UpTo(e, m) PROVE e \in Done
    <3>1. e \in Done \/ \E w \in DOMAIN Pending : UpTo(w, Future) /\ Pending[w].k = "query" /\ Pending[w].at = e
      BY <2>2, <1>3 DEF RelayInv, Relayed, NoGap
    <3> QED BY <3>1, <1>10
  <2> QED BY <2>1, <2>2 DEF Known
<1>13. InFile(Pending, m[1], Future) /\ (Linked => GoesOn(Pending, m[1], mi[1], Future))
  BY <1>2, <1>3, StepRotate DEF RelayInv, Relayed
<1>14. ~faults.crash /\ ~faults.kept => NotYet(Pending, Done, Future) /\ \A d \in Done : UpTo(d, m)
  <2>1. \A z \in DOMAIN Pending : ~UpTo(z, rli.group)
    BY PendingFacts DEF RelayInv
  <2>2. ~faults.crash /\ ~faults.kept => NotYet(Pending, Done, rli.group)
    BY <1>1 DEF RelayInv, Once, Mark
  <2> QED BY <2>1, <2>2, <1>3 DEF NotYet, Precedes
<1>15. Settled /\ ign' = None => UpToDate(PendingOf(log, Future), m, mi, End)
  <2> SUFFICES ASSUME Settled, ign' = None PROVE UpToDate(PendingOf(log, Future), m, mi, End)
    OBVIOUS
  <2>1. UpToDate(Pending, rli.master, mi, End)
    BY <1>1, LatestIs DEF RelayInv
  <2>2. GoodLog(log)
    BY DEF RelayInv
  <2>3. Dropped(Pending, PendingOf(log, Future), Future)
    BY <2>2, <1>3, MoveGroup DEF Pending
  <2>4. \A u \in DOMAIN Pending : UpTo(u, Future) /\ Pending[u].at = mi =>
           m = mi \/ (mi \in Events /\ KindOf(mi) = "intvar")
    BY <1>2, <1>3, <1>9 DEF PendingType
  <2>5. \A u \in DOMAIN Pending : UpTo(u, Future) => ~Dangling(Pending, u, End)
    BY <1>10 DEF Dangling
  <2>6. DOMAIN Pending # {}
    BY <1>3
  <2> HIDE DEF m
  <2> QED BY <2>1, <2>3, <2>4, <2>5, <2>6, <1>2, <1>3, DropUpToDate
<1>16. /\ sql'.work = << >> /\ ~sql'.begin /\ sql'.pc = "next"
       /\ sql' \in [pc : {"stopped", "next", "committed", "purged", "wait", "broken"},
                    begin : BOOLEAN, work : Seq(Effects), intvar : BOOLEAN, tries : Nat]
  BY <1>1 DEF RelayInv, Executed
<1> HIDE DEF m
<1>17. GroupMove(Future, m)
  BY <1>1, <1>3, <1>7, <1>8, <1>11, <1>12, <1>13, <1>14, <1>15, <1>16 DEF GroupMove
<1> QED BY <1>17, GroupMoveInv

(* after the commit *)
LEMMA IncGroupRelayLogPosInv ==
    ASSUME RelayInv, IncGroupRelayLogPos PROVE RelayInv'
<1>1. /\ sql.pc = "committed" /\ Reading /\ ~sql.begin
      /\ UNCHANGED <<mi, minfo, io, ign, log, db, ignore_log_space_limit, faults>>
      /\ Future \in DOMAIN Pending /\ Pending[Future].k \in {"commit", "query"}
  BY DEF IncGroupRelayLogPos, Reading, RelayInv, Executed
<1>2. /\ rli \in [event : Nat \X Nat, group : Nat \X Nat, master : LogPos, hot : Nat]
      /\ PendingType(Pending)
  BY DEF RelayInv, Coordinates, Relayed
<1>3. ~AtEof
  <2>1. rli.event \in Nat \X Nat /\ rli.event[1] \in 1 .. Active /\ Future[1] = rli.event[1]
        /\ Future[2] = rli.event[2] + 1
    BY <1>2 DEF RelayInv, Coordinates, Future
  <2>2. Future[2] <= Len(log.files[Future[1]])
    BY <1>1, PendingFacts DEF RelayInv
  <2>3. Len(log.files[rli.event[1]]) \in Nat
    BY <2>1 DEF RelayInv, GoodLog, Active
  <2> QED BY <2>1, <2>2, <2>3 DEF AtEof
<1> DEFINE m == NextEvent.at
<1>4. /\ Future \in Nat \X Nat /\ Future[1] = rli.event[1] /\ UpTo(rli.group, Future)
      /\ UpTo(Future, End) /\ Step(Pending, rli.event, Future) /\ ~UpTo(Future, rli.event)
      /\ Pending[Future].at = m /\ rli.group \in Nat \X Nat
  BY <1>1, <1>3, NextFacts
<1>5. /\ InFile(Pending, rli.master[1], rli.event)
      /\ Linked => GoesOn(Pending, rli.master[1], mi[1], rli.event)
      /\ Pending[Future].k # "rotate"
  BY <1>1 DEF RelayInv, Executed
<1>6. m[1] = rli.master[1]
  BY <1>1, <1>4, <1>5, StepOnto
<1>7. m \in LogPos /\ <<rli.master[1], NextEvent.at[2]>> = m
  <2>1. m \in LogPos
    BY <1>1, <1>2, <1>4 DEF PendingType
  <2> QED BY <2>1, <1>6, PlacesArePairs
<1>8. rli' = [rli EXCEPT !.event = Future, !.group = Future, !.master = m]
      /\ info' = [group |-> rli'.group, master |-> rli'.master]
  BY <1>7 DEF IncGroupRelayLogPos, IncGroup
<1>9. rli' = [event |-> Future, group |-> Future, master |-> m, hot |-> rli.hot]
  BY <1>2, <1>8, RliExcept
<1>10. info' = [group |-> Future, master |-> m]
  BY <1>8, <1>9
<1>11. Gone(Pending, Done, Future)
  <2>1. sql.work = << >> /\ \A i \in 1 .. Len(sql.work) : FALSE
    BY <1>1 DEF RelayInv, Executed
  <2>2. \A w \in DOMAIN Pending : UpTo(w, rli.event) /\ Pending[w].k = "query" => Pending[w].at \in Done
    BY <2>1, <1>1 DEF RelayInv, Executed
  <2>3. Pending[Future].k = "query" => Pending[Future].at \in Done
    BY <1>1 DEF RelayInv, Executed
  <2> QED BY <2>2, <2>3, <1>4 DEF Gone, Step
<1>12. Known(Done, m)
  <2> SUFFICES ASSUME NEW e \in Effects, UpTo(e, m) PROVE e \in Done
    BY DEF Known
  <2>1. e \in Done \/ \E w \in DOMAIN Pending : UpTo(w, Future) /\ Pending[w].k = "query" /\ Pending[w].at = e
    BY <1>1, <1>4 DEF RelayInv, Relayed, NoGap
  <2> QED BY <2>1, <1>11 DEF Gone
<1>13. InFile(Pending, m[1], Future) /\ (Linked => GoesOn(Pending, m[1], mi[1], Future))
  BY <1>4, <1>5, <1>6, StepFiles
<1>14. ~faults.crash /\ ~faults.kept => NotYet(Pending, Done, Future) /\ \A d \in Done : UpTo(d, m)
  BY <1>1, <1>4 DEF RelayInv, Once, Mark, Reached
<1>15. Settled /\ ign' = None => UpToDate(PendingOf(log, Future), m, mi, End)
  <2> SUFFICES ASSUME Settled, ign' = None PROVE UpToDate(PendingOf(log, Future), m, mi, End)
    OBVIOUS
  <2>1. UpToDate(Pending, rli.master, mi, End)
    BY <1>1, LatestIs DEF RelayInv
  <2>2. GoodLog(log)
    BY DEF RelayInv
  <2>3. Dropped(Pending, PendingOf(log, Future), Future)
    BY <2>2, <1>4, MoveGroup DEF Pending
  <2>4. \A u \in DOMAIN Pending : UpTo(u, Future) /\ UpTo(Future, u) => u = Future
    BY <1>4, UpToOrder, PendingFacts DEF RelayInv
  <2>5. \A u \in DOMAIN Pending : UpTo(u, Future) /\ (\A w \in DOMAIN Pending : UpTo(w, u)) => u = Future
    BY <2>4, <1>1
  <2>6. \A u \in DOMAIN Pending : UpTo(u, Future) => ~Dangling(Pending, u, End)
    <3> SUFFICES ASSUME NEW u \in DOMAIN Pending, UpTo(u, Future), Dangling(Pending, u, End)
                 PROVE  FALSE
      OBVIOUS
    <3>1. Pending[u].k = "begin" /\ u # Future
      BY <1>1 DEF Dangling
    <3>2. CASE Pending[Future].k = "commit"
      <4>1. UpTo(Future, u)
        BY <3>2, <1>1, <1>4 DEF Dangling
      <4> QED BY <4>1, <3>1, <2>4
    <3>3. CASE Pending[Future].k = "query"
      <4>1. UpTo(u, rli.event)
        BY <3>1, <1>4 DEF Step
      <4>2. Pending[u].k = "intvar"
        BY <4>1, <3>3, <1>1 DEF RelayInv, Executed
      <4> QED BY <4>2, <3>1
    <3> QED BY <3>2, <3>3, <1>1
  <2>7. DOMAIN Pending # {}
    BY <1>1
  <2>8. \A u \in DOMAIN Pending : UpTo(u, Future) /\ (\A w \in DOMAIN Pending : UpTo(w, u)) /\ Pending[u].at = mi
          => m = mi \/ (mi \in Events /\ KindOf(mi) = "intvar")
    BY <2>5, <1>4
  <2> HIDE DEF m
  <2> QED BY <2>1, <2>3, <2>6, <2>7, <2>8, <1>2, <1>4, DropUpToDate
<1>16. /\ sql'.work = << >> /\ ~sql'.begin /\ sql'.pc = "next"
       /\ sql' \in [pc : {"stopped", "next", "committed", "purged", "wait", "broken"},
                    begin : BOOLEAN, work : Seq(Effects), intvar : BOOLEAN, tries : Nat]
  BY <1>1 DEF IncGroupRelayLogPos, RelayInv, Executed
<1> HIDE DEF m
<1>17. GroupMove(Future, m)
  BY <1>1, <1>4, <1>7, <1>9, <1>10, <1>11, <1>12, <1>13, <1>14, <1>15, <1>16 DEF GroupMove
<1> QED BY <1>17, GroupMoveInv

(* the made-up Rotate of next_event, at the end of the hot log *)
LEMMA ExecIgnoredEndInv ==
    ASSUME RelayInv, ExecIgnoredEnd PROVE RelayInv'
<1>1. /\ sql.pc = "next" /\ ReadsHot /\ AtEof /\ ign # None /\ Reading
      /\ UNCHANGED <<mi, minfo, io, log, sql, db, ignore_log_space_limit, faults>>
      /\ ign' = None
  BY DEF ExecIgnoredEnd, Reading
<1>2. /\ rli \in [event : Nat \X Nat, group : Nat \X Nat, master : LogPos, hot : Nat]
      /\ info = [group |-> rli.group, master |-> rli.master]
      /\ UpTo(rli.event, End) /\ UpTo(rli.group, rli.event) /\ UpTo(rli.group, End)
      /\ rli.hot # 0 => rli.hot = rli.event[1]
      /\ GoodLog(log) /\ PendingType(Pending)
  BY <1>1 DEF RelayInv, Coordinates, Relayed
<1>3. /\ Active \in Nat /\ Active >= 1 /\ End = <<Active, Len(log.files[Active])>>
      /\ Len(log.files[Active]) \in Nat /\ Len(log.files[Active]) >= 1
  BY <1>2, SMTT(30) DEF GoodLog, Active, End, EndOf
<1>4. rli.event = End /\ End[1] = rli.event[1] /\ rli.event[2] > 0 /\ End \in Nat \X Nat
  <2>1. rli.event[1] = Active
    BY <1>1, <1>2, <1>3 DEF ReadsHot
  <2>2. rli.event[2] >= Len(log.files[Active])
    BY <2>1, <1>1 DEF AtEof
  <2>3. End[1] = Active /\ End[2] = Len(log.files[Active]) /\ End \in Nat \X Nat
    BY <1>3
  <2>4. rli.event \in Nat \X Nat
    BY <1>2
  <2>5. UpTo(End, rli.event)
    BY <2>1, <2>2, <2>3 DEF UpTo
  <2>6. rli.event = End
    BY <2>3, <2>4, <2>5, <1>2, UpToOrder
  <2> QED BY <2>3, <2>6, <1>3
<1>5. \A z \in DOMAIN Pending : UpTo(z, End) /\ UpTo(z, rli.event)
  BY <1>2, <1>4, PendingFacts
<1>6. CASE sql.begin
  <2>1. rli' = rli
    BY <1>2, <1>6 DEF ExecIgnoredEnd, RotateCoordinates
  <2>2. info' = info
    BY <2>1, <1>2 DEF ExecIgnoredEnd
  <2>3. /\ Pending' = Pending /\ Done' = Done /\ End' = End /\ Cuts' = Cuts /\ Active' = Active
        /\ GoodLog(log)' /\ Reading' = Reading /\ Linked' = Linked /\ Settled' = Settled
    BY <2>1, <1>1, <1>2 DEF Pending, Done, End, Cuts, Active, Reading, Linked, Settled
  <2>4. Coordinates'
    BY <2>1, <2>2, <2>3, <1>1 DEF RelayInv, Coordinates
  <2>5. Io'
    BY <2>3, <1>1 DEF RelayInv, Io
  <2>6. Relayed'
    BY <2>1, <2>3, <1>1 DEF RelayInv, Relayed
  <2>7. Executed'
    BY <2>1, <2>3, <1>1 DEF RelayInv, Executed
  <2>8. InOrder'
    BY <1>1 DEF RelayInv, InOrder
  <2>9. Once'
    <3>1. Mark' = Mark /\ Reached' = Reached
      BY <2>1, <1>1 DEF Mark, Reached
    <3>2. WorkOnce => WorkOnce'
      BY <2>1, <2>3, <1>1 DEF WorkOnce
    <3>3. CommittedOnce => CommittedOnce'
      BY <1>1 DEF CommittedOnce
    <3> QED BY <3>1, <3>2, <3>3, <2>3, <1>1 DEF RelayInv, Once
  <2>10. Latest'
    <3>1. PICK b \in DOMAIN Pending : Pending[b].k = "begin"
      BY <1>1, <1>6 DEF RelayInv, Executed, Opened
    <3>2. \A w \in DOMAIN Pending : Pending[w].k # "commit"
      BY <1>1, <1>5 DEF RelayInv, Executed
    <3>3. Dangling(Pending, b, End)
      BY <3>1, <3>2, <1>5 DEF Dangling
    <3> QED BY <3>3, <2>3 DEF Latest
  <2> QED BY <2>3, <2>4, <2>5, <2>6, <2>7, <2>8, <2>9, <2>10 DEF RelayInv
<1>7. CASE ~sql.begin
  <2>1. /\ ign \in LogPos /\ UpTo(ign, mi) /\ (io.pc # "rotated" => ign = mi) /\ mi \in LogPos
    BY <1>1 DEF RelayInv, Io
  <2>2. <<rli.group[1], rli.event[2]>> = End
    <3>1. rli.group[1] = rli.event[1]
      BY <1>1, <1>4, <1>7 DEF RelayInv, Coordinates
    <3>2. rli.event = <<rli.event[1], rli.event[2]>>
      BY <1>2
    <3> QED BY <3>1, <3>2, <1>4
  <2>3. rli' = [rli EXCEPT !.event = End, !.master = ign, !.group = End]
        /\ info' = [group |-> rli'.group, master |-> rli'.master]
    BY <2>2, <1>4, <1>7 DEF ExecIgnoredEnd, RotateCoordinates
  <2>4. rli' = [event |-> End, group |-> End, master |-> ign, hot |-> rli.hot]
    BY <2>3, <1>2, RliExcept
  <2>5. info' = [group |-> End, master |-> ign]
    BY <2>3, <2>4
  <2>6. \A w \in DOMAIN Pending : Pending[w].k = "intvar"
    BY <1>1, <1>5, <1>7 DEF RelayInv, Executed
  <2>7. Gone(Pending, Done, End)
    BY <2>6 DEF Gone
  <2>8. Known(Done, ign)
    <3> SUFFICES ASSUME NEW e \in Effects, UpTo(e, ign) PROVE e \in Done
      BY DEF Known
    <3>1. UpTo(e, mi)
      BY <2>1, PlacesArePairs, UpToOrder
    <3>2. e \in Done \/ \E w \in DOMAIN Pending : UpTo(w, End) /\ Pending[w].k = "query" /\ Pending[w].at = e
      BY <3>1 DEF RelayInv, Relayed, Supported, Covered
    <3> QED BY <3>2, <2>6
  <2>9. InFile(Pending, ign[1], End) /\ (Linked => GoesOn(Pending, ign[1], mi[1], End))
    BY <2>1, <1>5 DEF InFile, GoesOn, Linked
  <2>10. ~faults.crash /\ ~faults.kept => NotYet(Pending, Done, End) /\ \A d \in Done : UpTo(d, ign)
    <3>1. ~faults.crash /\ ~faults.kept => Bounded(Pending, Done, ign)
      BY <1>1 DEF RelayInv, Once
    <3> QED BY <3>1, <1>5 DEF Bounded, NotYet
  <2>11. Settled /\ ign' = None => UpToDate(PendingOf(log, End), ign, mi, End)
    <3>1. Dropped(Pending, PendingOf(log, End), End)
      BY <1>2, <1>4, MoveGroup DEF Pending
    <3>2. DOMAIN PendingOf(log, End) = {}
      BY <3>1, <1>5 DEF Dropped
    <3>3. Settled => ign = mi
      BY <2>1 DEF Settled
    <3> QED BY <3>2, <3>3 DEF UpToDate
  <2>12. /\ sql'.work = << >> /\ ~sql'.begin /\ sql'.pc = "next"
         /\ sql' \in [pc : {"stopped", "next", "committed", "purged", "wait", "broken"},
                      begin : BOOLEAN, work : Seq(Effects), intvar : BOOLEAN, tries : Nat]
    BY <1>1, <1>7 DEF RelayInv, Executed
  <2>13. UpTo(End, End)
    BY <1>4, UpToOrder
  <2>14. GroupMove(End, ign)
    BY <2>1, <2>4, <2>5, <2>7, <2>8, <2>9, <2>10, <2>11, <2>12, <2>13, <1>1, <1>2, <1>4 DEF GroupMove
  <2> QED BY <2>14, GroupMoveInv
<1> QED BY <1>6, <1>7

-----------------------------------------------------------------------------
(* The server dies and is started again. *)

(* What is left: a cut relay log, and both info files. *)
LEMMA CrashInv ==
    ASSUME RelayInv, Crash PROVE RelayInv'
<1>1. PICK n \in log.flushed .. Len(log.files[Active]) :
         log' = [log EXCEPT !.files = Append([log.files EXCEPT ![Active] = SubSeq(@, 1, n)], <<Self>>),
                            !.flushed = 1]
  BY DEF Crash
<1>2. log' = Crashed(log, n) /\ n \in log.flushed .. Len(log.files[Len(log.files)]) /\ GoodLog(log)
  BY <1>1 DEF Crashed, Active, RelayInv
<1> DEFINE g == rli.group
           Q == PendingOf(log', g)
           c == <<Len(log.files), n>>
<1>3. /\ GoodLog(log') /\ log'.first = log.first /\ Len(log'.files) = Len(log.files) + 1
      /\ EndOf(log') = <<Len(log.files) + 1, 1>> /\ CutsOf(log') = {<<Len(log.files) + 1, 1>>}
      /\ c \in CutsOf(log) /\ CutOff(PendingOf(log, g), Q, c)
  BY <1>2, Crashes
<1>4. /\ UNCHANGED <<minfo, info, db>> /\ mi' = minfo /\ ign' = None
      /\ rli' = [event |-> info.group, group |-> info.group, master |-> info.master, hot |-> 0]
      /\ ignore_log_space_limit' = FALSE /\ faults' = [faults EXCEPT !.n = faults.n + 1, !.crash = TRUE]
  BY DEF Crash
<1> DEFINE pc == IF info.group[1] < log.first THEN "broken" ELSE "stopped"
<1>5. /\ io' = [pc |-> pc, fresh |-> FALSE]
      /\ sql' = [pc |-> pc, begin |-> FALSE, work |-> << >>, intvar |-> FALSE, tries |-> 0]
  BY DEF Crash, IoStopped, SqlStopped
<1>6. /\ rli \in [event : Nat \X Nat, group : Nat \X Nat, master : LogPos, hot : Nat]
      /\ info = [group |-> rli.group, master |-> rli.master]
      /\ rli.group[1] \in 1 .. Active /\ UpTo(rli.group, End) /\ faults \in [n : Nat, crash : BOOLEAN, kept : BOOLEAN]
  BY DEF RelayInv, Coordinates, Io
<1>7. /\ rli' \in [event : Nat \X Nat, group : Nat \X Nat, master : LogPos, hot : Nat]
      /\ rli'.event = g /\ rli'.group = g /\ rli'.master = rli.master /\ rli'.hot = 0
      /\ info' = [group |-> rli'.group, master |-> rli'.master] /\ info.group = g
  BY <1>4, <1>6
<1>8. /\ Pending' = Q /\ CutOff(Pending, Q, c) /\ c \in Cuts /\ c \in Nat \X Nat
      /\ End' = <<Active + 1, 1>> /\ Cuts' = {End'} /\ Active' = Active + 1 /\ GoodLog(log)'
      /\ Done' = Done /\ Active \in Nat /\ End[1] = Active
  <2>1. c \in Nat \X Nat /\ Active \in Nat /\ End[1] = Active
    BY <1>2, <1>3, EndIsLast DEF GoodLog, Active, End, EndOf
  <2> QED BY <2>1, <1>3, <1>4, <1>7 DEF Pending, Cuts, End, Active, Done
<1>9. pc \in {"broken", "stopped"} /\ (pc = "stopped" => g[1] >= log.first) /\ g[1] \in Nat /\ log.first \in Nat
  BY <1>2, <1>6, <1>7 DEF GoodLog
<1> HIDE DEF pc, Q, c
<1>10. ~Reading' /\ ~Linked' /\ ~Settled' /\ sql'.pc = pc /\ io'.pc = pc /\ ~io'.fresh
  BY <1>4, <1>5, <1>9 DEF Reading, Linked, Settled
<1>11. Coordinates'
  <2>1. UpTo(g, End')
    BY <1>6, <1>8 DEF UpTo
  <2>2. g[1] \in 1 .. Active' /\ 0 <= Active'
    BY <1>6, <1>8
  <2> QED BY <2>1, <2>2, <1>3, <1>7, <1>9, <1>10 DEF Coordinates
<1>12. Io'
  <2>1. minfo \in LogPos
    BY DEF RelayInv, Io
  <2>2. faults' \in [n : Nat, crash : BOOLEAN, kept : BOOLEAN]
    <3>1. faults \in [n : Nat, crash : BOOLEAN, kept : BOOLEAN]
      BY DEF RelayInv, Io
    <3>2. faults' = [faults EXCEPT !.n = faults.n + 1, !.crash = TRUE]
      BY DEF Crash
    <3>3. faults.n + 1 \in Nat
      BY <3>1
    <3> QED BY <3>1, <3>2, <3>3
  <2>3. /\ io' \in [pc : {"stopped", "read", "rotated", "flush", "info", "space", "wait",
                         "dying", "trace", "died", "last_info", "broken"}, fresh : BOOLEAN]
        /\ io'.pc = pc /\ io'.fresh = FALSE /\ sql'.pc = pc
    BY <1>5, <1>9
  <2>4. mi' \in LogPos /\ minfo' \in LogPos /\ minfo' = mi' /\ ign' = None /\ ignore_log_space_limit' \in BOOLEAN
    BY <2>1, <1>4
  <2>5. io'.pc \notin {"info", "last_info"} /\ io'.fresh = FALSE /\ sql'.pc = io'.pc
    BY <2>3, <1>9
  <2> QED BY <2>2, <2>3, <2>4, <2>5 DEF Io
<1>13. Relayed'
  <2>1. PendingType(Pending) /\ NoGap(Pending, Done) /\ Supported(Pending, Done, minfo, c)
        /\ SameFile(Pending) /\ InFile(Pending, rli.master[1], g) /\ RotateInside(Pending)
        /\ Known(Done, rli.master)
    BY <1>8 DEF RelayInv, Relayed
  <2>2. /\ PendingType(Q) /\ NoGap(Q, Done) /\ SameFile(Q) /\ InFile(Q, rli.master[1], g)
        /\ RotateInside(Q)
    BY <2>1, <1>8, CutParts
  <2>3. \A z \in DOMAIN Q : UpTo(z, End')
    BY <1>3, <1>8, EndIsLast, PendingIs DEF Q, End
  <2>4. Supported(Q, Done, minfo, End')
    BY <2>1, <2>3, <1>8, CutSupported
  <2> QED BY <2>1, <2>2, <2>4, <1>4, <1>7, <1>8, <1>10 DEF Relayed
<1>14. Executed'
  <2>1. << >> \in Seq(Effects) /\ Len(<< >>) = 0
    OBVIOUS
  <2> QED BY <2>1, <1>5, <1>9, <1>10 DEF Executed
<1>15. InOrder'
  BY <1>4 DEF RelayInv, InOrder
<1>16. Once'
  BY <1>4 DEF Once
<1>17. Latest'
  BY <1>10 DEF Latest
<1> QED BY <1>8, <1>11, <1>12, <1>13, <1>14, <1>15, <1>16, <1>17 DEF RelayInv

-----------------------------------------------------------------------------
(* The invariant depends on the variables only. *)
LEMMA StutterRelayInv ==
    ASSUME RelayInv, UNCHANGED vars PROVE RelayInv'
<1>1. /\ Pending' = Pending /\ Done' = Done /\ End' = End /\ Cuts' = Cuts /\ Active' = Active
      /\ GoodLog(log)' /\ Reading' = Reading /\ Future' = Future
      /\ (ReadsHot <=> ReadsHot') /\ (AtEof <=> AtEof') /\ Included' = Included
      /\ Linked' = Linked /\ Settled' = Settled
  BY DEF vars, RelayInv, Pending, Done, End, Cuts, Active, Reading, Future, ReadsHot, AtEof,
         Included, Linked, Settled
<1>2. Coordinates'
  BY <1>1 DEF vars, RelayInv, Coordinates
<1>3. Io'
  BY <1>1 DEF vars, RelayInv, Io
<1>4. Relayed'
  BY <1>1 DEF vars, RelayInv, Relayed
<1>5. Executed'
  BY <1>1 DEF vars, RelayInv, Executed
<1>6. InOrder'
  BY <1>1 DEF vars, RelayInv, InOrder
<1>7. Once'
  BY <1>1 DEF vars, RelayInv, Once, Mark, Reached, WorkOnce, CommittedOnce
<1>8. Latest'
  BY <1>1 DEF vars, RelayInv, Latest
<1> QED BY <1>1, <1>2, <1>3, <1>4, <1>5, <1>6, <1>7, <1>8 DEF RelayInv

(* Every step of the I/O thread, of the SQL thread and of the environment  *)
(* keeps the invariant.                                                    *)
LEMMA NextRelayInv ==
    ASSUME RelayInv, [Next]_vars PROVE RelayInv'
<1>1. CASE IoStep
  BY <1>1, IoMoves, NewFiles, Queues, QueueIgnoredInv, FlushRelayLogCacheInv, FlushMasterInfoInv
     DEF IoStep
<1>2. CASE SqlStep
  <2>1. CASE ExecSelf
    BY <2>1, QuietSteps, ExecSelfInv
  <2>2. CASE ExecRotate
    BY <2>2, QuietSteps, ExecRotateInv
  <2>3. CASE ExecIntvar
    BY <2>3, QuietSteps
  <2> QED BY <2>1, <2>2, <2>3, <1>2, GoesBack, WaitForUpdateInv, PurgeFirstLogInv, SwitchLogInv,
             ExecIgnoredEndInv, ExecBeginInv, ExecInTransactionInv, ExecCommitInv,
             IncGroupRelayLogPosInv DEF SqlStep
<1>3. CASE ConnectionLost \/ IoStop
  BY <1>3, IoMoves
<1>4. CASE SqlStop \/ GiveUp
  BY <1>4, SqlStopInv
<1>5. CASE RetryTransaction
  BY <1>5, GoesBack
<1>6. CASE FlushLogs
  BY <1>6, NewFiles
<1>7. CASE Crash
  BY <1>7, CrashInv
<1>8. CASE UNCHANGED vars
  BY <1>8, StutterRelayInv
<1> QED BY <1>1, <1>2, <1>3, <1>4, <1>5, <1>6, <1>7, <1>8 DEF Next

(* The invariant holds in every state the slave can be in, for any log of  *)
(* the master, any size of the relay log's files and any number of faults. *)
THEOREM RelayInvariant == Spec => []RelayInv
<1>1. Init => RelayInv
  BY InitRelayInv
<1>2. RelayInv /\ [Next]_vars => RelayInv'
  BY NextRelayInv
<1> QED BY <1>1, <1>2, PTL DEF Spec

(* Every variable has its type and, unless a file is being switched, the   *)
(* relay log files that the SQL thread would go back to, in memory and     *)
(* after a restart, have not been purged (purge_first_log).                *)
THEOREM TypeCorrect == Spec => []TypeOK
<1>1. RelayInv => TypeOK
  <2> SUFFICES ASSUME RelayInv PROVE TypeOK
    OBVIOUS
  <2>1. /\ Active \in Nat /\ log.first \in 1 .. Active
        /\ log.flushed \in 1 .. Len(log.files[Active])
    BY DEF RelayInv, GoodLog, Active
  <2>2. /\ rli \in [event : Nat \X Nat, group : Nat \X Nat, master : LogPos, hot : Nat]
        /\ rli.event[1] \in 1 .. Active /\ rli.group[1] \in 1 .. Active /\ rli.hot <= Active
        /\ info.group = rli.group
        /\ sql.pc \notin {"purged", "broken"} => rli.group[1] >= log.first
    BY DEF RelayInv, Coordinates
  <2>3. /\ log.first \in 1 .. Active + 1 /\ rli.hot \in 0 .. Active /\ rli.master \in LogPos
        /\ sql.pc \notin {"purged", "broken"} => rli.group[1] \in log.first .. Active
    BY <2>1, <2>2
  <2>4. /\ mi \in LogPos /\ minfo \in LogPos /\ ign \in LogPos \cup {None}
        /\ io \in [pc : {"stopped", "read", "rotated", "flush", "info",
                         "space", "wait", "dying", "trace", "died", "last_info",
                         "broken"},
                   fresh : BOOLEAN]
        /\ ignore_log_space_limit \in BOOLEAN
    BY DEF RelayInv, Io
  <2>5. sql.pc \in {"stopped", "next", "committed", "purged", "wait", "broken"}
    BY DEF RelayInv, Executed
  <2>6. \A i \in 1 .. Len(db) : db[i] \in Effects
    BY DEF RelayInv, InOrder
  <2> QED BY <2>1, <2>2, <2>3, <2>4, <2>5, <2>6 DEF TypeOK
<1> QED BY <1>1, RelayInvariant, PTL

(* Nothing is skipped: whatever crashes, stops and retries there are, an   *)
(* event is committed on the slave only after all that precede it in the   *)
(* master's log; and nothing is executed twice unless the server died or   *)
(* a lock wait timeout left the start of a transaction that was retried.   *)
THEOREM AppliesInOrder == Spec => []AppliedInOrder
<1>1. RelayInv => AppliedInOrder
  BY DEF RelayInv, InOrder, Once, CommittedOnce, AppliedInOrder
<1> QED BY <1>1, RelayInvariant, PTL

(* Exec_master_log_pos can be trusted: what precedes it is committed, and  *)
(* what is committed precedes it as long as the server did not die and no  *)
(* lock wait timeout left the start of a transaction that was retried,     *)
(* except between a commit and the update of the position (exec_event).    *)
THEOREM PositionsAreTrue == Spec => []PositionsTrue
<1>1. RelayInv => PositionsTrue
  <2> SUFFICES ASSUME RelayInv PROVE PositionsTrue
    OBVIOUS
  <2>1. \A d : d \in Done <=> \E i \in 1 .. Len(db) : d = db[i]
    BY DEF Done
  <2>2. \A e \in Effects : UpTo(e, rli.master) => e \in Done
    BY DEF RelayInv, Relayed, Known
  <2>3. ~faults.crash /\ ~faults.kept /\ sql.pc # "committed" => \A d \in Done : UpTo(d, rli.master)
    BY DEF RelayInv, Once, Reached
  <2>4. \A e \in Effects : UpTo(e, rli.master) => \E i \in 1 .. Len(db) : db[i] = e
    BY <2>1, <2>2
  <2>5. ~faults.crash /\ ~faults.kept /\ sql.pc # "committed" => \A i \in 1 .. Len(db) : UpTo(db[i], rli.master)
    BY <2>1, <2>3
  <2> QED BY <2>4, <2>5 DEF PositionsTrue
<1> QED BY <1>1, RelayInvariant, PTL

(* When the SQL thread has read everything and waits (next_event), its     *)
(* position is the one the I/O thread has read to, the events that were    *)
(* ignored included, outside of groups and once a connection after a crash *)
(* has got its first Rotate.                                               *)
THEOREM IdleIsCaughtUp == Spec => []IdleMeansCaughtUp
<1>1. RelayInv => IdleMeansCaughtUp
  <2> SUFFICES ASSUME RelayInv, sql.pc = "wait", ~sql.begin,
                      mi \in Events => KindOf(mi) # "intvar",
                      io.pc \notin {"trace", "rotated"},
                      faults.crash => io.pc # "stopped" /\ ~io.fresh
               PROVE  rli.master = mi
    BY DEF IdleMeansCaughtUp, SamePlace
  <2>1. Settled
    BY DEF Settled, RelayInv, Io
  <2>2. ReadsHot /\ AtEof /\ ign = None /\ Reading
    BY DEF RelayInv, Coordinates, Reading
  <2>3. /\ rli.event \in Nat \X Nat /\ rli.hot \in Nat /\ (rli.hot # 0 => rli.hot = rli.event[1])
        /\ Active \in Nat /\ Active >= 1 /\ End = <<Active, Len(log.files[Active])>>
        /\ Len(log.files[Active]) \in Nat
    BY <2>2 DEF RelayInv, Coordinates, GoodLog, Active, End, EndOf
  <2>4. rli.event[1] = Active /\ rli.event[2] >= Len(log.files[Active])
    BY <2>2, <2>3 DEF ReadsHot, AtEof
  <2>5. UpTo(End, rli.event)
    BY <2>3, <2>4 DEF UpTo
  <2>6. \A z \in DOMAIN Pending : UpTo(z, rli.event)
    <3>1. End \in Nat \X Nat
      BY <2>3
    <3> QED BY <3>1, <2>3, <2>5, PendingFacts, UpToOrder DEF RelayInv
  <2>7. \A z \in DOMAIN Pending : Pending[z].k = "intvar"
    BY <2>6 DEF RelayInv, Executed
  <2>8. \A z \in DOMAIN Pending : Pending[z].at \in Events /\ KindOf(Pending[z].at) = "intvar"
    BY <2>7 DEF RelayInv, Relayed, PendingType
  <2>9. \A b \in DOMAIN Pending : ~Dangling(Pending, b, End)
    BY <2>7 DEF Dangling
  <2> QED BY <2>1, <2>2, <2>8, <2>9 DEF RelayInv, Latest
<1> QED BY <1>1, RelayInvariant, PTL

=============================================================================
