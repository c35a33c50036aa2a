----------------------------- MODULE ListLemmas -----------------------------
(***************************************************************************)
(* What the operators on lists do to a list of any length, and the         *)
(* principle of induction they are proved with.                            *)
(***************************************************************************)
EXTENDS Lists, SequencesExt, FiniteSetTheorems, WellFoundedInduction, TLAPS

Distinct(s) == \A i, j \in DOMAIN s : s[i] = s[j] => i = j

-----------------------------------------------------------------------------
(* Induction, for a set of numbers instead of a predicate *)

(* a set of numbers has a least element *)
LEMMA LeastNumber ==
    ASSUME NEW T \in SUBSET Nat, T # {}
    PROVE  \E x \in T : \A y \in T : x <= y
<1> DEFINE R == {p \in Nat \X Nat : p[1] < p[2]}
<1>1. IsWellFoundedOn(R, Nat) BY NatLessThanWellFounded, Zenon DEF OpToRel
<1> HIDE DEF R
<1>2. PICK x \in T : \A y \in T : ~(<<y, x>> \in R) BY <1>1, WFMin, Zenon
<1>3. ASSUME NEW y \in T PROVE x <= y
  <2>1. <<y, x>> \notin R BY <1>2
  <2>2. y \in Nat /\ x \in Nat OBVIOUS
  <2>3. ~(y < x) BY <2>1, <2>2 DEF R
  <2> QED BY <2>3, <2>2
<1> QED BY <1>3

(* the principle of induction *)
LEMMA NatSetInduction ==
    ASSUME NEW T, 0 \in T, \A n \in Nat : n \in T => n + 1 \in T
    PROVE  Nat \subseteq T
<1> SUFFICES ASSUME Nat \ T # {} PROVE FALSE OBVIOUS
<1>1. PICK x \in Nat \ T : \A y \in Nat \ T : x <= y BY LeastNumber
<1>2. x # 0 /\ x - 1 \in Nat OBVIOUS
<1>3. x - 1 \in T BY <1>1, <1>2
<1> QED BY <1>3, <1>2

-----------------------------------------------------------------------------
(* The helpers on lists *)

(* the equation of the recursion in Without *)
LeftAt(g, s, D, i) == IF i = 0 THEN << >> ELSE IF s[i] \in D THEN g[i - 1] ELSE Append(g[i - 1], s[i])

(* the recursion has a solution, and Without takes its last value *)
LEMMA WithoutIs == ASSUME NEW S, NEW s \in Seq(S), NEW D
   PROVE \E g : g = [i \in 0 .. Len(s) |-> LeftAt(g, s, D, i)] /\ Without(s, D) = g[Len(s)]
<1> DEFINE Upto(n) == \E g : g = [i \in 0 .. n |-> LeftAt(g, s, D, i)]
           T == {n \in Nat : Upto(n)}
<1>1. 0 \in T
  <2> DEFINE g == [i \in 0 .. 0 |-> << >>]
  <2>1. g = [i \in 0 .. 0 |-> LeftAt(g, s, D, i)] BY DEF LeftAt
  <2> QED BY <2>1
<1>2. ASSUME NEW n \in Nat, n \in T PROVE n + 1 \in T
  <2>1. PICK g : g = [i \in 0 .. n |-> LeftAt(g, s, D, i)] BY <1>2
  <2> DEFINE h == [i \in 0 .. n + 1 |-> IF i <= n THEN g[i] ELSE LeftAt(g, s, D, n + 1)]
  <2>2. \A i \in 0 .. n + 1 : h[i] = LeftAt(h, s, D, i)
    <3> SUFFICES ASSUME NEW i \in 0 .. n + 1 PROVE h[i] = LeftAt(h, s, D, i) OBVIOUS
    <3>1. i # 0 => h[i - 1] = g[i - 1] OBVIOUS
    <3>2. CASE i <= n 
      <4>1. g[i] = LeftAt(g, s, D, i) BY <2>1, <3>2
      <4> QED BY <3>1, <3>2, <4>1 DEF LeftAt
    <3>3. CASE i = n + 1 BY <3>1, <3>3 DEF LeftAt
    <3> QED BY <3>2, <3>3
  <2>3. h = [i \in 0 .. n + 1 |-> LeftAt(h, s, D, i)] BY <2>2
  <2> HIDE DEF h
  <2>4. Upto(n + 1) BY <2>3, Zenon
  <2> QED BY <2>4
<1>3. Nat \subseteq T
  <2> HIDE DEF T
  <2> QED BY <1>1, <1>2, NatSetInduction
<1>4. \E g : g = [i \in 0 .. Len(s) |-> LeftAt(g, s, D, i)] BY <1>3
<1>5. PICK g : g = CHOOSE f : f = [i \in 0 .. Len(s) |-> LeftAt(f, s, D, i)] OBVIOUS
<1>6. g = [i \in 0 .. Len(s) |-> LeftAt(g, s, D, i)] BY <1>4, <1>5
<1>7. Without(s, D) = g[Len(s)] BY <1>5 DEF Without, LeftAt
<1> QED BY <1>6, <1>7

(* unlinking leaves the other elements, in their order *)
LEMMA WithoutFacts == ASSUME NEW S, NEW s \in Seq(S), NEW D
   PROVE /\ Without(s, D) \in Seq(S)
         /\ ToSet(Without(s, D)) = ToSet(s) \ D
         /\ \A a, b \in DOMAIN Without(s, D) : a < b => 
               \E i, j \in DOMAIN s : i < j /\ Without(s, D)[a] = s[i] /\ Without(s, D)[b] = s[j]
<1>1. PICK g : g = [i \in 0 .. Len(s) |-> LeftAt(g, s, D, i)] /\ Without(s, D) = g[Len(s)] BY WithoutIs
<1> DEFINE Good(n) ==
       /\ g[n] \in Seq(S)
       /\ ToSet(g[n]) = {s[i] : i \in 1 .. n} \ D
       /\ \A a, b \in DOMAIN g[n] : a < b => 
               \E i, j \in 1 .. n : i < j /\ g[n][a] = s[i] /\ g[n][b] = s[j]
       T == {n \in Nat : n <= Len(s) => Good(n)}
<1>2. 0 \in T
  <2>1. g[0] = << >> BY <1>1 DEF LeftAt
  <2>2. ToSet(g[0]) = {} BY <2>1 DEF ToSet
  <2>3. {s[i] : i \in 1 .. 0} = {} OBVIOUS
  <2>4. DOMAIN g[0] = {} /\ g[0] \in Seq(S) BY <2>1
  <2> QED BY <2>2, <2>3, <2>4
<1>3. ASSUME NEW n \in Nat, n \in T PROVE n + 1 \in T
  <2> SUFFICES ASSUME n + 1 <= Len(s) PROVE Good(n + 1) OBVIOUS
  <2>1. Good(n) /\ n + 1 \in 1 .. Len(s) /\ s[n + 1] \in S BY <1>3
  <2>2. g[n + 1] = IF s[n + 1] \in D THEN g[n] ELSE Append(g[n], s[n + 1]) 
    <3>1. g[n + 1] = LeftAt(g, s, D, n + 1) BY <1>1, <2>1
    <3> QED BY <3>1 DEF LeftAt
  <2> HIDE DEF T
  <2>3. CASE s[n + 1] \in D
    <3>1. g[n + 1] = g[n] BY <2>2, <2>3
    <3>2. {s[i] : i \in 1 .. n + 1} \ D = {s[i] : i \in 1 .. n} \ D BY <2>3
    <3> QED BY <3>1, <3>2, <2>1
  <2>4. CASE s[n + 1] \notin D
    <3>1. g[n + 1] = Append(g[n], s[n + 1]) BY <2>2, <2>4
    <3>2. {s[i] : i \in 1 .. n + 1} \ D = ({s[i] : i \in 1 .. n} \ D) \cup {s[n + 1]} BY <2>4
    <3>3. g[n + 1] \in Seq(S) BY <3>1, <2>1
    <3>4. ToSet(g[n + 1]) = ToSet(g[n]) \cup {s[n + 1]}
      <4>1. /\ DOMAIN g[n + 1] = DOMAIN g[n] \cup {Len(g[n]) + 1}
            /\ \A i \in DOMAIN g[n] : g[n + 1][i] = g[n][i]
            /\ g[n + 1][Len(g[n]) + 1] = s[n + 1]
        BY <3>1, <2>1
      <4> HIDE DEF Good
      <4> QED BY <4>1 DEF ToSet
    <3>5. ASSUME NEW a \in DOMAIN g[n + 1], NEW b \in DOMAIN g[n + 1], a < b
          PROVE  \E i, j \in 1 .. n + 1 : i < j /\ g[n + 1][a] = s[i] /\ g[n + 1][b] = s[j]
      <4>1. a \in DOMAIN g[n] /\ g[n + 1][a] = g[n][a] BY <3>1, <3>5, <2>1
      <4>2. CASE b \in DOMAIN g[n] 
        <5>1. g[n + 1][b] = g[n][b] BY <3>1, <2>1, <4>2
        <5>2. PICK i, j \in 1 .. n : i < j /\ g[n][a] = s[i] /\ g[n][b] = s[j] BY <2>1, <4>1, <4>2, <3>5
        <5> QED BY <4>1, <5>1, <5>2
      <4>3. CASE b \notin DOMAIN g[n]
        <5>1. g[n + 1][b] = s[n + 1] BY <3>1, <2>1, <4>3, <3>5
        <5>2. g[n][a] \in ToSet(g[n]) BY <4>1 DEF ToSet
        <5>3. PICK i \in 1 .. n : g[n][a] = s[i] BY <5>2, <2>1
        <5>4. i \in 1 .. n + 1 /\ n + 1 \in 1 .. n + 1 /\ i < n + 1 BY <2>1
        <5> QED BY <4>1, <5>1, <5>3, <5>4
      <4> QED BY <4>2, <4>3
    <3> QED BY <3>2, <3>3, <3>4, <3>5, <2>1
  <2> QED BY <2>3, <2>4
<1>4. Nat \subseteq T
  <2> HIDE DEF T
  <2> QED BY <1>2, <1>3, NatSetInduction
<1>5. Good(Len(s))
  <2> HIDE DEF Good
  <2>1. Len(s) \in Nat /\ Len(s) <= Len(s) OBVIOUS
  <2>2. Len(s) \in T BY <1>4, <2>1, Zenon
  <2> QED BY <2>1, <2>2
<1>6. {s[i] : i \in 1 .. Len(s)} = ToSet(s) /\ DOMAIN s = 1 .. Len(s) BY DEF ToSet
<1>7. Without(s, D) = g[Len(s)] BY <1>1
<1> DEFINE n == Len(s)
<1> HIDE DEF n, T
<1>8. g[n] \in Seq(S) /\ ToSet(g[n]) = {s[i] : i \in 1 .. n} \ D BY <1>5 DEF n
<1>9. \A a, b \in DOMAIN g[n] : a < b =>
         \E i, j \in 1 .. n : i < j /\ g[n][a] = s[i] /\ g[n][b] = s[j]
  BY <1>5 DEF n
<1> QED BY <1>6, <1>7, <1>8, <1>9, SMTT(30) DEF n

(* z is the first n elements of s *)
Starts(z, S, s, n) == z \in Seq(S) /\ Len(z) = n /\ \A i \in 1 .. n : z[i] = s[i]

(* when at most the last element is unlinked, the others stay where they are *)
LEMMA WithoutLast ==
    ASSUME NEW S, NEW s \in Seq(S), NEW D, \A i \in DOMAIN s : s[i] \in D => i = Len(s)
    PROVE  /\ Without(s, D) \in Seq(S) /\ Len(Without(s, D)) <= Len(s)
           /\ \A i \in 1 .. Len(Without(s, D)) : Without(s, D)[i] = s[i]
<1>1. PICK g : g = [i \in 0 .. Len(s) |-> LeftAt(g, s, D, i)] /\ Without(s, D) = g[Len(s)] BY WithoutIs
<1>2. PICK m \in Nat : m = Len(s) /\ DOMAIN s = 1 .. m OBVIOUS
<1> DEFINE T == {n \in Nat : n < m => Starts(g[n], S, s, n)}
<1>3. 0 \in T
  <2>1. g[0] = << >> BY <1>1 DEF LeftAt
  <2>2. << >> \in Seq(S) /\ Len(<< >>) = 0 /\ 1 .. 0 = {} OBVIOUS
  <2>3. Starts(g[0], S, s, 0) BY <2>1, <2>2 DEF Starts
  <2> QED BY <2>3
<1>4. ASSUME NEW n \in Nat, n < m, Starts(g[n], S, s, n)
      PROVE  \/ s[n + 1] \in D /\ g[n + 1] = g[n]
             \/ s[n + 1] \notin D /\ Starts(g[n + 1], S, s, n + 1)
  <2>1. n + 1 \in 1 .. m /\ s[n + 1] \in S BY <1>2, <1>4
  <2>2. g[n + 1] = IF s[n + 1] \in D THEN g[n] ELSE Append(g[n], s[n + 1])
    <3>1. g[n + 1] = LeftAt(g, s, D, n + 1) BY <1>1, <1>2, <2>1
    <3> QED BY <3>1 DEF LeftAt
  <2>3. CASE s[n + 1] \in D BY <2>2, <2>3
  <2>4. CASE s[n + 1] \notin D
    <3>1. g[n + 1] = Append(g[n], s[n + 1]) BY <2>2, <2>4
    <3>2. /\ g[n + 1] \in Seq(S) /\ Len(g[n + 1]) = n + 1 /\ g[n + 1][n + 1] = s[n + 1]
          /\ \A i \in 1 .. n : g[n + 1][i] = s[i]
      BY <3>1, <2>1, <1>4 DEF Starts
    <3>3. \A i \in 1 .. n + 1 : i \in 1 .. n \/ i = n + 1 OBVIOUS
    <3>4. Starts(g[n + 1], S, s, n + 1) BY <3>2, <3>3 DEF Starts
    <3> QED BY <3>4, <2>4
  <2> QED BY <2>3, <2>4
<1>5. ASSUME NEW n \in Nat, n \in T PROVE n + 1 \in T
  <2> SUFFICES ASSUME n + 1 < m PROVE Starts(g[n + 1], S, s, n + 1) OBVIOUS
  <2>1. n < m /\ n + 1 \in 1 .. m /\ n + 1 # m /\ Starts(g[n], S, s, n) BY <1>2, <1>5
  <2>2. s[n + 1] \notin D BY <2>1, <1>2
  <2> HIDE DEF T
  <2> QED BY <2>1, <2>2, <1>4
<1>6. Nat \subseteq T
  <2> HIDE DEF T
  <2> QED BY <1>3, <1>5, NatSetInduction
<1>7. PICK w : w = g[m] /\ Without(s, D) = w BY <1>1, <1>2
<1>8. w \in Seq(S) /\ Len(w) <= m /\ \A i \in 1 .. Len(w) : w[i] = s[i]
  <2>1. CASE m = 0
    <3>1. w = << >> BY <1>1, <1>2, <1>7, <2>1 DEF LeftAt
    <3>2. << >> \in Seq(S) /\ Len(<< >>) = 0 /\ 1 .. 0 = {} OBVIOUS
    <3> QED BY <3>1, <3>2, <2>1
  <2>2. CASE m # 0
    <3>1. PICK n \in Nat : n + 1 = m /\ n < m
      <4>1. m - 1 \in Nat /\ m - 1 + 1 = m /\ m - 1 < m BY <2>2
      <4> QED BY <4>1
    <3>2. n \in T BY <1>6
    <3>3. Starts(g[n], S, s, n) BY <3>1, <3>2
    <3> HIDE DEF T
    <3>4. w = g[n + 1] BY <3>1, <1>7
    <3>5. w = g[n] \/ Starts(w, S, s, n + 1) BY <3>1, <3>3, <3>4, <1>4
    <3>6. CASE w = g[n] BY <3>6, <3>1, <3>3 DEF Starts
    <3>7. CASE Starts(w, S, s, n + 1) BY <3>7, <3>1 DEF Starts
    <3> QED BY <3>5, <3>6, <3>7
  <2> QED BY <2>1, <2>2
<1> QED BY <1>2, <1>7, <1>8

(* unlinking keeps a list free of repetitions *)
LEMMA WithoutDistinct ==
    ASSUME NEW S, NEW s \in Seq(S), Distinct(s), NEW D
    PROVE  Distinct(Without(s, D))
<1> DEFINE w == Without(s, D)
<1>1. w \in Seq(S) BY WithoutFacts
<1>2. \A a, b \in DOMAIN w : a < b => \E i, j \in DOMAIN s : i < j /\ w[a] = s[i] /\ w[b] = s[j]
  BY WithoutFacts
<1> HIDE DEF w
<1>3. ASSUME NEW a \in DOMAIN w, NEW b \in DOMAIN w, a < b PROVE w[a] # w[b]
  <2>1. PICK i, j \in DOMAIN s : i < j /\ w[a] = s[i] /\ w[b] = s[j] BY <1>2, <1>3
  <2> QED BY <2>1 DEF Distinct
<1>4. \A a, b \in DOMAIN w : a # b => a < b \/ b < a BY <1>1
<1>5. Distinct(w) BY <1>3, <1>4 DEF Distinct
<1> QED BY <1>5 DEF w

(* the elements of a list are found at its indices *)
LEMMA InList ==
    ASSUME NEW s, NEW d
    PROVE  d \in ToSet(s) <=> \E i \in DOMAIN s : s[i] = d
BY DEF ToSet

(* an element joins a list at its end *)
LEMMA AppendFacts ==
    ASSUME NEW S, NEW s \in Seq(S), NEW d \in S
    PROVE  /\ Append(s, d) \in Seq(S)
           /\ ToSet(Append(s, d)) = ToSet(s) \cup {d}
           /\ Distinct(s) /\ d \notin ToSet(s) => Distinct(Append(s, d))
<1>1. /\ DOMAIN Append(s, d) = DOMAIN s \cup {Len(s) + 1}
      /\ \A i \in DOMAIN s : Append(s, d)[i] = s[i]
      /\ Append(s, d)[Len(s) + 1] = d
  OBVIOUS
<1>2. Append(s, d) \in Seq(S) OBVIOUS
<1>3. ToSet(Append(s, d)) = ToSet(s) \cup {d} BY <1>1 DEF ToSet
<1>4. ASSUME Distinct(s), d \notin ToSet(s) PROVE Distinct(Append(s, d)) BY <1>1, <1>4 DEF Distinct, ToSet
<1> QED BY <1>2, <1>3, <1>4

(* two lists become one *)
LEMMA ConcatFacts ==
    ASSUME NEW S, NEW s \in Seq(S), NEW t \in Seq(S)
    PROVE  /\ s \o t \in Seq(S)
           /\ ToSet(s \o t) = ToSet(s) \cup ToSet(t)
           /\ Distinct(s) /\ Distinct(t) /\ ToSet(s) \cap ToSet(t) = {} => Distinct(s \o t)
<1>1. /\ DOMAIN (s \o t) = 1 .. Len(s) + Len(t)
      /\ \A i \in 1 .. Len(s) : (s \o t)[i] = s[i]
      /\ \A i \in 1 .. Len(t) : (s \o t)[Len(s) + i] = t[i]
      /\ \A i \in Len(s) + 1 .. Len(s) + Len(t) : i - Len(s) \in 1 .. Len(t) /\ (s \o t)[i] = t[i - Len(s)]
      /\ DOMAIN s = 1 .. Len(s) /\ DOMAIN t = 1 .. Len(t) /\ Len(s) \in Nat /\ Len(t) \in Nat
  OBVIOUS
<1>2. s \o t \in Seq(S) OBVIOUS
<1> DEFINE u == s \o t
<1> HIDE DEF u
<1>3. ToSet(u) \subseteq ToSet(s) \cup ToSet(t)
  <2> SUFFICES ASSUME NEW i \in DOMAIN u PROVE u[i] \in ToSet(s) \cup ToSet(t) BY DEF ToSet
  <2>1. CASE i <= Len(s) BY <2>1, <1>1 DEF ToSet, u
  <2>2. CASE ~(i <= Len(s)) BY <2>2, <1>1 DEF ToSet, u
  <2> QED BY <2>1, <2>2
<1>4. ToSet(s) \subseteq ToSet(u)
  <2> SUFFICES ASSUME NEW i \in DOMAIN s PROVE s[i] \in ToSet(u) BY DEF ToSet
  <2>1. i \in DOMAIN u /\ u[i] = s[i] BY <1>1 DEF u
  <2> QED BY <2>1 DEF ToSet
<1>5. ToSet(t) \subseteq ToSet(u)
  <2> SUFFICES ASSUME NEW i \in DOMAIN t PROVE t[i] \in ToSet(u) BY DEF ToSet
  <2>1. Len(s) + i \in DOMAIN u /\ u[Len(s) + i] = t[i] BY <1>1 DEF u
  <2> QED BY <2>1 DEF ToSet
<1>6. ASSUME Distinct(s), Distinct(t), ToSet(s) \cap ToSet(t) = {} PROVE Distinct(u)
  <2> SUFFICES ASSUME NEW i \in DOMAIN u, NEW j \in DOMAIN u, u[i] = u[j] PROVE i = j BY DEF Distinct
  <2>1. \A k \in DOMAIN u : \/ k \in DOMAIN s /\ u[k] = s[k] /\ u[k] \in ToSet(s)
                            \/ k - Len(s) \in DOMAIN t /\ u[k] = t[k - Len(s)] /\ u[k] \in ToSet(t)
    BY <1>1 DEF u, ToSet
  <2>2. i \in Nat /\ j \in Nat BY <1>1 DEF u
  <2>3. CASE u[i] \in ToSet(s)
    <3>1. i \in DOMAIN s /\ u[i] = s[i] /\ j \in DOMAIN s /\ u[j] = s[j] BY <2>1, <2>3, <1>6
    <3> QED BY <3>1, <1>6 DEF Distinct
  <2>4. CASE u[i] \notin ToSet(s)
    <3>1. /\ i - Len(s) \in DOMAIN t /\ u[i] = t[i - Len(s)]
          /\ j - Len(s) \in DOMAIN t /\ u[j] = t[j - Len(s)]
      BY <2>1, <2>4
    <3>2. i - Len(s) = j - Len(s) BY <3>1, <1>6 DEF Distinct
    <3> QED BY <3>2, <2>2, <1>1
  <2> QED BY <2>3, <2>4
<1> QED BY <1>2, <1>3, <1>4, <1>5, <1>6 DEF u

(* a list is cut in two *)
LEMMA CutFacts ==
    ASSUME NEW S, NEW s \in Seq(S), Distinct(s), NEW n \in 0 .. Len(s)
    PROVE  LET a == SubSeq(s, 1, n)  b == SubSeq(s, n + 1, Len(s)) IN
           /\ a \in Seq(S) /\ b \in Seq(S) /\ Distinct(a) /\ Distinct(b)
           /\ Len(a) = n /\ \A i \in 1 .. n : a[i] = s[i]
           /\ ToSet(a) \cap ToSet(b) = {} /\ ToSet(a) \cup ToSet(b) = ToSet(s)
<1> DEFINE a == SubSeq(s, 1, n)  b == SubSeq(s, n + 1, Len(s))
<1>0. Len(s) \in Nat /\ n \in Nat /\ n <= Len(s) /\ DOMAIN s = 1 .. Len(s) OBVIOUS
<1>1. a \in Seq(S) /\ Len(a) = n /\ DOMAIN a = 1 .. n /\ \A i \in 1 .. n : a[i] = s[i]
  BY <1>0
<1>2. b \in Seq(S) /\ DOMAIN b = 1 .. Len(s) - n /\ \A i \in 1 .. Len(s) - n : b[i] = s[n + i]
  BY <1>0
<1> HIDE DEF a, b
<1>3. Distinct(a) BY <1>0, <1>1 DEF Distinct
<1>4. Distinct(b)
  <2> SUFFICES ASSUME NEW i \in DOMAIN b, NEW j \in DOMAIN b, b[i] = b[j] PROVE i = j BY DEF Distinct
  <2>1. n + i \in DOMAIN s /\ n + j \in DOMAIN s /\ i \in Nat /\ j \in Nat BY <1>0, <1>2
  <2>2. s[n + i] = s[n + j] BY <1>2
  <2>3. n + i = n + j BY <2>1, <2>2 DEF Distinct
  <2> QED BY <2>1, <2>3, <1>0
<1>5. ToSet(a) \cap ToSet(b) = {}
  <2> SUFFICES ASSUME NEW i \in DOMAIN a, NEW j \in DOMAIN b, a[i] = b[j] PROVE FALSE BY DEF ToSet
  <2>1. i \in DOMAIN s /\ n + j \in DOMAIN s /\ i # n + j BY <1>0, <1>1, <1>2
  <2>2. s[i] = s[n + j] BY <1>1, <1>2
  <2> QED BY <2>1, <2>2 DEF Distinct
<1>6. ToSet(a) \cup ToSet(b) \subseteq ToSet(s)
  <2>1. ASSUME NEW i \in DOMAIN a PROVE a[i] \in ToSet(s) BY <1>0, <1>1 DEF ToSet
  <2>2. ASSUME NEW i \in DOMAIN b PROVE b[i] \in ToSet(s)
    <3>1. n + i \in DOMAIN s /\ b[i] = s[n + i] BY <1>0, <1>2
    <3> QED BY <3>1 DEF ToSet
  <2> QED BY <2>1, <2>2 DEF ToSet
<1>7. ToSet(s) \subseteq ToSet(a) \cup ToSet(b)
  <2> SUFFICES ASSUME NEW i \in DOMAIN s PROVE s[i] \in ToSet(a) \cup ToSet(b) BY DEF ToSet
  <2>1. CASE i <= n
    <3>1. i \in DOMAIN a /\ a[i] = s[i] BY <1>0, <1>1, <2>1
    <3> QED BY <3>1 DEF ToSet
  <2>2. CASE ~(i <= n)
    <3>1. i - n \in DOMAIN b /\ n + (i - n) = i BY <1>0, <1>2, <2>2
    <3>2. b[i - n] = s[i] BY <3>1, <1>2
    <3> QED BY <3>1, <3>2 DEF ToSet
  <2> QED BY <2>1, <2>2
<1>8. ToSet(a) \cup ToSet(b) = ToSet(s) BY <1>6, <1>7
<1> QED BY <1>1, <1>2, <1>3, <1>4, <1>5, <1>8 DEF a, b

(* a list has finitely many elements, as many as its length if none is repeated *)
LEMMA ListFinite ==
    ASSUME NEW S, NEW s \in Seq(S)
    PROVE  /\ IsFiniteSet(ToSet(s))
           /\ Distinct(s) => Cardinality(ToSet(s)) = Len(s)
<1>1. DOMAIN s = 1 .. Len(s) /\ Len(s) \in Nat OBVIOUS
<1>2. IsFiniteSet(1 .. Len(s)) /\ Cardinality(1 .. Len(s)) = Len(s) BY <1>1, FS_Interval
<1>3. s \in Surjection(1 .. Len(s), ToSet(s)) BY <1>1 DEF Surjection, ToSet
<1>4. IsFiniteSet(ToSet(s)) BY <1>2, <1>3, FS_Surjection
<1>5. ASSUME Distinct(s) PROVE Cardinality(ToSet(s)) = Len(s)
  <2>1. s \in Bijection(1 .. Len(s), ToSet(s)) BY <1>1, <1>3, <1>5 DEF Bijection, Injection, IsInjective, Distinct, Surjection
  <2>2. ExistsBijection(1 .. Len(s), ToSet(s)) BY <2>1 DEF ExistsBijection
  <2> QED BY <1>2, <2>2, FS_Bijection
<1> QED BY <1>4, <1>5

=============================================================================
