----------------------------- MODULE ListFacts -----------------------------
(***************************************************************************)
(* Facts about numbers and sequences that the proofs of several components *)
(* rest on.                                                                *)
(***************************************************************************)
EXTENDS Integers, SequencesExt, FiniteSetTheorems, SequenceTheorems, TLAPS

\* A set of numbers that is not empty has a least one: what these
\* proofs use in place of induction.
LEMMA Least ==
  ASSUME NEW S, S \subseteq Nat, S # {}
  PROVE  \E n \in S : \A m \in S : n <= m
  <1> DEFINE R == OpToRel(<, Nat)
  <1>1. IsWellFoundedOn(R, Nat)
    BY NatLessThanWellFounded
  <1> HIDE DEF R
  <1>2. \E n \in S : \A m \in S : ~(<<m, n>> \in R)
    BY <1>1, WFMin
  <1>3. \A n, m \in S : n < m => <<n, m>> \in R
    BY DEF R, OpToRel
  <1>4. \E n \in S : \A m \in S : ~(m < n)
    BY <1>2, <1>3, Zenon
  <1> QED BY <1>4

LEMMA Lengths ==
  \A n \in Nat : /\ n = 0 \/ n = 1 \/ n > 1
                 /\ n > 1 => /\ n # 1 /\ 2 \in 1 .. n /\ 1 \in 1 .. n - 1
                             /\ n - 1 \in 1 .. n - 1 /\ (n - 1) + 1 = n
OBVIOUS

LEMMA FirstAndLast ==
  ASSUME NEW S, NEW q \in Seq(S)
  PROVE  /\ Len(q) \in Nat
         /\ q = <<>> <=> Len(q) = 0
         /\ q # <<>> => 1 \in 1 .. Len(q) /\ Len(q) \in 1 .. Len(q)
  <1>1. Len(q) \in Nat /\ (q = <<>> <=> Len(q) = 0)
    BY LenProperties, EmptySeq
  <1> QED BY <1>1

-----------------------------------------------------------------------------
\* r is what is left of q when some elements are taken out: the k-th of r is
\* the f[k]-th of q.
Thinned(r, q) ==
  \E f \in [1 .. Len(r) -> 1 .. Len(q)] :
    /\ \A k \in 1 .. Len(r) : r[k] = q[f[k]]
    /\ \A k, l \in 1 .. Len(r) : f[k] = f[l] => k = l

LEMMA RemoveAtElements ==
  ASSUME NEW S, NEW q \in Seq(S), NEW i \in 1 .. Len(q)
  PROVE  /\ RemoveAt(q, i) \in Seq(S)
         /\ Len(RemoveAt(q, i)) = Len(q) - 1
         /\ \A k \in 1 .. Len(q) - 1 :
              RemoveAt(q, i)[k] = IF k < i THEN q[k] ELSE q[k + 1]
  <1> DEFINE n == Len(q)
             a == SubSeq(q, 1, i - 1)
             b == SubSeq(q, i + 1, n)
  <1>1. n \in Nat /\ i \in Nat /\ 1 <= i /\ i <= n
    BY LenProperties
  <1>2. \A k \in 1 .. n : q[k] \in S
    BY ElementOfSeq
  <1> HIDE DEF n
  <1>3. /\ a \in Seq(S) /\ Len(a) = i - 1
        /\ \A k \in 1 .. i - 1 : a[k] = q[k]
    <2>1. \A k \in 1 .. i - 1 : q[k] \in S /\ 1 + k - 1 = k
      BY <1>1, <1>2
    <2>2. 1 \in Int /\ i - 1 \in Int /\ i - 1 - 1 + 1 = i - 1 /\ (1 > i - 1 => i - 1 = 0)
      BY <1>1
    <2>3. a \in Seq(S) /\ Len(a) = (IF 1 <= i - 1 THEN (i - 1) - 1 + 1 ELSE 0)
          /\ \A k \in 1 .. (i - 1) - 1 + 1 : a[k] = q[1 + k - 1]
      BY <2>1, <2>2, SubSeqProperties
    <2> QED BY <1>1, <2>1, <2>2, <2>3
  <1>4. /\ b \in Seq(S) /\ Len(b) = n - i
        /\ \A k \in 1 .. n - i : b[k] = q[i + k]
    <2>1. \A k \in i + 1 .. n : q[k] \in S
      BY <1>1, <1>2
    <2>2. i + 1 \in Int /\ n \in Int
      BY <1>1
    <2>3. b \in Seq(S) /\ Len(b) = (IF i + 1 <= n THEN n - (i + 1) + 1 ELSE 0)
          /\ \A k \in 1 .. n - (i + 1) + 1 : b[k] = q[(i + 1) + k - 1]
      BY <2>1, <2>2, SubSeqProperties
    <2>4. n - (i + 1) + 1 = n - i /\ \A k \in 1 .. n - i : (i + 1) + k - 1 = i + k
      BY <1>1
    <2> QED BY <1>1, <2>3, <2>4
  <1>5. RemoveAt(q, i) = a \o b
    BY DEF RemoveAt, n
  <1> HIDE DEF a, b
  <1>6. /\ a \o b \in Seq(S) /\ Len(a \o b) = Len(a) + Len(b)
        /\ \A k \in 1 .. Len(a) + Len(b) :
             (a \o b)[k] = IF k <= Len(a) THEN a[k] ELSE b[k - Len(a)]
    BY <1>3, <1>4, ConcatProperties
  <1>7. (i - 1) + (n - i) = n - 1
    BY <1>1
  <1>8. ASSUME NEW k \in 1 .. n - 1
        PROVE  (a \o b)[k] = IF k < i THEN q[k] ELSE q[k + 1]
    <2>1. (a \o b)[k] = IF k <= i - 1 THEN a[k] ELSE b[k - (i - 1)]
      BY <1>3, <1>4, <1>6, <1>7
    <2>2. CASE k < i
      <3>1. k <= i - 1 /\ k \in 1 .. i - 1
        BY <1>1, <2>2
      <3> QED BY <1>3, <2>1, <2>2, <3>1
    <2>3. CASE ~(k < i)
      <3>1. ~(k <= i - 1) /\ k - (i - 1) \in 1 .. n - i /\ i + (k - (i - 1)) = k + 1
        BY <1>1, <2>3
      <3> QED BY <1>4, <2>1, <2>3, <3>1
    <2> QED BY <2>2, <2>3
  <1> QED BY <1>3, <1>4, <1>5, <1>6, <1>7, <1>8 DEF n

LEMMA RemoveAtThins ==
  ASSUME NEW S, NEW q \in Seq(S), NEW i \in 1 .. Len(q)
  PROVE  Thinned(RemoveAt(q, i), q)
         /\ \E f \in [1 .. Len(q) - 1 -> (1 .. Len(q)) \ {i}] :
              /\ \A k \in 1 .. Len(q) - 1 : RemoveAt(q, i)[k] = q[f[k]]
              /\ \A k, l \in 1 .. Len(q) - 1 : f[k] = f[l] => k = l
  <1> DEFINE n == Len(q)
             f == [k \in 1 .. n - 1 |-> IF k < i THEN k ELSE k + 1]
  <1>1. n \in Nat /\ i \in Nat /\ 1 <= i /\ i <= n
    BY LenProperties
  <1>2. Len(RemoveAt(q, i)) = n - 1
        /\ \A k \in 1 .. n - 1 : RemoveAt(q, i)[k] = IF k < i THEN q[k] ELSE q[k + 1]
    BY RemoveAtElements
  <1>3. f \in [1 .. n - 1 -> (1 .. n) \ {i}]
        /\ \A k, l \in 1 .. n - 1 : f[k] = f[l] => k = l
    <2> HIDE DEF n
    <2> QED BY <1>1
  <1>4. \A k \in 1 .. n - 1 : RemoveAt(q, i)[k] = q[f[k]]
    BY <1>2
  <1> HIDE DEF f, n
  <1>5. f \in [1 .. n - 1 -> 1 .. n]
    BY <1>3
  <1> QED BY <1>2, <1>3, <1>4, <1>5 DEF Thinned, n

\* The element to remove is at one place.
LEMMA RemoveFirstIs ==
  ASSUME NEW q, NEW i \in 1 .. Len(q), \A k \in 1 .. Len(q) : q[k] = q[i] => k = i,
         Len(q) \in Nat
  PROVE  RemoveFirst(q, q[i]) = RemoveAt(q, i)
  <1> DEFINE I == {k \in 1 .. Len(q) : q[k] = q[i]}
  <1>1. I = {i}
    OBVIOUS
  <1>2. i \in Int
    OBVIOUS
  <1>3. Min({i}) = i
    BY <1>2 DEF Min
  <1>4. SelectInSeq(q, LAMBDA v : v = q[i]) = i
    BY <1>1, <1>3 DEF SelectInSeq
  <1> QED BY <1>4 DEF RemoveFirst

-----------------------------------------------------------------------------
\* The k-th smallest number of a set of positions is there and is another one
\* for another k.
LEMMA KthPosition ==
  ASSUME NEW n \in Nat, NEW P \in SUBSET (1 .. n)
  PROVE  LET f == [k \in 1 .. Cardinality(P) |->
                     CHOOSE i \in P : Cardinality({j \in P : j <= i}) = k]
         IN  /\ Cardinality(P) \in Nat
             /\ f \in [1 .. Cardinality(P) -> P]
             /\ \A k, l \in 1 .. Cardinality(P) : f[k] = f[l] => k = l
  <1> DEFINE c == Cardinality(P)
             Below(i) == {j \in P : j <= i}
             rank == [i \in P |-> Cardinality(Below(i))]
             f == [k \in 1 .. c |-> CHOOSE i \in P : Cardinality(Below(i)) = k]
  <1>1. IsFiniteSet(P) /\ c \in Nat
    <2>1. IsFiniteSet(1 .. n)
      BY FS_Interval
    <2> QED BY <2>1, FS_Subset, FS_CardinalityType
  <1>2. \A i \in P : /\ IsFiniteSet(Below(i)) /\ rank[i] = Cardinality(Below(i))
                     /\ rank[i] \in Nat /\ rank[i] <= c /\ rank[i] # 0
    <2> SUFFICES ASSUME NEW i \in P
                 PROVE  /\ IsFiniteSet(Below(i)) /\ rank[i] = Cardinality(Below(i))
                        /\ rank[i] \in Nat /\ rank[i] <= c /\ rank[i] # 0
      OBVIOUS
    <2>1. Below(i) \in SUBSET P /\ i \in Below(i)
      OBVIOUS
    <2>2. rank[i] = Cardinality(Below(i))
      OBVIOUS
    <2> HIDE DEF Below, rank
    <2>3. IsFiniteSet(Below(i)) /\ Cardinality(Below(i)) <= c
      BY <1>1, <2>1, FS_Subset
    <2>4. Cardinality(Below(i)) \in Nat /\ Cardinality(Below(i)) # 0
      BY <2>1, <2>3, FS_CardinalityType, FS_EmptySet
    <2> QED BY <2>2, <2>3, <2>4
  <1>3. ASSUME NEW i \in P, NEW j \in P, i < j
        PROVE  rank[i] # rank[j]
    <2>1. Below(i) \in SUBSET Below(j) /\ j \in Below(j) /\ j \notin Below(i)
      <3>1. \A x \in P : x \in Nat
        OBVIOUS
      <3>2. i \in Nat /\ j \in Nat /\ j <= j /\ ~(j <= i) /\ \A x \in Nat : x <= i => x <= j
        BY <1>3, <3>1
      <3> QED BY <3>1, <3>2
    <2>2. IsFiniteSet(Below(j)) /\ rank[i] = Cardinality(Below(i))
          /\ rank[j] = Cardinality(Below(j))
      BY <1>2
    <2> HIDE DEF Below, rank
    <2>3. Cardinality(Below(j)) = Cardinality(Below(i)) => Below(j) = Below(i)
      BY <2>1, <2>2, FS_Subset
    <2> QED BY <2>1, <2>2, <2>3
  <1>4. rank \in Injection(P, 1 .. c)
    <2>1. rank \in [P -> 1 .. c]
      <3>1. \A i \in P : rank[i] \in 1 .. c
        BY <1>1, <1>2
      <3>2. rank = [i \in P |-> rank[i]]
        OBVIOUS
      <3> HIDE DEF rank
      <3> QED BY <3>1, <3>2
    <2>2. \A i, j \in P : i < j \/ j < i \/ i = j
      OBVIOUS
    <2>3. \A i, j \in P : rank[i] = rank[j] => i = j
      BY <1>3, <2>2
    <2> HIDE DEF rank
    <2> QED BY <2>1, <2>3 DEF Injection, IsInjective
  <1>5. Cardinality(1 .. c) = c /\ IsFiniteSet(1 .. c)
    BY <1>1, FS_Interval
  <1>6. rank \in Surjection(P, 1 .. c)
    BY <1>4, <1>5, FS_Injection
  <1>7. \A k \in 1 .. c : \E i \in P : Cardinality(Below(i)) = k
    BY <1>2, <1>6 DEF Surjection
  <1> HIDE DEF Below, rank
  <1>8. \A k \in 1 .. c : f[k] \in P /\ Cardinality(Below(f[k])) = k
    BY <1>7
  <1>9. f \in [1 .. c -> P] /\ \A k, l \in 1 .. c : f[k] = f[l] => k = l
    BY <1>8
  <1> QED BY <1>1, <1>9 DEF Below

-----------------------------------------------------------------------------
(* Positions of a ring. *)

LEMMA Remainders ==
  ASSUME NEW m \in Nat \ {0}, NEW a \in Int
  PROVE  /\ a % m \in 0 .. m - 1 /\ a \div m \in Int
         /\ a = m * (a \div m) + (a % m)
  <1>1. a % m \in 0 .. m - 1
    OBVIOUS
  <1>2. a \div m \in Int
    OBVIOUS
  <1>3. a = m * (a \div m) + (a % m)
    BY Z3
  <1> QED BY <1>1, <1>2, <1>3

\* Positions that are less than a turn apart have different slots.
LEMMA SlotsDiffer ==
  ASSUME NEW m \in Nat \ {0}, NEW a \in Int, NEW b \in Int, a < b, b - a < m
  PROVE  a % m # b % m
  <1> DEFINE q == a \div m
             p == b \div m
             r == a % m
  <1> SUFFICES ASSUME r = b % m PROVE FALSE
    OBVIOUS
  <1>1. q \in Int /\ p \in Int /\ r \in Int /\ a = m * q + r /\ b = m * p + r
    <2>1. /\ q \in Int /\ r \in 0 .. m - 1 /\ a = m * q + r
          /\ p \in Int /\ b = m * p + (b % m)
      BY Remainders
    <2> HIDE DEF q, p, r
    <2> QED BY <2>1
  <1> HIDE DEF q, p, r
  <1>2. b - a = m * (p - q)
    BY <1>1
  <1>3. p - q >= 1
    BY <1>1
  <1>4. \A d \in Int : d >= 1 => m * d >= m
    OBVIOUS
  <1>5. m * (p - q) >= m
    BY <1>1, <1>3, <1>4
  <1> QED BY <1>1, <1>2, <1>5

\* A whole turn leads back to the slot.
LEMMA SameSlot ==
  ASSUME NEW m \in Nat \ {0}, NEW a \in Int
  PROVE  (a + m) % m = a % m
  <1> DEFINE q == a \div m
             p == (a + m) \div m
             r == a % m
             s == (a + m) % m
  <1>1. q \in Int /\ p \in Int /\ r \in 0 .. m - 1 /\ s \in 0 .. m - 1
        /\ a = m * q + r /\ a + m = m * p + s
    BY Remainders
  <1> HIDE DEF q, p, r, s
  <1>2. s - r = m * (q + 1 - p) /\ s - r < m /\ r - s < m
    BY <1>1
  <1>3. \A d \in Int : (d >= 1 => m * d >= m) /\ (d <= -1 => m * d <= -m)
    OBVIOUS
  <1>4. q + 1 - p = 0
    <2> DEFINE d == q + 1 - p
    <2>1. d \in Int /\ m * d < m /\ -(m * d) < m
      BY <1>1, <1>2
    <2> HIDE DEF d
    <2>2. ~(d >= 1) /\ ~(d <= -1)
      BY <1>3, <2>1
    <2>3. d = 0
      BY <2>1, <2>2
    <2> QED BY <2>3 DEF d
  <1>5. s = r
    BY <1>1, <1>2, <1>4
  <1> QED BY <1>5 DEF r, s

-----------------------------------------------------------------------------
(* A sequence told by its elements. *)

LEMMA IsAppend ==
  ASSUME NEW S, NEW q \in Seq(S), NEW r \in Seq(S), NEW e \in S,
         Len(r) = Len(q) + 1, \A k \in 1 .. Len(q) : r[k] = q[k], r[Len(q) + 1] = e
  PROVE  r = Append(q, e)
  <1> DEFINE n == Len(q)
  <1>1. n \in Nat /\ Append(q, e) \in Seq(S) /\ Len(Append(q, e)) = n + 1
        /\ (\A k \in 1 .. n : Append(q, e)[k] = q[k]) /\ Append(q, e)[n + 1] = e
    BY LenProperties, AppendProperties
  <1> HIDE DEF n
  <1>2. \A k \in 1 .. n + 1 : k \in 1 .. n \/ k = n + 1
    BY <1>1
  <1>3. \A k \in 1 .. Len(r) : r[k] = Append(q, e)[k]
    BY <1>1, <1>2 DEF n
  <1> QED BY <1>1, <1>3, SeqEqual DEF n

LEMMA IsTail ==
  ASSUME NEW S, NEW q \in Seq(S), NEW r \in Seq(S), q # <<>>,
         Len(r) = Len(q) - 1, \A k \in 1 .. Len(q) - 1 : r[k] = q[k + 1]
  PROVE  r = Tail(q) /\ Head(q) = q[1]
  <1>1. /\ Tail(q) \in Seq(S) /\ Len(Tail(q)) = Len(q) - 1
        /\ \A k \in 1 .. Len(Tail(q)) : Tail(q)[k] = q[k + 1]
    BY HeadTailProperties
  <1>2. r = Tail(q)
    BY <1>1, SeqEqual
  <1> QED BY <1>2 DEF Head

LEMMA IsFront ==
  ASSUME NEW S, NEW q \in Seq(S), NEW r \in Seq(S), q # <<>>,
         Len(r) = Len(q) - 1, \A k \in 1 .. Len(q) - 1 : r[k] = q[k]
  PROVE  r = Front(q) /\ Last(q) = q[Len(q)]
  <1> DEFINE n == Len(q)
  <1>1. n \in Nat /\ n # 0
    BY FirstAndLast
  <1>2. \A k \in 1 .. n - 1 : q[k] \in S
    <2>1. \A k \in 1 .. n : q[k] \in S
      BY ElementOfSeq
    <2> HIDE DEF n
    <2> QED BY <1>1, <2>1
  <1>3. 1 \in Int /\ n - 1 \in Int /\ (n - 1) - 1 + 1 = n - 1 /\ (1 > n - 1 => n - 1 = 0)
    <2> HIDE DEF n
    <2> QED BY <1>1
  <1>4. /\ Front(q) \in Seq(S)
        /\ Len(Front(q)) = IF 1 <= n - 1 THEN (n - 1) - 1 + 1 ELSE 0
        /\ \A k \in 1 .. (n - 1) - 1 + 1 : Front(q)[k] = q[1 + k - 1]
    BY <1>2, <1>3, SubSeqProperties DEF Front
  <1>5. \A k \in 1 .. n - 1 : 1 + k - 1 = k
    OBVIOUS
  <1>6. Len(r) = n - 1 /\ \A k \in 1 .. n - 1 : r[k] = q[k]
    OBVIOUS
  <1> HIDE DEF n
  <1>7. Len(Front(q)) = n - 1 /\ \A k \in 1 .. n - 1 : Front(q)[k] = q[k]
    BY <1>1, <1>3, <1>4, <1>5
  <1>8. r = Front(q)
    BY <1>4, <1>6, <1>7, SeqEqual
  <1> QED BY <1>8 DEF Last

\* A part of a sequence.
LEMMA PartOfSeq ==
  ASSUME NEW S, NEW f \in Seq(S), NEW m \in Nat, NEW n \in Nat, 1 <= m, n <= Len(f), m <= n + 1
  PROVE  /\ SubSeq(f, m, n) \in Seq(S) /\ Len(SubSeq(f, m, n)) = n - m + 1
         /\ \A k \in 1 .. n - m + 1 : SubSeq(f, m, n)[k] = f[m + k - 1]
  <1>1. \A k \in m .. n : f[k] \in S
    <2>1. \A k \in 1 .. Len(f) : f[k] \in S
      BY ElementOfSeq
    <2>2. Len(f) \in Nat
      BY LenProperties
    <2> QED BY <2>1, <2>2
  <1>2. m \in Int /\ n \in Int /\ (m > n => n - m + 1 = 0)
    OBVIOUS
  <1>3. /\ SubSeq(f, m, n) \in Seq(S)
        /\ Len(SubSeq(f, m, n)) = IF m <= n THEN n - m + 1 ELSE 0
        /\ \A k \in 1 .. n - m + 1 : SubSeq(f, m, n)[k] = f[m + k - 1]
    BY <1>1, <1>2, SubSeqProperties
  <1> QED BY <1>2, <1>3

LEMMA NoPart ==
  ASSUME NEW f, NEW m \in Int, NEW n \in Int, n < m
  PROVE  SubSeq(f, m, n) = <<>>
  BY DEF SubSeq

\* From a place to the end.
LEMMA RestOfSeq ==
  ASSUME NEW S, NEW f \in Seq(S), NEW a \in Nat
  PROVE  LET r == SubSeq(f, a + 1, Len(f)) IN
         /\ r \in Seq(S)
         /\ Len(r) = IF a < Len(f) THEN Len(f) - a ELSE 0
         /\ \A k \in 1 .. Len(r) : r[k] = f[a + k]
  <1>1. Len(f) \in Nat
    BY LenProperties
  <1>2. CASE a < Len(f)
    <2>1. /\ SubSeq(f, a + 1, Len(f)) \in Seq(S)
          /\ Len(SubSeq(f, a + 1, Len(f))) = Len(f) - (a + 1) + 1
          /\ \A k \in 1 .. Len(f) - (a + 1) + 1 : SubSeq(f, a + 1, Len(f))[k] = f[(a + 1) + k - 1]
      <3>1. a + 1 \in Nat /\ 1 <= a + 1 /\ Len(f) <= Len(f) /\ a + 1 <= Len(f) + 1
        BY <1>1, <1>2
      <3> QED BY <1>1, <3>1, PartOfSeq
    <2>2. Len(f) - (a + 1) + 1 = Len(f) - a
      BY <1>1
    <2>3. ASSUME NEW k \in 1 .. Len(f) - a PROVE SubSeq(f, a + 1, Len(f))[k] = f[a + k]
      <3>1. (a + 1) + k - 1 = a + k
        OBVIOUS
      <3> QED BY <2>1, <2>2, <3>1
    <2> QED BY <1>2, <2>1, <2>2, <2>3
  <1>3. CASE ~(a < Len(f))
    <2>1. SubSeq(f, a + 1, Len(f)) = <<>>
      BY <1>1, <1>3, NoPart
    <2>2. <<>> \in Seq(S) /\ Len(<<>>) = 0
      BY EmptySeq
    <2> QED BY <1>3, <2>1, <2>2
  <1> QED BY <1>2, <1>3
=============================================================================
