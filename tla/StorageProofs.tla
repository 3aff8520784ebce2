---------------------------- MODULE StorageProofs ---------------------------
(***************************************************************************)
(* Theorems about what keeps objects and bytes: the blocks of the          *)
(* allocator and the vectors of MCStorage, for every finite set of them;   *)
(* its files and paths, for any number of threads, files and paths; then   *)
(* the pool of nodes of LockFreeObjectPool, for every finite set of        *)
(* threads, any number of nodes in a chunk and any number of chunks.       *)
(***************************************************************************)
EXTENDS LockFreeObjectPool, MCStorage, ListFacts, FunctionTheorems

-----------------------------------------------------------------------------
(* Numbers, for the blocks of the allocator. *)

\* m goes into k * m as often as k says.
LEMMA MultiplesDivide ==
  ASSUME NEW m \in Nat \ {0}, NEW k \in Int, NEW b \in Int
  PROVE  (k * m + b) \div m = k + (b \div m) /\ (k * m + b) % m = b % m
  <1> DEFINE a == k * m + b
             q == a \div m
             p == b \div m
             r == a % m
             s == b % m
  <1>1. a \in Int
    OBVIOUS
  <1> HIDE DEF a
  <1>2. q \in Int /\ r \in 0 .. m - 1 /\ a = m * q + r
    BY <1>1, Remainders
  <1>3. p \in Int /\ s \in 0 .. m - 1 /\ b = m * p + s
    BY Remainders
  <1> HIDE DEF q, p, r, s
  <1>4. PICK d \in Int : d = q - p - k
    BY <1>2, <1>3
  <1>5. m * q + r = k * m + (m * p + s)
    BY <1>2, <1>3 DEF a
  <1>6. s - r = m * d
    BY <1>2, <1>3, <1>4, <1>5
  <1>7. (d >= 1 => m * d >= m) /\ (d <= -1 => m * d <= -m)
    OBVIOUS
  <1>8. d = 0
    BY <1>2, <1>3, <1>6, <1>7
  <1>9. q = k + p /\ r = s
    BY <1>2, <1>3, <1>4, <1>6, <1>8
  <1> QED BY <1>9 DEF a, q, p, r, s

\* Rounded up to a multiple of the alignment.
LEMMA AlignIs ==
  ASSUME NEW s \in Nat, NEW m \in Nat \ {0}
  PROVE  /\ Mem!Align(s, m) \in Nat /\ s <= Mem!Align(s, m)
         /\ \E k \in Int : Mem!Align(s, m) = k * m
  <1> DEFINE a == s + m - 1
             q == a \div m
             r == a % m
  <1>1. a \in Int
    OBVIOUS
  <1>2. q \in Int /\ r \in 0 .. m - 1 /\ a = m * q + r
    <2> HIDE DEF a
    <2> QED BY <1>1, Remainders
  <1>3. Mem!Align(s, m) = q * m
    BY DEF Mem!Align
  <1> HIDE DEF q, r
  <1>4. q * m = a - r /\ q * m \in Int
    BY <1>2
  <1>5. q * m >= s
    BY <1>2, <1>4
  <1> QED BY <1>2, <1>3, <1>4, <1>5

\* The user's bytes are as far from the block as a header needs, whatever their size.
LEMMA OffsetIs ==
  ASSUME NEW s \in Nat, NEW m \in Nat \ {0}
  PROVE  Mem!Offset(s, m) = Mem!Align(24, m)
  <1>1. PICK k \in Int : Mem!Align(s, m) = k * m
    BY AlignIs
  <1> DEFINE b == 24 + m - 1
             A == Mem!Align(s, m)
  <1>2. b \in Int
    OBVIOUS
  <1>3. A + 24 + m - 1 = k * m + b
    BY <1>1
  <1>4. (k * m + b) \div m = k + (b \div m)
    <2> HIDE DEF b
    <2> QED BY <1>2, MultiplesDivide
  <1>5. Mem!GetRawSize(A, m) = ((A + 24 + m - 1) \div m) * m
    BY DEF Mem!GetRawSize, Mem!Align, Mem!kAllocHeaderSize
  <1>6. b \div m \in Int
    <2> HIDE DEF b
    <2> QED BY <1>2, Remainders
  <1>7. Mem!Align(24, m) = (b \div m) * m
    BY DEF Mem!Align
  <1>8. Mem!GetRawSize(A, m) = (k + (b \div m)) * m
    BY <1>3, <1>4, <1>5
  <1>9. PICK c \in Int : c = b \div m
    BY <1>6
  <1>10. (k + c) * m - k * m = c * m
    BY <1>9
  <1>11. Mem!Offset(s, m) = Mem!GetRawSize(A, m) - A
    BY DEF Mem!Offset
  <1> HIDE DEF A
  <1> QED BY <1>1, <1>7, <1>8, <1>9, <1>10, <1>11 DEF A

\* A live block as its header says.
LEMMA HeaderFits ==
  ASSUME NEW s \in Nat, NEW m \in Nat \ {0}, m % 8 = 0
  PROVE  LET user == Mem!Offset(s, m)
             raw == Mem!GetRawSize(Mem!Align(s, m), m)
         IN  /\ user \in Nat /\ raw \in Nat
             /\ user >= 24 /\ user + s <= raw
             /\ user % m = 0 /\ user % 8 = 0
  <1> DEFINE A == Mem!Align(s, m)
             raw == Mem!GetRawSize(A, m)
             user == Mem!Offset(s, m)
  <1>1. A \in Nat /\ s <= A
    BY AlignIs
  <1>2. raw \in Nat
    <2>1. A + 24 \in Nat
      BY <1>1
    <2>2. raw = Mem!Align(A + 24, m)
      BY DEF Mem!GetRawSize, Mem!kAllocHeaderSize
    <2> HIDE DEF A, raw
    <2> QED BY <2>1, <2>2, AlignIs
  <1>3. user = Mem!Align(24, m)
    BY OffsetIs
  <1>4. user \in Nat /\ 24 <= user
    <2>1. 24 \in Nat
      OBVIOUS
    <2> QED BY ONLY <2>1, <1>3, AlignIs, m \in Nat \ {0}
  <1>5. PICK k \in Int : user = k * m
    <2>1. 24 \in Nat
      OBVIOUS
    <2> QED BY ONLY <2>1, <1>3, AlignIs, m \in Nat \ {0}
  <1>6. user = raw - A
    BY DEF Mem!Offset
  <1> HIDE DEF user, raw, A
  <1>7. user % m = 0
    <2>1. (k * m + 0) % m = 0 % m
      BY MultiplesDivide
    <2>2. 0 % m = 0
      <3>1. (0 * m + 0) \div m = 0 + (0 \div m) /\ 0 % m \in 0 .. m - 1 /\ 0 = m * (0 \div m) + (0 % m)
            /\ 0 \div m \in Int
        BY MultiplesDivide, Remainders
      <3>2. PICK d \in Int : d = 0 \div m
        BY <3>1
      <3>3. (d >= 1 => m * d >= m) /\ (d <= -1 => m * d <= -m)
        OBVIOUS
      <3> QED BY <3>1, <3>2, <3>3
    <2>3. k * m + 0 = user
      BY <1>4, <1>5
    <2> QED BY <2>1, <2>2, <2>3
  <1>8. user % 8 = 0
    <2>1. PICK c \in Int : m = 8 * c
      <3>1. 8 \in Nat \ {0}
        OBVIOUS
      <3>2. m = 8 * (m \div 8) + (m % 8) /\ m \div 8 \in Int
        BY <3>1, Remainders
      <3> QED BY <3>2
    <2>2. PICK d \in Int : d = k * c
      OBVIOUS
    <2>3. user = 8 * d
      BY <1>5, <2>1, <2>2
    <2> QED BY <1>4, <2>3
  <1>9. user + s <= raw
    BY <1>1, <1>2, <1>4, <1>6
  <1> QED BY <1>2, <1>4, <1>7, <1>8, <1>9 DEF user, raw, A

-----------------------------------------------------------------------------
(* As many pairs as the numbers of a function add up to. *)

Tally(S, f) == UNION {{x} \X (1 .. f[x]) : x \in S}

LEMMA TallyIs ==
  ASSUME NEW S, NEW f
  PROVE  \A p : p \in Tally(S, f) <=> \E x \in S : p \in {x} \X (1 .. f[x])
  BY DEF Tally

LEMMA OneTallied ==
  ASSUME NEW x, NEW n \in Nat
  PROVE  IsFiniteSet({x} \X (1 .. n)) /\ Cardinality({x} \X (1 .. n)) = n
  <1>1. IsFiniteSet({x}) /\ Cardinality({x}) = 1
    BY FS_Singleton
  <1>2. IsFiniteSet(1 .. n) /\ Cardinality(1 .. n) = n
    BY FS_Interval
  <1>3. /\ IsFiniteSet({x} \X (1 .. n))
        /\ Cardinality({x} \X (1 .. n)) = Cardinality({x}) * Cardinality(1 .. n)
    BY <1>1, <1>2, FS_Product
  <1> QED BY <1>1, <1>2, <1>3

LEMMA TallyFinite ==
  ASSUME NEW S, IsFiniteSet(S), NEW f, \A x \in S : f[x] \in Nat
  PROVE  IsFiniteSet(Tally(S, f)) /\ Cardinality(Tally(S, f)) \in Nat
  <1> DEFINE parts == {{x} \X (1 .. f[x]) : x \in S}
             whole == [x \in S |-> {x} \X (1 .. f[x])]
  <1>1. whole \in Surjection(S, parts)
    BY DEF Surjection
  <1>2. IsFiniteSet(parts)
    <2> HIDE DEF whole, parts
    <2> QED BY <1>1, FS_Surjection
  <1>3. \A p \in parts : IsFiniteSet(p)
    <2>1. ASSUME NEW x \in S PROVE IsFiniteSet({x} \X (1 .. f[x]))
      <3>1. f[x] \in Nat
        OBVIOUS
      <3> QED BY <3>1, OneTallied
    <2> QED BY <2>1
  <1>4. IsFiniteSet(UNION parts)
    <2> HIDE DEF parts
    <2> QED BY <1>2, <1>3, FS_UNION
  <1>5. Tally(S, f) = UNION parts
    BY DEF Tally
  <1> HIDE DEF parts
  <1> QED BY <1>4, <1>5, FS_CardinalityType

LEMMA TallyOfOneMore ==
  ASSUME NEW S, IsFiniteSet(S), NEW f, \A y \in S : f[y] \in Nat, NEW x \in S
  PROVE  Cardinality(Tally(S, f)) = Cardinality(Tally(S \ {x}, f)) + f[x]
  <1> DEFINE R == Tally(S \ {x}, f)
             T == Tally(S, f)
             X == {x} \X (1 .. f[x])
  <1>1. IsFiniteSet(S \ {x})
    BY FS_RemoveElement
  <1>2. IsFiniteSet(R) /\ Cardinality(R) \in Nat
    BY <1>1, TallyFinite
  <1>3. IsFiniteSet(X) /\ Cardinality(X) = f[x] /\ f[x] \in Nat
    BY OneTallied
  <1>4. \A p : p \in T <=> \E y \in S : p \in {y} \X (1 .. f[y])
    BY TallyIs
  <1>5. \A p : p \in R <=> \E y \in S \ {x} : p \in {y} \X (1 .. f[y])
    BY TallyIs
  <1>6. R \cap X = {}
    BY <1>5
  <1>7. T = R \cup X
    <2>1. \A p : p \in T <=> p \in R \/ p \in X
      BY <1>4, <1>5
    <2> HIDE DEF T, R, X
    <2> QED BY <2>1
  <1> HIDE DEF T, R, X
  <1>8. Cardinality(R \cup X) = Cardinality(R) + Cardinality(X) - Cardinality(R \cap X)
    BY <1>2, <1>3, FS_Union
  <1>9. Cardinality(R \cap X) = 0
    BY <1>6, FS_EmptySet
  <1>10. Cardinality(T) = Cardinality(R) + f[x]
    BY <1>2, <1>3, <1>7, <1>8, <1>9
  <1> QED BY <1>10 DEF T, R

\* Only the number of x changes.
LEMMA TallyChanges ==
  ASSUME NEW S, IsFiniteSet(S), NEW f, \A y \in S : f[y] \in Nat,
         NEW g, \A y \in S : g[y] \in Nat, NEW x \in S, \A y \in S \ {x} : g[y] = f[y]
  PROVE  Cardinality(Tally(S, g)) = Cardinality(Tally(S, f)) + g[x] - f[x]
  <1>1. Tally(S \ {x}, g) = Tally(S \ {x}, f)
    <2> DEFINE R == Tally(S \ {x}, f)
               Q == Tally(S \ {x}, g)
    <2>1. \A p : p \in R <=> \E y \in S \ {x} : p \in {y} \X (1 .. f[y])
      BY TallyIs
    <2>2. \A p : p \in Q <=> \E y \in S \ {x} : p \in {y} \X (1 .. g[y])
      BY TallyIs
    <2> HIDE DEF R, Q
    <2>3. \A p : p \in R <=> p \in Q
      BY <2>1, <2>2
    <2>4. R = Q
      BY <2>3
    <2> QED BY <2>4 DEF R, Q
  <1>2. Cardinality(Tally(S, f)) = Cardinality(Tally(S \ {x}, f)) + f[x]
    BY TallyOfOneMore
  <1>3. Cardinality(Tally(S, g)) = Cardinality(Tally(S \ {x}, g)) + g[x]
    BY TallyOfOneMore
  <1>4. IsFiniteSet(S \ {x})
    BY FS_RemoveElement
  <1>5. Cardinality(Tally(S \ {x}, f)) \in Nat
    BY <1>4, TallyFinite
  <1>6. f[x] \in Nat /\ g[x] \in Nat
    OBVIOUS
  <1> QED BY <1>1, <1>2, <1>3, <1>5, <1>6

-----------------------------------------------------------------------------
(* The allocator. *)

Header == [rawSize : Nat, user : Nat, size : Nat, alignment : Alignments \cup {8},
           live : BOOLEAN, data : Nat]

\* What the header of a block that size bytes were asked for with an alignment says.
Headed(h) ==
  /\ h.size \in Sizes /\ h.alignment \in Alignments
  /\ h.user = Mem!Offset(h.size, h.alignment)
  /\ h.rawSize = Mem!GetRawSize(Mem!Align(h.size, h.alignment), h.alignment)
  /\ h.data = h.user

MemoryInv ==
  /\ block \in [Blocks -> Header]
  /\ \A b \in Blocks : IF block[b].live THEN Headed(block[b]) ELSE block[b] = Mem!None
  /\ freed = 0
  /\ stats = Cardinality(Tally(Blocks, [b \in Blocks |-> block[b].size]))

LEMMA FilledIs ==
  ASSUME NEW h \in Header, NEW s \in Sizes, NEW a \in Alignments
  PROVE  /\ Mem!Filled(h, s, a) \in Header
         /\ Mem!Filled(h, s, a).size = s /\ Mem!Filled(h, s, a).alignment = a
         /\ Mem!Filled(h, s, a).user = Mem!Align(24, a)
         /\ Mem!Filled(h, s, a).user = Mem!Offset(s, a)
         /\ Mem!Filled(h, s, a).rawSize = Mem!GetRawSize(Mem!Align(s, a), a)
         /\ Mem!Filled(h, s, a).live = h.live /\ Mem!Filled(h, s, a).data = h.data
  <1>1. s \in Nat /\ a \in Nat \ {0} /\ a % 8 = 0
    BY MemoryAssumption
  <1>2. LET user == Mem!Offset(s, a)
            raw == Mem!GetRawSize(Mem!Align(s, a), a)
        IN  /\ user \in Nat /\ raw \in Nat
            /\ user >= 24 /\ user + s <= raw
            /\ user % a = 0 /\ user % 8 = 0
    BY <1>1, HeaderFits
  <1>3. Mem!Offset(s, a) = Mem!Align(24, a)
    BY <1>1, OffsetIs
  <1> QED BY <1>1, <1>2, <1>3 DEF Mem!Filled, Header

\* A block that changes its header, and the statistics with it.
LEMMA BlockChanges ==
  ASSUME MemoryInv, NEW b \in Blocks, NEW h \in Header,
         block' = [block EXCEPT ![b] = h], freed' = 0,
         stats' = stats + h.size - block[b].size,
         IF h.live THEN Headed(h) ELSE h = Mem!None
  PROVE  MemoryInv'
  <1> DEFINE f == [c \in Blocks |-> block[c].size]
             g == [c \in Blocks |-> block'[c].size]
  <1>1. block \in [Blocks -> Header] /\ block' \in [Blocks -> Header]
        /\ block'[b] = h /\ \A c \in Blocks \ {b} : block'[c] = block[c]
    BY DEF MemoryInv
  <1>2. \A c \in Blocks : block[c].size \in Nat /\ block'[c].size \in Nat
    BY <1>1 DEF Header
  <1>3. /\ \A c \in Blocks : f[c] \in Nat /\ g[c] \in Nat
        /\ \A c \in Blocks \ {b} : g[c] = f[c]
        /\ f[b] = block[b].size /\ g[b] = h.size
    BY <1>1, <1>2
  <1> HIDE DEF f, g
  <1>4. Cardinality(Tally(Blocks, g)) = Cardinality(Tally(Blocks, f)) + g[b] - f[b]
    BY <1>3, MemoryAssumption, TallyChanges
  <1>5. Cardinality(Tally(Blocks, f)) \in Nat
    BY <1>3, MemoryAssumption, TallyFinite
  <1>6. stats' = Cardinality(Tally(Blocks, g))
    BY <1>3, <1>4, <1>5 DEF MemoryInv, f
  <1>7. \A c \in Blocks : IF block'[c].live THEN Headed(block'[c]) ELSE block'[c] = Mem!None
    BY <1>1 DEF MemoryInv
  <1> QED BY <1>1, <1>6, <1>7 DEF MemoryInv, g

LEMMA NoneIs == Mem!None \in Header /\ Mem!None.size = 0 /\ ~Mem!None.live
BY DEF Mem!None, Header

LEMMA AllocInv ==
  ASSUME MemoryInv, NEW b \in Blocks, NEW s \in Sizes, NEW a \in Alignments, Mem!Alloc(b, s, a)
  PROVE  MemoryInv'
  <1> DEFINE h == Mem!Filled(Mem!None, s, a)
             w == Mem!Written(h)
  <1>1. /\ h \in Header /\ h.size = s /\ h.alignment = a /\ h.user = Mem!Offset(s, a)
        /\ h.rawSize = Mem!GetRawSize(Mem!Align(s, a), a)
    BY NoneIs, FilledIs
  <1>2. block' = [block EXCEPT ![b] = w] /\ stats' = stats + s /\ freed' = freed
    BY DEF Mem!Alloc
  <1>3. block[b] = Mem!None /\ freed = 0
    BY DEF MemoryInv, Mem!Alloc
  <1> HIDE DEF h
  <1>4. w \in Header /\ w.live /\ Headed(w) /\ w.size = s
    BY <1>1 DEF Mem!Written, Header, Headed
  <1> HIDE DEF w
  <1>5. stats \in Int /\ s \in Int
    <2>1. \A c \in Blocks : block[c].size \in Nat
      BY DEF MemoryInv, Header
    <2> QED BY <2>1, MemoryAssumption, TallyFinite DEF MemoryInv
  <1>6. stats' = stats + w.size - block[b].size
    BY <1>2, <1>3, <1>4, <1>5, NoneIs
  <1> QED BY <1>2, <1>3, <1>4, <1>6, BlockChanges

\* What mimalloc gets back is the start of the block.
LEMMA FoundIs ==
  ASSUME MemoryInv, NEW b \in Blocks, block[b].live
  PROVE  Mem!Found(b) = 0
  <1>1. block[b] \in Header /\ Headed(block[b])
    BY DEF MemoryInv
  <1>2. block[b].user \in Nat
    BY <1>1 DEF Header
  <1> QED BY <1>1, <1>2 DEF Mem!Found, Headed

LEMMA ReallocInv ==
  ASSUME MemoryInv, NEW b \in Blocks, NEW s \in Sizes, Mem!Realloc(b, s)
  PROVE  MemoryInv'
  <1> DEFINE a == block[b].alignment
             h == Mem!Filled(block[b], s, a)
  <1>1. block[b].live /\ block' = [block EXCEPT ![b] = h]
        /\ stats' = stats + s - block[b].size /\ freed' = Mem!Found(b)
    BY DEF Mem!Realloc, MemoryInv
  <1>2. block[b] \in Header /\ Headed(block[b])
    BY <1>1 DEF MemoryInv
  <1>3. a \in Alignments /\ block[b].size \in Sizes /\ block[b].data = Mem!Offset(block[b].size, a)
    BY <1>2 DEF Headed
  <1>4. a \in Nat \ {0} /\ block[b].size \in Nat
    BY <1>3, MemoryAssumption
  <1>5. block[b].data = Mem!Align(24, a)
    BY <1>3, <1>4, OffsetIs
  <1>6. /\ h \in Header /\ h.size = s /\ h.alignment = a
        /\ h.user = Mem!Align(24, a) /\ h.user = Mem!Offset(s, a)
        /\ h.rawSize = Mem!GetRawSize(Mem!Align(s, a), a)
        /\ h.live = block[b].live /\ h.data = block[b].data
    BY <1>2, <1>3, FilledIs
  <1> HIDE DEF h
  <1>7. h.live /\ Headed(h)
    BY <1>1, <1>3, <1>5, <1>6 DEF Headed
  <1> QED BY <1>1, <1>6, <1>7, FoundIs, BlockChanges

LEMMA FreeInv ==
  ASSUME MemoryInv, NEW b \in Blocks, Mem!Free(b)
  PROVE  MemoryInv'
  <1>1. block[b].live /\ block' = [block EXCEPT ![b] = Mem!None]
        /\ stats' = stats - block[b].size /\ freed' = Mem!Found(b)
    BY DEF Mem!Free
  <1>2. freed' = 0
    BY <1>1, FoundIs
  <1>3. \A c \in Blocks : block[c].size \in Nat
    BY DEF MemoryInv, Header
  <1>4. stats \in Int
    BY <1>3, MemoryAssumption, TallyFinite DEF MemoryInv
  <1>5. PICK n \in Nat : n = block[b].size
    BY <1>3
  <1>6. stats' = stats + Mem!None.size - block[b].size
    BY <1>1, <1>4, <1>5, NoneIs
  <1> QED BY <1>1, <1>2, <1>6, NoneIs, BlockChanges

LEMMA MemoryStart ==
  ASSUME Mem!Init PROVE MemoryInv
  <1> DEFINE f == [b \in Blocks |-> block[b].size]
  <1>1. \A b \in Blocks : block[b] = Mem!None
    BY DEF Mem!Init
  <1>2. block \in [Blocks -> Header]
    BY NoneIs DEF Mem!Init
  <1>3. Cardinality(Tally(Blocks, f)) = 0
    <2>1. \A b \in Blocks : f[b] = 0
      BY <1>1, NoneIs
    <2> HIDE DEF f
    <2>2. \A p : p \notin Tally(Blocks, f)
      BY <2>1, TallyIs
    <2>3. Tally(Blocks, f) = {}
      BY <2>2
    <2> QED BY <2>3, FS_EmptySet
  <1> QED BY <1>1, <1>2, <1>3, NoneIs DEF MemoryInv, Mem!Init

LEMMA MemorySound ==
  ASSUME MemoryInv PROVE Mem!TypeOK /\ Mem!BlocksSound
  <1> DEFINE f == [b \in Blocks |-> block[b].size]
  <1>1. \A b \in Mem!Live : b \in Blocks /\ block[b].live /\ Headed(block[b])
    BY DEF MemoryInv, Mem!Live
  <1>2. ASSUME NEW b \in Mem!Live
        PROVE  /\ block[b].user >= 24
               /\ block[b].user + block[b].size <= block[b].rawSize
               /\ block[b].user % block[b].alignment = 0
               /\ block[b].user % 8 = 0
               /\ block[b].data = block[b].user
    <2>1. PICK s \in Nat : s = block[b].size
      BY <1>1, MemoryAssumption DEF Headed
    <2>2. PICK a \in Nat \ {0} : a = block[b].alignment /\ a % 8 = 0
      BY <1>1, MemoryAssumption DEF Headed
    <2>3. LET user == Mem!Offset(s, a)
              raw == Mem!GetRawSize(Mem!Align(s, a), a)
          IN  /\ user \in Nat /\ raw \in Nat
              /\ user >= 24 /\ user + s <= raw
              /\ user % a = 0 /\ user % 8 = 0
      BY <2>2, HeaderFits
    <2>4. block[b].user = Mem!Offset(s, a) /\ block[b].rawSize = Mem!GetRawSize(Mem!Align(s, a), a)
          /\ block[b].data = block[b].user
      BY <1>1, <2>1, <2>2 DEF Headed
    <2> QED BY <2>1, <2>2, <2>3, <2>4
  <1>3. Mem!UserBytes = Tally(Blocks, f)
    <2>1. \A b \in Blocks : ~block[b].live => f[b] = 0
      BY NoneIs DEF MemoryInv
    <2>2. \A p : p \in Mem!UserBytes <=> \E b \in Mem!Live : p \in {b} \X (1 .. f[b])
      BY DEF Mem!UserBytes, Mem!Live
    <2> HIDE DEF f
    <2>3. \A p : p \in Tally(Blocks, f) <=> \E b \in Blocks : p \in {b} \X (1 .. f[b])
      BY TallyIs
    <2>4. \A p : p \in Mem!UserBytes <=> p \in Tally(Blocks, f)
      BY <2>1, <2>2, <2>3 DEF Mem!Live
    <2> QED BY <2>4
  <1>4. stats = Mem!Cardinality(Mem!UserBytes) /\ stats \in Int
    <2>1. \A b \in Blocks : f[b] \in Nat
      BY DEF MemoryInv, Header
    <2>2. stats = Cardinality(Tally(Blocks, f))
      BY DEF MemoryInv
    <2>3. \A S : Mem!Cardinality(S) = Cardinality(S)
      BY DEF Mem!Cardinality, Cardinality
    <2> HIDE DEF f
    <2>4. Cardinality(Tally(Blocks, f)) \in Nat
      BY <2>1, MemoryAssumption, TallyFinite
    <2> QED BY <1>3, <2>2, <2>3, <2>4
  <1>5. Mem!TypeOK
    BY <1>4 DEF Mem!TypeOK, MemoryInv, Header
  <1>6. freed = 0
    BY DEF MemoryInv
  <1>7. Mem!BlocksSound
    BY <1>2, <1>4, <1>6 DEF Mem!BlocksSound, Mem!kAllocHeaderSize
  <1> QED BY <1>5, <1>7

LEMMA MemoryStep ==
  ASSUME MemoryInv, [Mem!Next]_(Mem!vars)
  PROVE  MemoryInv'
  <1>1. ASSUME NEW b \in Blocks, NEW s \in Sizes, Mem!Realloc(b, s) PROVE MemoryInv'
    BY <1>1, ReallocInv
  <1>2. ASSUME NEW b \in Blocks, NEW s \in Sizes, NEW a \in Alignments, Mem!Alloc(b, s, a)
        PROVE  MemoryInv'
    BY <1>2, AllocInv
  <1>3. ASSUME NEW b \in Blocks, Mem!Free(b) PROVE MemoryInv'
    BY <1>3, FreeInv
  <1>4. CASE UNCHANGED Mem!vars
    BY <1>4 DEF MemoryInv, Mem!vars
  <1> QED BY <1>1, <1>2, <1>3, <1>4 DEF Mem!Next

-----------------------------------------------------------------------------
(* Vectors. *)

Storages == {"heap", "stack", "inline"}

Cells == Values \cup {Raw}

\* The first n of these slots hold an element and no other does.
Shaped(s, n) == n <= Len(s) /\ \A i \in 1 .. Len(s) : s[i] # Raw <=> i <= n

\* A buffer inside the object has room for no more than N.
Within(kind, heap, s) ==
  /\ kind = "stack" => ~heap
  /\ kind = "stack" \/ (kind = "inline" /\ ~heap) => Len(s) <= Inline

OnHeap == {v \in Vectors : onHeap[v]}

VectorInv ==
  /\ trivial \in BOOLEAN /\ storage \in [Vectors -> Storages]
  /\ onHeap \in [Vectors -> BOOLEAN] /\ slots \in [Vectors -> Seq(Cells)]
  /\ size \in [Vectors -> 0 .. MaxSize]
  /\ \A v \in Vectors : Shaped(slots[v], size[v]) /\ Within(storage[v], onHeap[v], slots[v])
  /\ alive = IF trivial THEN 0 ELSE Cardinality(Tally(Vectors, size))
  /\ blocks = Cardinality(OnHeap)

-----------------------------------------------------------------------------
(* The memory of a vector, as its operations transform it. *)

Memories == [slots : Seq(Cells), size : Nat, onHeap : BOOLEAN,
             born : Nat, dead : Nat, allocated : Int]

\* What an operation on v may have made of its memory so far.
Sound(v, m) ==
  /\ m \in Memories /\ Shaped(m.slots, m.size) /\ Within(storage[v], m.onHeap, m.slots)
  /\ IF trivial THEN m.born = 0 /\ m.dead = 0 ELSE m.size = size[v] + m.born - m.dead
  /\ m.allocated = (IF m.onHeap THEN 1 ELSE 0) - (IF onHeap[v] THEN 1 ELSE 0)

\* Its elements are those of the list.
Holds(m, elems) == Len(elems) = m.size /\ \A i \in 1 .. m.size : m.slots[i] = elems[i]

LEMMA ElementsAre ==
  ASSUME NEW s \in Seq(Cells), NEW n \in Nat, Shaped(s, n)
  PROVE  /\ SubSeq(s, 1, n) \in Seq(Values) /\ Len(SubSeq(s, 1, n)) = n
         /\ \A i \in 1 .. n : SubSeq(s, 1, n)[i] = s[i]
  <1> DEFINE q == SubSeq(s, 1, n)
  <1>1. Len(s) \in Nat /\ n <= Len(s)
    BY LenProperties DEF Shaped
  <1>2. \A i \in 1 .. n : s[i] \in Values
    <2>1. \A i \in 1 .. n : i \in 1 .. Len(s) /\ i <= n
      BY <1>1
    <2>2. \A i \in 1 .. Len(s) : s[i] \in Cells
      BY ElementOfSeq
    <2> QED BY <2>1, <2>2 DEF Shaped, Cells
  <1>3. q = [i \in 1 .. n |-> s[i]]
    BY <1>1 DEF SubSeq
  <1>4. q \in Seq(Values) /\ Len(q) = n
    <2>1. [i \in 1 .. n |-> s[i]] \in [1 .. n -> Values]
      BY <1>2
    <2> QED BY <1>3, <2>1, SeqDef, LenProperties
  <1> QED BY <1>3, <1>4

LEMMA MemoryIs ==
  ASSUME VectorInv, NEW v \in Vectors
  PROVE  /\ Sound(v, Vec!Memory(v)) /\ Vec!Memory(v).size = size[v] /\ size[v] \in 0 .. MaxSize
         /\ Vec!Memory(v).slots = slots[v] /\ Vec!Memory(v).onHeap = onHeap[v]
         /\ Len(slots[v]) \in Nat /\ Vec!capacity(v) = Len(slots[v])
         /\ Holds(Vec!Memory(v), Vec!Elements(v))
         /\ Vec!Elements(v) \in Seq(Values) /\ Len(Vec!Elements(v)) = size[v]
  <1>1. /\ slots[v] \in Seq(Cells) /\ size[v] \in 0 .. MaxSize /\ onHeap[v] \in BOOLEAN
        /\ Shaped(slots[v], size[v]) /\ Within(storage[v], onHeap[v], slots[v])
    BY DEF VectorInv
  <1>2. size[v] \in Nat
    BY <1>1, VectorAssumption
  <1>3. /\ Vec!Elements(v) \in Seq(Values) /\ Len(Vec!Elements(v)) = size[v]
        /\ \A i \in 1 .. size[v] : Vec!Elements(v)[i] = slots[v][i]
    BY <1>1, <1>2, ElementsAre DEF Vec!Elements
  <1>4. Vec!Memory(v) \in Memories
    BY <1>1, <1>2 DEF Vec!Memory, Memories
  <1>5. Sound(v, Vec!Memory(v))
    BY <1>1, <1>2, <1>4 DEF Vec!Memory, Sound
  <1>6. Len(slots[v]) \in Nat
    BY <1>1, LenProperties
  <1> QED BY <1>1, <1>3, <1>5, <1>6 DEF Vec!Memory, Holds, Vec!capacity

LEMMA GrownIs ==
  ASSUME NEW c \in Nat, NEW n \in Nat
  PROVE  /\ Vec!Grown(c, n) \in Nat /\ Vec!Grown(c, n) >= n /\ Vec!Grown(c, n) >= c
         /\ n <= c => Vec!Grown(c, n) = c
  BY DEF Vec!Grown

LEMMA ToCapacitySound ==
  ASSUME VectorInv, NEW v \in Vectors, NEW m, Sound(v, m), NEW n \in Nat, m.size <= n,
         storage[v] = "stack" => n <= Inline,
         NEW elems, Holds(m, elems)
  PROVE  LET r == Vec!ToCapacity(v, m, n) IN
         /\ Sound(v, r) /\ Holds(r, elems) /\ r.size = m.size /\ Len(r.slots) = n
         /\ r.born = m.born /\ r.dead = m.dead
  <1> DEFINE stays == storage[v] = "stack" \/ (storage[v] = "inline" /\ ~m.onHeap /\ n <= Inline)
             s == Vec!Moved(m.slots, n)
             r == Vec!ToCapacity(v, m, n)
  <1>1. m \in Memories /\ m.slots \in Seq(Cells) /\ m.size \in Nat /\ Len(m.slots) \in Nat
    BY LenProperties DEF Sound, Memories
  <1>2. s = [i \in 1 .. n |-> IF i <= Len(m.slots) THEN m.slots[i] ELSE Raw]
    BY DEF Vec!Moved
  <1>3. \A i \in 1 .. n : s[i] \in Cells
    <2>1. \A i \in 1 .. Len(m.slots) : m.slots[i] \in Cells
      BY <1>1, ElementOfSeq
    <2> QED BY <1>1, <1>2, <2>1 DEF Cells
  <1>4. s \in Seq(Cells) /\ Len(s) = n
    <2>1. s \in [1 .. n -> Cells]
      BY <1>2, <1>3
    <2> HIDE DEF s
    <2> QED BY <2>1, SeqDef, LenProperties
  <1>5. Shaped(s, m.size) /\ \A i \in 1 .. m.size : s[i] = m.slots[i]
    <2>1. \A i \in 1 .. n : s[i] = IF i <= Len(m.slots) THEN m.slots[i] ELSE Raw
      BY <1>2
    <2>2. m.size <= Len(m.slots) /\ \A i \in 1 .. Len(m.slots) : m.slots[i] # Raw <=> i <= m.size
      BY DEF Sound, Shaped
    <2> HIDE DEF s
    <2>3. ASSUME NEW i \in 1 .. n PROVE s[i] # Raw <=> i <= m.size
      <3>1. CASE i <= Len(m.slots)
        <4>1. i \in 1 .. Len(m.slots)
          BY <1>1, <3>1
        <4> QED BY <2>1, <2>2, <3>1, <4>1
      <3>2. CASE ~(i <= Len(m.slots))
        BY <1>1, <2>1, <2>2, <3>2
      <3> QED BY <3>1, <3>2
    <2>4. \A i \in 1 .. m.size : i \in 1 .. n /\ i <= Len(m.slots)
      BY <1>1, <2>2
    <2> QED BY <1>4, <2>1, <2>3, <2>4 DEF Shaped
  <1> HIDE DEF s
  <1>6. /\ r.slots = s /\ r.size = m.size /\ r.onHeap = ~stays /\ r.born = m.born /\ r.dead = m.dead
        /\ r.allocated = m.allocated + (IF stays \/ m.onHeap THEN 0 ELSE 1)
        /\ r \in Memories
    <2>1. PICK heap \in BOOLEAN : heap = ~stays
      OBVIOUS
    <2>2. PICK fresh \in {0, 1} : fresh = IF stays \/ m.onHeap THEN 0 ELSE 1
      OBVIOUS
    <2>3. r = [m EXCEPT !.slots = s, !.onHeap = heap, !.allocated = m.allocated + fresh]
      BY <1>1, <2>1, <2>2 DEF Vec!ToCapacity, s, Memories
    <2> HIDE DEF r
    <2>4. /\ r.slots = s /\ r.size = m.size /\ r.onHeap = heap /\ r.born = m.born
          /\ r.dead = m.dead /\ r.allocated = m.allocated + fresh
      BY <1>1, <2>3 DEF Memories
    <2>5. r \in Memories
      <3>1. PICK c \in Int : c = m.allocated + fresh
        BY <1>1 DEF Memories
      <3>2. r = [m EXCEPT !.slots = s, !.onHeap = heap, !.allocated = c]
        BY <2>3, <3>1
      <3> QED BY <1>1, <1>4, <3>2 DEF Memories
    <2> QED BY <2>1, <2>2, <2>4, <2>5
  <1> HIDE DEF r
  <1>7. storage[v] \in Storages /\ (storage[v] = "stack" => ~m.onHeap) /\ m.onHeap \in BOOLEAN
    BY <1>1 DEF VectorInv, Sound, Within, Memories
  <1>8. Within(storage[v], r.onHeap, r.slots)
    BY <1>4, <1>6, <1>7 DEF Within, Storages
  <1>9. r.allocated = (IF r.onHeap THEN 1 ELSE 0) - (IF onHeap[v] THEN 1 ELSE 0)
    BY <1>1, <1>6, <1>7 DEF Sound, Memories
  <1>10. Sound(v, r)
    BY <1>5, <1>6, <1>8, <1>9 DEF Sound
  <1>11. Holds(r, elems)
    BY <1>5, <1>6 DEF Holds
  <1> QED BY <1>4, <1>6, <1>10, <1>11 DEF r

LEMMA EnsureCapacitySound ==
  ASSUME VectorInv, NEW v \in Vectors, NEW m, Sound(v, m), NEW n \in Nat,
         storage[v] = "stack" => Vec!Grown(Len(m.slots), n) <= Inline,
         NEW elems, Holds(m, elems)
  PROVE  LET r == Vec!EnsureCapacity(v, m, n) IN
         /\ Sound(v, r) /\ Holds(r, elems) /\ r.size = m.size /\ n <= Len(r.slots)
         /\ r.born = m.born /\ r.dead = m.dead
  <1>1. m.slots \in Seq(Cells) /\ m.size \in Nat /\ Len(m.slots) \in Nat /\ m.size <= Len(m.slots)
    BY LenProperties DEF Sound, Memories, Shaped
  <1> DEFINE g == Vec!Grown(Len(m.slots), n)
             r == Vec!EnsureCapacity(v, m, n)
  <1>2. g \in Nat /\ g >= n /\ g >= Len(m.slots)
    BY <1>1, GrownIs
  <1>3. CASE n <= Len(m.slots)
    <2>1. r = m
      BY <1>3 DEF Vec!EnsureCapacity
    <2> QED BY <1>3, <2>1
  <1>4. CASE ~(n <= Len(m.slots))
    <2>1. r = Vec!ToCapacity(v, m, g)
      BY <1>4 DEF Vec!EnsureCapacity
    <2> HIDE DEF r
    <2>2. m.size <= g
      BY <1>1, <1>2
    <2>3. storage[v] = "stack" => g <= Inline
      OBVIOUS
    <2> HIDE DEF g
    <2>4. LET y == Vec!ToCapacity(v, m, g) IN
          /\ Sound(v, y) /\ Holds(y, elems) /\ y.size = m.size /\ Len(y.slots) = g
          /\ y.born = m.born /\ y.dead = m.dead
      BY <1>2, <2>2, <2>3, ToCapacitySound
    <2> QED BY <1>2, <2>1, <2>4 DEF r
  <1> QED BY <1>3, <1>4

LEMMA ConstructSound ==
  ASSUME VectorInv, NEW v \in Vectors, NEW m, Sound(v, m), NEW elems \in Seq(Values),
         NEW i, i = m.size, m.size + Len(elems) <= Len(m.slots)
  PROVE  LET r == Vec!Construct(m, i, elems) IN
         /\ Sound(v, r) /\ r.size = m.size + Len(elems)
         /\ \A k \in 1 .. r.size : r.slots[k] = IF k <= m.size THEN m.slots[k] ELSE elems[k - m.size]
  <1> DEFINE l == Len(elems)
             s == [j \in 1 .. Len(m.slots) |->
                     IF j \in i + 1 .. i + l THEN elems[j - i] ELSE m.slots[j]]
             more == IF trivial THEN 0 ELSE l
             r == Vec!Construct(m, i, elems)
  <1>1. m \in Memories /\ m.slots \in Seq(Cells) /\ i \in Nat /\ Len(m.slots) \in Nat /\ l \in Nat
        /\ i + l <= Len(m.slots) /\ DOMAIN m.slots = 1 .. Len(m.slots)
    BY LenProperties DEF Sound, Memories
  <1>2. \A k \in 1 .. l : elems[k] \in Values
    BY ElementOfSeq
  <1>3. \A k \in 1 .. Len(m.slots) : m.slots[k] \in Cells
    BY <1>1, ElementOfSeq
  <1>4. \A j \in 1 .. Len(m.slots) : j \in i + 1 .. i + l => j - i \in 1 .. l
    BY <1>1
  <1>5. \A j \in 1 .. Len(m.slots) : s[j] \in Cells
    BY <1>2, <1>3, <1>4 DEF Cells
  <1>6. s \in Seq(Cells) /\ Len(s) = Len(m.slots)
    <2>1. s \in [1 .. Len(m.slots) -> Cells]
      BY <1>5
    <2> HIDE DEF s
    <2> QED BY <1>1, <2>1, SeqDef, LenProperties
  <1>7. more \in Nat
    BY <1>1
  <1>8. r = [m EXCEPT !.slots = s, !.size = i + l, !.born = m.born + more]
    BY <1>1 DEF Vec!Construct, Memories
  <1>9. \A j \in 1 .. Len(m.slots) : s[j] = IF j \in i + 1 .. i + l THEN elems[j - i] ELSE m.slots[j]
    OBVIOUS
  <1> HIDE DEF r, s, more
  <1>10. /\ r.slots = s /\ r.size = i + l /\ r.onHeap = m.onHeap /\ r.born = m.born + more
         /\ r.dead = m.dead /\ r.allocated = m.allocated
    BY <1>1, <1>8 DEF Memories
  <1>11. r \in Memories
    <2>1. PICK a \in Nat : a = i + l
      BY <1>1
    <2>2. PICK b \in Nat : b = m.born + more
      BY <1>1, <1>7 DEF Memories
    <2>3. r = [m EXCEPT !.slots = s, !.size = a, !.born = b]
      BY <1>8, <2>1, <2>2
    <2> QED BY <1>1, <1>6, <2>3 DEF Memories
  <1>12. Shaped(s, i + l)
    <2>1. \A j \in 1 .. Len(m.slots) : m.slots[j] # Raw <=> j <= i
      BY DEF Sound, Shaped
    <2>2. \A j \in 1 .. Len(m.slots) : s[j] # Raw <=> j <= i + l
      <3> SUFFICES ASSUME NEW j \in 1 .. Len(m.slots) PROVE s[j] # Raw <=> j <= i + l
        OBVIOUS
      <3>1. CASE j \in i + 1 .. i + l
        <4>1. s[j] \in Values
          BY <1>2, <1>4, <1>9, <3>1
        <4>2. j <= i + l
          BY <1>1, <3>1
        <4> QED BY <4>1, <4>2, VectorAssumption
      <3>2. CASE j \notin i + 1 .. i + l
        <4>1. j <= i <=> j <= i + l
          BY <1>1, <3>2
        <4> QED BY <1>9, <2>1, <3>2, <4>1
      <3> QED BY <3>1, <3>2
    <2> QED BY <1>1, <1>6, <2>2 DEF Shaped
  <1>13. Within(storage[v], r.onHeap, r.slots)
    BY <1>6, <1>10 DEF Sound, Within
  <1>14. IF trivial THEN r.born = 0 /\ r.dead = 0 ELSE r.size = size[v] + r.born - r.dead
    <2>1. m.born \in Nat /\ m.dead \in Nat /\ size[v] \in Int
      BY <1>1, MemoryIs DEF Memories
    <2> QED BY <1>1, <1>10, <2>1 DEF Sound, more
  <1>15. Sound(v, r)
    BY <1>10, <1>11, <1>12, <1>13, <1>14 DEF Sound
  <1>16. \A k \in 1 .. r.size : r.slots[k] = IF k <= i THEN m.slots[k] ELSE elems[k - i]
    <2>1. \A k \in 1 .. i + l : k \in 1 .. Len(m.slots) /\ (k \in i + 1 .. i + l <=> ~(k <= i))
      BY <1>1
    <2> QED BY <1>9, <1>10, <2>1
  <1> QED BY <1>10, <1>15, <1>16 DEF r

LEMMA DestructSound ==
  ASSUME VectorInv, NEW v \in Vectors, NEW m, Sound(v, m), NEW n \in Nat, n <= m.size,
         NEW c, c = m.size - n, NEW e, e = n
  PROVE  LET r == [Vec!Destruct(m, n, c) EXCEPT !.size = e] IN
         /\ Sound(v, r) /\ r.size = n
         /\ \A k \in 1 .. n : r.slots[k] = m.slots[k]
  <1> DEFINE s == [j \in 1 .. Len(m.slots) |-> IF j \in n + 1 .. n + c THEN Raw ELSE m.slots[j]]
             more == IF trivial THEN 0 ELSE c
             r == [Vec!Destruct(m, n, c) EXCEPT !.size = e]
  <1>1. m \in Memories /\ m.slots \in Seq(Cells) /\ m.size \in Nat /\ Len(m.slots) \in Nat
        /\ m.size <= Len(m.slots) /\ c \in Nat /\ n + c = m.size
        /\ DOMAIN m.slots = 1 .. Len(m.slots)
    BY LenProperties DEF Sound, Memories, Shaped
  <1>2. \A k \in 1 .. Len(m.slots) : m.slots[k] \in Cells
    BY <1>1, ElementOfSeq
  <1>3. s \in Seq(Cells) /\ Len(s) = Len(m.slots)
    <2>1. s \in [1 .. Len(m.slots) -> Cells]
      BY <1>2 DEF Cells
    <2> HIDE DEF s
    <2>2. s \in Seq(Cells) /\ DOMAIN s = 1 .. Len(m.slots)
      BY ONLY <1>1, <2>1, SeqDef
    <2> QED BY ONLY <1>1, <2>2, LenProperties
  <1>4. more \in Nat
    BY <1>1
  <1>5. r = [m EXCEPT !.slots = s, !.size = n, !.dead = m.dead + more]
    BY <1>1 DEF Vec!Destruct, Memories
  <1>6. \A j \in 1 .. Len(m.slots) : s[j] = IF j \in n + 1 .. n + c THEN Raw ELSE m.slots[j]
    OBVIOUS
  <1> HIDE DEF r, s, more
  <1>7. /\ r.slots = s /\ r.size = n /\ r.onHeap = m.onHeap /\ r.born = m.born
        /\ r.dead = m.dead + more /\ r.allocated = m.allocated
    BY <1>1, <1>5 DEF Memories
  <1>8. r \in Memories
    <2>1. PICK b \in Nat : b = m.dead + more
      BY <1>1, <1>4 DEF Memories
    <2>2. r = [m EXCEPT !.slots = s, !.size = n, !.dead = b]
      BY <1>5, <2>1
    <2> QED BY <1>1, <1>3, <2>2 DEF Memories
  <1>9. Shaped(s, n)
    <2>1. \A j \in 1 .. Len(m.slots) : m.slots[j] # Raw <=> j <= m.size
      BY DEF Sound, Shaped
    <2>2. \A j \in 1 .. Len(m.slots) : s[j] # Raw <=> j <= n
      <3> SUFFICES ASSUME NEW j \in 1 .. Len(m.slots) PROVE s[j] # Raw <=> j <= n
        OBVIOUS
      <3>1. CASE j \in n + 1 .. n + c
        BY <1>1, <1>6, <3>1
      <3>2. CASE j \notin n + 1 .. n + c
        <4>1. j <= n <=> j <= m.size
          BY <1>1, <3>2
        <4> QED BY <1>6, <2>1, <3>2, <4>1
      <3> QED BY <3>1, <3>2
    <2> QED BY <1>1, <1>3, <2>2 DEF Shaped
  <1>10. Within(storage[v], r.onHeap, r.slots)
    BY <1>3, <1>7 DEF Sound, Within
  <1>11. IF trivial THEN r.born = 0 /\ r.dead = 0 ELSE r.size = size[v] + r.born - r.dead
    <2>1. m.born \in Nat /\ m.dead \in Nat /\ size[v] \in Int
      BY <1>1, MemoryIs DEF Memories
    <2>2. IF trivial THEN m.born = 0 /\ m.dead = 0 ELSE m.size = size[v] + m.born - m.dead
      BY DEF Sound
    <2>3. CASE trivial
      BY <1>7, <2>1, <2>2, <2>3 DEF more
    <2>4. CASE ~trivial
      <3>1. more = c
        BY <2>4 DEF more
      <3> QED BY <1>1, <1>7, <2>1, <2>2, <2>4, <3>1
    <2> QED BY <2>3, <2>4
  <1>12. Sound(v, r)
    BY <1>7, <1>8, <1>9, <1>10, <1>11 DEF Sound
  <1>13. \A k \in 1 .. n : r.slots[k] = m.slots[k]
    <2>1. \A k \in 1 .. n : k \in 1 .. Len(m.slots) /\ k \notin n + 1 .. n + c
      BY <1>1
    <2> QED BY <1>6, <1>7, <2>1
  <1> QED BY <1>7, <1>12, <1>13 DEF r

LEMMA ClearedSound ==
  ASSUME VectorInv, NEW v \in Vectors
  PROVE  /\ Sound(v, Vec!Cleared(v)) /\ Vec!Cleared(v).size = 0 /\ Holds(Vec!Cleared(v), <<>>)
         /\ Len(Vec!Cleared(v).slots) = Vec!capacity(v)
         /\ Vec!Cleared(v).dead = IF trivial THEN 0 ELSE size[v]
  <1> DEFINE m == Vec!Memory(v)
  <1>1. /\ Sound(v, m) /\ m.size = size[v] /\ size[v] \in Nat /\ m.slots = slots[v]
        /\ Len(slots[v]) \in Nat
    BY MemoryIs, VectorAssumption
  <1>2. 0 \in Nat /\ 0 <= m.size /\ size[v] = m.size - 0
    BY <1>1
  <1>3. LET r == [Vec!Destruct(m, 0, size[v]) EXCEPT !.size = 0] IN
        /\ Sound(v, r) /\ r.size = 0
        /\ \A k \in 1 .. 0 : r.slots[k] = m.slots[k]
    <2> HIDE DEF m
    <2> QED BY <1>1, <1>2, DestructSound
  <1>4. Vec!Cleared(v) = [Vec!Destruct(m, 0, size[v]) EXCEPT !.size = 0]
    BY DEF Vec!Cleared
  <1>5. Sound(v, Vec!Cleared(v)) /\ Vec!Cleared(v).size = 0
    BY <1>3, <1>4
  <1>6. Len(Vec!Cleared(v).slots) = Len(slots[v])
    <2>1. slots[v] \in Seq(Cells) /\ DOMAIN slots[v] = 1 .. Len(slots[v])
      BY LenProperties DEF VectorInv
    <2>2. Vec!Cleared(v).slots = [j \in 1 .. Len(slots[v]) |->
                                    IF j \in 0 + 1 .. 0 + size[v] THEN Raw ELSE slots[v][j]]
      BY <2>1 DEF Vec!Cleared, Vec!Destruct, Vec!Memory
    <2>3. Vec!Cleared(v).slots \in Seq(Cells) /\ DOMAIN Vec!Cleared(v).slots = 1 .. Len(slots[v])
      BY <1>5, <2>2 DEF Sound, Memories
    <2> QED BY <1>1, <2>3, LenProperties
  <1>7. Vec!Cleared(v).dead = IF trivial THEN 0 ELSE size[v]
    BY <1>1 DEF Vec!Cleared, Vec!Destruct, Vec!Memory
  <1>8. Holds(Vec!Cleared(v), <<>>)
    BY <1>5 DEF Holds
  <1> QED BY <1>5, <1>6, <1>7, <1>8 DEF Vec!capacity

LEMMA FreeSound ==
  ASSUME VectorInv, NEW v \in Vectors, NEW m, Sound(v, m), m.size = 0
  PROVE  Sound(v, Vec!Free(m)) /\ Vec!Free(m).size = 0 /\ Holds(Vec!Free(m), <<>>)
  <1> DEFINE r == Vec!Free(m)
  <1>1. m \in Memories
    BY DEF Sound
  <1>2. PICK a \in Int : a = m.allocated - (IF m.onHeap THEN 1 ELSE 0)
    BY <1>1 DEF Memories
  <1>3. r = [slots |-> <<>>, size |-> 0, onHeap |-> FALSE, born |-> m.born, dead |-> m.dead,
             allocated |-> a]
    <2> DEFINE b == m.allocated - (IF m.onHeap THEN 1 ELSE 0)
    <2>1. r = [slots |-> <<>>, size |-> 0, onHeap |-> FALSE, born |-> m.born, dead |-> m.dead,
               allocated |-> b]
      <3>1. r = [Vec!NoMemory EXCEPT !.born = m.born, !.dead = m.dead, !.allocated = b]
        BY DEF Vec!Free
      <3> HIDE DEF b, r
      <3> QED BY <3>1 DEF Vec!NoMemory
    <2>2. a = b
      BY <1>2
    <2> HIDE DEF b, r
    <2> QED BY <2>1, <2>2
  <1>4. <<>> \in Seq(Cells) /\ Len(<<>>) = 0 /\ 1 .. 0 = {}
    BY EmptySeq
  <1> HIDE DEF r
  <1>5. /\ r.slots = <<>> /\ r.size = 0 /\ r.onHeap = FALSE /\ r.born = m.born /\ r.dead = m.dead
        /\ r.allocated = a
    BY <1>3
  <1>6. r \in Memories
    BY <1>1, <1>3, <1>4 DEF Memories
  <1>7. Shaped(r.slots, r.size)
    BY <1>4, <1>5 DEF Shaped
  <1>8. Within(storage[v], r.onHeap, r.slots)
    BY <1>4, <1>5, VectorAssumption DEF Within
  <1>9. IF trivial THEN r.born = 0 /\ r.dead = 0 ELSE r.size = size[v] + r.born - r.dead
    BY <1>5 DEF Sound
  <1>10. r.allocated = (IF r.onHeap THEN 1 ELSE 0) - (IF onHeap[v] THEN 1 ELSE 0)
    BY <1>1, <1>2, <1>5 DEF Sound, Memories
  <1>11. Holds(r, <<>>)
    BY <1>4, <1>5 DEF Holds
  <1> QED BY <1>5, <1>6, <1>7, <1>8, <1>9, <1>10, <1>11 DEF Sound, r

-----------------------------------------------------------------------------
(* An operation ends: the vector has the memory that was made for it. *)

Contents == [v \in Vectors |-> Vec!Elements(v)]

Upon(f) == {v \in Vectors : f[v]}

LEMMA UponChanges ==
  ASSUME NEW f \in [Vectors -> BOOLEAN], NEW g \in [Vectors -> BOOLEAN], NEW v \in Vectors,
         \A u \in Vectors \ {v} : g[u] = f[u]
  PROVE  /\ IsFiniteSet(Upon(f)) /\ Cardinality(Upon(f)) \in Nat
         /\ Cardinality(Upon(g))
              = Cardinality(Upon(f)) + (IF g[v] THEN 1 ELSE 0) - (IF f[v] THEN 1 ELSE 0)
  <1>1. IsFiniteSet(Upon(f)) /\ Cardinality(Upon(f)) \in Nat
    BY VectorAssumption, FS_Subset, FS_CardinalityType DEF Upon
  <1>2. CASE f[v] = g[v]
    <2>1. Upon(f) = Upon(g)
      BY <1>2 DEF Upon
    <2> QED BY <1>1, <1>2, <2>1
  <1>3. CASE f[v] /\ ~g[v]
    <2>1. Upon(g) = Upon(f) \ {v} /\ v \in Upon(f)
      BY <1>3 DEF Upon
    <2>2. Cardinality(Upon(g)) = Cardinality(Upon(f)) - 1
      BY <1>1, <2>1, FS_RemoveElement
    <2> QED BY <1>1, <1>3, <2>2
  <1>4. CASE ~f[v] /\ g[v]
    <2>1. Upon(g) = Upon(f) \cup {v} /\ v \notin Upon(f)
      BY <1>4 DEF Upon
    <2>2. Cardinality(Upon(g)) = Cardinality(Upon(f)) + 1
      BY <1>1, <2>1, FS_AddElement
    <2> QED BY <1>1, <1>4, <2>2
  <1>5. f[v] \in BOOLEAN /\ g[v] \in BOOLEAN
    OBVIOUS
  <1> QED BY <1>2, <1>3, <1>4, <1>5

LEMMA SizesTallied ==
  ASSUME VectorInv
  PROVE  /\ \A u \in Vectors : size[u] \in Nat
         /\ Cardinality(Tally(Vectors, size)) \in Nat
  <1>1. \A u \in Vectors : size[u] \in Nat
    BY VectorAssumption DEF VectorInv
  <1> QED BY <1>1, VectorAssumption, TallyFinite

LEMMA CommitInv ==
  ASSUME VectorInv, NEW v \in Vectors, NEW m, Sound(v, m), m.size <= MaxSize, Vec!Commit(v, m)
  PROVE  VectorInv'
  <1>1. /\ slots' = [slots EXCEPT ![v] = m.slots] /\ size' = [size EXCEPT ![v] = m.size]
        /\ onHeap' = [onHeap EXCEPT ![v] = m.onHeap]
        /\ alive' = (alive + m.born) - m.dead /\ blocks' = blocks + m.allocated
        /\ trivial' = trivial /\ storage' = storage
    BY DEF Vec!Commit, Vec!Commit2, VectorInv
  <1>2. m \in Memories /\ Shaped(m.slots, m.size) /\ Within(storage[v], m.onHeap, m.slots)
    BY DEF Sound
  <1>3. m.slots \in Seq(Cells) /\ m.size \in Nat /\ m.onHeap \in BOOLEAN /\ m.size \in 0 .. MaxSize
        /\ m.born \in Nat /\ m.dead \in Nat /\ m.allocated \in Int
    BY <1>2, VectorAssumption DEF Memories
  <1>4. /\ slots \in [Vectors -> Seq(Cells)] /\ size \in [Vectors -> 0 .. MaxSize]
        /\ onHeap \in [Vectors -> BOOLEAN]
    BY DEF VectorInv
  <1>5. /\ slots' \in [Vectors -> Seq(Cells)] /\ size' \in [Vectors -> 0 .. MaxSize]
        /\ onHeap' \in [Vectors -> BOOLEAN]
    BY <1>1, <1>3, <1>4
  <1>6. /\ slots'[v] = m.slots /\ size'[v] = m.size /\ onHeap'[v] = m.onHeap
        /\ \A u \in Vectors \ {v} : slots'[u] = slots[u] /\ size'[u] = size[u] /\ onHeap'[u] = onHeap[u]
    BY <1>1, <1>4
  <1>7. \A u \in Vectors : Shaped(slots'[u], size'[u]) /\ Within(storage'[u], onHeap'[u], slots'[u])
    BY <1>1, <1>2, <1>6 DEF VectorInv
  <1>8. alive' = IF trivial' THEN 0 ELSE Cardinality(Tally(Vectors, size'))
    <2>1. CASE trivial
      BY <1>1, <1>3, <2>1 DEF VectorInv, Sound
    <2>2. CASE ~trivial
      <3>1. m.size = size[v] + m.born - m.dead
        BY <2>2 DEF Sound
      <3>2. \A u \in Vectors : size[u] \in Nat /\ size'[u] \in Nat
        BY <1>4, <1>5, VectorAssumption
      <3>3. Cardinality(Tally(Vectors, size'))
              = Cardinality(Tally(Vectors, size)) + size'[v] - size[v]
        BY <1>6, <3>2, VectorAssumption, TallyChanges
      <3>4. Cardinality(Tally(Vectors, size)) \in Nat
        BY SizesTallied
      <3>5. alive = Cardinality(Tally(Vectors, size))
        BY <2>2 DEF VectorInv
      <3>6. PICK n \in Nat : n = size[v]
        BY <3>2
      <3>7. PICK c \in Nat : c = Cardinality(Tally(Vectors, size))
        BY <3>4
      <3>8. PICK a \in Nat : a = m.size
        BY <1>3
      <3>9. PICK b \in Nat : b = m.born
        BY <1>3
      <3>10. PICK d \in Nat : d = m.dead
        BY <1>3
      <3>11. alive' = (c + b) - d /\ a = n + b - d
        BY <1>1, <3>1, <3>5, <3>6, <3>7, <3>8, <3>9, <3>10
      <3>12. Cardinality(Tally(Vectors, size')) = c + a - n
        BY <1>6, <3>3, <3>6, <3>7, <3>8
      <3>13. alive' = c + a - n
        BY <3>11
      <3> QED BY <1>1, <2>2, <3>12, <3>13
    <2> QED BY <2>1, <2>2
  <1>9. blocks' = Cardinality(Upon(onHeap'))
    <2>1. Cardinality(Upon(onHeap)) \in Nat
      BY <1>4, UponChanges
    <2>2. Cardinality(Upon(onHeap')) = Cardinality(Upon(onHeap)) + (IF onHeap'[v] THEN 1 ELSE 0)
                                         - (IF onHeap[v] THEN 1 ELSE 0)
      BY <1>4, <1>5, <1>6, UponChanges
    <2>3. blocks = Cardinality(Upon(onHeap))
      BY DEF VectorInv, OnHeap, Upon
    <2>4. m.allocated = (IF m.onHeap THEN 1 ELSE 0) - (IF onHeap[v] THEN 1 ELSE 0)
      BY DEF Sound
    <2> QED BY <1>1, <1>3, <1>6, <2>1, <2>2, <2>3, <2>4
  <1> QED BY <1>1, <1>5, <1>7, <1>8, <1>9 DEF VectorInv, OnHeap, Upon

LEMMA CommitContent ==
  ASSUME VectorInv, NEW v \in Vectors, NEW m, Sound(v, m), Vec!Commit(v, m),
         NEW elems \in Seq(Values), Holds(m, elems)
  PROVE  Contents' = [Contents EXCEPT ![v] = elems]
  <1>1. slots' = [slots EXCEPT ![v] = m.slots] /\ size' = [size EXCEPT ![v] = m.size]
    BY DEF Vec!Commit, Vec!Commit2, VectorInv
  <1>2. m.slots \in Seq(Cells) /\ m.size \in Nat /\ Shaped(m.slots, m.size)
    BY DEF Sound, Memories
  <1>3. slots \in [Vectors -> Seq(Cells)] /\ size \in [Vectors -> 0 .. MaxSize]
    BY DEF VectorInv
  <1>4. SubSeq(m.slots, 1, m.size) = elems
    <2>1. /\ SubSeq(m.slots, 1, m.size) \in Seq(Values) /\ Len(SubSeq(m.slots, 1, m.size)) = m.size
          /\ \A i \in 1 .. m.size : SubSeq(m.slots, 1, m.size)[i] = m.slots[i]
      BY <1>2, ElementsAre
    <2> DEFINE q == SubSeq(m.slots, 1, m.size)
    <2>2. q \in Seq(Values) /\ Len(q) = m.size /\ \A i \in 1 .. m.size : q[i] = m.slots[i]
      BY <2>1
    <2> HIDE DEF q
    <2>3. Len(elems) = m.size /\ \A i \in 1 .. m.size : m.slots[i] = elems[i]
      BY DEF Holds
    <2>4. \A i \in 1 .. Len(q) : q[i] = elems[i]
      BY <2>2, <2>3
    <2>5. q = elems
      BY <2>2, <2>3, <2>4, SeqEqual
    <2> QED BY <2>5 DEF q
  <1>5. slots'[v] = m.slots /\ size'[v] = m.size
        /\ \A u \in Vectors \ {v} : slots'[u] = slots[u] /\ size'[u] = size[u]
    BY <1>1, <1>3
  <1>6. Vec!Elements(v)' = elems
    BY <1>4, <1>5 DEF Vec!Elements
  <1>7. \A u \in Vectors \ {v} : Vec!Elements(u)' = Vec!Elements(u)
    BY <1>5 DEF Vec!Elements
  <1>8. \A u \in Vectors : Vec!Elements(u)' = IF u = v THEN elems ELSE Vec!Elements(u)
    BY <1>6, <1>7
  <1> QED BY <1>8 DEF Contents

-----------------------------------------------------------------------------
(* The operations: the invariant holds on, and the elements change as those    *)
(* of a list.                                                                  *)

Goes == VectorInv' /\ (Vec!L!Next \/ Contents' = Contents)

LEMMA ContentsAre ==
  ASSUME VectorInv, NEW v \in Vectors
  PROVE  Contents[v] = Vec!Elements(v) /\ Contents[v] \in Seq(Values) /\ Len(Contents[v]) = size[v]
  BY MemoryIs DEF Contents

LEMMA Assigned ==
  ASSUME NEW v \in Vectors, NEW elems \in Seq(Values), Len(elems) <= MaxSize,
         Contents' = [Contents EXCEPT ![v] = elems]
  PROVE  Vec!L!Next
  <1>1. Len(elems) \in 0 .. MaxSize
    BY LenProperties, VectorAssumption
  <1>2. elems \in [1 .. Len(elems) -> Values]
    BY LenProperties, SeqDef
  <1>3. Vec!L!Assign(v, elems)
    BY DEF Vec!L!Assign, Contents
  <1> QED BY <1>1, <1>2, <1>3 DEF Vec!L!Next

LEMMA CopyFromGoes ==
  ASSUME VectorInv, NEW v \in Vectors, NEW elems \in Seq(Values), Vec!Fits(v, Len(elems)),
         Vec!Commit(v, Vec!CopyFrom(v, Vec!Cleared(v), elems))
  PROVE  Goes
  <1> DEFINE c == Vec!Cleared(v)
             n == Len(elems)
             m == Vec!EnsureCapacity(v, c, n)
             r == Vec!Construct(m, 0, elems)
  <1>1. Sound(v, c) /\ c.size = 0 /\ Holds(c, <<>>) /\ Len(c.slots) = Vec!capacity(v)
    BY ClearedSound
  <1>2. n \in Nat /\ n <= MaxSize /\ (storage[v] = "stack" => Vec!Grown(Len(c.slots), n) <= Inline)
    BY <1>1, LenProperties DEF Vec!Fits
  <1>3. LET y == Vec!EnsureCapacity(v, c, n) IN
        /\ Sound(v, y) /\ Holds(y, <<>>) /\ y.size = c.size /\ n <= Len(y.slots)
        /\ y.born = c.born /\ y.dead = c.dead
    <2> HIDE DEF c, n
    <2> QED BY <1>1, <1>2, EnsureCapacitySound
  <1>4. Sound(v, m) /\ m.size = 0 /\ n <= Len(m.slots)
    BY <1>1, <1>3
  <1>5. Vec!Commit(v, r)
    BY DEF Vec!CopyFrom
  <1> HIDE DEF m
  <1>6. LET y == Vec!Construct(m, 0, elems) IN
        /\ Sound(v, y) /\ y.size = m.size + Len(elems)
        /\ \A k \in 1 .. y.size : y.slots[k] = IF k <= m.size THEN m.slots[k] ELSE elems[k - m.size]
    <2>1. 0 = m.size /\ m.size + Len(elems) <= Len(m.slots)
      BY <1>2, <1>4
    <2> QED BY <1>4, <2>1, ConstructSound
  <1>7. /\ Sound(v, r) /\ r.size = 0 + n
        /\ \A k \in 1 .. r.size : r.slots[k] = IF k <= 0 THEN m.slots[k] ELSE elems[k - 0]
    BY <1>4, <1>6
  <1> HIDE DEF r
  <1>8. r.size = n /\ r.size <= MaxSize /\ Holds(r, elems)
    BY <1>2, <1>7 DEF Holds
  <1>9. VectorInv'
    BY <1>5, <1>7, <1>8, CommitInv
  <1>10. Contents' = [Contents EXCEPT ![v] = elems]
    BY <1>5, <1>7, <1>8, CommitContent
  <1> QED BY <1>2, <1>9, <1>10, Assigned DEF Goes

LEMMA EmptiedGoes ==
  ASSUME VectorInv, NEW v \in Vectors, NEW m, Sound(v, m), m.size = 0, Vec!Commit(v, m)
  PROVE  Goes
  <1>1. <<>> \in Seq(Values) /\ Len(<<>>) = 0
    BY EmptySeq
  <1>2. 0 <= MaxSize
    BY VectorAssumption
  <1>3. Holds(m, <<>>)
    BY <1>1 DEF Holds
  <1>4. VectorInv'
    BY <1>2, CommitInv
  <1>5. Contents' = [Contents EXCEPT ![v] = <<>>]
    BY <1>1, <1>3, CommitContent
  <1> QED BY <1>1, <1>2, <1>4, <1>5, Assigned DEF Goes

LEMMA SameElementsGoes ==
  ASSUME VectorInv, NEW v \in Vectors, NEW m, Sound(v, m), m.size = size[v],
         Holds(m, Vec!Elements(v)), Vec!Commit(v, m)
  PROVE  Goes
  <1>1. size[v] <= MaxSize /\ Vec!Elements(v) \in Seq(Values)
    BY MemoryIs, VectorAssumption
  <1>2. VectorInv'
    BY <1>1, CommitInv
  <1>3. Contents' = [Contents EXCEPT ![v] = Vec!Elements(v)]
    BY <1>1, CommitContent
  <1>4. Contents' = Contents
    BY <1>3 DEF Contents
  <1> QED BY <1>2, <1>4 DEF Goes

\* The memory of v when n elements fit.
LEMMA RoomMade ==
  ASSUME VectorInv, NEW v \in Vectors, NEW n \in Nat, Vec!Fits(v, n)
  PROVE  LET m == Vec!EnsureCapacity(v, Vec!Memory(v), n) IN
         /\ Sound(v, m) /\ Holds(m, Vec!Elements(v)) /\ m.size = size[v] /\ n <= Len(m.slots)
  <1> DEFINE o == Vec!Memory(v)
  <1>1. /\ Sound(v, o) /\ o.size = size[v] /\ o.slots = slots[v] /\ Vec!capacity(v) = Len(slots[v])
        /\ Holds(o, Vec!Elements(v))
    BY MemoryIs
  <1>2. storage[v] = "stack" => Vec!Grown(Len(o.slots), n) <= Inline
    BY <1>1 DEF Vec!Fits
  <1> HIDE DEF o
  <1>3. LET r == Vec!EnsureCapacity(v, o, n) IN
        /\ Sound(v, r) /\ Holds(r, Vec!Elements(v)) /\ r.size = o.size /\ n <= Len(r.slots)
        /\ r.born = o.born /\ r.dead = o.dead
    BY <1>1, <1>2, EnsureCapacitySound
  <1> QED BY <1>1, <1>3 DEF o

LEMMA ReserveGoes ==
  ASSUME VectorInv, NEW v \in Vectors, NEW n \in 0 .. MaxSize, Vec!Reserve(v, n)
  PROVE  Goes
  <1>1. n \in Nat /\ Vec!Fits(v, n) /\ Vec!Commit(v, Vec!EnsureCapacity(v, Vec!Memory(v), n))
    BY VectorAssumption DEF Vec!Reserve
  <1>2. LET m == Vec!EnsureCapacity(v, Vec!Memory(v), n) IN
        /\ Sound(v, m) /\ Holds(m, Vec!Elements(v)) /\ m.size = size[v] /\ n <= Len(m.slots)
    BY <1>1, RoomMade
  <1> QED BY <1>1, <1>2, SameElementsGoes

LEMMA PushGoes ==
  ASSUME VectorInv, NEW v \in Vectors, NEW x \in Values, Vec!Push(v, x)
  PROVE  Goes
  <1> DEFINE n == size[v] + 1
             m == Vec!EnsureCapacity(v, Vec!Memory(v), n)
             one == <<x>>
             r == Vec!Construct(m, size[v], one)
             elems == Append(Vec!Elements(v), x)
  <1>1. /\ size[v] \in Nat /\ Vec!Elements(v) \in Seq(Values) /\ Len(Vec!Elements(v)) = size[v]
    BY MemoryIs, VectorAssumption
  <1>2. n \in Nat /\ Vec!Fits(v, n) /\ Vec!Commit(v, r) /\ n <= MaxSize
    BY <1>1 DEF Vec!Push, Vec!Fits
  <1>3. LET y == Vec!EnsureCapacity(v, Vec!Memory(v), n) IN
        /\ Sound(v, y) /\ Holds(y, Vec!Elements(v)) /\ y.size = size[v] /\ n <= Len(y.slots)
    <2> HIDE DEF n
    <2> QED BY <1>2, RoomMade
  <1>4. Sound(v, m) /\ Holds(m, Vec!Elements(v)) /\ m.size = size[v] /\ size[v] + 1 <= Len(m.slots)
    BY <1>3
  <1>5. one \in Seq(Values) /\ Len(one) = 1 /\ one[1] = x
    OBVIOUS
  <1> HIDE DEF m, one
  <1>6. LET y == Vec!Construct(m, size[v], one) IN
        /\ Sound(v, y) /\ y.size = m.size + Len(one)
        /\ \A k \in 1 .. y.size : y.slots[k] = IF k <= m.size THEN m.slots[k] ELSE one[k - m.size]
    <2>1. size[v] = m.size /\ m.size + Len(one) <= Len(m.slots)
      BY <1>4, <1>5
    <2>2. PICK i \in Nat : i = size[v]
      BY <1>1
    <2>3. PICK l \in Seq(Values) : l = one
      BY <1>5
    <2>4. i = m.size /\ m.size + Len(l) <= Len(m.slots)
      BY <2>1, <2>2, <2>3
    <2>5. LET y == Vec!Construct(m, i, l) IN
          /\ Sound(v, y) /\ y.size = m.size + Len(l)
          /\ \A k \in 1 .. y.size : y.slots[k] = IF k <= m.size THEN m.slots[k] ELSE l[k - m.size]
      BY <1>4, <2>4, ConstructSound
    <2> QED BY ONLY <2>2, <2>3, <2>5
  <1>7. /\ Sound(v, r) /\ r.size = size[v] + 1
        /\ \A k \in 1 .. r.size : r.slots[k] = IF k <= size[v] THEN m.slots[k] ELSE one[k - size[v]]
    BY <1>4, <1>5, <1>6
  <1> HIDE DEF r
  <1>8. /\ elems \in Seq(Values) /\ Len(elems) = size[v] + 1 /\ elems[size[v] + 1] = x
        /\ \A k \in 1 .. size[v] : elems[k] = Vec!Elements(v)[k]
    BY <1>1, AppendProperties
  <1> HIDE DEF elems
  <1>9. Holds(r, elems)
    <2>1. \A k \in 1 .. size[v] : m.slots[k] = Vec!Elements(v)[k]
      BY <1>4 DEF Holds
    <2>2. ASSUME NEW k \in 1 .. size[v] + 1 PROVE r.slots[k] = elems[k]
      <3>1. CASE k <= size[v]
        <4>1. k \in 1 .. size[v] /\ k \in 1 .. r.size
          BY <1>1, <1>7, <3>1
        <4> QED BY <1>7, <1>8, <2>1, <3>1, <4>1
      <3>2. CASE ~(k <= size[v])
        <4>1. k = size[v] + 1 /\ k - size[v] = 1 /\ k \in 1 .. r.size
          BY <1>1, <1>7, <3>2
        <4> QED BY <1>5, <1>7, <1>8, <3>2, <4>1
      <3> QED BY <3>1, <3>2
    <2> QED BY <1>7, <1>8, <2>2 DEF Holds
  <1>10. VectorInv'
    BY <1>2, <1>7, CommitInv
  <1>11. Contents' = [Contents EXCEPT ![v] = elems]
    BY <1>2, <1>7, <1>8, <1>9, CommitContent
  <1>12. Vec!L!Push(v, x)
    BY <1>11 DEF Vec!L!Push, Contents, elems
  <1>13. Vec!L!Next
    BY <1>12 DEF Vec!L!Next
  <1> QED BY <1>10, <1>13 DEF Goes

\* The first n elements are left.
LEMMA FirstElements ==
  ASSUME VectorInv, NEW v \in Vectors, NEW n \in Nat, n <= size[v]
  PROVE  LET q == SubSeq(Vec!Elements(v), 1, n) IN
         /\ q \in Seq(Values) /\ Len(q) = n
         /\ \A k \in 1 .. n : q[k] = Vec!Elements(v)[k]
  <1> DEFINE e == Vec!Elements(v)
             q == SubSeq(e, 1, n)
  <1>1. e \in Seq(Values) /\ Len(e) = size[v] /\ size[v] \in Nat
    BY MemoryIs, VectorAssumption
  <1> HIDE DEF e
  <1>2. \A k \in 1 .. n : e[k] \in Values
    <2>1. \A k \in 1 .. n : k \in 1 .. Len(e)
      BY <1>1
    <2> QED BY <1>1, <2>1, ElementOfSeq
  <1>3. q = [k \in 1 .. n |-> e[k]]
    BY <1>1 DEF SubSeq
  <1>4. q \in [1 .. n -> Values]
    BY <1>2, <1>3
  <1> HIDE DEF q
  <1>5. q \in Seq(Values) /\ Len(q) = n
    BY <1>4, SeqDef, LenProperties
  <1>6. \A k \in 1 .. n : q[k] = e[k]
    BY <1>3
  <1> QED BY <1>5, <1>6 DEF q, e

LEMMA PopGoes ==
  ASSUME VectorInv, NEW v \in Vectors, Vec!Pop(v)
  PROVE  Goes
  <1> DEFINE o == Vec!Memory(v)
             elems == SubSeq(Vec!Elements(v), 1, size[v] - 1)
  <1>1. /\ Sound(v, o) /\ o.size = size[v] /\ o.slots = slots[v] /\ Holds(o, Vec!Elements(v))
        /\ size[v] \in Nat /\ size[v] > 0 /\ size[v] <= MaxSize
        /\ Vec!Elements(v) \in Seq(Values) /\ Len(Vec!Elements(v)) = size[v]
    BY MemoryIs, VectorAssumption DEF Vec!Pop
  <1>2. PICK n \in Nat : n = size[v] - 1
    BY <1>1
  <1> DEFINE r == [Vec!Destruct(o, n, 1) EXCEPT !.size = n]
  <1>3. Vec!Commit(v, r)
    <2>1. Vec!Destruct(o, size[v] - 1, 1).size = size[v]
      BY DEF Vec!Destruct, Vec!Memory
    <2>2. Vec!Commit(v, [Vec!Destruct(o, size[v] - 1, 1) EXCEPT !.size = @ - 1])
      BY DEF Vec!Pop
    <2> HIDE DEF o
    <2> QED BY <1>2, <2>1, <2>2
  <1> HIDE DEF o
  <1>4. LET y == [Vec!Destruct(o, n, 1) EXCEPT !.size = n] IN
        /\ Sound(v, y) /\ y.size = n
        /\ \A k \in 1 .. n : y.slots[k] = o.slots[k]
    <2>1. n <= o.size /\ 1 = o.size - n
      BY <1>1, <1>2
    <2> QED BY <1>1, <2>1, DestructSound
  <1>5. Sound(v, r) /\ r.size = n /\ \A k \in 1 .. n : r.slots[k] = o.slots[k]
    BY <1>4
  <1> HIDE DEF r
  <1>6. elems \in Seq(Values) /\ Len(elems) = n /\ \A k \in 1 .. n : elems[k] = Vec!Elements(v)[k]
    BY <1>1, <1>2, FirstElements
  <1> HIDE DEF elems
  <1>7. Holds(r, elems)
    <2>1. \A k \in 1 .. n : k \in 1 .. o.size
      BY <1>1, <1>2
    <2>2. \A k \in 1 .. n : o.slots[k] = Vec!Elements(v)[k]
      BY <1>1, <2>1 DEF Holds
    <2> QED BY <1>5, <1>6, <2>2 DEF Holds
  <1>8. VectorInv'
    <2>1. r.size <= MaxSize
      BY <1>1, <1>2, <1>5, VectorAssumption
    <2> QED BY <1>3, <1>5, <2>1, CommitInv
  <1>9. Contents' = [Contents EXCEPT ![v] = elems]
    BY <1>3, <1>5, <1>6, <1>7, CommitContent
  <1>10. Contents[v] = Vec!Elements(v) /\ Contents[v] # <<>>
    BY <1>1, ContentsAre, EmptySeq
  <1>11. Vec!L!Pop(v)
    BY <1>1, <1>9, <1>10 DEF Vec!L!Pop, Contents, elems
  <1> QED BY <1>8, <1>11 DEF Goes, Vec!L!Next

LEMMA Resized ==
  ASSUME VectorInv, NEW v \in Vectors, NEW n \in 0 .. MaxSize, NEW elems \in Seq(Values),
         Len(elems) = n,
         \A k \in 1 .. n : elems[k] = IF k <= size[v] THEN Vec!Elements(v)[k] ELSE Default,
         Contents' = [Contents EXCEPT ![v] = elems]
  PROVE  Vec!L!Next
  <1> DEFINE new == [k \in 1 .. n |-> IF k <= Len(Contents[v]) THEN Contents[v][k] ELSE Default]
  <1>1. Contents[v] = Vec!Elements(v) /\ Len(Contents[v]) = size[v]
    BY ContentsAre
  <1>2. elems = new
    <2>1. DOMAIN elems = 1 .. n /\ elems = [k \in 1 .. n |-> elems[k]]
      BY LenProperties, SeqDef
    <2>2. \A k \in 1 .. n : elems[k] = new[k]
      BY <1>1
    <2>3. new = [k \in 1 .. n |-> new[k]]
      OBVIOUS
    <2> HIDE DEF new
    <2> QED BY <2>1, <2>2, <2>3
  <1>3. Contents' = [Contents EXCEPT ![v] = new]
    BY <1>2
  <1>4. Vec!L!Resize(v, n)
    BY <1>3 DEF Vec!L!Resize, Contents
  <1> QED BY <1>4 DEF Vec!L!Next

LEMMA ResizeGoes ==
  ASSUME VectorInv, NEW v \in Vectors, NEW n \in 0 .. MaxSize, Vec!Resize(v, n)
  PROVE  Goes
  <1> DEFINE m == Vec!EnsureCapacity(v, Vec!Memory(v), n)
             padding == [i \in 1 .. n - size[v] |-> Default]
             r == Vec!Construct(m, size[v], padding)
             s == [Vec!Destruct(m, n, size[v] - n) EXCEPT !.size = n]
  <1>1. /\ n \in Nat /\ n <= MaxSize /\ size[v] \in Nat
        /\ Vec!Elements(v) \in Seq(Values) /\ Len(Vec!Elements(v)) = size[v]
    BY MemoryIs, VectorAssumption
  <1>2. /\ Vec!Fits(v, n) /\ (n < size[v] => trivial)
        /\ Vec!Commit(v, IF n >= size[v] THEN r
                         ELSE [Vec!Destruct(m, IF trivial THEN n ELSE size[v], size[v] - n)
                                 EXCEPT !.size = n])
    BY DEF Vec!Resize
  <1>3. LET y == Vec!EnsureCapacity(v, Vec!Memory(v), n) IN
        /\ Sound(v, y) /\ Holds(y, Vec!Elements(v)) /\ y.size = size[v] /\ n <= Len(y.slots)
    BY <1>1, <1>2, RoomMade
  <1>4. Sound(v, m) /\ Holds(m, Vec!Elements(v)) /\ m.size = size[v] /\ n <= Len(m.slots)
    BY <1>3
  <1>5. \A k \in 1 .. size[v] : m.slots[k] = Vec!Elements(v)[k]
    BY <1>4 DEF Holds
  <1>6. CASE n >= size[v]
    <2>1. Vec!Commit(v, r)
      BY <1>2, <1>6
    <2>2. padding \in Seq(Values) /\ Len(padding) = n - size[v]
      <3>1. n - size[v] \in Nat
        BY <1>1, <1>6
      <3>2. padding \in [1 .. n - size[v] -> Values]
        BY VectorAssumption
      <3> HIDE DEF padding
      <3> QED BY <3>1, <3>2, SeqDef, LenProperties
    <2>3. \A k \in 1 .. n - size[v] : padding[k] = Default
      OBVIOUS
    <2> HIDE DEF m, padding
    <2>4. PICK i \in Nat : i = size[v]
      BY <1>1
    <2>5. PICK l \in Seq(Values) : l = padding
      BY <2>2
    <2>6. i = m.size /\ m.size + Len(l) <= Len(m.slots)
      <3>1. m.size + Len(l) = n
        BY <1>1, <1>4, <2>2, <2>5
      <3> QED BY <1>4, <2>4, <3>1
    <2>7. LET y == Vec!Construct(m, i, l) IN
          /\ Sound(v, y) /\ y.size = m.size + Len(l)
          /\ \A k \in 1 .. y.size : y.slots[k] = IF k <= m.size THEN m.slots[k] ELSE l[k - m.size]
      BY <1>4, <2>6, ConstructSound
    <2>8. r = Vec!Construct(m, i, l)
      BY <2>4, <2>5
    <2> HIDE DEF r
    <2>9. /\ Sound(v, r) /\ r.size = n
          /\ \A k \in 1 .. n : r.slots[k] = IF k <= size[v] THEN m.slots[k] ELSE padding[k - size[v]]
      <3>1. m.size + Len(l) = n
        BY <1>1, <1>4, <2>2, <2>5
      <3> QED BY <1>4, <2>5, <2>7, <2>8, <3>1
    <2> DEFINE elems == [k \in 1 .. n |-> IF k <= size[v] THEN Vec!Elements(v)[k] ELSE Default]
    <2>10. elems \in Seq(Values) /\ Len(elems) = n
      <3>1. \A k \in 1 .. n : k <= size[v] => k \in 1 .. size[v]
        BY <1>1
      <3>2. \A k \in 1 .. size[v] : Vec!Elements(v)[k] \in Values
        BY <1>1, ElementOfSeq
      <3>3. elems \in [1 .. n -> Values]
        BY <3>1, <3>2, VectorAssumption
      <3> HIDE DEF elems
      <3> QED BY <1>1, <3>3, SeqDef, LenProperties
    <2>11. \A k \in 1 .. n : elems[k] = IF k <= size[v] THEN Vec!Elements(v)[k] ELSE Default
      OBVIOUS
    <2> HIDE DEF elems
    <2>12. Holds(r, elems)
      <3>1. ASSUME NEW k \in 1 .. n PROVE r.slots[k] = elems[k]
        <4>1. CASE k <= size[v]
          <5>1. k \in 1 .. size[v]
            BY <1>1, <4>1
          <5> QED BY <1>5, <2>9, <2>11, <4>1, <5>1
        <4>2. CASE ~(k <= size[v])
          <5>1. k - size[v] \in 1 .. n - size[v]
            BY <1>1, <4>2
          <5> QED BY <2>3, <2>9, <2>11, <4>2, <5>1
        <4> QED BY <4>1, <4>2
      <3> QED BY <2>9, <2>10, <3>1 DEF Holds
    <2>13. VectorInv'
      BY <1>1, <2>1, <2>9, CommitInv
    <2>14. Contents' = [Contents EXCEPT ![v] = elems]
      BY <2>1, <2>9, <2>10, <2>12, CommitContent
    <2>15. Vec!L!Next
      BY <2>10, <2>11, <2>14, Resized
    <2> QED BY <2>13, <2>15 DEF Goes
  <1>7. CASE ~(n >= size[v])
    <2>1. n <= size[v] /\ trivial
      BY <1>1, <1>2, <1>7
    <2>2. Vec!Commit(v, s)
      BY <1>2, <1>7, <2>1
    <2> HIDE DEF m
    <2>3. PICK c \in Nat : c = size[v] - n
      BY <1>1, <2>1
    <2>4. LET y == [Vec!Destruct(m, n, c) EXCEPT !.size = n] IN
          /\ Sound(v, y) /\ y.size = n
          /\ \A k \in 1 .. n : y.slots[k] = m.slots[k]
      <3>1. n <= m.size /\ c = m.size - n
        BY <1>4, <2>1, <2>3
      <3> QED BY <1>1, <1>4, <3>1, DestructSound
    <2>5. Sound(v, s) /\ s.size = n /\ \A k \in 1 .. n : s.slots[k] = m.slots[k]
      BY <2>3, <2>4
    <2> HIDE DEF s
    <2> DEFINE elems == SubSeq(Vec!Elements(v), 1, n)
    <2>6. elems \in Seq(Values) /\ Len(elems) = n /\ \A k \in 1 .. n : elems[k] = Vec!Elements(v)[k]
      BY <1>1, <2>1, FirstElements
    <2> HIDE DEF elems
    <2>7. \A k \in 1 .. n : k \in 1 .. size[v] /\ k <= size[v]
      BY <1>1, <2>1
    <2>8. Holds(s, elems)
      BY <1>5, <2>5, <2>6, <2>7 DEF Holds
    <2>9. VectorInv'
      BY <1>1, <2>2, <2>5, CommitInv
    <2>10. Contents' = [Contents EXCEPT ![v] = elems]
      BY <2>2, <2>5, <2>6, <2>8, CommitContent
    <2>11. Vec!L!Next
      BY <2>6, <2>7, <2>10, Resized
    <2> QED BY <2>9, <2>11 DEF Goes
  <1> QED BY <1>6, <1>7

LEMMA ShrinkToFitGoes ==
  ASSUME VectorInv, NEW v \in Vectors, Vec!ShrinkToFit(v)
  PROVE  Goes
  <1> DEFINE o == Vec!Memory(v)
  <1>1. /\ Sound(v, o) /\ o.size = size[v] /\ o.slots = slots[v] /\ Holds(o, Vec!Elements(v))
        /\ o.onHeap = onHeap[v] /\ size[v] \in Nat /\ Vec!capacity(v) = Len(slots[v])
    BY MemoryIs, VectorAssumption
  <1>2. PICK good \in Vec!GoodCapacities(v, size[v]) :
          Vec!Commit(v, IF good >= Vec!capacity(v) THEN o ELSE Vec!ToCapacity(v, o, good))
    BY DEF Vec!ShrinkToFit
  <1> HIDE DEF o
  <1>3. CASE good >= Vec!capacity(v)
    BY <1>1, <1>2, <1>3, SameElementsGoes
  <1>4. CASE ~(good >= Vec!capacity(v))
    <2>1. Within(storage[v], onHeap[v], slots[v]) /\ storage[v] \in Storages
      BY DEF VectorInv
    <2>2. storage[v] = "heap" \/ onHeap[v]
      <3>1. ASSUME ~(storage[v] = "heap" \/ onHeap[v]) PROVE FALSE
        <4>1. good = Inline
          BY <1>2, <3>1 DEF Vec!GoodCapacities
        <4>2. Len(slots[v]) <= Inline
          BY <2>1, <3>1 DEF Within, Storages
        <4>3. Len(slots[v]) \in Nat
          BY MemoryIs
        <4> QED BY <1>1, <1>4, <4>1, <4>2, <4>3, VectorAssumption
      <3> QED BY <3>1
    <2>3. good \in Nat /\ size[v] <= good
      BY <1>1, <1>2, <2>2 DEF Vec!GoodCapacities
    <2>4. storage[v] # "stack"
      BY <2>1, <2>2 DEF Within
    <2>5. LET r == Vec!ToCapacity(v, o, good) IN
          /\ Sound(v, r) /\ Holds(r, Vec!Elements(v)) /\ r.size = o.size /\ Len(r.slots) = good
          /\ r.born = o.born /\ r.dead = o.dead
      BY <1>1, <2>3, <2>4, ToCapacitySound
    <2>6. Vec!Commit(v, Vec!ToCapacity(v, o, good))
      BY <1>2, <1>4
    <2> QED BY <1>1, <2>5, <2>6, SameElementsGoes
  <1> QED BY <1>3, <1>4

LEMMA ClearGoes ==
  ASSUME VectorInv, NEW v \in Vectors, Vec!Clear(v)
  PROVE  Goes
  BY ClearedSound, EmptiedGoes DEF Vec!Clear

LEMMA RecreateGoes ==
  ASSUME VectorInv, NEW v \in Vectors, Vec!Recreate(v)
  PROVE  Goes
  <1>1. Sound(v, Vec!Cleared(v)) /\ Vec!Cleared(v).size = 0
    BY ClearedSound
  <1>2. Sound(v, Vec!Free(Vec!Cleared(v))) /\ Vec!Free(Vec!Cleared(v)).size = 0
    BY <1>1, FreeSound
  <1> QED BY <1>2, EmptiedGoes DEF Vec!Recreate

LEMMA AssignListGoes ==
  ASSUME VectorInv, NEW v \in Vectors, NEW n \in Nat, NEW elems \in [1 .. n -> Values],
         Vec!AssignList(v, elems)
  PROVE  Goes
  <1>1. elems \in Seq(Values)
    BY SeqDef
  <1> QED BY <1>1, CopyFromGoes DEF Vec!AssignList

LEMMA CopiedGoes ==
  ASSUME VectorInv, NEW v \in Vectors, NEW w \in Vectors, Vec!Fits(v, size[w]),
         Vec!Commit(v, Vec!CopyFrom(v, Vec!Cleared(v), Vec!Elements(w)))
  PROVE  Goes
  <1>1. Vec!Elements(w) \in Seq(Values) /\ Len(Vec!Elements(w)) = size[w]
    BY MemoryIs
  <1> QED BY <1>1, CopyFromGoes

\* The block of w and what is in it goes over to v.
LEMMA BlockMoves ==
  ASSUME VectorInv, NEW v \in Vectors, NEW w \in Vectors, v # w,
         storage[v] = "heap", storage[w] = "heap",
         slots' = [slots EXCEPT ![v] = slots[w], ![w] = <<>>],
         size' = [size EXCEPT ![v] = size[w], ![w] = 0],
         onHeap' = [onHeap EXCEPT ![v] = onHeap[w], ![w] = FALSE],
         alive' = alive - (IF trivial THEN 0 ELSE size[v]),
         blocks' = blocks - (IF onHeap[v] THEN 1 ELSE 0),
         trivial' = trivial, storage' = storage
  PROVE  Goes
  <1>1. /\ slots \in [Vectors -> Seq(Cells)] /\ size \in [Vectors -> 0 .. MaxSize]
        /\ onHeap \in [Vectors -> BOOLEAN]
    BY DEF VectorInv
  <1>2. <<>> \in Seq(Cells) /\ Len(<<>>) = 0 /\ 0 \in 0 .. MaxSize /\ <<>> \in Seq(Values)
    BY EmptySeq, VectorAssumption
  <1>3. /\ slots' \in [Vectors -> Seq(Cells)] /\ size' \in [Vectors -> 0 .. MaxSize]
        /\ onHeap' \in [Vectors -> BOOLEAN]
    BY <1>1, <1>2
  <1>4. /\ slots'[v] = slots[w] /\ size'[v] = size[w] /\ onHeap'[v] = onHeap[w]
        /\ slots'[w] = <<>> /\ size'[w] = 0 /\ onHeap'[w] = FALSE
    BY <1>1
  <1>5. \A u \in Vectors \ {v, w} : /\ slots'[u] = slots[u] /\ size'[u] = size[u]
                                    /\ onHeap'[u] = onHeap[u]
    BY <1>1
  <1>6. \A u \in Vectors : u = v \/ u = w \/ u \in Vectors \ {v, w}
    OBVIOUS
  <1>7. \A u \in Vectors : Shaped(slots'[u], size'[u]) /\ Within(storage'[u], onHeap'[u], slots'[u])
    <2>1. \A u \in Vectors : Shaped(slots[u], size[u]) /\ Within(storage[u], onHeap[u], slots[u])
      BY DEF VectorInv
    <2>2. Shaped(slots'[v], size'[v]) /\ Within(storage[v], onHeap'[v], slots'[v])
      BY <1>4, <2>1
    <2>3. Shaped(slots'[w], size'[w]) /\ Within(storage[w], onHeap'[w], slots'[w])
      <3>1. Shaped(<<>>, 0) /\ Within("heap", FALSE, <<>>)
        BY <1>2 DEF Shaped, Within
      <3> QED BY <1>4, <3>1
    <2> QED BY <1>5, <1>6, <2>1, <2>2, <2>3
  <1>8. alive' = IF trivial' THEN 0 ELSE Cardinality(Tally(Vectors, size'))
    <2>1. CASE trivial
      BY <2>1 DEF VectorInv
    <2>2. CASE ~trivial
      <3> DEFINE mid == [size EXCEPT ![v] = size[w]]
      <3>1. /\ mid \in [Vectors -> 0 .. MaxSize] /\ mid[v] = size[w] /\ mid[w] = size[w]
            /\ \A u \in Vectors \ {v} : mid[u] = size[u]
            /\ \A u \in Vectors \ {w} : size'[u] = mid[u]
        BY <1>1
      <3> HIDE DEF mid
      <3>2. \A u \in Vectors : size[u] \in Nat /\ size'[u] \in Nat /\ mid[u] \in Nat
        <4>1. \A n \in 0 .. MaxSize : n \in Nat
          BY VectorAssumption
        <4> QED BY ONLY <1>1, <1>3, <3>1, <4>1
      <3>3. Cardinality(Tally(Vectors, mid))
              = Cardinality(Tally(Vectors, size)) + mid[v] - size[v]
        <4>1. PICK f : f = size
          OBVIOUS
        <4>2. PICK g : g = mid
          OBVIOUS
        <4>3. \A u \in Vectors : f[u] \in Nat /\ g[u] \in Nat
          BY ONLY <3>2, <4>1, <4>2
        <4>4. \A u \in Vectors \ {v} : g[u] = f[u]
          BY ONLY <3>1, <4>1, <4>2
        <4>5. Cardinality(Tally(Vectors, g)) = Cardinality(Tally(Vectors, f)) + g[v] - f[v]
          BY ONLY v \in Vectors, <4>3, <4>4, VectorAssumption, TallyChanges
        <4> QED BY ONLY <4>1, <4>2, <4>5
      <3>4. Cardinality(Tally(Vectors, size'))
              = Cardinality(Tally(Vectors, mid)) + size'[w] - mid[w]
        <4>1. PICK f : f = mid
          OBVIOUS
        <4>2. PICK g : g = size'
          OBVIOUS
        <4>3. \A u \in Vectors : f[u] \in Nat /\ g[u] \in Nat
          BY ONLY <3>2, <4>1, <4>2
        <4>4. \A u \in Vectors \ {w} : g[u] = f[u]
          BY ONLY <3>1, <4>1, <4>2
        <4>5. Cardinality(Tally(Vectors, g)) = Cardinality(Tally(Vectors, f)) + g[w] - f[w]
          BY ONLY w \in Vectors, <4>3, <4>4, VectorAssumption, TallyChanges
        <4> QED BY ONLY <4>1, <4>2, <4>5
      <3>5. PICK c \in Nat : c = Cardinality(Tally(Vectors, size))
        BY SizesTallied
      <3>6. PICK a \in Nat : a = size[v]
        BY <3>2
      <3>7. PICK b \in Nat : b = size[w]
        BY <3>2
      <3>8. Cardinality(Tally(Vectors, mid)) = c + b - a
        BY <3>1, <3>3, <3>5, <3>6, <3>7
      <3>9. Cardinality(Tally(Vectors, size')) = ((c + b) - a) + 0 - b
        BY <1>4, <3>1, <3>4, <3>7, <3>8
      <3>10. alive' = c - a
        BY <2>2, <3>5, <3>6 DEF VectorInv
      <3>11. ((c + b) - a) + 0 - b = c - a
        OBVIOUS
      <3> QED BY <2>2, <3>9, <3>10, <3>11
    <2> QED BY <2>1, <2>2
  <1>9. blocks' = Cardinality(Upon(onHeap'))
    <2> DEFINE mid == [onHeap EXCEPT ![v] = onHeap[w]]
    <2>1. /\ mid \in [Vectors -> BOOLEAN] /\ mid[v] = onHeap[w] /\ mid[w] = onHeap[w]
          /\ \A u \in Vectors \ {v} : mid[u] = onHeap[u]
          /\ \A u \in Vectors \ {w} : onHeap'[u] = mid[u]
      BY <1>1
    <2> HIDE DEF mid
    <2>2. /\ Cardinality(Upon(onHeap)) \in Nat /\ Cardinality(Upon(mid)) \in Nat
          /\ Cardinality(Upon(mid)) = Cardinality(Upon(onHeap)) + (IF mid[v] THEN 1 ELSE 0)
                                       - (IF onHeap[v] THEN 1 ELSE 0)
      BY <1>1, <2>1, UponChanges
    <2>3. Cardinality(Upon(onHeap')) = Cardinality(Upon(mid)) + (IF onHeap'[w] THEN 1 ELSE 0)
                                         - (IF mid[w] THEN 1 ELSE 0)
      BY <1>3, <2>1, UponChanges
    <2>4. blocks = Cardinality(Upon(onHeap))
      BY DEF VectorInv, OnHeap, Upon
    <2>5. PICK a \in Nat : a = IF onHeap[v] THEN 1 ELSE 0
      OBVIOUS
    <2>6. PICK b \in Nat : b = IF onHeap[w] THEN 1 ELSE 0
      OBVIOUS
    <2>7. Cardinality(Upon(mid)) = Cardinality(Upon(onHeap)) + b - a
      BY <2>1, <2>2, <2>5, <2>6
    <2>8. Cardinality(Upon(onHeap')) = Cardinality(Upon(mid)) + 0 - b
      BY <1>4, <2>1, <2>3, <2>6
    <2>9. blocks' = Cardinality(Upon(onHeap)) - a
      BY <2>4, <2>5
    <2> QED BY <2>2, <2>7, <2>8, <2>9
  <1>10. VectorInv'
    BY <1>3, <1>7, <1>8, <1>9 DEF VectorInv, OnHeap, Upon
  <1>11. Contents' = [Contents EXCEPT ![v] = Contents[w], ![w] = <<>>]
    <2>1. Vec!Elements(v)' = Vec!Elements(w)
      BY <1>4 DEF Vec!Elements
    <2>2. Vec!Elements(w)' = <<>>
      <3>1. SubSeq(<<>>, 1, 0) = <<>>
        BY DEF SubSeq
      <3> QED BY <1>4, <3>1 DEF Vec!Elements
    <2>3. \A u \in Vectors \ {v, w} : Vec!Elements(u)' = Vec!Elements(u)
      BY <1>5 DEF Vec!Elements
    <2>4. \A u \in Vectors : Vec!Elements(u)' = IF u = w THEN <<>> ELSE IF u = v THEN Vec!Elements(w)
                                                ELSE Vec!Elements(u)
      BY <2>1, <2>2, <2>3
    <2> QED BY <2>4 DEF Contents
  <1>12. Vec!L!Move(v, w)
    BY <1>11 DEF Vec!L!Move, Contents
  <1> QED BY <1>10, <1>12 DEF Goes, Vec!L!Next

LEMMA MoveAssignGoes ==
  ASSUME VectorInv, NEW v \in Vectors, NEW w \in Vectors, Vec!MoveAssign(v, w)
  PROVE  Goes
  <1>1. v # w /\ Vec!Fits(v, size[w])
    BY DEF Vec!MoveAssign
  <1>2. CASE ~(storage[v] = "heap" /\ storage[w] = "heap")
    <2>1. Vec!Commit(v, Vec!CopyFrom(v, Vec!Cleared(v), Vec!Elements(w)))
      BY <1>2 DEF Vec!MoveAssign
    <2> QED BY <1>1, <2>1, CopiedGoes
  <1>3. CASE storage[v] = "heap" /\ storage[w] = "heap"
    <2> DEFINE d == Vec!Free(Vec!Cleared(v)).dead
               m == [Vec!Memory(w) EXCEPT !.dead = d, !.allocated = IF onHeap[v] THEN -1 ELSE 0]
    <2>1. Vec!Commit2(v, m, w, Vec!NoMemory)
      BY <1>3 DEF Vec!MoveAssign
    <2>2. d = IF trivial THEN 0 ELSE size[v]
      BY ClearedSound DEF Vec!Free, Vec!NoMemory
    <2>3. /\ m.slots = slots[w] /\ m.size = size[w] /\ m.onHeap = onHeap[w] /\ m.born = 0
          /\ m.dead = d /\ m.allocated = IF onHeap[v] THEN -1 ELSE 0
      BY DEF Vec!Memory
    <2> HIDE DEF m, d
    <2>4. /\ slots' = [slots EXCEPT ![v] = slots[w], ![w] = <<>>]
          /\ size' = [size EXCEPT ![v] = size[w], ![w] = 0]
          /\ onHeap' = [onHeap EXCEPT ![v] = onHeap[w], ![w] = FALSE]
          /\ alive' = (alive + 0) - d /\ blocks' = blocks + (IF onHeap[v] THEN -1 ELSE 0)
          /\ trivial' = trivial /\ storage' = storage
      BY <2>1, <2>3 DEF Vec!Commit2, Vec!NoMemory
    <2>5. alive \in Int /\ blocks \in Int
      <3>1. alive \in Int
        BY SizesTallied DEF VectorInv
      <3>2. blocks \in Int
        <4>1. onHeap \in [Vectors -> BOOLEAN] /\ blocks = Cardinality(Upon(onHeap))
          BY DEF VectorInv, OnHeap, Upon
        <4> QED BY <4>1, UponChanges
      <3> QED BY <3>1, <3>2
    <2>6. alive' = alive - (IF trivial THEN 0 ELSE size[v])
      BY <2>2, <2>4, <2>5
    <2>7. blocks' = blocks - (IF onHeap[v] THEN 1 ELSE 0)
      BY <2>4, <2>5
    <2> QED BY <1>1, <1>3, <2>4, <2>6, <2>7, BlockMoves
  <1> QED BY <1>2, <1>3

LEMMA VectorGoes ==
  ASSUME VectorInv, Vec!Next
  PROVE  Goes
  <1>1. ASSUME NEW v \in Vectors, NEW x \in Values, Vec!Push(v, x) PROVE Goes
    BY <1>1, PushGoes
  <1>2. ASSUME NEW v \in Vectors, Vec!Pop(v) PROVE Goes
    BY <1>2, PopGoes
  <1>3. ASSUME NEW v \in Vectors, NEW n \in 0 .. MaxSize, Vec!Reserve(v, n) PROVE Goes
    BY <1>3, ReserveGoes
  <1>4. ASSUME NEW v \in Vectors, NEW n \in 0 .. MaxSize, Vec!Resize(v, n) PROVE Goes
    BY <1>4, ResizeGoes
  <1>5. ASSUME NEW v \in Vectors, Vec!ShrinkToFit(v) PROVE Goes
    BY <1>5, ShrinkToFitGoes
  <1>6. ASSUME NEW v \in Vectors, Vec!Clear(v) PROVE Goes
    BY <1>6, ClearGoes
  <1>7. ASSUME NEW v \in Vectors, Vec!Recreate(v) PROVE Goes
    BY <1>7, RecreateGoes
  <1>8. ASSUME NEW v \in Vectors, NEW n \in 0 .. 2, NEW elems \in [1 .. n -> Values],
               Vec!AssignList(v, elems)
        PROVE  Goes
    BY <1>8, AssignListGoes
  <1>9. ASSUME NEW v \in Vectors, NEW w \in Vectors, Vec!Assign(v, w) PROVE Goes
    BY <1>9, CopiedGoes DEF Vec!Assign
  <1>10. ASSUME NEW v \in Vectors, NEW w \in Vectors, Vec!MoveAssign(v, w) PROVE Goes
    BY <1>10, MoveAssignGoes
  <1> QED
    BY <1>1, <1>2, <1>3, <1>4, <1>5, <1>6, <1>7, <1>8, <1>9, <1>10 DEF Vec!Next

LEMMA VectorStands ==
  ASSUME UNCHANGED Vec!vars
  PROVE  (VectorInv => VectorInv') /\ Contents' = Contents
  BY DEF Vec!vars, VectorInv, OnHeap, Contents, Vec!Elements

LEMMA VectorStart ==
  ASSUME Vec!Init
  PROVE  VectorInv /\ Vec!L!Init
  <1>1. <<>> \in Seq(Cells) /\ Len(<<>>) = 0 /\ 0 \in 0 .. MaxSize
    BY EmptySeq, VectorAssumption
  <1>2. \A v \in Vectors : onHeap[v] = FALSE /\ slots[v] = <<>> /\ size[v] = 0
    BY DEF Vec!Init
  <1>3. /\ trivial \in BOOLEAN /\ storage \in [Vectors -> Storages]
        /\ onHeap \in [Vectors -> BOOLEAN] /\ slots \in [Vectors -> Seq(Cells)]
        /\ size \in [Vectors -> 0 .. MaxSize] /\ alive = 0 /\ blocks = 0
    BY <1>1 DEF Vec!Init, Storages
  <1>4. \A k : Shaped(<<>>, 0) /\ Within(k, FALSE, <<>>)
    <2>1. 0 <= Inline
      BY VectorAssumption
    <2> QED BY <1>1, <2>1 DEF Shaped, Within
  <1>5. Cardinality(Tally(Vectors, size)) = 0
    <2>1. \A p : p \notin Tally(Vectors, size)
      BY <1>2, TallyIs
    <2>2. Tally(Vectors, size) = {}
      BY <2>1
    <2> QED BY <2>2, FS_EmptySet
  <1>6. Cardinality(OnHeap) = 0
    <2>1. OnHeap = {}
      BY <1>2 DEF OnHeap
    <2> QED BY <2>1, FS_EmptySet
  <1>7. VectorInv
    BY <1>2, <1>3, <1>4, <1>5, <1>6 DEF VectorInv
  <1>8. \A v \in Vectors : Vec!Elements(v) = <<>>
    <2>1. SubSeq(<<>>, 1, 0) = <<>>
      BY DEF SubSeq
    <2> QED BY <1>2, <2>1 DEF Vec!Elements
  <1>9. Vec!L!Init
    BY <1>8 DEF Vec!L!Init
  <1> QED BY <1>7, <1>9

LEMMA VectorsSound ==
  ASSUME VectorInv PROVE Vec!TypeOK /\ Vec!VectorSound
  <1>1. Vec!TypeOK
    BY DEF VectorInv, Vec!TypeOK, Storages, Cells
  <1>2. ASSUME NEW v \in Vectors
        PROVE  /\ size[v] <= Vec!capacity(v)
               /\ \A i \in 1 .. Vec!capacity(v) : (slots[v][i] # Raw) = (i <= size[v])
               /\ storage[v] = "stack" => Vec!capacity(v) <= Inline
               /\ onHeap[v] => storage[v] # "stack"
    <2>1. Shaped(slots[v], size[v]) /\ Within(storage[v], onHeap[v], slots[v])
      BY DEF VectorInv
    <2> QED BY <2>1 DEF Shaped, Within, Vec!capacity
  <1>3. \A S : Vec!Cardinality(S) = Cardinality(S)
    BY DEF Vec!Cardinality, Cardinality
  <1>4. Vec!Constructed = Tally(Vectors, size)
    BY DEF Vec!Constructed, Tally
  <1>5. alive = IF trivial THEN 0 ELSE Vec!Cardinality(Vec!Constructed)
    BY <1>3, <1>4 DEF VectorInv
  <1>6. blocks = Vec!Cardinality({v \in Vectors : onHeap[v]})
    BY <1>3 DEF VectorInv, OnHeap
  <1>7. Vec!VectorSound
    BY <1>2, <1>5, <1>6 DEF Vec!VectorSound
  <1> QED BY <1>1, <1>7

-----------------------------------------------------------------------------
\* Blocks have room for the header and for what was asked, aligned as it was asked,
\* free and realloc find them again, and the statistics are the sum of what is live;
\* the slots of a vector up to its end hold its elements and no other slot does, every
\* element is destructed once and every block on the heap has one owner: for any number
\* of blocks and vectors, any sizes, and alignments that are multiples of eight.
THEOREM StorageHolds == Mem!Spec /\ Vec!Spec => []StorageSound
  <1>1. Mem!Init => MemoryInv
    BY MemoryStart
  <1>2. MemoryInv /\ [Mem!Next]_(Mem!vars) => MemoryInv'
    BY MemoryStep
  <1>3. MemoryInv => Mem!TypeOK /\ Mem!BlocksSound
    BY MemorySound
  <1>4. Vec!Init => VectorInv
    BY VectorStart
  <1>5. VectorInv /\ [Vec!Next]_(Vec!vars) => VectorInv'
    BY VectorGoes, VectorStands DEF Goes
  <1>6. VectorInv => Vec!TypeOK /\ Vec!VectorSound
    BY VectorsSound
  <1>7. (Mem!TypeOK /\ Mem!BlocksSound) /\ (Vec!TypeOK /\ Vec!VectorSound) => StorageSound
    BY DEF StorageSound
  <1> QED BY <1>1, <1>2, <1>3, <1>4, <1>5, <1>6, <1>7, PTL DEF Mem!Spec, Vec!Spec

\* Every operation of IVector changes the elements as the operation of Lists does that
\* it stands for, whatever the storage does to keep them; reserve and shrinkToFit leave
\* them as they are.
THEOREM VectorsAreLists == Vec!Spec => ImplementsLists
  <1>1. Vec!Init => VectorInv /\ Vec!L!Init
    BY VectorStart
  <1>2. VectorInv /\ [Vec!Next]_(Vec!vars) => VectorInv'
    BY VectorGoes, VectorStands DEF Goes
  <1>3. VectorInv /\ [Vec!Next]_(Vec!vars) => [Vec!ListStep]_(Vec!vars)
    <2> SUFFICES ASSUME VectorInv, [Vec!Next]_(Vec!vars) PROVE Vec!ListStep
      OBVIOUS
    <2>1. Vec!L!Next \/ Contents' = Contents
      BY VectorGoes, VectorStands DEF Goes
    <2> QED BY <2>1 DEF Vec!ListStep, Contents
  <1> QED BY <1>1, <1>2, <1>3, PTL DEF Vec!Spec, ImplementsLists, Vec!ImplementsLists

-----------------------------------------------------------------------------
(* Files                                                                   *)

\* What was written over what is there.
LEMMA LayerIs ==
  ASSUME NEW S, NEW w \in Seq(S), NEW f \in Seq(S)
  PROVE  LET r == w \o SubSeq(f, Len(w) + 1, Len(f)) IN
         /\ r \in Seq(S) /\ Len(w) \in Nat /\ Len(f) \in Nat
         /\ Len(r) = IF Len(w) < Len(f) THEN Len(f) ELSE Len(w)
         /\ \A k \in 1 .. Len(r) : r[k] = IF k <= Len(w) THEN w[k] ELSE f[k]
  <1> DEFINE b == SubSeq(f, Len(w) + 1, Len(f))
  <1>1. Len(w) \in Nat /\ Len(f) \in Nat
    BY LenProperties
  <1>2. /\ b \in Seq(S) /\ Len(b) = IF Len(w) < Len(f) THEN Len(f) - Len(w) ELSE 0
        /\ \A k \in 1 .. Len(b) : b[k] = f[Len(w) + k]
    BY <1>1, RestOfSeq
  <1> HIDE DEF b
  <1>3. /\ w \o b \in Seq(S) /\ Len(w \o b) = Len(w) + Len(b)
        /\ \A k \in 1 .. Len(w) + Len(b) : (w \o b)[k] = IF k <= Len(w) THEN w[k] ELSE b[k - Len(w)]
    BY <1>2, ConcatProperties
  <1>4. Len(w \o b) = IF Len(w) < Len(f) THEN Len(f) ELSE Len(w)
    BY <1>1, <1>2, <1>3
  <1>5. ASSUME NEW k \in 1 .. Len(w) + Len(b), ~(k <= Len(w)) PROVE b[k - Len(w)] = f[k]
    <2>1. Len(b) \in Nat
      BY <1>1, <1>2
    <2>2. k - Len(w) \in 1 .. Len(b) /\ Len(w) + (k - Len(w)) = k
      BY <1>1, <1>5, <2>1
    <2> QED BY <1>2, <2>2
  <1> QED BY <1>1, <1>3, <1>4, <1>5 DEF b

\* A file with bytes at an offset.
LEMMA OverwrittenIs ==
  ASSUME NEW S, NEW f \in Seq(S), NEW a \in Nat, a <= Len(f), NEW s \in Seq(S)
  PROVE  LET r == FileSystem!Overwritten(f, a, s) IN
         /\ r \in Seq(S)
         /\ Len(r) = IF a + Len(s) < Len(f) THEN Len(f) ELSE a + Len(s)
         /\ \A k \in 1 .. Len(r) : r[k] = IF k <= a THEN f[k] ELSE IF k <= a + Len(s) THEN s[k - a] ELSE f[k]
  <1> DEFINE b == SubSeq(f, 1, a)
             w == b \o s
  <1>1. Len(f) \in Nat /\ Len(s) \in Nat
    BY LenProperties
  <1>2. b \in Seq(S) /\ Len(b) = a /\ \A k \in 1 .. a : b[k] = f[k]
    <2>1. /\ b \in Seq(S) /\ Len(b) = a - 1 + 1
          /\ \A k \in 1 .. a - 1 + 1 : b[k] = f[1 + k - 1]
      <3>1. 1 \in Nat /\ 1 <= 1 /\ 1 <= a + 1
        OBVIOUS
      <3> QED BY <3>1, PartOfSeq
    <2>2. a - 1 + 1 = a /\ \A k \in Nat : 1 + k - 1 = k
      OBVIOUS
    <2> QED BY <2>1, <2>2
  <1> HIDE DEF b
  <1>3. /\ w \in Seq(S) /\ Len(w) = a + Len(s)
        /\ \A k \in 1 .. a + Len(s) : w[k] = IF k <= a THEN f[k] ELSE s[k - a]
    <2>1. /\ b \o s \in Seq(S) /\ Len(b \o s) = Len(b) + Len(s)
          /\ \A k \in 1 .. Len(b) + Len(s) : (b \o s)[k] = IF k <= Len(b) THEN b[k] ELSE s[k - Len(b)]
      BY <1>2, ConcatProperties
    <2> QED BY <1>1, <1>2, <2>1
  <1>4. FileSystem!Overwritten(f, a, s) = w \o SubSeq(f, Len(w) + 1, Len(f))
    BY <1>3 DEF FileSystem!Overwritten, b
  <1> HIDE DEF w
  <1>5. /\ w \o SubSeq(f, Len(w) + 1, Len(f)) \in Seq(S)
        /\ Len(w \o SubSeq(f, Len(w) + 1, Len(f))) = IF Len(w) < Len(f) THEN Len(f) ELSE Len(w)
        /\ \A k \in 1 .. Len(w \o SubSeq(f, Len(w) + 1, Len(f))) :
             (w \o SubSeq(f, Len(w) + 1, Len(f)))[k] = IF k <= Len(w) THEN w[k] ELSE f[k]
    BY <1>3, LayerIs
  <1>6. ASSUME NEW k \in 1 .. Len(FileSystem!Overwritten(f, a, s))
        PROVE  FileSystem!Overwritten(f, a, s)[k] =
                 IF k <= a THEN f[k] ELSE IF k <= a + Len(s) THEN s[k - a] ELSE f[k]
    <2>1. FileSystem!Overwritten(f, a, s)[k] = IF k <= a + Len(s) THEN w[k] ELSE f[k]
      BY <1>3, <1>4, <1>5
    <2>2. k \in Nat /\ 1 <= k
      BY <1>1, <1>3, <1>4, <1>5
    <2>3. k <= a + Len(s) => k \in 1 .. a + Len(s)
      BY <1>1, <2>2
    <2> QED BY <1>3, <2>1, <2>2, <2>3
  <1> QED BY <1>3, <1>4, <1>5, <1>6

LEMMA WholeFile ==
  ASSUME NEW S, NEW f \in Seq(S)
  PROVE  SubSeq(f, 1, Len(f)) = f
  <1> DEFINE r == SubSeq(f, 1, Len(f))
  <1>1. Len(f) \in Nat
    BY LenProperties
  <1>2. /\ r \in Seq(S) /\ Len(r) = Len(f) - 1 + 1
        /\ \A k \in 1 .. Len(f) - 1 + 1 : r[k] = f[1 + k - 1]
    <2>1. 1 \in Nat /\ 1 <= 1 /\ 1 <= Len(f) + 1 /\ Len(f) <= Len(f)
      BY <1>1
    <2> QED BY <1>1, <2>1, PartOfSeq
  <1>3. Len(f) - 1 + 1 = Len(f) /\ \A k \in 1 .. Len(f) : 1 + k - 1 = k
    BY <1>1
  <1> HIDE DEF r
  <1>4. \A k \in 1 .. Len(r) : r[k] = f[k]
    BY <1>2, <1>3
  <1>5. r = f
    BY <1>2, <1>3, <1>4, SeqEqual
  <1> QED BY <1>5 DEF r

LEMMA NothingWritten ==
  ASSUME NEW S, NEW f \in Seq(S), NEW a \in Nat, a <= Len(f)
  PROVE  FileSystem!Overwritten(f, a, <<>>) = f
  <1> DEFINE r == FileSystem!Overwritten(f, a, <<>>)
  <1>1. <<>> \in Seq(S) /\ Len(<<>>) = 0 /\ Len(f) \in Nat
    BY EmptySeq, LenProperties
  <1>2. /\ r \in Seq(S)
        /\ Len(r) = IF a + Len(<<>>) < Len(f) THEN Len(f) ELSE a + Len(<<>>)
        /\ \A k \in 1 .. Len(r) : r[k] = IF k <= a THEN f[k]
                                         ELSE IF k <= a + Len(<<>>) THEN <<>>[k - a] ELSE f[k]
    <2>1. LET y == FileSystem!Overwritten(f, a, <<>>) IN
          /\ y \in Seq(S)
          /\ Len(y) = IF a + Len(<<>>) < Len(f) THEN Len(f) ELSE a + Len(<<>>)
          /\ \A k \in 1 .. Len(y) : y[k] = IF k <= a THEN f[k]
                                           ELSE IF k <= a + Len(<<>>) THEN <<>>[k - a] ELSE f[k]
      BY ONLY f \in Seq(S), a \in Nat, a <= Len(f), <1>1, OverwrittenIs
    <2> QED BY ONLY <2>1 DEF r
  <1> HIDE DEF r
  <1>3. Len(r) = Len(f)
    BY <1>1, <1>2
  <1>4. \A k \in 1 .. Len(r) : r[k] = f[k]
    BY <1>1, <1>2
  <1>5. r = f
    BY <1>2, <1>3, <1>4, SeqEqual
  <1> QED BY <1>5 DEF r

LEMMA WrittenAtEnd ==
  ASSUME NEW S, NEW f \in Seq(S), NEW s \in Seq(S)
  PROVE  FileSystem!Overwritten(f, Len(f), s) = f \o s
  <1> DEFINE r == FileSystem!Overwritten(f, Len(f), s)
             c == f \o s
  <1>1. Len(f) \in Nat /\ Len(s) \in Nat
    BY LenProperties
  <1>2. /\ r \in Seq(S)
        /\ Len(r) = IF Len(f) + Len(s) < Len(f) THEN Len(f) ELSE Len(f) + Len(s)
        /\ \A k \in 1 .. Len(r) : r[k] = IF k <= Len(f) THEN f[k]
                                         ELSE IF k <= Len(f) + Len(s) THEN s[k - Len(f)] ELSE f[k]
    <2>1. LET y == FileSystem!Overwritten(f, Len(f), s) IN
          /\ y \in Seq(S)
          /\ Len(y) = IF Len(f) + Len(s) < Len(f) THEN Len(f) ELSE Len(f) + Len(s)
          /\ \A k \in 1 .. Len(y) : y[k] = IF k <= Len(f) THEN f[k]
                                           ELSE IF k <= Len(f) + Len(s) THEN s[k - Len(f)] ELSE f[k]
      <3>1. Len(f) <= Len(f)
        BY <1>1
      <3> QED BY ONLY f \in Seq(S), s \in Seq(S), <1>1, <3>1, OverwrittenIs
    <2> QED BY ONLY <2>1 DEF r
  <1>3. /\ c \in Seq(S) /\ Len(c) = Len(f) + Len(s)
        /\ \A k \in 1 .. Len(f) + Len(s) : c[k] = IF k <= Len(f) THEN f[k] ELSE s[k - Len(f)]
    BY ConcatProperties
  <1> HIDE DEF r, c
  <1>4. Len(r) = Len(f) + Len(s) /\ Len(c) = Len(f) + Len(s)
    BY <1>1, <1>2, <1>3
  <1>5. ASSUME NEW k \in 1 .. Len(r) PROVE r[k] = c[k]
    <2>1. k \in 1 .. Len(f) + Len(s) /\ k <= Len(f) + Len(s)
      BY <1>1, <1>4
    <2>2. r[k] = IF k <= Len(f) THEN f[k] ELSE s[k - Len(f)]
      BY <1>2, <2>1
    <2> QED BY <1>3, <2>1, <2>2
  <1>6. r = c
    BY <1>2, <1>3, <1>4, <1>5, SeqEqual
  <1> QED BY <1>6 DEF r, c

\* w written over g, and then s behind w.
LEMMA WrittenOn ==
  ASSUME NEW S, NEW w \in Seq(S), NEW g \in Seq(S), NEW s \in Seq(S)
  PROVE  FileSystem!Overwritten(w \o SubSeq(g, Len(w) + 1, Len(g)), Len(w), s)
           = (w \o s) \o SubSeq(g, Len(w \o s) + 1, Len(g))
  <1> DEFINE f == w \o SubSeq(g, Len(w) + 1, Len(g))
             v == w \o s
             r == FileSystem!Overwritten(f, Len(w), s)
             c == v \o SubSeq(g, Len(v) + 1, Len(g))
  <1>1. Len(w) \in Nat /\ Len(g) \in Nat /\ Len(s) \in Nat
    BY LenProperties
  <1>2. /\ f \in Seq(S) /\ Len(f) = IF Len(w) < Len(g) THEN Len(g) ELSE Len(w)
        /\ \A k \in 1 .. Len(f) : f[k] = IF k <= Len(w) THEN w[k] ELSE g[k]
    BY LayerIs
  <1>3. /\ v \in Seq(S) /\ Len(v) = Len(w) + Len(s)
        /\ \A k \in 1 .. Len(w) + Len(s) : v[k] = IF k <= Len(w) THEN w[k] ELSE s[k - Len(w)]
    BY ConcatProperties
  <1> HIDE DEF f, v
  <1>4. /\ c \in Seq(S) /\ Len(c) = IF Len(v) < Len(g) THEN Len(g) ELSE Len(v)
        /\ \A k \in 1 .. Len(c) : c[k] = IF k <= Len(v) THEN v[k] ELSE g[k]
    <2> HIDE DEF c
    <2>1. \A z \in Seq(S) : LET y == z \o SubSeq(g, Len(z) + 1, Len(g)) IN
            /\ y \in Seq(S) /\ Len(y) = IF Len(z) < Len(g) THEN Len(g) ELSE Len(z)
            /\ \A k \in 1 .. Len(y) : y[k] = IF k <= Len(z) THEN z[k] ELSE g[k]
      BY LayerIs
    <2>2. v \in Seq(S)
      BY <1>3
    <2> QED BY <2>1, <2>2 DEF c
  <1>5. /\ r \in Seq(S)
        /\ Len(r) = IF Len(w) + Len(s) < Len(f) THEN Len(f) ELSE Len(w) + Len(s)
        /\ \A k \in 1 .. Len(r) : r[k] = IF k <= Len(w) THEN f[k]
                                         ELSE IF k <= Len(w) + Len(s) THEN s[k - Len(w)] ELSE f[k]
    <2>1. Len(w) <= Len(f)
      BY <1>1, <1>2
    <2>2. Len(w) \in Nat /\ f \in Seq(S)
      BY <1>1, <1>2
    <2>3. LET y == FileSystem!Overwritten(f, Len(w), s) IN
          /\ y \in Seq(S)
          /\ Len(y) = IF Len(w) + Len(s) < Len(f) THEN Len(f) ELSE Len(w) + Len(s)
          /\ \A k \in 1 .. Len(y) : y[k] = IF k <= Len(w) THEN f[k]
                                           ELSE IF k <= Len(w) + Len(s) THEN s[k - Len(w)] ELSE f[k]
      BY ONLY s \in Seq(S), <2>1, <2>2, OverwrittenIs
    <2> QED BY ONLY <2>3 DEF r
  <1> HIDE DEF r, c
  <1>6. Len(r) = Len(c)
    BY <1>1, <1>2, <1>3, <1>4, <1>5
  <1>7. ASSUME NEW k \in 1 .. Len(r) PROVE r[k] = c[k]
    <2>1. k \in Nat /\ 1 <= k /\ k \in 1 .. Len(c)
      BY <1>1, <1>2, <1>5, <1>6
    <2>2. CASE k <= Len(w)
      <3>1. k \in 1 .. Len(f) /\ k <= Len(v) /\ k \in 1 .. Len(w) + Len(s)
        BY <1>1, <1>2, <1>3, <2>1, <2>2
      <3> QED BY <1>2, <1>3, <1>4, <1>5, <2>1, <2>2, <3>1
    <2>3. CASE ~(k <= Len(w)) /\ k <= Len(w) + Len(s)
      <3>1. k <= Len(v) /\ k \in 1 .. Len(w) + Len(s)
        BY <1>1, <1>3, <2>1, <2>3
      <3> QED BY <1>3, <1>4, <1>5, <2>1, <2>3, <3>1
    <2>4. CASE ~(k <= Len(w)) /\ ~(k <= Len(w) + Len(s))
      <3>1. ~(k <= Len(v)) /\ k \in 1 .. Len(f)
        BY <1>1, <1>2, <1>3, <1>5, <2>1, <2>4
      <3> QED BY <1>2, <1>4, <1>5, <2>1, <2>4, <3>1
    <2> QED BY <2>2, <2>3, <2>4
  <1>8. r = c
    BY <1>4, <1>5, <1>6, <1>7, SeqEqual
  <1> QED BY <1>8 DEF r, c, f, v

FileResults ==
  {"eOk", "eDoesNotExist", "eNotFound", "eOutOfCapactiy", "eInvalidPermission", "eAlreadyExist",
   "assert"}

FileHandles ==
  [name : FileNames, mode : FileSystem!Modes, size : Nat, at : Nat, found : Seq(Nat),
   wrote : Seq(Nat), reads : Seq(FileResults)]

Appending == {"eAppend", "eReadAndAppend"}

\* The mode empties the file.
Emptying == {"eWrite", "eReadAndOverwrite"}

\* What a handle knows of its file, and the thread that has it of what it read.
HandleOK(h, file, read) ==
  /\ h \in FileHandles /\ file \in Seq(Nat) /\ h.size = Len(h.found) /\ h.at <= Len(file)
  /\ h.mode \in {"eWrite", "eAppend"} => h.reads = <<>>
  /\ h.mode \in Emptying => h.found = <<>>
  /\ h.mode = "eRead" => h.wrote = <<>>
  /\ h.mode \in Emptying \/ (h.mode = "eReadAndWrite" /\ h.reads = <<>>) => h.at = Len(h.wrote)
  /\ h.mode \in Appending => file = h.found \o h.wrote
  /\ h.mode \notin Appending /\ (h.mode = "eReadAndWrite" => h.reads = <<>>) =>
       file = h.wrote \o SubSeq(h.found, Len(h.wrote) + 1, Len(h.found))
  /\ h.wrote = <<>> => /\ file = h.found
                       /\ h.reads = <<>> => h.at = 0
                       /\ Len(h.reads) = 1 => h.reads[1] = "eOk" /\ read = file

FileTypes ==
  /\ node \in [FileNames -> {NoFile, DirEntry} \cup Seq(Nat)]
  /\ opened \in [FileUsers -> FileHandles \cup {NoFile}]
  /\ dst \in [FileUsers -> Seq(Nat)]
  /\ DOMAIN lastError = FileUsers /\ lastError = [t \in FileUsers |-> lastError[t]]

\* Of two handles of one file neither writes.
Apart(t, u) ==
  t # u /\ opened[t] # NoFile /\ opened[u] # NoFile /\ opened[t].name = opened[u].name
    => opened[t].mode = "eRead"

FileInv ==
  /\ FileTypes
  /\ \A t \in FileUsers : opened[t] # NoFile => HandleOK(opened[t], node[opened[t].name], dst[t])
  /\ \A t, u \in FileUsers : Apart(t, u)

\* A step of t leaves alone what the others have open.
LEMMA OneUser ==
  ASSUME FileInv, FileTypes', NEW t \in FileUsers,
         \A u \in FileUsers \ {t} : opened'[u] = opened[u] /\ dst'[u] = dst[u],
         \A u \in FileUsers \ {t} :
           opened[u] # NoFile => node'[opened[u].name] = node[opened[u].name],
         opened'[t] # NoFile => HandleOK(opened'[t], node'[opened'[t].name], dst'[t]),
         \A u \in FileUsers \ {t} :
           opened'[t] # NoFile /\ opened[u] # NoFile /\ opened'[t].name = opened[u].name
             => opened'[t].mode = "eRead" /\ opened[u].mode = "eRead"
  PROVE  FileInv'
  <1>1. ASSUME NEW u \in FileUsers, opened'[u] # NoFile
        PROVE  HandleOK(opened'[u], node'[opened'[u].name], dst'[u])
    <2>1. CASE u = t
      BY <1>1, <2>1
    <2>2. CASE u # t
      <3>1. /\ opened'[u] = opened[u] /\ dst'[u] = dst[u] /\ opened[u] # NoFile
            /\ node'[opened[u].name] = node[opened[u].name]
        BY <1>1, <2>2
      <3>2. HandleOK(opened[u], node[opened[u].name], dst[u])
        BY <3>1 DEF FileInv
      <3> QED BY <3>1, <3>2
    <2> QED BY <2>1, <2>2
  <1>2. ASSUME NEW u \in FileUsers, NEW v \in FileUsers PROVE Apart(u, v)'
    BY DEF FileInv, Apart
  <1>3. \A u \in FileUsers : (opened[u] # NoFile => HandleOK(opened[u], node[opened[u].name], dst[u]))'
    <2>1. ASSUME NEW u \in FileUsers
          PROVE  (opened[u] # NoFile => HandleOK(opened[u], node[opened[u].name], dst[u]))'
      BY <1>1, <2>1 DEF HandleOK
    <2> QED BY <2>1
  <1> QED BY <1>2, <1>3 DEF FileInv

LEMMA NodesAre ==
  /\ NoFile # DirEntry /\ NoFile \notin Seq(Nat) /\ DirEntry \notin Seq(Nat)
  /\ <<>> \in Seq(Nat) /\ Len(<<>>) = 0
  BY FilesAssumption, EmptySeq

LEMMA OpenFiles ==
  ASSUME FileInv, NEW u \in FileUsers, opened[u] # NoFile
  PROVE  /\ opened[u] \in FileHandles /\ opened[u].name \in FileNames
         /\ node[opened[u].name] \in Seq(Nat)
  <1>1. HandleOK(opened[u], node[opened[u].name], dst[u])
    BY DEF FileInv
  <1>2. opened[u] \in FileHandles /\ node[opened[u].name] \in Seq(Nat)
    BY <1>1 DEF HandleOK
  <1> QED BY <1>2 DEF FileHandles

\* A name that nobody has open may stand for something else.
LEMMA NodeChanged ==
  ASSUME FileInv, NEW name \in FileNames, NEW n \in {NoFile, DirEntry},
         \A u \in FileUsers : opened[u] # NoFile => opened[u].name # name,
         node' = [node EXCEPT ![name] = n], UNCHANGED <<opened, lastError, dst>>
  PROVE  FileInv'
  <1>1. /\ node \in [FileNames -> {NoFile, DirEntry} \cup Seq(Nat)]
    BY DEF FileInv, FileTypes
  <1>2. FileTypes'
    <2>1. node' \in [FileNames -> {NoFile, DirEntry} \cup Seq(Nat)]
      BY <1>1
    <2> QED BY <2>1 DEF FileInv, FileTypes
  <1>3. \A u \in FileUsers : opened[u] # NoFile => node'[opened[u].name] = node[opened[u].name]
    BY <1>1, OpenFiles
  <1>4. ASSUME NEW u \in FileUsers
        PROVE  (opened[u] # NoFile => HandleOK(opened[u], node[opened[u].name], dst[u]))'
    <2>1. opened[u] # NoFile => HandleOK(opened[u], node[opened[u].name], dst[u])
      BY DEF FileInv
    <2>2. opened' = opened /\ dst' = dst
      OBVIOUS
    <2> QED BY ONLY <1>3, <2>1, <2>2, u \in FileUsers DEF HandleOK
  <1>5. \A t, u \in FileUsers : Apart(t, u)'
    BY DEF FileInv, Apart
  <1> QED BY <1>2, <1>4, <1>5 DEF FileInv

\* A call fails, and nothing but the error of the thread changes.
LEMMA CallFailed ==
  ASSUME FileInv, NEW t \in FileUsers, NEW e, lastError' = [lastError EXCEPT ![t] = e],
         UNCHANGED <<node, opened, dst>>
  PROVE  FileInv'
  <1>1. FileTypes'
    <2>1. DOMAIN lastError' = FileUsers /\ lastError' = [u \in FileUsers |-> lastError'[u]]
      BY DEF FileInv, FileTypes
    <2> QED BY <2>1 DEF FileInv, FileTypes
  <1>2. ASSUME NEW u \in FileUsers
        PROVE  (opened[u] # NoFile => HandleOK(opened[u], node[opened[u].name], dst[u]))'
    <2>1. opened[u] # NoFile => HandleOK(opened[u], node[opened[u].name], dst[u])
      BY DEF FileInv
    <2> QED BY <2>1 DEF HandleOK
  <1>3. \A u, v \in FileUsers : Apart(u, v)'
    BY DEF FileInv, Apart
  <1> QED BY <1>1, <1>2, <1>3 DEF FileInv

LEMMA DeleteFileInv ==
  ASSUME FileInv, NEW t \in FileUsers, NEW name \in FileNames, FileSystem!DeleteFile(t, name)
  PROVE  FileInv'
  <1> DEFINE failed == \E e : lastError' = [lastError EXCEPT ![t] = e] /\ node' = node
             inUse == \E u \in FileUsers : opened[u] # NoFile /\ opened[u].name = name
  <1>1. UNCHANGED <<opened, dst>>
    BY DEF FileSystem!DeleteFile
  <1>2. CASE node[name] = NoFile
    <2>1. failed
      BY <1>2, NodesAre, OpenFiles DEF FileSystem!DeleteFile, FileSystem!Fails
    <2> QED BY <1>1, <2>1, CallFailed
  <1>3. CASE node[name] = DirEntry
    <2>1. failed
      BY <1>3, NodesAre, OpenFiles DEF FileSystem!DeleteFile, FileSystem!Fails
    <2> QED BY <1>1, <2>1, CallFailed
  <1>4. CASE node[name] \notin {NoFile, DirEntry} /\ inUse
    <2>1. failed
      BY <1>4 DEF FileSystem!DeleteFile, FileSystem!Fails
    <2> QED BY <1>1, <2>1, CallFailed
  <1>5. CASE node[name] \notin {NoFile, DirEntry} /\ ~inUse
    <2>1. node' = [node EXCEPT ![name] = NoFile] /\ lastError' = lastError
      BY <1>5 DEF FileSystem!DeleteFile
    <2> QED BY <1>1, <1>5, <2>1, NodeChanged
  <1> QED BY <1>2, <1>3, <1>4, <1>5

LEMMA CreateDirInv ==
  ASSUME FileInv, NEW t \in FileUsers, NEW name \in FileNames, FileSystem!CreateDir(t, name)
  PROVE  FileInv'
  <1>1. UNCHANGED <<opened, dst>>
    BY DEF FileSystem!CreateDir
  <1>2. CASE node[name] # NoFile
    <2>1. \E e : lastError' = [lastError EXCEPT ![t] = e] /\ node' = node
      BY <1>2 DEF FileSystem!CreateDir, FileSystem!Fails
    <2> QED BY <1>1, <2>1, CallFailed
  <1>3. CASE node[name] = NoFile
    <2>1. node' = [node EXCEPT ![name] = DirEntry] /\ lastError' = lastError
      BY <1>3 DEF FileSystem!CreateDir
    <2>2. \A u \in FileUsers : opened[u] # NoFile => opened[u].name # name
      BY <1>3, OpenFiles, NodesAre
    <2> QED BY <1>1, <2>1, <2>2, NodeChanged
  <1> QED BY <1>2, <1>3

LEMMA DeleteDirInv ==
  ASSUME FileInv, NEW t \in FileUsers, NEW name \in FileNames, FileSystem!DeleteDir(t, name)
  PROVE  FileInv'
  <1>1. UNCHANGED <<opened, dst>>
    BY DEF FileSystem!DeleteDir
  <1>2. CASE node[name] # DirEntry
    <2>1. \E e : lastError' = [lastError EXCEPT ![t] = e] /\ node' = node
      BY <1>2 DEF FileSystem!DeleteDir, FileSystem!Fails, FileSystem!IsFile
    <2> QED BY <1>1, <2>1, CallFailed
  <1>3. CASE node[name] = DirEntry
    <2>1. node' = [node EXCEPT ![name] = NoFile] /\ lastError' = lastError
      BY <1>3, NodesAre DEF FileSystem!DeleteDir, FileSystem!IsFile
    <2>2. \A u \in FileUsers : opened[u] # NoFile => opened[u].name # name
      BY <1>3, OpenFiles, NodesAre
    <2> QED BY <1>1, <2>1, <2>2, NodeChanged
  <1> QED BY <1>2, <1>3

LEMMA CloseInv ==
  ASSUME FileInv, NEW t \in FileUsers, FileSystem!CloseHandle(t)
  PROVE  FileInv'
  <1>1. /\ opened' = [opened EXCEPT ![t] = NoFile] /\ dst' = [dst EXCEPT ![t] = <<>>]
        /\ UNCHANGED <<node, lastError>>
    BY DEF FileSystem!CloseHandle
  <1>2. opened \in [FileUsers -> FileHandles \cup {NoFile}] /\ dst \in [FileUsers -> Seq(Nat)]
    BY DEF FileInv, FileTypes
  <1>3. FileTypes'
    BY <1>1, <1>2, NodesAre DEF FileInv, FileTypes
  <1>4. opened'[t] = NoFile /\ \A u \in FileUsers \ {t} : opened'[u] = opened[u] /\ dst'[u] = dst[u]
    BY <1>1, <1>2
  <1> QED BY <1>1, <1>3, <1>4, OneUser

\* What a file that was just opened tells.
LEMMA FreshHandle ==
  ASSUME NEW name \in FileNames, NEW mode \in FileSystem!Modes, NEW file \in Seq(Nat),
         mode \in Emptying => file = <<>>, NEW read
  PROVE  HandleOK([name |-> name, mode |-> mode, size |-> Len(file), at |-> 0, found |-> file,
                   wrote |-> <<>>, reads |-> <<>>], file, read)
  <1> DEFINE h == [name |-> name, mode |-> mode, size |-> Len(file), at |-> 0, found |-> file,
                   wrote |-> <<>>, reads |-> <<>>]
  <1>1. <<>> \in Seq(Nat) /\ <<>> \in Seq(FileResults) /\ Len(<<>>) = 0 /\ Len(file) \in Nat
    BY EmptySeq, LenProperties
  <1>2. file = file \o <<>> /\ file = <<>> \o file
    BY ConcatEmptySeq
  <1>3. SubSeq(file, Len(<<>>) + 1, Len(file)) = file
    BY <1>1, WholeFile
  <1>4. /\ h \in FileHandles /\ h.name = name /\ h.mode = mode /\ h.size = Len(file) /\ h.at = 0
        /\ h.found = file /\ h.wrote = <<>> /\ h.reads = <<>>
    BY <1>1 DEF FileHandles
  <1> HIDE DEF h
  <1>5. HandleOK(h, file, read)
    BY <1>1, <1>2, <1>3, <1>4 DEF HandleOK
  <1> QED BY <1>5 DEF h

LEMMA OpenInv ==
  ASSUME FileInv, NEW t \in FileUsers, NEW name \in FileNames, NEW mode \in FileSystem!Modes,
         FileSystem!OpenFile(t, name, mode)
  PROVE  FileInv'
  <1> DEFINE how == FileSystem!toCreationDeposition(mode)
             exists == node[name] # NoFile
             file == IF how = "CREATE_ALWAYS" \/ ~exists THEN <<>> ELSE node[name]
             h == [name |-> name, mode |-> mode, size |-> Len(file), at |-> 0, found |-> file,
                   wrote |-> <<>>, reads |-> <<>>]
             failed == node' = node /\ opened' = opened
             conflict == FileSystem!Conflict(FileSystem!toAccessFlag(mode), name)
  <1>1. opened[t] = NoFile /\ dst' = [dst EXCEPT ![t] = <<>>]
    BY DEF FileSystem!OpenFile
  <1>2. /\ node \in [FileNames -> {NoFile, DirEntry} \cup Seq(Nat)]
        /\ opened \in [FileUsers -> FileHandles \cup {NoFile}] /\ dst \in [FileUsers -> Seq(Nat)]
        /\ DOMAIN lastError = FileUsers
    BY DEF FileInv, FileTypes
  <1>3. \E e : lastError' = [lastError EXCEPT ![t] = e]
    <2>1. CASE node[name] = DirEntry
      BY <2>1, NodesAre DEF FileSystem!OpenFile, FileSystem!Fails
    <2>2. CASE node[name] # DirEntry /\ how = "OPEN_EXISTING" /\ ~exists
      BY <2>2 DEF FileSystem!OpenFile, FileSystem!Fails
    <2>3. CASE node[name] # DirEntry /\ exists /\ conflict
      BY <2>3 DEF FileSystem!OpenFile, FileSystem!Fails
    <2>4. CASE /\ node[name] # DirEntry /\ ~(how = "OPEN_EXISTING" /\ ~exists)
               /\ ~(exists /\ conflict)
      BY <2>4 DEF FileSystem!OpenFile
    <2> QED BY <2>1, <2>2, <2>3, <2>4
  <1>4. \/ failed
        \/ /\ node[name] # DirEntry /\ (how = "OPEN_EXISTING" => exists)
           /\ ~(exists /\ conflict)
           /\ node' = [node EXCEPT ![name] = file]
           /\ opened' = [opened EXCEPT ![t] = h]
    <2>1. CASE node[name] = DirEntry
      BY <2>1, NodesAre DEF FileSystem!OpenFile, FileSystem!Fails
    <2>2. CASE node[name] # DirEntry /\ how = "OPEN_EXISTING" /\ ~exists
      BY <2>2 DEF FileSystem!OpenFile, FileSystem!Fails
    <2>3. CASE node[name] # DirEntry /\ exists /\ conflict
      BY <2>3 DEF FileSystem!OpenFile, FileSystem!Fails
    <2>4. CASE /\ node[name] # DirEntry /\ ~(how = "OPEN_EXISTING" /\ ~exists)
               /\ ~(exists /\ conflict)
      BY <2>4 DEF FileSystem!OpenFile, FileSystem!Opened
    <2> QED BY <2>1, <2>2, <2>3, <2>4
  <1>5. file \in Seq(Nat) \/ node[name] = DirEntry
    BY <1>2, NodesAre
  <1>6. /\ \A u \in FileUsers \ {t} : dst'[u] = dst[u]
        /\ dst' \in [FileUsers -> Seq(Nat)]
        /\ DOMAIN lastError' = FileUsers /\ lastError' = [u \in FileUsers |-> lastError'[u]]
    BY <1>1, <1>2, <1>3, NodesAre
  <1>7. CASE failed
    <2>1. FileTypes'
      BY <1>2, <1>6, <1>7 DEF FileTypes
    <2> QED BY <1>1, <1>6, <1>7, <2>1, OneUser
  <1>8. CASE /\ node[name] # DirEntry /\ (how = "OPEN_EXISTING" => exists)
             /\ ~(exists /\ conflict)
             /\ node' = [node EXCEPT ![name] = file]
             /\ opened' = [opened EXCEPT ![t] = h]
    <2>1. file \in Seq(Nat)
      BY <1>5, <1>8
    <2>2. mode \in Emptying => file = <<>>
      BY DEF Emptying, FileSystem!toCreationDeposition
    <2>3. HandleOK(h, file, dst'[t])
      <3> HIDE DEF file
      <3> QED BY <2>1, <2>2, FreshHandle
    <2>4. h.name = name /\ h.mode = mode /\ h \in FileHandles
      BY <2>3 DEF HandleOK
    <2> HIDE DEF h
    <2>5. FileTypes'
      <3>1. node' \in [FileNames -> {NoFile, DirEntry} \cup Seq(Nat)]
        BY <1>2, <1>8, <2>1
      <3>2. opened' \in [FileUsers -> FileHandles \cup {NoFile}]
        BY <1>2, <1>8, <2>4
      <3> QED BY <1>6, <3>1, <3>2 DEF FileTypes
    <2>6. /\ opened'[t] = h /\ node'[name] = file
          /\ \A u \in FileUsers \ {t} : opened'[u] = opened[u]
          /\ \A n \in FileNames \ {name} : node'[n] = node[n]
      BY <1>2, <1>8
    <2>7. ASSUME NEW u \in FileUsers \ {t}, opened[u] # NoFile, opened[u].name = name
          PROVE  mode = "eRead" /\ opened[u].mode = "eRead" /\ file = node[name]
      <3>1. node[name] \in Seq(Nat) /\ exists /\ opened[u].mode \in FileSystem!Modes
        BY <2>7, OpenFiles, NodesAre DEF FileHandles
      <3>2. /\ FileSystem!toAccessFlag(mode) \subseteq {"read"}
            /\ FileSystem!toAccessFlag(opened[u].mode) \subseteq {"read"}
        BY <1>8, <2>7, <3>1 DEF FileSystem!Conflict, FileSystem!Share
      <3>3. \A m \in FileSystem!Modes : FileSystem!toAccessFlag(m) \subseteq {"read"} => m = "eRead"
        BY DEF FileSystem!Modes, FileSystem!toAccessFlag
      <3>4. mode = "eRead" /\ opened[u].mode = "eRead"
        BY <3>1, <3>2, <3>3
      <3>5. how = "OPEN_EXISTING"
        BY <3>4 DEF FileSystem!toCreationDeposition
      <3> QED BY <3>1, <3>4, <3>5
    <2>8. \A u \in FileUsers \ {t} : opened[u] # NoFile => node'[opened[u].name] = node[opened[u].name]
      BY <2>6, <2>7, OpenFiles
    <2> QED BY <1>6, <2>3, <2>4, <2>5, <2>6, <2>7, <2>8, OneUser
  <1> QED BY <1>4, <1>7, <1>8

LEMMA ResultIs ==
  ASSUME NEW e
  PROVE  FileSystem!winErrorToResult(e) \in FileResults
  BY DEF FileSystem!winErrorToResult, FileResults

LEMMA Zeros ==
  ASSUME NEW n \in Nat
  PROVE  [k \in 1 .. n |-> 0] \in Seq(Nat) /\ Len([k \in 1 .. n |-> 0]) = n
  <1>1. [k \in 1 .. n |-> 0] \in [1 .. n -> Nat]
    OBVIOUS
  <1>2. [k \in 1 .. n |-> 0] \in Seq(Nat)
    BY <1>1, SeqDef
  <1> QED BY <1>2

\* The bytes that ReadFile reads of f from a place on, if n are asked for.
ReadAt(f, a, n) ==
  LET left == SubSeq(f, a + 1, Len(f))
  IN  IF Len(left) < n THEN left ELSE SubSeq(left, 1, n)

\* What was read, with zeros behind it.
Padded(got, n) == got \o [k \in 1 .. n - Len(got) |-> 0]

LEMMA ReadIs ==
  ASSUME NEW f \in Seq(Nat), NEW a \in Nat, a <= Len(f), NEW n \in Nat
  PROVE  LET got == ReadAt(f, a, n) IN
         /\ Len(got) \in Nat /\ a + Len(got) <= Len(f) /\ Len(got) <= n
         /\ Padded(got, n) \in Seq(Nat)
         /\ a = 0 /\ n = Len(f) => Len(got) = n /\ Padded(got, n) = f
  <1> DEFINE got == ReadAt(f, a, n)
             left == SubSeq(f, a + 1, Len(f))
             m == n - Len(got)
             zeros == [k \in 1 .. m |-> 0]
  <1>1. Len(f) \in Nat
    BY LenProperties
  <1>2. left \in Seq(Nat) /\ Len(left) = Len(f) - a /\ Len(left) \in Nat
    <2>1. left \in Seq(Nat) /\ Len(left) = IF a < Len(f) THEN Len(f) - a ELSE 0
      BY RestOfSeq
    <2> QED BY <1>1, <2>1
  <1>3. got = IF Len(left) < n THEN left ELSE SubSeq(left, 1, n)
    BY DEF ReadAt
  <1> HIDE DEF got
  <1>4. a = 0 => left = f
    <2>1. ASSUME a = 0 PROVE left = f
      <3>1. a + 1 = 1
        BY <2>1
      <3>2. SubSeq(f, 1, Len(f)) = f
        BY WholeFile
      <3> QED BY <3>1, <3>2
    <2> QED BY <2>1
  <1> HIDE DEF left
  <1>5. ~(Len(left) < n) => /\ SubSeq(left, 1, n) \in Seq(Nat) /\ Len(SubSeq(left, 1, n)) = n
    <2> SUFFICES ASSUME ~(Len(left) < n)
                 PROVE  SubSeq(left, 1, n) \in Seq(Nat) /\ Len(SubSeq(left, 1, n)) = n
      OBVIOUS
    <2>1. 1 \in Nat /\ 1 <= 1 /\ n <= Len(left) /\ 1 <= n + 1
      BY <1>2
    <2>2. SubSeq(left, 1, n) \in Seq(Nat) /\ Len(SubSeq(left, 1, n)) = n - 1 + 1
      BY <1>2, <2>1, PartOfSeq
    <2> QED BY <2>2
  <1>6. /\ got \in Seq(Nat) /\ Len(got) \in Nat
        /\ Len(got) = IF Len(left) < n THEN Len(left) ELSE n
    BY <1>2, <1>3, <1>5
  <1>7. a + Len(got) <= Len(f) /\ Len(got) <= n /\ m \in Nat
    BY <1>1, <1>2, <1>6
  <1>8. got \o zeros \in Seq(Nat)
    <2> HIDE DEF m
    <2> QED BY <1>6, <1>7, Zeros, ConcatProperties
  <1>9. ASSUME a = 0, n = Len(f) PROVE Len(got) = n /\ got \o zeros = f
    <2>1. ~(Len(left) < n) /\ left = f
      BY <1>1, <1>2, <1>4, <1>9
    <2>2. Len(got) = n /\ got = f
      BY <1>3, <1>6, <1>9, <2>1, WholeFile
    <2>3. m = 0
      BY <1>1, <1>9, <2>2
    <2>4. zeros = <<>>
      <3> HIDE DEF m
      <3>1. zeros \in Seq(Nat) /\ Len(zeros) = 0
        BY <2>3, Zeros
      <3> QED BY <3>1, EmptySeq
    <2>5. got \o <<>> = got
      BY <1>6, ConcatEmptySeq
    <2> QED BY <2>2, <2>4, <2>5
  <1> QED BY <1>6, <1>7, <1>8, <1>9 DEF Padded, got

\* What was read matters only to a handle that may read.
LEMMA ReadAnything ==
  ASSUME NEW h, NEW file, NEW a, NEW b, HandleOK(h, file, a), h.reads = <<>>, Len(h.reads) = 0
  PROVE  HandleOK(h, file, b)
  <1>1. h.wrote = <<>> => /\ file = h.found
                          /\ h.reads = <<>> => h.at = 0
                          /\ Len(h.reads) = 1 => h.reads[1] = "eOk" /\ b = file
    <2>1. Len(h.reads) # 1
      OBVIOUS
    <2>2. h.wrote = <<>> => file = h.found /\ h.at = 0
      BY DEF HandleOK
    <2> QED BY <2>1, <2>2
  <1> QED BY <1>1 DEF HandleOK

\* A handle that read something.
LEMMA HandleRead ==
  ASSUME NEW h, NEW file, NEW read, HandleOK(h, file, read), h.mode \notin {"eWrite", "eAppend"},
         NEW n \in Nat, h.at + n <= Len(file), n <= h.size, NEW r \in FileResults, NEW what,
         h.at = 0 /\ h.size = Len(file) => r = "eOk" /\ what = file
  PROVE  HandleOK([h EXCEPT !.at = @ + n, !.reads = Append(@, r)], file, what)
  <1> DEFINE g == [h EXCEPT !.at = @ + n, !.reads = Append(@, r)]
  <1>1. /\ file \in Seq(Nat) /\ h \in FileHandles /\ h.at \in Nat /\ h.size \in Nat
        /\ h.found \in Seq(Nat) /\ h.wrote \in Seq(Nat) /\ h.reads \in Seq(FileResults)
        /\ h.at <= Len(file) /\ h.size = Len(h.found)
    BY DEF HandleOK, FileHandles
  <1>2. /\ Append(h.reads, r) \in Seq(FileResults) /\ Append(h.reads, r) # <<>>
        /\ Len(h.reads) \in Nat /\ Len(Append(h.reads, r)) = Len(h.reads) + 1
        /\ Append(h.reads, r)[Len(h.reads) + 1] = r
    <2>1. /\ Append(h.reads, r) \in Seq(FileResults) /\ Len(h.reads) \in Nat
          /\ Len(Append(h.reads, r)) = Len(h.reads) + 1
          /\ Append(h.reads, r)[Len(h.reads) + 1] = r
      BY <1>1, AppendProperties, LenProperties
    <2>2. Append(h.reads, r) # <<>>
      <3> DEFINE k == Len(h.reads)
                 s == Append(h.reads, r)
      <3>1. k \in Nat /\ Len(s) = k + 1 /\ s \in Seq(FileResults)
        BY <2>1
      <3> HIDE DEF k, s
      <3>2. Len(s) # 0
        BY <3>1
      <3>3. s # <<>>
        BY <3>1, <3>2, EmptySeq
      <3> QED BY <3>3 DEF s
    <2> QED BY <2>1, <2>2
  <1>3. /\ g \in FileHandles /\ g.name = h.name /\ g.mode = h.mode /\ g.size = h.size
        /\ g.found = h.found /\ g.wrote = h.wrote /\ g.at = h.at + n
        /\ g.reads = Append(h.reads, r)
    <2>1. h.at + n \in Nat
      BY <1>1
    <2> QED BY <1>1, <1>2, <2>1 DEF FileHandles
  <1> HIDE DEF g
  <1>4. ASSUME h.wrote = <<>>, Len(g.reads) = 1 PROVE g.reads[1] = "eOk" /\ what = file
    <2>1. Len(h.reads) = 0
      BY <1>2, <1>3, <1>4
    <2>2. h.reads = <<>>
      BY <1>1, <2>1, EmptySeq
    <2>3. h.at = 0 /\ file = h.found
      BY <1>4, <2>2 DEF HandleOK
    <2>4. r = "eOk" /\ what = file
      BY <1>1, <2>3
    <2>5. g.reads[1] = r
      BY <1>2, <1>3, <2>1
    <2> QED BY <2>4, <2>5
  <1>5. g.mode \in Emptying => g.at = Len(g.wrote)
    <2>1. ASSUME g.mode \in Emptying PROVE g.at = Len(g.wrote)
      <3>1. h.size = 0 /\ h.at = Len(h.wrote)
        BY <1>1, <1>3, <2>1, EmptySeq DEF HandleOK
      <3>2. n = 0
        BY <3>1
      <3> QED BY <1>1, <1>3, <3>1, <3>2
    <2> QED BY <2>1
  <1>6. /\ g.mode \in Emptying => g.found = <<>>
        /\ g.mode = "eRead" => g.wrote = <<>>
        /\ g.mode \in Appending => file = g.found \o g.wrote
        /\ g.wrote = <<>> => file = g.found
        /\ g.mode \notin {"eWrite", "eAppend"} /\ g.size = Len(g.found) /\ g.at <= Len(file)
    BY <1>3 DEF HandleOK
  <1>7. g.mode \notin Appending /\ g.mode # "eReadAndWrite" =>
          file = g.wrote \o SubSeq(g.found, Len(g.wrote) + 1, Len(g.found))
    BY <1>3 DEF HandleOK
  <1>8. g.reads # <<>>
    BY <1>2, <1>3
  <1>9. HandleOK(g, file, what)
    BY ONLY <1>1, <1>3, <1>4, <1>5, <1>6, <1>7, <1>8 DEF HandleOK
  <1> QED BY <1>9 DEF g

LEMMA ReadInv ==
  ASSUME FileInv, NEW t \in FileUsers, FileSystem!Read(t)
  PROVE  FileInv'
  <1> DEFINE h == opened[t]
             file == node[h.name]
             got == ReadAt(file, h.at, h.size)
             r == IF Len(got) = h.size THEN "eOk" ELSE FileSystem!winErrorToResult(lastError[t])
             padded == Padded(got, h.size)
  <1>1. /\ h # NoFile /\ node' = node /\ lastError' = lastError
        /\ h.mode \in {"eWrite", "eAppend"} =>
             dst' = [dst EXCEPT ![t] = [k \in 1 .. h.size |-> 0]] /\ opened' = opened
        /\ h.mode \notin {"eWrite", "eAppend"} =>
             /\ dst' = [dst EXCEPT ![t] = padded]
             /\ opened' = [opened EXCEPT ![t].at = @ + Len(got), ![t].reads = Append(@, r)]
    BY DEF FileSystem!Read, Padded, ReadAt
  <1>2. HandleOK(h, file, dst[t]) /\ h \in FileHandles /\ h.name \in FileNames /\ file \in Seq(Nat)
    BY <1>1, OpenFiles DEF FileInv
  <1>3. /\ node \in [FileNames -> {NoFile, DirEntry} \cup Seq(Nat)]
        /\ opened \in [FileUsers -> FileHandles \cup {NoFile}] /\ dst \in [FileUsers -> Seq(Nat)]
        /\ DOMAIN lastError = FileUsers /\ lastError = [u \in FileUsers |-> lastError[u]]
    BY DEF FileInv, FileTypes
  <1>4. h.size \in Nat /\ h.at \in Nat /\ h.at <= Len(file)
    BY <1>2 DEF HandleOK, FileHandles
  <1>5. CASE h.mode \in {"eWrite", "eAppend"}
    <2> DEFINE zeros == [k \in 1 .. h.size |-> 0]
    <2>1. zeros \in Seq(Nat)
      BY <1>4, Zeros
    <2>2. dst' \in [FileUsers -> Seq(Nat)] /\ \A u \in FileUsers \ {t} : dst'[u] = dst[u]
      <3>1. dst' = [dst EXCEPT ![t] = zeros]
        BY <1>1, <1>5
      <3> HIDE DEF zeros
      <3> QED BY <1>3, <2>1, <3>1
    <2>3. FileTypes'
      BY <1>1, <1>3, <1>5, <2>2 DEF FileTypes
    <2>4. HandleOK(h, file, dst'[t])
      <3>1. h.reads = <<>> /\ Len(h.reads) = 0
        BY <1>2, <1>5, EmptySeq DEF HandleOK
      <3> HIDE DEF h, file
      <3> QED BY ONLY <1>2, <3>1, ReadAnything
    <2>5. opened' = opened /\ node' = node /\ opened'[t] = h /\ node'[opened'[t].name] = file
      BY <1>1, <1>5
    <2>6. \A u \in FileUsers \ {t} : opened[u] # NoFile /\ h.name = opened[u].name
                                       => h.mode = "eRead" /\ opened[u].mode = "eRead"
      BY <1>1 DEF FileInv, Apart
    <2> HIDE DEF h, file
    <2> QED BY <2>2, <2>3, <2>4, <2>5, <2>6, OneUser
  <1>6. CASE h.mode \notin {"eWrite", "eAppend"}
    <2> DEFINE g == [h EXCEPT !.at = @ + Len(got), !.reads = Append(@, r)]
    <2>1. /\ Len(got) \in Nat /\ h.at + Len(got) <= Len(file) /\ Len(got) <= h.size
          /\ padded \in Seq(Nat)
          /\ h.at = 0 /\ h.size = Len(file) => Len(got) = h.size /\ padded = file
      <3> HIDE DEF h, file
      <3> QED BY <1>2, <1>4, ReadIs
    <2>2. r \in FileResults /\ (Len(got) = h.size => r = "eOk")
      BY ResultIs DEF FileResults
    <2>3. opened' = [opened EXCEPT ![t] = g] /\ dst' = [dst EXCEPT ![t] = padded]
      BY <1>1, <1>3, <1>6
    <2> HIDE DEF got, r, padded
    <2>4. HandleOK(g, file, padded)
      <3> HIDE DEF h, file
      <3> QED BY <1>2, <1>6, <2>1, <2>2, HandleRead
    <2>5. g \in FileHandles /\ g.name = h.name /\ g.mode = h.mode
      BY <1>2, <2>4 DEF HandleOK, FileHandles
    <2> HIDE DEF g
    <2>6. /\ opened' \in [FileUsers -> FileHandles \cup {NoFile}] /\ dst' \in [FileUsers -> Seq(Nat)]
          /\ opened'[t] = g /\ dst'[t] = padded
          /\ \A u \in FileUsers \ {t} : opened'[u] = opened[u] /\ dst'[u] = dst[u]
      BY <1>3, <2>1, <2>3, <2>5
    <2>7. FileTypes'
      BY <1>1, <1>3, <2>6 DEF FileTypes
    <2>8. \A u \in FileUsers \ {t} : opened[u] # NoFile /\ g.name = opened[u].name
                                       => g.mode = "eRead" /\ opened[u].mode = "eRead"
      BY <1>1, <2>5 DEF FileInv, Apart
    <2>9. node' = node /\ node'[g.name] = file
      BY <1>1, <2>5
    <2> HIDE DEF h, file
    <2> QED BY <2>4, <2>6, <2>7, <2>8, <2>9, OneUser
  <1> QED BY <1>5, <1>6

\* A handle that wrote something behind what it wrote before, or behind the file.
LEMMA HandleWrote ==
  ASSUME NEW h, NEW file, NEW read, HandleOK(h, file, read), h.mode # "eRead",
         NEW some \in Seq(Nat), NEW a \in Nat,
         a = (IF h.mode \in Appending THEN Len(file) ELSE h.at), NEW at \in Nat,
         at = (IF some = <<>> THEN h.at ELSE a + Len(some))
  PROVE  HandleOK([h EXCEPT !.at = at, !.wrote = @ \o some], FileSystem!Overwritten(file, a, some), read)
  <1> DEFINE g == [h EXCEPT !.at = at, !.wrote = @ \o some]
             w == h.wrote \o some
             new == FileSystem!Overwritten(file, a, some)
  <1>1. /\ file \in Seq(Nat) /\ h \in FileHandles /\ h.at \in Nat /\ h.found \in Seq(Nat)
        /\ h.wrote \in Seq(Nat) /\ h.reads \in Seq(FileResults)
        /\ h.at <= Len(file) /\ h.size = Len(h.found)
    BY DEF HandleOK, FileHandles
  <1>2. Len(file) \in Nat /\ Len(some) \in Nat /\ Len(h.wrote) \in Nat /\ a <= Len(file)
        /\ (some = <<>> <=> Len(some) = 0)
    BY <1>1, LenProperties, EmptySeq
  <1>3. w \in Seq(Nat) /\ Len(w) = Len(h.wrote) + Len(some)
    BY <1>1, ConcatProperties
  <1>4. w = <<>> => some = <<>> /\ h.wrote = <<>>
    <2>1. ASSUME w = <<>> PROVE some = <<>> /\ h.wrote = <<>>
      <3>1. Len(h.wrote) + Len(some) = 0
        BY <1>3, <2>1, EmptySeq
      <3>2. Len(h.wrote) = 0 /\ Len(some) = 0
        BY <1>2, <3>1
      <3> QED BY <1>1, <1>2, <3>2, EmptySeq
    <2> QED BY <2>1
  <1>5. /\ g \in FileHandles /\ g.name = h.name /\ g.mode = h.mode /\ g.size = h.size /\ g.at = at
        /\ g.found = h.found /\ g.wrote = w /\ g.reads = h.reads
    BY <1>1, <1>3 DEF FileHandles
  <1>6. new \in Seq(Nat) /\ Len(new) = IF a + Len(some) < Len(file) THEN Len(file) ELSE a + Len(some)
    <2>1. PICK f \in Seq(Nat) : f = file
      BY <1>1
    <2>2. a <= Len(f)
      BY <1>2, <2>1
    <2>3. LET r == FileSystem!Overwritten(f, a, some) IN
          r \in Seq(Nat) /\ Len(r) = IF a + Len(some) < Len(f) THEN Len(f) ELSE a + Len(some)
      BY <2>2, OverwrittenIs
    <2> QED BY ONLY <2>1, <2>3 DEF new
  <1>7. some = <<>> => new = file /\ w = h.wrote /\ at = h.at
    <2>1. h.wrote \o <<>> = h.wrote
      BY <1>1, ConcatEmptySeq
    <2>2. FileSystem!Overwritten(file, a, <<>>) = file
      BY <1>1, <1>2, NothingWritten
    <2> QED BY <2>1, <2>2
  <1>8. h.mode \in Appending => new = h.found \o w
    <2>1. ASSUME h.mode \in Appending PROVE new = h.found \o w
      <3>1. file = h.found \o h.wrote /\ a = Len(file)
        BY <2>1 DEF HandleOK
      <3>2. new = file \o some
        BY <1>1, <3>1, WrittenAtEnd
      <3>3. (h.found \o h.wrote) \o some = h.found \o (h.wrote \o some)
        <4>1. PICK f \in Seq(Nat), w0 \in Seq(Nat) : f = h.found /\ w0 = h.wrote
          BY <1>1
        <4>2. (f \o w0) \o some = f \o (w0 \o some)
          BY ConcatAssociative
        <4> QED BY <4>1, <4>2
      <3> QED BY <3>1, <3>2, <3>3
    <2> QED BY <2>1
  <1>9. h.mode \notin Appending /\ (h.mode = "eReadAndWrite" => h.reads = <<>>) =>
          /\ new = w \o SubSeq(h.found, Len(w) + 1, Len(h.found))
          /\ h.at = Len(h.wrote)
    <2> SUFFICES ASSUME h.mode \notin Appending, h.mode = "eReadAndWrite" => h.reads = <<>>
                 PROVE  /\ new = w \o SubSeq(h.found, Len(w) + 1, Len(h.found))
                        /\ h.at = Len(h.wrote)
      OBVIOUS
    <2>1. h.mode \in Emptying \/ h.mode = "eReadAndWrite"
      BY <1>1 DEF FileHandles, FileSystem!Modes, Appending, Emptying
    <2>2. h.at = Len(h.wrote) /\ file = h.wrote \o SubSeq(h.found, Len(h.wrote) + 1, Len(h.found))
      BY <2>1 DEF HandleOK
    <2>3. a = Len(h.wrote)
      BY <2>2
    <2>4. new = FileSystem!Overwritten(h.wrote \o SubSeq(h.found, Len(h.wrote) + 1, Len(h.found)),
                                       Len(h.wrote), some)
      BY <2>2, <2>3
    <2>5. PICK f \in Seq(Nat), w0 \in Seq(Nat) : f = h.found /\ w0 = h.wrote
      BY <1>1
    <2>6. FileSystem!Overwritten(w0 \o SubSeq(f, Len(w0) + 1, Len(f)), Len(w0), some)
            = (w0 \o some) \o SubSeq(f, Len(w0 \o some) + 1, Len(f))
      BY WrittenOn
    <2> HIDE DEF new
    <2>7. new = w \o SubSeq(h.found, Len(w) + 1, Len(h.found))
      BY ONLY <2>4, <2>5, <2>6 DEF w
    <2> QED BY <2>2, <2>7
  <1>10. at <= Len(new)
    BY <1>1, <1>2, <1>6
  <1> HIDE DEF g, w, new
  <1>11. g.mode \in Emptying \/ (g.mode = "eReadAndWrite" /\ g.reads = <<>>) => g.at = Len(g.wrote)
    <2>1. ASSUME g.mode \in Emptying \/ (g.mode = "eReadAndWrite" /\ g.reads = <<>>)
          PROVE  g.at = Len(g.wrote)
      <3>1. h.at = Len(h.wrote) /\ a = h.at
        BY <1>5, <2>1 DEF HandleOK, Appending, Emptying
      <3>2. CASE some = <<>>
        BY <1>5, <1>7, <3>1, <3>2
      <3>3. CASE some # <<>>
        <4>1. at = Len(h.wrote) + Len(some)
          BY <3>1, <3>3
        <4> QED BY <1>3, <1>5, <4>1
      <3> QED BY <3>2, <3>3
    <2> QED BY <2>1
  <1>12. g.wrote = <<>> => /\ new = g.found
                           /\ g.reads = <<>> => g.at = 0
                           /\ Len(g.reads) = 1 => g.reads[1] = "eOk" /\ read = new
    <2>1. ASSUME g.wrote = <<>> PROVE new = file /\ h.wrote = <<>> /\ g.at = h.at
      BY <1>4, <1>5, <1>7, <2>1
    <2>2. h.wrote = <<>> => /\ file = h.found
                            /\ h.reads = <<>> => h.at = 0
                            /\ Len(h.reads) = 1 => h.reads[1] = "eOk" /\ read = file
      BY DEF HandleOK
    <2> QED BY ONLY <1>5, <2>1, <2>2
  <1>13. /\ g.mode \in {"eWrite", "eAppend"} => g.reads = <<>>
         /\ g.mode \in Emptying => g.found = <<>>
         /\ g.mode # "eRead" /\ g.size = Len(g.found)
    BY <1>5 DEF HandleOK
  <1>14. HandleOK(g, new, read)
    BY ONLY <1>5, <1>6, <1>8, <1>9, <1>10, <1>11, <1>12, <1>13 DEF HandleOK
  <1> QED BY <1>14 DEF g, new

LEMMA WriteInv ==
  ASSUME FileInv, NEW t \in FileUsers, NEW bytes \in FileWrites, FileSystem!Write(t, bytes)
  PROVE  FileInv'
  <1> DEFINE h == opened[t]
             file == node[h.name]
             a == IF "append" \in FileSystem!toAccessFlag(h.mode) THEN Len(file) ELSE h.at
  <1>1. PICK n \in 0 .. Len(bytes) :
          /\ node' = [node EXCEPT ![h.name] = FileSystem!Overwritten(@, a, SubSeq(bytes, 1, n))]
          /\ opened' = [opened EXCEPT ![t].at = IF n = 0 THEN @ ELSE a + n,
                                      ![t].wrote = @ \o SubSeq(bytes, 1, n)]
          /\ lastError' = [lastError EXCEPT ![t] = IF n = Len(bytes) THEN @ ELSE "DISK_FULL"]
    BY DEF FileSystem!Write
  <1>2. h # NoFile /\ h.mode # "eRead" /\ dst' = dst
    BY DEF FileSystem!Write
  <1> DEFINE some == SubSeq(bytes, 1, n)
             at == IF n = 0 THEN h.at ELSE a + n
             g == [h EXCEPT !.at = at, !.wrote = @ \o some]
             new == FileSystem!Overwritten(file, a, some)
  <1>3. HandleOK(h, file, dst[t]) /\ h \in FileHandles /\ h.name \in FileNames /\ file \in Seq(Nat)
    BY <1>2, OpenFiles DEF FileInv
  <1>4. /\ node \in [FileNames -> {NoFile, DirEntry} \cup Seq(Nat)]
        /\ opened \in [FileUsers -> FileHandles \cup {NoFile}] /\ dst \in [FileUsers -> Seq(Nat)]
        /\ DOMAIN lastError = FileUsers /\ lastError = [u \in FileUsers |-> lastError[u]]
    BY DEF FileInv, FileTypes
  <1>5. some \in Seq(Nat) /\ Len(some) = n /\ n \in Nat
    <2>1. bytes \in Seq(Nat) /\ Len(bytes) \in Nat
      BY FilesAssumption, LenProperties
    <2>2. n \in Nat /\ 1 \in Nat /\ 1 <= 1 /\ n <= Len(bytes) /\ 1 <= n + 1 /\ n - 1 + 1 = n
      BY <2>1
    <2>3. some \in Seq(Nat) /\ Len(some) = n - 1 + 1
      BY <2>1, <2>2, PartOfSeq
    <2> QED BY <2>2, <2>3
  <1>6. a \in Nat /\ a = (IF h.mode \in Appending THEN Len(file) ELSE h.at) /\ h.at \in Nat
    <2>1. h.mode \in FileSystem!Modes /\ h.at \in Nat /\ Len(file) \in Nat
      BY <1>3, LenProperties DEF FileHandles
    <2>2. "append" \in FileSystem!toAccessFlag(h.mode) <=> h.mode \in Appending
      BY <2>1 DEF FileSystem!Modes, FileSystem!toAccessFlag, Appending
    <2> QED BY <2>1, <2>2
  <1>7. opened' = [opened EXCEPT ![t] = g] /\ node' = [node EXCEPT ![h.name] = new]
    BY <1>1, <1>4
  <1> HIDE DEF a, some, new
  <1>8. at \in Nat /\ at = (IF some = <<>> THEN h.at ELSE a + Len(some))
    <2>1. some = <<>> <=> n = 0
      BY <1>5, EmptySeq
    <2> QED BY <1>5, <1>6, <2>1
  <1> HIDE DEF at
  <1>9. HandleOK(g, new, dst[t])
    <2> HIDE DEF h, file
    <2> QED BY <1>2, <1>3, <1>5, <1>6, <1>8, HandleWrote DEF new
  <1>10. g \in FileHandles /\ g.name = h.name /\ new \in Seq(Nat)
    BY <1>3, <1>9 DEF HandleOK, FileHandles
  <1> HIDE DEF g
  <1>11. /\ opened' \in [FileUsers -> FileHandles \cup {NoFile}] /\ opened'[t] = g
         /\ node' \in [FileNames -> {NoFile, DirEntry} \cup Seq(Nat)] /\ node'[h.name] = new
         /\ \A u \in FileUsers \ {t} : opened'[u] = opened[u]
         /\ \A m \in FileNames \ {h.name} : node'[m] = node[m]
    BY <1>3, <1>4, <1>7, <1>10
  <1>12. FileTypes'
    <2>1. DOMAIN lastError' = FileUsers /\ lastError' = [u \in FileUsers |-> lastError'[u]]
      BY <1>1, <1>4
    <2> QED BY <1>2, <1>4, <1>11, <2>1 DEF FileTypes
  <1>13. \A u \in FileUsers \ {t} : opened[u] # NoFile => opened[u].name # h.name
    BY <1>2 DEF FileInv, Apart
  <1>14. \A u \in FileUsers \ {t} : opened[u] # NoFile => node'[opened[u].name] = node[opened[u].name]
    BY <1>11, <1>13, OpenFiles
  <1> QED BY <1>2, <1>9, <1>10, <1>11, <1>12, <1>13, <1>14, OneUser

LEMMA FilesStep ==
  ASSUME FileInv, [FileSystem!Next]_(FileSystem!vars)
  PROVE  FileInv'
  <1>1. CASE UNCHANGED FileSystem!vars
    <2>1. node' = node /\ opened' = opened /\ dst' = dst /\ lastError' = lastError
      BY <1>1 DEF FileSystem!vars
    <2>2. FileTypes'
      BY <2>1 DEF FileInv, FileTypes
    <2>3. ASSUME NEW u \in FileUsers
          PROVE  (opened[u] # NoFile => HandleOK(opened[u], node[opened[u].name], dst[u]))'
      <3>1. opened[u] # NoFile => HandleOK(opened[u], node[opened[u].name], dst[u])
        BY DEF FileInv
      <3> QED BY ONLY <2>1, <3>1 DEF HandleOK
    <2>4. \A u, v \in FileUsers : Apart(u, v)'
      BY <2>1 DEF FileInv, Apart
    <2> QED BY <2>2, <2>3, <2>4 DEF FileInv
  <1>2. CASE FileSystem!Next
    BY <1>2, OpenInv, DeleteFileInv, CreateDirInv, DeleteDirInv, ReadInv, CloseInv, WriteInv
    DEF FileSystem!Next
  <1> QED BY <1>1, <1>2

LEMMA FilesStart ==
  ASSUME FileSystem!Init
  PROVE  FileInv
  <1>1. /\ opened = [t \in FileUsers |-> NoFile] /\ dst = [t \in FileUsers |-> <<>>]
        /\ lastError = [t \in FileUsers |-> "SUCCESS"] /\ node \in [FileNames -> {NoFile, <<0>>}]
    BY DEF FileSystem!Init
  <1>2. <<0>> \in Seq(Nat)
    OBVIOUS
  <1>3. FileTypes
    BY <1>1, <1>2, NodesAre DEF FileTypes
  <1> QED BY <1>1, <1>3 DEF FileInv, Apart

-----------------------------------------------------------------------------
(* Paths                                                                   *)

\* What paths and components are spelled with, and what is kept.
PathLetter == Characters \ {"\\"}

PlainLetter == PathLetter \ {"/", "."}

Kept == Characters \cup {"NUL"}

PathInv ==
  /\ DOMAIN data = PathNames /\ data = [p \in PathNames |-> data[p]]
  /\ \A p \in PathNames : data[p] # <<>> => \E a \in Seq(PathLetter) : data[p] = Paths!FromChars(a)

LEMMA Letters ==
  /\ "NUL" \in Kept /\ Characters \subseteq Kept /\ "/" \in PathLetter /\ "." \in PathLetter /\ "/" # "."
  /\ PathLetter \subseteq Characters /\ PlainLetter \subseteq PathLetter
  /\ "NUL" \notin Characters /\ "\\" \notin PathLetter /\ "/" \notin PlainLetter /\ "." \notin PlainLetter
  /\ Paths!NUL = "NUL" /\ Paths!kSep = "/" /\ Paths!kWindowsSep = "\\"
  /\ \A c \in PathComponents : c \in Seq(PlainLetter) /\ c # <<>>
  <1>1. "/" # "\\" /\ "." # "\\" /\ "/" # "."
    OBVIOUS
  <1>2. Paths!NUL = "NUL" /\ Paths!kSep = "/" /\ Paths!kWindowsSep = "\\"
    BY DEF Paths!NUL, Paths!kSep, Paths!kWindowsSep
  <1>3. PlainLetter = Characters \ {"/", "\\", "."}
    BY DEF PlainLetter, PathLetter
  <1> QED BY <1>1, <1>2, <1>3, PathsAssumption DEF PathLetter, PlainLetter, Kept

LEMMA LargerSeq ==
  ASSUME NEW S, NEW T, S \subseteq T, NEW a \in Seq(S)
  PROVE  a \in Seq(T)
OBVIOUS

\* The characters are those that a string was made of.
LEMMA CharsOf ==
  ASSUME NEW a \in Seq(Characters)
  PROVE  /\ Paths!FromChars(a) \in Seq(Kept) /\ Paths!FromChars(a) # <<>>
         /\ Len(a) \in Nat /\ Len(Paths!FromChars(a)) = Len(a) + 1
         /\ \A i \in 1 .. Len(a) : Paths!FromChars(a)[i] = a[i]
         /\ Paths!FromChars(a)[Len(a) + 1] = "NUL"
         /\ Paths!Chars(Paths!FromChars(a)) = a
         /\ Paths!Last(Paths!FromChars(a)) = "NUL"
  <1>1. PICK d, n : d = Paths!FromChars(a) /\ n = Len(a)
    OBVIOUS
  <1>3. a \in Seq(Kept)
    BY Letters, LargerSeq
  <1>4. d = Append(a, "NUL")
    BY <1>1, Letters DEF Paths!FromChars
  <1>5. /\ n \in Nat /\ d \in Seq(Kept) /\ d # <<>> /\ Len(d) = n + 1
        /\ \A i \in 1 .. n : d[i] = a[i]
        /\ d[n + 1] = "NUL"
    BY <1>1, <1>3, <1>4, Letters, AppendProperties, LenProperties
  <1>6. Paths!Chars(d) = a
    <2>1. PICK r : r = SubSeq(d, 1, n)
      OBVIOUS
    <2>2. Paths!Chars(d) = r
      <3>1. Len(d) - 1 = n
        BY <1>5
      <3> QED BY <2>1, <3>1 DEF Paths!Chars
    <2>3. \A i \in 1 .. n : a[i] \in Characters
      BY <1>1, ElementOfSeq
    <2>4. \A i \in 1 .. n : d[i] \in Characters
      BY <1>5, <2>3
    <2>5. /\ r \in Seq(Characters) /\ Len(r) = IF 1 <= n THEN n - 1 + 1 ELSE 0
          /\ \A i \in 1 .. n - 1 + 1 : r[i] = d[1 + i - 1]
      BY <1>5, <2>1, <2>4, SubSeqProperties
    <2>6. Len(r) = n
      BY ONLY <1>5, <2>5
    <2>7. \A i \in 1 .. n : r[i] = a[i]
      <3> TAKE i \in 1 .. n
      <3>1. i \in 1 .. n - 1 + 1 /\ 1 + i - 1 = i
        BY <1>5
      <3> QED BY <1>5, <2>5, <3>1
    <2> QED BY <1>1, <2>2, <2>5, <2>6, <2>7, SeqEqual
  <1> QED BY <1>1, <1>5, <1>6 DEF Paths!Last

LEMMA PushIs ==
  ASSUME NEW a \in Seq(Characters), NEW b \in Seq(Characters)
  PROVE  Paths!Push(Paths!FromChars(a), b) = Paths!FromChars(a \o b)
BY CharsOf DEF Paths!Push

\* Windows separators become separators, and nothing else changes.
LEMMA NormalizeIs ==
  ASSUME NEW a \in Seq(Characters)
  PROVE  /\ \E b \in Seq(PathLetter) : Paths!normalize(Paths!FromChars(a)) = Paths!FromChars(b)
         /\ a \in Seq(PathLetter) => Paths!normalize(Paths!FromChars(a)) = Paths!FromChars(a)
  <1>1. PICK d, n : d = Paths!FromChars(a) /\ n = Len(a)
    OBVIOUS
  <1>2. /\ d \in Seq(Kept) /\ n \in Nat /\ Len(d) = n + 1 /\ d[n + 1] = "NUL"
        /\ \A i \in 1 .. n : d[i] = a[i] /\ a[i] \in Characters
    BY <1>1, CharsOf, ElementOfSeq
  <1>3. PICK b : b = [i \in 1 .. n |-> IF a[i] = "\\" THEN "/" ELSE a[i]]
    OBVIOUS
  <1>4. \A i \in 1 .. n : b[i] \in PathLetter
    BY <1>2, <1>3, Letters DEF PathLetter
  <1>5. b \in Seq(PathLetter) /\ Len(b) = n
    <2>1. b \in [1 .. n -> PathLetter]
      BY <1>3, <1>4
    <2> QED BY <1>2, <2>1, SeqDef, LenProperties
  <1>6. b \in Seq(Characters)
    BY <1>5, Letters, LargerSeq
  <1>7. PICK e : e = Paths!FromChars(b)
    OBVIOUS
  <1>8. /\ e \in Seq(Kept) /\ Len(e) = n + 1 /\ e[n + 1] = "NUL"
        /\ \A i \in 1 .. n : e[i] = b[i]
    BY <1>5, <1>6, <1>7, CharsOf
  <1>9. PICK f : f = Paths!normalize(d)
    OBVIOUS
  <1>10. f = [i \in 1 .. n + 1 |-> IF d[i] = "\\" THEN "/" ELSE d[i]]
    <2>1. DOMAIN d = 1 .. n + 1
      BY <1>2, LenProperties
    <2> QED BY <1>9, <2>1, Letters DEF Paths!normalize, Paths!Replace
  <1>11. \A i \in 1 .. n + 1 : f[i] = e[i]
    <2> TAKE i \in 1 .. n + 1
    <2>1. CASE i \in 1 .. n
      BY <1>2, <1>3, <1>8, <1>10, <2>1
    <2>2. CASE i = n + 1
      BY <1>2, <1>8, <1>10, <2>2
    <2> QED BY <1>2, <2>1, <2>2
  <1>12. f = e
    <2>1. e = [i \in 1 .. n + 1 |-> e[i]]
      BY <1>8, LenProperties
    <2>2. f = [i \in 1 .. n + 1 |-> f[i]]
      BY <1>10
    <2> QED BY <1>11, <2>1, <2>2
  <1>13. ASSUME a \in Seq(PathLetter) PROVE b = a
    <2>1. \A i \in 1 .. n : a[i] \in PathLetter
      BY <1>1, <1>13, ElementOfSeq
    <2>2. \A i \in 1 .. n : b[i] = a[i]
      BY <1>3, <2>1, Letters
    <2> QED BY <1>1, <1>5, <1>13, <2>2, SeqEqual
  <1> QED BY <1>1, <1>5, <1>7, <1>9, <1>12, <1>13

\* Where rfind finds a character.
LEMMA LastPosition ==
  ASSUME NEW S, NEW c \in Seq(S), NEW x, NEW k \in 1 .. Len(c), c[k] = x,
         \A j \in k + 1 .. Len(c) : c[j] # x
  PROVE  Paths!rfind(c, x) = k - 1
  <1>1. DOMAIN c = 1 .. Len(c) /\ Len(c) \in Nat
    BY LenProperties
  <1>2. x \in Paths!Range(c)
    BY <1>1 DEF Paths!Range
  <1>3. PICK l : l = CHOOSE i \in DOMAIN c : c[i] = x /\ \A j \in i + 1 .. Len(c) : c[j] # x
    OBVIOUS
  <1>4. l \in 1 .. Len(c) /\ c[l] = x /\ \A j \in l + 1 .. Len(c) : c[j] # x
    BY <1>1, <1>3
  <1>5. l = k
    <2>1. ~(l < k)
      <3> SUFFICES ASSUME l < k PROVE FALSE
        OBVIOUS
      <3>1. k \in l + 1 .. Len(c)
        BY <1>1, <1>4
      <3> QED BY <1>4, <3>1
    <2>2. ~(k < l)
      <3> SUFFICES ASSUME k < l PROVE FALSE
        OBVIOUS
      <3>1. l \in k + 1 .. Len(c)
        BY <1>1, <1>4
      <3> QED BY <1>4, <3>1
    <2> QED BY <1>1, <1>4, <2>1, <2>2
  <1> QED BY <1>2, <1>3, <1>5 DEF Paths!rfind

LEMMA SomePosition ==
  ASSUME NEW S, NEW c \in Seq(S), NEW x
  PROVE  Paths!rfind(c, x) = -1 \/ Paths!rfind(c, x) \in 0 .. Len(c) - 1
  <1>1. DOMAIN c = 1 .. Len(c) /\ Len(c) \in Nat
    BY LenProperties
  <1>2. CASE x \notin Paths!Range(c)
    BY <1>2 DEF Paths!rfind
  <1>3. CASE x \in Paths!Range(c)
    <2>1. PICK T : T = {m \in Nat : \E i \in 1 .. Len(c) : c[i] = x /\ m = Len(c) - i}
      OBVIOUS
    <2>2. PICK i \in 1 .. Len(c) : c[i] = x
      BY <1>1, <1>3 DEF Paths!Range
    <2>3. Len(c) - i \in T
      BY <1>1, <2>1, <2>2
    <2>4. T \subseteq Nat
      BY <2>1
    <2>5. PICK m \in T : \A l \in T : m <= l
      BY <2>3, <2>4, Least
    <2>6. PICK k \in 1 .. Len(c) : c[k] = x /\ m = Len(c) - k
      BY <2>1, <2>5
    <2>7. \A j \in k + 1 .. Len(c) : c[j] # x
      <3> SUFFICES ASSUME NEW j \in k + 1 .. Len(c), c[j] = x PROVE FALSE
        OBVIOUS
      <3>1. Len(c) - j \in Nat /\ j \in 1 .. Len(c) /\ Len(c) - j < Len(c) - k
        BY <1>1
      <3>2. Len(c) - j \in T
        BY <2>1, <3>1
      <3> QED BY <1>1, <2>5, <2>6, <3>1, <3>2
    <2>8. Paths!rfind(c, x) = k - 1
      BY <2>6, <2>7, LastPosition
    <2> QED BY <1>1, <2>8
  <1> QED BY <1>2, <1>3

\* x between a and c.
LEMMA Between ==
  ASSUME NEW S, NEW a \in Seq(S), NEW c \in Seq(S), NEW x \in S
  PROVE  LET j == a \o <<x>> \o c IN
         /\ j \in Seq(S) /\ Len(j) = Len(a) + 1 + Len(c) /\ Len(a) \in Nat /\ Len(c) \in Nat
         /\ \A i \in 1 .. Len(a) : j[i] = a[i]
         /\ j[Len(a) + 1] = x
         /\ \A i \in 1 .. Len(c) : j[Len(a) + 1 + i] = c[i]
  <1>1. PICK m, n : m = Len(a) /\ n = Len(c)
    OBVIOUS
  <1>2. m \in Nat /\ n \in Nat
    BY <1>1, LenProperties
  <1>3. PICK o : o = <<x>>
    OBVIOUS
  <1>4. o \in Seq(S) /\ Len(o) = 1 /\ o[1] = x
    BY <1>3
  <1>5. PICK b : b = a \o o
    OBVIOUS
  <1>6. /\ b \in Seq(S) /\ Len(b) = m + 1
        /\ \A i \in 1 .. m + 1 : b[i] = IF i <= m THEN a[i] ELSE o[i - m]
    <2>1. /\ b \in Seq(S) /\ Len(b) = Len(a) + Len(o)
          /\ \A i \in 1 .. Len(a) + Len(o) : b[i] = IF i <= Len(a) THEN a[i] ELSE o[i - Len(a)]
      BY <1>4, <1>5, ConcatProperties
    <2> QED BY <1>1, <1>4, <2>1
  <1>7. (\A i \in 1 .. m : b[i] = a[i]) /\ b[m + 1] = x
    <2>1. m + 1 \in 1 .. m + 1 /\ ~(m + 1 <= m) /\ (m + 1) - m = 1
      BY <1>2
    <2>2. \A i \in 1 .. m : i \in 1 .. m + 1 /\ i <= m
      BY <1>2
    <2> QED BY <1>4, <1>6, <2>1, <2>2
  <1>8. PICK j : j = b \o c
    OBVIOUS
  <1>9. /\ j \in Seq(S) /\ Len(j) = m + 1 + n
        /\ \A i \in 1 .. m + 1 + n : j[i] = IF i <= m + 1 THEN b[i] ELSE c[i - (m + 1)]
    <2>1. /\ j \in Seq(S) /\ Len(j) = Len(b) + Len(c)
          /\ \A i \in 1 .. Len(b) + Len(c) : j[i] = IF i <= Len(b) THEN b[i] ELSE c[i - Len(b)]
      BY <1>6, <1>8, ConcatProperties
    <2> QED BY <1>1, <1>6, <2>1
  <1>10. \A i \in 1 .. m + 1 : j[i] = b[i]
    <2>1. \A i \in 1 .. m + 1 : i \in 1 .. m + 1 + n /\ i <= m + 1
      BY <1>2
    <2> QED BY <1>9, <2>1
  <1>11. \A i \in 1 .. n : j[m + 1 + i] = c[i]
    <2> TAKE i \in 1 .. n
    <2>1. m + 1 + i \in 1 .. m + 1 + n /\ ~(m + 1 + i <= m + 1) /\ (m + 1 + i) - (m + 1) = i
      BY <1>2
    <2> QED BY <1>9, <2>1
  <1>12. (\A i \in 1 .. m : j[i] = a[i]) /\ j[m + 1] = x
    <2>1. m + 1 \in 1 .. m + 1 /\ \A i \in 1 .. m : i \in 1 .. m + 1
      BY <1>2
    <2> QED BY <1>7, <1>10, <2>1
  <1>13. j = a \o <<x>> \o c
    BY <1>3, <1>5, <1>8
  <1> QED BY <1>1, <1>2, <1>9, <1>11, <1>12, <1>13

\* A path is joined with a text that does not start with a separator.
LEMMA JoinIs ==
  ASSUME NEW a \in Seq(Characters), NEW c \in Seq(Characters), c # <<>>,
         c[1] \notin {"/", "\\"}
  PROVE  Paths!JoinText(Paths!FromChars(a), c) = Paths!normalize(Paths!FromChars(a \o <<"/">> \o c))
  <1>1. "/" \in Characters /\ <<"/">> \in Seq(Characters)
    BY PathsAssumption
  <1>2. PICK b : b = a \o <<"/">>
    OBVIOUS
  <1>3. b \in Seq(Characters)
    BY <1>1, <1>2, ConcatProperties
  <1>4. Paths!Push(Paths!FromChars(a), <<"/">>) = Paths!FromChars(b)
    BY <1>1, <1>2, PushIs
  <1>5. Paths!Push(Paths!FromChars(b), c) = Paths!FromChars(b \o c)
    BY <1>3, PushIs
  <1> QED BY <1>2, <1>4, <1>5, Letters DEF Paths!JoinText

\* The first characters.
LEMMA PrefixIs ==
  ASSUME NEW S, NEW a \in Seq(S), NEW k \in 0 .. Len(a)
  PROVE  /\ SubSeq(a, 1, k) \in Seq(S) /\ Len(SubSeq(a, 1, k)) = k
         /\ \A i \in 1 .. k : SubSeq(a, 1, k)[i] = a[i]
  <1>1. Len(a) \in Nat /\ k \in Int /\ k \in Nat
    BY LenProperties
  <1>2. \A i \in 1 .. k : a[i] \in S
    <2>1. \A i \in 1 .. Len(a) : a[i] \in S
      BY ElementOfSeq
    <2> QED BY <1>1, <2>1
  <1>3. PICK r : r = SubSeq(a, 1, k)
    OBVIOUS
  <1>4. /\ r \in Seq(S) /\ Len(r) = IF 1 <= k THEN k - 1 + 1 ELSE 0
        /\ \A i \in 1 .. k - 1 + 1 : r[i] = a[1 + i - 1]
    BY <1>1, <1>2, <1>3, SubSeqProperties
  <1>5. Len(r) = k
    BY ONLY <1>1, <1>4
  <1>6. \A i \in 1 .. k : r[i] = a[i]
    <2> TAKE i \in 1 .. k
    <2>1. i \in 1 .. k - 1 + 1 /\ 1 + i - 1 = i
      BY <1>1
    <2> QED BY <1>4, <2>1
  <1> QED BY <1>3, <1>4, <1>5, <1>6

LEMMA PrefixOfString ==
  ASSUME NEW a \in Seq(Characters), NEW k \in 0 .. Len(a)
  PROVE  SubSeq(Paths!FromChars(a), 1, k) = SubSeq(a, 1, k)
  <1>1. Len(a) \in Nat /\ k \in Nat /\ k <= Len(a)
    BY LenProperties
  <1>2. PICK d : d = Paths!FromChars(a)
    OBVIOUS
  <1>3. d \in Seq(Kept) /\ Len(d) = Len(a) + 1 /\ \A i \in 1 .. Len(a) : d[i] = a[i]
    BY <1>2, CharsOf
  <1>4. PICK e, b : e = SubSeq(d, 1, k) /\ b = SubSeq(a, 1, k)
    OBVIOUS
  <1>5. e \in Seq(Kept) /\ Len(e) = k /\ \A i \in 1 .. k : e[i] = d[i]
    <2>1. k \in 0 .. Len(d)
      BY <1>1, <1>3
    <2> QED BY <1>3, <1>4, <2>1, PrefixIs
  <1>6. b \in Seq(Kept) /\ Len(b) = k /\ \A i \in 1 .. k : b[i] = a[i]
    <2>1. a \in Seq(Kept)
      BY Letters, LargerSeq
    <2> QED BY <1>4, <2>1, PrefixIs
  <1>7. \A i \in 1 .. k : e[i] = b[i]
    <2>1. \A i \in 1 .. k : i \in 1 .. Len(a)
      BY <1>1
    <2> QED BY <1>3, <1>5, <1>6, <2>1
  <1> QED BY <1>2, <1>4, <1>5, <1>6, <1>7, SeqEqual

LEMMA ParentIsPath ==
  ASSUME NEW a \in Seq(PathLetter)
  PROVE  \E b \in Seq(PathLetter) : Paths!parent(Paths!FromChars(a)) = Paths!FromChars(b)
  <1>1. a \in Seq(Characters)
    BY Letters, LargerSeq
  <1>2. Paths!Chars(Paths!FromChars(a)) = a /\ Len(a) \in Nat
    BY <1>1, CharsOf
  <1>3. PICK pos : pos = Paths!rfind(a, "/")
    OBVIOUS
  <1>4. CASE pos = -1
    BY <1>2, <1>3, <1>4, Letters DEF Paths!parent
  <1>5. CASE pos # -1
    <2>1. pos \in 0 .. Len(a) - 1
      BY <1>3, <1>5, SomePosition
    <2>2. pos \in 0 .. Len(a)
      BY <1>2, <2>1
    <2>3. PICK b : b = SubSeq(a, 1, pos)
      OBVIOUS
    <2>4. b \in Seq(PathLetter)
      BY <2>2, <2>3, PrefixIs
    <2>5. SubSeq(Paths!FromChars(a), 1, pos) = b
      BY <1>1, <2>2, <2>3, PrefixOfString
    <2> QED BY <1>2, <1>3, <1>5, <2>4, <2>5, Letters DEF Paths!parent
  <1> QED BY <1>4, <1>5

\* Nothing has to be normalized if the text has no Windows separator.
LEMMA PlainJoin ==
  ASSUME NEW a \in Seq(PathLetter), NEW c \in Seq(PathLetter), c # <<>>, c[1] # "/"
  PROVE  /\ a \o <<"/">> \o c \in Seq(PathLetter)
         /\ Paths!JoinText(Paths!FromChars(a), c) = Paths!FromChars(a \o <<"/">> \o c)
  <1>1. a \in Seq(Characters) /\ c \in Seq(Characters)
    BY Letters, LargerSeq
  <1>2. PICK j : j = a \o <<"/">> \o c
    OBVIOUS
  <1>3. j \in Seq(PathLetter)
    BY <1>2, Between, Letters
  <1>4. j \in Seq(Characters)
    BY <1>3, Letters, LargerSeq
  <1>5. c[1] \in PathLetter
    BY FirstAndLast, ElementOfSeq
  <1>6. c[1] \notin {"/", "\\"}
    BY <1>5, Letters
  <1> QED BY <1>1, <1>2, <1>3, <1>4, <1>6, JoinIs, NormalizeIs

LEMMA ParentUndoes ==
  ASSUME NEW a \in Seq(PathLetter), NEW c \in PathComponents
  PROVE  Paths!parent(Paths!JoinText(Paths!FromChars(a), c)) = Paths!FromChars(a)
  <1>1. c \in Seq(PlainLetter) /\ c # <<>>
    BY Letters
  <1>2. c \in Seq(PathLetter)
    BY <1>1, Letters, LargerSeq
  <1>3. \A i \in 1 .. Len(c) : c[i] \in PlainLetter
    BY <1>1, ElementOfSeq
  <1>4. c[1] # "/"
    BY <1>1, <1>3, FirstAndLast, Letters
  <1>5. PICK j : j = a \o <<"/">> \o c
    OBVIOUS
  <1>6. j \in Seq(PathLetter) /\ Paths!JoinText(Paths!FromChars(a), c) = Paths!FromChars(j)
    BY <1>1, <1>2, <1>4, <1>5, PlainJoin
  <1>7. PICK m, n : m = Len(a) /\ n = Len(c)
    OBVIOUS
  <1>8. /\ m \in Nat /\ n \in Nat /\ Len(j) = m + 1 + n
        /\ \A i \in 1 .. m : j[i] = a[i]
        /\ j[m + 1] = "/"
        /\ \A i \in 1 .. n : j[m + 1 + i] = c[i]
    BY <1>2, <1>5, <1>7, Between, Letters
  <1>9. \A i \in m + 1 + 1 .. Len(j) : j[i] # "/"
    <2> TAKE i \in m + 1 + 1 .. Len(j)
    <2>1. i - (m + 1) \in 1 .. n /\ m + 1 + (i - (m + 1)) = i
      BY <1>8
    <2>2. j[i] = c[i - (m + 1)]
      BY <1>8, <2>1
    <2> QED BY <1>3, <1>7, <2>1, <2>2, Letters
  <1>10. Paths!rfind(j, "/") = m
    <2>1. m + 1 \in 1 .. Len(j) /\ (m + 1) - 1 = m
      BY <1>8
    <2>2. Paths!rfind(j, "/") = (m + 1) - 1
      BY <1>6, <1>8, <1>9, <2>1, LastPosition
    <2> QED BY <2>1, <2>2
  <1>11. j \in Seq(Characters) /\ a \in Seq(Characters)
    BY <1>6, Letters, LargerSeq
  <1>12. m \in 0 .. Len(j) /\ m # -1
    BY <1>8
  <1>13. SubSeq(j, 1, m) = a
    <2>1. PICK b : b = SubSeq(j, 1, m)
      OBVIOUS
    <2>2. b \in Seq(Characters) /\ Len(b) = m /\ \A i \in 1 .. m : b[i] = j[i]
      BY <1>11, <1>12, <2>1, PrefixIs
    <2>3. \A i \in 1 .. m : b[i] = a[i]
      BY <1>8, <2>2
    <2> QED BY <1>7, <1>11, <2>1, <2>2, <2>3, SeqEqual
  <1>14. SubSeq(Paths!FromChars(j), 1, m) = a
    BY <1>11, <1>12, <1>13, PrefixOfString
  <1>15. Paths!Chars(Paths!FromChars(j)) = j
    BY <1>11, CharsOf
  <1> QED BY <1>6, <1>10, <1>12, <1>14, <1>15, Letters DEF Paths!parent

LEMMA SuffixIs ==
  ASSUME NEW a \in Seq(PathLetter), NEW c \in PathComponents, NEW s \in PathComponents
  PROVE  Paths!suffix(Paths!JoinText(Paths!FromChars(a), c \o <<".">> \o s)) = s
  <1>1. c \in Seq(PlainLetter) /\ c # <<>> /\ s \in Seq(PlainLetter)
    BY Letters
  <1>2. c \in Seq(PathLetter) /\ s \in Seq(PathLetter)
    BY <1>1, Letters, LargerSeq
  <1>3. PICK m, n, l : m = Len(a) /\ n = Len(c) /\ l = Len(s)
    OBVIOUS
  <1>4. PICK t : t = c \o <<".">> \o s
    OBVIOUS
  <1>5. /\ t \in Seq(PathLetter) /\ n \in Nat /\ l \in Nat /\ Len(t) = n + 1 + l
        /\ \A i \in 1 .. n : t[i] = c[i]
        /\ t[n + 1] = "."
        /\ \A i \in 1 .. l : t[n + 1 + i] = s[i]
    BY <1>2, <1>3, <1>4, Between, Letters
  <1>6. t # <<>> /\ t[1] # "/"
    <2>1. 1 \in 1 .. n /\ c[1] \in PlainLetter
      BY <1>1, <1>3, FirstAndLast, ElementOfSeq
    <2>2. Len(t) # 0
      BY <1>5
    <2> QED BY <1>5, <2>1, <2>2, FirstAndLast, Letters
  <1>7. PICK j : j = a \o <<"/">> \o t
    OBVIOUS
  <1>8. j \in Seq(PathLetter) /\ Paths!JoinText(Paths!FromChars(a), t) = Paths!FromChars(j)
    BY <1>5, <1>6, <1>7, PlainJoin
  <1>9. /\ m \in Nat /\ Len(j) = m + 1 + Len(t)
        /\ \A i \in 1 .. Len(t) : j[m + 1 + i] = t[i]
    <2>1. a \in Seq(PathLetter) /\ t \in Seq(PathLetter) /\ "/" \in PathLetter
      BY <1>5, Letters
    <2>2. /\ Len(j) = Len(a) + 1 + Len(t) /\ Len(a) \in Nat
          /\ \A i \in 1 .. Len(t) : j[Len(a) + 1 + i] = t[i]
      BY ONLY <1>7, <2>1, Between
    <2> QED BY <1>3, <2>2
  <1>10. PICK k : k = m + 1 + (n + 1)
    OBVIOUS
  <1>11. k \in Nat /\ k \in 1 .. Len(j) /\ Len(j) = k + l /\ j[k] = "."
    <2>1. n + 1 \in 1 .. Len(t)
      BY <1>5
    <2>2. j[m + 1 + (n + 1)] = "."
      BY <1>5, <1>9, <2>1
    <2> QED BY <1>5, <1>9, <1>10, <2>2
  <1>12. \A i \in 1 .. l : j[k + i] = s[i] /\ j[k + i] # "."
    <2> TAKE i \in 1 .. l
    <2>1. n + 1 + i \in 1 .. Len(t) /\ m + 1 + (n + 1 + i) = k + i
      BY <1>5, <1>9, <1>10
    <2>2. j[m + 1 + (n + 1 + i)] = t[n + 1 + i]
      BY <1>9, <2>1
    <2>3. s[i] \in PlainLetter
      BY <1>1, <1>3, ElementOfSeq
    <2> QED BY <1>5, <2>1, <2>2, <2>3, Letters
  <1>13. \A i \in k + 1 .. Len(j) : j[i] # "."
    <2> TAKE i \in k + 1 .. Len(j)
    <2>1. i - k \in 1 .. l /\ k + (i - k) = i
      BY <1>5, <1>11
    <2> QED BY <1>12, <2>1
  <1>14. Paths!rfind(j, ".") = k - 1
    BY <1>8, <1>11, <1>13, LastPosition
  <1>15. j \in Seq(Characters)
    BY <1>8, Letters, LargerSeq
  <1>16. Paths!Chars(Paths!FromChars(j)) = j /\ Len(Paths!FromChars(j)) = Len(j) + 1
    BY <1>15, CharsOf
  <1>17. Paths!suffix(Paths!FromChars(j)) = SubSeq(j, k + 1, k + l)
    <2>1. k - 1 # -1 /\ (k - 1) + 2 = k + 1 /\ (Len(j) + 1) - 1 = k + l
      BY <1>5, <1>11
    <2> QED BY <1>14, <1>16, <2>1 DEF Paths!suffix
  <1>18. PICK r : r = SubSeq(j, k + 1, k + l)
    OBVIOUS
  <1>19. \A i \in k + 1 .. k + l : j[i] \in PathLetter
    <2>1. \A i \in 1 .. Len(j) : j[i] \in PathLetter
      BY <1>8, ElementOfSeq
    <2> QED BY <1>5, <1>11, <2>1
  <1>20. k + 1 \in Int /\ k + l \in Int
    BY <1>5, <1>11
  <1>21. /\ r \in Seq(PathLetter)
         /\ Len(r) = IF k + 1 <= k + l THEN (k + l) - (k + 1) + 1 ELSE 0
         /\ \A i \in 1 .. (k + l) - (k + 1) + 1 : r[i] = j[(k + 1) + i - 1]
    BY <1>18, <1>19, <1>20, SubSeqProperties
  <1>22. Len(r) = l
    BY ONLY <1>5, <1>11, <1>21
  <1>23. \A i \in 1 .. l : r[i] = s[i]
    <2> TAKE i \in 1 .. l
    <2>1. i \in 1 .. (k + l) - (k + 1) + 1 /\ (k + 1) + i - 1 = k + i
      BY <1>5, <1>11
    <2> QED BY <1>12, <1>21, <2>1
  <1>24. r = s
    BY <1>2, <1>3, <1>21, <1>22, <1>23, SeqEqual
  <1> QED BY <1>4, <1>8, <1>17, <1>18, <1>24

\* Joined with something relative, a path that is not empty starts as before.
LEMMA StartsAsBefore ==
  ASSUME NEW a \in Seq(PathLetter), NEW c \in PathComponents, a # <<>>
  PROVE  Paths!isAbsolute(Paths!JoinText(Paths!FromChars(a), c)) = Paths!isAbsolute(Paths!FromChars(a))
  <1>1. c \in Seq(PlainLetter) /\ c # <<>>
    BY Letters
  <1>2. c \in Seq(PathLetter)
    BY <1>1, Letters, LargerSeq
  <1>3. c[1] # "/"
    <2>1. c[1] \in PlainLetter
      BY <1>1, FirstAndLast, ElementOfSeq
    <2> QED BY <2>1, Letters
  <1>4. PICK j : j = a \o <<"/">> \o c
    OBVIOUS
  <1>5. j \in Seq(PathLetter) /\ Paths!JoinText(Paths!FromChars(a), c) = Paths!FromChars(j)
    BY <1>1, <1>2, <1>3, <1>4, PlainJoin
  <1>6. 1 \in 1 .. Len(a) /\ Len(a) \in Nat
    BY FirstAndLast
  <1>7. Len(c) \in Nat /\ Len(j) = Len(a) + 1 + Len(c) /\ j[1] = a[1]
    <2>1. "/" \in PathLetter
      BY Letters
    <2>2. /\ Len(c) \in Nat /\ Len(j) = Len(a) + 1 + Len(c)
          /\ \A i \in 1 .. Len(a) : j[i] = a[i]
      BY ONLY <1>2, <1>4, <2>1, Between
    <2> QED BY <1>6, <2>2
  <1>8. j \in Seq(Characters) /\ a \in Seq(Characters)
    BY <1>5, Letters, LargerSeq
  <1>9. 1 \in 1 .. Len(j) /\ j # <<>>
    <2>1. Len(j) # 0 /\ 1 \in 1 .. Len(j)
      BY <1>6, <1>7
    <2> QED BY <1>8, <2>1, FirstAndLast
  <1>10. /\ Paths!Chars(Paths!FromChars(j)) = j /\ Paths!FromChars(j)[1] = j[1]
         /\ Paths!Chars(Paths!FromChars(a)) = a /\ Paths!FromChars(a)[1] = a[1]
    BY <1>6, <1>8, <1>9, CharsOf
  <1> QED BY <1>5, <1>7, <1>9, <1>10 DEF Paths!isAbsolute

LEMMA PathsAreSound ==
  ASSUME PathInv
  PROVE  Paths!PathSound
  <1> SUFFICES ASSUME NEW p \in PathNames, data[p] # <<>>
               PROVE  /\ Paths!Last(data[p]) = Paths!NUL
                      /\ {Paths!NUL, Paths!kWindowsSep} \cap Paths!Range(Paths!Chars(data[p])) = {}
                      /\ \A c \in PathComponents :
                           /\ Paths!parent(Paths!JoinText(data[p], c)) = data[p]
                           /\ \A s \in PathComponents :
                                Paths!suffix(Paths!JoinText(data[p], c \o <<".">> \o s)) = s
                           /\ Paths!Chars(data[p]) # <<>> =>
                                Paths!isAbsolute(Paths!JoinText(data[p], c)) = Paths!isAbsolute(data[p])
                      /\ \A q \in PathNames : data[q] # <<>> /\ Paths!isAbsolute(data[q])
                           => Paths!JoinPath(data[p], data[q]) = data[q]
    BY DEF Paths!PathSound, Paths!Usable
  <1>1. PICK a \in Seq(PathLetter) : data[p] = Paths!FromChars(a)
    BY DEF PathInv
  <1>2. a \in Seq(Characters)
    BY Letters, LargerSeq
  <1>3. Paths!Last(data[p]) = Paths!NUL /\ Paths!Chars(data[p]) = a
    BY <1>1, <1>2, CharsOf, Letters
  <1>4. {Paths!NUL, Paths!kWindowsSep} \cap Paths!Range(a) = {}
    <2>1. \A i \in DOMAIN a : a[i] \in PathLetter
      BY LenProperties, ElementOfSeq
    <2> QED BY <2>1, Letters DEF Paths!Range
  <1>5. ASSUME NEW c \in PathComponents
        PROVE  /\ Paths!parent(Paths!JoinText(data[p], c)) = data[p]
               /\ \A s \in PathComponents :
                    Paths!suffix(Paths!JoinText(data[p], c \o <<".">> \o s)) = s
               /\ a # <<>> =>
                    Paths!isAbsolute(Paths!JoinText(data[p], c)) = Paths!isAbsolute(data[p])
    BY <1>1, ParentUndoes, SuffixIs, StartsAsBefore
  <1>6. ASSUME NEW q \in PathNames, Paths!isAbsolute(data[q])
        PROVE  Paths!JoinPath(data[p], data[q]) = data[q]
    BY <1>6 DEF Paths!JoinPath, Paths!isAbsolute
  <1> QED BY <1>3, <1>4, <1>5, <1>6

\* What operations assign is a path again.
IsPath(d) == \E a \in Seq(PathLetter) : d = Paths!FromChars(a)

LEMMA SetPath ==
  ASSUME PathInv, NEW p \in PathNames, NEW d, d # <<>> => IsPath(d), Paths!Set(p, d)
  PROVE  PathInv'
  <1>1. data' = [data EXCEPT ![p] = d]
    BY DEF Paths!Set
  <1>2. DOMAIN data' = PathNames /\ data' = [q \in PathNames |-> data'[q]]
    BY <1>1 DEF PathInv
  <1>3. \A q \in PathNames : data'[q] = IF q = p THEN d ELSE data[q]
    BY <1>1 DEF PathInv
  <1> QED BY <1>2, <1>3 DEF PathInv, IsPath

LEMMA JoinedIsPath ==
  ASSUME NEW d, IsPath(d), NEW text \in PathTexts
  PROVE  IsPath(Paths!JoinText(d, text))
  <1>1. PICK a \in Seq(PathLetter) : d = Paths!FromChars(a)
    BY DEF IsPath
  <1>2. a \in Seq(Characters) /\ text \in Seq(Characters)
    BY Letters, LargerSeq, PathsAssumption
  <1>3. CASE text = <<>>
    BY <1>3 DEF Paths!JoinText
  <1>4. CASE text # <<>> /\ text[1] \in {"/", "\\"}
    <2>1. Paths!JoinText(d, text) = Paths!normalize(Paths!FromChars(text))
      BY <1>4, Letters DEF Paths!JoinText
    <2> QED BY <1>2, <2>1, NormalizeIs DEF IsPath
  <1>5. CASE text # <<>> /\ text[1] \notin {"/", "\\"}
    <2>1. PICK j : j = a \o <<"/">> \o text
      OBVIOUS
    <2>2. j \in Seq(Characters)
      BY <1>2, <2>1, Between, PathsAssumption
    <2>3. Paths!JoinText(d, text) = Paths!normalize(Paths!FromChars(j))
      BY <1>1, <1>2, <1>5, <2>1, JoinIs
    <2> QED BY <2>2, <2>3, NormalizeIs DEF IsPath
  <1> QED BY <1>3, <1>4, <1>5

LEMMA JoinedPathsArePath ==
  ASSUME NEW d, IsPath(d), NEW other, IsPath(other)
  PROVE  IsPath(Paths!JoinPath(d, other))
  <1>1. PICK a \in Seq(PathLetter) : d = Paths!FromChars(a)
    BY DEF IsPath
  <1>2. PICK b \in Seq(PathLetter) : other = Paths!FromChars(b)
    BY DEF IsPath
  <1>3. a \in Seq(Characters) /\ b \in Seq(Characters)
    BY Letters, LargerSeq
  <1>4. Paths!Chars(other) = b
    BY <1>2, <1>3, CharsOf
  <1>5. PICK j, k : j = a \o <<"/">> \o b /\ k = a \o <<"/">>
    OBVIOUS
  <1>6. j \in Seq(PathLetter)
    BY <1>5, Between, Letters
  <1>7. "/" \in Characters /\ <<"/">> \in Seq(Characters)
    BY PathsAssumption
  <1>8. k \in Seq(Characters)
    BY <1>3, <1>5, <1>7, ConcatProperties
  <1>9. Paths!Push(d, <<"/">>) = Paths!FromChars(k)
    BY <1>1, <1>3, <1>5, <1>7, PushIs
  <1>10. Paths!Push(Paths!FromChars(k), b) = Paths!FromChars(j)
    <2>1. j = k \o b
      BY <1>5
    <2> QED BY <1>3, <1>8, <2>1, PushIs
  <1> QED BY <1>4, <1>6, <1>9, <1>10, Letters DEF Paths!JoinPath, IsPath

LEMMA PathStep ==
  ASSUME PathInv, [Paths!Next]_data
  PROVE  PathInv'
  <1>1. \A p \in PathNames : data[p] # <<>> => IsPath(data[p])
    BY DEF PathInv, IsPath
  <1>2. ASSUME NEW p \in PathNames, NEW text \in PathTexts, Paths!Make(p, text) PROVE PathInv'
    <2>1. text \in Seq(Characters)
      BY PathsAssumption
    <2>2. IsPath(Paths!normalize(Paths!FromChars(text)))
      BY <2>1, NormalizeIs DEF IsPath
    <2> QED BY <1>2, <2>2, SetPath DEF Paths!Make
  <1>3. ASSUME NEW p \in PathNames, NEW text \in PathTexts, Paths!Join(p, text) PROVE PathInv'
    <2>1. IsPath(Paths!JoinText(data[p], text))
      BY <1>1, <1>3, JoinedIsPath DEF Paths!Join, Paths!Usable
    <2> QED BY <1>3, <2>1, SetPath DEF Paths!Join
  <1>4. ASSUME NEW p \in PathNames, NEW q \in PathNames, Paths!Copy(p, q) PROVE PathInv'
    BY <1>1, <1>4, SetPath DEF Paths!Copy
  <1>5. ASSUME NEW p \in PathNames, NEW q \in PathNames, Paths!Move(p, q) PROVE PathInv'
    <2>1. p # q /\ data[q] # <<>> /\ data' = [data EXCEPT ![p] = data[q], ![q] = <<>>]
      BY <1>5 DEF Paths!Move, Paths!Usable
    <2>2. DOMAIN data' = PathNames /\ data' = [r \in PathNames |-> data'[r]]
      BY <2>1 DEF PathInv
    <2>3. \A r \in PathNames : data'[r] = IF r = q THEN <<>> ELSE IF r = p THEN data[q] ELSE data[r]
      BY <2>1 DEF PathInv
    <2> QED BY <2>2, <2>3 DEF PathInv
  <1>6. ASSUME NEW p \in PathNames, NEW q \in PathNames, Paths!JoinOther(p, q) PROVE PathInv'
    <2>1. IsPath(Paths!JoinPath(data[p], data[q]))
      BY <1>1, <1>6, JoinedPathsArePath DEF Paths!JoinOther, Paths!Usable
    <2> QED BY <1>6, <2>1, SetPath DEF Paths!JoinOther
  <1>7. ASSUME NEW p \in PathNames, NEW q \in PathNames, Paths!Parent(p, q) PROVE PathInv'
    <2>1. IsPath(Paths!parent(data[q]))
      BY <1>1, <1>7, ParentIsPath DEF Paths!Parent, Paths!Usable, IsPath
    <2> QED BY <1>7, <2>1, SetPath DEF Paths!Parent
  <1>8. CASE UNCHANGED data
    BY <1>8 DEF PathInv
  <1>9. CASE Paths!Next
    BY <1>2, <1>3, <1>4, <1>5, <1>6, <1>7, <1>9 DEF Paths!Next
  <1> QED BY <1>8, <1>9

LEMMA PathStart ==
  ASSUME Paths!Init
  PROVE  PathInv
  <1>1. data = [p \in PathNames |-> <<"NUL">>]
    BY Letters DEF Paths!Init
  <1>2. <<>> \in Seq(PathLetter)
    OBVIOUS
  <1>3. <<"NUL">> = Paths!FromChars(<<>>)
    <2>1. Append(<<>>, "NUL") = <<"NUL">>
      OBVIOUS
    <2> QED BY <2>1, Letters DEF Paths!FromChars
  <1> QED BY <1>1, <1>2, <1>3 DEF PathInv

-----------------------------------------------------------------------------
\* Whatever the other threads do, the first read through a handle yields the whole file,
\* and what was written through one is in the file in one piece; whatever they were
\* joined from, paths are normalized, and parent and suffix undo it.
THEOREM FilesHold == FileSystem!Spec /\ Paths!Spec => []FilesSound
  <1>1. ASSUME FileInv PROVE FileSystem!ReadsWhole
    <2>1. \A t \in FileSystem!Open : t \in FileUsers /\ opened[t] # NoFile
      BY DEF FileSystem!Open
    <2>2. ASSUME NEW t \in FileSystem!Open, NEW u \in FileSystem!Open, t # u,
                 opened[t].name = opened[u].name
          PROVE  opened[t].mode = "eRead"
      BY <1>1, <2>1, <2>2 DEF FileInv, Apart
    <2>3. ASSUME NEW t \in FileSystem!Open
          PROVE  /\ FileSystem!IsFile(opened[t].name)
                 /\ opened[t].wrote = <<>> /\ Len(opened[t].reads) = 1 =>
                      opened[t].reads[1] = "eOk" /\ dst[t] = node[opened[t].name]
      <3>1. HandleOK(opened[t], node[opened[t].name], dst[t])
        BY <1>1, <2>1 DEF FileInv
      <3>2. FileSystem!IsFile(opened[t].name)
        BY <3>1, NodesAre DEF HandleOK, FileSystem!IsFile
      <3>3. opened[t].wrote = <<>> /\ Len(opened[t].reads) = 1 =>
              opened[t].reads[1] = "eOk" /\ dst[t] = node[opened[t].name]
        BY <3>1 DEF HandleOK
      <3> QED BY <3>2, <3>3
    <2> QED BY <2>2, <2>3 DEF FileSystem!ReadsWhole
  <1>2. ASSUME FileInv PROVE FileSystem!WritesKept
    <2> SUFFICES ASSUME NEW t \in FileSystem!Open
                 PROVE  CASE opened[t].mode \in {"eAppend", "eReadAndAppend"} ->
                               node[opened[t].name] = opened[t].found \o opened[t].wrote
                          [] opened[t].mode = "eReadAndWrite" /\ opened[t].reads # <<>> ->
                               FileSystem!IsFile(opened[t].name)
                          [] OTHER -> node[opened[t].name] = opened[t].wrote
                               \o SubSeq(opened[t].found, Len(opened[t].wrote) + 1, Len(opened[t].found))
      BY DEF FileSystem!WritesKept
    <2>1. HandleOK(opened[t], node[opened[t].name], dst[t])
      BY <1>2 DEF FileInv, FileSystem!Open
    <2>2. FileSystem!IsFile(opened[t].name)
      BY <2>1, NodesAre DEF HandleOK, FileSystem!IsFile
    <2>3. opened[t].mode \in Appending => node[opened[t].name] = opened[t].found \o opened[t].wrote
      BY <2>1 DEF HandleOK
    <2>4. opened[t].mode \notin Appending /\ (opened[t].mode = "eReadAndWrite" => opened[t].reads = <<>>) =>
            node[opened[t].name] = opened[t].wrote
              \o SubSeq(opened[t].found, Len(opened[t].wrote) + 1, Len(opened[t].found))
      BY <2>1 DEF HandleOK
    <2> QED BY <2>2, <2>3, <2>4 DEF Appending
  <1>3. FileInv /\ PathInv => FilesSound
    BY <1>1, <1>2, PathsAreSound DEF FilesSound
  <1>4. FileInv /\ [FileSystem!Next]_(FileSystem!vars) => FileInv'
    BY FilesStep
  <1>5. FileSystem!Init => FileInv
    BY FilesStart
  <1>6. PathInv /\ [Paths!Next]_data => PathInv'
    BY PathStep
  <1>7. Paths!Init => PathInv
    BY PathStart
  <1> QED BY <1>3, <1>4, <1>5, <1>6, <1>7, PTL DEF FileSystem!Spec, Paths!Spec

-----------------------------------------------------------------------------
(* The pool of nodes. *)

USE NilAssumption, FiniteAssumption, SizeAssumption, BoundAssumption

Owning(n) == {t \in Threads : n \in held[t]}

Growing(n) == {t \in Threads : pc[t] \in {"growLoad", "growCas"} /\ popped[t] = n}

\* Who holds the node as its owner, between the two stores of its reference
\* count in release and pushNode, and with the reference of the list.
AsOwner(n) == Owning(n) \cup {t \in Releasing(n) : At(t, "setFree")}

Storing(n) == {t \in Releasing(n) : pc[t] \in {"pushLoad", "pushStore"}}

WithListRef(n) == Taking(n) \cup {t \in Releasing(n) : pc[t] \in {"pushCas", "pushUndo"}}

\* The threads that have the node to themselves.
Holders(n) == AsOwner(n) \cup Storing(n) \cup WithListRef(n) \cup Growing(n)

\* The first node of a chunk that was added is handed out without ever having
\* been on the list, and never comes to the list.
Usable == {n \in Live : n[1] = 1 \/ n[2] # PerChunk - 1}

\* The nodes on the list, with those that the list has lost.
Listing == {n \in Usable : Holders(n) = {} /\ ref[n] < FreeBit}

RefKnown(n, count) ==
  \/ /\ ref[n] = count + 1
     /\ AsOwner(n) = {} /\ Storing(n) = {}
  \/ /\ ref[n] = count
     /\ AsOwner(n) # {} /\ Storing(n) = {} /\ WithListRef(n) = {}
  \/ /\ ref[n] = FreeBit + count
     /\ AsOwner(n) = {} /\ WithListRef(n) = {} /\ (count = 0 <=> Storing(n) # {})

NodeKnown(n) ==
  /\ \A t, u \in Holders(n) : t = u
  /\ IF n \in Usable THEN RefKnown(n, Cardinality(Referring(n)))
                     ELSE ref[n] = IF Holders(n) = {} THEN FreeBit + 1 ELSE 1

\* From h along f one stays in L, comes nowhere twice and never back to h.
Chain(L, h, f) ==
  /\ h \in L \cup {Nil}
  /\ \A n \in L : f[n] \in (L \ {h}) \cup {Nil}
  /\ \A m, n \in L : f[m] = f[n] /\ f[m] # Nil => m = n

\* Whatever part of L has h and the next of each of its nodes is all of L.
Connected(L, h, f) ==
  \A S \in SUBSET L : h \in S \cup {Nil} /\ (\A n \in S : f[n] \in S \cup {Nil}) => S = L

\* No node of L is before x, and h is another one.
Spare(L, h, f, x) == x \in L \cup {Nil} /\ (x # Nil => x # h /\ \A n \in L : f[n] # x)

PushLabels == {"setFree", "pushLoad", "pushStore", "pushCas", "pushUndo"}

ThreadKnown(t) ==
  /\ held[t] \subseteq Live
  /\ pushed[t] = Nil <=> pc[t] \notin PushLabels
  /\ pushed[t] # Nil => pushed[t] \in Live /\ (~At(t, "setFree") => pushed[t] \in Usable)
  /\ pc[t] \in {"loadRef", "addRef", "loadNext", "casHead", "dropRefs"} => popped[t] \in Usable
  /\ pc[t] \in {"addRef", "loadNext", "casHead"} => prevHead[t] = popped[t]
  /\ At(t, "undo") => prevHead[t] \in Usable /\ popped[t] \in Usable \cup {Nil}
  /\ pc[t] \in PushLabels /\ back[t] = "loadRef" => popped[t] \in Usable
  /\ At(t, "addRef") => seenRef[t] \notin {0, FreeBit}
  /\ At(t, "casHead") => nextHead[t] = next[popped[t]]
  /\ At(t, "pushCas") => next[pushed[t]] = pushHead[t]
  /\ At(t, "setFree") => back[t] = "idle" /\ pushed[t] \notin held[t]
  /\ pc[t] \in {"idle", "lockChunks"} \/ (pc[t] \in PushLabels /\ back[t] = "idle") => mutex # t
  /\ pc[t] \in {"grow", "growLoad", "growCas"} => mutex = t

GrowerKnown(t) ==
  pc[t] \in {"growLoad", "growCas"} =>
    popped[t] \in Live \ Usable /\ Spare(Listing, head, next, nextHead[t])

\* The threads that have seen that a chunk may be added, and have yet to do so.
Pending ==
  {t \in Threads : \/ At(t, "lockChunks")
                   \/ mutex = t /\ pc[t] \notin {"growLoad", "growCas"}}

GrowthKnown ==
  Pending # {} =>
    /\ maxChunkCount > 1
    /\ chunkCount + Cardinality(Pending) <= maxChunkCount - 1 + Cardinality(Threads)

PoolInv ==
  /\ TypeOK
  /\ chunkCount = Len(chunkIndex) /\ chunkCount # 0
  /\ GrowthKnown
  /\ \A t \in Threads : ThreadKnown(t) /\ GrowerKnown(t)
  /\ \A n \in Live : NodeKnown(n)
  /\ Chain(Listing, head, next)
  /\ Len(chunkIndex) = 1 => Connected(Listing, head, next)

-----------------------------------------------------------------------------
(* Numbers *)

LEMMA Modulo ==
  \A m \in Nat \ {0}, x \in Nat : /\ x % m \in 0 .. m - 1
                                  /\ x < m => x % m = x
                                  /\ m <= x /\ x < m + m => x % m = x - m
OBVIOUS

LEMMA Bits ==
  /\ Cardinality(Threads) \in Nat /\ FreeBit \in Nat /\ FreeBit = Cardinality(Threads) + 2
  /\ \A r \in 0 .. 2 * FreeBit - 1 :
       /\ \A d \in Nat : Plus(r, d) \in 0 .. 2 * FreeBit - 1
       /\ r + 1 < 2 * FreeBit => Plus(r, 1) = r + 1
       /\ 1 <= r => Plus(r, 2 * FreeBit - 1) = r - 1
       /\ 2 <= r => Plus(r, 2 * FreeBit - 2) = r - 2
       /\ r < FreeBit => Plus(r, FreeBit) = r + FreeBit
       /\ 1 <= r /\ r <= FreeBit => Plus(r, FreeBit - 1) = r + FreeBit - 1
  <1>1. Cardinality(Threads) \in Nat /\ FreeBit \in Nat /\ FreeBit = Cardinality(Threads) + 2
    BY FS_CardinalityType DEF FreeBit
  <1> DEFINE m == 2 * FreeBit
  <1>2. m \in Nat \ {0} /\ m = FreeBit + FreeBit /\ FreeBit >= 2
    BY <1>1
  <1> HIDE DEF m
  <1> SUFFICES ASSUME NEW r \in 0 .. m - 1
               PROVE  /\ \A d \in Nat : Plus(r, d) \in 0 .. m - 1
                      /\ r + 1 < m => Plus(r, 1) = r + 1
                      /\ 1 <= r => Plus(r, m - 1) = r - 1
                      /\ 2 <= r => Plus(r, m - 2) = r - 2
                      /\ r < FreeBit => Plus(r, FreeBit) = r + FreeBit
                      /\ 1 <= r /\ r <= FreeBit => Plus(r, FreeBit - 1) = r + FreeBit - 1
    BY <1>1 DEF m
  <1>3. \A d \in Nat : Plus(r, d) = (r + d) % m /\ r + d \in Nat
    BY <1>2 DEF Plus, m
  <1>4. \A d \in Nat : /\ Plus(r, d) \in 0 .. m - 1
                       /\ r + d < m => Plus(r, d) = r + d
                       /\ m <= r + d /\ r + d < m + m => Plus(r, d) = (r + d) - m
    <2> TAKE d \in Nat
    <2> DEFINE x == r + d
    <2>1. x \in Nat /\ Plus(r, d) = x % m
      BY <1>3
    <2> HIDE DEF x
    <2>2. /\ x % m \in 0 .. m - 1
          /\ x < m => x % m = x
          /\ m <= x /\ x < m + m => x % m = x - m
      BY <1>2, <2>1, Modulo
    <2>3. /\ Plus(r, d) \in 0 .. m - 1
          /\ x < m => Plus(r, d) = x
          /\ m <= x /\ x < m + m => Plus(r, d) = x - m
      BY <2>1, <2>2
    <2> QED BY <2>3 DEF x
  <1>5. 1 \in Nat /\ m - 1 \in Nat /\ m - 2 \in Nat /\ FreeBit \in Nat /\ FreeBit - 1 \in Nat
    BY <1>1, <1>2
  <1>6. r + 1 < m => Plus(r, 1) = r + 1
    BY <1>4, <1>5
  <1>7. 1 <= r => Plus(r, m - 1) = r - 1
    <2>1. r + (m - 1) < m + m /\ (1 <= r => m <= r + (m - 1)) /\ (r + (m - 1)) - m = r - 1
      BY <1>2
    <2> QED BY <1>4, <1>5, <2>1
  <1>8. 2 <= r => Plus(r, m - 2) = r - 2
    <2>1. r + (m - 2) < m + m /\ (2 <= r => m <= r + (m - 2)) /\ (r + (m - 2)) - m = r - 2
      BY <1>2
    <2> QED BY <1>4, <1>5, <2>1
  <1>9. r < FreeBit => Plus(r, FreeBit) = r + FreeBit
    <2>1. r < FreeBit => r + FreeBit < m
      BY <1>2, <1>5
    <2> QED BY <1>4, <1>5, <2>1
  <1>10. 1 <= r /\ r <= FreeBit => Plus(r, FreeBit - 1) = r + FreeBit - 1
    <2>1. r <= FreeBit => r + (FreeBit - 1) < m
      BY <1>2, <1>5
    <2>2. r + (FreeBit - 1) = r + FreeBit - 1
      BY <1>5
    <2> QED BY <1>4, <1>5, <2>1, <2>2
  <1> QED BY <1>4, <1>6, <1>7, <1>8, <1>9, <1>10

LEMMA Counts ==
  ASSUME NEW n, ref[n] \in 0 .. 2 * FreeBit - 1
  PROVE  Count(n) = IF ref[n] < FreeBit THEN ref[n] ELSE ref[n] - FreeBit
  <1> DEFINE x == ref[n]
  <1>1. FreeBit \in Nat \ {0} /\ x \in Nat /\ x < FreeBit + FreeBit
    <2>1. Cardinality(Threads) \in Nat /\ FreeBit \in Nat /\ FreeBit = Cardinality(Threads) + 2
      BY Bits
    <2> QED BY <2>1
  <1>2. Count(n) = x % FreeBit
    BY DEF Count
  <1> HIDE DEF x
  <1>3. /\ x < FreeBit => x % FreeBit = x
        /\ FreeBit <= x /\ x < FreeBit + FreeBit => x % FreeBit = x - FreeBit
    BY <1>1, Modulo
  <1>4. Count(n) = IF x < FreeBit THEN x ELSE x - FreeBit
    BY <1>1, <1>2, <1>3
  <1> QED BY <1>4 DEF x

-----------------------------------------------------------------------------
(* Lists *)

LEMMA Pop ==
  ASSUME NEW L, NEW f, NEW h \in L, Nil \notin L, Chain(L, h, f)
  PROVE  /\ Chain(L \ {h}, f[h], f)
         /\ Connected(L, h, f) => Connected(L \ {h}, f[h], f)
         /\ \A x : Spare(L, h, f, x) => Spare(L \ {h}, f[h], f, x)
  <1>1. Chain(L \ {h}, f[h], f)
    BY DEF Chain
  <1>2. ASSUME Connected(L, h, f), NEW S \in SUBSET (L \ {h}), f[h] \in S \cup {Nil},
               \A n \in S : f[n] \in S \cup {Nil}
        PROVE  S = L \ {h}
    <2>1. S \cup {h} \in SUBSET L /\ h \in (S \cup {h}) \cup {Nil}
          /\ \A n \in S \cup {h} : f[n] \in (S \cup {h}) \cup {Nil}
      BY <1>2
    <2>2. S \cup {h} = L
      BY <1>2, <2>1 DEF Connected
    <2> QED BY <2>2
  <1>3. \A x : Spare(L, h, f, x) => Spare(L \ {h}, f[h], f, x)
    BY DEF Spare
  <1> QED BY <1>1, <1>2, <1>3 DEF Connected

LEMMA Push ==
  ASSUME NEW L, NEW f, NEW h, NEW n, n \notin L, n # Nil, Nil \notin L, f[n] = h, Chain(L, h, f)
  PROVE  /\ Chain(L \cup {n}, n, f)
         /\ Connected(L, h, f) => Connected(L \cup {n}, n, f)
         /\ \A x : x # n /\ Spare(L, h, f, x) => Spare(L \cup {n}, n, f, x)
  <1>1. Chain(L \cup {n}, n, f)
    BY DEF Chain
  <1>2. ASSUME Connected(L, h, f), NEW S \in SUBSET (L \cup {n}), n \in S \cup {Nil},
               \A m \in S : f[m] \in S \cup {Nil}
        PROVE  S = L \cup {n}
    <2>1. n \in S
      BY <1>2
    <2>2. S \cap L \in SUBSET L /\ h \in (S \cap L) \cup {Nil}
      BY <1>2, <2>1 DEF Chain
    <2>3. \A m \in S \cap L : f[m] \in (S \cap L) \cup {Nil}
      BY <1>2 DEF Chain
    <2>4. S \cap L = L
      BY <1>2, <2>2, <2>3 DEF Connected
    <2> QED BY <2>1, <2>4
  <1>3. \A x : x # n /\ Spare(L, h, f, x) => Spare(L \cup {n}, n, f, x)
    BY DEF Spare, Chain
  <1> QED BY <1>1, <1>2, <1>3 DEF Connected

\* The next pointers of the nodes that are not in L do not matter.
LEMMA SameList ==
  ASSUME NEW L, NEW f, NEW g, NEW h, \A n \in L : g[n] = f[n]
  PROVE  /\ Chain(L, h, f) => Chain(L, h, g)
         /\ Connected(L, h, f) => Connected(L, h, g)
         /\ \A x : Spare(L, h, f, x) => Spare(L, h, g, x)
  <1>1. Chain(L, h, f) => Chain(L, h, g)
    BY DEF Chain
  <1>2. Connected(L, h, f) => Connected(L, h, g)
    BY DEF Connected
  <1>3. \A x : Spare(L, h, f, x) => Spare(L, h, g, x)
    BY DEF Spare
  <1> QED BY <1>1, <1>2, <1>3

-----------------------------------------------------------------------------
(* What the steps have in common *)

\* A step of t leaves the other threads alone.
Alone(t) ==
  \A u \in Threads \ {t} :
    /\ held'[u] = held[u] /\ pc'[u] = pc[u] /\ popped'[u] = popped[u]
    /\ prevHead'[u] = prevHead[u] /\ nextHead'[u] = nextHead[u] /\ seenRef'[u] = seenRef[u]
    /\ pushed'[u] = pushed[u] /\ pushHead'[u] = pushHead[u] /\ back'[u] = back[u]

LEMMA Others ==
  ASSUME NEW t \in Threads, Alone(t), NEW n, NEW u \in Threads \ {t}
  PROVE  /\ u \in AsOwner(n)' <=> u \in AsOwner(n)
         /\ u \in Storing(n)' <=> u \in Storing(n)
         /\ u \in WithListRef(n)' <=> u \in WithListRef(n)
         /\ u \in Growing(n)' <=> u \in Growing(n)
         /\ u \in Referring(n)' <=> u \in Referring(n)
         /\ u \in Holders(n)' <=> u \in Holders(n)
  <1>1. u \in AsOwner(n)' <=> u \in AsOwner(n)
    BY DEF Alone, AsOwner, Owning, Releasing, At
  <1>2. u \in Storing(n)' <=> u \in Storing(n)
    BY DEF Alone, Storing, Releasing
  <1>3. u \in WithListRef(n)' <=> u \in WithListRef(n)
    BY DEF Alone, WithListRef, Taking, Releasing, At
  <1>4. u \in Growing(n)' <=> u \in Growing(n)
    BY DEF Alone, Growing
  <1>5. u \in Referring(n)' <=> u \in Referring(n)
    BY DEF Alone, Referring, Taking, At
  <1> QED BY <1>1, <1>2, <1>3, <1>4, <1>5 DEF Holders

LEMMA OfThreads ==
  ASSUME NEW n
  PROVE  AsOwner(n) \subseteq Threads /\ Storing(n) \subseteq Threads
         /\ WithListRef(n) \subseteq Threads /\ Growing(n) \subseteq Threads
         /\ Referring(n) \subseteq Threads /\ Holders(n) \subseteq Threads
  BY DEF AsOwner, Owning, Releasing, Storing, WithListRef, Taking, Growing, Referring, Holders

LEMMA Recount ==
  ASSUME NEW t \in Threads, Alone(t), NEW n
  PROVE  LET R == Referring(n)
             c == Cardinality(R)
         IN  /\ c \in Nat /\ c' \in Nat /\ c <= Cardinality(Threads) /\ c' <= Cardinality(Threads)
             /\ c = 0 <=> R = {}
             /\ (t \in R <=> t \in R') => c' = c
             /\ t \in R /\ t \notin R' => c' = c - 1
             /\ t \notin R /\ t \in R' => c' = c + 1
  <1> DEFINE R == Referring(n)
  <1>1. R \subseteq Threads /\ R' \subseteq Threads
    BY DEF Referring, Taking
  <1>2. IsFiniteSet(R) /\ IsFiniteSet(R')
    BY <1>1, FS_Subset
  <1>3. /\ Cardinality(R) \in Nat /\ Cardinality(R') \in Nat
        /\ Cardinality(R) <= Cardinality(Threads) /\ Cardinality(R') <= Cardinality(Threads)
        /\ Cardinality(R) = 0 <=> R = {}
    BY <1>1, <1>2, FS_CardinalityType, FS_Subset, FS_EmptySet
  <1>4. \A u \in Threads \ {t} : u \in R' <=> u \in R
    BY Others
  <1>5. CASE t \in R <=> t \in R'
    <2>1. R' = R
      BY <1>1, <1>4, <1>5
    <2> QED BY <1>3, <1>5, <2>1
  <1>6. CASE t \in R /\ t \notin R'
    <2>1. R' = R \ {t}
      BY <1>1, <1>4, <1>6
    <2>2. Cardinality(R') = Cardinality(R) - 1
      BY <1>2, <1>6, <2>1, FS_RemoveElement
    <2> QED BY <1>3, <1>6, <2>2
  <1>7. CASE t \notin R /\ t \in R'
    <2>1. R' = R \cup {t}
      BY <1>1, <1>4, <1>7
    <2>2. Cardinality(R') = Cardinality(R) + 1
      BY <1>2, <1>7, <2>1, FS_AddElement
    <2> QED BY <1>3, <1>7, <2>2
  <1> QED BY <1>5, <1>6, <1>7

LEMMA NodesFixed ==
  ASSUME maxChunkCount' = maxChunkCount
  PROVE  /\ Nodes' = Nodes
         /\ chunkIndex' = chunkIndex => Live' = Live /\ Usable' = Usable
  BY DEF Nodes, Live, Usable

\* A node that a step does not touch.
LEMMA NodeKept ==
  ASSUME NEW t \in Threads, Alone(t), NEW n, NodeKnown(n), ref'[n] = ref[n],
         n \in Usable' <=> n \in Usable,
         t \in AsOwner(n)' <=> t \in AsOwner(n), t \in Storing(n)' <=> t \in Storing(n),
         t \in WithListRef(n)' <=> t \in WithListRef(n), t \in Growing(n)' <=> t \in Growing(n),
         t \in Referring(n)' <=> t \in Referring(n)
  PROVE  NodeKnown(n)' /\ Holders(n)' = Holders(n)
  <1>1. /\ AsOwner(n)' \subseteq Threads /\ Storing(n)' \subseteq Threads
        /\ WithListRef(n)' \subseteq Threads /\ Growing(n)' \subseteq Threads
        /\ Referring(n)' \subseteq Threads
    BY DEF AsOwner, Owning, Releasing, Storing, WithListRef, Taking, Growing, Referring
  <1>2. ASSUME NEW u \in Threads
        PROVE  /\ u \in AsOwner(n)' <=> u \in AsOwner(n)
               /\ u \in Storing(n)' <=> u \in Storing(n)
               /\ u \in WithListRef(n)' <=> u \in WithListRef(n)
               /\ u \in Growing(n)' <=> u \in Growing(n)
               /\ u \in Referring(n)' <=> u \in Referring(n)
    BY Others
  <1>3. AsOwner(n)' = AsOwner(n)
    BY <1>1, OfThreads, <1>2
  <1>4. Storing(n)' = Storing(n)
    BY <1>1, <1>2, OfThreads
  <1>5. WithListRef(n)' = WithListRef(n)
    BY <1>1, <1>2, OfThreads
  <1>6. Growing(n)' = Growing(n)
    BY <1>1, <1>2, OfThreads
  <1>7. Referring(n)' = Referring(n)
    BY <1>1, <1>2, OfThreads
  <1>8. Holders(n)' = Holders(n)
    BY <1>3, <1>4, <1>5, <1>6 DEF Holders
  <1> QED BY <1>3, <1>4, <1>5, <1>7, <1>8 DEF NodeKnown, RefKnown

LEMMA ChunkBound ==
  ASSUME TypeOK
  PROVE  /\ maxChunkCount \in Nat \ {0} /\ Cardinality(Threads) \in Nat
         /\ 1 + (maxChunkCount - 1) * Cardinality(Threads) \in Nat
         /\ 1 + (maxChunkCount - 1) * Cardinality(Threads) >= 1
  <1>1. maxChunkCount \in Nat \ {0}
    BY DEF TypeOK
  <1>2. Cardinality(Threads) \in Nat
    BY FS_CardinalityType
  <1>3. \A a, b \in Nat : a * b \in Nat
    OBVIOUS
  <1>4. maxChunkCount - 1 \in Nat
    BY <1>1
  <1>5. (maxChunkCount - 1) * Cardinality(Threads) \in Nat
    BY <1>2, <1>3, <1>4
  <1> QED BY <1>1, <1>2, <1>5

LEMMA Types ==
  ASSUME PoolInv
  PROVE  /\ TypeOK /\ Nil \notin Nodes /\ Nil \notin Live /\ Nil \notin Listing
         /\ Live \subseteq Nodes /\ Usable \subseteq Live /\ Listing \subseteq Usable
         /\ head \in Pointers /\ ref \in [Nodes -> 0 .. 2 * FreeBit - 1]
         /\ next \in [Nodes -> Pointers] /\ chunkIndex \in Seq(Nat)
         /\ held \in [Threads -> SUBSET Nodes] /\ pc \in [Threads -> Labels]
         /\ popped \in [Threads -> Pointers] /\ prevHead \in [Threads -> Pointers]
         /\ nextHead \in [Threads -> Pointers] /\ seenRef \in [Threads -> 0 .. 2 * FreeBit - 1]
         /\ seenCount \in [Threads -> Nat] /\ pushed \in [Threads -> Pointers]
         /\ pushHead \in [Threads -> Pointers] /\ acquires \in [Threads -> Nat]
         /\ back \in [Threads -> {"idle", "exhausted", "loadRef"}]
         /\ \A t \in Threads : ThreadKnown(t) /\ GrowerKnown(t)
         /\ \A n \in Live : NodeKnown(n)
         /\ Chain(Listing, head, next)
  <1>1. TypeOK
    BY DEF PoolInv
  <1>2. Nodes \subseteq Nat \X Nat
    BY <1>1, ChunkBound DEF Nodes
  <1>3. Live \subseteq Nodes /\ Usable \subseteq Live /\ Listing \subseteq Usable
    BY DEF Live, Usable, Listing
  <1>4. Nil \notin Nodes /\ Nil \notin Live /\ Nil \notin Listing
    BY <1>2, <1>3
  <1> QED BY <1>3, <1>4 DEF PoolInv, TypeOK

LEMMA ThreadKept ==
  ASSUME PoolInv, NEW t \in Threads, Alone(t), NEW u \in Threads \ {t},
         Live \subseteq Live', Usable \subseteq Usable', mutex' = u <=> mutex = u,
         At(u, "casHead") => next'[popped[u]] = next[popped[u]],
         At(u, "pushCas") => next'[pushed[u]] = next[pushed[u]]
  PROVE  ThreadKnown(u)'
  <1>1. ThreadKnown(u)
    BY DEF PoolInv
  <1>2. /\ held'[u] = held[u] /\ pc'[u] = pc[u] /\ popped'[u] = popped[u]
        /\ prevHead'[u] = prevHead[u] /\ nextHead'[u] = nextHead[u] /\ seenRef'[u] = seenRef[u]
        /\ pushed'[u] = pushed[u] /\ pushHead'[u] = pushHead[u] /\ back'[u] = back[u]
    BY DEF Alone
  <1> QED BY <1>1, <1>2 DEF ThreadKnown, At

LEMMA PendingKept ==
  ASSUME PoolInv, NEW t \in Threads, Alone(t), maxChunkCount' = maxChunkCount,
         chunkCount' = chunkCount, \A u \in Threads \ {t} : mutex' = u <=> mutex = u,
         t \in Pending' => t \in Pending
  PROVE  GrowthKnown'
  <1>1. \A u \in Threads \ {t} : u \in Pending' <=> u \in Pending
    BY DEF Pending, Alone, At
  <1>2. Pending' \subseteq Pending /\ Pending \subseteq Threads
    BY <1>1 DEF Pending
  <1>3. IsFiniteSet(Pending)
    BY <1>2, FS_Subset
  <1>4. /\ Cardinality(Pending') \in Nat /\ Cardinality(Pending) \in Nat
        /\ Cardinality(Pending') <= Cardinality(Pending)
    BY <1>2, <1>3, FS_Subset, FS_CardinalityType
  <1>5. Cardinality(Threads) \in Nat /\ maxChunkCount \in Nat /\ chunkCount \in Nat
    BY FS_CardinalityType DEF PoolInv, TypeOK
  <1>6. Pending' # {} =>
          maxChunkCount > 1 /\ chunkCount + Cardinality(Pending) <= maxChunkCount - 1 + Cardinality(Threads)
    BY <1>2 DEF PoolInv, GrowthKnown
  <1> QED BY <1>4, <1>5, <1>6 DEF GrowthKnown

LEMMA FirstNodes ==
  ASSUME PoolInv, NEW n \in Live \ Usable
  PROVE  ListifiedTail(n[1]) = n
  <1>1. n \in Nodes /\ n[2] = PerChunk - 1
    BY DEF Live, Usable
  <1>2. n = <<n[1], n[2]>>
    BY <1>1 DEF Nodes
  <1> QED BY <1>1, <1>2 DEF ListifiedTail

\* What every step but Grow has to show.
LEMMA Assembled ==
  ASSUME PoolInv, NEW t \in Threads, Alone(t), TypeOK',
         UNCHANGED <<maxChunkCount, chunkIndex, chunkCount>>,
         \A u \in Threads \ {t} : mutex' = u <=> mutex = u,
         \A u \in Threads \ {t} : /\ At(u, "casHead") => next'[popped[u]] = next[popped[u]]
                                  /\ At(u, "pushCas") => next'[pushed[u]] = next[pushed[u]],
         ThreadKnown(t)', \A u \in Threads : GrowerKnown(u)',
         \A n \in Live : NodeKnown(n)',
         Chain(Listing', head', next'),
         Len(chunkIndex) = 1 =>
           (Connected(Listing, head, next) => Connected(Listing', head', next')),
         GrowthKnown'
  PROVE  PoolInv'
  <1>1. Live' = Live /\ Usable' = Usable
    BY NodesFixed
  <1>2. \A u \in Threads \ {t} : ThreadKnown(u)'
    BY <1>1, ThreadKept
  <1>3. chunkCount' = Len(chunkIndex') /\ chunkCount' # 0
        /\ (Len(chunkIndex') = 1 => Connected(Listing, head, next))
    BY DEF PoolInv
  <1>4. \A u \in Threads : ThreadKnown(u)' /\ GrowerKnown(u)'
    BY <1>2
  <1>5. \A n \in Live' : NodeKnown(n)'
    BY <1>1
  <1> QED BY <1>3, <1>4, <1>5 DEF PoolInv

\* A step that changes no node.
LEMMA NodesKept ==
  ASSUME PoolInv, NEW t \in Threads, Alone(t), UNCHANGED <<maxChunkCount, chunkIndex, head, ref>>,
         \A n \in Listing : next'[n] = next[n],
         \A n \in Live : /\ t \in AsOwner(n)' <=> t \in AsOwner(n)
                         /\ t \in Storing(n)' <=> t \in Storing(n)
                         /\ t \in WithListRef(n)' <=> t \in WithListRef(n)
                         /\ t \in Growing(n)' <=> t \in Growing(n)
                         /\ t \in Referring(n)' <=> t \in Referring(n),
         pc'[t] \in {"growLoad", "growCas"} =>
           /\ pc[t] \in {"growLoad", "growCas"}
           /\ popped'[t] = popped[t] /\ nextHead'[t] = nextHead[t]
  PROVE  /\ \A u \in Threads : GrowerKnown(u)'
         /\ \A n \in Live : NodeKnown(n)'
         /\ Listing' = Listing
         /\ Chain(Listing', head', next')
         /\ Connected(Listing, head, next) => Connected(Listing', head', next')
  <1> USE Types
  <1>1. Live' = Live /\ Usable' = Usable
    BY NodesFixed
  <1>2. ASSUME NEW n \in Live PROVE NodeKnown(n)' /\ Holders(n)' = Holders(n)
    BY <1>1, NodeKept
  <1>3. Listing' = Listing
    BY <1>1, <1>2 DEF Listing
  <1>4. /\ Chain(Listing, head, next')
        /\ Connected(Listing, head, next) => Connected(Listing, head, next')
        /\ \A x : Spare(Listing, head, next, x) => Spare(Listing, head, next', x)
    BY SameList
  <1>5. ASSUME NEW u \in Threads PROVE GrowerKnown(u)'
    <2>1. pc'[u] \in {"growLoad", "growCas"} =>
            /\ pc[u] \in {"growLoad", "growCas"}
            /\ popped'[u] = popped[u] /\ nextHead'[u] = nextHead[u]
      BY DEF Alone
    <2>2. GrowerKnown(u)
      OBVIOUS
    <2> QED BY <1>1, <1>3, <1>4, <2>1, <2>2 DEF GrowerKnown
  <1> QED BY <1>2, <1>3, <1>4, <1>5

-----------------------------------------------------------------------------
(* The steps that change no node *)

LEMMA AcquireStep ==
  ASSUME PoolInv, NEW t \in Threads, Acquire(t)
  PROVE  PoolInv'
  <1> USE Types DEF Acquire, Goto, At, list, growth, acquiring, pushing
  <1>1. Alone(t)
    BY DEF Alone
  <1>2. Nodes' = Nodes /\ Live' = Live /\ Usable' = Usable
    BY NodesFixed
  <1>3. TypeOK'
    BY <1>2 DEF TypeOK, Pointers, Labels
  <1>4. ThreadKnown(t)'
    BY <1>2 DEF ThreadKnown, PushLabels
  <1>5. ASSUME NEW n \in Live
        PROVE  /\ t \in AsOwner(n)' <=> t \in AsOwner(n)
               /\ t \in Storing(n)' <=> t \in Storing(n)
               /\ t \in WithListRef(n)' <=> t \in WithListRef(n)
               /\ t \in Growing(n)' <=> t \in Growing(n)
               /\ t \in Referring(n)' <=> t \in Referring(n)
    BY DEF AsOwner, Owning, Releasing, Storing, WithListRef, Taking,
           Growing, Referring, ThreadKnown
  <1>6. t \in Pending' => t \in Pending
    BY DEF Pending, ThreadKnown
  <1>7. pc'[t] \in {"growLoad", "growCas"} =>
           /\ pc[t] \in {"growLoad", "growCas"}
           /\ popped'[t] = popped[t] /\ nextHead'[t] = nextHead[t]
    BY DEF ThreadKnown
  <1>8. /\ UNCHANGED <<maxChunkCount, chunkIndex, chunkCount, head, ref, next, mutex>>
        /\ \A u \in Threads \ {t} : mutex' = u <=> mutex = u
        /\ \A n \in Listing : next'[n] = next[n]
    BY DEF GrowerKnown
  <1>9. /\ \A u \in Threads : GrowerKnown(u)'
        /\ \A n \in Live : NodeKnown(n)'
        /\ Chain(Listing', head', next')
        /\ Connected(Listing, head, next) => Connected(Listing', head', next')
    BY ONLY PoolInv, t \in Threads, <1>1, <1>5, <1>7, <1>8, NodesKept
  <1>10. \A u \in Threads \ {t} :
           /\ At(u, "casHead") => next'[popped[u]] = next[popped[u]]
           /\ At(u, "pushCas") => next'[pushed[u]] = next[pushed[u]]
    BY DEF ThreadKnown, GrowerKnown
  <1>11. GrowthKnown'
    BY ONLY PoolInv, t \in Threads, <1>1, <1>6, <1>8, PendingKept
  <1> QED BY ONLY PoolInv, t \in Threads, <1>1, <1>3, <1>4, <1>11, <1>8, <1>9, <1>10, Assembled

LEMMA LoadHeadStep ==
  ASSUME PoolInv, NEW t \in Threads, LoadHead(t)
  PROVE  PoolInv'
  <1> USE Types DEF LoadHead, Goto, At, list, growth, acquiring, pushing
  <1>1. head \in Usable \cup {Nil} /\ head' = head
    BY DEF Chain
  <1>2. Alone(t)
    BY DEF Alone
  <1>3. Nodes' = Nodes /\ Live' = Live /\ Usable' = Usable
    BY NodesFixed
  <1>4. TypeOK'
    BY <1>3 DEF TypeOK, Pointers, Labels, Loop
  <1>5. ThreadKnown(t)'
    BY <1>3, <1>1 DEF ThreadKnown, PushLabels, Loop
  <1>6. ASSUME NEW n \in Live
        PROVE  /\ t \in AsOwner(n)' <=> t \in AsOwner(n)
               /\ t \in Storing(n)' <=> t \in Storing(n)
               /\ t \in WithListRef(n)' <=> t \in WithListRef(n)
               /\ t \in Growing(n)' <=> t \in Growing(n)
               /\ t \in Referring(n)' <=> t \in Referring(n)
    BY DEF AsOwner, Owning, Releasing, Storing, WithListRef, Taking,
           Growing, Referring, ThreadKnown, Loop
  <1>7. t \in Pending' => t \in Pending
    BY DEF Pending, ThreadKnown, Loop
  <1>8. pc'[t] \in {"growLoad", "growCas"} =>
           /\ pc[t] \in {"growLoad", "growCas"}
           /\ popped'[t] = popped[t] /\ nextHead'[t] = nextHead[t]
    BY DEF ThreadKnown, Loop
  <1>9. /\ UNCHANGED <<maxChunkCount, chunkIndex, chunkCount, head, ref, next, mutex>>
        /\ \A u \in Threads \ {t} : mutex' = u <=> mutex = u
        /\ \A n \in Listing : next'[n] = next[n]
    BY DEF GrowerKnown
  <1>10. /\ \A u \in Threads : GrowerKnown(u)'
         /\ \A n \in Live : NodeKnown(n)'
         /\ Chain(Listing', head', next')
         /\ Connected(Listing, head, next) => Connected(Listing', head', next')
    BY ONLY PoolInv, t \in Threads, <1>2, <1>6, <1>8, <1>9, NodesKept
  <1>11. \A u \in Threads \ {t} :
           /\ At(u, "casHead") => next'[popped[u]] = next[popped[u]]
           /\ At(u, "pushCas") => next'[pushed[u]] = next[pushed[u]]
    BY DEF ThreadKnown, GrowerKnown
  <1>12. GrowthKnown'
    BY ONLY PoolInv, t \in Threads, <1>2, <1>7, <1>9, PendingKept
  <1> QED BY ONLY PoolInv, t \in Threads, <1>2, <1>4, <1>5, <1>12, <1>9, <1>10, <1>11, Assembled

LEMMA LoadRefStep ==
  ASSUME PoolInv, NEW t \in Threads, LoadRef(t)
  PROVE  PoolInv'
  <1> USE Types DEF LoadRef, Goto, At, list, growth, acquiring, pushing
  <1>1. popped[t] \in Usable /\ popped[t] \in Nodes
    BY DEF ThreadKnown
  <1>2. Count(popped[t]) # 0 => ref[popped[t]] \notin {0, FreeBit}
    <2>1. FreeBit \in Nat /\ FreeBit > 0
      <3>1. Cardinality(Threads) \in Nat /\ FreeBit = Cardinality(Threads) + 2
        BY Bits
      <3> QED BY <3>1
    <2>2. ref[popped[t]] \in 0 .. 2 * FreeBit - 1
      BY <1>1
    <2>3. Count(popped[t]) = IF ref[popped[t]] < FreeBit THEN ref[popped[t]] ELSE ref[popped[t]] - FreeBit
      BY <2>2, Counts
    <2> QED BY ONLY <2>1, <2>2, <2>3
  <1>3. Alone(t)
    BY DEF Alone
  <1>4. Nodes' = Nodes /\ Live' = Live /\ Usable' = Usable
    BY NodesFixed
  <1>5. TypeOK'
    BY <1>4, <1>1 DEF TypeOK, Pointers, Labels
  <1>6. ThreadKnown(t)'
    BY <1>4, <1>1, <1>2 DEF ThreadKnown, PushLabels
  <1>7. ASSUME NEW n \in Live
        PROVE  /\ t \in AsOwner(n)' <=> t \in AsOwner(n)
               /\ t \in Storing(n)' <=> t \in Storing(n)
               /\ t \in WithListRef(n)' <=> t \in WithListRef(n)
               /\ t \in Growing(n)' <=> t \in Growing(n)
               /\ t \in Referring(n)' <=> t \in Referring(n)
    BY DEF AsOwner, Owning, Releasing, Storing, WithListRef, Taking,
           Growing, Referring, ThreadKnown
  <1>8. t \in Pending' => t \in Pending
    BY DEF Pending, ThreadKnown
  <1>9. pc'[t] \in {"growLoad", "growCas"} =>
           /\ pc[t] \in {"growLoad", "growCas"}
           /\ popped'[t] = popped[t] /\ nextHead'[t] = nextHead[t]
    BY DEF ThreadKnown
  <1>10. /\ UNCHANGED <<maxChunkCount, chunkIndex, chunkCount, head, ref, next, mutex>>
         /\ \A u \in Threads \ {t} : mutex' = u <=> mutex = u
         /\ \A n \in Listing : next'[n] = next[n]
    BY DEF GrowerKnown
  <1>11. /\ \A u \in Threads : GrowerKnown(u)'
         /\ \A n \in Live : NodeKnown(n)'
         /\ Chain(Listing', head', next')
         /\ Connected(Listing, head, next) => Connected(Listing', head', next')
    BY ONLY PoolInv, t \in Threads, <1>3, <1>7, <1>9, <1>10, NodesKept
  <1>12. \A u \in Threads \ {t} :
           /\ At(u, "casHead") => next'[popped[u]] = next[popped[u]]
           /\ At(u, "pushCas") => next'[pushed[u]] = next[pushed[u]]
    BY DEF ThreadKnown, GrowerKnown
  <1>13. GrowthKnown'
    BY ONLY PoolInv, t \in Threads, <1>3, <1>8, <1>10, PendingKept
  <1> QED BY ONLY PoolInv, t \in Threads, <1>3, <1>5, <1>6, <1>13, <1>10, <1>11, <1>12, Assembled

LEMMA LoadNextStep ==
  ASSUME PoolInv, NEW t \in Threads, LoadNext(t)
  PROVE  PoolInv'
  <1> USE Types DEF LoadNext, Goto, At, list, growth, acquiring, pushing
  <1>1. popped[t] \in Nodes
    BY DEF ThreadKnown
  <1>2. Alone(t)
    BY DEF Alone
  <1>3. Nodes' = Nodes /\ Live' = Live /\ Usable' = Usable
    BY NodesFixed
  <1>4. TypeOK'
    BY <1>3, <1>1 DEF TypeOK, Pointers, Labels
  <1>5. ThreadKnown(t)'
    BY <1>3 DEF ThreadKnown, PushLabels
  <1>6. ASSUME NEW n \in Live
        PROVE  /\ t \in AsOwner(n)' <=> t \in AsOwner(n)
               /\ t \in Storing(n)' <=> t \in Storing(n)
               /\ t \in WithListRef(n)' <=> t \in WithListRef(n)
               /\ t \in Growing(n)' <=> t \in Growing(n)
               /\ t \in Referring(n)' <=> t \in Referring(n)
    BY DEF AsOwner, Owning, Releasing, Storing, WithListRef, Taking,
           Growing, Referring, ThreadKnown
  <1>7. t \in Pending' => t \in Pending
    BY DEF Pending, ThreadKnown
  <1>8. pc'[t] \in {"growLoad", "growCas"} =>
           /\ pc[t] \in {"growLoad", "growCas"}
           /\ popped'[t] = popped[t] /\ nextHead'[t] = nextHead[t]
    BY DEF ThreadKnown
  <1>9. /\ UNCHANGED <<maxChunkCount, chunkIndex, chunkCount, head, ref, next, mutex>>
        /\ \A u \in Threads \ {t} : mutex' = u <=> mutex = u
        /\ \A n \in Listing : next'[n] = next[n]
    BY DEF GrowerKnown
  <1>10. /\ \A u \in Threads : GrowerKnown(u)'
         /\ \A n \in Live : NodeKnown(n)'
         /\ Chain(Listing', head', next')
         /\ Connected(Listing, head, next) => Connected(Listing', head', next')
    BY ONLY PoolInv, t \in Threads, <1>2, <1>6, <1>8, <1>9, NodesKept
  <1>11. \A u \in Threads \ {t} :
           /\ At(u, "casHead") => next'[popped[u]] = next[popped[u]]
           /\ At(u, "pushCas") => next'[pushed[u]] = next[pushed[u]]
    BY DEF ThreadKnown, GrowerKnown
  <1>12. GrowthKnown'
    BY ONLY PoolInv, t \in Threads, <1>2, <1>7, <1>9, PendingKept
  <1> QED BY ONLY PoolInv, t \in Threads, <1>2, <1>4, <1>5, <1>12, <1>9, <1>10, <1>11, Assembled

LEMMA GrowLoadStep ==
  ASSUME PoolInv, NEW t \in Threads, GrowLoad(t)
  PROVE  PoolInv'
  <1> USE Types DEF GrowLoad, Goto, At, list, growth, acquiring, pushing
  <1>1. Alone(t)
    BY DEF Alone
  <1>2. Nodes' = Nodes /\ Live' = Live /\ Usable' = Usable
    BY NodesFixed
  <1>3. TypeOK'
    BY <1>2 DEF TypeOK, Pointers, Labels
  <1>4. ThreadKnown(t)'
    BY <1>2 DEF ThreadKnown, PushLabels
  <1>5. ASSUME NEW n \in Live
        PROVE  /\ t \in AsOwner(n)' <=> t \in AsOwner(n)
               /\ t \in Storing(n)' <=> t \in Storing(n)
               /\ t \in WithListRef(n)' <=> t \in WithListRef(n)
               /\ t \in Growing(n)' <=> t \in Growing(n)
               /\ t \in Referring(n)' <=> t \in Referring(n)
    BY DEF AsOwner, Owning, Releasing, Storing, WithListRef, Taking,
           Growing, Referring, ThreadKnown
  <1>6. t \in Pending' => t \in Pending
    BY DEF Pending, ThreadKnown
  <1>7. pc'[t] \in {"growLoad", "growCas"} =>
           /\ pc[t] \in {"growLoad", "growCas"}
           /\ popped'[t] = popped[t] /\ nextHead'[t] = nextHead[t]
    BY DEF ThreadKnown
  <1>8. /\ UNCHANGED <<maxChunkCount, chunkIndex, chunkCount, head, ref, next, mutex>>
        /\ \A u \in Threads \ {t} : mutex' = u <=> mutex = u
        /\ \A n \in Listing : next'[n] = next[n]
    BY DEF GrowerKnown
  <1>9. /\ \A u \in Threads : GrowerKnown(u)'
        /\ \A n \in Live : NodeKnown(n)'
        /\ Chain(Listing', head', next')
        /\ Connected(Listing, head, next) => Connected(Listing', head', next')
    BY ONLY PoolInv, t \in Threads, <1>1, <1>5, <1>7, <1>8, NodesKept
  <1>10. \A u \in Threads \ {t} :
           /\ At(u, "casHead") => next'[popped[u]] = next[popped[u]]
           /\ At(u, "pushCas") => next'[pushed[u]] = next[pushed[u]]
    BY DEF ThreadKnown, GrowerKnown
  <1>11. GrowthKnown'
    BY ONLY PoolInv, t \in Threads, <1>1, <1>6, <1>8, PendingKept
  <1> QED BY ONLY PoolInv, t \in Threads, <1>1, <1>3, <1>4, <1>11, <1>8, <1>9, <1>10, Assembled

LEMMA PushLoadStep ==
  ASSUME PoolInv, NEW t \in Threads, PushLoad(t)
  PROVE  PoolInv'
  <1> USE Types DEF PushLoad, Goto, At, list, growth, acquiring, pushing
  <1>1. Alone(t)
    BY DEF Alone
  <1>2. Nodes' = Nodes /\ Live' = Live /\ Usable' = Usable
    BY NodesFixed
  <1>3. TypeOK'
    BY <1>2 DEF TypeOK, Pointers, Labels
  <1>4. ThreadKnown(t)'
    BY <1>2 DEF ThreadKnown, PushLabels
  <1>5. ASSUME NEW n \in Live
        PROVE  /\ t \in AsOwner(n)' <=> t \in AsOwner(n)
               /\ t \in Storing(n)' <=> t \in Storing(n)
               /\ t \in WithListRef(n)' <=> t \in WithListRef(n)
               /\ t \in Growing(n)' <=> t \in Growing(n)
               /\ t \in Referring(n)' <=> t \in Referring(n)
    BY DEF AsOwner, Owning, Releasing, Storing, WithListRef, Taking,
           Growing, Referring, ThreadKnown
  <1>6. t \in Pending' => t \in Pending
    BY DEF Pending, ThreadKnown
  <1>7. pc'[t] \in {"growLoad", "growCas"} =>
           /\ pc[t] \in {"growLoad", "growCas"}
           /\ popped'[t] = popped[t] /\ nextHead'[t] = nextHead[t]
    BY DEF ThreadKnown
  <1>8. /\ UNCHANGED <<maxChunkCount, chunkIndex, chunkCount, head, ref, next, mutex>>
        /\ \A u \in Threads \ {t} : mutex' = u <=> mutex = u
        /\ \A n \in Listing : next'[n] = next[n]
    BY DEF GrowerKnown
  <1>9. /\ \A u \in Threads : GrowerKnown(u)'
        /\ \A n \in Live : NodeKnown(n)'
        /\ Chain(Listing', head', next')
        /\ Connected(Listing, head, next) => Connected(Listing', head', next')
    BY ONLY PoolInv, t \in Threads, <1>1, <1>5, <1>7, <1>8, NodesKept
  <1>10. \A u \in Threads \ {t} :
           /\ At(u, "casHead") => next'[popped[u]] = next[popped[u]]
           /\ At(u, "pushCas") => next'[pushed[u]] = next[pushed[u]]
    BY DEF ThreadKnown, GrowerKnown
  <1>11. GrowthKnown'
    BY ONLY PoolInv, t \in Threads, <1>1, <1>6, <1>8, PendingKept
  <1> QED BY ONLY PoolInv, t \in Threads, <1>1, <1>3, <1>4, <1>11, <1>8, <1>9, <1>10, Assembled

LEMMA LockChunksStep ==
  ASSUME PoolInv, NEW t \in Threads, LockChunks(t)
  PROVE  PoolInv'
  <1> USE Types DEF LockChunks, Goto, At, list, growth, acquiring, pushing
  <1>1. Alone(t)
    BY DEF Alone
  <1>2. Nodes' = Nodes /\ Live' = Live /\ Usable' = Usable
    BY NodesFixed
  <1>3. TypeOK'
    BY <1>2 DEF TypeOK, Pointers, Labels
  <1>4. ThreadKnown(t)'
    BY <1>2 DEF ThreadKnown, PushLabels
  <1>5. ASSUME NEW n \in Live
        PROVE  /\ t \in AsOwner(n)' <=> t \in AsOwner(n)
               /\ t \in Storing(n)' <=> t \in Storing(n)
               /\ t \in WithListRef(n)' <=> t \in WithListRef(n)
               /\ t \in Growing(n)' <=> t \in Growing(n)
               /\ t \in Referring(n)' <=> t \in Referring(n)
    BY DEF AsOwner, Owning, Releasing, Storing, WithListRef, Taking,
           Growing, Referring, ThreadKnown
  <1>6. t \in Pending' => t \in Pending
    BY DEF Pending, ThreadKnown
  <1>7. pc'[t] \in {"growLoad", "growCas"} =>
           /\ pc[t] \in {"growLoad", "growCas"}
           /\ popped'[t] = popped[t] /\ nextHead'[t] = nextHead[t]
    BY DEF ThreadKnown
  <1>8. /\ UNCHANGED <<maxChunkCount, chunkIndex, chunkCount, head, ref, next>>
        /\ \A u \in Threads \ {t} : mutex' = u <=> mutex = u
        /\ \A n \in Listing : next'[n] = next[n]
    BY DEF GrowerKnown
  <1>9. /\ \A u \in Threads : GrowerKnown(u)'
        /\ \A n \in Live : NodeKnown(n)'
        /\ Chain(Listing', head', next')
        /\ Connected(Listing, head, next) => Connected(Listing', head', next')
    BY ONLY PoolInv, t \in Threads, <1>1, <1>5, <1>7, <1>8, NodesKept
  <1>10. \A u \in Threads \ {t} :
           /\ At(u, "casHead") => next'[popped[u]] = next[popped[u]]
           /\ At(u, "pushCas") => next'[pushed[u]] = next[pushed[u]]
    BY DEF ThreadKnown, GrowerKnown
  <1>11. GrowthKnown'
    BY ONLY PoolInv, t \in Threads, <1>1, <1>6, <1>8, PendingKept
  <1> QED BY ONLY PoolInv, t \in Threads, <1>1, <1>3, <1>4, <1>11, <1>8, <1>9, <1>10, Assembled

\* The compare-and-swaps that fail.

LEMMA AddRefLostStep ==
  ASSUME PoolInv, NEW t \in Threads, AddRef(t), ref[popped[t]] # seenRef[t]
  PROVE  PoolInv'
  <1> USE Types DEF AddRef, Goto, At, list, growth, acquiring, pushing
  <1>1. pc' = [pc EXCEPT ![t] = "loadHead"] /\ UNCHANGED ref
    OBVIOUS
  <1>2. 0 \in 0 .. 2 * FreeBit - 1
    <2>1. Cardinality(Threads) \in Nat /\ FreeBit = Cardinality(Threads) + 2
      BY Bits
    <2> QED BY <2>1
  <1>3. Alone(t)
    BY DEF Alone
  <1>4. Nodes' = Nodes /\ Live' = Live /\ Usable' = Usable
    BY NodesFixed
  <1>5. TypeOK'
    BY <1>4, <1>1, <1>2 DEF TypeOK, Pointers, Labels
  <1>6. ThreadKnown(t)'
    BY <1>4, <1>1 DEF ThreadKnown, PushLabels
  <1>7. ASSUME NEW n \in Live
        PROVE  /\ t \in AsOwner(n)' <=> t \in AsOwner(n)
               /\ t \in Storing(n)' <=> t \in Storing(n)
               /\ t \in WithListRef(n)' <=> t \in WithListRef(n)
               /\ t \in Growing(n)' <=> t \in Growing(n)
               /\ t \in Referring(n)' <=> t \in Referring(n)
    BY DEF AsOwner, Owning, Releasing, Storing, WithListRef, Taking,
           Growing, Referring, ThreadKnown
  <1>8. t \in Pending' => t \in Pending
    BY DEF Pending, ThreadKnown
  <1>9. pc'[t] \in {"growLoad", "growCas"} =>
           /\ pc[t] \in {"growLoad", "growCas"}
           /\ popped'[t] = popped[t] /\ nextHead'[t] = nextHead[t]
    BY DEF ThreadKnown
  <1>10. /\ UNCHANGED <<maxChunkCount, chunkIndex, chunkCount, head, ref, next, mutex>>
         /\ \A u \in Threads \ {t} : mutex' = u <=> mutex = u
         /\ \A n \in Listing : next'[n] = next[n]
    BY DEF GrowerKnown
  <1>11. /\ \A u \in Threads : GrowerKnown(u)'
         /\ \A n \in Live : NodeKnown(n)'
         /\ Chain(Listing', head', next')
         /\ Connected(Listing, head, next) => Connected(Listing', head', next')
    BY ONLY PoolInv, t \in Threads, <1>3, <1>7, <1>9, <1>10, NodesKept
  <1>12. \A u \in Threads \ {t} :
           /\ At(u, "casHead") => next'[popped[u]] = next[popped[u]]
           /\ At(u, "pushCas") => next'[pushed[u]] = next[pushed[u]]
    BY DEF ThreadKnown, GrowerKnown
  <1>13. GrowthKnown'
    BY ONLY PoolInv, t \in Threads, <1>3, <1>8, <1>10, PendingKept
  <1> QED BY ONLY PoolInv, t \in Threads, <1>3, <1>5, <1>6, <1>13, <1>10, <1>11, <1>12, Assembled

LEMMA CasHeadLostStep ==
  ASSUME PoolInv, NEW t \in Threads, CasHead(t), head # popped[t]
  PROVE  PoolInv'
  <1> USE Types DEF CasHead, Goto, At, list, growth, acquiring, pushing
  <1>1. /\ popped' = [popped EXCEPT ![t] = head]
        /\ pc' = [pc EXCEPT ![t] = "undo"] /\ UNCHANGED head
    OBVIOUS
  <1>2. head \in Usable \cup {Nil} /\ head' = head
    BY DEF Chain
  <1>3. Alone(t)
    BY DEF Alone
  <1>4. Nodes' = Nodes /\ Live' = Live /\ Usable' = Usable
    BY NodesFixed
  <1>5. TypeOK'
    BY <1>4, <1>1 DEF TypeOK, Pointers, Labels
  <1>6. ThreadKnown(t)'
    BY <1>4, <1>2, <1>1 DEF ThreadKnown, PushLabels
  <1>7. ASSUME NEW n \in Live
        PROVE  /\ t \in AsOwner(n)' <=> t \in AsOwner(n)
               /\ t \in Storing(n)' <=> t \in Storing(n)
               /\ t \in WithListRef(n)' <=> t \in WithListRef(n)
               /\ t \in Growing(n)' <=> t \in Growing(n)
               /\ t \in Referring(n)' <=> t \in Referring(n)
    BY DEF AsOwner, Owning, Releasing, Storing, WithListRef, Taking,
           Growing, Referring, ThreadKnown
  <1>8. t \in Pending' => t \in Pending
    BY DEF Pending, ThreadKnown
  <1>9. pc'[t] \in {"growLoad", "growCas"} =>
           /\ pc[t] \in {"growLoad", "growCas"}
           /\ popped'[t] = popped[t] /\ nextHead'[t] = nextHead[t]
    BY DEF ThreadKnown
  <1>10. /\ UNCHANGED <<maxChunkCount, chunkIndex, chunkCount, head, ref, next, mutex>>
         /\ \A u \in Threads \ {t} : mutex' = u <=> mutex = u
         /\ \A n \in Listing : next'[n] = next[n]
    BY DEF GrowerKnown
  <1>11. /\ \A u \in Threads : GrowerKnown(u)'
         /\ \A n \in Live : NodeKnown(n)'
         /\ Chain(Listing', head', next')
         /\ Connected(Listing, head, next) => Connected(Listing', head', next')
    BY ONLY PoolInv, t \in Threads, <1>3, <1>7, <1>9, <1>10, NodesKept
  <1>12. \A u \in Threads \ {t} :
           /\ At(u, "casHead") => next'[popped[u]] = next[popped[u]]
           /\ At(u, "pushCas") => next'[pushed[u]] = next[pushed[u]]
    BY DEF ThreadKnown, GrowerKnown
  <1>13. GrowthKnown'
    BY ONLY PoolInv, t \in Threads, <1>3, <1>8, <1>10, PendingKept
  <1> QED BY ONLY PoolInv, t \in Threads, <1>3, <1>5, <1>6, <1>13, <1>10, <1>11, <1>12, Assembled

LEMMA PushCasLostStep ==
  ASSUME PoolInv, NEW t \in Threads, PushCas(t), head # pushHead[t]
  PROVE  PoolInv'
  <1> USE Types DEF PushCas, Goto, At, list, growth, acquiring, pushing
  <1>1. /\ pushHead' = [pushHead EXCEPT ![t] = head]
        /\ pc' = [pc EXCEPT ![t] = "pushUndo"] /\ UNCHANGED <<head, pushed>>
    BY DEF PushCas
  <1>2. Alone(t)
    BY DEF Alone
  <1>3. Nodes' = Nodes /\ Live' = Live /\ Usable' = Usable
    BY NodesFixed
  <1>4. TypeOK'
    BY <1>3, <1>1 DEF TypeOK, Pointers, Labels
  <1>5. ThreadKnown(t)'
    BY <1>3, <1>1 DEF ThreadKnown, PushLabels
  <1>6. ASSUME NEW n \in Live
        PROVE  /\ t \in AsOwner(n)' <=> t \in AsOwner(n)
               /\ t \in Storing(n)' <=> t \in Storing(n)
               /\ t \in WithListRef(n)' <=> t \in WithListRef(n)
               /\ t \in Growing(n)' <=> t \in Growing(n)
               /\ t \in Referring(n)' <=> t \in Referring(n)
    BY DEF AsOwner, Owning, Releasing, Storing, WithListRef, Taking,
           Growing, Referring, ThreadKnown
  <1>7. t \in Pending' => t \in Pending
    BY DEF Pending, ThreadKnown
  <1>8. pc'[t] \in {"growLoad", "growCas"} =>
           /\ pc[t] \in {"growLoad", "growCas"}
           /\ popped'[t] = popped[t] /\ nextHead'[t] = nextHead[t]
    BY DEF ThreadKnown
  <1>9. /\ UNCHANGED <<maxChunkCount, chunkIndex, chunkCount, head, ref, next, mutex>>
        /\ \A u \in Threads \ {t} : mutex' = u <=> mutex = u
        /\ \A n \in Listing : next'[n] = next[n]
    BY DEF GrowerKnown
  <1>10. /\ \A u \in Threads : GrowerKnown(u)'
         /\ \A n \in Live : NodeKnown(n)'
         /\ Chain(Listing', head', next')
         /\ Connected(Listing, head, next) => Connected(Listing', head', next')
    BY ONLY PoolInv, t \in Threads, <1>2, <1>6, <1>8, <1>9, NodesKept
  <1>11. \A u \in Threads \ {t} :
           /\ At(u, "casHead") => next'[popped[u]] = next[popped[u]]
           /\ At(u, "pushCas") => next'[pushed[u]] = next[pushed[u]]
    BY DEF ThreadKnown, GrowerKnown
  <1>12. GrowthKnown'
    BY ONLY PoolInv, t \in Threads, <1>2, <1>7, <1>9, PendingKept
  <1> QED BY ONLY PoolInv, t \in Threads, <1>2, <1>4, <1>5, <1>12, <1>9, <1>10, <1>11, Assembled

LEMMA GrowCasLostStep ==
  ASSUME PoolInv, NEW t \in Threads, GrowCas(t), head # prevHead[t]
  PROVE  PoolInv'
  <1> USE Types DEF GrowCas, Goto, At, list, growth, acquiring, pushing
  <1>1. /\ popped[t] \in Live \ Usable /\ popped[t] \in Nodes
        /\ next' = [next EXCEPT ![popped[t]] = prevHead[t]]
        /\ prevHead' = [prevHead EXCEPT ![t] = head]
        /\ UNCHANGED <<head, mutex, held, popped, nextHead, pc>>
    BY FirstNodes DEF GrowerKnown
  <1>2. /\ At(t, "growCas")
        /\ UNCHANGED <<ref, maxChunkCount, chunkIndex, chunkCount, seenRef, seenCount, acquires, pushing>>
    OBVIOUS
  <1> HIDE DEF GrowCas
  <1> USE <1>1, <1>2
  <1>3. Alone(t)
    BY DEF Alone
  <1>4. Nodes' = Nodes /\ Live' = Live /\ Usable' = Usable
    BY NodesFixed
  <1>5. TypeOK'
    BY <1>4, <1>1 DEF TypeOK, Pointers, Labels
  <1>6. ThreadKnown(t)'
    BY <1>4 DEF ThreadKnown, PushLabels
  <1>7. ASSUME NEW n \in Live
        PROVE  /\ t \in AsOwner(n)' <=> t \in AsOwner(n)
               /\ t \in Storing(n)' <=> t \in Storing(n)
               /\ t \in WithListRef(n)' <=> t \in WithListRef(n)
               /\ t \in Growing(n)' <=> t \in Growing(n)
               /\ t \in Referring(n)' <=> t \in Referring(n)
    BY DEF AsOwner, Owning, Releasing, Storing, WithListRef, Taking,
           Growing, Referring, ThreadKnown
  <1>8. t \in Pending' => t \in Pending
    BY DEF Pending, ThreadKnown
  <1>9. pc'[t] \in {"growLoad", "growCas"} =>
           /\ pc[t] \in {"growLoad", "growCas"}
           /\ popped'[t] = popped[t] /\ nextHead'[t] = nextHead[t]
    BY DEF ThreadKnown
  <1>10. /\ UNCHANGED <<maxChunkCount, chunkIndex, chunkCount, head, ref, mutex>>
         /\ \A u \in Threads \ {t} : mutex' = u <=> mutex = u
         /\ \A n \in Listing : next'[n] = next[n]
    BY <1>1 DEF GrowerKnown
  <1>11. /\ \A u \in Threads : GrowerKnown(u)'
         /\ \A n \in Live : NodeKnown(n)'
         /\ Chain(Listing', head', next')
         /\ Connected(Listing, head, next) => Connected(Listing', head', next')
    BY ONLY PoolInv, t \in Threads, <1>3, <1>7, <1>9, <1>10, NodesKept
  <1>12. \A u \in Threads \ {t} :
           /\ At(u, "casHead") => next'[popped[u]] = next[popped[u]]
           /\ At(u, "pushCas") => next'[pushed[u]] = next[pushed[u]]
    <2> TAKE u \in Threads \ {t}
    <2>1. ThreadKnown(u)
      OBVIOUS
    <2>2. At(u, "casHead") => popped[u] \in Usable
      BY ONLY <2>1 DEF ThreadKnown, At
    <2>3. At(u, "pushCas") => pushed[u] \in Usable
      <3>1. At(u, "pushCas") => pushed[u] # Nil /\ ~At(u, "setFree")
        BY ONLY <2>1 DEF ThreadKnown, At, PushLabels
      <3> QED BY ONLY <2>1, <3>1 DEF ThreadKnown
    <2>4. \A n \in Usable : next'[n] = next[n]
      BY <1>1
    <2> QED BY ONLY <2>2, <2>3, <2>4
  <1>13. GrowthKnown'
    BY ONLY PoolInv, t \in Threads, <1>3, <1>8, <1>10, PendingKept
  <1> QED BY ONLY PoolInv, t \in Threads, <1>3, <1>5, <1>6, <1>13, <1>10, <1>11, <1>12, Assembled

-----------------------------------------------------------------------------
(* The empty list *)

LEMMA ExhaustedHolderStep ==
  ASSUME PoolInv, NEW t \in Threads, Exhausted(t), mutex = t
  PROVE  PoolInv'
  <1> USE Types DEF Exhausted, Goto, At, list, growth, acquiring, pushing
  <1>1. /\ pc' = [pc EXCEPT ![t] = "grow"]
        /\ UNCHANGED <<list, growth, held, acquiring, pushing>>
    BY DEF Exhausted
  <1>2. At(t, "exhausted")
    OBVIOUS
  <1> HIDE DEF Exhausted
  <1> USE <1>1, <1>2
  <1>3. Alone(t)
    BY DEF Alone
  <1>4. Nodes' = Nodes /\ Live' = Live /\ Usable' = Usable
    BY NodesFixed
  <1>5. TypeOK'
    BY <1>4 DEF TypeOK, Pointers, Labels
  <1>6. ThreadKnown(t)'
    BY <1>4, <1>1 DEF ThreadKnown, PushLabels
  <1>7. ASSUME NEW n \in Live
        PROVE  /\ t \in AsOwner(n)' <=> t \in AsOwner(n)
               /\ t \in Storing(n)' <=> t \in Storing(n)
               /\ t \in WithListRef(n)' <=> t \in WithListRef(n)
               /\ t \in Growing(n)' <=> t \in Growing(n)
               /\ t \in Referring(n)' <=> t \in Referring(n)
    BY DEF AsOwner, Owning, Releasing, Storing, WithListRef, Taking,
           Growing, Referring, ThreadKnown
  <1>8. t \in Pending' => t \in Pending
    BY DEF Pending, ThreadKnown
  <1>9. pc'[t] \in {"growLoad", "growCas"} =>
           /\ pc[t] \in {"growLoad", "growCas"}
           /\ popped'[t] = popped[t] /\ nextHead'[t] = nextHead[t]
    BY DEF ThreadKnown
  <1>10. /\ UNCHANGED <<list, growth>>
         /\ \A u \in Threads \ {t} : mutex' = u <=> mutex = u
         /\ \A n \in Listing : next'[n] = next[n]
    BY <1>1 DEF GrowerKnown
  <1>11. /\ \A u \in Threads : GrowerKnown(u)'
         /\ \A n \in Live : NodeKnown(n)'
         /\ Chain(Listing', head', next')
         /\ Connected(Listing, head, next) => Connected(Listing', head', next')
    BY ONLY PoolInv, t \in Threads, <1>3, <1>7, <1>9, <1>10, NodesKept
  <1>12. \A u \in Threads \ {t} :
           /\ At(u, "casHead") => next'[popped[u]] = next[popped[u]]
           /\ At(u, "pushCas") => next'[pushed[u]] = next[pushed[u]]
    BY <1>1 DEF ThreadKnown, GrowerKnown
  <1>13. GrowthKnown'
    BY ONLY PoolInv, t \in Threads, <1>3, <1>8, <1>10, PendingKept
  <1> QED BY ONLY PoolInv, t \in Threads, <1>3, <1>5, <1>6, <1>13, <1>10, <1>11, <1>12, Assembled

LEMMA ExhaustedFullStep ==
  ASSUME PoolInv, NEW t \in Threads, Exhausted(t), mutex # t, ~(chunkCount < maxChunkCount)
  PROVE  PoolInv'
  <1> USE Types DEF Exhausted, Goto, At, list, growth, acquiring, pushing
  <1>1. /\ pc' = [pc EXCEPT ![t] = "idle"] /\ mutex' = mutex
        /\ held' = [held EXCEPT ![t] = @ \cup {}] /\ popped' = [popped EXCEPT ![t] = Nil]
        /\ prevHead' = [prevHead EXCEPT ![t] = Nil] /\ nextHead' = [nextHead EXCEPT ![t] = Nil]
        /\ seenCount' = [seenCount EXCEPT ![t] = chunkCount]
        /\ UNCHANGED <<list, maxChunkCount, chunkIndex, chunkCount, seenRef, acquires, pushing>>
    BY DEF Exhausted, Return
  <1>2. At(t, "exhausted")
    OBVIOUS
  <1> HIDE DEF Exhausted
  <1> USE <1>1, <1>2
  <1>3. held'[t] = held[t] /\ pushed'[t] = Nil /\ mutex' # t /\ pc'[t] = "idle"
    BY DEF ThreadKnown, PushLabels
  <1>4. Alone(t)
    BY DEF Alone
  <1>5. Nodes' = Nodes /\ Live' = Live /\ Usable' = Usable
    BY NodesFixed
  <1>6. TypeOK'
    BY <1>5, <1>1 DEF TypeOK, Pointers, Labels
  <1>7. ThreadKnown(t)'
    BY <1>5, <1>3 DEF ThreadKnown, PushLabels
  <1>8. ASSUME NEW n \in Live
        PROVE  /\ t \in AsOwner(n)' <=> t \in AsOwner(n)
               /\ t \in Storing(n)' <=> t \in Storing(n)
               /\ t \in WithListRef(n)' <=> t \in WithListRef(n)
               /\ t \in Growing(n)' <=> t \in Growing(n)
               /\ t \in Referring(n)' <=> t \in Referring(n)
    BY DEF AsOwner, Owning, Releasing, Storing, WithListRef, Taking,
           Growing, Referring, ThreadKnown
  <1>9. t \in Pending' => t \in Pending
    BY DEF Pending, ThreadKnown
  <1>10. pc'[t] \in {"growLoad", "growCas"} =>
            /\ pc[t] \in {"growLoad", "growCas"}
            /\ popped'[t] = popped[t] /\ nextHead'[t] = nextHead[t]
    BY DEF ThreadKnown
  <1>11. /\ UNCHANGED <<list, growth>>
         /\ \A u \in Threads \ {t} : mutex' = u <=> mutex = u
         /\ \A n \in Listing : next'[n] = next[n]
    BY <1>1 DEF GrowerKnown
  <1>12. /\ \A u \in Threads : GrowerKnown(u)'
         /\ \A n \in Live : NodeKnown(n)'
         /\ Chain(Listing', head', next')
         /\ Connected(Listing, head, next) => Connected(Listing', head', next')
    BY ONLY PoolInv, t \in Threads, <1>4, <1>8, <1>10, <1>11, NodesKept
  <1>13. \A u \in Threads \ {t} :
           /\ At(u, "casHead") => next'[popped[u]] = next[popped[u]]
           /\ At(u, "pushCas") => next'[pushed[u]] = next[pushed[u]]
    BY <1>1 DEF ThreadKnown, GrowerKnown
  <1>14. GrowthKnown'
    BY ONLY PoolInv, t \in Threads, <1>4, <1>9, <1>11, PendingKept
  <1> QED BY ONLY PoolInv, t \in Threads, <1>4, <1>6, <1>7, <1>14, <1>11, <1>12, <1>13, Assembled

LEMMA ExhaustedShortStep ==
  ASSUME PoolInv, NEW t \in Threads, Exhausted(t), mutex # t, chunkCount < maxChunkCount
  PROVE  PoolInv'
  <1> USE Types DEF Exhausted, Goto, At, list, growth, acquiring, pushing
  <1>1. /\ pc' = [pc EXCEPT ![t] = "lockChunks"] /\ mutex' = mutex
        /\ seenCount' = [seenCount EXCEPT ![t] = chunkCount]
        /\ UNCHANGED <<held, popped, prevHead, nextHead>>
        /\ UNCHANGED <<list, maxChunkCount, chunkIndex, chunkCount, seenRef, acquires, pushing>>
    BY DEF Exhausted
  <1>2. At(t, "exhausted")
    OBVIOUS
  <1>3. chunkCount < maxChunkCount /\ mutex # t
    OBVIOUS
  <1> HIDE DEF Exhausted
  <1> USE <1>1, <1>2
  <1>4. held'[t] = held[t] /\ pushed'[t] = Nil /\ mutex' # t /\ pc'[t] = "lockChunks"
    BY <1>3 DEF ThreadKnown, PushLabels
  <1>5. Alone(t)
    BY DEF Alone
  <1>6. Nodes' = Nodes /\ Live' = Live /\ Usable' = Usable
    BY NodesFixed
  <1>7. TypeOK'
    BY <1>6, <1>1 DEF TypeOK, Pointers, Labels
  <1>8. ThreadKnown(t)'
    BY <1>6, <1>4 DEF ThreadKnown, PushLabels
  <1>9. ASSUME NEW n \in Live
        PROVE  /\ t \in AsOwner(n)' <=> t \in AsOwner(n)
               /\ t \in Storing(n)' <=> t \in Storing(n)
               /\ t \in WithListRef(n)' <=> t \in WithListRef(n)
               /\ t \in Growing(n)' <=> t \in Growing(n)
               /\ t \in Referring(n)' <=> t \in Referring(n)
    BY DEF AsOwner, Owning, Releasing, Storing, WithListRef, Taking,
           Growing, Referring, ThreadKnown
  <1>10. pc'[t] \in {"growLoad", "growCas"} =>
            /\ pc[t] \in {"growLoad", "growCas"}
            /\ popped'[t] = popped[t] /\ nextHead'[t] = nextHead[t]
    BY DEF ThreadKnown
  <1>11. /\ UNCHANGED <<list, growth>>
         /\ \A u \in Threads \ {t} : mutex' = u <=> mutex = u
         /\ \A n \in Listing : next'[n] = next[n]
    BY <1>1 DEF GrowerKnown
  <1>12. /\ \A u \in Threads : GrowerKnown(u)'
         /\ \A n \in Live : NodeKnown(n)'
         /\ Chain(Listing', head', next')
         /\ Connected(Listing, head, next) => Connected(Listing', head', next')
    BY ONLY PoolInv, t \in Threads, <1>5, <1>9, <1>10, <1>11, NodesKept
  <1>13. \A u \in Threads \ {t} :
           /\ At(u, "casHead") => next'[popped[u]] = next[popped[u]]
           /\ At(u, "pushCas") => next'[pushed[u]] = next[pushed[u]]
    BY <1>1 DEF ThreadKnown, GrowerKnown
  <1>14. GrowthKnown'
    <2>1. Pending' \subseteq Threads
      BY DEF Pending
    <2>2. Cardinality(Pending') \in Nat /\ Cardinality(Pending') <= Cardinality(Threads)
          /\ Cardinality(Threads) \in Nat
      BY <2>1, FS_Subset, FS_CardinalityType
    <2>3. maxChunkCount \in Nat /\ chunkCount \in Nat /\ chunkCount # 0
      BY DEF PoolInv, TypeOK
    <2> QED BY ONLY <1>11, <1>3, <2>2, <2>3 DEF GrowthKnown, growth
  <1> QED BY ONLY PoolInv, t \in Threads, <1>5, <1>7, <1>8, <1>14, <1>11, <1>12, <1>13, Assembled

LEMMA ExhaustedStep ==
  ASSUME PoolInv, NEW t \in Threads, Exhausted(t)
  PROVE  PoolInv'
  BY ExhaustedHolderStep, ExhaustedFullStep, ExhaustedShortStep

-----------------------------------------------------------------------------
(* The steps that change one node *)

\* What Y is when it has the elements of X, but for t.
Follows(Y, X, t) ==
  /\ (t \in Y <=> t \in X) => Y = X
  /\ t \notin Y => Y = X \ {t}
  /\ t \in Y => Y = X \cup {t}

LEMMA SetsAfter ==
  ASSUME NEW t \in Threads, Alone(t), NEW n
  PROVE  /\ Follows(AsOwner(n)', AsOwner(n), t)
         /\ Follows(Storing(n)', Storing(n), t)
         /\ Follows(WithListRef(n)', WithListRef(n), t)
         /\ Follows(Growing(n)', Growing(n), t)
  <1>1. ASSUME NEW X, NEW Y, X \subseteq Threads, Y \subseteq Threads,
               \A u \in Threads \ {t} : u \in Y <=> u \in X
        PROVE  Follows(Y, X, t)
    <2>1. (t \in Y <=> t \in X) => Y = X
      BY <1>1
    <2>2. t \notin Y => Y = X \ {t}
      BY <1>1
    <2>3. t \in Y => Y = X \cup {t}
      BY <1>1
    <2> QED BY <2>1, <2>2, <2>3 DEF Follows
  <1>2. /\ AsOwner(n)' \subseteq Threads /\ Storing(n)' \subseteq Threads
        /\ WithListRef(n)' \subseteq Threads /\ Growing(n)' \subseteq Threads
        /\ AsOwner(n) \subseteq Threads /\ Storing(n) \subseteq Threads
        /\ WithListRef(n) \subseteq Threads /\ Growing(n) \subseteq Threads
    BY DEF AsOwner, Owning, Releasing, Storing, WithListRef, Taking, Growing
  <1>3. \A u \in Threads \ {t} : u \in AsOwner(n)' <=> u \in AsOwner(n)
    BY Others
  <1>4. \A u \in Threads \ {t} : u \in Storing(n)' <=> u \in Storing(n)
    BY Others
  <1>5. \A u \in Threads \ {t} : u \in WithListRef(n)' <=> u \in WithListRef(n)
    BY Others
  <1>6. \A u \in Threads \ {t} : u \in Growing(n)' <=> u \in Growing(n)
    BY Others
  <1> QED BY <1>1, <1>2, <1>3, <1>4, <1>5, <1>6

\* What is known of a usable node, with the number of threads that refer to it.
LEMMA UsableNodes ==
  ASSUME PoolInv, NEW n \in Usable
  PROVE  LET c == Cardinality(Referring(n))
         IN  /\ n \in Live /\ n \in Nodes /\ c \in Nat /\ c <= Cardinality(Threads)
             /\ c = 0 <=> Referring(n) = {}
             /\ \A t, u \in Holders(n) : t = u
             /\ Growing(n) = {} /\ RefKnown(n, c)
             /\ ref[n] \in Nat /\ ref[n] < 2 * FreeBit
             /\ ref[n] < FreeBit <=> ref[n] # FreeBit + c
  <1> DEFINE c == Cardinality(Referring(n))
  <1>1. n \in Live /\ n \in Nodes /\ NodeKnown(n)
    BY Types
  <1>2. IsFiniteSet(Referring(n))
    BY OfThreads, FS_Subset
  <1>3. c \in Nat /\ c <= Cardinality(Threads) /\ (c = 0 <=> Referring(n) = {})
    BY <1>2, OfThreads, FS_Subset, FS_CardinalityType, FS_EmptySet
  <1>4. Growing(n) = {}
    BY Types DEF Growing, GrowerKnown
  <1>5. (\A t, u \in Holders(n) : t = u) /\ RefKnown(n, c)
    BY <1>1 DEF NodeKnown
  <1>6. Cardinality(Threads) \in Nat /\ FreeBit \in Nat /\ FreeBit = Cardinality(Threads) + 2
    BY Bits
  <1>7. ref[n] \in 0 .. 2 * FreeBit - 1
    BY <1>1, Types
  <1> HIDE DEF c
  <1>8. ref[n] < FreeBit <=> ref[n] # FreeBit + c
    BY <1>3, <1>5, <1>6, <1>7 DEF RefKnown
  <1>9. ref[n] \in Nat /\ ref[n] < 2 * FreeBit
    BY <1>6, <1>7
  <1> QED BY <1>1, <1>3, <1>4, <1>5, <1>8, <1>9 DEF c

LEMMA OtherNodes ==
  ASSUME PoolInv, NEW t \in Threads, Alone(t), NEW n \in Live, NodeKnown(n)',
         UNCHANGED <<maxChunkCount, chunkIndex>>,
         \A m \in Live \ {n} : /\ ref'[m] = ref[m]
                               /\ t \in AsOwner(m)' <=> t \in AsOwner(m)
                               /\ t \in Storing(m)' <=> t \in Storing(m)
                               /\ t \in WithListRef(m)' <=> t \in WithListRef(m)
                               /\ t \in Growing(m)' <=> t \in Growing(m)
                               /\ t \in Referring(m)' <=> t \in Referring(m)
  PROVE  /\ \A m \in Live : NodeKnown(m)'
         /\ n \notin Listing' => Listing' = Listing \ {n}
         /\ n \in Listing' => Listing' = Listing \cup {n}
  <1>1. Live' = Live /\ Usable' = Usable
    BY NodesFixed
  <1>2. ASSUME NEW m \in Live \ {n} PROVE NodeKnown(m)' /\ Holders(m)' = Holders(m)
    BY <1>1, NodeKept, Types
  <1>3. \A m \in Live \ {n} : m \in Listing' <=> m \in Listing
    BY <1>1, <1>2 DEF Listing
  <1>4. Listing \subseteq Live /\ Listing' \subseteq Live
    BY <1>1 DEF Listing, Usable
  <1> QED BY <1>2, <1>3, <1>4

\* The list stays as it is.
LEMMA ListKept ==
  ASSUME PoolInv, NEW t \in Threads, Alone(t), UNCHANGED <<maxChunkCount, chunkIndex, head>>,
         Listing' = Listing, \A n \in Listing : next'[n] = next[n],
         pc'[t] \notin {"growLoad", "growCas"}
  PROVE  /\ \A u \in Threads : GrowerKnown(u)'
         /\ Chain(Listing', head', next')
         /\ Connected(Listing, head, next) => Connected(Listing', head', next')
  <1>1. Live' = Live /\ Usable' = Usable
    BY NodesFixed
  <1>2. /\ Chain(Listing, head, next')
        /\ Connected(Listing, head, next) => Connected(Listing, head, next')
        /\ \A x : Spare(Listing, head, next, x) => Spare(Listing, head, next', x)
    BY Types, SameList
  <1>3. ASSUME NEW u \in Threads PROVE GrowerKnown(u)'
    <2>1. pc'[u] \in {"growLoad", "growCas"} =>
            /\ pc[u] \in {"growLoad", "growCas"}
            /\ popped'[u] = popped[u] /\ nextHead'[u] = nextHead[u]
      BY DEF Alone
    <2>2. GrowerKnown(u)
      BY Types
    <2> QED BY <1>1, <1>2, <2>1, <2>2 DEF GrowerKnown
  <1> QED BY <1>2, <1>3

LEMMA NodeStep ==
  ASSUME PoolInv, NEW t \in Threads, Alone(t), TypeOK',
         UNCHANGED <<maxChunkCount, chunkIndex, chunkCount, head>>,
         \A u \in Threads \ {t} : mutex' = u <=> mutex = u,
         NEW n \in Live, NodeKnown(n)', n \in Listing' <=> n \in Listing,
         \A m \in Live \ {n} : /\ ref'[m] = ref[m]
                               /\ t \in AsOwner(m)' <=> t \in AsOwner(m)
                               /\ t \in Storing(m)' <=> t \in Storing(m)
                               /\ t \in WithListRef(m)' <=> t \in WithListRef(m)
                               /\ t \in Growing(m)' <=> t \in Growing(m)
                               /\ t \in Referring(m)' <=> t \in Referring(m),
         ThreadKnown(t)', pc'[t] \notin {"growLoad", "growCas"}, GrowthKnown',
         next' = next \/ (/\ n \notin Listing /\ \A m \in Live \ {n} : next'[m] = next[m]
                          /\ Referring(n) = {} /\ WithListRef(n) = {})
  PROVE  PoolInv'
  <1>1. /\ \A m \in Live : NodeKnown(m)'
        /\ n \notin Listing' => Listing' = Listing \ {n}
        /\ n \in Listing' => Listing' = Listing \cup {n}
    BY OtherNodes
  <1>2. Listing' = Listing
    BY <1>1
  <1>3. \A m \in Listing : next'[m] = next[m]
    BY Types
  <1>4. ASSUME NEW u \in Threads \ {t}
        PROVE  /\ At(u, "casHead") => next'[popped[u]] = next[popped[u]]
               /\ At(u, "pushCas") => next'[pushed[u]] = next[pushed[u]]
    <2>1. At(u, "casHead") => popped[u] \in Live /\ u \in Referring(popped[u])
      BY Types DEF ThreadKnown, Referring, At
    <2>2. At(u, "pushCas") => pushed[u] \in Live /\ u \in WithListRef(pushed[u])
      BY Types DEF ThreadKnown, WithListRef, Releasing, At, PushLabels
    <2> QED BY <2>1, <2>2
  <1>5. /\ \A u \in Threads : GrowerKnown(u)'
        /\ Chain(Listing', head', next')
        /\ Connected(Listing, head, next) => Connected(Listing', head', next')
    BY <1>2, <1>3, ListKept
  <1> QED BY <1>1, <1>4, <1>5, Assembled

LEMMA AddRefWonStep ==
  ASSUME PoolInv, NEW t \in Threads, AddRef(t), ref[popped[t]] = seenRef[t]
  PROVE  PoolInv'
  <1> USE Types DEF Goto, At, list, growth, acquiring, pushing
  <1>1. PICK n : n = popped[t]
    OBVIOUS
  <1>2. /\ pc[t] = "addRef" /\ ref' = [ref EXCEPT ![n] = Plus(ref[n], 1)]
        /\ pc' = [pc EXCEPT ![t] = "loadNext"] /\ seenRef' = [seenRef EXCEPT ![t] = 0]
        /\ UNCHANGED <<head, next, growth, held, popped, prevHead, nextHead, seenCount, acquires,
                       pushing>>
    BY <1>1 DEF AddRef
  <1>3. n \in Usable /\ n \in Live /\ n \in Nodes /\ ref[n] \notin {0, FreeBit}
    BY <1>1, <1>2 DEF ThreadKnown, AddRef
  <1>4. Alone(t)
    BY <1>2 DEF Alone
  <1>5. Nodes' = Nodes /\ Live' = Live /\ Usable' = Usable
    BY <1>2, NodesFixed
  <1>6. ASSUME NEW m \in Live
        PROVE  /\ m # n => ref'[m] = ref[m]
               /\ t \in AsOwner(m)' <=> t \in AsOwner(m)
               /\ t \in Storing(m)' <=> t \in Storing(m)
               /\ t \in WithListRef(m)' <=> t \in WithListRef(m)
               /\ t \in Growing(m)' <=> t \in Growing(m)
               /\ m # n => (t \in Referring(m)' <=> t \in Referring(m))
    BY <1>1, <1>2 DEF AsOwner, Owning, Releasing, Storing, WithListRef, Taking,
                      Growing, Referring, ThreadKnown
  <1>7. t \notin Referring(n) /\ t \in Referring(n)'
    BY <1>1, <1>2 DEF Referring, Taking
  <1> DEFINE c == Cardinality(Referring(n))
  <1>8. /\ c \in Nat /\ c' \in Nat /\ c' = c + 1 /\ c' <= Cardinality(Threads)
        /\ Cardinality(Threads) \in Nat /\ FreeBit = Cardinality(Threads) + 2 /\ FreeBit \in Nat
    BY <1>4, <1>7, Recount, Bits
  <1>9. /\ (\A u, v \in Holders(n) : u = v) /\ RefKnown(n, c)
        /\ ref[n] < FreeBit <=> ref[n] # FreeBit + c
    BY <1>3, UsableNodes
  <1>10. ref'[n] = ref[n] + 1
    <2>1. ref[n] \in 0 .. 2 * FreeBit - 1
      BY <1>3
    <2>2. ref[n] + 1 < 2 * FreeBit
      BY ONLY <1>8, <1>9, <2>1 DEF RefKnown
    <2> QED BY <1>2, <1>3, <2>1, <2>2, Bits
  <1>11. /\ AsOwner(n)' = AsOwner(n) /\ Storing(n)' = Storing(n)
         /\ WithListRef(n)' = WithListRef(n) /\ Holders(n)' = Holders(n)
    <2>1. /\ AsOwner(n)' = AsOwner(n) /\ Storing(n)' = Storing(n)
          /\ WithListRef(n)' = WithListRef(n) /\ Growing(n)' = Growing(n)
      BY <1>3, <1>4, <1>6, SetsAfter DEF Follows
    <2> QED BY <2>1 DEF Holders
  <1>12. RefKnown(n, c)' /\ (ref'[n] < FreeBit <=> ref[n] < FreeBit)
    BY ONLY <1>3, <1>8, <1>9, <1>10, <1>11 DEF RefKnown
  <1>13. NodeKnown(n)'
    BY <1>3, <1>5, <1>9, <1>11, <1>12 DEF NodeKnown
  <1>14. n \in Listing' <=> n \in Listing
    BY <1>3, <1>5, <1>11, <1>12 DEF Listing
  <1>15. TypeOK'
    <2>1. ref' \in [Nodes -> 0 .. 2 * FreeBit - 1]
      BY <1>2, <1>3, Bits
    <2>2. seenRef' \in [Threads -> 0 .. 2 * FreeBit - 1]
      BY <1>2, <1>8
    <2> QED BY <1>2, <1>5, <2>1, <2>2 DEF TypeOK, Pointers, Labels
  <1>16. ThreadKnown(t)'
    BY <1>2, <1>5 DEF ThreadKnown, PushLabels
  <1>17. GrowthKnown'
    <2>1. t \in Pending' => t \in Pending
      BY <1>2 DEF Pending
    <2> QED BY <1>2, <1>4, <2>1, PendingKept
  <1> QED BY <1>2, <1>3, <1>4, <1>6, <1>13, <1>14, <1>15, <1>16, <1>17, NodeStep

LEMMA DropRefsStep ==
  ASSUME PoolInv, NEW t \in Threads, DropRefs(t)
  PROVE  PoolInv'
  <1> USE Types DEF Goto, At, list, growth, acquiring, pushing
  <1>1. PICK n : n = popped[t]
    OBVIOUS
  <1>2. /\ pc[t] = "dropRefs" /\ ref' = [ref EXCEPT ![n] = Plus(ref[n], 2 * FreeBit - 2)]
        /\ held' = [held EXCEPT ![t] = held[t] \cup {n}]
        /\ mutex' = (IF mutex = t THEN Nil ELSE mutex)
        /\ popped' = [popped EXCEPT ![t] = Nil] /\ prevHead' = [prevHead EXCEPT ![t] = Nil]
        /\ nextHead' = [nextHead EXCEPT ![t] = Nil] /\ pc' = [pc EXCEPT ![t] = "idle"]
        /\ UNCHANGED <<head, next, maxChunkCount, chunkIndex, chunkCount, seenRef, seenCount,
                       acquires, pushing>>
    BY <1>1 DEF DropRefs, Return
  <1>3. n \in Usable /\ n \in Live /\ n \in Nodes /\ pushed[t] = Nil
    BY <1>1, <1>2 DEF ThreadKnown, PushLabels
  <1>4. Alone(t)
    BY <1>2 DEF Alone
  <1>5. Nodes' = Nodes /\ Live' = Live /\ Usable' = Usable
    BY <1>2, NodesFixed
  <1>6. ASSUME NEW m \in Live \ {n}
        PROVE  /\ ref'[m] = ref[m]
               /\ t \in AsOwner(m)' <=> t \in AsOwner(m)
               /\ t \in Storing(m)' <=> t \in Storing(m)
               /\ t \in WithListRef(m)' <=> t \in WithListRef(m)
               /\ t \in Growing(m)' <=> t \in Growing(m)
               /\ t \in Referring(m)' <=> t \in Referring(m)
    BY <1>1, <1>2, <1>3 DEF AsOwner, Owning, Releasing, Storing, WithListRef, Taking,
                            Growing, Referring
  <1>7. /\ t \in Referring(n) /\ t \notin Referring(n)'
        /\ t \in WithListRef(n) /\ t \notin WithListRef(n)' /\ t \in AsOwner(n)'
        /\ t \notin Storing(n)' /\ t \notin Growing(n)'
    BY <1>1, <1>2, <1>3 DEF Referring, Taking, WithListRef, AsOwner, Owning, Releasing,
                            Storing, Growing
  <1> DEFINE c == Cardinality(Referring(n))
  <1>8. /\ c \in Nat /\ c' \in Nat /\ c' = c - 1 /\ c <= Cardinality(Threads)
        /\ Cardinality(Threads) \in Nat /\ FreeBit = Cardinality(Threads) + 2 /\ FreeBit \in Nat
    BY <1>4, <1>7, Recount, Bits
  <1>9. /\ \A u, v \in Holders(n) : u = v
        /\ RefKnown(n, c)
    BY <1>3, UsableNodes
  <1>10. ref[n] = c + 1 /\ AsOwner(n) = {} /\ Storing(n) = {}
    BY <1>7, <1>9 DEF RefKnown
  <1>11. ref'[n] = c'
    <2>1. ref[n] \in 0 .. 2 * FreeBit - 1 /\ 2 <= ref[n]
      BY <1>3, <1>8, <1>10
    <2>2. ref'[n] = ref[n] - 2
      BY <1>2, <1>3, <2>1, Bits
    <2> QED BY <1>8, <1>10, <2>2
  <1>12. /\ AsOwner(n)' = {t} /\ Storing(n)' = {} /\ WithListRef(n)' = {}
         /\ Growing(n)' = {} /\ Holders(n)' = {t}
    <2>1. WithListRef(n) = {t} /\ Growing(n) = {}
      BY <1>3, <1>7, <1>9, UsableNodes DEF Holders
    <2>2. AsOwner(n)' = {t} /\ Storing(n)' = {} /\ WithListRef(n)' = {} /\ Growing(n)' = {}
      BY <1>4, <1>7, <1>10, <2>1, SetsAfter DEF Follows
    <2> QED BY <2>2 DEF Holders
  <1>13. NodeKnown(n)'
    BY <1>3, <1>5, <1>11, <1>12 DEF NodeKnown, RefKnown
  <1>14. n \in Listing' <=> n \in Listing
    BY <1>7, <1>12 DEF Listing, Holders
  <1>15. TypeOK'
    <2>1. ref' \in [Nodes -> 0 .. 2 * FreeBit - 1]
      <3>1. 2 * FreeBit - 2 \in Nat
        BY <1>8
      <3> QED BY <1>2, <1>3, <3>1, Bits
    <2>2. held' \in [Threads -> SUBSET Nodes]
      BY <1>2, <1>3
    <2> QED BY <1>2, <1>5, <2>1, <2>2 DEF TypeOK, Pointers, Labels
  <1>16. ThreadKnown(t)'
    <2>1. held'[t] \subseteq Live
      BY <1>2, <1>3 DEF ThreadKnown
    <2>2. mutex' # t /\ pushed'[t] = Nil /\ pc'[t] = "idle"
      BY <1>2, <1>3
    <2> QED BY <1>5, <2>1, <2>2 DEF ThreadKnown, PushLabels
  <1>17. \A u \in Threads \ {t} : mutex' = u <=> mutex = u
    BY <1>2
  <1>18. GrowthKnown'
    <2>1. t \in Pending' => t \in Pending
      BY <1>2 DEF Pending
    <2> QED BY <1>2, <1>4, <1>17, <2>1, PendingKept
  <1> QED BY <1>2, <1>3, <1>4, <1>6, <1>13, <1>14, <1>15, <1>16, <1>17, <1>18, NodeStep

LEMMA UndoStep ==
  ASSUME PoolInv, NEW t \in Threads, Undo(t)
  PROVE  PoolInv'
  <1> USE Types DEF Goto, At, list, growth, acquiring, pushing
  <1>1. PICK n : n = prevHead[t]
    OBVIOUS
  <1> DEFINE last == ref[n] = FreeBit + 1
  <1>2. /\ pc[t] = "undo" /\ ref' = [ref EXCEPT ![n] = Plus(ref[n], 2 * FreeBit - 1)]
        /\ UNCHANGED <<head, next, growth, held, acquiring, pushHead>>
    BY <1>1 DEF Undo
  <1>3. /\ last => /\ pushed' = [pushed EXCEPT ![t] = n]
                   /\ back' = [back EXCEPT ![t] = Loop(popped[t])]
                   /\ pc' = [pc EXCEPT ![t] = "pushLoad"]
        /\ ~last => /\ pc' = [pc EXCEPT ![t] = Loop(popped[t])]
                    /\ UNCHANGED <<pushed, back>>
    BY <1>1 DEF Undo
  <1> HIDE DEF last
  <1>4. /\ n \in Usable /\ n \in Live /\ n \in Nodes /\ pushed[t] = Nil
        /\ popped[t] \in Usable \cup {Nil}
    BY <1>1, <1>2 DEF ThreadKnown, PushLabels
  <1>5. /\ Loop(popped[t]) \in {"exhausted", "loadRef"}
        /\ Loop(popped[t]) = "loadRef" => popped[t] \in Usable
    BY <1>4 DEF Loop
  <1>6. Alone(t)
    <2>1. CASE last
      BY <1>2, <1>3, <2>1 DEF Alone
    <2>2. CASE ~last
      BY <1>2, <1>3, <2>2 DEF Alone
    <2> QED BY <2>1, <2>2
  <1>7. Nodes' = Nodes /\ Live' = Live /\ Usable' = Usable
    BY <1>2, NodesFixed
  <1>8. /\ held'[t] = held[t] /\ popped'[t] = popped[t] /\ prevHead'[t] = n
        /\ last => pc'[t] = "pushLoad" /\ pushed'[t] = n
        /\ ~last => pc'[t] \in {"exhausted", "loadRef"} /\ pushed'[t] = Nil
    BY <1>1, <1>2, <1>3, <1>4, <1>5
  <1>9. ASSUME NEW m \in Live
        PROVE  /\ m # n => /\ ref'[m] = ref[m]
                           /\ t \in Storing(m)' <=> t \in Storing(m)
                           /\ t \in Referring(m)' <=> t \in Referring(m)
               /\ t \in AsOwner(m)' <=> t \in AsOwner(m)
               /\ t \in WithListRef(m)' <=> t \in WithListRef(m)
               /\ t \in Growing(m)' <=> t \in Growing(m)
    BY <1>1, <1>2, <1>4, <1>8 DEF AsOwner, Owning, Releasing, Storing, WithListRef, Taking,
                                  Growing, Referring
  <1>10. /\ t \in Referring(n) /\ t \notin Referring(n)'
         /\ t \notin Storing(n) /\ (t \in Storing(n)' <=> last)
    BY <1>1, <1>2, <1>4, <1>8 DEF Referring, Taking, Releasing, Storing
  <1> DEFINE c == Cardinality(Referring(n))
  <1>11. /\ c \in Nat /\ c' \in Nat /\ c' = c - 1 /\ c <= Cardinality(Threads)
         /\ Cardinality(Threads) \in Nat /\ FreeBit = Cardinality(Threads) + 2 /\ FreeBit \in Nat
    BY <1>6, <1>10, Recount, Bits
  <1>12. /\ \A u, v \in Holders(n) : u = v
         /\ RefKnown(n, c) /\ Growing(n) = {}
         /\ ref[n] < FreeBit <=> ref[n] # FreeBit + c
    BY <1>4, UsableNodes
  <1>13. ref'[n] = ref[n] - 1 /\ ref[n] \in Nat
    <2>1. ref[n] \in 0 .. 2 * FreeBit - 1
      BY <1>4
    <2>2. 1 <= ref[n]
      BY ONLY <1>11, <1>12, <2>1 DEF RefKnown
    <2> QED BY <1>2, <1>4, <2>1, <2>2, Bits
  <1>14. /\ AsOwner(n)' = AsOwner(n) /\ WithListRef(n)' = WithListRef(n)
         /\ Growing(n)' = {}
         /\ last => Storing(n)' = Storing(n) \cup {t}
         /\ ~last => Storing(n)' = Storing(n)
    BY <1>4, <1>6, <1>9, <1>10, <1>12, SetsAfter DEF Follows
  <1>15. last => ref[n] = FreeBit + 1 /\ c = 1 /\ AsOwner(n) = {} /\ WithListRef(n) = {} /\ Storing(n) = {}
    <2>1. last => ref[n] = FreeBit + 1
      BY DEF last
    <2> QED BY ONLY <1>11, <1>12, <2>1 DEF RefKnown
  <1>16. ~last => ref[n] # FreeBit + 1
    BY DEF last
  <1>17. RefKnown(n, c)' /\ (ref'[n] < FreeBit <=> ref[n] < FreeBit)
    <2>1. CASE last
      <3>1. c' = 0 /\ ref'[n] = FreeBit /\ t \in Storing(n)'
        BY <1>10, <1>11, <1>13, <1>15, <2>1
      <3> QED BY <1>11, <1>14, <1>15, <2>1, <3>1 DEF RefKnown
    <2>2. CASE ~last
      BY ONLY <1>10, <1>11, <1>12, <1>13, <1>14, <1>16, <2>2 DEF RefKnown
    <2> QED BY <2>1, <2>2
  <1>18. \A u, v \in Holders(n)' : u = v
    BY <1>12, <1>14, <1>15 DEF Holders
  <1>19. NodeKnown(n)'
    BY <1>4, <1>7, <1>17, <1>18 DEF NodeKnown
  <1>20. n \in Listing' <=> n \in Listing
    <2>1. CASE last
      BY <1>11, <1>15, <1>17, <2>1 DEF Listing
    <2>2. CASE ~last
      BY <1>4, <1>7, <1>12, <1>14, <1>17, <2>2 DEF Listing, Holders
    <2> QED BY <2>1, <2>2
  <1>21. TypeOK'
    <2>1. ref' \in [Nodes -> 0 .. 2 * FreeBit - 1]
      <3>1. 2 * FreeBit - 1 \in Nat
        BY <1>11
      <3> QED BY <1>2, <1>4, <3>1, Bits
    <2>2. pushed' \in [Threads -> Nodes \cup {Nil}] /\ pc' \in [Threads -> Labels]
          /\ back' \in [Threads -> {"idle", "exhausted", "loadRef"}]
      <3>1. Loop(popped[t]) \in Labels
        BY <1>5 DEF Labels
      <3>2. "pushLoad" \in Labels
        BY DEF Labels
      <3>3. CASE last
        <4>1. /\ pushed' = [pushed EXCEPT ![t] = n] /\ pc' = [pc EXCEPT ![t] = "pushLoad"]
              /\ back' = [back EXCEPT ![t] = Loop(popped[t])]
          BY <1>3, <3>3
        <4>2. pushed' \in [Threads -> Nodes \cup {Nil}]
          BY <1>4, <4>1 DEF Pointers
        <4>3. pc' \in [Threads -> Labels]
          BY <3>2, <4>1
        <4>4. back' \in [Threads -> {"idle", "exhausted", "loadRef"}]
          BY <1>5, <4>1
        <4> QED BY <4>2, <4>3, <4>4
      <3>4. CASE ~last
        <4>1. /\ pushed' = pushed /\ back' = back
              /\ pc' = [pc EXCEPT ![t] = Loop(popped[t])]
          BY <1>3, <3>4
        <4> QED BY <3>1, <4>1 DEF Pointers
      <3> QED BY <3>3, <3>4
    <2> QED BY <1>2, <1>7, <2>1, <2>2 DEF TypeOK, Pointers
  <1>22. ThreadKnown(t)' /\ pc'[t] \notin {"growLoad", "growCas", "grow", "idle", "lockChunks"}
    <2>1. CASE last
      <3>1. back'[t] = Loop(popped[t])
        BY <1>3, <2>1
      <3> QED BY <1>2, <1>4, <1>5, <1>7, <1>8, <2>1, <3>1 DEF ThreadKnown, PushLabels
    <2>2. CASE ~last
      <3>1. pc'[t] = Loop(popped[t])
        BY <1>3, <2>2
      <3> QED BY <1>2, <1>4, <1>5, <1>7, <1>8, <2>2, <3>1 DEF ThreadKnown, PushLabels
    <2> QED BY <2>1, <2>2
  <1>23. GrowthKnown'
    <2>1. t \in Pending' => t \in Pending
      BY <1>2, <1>22 DEF Pending
    <2> QED BY <1>2, <1>6, <2>1, PendingKept
  <1> QED BY <1>2, <1>4, <1>6, <1>9, <1>19, <1>20, <1>21, <1>22, <1>23, NodeStep

LEMMA SetFreeStep ==
  ASSUME PoolInv, NEW t \in Threads, SetFree(t)
  PROVE  PoolInv'
  <1> USE Types DEF Goto, At, list, growth, acquiring, pushing
  <1>1. PICK n : n = pushed[t]
    OBVIOUS
  <1> DEFINE push == ref[n] = 0
  <1>2. /\ pc[t] = "setFree" /\ ref' = [ref EXCEPT ![n] = Plus(ref[n], FreeBit)]
        /\ UNCHANGED <<head, next, growth, held, acquiring, pushHead, back>>
    BY <1>1 DEF SetFree
  <1>3. /\ push => pc' = [pc EXCEPT ![t] = "pushLoad"] /\ UNCHANGED pushed
        /\ ~push => pc' = [pc EXCEPT ![t] = "idle"] /\ pushed' = [pushed EXCEPT ![t] = Nil]
    BY <1>1 DEF SetFree
  <1> HIDE DEF push
  <1>4. n \in Live /\ n \in Nodes /\ n \notin held[t] /\ back[t] = "idle" /\ mutex # t
    BY <1>1, <1>2 DEF ThreadKnown, PushLabels
  <1>5. Alone(t)
    <2>1. CASE push
      BY <1>2, <1>3, <2>1 DEF Alone
    <2>2. CASE ~push
      BY <1>2, <1>3, <2>2 DEF Alone
    <2> QED BY <2>1, <2>2
  <1>6. Nodes' = Nodes /\ Live' = Live /\ Usable' = Usable
    BY <1>2, NodesFixed
  <1>7. /\ held'[t] = held[t] /\ popped'[t] = popped[t] /\ prevHead'[t] = prevHead[t]
        /\ push => pc'[t] = "pushLoad" /\ pushed'[t] = n
        /\ ~push => pc'[t] = "idle" /\ pushed'[t] = Nil
    BY <1>1, <1>2, <1>3
  <1>8. ASSUME NEW m \in Live \ {n}
        PROVE  /\ ref'[m] = ref[m]
               /\ t \in AsOwner(m)' <=> t \in AsOwner(m)
               /\ t \in Storing(m)' <=> t \in Storing(m)
               /\ t \in WithListRef(m)' <=> t \in WithListRef(m)
               /\ t \in Growing(m)' <=> t \in Growing(m)
               /\ t \in Referring(m)' <=> t \in Referring(m)
    BY <1>1, <1>2, <1>7 DEF AsOwner, Owning, Releasing, Storing, WithListRef, Taking,
                            Growing, Referring
  <1>9. /\ t \in Referring(n)' <=> t \in Referring(n)
        /\ t \in AsOwner(n) /\ t \notin AsOwner(n)' /\ (t \in Storing(n)' <=> push)
        /\ t \notin WithListRef(n)' /\ t \notin Growing(n)'
    BY <1>1, <1>2, <1>4, <1>7 DEF Referring, Taking, WithListRef, AsOwner, Owning, Releasing,
                            Storing, Growing
  <1>10. (\A u, v \in Holders(n) : u = v) /\ Holders(n) = {t}
    <2>1. \A u, v \in Holders(n) : u = v
      BY <1>4 DEF NodeKnown
    <2> QED BY <1>9, <2>1 DEF Holders
  <1>11. /\ AsOwner(n)' = {} /\ WithListRef(n)' = {} /\ Growing(n)' = {}
         /\ Storing(n)' = IF push THEN {t} ELSE {}
    <2>1. /\ AsOwner(n) \subseteq {t} /\ WithListRef(n) \subseteq {t}
          /\ Growing(n) \subseteq {t} /\ Storing(n) \subseteq {t}
      BY <1>10 DEF Holders
    <2>2. AsOwner(n)' = {}
      BY <1>5, <1>9, <2>1, SetsAfter DEF Follows
    <2>3. WithListRef(n)' = {} /\ Growing(n)' = {}
      BY <1>5, <1>9, <2>1, SetsAfter DEF Follows
    <2>4. Storing(n)' = IF push THEN {t} ELSE {}
      BY <1>5, <1>9, <2>1, SetsAfter DEF Follows
    <2> QED BY <2>2, <2>3, <2>4
  <1> DEFINE c == Cardinality(Referring(n))
  <1>12. /\ c \in Nat /\ c' = c /\ c <= Cardinality(Threads)
         /\ Cardinality(Threads) \in Nat /\ FreeBit = Cardinality(Threads) + 2 /\ FreeBit \in Nat
    BY <1>5, <1>9, Recount, Bits
  <1>13. ref[n] = IF n \in Usable THEN c ELSE 1
    <2>1. CASE n \in Usable
      <3>1. RefKnown(n, c)
        BY <2>1, UsableNodes
      <3>2. AsOwner(n) # {}
        BY <1>9
      <3> QED BY ONLY <2>1, <3>1, <3>2 DEF RefKnown
    <2>2. CASE n \notin Usable
      BY <1>4, <1>10, <2>2 DEF NodeKnown
    <2> QED BY <2>1, <2>2
  <1>14. ref'[n] = ref[n] + FreeBit /\ ref[n] \in Nat
    <2>1. ref[n] \in 0 .. 2 * FreeBit - 1
      BY <1>4
    <2>2. ref[n] < FreeBit
      BY <1>12, <1>13
    <2> QED BY <1>2, <1>4, <2>1, <2>2, Bits
  <1>15. Holders(n)' = IF push THEN {t} ELSE {}
    BY <1>11 DEF Holders
  <1>16. NodeKnown(n)'
    <2>1. \A u, v \in Holders(n)' : u = v
      BY <1>15
    <2>2. CASE n \in Usable
      <3>1. push <=> c = 0
        BY <1>13, <2>2 DEF push
      <3>2. ref'[n] = FreeBit + c'
        BY <1>12, <1>13, <1>14, <2>2
      <3>3. Storing(n)' # {} <=> c' = 0
        BY <1>11, <1>12, <3>1
      <3>4. RefKnown(n, c)'
        BY <1>11, <3>2, <3>3 DEF RefKnown
      <3> QED BY <1>6, <2>1, <2>2, <3>4 DEF NodeKnown
    <2>3. CASE n \notin Usable
      <3>1. ~push /\ ref'[n] = FreeBit + 1
        BY <1>12, <1>13, <1>14, <2>3 DEF push
      <3> QED BY <1>6, <1>15, <2>1, <2>3, <3>1 DEF NodeKnown
    <2> QED BY <2>2, <2>3
  <1>17. n \in Listing' <=> n \in Listing
    <2>1. n \notin Listing
      BY <1>10 DEF Listing
    <2>2. ~(ref'[n] < FreeBit)
      BY <1>12, <1>14
    <2> QED BY <2>1, <2>2 DEF Listing
  <1>18. TypeOK'
    <2>1. ref' \in [Nodes -> 0 .. 2 * FreeBit - 1]
      BY <1>2, <1>4, <1>12, Bits
    <2>2. pushed' \in [Threads -> Nodes \cup {Nil}] /\ pc' \in [Threads -> Labels]
      <3>1. CASE push
        BY <1>3, <3>1 DEF Pointers, Labels
      <3>2. CASE ~push
        BY <1>3, <3>2 DEF Pointers, Labels
      <3> QED BY <3>1, <3>2
    <2> QED BY <1>2, <1>6, <2>1, <2>2 DEF TypeOK, Pointers
  <1>19. ThreadKnown(t)' /\ pc'[t] \in {"pushLoad", "idle"}
    <2>1. CASE push
      <3>1. n \in Usable
        BY <1>13, <2>1 DEF push
      <3> QED BY <1>2, <1>4, <1>6, <1>7, <2>1, <3>1 DEF ThreadKnown, PushLabels
    <2>2. CASE ~push
      BY <1>2, <1>4, <1>6, <1>7, <2>2 DEF ThreadKnown, PushLabels
    <2> QED BY <2>1, <2>2
  <1>20. GrowthKnown'
    <2>1. t \in Pending' => t \in Pending
      BY <1>2, <1>4, <1>19 DEF Pending
    <2> QED BY <1>2, <1>5, <2>1, PendingKept
  <1> QED BY <1>2, <1>4, <1>5, <1>8, <1>16, <1>17, <1>18, <1>19, <1>20, NodeStep

LEMMA PushStoreStep ==
  ASSUME PoolInv, NEW t \in Threads, PushStore(t)
  PROVE  PoolInv'
  <1> USE Types DEF Goto, At, list, growth, acquiring, pushing
  <1>1. PICK n : n = pushed[t]
    OBVIOUS
  <1>2. /\ pc[t] = "pushStore" /\ ref' = [ref EXCEPT ![n] = 1]
        /\ next' = [next EXCEPT ![n] = pushHead[t]]
        /\ pc' = [pc EXCEPT ![t] = "pushCas"]
        /\ UNCHANGED <<head, growth, held, acquiring, pushing>>
    BY <1>1 DEF PushStore
  <1>3. n \in Usable /\ n \in Live /\ n \in Nodes
    BY <1>1, <1>2 DEF ThreadKnown, PushLabels
  <1>4. Alone(t)
    BY <1>2 DEF Alone
  <1>5. Nodes' = Nodes /\ Live' = Live /\ Usable' = Usable
    BY <1>2, NodesFixed
  <1>6. ASSUME NEW m \in Live \ {n}
        PROVE  /\ ref'[m] = ref[m] /\ next'[m] = next[m]
               /\ t \in AsOwner(m)' <=> t \in AsOwner(m)
               /\ t \in Storing(m)' <=> t \in Storing(m)
               /\ t \in WithListRef(m)' <=> t \in WithListRef(m)
               /\ t \in Growing(m)' <=> t \in Growing(m)
               /\ t \in Referring(m)' <=> t \in Referring(m)
    BY <1>1, <1>2 DEF AsOwner, Owning, Releasing, Storing, WithListRef, Taking,
                      Growing, Referring
  <1>7. /\ t \in Referring(n)' <=> t \in Referring(n)
        /\ t \in AsOwner(n)' <=> t \in AsOwner(n)
        /\ t \in Growing(n)' <=> t \in Growing(n)
        /\ t \in Storing(n) /\ t \notin Storing(n)' /\ t \in WithListRef(n)'
    BY <1>1, <1>2 DEF Referring, Taking, WithListRef, AsOwner, Owning, Releasing, Storing, Growing
  <1> DEFINE c == Cardinality(Referring(n))
  <1>8. /\ c \in Nat /\ c' = c /\ (c = 0 <=> Referring(n) = {})
        /\ Cardinality(Threads) \in Nat /\ FreeBit = Cardinality(Threads) + 2 /\ FreeBit \in Nat
    BY <1>4, <1>7, Recount, Bits
  <1>9. (\A u, v \in Holders(n) : u = v) /\ RefKnown(n, c) /\ Growing(n) = {}
    BY <1>3, UsableNodes
  <1>10. c = 0 /\ AsOwner(n) = {} /\ WithListRef(n) = {}
    BY <1>7, <1>9 DEF RefKnown
  <1>11. ref'[n] = 1
    BY <1>2, <1>3
  <1>12. /\ AsOwner(n)' = {} /\ Storing(n)' = {} /\ WithListRef(n)' = {t}
         /\ Growing(n)' = {} /\ Holders(n)' = {t}
    <2>1. Storing(n) = {t}
      BY <1>7, <1>9 DEF Holders
    <2>2. AsOwner(n)' = {} /\ Storing(n)' = {} /\ WithListRef(n)' = {t} /\ Growing(n)' = {}
      BY <1>4, <1>7, <1>9, <1>10, <2>1, SetsAfter DEF Follows
    <2> QED BY <2>2 DEF Holders
  <1>13. NodeKnown(n)'
    BY <1>3, <1>5, <1>8, <1>10, <1>11, <1>12 DEF NodeKnown, RefKnown
  <1>14. n \notin Listing /\ n \notin Listing'
    BY <1>7, <1>12 DEF Listing, Holders
  <1>15. TypeOK'
    <2>1. ref' \in [Nodes -> 0 .. 2 * FreeBit - 1]
      <3>1. 1 \in 0 .. 2 * FreeBit - 1
        BY <1>8
      <3> QED BY <1>2, <1>3, <3>1
    <2>2. next' \in [Nodes -> Nodes \cup {Nil}]
      BY <1>2, <1>3 DEF Pointers
    <2> QED BY <1>2, <1>5, <2>1, <2>2 DEF TypeOK, Pointers, Labels
  <1>16. ThreadKnown(t)'
    <2>1. next'[n] = pushHead[t]
      BY <1>2, <1>3
    <2> QED BY <1>1, <1>2, <1>3, <1>5, <2>1 DEF ThreadKnown, PushLabels
  <1>17. GrowthKnown'
    <2>1. t \in Pending' => t \in Pending
      BY <1>2 DEF Pending
    <2> QED BY <1>2, <1>4, <2>1, PendingKept
  <1>18. Referring(n) = {} /\ \A m \in Live \ {n} : next'[m] = next[m]
    BY <1>6, <1>8, <1>10
  <1> QED BY <1>2, <1>3, <1>4, <1>6, <1>10, <1>13, <1>14, <1>15, <1>16, <1>17, <1>18, NodeStep

LEMMA PushUndoStep ==
  ASSUME PoolInv, NEW t \in Threads, PushUndo(t)
  PROVE  PoolInv'
  <1> USE Types DEF Goto, At, list, growth, acquiring, pushing
  <1>1. PICK n : n = pushed[t]
    OBVIOUS
  <1> DEFINE again == ref[n] = 1
  <1>2. /\ pc[t] = "pushUndo" /\ ref' = [ref EXCEPT ![n] = Plus(ref[n], FreeBit - 1)]
        /\ UNCHANGED <<head, next, growth, held, acquiring, back>>
    BY <1>1 DEF PushUndo
  <1>3. /\ again => pc' = [pc EXCEPT ![t] = "pushStore"] /\ UNCHANGED <<pushed, pushHead>>
        /\ ~again => /\ pc' = [pc EXCEPT ![t] = back[t]] /\ pushed' = [pushed EXCEPT ![t] = Nil]
                     /\ pushHead' = [pushHead EXCEPT ![t] = Nil]
    BY <1>1 DEF PushUndo, PushReturn
  <1> HIDE DEF again
  <1>4. /\ n \in Usable /\ n \in Live /\ n \in Nodes
        /\ back[t] \in {"idle", "exhausted", "loadRef"}
        /\ back[t] = "loadRef" => popped[t] \in Usable
        /\ back[t] = "idle" => mutex # t
    BY <1>1, <1>2 DEF ThreadKnown, PushLabels
  <1>5. Alone(t)
    <2>1. CASE again
      BY <1>2, <1>3, <2>1 DEF Alone
    <2>2. CASE ~again
      BY <1>2, <1>3, <2>2 DEF Alone
    <2> QED BY <2>1, <2>2
  <1>6. Nodes' = Nodes /\ Live' = Live /\ Usable' = Usable
    BY <1>2, NodesFixed
  <1>7. /\ held'[t] = held[t] /\ popped'[t] = popped[t] /\ prevHead'[t] = prevHead[t]
        /\ again => pc'[t] = "pushStore" /\ pushed'[t] = n
        /\ ~again => pc'[t] \in {"idle", "exhausted", "loadRef"} /\ pushed'[t] = Nil
    BY <1>1, <1>2, <1>3, <1>4
  <1>8. ASSUME NEW m \in Live \ {n}
        PROVE  /\ ref'[m] = ref[m]
               /\ t \in AsOwner(m)' <=> t \in AsOwner(m)
               /\ t \in Storing(m)' <=> t \in Storing(m)
               /\ t \in WithListRef(m)' <=> t \in WithListRef(m)
               /\ t \in Growing(m)' <=> t \in Growing(m)
               /\ t \in Referring(m)' <=> t \in Referring(m)
    BY <1>1, <1>2, <1>7 DEF AsOwner, Owning, Releasing, Storing, WithListRef, Taking,
                            Growing, Referring
  <1>9. /\ t \in Referring(n)' <=> t \in Referring(n)
        /\ t \in AsOwner(n)' <=> t \in AsOwner(n)
        /\ t \in Growing(n)' <=> t \in Growing(n)
        /\ t \in WithListRef(n) /\ t \notin WithListRef(n)' /\ (t \in Storing(n)' <=> again)
    BY <1>1, <1>2, <1>4, <1>7 DEF Referring, Taking, WithListRef, AsOwner, Owning, Releasing,
                                  Storing, Growing
  <1> DEFINE c == Cardinality(Referring(n))
  <1>10. /\ c \in Nat /\ c' = c /\ c <= Cardinality(Threads)
         /\ Cardinality(Threads) \in Nat /\ FreeBit = Cardinality(Threads) + 2 /\ FreeBit \in Nat
    BY <1>5, <1>9, Recount, Bits
  <1>11. (\A u, v \in Holders(n) : u = v) /\ RefKnown(n, c) /\ Growing(n) = {}
    BY <1>4, UsableNodes
  <1>12. ref[n] = c + 1 /\ AsOwner(n) = {} /\ Storing(n) = {}
    BY <1>9, <1>11 DEF RefKnown
  <1>13. ref'[n] = FreeBit + c
    <2>1. ref[n] \in 0 .. 2 * FreeBit - 1 /\ 1 <= ref[n] /\ ref[n] <= FreeBit
      BY <1>4, <1>10, <1>12
    <2>2. ref'[n] = ref[n] + FreeBit - 1
      BY <1>2, <1>4, <2>1, Bits
    <2> QED BY <1>10, <1>12, <2>2
  <1>14. again <=> c = 0
    BY <1>10, <1>12 DEF again
  <1>15. /\ AsOwner(n)' = {} /\ WithListRef(n)' = {} /\ Growing(n)' = {}
         /\ Storing(n)' = IF again THEN {t} ELSE {}
    <2>1. WithListRef(n) = {t}
      BY <1>9, <1>11 DEF Holders
    <2>2. AsOwner(n)' = {} /\ WithListRef(n)' = {} /\ Growing(n)' = {}
      BY <1>5, <1>9, <1>11, <1>12, <2>1, SetsAfter DEF Follows
    <2>3. Storing(n)' = IF again THEN {t} ELSE {}
      BY <1>5, <1>9, <1>12, SetsAfter DEF Follows
    <2> QED BY <2>2, <2>3
  <1>16. NodeKnown(n)'
    <2>1. \A u, v \in Holders(n)' : u = v
      BY <1>15 DEF Holders
    <2>2. Storing(n)' # {} <=> c' = 0
      BY <1>10, <1>14, <1>15
    <2>3. RefKnown(n, c)'
      BY <1>10, <1>13, <1>15, <2>2 DEF RefKnown
    <2> QED BY <1>4, <1>6, <2>1, <2>3 DEF NodeKnown
  <1>17. n \notin Listing /\ n \notin Listing'
    <2>1. ~(ref'[n] < FreeBit)
      BY <1>10, <1>13
    <2> QED BY <1>9, <2>1 DEF Listing, Holders
  <1>18. TypeOK'
    <2>1. ref' \in [Nodes -> 0 .. 2 * FreeBit - 1]
      <3>1. FreeBit - 1 \in Nat
        BY <1>10
      <3> QED BY <1>2, <1>4, <3>1, Bits
    <2>2. /\ pushed' \in [Threads -> Nodes \cup {Nil}] /\ pc' \in [Threads -> Labels]
          /\ pushHead' \in [Threads -> Nodes \cup {Nil}]
      <3>1. CASE again
        BY <1>3, <3>1 DEF Pointers, Labels
      <3>2. CASE ~again
        <4>1. back[t] \in Labels
          BY <1>4 DEF Labels
        <4> QED BY <1>3, <3>2, <4>1 DEF Pointers
      <3> QED BY <3>1, <3>2
    <2> QED BY <1>2, <1>6, <2>1, <2>2 DEF TypeOK, Pointers
  <1>19. /\ ThreadKnown(t)'
         /\ pc'[t] \in {"pushStore", "idle", "exhausted", "loadRef"} /\ (pc'[t] = "idle" => mutex # t)
    <2>1. CASE again
      BY <1>2, <1>4, <1>6, <1>7, <2>1 DEF ThreadKnown, PushLabels
    <2>2. CASE ~again
      <3>1. pc'[t] = back[t]
        BY <1>3, <2>2
      <3> QED BY <1>2, <1>4, <1>6, <1>7, <2>2, <3>1 DEF ThreadKnown, PushLabels
    <2> QED BY <2>1, <2>2
  <1>20. GrowthKnown'
    <2>1. t \in Pending' => t \in Pending
      BY <1>2, <1>19 DEF Pending
    <2> QED BY <1>2, <1>5, <2>1, PendingKept
  <1> QED BY <1>2, <1>4, <1>5, <1>8, <1>16, <1>17, <1>18, <1>19, <1>20, NodeStep

-----------------------------------------------------------------------------
(* The steps that change the list *)

LEMMA GrowersKept ==
  ASSUME PoolInv, NEW t \in Threads, Alone(t), UNCHANGED <<maxChunkCount, chunkIndex>>,
         pc'[t] \notin {"growLoad", "growCas"},
         \A u \in Threads \ {t} : pc[u] \in {"growLoad", "growCas"} =>
           (Spare(Listing, head, next, nextHead[u]) => Spare(Listing', head', next', nextHead[u]))
  PROVE  \A u \in Threads : GrowerKnown(u)'
  <1> SUFFICES ASSUME NEW u \in Threads PROVE GrowerKnown(u)'
    OBVIOUS
  <1>1. Live' = Live /\ Usable' = Usable
    BY NodesFixed
  <1>2. GrowerKnown(u)
    BY Types
  <1>3. u # t => pc'[u] = pc[u] /\ popped'[u] = popped[u] /\ nextHead'[u] = nextHead[u]
    BY DEF Alone
  <1> QED BY <1>1, <1>2, <1>3 DEF GrowerKnown

LEMMA CasHeadWonStep ==
  ASSUME PoolInv, NEW t \in Threads, CasHead(t), head = popped[t]
  PROVE  PoolInv'
  <1> USE Types DEF Goto, At, list, growth, acquiring, pushing
  <1>1. PICK n : n = popped[t]
    OBVIOUS
  <1>2. /\ pc[t] = "casHead" /\ n = head /\ head' = nextHead[t] /\ nextHead[t] = next[n]
        /\ pc' = [pc EXCEPT ![t] = "dropRefs"]
        /\ UNCHANGED <<ref, next, growth, held, popped, prevHead, nextHead, seenRef, seenCount,
                       acquires, pushing>>
    BY <1>1 DEF CasHead, ThreadKnown
  <1>3. n \in Usable /\ n \in Live /\ n \in Nodes /\ n \in Listing /\ pushed[t] = Nil
    <2>1. n \in Usable /\ pushed[t] = Nil
      BY <1>1, <1>2 DEF ThreadKnown, PushLabels
    <2> QED BY <1>2, <2>1 DEF Chain
  <1>4. Alone(t)
    BY <1>2 DEF Alone
  <1>5. Nodes' = Nodes /\ Live' = Live /\ Usable' = Usable
    BY <1>2, NodesFixed
  <1>6. ASSUME NEW m \in Live \ {n}
        PROVE  /\ ref'[m] = ref[m]
               /\ t \in AsOwner(m)' <=> t \in AsOwner(m)
               /\ t \in Storing(m)' <=> t \in Storing(m)
               /\ t \in WithListRef(m)' <=> t \in WithListRef(m)
               /\ t \in Growing(m)' <=> t \in Growing(m)
               /\ t \in Referring(m)' <=> t \in Referring(m)
    BY <1>1, <1>2, <1>3 DEF AsOwner, Owning, Releasing, Storing, WithListRef, Taking,
                            Growing, Referring, ThreadKnown
  <1>7. /\ t \in Referring(n)' <=> t \in Referring(n)
        /\ t \in AsOwner(n)' <=> t \in AsOwner(n)
        /\ t \in Growing(n)' <=> t \in Growing(n)
        /\ t \in Storing(n)' <=> t \in Storing(n)
        /\ t \in WithListRef(n)'
    BY <1>1, <1>2, <1>3 DEF Referring, Taking, WithListRef, AsOwner, Owning, Releasing, Storing, Growing
  <1> DEFINE c == Cardinality(Referring(n))
  <1>8. c' = c
    BY <1>4, <1>7, Recount
  <1>9. RefKnown(n, c) /\ ref[n] < FreeBit /\ (ref[n] < FreeBit <=> ref[n] # FreeBit + c)
    BY <1>3, UsableNodes DEF Listing
  <1>10. AsOwner(n) = {} /\ Storing(n) = {} /\ WithListRef(n) = {} /\ Growing(n) = {}
    BY <1>3 DEF Listing, Holders
  <1>11. ref[n] = c + 1 /\ ref' = ref
    BY <1>2, <1>9, <1>10 DEF RefKnown
  <1>12. /\ AsOwner(n)' = {} /\ Storing(n)' = {} /\ WithListRef(n)' = {t}
         /\ Growing(n)' = {} /\ Holders(n)' = {t}
    <2>1. AsOwner(n)' = {} /\ Storing(n)' = {} /\ WithListRef(n)' = {t} /\ Growing(n)' = {}
      BY <1>4, <1>7, <1>10, SetsAfter DEF Follows
    <2> QED BY <2>1 DEF Holders
  <1>13. NodeKnown(n)'
    BY <1>3, <1>5, <1>8, <1>11, <1>12 DEF NodeKnown, RefKnown
  <1>14. n \notin Listing'
    BY <1>12 DEF Listing
  <1>15. (\A m \in Live : NodeKnown(m)') /\ Listing' = Listing \ {n}
    BY <1>2, <1>3, <1>4, <1>6, <1>13, <1>14, OtherNodes
  <1>16. /\ Chain(Listing \ {n}, next[n], next)
         /\ Connected(Listing, n, next) => Connected(Listing \ {n}, next[n], next)
         /\ \A x : Spare(Listing, n, next, x) => Spare(Listing \ {n}, next[n], next, x)
    BY <1>2, <1>3, Pop
  <1>17. head' = next[n] /\ next' = next
    BY <1>2
  <1>18. \A u \in Threads : GrowerKnown(u)'
    <2>1. \A x : Spare(Listing, head, next, x) => Spare(Listing', head', next', x)
      <3>1. n = head
        BY <1>2
      <3> QED BY ONLY <3>1, <1>15, <1>16, <1>17
    <2>2. pc'[t] = "dropRefs"
      BY <1>2
    <2> QED BY <1>2, <1>4, <2>1, <2>2, GrowersKept
  <1>19. /\ Chain(Listing', head', next')
         /\ Connected(Listing, head, next) => Connected(Listing', head', next')
    BY <1>2, <1>15, <1>16, <1>17
  <1>20. TypeOK'
    BY <1>2, <1>5 DEF TypeOK, Pointers, Labels
  <1>21. ThreadKnown(t)'
    BY <1>1, <1>2, <1>3, <1>5 DEF ThreadKnown, PushLabels
  <1>22. GrowthKnown'
    <2>1. t \in Pending' => t \in Pending
      BY <1>2 DEF Pending
    <2> QED BY <1>2, <1>4, <2>1, PendingKept
  <1> QED BY <1>2, <1>4, <1>15, <1>17, <1>18, <1>19, <1>20, <1>21, <1>22, Assembled

LEMMA PushCasWonStep ==
  ASSUME PoolInv, NEW t \in Threads, PushCas(t), head = pushHead[t]
  PROVE  PoolInv'
  <1> USE Types DEF Goto, At, list, growth, acquiring, pushing
  <1>1. PICK n : n = pushed[t]
    OBVIOUS
  <1>2. /\ pc[t] = "pushCas" /\ head' = n /\ next[n] = head
        /\ pc' = [pc EXCEPT ![t] = back[t]] /\ pushed' = [pushed EXCEPT ![t] = Nil]
        /\ pushHead' = [pushHead EXCEPT ![t] = Nil]
        /\ UNCHANGED <<ref, next, growth, held, acquiring, back>>
    BY <1>1 DEF PushCas, PushReturn, ThreadKnown
  <1>3. /\ n \in Usable /\ n \in Live /\ n \in Nodes
        /\ back[t] \in {"idle", "exhausted", "loadRef"}
        /\ back[t] = "loadRef" => popped[t] \in Usable
        /\ back[t] = "idle" => mutex # t
    BY <1>1, <1>2 DEF ThreadKnown, PushLabels
  <1>4. Alone(t)
    BY <1>2 DEF Alone
  <1>5. Nodes' = Nodes /\ Live' = Live /\ Usable' = Usable
    BY <1>2, NodesFixed
  <1>6. pc'[t] = back[t] /\ pushed'[t] = Nil /\ held'[t] = held[t] /\ popped'[t] = popped[t]
    BY <1>2, <1>3
  <1>7. ASSUME NEW m \in Live
        PROVE  /\ m # n => /\ ref'[m] = ref[m]
                           /\ t \in WithListRef(m)' <=> t \in WithListRef(m)
               /\ t \in AsOwner(m)' <=> t \in AsOwner(m)
               /\ t \in Storing(m)' <=> t \in Storing(m)
               /\ t \in Growing(m)' <=> t \in Growing(m)
               /\ t \in Referring(m)' <=> t \in Referring(m)
    BY <1>1, <1>2, <1>3, <1>6 DEF AsOwner, Owning, Releasing, Storing, WithListRef, Taking,
                                  Growing, Referring
  <1>8. t \in WithListRef(n) /\ t \notin WithListRef(n)'
    BY <1>1, <1>2, <1>3, <1>6 DEF Taking, WithListRef, Releasing
  <1> DEFINE c == Cardinality(Referring(n))
  <1>9. /\ c \in Nat /\ c' = c /\ c <= Cardinality(Threads)
        /\ Cardinality(Threads) \in Nat /\ FreeBit = Cardinality(Threads) + 2 /\ FreeBit \in Nat
    BY <1>3, <1>4, <1>7, Recount, Bits
  <1>10. (\A u, v \in Holders(n) : u = v) /\ RefKnown(n, c) /\ Growing(n) = {}
    BY <1>3, UsableNodes
  <1>11. ref[n] = c + 1 /\ AsOwner(n) = {} /\ Storing(n) = {} /\ ref' = ref
    BY <1>2, <1>8, <1>10 DEF RefKnown
  <1>12. /\ AsOwner(n)' = {} /\ Storing(n)' = {} /\ WithListRef(n)' = {}
         /\ Growing(n)' = {} /\ Holders(n)' = {}
    <2>1. WithListRef(n) = {t}
      BY <1>8, <1>10 DEF Holders
    <2>2. AsOwner(n)' = {} /\ Storing(n)' = {} /\ WithListRef(n)' = {} /\ Growing(n)' = {}
      BY <1>3, <1>4, <1>7, <1>8, <1>10, <1>11, <2>1, SetsAfter DEF Follows
    <2> QED BY <2>2 DEF Holders
  <1>13. NodeKnown(n)'
    BY <1>3, <1>5, <1>9, <1>11, <1>12 DEF NodeKnown, RefKnown
  <1>14. n \in Listing' /\ n \notin Listing /\ n # Nil
    <2>1. ref'[n] < FreeBit
      BY <1>9, <1>11
    <2> QED BY <1>3, <1>5, <1>8, <1>12, <2>1 DEF Listing, Holders
  <1>15. (\A m \in Live : NodeKnown(m)') /\ Listing' = Listing \cup {n}
    BY <1>2, <1>3, <1>4, <1>7, <1>13, <1>14, OtherNodes
  <1>16. /\ Chain(Listing \cup {n}, n, next)
         /\ Connected(Listing, head, next) => Connected(Listing \cup {n}, n, next)
         /\ \A x : x # n /\ Spare(Listing, head, next, x) => Spare(Listing \cup {n}, n, next, x)
    BY <1>2, <1>14, Push
  <1>17. head' = n /\ next' = next
    BY <1>2
  <1>18. \A u \in Threads : GrowerKnown(u)'
    <2>1. \A x : Spare(Listing, head, next, x) => x # n
      BY <1>14 DEF Spare
    <2>2. \A x : Spare(Listing, head, next, x) => Spare(Listing', head', next', x)
      BY <1>15, <1>16, <1>17, <2>1
    <2> QED BY <1>2, <1>3, <1>4, <1>6, <2>2, GrowersKept
  <1>19. /\ Chain(Listing', head', next')
         /\ Connected(Listing, head, next) => Connected(Listing', head', next')
    BY <1>15, <1>16, <1>17
  <1>20. TypeOK'
    <2>1. back[t] \in Labels
      BY <1>3 DEF Labels
    <2> QED BY <1>2, <1>3, <1>5, <2>1 DEF TypeOK, Pointers
  <1>21. ThreadKnown(t)'
    BY <1>2, <1>3, <1>5, <1>6 DEF ThreadKnown, PushLabels
  <1>22. GrowthKnown'
    <2>1. t \in Pending' => t \in Pending
      BY <1>2, <1>3, <1>6 DEF Pending
    <2> QED BY <1>2, <1>4, <2>1, PendingKept
  <1> QED BY <1>2, <1>4, <1>15, <1>17, <1>18, <1>19, <1>20, <1>21, <1>22, Assembled

LEMMA GrowCasWonStep ==
  ASSUME PoolInv, NEW t \in Threads, GrowCas(t), head = prevHead[t]
  PROVE  PoolInv'
  <1> USE Types DEF Goto, At, list, growth, acquiring, pushing
  <1>1. PICK n : n = popped[t]
    OBVIOUS
  <1>2. n \in Live \ Usable /\ n \in Nodes /\ pc[t] = "growCas" /\ mutex = t
    BY <1>1 DEF GrowCas, GrowerKnown, ThreadKnown
  <1>3. /\ next' = [next EXCEPT ![n] = prevHead[t]] /\ head' = nextHead[t]
        /\ held' = [held EXCEPT ![t] = held[t] \cup {n}] /\ mutex' = Nil
        /\ popped' = [popped EXCEPT ![t] = Nil] /\ prevHead' = [prevHead EXCEPT ![t] = Nil]
        /\ nextHead' = [nextHead EXCEPT ![t] = Nil] /\ pc' = [pc EXCEPT ![t] = "idle"]
        /\ UNCHANGED <<ref, maxChunkCount, chunkIndex, chunkCount, seenRef, seenCount, acquires,
                       pushing>>
    BY <1>1, <1>2, FirstNodes DEF GrowCas, Return
  <1>4. Alone(t)
    BY <1>3 DEF Alone
  <1>5. Nodes' = Nodes /\ Live' = Live /\ Usable' = Usable
    BY <1>3, NodesFixed
  <1>6. pc'[t] = "idle" /\ held'[t] = held[t] \cup {n} /\ pushed[t] = Nil /\ pushed' = pushed
    BY <1>2, <1>3 DEF ThreadKnown, PushLabels
  <1>7. ASSUME NEW m \in Live \ {n}
        PROVE  /\ ref'[m] = ref[m]
               /\ t \in AsOwner(m)' <=> t \in AsOwner(m)
               /\ t \in Storing(m)' <=> t \in Storing(m)
               /\ t \in WithListRef(m)' <=> t \in WithListRef(m)
               /\ t \in Growing(m)' <=> t \in Growing(m)
               /\ t \in Referring(m)' <=> t \in Referring(m)
    BY <1>1, <1>2, <1>3, <1>6 DEF AsOwner, Owning, Releasing, Storing, WithListRef, Taking,
                                  Growing, Referring
  <1>8. t \in Holders(n) /\ t \in Holders(n)'
    BY <1>1, <1>2, <1>6 DEF Holders, Growing, AsOwner, Owning
  <1>9. Holders(n)' = Holders(n)
    <2>1. \A u \in Threads : u \in Holders(n)' <=> u \in Holders(n)
      BY <1>4, <1>8, Others
    <2>2. Holders(n) \subseteq Threads /\ Holders(n)' \subseteq Threads
      BY DEF AsOwner, Owning, Releasing, Storing, WithListRef, Taking, Growing, Holders
    <2> QED BY <2>1, <2>2
  <1>10. NodeKnown(n)'
    <2>1. NodeKnown(n)
      BY <1>2
    <2> QED BY <1>2, <1>3, <1>5, <1>9, <2>1 DEF NodeKnown
  <1>11. n \notin Listing /\ n \notin Listing'
    BY <1>2, <1>5 DEF Listing
  <1>12. (\A m \in Live : NodeKnown(m)') /\ Listing' = Listing
    <2>1. (\A m \in Live : NodeKnown(m)') /\ Listing' = Listing \ {n}
      BY <1>2, <1>3, <1>4, <1>7, <1>10, <1>11, OtherNodes
    <2> QED BY <1>11, <2>1
  <1>13. \A m \in Nodes \ {n} : next'[m] = next[m]
    BY <1>3
  <1>14. Chain(Listing, head', next)
    <2>1. Spare(Listing, head, next, nextHead[t])
      BY <1>2 DEF GrowerKnown
    <2> QED BY <1>3, <2>1 DEF Spare, Chain
  <1>15. Chain(Listing', head', next')
    <2>1. \A m \in Listing : next'[m] = next[m]
      BY <1>11, <1>13
    <2> QED BY <1>12, <1>14, <2>1, SameList
  <1>16. \A u \in Threads : GrowerKnown(u)'
    <2>1. \A u \in Threads \ {t} : pc[u] \notin {"growLoad", "growCas"}
      BY <1>2 DEF ThreadKnown
    <2> QED BY <1>3, <1>4, <1>6, <2>1, GrowersKept
  <1>17. Len(chunkIndex) # 1
    <2>1. n \in Nodes /\ n[1] <= Len(chunkIndex) /\ n[1] # 1
      BY <1>2 DEF Live, Usable
    <2>2. Nodes \subseteq (Nat \ {0}) \X Nat
      BY ChunkBound DEF Nodes
    <2>3. n[1] \in Nat \ {0}
      BY <2>1, <2>2
    <2>4. Len(chunkIndex) = 1 => n[1] <= 1
      BY ONLY <2>1
    <2>5. \A k \in Nat \ {0} : k <= 1 => k = 1
      OBVIOUS
    <2> QED BY ONLY <2>1, <2>3, <2>4, <2>5
  <1>18. TypeOK'
    <2>1. held' \in [Threads -> SUBSET Nodes]
      BY <1>2, <1>3
    <2>2. next' \in [Nodes -> Nodes \cup {Nil}] /\ head' \in Nodes \cup {Nil}
      BY <1>2, <1>3 DEF Pointers
    <2> QED BY <1>3, <1>5, <2>1, <2>2 DEF TypeOK, Pointers, Labels
  <1>19. ThreadKnown(t)'
    BY <1>2, <1>3, <1>5, <1>6 DEF ThreadKnown, PushLabels
  <1>20. \A u \in Threads \ {t} : mutex' = u <=> mutex = u
    BY <1>2, <1>3
  <1>21. GrowthKnown'
    <2>1. t \in Pending' => t \in Pending
      BY <1>3, <1>6 DEF Pending
    <2> QED BY <1>3, <1>4, <1>20, <2>1, PendingKept
  <1>22. ASSUME NEW u \in Threads \ {t}
         PROVE  /\ At(u, "casHead") => next'[popped[u]] = next[popped[u]]
                /\ At(u, "pushCas") => next'[pushed[u]] = next[pushed[u]]
    <2>1. ThreadKnown(u)
      OBVIOUS
    <2>2. At(u, "casHead") => popped[u] \in Usable
      BY ONLY <2>1 DEF ThreadKnown, At
    <2>3. At(u, "pushCas") => pushed[u] \in Usable
      <3>1. At(u, "pushCas") => pushed[u] # Nil /\ ~At(u, "setFree")
        BY ONLY <2>1 DEF ThreadKnown, At, PushLabels
      <3> QED BY ONLY <2>1, <3>1 DEF ThreadKnown
    <2>4. \A m \in Usable : next'[m] = next[m]
      BY <1>2, <1>13
    <2> QED BY ONLY <2>2, <2>3, <2>4
  <1> QED BY <1>3, <1>4, <1>12, <1>15, <1>16, <1>17, <1>18, <1>19, <1>20, <1>21, <1>22, Assembled

LEMMA ReleaseStep ==
  ASSUME PoolInv, NEW t \in Threads, Release(t)
  PROVE  PoolInv'
  <1> USE Types DEF Goto, At, list, growth, acquiring, pushing
  <1>1. PICK n : /\ n \in held[t] /\ held' = [held EXCEPT ![t] = @ \ {n}]
                 /\ pushed' = [pushed EXCEPT ![t] = n]
    BY DEF Release
  <1>2. /\ pc[t] = "idle" /\ mutex = Nil /\ back' = [back EXCEPT ![t] = "idle"]
        /\ pc' = [pc EXCEPT ![t] = "setFree"]
        /\ held' = [held EXCEPT ![t] = held[t] \ {n}] /\ pushed' = [pushed EXCEPT ![t] = n]
        /\ UNCHANGED <<list, growth, acquiring, pushHead>>
    BY <1>1 DEF Release
  <1>3. n \in Live /\ n \in Nodes
    BY <1>1 DEF ThreadKnown
  <1> HIDE DEF Release
  <1> USE <1>2, <1>3
  <1>4. /\ held'[t] = held[t] \ {n} /\ pushed'[t] = n /\ mutex' # t /\ pc'[t] = "setFree"
        /\ back'[t] = "idle" /\ n \notin held'[t] /\ n # Nil
    OBVIOUS
  <1>5. Alone(t)
    BY DEF Alone
  <1>6. Nodes' = Nodes /\ Live' = Live /\ Usable' = Usable
    BY NodesFixed
  <1>7. TypeOK'
    BY <1>6, <1>2 DEF TypeOK, Pointers, Labels
  <1>8. ThreadKnown(t)'
    BY <1>6, <1>4 DEF ThreadKnown, PushLabels
  <1>9. ASSUME NEW m \in Live
        PROVE  /\ t \in AsOwner(m)' <=> t \in AsOwner(m)
               /\ t \in Storing(m)' <=> t \in Storing(m)
               /\ t \in WithListRef(m)' <=> t \in WithListRef(m)
               /\ t \in Growing(m)' <=> t \in Growing(m)
               /\ t \in Referring(m)' <=> t \in Referring(m)
    BY <1>1, <1>4 DEF AsOwner, Owning, Releasing, Storing, WithListRef, Taking,
           Growing, Referring, ThreadKnown
  <1>10. t \in Pending' => t \in Pending
    BY DEF Pending, ThreadKnown
  <1>11. pc'[t] \in {"growLoad", "growCas"} =>
            /\ pc[t] \in {"growLoad", "growCas"}
            /\ popped'[t] = popped[t] /\ nextHead'[t] = nextHead[t]
    BY DEF ThreadKnown
  <1>12. /\ UNCHANGED <<maxChunkCount, chunkIndex, chunkCount, head, ref, next, mutex>>
         /\ \A u \in Threads \ {t} : mutex' = u <=> mutex = u
         /\ \A m \in Listing : next'[m] = next[m]
    BY <1>2 DEF GrowerKnown
  <1>13. /\ \A u \in Threads : GrowerKnown(u)'
         /\ \A m \in Live : NodeKnown(m)'
         /\ Chain(Listing', head', next')
         /\ Connected(Listing, head, next) => Connected(Listing', head', next')
    BY ONLY PoolInv, t \in Threads, <1>5, <1>9, <1>11, <1>12, NodesKept
  <1>14. \A u \in Threads \ {t} :
           /\ At(u, "casHead") => next'[popped[u]] = next[popped[u]]
           /\ At(u, "pushCas") => next'[pushed[u]] = next[pushed[u]]
    BY <1>2 DEF ThreadKnown, GrowerKnown
  <1>15. GrowthKnown'
    BY ONLY PoolInv, t \in Threads, <1>5, <1>10, <1>12, PendingKept
  <1> QED BY ONLY PoolInv, t \in Threads, <1>5, <1>7, <1>8, <1>15, <1>12, <1>13, <1>14, Assembled

-----------------------------------------------------------------------------
(* A new chunk *)

Chunk(c) == {n \in Nodes : n[1] = c}

\* listify makes one list of the nodes of a chunk, from the last to the first.
LEMMA Listified ==
  ASSUME TypeOK, NEW c \in Nat \ {0},
         c <= 1 + (maxChunkCount - 1) * Cardinality(Threads)
  PROVE  LET top == ListifiedHead(c)
         IN  /\ top \in Chunk(c) /\ top[1] = c /\ top[2] = PerChunk - 1
             /\ \A n \in Chunk(c) : /\ n \in Nodes /\ n = <<c, n[2]>> /\ n[2] \in 0 .. PerChunk - 1
                                    /\ n[2] = PerChunk - 1 => n = top
                                    /\ ListifiedNext(c, n) \in (Chunk(c) \ {top}) \cup {Nil}
             /\ \A m, n \in Chunk(c) :
                  ListifiedNext(c, m) = ListifiedNext(c, n) /\ ListifiedNext(c, m) # Nil => m = n
  <1> DEFINE k == 1 + (maxChunkCount - 1) * Cardinality(Threads)
             top == ListifiedHead(c)
  <1>1. k \in Nat
    BY ChunkBound
  <1>2. Nodes = (1 .. k) \X (0 .. PerChunk - 1)
    BY DEF Nodes
  <1>3. c \in 1 .. k
    BY <1>1
  <1> HIDE DEF k
  <1>4. \A i \in 0 .. PerChunk - 1 : <<c, i>> \in Chunk(c)
    BY <1>2, <1>3 DEF Chunk
  <1>5. top \in Chunk(c) /\ top[1] = c /\ top[2] = PerChunk - 1 /\ top = <<c, PerChunk - 1>>
    BY <1>4 DEF ListifiedHead
  <1>6. ASSUME NEW n \in Chunk(c)
        PROVE  n \in Nodes /\ n = <<c, n[2]>> /\ n[2] \in 0 .. PerChunk - 1
    BY <1>2 DEF Chunk
  <1>7. ASSUME NEW n \in Chunk(c), n[2] # 0
        PROVE  /\ ListifiedNext(c, n) = <<c, n[2] - 1>> /\ <<c, n[2] - 1>> \in Chunk(c)
               /\ <<c, n[2] - 1>> # top /\ n[2] - 1 \in Nat
    <2>1. n[2] \in 0 .. PerChunk - 1
      BY <1>6
    <2>2. n[2] - 1 \in 0 .. PerChunk - 1 /\ n[2] - 1 # PerChunk - 1
      BY <1>7, <2>1
    <2>3. <<c, n[2] - 1>> # top
      BY <1>5, <2>2
    <2> QED BY <1>4, <1>7, <2>2, <2>3 DEF ListifiedNext
  <1>8. ASSUME NEW n \in Chunk(c) PROVE ListifiedNext(c, n) \in (Chunk(c) \ {top}) \cup {Nil}
    <2>1. CASE n[2] = 0
      BY <2>1 DEF ListifiedNext
    <2>2. CASE n[2] # 0
      BY <1>7, <2>2
    <2> QED BY <2>1, <2>2
  <1>9. ASSUME NEW m \in Chunk(c), NEW n \in Chunk(c),
               ListifiedNext(c, m) = ListifiedNext(c, n), ListifiedNext(c, m) # Nil
        PROVE  m = n
    <2>1. m[2] # 0 /\ n[2] # 0
      BY <1>9 DEF ListifiedNext
    <2>2. <<c, m[2] - 1>> = <<c, n[2] - 1>>
      BY <1>7, <1>9, <2>1
    <2>3. m[2] - 1 = n[2] - 1
      BY <2>2
    <2>4. m[2] = n[2]
      BY <1>6, <2>3
    <2> QED BY <1>6, <2>4
  <1>10. \A n \in Chunk(c) : n[2] = PerChunk - 1 => n = top
    BY <1>5, <1>6
  <1> HIDE DEF top
  <1>11. \A n \in Chunk(c) : /\ n \in Nodes /\ n = <<c, n[2]>> /\ n[2] \in 0 .. PerChunk - 1
                             /\ n[2] = PerChunk - 1 => n = top
                             /\ ListifiedNext(c, n) \in (Chunk(c) \ {top}) \cup {Nil}
    BY <1>6, <1>8, <1>10
  <1>12. \A m, n \in Chunk(c) :
           ListifiedNext(c, m) = ListifiedNext(c, n) /\ ListifiedNext(c, m) # Nil => m = n
    BY <1>9
  <1> QED BY <1>5, <1>11, <1>12 DEF top

\* There is room for the chunk that a thread is about to make.
LEMMA Room ==
  ASSUME PoolInv, NEW t \in Threads, pc[t] = "grow"
  PROVE  /\ Len(chunkIndex) + 1 \in Nat \ {0, 1} /\ Len(chunkIndex) \in Nat
         /\ Len(chunkIndex) + 1 <= 1 + (maxChunkCount - 1) * Cardinality(Threads)
  <1> DEFINE a == maxChunkCount - 1
             b == Cardinality(Threads)
             p == Cardinality(Pending)
  <1>1. t \in Pending
    BY Types DEF ThreadKnown, Pending
  <1>2. Pending \subseteq Threads /\ IsFiniteSet(Pending)
    <2>1. Pending \subseteq Threads
      BY DEF Pending
    <2> QED BY <2>1, FS_Subset
  <1>3. p \in Nat /\ b \in Nat /\ p # 0 /\ b # 0
    BY <1>1, <1>2, FS_CardinalityType, FS_EmptySet
  <1>4. maxChunkCount \in Nat /\ maxChunkCount > 1 /\ chunkCount + p <= maxChunkCount - 1 + b
    BY <1>1, Types, ChunkBound DEF PoolInv, GrowthKnown
  <1>5. chunkCount = Len(chunkIndex) /\ chunkCount \in Nat /\ chunkCount # 0
    BY DEF PoolInv, TypeOK
  <1>6. a \in Nat /\ 1 <= a /\ 1 <= b /\ chunkCount + p <= a + b
    BY <1>3, <1>4
  <1>7. maxChunkCount - 1 = a /\ Cardinality(Threads) = b
    OBVIOUS
  <1> HIDE DEF a, b, p
  <1>8. chunkCount + 1 <= a + b
    BY <1>3, <1>5, <1>6
  <1>9. a + b <= 1 + a * b
    <2>1. \A x, y \in Nat : x * y \in Nat /\ (x + 1) * (y + 1) = x * y + x + y + 1
      OBVIOUS
    <2>2. PICK x \in Nat, y \in Nat : a = x + 1 /\ b = y + 1
      <3>1. a - 1 \in Nat /\ b - 1 \in Nat /\ a = (a - 1) + 1 /\ b = (b - 1) + 1
        BY <1>3, <1>6
      <3> QED BY <3>1
    <2>3. a * b = x * y + x + y + 1 /\ x * y \in Nat
      BY <2>1, <2>2
    <2> QED BY <2>2, <2>3
  <1>10. a * b \in Nat
    BY <1>3, <1>6
  <1>11. chunkCount + 1 <= 1 + a * b
    BY <1>3, <1>5, <1>6, <1>8, <1>9, <1>10
  <1> QED BY <1>5, <1>7, <1>11
\* Nobody has to do with a node that is not there yet.
LEMMA Untouched ==
  ASSUME PoolInv, NEW n, n \notin Live, n # Nil
  PROVE  Holders(n) = {} /\ Referring(n) = {}
  <1> USE Types
  <1>1. AsOwner(n) = {}
    BY DEF AsOwner, Owning, Releasing, ThreadKnown
  <1>2. Storing(n) = {}
    BY DEF Storing, Releasing, ThreadKnown
  <1>3. WithListRef(n) = {}
    BY DEF WithListRef, Taking, Releasing, ThreadKnown, At
  <1>4. Growing(n) = {}
    BY DEF Growing, GrowerKnown
  <1>5. Referring(n) = {}
    BY DEF Referring, Taking, ThreadKnown, At
  <1> QED BY <1>1, <1>2, <1>3, <1>4, <1>5 DEF Holders

LEMMA GrowStep ==
  ASSUME PoolInv, NEW t \in Threads, Grow(t)
  PROVE  PoolInv'
  <1> USE Types DEF Goto, At, list, growth, acquiring, pushing
  <1>1. PICK c, top : c = Len(chunkIndex) + 1 /\ top = ListifiedHead(c)
    OBVIOUS
  <1>2. /\ pc[t] = "grow" /\ mutex = t
        /\ chunkCount' = chunkCount + 1 /\ chunkIndex' = Append(chunkIndex, seenCount[t] + 1)
        /\ ref' = [n \in Nodes |-> IF n[1] = c THEN 1 ELSE ref[n]]
        /\ next' = [n \in Nodes |-> IF n[1] = c THEN ListifiedNext(c, n) ELSE next[n]]
        /\ popped' = [popped EXCEPT ![t] = top]
        /\ nextHead' = [nextHead EXCEPT ![t] = ListifiedNext(c, top)]
        /\ pc' = [pc EXCEPT ![t] = "growLoad"]
        /\ UNCHANGED <<head, maxChunkCount, mutex, held, prevHead, seenRef, seenCount, acquires,
                       pushing>>
    BY <1>1 DEF Grow, ThreadKnown
  <1>3. /\ c \in Nat \ {0, 1} /\ Len(chunkIndex) \in Nat
        /\ c <= 1 + (maxChunkCount - 1) * Cardinality(Threads)
    BY <1>1, <1>2, Room
  <1>4. /\ top \in Chunk(c) /\ top[1] = c /\ top[2] = PerChunk - 1
        /\ \A n \in Chunk(c) : /\ n \in Nodes /\ n = <<c, n[2]>> /\ n[2] \in 0 .. PerChunk - 1
                               /\ n[2] = PerChunk - 1 => n = top
                               /\ ListifiedNext(c, n) \in (Chunk(c) \ {top}) \cup {Nil}
        /\ \A m, n \in Chunk(c) :
             ListifiedNext(c, m) = ListifiedNext(c, n) /\ ListifiedNext(c, m) # Nil => m = n
    <2>1. TypeOK
      OBVIOUS
    <2> QED BY ONLY <2>1, <1>1, <1>3, Listified
  <1>5. Len(chunkIndex') = c /\ chunkIndex' \in Seq(Nat)
    <2>1. seenCount[t] + 1 \in Nat
      OBVIOUS
    <2> QED BY <1>1, <1>2, <2>1
  <1>6. Nodes' = Nodes
    BY <1>2, NodesFixed
  <1>7. Nodes \subseteq (Nat \ {0}) \X Nat
    BY ChunkBound DEF Nodes
  <1>8. /\ Live' = Live \cup Chunk(c) /\ Live \cap Chunk(c) = {}
        /\ Chunk(c) \subseteq Nodes
    <2>1. \A n \in Nodes : n[1] \in Nat \ {0}
      BY <1>7
    <2>2. \A n \in Nodes : n[1] <= c <=> n[1] <= Len(chunkIndex) \/ n[1] = c
      BY ONLY <1>1, <1>3, <2>1
    <2>3. \A n \in Nodes : ~(n[1] <= Len(chunkIndex) /\ n[1] = c)
      BY ONLY <1>1, <1>3, <2>1
    <2> QED BY <1>5, <1>6, <2>2, <2>3 DEF Live, Chunk
  <1>9. Usable' = Usable \cup (Chunk(c) \ {top})
    <2>1. \A n \in Chunk(c) : n[1] = c
      BY DEF Chunk
    <2> QED BY <1>3, <1>4, <1>8, <2>1 DEF Usable
  <1>10. Alone(t)
    BY <1>2 DEF Alone
  <1>11. /\ pc'[t] = "growLoad" /\ popped'[t] = top /\ held'[t] = held[t] /\ pushed'[t] = pushed[t]
         /\ nextHead'[t] = ListifiedNext(c, top) /\ pushed[t] = Nil /\ top \notin Live /\ top \in Nodes
    BY <1>2, <1>4, <1>8 DEF ThreadKnown, PushLabels
  <1>12. ASSUME NEW n, n # Nil
         PROVE  /\ t \in AsOwner(n)' <=> t \in AsOwner(n)
                /\ t \in Storing(n)' <=> t \in Storing(n)
                /\ t \in WithListRef(n)' <=> t \in WithListRef(n)
                /\ t \in Growing(n)' <=> n = top
                /\ t \notin Growing(n)
                /\ t \in Referring(n)' <=> t \in Referring(n)
    BY <1>2, <1>11, <1>12 DEF AsOwner, Owning, Releasing, Storing, WithListRef, Taking,
                              Growing, Referring
  <1>13. \A n \in Nodes : /\ n \in Chunk(c) => ref'[n] = 1 /\ next'[n] = ListifiedNext(c, n)
                          /\ n \notin Chunk(c) => ref'[n] = ref[n] /\ next'[n] = next[n]
    BY <1>2 DEF Chunk
  <1>14. ASSUME NEW n \in Live PROVE NodeKnown(n)' /\ Holders(n)' = Holders(n)
    <2>1. /\ n # Nil /\ n # top /\ n \notin Chunk(c) /\ n \in Nodes /\ ref'[n] = ref[n]
          /\ n \in Usable' <=> n \in Usable
      BY <1>8, <1>9, <1>11, <1>13
    <2>2. NodeKnown(n)
      OBVIOUS
    <2> QED BY ONLY t \in Threads, <1>10, <1>12, <2>1, <2>2, NodeKept
  <1>15. ASSUME NEW n \in Chunk(c)
         PROVE  /\ Holders(n)' = IF n = top THEN {t} ELSE {}
                /\ Referring(n)' = {} /\ Growing(n)' \subseteq {t}
                /\ AsOwner(n)' = {} /\ Storing(n)' = {} /\ WithListRef(n)' = {}
    <2>1. n # Nil /\ n \notin Live
      BY <1>8
    <2>2. Holders(n) = {} /\ Referring(n) = {}
      BY <2>1, Untouched
    <2>3. AsOwner(n) = {} /\ Storing(n) = {} /\ WithListRef(n) = {} /\ Growing(n) = {}
      BY <2>2 DEF Holders
    <2>4. AsOwner(n)' = {} /\ Storing(n)' = {} /\ WithListRef(n)' = {}
      BY <1>10, <1>12, <2>1, <2>3, SetsAfter DEF Follows
    <2>5. Growing(n)' = IF n = top THEN {t} ELSE {}
      BY <1>10, <1>12, <2>1, <2>3, SetsAfter DEF Follows
    <2>6. Referring(n)' = {}
      <3>1. \A u \in Threads : u \notin Referring(n)'
        BY <1>10, <1>12, <2>1, <2>2, Others
      <3>2. Referring(n)' \subseteq Threads
        BY DEF Referring, Taking
      <3> QED BY <3>1, <3>2
    <2> QED BY <2>4, <2>5, <2>6 DEF Holders
  <1>16. ASSUME NEW n \in Chunk(c) PROVE NodeKnown(n)'
    <2>1. ref'[n] = 1
      BY <1>8, <1>13
    <2>2. CASE n = top
      <3>1. n \notin Usable'
        BY <1>9, <1>11, <2>2
      <3>2. Holders(n)' = {t}
        BY <1>15, <2>2
      <3> QED BY ONLY <2>1, <3>1, <3>2 DEF NodeKnown
    <2>3. CASE n # top
      <3>1. n \in Usable'
        BY <1>9, <2>3
      <3>2. Cardinality(Referring(n)') = 0
        BY <1>15, FS_EmptySet
      <3> QED BY <1>15, <2>1, <2>3, <3>1, <3>2 DEF NodeKnown, RefKnown
    <2> QED BY <2>2, <2>3
  <1>17. Listing' = Listing \cup (Chunk(c) \ {top})
    <2>1. 1 < FreeBit
      <3>1. Cardinality(Threads) \in Nat /\ FreeBit = Cardinality(Threads) + 2
        BY Bits
      <3> QED BY <3>1
    <2>2. ASSUME NEW n \in Usable PROVE n \in Listing' <=> n \in Listing
      <3>1. n \in Usable' /\ n \in Nodes /\ n \notin Chunk(c)
        BY <1>8, <1>9
      <3> QED BY <1>13, <1>14, <3>1 DEF Listing
    <2>3. ASSUME NEW n \in Chunk(c) \ {top} PROVE n \in Listing'
      BY <1>8, <1>9, <1>13, <1>15, <2>1 DEF Listing
    <2>4. Listing' \subseteq Usable'
      BY DEF Listing
    <2> QED BY <1>9, <2>2, <2>3, <2>4
  <1>18. /\ Listing \cap Chunk(c) = {} /\ head \notin Chunk(c) /\ Nil \notin Chunk(c)
         /\ \A n \in Listing : next'[n] = next[n]
         /\ \A n \in Chunk(c) : next'[n] = ListifiedNext(c, n)
    <2>1. Listing \cap Chunk(c) = {} /\ Nil \notin Chunk(c)
      BY <1>8
    <2>2. head \notin Chunk(c)
      BY <2>1 DEF Chain
    <2>3. \A n \in Listing : next'[n] = next[n]
      BY <1>13, <2>1
    <2> QED BY <1>8, <1>13, <2>1, <2>2, <2>3
  <1>19. Chain(Listing', head', next')
    <2>1. head' = head /\ head \in Listing \cup {Nil}
      BY <1>2 DEF Chain
    <2>2. \A n \in Listing : next'[n] \in (Listing \ {head}) \cup {Nil}
      BY <1>18 DEF Chain
    <2>3. \A n \in Chunk(c) : next'[n] \in (Chunk(c) \ {top}) \cup {Nil}
      BY <1>4, <1>18
    <2>4. \A m, n \in Listing : next'[m] = next'[n] /\ next'[m] # Nil => m = n
      BY <1>18 DEF Chain
    <2>5. \A m, n \in Chunk(c) : next'[m] = next'[n] /\ next'[m] # Nil => m = n
      BY <1>4, <1>18
    <2>6. \A n \in Listing' : next'[n] \in (Listing' \ {head}) \cup {Nil}
      BY ONLY <1>17, <1>18, <2>2, <2>3
    <2>7. \A m, n \in Listing' : next'[m] = next'[n] /\ next'[m] # Nil => m = n
      BY ONLY <1>17, <1>18, <2>2, <2>3, <2>4, <2>5
    <2> QED BY ONLY <1>17, <2>1, <2>6, <2>7 DEF Chain
  <1>20. Spare(Listing', head', next', nextHead'[t])
    <2> DEFINE x == ListifiedNext(c, top)
    <2>1. x \in (Chunk(c) \ {top}) \cup {Nil} /\ nextHead'[t] = x /\ head' = head
      BY <1>2, <1>4, <1>11
    <2>2. \A n \in Listing : next'[n] \in Listing \cup {Nil}
      BY <1>18 DEF Chain
    <2>3. \A n \in Chunk(c) : next'[n] = x /\ x # Nil => n = top
      BY <1>4, <1>18
    <2> HIDE DEF x
    <2>4. x \in Listing' \cup {Nil} /\ (x # Nil => x # head)
      BY ONLY <1>17, <1>18, <2>1
    <2>5. x # Nil => \A n \in Listing' : next'[n] # x
      BY ONLY <1>17, <1>18, <2>1, <2>2, <2>3
    <2> QED BY ONLY <2>1, <2>4, <2>5 DEF Spare
  <1>21. TypeOK'
    <2>1. ref' \in [Nodes -> 0 .. 2 * FreeBit - 1]
      <3>1. 1 \in 0 .. 2 * FreeBit - 1
        <4>1. Cardinality(Threads) \in Nat /\ FreeBit = Cardinality(Threads) + 2
          BY Bits
        <4> QED BY <4>1
      <3> QED BY <1>2, <3>1
    <2>2. next' \in [Nodes -> Nodes \cup {Nil}]
      <3>1. \A n \in Nodes : n[1] = c => ListifiedNext(c, n) \in Nodes \cup {Nil}
        BY <1>4, <1>8 DEF Chunk
      <3> QED BY <1>2, <3>1 DEF Pointers
    <2>3. /\ nextHead' \in [Threads -> Nodes \cup {Nil}] /\ popped' \in [Threads -> Nodes \cup {Nil}]
      <3>1. ListifiedNext(c, top) \in Nodes \cup {Nil}
        BY <1>4, <1>8
      <3> QED BY <1>2, <1>11, <3>1 DEF Pointers
    <2>4. chunkCount' \in Nat
      BY <1>2 DEF TypeOK
    <2> QED BY <1>2, <1>5, <1>6, <2>1, <2>2, <2>3, <2>4 DEF TypeOK, Pointers, Labels
  <1>22. ASSUME NEW u \in Threads PROVE ThreadKnown(u)' /\ GrowerKnown(u)'
    <2>1. CASE u = t
      <3>1. ThreadKnown(t)'
        BY <1>2, <1>8, <1>11 DEF ThreadKnown, PushLabels
      <3>2. GrowerKnown(t)'
        BY <1>4, <1>8, <1>9, <1>11, <1>20 DEF GrowerKnown
      <3> QED BY <2>1, <3>1, <3>2
    <2>2. CASE u # t
      <3>1. \A n \in Usable : next'[n] = next[n]
        BY <1>8, <1>13
      <3>2. ThreadKnown(u)
        OBVIOUS
      <3>3. At(u, "casHead") => popped[u] \in Usable
        BY ONLY <3>2 DEF ThreadKnown, At
      <3>4. At(u, "pushCas") => pushed[u] \in Usable
        <4>1. At(u, "pushCas") => pushed[u] # Nil /\ ~At(u, "setFree")
          BY ONLY <3>2 DEF ThreadKnown, At, PushLabels
        <4> QED BY ONLY <3>2, <4>1 DEF ThreadKnown
      <3>5. ThreadKnown(u)'
        BY <1>2, <1>8, <1>9, <1>10, <2>2, <3>1, <3>3, <3>4, ThreadKept
      <3>6. pc'[u] \notin {"growLoad", "growCas"}
        BY <1>2, <2>2, <3>2 DEF ThreadKnown
      <3> QED BY <3>5, <3>6 DEF GrowerKnown
    <2> QED BY <2>1, <2>2
  <1>23. GrowthKnown'
    <2>1. t \in Pending /\ Pending \subseteq Threads
      BY <1>2 DEF Pending
    <2>2. Pending' = Pending \ {t}
      <3>1. \A u \in Threads \ {t} : u \in Pending' <=> u \in Pending
        BY <1>2, <1>10 DEF Pending, Alone
      <3>2. t \notin Pending' /\ Pending' \subseteq Threads
        BY <1>11 DEF Pending
      <3> QED BY <2>1, <3>1, <3>2
    <2>3. Cardinality(Pending') = Cardinality(Pending) - 1 /\ Cardinality(Pending) \in Nat
      BY <2>1, <2>2, FS_Subset, FS_RemoveElement, FS_CardinalityType
    <2>4. /\ maxChunkCount > 1
          /\ chunkCount + Cardinality(Pending) <= maxChunkCount - 1 + Cardinality(Threads)
      BY <2>1 DEF PoolInv, GrowthKnown
    <2>5. chunkCount \in Nat /\ chunkCount' = chunkCount + 1 /\ maxChunkCount' = maxChunkCount
      BY <1>2 DEF TypeOK
    <2>6. chunkCount' + Cardinality(Pending') = chunkCount + Cardinality(Pending)
      BY ONLY <2>3, <2>5
    <2> QED BY ONLY <2>4, <2>5, <2>6 DEF GrowthKnown
  <1>24. chunkCount' = Len(chunkIndex') /\ chunkCount' # 0 /\ Len(chunkIndex') # 1
    <2>1. chunkCount = Len(chunkIndex)
      BY DEF PoolInv
    <2> QED BY <1>1, <1>2, <1>3, <1>5, <2>1
  <1>25. \A n \in Live' : NodeKnown(n)'
    BY <1>8, <1>14, <1>16
  <1> QED BY ONLY <1>19, <1>21, <1>22, <1>23, <1>24, <1>25 DEF PoolInv

-----------------------------------------------------------------------------
(* The initial states *)

\* The whole of the first chunk is on the list, and every node of it is reached.
LEMMA FirstList ==
  ASSUME Init, TypeOK
  PROVE  /\ Live = Chunk(1) /\ Usable = Live /\ Listing = Live
         /\ Chain(Listing, head, next) /\ Connected(Listing, head, next)
  <1> DEFINE top == ListifiedHead(1)
  <1>1. /\ head = top
        /\ ref = [n \in Nodes |-> IF n[1] = 1 THEN 1 ELSE 0]
        /\ next = [n \in Nodes |-> IF n[1] = 1 THEN ListifiedNext(1, n) ELSE Nil]
        /\ chunkIndex = <<0>> /\ pc = [u \in Threads |-> "idle"]
        /\ held = [u \in Threads |-> {}] /\ pushed = [u \in Threads |-> Nil]
    BY DEF Init
  <1>2. 1 <= 1 + (maxChunkCount - 1) * Cardinality(Threads)
    BY ChunkBound
  <1>3. /\ top \in Chunk(1)
        /\ \A n \in Chunk(1) : /\ n \in Nodes /\ n = <<1, n[2]>> /\ n[2] \in 0 .. PerChunk - 1
                               /\ n[2] = PerChunk - 1 => n = top
                               /\ ListifiedNext(1, n) \in (Chunk(1) \ {top}) \cup {Nil}
        /\ \A m, n \in Chunk(1) :
             ListifiedNext(1, m) = ListifiedNext(1, n) /\ ListifiedNext(1, m) # Nil => m = n
    BY <1>2, Listified
  <1> HIDE DEF top
  <1>4. Nodes \subseteq (Nat \ {0}) \X Nat /\ Nil \notin Nodes
    BY ChunkBound DEF Nodes
  <1>5. Live = Chunk(1)
    <2>1. Len(chunkIndex) = 1
      BY <1>1
    <2>2. \A n \in Nodes : n[1] \in Nat \ {0}
      BY <1>4
    <2>3. \A n \in Nodes : n[1] <= 1 <=> n[1] = 1
      BY ONLY <2>2
    <2> QED BY <2>1, <2>3 DEF Live, Chunk
  <1>6. Usable = Live
    BY <1>5 DEF Usable, Chunk
  <1>7. \A n \in Live : n # Nil /\ ref[n] = 1 /\ next[n] = ListifiedNext(1, n)
    BY <1>1, <1>3, <1>4, <1>5 DEF Chunk
  <1>8. ASSUME NEW n \in Live PROVE Holders(n) = {}
    <2>1. AsOwner(n) = {}
      BY <1>1, <1>7 DEF AsOwner, Owning, Releasing
    <2>2. Storing(n) = {}
      BY <1>1, <1>7 DEF Storing, Releasing
    <2>3. WithListRef(n) = {}
      BY <1>1, <1>7 DEF WithListRef, Taking, Releasing, At
    <2>4. Growing(n) = {}
      BY <1>1 DEF Growing
    <2> QED BY <2>1, <2>2, <2>3, <2>4 DEF Holders
  <1>9. Listing = Live
    <2>1. 1 < FreeBit
      <3>1. Cardinality(Threads) \in Nat /\ FreeBit = Cardinality(Threads) + 2
        BY Bits
      <3> QED BY <3>1
    <2> QED BY <1>6, <1>7, <1>8, <2>1 DEF Listing
  <1>10. Chain(Listing, head, next)
    BY <1>1, <1>3, <1>5, <1>7, <1>9 DEF Chain
  <1>11. ASSUME NEW S \in SUBSET Chunk(1), top \in S \cup {Nil},
                \A n \in S : next[n] \in S \cup {Nil}
         PROVE  S = Chunk(1)
    <2> DEFINE far == {d \in Nat : d <= PerChunk - 1 /\ <<1, PerChunk - 1 - d>> \notin S}
    <2>1. top = <<1, PerChunk - 1>> /\ top \in S
      BY <1>3, <1>4, <1>11 DEF top, ListifiedHead
    <2>2. far = {}
      <3> SUFFICES ASSUME far # {} PROVE FALSE
        OBVIOUS
      <3>1. PICK d \in far : \A e \in far : d <= e
        <4>1. far \subseteq Nat
          OBVIOUS
        <4> HIDE DEF far
        <4> QED BY <4>1, Least
      <3>2. d \in Nat /\ d <= PerChunk - 1 /\ <<1, PerChunk - 1 - d>> \notin S
        BY <3>1
      <3>3. d # 0
        BY <2>1, <3>2
      <3>4. d - 1 \in Nat /\ d - 1 <= PerChunk - 1 /\ ~(d <= d - 1)
        BY <3>2, <3>3
      <3>5. d - 1 \notin far
        BY <3>1, <3>4
      <3>6. PICK i : i = PerChunk - 1 - (d - 1)
        OBVIOUS
      <3>7. <<1, i>> \in S
        BY <3>4, <3>5, <3>6
      <3>8. i \in Nat /\ i # 0 /\ i - 1 = PerChunk - 1 - d
        BY <3>2, <3>3, <3>6
      <3>9. next[<<1, i>>] = <<1, i - 1>>
        <4>1. <<1, i>> \in Live
          BY <1>5, <1>11, <3>7
        <4>2. next[<<1, i>>] = ListifiedNext(1, <<1, i>>)
          BY <1>7, <4>1
        <4> QED BY <3>8, <4>2 DEF ListifiedNext
      <3>10. <<1, i - 1>> # Nil
        BY <3>8
      <3>11. <<1, i - 1>> \in S
        BY <1>11, <3>7, <3>9, <3>10
      <3> QED BY <3>2, <3>8, <3>11
    <2>3. ASSUME NEW n \in Chunk(1) PROVE n \in S
      <3>1. n = <<1, n[2]>> /\ n[2] \in 0 .. PerChunk - 1
        BY <1>3
      <3>2. PICK d : d = PerChunk - 1 - n[2]
        OBVIOUS
      <3>3. d \in Nat /\ d <= PerChunk - 1 /\ PerChunk - 1 - d = n[2]
        BY <3>1, <3>2
      <3> QED BY <2>2, <3>1, <3>3
    <2> QED BY <2>3
  <1>12. Connected(Listing, head, next)
    BY <1>1, <1>5, <1>9, <1>11 DEF Connected
  <1> QED BY <1>5, <1>6, <1>9, <1>10, <1>12

LEMMA InitInv == Init => PoolInv
  <1> SUFFICES ASSUME Init PROVE PoolInv
    OBVIOUS
  <1>1. Cardinality(Threads) \in Nat /\ FreeBit = Cardinality(Threads) + 2 /\ FreeBit \in Nat
    BY Bits
  <1>2. maxChunkCount \in Nat \ {0} /\ 1 + (maxChunkCount - 1) * Cardinality(Threads) \in Nat
        /\ 1 <= 1 + (maxChunkCount - 1) * Cardinality(Threads)
    <2>1. maxChunkCount \in Nat \ {0}
      BY DEF Init
    <2>2. \A a, b \in Nat : a * b \in Nat
      OBVIOUS
    <2>3. maxChunkCount - 1 \in Nat
      BY <2>1
    <2>4. (maxChunkCount - 1) * Cardinality(Threads) \in Nat
      BY <1>1, <2>2, <2>3
    <2> QED BY <2>1, <2>4
  <1>3. TypeOK
    <2>1. \A i \in 0 .. PerChunk - 1 : <<1, i>> \in Nodes
      BY <1>2 DEF Nodes
    <2>2. \A n \in Nodes : n[2] \in 0 .. PerChunk - 1
      BY DEF Nodes
    <2>3. ListifiedHead(1) \in Nodes
      BY <2>1 DEF ListifiedHead
    <2>4. \A n \in Nodes : ListifiedNext(1, n) \in Nodes \cup {Nil}
      <3> TAKE n \in Nodes
      <3>1. n[2] # 0 => n[2] - 1 \in 0 .. PerChunk - 1
        BY <2>2
      <3> QED BY <2>1, <3>1 DEF ListifiedNext
    <2>5. 0 \in 0 .. 2 * FreeBit - 1 /\ 1 \in 0 .. 2 * FreeBit - 1
      BY <1>1
    <2>6. ref \in [Nodes -> 0 .. 2 * FreeBit - 1] /\ next \in [Nodes -> Nodes \cup {Nil}]
      BY <2>4, <2>5 DEF Init
    <2>7. chunkIndex \in Seq(Nat) /\ chunkCount \in Nat
      BY DEF Init
    <2> QED BY <2>3, <2>5, <2>6, <2>7 DEF Init, TypeOK, Pointers, Labels
  <1>4. /\ Live = Chunk(1) /\ Usable = Live /\ Listing = Live
        /\ Chain(Listing, head, next) /\ Connected(Listing, head, next)
    BY <1>3, FirstList
  <1>5. ASSUME NEW t \in Threads PROVE ThreadKnown(t) /\ GrowerKnown(t)
    BY DEF Init, ThreadKnown, GrowerKnown, PushLabels, At
  <1>6. ASSUME NEW n \in Live PROVE NodeKnown(n)
    <2>1. Holders(n) = {} /\ n \in Usable
      BY <1>4 DEF Listing
    <2>2. AsOwner(n) = {} /\ Storing(n) = {}
      BY <2>1 DEF Holders
    <2>3. Referring(n) = {}
      BY DEF Init, Referring, Taking, At
    <2>4. Cardinality(Referring(n)) = 0
      BY <2>3, FS_EmptySet
    <2>5. ref[n] = 1
      BY <1>4 DEF Init, Chunk
    <2> QED BY <2>1, <2>2, <2>4, <2>5 DEF NodeKnown, RefKnown
  <1>7. GrowthKnown
    BY DEF Init, Pending, GrowthKnown, At
  <1>8. chunkCount = Len(chunkIndex) /\ chunkCount # 0
    BY DEF Init
  <1> QED BY <1>3, <1>4, <1>5, <1>6, <1>7, <1>8 DEF PoolInv

-----------------------------------------------------------------------------
(* The theorems *)

LEMMA Stutter == PoolInv /\ UNCHANGED vars => PoolInv'
  <1> SUFFICES ASSUME PoolInv, UNCHANGED vars PROVE PoolInv'
    OBVIOUS
  <1> USE DEF vars, list, growth, acquiring, pushing
  <1>1. Nodes' = Nodes /\ Live' = Live /\ Usable' = Usable
    BY NodesFixed
  <1>2. ASSUME NEW n
        PROVE  /\ AsOwner(n)' = AsOwner(n) /\ Storing(n)' = Storing(n)
               /\ WithListRef(n)' = WithListRef(n) /\ Holders(n)' = Holders(n)
               /\ Referring(n)' = Referring(n)
    BY DEF Holders, AsOwner, Owning, Storing, WithListRef, Growing, Referring, Taking, Releasing,
           At
  <1>3. Listing' = Listing
    BY <1>1, <1>2 DEF Listing
  <1>4. TypeOK'
    BY <1>1 DEF PoolInv, TypeOK, Pointers
  <1>5. ASSUME NEW t \in Threads PROVE ThreadKnown(t)' /\ GrowerKnown(t)'
    <2>1. ThreadKnown(t) /\ GrowerKnown(t)
      BY DEF PoolInv
    <2> QED BY <1>1, <1>3, <2>1 DEF ThreadKnown, GrowerKnown, Spare, At
  <1>6. ASSUME NEW n \in Live' PROVE NodeKnown(n)'
    <2>1. NodeKnown(n)
      BY <1>1 DEF PoolInv
    <2> QED BY <1>1, <1>2, <2>1 DEF NodeKnown, RefKnown
  <1>7. Pending' = Pending
    BY DEF Pending, At
  <1>8. GrowthKnown'
    BY <1>7 DEF PoolInv, GrowthKnown
  <1>9. Chain(Listing, head, next)' /\ (Len(chunkIndex') = 1 => Connected(Listing, head, next)')
    BY <1>3 DEF PoolInv, Chain, Connected
  <1>10. chunkCount' = Len(chunkIndex') /\ chunkCount' # 0
    BY DEF PoolInv
  <1> QED BY <1>4, <1>5, <1>6, <1>8, <1>9, <1>10 DEF PoolInv

LEMMA StepInv == PoolInv /\ [Next]_vars => PoolInv'
  <1> SUFFICES ASSUME PoolInv, [Next]_vars PROVE PoolInv'
    OBVIOUS
  <1>1. CASE Done \/ UNCHANGED vars
    BY <1>1, Stutter DEF Done
  <1>2. ASSUME NEW t \in Threads, Acquire(t) \/ Release(t) PROVE PoolInv'
    BY <1>2, AcquireStep, ReleaseStep
  <1>3. ASSUME NEW t \in Threads, Step(t) PROVE PoolInv'
    <2>1. CASE LoadHead(t) \/ LoadRef(t) \/ LoadNext(t) \/ GrowLoad(t) \/ PushLoad(t)
      BY <2>1, LoadHeadStep, LoadRefStep, LoadNextStep, GrowLoadStep, PushLoadStep
    <2>2. CASE AddRef(t)
      BY <2>2, AddRefWonStep, AddRefLostStep
    <2>3. CASE CasHead(t)
      BY <2>3, CasHeadWonStep, CasHeadLostStep
    <2>4. CASE DropRefs(t) \/ Undo(t)
      BY <2>4, DropRefsStep, UndoStep
    <2>5. CASE Exhausted(t) \/ LockChunks(t) \/ Grow(t)
      BY <2>5, ExhaustedStep, LockChunksStep, GrowStep
    <2>6. CASE GrowCas(t)
      BY <2>6, GrowCasWonStep, GrowCasLostStep
    <2>7. CASE SetFree(t) \/ PushStore(t) \/ PushUndo(t)
      BY <2>7, SetFreeStep, PushStoreStep, PushUndoStep
    <2>8. CASE PushCas(t)
      BY <2>8, PushCasWonStep, PushCasLostStep
    <2> QED BY <1>3, <2>1, <2>2, <2>3, <2>4, <2>5, <2>6, <2>7, <2>8 DEF Step
  <1> QED BY <1>1, <1>2, <1>3 DEF Next

\* The pool keeps PoolInv.
THEOREM Invariance == Spec => []PoolInv
  BY InitInv, StepInv, PTL DEF Spec

LEMMA OnTheList ==
  ASSUME PoolInv
  PROVE  /\ FreeList \subseteq Listing
         /\ Len(chunkIndex) = 1 => FreeList = Listing /\ Usable = Live
  <1> DEFINE lists == {S \in SUBSET Live : /\ head \in S \cup {Nil}
                                           /\ \A n \in S : next[n] \in S \cup {Nil}}
  <1>1. Chain(Listing, head, next) /\ Listing \subseteq Live /\ Live \subseteq Nodes
    BY Types
  <1>2. FreeList = {n \in Live : \A S \in lists : n \in S}
    BY DEF FreeList
  <1>3. Listing \in lists
    BY <1>1 DEF Chain
  <1> HIDE DEF lists
  <1>4. FreeList \subseteq Listing
    BY <1>2, <1>3
  <1>5. head \in FreeList \cup {Nil}
    <2>1. head \in Listing \cup {Nil}
      BY <1>1 DEF Chain
    <2>2. \A S \in lists : head # Nil => head \in S
      BY DEF lists
    <2> QED BY <1>1, <1>2, <2>1, <2>2
  <1>6. ASSUME NEW n \in FreeList PROVE next[n] \in FreeList \cup {Nil}
    <2>1. next[n] \in Listing \cup {Nil}
      BY <1>1, <1>4 DEF Chain
    <2>2. \A S \in lists : next[n] # Nil => next[n] \in S
      BY <1>2, <1>6 DEF lists
    <2> QED BY <1>1, <1>2, <2>1, <2>2
  <1>7. ASSUME Len(chunkIndex) = 1 PROVE FreeList = Listing /\ Usable = Live
    <2>1. Connected(Listing, head, next)
      BY <1>7 DEF PoolInv
    <2>2. FreeList = Listing
      BY <1>4, <1>5, <1>6, <2>1 DEF Connected
    <2>3. \A n \in Live : n[1] = 1
      <3>1. \A n \in Nodes : n[1] \in Nat \ {0}
        <4>1. 1 + (maxChunkCount - 1) * Cardinality(Threads) \in Nat
          BY Types, ChunkBound
        <4> QED BY <4>1 DEF Nodes
      <3> QED BY <1>7, <3>1 DEF Live
    <2> QED BY <2>2, <2>3 DEF Usable
  <1> QED BY <1>4, <1>7

\* What the reference count and the places of a node say of each other.
LEMMA Located ==
  ASSUME PoolInv, NEW n \in Live
  PROVE  /\ ref[n] \in 0 .. 2 * FreeBit - 1 /\ FreeBit \in Nat /\ FreeBit > 1
         /\ Cardinality(Referring(n)) \in Nat /\ Cardinality(Referring(n)) + 1 < FreeBit
         /\ Cardinality(Referring(n)) = 0 <=> Referring(n) = {}
         /\ Taking(n) \subseteq WithListRef(n) /\ Owning(n) \subseteq AsOwner(n)
         /\ Releasing(n) \subseteq Holders(n)
         /\ Storing(n) \subseteq Releasing(n)
         /\ WithListRef(n) = Taking(n) \cup {t \in Releasing(n) : pc[t] \in {"pushCas", "pushUndo"}}
         /\ AsOwner(n) \ Owning(n) \subseteq Releasing(n)
         /\ Taking(n) \cap Releasing(n) = {} /\ Owning(n) \cap Releasing(n) = {}
         /\ n \in Usable => Growing(n) = {}
         /\ n \notin Usable => /\ Storing(n) = {} /\ WithListRef(n) = {} /\ Referring(n) = {}
  <1>1. /\ ref[n] \in 0 .. 2 * FreeBit - 1 /\ NodeKnown(n) /\ n # Nil
        /\ \A t \in Threads : ThreadKnown(t) /\ GrowerKnown(t) /\ pc[t] \in Labels
    <2>1. n \in Nodes /\ n # Nil
      BY Types
    <2> QED BY Types, <2>1
  <1>2. /\ FreeBit = Cardinality(Threads) + 2 /\ Cardinality(Threads) \in Nat
        /\ FreeBit \in Nat /\ FreeBit > 1
    <2>1. /\ FreeBit = Cardinality(Threads) + 2 /\ Cardinality(Threads) \in Nat
      BY Bits
    <2> QED BY <2>1
  <1>3. /\ Cardinality(Referring(n)) \in Nat
        /\ Cardinality(Referring(n)) <= Cardinality(Threads)
        /\ Cardinality(Referring(n)) = 0 <=> Referring(n) = {}
    BY OfThreads, FS_Subset, FS_CardinalityType, FS_EmptySet
  <1>4. Cardinality(Referring(n)) + 1 < FreeBit
    BY <1>2, <1>3
  <1>5. /\ Taking(n) \subseteq WithListRef(n) /\ Owning(n) \subseteq AsOwner(n)
        /\ Storing(n) \subseteq Releasing(n)
        /\ AsOwner(n) \ Owning(n) \subseteq Releasing(n)
    BY DEF WithListRef, AsOwner, Storing
  <1>6. ASSUME NEW t \in Releasing(n)
        PROVE  /\ t \in Threads /\ pc[t] \in PushLabels
               /\ t \in Holders(n)
               /\ ~At(t, "setFree") => n \in Usable
    <2>1. t \in Threads /\ pushed[t] = n
      BY DEF Releasing
    <2>2. pc[t] \in PushLabels /\ (~At(t, "setFree") => n \in Usable)
      BY <1>1, <2>1 DEF ThreadKnown
    <2>3. t \in AsOwner(n) \cup Storing(n) \cup WithListRef(n)
      BY <2>2 DEF PushLabels, AsOwner, Storing, WithListRef, At
    <2> QED BY <2>1, <2>2, <2>3 DEF Holders
  <1>7. Taking(n) \cap Releasing(n) = {}
    BY <1>6 DEF Taking, PushLabels, At
  <1>8. ASSUME n \notin Usable PROVE Storing(n) = {} /\ WithListRef(n) = {} /\ Referring(n) = {}
    <2>1. Taking(n) = {}
      BY <1>1, <1>8 DEF Taking, ThreadKnown, At
    <2>2. Storing(n) = {}
      BY <1>6, <1>8 DEF Storing, At
    <2>3. WithListRef(n) = {}
      BY <1>6, <1>8, <2>1 DEF WithListRef, At
    <2>4. Referring(n) = {}
      BY <1>1, <1>8, <2>1 DEF Referring, ThreadKnown, At
    <2> QED BY <2>2, <2>3, <2>4
  <1>9. n \in Usable => Growing(n) = {}
    BY <1>1 DEF Growing, GrowerKnown
  <1>10. Owning(n) \cap Releasing(n) = {}
    <2> SUFFICES ASSUME NEW t \in Owning(n) \cap Releasing(n) PROVE FALSE
      OBVIOUS
    <2>1. t \in Threads /\ n \in held[t] /\ pushed[t] = n
      BY DEF Owning, Releasing
    <2>2. ~At(t, "setFree") /\ n \in Usable
      BY <1>1, <1>6, <2>1 DEF ThreadKnown
    <2>3. t \in Storing(n) \cup WithListRef(n)
      BY <1>6, <2>2 DEF PushLabels, Storing, WithListRef, At
    <2>4. AsOwner(n) = {}
      BY <1>1, <2>2, <2>3 DEF NodeKnown, RefKnown
    <2> QED BY <1>5, <2>4
  <1>11. WithListRef(n) = Taking(n) \cup {t \in Releasing(n) : pc[t] \in {"pushCas", "pushUndo"}}
    BY DEF WithListRef
  <1> QED BY <1>1, <1>2, <1>3, <1>4, <1>5, <1>6, <1>7, <1>8, <1>9, <1>10, <1>11

LEMMA AtMostOne ==
  ASSUME NEW S, NEW H, S \subseteq H, \A t, u \in H : t = u
  PROVE  Cardinality(S) = One(S # {})
  <1>1. CASE S = {}
    BY <1>1, FS_EmptySet DEF One
  <1>2. CASE S # {}
    <2>1. PICK x : S = {x}
      <3>1. PICK x \in S : TRUE
        BY <1>2
      <3>2. S = {x}
        BY <3>1
      <3> QED BY <3>2
    <2> QED BY <1>2, <2>1, FS_Singleton DEF One
  <1> QED BY <1>1, <1>2

\* A node is popped only with the next pointer it has then, and what its new
\* owner takes off the list is not marked as released.
THEOREM SafePop == Spec => []PoppedIsSafe
  <1>1. ASSUME PoolInv, NEW t \in Threads, At(t, "casHead"), head = popped[t]
        PROVE  nextHead[t] = next[head]
    BY <1>1, Types DEF ThreadKnown
  <1>2. ASSUME PoolInv, NEW t \in Threads, At(t, "dropRefs")
        PROVE  ref[popped[t]] < FreeBit
    <2>1. PICK n : n = popped[t]
      OBVIOUS
    <2>2. n \in Usable /\ n \in Live
      BY <1>2, <2>1, Types DEF ThreadKnown, At
    <2>3. t \in WithListRef(n)
      BY <1>2, <2>1 DEF WithListRef, Taking
    <2>4. ref[n] = Cardinality(Referring(n)) + 1
      BY <1>2, <2>2, <2>3, Types DEF NodeKnown, RefKnown
    <2>5. Cardinality(Referring(n)) + 1 < FreeBit
      BY <1>2, <2>2, Located
    <2> QED BY <2>1, <2>4, <2>5
  <1>3. PoolInv => PoppedIsSafe
    BY <1>1, <1>2 DEF PoppedIsSafe
  <1> QED BY <1>3, Invariance, PTL

\* The reference count of a node counts the threads that refer to it and the list.
THEOREM CountsAgree == Spec => []RefsAgree
  <1>1. ASSUME PoolInv PROVE RefsAgree
    <2> DEFINE OnList(n) == \/ n \in FreeList \/ Taking(n) # {}
                            \/ \E t \in Releasing(n) : pc[t] \in {"pushCas", "pushUndo"}
               Count1(n) == Cardinality(Referring(n))
    <2> SUFFICES ASSUME NEW n \in Live
                 PROVE  /\ Count(n) >= Count1(n) + One(OnList(n))
                        /\ Len(chunkIndex) = 1 => Count(n) = Count1(n) + One(OnList(n))
      BY <1>1, Types DEF RefsAgree
    <2>1. OnList(n) <=> n \in FreeList \/ WithListRef(n) # {}
      BY <1>1, Located
    <2>2. n \in FreeList => n \in Usable /\ Holders(n) = {} /\ ref[n] < FreeBit
      BY <1>1, OnTheList DEF Listing
    <2>3. NodeKnown(n)
      BY <1>1, Types
    <2>4. /\ ref[n] \in 0 .. 2 * FreeBit - 1 /\ FreeBit \in Nat /\ FreeBit > 1
          /\ Count1(n) \in Nat /\ Count1(n) + 1 < FreeBit /\ (Count1(n) = 0 <=> Referring(n) = {})
      BY <1>1, Located
    <2>5. Count(n) = IF ref[n] < FreeBit THEN ref[n] ELSE ref[n] - FreeBit
      BY <2>4, Counts
    <2>6. Len(chunkIndex) = 1 => FreeList = Listing /\ n \in Usable
      BY <1>1, OnTheList
    <2> HIDE DEF OnList, Count1
    <2>7. One(OnList(n)) = IF OnList(n) THEN 1 ELSE 0
      BY DEF One
    <2>8. CASE n \notin Usable
      <3>1. ~OnList(n) /\ Count1(n) = 0
        BY <1>1, <2>1, <2>2, <2>4, <2>8, Located
      <3>2. Count(n) >= 0
        BY <2>4, <2>5
      <3> QED BY <2>6, <2>7, <2>8, <3>1, <3>2
    <2>9. CASE n \in Usable /\ ref[n] = Count1(n) + 1 /\ AsOwner(n) = {} /\ Storing(n) = {}
      <3>1. Count(n) = Count1(n) + 1
        BY <2>4, <2>5, <2>9
      <3>2. Len(chunkIndex) = 1 => OnList(n)
        <4> SUFFICES ASSUME Len(chunkIndex) = 1, WithListRef(n) = {} PROVE n \in FreeList
          BY <2>1
        <4>1. Holders(n) = {}
          BY <1>1, <2>9, Located DEF Holders
        <4>2. ref[n] < FreeBit
          BY <2>4, <2>9
        <4> QED BY <2>6, <2>9, <4>1, <4>2 DEF Listing
      <3> QED BY <2>4, <2>7, <3>1, <3>2
    <2>10. CASE n \in Usable /\ ref[n] \in {Count1(n), FreeBit + Count1(n)}
                /\ WithListRef(n) = {} /\ (ref[n] < FreeBit => AsOwner(n) # {})
      <3>1. ~OnList(n)
        BY <2>1, <2>2, <2>10 DEF Holders
      <3>2. Count(n) = Count1(n)
        BY <2>4, <2>5, <2>10
      <3> QED BY <2>4, <2>7, <3>1, <3>2
    <2>11. n \in Usable => RefKnown(n, Count1(n))
      BY <2>3 DEF NodeKnown, Count1
    <2>12. FreeBit + Count1(n) >= FreeBit
      BY <2>4
    <2> QED BY <2>4, <2>8, <2>9, <2>10, <2>11, <2>12 DEF RefKnown
  <1> QED BY <1>1, Invariance, PTL

\* No node is in two places, and in a pool that has not grown each is in one.
THEOREM EveryNodeInPlace == Spec => []OnePlace
  <1>1. ASSUME PoolInv PROVE OnePlace
    <2> SUFFICES ASSUME NEW n \in Live
                 PROVE  LET places == One(n \in FreeList) + One(Deferred(n))
                                        + Cardinality(Taking(n)) + Cardinality(Releasing(n))
                                        + Cardinality(Owning(n))
                        IN  /\ places <= 1
                            /\ Len(chunkIndex) = 1 =>
                                 places = 1 /\ (Deferred(n) => Referring(n) # {})
      BY DEF OnePlace, Owning
    <2> DEFINE listed == n \in FreeList
               taken == Taking(n) # {}
               released == Releasing(n) # {}
               owned == Owning(n) # {}
               deferred == Deferred(n)
               count == Cardinality(Referring(n))
    <2>1. /\ Cardinality(Taking(n)) = One(taken)
          /\ Cardinality(Releasing(n)) = One(released)
          /\ Cardinality(Owning(n)) = One(owned)
      <3>1. \A t, u \in Holders(n) : t = u
        BY <1>1, Types DEF NodeKnown
      <3>2. Taking(n) \subseteq Holders(n) /\ Releasing(n) \subseteq Holders(n)
            /\ Owning(n) \subseteq Holders(n)
        BY <1>1, Located DEF Holders
      <3> QED BY <3>1, <3>2, AtMostOne
    <2>2. Holders(n) \subseteq Taking(n) \cup Releasing(n) \cup Owning(n) \cup Growing(n)
      BY <1>1, Located DEF Holders
    <2>3. \A t, u \in Holders(n) : t = u
      BY <1>1, Types DEF NodeKnown
    <2>4. listed => ~taken /\ ~released /\ ~owned /\ ~deferred
      <3> SUFFICES ASSUME listed PROVE ~taken /\ ~released /\ ~owned /\ ~deferred
        OBVIOUS
      <3>1. Holders(n) = {} /\ ref[n] < FreeBit
        BY <1>1, OnTheList DEF Listing
      <3>2. ~taken /\ ~released /\ ~owned
        BY <1>1, <3>1, Located DEF Holders
      <3>3. ~(ref[n] >= FreeBit)
        BY <1>1, <3>1, Located
      <3> QED BY <3>2, <3>3 DEF Deferred
    <2>5. ~(taken /\ released) /\ ~(released /\ owned) /\ ~(released /\ deferred)
      <3>1. Taking(n) \subseteq Holders(n) /\ Releasing(n) \subseteq Holders(n)
            /\ Owning(n) \subseteq Holders(n)
        BY <1>1, Located DEF Holders
      <3> QED BY <1>1, <2>3, <3>1, Located DEF Deferred
    <2>6. /\ n \in Usable => RefKnown(n, count)
          /\ n \notin Usable => ref[n] = IF Holders(n) = {} THEN FreeBit + 1 ELSE 1
      BY <1>1, Types DEF NodeKnown
    <2>7. ref[n] >= FreeBit =>
            /\ WithListRef(n) = {} /\ AsOwner(n) = {}
            /\ n \in Usable => (count = 0 <=> Storing(n) # {})
      <3>1. count + 1 < FreeBit /\ count \in Nat /\ FreeBit \in Nat /\ FreeBit > 1
        BY <1>1, Located
      <3>2. ~(count >= FreeBit) /\ ~(count + 1 >= FreeBit) /\ ~(1 >= FreeBit)
        BY <3>1
      <3>3. n \notin Usable /\ ref[n] >= FreeBit => Holders(n) = {}
        BY <2>6, <3>2
      <3> QED BY <2>6, <3>2, <3>3 DEF RefKnown, Holders
    <2>8. ~(deferred /\ (taken \/ owned))
      BY <1>1, <2>7, Located DEF Deferred
    <2>9. ~(taken /\ owned)
      <3>1. taken => n \in Usable /\ WithListRef(n) # {}
        BY <1>1, Located
      <3>2. owned => AsOwner(n) # {}
        BY <1>1, Located
      <3> QED BY <2>6, <3>1, <3>2 DEF RefKnown
    <2>10. ASSUME Len(chunkIndex) = 1
           PROVE  /\ listed \/ taken \/ released \/ owned \/ deferred
                  /\ deferred => Referring(n) # {}
      <3>1. FreeList = Listing /\ n \in Usable
        BY <1>1, <2>10, OnTheList
      <3>2. listed <=> Holders(n) = {} /\ ref[n] < FreeBit
        BY <3>1 DEF Listing
      <3>3. Growing(n) = {}
        BY <1>1, <3>1, Located
      <3>4. ref[n] < FreeBit \/ ref[n] >= FreeBit
        BY <1>1, Located
      <3>5. listed \/ taken \/ released \/ owned \/ deferred
        BY <2>2, <3>2, <3>3, <3>4 DEF Deferred
      <3>6. deferred => Storing(n) = {} /\ ref[n] >= FreeBit
        BY <1>1, Located DEF Deferred
      <3>7. deferred => Referring(n) # {}
        BY <1>1, <2>7, <3>1, <3>6, Located
      <3> QED BY <3>5, <3>7
    <2> HIDE DEF listed, taken, released, owned, deferred
    <2>11. One(listed) + One(deferred) + One(taken) + One(released) + One(owned) <= 1
      BY <2>4, <2>5, <2>8, <2>9 DEF One
    <2>12. listed \/ taken \/ released \/ owned \/ deferred =>
             One(listed) + One(deferred) + One(taken) + One(released) + One(owned) = 1
      BY <2>4, <2>5, <2>8, <2>9 DEF One
    <2> QED BY <2>1, <2>10, <2>11, <2>12 DEF listed, deferred
  <1> QED BY <1>1, Invariance, PTL
=============================================================================
