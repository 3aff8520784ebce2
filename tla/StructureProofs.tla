--------------------------- MODULE StructureProofs --------------------------
(***************************************************************************)
(* Theorems about data structures: the hierarchy of MCScene, for any       *)
(* number of triangles; the entities that its import collects, for any     *)
(* file; then the ring of JobQueue, for every ring size, every set of      *)
(* thieves and any number of pushes.                                       *)
(***************************************************************************)
EXTENDS JobQueue, MCScene, ListFacts, FunctionTheorems, FiniteSetTheorems

-----------------------------------------------------------------------------
(* The hierarchy: where its nodes and triangles are. *)

Count == Len(tris)
Size == Len(nodes)

TheNodes == 0 .. Size - 1

\* The node i has the c[i] triangles from s[i] on, its subtree is the nodes from i to
\* e[i] - 1, and it is a child of p[i].
Counts(s, c, e, p) ==
  \A i \in Nat : s[i] \in Nat /\ c[i] \in Nat /\ e[i] \in Nat /\ p[i] \in Nat

\* Of the range of j in tris, that it is part of the range of i or apart from it.
Part(s, c, j, i) == s[i] <= s[j] /\ s[j] + c[j] <= s[i] + c[i]
Apart(s, c, j, i) == s[j] + c[j] <= s[i] \/ s[i] + c[i] <= s[j]

\* The nodes of which e tells where their subtree ends.
Finished(e, i) == e[i] # 0

\* i has the c[i] triangles from s[i] on; below are the children a and b.
Divided(s, c, i, a, b) ==
  /\ s[a] = s[i] /\ s[b] = s[i] + c[a]
  /\ c[i] = c[a] + c[b]

\* A node that split has returned for.
LeafSound(s, c, e, i) ==
  LET node == nodes[i + 1] IN
  node.triCount = c[i] /\ node.link = s[i] /\ e[i] = i + 1

InnerSound(s, c, e, p, i) ==
  LET r == nodes[i + 1].link IN
  /\ i + 1 < r /\ r < Size
  /\ e[i + 1] = r /\ e[r] = e[i]
  /\ Divided(s, c, i, i + 1, r)
  /\ p[i + 1] = i /\ p[r] = i

FinishedSound(s, c, e, p, i) ==
  /\ IF nodes[i + 1].triCount > 0 THEN LeafSound(s, c, e, i) ELSE InnerSound(s, c, e, p, i)
  /\ i < e[i] /\ e[i] <= Size /\ e[i] < i + 2 * c[i]
  /\ \A j \in i .. e[i] - 1 : Part(s, c, j, i)

\* Any node: a subtree of c[i] triangles has at most 2 * c[i] - 1 nodes, and there is
\* room for them.
NodeSound(s, c, e, i) ==
  /\ c[i] >= 1 /\ s[i] + c[i] <= Count /\ i + 2 * c[i] <= 2 * Count
  /\ nodes[i + 1].bound = Tree!TriRange(s[i], c[i])
  /\ \A j \in i + 1 .. Size - 1 : Part(s, c, j, i) \/ Apart(s, c, j, i)

\* Whose child i is.
ParentSound(e, p, i) ==
  LET q == p[i] IN
  /\ q < i
  /\ IF Finished(e, q)
     THEN nodes[q + 1].triCount = 0 /\ i \in {q + 1, nodes[q + 1].link}
     ELSE \E k \in 1 .. Len(calls) :
            calls[k].node = q /\ calls[k].below > 0 /\ i \in {q + 1, calls[k].right}

\* The child that the k-th call waits for, or that it has.
ChildOf(e, k, i) ==
  IF k = 1 THEN e[i] = Size ELSE e[i] = 0 /\ calls[k - 1].node = i

\* A call of split: it has no child yet, a left one, or both.
CallSound(s, c, e, p, k) ==
  LET f == calls[k]
      i == f.node
      r == f.right
  IN  /\ i < Size /\ e[i] = 0 /\ nodes[i + 1].triCount = 0
      /\ f.start = s[i] /\ f.count = c[i]
      /\ IF f.below = 0 THEN r = 0 /\ k = 1 /\ i + 1 = Size
         ELSE /\ i + 1 < Size /\ s[i + 1] = s[i] /\ c[i + 1] = f.below /\ f.below < c[i]
              /\ p[i + 1] = i
              /\ IF r = 0 THEN ChildOf(e, k, i + 1)
                 ELSE /\ i + 1 < r /\ r < Size /\ e[i + 1] = r /\ p[r] = i
                      /\ Divided(s, c, i, i + 1, r)
                      /\ ChildOf(e, k, r)
      /\ \A l \in k + 1 .. Len(calls) : calls[l].node < i

\* The nodes that are not finished are those that split is called for, outermost last.
Laid(s, c, e, p) ==
  /\ Size >= 1 /\ s[0] = 0 /\ c[0] = Count
  /\ \A i \in TheNodes : NodeSound(s, c, e, i)
  /\ \A i \in TheNodes : Finished(e, i) => FinishedSound(s, c, e, p, i)
  /\ \A i \in 1 .. Size - 1 : ParentSound(e, p, i)
  /\ \A k \in 1 .. Len(calls) : CallSound(s, c, e, p, k)
  /\ \A i \in TheNodes : ~Finished(e, i) => \E k \in 1 .. Len(calls) : calls[k].node = i
  /\ IF calls = <<>> THEN e[0] = Size ELSE calls[Len(calls)].node = 0

\* Types.
NodeType == [bound : SUBSET (1 .. Count), link : Nat, triCount : 0 .. U16 - 1]
CallType == [node : Nat, start : Nat, count : Nat, below : Nat, right : Nat]

\* tris is a permutation.
Ordered ==
  /\ tris \in Seq(Nat) /\ Count \in 1 .. MaxTriangles
  /\ \A i \in 1 .. Count : tris[i] \in 1 .. Count
  /\ \A i, j \in 1 .. Count : tris[i] = tris[j] => i = j
  /\ \A x \in 1 .. Count : \E i \in 1 .. Count : tris[i] = x

Typed == Ordered /\ nodes \in Seq(NodeType) /\ calls \in Seq(CallType)

\* No triangle that the ray hits is missed.
Searched ==
  /\ ray \subseteq 1 .. Count /\ dfs \in Seq(TheNodes)
  /\ answer \in {"none", "hit", "miss"}
  /\ calls # <<>> => dfs = <<>> /\ answer = "none"
  /\ dfs # <<>> =>
       /\ answer = "none"
       /\ \A x \in ray : \E k \in 1 .. Len(dfs) : x \in nodes[dfs[k] + 1].bound
  /\ answer = "hit" => ray # {}
  /\ answer = "miss" => ray = {}

\* What holds of the hierarchy in every state: some numbers s, c, e and p say of each
\* node where its range starts, how many triangles it has, where its subtree ends and
\* whose child it is.
LaidOut == Typed /\ \E s, c, e, p : Counts(s, c, e, p) /\ Laid(s, c, e, p)

BvhInv == LaidOut /\ Searched

\* s2, c2, e2 and p2 say of the nodes what s, c, e and p say, and maybe that they are
\* finished.
Extends(s, c, e, p, s2, c2, e2, p2) ==
  \A i \in TheNodes :
    s2[i] = s[i] /\ c2[i] = c[i] /\ p2[i] = p[i] /\ (e[i] # 0 => e2[i] = e[i])

\* What takes the place of the head of a sequence.
LEMMA Pushed ==
  ASSUME NEW S, NEW q \in Seq(S), q # <<>>, NEW a \in S, NEW b \in S
  PROVE  LET r == <<a, b>> \o Tail(q) IN
         /\ r \in Seq(S) /\ Len(r) = Len(q) + 1 /\ r[1] = a /\ r[2] = b
         /\ \A k \in 3 .. Len(q) + 1 : r[k] = q[k - 1]
  <1>1. Tail(q) \in Seq(S) /\ Len(Tail(q)) = Len(q) - 1 /\ Len(q) \in Nat \ {0}
        /\ \A k \in 1 .. Len(q) - 1 : Tail(q)[k] = q[k + 1]
    BY HeadTailProperties, FirstAndLast
  <1>2. <<a, b>> \in Seq(S) /\ Len(<<a, b>>) = 2 /\ <<a, b>>[1] = a /\ <<a, b>>[2] = b
    OBVIOUS
  <1> DEFINE r == <<a, b>> \o Tail(q)
  <1>3. r \in Seq(S) /\ Len(r) = 2 + (Len(q) - 1)
        /\ \A k \in 1 .. Len(r) : r[k] = IF k <= 2 THEN <<a, b>>[k] ELSE Tail(q)[k - 2]
    <2> HIDE DEF r
    <2>1. /\ r \in Seq(S) /\ Len(r) = Len(<<a, b>>) + Len(Tail(q))
          /\ \A i \in 1 .. Len(r) :
               r[i] = IF i <= Len(<<a, b>>) THEN <<a, b>>[i] ELSE Tail(q)[i - Len(<<a, b>>)]
      BY <1>1, <1>2, ConcatProperties DEF r
    <2> QED BY <2>1, <1>1, <1>2
  <1> HIDE DEF r
  <1>4. \A k \in 3 .. Len(q) + 1 : r[k] = q[k - 1]
    <2> TAKE k \in 3 .. Len(q) + 1
    <2>1. k \in 1 .. Len(r) /\ ~(k <= 2) /\ k - 2 \in 1 .. Len(q) - 1 /\ (k - 2) + 1 = k - 1
      BY <1>1, <1>3
    <2>2. r[k] = Tail(q)[k - 2] /\ Tail(q)[k - 2] = q[(k - 2) + 1]
      BY <1>1, <1>3, <2>1
    <2> QED BY <2>1, <2>2
  <1>5. r[1] = a /\ r[2] = b /\ Len(r) = Len(q) + 1
    BY <1>1, <1>2, <1>3
  <1> QED BY <1>3, <1>4, <1>5 DEF r

\* What the types say of lengths and elements.
LEMMA TreeSizes ==
  ASSUME Typed
  PROVE  /\ Size \in Nat /\ Count \in Nat \ {0} /\ Count <= MaxTriangles /\ Count < U16
         /\ Len(calls) \in Nat
         /\ \A i \in TheNodes : i \in Nat /\ i + 1 \in 1 .. Size /\ nodes[i + 1] \in NodeType
         /\ \A k \in 1 .. Len(calls) : calls[k] \in CallType
  <1>1. Size \in Nat /\ Len(calls) \in Nat
    BY LenProperties DEF Typed, Size
  <1>2. \A i \in TheNodes : i \in Nat /\ i + 1 \in 1 .. Size
    BY <1>1 DEF TheNodes
  <1>3. \A j \in 1 .. Size : nodes[j] \in NodeType
    BY ElementOfSeq DEF Typed, Size
  <1>4. \A k \in 1 .. Len(calls) : calls[k] \in CallType
    BY ElementOfSeq DEF Typed
  <1>5. Count \in Nat \ {0} /\ Count <= MaxTriangles /\ Count < U16
    BY TreeAssumption DEF Typed, Ordered
  <1> QED BY <1>1, <1>2, <1>3, <1>4, <1>5

\* The calls that remain when the innermost returns to the one around it.
LEMMA ReturnCalls ==
  ASSUME Typed, NEW s, NEW c, NEW e, NEW p, NEW s2, NEW c2, NEW e2, NEW p2,
         Laid(s, c, e, p), calls # <<>>, Extends(s, c, e, p, s2, c2, e2, p2),
         NEW t, t = calls[1].node,
         Len(nodes)' \in Nat, Len(nodes)' >= Size, calls' = Tail(calls), e2[t] = Len(nodes)',
         \A i \in TheNodes : i # t => e2[i] = e[i] /\ nodes'[i + 1] = nodes[i + 1]
  PROVE  /\ t \in TheNodes /\ Len(calls') = Len(calls) - 1
         /\ \A k \in 1 .. Len(calls) - 1 : calls'[k] = calls[k + 1] /\ calls'[k].node # t
         /\ \A k \in 1 .. Len(calls') : CallSound(s2, c2, e2, p2, k)'
  <1>1. Len(calls) \in Nat \ {0} /\ Size \in Nat
    BY TreeSizes, FirstAndLast DEF Typed
  <1>2. PICK n : n = Len(nodes)'
    OBVIOUS
  <1>3. /\ n \in Nat /\ n >= Size /\ e2[t] = n
        /\ \A i \in TheNodes : s2[i] = s[i] /\ c2[i] = c[i] /\ p2[i] = p[i]
    BY <1>2 DEF Extends
  <1>4. Len(calls') = Len(calls) - 1 /\ \A k \in 1 .. Len(calls) - 1 : calls'[k] = calls[k + 1]
    BY HeadTailProperties DEF Typed
  <1>5. \A k \in 1 .. Len(calls) : CallSound(s, c, e, p, k) /\ calls[k] \in CallType
    BY TreeSizes DEF Laid
  <1>6. \A k \in 2 .. Len(calls) : calls[k].node < t
    <2>1. CallSound(s, c, e, p, 1)
      BY <1>1, <1>5
    <2> QED BY <1>1, <2>1 DEF CallSound
  <1>7. t \in TheNodes
    <2>1. CallSound(s, c, e, p, 1) /\ calls[1] \in CallType
      BY <1>1, <1>5
    <2> QED BY <1>1, <2>1 DEF CallSound, TheNodes, CallType
  <1>8. \A k \in 1 .. Len(calls) - 1 : calls'[k].node # t
    BY <1>1, <1>4, <1>6, <1>7 DEF TheNodes
  <1>9. ASSUME NEW k \in 1 .. Len(calls') PROVE CallSound(s2, c2, e2, p2, k)'
    <2>1. PICK m : m = k + 1
      OBVIOUS
    <2>2. m \in 2 .. Len(calls) /\ calls'[k] = calls[m]
      BY <1>1, <1>4, <2>1
    <2>3. PICK f : f = calls[m]
      OBVIOUS
    <2>4. f \in CallType /\ CallSound(s, c, e, p, m)
      BY <1>1, <1>5, <2>2, <2>3
    <2>5. PICK i, r, b : i = f.node /\ r = f.right /\ b = f.below
      OBVIOUS
    <2>6. i \in Nat /\ r \in Nat /\ b \in Nat
      BY <2>4, <2>5 DEF CallType
    <2>7. /\ i < Size /\ e[i] = 0 /\ nodes[i + 1].triCount = 0
          /\ f.start = s[i] /\ f.count = c[i] /\ b # 0
          /\ i + 1 < Size /\ s[i + 1] = s[i] /\ c[i + 1] = b /\ b < c[i] /\ p[i + 1] = i
          /\ (r = 0 => e[i + 1] = 0 /\ calls[m - 1].node = i + 1)
          /\ (r # 0 => /\ i + 1 < r /\ r < Size /\ e[i + 1] = r /\ p[r] = i
                       /\ Divided(s, c, i, i + 1, r)
                       /\ e[r] = 0 /\ calls[m - 1].node = r)
          /\ \A l \in m + 1 .. Len(calls) : calls[l].node < i
      BY <2>2, <2>3, <2>4, <2>5 DEF CallSound, ChildOf
    <2>8. i \in TheNodes /\ i # t /\ i + 1 \in TheNodes /\ (r # 0 => r \in TheNodes)
      <3>1. f.node < t
        BY <1>6, <2>2, <2>3
      <3>2. i < t
        BY <2>5, <3>1
      <3>3. \A j \in Nat : j < Size => j \in TheNodes
        BY <1>1 DEF TheNodes
      <3>4. t \in Nat
        BY <1>1, <1>7 DEF TheNodes
      <3>5. i \in TheNodes /\ i + 1 \in TheNodes /\ (r # 0 => r \in TheNodes)
        <4>1. i + 1 \in Nat
          BY <2>6
        <4> QED BY ONLY <2>6, <2>7, <3>3, <4>1
      <3>6. i # t
        BY ONLY <2>6, <3>2, <3>4
      <3> QED BY ONLY <3>5, <3>6
    <2>9. \A l \in k + 1 .. Len(calls') : calls'[l].node < i
      <3> TAKE l \in k + 1 .. Len(calls')
      <3>1. l + 1 \in m + 1 .. Len(calls) /\ calls'[l] = calls[l + 1]
        BY <1>1, <1>4, <2>1
      <3> QED BY <2>7, <3>1
    <2>10. \A x \in TheNodes : e[x] = 0 /\ calls[m - 1].node = x
             => IF k = 1 THEN e2[x] = n ELSE e2[x] = 0 /\ calls'[k - 1].node = x
      <3> TAKE x \in TheNodes
      <3> HAVE e[x] = 0 /\ calls[m - 1].node = x
      <3>1. CASE k = 1
        BY <2>1, <3>1, <1>3
      <3>2. CASE k # 1
        <4>1. PICK j : j = k - 1
          OBVIOUS
        <4>2. j \in 1 .. Len(calls) - 1 /\ j + 1 = m - 1
          BY <1>1, <1>4, <2>1, <3>2, <4>1
        <4>3. calls'[j] = calls[j + 1] /\ calls'[j].node # t
          BY <1>4, <1>8, <4>2
        <4>4. calls'[j] = calls[m - 1] /\ x # t
          BY <4>2, <4>3
        <4> QED BY <3>2, <4>1, <4>4
      <3> QED BY <3>1, <3>2
    <2>11. /\ e2[i] = 0 /\ nodes'[i + 1] = nodes[i + 1] /\ s2[i] = s[i] /\ c2[i] = c[i]
           /\ s2[i + 1] = s[i + 1] /\ c2[i + 1] = c[i + 1] /\ p2[i + 1] = p[i + 1]
           /\ r # 0 => s2[r] = s[r] /\ c2[r] = c[r] /\ p2[r] = p[r]
      BY <2>7, <2>8, <1>3
    <2>12. r = 0 => ChildOf(e2, k, i + 1)'
      BY <2>7, <2>8, <2>10, <1>2 DEF ChildOf, Size
    <2>13. r # 0 => ChildOf(e2, k, r)'
      BY <2>7, <2>8, <2>10, <1>2 DEF ChildOf, Size
    <2>14. r # 0 => e2[i + 1] = r /\ Divided(s2, c2, i, i + 1, r)
      <3> HAVE r # 0
      <3>1. e[i + 1] # 0 /\ i + 1 # t
        <4>1. CallSound(s, c, e, p, 1)
          BY <1>1, <1>5
        <4>2. e[t] = 0
          BY <4>1 DEF CallSound
        <4> QED BY <2>7, <4>2
      <3> QED BY <2>7, <2>8, <2>11, <3>1 DEF Divided
    <2> DEFINE g == calls'[k]
    <2>15. g = f /\ f.node = i /\ f.right = r /\ f.below = b
      BY <2>2, <2>3, <2>5
    <2>16. i < n /\ i + 1 < n /\ (r # 0 => r < n)
      BY <1>1, <1>3, <2>6, <2>7
    <2> QED BY <1>2, <2>7, <2>9, <2>11, <2>12, <2>13, <2>14, <2>15, <2>16 DEF CallSound, Size
  <1> QED BY <1>4, <1>7, <1>8, <1>9

\* The innermost call, by its cases.
LEMMA TopCall ==
  ASSUME Typed, NEW s, NEW c, NEW e, NEW p, Counts(s, c, e, p), Laid(s, c, e, p), calls # <<>>
  PROVE  LET f == calls[1]
             t == f.node IN
         /\ 1 \in 1 .. Len(calls) /\ f \in CallType /\ Tree!Top = f
         /\ t \in TheNodes /\ e[t] = 0 /\ nodes[t + 1].triCount = 0
         /\ f.start = s[t] /\ f.count = c[t]
         /\ f.below = 0 => f.right = 0 /\ t + 1 = Size
         /\ f.below # 0 =>
              /\ t + 1 \in TheNodes /\ s[t + 1] = s[t] /\ c[t + 1] = f.below /\ f.below < c[t]
              /\ p[t + 1] = t /\ (f.right = 0 => e[t + 1] = Size)
         /\ f.right # 0 =>
              /\ f.right \in TheNodes /\ t + 1 < f.right /\ e[t + 1] = f.right /\ p[f.right] = t
              /\ Divided(s, c, t, t + 1, f.right) /\ e[f.right] = Size
  <1>1. Len(calls) \in Nat \ {0} /\ 1 \in 1 .. Len(calls) /\ Size \in Nat
    BY TreeSizes, FirstAndLast DEF Typed
  <1>2. PICK f : f = calls[1]
    OBVIOUS
  <1>3. f \in CallType /\ CallSound(s, c, e, p, 1)
    BY <1>1, <1>2, TreeSizes DEF Laid
  <1>4. PICK t, r, b : t = f.node /\ r = f.right /\ b = f.below
    OBVIOUS
  <1>5. t \in Nat /\ r \in Nat /\ b \in Nat
    BY <1>3, <1>4 DEF CallType
  <1>6. /\ t < Size /\ e[t] = 0 /\ nodes[t + 1].triCount = 0 /\ f.start = s[t] /\ f.count = c[t]
        /\ b = 0 => r = 0 /\ t + 1 = Size
        /\ b # 0 => /\ t + 1 < Size /\ s[t + 1] = s[t] /\ c[t + 1] = b /\ b < c[t]
                    /\ p[t + 1] = t /\ (r = 0 => e[t + 1] = Size)
        /\ r # 0 => /\ t + 1 < r /\ r < Size /\ e[t + 1] = r /\ p[r] = t
                    /\ Divided(s, c, t, t + 1, r) /\ e[r] = Size
    BY <1>2, <1>3, <1>4 DEF CallSound, ChildOf
  <1>7. t \in TheNodes /\ (b # 0 => t + 1 \in TheNodes) /\ (r # 0 => r \in TheNodes)
    BY <1>1, <1>5, <1>6 DEF TheNodes
  <1>8. Tree!Top = f
    BY <1>2 DEF Tree!Top
  <1> QED BY <1>1, <1>2, <1>3, <1>4, <1>6, <1>7, <1>8

\* The calls after the innermost has pushed a node for a call of its own: first
\* the one to the left, then, when that is done, the one to the right.
\* split calls itself for the n triangles from st on, the left side or the right one, and
\* b and r are what its frame has then.
GoesLeft(s, c, st, n, b, r) ==
  LET t == calls[1].node IN
  calls[1].below = 0 /\ st = s[t] /\ n >= 1 /\ n < c[t] /\ b = n /\ r = 0

GoesRight(s, c, st, n, b, r) ==
  LET t == calls[1].node IN
  /\ calls[1].below # 0 /\ calls[1].right = 0 /\ b = calls[1].below
  /\ st = s[t] + b /\ n = c[t] - b /\ r = Size

\* g is the new call, h the one that waits for it.
NewCalls(st, n, b, r, g, h) ==
  /\ g \in CallType /\ g.node = Size /\ g.start = st /\ g.count = n /\ g.below = 0 /\ g.right = 0
  /\ h \in CallType /\ h.node = calls[1].node /\ h.start = calls[1].start
  /\ h.count = calls[1].count /\ h.below = b /\ h.right = r
  /\ calls' = <<g, h>> \o Tail(calls)

\* The calls after split has called itself for the one side or for the other.
LEMMA PushCalls ==
  ASSUME Typed, NEW s, NEW c, NEW e, NEW p, Counts(s, c, e, p), Laid(s, c, e, p), calls # <<>>,
         NEW st, NEW n, NEW b, NEW r,
         st \in Nat, n \in Nat, b \in Nat, r \in Nat,
         GoesLeft(s, c, st, n, b, r) \/ GoesRight(s, c, st, n, b, r),
         NEW s2, NEW c2, NEW e2, NEW p2, Extends(s, c, e, p, s2, c2, e2, p2),
         \A i \in TheNodes : e2[i] = e[i], NEW t, t = calls[1].node,
         s2[Size] = st, c2[Size] = n, e2[Size] = 0, p2[Size] = t,
         Len(nodes)' = Size + 1, nodes'[Size + 1].triCount = 0,
         \A i \in TheNodes : nodes'[i + 1] = nodes[i + 1],
         NEW g, NEW h, NewCalls(st, n, b, r, g, h)
  PROVE  /\ calls' \in Seq(CallType) /\ Len(calls') = Len(calls) + 1
         /\ calls'[1].node = Size /\ calls'[2].node = t
         /\ calls'[2].below = b /\ calls'[2].right = r
         /\ \A k \in 2 .. Len(calls) : calls'[k + 1] = calls[k]
         /\ \A k \in 1 .. Len(calls') : CallSound(s2, c2, e2, p2, k)'
  <1>1. \A i \in TheNodes : s2[i] = s[i] /\ c2[i] = c[i] /\ e2[i] = e[i] /\ p2[i] = p[i]
    BY DEF Extends
  <1>2. PICK f : f = calls[1]
    OBVIOUS
  <1>3. /\ f \in CallType /\ t \in TheNodes /\ e[t] = 0 /\ nodes[t + 1].triCount = 0
        /\ f.start = s[t] /\ f.count = c[t] /\ f.node = t
        /\ f.below = 0 => f.right = 0 /\ t + 1 = Size
        /\ f.below # 0 =>
              /\ t + 1 \in TheNodes /\ s[t + 1] = s[t] /\ c[t + 1] = f.below /\ f.below < c[t]
              /\ p[t + 1] = t /\ (f.right = 0 => e[t + 1] = Size)
    BY <1>2, TopCall
  <1>4. Len(calls) \in Nat \ {0} /\ Size \in Nat
    BY TreeSizes, FirstAndLast DEF Typed
  <1>5. /\ calls' \in Seq(CallType) /\ Len(calls') = Len(calls) + 1
        /\ calls'[1] = g /\ calls'[2] = h
        /\ \A k \in 3 .. Len(calls) + 1 : calls'[k] = calls[k - 1]
    <2>1. LET q == <<g, h>> \o Tail(calls) IN
          /\ q \in Seq(CallType) /\ Len(q) = Len(calls) + 1 /\ q[1] = g /\ q[2] = h
          /\ \A k \in 3 .. Len(calls) + 1 : q[k] = calls[k - 1]
      BY Pushed DEF Typed, NewCalls
    <2>2. calls' = <<g, h>> \o Tail(calls)
      BY DEF NewCalls
    <2> QED BY <2>1, <2>2
  <1>6. \A k \in 2 .. Len(calls) : calls'[k + 1] = calls[k]
    <2> TAKE k \in 2 .. Len(calls)
    <2>1. k + 1 \in 3 .. Len(calls) + 1 /\ (k + 1) - 1 = k
      BY <1>4
    <2> QED BY <1>5, <2>1
  <1>7. /\ g.node = Size /\ g.start = st /\ g.count = n /\ g.below = 0 /\ g.right = 0
        /\ h.node = t /\ h.start = f.start /\ h.count = f.count /\ h.below = b /\ h.right = r
    BY <1>2 DEF NewCalls
  <1>8. \A k \in 1 .. Len(calls) : CallSound(s, c, e, p, k) /\ calls[k] \in CallType
    BY TreeSizes DEF Laid
  <1>9. \A l \in 2 .. Len(calls) : calls[l].node < t
    <2>1. CallSound(s, c, e, p, 1)
      BY <1>4, <1>8
    <2> QED BY <2>1 DEF CallSound
  <1>10. t \in Nat /\ t < Size /\ s[t] \in Nat /\ c[t] \in Nat
    BY <1>3, <1>4 DEF TheNodes, Counts
  <1>11. CallSound(s2, c2, e2, p2, 1)'
    <2>1. \A l \in 2 .. Len(calls') : calls'[l].node < Size
      <3> TAKE l \in 2 .. Len(calls')
      <3>1. CASE l = 2
        BY <1>5, <1>7, <1>10, <3>1
      <3>2. CASE l # 2
        <4>1. PICK j : j = l - 1
          OBVIOUS
        <4>2. j \in 2 .. Len(calls) /\ l = j + 1
          BY <1>4, <1>5, <3>2, <4>1
        <4>3. calls'[l] = calls[j] /\ calls[j].node < t /\ calls[j].node \in Nat
          BY <1>6, <1>8, <1>9, <4>2 DEF CallType
        <4> QED BY SMTT(30), <1>10, <4>3, <1>4
      <3> QED BY <3>1, <3>2
    <2> QED BY <1>4, <1>5, <1>7, <2>1 DEF CallSound, Size
  <1>12. CallSound(s2, c2, e2, p2, 2)'
    <2>1. \A l \in 3 .. Len(calls') : calls'[l].node < t
      <3> TAKE l \in 3 .. Len(calls')
      <3>1. PICK j : j = l - 1
        OBVIOUS
      <3>2. j \in 2 .. Len(calls) /\ l = j + 1
        BY <1>4, <1>5, <3>1
      <3> QED BY <1>6, <1>9, <3>2
    <2>2. PICK z : z = Size
      OBVIOUS
    <2>3. ChildOf(e2, 2, z)'
      BY <1>5, <1>7, <1>4, <2>2 DEF ChildOf
    <2>4. t < Size + 1 /\ e2[t] = 0 /\ nodes'[t + 1].triCount = 0 /\ h.start = s2[t] /\ h.count = c2[t]
      <3>1. e2[t] = 0 /\ nodes'[t + 1].triCount = 0 /\ s2[t] = s[t] /\ c2[t] = c[t]
        BY <1>3, <1>1
      <3> QED BY <1>3, <1>4, <1>7, <1>10, <3>1
    <2>5. CASE GoesLeft(s, c, st, n, b, r)
      <3>1. /\ f.below = 0 /\ st = s[t] /\ n >= 1 /\ n < c[t] /\ b = n /\ r = 0
            /\ t + 1 = Size
        BY <1>2, <1>3, <2>5 DEF GoesLeft
      <3>2. t + 1 < Size + 1 /\ s2[t + 1] = s2[t] /\ c2[t + 1] = b /\ b < c2[t] /\ p2[t + 1] = t
            /\ b # 0
        BY <1>3, <1>4, <1>1, <3>1
      <3> QED BY <1>5, <1>7, <2>1, <2>2, <2>3, <2>4, <3>1, <3>2 DEF CallSound, Size, ChildOf
    <2>6. CASE GoesRight(s, c, st, n, b, r)
      <3>1. f.below # 0 /\ f.right = 0 /\ b = f.below /\ st = s[t] + b /\ n = c[t] - b /\ r = Size
        BY <1>2, <2>6 DEF GoesRight
      <3>2. /\ t + 1 \in TheNodes /\ s[t + 1] = s[t] /\ c[t + 1] = b /\ b < c[t]
            /\ p[t + 1] = t /\ e[t + 1] = Size
        BY <1>3, <3>1
      <3>3. t + 1 < Size /\ Size # 0
        BY SMTT(30), <1>4, <1>10, <3>2 DEF TheNodes
      <3>4. /\ t + 1 < Size + 1 /\ s2[t + 1] = s2[t] /\ c2[t + 1] = b /\ b < c2[t] /\ p2[t + 1] = t
            /\ e2[t + 1] = r /\ p2[r] = t /\ t + 1 < r /\ r < Size + 1 /\ r # 0
        <4>1. e2[t + 1] = Size /\ s2[t + 1] = s[t] /\ c2[t + 1] = b /\ p2[t + 1] = t
              /\ s2[t] = s[t] /\ c2[t] = c[t]
          BY <1>3, <1>1, <3>2
        <4> QED BY <1>4, <1>10, <3>1, <3>2, <3>3, <4>1
      <3>5. Divided(s2, c2, t, t + 1, r)
        <4>1. s2[r] = s[t] + b /\ c2[r] = c[t] - b
          BY <3>1
        <4>2. s2[t] = s[t] /\ c2[t] = c[t] /\ s2[t + 1] = s[t] /\ c2[t + 1] = b
          BY <1>3, <1>1, <3>2
        <4> QED BY <1>10, <4>1, <4>2 DEF Divided
      <3>6. ChildOf(e2, 2, r)'
        BY <2>2, <2>3, <3>1
      <3>7. r # 0 /\ h.below # 0
        BY <1>7, <1>10, <3>1, <3>4
      <3> QED BY <1>5, <1>7, <2>1, <2>4, <3>4, <3>5, <3>6, <3>7 DEF CallSound, Size
    <2> QED BY <2>5, <2>6
  <1>13. ASSUME NEW k \in 3 .. Len(calls') PROVE CallSound(s2, c2, e2, p2, k)'
    <2>1. PICK m : m = k - 1
      OBVIOUS
    <2>2. m \in 2 .. Len(calls) /\ calls'[k] = calls[m] /\ k = m + 1
      BY <1>4, <1>5, <1>6, <2>1
    <2>3. PICK x : x = calls[m]
      OBVIOUS
    <2>4. x \in CallType /\ CallSound(s, c, e, p, m)
      BY <1>4, <1>8, <2>2, <2>3
    <2>5. PICK i, y, z : i = x.node /\ y = x.right /\ z = x.below
      OBVIOUS
    <2>6. i \in Nat /\ y \in Nat /\ z \in Nat
      BY <2>4, <2>5 DEF CallType
    <2>7. /\ i < Size /\ e[i] = 0 /\ nodes[i + 1].triCount = 0
          /\ x.start = s[i] /\ x.count = c[i] /\ z # 0
          /\ i + 1 < Size /\ s[i + 1] = s[i] /\ c[i + 1] = z /\ z < c[i] /\ p[i + 1] = i
          /\ (y = 0 => e[i + 1] = 0 /\ calls[m - 1].node = i + 1)
          /\ (y # 0 => /\ i + 1 < y /\ y < Size /\ e[i + 1] = y /\ p[y] = i
                       /\ Divided(s, c, i, i + 1, y)
                       /\ e[y] = 0 /\ calls[m - 1].node = y)
          /\ \A l \in m + 1 .. Len(calls) : calls[l].node < i
      BY <2>2, <2>3, <2>4, <2>5 DEF CallSound, ChildOf
    <2>8. i \in TheNodes /\ i + 1 \in TheNodes /\ (y # 0 => y \in TheNodes)
      <3>1. i < Size /\ i + 1 < Size /\ (y # 0 => y < Size)
        BY <2>7
      <3>2. \A j \in Nat : j < Size => j \in TheNodes
        BY <1>4 DEF TheNodes
      <3> QED BY <2>6, <3>1, <3>2
    <2>9. \A l \in k + 1 .. Len(calls') : calls'[l].node < i
      <3> TAKE l \in k + 1 .. Len(calls')
      <3>1. PICK j : j = l - 1
        OBVIOUS
      <3>2. j \in m + 1 .. Len(calls) /\ j \in 2 .. Len(calls) /\ l = j + 1
        <4>1. l \in Int /\ l >= k + 1 /\ l <= Len(calls) + 1 /\ k = m + 1 /\ m \in Int /\ m >= 2
          BY <1>4, <1>5, <2>2
        <4> QED BY <1>4, <3>1, <4>1
      <3> QED BY <1>6, <2>7, <3>2
    <2>10. calls'[k - 1].node = calls[m - 1].node
      <3>1. CASE m = 2
        BY <1>2, <1>3, <1>5, <1>7, <2>2, <3>1
      <3>2. CASE m # 2
        <4>1. PICK j : j = m - 1
          OBVIOUS
        <4>2. j \in 2 .. Len(calls) /\ k - 1 = j + 1
          BY <1>4, <2>2, <3>2, <4>1
        <4> QED BY <1>6, <4>1, <4>2
      <3> QED BY <3>1, <3>2
    <2>11. /\ e2[i] = 0 /\ nodes'[i + 1] = nodes[i + 1] /\ s2[i] = s[i] /\ c2[i] = c[i]
           /\ s2[i + 1] = s[i + 1] /\ c2[i + 1] = c[i + 1] /\ p2[i + 1] = p[i + 1]
           /\ e2[i + 1] = e[i + 1]
           /\ y # 0 => s2[y] = s[y] /\ c2[y] = c[y] /\ p2[y] = p[y] /\ e2[y] = e[y]
      BY <2>7, <2>8, <1>1
    <2>12. y = 0 => ChildOf(e2, k, i + 1)'
      BY <2>2, <2>7, <2>10, <2>11 DEF ChildOf
    <2>13. y # 0 => ChildOf(e2, k, y)'
      BY <2>2, <2>7, <2>10, <2>11 DEF ChildOf
    <2>14. y # 0 => e2[i + 1] = y /\ Divided(s2, c2, i, i + 1, y)
      BY <2>7, <2>11 DEF Divided
    <2>15. calls'[k] = x /\ x.node = i /\ x.right = y /\ x.below = z
      BY <2>2, <2>3, <2>5
    <2>16. i < Size + 1 /\ i + 1 < Size + 1 /\ (y # 0 => y < Size + 1)
      BY SMTT(30), <1>4, <2>6, <2>7
    <2> QED BY <2>7, <2>9, <2>11, <2>12, <2>13, <2>14, <2>15, <2>16 DEF CallSound, Size
  <1>14. \A k \in 1 .. Len(calls') : k = 1 \/ k = 2 \/ k \in 3 .. Len(calls')
    BY <1>4, <1>5
  <1>15. \A k \in 1 .. Len(calls') : CallSound(s2, c2, e2, p2, k)'
    BY <1>11, <1>12, <1>13, <1>14
  <1> QED BY <1>5, <1>6, <1>7, <1>15

\* What is said of a finished node is not changed by the nodes that come later.
LEMMA FinishedStays ==
  ASSUME Typed, NEW s, NEW c, NEW e, NEW p, Counts(s, c, e, p),
         NEW s2, NEW c2, NEW e2, NEW p2, Extends(s, c, e, p, s2, c2, e2, p2),
         Len(nodes)' \in Nat, Len(nodes)' >= Size,
         NEW i \in TheNodes, e[i] # 0, FinishedSound(s, c, e, p, i),
         \A j \in TheNodes : e[j] # 0 => nodes'[j + 1] = nodes[j + 1]
  PROVE  FinishedSound(s2, c2, e2, p2, i)'
  <1>1. PICK n : n = Len(nodes)'
    OBVIOUS
  <1>2. /\ n \in Nat /\ n >= Size
        /\ \A j \in TheNodes : s2[j] = s[j] /\ c2[j] = c[j] /\ p2[j] = p[j]
        /\ \A j \in TheNodes : e[j] # 0 => e2[j] = e[j] /\ nodes'[j + 1] = nodes[j + 1]
    BY <1>1 DEF Extends
  <1>3. Size \in Nat /\ i \in Nat /\ i < Size /\ i + 1 \in 1 .. Size /\ nodes[i + 1] \in NodeType
    BY TreeSizes DEF TheNodes
  <1>4. PICK r, x : r = nodes[i + 1].link /\ x = nodes[i + 1].triCount
    OBVIOUS
  <1>5. nodes'[i + 1] = nodes[i + 1] /\ e2[i] = e[i] /\ s2[i] = s[i] /\ c2[i] = c[i]
    BY <1>2
  <1>6. r \in Nat /\ x \in Nat /\ e[i] \in Nat /\ c[i] \in Nat
    BY <1>3, <1>4, TreeAssumption DEF NodeType, Counts
  <1>7. i < e[i] /\ e[i] <= Size /\ e[i] < i + 2 * c[i]
    BY DEF FinishedSound
  <1>8. \A j \in i .. e[i] - 1 : j \in TheNodes /\ Part(s, c, j, i)
    BY <1>3, <1>6, <1>7 DEF FinishedSound, TheNodes
  <1>9. \A j \in i .. e[i] - 1 : Part(s2, c2, j, i)
    BY <1>5, <1>8, <1>2 DEF Part
  <1>10. CASE x > 0
    <2>1. LeafSound(s2, c2, e2, i)'
      <3>1. LeafSound(s, c, e, i)
        BY <1>4, <1>10 DEF FinishedSound
      <3> QED BY <1>5, <3>1 DEF LeafSound
    <2> QED BY <1>1, <1>2, <1>3, <1>4, <1>5, <1>6, <1>7, <1>9, <1>10, <2>1 DEF FinishedSound, Size
  <1>11. CASE ~(x > 0)
    <2>1. /\ i + 1 < r /\ r < Size /\ e[i + 1] = r /\ e[r] = e[i]
          /\ Divided(s, c, i, i + 1, r) /\ p[i + 1] = i /\ p[r] = i
      BY <1>4, <1>11 DEF FinishedSound, InnerSound
    <2>2. i + 1 \in TheNodes /\ r \in TheNodes /\ e[i + 1] # 0
      BY <1>3, <1>6, <2>1 DEF TheNodes
    <2>3. e2[i + 1] = e[i + 1] /\ e2[r] = e[r] /\ p2[i + 1] = i /\ p2[r] = i
      BY <1>2, <2>1, <2>2
    <2>4. Divided(s2, c2, i, i + 1, r)
      BY <1>5, <1>2, <2>1, <2>2 DEF Divided
    <2>5. r < n
      BY <1>3, <1>6, <1>2, <2>1
    <2>6. InnerSound(s2, c2, e2, p2, i)'
      BY <1>4, <1>5, <2>1, <2>3, <2>4, <2>5, <1>1 DEF InnerSound, Size
    <2> QED BY <1>1, <1>2, <1>3, <1>4, <1>5, <1>6, <1>7, <1>9, <1>11, <2>6 DEF FinishedSound, Size
  <1> QED BY <1>10, <1>11

\* Ranges inside each other.
LEMMA PartTransitive ==
  ASSUME NEW s, NEW c, NEW i, NEW t, NEW j, s[i] \in Nat, c[i] \in Nat, s[t] \in Nat, c[t] \in Nat,
         s[j] \in Nat, c[j] \in Nat, Part(s, c, j, t)
  PROVE  /\ Part(s, c, t, i) => Part(s, c, j, i)
         /\ Apart(s, c, t, i) => Apart(s, c, j, i)
BY DEF Part, Apart

\* The range of the new node is in that of the innermost call, and apart from all
\* others that do not include it.
LEMMA PushPlace ==
  ASSUME Typed, NEW s, NEW c, NEW e, NEW p, Counts(s, c, e, p), Laid(s, c, e, p), calls # <<>>,
         NEW st \in Nat, NEW n \in Nat, NEW b \in Nat, NEW r \in Nat,
         GoesLeft(s, c, st, n, b, r) \/ GoesRight(s, c, st, n, b, r)
  PROVE  LET t == calls[1].node IN
         /\ n >= 1 /\ s[t] <= st /\ st + n <= s[t] + c[t] /\ Size + 2 * n <= 2 * Count
         /\ st + n <= Count
         /\ \A i \in TheNodes : \/ s[i] <= st /\ st + n <= s[i] + c[i]
                                \/ st + n <= s[i] \/ s[i] + c[i] <= st
  <1>1. PICK f, t : f = calls[1] /\ t = f.node
    OBVIOUS
  <1>2. /\ f \in CallType /\ t \in TheNodes /\ f.start = s[t] /\ f.count = c[t]
        /\ f.below = 0 => f.right = 0 /\ t + 1 = Size
        /\ f.below # 0 =>
              /\ t + 1 \in TheNodes /\ s[t + 1] = s[t] /\ c[t + 1] = f.below /\ f.below < c[t]
              /\ (f.right = 0 => e[t + 1] = Size)
    BY <1>1, TopCall
  <1>3. Size \in Nat /\ Count \in Nat /\ t \in Nat /\ t < Size /\ s[t] \in Nat /\ c[t] \in Nat
        /\ f.below \in Nat
    BY <1>2, TreeSizes DEF TheNodes, Counts, CallType
  <1>4. c[t] >= 1 /\ s[t] + c[t] <= Count /\ t + 2 * c[t] <= 2 * Count
    BY <1>2 DEF Laid, NodeSound
  <1>5. n >= 1 /\ s[t] <= st /\ st + n <= s[t] + c[t] /\ Size + 2 * n <= 2 * Count
    <2>1. CASE GoesLeft(s, c, st, n, b, r)
      <3>1. f.below = 0 /\ st = s[t] /\ n >= 1 /\ n < c[t] /\ t + 1 = Size
        BY <1>1, <1>2, <2>1 DEF GoesLeft
      <3> QED BY <1>3, <1>4, <3>1
    <2>2. CASE GoesRight(s, c, st, n, b, r)
      <3>1. f.below # 0 /\ f.right = 0 /\ b = f.below /\ st = s[t] + b /\ n = c[t] - b
        BY <1>1, <2>2 DEF GoesRight
      <3>2. t + 1 \in TheNodes /\ c[t + 1] = b /\ b < c[t] /\ e[t + 1] = Size
        BY <1>2, <3>1
      <3>3. Size # 0 /\ FinishedSound(s, c, e, p, t + 1)
        BY <1>3, <3>2 DEF Laid, Finished
      <3>4. Size < (t + 1) + 2 * b
        BY <3>2, <3>3 DEF FinishedSound
      <3>5. PICK x, y, z, u : x = s[t] /\ y = c[t] /\ z = Size /\ u = Count
        OBVIOUS
      <3>6. x \in Nat /\ y \in Nat /\ z \in Nat /\ u \in Nat /\ b < y /\ st = x + b /\ n = y - b
            /\ z < (t + 1) + 2 * b /\ t + 2 * y <= 2 * u
        BY <1>3, <1>4, <3>1, <3>2, <3>4, <3>5
      <3>7. n >= 1 /\ x <= st /\ st + n <= x + y /\ z + 2 * n <= 2 * u
        BY ONLY <3>6, <1>3, n \in Nat, b \in Nat, st \in Nat
      <3> QED BY <3>5, <3>7
    <2> QED BY <2>1, <2>2
  <1>6. ASSUME NEW i \in TheNodes
        PROVE  \/ s[i] <= st /\ st + n <= s[i] + c[i]
               \/ st + n <= s[i] \/ s[i] + c[i] <= st
    <2>1. i \in Nat /\ i < Size /\ s[i] \in Nat /\ c[i] \in Nat
      BY <1>3 DEF TheNodes, Counts
    <2>2. CASE i = t
      BY <1>5, <2>2
    <2>3. CASE i < t
      <3>1. t \in i + 1 .. Size - 1
        BY <1>3, <2>1, <2>3
      <3>2. Part(s, c, t, i) \/ Apart(s, c, t, i)
        BY <3>1 DEF Laid, NodeSound
      <3> QED BY SMTT(30), <1>3, <1>5, <2>1, <3>2 DEF Part, Apart
    <2>4. CASE i > t
      <3>1. f.below # 0
        BY <1>2, <1>3, <2>1, <2>4
      <3>2. GoesRight(s, c, st, n, b, r)
        BY <1>1, <3>1 DEF GoesLeft
      <3>3. f.right = 0 /\ b = f.below /\ st = s[t] + b
        BY <1>1, <3>2 DEF GoesRight
      <3>4. t + 1 \in TheNodes /\ s[t + 1] = s[t] /\ c[t + 1] = b /\ e[t + 1] = Size
        BY <1>2, <3>1, <3>3
      <3>5. Size # 0 /\ FinishedSound(s, c, e, p, t + 1)
        BY <1>3, <3>4 DEF Laid, Finished
      <3>6. i \in t + 1 .. Size - 1
        BY <1>3, <2>1, <2>4
      <3>7. Part(s, c, i, t + 1)
        BY <3>4, <3>5, <3>6 DEF FinishedSound
      <3>8. s[i] + c[i] <= s[t] + b
        BY <3>4, <3>7 DEF Part
      <3> QED BY <3>3, <3>8
    <2> QED BY <1>3, <2>1, <2>2, <2>3, <2>4
  <1>7. st + n <= Count
    BY <1>3, <1>4, <1>5
  <1> QED BY <1>1, <1>5, <1>6, <1>7

\* A node and a call are pushed.
LEMMA PushLaid ==
  ASSUME Typed, NEW s, NEW c, NEW e, NEW p, Counts(s, c, e, p), Laid(s, c, e, p), calls # <<>>,
         NEW st \in Nat, NEW n \in Nat, NEW b \in Nat, NEW r \in Nat,
         GoesLeft(s, c, st, n, b, r) \/ GoesRight(s, c, st, n, b, r), NEW t, t = calls[1].node,
         NEW nd, nodes' = Append(nodes, nd), nd.triCount = 0, nd.bound = Tree!TriRange(st, n)',
         Count' = Count,
         \A i \in TheNodes : Tree!TriRange(s[i], c[i])' = Tree!TriRange(s[i], c[i]),
         NEW g, NEW h, NewCalls(st, n, b, r, g, h)
  PROVE  /\ calls' \in Seq(CallType)
         /\ \E s2, c2, e2, p2 : Counts(s2, c2, e2, p2) /\ Laid(s2, c2, e2, p2)'
  <1>1. PICK L : L = Size
    OBVIOUS
  <1>2. PICK s2, c2, e2, p2 :
          /\ s2 = [i \in Nat |-> IF i = L THEN st ELSE s[i]]
          /\ c2 = [i \in Nat |-> IF i = L THEN n ELSE c[i]]
          /\ e2 = [i \in Nat |-> IF i = L THEN 0 ELSE e[i]]
          /\ p2 = [i \in Nat |-> IF i = L THEN t ELSE p[i]]
    OBVIOUS
  <1>3. PICK f : f = calls[1]
    OBVIOUS
  <1>4. /\ t \in TheNodes /\ e[t] = 0 /\ f.node = t
        /\ f.below = 0 => f.right = 0 /\ t + 1 = Size
        /\ Len(calls) \in Nat \ {0} /\ L \in Nat /\ Count \in Nat /\ t \in Nat /\ t < L
    BY <1>1, <1>3, TopCall, TreeSizes, FirstAndLast DEF Typed, TheNodes
  <1>5. Counts(s2, c2, e2, p2)
    BY <1>4, <1>2 DEF Counts
  <1>6. /\ s2[L] = st /\ c2[L] = n /\ e2[L] = 0 /\ p2[L] = t
        /\ \A i \in TheNodes : s2[i] = s[i] /\ c2[i] = c[i] /\ e2[i] = e[i] /\ p2[i] = p[i]
        /\ Extends(s, c, e, p, s2, c2, e2, p2)
    BY <1>1, <1>4, <1>2 DEF TheNodes, Extends
  <1>7. /\ Len(nodes)' = L + 1 /\ nodes'[L + 1] = nd
        /\ \A i \in TheNodes : nodes'[i + 1] = nodes[i + 1]
    <2>1. nodes \in Seq(NodeType)
      BY DEF Typed
    <2>2. /\ Len(nodes)' = L + 1 /\ nodes'[L + 1] = nd
          /\ \A i \in 1 .. L : nodes'[i] = nodes[i]
      BY <2>1, <1>1, AppendProperties, <1>4 DEF Size
    <2> QED BY <2>2, <1>1, <1>4 DEF TheNodes
  <1>8. /\ calls' \in Seq(CallType) /\ Len(calls') = Len(calls) + 1
        /\ calls'[1].node = L /\ calls'[2].node = t
        /\ calls'[2].below = b /\ calls'[2].right = r
        /\ \A k \in 2 .. Len(calls) : calls'[k + 1] = calls[k]
        /\ \A k \in 1 .. Len(calls') : CallSound(s2, c2, e2, p2, k)'
    <2>1. /\ s2[Size] = st /\ c2[Size] = n /\ e2[Size] = 0 /\ p2[Size] = t
          /\ Len(nodes)' = Size + 1 /\ nodes'[Size + 1].triCount = 0
      BY <1>1, <1>6, <1>7
    <2>2. /\ calls' \in Seq(CallType) /\ Len(calls') = Len(calls) + 1
          /\ calls'[1].node = Size /\ calls'[2].node = t
          /\ calls'[2].below = b /\ calls'[2].right = r
          /\ \A k \in 2 .. Len(calls) : calls'[k + 1] = calls[k]
          /\ \A k \in 1 .. Len(calls') : CallSound(s2, c2, e2, p2, k)'
      <3>1. Extends(s, c, e, p, s2, c2, e2, p2) /\ \A i \in TheNodes : e2[i] = e[i] /\ nodes'[i + 1] = nodes[i + 1]
        BY <1>6, <1>7
      <3> QED BY ONLY <2>1, <3>1, PushCalls, Typed, Counts(s, c, e, p), Laid(s, c, e, p), calls # <<>>,
         st \in Nat, n \in Nat, b \in Nat, r \in Nat,
         GoesLeft(s, c, st, n, b, r) \/ GoesRight(s, c, st, n, b, r), t = calls[1].node, NewCalls(st, n, b, r, g, h)
    <2> QED BY <1>1, <2>2
  <1>9. /\ n >= 1 /\ st + n <= Count /\ L + 2 * n <= 2 * Count
        /\ \A i \in TheNodes : \/ s[i] <= st /\ st + n <= s[i] + c[i]
                               \/ st + n <= s[i] \/ s[i] + c[i] <= st
    BY <1>1, PushPlace
  <1>10. \A i \in 0 .. L : i = L \/ i \in TheNodes
    BY <1>1, <1>4 DEF TheNodes
  <1>11. \A i \in TheNodes : i \in Nat /\ i < L
    BY <1>1, <1>4 DEF TheNodes
  <1>12. ASSUME NEW i \in 0 .. L PROVE NodeSound(s2, c2, e2, i)'
    <2>1. CASE i = L
      <3>1. \A j \in i + 1 .. L : Part(s2, c2, j, i) \/ Apart(s2, c2, j, i)
        BY <1>4, <2>1
      <3>2. nodes'[i + 1].bound = Tree!TriRange(st, n)'
        BY <1>7, <2>1
      <3>3. s2[i] = st /\ c2[i] = n
        BY <1>6, <2>1
      <3>4. nodes'[i + 1].bound = Tree!TriRange(s2[i], c2[i])'
        BY <3>2, <3>3
      <3>5. c2[i] >= 1 /\ s2[i] + c2[i] <= Count' /\ i + 2 * c2[i] <= 2 * Count'
        BY <1>9, <2>1, <3>3
      <3> QED BY <1>4, <1>7, <3>1, <3>4, <3>5 DEF NodeSound, Size
    <2>2. CASE i # L
      <3>1. i \in TheNodes /\ NodeSound(s, c, e, i) /\ i \in Nat /\ i < L
        BY <1>10, <1>11, <2>2 DEF Laid
      <3>2. s2[i] = s[i] /\ c2[i] = c[i] /\ nodes'[i + 1] = nodes[i + 1]
        BY <1>6, <1>7, <3>1
      <3>3. nodes'[i + 1].bound = Tree!TriRange(s2[i], c2[i])'
        BY <3>1, <3>2 DEF NodeSound
      <3>4. c2[i] >= 1 /\ s2[i] + c2[i] <= Count' /\ i + 2 * c2[i] <= 2 * Count'
        BY <3>1, <3>2 DEF NodeSound
      <3>5. ASSUME NEW j \in i + 1 .. L PROVE Part(s2, c2, j, i) \/ Apart(s2, c2, j, i)
        <4>1. CASE j = L
          <5>1. s2[j] = st /\ c2[j] = n
            BY <1>6, <4>1
          <5> QED BY <1>9, <3>1, <3>2, <5>1 DEF Part, Apart
        <4>2. CASE j # L
          <5>1. j \in i + 1 .. L - 1 /\ j \in TheNodes
            BY <1>1, <1>4, <3>1, <4>2 DEF TheNodes
          <5>2. Part(s, c, j, i) \/ Apart(s, c, j, i)
            BY <1>1, <3>1, <5>1 DEF NodeSound
          <5> QED BY <1>6, <3>2, <5>1, <5>2 DEF Part, Apart
        <4> QED BY <4>1, <4>2
      <3> QED BY <1>4, <1>7, <3>3, <3>4, <3>5 DEF NodeSound, Size
    <2> QED BY <2>1, <2>2
  <1>13. ASSUME NEW i \in 0 .. L, e2[i] # 0 PROVE FinishedSound(s2, c2, e2, p2, i)'
    <2>1. i \in TheNodes /\ e[i] # 0
      BY <1>6, <1>10, <1>13
    <2>2. FinishedSound(s, c, e, p, i)
      BY <2>1 DEF Laid, Finished
    <2>3. L + 1 \in Nat /\ L + 1 >= Size
      BY <1>1, <1>4
    <2>4. /\ Len(nodes)' \in Nat /\ Len(nodes)' >= Size
          /\ \A j \in TheNodes : e[j] # 0 => nodes'[j + 1] = nodes[j + 1]
      BY <1>6, <1>7, <2>3
    <2> QED BY <1>6, <2>1, <2>2, <2>4, FinishedStays
  <1>14. ASSUME NEW i \in 1 .. L PROVE ParentSound(e2, p2, i)'
    <2>1. CASE i = L
      <3>1. 2 \in 1 .. Len(calls')
        BY <1>4, <1>8
      <3>2. b > 0 /\ i \in {t + 1, r}
        <4>1. CASE GoesLeft(s, c, st, n, b, r)
          <5>1. f.below = 0 /\ n >= 1 /\ b = n
            BY <1>3, <4>1 DEF GoesLeft
          <5> QED BY <1>1, <1>4, <2>1, <5>1
        <4>2. CASE GoesRight(s, c, st, n, b, r)
          BY <1>1, <1>3, <2>1, <4>2 DEF GoesRight
        <4> QED BY <4>1, <4>2
      <3>3. p2[i] = t /\ e2[t] = 0
        BY <1>4, <1>6, <2>1
      <3>4. t < i
        BY <1>4, <2>1
      <3> QED BY <1>8, <3>1, <3>2, <3>3, <3>4 DEF ParentSound, Finished
    <2>2. CASE i # L
      <3>1. i \in 1 .. Size - 1 /\ i \in TheNodes
        BY <1>1, <1>4, <2>2 DEF TheNodes
      <3>2. PICK q : q = p[i]
        OBVIOUS
      <3>3. ParentSound(e, p, i)
        BY <3>1 DEF Laid
      <3>4. q < i /\ q \in Nat
        BY <3>1, <3>2, <3>3, <1>11 DEF ParentSound, Counts
      <3>5. q \in TheNodes
        BY <1>1, <1>4, <3>1, <3>4 DEF TheNodes
      <3>6. p2[i] = q /\ e2[q] = e[q] /\ nodes'[q + 1] = nodes[q + 1]
        BY <1>6, <1>7, <3>1, <3>2, <3>5
      <3>7. CASE e[q] # 0
        <4>1. nodes[q + 1].triCount = 0 /\ i \in {q + 1, nodes[q + 1].link}
          BY <3>2, <3>3, <3>7 DEF ParentSound, Finished
        <4> QED BY <3>4, <3>6, <3>7, <4>1 DEF ParentSound, Finished
      <3>8. CASE e[q] = 0
        <4>1. PICK k \in 1 .. Len(calls) :
                 calls[k].node = q /\ calls[k].below > 0 /\ i \in {q + 1, calls[k].right}
          BY <3>2, <3>3, <3>8 DEF ParentSound, Finished
        <4>2. CASE k = 1
          <5>1. f.below > 0 /\ q = t /\ i \in {t + 1, f.right}
            BY <1>3, <1>4, <4>1, <4>2
          <5>2. b > 0 /\ i = t + 1
            <6>1. ~GoesLeft(s, c, st, n, b, r)
              BY <1>3, <5>1 DEF GoesLeft
            <6>2. f.right = 0 /\ b = f.below
              BY <1>3, <6>1 DEF GoesRight
            <6> QED BY <3>1, <5>1, <6>2
          <5>3. 2 \in 1 .. Len(calls')
            BY <1>4, <1>8
          <5> QED BY <1>8, <3>4, <3>6, <3>8, <5>1, <5>2, <5>3 DEF ParentSound, Finished
        <4>3. CASE k # 1
          <5>1. PICK m : m = k + 1
            OBVIOUS
          <5>2. k \in 2 .. Len(calls) /\ m \in 1 .. Len(calls')
            BY <1>4, <1>8, <4>3, <5>1
          <5>3. calls'[m] = calls[k]
            BY <1>8, <5>1, <5>2
          <5>4. calls'[m].node = q /\ calls'[m].below > 0 /\ i \in {q + 1, calls'[m].right}
            BY <4>1, <5>3
          <5> QED BY <3>4, <3>6, <3>8, <5>2, <5>4 DEF ParentSound, Finished
        <4> QED BY <4>2, <4>3
      <3> QED BY <3>7, <3>8
    <2> QED BY <2>1, <2>2
  <1>15. ASSUME NEW i \in 0 .. L, e2[i] = 0 PROVE \E k \in 1 .. Len(calls') : calls'[k].node = i
    <2>1. CASE i = L
      BY <1>4, <1>8, <2>1
    <2>2. CASE i # L
      <3>1. i \in TheNodes /\ e[i] = 0
        BY <1>6, <1>10, <1>15, <2>2
      <3>2. PICK k \in 1 .. Len(calls) : calls[k].node = i
        BY <3>1 DEF Laid, Finished
      <3>3. CASE k = 1
        <4>1. 2 \in 1 .. Len(calls')
          BY <1>4, <1>8
        <4> QED BY <1>3, <1>4, <1>8, <3>2, <3>3, <4>1
      <3>4. CASE k # 1
        <4>1. k \in 2 .. Len(calls) /\ k + 1 \in 1 .. Len(calls')
          BY <1>4, <1>8, <3>4
        <4> QED BY <1>8, <3>2, <4>1
      <3> QED BY <3>3, <3>4
    <2> QED BY <2>1, <2>2
  <1>16. calls' # <<>> /\ calls'[Len(calls')].node = 0
    <2>1. calls[Len(calls)].node = 0
      BY DEF Laid
    <2>2. CASE Len(calls) = 1
      <3>1. Len(calls') = 2 /\ calls'[2].node = calls[1].node
        BY <1>8, <2>2
      <3>2. calls' # <<>>
        BY <1>8, <3>1, FirstAndLast
      <3> QED BY <2>1, <2>2, <3>1, <3>2
    <2>3. CASE Len(calls) # 1
      <3>1. PICK k : k = Len(calls)
        OBVIOUS
      <3>2. k \in 2 .. Len(calls) /\ Len(calls') = k + 1
        BY <1>4, <1>8, <2>3, <3>1
      <3>3. calls'[k + 1] = calls[k]
        BY <1>8, <3>2
      <3> QED BY <1>8, <2>1, <3>1, <3>2, <3>3, FirstAndLast
    <2> QED BY <1>4, <1>8, <2>2, <2>3, FirstAndLast
  <1>17. s2[0] = 0 /\ c2[0] = Count'
    <2>1. 0 \in TheNodes /\ s[0] = 0 /\ c[0] = Count
      BY <1>1, <1>4 DEF Laid, TheNodes
    <2> QED BY <1>6, <2>1
  <1>18. Laid(s2, c2, e2, p2)'
    <2>1. L + 1 >= 1 /\ (L + 1) - 1 = L
      BY <1>4
    <2>2. TheNodes' = 0 .. L /\ Size' = L + 1
      BY <1>7, <2>1 DEF TheNodes, Size
    <2>3. 1 .. Size' - 1 = 1 .. L
      BY <2>1, <2>2
    <2> QED BY <1>8, <1>12, <1>13, <1>14, <1>15, <1>16, <1>17, <2>1, <2>2, <2>3 DEF Laid, Finished
  <1> QED BY <1>5, <1>8, <1>18

\* What ReturnCalls says of the calls, for the nodes.
LEMMA ReturnNodes ==
  ASSUME Typed, NEW s, NEW c, NEW e, NEW p, Counts(s, c, e, p),
         NEW s2, NEW c2, NEW e2, NEW p2,
         Laid(s, c, e, p), calls # <<>>, Extends(s, c, e, p, s2, c2, e2, p2),
         NEW t, t = calls[1].node,
         Len(nodes)' \in Nat, Len(nodes)' >= Size, calls' = Tail(calls), e2[t] = Len(nodes)',
         \A i \in TheNodes : i # t => e2[i] = e[i] /\ nodes'[i + 1] = nodes[i + 1]
  PROVE  /\ \A i \in 1 .. Size - 1 : p[i] # t => ParentSound(e2, p2, i)'
         /\ \A i \in 1 .. Size - 1 : p[i] = t => calls[1].below > 0 /\ i \in {t + 1, calls[1].right}
         /\ \A i \in TheNodes : e2[i] = 0 => \E k \in 1 .. Len(calls') : calls'[k].node = i
         /\ IF calls' = <<>> THEN e2[0] = Len(nodes)' ELSE calls'[Len(calls')].node = 0
  <1>1. Len(calls) \in Nat \ {0} /\ Size \in Nat
    BY TreeSizes, FirstAndLast DEF Typed
  <1>2. /\ t \in TheNodes /\ Len(calls') = Len(calls) - 1
        /\ \A k \in 1 .. Len(calls) - 1 : calls'[k] = calls[k + 1] /\ calls'[k].node # t
    BY ReturnCalls
  <1>3. t \in Nat /\ e[t] = 0 /\ Size # 0
    <2>1. t \in Nat /\ Size # 0
      BY <1>1, <1>2 DEF TheNodes
    <2>2. 1 \in 1 .. Len(calls)
      BY <1>1
    <2>3. CallSound(s, c, e, p, 1)
      BY <2>2 DEF Laid
    <2> QED BY <2>1, <2>3 DEF CallSound
  <1>4. \A k \in 2 .. Len(calls) :
          \E j \in 1 .. Len(calls') : calls'[j] = calls[k] /\ calls[k].node # t
    <2> TAKE k \in 2 .. Len(calls)
    <2>1. PICK j : j = k - 1
      OBVIOUS
    <2>2. j \in 1 .. Len(calls) - 1 /\ j + 1 = k /\ j \in 1 .. Len(calls')
      BY <1>1, <1>2, <2>1
    <2> QED BY <1>2, <2>2
  <1>5. \A k \in 1 .. Len(calls) : k = 1 \/ k \in 2 .. Len(calls)
    BY <1>1
  <1>6. ASSUME NEW i \in 1 .. Size - 1
        PROVE  /\ p[i] # t => ParentSound(e2, p2, i)'
               /\ p[i] = t => calls[1].below > 0 /\ i \in {t + 1, calls[1].right}
    <2>1. i \in TheNodes /\ i \in Nat /\ i < Size
      BY <1>1 DEF TheNodes
    <2>2. PICK q : q = p[i]
      OBVIOUS
    <2>3. ParentSound(e, p, i)
      BY DEF Laid
    <2>4. q < i /\ q \in Nat
      BY <2>1, <2>2, <2>3 DEF ParentSound, Counts
    <2>5. q \in TheNodes
      BY <1>1, <2>1, <2>4 DEF TheNodes
    <2>6. p2[i] = q
      BY <2>1, <2>2 DEF Extends
    <2>7. CASE e[q] # 0
      <3>1. q # t /\ nodes[q + 1].triCount = 0 /\ i \in {q + 1, nodes[q + 1].link}
        BY <1>3, <2>2, <2>3, <2>7 DEF ParentSound, Finished
      <3>2. e2[q] = e[q] /\ nodes'[q + 1] = nodes[q + 1]
        BY <2>5, <3>1
      <3> QED BY <2>2, <2>4, <2>6, <2>7, <3>1, <3>2 DEF ParentSound, Finished
    <2>8. CASE e[q] = 0
      <3>1. PICK k \in 1 .. Len(calls) :
               calls[k].node = q /\ calls[k].below > 0 /\ i \in {q + 1, calls[k].right}
        BY <2>2, <2>3, <2>8 DEF ParentSound, Finished
      <3>2. CASE k = 1
        BY <2>2, <3>1, <3>2
      <3>3. CASE k # 1
        <4>1. PICK j \in 1 .. Len(calls') : calls'[j] = calls[k] /\ calls[k].node # t
          BY <1>4, <1>5, <3>3
        <4>2. q # t /\ e2[q] = 0
          BY <2>5, <2>8, <3>1, <4>1
        <4>3. calls'[j].node = q /\ calls'[j].below > 0 /\ i \in {q + 1, calls'[j].right}
          BY <3>1, <4>1
        <4>4. ParentSound(e2, p2, i)'
          BY <2>4, <2>6, <4>2, <4>3 DEF ParentSound, Finished
        <4> QED BY <2>2, <4>2, <4>4
      <3> QED BY <3>2, <3>3
    <2> QED BY <2>7, <2>8
  <1>7. ASSUME NEW i \in TheNodes, e2[i] = 0
        PROVE  \E k \in 1 .. Len(calls') : calls'[k].node = i
    <2>1. i # t
      BY <1>1, <1>3, <1>7
    <2>2. e[i] = 0
      BY <1>7, <2>1
    <2>3. PICK k \in 1 .. Len(calls) : calls[k].node = i
      BY <2>2 DEF Laid, Finished
    <2>4. k \in 2 .. Len(calls)
      BY <1>5, <2>1, <2>3
    <2> QED BY <1>4, <2>3, <2>4
  <1>8. IF calls' = <<>> THEN e2[0] = Len(nodes)' ELSE calls'[Len(calls')].node = 0
    <2>1. calls[Len(calls)].node = 0
      BY DEF Laid
    <2>2. calls' \in Seq(CallType)
      BY HeadTailProperties DEF Typed
    <2>3. CASE Len(calls) = 1
      <3>1. Len(calls') = 0
        BY <1>2, <2>3
      <3>2. calls' = <<>>
        BY <2>2, <3>1, FirstAndLast
      <3>3. t = 0
        BY <2>1, <2>3
      <3> QED BY <3>2, <3>3
    <2>4. CASE Len(calls) # 1
      <3>1. PICK k : k = Len(calls')
        OBVIOUS
      <3>2. k \in 1 .. Len(calls) - 1 /\ k + 1 = Len(calls)
        BY <1>1, <1>2, <2>4, <3>1
      <3>3. calls'[k] = calls[k + 1]
        BY <1>2, <3>2
      <3>4. calls' # <<>>
        <4>1. Len(calls') # 0
          BY <3>1, <3>2
        <4>2. calls' = <<>> <=> Len(calls') = 0
          BY <2>2, FirstAndLast
        <4> QED BY <4>1, <4>2
      <3> QED BY <2>1, <3>1, <3>2, <3>3, <3>4
    <2> QED BY <2>3, <2>4
  <1> QED BY <1>6, <1>7, <1>8

\* split returns, with a leaf or with both sides done.
Returns(s, c, link, count) ==
  LET f == calls[1] IN
  \/ f.below = 0 /\ link = s[f.node] /\ count = c[f.node]
  \/ f.right # 0 /\ link = f.right /\ count = 0

\* split returns and leaves a leaf or an inner node that is finished.
LEMMA ReturnLaid ==
  ASSUME Typed, NEW s, NEW c, NEW e, NEW p, Counts(s, c, e, p), Laid(s, c, e, p), calls # <<>>,
         NEW link, NEW count, Returns(s, c, link, count), NEW t, t = calls[1].node,
         nodes' = [nodes EXCEPT ![t + 1].link = link, ![t + 1].triCount = count],
         calls' = Tail(calls), tris' = tris
  PROVE  /\ nodes' \in Seq(NodeType) /\ calls' \in Seq(CallType)
         /\ \E s2, c2, e2, p2 : Counts(s2, c2, e2, p2) /\ Laid(s2, c2, e2, p2)'
  <1>1. PICK L : L = Size
    OBVIOUS
  <1>2. PICK f, b, r : f = calls[1] /\ b = f.below /\ r = f.right
    OBVIOUS
  <1>3. /\ f \in CallType /\ f.node = t
        /\ t \in TheNodes /\ e[t] = 0 /\ nodes[t + 1].triCount = 0
        /\ b = 0 => r = 0 /\ t + 1 = L
        /\ b # 0 =>
              /\ t + 1 \in TheNodes /\ s[t + 1] = s[t] /\ c[t + 1] = b /\ b < c[t] /\ p[t + 1] = t
        /\ r # 0 =>
              /\ r \in TheNodes /\ t + 1 < r /\ e[t + 1] = r /\ p[r] = t
              /\ Divided(s, c, t, t + 1, r) /\ e[r] = L
    BY <1>1, <1>2, TopCall
  <1>4. /\ b \in Nat /\ r \in Nat /\ L \in Nat /\ t \in Nat /\ t < L /\ Count \in Nat
        /\ s[t] \in Nat /\ c[t] \in Nat /\ c[t] >= 1 /\ s[t] + c[t] <= Count
        /\ nodes[t + 1] \in NodeType /\ Count < U16 /\ U16 \in Nat
    <2>1. c[t] >= 1 /\ s[t] + c[t] <= Count
      BY <1>3 DEF Laid, NodeSound
    <2>2. b \in Nat /\ r \in Nat
      BY <1>2, <1>3 DEF CallType
    <2>3. \A i \in TheNodes : i \in Nat /\ i < Size /\ nodes[i + 1] \in NodeType
      BY TreeSizes DEF TheNodes
    <2>4. t \in Nat /\ t < L /\ nodes[t + 1] \in NodeType
      BY <1>1, <1>3, <2>3
    <2>5. s[t] \in Nat /\ c[t] \in Nat
      BY <2>4 DEF Counts
    <2>6. L \in Nat /\ Count \in Nat /\ Count < U16
      BY <1>1, TreeSizes
    <2>7. U16 \in Nat
      BY TreeAssumption
    <2> QED BY ONLY <2>1, <2>2, <2>4, <2>5, <2>6, <2>7
  <1>5. PICK s2, c2, e2, p2 :
           s2 = s /\ c2 = c /\ p2 = p /\ e2 = [i \in Nat |-> IF i = t THEN L ELSE e[i]]
    OBVIOUS
  <1>6. Counts(s2, c2, e2, p2)
    BY <1>4, <1>5 DEF Counts
  <1>7. /\ e2[t] = L
        /\ \A i \in TheNodes : s2[i] = s[i] /\ c2[i] = c[i] /\ p2[i] = p[i] /\ (i # t => e2[i] = e[i])
        /\ Extends(s, c, e, p, s2, c2, e2, p2)
    BY <1>1, <1>3, <1>4, <1>5 DEF TheNodes, Extends
  <1>8. \/ b = 0 /\ link = s[t] /\ count = c[t]
        \/ b # 0 /\ r # 0 /\ link = r /\ count = 0
    <2>1. \/ b = 0 /\ link = s[t] /\ count = c[t]
          \/ r # 0 /\ link = r /\ count = 0
      BY <1>2, <1>3 DEF Returns
    <2> QED BY <1>3, <2>1
  <1>9. /\ nodes' \in Seq(NodeType) /\ Len(nodes)' = L
        /\ \A i \in TheNodes : i # t => nodes'[i + 1] = nodes[i + 1]
        /\ nodes'[t + 1].bound = nodes[t + 1].bound
        /\ nodes'[t + 1].link = link /\ nodes'[t + 1].triCount = count
    <2>1. link \in Nat /\ count \in 0 .. U16 - 1
      BY SMTT(30), <1>4, <1>8
    <2>2. PICK x : x = [nodes[t + 1] EXCEPT !.link = link, !.triCount = count]
      OBVIOUS
    <2>3. x \in NodeType /\ x.bound = nodes[t + 1].bound /\ x.link = link /\ x.triCount = count
      BY <1>4, <2>1, <2>2 DEF NodeType
    <2>4. nodes \in Seq(NodeType) /\ t + 1 \in 1 .. Len(nodes)
      BY <1>1, <1>4 DEF Typed, Size
    <2>5. nodes' = [nodes EXCEPT ![t + 1] = x]
      BY <2>2, <2>4
    <2>6. nodes' \in Seq(NodeType) /\ Len(nodes') = Len(nodes)
          /\ \A i \in 1 .. Len(nodes) : nodes'[i] = IF i = t + 1 THEN x ELSE nodes[i]
      BY ONLY <2>3, <2>4, <2>5, ExceptSeq
    <2>7. \A i \in TheNodes : i # t => i + 1 \in 1 .. Len(nodes) /\ i + 1 # t + 1
      BY SMTT(30), <1>1, <1>4 DEF TheNodes, Size
    <2>8. nodes' \in Seq(NodeType) /\ Len(nodes)' = L
      BY <1>1, <2>6 DEF Size
    <2>9. \A i \in TheNodes : i # t => nodes'[i + 1] = nodes[i + 1]
      BY <2>6, <2>7
    <2>10. nodes'[t + 1] = x
      BY <2>4, <2>6
    <2> QED BY <2>3, <2>8, <2>9, <2>10
  <1>10. TheNodes' = TheNodes /\ Size' = L /\ Count' = Count /\ Size = L
         /\ \A i, n : Tree!TriRange(i, n)' = Tree!TriRange(i, n)
    BY <1>1, <1>9 DEF TheNodes, Size, Count, Tree!TriRange
  <1>11. /\ Len(nodes)' \in Nat /\ Len(nodes)' >= Size /\ e2[t] = Len(nodes)'
         /\ \A i \in TheNodes : i # t => e2[i] = e[i] /\ nodes'[i + 1] = nodes[i + 1]
    <2>1. L \in Nat /\ L >= L
      BY <1>4
    <2>2. Len(nodes)' \in Nat /\ Len(nodes)' >= Size /\ e2[t] = Len(nodes)'
      BY <2>1, <1>1, <1>7, <1>9
    <2>3. \A i \in TheNodes : i # t => e2[i] = e[i] /\ nodes'[i + 1] = nodes[i + 1]
      BY <1>7, <1>9
    <2> QED BY <2>2, <2>3
  <1>12. \A k \in 1 .. Len(calls') : CallSound(s2, c2, e2, p2, k)'
    BY ONLY <1>7, <1>11, ReturnCalls, Typed, Laid(s, c, e, p), calls # <<>>, t = calls[1].node,
       calls' = Tail(calls)
  <1>13. /\ \A i \in 1 .. Size - 1 : p[i] # t => ParentSound(e2, p2, i)'
         /\ \A i \in 1 .. Size - 1 : p[i] = t => calls[1].below > 0 /\ i \in {t + 1, calls[1].right}
         /\ \A i \in TheNodes : e2[i] = 0 => \E k \in 1 .. Len(calls') : calls'[k].node = i
         /\ IF calls' = <<>> THEN e2[0] = Len(nodes)' ELSE calls'[Len(calls')].node = 0
    BY ONLY <1>7, <1>11, ReturnNodes, Typed, Counts(s, c, e, p), Laid(s, c, e, p),
       calls # <<>>, t = calls[1].node, calls' = Tail(calls)
  <1>14. \A i \in TheNodes : NodeSound(s2, c2, e2, i)'
    <2> TAKE i \in TheNodes
    <2>1. NodeSound(s, c, e, i)
      BY DEF Laid
    <2>2. nodes'[i + 1].bound = nodes[i + 1].bound
      BY <1>9
    <2> QED BY <1>5, <1>10, <2>1, <2>2 DEF NodeSound
  <1>15. \A i \in TheNodes : i # t /\ e2[i] # 0 => FinishedSound(s2, c2, e2, p2, i)'
    <2> TAKE i \in TheNodes
    <2> HAVE i # t /\ e2[i] # 0
    <2>1. e[i] # 0 /\ FinishedSound(s, c, e, p, i)
      BY <1>7 DEF Laid, Finished
    <2>2. \A j \in TheNodes : e[j] # 0 => nodes'[j + 1] = nodes[j + 1]
      BY <1>3, <1>9
    <2> QED BY ZenonT(30), <1>7, <1>11, <2>1, <2>2, FinishedStays
  <1>16. FinishedSound(s2, c2, e2, p2, t)'
    <2>1. CASE b = 0
      <3>1. link = s[t] /\ count = c[t] /\ t + 1 = L
        BY <1>3, <1>8, <2>1
      <3>2. LeafSound(s2, c2, e2, t)'
        BY <1>5, <1>7, <1>9, <3>1 DEF LeafSound
      <3>3. \A j \in t .. e2[t] - 1 : j = t
        BY <1>4, <1>7, <3>1
      <3>4. Part(s2, c2, t, t)
        BY <1>4, <1>5 DEF Part
      <3>5. t < L /\ L < t + 2 * c2[t] /\ count > 0 /\ L <= L
        BY SMTT(30), <1>4, <1>5, <3>1
      <3> QED BY <1>7, <1>9, <1>10, <3>2, <3>3, <3>4, <3>5 DEF FinishedSound
    <2>2. CASE b # 0
      <3>1. r # 0 /\ link = r /\ count = 0
        BY <1>8, <2>2
      <3>2. /\ t + 1 \in TheNodes /\ r \in TheNodes /\ t + 1 < r /\ e[t + 1] = r /\ e[r] = L
            /\ Divided(s, c, t, t + 1, r) /\ p[t + 1] = t /\ p[r] = t
        BY <1>3, <2>2, <3>1
      <3>3. L # 0 /\ r # t /\ t + 1 # t /\ r < L
        BY <1>1, <1>4, <3>2 DEF TheNodes
      <3>4. FinishedSound(s, c, e, p, t + 1) /\ FinishedSound(s, c, e, p, r)
        BY <3>1, <3>2, <3>3 DEF Laid, Finished
      <3>5. /\ c[t] = c[t + 1] + c[r] /\ s[t + 1] = s[t] /\ s[r] = s[t] + c[t + 1]
        BY <3>2 DEF Divided
      <3>6. c[t + 1] \in Nat /\ c[r] \in Nat /\ s[r] \in Nat /\ s[t + 1] \in Nat
        <4>1. t + 1 \in Nat
          BY <1>4
        <4> QED BY <1>4, <4>1 DEF Counts
      <3>7. r < (t + 1) + 2 * c[t + 1] /\ L < r + 2 * c[r]
        BY <3>2, <3>4 DEF FinishedSound
      <3>8. L < t + 2 * c[t]
        <4>1. PICK x, y, z : x = c[t] /\ y = c[t + 1] /\ z = c[r]
          OBVIOUS
        <4>0. t \in Nat /\ r \in Nat /\ L \in Nat
          BY <1>4
        <4>2. x = y + z /\ y \in Nat /\ z \in Nat /\ r < (t + 1) + 2 * y /\ L < r + 2 * z
          BY <3>5, <3>6, <3>7, <4>1
        <4>3. L < t + 2 * x
          BY ONLY <4>2, <4>0
        <4> QED BY <4>1, <4>3
      <3>9. InnerSound(s2, c2, e2, p2, t)'
        BY ZenonT(30), <1>5, <1>7, <1>9, <1>10, <3>1, <3>2, <3>3 DEF InnerSound
      <3>10. Part(s, c, t, t) /\ Part(s, c, t + 1, t) /\ Part(s, c, r, t)
        BY SMTT(30), <1>4, <3>5, <3>6 DEF Part
      <3>11. ASSUME NEW j \in t .. L - 1 PROVE Part(s, c, j, t)
        <4>1. j = t \/ j \in t + 1 .. r - 1 \/ j \in r .. L - 1
          BY SMTT(30), <1>4, <3>2
        <4>2. s[j] \in Nat /\ c[j] \in Nat
          BY SMTT(30), <1>4 DEF Counts
        <4>3. CASE j = t
          BY <3>10, <4>3
        <4>4. CASE j \in t + 1 .. r - 1
          <5>1. Part(s, c, j, t + 1)
            BY <3>2, <3>4, <4>4 DEF FinishedSound
          <5> QED BY <1>4, <3>6, <3>10, <4>2, <5>1, PartTransitive
        <4>5. CASE j \in r .. L - 1
          <5>1. Part(s, c, j, r)
            BY <3>2, <3>4, <4>5 DEF FinishedSound
          <5> QED BY <1>4, <3>6, <3>10, <4>2, <5>1, PartTransitive
        <4> QED BY <4>1, <4>3, <4>4, <4>5
      <3> QED BY <1>4, <1>5, <1>7, <1>9, <1>10, <3>1, <3>8, <3>9, <3>11 DEF FinishedSound
    <2> QED BY <2>1, <2>2
  <1>17. ASSUME NEW i \in 1 .. L - 1 PROVE ParentSound(e2, p2, i)'
    <2>1. CASE p[i] # t
      BY <1>10, <1>13, <2>1
    <2>2. CASE p[i] = t
      <3>1. b > 0 /\ i \in {t + 1, r}
        BY <1>2, <1>10, <1>13, <2>2
      <3>2. link = r /\ count = 0
        BY <1>8, <3>1
      <3>3. t < i
        <4>1. ParentSound(e, p, i)
          BY <1>10 DEF Laid
        <4> QED BY <2>2, <4>1 DEF ParentSound
      <3>4. e2[t] # 0 /\ p2[i] = t
        BY <1>4, <1>5, <1>7, <2>2
      <3> QED BY <1>9, <3>1, <3>2, <3>3, <3>4 DEF ParentSound, Finished
    <2> QED BY <2>1, <2>2
  <1>18. Laid(s2, c2, e2, p2)'
    <2>1. L >= 1 /\ s2[0] = 0 /\ c2[0] = Count
      BY <1>4, <1>5 DEF Laid
    <2>2. \A i \in TheNodes : e2[i] # 0 => FinishedSound(s2, c2, e2, p2, i)'
      BY <1>15, <1>16
    <2>3. IF calls' = <<>> THEN e2[0] = Size' ELSE calls'[Len(calls')].node = 0
      BY <1>9, <1>10, <1>13
    <2> QED BY <1>10, <1>12, <1>13, <1>14, <1>17, <2>1, <2>2, <2>3 DEF Laid, Finished
  <1>19. calls' \in Seq(CallType)
    BY HeadTailProperties DEF Typed
  <1> QED BY <1>6, <1>9, <1>18, <1>19

\* The nodes ns with x and y pushed and node t made their parent.
PairOf(ns, t, x, y, link, q) ==
  q = [(ns \o <<x, y>>) EXCEPT ![t + 1].link = link, ![t + 1].triCount = 0]

\* The nodes after two leaves were pushed and the link of their parent was set.
LEMMA PairNodes ==
  ASSUME NEW ns \in Seq(NodeType), NEW x \in NodeType, NEW y \in NodeType,
         NEW t, t + 1 = Len(ns), t \in Nat, NEW link \in Nat, U16 \in Nat \ {0},
         NEW q, PairOf(ns, t, x, y, link, q)
  PROVE  /\ q \in Seq(NodeType) /\ Len(q) = Len(ns) + 2
         /\ \A i \in 0 .. Len(ns) - 1 : i # t => q[i + 1] = ns[i + 1]
         /\ q[t + 1].bound = ns[t + 1].bound /\ q[t + 1].link = link /\ q[t + 1].triCount = 0
         /\ q[Len(ns) + 1] = x /\ q[Len(ns) + 2] = y
  <1>1. PICK n : n = Len(ns)
    OBVIOUS
  <1>2. n \in Nat /\ t + 1 \in 1 .. n
    BY <1>1, LenProperties
  <1>3. PICK m : m = ns \o <<x, y>>
    OBVIOUS
  <1>4. /\ m \in Seq(NodeType) /\ Len(m) = n + 2
        /\ \A i \in 1 .. n : m[i] = ns[i]
        /\ m[n + 1] = x /\ m[n + 2] = y
    <2>1. <<x, y>> \in Seq(NodeType) /\ Len(<<x, y>>) = 2 /\ <<x, y>>[1] = x /\ <<x, y>>[2] = y
      OBVIOUS
    <2>2. PICK l : l = <<x, y>>
      OBVIOUS
    <2>3. /\ m \in Seq(NodeType) /\ Len(m) = n + Len(l)
          /\ \A i \in 1 .. n + Len(l) : m[i] = IF i <= n THEN ns[i] ELSE l[i - n]
      BY <1>1, <1>3, <2>1, <2>2, ConcatProperties
    <2>4. n + 1 \in 1 .. n + 2 /\ n + 2 \in 1 .. n + 2 /\ (n + 1) - n = 1 /\ (n + 2) - n = 2
          /\ ~(n + 1 <= n) /\ ~(n + 2 <= n) /\ \A i \in 1 .. n : i \in 1 .. n + 2 /\ i <= n
      BY <1>2
    <2>5. Len(l) = 2 /\ l[1] = x /\ l[2] = y
      BY <2>1, <2>2
    <2> QED BY <2>3, <2>4, <2>5
  <1>5. PICK z : z = [ns[t + 1] EXCEPT !.link = link, !.triCount = 0]
    OBVIOUS
  <1>6. z \in NodeType /\ z.bound = ns[t + 1].bound /\ z.link = link /\ z.triCount = 0
    <2>1. ns[t + 1] \in NodeType
      BY <1>1, <1>2, ElementOfSeq
    <2>2. 0 \in 0 .. U16 - 1
      OBVIOUS
    <2> QED BY <1>5, <2>1, <2>2 DEF NodeType
  <1>7. t + 1 \in 1 .. Len(m) /\ m[t + 1] = ns[t + 1]
    BY <1>2, <1>4
  <1>8. q = [m EXCEPT ![t + 1] = z]
    BY <1>3, <1>4, <1>5, <1>7 DEF PairOf
  <1>9. q \in Seq(NodeType) /\ Len(q) = Len(m)
        /\ \A i \in 1 .. Len(m) : q[i] = IF i = t + 1 THEN z ELSE m[i]
    BY ONLY <1>4, <1>6, <1>7, <1>8, ExceptSeq
  <1>10. q[t + 1] = z
    BY <1>7, <1>9
  <1>11. \A i \in 0 .. n - 1 : i # t => q[i + 1] = ns[i + 1]
    <2> TAKE i \in 0 .. n - 1
    <2> HAVE i # t
    <2>1. i + 1 \in 1 .. n /\ i + 1 \in 1 .. n + 2 /\ i + 1 # t + 1
      BY <1>2
    <2> QED BY <1>4, <1>9, <2>1
  <1>12. q[n + 1] = x /\ q[n + 2] = y
    <2>1. n + 1 \in 1 .. n + 2 /\ n + 2 \in 1 .. n + 2 /\ n + 1 # t + 1 /\ n + 2 # t + 1
      BY <1>1, <1>2
    <2> QED BY <1>4, <1>9, <2>1
  <1> QED BY <1>1, <1>4, <1>6, <1>9, <1>10, <1>11, <1>12

\* split of two triangles returns and leaves an inner node with two leaves.
LEMMA PairLaid ==
  ASSUME Typed, NEW s, NEW c, NEW e, NEW p, Counts(s, c, e, p), Laid(s, c, e, p), calls # <<>>,
         calls[1].below = 0, calls[1].count = 2, NEW t, t = calls[1].node,
         NEW x \in NodeType, NEW y \in NodeType,
         x = Tree!LeafNode(s[t]), y = Tree!LeafNode(s[t] + 1),
         PairOf(nodes, t, x, y, Len(nodes) + 1, nodes'),
         calls' = Tail(calls), tris' = tris
  PROVE  /\ nodes' \in Seq(NodeType) /\ calls' \in Seq(CallType)
         /\ \E s2, c2, e2, p2 : Counts(s2, c2, e2, p2) /\ Laid(s2, c2, e2, p2)'
  <1>1. PICK L, a : L = Size /\ a = s[t]
    OBVIOUS
  <1>2. /\ t \in TheNodes /\ e[t] = 0 /\ t + 1 = L /\ c[t] = 2 /\ calls[1].right = 0
    BY <1>1, TopCall
  <1>3. /\ L \in Nat /\ t \in Nat /\ t < L /\ Count \in Nat /\ a \in Nat /\ a + 2 <= Count
        /\ t + 4 <= 2 * Count /\ U16 \in Nat \ {0} /\ L + 1 \in Nat /\ L + 2 \in Nat
    <2>1. c[t] >= 1 /\ s[t] + c[t] <= Count /\ t + 2 * c[t] <= 2 * Count
      BY <1>2 DEF Laid, NodeSound
    <2>2. a + 2 <= Count /\ t + 4 <= 2 * Count
      BY <1>1, <1>2, <2>1
    <2>3. L \in Nat /\ Count \in Nat /\ Count < U16 /\ U16 \in Nat /\ a \in Nat /\ t \in Nat
      BY <1>1, <1>2, TreeSizes, TreeAssumption DEF TheNodes, Counts
    <2> QED BY SMTT(30), <1>2, <2>2, <2>3
  <1>4. PICK s2, c2, e2, p2 :
          /\ s2 = [i \in Nat |-> IF i = L THEN a ELSE IF i = L + 1 THEN a + 1 ELSE s[i]]
          /\ c2 = [i \in Nat |-> IF i = L \/ i = L + 1 THEN 1 ELSE c[i]]
          /\ e2 = [i \in Nat |-> IF i = L THEN L + 1
                                 ELSE IF i = L + 1 \/ i = t THEN L + 2 ELSE e[i]]
          /\ p2 = [i \in Nat |-> IF i = L \/ i = L + 1 THEN t ELSE p[i]]
    OBVIOUS
  <1>5. Counts(s2, c2, e2, p2)
    BY <1>3, <1>4 DEF Counts
  <1>6. \A i \in TheNodes : i \in Nat /\ i < L /\ i # L /\ i # L + 1
    BY <1>1, <1>3 DEF TheNodes
  <1>7. /\ s2[L] = a /\ s2[L + 1] = a + 1 /\ c2[L] = 1 /\ c2[L + 1] = 1
        /\ e2[L] = L + 1 /\ e2[L + 1] = L + 2 /\ e2[t] = L + 2 /\ p2[L] = t /\ p2[L + 1] = t
        /\ s2[t] = a /\ c2[t] = 2
        /\ \A i \in TheNodes : s2[i] = s[i] /\ c2[i] = c[i] /\ p2[i] = p[i] /\ (i # t => e2[i] = e[i])
    <2>1. L # L + 1 /\ L # t /\ L + 1 # t
      BY <1>2, <1>3
    <2> QED BY <1>1, <1>2, <1>3, <1>4, <1>6, <2>1
  <1>8. Extends(s, c, e, p, s2, c2, e2, p2)
    BY <1>2, <1>7 DEF Extends
  <1>9. /\ nodes' \in Seq(NodeType) /\ Len(nodes)' = L + 2
        /\ \A i \in TheNodes : i # t => nodes'[i + 1] = nodes[i + 1]
        /\ nodes'[t + 1].bound = nodes[t + 1].bound
        /\ nodes'[t + 1].link = L + 1 /\ nodes'[t + 1].triCount = 0
        /\ nodes'[L + 1] = x /\ nodes'[L + 2] = y
    <2>1. nodes \in Seq(NodeType) /\ t + 1 = Len(nodes) /\ Len(nodes) + 1 \in Nat
      BY <1>1, <1>2, <1>3 DEF Typed, Size
    <2>2. t \in Nat /\ U16 \in Nat \ {0}
      BY <1>3
    <2>3. PICK q : q = nodes'
      OBVIOUS
    <2>4. PairOf(nodes, t, x, y, Len(nodes) + 1, q)
      BY <2>3
    <2>5. /\ q \in Seq(NodeType) /\ Len(q) = Len(nodes) + 2
          /\ \A i \in 0 .. Len(nodes) - 1 : i # t => q[i + 1] = nodes[i + 1]
          /\ q[t + 1].bound = nodes[t + 1].bound
          /\ q[t + 1].link = Len(nodes) + 1 /\ q[t + 1].triCount = 0
          /\ q[Len(nodes) + 1] = x /\ q[Len(nodes) + 2] = y
      BY SMTT(30), <2>1, <2>2, <2>4, PairNodes
    <2>6. Len(nodes)' = Len(q) /\ Len(nodes) = L /\ TheNodes = 0 .. Len(nodes) - 1
      BY <1>1, <2>3 DEF TheNodes, Size
    <2> QED BY <2>3, <2>5, <2>6
  <1>10. TheNodes' = 0 .. L + 1 /\ Size' = L + 2 /\ Count' = Count /\ Size = L
         /\ \A i, n : Tree!TriRange(i, n)' = Tree!TriRange(i, n)
    BY <1>1, <1>3, <1>9 DEF TheNodes, Size, Count, Tree!TriRange
  <1>11. /\ Len(nodes)' \in Nat /\ Len(nodes)' >= Size /\ e2[t] = Len(nodes)'
         /\ \A i \in TheNodes : i # t => e2[i] = e[i] /\ nodes'[i + 1] = nodes[i + 1]
    <2>1. L + 2 \in Nat /\ L + 2 >= L
      BY <1>3
    <2>2. Len(nodes)' \in Nat /\ Len(nodes)' >= Size /\ e2[t] = Len(nodes)'
      BY <2>1, <1>1, <1>7, <1>9
    <2>3. \A i \in TheNodes : i # t => e2[i] = e[i] /\ nodes'[i + 1] = nodes[i + 1]
      BY <1>7, <1>9
    <2> QED BY <2>2, <2>3
  <1>12. \A k \in 1 .. Len(calls') : CallSound(s2, c2, e2, p2, k)'
    BY ONLY <1>8, <1>11, ReturnCalls, Typed, Laid(s, c, e, p), calls # <<>>, t = calls[1].node,
       calls' = Tail(calls)
  <1>13. /\ \A i \in 1 .. Size - 1 : p[i] # t => ParentSound(e2, p2, i)'
         /\ \A i \in TheNodes : e2[i] = 0 => \E k \in 1 .. Len(calls') : calls'[k].node = i
         /\ IF calls' = <<>> THEN e2[0] = Len(nodes)' ELSE calls'[Len(calls')].node = 0
    BY ONLY <1>8, <1>11, ReturnNodes, Typed, Counts(s, c, e, p), Laid(s, c, e, p),
       calls # <<>>, t = calls[1].node, calls' = Tail(calls)
  <1>14. \A i \in 0 .. L + 1 : i \in TheNodes \/ i = L \/ i = L + 1
    <2>1. TheNodes = 0 .. L - 1
      BY <1>1 DEF TheNodes
    <2> QED BY <1>3, <2>1
  <1>15. x = [bound |-> Tree!TriRange(a, 1), link |-> a, triCount |-> 1]
         /\ y = [bound |-> Tree!TriRange(a + 1, 1), link |-> a + 1, triCount |-> 1]
    <2>1. a + 1 .. a + 1 = {a + 1} /\ (a + 1) + 1 .. (a + 1) + 1 = {(a + 1) + 1}
      BY <1>3
    <2>2. Tree!TriRange(a, 1) = {tris[a + 1]} /\ Tree!TriRange(a + 1, 1) = {tris[(a + 1) + 1]}
      BY <2>1 DEF Tree!TriRange
    <2> QED BY <1>1, <2>2 DEF Tree!LeafNode
  <1>16. /\ Part(s2, c2, L, t) /\ Part(s2, c2, L + 1, t) /\ Part(s2, c2, t, t)
         /\ Part(s2, c2, L, L) /\ Part(s2, c2, L + 1, L + 1) /\ Apart(s2, c2, L + 1, L)
    BY <1>3, <1>7 DEF Part, Apart
  <1>17. ASSUME NEW i \in TheNodes, NEW j \in {L, L + 1}
         PROVE  Part(s2, c2, j, i) \/ Apart(s2, c2, j, i)
    <2>1. Part(s2, c2, j, t)
      BY <1>16
    <2>2. i = t \/ Part(s, c, t, i) \/ Apart(s, c, t, i)
      <3>1. i = t \/ t \in i + 1 .. Size - 1
        <4>1. i \in Nat /\ i < L /\ t + 1 = L /\ Size = L
          BY <1>2, <1>6, <1>10
        <4>2. i = t \/ t \in i + 1 .. L - 1
          BY SMTT(30), <1>3, <4>1
        <4> QED BY <4>1, <4>2
      <3> QED BY <3>1 DEF Laid, NodeSound
    <2>3. i = t \/ Part(s2, c2, t, i) \/ Apart(s2, c2, t, i)
      BY <1>2, <1>7, <2>2 DEF Part, Apart
    <2>4. i \in Nat /\ j \in Nat /\ t \in Nat
      BY <1>3, <1>6
    <2>5. s2[i] \in Nat /\ c2[i] \in Nat /\ s2[j] \in Nat /\ c2[j] \in Nat /\ s2[t] \in Nat /\ c2[t] \in Nat
      BY <1>5, <2>4 DEF Counts
    <2> QED BY <2>1, <2>3, <2>5, PartTransitive
  <1>18. ASSUME NEW i \in 0 .. L + 1 PROVE NodeSound(s2, c2, e2, i)'
    <2>1. CASE i = L
      <3>1. \A j \in i + 1 .. L + 1 : j = L + 1
        BY <1>3, <2>1
      <3>2. nodes'[i + 1].bound = Tree!TriRange(a, 1)'
        BY <1>9, <1>10, <1>15, <2>1
      <3>3. c2[i] >= 1 /\ s2[i] + c2[i] <= Count' /\ i + 2 * c2[i] <= 2 * Count'
        <4>1. 1 >= 1 /\ a + 1 <= Count /\ L + 2 * 1 <= 2 * Count
          BY SMTT(30), <1>2, <1>3
        <4> QED BY <1>7, <1>10, <2>1, <4>1
      <3>4. (L + 2) - 1 = L + 1
        BY <1>3
      <3> QED BY <1>7, <1>10, <1>16, <2>1, <3>1, <3>2, <3>3, <3>4 DEF NodeSound
    <2>2. CASE i = L + 1
      <3>1. \A j \in i + 1 .. L + 1 : FALSE
        BY <1>3, <2>2
      <3>2. nodes'[i + 1].bound = Tree!TriRange(a + 1, 1)'
        <4>1. (L + 1) + 1 = L + 2
          BY <1>3
        <4> QED BY <1>9, <1>10, <1>15, <2>2, <4>1
      <3>3. c2[i] >= 1 /\ s2[i] + c2[i] <= Count' /\ i + 2 * c2[i] <= 2 * Count'
        <4>1. 1 >= 1 /\ (a + 1) + 1 <= Count /\ (L + 1) + 2 * 1 <= 2 * Count
          <5>1. PICK m : m = Count
            OBVIOUS
          <5>2. m \in Nat /\ a \in Nat /\ t \in Nat /\ L = t + 1 /\ a + 2 <= m /\ t + 4 <= 2 * m
            BY <1>2, <1>3, <5>1
          <5>3. 1 >= 1 /\ (a + 1) + 1 <= m /\ (L + 1) + 2 * 1 <= 2 * m
            BY ONLY <5>2
          <5> QED BY <5>1, <5>3
        <4> QED BY <1>7, <1>10, <2>2, <4>1
      <3>4. (L + 2) - 1 = L + 1
        BY <1>3
      <3> QED BY <1>7, <1>10, <2>2, <3>1, <3>2, <3>3, <3>4 DEF NodeSound
    <2>3. CASE i # L /\ i # L + 1
      <3>1. i \in TheNodes /\ NodeSound(s, c, e, i)
        BY <1>14, <2>3 DEF Laid
      <3>2. nodes'[i + 1].bound = nodes[i + 1].bound
        BY <1>9, <3>1
      <3>3. s2[i] = s[i] /\ c2[i] = c[i]
        BY <1>7, <3>1
      <3>4. ASSUME NEW j \in i + 1 .. L + 1 PROVE Part(s2, c2, j, i) \/ Apart(s2, c2, j, i)
        <4>1. CASE j \in {L, L + 1}
          BY <1>17, <3>1, <4>1
        <4>2. CASE j \notin {L, L + 1}
          <5>1. j \in i + 1 .. Size - 1 /\ j \in TheNodes
            BY <1>3, <1>6, <1>10, <3>1, <4>2 DEF TheNodes
          <5>2. Part(s, c, j, i) \/ Apart(s, c, j, i)
            BY <3>1, <5>1 DEF NodeSound
          <5> QED BY <1>7, <3>3, <5>1, <5>2 DEF Part, Apart
        <4> QED BY <4>1, <4>2
      <3>5. (L + 2) - 1 = L + 1
        BY <1>3
      <3>6. nodes'[i + 1].bound = Tree!TriRange(s2[i], c2[i])'
        BY <1>10, <3>1, <3>2, <3>3 DEF NodeSound
      <3>7. c2[i] >= 1 /\ s2[i] + c2[i] <= Count' /\ i + 2 * c2[i] <= 2 * Count'
        BY <1>10, <3>1, <3>3 DEF NodeSound
      <3> QED BY <1>10, <3>4, <3>5, <3>6, <3>7 DEF NodeSound
    <2> QED BY <2>1, <2>2, <2>3
  <1>19. ASSUME NEW i \in 0 .. L + 1, e2[i] # 0 PROVE FinishedSound(s2, c2, e2, p2, i)'
    <2>1. CASE i = L
      <3>1. nodes'[i + 1].triCount = 1 /\ nodes'[i + 1].link = a
        BY <1>9, <1>15, <2>1
      <3>2. LeafSound(s2, c2, e2, i)'
        BY <1>7, <2>1, <3>1 DEF LeafSound
      <3>3. \A j \in i .. e2[i] - 1 : j = L
        BY <1>3, <1>7, <2>1
      <3>4. 1 > 0 /\ i < e2[i] /\ e2[i] <= L + 2 /\ e2[i] < i + 2 * c2[i]
        BY <1>3, <1>7, <2>1
      <3> QED BY <1>10, <1>16, <2>1, <3>1, <3>2, <3>3, <3>4 DEF FinishedSound
    <2>2. CASE i = L + 1
      <3>1. nodes'[i + 1].triCount = 1 /\ nodes'[i + 1].link = a + 1
        <4>1. (L + 1) + 1 = L + 2
          BY <1>3
        <4> QED BY <1>9, <1>15, <2>2, <4>1
      <3>2. LeafSound(s2, c2, e2, i)'
        <4>1. (L + 1) + 1 = L + 2
          BY <1>3
        <4> QED BY <1>7, <2>2, <3>1, <4>1 DEF LeafSound
      <3>3. \A j \in i .. e2[i] - 1 : j = L + 1
        BY <1>3, <1>7, <2>2
      <3>4. 1 > 0 /\ i < e2[i] /\ e2[i] <= L + 2 /\ e2[i] < i + 2 * c2[i]
        BY <1>3, <1>7, <2>2
      <3> QED BY <1>10, <1>16, <2>2, <3>1, <3>2, <3>3, <3>4 DEF FinishedSound
    <2>3. CASE i = t
      <3>1. InnerSound(s2, c2, e2, p2, i)'
        <4>1. Divided(s2, c2, t, L, L + 1)
          BY <1>3, <1>7 DEF Divided
        <4>2. t + 1 < L + 1 /\ L + 1 < L + 2
          BY SMTT(30), <1>2, <1>3
        <4> QED BY <1>2, <1>7, <1>9, <1>10, <2>3, <4>1, <4>2 DEF InnerSound
      <3>2. \A j \in i .. e2[i] - 1 : j = t \/ j = L \/ j = L + 1
        BY SMTT(30), <1>2, <1>3, <1>7, <2>3
      <3>3. ~(0 > 0) /\ i < e2[i] /\ e2[i] <= L + 2 /\ e2[i] < i + 2 * c2[i]
        <4>1. t < L + 2 /\ L + 2 <= L + 2 /\ L + 2 < t + 2 * 2
          BY <1>2, <1>3
        <4> QED BY <1>7, <2>3, <4>1
      <3> QED BY <1>9, <1>10, <1>16, <2>3, <3>1, <3>2, <3>3 DEF FinishedSound
    <2>4. CASE i # L /\ i # L + 1 /\ i # t
      <3>1. i \in TheNodes /\ e[i] # 0 /\ FinishedSound(s, c, e, p, i)
        BY <1>7, <1>14, <1>19, <2>4 DEF Laid, Finished
      <3>2. \A j \in TheNodes : e[j] # 0 => nodes'[j + 1] = nodes[j + 1]
        BY <1>2, <1>9
      <3> QED BY <1>8, <1>11, <3>1, <3>2, FinishedStays
    <2> QED BY <2>1, <2>2, <2>3, <2>4
  <1>20. ASSUME NEW i \in 1 .. L + 1 PROVE ParentSound(e2, p2, i)'
    <2>1. CASE i = L \/ i = L + 1
      <3>1. t < i /\ i \in {t + 1, L + 1} /\ L + 2 # 0
        BY <1>2, <1>3, <2>1
      <3>2. p2[i] = t
        BY <1>7, <2>1
      <3> QED BY <1>7, <1>9, <3>1, <3>2 DEF ParentSound, Finished
    <2>2. CASE i # L /\ i # L + 1
      <3>1. i \in 1 .. Size - 1 /\ i <= t
        BY <1>2, <1>3, <1>10, <2>2
      <3>2. ParentSound(e, p, i)
        BY <3>1 DEF Laid
      <3>3. p[i] # t
        BY <1>3, <3>1, <3>2 DEF ParentSound
      <3> QED BY <1>13, <3>1, <3>3
    <2> QED BY <2>1, <2>2
  <1>21. ASSUME NEW i \in 0 .. L + 1, e2[i] = 0 PROVE \E k \in 1 .. Len(calls') : calls'[k].node = i
    <2>1. i # L /\ i # L + 1
      BY <1>3, <1>7, <1>21
    <2> QED BY <1>13, <1>14, <1>21, <2>1
  <1>22. Laid(s2, c2, e2, p2)'
    <2>1. s2[0] = 0 /\ c2[0] = Count
      <3>1. 0 \in TheNodes /\ s[0] = 0 /\ c[0] = Count
        BY <1>1, <1>3 DEF Laid, TheNodes
      <3> QED BY <1>7, <3>1
    <2>2. L + 2 >= 1 /\ (L + 2) - 1 = L + 1
      BY <1>3
    <2>3. IF calls' = <<>> THEN e2[0] = Size' ELSE calls'[Len(calls')].node = 0
      BY <1>9, <1>10, <1>13
    <2> QED BY <1>10, <1>12, <1>18, <1>19, <1>20, <1>21, <2>1, <2>2, <2>3 DEF Laid, Finished
  <1>23. calls' \in Seq(CallType)
    BY HeadTailProperties DEF Typed
  <1> QED BY <1>5, <1>9, <1>22, <1>23

\* A count that u16 can hold is not truncated.
LEMMA SmallCount ==
  ASSUME NEW n \in Nat, n < U16
  PROVE  n % U16 = n
  <1>1. U16 \in Nat
    BY TreeAssumption
  <1> QED BY <1>1

\* As many different elements as the set has are all of it.
LEMMA InjectiveOnto ==
  ASSUME NEW n \in Nat, NEW S, IsFiniteSet(S), Cardinality(S) = n, NEW f \in [1 .. n -> S],
         \A i, j \in 1 .. n : f[i] = f[j] => i = j
  PROVE  \A x \in S : \E i \in 1 .. n : f[i] = x
  <1>1. f \in Injection(1 .. n, S)
    BY DEF Injection, IsInjective
  <1>2. Cardinality(1 .. n) = n
    <2>1. 1 \in Int /\ n \in Int
      OBVIOUS
    <2>2. Cardinality(1 .. n) = IF 1 > n THEN 0 ELSE n - 1 + 1
      BY <2>1, FS_Interval
    <2> QED BY <2>2
  <1>3. f \in Surjection(1 .. n, S)
    BY <1>1, <1>2, FS_Injection
  <1> QED BY <1>3 DEF Surjection

\* A range of tris is a set of as many triangles, which any part of it divides.
LEMMA RangeSize ==
  ASSUME Ordered, NEW a \in Nat, NEW n \in Nat, a + n <= Count
  PROVE  LET mine == Tree!TriRange(a, n) IN
         /\ mine \subseteq 1 .. Count /\ IsFiniteSet(mine) /\ Cardinality(mine) = n
         /\ \A P \in SUBSET mine : /\ IsFiniteSet(P) /\ IsFiniteSet(mine \ P)
                                   /\ Cardinality(P) \in Nat /\ Cardinality(mine \ P) \in Nat
                                   /\ Cardinality(P) + Cardinality(mine \ P) = n
                                   /\ (P # {} => Cardinality(P) >= 1)
                                   /\ (P # mine => Cardinality(P) < n)
  <1>1. PICK m : m = Count
    OBVIOUS
  <1>2. m \in Nat /\ a + n <= m
    BY <1>1 DEF Ordered
  <1>3. \A i \in a + 1 .. a + n : i \in 1 .. m
    BY <1>2
  <1>4. PICK mine : mine = Tree!TriRange(a, n)
    OBVIOUS
  <1>5. mine = {tris[i] : i \in a + 1 .. a + n}
    BY <1>4 DEF Tree!TriRange
  <1>6. mine \subseteq 1 .. Count
    <2>1. \A i \in 1 .. m : tris[i] \in 1 .. m
      BY <1>1 DEF Ordered
    <2> QED BY <1>1, <1>3, <1>5, <2>1
  <1>7. PICK f : f = [i \in a + 1 .. a + n |-> tris[i]]
    OBVIOUS
  <1>8. f \in Bijection(a + 1 .. a + n, mine)
    <2>1. f \in [a + 1 .. a + n -> mine]
      BY <1>5, <1>7
    <2>2. \A i, j \in a + 1 .. a + n : f[i] = f[j] => i = j
      BY <1>1, <1>3, <1>7 DEF Ordered
    <2>3. \A x \in mine : \E i \in a + 1 .. a + n : f[i] = x
      BY <1>5, <1>7
    <2> QED BY <2>1, <2>2, <2>3 DEF Bijection, Injection, Surjection, IsInjective
  <1>9. IsFiniteSet(a + 1 .. a + n) /\ Cardinality(a + 1 .. a + n) = n
    <2>1. a + 1 \in Int /\ a + n \in Int
      OBVIOUS
    <2>2. /\ IsFiniteSet(a + 1 .. a + n)
          /\ Cardinality(a + 1 .. a + n) = IF a + 1 > a + n THEN 0 ELSE (a + n) - (a + 1) + 1
      BY <2>1, FS_Interval
    <2> QED BY <2>2
  <1>10. IsFiniteSet(mine) /\ Cardinality(mine) = n
    <2>1. ExistsBijection(a + 1 .. a + n, mine)
      BY <1>8 DEF ExistsBijection
    <2> QED BY <1>9, <2>1, FS_Bijection
  <1>11. ASSUME NEW P \in SUBSET mine
         PROVE  /\ IsFiniteSet(P) /\ IsFiniteSet(mine \ P)
                /\ Cardinality(P) \in Nat /\ Cardinality(mine \ P) \in Nat
                /\ Cardinality(P) + Cardinality(mine \ P) = n
                /\ (P # {} => Cardinality(P) >= 1)
                /\ (P # mine => Cardinality(P) < n)
    <2>1. PICK Q : Q = mine \ P
      OBVIOUS
    <2>2. Q \in SUBSET mine /\ P \cup Q = mine /\ P \cap Q = {}
      BY <2>1
    <2>3. IsFiniteSet(P) /\ IsFiniteSet(Q)
      BY <1>10, <2>2, FS_Subset
    <2>4. Cardinality(P) \in Nat /\ Cardinality(Q) \in Nat
      BY <2>3, FS_CardinalityType
    <2>5. Cardinality(P \cup Q) = Cardinality(P) + Cardinality(Q) - Cardinality(P \cap Q)
      BY <2>3, FS_Union
    <2>6. Cardinality(P \cap Q) = 0
      BY <2>2, FS_EmptySet
    <2>7. Cardinality(P) + Cardinality(Q) = n
      <3>1. PICK x, y, z : x = Cardinality(P) /\ y = Cardinality(Q) /\ z = Cardinality(P \cap Q)
        OBVIOUS
      <3>2. n = x + y - z /\ z = 0 /\ x \in Nat /\ y \in Nat
        BY <1>10, <2>2, <2>4, <2>5, <2>6, <3>1
      <3>3. x + y = n
        BY ONLY <3>2
      <3> QED BY <3>1, <3>3
    <2>8. P # {} => Cardinality(P) >= 1
      BY <2>3, <2>4, FS_EmptySet
    <2>9. P # mine => Cardinality(Q) # 0
      BY <2>1, <2>3, FS_EmptySet
    <2> QED BY <2>1, <2>3, <2>4, <2>7, <2>8, <2>9
  <1> QED BY <1>4, <1>6, <1>10, <1>11

\* The orders of a set are its enumerations.
LEMMA OrderedAs ==
  ASSUME NEW S, S \subseteq Nat, IsFiniteSet(S), NEW f, f \in Tree!Orders(S)
  PROVE  /\ f \in Seq(Nat) /\ Len(f) = Cardinality(S) /\ Cardinality(S) \in Nat
         /\ \A i \in 1 .. Cardinality(S) : f[i] \in S
         /\ \A i, j \in 1 .. Cardinality(S) : f[i] = f[j] => i = j
         /\ \A x \in S : \E i \in 1 .. Cardinality(S) : f[i] = x
  <1>1. PICK n : n = Cardinality(S)
    OBVIOUS
  <1>2. n \in Nat
    BY <1>1, FS_CardinalityType
  <1>3. Tree!Cardinality(S) = n
    BY <1>1 DEF Cardinality, Tree!Cardinality
  <1>4. f \in [1 .. n -> S] /\ \A i, j \in 1 .. n : f[i] = f[j] => i = j
    BY <1>3 DEF Tree!Orders, Tree!IsInjective
  <1>5. \A x \in S : \E i \in 1 .. n : f[i] = x
    BY <1>1, <1>2, <1>4, InjectiveOnto
  <1>6. f \in Seq(Nat) /\ Len(f) = n
    <2>1. f \in [1 .. n -> Nat]
      <3>2. \A i \in 1 .. n : f[i] \in Nat
        BY <1>4
      <3>3. f = [i \in 1 .. n |-> f[i]]
        BY <1>4
      <3>4. [i \in 1 .. n |-> f[i]] \in [1 .. n -> Nat]
        BY <3>2
      <3> QED BY <3>3, <3>4, Zenon
    <2> QED BY <1>2, <2>1
  <1> QED BY <1>1, <1>2, <1>4, <1>5, <1>6

\* low and high take the place of the n elements of q after a.
Joined(q, a, n, low, high, r) ==
  /\ Len(low) + Len(high) = n
  /\ r = SubSeq(q, 1, a) \o low \o high \o SubSeq(q, a + n + 1, Len(q))

\* The same, element by element.
Pieces(q, a, n, low, high, r) ==
  /\ Len(r) = Len(q)
  /\ \A i \in 1 .. a : r[i] = q[i]
  /\ \A i \in a + n + 1 .. Len(q) : r[i] = q[i]
  /\ \A i \in 1 .. Len(low) : r[a + i] = low[i]
  /\ \A i \in 1 .. Len(high) : r[a + Len(low) + i] = high[i]

\* The elements of a sequence of which a range was replaced.
LEMMA Concatenated ==
  ASSUME NEW S, NEW q, NEW a, NEW n, NEW low, NEW high, q \in Seq(S), a \in Nat, n \in Nat,
         a + n <= Len(q), low \in Seq(S), high \in Seq(S),
         NEW r, Joined(q, a, n, low, high, r)
  PROVE  Pieces(q, a, n, low, high, r) /\ r \in Seq(S)
  <1>1. PICK m, k, l : m = Len(q) /\ k = Len(low) /\ l = Len(high)
    OBVIOUS
  <1>2. m \in Nat /\ k \in Nat /\ l \in Nat /\ a + n <= m /\ k + l = n
    BY <1>1, LenProperties DEF Joined
  <1>3. PICK u, v : u = SubSeq(q, 1, a) /\ v = SubSeq(q, a + n + 1, m)
    OBVIOUS
  <1>4. \A i \in 1 .. m : q[i] \in S
    BY <1>1, ElementOfSeq
  <1>5. u \in Seq(S) /\ Len(u) = a /\ \A i \in 1 .. a : u[i] = q[i]
    <2>1. \A i \in 1 .. a : q[i] \in S /\ 1 + i - 1 = i
      BY <1>2, <1>4
    <2>2. 1 \in Int /\ a \in Int /\ a - 1 + 1 = a /\ (1 <= a \/ a = 0)
      OBVIOUS
    <2>3. /\ u \in Seq(S) /\ Len(u) = IF 1 <= a THEN a - 1 + 1 ELSE 0
          /\ \A i \in 1 .. a - 1 + 1 : u[i] = q[1 + i - 1]
      BY <1>3, <2>1, <2>2, SubSeqProperties
    <2> QED BY <2>1, <2>2, <2>3
  <1>6. v \in Seq(S) /\ Len(v) = m - (a + n) /\ \A i \in 1 .. m - (a + n) : v[i] = q[a + n + i]
    <2>1. \A i \in a + n + 1 .. m : q[i] \in S
      BY <1>2, <1>4
    <2>2. a + n + 1 \in Int /\ m \in Int
      BY <1>2
    <2>3. /\ v \in Seq(S)
          /\ Len(v) = IF a + n + 1 <= m THEN m - (a + n + 1) + 1 ELSE 0
          /\ \A i \in 1 .. m - (a + n + 1) + 1 : v[i] = q[(a + n + 1) + i - 1]
      BY <1>3, <2>1, <2>2, SubSeqProperties
    <2>4. Len(v) = m - (a + n)
      BY <1>2, <2>3
    <2>5. \A i \in 1 .. m - (a + n) : i \in 1 .. m - (a + n + 1) + 1 /\ (a + n + 1) + i - 1 = a + n + i
      BY <1>2
    <2> QED BY <2>3, <2>4, <2>5
  <1>7. PICK x : x = u \o low
    OBVIOUS
  <1>8. /\ x \in Seq(S) /\ Len(x) = a + k
        /\ \A i \in 1 .. a + k : x[i] = IF i <= a THEN u[i] ELSE low[i - a]
    BY <1>1, <1>5, <1>7, ConcatProperties
  <1>9. PICK y : y = x \o high
    OBVIOUS
  <1>10. /\ y \in Seq(S) /\ Len(y) = a + k + l
         /\ \A i \in 1 .. a + k + l : y[i] = IF i <= a + k THEN x[i] ELSE high[i - (a + k)]
    <2>1. /\ y \in Seq(S) /\ Len(y) = Len(x) + Len(high)
          /\ \A i \in 1 .. Len(x) + Len(high) :
               y[i] = IF i <= Len(x) THEN x[i] ELSE high[i - Len(x)]
      BY ONLY <1>8, <1>9, ConcatProperties, high \in Seq(S)
    <2>2. Len(x) = a + k /\ Len(high) = l
      BY <1>1, <1>8
    <2> QED BY <2>1, <2>2
  <1>11. r = y \o v
    BY <1>1, <1>3, <1>7, <1>9 DEF Joined
  <1>12. a + k + l = a + n /\ (a + n) + (m - (a + n)) = m
    BY <1>2
  <1>13. /\ r \in Seq(S) /\ Len(r) = m
         /\ \A i \in 1 .. m : r[i] = IF i <= a + n THEN y[i] ELSE v[i - (a + n)]
    <2>1. /\ r \in Seq(S) /\ Len(r) = Len(y) + Len(v)
          /\ \A i \in 1 .. Len(y) + Len(v) : r[i] = IF i <= Len(y) THEN y[i] ELSE v[i - Len(y)]
      BY ONLY <1>6, <1>10, <1>11, ConcatProperties
    <2>2. Len(y) = a + n /\ Len(v) = m - (a + n)
      BY <1>6, <1>10, <1>12
    <2> QED BY <1>12, <2>1, <2>2
  <1>14. ASSUME NEW i \in 1 .. a PROVE r[i] = q[i]
    <2>1. i \in 1 .. m /\ i <= a + n /\ i \in 1 .. a + k + l /\ i <= a + k /\ i \in 1 .. a + k /\ i <= a
      BY <1>2
    <2>2. r[i] = y[i] /\ y[i] = x[i]
      BY <1>10, <1>13, <2>1
    <2>3. x[i] = u[i] /\ u[i] = q[i]
      BY <1>5, <1>8, <2>1
    <2> QED BY <2>2, <2>3
  <1>15. ASSUME NEW i \in a + n + 1 .. m PROVE r[i] = q[i]
    <2>1. PICK j : j = i - (a + n)
      OBVIOUS
    <2>2. i \in 1 .. m /\ ~(i <= a + n) /\ j \in 1 .. m - (a + n) /\ a + n + j = i
      BY <1>2, <2>1
    <2> QED BY <1>6, <1>13, <2>1, <2>2
  <1>16. ASSUME NEW i \in 1 .. k PROVE r[a + i] = low[i]
    <2>1. PICK j : j = a + i
      OBVIOUS
    <2>2. j \in 1 .. m /\ j <= a + n /\ j \in 1 .. a + k + l /\ j <= a + k /\ j \in 1 .. a + k
          /\ ~(j <= a) /\ j - a = i
      BY <1>2, <2>1
    <2> QED BY <1>8, <1>10, <1>13, <2>1, <2>2
  <1>17. ASSUME NEW i \in 1 .. l PROVE r[a + k + i] = high[i]
    <2>1. PICK j : j = a + k + i
      OBVIOUS
    <2>2. j \in 1 .. m /\ j <= a + n /\ j \in 1 .. a + k + l /\ ~(j <= a + k) /\ j - (a + k) = i
      BY <1>2, <2>1
    <2> QED BY <1>10, <1>13, <2>1, <2>2
  <1> QED BY <1>1, <1>13, <1>14, <1>15, <1>16, <1>17 DEF Pieces

\* std::partition, as SplitLeft says it.
Split(q, a, n, low, high, r) ==
  r = SubSeq(q, 1, a) \o low \o high \o SubSeq(q, a + n + 1, Len(q))

\* tris after its range of n triangles from a on was partitioned: first those of P. What
\* includes the range, or is apart from it, is as it was.
LEMMA Repartitioned ==
  ASSUME Ordered, NEW a \in Nat, NEW n \in Nat, a + n <= Count,
         NEW P \in SUBSET Tree!TriRange(a, n),
         NEW low \in Tree!Orders(P), NEW high \in Tree!Orders(Tree!TriRange(a, n) \ P),
         Split(tris, a, n, low, high, tris')
  PROVE  /\ Ordered' /\ Count' = Count /\ Tree!TriRange(a, Cardinality(P))' = P
         /\ \A x, y \in Nat :
              x + y <= Count /\ ((x <= a /\ a + n <= x + y) \/ x + y <= a \/ a + n <= x)
                => Tree!TriRange(x, y)' = Tree!TriRange(x, y)
  <1>1. PICK mine, Q : mine = Tree!TriRange(a, n) /\ Q = mine \ P
    OBVIOUS
  <1>2. PICK m, r : m = Count /\ r = tris'
    OBVIOUS
  <1>3. m \in Nat /\ a + n <= m /\ P \subseteq mine /\ high \in Tree!Orders(Q)
    BY <1>1, <1>2 DEF Ordered
  <1>4. /\ mine \subseteq 1 .. m /\ IsFiniteSet(P) /\ IsFiniteSet(Q)
        /\ Cardinality(P) \in Nat /\ Cardinality(Q) \in Nat
        /\ Cardinality(P) + Cardinality(Q) = n
    BY <1>1, <1>2, RangeSize
  <1>5. PICK k, l : k = Cardinality(P) /\ l = Cardinality(Q)
    OBVIOUS
  <1>6. k \in Nat /\ l \in Nat /\ k + l = n
    BY <1>4, <1>5
  <1>7. P \subseteq Nat /\ Q \subseteq Nat
    BY <1>1, <1>3, <1>4
  <1>8. /\ low \in Seq(Nat) /\ Len(low) = k
        /\ \A i \in 1 .. k : low[i] \in P
        /\ \A i, j \in 1 .. k : low[i] = low[j] => i = j
        /\ \A x \in P : \E i \in 1 .. k : low[i] = x
    <2>1. /\ low \in Seq(Nat) /\ Len(low) = Cardinality(P)
          /\ \A i \in 1 .. Cardinality(P) : low[i] \in P
          /\ \A i, j \in 1 .. Cardinality(P) : low[i] = low[j] => i = j
          /\ \A x \in P : \E i \in 1 .. Cardinality(P) : low[i] = x
      <3>1. P \subseteq Nat /\ IsFiniteSet(P) /\ low \in Tree!Orders(P)
        BY <1>4, <1>7
      <3> QED BY ONLY ZenonT(30), <3>1, OrderedAs
    <2> QED BY <1>5, <2>1
  <1>9. /\ high \in Seq(Nat) /\ Len(high) = l
        /\ \A i \in 1 .. l : high[i] \in Q
        /\ \A i, j \in 1 .. l : high[i] = high[j] => i = j
        /\ \A x \in Q : \E i \in 1 .. l : high[i] = x
    <2>1. /\ high \in Seq(Nat) /\ Len(high) = Cardinality(Q)
          /\ \A i \in 1 .. Cardinality(Q) : high[i] \in Q
          /\ \A i, j \in 1 .. Cardinality(Q) : high[i] = high[j] => i = j
          /\ \A x \in Q : \E i \in 1 .. Cardinality(Q) : high[i] = x
      <3>1. Q \subseteq Nat /\ IsFiniteSet(Q) /\ high \in Tree!Orders(Q)
        BY <1>3, <1>4, <1>7
      <3> QED BY ONLY <3>1, OrderedAs
    <2> QED BY <1>5, <2>1
  <1>10. tris \in Seq(Nat) /\ Len(tris) = m
    BY <1>2 DEF Ordered, Count
  <1>11. /\ r \in Seq(Nat) /\ Len(r) = m
         /\ \A i \in 1 .. a : r[i] = tris[i]
         /\ \A i \in a + n + 1 .. m : r[i] = tris[i]
         /\ \A i \in 1 .. k : r[a + i] = low[i]
         /\ \A i \in 1 .. l : r[a + k + i] = high[i]
    <2>1. Joined(tris, a, n, low, high, r)
      BY <1>2, <1>6, <1>8, <1>9 DEF Joined, Split
    <2>2. a + n <= Len(tris)
      BY <1>3, <1>10
    <2>3. Pieces(tris, a, n, low, high, r) /\ r \in Seq(Nat)
      <3>1. /\ tris \in Seq(Nat) /\ a \in Nat /\ n \in Nat
            /\ low \in Seq(Nat) /\ high \in Seq(Nat)
        BY <1>8, <1>9, <1>10
      <3> QED BY ONLY <2>1, <2>2, <3>1, Concatenated
    <2>4. /\ Len(r) = Len(tris)
          /\ \A i \in 1 .. a : r[i] = tris[i]
          /\ \A i \in a + n + 1 .. Len(tris) : r[i] = tris[i]
          /\ \A i \in 1 .. Len(low) : r[a + i] = low[i]
          /\ \A i \in 1 .. Len(high) : r[a + Len(low) + i] = high[i]
      BY <2>3 DEF Pieces
    <2> QED BY <1>8, <1>9, <1>10, <2>3, <2>4
  <1>12. \A i \in 1 .. m : i \in a + 1 .. a + n \/ i \in 1 .. a \/ i \in a + n + 1 .. m
    BY <1>3
  <1>13. \A i \in 1 .. m : i \in a + 1 .. a + n \/ r[i] = tris[i]
    BY <1>11, <1>12
  <1>14. \A i \in a + 1 .. a + n : \/ \E j \in 1 .. k : i = a + j
                                   \/ \E j \in 1 .. l : i = a + k + j
    <2> TAKE i \in a + 1 .. a + n
    <2>1. CASE i <= a + k
      <3>1. i - a \in 1 .. k /\ i = a + (i - a)
        BY <1>6, <2>1
      <3> QED BY <3>1
    <2>2. CASE ~(i <= a + k)
      <3>1. i - (a + k) \in 1 .. l /\ i = a + k + (i - (a + k))
        BY <1>6, <2>2
      <3> QED BY <3>1
    <2> QED BY <2>1, <2>2
  <1>15. /\ \A j \in 1 .. k : r[a + j] \in P
         /\ \A j \in 1 .. l : r[a + k + j] \in Q
         /\ \A x \in Q : x \notin P /\ x \in mine
         /\ \A x \in P : x \in mine
    BY <1>1, <1>3, <1>8, <1>9, <1>11
  <1>16. \A i \in a + 1 .. a + n : r[i] \in mine
    BY <1>14, <1>15
  <1>17. \A j \in 1 .. k : a + j \in a + 1 .. a + n /\ a + j \in 1 .. m
    BY <1>3, <1>6
  <1>18. \A j \in 1 .. l : a + k + j \in a + 1 .. a + n /\ a + k + j \in 1 .. m
    BY <1>3, <1>6
  <1>19. \A x \in mine : \E i \in a + 1 .. a + n : r[i] = x
    <2> TAKE x \in mine
    <2>1. CASE x \in P
      BY <1>8, <1>11, <1>17, <2>1
    <2>2. CASE x \notin P
      BY <1>1, <1>9, <1>11, <1>18, <2>2
    <2> QED BY <2>1, <2>2
  <1>20. \A i, j \in a + 1 .. a + n : r[i] = r[j] => i = j
    <2> TAKE i, j \in a + 1 .. a + n
    <2> HAVE r[i] = r[j]
    <2>1. CASE r[i] \in P
      <3>1. PICK x \in 1 .. k : i = a + x
        BY <1>14, <1>15, <2>1
      <3>2. PICK y \in 1 .. k : j = a + y
        BY <1>14, <1>15, <2>1
      <3>3. low[x] = low[y]
        BY <1>11, <3>1, <3>2
      <3> QED BY <1>8, <3>1, <3>2, <3>3
    <2>2. CASE r[i] \notin P
      <3>1. PICK x \in 1 .. l : i = a + k + x
        BY <1>14, <1>15, <2>2
      <3>2. PICK y \in 1 .. l : j = a + k + y
        BY <1>14, <1>15, <2>2
      <3>3. high[x] = high[y]
        BY <1>11, <3>1, <3>2
      <3> QED BY <1>9, <3>1, <3>2, <3>3
    <2> QED BY <2>1, <2>2
  <1>21. mine = {tris[i] : i \in a + 1 .. a + n}
    BY <1>1 DEF Tree!TriRange
  <1>22. /\ \A i \in 1 .. m : tris[i] \in 1 .. m
         /\ \A i, j \in 1 .. m : tris[i] = tris[j] => i = j
         /\ \A x \in 1 .. m : \E i \in 1 .. m : tris[i] = x
    BY <1>2 DEF Ordered
  <1>23. \A i \in a + 1 .. a + n : i \in 1 .. m
    BY <1>3
  <1>24. \A i \in 1 .. m : i \in a + 1 .. a + n <=> r[i] \in mine
    BY <1>13, <1>16, <1>21, <1>22, <1>23
  <1>25. Ordered' /\ Count' = Count
    <2>1. \A i \in 1 .. m : r[i] \in 1 .. m
      BY <1>4, <1>13, <1>16, <1>22
    <2>2. \A i, j \in 1 .. m : r[i] = r[j] => i = j
      BY <1>13, <1>20, <1>22, <1>24
    <2>3. \A x \in 1 .. m : \E i \in 1 .. m : r[i] = x
      BY ZenonT(30), <1>13, <1>19, <1>21, <1>22, <1>23
    <2>4. Count' = m /\ m \in 1 .. MaxTriangles /\ tris' = r
      BY <1>2, <1>11 DEF Ordered, Count
    <2>5. r \in Seq(Nat)
      BY <1>11
    <2> QED BY <1>2, <2>1, <2>2, <2>3, <2>4, <2>5 DEF Ordered
  <1>26. Tree!TriRange(a, k)' = P
    <2>1. Tree!TriRange(a, k)' = {r[i] : i \in a + 1 .. a + k}
      BY <1>2 DEF Tree!TriRange
    <2>2. \A i \in a + 1 .. a + k : i - a \in 1 .. k /\ i = a + (i - a)
      BY <1>6
    <2>3. \A i \in a + 1 .. a + k : r[i] \in P
      BY <1>8, <1>11, <2>2
    <2>4. \A j \in 1 .. k : a + j \in a + 1 .. a + k
      BY <1>6
    <2>5. \A x \in P : \E i \in a + 1 .. a + k : r[i] = x
      <3> TAKE x \in P
      <3>1. PICK i \in 1 .. k : low[i] = x
        BY <1>8
      <3>2. r[a + i] = x /\ a + i \in a + 1 .. a + k
        BY <1>11, <2>4, <3>1
      <3> QED BY <3>2
    <2> QED BY <2>1, <2>3, <2>5
  <1>27. ASSUME NEW x \in Nat, NEW y \in Nat, x + y <= m,
                (x <= a /\ a + n <= x + y) \/ x + y <= a \/ a + n <= x
         PROVE  Tree!TriRange(x, y)' = Tree!TriRange(x, y)
    <2>1. /\ Tree!TriRange(x, y)' = {r[i] : i \in x + 1 .. x + y}
          /\ Tree!TriRange(x, y) = {tris[i] : i \in x + 1 .. x + y}
      BY <1>2 DEF Tree!TriRange
    <2>2. \A i \in x + 1 .. x + y : i \in 1 .. m
      BY <1>3, <1>27
    <2>3. CASE x <= a /\ a + n <= x + y
      <3>1. \A i \in a + 1 .. a + n : i \in x + 1 .. x + y
        BY <1>3, <2>3
      <3>2. \A i \in x + 1 .. x + y : \E j \in x + 1 .. x + y : tris[j] = r[i]
        BY <1>13, <1>16, <1>21, <2>2, <3>1
      <3>3. \A i \in x + 1 .. x + y : \E j \in x + 1 .. x + y : r[j] = tris[i]
        BY <1>13, <1>19, <1>21, <2>2, <3>1
      <3> QED BY <2>1, <3>2, <3>3
    <2>4. CASE x + y <= a \/ a + n <= x
      <3>1. \A i \in x + 1 .. x + y : i \notin a + 1 .. a + n
        BY <1>3, <2>4
      <3>2. \A i \in x + 1 .. x + y : r[i] = tris[i]
        BY <1>13, <2>2, <3>1
      <3> QED BY <2>1, <3>2
    <2> QED BY <1>27, <2>3, <2>4
  <1> QED BY <1>2, <1>5, <1>25, <1>26, <1>27

\* One node, which has all triangles and which split is called for.
LEMMA TreeStarts ==
  ASSUME Tree!Init
  PROVE  LaidOut /\ Searched
  <1>1. PICK n \in 1 .. MaxTriangles :
          /\ tris = [i \in 1 .. n |-> i]
          /\ nodes = <<Tree!Node(1 .. n)>>
          /\ calls = <<Tree!Call(0, 0, n)>>
          /\ ray = {} /\ dfs = <<>> /\ answer = "none"
    BY DEF Tree!Init
  <1>2. n \in Nat /\ n >= 1 /\ n < U16 /\ U16 \in Nat
    BY TreeAssumption
  <1>3. tris \in Seq(Nat) /\ Count = n
    <2>1. tris \in [1 .. n -> Nat]
      BY <1>1
    <2> QED BY <1>2, <2>1 DEF Count
  <1>4. Ordered
    BY <1>1, <1>3 DEF Ordered
  <1>5. PICK x, f : x = Tree!Node(1 .. n) /\ f = Tree!Call(0, 0, n)
    OBVIOUS
  <1>6. /\ x \in NodeType /\ x.bound = 1 .. n /\ x.triCount = 0
        /\ f \in CallType /\ f.node = 0 /\ f.start = 0 /\ f.count = n /\ f.below = 0 /\ f.right = 0
    <2>1. n % U16 = n
      BY <1>2, SmallCount
    <2>2. x = [bound |-> 1 .. n, link |-> 0, triCount |-> 0]
      BY <1>5 DEF Tree!Node
    <2>3. f = [node |-> 0, start |-> 0, count |-> n, below |-> 0, right |-> 0]
      BY <1>5, <2>1 DEF Tree!Call
    <2>4. 1 .. n \in SUBSET (1 .. Count) /\ 0 \in Nat /\ 0 \in 0 .. U16 - 1
      BY <1>2, <1>3
    <2>5. x \in NodeType
      BY <2>2, <2>4 DEF NodeType
    <2>6. f \in CallType
      BY <1>2, <2>3, <2>4 DEF CallType
    <2> QED BY <2>2, <2>3, <2>5, <2>6
  <1>7. nodes \in Seq(NodeType) /\ Size = 1 /\ nodes[1] = x
    BY <1>1, <1>5, <1>6 DEF Size
  <1>8. calls \in Seq(CallType) /\ Len(calls) = 1 /\ calls[1] = f /\ calls # <<>>
    BY <1>1, <1>5, <1>6
  <1>9. PICK z, c : z = [i \in Nat |-> 0] /\ c = [i \in Nat |-> n]
    OBVIOUS
  <1>10. (\A i \in Nat : z[i] = 0 /\ c[i] = n) /\ Counts(z, c, z, z)
    BY <1>2, <1>9 DEF Counts
  <1>11. Laid(z, c, z, z)
    <2>1. TheNodes = {0} /\ 1 .. Size - 1 = {} /\ 1 .. Len(calls) = {1}
      BY <1>7, <1>8 DEF TheNodes
    <2>2. Tree!TriRange(0, n) = 1 .. n
      <3>1. 0 + 1 .. 0 + n = 1 .. n
        BY <1>2
      <3> QED BY <1>1, <3>1 DEF Tree!TriRange
    <2>3. NodeSound(z, c, z, 0)
      <3>1. \A j \in 0 + 1 .. Size - 1 : FALSE
        BY <1>7
      <3>2. n >= 1 /\ 0 + n <= n /\ 0 + 2 * n <= 2 * n
        BY <1>2
      <3>3. nodes[0 + 1].bound = Tree!TriRange(z[0], c[0])
        BY <1>6, <1>7, <1>10, <2>2
      <3> QED BY <1>3, <1>10, <3>1, <3>2, <3>3 DEF NodeSound
    <2>4. CallSound(z, c, z, z, 1)
      BY <1>6, <1>7, <1>8, <1>10 DEF CallSound
    <2>5. calls[Len(calls)].node = 0 /\ calls[1].node = 0
      BY <1>6, <1>8
    <2> QED BY <1>3, <1>7, <1>8, <1>10, <2>1, <2>3, <2>4, <2>5 DEF Laid, Finished
  <1>12. Searched
    <2>1. dfs \in Seq(TheNodes)
      BY <1>1
    <2> QED BY <1>1, <2>1 DEF Searched
  <1> QED BY <1>4, <1>7, <1>8, <1>10, <1>11, <1>12 DEF LaidOut, Typed

\* A step of a search leaves the tree as it is.
LEMMA TreeStays ==
  ASSUME LaidOut, UNCHANGED <<nodes, tris, calls>>
  PROVE  LaidOut'
  <1>1. PICK s, c, e, p : Counts(s, c, e, p) /\ Laid(s, c, e, p)
    BY DEF LaidOut
  <1>2. Laid(s, c, e, p)'
    BY <1>1 DEF Laid, NodeSound, FinishedSound, LeafSound, InnerSound, ParentSound, CallSound,
             ChildOf, Divided, Part, Apart, Finished, TheNodes, Size, Count, Tree!TriRange
  <1>3. Typed'
    BY DEF LaidOut, Typed, Ordered, NodeType, Count, CallType
  <1> QED BY <1>1, <1>2, <1>3 DEF LaidOut

\* The actions of the construction, one by one.
LEMMA LeafKeeps ==
  ASSUME LaidOut, Tree!Leaf
  PROVE  LaidOut' /\ Count' = Count
  <1>1. PICK s, c, e, p : Counts(s, c, e, p) /\ Laid(s, c, e, p)
    BY DEF LaidOut
  <1>2. Typed /\ calls # <<>>
    BY DEF LaidOut, Tree!Leaf, Tree!Entered
  <1>3. PICK f, t : f = calls[1] /\ t = f.node
    OBVIOUS
  <1>4. Tree!Top = f /\ f.start = s[t] /\ f.count = c[t]
    BY <1>1, <1>2, <1>3, TopCall
  <1>5. Returns(s, c, f.start, f.count)
    BY <1>3, <1>4 DEF Returns, Tree!Leaf, Tree!Entered
  <1>6. /\ nodes' = [nodes EXCEPT ![t + 1].link = f.start, ![t + 1].triCount = f.count]
        /\ calls' = Tail(calls) /\ tris' = tris
    BY <1>3, <1>4 DEF Tree!Leaf, Tree!SplitInto
  <1>7. /\ nodes' \in Seq(NodeType) /\ calls' \in Seq(CallType)
        /\ \E s2, c2, e2, p2 : Counts(s2, c2, e2, p2) /\ Laid(s2, c2, e2, p2)'
    BY <1>1, <1>2, <1>3, <1>5, <1>6, ReturnLaid
  <1>8. Ordered' /\ Count' = Count /\ NodeType' = NodeType /\ CallType' = CallType
    BY <1>2, <1>6 DEF Typed, Ordered, Count, NodeType, CallType
  <1> QED BY <1>7, <1>8 DEF LaidOut, Typed

LEMMA SplitReturnKeeps ==
  ASSUME LaidOut, Tree!SplitReturn
  PROVE  LaidOut' /\ Count' = Count
  <1>1. PICK s, c, e, p : Counts(s, c, e, p) /\ Laid(s, c, e, p)
    BY DEF LaidOut
  <1>2. Typed /\ calls # <<>>
    BY DEF LaidOut, Tree!SplitReturn
  <1>3. PICK f, t : f = calls[1] /\ t = f.node
    OBVIOUS
  <1>4. Tree!Top = f
    BY <1>1, <1>2, <1>3, TopCall
  <1>5. Returns(s, c, f.right, 0)
    BY <1>3, <1>4 DEF Returns, Tree!SplitReturn
  <1>6. /\ nodes' = [nodes EXCEPT ![t + 1].link = f.right, ![t + 1].triCount = 0]
        /\ calls' = Tail(calls) /\ tris' = tris
    BY <1>3, <1>4 DEF Tree!SplitReturn, Tree!SplitInto
  <1>7. /\ nodes' \in Seq(NodeType) /\ calls' \in Seq(CallType)
        /\ \E s2, c2, e2, p2 : Counts(s2, c2, e2, p2) /\ Laid(s2, c2, e2, p2)'
    BY <1>1, <1>2, <1>3, <1>5, <1>6, ReturnLaid
  <1>8. Ordered' /\ Count' = Count /\ NodeType' = NodeType /\ CallType' = CallType
    BY <1>2, <1>6 DEF Typed, Ordered, Count, NodeType, CallType
  <1> QED BY <1>7, <1>8 DEF LaidOut, Typed

LEMMA PairKeeps ==
  ASSUME LaidOut, Tree!Pair
  PROVE  LaidOut' /\ Count' = Count
  <1>1. PICK s, c, e, p : Counts(s, c, e, p) /\ Laid(s, c, e, p)
    BY DEF LaidOut
  <1>2. Typed /\ calls # <<>>
    BY DEF LaidOut, Tree!Pair, Tree!Entered
  <1>3. PICK f, t : f = calls[1] /\ t = f.node
    OBVIOUS
  <1>4. Tree!Top = f /\ f.start = s[t] /\ f.count = c[t] /\ t \in TheNodes
    BY <1>1, <1>2, <1>3, TopCall
  <1>5. f.below = 0 /\ f.count = 2
    BY <1>4 DEF Tree!Pair, Tree!Entered
  <1>6. PICK x, y : x = Tree!LeafNode(s[t]) /\ y = Tree!LeafNode(s[t] + 1)
    OBVIOUS
  <1>7. /\ PairOf(nodes, t, x, y, Len(nodes) + 1, nodes')
        /\ calls' = Tail(calls) /\ tris' = tris
    BY <1>3, <1>4, <1>6 DEF Tree!Pair, Tree!SplitInto, PairOf
  <1>8. x \in NodeType /\ y \in NodeType
    <2>1. PICK a, m : a = s[t] /\ m = Count
      OBVIOUS
    <2>2. a \in Nat /\ m \in Nat /\ a + 2 <= m /\ U16 \in Nat /\ U16 > m
      <3>1. t \in Nat
        BY <1>4, <1>2, TreeSizes
      <3>2. c[t] = 2 /\ s[t] + c[t] <= Count
        BY <1>1, <1>4, <1>5 DEF Laid, NodeSound
      <3>3. a \in Nat
        BY <1>1, <2>1, <3>1 DEF Counts
      <3> QED BY <1>2, <2>1, <3>2, <3>3, TreeSizes, TreeAssumption
    <2>3. a + 1 \in 1 .. m /\ (a + 1) + 1 \in 1 .. m /\ 1 \in 0 .. U16 - 1 /\ a + 1 \in Nat
      BY <2>2
    <2>4. tris[a + 1] \in 1 .. m /\ tris[(a + 1) + 1] \in 1 .. m
      BY <1>2, <2>1, <2>3 DEF Typed, Ordered
    <2>5. /\ x = [bound |-> {tris[a + 1]}, link |-> a, triCount |-> 1]
          /\ y = [bound |-> {tris[(a + 1) + 1]}, link |-> a + 1, triCount |-> 1]
      BY <1>6, <2>1 DEF Tree!LeafNode
    <2>6. {tris[a + 1]} \in SUBSET (1 .. Count) /\ {tris[(a + 1) + 1]} \in SUBSET (1 .. Count)
      BY <2>1, <2>4
    <2> QED BY <2>2, <2>3, <2>5, <2>6 DEF NodeType
  <1>9. /\ nodes' \in Seq(NodeType) /\ calls' \in Seq(CallType)
        /\ \E s2, c2, e2, p2 : Counts(s2, c2, e2, p2) /\ Laid(s2, c2, e2, p2)'
    BY <1>1, <1>2, <1>3, <1>5, <1>6, <1>7, <1>8, PairLaid
  <1>10. Ordered' /\ Count' = Count /\ NodeType' = NodeType /\ CallType' = CallType
    BY <1>2, <1>7 DEF Typed, Ordered, Count, NodeType, CallType
  <1> QED BY <1>9, <1>10 DEF LaidOut, Typed

LEMMA SplitRightKeeps ==
  ASSUME LaidOut, Tree!SplitRight
  PROVE  LaidOut' /\ Count' = Count
  <1>1. PICK s, c, e, p : Counts(s, c, e, p) /\ Laid(s, c, e, p)
    BY DEF LaidOut
  <1>2. Typed /\ calls # <<>>
    BY DEF LaidOut, Tree!SplitRight
  <1>3. PICK f, t, b, L : f = calls[1] /\ t = f.node /\ b = f.below /\ L = Size
    OBVIOUS
  <1>4. /\ Tree!Top = f /\ f.start = s[t] /\ f.count = c[t] /\ t \in TheNodes /\ f \in CallType
        /\ b # 0 => b < c[t]
    BY <1>1, <1>2, <1>3, TopCall
  <1>5. b # 0 /\ f.right = 0
    BY <1>3, <1>4 DEF Tree!SplitRight
  <1>6. PICK st, n : st = s[t] + b /\ n = c[t] - b
    OBVIOUS
  <1>7. t \in Nat /\ L \in Nat /\ Count \in Nat /\ Count < U16 /\ b \in Nat /\ s[t] \in Nat /\ c[t] \in Nat
    <2>1. t \in Nat /\ L \in Nat /\ Count \in Nat /\ Count < U16
      BY <1>2, <1>3, <1>4, TreeSizes
    <2> QED BY <1>1, <1>3, <1>4, <2>1 DEF Counts, CallType
  <1>8. st \in Nat /\ n \in Nat
    BY <1>4, <1>5, <1>6, <1>7
  <1>9. GoesRight(s, c, st, n, b, L)
    BY <1>3, <1>5, <1>6 DEF GoesRight
  <1>10. n >= 1 /\ st + n <= Count
    BY <1>1, <1>2, <1>7, <1>8, <1>9, PushPlace
  <1>11. PICK nd, g, h : /\ nd = Tree!Node(Tree!TriRange(st, n))
                         /\ g = Tree!Call(L, st, n) /\ h = [f EXCEPT !.right = L]
    OBVIOUS
  <1>12. nodes' = Append(nodes, nd) /\ calls' = <<g, h>> \o Tail(calls) /\ tris' = tris
    BY <1>3, <1>4, <1>6, <1>11 DEF Tree!SplitRight, Size
  <1>13. nd.triCount = 0 /\ nd.bound = Tree!TriRange(st, n) /\ nd \in NodeType
    <2>1. nd = [bound |-> Tree!TriRange(st, n), link |-> 0, triCount |-> 0]
      BY <1>11 DEF Tree!Node
    <2>2. Tree!TriRange(st, n) \in SUBSET (1 .. Count)
      BY <1>2, <1>8, <1>10, RangeSize DEF Typed
    <2>3. 0 \in 0 .. U16 - 1
      BY <1>7, TreeAssumption
    <2> QED BY <2>1, <2>2, <2>3 DEF NodeType
  <1>14. NewCalls(st, n, b, L, g, h)
    <2>1. n % U16 = n
      BY <1>7, <1>8, <1>10, SmallCount, TreeAssumption
    <2>2. g = [node |-> L, start |-> st, count |-> n, below |-> 0, right |-> 0]
      BY <1>11, <2>1 DEF Tree!Call
    <2>3. /\ g \in CallType /\ g.node = L /\ g.start = st /\ g.count = n /\ g.below = 0
          /\ g.right = 0
      BY <1>7, <1>8, <2>2 DEF CallType
    <2>4. /\ h \in CallType /\ h.node = f.node /\ h.start = f.start /\ h.count = f.count
          /\ h.below = b /\ h.right = L
      BY <1>3, <1>4, <1>7, <1>11 DEF CallType
    <2> QED BY <1>3, <1>12, <2>3, <2>4 DEF NewCalls
  <1>15. /\ Count' = Count /\ \A x, y : Tree!TriRange(x, y)' = Tree!TriRange(x, y)
    BY <1>12 DEF Count, Tree!TriRange
  <1>16. /\ calls' \in Seq(CallType)
         /\ \E s2, c2, e2, p2 : Counts(s2, c2, e2, p2) /\ Laid(s2, c2, e2, p2)'
    <2>1. nd.bound = Tree!TriRange(st, n)'
      BY <1>13, <1>15
    <2>2. \A i \in TheNodes : Tree!TriRange(s[i], c[i])' = Tree!TriRange(s[i], c[i])
      BY <1>15
    <2>3. GoesLeft(s, c, st, n, b, L) \/ GoesRight(s, c, st, n, b, L)
      BY <1>9
    <2>4. nodes' = Append(nodes, nd) /\ nd.triCount = 0 /\ Count' = Count /\ t = calls[1].node
      BY <1>3, <1>12, <1>13, <1>15
    <2> QED BY ONLY <1>1, <1>2, <1>7, <1>8, <1>14, <2>1, <2>2, <2>3, <2>4, PushLaid
  <1>17. nodes' \in Seq(NodeType)
    BY <1>2, <1>12, <1>13, AppendProperties DEF Typed
  <1>18. Ordered' /\ Count' = Count /\ NodeType' = NodeType /\ CallType' = CallType
    BY <1>2, <1>12 DEF Typed, Ordered, Count, NodeType, CallType
  <1> QED BY <1>16, <1>17, <1>18 DEF LaidOut, Typed

\* SplitLeft, for the bins that it has chosen.
LeftSplit(top, a, N, mine, bin, minCostBin) ==
  LET below == {t \in mine : bin[t] <= minCostBin}
      partitioned == {t \in mine : Tree!Belongs(bin[t], minCostBin)}
  IN  /\ below # {} /\ below # mine
      /\ \E low \in Tree!Orders(partitioned), high \in Tree!Orders(mine \ partitioned) :
           tris' = SubSeq(tris, 1, a) \o low \o high \o SubSeq(tris, a + N + 1, Len(tris))
      /\ nodes' = Append(nodes, Tree!Node(below))
      /\ calls' = <<Tree!Call(Len(nodes), a, Tree!Cardinality(below)),
                    [top EXCEPT !.below = Tree!Cardinality(below)]>> \o Tail(calls)

LEMMA SplitLeftKeeps ==
  ASSUME LaidOut, Tree!SplitLeft
  PROVE  LaidOut' /\ Count' = Count
  <1>1. PICK s, c, e, p : Counts(s, c, e, p) /\ Laid(s, c, e, p)
    BY DEF LaidOut
  <1>2. Typed /\ calls # <<>>
    BY DEF LaidOut, Tree!SplitLeft, Tree!Entered
  <1>3. PICK f, t, L : f = calls[1] /\ t = f.node /\ L = Size
    OBVIOUS
  <1>4. /\ Tree!Top = f /\ f.start = s[t] /\ f.count = c[t] /\ t \in TheNodes /\ f \in CallType
        /\ f.below = 0 => f.right = 0 /\ t + 1 = Size
    BY <1>1, <1>2, <1>3, TopCall
  <1>5. f.below = 0 /\ f.right = 0 /\ t + 1 = L
    BY <1>3, <1>4 DEF Tree!SplitLeft, Tree!Entered
  <1>6. PICK a, N : a = s[t] /\ N = c[t]
    OBVIOUS
  <1>7. /\ t \in Nat /\ L \in Nat /\ Count \in Nat /\ Count < U16 /\ a \in Nat /\ N \in Nat
        /\ a + N <= Count
    <2>1. t \in Nat /\ L \in Nat /\ Count \in Nat /\ Count < U16
      BY <1>2, <1>3, <1>4, TreeSizes
    <2>2. s[t] + c[t] <= Count
      BY <1>1, <1>4 DEF Laid, NodeSound
    <2> QED BY <1>1, <1>6, <2>1, <2>2 DEF Counts
  <1>8. PICK mine : mine = Tree!TriRange(a, N)
    OBVIOUS
  <1>9. PICK P, low, high :
          /\ P \in SUBSET mine /\ P # {} /\ P # mine
          /\ low \in Tree!Orders(P) /\ high \in Tree!Orders(mine \ P)
          /\ Split(tris, a, N, low, high, tris')
          /\ nodes' = Append(nodes, Tree!Node(P))
          /\ calls' = <<Tree!Call(Len(nodes), a, Tree!Cardinality(P)),
                        [f EXCEPT !.below = Tree!Cardinality(P)]>> \o Tail(calls)
    <2>1. PICK bin \in [mine -> 0 .. Bins - 1], minCostBin \in 0 .. Bins - 2 :
             LeftSplit(f, a, N, mine, bin, minCostBin)
      <3>1. Tree!Top = f /\ f.start = a /\ f.count = N /\ mine = Tree!TriRange(a, N)
        BY <1>4, <1>6, <1>8
      <3>2. \E bin \in [Tree!TriRange(Tree!Top.start, Tree!Top.count) -> 0 .. Bins - 1],
               minCostBin \in 0 .. Bins - 2 :
               LeftSplit(Tree!Top, Tree!Top.start, Tree!Top.count,
                         Tree!TriRange(Tree!Top.start, Tree!Top.count), bin, minCostBin)
        BY DEF Tree!SplitLeft, LeftSplit
      <3> QED BY <3>1, <3>2
    <2>2. PICK P : P = {x \in mine : bin[x] <= minCostBin}
      OBVIOUS
    <2>3. P = {x \in mine : Tree!Belongs(bin[x], minCostBin)}
      BY <2>2 DEF Tree!Belongs
    <2>4. /\ P # {} /\ P # mine
          /\ \E low \in Tree!Orders(P), high \in Tree!Orders(mine \ P) :
                tris' = SubSeq(tris, 1, a) \o low \o high \o SubSeq(tris, a + N + 1, Len(tris))
          /\ nodes' = Append(nodes, Tree!Node(P))
          /\ calls' = <<Tree!Call(Len(nodes), a, Tree!Cardinality(P)),
                        [f EXCEPT !.below = Tree!Cardinality(P)]>> \o Tail(calls)
      BY ZenonT(30), <2>1, <2>2, <2>3 DEF LeftSplit
    <2>5. P \in SUBSET mine
      BY <2>2
    <2>6. PICK low \in Tree!Orders(P), high \in Tree!Orders(mine \ P) :
             tris' = SubSeq(tris, 1, a) \o low \o high \o SubSeq(tris, a + N + 1, Len(tris))
      BY <2>4
    <2>7. Split(tris, a, N, low, high, tris')
      BY <2>6 DEF Split
    <2>8. low \in Tree!Orders(P) /\ high \in Tree!Orders(mine \ P)
      BY <2>6
    <2> QED BY <2>4, <2>5, <2>7, <2>8
  <1>10. Ordered
    BY <1>2 DEF Typed
  <1>11. PICK n : n = Cardinality(P)
    OBVIOUS
  <1>12. Tree!Cardinality(P) = n
    BY <1>11 DEF Cardinality, Tree!Cardinality
  <1>13. n \in Nat /\ n >= 1 /\ n < N /\ mine \subseteq 1 .. Count
    BY <1>7, <1>8, <1>9, <1>10, <1>11, RangeSize
  <1>14. /\ Ordered' /\ Count' = Count /\ Tree!TriRange(a, n)' = P
         /\ \A x, y \in Nat :
              x + y <= Count /\ ((x <= a /\ a + N <= x + y) \/ x + y <= a \/ a + N <= x)
                => Tree!TriRange(x, y)' = Tree!TriRange(x, y)
    BY <1>7, <1>8, <1>9, <1>10, <1>11, Repartitioned
  <1>15. GoesLeft(s, c, a, n, n, 0)
    BY <1>3, <1>5, <1>6, <1>13 DEF GoesLeft
  <1>16. PICK nd, g, h : /\ nd = Tree!Node(P)
                         /\ g = Tree!Call(L, a, n) /\ h = [f EXCEPT !.below = n]
    OBVIOUS
  <1>17. nodes' = Append(nodes, nd) /\ calls' = <<g, h>> \o Tail(calls)
    BY <1>3, <1>9, <1>12, <1>16 DEF Size
  <1>18. nd.triCount = 0 /\ nd.bound = P /\ nd \in NodeType
    <2>1. nd = [bound |-> P, link |-> 0, triCount |-> 0]
      BY <1>16 DEF Tree!Node
    <2>2. P \in SUBSET (1 .. Count)
      BY <1>9, <1>13
    <2>3. 0 \in 0 .. U16 - 1
      BY <1>7, TreeAssumption
    <2> QED BY <2>1, <2>2, <2>3 DEF NodeType
  <1>19. NewCalls(a, n, n, 0, g, h)
    <2>1. n % U16 = n
      BY <1>7, <1>13, SmallCount, TreeAssumption
    <2>2. g = [node |-> L, start |-> a, count |-> n, below |-> 0, right |-> 0]
      BY <1>16, <2>1 DEF Tree!Call
    <2>3. /\ g \in CallType /\ g.node = L /\ g.start = a /\ g.count = n /\ g.below = 0
          /\ g.right = 0
      BY <1>7, <1>13, <2>2 DEF CallType
    <2>4. /\ h \in CallType /\ h.node = f.node /\ h.start = f.start /\ h.count = f.count
          /\ h.below = n /\ h.right = 0
      BY <1>4, <1>5, <1>13, <1>16 DEF CallType
    <2> QED BY <1>3, <1>17, <2>3, <2>4 DEF NewCalls
  <1>20. \A i \in TheNodes : Tree!TriRange(s[i], c[i])' = Tree!TriRange(s[i], c[i])
    <2> TAKE i \in TheNodes
    <2>1. i \in Nat /\ i < L /\ s[i] \in Nat /\ c[i] \in Nat
      <3>1. i \in Nat /\ i + 1 \in 1 .. Size
        BY <1>2, TreeSizes
      <3> QED BY <1>1, <1>3, <1>7, <3>1 DEF Counts
    <2>2. s[i] + c[i] <= Count
      BY <1>1 DEF Laid, NodeSound
    <2>3. (s[i] <= a /\ a + N <= s[i] + c[i]) \/ s[i] + c[i] <= a \/ a + N <= s[i]
      <3>1. CASE i = t
        <4>1. s[i] = a /\ c[i] = N
          BY <1>6, <3>1
        <4>2. s[i] <= a /\ a + N <= s[i] + c[i]
          BY <1>7, <4>1
        <4> QED BY <4>2
      <3>2. CASE i # t
        <4>1. t \in i + 1 .. Size - 1
          BY <1>3, <1>5, <1>7, <2>1, <3>2
        <4>2. Part(s, c, t, i) \/ Apart(s, c, t, i)
          BY <1>1, <4>1 DEF Laid, NodeSound
        <4> QED BY <1>6, <4>2 DEF Part, Apart
      <3> QED BY <3>1, <3>2
    <2> QED BY <1>14, <2>1, <2>2, <2>3
  <1>21. /\ calls' \in Seq(CallType)
         /\ \E s2, c2, e2, p2 : Counts(s2, c2, e2, p2) /\ Laid(s2, c2, e2, p2)'
    <2>1. nd.bound = Tree!TriRange(a, n)'
      BY <1>14, <1>18
    <2>2. nodes' = Append(nodes, nd) /\ nd.triCount = 0 /\ Count' = Count /\ t = calls[1].node
      BY <1>3, <1>14, <1>17, <1>18
    <2>3. GoesLeft(s, c, a, n, n, 0) \/ GoesRight(s, c, a, n, n, 0)
      BY <1>15
    <2>4. a \in Nat /\ n \in Nat /\ 0 \in Nat
      BY <1>7, <1>13
    <2> QED BY ONLY <1>1, <1>2, <1>19, <1>20, <2>1, <2>2, <2>3, <2>4, PushLaid
  <1>22. nodes' \in Seq(NodeType)
    BY <1>2, <1>17, <1>18, AppendProperties DEF Typed
  <1>23. NodeType' = NodeType /\ CallType' = CallType
    BY <1>14 DEF NodeType, CallType
  <1> QED BY <1>14, <1>21, <1>22, <1>23 DEF LaidOut, Typed

\* What is known of the tree that results.
Complete(s, c, e, p) ==
  /\ Counts(s, c, e, p) /\ Size \in Nat
  /\ \A i \in TheNodes :
       /\ i \in Nat /\ c[i] >= 1 /\ s[i] + c[i] <= Count
       /\ nodes[i + 1].bound = Tree!TriRange(s[i], c[i])
       /\ nodes[i + 1].triCount \in Nat /\ nodes[i + 1].link \in Nat
       /\ IF nodes[i + 1].triCount > 0 THEN LeafSound(s, c, e, i) ELSE InnerSound(s, c, e, p, i)
  /\ \A i \in 1 .. Size - 1 : nodes[p[i] + 1].triCount = 0 /\ p[i] < i /\ p[i] \in TheNodes
                              /\ i \in {p[i] + 1, nodes[p[i] + 1].link}

\* All calls have returned: all nodes are finished.
LEMMA Completed ==
  ASSUME Typed, NEW s, NEW c, NEW e, NEW p, Counts(s, c, e, p), Laid(s, c, e, p), calls = <<>>
  PROVE  Complete(s, c, e, p)
  <1>1. Size \in Nat /\ Len(calls) = 0
    BY TreeSizes
  <1>2. \A i \in TheNodes : i \in Nat /\ i < Size /\ nodes[i + 1] \in NodeType
    <2>1. \A i \in TheNodes : i \in Nat /\ i + 1 \in 1 .. Size /\ nodes[i + 1] \in NodeType
      BY TreeSizes
    <2> QED BY <1>1, <2>1
  <1>3. \A i \in TheNodes : Finished(e, i)
    <2>1. 1 .. Len(calls) = {}
      BY <1>1
    <2> QED BY <2>1 DEF Laid
  <1>4. ASSUME NEW i \in TheNodes
        PROVE  /\ c[i] >= 1 /\ s[i] + c[i] <= Count
               /\ nodes[i + 1].bound = Tree!TriRange(s[i], c[i])
               /\ nodes[i + 1].triCount \in Nat /\ nodes[i + 1].link \in Nat
               /\ IF nodes[i + 1].triCount > 0 THEN LeafSound(s, c, e, i)
                  ELSE InnerSound(s, c, e, p, i)
    <2>1. NodeSound(s, c, e, i) /\ FinishedSound(s, c, e, p, i)
      BY <1>3 DEF Laid
    <2>2. nodes[i + 1].triCount \in Nat /\ nodes[i + 1].link \in Nat
      <3>1. nodes[i + 1].triCount \in 0 .. U16 - 1 /\ nodes[i + 1].link \in Nat
        BY <1>2 DEF NodeType
      <3> QED BY <3>1, TreeAssumption
    <2> QED BY <2>1, <2>2 DEF NodeSound, FinishedSound
  <1>5. ASSUME NEW i \in 1 .. Size - 1
        PROVE  nodes[p[i] + 1].triCount = 0 /\ p[i] < i /\ p[i] \in TheNodes
               /\ i \in {p[i] + 1, nodes[p[i] + 1].link}
    <2>1. ParentSound(e, p, i)
      BY DEF Laid
    <2>2. PICK q : q = p[i]
      OBVIOUS
    <2>3. i \in Nat /\ i < Size
      BY <1>1
    <2>4. q \in Nat /\ q < i
      BY <2>1, <2>2, <2>3 DEF ParentSound, Counts
    <2>5. q \in TheNodes
      BY <1>1, <2>3, <2>4 DEF TheNodes
    <2> QED BY <1>3, <2>1, <2>2, <2>4, <2>5 DEF ParentSound
  <1> QED BY <1>1, <1>2, <1>4, <1>5 DEF Complete

\* The ranges of the children of an inner node.
LEMMA ChildRanges ==
  ASSUME Ordered, NEW a \in Nat, NEW m \in Nat, NEW n \in Nat, a + m + n <= Count
  PROVE  /\ Tree!TriRange(a, m + n) = Tree!TriRange(a, m) \cup Tree!TriRange(a + m, n)
         /\ Tree!TriRange(a, m) \cap Tree!TriRange(a + m, n) = {}
  <1>1. PICK z : z = Count
    OBVIOUS
  <1>2. z \in Nat /\ a + m + n <= z
    BY <1>1 DEF Ordered
  <1>3. \A i : i \in a + 1 .. a + (m + n) <=> i \in a + 1 .. a + m \/ i \in (a + m) + 1 .. (a + m) + n
    OBVIOUS
  <1>4. \A i \in a + 1 .. a + m, j \in (a + m) + 1 .. (a + m) + n :
          i # j /\ i \in 1 .. z /\ j \in 1 .. z
    BY <1>2
  <1>5. \A i, j \in 1 .. z : tris[i] = tris[j] => i = j
    BY <1>1 DEF Ordered
  <1>6. \A i \in a + 1 .. a + m, j \in (a + m) + 1 .. (a + m) + n : tris[i] # tris[j]
    BY <1>4, <1>5
  <1>7. /\ Tree!TriRange(a, m + n) = {tris[i] : i \in a + 1 .. a + (m + n)}
        /\ Tree!TriRange(a, m) = {tris[i] : i \in a + 1 .. a + m}
        /\ Tree!TriRange(a + m, n) = {tris[i] : i \in (a + m) + 1 .. (a + m) + n}
    BY DEF Tree!TriRange
  <1>8. Tree!TriRange(a, m + n) = Tree!TriRange(a, m) \cup Tree!TriRange(a + m, n)
    BY <1>3, <1>7
  <1>9. Tree!TriRange(a, m) \cap Tree!TriRange(a + m, n) = {}
    BY <1>6, <1>7
  <1> QED BY <1>8, <1>9

\* The bound of a node of the tree that results, and those of its children.
LEMMA Bounds ==
  ASSUME Ordered, NEW s, NEW c, NEW e, NEW p, Complete(s, c, e, p), NEW i \in TheNodes
  PROVE  LET node == nodes[i + 1] IN
         /\ node.triCount \in Nat
         /\ node.triCount > 0 => node.bound = Tree!TriRange(node.link, node.triCount)
         /\ ~(node.triCount > 0) =>
              /\ i + 1 \in TheNodes /\ node.link \in TheNodes /\ i + 1 < node.link
              /\ node.bound = nodes[(i + 1) + 1].bound \cup nodes[node.link + 1].bound
              /\ nodes[(i + 1) + 1].bound \cap nodes[node.link + 1].bound = {}
              /\ p[i + 1] = i /\ p[node.link] = i
  <1>1. PICK node, r, x : node = nodes[i + 1] /\ r = node.link /\ x = node.triCount
    OBVIOUS
  <1>2. /\ i \in Nat /\ c[i] >= 1 /\ s[i] + c[i] <= Count /\ x \in Nat
        /\ node.bound = Tree!TriRange(s[i], c[i])
        /\ x > 0 => LeafSound(s, c, e, i)
        /\ ~(x > 0) => InnerSound(s, c, e, p, i)
    BY <1>1 DEF Complete
  <1>3. x > 0 => node.bound = Tree!TriRange(r, x)
    <2> HAVE x > 0
    <2>1. x = c[i] /\ r = s[i]
      BY <1>1, <1>2 DEF LeafSound
    <2> QED BY <1>2, <2>1
  <1>4. ASSUME ~(x > 0)
        PROVE  /\ i + 1 \in TheNodes /\ r \in TheNodes /\ i + 1 < r
               /\ node.bound = nodes[(i + 1) + 1].bound \cup nodes[r + 1].bound
               /\ nodes[(i + 1) + 1].bound \cap nodes[r + 1].bound = {}
               /\ p[i + 1] = i /\ p[r] = i
    <2>1. /\ i + 1 < r /\ r < Size /\ Divided(s, c, i, i + 1, r) /\ p[i + 1] = i /\ p[r] = i
      BY <1>1, <1>2, <1>4 DEF InnerSound
    <2>2. i + 1 \in TheNodes /\ r \in TheNodes
      <3>1. r \in Nat /\ Size \in Nat
        BY <1>1 DEF Complete
      <3> QED BY <1>2, <2>1, <3>1 DEF TheNodes
    <2>3. PICK a, m, n : a = s[i] /\ m = c[i + 1] /\ n = c[r]
      OBVIOUS
    <2>4. a \in Nat /\ m \in Nat /\ n \in Nat
      <3>1. r \in Nat /\ i + 1 \in Nat
        BY <2>2, <1>2 DEF Complete
      <3> QED BY <1>2, <2>3, <3>1 DEF Complete, Counts
    <2>5. s[i + 1] = a /\ s[r] = a + m /\ c[i] = m + n
      BY <2>1, <2>3 DEF Divided
    <2>6. a + m + n <= Count
      <3>1. a + (m + n) <= Count
        BY <1>2, <2>3, <2>5
      <3> QED BY <2>4, <3>1 DEF Ordered
    <2>7. nodes[(i + 1) + 1].bound = Tree!TriRange(a, m) /\ nodes[r + 1].bound = Tree!TriRange(a + m, n)
      BY <2>2, <2>3, <2>5 DEF Complete
    <2>8. /\ Tree!TriRange(a, m + n) = Tree!TriRange(a, m) \cup Tree!TriRange(a + m, n)
          /\ Tree!TriRange(a, m) \cap Tree!TriRange(a + m, n) = {}
      BY <2>4, <2>6, ChildRanges
    <2>9. node.bound = Tree!TriRange(a, m + n)
      BY <1>2, <2>3, <2>5
    <2> QED BY <2>1, <2>2, <2>7, <2>8, <2>9
  <1> QED BY <1>1, <1>2, <1>3, <1>4

\* What Below is a fixed point of.
BelowBody(f) ==
  [i \in 0 .. Len(nodes) - 1 |->
     LET node == nodes[i + 1]
     IN  IF node.triCount > 0 THEN Tree!TriRange(node.link, node.triCount)
         ELSE f[i + 1] \cup f[node.link]]

\* What is found below a node is what its bound includes.
LEMMA BelowIsBound ==
  ASSUME Ordered, NEW s, NEW c, NEW e, NEW p, Complete(s, c, e, p)
  PROVE  \A i \in TheNodes : Tree!Below[i] = nodes[i + 1].bound
  <1>1. Tree!Below = CHOOSE f : f = BelowBody(f)
    BY DEF Tree!Below, BelowBody
  <1>2. Size \in Nat /\ TheNodes = 0 .. Len(nodes) - 1 /\ \A i \in TheNodes : i \in Nat /\ i < Size
    BY DEF Complete, TheNodes, Size
  <1>3. PICK g : g = [i \in TheNodes |-> nodes[i + 1].bound]
    OBVIOUS
  <1>4. g = BelowBody(g)
    <2>1. ASSUME NEW i \in TheNodes
          PROVE  g[i] = LET node == nodes[i + 1]
                        IN  IF node.triCount > 0 THEN Tree!TriRange(node.link, node.triCount)
                            ELSE g[i + 1] \cup g[node.link]
      BY <1>3, Bounds
    <2>2. g = [i \in TheNodes |-> g[i]]
      BY <1>3
    <2> QED BY <1>2, <2>1, <2>2 DEF BelowBody
  <1>5. Tree!Below = BelowBody(Tree!Below)
    BY <1>1, <1>4
  <1>6. PICK f : f = Tree!Below
    OBVIOUS
  <1>7. \A i \in TheNodes :
          f[i] = LET node == nodes[i + 1]
                 IN  IF node.triCount > 0 THEN Tree!TriRange(node.link, node.triCount)
                     ELSE f[i + 1] \cup f[node.link]
    BY <1>2, <1>5, <1>6 DEF BelowBody
  <1>8. SUFFICES ASSUME NEW w \in TheNodes, f[w] # nodes[w + 1].bound PROVE FALSE
    BY <1>6
  <1>9. PICK L : L = Size
    OBVIOUS
  <1>10. PICK Wrong : Wrong = {n \in Nat : \E i \in TheNodes : n = L - i /\ f[i] # nodes[i + 1].bound}
    OBVIOUS
  <1>11. Wrong \subseteq Nat /\ Wrong # {}
    <2>1. L - w \in Nat
      BY <1>2, <1>8, <1>9
    <2> QED BY <1>8, <1>10, <2>1
  <1>12. PICK n \in Wrong : \A m \in Wrong : n <= m
    BY <1>11, Least
  <1>13. PICK i \in TheNodes : n = L - i /\ f[i] # nodes[i + 1].bound
    BY <1>10
  <1>14. \A j \in TheNodes : j > i => f[j] = nodes[j + 1].bound
    <2> TAKE j \in TheNodes
    <2> HAVE j > i
    <2>1. L - j \in Nat /\ ~(L - i <= L - j)
      BY <1>2, <1>9
    <2>2. L - j \notin Wrong
      BY <1>12, <1>13, <2>1
    <2> QED BY <1>10, <2>1, <2>2
  <1>15. PICK node, r, x : node = nodes[i + 1] /\ r = node.link /\ x = node.triCount
    OBVIOUS
  <1>16. /\ x > 0 => node.bound = Tree!TriRange(r, x)
         /\ ~(x > 0) => /\ i + 1 \in TheNodes /\ r \in TheNodes /\ i + 1 < r
                        /\ node.bound = nodes[(i + 1) + 1].bound \cup nodes[r + 1].bound
    BY <1>15, Bounds
  <1>17. f[i] = IF x > 0 THEN Tree!TriRange(r, x) ELSE f[i + 1] \cup f[r]
    BY <1>7, <1>15
  <1>18. CASE x > 0
    BY <1>13, <1>15, <1>16, <1>17, <1>18
  <1>19. CASE ~(x > 0)
    <2>1. i + 1 > i /\ (r \in TheNodes => r > i)
      BY <1>2, <1>16, <1>19
    <2>2. f[i + 1] = nodes[(i + 1) + 1].bound /\ f[r] = nodes[r + 1].bound
      BY <1>14, <1>16, <1>19, <2>1
    <2> QED BY <1>13, <1>15, <1>16, <1>17, <1>19, <2>2
  <1> QED BY <1>18, <1>19

\* The nodes fit in what was reserved.
LEMMA Fits ==
  ASSUME Typed, NEW s, NEW c, NEW e, NEW p, Counts(s, c, e, p), Laid(s, c, e, p)
  PROVE  Size <= 2 * Count - 1
  <1>1. PICK L, m : L = Size /\ m = Count
    OBVIOUS
  <1>2. L \in Nat /\ m \in Nat /\ L >= 1 /\ c[0] = m
    BY <1>1, TreeSizes DEF Laid
  <1>3. \A i \in TheNodes : i \in Nat /\ c[i] \in Nat /\ c[i] >= 1 /\ i + 2 * c[i] <= 2 * m
    <2> TAKE i \in TheNodes
    <2>1. i \in Nat
      BY TreeSizes
    <2>2. NodeSound(s, c, e, i)
      BY DEF Laid
    <2> QED BY <1>1, <2>1, <2>2 DEF NodeSound, Counts
  <1>4. \A i \in TheNodes : e[i] = L => L < i + 2 * c[i]
    <2> TAKE i \in TheNodes
    <2> HAVE e[i] = L
    <2>1. FinishedSound(s, c, e, p, i)
      BY <1>2 DEF Laid, Finished
    <2> QED BY <2>1 DEF FinishedSound
  <1>5. \A i \in TheNodes : e[i] = L => L < 2 * m
    <2> TAKE i \in TheNodes
    <2> HAVE e[i] = L
    <2>1. PICK x : x = c[i]
      OBVIOUS
    <2>2. x \in Nat /\ i \in Nat /\ L < i + 2 * x /\ i + 2 * x <= 2 * m
      BY <1>3, <1>4, <2>1
    <2> QED BY <1>2, <2>2
  <1>6. L < 2 * m
    <2>1. CASE calls = <<>>
      <3>1. e[0] = L
        BY <1>1, <2>1 DEF Laid
      <3>2. 0 \in TheNodes
        BY <1>1, <1>2 DEF TheNodes
      <3> QED BY <1>5, <3>1, <3>2
    <2>2. CASE calls # <<>>
      <3>1. PICK f, t : f = calls[1] /\ t = f.node
        OBVIOUS
      <3>2. /\ t \in TheNodes /\ f \in CallType
            /\ f.below = 0 => t + 1 = L
            /\ f.below # 0 => /\ t + 1 \in TheNodes /\ c[t + 1] = f.below /\ f.below < c[t]
                              /\ (f.right = 0 => e[t + 1] = L)
            /\ f.right # 0 => f.right \in TheNodes /\ e[f.right] = L
        BY <1>1, <2>2, <3>1, TopCall
      <3>3. CASE f.below = 0
        <4>1. PICK x : x = c[t]
          OBVIOUS
        <4>2. t \in Nat /\ x \in Nat /\ x >= 1 /\ t + 2 * x <= 2 * m /\ t + 1 = L
          BY <1>3, <3>2, <3>3, <4>1
        <4> QED BY <1>2, <4>2
      <3>4. CASE f.below # 0 /\ f.right = 0
        BY <1>5, <3>2, <3>4
      <3>5. CASE f.right # 0
        BY <1>5, <3>2, <3>5
      <3> QED BY <3>3, <3>4, <3>5
    <2> QED BY <2>1, <2>2
  <1>7. L <= 2 * m - 1
    BY <1>2, <1>6
  <1> QED BY <1>1, <1>7

\* The tree that results is the one that TreeSound asks for.
LEMMA TreeIsSound ==
  ASSUME LaidOut
  PROVE  Tree!TreeSound
  <1>1. PICK s, c, e, p : Counts(s, c, e, p) /\ Laid(s, c, e, p)
    BY DEF LaidOut
  <1>2. Typed /\ Ordered
    BY DEF LaidOut, Typed
  <1>3. Len(nodes) <= 2 * Len(tris) - 1
    BY <1>1, <1>2, Fits DEF Size, Count
  <1>4. ASSUME calls = <<>>
        PROVE  LET N == 0 .. Len(nodes) - 1
                   Inner == {i \in N : nodes[i + 1].triCount = 0}
                   right(i) == nodes[i + 1].link
               IN  /\ \A i \in Inner : i + 1 < right(i) /\ right(i) \in N
                   /\ \A i \in N \ {0} :
                        Tree!Cardinality({j \in Inner : i \in {j + 1, right(j)}}) = 1
                   /\ Tree!Below[0] = 1 .. Len(tris)
                   /\ \A i \in N : Tree!Below[i] \subseteq nodes[i + 1].bound
                   /\ \A i \in Inner : Tree!Below[i + 1] \cap Tree!Below[right(i)] = {}
    <2>1. Complete(s, c, e, p)
      BY <1>1, <1>2, <1>4, Completed
    <2>2. /\ TheNodes = 0 .. Len(nodes) - 1 /\ Size \in Nat /\ Size >= 1
          /\ \A i \in TheNodes : i \in Nat /\ i < Size
      BY <1>1, <2>1 DEF TheNodes, Size, Complete, Laid
    <2>3. \A i \in TheNodes : Tree!Below[i] = nodes[i + 1].bound
      BY <1>2, <2>1, BelowIsBound
    <2> DEFINE Inner == {i \in TheNodes : nodes[i + 1].triCount = 0}
    <2>4. \A i \in Inner :
            /\ i + 1 \in TheNodes /\ nodes[i + 1].link \in TheNodes /\ i + 1 < nodes[i + 1].link
            /\ nodes[(i + 1) + 1].bound \cap nodes[nodes[i + 1].link + 1].bound = {}
            /\ p[i + 1] = i /\ p[nodes[i + 1].link] = i
      <3> TAKE i \in Inner
      <3>1. i \in TheNodes /\ ~(nodes[i + 1].triCount > 0)
        OBVIOUS
      <3> QED BY <1>2, <2>1, <3>1, Bounds
    <2>5. ASSUME NEW i \in TheNodes \ {0}
          PROVE  Tree!Cardinality({j \in Inner : i \in {j + 1, nodes[j + 1].link}}) = 1
      <3>1. i \in 1 .. Size - 1
        <4>0. i \in TheNodes /\ i # 0
          OBVIOUS
        <4>1. i \in Nat /\ i < Size /\ i # 0 /\ Size \in Nat
          BY <2>2, <4>0
        <4> QED BY <4>1
      <3>2. p[i] \in Inner /\ i \in {p[i] + 1, nodes[p[i] + 1].link}
        BY <2>1, <3>1 DEF Complete
      <3>3. \A j \in Inner : i \in {j + 1, nodes[j + 1].link} => j = p[i]
        BY <2>4
      <3>4. {j \in Inner : i \in {j + 1, nodes[j + 1].link}} = {p[i]}
        BY <3>2, <3>3
      <3>5. Cardinality({p[i]}) = 1
        BY FS_Singleton
      <3>6. Tree!Cardinality({p[i]}) = Cardinality({p[i]})
        BY DEF Cardinality, Tree!Cardinality
      <3> QED BY <3>4, <3>5, <3>6
    <2>6. Tree!Below[0] = 1 .. Len(tris)
      <3>1. 0 \in TheNodes
        BY <2>2 DEF TheNodes
      <3>2. Tree!Below[0] = Tree!TriRange(s[0], c[0]) /\ s[0] = 0 /\ c[0] = Count
        BY <1>1, <2>1, <2>3, <3>1 DEF Complete, Laid
      <3>3. Tree!TriRange(0, Count) = 1 .. Count
        <4>1. 0 + 1 .. 0 + Count = 1 .. Count
          BY <1>2 DEF Ordered
        <4>2. Tree!TriRange(0, Count) = {tris[i] : i \in 1 .. Count}
          BY <4>1 DEF Tree!TriRange
        <4>3. PICK m : m = Count
          OBVIOUS
        <4>4. /\ \A i \in 1 .. m : tris[i] \in 1 .. m
              /\ \A x \in 1 .. m : \E i \in 1 .. m : tris[i] = x
          BY <1>2, <4>3 DEF Ordered
        <4>5. {tris[i] : i \in 1 .. m} = 1 .. m
          BY ONLY <4>4
        <4> QED BY <4>2, <4>3, <4>5
      <3> QED BY <3>2, <3>3 DEF Count
    <2>7. \A i \in TheNodes : Tree!Below[i] \subseteq nodes[i + 1].bound
      BY <2>3
    <2>8. \A i \in Inner : Tree!Below[i + 1] \cap Tree!Below[nodes[i + 1].link] = {}
      BY <2>3, <2>4
    <2>9. \A i \in Inner : i + 1 < nodes[i + 1].link /\ nodes[i + 1].link \in TheNodes
      BY <2>4
    <2> QED BY <2>2, <2>5, <2>6, <2>7, <2>8, <2>9
  <1> QED BY <1>3, <1>4 DEF Tree!TreeSound

\* A ray that is given to the tree that results.
LEMMA ShootKeeps ==
  ASSUME LaidOut, Searched, NEW hits \in SUBSET (1 .. Len(tris)), Tree!Shoot(hits)
  PROVE  Searched'
  <1>1. PICK s, c, e, p : Counts(s, c, e, p) /\ Laid(s, c, e, p)
    BY DEF LaidOut
  <1>2. Ordered
    BY DEF LaidOut, Typed
  <1>3. /\ calls = <<>> /\ dfs = <<>> /\ answer = "none"
        /\ ray' = hits /\ dfs' = <<0>>
        /\ nodes' = nodes /\ tris' = tris /\ calls' = calls /\ answer' = answer
    BY DEF Tree!Shoot
  <1>4. 0 \in TheNodes /\ nodes[0 + 1].bound = Tree!TriRange(0, Count)
    <2>1. Size \in Nat /\ Size >= 1
      BY <1>1, TreeSizes DEF LaidOut, Laid
    <2>2. 0 \in TheNodes
      BY <2>1 DEF TheNodes
    <2> QED BY <1>1, <2>2 DEF Laid, NodeSound
  <1>5. Tree!TriRange(0, Count) = 1 .. Count
    <2>1. PICK m : m = Count
      OBVIOUS
    <2>2. m \in Nat /\ 0 + 1 .. 0 + m = 1 .. m
      BY <1>2, <2>1 DEF Ordered
    <2>3. /\ \A i \in 1 .. m : tris[i] \in 1 .. m
          /\ \A x \in 1 .. m : \E i \in 1 .. m : tris[i] = x
      BY <1>2, <2>1 DEF Ordered
    <2>4. {tris[i] : i \in 1 .. m} = 1 .. m
      BY ONLY <2>3
    <2> QED BY <2>1, <2>2, <2>4 DEF Tree!TriRange
  <1>6. TheNodes' = TheNodes /\ Count' = Count
    BY <1>3 DEF TheNodes, Size, Count
  <1>7. dfs' \in Seq(TheNodes) /\ Len(dfs') = 1 /\ dfs'[1] = 0
    BY <1>3, <1>4
  <1>8. \A x \in ray' : \E k \in 1 .. Len(dfs') : x \in nodes'[dfs'[k] + 1].bound
    <2> TAKE x \in ray'
    <2>1. x \in nodes'[dfs'[1] + 1].bound
      BY <1>3, <1>4, <1>5, <1>7 DEF Count
    <2>2. 1 \in 1 .. Len(dfs')
      BY <1>7
    <2> QED BY <2>1, <2>2
  <1>9. ray' \subseteq 1 .. Count
    BY <1>3 DEF Count
  <1> QED BY <1>3, <1>6, <1>7, <1>8, <1>9 DEF Searched

\* A node is taken from the stack: its children that the ray hits take its place, or its
\* triangles are tested.
LEMMA VisitKeeps ==
  ASSUME LaidOut, Searched, Tree!Visit
  PROVE  Searched'
  <1>1. PICK s, c, e, p : Counts(s, c, e, p) /\ Laid(s, c, e, p)
    BY DEF LaidOut
  <1>2. Typed /\ Ordered
    BY DEF LaidOut, Typed
  <1>3. dfs # <<>> /\ nodes' = nodes /\ tris' = tris /\ calls' = calls /\ ray' = ray
    BY DEF Tree!Visit
  <1>4. calls = <<>> /\ answer = "none" /\ dfs \in Seq(TheNodes)
    BY <1>3 DEF Searched
  <1>5. Complete(s, c, e, p)
    BY <1>1, <1>2, <1>4, Completed
  <1>6. PICK i, node, rest : i = dfs[1] /\ node = nodes[i + 1] /\ rest = Tail(dfs)
    OBVIOUS
  <1>7. /\ i \in TheNodes /\ Head(dfs) = i /\ rest \in Seq(TheNodes)
        /\ Len(dfs) \in Nat \ {0} /\ Len(rest) = Len(dfs) - 1
        /\ \A k \in 1 .. Len(dfs) - 1 : rest[k] = dfs[k + 1]
    BY <1>3, <1>4, <1>6, HeadTailProperties, FirstAndLast, ElementOfSeq
  <1>8. PICK hit : hit = (Tree!TriRange(node.link, node.triCount) \cap ray # {})
    OBVIOUS
  <1>9. /\ \/ node.bound \cap ray = {} /\ dfs' = rest
           \/ node.triCount > 0 /\ dfs' = IF hit THEN <<>> ELSE rest
           \/ node.triCount = 0 /\ dfs' = Tree!Children(i) \o rest
        /\ answer' = IF hit /\ node.triCount > 0 /\ dfs' = <<>> THEN "hit"
                     ELSE IF dfs' = <<>> THEN "miss" ELSE answer
    <2>1. i = Head(dfs) /\ node = nodes[Head(dfs) + 1] /\ rest = Tail(dfs)
      BY <1>6, <1>7
    <2> QED BY <1>8, <2>1, Zenon DEF Tree!Visit
  <1>10. /\ node.triCount \in Nat
         /\ node.triCount > 0 => node.bound = Tree!TriRange(node.link, node.triCount)
         /\ ~(node.triCount > 0) =>
              /\ i + 1 \in TheNodes /\ node.link \in TheNodes
              /\ node.bound = nodes[(i + 1) + 1].bound \cup nodes[node.link + 1].bound
    BY <1>2, <1>5, <1>6, <1>7, Bounds
  <1>11. TheNodes' = TheNodes /\ Count' = Count
    BY <1>3 DEF TheNodes, Size, Count
  <1>12. /\ ray' \subseteq 1 .. Count
         /\ \A x \in ray : \E k \in 1 .. Len(dfs) : x \in nodes[dfs[k] + 1].bound
    BY <1>3 DEF Searched
  \* What is left when the ray hits nothing in the node.
  <1>13. \A x \in ray : x \in node.bound \/ \E k \in 1 .. Len(rest) : x \in nodes[rest[k] + 1].bound
    <2> TAKE x \in ray
    <2>1. PICK k \in 1 .. Len(dfs) : x \in nodes[dfs[k] + 1].bound
      BY <1>12
    <2>2. CASE k = 1
      BY <1>6, <2>1, <2>2
    <2>3. CASE k # 1
      <3>1. PICK j : j = k - 1
        OBVIOUS
      <3>2. j \in 1 .. Len(rest) /\ j \in 1 .. Len(dfs) - 1 /\ k = j + 1
        BY <1>7, <2>3, <3>1
      <3> QED BY <1>7, <2>1, <3>2
    <2> QED BY <2>2, <2>3
  <1>14. ASSUME node.bound \cap ray = {}, dfs' = rest,
                answer' = IF dfs' = <<>> THEN "miss" ELSE answer
         PROVE  Searched'
    <2>1. \A x \in ray : \E k \in 1 .. Len(rest) : x \in nodes[rest[k] + 1].bound
      BY <1>13, <1>14
    <2>2. dfs' = <<>> => ray = {}
      <3> HAVE dfs' = <<>>
      <3>1. 1 .. Len(rest) = {}
        BY <1>14
      <3> QED BY <2>1, <3>1
    <2>3. answer' = IF dfs' = <<>> THEN "miss" ELSE "none"
      BY <1>4, <1>14
    <2> QED BY <1>3, <1>4, <1>7, <1>11, <1>12, <1>14, <2>1, <2>2, <2>3 DEF Searched
  <1>15. CASE node.triCount > 0
    <2>1. hit = (node.bound \cap ray # {})
      BY <1>8, <1>10, <1>15
    <2>2. CASE hit /\ dfs' = <<>>
      <3>1. answer' = "hit" /\ ray # {}
        BY <1>9, <1>15, <2>1, <2>2
      <3>2. dfs' \in Seq(TheNodes)
        BY <2>2
      <3> QED BY <1>3, <1>4, <1>11, <1>12, <2>2, <3>1, <3>2 DEF Searched
    <2>3. CASE ~(hit /\ dfs' = <<>>)
      <3>1. node.bound \cap ray = {} /\ dfs' = rest
        <4>1. ~(node.triCount = 0)
          BY <1>15
        <4>2. CASE hit
          <5>1. ~(dfs' = IF hit THEN <<>> ELSE rest)
            BY <2>3, <4>2
          <5> QED BY <1>9, <4>1, <5>1
        <4>3. CASE ~hit
          <5>1. node.bound \cap ray = {}
            BY <2>1, <4>3
          <5> QED BY <1>9, <4>1, <4>3, <5>1
        <4> QED BY <4>2, <4>3
      <3>2. answer' = IF dfs' = <<>> THEN "miss" ELSE answer
        BY <1>9, <2>3
      <3> QED BY <1>14, <3>1, <3>2
    <2> QED BY <2>2, <2>3
  <1>16. CASE ~(node.triCount > 0)
    <2>1. answer' = IF dfs' = <<>> THEN "miss" ELSE answer
      BY <1>9, <1>16
    <2>2. CASE node.bound \cap ray = {} /\ dfs' = rest
      BY <1>14, <2>1, <2>2
    <2>3. CASE dfs' = Tree!Children(i) \o rest
      <3>1. PICK r : r = node.link
        OBVIOUS
      <3>2. dfs' = <<r, i + 1>> \o rest /\ r \in TheNodes /\ i + 1 \in TheNodes
        BY <1>6, <1>10, <1>16, <2>3, <3>1 DEF Tree!Children
      <3>3. /\ dfs' \in Seq(TheNodes) /\ Len(dfs') = Len(dfs) + 1
            /\ dfs'[1] = r /\ dfs'[2] = i + 1
            /\ \A k \in 3 .. Len(dfs) + 1 : dfs'[k] = dfs[k - 1]
        <4>1. LET q == <<r, i + 1>> \o Tail(dfs) IN
              /\ q \in Seq(TheNodes) /\ Len(q) = Len(dfs) + 1 /\ q[1] = r /\ q[2] = i + 1
              /\ \A k \in 3 .. Len(dfs) + 1 : q[k] = dfs[k - 1]
          BY <1>3, <1>4, <3>2, Pushed
        <4> QED BY <1>6, <3>2, <4>1
      <3>4. dfs' # <<>>
        BY <1>7, <3>3
      <3>5. \A x \in ray : \E k \in 1 .. Len(dfs') : x \in nodes[dfs'[k] + 1].bound
        <4> TAKE x \in ray
        <4>1. PICK k \in 1 .. Len(dfs) : x \in nodes[dfs[k] + 1].bound
          BY <1>12
        <4>2. CASE k = 1
          <5>1. x \in nodes[(i + 1) + 1].bound \/ x \in nodes[r + 1].bound
            BY <1>6, <1>10, <1>16, <3>1, <4>1, <4>2
          <5>2. 1 \in 1 .. Len(dfs') /\ 2 \in 1 .. Len(dfs')
            BY <1>7, <3>3
          <5> QED BY <3>3, <5>1, <5>2
        <4>3. CASE k # 1
          <5>1. PICK j : j = k + 1
            OBVIOUS
          <5>2. j \in 3 .. Len(dfs) + 1 /\ j \in 1 .. Len(dfs') /\ j - 1 = k
            BY <1>7, <3>3, <4>3, <5>1
          <5> QED BY <3>3, <4>1, <5>2
        <4> QED BY <4>2, <4>3
      <3> QED BY <1>3, <1>4, <1>11, <1>12, <2>1, <3>3, <3>4, <3>5 DEF Searched
    <2> QED BY <1>9, <1>16, <2>2, <2>3
  <1> QED BY <1>15, <1>16

\* No ray is searched for while the tree is built.
LEMMA SearchWaits ==
  ASSUME Searched, calls # <<>>, Count' = Count, UNCHANGED <<ray, dfs, answer>>
  PROVE  Searched'
  <1>1. dfs = <<>> /\ answer = "none" /\ ray \subseteq 1 .. Count
    BY DEF Searched
  <1>2. dfs' \in Seq(TheNodes')
    BY <1>1
  <1> QED BY <1>1, <1>2 DEF Searched

\* Every step.
LEMMA TreeInductive ==
  ASSUME LaidOut, Searched, [Tree!Next]_(Tree!vars)
  PROVE  LaidOut' /\ Searched'
  <1>1. CASE Tree!Leaf
    <2>1. calls # <<>> /\ UNCHANGED <<ray, dfs, answer>>
      BY <1>1 DEF Tree!Leaf, Tree!Entered
    <2> QED BY <1>1, <2>1, LeafKeeps, SearchWaits
  <1>2. CASE Tree!Pair
    <2>1. calls # <<>> /\ UNCHANGED <<ray, dfs, answer>>
      BY <1>2 DEF Tree!Pair, Tree!Entered
    <2> QED BY <1>2, <2>1, PairKeeps, SearchWaits
  <1>3. CASE Tree!SplitLeft
    <2>1. calls # <<>> /\ UNCHANGED <<ray, dfs, answer>>
      BY <1>3 DEF Tree!SplitLeft, Tree!Entered
    <2> QED BY <1>3, <2>1, SplitLeftKeeps, SearchWaits
  <1>4. CASE Tree!SplitRight
    <2>1. calls # <<>> /\ UNCHANGED <<ray, dfs, answer>>
      BY <1>4 DEF Tree!SplitRight
    <2> QED BY <1>4, <2>1, SplitRightKeeps, SearchWaits
  <1>5. CASE Tree!SplitReturn
    <2>1. calls # <<>> /\ UNCHANGED <<ray, dfs, answer>>
      BY <1>5 DEF Tree!SplitReturn
    <2> QED BY <1>5, <2>1, SplitReturnKeeps, SearchWaits
  <1>6. ASSUME NEW hits \in SUBSET (1 .. Len(tris)), Tree!Shoot(hits) PROVE LaidOut' /\ Searched'
    BY <1>6, ShootKeeps, TreeStays DEF Tree!Shoot
  <1>7. CASE Tree!Visit
    BY <1>7, VisitKeeps, TreeStays DEF Tree!Visit
  <1>8. CASE Tree!Done \/ UNCHANGED Tree!vars
    <2>1. UNCHANGED <<nodes, tris, calls, ray, dfs, answer>>
      BY <1>8 DEF Tree!Done, Tree!vars
    <2>2. Searched'
      BY <2>1 DEF Searched, TheNodes, Size, Count
    <2> QED BY <2>1, <2>2, TreeStays
  <1> QED BY <1>1, <1>2, <1>3, <1>4, <1>5, <1>6, <1>7, <1>8 DEF Tree!Next

\* What the invariant says of types and of answers.
LEMMA TreeTyped ==
  ASSUME LaidOut, Searched
  PROVE  Tree!TypeOK
  <1>1. Ordered /\ nodes \in Seq(NodeType)
    BY DEF LaidOut, Typed
  <1>2. Tree!Range(tris) = 1 .. Len(tris)
    <2>1. PICK m : m = Count
      OBVIOUS
    <2>2. /\ \A i \in 1 .. m : tris[i] \in 1 .. m
          /\ \A x \in 1 .. m : \E i \in 1 .. m : tris[i] = x
      BY <1>1, <2>1 DEF Ordered
    <2>3. {tris[i] : i \in 1 .. m} = 1 .. m
      BY ONLY <2>2
    <2>4. DOMAIN tris = 1 .. m
      BY <1>1, <2>1, LenProperties DEF Ordered, Count
    <2> QED BY <2>1, <2>3, <2>4 DEF Tree!Range, Count
  <1>3. \A i \in 1 .. Len(nodes) :
          /\ nodes[i].bound \subseteq 1 .. Len(tris)
          /\ nodes[i].link \in Nat /\ nodes[i].triCount \in 0 .. U16 - 1
    <2> TAKE i \in 1 .. Len(nodes)
    <2>1. nodes[i] \in NodeType
      BY <1>1, ElementOfSeq
    <2> QED BY <2>1 DEF NodeType, Count
  <1>4. Tree!Range(dfs) \subseteq 0 .. Len(nodes) - 1
    <2>1. dfs \in Seq(TheNodes)
      BY DEF Searched
    <2>2. DOMAIN dfs = 1 .. Len(dfs) /\ \A k \in 1 .. Len(dfs) : dfs[k] \in TheNodes
      BY <2>1, LenProperties, ElementOfSeq
    <2> QED BY <2>2 DEF Tree!Range, TheNodes, Size
  <1> QED BY <1>2, <1>3, <1>4 DEF Tree!TypeOK, Searched, Count

LEMMA SearchExact ==
  ASSUME Searched
  PROVE  Tree!IntersectExact
BY DEF Searched, Tree!IntersectExact

\* The hierarchy that buildPart leaves has every triangle in one leaf, below bounds that
\* include it, its nodes fit in what was reserved, and intersect finds a hit exactly if
\* the ray hits a triangle: for any number of triangles that their count can tell, any
\* number of bins, any partition that the bins choose, and any ray.
THEOREM TreesHold == Tree!Spec => []TreeSound
  <1>1. Tree!Init => BvhInv
    BY TreeStarts DEF BvhInv
  <1>2. BvhInv /\ [Tree!Next]_(Tree!vars) => BvhInv'
    BY TreeInductive DEF BvhInv
  <1>3. BvhInv => TreeSound
    BY TreeIsSound, TreeTyped, SearchExact DEF BvhInv, TreeSound
  <1> QED BY <1>1, <1>2, <1>3, PTL DEF Tree!Spec

-----------------------------------------------------------------------------
(* The import: the entities es that were collected from the nodes with the *)
(* children ch and the meshes mesh, by the calls q, of which those in lost *)
(* wrote to memory that es had left.                                       *)

EntityType(ch) == [transform : DOMAIN ch, meshIndex : MeshIndices, children : Seq(Nat)]
FrameType(ch) == [index : Nat, entity : Nat, node : DOMAIN ch, child : Nat]

\* The first n children of the k-th entity are those of its node.
KeptFirst(ch, es, k, n) ==
  /\ Len(es[k].children) = n
  /\ \A j \in 1 .. n : es[es[k].children[j] + 1].transform = ch[es[k].transform][j]

\* A call has an entity, and its child is the one that the next call was made for.
FrameSound(ch, es, q, d) ==
  LET f == q[d] IN
  /\ f.index < Len(es) /\ es[f.index + 1].transform = f.node
  /\ f.child <= Len(ch[f.node])
  /\ d < Len(q) => f.child < Len(ch[f.node]) /\ q[d + 1].node = ch[f.node][f.child + 1]

FramesSound(ch, es, q) ==
  /\ \A d \in 1 .. Len(q) : FrameSound(ch, es, q, d)
  /\ \A c, d \in 1 .. Len(q) : c < d => q[c].index < q[d].index

\* What an entity has as a child comes behind it and is one of its node.
ChildSound(ch, es, k, c) ==
  /\ c < Len(es) /\ k <= c
  /\ \E m \in 1 .. Len(ch[es[k].transform]) : es[c + 1].transform = ch[es[k].transform][m]

ChildrenSound(ch, es) ==
  \A k \in 1 .. Len(es) : \A j \in 1 .. Len(es[k].children) :
    ChildSound(ch, es, k, es[k].children[j])

OneParent(es) ==
  \A k, l \in 1 .. Len(es) : \A i \in 1 .. Len(es[k].children), j \in 1 .. Len(es[l].children) :
    es[k].children[i] = es[l].children[j] => k = l

\* Nobody has the entity of a call yet.
NoParent(es, q) ==
  \A d \in 1 .. Len(q) : \A k \in 1 .. Len(es) : \A j \in 1 .. Len(es[k].children) :
    es[k].children[j] # q[d].index

FramesKept(ch, es, q, lost) ==
  \A d \in 1 .. Len(q) : q[d].index \notin lost => KeptFirst(ch, es, q[d].index + 1, q[d].child)

Collected(ch, es, q, lost) ==
  \A k \in 1 .. Len(es) :
    k - 1 \notin lost /\ (\A d \in 1 .. Len(q) : q[d].index # k - 1)
      => KeptFirst(ch, es, k, Len(ch[es[k].transform]))

MeshKnown(mesh, es) ==
  \A k \in 1 .. Len(es) : mesh[es[k].transform] # -1 => es[k].meshIndex = mesh[es[k].transform]

TreesSound(ch, mesh, es, q, lost) ==
  /\ ChildrenSound(ch, es) /\ OneParent(es) /\ NoParent(es, q)
  /\ FramesKept(ch, es, q, lost) /\ Collected(ch, es, q, lost) /\ MeshKnown(mesh, es)

TypedTrees(ch, es, q, lost) ==
  /\ ch \in [DOMAIN ch -> Seq(DOMAIN ch)]
  /\ es \in Seq(EntityType(ch)) /\ q \in Seq(FrameType(ch)) /\ lost \subseteq 0 .. Len(es) - 1

\* What the types say of elements.
LEMMA EntityTypes ==
  ASSUME NEW ch, NEW es, NEW q, NEW lost, TypedTrees(ch, es, q, lost)
  PROVE  /\ Len(es) \in Nat /\ Len(q) \in Nat
         /\ \A n \in DOMAIN ch : Len(ch[n]) \in Nat /\ \A j \in 1 .. Len(ch[n]) : ch[n][j] \in DOMAIN ch
         /\ \A k \in 1 .. Len(es) : /\ es[k].transform \in DOMAIN ch /\ es[k].meshIndex \in MeshIndices
                                    /\ es[k].children \in Seq(Nat) /\ Len(es[k].children) \in Nat
                                    /\ \A j \in 1 .. Len(es[k].children) : es[k].children[j] \in Nat
         /\ \A d \in 1 .. Len(q) : /\ q[d].index \in Nat /\ q[d].entity \in Nat /\ q[d].child \in Nat
                                   /\ q[d].node \in DOMAIN ch
  <1>1. Len(es) \in Nat /\ Len(q) \in Nat
    BY LenProperties DEF TypedTrees
  <1>2. \A n \in DOMAIN ch : Len(ch[n]) \in Nat /\ \A j \in 1 .. Len(ch[n]) : ch[n][j] \in DOMAIN ch
    <2> TAKE n \in DOMAIN ch
    <2>1. ch[n] \in Seq(DOMAIN ch)
      BY DEF TypedTrees
    <2> QED BY <2>1, LenProperties, ElementOfSeq
  <1>3. \A k \in 1 .. Len(es) : /\ es[k].transform \in DOMAIN ch /\ es[k].meshIndex \in MeshIndices
                                /\ es[k].children \in Seq(Nat) /\ Len(es[k].children) \in Nat
                                /\ \A j \in 1 .. Len(es[k].children) : es[k].children[j] \in Nat
    <2> TAKE k \in 1 .. Len(es)
    <2>1. es[k] \in EntityType(ch)
      BY ElementOfSeq DEF TypedTrees
    <2>2. /\ es[k].transform \in DOMAIN ch /\ es[k].meshIndex \in MeshIndices
          /\ es[k].children \in Seq(Nat)
      BY <2>1 DEF EntityType
    <2> QED BY <2>2, LenProperties, ElementOfSeq
  <1>4. \A d \in 1 .. Len(q) : /\ q[d].index \in Nat /\ q[d].entity \in Nat /\ q[d].child \in Nat
                               /\ q[d].node \in DOMAIN ch
    <2> TAKE d \in 1 .. Len(q)
    <2>1. q[d] \in FrameType(ch)
      BY ElementOfSeq DEF TypedTrees
    <2> QED BY <2>1 DEF FrameType
  <1> QED BY <1>1, <1>2, <1>3, <1>4

\* collectEntityTree pushes an entity for the node n and a frame for the call.
CallPushed(es, q, n, x, f, es2, q2) ==
  /\ es2 = Append(es, x) /\ q2 = Append(q, f)
  /\ x.transform = n /\ x.children = <<>>
  /\ f.index = Len(es) /\ f.node = n /\ f.child = 0

\* The innermost call was made for n, if there is one.
CalledFor(ch, q, n) ==
  q # <<>> =>
    /\ q[Len(q)].child < Len(ch[q[Len(q)].node])
    /\ n = ch[q[Len(q)].node][q[Len(q)].child + 1]

LEMMA PushFrames ==
  ASSUME NEW ch, NEW es, NEW q, NEW lost, TypedTrees(ch, es, q, lost), FramesSound(ch, es, q),
         NEW n \in DOMAIN ch, NEW x \in EntityType(ch), NEW f \in FrameType(ch),
         NEW es2, NEW q2, CallPushed(es, q, n, x, f, es2, q2), CalledFor(ch, q, n)
  PROVE  /\ TypedTrees(ch, es2, q2, lost) /\ FramesSound(ch, es2, q2)
         /\ Len(es2) = Len(es) + 1 /\ Len(q2) = Len(q) + 1
         /\ \A k \in 1 .. Len(es) : es2[k] = es[k]
         /\ \A d \in 1 .. Len(q) : q2[d] = q[d]
         /\ es2[Len(es) + 1] = x /\ q2[Len(q) + 1] = f
  <1>1. PICK N, D : N = Len(es) /\ D = Len(q)
    OBVIOUS
  <1>2. /\ es2 \in Seq(EntityType(ch)) /\ Len(es2) = N + 1 /\ es2[N + 1] = x
        /\ \A k \in 1 .. N : es2[k] = es[k]
    BY <1>1, AppendProperties DEF TypedTrees, CallPushed
  <1>3. /\ q2 \in Seq(FrameType(ch)) /\ Len(q2) = D + 1 /\ q2[D + 1] = f
        /\ \A d \in 1 .. D : q2[d] = q[d]
    BY <1>1, AppendProperties DEF TypedTrees, CallPushed
  <1>4. /\ N \in Nat /\ D \in Nat
        /\ \A d \in 1 .. D : q[d].index \in Nat /\ q[d].child \in Nat /\ q[d].node \in DOMAIN ch
        /\ \A k \in DOMAIN ch : Len(ch[k]) \in Nat
    BY <1>1, EntityTypes
  <1>5. f.index = N /\ f.node = n /\ f.child = 0 /\ x.transform = n
    BY <1>1 DEF CallPushed
  <1>6. TypedTrees(ch, es2, q2, lost)
    <2>1. lost \subseteq 0 .. N
      BY <1>1, <1>4 DEF TypedTrees
    <2>2. (N + 1) - 1 = N
      BY <1>4
    <2> QED BY <1>2, <1>3, <2>1, <2>2 DEF TypedTrees
  <1>7. ASSUME NEW d \in 1 .. D PROVE FrameSound(ch, es2, q2, d)
    <2>1. FrameSound(ch, es, q, d)
      BY <1>1, <1>7 DEF FramesSound
    <2>2. q2[d] = q[d] /\ d < D + 1 /\ d \in Nat
      BY <1>3, <1>4
    <2>3. PICK g : g = q[d]
      OBVIOUS
    <2>4. g.index < N /\ es[g.index + 1].transform = g.node /\ g.child <= Len(ch[g.node])
      BY <1>1, <2>1, <2>3 DEF FrameSound
    <2>5. g.index + 1 \in 1 .. N
      BY <1>4, <2>3, <2>4
    <2>6. es2[g.index + 1].transform = g.node /\ g.index < N + 1
      BY <1>2, <1>4, <2>3, <2>4, <2>5
    <2>7. g.child < Len(ch[g.node]) /\ q2[d + 1].node = ch[g.node][g.child + 1]
      <3>1. CASE d < D
        <4>1. d + 1 \in 1 .. D
          BY <1>4, <3>1
        <4>2. q2[d + 1] = q[d + 1]
          BY <1>3, <4>1
        <4> QED BY <1>1, <2>1, <2>3, <3>1, <4>2 DEF FrameSound
      <3>2. CASE d = D
        <4>1. q # <<>>
          BY <1>1, <1>4, <3>2, FirstAndLast DEF TypedTrees
        <4> QED BY <1>1, <1>3, <1>5, <2>3, <3>2, <4>1 DEF CalledFor
      <3> QED BY <1>4, <3>1, <3>2
    <2> QED BY <1>2, <1>3, <2>2, <2>3, <2>4, <2>6, <2>7 DEF FrameSound
  <1>8. FrameSound(ch, es2, q2, D + 1)
    <2>1. f.index < N + 1 /\ es2[f.index + 1].transform = f.node /\ f.child <= Len(ch[f.node])
      BY <1>2, <1>4, <1>5
    <2> QED BY <1>2, <1>3, <1>4, <2>1 DEF FrameSound
  <1>9. \A c, d \in 1 .. D + 1 : c < d => q2[c].index < q2[d].index
    <2> TAKE c, d \in 1 .. D + 1
    <2> HAVE c < d
    <2>1. c \in 1 .. D /\ (d \in 1 .. D \/ d = D + 1)
      BY <1>4
    <2>2. q2[c] = q[c] /\ q[c].index < N
      BY <1>1, <1>3, <2>1 DEF FramesSound, FrameSound
    <2>3. CASE d \in 1 .. D
      BY <1>1, <1>3, <2>1, <2>2, <2>3 DEF FramesSound
    <2>4. CASE d = D + 1
      BY <1>3, <1>5, <2>2, <2>4
    <2> QED BY <2>1, <2>3, <2>4
  <1>10. FramesSound(ch, es2, q2)
    <2>1. \A d \in 1 .. D + 1 : d \in 1 .. D \/ d = D + 1
      BY <1>4
    <2> QED BY <1>3, <1>7, <1>8, <1>9, <2>1 DEF FramesSound
  <1> QED BY <1>1, <1>2, <1>3, <1>6, <1>10

\* What was kept of an entity stays while nothing but new entities come.
LEMMA PushTrees ==
  ASSUME NEW ch, NEW mesh, NEW es, NEW q, NEW lost, TypedTrees(ch, es, q, lost), FramesSound(ch, es, q),
         TreesSound(ch, mesh, es, q, lost),
         NEW n \in DOMAIN ch, NEW x \in EntityType(ch), NEW f \in FrameType(ch),
         NEW es2, NEW q2, CallPushed(es, q, n, x, f, es2, q2), CalledFor(ch, q, n),
         mesh[n] # -1 => x.meshIndex = mesh[n]
  PROVE  TreesSound(ch, mesh, es2, q2, lost)
  <1>1. PICK N, D : N = Len(es) /\ D = Len(q)
    OBVIOUS
  <1>2. /\ N \in Nat /\ D \in Nat
        /\ \A d \in 1 .. D : q[d].index \in Nat /\ q[d].child \in Nat /\ q[d].node \in DOMAIN ch
        /\ \A k \in 1 .. N : /\ es[k].transform \in DOMAIN ch /\ Len(es[k].children) \in Nat
                             /\ \A j \in 1 .. Len(es[k].children) : es[k].children[j] \in Nat
    BY <1>1, EntityTypes
  <1>3. /\ Len(es2) = N + 1 /\ Len(q2) = D + 1
        /\ \A k \in 1 .. N : es2[k] = es[k]
        /\ \A d \in 1 .. D : q2[d] = q[d]
        /\ es2[N + 1] = x /\ q2[D + 1] = f
    BY <1>1, PushFrames
  <1>4. /\ x.transform = n /\ Len(x.children) = 0
        /\ f.index = N /\ f.child = 0
    BY <1>1 DEF CallPushed
  <1>5. \A k \in 1 .. N + 1 : k \in 1 .. N \/ (k = N + 1 /\ k \notin 1 .. N)
    BY <1>2
  <1>6. \A d \in 1 .. D + 1 : d \in 1 .. D \/ d = D + 1
    BY <1>2
  <1>7. \A k \in 1 .. N : \A j \in 1 .. Len(es[k].children) :
          /\ es[k].children[j] \in Nat /\ es[k].children[j] < N
          /\ es[k].children[j] + 1 \in 1 .. N
    <2> TAKE k \in 1 .. N
    <2> TAKE j \in 1 .. Len(es[k].children)
    <2>1. ChildSound(ch, es, k, es[k].children[j])
      BY <1>1 DEF TreesSound, ChildrenSound
    <2>2. PICK c : c = es[k].children[j]
      OBVIOUS
    <2>3. c \in Nat /\ c < N
      BY <1>1, <1>2, <2>1, <2>2 DEF ChildSound
    <2> QED BY <1>2, <2>2, <2>3
  <1>8. ChildrenSound(ch, es2)
    <2>1. ASSUME NEW k \in 1 .. N, NEW j \in 1 .. Len(es[k].children)
          PROVE  ChildSound(ch, es2, k, es[k].children[j])
      <3>1. PICK c : c = es[k].children[j]
        OBVIOUS
      <3>2. ChildSound(ch, es, k, c)
        BY <1>1, <3>1 DEF TreesSound, ChildrenSound
      <3>3. c < N /\ c \in Nat /\ c + 1 \in 1 .. N
        BY <1>7, <3>1
      <3>4. es2[c + 1] = es[c + 1] /\ es2[k] = es[k] /\ c < N + 1
        BY <1>2, <1>3, <3>3
      <3> QED BY <1>3, <3>1, <3>2, <3>4 DEF ChildSound
    <2>2. 1 .. Len(x.children) = {}
      BY <1>4
    <2> QED BY <1>3, <1>5, <2>1, <2>2 DEF ChildrenSound
  <1>9. OneParent(es2)
    <2>1. 1 .. Len(x.children) = {}
      BY <1>4
    <2>2. \A k, l \in 1 .. N :
            \A i \in 1 .. Len(es[k].children), j \in 1 .. Len(es[l].children) :
              es[k].children[i] = es[l].children[j] => k = l
      BY <1>1 DEF TreesSound, OneParent
    <2> SUFFICES ASSUME NEW k \in 1 .. N + 1, NEW l \in 1 .. N + 1,
                        NEW i \in 1 .. Len(es2[k].children), NEW j \in 1 .. Len(es2[l].children),
                        es2[k].children[i] = es2[l].children[j]
                 PROVE  k = l
      BY <1>3 DEF OneParent
    <2>3. k \in 1 .. N /\ l \in 1 .. N
      BY <1>3, <1>5, <2>1
    <2>4. es2[k] = es[k] /\ es2[l] = es[l]
      BY <1>3, <2>3
    <2> QED BY <2>2, <2>3, <2>4
  <1>10. NoParent(es2, q2)
    <2>1. 1 .. Len(x.children) = {}
      BY <1>4
    <2>2. ASSUME NEW k \in 1 .. N, NEW j \in 1 .. Len(es[k].children), NEW d \in 1 .. D + 1
          PROVE  es[k].children[j] # q2[d].index
      <3>1. CASE d \in 1 .. D
        BY <1>1, <1>3, <3>1 DEF TreesSound, NoParent
      <3>2. CASE d = D + 1
        BY <1>2, <1>3, <1>4, <1>7, <3>2
      <3> QED BY <1>6, <3>1, <3>2
    <2> QED BY SMTT(30), <1>3, <1>5, <2>1, <2>2 DEF NoParent
  <1>11. \A k \in 1 .. N : \A m : KeptFirst(ch, es, k, m) => KeptFirst(ch, es2, k, m)
    <2> TAKE k \in 1 .. N
    <2> TAKE m
    <2> HAVE KeptFirst(ch, es, k, m)
    <2>1. es2[k] = es[k] /\ Len(es[k].children) = m
      BY <1>3 DEF KeptFirst
    <2>2. \A j \in 1 .. m : es2[es[k].children[j] + 1] = es[es[k].children[j] + 1]
      BY <1>3, <1>7, <2>1
    <2> QED BY <2>1, <2>2 DEF KeptFirst
  <1>12. FramesKept(ch, es2, q2, lost)
    <2>1. ASSUME NEW d \in 1 .. D, q[d].index \notin lost
          PROVE  KeptFirst(ch, es2, q[d].index + 1, q[d].child)
      <3>1. KeptFirst(ch, es, q[d].index + 1, q[d].child)
        BY <1>1, <2>1 DEF TreesSound, FramesKept
      <3>2. q[d].index + 1 \in 1 .. N
        BY <1>1, <1>2 DEF FramesSound, FrameSound
      <3> QED BY <1>11, <3>1, <3>2
    <2>2. KeptFirst(ch, es2, N + 1, 0)
      BY <1>3, <1>4 DEF KeptFirst
    <2> QED BY <1>3, <1>4, <1>6, <2>1, <2>2 DEF FramesKept
  <1>13. Collected(ch, es2, q2, lost)
    <2> SUFFICES ASSUME NEW k \in 1 .. N + 1, k - 1 \notin lost,
                        \A d \in 1 .. D + 1 : q2[d].index # k - 1
                 PROVE  KeptFirst(ch, es2, k, Len(ch[es2[k].transform]))
      BY <1>3 DEF Collected
    <2>1. k # N + 1
      <3>1. D + 1 \in 1 .. D + 1 /\ (N + 1) - 1 = N
        BY <1>2
      <3> QED BY <1>3, <1>4, <3>1
    <2>2. k \in 1 .. N
      BY <1>5, <2>1
    <2>3. \A d \in 1 .. D : q[d].index # k - 1
      <3>1. \A d \in 1 .. D : d \in 1 .. D + 1
        BY <1>2
      <3> QED BY <1>3, <3>1
    <2>4. KeptFirst(ch, es, k, Len(ch[es[k].transform]))
      BY <1>1, <2>2, <2>3 DEF TreesSound, Collected
    <2> QED BY <1>3, <1>11, <2>2, <2>4
  <1>14. MeshKnown(mesh, es2)
    <2>1. MeshKnown(mesh, es)
      BY DEF TreesSound
    <2> QED BY <1>1, <1>3, <1>4, <1>5, <2>1 DEF MeshKnown
  <1> QED BY <1>8, <1>9, <1>10, <1>12, <1>13, <1>14 DEF TreesSound

\* The innermost call returns the index of its entity to its caller, c.
Returning(ch, q) == q # <<>> /\ q[Len(q)].child = Len(ch[q[Len(q)].node])

\* The calls after that.
Popped(q, q2) ==
  IF Len(q) = 1 THEN q2 = <<>>
  ELSE q2 = Append(Front(Front(q)), [q[Len(q) - 1] EXCEPT !.child = @ + 1])

LEMMA FrontElements ==
  ASSUME NEW S, NEW q \in Seq(S), Len(q) > 1
  PROVE  /\ Front(q) \in Seq(S) /\ Len(Front(q)) = Len(q) - 1
         /\ \A k \in 1 .. Len(q) - 1 : Front(q)[k] = q[k]
  <1>1. PICK n, a, r : n = Len(q) /\ a = n - 1 /\ r = Front(q)
    OBVIOUS
  <1>2. n \in Nat /\ a \in Nat /\ a >= 1 /\ 1 \in Int /\ a \in Int /\ ~(1 > a) /\ a - 1 + 1 = a
    BY <1>1, LenProperties
  <1>3. r = SubSeq(q, 1, a)
    BY <1>1 DEF Front
  <1>4. \A k \in 1 .. a : q[k] \in S
    <2>1. \A k \in 1 .. a : k \in 1 .. n
      BY <1>1, <1>2
    <2> QED BY <1>1, <2>1, ElementOfSeq
  <1>5. /\ r \in Seq(S)
        /\ Len(r) = IF 1 <= a THEN a - 1 + 1 ELSE 0
        /\ \A k \in 1 .. a - 1 + 1 : r[k] = q[1 + k - 1]
    BY <1>2, <1>3, <1>4, SubSeqProperties
  <1>6. Len(r) = a
    BY <1>2, <1>5
  <1>7. \A k \in 1 .. a : r[k] = q[k]
    BY <1>2, <1>5
  <1> QED BY <1>1, <1>5, <1>6, <1>7

LEMMA PopCalls ==
  ASSUME NEW ch, NEW q \in Seq(FrameType(ch)), q # <<>>, NEW q2, Popped(q, q2)
  PROVE  /\ q2 \in Seq(FrameType(ch)) /\ Len(q) \in Nat \ {0} /\ Len(q2) = Len(q) - 1
         /\ \A d \in 1 .. Len(q) - 2 : q2[d] = q[d]
         /\ Len(q) > 1 =>
              LET a == Len(q) - 1 IN
              /\ q2[a].index = q[a].index /\ q2[a].node = q[a].node
              /\ q2[a].child = q[a].child + 1
  <1>1. PICK D : D = Len(q)
    OBVIOUS
  <1>2. D \in Nat \ {0}
    BY <1>1, FirstAndLast
  <1>3. CASE D = 1
    <2>1. q2 = <<>>
      BY <1>1, <1>3 DEF Popped
    <2>2. q2 \in Seq(FrameType(ch)) /\ Len(q2) = 0
      BY <2>1
    <2>3. D - 1 = 0 /\ 1 .. D - 2 = {}
      BY <1>3
    <2> QED BY <1>1, <1>2, <1>3, <2>2, <2>3
  <1>4. CASE D # 1
    <2>1. PICK a : a = D - 1
      OBVIOUS
    <2>2. a \in Nat /\ a >= 1 /\ a \in 1 .. D /\ 1 .. D - 2 = 1 .. a - 1 /\ (D - 1) - 1 = a - 1
      BY <1>2, <1>4, <2>1
    <2>3. PICK r : r = Front(q)
      OBVIOUS
    <2>4. r \in Seq(FrameType(ch)) /\ Len(r) = a /\ \A d \in 1 .. a : r[d] = q[d]
      <3>1. Len(q) > 1
        BY <1>1, <2>1, <2>2
      <3> QED BY <1>1, <2>1, <2>3, <3>1, FrontElements
    <2>5. PICK s : s = Front(r)
      OBVIOUS
    <2>6. s \in Seq(FrameType(ch)) /\ Len(s) = a - 1 /\ \A d \in 1 .. a - 1 : s[d] = q[d]
      <3>1. s = SubSeq(r, 1, a - 1)
        BY <2>4, <2>5 DEF Front
      <3>2. \A d \in 1 .. a - 1 : d \in 1 .. a
        BY <2>2
      <3>3. \A d \in 1 .. a - 1 : r[d] \in FrameType(ch)
        BY <2>4, <3>2, ElementOfSeq
      <3>4. 1 \in Int /\ a - 1 \in Int /\ (1 > a - 1 => a - 1 = 0) /\ (a - 1) - 1 + 1 = a - 1
        BY <2>2
      <3>5. /\ s \in Seq(FrameType(ch))
            /\ Len(s) = IF 1 <= a - 1 THEN (a - 1) - 1 + 1 ELSE 0
            /\ \A i \in 1 .. (a - 1) - 1 + 1 : s[i] = r[1 + i - 1]
        BY <2>4, <3>1, <3>3, <3>4, SubSeqProperties
      <3>6. Len(s) = a - 1
        BY <2>2, <3>5
      <3>7. \A i \in 1 .. a - 1 : s[i] = r[i]
        BY <2>2, <3>5
      <3> QED BY <2>4, <3>2, <3>5, <3>6, <3>7
    <2>7. PICK c : c = q[a]
      OBVIOUS
    <2>8. PICK g : g = [c EXCEPT !.child = @ + 1]
      OBVIOUS
    <2>9. c \in FrameType(ch)
      BY <1>1, <2>2, <2>7, ElementOfSeq
    <2>10. g \in FrameType(ch) /\ g.index = c.index /\ g.node = c.node /\ g.child = c.child + 1
      <3>1. PICK x, y, z, w : x = c.index /\ y = c.entity /\ z = c.node /\ w = c.child
        OBVIOUS
      <3>2. /\ x \in Nat /\ y \in Nat /\ z \in DOMAIN ch /\ w \in Nat
            /\ c = [index |-> x, entity |-> y, node |-> z, child |-> w]
        BY <2>9, <3>1 DEF FrameType
      <3>3. g = [index |-> x, entity |-> y, node |-> z, child |-> w + 1]
        BY <2>8, <3>2
      <3>4. g \in FrameType(ch) /\ g.index = x /\ g.node = z /\ g.child = w + 1
        BY <3>2, <3>3 DEF FrameType
      <3> QED BY <3>1, <3>4
    <2>11. q2 = Append(s, g)
      BY <1>1, <1>4, <2>1, <2>3, <2>5, <2>7, <2>8 DEF Popped
    <2>12. /\ q2 \in Seq(FrameType(ch)) /\ Len(q2) = (a - 1) + 1 /\ q2[(a - 1) + 1] = g
           /\ \A d \in 1 .. a - 1 : q2[d] = s[d]
      BY <2>6, <2>10, <2>11, AppendProperties
    <2>13. (a - 1) + 1 = a
      BY <2>2
    <2> QED BY <1>1, <1>2, <2>1, <2>2, <2>6, <2>7, <2>10, <2>12, <2>13
  <1> QED BY <1>3, <1>4

\* es2 has the transforms and the meshes of es.
SameNodes(es, es2) ==
  /\ Len(es2) = Len(es)
  /\ \A k \in 1 .. Len(es) :
       es2[k].transform = es[k].transform /\ es2[k].meshIndex = es[k].meshIndex

\* The frames that remain are sound.
LEMMA PopFrames ==
  ASSUME NEW ch, NEW es, NEW q, NEW lost, TypedTrees(ch, es, q, lost), FramesSound(ch, es, q),
         q # <<>>, NEW q2, Popped(q, q2), NEW es2, SameNodes(es, es2)
  PROVE  FramesSound(ch, es2, q2)
  <1>1. PICK N, D : N = Len(es) /\ D = Len(q)
    OBVIOUS
  <1>2. /\ N \in Nat /\ D \in Nat \ {0}
        /\ \A d \in 1 .. D : q[d].index \in Nat /\ q[d].child \in Nat /\ q[d].node \in DOMAIN ch
        /\ \A k \in DOMAIN ch : Len(ch[k]) \in Nat
    <2>1. D \in Nat \ {0}
      BY <1>1, FirstAndLast DEF TypedTrees
    <2> QED BY <1>1, <2>1, EntityTypes
  <1>3. PICK a : a = D - 1
    OBVIOUS
  <1>4. /\ Len(q2) = a /\ \A d \in 1 .. a - 1 : q2[d] = q[d]
        /\ a >= 1 => /\ q2[a].index = q[a].index /\ q2[a].node = q[a].node
                     /\ q2[a].child = q[a].child + 1
    <2>1. D - 2 = a - 1 /\ (a >= 1 => D > 1)
      BY <1>2, <1>3
    <2> QED BY <1>1, <1>3, <2>1, PopCalls DEF TypedTrees
  <1>5. a \in Nat /\ a < D /\ \A d \in 1 .. a : d \in 1 .. D /\ (d \in 1 .. a - 1 \/ d = a)
    BY <1>2, <1>3
  <1>6. \A d \in 1 .. a : q2[d].index = q[d].index /\ q2[d].node = q[d].node
    BY <1>4, <1>5
  <1>7. ASSUME NEW d \in 1 .. a PROVE FrameSound(ch, es2, q2, d)
    <2>1. PICK f : f = q[d]
      OBVIOUS
    <2>2. /\ f.index < N /\ es[f.index + 1].transform = f.node
          /\ f.child < Len(ch[f.node]) /\ q[d + 1].node = ch[f.node][f.child + 1]
      <3>1. FrameSound(ch, es, q, d) /\ d < D
        BY <1>1, <1>5, <1>7 DEF FramesSound
      <3> QED BY <1>1, <2>1, <3>1 DEF FrameSound
    <2>3. es2[f.index + 1].transform = f.node
      <3>1. f.index + 1 \in 1 .. N
        BY SMTT(30), <1>2, <1>5, <2>1, <2>2
      <3> QED BY <1>1, <2>2, <3>1 DEF SameNodes
    <2>4. d < a => q2[d + 1].node = q[d + 1].node /\ q2[d] = f
      <3>1. d < a => d + 1 \in 1 .. a /\ d \in 1 .. a - 1
        BY <1>5
      <3> QED BY <1>4, <1>6, <2>1, <3>1
    <2>5. q2[d].child <= Len(ch[f.node])
      <3>1. CASE d \in 1 .. a - 1
        BY <1>2, <1>4, <1>5, <2>1, <2>2, <3>1
      <3>2. CASE d = a
        <4>1. q2[d].child = f.child + 1
          BY <1>4, <1>5, <2>1, <3>2
        <4>2. f.child \in Nat /\ Len(ch[f.node]) \in Nat
          BY <1>2, <1>5, <2>1
        <4> QED BY <2>2, <4>1, <4>2
      <3> QED BY <1>5, <3>1, <3>2
    <2>6. q2[d].index = f.index /\ q2[d].node = f.node
      BY <1>6, <2>1
    <2>7. Len(es2) = N
      BY <1>1 DEF SameNodes
    <2> QED BY <1>4, <2>2, <2>3, <2>4, <2>5, <2>6, <2>7 DEF FrameSound
  <1>8. \A c, d \in 1 .. a : c < d => q2[c].index < q2[d].index
    BY <1>1, <1>5, <1>6 DEF FramesSound
  <1> QED BY <1>4, <1>7, <1>8 DEF FramesSound

\* The call that returned has all children of its node.
LEMMA ReturnedKept ==
  ASSUME NEW ch, NEW mesh, NEW es, NEW q, NEW lost, TypedTrees(ch, es, q, lost), FramesSound(ch, es, q),
         TreesSound(ch, mesh, es, q, lost), Returning(ch, q),
         NEW q2, Popped(q, q2), NEW k \in 1 .. Len(es), k - 1 \notin lost,
         \A d \in 1 .. Len(q2) : q2[d].index # k - 1
  PROVE  KeptFirst(ch, es, k, Len(ch[es[k].transform]))
  <1>1. PICK D, a : D = Len(q) /\ a = D - 1
    OBVIOUS
  <1>2. q # <<>> /\ D \in Nat \ {0} /\ q[D].child = Len(ch[q[D].node])
    BY <1>1, FirstAndLast DEF Returning, TypedTrees
  <1>3. /\ Len(q2) = a /\ \A d \in 1 .. a - 1 : q2[d] = q[d]
        /\ a >= 1 => q2[a].index = q[a].index
    <2>1. D - 2 = a - 1 /\ (a >= 1 => D > 1)
      BY <1>1, <1>2
    <2> QED BY <1>1, <1>2, <2>1, PopCalls DEF TypedTrees
  <1>4. \A d \in 1 .. a : q[d].index # k - 1
    <2>1. \A d \in 1 .. a : (d \in 1 .. a - 1 \/ d = a) /\ a >= 1
      BY <1>1, <1>2
    <2> QED BY <1>3, <2>1
  <1>5. CASE q[D].index = k - 1
    <2>1. D \in 1 .. D /\ k \in Nat /\ q[D].index + 1 = k
      <3>1. Len(es) \in Nat
        BY EntityTypes
      <3>2. k \in Nat /\ (k - 1) + 1 = k
        BY <3>1
      <3> QED BY <1>2, <1>5, <3>2
    <2>2. KeptFirst(ch, es, k, q[D].child)
      BY <1>1, <1>5, <2>1 DEF TreesSound, FramesKept
    <2>3. es[k].transform = q[D].node
      BY <1>1, <2>1 DEF FramesSound, FrameSound
    <2> QED BY <1>2, <2>2, <2>3
  <1>6. CASE q[D].index # k - 1
    <2>1. \A d \in 1 .. D : d \in 1 .. a \/ d = D
      BY <1>1, <1>2
    <2>2. \A d \in 1 .. D : q[d].index # k - 1
      BY <1>4, <1>6, <2>1
    <2> QED BY <1>1, <2>2 DEF TreesSound, Collected
  <1> QED BY <1>5, <1>6

\* It has no caller, or the caller has lost its place.
LEMMA PopTrees ==
  ASSUME NEW ch, NEW mesh, NEW es, NEW q, NEW lost, TypedTrees(ch, es, q, lost), FramesSound(ch, es, q),
         TreesSound(ch, mesh, es, q, lost), Returning(ch, q),
         NEW q2, Popped(q, q2), NEW lost2, lost \subseteq lost2,
         Len(q) > 1 => q[Len(q) - 1].index \in lost2
  PROVE  TreesSound(ch, mesh, es, q2, lost2)
  <1>1. PICK D, a : D = Len(q) /\ a = D - 1
    OBVIOUS
  <1>2. q # <<>> /\ D \in Nat \ {0}
    BY <1>1, FirstAndLast DEF Returning, TypedTrees
  <1>3. /\ Len(q2) = a /\ \A d \in 1 .. a - 1 : q2[d] = q[d]
        /\ a >= 1 => q2[a].index = q[a].index /\ q[a].index \in lost2
    <2>1. D - 2 = a - 1 /\ (a >= 1 => D > 1)
      BY <1>1, <1>2
    <2> QED BY <1>1, <1>2, <2>1, PopCalls DEF TypedTrees
  <1>4. \A d \in 1 .. a : d \in 1 .. D /\ (d \in 1 .. a - 1 \/ d = a) /\ a >= 1
    BY <1>1, <1>2
  <1>5. NoParent(es, q2)
    <2>1. \A d \in 1 .. a : q2[d].index = q[d].index
      BY <1>3, <1>4
    <2>2. NoParent(es, q)
      BY DEF TreesSound
    <2> QED BY <1>1, <1>3, <1>4, <2>1, <2>2 DEF NoParent
  <1>6. FramesKept(ch, es, q2, lost2)
    <2>1. \A d \in 1 .. a : q2[d].index \notin lost2 => q2[d] = q[d] /\ q[d].index \notin lost
      BY <1>3, <1>4
    <2>2. FramesKept(ch, es, q, lost)
      BY DEF TreesSound
    <2> QED BY <1>1, <1>3, <1>4, <2>1, <2>2 DEF FramesKept
  <1>7. Collected(ch, es, q2, lost2)
    BY ReturnedKept DEF Collected
  <1> QED BY <1>5, <1>6, <1>7 DEF TreesSound

\* The i-th entity gets the child c.
Given(es, i, c, es2) == es2 = [es EXCEPT ![i].children = Append(@, c)]

LEMMA GivenTo ==
  ASSUME NEW ch, NEW es \in Seq(EntityType(ch)), NEW i \in 1 .. Len(es), NEW c \in Nat,
         NEW es2, Given(es, i, c, es2)
  PROVE  /\ es2 \in Seq(EntityType(ch)) /\ SameNodes(es, es2)
         /\ \A k \in 1 .. Len(es) : k # i => es2[k] = es[k]
         /\ Len(es2[i].children) = Len(es[i].children) + 1
         /\ \A j \in 1 .. Len(es[i].children) : es2[i].children[j] = es[i].children[j]
         /\ es2[i].children[Len(es[i].children) + 1] = c
  <1>1. PICK N : N = Len(es)
    OBVIOUS
  <1>2. es[i] \in EntityType(ch)
    BY ElementOfSeq
  <1>3. PICK x, y, z : x = es[i].transform /\ y = es[i].meshIndex /\ z = es[i].children
    OBVIOUS
  <1>4. /\ x \in DOMAIN ch /\ y \in MeshIndices /\ z \in Seq(Nat)
        /\ es[i] = [transform |-> x, meshIndex |-> y, children |-> z]
    BY <1>2, <1>3 DEF EntityType
  <1>5. PICK w : w = Append(z, c)
    OBVIOUS
  <1>6. w \in Seq(Nat) /\ Len(w) = Len(z) + 1 /\ w[Len(z) + 1] = c
        /\ \A j \in 1 .. Len(z) : w[j] = z[j]
    BY <1>4, <1>5, AppendProperties
  <1>7. PICK e : e = [transform |-> x, meshIndex |-> y, children |-> w]
    OBVIOUS
  <1>8. e \in EntityType(ch) /\ e.transform = x /\ e.meshIndex = y /\ e.children = w
    BY <1>4, <1>6, <1>7 DEF EntityType
  <1>9. es2 = [es EXCEPT ![i] = e]
    <2>1. es2 = [es EXCEPT ![i] = [es[i] EXCEPT !.children = Append(es[i].children, c)]]
      BY DEF Given
    <2>2. [es[i] EXCEPT !.children = Append(es[i].children, c)] = e
      <3>1. PICK v : v = es[i]
        OBVIOUS
      <3>2. v = [transform |-> x, meshIndex |-> y, children |-> z] /\ Append(v.children, c) = w
        BY <1>3, <1>4, <1>5, <3>1
      <3>3. [v EXCEPT !.children = w] = [transform |-> x, meshIndex |-> y, children |-> w]
        BY <3>2
      <3> QED BY <1>7, <3>1, <3>2, <3>3
    <2> QED BY <2>1, <2>2
  <1>10. es2 \in Seq(EntityType(ch)) /\ Len(es2) = N /\ es2[i] = e
         /\ \A k \in 1 .. N : k # i => es2[k] = es[k]
    BY <1>1, <1>8, <1>9, ExceptSeq
  <1>11. SameNodes(es, es2)
    BY <1>1, <1>3, <1>8, <1>10 DEF SameNodes
  <1> QED BY <1>1, <1>3, <1>6, <1>8, <1>10, <1>11

\* The caller keeps the index that is returned to it.
LEMMA StoreTrees ==
  ASSUME NEW ch, NEW mesh, NEW es, NEW q, NEW lost, TypedTrees(ch, es, q, lost), FramesSound(ch, es, q),
         TreesSound(ch, mesh, es, q, lost), Returning(ch, q), Len(q) > 1,
         NEW q2, Popped(q, q2), NEW es2,
         Given(es, q[Len(q) - 1].index + 1, q[Len(q)].index, es2)
  PROVE  TreesSound(ch, mesh, es2, q2, lost)
  <1>1. PICK N, D, a : N = Len(es) /\ D = Len(q) /\ a = D - 1
    OBVIOUS
  <1>2. /\ N \in Nat /\ D \in Nat
        /\ \A d \in 1 .. D : q[d].index \in Nat /\ q[d].child \in Nat /\ q[d].node \in DOMAIN ch
        /\ \A k \in 1 .. N : /\ es[k].transform \in DOMAIN ch /\ Len(es[k].children) \in Nat
                             /\ \A j \in 1 .. Len(es[k].children) : es[k].children[j] \in Nat
        /\ \A k \in DOMAIN ch : Len(ch[k]) \in Nat
    BY <1>1, EntityTypes
  <1>3. a \in Nat /\ a >= 1 /\ a < D /\ a \in 1 .. D /\ D \in 1 .. D /\ a + 1 = D
    BY <1>1, <1>2
  <1>4. PICK f, g, i, c : f = q[a] /\ g = q[D] /\ i = f.index + 1 /\ c = g.index
    OBVIOUS
  <1>5. /\ f.index \in Nat /\ f.child \in Nat /\ f.node \in DOMAIN ch /\ c \in Nat
        /\ f.index < N /\ es[i].transform = f.node
        /\ f.child < Len(ch[f.node]) /\ g.node = ch[f.node][f.child + 1]
        /\ c < N /\ es[c + 1].transform = g.node /\ f.index < c
    <2>1. FrameSound(ch, es, q, a) /\ FrameSound(ch, es, q, D) /\ q[a].index < q[D].index
      BY <1>1, <1>3 DEF FramesSound
    <2>2. /\ f.index < N /\ es[f.index + 1].transform = f.node
          /\ f.child < Len(ch[f.node]) /\ q[a + 1].node = ch[f.node][f.child + 1]
      BY <1>1, <1>3, <1>4, <2>1 DEF FrameSound
    <2>3. c < N /\ es[c + 1].transform = g.node
      BY <1>1, <1>4, <2>1 DEF FrameSound
    <2> QED BY <1>2, <1>3, <1>4, <2>1, <2>2, <2>3
  <1>6. i \in 1 .. N /\ i \in Nat /\ i <= c /\ c + 1 \in 1 .. N
    <2>1. PICK h : h = f.index
      OBVIOUS
    <2>2. h \in Nat /\ c \in Nat /\ N \in Nat /\ h < N /\ h < c /\ c < N /\ i = h + 1
      BY <1>2, <1>4, <1>5, <2>1
    <2> QED BY ONLY <2>2
  <1>7. PICK L : L = Len(es[i].children)
    OBVIOUS
  <1>8. /\ es2 \in Seq(EntityType(ch)) /\ Len(es2) = N
        /\ \A k \in 1 .. N : es2[k].transform = es[k].transform /\ es2[k].meshIndex = es[k].meshIndex
        /\ \A k \in 1 .. N : k # i => es2[k] = es[k]
        /\ Len(es2[i].children) = L + 1
        /\ \A j \in 1 .. L : es2[i].children[j] = es[i].children[j]
        /\ es2[i].children[L + 1] = c
    <2>1. Given(es, i, c, es2) /\ es \in Seq(EntityType(ch))
      BY <1>1, <1>4 DEF TypedTrees
    <2> QED BY SMTT(30), <1>1, <1>5, <1>6, <1>7, <2>1, GivenTo DEF SameNodes
  <1>9. L \in Nat /\ \A j \in 1 .. L + 1 : j \in 1 .. L \/ j = L + 1
    BY SMTT(30), <1>2, <1>6, <1>7
  <1>10. /\ Len(q2) = a /\ \A d \in 1 .. a - 1 : q2[d] = q[d]
         /\ q2[a].index = f.index /\ q2[a].node = f.node /\ q2[a].child = f.child + 1
    <2>1. D - 2 = a - 1 /\ D > 1 /\ q # <<>>
      BY <1>1, <1>2 DEF Returning
    <2> QED BY <1>1, <1>4, <2>1, PopCalls DEF TypedTrees
  <1>11. \A d \in 1 .. a : /\ d \in 1 .. D /\ d \in Nat /\ d < D /\ q2[d].index = q[d].index
                           /\ (d \in 1 .. a - 1 \/ d = a)
    BY <1>3, <1>4, <1>10
  \* A child of the result is one from before, or the new one.
  <1>12. ASSUME NEW k \in 1 .. N, NEW j \in 1 .. Len(es2[k].children)
         PROVE  \/ j \in 1 .. Len(es[k].children) /\ es2[k].children[j] = es[k].children[j]
                \/ k = i /\ es2[k].children[j] = c
    <2>1. CASE k = i
      BY <1>7, <1>8, <1>9, <2>1
    <2>2. CASE k # i
      BY <1>8, <2>2
    <2> QED BY <2>1, <2>2
  <1>13. \A k \in 1 .. N : \A j \in 1 .. Len(es[k].children) :
           /\ ChildSound(ch, es, k, es[k].children[j])
           /\ es[k].children[j] # c /\ es[k].children[j] + 1 \in 1 .. N
           /\ \A d \in 1 .. D : es[k].children[j] # q[d].index
    <2> TAKE k \in 1 .. N
    <2> TAKE j \in 1 .. Len(es[k].children)
    <2>1. PICK x : x = es[k].children[j]
      OBVIOUS
    <2>2. ChildSound(ch, es, k, x)
      BY <1>1, <2>1 DEF TreesSound, ChildrenSound
    <2>3. x \in Nat /\ x < N
      BY <1>1, <1>2, <2>1, <2>2 DEF ChildSound
    <2>4. \A d \in 1 .. D : x # q[d].index
      BY <1>1, <2>1 DEF TreesSound, NoParent
    <2>5. x + 1 \in 1 .. N
      BY <1>2, <2>3
    <2>6. x # c
      BY <1>3, <1>4, <2>4
    <2> QED BY <2>1, <2>2, <2>4, <2>5, <2>6
  <1>14. \A k \in 1 .. N, x \in Nat :
           ChildSound(ch, es, k, x) /\ x + 1 \in 1 .. N => ChildSound(ch, es2, k, x)
    BY <1>1, <1>8 DEF ChildSound
  <1>15. ChildSound(ch, es, i, c)
    <2>1. f.child + 1 \in 1 .. Len(ch[es[i].transform])
      BY <1>2, <1>5
    <2> QED BY <1>1, <1>5, <1>6, <2>1 DEF ChildSound
  <1>16. ChildrenSound(ch, es2)
    <2> SUFFICES ASSUME NEW k \in 1 .. N, NEW j \in 1 .. Len(es2[k].children)
                 PROVE  ChildSound(ch, es2, k, es2[k].children[j])
      BY <1>8 DEF ChildrenSound
    <2>1. CASE j \in 1 .. Len(es[k].children) /\ es2[k].children[j] = es[k].children[j]
      BY <1>2, <1>13, <1>14, <2>1
    <2>2. CASE k = i /\ es2[k].children[j] = c
      BY <1>5, <1>6, <1>14, <1>15, <2>2
    <2> QED BY <1>12, <2>1, <2>2
  <1>17. OneParent(es2)
    <2> SUFFICES ASSUME NEW k \in 1 .. N, NEW l \in 1 .. N, NEW x \in 1 .. Len(es2[k].children),
                        NEW y \in 1 .. Len(es2[l].children),
                        es2[k].children[x] = es2[l].children[y]
                 PROVE  k = l
      BY <1>8 DEF OneParent
    <2>1. \/ x \in 1 .. Len(es[k].children) /\ es2[k].children[x] = es[k].children[x]
          \/ k = i /\ es2[k].children[x] = c
      BY <1>12
    <2>2. \/ y \in 1 .. Len(es[l].children) /\ es2[l].children[y] = es[l].children[y]
          \/ l = i /\ es2[l].children[y] = c
      BY <1>12
    <2>3. CASE /\ x \in 1 .. Len(es[k].children) /\ es2[k].children[x] = es[k].children[x]
               /\ y \in 1 .. Len(es[l].children) /\ es2[l].children[y] = es[l].children[y]
      BY <1>1, <2>3 DEF TreesSound, OneParent
    <2> QED BY <1>13, <2>1, <2>2, <2>3
  <1>18. NoParent(es2, q2)
    <2> SUFFICES ASSUME NEW d \in 1 .. a, NEW k \in 1 .. N, NEW j \in 1 .. Len(es2[k].children)
                 PROVE  es2[k].children[j] # q[d].index
      BY <1>8, <1>10, <1>11 DEF NoParent
    <2>1. d \in 1 .. D /\ q[d].index < c
      BY <1>1, <1>3, <1>4, <1>11 DEF FramesSound
    <2>2. CASE j \in 1 .. Len(es[k].children) /\ es2[k].children[j] = es[k].children[j]
      BY <1>13, <2>1, <2>2
    <2>3. CASE k = i /\ es2[k].children[j] = c
      BY SMTT(30), <1>2, <1>5, <2>1, <2>3
    <2> QED BY <1>12, <2>2, <2>3
  <1>19. \A k \in 1 .. N : \A m : k # i /\ KeptFirst(ch, es, k, m) => KeptFirst(ch, es2, k, m)
    <2> TAKE k \in 1 .. N
    <2> TAKE m
    <2> HAVE k # i /\ KeptFirst(ch, es, k, m)
    <2>1. es2[k] = es[k] /\ Len(es[k].children) = m
      BY <1>8 DEF KeptFirst
    <2>2. \A j \in 1 .. m : es2[es[k].children[j] + 1].transform = es[es[k].children[j] + 1].transform
      BY <1>8, <1>13, <2>1
    <2> QED BY <2>1, <2>2 DEF KeptFirst
  <1>20. FramesKept(ch, es2, q2, lost)
    <2>1. ASSUME NEW d \in 1 .. a - 1, q[d].index \notin lost
          PROVE  KeptFirst(ch, es2, q[d].index + 1, q[d].child)
      <3>1. d \in 1 .. D /\ d \in 1 .. a /\ d < a
        BY <1>3
      <3>2. KeptFirst(ch, es, q[d].index + 1, q[d].child)
        BY <1>1, <2>1, <3>1 DEF TreesSound, FramesKept
      <3>3. q[d].index < f.index /\ q[d].index < N
        BY <1>1, <1>3, <1>4, <3>1 DEF FramesSound, FrameSound
      <3>4. q[d].index + 1 \in 1 .. N /\ q[d].index + 1 # i
        <4>1. PICK h, y : h = f.index /\ y = q[d].index
          OBVIOUS
        <4>2. h \in Nat /\ y \in Nat /\ N \in Nat /\ y < h /\ y < N /\ i = h + 1
          BY <1>2, <1>4, <1>5, <3>1, <3>3, <4>1
        <4> QED BY ONLY <4>1, <4>2
      <3> QED BY <1>19, <3>2, <3>4
    <2>2. ASSUME f.index \notin lost PROVE KeptFirst(ch, es2, i, f.child + 1)
      <3>1. KeptFirst(ch, es, i, f.child)
        BY <1>1, <1>3, <1>4, <2>2 DEF TreesSound, FramesKept
      <3>2. L = f.child /\ \A j \in 1 .. L : es[es[i].children[j] + 1].transform = ch[f.node][j]
        BY <1>5, <1>7, <3>1 DEF KeptFirst
      <3>3. ASSUME NEW j \in 1 .. L + 1
            PROVE  es2[es2[i].children[j] + 1].transform = ch[f.node][j]
        <4>1. CASE j \in 1 .. L
          <5>1. PICK x : x = es[i].children[j]
            OBVIOUS
          <5>2. x + 1 \in 1 .. N /\ es2[i].children[j] = x /\ es[x + 1].transform = ch[f.node][j]
            BY <1>6, <1>7, <1>8, <1>13, <3>2, <4>1, <5>1
          <5> QED BY <1>8, <5>2
        <4>2. CASE j = L + 1
          BY <1>5, <1>6, <1>8, <3>2, <4>2
        <4> QED BY <1>9, <4>1, <4>2
      <3>4. es2[i].transform = f.node
        BY <1>5, <1>6, <1>8
      <3> QED BY <1>8, <3>2, <3>3, <3>4 DEF KeptFirst
    <2> SUFFICES ASSUME NEW d \in 1 .. a, q2[d].index \notin lost
                 PROVE  KeptFirst(ch, es2, q2[d].index + 1, q2[d].child)
      BY <1>10 DEF FramesKept
    <2>3. CASE d \in 1 .. a - 1
      BY <1>10, <2>1, <2>3
    <2>4. CASE d = a
      BY <1>4, <1>10, <2>2, <2>4
    <2> QED BY <1>11, <2>3, <2>4
  <1>21. Collected(ch, es2, q2, lost)
    <2> SUFFICES ASSUME NEW k \in 1 .. N, k - 1 \notin lost, \A d \in 1 .. a : q2[d].index # k - 1
                 PROVE  KeptFirst(ch, es2, k, Len(ch[es2[k].transform]))
      BY <1>8, <1>10 DEF Collected
    <2>1. k # i
      <3>1. a \in 1 .. a /\ i - 1 = f.index
        BY SMTT(30), <1>3, <1>4, <1>5
      <3> QED BY <1>10, <3>1
    <2>2. KeptFirst(ch, es, k, Len(ch[es[k].transform]))
      <3>1. k \in 1 .. Len(es) /\ \A d \in 1 .. Len(q2) : q2[d].index # k - 1
        BY <1>1, <1>10
      <3> QED BY <3>1, ReturnedKept
    <2> QED BY <1>8, <1>19, <2>1, <2>2
  <1>22. MeshKnown(mesh, es2)
    <2>1. MeshKnown(mesh, es)
      BY DEF TreesSound
    <2> QED BY <1>1, <1>8, <2>1 DEF MeshKnown
  <1> QED BY <1>16, <1>17, <1>18, <1>20, <1>21, <1>22 DEF TreesSound

\* A function from 1 .. n on is a sequence.
LEMMA AsSequence ==
  ASSUME NEW n \in Nat, NEW S, NEW f, f \in [1 .. n -> S]
  PROVE  f \in Seq(S) /\ Len(f) = n
OBVIOUS

\* The bounds of the first k positions, one after the other.
BoundBody(z, f) ==
  [k \in 0 .. Len(z) |->
     IF k = 0 THEN Importer!EmptyBound ELSE Importer!ToInclude(f[k - 1], z[k])]

\* They are told up to m.
BoundedTo(z, f, m) ==
  /\ f[0] = Importer!EmptyBound
  /\ \A k \in 1 .. m : f[k] = Importer!ToInclude(f[k - 1], z[k])

LEMMA BoundsExist ==
  ASSUME NEW z, NEW n \in Nat
  PROVE  \E f : BoundedTo(z, f, n)
  <1> SUFFICES ASSUME ~\E f : BoundedTo(z, f, n) PROVE FALSE
    OBVIOUS
  <1>1. PICK Open : Open = {m \in Nat : ~\E f : BoundedTo(z, f, m)}
    OBVIOUS
  <1>2. PICK m \in Open : \A k \in Open : m <= k
    BY <1>1, Least
  <1>3. m \in Nat /\ ~\E f : BoundedTo(z, f, m)
    BY <1>1, <1>2
  <1>4. CASE m = 0
    <2>1. PICK f : f = [k \in {0} |-> Importer!EmptyBound]
      OBVIOUS
    <2>2. f[0] = Importer!EmptyBound /\ 1 .. 0 = {}
      BY <2>1
    <2>3. BoundedTo(z, f, 0)
      BY <2>2 DEF BoundedTo
    <2> QED BY <1>3, <1>4, <2>3
  <1>5. CASE m # 0
    <2>1. PICK l : l = m - 1
      OBVIOUS
    <2>2. l \in Nat /\ ~(m <= l) /\ m = l + 1 /\ l # m
      BY <1>3, <1>5, <2>1
    <2>3. PICK f : BoundedTo(z, f, l)
      BY <1>1, <1>2, <2>2
    <2>4. PICK g : g = [k \in 0 .. m |-> IF k = m THEN Importer!ToInclude(f[l], z[m]) ELSE f[k]]
      OBVIOUS
    <2>5. g[m] = Importer!ToInclude(f[l], z[m]) /\ \A k \in 0 .. l : g[k] = f[k]
      <3>1. m \in 0 .. m /\ \A k \in 0 .. l : k \in 0 .. m /\ k # m
        BY <2>2
      <3> QED BY <2>4, <3>1
    <2>6. \A k \in 1 .. m : g[k] = Importer!ToInclude(g[k - 1], z[k])
      <3> TAKE k \in 1 .. m
      <3>1. CASE k = m
        <4>1. k - 1 = l /\ l \in 0 .. l
          BY <2>2, <3>1
        <4> QED BY <2>5, <3>1, <4>1
      <3>2. CASE k # m
        <4>1. k \in 1 .. l /\ k \in 0 .. l /\ k - 1 \in 0 .. l
          BY <2>2, <3>2
        <4>2. g[k] = f[k] /\ g[k - 1] = f[k - 1]
          BY <2>5, <4>1
        <4> QED BY <2>3, <4>1, <4>2 DEF BoundedTo
      <3> QED BY <3>1, <3>2
    <2>7. g[0] = Importer!EmptyBound
      <3>1. 0 \in 0 .. l
        BY <2>2
      <3> QED BY <2>3, <2>5, <3>1 DEF BoundedTo
    <2>8. BoundedTo(z, g, m)
      BY <2>6, <2>7 DEF BoundedTo
    <2> QED BY <1>3, <2>8
  <1> QED BY <1>4, <1>5

\* What a bound tells of the first k positions.
BoundIs(z, b, k) ==
  IF k = 0 THEN b = Importer!EmptyBound
  ELSE \E i, j \in 1 .. k : /\ b = [min |-> z[i], max |-> z[j]]
                            /\ \A l \in 1 .. k : z[i] <= z[l] /\ z[l] <= z[j]

\* The next position is included.
LEMMA Includes ==
  ASSUME NEW n \in Nat, NEW z \in [1 .. n -> -Infinity .. Infinity],
         NEW k \in 1 .. n, NEW b, BoundIs(z, b, k - 1)
  PROVE  BoundIs(z, Importer!ToInclude(b, z[k]), k)
  <1>1. PICK x : x = z[k]
    OBVIOUS
  <1>2. Infinity \in Int /\ x \in Int /\ -Infinity <= x /\ x <= Infinity
    BY <1>1, ImportAssumption
  <1>3. \A l \in 1 .. n : z[l] \in Int
    BY ImportAssumption
  <1>4. k \in 1 .. k /\ k \in Nat /\ k # 0 /\ \A l \in 1 .. k : l \in 1 .. n /\ (l \in 1 .. k - 1 \/ l = k)
    OBVIOUS
  <1>5. CASE k - 1 = 0
    <2>1. b = [min |-> Infinity, max |-> -Infinity]
      BY <1>5 DEF BoundIs, Importer!EmptyBound
    <2>2. /\ (IF x < Infinity THEN x ELSE Infinity) = x
          /\ (IF x > -Infinity THEN x ELSE -Infinity) = x
      BY <1>2
    <2>3. Importer!ToInclude(b, x) = [min |-> x, max |-> x]
      BY <2>1, <2>2 DEF Importer!ToInclude
    <2>4. \A l \in 1 .. k : z[l] = x
      BY <1>1, <1>4, <1>5
    <2> QED BY <1>1, <1>2, <1>4, <2>3, <2>4 DEF BoundIs
  <1>6. CASE k - 1 # 0
    <2>1. PICK i, j \in 1 .. k - 1 : /\ b = [min |-> z[i], max |-> z[j]]
                                     /\ \A l \in 1 .. k - 1 : z[i] <= z[l] /\ z[l] <= z[j]
      BY <1>6 DEF BoundIs
    <2>2. i \in 1 .. k /\ j \in 1 .. k
      BY <1>4
    <2>3. PICK p : p = IF x < z[i] THEN k ELSE i
      OBVIOUS
    <2>4. PICK q : q = IF x > z[j] THEN k ELSE j
      OBVIOUS
    <2>5. /\ p \in 1 .. k /\ q \in 1 .. k
          /\ z[p] = (IF x < z[i] THEN x ELSE z[i]) /\ z[q] = (IF x > z[j] THEN x ELSE z[j])
      BY <1>1, <1>4, <2>2, <2>3, <2>4
    <2>6. Importer!ToInclude(b, x) = [min |-> z[p], max |-> z[q]]
      BY <2>1, <2>5 DEF Importer!ToInclude
    <2>7. \A l \in 1 .. k : z[p] <= z[l] /\ z[l] <= z[q]
      <3> TAKE l \in 1 .. k
      <3>1. z[i] \in Int /\ z[j] \in Int /\ z[l] \in Int /\ x \in Int
        BY <1>2, <1>3, <1>4, <2>2
      <3>2. l = k => z[l] = x
        BY <1>1
      <3>3. l # k => z[i] <= z[l] /\ z[l] <= z[j]
        BY <1>4, <2>1
      <3> QED BY <2>5, <3>1, <3>2, <3>3
    <2> QED BY <1>1, <1>4, <2>5, <2>6, <2>7 DEF BoundIs
  <1> QED BY <1>5, <1>6

LEMMA BoundHolds ==
  ASSUME NEW n \in Nat, NEW z \in [1 .. n -> -Infinity .. Infinity]
  PROVE  BoundIs(z, Importer!LocalBound(z), n)
  <1>1. z \in Seq(-Infinity .. Infinity) /\ Len(z) = n
    BY AsSequence
  <1>2. Importer!LocalBound(z) = (CHOOSE f : f = BoundBody(z, f))[n]
    BY <1>1 DEF Importer!LocalBound, BoundBody
  <1>3. \E f : f = BoundBody(z, f)
    <2>1. PICK g : BoundedTo(z, g, n)
      BY BoundsExist
    <2>2. PICK f : f = [k \in 0 .. n |-> g[k]]
      OBVIOUS
    <2>3. \A k \in 0 .. n :
            f[k] = IF k = 0 THEN Importer!EmptyBound ELSE Importer!ToInclude(f[k - 1], z[k])
      <3> TAKE k \in 0 .. n
      <3>1. CASE k = 0
        BY <2>1, <2>2, <3>1 DEF BoundedTo
      <3>2. CASE k # 0
        <4>1. k \in 1 .. n /\ k - 1 \in 0 .. n
          BY <3>2
        <4>2. f[k] = g[k] /\ f[k - 1] = g[k - 1]
          BY <2>2, <4>1
        <4> QED BY <2>1, <3>2, <4>1, <4>2 DEF BoundedTo
      <3> QED BY <3>1, <3>2
    <2>4. f = [k \in 0 .. n |-> f[k]]
      BY <2>2
    <2> QED BY <1>1, <2>3, <2>4 DEF BoundBody
  <1>4. PICK f : f = BoundBody(z, f) /\ Importer!LocalBound(z) = f[n]
    BY <1>2, <1>3
  <1>5. /\ f[0] = Importer!EmptyBound
        /\ \A k \in 1 .. n : f[k] = Importer!ToInclude(f[k - 1], z[k])
    <2>1. \A k \in 0 .. n :
            f[k] = IF k = 0 THEN Importer!EmptyBound ELSE Importer!ToInclude(f[k - 1], z[k])
      BY <1>1, <1>4 DEF BoundBody
    <2>2. 0 \in 0 .. n /\ \A k \in 1 .. n : k \in 0 .. n /\ k # 0
      OBVIOUS
    <2> QED BY <2>1, <2>2
  <1>6. SUFFICES ASSUME ~BoundIs(z, f[n], n) PROVE FALSE
    BY <1>4
  <1>7. PICK Wrong : Wrong = {k \in 0 .. n : ~BoundIs(z, f[k], k)}
    OBVIOUS
  <1>8. Wrong \subseteq Nat /\ n \in Wrong
    BY <1>6, <1>7
  <1>9. PICK k \in Wrong : \A m \in Wrong : k <= m
    BY <1>8, Least
  <1>10. k \in 0 .. n /\ ~BoundIs(z, f[k], k)
    BY <1>7
  <1>11. k # 0
    BY <1>5, <1>10 DEF BoundIs
  <1>12. k \in 1 .. n /\ k - 1 \in 0 .. n /\ ~(k <= k - 1)
    BY <1>10, <1>11
  <1>13. BoundIs(z, f[k - 1], k - 1)
    BY <1>7, <1>9, <1>12
  <1> QED BY <1>5, <1>10, <1>12, <1>13, Includes

\* The index that the i-th component of an accessor of u16 spells.
IndexAt(p, i) == p.bytes[(i - 1) * p.stride + 1] + 256 * p.bytes[(i - 1) * p.stride + 2]

\* Components of two bytes are read as they are.
LEMMA ReadAsSpelled ==
  ASSUME NEW p, p.count \in Nat, p.size = 2, p.stride \in Nat
  PROVE  Importer!ReadAccessorData(p) = [i \in 1 .. p.count |-> IndexAt(p, i)]
  <1>1. PICK n, st, b : n = p.count /\ st = p.stride /\ b = p.bytes
    OBVIOUS
  <1>2. n \in Nat /\ n * 2 \in Nat /\ st \in Nat
    BY <1>1
  <1>3. PICK src : src = [k \in 1 .. n * 2 |-> b[((k - 1) \div 2) * st + ((k - 1) % 2) + 1]]
    OBVIOUS
  <1>4. PICK S : S = {src[k] : k \in 1 .. n * 2} \cup {0}
    OBVIOUS
  <1>5. src \in Seq(S) /\ Len(src) = n * 2
    <2>1. src \in [1 .. n * 2 -> S]
      BY <1>3, <1>4
    <2> QED BY <1>2, <2>1, AsSequence
  <1>6. PICK none : none = [k \in 1 .. n * (2 - 2) |-> 0]
    OBVIOUS
  <1>7. none \in Seq(S) /\ Len(none) = 0
    <2>1. n * (2 - 2) = 0
      BY <1>2
    <2>2. none \in [1 .. 0 -> S]
      BY <1>4, <1>6, <2>1
    <2> QED BY <2>2, AsSequence
  <1>8. PICK dst : dst = src \o none
    OBVIOUS
  <1>9. \A k \in 1 .. n * 2 : dst[k] = src[k]
    <2>1. /\ Len(dst) = Len(src) + Len(none)
          /\ \A k \in 1 .. Len(dst) : dst[k] = IF k <= Len(src) THEN src[k] ELSE none[k - Len(src)]
      BY <1>5, <1>7, <1>8, ConcatProperties
    <2>2. Len(dst) = n * 2
      BY <1>2, <1>5, <1>7, <2>1
    <2>3. \A k \in 1 .. n * 2 : k <= n * 2
      BY <1>2
    <2> QED BY <1>5, <2>1, <2>2, <2>3
  <1>10. Importer!ReadAccessorData(p) = [i \in 1 .. n |-> dst[2 * i - 1] + 256 * dst[2 * i]]
    BY <1>1, <1>3, <1>6, <1>8 DEF Importer!ReadAccessorData, Importer!Components
  <1>11. ASSUME NEW i \in 1 .. n
         PROVE  dst[2 * i - 1] + 256 * dst[2 * i] = IndexAt(p, i)
    <2>1. /\ 2 * i - 1 \in 1 .. n * 2 /\ 2 * i \in 1 .. n * 2
          /\ ((2 * i - 1) - 1) \div 2 = i - 1 /\ ((2 * i - 1) - 1) % 2 = 0
          /\ (2 * i - 1) \div 2 = i - 1 /\ (2 * i - 1) % 2 = 1
      BY <1>2
    <2>2. PICK a : a = (i - 1) * st
      OBVIOUS
    <2>3. a \in Int
      BY <1>2, <2>2
    <2>4. src[2 * i - 1] = b[a + 1]
      <3>1. src[2 * i - 1] = b[a + 0 + 1]
        BY <1>3, <2>1, <2>2
      <3> QED BY <2>3, <3>1
    <2>5. src[2 * i] = b[a + 2]
      <3>1. src[2 * i] = b[a + 1 + 1]
        BY <1>3, <2>1, <2>2
      <3>2. a + 1 + 1 = a + 2
        BY <2>3
      <3> QED BY <3>1, <3>2
    <2>6. dst[2 * i - 1] = b[a + 1] /\ dst[2 * i] = b[a + 2]
      BY <1>9, <2>1, <2>4, <2>5
    <2> QED BY <1>1, <2>2, <2>6 DEF IndexAt
  <1> QED BY <1>1, <1>10, <1>11

Spelled(q, n, g) == q = [i \in 1 .. n |-> g[i]]

\* Each triangle changes its winding, and indices that are left over stay.
LEMMA WindingChanges ==
  ASSUME NEW n \in Nat, NEW g, NEW q, Spelled(q, n, g)
  PROVE  LET m == Importer!Mirrored(q) IN
         /\ Len(m) = n
         /\ \A t \in 1 .. n \div 3 : LET i == 3 * t - 2 IN
              SubSeq(m, i, i + 2) = <<g[i], g[i + 2], g[i + 1]>>
         /\ \A i \in 3 * (n \div 3) + 1 .. n : m[i] = g[i]
  <1>0. q = [i \in 1 .. n |-> g[i]]
    BY DEF Spelled
  <1>1. PICK d, r : d = n \div 3 /\ r = n % 3
    OBVIOUS
  <1>2. d \in Int /\ r \in 0 .. 2 /\ n = 3 * d + r
    BY <1>1, Remainders
  <1>3. PICK S : S = {g[i] : i \in 1 .. n}
    OBVIOUS
  <1>4. q \in Seq(S) /\ Len(q) = n
    <2>1. q \in [1 .. n -> S]
      BY <1>0, <1>3
    <2> QED BY <2>1, AsSequence
  <1>5. PICK m : m = Importer!Mirrored(q)
    OBVIOUS
  <1>6. PICK whole : whole = n - r
    OBVIOUS
  <1>7. whole = 3 * d
    BY <1>2, <1>6
  <1>8. m = [i \in 1 .. n |-> q[IF i > whole \/ i % 3 = 1 THEN i
                                ELSE IF i % 3 = 2 THEN i + 1 ELSE i - 1]]
    BY <1>1, <1>4, <1>5, <1>6 DEF Importer!Mirrored
  <1>9. \A t \in 1 .. d : LET i == 3 * t - 2 IN
          /\ i \in 1 .. n /\ i + 1 \in 1 .. n /\ i + 2 \in 1 .. n
          /\ m[i] = g[i] /\ m[i + 1] = g[i + 2] /\ m[i + 2] = g[i + 1]
    <2> TAKE t \in 1 .. d
    <2>1. PICK i : i = 3 * t - 2
      OBVIOUS
    <2>2. /\ i \in 1 .. n /\ i + 1 \in 1 .. n /\ i + 2 \in 1 .. n
          /\ ~(i > whole) /\ ~(i + 1 > whole) /\ ~(i + 2 > whole)
          /\ i % 3 = 1 /\ (i + 1) % 3 = 2 /\ (i + 2) % 3 = 0
          /\ (i + 1) + 1 = i + 2 /\ (i + 2) - 1 = i + 1
      BY <1>2, <1>7, <2>1
    <2>3. m[i] = q[i]
      BY <1>8, <2>2
    <2>4. m[i + 1] = q[i + 2]
      BY <1>8, <2>2
    <2>5. m[i + 2] = q[i + 1]
      BY <1>8, <2>2
    <2>6. q[i] = g[i] /\ q[i + 1] = g[i + 1] /\ q[i + 2] = g[i + 2]
      BY <1>0, <2>2
    <2> QED BY <2>1, <2>2, <2>3, <2>4, <2>5, <2>6
  <1>10. \A i \in 3 * d + 1 .. n : m[i] = g[i]
    <2> TAKE i \in 3 * d + 1 .. n
    <2>1. i \in 1 .. n /\ i > whole
      BY <1>2, <1>7
    <2> QED BY <1>0, <1>8, <2>1
  <1>11. \A i \in 1 .. n : \E j \in 1 .. n : m[i] = g[j]
    <2> TAKE i \in 1 .. n
    <2>1. CASE i > whole
      <3>1. i \in 3 * d + 1 .. n
        BY <1>2, <1>7, <2>1
      <3> QED BY <1>10, <3>1
    <2>2. CASE ~(i > whole)
      <3>1. PICK t, k : t = (i + 2) \div 3 /\ k = (i + 2) % 3
        OBVIOUS
      <3>2. t \in Int /\ k \in 0 .. 2 /\ i + 2 = 3 * t + k
        BY <3>1, Remainders
      <3>3. t \in 1 .. d
        BY <1>2, <1>7, <2>2, <3>2
      <3>4. i = 3 * t - 2 \/ i = (3 * t - 2) + 1 \/ i = (3 * t - 2) + 2
        BY <3>2, <3>3
      <3> QED BY <1>9, <3>3, <3>4
    <2> QED BY <2>1, <2>2
  <1>12. m \in Seq(S) /\ Len(m) = n
    <2>1. \A i \in 1 .. n : m[i] \in S
      BY <1>3, <1>11
    <2>2. m = [i \in 1 .. n |-> m[i]]
      BY <1>8
    <2>3. [i \in 1 .. n |-> m[i]] \in [1 .. n -> S]
      BY <2>1
    <2>4. m \in [1 .. n -> S]
      BY <2>2, <2>3, Zenon
    <2> QED BY <2>4, AsSequence
  <1>13. ASSUME NEW t \in 1 .. d
         PROVE  LET i == 3 * t - 2 IN SubSeq(m, i, i + 2) = <<g[i], g[i + 2], g[i + 1]>>
    <2>1. PICK i, x, y, z : i = 3 * t - 2 /\ x = g[i] /\ y = g[i + 2] /\ z = g[i + 1]
      OBVIOUS
    <2>2. /\ i \in 1 .. n /\ i + 1 \in 1 .. n /\ i + 2 \in 1 .. n
          /\ m[i] = x /\ m[i + 1] = y /\ m[i + 2] = z
      BY <1>9, <2>1
    <2>3. PICK s : s = SubSeq(m, i, i + 2)
      OBVIOUS
    <2>4. s \in Seq(S) /\ Len(s) = 3 /\ \A k \in 1 .. 3 : s[k] = m[i + k - 1]
      <3>1. i \in Int /\ i + 2 \in Int /\ i <= i + 2 /\ (i + 2) - i + 1 = 3
        BY <2>2
      <3>2. \A k \in i .. i + 2 : m[k] \in S
        <4>1. \A k \in i .. i + 2 : k \in 1 .. Len(m)
          BY <1>12, <2>2
        <4> QED BY <1>12, <4>1, ElementOfSeq
      <3>3. /\ s \in Seq(S)
            /\ Len(s) = IF i <= i + 2 THEN (i + 2) - i + 1 ELSE 0
            /\ \A k \in 1 .. (i + 2) - i + 1 : s[k] = m[i + k - 1]
        BY <2>3, <3>1, <3>2, SubSeqProperties
      <3> QED BY <3>1, <3>3
    <2>5. s[1] = x /\ s[2] = y /\ s[3] = z
      <3>1. i + 1 - 1 = i /\ i + 2 - 1 = i + 1 /\ i + 3 - 1 = i + 2
        BY <2>2
      <3> QED BY <2>2, <2>4, <3>1
    <2>6. PICK u : u = <<x, y, z>>
      OBVIOUS
    <2>7. u \in Seq(S) /\ Len(u) = 3 /\ u[1] = x /\ u[2] = y /\ u[3] = z
      <3>1. x \in S /\ y \in S /\ z \in S
        BY <1>3, <2>1, <2>2
      <3> QED BY <2>6, <3>1
    <2>8. \A k \in 1 .. 3 : k = 1 \/ k = 2 \/ k = 3
      OBVIOUS
    <2>9. s = u
      BY <2>4, <2>5, <2>7, <2>8, SeqEqual
    <2> QED BY <2>1, <2>3, <2>6, <2>9
  <1> QED BY <1>1, <1>5, <1>10, <1>12, <1>13

\* The part that CollectPart makes of a primitive.
PositionsOf(p) == [i \in DOMAIN p.positions |-> Importer!toMkVec(p.positions[i])]

PartOf(p) ==
  [positions |-> PositionsOf(p), indices |-> Importer!Mirrored(Importer!ReadAccessorData(p)),
   localBound |-> Importer!LocalBound(PositionsOf(p))]

LEMMA PartIsFaithful ==
  ASSUME NEW p, Importer!Primitive(p)
  PROVE  Importer!PartFaithful(p, PartOf(p))
  <1>1. PICK z, n, zs : z = PositionsOf(p) /\ n = Len(p.positions) /\ zs = Importer!Range(z)
    OBVIOUS
  <1>2. PICK b, x : b = Importer!LocalBound(z) /\ x = Importer!Mirrored(Importer!ReadAccessorData(p))
    OBVIOUS
  <1>3. PICK part : part = PartOf(p)
    OBVIOUS
  <1>4. part.positions = z /\ part.indices = x /\ part.localBound = b
    BY <1>1, <1>2, <1>3 DEF PartOf
  <1>5. p.positions \in Seq(-Infinity .. Infinity) /\ Infinity \in Nat
    BY ImportAssumption DEF Importer!Primitive
  <1>6. n \in Nat /\ DOMAIN p.positions = 1 .. n /\ \A i \in 1 .. n : p.positions[i] \in -Infinity .. Infinity
    BY <1>1, <1>5, LenProperties, ElementOfSeq
  <1>7. z \in [1 .. n -> -Infinity .. Infinity] /\ \A i \in 1 .. n : z[i] + p.positions[i] = 0
    <2>1. z = [i \in 1 .. n |-> -p.positions[i]]
      BY <1>1, <1>6 DEF PositionsOf, Importer!toMkVec
    <2>2. \A i \in 1 .. n : -p.positions[i] \in -Infinity .. Infinity /\ -p.positions[i] + p.positions[i] = 0
      BY <1>5, <1>6
    <2> QED BY <2>1, <2>2
  <1>8. Len(z) = n /\ DOMAIN z = 1 .. n
    BY <1>6, <1>7, AsSequence
  <1>9. zs = {z[i] : i \in 1 .. n}
    BY <1>1, <1>8 DEF Importer!Range
  <1>10. IF zs = {} THEN b = Importer!EmptyBound
         ELSE /\ {b.min, b.max} \subseteq zs
              /\ \A y \in zs : b.min <= y /\ y <= b.max
    <2>1. BoundIs(z, b, n)
      BY <1>2, <1>6, <1>7, BoundHolds
    <2>2. CASE n = 0
      BY <1>9, <2>1, <2>2 DEF BoundIs
    <2>3. CASE n # 0
      <3>1. PICK i, j \in 1 .. n : /\ b = [min |-> z[i], max |-> z[j]]
                                   /\ \A l \in 1 .. n : z[i] <= z[l] /\ z[l] <= z[j]
        BY <2>1, <2>3 DEF BoundIs
      <3>2. b.min = z[i] /\ b.max = z[j]
        BY <3>1
      <3> QED BY <1>9, <3>1, <3>2
    <2> QED BY <2>2, <2>3
  <1>11. ASSUME p.size = 2
         PROVE  /\ Len(x) = p.count
                /\ \A t \in 1 .. p.count \div 3 : LET i == 3 * t - 2 IN
                     SubSeq(x, i, i + 2) = <<IndexAt(p, i), IndexAt(p, i + 2), IndexAt(p, i + 1)>>
                /\ \A i \in 3 * (p.count \div 3) + 1 .. p.count : x[i] = IndexAt(p, i)
    <2>1. PICK c : c = p.count
      OBVIOUS
    <2>2. c \in Nat /\ p.stride \in Nat
      BY <2>1 DEF Importer!Primitive
    <2>3. PICK g : g = [i \in Nat |-> IndexAt(p, i)]
      OBVIOUS
    <2>4. \A i \in 1 .. c : g[i] = IndexAt(p, i)
      BY <2>3
    <2>5. PICK q : q = Importer!ReadAccessorData(p)
      OBVIOUS
    <2>6. q = [i \in 1 .. c |-> g[i]]
      <3>1. q = [i \in 1 .. c |-> IndexAt(p, i)]
        BY <1>11, <2>1, <2>2, <2>5, ReadAsSpelled
      <3> QED BY <2>4, <3>1
    <2>7. /\ Len(x) = c
          /\ \A t \in 1 .. c \div 3 : LET i == 3 * t - 2 IN
               SubSeq(x, i, i + 2) = <<g[i], g[i + 2], g[i + 1]>>
          /\ \A i \in 3 * (c \div 3) + 1 .. c : x[i] = g[i]
      <3>1. LET m == Importer!Mirrored(q) IN
            /\ Len(m) = c
            /\ \A t \in 1 .. c \div 3 : LET i == 3 * t - 2 IN
                 SubSeq(m, i, i + 2) = <<g[i], g[i + 2], g[i + 1]>>
            /\ \A i \in 3 * (c \div 3) + 1 .. c : m[i] = g[i]
        <4>1. Spelled(q, c, g)
          BY <2>6 DEF Spelled
        <4> QED BY ONLY <2>2, <4>1, WindingChanges
      <3>2. x = Importer!Mirrored(q)
        BY <1>2, <2>5
      <3> QED BY <3>1, <3>2
    <2>8. c \div 3 \in Int /\ c = 3 * (c \div 3) + (c % 3) /\ c % 3 \in 0 .. 2
      BY <2>2, Remainders
    <2>9. ASSUME NEW t \in 1 .. c \div 3
          PROVE  LET i == 3 * t - 2 IN
                 SubSeq(x, i, i + 2) = <<IndexAt(p, i), IndexAt(p, i + 2), IndexAt(p, i + 1)>>
      <3>1. PICK i : i = 3 * t - 2
        OBVIOUS
      <3>2. i \in Nat /\ i + 1 \in Nat /\ i + 2 \in Nat
        BY <2>8, <3>1
      <3>3. SubSeq(x, i, i + 2) = <<g[i], g[i + 2], g[i + 1]>>
        BY <2>7, <3>1
      <3>4. g[i] = IndexAt(p, i) /\ g[i + 2] = IndexAt(p, i + 2) /\ g[i + 1] = IndexAt(p, i + 1)
        BY <2>3, <3>2
      <3> QED BY <3>1, <3>3, <3>4
    <2>10. ASSUME NEW i \in 3 * (c \div 3) + 1 .. c PROVE x[i] = IndexAt(p, i)
      <3>1. i \in 1 .. c
        BY <2>2, <2>8
      <3> QED BY <2>4, <2>7, <3>1
    <2> QED BY <2>1, <2>7, <2>9, <2>10
  <1>12. Importer!PartFaithful(p, part)
    BY <1>1, <1>4, <1>6, <1>7, <1>8, <1>10, <1>11 DEF Importer!PartFaithful, IndexAt
  <1> QED BY <1>3, <1>12

\* What is known of a file.
LEMMA FileKnown ==
  ASSUME gltf \in SceneFiles
  PROVE  /\ gltf.children \in [DOMAIN gltf.children -> Seq(DOMAIN gltf.children)]
         /\ gltf.mesh \in [DOMAIN gltf.children -> MeshIndices \cup {-1}]
         /\ gltf.scenes \in Seq(Seq(DOMAIN gltf.children))
         /\ Len(gltf.meshes) \in Nat
         /\ \A m \in 1 .. Len(gltf.meshes) :
              /\ Len(gltf.meshes[m]) \in Nat
              /\ \A k \in 1 .. Len(gltf.meshes[m]) : Importer!Primitive(gltf.meshes[m][k])
BY ImportAssumption DEF Importer!IsFile

-----------------------------------------------------------------------------
(* The meshes. *)

IsList(q) == \E S : q \in Seq(S)

Faithful(ps, q) ==
  /\ IsList(q) /\ Len(q) <= Len(ps)
  /\ \A k \in 1 .. Len(q) : Importer!PartFaithful(ps[k], q[k])

MeshInv ==
  /\ IsList(meshes) /\ IsList(irMesh)
  /\ localPart \in Nat \ {0} /\ Len(irMesh) = localPart - 1
  /\ Len(meshes) <= Len(gltf.meshes)
  /\ Len(meshes) < Len(gltf.meshes) => Faithful(gltf.meshes[Len(meshes) + 1], irMesh)
  /\ \A m \in 1 .. Len(meshes) :
       Faithful(gltf.meshes[m], meshes[m]) /\ Len(meshes[m]) = Len(gltf.meshes[m])
  /\ entities # <<>> \/ importing = "entities" \/ imported = "eOk" =>
       Len(meshes) = Len(gltf.meshes)

\* A list with one element more.
LEMMA ListAppend ==
  ASSUME NEW q, IsList(q), NEW x
  PROVE  LET r == Append(q, x) IN
         /\ IsList(r) /\ Len(q) \in Nat /\ Len(r) = Len(q) + 1 /\ r[Len(q) + 1] = x
         /\ \A k \in 1 .. Len(q) : r[k] = q[k]
  <1>1. PICK S : q \in Seq(S)
    BY DEF IsList
  <1>2. PICK U : U = S \cup {x}
    OBVIOUS
  <1>3. q \in Seq(U) /\ x \in U
    <2>1. S \subseteq U
      BY <1>2
    <2> QED BY <1>1, <1>2, <2>1, SeqMonotonic
  <1>4. PICK r : r = Append(q, x)
    OBVIOUS
  <1>5. /\ r \in Seq(U) /\ Len(q) \in Nat /\ Len(r) = Len(q) + 1 /\ r[Len(q) + 1] = x
        /\ \A k \in 1 .. Len(q) : r[k] = q[k]
    BY <1>3, <1>4, AppendProperties, LenProperties
  <1>6. IsList(r)
    BY <1>5 DEF IsList
  <1> QED BY <1>4, <1>5, <1>6

LEMMA PartMeshes ==
  ASSUME gltf \in SceneFiles, MeshInv, Importer!CollectPart
  PROVE  MeshInv'
  <1>1. PICK M, N, L, ps : M = Len(meshes) /\ N = Len(gltf.meshes) /\ L = Len(irMesh)
                           /\ ps = gltf.meshes[M + 1]
    OBVIOUS
  <1>2. /\ M \in Nat /\ N \in Nat /\ L \in Nat /\ M < N /\ M + 1 \in 1 .. N
        /\ localPart = L + 1 /\ L + 1 <= Len(ps) /\ Len(ps) \in Nat
    <2>1. M \in Nat /\ N \in Nat /\ L \in Nat
      BY <1>1, FileKnown, LenProperties DEF MeshInv, IsList
    <2>2. M < N /\ localPart <= Len(ps)
      BY <1>1 DEF Importer!CollectPart, Importer!Mesh
    <2>3. M + 1 \in 1 .. N
      BY <2>1, <2>2
    <2>4. localPart = L + 1
      <3>1. localPart \in Nat /\ L = localPart - 1
        BY <1>1 DEF MeshInv
      <3> QED BY <3>1
    <2>5. Len(ps) \in Nat
      BY <1>1, <2>3, FileKnown
    <2> QED BY <2>1, <2>2, <2>3, <2>4, <2>5
  <1>3. /\ UNCHANGED <<suffix, gltf, meshes, entities>> /\ importing = "meshes"
    BY DEF Importer!CollectPart, Importer!entityVars
  <1>4. CASE ps[localPart].size >= 4
    <2>1. UNCHANGED <<irMesh, localPart>> /\ importing' = "done" /\ imported' = "eInvalidParam"
      BY <1>1, <1>4 DEF Importer!CollectPart, Importer!Return, Importer!Mesh
    <2> QED BY <1>3, <2>1 DEF MeshInv, Faithful, IsList
  <1>5. CASE ~(ps[localPart].size >= 4)
    <2>1. PICK p, x : p = ps[localPart] /\ x = PartOf(p)
      OBVIOUS
    <2>2. /\ irMesh' = Append(irMesh, x) /\ localPart' = localPart + 1
          /\ UNCHANGED <<importing, imported>>
      BY <1>1, <1>5, <2>1 DEF Importer!CollectPart, Importer!Mesh, PartOf, PositionsOf
    <2>3. Importer!PartFaithful(p, x)
      <3>1. localPart \in 1 .. Len(ps)
        BY <1>2
      <3>2. Importer!Primitive(p)
        BY <1>1, <1>2, <2>1, <3>1, FileKnown
      <3> QED BY <2>1, <3>2, PartIsFaithful
    <2>4. /\ IsList(irMesh') /\ Len(irMesh') = L + 1 /\ irMesh'[L + 1] = x
          /\ \A k \in 1 .. L : irMesh'[k] = irMesh[k]
      BY <1>1, <2>2, ListAppend DEF MeshInv
    <2>5. Faithful(ps, irMesh)
      BY <1>1, <1>2 DEF MeshInv
    <2>6. Faithful(ps, irMesh')
      <3>1. \A k \in 1 .. L + 1 : k \in 1 .. L \/ k = L + 1
        BY <1>2
      <3> QED BY <1>1, <1>2, <2>1, <2>3, <2>4, <2>5, <3>1 DEF Faithful
    <2>7. localPart' \in Nat \ {0} /\ Len(irMesh') = localPart' - 1
      BY <1>2, <2>2, <2>4
    <2>8. (\A m \in 1 .. Len(meshes) :
             Faithful(gltf.meshes[m], meshes[m]) /\ Len(meshes[m]) = Len(gltf.meshes[m]))'
      BY <1>3 DEF MeshInv, Faithful
    <2> QED BY <1>1, <1>3, <2>2, <2>4, <2>6, <2>7, <2>8 DEF MeshInv
  <1> QED BY <1>4, <1>5

LEMMA PushMeshes ==
  ASSUME gltf \in SceneFiles, MeshInv, Importer!PushMesh
  PROVE  MeshInv'
  <1>1. PICK M, N, L, ps : M = Len(meshes) /\ N = Len(gltf.meshes) /\ L = Len(irMesh)
                           /\ ps = gltf.meshes[M + 1]
    OBVIOUS
  <1>2. /\ M \in Nat /\ N \in Nat /\ L \in Nat /\ M < N /\ M + 1 \in 1 .. N
        /\ localPart = L + 1 /\ localPart > Len(ps) /\ Len(ps) \in Nat
    <2>1. M \in Nat /\ N \in Nat /\ L \in Nat
      BY <1>1, FileKnown, LenProperties DEF MeshInv, IsList
    <2>2. M < N /\ localPart > Len(ps)
      BY <1>1 DEF Importer!PushMesh, Importer!Mesh
    <2>3. M + 1 \in 1 .. N
      BY <2>1, <2>2
    <2>4. localPart = L + 1
      <3>1. localPart \in Nat /\ L = localPart - 1
        BY <1>1 DEF MeshInv
      <3> QED BY <3>1
    <2>5. Len(ps) \in Nat
      BY <1>1, <2>3, FileKnown
    <2> QED BY <2>1, <2>2, <2>3, <2>4, <2>5
  <1>3. /\ UNCHANGED <<gltf, importing, imported, entities>>
        /\ meshes' = Append(meshes, irMesh) /\ irMesh' = <<>> /\ localPart' = 1
    BY DEF Importer!PushMesh, Importer!entityVars
  <1>4. Faithful(ps, irMesh) /\ L = Len(ps)
    <2>1. Faithful(ps, irMesh)
      BY <1>1, <1>2 DEF MeshInv
    <2>2. L <= Len(ps)
      BY <1>1, <2>1 DEF Faithful
    <2> QED BY <1>2, <2>1, <2>2
  <1>5. /\ IsList(meshes') /\ Len(meshes') = M + 1 /\ meshes'[M + 1] = irMesh
        /\ \A k \in 1 .. M : meshes'[k] = meshes[k]
    BY <1>1, <1>3, ListAppend DEF MeshInv
  <1>6. ASSUME NEW m \in 1 .. M + 1
        PROVE  Faithful(gltf.meshes[m], meshes'[m]) /\ Len(meshes'[m]) = Len(gltf.meshes[m])
    <2>1. CASE m \in 1 .. M
      BY <1>1, <1>5, <2>1 DEF MeshInv
    <2>2. CASE m = M + 1
      BY <1>1, <1>4, <1>5, <2>2
    <2> QED BY <1>2, <2>1, <2>2
  <1>7. \A qs : Len(qs) \in Nat => Faithful(qs, <<>>)
    <2>1. <<>> \in Seq({}) /\ Len(<<>>) = 0
      OBVIOUS
    <2> QED BY <2>1 DEF Faithful, IsList
  <1>8. Len(meshes') < Len(gltf.meshes)' => Faithful(gltf.meshes[Len(meshes) + 1], irMesh)'
    <2>1. M + 1 < N => (M + 1) + 1 \in 1 .. N
      BY <1>2
    <2>2. M + 1 < N => Len(gltf.meshes[(M + 1) + 1]) \in Nat
      BY <1>1, <2>1, FileKnown
    <2>3. M + 1 < N => Faithful(gltf.meshes[(M + 1) + 1], <<>>)
      BY <1>7, <2>2
    <2> QED BY <1>1, <1>3, <1>5, <2>3
  <1>9. IsList(irMesh') /\ Len(irMesh') = 0
    <2>1. <<>> \in Seq({}) /\ Len(<<>>) = 0
      OBVIOUS
    <2> QED BY <1>3, <2>1 DEF IsList
  <1>10. ~(entities # <<>> \/ importing = "entities" \/ imported = "eOk")
    BY <1>1, <1>2 DEF MeshInv
  <1>11. (\A m \in 1 .. Len(meshes) :
            Faithful(gltf.meshes[m], meshes[m]) /\ Len(meshes[m]) = Len(gltf.meshes[m]))'
    BY <1>3, <1>5, <1>6
  <1> QED BY <1>1, <1>2, <1>3, <1>5, <1>8, <1>9, <1>10, <1>11 DEF MeshInv

-----------------------------------------------------------------------------
(* The roots of the scenes, one scene behind the other. *)

\* The first k scenes in a row are f[k].
JoinedTo(s, f, m) == f[1] = s[1] /\ \A k \in 2 .. m : f[k] = f[k - 1] \o s[k]

LEMMA JoinsExist ==
  ASSUME NEW s, NEW n \in Nat \ {0}
  PROVE  \E f : JoinedTo(s, f, n)
  <1> SUFFICES ASSUME ~\E f : JoinedTo(s, f, n) PROVE FALSE
    OBVIOUS
  <1>1. PICK Open : Open = {m \in Nat \ {0} : ~\E f : JoinedTo(s, f, m)}
    OBVIOUS
  <1>2. PICK m \in Open : \A k \in Open : m <= k
    BY <1>1, Least
  <1>3. m \in Nat \ {0} /\ ~\E f : JoinedTo(s, f, m)
    BY <1>1, <1>2
  <1>4. CASE m = 1
    <2>1. PICK f : f = [k \in {1} |-> s[1]]
      OBVIOUS
    <2>2. f[1] = s[1] /\ 2 .. 1 = {}
      BY <2>1
    <2>3. JoinedTo(s, f, 1)
      BY <2>2 DEF JoinedTo
    <2> QED BY <1>3, <1>4, <2>3
  <1>5. CASE m # 1
    <2>1. PICK l : l = m - 1
      OBVIOUS
    <2>2. l \in Nat \ {0} /\ ~(m <= l) /\ m = l + 1 /\ l # m
      BY <1>3, <1>5, <2>1
    <2>3. PICK f : JoinedTo(s, f, l)
      BY <1>1, <1>2, <2>2
    <2>4. PICK g : g = [k \in 1 .. m |-> IF k = m THEN f[l] \o s[m] ELSE f[k]]
      OBVIOUS
    <2>5. g[m] = f[l] \o s[m] /\ \A k \in 1 .. l : g[k] = f[k]
      <3>1. m \in 1 .. m /\ \A k \in 1 .. l : k \in 1 .. m /\ k # m
        BY <2>2
      <3> QED BY <2>4, <3>1
    <2>6. \A k \in 2 .. m : g[k] = g[k - 1] \o s[k]
      <3> TAKE k \in 2 .. m
      <3>1. CASE k = m
        <4>1. k - 1 = l /\ l \in 1 .. l
          BY <2>2, <3>1
        <4> QED BY <2>5, <3>1, <4>1
      <3>2. CASE k # m
        <4>1. k \in 2 .. l /\ k \in 1 .. l /\ k - 1 \in 1 .. l
          BY <2>2, <3>2
        <4>2. g[k] = f[k] /\ g[k - 1] = f[k - 1]
          BY <2>5, <4>1
        <4> QED BY <2>3, <4>1, <4>2 DEF JoinedTo
      <3> QED BY <3>1, <3>2
    <2>7. g[1] = s[1]
      <3>1. 1 \in 1 .. l
        BY <2>2
      <3> QED BY <2>3, <2>5, <3>1 DEF JoinedTo
    <2>8. JoinedTo(s, g, m)
      BY <2>6, <2>7 DEF JoinedTo
    <2> QED BY <1>3, <2>8
  <1> QED BY <1>4, <1>5

JoinBody(s, f) == [i \in 1 .. Len(s) |-> IF i = 1 THEN s[i] ELSE f[i - 1] \o s[i]]

LEMMA FlattenIsList ==
  ASSUME NEW S, NEW s \in Seq(Seq(S))
  PROVE  Importer!FlattenSeq(s) \in Seq(S)
  <1>1. PICK n : n = Len(s)
    OBVIOUS
  <1>2. n \in Nat /\ (n = 0 => s = <<>>) /\ \A k \in 1 .. n : s[k] \in Seq(S)
    BY <1>1, LenProperties, EmptySeq, ElementOfSeq
  <1>3. CASE n = 0
    <2>1. Importer!FlattenSeq(s) = <<>>
      BY <1>1, <1>2, <1>3 DEF Importer!FlattenSeq
    <2>2. <<>> \in Seq(S)
      OBVIOUS
    <2> QED BY <2>1, <2>2
  <1>4. CASE n # 0
    <2>1. Importer!FlattenSeq(s) = (CHOOSE f : f = JoinBody(s, f))[n]
      BY <1>1, <1>4 DEF Importer!FlattenSeq, JoinBody
    <2>2. \E f : f = JoinBody(s, f)
      <3>1. PICK g : JoinedTo(s, g, n)
        BY <1>2, <1>4, JoinsExist
      <3>2. PICK f : f = [k \in 1 .. n |-> g[k]]
        OBVIOUS
      <3>3. \A k \in 1 .. n : f[k] = IF k = 1 THEN s[k] ELSE f[k - 1] \o s[k]
        <4> TAKE k \in 1 .. n
        <4>1. CASE k = 1
          BY <3>1, <3>2, <4>1 DEF JoinedTo
        <4>2. CASE k # 1
          <5>1. k \in 2 .. n /\ k - 1 \in 1 .. n
            BY <1>2, <4>2
          <5>2. f[k] = g[k] /\ f[k - 1] = g[k - 1]
            BY <3>2, <5>1
          <5> QED BY <3>1, <4>2, <5>1, <5>2 DEF JoinedTo
        <4> QED BY <4>1, <4>2
      <3>4. f = [k \in 1 .. n |-> f[k]]
        BY <3>2
      <3> QED BY ZenonT(30), <1>1, <3>3, <3>4 DEF JoinBody
    <2>3. PICK f : f = JoinBody(s, f) /\ Importer!FlattenSeq(s) = f[n]
      BY <2>1, <2>2
    <2>4. \A k \in 1 .. n : f[k] = IF k = 1 THEN s[k] ELSE f[k - 1] \o s[k]
      BY <1>1, <2>3 DEF JoinBody
    <2>5. SUFFICES ASSUME f[n] \notin Seq(S) PROVE FALSE
      BY <2>3
    <2>6. PICK Wrong : Wrong = {k \in 1 .. n : f[k] \notin Seq(S)}
      OBVIOUS
    <2>7. Wrong \subseteq Nat /\ n \in Wrong
      BY <1>2, <1>4, <2>5, <2>6
    <2>8. PICK k \in Wrong : \A m \in Wrong : k <= m
      BY <2>7, Least
    <2>9. k \in 1 .. n /\ f[k] \notin Seq(S)
      BY <2>6
    <2>10. k # 1
      BY <1>2, <2>4, <2>9
    <2>11. k - 1 \in 1 .. n /\ ~(k <= k - 1)
      BY <1>2, <2>9, <2>10
    <2>12. f[k - 1] \in Seq(S)
      BY <2>6, <2>8, <2>11
    <2>13. s[k] \in Seq(S) /\ f[k] = f[k - 1] \o s[k]
      BY <1>2, <2>4, <2>9, <2>10
    <2> QED BY <2>9, <2>12, <2>13, ConcatProperties
  <1> QED BY <1>3, <1>4

LEMMA RootsAreNodes ==
  ASSUME gltf \in SceneFiles
  PROVE  Importer!AllRoots \in Seq(DOMAIN gltf.children)
  <1>1. PICK D, s : D = DOMAIN gltf.children /\ s = gltf.scenes
    OBVIOUS
  <1>2. s \in Seq(Seq(D))
    BY <1>1, FileKnown
  <1>3. Importer!AllRoots = Importer!FlattenSeq(s)
    BY <1>1 DEF Importer!AllRoots
  <1> QED BY <1>1, <1>2, <1>3, FlattenIsList

\* The bound in EntitiesFaithful: so many indices a u16 can tell.
EntityInv ==
  /\ TypedTrees(gltf.children, entities, collecting, stale)
  /\ FramesSound(gltf.children, entities, collecting)
  /\ capacity \in Nat /\ Len(entities) <= capacity /\ entityBlock \in Nat /\ roots \in Nat
  /\ Len(entities) <= U16 =>
       TreesSound(gltf.children, gltf.mesh, entities, collecting, stale)

\* collectEntityTree is called for the node n.
LEMMA Collects ==
  ASSUME gltf \in SceneFiles, EntityInv, NEW n \in DOMAIN gltf.children,
         CalledFor(gltf.children, collecting, n), Importer!Collect(n), roots' \in Nat
  PROVE  EntityInv'
  <1>1. PICK ch, mesh, es, q, lost :
          ch = gltf.children /\ mesh = gltf.mesh /\ es = entities /\ q = collecting /\ lost = stale
    OBVIOUS
  <1>2. PICK es2, q2, N, room : es2 = entities' /\ q2 = collecting' /\ N = Len(es) /\ room = capacity'
    OBVIOUS
  <1>3. TypedTrees(ch, es, q, lost) /\ FramesSound(ch, es, q) /\ n \in DOMAIN ch /\ CalledFor(ch, q, n)
    BY <1>1 DEF EntityInv
  <1>4. PICK i \in IF mesh[n] = -1 THEN MeshIndices ELSE {mesh[n]} :
          es2 = Append(es, [transform |-> n, meshIndex |-> i, children |-> <<>>])
    BY <1>1, <1>2 DEF Importer!Collect
  <1>5. PICK x : x = [transform |-> n, meshIndex |-> i, children |-> <<>>]
    OBVIOUS
  <1>6. /\ x.transform = n /\ x.meshIndex = i /\ x.children = <<>>
        /\ i \in MeshIndices /\ (mesh[n] # -1 => i = mesh[n])
    <2>1. mesh[n] \in MeshIndices \cup {-1}
      BY <1>1, <1>3, FileKnown
    <2>2. i \in MeshIndices /\ (mesh[n] # -1 => i = mesh[n])
      BY <1>4, <2>1
    <2> QED BY <1>5, <2>2
  <1>7. x \in EntityType(ch)
    BY <1>3, <1>5, <1>6 DEF EntityType
  <1>8. PICK f : f = [index |-> N, entity |-> entityBlock', node |-> n, child |-> 0]
    OBVIOUS
  <1>9. q2 = Append(q, f)
    BY <1>1, <1>2, <1>8 DEF Importer!Collect
  <1>10. N \in Nat
    BY <1>2, <1>3, EntityTypes
  <1>11. entityBlock' \in Nat
    <2>1. entityBlock \in Nat /\ entityBlock' \in {entityBlock, entityBlock + 1}
      BY DEF EntityInv, Importer!Collect
    <2> QED BY <2>1
  <1>12. f \in FrameType(ch)
    BY <1>3, <1>8, <1>10, <1>11 DEF FrameType
  <1>13. CallPushed(es, q, n, x, f, es2, q2)
    BY <1>2, <1>4, <1>5, <1>6, <1>8, <1>9 DEF CallPushed
  <1>14. TypedTrees(ch, es2, q2, lost) /\ FramesSound(ch, es2, q2) /\ Len(es2) = N + 1
    BY ONLY <1>2, <1>3, <1>7, <1>12, <1>13, PushFrames
  <1>15. ASSUME Len(es2) <= U16 PROVE TreesSound(ch, mesh, es2, q2, lost)
    <2>1. N <= U16
      <3>1. U16 \in Nat
        BY TreeAssumption
      <3> QED BY <1>10, <1>14, <1>15, <3>1
    <2>2. TreesSound(ch, mesh, es, q, lost)
      BY <1>1, <1>2, <2>1 DEF EntityInv
    <2>3. mesh[n] # -1 => x.meshIndex = mesh[n]
      BY <1>6
    <2> QED BY ONLY <1>3, <1>7, <1>12, <1>13, <2>2, <2>3, PushTrees
  <1>16. room \in Nat /\ N + 1 <= room
    <2>1. PICK c : c = capacity
      OBVIOUS
    <2>2. c \in Nat /\ N <= c
      BY <1>1, <1>2, <2>1 DEF EntityInv
    <2>3. PICK h : h = (c * 3) \div 2
      OBVIOUS
    <2>4. h \in Int
      BY <2>2, <2>3, Remainders
    <2>5. room = IF N + 1 <= c THEN c ELSE IF h > N + 1 THEN h ELSE N + 1
      BY <1>1, <1>2, <2>1, <2>3 DEF Importer!Collect, Importer!Grown
    <2> QED BY ONLY <1>10, <2>2, <2>4, <2>5
  <1>17. UNCHANGED <<gltf, stale>>
    BY DEF Importer!Collect
  <1> QED BY <1>1, <1>2, <1>11, <1>14, <1>15, <1>16, <1>17 DEF EntityInv

LEMMA RootCollects ==
  ASSUME gltf \in SceneFiles, EntityInv, Importer!CollectRoot
  PROVE  EntityInv'
  <1>1. PICK n, r, s : n = s[r + 1] /\ r = roots /\ s = Importer!AllRoots
    OBVIOUS
  <1>2. /\ collecting = <<>> /\ r < Len(s) /\ roots' = r + 1 /\ Importer!Collect(n)
    BY <1>1 DEF Importer!CollectRoot
  <1>3. r \in Nat
    BY <1>1 DEF EntityInv
  <1>4. n \in DOMAIN gltf.children
    <2>1. s \in Seq(DOMAIN gltf.children)
      BY <1>1, RootsAreNodes
    <2>2. r + 1 \in 1 .. Len(s)
      BY <1>2, <1>3, <2>1, LenProperties
    <2> QED BY <1>1, <2>1, <2>2, ElementOfSeq
  <1>5. CalledFor(gltf.children, collecting, n)
    BY <1>2 DEF CalledFor
  <1>6. roots' \in Nat
    BY <1>2, <1>3
  <1> QED BY <1>2, <1>4, <1>5, <1>6, Collects

LEMMA ChildCollects ==
  ASSUME gltf \in SceneFiles, EntityInv, Importer!CollectChild
  PROVE  EntityInv'
  <1>1. PICK q, D, frame, n : /\ q = collecting /\ D = Len(q) /\ frame = q[D]
                              /\ n = gltf.children[frame.node][frame.child + 1]
    OBVIOUS
  <1>2. Importer!Last(collecting) = frame
    BY <1>1 DEF Importer!Last
  <1>3. /\ q # <<>> /\ frame.child < Len(gltf.children[frame.node])
        /\ roots' = roots /\ Importer!Collect(n)
    BY <1>1, <1>2 DEF Importer!CollectChild
  <1>4. D \in 1 .. D
    <2>1. q \in Seq(FrameType(gltf.children))
      BY <1>1 DEF EntityInv, TypedTrees
    <2> QED BY <1>1, <1>3, <2>1, FirstAndLast
  <1>5. PICK node, c, l : node = frame.node /\ c = frame.child /\ l = Len(gltf.children[node])
    OBVIOUS
  <1>6. /\ c \in Nat /\ l \in Nat /\ c < l
        /\ \A j \in 1 .. l : gltf.children[node][j] \in DOMAIN gltf.children
    <2>1. TypedTrees(gltf.children, entities, q, stale)
      BY <1>1 DEF EntityInv
    <2>2. c \in Nat /\ node \in DOMAIN gltf.children
      BY <1>1, <1>4, <1>5, <2>1, EntityTypes
    <2> QED BY <1>3, <1>5, <2>1, <2>2, EntityTypes
  <1>7. n \in DOMAIN gltf.children
    <2>1. c + 1 \in 1 .. l
      BY <1>6
    <2> QED BY <1>1, <1>5, <1>6, <2>1
  <1>8. CalledFor(gltf.children, collecting, n)
    BY <1>1, <1>3 DEF CalledFor
  <1>9. roots' \in Nat
    BY <1>3 DEF EntityInv
  <1> QED BY <1>3, <1>7, <1>8, <1>9, Collects

\* A u16 tells an index that is small enough.
LEMMA SmallRemainder ==
  ASSUME NEW m \in Nat \ {0}, NEW a \in 0 .. m - 1
  PROVE  a % m = a
  <1>1. PICK d, r, p : d = a \div m /\ r = a % m /\ p = m * d
    OBVIOUS
  <1>2. d \in Int /\ r \in 0 .. m - 1 /\ a = p + r
    BY <1>1, Remainders
  <1>3. d >= 1 => p >= m
    BY <1>1, <1>2
  <1>4. d <= -1 => p <= -m
    BY <1>1, <1>2
  <1>5. d = 0 => p = 0
    BY <1>1, <1>2
  <1> QED BY <1>1, <1>2, <1>3, <1>4, <1>5

\* The innermost call returns.
LEMMA CallReturns ==
  ASSUME gltf \in SceneFiles, EntityInv, Importer!ReturnIndex
  PROVE  EntityInv'
  <1>1. PICK ch, mesh, es, q, lost :
          ch = gltf.children /\ mesh = gltf.mesh /\ es = entities /\ q = collecting /\ lost = stale
    OBVIOUS
  <1>2. PICK es2, q2, lost2, N, D : /\ es2 = entities' /\ q2 = collecting' /\ lost2 = stale'
                                    /\ N = Len(es) /\ D = Len(q)
    OBVIOUS
  <1>3. TypedTrees(ch, es, q, lost) /\ FramesSound(ch, es, q)
    BY <1>1 DEF EntityInv
  <1>4. /\ N \in Nat /\ D \in Nat /\ q \in Seq(FrameType(ch)) /\ es \in Seq(EntityType(ch))
        /\ lost \subseteq 0 .. N - 1
    BY <1>2, <1>3, EntityTypes DEF TypedTrees
  <1>5. q # <<>> /\ D \in 1 .. D
    <2>1. q # <<>>
      BY <1>1 DEF Importer!ReturnIndex
    <2> QED BY <1>2, <1>4, <2>1, FirstAndLast
  <1>6. PICK frame, caller, a : frame = q[D] /\ a = D - 1 /\ caller = q[a]
    OBVIOUS
  <1>7. PICK front : front = SubSeq(q, 1, D - 1)
    OBVIOUS
  <1>8. D > 1 => front \in Seq(FrameType(ch)) /\ Len(front) = a /\ front[a] = caller
    <2> HAVE D > 1
    <2>1. front = Front(q)
      BY <1>2, <1>7 DEF Front
    <2>2. a \in 1 .. a /\ Len(q) > 1
      BY <1>2, <1>4, <1>6
    <2> QED BY <1>2, <1>4, <1>6, <2>1, <2>2, FrontElements
  <1>9. /\ Importer!Last(q) = frame /\ Importer!Front(q) = front
        /\ D > 1 => Importer!Last(front) = caller
        /\ Importer!Front(front) = Front(Front(q))
    BY <1>2, <1>6, <1>7, <1>8 DEF Importer!Last, Importer!Front, Front
  <1>10. /\ frame.child = Len(ch[frame.node])
         /\ IF D = 1 THEN q2 = <<>> /\ es2 = es /\ lost2 = lost
            ELSE /\ q2 = Append(Front(Front(q)), [caller EXCEPT !.child = @ + 1])
                 /\ IF caller.entity = entityBlock
                    THEN /\ es2 = [es EXCEPT ![caller.index + 1].children =
                                                Append(@, frame.index % U16)]
                         /\ lost2 = lost
                    ELSE lost2 = lost \cup {caller.index} /\ es2 = es
    <2>1. D > 1 \/ D = 1
      BY <1>5
    <2> QED BY <1>1, <1>2, <1>9, <2>1 DEF Importer!ReturnIndex
  <1>11. Returning(ch, q)
    BY <1>2, <1>5, <1>6, <1>10 DEF Returning
  <1>12. Popped(q, q2)
    BY <1>2, <1>6, <1>10 DEF Popped
  <1>13. q2 \in Seq(FrameType(ch)) /\ Len(q2) = D - 1
    BY <1>2, <1>4, <1>5, <1>12, PopCalls
  <1>14. D > 1 => caller.index \in 0 .. N - 1
    <2> HAVE D > 1
    <2>1. a \in 1 .. D
      BY <1>4, <1>6
    <2>2. FrameSound(ch, es, q, a)
      BY <1>2, <1>3, <2>1 DEF FramesSound
    <2>3. q[a].index \in Nat
      BY <1>2, <1>3, <2>1, EntityTypes
    <2>4. q[a].index < N
      BY <1>2, <2>2 DEF FrameSound
    <2>5. PICK i : i = q[a].index
      OBVIOUS
    <2> QED BY <1>4, <1>6, <2>3, <2>4, <2>5
  <1>15. PICK h : h = frame.index
    OBVIOUS
  <1>16. h \in 0 .. N - 1
    <2>1. FrameSound(ch, es, q, D)
      BY <1>2, <1>3, <1>5 DEF FramesSound
    <2>2. h \in Nat
      BY <1>2, <1>3, <1>5, <1>6, <1>15, EntityTypes
    <2>3. h < N
      BY <1>2, <1>6, <1>15, <2>1 DEF FrameSound
    <2> QED BY <1>4, <2>2, <2>3
  <1>17. U16 \in Nat \ {0}
    BY TreeAssumption
  \* The caller does not exist, or has lost its entity.
  <1>18. ASSUME es2 = es, lost2 = lost \/ (D > 1 /\ lost2 = lost \cup {caller.index}),
                D > 1 => caller.index \in lost2
         PROVE  /\ TypedTrees(ch, es2, q2, lost2) /\ FramesSound(ch, es2, q2)
                /\ Len(es2) <= U16 /\ TreesSound(ch, mesh, es, q, lost)
                     => TreesSound(ch, mesh, es2, q2, lost2)
    <2>1. lost2 \subseteq 0 .. N - 1 /\ lost \subseteq lost2
      BY <1>4, <1>14, <1>18
    <2>2. TypedTrees(ch, es2, q2, lost2)
      BY <1>2, <1>3, <1>13, <1>18, <2>1 DEF TypedTrees
    <2>3. SameNodes(es, es2)
      BY <1>18 DEF SameNodes
    <2>4. FramesSound(ch, es2, q2)
      BY ONLY <1>3, <1>5, <1>12, <2>3, PopFrames
    <2>5. Len(q) > 1 => q[Len(q) - 1].index \in lost2
      BY <1>2, <1>6, <1>18
    <2>6. ASSUME TreesSound(ch, mesh, es, q, lost) PROVE TreesSound(ch, mesh, es, q2, lost2)
      BY ONLY <1>3, <1>11, <1>12, <2>1, <2>5, <2>6, PopTrees
    <2> QED BY <1>18, <2>2, <2>4, <2>6
  <1>19. ASSUME D > 1, lost2 = lost,
                es2 = [es EXCEPT ![caller.index + 1].children = Append(@, h % U16)]
         PROVE  /\ TypedTrees(ch, es2, q2, lost2) /\ FramesSound(ch, es2, q2) /\ Len(es2) = N
                /\ Len(es2) <= U16 /\ TreesSound(ch, mesh, es, q, lost)
                     => TreesSound(ch, mesh, es2, q2, lost2)
    <2>1. PICK i, c : i = caller.index + 1 /\ c = h % U16
      OBVIOUS
    <2>2. i \in 1 .. N
      <3>1. PICK k : k = caller.index
        OBVIOUS
      <3>2. k \in 0 .. N - 1 /\ i = k + 1
        BY <1>14, <1>19, <2>1, <3>1
      <3> QED BY ONLY <1>4, <3>2
    <2>3. c \in Nat
      BY <1>16, <1>17, <2>1, Remainders
    <2>4. Given(es, i, c, es2)
      BY <1>19, <2>1 DEF Given
    <2>5. es2 \in Seq(EntityType(ch)) /\ SameNodes(es, es2)
      BY <1>2, <1>4, <2>2, <2>3, <2>4, GivenTo
    <2>6. Len(es2) = N
      BY <1>2, <2>5 DEF SameNodes
    <2>7. TypedTrees(ch, es2, q2, lost2)
      BY <1>2, <1>3, <1>13, <1>19, <2>5, <2>6 DEF TypedTrees
    <2>8. FramesSound(ch, es2, q2)
      BY ONLY <1>3, <1>5, <1>12, <2>5, PopFrames
    <2>9. ASSUME N <= U16, TreesSound(ch, mesh, es, q, lost)
          PROVE  TreesSound(ch, mesh, es2, q2, lost2)
      <3>1. c = h
        <4>1. h \in 0 .. U16 - 1
          BY <1>4, <1>16, <1>17, <2>9
        <4> QED BY <1>17, <2>1, <4>1, SmallRemainder
      <3>2. Len(q) > 1 /\ Given(es, q[Len(q) - 1].index + 1, q[Len(q)].index, es2)
        BY <1>2, <1>6, <1>15, <1>19, <2>1, <2>4, <3>1
      <3>3. TreesSound(ch, mesh, es2, q2, lost)
        BY ONLY <1>3, <1>11, <1>12, <2>9, <3>2, StoreTrees
      <3> QED BY <1>19, <3>3
    <2> QED BY <2>6, <2>7, <2>8, <2>9
  <1>20. /\ TypedTrees(ch, es2, q2, lost2) /\ FramesSound(ch, es2, q2) /\ Len(es2) = N
         /\ Len(es2) <= U16 /\ TreesSound(ch, mesh, es, q, lost)
              => TreesSound(ch, mesh, es2, q2, lost2)
    <2>1. CASE D = 1
      BY <1>2, <1>10, <1>18, <2>1
    <2>2. CASE D # 1
      <3>1. D > 1
        BY <1>5, <2>2
      <3>2. CASE caller.entity = entityBlock
        BY <1>10, <1>15, <1>19, <2>2, <3>1, <3>2
      <3>3. CASE caller.entity # entityBlock
        BY <1>2, <1>10, <1>18, <2>2, <3>1, <3>3
      <3> QED BY <3>2, <3>3
    <2> QED BY <2>1, <2>2
  <1>21. UNCHANGED <<gltf, capacity, entityBlock, roots>>
    BY DEF Importer!ReturnIndex
  <1> QED BY <1>1, <1>2, <1>20, <1>21 DEF EntityInv

-----------------------------------------------------------------------------
(* What is true of every import, and that it is enough. *)

ImportInv ==
  /\ gltf \in SceneFiles
  /\ importing \in {"start", "meshes", "entities", "done"}
  /\ (imported = "none") = (importing # "done")
  /\ MeshInv /\ EntityInv

LEMMA ImportStarts ==
  ASSUME Importer!Init
  PROVE  ImportInv
  <1>1. /\ gltf \in SceneFiles /\ importing = "start" /\ imported = "none"
        /\ irMesh = <<>> /\ localPart = 1 /\ meshes = <<>>
        /\ entities = <<>> /\ capacity = 0 /\ entityBlock = 0
        /\ collecting = <<>> /\ roots = 0 /\ stale = {}
    BY DEF Importer!Init
  <1>2. \A S : <<>> \in Seq(S) /\ Len(<<>>) = 0
    OBVIOUS
  <1>3. Len(gltf.meshes) \in Nat
    BY <1>1, FileKnown
  <1>4. IsList(<<>>)
    BY <1>2 DEF IsList
  <1>5. \A ps : Len(ps) \in Nat => Faithful(ps, <<>>)
    BY <1>2, <1>4 DEF Faithful
  <1>6. 0 < Len(gltf.meshes) => Faithful(gltf.meshes[0 + 1], <<>>)
    <2> HAVE 0 < Len(gltf.meshes)
    <2>1. 0 + 1 \in 1 .. Len(gltf.meshes)
      BY <1>3
    <2>2. Len(gltf.meshes[0 + 1]) \in Nat
      BY <1>1, <2>1, FileKnown
    <2> QED BY <1>5, <2>2
  <1>7. MeshInv
    BY <1>1, <1>2, <1>3, <1>4, <1>6 DEF MeshInv
  <1>8. TypedTrees(gltf.children, entities, collecting, stale)
    <2>1. gltf.children \in [DOMAIN gltf.children -> Seq(DOMAIN gltf.children)]
      BY <1>1, FileKnown
    <2> QED BY <1>1, <1>2, <2>1 DEF TypedTrees
  <1>9. FramesSound(gltf.children, entities, collecting)
    BY <1>1, <1>2 DEF FramesSound
  <1>10. TreesSound(gltf.children, gltf.mesh, entities, collecting, stale)
    <2>1. 1 .. 0 = {} /\ Len(entities) = 0 /\ Len(collecting) = 0
      BY <1>1, <1>2
    <2> QED BY <2>1 DEF TreesSound, ChildrenSound, OneParent, NoParent, FramesKept, Collected,
                        MeshKnown
  <1>11. EntityInv
    BY <1>1, <1>2, <1>8, <1>9, <1>10 DEF EntityInv
  <1> QED BY <1>1, <1>7, <1>11 DEF ImportInv

\* An entity is pushed when the meshes are collected.
LEMMA MeshesStay ==
  ASSUME MeshInv, UNCHANGED <<gltf, irMesh, localPart, meshes>>,
         (entities # <<>> \/ importing = "entities" \/ imported = "eOk")'
           => entities # <<>> \/ importing = "entities" \/ imported = "eOk"
              \/ Len(meshes) = Len(gltf.meshes)
  PROVE  MeshInv'
  <1>1. Len(meshes') = Len(meshes)
    OBVIOUS
  <1>2. (entities # <<>> \/ importing = "entities" \/ imported = "eOk")'
          => Len(meshes) = Len(gltf.meshes)
    BY DEF MeshInv
  <1> QED BY <1>2 DEF MeshInv, Faithful, IsList

LEMMA EntitiesStay ==
  ASSUME EntityInv, UNCHANGED <<gltf, entities, capacity, entityBlock, collecting, roots, stale>>
  PROVE  EntityInv'
BY DEF EntityInv

LEMMA ImportSteps ==
  ASSUME ImportInv, [Importer!Next]_(Importer!vars)
  PROVE  ImportInv'
  <1>1. /\ gltf \in SceneFiles /\ MeshInv /\ EntityInv
        /\ importing \in {"start", "meshes", "entities", "done"}
        /\ (imported = "none") = (importing # "done")
    BY DEF ImportInv
  <1>2. CASE Importer!Load
    <2>1. /\ UNCHANGED <<gltf, irMesh, localPart, meshes>>
          /\ UNCHANGED <<entities, capacity, entityBlock, collecting, roots, stale>>
          /\ importing = "start"
      BY <1>2 DEF Importer!Load, Importer!meshVars, Importer!entityVars
    <2>2. \/ importing' = "done" /\ imported' \notin {"none", "eOk"}
          \/ importing' = "meshes" /\ imported' = imported
      BY <1>2 DEF Importer!Load, Importer!Return, Importer!ReadErrors, Importer!CgltfErrors
    <2>3. MeshInv'
      BY <1>1, <2>1, <2>2, MeshesStay
    <2>4. EntityInv'
      BY <1>1, <2>1, EntitiesStay
    <2> QED BY <1>1, <2>1, <2>2, <2>3, <2>4 DEF ImportInv
  <1>3. CASE Importer!CollectPart
    <2>1. /\ UNCHANGED <<gltf, entities, capacity, entityBlock, collecting, roots, stale>>
          /\ importing = "meshes"
          /\ \/ importing' = "done" /\ imported' = "eInvalidParam"
             \/ UNCHANGED <<importing, imported>>
      BY <1>3 DEF Importer!CollectPart, Importer!Return, Importer!entityVars
    <2>2. MeshInv'
      BY <1>1, <1>3, PartMeshes
    <2>3. EntityInv'
      BY <1>1, <2>1, EntitiesStay
    <2> QED BY <1>1, <2>1, <2>2, <2>3 DEF ImportInv
  <1>4. CASE Importer!PushMesh
    <2>1. UNCHANGED <<gltf, importing, imported, entities, capacity, entityBlock, collecting, roots,
                      stale>>
      BY <1>4 DEF Importer!PushMesh, Importer!entityVars
    <2>2. MeshInv'
      BY <1>1, <1>4, PushMeshes
    <2>3. EntityInv'
      BY <1>1, <2>1, EntitiesStay
    <2> QED BY <1>1, <2>1, <2>2, <2>3 DEF ImportInv
  <1>5. CASE Importer!MeshesCollected
    <2>1. /\ UNCHANGED <<gltf, irMesh, localPart, meshes>>
          /\ UNCHANGED <<entities, capacity, entityBlock, collecting, roots, stale>>
          /\ Len(meshes) = Len(gltf.meshes)
          /\ importing = "meshes" /\ importing' = "entities" /\ imported' = imported
      BY <1>5 DEF Importer!MeshesCollected, Importer!meshVars, Importer!entityVars
    <2>2. MeshInv'
      BY <1>1, <2>1, MeshesStay
    <2>3. EntityInv'
      BY <1>1, <2>1, EntitiesStay
    <2> QED BY <1>1, <2>1, <2>2, <2>3 DEF ImportInv
  <1>6. ASSUME NEW n, importing = "entities", Importer!Collect(n)
        PROVE  UNCHANGED <<gltf, importing, imported>> /\ MeshInv'
    <2>1. UNCHANGED <<gltf, importing, imported, irMesh, localPart, meshes>>
      BY <1>6 DEF Importer!Collect, Importer!meshVars
    <2> QED BY <1>1, <1>6, <2>1, MeshesStay
  <1>7. CASE Importer!CollectRoot
    <2>1. /\ importing = "entities"
          /\ Importer!Collect(Importer!AllRoots[roots + 1])
      BY <1>7 DEF Importer!CollectRoot
    <2>2. EntityInv'
      BY <1>1, <1>7, RootCollects
    <2> QED BY <1>1, <1>6, <2>1, <2>2 DEF ImportInv
  <1>8. CASE Importer!CollectChild
    <2>1. /\ importing = "entities"
          /\ \E n : Importer!Collect(n)
      BY <1>8 DEF Importer!CollectChild
    <2>2. EntityInv'
      BY <1>1, <1>8, ChildCollects
    <2> QED BY <1>1, <1>6, <2>1, <2>2 DEF ImportInv
  <1>9. CASE Importer!ReturnIndex
    <2>1. UNCHANGED <<gltf, importing, imported, irMesh, localPart, meshes>> /\ importing = "entities"
      BY <1>9 DEF Importer!ReturnIndex, Importer!meshVars
    <2>2. MeshInv'
      BY <1>1, <2>1, MeshesStay
    <2>3. EntityInv'
      BY <1>1, <1>9, CallReturns
    <2> QED BY <1>1, <2>1, <2>2, <2>3 DEF ImportInv
  <1>10. CASE Importer!EntitiesCollected
    <2>1. /\ UNCHANGED <<gltf, irMesh, localPart, meshes>>
          /\ UNCHANGED <<entities, capacity, entityBlock, collecting, roots, stale>>
          /\ importing = "entities" /\ importing' = "done" /\ imported' = "eOk"
      BY <1>10 DEF Importer!EntitiesCollected, Importer!Return, Importer!meshVars, Importer!entityVars
    <2>2. MeshInv'
      BY <1>1, <2>1, MeshesStay
    <2>3. EntityInv'
      BY <1>1, <2>1, EntitiesStay
    <2> QED BY <1>1, <2>1, <2>2, <2>3 DEF ImportInv
  <1>11. CASE UNCHANGED Importer!vars
    <2>1. /\ UNCHANGED <<gltf, irMesh, localPart, meshes, importing, imported>>
          /\ UNCHANGED <<entities, capacity, entityBlock, collecting, roots, stale>>
      BY <1>11 DEF Importer!vars, Importer!meshVars, Importer!entityVars
    <2>2. MeshInv'
      BY <1>1, <2>1, MeshesStay
    <2>3. EntityInv'
      BY <1>1, <2>1, EntitiesStay
    <2> QED BY <1>1, <2>1, <2>2, <2>3 DEF ImportInv
  <1> QED BY <1>2, <1>3, <1>4, <1>5, <1>7, <1>8, <1>9, <1>10, <1>11
          DEF Importer!Next, Importer!Done

LEMMA ImportTyped ==
  ASSUME ImportInv
  PROVE  Importer!TypeOK
  <1>1. PICK es, q, N, D : es = entities /\ q = collecting /\ N = Len(es) /\ D = Len(q)
    OBVIOUS
  <1>2. TypedTrees(gltf.children, es, q, stale) /\ FramesSound(gltf.children, es, q)
    BY <1>1 DEF ImportInv, EntityInv
  <1>3. N \in Nat /\ D \in Nat /\ q \in Seq(FrameType(gltf.children)) /\ stale \subseteq 0 .. N - 1
    BY <1>1, <1>2, EntityTypes DEF TypedTrees
  <1>4. ASSUME NEW frame \in Importer!Range(q) PROVE frame.index \in 0 .. N - 1
    <2>1. DOMAIN q = 1 .. D
      BY <1>1, <1>3, LenProperties
    <2>2. PICK d \in 1 .. D : frame = q[d]
      BY <1>4, <2>1 DEF Importer!Range
    <2>3. PICK i : i = frame.index
      OBVIOUS
    <2>4. i \in Nat
      BY <1>1, <1>2, <2>2, <2>3, EntityTypes
    <2>5. i < N
      BY <1>1, <1>2, <2>2, <2>3 DEF FramesSound, FrameSound
    <2> QED BY <1>3, <2>3, <2>4, <2>5
  <1> QED BY <1>1, <1>3, <1>4 DEF ImportInv, MeshInv, EntityInv, Importer!TypeOK

LEMMA MeshesAreFaithful ==
  ASSUME ImportInv
  PROVE  Importer!MeshesFaithful
  <1>1. PICK S : meshes \in Seq(S)
    BY DEF ImportInv, MeshInv, IsList
  <1>2. DOMAIN meshes = 1 .. Len(meshes)
    BY <1>1, LenProperties
  <1>3. ASSUME NEW m \in DOMAIN meshes
        PROVE  /\ Len(meshes[m]) = Len(gltf.meshes[m])
               /\ \A k \in DOMAIN meshes[m] : Importer!PartFaithful(gltf.meshes[m][k], meshes[m][k])
    <2>1. Faithful(gltf.meshes[m], meshes[m]) /\ Len(meshes[m]) = Len(gltf.meshes[m])
      BY <1>2 DEF ImportInv, MeshInv
    <2>2. PICK T : meshes[m] \in Seq(T)
      BY <2>1 DEF Faithful, IsList
    <2>3. DOMAIN meshes[m] = 1 .. Len(meshes[m])
      BY <2>2, LenProperties
    <2> QED BY <2>1, <2>3 DEF Faithful
  <1> QED BY <1>3 DEF ImportInv, MeshInv, Importer!MeshesFaithful

LEMMA EntitiesAreFaithful ==
  ASSUME ImportInv
  PROVE  Importer!EntitiesFaithful
  <1>1. PICK ch, mesh, q, N, D :
          /\ ch = gltf.children /\ mesh = gltf.mesh /\ q = collecting
          /\ N = Len(entities) /\ D = Len(q)
    OBVIOUS
  <1>2. TypedTrees(ch, entities, q, stale) /\ FramesSound(ch, entities, q)
    BY <1>1 DEF ImportInv, EntityInv
  <1>3. DOMAIN entities = 1 .. N /\ DOMAIN q = 1 .. D
    BY <1>1, <1>2, LenProperties DEF TypedTrees
  <1>4. \A k \in 1 .. N :
          /\ entities[k].children \in Seq(Nat) /\ DOMAIN entities[k].children = 1 .. Len(entities[k].children)
          /\ \A j \in 1 .. Len(entities[k].children) : entities[k].children[j] \in Nat
          /\ entities[k].transform \in DOMAIN ch
    BY <1>1, <1>2, EntityTypes, LenProperties
  <1>5. \A n \in DOMAIN ch : ch[n] \in Seq(DOMAIN ch) /\ DOMAIN ch[n] = 1 .. Len(ch[n])
    BY <1>2, LenProperties DEF TypedTrees
  <1>6. SUFFICES ASSUME N <= U16
        PROVE  /\ \A k \in DOMAIN entities :
                    /\ mesh[entities[k].transform] # -1 => entities[k].meshIndex = mesh[entities[k].transform]
                    /\ \A c \in Importer!Range(entities[k].children) :
                         /\ c + 1 > k
                         /\ entities[c + 1].transform \in Importer!Range(ch[entities[k].transform])
               /\ \A k \in {k \in DOMAIN entities : /\ k - 1 \notin stale
                                              /\ \A f \in Importer!Range(q) : f.index # k - 1} :
                    [j \in DOMAIN entities[k].children |-> entities[entities[k].children[j] + 1].transform]
                      = ch[entities[k].transform]
               /\ \A k, l \in DOMAIN entities : k # l =>
                    Importer!Range(entities[k].children) \cap Importer!Range(entities[l].children) = {}
    BY <1>1 DEF Importer!EntitiesFaithful
  <1>7. TreesSound(ch, mesh, entities, q, stale)
    BY <1>1, <1>6 DEF ImportInv, EntityInv
  <1>8. \A k \in 1 .. N : mesh[entities[k].transform] # -1 => entities[k].meshIndex = mesh[entities[k].transform]
    BY <1>1, <1>7 DEF TreesSound, MeshKnown
  <1>9. ASSUME NEW k \in 1 .. N, NEW c \in Importer!Range(entities[k].children)
        PROVE  c + 1 > k /\ entities[c + 1].transform \in Importer!Range(ch[entities[k].transform])
    <2>1. PICK j \in 1 .. Len(entities[k].children) : c = entities[k].children[j]
      BY <1>4, <1>9 DEF Importer!Range
    <2>2. ChildSound(ch, entities, k, c)
      BY <1>1, <1>7, <2>1 DEF TreesSound, ChildrenSound
    <2>3. c \in Nat
      BY <1>4, <2>1
    <2>4. c + 1 > k
      BY <2>2, <2>3 DEF ChildSound
    <2>5. PICK m \in 1 .. Len(ch[entities[k].transform]) : entities[c + 1].transform = ch[entities[k].transform][m]
      BY <2>2 DEF ChildSound
    <2>6. m \in DOMAIN ch[entities[k].transform]
      BY <1>4, <1>5
    <2> QED BY <2>4, <2>5, <2>6 DEF Importer!Range
  <1>10. ASSUME NEW k \in 1 .. N, k - 1 \notin stale, \A f \in Importer!Range(q) : f.index # k - 1
         PROVE  [j \in DOMAIN entities[k].children |-> entities[entities[k].children[j] + 1].transform]
                  = ch[entities[k].transform]
    <2>1. PICK kept, own : kept = entities[k].children /\ own = ch[entities[k].transform]
      OBVIOUS
    <2>2. \A d \in 1 .. D : q[d].index # k - 1
      BY <1>3, <1>10 DEF Importer!Range
    <2>3. KeptFirst(ch, entities, k, Len(own))
      BY <1>1, <1>7, <1>10, <2>1, <2>2 DEF TreesSound, Collected
    <2>4. Len(kept) = Len(own) /\ \A j \in 1 .. Len(own) : entities[kept[j] + 1].transform = own[j]
      BY <2>1, <2>3 DEF KeptFirst
    <2>5. DOMAIN kept = 1 .. Len(own) /\ DOMAIN own = 1 .. Len(own)
      BY <1>4, <1>5, <2>1, <2>4
    <2>6. own = [j \in 1 .. Len(own) |-> own[j]]
      <3>1. own \in Seq(DOMAIN ch)
        BY <1>4, <1>5, <2>1
      <3> QED BY <2>5, <3>1
    <2>7. [j \in DOMAIN kept |-> entities[kept[j] + 1].transform] = [j \in 1 .. Len(own) |-> own[j]]
      BY <2>4, <2>5
    <2> QED BY <2>1, <2>6, <2>7
  <1>11. ASSUME NEW k \in 1 .. N, NEW l \in 1 .. N, k # l
         PROVE  Importer!Range(entities[k].children) \cap Importer!Range(entities[l].children) = {}
    <2> SUFFICES ASSUME NEW c \in Importer!Range(entities[k].children),
                        c \in Importer!Range(entities[l].children)
                 PROVE  FALSE
      OBVIOUS
    <2>1. PICK i \in 1 .. Len(entities[k].children) : c = entities[k].children[i]
      BY <1>4 DEF Importer!Range
    <2>2. PICK j \in 1 .. Len(entities[l].children) : c = entities[l].children[j]
      BY <1>4 DEF Importer!Range
    <2>3. entities[k].children[i] = entities[l].children[j] => k = l
      BY <1>1, <1>7 DEF TreesSound, OneParent
    <2> QED BY <1>11, <2>1, <2>2, <2>3
  <1> QED BY <1>3, <1>8, <1>9, <1>10, <1>11

\* Whatever the file has, as long as it is one.
THEOREM ImportHolds == Importer!Spec => []ImportSound
  <1>1. Importer!Init => ImportInv
    BY ImportStarts
  <1>2. ImportInv /\ [Importer!Next]_(Importer!vars) => ImportInv'
    BY ImportSteps
  <1>3. ImportInv => ImportSound
    BY ImportTyped, MeshesAreFaithful, EntitiesAreFaithful DEF ImportSound
  <1> QED BY <1>1, <1>2, <1>3, PTL DEF Importer!Spec

-----------------------------------------------------------------------------
(* The ring of jobs. *)

USE DistinctAssumption, SizeAssumption

\* A position of the ring that is in use has this slot.
InRing(i) == \E k \in tail .. head - 1 : k % MaxCount = i

Shape ==
  /\ tail <= head /\ head - tail <= MaxCount
  /\ \A k \in tail .. head - 1 : slot[k % MaxCount] # Free
  /\ \A i \in Slots : slot[i] # Free =>
       InRing(i) \/ \E t \in Thieves : At(t, "free") /\ Seen(t) = i

\* A taken slot has one thief, which carries the instance.
Marks ==
  /\ \A t \in Thieves : Marking(t) => slot[Seen(t)] = Taken /\ bits[t] \in Jobs
  /\ \A t, u \in Thieves : Marking(t) /\ Marking(u) /\ Seen(t) = Seen(u) => t = u
  /\ \A i \in Slots : slot[i] = Taken => \E t \in Thieves : Marking(t) /\ Seen(t) = i

\* What a thief knows of tail_ from the position it read.  The owner cannot push
\* over a slot that a thief has yet to free.
Positions ==
  \A t \in Thieves :
    /\ seenTail[t] <= tail
    /\ pc[t] \in {"recheck", "restore"} => InRing(Seen(t))
    /\ At(t, "advance") => seenTail[t] = tail /\ tail < head
    /\ At(t, "free") => seenTail[t] < tail /\ head <= seenTail[t] + MaxCount

\* The locals of calls that are under way.
Carried ==
  /\ At(Owner, "store") => bits[Owner] \in Jobs /\ slot[Back] = Free /\ pushes < MaxPushes
  /\ At(Owner, "dequeueCas") => bits[Owner] \in Jobs
  /\ \A t \in Thieves : At(t, "mark") => bits[t] \in Jobs

RingInv == TypeOK /\ Shape /\ Marks /\ Positions /\ Carried

Labels == {"idle", "store", "dequeueCas", "loadTail", "loadSlot", "confirmEmpty", "mark",
           "recheck", "advance", "free", "restore"}

LEMMA Slot == \A a \in Int : a % MaxCount \in Slots
  BY Remainders DEF Slots

LEMMA InitRing == Init => RingInv
  <1> SUFFICES ASSUME Init PROVE RingInv
    OBVIOUS
  <1>1. TypeOK
    BY DEF Init, TypeOK, Values, Threads
  <1>2. \A t \in Threads : pc[t] = "idle"
    BY DEF Init
  <1>3. Shape
    BY DEF Init, Shape, Slots
  <1>4. Marks
    BY <1>2, Slot DEF Init, Marks, Marking, Threads
  <1>5. Positions
    BY <1>2 DEF Init, Positions, Threads, At
  <1>6. Carried
    BY <1>2 DEF Carried, At, Threads
  <1> QED BY <1>1, <1>3, <1>4, <1>5, <1>6 DEF RingInv

\* Types of what the actions read.
LEMMA Parts ==
  ASSUME TypeOK
  PROVE  /\ head \in Nat /\ tail \in Nat /\ slot \in [Slots -> Values]
         /\ \A t \in Thieves : seenTail[t] \in Nat /\ Seen(t) \in Slots
         /\ Back \in Slots /\ LastSlot \in Slots /\ Owner \in Threads /\ Thieves \subseteq Threads
         /\ Owner \notin Thieves
  <1>1. head \in Nat /\ head - 1 \in Int /\ \A t \in Thieves : seenTail[t] \in Nat
    BY DEF TypeOK
  <1> QED BY SMTT(30), <1>1, Slot DEF TypeOK, Seen, Back, LastSlot, Threads

\* The steps of a thief that leave the ring alone.
LEMMA ThiefLooks ==
  ASSUME RingInv, TypeOK', NEW t \in Thieves, UNCHANGED <<slot, head, tail, pushes>>,
         ~Marking(t), ~Marking(t)',
         \A u \in Threads \ {t} : pc'[u] = pc[u] /\ bits'[u] = bits[u],
         \A u \in Thieves \ {t} : seenTail'[u] = seenTail[u],
         seenTail'[t] <= tail, At(t, "mark")' => bits'[t] \in Jobs
  PROVE  RingInv'
  <1>1. TypeOK /\ Owner \in Threads \ {t} /\ \A u \in Thieves : u \in Threads
    BY Parts DEF RingInv
  <1>2. \A u \in Thieves : /\ Marking(u)' <=> Marking(u)
                           /\ Marking(u) => Seen(u)' = Seen(u) /\ bits'[u] = bits[u]
    BY <1>1 DEF Marking, Seen
  <1>3. \A u \in Thieves : At(u, "free")' <=> At(u, "free")
    BY <1>1 DEF At, Marking
  <1>4. \A i : InRing(i)' <=> InRing(i)
    BY DEF InRing
  <1>5. Shape'
    <2>1. \A u \in Thieves : At(u, "free") => Marking(u)
      BY DEF At, Marking
    <2> QED BY <1>2, <1>3, <1>4, <2>1 DEF RingInv, Shape
  <1>6. Marks'
    BY <1>2 DEF RingInv, Marks
  <1>7. Positions'
    <2> SUFFICES ASSUME NEW u \in Thieves
                 PROVE  /\ seenTail'[u] <= tail
                        /\ pc'[u] \in {"recheck", "restore"} => InRing(Seen(u)')
                        /\ At(u, "advance")' => seenTail'[u] = tail /\ tail < head
                        /\ At(u, "free")' =>
                             seenTail'[u] < tail /\ head <= seenTail'[u] + MaxCount
      BY <1>4 DEF Positions
    <2>1. CASE u = t
      BY <2>1 DEF Marking, At
    <2>2. CASE u # t
      BY <1>1, <2>2 DEF RingInv, Positions, At, Seen
    <2> QED BY <2>1, <2>2
  <1>8. Carried'
    BY <1>1 DEF RingInv, Carried, At, Back
  <1> QED BY <1>5, <1>6, <1>7, <1>8 DEF RingInv

\* The steps of the owner that leave the ring alone.
LEMMA OwnerLooks ==
  ASSUME RingInv, TypeOK', UNCHANGED <<slot, head, tail, seenTail>>,
         \A u \in Thieves : pc'[u] = pc[u] /\ bits'[u] = bits[u],
         At(Owner, "store")' =>
           bits'[Owner] \in Jobs /\ slot[Back] = Free /\ pushes' < MaxPushes,
         At(Owner, "dequeueCas")' => bits'[Owner] \in Jobs
  PROVE  RingInv'
  <1>1. \A i : InRing(i)' <=> InRing(i)
    BY DEF InRing
  <1>2. \A u \in Thieves : (Marking(u)' <=> Marking(u)) /\ Seen(u)' = Seen(u)
    BY DEF Marking, Seen
  <1>3. Shape'
    BY <1>1, <1>2 DEF RingInv, Shape, At
  <1>4. Marks'
    BY <1>2 DEF RingInv, Marks
  <1>5. Positions'
    BY <1>1, <1>2 DEF RingInv, Positions, At
  <1>6. Carried'
    BY DEF RingInv, Carried, At, Back
  <1> QED BY <1>3, <1>4, <1>5, <1>6 DEF RingInv

-----------------------------------------------------------------------------
(* The steps that change the ring. *)

LEMMA StoreRing ==
  ASSUME RingInv, EnqueueStore
  PROVE  RingInv'
  <1> USE Parts DEF At, Goto
  <1>1. /\ TypeOK /\ slot[Back] = Free /\ bits[Owner] \in Jobs /\ pc[Owner] = "store"
        /\ head' = head + 1 /\ tail' = tail /\ seenTail' = seenTail /\ bits' = bits
        /\ slot' = [slot EXCEPT ![Back] = bits[Owner]] /\ pushes < MaxPushes
    BY DEF EnqueueStore, RingInv, Carried
  <1>2. TypeOK'
    <2>1. pushes' \in 0 .. MaxPushes
      BY <1>1 DEF EnqueueStore, TypeOK
    <2> QED BY <1>1, <2>1 DEF EnqueueStore, TypeOK, Values
  <1>3. pc'[Owner] = "idle" /\ \A t \in Thieves : pc'[t] = pc[t] /\ Seen(t)' = Seen(t)
    BY <1>1 DEF EnqueueStore, TypeOK, Seen
  <1>4. \A i \in Slots : slot'[i] = IF i = Back THEN bits[Owner] ELSE slot[i]
    BY <1>1 DEF TypeOK
  <1>5. \A t \in Thieves : Marking(t) => Seen(t) # Back
    BY <1>1 DEF RingInv, Marks
  <1>6. head - tail < MaxCount
    <2>1. head - tail # MaxCount
      <3> SUFFICES ASSUME head = tail + MaxCount PROVE FALSE
        BY <1>1
      <3>1. head % MaxCount = tail % MaxCount
        <4>1. tail \in Int
          BY <1>1
        <4> QED BY <4>1, SameSlot
      <3>2. tail \in tail .. head - 1
        BY <1>1
      <3> QED BY <1>1, <3>1, <3>2 DEF RingInv, Shape, Back
    <2> QED BY <1>1, <2>1 DEF RingInv, Shape
  <1>7. \A k \in tail .. head - 1 : k % MaxCount # Back
    <2> SUFFICES ASSUME NEW k \in tail .. head - 1 PROVE k % MaxCount # Back
      OBVIOUS
    <2>1. k \in Int /\ head \in Int /\ k < head /\ head - k < MaxCount
      BY <1>1, <1>6
    <2> QED BY <2>1, SlotsDiffer DEF Back
  <1>8. \A i : InRing(i) => InRing(i)'
    BY <1>1 DEF InRing
  <1>9. Shape'
    <2>1. tail <= head + 1 /\ head + 1 - tail <= MaxCount
      BY <1>1, <1>6 DEF RingInv, Shape
    <2>2. \A k \in tail .. head : slot'[k % MaxCount] # Free
      <3> SUFFICES ASSUME NEW k \in tail .. head PROVE slot'[k % MaxCount] # Free
        OBVIOUS
      <3>1. k \in Int /\ (k = head \/ k \in tail .. head - 1)
        BY <1>1
      <3>2. k % MaxCount \in Slots
        BY <3>1, Slot
      <3> QED BY <1>1, <1>4, <1>7, <3>1, <3>2 DEF RingInv, Shape, Back
    <2>3. \A i \in Slots : i = Back => InRing(i)'
      <3>1. head \in tail .. head' - 1
        BY <1>1 DEF RingInv, Shape
      <3> QED BY <1>1, <3>1 DEF InRing, Back
    <2>4. \A i \in Slots : slot'[i] # Free =>
            InRing(i)' \/ \E t \in Thieves : At(t, "free")' /\ Seen(t)' = i
      <3> SUFFICES ASSUME NEW i \in Slots, slot'[i] # Free, i # Back
                   PROVE  InRing(i)' \/ \E t \in Thieves : At(t, "free")' /\ Seen(t)' = i
        BY <2>3
      <3>1. InRing(i) \/ \E t \in Thieves : At(t, "free") /\ Seen(t) = i
        BY <1>4 DEF RingInv, Shape
      <3> QED BY <1>3, <1>8, <3>1
    <2>5. head' - 1 = head
      BY <1>1
    <2> QED BY <1>1, <2>1, <2>2, <2>4, <2>5 DEF Shape
  <1>10. Marks'
    <2>1. \A t \in Thieves : Marking(t)' <=> Marking(t)
      BY <1>3 DEF Marking
    <2> QED BY <1>1, <1>3, <1>4, <1>5, <2>1 DEF RingInv, Marks
  <1>11. Positions'
    <2> SUFFICES ASSUME NEW t \in Thieves
                 PROVE  /\ seenTail[t] <= tail
                        /\ pc[t] \in {"recheck", "restore"} => InRing(Seen(t))'
                        /\ At(t, "advance") => seenTail[t] = tail /\ tail < head + 1
                        /\ At(t, "free") =>
                             seenTail[t] < tail /\ head + 1 <= seenTail[t] + MaxCount
      BY <1>1, <1>3 DEF Positions
    <2>1. /\ seenTail[t] <= tail
          /\ pc[t] \in {"recheck", "restore"} => InRing(Seen(t))
          /\ At(t, "advance") => seenTail[t] = tail /\ tail < head
          /\ At(t, "free") => seenTail[t] < tail /\ head <= seenTail[t] + MaxCount
      BY DEF RingInv, Positions
    <2>2. pc[t] \in {"recheck", "restore"} => InRing(Seen(t))'
      BY <1>3, <1>8, <2>1 DEF InRing
    <2>3. At(t, "free") => head # seenTail[t] + MaxCount
      <3> SUFFICES ASSUME At(t, "free"), head = seenTail[t] + MaxCount PROVE FALSE
        OBVIOUS
      <3>1. head % MaxCount = seenTail[t] % MaxCount
        <4>1. seenTail[t] \in Int
          BY <1>1
        <4> QED BY <4>1, SameSlot
      <3>2. Marking(t)
        BY DEF Marking
      <3> QED BY <1>5, <3>1, <3>2 DEF Back, Seen
    <2> QED BY <1>1, <2>1, <2>2, <2>3
  <1>12. Carried'
    BY <1>1, <1>3 DEF RingInv, Carried
  <1> QED BY <1>2, <1>9, <1>10, <1>11, <1>12 DEF RingInv

\* The owner takes an instance out: it is at the last position.
LEMMA PopRing ==
  ASSUME RingInv, DequeueCas, slot[LastSlot] = bits[Owner]
  PROVE  /\ RingInv' /\ tail < head
         /\ \A k \in tail .. head - 2 : k % MaxCount # LastSlot
  <1> USE Parts DEF At, Goto
  <1>1. /\ TypeOK /\ bits[Owner] \in Jobs
        /\ head' = head - 1 /\ tail' = tail /\ seenTail' = seenTail /\ bits' = bits
        /\ slot' = [slot EXCEPT ![LastSlot] = Free]
    BY DEF DequeueCas, RingInv, Carried
  <1>2. pc'[Owner] = "idle" /\ \A t \in Thieves : pc'[t] = pc[t] /\ Seen(t)' = Seen(t)
    BY <1>1 DEF DequeueCas, TypeOK, Seen
  <1>3. \A i \in Slots : slot'[i] = IF i = LastSlot THEN Free ELSE slot[i]
    BY <1>1 DEF TypeOK
  <1>4. \A t \in Thieves : Marking(t) => Seen(t) # LastSlot
    BY <1>1 DEF RingInv, Marks
  <1>5. tail < head
    <2>1. InRing(LastSlot)
      <3>1. \A t \in Thieves : At(t, "free") => Seen(t) # LastSlot
        BY <1>4 DEF Marking
      <3> QED BY <1>1, <3>1 DEF RingInv, Shape
    <2> QED BY <1>1, <2>1 DEF InRing
  <1>6. TypeOK'
    <2>1. head' \in Nat
      BY <1>1, <1>5
    <2> QED BY <1>1, <2>1 DEF DequeueCas, TypeOK, Values
  <1>7. \A k \in tail .. head - 2 : k % MaxCount # LastSlot
    <2> SUFFICES ASSUME NEW k \in tail .. head - 2 PROVE k % MaxCount # LastSlot
      OBVIOUS
    <2>1. head - tail <= MaxCount
      BY DEF RingInv, Shape
    <2>2. k \in Int /\ head - 1 \in Int /\ k < head - 1 /\ (head - 1) - k < MaxCount
      BY <1>1, <2>1
    <2> QED BY <2>2, SlotsDiffer DEF LastSlot
  <1>8. \A i : InRing(i) /\ i # LastSlot => InRing(i)'
    BY <1>1 DEF InRing, LastSlot
  <1>9. Shape'
    <2>1. tail <= head - 1 /\ head - 1 - tail <= MaxCount
      BY <1>1, <1>5 DEF RingInv, Shape
    <2>2. \A k \in tail .. head - 2 : slot'[k % MaxCount] # Free
      <3> SUFFICES ASSUME NEW k \in tail .. head - 2 PROVE slot'[k % MaxCount] # Free
        OBVIOUS
      <3>1. k \in Int /\ k \in tail .. head - 1
        BY <1>1
      <3>2. k % MaxCount \in Slots
        BY <3>1, Slot
      <3> QED BY <1>3, <1>7, <3>1, <3>2 DEF RingInv, Shape
    <2>3. \A i \in Slots : slot'[i] # Free =>
            InRing(i)' \/ \E t \in Thieves : At(t, "free")' /\ Seen(t)' = i
      <3> SUFFICES ASSUME NEW i \in Slots, slot'[i] # Free
                   PROVE  InRing(i)' \/ \E t \in Thieves : At(t, "free")' /\ Seen(t)' = i
        OBVIOUS
      <3>1. i # LastSlot /\ (InRing(i) \/ \E t \in Thieves : At(t, "free") /\ Seen(t) = i)
        BY <1>3 DEF RingInv, Shape
      <3> QED BY <1>2, <1>8, <3>1
    <2>4. head' - 1 = head - 2
      BY <1>1
    <2> QED BY <1>1, <2>1, <2>2, <2>3, <2>4 DEF Shape
  <1>10. Marks'
    <2>1. \A t \in Thieves : Marking(t)' <=> Marking(t)
      BY <1>2 DEF Marking
    <2> QED BY <1>1, <1>2, <1>3, <1>4, <2>1 DEF RingInv, Marks
  <1>11. Positions'
    <2> SUFFICES ASSUME NEW t \in Thieves
                 PROVE  /\ seenTail[t] <= tail
                        /\ pc[t] \in {"recheck", "restore"} => InRing(Seen(t))'
                        /\ At(t, "advance") => seenTail[t] = tail /\ tail < head - 1
                        /\ At(t, "free") =>
                             seenTail[t] < tail /\ head - 1 <= seenTail[t] + MaxCount
      BY <1>1, <1>2 DEF Positions
    <2>1. /\ seenTail[t] <= tail
          /\ pc[t] \in {"recheck", "restore"} => InRing(Seen(t))
          /\ At(t, "advance") => seenTail[t] = tail /\ tail < head
          /\ At(t, "free") => seenTail[t] < tail /\ head <= seenTail[t] + MaxCount
      BY DEF RingInv, Positions
    <2>2. pc[t] \in {"recheck", "restore"} => InRing(Seen(t))'
      BY <1>2, <1>4, <1>8, <2>1 DEF InRing, Marking
    <2>3. At(t, "advance") => tail # head - 1
      BY <1>4, <2>1 DEF Marking, LastSlot, Seen
    <2> QED BY <1>1, <1>5, <2>1, <2>2, <2>3
  <1>12. Carried'
    BY <1>1, <1>2 DEF RingInv, Carried
  <1> QED BY <1>5, <1>6, <1>7, <1>9, <1>10, <1>11, <1>12 DEF RingInv

\* A thief marks the slot of an instance.
LEMMA MarkRing ==
  ASSUME RingInv, NEW t \in Thieves, Mark(t), slot[Seen(t)] = bits[t],
         slot' = [slot EXCEPT ![Seen(t)] = Taken], Goto(t, "recheck")
  PROVE  RingInv'
  <1> USE Parts DEF At, Goto
  <1>1. /\ TypeOK /\ bits[t] \in Jobs /\ pc[t] = "mark"
        /\ UNCHANGED <<head, tail, bits, seenTail, out, pushes>>
    BY DEF Mark, RingInv, Carried
  <1>2. TypeOK'
    BY <1>1 DEF TypeOK, Values
  <1>3. pc'[t] = "recheck" /\ \A u \in Threads \ {t} : pc'[u] = pc[u]
    BY <1>1 DEF TypeOK
  <1>4. \A i \in Slots : slot'[i] = IF i = Seen(t) THEN Taken ELSE slot[i]
    BY <1>1 DEF TypeOK
  <1>5. (\A u \in Thieves : Seen(u)' = Seen(u)) /\ Back' = Back
    BY <1>1 DEF Seen, Back
  <1>6. \A u \in Thieves : Marking(u) => Seen(u) # Seen(t)
    BY <1>1 DEF RingInv, Marks
  <1>7. \A u \in Thieves : Marking(u)' <=> Marking(u) \/ u = t
    BY <1>1, <1>3 DEF Marking
  <1>8. \A i : InRing(i)' <=> InRing(i)
    BY <1>1 DEF InRing
  <1>9. InRing(Seen(t))
    <2>1. \A u \in Thieves : At(u, "free") => Seen(u) # Seen(t)
      BY <1>6 DEF Marking
    <2> QED BY <1>1, <2>1 DEF RingInv, Shape
  <1>10. Shape'
    <2>1. \A k \in tail .. head - 1 : slot'[k % MaxCount] # Free
      <3> SUFFICES ASSUME NEW k \in tail .. head - 1 PROVE slot'[k % MaxCount] # Free
        OBVIOUS
      <3>1. k \in Int
        BY <1>1
      <3>2. k % MaxCount \in Slots
        BY <3>1, Slot
      <3> QED BY <1>4, <3>2 DEF RingInv, Shape
    <2>2. ASSUME NEW i \in Slots, slot'[i] # Free
          PROVE  InRing(i)' \/ \E u \in Thieves : At(u, "free")' /\ Seen(u)' = i
      <3>1. CASE i = Seen(t)
        BY <1>8, <1>9, <3>1
      <3>2. CASE i # Seen(t)
        <4>1. InRing(i) \/ \E u \in Thieves : At(u, "free") /\ Seen(u) = i
          BY <1>4, <2>2, <3>2 DEF RingInv, Shape
        <4>2. \A u \in Thieves : At(u, "free") => At(u, "free")'
          BY <1>1, <1>3
        <4> QED BY <1>5, <1>8, <4>1, <4>2
      <3> QED BY <3>1, <3>2
    <2> QED BY <1>1, <2>1, <2>2 DEF RingInv, Shape
  <1>11. Marks'
    BY <1>1, <1>4, <1>5, <1>6, <1>7 DEF RingInv, Marks
  <1>12. Positions'
    <2> SUFFICES ASSUME NEW u \in Thieves
                 PROVE  /\ seenTail[u] <= tail
                        /\ pc'[u] \in {"recheck", "restore"} => InRing(Seen(u))
                        /\ At(u, "advance")' => seenTail[u] = tail /\ tail < head
                        /\ At(u, "free")' =>
                             seenTail[u] < tail /\ head <= seenTail[u] + MaxCount
      BY <1>1, <1>5, <1>8 DEF Positions
    <2>1. CASE u = t
      BY <1>3, <1>9, <2>1 DEF RingInv, Positions
    <2>2. CASE u # t
      BY <1>3, <2>2 DEF RingInv, Positions
    <2> QED BY <2>1, <2>2
  <1>13. Carried'
    <2>1. slot[Back] = Free => slot'[Back] = Free
      BY <1>1, <1>4
    <2> QED BY <1>1, <1>3, <1>5, <2>1 DEF RingInv, Carried
  <1> QED BY <1>2, <1>10, <1>11, <1>12, <1>13 DEF RingInv

\* It still has the slot, and knows whether the position is the first.
LEMMA RecheckRing ==
  ASSUME RingInv, NEW t \in Thieves, Recheck(t)
  PROVE  RingInv'
  <1> USE Parts DEF At, Goto
  <1>1. /\ TypeOK /\ pc[t] = "recheck"
        /\ UNCHANGED <<slot, head, tail, bits, seenTail, out, pushes>>
    BY DEF Recheck, RingInv
  <1>2. /\ pc'[t] = IF seenTail[t] = tail THEN "advance" ELSE "restore"
        /\ \A u \in Threads \ {t} : pc'[u] = pc[u]
    BY <1>1 DEF Recheck, TypeOK
  <1>3. TypeOK'
    BY <1>1 DEF Recheck, TypeOK
  <1>4. (\A u \in Thieves : Seen(u)' = Seen(u)) /\ Back' = Back
    BY <1>1 DEF Seen, Back
  <1>5. \A u \in Thieves : (Marking(u)' <=> Marking(u)) /\ (At(u, "free")' <=> At(u, "free"))
    BY <1>1, <1>2 DEF Marking
  <1>6. \A i : InRing(i)' <=> InRing(i)
    BY <1>1 DEF InRing
  <1>7. Shape'
    BY <1>1, <1>4, <1>5, <1>6 DEF RingInv, Shape
  <1>8. Marks'
    BY <1>1, <1>4, <1>5 DEF RingInv, Marks
  <1>9. Positions'
    <2> SUFFICES ASSUME NEW u \in Thieves
                 PROVE  /\ seenTail[u] <= tail
                        /\ pc'[u] \in {"recheck", "restore"} => InRing(Seen(u))
                        /\ At(u, "advance")' => seenTail[u] = tail /\ tail < head
                        /\ At(u, "free")' =>
                             seenTail[u] < tail /\ head <= seenTail[u] + MaxCount
      BY <1>1, <1>4, <1>6 DEF Positions
    <2>1. CASE u = t
      <3>1. InRing(Seen(t)) /\ seenTail[t] <= tail
        BY <1>1 DEF RingInv, Positions
      <3>2. tail < head
        BY <1>1, <3>1 DEF InRing
      <3> QED BY <1>2, <2>1, <3>1, <3>2
    <2>2. CASE u # t
      BY <1>2, <2>2 DEF RingInv, Positions
    <2> QED BY <2>1, <2>2
  <1>10. Carried'
    BY <1>1, <1>2, <1>4 DEF RingInv, Carried
  <1> QED BY <1>3, <1>7, <1>8, <1>9, <1>10 DEF RingInv

\* The first position passes to the thief.
LEMMA AdvanceRing ==
  ASSUME RingInv, NEW t \in Thieves, Advance(t)
  PROVE  RingInv'
  <1> USE Parts DEF At, Goto
  <1>1. /\ TypeOK /\ pc[t] = "advance" /\ tail' = tail + 1
        /\ UNCHANGED <<slot, head, bits, seenTail, pushes>>
        /\ out' = [out EXCEPT ![t] = bits[t]]
    BY DEF Advance, RingInv
  <1>2. pc'[t] = "free" /\ \A u \in Threads \ {t} : pc'[u] = pc[u]
    BY <1>1 DEF Advance, TypeOK
  <1>3. Marking(t) /\ bits[t] \in Jobs /\ seenTail[t] = tail /\ tail < head
    BY <1>1 DEF RingInv, Marks, Positions, Marking
  <1>4. TypeOK'
    BY <1>1, <1>3 DEF Advance, TypeOK
  <1>5. (\A u \in Thieves : Seen(u)' = Seen(u)) /\ Back' = Back
    BY <1>1 DEF Seen, Back
  <1>6. \A u \in Thieves : Marking(u)' <=> Marking(u)
    BY <1>1, <1>2 DEF Marking
  <1>7. \A u \in Thieves \ {t} : Marking(u) => Seen(u) # Seen(t)
    BY <1>3 DEF RingInv, Marks
  <1>8. Seen(t) = tail % MaxCount
    BY <1>3 DEF Seen
  <1>9. \A i : InRing(i) /\ i # Seen(t) => InRing(i)'
    BY <1>1, <1>8 DEF InRing
  <1>10. Shape'
    <2>1. tail + 1 <= head /\ head - (tail + 1) <= MaxCount
      BY <1>1, <1>3 DEF RingInv, Shape
    <2>2. \A k \in tail + 1 .. head - 1 : slot[k % MaxCount] # Free
      BY <1>1 DEF RingInv, Shape
    <2>3. ASSUME NEW i \in Slots, slot[i] # Free
          PROVE  InRing(i)' \/ \E u \in Thieves : At(u, "free")' /\ Seen(u)' = i
      <3>1. CASE i = Seen(t)
        BY <1>2, <1>5, <3>1
      <3>2. CASE i # Seen(t)
        <4>1. InRing(i) \/ \E u \in Thieves : At(u, "free") /\ Seen(u) = i
          BY <2>3 DEF RingInv, Shape
        <4>2. \A u \in Thieves : At(u, "free") => At(u, "free")'
          BY <1>1, <1>2
        <4> QED BY <1>5, <1>9, <3>2, <4>1, <4>2
      <3> QED BY <3>1, <3>2
    <2> QED BY <1>1, <2>1, <2>2, <2>3 DEF Shape
  <1>11. Marks'
    BY <1>1, <1>5, <1>6 DEF RingInv, Marks
  <1>12. Positions'
    <2> SUFFICES ASSUME NEW u \in Thieves
                 PROVE  /\ seenTail[u] <= tail + 1
                        /\ pc'[u] \in {"recheck", "restore"} => InRing(Seen(u))'
                        /\ At(u, "advance")' => seenTail[u] = tail + 1 /\ tail + 1 < head
                        /\ At(u, "free")' =>
                             seenTail[u] < tail + 1 /\ head <= seenTail[u] + MaxCount
      BY <1>1 DEF Positions
    <2>1. CASE u = t
      BY <1>1, <1>2, <1>3, <2>1 DEF RingInv, Shape
    <2>2. CASE u # t
      <3>1. /\ seenTail[u] <= tail
            /\ pc[u] \in {"recheck", "restore"} => InRing(Seen(u))
            /\ At(u, "advance") => seenTail[u] = tail
            /\ At(u, "free") => seenTail[u] < tail /\ head <= seenTail[u] + MaxCount
        BY DEF RingInv, Positions
      <3>2. ~At(u, "advance")
        BY <1>3, <1>7, <2>2, <3>1 DEF Marking, Seen
      <3>3. pc[u] \in {"recheck", "restore"} => InRing(Seen(u))'
        BY <1>5, <1>7, <1>9, <2>2, <3>1 DEF Marking, InRing
      <3>4. pc'[u] = pc[u]
        BY <1>1, <1>2, <2>2
      <3> QED BY <1>1, <3>1, <3>2, <3>3, <3>4
    <2> QED BY <2>1, <2>2
  <1>13. Carried'
    BY <1>1, <1>2, <1>5 DEF RingInv, Carried
  <1> QED BY <1>4, <1>10, <1>11, <1>12, <1>13 DEF RingInv

\* A thief gives its slot up: free when the position has been passed, with the
\* instance in it when the position was not the first.
LEMMA GiveUpRing ==
  ASSUME RingInv, NEW t \in Thieves, FreeSlot(t) \/ Restore(t)
  PROVE  /\ RingInv'
         /\ FreeSlot(t) => \A k \in tail .. head - 1 : k % MaxCount # Seen(t)
  <1> USE Parts DEF At, Goto
  <1> DEFINE new == IF FreeSlot(t) THEN Free ELSE bits[t]
             to == IF FreeSlot(t) THEN "idle" ELSE "loadTail"
  <1>1. /\ TypeOK /\ pc[t] \in {"free", "restore"} /\ (FreeSlot(t) <=> pc[t] = "free")
        /\ UNCHANGED <<head, tail, bits, seenTail, out, pushes>>
        /\ slot' = [slot EXCEPT ![Seen(t)] = new] /\ pc' = [pc EXCEPT ![t] = to]
    BY DEF FreeSlot, Restore, RingInv
  <1>2. Marking(t) /\ slot[Seen(t)] = Taken /\ bits[t] \in Jobs
    BY <1>1 DEF RingInv, Marks, Marking
  <1>3. new \in Values \ {Taken} /\ to \in {"idle", "loadTail"}
        /\ (new = Free <=> FreeSlot(t))
    BY <1>2 DEF Values
  <1> HIDE DEF new, to
  <1>4. TypeOK'
    BY <1>1, <1>3 DEF TypeOK
  <1>5. pc'[t] = to /\ \A u \in Threads \ {t} : pc'[u] = pc[u]
    BY <1>1 DEF TypeOK
  <1>6. (\A u \in Thieves : Seen(u)' = Seen(u)) /\ Back' = Back
    BY <1>1 DEF Seen, Back
  <1>7. \A u \in Thieves : Marking(u)' <=> Marking(u) /\ u # t
    BY <1>1, <1>3, <1>5 DEF Marking
  <1>8. \A u \in Thieves \ {t} : Marking(u) => Seen(u) # Seen(t)
    BY <1>2 DEF RingInv, Marks
  <1>9. \A i \in Slots : slot'[i] = IF i = Seen(t) THEN new ELSE slot[i]
    BY <1>1 DEF TypeOK
  <1>10. \A i : InRing(i)' <=> InRing(i)
    BY <1>1 DEF InRing
  <1>11. FreeSlot(t) => \A k \in tail .. head - 1 : k % MaxCount # Seen(t)
    <2> SUFFICES ASSUME FreeSlot(t), NEW k \in tail .. head - 1
                 PROVE  k % MaxCount # Seen(t)
      OBVIOUS
    <2>1. seenTail[t] < tail /\ head <= seenTail[t] + MaxCount
      BY <1>1 DEF RingInv, Positions
    <2>2. seenTail[t] \in Int /\ k \in Int /\ seenTail[t] < k /\ k - seenTail[t] < MaxCount
      BY <1>1, <2>1
    <2> QED BY <2>2, SlotsDiffer DEF Seen
  <1>12. ~FreeSlot(t) => InRing(Seen(t))
    BY <1>1 DEF RingInv, Positions
  <1>13. Shape'
    <2>1. ASSUME NEW k \in tail .. head - 1 PROVE slot'[k % MaxCount] # Free
      <3>1. k \in Int
        BY <1>1
      <3>2. k % MaxCount \in Slots
        BY <3>1, Slot
      <3>3. k % MaxCount = Seen(t) => new # Free
        BY <1>3, <1>11
      <3> QED BY <1>9, <3>2, <3>3 DEF RingInv, Shape
    <2>2. ASSUME NEW i \in Slots, slot'[i] # Free
          PROVE  InRing(i)' \/ \E u \in Thieves : At(u, "free")' /\ Seen(u)' = i
      <3>1. CASE i = Seen(t)
        BY <1>3, <1>9, <1>10, <1>12, <2>2, <3>1
      <3>2. CASE i # Seen(t)
        <4>1. InRing(i) \/ \E u \in Thieves : At(u, "free") /\ Seen(u) = i
          BY <1>9, <2>2, <3>2 DEF RingInv, Shape
        <4>2. \A u \in Thieves \ {t} : At(u, "free") => At(u, "free")'
          BY <1>1, <1>5
        <4> QED BY <1>6, <1>10, <3>2, <4>1, <4>2
      <3> QED BY <3>1, <3>2
    <2> QED BY <1>1, <2>1, <2>2 DEF RingInv, Shape
  <1>14. Marks'
    BY <1>1, <1>3, <1>6, <1>7, <1>8, <1>9 DEF RingInv, Marks
  <1>15. Positions'
    <2> SUFFICES ASSUME NEW u \in Thieves
                 PROVE  /\ seenTail[u] <= tail
                        /\ pc'[u] \in {"recheck", "restore"} => InRing(Seen(u))
                        /\ At(u, "advance")' => seenTail[u] = tail /\ tail < head
                        /\ At(u, "free")' =>
                             seenTail[u] < tail /\ head <= seenTail[u] + MaxCount
      BY <1>1, <1>6, <1>10 DEF Positions
    <2>1. CASE u = t
      BY <1>3, <1>5, <2>1 DEF RingInv, Positions
    <2>2. CASE u # t
      BY <1>5, <2>2 DEF RingInv, Positions
    <2> QED BY <2>1, <2>2
  <1>16. Carried'
    <2>1. slot[Back] = Free => slot'[Back] = Free
      BY <1>2, <1>1, <1>9
    <2> QED BY <1>1, <1>3, <1>5, <1>6, <2>1 DEF RingInv, Carried
  <1> QED BY <1>4, <1>11, <1>13, <1>14, <1>15, <1>16 DEF RingInv

-----------------------------------------------------------------------------
LEMMA StepRing == RingInv /\ [Next]_vars => RingInv'
  <1> SUFFICES ASSUME RingInv, [Next]_vars PROVE RingInv'
    OBVIOUS
  <1>1. TypeOK
    BY DEF RingInv
  <1> USE Parts DEF At, Goto
  <1>2. CASE UNCHANGED vars
    BY <1>2 DEF vars, RingInv, TypeOK, Shape, Marks, Positions, Carried, InRing, Marking, Seen,
                Back
  <1>3. ASSUME NEW j \in Jobs, EnqueueLoad(j) PROVE RingInv'
    <2>1. TypeOK'
      BY <1>1, <1>3 DEF EnqueueLoad, TypeOK, Values
    <2>2. /\ UNCHANGED <<slot, head, tail, seenTail>>
          /\ \A u \in Thieves : pc'[u] = pc[u] /\ bits'[u] = bits[u]
      BY <1>1, <1>3 DEF EnqueueLoad, TypeOK
    <2>3. /\ At(Owner, "store")' => bits'[Owner] \in Jobs /\ slot[Back] = Free /\ pushes' < MaxPushes
          /\ ~At(Owner, "dequeueCas")'
      BY <1>1, <1>3 DEF EnqueueLoad, TypeOK
    <2> QED BY <2>1, <2>2, <2>3, OwnerLooks
  <1>4. CASE DequeueLoad
    <2>1. slot[LastSlot] \in Values
      BY <1>1
    <2>2. TypeOK'
      BY <1>1, <1>4, <2>1 DEF DequeueLoad, TypeOK
    <2>3. /\ UNCHANGED <<slot, head, tail, seenTail>>
          /\ \A u \in Thieves : pc'[u] = pc[u] /\ bits'[u] = bits[u]
      BY <1>1, <1>4 DEF DequeueLoad, TypeOK
    <2>4. ~At(Owner, "store")' /\ (At(Owner, "dequeueCas")' => bits'[Owner] \in Jobs)
      BY <1>1, <1>4, <2>1 DEF DequeueLoad, TypeOK, Values
    <2> QED BY <2>2, <2>3, <2>4, OwnerLooks
  <1>5. CASE EnqueueStore
    BY <1>5, StoreRing
  <1>6. CASE DequeueCas
    <2>1. CASE slot[LastSlot] = bits[Owner]
      BY <1>6, <2>1, PopRing
    <2>2. CASE slot[LastSlot] # bits[Owner]
      <3>1. TypeOK'
        BY <1>1, <1>6, <2>2 DEF DequeueCas, TypeOK
      <3>2. /\ UNCHANGED <<slot, head, tail, seenTail>>
            /\ \A u \in Thieves : pc'[u] = pc[u] /\ bits'[u] = bits[u]
            /\ ~At(Owner, "store")' /\ ~At(Owner, "dequeueCas")'
        BY <1>1, <1>6, <2>2 DEF DequeueCas, TypeOK
      <3> QED BY <3>1, <3>2, OwnerLooks
    <2> QED BY <2>1, <2>2
  <1>7. ASSUME NEW t \in Thieves,
               StealBegin(t) \/ LoadTail(t) \/ LoadSlot(t) \/ ConfirmEmpty(t)
        PROVE  RingInv'
    <2>1. slot[Seen(t)] \in Values
      BY <1>1
    <2>2. /\ UNCHANGED <<slot, head, tail, pushes>> /\ ~Marking(t)
          /\ pc'[t] \in {"idle", "loadTail", "loadSlot", "confirmEmpty", "mark"}
          /\ \A u \in Threads \ {t} : pc'[u] = pc[u] /\ bits'[u] = bits[u]
          /\ \A u \in Thieves \ {t} : seenTail'[u] = seenTail[u]
          /\ seenTail'[t] = seenTail[t] \/ seenTail'[t] = tail
      BY <1>1, <1>7 DEF StealBegin, LoadTail, LoadSlot, ConfirmEmpty, TypeOK, Marking
    <2>3. TypeOK'
      BY <1>1, <1>7, <2>1 DEF StealBegin, LoadTail, LoadSlot, ConfirmEmpty, TypeOK
    <2>4. seenTail'[t] <= tail
      BY <1>1, <2>2 DEF RingInv, Positions
    <2>5. At(t, "mark")' => bits'[t] \in Jobs
      BY <1>1, <1>7, <2>1
      DEF StealBegin, LoadTail, LoadSlot, ConfirmEmpty, TypeOK, Values
    <2>6. ~Marking(t)'
      BY <2>2 DEF Marking
    <2> QED BY <2>2, <2>3, <2>4, <2>5, <2>6, ThiefLooks
  <1>8. ASSUME NEW t \in Thieves, Mark(t) PROVE RingInv'
    <2>1. CASE /\ slot[Seen(t)] = bits[t] /\ slot' = [slot EXCEPT ![Seen(t)] = Taken]
               /\ Goto(t, "recheck")
      BY <1>8, <2>1, MarkRing
    <2>2. CASE Goto(t, "loadTail") /\ UNCHANGED slot
      <3>1. /\ UNCHANGED <<slot, head, tail, pushes>> /\ ~Marking(t) /\ pc'[t] = "loadTail"
            /\ \A u \in Threads \ {t} : pc'[u] = pc[u] /\ bits'[u] = bits[u]
            /\ seenTail' = seenTail
        BY <1>1, <1>8, <2>2 DEF Mark, TypeOK, Marking
      <3>2. TypeOK'
        BY <1>1, <1>8, <2>2 DEF Mark, TypeOK
      <3>3. seenTail'[t] <= tail
        BY <3>1 DEF RingInv, Positions
      <3>4. ~Marking(t)' /\ ~At(t, "mark")'
        BY <3>1 DEF Marking
      <3> QED BY <3>1, <3>2, <3>3, <3>4, ThiefLooks
    <2> QED BY <1>8, <2>1, <2>2 DEF Mark
  <1>9. ASSUME NEW t \in Thieves, StealStep(t) \/ StealBegin(t) PROVE RingInv'
    BY <1>7, <1>8, <1>9, RecheckRing, AdvanceRing, GiveUpRing DEF StealStep
  <1> QED BY <1>2, <1>3, <1>4, <1>5, <1>6, <1>9 DEF Next, OwnerStep

LEMMA Invariance == Spec => []RingInv
  BY InitRing, StepRing, PTL DEF Spec

\* The ring has no hole and no leftover, and each taken slot has one thief.
THEOREM SoundRing == Spec => []RingShape
  <1>1. RingInv => RingShape
    <2> SUFFICES ASSUME RingInv PROVE RingShape
      OBVIOUS
    <2>1. ASSUME NEW i \in Slots, slot[i] = Taken
          PROVE  Cardinality({t \in Thieves : Marking(t) /\ Seen(t) = i}) = 1
      <3>1. PICK t \in Thieves : Marking(t) /\ Seen(t) = i
        BY <2>1 DEF RingInv, Marks
      <3>2. {u \in Thieves : Marking(u) /\ Seen(u) = i} = {t}
        BY <3>1 DEF RingInv, Marks
      <3> QED BY <3>2, FS_Singleton
    <2> QED BY <2>1 DEF RingInv, Shape, RingShape, InRing
  <1> QED BY <1>1, Invariance, PTL

-----------------------------------------------------------------------------
(* The ring implements the deque. *)

\* The instance of an occupied slot is in the slot or with the thief that marked
\* it.
Holds(i, j) ==
  \/ slot[i] = j /\ j \in Jobs
  \/ \E t \in Thieves : Marking(t) /\ Seen(t) = i /\ bits[t] = j

LEMMA HoldsItem ==
  RingInv => \A i \in Slots : /\ \A j : Holds(i, j) => Item(i) = j /\ j \in Jobs /\ slot[i] # Free
                              /\ slot[i] # Free => Holds(i, Item(i))
  <1> SUFFICES ASSUME RingInv, NEW i \in Slots
               PROVE  /\ \A j : Holds(i, j) => Item(i) = j /\ j \in Jobs /\ slot[i] # Free
                      /\ slot[i] # Free => Holds(i, Item(i))
    OBVIOUS
  <1>1. slot[i] \in Values
    BY DEF RingInv, TypeOK
  <1>2. CASE slot[i] = Taken
    <2>1. PICK t \in Thieves : Marking(t) /\ Seen(t) = i
      BY <1>2 DEF RingInv, Marks
    <2>2. \A u \in Thieves : Marking(u) /\ Seen(u) = i <=> u = t
      BY <2>1 DEF RingInv, Marks
    <2>3. (CHOOSE u \in Thieves : Marking(u) /\ Seen(u) = i) = t
      BY <2>1, <2>2
    <2>4. Item(i) = bits[t] /\ bits[t] \in Jobs
      BY <1>2, <2>1, <2>3 DEF Item, RingInv, Marks
    <2> QED BY <1>2, <2>1, <2>2, <2>4 DEF Holds
  <1>3. CASE slot[i] # Taken
    <2>1. Item(i) = slot[i]
      BY <1>3 DEF Item
    <2>2. \A t \in Thieves : Marking(t) => Seen(t) # i
      BY <1>3 DEF RingInv, Marks
    <2> QED BY <1>1, <1>3, <2>1, <2>2 DEF Holds, Values
  <1> QED BY <1>2, <1>3

\* What the deque holds, position by position.
Contents ==
  /\ Queued \in Seq(Jobs) /\ Len(Queued) = head - tail
  /\ \A p \in tail .. head - 1 :
       /\ p - tail + 1 \in 1 .. head - tail
       /\ Queued[p - tail + 1] = Item(p % MaxCount)
       /\ Holds(p % MaxCount, Item(p % MaxCount))

LEMMA QueuedContents == RingInv => Contents
  <1> SUFFICES ASSUME RingInv PROVE Contents
    OBVIOUS
  <1> DEFINE n == head - tail
  <1>1. head \in Nat /\ tail \in Nat /\ n \in Nat
    BY DEF RingInv, TypeOK, Shape
  <1>2. ASSUME NEW p \in tail .. head - 1
        PROVE  /\ p % MaxCount \in Slots /\ Holds(p % MaxCount, Item(p % MaxCount))
               /\ Item(p % MaxCount) \in Jobs
    <2>1. p \in Int
      BY <1>1
    <2>2. p % MaxCount \in Slots
      BY <2>1, Slot
    <2>3. slot[p % MaxCount] # Free
      BY DEF RingInv, Shape
    <2> QED BY <2>2, <2>3, HoldsItem
  <1>3. Queued = [k \in 1 .. n |-> Item((tail + k - 1) % MaxCount)]
    BY DEF Queued
  <1>4. ASSUME NEW k \in 1 .. n
        PROVE  Queued[k] \in Jobs /\ Queued[k] = Item((tail + k - 1) % MaxCount)
    <2>1. tail + k - 1 \in tail .. head - 1
      BY <1>1
    <2>2. Item((tail + k - 1) % MaxCount) \in Jobs
      BY <1>2, <2>1
    <2> HIDE DEF n
    <2> QED BY <1>3, <2>2
  <1>5. Queued \in Seq(Jobs) /\ Len(Queued) = n
    <2> HIDE DEF n
    <2>1. Queued \in [1 .. n -> Jobs]
      BY <1>3, <1>4
    <2> QED BY <1>1, <2>1, LenProperties DEF Seq
  <1>6. ASSUME NEW p \in tail .. head - 1
        PROVE  p - tail + 1 \in 1 .. n /\ Queued[p - tail + 1] = Item(p % MaxCount)
    <2>1. p - tail + 1 \in 1 .. n /\ tail + (p - tail + 1) - 1 = p
      BY <1>1
    <2> QED BY <1>4, <2>1
  <1> QED BY <1>2, <1>5, <1>6 DEF Contents

HoldsKnown == \A i \in Slots : \A j : Holds(i, j) => Item(i) = j

\* The owner does not push an instance that is still queued.
Fresh == At(Owner, "store") => \A k \in 1 .. head - tail : Queued[k] # bits[Owner]

Facts == RingInv /\ Contents /\ HoldsKnown

LEMMA FactsHold == Spec => []Facts
  <1>1. RingInv => HoldsKnown
    BY HoldsItem DEF HoldsKnown
  <1> QED BY <1>1, Invariance, QueuedContents, PTL DEF Facts

LEMMA FactParts ==
  Facts => /\ TypeOK /\ Queued \in Seq(Jobs) /\ Len(Queued) = head - tail
           /\ head \in Nat /\ tail \in Nat /\ head - tail \in Nat
           /\ \A p \in tail .. head - 1 : p % MaxCount \in Slots
  <1> SUFFICES ASSUME Facts
               PROVE  /\ TypeOK /\ Queued \in Seq(Jobs) /\ Len(Queued) = head - tail
                      /\ head \in Nat /\ tail \in Nat /\ head - tail \in Nat
                      /\ \A p \in tail .. head - 1 : p % MaxCount \in Slots
    OBVIOUS
  <1>1. TypeOK /\ head \in Nat /\ tail \in Nat /\ tail <= head
    BY DEF Facts, RingInv, TypeOK, Shape
  <1>2. \A p \in tail .. head - 1 : p \in Int
    BY <1>1
  <1>3. head - tail \in Nat
    BY <1>1
  <1>4. Queued \in Seq(Jobs) /\ Len(Queued) = head - tail
    BY DEF Facts, Contents
  <1>5. \A p \in tail .. head - 1 : p % MaxCount \in Slots
    BY <1>2, Slot
  <1> QED BY <1>1, <1>3, <1>4, <1>5

\* A position that a step leaves alone holds the same instance after it.
LEMMA KeptPosition ==
  ASSUME Facts, Facts', NEW p \in tail .. head - 1, p \in tail' .. head' - 1,
         \A j : Holds(p % MaxCount, j) => Holds(p % MaxCount, j)'
  PROVE  Queued'[p - tail' + 1] = Queued[p - tail + 1]
  <1>1. Queued[p - tail + 1] = Item(p % MaxCount) /\ Holds(p % MaxCount, Item(p % MaxCount))
    BY DEF Facts, Contents
  <1>2. PICK j : j = Item(p % MaxCount)
    OBVIOUS
  <1>3. Holds(p % MaxCount, j)'
    BY <1>1, <1>2
  <1>4. p % MaxCount \in Slots
    BY FactParts
  <1>5. \A i \in Slots : \A k : Holds(i, k)' => Item(i)' = k
    BY DEF Facts, HoldsKnown
  <1>6. Item(p % MaxCount)' = j
    BY <1>3, <1>4, <1>5
  <1>7. Queued'[p - tail' + 1] = Item(p % MaxCount)'
    BY DEF Facts, Contents
  <1> QED BY <1>1, <1>2, <1>6, <1>7

LEMMA SameQueue ==
  ASSUME Facts, Facts', head' = head, tail' = tail,
         \A p \in tail .. head - 1 : \A j : Holds(p % MaxCount, j) => Holds(p % MaxCount, j)'
  PROVE  Queued' = Queued
  <1>1. /\ Queued \in Seq(Jobs) /\ Len(Queued) = head - tail
        /\ head \in Nat /\ tail \in Nat /\ head - tail \in Nat
    BY FactParts
  <1>2. Queued' \in Seq(Jobs) /\ Len(Queued') = head - tail
    BY DEF Facts, Contents
  <1>3. ASSUME NEW k \in 1 .. head - tail PROVE Queued'[k] = Queued[k]
    <2>1. tail + k - 1 \in tail .. head - 1 /\ (tail + k - 1) - tail + 1 = k
      BY <1>1
    <2>2. Queued'[(tail + k - 1) - tail' + 1] = Queued[(tail + k - 1) - tail + 1]
      BY <2>1, KeptPosition
    <2> QED BY <2>1, <2>2
  <1> QED BY <1>1, <1>2, <1>3, SeqEqual

-----------------------------------------------------------------------------
\* A slot that a step leaves alone, with the thief that marked it, holds what it
\* held.
LEMMA HeldOn ==
  ASSUME NEW i, slot'[i] = slot[i],
         \A t \in Thieves : Marking(t) /\ Seen(t) = i =>
                            Marking(t)' /\ Seen(t)' = i /\ bits'[t] = bits[t]
  PROVE  \A j : Holds(i, j) => Holds(i, j)'
  BY DEF Holds

LEMMA StoreRefines ==
  ASSUME Facts, Facts', Fresh, EnqueueStore
  PROVE  Deque!Push(bits[Owner])
  <1>1. /\ TypeOK /\ Queued \in Seq(Jobs) /\ Len(Queued) = head - tail
        /\ head \in Nat /\ tail \in Nat /\ head - tail \in Nat
    BY FactParts
  <1>2. /\ RingInv /\ pc[Owner] = "store" /\ bits[Owner] \in Jobs /\ slot[Back] = Free
        /\ head' = head + 1 /\ tail' = tail /\ bits' = bits /\ out' = out
        /\ seenTail' = seenTail /\ slot' = [slot EXCEPT ![Back] = bits[Owner]]
    BY DEF EnqueueStore, Facts, RingInv, Carried, At
  <1>3. /\ Owner \in Threads /\ Owner \notin Thieves /\ Thieves \subseteq Threads
        /\ Back \in Slots /\ slot \in [Slots -> Values]
    BY <1>1, Parts
  <1>4. \A t \in Thieves : pc'[t] = pc[t]
    BY <1>1, <1>3 DEF EnqueueStore, Goto, TypeOK
  <1>5. \A p \in tail .. head - 1 : p % MaxCount # Back /\ p % MaxCount \in Slots
    BY <1>2, FactParts DEF RingInv, Shape
  <1>6. \A p \in tail .. head - 1 : \A j : Holds(p % MaxCount, j) => Holds(p % MaxCount, j)'
    <2> SUFFICES ASSUME NEW p \in tail .. head - 1
                 PROVE  \A j : Holds(p % MaxCount, j) => Holds(p % MaxCount, j)'
      OBVIOUS
    <2>1. slot'[p % MaxCount] = slot[p % MaxCount]
      BY <1>2, <1>3, <1>5
    <2>2. \A t \in Thieves : (Marking(t)' <=> Marking(t)) /\ Seen(t)' = Seen(t)
      BY <1>2, <1>4 DEF Marking, Seen
    <2> QED BY <1>2, <2>1, <2>2, HeldOn
  <1>7. head' = head + 1 /\ tail' = tail
    BY <1>2
  <1>8. Queued' \in Seq(Jobs) /\ Len(Queued') = head + 1 - tail
    <2>1. Queued' \in Seq(Jobs) /\ Len(Queued') = head' - tail'
      BY DEF Facts, Contents
    <2> QED BY <1>7, <1>1, <2>1
  <1>9. ASSUME NEW k \in 1 .. head - tail PROVE Queued'[k] = Queued[k]
    <2>1. /\ tail + k - 1 \in tail .. head - 1 /\ (tail + k - 1) - tail + 1 = k
          /\ tail + k - 1 \in tail .. head + 1 - 1
      BY <1>1
    <2>2. tail + k - 1 \in tail' .. head' - 1
      BY <1>7, <1>1, <2>1
    <2>3. Queued'[(tail + k - 1) - tail' + 1] = Queued[(tail + k - 1) - tail + 1]
      BY <1>6, <2>1, <2>2, KeptPosition
    <2> QED BY <1>2, <2>1, <2>3
  <1>10. Queued'[head - tail + 1] = bits[Owner]
    <2>1. head \in tail .. head + 1 - 1 /\ head \in Int
      BY <1>1, <1>2 DEF RingInv, Shape
    <2>2. PICK h \in Int : h = head
      BY <2>1
    <2>3. h \in tail' .. head' - 1
      BY <1>7, <2>1, <2>2
    <2>4. Queued'[h - tail' + 1] = Item(h % MaxCount)'
      BY <2>3 DEF Facts, Contents
    <2>5. PICK j : j = bits[Owner]
      OBVIOUS
    <2>6. slot'[h % MaxCount] = j /\ h % MaxCount \in Slots
      BY <1>2, <1>3, <2>2, <2>5 DEF Back
    <2>7. Holds(h % MaxCount, j)'
      BY <1>2, <2>5, <2>6 DEF Holds
    <2>8. Item(h % MaxCount)' = j
      BY <2>6, <2>7 DEF Facts, HoldsKnown
    <2> QED BY <1>7, <2>2, <2>4, <2>5, <2>8
  <1>11. Queued' = Append(Queued, bits[Owner])
    <2> DEFINE q == Queued
               r == Queued'
               n == head - tail
    <2>1. Len(q) = n /\ Len(r) = n + 1 /\ n \in Nat
      BY <1>1, <1>8
    <2>2. q \in Seq(Jobs) /\ r \in Seq(Jobs) /\ bits[Owner] \in Jobs
      BY <1>1, <1>2, <1>8
    <2>3. (\A k \in 1 .. n : r[k] = q[k]) /\ r[n + 1] = bits[Owner]
      BY <1>9, <1>10
    <2> HIDE DEF q, r, n
    <2>4. r = Append(q, bits[Owner])
      BY <2>1, <2>2, <2>3, IsAppend
    <2> QED BY <2>4 DEF q, r
  <1>12. Len(Queued) < MaxCount
    <2>1. head' - tail' <= MaxCount
      BY DEF Facts, RingInv, Shape
    <2> QED BY <1>1, <1>2, <2>1
  <1>13. ~Contains(Queued, bits[Owner])
    BY <1>1, <1>2 DEF Fresh, At, Contains
  <1> QED BY <1>2, <1>11, <1>12, <1>13 DEF Deque!Push, Deque!Contains, Contains
LEMMA PopRefines ==
  ASSUME Facts, Facts', DequeueCas, slot[LastSlot] = bits[Owner]
  PROVE  Deque!Pop
  <1>1. /\ TypeOK /\ Queued \in Seq(Jobs) /\ Len(Queued) = head - tail
        /\ head \in Nat /\ tail \in Nat /\ head - tail \in Nat
    BY FactParts
  <1>2. /\ RingInv /\ bits[Owner] \in Jobs /\ seenTail' = seenTail /\ bits' = bits
        /\ slot' = [slot EXCEPT ![LastSlot] = Free]
        /\ out' = [out EXCEPT ![Owner] = bits[Owner]]
    BY DEF DequeueCas, Facts, RingInv, Carried, At
  <1>3. head' = head - 1 /\ tail' = tail
    BY DEF DequeueCas
  <1>4. tail < head /\ \A k \in tail .. head - 2 : k % MaxCount # LastSlot
    BY <1>2, PopRing
  <1>5. /\ Owner \in Threads /\ Owner \notin Thieves /\ Thieves \subseteq Threads
        /\ LastSlot \in Slots /\ slot \in [Slots -> Values]
    BY <1>1, Parts
  <1>6. \A t \in Thieves : (Marking(t)' <=> Marking(t)) /\ Seen(t)' = Seen(t)
    <2>1. \A t \in Thieves : pc'[t] = pc[t]
      BY <1>1, <1>5 DEF DequeueCas, Goto, TypeOK
    <2> QED BY <1>2, <2>1 DEF Marking, Seen
  <1>7. ASSUME NEW p \in tail .. head - 2
        PROVE  \A j : Holds(p % MaxCount, j) => Holds(p % MaxCount, j)'
    <2>1. p \in tail .. head - 1
      BY <1>1
    <2>2. p % MaxCount # LastSlot /\ p % MaxCount \in Slots
      BY <1>4, <2>1, FactParts
    <2>3. slot'[p % MaxCount] = slot[p % MaxCount]
      BY <1>2, <1>5, <2>2
    <2> QED BY <1>2, <1>6, <2>3, HeldOn
  <1>8. Queued' \in Seq(Jobs) /\ Len(Queued') = head - tail - 1
    <2>1. Queued' \in Seq(Jobs) /\ Len(Queued') = head' - tail'
      BY DEF Facts, Contents
    <2> QED BY <1>1, <1>3, <2>1
  <1>9. ASSUME NEW k \in 1 .. head - tail - 1 PROVE Queued'[k] = Queued[k]
    <2>1. /\ tail + k - 1 \in tail .. head - 2 /\ (tail + k - 1) - tail + 1 = k
          /\ tail + k - 1 \in tail .. head - 1
          /\ tail + k - 1 \in tail .. (head - 1) - 1
      BY <1>1
    <2>2. tail + k - 1 \in tail' .. head' - 1
      BY <1>1, <1>3, <2>1
    <2>3. Queued'[(tail + k - 1) - tail' + 1] = Queued[(tail + k - 1) - tail + 1]
      BY <1>7, <2>1, <2>2, KeptPosition
    <2> QED BY <1>3, <2>1, <2>3
  <1>10. Queued[head - tail] = bits[Owner]
    <2>1. head - 1 \in tail .. head - 1 /\ (head - 1) - tail + 1 = head - tail
      BY <1>1, <1>4
    <2>2. Queued[(head - 1) - tail + 1] = Item((head - 1) % MaxCount)
      BY <2>1 DEF Facts, Contents
    <2>3. Holds(LastSlot, bits[Owner])
      BY <1>2 DEF Holds
    <2>4. Item(LastSlot) = bits[Owner]
      BY <1>5, <2>3 DEF Facts, HoldsKnown
    <2> QED BY <2>1, <2>2, <2>4 DEF LastSlot
  <1>11. /\ Queued # <<>> /\ Queued' = Front(Queued) /\ Last(Queued) = bits[Owner]
    <2> DEFINE q == Queued
               r == Queued'
               n == head - tail
    <2>1. Len(q) = n /\ Len(r) = n - 1 /\ n \in Nat /\ n # 0
      BY <1>1, <1>4, <1>8
    <2>2. q \in Seq(Jobs) /\ r \in Seq(Jobs)
      BY <1>1, <1>8
    <2>3. (\A k \in 1 .. n - 1 : r[k] = q[k]) /\ q[n] = bits[Owner]
      BY <1>9, <1>10
    <2> HIDE DEF q, r, n
    <2>4. q # <<>>
      BY <2>1, <2>2, FirstAndLast
    <2>5. r = Front(q) /\ Last(q) = q[n]
      BY <2>1, <2>2, <2>3, <2>4, IsFront
    <2> QED BY <2>3, <2>4, <2>5 DEF q, r
  <1> QED BY <1>2, <1>11 DEF Deque!Pop, Deque!Front, Deque!Last, Front, Last

LEMMA AdvanceRefines ==
  ASSUME Facts, Facts', NEW t \in Thieves, Advance(t)
  PROVE  Deque!Steal(t)
  <1>1. /\ TypeOK /\ Queued \in Seq(Jobs) /\ Len(Queued) = head - tail
        /\ head \in Nat /\ tail \in Nat /\ head - tail \in Nat
    BY FactParts
  <1>2. /\ RingInv /\ pc[t] = "advance" /\ UNCHANGED <<slot, bits, seenTail>>
        /\ out' = [out EXCEPT ![t] = bits[t]]
    BY DEF Advance, Facts, At
  <1>3. head' = head /\ tail' = tail + 1
    BY DEF Advance
  <1>4. seenTail[t] = tail /\ tail < head
    BY <1>2 DEF RingInv, Positions, At
  <1>5. \A u \in Thieves : (Marking(u) => Marking(u)') /\ Seen(u)' = Seen(u)
    <2>1. Thieves \subseteq Threads
      BY DEF Threads
    <2>2. pc'[t] = "free" /\ \A u \in Threads \ {t} : pc'[u] = pc[u]
      BY <1>1, <2>1 DEF Advance, Goto, TypeOK
    <2> QED BY <1>2, <2>1, <2>2 DEF Marking, Seen
  <1>6. \A i : \A j : Holds(i, j) => Holds(i, j)'
    BY <1>2, <1>5, HeldOn
  <1>7. Queued' \in Seq(Jobs) /\ Len(Queued') = head - tail - 1
    <2>1. Queued' \in Seq(Jobs) /\ Len(Queued') = head' - tail'
      BY DEF Facts, Contents
    <2> QED BY <1>1, <1>3, <2>1
  <1>8. ASSUME NEW k \in 1 .. head - tail - 1 PROVE Queued'[k] = Queued[k + 1]
    <2>1. /\ tail + k \in tail .. head - 1 /\ (tail + k) - tail + 1 = k + 1
          /\ tail + k \in tail + 1 .. head - 1 /\ (tail + k) - (tail + 1) + 1 = k
      BY <1>1
    <2>2. tail + k \in tail' .. head' - 1
      BY <1>3, <2>1
    <2>3. Queued'[(tail + k) - tail' + 1] = Queued[(tail + k) - tail + 1]
      BY <1>6, <2>1, <2>2, KeptPosition
    <2> QED BY <1>3, <2>1, <2>3
  <1>9. Queued[1] = bits[t]
    <2>1. tail \in tail .. head - 1 /\ tail - tail + 1 = 1
      BY <1>1, <1>4
    <2>2. Queued[tail - tail + 1] = Item(tail % MaxCount) /\ tail % MaxCount \in Slots
      BY <2>1, FactParts DEF Facts, Contents
    <2>3. Holds(tail % MaxCount, bits[t])
      BY <1>2, <1>4 DEF Holds, Marking, Seen
    <2>4. Item(tail % MaxCount) = bits[t]
      BY <2>2, <2>3 DEF Facts, HoldsKnown
    <2> QED BY <2>1, <2>2, <2>4
  <1>10. Queued # <<>> /\ Queued' = Tail(Queued) /\ Head(Queued) = bits[t]
    <2> DEFINE q == Queued
               r == Queued'
               n == head - tail
    <2>1. Len(q) = n /\ Len(r) = n - 1 /\ n \in Nat /\ n # 0
      BY <1>1, <1>4, <1>7
    <2>2. q \in Seq(Jobs) /\ r \in Seq(Jobs)
      BY <1>1, <1>7
    <2>3. (\A k \in 1 .. n - 1 : r[k] = q[k + 1]) /\ q[1] = bits[t]
      BY <1>8, <1>9
    <2> HIDE DEF q, r, n
    <2>4. q # <<>>
      BY <2>1, <2>2, FirstAndLast
    <2>5. r = Tail(q) /\ Head(q) = q[1]
      BY <2>1, <2>2, <2>3, <2>4, IsTail
    <2> QED BY <2>3, <2>4, <2>5 DEF q, r
  <1> QED BY <1>2, <1>10 DEF Deque!Steal

\* The steps that leave every instance where it was, in its slot or with the
\* thief that marked the slot.
LEMMA QuietQueue ==
  ASSUME Facts, Facts', head' = head, tail' = tail,
         \/ \E j \in Jobs : EnqueueLoad(j)
         \/ DequeueLoad
         \/ DequeueCas /\ slot[LastSlot] # bits[Owner]
         \/ \E t \in Thieves : StealBegin(t) \/ LoadTail(t) \/ LoadSlot(t) \/ ConfirmEmpty(t)
                               \/ Mark(t) \/ Recheck(t) \/ FreeSlot(t) \/ Restore(t)
  PROVE  Queued' = Queued
  <1>1. /\ TypeOK /\ RingInv /\ Owner \in Threads /\ Owner \notin Thieves
        /\ Thieves \subseteq Threads /\ slot \in [Slots -> Values]
        /\ \A t \in Thieves : Seen(t) \in Slots
    BY FactParts, Parts DEF Facts
  <1>2. \A p \in tail .. head - 1 : p % MaxCount \in Slots
    BY FactParts
  <1>3. pc \in [Threads -> Labels] /\ bits \in [Threads -> Values] /\ seenTail \in [Thieves -> Nat]
    BY <1>1 DEF TypeOK, Labels
  <1> SUFFICES \A p \in tail .. head - 1 : \A j : Holds(p % MaxCount, j) => Holds(p % MaxCount, j)'
    BY SameQueue
  <1>4. ASSUME slot' = slot, NEW t \in Threads, t \in Thieves => ~Marking(t) \/ Recheck(t),
               \A u \in Threads \ {t} : pc'[u] = pc[u] /\ bits'[u] = bits[u],
               \A u \in Thieves \ {t} : seenTail'[u] = seenTail[u]
        PROVE  \A i : \A j : Holds(i, j) => Holds(i, j)'
    <2>1. \A u \in Thieves : Marking(u) => Marking(u)' /\ Seen(u)' = Seen(u) /\ bits'[u] = bits[u]
      <3> SUFFICES ASSUME NEW u \in Thieves, Marking(u)
                   PROVE  Marking(u)' /\ Seen(u)' = Seen(u) /\ bits'[u] = bits[u]
        OBVIOUS
      <3>1. CASE u # t
        BY <1>1, <1>4, <3>1 DEF Marking, Seen
      <3>2. CASE u = t
        <4>1. Recheck(t) /\ t \in Thieves
          BY <1>4, <3>2
        <4> QED BY <1>1, <1>3, <3>2, <4>1 DEF Recheck, Goto, Marking, Seen
      <3> QED BY <3>1, <3>2
    <2> QED BY <1>4, <2>1, HeldOn
  <1>5. CASE \E j \in Jobs : EnqueueLoad(j)
    BY <1>1, <1>3, <1>4, <1>5 DEF EnqueueLoad, Goto
  <1>6. CASE DequeueLoad
    BY <1>1, <1>3, <1>4, <1>6 DEF DequeueLoad, Goto
  <1>7. CASE DequeueCas /\ slot[LastSlot] # bits[Owner]
    BY <1>1, <1>3, <1>4, <1>7 DEF DequeueCas, Goto
  <1>8. ASSUME NEW t \in Thieves, StealBegin(t) \/ LoadTail(t) \/ LoadSlot(t) \/ ConfirmEmpty(t)
                                  \/ Recheck(t)
        PROVE  \A i : \A j : Holds(i, j) => Holds(i, j)'
    <2>1. slot' = slot /\ t \in Threads
      BY <1>1, <1>8 DEF StealBegin, LoadTail, LoadSlot, ConfirmEmpty, Recheck
    <2>2. ~Marking(t) \/ Recheck(t)
      BY <1>8 DEF StealBegin, LoadTail, LoadSlot, ConfirmEmpty, Marking, At
    <2>3. \A u \in Threads \ {t} : pc'[u] = pc[u] /\ bits'[u] = bits[u]
      BY <1>3, <1>8 DEF StealBegin, LoadTail, LoadSlot, ConfirmEmpty, Recheck, Goto
    <2>4. \A u \in Thieves \ {t} : seenTail'[u] = seenTail[u]
      BY <1>3, <1>8 DEF StealBegin, LoadTail, LoadSlot, ConfirmEmpty, Recheck, Goto
    <2> QED BY <1>4, <2>1, <2>2, <2>3, <2>4
  <1>9. ASSUME NEW t \in Thieves, Mark(t)
        PROVE  \A i \in Slots : \A j : Holds(i, j) => Holds(i, j)'
    <2>1. pc[t] = "mark" /\ bits' = bits /\ seenTail' = seenTail /\ ~Marking(t)
      BY <1>9 DEF Mark, At, Marking
    <2>2. \A u \in Thieves \ {t} : Marking(u)' <=> Marking(u)
      BY <1>1, <1>3, <1>9 DEF Mark, Goto, Marking
    <2>3. \A u \in Thieves : Seen(u)' = Seen(u)
      BY <2>1 DEF Seen
    <2>4. CASE slot' = slot
      BY <2>1, <2>2, <2>3, <2>4, HeldOn
    <2>5. CASE slot' # slot
      <3>1. /\ slot[Seen(t)] = bits[t] /\ slot' = [slot EXCEPT ![Seen(t)] = Taken]
            /\ Goto(t, "recheck")
        BY <1>9, <2>5 DEF Mark
      <3>2. Marking(t)' /\ Seen(t)' = Seen(t) /\ bits'[t] = bits[t]
        BY <1>1, <1>3, <2>1, <2>3, <3>1 DEF Goto, Marking
      <3>3. \A i \in Slots : i # Seen(t) => slot'[i] = slot[i]
        BY <1>1, <3>1
      <3> QED BY <2>1, <2>2, <2>3, <3>1, <3>2, <3>3 DEF Holds
    <2> QED BY <2>4, <2>5
  <1>10. ASSUME NEW t \in Thieves, FreeSlot(t) \/ Restore(t)
         PROVE  \A p \in tail .. head - 1 : \A j : Holds(p % MaxCount, j) => Holds(p % MaxCount, j)'
    <2>1. /\ bits' = bits /\ seenTail' = seenTail /\ \A u \in Thieves : Seen(u)' = Seen(u)
          /\ \A u \in Thieves \ {t} : Marking(u)' <=> Marking(u)
      BY <1>1, <1>3, <1>10 DEF FreeSlot, Restore, Goto, Marking, Seen
    <2>2. Marking(t) /\ \A u \in Thieves \ {t} : Marking(u) => Seen(u) # Seen(t)
      BY <1>1, <1>10 DEF FreeSlot, Restore, At, Marking, RingInv, Marks
    <2>3. slot[Seen(t)] = Taken /\ bits[t] \in Jobs
      BY <1>1, <2>2 DEF RingInv, Marks
    <2>4. ASSUME NEW i \in Slots, i # Seen(t) PROVE \A j : Holds(i, j) => Holds(i, j)'
      <3>1. slot'[i] = slot[i]
        <4>1. \/ slot' = [slot EXCEPT ![Seen(t)] = Free]
              \/ slot' = [slot EXCEPT ![Seen(t)] = bits[t]]
          BY <1>10 DEF FreeSlot, Restore
        <4> QED BY <1>1, <2>4, <4>1
      <3> QED BY <2>1, <2>4, <3>1 DEF Holds
    <2>5. CASE FreeSlot(t)
      BY <1>2, <1>1, <2>4, <2>5, GiveUpRing
    <2>6. CASE Restore(t)
      <3>1. slot'[Seen(t)] = bits[t]
        BY <1>1, <2>6 DEF Restore
      <3>2. \A j : Holds(Seen(t), j) => j = bits[t]
        BY <2>2, <2>3 DEF Holds
      <3>3. ASSUME NEW i, i = Seen(t) PROVE \A j : Holds(i, j) => Holds(i, j)'
        BY <2>3, <3>1, <3>2, <3>3 DEF Holds
      <3> QED BY <1>2, <2>4, <3>3
    <2> QED BY <1>10, <2>5, <2>6
  <1> QED BY <1>2, <1>5, <1>6, <1>7, <1>8, <1>9, <1>10
LEMMA FreshKept == Facts /\ Facts' /\ Fresh /\ [Next]_vars => Fresh'
  <1> SUFFICES ASSUME Facts, Facts', Fresh, [Next]_vars,
                      pc'[Owner] = "store"
               PROVE  \A k \in 1 .. head' - tail' : Queued'[k] # bits'[Owner]
    BY DEF Fresh, At
  <1>1. /\ TypeOK /\ Owner \in Threads /\ Owner \notin Thieves /\ Thieves \subseteq Threads
        /\ pc \in [Threads -> Labels] /\ bits \in [Threads -> Values]
        /\ Queued \in Seq(Jobs) /\ Len(Queued) = head - tail /\ head \in Nat /\ tail \in Nat
    BY FactParts, Parts DEF TypeOK, Labels
  <1>2. CASE \E j \in Jobs : EnqueueLoad(j)
    <2>1. PICK j \in Jobs : EnqueueLoad(j)
      BY <1>2
    <2>2. head' = head /\ tail' = tail /\ bits'[Owner] = j
          /\ \A k \in 1 .. head - tail : Queued[k] # j
      BY <1>1, <2>1 DEF EnqueueLoad
    <2>3. Queued' = Queued
      BY <1>2, <2>2, QuietQueue
    <2> QED BY <2>2, <2>3
  <1>3. CASE DequeueLoad \/ OwnerStep
    BY <1>1, <1>3 DEF DequeueLoad, OwnerStep, EnqueueStore, DequeueCas, Goto
  <1>4. ASSUME NEW t \in Thieves, StealBegin(t) \/ StealStep(t)
        PROVE  \A k \in 1 .. head' - tail' : Queued'[k] # bits'[Owner]
    <2>1. bits'[Owner] = bits[Owner] /\ pc[Owner] = "store"
      BY <1>1, <1>4 DEF StealBegin, StealStep, LoadTail, LoadSlot, ConfirmEmpty, Mark, Recheck,
                        Advance, FreeSlot, Restore, Goto
    <2>2. \A k \in 1 .. head - tail : Queued[k] # bits[Owner]
      BY <2>1 DEF Fresh, At
    <2>3. CASE Advance(t)
      <3>1. Queued # <<>> /\ Queued' = Tail(Queued)
        BY <2>3, AdvanceRefines DEF Deque!Steal
      <3>2. \A k \in 1 .. Len(Tail(Queued)) : Tail(Queued)[k] = Queued[k + 1]
            /\ Len(Tail(Queued)) = Len(Queued) - 1
        BY <1>1, <3>1, HeadTailProperties
      <3>3. head' = head /\ tail' = tail + 1
        BY <2>3 DEF Advance
      <3>4. ASSUME NEW k \in 1 .. head' - tail' PROVE Queued'[k] # bits[Owner]
        <4>1. k \in 1 .. head - (tail + 1)
          BY <3>3
        <4>2. k \in 1 .. Len(Queued) - 1 /\ k + 1 \in 1 .. head - tail
          BY <1>1, <4>1
        <4>3. Len(Tail(Queued)) = Len(Queued) - 1
          BY <1>1, <3>1, HeadTailProperties
        <4>4. Tail(Queued)[k] = Queued[k + 1]
          BY <3>2, <4>2, <4>3
        <4> QED BY <2>2, <3>1, <4>2, <4>4
      <3> QED BY <2>1, <3>4
    <2>4. CASE ~Advance(t)
      <3>1. head' = head /\ tail' = tail
        BY <1>4, <2>4 DEF StealBegin, StealStep, LoadTail, LoadSlot, ConfirmEmpty, Mark, Recheck,
                          FreeSlot, Restore
      <3>2. Queued' = Queued
        BY <1>4, <2>4, <3>1, QuietQueue DEF StealStep
      <3> QED BY <2>1, <2>2, <3>1, <3>2
    <2> QED BY <2>3, <2>4
  <1>5. CASE UNCHANGED vars
    <2>1. head' = head /\ tail' = tail /\ bits' = bits /\ pc[Owner] = "store" /\ Queued' = Queued
      BY <1>5 DEF vars, Queued, Item, Marking, Seen
    <2> QED BY <2>1 DEF Fresh, At
  <1> QED BY <1>2, <1>3, <1>4, <1>5 DEF Next

LEMMA StepRefines ==
  ASSUME Facts, Facts', Fresh, [Next]_vars
  PROVE  [Deque!Next]_Deque!vars
  <1>1. CASE (\E j \in Jobs : EnqueueLoad(j)) \/ DequeueLoad
    <2>1. head' = head /\ tail' = tail
      BY <1>1 DEF EnqueueLoad, DequeueLoad
    <2>2. Queued' = Queued
      BY <1>1, <2>1, QuietQueue
    <2>3. out' = out \/ out' = [out EXCEPT ![Owner] = NoJob]
      BY <1>1 DEF EnqueueLoad, DequeueLoad
    <2> QED BY <2>2, <2>3 DEF Deque!Next, Deque!Call, Deque!vars
  <1>2. CASE EnqueueStore
    <2>1. bits[Owner] \in Jobs
      BY <1>2 DEF EnqueueStore, Facts, RingInv, Carried
    <2> QED BY <1>2, <2>1, StoreRefines DEF Deque!Next
  <1>3. CASE DequeueCas
    <2>1. CASE slot[LastSlot] = bits[Owner]
      BY <1>3, <2>1, PopRefines DEF Deque!Next
    <2>2. CASE slot[LastSlot] # bits[Owner]
      <3>1. head' = head /\ tail' = tail /\ out' = out
        BY <1>3, <2>2 DEF DequeueCas
      <3>2. Queued' = Queued
        BY <1>3, <2>2, <3>1, QuietQueue
      <3> QED BY <3>1, <3>2 DEF Deque!vars
    <2> QED BY <2>1, <2>2
  <1>4. ASSUME NEW t \in Thieves, StealBegin(t) \/ StealStep(t)
        PROVE  [Deque!Next]_Deque!vars
    <2>1. CASE Advance(t)
      BY <2>1, AdvanceRefines DEF Deque!Next
    <2>2. CASE ~Advance(t)
      <3>1. head' = head /\ tail' = tail
        BY <1>4, <2>2 DEF StealBegin, StealStep, LoadTail, LoadSlot, ConfirmEmpty, Mark, Recheck,
                          FreeSlot, Restore
      <3>2. Queued' = Queued
        BY <1>4, <2>2, <3>1, QuietQueue DEF StealStep
      <3>3. out' = out \/ out' = [out EXCEPT ![t] = NoJob]
        BY <1>4, <2>2 DEF StealBegin, StealStep, LoadTail, LoadSlot, ConfirmEmpty, Mark, Recheck,
                          FreeSlot, Restore
      <3> QED BY <3>2, <3>3 DEF Deque!Next, Deque!Call, Deque!vars
    <2> QED BY <2>1, <2>2
  <1>5. CASE UNCHANGED vars
    BY <1>5 DEF vars, Deque!vars, Queued, Item, Marking, Seen
  <1> QED BY <1>1, <1>2, <1>3, <1>4, <1>5 DEF Next, OwnerStep

\* The ring behaves as a bounded deque: the owner pushes and pops at the back, the
\* thieves take from the front, and each instance is handed out once, whatever
\* tail_ and the slots go through in between.
THEOREM Refinement == Spec => ImplementsDeque
  <1>1. Init => Fresh /\ Deque!Init
    <2> SUFFICES ASSUME Init PROVE Fresh /\ Deque!Init
      OBVIOUS
    <2>1. pc[Owner] # "store" /\ out = [t \in Threads |-> NoJob]
      BY DEF Init, Threads
    <2>2. head - tail = 0 /\ Facts
      BY InitRing, QueuedContents, HoldsItem DEF Init, Facts, HoldsKnown
    <2>3. Queued = <<>>
      BY <2>2, FactParts, EmptySeq
    <2> QED BY <2>1, <2>3 DEF Fresh, At, Deque!Init, Threads
  <1>2. Facts /\ Facts' /\ Fresh /\ [Next]_vars => [Deque!Next]_Deque!vars
    BY StepRefines
  <1> QED BY <1>1, <1>2, FactsHold, FreshKept, PTL DEF Spec, ImplementsDeque, Deque!Spec
=============================================================================
