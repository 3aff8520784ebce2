--------------------------------- MODULE Bvh ---------------------------------
(***************************************************************************)
(* The bounding volume hierarchy of swiss/render: how it is built into one *)
(* array of nodes, where the left child of a node comes right after it and *)
(* the right child is found by its index, and how a ray walks it.  The     *)
(* recursion of split is a stack of calls.                                 *)
(*                                                                         *)
(* Geometry is abstract.  A bound is the set of the triangles it was made  *)
(* to include; which bin a centroid falls into and which split costs least *)
(* is any choice with triangles on both sides, since a side without any    *)
(* has a bound without a finite area, whose cost compares less to nothing. *)
(***************************************************************************)
EXTENDS Naturals, Sequences, FiniteSets, SequencesExt

CONSTANTS MaxTriangles,
          Bins,  \* kNumSahBins
          U16    \* one more than the largest count that split can be given

VARIABLES nodes,  \* nodes_; link is the union of triStart and rightChildIndex
          tris,   \* sahTris and, in the end, tris_
          calls,  \* of split that have not returned, the innermost first
          ray,    \* the triangles the ray of intersect hits
          dfs,    \* dfsStack, the top first
          answer  \* of intersect: "none" so far, "hit" or "miss"

vars == <<nodes, tris, calls, ray, dfs, answer>>

\* Indices of nodes and triangles count from 0, as in the code.
Node(bound) == [bound |-> bound, link |-> 0, triCount |-> 0]

TriRange(start, count) == {tris[i] : i \in start + 1 .. start + count}

\* A call of split, and the node its result is for.
Call(node, start, count) ==
  [node |-> node, start |-> start, count |-> count % U16, below |-> 0, right |-> 0]

\* buildPart, up to the first call of split
Init ==
  \E n \in 1 .. MaxTriangles :
    /\ tris = [i \in 1 .. n |-> i]
    /\ nodes = <<Node(1 .. n)>>
    /\ calls = <<Call(0, 0, n)>>
    /\ ray = {} /\ dfs = <<>> /\ answer = "none"
-----------------------------------------------------------------------------
(* buildPart and split *)

Top == Head(calls)

\* setSplitResult for the node of the innermost call, which returns.
SplitInto(ns, link, count) ==
  /\ nodes' = [ns EXCEPT ![Top.node + 1].link = link, ![Top.node + 1].triCount = count]
  /\ calls' = Tail(calls)

Entered == calls # <<>> /\ Top.below = 0

\* std::nullopt: one triangle, or no split that costs less than a leaf.
Leaf ==
  /\ Entered /\ Top.count # 2
  /\ SplitInto(nodes, Top.start, Top.count)
  /\ UNCHANGED <<tris, ray, dfs, answer>>

LeafNode(i) == [bound |-> {tris[i + 1]}, link |-> i, triCount |-> 1]

\* Two triangles become two leaves.
Pair ==
  LET leaves == <<LeafNode(Top.start), LeafNode(Top.start + 1)>>
  IN  /\ Entered /\ Top.count = 2
      /\ SplitInto(nodes \o leaves, Len(nodes) + 1, 0)
      /\ UNCHANGED <<tris, ray, dfs, answer>>

\* (mutant of Belongs) The bin of least cost itself goes above.
BelongsStrictly(bin, minCostBin) == bin < minCostBin

\* The predicate of std::partition.
Belongs(bin, minCostBin) == bin <= minCostBin

Orders(set) == {s \in [1 .. Cardinality(set) -> set] : IsInjective(s)}

\* A split with least cost was found: partition the triangles, which leaves them
\* in any order on each side, and recurse to the left.
SplitLeft ==
  LET start == Top.start
      mine == TriRange(start, Top.count)
  IN  /\ Entered /\ Top.count > 2
      /\ \E bin \in [mine -> 0 .. Bins - 1], minCostBin \in 0 .. Bins - 2 :
           LET below == {t \in mine : bin[t] <= minCostBin}
               partitioned == {t \in mine : Belongs(bin[t], minCostBin)}
           IN  /\ below # {} /\ below # mine
               /\ \E low \in Orders(partitioned), high \in Orders(mine \ partitioned) :
                    tris' = SubSeq(tris, 1, start) \o low \o high
                              \o SubSeq(tris, start + Top.count + 1, Len(tris))
               /\ nodes' = Append(nodes, Node(below))
               /\ calls' = <<Call(Len(nodes), start, Cardinality(below)),
                             [Top EXCEPT !.below = Cardinality(below)]>> \o Tail(calls)
      /\ UNCHANGED <<ray, dfs, answer>>

\* The left side is done: recurse to the right.
SplitRight ==
  LET start == Top.start + Top.below
      count == Top.count - Top.below
  IN  /\ calls # <<>> /\ Top.below > 0 /\ Top.right = 0
      /\ nodes' = Append(nodes, Node(TriRange(start, count)))
      /\ calls' = <<Call(Len(nodes), start, count), [Top EXCEPT !.right = Len(nodes)]>>
                    \o Tail(calls)
      /\ UNCHANGED <<tris, ray, dfs, answer>>

\* Both sides are done.
SplitReturn ==
  /\ calls # <<>> /\ Top.right > 0
  /\ SplitInto(nodes, Top.right, 0)
  /\ UNCHANGED <<tris, ray, dfs, answer>>
-----------------------------------------------------------------------------
(* intersect *)

Shoot(hits) ==
  /\ calls = <<>> /\ dfs = <<>> /\ answer = "none"
  /\ ray' = hits
  /\ dfs' = <<0>>
  /\ UNCHANGED <<nodes, tris, calls, answer>>

\* What is pushed for an inner node.
Children(i) == <<nodes[i + 1].link, i + 1>>

\* A node is popped. A ray that hits one of the triangles hits the bound; one
\* that does not may hit it or not.
Visit ==
  LET i == Head(dfs)
      node == nodes[i + 1]
      hit == TriRange(node.link, node.triCount) \cap ray # {}
  IN  /\ dfs # <<>>
      /\ \/ /\ node.bound \cap ray = {}
            /\ dfs' = Tail(dfs)
         \/ /\ node.triCount > 0
            /\ dfs' = IF hit THEN <<>> ELSE Tail(dfs)
         \/ /\ node.triCount = 0
            /\ dfs' = Children(i) \o Tail(dfs)
      /\ answer' = IF hit /\ node.triCount > 0 /\ dfs' = <<>> THEN "hit"
                   ELSE IF dfs' = <<>> THEN "miss" ELSE answer
      /\ UNCHANGED <<nodes, tris, calls, ray>>

Done == answer # "none" /\ UNCHANGED vars

Next ==
  \/ Leaf \/ Pair \/ SplitLeft \/ SplitRight \/ SplitReturn
  \/ \E hits \in SUBSET (1 .. Len(tris)) : Shoot(hits)
  \/ Visit \/ Done

Spec == Init /\ [][Next]_vars
-----------------------------------------------------------------------------
TypeOK ==
  /\ Range(tris) = 1 .. Len(tris)
  /\ \A i \in 1 .. Len(nodes) :
       /\ nodes[i].bound \subseteq 1 .. Len(tris)
       /\ nodes[i].link \in Nat /\ nodes[i].triCount \in 0 .. U16 - 1
  /\ ray \subseteq 1 .. Len(tris)
  /\ Range(dfs) \subseteq 0 .. Len(nodes) - 1
  /\ answer \in {"none", "hit", "miss"}

\* The triangles that are found below each node.
Below ==
  LET below[i \in 0 .. Len(nodes) - 1] ==
        LET node == nodes[i + 1]
        IN  IF node.triCount > 0 THEN TriRange(node.link, node.triCount)
            ELSE below[i + 1] \cup below[node.link]
  IN  below

\* Nodes never outgrow what was reserved, so the references to them that are
\* held across the recursive calls stay valid.  In the tree that results every
\* node but the root is the child of one node that comes before it, every
\* triangle is in exactly one leaf, and is included by the bounds of all the
\* nodes above it.
TreeSound ==
  /\ Len(nodes) <= 2 * Len(tris) - 1
  /\ calls = <<>> =>
       LET N == 0 .. Len(nodes) - 1
           Inner == {i \in N : nodes[i + 1].triCount = 0}
           right(i) == nodes[i + 1].link
       IN  /\ \A i \in Inner : i + 1 < right(i) /\ right(i) \in N
           /\ \A i \in N \ {0} :
                Cardinality({j \in Inner : i \in {j + 1, right(j)}}) = 1
           /\ Below[0] = 1 .. Len(tris)
           /\ \A i \in N : Below[i] \subseteq nodes[i + 1].bound
           /\ \A i \in Inner : Below[i + 1] \cap Below[right(i)] = {}

\* intersect says whether the ray hits a triangle, whichever subtrees it skipped.
IntersectExact == answer # "none" => (answer = "hit") = (ray # {})
=============================================================================
