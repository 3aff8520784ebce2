-------------------------- MODULE ParkingLotProofs --------------------------
(***************************************************************************)
(* Theorems about ParkingLot for every finite set of parkers, every set of *)
(* unparkers, every set of keys and any number of calls.                   *)
(***************************************************************************)
EXTENDS ParkingLot, ListFacts

USE ThreadsAssumption, NilAssumption, AskedAssumption, BoundAssumption

\* A parker that was in the list, and an unparker that holds the lock.
Calling(t) == pc[t] \in {"check", "waiting", "relock"}

Locking(u) == pc[u] \in {"scan", "count", "pop", "clear", "notify"}

Validating == {t \in Parkers : At(t, "validate")}

\* The sequence of the parkers in the list, and the pointers that spell it.
Known ==
  /\ queue \in Seq(Parkers)
  /\ \A i, j \in 1 .. Len(queue) : queue[i] = queue[j] => i = j

Links ==
  /\ head = IF Len(queue) = 0 THEN Nil ELSE queue[1]
  /\ tail = IF Len(queue) = 0 THEN Nil ELSE queue[Len(queue)]
  /\ \A i \in 1 .. Len(queue) :
       /\ node[queue[i]].next = IF i = Len(queue) THEN Nil ELSE queue[i + 1]
       /\ node[queue[i]].prev = IF i = 1 THEN Nil ELSE queue[i - 1]

Counted == count = Len(queue) + Cardinality(Validating)

OneOwner == \A u \in Unparkers : Locking(u) <=> owner = u

\* A call that is under way and has not been unparked is in the list, but for the
\* one that an unparker took out and is about to tell.
ParkerKnown(t) ==
  /\ pc[t] \in {"idle", "validate", "check", "waiting", "relock"}
  /\ ~At(t, "idle") => node[t].key \in Keys
  /\ At(t, "validate") =>
       node[t].shouldPark /\ node[t].next = Nil /\ node[t].prev = Nil /\ result[t] = "none"
  /\ Listed(t) => Calling(t) /\ node[t].shouldPark
  /\ Calling(t) /\ node[t].shouldPark =>
       Listed(t) \/ \E u \in Unparkers : At(u, "clear") /\ it[u] = t

\* An unparker that got as far as t met nobody that it looks for.
Passed(u, t) ==
  \A i \in 1 .. Len(queue) : queue[i] = t =>
    \A k \in 1 .. i - 1 : ~Matches(node[queue[k]].key, asked[u])

Onward(u, t) == t # Nil => Listed(t) /\ Passed(u, t)

WalkerKnown(u) ==
  /\ pc[u] \in {"idle", "lock", "scan", "count", "pop", "clear", "notify"}
  /\ At(u, "scan") => Onward(u, it[u])
  /\ pc[u] \in {"count", "pop"} =>
       /\ it[u] # Nil /\ Onward(u, it[u]) /\ after[u] = node[it[u]].next
       /\ Matches(node[it[u]].key, asked[u])
  /\ pc[u] \in {"clear", "notify"} =>
       it[u] \in Parkers /\ Calling(it[u]) /\ ~Listed(it[u]) /\ Onward(u, after[u])
  /\ At(u, "clear") => node[it[u]].shouldPark
  /\ At(u, "notify") => ~node[it[u]].shouldPark
  /\ At(u, "pop") /\ found[u] = "eNoneLeft" => Len(queue) = 1

LotInv ==
  /\ TypeOK /\ Known /\ Links /\ Counted /\ OneOwner
  /\ \A t \in Parkers : ParkerKnown(t)
  /\ \A u \in Unparkers : WalkerKnown(u)

Nodes == [key : Keys \cup {Nil}, next : Pointers, prev : Pointers, shouldPark : BOOLEAN]

-----------------------------------------------------------------------------
(* The list *)

LEMMA KnownParts ==
  ASSUME Known
  PROVE  /\ queue \in Seq(Parkers) /\ Len(queue) \in Nat
         /\ \A i \in 1 .. Len(queue) : queue[i] \in Parkers /\ Listed(queue[i])
         /\ \A t : Listed(t) => t \in Parkers
  <1>1. queue \in Seq(Parkers)
    BY DEF Known
  <1>2. Len(queue) \in Nat /\ \A i \in 1 .. Len(queue) : queue[i] \in Parkers
    BY <1>1, LenProperties, ElementOfSeq
  <1> QED BY <1>1, <1>2 DEF Listed

\* What pop writes, field by field.
LEMMA UnlinkedNodes ==
  ASSUME TypeOK, Known, Links, NEW i \in 1 .. Len(queue), NEW t, t = queue[i]
  PROVE  /\ Unlinked(t) \in [Parkers -> Nodes]
         /\ \A s \in Parkers :
              /\ Unlinked(t)[s].key = node[s].key
              /\ Unlinked(t)[s].shouldPark = node[s].shouldPark
              /\ Unlinked(t)[s].next =
                   IF i # 1 /\ s = queue[i - 1] THEN node[t].next ELSE node[s].next
              /\ Unlinked(t)[s].prev =
                   IF i # Len(queue) /\ s = queue[i + 1] THEN node[t].prev ELSE node[s].prev
  <1> DEFINE n == Len(queue)
  <1>1. n \in Nat /\ n # 0 /\ (i # 1 => i - 1 \in 1 .. n) /\ (i # n => i + 1 \in 1 .. n)
        /\ 1 \in 1 .. n /\ n \in 1 .. n /\ i \in 1 .. n
    BY KnownParts
  <1>2. /\ node \in [Parkers -> Nodes] /\ head = queue[1] /\ tail = queue[n]
        /\ node[t].next = IF i = n THEN Nil ELSE queue[i + 1]
        /\ node[t].prev = IF i = 1 THEN Nil ELSE queue[i - 1]
    BY <1>1 DEF TypeOK, Nodes, Links
  <1>3. /\ \A k \in 1 .. n : queue[k] \in Parkers
        /\ \A k, l \in 1 .. n : queue[k] = queue[l] => k = l
    BY KnownParts DEF Known
  <1> HIDE DEF n
  <1>4. /\ t \in Parkers /\ (t = head <=> i = 1) /\ (t = tail <=> i = n)
        /\ (i # 1 => node[t].prev \in Parkers) /\ (i # n => node[t].next \in Parkers)
        /\ (i # 1 /\ i # n => node[t].prev # node[t].next)
    <2>1. i # 1 /\ i # n => i - 1 # i + 1
      BY <1>1
    <2> QED BY <1>1, <1>2, <1>3, <2>1
  <1>5. node[t].next \in Pointers /\ node[t].prev \in Pointers /\ Nil \in Pointers
    BY <1>2, <1>4 DEF Nodes, Pointers
  <1>6. CASE i = 1 /\ i = n
    <2>1. Unlinked(t) = node
      BY <1>4, <1>6 DEF Unlinked
    <2> QED BY <1>2, <1>6, <2>1 DEF n
  <1>7. CASE i = 1 /\ i # n
    <2>1. Unlinked(t) = [node EXCEPT ![node[t].next].prev = Nil]
      BY <1>4, <1>7 DEF Unlinked
    <2>2. node[t].prev = Nil /\ node[t].next = queue[i + 1] /\ node[t].next \in Parkers
      BY <1>2, <1>4, <1>7
    <2>3. /\ Unlinked(t) \in [Parkers -> Nodes]
          /\ \A s \in Parkers :
               Unlinked(t)[s] = IF s = node[t].next THEN [node[s] EXCEPT !.prev = Nil] ELSE node[s]
      BY <1>2, <1>5, <2>1, <2>2 DEF Nodes
    <2>4. \A s \in Parkers : node[s] \in Nodes
      BY <1>2
    <2>5. \A s \in Parkers :
            /\ Unlinked(t)[s].key = node[s].key /\ Unlinked(t)[s].shouldPark = node[s].shouldPark
            /\ Unlinked(t)[s].next = node[s].next
            /\ Unlinked(t)[s].prev = IF s = node[t].next THEN Nil ELSE node[s].prev
      BY <2>3, <2>4 DEF Nodes
    <2> QED BY <1>7, <2>2, <2>3, <2>5 DEF n
  <1>8. CASE i # 1 /\ i = n
    <2>1. Unlinked(t) = [node EXCEPT ![node[t].prev].next = Nil]
      BY <1>4, <1>8 DEF Unlinked
    <2>2. node[t].next = Nil /\ node[t].prev = queue[i - 1] /\ node[t].prev \in Parkers
      BY <1>2, <1>4, <1>8
    <2>3. /\ Unlinked(t) \in [Parkers -> Nodes]
          /\ \A s \in Parkers :
               Unlinked(t)[s] = IF s = node[t].prev THEN [node[s] EXCEPT !.next = Nil] ELSE node[s]
      BY <1>2, <1>5, <2>1, <2>2 DEF Nodes
    <2>4. \A s \in Parkers : node[s] \in Nodes
      BY <1>2
    <2>5. \A s \in Parkers :
            /\ Unlinked(t)[s].key = node[s].key /\ Unlinked(t)[s].shouldPark = node[s].shouldPark
            /\ Unlinked(t)[s].prev = node[s].prev
            /\ Unlinked(t)[s].next = IF s = node[t].prev THEN Nil ELSE node[s].next
      BY <2>3, <2>4 DEF Nodes
    <2> QED BY <1>8, <2>2, <2>3, <2>5 DEF n
  <1>9. CASE i # 1 /\ i # n
    <2>1. Unlinked(t) = [node EXCEPT ![node[t].prev].next = node[t].next,
                                     ![node[t].next].prev = node[t].prev]
      BY <1>4, <1>9 DEF Unlinked
    <2> QED BY <1>2, <1>4, <1>5, <1>9, <2>1 DEF n, Nodes
  <1> QED BY <1>6, <1>7, <1>8, <1>9
LEMMA LooseNodes ==
  ASSUME TypeOK, Known, Links, NEW t, Listed(t), NEW s \in Parkers, ~Listed(s)
  PROVE  Unlinked(t)[s].next = node[s].next /\ Unlinked(t)[s].prev = node[s].prev
  <1> DEFINE n == Len(queue)
  <1>1. PICK i \in 1 .. n : queue[i] = t
    BY DEF Listed
  <1>2. (i # 1 => i - 1 \in 1 .. n) /\ (i # n => i + 1 \in 1 .. n)
    <2>1. n \in Nat
      BY KnownParts
    <2> HIDE DEF n
    <2> QED BY <2>1
  <1>3. \A k \in 1 .. n : s # queue[k]
    BY DEF Listed
  <1> QED BY <1>1, <1>2, <1>3, UnlinkedNodes

\* t leaves the list, from whichever place.
LEMMA LeftList ==
  ASSUME TypeOK, Known, Links, NEW t, Listed(t), Shrink(t),
         \A s \in Parkers \ {t} : /\ node'[s].next = Unlinked(t)[s].next
                                  /\ node'[s].prev = Unlinked(t)[s].prev
  PROVE  /\ Known' /\ Links' /\ Len(queue') = Len(queue) - 1
         /\ \A s : Listed(s)' <=> Listed(s) /\ s # t
         /\ \E i \in 1 .. Len(queue) : queue[i] = t /\ queue' = RemoveAt(queue, i)
  <1> DEFINE n == Len(queue)
             r == queue'
  <1>1. PICK i \in 1 .. n : queue[i] = t
    BY DEF Listed
  <1>2. /\ queue \in Seq(Parkers) /\ n \in Nat
        /\ \A k \in 1 .. n : queue[k] \in Parkers
        /\ \A k, l \in 1 .. n : queue[k] = queue[l] => k = l
    BY KnownParts DEF Known
  <1>3. r = RemoveAt(queue, i)
    BY <1>1, <1>2, RemoveFirstIs DEF Shrink
  <1>4. /\ r \in Seq(Parkers) /\ Len(r) = n - 1
        /\ \A k \in 1 .. n - 1 : r[k] = IF k < i THEN queue[k] ELSE queue[k + 1]
    BY <1>2, <1>3, RemoveAtElements
  <1>5. /\ head = queue[1] /\ tail = queue[n]
        /\ \A k \in 1 .. n : /\ node[queue[k]].next = IF k = n THEN Nil ELSE queue[k + 1]
                             /\ node[queue[k]].prev = IF k = 1 THEN Nil ELSE queue[k - 1]
    BY <1>1, <1>2 DEF Links
  <1>6. \A s \in Parkers \ {t} :
          /\ node'[s].next = IF i # 1 /\ s = queue[i - 1] THEN node[t].next ELSE node[s].next
          /\ node'[s].prev = IF i # n /\ s = queue[i + 1] THEN node[t].prev ELSE node[s].prev
    BY <1>1, UnlinkedNodes
  <1>7. /\ head' = IF t # head THEN head ELSE IF t = tail THEN Nil ELSE node[t].next
        /\ tail' = IF t # tail THEN tail ELSE IF t = head THEN Nil ELSE node[t].prev
    BY DEF Shrink
  <1> HIDE DEF n, r
  <1>8. \A k \in 1 .. n - 1 :
          \/ k < i /\ r[k] = queue[k] /\ k \in 1 .. n
          \/ k >= i /\ r[k] = queue[k + 1] /\ k + 1 \in 1 .. n
    BY <1>1, <1>2, <1>4
  <1>9. \A k \in 1 .. n - 1 : r[k] \in Parkers \ {t}
    BY <1>1, <1>2, <1>8
  <1>10. \A k, l \in 1 .. n - 1 : r[k] = r[l] => k = l
    BY <1>1, <1>2, <1>8
  <1>11. Known'
    BY <1>4, <1>10 DEF Known, r
  <1>12. \A s : (\E k \in 1 .. n - 1 : r[k] = s) <=> (\E k \in 1 .. n : queue[k] = s) /\ s # t
    <2> SUFFICES ASSUME NEW k \in 1 .. n, queue[k] # t
                 PROVE  \E l \in 1 .. n - 1 : r[l] = queue[k]
      BY <1>8, <1>9
    <2>1. CASE k < i
      <3>1. k \in 1 .. n - 1 /\ r[k] = queue[k]
        BY <1>1, <1>2, <1>4, <2>1
      <3> QED BY <3>1
    <2>2. CASE k > i
      <3>1. k - 1 \in 1 .. n - 1 /\ ~(k - 1 < i) /\ (k - 1) + 1 = k
        BY <1>1, <1>2, <2>2
      <3>2. r[k - 1] = queue[k]
        BY <1>4, <3>1
      <3> QED BY <3>1, <3>2
    <2>3. k # i
      BY <1>1
    <2> QED BY <1>2, <2>1, <2>2, <2>3
  <1>13. head' = IF n - 1 = 0 THEN Nil ELSE r[1]
    <2>1. t = head <=> i = 1
      BY <1>1, <1>2, <1>5
    <2>2. t = tail <=> i = n
      BY <1>1, <1>2, <1>5
    <2>3. CASE i = 1 /\ i = n
      BY <1>7, <2>1, <2>2, <2>3
    <2>4. CASE i = 1 /\ i # n
      <3>1. 1 \in 1 .. n - 1 /\ ~(1 < i) /\ n - 1 # 0
        BY <1>1, <1>2, <2>4
      <3>2. r[1] = queue[1 + 1] /\ node[t].next = queue[1 + 1]
        BY <1>1, <1>4, <1>5, <2>4, <3>1
      <3> QED BY <1>7, <2>1, <2>2, <2>4, <3>1, <3>2
    <2>5. CASE i # 1
      <3>1. 1 \in 1 .. n - 1 /\ 1 < i /\ n - 1 # 0
        BY <1>1, <1>2, <2>5
      <3>2. r[1] = queue[1]
        BY <1>4, <3>1
      <3> QED BY <1>5, <1>7, <2>1, <2>5, <3>1, <3>2
    <2> QED BY <2>3, <2>4, <2>5
  <1>14. tail' = IF n - 1 = 0 THEN Nil ELSE r[n - 1]
    <2>1. t = head <=> i = 1
      BY <1>1, <1>2, <1>5
    <2>2. t = tail <=> i = n
      BY <1>1, <1>2, <1>5
    <2>3. CASE i = 1 /\ i = n
      BY <1>7, <2>1, <2>2, <2>3
    <2>4. CASE i # 1 /\ i = n
      <3>1. n - 1 \in 1 .. n - 1 /\ n - 1 < i /\ n - 1 # 0
        BY <1>1, <1>2, <2>4
      <3>2. r[n - 1] = queue[n - 1] /\ node[t].prev = queue[n - 1]
        BY <1>1, <1>4, <1>5, <2>4, <3>1
      <3> QED BY <1>7, <2>1, <2>2, <2>4, <3>1, <3>2
    <2>5. CASE i # n
      <3>1. n - 1 \in 1 .. n - 1 /\ ~(n - 1 < i) /\ n - 1 # 0 /\ (n - 1) + 1 = n
        BY <1>1, <1>2, <2>5
      <3>2. r[n - 1] = queue[n]
        BY <1>4, <3>1
      <3> QED BY <1>5, <1>7, <2>2, <2>5, <3>1, <3>2
    <2> QED BY <2>3, <2>4, <2>5
  <1>15. ASSUME NEW k \in 1 .. n - 1
         PROVE  /\ node'[r[k]].next = IF k = n - 1 THEN Nil ELSE r[k + 1]
                /\ node'[r[k]].prev = IF k = 1 THEN Nil ELSE r[k - 1]
    <2>1. r[k] \in Parkers \ {t}
      BY <1>9
    <2>2. /\ node[t].next = IF i = n THEN Nil ELSE queue[i + 1]
          /\ node[t].prev = IF i = 1 THEN Nil ELSE queue[i - 1]
      BY <1>1, <1>5
    <2>3. k # n - 1 => k + 1 \in 1 .. n - 1
      BY <1>2
    <2>4. k # 1 => k - 1 \in 1 .. n - 1
      BY <1>2
    <2>5. CASE k < i
      <3>1. r[k] = queue[k] /\ k \in 1 .. n /\ k # n
        BY <1>1, <1>2, <1>4, <2>5
      <3>2. /\ node[r[k]].next = queue[k + 1]
            /\ node[r[k]].prev = IF k = 1 THEN Nil ELSE queue[k - 1]
        BY <1>5, <3>1
      <3>3. i # 1 /\ (r[k] = queue[i - 1] <=> k = i - 1) /\ (i # n => r[k] # queue[i + 1])
        <4>1. i # 1 /\ i - 1 \in 1 .. n /\ (i # n => i + 1 \in 1 .. n /\ k # i + 1)
          BY <1>1, <1>2, <2>5
        <4> QED BY <1>2, <3>1, <4>1
      <3>4. k # 1 => r[k - 1] = queue[k - 1]
        <4>1. k # 1 => k - 1 < i
          BY <1>1, <1>2, <2>5
        <4> QED BY <1>4, <2>4, <4>1
      <3>5. node'[r[k]].prev = IF k = 1 THEN Nil ELSE r[k - 1]
        BY <1>6, <2>1, <3>2, <3>3, <3>4
      <3>6. CASE k = i - 1
        <4>1. node'[r[k]].next = IF i = n THEN Nil ELSE queue[i + 1]
          BY <1>6, <2>1, <2>2, <3>3, <3>6
        <4>2. k + 1 = i /\ ~(k + 1 < i) /\ (i = n <=> k = n - 1)
          BY <1>1, <1>2, <3>6
        <4>3. k # n - 1 => r[k + 1] = queue[i + 1]
          BY <1>4, <2>3, <4>2
        <4> QED BY <3>5, <4>1, <4>2, <4>3
      <3>7. CASE k # i - 1
        <4>1. k # n - 1 /\ k + 1 < i
          BY <1>1, <1>2, <2>5, <3>7
        <4>2. r[k + 1] = queue[k + 1]
          BY <1>4, <2>3, <4>1
        <4> QED BY <1>6, <2>1, <3>2, <3>3, <3>5, <3>7, <4>1, <4>2
      <3> QED BY <3>6, <3>7
    <2>6. CASE ~(k < i)
      <3>1. r[k] = queue[k + 1] /\ k + 1 \in 1 .. n /\ k + 1 # 1
            /\ (k + 1 = n <=> k = n - 1) /\ (k + 1) - 1 = k /\ (k + 1) + 1 = k + 2
        <4>1. k \in Int /\ n \in Int /\ 1 <= k /\ k <= n - 1
          BY <1>2
        <4>2. k + 1 \in 1 .. n /\ k + 1 # 1
              /\ (k + 1 = n <=> k = n - 1) /\ (k + 1) - 1 = k /\ (k + 1) + 1 = k + 2
          BY <4>1
        <4> QED BY <1>4, <2>6, <4>2
      <3>2. /\ node[r[k]].next = IF k = n - 1 THEN Nil ELSE queue[k + 2]
            /\ node[r[k]].prev = queue[k]
        BY <1>5, <3>1
      <3>3. (i # 1 => r[k] # queue[i - 1]) /\ (i # n /\ r[k] = queue[i + 1] <=> k = i)
        <4>1. /\ i # 1 => i - 1 \in 1 .. n /\ k + 1 # i - 1
              /\ i # n => i + 1 \in 1 .. n
              /\ k = i => i # n
              /\ k + 1 = i + 1 <=> k = i
          BY <1>1, <1>2, <2>6
        <4> QED BY <1>2, <3>1, <4>1
      <3>4. k # n - 1 => r[k + 1] = queue[k + 2]
        <4>1. ~(k + 1 < i) /\ (k + 1) + 1 = k + 2
          BY <1>1, <1>2, <2>6
        <4> QED BY <1>4, <2>3, <4>1
      <3>5. node'[r[k]].next = IF k = n - 1 THEN Nil ELSE r[k + 1]
        BY <1>6, <2>1, <3>2, <3>3, <3>4
      <3>6. CASE k = i
        <4>1. node'[r[k]].prev = IF i = 1 THEN Nil ELSE queue[i - 1]
          BY <1>6, <2>1, <2>2, <3>3, <3>6
        <4>2. k # 1 => r[k - 1] = queue[k - 1]
          <5>1. k # 1 => k - 1 < i
            BY <1>1, <1>2, <3>6
          <5> QED BY <1>4, <2>4, <5>1
        <4> QED BY <3>5, <3>6, <4>1, <4>2
      <3>7. CASE k # i
        <4>1. k # 1 /\ ~(k - 1 < i) /\ (k - 1) + 1 = k
          BY <1>1, <1>2, <2>6, <3>7
        <4>2. r[k - 1] = queue[k]
          BY <1>4, <2>4, <4>1
        <4> QED BY <1>6, <2>1, <3>2, <3>3, <3>5, <3>7, <4>1, <4>2
      <3> QED BY <3>6, <3>7
    <2> QED BY <2>5, <2>6
  <1>16. Links'
    BY <1>4, <1>13, <1>14, <1>15 DEF Links, r
  <1>17. \A s : Listed(s)' <=> Listed(s) /\ s # t
    BY <1>4, <1>12 DEF Listed, r, n
  <1> QED BY <1>1, <1>3, <1>4, <1>11, <1>16, <1>17 DEF n, r
\* t joins the list at its end.
LEMMA JoinedList ==
  ASSUME TypeOK, Known, Links, NEW t \in Parkers, ~Listed(t), Push(t),
         node[t].next = Nil, node[t].prev = Nil
  PROVE  /\ Known' /\ Links' /\ queue' = Append(queue, t) /\ Len(queue') = Len(queue) + 1
         /\ \A s : Listed(s)' <=> Listed(s) \/ s = t
         /\ head' \in Pointers /\ tail' \in Pointers /\ node' \in [Parkers -> Nodes]
         /\ \A s \in Parkers : /\ node'[s].key = node[s].key
                               /\ node'[s].shouldPark = node[s].shouldPark
  <1> DEFINE n == Len(queue)
             r == queue'
  <1>1. /\ queue \in Seq(Parkers) /\ n \in Nat /\ (n # 0 => n \in 1 .. n)
        /\ \A k \in 1 .. n : queue[k] \in Parkers /\ queue[k] # t
        /\ \A k, l \in 1 .. n : queue[k] = queue[l] => k = l
    BY KnownParts DEF Known, Listed
  <1>2. /\ head = (IF n = 0 THEN Nil ELSE queue[1]) /\ tail = (IF n = 0 THEN Nil ELSE queue[n])
        /\ \A k \in 1 .. n : /\ node[queue[k]].next = IF k = n THEN Nil ELSE queue[k + 1]
                             /\ node[queue[k]].prev = IF k = 1 THEN Nil ELSE queue[k - 1]
    BY DEF Links
  <1>3. /\ r = Append(queue, t) /\ tail' = t /\ node \in [Parkers -> Nodes] /\ Nil \in Pointers
        /\ t \in Pointers
    BY DEF Push, TypeOK, Nodes, Pointers
  <1>4. /\ r \in Seq(Parkers) /\ Len(r) = n + 1 /\ r[n + 1] = t
        /\ \A k \in 1 .. n : r[k] = queue[k]
    BY <1>1, <1>3, AppendProperties
  <1>5. n # 0 => head # Nil
    BY <1>1, <1>2
  <1> HIDE DEF n, r
  <1>6. \A k \in 1 .. n + 1 : k \in 1 .. n \/ k = n + 1
    BY <1>1
  <1>7. \A k, l \in 1 .. n + 1 : r[k] = r[l] => k = l
    BY <1>1, <1>4, <1>6
  <1>8. Known'
    BY <1>4, <1>7 DEF Known, r
  <1>9. \A s : (\E k \in 1 .. n + 1 : r[k] = s) <=> (\E k \in 1 .. n : queue[k] = s) \/ s = t
    <2>1. n + 1 \in 1 .. n + 1 /\ \A k \in 1 .. n : k \in 1 .. n + 1
      BY <1>1
    <2> QED BY <1>4, <1>6, <2>1
  <1>10. \A s : Listed(s)' <=> Listed(s) \/ s = t
    BY <1>4, <1>9 DEF Listed, r, n
  <1>11. CASE n = 0
    <2>1. head' = t /\ node' = node
      BY <1>2, <1>11 DEF Push
    <2>2. n + 1 = 1 /\ \A k \in 1 .. 1 : k = 1
      BY <1>11
    <2>3. Links'
      BY <1>3, <1>4, <1>11, <2>1, <2>2 DEF Links, r
    <2> QED BY <1>3, <1>4, <1>8, <1>10, <2>1, <2>3 DEF n, r
  <1>12. CASE n # 0
    <2>1. tail = queue[n] /\ tail \in Parkers /\ tail # t
      BY <1>1, <1>2, <1>12
    <2>2. head' = head /\ node' = [node EXCEPT ![t].prev = tail, ![tail].next = t]
      BY <1>2, <1>5, <1>12 DEF Push
    <2>3. node' \in [Parkers -> Nodes]
          /\ \A s \in Parkers :
               node'[s] = IF s = t THEN [node[s] EXCEPT !.prev = tail]
                          ELSE IF s = tail THEN [node[s] EXCEPT !.next = t] ELSE node[s]
      <3>1. tail \in Pointers
        BY <2>1 DEF Pointers
      <3>2. ASSUME NEW s \in Parkers
            PROVE  /\ node'[s] = IF s = t THEN [node[s] EXCEPT !.prev = tail]
                                 ELSE IF s = tail THEN [node[s] EXCEPT !.next = t] ELSE node[s]
                   /\ node'[s] \in Nodes
        <4>1. node[s] \in Nodes
          BY <1>3
        <4>2. CASE s = t
          BY <1>3, <2>1, <2>2, <3>1, <4>1, <4>2 DEF Nodes
        <4>3. CASE s # t /\ s = tail
          BY <1>3, <2>1, <2>2, <3>1, <4>1, <4>3 DEF Nodes
        <4>4. CASE s # t /\ s # tail
          BY <1>3, <2>1, <2>2, <3>1, <4>1, <4>4 DEF Nodes
        <4> QED BY <4>2, <4>3, <4>4
      <3>3. node' = [s \in Parkers |-> node'[s]]
        BY <1>3, <2>2
      <3> QED BY <3>2, <3>3
    <2>4. \A s \in Parkers : node[s] \in Nodes
      BY <1>3
    <2>5. \A s \in Parkers :
            /\ node'[s].key = node[s].key /\ node'[s].shouldPark = node[s].shouldPark
            /\ node'[s].next = IF s = tail THEN t ELSE node[s].next
            /\ node'[s].prev = IF s = t THEN tail ELSE node[s].prev
      BY <2>1, <2>3, <2>4 DEF Nodes
    <2>6. head' = r[1] /\ head' \in Pointers /\ n + 1 # 0
      <3>1. 1 \in 1 .. n
        BY <1>1, <1>12
      <3> QED BY <1>1, <1>2, <1>4, <1>12, <2>2, <3>1 DEF Pointers
    <2>7. ASSUME NEW k \in 1 .. n + 1
          PROVE  /\ node'[r[k]].next = IF k = n + 1 THEN Nil ELSE r[k + 1]
                 /\ node'[r[k]].prev = IF k = 1 THEN Nil ELSE r[k - 1]
      <3>1. CASE k = n + 1
        <4>1. k # 1 /\ k - 1 = n /\ n \in 1 .. n
          BY <1>1, <1>12, <3>1
        <4>2. r[k] = t /\ r[k - 1] = queue[n]
          BY <1>4, <3>1, <4>1
        <4> QED BY <2>1, <2>5, <3>1, <4>1, <4>2
      <3>2. CASE k \in 1 .. n
        <4>1. k # n + 1 /\ (k # 1 => k - 1 \in 1 .. n) /\ (k # n => k + 1 \in 1 .. n)
              /\ (k = n => k + 1 = n + 1) /\ n \in 1 .. n
          BY <1>1, <1>12, <3>2
        <4>2. r[k] = queue[k] /\ queue[k] \in Parkers /\ queue[k] # t /\ (queue[k] = tail <=> k = n)
          BY <1>1, <1>4, <2>1, <3>2, <4>1
        <4>3. node'[r[k]].prev = IF k = 1 THEN Nil ELSE r[k - 1]
          BY <1>2, <1>4, <2>5, <3>2, <4>1, <4>2
        <4>4. node'[r[k]].next = r[k + 1]
          BY <1>2, <1>4, <2>5, <3>2, <4>1, <4>2
        <4> QED BY <4>1, <4>3, <4>4
      <3> QED BY <1>6, <3>1, <3>2
    <2>8. Links'
      BY <1>3, <1>4, <2>6, <2>7 DEF Links, r
    <2> QED BY <1>3, <1>4, <1>8, <1>10, <2>3, <2>5, <2>6, <2>8 DEF n, r
  <1> QED BY <1>11, <1>12

\* Nobody joins or leaves.
LEMMA SameList ==
  ASSUME Known, Links, UNCHANGED <<head, tail, queue>>,
         \A s \in Parkers : Listed(s) =>
           node'[s].next = node[s].next /\ node'[s].prev = node[s].prev
  PROVE  Known' /\ Links' /\ \A s : Listed(s)' <=> Listed(s)
  <1>1. \A i \in 1 .. Len(queue) : queue[i] \in Parkers /\ Listed(queue[i])
    BY KnownParts
  <1>2. Known' /\ \A s : Listed(s)' <=> Listed(s)
    BY DEF Known, Listed
  <1>3. Links'
    BY <1>1 DEF Links
  <1> QED BY <1>2, <1>3

\* What an unparker knows of the others ahead of t stays true.
LEMMA OnwardKept ==
  ASSUME Known, Known', NEW u, NEW t, Onward(u, t), asked'[u] = asked[u],
         \A s \in Parkers : Listed(s) => node'[s].key = node[s].key,
         \/ queue' = queue
         \/ \E s \in Parkers : queue' = Append(queue, s) /\ ~Listed(s)
         \/ \E i \in 1 .. Len(queue) : queue' = RemoveAt(queue, i) /\ queue[i] # t
  PROVE  Onward(u, t)'
  <1> SUFFICES ASSUME t # Nil PROVE Listed(t)' /\ Passed(u, t)'
    BY DEF Onward
  <1> DEFINE n == Len(queue)
             r == queue'
  <1>1. /\ queue \in Seq(Parkers) /\ n \in Nat
        /\ \A k \in 1 .. n : queue[k] \in Parkers /\ Listed(queue[k])
        /\ \A k, l \in 1 .. n : queue[k] = queue[l] => k = l
    BY KnownParts DEF Known
  <1>2. \A k \in 1 .. n : node'[queue[k]].key = node[queue[k]].key
    BY <1>1
  <1>3. PICK j \in 1 .. n : queue[j] = t
    BY DEF Onward, Listed
  <1>4. \A k \in 1 .. j - 1 : ~Matches(node[queue[k]].key, asked[u])
    BY <1>3 DEF Onward, Passed
  <1>5. \A k \in 1 .. j - 1 : k \in 1 .. n
    BY <1>1, <1>3
  <1>6. SUFFICES \E m \in 1 .. Len(r) : r[m] = t
                   /\ \A k \in 1 .. m - 1 : \E l \in 1 .. j - 1 : r[k] = queue[l]
    <2>1. PICK m \in 1 .. Len(r) : r[m] = t
                   /\ \A k \in 1 .. m - 1 : \E l \in 1 .. j - 1 : r[k] = queue[l]
      BY <1>6
    <2>2. \A k \in 1 .. m - 1 : ~Matches(node'[r[k]].key, asked'[u])
      <3> SUFFICES ASSUME NEW k \in 1 .. m - 1
                   PROVE  ~Matches(node'[r[k]].key, asked'[u])
        OBVIOUS
      <3>1. PICK l \in 1 .. j - 1 : r[k] = queue[l]
        BY <2>1
      <3>2. ~Matches(node[queue[l]].key, asked[u]) /\ node'[queue[l]].key = node[queue[l]].key
        BY <1>2, <1>4, <1>5
      <3>3. asked'[u] = asked[u]
        OBVIOUS
      <3> HIDE DEF r
      <3> QED BY <3>1, <3>2, <3>3
    <2>3. \A k \in 1 .. Len(r) : r[k] = t => k = m
      BY <2>1 DEF Known
    <2>4. Listed(t)'
      BY <2>1 DEF Listed
    <2>5. Passed(u, t)'
      BY <2>2, <2>3 DEF Passed, Matches
    <2> QED BY <2>4, <2>5
  <1>7. CASE r = queue
    BY <1>3, <1>7
  <1>8. CASE \E s \in Parkers : r = Append(queue, s) /\ ~Listed(s)
    <2>1. PICK s \in Parkers : r = Append(queue, s)
      BY <1>8
    <2>2. Len(r) = n + 1 /\ \A k \in 1 .. n : r[k] = queue[k]
      BY <1>1, <2>1, AppendProperties
    <2>3. j \in 1 .. Len(r)
      <3> HIDE DEF n, r
      <3> QED BY <1>1, <2>2
    <2> QED BY <1>3, <1>5, <2>2, <2>3
  <1>9. CASE \E i \in 1 .. n : r = RemoveAt(queue, i) /\ queue[i] # t
    <2>1. PICK i \in 1 .. n : r = RemoveAt(queue, i) /\ queue[i] # t
      BY <1>9
    <2>2. /\ Len(r) = n - 1
          /\ \A k \in 1 .. n - 1 : r[k] = IF k < i THEN queue[k] ELSE queue[k + 1]
      <3>1. queue \in Seq(Parkers) /\ i \in 1 .. Len(queue)
        BY <1>1
      <3>2. /\ Len(RemoveAt(queue, i)) = Len(queue) - 1
            /\ \A k \in 1 .. Len(queue) - 1 :
                 RemoveAt(queue, i)[k] = IF k < i THEN queue[k] ELSE queue[k + 1]
        BY <3>1, RemoveAtElements
      <3> QED BY <2>1, <3>2
    <2>3. i # j
      BY <1>3, <2>1
    <2> HIDE DEF n, r
    <2>4. CASE j < i
      <3>1. j \in 1 .. n - 1 /\ \A k \in 1 .. j - 1 : k \in 1 .. n - 1 /\ k < i
        BY <1>1, <2>1, <2>4
      <3>2. r[j] = t /\ \A k \in 1 .. j - 1 : r[k] = queue[k]
        BY <1>3, <2>2, <2>4, <3>1
      <3> QED BY <2>2, <3>1, <3>2
    <2>5. CASE j > i
      <3>1. j - 1 \in 1 .. n - 1 /\ ~(j - 1 < i) /\ (j - 1) + 1 = j
            /\ \A k \in 1 .. (j - 1) - 1 : k \in 1 .. n - 1 /\ k \in 1 .. j - 1 /\ k + 1 \in 1 .. j - 1
        BY <1>1, <2>1, <2>5
      <3>2. r[j - 1] = t
        BY <1>3, <2>2, <3>1
      <3>3. \A k \in 1 .. (j - 1) - 1 : r[k] = queue[k] \/ r[k] = queue[k + 1]
        BY <2>2, <3>1
      <3>4. \A k \in 1 .. (j - 1) - 1 : \E l \in 1 .. j - 1 : r[k] = queue[l]
        BY <3>1, <3>3
      <3> QED BY <2>2, <3>1, <3>2, <3>4
    <2>6. i \in Int /\ j \in Int
      BY <1>1, <2>1
    <2> QED BY <2>3, <2>4, <2>5, <2>6
  <1> QED BY <1>7, <1>8, <1>9
-----------------------------------------------------------------------------
(* What the steps have in common *)

LEMMA Types ==
  ASSUME LotInv
  PROVE  /\ TypeOK /\ Known /\ Links /\ node \in [Parkers -> Nodes]
         /\ result \in [Parkers -> {"none", "unparked", "timeout"}]
         /\ pc \in [Parkers \cup Unparkers -> Labels]
         /\ \A s \in Parkers : ParkerKnown(s) /\ (Listed(s) => Calling(s) /\ node[s].shouldPark)
         /\ \A u \in Unparkers : WalkerKnown(u) /\ (Locking(u) <=> owner = u)
         /\ \A s \in Parkers, u \in Unparkers : s # u
         /\ Nil \notin Parkers /\ Nil \notin Unparkers
         /\ Len(queue) \in Nat /\ count \in Nat
         /\ NoNode \in Nodes /\ NoNode.next = Nil /\ NoNode.prev = Nil
         /\ \A t : Listed(t) => t \in Parkers
  <1>1. TypeOK /\ Known /\ Links
    BY DEF LotInv
  <1>2. node \in [Parkers -> Nodes] /\ NoNode \in Nodes
    BY <1>1 DEF TypeOK, Nodes, NoNode, Pointers
  <1>3. pc \in [Parkers \cup Unparkers -> Labels]
    BY <1>1 DEF TypeOK, Labels
  <1>4. \A s \in Parkers : ParkerKnown(s) /\ (Listed(s) => Calling(s) /\ node[s].shouldPark)
    BY DEF LotInv, ParkerKnown
  <1>5. \A u \in Unparkers : WalkerKnown(u) /\ (Locking(u) <=> owner = u)
    BY DEF LotInv, OneOwner
  <1>6. Len(queue) \in Nat /\ \A t : Listed(t) => t \in Parkers
    BY <1>1, KnownParts
  <1>7. count \in Nat /\ result \in [Parkers -> {"none", "unparked", "timeout"}]
    BY <1>1 DEF TypeOK
  <1>8. NoNode.next = Nil /\ NoNode.prev = Nil
    BY DEF NoNode
  <1> QED BY <1>1, <1>2, <1>3, <1>4, <1>5, <1>6, <1>7, <1>8

LEMMA ParkerKept ==
  ASSUME NEW s \in Parkers, ParkerKnown(s), pc'[s] = pc[s], result'[s] = result[s],
         node'[s].key = node[s].key, node'[s].shouldPark = node[s].shouldPark,
         At(s, "validate") => node'[s].next = node[s].next /\ node'[s].prev = node[s].prev,
         Listed(s)' <=> Listed(s),
         \A u \in Unparkers : At(u, "clear") /\ it[u] = s => At(u, "clear")' /\ it'[u] = s
  PROVE  ParkerKnown(s)'
  BY DEF ParkerKnown, At, Calling

LEMMA OutsideWalker ==
  ASSUME NEW u, pc'[u] \in {"idle", "lock"}
  PROVE  WalkerKnown(u)'
  BY DEF WalkerKnown, At

LEMMA WalkerKept ==
  ASSUME Known, Known', NEW u \in Unparkers, WalkerKnown(u), queue' = queue,
         pc'[u] = pc[u], it'[u] = it[u], after'[u] = after[u], asked'[u] = asked[u],
         found'[u] = found[u],
         \A s \in Parkers : Listed(s) => node'[s].key = node[s].key /\ node'[s].next = node[s].next,
         \A s \in Parkers : pc[u] \in {"clear", "notify"} /\ s = it[u] /\ Calling(s) =>
           Calling(s)' /\ node'[s].shouldPark = node[s].shouldPark
  PROVE  WalkerKnown(u)'
  <1>1. \A t : Onward(u, t) => Onward(u, t)'
    BY OnwardKept
  <1>2. \A t : Listed(t)' <=> Listed(t)
    BY DEF Listed
  <1>3. PICK x, y : x = it[u] /\ y = after[u] /\ x = it'[u] /\ y = after'[u]
    OBVIOUS
  <1>4. CASE pc[u] \in {"idle", "lock"}
    BY <1>4, OutsideWalker
  <1>5. CASE At(u, "scan")
    <2>1. Onward(u, x)
      BY <1>3, <1>5 DEF WalkerKnown
    <2>2. Onward(u, x)'
      BY <1>1, <2>1
    <2> QED BY <1>3, <1>5, <2>2 DEF WalkerKnown, At
  <1>6. CASE pc[u] \in {"count", "pop"}
    <2>1. x # Nil /\ Onward(u, x) /\ y = node[x].next /\ Matches(node[x].key, asked[u])
      BY <1>3, <1>6 DEF WalkerKnown
    <2>2. Onward(u, x)' /\ Listed(x) /\ x \in Parkers
      BY <1>1, <2>1, KnownParts DEF Onward
    <2>3. y = node'[x].next /\ Matches(node'[x].key, asked'[u])
      BY <2>1, <2>2
    <2>4. At(u, "pop")' /\ found'[u] = "eNoneLeft" => Len(queue') = 1
      BY <1>6 DEF WalkerKnown, At
    <2> QED BY <1>3, <1>6, <2>1, <2>2, <2>3, <2>4 DEF WalkerKnown, At
  <1>7. CASE pc[u] \in {"clear", "notify"}
    <2>1. x \in Parkers /\ Calling(x) /\ ~Listed(x) /\ Onward(u, y)
      BY <1>3, <1>7 DEF WalkerKnown
    <2>2. /\ Calling(x)' /\ node'[x].shouldPark = node[x].shouldPark /\ ~Listed(x)'
          /\ Onward(u, y)'
      BY <1>1, <1>2, <1>3, <1>7, <2>1
    <2>3. (At(u, "clear") => node[x].shouldPark) /\ (At(u, "notify") => ~node[x].shouldPark)
      BY <1>3, <1>7 DEF WalkerKnown
    <2> QED BY <1>3, <1>7, <2>1, <2>2, <2>3 DEF WalkerKnown, At
  <1>8. pc[u] \in {"idle", "lock", "scan", "count", "pop", "clear", "notify"}
    BY DEF WalkerKnown
  <1> QED BY <1>4, <1>5, <1>6, <1>7, <1>8 DEF At

-----------------------------------------------------------------------------
(* The steps of a parker *)

\* A step that leaves the list, and the others, alone.
LEMMA ParkerMoves ==
  ASSUME LotInv, TypeOK', NEW t \in Parkers, NEW label, pc' = [pc EXCEPT ![t] = label],
         UNCHANGED <<head, tail, owner, queue, unparker>>,
         \A s \in Parkers \ {t} : node'[s] = node[s] /\ result'[s] = result[s],
         Listed(t) => node'[t] = node[t],
         \A u \in Unparkers : pc[u] \in {"clear", "notify"} /\ it[u] = t =>
           Calling(t)' /\ node'[t].shouldPark = node[t].shouldPark,
         ParkerKnown(t)', Counted'
  PROVE  LotInv'
  <1> USE Types DEF unparker
  <1>1. /\ pc'[t] = label /\ \A s \in Parkers \ {t} : pc'[s] = pc[s]
        /\ \A u \in Unparkers : pc'[u] = pc[u]
    OBVIOUS
  <1>2. \A s \in Parkers : Listed(s) => node'[s] = node[s]
    OBVIOUS
  <1>3. Known' /\ Links' /\ \A s : Listed(s)' <=> Listed(s)
    BY <1>2, SameList
  <1>4. OneOwner'
    BY <1>1 DEF OneOwner, Locking
  <1>5. ASSUME NEW s \in Parkers PROVE ParkerKnown(s)'
    <2>1. CASE s = t
      BY <2>1
    <2>2. CASE s # t
      <3>1. \A u \in Unparkers : At(u, "clear") /\ it[u] = s => At(u, "clear")' /\ it'[u] = s
        BY <1>1 DEF At
      <3> QED BY <1>1, <1>3, <2>2, <3>1, ParkerKept
    <2> QED BY <2>1, <2>2
  <1>6. ASSUME NEW u \in Unparkers PROVE WalkerKnown(u)'
    <2>1. ASSUME NEW s \in Parkers, pc[u] \in {"clear", "notify"}, s = it[u], Calling(s)
          PROVE  Calling(s)' /\ node'[s].shouldPark = node[s].shouldPark
      <3>1. CASE s = t
        BY <2>1, <3>1
      <3>2. CASE s # t
        BY <1>1, <2>1, <3>2 DEF Calling
      <3> QED BY <3>1, <3>2
    <2>2. /\ pc'[u] = pc[u] /\ it'[u] = it[u] /\ after'[u] = after[u] /\ asked'[u] = asked[u]
          /\ found'[u] = found[u] /\ queue' = queue
      BY <1>1
    <2> QED BY <1>2, <1>3, <2>1, <2>2, WalkerKept
  <1> QED BY <1>3, <1>4, <1>5, <1>6 DEF LotInv

LEMMA ValidatingCount ==
  IsFiniteSet(Validating) /\ Cardinality(Validating) \in Nat
  <1>1. Validating \in SUBSET Parkers
    BY DEF Validating
  <1> QED BY <1>1, FS_Subset, FS_CardinalityType

\* The thread that t was counts once.
LEMMA ValidatingChange ==
  ASSUME NEW t \in Parkers, \A s \in Parkers \ {t} : pc'[s] = pc[s]
  PROVE  /\ (At(t, "validate") <=> At(t, "validate")') =>
              Cardinality(Validating') = Cardinality(Validating)
         /\ ~At(t, "validate") /\ At(t, "validate")' =>
              Cardinality(Validating') = Cardinality(Validating) + 1
         /\ At(t, "validate") /\ ~At(t, "validate")' =>
              Cardinality(Validating') = Cardinality(Validating) - 1
              /\ Cardinality(Validating) # 0
  <1>1. CASE At(t, "validate") <=> At(t, "validate")'
    <2>1. Validating' = Validating
      BY <1>1 DEF Validating, At
    <2> QED BY <1>1, <2>1
  <1>2. CASE ~At(t, "validate") /\ At(t, "validate")'
    <2>1. Validating' = Validating \cup {t} /\ t \notin Validating
      BY <1>2 DEF Validating, At
    <2> QED BY <1>2, <2>1, ValidatingCount, FS_AddElement
  <1>3. CASE At(t, "validate") /\ ~At(t, "validate")'
    <2>1. Validating' = Validating \ {t} /\ t \in Validating
      BY <1>3 DEF Validating, At
    <2>2. Cardinality(Validating') = Cardinality(Validating) - 1
      BY <2>1, ValidatingCount, FS_RemoveElement
    <2>3. Cardinality(Validating) # 0
      BY <2>1, ValidatingCount, FS_EmptySet
    <2> QED BY <1>3, <2>2, <2>3
  <1> QED BY <1>1, <1>2, <1>3

LEMMA ParkBeginKept ==
  ASSUME LotInv, NEW t \in Parkers, ParkBegin(t)
  PROVE  LotInv'
  <1> USE Types
  <1>1. PICK key \in Keys : node' = [node EXCEPT ![t] = [NoNode EXCEPT !.key = key,
                                                                      !.shouldPark = TRUE]]
    BY DEF ParkBegin
  <1>2. /\ pc[t] = "idle" /\ pc' = [pc EXCEPT ![t] = "validate"] /\ count' = count + 1
        /\ result' = [result EXCEPT ![t] = "none"]
        /\ UNCHANGED <<head, tail, owner, unparker, queue>>
    BY DEF ParkBegin, At, Goto
  <1> DEFINE new == [NoNode EXCEPT !.key = key, !.shouldPark = TRUE]
  <1>3. /\ new \in Nodes /\ new.key = key /\ new.shouldPark /\ new.next = Nil /\ new.prev = Nil
    BY DEF NoNode, Nodes, Pointers
  <1> HIDE DEF new
  <1>4. node' = [node EXCEPT ![t] = new]
    BY <1>1 DEF new
  <1>5. node'[t] = new /\ node' \in [Parkers -> Nodes]
        /\ \A s \in Parkers \ {t} : node'[s] = node[s] /\ result'[s] = result[s]
    BY <1>2, <1>3, <1>4
  <1>6. pc'[t] = "validate" /\ \A s \in Parkers \ {t} : pc'[s] = pc[s]
    BY <1>2
  <1>7. TypeOK'
    <2>1. pc' \in [Parkers \cup Unparkers -> Labels]
      BY <1>2 DEF Labels
    <2>2. count' \in Nat /\ result' \in [Parkers -> {"none", "unparked", "timeout"}]
      BY <1>2
    <2> QED BY <1>2, <1>5, <2>1, <2>2 DEF TypeOK, unparker, Nodes
  <1>8. ~Calling(t) /\ ~Listed(t)
    BY <1>2 DEF Calling
  <1>9. Counted'
    BY <1>2, <1>6, ValidatingChange, ValidatingCount DEF LotInv, Counted, At
  <1>10. ParkerKnown(t)'
    <2>1. ~Listed(t)'
      BY <1>2, <1>8 DEF Listed
    <2>2. result'[t] = "none"
      BY <1>2
    <2> QED BY <1>3, <1>5, <1>6, <2>1, <2>2 DEF ParkerKnown, At, Calling
  <1>11. \A u \in Unparkers : ~(pc[u] \in {"clear", "notify"} /\ it[u] = t)
    BY <1>8 DEF WalkerKnown
  <1> QED BY <1>2, <1>5, <1>7, <1>8, <1>9, <1>10, <1>11, ParkerMoves

\* A call that ends without the list: node[t] is gone.
LEMMA ReturnKept ==
  ASSUME LotInv, NEW t \in Parkers, NEW outcome \in {"none", "unparked"},
         Return(t, outcome, node), UNCHANGED <<head, tail, owner, unparker, queue>>,
         ~Listed(t), At(t, "validate") \/ Calling(t),
         count' = IF At(t, "validate") THEN count - 1 ELSE count,
         \A u \in Unparkers : ~(pc[u] \in {"clear", "notify"} /\ it[u] = t)
  PROVE  LotInv'
  <1> USE Types
  <1>1. /\ node' = [node EXCEPT ![t] = NoNode] /\ result' = [result EXCEPT ![t] = outcome]
        /\ pc' = [pc EXCEPT ![t] = "idle"]
    BY DEF Return, Goto
  <1>2. /\ node' \in [Parkers -> Nodes]
        /\ \A s \in Parkers \ {t} : node'[s] = node[s] /\ result'[s] = result[s]
    BY <1>1
  <1>3. pc'[t] = "idle" /\ \A s \in Parkers \ {t} : pc'[s] = pc[s]
    BY <1>1
  <1>4. ASSUME At(t, "validate") PROVE Counted' /\ count' \in Nat
    <2>1. Cardinality(Validating') = Cardinality(Validating) - 1 /\ Cardinality(Validating) # 0
      BY <1>3, <1>4, ValidatingChange DEF At
    <2>2. Counted' /\ count' \in Nat
      <3>1. count = Len(queue) + Cardinality(Validating) /\ count' = count - 1 /\ queue' = queue
        BY <1>4 DEF LotInv, Counted
      <3> QED BY <2>1, <3>1, ValidatingCount DEF Counted
    <2> QED BY <2>2
  <1>5. ASSUME ~At(t, "validate") PROVE Counted' /\ count' \in Nat
    <2>1. Cardinality(Validating') = Cardinality(Validating)
      BY <1>3, <1>5, ValidatingChange DEF At
    <2> QED BY <1>5, <2>1 DEF LotInv, Counted
  <1>6. Counted' /\ count' \in Nat
    BY <1>4, <1>5 DEF LotInv, Counted
  <1>7. TypeOK'
    <2>1. pc' \in [Parkers \cup Unparkers -> Labels]
      BY <1>1 DEF Labels
    <2>2. result' \in [Parkers -> {"none", "unparked", "timeout"}]
      BY <1>1
    <2> QED BY <1>2, <1>6, <2>1, <2>2 DEF TypeOK, unparker, Nodes
  <1>8. ParkerKnown(t)'
    <2>1. ~Listed(t)'
      BY DEF Listed
    <2> QED BY <1>3, <2>1 DEF ParkerKnown, At, Calling
  <1> QED BY <1>1, <1>2, <1>6, <1>7, <1>8, ParkerMoves

\* A step from one place in the call to another.
LEMMA CallingKept ==
  ASSUME LotInv, NEW t \in Parkers, NEW label \in {"check", "waiting", "relock"}, Calling(t),
         Goto(t, label), UNCHANGED <<bucket, parker, unparker, queue>>
  PROVE  LotInv'
  <1> USE Types DEF bucket, parker, Goto
  <1>1. pc'[t] = label /\ \A s \in Parkers \ {t} : pc'[s] = pc[s]
    OBVIOUS
  <1>2. Calling(t)' /\ ~At(t, "validate") /\ ~At(t, "validate")'
    BY <1>1 DEF Calling, At
  <1>3. TypeOK'
    <2>1. pc' \in [Parkers \cup Unparkers -> Labels]
      BY DEF Labels
    <2> QED BY <2>1 DEF TypeOK, unparker
  <1>4. Counted'
    <2>1. Cardinality(Validating') = Cardinality(Validating)
      BY <1>1, <1>2, ValidatingChange
    <2> QED BY <2>1 DEF LotInv, Counted
  <1>5. ParkerKnown(t)'
    <2>1. Listed(t)' <=> Listed(t)
      BY DEF Listed
    <2>2. \A u \in Unparkers : At(u, "clear") /\ it[u] = t => At(u, "clear")' /\ it'[u] = t
      BY DEF At, unparker
    <2>3. node[t].key \in Keys
      BY DEF ParkerKnown, Calling, At
    <2>4. node[t].shouldPark => Listed(t) \/ \E u \in Unparkers : At(u, "clear") /\ it[u] = t
      BY DEF ParkerKnown
    <2> QED BY <1>1, <1>2, <2>1, <2>2, <2>3, <2>4 DEF ParkerKnown, At, Calling
  <1> QED BY <1>1, <1>2, <1>3, <1>4, <1>5, ParkerMoves

LEMMA SkipKept ==
  ASSUME LotInv, NEW t \in Parkers, Skip(t)
  PROVE  LotInv'
  <1> USE Types
  <1>1. ~Listed(t) /\ At(t, "validate")
    BY DEF Skip, Calling, At
  <1>2. \A u \in Unparkers : ~(pc[u] \in {"clear", "notify"} /\ it[u] = t)
    BY DEF Skip, Locking
  <1> QED BY <1>1, <1>2, ReturnKept DEF Skip

LEMMA CheckKept ==
  ASSUME LotInv, NEW t \in Parkers, Check(t)
  PROVE  LotInv'
  <1> USE Types
  <1>1. Calling(t) /\ ~At(t, "validate")
    BY DEF Check, Calling, At
  <1>2. CASE node[t].shouldPark
    <2>1. Goto(t, "waiting") /\ UNCHANGED <<bucket, parker, unparker, queue>>
      BY <1>2 DEF Check
    <2> QED BY <1>1, <2>1, CallingKept
  <1>3. CASE ~node[t].shouldPark
    <2>1. Return(t, "unparked", node) /\ UNCHANGED <<bucket, unparker, queue>>
      BY <1>3 DEF Check
    <2>2. ~Listed(t)
      BY <1>3
    <2>3. \A u \in Unparkers : ~(pc[u] \in {"clear", "notify"} /\ it[u] = t)
      BY <1>3 DEF Check, NodeMutexFree, WalkerKnown, At
    <2>4. UNCHANGED <<head, tail, owner, unparker, queue>> /\ count' = count
      BY <2>1 DEF bucket
    <2> QED BY <1>1, <2>1, <2>2, <2>3, <2>4, ReturnKept
  <1> QED BY <1>2, <1>3

LEMMA RelockKept ==
  ASSUME LotInv, NEW t \in Parkers, Relock(t)
  PROVE  LotInv'
  <1> USE Types
  <1>1. Calling(t) /\ ~At(t, "validate") /\ owner = Nil /\ owner' = owner /\ UNCHANGED unparker
        /\ pc[t] = "relock"
    BY DEF Relock, Calling, At
  <1>2. \A u \in Unparkers : ~Locking(u)
    BY <1>1
  <1>3. \A u \in Unparkers : pc[u] \in {"idle", "lock"}
    BY <1>2 DEF WalkerKnown, Locking
  <1>4. CASE ~node[t].shouldPark
    <2>1. Return(t, "unparked", node) /\ UNCHANGED <<head, tail, count, queue>>
      BY <1>4 DEF Relock
    <2>2. \A u \in Unparkers : ~(pc[u] \in {"clear", "notify"} /\ it[u] = t)
      BY <1>2 DEF Locking
    <2> QED BY <1>1, <1>4, <2>1, <2>2, ReturnKept
  <1>5. CASE node[t].shouldPark
    <2>1. Shrink(t) /\ Return(t, "timeout", Unlinked(t))
      BY <1>5 DEF Relock
    <2>2. Listed(t)
      BY <1>1, <1>3, <1>5 DEF ParkerKnown, At
    <2>3. /\ node' = [Unlinked(t) EXCEPT ![t] = NoNode]
          /\ result' = [result EXCEPT ![t] = "timeout"] /\ pc' = [pc EXCEPT ![t] = "idle"]
          /\ count' = count - 1
      BY <2>1 DEF Return, Goto, Shrink
    <2>4. PICK i \in 1 .. Len(queue) : queue[i] = t
      BY <2>2 DEF Listed
    <2>5. /\ Unlinked(t) \in [Parkers -> Nodes]
          /\ \A s \in Parkers : /\ Unlinked(t)[s].key = node[s].key
                                /\ Unlinked(t)[s].shouldPark = node[s].shouldPark
      BY <2>4, UnlinkedNodes
    <2>6. node' \in [Parkers -> Nodes] /\ \A s \in Parkers \ {t} : node'[s] = Unlinked(t)[s]
      BY <2>3, <2>5
    <2>7. Known' /\ Links' /\ Len(queue') = Len(queue) - 1
          /\ \A s : Listed(s)' <=> Listed(s) /\ s # t
      BY <2>1, <2>2, <2>6, LeftList
    <2>8. /\ pc'[t] = "idle" /\ \A s \in Parkers \ {t} : pc'[s] = pc[s] /\ result'[s] = result[s]
          /\ \A u \in Unparkers : pc'[u] = pc[u]
      BY <2>3
    <2>9. Counted' /\ count' \in Nat
      <3>1. Cardinality(Validating') = Cardinality(Validating)
        BY <1>1, <2>8, ValidatingChange DEF At
      <3>2. Len(queue) # 0
        BY <2>4
      <3>3. count = Len(queue) + Cardinality(Validating)
        BY DEF LotInv, Counted
      <3> QED BY <2>3, <2>7, <3>1, <3>2, <3>3, ValidatingCount DEF Counted
    <2>10. TypeOK'
      <3>1. head' \in Pointers /\ tail' \in Pointers
        <4>1. node[t] \in Nodes
          OBVIOUS
        <4>2. node[t].next \in Pointers /\ node[t].prev \in Pointers
          BY <4>1 DEF Nodes
        <4> QED BY <2>1, <4>2 DEF Shrink, TypeOK, Pointers
      <3>2. pc' \in [Parkers \cup Unparkers -> Labels]
        BY <2>3 DEF Labels
      <3>3. result' \in [Parkers -> {"none", "unparked", "timeout"}]
        BY <2>3
      <3> QED BY <1>1, <2>6, <2>9, <3>1, <3>2, <3>3 DEF TypeOK, unparker, Nodes
    <2>11. OneOwner'
      BY <1>1, <2>8 DEF OneOwner, Locking
    <2>12. ASSUME NEW s \in Parkers PROVE ParkerKnown(s)'
      <3>1. CASE s = t
        BY <2>7, <2>8, <3>1 DEF ParkerKnown, At, Calling
      <3>2. CASE s # t
        <4>1. ~At(s, "validate") \/ (node'[s].next = node[s].next /\ node'[s].prev = node[s].prev)
          <5>1. SUFFICES ASSUME At(s, "validate")
                         PROVE  node'[s].next = node[s].next /\ node'[s].prev = node[s].prev
            OBVIOUS
          <5>2. ~Listed(s)
            BY <5>1 DEF Calling, At
          <5> QED BY <2>2, <2>6, <3>2, <5>2, LooseNodes
        <4>2. \A u \in Unparkers : ~At(u, "clear")
          BY <1>3 DEF At
        <4> QED BY <2>5, <2>6, <2>7, <2>8, <3>2, <4>1, <4>2, ParkerKept
      <3> QED BY <3>1, <3>2
    <2>13. ASSUME NEW u \in Unparkers PROVE WalkerKnown(u)'
      BY <1>3, <2>8, OutsideWalker
    <2> QED BY <2>7, <2>9, <2>10, <2>11, <2>12, <2>13 DEF LotInv
  <1> QED BY <1>4, <1>5

LEMMA EnqueueKept ==
  ASSUME LotInv, NEW t \in Parkers, Enqueue(t)
  PROVE  /\ LotInv' /\ queue' = Append(queue, t)
         /\ \A s \in Parkers : node'[s].key = node[s].key
         /\ \A s : Listed(s)' <=> Listed(s) \/ s = t
  <1> USE Types
  <1>1. /\ pc[t] = "validate" /\ ~Listed(t) /\ owner = Nil /\ Push(t) /\ pc' = [pc EXCEPT ![t] = "check"]
        /\ UNCHANGED <<count, owner, result, unparker>>
    BY DEF Enqueue, At, Goto, Calling
  <1>2. /\ node[t].next = Nil /\ node[t].prev = Nil /\ node[t].shouldPark /\ node[t].key \in Keys
    BY <1>1 DEF ParkerKnown, At
  <1>3. /\ Known' /\ Links' /\ queue' = Append(queue, t) /\ Len(queue') = Len(queue) + 1
        /\ \A s : Listed(s)' <=> Listed(s) \/ s = t
        /\ head' \in Pointers /\ tail' \in Pointers /\ node' \in [Parkers -> Nodes]
        /\ \A s \in Parkers : /\ node'[s].key = node[s].key
                              /\ node'[s].shouldPark = node[s].shouldPark
    BY <1>1, <1>2, JoinedList
  <1>4. \A u \in Unparkers : pc[u] \in {"idle", "lock"} /\ pc'[u] = pc[u]
    <2>1. \A u \in Unparkers : ~Locking(u)
      BY <1>1
    <2> QED BY <1>1, <2>1 DEF WalkerKnown, Locking
  <1>5. pc'[t] = "check" /\ \A s \in Parkers \ {t} : pc'[s] = pc[s]
    BY <1>1
  <1>6. TypeOK'
    <2>1. pc' \in [Parkers \cup Unparkers -> Labels]
      BY <1>1 DEF Labels
    <2> QED BY <1>1, <1>3, <2>1 DEF TypeOK, unparker, Nodes
  <1>7. Counted'
    <2>1. Cardinality(Validating') = Cardinality(Validating) - 1
      BY <1>1, <1>5, ValidatingChange DEF At
    <2>2. count = Len(queue) + Cardinality(Validating)
      BY DEF LotInv, Counted
    <2> QED BY <1>1, <1>3, <2>1, <2>2, ValidatingCount DEF Counted
  <1>8. OneOwner'
    BY <1>1, <1>4 DEF OneOwner, Locking
  <1>9. ASSUME NEW s \in Parkers PROVE ParkerKnown(s)'
    <2>1. CASE s = t
      BY <1>2, <1>3, <1>5, <2>1 DEF ParkerKnown, At, Calling
    <2>2. CASE s # t
      <3>1. At(s, "validate") => node'[s].next = node[s].next /\ node'[s].prev = node[s].prev
        <4> SUFFICES ASSUME At(s, "validate")
                     PROVE  node'[s].next = node[s].next /\ node'[s].prev = node[s].prev
          OBVIOUS
        <4>1. ~Listed(s)
          BY DEF Calling, At
        <4>2. head # Nil => s # tail
          <5>1. head # Nil => Len(queue) # 0 /\ Len(queue) \in 1 .. Len(queue)
            BY DEF Links
          <5> QED BY <4>1, <5>1 DEF Links, Listed
        <4>3. node[s] \in Nodes /\ node \in [Parkers -> Nodes]
          OBVIOUS
        <4>4. node'[s] = node[s]
          BY <1>1, <2>2, <4>2, <4>3 DEF Push
        <4> QED BY <4>4
      <3>2. \A u \in Unparkers : ~At(u, "clear")
        BY <1>4 DEF At
      <3> QED BY <1>1, <1>3, <1>5, <2>2, <3>1, <3>2, ParkerKept
    <2> QED BY <2>1, <2>2
  <1>10. ASSUME NEW u \in Unparkers PROVE WalkerKnown(u)'
    BY <1>4, OutsideWalker
  <1> QED BY <1>3, <1>6, <1>7, <1>8, <1>9, <1>10 DEF LotInv

-----------------------------------------------------------------------------
(* The steps of an unparker *)

\* A step of u that leaves the parkers and the list alone.
LEMMA UnparkerMoves ==
  ASSUME LotInv, TypeOK', NEW u \in Unparkers, NEW label, pc' = [pc EXCEPT ![u] = label],
         UNCHANGED <<head, tail, count, parker, queue>>,
         \A v \in Unparkers \ {u} : /\ asked'[v] = asked[v] /\ it'[v] = it[v]
                                    /\ after'[v] = after[v] /\ found'[v] = found[v]
                                    /\ (owner' = v <=> owner = v),
         Locking(u)' <=> owner' = u,
         ~At(u, "clear"), WalkerKnown(u)'
  PROVE  LotInv'
  <1> USE Types DEF parker
  <1>1. /\ pc'[u] = label /\ \A v \in Unparkers \ {u} : pc'[v] = pc[v]
        /\ \A s \in Parkers : pc'[s] = pc[s]
    OBVIOUS
  <1>2. Known' /\ Links' /\ \A s : Listed(s)' <=> Listed(s)
    BY SameList
  <1>3. Counted'
    <2>1. Validating' = Validating
      BY <1>1 DEF Validating, At
    <2> QED BY <2>1 DEF LotInv, Counted
  <1>4. OneOwner'
    BY <1>1 DEF OneOwner, Locking
  <1>5. ASSUME NEW s \in Parkers PROVE ParkerKnown(s)'
    <2>1. \A v \in Unparkers : At(v, "clear") /\ it[v] = s => At(v, "clear")' /\ it'[v] = s
      BY <1>1 DEF At
    <2> QED BY <1>1, <1>2, <2>1, ParkerKept
  <1>6. ASSUME NEW v \in Unparkers PROVE WalkerKnown(v)'
    <2>1. CASE v = u
      BY <2>1
    <2>2. CASE v # u
      <3>1. \A s \in Parkers : Calling(s) => Calling(s)'
        BY <1>1 DEF Calling
      <3> QED BY <1>1, <1>2, <2>2, <3>1, WalkerKept
    <2> QED BY <2>1, <2>2
  <1> QED BY <1>2, <1>3, <1>4, <1>5, <1>6 DEF LotInv

LEMMA UnparkBeginKept ==
  ASSUME LotInv, NEW u \in Unparkers, UnparkBegin(u)
  PROVE  LotInv'
  <1> USE Types
  <1>1. PICK a \in Asked, b \in BOOLEAN : /\ asked' = [asked EXCEPT ![u] = a]
                                          /\ stopEarly' = [stopEarly EXCEPT ![u] = b]
    BY DEF UnparkBegin
  <1>2. /\ pc[u] = "idle" /\ pc' = [pc EXCEPT ![u] = "lock"] /\ unparks < MaxUnparks
        /\ found' = [found EXCEPT ![u] = "eNotFound"] /\ unparks' = unparks + 1
        /\ UNCHANGED <<bucket, parker, it, after, queue>>
    BY DEF UnparkBegin, At, Goto
  <1>3. TypeOK'
    <2>1. pc' \in [Parkers \cup Unparkers -> Labels]
      BY <1>2 DEF Labels
    <2>2. unparks' \in 0 .. MaxUnparks
      BY <1>2 DEF TypeOK
    <2>3. asked' \in [Unparkers -> Asked] /\ stopEarly' \in [Unparkers -> BOOLEAN]
      BY <1>1 DEF TypeOK
    <2>4. found' \in [Unparkers -> {"eNotFound", "eNoneLeft", "eMayHaveMore"}]
      BY <1>2 DEF TypeOK
    <2> QED BY <1>2, <2>1, <2>2, <2>3, <2>4 DEF TypeOK, bucket, parker
  <1>4. \A v \in Unparkers \ {u} : /\ asked'[v] = asked[v] /\ it'[v] = it[v]
                                   /\ after'[v] = after[v] /\ found'[v] = found[v]
                                   /\ (owner' = v <=> owner = v)
    BY <1>1, <1>2 DEF TypeOK, bucket
  <1>5. pc'[u] = "lock"
    BY <1>2
  <1>6. Locking(u)' <=> owner' = u
    BY <1>2, <1>5 DEF Locking, bucket
  <1>7. WalkerKnown(u)'
    BY <1>5, OutsideWalker
  <1>8. ~At(u, "clear") /\ UNCHANGED <<head, tail, count, parker, queue>>
    BY <1>2 DEF At, bucket
  <1> QED BY <1>2, <1>3, <1>4, <1>6, <1>7, <1>8, UnparkerMoves

LEMMA LockBucketKept ==
  ASSUME LotInv, NEW u \in Unparkers, LockBucket(u)
  PROVE  LotInv'
  <1> USE Types
  <1>1. /\ pc[u] = "lock" /\ pc' = [pc EXCEPT ![u] = "scan"] /\ owner = Nil /\ owner' = u
        /\ it' = [it EXCEPT ![u] = head]
        /\ UNCHANGED <<head, tail, count, parker, asked, stopEarly, after, found, unparks, queue>>
    BY DEF LockBucket, At, Goto
  <1>2. TypeOK'
    <2>1. pc' \in [Parkers \cup Unparkers -> Labels]
      BY <1>1 DEF Labels
    <2> QED BY <1>1, <2>1 DEF TypeOK, parker
  <1>3. \A v \in Unparkers \ {u} : it'[v] = it[v] /\ (owner' = v <=> owner = v)
    BY <1>1 DEF TypeOK
  <1>4. pc'[u] = "scan" /\ it'[u] = head
    BY <1>1 DEF TypeOK
  <1>5. WalkerKnown(u)'
    <2>1. PICK x : x = head
      OBVIOUS
    <2>2. Onward(u, x)
      <3>1. x # Nil => 1 \in 1 .. Len(queue) /\ queue[1] = x
        BY <2>1 DEF Links
      <3>2. x # Nil => Listed(x)
        BY <3>1 DEF Listed
      <3>3. x # Nil => \A i \in 1 .. Len(queue) : queue[i] = x => i = 1
        BY <3>1 DEF Known
      <3> QED BY <3>2, <3>3 DEF Onward, Passed
    <2>3. Onward(u, x)'
      BY <1>1, <2>2 DEF Onward, Passed, Listed, parker
    <2> QED BY <1>4, <2>1, <2>3 DEF WalkerKnown, At
  <1> QED BY <1>1, <1>2, <1>3, <1>4, <1>5, UnparkerMoves DEF At, Locking

\* The list goes on from a node that u looked at.
LEMMA NextOnward ==
  ASSUME LotInv, NEW u \in Unparkers, NEW t, Listed(t), Passed(u, t),
         ~Matches(node[t].key, asked[u])
  PROVE  \A x : x = node[t].next => Onward(u, x)
  <1> USE Types
  <1> DEFINE n == Len(queue)
  <1>1. PICK i \in 1 .. n : queue[i] = t
    BY DEF Listed
  <1>2. \A k \in 1 .. i - 1 : ~Matches(node[queue[k]].key, asked[u])
    BY <1>1 DEF Passed
  <1>3. node[t].next = IF i = n THEN Nil ELSE queue[i + 1]
    BY <1>1 DEF Links
  <1>4. n \in Nat /\ \A k, l \in 1 .. n : queue[k] = queue[l] => k = l
    BY DEF Known
  <1> SUFFICES ASSUME i # n PROVE Onward(u, queue[i + 1])
    BY <1>3 DEF Onward
  <1>5. Listed(queue[i + 1]) /\ i + 1 \in 1 .. n
    <2>1. i + 1 \in 1 .. n
      <3> HIDE DEF n
      <3> QED BY <1>4
    <2> QED BY <2>1 DEF Listed
  <1>6. \A k \in 1 .. n : queue[k] = queue[i + 1] => k = i + 1
    BY <1>4, <1>5
  <1>7. \A k \in 1 .. (i + 1) - 1 : k \in 1 .. i - 1 \/ k = i
    <2> HIDE DEF n
    <2> QED BY <1>4
  <1>8. \A k \in 1 .. (i + 1) - 1 : ~Matches(node[queue[k]].key, asked[u])
    BY <1>1, <1>2, <1>7
  <1> QED BY <1>5, <1>6, <1>8 DEF Onward, Passed

LEMMA ScanKept ==
  ASSUME LotInv, NEW u \in Unparkers, Scan(u)
  PROVE  LotInv'
  <1> USE Types
  <1>1. /\ pc[u] = "scan" /\ Locking(u) /\ owner = u
        /\ UNCHANGED <<head, tail, count, parker, asked, stopEarly, found, unparks, queue>>
    BY DEF Scan, At, Locking
  <1>2. PICK x : x = it[u]
    OBVIOUS
  <1>3. Onward(u, x) /\ x \in Pointers
    BY <1>1, <1>2 DEF WalkerKnown, At, TypeOK
  <1>4. CASE x = Nil
    <2>1. owner' = Nil /\ pc' = [pc EXCEPT ![u] = "idle"] /\ it' = it /\ after' = after
      BY <1>2, <1>4 DEF Scan, Goto
    <2>2. TypeOK'
      <3>1. pc' \in [Parkers \cup Unparkers -> Labels]
        BY <2>1 DEF Labels
      <3> QED BY <1>1, <2>1, <3>1 DEF TypeOK, parker
    <2>3. pc'[u] = "idle"
      BY <2>1
    <2>4. WalkerKnown(u)'
      BY <2>3, OutsideWalker
    <2>5. \A v \in Unparkers \ {u} : owner' = v <=> owner = v
      BY <1>1, <2>1
    <2>6. Locking(u)' <=> owner' = u
      BY <2>1, <2>3 DEF Locking
    <2>7. ~At(u, "clear")
      BY <1>1 DEF At
    <2> QED BY <1>1, <2>1, <2>2, <2>4, <2>5, <2>6, <2>7, UnparkerMoves
  <1>5. CASE x # Nil
    <2>1. x \in Parkers /\ Listed(x) /\ Passed(u, x)
      BY <1>3, <1>5 DEF Onward
    <2>2. PICK y : y = node[x].next
      OBVIOUS
    <2>3. y \in Pointers /\ after' = [after EXCEPT ![u] = y] /\ owner' = owner
      <3>1. node[x] \in Nodes
        BY <2>1
      <3> QED BY <1>2, <1>5, <2>2, <3>1 DEF Scan, Nodes
    <2>4. CASE Matches(node[x].key, asked[u])
      <3>1. pc' = [pc EXCEPT ![u] = "count"] /\ it' = it
        BY <1>2, <1>5, <2>4 DEF Scan, Goto
      <3>2. TypeOK'
        <4>1. pc' \in [Parkers \cup Unparkers -> Labels]
          BY <3>1 DEF Labels
        <4> QED BY <1>1, <2>3, <3>1, <4>1 DEF TypeOK, parker
      <3>3. pc'[u] = "count" /\ after'[u] = y /\ it'[u] = x
        BY <1>2, <2>3, <3>1 DEF TypeOK
      <3>4. \A v \in Unparkers \ {u} : after'[v] = after[v] /\ it'[v] = it[v]
        BY <2>3, <3>1 DEF TypeOK
      <3>5. WalkerKnown(u)'
        <4>1. Onward(u, x)'
          BY <1>1, <1>3 DEF Onward, Passed, Listed, parker
        <4> QED BY <1>1, <1>5, <2>2, <2>4, <3>3, <4>1 DEF WalkerKnown, At, parker
      <3>6. Locking(u)' <=> owner' = u
        BY <1>1, <2>3, <3>3 DEF Locking
      <3>7. ~At(u, "clear")
        BY <1>1 DEF At
      <3> QED BY <1>1, <2>3, <3>1, <3>2, <3>4, <3>5, <3>6, <3>7, UnparkerMoves
    <2>5. CASE ~Matches(node[x].key, asked[u])
      <3>1. pc' = pc /\ it' = [it EXCEPT ![u] = y]
        BY <1>2, <1>5, <2>2, <2>5 DEF Scan
      <3>2. TypeOK'
        BY <1>1, <2>3, <3>1 DEF TypeOK, parker
      <3>3. pc' = [pc EXCEPT ![u] = "scan"]
        BY <1>1, <3>1
      <3>4. it'[u] = y /\ \A v \in Unparkers \ {u} : after'[v] = after[v] /\ it'[v] = it[v]
        BY <2>3, <3>1 DEF TypeOK
      <3>5. WalkerKnown(u)'
        <4>1. Onward(u, y)
          BY <2>1, <2>2, <2>5, NextOnward
        <4>2. Onward(u, y)'
          BY <1>1, <4>1 DEF Onward, Passed, Listed, parker
        <4> QED BY <1>1, <3>1, <3>4, <4>2 DEF WalkerKnown, At
      <3>6. Locking(u)' <=> owner' = u
        BY <1>1, <2>3, <3>1 DEF Locking
      <3>7. ~At(u, "clear")
        BY <1>1 DEF At
      <3> QED BY <1>1, <2>3, <3>2, <3>3, <3>4, <3>5, <3>6, <3>7, UnparkerMoves
    <2> QED BY <2>4, <2>5
  <1> QED BY <1>4, <1>5

LEMMA CountKept ==
  ASSUME LotInv, NEW u \in Unparkers, Count(u)
  PROVE  LotInv'
  <1> USE Types
  <1>1. /\ pc[u] = "count" /\ Locking(u) /\ owner = u /\ pc' = [pc EXCEPT ![u] = "pop"]
        /\ found' = [found EXCEPT ![u] = IF count > 1 THEN "eMayHaveMore" ELSE "eNoneLeft"]
        /\ UNCHANGED <<bucket, parker, asked, stopEarly, it, after, unparks, queue>>
    BY DEF Count, At, Locking, Goto
  <1>2. TypeOK'
    <2>1. pc' \in [Parkers \cup Unparkers -> Labels]
      BY <1>1 DEF Labels
    <2>2. found' \in [Unparkers -> {"eNotFound", "eNoneLeft", "eMayHaveMore"}]
      BY <1>1 DEF TypeOK
    <2> QED BY <1>1, <2>1, <2>2 DEF TypeOK, parker, bucket
  <1>3. pc'[u] = "pop" /\ \A v \in Unparkers \ {u} : found'[v] = found[v]
    BY <1>1 DEF TypeOK
  <1>4. found'[u] = "eNoneLeft" => Len(queue) = 1
    <2>1. found'[u] = "eNoneLeft" => ~(count > 1)
      BY <1>1 DEF TypeOK
    <2>2. Listed(it[u])
      BY <1>1 DEF WalkerKnown, Onward
    <2>3. Len(queue) # 0
      BY <2>2 DEF Listed
    <2>4. count = Len(queue) + Cardinality(Validating)
      BY DEF LotInv, Counted
    <2> DEFINE n == Len(queue)
               c == Cardinality(Validating)
    <2>5. n \in Nat /\ c \in Nat /\ n # 0 /\ count = n + c
      BY <2>3, <2>4, ValidatingCount
    <2> HIDE DEF n, c
    <2>6. ~(count > 1) => n = 1
      BY <2>5
    <2> QED BY <2>1, <2>6 DEF n
  <1>5. WalkerKnown(u)'
    <2>1. PICK x : x = it[u]
      OBVIOUS
    <2>2. x # Nil /\ Onward(u, x) /\ after[u] = node[x].next /\ Matches(node[x].key, asked[u])
      BY <1>1, <2>1 DEF WalkerKnown
    <2>3. Onward(u, x)'
      BY <1>1, <2>2 DEF Onward, Passed, Listed, parker
    <2> QED BY <1>1, <1>3, <1>4, <2>1, <2>2, <2>3 DEF WalkerKnown, At, parker
  <1> QED BY <1>1, <1>2, <1>3, <1>5, UnparkerMoves DEF At, Locking, bucket

LEMMA PopKept ==
  ASSUME LotInv, NEW u \in Unparkers, Pop(u), NEW t, t = it[u]
  PROVE  /\ LotInv' /\ node' = Unlinked(t)
         /\ \A s \in Parkers : node'[s].key = node[s].key
         /\ \A s : Listed(s)' <=> Listed(s) /\ s # t
         /\ \E i \in 1 .. Len(queue) : queue[i] = t /\ queue' = RemoveAt(queue, i)
  <1> USE Types
  <1>1. /\ pc[u] = "pop" /\ Locking(u) /\ owner = u /\ pc' = [pc EXCEPT ![u] = "clear"]
        /\ Shrink(t) /\ node' = Unlinked(t) /\ UNCHANGED <<owner, result, unparker>>
    BY DEF Pop, At, Locking, Goto
  <1>2. PICK y : y = after[u]
    OBVIOUS
  <1>3. t # Nil /\ Onward(u, t) /\ y = node[t].next
    BY <1>1, <1>2 DEF WalkerKnown
  <1>4. Listed(t) /\ Passed(u, t) /\ t \in Parkers /\ Calling(t) /\ node[t].shouldPark
    BY <1>3 DEF Onward
  <1>5. /\ Known' /\ Links' /\ Len(queue') = Len(queue) - 1
        /\ \A s : Listed(s)' <=> Listed(s) /\ s # t
        /\ \E i \in 1 .. Len(queue) : queue[i] = t /\ queue' = RemoveAt(queue, i)
    BY <1>1, <1>4, LeftList
  <1>6. PICK i \in 1 .. Len(queue) : queue[i] = t /\ queue' = RemoveAt(queue, i)
    BY <1>5
  <1>7. /\ node' \in [Parkers -> Nodes]
        /\ \A s \in Parkers : /\ node'[s].key = node[s].key
                              /\ node'[s].shouldPark = node[s].shouldPark
    BY <1>1, <1>6, UnlinkedNodes
  <1>8. /\ pc'[u] = "clear" /\ \A v \in Unparkers \ {u} : pc'[v] = pc[v] /\ pc[v] \in {"idle", "lock"}
        /\ \A s \in Parkers : pc'[s] = pc[s]
    <2>1. \A v \in Unparkers \ {u} : ~Locking(v)
      BY <1>1
    <2> QED BY <1>1, <2>1 DEF WalkerKnown, Locking
  <1>9. Counted' /\ count' \in Nat
    <2>1. Validating' = Validating
      BY <1>8 DEF Validating, At
    <2>2. count' = count - 1 /\ Len(queue) # 0 /\ count = Len(queue) + Cardinality(Validating)
      BY <1>1, <1>6 DEF Shrink, LotInv, Counted
    <2> QED BY <1>5, <2>1, <2>2, ValidatingCount DEF Counted
  <1>10. TypeOK'
    <2>1. head' \in Pointers /\ tail' \in Pointers
      <3>1. node[t] \in Nodes
        BY <1>4
      <3>2. node[t].next \in Pointers /\ node[t].prev \in Pointers
        BY <3>1 DEF Nodes
      <3> QED BY <1>1, <3>2 DEF Shrink, TypeOK, Pointers
    <2>2. pc' \in [Parkers \cup Unparkers -> Labels]
      BY <1>1 DEF Labels
    <2> QED BY <1>1, <1>7, <1>9, <2>1, <2>2 DEF TypeOK, unparker, Nodes
  <1>11. OneOwner'
    BY <1>1, <1>8 DEF OneOwner, Locking
  <1>12. ASSUME NEW s \in Parkers PROVE ParkerKnown(s)'
    <2>1. CASE s = t
      <3>1. At(u, "clear")' /\ it'[u] = t
        BY <1>1, <1>8 DEF At, unparker
      <3>2. pc[s] \in {"check", "waiting", "relock"} /\ node[s].key \in Keys
        BY <1>4, <2>1 DEF Calling, ParkerKnown, At
      <3> QED BY <1>5, <1>7, <1>8, <2>1, <3>1, <3>2 DEF ParkerKnown, At, Calling
    <2>2. CASE s # t
      <3>1. At(s, "validate") => node'[s].next = node[s].next /\ node'[s].prev = node[s].prev
        <4>1. At(s, "validate") => ~Listed(s)
          BY DEF Calling, At
        <4> QED BY <1>1, <1>4, <4>1, LooseNodes
      <3>2. \A v \in Unparkers : ~At(v, "clear")
        BY <1>1, <1>8 DEF At
      <3> QED BY <1>1, <1>5, <1>7, <1>8, <2>2, <3>1, <3>2, ParkerKept
    <2> QED BY <2>1, <2>2
  <1>13. Onward(u, y)'
    <2> DEFINE n == Len(queue)
               r == queue'
    <2>1. /\ queue \in Seq(Parkers) /\ n \in Nat
          /\ \A k \in 1 .. n : queue[k] \in Parkers
          /\ \A k, l \in 1 .. n : queue[k] = queue[l] => k = l
      BY KnownParts DEF Known
    <2>a. queue \in Seq(Parkers) /\ i \in 1 .. Len(queue)
      BY <1>6, <2>1
    <2>b. /\ Len(RemoveAt(queue, i)) = Len(queue) - 1
          /\ \A k \in 1 .. Len(queue) - 1 :
               RemoveAt(queue, i)[k] = IF k < i THEN queue[k] ELSE queue[k + 1]
      BY <2>a, RemoveAtElements
    <2>2. Len(r) = n - 1 /\ \A k \in 1 .. n - 1 : r[k] = IF k < i THEN queue[k] ELSE queue[k + 1]
      BY <1>6, <2>b
    <2>3. y = IF i = n THEN Nil ELSE queue[i + 1]
      BY <1>3, <1>6 DEF Links
    <2>4. \A k \in 1 .. i - 1 : ~Matches(node[queue[k]].key, asked[u])
      BY <1>4, <1>6 DEF Passed
    <2> SUFFICES ASSUME y # Nil PROVE Listed(y)' /\ Passed(u, y)'
      BY DEF Onward
    <2> HIDE DEF n, r
    <2>5. i \in 1 .. n - 1 /\ ~(i < i)
      BY <1>6, <2>1, <2>3 DEF n
    <2>6. r[i] = y
      BY <2>2, <2>3, <2>5
    <2>7. \A k \in 1 .. n - 1 : r[k] = y => k = i
      BY <1>5, <2>2, <2>5, <2>6 DEF Known, r
    <2>8. ASSUME NEW k \in 1 .. i - 1 PROVE ~Matches(node'[r[k]].key, asked'[u])
      <3>1. k \in 1 .. n - 1 /\ k < i /\ k \in 1 .. n
        BY <2>1, <2>5
      <3>2. r[k] = queue[k] /\ queue[k] \in Parkers
        BY <2>1, <2>2, <3>1
      <3>3. node'[r[k]].key = node[queue[k]].key /\ asked'[u] = asked[u]
        BY <1>1, <1>7, <3>2 DEF unparker
      <3> QED BY <2>4, <3>3
    <2>9. Listed(y)'
      BY <2>2, <2>5, <2>6 DEF Listed, r
    <2> QED BY <2>2, <2>7, <2>8, <2>9 DEF Passed, Matches, r
  <1>14. ASSUME NEW v \in Unparkers PROVE WalkerKnown(v)'
    <2>1. CASE v = u
      BY <1>1, <1>2, <1>4, <1>5, <1>7, <1>8, <1>13, <2>1 DEF WalkerKnown, At, Calling, unparker
    <2>2. CASE v # u
      BY <1>8, <2>2, OutsideWalker
    <2> QED BY <2>1, <2>2
  <1> QED BY <1>1, <1>5, <1>7, <1>9, <1>10, <1>11, <1>12, <1>14 DEF LotInv

LEMMA ClearKept ==
  ASSUME LotInv, NEW u \in Unparkers, Clear(u)
  PROVE  LotInv'
  <1> USE Types
  <1>1. PICK t : t = it[u]
    OBVIOUS
  <1>2. /\ pc[u] = "clear" /\ Locking(u) /\ owner = u /\ pc' = [pc EXCEPT ![u] = "notify"]
        /\ node' = [node EXCEPT ![t].shouldPark = FALSE]
        /\ UNCHANGED <<bucket, result, unparker, queue>>
    BY <1>1 DEF Clear, At, Locking, Goto
  <1>3. t \in Parkers /\ Calling(t) /\ ~Listed(t) /\ Onward(u, after[u])
    BY <1>1, <1>2 DEF WalkerKnown
  <1>4. /\ node' \in [Parkers -> Nodes] /\ \A s \in Parkers \ {t} : node'[s] = node[s]
        /\ node'[t].key = node[t].key /\ node'[t].shouldPark = FALSE
    <2>1. node[t] \in Nodes
      BY <1>3
    <2> QED BY <1>2, <1>3, <2>1 DEF Nodes
  <1>5. /\ pc'[u] = "notify" /\ \A v \in Unparkers \ {u} : pc'[v] = pc[v] /\ pc[v] \in {"idle", "lock"}
        /\ \A s \in Parkers : pc'[s] = pc[s]
    <2>1. \A v \in Unparkers \ {u} : ~Locking(v)
      BY <1>2
    <2> QED BY <1>2, <2>1 DEF WalkerKnown, Locking
  <1>6. \A s \in Parkers : Listed(s) => node'[s] = node[s]
    BY <1>3, <1>4
  <1>7. Known' /\ Links' /\ \A s : Listed(s)' <=> Listed(s)
    BY <1>2, <1>6, SameList DEF bucket
  <1>8. TypeOK'
    <2>1. pc' \in [Parkers \cup Unparkers -> Labels]
      BY <1>2 DEF Labels
    <2> QED BY <1>2, <1>4, <2>1 DEF TypeOK, unparker, bucket, Nodes
  <1>9. Counted'
    <2>1. Validating' = Validating
      BY <1>5 DEF Validating, At
    <2> QED BY <1>2, <2>1 DEF LotInv, Counted, bucket
  <1>10. OneOwner'
    BY <1>2, <1>5 DEF OneOwner, Locking, bucket
  <1>11. ASSUME NEW s \in Parkers PROVE ParkerKnown(s)'
    <2>1. CASE s = t
      <3>1. pc[s] \in {"check", "waiting", "relock"} /\ node[s].key \in Keys
        BY <1>3, <2>1 DEF Calling, ParkerKnown, At
      <3> QED BY <1>3, <1>4, <1>5, <1>7, <2>1, <3>1 DEF ParkerKnown, At, Calling
    <2>2. CASE s # t
      <3>1. \A v \in Unparkers : ~(At(v, "clear") /\ it[v] = s)
        BY <1>1, <1>5, <2>2 DEF At
      <3> QED BY <1>2, <1>4, <1>5, <1>7, <2>2, <3>1, ParkerKept
    <2> QED BY <2>1, <2>2
  <1>12. ASSUME NEW v \in Unparkers PROVE WalkerKnown(v)'
    <2>1. CASE v = u
      <3>1. PICK y : y = after[u]
        OBVIOUS
      <3>2. Onward(u, y)'
        BY <1>2, <1>3, <1>6, <1>7, <3>1, OnwardKept DEF unparker
      <3> QED BY <1>1, <1>2, <1>3, <1>4, <1>5, <1>7, <2>1, <3>1, <3>2
          DEF WalkerKnown, At, Calling, unparker
    <2>2. CASE v # u
      BY <1>5, <2>2, OutsideWalker
    <2> QED BY <2>1, <2>2
  <1> QED BY <1>7, <1>8, <1>9, <1>10, <1>11, <1>12 DEF LotInv

LEMMA NotifyKept ==
  ASSUME LotInv, NEW u \in Unparkers, Notify(u)
  PROVE  LotInv' /\ \A s : Listed(s)' <=> Listed(s)
  <1> USE Types
  <1> DEFINE stop == stopEarly[u] \/ found[u] = "eNoneLeft"
             new == IF stop THEN "idle" ELSE "scan"
  <1>1. PICK t, y : t = it[u] /\ y = after[u]
    OBVIOUS
  <1>2. /\ pc[u] = "notify" /\ Locking(u) /\ owner = u
        /\ UNCHANGED <<head, tail, count, parker, asked, stopEarly, found, unparks, queue>>
    BY DEF Notify, At, Locking
  <1>3. /\ t \in Parkers /\ Calling(t) /\ ~Listed(t) /\ Onward(u, y) /\ ~node[t].shouldPark
    BY <1>1, <1>2 DEF WalkerKnown, At
  <1>4. /\ owner' = IF stop THEN Nil ELSE u
        /\ it' = [it EXCEPT ![u] = IF stop THEN Nil ELSE y]
        /\ after' = [after EXCEPT ![u] = Nil]
        /\ pc' = [pc EXCEPT ![u] = new, ![t] = IF At(t, "waiting") THEN "check" ELSE pc[t]]
    BY <1>1, <1>2 DEF Notify
  <1>5. stop \in BOOLEAN /\ new \in {"idle", "scan"} /\ (new = "idle" <=> stop)
    OBVIOUS
  <1> HIDE DEF stop
  <1>6. /\ pc'[u] = new /\ pc'[t] = (IF At(t, "waiting") THEN "check" ELSE pc[t])
        /\ \A s \in Parkers \ {t} : pc'[s] = pc[s]
        /\ \A v \in Unparkers \ {u} : pc'[v] = pc[v] /\ pc[v] \in {"idle", "lock"}
    <2>1. \A v \in Unparkers \ {u} : ~Locking(v)
      BY <1>2
    <2>2. t # u /\ t \in Parkers \cup Unparkers /\ u \in Parkers \cup Unparkers
      BY <1>3
    <2> HIDE DEF new
    <2>3. /\ pc'[u] = new /\ pc'[t] = (IF At(t, "waiting") THEN "check" ELSE pc[t])
          /\ \A s \in (Parkers \cup Unparkers) \ {t, u} : pc'[s] = pc[s]
      BY <1>4, <2>2
    <2>4. \A s \in Parkers \ {t} : s \in (Parkers \cup Unparkers) \ {t, u}
      OBVIOUS
    <2>5. \A v \in Unparkers \ {u} : v \in (Parkers \cup Unparkers) \ {t, u} /\ pc[v] \in {"idle", "lock"}
      BY <1>3, <2>1 DEF WalkerKnown, Locking
    <2> QED BY <2>3, <2>4, <2>5
  <1>7. Known' /\ Links' /\ \A s : Listed(s)' <=> Listed(s)
    BY <1>2, SameList DEF parker
  <1>8. Calling(t)' /\ pc'[t] \in {"check", "waiting", "relock"}
    BY <1>3, <1>6 DEF Calling, At
  <1>9. TypeOK'
    <2>1. pc' \in [Parkers \cup Unparkers -> Labels]
      <3>1. new \in Labels /\ (IF At(t, "waiting") THEN "check" ELSE pc[t]) \in Labels
        BY <1>3, <1>5 DEF Labels
      <3> HIDE DEF new
      <3> QED BY <1>4, <3>1
    <2>2. y \in Pointers /\ Nil \in Pointers
      BY <1>1 DEF TypeOK, Pointers
    <2>3. it' \in [Unparkers -> Pointers] /\ after' \in [Unparkers -> Pointers]
          /\ owner' \in Unparkers \cup {Nil}
      BY <1>4, <1>5, <2>2 DEF TypeOK
    <2> QED BY <1>2, <2>1, <2>3 DEF TypeOK, parker
  <1>10. Counted'
    <2>1. Validating' = Validating
      BY <1>3, <1>6, <1>8 DEF Validating, At, Calling
    <2> QED BY <1>2, <2>1 DEF LotInv, Counted
  <1>11. OneOwner'
    <2>1. \A v \in Unparkers \ {u} : ~Locking(v)' /\ owner' # v
      BY <1>4, <1>6 DEF Locking
    <2>2. Locking(u)' <=> owner' = u
      BY <1>4, <1>5, <1>6 DEF Locking
    <2> QED BY <2>1, <2>2 DEF OneOwner
  <1>12. ASSUME NEW s \in Parkers PROVE ParkerKnown(s)'
    <2>1. CASE s = t
      <3>1. node[s].key \in Keys
        BY <1>3, <2>1 DEF Calling, ParkerKnown, At
      <3> QED BY <1>2, <1>3, <1>7, <1>8, <2>1, <3>1 DEF ParkerKnown, At, Calling, parker
    <2>2. CASE s # t
      <3>1. \A v \in Unparkers : ~(At(v, "clear") /\ it[v] = s)
        BY <1>2, <1>6 DEF At
      <3> QED BY <1>2, <1>6, <1>7, <2>2, <3>1, ParkerKept DEF parker
    <2> QED BY <2>1, <2>2
  <1>13. ASSUME NEW v \in Unparkers PROVE WalkerKnown(v)'
    <2>1. CASE v # u
      BY <1>6, <2>1, OutsideWalker
    <2>2. CASE v = u /\ stop
      BY <1>5, <1>6, <2>2, OutsideWalker
    <2>3. CASE v = u /\ ~stop
      <3>1. pc'[u] = "scan" /\ it'[u] = y
        BY <1>4, <1>5, <1>6, <2>3 DEF TypeOK
      <3>2. Onward(u, y)'
        BY <1>2, <1>3 DEF Onward, Passed, Listed, parker
      <3> QED BY <2>3, <3>1, <3>2 DEF WalkerKnown, At
    <2> QED BY <2>1, <2>2, <2>3
  <1> QED BY <1>7, <1>9, <1>10, <1>11, <1>12, <1>13 DEF LotInv

-----------------------------------------------------------------------------
(* The invariant *)

LEMMA InitLot ==
  ASSUME Init
  PROVE  LotInv
  <1>1. /\ queue = <<>> /\ Len(queue) = 0 /\ head = Nil /\ tail = Nil /\ count = 0 /\ owner = Nil
        /\ node = [t \in Parkers |-> NoNode] /\ result = [t \in Parkers |-> "none"]
        /\ pc = [t \in Parkers \cup Unparkers |-> "idle"]
        /\ it = [u \in Unparkers |-> Nil] /\ after = [u \in Unparkers |-> Nil]
    BY DEF Init
  <1>2. TypeOK
    <2>1. \A u \in Unparkers : asked[u] \in Asked
      BY DEF Init
    <2>2. asked \in [Unparkers -> Asked]
      BY <2>1 DEF Init
    <2>3. NoNode \in Nodes
      BY DEF NoNode, Nodes, Pointers
    <2>4. node \in [Parkers -> Nodes]
      BY <1>1, <2>3
    <2>5. pc \in [Parkers \cup Unparkers -> Labels]
      BY <1>1 DEF Labels
    <2>6. result \in [Parkers -> {"none", "unparked", "timeout"}]
      BY <1>1
    <2> QED BY <1>1, <2>2, <2>4, <2>5, <2>6 DEF Init, TypeOK, Nodes, Pointers
  <1>3. Known /\ Links /\ \A t : ~Listed(t)
    BY <1>1 DEF Known, Links, Listed
  <1>4. Counted
    <2>1. Validating = {}
      BY <1>1 DEF Validating, At
    <2> QED BY <1>1, <2>1, FS_EmptySet DEF Counted
  <1>5. OneOwner
    BY <1>1 DEF OneOwner, Locking
  <1>6. \A t \in Parkers : ParkerKnown(t)
    BY <1>1, <1>3 DEF ParkerKnown, At, Calling
  <1>7. \A u \in Unparkers : WalkerKnown(u)
    BY <1>1 DEF WalkerKnown, At
  <1> QED BY <1>2, <1>3, <1>4, <1>5, <1>6, <1>7 DEF LotInv

LEMMA StepLot ==
  ASSUME LotInv, [Next]_vars
  PROVE  LotInv'
  <1>1. ASSUME NEW t \in Parkers, ParkBegin(t) \/ ParkStep(t)
        PROVE  LotInv'
    BY <1>1, ParkBeginKept, SkipKept, EnqueueKept, CheckKept, RelockKept DEF ParkStep
  <1>2. ASSUME NEW t \in Parkers, SpuriousWakeup(t) \/ Expire(t)
        PROVE  LotInv'
    <2>1. Calling(t) /\ UNCHANGED <<bucket, parker, unparker, queue>>
          /\ (Goto(t, "check") \/ Goto(t, "relock"))
      BY <1>2 DEF SpuriousWakeup, Expire, Calling, At
    <2> QED BY <2>1, CallingKept
  <1>3. ASSUME NEW u \in Unparkers, UnparkBegin(u) \/ UnparkStep(u)
        PROVE  LotInv'
    BY <1>3, UnparkBeginKept, LockBucketKept, ScanKept, CountKept, PopKept, ClearKept, NotifyKept
       DEF UnparkStep
  <1>4. ASSUME UNCHANGED vars PROVE LotInv'
    <2>1. UNCHANGED <<head, tail, count, owner, node, result, pc, asked, stopEarly, it, after,
                      found, unparks, queue>>
      BY <1>4 DEF vars, bucket, parker, unparker
    <2>2. \A t : Listed(t)' <=> Listed(t)
      BY <2>1 DEF Listed
    <2>3. TypeOK' /\ Known' /\ Links' /\ OneOwner'
      BY <2>1 DEF LotInv, TypeOK, Known, Links, OneOwner, Locking
    <2>4. Counted'
      BY <2>1 DEF LotInv, Counted, Validating, At
    <2>5. \A t \in Parkers : ParkerKnown(t)'
      BY <2>1, <2>2 DEF LotInv, ParkerKnown, Calling, At
    <2>6. \A u \in Unparkers : WalkerKnown(u)'
      <3>1. Known
        BY DEF LotInv
      <3> QED BY <2>1, <2>3, <3>1, WalkerKept DEF LotInv, Calling
    <2> QED BY <2>3, <2>4, <2>5, <2>6 DEF LotInv
  <1> QED BY <1>1, <1>2, <1>3, <1>4 DEF Next

THEOREM Invariance == Spec => []LotInv
  <1>1. Init => LotInv
    BY InitLot
  <1>2. LotInv /\ [Next]_vars => LotInv'
    BY StepLot
  <1> QED BY <1>1, <1>2, PTL DEF Spec

-----------------------------------------------------------------------------
(* What it says *)

\* The links in both directions spell the sequence of the parkers pushed and not
\* yet popped, and the count is theirs and that of the parkers on their way in.
THEOREM SoundBucket == Spec => []BucketShape
  <1>1. LotInv => BucketShape
    BY DEF LotInv, BucketShape, Links, Counted, Validating
  <1> QED BY <1>1, Invariance, PTL

\* The list and the pointers of an unparker lead to calls that have not returned.
THEOREM NodesLive == Spec => []NoUseAfterScope
  <1>1. ASSUME LotInv PROVE NoUseAfterScope
    <2> USE <1>1, Types
    <2>1. \A t : Listed(t) => NodeInScope(t) /\ node[t].shouldPark
      BY DEF Calling, NodeInScope
    <2>2. ASSUME NEW u \in Unparkers, At(u, "scan"), it[u] # Nil
          PROVE  Listed(it[u])
      BY <2>2 DEF WalkerKnown, Onward
    <2>3. ASSUME NEW u \in Unparkers, pc[u] \in {"count", "pop"}
          PROVE  NodeInScope(it[u]) /\ (after[u] # Nil => Listed(after[u]))
      <3>1. Listed(it[u]) /\ after[u] = node[it[u]].next
        BY <2>3 DEF WalkerKnown, Onward
      <3>2. PICK i \in 1 .. Len(queue) : queue[i] = it[u]
        BY <3>1 DEF Listed
      <3>3. i # Len(queue) => i + 1 \in 1 .. Len(queue)
        <4> DEFINE n == Len(queue)
        <4>1. n \in Nat
          OBVIOUS
        <4> HIDE DEF n
        <4>2. i \in 1 .. n => (i # n => i + 1 \in 1 .. n)
          BY <4>1
        <4> QED BY <4>2 DEF n
      <3>4. after[u] = IF i = Len(queue) THEN Nil ELSE queue[i + 1]
        BY <3>1, <3>2 DEF Links
      <3> QED BY <2>1, <3>1, <3>3, <3>4 DEF Listed
    <2>4. ASSUME NEW u \in Unparkers, pc[u] \in {"clear", "notify"}
          PROVE  NodeInScope(it[u]) /\ (after[u] # Nil => Listed(after[u]))
      BY <2>4 DEF WalkerKnown, Onward, Calling, NodeInScope
    <2> QED BY <2>1, <2>2, <2>3, <2>4 DEF NoUseAfterScope
  <1> QED BY <1>1, Invariance, PTL

\* The caller that is told eNoneLeft is about to pop the only parker.
THEOREM LastIsLast == Spec => []LastMeansLast
  <1>1. ASSUME LotInv PROVE LastMeansLast
    <2> USE <1>1, Types
    <2> SUFFICES ASSUME NEW u \in Unparkers, At(u, "pop"), found[u] = "eNoneLeft"
                 PROVE  queue = <<it[u]>>
      BY DEF LastMeansLast
    <2>1. Len(queue) = 1 /\ Listed(it[u])
      BY DEF WalkerKnown, Onward, At
    <2>2. queue[1] = it[u] /\ it[u] \in Parkers
      BY <2>1 DEF Listed
    <2>3. queue \in Seq(Parkers) /\ <<it[u]>> \in Seq(Parkers) /\ Len(<<it[u]>>) = 1
      BY <2>2 DEF Known
    <2> QED BY <2>1, <2>2, <2>3, SeqEqual
  <1> QED BY <1>1, Invariance, PTL

-----------------------------------------------------------------------------
(* The queue of parked threads that the bucket implements *)

LineOf(q, nodes) == [i \in 1 .. Len(q) |-> [who |-> q[i], key |-> nodes[q[i]].key]]

Line == LineOf(queue, node)

Places == [who : Parkers, key : Keys \cup {Nil}]

LEMMA LineParts ==
  ASSUME NEW q \in Seq(Parkers), NEW nodes \in [Parkers -> Nodes]
  PROVE  /\ LineOf(q, nodes) \in Seq(Places) /\ Len(LineOf(q, nodes)) = Len(q) /\ Len(q) \in Nat
         /\ \A i \in 1 .. Len(q) :
              LineOf(q, nodes)[i] = [who |-> q[i], key |-> nodes[q[i]].key] /\ q[i] \in Parkers
  <1> DEFINE n == Len(q)
             line == LineOf(q, nodes)
  <1>1. n \in Nat /\ \A i \in 1 .. n : q[i] \in Parkers
    BY LenProperties, ElementOfSeq
  <1>2. \A s \in Parkers : nodes[s].key \in Keys \cup {Nil}
    <2>1. \A s \in Parkers : nodes[s] \in Nodes
      OBVIOUS
    <2> QED BY <2>1 DEF Nodes
  <1>3. line = [i \in 1 .. n |-> [who |-> q[i], key |-> nodes[q[i]].key]]
    BY DEF LineOf
  <1> HIDE DEF n, line
  <1>4. \A i \in 1 .. n : [who |-> q[i], key |-> nodes[q[i]].key] \in Places
    BY <1>1, <1>2 DEF Places
  <1>5. line \in Seq(Places) /\ Len(line) = n
    <2>1. line \in [1 .. n -> Places]
      BY <1>3, <1>4
    <2>2. DOMAIN line = 1 .. n
      BY <1>3
    <2>3. line \in Seq(Places)
      BY <1>1, <2>1, SeqDef
    <2> QED BY <1>1, <2>2, <2>3, LenProperties
  <1> QED BY <1>1, <1>3, <1>5 DEF n, line

LEMMA SameLine ==
  ASSUME Known, queue' = queue, \A s \in Parkers : Listed(s) => node'[s].key = node[s].key
  PROVE  Line' = Line
  <1>1. \A i \in 1 .. Len(queue) : node'[queue[i]].key = node[queue[i]].key
    BY KnownParts
  <1> QED BY <1>1 DEF Line, LineOf

LEMMA LineLeft ==
  ASSUME LotInv, LotInv', NEW i \in 1 .. Len(queue), queue' = RemoveAt(queue, i),
         \A s \in Parkers \ {queue[i]} : node'[s].key = node[s].key
  PROVE  Line' = RemoveAt(Line, i)
  <1> DEFINE n == Len(queue)
             m == Len(queue')
             r == queue'
             l == Line'
             d == RemoveAt(Line, i)
             nodes == node'
  <1>1. /\ Line \in Seq(Places) /\ Len(Line) = n /\ n \in Nat /\ queue \in Seq(Parkers)
        /\ \A k \in 1 .. n : Line[k] = [who |-> queue[k], key |-> node[queue[k]].key]
        /\ \A k \in 1 .. n : queue[k] \in Parkers
        /\ \A k, j \in 1 .. n : queue[k] = queue[j] => k = j
    BY Types, LineParts, KnownParts DEF Known, Line
  <1>2. /\ l \in Seq(Places) /\ Len(l) = m /\ m \in Nat
        /\ \A k \in 1 .. m : l[k] = [who |-> r[k], key |-> nodes[r[k]].key]
    <2>1. r \in Seq(Parkers) /\ nodes \in [Parkers -> Nodes]
      BY DEF LotInv, TypeOK, Known, Nodes, Pointers
    <2> QED BY <2>1, LineParts DEF Line
  <1>3. /\ m = n - 1
        /\ \A k \in 1 .. n - 1 : r[k] = IF k < i THEN queue[k] ELSE queue[k + 1]
    <2>1. /\ Len(RemoveAt(queue, i)) = Len(queue) - 1
          /\ \A k \in 1 .. Len(queue) - 1 :
               RemoveAt(queue, i)[k] = IF k < i THEN queue[k] ELSE queue[k + 1]
      BY <1>1, RemoveAtElements
    <2> QED BY <2>1
  <1>4. /\ d \in Seq(Places) /\ Len(d) = n - 1
        /\ \A k \in 1 .. n - 1 : d[k] = IF k < i THEN Line[k] ELSE Line[k + 1]
    <2>1. i \in 1 .. Len(Line)
      BY <1>1
    <2>2. /\ d \in Seq(Places) /\ Len(d) = Len(Line) - 1
          /\ \A k \in 1 .. Len(Line) - 1 : d[k] = IF k < i THEN Line[k] ELSE Line[k + 1]
      BY <1>1, <2>1, RemoveAtElements
    <2> QED BY <1>1, <2>2
  <1>5. \A s \in Parkers \ {queue[i]} : nodes[s].key = node[s].key
    OBVIOUS
  <1> HIDE DEF n, m, r, l, d, nodes
  <1>6. ASSUME NEW k \in 1 .. n - 1 PROVE l[k] = d[k]
    <2>1. k \in 1 .. m
      BY <1>3
    <2>2. l[k] = [who |-> r[k], key |-> nodes[r[k]].key]
      BY <1>2, <2>1
    <2>3. CASE k < i
      <3>1. k \in 1 .. n /\ k # i
        BY <1>1, <2>3
      <3>2. i \in 1 .. n
        BY DEF n
      <3>3. r[k] = queue[k] /\ queue[k] \in Parkers \ {queue[i]} /\ d[k] = Line[k]
        BY <1>1, <1>3, <1>4, <2>3, <3>1, <3>2
      <3> QED BY <1>1, <1>5, <2>2, <3>1, <3>3
    <2>4. CASE ~(k < i)
      <3>1. i \in 1 .. n
        BY DEF n
      <3>2. k + 1 \in 1 .. n /\ k + 1 # i
        BY <1>1, <2>4, <3>1
      <3>3. r[k] = queue[k + 1] /\ queue[k + 1] \in Parkers \ {queue[i]} /\ d[k] = Line[k + 1]
        BY <1>1, <1>3, <1>4, <2>4, <3>1, <3>2
      <3> QED BY <1>1, <1>5, <2>2, <3>2, <3>3
    <2> QED BY <2>3, <2>4
  <1>7. l = d
    BY <1>2, <1>3, <1>4, <1>6, SeqEqual
  <1> QED BY <1>7 DEF l, d

LEMMA LineJoined ==
  ASSUME LotInv, LotInv', NEW t \in Parkers, queue' = Append(queue, t),
         \A s \in Parkers : node'[s].key = node[s].key
  PROVE  Line' = Append(Line, [who |-> t, key |-> node[t].key])
  <1> DEFINE n == Len(queue)
             m == Len(queue')
             r == queue'
             l == Line'
             nodes == node'
             e == [who |-> t, key |-> node[t].key]
  <1>1. /\ Line \in Seq(Places) /\ Len(Line) = n /\ n \in Nat /\ queue \in Seq(Parkers)
        /\ \A k \in 1 .. n : Line[k] = [who |-> queue[k], key |-> node[queue[k]].key]
        /\ \A k \in 1 .. n : queue[k] \in Parkers
    BY Types, LineParts, KnownParts DEF Known, Line
  <1>2. /\ l \in Seq(Places) /\ Len(l) = m /\ m \in Nat
        /\ \A k \in 1 .. m : l[k] = [who |-> r[k], key |-> nodes[r[k]].key]
    <2>1. r \in Seq(Parkers) /\ nodes \in [Parkers -> Nodes]
      BY DEF LotInv, TypeOK, Known, Nodes, Pointers
    <2> QED BY <2>1, LineParts DEF Line
  <1>3. m = n + 1 /\ r[n + 1] = t /\ \A k \in 1 .. n : r[k] = queue[k]
    BY <1>1, AppendProperties
  <1>4. e \in Places /\ \A s \in Parkers : nodes[s].key = node[s].key
    <2>1. node[t] \in Nodes
      BY Types
    <2> QED BY <2>1 DEF Nodes, Places
  <1>5. e.who = t /\ e = [who |-> t, key |-> node[t].key]
    OBVIOUS
  <1> HIDE DEF n, m, r, l, nodes, e
  <1>6. l[n + 1] = e
    <2>1. n + 1 \in 1 .. m
      BY <1>1, <1>3
    <2> QED BY <1>2, <1>3, <1>4, <1>5, <2>1
  <1>7. \A k \in 1 .. n : l[k] = Line[k]
    <2>1. \A k \in 1 .. n : k \in 1 .. m
      BY <1>1, <1>3
    <2> QED BY <1>1, <1>2, <1>3, <1>4, <2>1
  <1>8. l = Append(Line, e)
    BY <1>1, <1>2, <1>3, <1>4, <1>6, <1>7, IsAppend
  <1> QED BY <1>8 DEF l, e

LEMMA AbstractVariables ==
  /\ UNCHANGED Line /\ (\A t \in Parkers : Outcome(t)' = Outcome(t)) => UNCHANGED Abstract!vars
  /\ Abstract!vars = <<Line, [t \in Parkers |-> Outcome(t)]>>
  BY DEF Abstract!vars, Line, LineOf

LEMMA OutcomeKept ==
  ASSUME NEW t, Listed(t)' <=> Listed(t), Calling(t)' <=> Calling(t), result'[t] = result[t]
  PROVE  Outcome(t)' = Outcome(t)
  BY DEF Outcome, Calling

LEMMA AbstractTimeOut ==
  ASSUME NEW t
  PROVE  Abstract!TimeOut(t) <=>
           /\ \E i \in 1 .. Len(Line) : Line[i].who = t /\ Line' = RemoveAt(Line, i)
           /\ [s \in Parkers |-> Outcome(s)]' =
                [[s \in Parkers |-> Outcome(s)] EXCEPT ![t] = "timeout"]
  BY Zenon DEF Abstract!TimeOut, Abstract!Settle, Abstract!RemoveAt, RemoveAt, Line, LineOf

LEMMA AbstractUnpark ==
  ASSUME NEW a
  PROVE  Abstract!Unpark(a) <=>
           \E i \in 1 .. Len(Line) :
             /\ Abstract!Matches(Line[i].key, a)
             /\ \A k \in 1 .. i - 1 : ~Abstract!Matches(Line[k].key, a)
             /\ [s \in Parkers |-> Outcome(s)]' =
                  [[s \in Parkers |-> Outcome(s)] EXCEPT ![Line[i].who] = "unparked"]
             /\ Line' = RemoveAt(Line, i)
  BY Zenon DEF Abstract!Unpark, Abstract!Settle, Abstract!RemoveAt, RemoveAt, Line, LineOf

LEMMA LineNow ==
  ASSUME LotInv
  PROVE  /\ Line \in Seq(Places) /\ Len(Line) = Len(queue) /\ Len(queue) \in Nat
         /\ \A k \in 1 .. Len(queue) : Line[k].who = queue[k] /\ Line[k].key = node[queue[k]].key
  <1>1. queue \in Seq(Parkers) /\ node \in [Parkers -> Nodes]
    BY Types DEF Known
  <1>2. /\ Line \in Seq(Places) /\ Len(Line) = Len(queue) /\ Len(queue) \in Nat
        /\ \A k \in 1 .. Len(queue) : Line[k] = [who |-> queue[k], key |-> node[queue[k]].key]
    BY <1>1, LineParts DEF Line
  <1> SUFFICES ASSUME NEW k \in 1 .. Len(queue)
               PROVE  Line[k].who = queue[k] /\ Line[k].key = node[queue[k]].key
    BY <1>2, Zenon
  <1>3. Line[k] = [who |-> queue[k], key |-> node[queue[k]].key]
    BY <1>2
  <1> HIDE DEF Line
  <1> QED BY <1>3

\* A step that is none of the abstract queue's.
LEMMA Quiet ==
  ASSUME LotInv, queue' = queue,
         \A s \in Parkers : Listed(s) => node'[s].key = node[s].key,
         \A s \in Parkers : \/ (Calling(s)' <=> Calling(s)) /\ result'[s] = result[s]
                            \/ Outcome(s)' = Outcome(s)
  PROVE  UNCHANGED Abstract!vars
  <1>1. Line' = Line
    BY Types, SameLine
  <1>2. \A s : Listed(s)' <=> Listed(s)
    BY DEF Listed
  <1>3. \A s \in Parkers : Outcome(s)' = Outcome(s)
    BY <1>2, OutcomeKept
  <1> QED BY <1>1, <1>3, AbstractVariables

LEMMA BeginRefines ==
  ASSUME LotInv, NEW t \in Parkers, ParkBegin(t)
  PROVE  Abstract!Begin(t)
  <1> USE Types
  <1>1. /\ pc[t] = "idle" /\ pc' = [pc EXCEPT ![t] = "validate"] /\ queue' = queue
        /\ result' = [result EXCEPT ![t] = "none"]
        /\ \A s \in Parkers \ {t} : node'[s] = node[s]
    BY DEF ParkBegin, At, Goto
  <1>2. ~Listed(t) /\ \A s : Listed(s)' <=> Listed(s)
    BY <1>1 DEF Calling, Listed
  <1>3. Line' = Line
    BY <1>1, <1>2, SameLine
  <1>4. Outcome(t) = result[t] /\ Outcome(t)' = "none"
    BY <1>1 DEF Outcome
  <1>5. \A s \in Parkers \ {t} : Outcome(s)' = Outcome(s)
    BY <1>1, <1>2, OutcomeKept DEF Calling
  <1>6. [s \in Parkers |-> Outcome(s)]' = [[s \in Parkers |-> Outcome(s)] EXCEPT ![t] = "none"]
    BY <1>4, <1>5
  <1>7. result[t] # "parked"
    OBVIOUS
  <1> QED BY <1>3, <1>4, <1>6, <1>7 DEF Abstract!Begin, Abstract!Settle, Line, LineOf

LEMMA EnqueueRefines ==
  ASSUME LotInv, LotInv', NEW t \in Parkers, Enqueue(t)
  PROVE  \E key \in Keys : Abstract!Park(t, key)
  <1> USE Types
  <1>1. /\ pc[t] = "validate" /\ pc' = [pc EXCEPT ![t] = "check"] /\ result' = result
    BY DEF Enqueue, At, Goto
  <1>2. /\ queue' = Append(queue, t) /\ \A s : Listed(s)' <=> Listed(s) \/ s = t
        /\ \A s \in Parkers : node'[s].key = node[s].key
    BY EnqueueKept
  <1>3. Line' = Append(Line, [who |-> t, key |-> node[t].key])
    BY <1>2, LineJoined
  <1>4. Outcome(t) = "none" /\ node[t].key \in Keys
    BY <1>1 DEF Outcome, ParkerKnown, At
  <1>5. Outcome(t)' = "parked"
    BY <1>1, <1>2 DEF Outcome
  <1>6. \A s \in Parkers \ {t} : Outcome(s)' = Outcome(s)
    BY <1>1, <1>2, OutcomeKept DEF Calling
  <1>7. [s \in Parkers |-> Outcome(s)]' = [[s \in Parkers |-> Outcome(s)] EXCEPT ![t] = "parked"]
    BY <1>5, <1>6
  <1>8. PICK key \in Keys : key = node[t].key
    BY <1>4
  <1>9. Abstract!Park(t, key)
    BY <1>3, <1>4, <1>7, <1>8 DEF Abstract!Park, Abstract!Settle, Line, LineOf
  <1> QED BY <1>9

\* A parker that is not in the list leaves as one that was unparked.
LEMMA LeaveQuiet ==
  ASSUME LotInv, NEW t \in Parkers, Calling(t), ~Listed(t), queue' = queue,
         Return(t, "unparked", node)
  PROVE  UNCHANGED Abstract!vars
  <1> USE Types
  <1>1. /\ pc' = [pc EXCEPT ![t] = "idle"] /\ result' = [result EXCEPT ![t] = "unparked"]
        /\ \A s \in Parkers \ {t} : node'[s] = node[s]
    BY DEF Return, Goto
  <1>2. Outcome(t) = "unparked" /\ Outcome(t)' = "unparked"
    BY <1>1 DEF Outcome, Calling
  <1>3. \A s \in Parkers \ {t} : (Calling(s)' <=> Calling(s)) /\ result'[s] = result[s]
    BY <1>1 DEF Calling
  <1>4. \A s \in Parkers : Listed(s) => node'[s].key = node[s].key
    BY <1>1
  <1> QED BY <1>2, <1>3, <1>4, Quiet

LEMMA RelockRefines ==
  ASSUME LotInv, LotInv', NEW t \in Parkers, Relock(t)
  PROVE  Abstract!TimeOut(t) \/ UNCHANGED Abstract!vars
  <1> USE Types
  <1>1. pc[t] = "relock" /\ Calling(t) /\ owner = Nil
    BY DEF Relock, Calling, At
  <1>2. CASE ~node[t].shouldPark
    <2>1. ~Listed(t) /\ Return(t, "unparked", node) /\ queue' = queue
      BY <1>2 DEF Relock
    <2> QED BY <1>1, <2>1, LeaveQuiet
  <1>3. CASE node[t].shouldPark
    <2>1. Shrink(t) /\ Return(t, "timeout", Unlinked(t))
      BY <1>3 DEF Relock
    <2>2. Listed(t)
      <3>1. \A u \in Unparkers : ~At(u, "clear")
        BY <1>1 DEF Locking, At
      <3> QED BY <1>1, <1>3, <3>1 DEF ParkerKnown
    <2>3. /\ node' = [Unlinked(t) EXCEPT ![t] = NoNode]
          /\ result' = [result EXCEPT ![t] = "timeout"] /\ pc' = [pc EXCEPT ![t] = "idle"]
      BY <2>1 DEF Return, Goto
    <2>4. PICK j \in 1 .. Len(queue) : queue[j] = t
      BY <2>2 DEF Listed
    <2>5. /\ Unlinked(t) \in [Parkers -> Nodes]
          /\ \A s \in Parkers : Unlinked(t)[s].key = node[s].key
      BY <2>4, UnlinkedNodes
    <2>6. /\ \A s \in Parkers \ {t} : node'[s] = Unlinked(t)[s]
          /\ \A s \in Parkers \ {t} : node'[s].key = node[s].key
      BY <2>3, <2>5
    <2>7. PICK i \in 1 .. Len(queue) : queue[i] = t /\ queue' = RemoveAt(queue, i)
      BY <2>1, <2>2, <2>6, LeftList
    <2>8. \A s : Listed(s)' <=> Listed(s) /\ s # t
      BY <2>1, <2>2, <2>6, LeftList
    <2>9. Line' = RemoveAt(Line, i)
      BY <2>6, <2>7, LineLeft
    <2>10. Outcome(t)' = "timeout"
      BY <2>3 DEF Outcome
    <2>11. \A s \in Parkers \ {t} : Outcome(s)' = Outcome(s)
      BY <2>3, <2>8, OutcomeKept DEF Calling
    <2>12. [s \in Parkers |-> Outcome(s)]' = [[s \in Parkers |-> Outcome(s)] EXCEPT ![t] = "timeout"]
      BY <2>10, <2>11
    <2>13. i \in 1 .. Len(Line) /\ Line[i].who = t
      BY <2>7, LineNow
    <2> QED BY <2>9, <2>12, <2>13, AbstractTimeOut
  <1> QED BY <1>2, <1>3

\* The oldest parker that matches leaves the list, as an unparked one.
LEMMA PopRefines ==
  ASSUME LotInv, LotInv', NEW u \in Unparkers, Pop(u), NEW a, a = asked[u]
  PROVE  Abstract!Unpark(a)
  <1> USE Types
  <1>1. PICK t : t = it[u]
    OBVIOUS
  <1>2. /\ pc[u] = "pop" /\ result' = result /\ pc' = [pc EXCEPT ![u] = "clear"]
    BY DEF Pop, At, Goto
  <1>3. /\ \A s \in Parkers : node'[s].key = node[s].key
        /\ \A s : Listed(s)' <=> Listed(s) /\ s # t
        /\ \E i \in 1 .. Len(queue) : queue[i] = t /\ queue' = RemoveAt(queue, i)
    BY <1>1, PopKept
  <1>4. PICK i \in 1 .. Len(queue) : queue[i] = t /\ queue' = RemoveAt(queue, i)
    BY <1>3
  <1>5. Line' = RemoveAt(Line, i)
    BY <1>3, <1>4, LineLeft
  <1>6. t # Nil /\ Listed(t) /\ Passed(u, t) /\ Matches(node[t].key, asked[u])
    BY <1>1, <1>2 DEF WalkerKnown, Onward
  <1>7. t \in Parkers /\ Calling(t)
    BY <1>6
  <1>8. Outcome(t)' = "unparked"
    <2>1. pc'[t] = pc[t]
      BY <1>2, <1>7
    <2> QED BY <1>3, <1>7, <2>1 DEF Outcome, Calling
  <1>9. \A s \in Parkers \ {t} : Outcome(s)' = Outcome(s)
    <2>1. \A s \in Parkers \ {t} : pc'[s] = pc[s]
      BY <1>2
    <2> QED BY <1>2, <1>3, <2>1, OutcomeKept DEF Calling
  <1>10. [s \in Parkers |-> Outcome(s)]' = [[s \in Parkers |-> Outcome(s)] EXCEPT ![t] = "unparked"]
    BY <1>8, <1>9
  <1>11. /\ i \in 1 .. Len(Line) /\ Len(queue) \in Nat
         /\ \A k \in 1 .. Len(queue) :
              Line[k].who = queue[k] /\ Line[k].key = node[queue[k]].key
    BY LineNow
  <1>12. /\ Abstract!Matches(Line[i].key, a)
         /\ \A k \in 1 .. i - 1 : ~Abstract!Matches(Line[k].key, a)
    <2>1. \A k \in 1 .. i - 1 : ~Matches(node[queue[k]].key, asked[u])
      BY <1>4, <1>6 DEF Passed
    <2>2. \A k \in 1 .. i - 1 : k \in 1 .. Len(queue)
      <3> DEFINE n == Len(queue)
      <3>1. n \in Nat /\ i \in 1 .. n
        BY <1>11
      <3> HIDE DEF n
      <3>2. \A k \in 1 .. i - 1 : k \in 1 .. n
        BY <3>1
      <3> QED BY <3>2 DEF n
    <2> QED BY <1>4, <1>6, <1>11, <2>1, <2>2 DEF Matches, Abstract!Matches
  <1>13. Line[i].who = t
    BY <1>4, <1>11
  <1>14. [s \in Parkers |-> Outcome(s)]' =
           [[s \in Parkers |-> Outcome(s)] EXCEPT ![Line[i].who] = "unparked"]
    BY <1>10, <1>13
  <1> QED BY <1>5, <1>11, <1>12, <1>14, AbstractUnpark

LEMMA NotifyQuiet ==
  ASSUME LotInv, NEW u \in Unparkers, Notify(u)
  PROVE  UNCHANGED Abstract!vars
  <1> USE Types
  <1> DEFINE new == IF stopEarly[u] \/ found[u] = "eNoneLeft" THEN "idle" ELSE "scan"
  <1>1. PICK t : t = it[u]
    OBVIOUS
  <1>2. /\ pc[u] = "notify" /\ UNCHANGED <<parker, queue>>
        /\ pc' = [pc EXCEPT ![u] = new, ![t] = IF At(t, "waiting") THEN "check" ELSE pc[t]]
    BY <1>1 DEF Notify, At
  <1>3. t \in Parkers
    BY <1>1, <1>2 DEF WalkerKnown
  <1>4. \A s \in Parkers : pc'[s] = IF s = t /\ At(t, "waiting") THEN "check" ELSE pc[s]
    BY <1>2, <1>3
  <1>5. \A s \in Parkers : Calling(s)' <=> Calling(s)
    BY <1>4 DEF Calling, At
  <1> QED BY <1>2, <1>5, Quiet DEF parker

LEMMA StepRefines ==
  ASSUME LotInv, LotInv', [Next]_vars
  PROVE  [Abstract!Next]_Abstract!vars
  <1> USE Types
  <1>1. ASSUME NEW t \in Parkers, ParkBegin(t)
        PROVE  Abstract!Next
    BY <1>1, BeginRefines DEF Abstract!Next
  <1>2. ASSUME NEW t \in Parkers, SpuriousWakeup(t) \/ Expire(t)
        PROVE  UNCHANGED Abstract!vars
    <2>1. Calling(t) /\ UNCHANGED <<parker, queue>>
          /\ (Goto(t, "check") \/ Goto(t, "relock"))
      BY <1>2 DEF SpuriousWakeup, Expire, Calling, At
    <2>2. Calling(t)' /\ \A s \in Parkers \ {t} : pc'[s] = pc[s]
      BY <2>1 DEF Calling, Goto
    <2>3. \A s \in Parkers : Calling(s)' <=> Calling(s)
      BY <2>1, <2>2 DEF Calling
    <2> QED BY <2>1, <2>3, Quiet DEF parker
  <1>3. ASSUME NEW t \in Parkers, Skip(t)
        PROVE  UNCHANGED Abstract!vars
    <2>1. /\ pc[t] = "validate" /\ pc' = [pc EXCEPT ![t] = "idle"] /\ queue' = queue
          /\ result' = [result EXCEPT ![t] = "none"]
          /\ \A s \in Parkers \ {t} : node'[s] = node[s]
      BY <1>3 DEF Skip, Return, At, Goto
    <2>2. Outcome(t)' = "none" /\ Outcome(t) = "none"
      BY <2>1 DEF Outcome, ParkerKnown, At
    <2>3. \A s \in Parkers \ {t} : (Calling(s)' <=> Calling(s)) /\ result'[s] = result[s]
      BY <2>1 DEF Calling
    <2>4. \A s \in Parkers : Listed(s) => node'[s].key = node[s].key
      BY <2>1 DEF Calling
    <2> QED BY <2>1, <2>2, <2>3, <2>4, Quiet
  <1>4. ASSUME NEW t \in Parkers, Enqueue(t)
        PROVE  Abstract!Next
    BY <1>4, EnqueueRefines DEF Abstract!Next
  <1>5. ASSUME NEW t \in Parkers, Check(t)
        PROVE  UNCHANGED Abstract!vars
    <2>1. Calling(t) /\ queue' = queue
      BY <1>5 DEF Check, Calling, At
    <2>2. CASE node[t].shouldPark
      <3>1. pc' = [pc EXCEPT ![t] = "waiting"] /\ UNCHANGED parker
        BY <1>5, <2>2 DEF Check, Goto
      <3>2. \A s \in Parkers : Calling(s)' <=> Calling(s)
        BY <2>1, <3>1 DEF Calling
      <3> QED BY <2>1, <3>1, <3>2, Quiet DEF parker
    <2>3. CASE ~node[t].shouldPark
      <3>1. Return(t, "unparked", node) /\ ~Listed(t)
        BY <1>5, <2>3 DEF Check
      <3> QED BY <2>1, <3>1, LeaveQuiet
    <2> QED BY <2>2, <2>3
  <1>6. ASSUME NEW t \in Parkers, Relock(t)
        PROVE  [Abstract!Next]_Abstract!vars
    BY <1>6, RelockRefines DEF Abstract!Next
  <1>7. ASSUME NEW u \in Unparkers, UnparkBegin(u) \/ LockBucket(u) \/ Scan(u) \/ Count(u)
        PROVE  UNCHANGED Abstract!vars
    <2>1. UNCHANGED <<parker, queue>> /\ \A s \in Parkers : pc'[s] = pc[s]
      BY <1>7 DEF UnparkBegin, LockBucket, Scan, Count, Goto
    <2> QED BY <2>1, Quiet DEF parker, Calling
  <1>8. ASSUME NEW u \in Unparkers, Pop(u)
        PROVE  Abstract!Next
    <2>1. PICK a \in Asked : a = asked[u]
      BY DEF TypeOK
    <2>2. Abstract!Unpark(a)
      BY <1>8, <2>1, PopRefines
    <2> QED BY <2>2 DEF Abstract!Next
  <1>9. ASSUME NEW u \in Unparkers, Clear(u)
        PROVE  UNCHANGED Abstract!vars
    <2>1. PICK t : t = it[u]
      OBVIOUS
    <2>2. /\ pc[u] = "clear" /\ UNCHANGED <<result, queue>> /\ \A s \in Parkers : pc'[s] = pc[s]
          /\ node' = [node EXCEPT ![t].shouldPark = FALSE]
      BY <1>9, <2>1 DEF Clear, At, Goto
    <2>3. t \in Parkers /\ ~Listed(t)
      BY <2>1, <2>2 DEF WalkerKnown
    <2>4. \A s \in Parkers : Listed(s) => node'[s].key = node[s].key
      BY <2>2, <2>3
    <2> QED BY <2>2, <2>4, Quiet DEF Calling
  <1>10. ASSUME NEW u \in Unparkers, Notify(u)
         PROVE  UNCHANGED Abstract!vars
    BY <1>10, NotifyQuiet
  <1>11. CASE UNCHANGED vars
    <2>1. UNCHANGED <<node, result, pc, queue>>
      BY <1>11 DEF vars, parker
    <2> QED BY <2>1, Quiet DEF Calling
  <1> QED BY <1>1, <1>2, <1>3, <1>4, <1>5, <1>6, <1>7, <1>8, <1>9, <1>10, <1>11
          DEF Next, ParkStep, UnparkStep

\* The bucket implements a queue of parked threads: an unpark call takes out the oldest
\* that matches, and each thread leaves once, unparked or timed out, whatever the
\* deadlines, the spurious wake-ups and the walk of the list go through in between.
THEOREM Refinement == Spec => ImplementsParkingQueue
  <1>1. Init => Abstract!Init
    <2> SUFFICES ASSUME Init PROVE Abstract!Init
      OBVIOUS
    <2>1. LotInv
      BY InitLot
    <2>2. Line \in Seq(Places) /\ Len(Line) = 0
      BY <2>1, LineNow DEF Init
    <2>3. Line = <<>>
      BY <2>2, EmptySeq
    <2>4. \A t \in Parkers : Outcome(t) = "none"
      BY DEF Init, Outcome
    <2>5. [t \in Parkers |-> Outcome(t)] = [t \in Parkers |-> "none"]
      BY <2>4
    <2> QED BY <2>3, <2>5 DEF Abstract!Init, Line, LineOf
  <1>2. LotInv /\ LotInv' /\ [Next]_vars => [Abstract!Next]_Abstract!vars
    BY StepRefines
  <1> QED BY <1>1, <1>2, Invariance, PTL DEF Spec, ImplementsParkingQueue, Abstract!Spec
=============================================================================
