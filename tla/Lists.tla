-------------------------------- MODULE Lists --------------------------------
(***************************************************************************)
(* What the operations of IVector promise, with storage, capacity and      *)
(* lifetimes left out: some lists, each changed by its own operations.     *)
(***************************************************************************)
EXTENDS Naturals, Sequences

CONSTANTS Names,    \* of the lists
          Values,
          Default,  \* a value-initialised element
          MaxSize   \* bound on the lists that are assigned or resized to

VARIABLE content

Init == content = [v \in Names |-> <<>>]

Push(v, x) == content' = [content EXCEPT ![v] = Append(@, x)]

Pop(v) ==
  /\ content[v] # <<>>
  /\ content' = [content EXCEPT ![v] = SubSeq(@, 1, Len(@) - 1)]

Resize(v, n) ==
  content' = [content EXCEPT ![v] = [i \in 1 .. n |-> IF i <= Len(@) THEN @[i] ELSE Default]]

Assign(v, list) == content' = [content EXCEPT ![v] = list]

\* The source is left empty or as it was.
Move(v, w) ==
  /\ v # w
  /\ \E rest \in {<<>>, content[w]} :
       content' = [content EXCEPT ![v] = content[w], ![w] = rest]

Next ==
  \E v \in Names :
    \/ \E x \in Values : Push(v, x)
    \/ Pop(v)
    \/ \E n \in 0 .. MaxSize : Resize(v, n)
    \/ \E n \in 0 .. MaxSize : \E list \in [1 .. n -> Values] : Assign(v, list)
    \/ \E w \in Names : Move(v, w)

Spec == Init /\ [][Next]_content
=============================================================================
