---------------------------- MODULE WaiterLists ----------------------------
(***************************************************************************)
(* What el::intrusive_list promises, without its pointers: every list      *)
(* holds a sequence of elements, an element is in at most one list, and a  *)
(* list is destroyed only when it is empty.                                *)
(***************************************************************************)
EXTENDS Integers, Sequences

CONSTANTS Lists, Nodes

VARIABLE contents      \* the elements of each list that exists

Open == DOMAIN contents
Elements(l) == {contents[l][i] : i \in DOMAIN contents[l]}
Listed == UNION {Elements(l) : l \in Open}

Init == contents = [l \in {} |-> <<>>]

Construct(l) ==
  /\ l \notin Open
  /\ contents' = [k \in Open \cup {l} |-> IF k = l THEN <<>> ELSE contents[k]]

Destroy(l) ==
  /\ l \in Open /\ contents[l] = <<>>
  /\ contents' = [k \in Open \ {l} |-> contents[k]]

Push(l, n) ==
  /\ l \in Open /\ n \notin Listed
  /\ contents' = [contents EXCEPT ![l] = Append(@, n)]

\* Those behind the element move up.
Detach(l, n) ==
  /\ l \in Open
  /\ \E k \in DOMAIN contents[l] :
       /\ contents[l][k] = n
       /\ contents' = [contents EXCEPT
            ![l] = [i \in 1..(Len(@) - 1) |-> IF i < k THEN @[i] ELSE @[i + 1]]]

\* An element moves to another address, and keeps its place.
MoveNode(l, n, m) ==
  /\ l \in Open /\ n \in Elements(l) /\ m \notin Listed
  /\ contents' = [contents EXCEPT
       ![l] = [i \in DOMAIN @ |-> IF @[i] = n THEN m ELSE @[i]]]

MoveList(l, k) ==
  /\ l \in Open /\ k \notin Open
  /\ contents' = [x \in Open \cup {k} |->
                    IF x = k THEN contents[l] ELSE IF x = l THEN <<>> ELSE contents[x]]

Swap(l, k) ==
  /\ l \in Open /\ k \in Open
  /\ contents' = [contents EXCEPT ![k] = contents[l], ![l] = contents[k]]

Next ==
  \E l \in Lists :
    \/ Construct(l) \/ Destroy(l)
    \/ \E k \in Lists : MoveList(l, k) \/ Swap(l, k)
    \/ \E n \in Nodes : \/ Push(l, n) \/ Detach(l, n)
                        \/ \E m \in Nodes : MoveNode(l, n, m)

Spec == Init /\ [][Next]_contents
=============================================================================
