--------------------------- MODULE IntrusiveList ---------------------------
(***************************************************************************)
(* el::intrusive_list (el/intrusive_list.hpp): cyclic doubly linked lists  *)
(* whose anchors are the list objects and whose elements are nodes, as the *)
(* waiters of base_promise::completion_notifies_.                          *)
(*                                                                         *)
(* The writes of an operation are applied one after the other, in the      *)
(* order of the code: whether two of them hit the same cell, as they do    *)
(* for an empty list, is what makes these operations hard.  The elements   *)
(* walk of notify_and_detach_completions() is a sequence of detach() of    *)
(* the head, with other operations in between.                             *)
(***************************************************************************)
EXTENDS Integers, Sequences, FiniteSets

CONSTANTS Lists, Nodes, NULL

Cells == Lists \cup Nodes

ASSUME NullAssumption == NULL \notin Cells
ASSUME DisjointAssumption == Lists \cap Nodes = {}
ASSUME NodesAssumption == IsFiniteSet(Nodes)

VARIABLES
  constructed,   \* the lists that exist
  next,          \* intrusive_list_node::next_
  prev           \* intrusive_list_node::prev_

vars == <<constructed, next, prev>>

is_detached(n) == next[n] = NULL

Init ==
  /\ constructed = {}
  /\ next = [c \in Cells |-> NULL]
  /\ prev = [c \in Cells |-> NULL]

Construct(l) ==
  /\ l \notin constructed
  /\ constructed' = constructed \cup {l}
  /\ next' = [next EXCEPT ![l] = l]
  /\ prev' = [prev EXCEPT ![l] = l]

\* ~intrusive_list() asserts that the list is empty.
Destroy(l) ==
  /\ l \in constructed /\ next[l] = l
  /\ constructed' = constructed \ {l}
  /\ next' = [next EXCEPT ![l] = NULL]
  /\ prev' = [prev EXCEPT ![l] = NULL]

\* The same as push, without telling the anchor of its new last element.
push_HalfLinked(l, n) ==
  /\ l \in constructed /\ is_detached(n)
  /\ next' = [next EXCEPT ![prev[l]] = n, ![n] = l]
  /\ prev' = [prev EXCEPT ![n] = prev[l]]
  /\ UNCHANGED constructed

\* push(): insert_before() the anchor.
push(l, n) ==
  /\ l \in constructed /\ is_detached(n)
  /\ next' = [next EXCEPT ![prev[l]] = n, ![n] = l]
  /\ prev' = [prev EXCEPT ![l] = n, ![n] = prev[l]]
  /\ UNCHANGED constructed

\* The same as detach, closing only one direction of the cycle.
detach_OneWay(n) ==
  /\ ~is_detached(n)
  /\ next' = [next EXCEPT ![prev[n]] = next[n], ![n] = NULL]
  /\ prev' = [prev EXCEPT ![n] = NULL]
  /\ UNCHANGED constructed

detach(n) ==
  /\ ~is_detached(n)
  /\ next' = [next EXCEPT ![prev[n]] = next[n], ![n] = NULL]
  /\ prev' = [prev EXCEPT ![next[n]] = prev[n], ![n] = NULL]
  /\ UNCHANGED constructed

\* intrusive_list_node(intrusive_list_node&&), on a node of a list.
MoveNode(n, m) ==
  /\ ~is_detached(n) /\ is_detached(m)
  /\ next' = [next EXCEPT ![prev[n]] = m, ![m] = next[n], ![n] = NULL]
  /\ prev' = [prev EXCEPT ![next[n]] = m, ![m] = prev[n], ![n] = NULL]
  /\ UNCHANGED constructed

\* next and prev after list `to` took over the elements of list `from`: the
\* neighbours of `from` are told first, so that an empty `from` points at `to`
\* by the time its pointers are copied.
NextTaken(to, from) ==
  LET next1 == [next EXCEPT ![prev[from]] = to]
  IN [next1 EXCEPT ![to] = next1[from]]
PrevTaken(to, from) ==
  LET prev1 == [prev EXCEPT ![next[from]] = to]
  IN [prev1 EXCEPT ![to] = prev1[from]]

\* intrusive_list(intrusive_list&&), constructing k from l.
MoveList(l, k) ==
  /\ l \in constructed /\ k \notin constructed
  /\ constructed' = constructed \cup {k}
  /\ next' = [NextTaken(k, l) EXCEPT ![l] = l]
  /\ prev' = [PrevTaken(k, l) EXCEPT ![l] = l]

\* The same as swap, without the case of an empty list.
swap_NoEmptyCase(l, k) ==
  /\ l \in constructed /\ k \in constructed /\ l # k
  /\ next' = [NextTaken(l, k) EXCEPT ![k] = next[l], ![prev[l]] = k]
  /\ prev' = [PrevTaken(l, k) EXCEPT ![k] = prev[l], ![next[l]] = k]
  /\ UNCHANGED constructed

\* l.swap(k).
swap(l, k) ==
  /\ l \in constructed /\ k \in constructed /\ l # k
  /\ IF next[l] = l
       THEN /\ next' = [NextTaken(l, k) EXCEPT ![k] = k]
            /\ prev' = [PrevTaken(l, k) EXCEPT ![k] = k]
       ELSE /\ next' = [NextTaken(l, k) EXCEPT ![k] = next[l], ![prev[l]] = k]
            /\ prev' = [PrevTaken(l, k) EXCEPT ![k] = prev[l], ![next[l]] = k]
  /\ UNCHANGED constructed

Next ==
  \/ \E l \in Lists : \/ Construct(l)
                      \/ Destroy(l)
                      \/ \E k \in Lists : MoveList(l, k) \/ swap(l, k)
                      \/ \E n \in Nodes : push(l, n)
  \/ \E n \in Nodes : \/ detach(n)
                      \/ \E m \in Nodes : MoveNode(n, m)

Spec == Init /\ [][Next]_vars

-----------------------------------------------------------------------------
(* Properties. *)

TypeOK ==
  /\ constructed \subseteq Lists
  /\ next \in [Cells -> Cells \cup {NULL}]
  /\ prev \in [Cells -> Cells \cup {NULL}]

Linked == {c \in Cells : next[c] # NULL}

\* What assert_deep(), assert_shallow(), insert_before() and is_detached()
\* assert: neighbours agree on being neighbours, in both directions, and a
\* list that exists is always linked, to itself when it is empty.
NeighboursAgree ==
  /\ \A c \in Linked : /\ next[c] \in Linked /\ prev[c] \in Linked
                       /\ prev[next[c]] = c /\ next[prev[c]] = c
  /\ \A c \in Cells \ Linked : prev[c] = NULL
  /\ constructed = Linked \cap Lists

\* Following next_ from a node leads out of any set of nodes: at last to the
\* list that it is in.  detach() asserts a special case, that no node points
\* at itself; the loop of notify_and_detach_completions() ends because of it.
NodesLeadToAList ==
  \A S \in SUBSET (Nodes \cap Linked) : S # {} => \E n \in S : next[n] \notin S

\* Where next_ leads from l: the walk stops at the first cell that is no node.
Steps(l) ==
  LET at[i \in 0..Cardinality(Nodes)] ==
        IF i = 0 THEN l
        ELSE IF i > 1 /\ at[i - 1] \notin Nodes THEN at[i - 1] ELSE next[at[i - 1]]
  IN at

Walk(l) ==
  [i \in 1..Cardinality({k \in 1..Cardinality(Nodes) : Steps(l)[k] \in Nodes})
     |-> Steps(l)[i]]

walks == [l \in constructed |-> Walk(l)]

Contents == INSTANCE WaiterLists WITH contents <- walks

\* Walked from their anchors, the lists are the sequences they stand for: push
\* appends, detach takes out one element, moves and swaps lose and reorder
\* nothing, whichever lists are empty.
ImplementsWaiterLists == Contents!Spec
=============================================================================
