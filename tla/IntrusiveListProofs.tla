------------------------ MODULE IntrusiveListProofs ------------------------
(***************************************************************************)
(* Proofs about IntrusiveList, for any number of lists and nodes.          *)
(***************************************************************************)
EXTENDS IntrusiveList, FiniteSetTheorems, WellFoundedInduction, TLAPS

IInv == TypeOK /\ NeighboursAgree /\ NodesLeadToAList

USE NullAssumption, DisjointAssumption DEF Cells

LEMMA InitIInv == Init => IInv
BY DEF Init, IInv, TypeOK, NeighboursAgree, NodesLeadToAList, Linked

-----------------------------------------------------------------------------
(* Each operation keeps types and neighbours. *)

LEMMA ConstructNeighbours ==
  ASSUME TypeOK, NeighboursAgree, NEW l \in Lists, Construct(l) \/ Destroy(l)
  PROVE  TypeOK' /\ NeighboursAgree'
BY DEF TypeOK, NeighboursAgree, Linked, Construct, Destroy

LEMMA PushNeighbours ==
  ASSUME TypeOK, NeighboursAgree, NEW l \in Lists, NEW n \in Nodes, push(l, n)
  PROVE  TypeOK' /\ NeighboursAgree'
BY DEF TypeOK, NeighboursAgree, Linked, push, is_detached

LEMMA DetachNeighbours ==
  ASSUME TypeOK, NeighboursAgree, NodesLeadToAList, NEW n \in Nodes, detach(n)
  PROVE  TypeOK' /\ NeighboursAgree'
BY DEF TypeOK, NeighboursAgree, Linked, detach, is_detached

LEMMA MoveNodeNeighbours ==
  ASSUME TypeOK, NeighboursAgree, NEW n \in Nodes, NEW m \in Nodes, MoveNode(n, m)
  PROVE  TypeOK' /\ NeighboursAgree'
BY DEF TypeOK, NeighboursAgree, Linked, MoveNode, is_detached

LEMMA MoveListNeighbours ==
  ASSUME TypeOK, NeighboursAgree, NEW l \in Lists, NEW k \in Lists, MoveList(l, k)
  PROVE  TypeOK' /\ NeighboursAgree'
BY DEF TypeOK, NeighboursAgree, Linked, MoveList, NextTaken, PrevTaken

LEMMA SwapNeighbours ==
  ASSUME TypeOK, NeighboursAgree, NEW l \in Lists, NEW k \in Lists, swap(l, k)
  PROVE  TypeOK' /\ NeighboursAgree'
BY DEF TypeOK, NeighboursAgree, Linked, swap, NextTaken, PrevTaken

-----------------------------------------------------------------------------
(* Each operation keeps nodes from forming a cycle of their own. *)

\* Lists only: what is new never points from a node to a node.
LEMMA ListsLead ==
  ASSUME TypeOK, NeighboursAgree, NodesLeadToAList,
         NEW l \in Lists, NEW k \in Lists,
         Construct(l) \/ Destroy(l) \/ MoveList(l, k) \/ swap(l, k)
  PROVE  NodesLeadToAList'
<1> SUFFICES ASSUME NEW S \in SUBSET (Nodes \cap Linked'), S # {},
                    \A n \in S : next'[n] \in S
             PROVE  FALSE
  BY DEF NodesLeadToAList
<1>1. \A n \in S : next'[n] = next[n]
  BY DEF TypeOK, NeighboursAgree, Linked, Construct, Destroy, MoveList, swap,
         NextTaken
<1>2. S \in SUBSET (Nodes \cap Linked)
  BY <1>1 DEF Linked
<1> QED BY <1>1, <1>2 DEF NodesLeadToAList

LEMMA PushLeads ==
  ASSUME TypeOK, NeighboursAgree, NodesLeadToAList,
         NEW l \in Lists, NEW n \in Nodes, push(l, n)
  PROVE  NodesLeadToAList'
<1> SUFFICES ASSUME NEW S \in SUBSET (Nodes \cap Linked'), S # {},
                    \A x \in S : next'[x] \in S
             PROVE  FALSE
  BY DEF NodesLeadToAList
<1>1. next' = [next EXCEPT ![prev[l]] = n, ![n] = l]
  BY DEF push
<1>2. n \notin S
  BY <1>1 DEF TypeOK
<1>3. \A x \in S : next'[x] = next[x]
  BY <1>1, <1>2 DEF TypeOK
<1>4. S \in SUBSET (Nodes \cap Linked)
  BY <1>3 DEF Linked
<1> QED BY <1>3, <1>4 DEF NodesLeadToAList

\* If the nodes left over after n is taken out formed a cycle, they would have
\* formed one together with n.
LEMMA DetachLeads ==
  ASSUME TypeOK, NeighboursAgree, NodesLeadToAList, NEW n \in Nodes, detach(n)
  PROVE  NodesLeadToAList'
<1> SUFFICES ASSUME NEW S \in SUBSET (Nodes \cap Linked'), S # {},
                    \A x \in S : next'[x] \in S
             PROVE  FALSE
  BY DEF NodesLeadToAList
<1>1. /\ next' = [next EXCEPT ![prev[n]] = next[n], ![n] = NULL]
      /\ n \in Linked
  BY DEF detach, is_detached, Linked
<1>2. n \notin S
  BY <1>1 DEF TypeOK, Linked
<1>3. \A x \in S : x \in Linked
  BY <1>1 DEF TypeOK, NeighboursAgree, Linked
<1>4. CASE prev[n] \in S
  <2>1. \A x \in S \cup {n} : next[x] \in S \cup {n}
    BY <1>1, <1>2, <1>4 DEF TypeOK, NeighboursAgree, Linked
  <2> QED BY <1>1, <1>3, <2>1 DEF NodesLeadToAList
<1>5. CASE prev[n] \notin S
  BY <1>1, <1>2, <1>3, <1>5 DEF NodesLeadToAList, TypeOK
<1> QED BY <1>4, <1>5

\* A cycle through the new address would have been one through the old.
LEMMA MoveNodeLeads ==
  ASSUME TypeOK, NeighboursAgree, NodesLeadToAList,
         NEW n \in Nodes, NEW m \in Nodes, MoveNode(n, m)
  PROVE  NodesLeadToAList'
<1> SUFFICES ASSUME NEW S \in SUBSET (Nodes \cap Linked'), S # {},
                    \A x \in S : next'[x] \in S
             PROVE  FALSE
  BY DEF NodesLeadToAList
<1>1. /\ next' = [next EXCEPT ![prev[n]] = m, ![m] = next[n], ![n] = NULL]
      /\ n \in Linked /\ m \notin Linked /\ n # m
  BY DEF MoveNode, is_detached, Linked
<1>2. n \notin S
  BY <1>1 DEF TypeOK, Linked
<1>3. \A x \in S \ {m} : x \in Linked
  BY <1>1 DEF TypeOK, NeighboursAgree, Linked
<1>4. CASE m \in S
  <2> DEFINE T == (S \ {m}) \cup {n}
  <2>1. prev[n] \in Linked /\ next[prev[n]] = n
    BY <1>1 DEF NeighboursAgree
  <2>2. \A x \in Linked : next[x] # m
    BY <1>1 DEF NeighboursAgree
  <2>3. next[n] \in T
    <3>1. next'[m] = next[n]
      BY <1>1, <2>1 DEF TypeOK
    <3> QED BY <1>1, <1>4, <2>2, <3>1
  <2>4. ASSUME NEW x \in S \ {m} PROVE next[x] \in T
    <3>1. CASE x = prev[n]
      BY <2>1, <3>1
    <3>2. CASE x # prev[n]
      <4>1. next'[x] = next[x]
        BY <1>1, <1>2, <3>2 DEF TypeOK
      <4> QED BY <1>3, <2>2, <4>1
    <3> QED BY <3>1, <3>2
  <2>5. \A x \in T : next[x] \in T
    BY <2>3, <2>4
  <2>6. T \in SUBSET (Nodes \cap Linked) /\ T # {}
    BY <1>1, <1>3
  <2> HIDE DEF T
  <2> QED BY <2>5, <2>6 DEF NodesLeadToAList
<1>5. CASE m \notin S
  <2>1. \A x \in S : next'[x] = next[x]
    BY <1>1, <1>2, <1>5 DEF TypeOK
  <2> QED BY <1>3, <1>5, <2>1 DEF NodesLeadToAList
<1> QED BY <1>4, <1>5

-----------------------------------------------------------------------------
LEMMA StepIInv == IInv /\ [Next]_vars => IInv'
<1> SUFFICES ASSUME TypeOK, NeighboursAgree, NodesLeadToAList, [Next]_vars
             PROVE  TypeOK' /\ NeighboursAgree' /\ NodesLeadToAList'
  BY DEF IInv
<1>1. CASE \E l \in Lists : Construct(l) \/ Destroy(l)
  BY <1>1, ConstructNeighbours, ListsLead
<1>2. CASE \E l, k \in Lists : MoveList(l, k) \/ swap(l, k)
  BY <1>2, MoveListNeighbours, SwapNeighbours, ListsLead
<1>3. CASE \E l \in Lists, n \in Nodes : push(l, n)
  BY <1>3, PushNeighbours, PushLeads
<1>4. CASE \E n \in Nodes : detach(n)
  BY <1>4, DetachNeighbours, DetachLeads
<1>5. CASE \E n, m \in Nodes : MoveNode(n, m)
  BY <1>5, MoveNodeNeighbours, MoveNodeLeads
<1>6. CASE UNCHANGED vars
  BY <1>6 DEF vars, TypeOK, NeighboursAgree, NodesLeadToAList, Linked
<1> QED BY <1>1, <1>2, <1>3, <1>4, <1>5, <1>6 DEF Next

THEOREM InductiveInvariant == Spec => []IInv
BY InitIInv, StepIInv, PTL DEF Spec

\* assert_deep() holds of every list, after any sequence of operations on any
\* number of lists, empty ones included.
THEOREM ListsAreWellFormed == Spec => []NeighboursAgree
<1>1. IInv => NeighboursAgree
  BY DEF IInv
<1> QED BY <1>1, InductiveInvariant, PTL

\* No cycle is made of nodes alone: from every node next_ leads to a list, and
\* the walk of notify_and_detach_completions() comes back to its anchor.
THEOREM WalksEnd == Spec => []NodesLeadToAList
<1>1. IInv => NodesLeadToAList
  BY DEF IInv
<1> QED BY <1>1, InductiveInvariant, PTL

\* The assertion of detach(): a node that is in a list has a neighbour other
\* than itself.
THEOREM NoNodeIsItsOwnNeighbour == Spec => [](\A n \in Nodes : next[n] # n)
<1>1. IInv => \A n \in Nodes : next[n] # n
  <2> SUFFICES ASSUME IInv, NEW n \in Nodes, next[n] = n PROVE FALSE
    OBVIOUS
  <2>1. {n} \in SUBSET (Nodes \cap Linked)
    BY DEF Linked
  <2> QED BY <2>1 DEF IInv, NodesLeadToAList
<1> QED BY <1>1, InductiveInvariant, PTL

-----------------------------------------------------------------------------
(* Walks.  A row of list l is a sequence of distinct nodes through which    *)
(* next_ leads from l back to l.                                             *)

Row(l, s) ==
  /\ s \in Seq(Nodes)
  /\ \A i, j \in 1..Len(s) : s[i] = s[j] => i = j
  /\ next[l] = IF Len(s) = 0 THEN l ELSE s[1]
  /\ \A i \in 1..Len(s) : next[s[i]] = IF i = Len(s) THEN l ELSE s[i + 1]

\* Induction over the naturals, in the form that is provable here: every set of
\* naturals that is not empty has a least element.
LEMMA LeastNat ==
  ASSUME NEW T, T \subseteq Nat, T # {}
  PROVE  \E x \in T : \A y \in T : x <= y
<1> DEFINE R == OpToRel(<, Nat)
<1>1. IsWellFoundedOn(R, Nat)
  BY NatLessThanWellFounded
<1>2. \E x \in T : \A y \in T : ~ (<<y, x>> \in R)
  <2> HIDE DEF R
  <2> QED BY <1>1, WFMin
<1>3. \A x, y \in Nat : x < y => <<x, y>> \in R
  BY DEF OpToRel
<1> HIDE DEF R
<1>4. \A x, y \in Nat : x <= y \/ y < x
  BY SMT
<1> QED BY <1>2, <1>3, <1>4

\* The sequence of cells that the walk along a row of l runs through, from l on.
Along(l, s) == [i \in 0..Cardinality(Nodes) |-> IF i \in 1..Len(s) THEN s[i] ELSE l]

\* One step of the walk g.
Stride(l, g) ==
  [i \in 0..Cardinality(Nodes) |->
     IF i = 0 THEN l
     ELSE IF i > 1 /\ g[i - 1] \notin Nodes THEN g[i - 1] ELSE next[g[i - 1]]]

LEMMA IntervalSize ==
  ASSUME NEW n \in Nat PROVE Cardinality(1..n) = n
<1>1. Cardinality(1..n) = IF 1 > n THEN 0 ELSE n - 1 + 1
  BY FS_Interval
<1> QED BY <1>1

LEMMA RowsFit ==
  ASSUME NEW l \in Lists, NEW s, Row(l, s)
  PROVE  Len(s) \in Nat /\ Len(s) <= Cardinality(Nodes) /\ Cardinality(Nodes) \in Nat
<1>1. s \in Injection(1..Len(s), Nodes)
  <2>1. s \in [1..Len(s) -> Nodes]
    BY DEF Row
  <2> QED BY <2>1 DEF Row, Injection, IsInjective
<1>2. Cardinality(1..Len(s)) = Len(s) /\ Len(s) \in Nat
  BY IntervalSize DEF Row
<1>3. Cardinality(Nodes) \in Nat
  BY NodesAssumption, FS_CardinalityType
<1> QED BY <1>1, <1>2, <1>3, NodesAssumption, FS_Injection

LEMMA RowsAreFollowed ==
  ASSUME NEW l \in Lists, NEW s, Row(l, s)
  PROVE  Along(l, s) = Stride(l, Along(l, s))
<1> DEFINE N == Cardinality(Nodes)
<1> SUFFICES ASSUME NEW i \in 0..N PROVE Along(l, s)[i] = Stride(l, Along(l, s))[i]
  BY DEF Along, Stride
<1>1. Len(s) \in Nat /\ Len(s) <= N /\ N \in Nat
  BY RowsFit
<1> HIDE DEF N
<1>2. CASE i = 0
  BY <1>1, <1>2 DEF Along, Stride, N
<1>3. CASE i > 0
  <2>1. i - 1 \in 0..N /\ i \in 0..N
    BY <1>1, <1>3
  <2>2. /\ Along(l, s)[i - 1] = IF i - 1 \in 1..Len(s) THEN s[i - 1] ELSE l
        /\ Along(l, s)[i] = IF i \in 1..Len(s) THEN s[i] ELSE l
    BY <2>1 DEF Along, N
  <2>3. Stride(l, Along(l, s))[i] =
          IF i > 1 /\ Along(l, s)[i - 1] \notin Nodes
            THEN Along(l, s)[i - 1] ELSE next[Along(l, s)[i - 1]]
    BY <1>3, <2>1 DEF Stride, N
  <2>4. l \notin Nodes
    OBVIOUS
  <2>5. CASE i = 1
    BY <1>1, <2>2, <2>3, <2>5 DEF Row
  <2>6. CASE i > 1 /\ i - 1 \in 1..Len(s)
    BY <1>1, <2>2, <2>3, <2>6 DEF Row
  <2>7. CASE i > 1 /\ i - 1 \notin 1..Len(s)
    BY <1>1, <2>2, <2>3, <2>4, <2>7
  <2> QED BY <1>3, <2>5, <2>6, <2>7
<1> QED BY <1>2, <1>3, <1>1

\* The recursive function Steps(l) is the walk along the row.
LEMMA StepsFollow ==
  ASSUME NEW l \in Lists, NEW s, Row(l, s)
  PROVE  Steps(l) = Along(l, s)
<1> DEFINE N == Cardinality(Nodes)
           f == Steps(l)
           g == Along(l, s)
           T == {i \in 0..N : f[i] # g[i]}
<1>1. f = CHOOSE h : h = Stride(l, h)
  BY Zenon DEF Steps, Stride
<1>2. g = Stride(l, g)
  BY RowsAreFollowed
<1>3. f = Stride(l, f)
  <2> HIDE DEF f, g
  <2> QED BY <1>1, <1>2, Zenon
<1>4. N \in Nat
  BY RowsFit
<1>5. ASSUME T # {} PROVE FALSE
  <2> HIDE DEF N, f, g
  <2>0. T \subseteq Nat
    BY <1>4
  <2>1. PICK x \in T : \A y \in T : x <= y
    <3> HIDE DEF T
    <3> QED BY <1>5, <2>0, LeastNat
  <2>2. x \in 0..N /\ f[x] # g[x] /\ x \in Int
    BY <1>4
  <2>3. CASE x = 0
    <3>1. f[0] = l
      BY <1>3, <2>2, <2>3 DEF Stride, N
    <3>2. g[0] = l
      BY <1>2, <2>2, <2>3 DEF Stride, N
    <3> QED BY <2>2, <2>3, <3>1, <3>2
  <2>4. CASE x > 0
    <3>1. x - 1 \in 0..N /\ x - 1 \notin T
      BY <1>4, <2>1, <2>2, <2>4
    <3>2. f[x - 1] = g[x - 1]
      BY <3>1
    <3>3. Stride(l, f)[x] = Stride(l, g)[x]
      BY <2>2, <2>4, <3>2 DEF Stride, N
    <3> QED BY <1>2, <1>3, <2>2, <3>3
  <2> QED BY <1>4, <2>2, <2>3, <2>4
<1>6. \A i \in 0..N : f[i] = g[i]
  BY <1>5
<1>7. f = [i \in 0..N |-> f[i]] /\ g = [i \in 0..N |-> g[i]]
  <2>1. \A h : Stride(l, h) = [i \in 0..N |-> Stride(l, h)[i]]
    BY DEF Stride
  <2> HIDE DEF f, g
  <2> QED BY <1>2, <1>3, <2>1
<1> HIDE DEF f, g, N
<1>8. f = g
  BY <1>6, <1>7
<1> QED BY <1>8 DEF f, g

\* A list that has a row is walked along it.
LEMMA WalkIsRow ==
  ASSUME NEW l \in Lists, NEW s, Row(l, s)
  PROVE  Walk(l) = s
<1> DEFINE N == Cardinality(Nodes)
           K == {k \in 1..N : Along(l, s)[k] \in Nodes}
<1>1. Len(s) \in Nat /\ Len(s) <= N /\ N \in Nat /\ s \in Seq(Nodes)
  BY RowsFit DEF Row
<1>2. \A k \in 1..N : Along(l, s)[k] = IF k \in 1..Len(s) THEN s[k] ELSE l
  BY <1>1 DEF Along
<1>3. K = 1..Len(s)
  <2> HIDE DEF N
  <2> QED BY <1>1, <1>2
<1>4. Cardinality(K) = Len(s)
  BY <1>1, <1>3, IntervalSize
<1>5. Walk(l) = [i \in 1..Len(s) |-> Along(l, s)[i]]
  BY <1>4, StepsFollow DEF Walk
<1>6. \A i \in 1..Len(s) : Along(l, s)[i] = s[i]
  <2> HIDE DEF N
  <2> QED BY <1>1, <1>2
<1> QED BY <1>1, <1>5, <1>6

-----------------------------------------------------------------------------
(* Rows and neighbours. *)

LEMMA RowNeighbours ==
  ASSUME IInv, NEW l \in constructed, NEW s, Row(l, s)
  PROVE  /\ l \in Lists /\ l \in Linked /\ Len(s) \in Nat
         /\ \A i \in 1..Len(s) : s[i] \in Nodes /\ s[i] \in Linked /\ s[i] # l
         /\ prev[l] = IF Len(s) = 0 THEN l ELSE s[Len(s)]
         /\ \A i \in 1..Len(s) : prev[s[i]] = IF i = 1 THEN l ELSE s[i - 1]
<1>1. l \in Lists /\ l \in Linked /\ Len(s) \in Nat
  BY DEF IInv, TypeOK, NeighboursAgree, Row
<1>2. \A i \in 1..Len(s) : s[i] \in Nodes /\ s[i] # l
  BY <1>1 DEF Row
<1>3. \A i \in 1..Len(s) : next[s[i]] # NULL
  BY <1>1, <1>2 DEF Row
<1>4. \A i \in 1..Len(s) : s[i] \in Linked
  BY <1>2, <1>3 DEF Linked
<1>5. \A c \in Linked : prev[next[c]] = c
  BY DEF IInv, NeighboursAgree
<1>6. prev[l] = IF Len(s) = 0 THEN l ELSE s[Len(s)]
  BY <1>1, <1>4, <1>5 DEF Row
<1>7. ASSUME NEW i \in 1..Len(s) PROVE prev[s[i]] = IF i = 1 THEN l ELSE s[i - 1]
  <2>1. CASE i = 1
    BY <1>1, <1>5, <2>1 DEF Row
  <2>2. CASE i # 1
    <3>1. i - 1 \in 1..Len(s) /\ i - 1 # Len(s) /\ (i - 1) + 1 = i
      BY <1>1, <2>2
    <3>2. next[s[i - 1]] = s[i]
      BY <3>1 DEF Row
    <3> QED BY <1>4, <1>5, <2>2, <3>1, <3>2
  <2> QED BY <2>1, <2>2
<1> QED BY <1>1, <1>2, <1>4, <1>6, <1>7

\* No node is in the rows of two lists: the first one that was would be behind
\* two different cells.
LEMMA RowsAreDisjoint ==
  ASSUME IInv, NEW l \in constructed, NEW k \in constructed, l # k,
         NEW s, Row(l, s), NEW t, Row(k, t),
         NEW a \in 1..Len(s), NEW b \in 1..Len(t), s[a] = t[b]
  PROVE  FALSE
<1> DEFINE T == {i \in 1..Len(s) : \E j \in 1..Len(t) : s[i] = t[j]}
<1>1. T \subseteq Nat /\ T # {}
  OBVIOUS
<1>2. PICK x \in T : \A y \in T : x <= y
  <2> HIDE DEF T
  <2> QED BY <1>1, LeastNat
<1>3. PICK j \in 1..Len(t) : s[x] = t[j]
  OBVIOUS
<1>4. x \in 1..Len(s) /\ Len(s) \in Nat /\ Len(t) \in Nat
  BY RowNeighbours
<1>5. prev[s[x]] = (IF x = 1 THEN l ELSE s[x - 1])
  BY <1>4, RowNeighbours
<1>6. prev[t[j]] = (IF j = 1 THEN k ELSE t[j - 1])
  BY RowNeighbours
<1>7. \A i \in 1..Len(s) : s[i] \in Nodes
  BY RowNeighbours
<1>8. \A i \in 1..Len(t) : t[i] \in Nodes
  BY RowNeighbours
<1>9. l \in Lists /\ k \in Lists
  BY RowNeighbours
<1>10. x # 1 /\ j # 1
  <2>1. x # 1 => x - 1 \in 1..Len(s)
    BY <1>4
  <2>2. j # 1 => j - 1 \in 1..Len(t)
    BY <1>4
  <2> QED BY <1>3, <1>5, <1>6, <1>7, <1>8, <1>9, <2>1, <2>2
<1>11. x - 1 \in T
  BY <1>3, <1>4, <1>5, <1>6, <1>10
<1> HIDE DEF T
<1> QED BY <1>2, <1>4, <1>11

\* Every list that exists has a row.
RowsInv == \A l \in constructed : \E s : Row(l, s)

\* Every node that is linked is in a row: those that were in none would form a
\* cycle of their own.
LEMMA LinkedNodesAreInRows ==
  ASSUME IInv, RowsInv, NEW n \in Nodes, n \in Linked
  PROVE  \E l \in constructed, s \in Seq(Nodes) : Row(l, s) /\ \E i \in 1..Len(s) : s[i] = n
<1> DEFINE In(x) == \E l \in constructed, s \in Seq(Nodes) :
                      Row(l, s) /\ \E i \in 1..Len(s) : s[i] = x
           S == {x \in Nodes \cap Linked : ~In(x)}
<1> SUFFICES ASSUME ~In(n) PROVE FALSE
  OBVIOUS
<1>1. ASSUME NEW x \in S PROVE next[x] \in S
  <2>1. x \in Nodes /\ x \in Linked /\ ~In(x) /\ next[x] \in Linked /\ prev[next[x]] = x
    BY DEF IInv, NeighboursAgree
  <2> HIDE DEF S, In
  <2>2. CASE next[x] \in Lists
    <3>1. next[x] \in constructed
      BY <2>1, <2>2 DEF IInv, NeighboursAgree
    <3>2. PICK s : Row(next[x], s)
      BY <3>1 DEF RowsInv
    <3>3. x = IF Len(s) = 0 THEN next[x] ELSE s[Len(s)]
      BY <2>1, <3>1, <3>2, RowNeighbours
    <3>4. Len(s) \in Nat /\ Len(s) # 0
      BY <2>1, <2>2, <3>1, <3>2, <3>3, RowNeighbours
    <3>5. Len(s) \in 1..Len(s) /\ s[Len(s)] = x
      BY <3>3, <3>4
    <3>6. s \in Seq(Nodes)
      BY <3>2 DEF Row
    <3> QED BY <2>1, <3>1, <3>2, <3>5, <3>6 DEF In
  <2>3. CASE next[x] \in Nodes /\ In(next[x])
    <3>1. PICK l \in constructed, s \in Seq(Nodes) :
            Row(l, s) /\ \E i \in 1..Len(s) : s[i] = next[x]
      BY <2>3 DEF In
    <3>2. PICK i \in 1..Len(s) : s[i] = next[x]
      BY <3>1
    <3>3. x = (IF i = 1 THEN l ELSE s[i - 1]) /\ l \in Lists /\ Len(s) \in Nat
      BY <2>1, <3>1, <3>2, RowNeighbours
    <3>4. i - 1 \in 1..Len(s) /\ s[i - 1] = x
      BY <2>1, <3>3
    <3> QED BY <2>1, <3>1, <3>4 DEF In
  <2>4. next[x] \in Lists \/ next[x] \in Nodes
    BY <2>1 DEF Linked
  <2> QED BY <2>1, <2>2, <2>3, <2>4 DEF S
<1>2. n \in S /\ S \subseteq Nodes \cap Linked
  OBVIOUS
<1> HIDE DEF S
<1> QED BY <1>1, <1>2 DEF IInv, NodesLeadToAList

-----------------------------------------------------------------------------
(* What each operation does to a row. *)

\* A row whose pointers an operation leaves alone stays a row.
LEMMA Untouched ==
  ASSUME NEW l, NEW s, Row(l, s), next'[l] = next[l],
         \A i \in 1..Len(s) : next'[s[i]] = next[s[i]]
  PROVE  Row(l, s)'
BY DEF Row

LEMMA EmptyRow ==
  ASSUME NEW l, next'[l] = l
  PROVE  Row(l, <<>>)'
BY DEF Row

LEMMA ConstructRows ==
  ASSUME IInv, NEW l \in Lists, Construct(l) \/ Destroy(l)
  PROVE  /\ Construct(l) => Row(l, <<>>)'
         /\ \A k \in constructed \ {l} : \A s : Row(k, s) => Row(k, s)'
<1>1. \A c \in Cells : c # l => next'[c] = next[c]
  BY DEF IInv, TypeOK, Construct, Destroy
<1>2. Construct(l) => Row(l, <<>>)'
  BY EmptyRow DEF IInv, TypeOK, Construct
<1>3. ASSUME NEW k \in constructed \ {l}, NEW s, Row(k, s) PROVE Row(k, s)'
  BY <1>1, <1>3, RowNeighbours, Untouched
<1> QED BY <1>2, <1>3

\* push() appends to the row of the list, and touches no other.
LEMMA PushRows ==
  ASSUME IInv, NEW l \in Lists, NEW n \in Nodes, push(l, n)
  PROVE  /\ \A s : Row(l, s) => Row(l, Append(s, n))'
         /\ \A k \in constructed \ {l} : \A s : Row(k, s) => Row(k, s)'
<1>1. /\ l \in constructed /\ l \in Linked /\ prev[l] \in Linked /\ next[prev[l]] = l
      /\ n \notin Linked /\ n # l /\ prev[l] # n
  BY DEF IInv, TypeOK, NeighboursAgree, push, is_detached, Linked
<1>2. /\ next'[n] = l /\ next'[prev[l]] = n
      /\ \A c \in Cells : c # n /\ c # prev[l] => next'[c] = next[c]
  BY <1>1 DEF IInv, TypeOK, push, Linked
<1>3. ASSUME NEW s, Row(l, s) PROVE Row(l, Append(s, n))'
  <2> DEFINE t == Append(s, n)
  <2>1. /\ s \in Seq(Nodes) /\ Len(s) \in Nat
        /\ \A i \in 1..Len(s) : s[i] \in Nodes /\ s[i] \in Linked /\ s[i] # l
        /\ prev[l] = IF Len(s) = 0 THEN l ELSE s[Len(s)]
    BY <1>1, <1>3, RowNeighbours DEF Row
  <2>2. t \in Seq(Nodes) /\ Len(t) = Len(s) + 1 /\ t[Len(s) + 1] = n
        /\ \A i \in 1..Len(s) : t[i] = s[i]
    BY <2>1
  <2> HIDE DEF t
  <2>3. \A i, j \in 1..Len(t) : t[i] = t[j] => i = j
    BY <1>1, <1>3, <2>1, <2>2 DEF Row
  <2>4. next'[l] = t[1]
    <3>1. CASE Len(s) = 0
      BY <1>2, <2>1, <2>2, <3>1
    <3>2. CASE Len(s) # 0
      <4>1. prev[l] # l /\ next[l] = s[1] /\ 1 \in 1..Len(s)
        BY <1>3, <2>1, <3>2 DEF Row
      <4> QED BY <1>1, <1>2, <2>2, <4>1
    <3> QED BY <3>1, <3>2
  <2>5. ASSUME NEW i \in 1..Len(t) PROVE next'[t[i]] = IF i = Len(t) THEN l ELSE t[i + 1]
    <3>1. CASE i = Len(t)
      BY <1>2, <2>1, <2>2, <3>1
    <3>2. CASE i = Len(s) /\ i # 0
      BY <1>2, <2>1, <2>2, <3>2
    <3>3. CASE i \in 1..Len(s) /\ i # Len(s)
      <4>1. s[i] # prev[l]
        BY <1>3, <2>1, <3>3 DEF Row
      <4>2. next'[s[i]] = s[i + 1] /\ i + 1 \in 1..Len(s)
        BY <1>1, <1>2, <1>3, <2>1, <3>3, <4>1 DEF Row
      <4> QED BY <2>1, <2>2, <3>3, <4>2
    <3> QED BY <2>1, <2>2, <3>1, <3>2, <3>3
  <2> QED BY <2>2, <2>3, <2>4, <2>5, <2>1 DEF Row, t
<1>4. ASSUME NEW k \in constructed \ {l}, NEW s, Row(k, s) PROVE Row(k, s)'
  <2>1. /\ k \in Lists /\ Len(s) \in Nat /\ k \in Linked
        /\ \A i \in 1..Len(s) : s[i] \in Nodes /\ s[i] \in Linked
    BY <1>4, RowNeighbours
  <2>2. k # prev[l]
    BY <1>1, <1>4, <2>1 DEF Row
  <2>3. \A i \in 1..Len(s) : s[i] # prev[l]
    BY <1>1, <1>4, <2>1 DEF Row
  <2> QED BY <1>1, <1>2, <1>4, <2>1, <2>2, <2>3, Untouched
<1> QED BY <1>3, <1>4

\* The sequence s without its element at p.
Remove(s, p) == [i \in 1..(Len(s) - 1) |-> IF i < p THEN s[i] ELSE s[i + 1]]

LEMMA RemoveIsARow ==
  ASSUME NEW s \in Seq(Nodes), NEW p \in 1..Len(s)
  PROVE  /\ Remove(s, p) \in Seq(Nodes) /\ Len(Remove(s, p)) = Len(s) - 1
         /\ \A i \in 1..(Len(s) - 1) :
              /\ i < p => Remove(s, p)[i] = s[i]
              /\ i >= p => Remove(s, p)[i] = s[i + 1]
<1> DEFINE m == Len(s) - 1
<1>1. m \in Nat /\ Len(s) = m + 1
  OBVIOUS
<1> HIDE DEF m
<1>2. Remove(s, p) = [i \in 1..m |-> IF i < p THEN s[i] ELSE s[i + 1]]
  BY DEF Remove, m
<1>3. \A i \in 1..m : i \in 1..Len(s) /\ i + 1 \in 1..Len(s) /\ i # Len(s)
  BY <1>1
<1>4. \A i \in 1..Len(s) : s[i] \in Nodes
  OBVIOUS
<1>5. Remove(s, p) \in [1..m -> Nodes]
  BY <1>2, <1>3, <1>4
<1>6. \A i \in 1..m : i >= p <=> ~(i < p)
  BY <1>1
<1>7. Remove(s, p) \in Seq(Nodes) /\ Len(Remove(s, p)) = m
  BY <1>1, <1>5
<1>8. \A i \in 1..m :
        /\ i < p => Remove(s, p)[i] = s[i]
        /\ i >= p => Remove(s, p)[i] = s[i + 1]
  BY <1>2, <1>6
<1> QED BY <1>3, <1>7, <1>8 DEF m

\* detach() takes the node out of the row it is in.
LEMMA DetachRows ==
  ASSUME IInv, NEW n \in Nodes, detach(n), NEW k \in constructed, NEW s, Row(k, s)
  PROVE  /\ \A p \in 1..Len(s) : s[p] = n => Row(k, Remove(s, p))'
         /\ (\A i \in 1..Len(s) : s[i] # n) => Row(k, s)'
<1>1. /\ n \in Linked /\ prev[n] \in Linked /\ next[prev[n]] = n
      /\ next[n] \in Linked /\ prev[n] # n
  BY DEF IInv, TypeOK, NeighboursAgree, NodesLeadToAList, detach, is_detached, Linked
<1>2. /\ next'[prev[n]] = next[n]
      /\ \A c \in Cells : c # n /\ c # prev[n] => next'[c] = next[c]
  BY <1>1 DEF IInv, TypeOK, detach, Linked
<1>3. /\ k \in Lists /\ Len(s) \in Nat /\ s \in Seq(Nodes)
      /\ \A i \in 1..Len(s) : s[i] \in Nodes /\ s[i] \in Linked
      /\ \A i \in 1..Len(s) : prev[s[i]] = IF i = 1 THEN k ELSE s[i - 1]
  BY RowNeighbours DEF Row
<1>4. ASSUME NEW p \in 1..Len(s), s[p] = n PROVE Row(k, Remove(s, p))'
  <2> DEFINE t == Remove(s, p)
  <2>1. t \in Seq(Nodes) /\ Len(t) = Len(s) - 1
        /\ \A i \in 1..Len(t) : t[i] = IF i < p THEN s[i] ELSE s[i + 1]
    <3> HIDE DEF t
    <3>1. t \in Seq(Nodes) /\ Len(t) = Len(s) - 1
      BY <1>3, RemoveIsARow DEF t
    <3>2. ASSUME NEW i \in 1..(Len(s) - 1)
          PROVE  (i < p => t[i] = s[i]) /\ (i >= p => t[i] = s[i + 1])
      <4>1. s \in Seq(Nodes) /\ p \in 1..Len(s)
        BY <1>3
      <4> QED BY <4>1, RemoveIsARow, Zenon DEF t
    <3>3. p \in Int
      BY <1>3
    <3>4. \A i \in 1..(Len(s) - 1) : i \in Int
      BY <1>3
    <3>5. \A i, q \in Int : i >= q \/ i < q
      BY SMT
    <3> QED BY <3>1, <3>2, <3>3, <3>4, <3>5
  <2> HIDE DEF t
  <2>2. \A i, j \in 1..Len(t) : t[i] = t[j] => i = j
    BY <1>3, <2>1 DEF Row
  <2>3. prev[n] = (IF p = 1 THEN k ELSE s[p - 1])
    BY <1>3, <1>4
  <2>4. next[n] = IF p = Len(s) THEN k ELSE s[p + 1]
    BY <1>4 DEF Row
  <2>5. next'[k] = IF Len(t) = 0 THEN k ELSE t[1]
    <3>1. CASE p = 1
      BY <1>2, <1>3, <2>1, <2>3, <2>4, <3>1
    <3>2. CASE p # 1
      <4>1. next'[k] = next[k] /\ next[k] = s[1]
        BY <1>2, <1>3, <2>3, <3>2 DEF Row
      <4> QED BY <1>3, <2>1, <3>2, <4>1
    <3> QED BY <3>1, <3>2
  <2>6. ASSUME NEW i \in 1..Len(t) PROVE next'[t[i]] = IF i = Len(t) THEN k ELSE t[i + 1]
    <3>1. CASE i + 1 = p
      <4>1. t[i] = s[p - 1] /\ p # 1
        BY <1>3, <2>1, <3>1
      <4>2. next'[t[i]] = next[n]
        BY <1>2, <1>3, <2>3, <4>1
      <4>3. i = Len(t) <=> p = Len(s)
        BY <1>3, <2>1, <3>1
      <4>4. i # Len(t) => t[i + 1] = s[p + 1]
        <5>1. i # Len(t) => i + 1 \in 1..Len(t) /\ ~(i + 1 < p)
          BY <1>3, <2>1, <3>1
        <5> QED BY <2>1, <3>1, <5>1
      <4> QED BY <2>4, <4>2, <4>3, <4>4
    <3>2. CASE i + 1 < p
      <4>1. /\ i \in 1..Len(t) /\ i \in 1..Len(s) /\ i # Len(s)
            /\ i + 1 \in 1..Len(t) /\ i # Len(t) /\ i < p
        BY <1>3, <2>1, <3>2
      <4>5. t[i] = s[i] /\ t[i + 1] = s[i + 1]
        BY <2>1, <3>2, <4>1
      <4>2. s[i] # n
        BY <1>3, <1>4, <3>2, <4>1 DEF Row
      <4>3. s[i] # prev[n]
        BY <1>3, <1>4, <2>3, <3>2, <4>1 DEF Row
      <4>4. next[s[i]] = s[i + 1]
        BY <4>1 DEF Row
      <4> QED BY <1>2, <1>3, <4>1, <4>2, <4>3, <4>4, <4>5
    <3>3. CASE i >= p
      <4>1. t[i] = s[i + 1] /\ i + 1 \in 1..Len(s)
            /\ (i # Len(t) => t[i + 1] = s[i + 2] /\ i + 1 # Len(s))
        BY <1>3, <2>1, <3>3
      <4>2. s[i + 1] # n
        BY <1>3, <1>4, <3>3, <4>1 DEF Row
      <4>3. s[i + 1] # prev[n]
        BY <1>3, <1>4, <2>3, <3>3, <4>1 DEF Row
      <4>4. next[s[i + 1]] = IF i + 1 = Len(s) THEN k ELSE s[(i + 1) + 1]
        BY <4>1 DEF Row
      <4>5. i = Len(t) <=> i + 1 = Len(s)
        BY <1>3, <2>1
      <4> QED BY <1>2, <1>3, <4>1, <4>2, <4>3, <4>4, <4>5
    <3> QED BY <1>3, <3>1, <3>2, <3>3
  <2> QED BY <2>1, <2>2, <2>5, <2>6 DEF Row, t
<1>5. ASSUME \A i \in 1..Len(s) : s[i] # n PROVE Row(k, s)'
  <2>1. k # prev[n] /\ k # n
    BY <1>1, <1>3, <1>5 DEF Row
  <2>2. \A i \in 1..Len(s) : s[i] # prev[n]
    BY <1>1, <1>3, <1>5 DEF Row
  <2> QED BY <1>2, <1>3, <1>5, <2>1, <2>2, Untouched
<1> QED BY <1>4, <1>5

\* A node that moves to another address keeps its place in its row.
\* The row with m in the place of n.
Renamed(s, n, m) == [i \in 1..Len(s) |-> IF s[i] = n THEN m ELSE s[i]]

LEMMA MoveNodeRows ==
  ASSUME IInv, NEW n \in Nodes, NEW m \in Nodes, MoveNode(n, m),
         NEW k \in constructed, NEW s, Row(k, s)
  PROVE  Row(k, Renamed(s, n, m))'
<1> DEFINE t == [i \in 1..Len(s) |-> IF s[i] = n THEN m ELSE s[i]]
<1> SUFFICES Row(k, t)'
  BY DEF Renamed
<1>1. /\ n \in Linked /\ prev[n] \in Linked /\ next[prev[n]] = n /\ next[n] \in Linked
      /\ m \notin Linked /\ n # m /\ prev[n] # n /\ next[n] # n
  BY DEF IInv, TypeOK, NeighboursAgree, NodesLeadToAList, MoveNode, is_detached, Linked
<1>2. /\ next'[prev[n]] = m /\ next'[m] = next[n]
      /\ \A c \in Linked : c # n /\ c # prev[n] => next'[c] = next[c]
  BY <1>1 DEF IInv, TypeOK, MoveNode, Linked
<1>3. /\ k \in Lists /\ k \in Linked /\ Len(s) \in Nat /\ s \in Seq(Nodes)
      /\ \A i \in 1..Len(s) : s[i] \in Nodes /\ s[i] \in Linked
      /\ \A i \in 1..Len(s) : prev[s[i]] = IF i = 1 THEN k ELSE s[i - 1]
  BY RowNeighbours DEF Row
<1>4. t \in Seq(Nodes) /\ Len(t) = Len(s)
      /\ \A i \in 1..Len(s) : t[i] = IF s[i] = n THEN m ELSE s[i]
  BY <1>3
<1> HIDE DEF t
<1>5. \A i, j \in 1..Len(t) : t[i] = t[j] => i = j
  BY <1>1, <1>3, <1>4 DEF Row
<1>6. \A c \in Linked : c # n => (next[c] = n <=> c = prev[n])
  BY <1>1 DEF IInv, NeighboursAgree
<1>7. next'[k] = IF Len(t) = 0 THEN k ELSE t[1]
  <2>1. k # n /\ next[k] = IF Len(s) = 0 THEN k ELSE s[1]
    BY <1>3 DEF Row
  <2>2. next'[k] = IF next[k] = n THEN m ELSE next[k]
    BY <1>2, <1>3, <1>6, <2>1
  <2>3. Len(s) # 0 => 1 \in 1..Len(s)
    BY <1>3
  <2> QED BY <1>4, <2>1, <2>2, <2>3
<1>8. ASSUME NEW i \in 1..Len(t) PROVE next'[t[i]] = IF i = Len(t) THEN k ELSE t[i + 1]
  <2>1. next[s[i]] = IF i = Len(s) THEN k ELSE s[i + 1]
    BY <1>4 DEF Row
  <2>2. i # Len(s) => i + 1 \in 1..Len(s)
    BY <1>3, <1>4
  <2>3. k # n
    BY <1>3
  <2>4. CASE s[i] = n
    <3>1. next'[t[i]] = next[n] /\ next[n] # n
      BY <1>1, <1>2, <1>4, <2>4
    <3> QED BY <1>4, <2>1, <2>2, <2>4, <3>1
  <2>5. CASE s[i] # n
    <3>1. next'[t[i]] = IF next[s[i]] = n THEN m ELSE next[s[i]]
      BY <1>2, <1>3, <1>4, <1>6, <2>5
    <3> QED BY <1>4, <2>1, <2>2, <2>3, <3>1
  <2> QED BY <2>4, <2>5
<1> QED BY <1>4, <1>5, <1>7, <1>8 DEF Row, t

\* The list k takes the row of the list l, which is left empty.
LEMMA MoveListRows ==
  ASSUME IInv, NEW l \in Lists, NEW k \in Lists, MoveList(l, k)
  PROVE  /\ Row(l, <<>>)'
         /\ \A s : Row(l, s) => Row(k, s)'
         /\ \A x \in constructed \ {l} : \A s : Row(x, s) => Row(x, s)'
<1>1. /\ l \in constructed /\ l \in Linked /\ k \notin Linked /\ l # k
      /\ prev[l] \in Linked /\ next[prev[l]] = l
  BY DEF IInv, TypeOK, NeighboursAgree, MoveList
<1>2. /\ next'[l] = l
      /\ next'[k] = IF prev[l] = l THEN k ELSE next[l]
      /\ prev[l] # l => next'[prev[l]] = k
      /\ \A c \in Linked : c # l /\ c # prev[l] => next'[c] = next[c]
  BY <1>1 DEF IInv, TypeOK, MoveList, NextTaken, Linked
<1>3. ASSUME NEW s, Row(l, s) PROVE Row(k, s)'
  <2>1. /\ s \in Seq(Nodes) /\ Len(s) \in Nat
        /\ \A i \in 1..Len(s) : s[i] \in Nodes /\ s[i] \in Linked /\ s[i] # l
        /\ prev[l] = IF Len(s) = 0 THEN l ELSE s[Len(s)]
    BY <1>1, <1>3, RowNeighbours DEF Row
  <2>2. next'[k] = IF Len(s) = 0 THEN k ELSE s[1]
    <3>1. CASE Len(s) = 0
      BY <1>2, <2>1, <3>1
    <3>2. CASE Len(s) # 0
      <4>1. Len(s) \in 1..Len(s)
        BY <2>1, <3>2
      <4> QED BY <1>2, <1>3, <2>1, <3>2, <4>1 DEF Row
    <3> QED BY <3>1, <3>2
  <2>3. ASSUME NEW i \in 1..Len(s) PROVE next'[s[i]] = IF i = Len(s) THEN k ELSE s[i + 1]
    <3>1. Len(s) # 0
      BY <2>1
    <3>2. CASE i = Len(s)
      BY <1>2, <2>1, <3>1, <3>2
    <3>3. CASE i # Len(s)
      <4>1. Len(s) \in 1..Len(s) /\ s[i] # prev[l]
        BY <1>3, <2>1, <3>1, <3>3 DEF Row
      <4> QED BY <1>2, <1>3, <2>1, <3>3, <4>1 DEF Row
    <3> QED BY <3>2, <3>3
  <2> QED BY <1>3, <2>2, <2>3 DEF Row
<1>4. ASSUME NEW x \in constructed \ {l}, NEW s, Row(x, s) PROVE Row(x, s)'
  <2>1. /\ x \in Lists /\ x \in Linked
        /\ \A i \in 1..Len(s) : s[i] \in Nodes /\ s[i] \in Linked
    BY <1>4, RowNeighbours
  <2>2. x # prev[l] /\ \A i \in 1..Len(s) : s[i] # prev[l] /\ s[i] # l
    BY <1>1, <1>4, <2>1 DEF Row
  <2> QED BY <1>2, <1>4, <2>1, <2>2, Untouched
<1>5. Row(l, <<>>)'
  BY <1>2, EmptyRow
<1> QED BY <1>3, <1>4, <1>5

\* A list to takes over the row of a list from, whose first and last pointers
\* and last node were changed accordingly.
LEMMA Taken ==
  ASSUME IInv, NEW from \in constructed, NEW to \in Lists, NEW s, Row(from, s),
         next'[to] = (IF Len(s) = 0 THEN to ELSE next[from]),
         Len(s) # 0 => next'[s[Len(s)]] = to,
         \A i \in 1..Len(s) : i # Len(s) => next'[s[i]] = next[s[i]]
  PROVE  Row(to, s)'
<1>1. s \in Seq(Nodes) /\ Len(s) \in Nat
  BY DEF Row
<1>2. \A i \in 1..Len(s) : next'[s[i]] = IF i = Len(s) THEN to ELSE s[i + 1]
  BY <1>1 DEF Row
<1> QED BY <1>1, <1>2 DEF Row

\* Two lists exchange their rows, whichever of them is empty.
LEMMA SwapRows ==
  ASSUME IInv, NEW l \in Lists, NEW k \in Lists, swap(l, k),
         NEW s, Row(l, s), NEW t, Row(k, t)
  PROVE  /\ Row(k, s)' /\ Row(l, t)'
         /\ \A x \in constructed \ {l, k} : \A r : Row(x, r) => Row(x, r)'
<1>1. /\ l \in constructed /\ k \in constructed /\ l # k /\ l \in Linked /\ k \in Linked
      /\ prev[l] \in Linked /\ next[prev[l]] = l /\ prev[k] \in Linked /\ next[prev[k]] = k
  BY DEF IInv, TypeOK, NeighboursAgree, swap
<1>2. /\ Len(s) \in Nat /\ prev[l] = IF Len(s) = 0 THEN l ELSE s[Len(s)]
      /\ next[l] = IF Len(s) = 0 THEN l ELSE s[1]
      /\ \A i \in 1..Len(s) : s[i] \in Nodes /\ s[i] \in Linked
      /\ \A i, j \in 1..Len(s) : s[i] = s[j] => i = j
  BY <1>1, RowNeighbours DEF Row
<1>3. /\ Len(t) \in Nat /\ prev[k] = IF Len(t) = 0 THEN k ELSE t[Len(t)]
      /\ next[k] = IF Len(t) = 0 THEN k ELSE t[1]
      /\ \A i \in 1..Len(t) : t[i] \in Nodes /\ t[i] \in Linked
      /\ \A i, j \in 1..Len(t) : t[i] = t[j] => i = j
  BY <1>1, RowNeighbours DEF Row
<1>4. /\ Len(s) # 0 => Len(s) \in 1..Len(s) /\ 1 \in 1..Len(s)
      /\ Len(t) # 0 => Len(t) \in 1..Len(t) /\ 1 \in 1..Len(t)
  BY <1>2, <1>3
<1>5. /\ Len(s) = 0 <=> prev[l] = l
      /\ Len(s) = 0 <=> next[l] = l
      /\ Len(t) = 0 <=> prev[k] = k
      /\ Len(t) = 0 <=> next[k] = k
      /\ prev[l] # k /\ prev[k] # l /\ prev[l] # prev[k]
  BY <1>1, <1>2, <1>3, <1>4
<1>6. /\ next'[l] = IF Len(t) = 0 THEN l ELSE next[k]
      /\ next'[k] = IF Len(s) = 0 THEN k ELSE next[l]
      /\ Len(t) # 0 => next'[prev[k]] = l
      /\ Len(s) # 0 => next'[prev[l]] = k
      /\ \A c \in Linked : c # l /\ c # k /\ c # prev[l] /\ c # prev[k] => next'[c] = next[c]
  <2>1. next \in [Cells -> Cells \cup {NULL}] /\ prev[l] \in Cells /\ prev[k] \in Cells
    BY <1>1 DEF IInv, TypeOK, Linked
  <2>2. CASE Len(s) = 0 /\ Len(t) = 0
    BY <1>1, <1>5, <2>1, <2>2 DEF swap, NextTaken, Linked
  <2>3. CASE Len(s) = 0 /\ Len(t) # 0
    BY <1>1, <1>5, <2>1, <2>3 DEF swap, NextTaken, Linked
  <2>4. CASE Len(s) # 0 /\ Len(t) = 0
    BY <1>1, <1>5, <2>1, <2>4 DEF swap, NextTaken, Linked
  <2>5. CASE Len(s) # 0 /\ Len(t) # 0
    BY <1>1, <1>5, <2>1, <2>5 DEF swap, NextTaken, Linked
  <2> QED BY <2>2, <2>3, <2>4, <2>5
<1>7. Row(k, s)'
  <2>1. Len(s) # 0 => next'[s[Len(s)]] = k
    BY <1>2, <1>6
  <2>2. ASSUME NEW i \in 1..Len(s), i # Len(s) PROVE next'[s[i]] = next[s[i]]
    <3>1. s[i] # prev[l]
      BY <1>2, <1>4, <2>2
    <3>2. s[i] # prev[k]
      <4>1. next[s[i]] \in Nodes
        BY <1>2, <2>2 DEF Row
      <4> QED BY <1>1, <4>1
    <3> QED BY <1>2, <1>6, <3>1, <3>2
  <2> QED BY <1>1, <1>6, <2>1, <2>2, Taken
<1>8. Row(l, t)'
  <2>1. Len(t) # 0 => next'[t[Len(t)]] = l
    BY <1>3, <1>6
  <2>2. ASSUME NEW i \in 1..Len(t), i # Len(t) PROVE next'[t[i]] = next[t[i]]
    <3>1. t[i] # prev[k]
      BY <1>3, <1>4, <2>2
    <3>2. t[i] # prev[l]
      <4>1. next[t[i]] \in Nodes
        BY <1>3, <2>2 DEF Row
      <4> QED BY <1>1, <4>1
    <3> QED BY <1>3, <1>6, <3>1, <3>2
  <2> QED BY <1>1, <1>6, <2>1, <2>2, Taken
<1>9. ASSUME NEW x \in constructed \ {l, k}, NEW r, Row(x, r) PROVE Row(x, r)'
  <2>1. /\ x \in Lists /\ x \in Linked
        /\ \A i \in 1..Len(r) : r[i] \in Nodes /\ r[i] \in Linked
    BY <1>9, RowNeighbours
  <2>2. /\ x # prev[l] /\ x # prev[k]
        /\ \A i \in 1..Len(r) : r[i] # prev[l] /\ r[i] # prev[k] /\ r[i] # l /\ r[i] # k
    BY <1>1, <1>9, <2>1 DEF Row
  <2> QED BY <1>6, <1>9, <2>1, <2>2, Untouched
<1> QED BY <1>7, <1>8, <1>9

-----------------------------------------------------------------------------
(* Every list has a row, always. *)

LEMMA InitRows == Init => RowsInv
BY DEF Init, RowsInv

LEMMA StepRows ==
  ASSUME IInv, RowsInv, [Next]_vars
  PROVE  RowsInv'
<1>1. ASSUME NEW l \in Lists, Construct(l) PROVE RowsInv'
  <2>1. constructed' = constructed \cup {l}
    BY <1>1 DEF Construct
  <2> QED BY <1>1, <2>1, ConstructRows DEF RowsInv
<1>2. ASSUME NEW l \in Lists, Destroy(l) PROVE RowsInv'
  <2>1. constructed' = constructed \ {l}
    BY <1>2 DEF Destroy
  <2> QED BY <1>2, <2>1, ConstructRows DEF RowsInv
<1>3. ASSUME NEW l \in Lists, NEW n \in Nodes, push(l, n) PROVE RowsInv'
  <2>1. constructed' = constructed /\ l \in constructed
    BY <1>3 DEF push
  <2> QED BY <1>3, <2>1, PushRows DEF RowsInv
<1>4. ASSUME NEW n \in Nodes, detach(n) PROVE RowsInv'
  <2>1. constructed' = constructed
    BY <1>4 DEF detach
  <2>2. ASSUME NEW k \in constructed PROVE \E s : Row(k, s)'
    <3>1. PICK s : Row(k, s)
      BY DEF RowsInv
    <3>2. CASE \A i \in 1..Len(s) : s[i] # n
      BY <1>4, <3>1, <3>2, DetachRows
    <3>3. CASE \E i \in 1..Len(s) : s[i] = n
      <4>1. PICK p \in 1..Len(s) : s[p] = n
        BY <3>3
      <4>2. Row(k, Remove(s, p))'
        BY <1>4, <3>1, <4>1, DetachRows
      <4> QED BY <4>2
    <3> QED BY <3>2, <3>3
  <2> QED BY <2>1, <2>2 DEF RowsInv
<1>5. ASSUME NEW n \in Nodes, NEW m \in Nodes, MoveNode(n, m) PROVE RowsInv'
  <2>1. constructed' = constructed
    BY <1>5 DEF MoveNode
  <2>2. ASSUME NEW k \in constructed PROVE \E s : Row(k, s)'
    <3>1. PICK s : Row(k, s)
      BY DEF RowsInv
    <3>2. Row(k, Renamed(s, n, m))'
      BY <1>5, <3>1, MoveNodeRows
    <3> QED BY <3>2
  <2> QED BY <2>1, <2>2 DEF RowsInv
<1>6. ASSUME NEW l \in Lists, NEW k \in Lists, MoveList(l, k) PROVE RowsInv'
  <2>1. constructed' = constructed \cup {k} /\ l \in constructed
    BY <1>6 DEF MoveList
  <2> QED BY <1>6, <2>1, MoveListRows DEF RowsInv
<1>7. ASSUME NEW l \in Lists, NEW k \in Lists, swap(l, k) PROVE RowsInv'
  <2>1. constructed' = constructed /\ l \in constructed /\ k \in constructed
    BY <1>7 DEF swap
  <2>2. PICK s : Row(l, s)
    BY <2>1 DEF RowsInv
  <2>3. PICK t : Row(k, t)
    BY <2>1 DEF RowsInv
  <2>4. /\ Row(k, s)' /\ Row(l, t)'
        /\ \A x \in constructed \ {l, k} : \A r : Row(x, r) => Row(x, r)'
    BY <1>7, <2>2, <2>3, SwapRows
  <2> QED BY <2>1, <2>4 DEF RowsInv
<1>8. CASE UNCHANGED vars
  BY <1>8 DEF vars, RowsInv, Row
<1> QED BY <1>1, <1>2, <1>3, <1>4, <1>5, <1>6, <1>7, <1>8 DEF Next

\* The walk along a list is its row, the only one it has.
WalkInv ==
  \A l \in constructed : Row(l, Walk(l)) /\ \A s : Row(l, s) => Walk(l) = s

LEMMA InvWalks == TypeOK /\ RowsInv => WalkInv
BY WalkIsRow DEF TypeOK, RowsInv, WalkInv

THEOREM RowsInvariant == Spec => [](RowsInv /\ WalkInv)
<1>1. IInv /\ RowsInv => WalkInv
  BY InvWalks DEF IInv
<1>2. IInv /\ RowsInv /\ [Next]_vars => RowsInv'
  BY StepRows
<1> QED BY <1>1, <1>2, InitRows, InductiveInvariant, PTL DEF Spec

-----------------------------------------------------------------------------
(* IntrusiveList implements WaiterLists. *)

\* An operation on the walks, w before and v after it.
LEMMA WalksOfRows ==
  ASSUME WalkInv, WalkInv', NEW w, w = walks, NEW v, v = walks'
  PROVE  /\ DOMAIN w = constructed /\ DOMAIN v = constructed'
         /\ w = [x \in constructed |-> w[x]] /\ v = [x \in constructed' |-> v[x]]
         /\ \A x \in constructed : Row(x, w[x])
         /\ \A x \in constructed' : \A s : Row(x, s)' => v[x] = s
<1>1. w = [x \in constructed |-> Walk(x)]
  BY DEF walks
<1>2. v = [x \in constructed' |-> Walk(x)']
  BY DEF walks
<1>3. \A x \in constructed : Row(x, w[x])
  BY <1>1 DEF WalkInv
<1>4. \A x \in constructed' : \A s : Row(x, s)' => v[x] = s
  BY <1>2 DEF WalkInv
<1> QED BY <1>1, <1>2, <1>3, <1>4

\* What is in a row is linked, and a node is in one row.
LEMMA ListedIsLinked ==
  ASSUME IInv, NEW w, w = walks, \A x \in constructed : Row(x, w[x])
  PROVE  Contents!Listed \subseteq Linked
<1>1. ASSUME NEW x \in constructed PROVE Contents!Elements(x) \subseteq Linked
  <2>1. \A i \in 1..Len(w[x]) : w[x][i] \in Linked
    BY RowNeighbours
  <2>2. DOMAIN w[x] = 1..Len(w[x])
    BY DEF Row
  <2> QED BY <2>1, <2>2 DEF Contents!Elements
<1>2. Contents!Open = constructed
  BY DEF Contents!Open, walks
<1> QED BY <1>1, <1>2 DEF Contents!Listed

LEMMA ConstructStep ==
  ASSUME IInv, WalkInv, WalkInv', NEW l \in Lists, Construct(l)
  PROVE  Contents!Construct(l)
<1> PICK w : w = walks
  OBVIOUS
<1> PICK v : v = walks'
  OBVIOUS
<1>1. /\ DOMAIN w = constructed /\ DOMAIN v = constructed'
      /\ w = [x \in constructed |-> w[x]] /\ v = [x \in constructed' |-> v[x]]
      /\ \A x \in constructed : Row(x, w[x])
      /\ \A x \in constructed' : \A s : Row(x, s)' => v[x] = s
  BY WalksOfRows
<1>2. constructed' = constructed \cup {l} /\ l \notin constructed
  BY DEF Construct
<1>3. v[l] = <<>> /\ \A x \in constructed : v[x] = w[x]
  BY <1>1, <1>2, ConstructRows
<1>4. v = [k \in constructed \cup {l} |-> IF k = l THEN <<>> ELSE w[k]]
  BY <1>1, <1>2, <1>3
<1> QED BY <1>1, <1>2, <1>4 DEF Contents!Construct, Contents!Open

LEMMA DestroyStep ==
  ASSUME IInv, WalkInv, WalkInv', NEW l \in Lists, Destroy(l)
  PROVE  Contents!Destroy(l)
<1> PICK w : w = walks
  OBVIOUS
<1> PICK v : v = walks'
  OBVIOUS
<1>1. /\ DOMAIN w = constructed /\ DOMAIN v = constructed'
      /\ w = [x \in constructed |-> w[x]] /\ v = [x \in constructed' |-> v[x]]
      /\ \A x \in constructed : Row(x, w[x])
      /\ \A x \in constructed' : \A s : Row(x, s)' => v[x] = s
  BY WalksOfRows
<1>2. constructed' = constructed \ {l} /\ l \in constructed /\ next[l] = l
  BY DEF Destroy
<1>3. \A x \in constructed \ {l} : v[x] = w[x]
  BY <1>1, <1>2, ConstructRows
<1>4. w[l] = <<>>
  BY <1>1, <1>2 DEF Row
<1>5. v = [k \in constructed \ {l} |-> w[k]]
  BY <1>1, <1>2, <1>3
<1> QED BY <1>1, <1>2, <1>4, <1>5 DEF Contents!Destroy, Contents!Open

LEMMA PushStep ==
  ASSUME IInv, WalkInv, WalkInv', NEW l \in Lists, NEW n \in Nodes, push(l, n)
  PROVE  Contents!Push(l, n)
<1> PICK w : w = walks
  OBVIOUS
<1> PICK v : v = walks'
  OBVIOUS
<1>1. /\ DOMAIN w = constructed /\ DOMAIN v = constructed'
      /\ w = [x \in constructed |-> w[x]] /\ v = [x \in constructed' |-> v[x]]
      /\ \A x \in constructed : Row(x, w[x])
      /\ \A x \in constructed' : \A s : Row(x, s)' => v[x] = s
  BY WalksOfRows
<1>2. constructed' = constructed /\ l \in constructed /\ n \notin Linked
  BY DEF push, is_detached, Linked
<1>3. v[l] = Append(w[l], n) /\ \A x \in constructed \ {l} : v[x] = w[x]
  BY <1>1, <1>2, PushRows
<1>4. v = [w EXCEPT ![l] = Append(@, n)]
  BY <1>1, <1>2, <1>3
<1>5. n \notin Contents!Listed
  BY <1>1, <1>2, ListedIsLinked
<1> QED BY <1>1, <1>2, <1>4, <1>5 DEF Contents!Push, Contents!Open

\* The node is in the row of one list: the others keep theirs.
LEMMA DetachStep ==
  ASSUME IInv, WalkInv, WalkInv', RowsInv, NEW n \in Nodes, detach(n)
  PROVE  \E l \in Lists : Contents!Detach(l, n)
<1> PICK w : w = walks
  OBVIOUS
<1> PICK v : v = walks'
  OBVIOUS
<1>1. /\ DOMAIN w = constructed /\ DOMAIN v = constructed'
      /\ w = [x \in constructed |-> w[x]] /\ v = [x \in constructed' |-> v[x]]
      /\ \A x \in constructed : Row(x, w[x])
      /\ \A x \in constructed' : \A s : Row(x, s)' => v[x] = s
  BY WalksOfRows
<1>2. constructed' = constructed /\ n \in Linked /\ constructed \subseteq Lists
  BY DEF detach, is_detached, Linked, IInv, TypeOK
<1>3. PICK l \in constructed, s \in Seq(Nodes) : Row(l, s) /\ \E i \in 1..Len(s) : s[i] = n
  BY <1>2, LinkedNodesAreInRows
<1>4. s = w[l]
  BY <1>3 DEF WalkInv, walks
<1>5. PICK p \in 1..Len(s) : s[p] = n
  BY <1>3
<1>6. v[l] = Remove(w[l], p)
  BY <1>1, <1>2, <1>3, <1>4, <1>5, DetachRows
<1>7. ASSUME NEW x \in constructed \ {l} PROVE v[x] = w[x]
  <2>1. \A i \in 1..Len(w[x]) : w[x][i] # n
    BY <1>1, <1>3, <1>5, RowsAreDisjoint
  <2> QED BY <1>1, <1>2, <2>1, DetachRows
<1>8. v = [w EXCEPT ![l] = Remove(@, p)]
  BY <1>1, <1>2, <1>6, <1>7
<1>9. p \in DOMAIN w[l] /\ w[l][p] = n
  BY <1>1, <1>4, <1>5 DEF Row
<1>10. v = [w EXCEPT ![l] = [i \in 1..(Len(@) - 1) |-> IF i < p THEN @[i] ELSE @[i + 1]]]
  BY <1>8 DEF Remove
<1>11. l \in Lists /\ l \in Contents!Open
  BY <1>1, <1>2 DEF Contents!Open
<1>12. Contents!Detach(l, n)
  <2>1. walks' = [walks EXCEPT
                    ![l] = [i \in 1..(Len(@) - 1) |-> IF i < p THEN @[i] ELSE @[i + 1]]]
    BY <1>10
  <2>2. p \in DOMAIN walks[l] /\ walks[l][p] = n
    BY <1>9
  <2> QED BY <1>11, <2>1, <2>2 DEF Contents!Detach
<1> QED BY <1>11, <1>12

LEMMA MoveNodeStep ==
  ASSUME IInv, WalkInv, WalkInv', RowsInv, NEW n \in Nodes, NEW m \in Nodes, MoveNode(n, m)
  PROVE  \E l \in Lists : Contents!MoveNode(l, n, m)
<1> PICK w : w = walks
  OBVIOUS
<1> PICK v : v = walks'
  OBVIOUS
<1>1. /\ DOMAIN w = constructed /\ DOMAIN v = constructed'
      /\ w = [x \in constructed |-> w[x]] /\ v = [x \in constructed' |-> v[x]]
      /\ \A x \in constructed : Row(x, w[x])
      /\ \A x \in constructed' : \A s : Row(x, s)' => v[x] = s
  BY WalksOfRows
<1>2. /\ constructed' = constructed /\ n \in Linked /\ m \notin Linked
      /\ constructed \subseteq Lists
  BY DEF MoveNode, is_detached, Linked, IInv, TypeOK
<1>3. PICK l \in constructed, s \in Seq(Nodes) : Row(l, s) /\ \E i \in 1..Len(s) : s[i] = n
  BY <1>2, LinkedNodesAreInRows
<1>4. s = w[l]
  BY <1>3 DEF WalkInv, walks
<1>5. PICK p \in 1..Len(s) : s[p] = n
  BY <1>3
<1>6. \A x \in constructed : v[x] = Renamed(w[x], n, m)
  BY <1>1, <1>2, MoveNodeRows
<1>7. ASSUME NEW x \in constructed \ {l} PROVE v[x] = w[x]
  <2>1. \A i \in 1..Len(w[x]) : w[x][i] # n
    BY <1>1, <1>3, <1>5, RowsAreDisjoint
  <2>2. PICK r : r = w[x]
    OBVIOUS
  <2>3. r \in Seq(Nodes)
    BY <1>1, <2>2 DEF Row
  <2>4. r = [i \in 1..Len(r) |-> r[i]]
    BY <2>3
  <2>5. Renamed(r, n, m) = [i \in 1..Len(r) |-> r[i]]
    BY <2>1, <2>2 DEF Renamed
  <2> QED BY <1>6, <2>2, <2>4, <2>5
<1>8. DOMAIN w[l] = 1..Len(w[l])
  BY <1>1 DEF Row
<1>9. v = [w EXCEPT ![l] = [i \in DOMAIN @ |-> IF @[i] = n THEN m ELSE @[i]]]
  <2>1. v[l] = [i \in DOMAIN w[l] |-> IF w[l][i] = n THEN m ELSE w[l][i]]
    BY <1>6, <1>8 DEF Renamed
  <2> QED BY <1>1, <1>2, <1>7, <2>1
<1>10. n \in Contents!Elements(l)
  BY <1>4, <1>5, <1>8 DEF Contents!Elements
<1>11. m \notin Contents!Listed
  BY <1>1, <1>2, ListedIsLinked
<1>12. l \in Lists /\ l \in Contents!Open
  BY <1>1, <1>2 DEF Contents!Open
<1>13. Contents!MoveNode(l, n, m)
  BY <1>9, <1>10, <1>11, <1>12 DEF Contents!MoveNode
<1> QED BY <1>12, <1>13

LEMMA MoveListStep ==
  ASSUME IInv, WalkInv, WalkInv', NEW l \in Lists, NEW k \in Lists, MoveList(l, k)
  PROVE  Contents!MoveList(l, k)
<1> PICK w : w = walks
  OBVIOUS
<1> PICK v : v = walks'
  OBVIOUS
<1>1. /\ DOMAIN w = constructed /\ DOMAIN v = constructed'
      /\ w = [x \in constructed |-> w[x]] /\ v = [x \in constructed' |-> v[x]]
      /\ \A x \in constructed : Row(x, w[x])
      /\ \A x \in constructed' : \A s : Row(x, s)' => v[x] = s
  BY WalksOfRows
<1>2. constructed' = constructed \cup {k} /\ l \in constructed /\ k \notin constructed
  BY DEF MoveList
<1>3. v[l] = <<>> /\ v[k] = w[l] /\ \A x \in constructed \ {l} : v[x] = w[x]
  BY <1>1, <1>2, MoveListRows
<1>4. v = [x \in constructed \cup {k} |->
             IF x = k THEN w[l] ELSE IF x = l THEN <<>> ELSE w[x]]
  BY <1>1, <1>2, <1>3
<1> QED BY <1>1, <1>2, <1>4 DEF Contents!MoveList, Contents!Open

LEMMA SwapStep ==
  ASSUME IInv, WalkInv, WalkInv', NEW l \in Lists, NEW k \in Lists, swap(l, k)
  PROVE  Contents!Swap(l, k)
<1> PICK w : w = walks
  OBVIOUS
<1> PICK v : v = walks'
  OBVIOUS
<1>1. /\ DOMAIN w = constructed /\ DOMAIN v = constructed'
      /\ w = [x \in constructed |-> w[x]] /\ v = [x \in constructed' |-> v[x]]
      /\ \A x \in constructed : Row(x, w[x])
      /\ \A x \in constructed' : \A s : Row(x, s)' => v[x] = s
  BY WalksOfRows
<1>2. constructed' = constructed /\ l \in constructed /\ k \in constructed /\ l # k
  BY DEF swap
<1>3. v[k] = w[l] /\ v[l] = w[k] /\ \A x \in constructed \ {l, k} : v[x] = w[x]
  BY <1>1, <1>2, SwapRows
<1>4. v = [w EXCEPT ![k] = w[l], ![l] = w[k]]
  BY <1>1, <1>2, <1>3
<1> QED BY <1>1, <1>2, <1>4 DEF Contents!Swap, Contents!Open

\* Read off the pointers, the lists are the sequences of WaiterLists, for any
\* number of lists and nodes: no operation loses, doubles or reorders waiters.
THEOREM ImplementsLists == Spec => ImplementsWaiterLists
<1>1. Init => Contents!Init
  BY DEF Init, Contents!Init, walks
<1>2. /\ IInv /\ RowsInv /\ WalkInv /\ WalkInv' /\ [Next]_vars
      => [Contents!Next]_walks
  <2> SUFFICES ASSUME IInv, RowsInv, WalkInv, WalkInv', [Next]_vars
               PROVE  [Contents!Next]_walks
    OBVIOUS
  <2>1. CASE UNCHANGED vars
    BY <2>1 DEF vars, walks, Walk, Steps
  <2>2. CASE \E l \in Lists : Construct(l) \/ Destroy(l)
    BY <2>2, ConstructStep, DestroyStep DEF Contents!Next
  <2>3. CASE \E l, k \in Lists : MoveList(l, k) \/ swap(l, k)
    BY <2>3, MoveListStep, SwapStep DEF Contents!Next
  <2>4. CASE \E l \in Lists, n \in Nodes : push(l, n)
    BY <2>4, PushStep DEF Contents!Next
  <2>5. CASE \E n \in Nodes : detach(n)
    BY <2>5, DetachStep DEF Contents!Next
  <2>6. CASE \E n, m \in Nodes : MoveNode(n, m)
    BY <2>6, MoveNodeStep DEF Contents!Next
  <2> QED BY <2>1, <2>2, <2>3, <2>4, <2>5, <2>6 DEF Next
<1> QED
  BY <1>1, <1>2, InductiveInvariant, RowsInvariant, PTL
     DEF Spec, ImplementsWaiterLists, Contents!Spec
=============================================================================
