------------------------------- MODULE WaitAny -------------------------------
(***************************************************************************)
(* wait_any and wait_any_state (el/wait_any.hpp) as main.cpp uses them: a  *)
(* closure waits for the interrupt, which is future 0, or for one          *)
(* operation, which is future 1, and is called with the index of the one   *)
(* that completed first.  The module has the operations; the programs that *)
(* extend it say when they run.                                            *)
(*                                                                         *)
(* A wait_any_state exists while one of its two nodes is registered with a *)
(* promise; it deletes itself in notify_complete().                        *)
(***************************************************************************)
EXTENDS Integers

VARIABLES
  at,        \* the next piece of code of the program, or "waiting"
  chained,   \* the closure chained to the future<size_t> of the wait
  nodes,     \* the registered nodes: of future 0, of future 1
  index      \* what the closure is called with

waitVars == <<at, chained, nodes, index>>

\* The same as below, registering with the operation only.
wait_any_NoInterrupt(ready0, ready1, closure) ==
  /\ chained' = closure
  /\ IF ready0 \/ ready1
       THEN /\ at' = closure /\ index' = (IF ready0 THEN 0 ELSE 1)
            /\ UNCHANGED nodes
       ELSE /\ at' = "waiting" /\ nodes' = {1}
            /\ UNCHANGED index

\* The same as below, asking the operation before the interrupt.
wait_any_OperationFirst(ready0, ready1, closure) ==
  /\ chained' = closure
  /\ IF ready0 \/ ready1
       THEN /\ at' = closure /\ index' = (IF ready1 THEN 1 ELSE 0)
            /\ UNCHANGED nodes
       ELSE /\ at' = "waiting" /\ nodes' = {0, 1}
            /\ UNCHANGED index

\* wait_any(fut0, fut1).then(closure): a future that is ready already decides,
\* the interrupt before the operation; otherwise both get a node.
wait_any(ready0, ready1, closure) ==
  /\ chained' = closure
  /\ IF ready0 \/ ready1
       THEN /\ at' = closure /\ index' = (IF ready0 THEN 0 ELSE 1)
            /\ UNCHANGED nodes
       ELSE /\ at' = "waiting" /\ nodes' = {0, 1}
            /\ UNCHANGED index

\* The same as below, leaving the node of the other future registered.
notify_complete_KeepsOther(i) ==
  /\ nodes' = nodes \ {i}
  /\ index' = i
  /\ at' = chained
  /\ UNCHANGED chained

\* The same as below, counting the nodes from 1.
notify_complete_FromOne(i) ==
  /\ nodes' = {}
  /\ index' = i + 1
  /\ at' = chained
  /\ UNCHANGED chained

\* The same, without the offset of the node in its array.
notify_complete_NoOffset(i) ==
  /\ nodes' = {}
  /\ index' = 0
  /\ at' = chained
  /\ UNCHANGED chained

\* future i completed: the other nodes are unregistered, the state is gone, and
\* the closure runs.
notify_complete(i) ==
  /\ nodes' = {}
  /\ index' = i
  /\ at' = chained
  /\ UNCHANGED chained

\* A future completes: its node, when it has one, is notified.
completed(i) ==
  IF i \in nodes THEN notify_complete(i) ELSE UNCHANGED waitVars
=============================================================================
