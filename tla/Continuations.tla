--------------------------- MODULE Continuations ---------------------------
(***************************************************************************)
(* What el/future.hpp promises to its users, without its pointers.         *)
(*                                                                         *)
(* A task is an operation that is under way, or a callback that is         *)
(* running, together with what happens when it completes: the stages that  *)
(* then and cancellable_then added, first in line first, and behind them   *)
(* a sink, which is the future a user holds or the closure that was given  *)
(* to wait_with_callback.  A stage runs once, after everything in front    *)
(* of it; a stage that returns an unfinished future puts that operation,   *)
(* and the stages behind it, in its own place.                             *)
(***************************************************************************)
EXTENDS Sequences

CONSTANTS
  Promises,    \* names of operations and of stages
  Futures,
  Callbacks,
  NULL

VARIABLES
  task,        \* what is behind each operation or running stage, or NULL
  completed    \* the futures that have a value

vars == <<task, completed>>

Sinks == Futures \cup Callbacks
Behind(stages, sink) == [stages |-> stages, sink |-> sink]

Init == task = [p \in Promises |-> NULL] /\ completed = {}

Ends(p, k) == task[p] # NULL /\ task[p].sink = k
Unused(f) == f \notin completed /\ \A p \in Promises : ~Ends(p, f)

Begin(p, f) ==
  /\ task[p] = NULL /\ Unused(f)
  /\ task' = [task EXCEPT ![p] = Behind(<<>>, f)]
  /\ UNCHANGED completed

\* A future that completed is consumed, cancelled or moved.
Consume(f) ==
  /\ f \in completed
  /\ completed' = completed \ {f}
  /\ UNCHANGED task

MoveCompleted(f, g) ==
  /\ f \in completed /\ Unused(g)
  /\ completed' = (completed \ {f}) \cup {g}
  /\ UNCHANGED task

\* The holder of a future moves it, or gives a closure to wait for it.
ChangeSink(p, f, k) ==
  /\ Ends(p, f)
  /\ k \in Futures => Unused(k)
  /\ task' = [task EXCEPT ![p].sink = k]
  /\ UNCHANGED completed

MoveOperation(p, r) ==
  /\ task[p] # NULL /\ task[r] = NULL
  /\ task' = [task EXCEPT ![r] = task[p], ![p] = NULL]
  /\ UNCHANGED completed

\* then: a new last stage, and a new future behind it.
AddStage(p, f, q, g) ==
  /\ Ends(p, f) /\ Unused(g)
  /\ task' = [task EXCEPT ![p] = Behind(Append(task[p].stages, q), g)]
  /\ UNCHANGED completed

\* The operation completes: the first stage runs, or the sink is reached.
Complete(p) ==
  /\ task[p] # NULL
  /\ IF task[p].stages # <<>>
       THEN LET q == Head(task[p].stages)
            IN /\ task[q] = NULL
               /\ task' = [task EXCEPT
                    ![q] = Behind(Tail(task[p].stages), task[p].sink), ![p] = NULL]
               /\ UNCHANGED completed
       ELSE /\ task' = [task EXCEPT ![p] = NULL]
            /\ completed' = completed \cup ({task[p].sink} \cap Futures)

\* The running stage q returns the unfinished future f, at the end of task r.
ReturnUnfinished(q, r, f) ==
  /\ q # r /\ task[q] # NULL /\ Ends(r, f)
  /\ task' = [task EXCEPT
       ![r] = Behind(task[r].stages \o task[q].stages, task[q].sink), ![q] = NULL]
  /\ UNCHANGED completed

Cancel(p, f) ==
  /\ Ends(p, f)
  /\ task' = [task EXCEPT ![p] = NULL]
  /\ UNCHANGED completed

\* Registering waiters, making and destroying objects that nothing waits for,
\* and moving these about are not seen here.
Next ==
  \/ UNCHANGED vars
  \/ \E p \in Promises : Complete(p)
  \/ \E p, r \in Promises : MoveOperation(p, r)
  \/ \E f \in Futures : Consume(f)
  \/ \E f, g \in Futures : MoveCompleted(f, g)
  \/ \E p \in Promises, f \in Futures :
       \/ Begin(p, f)
       \/ Cancel(p, f)
       \/ \E k \in Sinks : ChangeSink(p, f, k)
       \/ \E q \in Promises : ReturnUnfinished(p, q, f)
       \/ \E q \in Promises, g \in Futures : AddStage(p, f, q, g)

Spec == Init /\ [][Next]_vars
=============================================================================
