---------------------------- MODULE LoopService ----------------------------
(***************************************************************************)
(* What el::Loop promises to the code that runs on it, without its vector  *)
(* of registrants, its back-pointing indices, its two action buffers or    *)
(* its epoll batches: a set of watched registrants, and a first-in         *)
(* first-out queue of scheduled actions.  The loop stops only when it      *)
(* watches nothing and has nothing left to run.                            *)
(***************************************************************************)
EXTENDS Sequences

CONSTANTS
  Registrants,   \* the objects that may ask for epoll updates
  Actions        \* the closures that may be handed to schedule()

VARIABLES
  watched,       \* the registrants whose updates the loop delivers
  queue,         \* the actions scheduled and not yet run, oldest first
  status         \* "running", "stopped" (main returned 0) or "failed"

vars == <<watched, queue, status>>

Init == watched = {} /\ queue = <<>> /\ status = "running"

Watch(r) ==
  /\ status = "running" /\ r \notin watched
  /\ watched' = watched \cup {r}
  /\ UNCHANGED <<queue, status>>

Unwatch(r) ==
  /\ status = "running" /\ r \in watched
  /\ watched' = watched \ {r}
  /\ UNCHANGED <<queue, status>>

Schedule(a) ==
  /\ status = "running"
  /\ queue' = Append(queue, a)
  /\ UNCHANGED <<watched, status>>

\* Actions run in the order in which they were scheduled, each exactly once.
RunOldest ==
  /\ status = "running" /\ queue # <<>>
  /\ queue' = Tail(queue)
  /\ UNCHANGED <<watched, status>>

Stop ==
  /\ status = "running" /\ watched = {} /\ queue = <<>>
  /\ status' = "stopped"
  /\ UNCHANGED <<watched, queue>>

\* After a failure nothing more happens; what is left behind is not specified.
Fail ==
  /\ status = "running"
  /\ status' = "failed"

Next ==
  \/ \E r \in Registrants : Watch(r) \/ Unwatch(r)
  \/ \E a \in Actions : Schedule(a)
  \/ RunOldest \/ Stop \/ Fail

Spec == Init /\ [][Next]_vars
=============================================================================
