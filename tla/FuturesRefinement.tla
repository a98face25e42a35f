------------------------- MODULE FuturesRefinement -------------------------
(***************************************************************************)
(* Futures implements Continuations: the pointers of promises, futures and *)
(* closures, followed from an operation or a running closure downstream,   *)
(* spell the stages and the sink of its task.                              *)
(***************************************************************************)
EXTENDS Futures

\* The closures behind p, nearest first, and what the last of them completes.
RECURSIVE StagesBehind(_)
StagesBehind(p) ==
  IF callback[p] \in Promises
    THEN <<callback[p]>> \o StagesBehind(callback[p])
    ELSE <<>>

SinkBehind(p) ==
  LET stages == StagesBehind(p)
      last   == IF stages = <<>> THEN p ELSE stages[Len(stages)]
  IN IF callback[last] # NULL THEN callback[last] ELSE matching_future[last]

HasTask(p) ==
  /\ kind[p] \in Roots \/ Running(p)
  /\ callback[p] # NULL \/ matching_future[p] # NULL

Tasks == INSTANCE Continuations WITH
  task <- [p \in Promises |->
             IF HasTask(p)
               THEN [stages |-> StagesBehind(p), sink |-> SinkBehind(p)]
               ELSE NULL],
  completed <- has_value

\* Every operation of the library, with its splices and nested calls, is one
\* step of Continuations or none: the stages of a chain run in order, each of
\* them once, and the value reaches the sink it was chained to.
ImplementsContinuations == Tasks!Spec
=============================================================================
