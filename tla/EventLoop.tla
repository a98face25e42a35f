----------------------------- MODULE EventLoop -----------------------------
(***************************************************************************)
(* el::Loop (el/loop.hpp, el/loop.cpp), the life of its registrants        *)
(* (el/fd_registrant.hpp, el/fd_registrant.cpp) and the loop of main().    *)
(*                                                                         *)
(* One thread runs everything.  `pc` says where it is: in main's while     *)
(* condition, inside epoll_wait, between two events of the batch that      *)
(* epoll_wait returned, inside an on_update callback, between two          *)
(* scheduled actions, or inside one.  User code runs in "setup" (main      *)
(* before its loop), "callback" and "action"; it may construct a           *)
(* registrant, close or destroy one, and schedule an action, any number of *)
(* times and in any order.                                                 *)
(*                                                                         *)
(* A registrant is the address of an object; it can be constructed again   *)
(* after it was destroyed.  The kernel's half of epoll is modelled as the  *)
(* set of addresses it holds in epoll_event.data.ptr and the ready list of *)
(* edge-triggered items.                                                   *)
(***************************************************************************)
EXTENDS Integers, Sequences

CONSTANTS
  Registrants,      \* addresses of EpollRegistrantWithFd objects
  Actions,          \* closures handed to Loop::schedule
  MAXEVENTS,        \* capacity of the array handed to epoll_wait
  MaxCtlDelFailures \* bound on failures of epoll_ctl(EPOLL_CTL_DEL)

ASSUME MaxEventsAssumption == MAXEVENTS \in Nat \ {0}
ASSUME CtlDelAssumption == MaxCtlDelFailures \in Nat

VARIABLES
  pc,                \* where the thread is
  mid_step,          \* Loop::mid_step_
  blocking_wait,     \* local of full_step()
  alive,             \* the registrants that are constructed
  registrants,       \* Loop::registrants_
  registered_index,  \* EpollRegistrant::registered_index_, from 1
  enqueued_actions,  \* Loop::enqueued_actions_
  spare_actions_buf, \* Loop::spare_actions_buf_, without the actions already run
  del_failures,      \* how many times EPOLL_CTL_DEL failed so far
  interest,          \* kernel: data.ptr of every fd in the epoll set
  ready,             \* kernel: the epoll ready list
  events             \* the part of the batch not yet dispatched

loopVars == <<mid_step, blocking_wait, enqueued_actions, spare_actions_buf>>
registryVars == <<alive, registrants, registered_index, del_failures, interest>>
vars == <<pc, loopVars, registryVars, ready, events>>

SIZE_MAX == 0

Contexts == {"setup", "main", "polling", "wakeups", "callback", "actions",
             "action", "stopped", "failed", "undefined"}

ElementsOf(s) == {s[i] : i \in DOMAIN s}

\* Of a list that holds x at most once.
Without(s, x) ==
  IF x \in ElementsOf(s)
    THEN LET k == CHOOSE k \in DOMAIN s : s[k] = x
         IN SubSeq(s, 1, k - 1) \o SubSeq(s, k + 1, Len(s))
    ELSE s

Init ==
  /\ pc = "setup"
  /\ mid_step = FALSE
  /\ blocking_wait = FALSE
  /\ alive = {}
  /\ registrants = <<>>
  /\ registered_index = [r \in Registrants |-> SIZE_MAX]
  /\ enqueued_actions = <<>>
  /\ spare_actions_buf = <<>>
  /\ del_failures = 0
  /\ interest = {}
  /\ ready = <<>>
  /\ events = <<>>

-----------------------------------------------------------------------------
(* What user code does on the loop. *)

InUserCode == pc \in {"setup", "callback", "action"}

\* epoll_ctl(EPOLL_CTL_ADD) succeeds.  A descriptor that is already readable
\* or writable enters the ready list at once.
register_for_epoll(r) ==
  /\ interest' = interest \cup {r}
  /\ ready' \in {ready, Append(ready, r)}
  /\ registered_index' = [registered_index EXCEPT ![r] = Len(registrants) + 1]
  /\ registrants' = Append(registrants, r)

\* Bound: no object is constructed at an address the loop still holds from an
\* object that is gone.
Construct(r) ==
  /\ InUserCode /\ r \notin alive /\ r \notin ElementsOf(registrants)
  /\ alive' = alive \cup {r}
  /\ register_for_epoll(r)
  /\ UNCHANGED <<pc, loopVars, del_failures, events>>

\* The constructor throws when EPOLL_CTL_ADD fails; nothing catches it.
ConstructThrows ==
  /\ InUserCode /\ alive # Registrants
  /\ pc' = "failed"
  /\ UNCHANGED <<loopVars, registryVars, ready, events>>

\* The same, forgetting that the element moved into the hole changes index.
unregister_for_epoll_NoBackPointer(r) ==
  LET index == registered_index[r]
      last  == registrants[Len(registrants)]
  IN /\ registrants' = SubSeq([registrants EXCEPT ![index] = last],
                              1, Len(registrants) - 1)
     /\ registered_index' = [registered_index EXCEPT ![r] = SIZE_MAX]
     /\ interest' = interest \ {r}
     /\ ready' = Without(ready, r)

\* epoll_ctl(EPOLL_CTL_DEL) succeeds: the kernel forgets the item, and the last
\* registrant of the vector takes the place of the one that leaves.
unregister_for_epoll(r) ==
  LET index == registered_index[r]
      last  == registrants[Len(registrants)]
  IN /\ registrants' = SubSeq([registrants EXCEPT ![index] = last],
                              1, Len(registrants) - 1)
     /\ registered_index' =
          [[registered_index EXCEPT ![last] = index] EXCEPT ![r] = SIZE_MAX]
     /\ interest' = interest \ {r}
     /\ ready' = Without(ready, r)

\* The same, destroying the object without EPOLL_CTL_DEL.
Close_StaysRegistered(r) ==
  /\ InUserCode /\ r \in alive
  /\ alive' = alive \ {r}
  /\ UNCHANGED <<pc, loopVars, registrants, registered_index, del_failures,
                 interest, ready, events>>

\* X::close(unique_ptr<X>), or the destructor of an object that was not closed:
\* deregister_and_close() and then the object is gone.  The new index is
\* written through the last pointer of the vector, which is undefined when
\* that object is gone.
Close(r) ==
  /\ InUserCode /\ r \in alive
  /\ alive' = alive \ {r}
  /\ unregister_for_epoll(r)
  /\ pc' = IF registrants[Len(registrants)] \in alive THEN pc ELSE "undefined"
  /\ UNCHANGED <<loopVars, del_failures, events>>

\* X::close(unique_ptr<X>) when EPOLL_CTL_DEL fails: fd_ was already released,
\* so the destructor does nothing more, and the loop keeps the pointer.
CloseWithoutDeregistering(r) ==
  /\ InUserCode /\ r \in alive
  /\ del_failures < MaxCtlDelFailures
  /\ del_failures' = del_failures + 1
  /\ alive' = alive \ {r}
  /\ UNCHANGED <<pc, loopVars, registrants, registered_index, interest,
                 ready, events>>

\* The destructor of an object that was not closed throws in that case.
DestructorThrows ==
  /\ InUserCode /\ alive # {}
  /\ del_failures < MaxCtlDelFailures
  /\ del_failures' = del_failures + 1
  /\ pc' = "failed"
  /\ UNCHANGED <<loopVars, alive, registrants, registered_index, interest,
                 ready, events>>

\* The same, with the action appended to the buffer that is being run.
schedule_IntoRunningBuffer(a) ==
  /\ InUserCode /\ a \notin ElementsOf(spare_actions_buf \o enqueued_actions)
  /\ IF pc = "action"
       THEN /\ spare_actions_buf' = Append(spare_actions_buf, a)
            /\ UNCHANGED enqueued_actions
       ELSE /\ enqueued_actions' = Append(enqueued_actions, a)
            /\ UNCHANGED spare_actions_buf
  /\ UNCHANGED <<pc, mid_step, blocking_wait, registryVars, ready, events>>

\* Bound: an action is scheduled again only after it has run.
schedule(a) ==
  /\ InUserCode /\ a \notin ElementsOf(spare_actions_buf \o enqueued_actions)
  /\ enqueued_actions' = Append(enqueued_actions, a)
  /\ UNCHANGED <<pc, mid_step, blocking_wait, spare_actions_buf, registryVars,
                 ready, events>>

UserOperation ==
  \/ \E r \in Registrants : \/ Construct(r)
                            \/ Close(r)
                            \/ CloseWithoutDeregistering(r)
  \/ \E a \in Actions : schedule(a)
  \/ ConstructThrows
  \/ DestructorThrows

\* User code returns to the loop.
UserReturns ==
  /\ InUserCode
  /\ pc' = CASE pc = "setup"    -> "main"
             [] pc = "callback" -> "wakeups"
             [] pc = "action"   -> "actions"
  /\ UNCHANGED <<loopVars, registryVars, ready, events>>

-----------------------------------------------------------------------------
(* main's loop and Loop::full_step. *)

has_stuff_to_do_NoActions == registrants # <<>>

has_stuff_to_do == enqueued_actions # <<>> \/ registrants # <<>>

StopLoop ==
  /\ pc = "main" /\ ~has_stuff_to_do
  /\ pc' = "stopped"
  /\ UNCHANGED <<loopVars, registryVars, ready, events>>

\* The same, waiting without a time limit whatever is enqueued.
BeginStep_AlwaysBlocks ==
  /\ pc = "main" /\ has_stuff_to_do
  /\ pc' = "polling"
  /\ mid_step' = TRUE
  /\ blocking_wait' = TRUE
  /\ UNCHANGED <<enqueued_actions, spare_actions_buf, registryVars, ready, events>>

BeginStep ==
  /\ pc = "main" /\ has_stuff_to_do
  /\ pc' = "polling"
  /\ mid_step' = TRUE
  /\ blocking_wait' = (enqueued_actions = <<>>)
  /\ UNCHANGED <<enqueued_actions, spare_actions_buf, registryVars, ready, events>>

\* The same, with more events than the array holds.
epoll_wait_Unbounded ==
  /\ pc = "polling"
  /\ blocking_wait => ready # <<>>
  /\ events' = ready
  /\ ready' = <<>>
  /\ pc' = "wakeups"
  /\ UNCHANGED <<loopVars, registryVars>>

\* epoll_wait takes items off the front of the ready list, at most MAXEVENTS.
\* EINTR is retried inside the same wait.
epoll_wait ==
  /\ pc = "polling"
  /\ blocking_wait => ready # <<>>
  /\ LET n == IF Len(ready) < MAXEVENTS THEN Len(ready) ELSE MAXEVENTS
     IN /\ events' = SubSeq(ready, 1, n)
        /\ ready' = SubSeq(ready, n + 1, Len(ready))
  /\ pc' = "wakeups"
  /\ UNCHANGED <<loopVars, registryVars>>

\* full_step returns early and main returns 1; mid_step_ stays set.
epoll_wait_error ==
  /\ pc = "polling"
  /\ pc' = "failed"
  /\ UNCHANGED <<loopVars, registryVars, ready, events>>

\* registrant->on_update(...).  The pointer was fetched before the callbacks
\* of the earlier events of the batch ran: calling through the pointer of an
\* object that is gone is undefined, and nothing is said of what follows.
on_update ==
  /\ pc = "wakeups" /\ events # <<>>
  /\ events' = Tail(events)
  /\ pc' = IF Head(events) \in alive THEN "callback" ELSE "undefined"
  /\ UNCHANGED <<loopVars, registryVars, ready>>

SwapActions ==
  /\ pc = "wakeups" /\ events = <<>>
  /\ spare_actions_buf' = enqueued_actions
  /\ enqueued_actions' = spare_actions_buf
  /\ pc' = "actions"
  /\ UNCHANGED <<mid_step, blocking_wait, registryVars, ready, events>>

RunAction ==
  /\ pc = "actions" /\ spare_actions_buf # <<>>
  /\ spare_actions_buf' = Tail(spare_actions_buf)
  /\ pc' = "action"
  /\ UNCHANGED <<mid_step, blocking_wait, enqueued_actions, registryVars,
                 ready, events>>

\* The same, without the reset of mid_step_.
EndStep_NoReset ==
  /\ pc = "actions" /\ spare_actions_buf = <<>>
  /\ pc' = "main"
  /\ UNCHANGED <<loopVars, registryVars, ready, events>>

EndStep ==
  /\ pc = "actions" /\ spare_actions_buf = <<>>
  /\ pc' = "main"
  /\ mid_step' = FALSE
  /\ UNCHANGED <<blocking_wait, enqueued_actions, spare_actions_buf,
                 registryVars, ready, events>>

LoopStep == StopLoop \/ BeginStep \/ epoll_wait \/ on_update \/ SwapActions
              \/ RunAction \/ EndStep

-----------------------------------------------------------------------------
(* The kernel raises an edge on a descriptor of the epoll set. *)
Edge(r) ==
  /\ r \in interest /\ r \notin ElementsOf(ready)
  /\ pc \notin {"stopped", "failed", "undefined"}
  /\ ready' = Append(ready, r)
  /\ UNCHANGED <<pc, loopVars, registryVars, events>>

Finished ==
  /\ pc \in {"stopped", "failed", "undefined"}
  /\ UNCHANGED vars

Next ==
  \/ UserOperation
  \/ UserReturns
  \/ LoopStep
  \/ epoll_wait_error
  \/ \E r \in Registrants : Edge(r)
  \/ Finished

\* The thread keeps running, and user code returns to the loop.
Fairness == WF_vars(LoopStep \/ UserReturns)

Spec == Init /\ [][Next]_vars /\ Fairness

-----------------------------------------------------------------------------
(* Properties. *)

TypeOK ==
  /\ pc \in Contexts
  /\ mid_step \in BOOLEAN
  /\ blocking_wait \in BOOLEAN
  /\ alive \subseteq Registrants
  /\ registrants \in Seq(Registrants)
  /\ registered_index \in [Registrants -> Nat]
  /\ enqueued_actions \in Seq(Actions)
  /\ spare_actions_buf \in Seq(Actions)
  /\ del_failures \in 0..MaxCtlDelFailures
  /\ interest \subseteq Registrants
  /\ ready \in Seq(Registrants)
  /\ events \in Seq(Registrants) /\ Len(events) <= MAXEVENTS

\* registered_index_ and registrants_ point at each other: every live object
\* is in the vector at its own index, and the vector holds nothing else.  The
\* swap-and-pop of unregister_for_epoll must keep this for any order of
\* construction and destruction (loop.hpp: "registrants_ have back-pointing
\* indices (registered_index_) that need to be maintained").
BackPointingIndices ==
  /\ \A r \in alive : /\ registered_index[r] \in DOMAIN registrants
                      /\ registrants[registered_index[r]] = r
  /\ \A i \in DOMAIN registrants : /\ registrants[i] \in alive
                                   /\ registered_index[registrants[i]] = i

\* It does, as long as no EPOLL_CTL_DEL has failed.
RegistryAgrees == del_failures = 0 => BackPointingIndices

\* The pointers the kernel will hand back in later waits are exactly those of
\* live objects: deregister_and_close() leaves nothing behind in the epoll set
\* or in its ready list, as long as EPOLL_CTL_DEL succeeds.
KernelHoldsLivePointers ==
  del_failures = 0 =>
    /\ interest = alive
    /\ ElementsOf(ready) \subseteq alive

\* The assertions of has_stuff_to_do() and full_step(): a step begins only
\* when none is under way, and the buffer swapped in is empty.
StepAssertions ==
  /\ pc = "main" => ~mid_step
  /\ pc = "wakeups" => spare_actions_buf = <<>>

\* Every scheduled action is run, whatever the other actions and the
\* callbacks schedule, construct and destroy, unless the process ends first.
ActionsAreRun ==
  \A a \in Actions :
    a \in ElementsOf(spare_actions_buf \o enqueued_actions)
      ~> \/ a \notin ElementsOf(spare_actions_buf \o enqueued_actions)
         \/ pc \in {"failed", "undefined"}

\* An edge on a descriptor is taken up by some step of the loop: actions that
\* keep rescheduling themselves do not starve the descriptors.
EdgesAreTakenUp ==
  \A r \in Registrants :
    r \in ElementsOf(ready)
      ~> r \notin ElementsOf(ready) \/ pc \in {"failed", "undefined"}

\* The loop does what LoopService promises: in particular every scheduled
\* action leaves the queue once, in order, and main returns 0 only when no
\* action and no registrant is left.
Service == INSTANCE LoopService WITH
  watched <- ElementsOf(registrants),
  queue   <- spare_actions_buf \o enqueued_actions,
  status  <- CASE pc = "stopped" -> "stopped"
               [] pc \in {"failed", "undefined"} -> "failed"
               [] OTHER -> "running"

ImplementsLoopService == Service!Spec
=============================================================================
