-------------------------- MODULE AcceptLoopProofs --------------------------
(***************************************************************************)
(* Proofs about AcceptLoop, for any number of connections and any signals. *)
(***************************************************************************)
EXTENDS AcceptLoop, FiniteSetTheorems, SequenceTheorems, TLAPS

\* The SignalFd and the interrupt, by the code that runs next.
SignalInv ==
  /\ signal_reading <=> interrupt = "pending"
  /\ at = "start" => ~signal_reading
  /\ at \notin {"ended", "stopped", "signalled", "undefined"} => signal_open
  /\ at \in {"accept", "wait_accept", "waiting", "got_accept"} => interrupt # "none"
  /\ at = "close_signal" => ~signal_reading

\* The ListenSocket: at most one accept() is under way or has a value, and only
\* while accept_loop() has the socket.
ListenInv ==
  /\ at \notin {"accept", "wait_accept", "waiting", "got_accept", "undefined"} => ~listen_open
  /\ at \in {"accept", "wait_accept", "waiting", "got_accept"} => listen_open
  /\ ~listen_open => ~accepting /\ accept_value = "none"
  /\ at = "accept" => ~accepting /\ accept_value = "none"
  /\ accepting => accept_value = "none"
  /\ futs <= accepted
  /\ accept_value = "fd" => futs < accepted

\* The waits, and what an index means to the closure that is called with it.
WaitInv ==
  /\ nodes # {} <=> at = "waiting"
  /\ at = "waiting" => /\ nodes = {0, 1} /\ chained = "got_accept"
                       /\ interrupt = "pending" /\ accepting
  /\ at = "wait_accept" => accepting \/ accept_value # "none"
  /\ at = "got_accept" /\ index = 1 => interrupt = "pending" /\ accept_value # "none"
  /\ at = "got_accept" /\ index = 0 => interrupt = "ready"

\* An interrupt is ready before the first accept(), or it has ended a wait.
CutOffInv ==
  /\ at = "start" => futs = 0
  /\ at \in {"accept", "wait_accept"} /\ interrupt = "ready" => futs = 0
  /\ accept_value = "fd" /\ interrupt = "ready" => futs = 0

\* The sessions: those before i have completed, and all of them have when
\* wait_for_all_to_complete() is done.
DrainInv ==
  /\ at = "start" => pending = {}
  /\ at \in {"start", "accept", "wait_accept", "waiting", "got_accept"} => i = 1
  /\ at \in {"drain", "draining"} => pending \cap 1..(i - 1) = {}
  /\ at = "draining" => i \in pending
  /\ at \in {"finally", "close_signal", "ended", "stopped", "signalled"} => pending = {}

\* TRUE and FALSE are the Booleans.
LEMMA Truth == \A x : (x = TRUE \/ x = FALSE) => x \in BOOLEAN
BY Zenon

IInv == TypeOK /\ SignalInv /\ ListenInv /\ WaitInv /\ CutOffInv /\ DrainInv

LEMMA InitIInv == Init => IInv
<1> SUFFICES ASSUME Init PROVE IInv
  OBVIOUS
<1> USE MaxConnectionsAssumption DEF Init, SignalInit, ListenInit
<1>1. SignalTypeOK /\ ListenTypeOK
  BY Truth DEF SignalTypeOK, ListenTypeOK
<1>2. TypeOK
  BY <1>1 DEF TypeOK, Code
<1>3. SignalInv /\ ListenInv
  BY DEF SignalInv, ListenInv
<1>4. WaitInv /\ CutOffInv /\ DrainInv
  BY DEF WaitInv, CutOffInv, DrainInv
<1> QED BY <1>2, <1>3, <1>4 DEF IInv

LEMMA IInvImplies ==
  IInv => TypeOK /\ CallsMeetAssertions /\ NoCompletionMissed /\ SessionsEndFirst
BY DEF IInv, SignalInv, ListenInv, WaitInv, DrainInv, CallsMeetAssertions,
       NoCompletionMissed, SessionsEndFirst

-----------------------------------------------------------------------------
(* Types. *)

LEMMA StepSignalType ==
  ASSUME SignalTypeOK, [Next]_vars
  PROVE  SignalTypeOK'
<1> USE Truth DEF SignalTypeOK, signalVars
<1>1. ASSUME get_interrupt_future PROVE SignalTypeOK'
  BY <1>1 DEF get_interrupt_future, signal_read, try_doing_read_signal
<1>2. ASSUME signal_on_update PROVE SignalTypeOK'
  BY <1>2 DEF signal_on_update, try_doing_read_signal
<1>3. ASSUME interrupt_cancel \/ signal_close \/ signal_polled PROVE SignalTypeOK'
  BY <1>3 DEF interrupt_cancel, signal_close, signal_polled
<1>4. ASSUME NEW s \in Signals, Raise(s) PROVE SignalTypeOK'
  BY <1>4 DEF Raise
<1>5. ASSUME UNCHANGED signalVars PROVE SignalTypeOK'
  BY <1>5
<1> HIDE DEF SignalTypeOK, signalVars
<1> QED
  BY <1>1, <1>2, <1>3, <1>4, <1>5
     DEF Next, Thread, UserCode, LoopStep, Connect, Kill, Finished, vars, Start,
         ListenFails, StartAccept, WaitForAccept, Interrupted, AcceptFailed,
         MakePipeFails, StartSession, wait_for_all_to_complete, Finally, CloseSignalFd,
         EpollWait, SignalUpdate, ListenUpdate, SessionUpdate, UpdateOfDead, Stop

LEMMA StepListenType ==
  ASSUME ListenTypeOK, [Next]_vars
  PROVE  ListenTypeOK'
<1> USE Truth, MaxConnectionsAssumption DEF ListenTypeOK, listenVars, ListenIsReady
<1>1. ASSUME accept PROVE ListenTypeOK'
  BY <1>1 DEF accept, try_doing_accept
<1>2. ASSUME listen_on_update PROVE ListenTypeOK'
  BY <1>2 DEF listen_on_update, try_doing_accept
<1>3. ASSUME listen \/ take_value \/ cancel_and_destroy \/ listen_polled PROVE ListenTypeOK'
  BY <1>3 DEF listen, take_value, cancel_and_destroy, listen_polled
<1>4. ASSUME Arrive PROVE ListenTypeOK'
  BY <1>4 DEF Arrive
<1>5. ASSUME UNCHANGED listenVars PROVE ListenTypeOK'
  BY <1>5
<1> HIDE DEF ListenTypeOK, listenVars, ListenIsReady
<1> QED
  BY <1>1, <1>2, <1>3, <1>4, <1>5
     DEF Next, Thread, UserCode, LoopStep, Connect, Kill, Finished, vars, Start,
         ListenFails, StartAccept, WaitForAccept, Interrupted, AcceptFailed,
         MakePipeFails, StartSession, wait_for_all_to_complete, Finally, CloseSignalFd,
         EpollWait, SignalUpdate, ListenUpdate, SessionUpdate, UpdateOfDead, Stop

LEMMA EventsAreFinite == IsFiniteSet(Event)
<1>1. IsFiniteSet(Connections)
  BY MaxConnectionsAssumption, FS_Interval DEF Connections
<1>2. IsFiniteSet({"signal", "listen"}) /\ IsFiniteSet({"session"}) /\ IsFiniteSet({0})
  <2>1. IsFiniteSet({"signal"}) /\ IsFiniteSet({"session"}) /\ IsFiniteSet({0})
    BY FS_Singleton
  <2>2. {"signal", "listen"} = {"signal"} \cup {"listen"}
    OBVIOUS
  <2>3. IsFiniteSet({"signal"} \cup {"listen"})
    BY <2>1, FS_AddElement
  <2> QED BY <2>1, <2>2, <2>3
<1> QED BY <1>1, <1>2, FS_Product, FS_Union DEF Event

\* A batch is a sequence of the ready events, in some order.
LEMMA BatchOfEvents ==
  ASSUME NEW S \in SUBSET Event, NEW b \in SetToSeqs(S)
  PROVE  b \in Seq(Event)
<1>1. Cardinality(S) \in Nat
  BY EventsAreFinite, FS_Subset, FS_CardinalityType
<1>2. b \in [1..Cardinality(S) -> S]
  BY Zenon DEF SetToSeqs
<1>3. b \in [1..Cardinality(S) -> Event]
  BY <1>2
<1> QED BY <1>1, <1>3

LEMMA StepBatch ==
  ASSUME batch \in Seq(Event), [Next]_vars
  PROVE  batch' \in Seq(Event)
<1>1. ASSUME EpollWait PROVE batch' \in Seq(Event)
  <2>1. PICK S \in SUBSET pending :
          batch' \in SetToSeqs({e \in Event :
                               CASE e[1] = "signal"  -> SignalIsReady
                                 [] e[1] = "listen"  -> listen_edge /\ ListenIsReady
                                 [] e[1] = "session" -> e[2] \in S})
    BY <1>1, Zenon DEF EpollWait
  <2> QED BY <2>1, BatchOfEvents
<1>2. ASSUME NEW e, Dispatch(e) PROVE batch' \in Seq(Event)
  BY <1>2, HeadTailProperties DEF Dispatch
<1>3. ASSUME NEW from, NEW to, Going(from, to) PROVE batch' \in Seq(Event)
  BY <1>3 DEF Going
<1>4. CASE UserCode
  BY <1>3, <1>4 
     DEF UserCode, Start, ListenFails, StartAccept, WaitForAccept, Interrupted,
         AcceptFailed, MakePipeFails, StartSession, wait_for_all_to_complete, Finally,
         CloseSignalFd
<1>5. CASE LoopStep
  BY <1>1, <1>2, <1>5 DEF LoopStep, SignalUpdate, ListenUpdate, SessionUpdate,
                          UpdateOfDead, Stop
<1>6. CASE Connect \/ Kill \/ UNCHANGED vars
  BY <1>6 DEF Connect, Kill, vars
<1> QED BY <1>4, <1>5, <1>6 DEF Next, Thread, Finished

-----------------------------------------------------------------------------
(* Every step keeps the invariant.  An operation of user code, first. *)

StateInv == SignalInv /\ ListenInv /\ WaitInv /\ CutOffInv /\ DrainInv

\* What is typed besides the components' variables and the batch.
ProgramOK ==
  /\ at \in Code \cup Waits \cup Ends
  /\ chained \in {"start", "got_accept"}
  /\ nodes \subseteq {0, 1} /\ index \in {0, 1}
  /\ futs \in 0..MaxConnections /\ pending \subseteq 1..futs
  /\ i \in 1..(futs + 1)

LEMMA UserCodeStep ==
  ASSUME IInv, UserCode
  PROVE  ProgramOK' /\ StateInv'
<1> USE MaxConnectionsAssumption
    DEF IInv, TypeOK, SignalTypeOK, ListenTypeOK, ProgramOK, StateInv, Code, Waits, Ends,
        Going, signalVars, listenVars, waitVars
<1>1. CASE Start \/ ListenFails
  <2>1. /\ signal_reading' <=> interrupt' = "pending"
        /\ interrupt' # "none" /\ signal_open' = signal_open
    BY <1>1 DEF Start, ListenFails, get_interrupt_future, signal_read, SignalInv
  <2>2. ProgramOK'
    BY <1>1 DEF Start, ListenFails
  <2>3. SignalInv'
    BY <1>1, <2>1 DEF Start, ListenFails, SignalInv
  <2>4. ListenInv' 
    BY <1>1 DEF Start, ListenFails, ListenInv, listen
  <2>5. WaitInv' /\ CutOffInv' /\ DrainInv'
    BY <1>1 DEF Start, ListenFails, ListenInv, WaitInv, CutOffInv, DrainInv, listen
  <2> QED BY <2>2, <2>3, <2>4, <2>5
<1>2. CASE StartAccept
  <2>1. ProgramOK' /\ SignalInv' /\ DrainInv'
    BY <1>2 DEF StartAccept, SignalInv, DrainInv
  <2>2. ListenInv'
    BY <1>2 DEF StartAccept, accept, try_doing_accept, ListenIsReady, ListenInv
  <2>3. WaitInv' /\ CutOffInv'
    BY <1>2 DEF StartAccept, accept, try_doing_accept, WaitInv, CutOffInv
  <2> QED BY <2>1, <2>2, <2>3
<1>3. CASE WaitForAccept
  <2>1. ProgramOK' /\ SignalInv' /\ DrainInv'
    BY <1>3 DEF WaitForAccept, wait_any, SignalInv, DrainInv
  <2>2. ListenInv' /\ WaitInv' /\ CutOffInv'
    BY <1>3 DEF WaitForAccept, wait_any, SignalInv, ListenInv, WaitInv, CutOffInv
  <2> QED BY <2>1, <2>2
<1>4. CASE Interrupted \/ AcceptFailed \/ MakePipeFails
  <2>1. ProgramOK'
    BY <1>4 DEF Interrupted, AcceptFailed, MakePipeFails
  <2>2. SignalInv'
    BY <1>4 DEF Interrupted, AcceptFailed, MakePipeFails, SignalInv
  <2>3. DrainInv'
    <3>1. i = 1 /\ 1..(i - 1) = {}
      BY <1>4 DEF Interrupted, AcceptFailed, MakePipeFails, DrainInv
    <3>2. CASE Interrupted \/ AcceptFailed
      BY <3>1, <3>2 DEF Interrupted, AcceptFailed, DrainInv
    <3>3. CASE MakePipeFails
      BY <3>1, <3>3 DEF MakePipeFails, DrainInv
    <3> QED BY <1>4, <3>2, <3>3
  <2>4. ListenInv' /\ WaitInv' /\ CutOffInv'
    BY <1>4 DEF Interrupted, AcceptFailed, MakePipeFails, cancel_and_destroy,
                ListenInv, WaitInv, CutOffInv
  <2> QED BY <2>1, <2>2, <2>3, <2>4
<1>5. CASE StartSession
  <2>1. ProgramOK' /\ SignalInv' /\ DrainInv'
    BY <1>5 DEF StartSession, SignalInv, DrainInv, ListenInv
  <2>2. ListenInv' /\ WaitInv' /\ CutOffInv'
    BY <1>5 DEF StartSession, take_value, ListenInv, WaitInv, CutOffInv
  <2> QED BY <2>1, <2>2
<1>6. CASE wait_for_all_to_complete
  <2>1. ProgramOK' /\ DrainInv'
    BY <1>6 DEF wait_for_all_to_complete, DrainInv
  <2>2. SignalInv' /\ ListenInv' /\ WaitInv' /\ CutOffInv'
    BY <1>6 DEF wait_for_all_to_complete, SignalInv, ListenInv, WaitInv, CutOffInv
  <2> QED BY <2>1, <2>2
<1>7. CASE Finally \/ CloseSignalFd
  <2>1. ProgramOK'
    BY <1>7 DEF Finally, CloseSignalFd
  <2>2. DrainInv'
    BY <1>7 DEF Finally, CloseSignalFd, DrainInv
  <2>4. SignalInv'
    BY <1>7 DEF Finally, CloseSignalFd, interrupt_cancel, signal_close, SignalInv
  <2>3. ListenInv' /\ WaitInv' /\ CutOffInv'
    BY <1>7 DEF Finally, CloseSignalFd, interrupt_cancel, signal_close,
                ListenInv, WaitInv, CutOffInv
  <2> QED BY <2>1, <2>2, <2>3, <2>4
<1> QED BY <1>1, <1>2, <1>3, <1>4, <1>5, <1>6, <1>7 DEF UserCode

LEMMA LoopCodeStep ==
  ASSUME IInv, LoopStep
  PROVE  ProgramOK' /\ StateInv'
<1> USE MaxConnectionsAssumption
    DEF IInv, TypeOK, SignalTypeOK, ListenTypeOK, ProgramOK, StateInv, Code, Waits, Ends,
        Dispatch, signalVars, listenVars, waitVars
<1>1. CASE EpollWait
  <2>1. /\ UNCHANGED <<waitVars, futs, pending, i>>
        /\ signal_polled /\ listen_polled
    BY <1>1 DEF EpollWait
  <2>2. ProgramOK' /\ DrainInv' /\ SignalInv'
    BY <2>1 DEF signal_polled, DrainInv, SignalInv
  <2>3. ListenInv' /\ WaitInv' /\ CutOffInv'
    BY <2>1 DEF signal_polled, listen_polled, ListenInv, WaitInv, CutOffInv
  <2> QED BY <2>2, <2>3
<1>2. CASE SignalUpdate
  <2>1. /\ signal_reading' <=> interrupt' = "pending"
        /\ interrupt' = interrupt \/ (interrupt = "pending" /\ interrupt' = "ready")
        /\ signal_open' = signal_open
    BY <1>2 DEF SignalUpdate, signal_on_update, try_doing_read_signal, SignalInv
  <2>2. ProgramOK' /\ DrainInv'
    BY <1>2 DEF SignalUpdate, completed, notify_complete, WaitInv, DrainInv
  <2>3. SignalInv'
    BY <1>2, <2>1 DEF SignalUpdate, completed, notify_complete, WaitInv, SignalInv
  <2>4. ListenInv' /\ WaitInv' /\ CutOffInv'
    BY <1>2, <2>1 DEF SignalUpdate, completed, notify_complete, ListenInv, WaitInv, CutOffInv
  <2> QED BY <2>2, <2>3, <2>4
<1>3. CASE ListenUpdate
  <2>1. at = "waiting" /\ accepting
    BY <1>3 DEF ListenUpdate, ListenInv, WaitInv
  <2>2. ProgramOK' /\ DrainInv' /\ SignalInv'
    BY <1>3, <2>1 DEF ListenUpdate, completed, notify_complete, WaitInv, DrainInv, SignalInv
  <2>3. /\ UNCHANGED <<signalVars, futs, pending, i>>
        /\ listen_open /\ listen_open' /\ signal_open
        /\ accepting' <=> accept_value' = "none"
        /\ futs <= accepted' /\ (accept_value' = "fd" => futs < accepted')
    <3>1. /\ UNCHANGED <<signalVars, futs, pending, i>>
          /\ listen_open /\ listen_open' /\ signal_open /\ accept_value = "none"
      BY <1>3, <2>1 DEF ListenUpdate, listen_on_update, SignalInv, ListenInv
    <3>2. CASE try_doing_accept
      BY <3>1, <3>2 DEF try_doing_accept, ListenInv
    <3>3. CASE UNCHANGED <<accepting, accept_value, accepted>>
      BY <2>1, <3>1, <3>3 DEF ListenInv
    <3> QED BY <1>3, <3>1, <3>2, <3>3 DEF ListenUpdate, listen_on_update
  <2>4. accept_value' # "none" => at' = "got_accept" /\ nodes' = {} /\ index' = 1
    BY <1>3, <2>1 DEF ListenUpdate, completed, notify_complete, WaitInv
  <2>5. accept_value' = "none" => UNCHANGED waitVars
    BY <1>3 DEF ListenUpdate
  <2>6. ListenInv'
    BY <2>1, <2>3, <2>4, <2>5 DEF ListenInv
  <2>7. WaitInv'
    BY <2>1, <2>3, <2>4, <2>5 DEF WaitInv
  <2>8. CutOffInv'
    BY <2>1, <2>3, <2>4, <2>5 DEF WaitInv, CutOffInv
  <2> QED BY <2>2, <2>6, <2>7, <2>8
<1>4. ASSUME NEW s \in Connections, SessionUpdate(s) PROVE ProgramOK' /\ StateInv'
  <2>1. /\ UNCHANGED <<signalVars, listenVars, futs, chained, nodes, index>>
        /\ at \in Waits
        /\ \/ at = "draining" /\ s = i /\ pending' = pending \ {s} /\ i' = i + 1 /\ at' = "drain"
           \/ /\ pending' \in {pending, pending \ {s}}
              /\ at = "draining" /\ s = i => pending' = pending
              /\ UNCHANGED <<at, i>>
    BY <1>4 DEF SessionUpdate, SessionEnds, waitVars
  <2>2. CASE UNCHANGED <<at, i>>
    <3>1. pending' \subseteq pending /\ (at = "draining" => i \in pending')
      BY <2>1, <2>2 DEF DrainInv
    <3>2. ProgramOK' /\ SignalInv' /\ ListenInv' /\ WaitInv' /\ CutOffInv'
      BY <2>1, <2>2, <3>1 DEF SignalInv, ListenInv, WaitInv, CutOffInv
    <3>3. DrainInv'
      BY <2>1, <2>2, <3>1 DEF DrainInv
    <3> QED BY <3>2, <3>3
  <2>3. CASE at = "draining" /\ s = i /\ pending' = pending \ {s} /\ i' = i + 1 /\ at' = "drain"
    <3>1. i \in 1..futs /\ i \in Nat /\ pending \cap 1..(i - 1) = {} /\ futs \in Nat
      BY <2>3 DEF DrainInv
    <3>2. ProgramOK'
      BY <2>1, <2>3, <3>1
    <3>3. SignalInv' /\ ListenInv' /\ WaitInv' /\ CutOffInv'
      BY <2>1, <2>3 DEF SignalInv, ListenInv, WaitInv, CutOffInv
    <3>4. pending' \cap 1..(i' - 1) = {}
      BY <2>3, <3>1
    <3>5. DrainInv'
      BY <2>3, <3>4 DEF DrainInv
    <3> QED BY <3>2, <3>3, <3>5
  <2> QED BY <2>1, <2>2, <2>3
<1>5. CASE UpdateOfDead \/ Stop
  <2>1. /\ at \in Waits /\ at # "waiting" /\ at' \in Ends /\ at' # "aborted"
        /\ at' \in {"stopped", "signalled"} => pending = {} /\ ~listen_open
        /\ UNCHANGED <<chained, nodes, index, signalVars, listenVars, futs, pending, i>>
    BY <1>5 DEF UpdateOfDead, Stop, SignalInv, ListenInv
  <2>2. ProgramOK' /\ DrainInv'
    BY <2>1 DEF DrainInv
  <2>3. SignalInv' /\ ListenInv'
    BY <2>1 DEF SignalInv, ListenInv
  <2>4. WaitInv' /\ CutOffInv'
    BY <2>1 DEF WaitInv, CutOffInv
  <2> QED BY <2>2, <2>3, <2>4
<1> QED BY <1>1, <1>2, <1>3, <1>4, <1>5 DEF LoopStep

LEMMA OutsideStep ==
  ASSUME IInv, Connect \/ Kill \/ UNCHANGED vars
  PROVE  ProgramOK' /\ StateInv'
<1> USE MaxConnectionsAssumption
    DEF IInv, TypeOK, SignalTypeOK, ListenTypeOK, ProgramOK, StateInv,
        signalVars, listenVars, waitVars
<1>1. ProgramOK' /\ DrainInv'
  BY DEF Connect, Kill, vars, DrainInv
<1>2. SignalInv'
  BY DEF Connect, Kill, Raise, vars, SignalInv
<1>3. ListenInv' /\ WaitInv' /\ CutOffInv'
  BY DEF Connect, Kill, Arrive, Raise, vars, ListenInv, WaitInv, CutOffInv
<1> QED BY <1>1, <1>2, <1>3

LEMMA Inductive == IInv /\ [Next]_vars => IInv'
<1> SUFFICES ASSUME IInv, [Next]_vars PROVE IInv'
  OBVIOUS
<1>1. ProgramOK' /\ StateInv'
  BY UserCodeStep, LoopCodeStep, OutsideStep DEF Next, Thread, Finished
<1> QED
  BY <1>1, StepSignalType, StepListenType, StepBatch
     DEF IInv, TypeOK, ProgramOK, StateInv

LEMMA Invariance == Spec => []IInv
BY InitIInv, Inductive, PTL DEF Spec

\* Every variable keeps its type: a session is started for an accepted
\* connection, and wait_for_all_to_complete() never looks past the last one.
THEOREM TypeCorrect == Spec => []TypeOK
BY Invariance, IInvImplies, PTL

\* accept() and close() are called when nothing is under way, as they assert,
\* and no ListenSocket is destroyed with an active promise.
THEOREM AssertionsHold == Spec => []CallsMeetAssertions
BY Invariance, IInvImplies, PTL

\* A wait is for two futures that are pending, or for a session that is pending
\* while all before it have completed: the program cannot miss what it waits for.
THEOREM WaitsAreForPending == Spec => []NoCompletionMissed
BY Invariance, IInvImplies, PTL

\* However many sessions there are, and in whatever order they complete, none is
\* left when wait_for_all_to_complete() is done and the SignalFd is closed.
THEOREM SessionsAreWaitedFor == Spec => []SessionsEndFirst
BY Invariance, IInvImplies, PTL

\* An interrupt starts no session and closes a connection that was accepted only
\* when it was there before the first accept().
THEOREM InterruptIsFinal == Spec => InterruptCutsOff
<1>1. IInv /\ [Next]_vars =>
        [interrupt = "ready" => /\ futs' = futs
                                /\ accept_value = "fd" => futs = 0]_vars
  <2> SUFFICES ASSUME IInv, Next, interrupt = "ready" PROVE futs' = futs
    BY DEF IInv, CutOffInv
  <2>1. ~StartSession
    BY DEF StartSession, IInv, WaitInv, Going
  <2> QED
    BY <2>1 DEF Next, Thread, UserCode, LoopStep, Connect, Kill, Finished, vars, Start,
         ListenFails, StartAccept, WaitForAccept, Interrupted, AcceptFailed,
         MakePipeFails, wait_for_all_to_complete, Finally, CloseSignalFd,
         EpollWait, SignalUpdate, ListenUpdate, SessionUpdate, UpdateOfDead, Stop
<1> QED BY <1>1, Invariance, PTL DEF Spec, InterruptCutsOff
=============================================================================
