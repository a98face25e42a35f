----------------------------- MODULE AcceptLoop -----------------------------
(***************************************************************************)
(* main() of main.cpp in listen mode, from the listening socket to the end *)
(* of the process: accept_loop() starts a session per connection until a   *)
(* signal or an error, wait_for_all_to_complete() waits for the sessions,  *)
(* one after the other, and then the SignalFd is closed.                   *)
(*                                                                         *)
(* A session is echo_on_socket() with an interruptor of its own, which     *)
(* nothing completes (module Echo has what it does); here it is a future   *)
(* that completes at once or in an update of its Pipe, or never.           *)
(*                                                                         *)
(* As in Echo, the code between two waits runs inside the update of the    *)
(* object that ended the wait.                                             *)
(***************************************************************************)
EXTENDS SignalFd, WaitAny, ListenSocket, SequencesExt

VARIABLES
  futs,       \* AcceptLoopState::futs: the sessions 1..futs, by connection
  pending,    \* the sessions that have not completed
  i,          \* WaitCompleteState::i, counted from 1
  batch       \* the objects whose events the loop has still to dispatch

vars == <<signalVars, waitVars, listenVars, futs, pending, i, batch>>

Connections == 1..MaxConnections
Waits == {"waiting", "draining", "ended"}
Ends == {"stopped", "signalled", "undefined", "aborted"}
Code == {"start", "accept", "wait_accept", "got_accept", "drain", "finally",
         "close_signal"}
Dead == at \in Ends

Init ==
  /\ SignalInit /\ ListenInit
  /\ at = "start" /\ chained = "start" /\ nodes = {} /\ index = 0
  /\ futs = 0 /\ pending = {} /\ i = 1 /\ batch = <<>>

Going(from, to) ==
  /\ at = from /\ at' = to
  /\ UNCHANGED <<chained, nodes, index, batch>>

-----------------------------------------------------------------------------
(* accept_loop and wait_for_all_to_complete. *)

\* go_with_listen_socket().
Start ==
  /\ Going("start", "accept")
  /\ get_interrupt_future /\ listen
  /\ UNCHANGED <<futs, pending, i>>

\* open_listen_socket_helper() fails.
ListenFails ==
  /\ Going("start", "finally")
  /\ get_interrupt_future
  /\ UNCHANGED <<listenVars, futs, pending, i>>

StartAccept ==
  /\ Going("accept", "wait_accept")
  /\ accept
  /\ UNCHANGED <<signalVars, futs, pending, i>>

WaitForAccept ==
  /\ at = "wait_accept"
  /\ wait_any(interrupt = "ready", accept_value # "none", "got_accept")
  /\ UNCHANGED <<signalVars, listenVars, futs, pending, i, batch>>

\* The closure of accept_loop() owns the ListenSocket, and takes it along when
\* it returns the future of wait_for_all_to_complete().
Interrupted ==
  /\ index = 0
  /\ Going("got_accept", "drain")
  /\ cancel_and_destroy
  /\ UNCHANGED <<signalVars, futs, pending, i>>

AcceptFailed ==
  /\ index = 1 /\ accept_value = "error"
  /\ Going("got_accept", "drain")
  /\ cancel_and_destroy
  /\ UNCHANGED <<signalVars, futs, pending, i>>

\* make_pipe_from_sockfd() fails: the closure returns the error, and takes the
\* AcceptLoopState along too, which asserts that no session is pending.
MakePipeFails ==
  /\ index = 1 /\ accept_value = "fd"
  /\ Going("got_accept", IF pending = {} THEN "finally" ELSE "aborted")
  /\ cancel_and_destroy
  /\ UNCHANGED <<signalVars, futs, pending, i>>

\* A session that completes at once is kept like the others.
StartSession ==
  /\ index = 1 /\ accept_value = "fd"
  /\ Going("got_accept", "accept")
  /\ take_value
  /\ futs' = futs + 1
  /\ pending' \in {pending, pending \cup {futs'}}
  /\ UNCHANGED <<signalVars, i>>

\* The same as below, for all but the last session.
wait_for_all_to_complete_AllButLast ==
  /\ Going("drain", CASE i >= futs -> "finally"
                      [] i < futs /\ i \in pending -> "draining"
                      [] OTHER -> "drain")
  /\ i' = IF at' = "drain" THEN i + 1 ELSE i
  /\ UNCHANGED <<signalVars, listenVars, futs, pending>>

\* The rest is chained to session i when that is pending.
wait_for_all_to_complete ==
  /\ Going("drain", CASE i > futs -> "finally"
                      [] i <= futs /\ i \in pending -> "draining"
                      [] OTHER -> "drain")
  /\ i' = IF at' = "drain" THEN i + 1 ELSE i
  /\ UNCHANGED <<signalVars, listenVars, futs, pending>>

\* main()'s finally().
Finally ==
  /\ Going("finally", "close_signal")
  /\ interrupt_cancel
  /\ UNCHANGED <<listenVars, futs, pending, i>>

CloseSignalFd ==
  /\ Going("close_signal", "ended")
  /\ signal_close
  /\ UNCHANGED <<listenVars, futs, pending, i>>

UserCode ==
  \/ Start \/ ListenFails \/ StartAccept \/ WaitForAccept \/ Interrupted \/ AcceptFailed
  \/ MakePipeFails \/ StartSession \/ wait_for_all_to_complete \/ Finally
  \/ CloseSignalFd

-----------------------------------------------------------------------------
(* Loop::full_step(), when the code that it called waits. *)

Event == {"signal", "listen"} \X {0} \cup {"session"} \X Connections

\* One call returns the events of all objects that are ready, in some order;
\* whether the socket of a session is ready is left to its peer.
EpollWait ==
  /\ at \in Waits /\ batch = <<>>
  /\ \E S \in SUBSET pending :
       batch' \in SetToSeqs({e \in Event :
                               CASE e[1] = "signal"  -> SignalIsReady
                                 [] e[1] = "listen"  -> listen_edge /\ ListenIsReady
                                 [] e[1] = "session" -> e[2] \in S})
  /\ batch' # <<>> \/ signal_edge \/ listen_edge
  /\ signal_polled /\ listen_polled
  /\ UNCHANGED <<waitVars, futs, pending, i>>

Dispatch(e) ==
  /\ at \in Waits /\ batch # <<>> /\ Head(batch) = e
  /\ batch' = Tail(batch)

SignalUpdate ==
  /\ Dispatch(<<"signal", 0>>) /\ signal_open
  /\ signal_on_update
  /\ IF interrupt = "pending" /\ interrupt' = "ready"
       THEN completed(0) ELSE UNCHANGED waitVars
  /\ UNCHANGED <<listenVars, futs, pending, i>>

ListenUpdate ==
  /\ Dispatch(<<"listen", 0>>) /\ listen_open
  /\ listen_on_update
  /\ IF accept_value' # "none" THEN completed(1) ELSE UNCHANGED waitVars
  /\ UNCHANGED <<signalVars, futs, pending, i>>

\* Its future completes, and wait_for_all_to_complete() goes on when it was
\* waiting for this one.
SessionEnds(s) ==
  /\ pending' = pending \ {s}
  /\ IF at = "draining" /\ s = i
       THEN i' = i + 1 /\ at' = "drain" /\ UNCHANGED <<chained, nodes, index>>
       ELSE UNCHANGED <<waitVars, i>>

SessionUpdate(s) ==
  /\ Dispatch(<<"session", s>>)
  /\ SessionEnds(s) \/ UNCHANGED <<pending, waitVars, i>>
  /\ UNCHANGED <<signalVars, listenVars, futs>>

\* An event of an object that is gone: on_update() is called on freed memory.
UpdateOfDead ==
  /\ \/ Dispatch(<<"signal", 0>>) /\ ~signal_open
     \/ Dispatch(<<"listen", 0>>) /\ ~listen_open
  /\ at' = "undefined"
  /\ UNCHANGED <<chained, nodes, index, signalVars, listenVars, futs, pending, i>>

\* has_stuff_to_do() is false: the loop is left, and ~SignalBlockGuard() lets
\* a pending signal kill the process.
Stop ==
  /\ at \in Waits /\ batch = <<>> /\ ~signal_open /\ ~listen_open /\ pending = {}
  /\ at' = IF signals = {} THEN "stopped" ELSE "signalled"
  /\ UNCHANGED <<chained, nodes, index, batch, signalVars, listenVars, futs, pending, i>>

LoopStep ==
  \/ EpollWait \/ SignalUpdate \/ ListenUpdate
  \/ \E s \in Connections : SessionUpdate(s)
  \/ UpdateOfDead \/ Stop

-----------------------------------------------------------------------------
Connect ==
  /\ ~Dead /\ Arrive
  /\ UNCHANGED <<signalVars, waitVars, futs, pending, i, batch>>

Kill ==
  /\ ~Dead /\ \E s \in Signals : Raise(s)
  /\ UNCHANGED <<waitVars, listenVars, futs, pending, i, batch>>

Finished == Dead /\ UNCHANGED vars

Thread == UserCode \/ LoopStep

Next == Thread \/ Connect \/ Kill \/ Finished

\* The thread runs; nobody has to connect, and no session has to end.
Spec == Init /\ [][Next]_vars /\ WF_vars(Thread)

-----------------------------------------------------------------------------
(* Properties. *)

TypeOK ==
  /\ SignalTypeOK /\ ListenTypeOK
  /\ at \in Code \cup Waits \cup Ends
  /\ chained \in {"start", "got_accept"}
  /\ nodes \subseteq {0, 1} /\ index \in {0, 1}
  /\ futs \in 0..MaxConnections /\ pending \subseteq 1..futs
  /\ i \in 1..(futs + 1)
  /\ batch \in Seq(Event)

\* The assertions of the operations that the program is about to call hold, and
\* no promise is destroyed while it is active.
CallsMeetAssertions ==
  /\ at = "accept" => listen_open /\ ~accepting /\ accept_value = "none"
  /\ ~listen_open => ~accepting
  /\ at = "close_signal" => ~signal_reading /\ signal_open

\* The program waits for two futures that are both pending and notify it, or
\* for a session that is pending, and has seen the earlier ones complete.
NoCompletionMissed ==
  /\ nodes # {} <=> at = "waiting"
  /\ at = "waiting" => nodes = {0, 1} /\ interrupt = "pending" /\ accepting
  /\ at = "draining" => i \in pending /\ pending \cap 1..(i - 1) = {}

\* The SignalFd is closed and the program ends only when every session that it
\* started has completed.
SessionsEndFirst ==
  at \in {"finally", "close_signal", "ended", "stopped", "signalled"} => pending = {}

\* After an interrupt no session starts, and a connection that was accepted is
\* closed only when the interrupt arrived before the first accept(); later it
\* finds none that has no session.
InterruptCutsOff ==
  [][interrupt = "ready" => /\ futs' = futs
                            /\ accept_value = "fd" => futs = 0]_vars

\* As long as the program listens, connections are taken.
ConnectionsAreTaken ==
  \A c \in Connections : arrived >= c ~> accepted >= c \/ ~listen_open

\* When the sessions end, a signal ends the program.
DrainEndsProgram ==
  (\A s \in Connections : s \in pending ~> s \notin pending)
    => (signals # {} ~> Dead)

\* ~AcceptLoopState() asserts that no session is pending.
NoSessionIsDestroyed == at # "aborted"
=============================================================================
