-------------------------------- MODULE Echo --------------------------------
(***************************************************************************)
(* main() of main.cpp in client mode, from the connected socket to the end *)
(* of the process: it echoes what it reads from one Pipe until the peer    *)
(* stops, an error, or a signal (echo_on_socket, echo_with_buf, write_all),*)
(* and then closes the Pipe and the SignalFd.                              *)
(*                                                                         *)
(* It composes a Pipe, a SignalFd and the waits for either, on one thread: *)
(* the code between two waits runs inside the update of the object that    *)
(* ended the wait, and the loop goes on with the rest of the events that   *)
(* epoll_wait returned together when that code waits again.                *)
(*                                                                         *)
(* Bytes are named by their position in what the peer sends.               *)
(***************************************************************************)
EXTENDS SignalFd, WaitAny, SequencesExt

CONSTANTS
  BufSize,      \* TOY_BUF_SIZE
  Capacity,     \* of the kernel's two buffers of the socket
  MaxSent       \* bound on what the peer sends

ASSUME BufSizeAssumption == BufSize \in Nat \ {0}
ASSUME CapacityAssumption == Capacity \in Nat \ {0}
ASSUME MaxSentAssumption == MaxSent \in Nat

VARIABLES
  buf,          \* Buf: the bytes of the last read
  bytes_written,     \* how much of it write_all has written
  nbytes,       \* the value of the last completed write
  echoed,       \* everything ::write took, in order
  result,       \* of echo_on_socket
  batch         \* the objects whose events the loop has still to dispatch

\* The Pipe.
VARIABLES
  pc, open, read_ready, write_ready, read_nbytes, write_nbytes, reading,
  writing, read_value, write_value, read_ended, write_failed,
  destruct_pointer, is_destructed, event, edge, in_buf, out_buf, in_sent,
  out_sent, in_eof, out_closed, killed

P == INSTANCE Pipe WITH Sizes <- 1..BufSize

pipeVars == <<pc, open, read_ready, write_ready, read_nbytes, write_nbytes, reading,
              writing, read_value, write_value, read_ended, write_failed,
              destruct_pointer, is_destructed, event, edge, in_buf, out_buf,
              in_sent, out_sent, in_eof, out_closed, killed>>
echoVars == <<buf, bytes_written, nbytes, echoed, result>>
vars == <<signalVars, waitVars, echoVars, batch, pipeVars>>

Waits == {"waiting", "ended"}
Ends == {"stopped", "signalled", "undefined"}
Code == {"start", "read", "wait_read", "got_read", "write", "wait_write",
         "got_write", "close", "finally", "close_signal"}

Init ==
  /\ SignalInit /\ P!Init
  /\ at = "start" /\ chained = "start" /\ nodes = {} /\ index = 0
  /\ buf = <<>> /\ bytes_written = 0 /\ nbytes = 0 /\ echoed = <<>>
  /\ result = "none" /\ batch = <<>>

Going(from, to) ==
  /\ ~killed /\ at = from /\ at' = to
  /\ UNCHANGED <<chained, nodes, index, batch>>

\* What ::read copied to buf, and what ::write took of it, in this step.
taken == in_sent - in_buf
Read == buf' = IF in_buf' < in_buf
                 THEN [i \in 1..(in_buf - in_buf') |-> taken + i] ELSE buf
Wrote ==
  LET n == out_sent' - out_sent
  IN /\ echoed' = echoed \o SubSeq(buf, bytes_written + 1, bytes_written + n)
     /\ nbytes' = IF n > 0 THEN n ELSE nbytes

-----------------------------------------------------------------------------
(* echo_on_socket, in the order in which it runs. *)

\* The loop runs the scheduled lambda of main(), and go() opens the connection.
Start ==
  /\ Going("start", "read")
  /\ get_interrupt_future
  /\ UNCHANGED <<echoVars, pipeVars>>

\* go() has no connection, and returns the error; the model has a Pipe already.
OpenFails ==
  /\ Going("start", "finally")
  /\ get_interrupt_future
  /\ P!close
  /\ result' = "failed"
  /\ UNCHANGED <<buf, bytes_written, nbytes, echoed>>

\* echo_with_buf: the read is started first, and then waited for.
StartRead ==
  /\ Going("read", "wait_read")
  /\ P!read(BufSize) /\ Read
  /\ UNCHANGED <<signalVars, bytes_written, nbytes, echoed, result>>

WaitForRead ==
  /\ ~killed /\ at = "wait_read"
  /\ wait_any(interrupt = "ready", read_value, "got_read")
  /\ UNCHANGED <<signalVars, echoVars, batch, pipeVars>>

\* read_fut.cancel(), whether or not it completed.
ReadInterrupted ==
  /\ index = 0
  /\ Going("got_read", "close")
  /\ P!CancelRead \/ P!ConsumeRead
  /\ result' = "failed"
  /\ UNCHANGED <<signalVars, buf, bytes_written, nbytes, echoed>>

\* Nothing was read: the end of file, or an error.
ReadEnded ==
  /\ index = 1 /\ read_ended
  /\ Going("got_read", "close")
  /\ P!ConsumeRead
  /\ result' \in {"complete", "failed"}
  /\ UNCHANGED <<signalVars, buf, bytes_written, nbytes, echoed>>

ReadBytes ==
  /\ index = 1 /\ ~read_ended
  /\ Going("got_read", "write")
  /\ P!ConsumeRead
  /\ bytes_written' = 0
  /\ UNCHANGED <<signalVars, buf, nbytes, echoed, result>>

\* write_all_helper: what is left of the buffer.
StartWrite ==
  /\ Going("write", "wait_write")
  /\ P!write(Len(buf) - bytes_written) /\ Wrote
  /\ UNCHANGED <<signalVars, buf, bytes_written, result>>

\* wait_interruptible.
WaitForWrite ==
  /\ ~killed /\ at = "wait_write"
  /\ wait_any(interrupt = "ready", write_value, "got_write")
  /\ UNCHANGED <<signalVars, echoVars, batch, pipeVars>>

WriteInterrupted ==
  /\ index = 0
  /\ Going("got_write", "close")
  /\ P!CancelWrite \/ P!ConsumeWrite
  /\ result' = "failed"
  /\ UNCHANGED <<signalVars, buf, bytes_written, nbytes, echoed>>

WriteFailed ==
  /\ index = 1 /\ write_failed
  /\ Going("got_write", "close")
  /\ P!ConsumeWrite
  /\ result' = "failed"
  /\ UNCHANGED <<signalVars, buf, bytes_written, nbytes, echoed>>

WroteAll ==
  /\ index = 1 /\ ~write_failed /\ bytes_written + nbytes = Len(buf)
  /\ Going("got_write", "read")
  /\ P!ConsumeWrite
  /\ UNCHANGED <<signalVars, echoVars>>

\* The same as below, taking a short write for all of it.
WroteSome_TakenForAll ==
  /\ index = 1 /\ ~write_failed /\ bytes_written + nbytes < Len(buf)
  /\ Going("got_write", "read")
  /\ P!ConsumeWrite
  /\ UNCHANGED <<signalVars, echoVars>>

WroteSome ==
  /\ index = 1 /\ ~write_failed /\ bytes_written + nbytes < Len(buf)
  /\ Going("got_write", "write")
  /\ P!ConsumeWrite
  /\ bytes_written' = bytes_written + nbytes
  /\ UNCHANGED <<signalVars, buf, nbytes, echoed, result>>

CloseSocket ==
  /\ Going("close", "finally")
  /\ P!close
  /\ UNCHANGED <<signalVars, echoVars>>

\* main()'s finally().
Finally ==
  /\ Going("finally", "close_signal")
  /\ interrupt_cancel
  /\ UNCHANGED <<echoVars, pipeVars>>

CloseSignalFd ==
  /\ Going("close_signal", "ended")
  /\ signal_close
  /\ UNCHANGED <<echoVars, pipeVars>>

UserCode ==
  \/ Start \/ OpenFails
  \/ StartRead \/ WaitForRead \/ ReadInterrupted \/ ReadEnded \/ ReadBytes
  \/ StartWrite \/ WaitForWrite \/ WriteInterrupted \/ WriteFailed \/ WroteAll
  \/ WroteSome \/ CloseSocket \/ Finally \/ CloseSignalFd

-----------------------------------------------------------------------------
(* Loop::full_step(), when the code that it called waits. *)

InLoop == ~killed /\ at \in Waits /\ pc = "outside"

\* One call returns the events of all objects that are ready, in some order.
EpollWait ==
  /\ InLoop /\ batch = <<>>
  /\ signal_edge \/ edge
  /\ IF edge THEN P!epoll_wait ELSE UNCHANGED pipeVars
  /\ signal_polled
  /\ batch' \in SetToSeqs({o \in {"signal", "socket"} :
                             IF o = "signal" THEN SignalIsReady
                                             ELSE event' # P!NoEvent})
  /\ UNCHANGED <<waitVars, echoVars>>

Dispatch(o) ==
  /\ InLoop /\ batch # <<>> /\ Head(batch) = o
  /\ batch' = Tail(batch)

\* Reading the signal completes the interrupt, and that ends the wait.
SignalUpdate ==
  /\ Dispatch("signal") /\ signal_open
  /\ signal_on_update
  /\ IF interrupt = "pending" /\ interrupt' = "ready"
       THEN completed(0) ELSE UNCHANGED waitVars
  /\ UNCHANGED <<echoVars, pipeVars>>

\* Pipe::on_update(), up to the callback of the read.
SocketUpdate ==
  /\ Dispatch("socket") /\ open
  /\ P!ReadHalf /\ Read
  /\ IF read_value' THEN completed(1) ELSE UNCHANGED waitVars
  /\ UNCHANGED <<signalVars, bytes_written, nbytes, echoed, result>>

Blocked == ~killed /\ at \in Waits

SocketReadCallbackReturns ==
  /\ Blocked /\ P!ReadCallbackReturns
  /\ UNCHANGED <<signalVars, waitVars, echoVars, batch>>

SocketWriteHalf ==
  /\ Blocked /\ P!WriteHalf /\ Wrote
  /\ IF write_value' THEN completed(1) ELSE UNCHANGED waitVars
  /\ UNCHANGED <<signalVars, buf, bytes_written, result, batch>>

SocketLeave ==
  /\ Blocked /\ P!Leave
  /\ UNCHANGED <<signalVars, waitVars, echoVars, batch>>

\* An event of an object that is gone: on_update() is called on freed memory.
UpdateOfDead ==
  /\ \/ Dispatch("signal") /\ ~signal_open
     \/ Dispatch("socket") /\ ~open
  /\ at' = "undefined"
  /\ UNCHANGED <<chained, nodes, index, signalVars, echoVars, pipeVars>>

\* has_stuff_to_do() is false: the loop is left, and ~SignalBlockGuard() lets
\* a pending signal kill the process.
Stop ==
  /\ InLoop /\ batch = <<>> /\ ~open /\ ~signal_open
  /\ at' = IF signals = {} THEN "stopped" ELSE "signalled"
  /\ UNCHANGED <<chained, nodes, index, batch, signalVars, echoVars, pipeVars>>

LoopStep ==
  \/ EpollWait \/ SignalUpdate \/ SocketUpdate \/ SocketReadCallbackReturns
  \/ SocketWriteHalf \/ SocketLeave \/ UpdateOfDead \/ Stop

-----------------------------------------------------------------------------
(* The peer and the kernel. *)

Dead == killed \/ at \in Ends

PeerReceives ==
  /\ ~Dead /\ P!PeerReceives
  /\ UNCHANGED <<signalVars, waitVars, echoVars, batch>>

Peer ==
  /\ ~Dead
  /\ P!PeerSends \/ P!PeerStopsSending \/ P!PeerCloses
  /\ UNCHANGED <<signalVars, waitVars, echoVars, batch>>

Kill ==
  /\ ~Dead
  /\ \E s \in Signals : Raise(s)
  /\ UNCHANGED <<waitVars, echoVars, batch, pipeVars>>

Finished == Dead /\ UNCHANGED vars

Thread == UserCode \/ LoopStep

Next == Thread \/ PeerReceives \/ Peer \/ Kill \/ Finished

\* The thread runs, and a peer that is not gone goes on receiving.
Fairness == WF_vars(Thread) /\ WF_vars(PeerReceives)

Spec == Init /\ [][Next]_vars /\ Fairness

-----------------------------------------------------------------------------
(* Properties. *)

TypeOK ==
  /\ SignalTypeOK /\ P!TypeOK
  /\ at \in Code \cup Waits \cup Ends
  /\ chained \in {"start", "got_read", "got_write"}
  /\ nodes \subseteq {0, 1} /\ index \in {0, 1}
  /\ Len(buf) <= BufSize /\ bytes_written \in 0..BufSize /\ nbytes \in 0..BufSize
  /\ result \in {"none", "complete", "failed"}

\* The assertions of the operations that the program is about to call hold:
\* nothing is under way or completed when a read, a write or close() starts.
CallsMeetAssertions ==
  /\ at = "read" => ~reading /\ ~read_value /\ ~read_ended
  /\ at = "write" => ~writing /\ ~write_value /\ Len(buf) > bytes_written
  /\ at \in {"read", "write", "close"} => open
  /\ at = "close" => ~reading /\ ~writing
  /\ at = "close_signal" => ~signal_reading /\ signal_open

\* A wait_any_state exists exactly while the program waits, with both nodes;
\* its two futures are both pending then, so neither completion was missed, and
\* none is left in the list of a promise that outlives it.
NoCompletionMissed ==
  /\ nodes # {} <=> at = "waiting"
  /\ at = "waiting" =>
       /\ nodes = {0, 1} /\ interrupt = "pending"
       /\ IF chained = "got_read" THEN reading /\ ~read_value
                                  ELSE writing /\ ~write_value

\* An interrupt throws away bytes that were read and not echoed in two cases
\* only: it arrived before the first read, which completed at once; or it
\* cancels a write that waits, and loses what that write had still to give.
\* A read that completed during a wait is never thrown away.
InterruptLosesOnlyUnwritten ==
  index = 0 /\ at \in {"got_read", "got_write"} /\ taken > Len(echoed) =>
    \/ at = "got_read" /\ echoed = <<>>
    \/ at = "got_write" /\ writing /\ taken - Len(echoed) = write_nbytes

ES == INSTANCE EchoService
        WITH sent <- in_sent, over <- in_eof, given <- echoed,
             status <- IF result = "none" THEN "running" ELSE result

\* Every byte comes back once, in order, whatever the sizes of reads and writes.
ImplementsEchoService == ES!Spec

\* A signal ends the program, whatever the peer does with MaxSent bytes.
InterruptEndsProgram == signals # {} ~> Dead

\* While the peer receives, what it sends comes back, or the program ends.
EveryByteEchoed ==
  \A n \in 1..MaxSent : in_sent >= n ~> Len(echoed) >= n \/ Dead

\* The loop calls on_update() only on objects that exist.
UpdatesReachLiveObjects == at # "undefined"
=============================================================================
