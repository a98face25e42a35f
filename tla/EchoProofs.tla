----------------------------- MODULE EchoProofs -----------------------------
(***************************************************************************)
(* Proofs about Echo, for any sizes of the buffers, any peer and any       *)
(* signals.  What a Pipe keeps by itself is taken from PipeProofs.         *)
(***************************************************************************)
EXTENDS Echo, SequenceTheorems, TLAPS

PP == INSTANCE PipeProofs WITH Sizes <- 1..BufSize

\* From the start of a read to the use of its result, and the same for a write.
ReadPhase ==
  at \in {"read", "wait_read", "got_read"} \/ (at = "waiting" /\ chained = "got_read")
WritePhase ==
  at \in {"write", "wait_write", "got_write"} \/ (at = "waiting" /\ chained = "got_write")

ProgramOK ==
  /\ at \in Code \cup Waits \cup Ends
  /\ chained \in {"start", "got_read", "got_write"}
  /\ nodes \subseteq {0, 1} /\ index \in {0, 1}
  /\ result \in {"none", "complete", "failed"}

\* The SignalFd and the interrupt, by the code that runs next.
SignalInv ==
  /\ signal_reading <=> interrupt = "pending"
  /\ at = "start" => ~signal_reading
  /\ at \notin {"ended", "stopped", "signalled", "undefined"} => signal_open
  /\ ReadPhase \/ WritePhase => interrupt # "none"
  /\ at = "close_signal" => ~signal_reading

\* The waits: an interrupt is ready before the first read, or has ended a wait.
WaitInv ==
  /\ nodes # {} <=> at = "waiting"
  /\ at = "waiting" => /\ nodes = {0, 1} /\ interrupt = "pending"
                       /\ chained \in {"got_read", "got_write"}
  /\ at \in {"write", "wait_write"} => interrupt = "pending"
  /\ at \in {"got_read", "got_write"} /\ index = 1 => interrupt = "pending"
  /\ at = "start" => echoed = <<>>
  /\ at \in {"read", "wait_read"} /\ interrupt = "ready" => echoed = <<>>
  /\ at = "got_read" /\ index = 0 /\ read_value => echoed = <<>>
  /\ at = "got_write" /\ index = 0 => writing

\* The use of the Pipe: one operation at a time, and each is either under way or
\* has a value.
UseInv ==
  /\ at = "start" \/ ReadPhase \/ WritePhase \/ at = "close" => open
  /\ at \in {"finally", "close_signal", "ended", "stopped", "signalled"} => ~open
  /\ at = "start" \/ WritePhase => ~reading /\ ~read_value /\ ~read_ended
  /\ at = "start" \/ ReadPhase => ~writing /\ ~write_value /\ ~write_failed
  /\ at = "read" => ~reading /\ ~read_value
  /\ at \in {"wait_read", "got_read"} => (reading <=> ~read_value)
  /\ at = "got_read" /\ index = 1 => read_value
  /\ ReadPhase /\ read_ended => read_value /\ in_eof /\ in_buf = 0
  /\ at = "write" => ~writing /\ ~write_value
  /\ at \in {"wait_write", "got_write"} => (writing <=> ~write_value)
  /\ at = "got_write" /\ index = 1 => write_value
  /\ WritePhase /\ write_failed => write_value
  /\ at = "waiting" => IF chained = "got_read" THEN reading /\ ~read_value
                                               ELSE writing /\ ~write_value
  /\ at = "close" => ~reading /\ ~writing
  /\ at = "start" \/ ReadPhase \/ WritePhase => result = "none"

\* What ::write took last, until it is added to bytes_written.
fresh == IF write_value /\ ~write_failed THEN nbytes ELSE 0

\* The bytes: what was echoed is what was read, but for what is left of buf.
BytesInv ==
  /\ buf \in Seq(Int) /\ Len(buf) <= BufSize
  /\ bytes_written \in 0..BufSize /\ nbytes \in 0..BufSize
  /\ echoed \in Seq(Int) /\ \A i \in 1..Len(echoed) : echoed[i] = i
  /\ at = "start" \/ (ReadPhase /\ (read_value => read_ended)) => Len(echoed) = taken
  /\ ReadPhase /\ read_value /\ ~read_ended =>
       Len(buf) >= 1 /\ taken = Len(echoed) + Len(buf)
  /\ WritePhase =>
       /\ bytes_written + fresh <= Len(buf) /\ bytes_written < Len(buf)
       /\ taken = Len(echoed) + Len(buf) - bytes_written - fresh
       /\ writing => write_nbytes = Len(buf) - bytes_written
       /\ write_value /\ ~write_failed => nbytes >= 1
  /\ WritePhase \/ (ReadPhase /\ read_value /\ ~read_ended) =>
       \A i \in 1..Len(buf) : buf[i] = taken - Len(buf) + i

IInv ==
  PP!IInv /\ SignalTypeOK /\ ProgramOK /\ SignalInv /\ WaitInv /\ UseInv /\ BytesInv

-----------------------------------------------------------------------------
(* What the operations of a Pipe do to what Echo sees of it. *)

USE BufSizeAssumption, CapacityAssumption, MaxSentAssumption

\* TRUE and FALSE are the Booleans.
LEMMA Truth == \A x : (x = TRUE \/ x = FALSE) => x \in BOOLEAN
BY Zenon

\* The steps of this Pipe are those that PipeProofs speaks about.
LEMMA PipeInit == P!Init => PP!IInv
<1>1. P!Init => PP!Init
  BY DEF P!Init, PP!Init, P!NoEvent, PP!NoEvent
<1> QED BY <1>1, PP!InitIInv

LEMMA PipeInductive == PP!IInv /\ [P!Next]_pipeVars => PP!IInv'
<1>1. P!Next => PP!Next
  <2>1. ASSUME NEW n \in 1..BufSize, P!read(n) \/ P!write(n) PROVE PP!read(n) \/ PP!write(n)
    BY <2>1 DEF P!read, PP!read, P!write, PP!write, P!try_doing_read, PP!try_doing_read,
         P!try_doing_write, PP!try_doing_write, P!Readable, PP!Readable, P!Least, PP!Least,
         P!InUserCode, PP!InUserCode, P!readVars, PP!readVars, P!writeVars, PP!writeVars,
         P!updateVars, PP!updateVars, P!inVars, PP!inVars, P!outVars, PP!outVars
  <2>2. ASSUME P!ConsumeRead \/ P!ConsumeWrite \/ P!CancelRead \/ P!CancelWrite \/ P!close
        PROVE  PP!ConsumeRead \/ PP!ConsumeWrite \/ PP!CancelRead \/ PP!CancelWrite \/ PP!close
    BY <2>2 DEF P!ConsumeRead, PP!ConsumeRead, P!ConsumeWrite, PP!ConsumeWrite, P!CancelRead,
         PP!CancelRead, P!CancelWrite, PP!CancelWrite, P!close, PP!close, P!NoEvent, PP!NoEvent,
         P!InUserCode, PP!InUserCode, P!readVars, PP!readVars, P!writeVars, PP!writeVars,
         P!updateVars, PP!updateVars, P!inVars, PP!inVars, P!outVars, PP!outVars
  <2>3. ASSUME P!LoopStep PROVE PP!LoopStep
    BY <2>3 DEF P!LoopStep, PP!LoopStep, P!epoll_wait, PP!epoll_wait, P!ReadHalf, PP!ReadHalf,
         P!ReadCallbackReturns, PP!ReadCallbackReturns, P!WriteHalf, PP!WriteHalf, P!Leave,
         PP!Leave, P!try_doing_read, PP!try_doing_read, P!try_doing_write, PP!try_doing_write,
         P!Readable, PP!Readable, P!Least, PP!Least, P!NoEvent, PP!NoEvent,
         P!readVars, PP!readVars, P!writeVars, PP!writeVars,
         P!updateVars, PP!updateVars, P!inVars, PP!inVars, P!outVars, PP!outVars
  <2>4. ASSUME P!PeerSends \/ P!PeerReceives \/ P!PeerStopsSending \/ P!PeerCloses \/ P!Finished
        PROVE  PP!PeerSends \/ PP!PeerReceives \/ PP!PeerStopsSending \/ PP!PeerCloses
                 \/ PP!Finished
    BY <2>4 DEF P!PeerSends, PP!PeerSends, P!PeerReceives, PP!PeerReceives, P!PeerStopsSending,
         PP!PeerStopsSending, P!PeerCloses, PP!PeerCloses, P!Finished, PP!Finished, P!vars,
         PP!vars, P!readVars, PP!readVars, P!writeVars, PP!writeVars,
         P!updateVars, PP!updateVars, P!inVars, PP!inVars, P!outVars, PP!outVars
  <2> QED BY <2>1, <2>2, <2>3, <2>4 DEF P!Next, PP!Next
<1>2. UNCHANGED pipeVars => UNCHANGED PP!vars
  BY DEF pipeVars, PP!vars, PP!readVars, PP!writeVars, PP!updateVars, PP!inVars, PP!outVars
<1> QED BY <1>1, <1>2, PP!Inductive

\* Of the Pipe's invariant, what is needed here.
PipeOK ==
  /\ in_buf \in 0..Capacity /\ in_sent \in 0..MaxSent
  /\ out_buf \in 0..Capacity /\ out_sent \in 0..MaxSent
  /\ reading => read_nbytes \in 1..BufSize
  /\ writing => write_nbytes \in 1..BufSize
  /\ pc = "write_half" /\ ~is_destructed => open
  /\ pc \in P!Locations

LEMMA PipeGives == PP!IInv => PipeOK
BY DEF PP!IInv, PP!TypeOK, PP!CountsOK, PP!BufferWhileActive, PP!UpdateInv, PipeOK,
       P!Locations, PP!Locations

\* ::read completes with some bytes, or at the end of file, or it waits.
ReadEffect(n) ==
  /\ UNCHANGED <<in_sent, in_eof>>
  /\ \/ /\ ~reading' /\ read_value'
        /\ \E m \in 0..n : /\ m <= in_buf /\ in_buf' = in_buf - m
                           /\ read_ended' <=> m = 0
        /\ read_ended' => in_eof /\ in_buf = 0
     \/ /\ reading' /\ in_buf' = in_buf
        /\ read_value' = read_value /\ read_ended' = read_ended

LEMMA TryRead ==
  ASSUME PipeOK, NEW n \in 1..BufSize, P!try_doing_read(n)
  PROVE  ReadEffect(n)
<1>1. n \in Nat \ {0} /\ in_buf \in 0..Capacity
  BY DEF PipeOK
<1>2. CASE P!Readable
  <2> DEFINE res == P!Least(n, in_buf)
  <2>1. res \in 0..in_buf /\ res <= n /\ (res = 0 => in_buf = 0)
    BY <1>1 DEF P!Least
  <2>2. /\ in_buf' = in_buf - res /\ reading' = FALSE /\ read_value' = TRUE
        /\ read_ended' <=> res = 0
        /\ UNCHANGED <<in_sent, in_eof>>
    BY <1>2, Zenon DEF P!try_doing_read
  <2> HIDE DEF res
  <2>3. res \in 0..n /\ res <= in_buf
    BY <1>1, <2>1
  <2>4. res = 0 => in_eof /\ in_buf = 0
    BY <1>1, <1>2, <2>1 DEF P!Readable
  <2> QED BY <2>2, <2>3, <2>4, Zenon DEF ReadEffect
<1>3. CASE ~P!Readable
  BY <1>3 DEF P!try_doing_read, ReadEffect
<1> QED BY <1>2, <1>3

\* ::write takes some bytes, or fails, or it waits.
WriteEffect(n) ==
  \/ writing' /\ write_nbytes' = n /\ ~write_value' /\ ~write_failed' /\ out_sent' = out_sent
  \/ ~writing' /\ write_value' /\ write_failed' /\ out_sent' = out_sent
  \/ ~writing' /\ write_value' /\ ~write_failed' /\ \E m \in 1..n : out_sent' = out_sent + m

LEMMA TryWrite ==
  ASSUME PipeOK, NEW n \in 1..BufSize, P!try_doing_write(n), ~write_failed
  PROVE  WriteEffect(n)
<1>1. n \in Nat \ {0} /\ out_buf \in 0..Capacity /\ out_sent \in 0..MaxSent
  BY DEF PipeOK
<1>2. CASE out_closed
  BY <1>2 DEF P!try_doing_write, WriteEffect
<1>3. CASE ~out_closed
  <2> DEFINE res == P!Least(n, Capacity - out_buf)
  <2>1. res \in 0..n
    BY <1>1 DEF P!Least
  <2>2. /\ out_sent' = out_sent + res
        /\ writing' <=> res = 0
        /\ write_value' <=> res # 0
        /\ write_nbytes' = IF res = 0 THEN n ELSE 0
        /\ UNCHANGED write_failed
    BY <1>3, Zenon DEF P!try_doing_write
  <2> HIDE DEF res
  <2> QED BY <1>1, <2>1, <2>2 DEF WriteEffect
<1> QED BY <1>2, <1>3

-----------------------------------------------------------------------------
(* What Read and Wrote do to the bytes. *)

LEMMA ReadBytesOf ==
  ASSUME PipeOK, Read, NEW m \in 0..BufSize, in_buf' = in_buf - m,
         buf \in Seq(Int), Len(buf) <= BufSize
  PROVE  /\ buf' \in Seq(Int) /\ Len(buf') <= BufSize
         /\ m = 0 => buf' = buf
         /\ m > 0 => Len(buf') = m /\ \A i \in 1..m : buf'[i] = taken + i
<1>1. taken \in Int /\ in_buf \in Int
  BY DEF PipeOK, taken
<1>2. CASE m > 0
  <2> DEFINE f == [i \in 1..m |-> taken + i]
  <2>1. in_buf' < in_buf /\ in_buf - in_buf' = m
    BY <1>1, <1>2
  <2>2. buf' = f
    BY <2>1, Zenon DEF Read
  <2>3. f \in [1..m -> Int]
    BY <1>1
  <2>4. f \in Seq(Int) /\ Len(f) = m /\ \A i \in 1..m : f[i] = taken + i
    BY <2>3
  <2> HIDE DEF f
  <2> QED BY <1>2, <2>2, <2>4
<1>3. CASE m = 0
  <2>1. ~(in_buf' < in_buf)
    BY <1>1, <1>3
  <2>2. buf' = buf
    BY <2>1, Zenon DEF Read
  <2> QED BY <1>3, <2>2
<1> QED BY <1>2, <1>3

LEMMA WroteBytesOf ==
  ASSUME Wrote, buf \in Seq(Int), echoed \in Seq(Int), bytes_written \in Nat,
         NEW n \in Nat, out_sent' - out_sent = n, n > 0 => bytes_written + n <= Len(buf)
  PROVE  /\ echoed' \in Seq(Int) /\ Len(echoed') = Len(echoed) + n
         /\ \A i \in 1..Len(echoed) : echoed'[i] = echoed[i]
         /\ \A i \in 1..n : echoed'[Len(echoed) + i] = buf[bytes_written + i]
         /\ nbytes' = IF n > 0 THEN n ELSE nbytes
<1> DEFINE t == SubSeq(buf, bytes_written + 1, bytes_written + n)
<1>1. echoed' = echoed \o t /\ nbytes' = IF n > 0 THEN n ELSE nbytes
  BY DEF Wrote
<1>2. Len(buf) \in Nat /\ Len(echoed) \in Nat /\ \A i \in 1..Len(buf) : buf[i] \in Int
  BY LenProperties, ElementOfSeq
<1>3. t \in Seq(Int) /\ Len(t) = n /\ \A i \in 1..n : t[i] = buf[bytes_written + i]
  <2>1. \A i \in (bytes_written + 1)..(bytes_written + n) : buf[i] \in Int
    BY <1>2
  <2> DEFINE j == bytes_written + 1
             k == bytes_written + n
  <2>a. j \in Int /\ k \in Int
    OBVIOUS
  <2>2. /\ t \in Seq(Int)
        /\ Len(t) = IF j <= k THEN k - j + 1 ELSE 0
        /\ \A i \in 1..(k - j + 1) : t[i] = buf[j + i - 1]
    BY ONLY <2>1, <2>a, buf \in Seq(Int), SubSeqProperties
  <2> HIDE DEF t
  <2>3. k - j + 1 = n
    OBVIOUS
  <2>4. ASSUME NEW i \in 1..n PROVE t[i] = buf[bytes_written + i]
    <3>1. j + i - 1 = bytes_written + i
      OBVIOUS
    <3> QED BY <2>2, <2>3, <3>1
  <2>5. Len(t) = n
    BY <2>2
  <2> QED BY <2>2, <2>4, <2>5
<1> HIDE DEF t
<1>4. /\ echoed' \in Seq(Int) /\ Len(echoed') = Len(echoed) + Len(t)
      /\ \A i \in 1..(Len(echoed) + Len(t)) :
           echoed'[i] = IF i <= Len(echoed) THEN echoed[i] ELSE t[i - Len(echoed)]
  BY <1>1, <1>3, ConcatProperties
<1> QED BY <1>1, <1>2, <1>3, <1>4

LEMMA WroteNothing ==
  ASSUME Wrote, buf \in Seq(Int), echoed \in Seq(Int), bytes_written \in Nat,
         out_sent' - out_sent = 0
  PROVE  echoed' = echoed /\ nbytes' = nbytes
<1>1. 0 \in Nat /\ ~(0 > 0) /\ Len(echoed) \in Nat
  BY LenProperties
<1>2. /\ echoed' \in Seq(Int) /\ Len(echoed') = Len(echoed) + 0
      /\ \A i \in 1..Len(echoed) : echoed'[i] = echoed[i]
      /\ nbytes' = IF 0 > 0 THEN 0 ELSE nbytes
  BY <1>1, WroteBytesOf, Zenon
<1>3. Len(echoed') = Len(echoed)
  BY <1>1, <1>2
<1>4. echoed' = echoed
  BY <1>2, <1>3, SeqEqual
<1> QED BY <1>1, <1>2, <1>4

-----------------------------------------------------------------------------
(* The invariant holds at first, and says what the run checks. *)

LEMMA InitIInv == Init => IInv
<1> SUFFICES ASSUME Init PROVE IInv
  OBVIOUS
<1> USE DEF Init, SignalInit
<1>1. PP!IInv
  BY PipeInit
<1>2. /\ open /\ ~reading /\ ~writing /\ ~read_value /\ ~write_value /\ ~read_ended
      /\ ~write_failed /\ in_buf = 0 /\ in_sent = 0
  BY DEF P!Init
<1>3. SignalTypeOK
  BY Truth DEF SignalTypeOK
<1>4. ProgramOK /\ SignalInv
  BY DEF ProgramOK, SignalInv, Code, ReadPhase, WritePhase
<1>5. WaitInv /\ UseInv
  BY <1>2 DEF WaitInv, UseInv, ReadPhase, WritePhase
<1>6. BytesInv
  <2>1. <<>> \in Seq(Int) /\ Len(<<>>) = 0
    BY EmptySeq
  <2> QED BY <1>2, <2>1 DEF BytesInv, ReadPhase, WritePhase, taken
<1> QED BY <1>1, <1>3, <1>4, <1>5, <1>6 DEF IInv

LEMMA IInvImplies ==
  IInv => CallsMeetAssertions /\ NoCompletionMissed /\ InterruptLosesOnlyUnwritten
<1> SUFFICES ASSUME IInv
             PROVE  CallsMeetAssertions /\ NoCompletionMissed /\ InterruptLosesOnlyUnwritten
  OBVIOUS
<1> USE DEF IInv, SignalInv, WaitInv, UseInv, ReadPhase, WritePhase
<1>1. CallsMeetAssertions
  <2>1. at = "write" => Len(buf) > bytes_written
    <3>1. Len(buf) \in Nat /\ bytes_written \in Nat
      BY LenProperties DEF BytesInv
    <3> QED BY <3>1 DEF BytesInv
  <2> QED BY <2>1 DEF CallsMeetAssertions
<1>2. NoCompletionMissed
  BY DEF NoCompletionMissed
<1>3. InterruptLosesOnlyUnwritten
  <2> SUFFICES ASSUME index = 0, at \in {"got_read", "got_write"}, taken > Len(echoed)
               PROVE  \/ at = "got_read" /\ echoed = <<>>
                      \/ at = "got_write" /\ writing
                           /\ taken - Len(echoed) = write_nbytes
    BY DEF InterruptLosesOnlyUnwritten
  <2>1. Len(echoed) \in Nat /\ Len(buf) \in Nat
    BY LenProperties DEF BytesInv
  <2>2. CASE at = "got_read"
    <3>1. read_value /\ ~read_ended
      BY <2>1, <2>2 DEF BytesInv
    <3> QED BY <2>2, <3>1
  <2>3. CASE at = "got_write"
    <3>1. writing /\ ~write_value
      BY <2>3
    <3>2. fresh = 0
      BY <3>1 DEF fresh
    <3>3. /\ taken = Len(echoed) + Len(buf) - bytes_written - fresh
          /\ write_nbytes = Len(buf) - bytes_written
          /\ bytes_written \in Nat
      BY <2>3, <3>1 DEF BytesInv
    <3> QED BY <2>1, <2>3, <3>1, <3>2, <3>3
  <2> QED BY <2>2, <2>3
<1> QED BY <1>1, <1>2, <1>3

-----------------------------------------------------------------------------
(* The SignalFd, and the Pipe. *)

LEMMA StepSignalType ==
  ASSUME SignalTypeOK, [Next]_vars
  PROVE  SignalTypeOK'
<1> USE Truth DEF SignalTypeOK, signalVars
<1>1. ASSUME get_interrupt_future PROVE SignalTypeOK'
  BY <1>1 DEF get_interrupt_future, signal_read, try_doing_read_signal
<1>2. ASSUME signal_on_update PROVE SignalTypeOK'
  BY <1>2 DEF signal_on_update, try_doing_read_signal
<1>3. ASSUME interrupt_cancel \/ signal_close \/ signal_polled PROVE SignalTypeOK'
  BY <1>3 DEF interrupt_cancel, signal_close, signal_polled
<1>4. ASSUME NEW s \in Signals, Raise(s) PROVE SignalTypeOK'
  BY <1>4 DEF Raise
<1>5. ASSUME UNCHANGED signalVars PROVE SignalTypeOK'
  BY <1>5
<1> HIDE DEF SignalTypeOK, signalVars
<1> QED
  BY <1>1, <1>2, <1>3, <1>4, <1>5
     DEF Next, Thread, UserCode, LoopStep, PeerReceives, Peer, Kill, Finished, vars, Start,
         OpenFails, StartRead, WaitForRead, ReadInterrupted, ReadEnded, ReadBytes, StartWrite,
         WaitForWrite, WriteInterrupted, WriteFailed, WroteAll, WroteSome, CloseSocket,
         Finally, CloseSignalFd, EpollWait, SignalUpdate, SocketUpdate,
         SocketReadCallbackReturns, SocketWriteHalf, SocketLeave, UpdateOfDead, Stop

\* Every step is one of the Pipe, or leaves it alone.
LEMMA StepPipe ==
  ASSUME IInv, [Next]_vars
  PROVE  PP!IInv'
<1>1. ASSUME StartWrite PROVE Len(buf) - bytes_written \in 1..BufSize
  <2>1. Len(buf) \in Nat /\ Len(buf) <= BufSize /\ bytes_written \in Nat /\ bytes_written < Len(buf)
    BY <1>1, LenProperties DEF IInv, BytesInv, WritePhase, StartWrite, Going
  <2> QED BY <2>1
<1>2. BufSize \in 1..BufSize
  OBVIOUS
<1>3. Next => P!Next \/ UNCHANGED pipeVars
  BY <1>1, <1>2
     DEF P!Next, P!LoopStep, Next, Thread, UserCode, LoopStep, PeerReceives, Peer, Kill,
         Finished, vars, Start,
         OpenFails, StartRead, WaitForRead, ReadInterrupted, ReadEnded, ReadBytes, StartWrite,
         WaitForWrite, WriteInterrupted, WriteFailed, WroteAll, WroteSome, CloseSocket,
         Finally, CloseSignalFd, EpollWait, SignalUpdate, SocketUpdate,
         SocketReadCallbackReturns, SocketWriteHalf, SocketLeave, UpdateOfDead, Stop
<1> QED BY <1>3, PipeInductive DEF IInv, vars

-----------------------------------------------------------------------------
(* Every step of user code keeps the rest of the invariant. *)

StateInv == ProgramOK /\ SignalInv /\ WaitInv /\ UseInv /\ BytesInv

\* What read() and write() need, and do.
LEMMA ReadCall ==
  ASSUME PipeOK, P!read(BufSize)
  PROVE  /\ ReadEffect(BufSize)
         /\ UNCHANGED <<open, writing, write_value, write_failed, write_nbytes>>
<1>1. CASE read_ready
  BY <1>1, TryRead DEF P!read, P!writeVars, P!updateVars
<1>2. CASE ~read_ready
  BY <1>2 DEF P!read, ReadEffect, P!writeVars, P!updateVars, P!inVars
<1> QED BY <1>1, <1>2

LEMMA WriteCall ==
  ASSUME PipeOK, NEW n \in 1..BufSize, P!write(n)
  PROVE  /\ WriteEffect(n)
         /\ UNCHANGED <<open, reading, read_value, read_ended, in_buf, in_sent, in_eof>>
<1>1. CASE write_ready
  BY <1>1, TryWrite DEF P!write, P!readVars, P!updateVars, P!inVars
<1>2. CASE ~write_ready
  BY <1>2 DEF P!write, WriteEffect, P!readVars, P!updateVars, P!inVars, P!outVars
<1> QED BY <1>1, <1>2

\* The byte counters and the lengths are numbers.
LEMMA BytesAreCounted ==
  ASSUME IInv
  PROVE  /\ PipeOK /\ taken \in Int
         /\ Len(buf) \in 0..BufSize /\ Len(echoed) \in Nat
         /\ bytes_written \in 0..BufSize /\ nbytes \in 0..BufSize /\ fresh \in 0..BufSize
<1>1. PipeOK
  BY PipeGives DEF IInv
<1>2. Len(buf) \in Nat /\ Len(echoed) \in Nat
  BY LenProperties DEF IInv, BytesInv
<1> QED BY <1>1, <1>2 DEF IInv, BytesInv, PipeOK, taken, fresh

\* A read that completes takes the next bytes, when all before are echoed.
LEMMA ReadKeepsBytes ==
  ASSUME IInv, ReadPhase, ReadPhase', ~read_value, ~read_ended, Read,
         NEW n \in 1..BufSize, ReadEffect(n),
         UNCHANGED <<bytes_written, nbytes, echoed>>
  PROVE  BytesInv'
<1>1. /\ PipeOK /\ taken \in Int /\ buf \in Seq(Int) /\ Len(buf) \in 0..BufSize
      /\ Len(echoed) = taken /\ ~WritePhase'
  BY BytesAreCounted DEF IInv, BytesInv, ReadPhase, WritePhase
<1>2. CASE reading'
  <2>1. in_buf' = in_buf /\ in_sent' = in_sent /\ ~read_value' /\ buf' = buf
    <3>1. in_buf' = in_buf /\ in_sent' = in_sent /\ ~read_value'
      BY <1>2 DEF ReadEffect
    <3>2. in_buf' = in_buf - 0
      BY <1>1, <3>1 DEF PipeOK
    <3> QED BY <1>1, <3>1, <3>2, ReadBytesOf
  <2> QED BY <1>1, <2>1 DEF IInv, BytesInv, taken
<1>3. CASE ~reading'
  <2>1. PICK m \in 0..BufSize : /\ m <= in_buf /\ in_buf' = in_buf - m
                                /\ read_ended' <=> m = 0
    BY <1>3 DEF ReadEffect
  <2>2. in_sent' = in_sent /\ read_value'
    BY <1>3 DEF ReadEffect
  <2>3. taken' = taken + m
    BY <1>1, <2>1, <2>2 DEF taken, PipeOK
  <2>4. /\ buf' \in Seq(Int) /\ Len(buf') <= BufSize
        /\ m > 0 => Len(buf') = m /\ \A i \in 1..m : buf'[i] = taken + i
    BY <1>1, <2>1, ReadBytesOf
  <2>5. m = 0 => Len(echoed') = taken'
    BY <1>1, <2>3
  <2>6. m > 0 => /\ Len(buf') >= 1 /\ taken' = Len(echoed') + Len(buf')
                 /\ \A i \in 1..Len(buf') : buf'[i] = taken' - Len(buf') + i
    <3> SUFFICES ASSUME m > 0
                 PROVE  /\ Len(buf') >= 1 /\ taken' = Len(echoed') + Len(buf')
                        /\ \A i \in 1..Len(buf') : buf'[i] = taken' - Len(buf') + i
      OBVIOUS
    <3>1. Len(buf') = m /\ m >= 1 /\ taken' = taken + m /\ Len(echoed') = taken
      BY <1>1, <2>3, <2>4
    <3>2. ASSUME NEW i \in 1..m PROVE buf'[i] = taken' - Len(buf') + i
      <4>1. taken' - Len(buf') + i = taken + i
        BY <1>1, <3>1
      <4> QED BY <2>4, <4>1
    <3>3. taken' = Len(echoed') + Len(buf')
      BY <1>1, <3>1
    <3> QED BY <3>1, <3>2, <3>3
  <2>7. /\ bytes_written' \in 0..BufSize /\ nbytes' \in 0..BufSize
        /\ echoed' \in Seq(Int) /\ \A i \in 1..Len(echoed') : echoed'[i] = i
    BY DEF IInv, BytesInv
  <2>8. /\ read_value' /\ (read_ended' <=> m = 0) /\ ~(at' = "start")
        /\ ReadPhase' /\ ~WritePhase'
    BY <1>1, <2>1, <2>2 DEF ReadPhase
  <2> QED BY <2>1, <2>4, <2>5, <2>6, <2>7, <2>8 DEF BytesInv
<1> QED BY <1>2, <1>3

LEMMA StartStep ==
  ASSUME IInv, Start \/ OpenFails
  PROVE  StateInv'
<1> USE DEF IInv, Going, Code, Waits, Ends, ReadPhase, WritePhase
<1>1. /\ at = "start" /\ at' \in {"read", "finally"} /\ chained' = chained /\ nodes' = nodes
      /\ index' = index
      /\ UNCHANGED <<buf, bytes_written, nbytes, echoed, in_buf, in_sent, in_eof, reading,
                     writing, read_value, write_value, read_ended, write_failed>>
      /\ at' = "read" => open' = open /\ result' = result
      /\ at' = "finally" => ~open' /\ result' = "failed"
  BY DEF Start, OpenFails, P!close, P!readVars, P!writeVars, P!inVars, pipeVars, echoVars
<1>2. SignalInv'
  <2>1. /\ signal_reading' <=> interrupt' = "pending"
        /\ interrupt' # "none" /\ signal_open' = signal_open
    BY DEF Start, OpenFails, get_interrupt_future, signal_read, SignalInv, SignalTypeOK
  <2> QED BY <1>1, <2>1 DEF SignalInv
<1>3. ProgramOK' /\ WaitInv'
  BY <1>1 DEF ProgramOK, WaitInv
<1>4. UseInv'
  <2>1. /\ open /\ ~reading /\ ~writing /\ ~read_value /\ ~write_value /\ ~read_ended
        /\ ~write_failed /\ result = "none"
    BY <1>1 DEF UseInv
  <2>2. CASE at' = "read"
    BY <1>1, <2>1, <2>2 DEF UseInv
  <2>3. CASE at' = "finally"
    BY <1>1, <2>3 DEF UseInv
  <2> QED BY <1>1, <2>2, <2>3
<1>5. BytesInv'
  BY <1>1 DEF BytesInv, UseInv, taken
<1> QED BY <1>2, <1>3, <1>4, <1>5 DEF StateInv

LEMMA StartReadStep ==
  ASSUME IInv, StartRead
  PROVE  StateInv'
<1> USE DEF IInv, Going, Code, Waits, Ends, ReadPhase, WritePhase
<1>1. /\ at = "read" /\ at' = "wait_read"
      /\ UNCHANGED <<chained, nodes, index, bytes_written, nbytes, echoed, result, signalVars>>
      /\ P!read(BufSize) /\ Read
  BY DEF StartRead
<1>2. /\ ReadEffect(BufSize)
      /\ UNCHANGED <<open, writing, write_value, write_failed, write_nbytes>>
  BY <1>1, ReadCall, BytesAreCounted
<1>3. ProgramOK' /\ SignalInv' /\ WaitInv'
  BY <1>1 DEF ProgramOK, SignalInv, WaitInv, signalVars
<1>4. UseInv'
  <2>1. CASE reading'
    BY <1>1, <1>2, <2>1 DEF UseInv, ReadEffect
  <2>2. CASE ~reading'
    <3>1. PICK m \in 0..BufSize : /\ m <= in_buf /\ in_buf' = in_buf - m
                                  /\ read_ended' <=> m = 0
      BY <1>2, <2>2 DEF ReadEffect
    <3>2. read_ended' => in_buf' = 0 /\ in_eof'
      <4>1. read_ended' => in_buf = 0 /\ in_eof'
        BY <1>2, <2>2 DEF ReadEffect
      <4>2. read_ended' => in_buf' = in_buf - 0
        BY <3>1
      <4> QED BY <4>1, <4>2
    <3> QED BY <1>1, <1>2, <2>2, <3>2 DEF UseInv, ReadEffect
  <2> QED BY <2>1, <2>2
<1>5. BytesInv'
  BY <1>1, <1>2, ReadKeepsBytes DEF UseInv
<1> QED BY <1>3, <1>4, <1>5 DEF StateInv

\* Steps that move no byte.
LEMMA BytesStay ==
  ASSUME IInv, UNCHANGED <<buf, bytes_written, nbytes, echoed>>, at' # "start",
         \/ ~ReadPhase' /\ ~WritePhase'
         \/ /\ ReadPhase' => ReadPhase
            /\ WritePhase' => WritePhase
            /\ taken' = taken
            /\ UNCHANGED <<read_value, read_ended, writing, write_value, write_failed,
                           write_nbytes>>
  PROVE  BytesInv'
<1>1. /\ buf' = buf /\ bytes_written' = bytes_written /\ nbytes' = nbytes /\ echoed' = echoed
  OBVIOUS
<1>2. CASE ~ReadPhase' /\ ~WritePhase'
  BY <1>1, <1>2 DEF IInv, BytesInv
<1>3. CASE ~(~ReadPhase' /\ ~WritePhase')
  <2>1. fresh' = fresh
    BY <1>1, <1>3 DEF fresh
  <2> QED BY <1>1, <1>3, <2>1 DEF IInv, BytesInv
<1> QED BY <1>2, <1>3

LEMMA WaitForReadStep ==
  ASSUME IInv, WaitForRead
  PROVE  StateInv'
<1> USE DEF IInv, Code, Waits, Ends, ReadPhase, WritePhase
<1>1. /\ at = "wait_read" /\ chained' = "got_read"
      /\ UNCHANGED <<signalVars, buf, bytes_written, nbytes, echoed, result, pipeVars>>
      /\ interrupt \in {"pending", "ready"}
      /\ \/ interrupt = "ready" /\ at' = "got_read" /\ index' = 0 /\ nodes' = nodes
         \/ interrupt = "pending" /\ read_value /\ at' = "got_read" /\ index' = 1 /\ nodes' = nodes
         \/ interrupt = "pending" /\ ~read_value /\ at' = "waiting" /\ nodes' = {0, 1}
            /\ index' = index
  BY DEF WaitForRead, wait_any, echoVars, SignalTypeOK, SignalInv
<1>2. ProgramOK' /\ SignalInv'
  BY <1>1 DEF ProgramOK, SignalInv, signalVars
<1>3. WaitInv' /\ UseInv'
  BY <1>1 DEF WaitInv, UseInv, signalVars, pipeVars
<1>4. BytesInv'
  BY <1>1, BytesStay DEF taken, pipeVars
<1> QED BY <1>2, <1>3, <1>4 DEF StateInv

LEMMA WaitForWriteStep ==
  ASSUME IInv, WaitForWrite
  PROVE  StateInv'
<1> USE DEF IInv, Code, Waits, Ends, ReadPhase, WritePhase
<1>1. /\ at = "wait_write" /\ chained' = "got_write" /\ interrupt = "pending"
      /\ UNCHANGED <<signalVars, buf, bytes_written, nbytes, echoed, result, pipeVars>>
      /\ \/ write_value /\ at' = "got_write" /\ index' = 1 /\ nodes' = nodes
         \/ ~write_value /\ at' = "waiting" /\ nodes' = {0, 1} /\ index' = index
  BY DEF WaitForWrite, wait_any, echoVars, WaitInv
<1>2. ProgramOK' /\ SignalInv'
  BY <1>1 DEF ProgramOK, SignalInv, signalVars
<1>3. WaitInv' /\ UseInv'
  BY <1>1 DEF WaitInv, UseInv, signalVars, pipeVars
<1>4. BytesInv'
  BY <1>1, BytesStay DEF taken, pipeVars
<1> QED BY <1>2, <1>3, <1>4 DEF StateInv

\* An operation is given up, or it ended: on to close().
LEMMA GiveUpStep ==
  ASSUME IInv, ReadInterrupted \/ ReadEnded \/ WriteInterrupted \/ WriteFailed
  PROVE  StateInv'
<1> USE DEF IInv, Going, Code, Waits, Ends, ReadPhase, WritePhase
<1>1. /\ at \in {"got_read", "got_write"} /\ at' = "close" /\ result' \in {"complete", "failed"}
      /\ UNCHANGED <<signalVars, chained, nodes, index, buf, bytes_written, nbytes, echoed>>
      /\ open' = open /\ ~reading' /\ ~writing'
  BY DEF ReadInterrupted, ReadEnded, WriteInterrupted, WriteFailed, P!CancelRead,
         P!ConsumeRead, P!CancelWrite, P!ConsumeWrite, P!readVars, P!writeVars,
         P!updateVars, UseInv
<1>2. ProgramOK' /\ SignalInv' /\ WaitInv'
  BY <1>1 DEF ProgramOK, SignalInv, WaitInv, signalVars
<1>3. UseInv'
  BY <1>1 DEF UseInv
<1>4. BytesInv'
  BY <1>1, BytesStay
<1> QED BY <1>2, <1>3, <1>4 DEF StateInv

LEMMA ReadBytesStep ==
  ASSUME IInv, ReadBytes
  PROVE  StateInv'
<1> USE DEF IInv, Going, Code, Waits, Ends, ReadPhase, WritePhase
<1>1. /\ at = "got_read" /\ at' = "write" /\ index = 1 /\ ~read_ended
      /\ UNCHANGED <<signalVars, chained, nodes, index, buf, nbytes, echoed, result>>
      /\ bytes_written' = 0 /\ ~read_value'
      /\ UNCHANGED <<open, reading, read_ended, writing, write_value, write_failed, in_buf,
                     in_sent, in_eof>>
  BY DEF ReadBytes, P!ConsumeRead, P!writeVars, P!updateVars, P!inVars
<1>2. ProgramOK' /\ SignalInv' /\ WaitInv'
  BY <1>1 DEF ProgramOK, SignalInv, WaitInv, signalVars
<1>3. UseInv'
  BY <1>1 DEF UseInv
<1>4. BytesInv'
  <2>1. /\ Len(buf) >= 1 /\ taken = Len(echoed) + Len(buf)
        /\ \A i \in 1..Len(buf) : buf[i] = taken - Len(buf) + i
    BY <1>1 DEF UseInv, BytesInv
  <2>2. fresh' = 0 /\ ~write_value' /\ ~writing' /\ taken' = taken
    BY <1>1 DEF fresh, UseInv, taken
  <2>3. /\ bytes_written' + fresh' <= Len(buf) /\ bytes_written' < Len(buf)
        /\ taken = Len(echoed) + Len(buf) - bytes_written' - fresh'
    BY <1>1, <2>1, <2>2, BytesAreCounted
  <2> QED BY <1>1, <2>1, <2>2, <2>3, BytesAreCounted DEF BytesInv
<1> QED BY <1>2, <1>3, <1>4 DEF StateInv

\* A write that takes bytes echoes the next ones of the buffer.
LEMMA WriteKeepsBytes ==
  ASSUME IInv, WritePhase, WritePhase', ~write_value, ~write_failed, Wrote,
         WriteEffect(Len(buf) - bytes_written),
         UNCHANGED <<buf, bytes_written, in_buf, in_sent>>
  PROVE  BytesInv'
<1> DEFINE n == Len(buf) - bytes_written
<1>1. /\ PipeOK /\ taken \in Int /\ buf \in Seq(Int) /\ Len(buf) \in 0..BufSize
      /\ echoed \in Seq(Int) /\ Len(echoed) \in Nat
      /\ bytes_written \in 0..BufSize /\ nbytes \in 0..BufSize
      /\ bytes_written < Len(buf) /\ fresh = 0
      /\ taken = Len(echoed) + Len(buf) - bytes_written
      /\ \A i \in 1..Len(buf) : buf[i] = taken - Len(buf) + i
      /\ \A i \in 1..Len(echoed) : echoed[i] = i
  <2>1. fresh = 0
    BY DEF fresh
  <2> QED BY <2>1, BytesAreCounted DEF IInv, BytesInv
<1>2. /\ buf' = buf /\ bytes_written' = bytes_written /\ taken' = taken
      /\ ~ReadPhase' /\ at' # "start"
  BY DEF taken, ReadPhase, WritePhase
<1>3. PICK m \in 0..n :
        /\ out_sent' = out_sent + m
        /\ fresh' = IF m = 0 THEN 0 ELSE nbytes'
        /\ writing' => write_nbytes' = n
        /\ write_value' /\ ~write_failed' => m > 0
  <2>1. n \in Nat /\ n > 0 /\ out_sent \in Int
    BY <1>1 DEF PipeOK
  <2>2. CASE writing' \/ write_failed'
    <3>1. /\ out_sent' = out_sent /\ fresh' = 0 /\ ~(write_value' /\ ~write_failed')
          /\ writing' => write_nbytes' = n
      BY <2>2 DEF WriteEffect, fresh
    <3>2. out_sent' = out_sent + 0 /\ 0 \in 0..n
      BY <2>1, <3>1
    <3> QED BY <3>1, <3>2
  <2>3. CASE ~(writing' \/ write_failed')
    <3>1. PICK m \in 1..n : out_sent' = out_sent + m
      BY <2>3 DEF WriteEffect
    <3>2. fresh' = nbytes'
      BY <2>3 DEF WriteEffect, fresh
    <3>3. m \in 0..n /\ m > 0
      BY <2>1, <3>1
    <3> QED BY <2>3, <3>1, <3>2, <3>3
  <2> QED BY <2>2, <2>3
<1>4. m \in Nat /\ m <= BufSize /\ bytes_written + m <= Len(buf) /\ out_sent \in Int
  BY <1>1, <1>3 DEF PipeOK
<1>5. /\ echoed' \in Seq(Int) /\ Len(echoed') = Len(echoed) + m
      /\ \A i \in 1..Len(echoed) : echoed'[i] = echoed[i]
      /\ \A i \in 1..m : echoed'[Len(echoed) + i] = buf[bytes_written + i]
      /\ nbytes' = IF m > 0 THEN m ELSE nbytes
  <2>1. out_sent' - out_sent = m /\ bytes_written \in Nat
    BY <1>1, <1>3, <1>4
  <2> QED BY <1>1, <1>4, <2>1, WroteBytesOf
<1>6. \A i \in 1..Len(echoed') : echoed'[i] = i
  <2> SUFFICES ASSUME NEW i \in 1..(Len(echoed) + m) PROVE echoed'[i] = i
    BY <1>5
  <2>1. CASE i <= Len(echoed)
    <3>1. i \in 1..Len(echoed)
      BY <1>1, <1>4, <2>1
    <3>2. echoed[i] = i
      BY <1>1, <3>1
    <3> QED BY <1>5, <3>1, <3>2
  <2>2. CASE i > Len(echoed)
    <3> DEFINE j == i - Len(echoed)
    <3>1. j \in 1..m /\ Len(echoed) + j = i /\ bytes_written + j \in 1..Len(buf)
      BY <1>1, <1>4, <2>2
    <3>2. buf[bytes_written + j] = i
      <4>1. buf[bytes_written + j] = taken - Len(buf) + (bytes_written + j)
        BY <1>1, <3>1
      <4> QED BY <1>1, <3>1, <4>1
    <3> HIDE DEF j
    <3> QED BY <1>5, <3>1, <3>2
  <2> QED BY <1>1, <1>4, <2>1, <2>2
<1>7. fresh' = m /\ nbytes' \in 0..BufSize /\ (m > 0 => nbytes' >= 1)
  BY <1>1, <1>3, <1>4, <1>5
<1>8. /\ bytes_written' + fresh' <= Len(buf') /\ bytes_written' < Len(buf')
      /\ taken' = Len(echoed') + Len(buf') - bytes_written' - fresh'
  BY <1>1, <1>2, <1>4, <1>5, <1>7
<1>9. writing' => write_nbytes' = Len(buf') - bytes_written'
  BY <1>2, <1>3
<1>10. \A i \in 1..Len(buf') : buf'[i] = taken' - Len(buf') + i
  BY <1>1, <1>2
<1>11. write_value' /\ ~write_failed' => nbytes' >= 1
  BY <1>3, <1>7
<1>12. /\ buf' \in Seq(Int) /\ Len(buf') <= BufSize /\ bytes_written' \in 0..BufSize
       /\ ~(at' = "start" \/ ReadPhase')
  BY <1>1, <1>2
<1> QED
  BY <1>5, <1>6, <1>7, <1>8, <1>9, <1>10, <1>11, <1>12 DEF BytesInv

LEMMA StartWriteStep ==
  ASSUME IInv, StartWrite
  PROVE  StateInv'
<1> USE DEF IInv, Going, Code, Waits, Ends, ReadPhase, WritePhase
<1>1. /\ at = "write" /\ at' = "wait_write"
      /\ UNCHANGED <<chained, nodes, index, buf, bytes_written, result, signalVars>>
      /\ P!write(Len(buf) - bytes_written) /\ Wrote
  BY DEF StartWrite
<1>2. Len(buf) - bytes_written \in 1..BufSize
  <2>1. bytes_written < Len(buf)
    BY <1>1 DEF BytesInv
  <2> QED BY <2>1, BytesAreCounted
<1>3. /\ WriteEffect(Len(buf) - bytes_written)
      /\ UNCHANGED <<open, reading, read_value, read_ended, in_buf, in_sent, in_eof>>
  BY <1>1, <1>2, WriteCall, BytesAreCounted
<1>4. ProgramOK' /\ SignalInv'
  BY <1>1 DEF ProgramOK, SignalInv, signalVars
<1>5. WaitInv' /\ UseInv'
  BY <1>1, <1>3 DEF WaitInv, UseInv, WriteEffect, signalVars
<1>6. ~write_value /\ ~write_failed
  BY <1>1 DEF UseInv
<1>7. BytesInv'
  BY <1>1, <1>3, <1>6, WriteKeepsBytes
<1> QED BY <1>4, <1>5, <1>7 DEF StateInv

LEMMA WroteStep ==
  ASSUME IInv, WroteAll \/ WroteSome
  PROVE  StateInv'
<1> USE DEF IInv, Going, Code, Waits, Ends, ReadPhase, WritePhase
<1>1. /\ at = "got_write" /\ index = 1 /\ ~write_failed /\ write_value
      /\ UNCHANGED <<signalVars, chained, nodes, index, buf, nbytes, echoed, result>>
      /\ ~write_value'
      /\ UNCHANGED <<open, writing, write_failed, reading, read_value, read_ended, in_buf,
                     in_sent, in_eof>>
      /\ \/ at' = "read" /\ bytes_written' = bytes_written /\ bytes_written + nbytes = Len(buf)
         \/ at' = "write" /\ bytes_written' = bytes_written + nbytes
            /\ bytes_written + nbytes < Len(buf)
  BY DEF WroteAll, WroteSome, P!ConsumeWrite, P!readVars, P!updateVars, P!inVars, echoVars,
         UseInv
<1>2. ProgramOK' /\ SignalInv' /\ WaitInv'
  BY <1>1 DEF ProgramOK, SignalInv, WaitInv, signalVars
<1>3. UseInv'
  BY <1>1 DEF UseInv
<1>4. BytesInv'
  <2>1. /\ taken = Len(echoed) + Len(buf) - bytes_written - nbytes /\ taken' = taken
        /\ ~writing' /\ fresh' = 0 /\ ~read_value'
        /\ \A i \in 1..Len(buf) : buf[i] = taken - Len(buf) + i
    BY <1>1 DEF BytesInv, UseInv, fresh, taken
  <2>2. CASE at' = "read"
    <3>1. Len(echoed) = taken
      BY <1>1, <2>1, <2>2, BytesAreCounted
    <3> QED BY <1>1, <2>1, <2>2, <3>1 DEF BytesInv
  <2>3. CASE at' = "write"
    <3>1. /\ bytes_written' \in 0..BufSize /\ bytes_written' + fresh' <= Len(buf)
          /\ bytes_written' < Len(buf)
          /\ taken = Len(echoed) + Len(buf) - bytes_written' - fresh'
      BY <1>1, <2>1, <2>3, BytesAreCounted
    <3> QED BY <1>1, <2>1, <2>3, <3>1 DEF BytesInv
  <2> QED BY <1>1, <2>2, <2>3
<1> QED BY <1>2, <1>3, <1>4 DEF StateInv

LEMMA CloseStep ==
  ASSUME IInv, CloseSocket \/ Finally \/ CloseSignalFd
  PROVE  StateInv'
<1> USE DEF IInv, Going, Code, Waits, Ends, ReadPhase, WritePhase
<1>1. /\ at \in {"close", "finally", "close_signal"}
      /\ at' \in {"finally", "close_signal", "ended"} /\ ~open'
      /\ UNCHANGED <<chained, nodes, index, buf, bytes_written, nbytes, echoed, result>>
  BY DEF CloseSocket, Finally, CloseSignalFd, P!close, echoVars, pipeVars, UseInv
<1>2. ProgramOK' /\ WaitInv' /\ UseInv'
  BY <1>1 DEF ProgramOK, WaitInv, UseInv
<1>3. SignalInv'
  BY DEF CloseSocket, Finally, CloseSignalFd, interrupt_cancel, signal_close, SignalInv,
         signalVars
<1>4. BytesInv'
  BY <1>1, BytesStay
<1> QED BY <1>2, <1>3, <1>4 DEF StateInv

-----------------------------------------------------------------------------
(* So does every step of the loop, and of the peer. *)

LEMMA SignalUpdateStep ==
  ASSUME IInv, SignalUpdate
  PROVE  StateInv'
<1> USE DEF IInv, Code, Waits, Ends, ReadPhase, WritePhase
<1>1. /\ at \in Waits /\ UNCHANGED <<buf, bytes_written, nbytes, echoed, result, pipeVars>>
      /\ IF interrupt = "pending" /\ interrupt' = "ready"
           THEN completed(0) ELSE UNCHANGED waitVars
  BY DEF SignalUpdate, Dispatch, InLoop, echoVars
<1>2. /\ signal_reading' <=> interrupt' = "pending"
      /\ interrupt' = interrupt \/ (interrupt = "pending" /\ interrupt' = "ready")
      /\ signal_open' = signal_open
  BY DEF SignalUpdate, signal_on_update, try_doing_read_signal, SignalInv, SignalTypeOK
<1>3. CASE UNCHANGED waitVars
  <2>1. UNCHANGED <<at, chained, nodes, index>>
    BY <1>3 DEF waitVars
  <2>2. at = "waiting" => interrupt' = interrupt
    BY <1>1, <1>2, <2>1 DEF completed, notify_complete, WaitInv
  <2>3. ProgramOK' /\ SignalInv'
    BY <1>1, <1>2, <2>1, <2>2 DEF ProgramOK, SignalInv
  <2>4. WaitInv' /\ UseInv'
    BY <1>1, <1>2, <2>1, <2>2 DEF WaitInv, UseInv, pipeVars
  <2>5. BytesInv'
    BY <1>1, <2>1, BytesStay DEF taken, pipeVars
  <2> QED BY <2>3, <2>4, <2>5 DEF StateInv
<1>4. CASE ~UNCHANGED waitVars
  <2>1. /\ at = "waiting" /\ at' = chained /\ chained' = chained /\ nodes' = {} /\ index' = 0
        /\ interrupt' = "ready"
    BY <1>1, <1>4 DEF completed, notify_complete, WaitInv, waitVars
  <2>2. ProgramOK' /\ SignalInv'
    BY <1>1, <1>2, <2>1 DEF ProgramOK, SignalInv, WaitInv
  <2>3. WaitInv' /\ UseInv'
    BY <1>1, <2>1 DEF WaitInv, UseInv, pipeVars
  <2>4. BytesInv'
    BY <1>1, <2>1, BytesStay DEF taken, pipeVars, WaitInv
  <2> QED BY <2>2, <2>3, <2>4 DEF StateInv
<1> QED BY <1>3, <1>4

\* What on_update() does to a read, and to a write, that waits or not.
LEMMA ReadUpdate ==
  ASSUME PipeOK, P!ReadHalf
  PROVE  /\ UNCHANGED <<open, writing, write_value, write_failed, write_nbytes, in_sent, in_eof>>
         /\ \/ reading /\ ReadEffect(BufSize)
            \/ UNCHANGED <<reading, read_value, read_ended, in_buf>>
<1>1. UNCHANGED <<open, writing, write_value, write_failed, write_nbytes>>
  BY DEF P!ReadHalf, P!writeVars
<1>2. CASE event.in /\ ~read_ready /\ reading
  <2>1. read_nbytes \in 1..BufSize /\ P!try_doing_read(read_nbytes)
    BY <1>2 DEF PipeOK, P!ReadHalf
  <2>2. ReadEffect(read_nbytes)
    BY <2>1, TryRead
  <2>3. ASSUME NEW m \in 0..read_nbytes PROVE m \in 0..BufSize
    BY <2>1
  <2> QED BY <1>1, <1>2, <2>2, <2>3 DEF ReadEffect
<1>3. CASE ~(event.in /\ ~read_ready /\ reading)
  BY <1>1, <1>3 DEF P!ReadHalf, P!inVars
<1> QED BY <1>2, <1>3

LEMMA WriteUpdate ==
  ASSUME PipeOK, P!WriteHalf, writing => ~write_failed
  PROVE  /\ UNCHANGED <<open, reading, read_value, read_ended, in_buf, in_sent, in_eof>>
         /\ open
         /\ \/ writing /\ WriteEffect(write_nbytes)
            \/ UNCHANGED <<writing, write_value, write_failed, write_nbytes, out_sent>>
<1>1. open /\ UNCHANGED <<open, reading, read_value, read_ended, in_buf, in_sent, in_eof>>
  BY DEF P!WriteHalf, P!readVars, P!inVars, PipeOK
<1>2. CASE event.out /\ ~write_ready /\ writing
  <2>1. write_nbytes \in 1..BufSize /\ P!try_doing_write(write_nbytes)
    BY <1>2 DEF PipeOK, P!WriteHalf
  <2> QED BY <1>1, <1>2, <2>1, TryWrite
<1>3. CASE ~(event.out /\ ~write_ready /\ writing)
  BY <1>1, <1>3 DEF P!WriteHalf, P!outVars
<1> QED BY <1>2, <1>3

LEMMA SocketUpdateStep ==
  ASSUME IInv, SocketUpdate
  PROVE  StateInv'
<1> USE DEF IInv, Code, Waits, Ends, ReadPhase, WritePhase
<1>1. /\ at = "waiting"
      /\ UNCHANGED <<signalVars, bytes_written, nbytes, echoed, result>>
      /\ P!ReadHalf /\ Read
      /\ IF read_value' THEN completed(1) ELSE UNCHANGED waitVars
      /\ nodes = {0, 1} /\ interrupt = "pending" /\ chained \in {"got_read", "got_write"}
      /\ ~read_value /\ ~read_ended
  BY DEF SocketUpdate, Dispatch, InLoop, UseInv, WaitInv
<1>2. /\ UNCHANGED <<open, writing, write_value, write_failed, write_nbytes, in_sent, in_eof>>
      /\ \/ reading /\ ReadEffect(BufSize)
         \/ UNCHANGED <<reading, read_value, read_ended, in_buf>>
  BY <1>1, ReadUpdate, BytesAreCounted
<1>3. CASE UNCHANGED <<reading, read_value, read_ended, in_buf>>
  <2>1. UNCHANGED <<at, chained, nodes, index>>
    BY <1>1, <1>3 DEF waitVars
  <2>2. buf' = buf
    <3>1. in_buf' = in_buf - 0 /\ PipeOK /\ buf \in Seq(Int) /\ Len(buf) <= BufSize
      BY <1>3, BytesAreCounted DEF PipeOK, BytesInv
    <3> QED BY <1>1, <3>1, ReadBytesOf
  <2>3. ProgramOK' /\ SignalInv'
    BY <1>1, <2>1 DEF ProgramOK, SignalInv, signalVars
  <2>4. WaitInv' /\ UseInv'
    BY <1>1, <1>2, <1>3, <2>1 DEF WaitInv, UseInv, signalVars
  <2>5. BytesInv'
    BY <1>1, <1>2, <1>3, <2>1, <2>2, BytesStay DEF taken
  <2> QED BY <2>3, <2>4, <2>5 DEF StateInv
<1>4. CASE reading /\ ReadEffect(BufSize)
  <2>1. /\ chained = "got_read"
        /\ \/ at' = at /\ nodes' = nodes /\ index' = index /\ chained' = chained
              /\ reading' /\ ~read_value' /\ ~read_ended'
           \/ at' = "got_read" /\ nodes' = {} /\ index' = 1 /\ chained' = chained
              /\ ~reading' /\ read_value'
    BY <1>1, <1>4 DEF UseInv, completed, notify_complete, waitVars, ReadEffect
  <2>2. ProgramOK' /\ SignalInv' /\ WaitInv'
    BY <1>1, <2>1 DEF ProgramOK, SignalInv, WaitInv, signalVars
  <2>3. read_ended' => in_eof' /\ in_buf' = 0
    <3> SUFFICES ASSUME read_ended' PROVE in_eof' /\ in_buf' = 0
      OBVIOUS
    <3>1. /\ in_eof' /\ in_buf = 0 /\ ~reading'
          /\ \E m \in 0..BufSize : in_buf' = in_buf - m /\ (read_ended' <=> m = 0)
      BY <1>1, <1>4, <2>1 DEF ReadEffect
    <3>2. in_buf' = in_buf - 0
      BY <3>1
    <3>3. in_buf = 0 /\ in_buf \in Int
      BY <3>1
    <3>4. in_buf' = 0
      BY <3>2, <3>3
    <3> QED BY <3>1, <3>4
  <2>4. UseInv'
    BY <1>1, <1>2, <2>1, <2>3 DEF UseInv
  <2>5. BytesInv'
    BY <1>1, <1>4, <2>1, ReadKeepsBytes
  <2> QED BY <2>2, <2>4, <2>5 DEF StateInv
<1> QED BY <1>2, <1>3, <1>4

\* The program waits when on_update() reaches its write half, and so the Pipe is
\* there and no write of it has ended.
LEMMA SocketWriteUse ==
  ASSUME IInv, SocketWriteHalf
  PROVE  /\ at = "waiting" /\ ~write_value /\ ~write_failed /\ Wrote /\ open
         /\ nodes = {0, 1} /\ interrupt = "pending" /\ chained \in {"got_read", "got_write"}
         /\ UNCHANGED <<signalVars, buf, bytes_written, result, open, reading, read_value,
                        read_ended, in_buf, in_sent, in_eof>>
         /\ IF write_value' THEN completed(1) ELSE UNCHANGED waitVars
         /\ \/ writing /\ WriteEffect(write_nbytes)
            \/ UNCHANGED <<writing, write_value, write_failed, write_nbytes, out_sent>>
<1> USE DEF IInv, Waits, ReadPhase, WritePhase
<1>1. /\ at \in Waits /\ P!WriteHalf /\ Wrote
      /\ UNCHANGED <<signalVars, buf, bytes_written, result>>
      /\ IF write_value' THEN completed(1) ELSE UNCHANGED waitVars
  BY DEF SocketWriteHalf, Blocked
<1>2. open
  BY <1>1, BytesAreCounted DEF PipeOK, P!WriteHalf
<1>3. /\ at = "waiting" /\ ~write_value /\ ~write_failed
      /\ nodes = {0, 1} /\ interrupt = "pending" /\ chained \in {"got_read", "got_write"}
  BY <1>1, <1>2 DEF UseInv, WaitInv
<1> QED BY <1>1, <1>2, <1>3, WriteUpdate, BytesAreCounted

LEMMA SocketWriteStep ==
  ASSUME IInv, SocketWriteHalf
  PROVE  StateInv'
<1> USE DEF IInv, Code, Waits, Ends, ReadPhase, WritePhase
<1>1. /\ at = "waiting" /\ Wrote
      /\ UNCHANGED <<signalVars, buf, bytes_written, result>>
      /\ IF write_value' THEN completed(1) ELSE UNCHANGED waitVars
  BY SocketWriteUse
<1>3. /\ UNCHANGED <<open, reading, read_value, read_ended, in_buf, in_sent, in_eof>>
      /\ open
      /\ \/ writing /\ WriteEffect(write_nbytes)
         \/ UNCHANGED <<writing, write_value, write_failed, write_nbytes, out_sent>>
  BY SocketWriteUse
<1>4. /\ at = "waiting" /\ ~write_value /\ ~write_failed
      /\ nodes = {0, 1} /\ interrupt = "pending" /\ chained \in {"got_read", "got_write"}
  BY SocketWriteUse
<1>5. CASE UNCHANGED <<writing, write_value, write_failed, write_nbytes, out_sent>>
  <2>1. UNCHANGED <<at, chained, nodes, index>>
    BY <1>1, <1>4, <1>5 DEF waitVars
  <2>2. nbytes' = nbytes /\ echoed' = echoed
    <3>1. /\ out_sent' - out_sent = 0 /\ bytes_written \in Nat /\ ~(0 > 0)
          /\ 0 \in Nat /\ buf \in Seq(Int) /\ echoed \in Seq(Int) /\ Len(echoed) \in Nat
      <4>1. buf \in Seq(Int) /\ echoed \in Seq(Int)
        BY DEF BytesInv
      <4>2. /\ Len(echoed) \in Nat /\ bytes_written \in Nat /\ Len(buf) \in Nat
            /\ out_sent \in Int
        BY BytesAreCounted DEF PipeOK
      <4> QED BY <1>5, <4>1, <4>2
    <3> QED BY <1>1, <3>1, WroteNothing
  <2>3. ProgramOK' /\ SignalInv'
    BY <1>1, <2>1 DEF ProgramOK, SignalInv, signalVars
  <2>4. WaitInv' /\ UseInv'
    BY <1>1, <1>3, <1>5, <2>1, <2>2 DEF WaitInv, UseInv, signalVars
  <2>5. BytesInv'
    BY <1>1, <1>3, <1>5, <2>1, <2>2, BytesStay DEF taken
  <2> QED BY <2>3, <2>4, <2>5 DEF StateInv
<1>6. CASE writing /\ WriteEffect(write_nbytes)
  <2>1. /\ chained = "got_write"
        /\ \/ at' = at /\ nodes' = nodes /\ index' = index /\ chained' = chained
              /\ writing' /\ ~write_value' /\ ~write_failed'
           \/ at' = "got_write" /\ nodes' = {} /\ index' = 1 /\ chained' = chained
              /\ ~writing' /\ write_value'
    BY <1>1, <1>4, <1>6 DEF UseInv, completed, notify_complete, waitVars, WriteEffect
  <2>2. ProgramOK' /\ SignalInv' /\ WaitInv'
    BY <1>1, <1>4, <2>1 DEF ProgramOK, SignalInv, WaitInv, signalVars
  <2>3. UseInv'
    BY <1>1, <1>3, <1>4, <2>1 DEF UseInv
  <2>4. write_nbytes = Len(buf) - bytes_written
    BY <1>4, <1>6, <2>1 DEF BytesInv
  <2>5. BytesInv'
    BY <1>1, <1>3, <1>4, <1>6, <2>1, <2>4, WriteKeepsBytes
  <2> QED BY <2>2, <2>3, <2>5 DEF StateInv
<1> QED BY <1>3, <1>5, <1>6

\* What the rest of the invariant speaks of, but for the next piece of code, the
\* bytes that wait in the kernel, and the signals that do.
Quiet ==
  UNCHANGED <<chained, nodes, index, buf, bytes_written, nbytes, echoed, result, open,
              reading, read_value, read_ended, writing, write_value, write_failed,
              write_nbytes, signal_open, signal_reading, interrupt>>

LEMMA QuietStep ==
  ASSUME IInv, Quiet, taken' = taken,
         at' = at \/ (at = "ended" /\ at' \in Ends),
         in_eof /\ in_buf = 0 => in_eof' /\ in_buf' = 0
  PROVE  StateInv'
<1> USE DEF IInv, Quiet, Code, Waits, Ends, ReadPhase, WritePhase
<1>1. ProgramOK' /\ SignalInv' /\ WaitInv'
  BY DEF ProgramOK, SignalInv, WaitInv
<1>2. UseInv'
  BY DEF UseInv
<1>3. BytesInv'
  <2>1. CASE at' = "start"
    BY <2>1 DEF BytesInv
  <2>2. CASE at' # "start"
    BY <2>2, BytesStay
  <2> QED BY <2>1, <2>2
<1> QED BY <1>1, <1>2, <1>3 DEF StateInv

LEMMA OtherLoopStep ==
  ASSUME IInv, EpollWait \/ SocketReadCallbackReturns \/ SocketLeave \/ UpdateOfDead \/ Stop
  PROVE  StateInv'
<1>1. Quiet /\ UNCHANGED <<in_buf, in_sent, in_eof>>
  BY DEF Quiet, EpollWait, SocketReadCallbackReturns, SocketLeave, UpdateOfDead, Stop,
         P!epoll_wait, P!ReadCallbackReturns, P!Leave, signal_polled, P!readVars, P!writeVars,
         P!inVars, signalVars, waitVars, echoVars, pipeVars
<1>2. at' = at \/ (at = "ended" /\ at' \in Ends)
  <2>1. CASE EpollWait \/ SocketReadCallbackReturns \/ SocketLeave
    BY <2>1 DEF EpollWait, SocketReadCallbackReturns, SocketLeave, waitVars
  <2>2. CASE UpdateOfDead \/ Stop
    <3>1. /\ at \in Waits /\ at' \in Ends
          /\ ~open \/ ~signal_open
      BY <2>2 DEF UpdateOfDead, Stop, Dispatch, InLoop, Ends
    <3>2. at = "waiting" => open /\ signal_open
      BY DEF IInv, WaitInv, UseInv, SignalInv, ReadPhase, WritePhase
    <3> QED BY <3>1, <3>2 DEF Waits
  <2> QED BY <2>1, <2>2
<1> QED BY <1>1, <1>2, QuietStep DEF taken

LEMMA OutsideStep ==
  ASSUME IInv, PeerReceives \/ Peer \/ Kill \/ UNCHANGED vars
  PROVE  StateInv'
<1>1. Quiet /\ at' = at
  BY DEF Quiet, PeerReceives, Peer, Kill, vars, P!PeerReceives, P!PeerSends,
         P!PeerStopsSending, P!PeerCloses, Raise, P!readVars, P!writeVars, P!updateVars,
         signalVars, waitVars, echoVars, pipeVars
<1>2. CASE P!PeerSends
  <2>1. ~in_eof /\ in_buf' = in_buf + 1 /\ in_sent' = in_sent + 1
    BY <1>2 DEF P!PeerSends
  <2>2. in_buf \in Int /\ in_sent \in Int
    BY BytesAreCounted DEF PipeOK
  <2>3. taken' = taken
    BY <2>1, <2>2 DEF taken
  <2> QED BY <1>1, <2>1, <2>3, QuietStep
<1>3. CASE ~P!PeerSends
  <2>1. UNCHANGED <<in_buf, in_sent>> /\ (in_eof => in_eof')
    BY <1>3 DEF PeerReceives, Peer, Kill, vars, P!PeerReceives, P!PeerStopsSending,
                P!PeerCloses, P!inVars, pipeVars
  <2> QED BY <1>1, <2>1, QuietStep DEF taken
<1> QED BY <1>2, <1>3

LEMMA Inductive == IInv /\ [Next]_vars => IInv'
<1> SUFFICES ASSUME IInv, [Next]_vars PROVE IInv'
  OBVIOUS
<1>1. SignalTypeOK'
  BY StepSignalType DEF IInv
<1>2. PP!IInv'
  BY StepPipe
<1>3. ASSUME UserCode PROVE StateInv'
  BY <1>3, StartStep, StartReadStep, WaitForReadStep, GiveUpStep, ReadBytesStep,
     StartWriteStep, WaitForWriteStep, WroteStep, CloseStep DEF UserCode
<1>4. ASSUME LoopStep PROVE StateInv'
  BY <1>4, SignalUpdateStep, SocketUpdateStep, SocketWriteStep, OtherLoopStep DEF LoopStep
<1>5. ASSUME PeerReceives \/ Peer \/ Kill \/ UNCHANGED vars PROVE StateInv'
  BY <1>5, OutsideStep
<1>6. StateInv'
  BY <1>3, <1>4, <1>5 DEF Next, Thread, Finished
<1> QED BY <1>1, <1>2, <1>6 DEF IInv, StateInv

LEMMA Invariance == Spec => []IInv
BY InitIInv, Inductive, PTL DEF Spec

\* The assertions of the el operations hold whenever echo_with_buf, write_all
\* and main()'s finally call them.
THEOREM AssertionsHold == Spec => []CallsMeetAssertions
BY Invariance, IInvImplies, PTL

\* A wait of the program never outlives, and never misses, the completion of
\* one of its two futures, whatever the loop dispatches in between.
THEOREM WaitsAreForPending == Spec => []NoCompletionMissed
BY Invariance, IInvImplies, PTL

\* An interrupt loses bytes only of the first read, when it was ready before
\* that, and of the write that it cancels: exactly what the kernel had not taken.
THEOREM InterruptLosesUnwritten == Spec => []InterruptLosesOnlyUnwritten
BY Invariance, IInvImplies, PTL

-----------------------------------------------------------------------------
(* Echo implements EchoService. *)

\* A step that moves no byte and decides nothing is not seen there.
LEMMA UnseenStep ==
  ASSUME UNCHANGED <<in_sent, in_eof, echoed, result>>, taken' = taken
  PROVE  UNCHANGED ES!vars
BY DEF ES!vars

\* A read that completes takes at most a buffer, when nothing is left to give.
LEMMA TakeStep ==
  ASSUME IInv, ReadPhase, ~read_value, ~read_ended, ReadEffect(BufSize),
         UNCHANGED <<echoed, result>>
  PROVE  [ES!Next]_(ES!vars)
<1>1. /\ taken \in Int /\ Len(echoed) = taken /\ result = "none" /\ PipeOK
      /\ in_buf \in Int /\ in_sent \in Int
  BY BytesAreCounted DEF IInv, BytesInv, UseInv, PipeOK
<1>2. UNCHANGED <<in_sent, in_eof>>
  BY DEF ReadEffect
<1>3. CASE in_buf' = in_buf
  BY <1>2, <1>3, UnseenStep DEF taken
<1>4. CASE in_buf' # in_buf
  <2>1. PICK m \in 0..BufSize : m <= in_buf /\ in_buf' = in_buf - m
    BY <1>4 DEF ReadEffect
  <2>2. m \in 1..BufSize /\ taken' = taken + m /\ taken + m <= in_sent
    BY <1>1, <1>2, <1>4, <2>1 DEF taken
  <2>3. ES!Take
    BY <1>1, <1>2, <2>2 DEF ES!Take
  <2> QED BY <2>3 DEF ES!Next
<1> QED BY <1>3, <1>4

\* A write that completes gives the next bytes that were taken.
LEMMA GiveStep ==
  ASSUME IInv, WritePhase, WritePhase', ~write_value, ~write_failed, Wrote,
         WriteEffect(Len(buf) - bytes_written),
         UNCHANGED <<buf, bytes_written, in_buf, in_sent, in_eof, result>>
  PROVE  [ES!Next]_(ES!vars)
<1> DEFINE n == Len(buf) - bytes_written
<1>1. /\ taken \in Int /\ buf \in Seq(Int) /\ Len(buf) \in Nat /\ result = "none"
      /\ echoed \in Seq(Int) /\ Len(echoed) \in Nat /\ bytes_written \in Nat
      /\ n \in Nat /\ n > 0 /\ out_sent \in Int /\ n = taken - Len(echoed)
      /\ \A i \in 1..Len(echoed) : echoed[i] = i
  <2>1. fresh = 0
    BY DEF fresh
  <2> QED BY <2>1, BytesAreCounted DEF IInv, BytesInv, UseInv, PipeOK
<1>2. taken' = taken
  BY DEF taken
<1>3. CASE out_sent' = out_sent
  <2>1. out_sent' - out_sent = 0
    BY <1>1, <1>3
  <2>2. echoed' = echoed
    BY <1>1, <2>1, WroteNothing
  <2> QED BY <1>2, <2>2, UnseenStep
<1>4. CASE out_sent' # out_sent
  <2>1. PICK m \in 1..n : out_sent' = out_sent + m
    BY <1>4 DEF WriteEffect
  <2>2. /\ m \in Nat /\ out_sent' - out_sent = m /\ bytes_written + m <= Len(buf)
        /\ m \in 1..(taken - Len(echoed))
    BY <1>1, <2>1
  <2>3. Len(echoed') = Len(echoed) + m
    BY <1>1, <2>2, WroteBytesOf
  <2>4. echoed' \in Seq(Int) /\ \A i \in 1..Len(echoed') : echoed'[i] = i
    BY WriteKeepsBytes DEF BytesInv
  <2> DEFINE g == [i \in 1..m |-> Len(echoed) + i]
  <2>5. g \in Seq(Int) /\ Len(g) = m /\ \A i \in 1..m : g[i] = Len(echoed) + i
    <3>1. g \in [1..m -> Int]
      BY <1>1
    <3> QED BY <2>2, <3>1
  <2> HIDE DEF g
  <2>6. /\ echoed \o g \in Seq(Int) /\ Len(echoed \o g) = Len(echoed) + m
        /\ \A i \in 1..(Len(echoed) + m) :
             (echoed \o g)[i] = IF i <= Len(echoed) THEN echoed[i] ELSE g[i - Len(echoed)]
    BY <1>1, <2>5, ConcatProperties
  <2> DEFINE h == echoed \o g
  <2>7. h \in Seq(Int) /\ Len(h) = Len(echoed) + m
    BY <2>6
  <2>8. \A i \in 1..(Len(echoed) + m) : h[i] = i
    <3> SUFFICES ASSUME NEW i \in 1..(Len(echoed) + m) PROVE h[i] = i
      OBVIOUS
    <3>1. h[i] = IF i <= Len(echoed) THEN echoed[i] ELSE g[i - Len(echoed)]
      BY <2>6
    <3> HIDE DEF h
    <3>2. CASE i <= Len(echoed)
      <4>1. i \in 1..Len(echoed)
        BY <1>1, <2>2, <3>2
      <4> QED BY <1>1, <3>1, <3>2, <4>1
    <3>3. CASE i > Len(echoed)
      <4>1. i - Len(echoed) \in 1..m /\ Len(echoed) + (i - Len(echoed)) = i
            /\ ~(i <= Len(echoed))
        BY <1>1, <2>2, <3>3
      <4>2. h[i] = g[i - Len(echoed)]
        BY <3>1, <4>1
      <4> QED BY <2>5, <4>1, <4>2
    <3> QED BY <1>1, <2>2, <3>2, <3>3
  <2> HIDE DEF h
  <2>9. \A i \in 1..Len(echoed') : echoed'[i] = h[i]
    <3> SUFFICES ASSUME NEW i \in 1..Len(echoed') PROVE echoed'[i] = h[i]
      OBVIOUS
    <3>1. i \in 1..(Len(echoed) + m) /\ echoed'[i] = i
      BY <2>3, <2>4
    <3>2. h[i] = i
      BY <2>8, <3>1
    <3> QED BY <3>1, <3>2
  <2>10. echoed' = h
    BY <2>3, <2>4, <2>7, <2>9, SeqEqual
  <2>11. echoed' = echoed \o g
    BY <2>10 DEF h
  <2>12. ES!Give
    BY <1>1, <1>2, <2>2, <2>11 DEF ES!Give, g
  <2> QED BY <2>12 DEF ES!Next
<1> QED BY <1>3, <1>4

\* The program is done with everything that was sent, or it failed.
LEMMA FinishStep ==
  ASSUME IInv, OpenFails \/ ReadInterrupted \/ ReadEnded \/ WriteInterrupted \/ WriteFailed
  PROVE  [ES!Next]_(ES!vars)
<1>1. /\ result = "none"
      /\ UNCHANGED <<in_buf, in_sent, in_eof, echoed>>
      /\ \/ result' = "failed"
         \/ result' = "complete" /\ ReadEnded
  BY DEF OpenFails, ReadInterrupted, ReadEnded, WriteInterrupted, WriteFailed, Going, IInv,
         UseInv, ReadPhase, WritePhase, P!CancelRead, P!ConsumeRead, P!CancelWrite,
         P!ConsumeWrite, P!close, P!inVars
<1>2. ReadEnded => in_eof /\ Len(echoed) = in_sent
  <2> SUFFICES ASSUME ReadEnded PROVE in_eof /\ Len(echoed) = in_sent
    OBVIOUS
  <2>1. in_eof /\ in_buf = 0 /\ Len(echoed) = taken
    BY DEF ReadEnded, Going, IInv, UseInv, BytesInv, ReadPhase
  <2>2. in_sent \in Int
    BY BytesAreCounted DEF PipeOK
  <2> QED BY <2>1, <2>2 DEF taken
<1>3. ES!Finish
  BY <1>1, <1>2 DEF ES!Finish, taken
<1> QED BY <1>3 DEF ES!Next

LEMMA EchoStep == IInv /\ [Next]_vars => [ES!Next]_(ES!vars)
<1> SUFFICES ASSUME IInv, [Next]_vars PROVE [ES!Next]_(ES!vars)
  OBVIOUS
<1>1. CASE StartRead
  <2>1. /\ ReadPhase /\ ~read_value /\ ~read_ended /\ UNCHANGED <<echoed, result>>
        /\ P!read(BufSize)
    BY <1>1 DEF StartRead, Going, ReadPhase, P!read
  <2> QED BY <2>1, ReadCall, TakeStep, BytesAreCounted
<1>2. CASE SocketUpdate
  <2>1. at = "waiting" /\ P!ReadHalf /\ UNCHANGED <<echoed, result>>
    BY <1>2 DEF SocketUpdate, Dispatch, InLoop, Waits, IInv, UseInv
  <2>2. CASE reading /\ ReadEffect(BufSize)
    <3>1. ReadPhase /\ ~read_value /\ ~read_ended
      BY <2>1, <2>2 DEF IInv, WaitInv, UseInv, ReadPhase, WritePhase
    <3> QED BY <2>1, <2>2, <3>1, TakeStep
  <2>3. CASE UNCHANGED <<reading, read_value, read_ended, in_buf>>
    <3>1. UNCHANGED <<in_sent, in_eof>>
      BY <2>1, ReadUpdate, BytesAreCounted
    <3> QED BY <2>1, <2>3, <3>1, UnseenStep DEF taken
  <2> QED BY <2>1, <2>2, <2>3, ReadUpdate, BytesAreCounted
<1>3. CASE StartWrite
  <2>1. /\ WritePhase /\ WritePhase' /\ ~write_value /\ ~write_failed /\ Wrote
        /\ UNCHANGED <<buf, bytes_written, result>>
        /\ P!write(Len(buf) - bytes_written)
    BY <1>3 DEF StartWrite, Going, WritePhase, P!write
  <2>2. Len(buf) - bytes_written \in 1..BufSize
    <3>1. bytes_written < Len(buf)
      BY <2>1 DEF IInv, BytesInv
    <3> QED BY <3>1, BytesAreCounted
  <2>3. /\ WriteEffect(Len(buf) - bytes_written)
        /\ UNCHANGED <<in_buf, in_sent, in_eof>>
    BY <2>1, <2>2, WriteCall, BytesAreCounted
  <2> QED BY <2>1, <2>3, GiveStep
<1>4. CASE SocketWriteHalf
  <2>1. CASE UNCHANGED <<writing, write_value, write_failed, write_nbytes, out_sent>>
    <3>1. /\ UNCHANGED <<in_buf, in_sent, in_eof, result>> /\ Wrote
          /\ out_sent' - out_sent = 0 /\ bytes_written \in Nat
      BY <1>4, <2>1, SocketWriteUse, BytesAreCounted DEF PipeOK
    <3>2. echoed' = echoed
      BY <3>1, WroteNothing DEF IInv, BytesInv
    <3> QED BY <3>1, <3>2, UnseenStep DEF taken
  <2>2. CASE writing /\ WriteEffect(write_nbytes)
    <3>1. /\ WritePhase /\ at = "waiting" /\ chained = "got_write" /\ chained' = chained
          /\ at' \in {"waiting", "got_write"}
      BY <1>4, <2>2, SocketWriteUse
         DEF IInv, UseInv, WritePhase, ReadPhase, completed, notify_complete, waitVars
    <3>2. write_nbytes = Len(buf) - bytes_written
      BY <2>2, <3>1 DEF IInv, BytesInv
    <3>3. WritePhase'
      BY <3>1 DEF WritePhase
    <3> QED BY <1>4, <2>2, <3>1, <3>2, <3>3, SocketWriteUse, GiveStep
  <2> QED BY <1>4, <2>1, <2>2, SocketWriteUse
<1>5. CASE OpenFails \/ ReadInterrupted \/ ReadEnded \/ WriteInterrupted \/ WriteFailed
  BY <1>5, FinishStep
<1>6. CASE Start \/ WaitForRead \/ ReadBytes \/ WaitForWrite \/ WroteAll \/ WroteSome
             \/ CloseSocket \/ Finally \/ CloseSignalFd
  <2>1. UNCHANGED <<in_buf, in_sent, in_eof, echoed, result>>
    BY <1>6 DEF Start, WaitForRead, ReadBytes, WaitForWrite, WroteAll, WroteSome, CloseSocket,
         Finally, CloseSignalFd, P!ConsumeRead, P!ConsumeWrite, P!close, P!inVars, echoVars,
         pipeVars
  <2> QED BY <2>1, UnseenStep DEF taken
<1>7. CASE \/ EpollWait \/ SignalUpdate \/ SocketReadCallbackReturns \/ SocketLeave
           \/ UpdateOfDead \/ Stop \/ PeerReceives \/ Kill \/ UNCHANGED vars
  <2>1. UNCHANGED <<in_buf, in_sent, in_eof, echoed, result>>
    BY <1>7 DEF EpollWait, SignalUpdate, SocketReadCallbackReturns, SocketLeave, UpdateOfDead,
         Stop, PeerReceives, Kill, vars, P!epoll_wait, P!ReadCallbackReturns, P!Leave,
         P!PeerReceives, P!inVars, echoVars, pipeVars
  <2> QED BY <2>1, UnseenStep DEF taken
<1>8. CASE Peer
  <2>1. UNCHANGED <<echoed, result>>
    BY <1>8 DEF Peer, echoVars
  <2>2. in_buf \in Int /\ in_sent \in Int
    BY BytesAreCounted DEF PipeOK
  <2>3. CASE P!PeerSends
    <3>1. /\ ~in_eof /\ in_buf' = in_buf + 1 /\ in_sent' = in_sent + 1 /\ in_eof' = in_eof
      BY <2>3 DEF P!PeerSends
    <3>2. taken' = taken
      BY <2>2, <3>1 DEF taken
    <3> QED BY <2>1, <3>1, <3>2 DEF ES!Next, ES!Peer
  <2>4. CASE P!PeerStopsSending \/ P!PeerCloses
    <3>1. /\ UNCHANGED <<in_buf, in_sent>> /\ in_eof' = TRUE
      BY <2>4 DEF P!PeerStopsSending, P!PeerCloses
    <3>2. CASE in_eof = TRUE
      BY <2>1, <3>1, <3>2, UnseenStep DEF taken
    <3>3. CASE ~in_eof
      BY <2>1, <3>1, <3>3 DEF ES!Next, ES!Peer, taken
    <3>4. in_eof \in BOOLEAN
      BY DEF IInv, PP!IInv, PP!TypeOK, PP!FlagsOK
    <3> QED BY <3>2, <3>3, <3>4
  <2> QED BY <1>8, <2>3, <2>4 DEF Peer
<1> QED
  BY <1>1, <1>2, <1>3, <1>4, <1>5, <1>6, <1>7, <1>8
     DEF Next, Thread, UserCode, LoopStep, Finished

\* Whatever the sizes of reads and writes, the buffers of the kernel and the
\* moment of a signal, every byte comes back once and in order, at most BufSize
\* bytes are held, and "complete" means that all came back.
THEOREM ImplementsService == Spec => ImplementsEchoService
<1>1. Init => ES!Init
  BY DEF Init, P!Init, ES!Init, taken
<1> QED
  BY <1>1, EchoStep, Invariance, PTL DEF Spec, ImplementsEchoService, ES!Spec
=============================================================================
