----------------------------- MODULE PipeProofs -----------------------------
(***************************************************************************)
(* Proofs about Pipe, for any buffers and sizes of reads and writes.       *)
(***************************************************************************)
EXTENDS Pipe, TLAPS

\* What an operation under way relies on.
OperationInv ==
  /\ reading => open
  /\ writing => open /\ ~write_failed /\ out_sent + write_nbytes <= MaxSent

\* Where on_update() is, and whether the Pipe it belongs to exists.
UpdateInv ==
  /\ is_destructed => ~open
  /\ pc = "read_callback" /\ ~is_destructed => open /\ destruct_pointer
  /\ pc = "write_half" /\ ~is_destructed => open
  /\ destruct_pointer => open /\ pc \in {"read_callback", "write_half"}

\* A cleared flag of a Pipe is set again, whether or not an operation waits:
\* the next read() or write() would wait for it.  A write that failed is the
\* last.
WakeupInv ==
  open /\ ~killed =>
    /\ ~read_ready /\ in_buf > 0 => ReadWakeup
    /\ ~write_ready /\ ~write_failed /\ (out_buf < Capacity \/ out_closed) => WriteWakeup

IInv ==
  /\ TypeOK /\ BufferWhileActive
  /\ reading => ~read_ready
  /\ writing => ~write_ready
  /\ OperationInv /\ UpdateInv /\ WakeupInv

\* The invariant says what the runs check.
LEMMA IInvImplies == IInv => TypeOK /\ BufferWhileActive /\ NoLostWakeup /\ DestructionIsSeen
BY DEF IInv, OperationInv, UpdateInv, WakeupInv, NoLostWakeup, DestructionIsSeen, TypeOK

\* TRUE and FALSE are the Booleans.
LEMMA Truth == \A x : (x = TRUE \/ x = FALSE) => x \in BOOLEAN
BY Zenon

LEMMA InitIInv == Init => IInv
<1> USE CapacityAssumption, MaxSentAssumption DEF Init
<1>1. Init => TypeOK
  BY Truth DEF TypeOK, FlagsOK, CountsOK, Locations, NoEvent
<1>2. Init => BufferWhileActive /\ ~reading /\ ~writing
  BY DEF BufferWhileActive
<1>3. Init => OperationInv /\ UpdateInv
  BY DEF OperationInv, UpdateInv
<1>4. Init => WakeupInv
  BY DEF WakeupInv
<1> QED BY <1>1, <1>2, <1>3, <1>4 DEF IInv

USE SizesAssumption, CapacityAssumption, MaxSentAssumption
    DEF readVars, writeVars, updateVars, inVars, outVars, vars

-----------------------------------------------------------------------------
(* Flags. *)

LEMMA StepFlags ==
  ASSUME FlagsOK, [Next]_vars
  PROVE  FlagsOK'
<1> USE Truth DEF FlagsOK
<1>1. ASSUME NEW n \in Sizes, read(n) PROVE FlagsOK'
  BY <1>1 DEF read, try_doing_read
<1>2. ASSUME NEW n \in Sizes, write(n) PROVE FlagsOK'
  BY <1>2 DEF write, try_doing_write
<1>3. CASE ConsumeRead \/ ConsumeWrite \/ CancelRead \/ CancelWrite
  BY <1>3 DEF ConsumeRead, ConsumeWrite, CancelRead, CancelWrite
<1>4. CASE close
  BY <1>4 DEF close, NoEvent
<1>5. CASE epoll_wait
  BY <1>5 DEF epoll_wait, Readable
<1>6. CASE ReadHalf
  BY <1>6 DEF ReadHalf, try_doing_read
<1>7. CASE ReadCallbackReturns \/ Leave
  BY <1>7 DEF ReadCallbackReturns, Leave, NoEvent
<1>8. CASE WriteHalf
  BY <1>8 DEF WriteHalf, try_doing_write, NoEvent
<1>9. CASE PeerSends \/ PeerReceives \/ PeerStopsSending \/ PeerCloses
  BY <1>9 DEF PeerSends, PeerReceives, PeerStopsSending, PeerCloses
<1>10. CASE UNCHANGED vars
  BY <1>10
<1> QED
  BY <1>1, <1>2, <1>3, <1>4, <1>5, <1>6, <1>7, <1>8, <1>9, <1>10
     DEF Next, LoopStep, Finished

-----------------------------------------------------------------------------
(* The calls of ::read and ::write. *)

\* A read that does not complete has found the buffer empty, and one that clears
\* the flag has emptied it.
LEMMA TryRead ==
  ASSUME CountsOK, NEW n \in Sizes, try_doing_read(n)
  PROVE  /\ read_nbytes' \in Sizes \cup {0}
         /\ in_buf' \in 0..Capacity /\ in_sent' = in_sent /\ in_eof' = in_eof
         /\ reading' <=> read_nbytes' # 0
         /\ ~read_ready' => in_buf' = 0
         /\ reading' => ~read_ready'
<1>1. n \in Nat \ {0} /\ in_buf \in 0..Capacity /\ Capacity \in Nat
  BY DEF CountsOK
<1>2. CASE Readable
  <2> DEFINE res == Least(n, in_buf)
  <2>1. res \in 0..in_buf /\ (res # n => res = in_buf)
    BY <1>1 DEF Least
  <2>2. /\ in_buf' = in_buf - res /\ read_nbytes' = 0 /\ reading' = FALSE
        /\ read_ready' <=> res = n
        /\ UNCHANGED <<in_sent, in_eof>>
    BY <1>2, Zenon DEF try_doing_read
  <2> HIDE DEF res
  <2> QED BY <1>1, <2>1, <2>2
<1>3. CASE ~Readable
  BY <1>1, <1>3 DEF try_doing_read, Readable
<1> QED BY <1>2, <1>3

\* A write that does not complete has found the buffer full, and one that
\* clears the flag has filled it or failed.
LEMMA TryWrite ==
  ASSUME CountsOK, NEW n \in Sizes, try_doing_write(n), out_sent + n <= MaxSent,
         ~write_failed
  PROVE  /\ write_nbytes' \in Sizes \cup {0}
         /\ out_buf' \in 0..Capacity /\ out_sent' \in 0..MaxSent
         /\ out_closed' = out_closed
         /\ writing' <=> write_nbytes' # 0
         /\ ~write_ready' /\ ~write_failed' => out_buf' = Capacity /\ ~out_closed
         /\ writing' => /\ ~write_ready' /\ ~write_failed'
                        /\ out_sent' + write_nbytes' <= MaxSent
<1>1. /\ n \in Nat \ {0} /\ out_buf \in 0..Capacity /\ Capacity \in Nat
      /\ out_sent \in 0..MaxSent /\ MaxSent \in Nat
  BY DEF CountsOK
<1>2. CASE out_closed
  BY <1>1, <1>2 DEF try_doing_write
<1>3. CASE ~out_closed
  <2> DEFINE res == Least(n, Capacity - out_buf)
  <2>1. /\ res \in 0..n /\ res <= Capacity - out_buf
        /\ res # n => res = Capacity - out_buf
    BY <1>1 DEF Least
  <2>2. /\ out_buf' = out_buf + res /\ out_sent' = out_sent + res
        /\ write_ready' <=> res = n
        /\ writing' <=> res = 0
        /\ write_nbytes' = IF res = 0 THEN n ELSE 0
        /\ UNCHANGED <<write_failed, out_closed>>
    BY <1>3, Zenon DEF try_doing_write
  <2> HIDE DEF res
  <2> QED BY <1>1, <1>3, <2>1, <2>2
<1> QED BY <1>2, <1>3

-----------------------------------------------------------------------------
(* Every step keeps the invariant. *)

CountsInv == CountsOK /\ BufferWhileActive /\ OperationInv
WaitInv == (reading => ~read_ready) /\ (writing => ~write_ready) /\ WakeupInv

LEMMA UserStep ==
  ASSUME IInv, \/ \E n \in Sizes : read(n) \/ write(n)
               \/ ConsumeRead \/ ConsumeWrite \/ CancelRead \/ CancelWrite \/ close
  PROVE  CountsInv' /\ WaitInv' /\ UpdateInv'
<1> USE DEF IInv, TypeOK, InUserCode
<1>1. ASSUME NEW n \in Sizes, read(n) PROVE CountsInv' /\ WaitInv' /\ UpdateInv'
  <2>1. UpdateInv'
    BY <1>1 DEF UpdateInv, read
  <2>2. CASE read_ready
    <3>1. try_doing_read(n)
      BY <1>1, <2>2 DEF read
    <3>2. CountsInv'
      BY <1>1, <3>1, TryRead DEF CountsInv, CountsOK, BufferWhileActive, OperationInv, read
    <3>3. WaitInv'
      BY <1>1, <3>1, TryRead DEF WaitInv, WakeupInv, ReadWakeup, WriteWakeup, read
    <3> QED BY <2>1, <3>2, <3>3
  <2>3. CASE ~read_ready
    <3>1. CountsInv'
      BY <1>1, <2>3 DEF CountsInv, CountsOK, BufferWhileActive, OperationInv, read
    <3>2. WaitInv'
      BY <1>1, <2>3 DEF WaitInv, WakeupInv, ReadWakeup, WriteWakeup, read
    <3> QED BY <2>1, <3>1, <3>2
  <2> QED BY <2>2, <2>3
<1>2. ASSUME NEW n \in Sizes, write(n) PROVE CountsInv' /\ WaitInv' /\ UpdateInv'
  <2>1. UpdateInv'
    BY <1>2 DEF UpdateInv, write
  <2>2. CASE write_ready
    <3>1. try_doing_write(n) /\ ~write_failed /\ out_sent + n <= MaxSent
      BY <1>2, <2>2 DEF write
    <3>2. CountsInv'
      BY <1>2, <3>1, TryWrite DEF CountsInv, CountsOK, BufferWhileActive, OperationInv, write
    <3>3. WaitInv'
      BY <1>2, <3>1, TryWrite DEF WaitInv, WakeupInv, ReadWakeup, WriteWakeup, write
    <3> QED BY <2>1, <3>2, <3>3
  <2>3. CASE ~write_ready
    <3>1. CountsInv'
      BY <1>2, <2>3 DEF CountsInv, CountsOK, BufferWhileActive, OperationInv, write
    <3>2. WaitInv'
      BY <1>2, <2>3 DEF WaitInv, WakeupInv, ReadWakeup, WriteWakeup, write
    <3> QED BY <2>1, <3>1, <3>2
  <2> QED BY <2>2, <2>3
<1>3. CASE ConsumeRead \/ ConsumeWrite
  <2>1. CountsInv' /\ UpdateInv'
    BY <1>3 DEF CountsInv, CountsOK, BufferWhileActive, OperationInv, UpdateInv,
                ConsumeRead, ConsumeWrite
  <2>2. WaitInv'
    BY <1>3 DEF WaitInv, WakeupInv, ReadWakeup, WriteWakeup, ConsumeRead, ConsumeWrite
  <2> QED BY <2>1, <2>2
<1>4. CASE CancelRead \/ CancelWrite
  <2>1. CountsInv' /\ UpdateInv'
    BY <1>4 DEF CountsInv, CountsOK, BufferWhileActive, OperationInv, UpdateInv,
                CancelRead, CancelWrite
  <2>2. WaitInv'
    BY <1>4 DEF WaitInv, WakeupInv, ReadWakeup, WriteWakeup, CancelRead, CancelWrite
  <2> QED BY <2>1, <2>2
<1>5. CASE close
  <2>1. CountsInv' /\ WaitInv'
    BY <1>5 DEF CountsInv, CountsOK, BufferWhileActive, OperationInv, WaitInv, WakeupInv, close
  <2>2. UpdateInv'
    BY <1>5 DEF UpdateInv, close
  <2> QED BY <2>1, <2>2
<1> QED BY <1>1, <1>2, <1>3, <1>4, <1>5

LEMMA EpollWaitStep ==
  ASSUME IInv, epoll_wait
  PROVE  CountsInv' /\ WaitInv' /\ UpdateInv'
<1> USE DEF IInv, TypeOK
<1>1. event'.in <=> Readable
  BY Zenon DEF epoll_wait
<1>2. event'.out <=> out_buf < Capacity \/ out_closed
  BY Zenon DEF epoll_wait
<1>3. /\ pc = "outside"
      /\ UNCHANGED <<readVars, writeVars, pc, open, destruct_pointer, is_destructed,
                     inVars, outVars, killed>>
  BY DEF epoll_wait
<1>4. CountsInv' /\ UpdateInv'
  BY <1>3 DEF CountsInv, CountsOK, BufferWhileActive, OperationInv, UpdateInv
<1>5. WaitInv'
  BY <1>1, <1>2, <1>3 DEF WaitInv, WakeupInv, ReadWakeup, WriteWakeup, Readable
<1> QED BY <1>4, <1>5

\* An event that says readable leaves the flag set, or the buffer drained.
LEMMA ReadHalfStep ==
  ASSUME IInv, ReadHalf
  PROVE  CountsInv' /\ WaitInv' /\ UpdateInv'
<1> USE DEF IInv, TypeOK
<1>1. /\ open /\ pc = "outside" /\ ~is_destructed'
      /\ UNCHANGED <<open, event, writeVars, outVars, edge, killed>>
  BY DEF ReadHalf
<1>2. CASE event.in /\ ~read_ready /\ reading
  <2>1. /\ read_nbytes \in Sizes
        /\ try_doing_read(read_nbytes) /\ destruct_pointer'
        /\ pc' \in {"read_callback", "write_half"}
    BY <1>2 DEF ReadHalf, CountsOK, BufferWhileActive
  <2>2. CountsInv'
    BY <1>1, <2>1, TryRead DEF CountsInv, CountsOK, BufferWhileActive, OperationInv, Locations
  <2>3. WaitInv'
    BY <1>1, <2>1, TryRead DEF WaitInv, WakeupInv, ReadWakeup, WriteWakeup
  <2>4. UpdateInv'
    BY <1>1, <2>1 DEF UpdateInv
  <2> QED BY <2>2, <2>3, <2>4
<1>3. CASE ~(event.in /\ ~read_ready /\ reading)
  <2>1. read_ready' <=> (read_ready \/ event.in)
    BY <1>3, Zenon DEF ReadHalf
  <2>2. /\ pc' = "write_half"
        /\ UNCHANGED <<read_nbytes, reading, read_value, read_ended, destruct_pointer, inVars>>
    BY <1>3 DEF ReadHalf
  <2>3. CountsInv'
    BY <1>1, <2>2 DEF CountsInv, CountsOK, BufferWhileActive, OperationInv, Locations
  <2>4. WaitInv'
    BY <1>1, <1>3, <2>1, <2>2 DEF WaitInv, WakeupInv, ReadWakeup, WriteWakeup
  <2>5. UpdateInv'
    BY <1>1, <2>2 DEF UpdateInv
  <2> QED BY <2>3, <2>4, <2>5
<1> QED BY <1>2, <1>3

LEMMA WriteHalfStep ==
  ASSUME IInv, WriteHalf
  PROVE  CountsInv' /\ WaitInv' /\ UpdateInv'
<1> USE DEF IInv, TypeOK
<1>1. /\ open /\ pc = "write_half" /\ ~is_destructed /\ ~destruct_pointer'
      /\ pc' \in {"outside", "write_callback"}
      /\ UNCHANGED <<open, is_destructed, readVars, inVars, edge>>
  BY DEF WriteHalf, UpdateInv
<1>2. ~event'.in /\ ~event'.out
  BY DEF WriteHalf, NoEvent
<1>3. UpdateInv'
  BY <1>1 DEF UpdateInv
<1>4. CASE event.out /\ ~write_ready /\ writing
  <2>1. /\ write_nbytes \in Sizes /\ try_doing_write(write_nbytes)
        /\ out_sent + write_nbytes <= MaxSent /\ ~write_failed /\ ~killed
    BY <1>4 DEF WriteHalf, CountsOK, BufferWhileActive, OperationInv
  <2>2. CountsInv'
    BY <1>1, <2>1, TryWrite DEF CountsInv, CountsOK, BufferWhileActive, OperationInv, Locations
  <2>3. WaitInv'
    BY <1>1, <1>2, <2>1, TryWrite DEF WaitInv, WakeupInv, ReadWakeup, WriteWakeup
  <2> QED BY <1>3, <2>2, <2>3
<1>5. CASE ~(event.out /\ ~write_ready /\ writing)
  <2>1. write_ready' <=> (write_ready \/ event.out)
    BY <1>5, Zenon DEF WriteHalf
  <2>2. UNCHANGED <<write_nbytes, writing, write_value, write_failed, outVars, killed>>
    BY <1>5 DEF WriteHalf
  <2>3. CountsInv'
    BY <1>1, <2>2 DEF CountsInv, CountsOK, BufferWhileActive, OperationInv, Locations
  <2>4. WaitInv'
    BY <1>1, <1>5, <2>1, <2>2 DEF WaitInv, WakeupInv, ReadWakeup, WriteWakeup
  <2> QED BY <1>3, <2>3, <2>4
<1> QED BY <1>4, <1>5

LEMMA ReturnStep ==
  ASSUME IInv, ReadCallbackReturns \/ Leave
  PROVE  CountsInv' /\ WaitInv' /\ UpdateInv'
<1> USE DEF IInv, TypeOK
<1>1. CountsInv'
  BY DEF CountsInv, CountsOK, BufferWhileActive, OperationInv, Locations,
         ReadCallbackReturns, Leave
<1>2. WaitInv'
  BY DEF WaitInv, WakeupInv, ReadWakeup, WriteWakeup, UpdateInv, ReadCallbackReturns, Leave
<1>3. UpdateInv'
  BY DEF UpdateInv, ReadCallbackReturns, Leave
<1> QED BY <1>1, <1>2, <1>3

LEMMA PeerStep ==
  ASSUME IInv, PeerSends \/ PeerReceives \/ PeerStopsSending \/ PeerCloses
  PROVE  CountsInv' /\ WaitInv' /\ UpdateInv'
<1> USE DEF IInv, TypeOK
<1>1. CountsInv'
  BY DEF CountsInv, CountsOK, BufferWhileActive, OperationInv,
         PeerSends, PeerReceives, PeerStopsSending, PeerCloses
<1>2. UpdateInv'
  BY DEF UpdateInv, PeerSends, PeerReceives, PeerStopsSending, PeerCloses
<1>3. CASE PeerReceives
  <2>1. open => edge' \/ (out_buf < Capacity /\ edge' = edge)
    BY <1>3, Zenon DEF PeerReceives
  <2>2. WaitInv'
    BY <1>3, <2>1 DEF WaitInv, WakeupInv, ReadWakeup, WriteWakeup, PeerReceives, CountsOK
  <2> QED BY <1>1, <1>2, <2>2
<1>4. CASE PeerSends \/ PeerStopsSending \/ PeerCloses
  <2>1. open => edge'
    BY <1>4, Zenon DEF PeerSends, PeerStopsSending, PeerCloses
  <2>2. WaitInv'
    BY <1>4, <2>1 DEF WaitInv, WakeupInv, ReadWakeup, WriteWakeup, PeerSends,
                      PeerStopsSending, PeerCloses
  <2> QED BY <1>1, <1>2, <2>2
<1> QED BY <1>3, <1>4

LEMMA Inductive == IInv /\ [Next]_vars => IInv'
<1> SUFFICES ASSUME IInv, [Next]_vars PROVE IInv'
  OBVIOUS
<1>1. FlagsOK'
  BY StepFlags DEF IInv, TypeOK
<1>2. CountsInv' /\ WaitInv' /\ UpdateInv'
  <2>1. CASE UNCHANGED vars
    BY <2>1 DEF IInv, TypeOK, CountsInv, CountsOK, BufferWhileActive, OperationInv, WaitInv,
                WakeupInv, ReadWakeup, WriteWakeup, UpdateInv
  <2> QED
    BY <2>1, UserStep, EpollWaitStep, ReadHalfStep, WriteHalfStep, ReturnStep, PeerStep
       DEF Next, LoopStep, Finished
<1> QED BY <1>1, <1>2 DEF IInv, TypeOK, CountsInv, WaitInv

LEMMA Invariance == Spec => []IInv
BY InitIInv, Inductive, PTL DEF Spec

\* Every variable keeps its type, and at most MaxSent bytes are ever promised
\* to the peer, also by a write that waits for space.
THEOREM TypeCorrect == Spec => []TypeOK
BY Invariance, IInvImplies, PTL

\* read_nbytes_ and write_nbytes_ are set exactly while an operation is under
\* way, as read(), write() and try_doing_read() assert.
THEOREM BuffersAreHeld == Spec => []BufferWhileActive
BY Invariance, IInvImplies, PTL

\* An edge for bytes or for space that try_doing_read(), try_doing_write() or
\* on_update() relies on is never spent before the operation that needs it.
THEOREM NoWakeupIsLost == Spec => []NoLostWakeup
BY Invariance, IInvImplies, PTL

\* on_update() never touches a Pipe that its read callback destroyed, and
\* ~Pipe() never writes into a frame that has returned.
THEOREM UpdateSurvivesDestruction == Spec => []DestructionIsSeen
BY Invariance, IInvImplies, PTL
=============================================================================
