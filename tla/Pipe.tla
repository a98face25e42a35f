-------------------------------- MODULE Pipe --------------------------------
(***************************************************************************)
(* el::Pipe (el/pipe.hpp, el/pipe.cpp): one end of a FIFO or of a stream   *)
(* socket, registered for edge-triggered input and output, with at most    *)
(* one read and one write under way.                                       *)
(*                                                                         *)
(* A Pipe believes its descriptor readable (writable) as long as           *)
(* read_ready_ (write_ready_) is set, and then reads or writes at once; it *)
(* clears the flag when a read or write comes back short or with EAGAIN,   *)
(* and sets it again in on_update().  Bytes are counted, not named: what   *)
(* matters here is whether a waiting read or write is woken.               *)
(*                                                                         *)
(* on_update() handles the read half, which may run user code that         *)
(* destroys the Pipe, and then the write half.  User code also runs while  *)
(* the loop is elsewhere ("outside"): in callbacks of other objects,       *)
(* between epoll_wait and this on_update() among other moments.            *)
(*                                                                         *)
(* The descriptor, its peer and its epoll item are external: bytes wait in *)
(* two buffers, and a change that can end a wait raises the edge that the  *)
(* next epoll_wait turns into an event.                                    *)
(***************************************************************************)
EXTENDS Integers

CONSTANTS
  Sizes,      \* the sizes of requested reads and writes
  Capacity,   \* of each of the kernel's two buffers
  MaxSent     \* bound on the bytes sent in each direction

ASSUME SizesAssumption == Sizes \subseteq Nat \ {0}
ASSUME CapacityAssumption == Capacity \in Nat \ {0}
ASSUME MaxSentAssumption == MaxSent \in Nat

VARIABLES
  pc,               \* where the thread is in on_update()
  open,             \* the Pipe exists
  read_ready, write_ready,       \* read_ready_, write_ready_
  read_nbytes, write_nbytes,     \* read_nbytes_, write_nbytes_; 0: no buffer
  reading, writing,              \* read_promise_, write_promise_ are active
  read_value, write_value,       \* the user holds a completed future
  read_ended, write_failed,      \* the user saw the end of file, or an error
  destruct_pointer, \* destruct_pointer_ points at the local of on_update()
  is_destructed,    \* that local
  event,            \* the event that the loop holds for this Pipe
  edge,             \* kernel: the epoll item is in the ready list
  in_buf, out_buf,  \* kernel: bytes in the two buffers
  in_sent, out_sent,             \* kernel: bytes sent so far
  in_eof,           \* kernel: the peer sends no more
  out_closed,       \* kernel: the peer is gone
  killed            \* the process died of SIGPIPE

readVars == <<read_ready, read_nbytes, reading, read_value, read_ended>>
writeVars == <<write_ready, write_nbytes, writing, write_value, write_failed>>
updateVars == <<pc, open, destruct_pointer, is_destructed, event>>
inVars == <<in_buf, in_sent, in_eof>>
outVars == <<out_buf, out_sent, out_closed>>
vars == <<readVars, writeVars, updateVars, inVars, outVars, edge, killed>>

Locations == {"outside", "read_callback", "write_half", "write_callback"}
NoEvent == [in |-> FALSE, out |-> FALSE]
Least(a, b) == IF a < b THEN a ELSE b

Init ==
  /\ pc = "outside" /\ open = TRUE
  /\ read_ready = TRUE /\ write_ready = TRUE
  /\ read_nbytes = 0 /\ write_nbytes = 0
  /\ reading = FALSE /\ writing = FALSE
  /\ read_value = FALSE /\ write_value = FALSE
  /\ read_ended = FALSE /\ write_failed = FALSE
  /\ destruct_pointer = FALSE /\ is_destructed = FALSE
  /\ event = NoEvent /\ edge = TRUE
  /\ in_buf = 0 /\ out_buf = 0 /\ in_sent = 0 /\ out_sent = 0
  /\ in_eof = FALSE /\ out_closed = FALSE /\ killed = FALSE

InUserCode == ~killed /\ open /\ pc # "write_half"

-----------------------------------------------------------------------------
(* ::read and ::write, and what a Pipe does with their result. *)

Readable == in_buf > 0 \/ in_eof

\* The same as below, keeping read_ready_ after EAGAIN.
try_doing_read_StaysReady(n) ==
  /\ IF Readable
       THEN LET res == Least(n, in_buf)
            IN /\ in_buf' = in_buf - res
               /\ read_ready' = (res = n)
               /\ read_nbytes' = 0 /\ reading' = FALSE /\ read_value' = TRUE
               /\ read_ended' = (res = 0)
       ELSE /\ read_ready' = TRUE
            /\ read_nbytes' = n /\ reading' = TRUE
            /\ UNCHANGED <<in_buf, read_value, read_ended>>
  /\ UNCHANGED <<in_sent, in_eof>>

\* try_doing_read() for n bytes.  End of file reads 0 bytes and an error none,
\* and both complete the read; a short read means the buffer is drained.
try_doing_read(n) ==
  /\ IF Readable
       THEN LET res == Least(n, in_buf)
            IN /\ in_buf' = in_buf - res
               /\ read_ready' = (res = n)
               /\ read_nbytes' = 0 /\ reading' = FALSE /\ read_value' = TRUE
               /\ read_ended' = (res = 0)
       ELSE /\ read_ready' = FALSE
            /\ read_nbytes' = n /\ reading' = TRUE
            /\ UNCHANGED <<in_buf, read_value, read_ended>>
  /\ UNCHANGED <<in_sent, in_eof>>

\* The same as below, taking the -1 of EAGAIN for a count of bytes written.
try_doing_write_CountsError(n) ==
  LET res == Least(n, Capacity - out_buf)
  IN /\ out_buf' = out_buf + res
     /\ out_sent' = out_sent + res
     /\ write_ready' = (res = n)
     /\ write_nbytes' = IF res = 0 THEN n - (-1) ELSE 0
     /\ writing' = (res = 0)
     /\ write_value' = (res # 0)
     /\ UNCHANGED <<write_failed, killed, out_closed>>

\* try_doing_write() of n bytes.  Writing to a peer that is gone is an error
\* that completes the write, or SIGPIPE, which the program does not block.
try_doing_write(n) ==
  /\ IF out_closed
       THEN /\ killed' \in BOOLEAN
            /\ write_ready' = FALSE
            /\ write_nbytes' = 0 /\ writing' = FALSE /\ write_value' = TRUE
            /\ write_failed' = TRUE
            /\ UNCHANGED <<out_buf, out_sent>>
       ELSE LET res == Least(n, Capacity - out_buf)
            IN /\ out_buf' = out_buf + res
               /\ out_sent' = out_sent + res
               /\ write_ready' = (res = n)
               /\ write_nbytes' = IF res = 0 THEN n ELSE 0
               /\ writing' = (res = 0)
               /\ write_value' = (res # 0)
               /\ UNCHANGED <<write_failed, killed>>
  /\ UNCHANGED out_closed

-----------------------------------------------------------------------------
(* What user code does with a Pipe.  It holds one future for reading and   *)
(* one for writing at a time, and stops at the end of file and at an error *)
(* (echo_with_buf).                                                        *)

read(n) ==
  /\ InUserCode /\ ~reading /\ ~read_value /\ ~read_ended
  /\ IF read_ready
       THEN try_doing_read(n)
       ELSE /\ reading' = TRUE /\ read_nbytes' = n
            /\ UNCHANGED <<read_ready, read_value, read_ended, inVars>>
  /\ UNCHANGED <<writeVars, updateVars, outVars, edge, killed>>

write(n) ==
  /\ InUserCode /\ ~writing /\ ~write_value /\ ~write_failed
  /\ out_sent + n <= MaxSent
  /\ IF write_ready
       THEN try_doing_write(n)
       ELSE /\ writing' = TRUE /\ write_nbytes' = n
            /\ UNCHANGED <<write_ready, write_value, write_failed, outVars, killed>>
  /\ UNCHANGED <<readVars, updateVars, inVars, edge>>

\* The value of a completed future is taken, or dropped by cancel().
ConsumeRead ==
  /\ InUserCode /\ read_value
  /\ read_value' = FALSE
  /\ UNCHANGED <<read_ready, read_nbytes, reading, read_ended, writeVars, updateVars,
                 inVars, outVars, edge, killed>>

ConsumeWrite ==
  /\ InUserCode /\ write_value
  /\ write_value' = FALSE
  /\ UNCHANGED <<write_ready, write_nbytes, writing, write_failed, readVars, updateVars,
                 inVars, outVars, edge, killed>>

\* The same, leaving the buffer of the cancelled read with the Pipe.
CancelRead_KeepsBuffer ==
  /\ InUserCode /\ reading
  /\ reading' = FALSE
  /\ UNCHANGED <<read_ready, read_nbytes, read_value, read_ended, writeVars, updateVars,
                 inVars, outVars, edge, killed>>

CancelRead ==
  /\ InUserCode /\ reading
  /\ reading' = FALSE /\ read_nbytes' = 0
  /\ UNCHANGED <<read_ready, read_value, read_ended, writeVars, updateVars, inVars,
                 outVars, edge, killed>>

CancelWrite ==
  /\ InUserCode /\ writing
  /\ writing' = FALSE /\ write_nbytes' = 0
  /\ UNCHANGED <<write_ready, write_value, write_failed, readVars, updateVars, inVars,
                 outVars, edge, killed>>

\* Pipe::close() asserts that nothing is under way; ~Pipe() tells on_update().
close ==
  /\ InUserCode /\ ~reading /\ ~writing
  /\ open' = FALSE
  /\ is_destructed' = (is_destructed \/ destruct_pointer)
  /\ destruct_pointer' = FALSE
  /\ event' = IF pc = "outside" THEN NoEvent ELSE event
  /\ edge' = FALSE
  /\ UNCHANGED <<pc, readVars, writeVars, inVars, outVars, killed>>

-----------------------------------------------------------------------------
(* The loop: epoll_wait, and the two halves of on_update(). *)

epoll_wait ==
  /\ ~killed /\ pc = "outside" /\ edge /\ event = NoEvent
  /\ edge' = FALSE
  /\ event' = [in |-> Readable, out |-> out_buf < Capacity \/ out_closed]
  /\ UNCHANGED <<readVars, writeVars, pc, open, destruct_pointer, is_destructed,
                 inVars, outVars, killed>>

\* The same, without telling ~Pipe() where is_destructed is.
ReadHalf_NoDestructPointer ==
  /\ ~killed /\ open /\ pc = "outside" /\ event # NoEvent
  /\ is_destructed' = FALSE
  /\ IF event.in /\ ~read_ready /\ reading
       THEN /\ try_doing_read(read_nbytes)
            /\ pc' = IF Readable THEN "read_callback" ELSE "write_half"
       ELSE /\ read_ready' = (read_ready \/ event.in)
            /\ pc' = "write_half"
            /\ UNCHANGED <<read_nbytes, reading, read_value, read_ended, inVars>>
  /\ UNCHANGED <<open, event, destruct_pointer, writeVars, outVars, edge, killed>>

\* on_update() up to the return of try_doing_read() or, when that completes
\* the read, up to the user code that runs in it.
ReadHalf ==
  /\ ~killed /\ open /\ pc = "outside" /\ event # NoEvent
  /\ is_destructed' = FALSE
  /\ IF event.in /\ ~read_ready /\ reading
       THEN /\ try_doing_read(read_nbytes)
            /\ destruct_pointer' = TRUE
            /\ pc' = IF Readable THEN "read_callback" ELSE "write_half"
       ELSE /\ read_ready' = (read_ready \/ event.in)
            /\ pc' = "write_half"
            /\ UNCHANGED <<read_nbytes, reading, read_value, read_ended, destruct_pointer,
                          inVars>>
  /\ UNCHANGED <<open, event, writeVars, outVars, edge, killed>>

ReadCallbackReturns ==
  /\ ~killed /\ pc = "read_callback"
  /\ pc' = "write_half"
  /\ UNCHANGED <<readVars, writeVars, open, destruct_pointer, is_destructed,
                 event, inVars, outVars, edge, killed>>

\* The same as WriteHalf, noticing space only when a write waits for it.
WriteHalf_OnlyWhenWriting ==
  /\ ~killed /\ pc = "write_half" /\ ~is_destructed
  /\ destruct_pointer' = FALSE
  /\ event' = NoEvent
  /\ IF event.out /\ ~write_ready /\ writing
       THEN /\ try_doing_write(write_nbytes)
            /\ pc' = IF writing' THEN "outside" ELSE "write_callback"
       ELSE /\ pc' = "outside"
            /\ UNCHANGED <<writeVars, outVars, killed>>
  /\ UNCHANGED <<open, is_destructed, readVars, inVars, edge>>

WriteHalf ==
  /\ ~killed /\ pc = "write_half" /\ ~is_destructed
  /\ destruct_pointer' = FALSE
  /\ event' = NoEvent
  /\ IF event.out /\ ~write_ready /\ writing
       THEN /\ try_doing_write(write_nbytes)
            /\ pc' = IF writing' THEN "outside" ELSE "write_callback"
       ELSE /\ write_ready' = (write_ready \/ event.out)
            /\ pc' = "outside"
            /\ UNCHANGED <<write_nbytes, writing, write_value, write_failed, outVars,
                          killed>>
  /\ UNCHANGED <<open, is_destructed, readVars, inVars, edge>>

\* on_update() returns: the Pipe is gone, or the write callback returned.
Leave ==
  /\ ~killed
  /\ \/ pc = "write_half" /\ is_destructed
     \/ pc = "write_callback"
  /\ pc' = "outside"
  /\ event' = NoEvent
  /\ UNCHANGED <<readVars, writeVars, open, destruct_pointer, is_destructed,
                 inVars, outVars, edge, killed>>

LoopStep ==
  epoll_wait \/ ReadHalf \/ ReadCallbackReturns \/ WriteHalf \/ Leave

-----------------------------------------------------------------------------
(* The peer.  Incoming bytes and the end of file always raise an edge; space *)
(* in the outgoing buffer does so at least when the buffer was full.         *)

PeerSends ==
  /\ ~killed /\ ~in_eof /\ in_buf < Capacity /\ in_sent < MaxSent
  /\ in_buf' = in_buf + 1 /\ in_sent' = in_sent + 1
  /\ edge' = open
  /\ UNCHANGED <<in_eof, readVars, writeVars, updateVars, outVars, killed>>

PeerReceives ==
  /\ ~killed /\ ~out_closed /\ out_buf > 0
  /\ out_buf' = out_buf - 1
  /\ \/ edge' = open
     \/ out_buf < Capacity /\ UNCHANGED edge
  /\ UNCHANGED <<out_sent, out_closed, readVars, writeVars, updateVars, inVars,
                 killed>>

\* shutdown(), or the end of the process at the other end.
PeerStopsSending ==
  /\ ~killed /\ ~in_eof
  /\ in_eof' = TRUE
  /\ edge' = open
  /\ UNCHANGED <<in_buf, in_sent, readVars, writeVars, updateVars, outVars, killed>>

PeerCloses ==
  /\ ~killed /\ ~out_closed
  /\ in_eof' = TRUE /\ out_closed' = TRUE
  /\ edge' = open
  /\ UNCHANGED <<in_buf, in_sent, out_buf, out_sent, readVars, writeVars,
                 updateVars, killed>>

Finished == (killed \/ ~open) /\ UNCHANGED vars

Next ==
  \/ \E n \in Sizes : read(n) \/ write(n)
  \/ ConsumeRead \/ ConsumeWrite \/ CancelRead \/ CancelWrite \/ close
  \/ LoopStep
  \/ PeerSends \/ PeerReceives \/ PeerStopsSending \/ PeerCloses
  \/ Finished

\* The loop keeps stepping and callbacks return to it.  A peer that is not
\* gone goes on receiving.
Fairness == WF_vars(LoopStep) /\ WF_vars(PeerReceives)

Spec == Init /\ [][Next]_vars /\ Fairness

-----------------------------------------------------------------------------
(* Properties. *)

FlagsOK ==
  /\ read_ready \in BOOLEAN /\ reading \in BOOLEAN
  /\ read_value \in BOOLEAN /\ read_ended \in BOOLEAN
  /\ write_ready \in BOOLEAN /\ writing \in BOOLEAN
  /\ write_value \in BOOLEAN /\ write_failed \in BOOLEAN
  /\ open \in BOOLEAN /\ destruct_pointer \in BOOLEAN /\ is_destructed \in BOOLEAN
  /\ edge \in BOOLEAN /\ in_eof \in BOOLEAN /\ out_closed \in BOOLEAN
  /\ killed \in BOOLEAN
  /\ event \in [in : BOOLEAN, out : BOOLEAN]

CountsOK ==
  /\ pc \in Locations
  /\ read_nbytes \in Sizes \cup {0} /\ write_nbytes \in Sizes \cup {0}
  /\ in_buf \in 0..Capacity /\ out_buf \in 0..Capacity
  /\ in_sent \in 0..MaxSent /\ out_sent \in 0..MaxSent

TypeOK == FlagsOK /\ CountsOK

\* The Pipe keeps the user's buffer exactly as long as the operation is under
\* way: read(), write() and try_doing_read() assert both directions, and a
\* buffer kept longer would be written to after its owner freed it.
BufferWhileActive ==
  /\ reading <=> read_nbytes # 0
  /\ writing <=> write_nbytes # 0

\* Some later step of the loop will set the flag.
ReadWakeup == edge \/ (event.in /\ pc = "outside")
WriteWakeup == edge \/ (event.out /\ pc \in {"outside", "read_callback", "write_half"})

\* No lost wakeup by bytes or space: an operation waits only while its flag is
\* clear, and when there are bytes to read, or space to write or a peer that is
\* gone, an edge or an event is coming that makes on_update() try it.  A read
\* that waits for the end of file is not covered: see ReadsEndAtEndOfFile.
NoLostWakeup ==
  /\ reading => ~read_ready
  /\ writing => ~write_ready
  /\ ~killed => /\ reading /\ in_buf > 0 => ReadWakeup
                /\ writing /\ (out_buf < Capacity \/ out_closed) => WriteWakeup

\* on_update() learns that a callback destroyed the Pipe: it goes on to the
\* write half only with a Pipe that exists, and ~Pipe() writes through
\* destruct_pointer_ only while the frame that it points into is on the stack.
DestructionIsSeen ==
  /\ pc = "write_half" /\ ~is_destructed => open
  /\ destruct_pointer => pc \in {"read_callback", "write_half"}

\* A read that waits while bytes are there, and a write that waits, end.
OperationsEnd ==
  /\ reading /\ in_buf > 0 ~> ~reading \/ killed
  /\ writing ~> ~writing \/ killed

\* A read that waits when the end of file is there ends too: by the comment in
\* try_doing_read(), "we don't need to read until EAGAIN".
ReadsEndAtEndOfFile == reading /\ in_eof ~> ~reading \/ killed
=============================================================================
