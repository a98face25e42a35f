----------------------------- MODULE EchoService -----------------------------
(***************************************************************************)
(* What the program promises the peer of one echoed connection: every byte *)
(* it takes comes back, once and in order, before it takes more than a     *)
(* buffer of others, and it says that it is done only when everything that *)
(* was sent has come back.  It may fail at any moment.  Bytes are named by *)
(* their position in what the peer sends.                                  *)
(***************************************************************************)
EXTENDS Naturals, Sequences

CONSTANT BufSize      \* how much is taken before it is given back

VARIABLES
  sent, over,         \* the bytes the peer sent; it sends no more
  taken,              \* the bytes taken from it
  given,              \* what it was given, in order
  status

vars == <<sent, over, taken, given, status>>

Init ==
  /\ sent = 0 /\ over = FALSE /\ taken = 0 /\ given = <<>>
  /\ status = "running"

\* The peer is free to send and to stop.
Peer ==
  /\ ~over
  /\ \/ sent' = sent + 1 /\ UNCHANGED over
     \/ over' = TRUE /\ UNCHANGED sent
  /\ UNCHANGED <<taken, given, status>>

Take ==
  /\ status = "running" /\ Len(given) = taken
  /\ \E n \in 1..BufSize : taken + n <= sent /\ taken' = taken + n
  /\ UNCHANGED <<sent, over, given, status>>

Give ==
  /\ status = "running"
  /\ \E n \in 1..(taken - Len(given)) :
       given' = given \o [i \in 1..n |-> Len(given) + i]
  /\ UNCHANGED <<sent, over, taken, status>>

Finish ==
  /\ status = "running"
  /\ \/ status' = "complete" /\ over /\ Len(given) = sent
     \/ status' = "failed"
  /\ UNCHANGED <<sent, over, taken, given>>

\* A program that takes and gives back in one step does both.
Next == Peer \/ Take \/ Give \/ Finish

Spec == Init /\ [][Next]_vars
=============================================================================
