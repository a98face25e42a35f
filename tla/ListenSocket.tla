---------------------------- MODULE ListenSocket ----------------------------
(***************************************************************************)
(* el::ListenSocket (el/listen_socket.hpp, el/listen_socket.cpp): accepts  *)
(* one connection at a time from a descriptor registered for edge-triggered*)
(* input.  The module has the operations; the program that extends it says *)
(* when they run.                                                          *)
(*                                                                         *)
(* Connections are numbered in the order in which they arrive, which is    *)
(* that in which the kernel hands them out.                                *)
(***************************************************************************)
EXTENDS Naturals

CONSTANT MaxConnections   \* bound on the connections that arrive

ASSUME MaxConnectionsAssumption == MaxConnections \in Nat

VARIABLES
  listen_open,    \* the ListenSocket exists
  accept_ready,   \* accept_ready_
  accepting,      \* accept_promise_ is active
  accept_value,   \* what the completed future holds
  arrived,        \* kernel: the connections that arrived
  accepted,       \* kernel: those that were accepted, the first so many
  listen_edge     \* kernel: the descriptor is in the epoll ready list

listenVars == <<listen_open, accept_ready, accepting, accept_value, arrived,
                accepted, listen_edge>>

ListenInit ==
  /\ listen_open = FALSE
  /\ accept_ready = TRUE
  /\ accepting = FALSE
  /\ accept_value = "none"
  /\ arrived = 0 /\ accepted = 0
  /\ listen_edge = FALSE

ListenTypeOK ==
  /\ listen_open \in BOOLEAN /\ accept_ready \in BOOLEAN
  /\ accepting \in BOOLEAN /\ listen_edge \in BOOLEAN
  /\ accept_value \in {"none", "fd", "error"}
  /\ arrived \in 0..MaxConnections /\ accepted \in 0..arrived

ListenIsReady == accepted < arrived

listen ==
  /\ listen_open' = TRUE
  /\ UNCHANGED <<accept_ready, accepting, accept_value, arrived, accepted, listen_edge>>

\* A connection, and there may be more; or EAGAIN; or an error.
try_doing_accept ==
  \/ /\ ListenIsReady
     /\ accepted' = accepted + 1
     /\ accept_ready' = TRUE
     /\ accepting' = FALSE
     /\ accept_value' = "fd"
  \/ /\ ~ListenIsReady
     /\ accept_ready' = FALSE
     /\ accepting' = TRUE
     /\ UNCHANGED <<accept_value, accepted>>
  \/ /\ accept_ready' = FALSE
     /\ accepting' = FALSE
     /\ accept_value' = "error"
     /\ UNCHANGED accepted

accept ==
  /\ listen_open /\ ~accepting
  /\ IF accept_ready
       THEN try_doing_accept
       ELSE accepting' = TRUE /\ UNCHANGED <<accept_ready, accept_value, accepted>>
  /\ UNCHANGED <<listen_open, arrived, listen_edge>>

\* The same as below, without trying again.
listen_on_update_OnlyFlag ==
  /\ accept_ready' = TRUE
  /\ UNCHANGED <<accepting, accept_value, accepted, listen_open, arrived, listen_edge>>

\* ListenSocket::on_update(), for an event that says readable.
listen_on_update ==
  /\ IF ~accept_ready /\ accepting
       THEN try_doing_accept
       ELSE accept_ready' = TRUE /\ UNCHANGED <<accepting, accept_value, accepted>>
  /\ UNCHANGED <<listen_open, arrived, listen_edge>>

\* The value of the completed future is moved out.
take_value ==
  /\ accept_value' = "none"
  /\ UNCHANGED <<listen_open, accept_ready, accepting, arrived, accepted, listen_edge>>

\* The same as below, destroying the object with the promise active.
cancel_and_destroy_KeepsPromise ==
  /\ listen_open' = FALSE /\ listen_edge' = FALSE
  /\ accept_value' = "none"
  /\ UNCHANGED <<accept_ready, accepting, arrived, accepted>>

\* What is left of accept() is cancelled, a connection that it took is closed,
\* and the object is destroyed, and with it its place in the epoll set.
cancel_and_destroy ==
  /\ listen_open' = FALSE /\ listen_edge' = FALSE
  /\ accepting' = FALSE /\ accept_value' = "none"
  /\ UNCHANGED <<accept_ready, arrived, accepted>>

\* The kernel: a connection arrives, and raises an edge.
Arrive ==
  /\ listen_open /\ arrived < MaxConnections
  /\ arrived' = arrived + 1
  /\ listen_edge' = TRUE
  /\ UNCHANGED <<listen_open, accept_ready, accepting, accept_value, accepted>>

\* epoll_wait takes the item off the ready list.
listen_polled ==
  /\ listen_edge' = FALSE
  /\ UNCHANGED <<listen_open, accept_ready, accepting, accept_value, arrived, accepted>>
=============================================================================
