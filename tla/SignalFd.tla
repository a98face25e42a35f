------------------------------ MODULE SignalFd ------------------------------
(***************************************************************************)
(* el::SignalFd (el/signalfd.hpp, el/signalfd.cpp) and the interrupt that  *)
(* main.cpp derives from it: a future that completes when a signal, or an  *)
(* error, is read from the descriptor.  The module has the operations; the *)
(* programs that extend it say when they run.                              *)
(*                                                                         *)
(* SIGINT and SIGTERM are blocked while the program runs, so that a signal *)
(* stays pending until it is read; the kernel keeps one of each.           *)
(***************************************************************************)
CONSTANT Signals        \* the signals of sigint_sigterm_sigset()

VARIABLES
  signal_open,          \* the SignalFd exists
  signal_read_ready,    \* SignalFd::read_ready_
  signal_reading,       \* SignalFd::read_promise_ is active
  interrupt,            \* the future of get_interrupt_future()
  signals,              \* kernel: the pending signals
  signal_edge           \* kernel: the descriptor is in the epoll ready list

signalVars == <<signal_open, signal_read_ready, signal_reading, interrupt,
                signals, signal_edge>>

SignalInit ==
  /\ signal_open = TRUE
  /\ signal_read_ready = TRUE
  /\ signal_reading = FALSE
  /\ interrupt = "none"
  /\ signals = {}
  /\ signal_edge = FALSE

SignalTypeOK ==
  /\ signal_open \in BOOLEAN /\ signal_read_ready \in BOOLEAN
  /\ signal_reading \in BOOLEAN /\ signal_edge \in BOOLEAN
  /\ interrupt \in {"none", "pending", "ready"}
  /\ signals \subseteq Signals

\* SignalFd::try_doing_read(): one signal is read, and there may be more; or
\* EAGAIN; or an error, which completes the read as a signal does.
try_doing_read_signal ==
  \/ \E s \in signals : /\ signals' = signals \ {s}
                        /\ signal_read_ready' = TRUE
                        /\ signal_reading' = FALSE
  \/ /\ signals = {}
     /\ signal_read_ready' = FALSE
     /\ signal_reading' = TRUE
     /\ UNCHANGED signals
  \/ /\ signal_read_ready' = FALSE
     /\ signal_reading' = FALSE
     /\ UNCHANGED signals

\* SignalFd::read().
signal_read ==
  /\ ~signal_reading
  /\ IF signal_read_ready
       THEN try_doing_read_signal
       ELSE signal_reading' = TRUE /\ UNCHANGED <<signal_read_ready, signals>>
  /\ UNCHANGED <<signal_open, signal_edge>>

\* get_interrupt_future(signal_fd), the first thing the program does.  The
\* interrupt completes with the read: a signal outside of Signals, after which
\* it would read again, is not in the mask of the descriptor.
get_interrupt_future ==
  /\ signal_read
  /\ interrupt' = IF signal_reading' THEN "pending" ELSE "ready"

\* The same as below, setting the flag without trying to read.
signal_on_update_OnlyFlag ==
  /\ signal_read_ready' = TRUE
  /\ UNCHANGED <<signal_reading, interrupt, signals, signal_open, signal_edge>>

\* SignalFd::on_update(), for an event that says readable; a read that
\* completes takes the interrupt along.
signal_on_update ==
  /\ IF ~signal_read_ready /\ signal_reading
       THEN try_doing_read_signal
       ELSE signal_read_ready' = TRUE /\ UNCHANGED <<signal_reading, signals>>
  /\ interrupt' = IF signal_reading /\ ~signal_reading' THEN "ready" ELSE interrupt
  /\ UNCHANGED <<signal_open, signal_edge>>

\* The same as below, dropping the future without resetting the promise.
interrupt_cancel_KeepsPromise ==
  /\ interrupt' = "none"
  /\ UNCHANGED <<signal_reading, signal_open, signal_read_ready, signals, signal_edge>>

\* interruptor->cancel(): a pending interrupt cancels the read of the signal,
\* one that is there is dropped.
interrupt_cancel ==
  /\ interrupt' = "none"
  /\ signal_reading' = FALSE
  /\ UNCHANGED <<signal_open, signal_read_ready, signals, signal_edge>>

\* SignalFd::close(), which asserts that nothing is being read.
signal_close ==
  /\ ~signal_reading
  /\ signal_open' = FALSE
  /\ signal_edge' = FALSE
  /\ UNCHANGED <<signal_read_ready, signal_reading, interrupt, signals>>

\* The kernel: a signal arrives, and raises an edge on the descriptor.
Raise(s) ==
  /\ s \notin signals
  /\ signals' = signals \cup {s}
  /\ signal_edge' = signal_open
  /\ UNCHANGED <<signal_open, signal_read_ready, signal_reading, interrupt>>

\* What an event of the descriptor would say; epoll_wait drops an item of the
\* ready list that is not readable any more.
SignalIsReady == signal_edge /\ signals # {}

\* epoll_wait takes the item off the ready list.
signal_polled ==
  /\ signal_edge' = FALSE
  /\ UNCHANGED <<signal_open, signal_read_ready, signal_reading, interrupt, signals>>
=============================================================================
