# TLA+ specifications of tpf

`tpf` is an echo program on top of a small event-loop library, `el`: one thread,
edge-triggered `epoll`, and futures and promises that point at each other
without reference counts or locks. Nothing runs in parallel. What makes the
code hard is that nearly every function can run user code before it returns:
a promise calls the closure attached to it, the closure may destroy the object
whose method is on the stack, move or chain the futures that the library is
looking at, or cancel what is under way. The repository has no tests.

These modules describe that code, TLC checks them on small instances, and TLAPS
proves their invariants and most of their refinements for every instance.

## Inventory

| Component | Source | State | Operations | Modules |
|---|---|---|---|---|
| Loop | `el/loop.*`, the loop of `main()` | `registrants_`, `enqueued_actions_`, `spare_actions_buf_`, `mid_step_` | register, unregister, `schedule`, `has_stuff_to_do`, `full_step` | `LoopService`, `EventLoop` |
| Registrant | `el/fd_registrant.*` | `fd_`, `registered_index_` | constructor, `deregister_and_close`, destructor | `EventLoop` |
| Futures and promises | `el/future.hpp` | the pointers between promises and futures, attached callbacks, waiters, the pair that `cancel()` walks | construct, move, `then`, `cancellable_then`, `wait_with_callback`, supply, splice, `cancel`, `register_notify` | `Continuations`, `Futures`, `FuturesRefinement` |
| Intrusive list | `el/intrusive_list.hpp` | `next_` and `prev_` of nodes and anchors | construct, destroy, push, `detach`, move of a node, move and `swap` of a list | `WaiterLists`, `IntrusiveList` |
| Pipe | `el/pipe.*` | readiness flags, buffers, two promises, `destruct_pointer_` | `read`, `write`, cancellation, `on_update`, `close` | `Pipe` |
| Command line | `options.*` | the options parsed so far | `parse_command_line` | `Options` |
| wait_any | `el/wait_any.hpp` | one `wait_any_state` per wait, deleting itself | `wait_any`, `wait_interruptible`, `notify_complete` | `WaitAny` |
| SignalFd | `el/signalfd.*` | a readiness flag, a promise | `read`, `on_update`, `close`, the blocking of the signals | `SignalFd` |
| ListenSocket | `el/listen_socket.*` | a readiness flag, a promise | `accept`, `on_update` | `ListenSocket` |
| Client mode | `main.cpp` | the closures of the chain, the buffer | `echo_on_socket`, `echo_with_buf`, `write_all`, shutdown | `EchoService`, `Echo` |
| Listen mode | `main.cpp` | `AcceptLoopState`, `WaitCompleteState` | `accept_loop`, `wait_for_all_to_complete`, shutdown | `AcceptLoop` |
| Fifo mode | `main.cpp` | as client mode, with two Pipes | `echo_on_pipe` | the loop it shares with client mode: `Echo` |
| Opening fifos and sockets | `main.cpp` | none over time | `open_fifo`, `getaddrinfo`, `connect`, `bind` | not modelled |
| Fd, util, build | `el/fd.hpp`, `util.hpp`, `CMakeLists.txt` | an integer | | not modelled |

How they interact:

* `main()` builds the loop, schedules one action and steps the loop while
  `has_stuff_to_do()`. The action starts everything else.
* Pipe, SignalFd and ListenSocket derive from the registrant: the kernel holds
  their address in `epoll_event.data.ptr`, and `handle_wakeups()` calls
  `on_update` through it.
* Each of them owns promises. `read()`, `write()` and `accept()` hand out the
  matching future, and `on_update` supplies the promise, which runs the closures
  chained to that future on the same stack.
* `wait_any` puts nodes of its own into the promises of several futures, in
  intrusive lists; the first to complete takes the others out.
* The interrupt is one future, chained to the read of the SignalFd, on which
  every session waits together with its read, write or accept.
* Closures own the objects: the end of an echo closes the Pipe, the end of the
  program cancels the interrupt and closes the SignalFd.

What is hard, and what makes each component correct:

* **Loop.** Callbacks register, close and schedule while the batch or the action
  buffer is being walked. Correct: registrant vector and indices agree, the
  kernel holds no pointer of a dead object, actions run once, in order, and
  nothing starves.
* **Futures.** Any pointer may change while a closure runs. Correct: links are
  mutual, a closure has one owner, everything that waits hangs on one source,
  stages run in order and deliver where they were chained to, and no assertion
  fails in a program that keeps to the contract.
* **Pipe.** Edges come once. Correct: no wakeup is lost, the user's buffer is let
  go with the operation, and `on_update` survives the destruction of its object.
* **Intrusive list.** Aliasing of pointers when a list is empty. Correct: the
  rings stay rings, with one anchor each.
* **wait_any.** The state is deleted with a frame of it on the stack; the index
  must be that of the first to complete, and no node may stay behind.
* **SignalFd, ListenSocket.** As Pipe with one direction; the SignalFd is
  destroyed inside its own `on_update`.
* **The program.** Bytes are echoed in order and none twice, every session is waited
  for, and an interrupt ends the program if the peers let it.

`PROJECT.json` lists the hazards of the code line by line, with the properties
that stand guard over each.

## Modules

### EventLoop, against LoopService

`EventLoop` is the thread as a program counter: in `main`, in `epoll_wait`
(`polling`), between the events of a batch (`wakeups`), in a callback, between
actions, in an action. In the three places where user code runs (`setup`,
`callback`, `action`) it may construct a registrant, close one, and schedule an
action, any number of times, and it may fail to: `EPOLL_CTL_ADD` fails in the
constructor, `EPOLL_CTL_DEL` fails in `deregister_and_close()`, whose order of
steps (first `fd_` is released, then the loop is asked) decides what remains.
A registrant stands for an address, used again after its object is gone.
`epoll_wait` takes at most `MAXEVENTS` items off the kernel's ready list; an
event of the batch keeps the address it had. Calling `on_update` on an object
that is gone ends in `undefined`, after which nothing is said.

`LoopService` is the promise: a set of watched registrants and a FIFO queue.
The refinement maps the two action buffers, one behind the other, to the queue:
the swap of the buffers is then invisible, and that an action scheduled by a
running action lands behind those still in the other buffer is what has to be
shown.

### Futures, against Continuations

Addresses of promises and futures are model values, `kind` says what lives at
the address of a promise: an I/O object's or `wait_any`'s promise (`io`, `plain`),
or the promise inside the closure that `then` (`then`) or `cancellable_then`
(`cthen`) attached to another promise. A closure is named by the promise it
captured, so that the chain of closures is the function `callback`. `stack`
holds the calls from `supply_value_and_detach` into user code; between a call and
its return every operation may happen. One action is one call into the library
up to the next user code, and what follows the return of a closure (`then_f`'s
branches for a value, a value already there, and a future still pending, with
both splices) is an action of its own.

Assertions come in two sorts. Those that say what a caller may do (no `then` on
a default-constructed future, say) are guards: a program that fails them is
outside the contract. Those the caller cannot know about are modelled: the
action sets `aborted`.

`Usage` limits what user code does to what the program and `wait_any` do. With
`Usage = {}` everything stated below holds. Four further uses are legal by the
header and not made by the program, and each of them breaks a property (which
`MCFutures` shows when `Usage` in its configuration is set to it):

| Usage | Effect | Where |
|---|---|---|
| `stale_attached` | `cancellable_then` on a promise that ran such a callback before, or a move of it: `attached_promise_ptr_` still points at the destroyed promise, also after a `cancel()`; `attach()` asserts, the move constructor follows the pointer | `future.hpp:506`, `:326` |
| `wait_on_then` | a waiter on a future made by `then` stays in the old promise when the future is spliced: `NotifiesNeedMatchingFuture` fails | `future.hpp:573` |
| `pending_cthen` | a `cancellable_then` callback returning a pending future moves a downstream callback, and the pair of `cancel()` does not follow: `BackwardsLeadsUpstream` fails | `future.hpp:685` |
| `cancel_running` | cancelling a future whose chain leads through a closure that is running: the promise upstream has no callback any more, `cancel()` asserts | `future.hpp:612` |

A `cancel()` is one step. It checks what each hop upstream asserts, and not the order of the
writes within a hop.

With each of them `NoAssertionFails` fails too, sooner or later: it and `NoAssertionEverFails`
say that the assertions hold in the usage of the program, and nothing about these four. With
`Usage = {}` the model does not take such a step; with the kind in `Usage` it takes it and sets
`aborted`. The program has one `cancellable_then`, in `get_interrupt_future()`, whose
promise is in the SignalFd, which does not move. The futures that `wait_interruptible`,
`echo_with_buf` and `~AcceptLoopState()` cancel match promises with nothing upstream, and
`finally` cancels the interrupt when it has a value or nobody runs its closure. It would use `stale_attached` if a signal other than SIGINT and SIGTERM came
out of the descriptor, which its mask rules out.

`Continuations` is what a user believes: an operation with a list of stages
behind it and a sink at the end. `FuturesRefinement` reads stages and sink off
the pointers and states that each step is a step of `Continuations` or none.

### IntrusiveList, against WaiterLists

Pointers as two functions, anchors included, as the code has them: `next` and
`prev` of a detached node and of a list not constructed are NULL. `MoveList` and
`swap` keep the order of the assignments where two of them hit the same cell.
`WaiterLists` has sequences instead, one for each list that exists; the refinement walks along
`next_`. `Futures` uses that view of the waiters of a promise.

### Pipe

Both directions of one Pipe, its part in the loop (`epoll_wait`, `event`), and the
peer. Bytes are counted. `on_update` is split where user code runs: `ReadHalf`, the
read callback, `WriteHalf`, the write callback. Cancellation is the `cancel()` of
the two promise classes. A value stays with the future until it is taken, and
there is one future per direction, as in `echo_with_buf`. The kernel raises an edge
for bytes and for the end of file, and for space at least when the buffer was
full. Writing to a peer that is gone is an error or SIGPIPE, which the program
does not block (`killed`).

### WaitAny, SignalFd, ListenSocket

These three modules have variables, initial states and operations, and no
next-state relation: the programs below extend them and say when an operation
runs. `WaitAny` has a wait for the interrupt (future 0) or for one operation (future 1):
the nodes that are registered, the closure chained to the result, and the index
the closure is called with. `wait_any` looks at the two futures, the interrupt
first; `notify_complete` takes the other node out, deletes the state and runs the
closure. `SignalFd` is the object and the interrupt that `get_interrupt_future()` makes
of its read; the kernel keeps one signal of each kind until it is read.
`ListenSocket` numbers connections in the order in which they arrive. In both, a
try to read or accept yields a value and leaves the flag set, or EAGAIN, or an error.

### Echo, against EchoService

`main()` in client mode, from the connected socket to the end of the process. It
composes a `Pipe` (through `INSTANCE`, with all of its actions), a `SignalFd` and a
`WaitAny` on one thread. `at` is the piece of code that runs next, or `waiting` or
`ended`; the code between two waits runs inside the update of the object that
ended the wait, and only when it waits again does the loop go on: with the write
half of the Pipe's `on_update` if that was it, then with the rest of `batch`, the
objects whose events one `epoll_wait` returned together, in any order. An event
of an object that is gone leads to `undefined`; a signal still pending when
`~SignalBlockGuard()` unblocks it leads to `signalled`. Bytes are named by their
position in what the peer sends: `buf` holds the positions that the last `::read` copied,
and `echoed` those that `::write` took.

In `OpenFails` the model has a Pipe already and closes it, where the program has
none; no operation was called on it.

`EchoService` is the promise: bytes come back once and in order, at most a buffer of
them is under way, and "complete" is said only when everything sent has come
back. `taken` is computed from the kernel's buffer. Failing is allowed at any time,
since interrupts and errors fail a session at any time.

### AcceptLoop

`main()` in listen mode: `accept_loop`, `wait_for_all_to_complete` and the shutdown, on
a `SignalFd`, a `ListenSocket` and a `WaitAny`. A session is a future that completes at once, in
an update of its Pipe, or never. `futs` counts the sessions, `pending` are those that
have not completed, and `i` is the one that is waited for. The closures of
`accept_loop()` own the ListenSocket and the `AcceptLoopState` and destroy them on the way
out; where the destructor's assertion fails, the program is `aborted`.

### Options

One action is one turn of the loop in `parse_command_line`; the last is the
validation. Of a word only its role is kept, and `ValueOf` stands for
`std::from_chars`. The reference definition (`ModesOf`) looks at the command line as
pairs of names and values, without an index, and takes the good ports from the error message
(`options.cpp:102`), not from the predicate that the parser calls.

## What the runs check

| Run | Instance | Distinct states | Question |
|---|---|---|---|
| `MCEventLoop` | 3 registrants, 2 actions, batches of 2, one failing `EPOLL_CTL_DEL` | 112,440 | registry, kernel, assertions of the step, refinement of `LoopService`, actions run, edges are taken up |
| `MCFutures` | 4 promises, 2 futures, 1 closure, 1 waiter, nesting 2, `Usage = {}` | 374,931 | no assertion fails; owners, sources, waiters and the way upstream; refinement of `Continuations` |
| `MCFuturesAnyUsage` | 3 promises, 2 futures, 1 closure, 2 waiters, every usage | 156,800 | what holds in any case, until an assertion stops the program |
| `MCIntrusiveList` | 3 lists, 3 nodes | 302 | rings, and refinement of `WaiterLists` |
| `MCPipe` | sizes 1 and 2, buffers of 2 bytes, 3 bytes per direction | 82,121 | wakeups lost to bytes or space, buffers, destruction inside `on_update`, reads and writes end |
| `MCOptions` | every command line of up to 6 words, 9 to choose from | 2,501,639 | values land in their options, exactly the good lines are accepted |
| `MCEcho` | 1 signal, buffers of 3 bytes, 4 bytes | 40,961 | refinement of `EchoService`; assertions of what it calls, no completion missed, what an interrupt loses, the interrupt ends it, every byte comes back |
| `MCAcceptLoop` | 2 signals, 3 connections | 14,324 | no completion missed, sessions end before the program, what an interrupt cuts off, connections are taken, the shutdown ends |
| `MCEchoStaleEvent` | as `MCEcho` | violated | is `on_update` called on live objects only? |
| `MCAcceptLoopSessionDestroyed` | as `MCAcceptLoop` | violated | are running sessions never destroyed? |
| `MCPipeLostEof` | as `MCPipe` | violated | does a read at the end of file end? |
| `MCOptionsHelp` | one word | violated | does `tpf --help` print the help? |

The bounds, and why they are enough:

* *EventLoop.* Three registrants are the least for which swap-and-pop has an
  element removed, one moved and one that must stay, and with batches of two one
  ready item always waits for the next batch. Two actions are enough to be out of
  order. `schedule` takes an action again once it has run, and an address is not
  constructed on while `registrants_` still holds it; both bound the queues.
* *Futures.* A chain of two stages spliced into another operation needs four
  promises. Nesting 2 is a callback within a callback; an inner call
  reaches into a frame below it only to take a waiter out of a list being walked, for
  which two frames are enough. The instances with
  three promises have room for a second future or waiter instead.
* *Pipe.* With buffers of two bytes and requests of one and two there are short,
  full and refused reads and writes. Three bytes are one more than a buffer.
* *IntrusiveList.* The cases of `swap` and `move` are empty, one and several.
* *Echo.* Three bytes of buffer and of the kernel's buffers allow short reads, short
  writes and writes that must wait for space, and the fourth byte makes the buffer
  be used a second time with other contents. One kind of signal can come again after
  it was read. The peer sends finitely many bytes: `InterruptEndsProgram` covers finite
  bursts only. A peer that always has bytes ready and always takes them
  keeps `echo_with_buf` going in one call (`main.cpp:117`), and the loop never gets to the signal.
* *AcceptLoop.* With three connections one session can be ended, one be waited for
  and one come after it. Two signals are the interrupt and one that stays pending.
* *Options.* Six words are the three options of a good line and one too many, or one of
  the options of a good line twice; the numerals are those around the limits.

Symmetry is used in the runs with invariants or with a refinement that has no
liveness in it, and all constants that are permuted are used symmetrically.
Deadlock is checked in all but the Futures runs: there a program with every
address in use, or whose nesting is at its bound, has reached the end of the
instance. `CHECK_DEADLOCK FALSE` says no more than that.

### Fairness

`EventLoop`: weak fairness of "the thread takes a step of the loop, or user code
returns to it". The code is one thread that never waits except in `epoll_wait`, and
a blocking `epoll_wait` on an empty ready list is not enabled. Nothing is assumed
of edges, failures or what user code does before it returns. A batch is dispatched
from the front, and `epoll_wait` takes items in the order in which they became ready,
which is what the kernel's ready list does.

`Pipe`: weak fairness of the steps of the loop, callbacks returning included, by the
same argument; and of `PeerReceives`, without which no write can be said to end.
The part of `OperationsEnd` about reads speaks of reads with bytes waiting, for which
the peer need do nothing.

`Echo`: weak fairness of the thread, and of `PeerReceives`. `AcceptLoop`: weak fairness of
the thread only. Nobody has to connect, and no session has to end; the program does
not make its sessions end after an interrupt (`main.cpp:485`), and so
`DrainEndsProgram` is an implication: if every session ends, a signal ends the program.

## What is proved

With TLAPS, for all values of the constants that satisfy the modules' assumptions:
every invariant and the action property that the passing runs check, and three of the four
refinements. Few of these properties are inductive; each proof module starts with the
invariant that is, and shows action by action that it is kept.

| Module | Theorems | Argument |
|---|---|---|
| `EventLoopProofs` | `TypeCorrect`, `AssertionsHold`, `RegistryConsistent`, `KernelConsistent`, `ImplementsService` | `RegistryInv`, `StepInv` |
| `IntrusiveListProofs` | `ListsAreWellFormed`, `WalksEnd`, `NoNodeIsItsOwnNeighbour`, `ImplementsLists` | closed sets; rows |
| `FuturesProofs` | `LinksAreMutual`, `TypeCorrect`, `WaitersStayInOneList` | `MatchedPair`, `Lists` |
| `FuturesChainProofs` | `CancellablesCanBeCancelled`; for `Usage = {}` `NoAssertionEverFails`, `WaitersHaveAFuture`, `BackwardsAlwaysLeadsUpstream`, `ClosuresAlwaysHaveOneHome`, `PendingAlwaysHasOneSource` | `Structure`, `UsageOK`, `SourceOK` |
| `PipeProofs` | `TypeCorrect`, `BuffersAreHeld`, `NoWakeupIsLost`, `UpdateSurvivesDestruction` | `OperationInv`, `UpdateInv`, `WakeupInv` |
| `EchoProofs` | `AssertionsHold`, `WaitsAreForPending`, `InterruptLosesUnwritten`, `ImplementsService` | `UseInv`, `BytesInv`, on top of `PipeProofs` |
| `AcceptLoopProofs` | `TypeCorrect`, `AssertionsHold`, `WaitsAreForPending`, `SessionsAreWaitedFor`, `InterruptIsFinal` | `ListenInv`, `WaitInv`, `CutOffInv`, `DrainInv` |
| `OptionsProofs` | `StoredValuesAreTheirs`, `AcceptedExactly` | `AtNames`, `Explained` |

**EventLoop.** The invariant `IInv == TypeOK /\ RegistryInv /\ StepInv` adds:

* in `RegistryInv`, that `registrants` and `ready` hold nothing twice, that the kernel holds
  what the vector holds, that every live object is at its index, and, while no
  `EPOLL_CTL_DEL` has failed, that the vector holds live objects only. Without "nothing
  twice", swap-and-pop could leave a second copy of a pointer behind;
* in `StepInv`, at which locations `mid_step_` is set and `spare_actions_buf_` empty. The
  assertions speak of two locations only, and hold there because of the others.

The refinement of `LoopService` needs no more than that: with the two buffers behind each
other as the queue, `StepInv` makes the swap a stutter, since the spare buffer is
empty when it happens.

**IntrusiveList.** "Every walk reaches an anchor" is stated without walks: no nonempty set
of linked nodes is closed under `next_`. With the neighbours it is inductive: only with it does
`detach` of a node leave its neighbours different from itself.
The refinement of `WaiterLists` is about walks after all. A *row* of a list is a
sequence of distinct nodes through which `next_` leads from the anchor back to it. Every
list has one (`RowsInv`; each operation has a lemma that says what it does to a row, aliased
cells included), the walk that the refinement mapping takes is that row and
the only one (`WalkIsRow`), and every linked node is in a row, by the closed sets again.
Where a proof goes along a row it takes the least position that differs, which
exists in every nonempty set of naturals (`LeastNat`, from `WFMin`).

**Futures, in any usage.** `MatchedPair` says that `matching_promise_` and `matching_future_`
are two ends of one link. The hard case is `cancel()`, which frees a set of promises: those
it reaches upstream, defined by closed sets, have no future because the
assertions at each hop say so (`UpstreamIsHops`). `Lists` says that a waiter is at one
place of one list, in a promise or in a call that notifies; a splice and a move take lists
over whole. `CancellableOK` is why the cast in `cancel()` is sound.

**Futures, in the usage of the program.** No module-wide induction works on
`NoAssertionFails` alone: an assertion in `attach()` or in a destructor fails when the
pointers have gone wrong some calls earlier. `Structure` says which fields are set together
(`FieldsOK`), that a closure is the callback of one promise or in one call of the stack
(`HomesOK`), that the promise in a closure is live until the closure is destroyed
(`LiveOK`), and where a stale `attached_promise_ptr_` may lead (`AttachOK`). It holds in every usage
until the first assertion fails. That none does needs `UsageOK`, and that is where
`Usage = {}` comes in: each of the four other uses in the table above really leads
to a failing assertion, so the hypothesis cannot be dropped. `SourceOK` says that whatever is live is
in every set that holds the sources and is closed under callbacks; with the uniqueness of
homes, a promise is downstream of exactly one source.

**Pipe.** `NoLostWakeup` is about operations under way; the invariant (`WakeupInv`) has to say
the same of a Pipe on which nobody waits, because the next `read()` returns a pending future
whenever the flag is cleared. `UpdateInv` relates `destruct_pointer_` to the place
where `on_update` is. `OperationInv` ties operations to an open Pipe.

**Echo.** `EchoProofs` instantiates `PipeProofs` with the sizes the program uses, so that the
Pipe's own invariant is not proved again; `Echo` takes Pipe actions or leaves the Pipe
alone. `SignalInv`, `WaitInv` and `UseInv` say what each piece of code finds: which promises
are pending, which futures have values, what an index means. `BytesInv` counts: `buf` holds the
last positions that were taken, and what has been echoed and what is left of `buf` make up
`taken`, also between a `::write` and the addition to `bytes_written`. What an interrupt
loses is a difference of the two: nothing; or the first read, when the interrupt was ready
before it; or what the write that it cancels had still to give (`InterruptLosesOnlyUnwritten`;
`main.cpp:49` has a TODO about it). The refinement of `EchoService` follows from it step by step.

**AcceptLoop.** `DrainInv` says that the sessions before `i` have completed, whatever the order
in which they did, and that the SignalFd is closed with none pending. `CutOffInv` says when the
interrupt can be ready: before the first `accept()`, or because it ended a wait.

**Options.** On a command line of names and values the loop stands at odd positions,
what it stored for an option is the word behind its name (`AtNames`), and each error has its
reason in the line (`Explained`). `AcceptedExactly` follows because the reference
definition looks at the same pairs.

Assumptions used: NULL is none of the addresses; promises and closures, and lists and nodes,
are different things; there are finitely many nodes; `MAXEVENTS`, the sizes of reads, writes and
buffers are positive; the bounds on failures, bytes, connections and arguments are natural
numbers; `None` is not a word of the command line, and what `std::from_chars` yields of a word
is a 16-bit number or one of its two errors. TLC evaluates each of them in the runs.

## What is only model-checked

* Liveness (`ActionsAreRun`, `EdgesAreTakenUp`, `OperationsEnd`, `InterruptEndsProgram`,
  `EveryByteEchoed`, `ConnectionsAreTaken`, `DrainEndsProgram`): TLAPS does not
  reason about fairness and `ENABLED` here.
* `ImplementsContinuations`: `FuturesRefinement` collects the stages of an operation with a
  recursive operator, which the prover cannot use. The rows of `IntrusiveListProofs` show the
  way around that.
* The four runs that end in a violation: their traces are the result.

## Findings

* **`loop.cpp:100`**: an event of the batch whose registrant was closed by an earlier
  callback of the same batch is still delivered. The comment in front of it wonders
  about that. The program does it in client mode: SIGINT and an event of the socket
  arrive in one batch, the callback of the signal closes the Pipe, and the loop
  calls `on_update` on it (`MCEchoStaleEvent`).
* **`main.cpp:496`**: when the Pipe of a new connection cannot be made, `accept_loop`
  returns without waiting for the sessions that run, and the assertion of
  `~AcceptLoopState()` fails (`MCAcceptLoopSessionDestroyed`).
* **`pipe.cpp:117`**: a short read clears `read_ready_`; when the end of file arrived with
  the bytes, its edge is spent, and the next read never ends (`MCPipeLostEof`).
* **`options.cpp:119`**: the test of `--help` is inverted (`MCOptionsHelp`).

Two weaknesses that the program itself does not run into are hazards without a
run of their own:

* **`fd_registrant.cpp:26`**: when `EPOLL_CTL_DEL` fails, the object is destroyed and the
  loop keeps its pointer. `RegistryAgrees` excludes what follows such a failure; its conclusion
  without that condition (`BackPointingIndices`) is false then.
* **`future.hpp:506`**: the pointer left in `attached_promise_ptr_` fails an assertion on
  the next `cancellable_then`, or on a move (`Usage = {"stale_attached"}`).

## What is not modelled

* Log text, formatting and error structures: nothing reads them back.
* `open_fifo`, `getaddrinfo`, `bind`, `connect`, `fstat` and `fcntl`: system calls in a
  straight line, before an object exists whose state they could change.
* The stack depth in bytes: every completed stage calls the next on the same stack,
  which the TODO at `main.cpp:117` notes. The models bound the nesting instead.
* The result of `::close()`, which only changes a log line.
* Values of futures: `Futures` has none, `Echo` and `AcceptLoop` those that matter there.
* Fifo mode's two Pipes and the order in which `echo_on_pipe` closes them. The loop in
  between is that of `Echo`.
* The content of a session in `AcceptLoop`, and SIGPIPE raised by one. Client mode has both.
* `ListenSocket::close()`, which nothing calls, and the overload of `wait_any` for three futures.
* The addition of a registrant that fails while the program starts (`epoll_ctl` throws, and
  nothing catches it): `EventLoop` has it.

## Plan

1. Done: `EventLoop`, `Futures`, `Pipe`, `IntrusiveList`, `Options`, with their abstract
   specifications and the proofs above.
2. Done: `WaitAny`, `SignalFd`, `ListenSocket`; `Echo` with `EchoService`; `AcceptLoop`.
3. Done: the proofs of all invariants, and of the refinements of `LoopService`, `WaiterLists` and
   `EchoService`. Left: `ImplementsContinuations`, with the stages behind an operation
   collected by a recursive function along `callback`, and the chains of `Structure` as
   its invariant.
4. Fifo mode: a second Pipe in `Echo`, and the failures between the two `open_fifo`.

## Running

`tlc -config MCPipe.cfg Pipe.tla` and so on; `PROJECT.json` names module and config of each
run. `tlapm EventLoopProofs.tla` checks the proofs of a module.
