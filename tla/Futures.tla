------------------------------ MODULE Futures ------------------------------
(***************************************************************************)
(* The futures and promises of el/future.hpp as a graph of pointers.       *)
(*                                                                         *)
(* A promise is in one of five states: its address is free; it is a root   *)
(* that some I/O object or wait_any will supply ("io" when cancellable,    *)
(* "plain" when not); or it was made by then_f ("then") or by              *)
(* cancellable_then_f ("cthen") and lives inside the closure that is the   *)
(* attached callback of another promise.  A closure is represented by the  *)
(* promise it captured, a closure given to wait_with_callback by a member  *)
(* of Callbacks.  An address of a future that is free holds a              *)
(* default-constructed future.                                             *)
(*                                                                         *)
(* supply_value_and_detach calls user code, which may use every operation  *)
(* of the library before it returns; `stack` holds these calls, the        *)
(* innermost first.  Values carry no data: only whether a future has one   *)
(* matters to the pointers.  `aborted` becomes TRUE when an assertion of   *)
(* the library itself fails, or a pointer to a destroyed promise is        *)
(* followed; assertions on what its caller may do are the guards of the    *)
(* operations.                                                             *)
(*                                                                         *)
(* Usage says which legal uses of the library are made beyond those that   *)
(* main.cpp and wait_any.hpp make: {} is the program as it stands.         *)
(*   "wait_on_then"    waiting with wait_any for a future made by then     *)
(*   "pending_cthen"   a callback of cancellable_then returns a future     *)
(*                     that has no value yet                               *)
(*   "stale_attached"  a promise that ran a callback of cancellable_then   *)
(*                     is chained with it once more, or moved              *)
(*   "cancel_running"  cancelling a future while the closure of a promise  *)
(*                     upstream of it is running                           *)
(***************************************************************************)
EXTENDS Integers, Sequences, FiniteSets

CONSTANTS
  Promises,    \* addresses of promises
  Futures,     \* addresses of futures
  Callbacks,   \* closures given to wait_with_callback
  Notifies,    \* future_notify nodes, as those of wait_any_state
  NULL,
  MaxDepth,    \* bound on nested calls into user code
  Usage

ASSUME NullAssumption == NULL \notin Promises \cup Futures \cup Callbacks
ASSUME DisjointAssumption == Promises \cap Callbacks = {}

VARIABLES
  kind,              \* what lives at each promise address
  matching_future,   \* base_promise::matching_future_
  callback,          \* base_promise::attached_callback_
  notifies,          \* base_promise::completion_notifies_
  attached,          \* cancellable_promise::attached_promise_ptr_
  backwards,         \* cancellable_then_f_promise_base::backwards_pointed_promise_
  matching_promise,  \* future::matching_promise_
  has_value,         \* the futures whose value_ is set
  cancellable,       \* the futures whose static type is cancellable_future
  stack,             \* the calls into user code under way, innermost first
  aborted            \* an assertion of the library failed

promiseVars == <<kind, matching_future, callback, notifies>>
chainVars == <<attached, backwards>>
futureVars == <<matching_promise, has_value, cancellable>>
vars == <<promiseVars, chainVars, futureVars, stack, aborted>>

Kinds == {"free", "plain", "io", "then", "cthen"}
Roots == {"plain", "io"}
UsageKinds == {"wait_on_then", "pending_cthen", "stale_attached", "cancel_running"}

ASSUME UsageAssumption == Usage \subseteq UsageKinds

\* The frames of the stack.
UserFrame(c)      == [call |-> "user", to |-> c]      \* a wait_with_callback closure
ThenFrame(q)      == [call |-> "then", to |-> q]      \* fn of the closure of q
NotifyFrame(list) == [call |-> "notify", to |-> list] \* future_completed of a waiter
DestroyFrame(q)   == [call |-> "destroy", to |-> q]   \* the closure of q is finished

Elements(s) == {s[i] : i \in DOMAIN s}

\* Of a list that holds x at most once.
Without(s, x) ==
  IF x \in Elements(s)
    THEN LET k == CHOOSE k \in DOMAIN s : s[k] = x
         IN SubSeq(s, 1, k - 1) \o SubSeq(s, k + 1, Len(s))
    ELSE s

NotifyFrames == {i \in DOMAIN stack : stack[i].call = "notify"}
Registered == (UNION {Elements(notifies[p]) : p \in Promises})
                \cup (UNION {Elements(stack[i].to) : i \in NotifyFrames})

IsPending(f) == matching_promise[f] # NULL
IsDefault(f) == matching_promise[f] = NULL /\ f \notin has_value

\* Code outside the library is running: the loop, or the innermost call.
InUserCode == ~aborted /\ (stack # <<>> => Head(stack).call # "destroy")

Running(q) == \E i \in DOMAIN stack : stack[i] = ThenFrame(q)

\* The promises whose completion waits for that of q: those that live in the
\* closure of q, in the closures of these, and so on.
Downstream(q) ==
  {r \in Promises : \A S \in SUBSET Promises :
     (q \in S /\ \A x \in S : callback[x] \in Promises => callback[x] \in S)
       => r \in S}

\* The promises that cancel() reaches from q along backwards_pointed_promise_.
Upstream(q) ==
  {r \in Promises : \A S \in SUBSET Promises :
     (q \in S /\ \A x \in S : backwards[x] # NULL => backwards[x] \in S)
       => r \in S}

Init ==
  /\ kind = [p \in Promises |-> "free"]
  /\ matching_future = [p \in Promises |-> NULL]
  /\ callback = [p \in Promises |-> NULL]
  /\ notifies = [p \in Promises |-> <<>>]
  /\ attached = [p \in Promises |-> NULL]
  /\ backwards = [p \in Promises |-> NULL]
  /\ matching_promise = [f \in Futures |-> NULL]
  /\ has_value = {}
  /\ cancellable = {}
  /\ stack = <<>>
  /\ aborted = FALSE

Abort ==
  /\ aborted' = TRUE
  /\ UNCHANGED <<promiseVars, chainVars, futureVars, stack>>

-----------------------------------------------------------------------------
(* Roots and the futures that match them. *)

NewRoot(p, k) ==
  /\ InUserCode /\ kind[p] = "free" /\ k \in Roots
  /\ kind' = [kind EXCEPT ![p] = k]
  /\ UNCHANGED <<matching_future, callback, notifies, chainVars, futureVars,
                 stack, aborted>>

\* ~base_promise() and ~intrusive_list() assert that nothing depends on p.
DestroyRoot(p) ==
  /\ InUserCode /\ kind[p] \in Roots
  /\ matching_future[p] = NULL /\ callback[p] = NULL /\ notifies[p] = <<>>
  /\ kind' = [kind EXCEPT ![p] = "free"]
  /\ attached' = [attached EXCEPT ![p] = NULL]
  /\ UNCHANGED <<matching_future, callback, notifies, backwards, futureVars,
                 stack, aborted>>

\* future(base_promise<T> *): the promise of an I/O object is used again and
\* again, each time in default-constructed state.
MakeFuture(p, f) ==
  /\ InUserCode /\ kind[p] \in Roots
  /\ matching_future[p] = NULL /\ callback[p] = NULL
  /\ IsDefault(f)
  /\ matching_future' = [matching_future EXCEPT ![p] = f]
  /\ matching_promise' = [matching_promise EXCEPT ![f] = p]
  /\ cancellable' = IF kind[p] = "io" THEN cancellable \cup {f} ELSE cancellable
  /\ UNCHANGED <<kind, callback, notifies, chainVars, has_value, stack, aborted>>

\* The same, leaving matching_future_ at the moved-from address.
MoveFuture_NoBackPointer(f, g) ==
  /\ InUserCode /\ IsPending(f) /\ IsDefault(g)
  /\ matching_promise' = [matching_promise EXCEPT ![g] = matching_promise[f],
                                                  ![f] = NULL]
  /\ has_value' = IF f \in has_value THEN (has_value \ {f}) \cup {g} ELSE has_value
  /\ \/ /\ f \in cancellable
        /\ cancellable' = (cancellable \ {f}) \cup {g}
     \/ cancellable' = cancellable \ {f}
  /\ UNCHANGED <<promiseVars, chainVars, stack, aborted>>

\* The same, leaving a copy of the value behind, as moving a std::optional does.
MoveFuture_CopiesValue(f, g) ==
  /\ InUserCode /\ ~IsDefault(f) /\ IsDefault(g)
  /\ matching_promise' = [matching_promise EXCEPT ![g] = matching_promise[f],
                                                  ![f] = NULL]
  /\ matching_future' = [p \in Promises |->
                           IF p = matching_promise[f] THEN g ELSE matching_future[p]]
  /\ has_value' = IF f \in has_value THEN has_value \cup {g} ELSE has_value
  /\ \/ /\ f \in cancellable
        /\ cancellable' = (cancellable \ {f}) \cup {g}
     \/ cancellable' = cancellable \ {f}
  /\ UNCHANGED <<kind, callback, notifies, chainVars, stack, aborted>>

\* future(future&&) and operator=(future&&); a cancellable_future may be
\* moved into a plain one, which loses cancel().
MoveFuture(f, g) ==
  /\ InUserCode /\ ~IsDefault(f) /\ IsDefault(g)
  /\ matching_promise' = [matching_promise EXCEPT ![g] = matching_promise[f],
                                                  ![f] = NULL]
  /\ matching_future' = [p \in Promises |->
                           IF p = matching_promise[f] THEN g ELSE matching_future[p]]
  /\ has_value' = IF f \in has_value THEN (has_value \ {f}) \cup {g} ELSE has_value
  /\ \/ /\ f \in cancellable
        /\ cancellable' = (cancellable \ {f}) \cup {g}
     \/ cancellable' = cancellable \ {f}
  /\ UNCHANGED <<kind, callback, notifies, chainVars, stack, aborted>>

AttachedIsPaired(p) == attached[p] # NULL => backwards[attached[p]] = p

\* The move constructor of a promise, as when the vector of interruptors of
\* AcceptLoopState grows.
MovePromise(p, r) ==
  /\ InUserCode /\ kind[p] \in Roots /\ kind[r] = "free"
  /\ AttachedIsPaired(p)
  /\ kind' = [kind EXCEPT ![r] = kind[p], ![p] = "free"]
  /\ matching_future' = [matching_future EXCEPT ![r] = matching_future[p],
                                                ![p] = NULL]
  /\ matching_promise' = [f \in Futures |->
                            IF f = matching_future[p] THEN r ELSE matching_promise[f]]
  /\ callback' = [callback EXCEPT ![r] = callback[p], ![p] = NULL]
  /\ notifies' = [notifies EXCEPT ![r] = notifies[p], ![p] = <<>>]
  /\ attached' = [attached EXCEPT ![r] = attached[p], ![p] = NULL]
  /\ backwards' = [q \in Promises |->
                     IF q = attached[p] THEN r ELSE backwards[q]]
  /\ UNCHANGED <<has_value, cancellable, stack, aborted>>

\* The constructor asserts it through attached_promise_ptr_, which outlives
\* the closure that it points into.
MovePromise_Aborts(p) ==
  /\ InUserCode /\ "stale_attached" \in Usage
  /\ kind[p] \in Roots /\ ~AttachedIsPaired(p)
  /\ Abort

-----------------------------------------------------------------------------
(* Waiting and chaining. *)

\* Consuming a value: value(), or then / wait_with_callback on a future that
\* has one, which call the closure at once in the caller's frame.
TakeValue(f) ==
  /\ InUserCode /\ f \in has_value
  /\ has_value' = has_value \ {f}
  /\ cancellable' = cancellable \ {f}
  /\ UNCHANGED <<promiseVars, chainVars, matching_promise, stack, aborted>>

register_notify(f, n) ==
  /\ InUserCode /\ IsPending(f) /\ n \notin Registered
  /\ LET p == matching_promise[f]
     IN /\ kind[p] # "then" \/ "wait_on_then" \in Usage
        /\ notifies' = [notifies EXCEPT ![p] = Append(@, n)]
  /\ UNCHANGED <<kind, matching_future, callback, chainVars, futureVars, stack,
                 aborted>>

\* unregister_self(): the node leaves whatever list holds it, that of a
\* promise or the one that notify_and_detach_completions() is working through.
unregister_self(n) ==
  /\ InUserCode /\ n \in Registered
  /\ notifies' = [p \in Promises |-> Without(notifies[p], n)]
  /\ stack' = [i \in DOMAIN stack |->
                 IF i \in NotifyFrames THEN NotifyFrame(Without(stack[i].to, n))
                                       ELSE stack[i]]
  /\ UNCHANGED <<kind, matching_future, callback, chainVars, futureVars, aborted>>

\* A future that has waiters may not be chained, waited for with a callback,
\* cancelled or returned from a callback (the comment on completion_notifies_,
\* and the assertion in cancel()).
Unwaited(f) == IsPending(f) /\ notifies[matching_promise[f]] = <<>>

wait_with_callback(f, c) ==
  /\ InUserCode /\ Unwaited(f)
  /\ \A p \in Promises : callback[p] # c
  /\ LET p == matching_promise[f]
     IN /\ callback' = [callback EXCEPT ![p] = c]
        /\ matching_future' = [matching_future EXCEPT ![p] = NULL]
  /\ matching_promise' = [matching_promise EXCEPT ![f] = NULL]
  /\ cancellable' = cancellable \ {f}
  /\ UNCHANGED <<kind, notifies, chainVars, has_value, stack, aborted>>

\* What then_f and cancellable_then_f share: promise q moves into the closure
\* that becomes the callback of the promise of f, and g is q's future.
Chain(f, q, g) ==
  LET p == matching_promise[f]
  IN /\ Unwaited(f) /\ kind[q] = "free" /\ IsDefault(g)
     /\ callback' = [callback EXCEPT ![p] = q]
     /\ matching_future' = [matching_future EXCEPT ![p] = NULL, ![q] = g]
     /\ matching_promise' = [matching_promise EXCEPT ![f] = NULL, ![g] = q]
     /\ UNCHANGED <<notifies, has_value, stack, aborted>>

\* The same as then_f, giving the new future the type of the old one.
then_f_KeepsType(f, q, g) ==
  /\ InUserCode
  /\ Chain(f, q, g)
  /\ kind' = [kind EXCEPT ![q] = "then"]
  /\ cancellable' = IF f \in cancellable THEN (cancellable \ {f}) \cup {g}
                                         ELSE cancellable
  /\ UNCHANGED chainVars

then_f(f, q, g) ==
  /\ InUserCode
  /\ Chain(f, q, g)
  /\ kind' = [kind EXCEPT ![q] = "then"]
  /\ cancellable' = cancellable \ {f}
  /\ UNCHANGED chainVars

Unattached(f) == IsPending(f) /\ attached[matching_promise[f]] = NULL

\* The same as below, forgetting attach().
cancellable_then_f_Unattached(f, q, g) ==
  /\ InUserCode /\ f \in cancellable /\ Unattached(f)
  /\ Chain(f, q, g)
  /\ kind' = [kind EXCEPT ![q] = "cthen"]
  /\ cancellable' = (cancellable \ {f}) \cup {g}
  /\ UNCHANGED chainVars

\* attach() makes the pair of pointers along which cancel() goes upstream.
cancellable_then_f(f, q, g) ==
  /\ InUserCode /\ f \in cancellable /\ Unattached(f)
  /\ Chain(f, q, g)
  /\ kind' = [kind EXCEPT ![q] = "cthen"]
  /\ cancellable' = (cancellable \ {f}) \cup {g}
  /\ attached' = [attached EXCEPT ![matching_promise[f]] = q]
  /\ backwards' = [backwards EXCEPT ![q] = matching_promise[f]]

\* attach() asserts that nothing is attached to the promise yet.
cancellable_then_f_Aborts(f) ==
  /\ InUserCode /\ "stale_attached" \in Usage
  /\ f \in cancellable /\ Unwaited(f) /\ ~Unattached(f)
  /\ Abort

-----------------------------------------------------------------------------
(* Completion. *)

\* The same as Fulfil, without looking whether there is a future.
Fulfil_Unchecked(p, below) ==
  LET f == matching_future[p]
  IN /\ has_value' = has_value \cup {f}
     /\ matching_promise' = [g \in Futures |-> IF g = f THEN NULL ELSE matching_promise[g]]
     /\ matching_future' = [matching_future EXCEPT ![p] = NULL]
     /\ notifies' = [notifies EXCEPT ![p] = <<>>]
     /\ stack' = IF notifies[p] = <<>> THEN below
                  ELSE <<NotifyFrame(Tail(notifies[p]))>> \o below
     /\ UNCHANGED <<kind, callback, chainVars, cancellable, aborted>>

\* The same as Fulfil, notifying the waiters without detaching them.
Fulfil_KeepsWaiters(p, below) ==
  LET f == matching_future[p]
  IN /\ f # NULL
     /\ has_value' = has_value \cup {f}
     /\ matching_promise' = [matching_promise EXCEPT ![f] = NULL]
     /\ matching_future' = [matching_future EXCEPT ![p] = NULL]
     /\ stack' = IF notifies[p] = <<>> THEN below
                  ELSE <<NotifyFrame(Tail(notifies[p]))>> \o below
     /\ UNCHANGED <<kind, callback, notifies, chainVars, cancellable, aborted>>

\* supply_value_and_detach() on a promise whose future nobody chained: the
\* value and the waiters leave the promise, and the first waiter is called.
Fulfil(p, below) ==
  LET f == matching_future[p]
  IN /\ f # NULL
     /\ has_value' = has_value \cup {f}
     /\ matching_promise' = [matching_promise EXCEPT ![f] = NULL]
     /\ matching_future' = [matching_future EXCEPT ![p] = NULL]
     /\ notifies' = [notifies EXCEPT ![p] = <<>>]
     /\ stack' = IF notifies[p] = <<>> THEN below
                  ELSE <<NotifyFrame(Tail(notifies[p]))>> \o below
     /\ UNCHANGED <<kind, callback, chainVars, cancellable, aborted>>

\* supply_value_and_detach() on a promise with a callback: the callback leaves
\* the promise, whose address may be used again, and is called.
RunCallback(p, below) ==
  LET c == callback[p]
  IN /\ matching_future[p] = NULL
     /\ callback' = [callback EXCEPT ![p] = NULL]
     /\ stack' = <<IF c \in Promises THEN ThenFrame(c) ELSE UserFrame(c)>> \o below
     /\ UNCHANGED <<kind, matching_future, notifies, chainVars, futureVars, aborted>>

Supply(p, below) ==
  IF matching_future[p] = NULL /\ (callback[p] = NULL \/ notifies[p] # <<>>)
    THEN Abort
    ELSE Fulfil(p, below) \/ RunCallback(p, below)

\* An I/O object, or wait_any, completes an operation that is active.
SupplyRoot(p) ==
  /\ InUserCode /\ Len(stack) < MaxDepth
  /\ kind[p] \in Roots
  /\ matching_future[p] # NULL \/ callback[p] # NULL
  /\ Supply(p, stack)

\* A wait_with_callback closure, or the last future_completed, returns.
UserReturns ==
  /\ ~aborted /\ stack # <<>>
  /\ Head(stack).call = "user" \/ Head(stack) = NotifyFrame(<<>>)
  /\ stack' = Tail(stack)
  /\ UNCHANGED <<promiseVars, chainVars, futureVars, aborted>>

\* The loop of notify_and_detach_completions() takes the next waiter.
NotifyNext ==
  /\ ~aborted /\ stack # <<>>
  /\ Head(stack).call = "notify" /\ Head(stack).to # <<>>
  /\ stack' = <<NotifyFrame(Tail(Head(stack).to))>> \o Tail(stack)
  /\ UNCHANGED <<promiseVars, chainVars, futureVars, aborted>>

InFn(q) == ~aborted /\ stack # <<>> /\ Head(stack) = ThenFrame(q)

\* The closure of q goes, and q with it.
Free(S) ==
  /\ kind' = [p \in Promises |-> IF p \in S THEN "free" ELSE kind[p]]
  /\ attached' = [p \in Promises |-> IF p \in S THEN NULL ELSE attached[p]]
  /\ backwards' = [p \in Promises |-> IF p \in S THEN NULL ELSE backwards[p]]

\* fn returns a future that has a value: q is supplied with it, and when that
\* call returns the closure is destroyed.
FnReturnsValue(q) ==
  /\ InFn(q)
  /\ Supply(q, <<DestroyFrame(q)>> \o Tail(stack))

DestroyClosure ==
  /\ ~aborted /\ stack # <<>> /\ Head(stack).call = "destroy"
  /\ LET q == Head(stack).to
     IN IF matching_future[q] = NULL /\ callback[q] = NULL /\ notifies[q] = <<>>
          THEN /\ Free({q})
               /\ stack' = Tail(stack)
               /\ UNCHANGED <<matching_future, callback, notifies, futureVars,
                              aborted>>
          ELSE Abort

\* The same as SpliceFuture, leaving the future of q matched with q.
SpliceFuture_OneWay(q, f) ==
  LET r == matching_promise[f]
      g == matching_future[q]
  IN /\ g # NULL
     /\ matching_promise' = [matching_promise EXCEPT ![f] = NULL]
     /\ matching_future' = [matching_future EXCEPT ![r] = g, ![q] = NULL]
     /\ cancellable' = cancellable \ {f}
     /\ Free({q})
     /\ stack' = Tail(stack)
     /\ aborted' = (notifies[q] # <<>>)
     /\ UNCHANGED <<callback, notifies, has_value>>

\* fn returns future f, whose promise r has no value yet, and q has a future:
\* that future is matched with r from now on.  The waiters of q stay behind:
\* ~intrusive_list() asserts that there are none when the closure goes.
SpliceFuture(q, f) ==
  LET r == matching_promise[f]
      g == matching_future[q]
  IN /\ g # NULL
     /\ matching_promise' = [matching_promise EXCEPT ![g] = r, ![f] = NULL]
     /\ matching_future' = [matching_future EXCEPT ![r] = g, ![q] = NULL]
     /\ cancellable' = cancellable \ {f}
     /\ Free({q})
     /\ stack' = Tail(stack)
     /\ aborted' = (notifies[q] # <<>>)
     /\ UNCHANGED <<callback, notifies, has_value>>

\* The same as SpliceCallback, copying the callback instead of swapping it.
SpliceCallback_Copies(q, f) ==
  LET r == matching_promise[f]
  IN /\ matching_future[q] = NULL
     /\ callback' = [callback EXCEPT ![r] = callback[q]]
     /\ matching_future' = [matching_future EXCEPT ![r] = NULL]
     /\ matching_promise' = [matching_promise EXCEPT ![f] = NULL]
     /\ cancellable' = cancellable \ {f}
     /\ Free({q})
     /\ stack' = Tail(stack)
     /\ UNCHANGED <<notifies, has_value, aborted>>

\* fn returns such a future and q has a callback: the callback moves to r.
\* The pair of pointers made by attach(), if any, stays behind.
SpliceCallback(q, f) ==
  LET r == matching_promise[f]
  IN /\ matching_future[q] = NULL
     /\ callback' = [callback EXCEPT ![r] = callback[q], ![q] = NULL]
     /\ matching_future' = [matching_future EXCEPT ![r] = NULL]
     /\ matching_promise' = [matching_promise EXCEPT ![f] = NULL]
     /\ cancellable' = cancellable \ {f}
     /\ Free({q})
     /\ stack' = Tail(stack)
     /\ UNCHANGED <<notifies, has_value, aborted>>

FnReturnsPending(q, f) ==
  /\ InFn(q) /\ Unwaited(f)
  /\ matching_promise[f] \notin Downstream(q)
  /\ kind[q] = "cthen" => f \in cancellable /\ "pending_cthen" \in Usage
  /\ IF matching_future[q] = NULL /\ callback[q] = NULL
       THEN Abort
       ELSE SpliceFuture(q, f) \/ SpliceCallback(q, f)

-----------------------------------------------------------------------------
(* Cancellation. *)

\* The value of a future that has one is dropped.
CancelReady(f) ==
  /\ InUserCode /\ f \in has_value \cap cancellable
  /\ has_value' = has_value \ {f}
  /\ cancellable' = cancellable \ {f}
  /\ UNCHANGED <<promiseVars, chainVars, matching_promise, stack, aborted>>

\* What cancel() asserts of each hop from x back to the promise it is
\* attached to, and ~base_promise() of the promise whose closure the hop
\* destroys: x itself, unless the callback of x is running.
HopHolds(x) ==
  LET b == backwards[x]
      c == callback[b]
  IN b # NULL => /\ attached[b] = x
                 /\ matching_future[b] = NULL
                 /\ c # NULL
                 /\ c \in Promises \ {x} => matching_future[c] = NULL /\ callback[c] = NULL

\* The promises that the hops from p upstream lead to, and the closures that
\* they destroy.
Hops(p) == {backwards[x] : x \in Upstream(p)} \ {NULL}
HopClosures(p) == {callback[b] : b \in Hops(p)} \cap Promises

\* The future lets go of its promise p, whose cancel() hops upstream.  Each
\* hop takes a pair of pointers apart; the pointer that p itself holds to a
\* closure that ran stays.
Cut(f) ==
  LET p == matching_promise[f]
  IN /\ matching_promise' = [matching_promise EXCEPT ![f] = NULL]
     /\ matching_future' = [matching_future EXCEPT ![p] = NULL]
     /\ cancellable' = cancellable \ {f}
     /\ kind' = [x \in Promises |-> IF x \in HopClosures(p) THEN "free" ELSE kind[x]]
     /\ attached' = [x \in Promises |->
                       IF x \in Hops(p) \cup HopClosures(p) THEN NULL ELSE attached[x]]
     /\ backwards' = [x \in Promises |->
                        IF x \in Upstream(p) THEN NULL ELSE backwards[x]]
     /\ UNCHANGED <<notifies, has_value, stack, aborted>>

\* The same as cancel, leaving the callbacks of the promises upstream in place.
cancel_KeepsCallbacks(f) ==
  /\ InUserCode /\ f \in cancellable /\ Unwaited(f)
  /\ (\E x \in Upstream(matching_promise[f]) : Running(x)) => "cancel_running" \in Usage
  /\ Cut(f)
  /\ UNCHANGED callback

\* cancellable_future::cancel() of a future without value.  The promises of
\* cancellable_then between it and the root go with the closures that own
\* them; the root is left without future and callback.
cancel(f) ==
  LET p == matching_promise[f]
  IN /\ InUserCode /\ f \in cancellable /\ Unwaited(f)
     /\ (\E x \in Upstream(p) : Running(x)) => "cancel_running" \in Usage
     /\ IF \A x \in Upstream(p) : HopHolds(x) /\ notifies[x] = <<>>
          THEN /\ Cut(f)
               /\ callback' = [x \in Promises |-> IF x \in Hops(p) THEN NULL ELSE callback[x]]
          ELSE Abort

-----------------------------------------------------------------------------
Finished == aborted /\ UNCHANGED vars

UserOperation ==
  \/ \E p \in Promises : \/ \E k \in Roots : NewRoot(p, k)
                         \/ DestroyRoot(p)
                         \/ \E f \in Futures : MakeFuture(p, f)
                         \/ \E r \in Promises : MovePromise(p, r)
                         \/ MovePromise_Aborts(p)
                         \/ SupplyRoot(p)
  \/ \E f, g \in Futures : MoveFuture(f, g)
  \/ \E f \in Futures : \/ TakeValue(f)
                        \/ CancelReady(f)
                        \/ cancel(f)
                        \/ cancellable_then_f_Aborts(f)
                        \/ \E c \in Callbacks : wait_with_callback(f, c)
                        \/ \E n \in Notifies : register_notify(f, n)
                        \/ \E q \in Promises, g \in Futures :
                             then_f(f, q, g) \/ cancellable_then_f(f, q, g)
  \/ \E n \in Notifies : unregister_self(n)

Return ==
  \/ UserReturns
  \/ NotifyNext
  \/ \E q \in Promises : \/ FnReturnsValue(q)
                         \/ \E f \in Futures : FnReturnsPending(q, f)
  \/ DestroyClosure

Next == UserOperation \/ Return \/ Finished

Spec == Init /\ [][Next]_vars

-----------------------------------------------------------------------------
(* Properties. *)

Frames == [call : {"user"}, to : Callbacks]
            \cup [call : {"then", "destroy"}, to : Promises]
            \cup [call : {"notify"}, to : Seq(Notifies)]

TypeOK ==
  /\ kind \in [Promises -> Kinds]
  /\ matching_future \in [Promises -> Futures \cup {NULL}]
  /\ callback \in [Promises -> Promises \cup Callbacks \cup {NULL}]
  /\ notifies \in [Promises -> Seq(Notifies)]
  /\ attached \in [Promises -> Promises \cup {NULL}]
  /\ backwards \in [Promises -> Promises \cup {NULL}]
  /\ matching_promise \in [Futures -> Promises \cup {NULL}]
  /\ has_value \subseteq Futures
  /\ cancellable \subseteq Futures
  /\ stack \in Seq(Frames)
  /\ aborted \in BOOLEAN

\* matching_future_ and matching_promise_ are two ends of one link, through
\* moves of either end, chaining, splices, completion and cancellation; the
\* future of a link has no value yet, and its promise exists.
MatchedPair ==
  /\ \A p \in Promises, f \in Futures :
       matching_future[p] = f <=> matching_promise[f] = p
  /\ \A f \in Futures :
       IsPending(f) => f \notin has_value /\ kind[matching_promise[f]] # "free"

\* A program that keeps to the contract of the operations, and to the uses of
\* the library in Usage, does not meet any assertion of the library.
NoAssertionFails == ~aborted

\* A promise made by then_f or cancellable_then_f lives in exactly one
\* closure: one that is waiting to be called, that is running, or that is
\* being destroyed.  Two homes would complete or destroy it twice, none would
\* leave its future pending for ever.
Homes(q) == {p \in Promises : callback[p] = q}
              \cup {i \in DOMAIN stack : stack[i] \in {ThenFrame(q), DestroyFrame(q)}}
ClosuresHaveOneHome ==
  \A q \in Promises : Cardinality(Homes(q)) = IF kind[q] \in {"then", "cthen"} THEN 1 ELSE 0

\* Whatever is waiting - a future without value, or a wait_with_callback
\* closure - is downstream of exactly one promise that will be supplied from
\* outside, or by a closure that is running.
Sources == {p \in Promises : kind[p] \in Roots \/ Running(p)}
PendingHasOneSource ==
  \A p \in Promises :
    matching_future[p] # NULL \/ callback[p] \in Callbacks
      => Cardinality({s \in Sources : p \in Downstream(s)}) = 1

\* completion_notifies_ is "only non-empty when matching_future_ is non-null
\* and a value is not supplied" (base_promise), and a waiter is in one list.
NotifiesNeedMatchingFuture ==
  \A p \in Promises : notifies[p] # <<>> => matching_future[p] # NULL

WaitersInOneList ==
  \A n \in Notifies :
    Cardinality({p \in Promises : n \in Elements(notifies[p])}
                  \cup {i \in NotifyFrames : n \in Elements(stack[i].to)}) <= 1

\* cancellable_future::matching_promise() casts without a check.
CancellableHasCancellablePromise ==
  \A f \in cancellable : IsPending(f) => kind[matching_promise[f]] \in {"io", "cthen"}

\* attached_promise_ptr_ is declared as "in a pointer/backpointer pair with
\* backwards_pointed_promise_"; the code keeps less (the pointer outlives the
\* callback), and cancel() needs less: from the promise of a cancellable_then
\* that is waiting, the pointers lead back to the promise whose callback it is.
BackwardsLeadsUpstream ==
  \A p, q \in Promises :
    callback[p] = q /\ kind[q] = "cthen" => backwards[q] = p /\ attached[p] = q
=============================================================================
