---------------------------- MODULE FuturesProofs ----------------------------
(***************************************************************************)
(* Proofs about Futures, for any number of promises, futures, closures and *)
(* waiters, any depth of nesting and every usage of the library.           *)
(***************************************************************************)
EXTENDS Futures, SequenceTheorems, FiniteSetTheorems, TLAPS

\* The part of the state that links promises with futures.
LinkTypes ==
  /\ kind \in [Promises -> Kinds]
  /\ matching_future \in [Promises -> Futures \cup {NULL}]
  /\ matching_promise \in [Futures -> Promises \cup {NULL}]
  /\ backwards \in [Promises -> Promises \cup {NULL}]
  /\ has_value \subseteq Futures

IInv == LinkTypes /\ MatchedPair

LEMMA InitIInv == Init => IInv
BY NullAssumption DEF Init, IInv, LinkTypes, MatchedPair, IsPending, Kinds

-----------------------------------------------------------------------------
(* Reachability along the pointers between promises. *)

\* q is among the promises whose completion waits for it.
LEMMA DownstreamOfItself == \A q \in Promises : q \in Downstream(q)
BY DEF Downstream

\* When every hop that cancel() makes passes its assertions, the promise of
\* the future is the only one on the way that has a future.
LEMMA UpstreamIsHops ==
  ASSUME LinkTypes, NEW p \in Promises, \A x \in Upstream(p) : HopHolds(x)
  PROVE  /\ Upstream(p) \subseteq Promises /\ p \in Upstream(p)
         /\ Hops(p) \subseteq Upstream(p) /\ Upstream(p) = {p} \cup Hops(p)
         /\ \A b \in Hops(p) : matching_future[b] = NULL /\ callback[b] # NULL
         /\ \A c \in HopClosures(p) :
              c \in Upstream(p) \/ (matching_future[c] = NULL /\ callback[c] = NULL)
<1>1. Upstream(p) \subseteq Promises /\ p \in Upstream(p)
  BY DEF Upstream
<1>2. ASSUME NEW x \in Upstream(p), backwards[x] # NULL PROVE backwards[x] \in Upstream(p)
  <2>1. backwards[x] \in Promises
    BY <1>1, <1>2 DEF LinkTypes
  <2> QED BY <1>2, <2>1 DEF Upstream
<1>3. Hops(p) \subseteq Upstream(p)
  BY <1>2 DEF Hops
<1>4. Upstream(p) \subseteq {p} \cup Hops(p)
  <2> DEFINE T == {p} \cup Hops(p)
  <2>1. T \in SUBSET Promises /\ p \in T
    BY <1>1, <1>3
  <2>2. \A x \in T : backwards[x] # NULL => backwards[x] \in T
    BY <1>1, <1>3 DEF Hops
  <2> HIDE DEF T
  <2> QED BY <2>1, <2>2 DEF Upstream, T
<1>5. \A b \in Hops(p) : matching_future[b] = NULL /\ callback[b] # NULL
  BY DEF Hops, HopHolds
<1>6. ASSUME NEW c \in HopClosures(p), c \notin Upstream(p)
      PROVE  matching_future[c] = NULL /\ callback[c] = NULL
  <2>1. PICK x \in Upstream(p) : backwards[x] # NULL /\ c = callback[backwards[x]]
    BY DEF Hops, HopClosures
  <2> QED BY <1>6, <2>1 DEF HopHolds, HopClosures
<1> QED BY <1>1, <1>3, <1>4, <1>5, <1>6

-----------------------------------------------------------------------------
(* Each operation keeps the links. *)

LEMMA RootIInv ==
  ASSUME IInv, NEW p \in Promises,
         \/ \E k \in Roots : NewRoot(p, k)
         \/ DestroyRoot(p)
         \/ \E f \in Futures : MakeFuture(p, f)
  PROVE  IInv'
<1>1. CASE \E k \in Roots : NewRoot(p, k)
  BY <1>1, NullAssumption
  DEF IInv, LinkTypes, MatchedPair, IsPending, NewRoot, Roots, Kinds, chainVars, futureVars
<1>2. CASE DestroyRoot(p)
  BY <1>2, NullAssumption
  DEF IInv, LinkTypes, MatchedPair, IsPending, DestroyRoot, Kinds, futureVars
<1>3. CASE \E f \in Futures : MakeFuture(p, f)
  BY <1>3, NullAssumption
  DEF IInv, LinkTypes, MatchedPair, IsPending, IsDefault, MakeFuture, Roots, chainVars
<1> QED BY <1>1, <1>2, <1>3

LEMMA MoveIInv ==
  ASSUME IInv,
         \/ \E f, g \in Futures : MoveFuture(f, g)
         \/ \E p, r \in Promises : MovePromise(p, r)
  PROVE  IInv'
<1>1. CASE \E f, g \in Futures : MoveFuture(f, g)
  <2> PICK f \in Futures, g \in Futures : MoveFuture(f, g)
    BY <1>1
  <2>1. LinkTypes'
    BY DEF IInv, LinkTypes, MoveFuture, chainVars
  <2>2. f # g /\ matching_promise[g] = NULL /\ g \notin has_value
    BY DEF MoveFuture, IsDefault
  <2>3. MatchedPair'
    BY <2>2, NullAssumption
    DEF IInv, LinkTypes, MatchedPair, IsPending, MoveFuture
  <2> QED BY <2>1, <2>3 DEF IInv
<1>2. CASE \E p, r \in Promises : MovePromise(p, r)
  <2> PICK p \in Promises, r \in Promises : MovePromise(p, r)
    BY <1>2
  <2>1. LinkTypes'
    BY DEF IInv, LinkTypes, MovePromise, Kinds
  <2>2. p # r /\ matching_future[r] = NULL
    BY NullAssumption DEF MovePromise, IInv, LinkTypes, MatchedPair, IsPending, Roots
  <2>3. MatchedPair'
    BY <2>2, NullAssumption
    DEF IInv, LinkTypes, MatchedPair, IsPending, MovePromise, Roots
  <2> QED BY <2>1, <2>3 DEF IInv
<1> QED BY <1>1, <1>2

\* Steps that leave the links as they are, but for a value that is consumed.
LEMMA LinksUntouched ==
  ASSUME IInv, UNCHANGED <<kind, matching_future, matching_promise, backwards>>,
         has_value' \subseteq has_value
  PROVE  IInv'
BY DEF IInv, LinkTypes, MatchedPair, IsPending

LEMMA ChainIInv ==
  ASSUME IInv, NEW f \in Futures,
         \/ \E c \in Callbacks : wait_with_callback(f, c)
         \/ \E q \in Promises, g \in Futures : then_f(f, q, g) \/ cancellable_then_f(f, q, g)
  PROVE  IInv'
<1>1. CASE \E c \in Callbacks : wait_with_callback(f, c)
  BY <1>1, NullAssumption
  DEF IInv, LinkTypes, MatchedPair, IsPending, Unwaited, wait_with_callback, chainVars
<1>2. CASE \E q \in Promises, g \in Futures : then_f(f, q, g) \/ cancellable_then_f(f, q, g)
  <2> PICK q \in Promises, g \in Futures : then_f(f, q, g) \/ cancellable_then_f(f, q, g)
    BY <1>2
  <2> DEFINE p == matching_promise[f]
  <2>1. /\ p \in Promises /\ kind[q] = "free" /\ IsDefault(g)
        /\ matching_future' = [matching_future EXCEPT ![p] = NULL, ![q] = g]
        /\ matching_promise' = [matching_promise EXCEPT ![f] = NULL, ![g] = q]
        /\ UNCHANGED has_value
    BY DEF then_f, cancellable_then_f, Chain, Unwaited, IsPending, IInv, LinkTypes
  <2>2. /\ kind' = [kind EXCEPT ![q] = kind'[q]]
        /\ kind'[q] \in {"then", "cthen"}
    BY DEF then_f, cancellable_then_f, IInv, LinkTypes
  <2>3. backwards' \in [Promises -> Promises \cup {NULL}]
    BY <2>1 DEF then_f, cancellable_then_f, chainVars, IInv, LinkTypes
  <2>4. matching_future[p] = f /\ p # q /\ f # g
    BY <2>1, NullAssumption DEF IInv, LinkTypes, MatchedPair, IsPending, IsDefault
  <2> HIDE DEF p
  <2>5. LinkTypes'
    BY <2>1, <2>2, <2>3 DEF IInv, LinkTypes, Kinds
  <2>6. MatchedPair'
    BY <2>1, <2>2, <2>4, NullAssumption
    DEF IInv, LinkTypes, MatchedPair, IsPending, IsDefault
  <2> QED BY <2>5, <2>6 DEF IInv
<1> QED BY <1>1, <1>2

LEMMA SupplyIInv ==
  ASSUME IInv, NEW p \in Promises, NEW below, Supply(p, below)
  PROVE  IInv'
<1>1. CASE Abort
  BY <1>1, LinksUntouched DEF Abort, promiseVars, chainVars, futureVars
<1>2. CASE Fulfil(p, below)
  BY <1>2, NullAssumption
  DEF IInv, LinkTypes, MatchedPair, IsPending, Fulfil, chainVars
<1>3. CASE RunCallback(p, below)
  BY <1>3, LinksUntouched DEF RunCallback, chainVars, futureVars
<1> QED BY <1>1, <1>2, <1>3 DEF Supply

\* fn returned future f: its promise r takes over the future or the callback of
\* q, and q goes.
LEMMA SpliceIInv ==
  ASSUME IInv, NEW q \in Promises, NEW f \in Futures, FnReturnsPending(q, f)
  PROVE  IInv'
<1> DEFINE r == matching_promise[f]
<1>1. CASE Abort
  BY <1>1, LinksUntouched DEF Abort, promiseVars, chainVars, futureVars
<1>2. r \in Promises /\ r # q /\ matching_future[r] = f
  BY DownstreamOfItself
  DEF FnReturnsPending, Unwaited, IsPending, IInv, LinkTypes, MatchedPair
<1>3. CASE SpliceFuture(q, f)
  <2> DEFINE g == matching_future[q]
  <2>1. /\ g \in Futures /\ g # f
        /\ matching_promise' = [matching_promise EXCEPT ![g] = r, ![f] = NULL]
        /\ matching_future' = [matching_future EXCEPT ![r] = g, ![q] = NULL]
        /\ kind' = [x \in Promises |-> IF x = q THEN "free" ELSE kind[x]]
        /\ backwards' = [x \in Promises |-> IF x = q THEN NULL ELSE backwards[x]]
        /\ UNCHANGED has_value
    BY <1>2, <1>3 DEF SpliceFuture, Free, IInv, LinkTypes, MatchedPair
  <2> HIDE DEF r, g
  <2>2. LinkTypes'
    BY <1>2, <2>1 DEF IInv, LinkTypes, Kinds
  <2>3. matching_promise[f] = r /\ matching_future[q] = g
    BY DEF r, g
  <2>4. MatchedPair'
    BY <1>2, <2>1, <2>3, NullAssumption DEF IInv, LinkTypes, MatchedPair, IsPending
  <2> QED BY <2>2, <2>4 DEF IInv
<1>4. CASE SpliceCallback(q, f)
  <2>1. /\ matching_future[q] = NULL
        /\ matching_promise' = [matching_promise EXCEPT ![f] = NULL]
        /\ matching_future' = [matching_future EXCEPT ![r] = NULL]
        /\ kind' = [x \in Promises |-> IF x = q THEN "free" ELSE kind[x]]
        /\ backwards' = [x \in Promises |-> IF x = q THEN NULL ELSE backwards[x]]
        /\ UNCHANGED has_value
    BY <1>4 DEF SpliceCallback, Free
  <2>2. matching_promise[f] = r
    OBVIOUS
  <2> HIDE DEF r
  <2>3. LinkTypes'
    BY <1>2, <2>1 DEF IInv, LinkTypes, Kinds
  <2>4. MatchedPair'
    BY <1>2, <2>1, <2>2, NullAssumption DEF IInv, LinkTypes, MatchedPair, IsPending
  <2> QED BY <2>3, <2>4 DEF IInv
<1> QED BY <1>1, <1>3, <1>4 DEF FnReturnsPending

\* cancel() takes the link of f apart, and the closures it destroys on the way
\* upstream hold no other.
LEMMA CancelIInv ==
  ASSUME IInv, NEW f \in Futures, cancel(f)
  PROVE  IInv'
<1> DEFINE p == matching_promise[f]
<1>1. p \in Promises /\ matching_future[p] = f /\ matching_promise[f] = p
  BY DEF cancel, Unwaited, IsPending, IInv, LinkTypes, MatchedPair
<1>2. CASE Abort
  BY <1>2, LinksUntouched DEF Abort, promiseVars, chainVars, futureVars
<1>3. CASE ~Abort
  <2> DEFINE S == HopClosures(p)
  <2>1. (\A x \in Upstream(p) : HopHolds(x)) /\ Cut(f)
    BY <1>3 DEF cancel
  <2>2. /\ matching_promise' = [matching_promise EXCEPT ![f] = NULL]
        /\ matching_future' = [matching_future EXCEPT ![p] = NULL]
        /\ kind' = [x \in Promises |-> IF x \in S THEN "free" ELSE kind[x]]
        /\ backwards' = [x \in Promises |->
                           IF x \in Upstream(p) THEN NULL ELSE backwards[x]]
        /\ UNCHANGED has_value
    BY <2>1 DEF Cut
  <2>3. \A c \in S : c = p \/ matching_future[c] = NULL
    BY <1>1, <2>1, UpstreamIsHops DEF IInv
  <2> HIDE DEF p, S
  <2>4. LinkTypes'
    BY <1>1, <2>2 DEF IInv, LinkTypes, Kinds
  <2>5. MatchedPair'
    BY <1>1, <2>2, <2>3, NullAssumption
    DEF IInv, LinkTypes, MatchedPair, IsPending
  <2> QED BY <2>4, <2>5 DEF IInv
<1> QED BY <1>2, <1>3

\* A closure is destroyed with the promise in it, which has no future then.
LEMMA DestroyIInv == IInv /\ DestroyClosure => IInv'
<1> SUFFICES ASSUME IInv, DestroyClosure PROVE IInv'
  OBVIOUS
<1> DEFINE q == Head(stack).to
<1>1. CASE Abort
  BY <1>1, LinksUntouched DEF Abort, promiseVars, chainVars, futureVars
<1>2. CASE ~Abort
  <2>1. /\ matching_future[q] = NULL
        /\ kind' = [x \in Promises |-> IF x = q THEN "free" ELSE kind[x]]
        /\ backwards' = [x \in Promises |-> IF x = q THEN NULL ELSE backwards[x]]
        /\ UNCHANGED <<matching_future, matching_promise, has_value>>
    BY <1>2 DEF DestroyClosure, Free, futureVars
  <2> HIDE DEF q
  <2>2. LinkTypes'
    BY <2>1 DEF IInv, LinkTypes, Kinds
  <2>3. MatchedPair'
    BY <2>1, NullAssumption DEF IInv, LinkTypes, MatchedPair, IsPending
  <2> QED BY <2>2, <2>3 DEF IInv
<1> QED BY <1>1, <1>2

-----------------------------------------------------------------------------
LEMMA UserOperationIInv == IInv /\ UserOperation => IInv'
<1> SUFFICES ASSUME IInv, UserOperation PROVE IInv'
  OBVIOUS
<1>1. CASE \E p \in Promises : \/ \E k \in Roots : NewRoot(p, k)
                               \/ DestroyRoot(p)
                               \/ \E f \in Futures : MakeFuture(p, f)
  BY <1>1, RootIInv
<1>2. CASE \E p \in Promises : SupplyRoot(p)
  BY <1>2, SupplyIInv DEF SupplyRoot
<1>3. CASE \/ \E f, g \in Futures : MoveFuture(f, g)
           \/ \E p, r \in Promises : MovePromise(p, r)
  BY <1>3, MoveIInv
<1>4. CASE \E f \in Futures : TakeValue(f) \/ CancelReady(f)
  BY <1>4, LinksUntouched DEF TakeValue, CancelReady, promiseVars, chainVars
<1>5. CASE \E f \in Futures : cancel(f)
  BY <1>5, CancelIInv
<1>6. CASE \/ \E f \in Futures : cancellable_then_f_Aborts(f)
           \/ \E p \in Promises : MovePromise_Aborts(p)
  BY <1>6, LinksUntouched
  DEF cancellable_then_f_Aborts, MovePromise_Aborts, Abort, promiseVars, chainVars, futureVars
<1>7. CASE \E f \in Futures :
             \/ \E c \in Callbacks : wait_with_callback(f, c)
             \/ \E q \in Promises, g \in Futures :
                  then_f(f, q, g) \/ cancellable_then_f(f, q, g)
  BY <1>7, ChainIInv
<1>8. CASE \/ \E f \in Futures, n \in Notifies : register_notify(f, n)
           \/ \E n \in Notifies : unregister_self(n)
  BY <1>8, LinksUntouched DEF register_notify, unregister_self, chainVars, futureVars
<1> QED BY <1>1, <1>2, <1>3, <1>4, <1>5, <1>6, <1>7, <1>8 DEF UserOperation

LEMMA ReturnIInv == IInv /\ Return => IInv'
<1> SUFFICES ASSUME IInv, Return PROVE IInv'
  OBVIOUS
<1>1. CASE UserReturns \/ NotifyNext
  BY <1>1, LinksUntouched DEF UserReturns, NotifyNext, promiseVars, chainVars, futureVars
<1>2. CASE \E q \in Promises : FnReturnsValue(q)
  BY <1>2, SupplyIInv DEF FnReturnsValue
<1>3. CASE \E q \in Promises, f \in Futures : FnReturnsPending(q, f)
  BY <1>3, SpliceIInv
<1>4. CASE DestroyClosure
  BY <1>4, DestroyIInv
<1> QED BY <1>1, <1>2, <1>3, <1>4 DEF Return

THEOREM InductiveInvariant == Spec => []IInv
<1>1. IInv /\ UNCHANGED vars => IInv'
  BY LinksUntouched DEF vars, promiseVars, chainVars, futureVars
<1>2. IInv /\ [Next]_vars => IInv'
  BY <1>1, UserOperationIInv, ReturnIInv DEF Next, Finished
<1> QED BY InitIInv, <1>2, PTL DEF Spec

\* matching_future_ and matching_promise_ are two ends of one link through
\* moves, chaining, both splices, completion and cancellation, however calls
\* are nested and whatever the library is used for.
THEOREM LinksAreMutual == Spec => []MatchedPair
<1>1. IInv => MatchedPair
  BY DEF IInv
<1> QED BY <1>1, InductiveInvariant, PTL

-----------------------------------------------------------------------------
(* The lists of waiters, and the stack of calls. *)

\* What is left of a list holds nothing new.
LEMMA WithoutProperties ==
  ASSUME NEW S, NEW s \in Seq(S), NEW x
  PROVE  Without(s, x) \in Seq(S) /\ Elements(Without(s, x)) \subseteq Elements(s)
<1>1. CASE x \notin Elements(s)
  BY <1>1 DEF Without
<1>2. CASE x \in Elements(s)
  <2> DEFINE k == CHOOSE k \in DOMAIN s : s[k] = x
             n == Len(s)
             a == SubSeq(s, 1, k - 1)
             b == SubSeq(s, k + 1, n)
             t == a \o b
  <2>1. k \in DOMAIN s
    BY <1>2 DEF Elements
  <2>2. n \in Nat /\ DOMAIN s = 1..n /\ k \in 1..n
    BY <2>1, LenProperties
  <2>3. Without(s, x) = t
    BY <1>2 DEF Without
  <2> HIDE DEF k, n
  <2>4. \A i \in 1..n : s[i] \in S
    BY <2>2, ElementOfSeq DEF n
  <2>5. a \in Seq(S) /\ Len(a) = k - 1 /\ \A i \in 1..(k - 1) : a[i] = s[i]
    <3>1. \A i \in 1..(k - 1) : s[i] \in S
      BY <2>2, <2>4
    <3> QED BY <2>2, <3>1, SubSeqProperties
  <2>6. b \in Seq(S) /\ Len(b) = n - k /\ \A i \in 1..(n - k) : b[i] = s[k + i]
    <3>1. \A i \in (k + 1)..n : s[i] \in S
      BY <2>2, <2>4
    <3>2. /\ b \in Seq(S)
          /\ Len(b) = IF k + 1 <= n THEN n - (k + 1) + 1 ELSE 0
          /\ \A i \in 1..(n - (k + 1) + 1) : b[i] = s[(k + 1) + i - 1]
      BY <2>2, <3>1, SubSeqProperties
    <3> HIDE DEF b
    <3> QED BY <2>2, <3>2
  <2> HIDE DEF a, b
  <2>7. /\ t \in Seq(S) /\ Len(t) = Len(a) + Len(b)
        /\ \A i \in 1..(Len(a) + Len(b)) : t[i] = IF i <= Len(a) THEN a[i] ELSE b[i - Len(a)]
    BY <2>5, <2>6, ConcatProperties
  <2>8. DOMAIN t = 1..(n - 1)
    BY <2>2, <2>5, <2>6, <2>7, LenProperties
  <2> HIDE DEF t
  <2>9. ASSUME NEW i \in 1..(n - 1) PROVE \E j \in 1..n : t[i] = s[j]
    <3>1. CASE i <= k - 1
      BY <2>2, <2>5, <2>6, <2>7, <3>1
    <3>2. CASE i > k - 1
      <4>1. i - (k - 1) \in 1..(n - k) /\ i + 1 \in 1..n /\ k + (i - (k - 1)) = i + 1
        BY <2>2, <3>2
      <4>2. t[i] = b[i - (k - 1)]
        BY <2>2, <2>5, <2>6, <2>7, <3>2
      <4> QED BY <2>6, <4>1, <4>2
    <3> QED BY <2>2, <3>1, <3>2
  <2>10. Elements(t) \subseteq Elements(s)
    BY <2>2, <2>8, <2>9 DEF Elements
  <2> QED BY <2>3, <2>7, <2>10
<1> QED BY <1>1, <1>2

LEMMA PushProperties ==
  ASSUME NEW S, NEW s \in Seq(S), NEW x \in S, NEW t, t = <<x>> \o s
  PROVE  /\ t \in Seq(S) /\ t # <<>>
         /\ 1 \in DOMAIN t /\ t[1] = x
         /\ \A i \in DOMAIN s : i + 1 \in DOMAIN t /\ t[i + 1] = s[i] /\ i \in Nat
         /\ \A i \in DOMAIN t : i = 1 \/ (i - 1 \in DOMAIN s /\ t[i] = s[i - 1] /\ i \in Nat)
<1>1. <<x>> \in Seq(S) /\ Len(<<x>>) = 1 /\ <<x>>[1] = x
  OBVIOUS
<1>2. Len(s) \in Nat /\ DOMAIN s = 1..Len(s)
  BY LenProperties
<1>3. /\ t \in Seq(S) /\ Len(t) = 1 + Len(s)
      /\ \A i \in 1..(1 + Len(s)) : t[i] = IF i <= 1 THEN <<x>>[i] ELSE s[i - 1]
  BY <1>1, ConcatProperties
<1>4. DOMAIN t = 1..(Len(s) + 1)
  BY <1>2, <1>3, LenProperties
<1>5. 1 \in 1..(1 + Len(s)) /\ t[1] = x
  BY <1>1, <1>2, <1>3
<1>6. t # <<>>
  BY <1>2, <1>3, EmptySeq
<1>7. ASSUME NEW i \in 1..Len(s) PROVE i + 1 \in 1..(Len(s) + 1) /\ t[i + 1] = s[i]
  <2>1. i + 1 \in 1..(1 + Len(s)) /\ ~(i + 1 <= 1) /\ (i + 1) - 1 = i
    BY <1>2
  <2> QED BY <1>3, <2>1
<1>8. ASSUME NEW i \in 1..(Len(s) + 1), i # 1
      PROVE  i - 1 \in 1..Len(s) /\ t[i] = s[i - 1]
  BY <1>2, <1>3, <1>8
<1> QED BY <1>2, <1>3, <1>4, <1>5, <1>6, <1>7, <1>8

LEMMA PopProperties ==
  ASSUME NEW S, NEW s \in Seq(S), s # <<>>, NEW t, t = Tail(s)
  PROVE  /\ t \in Seq(S) /\ Head(s) \in S
         /\ 1 \in DOMAIN s /\ s[1] = Head(s)
         /\ \A i \in DOMAIN t : i + 1 \in DOMAIN s /\ t[i] = s[i + 1] /\ i \in Nat \ {0}
         /\ \A i \in DOMAIN s : i = 1 \/ (i - 1 \in DOMAIN t /\ s[i] = t[i - 1] /\ i \in Nat)
<1>1. Len(s) \in Nat /\ DOMAIN s = 1..Len(s)
  BY LenProperties
<1>2. Len(s) # 0
  BY EmptySeq
<1>3. /\ t \in Seq(S) /\ Head(s) \in S
      /\ Len(t) = Len(s) - 1 /\ \A i \in 1..Len(t) : t[i] = s[i + 1]
  BY HeadTailProperties
<1>4. DOMAIN t = 1..(Len(s) - 1)
  BY <1>3, LenProperties
<1>5. s[1] = Head(s) /\ 1 \in 1..Len(s)
  BY <1>1, <1>2
<1>6. ASSUME NEW i \in 1..Len(s), i # 1 PROVE i - 1 \in 1..(Len(s) - 1) /\ s[i] = t[i - 1]
  <2>1. i - 1 \in 1..(Len(s) - 1) /\ (i - 1) + 1 = i
    BY <1>1, <1>6
  <2> QED BY <1>3, <2>1
<1> QED BY <1>1, <1>3, <1>4, <1>5, <1>6

-----------------------------------------------------------------------------
(* Types. *)

PointerTypes ==
  /\ callback \in [Promises -> Promises \cup Callbacks \cup {NULL}]
  /\ attached \in [Promises -> Promises \cup {NULL}]
  /\ cancellable \subseteq Futures
  /\ aborted \in BOOLEAN

ListTypes == notifies \in [Promises -> Seq(Notifies)] /\ stack \in Seq(Frames)

\* TRUE and FALSE are the Booleans.
LEMMA Truth == \A x : (x = TRUE \/ x = FALSE) => x \in BOOLEAN
BY Zenon

LEMMA StepPointerTypes ==
  ASSUME IInv, PointerTypes, [Next]_vars
  PROVE  PointerTypes'
<1> USE DEF IInv, LinkTypes, PointerTypes
<1>1. ASSUME Abort PROVE PointerTypes'
  BY <1>1, Truth DEF Abort, promiseVars, chainVars, futureVars
<1>2. ASSUME NEW p \in Promises, NEW below, Supply(p, below) PROVE PointerTypes'
  BY <1>1, <1>2 DEF Supply, Fulfil, RunCallback, chainVars, futureVars
<1>3. ASSUME NEW p \in Promises, \/ \E k \in Roots : NewRoot(p, k)
                                 \/ DestroyRoot(p)
                                 \/ \E f \in Futures : MakeFuture(p, f)
                                 \/ \E r \in Promises : MovePromise(p, r)
      PROVE  PointerTypes'
  BY <1>3 DEF NewRoot, DestroyRoot, MakeFuture, MovePromise, chainVars, futureVars
<1>4. ASSUME NEW f \in Futures, \/ \E g \in Futures : MoveFuture(f, g)
                                \/ TakeValue(f) \/ CancelReady(f)
                                \/ \E n \in Notifies : register_notify(f, n)
      PROVE  PointerTypes'
  BY <1>4 DEF MoveFuture, TakeValue, CancelReady, register_notify, promiseVars, chainVars,
              futureVars
<1>5. ASSUME NEW f \in Futures, cancel(f) PROVE PointerTypes'
  BY <1>1, <1>5 DEF cancel, Cut
<1>6. ASSUME NEW f \in Futures, NEW c \in Callbacks, wait_with_callback(f, c)
      PROVE  PointerTypes'
  BY <1>6 DEF wait_with_callback, chainVars
<1>7. ASSUME NEW f \in Futures, NEW q \in Promises, NEW g \in Futures,
             then_f(f, q, g) \/ cancellable_then_f(f, q, g)
      PROVE  PointerTypes'
  BY <1>7 DEF then_f, cancellable_then_f, Chain, chainVars
<1>8. ASSUME NEW q \in Promises, NEW f \in Futures, FnReturnsPending(q, f)
      PROVE  PointerTypes'
  <2>1. CASE SpliceFuture(q, f)
    BY <2>1, Truth DEF SpliceFuture, Free
  <2>2. CASE SpliceCallback(q, f)
    BY <2>2 DEF SpliceCallback, Free
  <2> QED BY <1>1, <1>8, <2>1, <2>2 DEF FnReturnsPending
<1>9. ASSUME DestroyClosure PROVE PointerTypes'
  BY <1>1, <1>9 DEF DestroyClosure, Free, futureVars
<1>10. ASSUME \/ \E n \in Notifies : unregister_self(n)
              \/ UserReturns \/ NotifyNext \/ UNCHANGED vars
       PROVE  PointerTypes'
  BY <1>10 DEF unregister_self, UserReturns, NotifyNext, vars, promiseVars, chainVars, futureVars
<1> HIDE DEF IInv, LinkTypes, PointerTypes
<1> QED
  BY <1>1, <1>2, <1>3, <1>4, <1>5, <1>6, <1>7, <1>8, <1>9, <1>10
     DEF Next, UserOperation, Return, Finished, SupplyRoot, FnReturnsValue,
         cancellable_then_f_Aborts, MovePromise_Aborts

-----------------------------------------------------------------------------
(* A waiter is in one list. *)

\* The same as WaitersInOneList, for lists of waiters at promises and the calls
\* in st.
WaiterInv(lists, st) ==
  /\ \A n : \A p, q \in Promises :
       n \in Elements(lists[p]) /\ n \in Elements(lists[q]) => p = q
  /\ \A n : \A i, j \in DOMAIN st :
       /\ st[i].call = "notify" /\ n \in Elements(st[i].to)
       /\ st[j].call = "notify" /\ n \in Elements(st[j].to)
       => i = j
  /\ \A n : \A p \in Promises, i \in DOMAIN st :
       st[i].call = "notify" /\ n \in Elements(st[i].to) => n \notin Elements(lists[p])

\* It holds of the calls below the innermost one.
LEMMA WaiterPop ==
  ASSUME NEW lists, NEW st \in Seq(Frames), st # <<>>, WaiterInv(lists, st)
  PROVE  WaiterInv(lists, Tail(st))
<1> DEFINE t == Tail(st)
<1>1. \A i \in DOMAIN t : i + 1 \in DOMAIN st /\ t[i] = st[i + 1] /\ i \in Nat
  BY PopProperties
<1> HIDE DEF t
<1>2. ASSUME NEW n, NEW i \in DOMAIN t, NEW j \in DOMAIN t,
             t[i].call = "notify", n \in Elements(t[i].to),
             t[j].call = "notify", n \in Elements(t[j].to)
      PROVE  i = j
  <2>1. PICK a \in DOMAIN st : a = i + 1 /\ t[i] = st[a]
    BY <1>1
  <2>2. PICK b \in DOMAIN st : b = j + 1 /\ t[j] = st[b]
    BY <1>1
  <2>3. a = b
    BY <1>2, <2>1, <2>2, Zenon DEF WaiterInv
  <2> QED BY <1>1, <2>1, <2>2, <2>3
<1>3. ASSUME NEW n, NEW p \in Promises, NEW i \in DOMAIN t, t[i].call = "notify",
             n \in Elements(t[i].to)
      PROVE  n \notin Elements(lists[p])
  BY <1>1, <1>3 DEF WaiterInv
<1>4. WaiterInv(lists, t)
  BY <1>2, <1>3 DEF WaiterInv
<1> QED BY <1>4 DEF t

\* It holds with one more call, if that has waiters of its own.
LEMMA WaiterPush ==
  ASSUME NEW lists, NEW st \in Seq(Frames), WaiterInv(lists, st), NEW x \in Frames,
         x.call = "notify" =>
           /\ \A n \in Elements(x.to) : \A p \in Promises : n \notin Elements(lists[p])
           /\ \A n \in Elements(x.to) : \A i \in DOMAIN st :
                st[i].call = "notify" => n \notin Elements(st[i].to)
  PROVE  WaiterInv(lists, <<x>> \o st)
<1> DEFINE t == <<x>> \o st
<1>1. /\ t[1] = x
      /\ \A i \in DOMAIN t : i = 1 \/ (i - 1 \in DOMAIN st /\ t[i] = st[i - 1] /\ i \in Nat)
  BY PushProperties
<1> HIDE DEF t
<1>2. ASSUME NEW n, NEW i \in DOMAIN t, NEW j \in DOMAIN t,
             t[i].call = "notify", n \in Elements(t[i].to),
             t[j].call = "notify", n \in Elements(t[j].to)
      PROVE  i = j
  <2>1. CASE i = 1 \/ j = 1
    BY <1>1, <1>2, <2>1
  <2>2. CASE i # 1 /\ j # 1
    <3>1. PICK a \in DOMAIN st : a = i - 1 /\ t[i] = st[a]
      BY <1>1, <2>2
    <3>2. PICK b \in DOMAIN st : b = j - 1 /\ t[j] = st[b]
      BY <1>1, <2>2
    <3>3. a = b
      BY <1>2, <3>1, <3>2, Zenon DEF WaiterInv
    <3> QED BY <1>1, <2>2, <3>1, <3>2, <3>3
  <2> QED BY <2>1, <2>2
<1>3. ASSUME NEW n, NEW p \in Promises, NEW i \in DOMAIN t, t[i].call = "notify",
             n \in Elements(t[i].to)
      PROVE  n \notin Elements(lists[p])
  BY <1>1, <1>3 DEF WaiterInv
<1>4. WaiterInv(lists, t)
  BY <1>2, <1>3 DEF WaiterInv
<1> QED BY <1>4 DEF t

\* It holds when waiters leave their lists.
LEMMA WaiterLeave ==
  ASSUME NEW lists, NEW st, WaiterInv(lists, st), NEW left, NEW t,
         \A p \in Promises : Elements(left[p]) \subseteq Elements(lists[p]),
         DOMAIN t = DOMAIN st,
         \A i \in DOMAIN t : t[i].call = "notify" =>
           st[i].call = "notify" /\ Elements(t[i].to) \subseteq Elements(st[i].to)
  PROVE  WaiterInv(left, t)
<1>1. ASSUME NEW n, NEW p \in Promises, NEW q \in Promises,
             n \in Elements(left[p]), n \in Elements(left[q])
      PROVE  p = q
  BY <1>1 DEF WaiterInv
<1>2. ASSUME NEW n, NEW i \in DOMAIN t, NEW j \in DOMAIN t,
             t[i].call = "notify", n \in Elements(t[i].to),
             t[j].call = "notify", n \in Elements(t[j].to)
      PROVE  i = j
  BY <1>2 DEF WaiterInv
<1>3. ASSUME NEW n, NEW p \in Promises, NEW i \in DOMAIN t, t[i].call = "notify",
             n \in Elements(t[i].to)
      PROVE  n \notin Elements(left[p])
  BY <1>3 DEF WaiterInv
<1> QED BY <1>1, <1>2, <1>3 DEF WaiterInv

Lists == ListTypes /\ WaiterInv(notifies, stack)

LEMMA FrameTypes ==
  /\ \A q \in Promises : ThenFrame(q) \in Frames /\ DestroyFrame(q) \in Frames
  /\ \A c \in Callbacks : UserFrame(c) \in Frames
  /\ \A s \in Seq(Notifies) : NotifyFrame(s) \in Frames
  /\ \A x \in Frames : x.call = "notify" => x.to \in Seq(Notifies)
BY DEF Frames, ThenFrame, DestroyFrame, UserFrame, NotifyFrame

\* What a step leaves alone.
LEMMA ListsUntouched == Lists /\ UNCHANGED <<notifies, stack>> => Lists'
BY DEF Lists, ListTypes, WaiterInv

LEMMA EmptyList == Elements(<<>>) = {}
BY EmptySeq DEF Elements

\* The waiters of a promise that is supplied leave it for the call that
\* notifies them.
LEMMA SupplyLists ==
  ASSUME PointerTypes, Lists, NEW p \in Promises, NEW below \in Seq(Frames),
         WaiterInv(notifies, below), Supply(p, below)
  PROVE  Lists'
<1>1. CASE Abort
  BY <1>1, ListsUntouched DEF Abort, promiseVars
<1>2. CASE Fulfil(p, below)
  <2> DEFINE left == [notifies EXCEPT ![p] = <<>>]
  <2>1. notifies' = left
    BY <1>2 DEF Fulfil
  <2>2. left \in [Promises -> Seq(Notifies)]
    BY DEF Lists, ListTypes
  <2>3. \A q \in Promises : Elements(left[q]) \subseteq Elements(notifies[q])
    BY EmptyList DEF Lists, ListTypes
  <2>4. WaiterInv(left, below)
    BY <2>3, WaiterLeave
  <2>5. CASE notifies[p] = <<>>
    <3>1. stack' = below
      BY <1>2, <2>5 DEF Fulfil
    <3> HIDE DEF left
    <3> QED BY <2>1, <2>2, <2>4, <3>1 DEF Lists, ListTypes
  <2>6. CASE notifies[p] # <<>>
    <3> DEFINE rest == Tail(notifies[p])
               x == NotifyFrame(rest)
    <3>1. stack' = <<x>> \o below
      BY <1>2, <2>6 DEF Fulfil
    <3>2. notifies[p] \in Seq(Notifies)
      BY DEF Lists, ListTypes
    <3>3. rest \in Seq(Notifies) /\ Elements(rest) \subseteq Elements(notifies[p])
      BY <2>6, <3>2, PopProperties DEF Elements
    <3>4. x \in Frames /\ x.to = rest
      BY <3>3, FrameTypes DEF NotifyFrame
    <3>5. ASSUME NEW n \in Elements(rest), NEW q \in Promises
          PROVE  n \notin Elements(left[q])
      <4>1. CASE q = p
        BY <4>1, EmptyList DEF Lists, ListTypes
      <4>2. CASE q # p
        BY <3>3, <4>2 DEF Lists, ListTypes, WaiterInv
      <4> QED BY <4>1, <4>2
    <3>6. ASSUME NEW n \in Elements(rest), NEW i \in DOMAIN below, below[i].call = "notify"
          PROVE  n \notin Elements(below[i].to)
      BY <3>3, <3>6 DEF WaiterInv
    <3> HIDE DEF x, rest, left
    <3>7. WaiterInv(left, <<x>> \o below)
      BY <2>4, <3>4, <3>5, <3>6, WaiterPush
    <3>8. <<x>> \o below \in Seq(Frames)
      BY <3>4, PushProperties
    <3> QED BY <2>1, <2>2, <3>1, <3>7, <3>8 DEF Lists, ListTypes
  <2> QED BY <2>5, <2>6
<1>3. CASE RunCallback(p, below) /\ ~Abort
  <2> DEFINE c == callback[p]
             x == IF c \in Promises THEN ThenFrame(c) ELSE UserFrame(c)
  <2>1. c # NULL /\ c \in Promises \cup Callbacks \cup {NULL}
    BY <1>3 DEF Supply, RunCallback, PointerTypes
  <2>2. x \in Frames /\ x.call # "notify"
    BY <2>1, FrameTypes DEF ThenFrame, UserFrame
  <2>3. stack' = <<x>> \o below /\ notifies' = notifies
    BY <1>3 DEF RunCallback
  <2> HIDE DEF x
  <2>4. WaiterInv(notifies, <<x>> \o below)
    BY <2>2, WaiterPush
  <2>5. <<x>> \o below \in Seq(Frames)
    BY <2>2, PushProperties
  <2> QED BY <2>3, <2>4, <2>5 DEF Lists, ListTypes
<1> QED BY <1>1, <1>2, <1>3 DEF Supply

LEMMA RegisterLists ==
  ASSUME IInv, Lists, NEW f \in Futures, NEW n \in Notifies, register_notify(f, n)
  PROVE  Lists'
<1> DEFINE p == matching_promise[f]
           s == notifies[p]
           t == Append(s, n)
           more == [notifies EXCEPT ![p] = t]
<1>1. p \in Promises /\ n \notin Registered /\ notifies' = more /\ stack' = stack
  BY DEF register_notify, IsPending, IInv, LinkTypes
<1>2. s \in Seq(Notifies) /\ notifies \in [Promises -> Seq(Notifies)]
  BY <1>1 DEF Lists, ListTypes
<1>3. t \in Seq(Notifies)
  BY <1>2, AppendProperties
<1>4. Elements(t) \subseteq Elements(s) \cup {n}
  <2>1. /\ Len(s) \in Nat /\ DOMAIN s = 1..Len(s) /\ Len(t) = Len(s) + 1
        /\ \A i \in 1..Len(s) : t[i] = s[i]
        /\ t[Len(s) + 1] = n
    BY <1>2, AppendProperties, LenProperties
  <2>2. DOMAIN t = 1..Len(t)
    BY <1>3, LenProperties
  <2> HIDE DEF t
  <2>3. ASSUME NEW i \in DOMAIN t PROVE t[i] \in Elements(s) \cup {n}
    <3>1. i \in 1..Len(s) \/ i = Len(s) + 1
      BY <2>1, <2>2
    <3> QED BY <2>1, <3>1 DEF Elements
  <2> QED BY <2>3 DEF Elements
<1>5. \A q \in Promises : n \notin Elements(notifies[q])
  BY <1>1 DEF Registered
<1>6. \A i \in DOMAIN stack : stack[i].call = "notify" => n \notin Elements(stack[i].to)
  <2>1. \A i \in NotifyFrames : Elements(stack[i].to) \subseteq Registered
    BY DEF Registered
  <2> QED BY <1>1, <2>1 DEF NotifyFrames
<1> HIDE DEF p, t
<1>7. \A q \in Promises : Elements(more[q]) \subseteq Elements(notifies[q]) \cup
                                                    (IF q = p THEN {n} ELSE {})
  BY <1>1, <1>2, <1>4
<1>8. more \in [Promises -> Seq(Notifies)]
  BY <1>2, <1>3
<1> HIDE DEF more
<1>9. ASSUME NEW m, NEW q \in Promises, NEW r \in Promises,
             m \in Elements(more[q]), m \in Elements(more[r])
      PROVE  q = r
  <2>1. CASE m = n
    BY <1>5, <1>7, <1>9, <2>1
  <2>2. CASE m # n
    BY <1>7, <1>9, <2>2 DEF Lists, WaiterInv
  <2> QED BY <2>1, <2>2
<1>10. ASSUME NEW m, NEW q \in Promises, NEW i \in DOMAIN stack, stack[i].call = "notify",
              m \in Elements(stack[i].to)
       PROVE  m \notin Elements(more[q])
  BY <1>6, <1>7, <1>10 DEF Lists, WaiterInv
<1>11. WaiterInv(more, stack)
  BY <1>9, <1>10 DEF Lists, WaiterInv
<1> QED BY <1>1, <1>8, <1>11 DEF Lists, ListTypes

LEMMA UnregisterLists ==
  ASSUME Lists, NEW n \in Notifies, unregister_self(n)
  PROVE  Lists'
<1> DEFINE left == [p \in Promises |-> Without(notifies[p], n)]
           t == [i \in DOMAIN stack |->
                   IF i \in NotifyFrames THEN NotifyFrame(Without(stack[i].to, n))
                                         ELSE stack[i]]
<1>1. notifies' = left /\ stack' = t
  BY DEF unregister_self
<1>2. Len(stack) \in Nat /\ DOMAIN stack = 1..Len(stack)
      /\ \A i \in DOMAIN stack : stack[i] \in Frames
  BY LenProperties, ElementOfSeq DEF Lists, ListTypes
<1>3. \A p \in Promises : /\ Without(notifies[p], n) \in Seq(Notifies)
                          /\ Elements(Without(notifies[p], n)) \subseteq Elements(notifies[p])
  BY WithoutProperties DEF Lists, ListTypes
<1>4. ASSUME NEW i \in DOMAIN stack
      PROVE  /\ t[i] \in Frames
             /\ t[i].call = "notify" =>
                  /\ stack[i].call = "notify"
                  /\ Elements(t[i].to) \subseteq Elements(stack[i].to)
  <2>1. CASE i \in NotifyFrames
    <3>1. stack[i].call = "notify" /\ stack[i].to \in Seq(Notifies)
      BY <1>2, <2>1, FrameTypes DEF NotifyFrames
    <3>2. /\ Without(stack[i].to, n) \in Seq(Notifies)
          /\ Elements(Without(stack[i].to, n)) \subseteq Elements(stack[i].to)
      BY <3>1, WithoutProperties
    <3>3. t[i] = NotifyFrame(Without(stack[i].to, n))
      BY <2>1
    <3> HIDE DEF t
    <3>4. t[i].to = Without(stack[i].to, n)
      BY <3>3 DEF NotifyFrame
    <3> QED BY <3>1, <3>2, <3>3, <3>4, FrameTypes
  <2>2. CASE i \notin NotifyFrames
    BY <1>2, <2>2 DEF NotifyFrames
  <2> QED BY <2>1, <2>2
<1>5. DOMAIN t = DOMAIN stack
  OBVIOUS
<1>6. \A p \in Promises : Elements(left[p]) \subseteq Elements(notifies[p])
  BY <1>3
<1>7. left \in [Promises -> Seq(Notifies)]
  BY <1>3
<1> HIDE DEF left, t
<1>8. WaiterInv(left, t)
  BY <1>4, <1>5, <1>6, WaiterLeave DEF Lists
<1>9. t \in Seq(Frames)
  <2>1. t = [i \in 1..Len(stack) |-> t[i]]
    BY <1>2 DEF t
  <2>2. \A i \in 1..Len(stack) : t[i] \in Frames
    BY <1>2, <1>4
  <2> QED BY <1>2, <2>1, <2>2, SeqDef
<1> QED BY <1>1, <1>7, <1>8, <1>9 DEF Lists, ListTypes

LEMMA PopLists ==
  ASSUME Lists, stack # <<>>
  PROVE  /\ Head(stack) \in Frames /\ Tail(stack) \in Seq(Frames)
         /\ WaiterInv(notifies, Tail(stack))
BY PopProperties, WaiterPop DEF Lists, ListTypes

LEMMA ReturnLists ==
  ASSUME IInv, PointerTypes, Lists, Return
  PROVE  Lists'
<1>1. ASSUME stack # <<>>, notifies' = notifies, stack' = Tail(stack) PROVE Lists'
  BY <1>1, PopLists DEF Lists, ListTypes
<1>2. CASE UserReturns
  BY <1>1, <1>2 DEF UserReturns, promiseVars
<1>3. CASE NotifyNext
  <2> DEFINE h == Head(stack)
             rest == Tail(h.to)
             x == NotifyFrame(rest)
             below == Tail(stack)
  <2>1. /\ stack # <<>> /\ h.call = "notify" /\ h.to # <<>>
        /\ stack' = <<x>> \o below /\ notifies' = notifies
    BY <1>3 DEF NotifyNext, promiseVars
  <2>2. h \in Frames /\ below \in Seq(Frames) /\ WaiterInv(notifies, below)
    BY <2>1, PopLists
  <2>3. /\ 1 \in DOMAIN stack /\ stack[1] = h
        /\ \A i \in DOMAIN below :
             i + 1 \in DOMAIN stack /\ below[i] = stack[i + 1] /\ i + 1 # 1
    BY <2>1, PopProperties DEF Lists, ListTypes
  <2>4. h.to \in Seq(Notifies)
    BY <2>1, <2>2, FrameTypes
  <2>5. rest \in Seq(Notifies) /\ Elements(rest) \subseteq Elements(h.to)
    BY <2>1, <2>4, PopProperties DEF Elements
  <2>6. x \in Frames /\ x.to = rest
    BY <2>5, FrameTypes DEF NotifyFrame
  <2> HIDE DEF h, rest, x, below
  <2>7. ASSUME NEW n \in Elements(rest), NEW p \in Promises
        PROVE  n \notin Elements(notifies[p])
    BY <2>1, <2>3, <2>5 DEF Lists, WaiterInv
  <2>8. ASSUME NEW n \in Elements(rest), NEW i \in DOMAIN below, below[i].call = "notify"
        PROVE  n \notin Elements(below[i].to)
    <3>1. PICK j \in DOMAIN stack : j = i + 1 /\ j # 1 /\ below[i] = stack[j]
      BY <2>3
    <3> QED BY <2>1, <2>3, <2>5, <2>8, <3>1 DEF Lists, WaiterInv
  <2>9. WaiterInv(notifies, <<x>> \o below)
    BY <2>2, <2>6, <2>7, <2>8, WaiterPush
  <2>10. <<x>> \o below \in Seq(Frames)
    BY <2>2, <2>6, PushProperties
  <2> QED BY <2>1, <2>9, <2>10 DEF Lists, ListTypes
<1>4. ASSUME NEW q \in Promises, FnReturnsValue(q) PROVE Lists'
  <2> DEFINE x == DestroyFrame(q)
             below == <<x>> \o Tail(stack)
  <2>1. Supply(q, below) /\ stack # <<>>
    BY <1>4 DEF FnReturnsValue, InFn
  <2>2. x \in Frames /\ x.call # "notify"
    BY FrameTypes DEF DestroyFrame
  <2> HIDE DEF x
  <2>3. below \in Seq(Frames) /\ WaiterInv(notifies, below)
    BY <2>1, <2>2, PopLists, PushProperties, WaiterPush
  <2> HIDE DEF below
  <2> QED BY <2>1, <2>3, SupplyLists
<1>5. ASSUME NEW q \in Promises, NEW f \in Futures, FnReturnsPending(q, f) PROVE Lists'
  <2>1. CASE Abort
    BY <2>1, ListsUntouched DEF Abort, promiseVars
  <2>2. CASE SpliceFuture(q, f) \/ SpliceCallback(q, f)
    BY <1>1, <1>5, <2>2 DEF FnReturnsPending, InFn, SpliceFuture, SpliceCallback
  <2> QED BY <1>5, <2>1, <2>2 DEF FnReturnsPending
<1>6. CASE DestroyClosure
  <2>1. CASE Abort
    BY <2>1, ListsUntouched DEF Abort, promiseVars
  <2> QED BY <1>1, <1>6, <2>1 DEF DestroyClosure
<1> QED BY <1>2, <1>3, <1>4, <1>5, <1>6 DEF Return

LEMMA UserOperationLists ==
  ASSUME IInv, PointerTypes, Lists, UserOperation
  PROVE  Lists'
<1>1. ASSUME NEW p \in Promises, NEW r \in Promises, MovePromise(p, r) PROVE Lists'
  <2> DEFINE lists == [notifies EXCEPT ![r] = notifies[p], ![p] = <<>>]
  <2>1. p # r /\ notifies' = lists /\ stack' = stack
    BY <1>1 DEF MovePromise, Roots
  <2>2. kind[r] = "free" => notifies[r] \in Seq(Notifies)
    BY DEF Lists, ListTypes
  <2>3. lists \in [Promises -> Seq(Notifies)]
    BY EmptySeq DEF Lists, ListTypes
  <2>4. \A x \in Promises :
          Elements(lists[x]) = IF x = p THEN {} ELSE
                                 IF x = r THEN Elements(notifies[p]) ELSE Elements(notifies[x])
    BY <2>1, EmptyList DEF Lists, ListTypes
  <2> HIDE DEF lists
  <2>5. ASSUME NEW n, NEW x \in Promises, NEW y \in Promises,
               n \in Elements(lists[x]), n \in Elements(lists[y])
        PROVE  x = y
    BY <2>4, <2>5 DEF Lists, WaiterInv
  <2>6. ASSUME NEW n, NEW x \in Promises, NEW i \in DOMAIN stack, stack[i].call = "notify",
               n \in Elements(stack[i].to)
        PROVE  n \notin Elements(lists[x])
    BY <2>4, <2>6 DEF Lists, WaiterInv
  <2>7. WaiterInv(lists, stack)
    BY <2>5, <2>6 DEF Lists, WaiterInv
  <2> QED BY <2>1, <2>3, <2>7 DEF Lists, ListTypes
<1>2. ASSUME NEW p \in Promises, \/ \E k \in Roots : NewRoot(p, k)
                                 \/ DestroyRoot(p)
                                 \/ \E f \in Futures : MakeFuture(p, f)
                                 \/ MovePromise_Aborts(p)
      PROVE  Lists'
  BY <1>2, ListsUntouched
  DEF NewRoot, DestroyRoot, MakeFuture, MovePromise_Aborts, Abort, promiseVars
<1>3. ASSUME NEW p \in Promises, SupplyRoot(p) PROVE Lists'
  BY <1>3, SupplyLists DEF SupplyRoot, Lists, ListTypes
<1>4. ASSUME NEW f \in Futures, \/ \E g \in Futures : MoveFuture(f, g)
                                \/ TakeValue(f) \/ CancelReady(f) \/ cancel(f)
                                \/ cancellable_then_f_Aborts(f)
                                \/ \E c \in Callbacks : wait_with_callback(f, c)
      PROVE  Lists'
  BY <1>4, ListsUntouched
  DEF MoveFuture, TakeValue, CancelReady, cancel, Cut, cancellable_then_f_Aborts, Abort,
      wait_with_callback, promiseVars
<1>5. ASSUME NEW f \in Futures, NEW q \in Promises, NEW g \in Futures,
             then_f(f, q, g) \/ cancellable_then_f(f, q, g)
      PROVE  Lists'
  BY <1>5, ListsUntouched DEF then_f, cancellable_then_f, Chain
<1>6. ASSUME NEW f \in Futures, NEW n \in Notifies, register_notify(f, n) PROVE Lists'
  BY <1>6, RegisterLists
<1>7. ASSUME NEW n \in Notifies, unregister_self(n) PROVE Lists'
  BY <1>7, UnregisterLists
<1> QED BY <1>1, <1>2, <1>3, <1>4, <1>5, <1>6, <1>7 DEF UserOperation

LEMMA InitLists == Init => PointerTypes /\ Lists
<1>1. Init => PointerTypes
  BY DEF Init, PointerTypes
<1>2. Init => ListTypes
  BY EmptySeq DEF Init, ListTypes
<1>3. Init => WaiterInv(notifies, stack)
  <2> SUFFICES ASSUME Init PROVE WaiterInv(notifies, stack)
    OBVIOUS
  <2>1. \A p \in Promises : Elements(notifies[p]) = {}
    BY EmptyList DEF Init
  <2>2. DOMAIN stack = {}
    BY EmptySeq DEF Init
  <2> QED BY <2>1, <2>2 DEF WaiterInv
<1> QED BY <1>1, <1>2, <1>3 DEF Lists

THEOREM ListsInvariant == Spec => [](PointerTypes /\ Lists)
<1>1. PointerTypes /\ Lists /\ IInv /\ [Next]_vars => PointerTypes' /\ Lists'
  <2> SUFFICES ASSUME PointerTypes, Lists, IInv, [Next]_vars PROVE Lists'
    BY StepPointerTypes
  <2>1. CASE UNCHANGED vars
    BY <2>1, ListsUntouched DEF vars, promiseVars
  <2>2. CASE Finished
    BY <2>1, <2>2 DEF Finished
  <2> QED BY <2>1, <2>2, UserOperationLists, ReturnLists DEF Next
<1> QED BY InitLists, <1>1, InductiveInvariant, PTL DEF Spec

\* Every pointer leads to an object or is NULL, and the stack holds calls.
THEOREM TypeCorrect == Spec => []TypeOK
<1>1. IInv /\ PointerTypes /\ Lists => TypeOK
  BY DEF IInv, LinkTypes, PointerTypes, Lists, ListTypes, TypeOK
<1> QED BY <1>1, InductiveInvariant, ListsInvariant, PTL

LEMMA AtMostOne ==
  ASSUME NEW X, \A x, y \in X : x = y
  PROVE  Cardinality(X) <= 1
<1>1. CASE X = {}
  BY <1>1, FS_EmptySet
<1>2. CASE X # {}
  <2>1. PICK x : x \in X
    BY <1>2
  <2>2. X = {x}
    BY <2>1
  <2>3. Cardinality({x}) = 1
    BY FS_Singleton
  <2> QED BY <2>2, <2>3
<1> QED BY <1>1, <1>2

\* A waiter is in the list of one promise or of one call that is notifying,
\* whichever of its future and its promise is moved, supplied or chained while
\* it waits.
THEOREM WaitersStayInOneList == Spec => []WaitersInOneList
<1>1. Lists => WaitersInOneList
  <2> SUFFICES ASSUME Lists, NEW n \in Notifies
               PROVE  Cardinality({p \in Promises : n \in Elements(notifies[p])}
                        \cup {i \in NotifyFrames : n \in Elements(stack[i].to)}) <= 1
    BY DEF WaitersInOneList
  <2> DEFINE A == {p \in Promises : n \in Elements(notifies[p])}
             B == {i \in NotifyFrames : n \in Elements(stack[i].to)}
  <2>1. \A x, y \in A : x = y
    BY DEF Lists, WaiterInv
  <2>2. \A x, y \in B : x = y
    BY DEF Lists, WaiterInv, NotifyFrames
  <2>3. \A x \in A, y \in B : FALSE
    BY DEF Lists, WaiterInv, NotifyFrames
  <2> HIDE DEF A, B
  <2>4. \A x, y \in A \cup B : x = y
    BY <2>1, <2>2, <2>3
  <2>5. Cardinality(A \cup B) <= 1
    BY <2>4, AtMostOne
  <2> QED BY <2>5 DEF A, B
<1> QED BY <1>1, ListsInvariant, PTL
=============================================================================
