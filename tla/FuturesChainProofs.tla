------------------------- MODULE FuturesChainProofs -------------------------
(***************************************************************************)
(* Proofs about Futures, continued: the closures that then_f and           *)
(* cancellable_then_f make, and the chains of promises they form.  What is *)
(* proved of every usage of the library comes first; that no assertion     *)
(* fails is a theorem about the usage of the program, Usage = {}.          *)
(***************************************************************************)
EXTENDS FuturesProofs

Chained == {"then", "cthen"}

\* Whether x is one of the calls in st; the promises whose closure runs, and
\* those whose closure is being destroyed, in a call of st; and that it does so
\* in one call.
Has(st, x) == \E i \in DOMAIN st : st[i] = x
Runs(st)   == {q \in Promises : Has(st, ThenFrame(q))}
Dying(st)  == {q \in Promises : Has(st, DestroyFrame(q))}
ClosureFrames(q) == {ThenFrame(q), DestroyFrame(q)}
Once(st) ==
  \A q \in Promises : \A i, j \in DOMAIN st :
    st[i] \in ClosureFrames(q) /\ st[j] \in ClosureFrames(q) => i = j

Called == Runs(stack) \cup Dying(stack)

\* A promise has a future, or a callback, or neither; waiters only wait for a
\* future; the pointers of cancel() are set in promises that have them.
FieldsOK ==
  \A p \in Promises :
    /\ matching_future[p] # NULL => callback[p] = NULL
    /\ notifies[p] # <<>> => matching_future[p] # NULL
    /\ kind[p] = "free" => callback[p] = NULL
    /\ backwards[p] # NULL => kind[p] = "cthen"
    /\ attached[p] # NULL => kind[p] \in {"io", "cthen"}

\* Each closure has one home, as in ClosuresHaveOneHome.
HomesOK ==
  /\ Once(stack)
  /\ \A q \in Promises :
       /\ \A p, r \in Promises : callback[p] = q /\ callback[r] = q => p = r
       /\ (\E p \in Promises : callback[p] = q) => q \notin Called
       /\ kind[q] \in Chained <=> (\E p \in Promises : callback[p] = q) \/ q \in Called

\* The promise in a closure is supplied before the closure is destroyed, and
\* not before: a promise whose closure is still to be called, or runs, has a
\* future or a callback.  If a future is cancelled while the closure upstream of
\* it runs, that one may be left with neither.
LiveOK ==
  \A q \in Promises :
    /\ q \in Dying(stack) => matching_future[q] = NULL /\ callback[q] = NULL
    /\ kind[q] \in Chained /\ q \notin Dying(stack)
         => \/ matching_future[q] # NULL \/ callback[q] # NULL
            \/ q \in Runs(stack) /\ "cancel_running" \in Usage
    /\ kind[q] = "cthen" => backwards[q] # NULL \/ q \in Called

\* What is left of attached_promise_ptr_: the promise it leads to, if that
\* leads back, lives in the callback, or in a closure that was.
AttachOK ==
  \A b, x \in Promises :
    attached[b] = x /\ backwards[x] = b => callback[b] = x \/ x \in Called

Structure == FieldsOK /\ HomesOK /\ LiveOK /\ AttachOK

\* A cancellable_future has a value or a promise, one that cancel() may cast to.
CancellableOK ==
  \A f \in cancellable :
    /\ ~IsDefault(f)
    /\ IsPending(f) => kind[matching_promise[f]] \in {"io", "cthen"}

-----------------------------------------------------------------------------
(* The closures in the calls of a stack. *)

LEMMA FramesDiffer ==
  ASSUME NEW q, NEW r
  PROVE  /\ ThenFrame(q) # DestroyFrame(r)
         /\ ThenFrame(q) = ThenFrame(r) => q = r
         /\ DestroyFrame(q) = DestroyFrame(r) => q = r
         /\ \A c : ThenFrame(q) # UserFrame(c) /\ DestroyFrame(q) # UserFrame(c)
         /\ \A s : ThenFrame(q) # NotifyFrame(s) /\ DestroyFrame(q) # NotifyFrame(s)
<1>1. /\ \A x : ThenFrame(x).call = "then" /\ ThenFrame(x).to = x
      /\ \A x : DestroyFrame(x).call = "destroy" /\ DestroyFrame(x).to = x
      /\ \A x : UserFrame(x).call = "user"
      /\ \A x : NotifyFrame(x).call = "notify"
  BY DEF ThenFrame, DestroyFrame, UserFrame, NotifyFrame
<1>2. ThenFrame(q) = ThenFrame(r) => q = r
  BY <1>1
<1>3. DestroyFrame(q) = DestroyFrame(r) => q = r
  BY <1>1
<1> QED BY <1>1, <1>2, <1>3

LEMMA HasPush ==
  ASSUME NEW st \in Seq(Frames), NEW x \in Frames, NEW y
  PROVE  Has(<<x>> \o st, y) <=> x = y \/ Has(st, y)
<1> DEFINE t == <<x>> \o st
<1>1. /\ 1 \in DOMAIN t /\ t[1] = x
      /\ \A i \in DOMAIN st : i + 1 \in DOMAIN t /\ t[i + 1] = st[i]
      /\ \A i \in DOMAIN t : i = 1 \/ (i - 1 \in DOMAIN st /\ t[i] = st[i - 1])
  BY PushProperties
<1> HIDE DEF t
<1>2. Has(t, y) => x = y \/ Has(st, y)
  BY <1>1 DEF Has
<1>3. x = y \/ Has(st, y) => Has(t, y)
  BY <1>1 DEF Has
<1> QED BY <1>2, <1>3 DEF t

LEMMA HasPop ==
  ASSUME NEW st \in Seq(Frames), st # <<>>, NEW y
  PROVE  Has(st, y) <=> Head(st) = y \/ Has(Tail(st), y)
<1> DEFINE t == Tail(st)
<1>1. /\ 1 \in DOMAIN st /\ st[1] = Head(st)
      /\ \A i \in DOMAIN t : i + 1 \in DOMAIN st /\ t[i] = st[i + 1]
      /\ \A i \in DOMAIN st : i = 1 \/ (i - 1 \in DOMAIN t /\ st[i] = t[i - 1])
  BY PopProperties
<1> HIDE DEF t
<1>2. Has(st, y) => Head(st) = y \/ Has(t, y)
  BY <1>1 DEF Has
<1>3. Head(st) = y \/ Has(t, y) => Has(st, y)
  BY <1>1 DEF Has
<1> QED BY <1>2, <1>3 DEF t

LEMMA OncePush ==
  ASSUME NEW st \in Seq(Frames), NEW x \in Frames, Once(st),
         \A q \in Runs(st) \cup Dying(st) : x \notin ClosureFrames(q)
  PROVE  Once(<<x>> \o st)
<1> DEFINE t == <<x>> \o st
<1>1. /\ t[1] = x
      /\ \A i \in DOMAIN t : i = 1 \/ (i - 1 \in DOMAIN st /\ t[i] = st[i - 1] /\ i \in Nat)
  BY PushProperties
<1> HIDE DEF t
<1>2. ASSUME NEW q \in Promises, NEW i \in DOMAIN st, st[i] \in ClosureFrames(q)
      PROVE  x \notin ClosureFrames(q)
  BY <1>2 DEF Runs, Dying, Has, ClosureFrames
<1>3. ASSUME NEW q \in Promises, NEW i \in DOMAIN t, NEW j \in DOMAIN t,
             t[i] \in ClosureFrames(q), t[j] \in ClosureFrames(q)
      PROVE  i = j
  <2>1. CASE i = 1 \/ j = 1
    BY <1>1, <1>2, <1>3, <2>1
  <2>2. CASE i # 1 /\ j # 1
    <3>1. PICK a \in DOMAIN st : a = i - 1 /\ t[i] = st[a]
      BY <1>1, <2>2
    <3>2. PICK b \in DOMAIN st : b = j - 1 /\ t[j] = st[b]
      BY <1>1, <2>2
    <3>3. a = b
      BY <1>3, <3>1, <3>2, Zenon DEF Once
    <3> QED BY <1>1, <2>2, <3>1, <3>2, <3>3
  <2> QED BY <2>1, <2>2
<1>4. Once(t)
  BY <1>3 DEF Once
<1> QED BY <1>4 DEF t

LEMMA OncePop ==
  ASSUME NEW st \in Seq(Frames), st # <<>>, Once(st)
  PROVE  /\ Once(Tail(st))
         /\ \A q \in Promises :
              Head(st) \in ClosureFrames(q) => q \notin Runs(Tail(st)) \cup Dying(Tail(st))
<1> DEFINE t == Tail(st)
<1>1. /\ 1 \in DOMAIN st /\ st[1] = Head(st)
      /\ \A i \in DOMAIN t : i + 1 \in DOMAIN st /\ t[i] = st[i + 1] /\ i \in Nat \ {0}
  BY PopProperties
<1> HIDE DEF t
<1>2. ASSUME NEW q \in Promises, NEW i \in DOMAIN t, NEW j \in DOMAIN t,
             t[i] \in ClosureFrames(q), t[j] \in ClosureFrames(q)
      PROVE  i = j
  <2>1. PICK a \in DOMAIN st : a = i + 1 /\ t[i] = st[a]
    BY <1>1
  <2>2. PICK b \in DOMAIN st : b = j + 1 /\ t[j] = st[b]
    BY <1>1
  <2>3. a = b
    BY <1>2, <2>1, <2>2, Zenon DEF Once
  <2> QED BY <1>1, <2>1, <2>2, <2>3
<1>3. ASSUME NEW q \in Promises, Head(st) \in ClosureFrames(q), NEW i \in DOMAIN t
      PROVE  t[i] \notin ClosureFrames(q)
  <2>1. PICK a \in DOMAIN st : a = i + 1 /\ t[i] = st[a]
    BY <1>1
  <2>2. a # 1
    BY <1>1, <2>1
  <2> QED BY <1>1, <1>3, <2>1, <2>2 DEF Once
<1>4. \A q \in Promises : Head(st) \in ClosureFrames(q) => q \notin Runs(t) \cup Dying(t)
  BY <1>3 DEF Runs, Dying, Has, ClosureFrames
<1> QED BY <1>2, <1>4 DEF t, Once

LEMMA PushOther ==
  ASSUME NEW st \in Seq(Frames), NEW x \in Frames, Once(st),
         \A q : x \notin ClosureFrames(q),
         NEW t, t = <<x>> \o st
  PROVE  Runs(t) = Runs(st) /\ Dying(t) = Dying(st) /\ Once(t)
BY HasPush, OncePush DEF Runs, Dying, ClosureFrames

LEMMA PushThen ==
  ASSUME NEW st \in Seq(Frames), Once(st),
         NEW c \in Promises, c \notin Runs(st) \cup Dying(st),
         NEW t, t = <<ThenFrame(c)>> \o st
  PROVE  Runs(t) = Runs(st) \cup {c} /\ Dying(t) = Dying(st) /\ Once(t)
<1> DEFINE x == ThenFrame(c)
<1>1. x \in Frames
  BY FrameTypes
<1>2. \A q : x = ThenFrame(q) => c = q
  BY FramesDiffer
<1>3. \A q : x # DestroyFrame(q)
  BY FramesDiffer
<1>4. x = ThenFrame(c)
  OBVIOUS
<1> HIDE DEF x
<1>5. \A q \in Runs(st) \cup Dying(st) : x \notin ClosureFrames(q)
  BY <1>2, <1>3 DEF ClosureFrames
<1>6. Once(<<x>> \o st)
  BY <1>1, <1>5, OncePush
<1>7. \A y : Has(<<x>> \o st, y) <=> x = y \/ Has(st, y)
  BY <1>1, HasPush
<1>8. Runs(<<x>> \o st) = Runs(st) \cup {c}
  BY <1>2, <1>4, <1>7 DEF Runs
<1>9. Dying(<<x>> \o st) = Dying(st)
  BY <1>3, <1>7 DEF Dying
<1> QED BY <1>4, <1>6, <1>8, <1>9

LEMMA PushDestroy ==
  ASSUME NEW st \in Seq(Frames), Once(st),
         NEW c \in Promises, c \notin Runs(st) \cup Dying(st),
         NEW t, t = <<DestroyFrame(c)>> \o st
  PROVE  Runs(t) = Runs(st) /\ Dying(t) = Dying(st) \cup {c} /\ Once(t)
<1> DEFINE x == DestroyFrame(c)
<1>1. x \in Frames
  BY FrameTypes
<1>2. \A q : x = DestroyFrame(q) => c = q
  BY FramesDiffer
<1>3. \A q : x # ThenFrame(q)
  BY FramesDiffer
<1>4. x = DestroyFrame(c)
  OBVIOUS
<1> HIDE DEF x
<1>5. \A q \in Runs(st) \cup Dying(st) : x \notin ClosureFrames(q)
  BY <1>2, <1>3 DEF ClosureFrames
<1>6. Once(<<x>> \o st)
  BY <1>1, <1>5, OncePush
<1>7. \A y : Has(<<x>> \o st, y) <=> x = y \/ Has(st, y)
  BY <1>1, HasPush
<1>8. Dying(<<x>> \o st) = Dying(st) \cup {c}
  BY <1>2, <1>4, <1>7 DEF Dying
<1>9. Runs(<<x>> \o st) = Runs(st)
  BY <1>3, <1>7 DEF Runs
<1> QED BY <1>4, <1>6, <1>8, <1>9

LEMMA PopOther ==
  ASSUME NEW st \in Seq(Frames), st # <<>>, Once(st),
         \A q : Head(st) \notin ClosureFrames(q),
         NEW t, t = Tail(st)
  PROVE  Runs(t) = Runs(st) /\ Dying(t) = Dying(st) /\ Once(t)
BY HasPop, OncePop DEF Runs, Dying, ClosureFrames

LEMMA PopThen ==
  ASSUME NEW st \in Seq(Frames), st # <<>>, Once(st),
         NEW c \in Promises, Head(st) = ThenFrame(c),
         NEW t, t = Tail(st)
  PROVE  /\ Runs(t) = Runs(st) \ {c} /\ Dying(t) = Dying(st) /\ Once(t)
         /\ c \in Runs(st) /\ c \notin Dying(st)
<1>1. \A q : Head(st) = ThenFrame(q) => c = q
  BY FramesDiffer
<1>2. \A q : Head(st) # DestroyFrame(q)
  BY FramesDiffer
<1>3. \A y : Has(st, y) <=> Head(st) = y \/ Has(t, y)
  BY HasPop
<1>4. Once(t) /\ c \notin Runs(t) \cup Dying(t)
  BY OncePop DEF ClosureFrames
<1>5. Runs(st) = Runs(t) \cup {c}
  BY <1>1, <1>3 DEF Runs
<1>6. Dying(st) = Dying(t)
  BY <1>2, <1>3 DEF Dying
<1> QED BY <1>4, <1>5, <1>6

LEMMA PopDestroy ==
  ASSUME NEW st \in Seq(Frames), st # <<>>, Once(st),
         NEW c \in Promises, Head(st) = DestroyFrame(c),
         NEW t, t = Tail(st)
  PROVE  /\ Runs(t) = Runs(st) /\ Dying(t) = Dying(st) \ {c} /\ Once(t)
         /\ c \in Dying(st) /\ c \notin Runs(st)
<1>1. \A q : Head(st) = DestroyFrame(q) => c = q
  BY FramesDiffer
<1>2. \A q : Head(st) # ThenFrame(q)
  BY FramesDiffer
<1>3. \A y : Has(st, y) <=> Head(st) = y \/ Has(t, y)
  BY HasPop
<1>4. Once(t) /\ c \notin Runs(t) \cup Dying(t)
  BY OncePop DEF ClosureFrames
<1>5. Dying(st) = Dying(t) \cup {c}
  BY <1>1, <1>3 DEF Dying
<1>6. Runs(st) = Runs(t)
  BY <1>2, <1>3 DEF Runs
<1> QED BY <1>4, <1>5, <1>6

\* The same closures are in the calls as before.
SameCalls == Runs(stack') = Runs(stack) /\ Dying(stack') = Dying(stack) /\ Once(stack')

LEMMA OtherCalls ==
  ASSUME Lists, Once(stack),
         \/ UserReturns \/ NotifyNext
         \/ \E n \in Notifies : unregister_self(n)
  PROVE  SameCalls
<1>1. ASSUME NEW x \in Frames, x.call = "user" \/ x.call = "notify", NEW q
      PROVE  x \notin ClosureFrames(q)
  BY <1>1 DEF ClosureFrames, ThenFrame, DestroyFrame
<1>2. CASE UserReturns
  <2>1. stack # <<>> /\ Head(stack) \in Frames /\ stack' = Tail(stack)
    BY <1>2, PopLists DEF UserReturns
  <2>2. Head(stack).call = "user" \/ Head(stack).call = "notify"
    BY <1>2 DEF UserReturns, NotifyFrame
  <2>3. \A q : Head(stack) \notin ClosureFrames(q)
    BY <1>1, <2>1, <2>2
  <2> QED BY <2>1, <2>3, PopOther DEF SameCalls, Lists, ListTypes
<1>3. CASE NotifyNext
  <2> DEFINE x == NotifyFrame(Tail(Head(stack).to))
             below == Tail(stack)
  <2>1. /\ stack # <<>> /\ Head(stack) \in Frames /\ stack' = <<x>> \o below
        /\ Head(stack).call = "notify" /\ Head(stack).to # <<>>
        /\ below \in Seq(Frames)
    BY <1>3, PopLists DEF NotifyNext
  <2>2. x \in Frames /\ x.call = "notify"
    BY <2>1, FrameTypes, PopProperties DEF NotifyFrame
  <2>3. \A q : Head(stack) \notin ClosureFrames(q) /\ x \notin ClosureFrames(q)
    BY <1>1, <2>1, <2>2
  <2> HIDE DEF x
  <2>4. Runs(below) = Runs(stack) /\ Dying(below) = Dying(stack) /\ Once(below)
    BY <2>1, <2>3, PopOther DEF Lists, ListTypes
  <2> HIDE DEF below
  <2> QED BY <2>1, <2>2, <2>3, <2>4, PushOther DEF SameCalls
<1>4. ASSUME NEW n \in Notifies, unregister_self(n) PROVE SameCalls
  <2> DEFINE t == stack'
  <2>1. /\ DOMAIN t = DOMAIN stack
        /\ \A i \in DOMAIN stack :
             \/ t[i] = stack[i]
             \/ /\ stack[i].call = "notify"
                /\ t[i] = NotifyFrame(Without(stack[i].to, n))
    BY <1>4 DEF unregister_self, NotifyFrames
  <2> HIDE DEF t
  <2>2. ASSUME NEW i \in DOMAIN stack, NEW q
        PROVE  /\ t[i] = ThenFrame(q) <=> stack[i] = ThenFrame(q)
               /\ t[i] = DestroyFrame(q) <=> stack[i] = DestroyFrame(q)
    <3>1. CASE t[i] = stack[i]
      BY <3>1
    <3>2. CASE stack[i].call = "notify" /\ t[i] = NotifyFrame(Without(stack[i].to, n))
      <4>1. t[i] # ThenFrame(q) /\ t[i] # DestroyFrame(q)
        BY <3>2, FramesDiffer
      <4>2. stack[i] # ThenFrame(q) /\ stack[i] # DestroyFrame(q)
        BY <3>2 DEF ThenFrame, DestroyFrame
      <4> QED BY <4>1, <4>2
    <3> QED BY <2>1, <3>1, <3>2
  <2>3. Runs(t) = Runs(stack) /\ Dying(t) = Dying(stack)
    BY <2>1, <2>2 DEF Runs, Dying, Has
  <2>4. Once(t)
    BY <2>1, <2>2 DEF Once, ClosureFrames
  <2> QED BY <2>3, <2>4 DEF SameCalls, t
<1> QED BY <1>2, <1>3, <1>4

\* The calls under what the closure of q supplies when fn returns.
LEMMA CallsBelowFn ==
  ASSUME Lists, Once(stack), NEW q \in Promises, InFn(q),
         NEW below, below = <<DestroyFrame(q)>> \o Tail(stack)
  PROVE  /\ below \in Seq(Frames) /\ Once(below) /\ q \in Runs(stack)
         /\ Runs(below) = Runs(stack) \ {q} /\ Dying(below) = Dying(stack) \cup {q}
<1> DEFINE top == DestroyFrame(q)
           rest == Tail(stack)
<1>1. stack # <<>> /\ Head(stack) = ThenFrame(q)
  BY DEF InFn
<1>2. /\ Runs(rest) = Runs(stack) \ {q} /\ Dying(rest) = Dying(stack)
      /\ Once(rest) /\ q \in Runs(stack) /\ q \notin Dying(stack)
      /\ rest \in Seq(Frames)
  BY <1>1, PopThen, PopLists DEF Lists, ListTypes
<1>3. top \in Frames
  BY FrameTypes
<1> HIDE DEF rest
<1>4. /\ Runs(<<top>> \o rest) = Runs(rest) /\ Dying(<<top>> \o rest) = Dying(rest) \cup {q}
      /\ Once(<<top>> \o rest)
  BY <1>2, PushDestroy
<1> HIDE DEF top
<1>5. <<top>> \o rest \in Seq(Frames)
  BY <1>2, <1>3, PushProperties
<1> QED BY <1>2, <1>4, <1>5 DEF top, rest

\* The calls after supply_value_and_detach() called what it has to.
LEMMA SupplyCalls ==
  ASSUME PointerTypes, Lists, NEW p \in Promises,
         NEW below \in Seq(Frames), Once(below),
         callback[p] \notin Runs(below) \cup Dying(below),
         Supply(p, below), ~aborted'
  PROVE  /\ Once(stack')
         /\ \/ /\ Fulfil(p, below)
               /\ Runs(stack') = Runs(below) /\ Dying(stack') = Dying(below)
            \/ /\ RunCallback(p, below) /\ callback[p] # NULL
               /\ Runs(stack') = Runs(below) \cup ({callback[p]} \cap Promises)
               /\ Dying(stack') = Dying(below)
<1>1. ~Abort
  BY DEF Abort
<1>2. CASE Fulfil(p, below)
  <2>1. CASE notifies[p] = <<>>
    BY <1>2, <2>1 DEF Fulfil
  <2>2. CASE notifies[p] # <<>>
    <3> DEFINE x == NotifyFrame(Tail(notifies[p]))
    <3>1. stack' = <<x>> \o below
      BY <1>2, <2>2 DEF Fulfil
    <3>2. x \in Frames
      BY <2>2, FrameTypes, PopProperties DEF Lists, ListTypes
    <3>3. \A q : x \notin ClosureFrames(q)
      BY FramesDiffer DEF ClosureFrames
    <3> HIDE DEF x
    <3> QED BY <1>2, <3>1, <3>2, <3>3, PushOther
  <2> QED BY <2>1, <2>2
<1>3. CASE RunCallback(p, below)
  <2> DEFINE c == callback[p]
  <2>1. c # NULL /\ c \in Promises \cup Callbacks \cup {NULL}
    BY <1>1, <1>3 DEF Supply, RunCallback, PointerTypes
  <2>2. CASE c \in Promises
    <3>1. stack' = <<ThenFrame(c)>> \o below
      BY <1>3, <2>2 DEF RunCallback
    <3> HIDE DEF c
    <3>2. Runs(stack') = Runs(below) \cup {c} /\ Dying(stack') = Dying(below) /\ Once(stack')
      BY <2>2, <3>1, PushThen DEF c
    <3> QED BY <1>3, <2>1, <2>2, <3>2 DEF c
  <2>3. CASE c \notin Promises
    <3> DEFINE x == UserFrame(c)
    <3>1. stack' = <<x>> \o below
      BY <1>3, <2>3 DEF RunCallback
    <3>2. x \in Frames
      BY <2>1, <2>3, FrameTypes
    <3>3. \A q : x \notin ClosureFrames(q)
      BY FramesDiffer DEF ClosureFrames
    <3> HIDE DEF x
    <3>4. Runs(stack') = Runs(below) /\ Dying(stack') = Dying(below) /\ Once(stack')
      BY <3>1, <3>2, <3>3, PushOther
    <3> QED BY <1>3, <2>1, <2>3, <3>4
  <2> QED BY <2>2, <2>3
<1> QED BY <1>1, <1>2, <1>3 DEF Supply

-----------------------------------------------------------------------------
(* Each operation keeps the structure, unless an assertion fails. *)

\* p is supplied, from outside or because the closure it lives in has returned
\* (then Done holds p).
LEMMA SupplyStructure ==
  ASSUME IInv, PointerTypes, Lists, Structure, NEW p \in Promises,
         NEW below \in Seq(Frames), Once(below),
         NEW Done, Runs(below) = Runs(stack) \ Done, Dying(below) = Dying(stack) \cup Done,
         \/ Done = {} /\ kind[p] \in Roots
         \/ Done = {p} /\ p \in Runs(stack),
         Supply(p, below), ~aborted'
  PROVE  Structure'
<1> DEFINE c == callback[p]
<1>1. Runs(below) \cup Dying(below) = Called
  BY DEF Called
<1>2. c \notin Runs(below) \cup Dying(below)
  <2>1. \A q \in Called : q \in Promises
    BY DEF Called, Runs, Dying
  <2> QED BY <1>1, <2>1 DEF Structure, HomesOK
<1>3. kind[p] \in Chained => Done = {p}
  BY DEF Roots, Chained
<1>4. kind' = kind /\ attached' = attached /\ backwards' = backwards
  BY <1>2, SupplyCalls DEF Fulfil, RunCallback, chainVars
<1>5. CASE Fulfil(p, below)
  <2>1. /\ matching_future[p] # NULL
        /\ matching_future' = [matching_future EXCEPT ![p] = NULL]
        /\ notifies' = [notifies EXCEPT ![p] = <<>>]
        /\ callback' = callback
    BY <1>5 DEF Fulfil
  <2>2. /\ Runs(stack') = Runs(stack) \ Done /\ Dying(stack') = Dying(stack) \cup Done
        /\ Once(stack') /\ Called' = Called
    <3>1. ~RunCallback(p, below)
      BY <2>1 DEF RunCallback
    <3> QED BY <1>1, <1>2, <3>1, SupplyCalls DEF Called
  <2>3. callback[p] = NULL
    BY <2>1 DEF Structure, FieldsOK
  <2>4. FieldsOK'
    BY <1>4, <2>1 DEF Structure, FieldsOK, IInv, LinkTypes, Lists, ListTypes
  <2>5. HomesOK'
    BY <1>4, <2>1, <2>2 DEF Structure, HomesOK
  <2>6. LiveOK'
    BY <1>3, <1>4, <2>1, <2>2, <2>3 DEF Structure, LiveOK, IInv, LinkTypes
  <2>7. AttachOK'
    BY <1>4, <2>1, <2>2 DEF Structure, AttachOK
  <2> QED BY <2>4, <2>5, <2>6, <2>7 DEF Structure
<1>6. CASE RunCallback(p, below)
  <2>1. /\ c # NULL /\ matching_future[p] = NULL
        /\ callback' = [callback EXCEPT ![p] = NULL]
        /\ UNCHANGED <<matching_future, notifies>>
    <3>1. ~Fulfil(p, below)
      BY <1>6 DEF Fulfil, RunCallback
    <3> QED BY <1>2, <1>6, <3>1, SupplyCalls DEF RunCallback
  <2>2. /\ Runs(stack') = (Runs(stack) \ Done) \cup ({c} \cap Promises)
        /\ Dying(stack') = Dying(stack) \cup Done
        /\ Once(stack') /\ Called' = Called \cup ({c} \cap Promises)
    <3>1. ~Fulfil(p, below)
      BY <2>1 DEF Fulfil
    <3> QED BY <1>1, <1>2, <3>1, SupplyCalls DEF Called
  <2>3. /\ \A q \in Promises : q # p => callback'[q] = callback[q]
        /\ callback'[p] = NULL
    BY <2>1 DEF PointerTypes
  <2> HIDE DEF c
  <2>4. FieldsOK'
    BY <1>4, <2>1, <2>3 DEF Structure, FieldsOK
  <2>5. HomesOK'
    <3> SUFFICES ASSUME NEW q \in Promises
                 PROVE  /\ \A x, r \in Promises : callback'[x] = q /\ callback'[r] = q => x = r
                        /\ (\E x \in Promises : callback'[x] = q) => q \notin Called'
                        /\ kind'[q] \in Chained <=>
                             (\E x \in Promises : callback'[x] = q) \/ q \in Called'
      BY <2>2 DEF HomesOK
    <3>1. /\ \A x, r \in Promises : callback[x] = q /\ callback[r] = q => x = r
          /\ (\E x \in Promises : callback[x] = q) => q \notin Called
          /\ kind[q] \in Chained <=> (\E x \in Promises : callback[x] = q) \/ q \in Called
      BY DEF Structure, HomesOK
    <3>2. CASE q = c
      BY <1>4, <2>2, <2>3, <3>1, <3>2, NullAssumption DEF c
    <3>3. CASE q # c
      BY <1>4, <2>2, <2>3, <3>1, <3>3, NullAssumption DEF c
    <3> QED BY <3>2, <3>3
  <2>6. LiveOK'
    BY <1>3, <1>4, <2>1, <2>2, <2>3 DEF Structure, LiveOK
  <2>7. AttachOK'
    BY <1>4, <2>2, <2>3 DEF Structure, AttachOK, c
  <2> QED BY <2>4, <2>5, <2>6, <2>7 DEF Structure
<1> QED BY <1>2, <1>5, <1>6, SupplyCalls

\* Steps that leave the pointers between promises and the closures as they are.
LEMMA StructureUntouched ==
  ASSUME Structure, UNCHANGED <<kind, callback, attached, backwards>>, SameCalls,
         \A p \in Promises : matching_future'[p] = NULL <=> matching_future[p] = NULL,
         \A p \in Promises : notifies'[p] # <<>> => matching_future[p] # NULL
  PROVE  Structure'
<1>1. FieldsOK'
  BY DEF Structure, FieldsOK
<1>2. HomesOK'
  BY DEF Structure, HomesOK, SameCalls, Called
<1>3. LiveOK'
  BY DEF Structure, LiveOK, SameCalls, Called
<1>4. AttachOK'
  BY DEF Structure, AttachOK, SameCalls, Called
<1> QED BY <1>1, <1>2, <1>3, <1>4 DEF Structure

LEMMA SameStack == Structure /\ stack' = stack => SameCalls
BY DEF Structure, HomesOK, SameCalls

LEMMA WaiterStructure ==
  ASSUME IInv, Lists, Structure,
         \/ \E f \in Futures, n \in Notifies : register_notify(f, n)
         \/ \E n \in Notifies : unregister_self(n)
         \/ UserReturns \/ NotifyNext
  PROVE  Structure'
<1>1. ASSUME NEW f \in Futures, NEW n \in Notifies, register_notify(f, n) PROVE Structure'
  <2> DEFINE p == matching_promise[f]
  <2>1. /\ p \in Promises /\ matching_future[p] # NULL
        /\ notifies' = [notifies EXCEPT ![p] = Append(notifies[p], n)]
        /\ UNCHANGED <<kind, matching_future, callback, attached, backwards, stack>>
    BY <1>1, NullAssumption
    DEF register_notify, IsPending, IInv, LinkTypes, MatchedPair, chainVars
  <2> HIDE DEF p
  <2>2. \A r \in Promises : notifies'[r] # <<>> => matching_future[r] # NULL
    BY <2>1 DEF Structure, FieldsOK, Lists, ListTypes
  <2> QED BY <2>1, <2>2, SameStack, StructureUntouched
<1>2. ASSUME NEW n \in Notifies, unregister_self(n) PROVE Structure'
  <2>1. /\ \A p \in Promises : notifies'[p] = Without(notifies[p], n)
        /\ UNCHANGED <<kind, matching_future, callback, attached, backwards>>
    BY <1>2 DEF unregister_self, chainVars
  <2>2. Without(<<>>, n) = <<>>
    BY EmptyList DEF Without
  <2>3. SameCalls
    BY <1>2, OtherCalls DEF Structure, HomesOK
  <2> QED BY <2>1, <2>2, <2>3, StructureUntouched DEF Structure, FieldsOK
<1>3. CASE UserReturns \/ NotifyNext
  <2>1. SameCalls
    BY <1>3, OtherCalls DEF Structure, HomesOK
  <2>2. UNCHANGED <<kind, matching_future, callback, notifies, attached, backwards>>
    BY <1>3 DEF UserReturns, NotifyNext, promiseVars, chainVars
  <2> QED BY <2>1, <2>2, StructureUntouched DEF Structure, FieldsOK
<1> QED BY <1>1, <1>2, <1>3

LEMMA FutureStructure ==
  ASSUME IInv, Structure, NEW f \in Futures,
         (\E g \in Futures : MoveFuture(f, g)) \/ TakeValue(f) \/ CancelReady(f)
  PROVE  Structure'
<1>1. CASE TakeValue(f) \/ CancelReady(f)
  BY <1>1, SameStack, StructureUntouched
  DEF TakeValue, CancelReady, promiseVars, chainVars, Structure, FieldsOK
<1>2. ASSUME NEW g \in Futures, MoveFuture(f, g) PROVE Structure'
  <2>1. UNCHANGED <<kind, callback, notifies, attached, backwards, stack>>
    BY <1>2 DEF MoveFuture, chainVars
  <2>2. \A p \in Promises : matching_future'[p] = NULL <=> matching_future[p] = NULL
    BY <1>2, NullAssumption DEF MoveFuture, IInv, LinkTypes, MatchedPair
  <2> QED BY <2>1, <2>2, SameStack, StructureUntouched DEF Structure, FieldsOK
<1> QED BY <1>1, <1>2

LEMMA RootStructure ==
  ASSUME IInv, PointerTypes, Structure, NEW p \in Promises,
         \/ \E k \in Roots : NewRoot(p, k)
         \/ DestroyRoot(p)
         \/ \E f \in Futures : MakeFuture(p, f)
  PROVE  Structure'
<1>1. /\ UNCHANGED <<callback, notifies, backwards, stack>>
      /\ callback[p] = NULL
      /\ kind[p] \notin Chained /\ kind'[p] \notin Chained
      /\ \A q \in Promises : q # p => kind'[q] = kind[q]
      /\ kind' \in [Promises -> Kinds]
  BY DEF NewRoot, DestroyRoot, MakeFuture, Structure, FieldsOK, chainVars, Roots, Kinds, Chained,
         IInv, LinkTypes
<1>2. \A q \in Promises : q # p => /\ matching_future'[q] = matching_future[q]
                                   /\ attached'[q] = attached[q]
  BY DEF NewRoot, DestroyRoot, MakeFuture, IInv, LinkTypes, PointerTypes, chainVars
<1>3. attached'[p] = attached[p] \/ attached'[p] = NULL
  BY DEF NewRoot, DestroyRoot, MakeFuture, PointerTypes, chainVars
<1>4. attached'[p] # NULL => kind'[p] \in {"io", "cthen"}
  BY DEF NewRoot, DestroyRoot, MakeFuture, PointerTypes, Structure, FieldsOK, chainVars
<1>5. matching_future[p] = NULL
  BY NullAssumption
  DEF NewRoot, DestroyRoot, MakeFuture, IInv, LinkTypes, MatchedPair, IsPending, Roots
<1>6. Called' = Called /\ Runs(stack') = Runs(stack) /\ Dying(stack') = Dying(stack)
  BY <1>1 DEF Called
<1>7. p \notin Called /\ \A q \in Promises : callback[q] # p
  BY <1>1 DEF Structure, HomesOK
<1>8. kind[p] # "cthen" /\ kind'[p] # "cthen"
  BY <1>1 DEF Chained
<1>9. FieldsOK'
  BY <1>1, <1>2, <1>4, <1>5, <1>8 DEF Structure, FieldsOK
<1>10. HomesOK'
  BY <1>1, <1>6 DEF Structure, HomesOK
<1>11. LiveOK'
  BY <1>1, <1>2, <1>6, <1>7, <1>8 DEF Structure, LiveOK, Called
<1>12. AttachOK'
  BY <1>1, <1>2, <1>3, <1>6, NullAssumption DEF Structure, AttachOK
<1> QED BY <1>9, <1>10, <1>11, <1>12 DEF Structure

LEMMA MovePromiseStructure ==
  ASSUME IInv, PointerTypes, Lists, Structure,
         NEW p \in Promises, NEW r \in Promises, MovePromise(p, r)
  PROVE  Structure'
<1> DEFINE y == attached[p]
<1>1. /\ p # r /\ kind[p] \in Roots /\ kind[r] = "free"
      /\ kind' = [kind EXCEPT ![r] = kind[p], ![p] = "free"]
      /\ matching_future' = [matching_future EXCEPT ![r] = matching_future[p], ![p] = NULL]
      /\ callback' = [callback EXCEPT ![r] = callback[p], ![p] = NULL]
      /\ notifies' = [notifies EXCEPT ![r] = notifies[p], ![p] = <<>>]
      /\ attached' = [attached EXCEPT ![r] = y, ![p] = NULL]
      /\ backwards' = [q \in Promises |-> IF q = y THEN r ELSE backwards[q]]
      /\ stack' = stack
      /\ y # NULL => backwards[y] = p
  BY DEF MovePromise, AttachedIsPaired, Roots
<1>2. Called' = Called
  BY <1>1 DEF Called
<1>3. callback[r] = NULL /\ attached[r] = NULL /\ matching_future[r] = NULL
  BY <1>1, NullAssumption
  DEF Structure, FieldsOK, IInv, LinkTypes, MatchedPair, IsPending, PointerTypes
<1>4. y \in Promises \cup {NULL} /\ (y # NULL => kind[y] = "cthen" /\ y # p /\ y # r)
  BY <1>1, NullAssumption DEF PointerTypes, Structure, FieldsOK, Roots
<1>5. /\ \A q \in Promises : callback[q] # p /\ callback[q] # r
      /\ p \notin Called /\ r \notin Called
  BY <1>1 DEF Structure, HomesOK, Chained, Roots
<1>6. backwards[p] = NULL /\ backwards[r] = NULL
  BY <1>1 DEF Structure, FieldsOK, Roots
<1> HIDE DEF y
<1>11. \A q \in Promises : backwards'[q] # NULL <=> backwards[q] # NULL
  BY <1>1, <1>4, NullAssumption
<1>7. FieldsOK'
  <2>1. \A q \in Promises : q # p /\ q # r =>
          /\ kind'[q] = kind[q] /\ matching_future'[q] = matching_future[q]
          /\ callback'[q] = callback[q] /\ notifies'[q] = notifies[q]
          /\ attached'[q] = attached[q]
    BY <1>1 DEF IInv, LinkTypes, PointerTypes, Lists, ListTypes
  <2>2. /\ kind'[r] = kind[p] /\ matching_future'[r] = matching_future[p]
        /\ callback'[r] = callback[p] /\ notifies'[r] = notifies[p] /\ attached'[r] = attached[p]
        /\ backwards'[r] = NULL
    BY <1>1, <1>4, <1>6 DEF IInv, LinkTypes, PointerTypes, Lists, ListTypes, y
  <2>3. /\ kind'[p] = "free" /\ matching_future'[p] = NULL
        /\ callback'[p] = NULL /\ notifies'[p] = <<>> /\ attached'[p] = NULL
        /\ backwards'[p] = NULL
    BY <1>1, <1>4, <1>6, NullAssumption DEF IInv, LinkTypes, PointerTypes, Lists, ListTypes
  <2>4. kind[p] # "cthen" /\ kind[p] # "free"
    BY <1>1 DEF Roots
  <2> QED BY <1>11, <2>1, <2>2, <2>3, <2>4 DEF Structure, FieldsOK
<1>8. HomesOK'
  <2> SUFFICES ASSUME NEW q \in Promises
               PROVE  /\ \A x, z \in Promises : callback'[x] = q /\ callback'[z] = q => x = z
                      /\ (\E x \in Promises : callback'[x] = q) => q \notin Called'
                      /\ kind'[q] \in Chained <=>
                           (\E x \in Promises : callback'[x] = q) \/ q \in Called'
    BY <1>1 DEF HomesOK, Structure
  <2>1. /\ \A x, z \in Promises : callback[x] = q /\ callback[z] = q => x = z
        /\ (\E x \in Promises : callback[x] = q) => q \notin Called
        /\ kind[q] \in Chained <=> (\E x \in Promises : callback[x] = q) \/ q \in Called
    BY DEF Structure, HomesOK
  <2>2. /\ \A x \in Promises : x # p /\ x # r => callback'[x] = callback[x]
        /\ callback'[p] = NULL /\ callback'[r] = callback[p]
    BY <1>1 DEF PointerTypes
  <2>3. (\E x \in Promises : callback'[x] = q) <=> (\E x \in Promises : callback[x] = q)
    BY <1>3, <2>2, NullAssumption
  <2>4. \A x, z \in Promises : callback'[x] = q /\ callback'[z] = q => x = z
    BY <1>3, <2>1, <2>2, NullAssumption
  <2>5. kind'[q] \in Chained <=> kind[q] \in Chained
    BY <1>1 DEF IInv, LinkTypes, Chained, Roots
  <2> QED BY <1>2, <2>1, <2>3, <2>4, <2>5
<1>9. LiveOK'
  <2>1. \A q \in Promises : q # p /\ q # r =>
          /\ kind'[q] = kind[q] /\ matching_future'[q] = matching_future[q]
          /\ callback'[q] = callback[q]
    BY <1>1 DEF IInv, LinkTypes, PointerTypes
  <2>2. kind'[p] \notin Chained /\ kind'[r] \notin Chained
    BY <1>1 DEF IInv, LinkTypes, Chained, Roots
  <2>3. kind'[p] # "cthen" /\ kind'[r] # "cthen"
    BY <2>2 DEF Chained
  <2> QED BY <1>1, <1>2, <1>5, <1>11, <2>1, <2>2, <2>3 DEF Structure, LiveOK, Called
<1>10. AttachOK'
  <2> SUFFICES ASSUME NEW b \in Promises, NEW x \in Promises,
                      attached'[b] = x, backwards'[x] = b
               PROVE  callback'[b] = x \/ x \in Called'
    BY DEF AttachOK
  <2>1. CASE b = r
    <3>1. x = y
      BY <1>1, <2>1 DEF PointerTypes
    <3>2. callback[p] = x \/ x \in Called
      BY <1>1, <3>1, NullAssumption DEF Structure, AttachOK, y
    <3> QED BY <1>1, <1>2, <2>1, <3>2 DEF PointerTypes
  <2>2. CASE b = p
    BY <1>1, <2>2, NullAssumption DEF PointerTypes
  <2>3. CASE b # r /\ b # p
    <3>1. attached[b] = x /\ backwards[x] = b /\ callback'[b] = callback[b]
      BY <1>1, <2>3 DEF PointerTypes
    <3> QED BY <1>2, <3>1 DEF Structure, AttachOK
  <2> QED BY <2>1, <2>2, <2>3
<1> QED BY <1>7, <1>8, <1>9, <1>10 DEF Structure

\* A callback takes the place of a future.
LEMMA ChainStructure ==
  ASSUME IInv, PointerTypes, Structure, CancellableOK, NEW f \in Futures,
         NEW q \in Promises, NEW g \in Futures,
         then_f(f, q, g) \/ cancellable_then_f(f, q, g)
  PROVE  Structure'
<1> DEFINE p == matching_promise[f]
<1>1. /\ p \in Promises /\ matching_future[p] = f /\ notifies[p] = <<>>
      /\ kind[q] = "free"
      /\ callback' = [callback EXCEPT ![p] = q]
      /\ matching_future' = [matching_future EXCEPT ![p] = NULL, ![q] = g]
      /\ UNCHANGED <<notifies, stack>>
      /\ \E k \in Chained : kind' = [kind EXCEPT ![q] = k]
  BY DEF then_f, cancellable_then_f, Chain, Unwaited, IsPending, IInv, LinkTypes, MatchedPair,
         Chained
<1>2. p # q /\ kind[p] # "free"
  BY <1>1, NullAssumption DEF IInv, LinkTypes, MatchedPair, IsPending
<1>3. callback[p] = NULL
  BY <1>1, NullAssumption DEF Structure, FieldsOK
<1>4. /\ callback[q] = NULL /\ attached[q] = NULL /\ backwards[q] = NULL /\ q \notin Called
      /\ \A x \in Promises : callback[x] # q
      /\ matching_future[q] = NULL
  BY <1>1, NullAssumption
  DEF Structure, FieldsOK, HomesOK, Chained, PointerTypes, IInv, LinkTypes, MatchedPair, IsPending
<1>5. \/ kind'[q] = "then" /\ UNCHANGED <<attached, backwards>>
      \/ /\ kind'[q] = "cthen" /\ attached' = [attached EXCEPT ![p] = q]
         /\ backwards' = [backwards EXCEPT ![q] = p]
         /\ kind[p] \in {"io", "cthen"}
  <2>1. CASE then_f(f, q, g)
    BY <2>1 DEF then_f, IInv, LinkTypes, chainVars
  <2>2. CASE cancellable_then_f(f, q, g)
    BY <2>2 DEF cancellable_then_f, IInv, LinkTypes, Unattached, CancellableOK, IsPending
  <2> QED BY <2>1, <2>2
<1>6. Called' = Called
  BY <1>1 DEF Called
<1>7. \E k \in Chained : kind' = [kind EXCEPT ![q] = k]
  BY <1>1
<1> HIDE DEF p
<1>8. /\ \A x \in Promises : x # q => kind'[x] = kind[x]
      /\ kind'[q] \in Chained
  BY <1>7 DEF IInv, LinkTypes
<1>9. /\ \A x \in Promises : x # p /\ x # q => matching_future'[x] = matching_future[x]
      /\ matching_future'[p] = NULL /\ matching_future'[q] = g
      /\ \A x \in Promises : x # p => callback'[x] = callback[x]
      /\ callback'[p] = q
  BY <1>1, <1>2 DEF IInv, LinkTypes, PointerTypes
<1>10. /\ \A x \in Promises : x # p => attached'[x] = attached[x]
       /\ \A x \in Promises : x # q => backwards'[x] = backwards[x]
       /\ attached'[p] # NULL => kind[p] \in {"io", "cthen"}
       /\ backwards'[q] # NULL <=> kind'[q] = "cthen"
       /\ attached'[p] = attached[p] \/ attached'[p] = q
       /\ backwards'[q] = NULL \/ backwards'[q] = p
  <2>1. CASE kind'[q] = "then" /\ UNCHANGED <<attached, backwards>>
    BY <1>1, <1>4, <2>1 DEF Structure, FieldsOK
  <2>2. CASE /\ kind'[q] = "cthen" /\ attached' = [attached EXCEPT ![p] = q]
             /\ backwards' = [backwards EXCEPT ![q] = p]
             /\ kind[p] \in {"io", "cthen"}
    BY <1>1, <2>2, NullAssumption DEF PointerTypes, IInv, LinkTypes
  <2> QED BY <1>5, <2>1, <2>2
<1>11. FieldsOK'
  <2> SUFFICES ASSUME NEW x \in Promises
               PROVE  /\ matching_future'[x] # NULL => callback'[x] = NULL
                      /\ notifies[x] # <<>> => matching_future'[x] # NULL
                      /\ kind'[x] = "free" => callback'[x] = NULL
                      /\ backwards'[x] # NULL => kind'[x] = "cthen"
                      /\ attached'[x] # NULL => kind'[x] \in {"io", "cthen"}
    BY <1>1 DEF FieldsOK
  <2>1. CASE x = p
    BY <1>1, <1>2, <1>8, <1>9, <1>10, <2>1 DEF Structure, FieldsOK
  <2>2. CASE x = q
    BY <1>2, <1>4, <1>8, <1>9, <1>10, <2>2 DEF Structure, FieldsOK, Chained
  <2>3. CASE x # p /\ x # q
    BY <1>8, <1>9, <1>10, <2>3 DEF Structure, FieldsOK
  <2> QED BY <2>1, <2>2, <2>3
<1>12. HomesOK'
  <2> SUFFICES ASSUME NEW y \in Promises
               PROVE  /\ \A x, z \in Promises : callback'[x] = y /\ callback'[z] = y => x = z
                      /\ (\E x \in Promises : callback'[x] = y) => y \notin Called'
                      /\ kind'[y] \in Chained <=>
                           (\E x \in Promises : callback'[x] = y) \/ y \in Called'
    BY <1>1 DEF HomesOK, Structure
  <2>1. /\ \A x, z \in Promises : callback[x] = y /\ callback[z] = y => x = z
        /\ (\E x \in Promises : callback[x] = y) => y \notin Called
        /\ kind[y] \in Chained <=> (\E x \in Promises : callback[x] = y) \/ y \in Called
    BY DEF Structure, HomesOK
  <2>2. CASE y = q
    BY <1>1, <1>4, <1>6, <1>8, <1>9, <2>2
  <2>3. CASE y # q
    <3>1. \A x \in Promises : callback'[x] = y <=> callback[x] = y
      BY <1>3, <1>9, <2>3, NullAssumption
    <3> QED BY <1>6, <1>8, <2>1, <2>3, <3>1
  <2> QED BY <2>2, <2>3
<1>13. LiveOK'
  <2>1. p \notin Dying(stack) /\ q \notin Dying(stack) /\ stack' = stack
    BY <1>1, <1>4, NullAssumption DEF Structure, LiveOK, Called
  <2>2. matching_future'[q] # NULL /\ callback'[p] # NULL
    BY <1>9, NullAssumption
  <2>3. \A x \in Promises : x # p /\ x # q =>
          /\ kind'[x] = kind[x] /\ matching_future'[x] = matching_future[x]
          /\ callback'[x] = callback[x]
    BY <1>8, <1>9
  <2>4. kind'[p] = kind[p] /\ Called' = Called
    BY <1>1, <1>2, <1>6, <1>8
  <2> QED BY <1>10, <2>1, <2>2, <2>3, <2>4 DEF Structure, LiveOK
<1>14. AttachOK'
  <2> SUFFICES ASSUME NEW b \in Promises, NEW x \in Promises,
                      attached'[b] = x, backwards'[x] = b
               PROVE  callback'[b] = x \/ x \in Called'
    BY DEF AttachOK
  <2>1. CASE x = q
    <3>1. b = p
      BY <1>10, <2>1, NullAssumption
    <3> QED BY <1>9, <2>1, <3>1
  <2>2. CASE x # q
    <3>1. attached[b] = x /\ backwards[x] = b
      BY <1>10, <2>2
    <3>2. callback[b] = x \/ x \in Called
      BY <3>1 DEF Structure, AttachOK
    <3>3. callback[b] = x => callback'[b] = x
      BY <1>3, <1>9, NullAssumption
    <3> QED BY <1>6, <3>2, <3>3
  <2> QED BY <2>1, <2>2
<1> QED BY <1>11, <1>12, <1>13, <1>14 DEF Structure

LEMMA WaitCallbackStructure ==
  ASSUME IInv, PointerTypes, Structure, NEW f \in Futures, NEW c \in Callbacks,
         wait_with_callback(f, c)
  PROVE  Structure'
<1> DEFINE p == matching_promise[f]
<1>1. /\ p \in Promises /\ matching_future[p] = f /\ notifies[p] = <<>> /\ kind[p] # "free"
      /\ callback' = [callback EXCEPT ![p] = c]
      /\ matching_future' = [matching_future EXCEPT ![p] = NULL]
      /\ UNCHANGED <<kind, notifies, attached, backwards, stack>>
  BY DEF wait_with_callback, Unwaited, IsPending, IInv, LinkTypes, MatchedPair, chainVars
<1> HIDE DEF p
<1>2. callback[p] = NULL /\ p \notin Dying(stack)
  BY <1>1, NullAssumption DEF Structure, FieldsOK, LiveOK
<1>3. /\ \A x \in Promises : x # p => /\ matching_future'[x] = matching_future[x]
                                      /\ callback'[x] = callback[x]
      /\ matching_future'[p] = NULL /\ callback'[p] = c
  BY <1>1 DEF IInv, LinkTypes, PointerTypes
<1>4. \A q \in Promises : \A x \in Promises : callback'[x] = q <=> callback[x] = q
  BY <1>2, <1>3, NullAssumption, DisjointAssumption
<1>5. Called' = Called
  BY <1>1 DEF Called
<1>6. FieldsOK'
  BY <1>1, <1>2, <1>3 DEF Structure, FieldsOK
<1>7. HomesOK'
  BY <1>1, <1>4, <1>5 DEF Structure, HomesOK
<1>8. LiveOK'
  BY <1>1, <1>2, <1>3, <1>5, NullAssumption DEF Structure, LiveOK
<1>9. AttachOK'
  BY <1>1, <1>4, <1>5 DEF Structure, AttachOK
<1> QED BY <1>6, <1>7, <1>8, <1>9 DEF Structure

\* fn of the closure of q returned f: q and its closure go, and the promise r
\* of f takes over what q had to complete.
LEMMA SpliceStructure ==
  ASSUME IInv, PointerTypes, Lists, Structure, NEW q \in Promises, NEW f \in Futures,
         FnReturnsPending(q, f), ~aborted'
  PROVE  Structure'
<1> DEFINE r == matching_promise[f]
<1>1. /\ r \in Promises /\ r # q /\ matching_future[r] = f /\ notifies[r] = <<>>
      /\ kind[r] # "free"
      /\ stack # <<>> /\ Head(stack) = ThenFrame(q)
      /\ SpliceFuture(q, f) \/ SpliceCallback(q, f)
  BY DownstreamOfItself
  DEF FnReturnsPending, InFn, Unwaited, IsPending, IInv, LinkTypes, MatchedPair, Abort
<1>2. /\ stack' = Tail(stack) /\ UNCHANGED notifies
      /\ kind' = [x \in Promises |-> IF x = q THEN "free" ELSE kind[x]]
      /\ attached' = [x \in Promises |-> IF x = q THEN NULL ELSE attached[x]]
      /\ backwards' = [x \in Promises |-> IF x = q THEN NULL ELSE backwards[x]]
  BY <1>1 DEF SpliceFuture, SpliceCallback, Free
<1>3. /\ Runs(stack') = Runs(stack) \ {q} /\ Dying(stack') = Dying(stack) /\ Once(stack')
      /\ q \in Called /\ q \notin Dying(stack)
  BY <1>1, <1>2, PopThen DEF Structure, HomesOK, Lists, ListTypes, Called
<1>4. Called' = Called \ {q}
  BY <1>3 DEF Called
<1>5. callback[r] = NULL /\ r \notin Dying(stack)
  BY <1>1, NullAssumption DEF Structure, FieldsOK, LiveOK
<1>6. \/ /\ matching_future[q] # NULL /\ callback[q] = NULL /\ notifies[q] = <<>>
         /\ matching_future' = [matching_future EXCEPT ![r] = matching_future[q], ![q] = NULL]
         /\ callback' = callback
      \/ /\ matching_future[q] = NULL /\ notifies[q] = <<>> /\ callback[q] # NULL
         /\ matching_future' = [matching_future EXCEPT ![r] = NULL]
         /\ callback' = [callback EXCEPT ![r] = callback[q], ![q] = NULL]
  <2>1. CASE SpliceFuture(q, f)
    BY <2>1 DEF SpliceFuture, Structure, FieldsOK
  <2>2. CASE SpliceCallback(q, f)
    <3>1. callback[q] # NULL
      BY <2>2 DEF FnReturnsPending, SpliceCallback, Abort
    <3> QED BY <2>2, <3>1 DEF SpliceCallback, Structure, FieldsOK
  <2> QED BY <1>1, <2>1, <2>2
<1> HIDE DEF r
<1>7. /\ \A x \in Promises : x # q /\ x # r =>
            matching_future'[x] = matching_future[x] /\ callback'[x] = callback[x]
      /\ matching_future'[q] = NULL /\ callback'[q] = NULL
      /\ matching_future'[r] # NULL => callback'[r] = NULL
      /\ matching_future'[r] # NULL \/ callback'[r] # NULL
      /\ callback'[r] = callback[q]
  <2>1. CASE /\ matching_future[q] # NULL /\ callback[q] = NULL
             /\ matching_future' = [matching_future EXCEPT ![r] = matching_future[q], ![q] = NULL]
             /\ callback' = callback
    BY <1>1, <1>5, <2>1 DEF IInv, LinkTypes
  <2>2. CASE /\ matching_future[q] = NULL /\ callback[q] # NULL
             /\ matching_future' = [matching_future EXCEPT ![r] = NULL]
             /\ callback' = [callback EXCEPT ![r] = callback[q], ![q] = NULL]
    BY <1>1, <2>2 DEF IInv, LinkTypes, PointerTypes
  <2> QED BY <1>6, <2>1, <2>2
<1>8. FieldsOK'
  <2> SUFFICES ASSUME NEW x \in Promises
               PROVE  /\ matching_future'[x] # NULL => callback'[x] = NULL
                      /\ notifies[x] # <<>> => matching_future'[x] # NULL
                      /\ kind'[x] = "free" => callback'[x] = NULL
                      /\ backwards'[x] # NULL => kind'[x] = "cthen"
                      /\ attached'[x] # NULL => kind'[x] \in {"io", "cthen"}
    BY <1>2 DEF FieldsOK
  <2>1. CASE x = q
    BY <1>2, <1>6, <1>7, <2>1
  <2>2. CASE x # q
    BY <1>1, <1>2, <1>7, <2>2 DEF Structure, FieldsOK
  <2> QED BY <2>1, <2>2
<1>9. HomesOK'
  <2> SUFFICES ASSUME NEW y \in Promises
               PROVE  /\ \A x, z \in Promises : callback'[x] = y /\ callback'[z] = y => x = z
                      /\ (\E x \in Promises : callback'[x] = y) => y \notin Called'
                      /\ kind'[y] \in Chained <=>
                           (\E x \in Promises : callback'[x] = y) \/ y \in Called'
    BY <1>3 DEF HomesOK
  <2>1. /\ \A x, z \in Promises : callback[x] = y /\ callback[z] = y => x = z
        /\ (\E x \in Promises : callback[x] = y) => y \notin Called
        /\ kind[y] \in Chained <=> (\E x \in Promises : callback[x] = y) \/ y \in Called
    BY DEF Structure, HomesOK
  <2>2. (\E x \in Promises : callback'[x] = y) <=> (\E x \in Promises : callback[x] = y)
    BY <1>1, <1>5, <1>7, NullAssumption
  <2>3. \A x, z \in Promises : callback'[x] = y /\ callback'[z] = y => x = z
    BY <1>1, <1>7, <2>1, NullAssumption
  <2>4. CASE y = q
    BY <1>2, <1>3, <1>4, <2>1, <2>2, <2>3, <2>4 DEF Chained
  <2>5. CASE y # q
    BY <1>2, <1>4, <2>1, <2>2, <2>3, <2>5
  <2> QED BY <2>4, <2>5
<1>10. LiveOK'
  <2> SUFFICES ASSUME NEW x \in Promises
               PROVE  /\ x \in Dying(stack') =>
                           matching_future'[x] = NULL /\ callback'[x] = NULL
                      /\ kind'[x] \in Chained /\ x \notin Dying(stack')
                           => \/ matching_future'[x] # NULL \/ callback'[x] # NULL
                              \/ x \in Runs(stack') /\ "cancel_running" \in Usage
                      /\ kind'[x] = "cthen" => backwards'[x] # NULL \/ x \in Called'
    BY DEF LiveOK
  <2>1. CASE x = q
    BY <1>2, <1>7, <2>1 DEF Chained
  <2>2. CASE x = r
    BY <1>1, <1>2, <1>3, <1>4, <1>5, <1>7, <2>2 DEF Structure, LiveOK
  <2>3. CASE x # q /\ x # r
    BY <1>2, <1>3, <1>4, <1>7, <2>3 DEF Structure, LiveOK
  <2> QED BY <2>1, <2>2, <2>3
<1>11. AttachOK'
  <2> SUFFICES ASSUME NEW b \in Promises, NEW x \in Promises,
                      attached'[b] = x, backwards'[x] = b
               PROVE  callback'[b] = x \/ x \in Called'
    BY DEF AttachOK
  <2>1. b # q /\ x # q /\ attached[b] = x /\ backwards[x] = b
    BY <1>2, NullAssumption
  <2>2. callback[b] = x \/ x \in Called
    BY <2>1 DEF Structure, AttachOK
  <2>3. callback[b] = x => callback'[b] = x
    BY <1>5, <1>7, <2>1, NullAssumption
  <2> QED BY <1>4, <2>1, <2>2, <2>3
<1> QED BY <1>8, <1>9, <1>10, <1>11 DEF Structure

LEMMA DestroyStructure ==
  ASSUME IInv, PointerTypes, Lists, Structure, DestroyClosure, ~aborted'
  PROVE  Structure'
<1> DEFINE q == Head(stack).to
<1>1. q \in Promises /\ Head(stack) = DestroyFrame(q) /\ stack # <<>>
  <2>1. Head(stack) \in Frames /\ Head(stack).call = "destroy" /\ stack # <<>>
    BY PopLists DEF DestroyClosure
  <2> QED BY <2>1 DEF Frames, DestroyFrame
<1>2. /\ matching_future[q] = NULL /\ callback[q] = NULL /\ notifies[q] = <<>>
      /\ stack' = Tail(stack) /\ UNCHANGED <<matching_future, callback, notifies>>
      /\ kind' = [x \in Promises |-> IF x = q THEN "free" ELSE kind[x]]
      /\ attached' = [x \in Promises |-> IF x = q THEN NULL ELSE attached[x]]
      /\ backwards' = [x \in Promises |-> IF x = q THEN NULL ELSE backwards[x]]
  BY DEF DestroyClosure, Abort, Free
<1> HIDE DEF q
<1>3. /\ Runs(stack') = Runs(stack) /\ Dying(stack') = Dying(stack) \ {q} /\ Once(stack')
      /\ q \in Called /\ q \notin Runs(stack)
  BY <1>1, <1>2, PopDestroy DEF Structure, HomesOK, Lists, ListTypes, Called
<1>4. Called' = Called \ {q}
  BY <1>3 DEF Called
<1>5. FieldsOK'
  BY <1>2 DEF Structure, FieldsOK
<1>6. HomesOK'
  BY <1>2, <1>3, <1>4 DEF Structure, HomesOK, Chained
<1>7. LiveOK'
  BY <1>2, <1>3, <1>4 DEF Structure, LiveOK, Chained
<1>8. AttachOK'
  BY <1>2, <1>4, NullAssumption DEF Structure, AttachOK
<1> QED BY <1>5, <1>6, <1>7, <1>8 DEF Structure

\* The closures that the hops destroy are still to be called, and the promises
\* in them are among those that cancel() reaches; a promise that it reaches and
\* that is not in one of them is a root, or its closure has been called.
LEMMA HopClosuresAreReached ==
  ASSUME IInv, Structure, NEW p \in Promises, matching_future[p] # NULL,
         \A x \in Upstream(p) : HopHolds(x)
  PROVE  /\ \A b \in Hops(p) : attached[b] # NULL
         /\ \A c \in HopClosures(p) :
              /\ c \in Upstream(p) /\ c \notin Called /\ kind[c] \in Chained
              /\ \E b \in Hops(p) : callback[b] = c
         /\ \A x \in Upstream(p) :
              kind[x] = "cthen" /\ x \notin Called => x \in HopClosures(p)
<1> DEFINE U == Upstream(p)
<1>1. U \subseteq Promises /\ Hops(p) \subseteq U
  BY UpstreamIsHops DEF IInv
<1>2. ASSUME NEW b \in Hops(p) PROVE attached[b] # NULL
  <2>1. PICK x \in U : b = backwards[x] /\ b # NULL
    BY DEF Hops
  <2> QED BY <1>1, <2>1, NullAssumption DEF HopHolds
<1>3. ASSUME NEW c \in HopClosures(p)
      PROVE  /\ c \in U /\ c \notin Called /\ kind[c] \in Chained
             /\ \E b \in Hops(p) : callback[b] = c
  <2>1. c \in Promises /\ \E b \in Hops(p) : callback[b] = c
    BY DEF HopClosures
  <2>2. c \notin Called /\ kind[c] \in Chained
    BY <1>1, <2>1 DEF Structure, HomesOK
  <2>3. matching_future[c] # NULL \/ callback[c] # NULL
    BY <2>1, <2>2 DEF Structure, LiveOK, Called
  <2>4. c \in U
    BY <2>3, UpstreamIsHops DEF IInv
  <2> QED BY <2>1, <2>2, <2>4
<1>4. ASSUME NEW x \in U, kind[x] = "cthen", x \notin Called PROVE x \in HopClosures(p)
  <2> DEFINE b == backwards[x]
  <2>1. x \in Promises /\ b # NULL
    BY <1>1, <1>4 DEF Structure, LiveOK
  <2>2. b \in Hops(p) /\ attached[b] = x
    BY <2>1 DEF Hops, HopHolds
  <2>3. callback[b] = x
    BY <1>1, <1>4, <2>1, <2>2 DEF Structure, AttachOK
  <2> QED BY <2>1, <2>2, <2>3 DEF HopClosures
<1> QED BY <1>2, <1>3, <1>4

LEMMA CancelStructure ==
  ASSUME IInv, PointerTypes, Structure, CancellableOK, NEW f \in Futures,
         cancel(f), ~aborted'
  PROVE  Structure'
<1> DEFINE p == matching_promise[f]
           U == Upstream(p)
           H == Hops(p)
           C == HopClosures(p)
<1>1. /\ p \in Promises /\ matching_future[p] = f /\ matching_future[p] # NULL
      /\ notifies[p] = <<>> /\ callback[p] = NULL
  BY NullAssumption
  DEF cancel, Unwaited, IsPending, IInv, LinkTypes, MatchedPair, Structure, FieldsOK
<1>2. /\ \A x \in U : HopHolds(x)
      /\ matching_future' = [matching_future EXCEPT ![p] = NULL]
      /\ callback' = [x \in Promises |-> IF x \in H THEN NULL ELSE callback[x]]
      /\ kind' = [x \in Promises |-> IF x \in C THEN "free" ELSE kind[x]]
      /\ attached' = [x \in Promises |-> IF x \in H \cup C THEN NULL ELSE attached[x]]
      /\ backwards' = [x \in Promises |-> IF x \in U THEN NULL ELSE backwards[x]]
      /\ UNCHANGED <<notifies, stack>>
  BY DEF cancel, Cut, Abort
<1>3. \A x \in U : x \in Runs(stack) => "cancel_running" \in Usage
  BY DEF cancel, Running, Runs, Has
<1>4. /\ U \subseteq Promises /\ p \in U /\ H \subseteq U /\ U = {p} \cup H
      /\ \A b \in H : matching_future[b] = NULL /\ callback[b] # NULL /\ attached[b] # NULL
      /\ \A c \in C : /\ c \in U /\ c \notin Called /\ kind[c] \in Chained
                      /\ \E b \in H : callback[b] = c
      /\ \A x \in U : kind[x] = "cthen" /\ x \notin Called => x \in C
      /\ C = {callback[b] : b \in H} \cap Promises
  BY <1>1, <1>2, UpstreamIsHops, HopClosuresAreReached DEF IInv, HopClosures
<1>5. kind[p] \in {"io", "cthen"}
  BY <1>1 DEF cancel, Unwaited, IsPending, CancellableOK
<1> HIDE DEF U, H, C
<1>6. \A x \in U : kind[x] \in {"io", "cthen"}
  BY <1>4, <1>5 DEF Structure, FieldsOK
<1>7. Called' = Called
  BY <1>2 DEF Called
<1> HIDE DEF p
<1>8. /\ \A x \in U : matching_future'[x] = NULL /\ callback'[x] = NULL
      /\ \A x \in Promises \ U : matching_future'[x] = matching_future[x]
                                 /\ callback'[x] = callback[x]
      /\ \A x \in Promises : x \notin C => kind'[x] = kind[x]
  BY <1>1, <1>2, <1>4 DEF IInv, LinkTypes
<1>9. FieldsOK'
  <2> SUFFICES ASSUME NEW x \in Promises
               PROVE  /\ matching_future'[x] # NULL => callback'[x] = NULL
                      /\ notifies[x] # <<>> => matching_future'[x] # NULL
                      /\ kind'[x] = "free" => callback'[x] = NULL
                      /\ backwards'[x] # NULL => kind'[x] = "cthen"
                      /\ attached'[x] # NULL => kind'[x] \in {"io", "cthen"}
    BY <1>2 DEF FieldsOK
  <2>1. CASE x \in U
    BY <1>1, <1>2, <1>4, <1>6, <1>8, <2>1 DEF Structure, FieldsOK
  <2>2. CASE x \notin U
    BY <1>2, <1>4, <1>8, <2>2 DEF Structure, FieldsOK
  <2> QED BY <2>1, <2>2
<1>10. HomesOK'
  <2> SUFFICES ASSUME NEW y \in Promises
               PROVE  /\ \A x, z \in Promises : callback'[x] = y /\ callback'[z] = y => x = z
                      /\ (\E x \in Promises : callback'[x] = y) => y \notin Called'
                      /\ kind'[y] \in Chained <=>
                           (\E x \in Promises : callback'[x] = y) \/ y \in Called'
    BY <1>2 DEF HomesOK, Structure
  <2>1. /\ \A x, z \in Promises : callback[x] = y /\ callback[z] = y => x = z
        /\ (\E x \in Promises : callback[x] = y) => y \notin Called
        /\ kind[y] \in Chained <=> (\E x \in Promises : callback[x] = y) \/ y \in Called
    BY DEF Structure, HomesOK
  <2>2. \A x \in Promises : callback'[x] = y => callback[x] = y /\ x \notin H
    BY <1>2, NullAssumption
  <2>3. CASE y \in C
    <3>1. PICK b \in H : callback[b] = y /\ y \notin Called
      BY <1>4, <2>3
    <3>2. \A x \in Promises : callback'[x] # y
      BY <1>4, <2>1, <2>2, <3>1
    <3>3. kind'[y] = "free"
      BY <1>2, <2>3
    <3> QED BY <1>7, <3>1, <3>2, <3>3 DEF Chained
  <2>4. CASE y \notin C
    <3>1. \A x \in H : callback[x] # y
      BY <1>4, <2>4
    <3>2. \A x \in Promises : callback'[x] = y <=> callback[x] = y
      BY <1>2, <2>2, <3>1
    <3> QED BY <1>7, <1>8, <2>1, <2>4, <3>2
  <2> QED BY <2>3, <2>4
<1>11. LiveOK'
  <2> SUFFICES ASSUME NEW x \in Promises
               PROVE  /\ x \in Dying(stack) =>
                           matching_future'[x] = NULL /\ callback'[x] = NULL
                      /\ kind'[x] \in Chained /\ x \notin Dying(stack)
                           => \/ matching_future'[x] # NULL \/ callback'[x] # NULL
                              \/ x \in Runs(stack) /\ "cancel_running" \in Usage
                      /\ kind'[x] = "cthen" => backwards'[x] # NULL \/ x \in Called
    BY <1>2, <1>7 DEF LiveOK
  <2>1. CASE x \in C
    <3>1. kind'[x] = "free" /\ x \in U
      BY <1>2, <1>4, <2>1
    <3> QED BY <1>8, <3>1 DEF Chained
  <2>2. CASE x \in U /\ x \notin C
    <3>1. kind'[x] \in Chained => x \in Called
      BY <1>4, <1>6, <1>8, <2>2 DEF Chained
    <3>2. x \in Called /\ x \notin Dying(stack) => x \in Runs(stack)
      BY DEF Called
    <3>3. kind'[x] = "cthen" => kind'[x] \in Chained
      BY DEF Chained
    <3> QED BY <1>3, <1>8, <2>2, <3>1, <3>2, <3>3
  <2>3. CASE x \notin U
    <3>1. kind'[x] = kind[x] /\ backwards'[x] = backwards[x]
      BY <1>2, <1>4, <1>8, <2>3
    <3> QED BY <1>2, <1>8, <2>3, <3>1 DEF Structure, LiveOK
  <2> QED BY <2>1, <2>2, <2>3
<1>12. AttachOK'
  <2> SUFFICES ASSUME NEW b \in Promises, NEW x \in Promises,
                      attached'[b] = x, backwards'[x] = b
               PROVE  callback'[b] = x \/ x \in Called'
    BY DEF AttachOK
  <2>1. b \notin H /\ attached[b] = x /\ backwards[x] = b
    BY <1>2, NullAssumption
  <2>2. callback'[b] = callback[b]
    BY <1>2, <2>1
  <2> QED BY <1>7, <2>1, <2>2 DEF Structure, AttachOK
<1> QED BY <1>9, <1>10, <1>11, <1>12 DEF Structure

-----------------------------------------------------------------------------
LEMMA InitStructure == Init => Structure /\ CancellableOK
<1> SUFFICES ASSUME Init PROVE Structure /\ CancellableOK
  OBVIOUS
<1>1. DOMAIN stack = {}
  BY EmptySeq DEF Init
<1>2. Runs(stack) = {} /\ Dying(stack) = {} /\ Once(stack)
  BY <1>1 DEF Runs, Dying, Has, Once
<1>3. FieldsOK
  BY DEF Init, FieldsOK
<1>4. HomesOK
  BY <1>2, NullAssumption DEF Init, HomesOK, Called, Chained
<1>5. LiveOK
  BY <1>2 DEF Init, LiveOK, Chained
<1>6. AttachOK
  BY NullAssumption DEF Init, AttachOK
<1> QED BY <1>3, <1>4, <1>5, <1>6 DEF Init, Structure, CancellableOK

LEMMA StepStructure ==
  ASSUME IInv, PointerTypes, Lists, Structure, CancellableOK, Next, ~aborted'
  PROVE  Structure'
<1>1. ASSUME NEW p \in Promises, SupplyRoot(p) PROVE Structure'
  <2>1. Once(stack) /\ stack \in Seq(Frames)
    BY DEF Structure, HomesOK, Lists, ListTypes
  <2>2. kind[p] \in Roots /\ Supply(p, stack)
    BY <1>1 DEF SupplyRoot
  <2>3. Runs(stack) = Runs(stack) \ {} /\ Dying(stack) = Dying(stack) \cup {}
    OBVIOUS
  <2> QED BY <2>1, <2>2, <2>3, SupplyStructure
<1>2. ASSUME NEW q \in Promises, FnReturnsValue(q) PROVE Structure'
  <2> DEFINE below == <<DestroyFrame(q)>> \o Tail(stack)
  <2>1. InFn(q) /\ Supply(q, below)
    BY <1>2 DEF FnReturnsValue
  <2>2. /\ below \in Seq(Frames) /\ Once(below) /\ q \in Runs(stack)
        /\ Runs(below) = Runs(stack) \ {q} /\ Dying(below) = Dying(stack) \cup {q}
    BY <2>1, CallsBelowFn DEF Structure, HomesOK
  <2> HIDE DEF below
  <2> QED BY <2>1, <2>2, SupplyStructure
<1>3. ASSUME UserOperation PROVE Structure'
  <2>1. /\ \A f \in Futures : ~cancellable_then_f_Aborts(f)
        /\ \A p \in Promises : ~MovePromise_Aborts(p)
    BY DEF cancellable_then_f_Aborts, MovePromise_Aborts, Abort
  <2> QED
    BY <1>1, <1>3, <2>1, RootStructure, MovePromiseStructure, FutureStructure, CancelStructure,
       WaitCallbackStructure, WaiterStructure, ChainStructure DEF UserOperation
<1>4. ASSUME Return PROVE Structure'
  BY <1>2, <1>4, WaiterStructure, SpliceStructure, DestroyStructure DEF Return
<1>5. ASSUME Finished PROVE Structure'
  BY <1>5, SameStack, StructureUntouched
  DEF Finished, vars, promiseVars, chainVars, Structure, FieldsOK
<1> QED BY <1>3, <1>4, <1>5 DEF Next

\* The future of a "then" promise is never one that cancel() may be called on.
LEMMA StepCancellable ==
  ASSUME IInv, PointerTypes, Lists, Structure, CancellableOK, Next
  PROVE  CancellableOK'
<1> USE DEF IsDefault, IsPending
<1>1. ASSUME UNCHANGED <<kind, matching_promise, has_value, cancellable>>
      PROVE  CancellableOK'
  BY <1>1 DEF CancellableOK
<1>2. ASSUME Abort PROVE CancellableOK'
  BY <1>1, <1>2 DEF Abort, promiseVars, futureVars
<1>3. ASSUME NEW p \in Promises, NEW below, Supply(p, below) PROVE CancellableOK'
  <2>1. CASE Fulfil(p, below)
    BY <2>1 DEF Fulfil, CancellableOK, IInv, LinkTypes
  <2>2. CASE RunCallback(p, below)
    BY <1>1, <2>2 DEF RunCallback, futureVars
  <2> QED BY <1>2, <1>3, <2>1, <2>2 DEF Supply
<1>4. ASSUME NEW p \in Promises, NEW k \in Roots, NewRoot(p, k) PROVE CancellableOK'
  BY <1>4 DEF NewRoot, futureVars, CancellableOK, IInv, LinkTypes
<1>5. ASSUME NEW p \in Promises, DestroyRoot(p) PROVE CancellableOK'
  <2>1. \A f \in Futures : matching_promise[f] # p
    BY <1>5, NullAssumption DEF DestroyRoot, IInv, LinkTypes, MatchedPair
  <2> QED BY <1>5, <2>1 DEF DestroyRoot, futureVars, CancellableOK, IInv, LinkTypes, PointerTypes
<1>6. ASSUME NEW p \in Promises, NEW f \in Futures, MakeFuture(p, f) PROVE CancellableOK'
  BY <1>6, NullAssumption
  DEF MakeFuture, chainVars, CancellableOK, IInv, LinkTypes, PointerTypes, Roots
<1>7. ASSUME NEW f \in Futures, NEW g \in Futures, MoveFuture(f, g) PROVE CancellableOK'
  <2>1. f # g
    BY <1>7 DEF MoveFuture
  <2> QED
    BY <1>7, <2>1 DEF MoveFuture, chainVars, CancellableOK, IInv, LinkTypes, PointerTypes
<1>8. ASSUME NEW p \in Promises, NEW r \in Promises, MovePromise(p, r) PROVE CancellableOK'
  <2>1. /\ kind' = [kind EXCEPT ![r] = kind[p], ![p] = "free"]
        /\ matching_promise' = [f \in Futures |->
                                  IF f = matching_future[p] THEN r ELSE matching_promise[f]]
        /\ UNCHANGED <<has_value, cancellable>>
        /\ p # r
    BY <1>8 DEF MovePromise, Roots
  <2>2. \A f \in Futures : matching_promise[f] = p <=> matching_future[p] = f
    BY DEF IInv, MatchedPair
  <2>3. kind[r] = "free" /\ \A f \in Futures : matching_promise[f] # r
    BY <1>8, NullAssumption DEF MovePromise, IInv, MatchedPair
  <2> QED BY <2>1, <2>2, <2>3, NullAssumption DEF CancellableOK, IInv, LinkTypes, PointerTypes
<1>9. ASSUME NEW f \in Futures, TakeValue(f) \/ CancelReady(f) PROVE CancellableOK'
  BY <1>9 DEF TakeValue, CancelReady, promiseVars, CancellableOK, PointerTypes
<1>10. ASSUME NEW f \in Futures, NEW c \in Callbacks, wait_with_callback(f, c)
       PROVE  CancellableOK'
  BY <1>10 DEF wait_with_callback, CancellableOK, PointerTypes, IInv, LinkTypes
<1>11. ASSUME NEW f \in Futures, NEW q \in Promises, NEW g \in Futures,
              then_f(f, q, g) \/ cancellable_then_f(f, q, g)
       PROVE  CancellableOK'
  <2>1. /\ kind[q] = "free" /\ f # g /\ q # NULL
        /\ matching_promise' = [matching_promise EXCEPT ![f] = NULL, ![g] = q]
        /\ has_value' = has_value
    BY <1>11, NullAssumption DEF then_f, cancellable_then_f, Chain, Unwaited
  <2>2. \/ kind' = [kind EXCEPT ![q] = "then"] /\ cancellable' = cancellable \ {f}
        \/ /\ kind' = [kind EXCEPT ![q] = "cthen"]
           /\ cancellable' = (cancellable \ {f}) \cup {g}
    BY <1>11 DEF then_f, cancellable_then_f
  <2>3. matching_promise[g] = NULL /\ g \notin has_value
    BY <1>11 DEF then_f, cancellable_then_f, Chain
  <2>4. \A h \in Futures : matching_promise[h] # q
    BY <2>1 DEF IInv, MatchedPair
  <2>5. g \notin cancellable
    BY <2>3 DEF CancellableOK
  <2> QED BY <2>1, <2>2, <2>4, <2>5 DEF CancellableOK, IInv, LinkTypes, PointerTypes
<1>12. ASSUME NEW q \in Promises, NEW f \in Futures, FnReturnsPending(q, f)
       PROVE  CancellableOK'
  <2> DEFINE r == matching_promise[f]
             g == matching_future[q]
  <2>1. /\ r \in Promises /\ r # q /\ r # NULL
        /\ stack # <<>> /\ Head(stack) = ThenFrame(q)
        /\ kind[q] = "cthen" => f \in cancellable
        /\ \A h \in Futures : matching_promise[h] = q <=> g = h
    BY <1>12, DownstreamOfItself
    DEF FnReturnsPending, InFn, Unwaited, IInv, LinkTypes, MatchedPair
  <2>2. q \in Runs(stack)
    BY <2>1, PopThen DEF Structure, HomesOK, Lists, ListTypes
  <2>3. kind[q] \in Chained
    BY <2>2 DEF Structure, HomesOK, Called
  <2>4. \A h \in cancellable : matching_promise[h] # NULL =>
          kind[matching_promise[h]] \in {"io", "cthen"}
    BY DEF CancellableOK
  <2>5. f \in cancellable => kind[r] \in {"io", "cthen"}
    BY <2>1, <2>4
  <2>6. g \in cancellable => kind[r] \in {"io", "cthen"}
    BY <2>1, <2>3, <2>4, <2>5, NullAssumption DEF Chained, PointerTypes
  <2>7. CASE SpliceFuture(q, f)
    <3>1. /\ matching_promise' = [matching_promise EXCEPT ![g] = r, ![f] = NULL]
          /\ kind' = [x \in Promises |-> IF x = q THEN "free" ELSE kind[x]]
          /\ cancellable' = cancellable \ {f} /\ has_value' = has_value
          /\ g \in Futures
      BY <2>7 DEF SpliceFuture, Free, IInv, LinkTypes
    <3> HIDE DEF r, g
    <3> QED BY <2>1, <2>4, <2>6, <3>1 DEF CancellableOK, IInv, LinkTypes, PointerTypes
  <2>8. CASE SpliceCallback(q, f)
    <3>1. /\ matching_promise' = [matching_promise EXCEPT ![f] = NULL]
          /\ kind' = [x \in Promises |-> IF x = q THEN "free" ELSE kind[x]]
          /\ cancellable' = cancellable \ {f} /\ has_value' = has_value
          /\ g = NULL
      BY <2>8 DEF SpliceCallback, Free
    <3> HIDE DEF r, g
    <3> QED BY <2>1, <3>1, NullAssumption DEF CancellableOK, IInv, LinkTypes, PointerTypes
  <2> QED BY <1>2, <1>12, <2>7, <2>8 DEF FnReturnsPending
<1>13. ASSUME NEW f \in Futures, cancel(f) PROVE CancellableOK'
  <2> DEFINE p == matching_promise[f]
             C == HopClosures(p)
  <2>1. CASE ~Abort
    <3>1. /\ matching_promise' = [matching_promise EXCEPT ![f] = NULL]
          /\ kind' = [x \in Promises |-> IF x \in C THEN "free" ELSE kind[x]]
          /\ cancellable' = cancellable \ {f} /\ has_value' = has_value
          /\ \A x \in Upstream(p) : HopHolds(x)
      BY <1>13, <2>1 DEF cancel, Cut
    <3>2. p \in Promises /\ matching_future[p] = f
      BY <1>13 DEF cancel, Unwaited, IInv, LinkTypes, MatchedPair
    <3>3. \A c \in C : c \in Promises /\ (c = p \/ matching_future[c] = NULL)
      BY <3>1, <3>2, UpstreamIsHops DEF IInv, HopClosures
    <3>4. \A h \in Futures : h # f => matching_promise[h] \notin C
      BY <3>2, <3>3, NullAssumption DEF IInv, LinkTypes, MatchedPair
    <3> HIDE DEF p, C
    <3> QED BY <3>1, <3>4 DEF CancellableOK, IInv, LinkTypes, PointerTypes
  <2> QED BY <1>2, <2>1
<1>14. ASSUME DestroyClosure PROVE CancellableOK'
  <2> DEFINE q == Head(stack).to
  <2>1. CASE ~Abort
    <3>1. /\ matching_future[q] = NULL
          /\ kind' = [x \in Promises |-> IF x = q THEN "free" ELSE kind[x]]
          /\ UNCHANGED <<matching_promise, has_value, cancellable>>
      BY <1>14, <2>1 DEF DestroyClosure, Free, futureVars
    <3> HIDE DEF q
    <3>2. \A h \in Futures : matching_promise[h] = q => q \notin Promises
      BY <3>1, NullAssumption DEF IInv, MatchedPair
    <3> QED BY <3>1, <3>2 DEF CancellableOK, IInv, LinkTypes, PointerTypes
  <2> QED BY <1>2, <2>1
<1>15. ASSUME \/ \E f \in Futures, n \in Notifies : register_notify(f, n)
              \/ \E n \in Notifies : unregister_self(n)
              \/ UserReturns \/ NotifyNext \/ Finished
       PROVE  CancellableOK'
  BY <1>1, <1>15
  DEF register_notify, unregister_self, UserReturns, NotifyNext, Finished, vars, promiseVars,
      futureVars
<1> QED
  BY <1>2, <1>3, <1>4, <1>5, <1>6, <1>7, <1>8, <1>9, <1>10, <1>11, <1>12, <1>13, <1>14, <1>15
     DEF Next, UserOperation, Return, SupplyRoot, FnReturnsValue, cancellable_then_f_Aborts,
         MovePromise_Aborts

ChainInv == CancellableOK /\ (~aborted => Structure)

LEMMA AbortedIsFinal == aborted /\ Next => UNCHANGED vars
BY DEF Next, UserOperation, Return, Finished, InUserCode, NewRoot, DestroyRoot, MakeFuture,
       MovePromise, MovePromise_Aborts, SupplyRoot, MoveFuture, TakeValue, CancelReady, cancel,
       cancellable_then_f_Aborts, wait_with_callback, register_notify, then_f,
       cancellable_then_f, unregister_self, UserReturns, NotifyNext, FnReturnsValue,
       FnReturnsPending, InFn, DestroyClosure

THEOREM ChainInvariant == Spec => []ChainInv
<1>1. Init => ChainInv
  BY InitStructure DEF ChainInv
<1>2. ASSUME ChainInv, UNCHANGED vars PROVE ChainInv'
  <2>1. CancellableOK'
    BY <1>2
    DEF vars, promiseVars, futureVars, ChainInv, CancellableOK, IsDefault, IsPending
  <2>2. Structure => Structure'
    BY <1>2, SameStack, StructureUntouched DEF vars, promiseVars, chainVars, Structure, FieldsOK
  <2> QED BY <1>2, <2>1, <2>2 DEF ChainInv, vars
<1>3. ASSUME IInv, PointerTypes, Lists, ChainInv, [Next]_vars PROVE ChainInv'
  <2>1. CASE Next /\ ~aborted
    BY <1>3, <2>1, StepStructure, StepCancellable DEF ChainInv
  <2> QED BY <1>2, <1>3, <2>1, AbortedIsFinal
<1> QED BY <1>1, <1>3, InductiveInvariant, ListsInvariant, PTL DEF Spec

\* Whatever moves, chains and splices a future that cancel() may be called on
\* has been through, its promise is one that cancel() may cast to.
THEOREM CancellablesCanBeCancelled == Spec => []CancellableHasCancellablePromise
<1>1. ChainInv => CancellableHasCancellablePromise
  BY DEF ChainInv, CancellableOK, CancellableHasCancellablePromise
<1> QED BY <1>1, ChainInvariant, PTL

-----------------------------------------------------------------------------
(* The usage of the program. *)

\* wait_any is never given the future of a "then" promise.
ThenUnwaited == \A p \in Promises : kind[p] = "then" => notifies[p] = <<>>

UsageOK == ThenUnwaited /\ BackwardsLeadsUpstream

\* Of the promises that cancel() reaches, each leads back to the one whose
\* callback it is.
LEMMA CancelDoesNotAbort ==
  ASSUME Usage = {}, IInv, Structure, UsageOK, NEW f \in Futures, cancel(f)
  PROVE  ~Abort
<1> DEFINE p == matching_promise[f]
           U == Upstream(p)
           T == {x \in U : x = p \/ callback[x] # NULL}
<1>1. /\ p \in Promises /\ matching_future[p] # NULL /\ notifies[p] = <<>>
      /\ \A x \in U : x \notin Runs(stack)
  BY NullAssumption
  DEF cancel, Unwaited, IsPending, IInv, LinkTypes, MatchedPair, Running, Runs, Has
<1>2. U \subseteq Promises /\ p \in U
  BY <1>1 DEF Upstream
<1>3. \A x \in U : backwards[x] # NULL => backwards[x] \in U
  <2>1. ASSUME NEW x \in U, backwards[x] # NULL PROVE backwards[x] \in Promises
    BY <1>2, <2>1 DEF IInv, LinkTypes
  <2> QED BY <2>1 DEF Upstream
<1>4. ASSUME NEW x \in T, backwards[x] # NULL
      PROVE  attached[backwards[x]] = x /\ callback[backwards[x]] = x
  <2>1. kind[x] = "cthen" /\ x \in Promises
    BY <1>2, <1>4 DEF Structure, FieldsOK
  <2>2. x \notin Dying(stack)
    BY <1>1, <2>1 DEF Structure, LiveOK
  <2>3. \E b \in Promises : callback[b] = x
    BY <1>1, <2>1, <2>2 DEF Structure, HomesOK, Called, Chained
  <2> QED BY <2>1, <2>3 DEF UsageOK, BackwardsLeadsUpstream
<1>5. \A x \in T : backwards[x] # NULL => backwards[x] \in T
  BY <1>2, <1>3, <1>4, NullAssumption
<1>6. T \in SUBSET Promises /\ p \in T
  BY <1>2
<1>7. \A x \in T : HopHolds(x)
  <2> SUFFICES ASSUME NEW x \in T, backwards[x] # NULL
               PROVE  LET b == backwards[x]
                      IN attached[b] = x /\ matching_future[b] = NULL /\ callback[b] = x
    BY <1>2, NullAssumption DEF HopHolds
  <2>1. x \in Promises /\ backwards[x] \in Promises
    BY <1>5, <1>6
  <2> QED BY <1>4, <2>1, NullAssumption DEF Structure, FieldsOK
<1>8. \A x \in T : notifies[x] = <<>>
  BY <1>1, <1>2 DEF Structure, FieldsOK
<1> HIDE DEF T
<1>9. U \subseteq T
  BY <1>5, <1>6 DEF Upstream
<1>10. \A x \in U : HopHolds(x) /\ notifies[x] = <<>>
  BY <1>7, <1>8, <1>9
<1>11. InUserCode /\ (cancel(f) => aborted' = aborted)
  BY <1>10 DEF cancel, Cut
<1> QED BY <1>11 DEF Abort, InUserCode

LEMMA SupplyDoesNotAbort ==
  ASSUME Structure, ~aborted, NEW p \in Promises, NEW below, Supply(p, below),
         matching_future[p] # NULL \/ callback[p] # NULL
  PROVE  ~Abort
<1>1. ~(matching_future[p] = NULL /\ (callback[p] = NULL \/ notifies[p] # <<>>))
  BY DEF Structure, FieldsOK
<1>2. Fulfil(p, below) \/ RunCallback(p, below)
  BY <1>1 DEF Supply
<1> QED BY <1>2 DEF Fulfil, RunCallback, Abort

\* The closure of the innermost call is a closure, and still to be supplied.
LEMMA InFnIsLive ==
  ASSUME Usage = {}, Lists, Structure, NEW q \in Promises, InFn(q)
  PROVE  /\ kind[q] \in Chained /\ q \notin Dying(stack)
         /\ matching_future[q] # NULL \/ callback[q] # NULL
<1>1. q \in Runs(stack) /\ q \notin Dying(stack)
  BY PopThen DEF InFn, Structure, HomesOK, Lists, ListTypes
<1> QED BY <1>1 DEF Structure, HomesOK, LiveOK, Called

LEMMA NothingAborts ==
  ASSUME Usage = {}, IInv, PointerTypes, Lists, Structure, UsageOK, ~aborted, Next
  PROVE  ~aborted'
<1>1. ASSUME NEW p \in Promises, SupplyRoot(p) PROVE ~aborted'
  BY <1>1, SupplyDoesNotAbort DEF SupplyRoot, Supply, Fulfil, RunCallback
<1>2. ASSUME NEW q \in Promises, FnReturnsValue(q) PROVE ~aborted'
  BY <1>2, InFnIsLive, SupplyDoesNotAbort DEF FnReturnsValue, Supply, Fulfil, RunCallback
<1>3. ASSUME NEW q \in Promises, NEW f \in Futures, FnReturnsPending(q, f) PROVE ~aborted'
  <2>1. /\ matching_future[q] # NULL \/ callback[q] # NULL
        /\ notifies[q] = <<>>
    BY <1>3, InFnIsLive DEF FnReturnsPending, Chained, UsageOK, ThenUnwaited
  <2> QED BY <1>3, <2>1 DEF FnReturnsPending, SpliceFuture, SpliceCallback
<1>4. ASSUME DestroyClosure PROVE ~aborted'
  <2> DEFINE q == Head(stack).to
  <2>1. stack # <<>> /\ Head(stack) \in Frames /\ Head(stack).call = "destroy"
    BY <1>4, PopLists DEF DestroyClosure
  <2>2. q \in Promises /\ Head(stack) = DestroyFrame(q)
    BY <2>1 DEF Frames, DestroyFrame
  <2>3. q \in Dying(stack)
    BY <2>1, <2>2, PopDestroy DEF Structure, HomesOK, Lists, ListTypes
  <2>4. matching_future[q] = NULL /\ callback[q] = NULL /\ notifies[q] = <<>>
    BY <2>2, <2>3 DEF Structure, LiveOK, FieldsOK
  <2> QED BY <1>4, <2>4 DEF DestroyClosure
<1>5. ASSUME NEW f \in Futures, cancel(f) PROVE ~aborted'
  BY <1>5, CancelDoesNotAbort DEF cancel, Cut
<1>6. ASSUME UserOperation PROVE ~aborted'
  <2>1. ASSUME NEW f \in Futures, cancellable_then_f_Aborts(f) PROVE FALSE
    BY <2>1 DEF cancellable_then_f_Aborts
  <2>2. ASSUME NEW p \in Promises, MovePromise_Aborts(p) PROVE FALSE
    BY <2>2 DEF MovePromise_Aborts
  <2>3. ASSUME NEW p \in Promises, NEW r \in Promises, MovePromise(p, r) PROVE ~aborted'
    BY <2>3 DEF MovePromise
  <2>4. ASSUME NEW f \in Futures, NEW g \in Futures, MoveFuture(f, g) PROVE ~aborted'
    BY <2>4 DEF MoveFuture
  <2>5. ASSUME NEW f \in Futures, NEW g \in Futures, NEW q \in Promises,
               then_f(f, q, g) \/ cancellable_then_f(f, q, g)
        PROVE  ~aborted'
    BY <2>5 DEF then_f, cancellable_then_f, Chain
  <2> QED
    BY <1>1, <1>5, <1>6, <2>1, <2>2, <2>3, <2>4, <2>5
       DEF UserOperation, NewRoot, DestroyRoot, MakeFuture, TakeValue, CancelReady,
           wait_with_callback, register_notify, unregister_self
<1>7. ASSUME Return PROVE ~aborted'
  BY <1>2, <1>3, <1>4, <1>7 DEF Return, UserReturns, NotifyNext
<1> QED BY <1>6, <1>7 DEF Next, Finished, vars

LEMMA StepThenUnwaited ==
  ASSUME Usage = {}, IInv, PointerTypes, Lists, Structure, ThenUnwaited, Next, ~aborted'
  PROVE  ThenUnwaited'
<1>1. ASSUME \A p \in Promises : notifies[p] = <<>> => notifies'[p] = <<>>,
             \A p \in Promises : kind'[p] = "then" => kind[p] = "then"
      PROVE  ThenUnwaited'
  BY <1>1 DEF ThenUnwaited
<1>2. ASSUME UNCHANGED notifies,
             \A p \in Promises : kind'[p] = "then" => kind[p] = "then"
      PROVE  ThenUnwaited'
  BY <1>2 DEF ThenUnwaited
<1>3. ASSUME NEW p \in Promises, NEW below, Supply(p, below) PROVE ThenUnwaited'
  <2>1. UNCHANGED kind /\ (UNCHANGED notifies \/ notifies' = [notifies EXCEPT ![p] = <<>>])
    BY <1>3 DEF Supply, Abort, Fulfil, RunCallback, promiseVars
  <2> QED BY <1>1, <2>1 DEF Lists, ListTypes
<1>4. ASSUME NEW p \in Promises, \/ \E k \in Roots : NewRoot(p, k)
                                 \/ DestroyRoot(p)
                                 \/ \E f \in Futures : MakeFuture(p, f)
      PROVE  ThenUnwaited'
  BY <1>2, <1>4 DEF NewRoot, DestroyRoot, MakeFuture, Roots, IInv, LinkTypes
<1>5. ASSUME NEW p \in Promises, NEW r \in Promises, MovePromise(p, r) PROVE ThenUnwaited'
  <2>1. \A x \in Promises : kind'[x] = "then" => x # p /\ x # r /\ kind[x] = "then"
    BY <1>5 DEF MovePromise, Roots, IInv, LinkTypes
  <2>2. \A x \in Promises : x # p /\ x # r => notifies'[x] = notifies[x]
    BY <1>5 DEF MovePromise, Lists, ListTypes
  <2> QED BY <2>1, <2>2 DEF ThenUnwaited
<1>6. ASSUME NEW f \in Futures, \/ \E g \in Futures : MoveFuture(f, g)
                                \/ TakeValue(f) \/ CancelReady(f)
                                \/ \E c \in Callbacks : wait_with_callback(f, c)
      PROVE  ThenUnwaited'
  BY <1>2, <1>6 DEF MoveFuture, TakeValue, CancelReady, wait_with_callback, promiseVars
<1>7. ASSUME NEW f \in Futures, cancel(f) PROVE ThenUnwaited'
  <2>1. \/ UNCHANGED <<kind, notifies>>
        \/ /\ kind' = [x \in Promises |->
                         IF x \in HopClosures(matching_promise[f]) THEN "free" ELSE kind[x]]
           /\ UNCHANGED notifies
    BY <1>7 DEF cancel, Cut, Abort, promiseVars
  <2> QED BY <1>2, <2>1
<1>8. ASSUME NEW f \in Futures, NEW q \in Promises, NEW g \in Futures,
             then_f(f, q, g) \/ cancellable_then_f(f, q, g)
      PROVE  ThenUnwaited'
  <2>1. /\ kind[q] = "free" /\ UNCHANGED notifies
        /\ \A x \in Promises : x # q => kind'[x] = kind[x]
    BY <1>8 DEF then_f, cancellable_then_f, Chain, IInv, LinkTypes
  <2>2. notifies[q] = <<>>
    BY <2>1, NullAssumption DEF Structure, FieldsOK, IInv, LinkTypes, MatchedPair, IsPending
  <2> QED BY <2>1, <2>2 DEF ThenUnwaited
<1>9. ASSUME NEW f \in Futures, NEW n \in Notifies, register_notify(f, n) PROVE ThenUnwaited'
  <2>1. UNCHANGED kind /\ \A x \in Promises : kind[x] = "then" => notifies'[x] = notifies[x]
    BY <1>9 DEF register_notify, Lists, ListTypes
  <2> QED BY <2>1 DEF ThenUnwaited
<1>10. ASSUME NEW n \in Notifies, unregister_self(n) PROVE ThenUnwaited'
  <2>1. UNCHANGED kind /\ \A x \in Promises : notifies'[x] = Without(notifies[x], n)
    BY <1>10 DEF unregister_self
  <2>2. Without(<<>>, n) = <<>>
    BY EmptyList DEF Without
  <2> QED BY <2>1, <2>2 DEF ThenUnwaited
<1>11. ASSUME NEW q \in Promises, NEW f \in Futures, FnReturnsPending(q, f)
       PROVE  ThenUnwaited'
  BY <1>2, <1>11 DEF FnReturnsPending, Abort, SpliceFuture, SpliceCallback, Free
<1>12. ASSUME DestroyClosure PROVE ThenUnwaited'
  BY <1>2, <1>12 DEF DestroyClosure, Abort, Free
<1>13. ASSUME UserReturns \/ NotifyNext \/ Finished PROVE ThenUnwaited'
  BY <1>2, <1>13 DEF UserReturns, NotifyNext, Finished, vars, promiseVars
<1>14. /\ \A f \in Futures : ~cancellable_then_f_Aborts(f)
       /\ \A p \in Promises : ~MovePromise_Aborts(p)
  BY DEF cancellable_then_f_Aborts, MovePromise_Aborts
<1> QED
  BY <1>3, <1>4, <1>5, <1>6, <1>7, <1>8, <1>9, <1>10, <1>11, <1>12, <1>13, <1>14
     DEF Next, UserOperation, Return, SupplyRoot, FnReturnsValue

\* As no callback of cancellable_then returns a future that is pending, only
\* the closures of "then" promises are spliced, and nothing attached moves.
LEMMA StepBackwards ==
  ASSUME Usage = {}, IInv, PointerTypes, Lists, Structure, CancellableOK,
         BackwardsLeadsUpstream, Next, ~aborted'
  PROVE  BackwardsLeadsUpstream'
<1>1. ASSUME UNCHANGED <<kind, attached, backwards>>,
             \A x \in Promises : callback'[x] = callback[x] \/ callback'[x] \notin Promises
      PROVE  BackwardsLeadsUpstream'
  BY <1>1 DEF BackwardsLeadsUpstream
<1>2. ASSUME NEW p \in Promises, NEW below, Supply(p, below) PROVE BackwardsLeadsUpstream'
  <2>1. /\ UNCHANGED <<kind, attached, backwards>>
        /\ UNCHANGED callback \/ callback' = [callback EXCEPT ![p] = NULL]
    BY <1>2 DEF Supply, Abort, Fulfil, RunCallback, promiseVars, chainVars
  <2> QED BY <1>1, <2>1, NullAssumption DEF PointerTypes
<1>3. ASSUME NEW p \in Promises, \/ \E k \in Roots : NewRoot(p, k)
                                 \/ DestroyRoot(p)
                                 \/ \E f \in Futures : MakeFuture(p, f)
      PROVE  BackwardsLeadsUpstream'
  <2>1. /\ UNCHANGED <<callback, backwards>> /\ callback[p] = NULL
        /\ \A x \in Promises : x # p => attached'[x] = attached[x]
        /\ \A x \in Promises : kind'[x] = "cthen" => kind[x] = "cthen"
    BY <1>3
    DEF NewRoot, DestroyRoot, MakeFuture, Roots, IInv, LinkTypes, PointerTypes, chainVars,
        Structure, FieldsOK
  <2> QED BY <2>1, NullAssumption DEF BackwardsLeadsUpstream
<1>4. ASSUME NEW p \in Promises, NEW r \in Promises, MovePromise(p, r)
      PROVE  BackwardsLeadsUpstream'
  <2> DEFINE y == attached[p]
  <2>1. /\ p # r /\ kind[r] = "free" /\ kind[p] \in Roots
        /\ kind' = [kind EXCEPT ![r] = kind[p], ![p] = "free"]
        /\ callback' = [callback EXCEPT ![r] = callback[p], ![p] = NULL]
        /\ attached' = [attached EXCEPT ![r] = y, ![p] = NULL]
        /\ backwards' = [q \in Promises |-> IF q = y THEN r ELSE backwards[q]]
        /\ y # NULL => backwards[y] = p
    BY <1>4 DEF MovePromise, AttachedIsPaired, Roots
  <2> HIDE DEF y
  <2> SUFFICES ASSUME NEW b \in Promises, NEW q \in Promises,
                      callback'[b] = q, kind'[q] = "cthen"
               PROVE  backwards'[q] = b /\ attached'[b] = q
    BY DEF BackwardsLeadsUpstream
  <2>2. kind[q] = "cthen" /\ q # p /\ q # r
    BY <2>1 DEF Roots, IInv, LinkTypes
  <2>3. b # p
    BY <2>1, NullAssumption DEF PointerTypes
  <2>4. CASE b = r
    <3>1. callback[p] = q
      BY <2>1, <2>4 DEF PointerTypes
    <3>2. backwards[q] = p /\ q = y
      BY <2>2, <3>1 DEF BackwardsLeadsUpstream, y
    <3> QED BY <2>1, <2>4, <3>2 DEF PointerTypes
  <2>5. CASE b # r
    <3>1. callback[b] = q
      BY <2>1, <2>3, <2>5 DEF PointerTypes
    <3>2. backwards[q] = b /\ attached[b] = q
      BY <2>2, <3>1 DEF BackwardsLeadsUpstream
    <3>3. q # y
      BY <2>1, <2>3, <3>2, NullAssumption
    <3> QED BY <2>1, <2>3, <2>5, <3>2, <3>3 DEF PointerTypes
  <2> QED BY <2>4, <2>5
<1>5. ASSUME NEW f \in Futures, \/ \E g \in Futures : MoveFuture(f, g)
                                \/ TakeValue(f) \/ CancelReady(f)
                                \/ \E n \in Notifies : register_notify(f, n)
      PROVE  BackwardsLeadsUpstream'
  BY <1>1, <1>5
  DEF MoveFuture, TakeValue, CancelReady, register_notify, promiseVars, chainVars
<1>6. ASSUME NEW f \in Futures, NEW c \in Callbacks, wait_with_callback(f, c)
      PROVE  BackwardsLeadsUpstream'
  BY <1>1, <1>6, DisjointAssumption DEF wait_with_callback, chainVars, PointerTypes
<1>7. ASSUME NEW f \in Futures, cancel(f) PROVE BackwardsLeadsUpstream'
  <2> DEFINE p == matching_promise[f]
             U == Upstream(p)
             H == Hops(p)
             C == HopClosures(p)
  <2>1. /\ p \in Promises /\ matching_future[p] # NULL /\ callback[p] = NULL
        /\ \A x \in U : HopHolds(x)
        /\ callback' = [x \in Promises |-> IF x \in H THEN NULL ELSE callback[x]]
        /\ kind' = [x \in Promises |-> IF x \in C THEN "free" ELSE kind[x]]
        /\ attached' = [x \in Promises |-> IF x \in H \cup C THEN NULL ELSE attached[x]]
        /\ backwards' = [x \in Promises |-> IF x \in U THEN NULL ELSE backwards[x]]
    BY <1>7, NullAssumption
    DEF cancel, Cut, Abort, Unwaited, IsPending, IInv, LinkTypes, MatchedPair, Structure, FieldsOK
  <2>3. /\ U = {p} \cup H /\ C \subseteq U
        /\ \A x \in U : backwards[x] # NULL => backwards[x] \in H
    BY <2>1, UpstreamIsHops, HopClosuresAreReached DEF IInv, Hops
  <2> HIDE DEF p, U, H, C
  <2> SUFFICES ASSUME NEW b \in Promises, NEW q \in Promises,
                      callback'[b] = q, kind'[q] = "cthen"
               PROVE  backwards'[q] = b /\ attached'[b] = q
    BY DEF BackwardsLeadsUpstream
  <2>2. b \notin H /\ callback[b] = q /\ kind[q] = "cthen"
    BY <2>1, NullAssumption
  <2>4. backwards[q] = b /\ attached[b] = q
    BY <2>2 DEF BackwardsLeadsUpstream
  <2>5. b \notin U
    BY <2>1, <2>2, <2>3, NullAssumption
  <2>6. q \notin U
    BY <2>2, <2>3, <2>4, NullAssumption
  <2> QED BY <2>1, <2>3, <2>4, <2>5, <2>6
<1>8. ASSUME NEW f \in Futures, NEW q \in Promises, NEW g \in Futures,
             then_f(f, q, g) \/ cancellable_then_f(f, q, g)
      PROVE  BackwardsLeadsUpstream'
  <2> DEFINE p == matching_promise[f]
  <2>1. /\ p \in Promises /\ p # q /\ kind[q] = "free"
        /\ callback' = [callback EXCEPT ![p] = q]
        /\ \A x \in Promises : x # q => kind'[x] = kind[x]
        /\ callback[p] = NULL
    BY <1>8, NullAssumption
    DEF then_f, cancellable_then_f, Chain, Unwaited, IsPending, IInv, LinkTypes, MatchedPair,
        Structure, FieldsOK
  <2>2. \A x \in Promises : callback[x] # q
    BY <2>1 DEF Structure, HomesOK, Chained
  <2>3. \/ kind'[q] = "then" /\ UNCHANGED <<attached, backwards>>
        \/ /\ attached' = [attached EXCEPT ![p] = q]
           /\ backwards' = [backwards EXCEPT ![q] = p]
    BY <1>8 DEF then_f, cancellable_then_f, chainVars, IInv, LinkTypes
  <2> HIDE DEF p
  <2> SUFFICES ASSUME NEW b \in Promises, NEW x \in Promises,
                      callback'[b] = x, kind'[x] = "cthen"
               PROVE  backwards'[x] = b /\ attached'[b] = x
    BY DEF BackwardsLeadsUpstream
  <2>4. CASE b = p
    <3>1. x = q
      BY <2>1, <2>4 DEF PointerTypes
    <3> QED BY <2>1, <2>3, <2>4, <3>1 DEF PointerTypes, IInv, LinkTypes
  <2>5. CASE b # p
    <3>1. callback[b] = x /\ x # q
      BY <2>1, <2>2, <2>5 DEF PointerTypes
    <3>2. kind[x] = "cthen"
      BY <2>1, <3>1
    <3>3. backwards[x] = b /\ attached[b] = x
      BY <3>1, <3>2 DEF BackwardsLeadsUpstream
    <3> QED BY <2>3, <2>5, <3>1, <3>3 DEF PointerTypes, IInv, LinkTypes
  <2> QED BY <2>4, <2>5
<1>9. ASSUME NEW n \in Notifies, unregister_self(n) PROVE BackwardsLeadsUpstream'
  BY <1>1, <1>9 DEF unregister_self, chainVars
<1>10. ASSUME NEW q \in Promises, NEW f \in Futures, FnReturnsPending(q, f)
       PROVE  BackwardsLeadsUpstream'
  <2> DEFINE r == matching_promise[f]
  <2>1. /\ InFn(q) /\ r \in Promises /\ r # q
        /\ kind[q] # "cthen"
        /\ SpliceFuture(q, f) \/ SpliceCallback(q, f)
    BY <1>10, DownstreamOfItself
    DEF FnReturnsPending, Unwaited, IsPending, IInv, LinkTypes, Abort
  <2>2. kind[q] = "then" /\ attached[q] = NULL
    BY <2>1, InFnIsLive DEF Chained, Structure, FieldsOK
  <2>3. \A x \in Promises : callback[x] # q
    BY <2>1, PopThen DEF InFn, Structure, HomesOK, Lists, ListTypes, Called
  <2>4. kind[callback[q]] # "cthen" \/ callback[q] \notin Promises
    BY <2>2, NullAssumption DEF BackwardsLeadsUpstream
  <2>5. /\ kind' = [x \in Promises |-> IF x = q THEN "free" ELSE kind[x]]
        /\ attached' = [x \in Promises |-> IF x = q THEN NULL ELSE attached[x]]
        /\ backwards' = [x \in Promises |-> IF x = q THEN NULL ELSE backwards[x]]
    BY <2>1 DEF SpliceFuture, SpliceCallback, Free
  <2>6. \A x \in Promises : callback'[x] = callback[x] \/ callback'[x] = NULL
                            \/ callback'[x] = callback[q]
    BY <2>1 DEF SpliceFuture, SpliceCallback, PointerTypes
  <2> SUFFICES ASSUME NEW b \in Promises, NEW x \in Promises,
                      callback'[b] = x, kind'[x] = "cthen"
               PROVE  backwards'[x] = b /\ attached'[b] = x
    BY DEF BackwardsLeadsUpstream
  <2>7. x # q /\ kind[x] = "cthen"
    BY <2>5
  <2>8. callback[b] = x
    BY <2>4, <2>6, <2>7, NullAssumption
  <2>9. backwards[x] = b /\ attached[b] = x
    BY <2>7, <2>8 DEF BackwardsLeadsUpstream
  <2> QED BY <2>2, <2>5, <2>7, <2>9, NullAssumption
<1>11. ASSUME DestroyClosure PROVE BackwardsLeadsUpstream'
  <2> DEFINE q == Head(stack).to
  <2>1. /\ callback[q] = NULL /\ UNCHANGED callback
        /\ kind' = [x \in Promises |-> IF x = q THEN "free" ELSE kind[x]]
        /\ attached' = [x \in Promises |-> IF x = q THEN NULL ELSE attached[x]]
        /\ backwards' = [x \in Promises |-> IF x = q THEN NULL ELSE backwards[x]]
    BY <1>11 DEF DestroyClosure, Abort, Free
  <2> HIDE DEF q
  <2> QED BY <2>1, NullAssumption DEF BackwardsLeadsUpstream
<1>12. ASSUME UserReturns \/ NotifyNext \/ Finished PROVE BackwardsLeadsUpstream'
  BY <1>1, <1>12 DEF UserReturns, NotifyNext, Finished, vars, promiseVars, chainVars
<1>13. /\ \A f \in Futures : ~cancellable_then_f_Aborts(f)
       /\ \A p \in Promises : ~MovePromise_Aborts(p)
  BY DEF cancellable_then_f_Aborts, MovePromise_Aborts
<1> QED
  BY <1>2, <1>3, <1>4, <1>5, <1>6, <1>7, <1>8, <1>9, <1>10, <1>11, <1>12, <1>13
     DEF Next, UserOperation, Return, SupplyRoot, FnReturnsValue

ProgramInv == ~aborted /\ Structure /\ UsageOK

THEOREM ProgramInvariant == ASSUME Usage = {} PROVE Spec => []ProgramInv
<1>1. Init => ProgramInv
  <2>1. Init => ThenUnwaited /\ BackwardsLeadsUpstream
    BY NullAssumption DEF Init, ThenUnwaited, BackwardsLeadsUpstream
  <2> QED BY <2>1, InitStructure DEF Init, ProgramInv, UsageOK
<1>2. ASSUME ProgramInv, UNCHANGED vars PROVE ProgramInv'
  <2>1. Structure'
    BY <1>2, SameStack, StructureUntouched
    DEF ProgramInv, vars, promiseVars, chainVars, Structure, FieldsOK
  <2>2. UsageOK'
    BY <1>2 DEF ProgramInv, UsageOK, ThenUnwaited, BackwardsLeadsUpstream, vars, promiseVars,
                chainVars
  <2> QED BY <1>2, <2>1, <2>2 DEF ProgramInv, vars
<1>3. ASSUME IInv, PointerTypes, Lists, ChainInv, ProgramInv, [Next]_vars PROVE ProgramInv'
  <2>1. CASE Next
    <3>1. ~aborted'
      BY <1>3, <2>1, NothingAborts DEF ProgramInv
    <3>2. Structure'
      BY <1>3, <2>1, <3>1, StepStructure DEF ProgramInv, ChainInv
    <3>3. UsageOK'
      BY <1>3, <2>1, <3>1, StepThenUnwaited, StepBackwards DEF ProgramInv, ChainInv, UsageOK
    <3> QED BY <3>1, <3>2, <3>3 DEF ProgramInv
  <2> QED BY <1>2, <1>3, <2>1
<1> QED BY <1>1, <1>3, InductiveInvariant, ListsInvariant, ChainInvariant, PTL DEF Spec

\* A program that uses the library as this one does meets no assertion of it,
\* however deep its callbacks nest: not in attach(), not in cancel(), not in
\* supply_value_and_detach() and not in the destructors.  Usage = {} excludes
\* what Futures lists under Usage: waiting on a future made by then, a pending
\* result of cancellable_then, chaining or moving a promise with a stale
\* attached_promise_ptr_, and cancelling through a closure that is running.
THEOREM NoAssertionEverFails == ASSUME Usage = {} PROVE Spec => []NoAssertionFails
<1>1. ProgramInv => NoAssertionFails
  BY DEF ProgramInv, NoAssertionFails
<1> QED BY <1>1, ProgramInvariant, PTL

\* completion_notifies_ is empty whenever there is no future to wait for.
THEOREM WaitersHaveAFuture == ASSUME Usage = {} PROVE Spec => []NotifiesNeedMatchingFuture
<1>1. ProgramInv => NotifiesNeedMatchingFuture
  BY DEF ProgramInv, Structure, FieldsOK, NotifiesNeedMatchingFuture
<1> QED BY <1>1, ProgramInvariant, PTL

\* From the promise of a cancellable_then that is waiting, the pointers made by
\* attach() lead back to the promise whose callback it is.
THEOREM BackwardsAlwaysLeadsUpstream ==
  ASSUME Usage = {} PROVE Spec => []BackwardsLeadsUpstream
<1>1. ProgramInv => BackwardsLeadsUpstream
  BY DEF ProgramInv, UsageOK
<1> QED BY <1>1, ProgramInvariant, PTL

LEMMA HomesAreOne == ASSUME HomesOK PROVE ClosuresHaveOneHome
<1> SUFFICES ASSUME NEW q \in Promises
             PROVE  Cardinality(Homes(q)) = IF kind[q] \in Chained THEN 1 ELSE 0
  BY DEF ClosuresHaveOneHome, Chained
<1> DEFINE A == {p \in Promises : callback[p] = q}
           B == {i \in DOMAIN stack : stack[i] \in ClosureFrames(q)}
<1>1. Homes(q) = A \cup B
  BY DEF Homes, ClosureFrames
<1>2. \A x, y \in A : x = y
  BY DEF HomesOK
<1>3. \A x, y \in B : x = y
  BY DEF HomesOK, Once
<1>4. B # {} <=> q \in Called
  BY DEF Called, Runs, Dying, Has, ClosureFrames
<1>5. A # {} => q \notin Called
  BY DEF HomesOK
<1>6. kind[q] \in Chained <=> A # {} \/ q \in Called
  BY DEF HomesOK
<1> HIDE DEF A, B
<1>7. A = {} \/ B = {}
  BY <1>4, <1>5
<1>8. CASE kind[q] \in Chained
  <2>1. A # {} \/ B # {}
    BY <1>4, <1>6, <1>8
  <2>2. PICK x : x \in A \cup B
    BY <2>1
  <2>3. A \cup B = {x}
    BY <1>2, <1>3, <1>7, <2>2
  <2>4. Cardinality({x}) = 1
    BY FS_Singleton
  <2> QED BY <1>1, <1>8, <2>3, <2>4
<1>9. CASE kind[q] \notin Chained
  <2>1. A \cup B = {}
    BY <1>4, <1>6, <1>9
  <2> QED BY <1>1, <1>9, <2>1, FS_EmptySet
<1> QED BY <1>8, <1>9

\* Nothing completes or destroys a promise made by then_f or cancellable_then_f
\* twice, and none is lost: its closure has one home.
THEOREM ClosuresAlwaysHaveOneHome == ASSUME Usage = {} PROVE Spec => []ClosuresHaveOneHome
<1>1. ProgramInv => ClosuresHaveOneHome
  BY HomesAreOne DEF ProgramInv, Structure
<1> QED BY <1>1, ProgramInvariant, PTL

-----------------------------------------------------------------------------
(* Where the completion of what is waiting comes from. *)

Live(p) == matching_future[p] # NULL \/ callback[p] # NULL
Closed(S) == \A x \in S : callback[x] \in Promises => callback[x] \in S

\* Whatever is live is reached from the sources along callbacks: it is in every
\* set that holds the sources and, with a promise, the one in its callback.
SourceOK ==
  \A p \in Promises : Live(p) =>
    \A S \in SUBSET Promises : Sources \subseteq S /\ Closed(S) => p \in S

LEMMA SourcesAre == Sources = {p \in Promises : kind[p] \in Roots} \cup Runs(stack)
BY DEF Sources, Running, Runs, Has

\* Steps after which less is live, the sources are the same, and callbacks that
\* lead to promises are.
LEMMA SourceUntouched ==
  ASSUME SourceOK, Sources \subseteq Sources',
         \A p \in Promises : Live(p)' => Live(p),
         \A p \in Promises : callback[p] \in Promises => callback'[p] = callback[p]
  PROVE  SourceOK'
<1> SUFFICES ASSUME NEW p \in Promises, Live(p)', NEW S \in SUBSET Promises,
                    Sources' \subseteq S, Closed(S)'
             PROVE  p \in S
  BY DEF SourceOK
<1>1. Sources \subseteq S /\ Closed(S)
  BY DEF Closed
<1> QED BY <1>1 DEF SourceOK

LEMMA RootSource ==
  ASSUME IInv, PointerTypes, Structure, SourceOK, NEW p \in Promises,
         \/ \E k \in Roots : NewRoot(p, k)
         \/ DestroyRoot(p)
         \/ \E f \in Futures : MakeFuture(p, f)
  PROVE  SourceOK'
<1>1. Sources' = {x \in Promises : kind'[x] \in Roots} \cup Runs(stack')
  BY DEF Sources, Running, Runs, Has
<1>2. UNCHANGED <<callback, stack>> /\ callback[p] = NULL
  BY DEF NewRoot, DestroyRoot, MakeFuture, Structure, FieldsOK, chainVars
<1>3. \A x \in Promises : x # p =>
        kind'[x] = kind[x] /\ matching_future'[x] = matching_future[x]
  BY DEF NewRoot, DestroyRoot, MakeFuture, IInv, LinkTypes
<1>4. kind'[p] \in Roots \/ ~Live(p)'
  BY <1>2 DEF NewRoot, DestroyRoot, MakeFuture, IInv, LinkTypes, Live
<1> SUFFICES ASSUME NEW x \in Promises, Live(x)', NEW S \in SUBSET Promises,
                    Sources' \subseteq S, Closed(S)'
             PROVE  x \in S
  BY DEF SourceOK
<1>5. CASE x = p
  BY <1>1, <1>4, <1>5
<1>6. CASE x # p
  <2> DEFINE T == S \cup {p}
  <2>1. T \in SUBSET Promises /\ Closed(T)
    BY <1>2, NullAssumption DEF Closed
  <2>2. Sources \subseteq T
    BY <1>1, <1>2, <1>3, SourcesAre
  <2>3. Live(x)
    BY <1>2, <1>3, <1>6 DEF Live
  <2> HIDE DEF T
  <2>4. x \in T
    BY <2>1, <2>2, <2>3 DEF SourceOK
  <2> QED BY <1>6, <2>4 DEF T
<1> QED BY <1>5, <1>6

LEMMA MovePromiseSource ==
  ASSUME IInv, PointerTypes, Structure, SourceOK,
         NEW p \in Promises, NEW r \in Promises, MovePromise(p, r)
  PROVE  SourceOK'
<1>1. Sources' = {x \in Promises : kind'[x] \in Roots} \cup Runs(stack')
  BY DEF Sources, Running, Runs, Has
<1>2. /\ p # r /\ kind[p] \in Roots /\ kind[r] = "free" /\ stack' = stack
      /\ kind' = [kind EXCEPT ![r] = kind[p], ![p] = "free"]
      /\ matching_future' = [matching_future EXCEPT ![r] = matching_future[p], ![p] = NULL]
      /\ callback' = [callback EXCEPT ![r] = callback[p], ![p] = NULL]
  BY DEF MovePromise, Roots
<1>3. /\ \A x \in Promises : x # p /\ x # r =>
           /\ kind'[x] = kind[x] /\ matching_future'[x] = matching_future[x]
           /\ callback'[x] = callback[x]
      /\ kind'[r] \in Roots /\ callback'[r] = callback[p]
      /\ ~Live(p)'
  BY <1>2 DEF IInv, LinkTypes, PointerTypes, Live
<1>4. \A x \in Promises : callback[x] # r
  BY <1>2 DEF Structure, HomesOK, Chained, Roots
<1>5. r \notin Sources
  BY <1>2, SourcesAre DEF Structure, HomesOK, Chained, Roots, Called
<1> SUFFICES ASSUME NEW x \in Promises, Live(x)', NEW S \in SUBSET Promises,
                    Sources' \subseteq S, Closed(S)'
             PROVE  x \in S
  BY DEF SourceOK
<1>6. r \in S
  BY <1>1, <1>3
<1>7. CASE x # r
  <2> DEFINE T == (S \ {r}) \cup {p}
  <2>1. Sources \subseteq T
    BY <1>1, <1>2, <1>3, <1>5, SourcesAre
  <2>2. Closed(T)
    BY <1>3, <1>4, <1>6 DEF Closed
  <2>3. Live(x) /\ x # p
    BY <1>3, <1>7 DEF Live
  <2> HIDE DEF T
  <2>4. T \in SUBSET Promises => x \in T
    BY <2>1, <2>2, <2>3 DEF SourceOK
  <2> QED BY <2>3, <2>4 DEF T
<1> QED BY <1>6, <1>7

LEMMA ChainSource ==
  ASSUME IInv, PointerTypes, Structure, SourceOK, NEW f \in Futures,
         \/ \E c \in Callbacks : wait_with_callback(f, c)
         \/ \E q \in Promises, g \in Futures : then_f(f, q, g) \/ cancellable_then_f(f, q, g)
  PROVE  SourceOK'
<1> DEFINE p == matching_promise[f]
<1>1. /\ p \in Promises /\ matching_future[p] = f /\ matching_future[p] # NULL
      /\ callback[p] = NULL /\ stack' = stack
  BY NullAssumption
  DEF wait_with_callback, then_f, cancellable_then_f, Chain, Unwaited, IsPending, IInv,
      LinkTypes, MatchedPair, Structure, FieldsOK
<1>2. PICK c : callback' = [callback EXCEPT ![p] = c]
  BY DEF wait_with_callback, then_f, cancellable_then_f, Chain
<1>3. \A x \in Promises : x # p => callback'[x] = callback[x]
  BY <1>2 DEF PointerTypes
<1>4. \A x \in Promises : kind[x] \in Roots => kind'[x] \in Roots
  BY DEF wait_with_callback, then_f, cancellable_then_f, Chain, Roots, IInv, LinkTypes
<1>5. Sources \subseteq Sources'
  BY <1>1, <1>4 DEF Sources, Running
<1>6. \A x \in Promises : Live(x)' => Live(x) \/ x = callback'[p]
  <2>1. CASE \E d \in Callbacks : wait_with_callback(f, d)
    BY <1>1, <1>3, <2>1 DEF wait_with_callback, Live, IInv, LinkTypes
  <2>2. CASE \E q \in Promises, g \in Futures : then_f(f, q, g) \/ cancellable_then_f(f, q, g)
    <3>1. PICK q \in Promises, g \in Futures :
            /\ callback' = [callback EXCEPT ![p] = q]
            /\ matching_future' = [matching_future EXCEPT ![p] = NULL, ![q] = g]
      BY <2>2 DEF then_f, cancellable_then_f, Chain
    <3>2. callback'[p] = q
      BY <1>1, <3>1 DEF PointerTypes
    <3>3. \A x \in Promises : x # p /\ x # q => matching_future'[x] = matching_future[x]
      BY <3>1 DEF IInv, LinkTypes
    <3> QED BY <1>1, <1>3, <3>2, <3>3 DEF Live
  <2> QED BY <2>1, <2>2
<1> HIDE DEF p
<1> SUFFICES ASSUME NEW x \in Promises, Live(x)', NEW S \in SUBSET Promises,
                    Sources' \subseteq S, Closed(S)'
             PROVE  x \in S
  BY DEF SourceOK
<1>7. Closed(S)
  BY <1>1, <1>3, NullAssumption DEF Closed
<1>8. \A y \in Promises : Live(y) => y \in S
  BY <1>5, <1>7 DEF SourceOK
<1>9. p \in S
  BY <1>1, <1>8 DEF Live
<1> QED BY <1>6, <1>8, <1>9 DEF Closed

\* As in SupplyStructure.  The promise in the callback becomes a source.
LEMMA SupplySource ==
  ASSUME IInv, PointerTypes, Lists, Structure, SourceOK, NEW p \in Promises,
         NEW below \in Seq(Frames), Once(below),
         NEW Done, Runs(below) = Runs(stack) \ Done, Dying(below) = Dying(stack) \cup Done,
         \/ Done = {} /\ kind[p] \in Roots
         \/ Done = {p} /\ p \in Runs(stack),
         Supply(p, below), ~aborted'
  PROVE  SourceOK'
<1> DEFINE c == callback[p]
<1>1. Sources' = {x \in Promises : kind'[x] \in Roots} \cup Runs(stack')
  BY DEF Sources, Running, Runs, Has
<1>2. c \notin Runs(below) \cup Dying(below)
  <2>1. Runs(below) \cup Dying(below) = Called
    BY DEF Called
  <2>2. \A q \in Called : q \in Promises
    BY DEF Called, Runs, Dying
  <2> QED BY <2>1, <2>2 DEF Structure, HomesOK
<1>3. /\ Runs(stack) \ Done \subseteq Runs(stack')
      /\ kind' = kind
      /\ \A x \in Promises : x # p => /\ matching_future'[x] = matching_future[x]
                                      /\ callback'[x] = callback[x]
      /\ callback'[p] = NULL /\ matching_future'[p] = NULL
      /\ c \in Promises => c \in Runs(stack')
  <2>1. CASE Fulfil(p, below)
    <3>1. ~RunCallback(p, below) /\ c = NULL
      BY <2>1 DEF Fulfil, RunCallback, Structure, FieldsOK
    <3> QED BY <1>2, <2>1, <3>1, SupplyCalls, NullAssumption DEF Fulfil, IInv, LinkTypes
  <2>2. CASE RunCallback(p, below)
    <3>1. ~Fulfil(p, below)
      BY <2>2 DEF Fulfil, RunCallback
    <3> QED BY <1>2, <2>2, <3>1, SupplyCalls DEF RunCallback, PointerTypes
  <2> QED BY <1>2, <2>1, <2>2, SupplyCalls
<1> HIDE DEF c
<1> SUFFICES ASSUME NEW x \in Promises, Live(x)', NEW S \in SUBSET Promises,
                    Sources' \subseteq S, Closed(S)'
             PROVE  x \in S
  BY DEF SourceOK
<1> DEFINE T == S \cup {p}
<1>4. Sources \subseteq T
  BY <1>1, <1>3, SourcesAre
<1>5. Closed(T)
  <2>1. c \in Promises => c \in S
    BY <1>1, <1>3
  <2> QED BY <1>3, <2>1 DEF Closed, c
<1>6. x # p /\ Live(x)
  BY <1>3 DEF Live
<1> HIDE DEF T
<1>7. T \in SUBSET Promises => x \in T
  BY <1>4, <1>5, <1>6 DEF SourceOK
<1> QED BY <1>6, <1>7 DEF T

\* The promise that takes over is not one that waits for q: otherwise it would
\* wait for itself, and nothing would complete it.
LEMMA SpliceSource ==
  ASSUME IInv, PointerTypes, Lists, Structure, SourceOK, NEW q \in Promises, NEW f \in Futures,
         FnReturnsPending(q, f), ~aborted'
  PROVE  SourceOK'
<1> DEFINE r == matching_promise[f]
<1>1. Sources' = {x \in Promises : kind'[x] \in Roots} \cup Runs(stack')
  BY DEF Sources, Running, Runs, Has
<1>2. /\ r \in Promises /\ r \notin Downstream(q) /\ r # q /\ Live(r) /\ callback[r] = NULL
      /\ stack # <<>> /\ Head(stack) = ThenFrame(q)
      /\ SpliceFuture(q, f) \/ SpliceCallback(q, f)
  BY DownstreamOfItself, NullAssumption
  DEF FnReturnsPending, InFn, Unwaited, IsPending, IInv, LinkTypes, MatchedPair, Abort, Live,
      Structure, FieldsOK
<1>3. /\ Runs(stack') = Runs(stack) \ {q} /\ q \in Runs(stack)
  BY <1>2, PopThen DEF SpliceFuture, SpliceCallback, Structure, HomesOK, Lists, ListTypes
<1>4. kind' = [x \in Promises |-> IF x = q THEN "free" ELSE kind[x]]
  BY <1>2 DEF SpliceFuture, SpliceCallback, Free
<1>5. /\ \A x \in Promises : x # q /\ x # r =>
           matching_future'[x] = matching_future[x] /\ callback'[x] = callback[x]
      /\ matching_future'[q] = NULL /\ callback'[q] = NULL
      /\ callback'[r] = callback[q]
  <2>1. CASE SpliceFuture(q, f)
    BY <1>2, <2>1 DEF SpliceFuture, IInv, LinkTypes, Structure, FieldsOK
  <2>2. CASE SpliceCallback(q, f)
    BY <1>2, <2>2 DEF SpliceCallback, IInv, LinkTypes, PointerTypes
  <2> QED BY <1>2, <2>1, <2>2
<1>6. \A x \in Promises : callback[x] # q
  BY <1>3 DEF Structure, HomesOK, Called
<1> HIDE DEF r
<1> SUFFICES ASSUME NEW x \in Promises, Live(x)', NEW S \in SUBSET Promises,
                    Sources' \subseteq S, Closed(S)'
             PROVE  x \in S
  BY DEF SourceOK
<1>7. Sources \subseteq S \cup {q}
  BY <1>1, <1>3, <1>4, SourcesAre
<1>8. q \in Downstream(q) /\ Downstream(q) \in SUBSET Promises
  BY DEF Downstream
<1>9. Closed(Downstream(q))
  BY DEF Closed, Downstream
<1>10. r \in S
  <2> DEFINE T == S \cup Downstream(q)
  <2>1. Sources \subseteq T /\ T \in SUBSET Promises
    BY <1>7, <1>8
  <2>2. Closed(T)
    <3> SUFFICES ASSUME NEW y \in T, callback[y] \in Promises PROVE callback[y] \in T
      BY DEF Closed
    <3>1. CASE y \in Downstream(q)
      BY <1>9, <3>1 DEF Closed
    <3>2. CASE y \notin Downstream(q)
      BY <1>2, <1>5, <1>8, <3>2, NullAssumption DEF Closed
    <3> QED BY <3>1, <3>2
  <2> HIDE DEF T
  <2>3. r \in T
    BY <1>2, <2>1, <2>2 DEF SourceOK
  <2> QED BY <1>2, <2>3 DEF T
<1>11. (Live(x) /\ x # q) \/ x = r
  BY <1>5 DEF Live
<1>12. CASE Live(x) /\ x # q
  <2> DEFINE T == S \cup {q}
  <2>1. T \in SUBSET Promises
    OBVIOUS
  <2>2. Closed(T)
    <3> SUFFICES ASSUME NEW y \in T, callback[y] \in Promises PROVE callback[y] \in T
      BY DEF Closed
    <3>1. CASE y = q
      BY <1>5, <1>10, <3>1 DEF Closed
    <3>2. CASE y # q
      BY <1>2, <1>5, <3>2, NullAssumption DEF Closed
    <3> QED BY <3>1, <3>2
  <2> HIDE DEF T
  <2>3. x \in T
    BY <1>7, <1>12, <2>1, <2>2 DEF SourceOK, T
  <2> QED BY <1>12, <2>3 DEF T
<1> QED BY <1>10, <1>11, <1>12

\* The promises that cancel() reaches are all that is downstream of the last.
LEMMA CancelSource ==
  ASSUME IInv, PointerTypes, Structure, SourceOK, NEW f \in Futures, cancel(f), ~aborted'
  PROVE  SourceOK'
<1> DEFINE p == matching_promise[f]
           U == Upstream(p)
           H == Hops(p)
           C == HopClosures(p)
<1>1. p \in Promises /\ matching_future[p] # NULL /\ callback[p] = NULL
  BY NullAssumption
  DEF cancel, Unwaited, IsPending, IInv, LinkTypes, MatchedPair, Structure, FieldsOK
<1>2. /\ \A x \in U : HopHolds(x)
      /\ matching_future' = [matching_future EXCEPT ![p] = NULL]
      /\ callback' = [x \in Promises |-> IF x \in H THEN NULL ELSE callback[x]]
      /\ kind' = [x \in Promises |-> IF x \in C THEN "free" ELSE kind[x]]
      /\ stack' = stack
  BY DEF cancel, Cut, Abort
<1>3. /\ U \subseteq Promises /\ U = {p} \cup H
      /\ \A b \in H : matching_future[b] = NULL
      /\ \A c \in C : c \in U /\ kind[c] \in Chained
      /\ C = {callback[b] : b \in H} \cap Promises
  BY <1>1, <1>2, UpstreamIsHops, HopClosuresAreReached DEF IInv, HopClosures
<1>4. \A b \in H : callback[b] \in Promises => callback[b] \in U
  BY <1>3
<1> HIDE DEF U, H, C
<1>5. Sources \subseteq Sources'
  BY <1>2, <1>3 DEF Sources, Running, Roots, Chained
<1> HIDE DEF p
<1> SUFFICES ASSUME NEW x \in Promises, Live(x)', NEW S \in SUBSET Promises,
                    Sources' \subseteq S, Closed(S)'
             PROVE  x \in S
  BY DEF SourceOK
<1> DEFINE T == S \cup U
<1>6. T \in SUBSET Promises /\ Sources \subseteq T
  BY <1>3, <1>5
<1>7. Closed(T)
  BY <1>1, <1>2, <1>3, <1>4, NullAssumption DEF Closed
<1>8. x \notin U /\ Live(x)
  BY <1>1, <1>2, <1>3 DEF Live, IInv, LinkTypes
<1> HIDE DEF T
<1>9. x \in T
  BY <1>6, <1>7, <1>8 DEF SourceOK
<1> QED BY <1>8, <1>9 DEF T

LEMMA StepSource ==
  ASSUME IInv, PointerTypes, Lists, Structure, SourceOK, Next, ~aborted'
  PROVE  SourceOK'
<1>1. ASSUME NEW p \in Promises, SupplyRoot(p) PROVE SourceOK'
  <2>1. Once(stack) /\ stack \in Seq(Frames)
    BY DEF Structure, HomesOK, Lists, ListTypes
  <2>2. kind[p] \in Roots /\ Supply(p, stack)
    BY <1>1 DEF SupplyRoot
  <2>3. Runs(stack) = Runs(stack) \ {} /\ Dying(stack) = Dying(stack) \cup {}
    OBVIOUS
  <2> QED BY <2>1, <2>2, <2>3, SupplySource
<1>2. ASSUME NEW q \in Promises, FnReturnsValue(q) PROVE SourceOK'
  <2> DEFINE below == <<DestroyFrame(q)>> \o Tail(stack)
  <2>1. InFn(q) /\ Supply(q, below)
    BY <1>2 DEF FnReturnsValue
  <2>2. /\ below \in Seq(Frames) /\ Once(below) /\ q \in Runs(stack)
        /\ Runs(below) = Runs(stack) \ {q} /\ Dying(below) = Dying(stack) \cup {q}
    BY <2>1, CallsBelowFn DEF Structure, HomesOK
  <2> HIDE DEF below
  <2> QED BY <2>1, <2>2, SupplySource
<1>3. ASSUME UNCHANGED <<kind, callback>>, SameCalls,
             \A p \in Promises : matching_future'[p] # NULL => matching_future[p] # NULL
      PROVE  SourceOK'
  <2>1. Sources' = {x \in Promises : kind'[x] \in Roots} \cup Runs(stack')
    BY DEF Sources, Running, Runs, Has
  <2>2. Sources \subseteq Sources'
    BY <1>3, <2>1, SourcesAre DEF SameCalls
  <2> QED BY <1>3, <2>2, SourceUntouched DEF Live
<1>4. ASSUME NEW f \in Futures, \/ \E g \in Futures : MoveFuture(f, g)
                                \/ TakeValue(f) \/ CancelReady(f)
                                \/ \E n \in Notifies : register_notify(f, n)
      PROVE  SourceOK'
  <2>1. UNCHANGED <<kind, callback, stack>>
    BY <1>4 DEF MoveFuture, TakeValue, CancelReady, register_notify, promiseVars
  <2>2. \A p \in Promises : matching_future'[p] # NULL => matching_future[p] # NULL
    <3>1. ASSUME NEW g \in Futures, MoveFuture(f, g), NEW p \in Promises,
                 matching_future'[p] # NULL
          PROVE  matching_future[p] # NULL
      BY <3>1, NullAssumption DEF MoveFuture, IInv, LinkTypes, MatchedPair
    <3> QED BY <1>4, <3>1 DEF TakeValue, CancelReady, register_notify, promiseVars
  <2> QED BY <1>3, <2>1, <2>2, SameStack
<1>5. ASSUME \/ UserReturns \/ NotifyNext
             \/ \E n \in Notifies : unregister_self(n)
      PROVE  SourceOK'
  BY <1>3, <1>5, OtherCalls
  DEF UserReturns, NotifyNext, unregister_self, promiseVars, Structure, HomesOK
<1>6. ASSUME DestroyClosure PROVE SourceOK'
  <2> DEFINE q == Head(stack).to
  <2>1. stack # <<>> /\ Head(stack) \in Frames /\ Head(stack).call = "destroy"
    BY <1>6, PopLists DEF DestroyClosure
  <2>2. q \in Promises /\ Head(stack) = DestroyFrame(q)
    BY <2>1 DEF Frames, DestroyFrame
  <2>3. /\ stack' = Tail(stack) /\ UNCHANGED <<matching_future, callback>>
        /\ kind' = [x \in Promises |-> IF x = q THEN "free" ELSE kind[x]]
    BY <1>6 DEF DestroyClosure, Abort, Free
  <2> HIDE DEF q
  <2>4. Runs(stack') = Runs(stack) /\ q \in Called
    BY <2>1, <2>2, <2>3, PopDestroy DEF Structure, HomesOK, Lists, ListTypes, Called
  <2>5. kind[q] \notin Roots
    BY <2>2, <2>4 DEF Structure, HomesOK, Chained, Roots
  <2>6. Sources' = {x \in Promises : kind'[x] \in Roots} \cup Runs(stack')
    BY DEF Sources, Running, Runs, Has
  <2>7. Sources \subseteq Sources'
    BY <2>3, <2>4, <2>5, <2>6, SourcesAre
  <2> QED BY <2>3, <2>7, SourceUntouched DEF Live
<1>7. ASSUME Finished PROVE SourceOK'
  BY <1>3, <1>7, SameStack DEF Finished, vars, promiseVars
<1>8. /\ \A f \in Futures : ~cancellable_then_f_Aborts(f)
      /\ \A p \in Promises : ~MovePromise_Aborts(p)
  BY DEF cancellable_then_f_Aborts, MovePromise_Aborts, Abort
<1>9. ASSUME UserOperation PROVE SourceOK'
  BY <1>1, <1>4, <1>5, <1>8, <1>9, RootSource, MovePromiseSource, ChainSource, CancelSource
  DEF UserOperation
<1>10. ASSUME Return PROVE SourceOK'
  BY <1>2, <1>5, <1>6, <1>10, SpliceSource DEF Return
<1> QED BY <1>7, <1>9, <1>10 DEF Next

\* On the way from a source to what is downstream of it, each promise but the
\* first is in the callback of another.
LEMMA DownstreamHasPredecessor ==
  ASSUME NEW s \in Promises, NEW z \in Downstream(s), z # s
  PROVE  \E w \in Downstream(s) : callback[w] = z
<1> DEFINE D == Downstream(s)
           T == D \ {z}
<1>1. D \in SUBSET Promises /\ s \in D
  BY DEF Downstream
<1>2. Closed(D)
  BY DEF Closed, Downstream
<1>3. ~Closed(T)
  <2>1. ASSUME Closed(T) PROVE z \in T
    <3>1. T \in SUBSET Promises /\ s \in T
      BY <1>1
    <3> HIDE DEF T
    <3> QED BY <2>1, <3>1 DEF Closed, Downstream
  <2> QED BY <2>1
<1> HIDE DEF D
<1> QED BY <1>2, <1>3 DEF Closed, D

LEMMA SourcesAreSeparate ==
  ASSUME HomesOK, NEW s \in Sources, NEW t \in Sources, s # t
  PROVE  Downstream(s) \cap Downstream(t) = {}
<1> DEFINE T == Downstream(s) \ Downstream(t)
<1>1. s \in Promises /\ t \in Promises
  BY DEF Sources
<1>2. \A x \in Promises : callback[x] # s /\ callback[x] # t
  <2>1. \A r \in Sources : r \in Promises /\ (kind[r] \notin Chained \/ r \in Called)
    BY SourcesAre DEF Called, Runs, Chained, Roots
  <2> QED BY <2>1 DEF HomesOK
<1>3. /\ Downstream(s) \in SUBSET Promises /\ Downstream(t) \in SUBSET Promises
      /\ s \in Downstream(s)
  BY <1>1 DEF Downstream
<1>4. s \notin Downstream(t)
  BY <1>1, <1>2, <1>3, DownstreamHasPredecessor
<1>5. Closed(Downstream(s))
  BY <1>1 DEF Closed, Downstream
<1>6. Closed(T)
  <2> SUFFICES ASSUME NEW x \in T, callback[x] \in Promises, callback[x] \in Downstream(t)
               PROVE  FALSE
    BY <1>5 DEF Closed
  <2>1. callback[x] # t /\ x \in Promises
    BY <1>2, <1>3
  <2>2. PICK w \in Downstream(t) : callback[w] = callback[x]
    BY <1>1, <2>1, DownstreamHasPredecessor
  <2>3. w = x
    BY <1>3, <2>1, <2>2 DEF HomesOK
  <2> QED BY <2>2, <2>3
<1>7. T \in SUBSET Promises /\ s \in T
  BY <1>3, <1>4
<1> HIDE DEF T
<1>8. Downstream(s) \subseteq T
  BY <1>1, <1>6, <1>7 DEF Closed, Downstream
<1> QED BY <1>8 DEF T

THEOREM SourceInvariant == ASSUME Usage = {} PROVE Spec => []SourceOK
<1>1. Init => SourceOK
  BY NullAssumption DEF Init, SourceOK, Live
<1>2. ASSUME SourceOK, Structure, UNCHANGED vars PROVE SourceOK'
  <2>1. Sources = Sources'
    BY <1>2 DEF Sources, Running, vars, promiseVars
  <2> QED BY <1>2, <2>1, SourceUntouched DEF vars, promiseVars, Live
<1>3. ASSUME IInv, PointerTypes, Lists, ProgramInv, ProgramInv', SourceOK, [Next]_vars
      PROVE  SourceOK'
  BY <1>2, <1>3, StepSource DEF ProgramInv
<1> QED BY <1>1, <1>3, InductiveInvariant, ListsInvariant, ProgramInvariant, PTL DEF Spec

\* Nothing waits for ever for want of someone to complete it, and nothing is
\* completed from two sides: each future without value and each
\* wait_with_callback closure is downstream of exactly one promise that is a
\* root or whose closure is running.
THEOREM PendingAlwaysHasOneSource == ASSUME Usage = {} PROVE Spec => []PendingHasOneSource
<1>1. ASSUME PointerTypes, ProgramInv, SourceOK PROVE PendingHasOneSource
  <2> SUFFICES ASSUME NEW p \in Promises, Live(p)
               PROVE  Cardinality({s \in Sources : p \in Downstream(s)}) = 1
    BY NullAssumption DEF PendingHasOneSource, Live
  <2> DEFINE A == {s \in Sources : p \in Downstream(s)}
             S == {x \in Promises : \E s \in Sources : x \in Downstream(s)}
  <2>1. Sources \subseteq S
    BY DownstreamOfItself DEF Sources
  <2>2. Closed(S)
    <3> SUFFICES ASSUME NEW x \in S, callback[x] \in Promises PROVE callback[x] \in S
      BY DEF Closed
    <3>1. PICK s \in Sources : x \in Downstream(s)
      OBVIOUS
    <3>2. callback[x] \in Downstream(s)
      BY <3>1 DEF Downstream
    <3> QED BY <3>2
  <2>3. S \in SUBSET Promises
    OBVIOUS
  <2>4. p \in S
    <3> HIDE DEF S
    <3> QED BY <1>1, <2>1, <2>2, <2>3 DEF SourceOK
  <2>5. PICK s : s \in A
    BY <2>4
  <2>6. A = {s}
    BY <1>1, <2>5, SourcesAreSeparate DEF ProgramInv, Structure
  <2>7. Cardinality({s}) = 1
    BY FS_Singleton
  <2> QED BY <2>6, <2>7
<1> QED BY <1>1, ListsInvariant, ProgramInvariant, SourceInvariant, PTL
=============================================================================
