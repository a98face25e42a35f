-------------------------- MODULE EventLoopProofs --------------------------
(***************************************************************************)
(* Proofs about EventLoop, for any number of registrants and actions and   *)
(* any capacity of the epoll batch.                                        *)
(***************************************************************************)
EXTENDS EventLoop, SequenceTheorems, TLAPS

Distinct(s) == \A i, j \in DOMAIN s : s[i] = s[j] => i = j

-----------------------------------------------------------------------------
(* Sequences without duplicates. *)

\* The swap-and-pop of unregister_for_epoll() on any vector of distinct
\* elements: exactly the element at k is gone, the last one took its place.
LEMMA SwapAndPop ==
  ASSUME NEW S, NEW s \in Seq(S), NEW k \in DOMAIN s, Distinct(s)
  PROVE  LET t == SubSeq([s EXCEPT ![k] = s[Len(s)]], 1, Len(s) - 1)
         IN /\ t \in Seq(S)
            /\ Len(t) = Len(s) - 1
            /\ \A i \in 1..(Len(s) - 1) : t[i] = IF i = k THEN s[Len(s)] ELSE s[i]
            /\ Distinct(t)
            /\ ElementsOf(t) = ElementsOf(s) \ {s[k]}
<1> DEFINE n == Len(s)
           u == [s EXCEPT ![k] = s[n]]
           t == SubSeq(u, 1, n - 1)
<1>1. n \in Nat \ {0} /\ DOMAIN s = 1..n /\ k \in 1..n /\ s \in [1..n -> S]
  BY LenProperties
<1>2. u \in Seq(S) /\ Len(u) = n /\ \A i \in 1..n : u[i] = IF i = k THEN s[n] ELSE s[i]
  BY <1>1, ExceptSeq, ElementOfSeq
<1>3. t \in Seq(S) /\ Len(t) = n - 1 /\ \A i \in 1..(n - 1) : t[i] = u[i]
  BY <1>1, <1>2, SubSeqProperties
<1>4. DOMAIN t = 1..(n - 1)
  BY <1>3, LenProperties
<1>5. \A i \in 1..(n - 1) : t[i] = IF i = k THEN s[n] ELSE s[i]
  BY <1>1, <1>2, <1>3
<1> HIDE DEF n, u, t
<1>6. Distinct(t)
  BY <1>1, <1>4, <1>5 DEF Distinct
<1>7. ElementsOf(t) \subseteq ElementsOf(s) \ {s[k]}
  BY <1>1, <1>4, <1>5 DEF Distinct, ElementsOf
<1>8. ASSUME NEW x \in ElementsOf(s) \ {s[k]} PROVE x \in ElementsOf(t)
  <2>1. PICK i \in 1..n : x = s[i] /\ i # k
    BY <1>1 DEF ElementsOf
  <2>2. CASE i = n
    BY <1>1, <1>4, <1>5, <2>1, <2>2 DEF ElementsOf
  <2>3. CASE i # n
    BY <1>1, <1>4, <1>5, <2>1, <2>3 DEF ElementsOf
  <2> QED BY <2>2, <2>3
<1> QED BY <1>3, <1>5, <1>6, <1>7, <1>8 DEF t, u, n

\* Taking one element out of a list of distinct elements.
LEMMA WithoutProperties ==
  ASSUME NEW S, NEW s \in Seq(S), NEW x, Distinct(s)
  PROVE  /\ Without(s, x) \in Seq(S)
         /\ Distinct(Without(s, x))
         /\ ElementsOf(Without(s, x)) = ElementsOf(s) \ {x}
<1>1. CASE x \notin ElementsOf(s)
  BY <1>1 DEF Without
<1>2. CASE x \in ElementsOf(s)
  <2> DEFINE k == CHOOSE k \in DOMAIN s : s[k] = x
             n == Len(s)
             a == SubSeq(s, 1, k - 1)
             b == SubSeq(s, k + 1, n)
             t == a \o b
  <2>1. k \in DOMAIN s /\ s[k] = x
    BY <1>2 DEF ElementsOf
  <2>2. n \in Nat /\ DOMAIN s = 1..n /\ k \in 1..n
    BY <2>1, LenProperties
  <2>3. Without(s, x) = t
    BY <1>2 DEF Without
  <2> HIDE DEF k, n
  <2>a. \A i \in 1..n : s[i] \in S
    BY <2>2, ElementOfSeq DEF n
  <2>4. a \in Seq(S) /\ Len(a) = k - 1 /\ \A i \in 1..(k - 1) : a[i] = s[i]
    <3>1. \A i \in 1..(k - 1) : s[i] \in S
      BY <2>2, <2>a
    <3> QED BY <2>2, <3>1, SubSeqProperties
  <2>5. b \in Seq(S) /\ Len(b) = n - k /\ \A i \in 1..(n - k) : b[i] = s[k + i]
    <3>1. \A i \in (k + 1)..n : s[i] \in S
      BY <2>2, <2>a
    <3>2. /\ b \in Seq(S)
          /\ Len(b) = IF k + 1 <= n THEN n - (k + 1) + 1 ELSE 0
          /\ \A i \in 1..(n - (k + 1) + 1) : b[i] = s[(k + 1) + i - 1]
      BY <2>2, <3>1, SubSeqProperties
    <3> HIDE DEF b
    <3> QED BY <2>2, <3>2
  <2> HIDE DEF a, b
  <2>6. /\ t \in Seq(S)
        /\ Len(t) = n - 1
        /\ \A i \in 1..(n - 1) : t[i] = IF i < k THEN s[i] ELSE s[i + 1]
    <3>1. /\ t \in Seq(S)
          /\ Len(t) = Len(a) + Len(b)
          /\ \A i \in 1..(Len(a) + Len(b)) :
               t[i] = IF i <= Len(a) THEN a[i] ELSE b[i - Len(a)]
      BY <2>4, <2>5, ConcatProperties
    <3> HIDE DEF t
    <3>2. \A i \in 1..(n - 1) : i > k - 1 =>
            i - (k - 1) \in 1..(n - k) /\ b[i - (k - 1)] = s[i + 1]
      BY <2>2, <2>5
    <3> QED BY <2>2, <2>4, <2>5, <3>1, <3>2
  <2>7. DOMAIN t = 1..(n - 1)
    BY <2>6, LenProperties
  <2> HIDE DEF t
  <2>8. Distinct(t)
    BY <2>2, <2>6, <2>7 DEF Distinct
  <2>9. ASSUME NEW i \in 1..(n - 1) PROVE t[i] \in ElementsOf(s) \ {x}
    <3>1. PICK j \in 1..n : t[i] = s[j] /\ j # k
      BY <2>2, <2>6
    <3> QED BY <2>1, <2>2, <3>1 DEF Distinct, ElementsOf
  <2>10. ASSUME NEW y \in ElementsOf(s) \ {x} PROVE y \in ElementsOf(t)
    <3>1. PICK i \in 1..n : y = s[i] /\ i # k
      BY <2>1, <2>2 DEF ElementsOf
    <3>2. CASE i < k
      BY <2>2, <2>6, <2>7, <3>1, <3>2 DEF ElementsOf
    <3>3. CASE i > k
      <4>1. i - 1 \in DOMAIN t /\ t[i - 1] = s[i]
        BY <2>2, <2>6, <2>7, <3>1, <3>3
      <4> QED BY <4>1, <3>1 DEF ElementsOf
    <3> QED BY <2>2, <3>1, <3>2, <3>3
  <2>11. ElementsOf(t) = ElementsOf(s) \ {x}
    BY <2>7, <2>9, <2>10 DEF ElementsOf
  <2> QED BY <2>3, <2>6, <2>8, <2>11
<1> QED BY <1>1, <1>2

\* Appending an element that is not there.
LEMMA AppendDistinct ==
  ASSUME NEW S, NEW s \in Seq(S), NEW x \in S
  PROVE  /\ Append(s, x) \in Seq(S)
         /\ ElementsOf(Append(s, x)) = ElementsOf(s) \cup {x}
         /\ Distinct(s) /\ x \notin ElementsOf(s) => Distinct(Append(s, x))
<1>1. /\ Append(s, x) \in Seq(S)
      /\ Len(Append(s, x)) = Len(s) + 1
      /\ \A i \in 1..Len(s) : Append(s, x)[i] = s[i]
      /\ Append(s, x)[Len(s) + 1] = x
  BY AppendProperties
<1>2. Len(s) \in Nat /\ DOMAIN s = 1..Len(s) /\ DOMAIN Append(s, x) = 1..(Len(s) + 1)
  BY <1>1, LenProperties
<1>3. ElementsOf(Append(s, x)) = ElementsOf(s) \cup {x}
  <2>1. ElementsOf(Append(s, x)) \subseteq ElementsOf(s) \cup {x}
    BY <1>1, <1>2 DEF ElementsOf
  <2>2. ElementsOf(s) \cup {x} \subseteq ElementsOf(Append(s, x))
    BY <1>1, <1>2 DEF ElementsOf
  <2> QED BY <2>1, <2>2
<1>4. ASSUME Distinct(s), x \notin ElementsOf(s) PROVE Distinct(Append(s, x))
  BY <1>1, <1>2, <1>4 DEF Distinct, ElementsOf
<1> QED BY <1>1, <1>3, <1>4

\* The beginning and the rest of a list, as epoll_wait divides the ready list.
LEMMA SplitProperties ==
  ASSUME NEW S, NEW s \in Seq(S), NEW n \in 0..Len(s)
  PROVE  /\ SubSeq(s, 1, n) \in Seq(S)
         /\ Len(SubSeq(s, 1, n)) = n
         /\ SubSeq(s, n + 1, Len(s)) \in Seq(S)
         /\ ElementsOf(SubSeq(s, n + 1, Len(s))) \subseteq ElementsOf(s)
         /\ Distinct(s) => Distinct(SubSeq(s, n + 1, Len(s)))
<1>1. Len(s) \in Nat /\ n \in Nat /\ n <= Len(s) /\ DOMAIN s = 1..Len(s)
  BY LenProperties
<1>2. \A i \in 1..Len(s) : s[i] \in S
  BY <1>1, ElementOfSeq
<1>3. SubSeq(s, 1, n) \in Seq(S) /\ Len(SubSeq(s, 1, n)) = n
  <2>1. \A i \in 1..n : s[i] \in S
    BY <1>1, <1>2
  <2> QED BY <1>1, <2>1, SubSeqProperties
<1> DEFINE m == Len(s)
           t == SubSeq(s, n + 1, m)
<1>4. t \in Seq(S) /\ Len(t) = m - n /\ \A i \in 1..(m - n) : t[i] = s[n + i]
  <2>1. \A i \in (n + 1)..m : s[i] \in S
    BY <1>1, <1>2
  <2>2. /\ t \in Seq(S)
        /\ Len(t) = IF n + 1 <= m THEN m - (n + 1) + 1 ELSE 0
        /\ \A i \in 1..(m - (n + 1) + 1) : t[i] = s[(n + 1) + i - 1]
    BY <1>1, <2>1, SubSeqProperties
  <2>3. m \in Nat /\ n \in 0..m
    BY <1>1
  <2> HIDE DEF t, m
  <2> QED BY <2>2, <2>3
<1>5. DOMAIN t = 1..(m - n)
  BY <1>4, LenProperties
<1> HIDE DEF t
<1>6. \A i \in 1..(m - n) : n + i \in 1..m
  BY <1>1
<1>7. ElementsOf(t) \subseteq ElementsOf(s)
  BY <1>1, <1>4, <1>5, <1>6 DEF ElementsOf
<1>8. Distinct(s) => Distinct(t)
  BY <1>1, <1>4, <1>5, <1>6 DEF Distinct
<1> QED BY <1>3, <1>4, <1>7, <1>8 DEF t

-----------------------------------------------------------------------------
(* The inductive invariant. *)

\* The registry: every live object is in the vector at its own index, the
\* vector holds no object twice, the kernel holds what the vector holds, and
\* as long as no EPOLL_CTL_DEL failed the vector holds live objects only.
Indexed ==
  \A r \in alive : /\ registered_index[r] \in DOMAIN registrants
                   /\ registrants[registered_index[r]] = r

RegistryInv ==
  /\ Indexed
  /\ Distinct(registrants)
  /\ interest = ElementsOf(registrants)
  /\ Distinct(ready)
  /\ ElementsOf(ready) \subseteq interest
  /\ del_failures = 0 => ElementsOf(registrants) \subseteq alive

\* The thread: mid_step_ is clear outside full_step(), and between the end of
\* one batch of actions and the next swap the spare buffer is empty.
StepInv ==
  /\ pc \in {"setup", "main"} => ~mid_step
  /\ pc \in {"setup", "main", "polling", "wakeups", "callback"}
       => spare_actions_buf = <<>>

IInv == TypeOK /\ RegistryInv /\ StepInv

LEMMA InitIInv == Init => IInv
<1> SUFFICES ASSUME Init PROVE IInv
  OBVIOUS
<1>1. <<>> \in Seq(Registrants) /\ <<>> \in Seq(Actions) /\ Len(<<>>) = 0
      /\ DOMAIN <<>> = {}
  BY EmptySeq
<1>2. TypeOK
  <2>1. registered_index \in [Registrants -> Nat]
    BY DEF Init, SIZE_MAX
  <2>2. Len(events) <= MAXEVENTS /\ del_failures \in 0..MaxCtlDelFailures
    BY <1>1, MaxEventsAssumption, CtlDelAssumption DEF Init
  <2> QED BY <1>1, <2>1, <2>2 DEF Init, TypeOK, Contexts
<1>3. RegistryInv
  BY <1>1 DEF Init, RegistryInv, Indexed, Distinct, ElementsOf
<1>4. StepInv
  BY DEF Init, StepInv
<1> QED BY <1>2, <1>3, <1>4 DEF IInv

\* Registering an object that is not in the vector.
LEMMA ConstructIInv ==
  ASSUME IInv, NEW r \in Registrants, Construct(r)
  PROVE  IInv'
<1> USE DEF IInv
<1>1. /\ r \notin alive /\ r \notin ElementsOf(registrants)
      /\ alive' = alive \cup {r}
      /\ interest' = interest \cup {r}
      /\ ready' \in {ready, Append(ready, r)}
      /\ registered_index' = [registered_index EXCEPT ![r] = Len(registrants) + 1]
      /\ registrants' = Append(registrants, r)
      /\ UNCHANGED <<pc, loopVars, del_failures, events>>
  BY DEF Construct, register_for_epoll
<1>2. /\ registrants' \in Seq(Registrants)
      /\ Len(registrants') = Len(registrants) + 1
      /\ \A i \in 1..Len(registrants) : registrants'[i] = registrants[i]
      /\ registrants'[Len(registrants) + 1] = r
      /\ Len(registrants) \in Nat
      /\ DOMAIN registrants = 1..Len(registrants)
      /\ DOMAIN registrants' = 1..(Len(registrants) + 1)
  BY <1>1, AppendProperties, LenProperties DEF TypeOK
<1>3. /\ ElementsOf(registrants') = ElementsOf(registrants) \cup {r}
      /\ Distinct(registrants')
  BY <1>1, AppendDistinct DEF TypeOK, RegistryInv
<1>4. ready' \in Seq(Registrants) /\ Distinct(ready')
      /\ ElementsOf(ready') \subseteq ElementsOf(ready) \cup {r}
  <2>1. r \notin ElementsOf(ready)
    BY <1>1 DEF RegistryInv
  <2>2. CASE ready' = ready
    BY <2>2 DEF TypeOK, RegistryInv
  <2>3. CASE ready' = Append(ready, r)
    BY <2>1, <2>3, AppendDistinct DEF TypeOK, RegistryInv
  <2> QED BY <1>1, <2>2, <2>3
<1>5. TypeOK'
  BY <1>1, <1>2, <1>4 DEF TypeOK, loopVars
<1>6. Indexed'
  BY <1>1, <1>2 DEF Indexed, RegistryInv, TypeOK
<1>7. RegistryInv'
  BY <1>1, <1>3, <1>4, <1>6 DEF RegistryInv
<1>8. StepInv'
  BY <1>1 DEF StepInv, loopVars
<1> QED BY <1>5, <1>7, <1>8

\* The vector after the swap-and-pop, when one of its objects is closed.
LEMMA CloseRegistrants ==
  ASSUME IInv, NEW r \in Registrants, Close(r)
  PROVE  LET n == Len(registrants)
             k == registered_index[r]
         IN /\ n \in Nat /\ DOMAIN registrants = 1..n /\ k \in 1..n
            /\ registrants[k] = r /\ registrants[n] \in Registrants
            /\ registrants' \in Seq(Registrants)
            /\ Len(registrants') = n - 1
            /\ \A i \in 1..(n - 1) :
                 registrants'[i] = IF i = k THEN registrants[n] ELSE registrants[i]
            /\ Distinct(registrants')
            /\ ElementsOf(registrants') = ElementsOf(registrants) \ {r}
<1> USE DEF IInv
<1> DEFINE n == Len(registrants)
           k == registered_index[r]
           t == SubSeq([registrants EXCEPT ![k] = registrants[n]], 1, n - 1)
<1>1. r \in alive /\ registrants' = t
  BY DEF Close, unregister_for_epoll
<1>2. n \in Nat /\ DOMAIN registrants = 1..n /\ k \in 1..n /\ registrants[k] = r
  BY <1>1, LenProperties DEF TypeOK, RegistryInv, Indexed
<1>3. registrants[n] \in Registrants
  BY <1>2, ElementOfSeq DEF TypeOK
<1>4. registrants \in Seq(Registrants) /\ Distinct(registrants) /\ k \in DOMAIN registrants
  BY <1>2 DEF TypeOK, RegistryInv
<1> HIDE DEF k
<1>5. /\ t \in Seq(Registrants)
      /\ Len(t) = n - 1
      /\ \A i \in 1..(n - 1) :
           t[i] = IF i = k THEN registrants[n] ELSE registrants[i]
      /\ Distinct(t)
      /\ ElementsOf(t) = ElementsOf(registrants) \ {registrants[k]}
  BY ONLY <1>4, SwapAndPop
<1> HIDE DEF t, n
<1>6. QED
  BY <1>1, <1>2, <1>3, <1>5 DEF n, k

\* Closing an object, and the index of the one that moves.
LEMMA CloseIInv ==
  ASSUME IInv, NEW r \in Registrants, Close(r)
  PROVE  IInv'
<1> USE DEF IInv
<1> DEFINE n == Len(registrants)
           k == registered_index[r]
           last == registrants[n]
<1>1. /\ r \in alive
      /\ alive' = alive \ {r}
      /\ registered_index' =
           [[registered_index EXCEPT ![last] = k] EXCEPT ![r] = SIZE_MAX]
      /\ interest' = interest \ {r}
      /\ ready' = Without(ready, r)
      /\ pc' \in {pc, "undefined"}
      /\ UNCHANGED <<loopVars, del_failures, events>>
  BY DEF Close, unregister_for_epoll
<1>2. n \in Nat /\ DOMAIN registrants = 1..n /\ k \in 1..n /\ registrants[k] = r
  BY CloseRegistrants
<1>3. last \in Registrants
  BY CloseRegistrants
<1>4. /\ registrants' \in Seq(Registrants)
      /\ Len(registrants') = n - 1
      /\ \A i \in 1..(n - 1) : registrants'[i] = IF i = k THEN last ELSE registrants[i]
      /\ Distinct(registrants')
      /\ ElementsOf(registrants') = ElementsOf(registrants) \ {r}
  BY CloseRegistrants
<1>5. DOMAIN registrants' = 1..(n - 1)
  BY <1>4, LenProperties
<1>6. /\ ready' \in Seq(Registrants) /\ Distinct(ready')
      /\ ElementsOf(ready') = ElementsOf(ready) \ {r}
  BY <1>1, WithoutProperties DEF TypeOK, RegistryInv
<1>7. registered_index' \in [Registrants -> Nat]
  BY <1>1, <1>2, <1>3 DEF TypeOK, SIZE_MAX
<1>8. TypeOK'
  BY <1>1, <1>4, <1>6, <1>7 DEF TypeOK, loopVars, Contexts
<1>9. Indexed'
  <2> SUFFICES ASSUME NEW s \in alive, s # r
               PROVE  /\ registered_index'[s] \in 1..(n - 1)
                      /\ registrants'[registered_index'[s]] = s
    BY <1>1, <1>5 DEF Indexed
  <2> DEFINE j == registered_index[s]
  <2>1. s \in Registrants /\ j \in 1..n /\ registrants[j] = s /\ j # k
    BY <1>2 DEF TypeOK, RegistryInv, Indexed
  <2>2. CASE j = n
    <3>1. registered_index'[s] = k /\ k \in 1..(n - 1)
      BY <1>1, <1>2, <1>3, <2>1, <2>2 DEF TypeOK
    <3> QED BY <1>4, <2>1, <2>2, <3>1
  <2>3. CASE j # n
    <3>1. s # last
      BY <1>2, <2>1, <2>3 DEF RegistryInv, Distinct
    <3>2. registered_index'[s] = j /\ j \in 1..(n - 1)
      BY <1>1, <1>2, <2>1, <2>3, <3>1 DEF TypeOK
    <3> QED BY <1>4, <2>1, <3>2
  <2> QED BY <2>2, <2>3
<1>10. RegistryInv'
  BY <1>1, <1>4, <1>6, <1>9 DEF RegistryInv
<1>11. StepInv'
  BY <1>1 DEF StepInv, loopVars
<1> QED BY <1>8, <1>10, <1>11

\* The failed EPOLL_CTL_DEL, and the two exceptions, leave the registry alone.
LEMMA FailureIInv ==
  ASSUME IInv,
         (\E r \in Registrants : CloseWithoutDeregistering(r))
           \/ ConstructThrows \/ DestructorThrows \/ epoll_wait_error
  PROVE  IInv'
<1> USE DEF IInv
<1>1. /\ alive' \subseteq alive
      /\ pc' \in {pc, "failed"}
      /\ \/ del_failures' = del_failures /\ alive' = alive
         \/ del_failures < MaxCtlDelFailures /\ del_failures' = del_failures + 1
      /\ UNCHANGED <<loopVars, registrants, registered_index, interest, ready, events>>
  BY DEF CloseWithoutDeregistering, ConstructThrows, DestructorThrows,
         epoll_wait_error, registryVars
<1>2. TypeOK'
  BY <1>1, CtlDelAssumption DEF TypeOK, loopVars, Contexts
<1>3. RegistryInv'
  <2>1. del_failures' = 0 => alive' = alive /\ del_failures = 0
    BY <1>1 DEF TypeOK
  <2> QED BY <1>1, <2>1 DEF RegistryInv, Indexed, Distinct, ElementsOf
<1>4. StepInv'
  BY <1>1 DEF StepInv, loopVars
<1> QED BY <1>2, <1>3, <1>4

\* The steps that leave the registry and the ready list alone.
LEMMA ThreadIInv ==
  ASSUME IInv,
         (\E a \in Actions : schedule(a)) \/ UserReturns \/ StopLoop \/ BeginStep
           \/ on_update \/ SwapActions \/ RunAction \/ EndStep
  PROVE  IInv'
<1>1. TypeOK /\ RegistryInv /\ StepInv
  BY DEF IInv
<1>2. UNCHANGED <<alive, registrants, registered_index, del_failures, interest, ready>>
  BY DEF schedule, UserReturns, StopLoop, BeginStep, on_update, SwapActions,
         RunAction, EndStep, registryVars
<1>3. RegistryInv'
  BY <1>1, <1>2 DEF RegistryInv, Indexed, Distinct, ElementsOf
<1>4. SUFFICES TypeOK' /\ StepInv'
  BY <1>3 DEF IInv
<1> USE DEF StepInv, Contexts
<1>5. CASE \E a \in Actions : schedule(a)
  <2> PICK a \in Actions : schedule(a)
    BY <1>5
  <2>1. /\ enqueued_actions' = Append(enqueued_actions, a)
        /\ UNCHANGED <<pc, mid_step, blocking_wait, spare_actions_buf, events>>
    BY DEF schedule
  <2>2. enqueued_actions' \in Seq(Actions)
    BY <1>1, <2>1, AppendProperties DEF TypeOK
  <2> QED BY <1>1, <1>2, <2>1, <2>2 DEF TypeOK
<1>6. CASE UserReturns
  <2>1. /\ pc \in {"setup", "callback", "action"}
        /\ pc' = CASE pc = "setup"    -> "main"
                   [] pc = "callback" -> "wakeups"
                   [] pc = "action"   -> "actions"
        /\ UNCHANGED <<mid_step, blocking_wait, enqueued_actions, spare_actions_buf,
                       events>>
    BY <1>6 DEF UserReturns, InUserCode, loopVars
  <2>2. \/ pc = "setup" /\ pc' = "main"
        \/ pc = "callback" /\ pc' = "wakeups"
        \/ pc = "action" /\ pc' = "actions"
    BY <2>1
  <2> QED BY <1>1, <1>2, <2>1, <2>2 DEF TypeOK
<1>7. CASE StopLoop
  BY <1>1, <1>2, <1>7 DEF StopLoop, loopVars, TypeOK
<1>8. CASE BeginStep
  BY <1>1, <1>2, <1>8 DEF BeginStep, TypeOK
<1>9. CASE on_update
  <2>1. /\ pc = "wakeups" /\ events # <<>>
        /\ events' = Tail(events)
        /\ pc' \in {"callback", "undefined"}
        /\ UNCHANGED <<mid_step, blocking_wait, enqueued_actions, spare_actions_buf>>
    BY <1>9 DEF on_update, loopVars
  <2>2. events' \in Seq(Registrants) /\ Len(events') <= MAXEVENTS
    BY <1>1, <2>1, HeadTailProperties, LenProperties, MaxEventsAssumption DEF TypeOK
  <2> QED BY <1>1, <1>2, <2>1, <2>2 DEF TypeOK
<1>10. CASE SwapActions
  BY <1>1, <1>2, <1>10 DEF SwapActions, TypeOK
<1>11. CASE RunAction
  <2>1. /\ pc = "actions" /\ spare_actions_buf # <<>>
        /\ spare_actions_buf' = Tail(spare_actions_buf)
        /\ pc' = "action"
        /\ UNCHANGED <<mid_step, blocking_wait, enqueued_actions, events>>
    BY <1>11 DEF RunAction
  <2>2. spare_actions_buf' \in Seq(Actions)
    BY <1>1, <2>1, HeadTailProperties DEF TypeOK
  <2> QED BY <1>1, <1>2, <2>1, <2>2 DEF TypeOK
<1>12. CASE EndStep
  BY <1>1, <1>2, <1>12 DEF EndStep, TypeOK
<1> QED BY <1>5, <1>6, <1>7, <1>8, <1>9, <1>10, <1>11, <1>12

\* The kernel's steps: a batch leaves the ready list, an item enters it.
LEMMA KernelIInv ==
  ASSUME IInv, epoll_wait \/ \E r \in Registrants : Edge(r)
  PROVE  IInv'
<1>1. TypeOK /\ RegistryInv /\ StepInv
  BY DEF IInv
<1>2. UNCHANGED <<alive, registrants, registered_index, del_failures, interest,
                  mid_step, blocking_wait, enqueued_actions, spare_actions_buf>>
  BY DEF epoll_wait, Edge, registryVars, loopVars
<1>3. CASE epoll_wait
  <2> DEFINE n == IF Len(ready) < MAXEVENTS THEN Len(ready) ELSE MAXEVENTS
  <2>1. /\ pc = "polling" /\ pc' = "wakeups"
        /\ events' = SubSeq(ready, 1, n)
        /\ ready' = SubSeq(ready, n + 1, Len(ready))
    BY <1>3 DEF epoll_wait
  <2>2. n \in 0..Len(ready) /\ n <= MAXEVENTS
    BY <1>1, LenProperties, MaxEventsAssumption DEF TypeOK
  <2> HIDE DEF n
  <2>3. /\ events' \in Seq(Registrants) /\ Len(events') <= MAXEVENTS
        /\ ready' \in Seq(Registrants) /\ Distinct(ready')
        /\ ElementsOf(ready') \subseteq ElementsOf(ready)
    BY <1>1, <2>1, <2>2, SplitProperties DEF TypeOK, RegistryInv
  <2>4. TypeOK'
    BY <1>1, <1>2, <2>1, <2>3 DEF TypeOK, Contexts
  <2>5. RegistryInv'
    <3>1. Indexed' /\ ElementsOf(registrants)' = ElementsOf(registrants)
      BY <1>1, <1>2 DEF RegistryInv, Indexed, Distinct, ElementsOf
    <3>2. Distinct(registrants') /\ ElementsOf(registrants') = ElementsOf(registrants)
      BY <1>1, <1>2 DEF RegistryInv
    <3> QED BY <1>1, <1>2, <2>3, <3>1, <3>2 DEF RegistryInv
  <2>6. StepInv'
    BY <1>1, <1>2, <2>1 DEF StepInv
  <2> QED BY <2>4, <2>5, <2>6 DEF IInv
<1>4. CASE \E r \in Registrants : Edge(r)
  <2> PICK r \in Registrants : Edge(r)
    BY <1>4
  <2>1. /\ r \in interest /\ r \notin ElementsOf(ready)
        /\ ready' = Append(ready, r)
        /\ UNCHANGED <<pc, events>>
    BY DEF Edge
  <2>2. /\ ready' \in Seq(Registrants) /\ Distinct(ready')
        /\ ElementsOf(ready') = ElementsOf(ready) \cup {r}
    BY <1>1, <2>1, AppendDistinct DEF TypeOK, RegistryInv
  <2>3. TypeOK'
    BY <1>1, <1>2, <2>1, <2>2 DEF TypeOK
  <2>4. RegistryInv'
    BY <1>1, <1>2, <2>1, <2>2 DEF RegistryInv, Indexed, Distinct, ElementsOf
  <2>5. StepInv'
    BY <1>1, <1>2, <2>1 DEF StepInv
  <2> QED BY <2>3, <2>4, <2>5 DEF IInv
<1> QED BY <1>3, <1>4

LEMMA StepIInv == IInv /\ [Next]_vars => IInv'
<1> SUFFICES ASSUME IInv, [Next]_vars PROVE IInv'
  OBVIOUS
<1>1. CASE UserOperation
  BY <1>1, ConstructIInv, CloseIInv, FailureIInv, ThreadIInv DEF UserOperation
<1>2. CASE UserReturns \/ LoopStep
  BY <1>2, ThreadIInv, KernelIInv DEF LoopStep
<1>3. CASE epoll_wait_error
  BY <1>3, FailureIInv
<1>4. CASE \E r \in Registrants : Edge(r)
  BY <1>4, KernelIInv
<1>5. CASE UNCHANGED vars
  <2>1. UNCHANGED <<pc, mid_step, blocking_wait, alive, registrants, registered_index,
                    enqueued_actions, spare_actions_buf, del_failures, interest, ready,
                    events>>
    BY <1>5 DEF vars, loopVars, registryVars
  <2>2. TypeOK'
    BY <2>1 DEF IInv, TypeOK
  <2>3. RegistryInv'
    BY <2>1 DEF IInv, RegistryInv, Indexed, Distinct, ElementsOf
  <2>4. StepInv'
    BY <2>1 DEF IInv, StepInv
  <2> QED BY <2>2, <2>3, <2>4 DEF IInv
<1> QED BY <1>1, <1>2, <1>3, <1>4, <1>5 DEF Next, Finished

THEOREM InductiveInvariant == Spec => []IInv
BY InitIInv, StepIInv, PTL DEF Spec

-----------------------------------------------------------------------------
(* What the invariant gives. *)

\* Type correctness; in particular epoll_wait never returns more events than
\* the array of handle_wakeups() holds.
THEOREM TypeCorrect == Spec => []TypeOK
<1>1. IInv => TypeOK
  BY DEF IInv
<1> QED BY <1>1, InductiveInvariant, PTL

\* The assertions of has_stuff_to_do() and full_step() never fail.
THEOREM AssertionsHold == Spec => []StepAssertions
<1>1. IInv => StepAssertions
  BY DEF IInv, StepInv, StepAssertions
<1> QED BY <1>1, InductiveInvariant, PTL

\* As long as no EPOLL_CTL_DEL has failed, registrants_ and registered_index_
\* point at each other.
THEOREM RegistryConsistent == Spec => []RegistryAgrees
<1>1. ASSUME IInv, del_failures = 0 PROVE BackPointingIndices
  <2>1. ElementsOf(registrants) \subseteq alive
    BY <1>1 DEF IInv, RegistryInv
  <2>2. ASSUME NEW i \in DOMAIN registrants
        PROVE  registrants[i] \in alive /\ registered_index[registrants[i]] = i
    <3>1. registrants[i] \in alive
      BY <2>1 DEF ElementsOf
    <3> QED BY <1>1, <3>1 DEF IInv, RegistryInv, Indexed, Distinct
  <2> QED BY <1>1, <2>2 DEF IInv, RegistryInv, Indexed, BackPointingIndices
<1>2. IInv => RegistryAgrees
  BY <1>1 DEF RegistryAgrees
<1> QED BY <1>2, InductiveInvariant, PTL

\* As long as no EPOLL_CTL_DEL has failed, the kernel holds pointers to live
\* objects only: later waits return no event of an object that is gone.
THEOREM KernelConsistent == Spec => []KernelHoldsLivePointers
<1>1. ASSUME IInv, del_failures = 0
      PROVE  interest = alive /\ ElementsOf(ready) \subseteq alive
  <2>1. alive \subseteq ElementsOf(registrants)
    BY <1>1 DEF IInv, RegistryInv, Indexed, ElementsOf
  <2> QED BY <1>1, <2>1 DEF IInv, RegistryInv
<1>2. IInv => KernelHoldsLivePointers
  BY <1>1 DEF KernelHoldsLivePointers
<1> QED BY <1>2, InductiveInvariant, PTL

-----------------------------------------------------------------------------
(* EventLoop implements LoopService. *)

\* The queue of LoopService is what is left of the batch of actions that is
\* being run, and then the actions that wait for the next step.
LEMMA ScheduleAppends ==
  ASSUME NEW S, NEW s \in Seq(S), NEW t \in Seq(S), NEW x \in S
  PROVE  s \o Append(t, x) = Append(s \o t, x)
<1>1. s \o t \in Seq(S) /\ <<x>> \in Seq(S)
  BY ConcatProperties
<1>2. Append(t, x) = t \o <<x>> /\ Append(s \o t, x) = (s \o t) \o <<x>>
  BY <1>1, AppendIsConcat
<1> QED BY <1>1, <1>2, ConcatAssociative

LEMMA RunsOldest ==
  ASSUME NEW S, NEW s \in Seq(S), NEW t \in Seq(S), s # <<>>
  PROVE  s \o t # <<>> /\ Tail(s \o t) = Tail(s) \o t
<1>1. s \o t # <<>>
  BY ConcatSimplifications
<1> DEFINE u == s \o t
           m == Len(s)
           n == Len(t)
<1>2. m \in Nat \ {0} /\ n \in Nat
  BY EmptySeq, LenProperties
<1>3. u \in Seq(S) /\ Len(u) = m + n
      /\ \A i \in 1..(m + n) : u[i] = IF i <= m THEN s[i] ELSE t[i - m]
  BY ConcatProperties
<1>4. Tail(s) \in Seq(S) /\ Len(Tail(s)) = m - 1
      /\ \A i \in 1..(m - 1) : Tail(s)[i] = s[i + 1]
  BY HeadTailProperties, <1>2
<1> HIDE DEF u
<1>5. Tail(u) \in Seq(S) /\ Len(Tail(u)) = m + n - 1
      /\ \A i \in 1..(m + n - 1) : Tail(u)[i] = u[i + 1]
  BY <1>1, <1>2, <1>3, HeadTailProperties DEF u
<1> DEFINE v == Tail(s) \o t
<1>6. v \in Seq(S) /\ Len(v) = m - 1 + n
      /\ \A i \in 1..(m - 1 + n) : v[i] = IF i <= m - 1 THEN Tail(s)[i] ELSE t[i - (m - 1)]
  BY <1>4, ConcatProperties
<1> HIDE DEF v, m, n
<1>7. ASSUME NEW i \in 1..Len(Tail(u)) PROVE Tail(u)[i] = v[i]
  <2>1. i \in 1..(m + n - 1) /\ i + 1 \in 1..(m + n) /\ (i + 1) - m = i - (m - 1)
    BY <1>2, <1>5
  <2>2. CASE i <= m - 1
    BY <1>2, <1>3, <1>4, <1>5, <1>6, <2>1, <2>2
  <2>3. CASE i > m - 1
    <3>1. Tail(u)[i] = u[i + 1]
      BY <1>5, <2>1
    <3>2. u[i + 1] = t[(i + 1) - m]
      BY <1>2, <1>3, <2>1, <2>3
    <3>3. v[i] = t[i - (m - 1)]
      BY <1>2, <1>6, <2>1, <2>3
    <3> QED BY <2>1, <3>1, <3>2, <3>3
  <2> QED BY <1>2, <2>1, <2>2, <2>3
<1>8. Tail(u) = v
  <2>1. Len(Tail(u)) = Len(v)
    BY <1>2, <1>5, <1>6
  <2> QED BY <1>5, <1>6, <1>7, <2>1, SeqEqual
<1> QED BY <1>1, <1>8 DEF u, v

\* LoopService is running.
Running == pc \notin {"stopped", "failed", "undefined"}

LEMMA InitService == Init => Service!Init
BY EmptySeq, ConcatEmptySeq DEF Init, Service!Init, ElementsOf

LEMMA UserService ==
  ASSUME IInv, UserOperation
  PROVE  [Service!Next]_(Service!vars)
<1> USE DEF IInv, InUserCode
<1>1. ASSUME NEW r \in Registrants, Construct(r) PROVE Service!Watch(r)
  <2>1. /\ Running /\ pc' = pc /\ r \notin ElementsOf(registrants)
        /\ registrants' = Append(registrants, r)
        /\ UNCHANGED <<spare_actions_buf, enqueued_actions>>
    BY <1>1 DEF Construct, register_for_epoll, loopVars, Running
  <2>2. ElementsOf(registrants') = ElementsOf(registrants) \cup {r}
    BY <2>1, AppendDistinct DEF TypeOK
  <2> QED BY <2>1, <2>2 DEF Service!Watch, Running, ElementsOf
<1>2. ASSUME NEW r \in Registrants, Close(r) PROVE Service!Unwatch(r) \/ Service!Fail
  <2>1. Running /\ pc' \in {pc, "undefined"} /\ UNCHANGED <<spare_actions_buf, enqueued_actions>>
    BY <1>2 DEF Close, loopVars, Running
  <2>2. r \in ElementsOf(registrants) /\ ElementsOf(registrants') = ElementsOf(registrants) \ {r}
    BY <1>2, CloseRegistrants DEF ElementsOf
  <2> QED BY <2>1, <2>2 DEF Service!Unwatch, Service!Fail, Running, ElementsOf
<1>3. ASSUME NEW a \in Actions, schedule(a) PROVE Service!Schedule(a)
  <2>1. /\ Running /\ enqueued_actions' = Append(enqueued_actions, a)
        /\ UNCHANGED <<pc, registrants, spare_actions_buf>>
    BY <1>3 DEF schedule, registryVars, Running
  <2>2. spare_actions_buf' \o enqueued_actions' = Append(spare_actions_buf \o enqueued_actions, a)
    BY <2>1, ScheduleAppends DEF TypeOK
  <2> QED BY <2>1, <2>2 DEF Service!Schedule, Running, ElementsOf
<1>4. ASSUME NEW r \in Registrants, CloseWithoutDeregistering(r) PROVE UNCHANGED Service!vars
  BY <1>4 DEF CloseWithoutDeregistering, loopVars, Service!vars, ElementsOf
<1>5. ASSUME ConstructThrows \/ DestructorThrows PROVE Service!Fail
  BY <1>5 DEF ConstructThrows, DestructorThrows, Service!Fail
<1> QED
  BY <1>1, <1>2, <1>3, <1>4, <1>5 DEF UserOperation, Service!Next

LEMMA ThreadService ==
  ASSUME IInv, UserReturns \/ LoopStep \/ epoll_wait_error
  PROVE  [Service!Next]_(Service!vars)
<1> USE DEF IInv
<1>1. ASSUME UserReturns \/ BeginStep \/ epoll_wait \/ EndStep PROVE UNCHANGED Service!vars
  <2>1. Running /\ Running' /\ UNCHANGED <<registrants, spare_actions_buf, enqueued_actions>>
    BY <1>1 DEF UserReturns, InUserCode, BeginStep, epoll_wait, EndStep, loopVars,
                registryVars, Running
  <2> QED BY <2>1 DEF Service!vars, ElementsOf, Running
<1>2. ASSUME StopLoop PROVE Service!Stop
  <2>1. /\ pc = "main" /\ pc' = "stopped" /\ registrants = <<>> /\ enqueued_actions = <<>>
        /\ UNCHANGED <<registrants, spare_actions_buf, enqueued_actions>>
    BY <1>2 DEF StopLoop, has_stuff_to_do, loopVars, registryVars
  <2>2. ElementsOf(registrants) = {} /\ spare_actions_buf \o enqueued_actions = <<>>
    BY <2>1, EmptySeq, ConcatEmptySeq DEF StepInv, ElementsOf
  <2> QED BY <2>1, <2>2 DEF Service!Stop, ElementsOf
<1>3. ASSUME on_update PROVE UNCHANGED Service!vars \/ Service!Fail
  <2>1. /\ pc = "wakeups" /\ pc' \in {"callback", "undefined"}
        /\ UNCHANGED <<registrants, spare_actions_buf, enqueued_actions>>
    BY <1>3 DEF on_update, loopVars, registryVars
  <2> QED BY <2>1 DEF Service!vars, Service!Fail, ElementsOf
<1>4. ASSUME SwapActions PROVE UNCHANGED Service!vars
  <2>1. /\ pc = "wakeups" /\ pc' = "actions" /\ UNCHANGED registrants
        /\ spare_actions_buf' = enqueued_actions /\ enqueued_actions' = spare_actions_buf
    BY <1>4 DEF SwapActions, registryVars
  <2>2. UNCHANGED (spare_actions_buf \o enqueued_actions)
    BY <2>1, ConcatEmptySeq DEF StepInv, TypeOK
  <2> QED BY <2>1, <2>2 DEF Service!vars, ElementsOf
<1>5. ASSUME RunAction PROVE Service!RunOldest
  <2>1. /\ pc = "actions" /\ pc' = "action" /\ spare_actions_buf # <<>>
        /\ spare_actions_buf' = Tail(spare_actions_buf)
        /\ UNCHANGED <<registrants, enqueued_actions>>
    BY <1>5 DEF RunAction, registryVars
  <2>2. /\ spare_actions_buf \o enqueued_actions # <<>>
        /\ spare_actions_buf' \o enqueued_actions' = Tail(spare_actions_buf \o enqueued_actions)
    BY <2>1, RunsOldest DEF TypeOK
  <2> QED BY <2>1, <2>2 DEF Service!RunOldest, ElementsOf
<1>6. ASSUME epoll_wait_error PROVE Service!Fail
  BY <1>6 DEF epoll_wait_error, Service!Fail
<1> QED
  BY <1>1, <1>2, <1>3, <1>4, <1>5, <1>6 DEF LoopStep, Service!Next

\* The loop does what LoopService promises, for any number of registrants and
\* actions: every scheduled action leaves the queue once, in the order of the
\* calls of schedule(), and the loop stops with nothing left to do.
THEOREM ImplementsService == Spec => ImplementsLoopService
<1>1. IInv /\ [Next]_vars => [Service!Next]_(Service!vars)
  <2> SUFFICES ASSUME IInv, [Next]_vars PROVE [Service!Next]_(Service!vars)
    OBVIOUS
  <2>1. ASSUME (\E r \in Registrants : Edge(r)) \/ UNCHANGED vars PROVE UNCHANGED Service!vars
    BY <2>1 DEF Edge, vars, loopVars, registryVars, Service!vars, ElementsOf
  <2> QED BY <2>1, UserService, ThreadService DEF Next, Finished
<1> QED
  BY <1>1, InitService, InductiveInvariant, PTL DEF Spec, ImplementsLoopService, Service!Spec
=============================================================================
