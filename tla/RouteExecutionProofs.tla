------------------------ MODULE RouteExecutionProofs ------------------------
(***************************************************************************)
(* Proofs about RouteExecution for any number of providers and requests,   *)
(* any capacity, threshold, cooldown and length of the fallback chain.     *)
(***************************************************************************)
EXTENDS RouteExecution, FiniteSetTheorems, TLAPS

-----------------------------------------------------------------------------
(* The methods of the circuit breaker keep its type, keep a closed breaker *)
(* below its threshold, and none of them closes an open breaker.           *)
Sound(b) == b \in Breakers /\ (b.state = "closed" => b.failures < Threshold)

MethodResults(b) == {b, Aged(b), AfterAllow(b), AfterSuccess(b), AfterFailure(b)}

LEMMA MethodsSound ==
  ASSUME NEW b, Sound(b), NEW c \in MethodResults(b)
  PROVE  Sound(c) /\ (b.state = "open" => c.state # "closed")
<1>1. Sound(b) /\ (b.state = "open" => b.state # "closed")
  OBVIOUS
<1>2. Sound(Aged(b)) /\ (b.state = "open" => Aged(b).state # "closed")
  BY BreakerBounds DEF Sound, Breakers, Aged, Never
<1>3. Sound(AfterAllow(b)) /\ (b.state = "open" => AfterAllow(b).state # "closed")
  BY BreakerBounds DEF Sound, Breakers, AfterAllow, Allows, Never
<1>4. Sound(AfterSuccess(b))
      /\ (b.state = "open" => AfterSuccess(b).state # "closed")
  BY BreakerBounds DEF Sound, Breakers, AfterSuccess, NewBreaker, Never
<1>5. Sound(AfterFailure(b))
      /\ (b.state = "open" => AfterFailure(b).state # "closed")
  BY BreakerBounds DEF Sound, Breakers, AfterFailure, Decayed, Never
<1> QED  BY <1>1, <1>2, <1>3, <1>4, <1>5 DEF MethodResults

LEMMA MethodsTyped ==
  ASSUME NEW b \in Breakers, NEW c \in MethodResults(b)
  PROVE  c \in Breakers
<1>1. Aged(b) \in Breakers
  BY BreakerBounds DEF Breakers, Aged, Never
<1>2. AfterAllow(b) \in Breakers
  BY BreakerBounds DEF Breakers, AfterAllow, Allows, Never
<1>3. AfterSuccess(b) \in Breakers
  BY BreakerBounds DEF Breakers, AfterSuccess, NewBreaker, Never
<1>4. AfterFailure(b) \in Breakers
  BY BreakerBounds DEF Breakers, AfterFailure, Decayed, Never
<1> QED  BY <1>1, <1>2, <1>3, <1>4 DEF MethodResults

(* Whatever a step does, it leaves each breaker where one method call, or  *)
(* the passing of time, takes it.                                          *)
LEMMA BreakerStep ==
  ASSUME breaker \in [Providers -> Breakers], [Next]_vars
  PROVE  /\ breaker' = [p \in Providers |-> breaker'[p]]
         /\ \A p \in Providers : breaker'[p] \in MethodResults(breaker[p])
<1> USE DEF MethodResults
<1>1. CASE breaker' = breaker
  BY <1>1
<1>2. CASE Tick
  BY <1>2 DEF Tick
<1>3. ASSUME NEW r \in Requests, NEW p \in Providers, NEW budgetOK \in BOOLEAN,
             Score(r, p, budgetOK)
      PROVE  breaker' = [breaker EXCEPT ![p] = AfterAllow(@)]
  BY <1>3 DEF Score
<1>4. ASSUME NEW r \in Requests, JudgeInfra(r)
      PROVE  breaker' = [breaker EXCEPT ![Key(r)] = AfterFailure(@)]
  BY <1>4 DEF JudgeInfra
<1>5. ASSUME NEW r \in Requests, Finish(r)
      PROVE  \/ breaker' = breaker
             \/ breaker' = [breaker EXCEPT ![Key(r)] = AfterSuccess(@)]
  BY <1>5 DEF Finish
<1>6. CASE \E r \in Requests, p \in Providers, budgetOK \in BOOLEAN :
             Score(r, p, budgetOK)
  BY <1>3, <1>6
<1>7. CASE \E r \in Requests : JudgeInfra(r)
  BY <1>4, <1>7
<1>8. CASE \E r \in Requests : Finish(r)
  BY <1>5, <1>8
<1>9. \/ breaker' = breaker \/ Tick
      \/ \E r \in Requests, p \in Providers, budgetOK \in BOOLEAN :
           Score(r, p, budgetOK)
      \/ \E r \in Requests : JudgeInfra(r)
      \/ \E r \in Requests : Finish(r)
  BY Zenon DEF Next, vars, RouteStep, ExecuteStep, Begin, Gated, NoCandidate,
     MakePlan, PutSticky, Abandon, Refuse, Acquire, Chunk, Return, DropSticky,
     StickyExpires
<1> QED  BY <1>1, <1>2, <1>6, <1>7, <1>8, <1>9

AllSound == /\ breaker \in [Providers -> Breakers]
            /\ ClosedBelowThreshold

LEMMA SoundStep ==
  ASSUME AllSound, [Next]_vars
  PROVE  /\ AllSound'
         /\ \A p \in Providers :
              breaker[p].state = "open" => breaker'[p].state # "closed"
<1>1. \A p \in Providers : breaker'[p] \in MethodResults(breaker[p])
  BY BreakerStep DEF AllSound
<1>2. \A p \in Providers : Sound(breaker[p])
  BY DEF AllSound, ClosedBelowThreshold, Sound
<1>3. \A p \in Providers :
        Sound(breaker'[p])
        /\ (breaker[p].state = "open" => breaker'[p].state # "closed")
  BY <1>1, <1>2, MethodsSound
<1>4. breaker' = [p \in Providers |-> breaker'[p]]
  BY BreakerStep DEF AllSound
<1> QED  BY <1>3, <1>4 DEF AllSound, ClosedBelowThreshold, Sound

LEMMA AllSoundAlways == Spec => []AllSound
<1>1. Init => AllSound
  BY BreakerBounds
  DEF Init, AllSound, ClosedBelowThreshold, NewBreaker, Breakers, Never
<1>2. AllSound /\ [Next]_vars => AllSound'
  BY SoundStep
<1> QED  BY <1>1, <1>2, PTL DEF Spec

(* A closed breaker is always below its threshold.                         *)
THEOREM BreakersTrip == Spec => []ClosedBelowThreshold
<1>1. AllSound => ClosedBelowThreshold
  BY DEF AllSound
<1> QED  BY <1>1, AllSoundAlways, PTL

(* No call that completes late closes an open breaker.                     *)
THEOREM RecoveryNeedsProbe == Spec => OpenNeverJumpsToClosed
<1>1. AllSound /\ [Next]_vars =>
        [\A p \in Providers :
           breaker[p].state = "open" => breaker'[p].state # "closed"]_vars
  BY SoundStep
<1> QED  BY <1>1, AllSoundAlways, PTL DEF Spec, OpenNeverJumpsToClosed
-----------------------------------------------------------------------------
(* Type correctness.  Placed is what a step leaves of one request.         *)
Placed(rec) ==
  /\ rec \in RequestStates
  /\ rec.pc \in Planned => rec.i \in 1 .. Len(rec.plan)

LEMMA IdlePlaced == Placed(Idle)
BY RouteBounds DEF Placed, Idle, RequestStates, Planned, Errors

LEMMA SetPlaced ==
  ASSUME TypeOK, NEW r \in Requests, NEW rec, Placed(rec), Set(r, rec)
  PROVE  /\ rq' \in [Requests -> RequestStates]
         /\ \A q \in Requests :
              rq'[q].pc \in Planned => rq'[q].i \in 1 .. Len(rq'[q].plan)
BY DEF TypeOK, Placed, Set

(* Any order of the executable candidates, with the incumbent moved to the *)
(* front or not and cut to the fallbacks, is a non-empty plan made of      *)
(* these candidates alone.                                                 *)
LEMMA OrdersAreSeqs ==
  ASSUME NEW S \in SUBSET Providers, S # {}, NEW s \in Orders(S)
  PROVE  s \in Seq(S) /\ Len(s) >= 1
<1>1. IsFiniteSet(S)
  BY FiniteProviders, FS_Subset
<1>2. Cardinality(S) \in Nat /\ Cardinality(S) # 0
  BY <1>1, FS_CardinalityType, FS_EmptySet
<1>3. s \in [1 .. Cardinality(S) -> S]
  BY DEF Orders
<1> QED  BY <1>2, <1>3

LEMMA StickyKeepsSeq ==
  ASSUME NEW r \in Requests, NEW S, NEW s \in Seq(S), Len(s) >= 1,
         NEW plan \in AfterSticky(r, s)
  PROVE  plan \in Seq(S) /\ Len(plan) >= 1
<1>1. CASE plan = s
  BY <1>1
<1>2. ASSUME NEW k \in 1 .. Len(s), plan = ToFront(k, s)
      PROVE  plan \in Seq(S) /\ Len(plan) >= 1
  <2>1. Len(s) \in Nat /\ \A j \in 1 .. Len(s) : s[j] \in S
    OBVIOUS
  <2>2. plan \in [1 .. Len(s) -> S]
    BY <1>2, <2>1 DEF ToFront
  <2> QED  BY <2>1, <2>2
<1> QED  BY <1>1, <1>2 DEF AfterSticky

LEMMA CutIsSeq ==
  ASSUME NEW S, NEW s \in Seq(S), Len(s) >= 1
  PROVE  Cut(s) \in Seq(S) /\ 1 \in 1 .. Len(Cut(s))
BY RouteBounds DEF Cut

LEMMA PlanMadeOf ==
  ASSUME NEW r \in Requests, NEW S \in SUBSET Providers, S # {},
         NEW s \in Orders(S), NEW plan \in AfterSticky(r, s)
  PROVE  Cut(plan) \in Seq(S) /\ 1 \in 1 .. Len(Cut(plan))
<1>1. s \in Seq(S) /\ Len(s) >= 1
  BY OrdersAreSeqs
<1>2. plan \in Seq(S) /\ Len(plan) >= 1
  BY <1>1, StickyKeepsSeq
<1> QED  BY <1>2, CutIsSeq

(* A request with a plan names a provider.                                 *)
LEMMA KeyType ==
  ASSUME TypeOK, NEW r \in Requests, rq[r].pc \in Planned
  PROVE  Key(r) \in Providers /\ rq[r].plan[1] \in Providers
<1>1. rq[r].plan \in Seq(Providers) /\ rq[r].i \in 1 .. Len(rq[r].plan)
  BY DEF TypeOK, RequestStates
<1> QED  BY <1>1 DEF Key

(* The requests after a step: one action per step.                         *)
LEMMA RequestsStep ==
  ASSUME TypeOK, [Next]_vars
  PROVE  /\ rq' \in [Requests -> RequestStates]
         /\ \A q \in Requests :
              rq'[q].pc \in Planned => rq'[q].i \in 1 .. Len(rq'[q].plan)
<1> DEFINE Goal == /\ rq' \in [Requests -> RequestStates]
                   /\ \A q \in Requests :
                        rq'[q].pc \in Planned =>
                          rq'[q].i \in 1 .. Len(rq'[q].plan)
<1> SUFFICES Goal  OBVIOUS
<1> USE DEF Planned
<1>0. CASE UNCHANGED rq
  BY <1>0 DEF TypeOK
<1>1. ASSUME NEW r \in Requests, NEW affine \in Affinities, Begin(r, affine)
      PROVE  Goal
  <2>1. affine \in BOOLEAN
    BY RouteBounds
  <2>2. Idle \in RequestStates /\ Idle.pc = "idle"
    BY IdlePlaced DEF Placed, Idle
  <2>3. Placed([Idle EXCEPT !.pc = "score", !.affine = affine,
                            !.todo = Providers])
    BY <2>1, <2>2 DEF Placed, RequestStates
  <2> QED  BY <1>1, <2>3, SetPlaced DEF Begin
<1>2. ASSUME NEW r \in Requests, NEW p \in Providers, Gated(r, p)
      PROVE  Goal
  <2>1. Placed([rq[r] EXCEPT !.todo = @ \ {p}])
    BY <1>2 DEF Gated, TypeOK, Placed, RequestStates
  <2> QED  BY <1>2, <2>1, SetPlaced DEF Gated
<1>3. ASSUME NEW r \in Requests, NEW p \in Providers,
             NEW budgetOK \in BOOLEAN, Score(r, p, budgetOK)
      PROVE  Goal
  <2> DEFINE fit == IF Allows(breaker[p]) /\ budgetOK THEN rq[r].fit \cup {p}
                                                      ELSE rq[r].fit
  <2>1. fit \in SUBSET Providers
    BY DEF TypeOK, RequestStates
  <2>2. Placed([rq[r] EXCEPT !.todo = @ \ {p}, !.fit = fit])
    <3> HIDE DEF fit
    <3> QED  BY <1>3, <2>1 DEF Score, TypeOK, Placed, RequestStates
  <2> QED  BY <1>3, <2>2, SetPlaced DEF Score
<1>4. ASSUME NEW r \in Requests, Set(r, Idle)
      PROVE  Goal
  BY <1>4, IdlePlaced, SetPlaced
<1>5. ASSUME NEW r \in Requests, MakePlan(r)
      PROVE  Goal
  <2>1. PICK s \in Orders(rq[r].fit) : \E plan \in AfterSticky(r, s) :
          Set(r, [rq[r] EXCEPT !.pc = "put", !.fit = {}, !.plan = Cut(plan),
                               !.i = 1])
    BY <1>5 DEF MakePlan
  <2>2. PICK plan \in AfterSticky(r, s) :
          Set(r, [rq[r] EXCEPT !.pc = "put", !.fit = {}, !.plan = Cut(plan),
                               !.i = 1])
    BY <2>1
  <2>3. rq[r].fit \in SUBSET Providers /\ rq[r].fit # {}
    BY <1>5 DEF MakePlan, TypeOK, RequestStates
  <2>4. Cut(plan) \in Seq(Providers) /\ 1 \in 1 .. Len(Cut(plan))
    <3>1. Cut(plan) \in Seq(rq[r].fit) /\ 1 \in 1 .. Len(Cut(plan))
      BY <2>3, PlanMadeOf
    <3>2. Seq(rq[r].fit) \subseteq Seq(Providers)
      BY <2>3
    <3> QED  BY <3>1, <3>2
  <2>5. Placed([rq[r] EXCEPT !.pc = "put", !.fit = {}, !.plan = Cut(plan),
                             !.i = 1])
    BY <2>4 DEF TypeOK, Placed, RequestStates
  <2> QED  BY <2>2, <2>5, SetPlaced
<1>6. ASSUME NEW r \in Requests, PutSticky(r)
      PROVE  Goal
  <2>1. Placed([rq[r] EXCEPT !.pc = "acquire"])
    BY <1>6 DEF PutSticky, TypeOK, Placed, RequestStates
  <2> QED  BY <1>6, <2>1, SetPlaced DEF PutSticky
<1>7. ASSUME NEW r \in Requests, Acquire(r)
      PROVE  Goal
  <2>1. "none" \in Callback /\ "none" \in Errors
    BY RouteBounds DEF Errors
  <2>2. rq[r] \in RequestStates /\ rq[r].i \in 1 .. Len(rq[r].plan)
    BY <1>7 DEF Acquire, TypeOK
  <2>3. Placed([rq[r] EXCEPT !.pc = "call", !.delivered = FALSE,
                             !.cb = "none", !.err = "none"])
    BY <2>1, <2>2 DEF Placed, RequestStates
  <2> QED  BY <1>7, <2>3, SetPlaced DEF Acquire
<1>8. ASSUME NEW r \in Requests, NEW visible \in BOOLEAN,
             NEW final \in BOOLEAN, NEW result \in Callback,
             Chunk(r, visible, final, result)
      PROVE  Goal
  <2> DEFINE shown == IF visible THEN rq[r].shown \cup {Key(r)} ELSE rq[r].shown
             delivered == rq[r].delivered \/ visible
             done == rq[r].done \/ (final /\ result = "none")
  <2>1. shown \in SUBSET Providers
    BY <1>8, KeyType DEF Chunk, TypeOK, RequestStates
  <2>2. delivered \in BOOLEAN /\ done \in BOOLEAN
    OBVIOUS
  <2>3. Placed([rq[r] EXCEPT !.delivered = delivered, !.shown = shown,
                             !.cb = result, !.done = done])
    <3> HIDE DEF shown, delivered, done
    <3> QED  BY <1>8, <2>1, <2>2 DEF Chunk, TypeOK, Placed, RequestStates
  <2> QED  BY <1>8, <2>3, SetPlaced DEF Chunk
<1>9. ASSUME NEW r \in Requests, NEW err \in Errors, Return(r, err)
      PROVE  Goal
  <2>1. Served(r, err) \in BOOLEAN /\ Effective(r, err) \in Errors
    BY DEF Served, Effective, Errors
  <2>2. Append(rq[r].served, Served(r, err)) \in Seq(BOOLEAN)
    BY <2>1 DEF TypeOK, RequestStates
  <2>3. Placed([rq[r] EXCEPT !.pc = "judge", !.err = Effective(r, err),
                 !.done = FALSE, !.served = Append(@, Served(r, err))])
    BY <1>9, <2>1, <2>2 DEF Return, TypeOK, Placed, RequestStates
  <2> QED  BY <1>9, <2>3, SetPlaced DEF Return
<1>10. ASSUME NEW r \in Requests, JudgeInfra(r)
       PROVE  Goal
  <2>1. Placed([rq[r] EXCEPT !.pc = "drop"])
    BY <1>10 DEF JudgeInfra, TypeOK, Placed, RequestStates
  <2> QED  BY <1>10, <2>1, SetPlaced DEF JudgeInfra
<1>11. ASSUME NEW r \in Requests, DropSticky(r)
       PROVE  Goal
  <2>1. CASE Set(r, Idle)
    BY <1>4, <2>1
  <2>2. CASE MayFallBack(r)
             /\ Set(r, [rq[r] EXCEPT !.pc = "acquire", !.i = @ + 1])
    <3>1. rq[r] \in RequestStates /\ rq[r].i + 1 \in 1 .. Len(rq[r].plan)
      BY <1>11, <2>2 DEF DropSticky, MayFallBack, TypeOK, RequestStates
    <3>2. rq[r].i + 1 \in Nat
      BY <3>1
    <3>3. Placed([rq[r] EXCEPT !.pc = "acquire", !.i = @ + 1])
      BY <3>1, <3>2 DEF Placed, RequestStates
    <3> QED  BY <2>2, <3>3, SetPlaced
  <2> QED  BY <1>11, <2>1, <2>2 DEF DropSticky, Leave
<1> HIDE DEF Goal
<1>12. CASE Next
  <2>1. CASE Tick \/ StickyExpires
    BY <1>0, <2>1 DEF Tick, StickyExpires
  <2>2. ASSUME NEW r \in Requests,
               NoCandidate(r) \/ Abandon(r) \/ Refuse(r) \/ Finish(r)
        PROVE  Goal
    BY <1>4, <2>2 DEF NoCandidate, Abandon, Refuse, Finish, Leave
  <2>3. ASSUME NEW r \in Requests, RouteStep(r)
        PROVE  Goal
    BY <1>2, <1>3, <1>5, <1>6, <2>2, <2>3 DEF RouteStep
  <2>4. ASSUME NEW r \in Requests, ExecuteStep(r)
        PROVE  Goal
    BY <1>7, <1>9, <1>10, <1>11, <2>2, <2>4 DEF ExecuteStep
  <2> QED  BY <1>1, <1>8, <1>12, <2>1, <2>2, <2>3, <2>4 DEF Next
<1> QED  BY <1>0, <1>12 DEF vars

LEMMA TypeStep == ASSUME TypeOK, [Next]_vars PROVE TypeOK'
<1>1. breaker' \in [Providers -> Breakers]
  <2>1. \A p \in Providers : breaker'[p] \in Breakers
    <3>1. \A p \in Providers : breaker'[p] \in MethodResults(breaker[p])
      BY BreakerStep DEF TypeOK
    <3> QED  BY <3>1, MethodsTyped DEF TypeOK
  <2> QED  BY <2>1, BreakerStep DEF TypeOK
<1>2. sticky' \in Providers \cup {NoProvider}
  <2>1. ASSUME NEW r \in Requests, PutSticky(r)
        PROVE  sticky' \in Providers \cup {NoProvider}
    BY <2>1, KeyType DEF PutSticky, TypeOK, Planned
  <2>2. ASSUME NEW r \in Requests, DropSticky(r)
        PROVE  sticky' \in Providers \cup {NoProvider}
    BY <2>2 DEF DropSticky, TypeOK
  <2>3. CASE UNCHANGED sticky \/ StickyExpires
    BY <2>3 DEF TypeOK, StickyExpires
  <2>4. \/ UNCHANGED sticky \/ StickyExpires
        \/ \E r \in Requests : PutSticky(r) \/ DropSticky(r)
    BY Zenon DEF Next, vars, RouteStep, ExecuteStep, Begin, Gated, Score,
       NoCandidate, MakePlan, Abandon, Refuse, Acquire, Chunk, Return,
       JudgeInfra, Finish, Tick
  <2> QED  BY <2>1, <2>2, <2>3, <2>4
<1>3. permits' \in [Providers -> SUBSET Requests]
  <2>1. ASSUME NEW r \in Requests, Acquire(r)
        PROVE  permits' \in [Providers -> SUBSET Requests]
    BY <2>1 DEF Acquire, TypeOK
  <2>2. ASSUME NEW r \in Requests, NEW err \in Errors, Return(r, err)
        PROVE  permits' \in [Providers -> SUBSET Requests]
    BY <2>2 DEF Return, Released, TypeOK
  <2>3. ASSUME NEW r \in Requests, Leave(r)
        PROVE  permits' \in [Providers -> SUBSET Requests]
    BY <2>3 DEF Leave, TypeOK
  <2>4. CASE UNCHANGED permits
    BY <2>4 DEF TypeOK
  <2>5. \/ UNCHANGED permits
        \/ \E r \in Requests : Acquire(r) \/ Leave(r)
        \/ \E r \in Requests, err \in Errors : Return(r, err)
    BY Zenon DEF Next, vars, RouteStep, ExecuteStep, Begin, Gated, Score,
       NoCandidate, MakePlan, PutSticky, Abandon, Refuse, Chunk, JudgeInfra,
       DropSticky, Finish, Tick, StickyExpires
  <2> QED  BY <2>1, <2>2, <2>3, <2>4, <2>5
<1> QED  BY <1>1, <1>2, <1>3, RequestsStep DEF TypeOK

(* The types are right, and no walk runs past the end of its plan.         *)
THEOREM TypeCorrect == Spec => []TypeOK
<1>1. Init => TypeOK
  <2>1. NewBreaker \in Breakers
    BY BreakerBounds DEF NewBreaker, Breakers, Never
  <2> QED  BY <2>1, IdlePlaced DEF Init, TypeOK, Placed
<1>2. TypeOK /\ [Next]_vars => TypeOK'
  BY TypeStep
<1> QED  BY <1>1, <1>2, PTL DEF Spec
-----------------------------------------------------------------------------
(* Release before fallback acquire.  What makes it inductive: a permit is  *)
(* held only during the provider call it was taken for.                    *)
HeldForCall(r) == \A p \in Providers :
                    r \in permits[p] => rq[r].pc = "call" /\ p = Key(r)

LEMMA HeldStep ==
  ASSUME TypeOK, \A r \in Requests : HeldForCall(r), [Next]_vars
  PROVE  \A q \in Requests : HeldForCall(q)'
<1> SUFFICES ASSUME NEW q \in Requests  PROVE HeldForCall(q)'
  OBVIOUS
<1>1. CASE UNCHANGED <<rq, permits>>
  BY <1>1 DEF HeldForCall, Key
<1>2. ASSUME NEW r \in Requests, NEW rec, Set(r, rec),
             UNCHANGED permits, rq[r].pc # "call"
      PROVE  HeldForCall(q)'
  BY <1>2 DEF Set, HeldForCall, Key, TypeOK
<1>3. ASSUME NEW r \in Requests, Leave(r)
      PROVE  HeldForCall(q)'
  BY <1>3 DEF Leave, Set, HeldForCall, Key, TypeOK
<1>4. ASSUME NEW r \in Requests, Acquire(r)
      PROVE  HeldForCall(q)'
  <2>1. rq[r] \in RequestStates
    BY DEF TypeOK
  <2>2. rq'[r].pc = "call" /\ Key(r)' = Key(r)
    BY <1>4, <2>1 DEF Acquire, Set, Key, RequestStates, TypeOK
  <2>3. q # r => rq'[q] = rq[q]
    BY <1>4 DEF Acquire, Set, TypeOK
  <2>4. \A p \in Providers : r \notin permits[p]
    BY <1>4 DEF Acquire, HeldForCall
  <2>5. permits' = [permits EXCEPT ![Key(r)] = @ \cup {r}]
    BY <1>4 DEF Acquire
  <2> QED  BY <2>2, <2>3, <2>4, <2>5 DEF HeldForCall, Key, TypeOK
<1>5. ASSUME NEW r \in Requests, NEW visible \in BOOLEAN,
             NEW final \in BOOLEAN, NEW result \in Callback,
             Chunk(r, visible, final, result)
      PROVE  HeldForCall(q)'
  <2>1. rq[r] \in RequestStates
    BY DEF TypeOK
  <2>2. rq'[r].pc = rq[r].pc /\ Key(r)' = Key(r)
    BY <1>5, <2>1 DEF Chunk, Set, Key, RequestStates, TypeOK
  <2>3. q # r => rq'[q] = rq[q]
    BY <1>5 DEF Chunk, Set, TypeOK
  <2> QED  BY <1>5, <2>2, <2>3 DEF Chunk, HeldForCall, Key
<1>6. ASSUME NEW r \in Requests, NEW err \in Errors, Return(r, err)
      PROVE  HeldForCall(q)'
  <2>1. \A p \in Providers : r \notin permits'[p]
    BY <1>6 DEF Return, Released, HeldForCall, TypeOK
  <2>2. q # r => rq'[q] = rq[q] /\ \A p \in Providers :
                                    q \in permits'[p] => q \in permits[p]
    BY <1>6 DEF Return, Released, Set, TypeOK
  <2> QED  BY <2>1, <2>2 DEF HeldForCall, Key
<1>7. CASE Next
  <2>1. CASE Tick \/ StickyExpires
    BY <1>1, <2>1 DEF Tick, StickyExpires
  <2>2. ASSUME NEW r \in Requests, RouteStep(r)
        PROVE  HeldForCall(q)'
    BY <1>2, <2>2
    DEF RouteStep, Gated, Score, NoCandidate, MakePlan, PutSticky
  <2>3. ASSUME NEW r \in Requests, ExecuteStep(r)
        PROVE  HeldForCall(q)'
    BY <1>2, <1>3, <1>4, <1>6, <2>3
    DEF ExecuteStep, JudgeInfra, DropSticky, Finish
  <2>4. ASSUME NEW r \in Requests, Abandon(r) \/ Refuse(r)
        PROVE  HeldForCall(q)'
    BY <1>2, <1>3, <2>4 DEF Abandon, Refuse
  <2>5. ASSUME NEW r \in Requests, NEW affine \in Affinities,
               Begin(r, affine)
        PROVE  HeldForCall(q)'
    BY <1>2, <2>5 DEF Begin
  <2> QED  BY <1>5, <1>7, <2>1, <2>2, <2>3, <2>4, <2>5 DEF Next
<1> QED  BY <1>1, <1>7 DEF vars

(* A request that waits for a permit holds none.                           *)
THEOREM WaitingHoldsNothing == Spec => []NoHoldAndWait
<1> DEFINE Inv == \A r \in Requests : HeldForCall(r)
<1>1. Init => Inv
  BY DEF Init, HeldForCall
<1>2. TypeOK /\ Inv /\ [Next]_vars => Inv'
  BY HeldStep
<1>3. Inv => NoHoldAndWait
  BY DEF HeldForCall, NoHoldAndWait
<1> QED  BY <1>1, <1>2, <1>3, TypeCorrect, PTL DEF Spec
-----------------------------------------------------------------------------
(* One answer.  What a step may leave of a request: only the attempt being *)
(* made has shown content, and only if it says it delivered; an accepted   *)
(* terminal chunk means no callback error; a successful attempt is the     *)
(* last one, is still to be judged, and is judged without an error.        *)
Whole(rec) ==
  /\ rec.pc \in {"call", "judge", "drop"} => rec.shown \subseteq {rec.plan[rec.i]}
  /\ rec.pc \in {"call", "judge", "drop"} /\ ~rec.delivered => rec.shown = {}
  /\ rec.pc \notin {"call", "judge", "drop"} => rec.shown = {}
  /\ rec.done => rec.pc = "call" /\ rec.cb = "none"
  /\ \A j \in DOMAIN rec.served :
       rec.served[j] => /\ j = Len(rec.served) /\ rec.pc = "judge"
                        /\ rec.err = "none"

WholeInv == TypeOK /\ \A r \in Requests : Whole(rq[r])

LEMMA IdleWhole == Whole(Idle)
BY DEF Whole, Idle

LEMMA SetWhole ==
  ASSUME WholeInv, NEW r \in Requests, NEW rec, Whole(rec), Set(r, rec)
  PROVE  \A q \in Requests : Whole(rq'[q])
BY DEF WholeInv, TypeOK, Set

LEMMA WholeStep ==
  ASSUME WholeInv, [Next]_vars
  PROVE  \A q \in Requests : Whole(rq'[q])
<1> DEFINE Goal == \A q \in Requests : Whole(rq'[q])
<1> SUFFICES Goal  OBVIOUS
<1>0. CASE UNCHANGED rq
  BY <1>0 DEF WholeInv
<1>R. ASSUME NEW r \in Requests
      PROVE  rq[r] \in RequestStates /\ Whole(rq[r])
  BY DEF WholeInv, TypeOK
<1>1. ASSUME NEW r \in Requests, NEW affine \in Affinities, Begin(r, affine)
      PROVE  Goal
  <2>1. Whole([Idle EXCEPT !.pc = "score", !.affine = affine,
                           !.todo = Providers])
    BY DEF Whole, Idle
  <2> QED  BY <1>1, <2>1, SetWhole DEF Begin
<1>2. ASSUME NEW r \in Requests, NEW p \in Providers, Gated(r, p)
      PROVE  Goal
  <2>1. Whole([rq[r] EXCEPT !.todo = @ \ {p}])
    BY <1>R DEF Whole, RequestStates
  <2> QED  BY <1>2, <2>1, SetWhole DEF Gated
<1>3. ASSUME NEW r \in Requests, NEW p \in Providers,
             NEW budgetOK \in BOOLEAN, Score(r, p, budgetOK)
      PROVE  Goal
  <2> DEFINE fit == IF Allows(breaker[p]) /\ budgetOK THEN rq[r].fit \cup {p}
                                                      ELSE rq[r].fit
  <2>1. Whole([rq[r] EXCEPT !.todo = @ \ {p}, !.fit = fit])
    <3> HIDE DEF fit
    <3> QED  BY <1>R DEF Whole, RequestStates
  <2> QED  BY <1>3, <2>1, SetWhole DEF Score
<1>4. ASSUME NEW r \in Requests, Set(r, Idle)
      PROVE  Goal
  BY <1>4, IdleWhole, SetWhole
<1>5. ASSUME NEW r \in Requests, MakePlan(r)
      PROVE  Goal
  <2>1. PICK plan : Set(r, [rq[r] EXCEPT !.pc = "put", !.fit = {},
                                         !.plan = Cut(plan), !.i = 1])
    BY <1>5 DEF MakePlan
  <2>2. Whole([rq[r] EXCEPT !.pc = "put", !.fit = {}, !.plan = Cut(plan),
                            !.i = 1])
    BY <1>5, <1>R DEF MakePlan, Whole, RequestStates
  <2> QED  BY <2>1, <2>2, SetWhole
<1>6. ASSUME NEW r \in Requests, PutSticky(r)
      PROVE  Goal
  <2>1. Whole([rq[r] EXCEPT !.pc = "acquire"])
    BY <1>6, <1>R DEF PutSticky, Whole, RequestStates
  <2> QED  BY <1>6, <2>1, SetWhole DEF PutSticky
<1>7. ASSUME NEW r \in Requests, Acquire(r)
      PROVE  Goal
  <2>1. Whole([rq[r] EXCEPT !.pc = "call", !.delivered = FALSE,
                            !.cb = "none", !.err = "none"])
    BY <1>7, <1>R DEF Acquire, Whole, RequestStates
  <2> QED  BY <1>7, <2>1, SetWhole DEF Acquire
<1>8. ASSUME NEW r \in Requests, NEW visible \in BOOLEAN,
             NEW final \in BOOLEAN, NEW result \in Callback,
             Chunk(r, visible, final, result)
      PROVE  Goal
  <2> DEFINE shown == IF visible THEN rq[r].shown \cup {Key(r)} ELSE rq[r].shown
             delivered == rq[r].delivered \/ visible
             done == rq[r].done \/ (final /\ result = "none")
  <2>1. /\ shown \subseteq {rq[r].plan[rq[r].i]}
        /\ ~delivered => shown = {}
        /\ done => result = "none"
    BY <1>8, <1>R DEF Chunk, Key, Whole
  <2>2. Whole([rq[r] EXCEPT !.delivered = delivered, !.shown = shown,
                            !.cb = result, !.done = done])
    <3>1. rq[r].pc = "call"
      BY <1>8 DEF Chunk
    <3> HIDE DEF shown, delivered, done
    <3> QED  BY <1>R, <2>1, <3>1 DEF Whole, RequestStates
  <2> QED  BY <1>8, <2>2, SetWhole DEF Chunk
<1>9. ASSUME NEW r \in Requests, NEW err \in Errors, Return(r, err)
      PROVE  Goal
  <2> DEFINE srv == Append(rq[r].served, Served(r, err))
             eff == Effective(r, err)
  <2>1. Served(r, err) => eff = "none"
    BY <1>9, <1>R DEF Return, Served, Effective, Whole
  <2>2. \A j \in DOMAIN rq[r].served : ~rq[r].served[j]
    BY <1>9, <1>R DEF Return, Whole
  <2>3. \A j \in DOMAIN srv : srv[j] => j = Len(srv) /\ eff = "none"
    <3>1. rq[r].served \in Seq(BOOLEAN)
      BY <1>R DEF RequestStates
    <3> HIDE DEF eff
    <3> QED  BY <2>1, <2>2, <3>1
  <2>4. Whole([rq[r] EXCEPT !.pc = "judge", !.err = eff, !.done = FALSE,
                            !.served = srv])
    <3>1. rq[r].pc = "call"
      BY <1>9 DEF Return
    <3> HIDE DEF srv, eff
    <3> QED  BY <1>R, <2>3, <3>1 DEF Whole, RequestStates
  <2> QED  BY <1>9, <2>4, SetWhole DEF Return
<1>10. ASSUME NEW r \in Requests, JudgeInfra(r)
       PROVE  Goal
  <2>1. rq[r].err # "none" /\ rq[r].pc = "judge"
    BY <1>10 DEF JudgeInfra, IsInfra
  <2>2. Whole([rq[r] EXCEPT !.pc = "drop"])
    BY <1>R, <2>1 DEF Whole, RequestStates
  <2> QED  BY <1>10, <2>2, SetWhole DEF JudgeInfra
<1>11. ASSUME NEW r \in Requests, DropSticky(r)
       PROVE  Goal
  <2>1. CASE Set(r, Idle)
    BY <1>4, <2>1
  <2>2. CASE MayFallBack(r)
             /\ Set(r, [rq[r] EXCEPT !.pc = "acquire", !.i = @ + 1])
    <3>1. rq[r].pc = "drop" /\ ~rq[r].delivered
      BY <1>11, <2>2 DEF DropSticky, MayFallBack
    <3>2. Whole([rq[r] EXCEPT !.pc = "acquire", !.i = @ + 1])
      BY <1>R, <3>1 DEF Whole, RequestStates
    <3> QED  BY <2>2, <3>2, SetWhole
  <2> QED  BY <1>11, <2>1, <2>2 DEF DropSticky, Leave
<1> HIDE DEF Goal
<1>12. CASE Next
  <2>1. CASE Tick \/ StickyExpires
    BY <1>0, <2>1 DEF Tick, StickyExpires
  <2>2. ASSUME NEW r \in Requests,
               NoCandidate(r) \/ Abandon(r) \/ Refuse(r) \/ Finish(r)
        PROVE  Goal
    BY <1>4, <2>2 DEF NoCandidate, Abandon, Refuse, Finish, Leave
  <2>3. ASSUME NEW r \in Requests, RouteStep(r)
        PROVE  Goal
    BY <1>2, <1>3, <1>5, <1>6, <2>2, <2>3 DEF RouteStep
  <2>4. ASSUME NEW r \in Requests, ExecuteStep(r)
        PROVE  Goal
    BY <1>7, <1>9, <1>10, <1>11, <2>2, <2>4 DEF ExecuteStep
  <2> QED  BY <1>1, <1>8, <1>12, <2>1, <2>2, <2>3, <2>4 DEF Next
<1> QED  BY <1>0, <1>12 DEF vars

(* However the walk goes, the caller's answer comes from one provider, and *)
(* a successful attempt is the last: no fallback speaks after visible      *)
(* content, no transport error after an accepted terminal chunk starts     *)
(* another attempt.                                                        *)
THEOREM AnswerFromOneAttempt == Spec => []AnswerIsWhole
<1>1. Init => \A r \in Requests : Whole(rq[r])
  BY IdleWhole DEF Init
<1>2. TypeOK /\ (\A r \in Requests : Whole(rq[r])) /\ [Next]_vars
        => (\A r \in Requests : Whole(rq[r]))'
  BY WholeStep DEF WholeInv
<1>3. TypeOK /\ (\A r \in Requests : Whole(rq[r])) => AnswerIsWhole
  <2> SUFFICES ASSUME TypeOK, \A r \in Requests : Whole(rq[r])
               PROVE  NoSplicedAnswer /\ SuccessEndsWalk
    BY DEF AnswerIsWhole
  <2>1. ASSUME NEW r \in Requests
        PROVE  Cardinality(rq[r].shown) <= 1
    <3>1. PICK p : rq[r].shown \subseteq {p}
      BY DEF Whole
    <3>2. rq[r].shown = {} \/ rq[r].shown = {p}
      BY <3>1
    <3>3. CASE rq[r].shown = {}
      BY <3>3, FS_EmptySet
    <3>4. CASE rq[r].shown = {p}
      BY <3>4, FS_Singleton
    <3> QED  BY <3>2, <3>3, <3>4
  <2>2. SuccessEndsWalk
    BY DEF SuccessEndsWalk, Whole
  <2> QED  BY <2>1, <2>2 DEF NoSplicedAnswer
<1> QED  BY <1>1, <1>2, <1>3, TypeCorrect, PTL DEF Spec
-----------------------------------------------------------------------------
(* Whatever a step does to a request but making its plan, it keeps the     *)
(* plan or ends the request.                                               *)
LEMMA PlanKept ==
  ASSUME TypeOK, [Next]_vars, NEW q \in Requests, ~MakePlan(q)
  PROVE  rq'[q].plan \in {rq[q].plan, <<>>}
<1> DEFINE Goal == rq'[q].plan \in {rq[q].plan, <<>>}
<1> SUFFICES Goal  OBVIOUS
<1>0. CASE UNCHANGED rq
  BY <1>0
<1>1. ASSUME NEW r \in Requests, NEW rec, Set(r, rec),
             r # q \/ rec.plan \in {rq[q].plan, <<>>}
      PROVE  Goal
  BY <1>1 DEF Set, TypeOK
<1>R. ASSUME NEW r \in Requests PROVE rq[r] \in RequestStates
  BY DEF TypeOK
<1>2. ASSUME NEW r \in Requests, NEW affine \in Affinities, Begin(r, affine)
      PROVE  Goal
  <2>1. [Idle EXCEPT !.pc = "score", !.affine = affine,
                     !.todo = Providers].plan = <<>>
    BY DEF Idle
  <2> QED  BY <1>1, <1>2, <2>1 DEF Begin
<1>3. ASSUME NEW r \in Requests, NEW p \in Providers, Gated(r, p)
      PROVE  Goal
  <2>1. [rq[r] EXCEPT !.todo = @ \ {p}].plan = rq[r].plan
    BY <1>R DEF RequestStates
  <2> QED  BY <1>1, <1>3, <2>1 DEF Gated
<1>4. ASSUME NEW r \in Requests, NEW p \in Providers,
             NEW budgetOK \in BOOLEAN, Score(r, p, budgetOK)
      PROVE  Goal
  <2>1. [rq[r] EXCEPT
          !.todo = @ \ {p},
          !.fit = IF Allows(breaker[p]) /\ budgetOK THEN @ \cup {p}
                                                    ELSE @].plan = rq[r].plan
    BY <1>R DEF RequestStates
  <2> QED  BY <1>1, <1>4, <2>1 DEF Score
<1>5. ASSUME NEW r \in Requests, Set(r, Idle)
      PROVE  Goal
  <2>1. Idle.plan = <<>>
    BY DEF Idle
  <2> QED  BY <1>1, <1>5, <2>1
<1>6. ASSUME NEW r \in Requests, MakePlan(r)
      PROVE  Goal
  <2>1. r # q
    BY <1>6
  <2> QED  BY <1>1, <1>6, <2>1 DEF MakePlan
<1>7. ASSUME NEW r \in Requests, PutSticky(r) \/ JudgeInfra(r)
      PROVE  Goal
  <2>1. ASSUME NEW pc PROVE [rq[r] EXCEPT !.pc = pc].plan = rq[r].plan
    BY <1>R DEF RequestStates
  <2> QED  BY <1>1, <1>7, <2>1 DEF PutSticky, JudgeInfra
<1>8. ASSUME NEW r \in Requests, Acquire(r)
      PROVE  Goal
  <2>1. [rq[r] EXCEPT !.pc = "call", !.delivered = FALSE, !.cb = "none",
                      !.err = "none"].plan = rq[r].plan
    BY <1>R DEF RequestStates
  <2> QED  BY <1>1, <1>8, <2>1 DEF Acquire
<1>9. ASSUME NEW r \in Requests, NEW visible \in BOOLEAN,
             NEW final \in BOOLEAN, NEW result \in Callback,
             Chunk(r, visible, final, result)
      PROVE  Goal
  <2>1. [rq[r] EXCEPT
          !.delivered = @ \/ visible,
          !.shown = IF visible THEN @ \cup {Key(r)} ELSE @,
          !.cb = result,
          !.done = @ \/ (final /\ result = "none")].plan = rq[r].plan
    BY <1>R DEF RequestStates
  <2> QED  BY <1>1, <1>9, <2>1 DEF Chunk
<1>10. ASSUME NEW r \in Requests, NEW err \in Errors, Return(r, err)
       PROVE  Goal
  <2>1. [rq[r] EXCEPT !.pc = "judge", !.err = Effective(r, err),
                      !.done = FALSE,
                      !.served = Append(@, Served(r, err))].plan = rq[r].plan
    BY <1>R DEF RequestStates
  <2> QED  BY <1>1, <1>10, <2>1 DEF Return
<1>11. ASSUME NEW r \in Requests, DropSticky(r)
       PROVE  Goal
  <2>1. [rq[r] EXCEPT !.pc = "acquire", !.i = @ + 1].plan = rq[r].plan
    BY <1>R DEF RequestStates
  <2>2. CASE Set(r, Idle)
    BY <1>5, <2>2
  <2>3. CASE Set(r, [rq[r] EXCEPT !.pc = "acquire", !.i = @ + 1])
    BY <1>1, <2>1, <2>3
  <2> QED  BY <1>11, <2>2, <2>3 DEF DropSticky, Leave
<1> HIDE DEF Goal
<1>12. CASE Next
  <2>1. CASE Tick \/ StickyExpires
    BY <1>0, <2>1 DEF Tick, StickyExpires, Goal
  <2>2. ASSUME NEW r \in Requests,
               NoCandidate(r) \/ Abandon(r) \/ Refuse(r) \/ Finish(r)
        PROVE  Goal
    BY <1>5, <2>2 DEF NoCandidate, Abandon, Refuse, Finish, Leave
  <2>3. ASSUME NEW r \in Requests, RouteStep(r)
        PROVE  Goal
    BY <1>3, <1>4, <1>6, <1>7, <2>2, <2>3 DEF RouteStep
  <2>4. ASSUME NEW r \in Requests, ExecuteStep(r)
        PROVE  Goal
    BY <1>7, <1>8, <1>10, <1>11, <2>2, <2>4 DEF ExecuteStep
  <2> QED  BY <1>2, <1>9, <1>12, <2>1, <2>2, <2>3, <2>4 DEF Next
<1> QED  BY <1>0, <1>12 DEF vars

(* Whatever incumbent the shared sticky cache holds by then, a request     *)
(* plans only providers its own scoring let through.                       *)
THEOREM OnlyScoredArePlanned == Spec => OnlyAllowedPlanned
<1> DEFINE Act == \A r \in Requests :
                    rq[r].plan = <<>> =>
                      \A j \in DOMAIN rq'[r].plan : rq'[r].plan[j] \in rq[r].fit
<1>1. ASSUME TypeOK, [Next]_vars  PROVE Act
  <2> SUFFICES ASSUME NEW r \in Requests, rq[r].plan = <<>>,
                      NEW j \in DOMAIN rq'[r].plan
               PROVE  rq'[r].plan[j] \in rq[r].fit
    OBVIOUS
  <2>1. CASE MakePlan(r)
    <3>1. PICK s \in Orders(rq[r].fit) : \E plan \in AfterSticky(r, s) :
            Set(r, [rq[r] EXCEPT !.pc = "put", !.fit = {}, !.plan = Cut(plan),
                                 !.i = 1])
      BY <2>1 DEF MakePlan
    <3>2. PICK plan \in AfterSticky(r, s) :
            Set(r, [rq[r] EXCEPT !.pc = "put", !.fit = {}, !.plan = Cut(plan),
                                 !.i = 1])
      BY <3>1
    <3>3. rq[r].fit \in SUBSET Providers /\ rq[r].fit # {}
      BY <1>1, <2>1 DEF MakePlan, TypeOK, RequestStates
    <3>4. Cut(plan) \in Seq(rq[r].fit)
      BY <3>3, PlanMadeOf
    <3>5. rq'[r].plan = Cut(plan)
      BY <1>1, <3>2 DEF Set, TypeOK, RequestStates
    <3> QED  BY <3>4, <3>5
  <2>2. CASE ~MakePlan(r)
    <3>1. rq'[r].plan = <<>>
      BY <1>1, <2>2, PlanKept
    <3> QED  BY <3>1
  <2> QED  BY <2>1, <2>2
<1>2. TypeOK /\ [Next]_vars => [Act]_vars
  BY <1>1
<1> QED  BY <1>2, TypeCorrect, PTL DEF Spec, OnlyAllowedPlanned
=============================================================================
