--------------------------- MODULE RouteExecution ---------------------------
(***************************************************************************)
(* Routing and execution of requests by the router (provider/router.go,    *)
(* router_score.go, route_plan.go): scoring asks every provider's circuit  *)
(* breaker, the plan's fallback chain is walked on infrastructure errors,  *)
(* every provider call is bracketed by a slot permit, results are recorded *)
(* on the breakers and the sticky route.                                   *)
(*                                                                         *)
(* One model per provider stands for its key.  Scores are abstract: any    *)
(* order of the executable candidates may come out of the sort.  A chat    *)
(* call is a stream whose chunks reach the caller's callback; a call that  *)
(* delivers no chunk behaves as the non-streaming and embed variants.      *)
(***************************************************************************)
EXTENDS CircuitBreaker, Sequences, FiniteSets

CONSTANTS Providers,      \* routed providers
          Requests,       \* concurrent requests
          Slots,          \* capacity of every provider's admission gate
          MaxFallbacks,   \* defaultOpts.maxFallbacks
          NoProvider,     \* no sticky entry
          Affinities,     \* whether requests carry an affinity key
          Callback        \* what the caller's stream function may return

ASSUME FiniteProviders == IsFiniteSet(Providers)
ASSUME RouteBounds == /\ NoProvider \notin Providers
                      /\ Slots \in Nat \ {0} /\ MaxFallbacks \in Nat
                      /\ Affinities \subseteq BOOLEAN
                      /\ "none" \in Callback
                      /\ Callback \subseteq {"none", "plain", "net"}

VARIABLES
  breaker,   \* one circuit breaker per provider
  sticky,    \* the cached route of the affinity key the requests share
  permits,   \* the admission gates: permits[p] = requests inside p
  rq         \* the state of each request

vars == <<breaker, sticky, permits, rq>>

(* Per request: pc; affine, it has an affinity key and is not a dry run;   *)
(* todo, the candidates not scored yet; fit, the executable ones; plan and *)
(* i, the attempt being made; delivered, done and cb, the closure state of *)
(* the stream callback; err, the error of the attempt; served, whether     *)
(* each attempt so far succeeded; shown, the providers whose visible       *)
(* content reached the caller (history).                                   *)
Idle == [pc |-> "idle", affine |-> FALSE, todo |-> {}, fit |-> {},
         plan |-> <<>>, i |-> 0, delivered |-> FALSE, done |-> FALSE,
         cb |-> "none", err |-> "none", served |-> <<>>, shown |-> {}]

(* infra: IsInfrastructureError holds; other: any other error of the       *)
(* provider, a cancelled context included; callback: what the caller's     *)
(* function returned, of kind cb.                                          *)
Errors == {"none", "infra", "other", "callback"}

Planned == {"put", "acquire", "call", "judge", "drop"}

RequestStates ==
  [pc : {"idle", "score"} \cup Planned, affine : BOOLEAN,
   todo : SUBSET Providers, fit : SUBSET Providers,
   plan : Seq(Providers), i : Nat, delivered : BOOLEAN, done : BOOLEAN,
   cb : Callback, err : Errors, served : Seq(BOOLEAN),
   shown : SUBSET Providers]

(* Types; a request with a plan is at one of the plan's attempts.          *)
TypeOK ==
  /\ breaker \in [Providers -> Breakers]
  /\ sticky \in Providers \cup {NoProvider}
  /\ permits \in [Providers -> SUBSET Requests]
  /\ rq \in [Requests -> RequestStates]
  /\ \A r \in Requests :
       rq[r].pc \in Planned => rq[r].i \in 1 .. Len(rq[r].plan)

Set(r, rec) == rq' = [rq EXCEPT ![r] = rec]
Key(r) == rq[r].plan[rq[r].i]

Init ==
  /\ breaker = [p \in Providers |-> NewBreaker]
  /\ sticky = NoProvider
  /\ permits = [p \in Providers |-> {}]
  /\ rq = [r \in Requests |-> Idle]

-----------------------------------------------------------------------------
(* Route is called: the closed and mismatch checks, candidate resolution.  *)
Begin(r, affine) ==
  /\ rq[r].pc = "idle"
  /\ Set(r, [Idle EXCEPT !.pc = "score", !.affine = affine,
                         !.todo = Providers])
  /\ UNCHANGED <<breaker, sticky, permits>>

(* scoreAll on one candidate.  The RAM and capability gates come before    *)
(* Allow, the budget decision does not stop it: a candidate that then does *)
(* not fit, loses, or has no registered provider (which counts as not      *)
(* fitting here) has used up the probe.                                    *)
Gated(r, p) ==
  /\ rq[r].pc = "score" /\ p \in rq[r].todo
  /\ Set(r, [rq[r] EXCEPT !.todo = @ \ {p}])
  /\ UNCHANGED <<breaker, sticky, permits>>

Score(r, p, budgetOK) ==
  /\ rq[r].pc = "score" /\ p \in rq[r].todo
  /\ breaker' = [breaker EXCEPT ![p] = AfterAllow(@)]
  /\ Set(r, [rq[r] EXCEPT
       !.todo = @ \ {p},
       !.fit = IF Allows(breaker[p]) /\ budgetOK THEN @ \cup {p} ELSE @])
  /\ UNCHANGED <<sticky, permits>>

(* No executable candidate: ErrAllBreakersOpen, ErrBudgetExceeded or a     *)
(* truncatable plan that Execute refuses; nothing is contacted.            *)
NoCandidate(r) ==
  /\ rq[r].pc = "score" /\ rq[r].todo = {} /\ rq[r].fit = {}
  /\ Set(r, Idle)
  /\ UNCHANGED <<breaker, sticky, permits>>

(* The sorted executable candidates, cut after MaxFallbacks fallbacks.     *)
Orders(S) == {s \in [1 .. Cardinality(S) -> S] :
                \A a, b \in DOMAIN s : s[a] = s[b] => a = b}
Cut(s) == SubSeq(s, 1, IF Len(s) > MaxFallbacks + 1 THEN MaxFallbacks + 1
                                                     ELSE Len(s))

(* The sticky incumbent is moved to the front if it is among the           *)
(* executable candidates, unless the challenger beats it by the hysteresis *)
(* margin.                                                                 *)
ToFront(k, s) ==
  [j \in 1 .. Len(s) |-> IF j = 1 THEN s[k]
                         ELSE IF j <= k THEN s[j - 1] ELSE s[j]]
AfterStickyUnchecked(r, s) ==                               \* mutant
  {s} \cup {<<p>> \o s : p \in {sticky} \ {NoProvider}}
AfterSticky(r, s) ==
  {s} \cup {ToFront(k, s) : k \in {j \in 1 .. Len(s) :
                                     rq[r].affine /\ s[j] = sticky}}

(* Sort, apply the sticky route, build the plan.                           *)
MakePlan(r) ==
  /\ rq[r].pc = "score" /\ rq[r].todo = {} /\ rq[r].fit # {}
  /\ \E s \in Orders(rq[r].fit) : \E plan \in AfterSticky(r, s) :
       Set(r, [rq[r] EXCEPT !.pc = "put", !.fit = {}, !.plan = Cut(plan),
                            !.i = 1])
  /\ UNCHANGED <<breaker, sticky, permits>>

(* The sticky cache is updated with the winner, in a critical section of   *)
(* its own.                                                                *)
PutSticky(r) ==
  /\ rq[r].pc = "put"
  /\ sticky' = IF rq[r].affine THEN rq[r].plan[1] ELSE sticky
  /\ Set(r, [rq[r] EXCEPT !.pc = "acquire"])
  /\ UNCHANGED <<breaker, permits>>

(* A dry run, or a caller that never executes the plan it got.             *)
Abandon(r) ==
  /\ rq[r].pc = "acquire" /\ rq[r].i = 1
  /\ Set(r, Idle)
  /\ UNCHANGED <<breaker, sticky, permits>>

-----------------------------------------------------------------------------
(* The request is over: the deferred releases run.                         *)
Leave(r) ==
  /\ permits' = [p \in Providers |-> permits[p] \ {r}]
  /\ Set(r, Idle)

(* bindDestination and acquireFor precede every provider call.  A denied   *)
(* destination, a cancelled context or a closed router ends the request:   *)
(* on a fallback, what earlier attempts recorded stands.                   *)
Refuse(r) ==
  /\ rq[r].pc = "acquire"
  /\ Leave(r)
  /\ UNCHANGED <<breaker, sticky>>

Acquire(r) ==
  /\ rq[r].pc = "acquire"
  /\ Cardinality(permits[Key(r)]) < Slots
  /\ permits' = [permits EXCEPT ![Key(r)] = @ \cup {r}]
  /\ Set(r, [rq[r] EXCEPT !.pc = "call", !.delivered = FALSE, !.cb = "none",
                          !.err = "none"])
  /\ UNCHANGED <<breaker, sticky>>

(* One chunk passes through the wrapped callback: visible content marks    *)
(* the request as delivered before the caller's function runs; a terminal  *)
(* chunk the callback accepts finalises the attempt, and is the last one   *)
(* the providers send.                                                     *)
Chunk(r, visible, final, result) ==
  /\ rq[r].pc = "call" /\ rq[r].cb = "none" /\ ~rq[r].done
  /\ visible \/ final \/ result # "none"
  /\ Set(r, [rq[r] EXCEPT
       !.delivered = @ \/ visible,
       !.shown = IF visible THEN @ \cup {Key(r)} ELSE @,
       !.cb = result,
       !.done = @ \/ (final /\ result = "none")])
  /\ UNCHANGED <<breaker, sticky, permits>>

(* The error the Execute method goes on with: an accepted terminal chunk   *)
(* is authoritative over a later transport error, not over a later         *)
(* callback error.                                                         *)
Effective(r, err) == IF rq[r].done /\ err # "callback" THEN "none" ELSE err

(* The status of the appended attempt, succeeded or not.                   *)
Served(r, err) == rq[r].done \/ err = "none"

(* The explicit release right after the provider call.                     *)
ReleasedAtReturn(r) == permits      \* mutant: only the deferred release
Released(r) == [permits EXCEPT ![Key(r)] = @ \ {r}]

(* The provider call returns: release, append the attempt.  After a        *)
(* callback error the providers return it, or the context's error.         *)
Return(r, err) ==
  /\ rq[r].pc = "call"
  /\ err \in IF rq[r].cb # "none" THEN {"callback", "other"}
                                  ELSE Errors \ {"callback"}
  /\ permits' = Released(r)
  /\ Set(r, [rq[r] EXCEPT !.pc = "judge", !.err = Effective(r, err),
                          !.done = FALSE,
                          !.served = Append(@, Served(r, err))])
  /\ UNCHANGED <<breaker, sticky>>

(* IsInfrastructureError of the error in hand.  An error the callback      *)
(* returned is classified like any other: a failed write to the client is  *)
(* a network error.                                                        *)
IsInfra(r) == \/ rq[r].err = "infra"
              \/ rq[r].err = "callback" /\ rq[r].cb = "net"

(* Whether the walk goes on to the next fallback.                          *)
MayAlwaysFallBack(r) == rq[r].i < Len(rq[r].plan)           \* mutant
MayFallBack(r) == ~rq[r].delivered /\ rq[r].i < Len(rq[r].plan)

(* After the call: an infrastructure error is recorded on the breaker,     *)
(* then the provider's sticky routes are dropped and the walk goes on.     *)
JudgeInfra(r) ==
  /\ rq[r].pc = "judge" /\ IsInfra(r)
  /\ breaker' = [breaker EXCEPT ![Key(r)] = AfterFailure(@)]
  /\ Set(r, [rq[r] EXCEPT !.pc = "drop"])
  /\ UNCHANGED <<sticky, permits>>

DropSticky(r) ==
  /\ rq[r].pc = "drop"
  /\ sticky' = IF sticky = Key(r) THEN NoProvider ELSE sticky
  /\ \/ /\ MayFallBack(r)
        /\ Set(r, [rq[r] EXCEPT !.pc = "acquire", !.i = @ + 1])
        /\ UNCHANGED permits
     \/ ~MayFallBack(r) /\ Leave(r)
  /\ UNCHANGED breaker

(* recordResult: success is recorded for the last attempt's key, any other *)
(* result that is not an infrastructure error leaves the breaker alone.    *)
Finish(r) ==
  /\ rq[r].pc = "judge" /\ ~IsInfra(r)
  /\ breaker' = IF rq[r].err = "none"
                  THEN [breaker EXCEPT ![Key(r)] = AfterSuccess(@)]
                  ELSE breaker
  /\ Leave(r)
  /\ UNCHANGED sticky

-----------------------------------------------------------------------------
(* The environment: time passes; the sticky entry expires or is evicted.   *)
Tick ==
  /\ \E p \in Providers : breaker[p] # Aged(breaker[p])
  /\ breaker' = [p \in Providers |-> Aged(breaker[p])]
  /\ UNCHANGED <<sticky, permits, rq>>

StickyExpires ==
  /\ sticky # NoProvider /\ sticky' = NoProvider
  /\ UNCHANGED <<breaker, permits, rq>>

RouteStep(r) ==
  \/ \E p \in Providers : Gated(r, p)
  \/ \E p \in Providers, budgetOK \in BOOLEAN : Score(r, p, budgetOK)
  \/ NoCandidate(r) \/ MakePlan(r) \/ PutSticky(r)

ExecuteStep(r) ==
  \/ Acquire(r) \/ JudgeInfra(r) \/ DropSticky(r) \/ Finish(r)
  \/ \E err \in Errors : Return(r, err)

Next ==
  \/ \E r \in Requests :
       \/ \E affine \in Affinities : Begin(r, affine)
       \/ RouteStep(r) \/ ExecuteStep(r) \/ Abandon(r) \/ Refuse(r)
       \/ \E visible, final \in BOOLEAN, result \in Callback :
            Chunk(r, visible, final, result)
  \/ Tick \/ StickyExpires

Spec == Init /\ [][Next]_vars

(* Requests that have begun keep running and provider calls return; no     *)
(* request has to begin, no context has to end.                            *)
FairSpec == Spec /\ \A r \in Requests : WF_vars(RouteStep(r) \/ ExecuteStep(r))

(* Time passes, and requests that every provider could serve keep coming.  *)
BusySpec ==
  /\ FairSpec
  /\ WF_vars(Tick)
  /\ \A r \in Requests :
       /\ WF_vars(\E affine \in Affinities : Begin(r, affine))
       /\ \A p \in Providers : SF_vars(Score(r, p, TRUE))

-----------------------------------------------------------------------------
(* A breaker that lets everyone pass is below its threshold: no order of   *)
(* late successes, probes and decaying failures leaves a closed breaker    *)
(* that should have tripped.                                               *)
ClosedBelowThreshold ==
  \A p \in Providers :
    breaker[p].state = "closed" => breaker[p].failures < Threshold

(* A late success of a call made before the trip does not close an open    *)
(* breaker: recovery goes through a half-open probe.                       *)
OpenNeverJumpsToClosed ==
  [][\A p \in Providers :
       breaker[p].state = "open" => breaker'[p].state # "closed"]_vars

(* The sticky incumbent never brings back a provider that this request's   *)
(* scoring ruled out: only candidates the breaker allowed are planned.     *)
OnlyAllowedPlanned ==
  [][\A r \in Requests :
       rq[r].plan = <<>> =>
         \A j \in DOMAIN rq'[r].plan : rq'[r].plan[j] \in rq[r].fit]_vars

(* The caller never sees an answer spliced from two providers: after       *)
(* visible content no fallback delivers more.                              *)
NoSplicedAnswer == \A r \in Requests : Cardinality(rq[r].shown) <= 1

(* An attempt that succeeded ends the walk, even if the transport fails    *)
(* after the accepted terminal chunk.                                      *)
SuccessEndsWalk ==
  \A r \in Requests : \A j \in DOMAIN rq[r].served :
    rq[r].served[j] => j = Len(rq[r].served)

(* The caller's answer comes whole from one attempt, or is cut short.      *)
AnswerIsWhole == NoSplicedAnswer /\ SuccessEndsWalk

(* Release before fallback acquire: a request that waits for a permit      *)
(* holds none, so requests with opposite chains cannot deadlock.           *)
NoHoldAndWait ==
  \A r \in Requests :
    rq[r].pc = "acquire" => \A p \in Providers : r \notin permits[p]

(* Every permit that is taken is eventually given back.                    *)
PermitsReturn ==
  \A r \in Requests, p \in Providers :
    r \in permits[p] ~> r \notin permits[p]

(* The granted probe is eventually recorded, one way or the other.         *)
HalfOpenResolves ==
  \A p \in Providers :
    breaker[p].state = "halfopen" ~> breaker[p].state # "halfopen"

(* An error of the caller's own callback is never recorded as a failure of *)
(* the provider.                                                           *)
CallbackAbortNotBlamed ==
  [][\A r \in Requests :
       rq[r].pc = "judge" /\ rq[r].err = "callback" /\ rq'[r].pc # "judge"
         => breaker' = breaker]_vars
=============================================================================
