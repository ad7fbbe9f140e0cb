---------------------------- MODULE EmbedFlight ----------------------------
(***************************************************************************)
(* Embedding calls that share one backend request                          *)
(* (provider/openaicompat/openaicompat.go, embed).  Concurrent calls for   *)
(* the same texts join one flight of a singleflight group; its leader      *)
(* takes one admission permit on a context that no caller can cancel, and  *)
(* every caller leaves when the flight lands or its own context ends.  A   *)
(* caller may reuse its input slice while the call is under way.           *)
(***************************************************************************)
EXTENDS Integers, FiniteSets

CONSTANTS EfCallers,
          Texts,        \* what an input slice may hold
          EfCapacity,   \* permits of the backend
          EfMaxFlights  \* bound: flights ever started

ASSUME EfBounds == EfCapacity \in Nat \ {0} /\ EfMaxFlights \in Nat

ASSUME TextsAssumption == Texts \cap {"none", "failed", "closed", "canceled"} = {}

Flights == 1..EfMaxFlights

NotBegun == [state |-> "none", key |-> "none", leader |-> "none", members |-> {}]

NoCall == [at |-> "idle", asked |-> "none", answer |-> "none"]

VARIABLES
  efFlight,     \* per flight: none, queued, requesting or landed; its key, leader and callers
  efCall,       \* per caller: where it is, what it asked for, what it got
  efSlice,      \* per caller: what its input slice holds now
  efCancelled,  \* callers whose context has ended
  efClosed      \* the router is closed

efVars == <<efFlight, efCall, efSlice, efCancelled, efClosed>>

EfInit ==
  /\ efFlight = [f \in Flights |-> NotBegun]
  /\ efCall = [c \in EfCallers |-> NoCall]
  /\ efSlice \in [EfCallers -> Texts]
  /\ efCancelled = {} /\ efClosed = FALSE

Open(k) == {f \in Flights : efFlight[f].state \in {"queued", "requesting"} /\ efFlight[f].key = k}

-----------------------------------------------------------------------------

\* embed freezes the input and computes the key; DoChan joins the flight in the
\* group or starts one with this caller as its leader.
Embed(c) ==
  /\ efCall[c].at = "idle"
  /\ LET k == efSlice[c]
     IN  /\ efCall' = [efCall EXCEPT ![c] = [at |-> "waiting", asked |-> k, answer |-> "none"]]
         /\ \/ \E f \in Open(k) : efFlight' = [efFlight EXCEPT ![f].members = @ \cup {c}]
            \/ /\ Open(k) = {}
               /\ \E f \in Flights :
                    /\ efFlight[f].state = "none" /\ \A g \in 1..(f - 1) : efFlight[g].state # "none"
                    /\ efFlight' = [efFlight EXCEPT ![f] =
                         [state |-> "queued", key |-> k, leader |-> c, members |-> {c}]]
  /\ UNCHANGED <<efSlice, efCancelled, efClosed>>

Requesting == {f \in Flights : efFlight[f].state = "requesting"}

\* admit grants a permit ...
AdmitFlight(f) ==
  /\ efFlight[f].state = "queued" /\ ~efClosed
  /\ Cardinality(Requesting) < EfCapacity
  /\ efFlight' = [efFlight EXCEPT ![f].state = "requesting"]
  /\ UNCHANGED <<efCall, efSlice, efCancelled, efClosed>>

\* The flight leaves the group and its result is sent to every caller that joined.
Land(f, result) ==
  /\ efFlight' = [efFlight EXCEPT ![f].state = "landed", ![f].members = {}]
  /\ efCall' = [c \in EfCallers |->
       IF c \in efFlight[f].members /\ efCall[c].at = "waiting"
       THEN [efCall[c] EXCEPT !.at = "answered", !.answer = result] ELSE efCall[c]]
  /\ UNCHANGED <<efSlice, efCancelled, efClosed>>

\* ... or fails because the router closes while the flight is queued.
FlightRejected(f) ==
  /\ efFlight[f].state = "queued" /\ efClosed
  /\ Land(f, "closed")

\* The request body is the input frozen with the key.
Body(f) == efFlight[f].key

\* mutant: the request runs on the leader's context
FailuresOfLeader(f) == {"failed"} \cup {"canceled" : c \in efCancelled \cap {efFlight[f].leader}}

\* The request runs on a context without cancellation.
Failures(f) == {"failed"}

\* The backend answers, or fails; the deferred release returns the permit.
Respond(f) ==
  /\ efFlight[f].state = "requesting"
  /\ \E result \in {Body(f)} \cup Failures(f) : Land(f, result)

\* The select of embed: the flight's result, or the caller's own context.
EmbedReturns(c) ==
  /\ \/ efCall[c].at = "answered" /\ efCall' = [efCall EXCEPT ![c].at = "returned"]
     \/ /\ efCall[c].at \in {"waiting", "answered"} /\ c \in efCancelled
        /\ efCall' = [efCall EXCEPT ![c].at = "returned", ![c].answer = "canceled"]
  /\ efFlight' = [f \in Flights |-> [efFlight[f] EXCEPT !.members = @ \ {c}]]
  /\ UNCHANGED <<efSlice, efCancelled, efClosed>>

\* The caller goes on, with a new context.
CallerContinues(c) ==
  /\ efCall[c].at = "returned"
  /\ efCall' = [efCall EXCEPT ![c] = NoCall]
  /\ efCancelled' = efCancelled \ {c}
  /\ UNCHANGED <<efFlight, efSlice, efClosed>>

CallerEnds(c) ==
  /\ c \notin efCancelled
  /\ efCancelled' = efCancelled \cup {c}
  /\ UNCHANGED <<efFlight, efCall, efSlice, efClosed>>

SliceReused(c, t) ==
  /\ efSlice[c] # t
  /\ efSlice' = [efSlice EXCEPT ![c] = t]
  /\ UNCHANGED <<efFlight, efCall, efCancelled, efClosed>>

RouterCloses ==
  /\ ~efClosed
  /\ efClosed' = TRUE
  /\ UNCHANGED <<efFlight, efCall, efSlice, efCancelled>>

EfNext ==
  \/ \E c \in EfCallers :
       \/ Embed(c) \/ EmbedReturns(c) \/ CallerContinues(c) \/ CallerEnds(c)
       \/ \E t \in Texts : SliceReused(c, t)
  \/ \E f \in Flights : AdmitFlight(f) \/ FlightRejected(f) \/ Respond(f)
  \/ RouterCloses

EfSpec == EfInit /\ [][EfNext]_efVars

-----------------------------------------------------------------------------
(* Properties *)

\* Sharing a flight is invisible: a caller gets the embedding of what it asked for,
\* whatever the leader or itself did to the slices since, and is told of a
\* cancellation only if its own context has ended.
EachCallItsOwn ==
  \A c \in EfCallers : efCall[c].at = "returned" =>
    /\ efCall[c].answer \in Texts => efCall[c].answer = efCall[c].asked
    /\ efCall[c].answer = "canceled" => c \in efCancelled
=============================================================================
