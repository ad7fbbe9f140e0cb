--------------------------- MODULE CircuitBreaker ---------------------------
(***************************************************************************)
(* The circuit breaker of one provider (provider/circuit_breaker.go) as    *)
(* functions of its state: each method is one critical section.            *)
(*                                                                         *)
(* A breaker is [state, failures, age].  age is the time since lastFailure *)
(* in ticks, saturating one tick past the cooldown.  It is Never while     *)
(* lastFailure is zero, and again in a closed breaker without failures,    *)
(* whose lastFailure no method can tell from zero.  failures saturates at  *)
(* the threshold: the methods only compare it with the threshold.          *)
(***************************************************************************)
EXTENDS Integers

CONSTANTS Threshold,   \* failureThreshold
          Cooldown     \* cooldown, in ticks

ASSUME BreakerBounds == Threshold \in Nat \ {0} /\ Cooldown \in Nat \ {0}

Never == -1

Breakers == [state : {"closed", "open", "halfopen"},
             failures : 0 .. Threshold,
             age : Never .. Cooldown + 1]

NewBreaker == [state |-> "closed", failures |-> 0, age |-> Never]

(* Time passes for a breaker.                                              *)
Aged(b) == IF b.age = Never \/ b.age > Cooldown THEN b
                                                ELSE [b EXCEPT !.age = @ + 1]

(* Allow: a closed breaker lets everyone pass; an open one lets one probe  *)
(* pass once the cooldown has elapsed; a half-open one nobody.             *)
Allows(b) == b.state = "closed" \/ (b.state = "open" /\ b.age >= Cooldown)
AfterAllow(b) == IF b.state = "open" /\ Allows(b)
                   THEN [b EXCEPT !.state = "halfopen"] ELSE b

(* RecordSuccess: a late success does not close an open breaker.           *)
AfterSuccessAnyState(b) == NewBreaker                       \* mutant
AfterSuccessKeepsCount(b) ==                                \* mutant
  [b EXCEPT !.state = IF @ = "halfopen" THEN "closed" ELSE @]
AfterSuccess(b) ==
  IF b.state = "open" THEN [b EXCEPT !.failures = 0] ELSE NewBreaker

(* RecordFailure: old failures decay, then this one counts; a failed probe *)
(* reopens, and a closed breaker trips at the threshold.                   *)
Decayed(b) == IF b.age > Cooldown THEN 0 ELSE b.failures
AfterFailure(b) ==
  LET count == IF Decayed(b) < Threshold THEN Decayed(b) + 1 ELSE Threshold
  IN [state |-> IF b.state = "halfopen" \/ count >= Threshold THEN "open"
                                                              ELSE b.state,
      failures |-> count,
      age |-> 0]
=============================================================================
