----------------------------- MODULE PermitPool -----------------------------
(***************************************************************************)
(* What the admission gate promises to the code that executes route plans  *)
(* (the slotAdmitter contract of provider/admission.go): per key, a        *)
(* bounded set of callers holds a permit; a caller holds at most one       *)
(* permit; a permit is given back exactly once.                            *)
(***************************************************************************)
EXTENDS Integers, FiniteSets

CONSTANTS Callers, Keys, MaxCap

VARIABLE permits   \* permits[k]: the callers that hold a permit of k

PoolInit == permits = [k \in Keys |-> {}]

(* acquireSlot returns a permit of k to c.                                 *)
Grant(c, k) ==
  /\ \A j \in Keys : c \notin permits[j]
  /\ Cardinality(permits[k]) < MaxCap
  /\ permits' = [permits EXCEPT ![k] = @ \cup {c}]

(* The first call of the release closure.                                  *)
GiveBack(c, k) ==
  /\ c \in permits[k]
  /\ permits' = [permits EXCEPT ![k] = @ \ {c}]

PoolNext == \E c \in Callers, k \in Keys : Grant(c, k) \/ GiveBack(c, k)

PoolSpec == PoolInit /\ [][PoolNext]_permits
=============================================================================
