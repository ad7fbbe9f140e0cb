------------------------ MODULE SlotAdmissionProofs ------------------------
(***************************************************************************)
(* Proofs about the admission gate, for every set of callers and keys and  *)
(* every bound.                                                            *)
(***************************************************************************)
EXTENDS MCSlotAdmission, FiniteSetTheorems, TLAPS

(* Type correctness of the gate: in particular the clamped decrement keeps *)
(* every in-flight count a natural number and every capacity decided on is *)
(* at least 1.                                                             *)
THEOREM TypeCorrect == Spec => []TypeOK
<1>. USE Bounds DEF TypeOK, Locations, Capacities, Ungoverned
<1>1. Init => TypeOK
  <2>1. 1 \in 1 .. MaxCap
    OBVIOUS
  <2>2. Init => n \in [Callers -> 1 .. MaxCap]
    BY <2>1 DEF Init
  <2>3. Init => closed \in BOOLEAN
    BY DEF Init
  <2>. QED
    BY <2>2, <2>3 DEF Init
<1>2. TypeOK /\ [Next]_vars => TypeOK'
  <2>. SUFFICES ASSUME TypeOK, [Next]_vars PROVE TypeOK'
    OBVIOUS
  <2>. USE DEF Goto, env, tallies
  <2>1. ASSUME NEW c \in Callers, NEW k \in Keys, NEW dead \in BOOLEAN,
               Acquire(c, k, dead)
        PROVE  TypeOK'
    BY <2>1 DEF Acquire
  <2>2. ASSUME NEW c \in Callers, ReadCapacity(c) PROVE TypeOK'
    BY <2>2 DEF ReadCapacity, AtLeastOne
  <2>3. ASSUME NEW c \in Callers, Admit(c) PROVE TypeOK'
    BY <2>3 DEF Admit, Dequeued
  <2>4. ASSUME NEW c \in Callers, Park(c) PROVE TypeOK'
    BY <2>4 DEF Park
  <2>5. ASSUME NEW c \in Callers, SelectWake(c) PROVE TypeOK'
    BY <2>5 DEF SelectWake
  <2>6. ASSUME NEW c \in Callers, SelectTerminal(c) PROVE TypeOK'
    BY <2>6 DEF SelectTerminal
  <2>7. ASSUME NEW c \in Callers, Recheck(c) PROVE TypeOK'
    BY <2>7 DEF Recheck, AfterWake
  <2>8. ASSUME NEW c \in Callers, ExitWait(c) PROVE TypeOK'
    BY <2>8 DEF ExitWait
  <2>9. ASSUME NEW c \in Callers, Release(c) PROVE TypeOK'
    BY <2>9 DEF Release, ReleaseOnce, release, Broadcast
  <2>10. ASSUME NEW c \in Callers, Backstop(c) PROVE TypeOK'
    BY <2>10 DEF Backstop, ReleaseOnce, release, Broadcast
  <2>11. ASSUME NEW c \in Callers, NoopRelease(c) PROVE TypeOK'
    BY <2>11 DEF NoopRelease
  <2>12. ASSUME NEW k \in Keys, NEW v \in Capacities, CapacityChanges(k, v)
         PROVE  TypeOK'
    BY <2>12 DEF CapacityChanges
  <2>13. ASSUME NEW c \in Callers, Cancel(c) PROVE TypeOK'
    BY <2>13 DEF Cancel
  <2>14. CASE Close
    BY <2>14 DEF Close
  <2>15. CASE UNCHANGED vars
    BY <2>15 DEF vars
  <2>. QED
    BY <2>1, <2>2, <2>3, <2>4, <2>5, <2>6, <2>7, <2>8, <2>9, <2>10, <2>11,
       <2>12, <2>13, <2>14, <2>15 DEF Next, AcquireStep, ReleaseStep
<1>. QED
  BY <1>1, <1>2, PTL DEF Spec

-----------------------------------------------------------------------------
(* What a step does to the permits, and what it does to the backlog.       *)
Granted(c) ==
  /\ \A k \in Keys : c \notin Holders(k)
  /\ inflight[key[c]] < n[c]
  /\ inflight' = [inflight EXCEPT ![key[c]] = @ + 1]
  /\ \A k \in Keys :
       Holders(k)' = IF k = key[c] THEN Holders(k) \cup {c} ELSE Holders(k)

GivenBack(c) ==
  /\ c \in Holders(key[c])
  /\ inflight' = [inflight EXCEPT ![key[c]] = IF @ > 0 THEN @ - 1 ELSE @]
  /\ \A k \in Keys :
       Holders(k)' = IF k = key[c] THEN Holders(k) \ {c} ELSE Holders(k)

PermitsSame ==
  inflight' = inflight /\ \A k \in Keys : Holders(k)' = Holders(k)

Entered(c) ==
  /\ c \notin Backlog(key[c])
  /\ waiting' = [waiting EXCEPT ![key[c]] = @ + 1]
  /\ \A k \in Keys :
       Backlog(k)' = IF k = key[c] THEN Backlog(k) \cup {c} ELSE Backlog(k)

Left(c) ==
  /\ c \in Backlog(key[c])
  /\ waiting' = [waiting EXCEPT ![key[c]] = @ - 1]
  /\ \A k \in Keys :
       Backlog(k)' = IF k = key[c] THEN Backlog(k) \ {c} ELSE Backlog(k)

BacklogSame ==
  waiting' = waiting /\ \A k \in Keys : Backlog(k)' = Backlog(k)

(* A caller in the select or beyond it has blocked.                        *)
BlockedLocations ==
  \A c \in Callers :
    pc[c] \in {"parked", "recheck", "reject", "flip"} => c \in blocked

(* Every step grants one permit, gives one back, or touches none: the      *)
(* explicit release and the deferred backstop of one call give back one    *)
(* permit between them.                                                    *)
LEMMA PermitEffect ==
  ASSUME TypeOK, [Next]_vars
  PROVE  \/ \E c \in Callers : Granted(c)
         \/ \E c \in Callers : GivenBack(c)
         \/ PermitsSame
<1>. USE DEF TypeOK, Goto, env, tallies, Holders
<1>1. ASSUME NEW c \in Callers, Admit(c) PROVE Granted(c)
  BY <1>1 DEF Admit, HasRoom, Granted
<1>2. ASSUME NEW c \in Callers, Release(c) PROVE GivenBack(c)
  BY <1>2 DEF Release, ReleaseOnce, release, GivenBack
<1>3. ASSUME NEW c \in Callers, Backstop(c) PROVE GivenBack(c) \/ PermitsSame
  <2>1. CASE pc[c] = "held"
    BY <1>3, <2>1 DEF Backstop, ReleaseOnce, release, GivenBack
  <2>2. CASE pc[c] = "released"
    BY <1>3, <2>2 DEF Backstop, ReleaseOnce, PermitsSame
  <2>. QED
    BY <1>3, <2>1, <2>2 DEF Backstop
<1>4. ASSUME NEW c \in Callers, NEW k \in Keys, NEW dead \in BOOLEAN,
             Acquire(c, k, dead)
      PROVE  PermitsSame
  BY <1>4 DEF Acquire, PermitsSame
<1>5. ASSUME NEW c \in Callers, ReadCapacity(c) PROVE PermitsSame
  BY <1>5 DEF ReadCapacity, PermitsSame
<1>6. ASSUME NEW c \in Callers,
             Park(c) \/ SelectWake(c) \/ SelectTerminal(c)
      PROVE  PermitsSame
  BY <1>6 DEF Park, SelectWake, SelectTerminal, PermitsSame
<1>7. ASSUME NEW c \in Callers, Recheck(c) \/ ExitWait(c) \/ NoopRelease(c)
      PROVE  PermitsSame
  BY <1>7 DEF Recheck, AfterWake, ExitWait, NoopRelease, PermitsSame
<1>8. ASSUME NEW c \in Callers, Cancel(c) PROVE PermitsSame
  BY <1>8 DEF Cancel, PermitsSame
<1>9. ASSUME NEW k \in Keys, NEW v \in Capacities, CapacityChanges(k, v)
      PROVE  PermitsSame
  BY <1>9 DEF CapacityChanges, PermitsSame
<1>10. CASE Close \/ UNCHANGED vars
  BY <1>10 DEF Close, vars, PermitsSame
<1>. QED
  BY <1>1, <1>2, <1>3, <1>4, <1>5, <1>6, <1>7, <1>8, <1>9, <1>10
     DEF Next, AcquireStep, ReleaseStep

(* Every step lets one caller into a backlog, takes one out, or leaves     *)
(* every backlog and gauge alone.                                          *)
LEMMA BacklogEffect ==
  ASSUME TypeOK, BlockedLocations, [Next]_vars
  PROVE  \/ \E c \in Callers : Entered(c)
         \/ \E c \in Callers : Left(c)
         \/ BacklogSame
<1>. USE DEF TypeOK, Goto, env, tallies, Backlog
<1>1. ASSUME NEW c \in Callers, Admit(c) PROVE Left(c) \/ BacklogSame
  <2>1. CASE c \in blocked
    BY <1>1, <2>1 DEF Admit, Dequeued, Left
  <2>2. CASE c \notin blocked
    <3>1. waiting' = waiting
      BY <1>1, <2>2 DEF Admit, Dequeued
    <3>. QED
      BY <1>1, <2>2, <3>1 DEF Admit, BacklogSame
  <2>. QED
    BY <2>1, <2>2
<1>2. ASSUME NEW c \in Callers, Park(c) PROVE Entered(c) \/ BacklogSame
  BY <1>2 DEF Park, Entered, BacklogSame
<1>3. ASSUME NEW c \in Callers, ExitWait(c) PROVE Left(c)
  BY <1>3 DEF ExitWait, Left, BlockedLocations
<1>4. ASSUME NEW c \in Callers, NEW k \in Keys, NEW dead \in BOOLEAN,
             Acquire(c, k, dead)
      PROVE  BacklogSame
  BY <1>4 DEF Acquire, BacklogSame
<1>5. ASSUME NEW c \in Callers, ReadCapacity(c) PROVE BacklogSame
  BY <1>5 DEF ReadCapacity, BacklogSame
<1>6. ASSUME NEW c \in Callers, SelectWake(c) \/ SelectTerminal(c)
      PROVE  BacklogSame
  BY <1>6 DEF SelectWake, SelectTerminal, BacklogSame
<1>7. ASSUME NEW c \in Callers, Recheck(c) \/ NoopRelease(c)
      PROVE  BacklogSame
  BY <1>7 DEF Recheck, AfterWake, NoopRelease, BacklogSame
<1>8. ASSUME NEW c \in Callers, Release(c) \/ Backstop(c) \/ Cancel(c)
      PROVE  BacklogSame
  BY <1>8 DEF Release, Backstop, Cancel, BacklogSame
<1>9. ASSUME NEW k \in Keys, NEW v \in Capacities, CapacityChanges(k, v)
      PROVE  BacklogSame
  BY <1>9 DEF CapacityChanges, BacklogSame
<1>10. CASE Close \/ UNCHANGED vars
  BY <1>10 DEF Close, vars, BacklogSame
<1>. QED
  BY <1>1, <1>2, <1>3, <1>4, <1>5, <1>6, <1>7, <1>8, <1>9, <1>10
     DEF Next, AcquireStep, ReleaseStep

-----------------------------------------------------------------------------
(* Holders and backlogs are finite, so they can be counted.                *)
LEMMA FiniteGates ==
  ASSUME TypeOK, NEW k \in Keys
  PROVE  /\ IsFiniteSet(Holders(k)) /\ Cardinality(Holders(k)) \in Nat
         /\ IsFiniteSet(Backlog(k)) /\ Cardinality(Backlog(k)) \in Nat
<1>1. Holders(k) \subseteq Callers /\ Backlog(k) \subseteq Callers
  BY DEF Holders, Backlog, TypeOK
<1>. QED
  BY <1>1, FiniteCallers, FS_Subset, FS_CardinalityType

(* A caller in the select or past it keeps having blocked.                 *)
LEMMA BlockedStep ==
  ASSUME TypeOK, BlockedLocations, [Next]_vars
  PROVE  BlockedLocations'
<1>. USE DEF TypeOK, Goto, BlockedLocations
<1>1. ASSUME NEW c \in Callers, NEW k \in Keys, NEW dead \in BOOLEAN,
             Acquire(c, k, dead)
      PROVE  BlockedLocations'
  BY <1>1 DEF Acquire
<1>2. ASSUME NEW c \in Callers, ReadCapacity(c) \/ Admit(c) \/ Park(c)
      PROVE  BlockedLocations'
  BY <1>2 DEF ReadCapacity, Admit, Park
<1>3. ASSUME NEW c \in Callers, SelectWake(c) \/ SelectTerminal(c)
      PROVE  BlockedLocations'
  BY <1>3 DEF SelectWake, SelectTerminal
<1>4. ASSUME NEW c \in Callers, Recheck(c) \/ ExitWait(c)
      PROVE  BlockedLocations'
  BY <1>4 DEF Recheck, AfterWake, ExitWait
<1>5. ASSUME NEW c \in Callers, ReleaseStep(c) \/ Cancel(c)
      PROVE  BlockedLocations'
  BY <1>5 DEF ReleaseStep, Release, Backstop, NoopRelease, Cancel
<1>6. ASSUME NEW k \in Keys, NEW v \in Capacities, CapacityChanges(k, v)
      PROVE  BlockedLocations'
  BY <1>6 DEF CapacityChanges
<1>7. CASE Close \/ UNCHANGED vars
  BY <1>7 DEF Close, vars
<1>. QED
  BY <1>1, <1>2, <1>3, <1>4, <1>5, <1>6, <1>7 DEF Next, AcquireStep

(* The in-flight count follows the permits through every step.             *)
LEMMA AccountingStep ==
  ASSUME TypeOK, TypeOK', PermitAccounting, [Next]_vars
  PROVE  PermitAccounting'
<1>1. ASSUME NEW c \in Callers, Granted(c) PROVE PermitAccounting'
  <2>1. /\ IsFiniteSet(Holders(key[c]))
        /\ Cardinality(Holders(key[c]) \cup {c})
             = Cardinality(Holders(key[c])) + 1
    BY <1>1, FiniteGates, FS_AddElement DEF Granted, TypeOK
  <2>. QED
    BY <1>1, <2>1 DEF Granted, PermitAccounting, TypeOK
<1>2. ASSUME NEW c \in Callers, GivenBack(c) PROVE PermitAccounting'
  <2>1. /\ Cardinality(Holders(key[c])) \in Nat
        /\ Cardinality(Holders(key[c]) \ {c})
             = Cardinality(Holders(key[c])) - 1
    BY <1>2, FiniteGates, FS_RemoveElement DEF GivenBack, TypeOK
  <2>2. Cardinality(Holders(key[c])) > 0
    BY <1>2, <2>1, FiniteGates, FS_EmptySet DEF GivenBack, TypeOK
  <2>. QED
    BY <1>2, <2>1, <2>2 DEF GivenBack, PermitAccounting, TypeOK
<1>3. CASE PermitsSame
  BY <1>3 DEF PermitsSame, PermitAccounting
<1>. QED
  BY <1>1, <1>2, <1>3, PermitEffect

(* The backlog gauge follows the backlog through every step.               *)
LEMMA GaugeStep ==
  ASSUME TypeOK, TypeOK', BlockedLocations, WaitingGauge, [Next]_vars
  PROVE  WaitingGauge'
<1>1. ASSUME NEW c \in Callers, Entered(c) PROVE WaitingGauge'
  <2>1. Cardinality(Backlog(key[c]) \cup {c}) = Cardinality(Backlog(key[c])) + 1
    BY <1>1, FiniteGates, FS_AddElement DEF Entered, TypeOK
  <2>. QED
    BY <1>1, <2>1 DEF Entered, WaitingGauge, TypeOK
<1>2. ASSUME NEW c \in Callers, Left(c) PROVE WaitingGauge'
  <2>1. Cardinality(Backlog(key[c]) \ {c}) = Cardinality(Backlog(key[c])) - 1
    BY <1>2, FiniteGates, FS_RemoveElement DEF Left, TypeOK
  <2>. QED
    BY <1>2, <2>1 DEF Left, WaitingGauge, TypeOK
<1>3. CASE BacklogSame
  BY <1>3 DEF BacklogSame, WaitingGauge
<1>. QED
  BY <1>1, <1>2, <1>3, BacklogEffect

(* I3 for every number of callers and keys: the in-flight count of a gate  *)
(* is the number of callers that hold one of its permits.                  *)
THEOREM PermitsAccounted == Spec => []PermitAccounting
<1>1. Init => PermitAccounting
  <2>1. ASSUME Init, NEW k \in Keys PROVE Holders(k) = {}
    BY <2>1 DEF Init, Holders
  <2>. QED
    BY <2>1, FS_EmptySet DEF Init, PermitAccounting
<1>2. TypeOK /\ TypeOK' /\ PermitAccounting /\ [Next]_vars => PermitAccounting'
  BY AccountingStep
<1>. QED
  BY <1>1, <1>2, TypeCorrect, PTL DEF Spec

(* The backlog gauge is exact for every number of callers and keys.  The   *)
(* induction needs that a caller in the select or past it has blocked.     *)
THEOREM GaugeExact == Spec => []WaitingGauge
<1>1. Init => BlockedLocations /\ WaitingGauge
  <2>1. ASSUME Init, NEW k \in Keys PROVE Backlog(k) = {}
    BY <2>1 DEF Init, Backlog
  <2>2. Init => WaitingGauge
    BY <2>1, FS_EmptySet DEF Init, WaitingGauge
  <2>. QED
    BY <2>2 DEF Init, BlockedLocations
<1>2. /\ TypeOK /\ TypeOK' /\ BlockedLocations /\ WaitingGauge
      /\ [Next]_vars
      => BlockedLocations' /\ WaitingGauge'
  BY BlockedStep, GaugeStep
<1>. QED
  BY <1>1, <1>2, TypeCorrect, PTL DEF Spec

(* Permits and waiters are both counted exactly in every reachable state,  *)
(* for every number of callers and keys.                                   *)
THEOREM AccountsExact == Spec => []AccountingExact
<1>1. PermitAccounting /\ WaitingGauge => AccountingExact
  BY DEF AccountingExact
<1>. QED
  BY <1>1, PermitsAccounted, GaugeExact, PTL

(* No step exceeds the largest capacity: an admission was decided on a     *)
(* capacity of at most MaxCap, however stale.                              *)
THEOREM CapacityRespected == Spec => []NeverOverAdmitted
<1>1. Init => NeverOverAdmitted
  BY Bounds DEF Init, NeverOverAdmitted
<1>2. TypeOK /\ TypeOK' /\ NeverOverAdmitted /\ [Next]_vars
      => NeverOverAdmitted'
  <2>. SUFFICES ASSUME TypeOK, TypeOK', NeverOverAdmitted, [Next]_vars
                PROVE  NeverOverAdmitted'
    OBVIOUS
  <2>1. ASSUME NEW c \in Callers, Granted(c) PROVE NeverOverAdmitted'
    BY <2>1, Bounds DEF Granted, NeverOverAdmitted, TypeOK
  <2>2. ASSUME NEW c \in Callers, GivenBack(c) PROVE NeverOverAdmitted'
    BY <2>2, Bounds DEF GivenBack, NeverOverAdmitted, TypeOK
  <2>3. CASE PermitsSame
    BY <2>3 DEF PermitsSame, NeverOverAdmitted
  <2>. QED
    BY <2>1, <2>2, <2>3, PermitEffect
<1>. QED
  BY <1>1, <1>2, TypeCorrect, PTL DEF Spec

-----------------------------------------------------------------------------
(* The inductive core of NoLostWakeup: the permits that blocked a caller   *)
(* with an open wake channel are still out.                                *)
StillBlocked ==
  \A c \in Callers :
    pc[c] = "parked" /\ c \notin woken => inflight[key[c]] >= n[c]

LEMMA StillBlockedStep ==
  ASSUME TypeOK, StillBlocked, [Next]_vars
  PROVE  StillBlocked'
<1>. USE Bounds DEF TypeOK, Goto, env, tallies, StillBlocked
<1>1. ASSUME NEW c \in Callers, NEW k \in Keys, NEW dead \in BOOLEAN,
             Acquire(c, k, dead)
      PROVE  StillBlocked'
  BY <1>1 DEF Acquire
<1>2. ASSUME NEW c \in Callers, ReadCapacity(c) PROVE StillBlocked'
  BY <1>2 DEF ReadCapacity, AtLeastOne
<1>3. ASSUME NEW c \in Callers, Admit(c) PROVE StillBlocked'
  BY <1>3 DEF Admit
<1>4. ASSUME NEW c \in Callers, Park(c) PROVE StillBlocked'
  BY <1>4 DEF Park, HasRoom
<1>5. ASSUME NEW c \in Callers, SelectWake(c) \/ SelectTerminal(c)
      PROVE  StillBlocked'
  BY <1>5 DEF SelectWake, SelectTerminal
<1>6. ASSUME NEW c \in Callers, Recheck(c) \/ ExitWait(c) \/ NoopRelease(c)
      PROVE  StillBlocked'
  BY <1>6 DEF Recheck, AfterWake, ExitWait, NoopRelease
<1>7. ASSUME NEW c \in Callers, Release(c) \/ Backstop(c)
      PROVE  StillBlocked'
  \* The broadcast covers every caller parked on the released key.
  <2>1. CASE pc[c] = "held"
    BY <1>7, <2>1 DEF Release, Backstop, ReleaseOnce, release, Broadcast
  <2>2. CASE pc[c] # "held"
    BY <1>7, <2>2 DEF Release, Backstop, ReleaseOnce
  <2>. QED
    BY <2>1, <2>2
<1>8. ASSUME NEW c \in Callers, Cancel(c) PROVE StillBlocked'
  BY <1>8 DEF Cancel
<1>9. ASSUME NEW k \in Keys, NEW v \in Capacities, CapacityChanges(k, v)
      PROVE  StillBlocked'
  BY <1>9 DEF CapacityChanges
<1>10. CASE Close \/ UNCHANGED vars
  BY <1>10 DEF Close, vars
<1>. QED
  BY <1>1, <1>2, <1>3, <1>4, <1>5, <1>6, <1>7, <1>8, <1>9, <1>10
     DEF Next, AcquireStep, ReleaseStep

(* No lost wake-up, for every number of callers and keys and under every   *)
(* sequence of capacity changes: a caller parked on an open wake channel   *)
(* waits for permits that some caller really holds.                        *)
THEOREM WakeupsNotLost == Spec => []NoLostWakeup
<1>1. Init => StillBlocked
  BY DEF Init, StillBlocked
<1>2. TypeOK /\ StillBlocked /\ [Next]_vars => StillBlocked'
  BY StillBlockedStep
<1>3. TypeOK /\ PermitAccounting /\ StillBlocked => NoLostWakeup
  <2>. SUFFICES ASSUME TypeOK, PermitAccounting, StillBlocked,
                       NEW c \in Callers, pc[c] = "parked", c \notin woken
                PROVE  /\ inflight[key[c]] >= n[c]
                       /\ Holders(key[c]) # {}
    BY DEF NoLostWakeup
  <2>1. inflight[key[c]] >= n[c]
    BY DEF StillBlocked
  <2>2. Cardinality(Holders(key[c])) # 0
    BY <2>1, Bounds DEF PermitAccounting, TypeOK
  <2>. QED
    BY <2>1, <2>2, FS_EmptySet
<1>. QED
  BY <1>1, <1>2, <1>3, TypeCorrect, PermitsAccounted, PTL DEF Spec

-----------------------------------------------------------------------------
(* The gate implements the permit pool, for every number of callers and    *)
(* keys: the pool's initial state, and a pool step or a stutter per step.  *)
THEOREM GateImplementsPool == Spec => ImplementsPool
<1>. DEFINE permits == [k \in Keys |-> Holders(k)]
<1>1. Init => Pool!PoolInit
  BY DEF Init, Holders, Pool!PoolInit
<1>2. TypeOK /\ PermitAccounting /\ [Next]_vars => [Pool!PoolNext]_permits
  <2>. SUFFICES ASSUME TypeOK, PermitAccounting, [Next]_vars
                PROVE  [Pool!PoolNext]_permits
    OBVIOUS
  <2>1. ASSUME NEW c \in Callers, Granted(c) PROVE Pool!Grant(c, key[c])
    <3>1. key[c] \in Keys /\ n[c] <= MaxCap /\ n[c] \in Int /\ MaxCap \in Int
      BY Bounds DEF TypeOK
    <3>2. Cardinality(Holders(key[c])) < MaxCap
      BY <2>1, <3>1 DEF Granted, PermitAccounting, TypeOK
    <3>3. permits' = [permits EXCEPT ![key[c]] = @ \cup {c}]
      BY <2>1, <3>1 DEF Granted
    <3>4. \A j \in Keys : c \notin permits[j]
      BY <2>1 DEF Granted
    <3>5. permits[key[c]] = Holders(key[c])
      BY <3>1
    <3>6. Pool!Cardinality(permits[key[c]]) = Cardinality(permits[key[c]])
      BY Zenon DEF Cardinality, Pool!Cardinality
    <3>7. Pool!Cardinality(permits[key[c]]) < MaxCap
      BY <3>2, <3>5, <3>6
    <3>. QED
      BY <3>3, <3>4, <3>7 DEF Pool!Grant
  <2>2. ASSUME NEW c \in Callers, GivenBack(c) PROVE Pool!GiveBack(c, key[c])
    <3>1. key[c] \in Keys
      BY DEF TypeOK
    <3>2. permits' = [permits EXCEPT ![key[c]] = @ \ {c}]
      BY <2>2, <3>1 DEF GivenBack
    <3>. QED
      BY <2>2, <3>1, <3>2 DEF GivenBack, Pool!GiveBack
  <2>3. CASE PermitsSame
    <3>1. permits' = permits
      BY <2>3 DEF PermitsSame
    <3>. QED
      BY <3>1
  <2>. QED
    BY <2>1, <2>2, <2>3, PermitEffect DEF Pool!PoolNext, TypeOK
<1>. QED
  BY <1>1, <1>2, TypeCorrect, PermitsAccounted, PTL
     DEF Spec, ImplementsPool, Pool!PoolSpec
-----------------------------------------------------------------------------
(* What makes TerminalSignalsWin inductive: the signal that doomed a call  *)
(* is still up, a context that ended stays ended and a closed router stays *)
(* closed until the call returns.                                          *)
StillDoomed ==
  /\ TypeOK
  /\ \A c \in doomed : c \in Callers /\ Terminated(c)
  /\ TerminalSignalsWin

LEMMA DoomedStep ==
  ASSUME StillDoomed, TypeOK', [MCNext]_<<vars, doomed>>
  PROVE  StillDoomed'
<1>. USE DEF TypeOK, Goto, env, tallies, Terminated, TerminalSignalsWin
<1>. DEFINE Doom == {c \in Callers :
                      /\ pc'[c] # "idle"
                      /\ \/ c \in doomed
                         \/ /\ pc'[c] \in {"parked", "recheck"}
                            /\ closed' \/ c \in cancelled'}
            Kept == \A c \in Callers :
                      /\ c \in doomed /\ pc'[c] # "idle" =>
                           /\ pc'[c] \in {"parked", "recheck", "reject"}
                           /\ closed' \/ c \in cancelled'
<1>1. CASE UNCHANGED <<vars, doomed>>
  BY <1>1 DEF StillDoomed, vars
<1>2. CASE MCNext
  <2>1. doomed' = Doom /\ Next
    BY <1>2 DEF MCNext
  <2>2. Kept
    <3>. USE DEF StillDoomed
    <3>1. ASSUME NEW c \in Callers, NEW k \in Keys, NEW dead \in BOOLEAN,
                 Acquire(c, k, dead)
          PROVE  Kept
      BY <3>1 DEF Acquire
    <3>2. ASSUME NEW c \in Callers, ReadCapacity(c) \/ Admit(c) \/ Park(c)
          PROVE  Kept
      BY <3>2 DEF ReadCapacity, Admit, Park
    <3>3. ASSUME NEW c \in Callers, SelectWake(c) \/ SelectTerminal(c)
          PROVE  Kept
      BY <3>3 DEF SelectWake, SelectTerminal
    <3>4. ASSUME NEW c \in Callers, Recheck(c) \/ ExitWait(c)
          PROVE  Kept
      BY <3>4 DEF Recheck, AfterWake, ExitWait
    <3>5. ASSUME NEW c \in Callers, ReleaseStep(c) \/ Cancel(c)
          PROVE  Kept
      BY <3>5 DEF ReleaseStep, Release, Backstop, NoopRelease, Cancel
    <3>6. ASSUME NEW k \in Keys, NEW v \in Capacities, CapacityChanges(k, v)
          PROVE  Kept
      BY <3>6 DEF CapacityChanges
    <3>7. CASE Close
      BY <3>7 DEF Close
    <3>. QED
      BY <2>1, <3>1, <3>2, <3>3, <3>4, <3>5, <3>6, <3>7 DEF Next, AcquireStep
  <2>. QED
    BY <2>1, <2>2 DEF StillDoomed
<1>. QED
  BY <1>1, <1>2

(* I4/I5 for every number of callers and keys: a call that is queued when  *)
(* its context ends or the router closes leaves only by rejection, however *)
(* wake-ups, capacity changes and governance flips fall around the signal. *)
THEOREM TerminalSignalsAlwaysWin == MCSpec => []TerminalSignalsWin
<1>1. MCSpec => Spec
  <2>1. MCInit => Init
    BY DEF MCInit
  <2>2. [MCNext]_<<vars, doomed>> => [Next]_vars
    BY DEF MCNext
  <2>. QED
    BY <2>1, <2>2, PTL DEF MCSpec, Spec
<1>2. MCInit /\ TypeOK => StillDoomed
  BY DEF MCInit, StillDoomed, TerminalSignalsWin
<1>3. StillDoomed /\ TypeOK' /\ [MCNext]_<<vars, doomed>> => StillDoomed'
  BY DoomedStep
<1>4. StillDoomed => TerminalSignalsWin
  BY DEF StillDoomed
<1>. QED
  BY <1>1, <1>2, <1>3, <1>4, TypeCorrect, PTL DEF MCSpec
=============================================================================
