--------------------------- MODULE SlotAdmission ---------------------------
(***************************************************************************)
(* The slot-aware admission gate of the router (provider/admission.go): a  *)
(* counter of permits per model key, sized anew by the slot source on      *)
(* every decision, with a broadcast wake-up and no hand-off of permits.    *)
(*                                                                         *)
(* A caller is a goroutine inside acquire, between acquire and release, or *)
(* outside the gate.  Every critical section of slotAdmission.mu is one    *)
(* action; the capacity read and the terminal checks, which run without    *)
(* the mutex, are actions of their own, so a caller may decide on a        *)
(* capacity that has since changed.                                        *)
(***************************************************************************)
EXTENDS Integers, FiniteSets

CONSTANTS Callers,   \* goroutines that execute route plans
          Keys,      \* model keys, one gate each
          MaxCap,    \* bound: the largest capacity the source reports
          MaxTally   \* bound: calls start while a gate's tallies are below it

ASSUME FiniteCallers == IsFiniteSet(Callers)
ASSUME Bounds == MaxCap \in Nat \ {0} /\ MaxTally \in Nat

VARIABLES
  capacity,   \* what SlotSource.Capacity reports for each key now
  closed,     \* the router's done channel is closed
  inflight, waiting, admitted, queued, rejected,   \* slotGateState
  pc,         \* where each caller is
  key,        \* the key of the caller's current (or last) call
  n,          \* acquire's local: the capacity read for this iteration
  blocked,    \* callers past their first block (acquire's first is false)
  woken,      \* callers whose captured wake channel has been closed
  cancelled   \* callers whose context is done

tallies == <<admitted, queued, rejected>>
env     == <<capacity, closed>>
vars    == <<env, inflight, waiting, tallies, pc, key, n, blocked, woken,
             cancelled>>

-----------------------------------------------------------------------------
(* SlotSource.Capacity returns (n, ok): ok = FALSE is Ungoverned.  Zero is *)
(* outside the source's contract and is handled as serial.                 *)
Ungoverned == -1
Capacities == Ungoverned .. MaxCap

Locations == {"idle",      \* outside the gate
              "read",      \* about to read the capacity
              "lock",      \* about to enter the critical section with n
              "parked",    \* in the select, holding a captured wake channel
              "recheck",   \* woken: terminal checks of a post-queue iteration
              "reject",    \* about to run exitWait(key, true)
              "flip",      \* about to run exitWait(key, false)
              "held",      \* acquire returned a permit, its Once has not fired
              "released",  \* the Once has fired, the deferred call is pending
              "passed"}    \* acquire returned noopRelease

TypeOK ==
  /\ capacity \in [Keys -> Capacities] /\ closed \in BOOLEAN
  /\ inflight \in [Keys -> Nat] /\ waiting \in [Keys -> Int]
  /\ admitted \in [Keys -> Nat] /\ queued \in [Keys -> Nat]
  /\ rejected \in [Keys -> Nat]
  /\ pc \in [Callers -> Locations]
  /\ key \in [Callers -> Keys]
  /\ n \in [Callers -> 1 .. MaxCap]
  /\ blocked \subseteq Callers /\ woken \subseteq Callers
  /\ cancelled \subseteq Callers

(* The callers that hold a permit of k.                                    *)
Holders(k) == {c \in Callers : key[c] = k /\ pc[c] = "held"}

(* The callers that blocked on k and have neither been admitted nor        *)
(* completed exitWait.                                                     *)
Backlog(k) == {c \in blocked :
                 /\ key[c] = k
                 /\ pc[c] \in {"read", "lock", "parked", "recheck", "reject",
                               "flip"}}

Goto(c, loc) == pc' = [pc EXCEPT ![c] = loc]

-----------------------------------------------------------------------------
(* newSlotAdmission: no gate exists, which reads as a gate with all zeros. *)
Init ==
  /\ capacity \in [Keys -> Capacities] /\ closed = FALSE
  /\ inflight = [k \in Keys |-> 0] /\ waiting = [k \in Keys |-> 0]
  /\ admitted = [k \in Keys |-> 0] /\ queued = [k \in Keys |-> 0]
  /\ rejected = [k \in Keys |-> 0]
  /\ pc = [c \in Callers |-> "idle"]
  /\ key \in [Callers -> Keys]
  /\ n = [c \in Callers |-> 1]
  /\ blocked = {} /\ woken = {} /\ cancelled = {}

(* acquire is called, with a context that may be dead already.             *)
Acquire(c, k, dead) ==
  /\ pc[c] = "idle"
  /\ admitted[k] + queued[k] < MaxTally
  /\ Goto(c, "read")
  /\ key' = [key EXCEPT ![c] = k]
  /\ blocked' = blocked \ {c}
  /\ cancelled' = IF dead THEN cancelled \cup {c} ELSE cancelled \ {c}
  /\ UNCHANGED <<env, inflight, waiting, tallies, n, woken>>

(* The contract-violation fail-safe: serial, never stuck.                  *)
AtLeastOne(cap) == IF cap < 1 THEN 1 ELSE cap

(* The governance read.  An ungoverned key passes before the context is    *)
(* looked at on the entry iteration, and leaves the queue on a later one.  *)
ReadCapacity(c) ==
  /\ pc[c] = "read"
  /\ \/ /\ capacity[key[c]] = Ungoverned
        /\ Goto(c, IF c \in blocked THEN "flip" ELSE "passed")
        /\ UNCHANGED n
     \/ /\ capacity[key[c]] # Ungoverned
        /\ c \notin blocked /\ c \in cancelled
        /\ Goto(c, "idle")
        /\ UNCHANGED n
     \/ /\ capacity[key[c]] # Ungoverned
        /\ c \in blocked \/ c \notin cancelled
        /\ Goto(c, "lock")
        /\ n' = [n EXCEPT ![c] = AtLeastOne(capacity[key[c]])]
  /\ UNCHANGED <<env, inflight, waiting, tallies, key, blocked, woken,
                 cancelled>>

HasRoomOffByOne(c) == inflight[key[c]] <= n[c]             \* mutant
HasRoom(c) == inflight[key[c]] < n[c]

(* The change of the backlog gauge when a caller is admitted.              *)
Dequeued(c) == IF c \in blocked THEN 1 ELSE 0

(* The critical section of acquire: admit against free capacity, or        *)
(* capture the current wake channel and block, counted once per call.      *)
Admit(c) ==
  /\ pc[c] = "lock" /\ HasRoom(c)
  /\ inflight' = [inflight EXCEPT ![key[c]] = @ + 1]
  /\ admitted' = [admitted EXCEPT ![key[c]] = @ + 1]
  /\ waiting' = [waiting EXCEPT ![key[c]] = @ - Dequeued(c)]
  /\ Goto(c, "held")
  /\ UNCHANGED <<env, queued, rejected, key, n, blocked, woken, cancelled>>

Park(c) ==
  /\ pc[c] = "lock" /\ ~HasRoom(c)
  /\ IF c \in blocked
       THEN UNCHANGED <<queued, waiting>>
       ELSE /\ queued' = [queued EXCEPT ![key[c]] = @ + 1]
            /\ waiting' = [waiting EXCEPT ![key[c]] = @ + 1]
  /\ blocked' = blocked \cup {c}
  /\ woken' = woken \ {c}
  /\ Goto(c, "parked")
  /\ UNCHANGED <<env, inflight, admitted, rejected, key, n, cancelled>>

(* The select: any case that is ready may be taken.                        *)
SelectWake(c) ==
  /\ pc[c] = "parked" /\ c \in woken
  /\ Goto(c, "recheck")
  /\ UNCHANGED <<env, inflight, waiting, tallies, key, n, blocked, woken,
                 cancelled>>

CancelledOnly(c) == c \in cancelled                        \* mutant
Terminated(c) == c \in cancelled \/ closed

SelectTerminal(c) ==
  /\ pc[c] = "parked" /\ Terminated(c)
  /\ Goto(c, "reject")
  /\ UNCHANGED <<env, inflight, waiting, tallies, key, n, blocked, woken,
                 cancelled>>

(* The head of a post-queue iteration: terminal signals come before the    *)
(* governance read.                                                        *)
StraightToRead(c) == "read"                                \* mutant
AfterWake(c) == IF c \in cancelled \/ closed THEN "reject" ELSE "read"

Recheck(c) ==
  /\ pc[c] = "recheck"
  /\ Goto(c, AfterWake(c))
  /\ UNCHANGED <<env, inflight, waiting, tallies, key, n, blocked, woken,
                 cancelled>>

(* exitWait, then acquire returns: an error, or the no-op release.         *)
ExitWait(c) ==
  /\ pc[c] \in {"reject", "flip"}
  /\ waiting' = [waiting EXCEPT ![key[c]] = @ - 1]
  /\ rejected' = IF pc[c] = "reject"
                   THEN [rejected EXCEPT ![key[c]] = @ + 1] ELSE rejected
  /\ Goto(c, IF pc[c] = "reject" THEN "idle" ELSE "passed")
  /\ UNCHANGED <<env, inflight, admitted, queued, key, n, blocked, woken,
                 cancelled>>

-----------------------------------------------------------------------------
(* Closing the wake channel of k wakes everyone who captured it.           *)
NoBroadcast(k) == {}                                       \* mutant
Broadcast(k) == {c \in Callers : pc[c] = "parked" /\ key[c] = k}

(* release: clamped decrement, then the wake channel is closed and         *)
(* replaced.                                                               *)
release(k) ==
  /\ inflight' = [inflight EXCEPT ![k] = IF @ > 0 THEN @ - 1 ELSE @]
  /\ woken' = woken \cup Broadcast(k)

(* The closure acquire returned runs release under a sync.Once.            *)
ReleaseEveryTime(c) == release(key[c])                     \* mutant
ReleaseOnce(c) ==
  IF pc[c] = "held" THEN release(key[c]) ELSE UNCHANGED <<inflight, woken>>

(* The release after the provider call, followed by the deferred backstop; *)
(* the backstop runs alone when the provider call panics.                  *)
Release(c) ==
  /\ pc[c] = "held"
  /\ ReleaseOnce(c)
  /\ Goto(c, "released")
  /\ UNCHANGED <<env, waiting, tallies, key, n, blocked, cancelled>>

Backstop(c) ==
  /\ pc[c] \in {"held", "released"}
  /\ ReleaseOnce(c)
  /\ Goto(c, "idle")
  /\ UNCHANGED <<env, waiting, tallies, key, n, blocked, cancelled>>

NoopRelease(c) ==
  /\ pc[c] = "passed"
  /\ Goto(c, "idle")
  /\ UNCHANGED <<env, inflight, waiting, tallies, key, n, blocked, woken,
                 cancelled>>

-----------------------------------------------------------------------------
(* The environment: the source's observation changes, a caller's context   *)
(* ends, Router.Close closes the done channel.                             *)
CapacityChanges(k, v) ==
  /\ v # capacity[k]
  /\ capacity' = [capacity EXCEPT ![k] = v]
  /\ UNCHANGED <<closed, inflight, waiting, tallies, pc, key, n, blocked,
                 woken, cancelled>>

Cancel(c) ==
  /\ pc[c] # "idle" /\ c \notin cancelled
  /\ cancelled' = cancelled \cup {c}
  /\ UNCHANGED <<env, inflight, waiting, tallies, pc, key, n, blocked, woken>>

Close ==
  /\ ~closed
  /\ closed' = TRUE
  /\ UNCHANGED <<capacity, inflight, waiting, tallies, pc, key, n, blocked,
                 woken, cancelled>>

AcquireStep(c) ==
  \/ ReadCapacity(c) \/ Admit(c) \/ Park(c)
  \/ SelectWake(c) \/ SelectTerminal(c) \/ Recheck(c) \/ ExitWait(c)

ReleaseStep(c) == Release(c) \/ Backstop(c) \/ NoopRelease(c)

Next ==
  \/ \E c \in Callers, k \in Keys, dead \in BOOLEAN : Acquire(c, k, dead)
  \/ \E c \in Callers : AcquireStep(c) \/ ReleaseStep(c) \/ Cancel(c)
  \/ \E k \in Keys, v \in Capacities : CapacityChanges(k, v)
  \/ Close

Spec == Init /\ [][Next]_vars

(* A goroutine that can run inside acquire does run.  A provider call may  *)
(* hang, so nothing is assumed of releases, nor of new calls,              *)
(* cancellation, Close or the capacity source.                             *)
FairSpec == Spec /\ \A c \in Callers : WF_vars(AcquireStep(c))

-----------------------------------------------------------------------------
(* I3: the in-flight count of every gate is the number of permits that are *)
(* out, whatever mix of releases, backstops and cancellations happened.    *)
PermitAccounting == \A k \in Keys : inflight[k] = Cardinality(Holders(k))

(* The backlog gauge counts exactly the callers that blocked and have not  *)
(* left the queue yet, on every exit path (admit, cancel, close, flip).    *)
WaitingGauge == \A k \in Keys : waiting[k] = Cardinality(Backlog(k))

(* Both counters at once: no mix of releases, backstops, cancellations and *)
(* governance flips leaks or forgets a permit or a waiter.                 *)
AccountingExact == PermitAccounting /\ WaitingGauge

(* A release between unlock and select is never lost: a caller whose wake  *)
(* channel is still open is blocked by permits that are really out, so a   *)
(* release that will wake it is still to come.                             *)
NoLostWakeup ==
  \A c \in Callers :
    pc[c] = "parked" /\ c \notin woken =>
      /\ inflight[key[c]] >= n[c]
      /\ Holders(key[c]) # {}

(* Decisions taken on stale capacities never let more calls into a key     *)
(* than the largest capacity the source reports.                           *)
NeverOverAdmitted == \A k \in Keys : inflight[k] <= MaxCap

(* The gate implements the permit pool its callers rely on: every step     *)
(* grants one permit to a caller without one, gives one back, or changes   *)
(* no permit.                                                              *)
Pool == INSTANCE PermitPool WITH permits <- [k \in Keys |-> Holders(k)]
ImplementsPool == Pool!PoolSpec

(* If provider calls return, a parked caller is eventually woken or        *)
(* leaves: no wake-up is missed for good, however releases, capacity       *)
(* changes and other callers interleave.                                   *)
CallsReturn == \A c \in Callers : WF_vars(ReleaseStep(c))
ParkedEventuallyMoves ==
  CallsReturn => \A c \in Callers : pc[c] = "parked" ~> pc[c] # "parked"

(* I4/I5: a caller that is parked when its context ends or the router      *)
(* closes eventually returns from acquire, even if no permit ever comes    *)
(* back because every provider call hangs.                                 *)
TerminalDrains ==
  \A c \in Callers :
    pc[c] = "parked" /\ (closed \/ c \in cancelled) ~> pc[c] = "idle"
=============================================================================
