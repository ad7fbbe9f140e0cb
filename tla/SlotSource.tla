----------------------------- MODULE SlotSource -----------------------------
(***************************************************************************)
(* The capacity cache behind the admission gate                            *)
(* (provider/slots_openaicompat.go): probes started by RecordUse fetch a   *)
(* backend's slot count and record it under the mutex; Close stops         *)
(* spawning, cancels the probes and waits for them.                        *)
(*                                                                         *)
(* Keys are governed and not pinned: for other keys Capacity is constant   *)
(* and RecordUse does nothing.  Time passes in ticks.                      *)
(***************************************************************************)
EXTENDS Integers, FiniteSets

CONSTANTS Keys,       \* governed model keys
          Probes,     \* bound: goroutines that can run probe at one time
          Closers,    \* callers of Close
          MaxCap,     \* bound: the largest slot count of a backend
          TTL,        \* ttl, in ticks
          Timeout     \* defaultSlotProbeTimeout, in ticks

ASSUME SourceBounds == MaxCap \in Nat \ {0} /\ TTL \in Nat \ {0}
                       /\ Timeout \in Nat \ {0}
ASSUME FiniteProbes == IsFiniteSet(Probes)

VARIABLES
  backend,    \* the slot count each backend has now
  entries,    \* the cached observation of each key
  inflight,   \* keys with a probe in flight
  closed,     \* closed is set and the probes' context is cancelled
  wg,         \* the wait group's counter
  probe,      \* the goroutines
  closer,     \* where each caller of Close is
  settled     \* history: ticks since each backend last changed, saturating

ssVars == <<backend, entries, inflight, closed, wg, probe, closer, settled>>

(* An entry's age saturates when it expires; a probe carries the slot      *)
(* count it fetched, or Failed.                                            *)
NoEntry == [capacity |-> 0, age |-> TTL]
Failed == 0
Ready == [at |-> "ready"]
Horizon == TTL + Timeout + 1

SsInit ==
  /\ backend \in [Keys -> 1 .. MaxCap]
  /\ entries = [k \in Keys |-> NoEntry]
  /\ inflight = {} /\ closed = FALSE /\ wg = 0
  /\ probe = [i \in Probes |-> Ready]
  /\ closer = [c \in Closers |-> "idle"]
  /\ settled = [k \in Keys |-> Horizon]

-----------------------------------------------------------------------------
(* Fresh iff now is before fetchedAt + ttl; anything else reads as serial. *)
Fresh(k) == entries[k].age < TTL
CapacityAnyAge(k) ==                                        \* mutant
  IF entries[k].capacity > 0 THEN entries[k].capacity ELSE 1
Capacity(k) == IF Fresh(k) THEN entries[k].capacity ELSE 1

(* RecordUse's spawn decision, one critical section.                       *)
MaySpawn(k) == ~closed /\ ~Fresh(k) /\ k \notin inflight

RecordUse(k, i) ==
  /\ MaySpawn(k) /\ probe[i] = Ready
  /\ inflight' = inflight \cup {k}
  /\ wg' = wg + 1
  /\ probe' = [probe EXCEPT ![i] = [at |-> "fetch", key |-> k, age |-> 0]]
  /\ UNCHANGED <<backend, entries, closed, closer, settled>>

(* The backend answers, or the probe fails: a refused bind, a bad answer,  *)
(* the deadline, the cancelled context.                                    *)
Fetched(i, n) ==
  /\ probe[i].at = "fetch"
  /\ probe' = [probe EXCEPT ![i] = [at |-> "record", key |-> @.key,
                                    age |-> @.age, n |-> n]]
  /\ UNCHANGED <<backend, entries, inflight, closed, wg, closer, settled>>

FetchOK(i) == Fetched(i, IF probe[i].at = "fetch" THEN backend[probe[i].key]
                                                  ELSE Failed)
FetchFails(i) == Fetched(i, Failed)

(* The critical section of probe: a probe that loses to Close writes       *)
(* nothing, a failed one records serial capacity.                          *)
Observed(n) == [capacity |-> IF n = Failed THEN 1 ELSE n, age |-> 0]
WrittenAlways(e, n) == Observed(n)                          \* mutant
Written(e, n) == IF closed THEN e ELSE Observed(n)

Record(i) ==
  /\ probe[i].at = "record"
  /\ inflight' = inflight \ {probe[i].key}
  /\ entries' = [entries EXCEPT ![probe[i].key] = Written(@, probe[i].n)]
  /\ probe' = [probe EXCEPT ![i] = [at |-> "exit", key |-> @.key]]
  /\ UNCHANGED <<backend, closed, wg, closer, settled>>

(* The deferred wg.Done.                                                   *)
Exit(i) ==
  /\ probe[i].at = "exit"
  /\ wg' = wg - 1
  /\ probe' = [probe EXCEPT ![i] = Ready]
  /\ UNCHANGED <<backend, entries, inflight, closed, closer, settled>>

(* Close: mark and cancel under the mutex, then wait for the probes.       *)
Close(c) ==
  /\ closer[c] = "idle"
  /\ closed' = TRUE
  /\ closer' = [closer EXCEPT ![c] = "waiting"]
  /\ UNCHANGED <<backend, entries, inflight, wg, probe, settled>>

ProbesDrained == wg = 0

CloseReturns(c) ==
  /\ closer[c] = "waiting" /\ ProbesDrained
  /\ closer' = [closer EXCEPT ![c] = "returned"]
  /\ UNCHANGED <<backend, entries, inflight, closed, wg, probe, settled>>

-----------------------------------------------------------------------------
(* The environment: a backend restarts with another slot count; time       *)
(* passes, and no probe outlives its deadline.                             *)
Restart(k, n) ==
  /\ n # backend[k]
  /\ backend' = [backend EXCEPT ![k] = n]
  /\ settled' = [settled EXCEPT ![k] = 0]
  /\ UNCHANGED <<entries, inflight, closed, wg, probe, closer>>

Tick ==
  /\ \A i \in Probes :
       probe[i].at \in {"fetch", "record"} => probe[i].age < Timeout
  /\ entries' = [k \in Keys |-> [entries[k] EXCEPT
                    !.age = IF @ < TTL THEN @ + 1 ELSE @]]
  /\ probe' = [i \in Probes |->
       IF probe[i].at \in {"fetch", "record"}
         THEN [probe[i] EXCEPT !.age = @ + 1] ELSE probe[i]]
  /\ settled' = [k \in Keys |-> IF settled[k] < Horizon THEN settled[k] + 1
                                                        ELSE settled[k]]
  /\ UNCHANGED <<backend, inflight, closed, wg, closer>>

SsNext ==
  \/ \E k \in Keys, i \in Probes : RecordUse(k, i)
  \/ \E i \in Probes : FetchOK(i) \/ FetchFails(i) \/ Record(i) \/ Exit(i)
  \/ \E c \in Closers : Close(c) \/ CloseReturns(c)
  \/ \E k \in Keys, n \in 1 .. MaxCap : Restart(k, n)
  \/ Tick

(* A probe whose context is cancelled ends, and goroutines that can run    *)
(* do; a backend need never answer and time need not pass.                 *)
NeverCancelled == FALSE                                     \* mutant
Cancelled == closed
FetchAborts(i) == Cancelled /\ FetchFails(i)
SsFairness ==
  /\ \A i \in Probes : WF_ssVars(FetchAborts(i)) /\ WF_ssVars(Record(i) \/ Exit(i))
  /\ \A c \in Closers : WF_ssVars(CloseReturns(c))

SsSpec == SsInit /\ [][SsNext]_ssVars /\ SsFairness

-----------------------------------------------------------------------------
(* No key is probed by two goroutines at once.                             *)
OneProbePerKey ==
  \A i, j \in Probes :
    /\ probe[i].at \in {"fetch", "record"} /\ probe[j].at \in {"fetch", "record"}
    /\ probe[i].key = probe[j].key
    => i = j

(* After any Close has returned no probe goroutine remains, and none is    *)
(* spawned later by a RecordUse that was already under way.                *)
NoProbeAfterClose ==
  (\E c \in Closers : closer[c] = "returned") =>
    \A i \in Probes : probe[i] = Ready

(* Probes are disciplined: one per key, none left once a Close has         *)
(* returned, and what is cached when the source closes only grows old,     *)
(* because a probe that Close interrupted never replaces an observation.   *)
ProbeDiscipline ==
  [][/\ OneProbePerKey' /\ NoProbeAfterClose'
     /\ closed => \A k \in Keys :
          /\ entries'[k].capacity = entries[k].capacity
          /\ entries'[k].age >= entries[k].age]_ssVars

(* A backend that came back smaller is not over-admitted for long: once it *)
(* has kept its size for the lifetime of an entry and of a probe, no       *)
(* capacity above it is reported, even if no probe ever succeeds again.    *)
StalenessBounded ==
  \A k \in Keys : settled[k] = Horizon => Capacity(k) <= backend[k]

(* Close returns even if every backend hangs.                              *)
CloseTerminates == \A c \in Closers : closer[c] = "waiting" ~> closer[c] = "returned"
=============================================================================
