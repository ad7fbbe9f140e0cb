-------------------------- MODULE BackgroundProofs --------------------------
(***************************************************************************)
(* Proofs about background jobs: the manager, for any number of jobs and   *)
(* of callers of Stop and Shutdown, and the output ring of a job, for      *)
(* every capacity and every size of writes and reads.                      *)
(***************************************************************************)
EXTENDS BackgroundManager, TailRing, FiniteSetTheorems, SequenceTheorems, TLAPS

(* The record of a job and the live members of its process group fit.      *)
(* Once the gate is closed only members out of its reach are left; a       *)
(* leader that is collected is behind a closed gate, or was never spawned. *)
Good(r, group) ==
  /\ r.registered => r.pc \in {"observe", "close", "collect", "publish", "announce", "over"}
  /\ r.pc \in {"publish", "announce"} => r.registered
  /\ r.running <=> r.registered /\ r.pc \in {"observe", "close", "collect", "publish"}
  /\ r.killRequested => r.registered
  /\ r.done => r.pc = "over"
  /\ r.guard # "open" => group \subseteq Elevated
  /\ r.pc \in {"new", "reserved"} => group = {}
  /\ r.pc \in Reaped => group \subseteq {"rootChild"}
  /\ r.pc \in {"new", "reserved"} => r.guard = "open"
  /\ r.pc \in {"collect", "publish", "announce"} => r.guard # "open"
  /\ r.registered /\ r.pc = "over" => r.guard # "open"

JobsGood == \A j \in Jobs : Good(job[j], live[j])

(* A start that Shutdown's barrier waits for, a job that has a slot.       *)
Starts(r) == \/ r.pc \in {"reserved", "spawned", "kill", "release"}
             \/ r.pc \in {"observe", "close", "collect"} /\ ~r.registered
Occupies(r) == r.pc \notin {"new", "announce", "over"}

Starting == {j \in Jobs : Starts(job[j])}
Occupying == {j \in Jobs : Occupies(job[j])}

Counted == active = Cardinality(Occupying) /\ wg = Cardinality(Starting) /\ active <= ActiveCap

(* The members of a list, its first n, the list without those; a list that *)
(* has each member once.                                                   *)
Elements(seq) == {seq[i] : i \in DOMAIN seq}
First(seq, n) == {seq[i] : i \in 1 .. n}
Rest(seq, n) == SubSeq(seq, n + 1, Len(seq))
Unrepeated(seq) == \A i, k \in 1 .. Len(seq) : seq[i] = seq[k] => i = k

(* The completed jobs are listed once each.                                *)
Listed ==
  /\ \A i \in 1 .. Len(completed) :
       job[completed[i]].registered /\ ~job[completed[i]].running
  /\ Unrepeated(completed)
  /\ RunningStaysKnown

(* Whoever is about to kill a job is the only one, and it was not killed.  *)
MayKill(h, j) == host[h].at = "kill" /\ j \in host[h].job

Owned ==
  /\ \A j \in Jobs :
       /\ kills[j] <= 1
       /\ kills[j] # 0 => job[j].killRequested
       /\ j \in shut.toKill => job[j].killRequested /\ kills[j] = 0
  /\ \A h \in Hosts, j \in Jobs : MayKill(h, j) =>
       /\ job[j].killRequested /\ kills[j] = 0 /\ j \notin shut.toKill
       /\ \A g \in Hosts : MayKill(g, j) => g = h

(* Behind the barrier no start is under way, and every job with a slot is  *)
(* in the snapshot.                                                        *)
Fenced ==
  /\ shut.at # "no" => closed
  /\ shut.at = "kill" => Starting = {} /\ Occupying \subseteq shut.jobs
  /\ shut.at = "finished" => Occupying = {}

BmInv == TypeOK /\ JobsGood /\ misfired = {} /\ Counted /\ Listed /\ Owned /\ Fenced

LEMMA BmInitHolds == Init => BmInv
<1> SUFFICES ASSUME Init PROVE BmInv
  OBVIOUS
<1>1. /\ Starting = {} /\ Occupying = {} /\ Cardinality({}) = 0
      /\ completed = <<>> /\ Len(completed) = 0
  BY FS_EmptySet DEF Init, NewJob, Starting, Occupying, Starts, Occupies
<1>2. TypeOK
  <2>1. NewJob \in JobStates
    BY DEF NewJob, JobStates, Places
  <2>8. closed \in BOOLEAN
    BY DEF Init
  <2>2. /\ active \in 0 .. ActiveCap /\ wg \in Nat
        /\ known \subseteq Jobs /\ misfired \subseteq Jobs
    BY CapBounds DEF Init
  <2>7. completed \in Seq(Jobs)
    BY DEF Init
  <2>3. HostIdle \in [at : {"idle", "kill", "wait", "shutdown", "gone"}, job : SUBSET Jobs]
    BY DEF HostIdle
  <2>4. job \in [Jobs -> JobStates] /\ kills \in [Jobs -> Nat]
    BY <2>1 DEF Init
  <2>5. live \in [Jobs -> SUBSET (Ours \cup Elevated)]
    BY DEF Init
  <2>6. shut \in [at : {"no", "barrier", "kill", "finished"}, jobs : SUBSET Jobs, toKill : SUBSET Jobs]
    BY DEF Init
  <2> QED BY <2>2, <2>3, <2>4, <2>5, <2>6, <2>7, <2>8 DEF Init, TypeOK
<1>3. JobsGood
  BY DEF Init, NewJob, JobsGood, Good
<1>4. Counted
  BY <1>1, CapBounds DEF Init, Counted
<1>5. Listed
  BY <1>1 DEF Init, NewJob, Listed, Unrepeated, RunningStaysKnown
<1>6. Owned
  BY DEF Init, NewJob, HostIdle, Owned, MayKill
<1>7. Fenced
  BY <1>1 DEF Init, Fenced
<1> QED BY <1>2, <1>3, <1>4, <1>5, <1>6, <1>7 DEF BmInv, Init

-----------------------------------------------------------------------------
(* A job moves on without registering or ending.                           *)
Keeps(j, rec, group) ==
  /\ rec \in JobStates /\ group \in SUBSET (Ours \cup Elevated) /\ Good(rec, group)
  /\ rec.registered = job[j].registered /\ rec.running = job[j].running
  /\ job' = [job EXCEPT ![j] = rec] /\ live' = [live EXCEPT ![j] = group]

(* It also takes or returns no slot, and nobody asks to kill it.           *)
Moves(j, rec, group) ==
  /\ Keeps(j, rec, group)
  /\ Starts(rec) <=> Starts(job[j])
  /\ Occupies(rec) <=> Occupies(job[j])
  /\ rec.killRequested = job[j].killRequested

LEMMA KeepsJob ==
  ASSUME BmInv, NEW j \in Jobs, NEW rec, NEW group, Keeps(j, rec, group),
         UNCHANGED <<known, completed>>
  PROVE  /\ job' \in [Jobs -> JobStates] /\ live' \in [Jobs -> SUBSET (Ours \cup Elevated)]
         /\ job'[j] = rec /\ \A k \in Jobs : k # j => job'[k] = job[k]
         /\ JobsGood' /\ Listed'
<1>1. /\ job'[j] = rec /\ live'[j] = group
      /\ \A k \in Jobs : k # j => job'[k] = job[k] /\ live'[k] = live[k]
      /\ job' \in [Jobs -> JobStates] /\ live' \in [Jobs -> SUBSET (Ours \cup Elevated)]
  BY DEF Keeps, BmInv, TypeOK
<1>2. JobsGood'
  BY <1>1 DEF Keeps, BmInv, JobsGood
<1>3. \A k \in Jobs : /\ job'[k].registered = job[k].registered
                      /\ job'[k].running = job[k].running
  BY <1>1 DEF Keeps
<1>4. \A i \in 1 .. Len(completed) : completed[i] \in Jobs
  BY DEF BmInv, TypeOK
<1>5. Listed'
  <2>1. {k \in Jobs : job'[k].running} = {k \in Jobs : job[k].running}
    BY <1>3
  <2>2. RunningStaysKnown'
    BY <2>1 DEF BmInv, Listed, RunningStaysKnown
  <2> QED BY <1>3, <1>4, <2>2 DEF BmInv, Listed
<1> QED BY <1>1, <1>2, <1>5

LEMMA MovesJob ==
  ASSUME BmInv, NEW j \in Jobs, NEW rec, NEW group, Moves(j, rec, group),
         UNCHANGED <<known, completed>>
  PROVE  /\ job' \in [Jobs -> JobStates] /\ live' \in [Jobs -> SUBSET (Ours \cup Elevated)]
         /\ JobsGood' /\ Starting' = Starting /\ Occupying' = Occupying /\ Listed'
         /\ \A k \in Jobs : job'[k].killRequested = job[k].killRequested
<1>1. /\ job' \in [Jobs -> JobStates] /\ live' \in [Jobs -> SUBSET (Ours \cup Elevated)]
      /\ job'[j] = rec /\ \A k \in Jobs : k # j => job'[k] = job[k]
      /\ JobsGood' /\ Listed'
  BY KeepsJob DEF Moves
<1>2. Starting' = Starting /\ Occupying' = Occupying
  BY <1>1 DEF Moves, Starting, Occupying
<1>3. \A k \in Jobs : job'[k].killRequested = job[k].killRequested
  BY <1>1 DEF Moves
<1> QED BY <1>1, <1>2, <1>3

LEMMA MovesKeep ==
  ASSUME BmInv, NEW j \in Jobs, NEW rec, NEW group, Moves(j, rec, group),
         UNCHANGED <<books, host, shut, kills, misfired>>
  PROVE  BmInv'
<1> USE DEF books
<1>1. /\ job' \in [Jobs -> JobStates] /\ live' \in [Jobs -> SUBSET (Ours \cup Elevated)]
      /\ JobsGood' /\ Starting' = Starting /\ Occupying' = Occupying /\ Listed'
      /\ \A k \in Jobs : job'[k].killRequested = job[k].killRequested
  BY MovesJob
<1>2. TypeOK'
  BY <1>1 DEF BmInv, TypeOK
<1>3. Counted' /\ Fenced'
  BY <1>1 DEF BmInv, Counted, Fenced
<1>4. Owned'
  BY <1>1 DEF BmInv, Owned, MayKill
<1> QED BY <1>1, <1>2, <1>3, <1>4 DEF BmInv

LEMMA JobGood ==
  ASSUME BmInv, NEW j \in Jobs
  PROVE  /\ job[j] \in JobStates /\ live[j] \in SUBSET (Ours \cup Elevated)
         /\ Good(job[j], live[j]) /\ live = [live EXCEPT ![j] = live[j]]
         /\ job = [job EXCEPT ![j] = job[j]]
BY DEF BmInv, TypeOK, JobsGood

(* The steps of a start that keep its reservation.                         *)
LEMMA StartMoves ==
  ASSUME BmInv, NEW j \in Jobs,
         \/ StartFails(j) \/ Abandon(j)
         \/ \E child \in SUBSET {"child"} : Spawn(j, {"leader"} \cup child)
  PROVE  BmInv'
<1> USE JobGood
<1>1. CASE StartFails(j)
  <2>1. Moves(j, [job[j] EXCEPT !.pc = "release"], live[j])
    BY <1>1 DEF StartFails, Put, Moves, Keeps, JobStates, Places, Good, Reaped, Starts, Occupies
  <2> QED BY <1>1, <2>1, MovesKeep DEF StartFails
<1>2. CASE Abandon(j)
  <2>1. Moves(j, [job[j] EXCEPT !.pc = "kill"], live[j])
    BY <1>2 DEF Abandon, Put, Moves, Keeps, JobStates, Places, Good, Reaped, Starts, Occupies
  <2> QED BY <1>2, <2>1, MovesKeep DEF Abandon
<1>3. ASSUME NEW child \in SUBSET {"child"}, Spawn(j, {"leader"} \cup child) PROVE BmInv'
  <2>1. Moves(j, [job[j] EXCEPT !.pc = "spawned"], {"leader"} \cup child)
    BY <1>3 DEF Spawn, Put, Moves, Keeps, JobStates, Places, Good, Reaped, Starts, Occupies, Ours
  <2> QED BY <1>3, <2>1, MovesKeep DEF Spawn
<1> QED BY <1>1, <1>2, <1>3

(* A signal to a group whose leader is not collected: it never misfires.   *)
LEMMA SignalMoves ==
  ASSUME BmInv, NEW j \in Jobs, NEW who \in {"manager", "wait"}, NEW rec \in JobStates,
         Signal(j, who, rec),
         job[j].guard = "open" => job[j].pc \notin Reaped,
         rec.guard = job[j].guard,
         job[j].guard # "open" => Good(rec, live[j]),
         job[j].guard = "open" => Good([rec EXCEPT !.guard = who], live[j] \ Ours),
         Starts(rec) <=> Starts(job[j]), Occupies(rec) <=> Occupies(job[j]),
         rec.registered = job[j].registered, rec.running = job[j].running,
         rec.killRequested = job[j].killRequested
  PROVE  misfired' = misfired /\ \E r, group : Moves(j, r, group)
<1> USE JobGood
<1>1. CASE job[j].guard = "open"
  <2> DEFINE r == [rec EXCEPT !.guard = who,
                     !.code = IF "leader" \in live[j] THEN "signal" ELSE @]
  <2>1. misfired' = misfired /\ job' = [job EXCEPT ![j] = r] /\ live' = [live EXCEPT ![j] = live[j] \ Ours]
    BY <1>1 DEF Signal, Put
  <2>2. /\ r \in JobStates /\ r.pc = rec.pc /\ r.registered = rec.registered
        /\ r.running = rec.running /\ r.killRequested = rec.killRequested
        /\ r.done = rec.done /\ r.guard = who
    BY DEF JobStates
  <2>3. /\ LET q == [rec EXCEPT !.guard = who] IN
           /\ q.pc = rec.pc /\ q.registered = rec.registered
           /\ q.running = rec.running /\ q.killRequested = rec.killRequested
           /\ q.done = rec.done /\ q.guard = who
    BY DEF JobStates
  <2> HIDE DEF r
  <2>4. Good(r, live[j] \ Ours) /\ (Starts(r) <=> Starts(rec)) /\ (Occupies(r) <=> Occupies(rec))
    BY <1>1, <2>2, <2>3 DEF Good, Starts, Occupies
  <2>5. Moves(j, r, live[j] \ Ours)
    BY <2>1, <2>2, <2>4 DEF Moves, Keeps
  <2> QED BY <2>1, <2>5
<1>2. CASE job[j].guard # "open"
  <2>1. misfired' = misfired /\ Moves(j, rec, live[j])
    BY <1>2 DEF Signal, Put, Moves, Keeps
  <2> QED BY <2>1
<1> QED BY <1>1, <1>2

LEMMA GateMoves ==
  ASSUME BmInv, NEW j \in Jobs, AbandonKill(j) \/ CloseGate(j)
  PROVE  BmInv'
<1> USE JobGood
<1>1. CASE AbandonKill(j)
  <2> DEFINE rec == [job[j] EXCEPT !.pc = "observe"]
  <2>1. /\ rec \in JobStates /\ rec.guard = job[j].guard
        /\ job[j].pc = "kill"
        /\ job[j].guard # "open" => Good(rec, live[j])
        /\ job[j].guard = "open" => Good([rec EXCEPT !.guard = "manager"], live[j] \ Ours)
        /\ (Starts(rec) <=> Starts(job[j])) /\ (Occupies(rec) <=> Occupies(job[j]))
        /\ rec.registered = job[j].registered /\ rec.running = job[j].running
        /\ rec.killRequested = job[j].killRequested
    BY <1>1 DEF AbandonKill, JobStates, Places, Good, Reaped, Starts, Occupies
  <2>2. Signal(j, "manager", rec) /\ UNCHANGED <<books, host, shut, kills>>
    BY <1>1 DEF AbandonKill
  <2> HIDE DEF rec
  <2>3. misfired' = misfired /\ \E r, group : Moves(j, r, group)
    BY <2>1, <2>2, SignalMoves DEF Reaped
  <2> QED BY <2>2, <2>3, MovesKeep
<1>2. CASE CloseGate(j)
  <2> DEFINE rec == [job[j] EXCEPT !.pc = "collect"]
  <2>1. /\ rec \in JobStates /\ rec.guard = job[j].guard
        /\ job[j].pc = "close"
        /\ job[j].guard # "open" => Good(rec, live[j])
        /\ job[j].guard = "open" => Good([rec EXCEPT !.guard = "wait"], live[j] \ Ours)
        /\ (Starts(rec) <=> Starts(job[j])) /\ (Occupies(rec) <=> Occupies(job[j]))
        /\ rec.registered = job[j].registered /\ rec.running = job[j].running
        /\ rec.killRequested = job[j].killRequested
    BY <1>2 DEF CloseGate, JobStates, Places, Good, Reaped, Starts, Occupies
  <2>2. Signal(j, "wait", rec) /\ UNCHANGED <<books, host, shut, kills>>
    BY <1>2 DEF CloseGate, GateClosed
  <2> HIDE DEF rec
  <2>3. misfired' = misfired /\ \E r, group : Moves(j, r, group)
    BY <2>1, <2>2, SignalMoves DEF Reaped
  <2> QED BY <2>2, <2>3, MovesKeep
<1> QED BY <1>1, <1>2

(* The process exits, and its reaper moves up to the publication.          *)
LEMMA ReapMoves ==
  ASSUME BmInv, NEW j \in Jobs,
         \/ Observe(j) \/ ObserveFails(j) \/ Collect(j) \/ Announce(j)
         \/ \E m \in Ours \cup Elevated, how \in {"exit", "signal"} : Exits(j, m, how)
         \/ Elevate(j, "leader", "rootLeader") \/ Elevate(j, "child", "rootChild")
  PROVE  BmInv'
<1> USE JobGood
<1>1. CASE Observe(j) \/ ObserveFails(j)
  <2>1. Moves(j, [job[j] EXCEPT !.pc = "close"], live[j])
    BY <1>1 DEF Observe, ObserveFails, Put, Moves, Keeps, JobStates, Places, Good, Reaped, Starts, Occupies
  <2> QED BY <1>1, <2>1, MovesKeep DEF Observe, ObserveFails
<1>2. CASE Collect(j)
  <2>1. Moves(j, [job[j] EXCEPT !.pc = IF job[j].registered THEN "publish" ELSE "release"], live[j])
    BY <1>2 DEF Collect, LeaderLives, Leaders, Elevated, Put, Moves, Keeps, JobStates, Places,
                Good, Reaped, Starts, Occupies
  <2> QED BY <1>2, <2>1, MovesKeep DEF Collect
<1>3. CASE Announce(j)
  <2> DEFINE rec == [job[j] EXCEPT !.pc = "over", !.done = TRUE]
  <2>1. /\ rec \in JobStates /\ rec.pc = "over" /\ rec.registered = job[j].registered
        /\ rec.running = job[j].running /\ rec.killRequested = job[j].killRequested
        /\ rec.guard = job[j].guard
    BY DEF JobStates, Places
  <2>2. Put(j, rec) /\ live' = live /\ job[j].pc = "announce"
    BY <1>3 DEF Announce
  <2> HIDE DEF rec
  <2>3. Moves(j, rec, live[j])
    BY <2>1, <2>2 DEF Put, Moves, Keeps, Good, Reaped, Starts, Occupies
  <2> QED BY <1>3, <2>3, MovesKeep DEF Announce
<1>4. ASSUME NEW m \in Ours \cup Elevated, NEW how \in {"exit", "signal"}, Exits(j, m, how)
      PROVE  BmInv'
  <2> DEFINE rec == IF m \in Leaders THEN [job[j] EXCEPT !.code = how] ELSE job[j]
  <2>1. /\ rec \in JobStates /\ rec.pc = job[j].pc /\ rec.registered = job[j].registered
        /\ rec.running = job[j].running /\ rec.killRequested = job[j].killRequested
        /\ rec.done = job[j].done /\ rec.guard = job[j].guard
    BY DEF JobStates
  <2>2. Put(j, rec) /\ live' = [live EXCEPT ![j] = live[j] \ {m}]
    BY <1>4 DEF Exits, Put
  <2> HIDE DEF rec
  <2>3. Moves(j, rec, live[j] \ {m})
    BY <2>1, <2>2 DEF Put, Moves, Keeps, Good, Starts, Occupies
  <2> QED BY <1>4, <2>3, MovesKeep DEF Exits
<1>5. ASSUME NEW m \in Ours, NEW root \in Elevated, Elevate(j, m, root),
             root = "rootLeader" => m = "leader"
      PROVE  BmInv'
  <2>1. Moves(j, job[j], (live[j] \ {m}) \cup {root})
    BY <1>5 DEF Elevate, Moves, Keeps, Good, Starts, Occupies, Reaped, Ours, Elevated
  <2> QED BY <1>5, <2>1, MovesKeep DEF Elevate
<1> QED BY <1>1, <1>2, <1>3, <1>4, <1>5 DEF Ours, Elevated

-----------------------------------------------------------------------------
(* The books change.                                                       *)
LEMMA CountsFinite ==
  ASSUME BmInv
  PROVE  /\ IsFiniteSet(Starting) /\ IsFiniteSet(Occupying)
         /\ Cardinality(Starting) \in Nat /\ Cardinality(Occupying) \in Nat
<1>1. Starting \subseteq Jobs /\ Occupying \subseteq Jobs
  BY DEF Starting, Occupying
<1>2. IsFiniteSet(Starting) /\ IsFiniteSet(Occupying)
  BY <1>1, FiniteJobs, FS_Subset
<1> QED BY <1>2, FS_CardinalityType

LEMMA ReserveKeeps ==
  ASSUME BmInv, NEW j \in Jobs, Reserve(j)
  PROVE  BmInv'
<1> DEFINE rec == [job[j] EXCEPT !.pc = "reserved"]
<1>1. /\ rec \in JobStates /\ rec.pc = "reserved" /\ rec.registered = job[j].registered
      /\ rec.running = job[j].running /\ rec.killRequested = job[j].killRequested
      /\ rec.guard = job[j].guard /\ rec.done = job[j].done
  BY JobGood DEF JobStates, Places
<1>2. /\ job[j].pc = "new" /\ ~closed /\ active < ActiveCap
      /\ job' = [job EXCEPT ![j] = rec] /\ live' = live
      /\ active' = active + 1 /\ wg' = wg + 1
      /\ UNCHANGED <<closed, known, completed, host, shut, kills, misfired>>
  BY DEF Reserve, Put, Admitted
<1> HIDE DEF rec
<1>3. Keeps(j, rec, live[j])
  BY <1>1, <1>2, JobGood DEF Keeps, Good, Reaped
<1>4. /\ job' \in [Jobs -> JobStates] /\ live' \in [Jobs -> SUBSET (Ours \cup Elevated)]
      /\ job'[j] = rec /\ \A k \in Jobs : k # j => job'[k] = job[k]
      /\ JobsGood' /\ Listed'
  BY <1>2, <1>3, KeepsJob
<1>5. /\ Starting' = Starting \cup {j} /\ j \notin Starting
      /\ Occupying' = Occupying \cup {j} /\ j \notin Occupying
  BY <1>1, <1>2, <1>4 DEF Starting, Occupying, Starts, Occupies
<1>6. /\ Cardinality(Starting') = Cardinality(Starting) + 1
      /\ Cardinality(Occupying') = Cardinality(Occupying) + 1
  BY <1>5, CountsFinite, FS_AddElement
<1>7. Counted' /\ active' \in 0 .. ActiveCap /\ wg' \in Nat
  BY <1>2, <1>6, CapBounds, CountsFinite DEF BmInv, TypeOK, Counted
<1>8. TypeOK'
  BY <1>2, <1>4, <1>7 DEF BmInv, TypeOK
<1>9. Fenced'
  BY <1>2 DEF BmInv, TypeOK, Fenced
<1>10. Owned'
  <2>1. \A k \in Jobs : job'[k].killRequested = job[k].killRequested
    BY <1>1, <1>4
  <2> QED BY <1>2, <2>1 DEF BmInv, Owned, MayKill
<1> QED BY <1>2, <1>4, <1>7, <1>8, <1>9, <1>10 DEF BmInv

LEMMA ReleaseKeeps ==
  ASSUME BmInv, NEW j \in Jobs, ReleaseReservation(j)
  PROVE  BmInv'
<1> DEFINE rec == [job[j] EXCEPT !.pc = "over"]
<1>1. /\ rec \in JobStates /\ rec.pc = "over" /\ rec.registered = job[j].registered
      /\ rec.running = job[j].running /\ rec.killRequested = job[j].killRequested
      /\ rec.guard = job[j].guard /\ rec.done = job[j].done
  BY JobGood DEF JobStates, Places
<1>2. /\ job[j].pc = "release"
      /\ job' = [job EXCEPT ![j] = rec] /\ live' = live
      /\ active' = active - 1 /\ wg' = wg - 1
      /\ UNCHANGED <<closed, known, completed, host, shut, kills, misfired>>
  BY DEF ReleaseReservation, Put, SlotReturned
<1> HIDE DEF rec
<1>3. Keeps(j, rec, live[j])
  BY <1>1, <1>2, JobGood DEF Keeps, Good, Reaped
<1>4. /\ job' \in [Jobs -> JobStates] /\ live' \in [Jobs -> SUBSET (Ours \cup Elevated)]
      /\ job'[j] = rec /\ \A k \in Jobs : k # j => job'[k] = job[k]
      /\ JobsGood' /\ Listed'
  BY <1>2, <1>3, KeepsJob
<1>5. /\ Starting' = Starting \ {j} /\ j \in Starting
      /\ Occupying' = Occupying \ {j} /\ j \in Occupying
  BY <1>1, <1>2, <1>4 DEF Starting, Occupying, Starts, Occupies
<1>6. /\ Cardinality(Starting') = Cardinality(Starting) - 1 /\ Cardinality(Starting') \in Nat
      /\ Cardinality(Occupying') = Cardinality(Occupying) - 1 /\ Cardinality(Occupying') \in Nat
  BY <1>5, CountsFinite, FS_RemoveElement, FS_CardinalityType
<1>7. Counted' /\ active' \in 0 .. ActiveCap /\ wg' \in Nat
  BY <1>2, <1>6, CapBounds, CountsFinite DEF BmInv, TypeOK, Counted
<1>8. TypeOK'
  BY <1>2, <1>4, <1>7 DEF BmInv, TypeOK
<1>9. Fenced'
  BY <1>2, <1>5 DEF BmInv, TypeOK, Fenced
<1>10. Owned'
  <2>1. \A k \in Jobs : job'[k].killRequested = job[k].killRequested
    BY <1>1, <1>4
  <2> QED BY <1>2, <2>1 DEF BmInv, Owned, MayKill
<1> QED BY <1>2, <1>4, <1>7, <1>8, <1>9, <1>10 DEF BmInv

LEMMA RegisterKeeps ==
  ASSUME BmInv, NEW j \in Jobs, Register(j)
  PROVE  BmInv'
<1> DEFINE rec == [job[j] EXCEPT !.pc = "observe", !.registered = TRUE,
                                 !.running = TRUE, !.state = "running"]
<1>1. /\ rec \in JobStates /\ rec.pc = "observe" /\ rec.registered /\ rec.running
      /\ rec.killRequested = job[j].killRequested
      /\ rec.guard = job[j].guard /\ rec.done = job[j].done
  BY JobGood DEF JobStates, Places
<1>2. /\ job[j].pc = "spawned" /\ ~closed /\ known' = known \cup {j}
      /\ job' = [job EXCEPT ![j] = rec] /\ live' = live
      /\ wg' = wg - 1
      /\ UNCHANGED <<closed, active, completed, host, shut, kills, misfired>>
  BY DEF Register, Put
<1> HIDE DEF rec
<1>3. /\ job'[j] = rec /\ \A k \in Jobs : k # j => job'[k] = job[k]
      /\ job' \in [Jobs -> JobStates]
  BY <1>1, <1>2 DEF BmInv, TypeOK
<1>4. JobsGood'
  <2>1. Good(rec, live[j])
    BY <1>1, <1>2, JobGood DEF Good, Reaped
  <2> QED BY <1>2, <1>3, <2>1 DEF BmInv, JobsGood
<1>5. Starting' = Starting \ {j} /\ j \in Starting /\ Occupying' = Occupying
  BY <1>1, <1>2, <1>3 DEF Starting, Occupying, Starts, Occupies
<1>6. Cardinality(Starting') = Cardinality(Starting) - 1 /\ Cardinality(Starting') \in Nat
  BY <1>5, CountsFinite, FS_RemoveElement, FS_CardinalityType
<1>7. Counted' /\ wg' \in Nat
  BY <1>2, <1>5, <1>6, CountsFinite DEF BmInv, TypeOK, Counted
<1>8. TypeOK'
  BY <1>2, <1>3, <1>7 DEF BmInv, TypeOK
<1>9. Fenced'
  BY <1>2 DEF BmInv, TypeOK, Fenced
<1>10. Owned'
  <2>1. \A k \in Jobs : job'[k].killRequested = job[k].killRequested
    BY <1>1, <1>3
  <2> QED BY <1>2, <2>1 DEF BmInv, Owned, MayKill
<1>11. Listed'
  <2>1. ~job[j].registered
    BY <1>2, JobGood DEF Good
  <2>2. \A i \in 1 .. Len(completed) : completed[i] \in Jobs /\ completed[i] # j
    BY <2>1 DEF BmInv, TypeOK, Listed
  <2>3. {k \in Jobs : job'[k].running} = {k \in Jobs : job[k].running} \cup {j}
    BY <1>1, <1>3
  <2>4. RunningStaysKnown'
    BY <1>2, <2>3 DEF BmInv, Listed, RunningStaysKnown
  <2> QED BY <1>2, <1>3, <2>2, <2>4 DEF BmInv, Listed
<1> QED BY <1>2, <1>4, <1>7, <1>8, <1>9, <1>10, <1>11 DEF BmInv

(* What is left of a list without repetitions when its first e elements    *)
(* are cut off: exactly the other elements, once each.                     *)
LEMMA CutElements ==
  ASSUME NEW S, NEW s \in Seq(S), NEW e \in Nat, e <= Len(s)
  PROVE  /\ SubSeq(s, e + 1, Len(s)) \in Seq(S)
         /\ Len(SubSeq(s, e + 1, Len(s))) = Len(s) - e
         /\ \A i \in 1 .. Len(s) - e : SubSeq(s, e + 1, Len(s))[i] = s[e + i]
<1> DEFINE n == Len(s)
           m == e + 1
           q == SubSeq(s, m, n)
<1>1. n \in Nat /\ e <= n /\ \A i \in 1 .. n : s[i] \in S
  BY ElementOfSeq, LenProperties
<1> HIDE DEF n
<1>2. /\ m \in Int /\ n \in Int /\ \A i \in m .. n : s[i] \in S
      /\ (IF m <= n THEN n - m + 1 ELSE 0) = n - e /\ n - m + 1 = n - e
      /\ \A i \in 1 .. n - e : m + i - 1 = e + i
  BY <1>1
<1> HIDE DEF m
<1>3. q \in Seq(S)
  BY <1>2, SubSeqProperties
<1>4. Len(q) = n - e
  BY <1>2, SubSeqProperties
<1>5. \A i \in 1 .. n - m + 1 : q[i] = s[m + i - 1]
  BY <1>2, SubSeqProperties
<1> HIDE DEF q
<1>6. \A i \in 1 .. n - e : q[i] = s[e + i]
  BY <1>2, <1>5, Zenon
<1> QED BY <1>3, <1>4, <1>6 DEF n, m, q

LEMMA CutTail ==
  ASSUME NEW S, NEW s \in Seq(S), NEW e \in Nat, e <= Len(s), Unrepeated(s)
  PROVE  /\ Rest(s, e) \in Seq(S) /\ Unrepeated(Rest(s, e))
         /\ Elements(Rest(s, e)) = Elements(s) \ First(s, e)
<1> DEFINE n == Len(s)
           q == SubSeq(s, e + 1, n)
<1>1. /\ q \in Seq(S) /\ Len(q) = n - e /\ n \in Nat /\ e <= n
      /\ \A i \in 1 .. n - e : q[i] = s[e + i]
      /\ \A i, k \in 1 .. n : s[i] = s[k] => i = k
  BY CutElements, LenProperties DEF Unrepeated
<1>2. Elements(s) = {s[i] : i \in 1 .. n}
  BY LenProperties DEF Elements
<1> HIDE DEF n, q
<1>3. Elements(q) = {q[i] : i \in 1 .. n - e}
  BY <1>1, LenProperties DEF Elements
<1>4. \A i \in 1 .. n - e : e + i \in 1 .. n
  BY <1>1
<1>5. Unrepeated(q)
  <2>1. SUFFICES ASSUME NEW i \in 1 .. n - e, NEW k \in 1 .. n - e, q[i] = q[k]
                 PROVE  i = k
    BY <1>1 DEF Unrepeated
  <2>2. s[e + i] = s[e + k] /\ e + i \in 1 .. n /\ e + k \in 1 .. n
    BY <1>1, <1>4, <2>1
  <2>3. e + i = e + k
    BY <1>1, <2>2, Zenon
  <2> QED BY <1>1, <2>3
<1>6. ASSUME NEW i \in 1 .. n - e
      PROVE  q[i] \in {s[k] : k \in 1 .. n} /\ q[i] \notin First(s, e)
  <2>1. e + i \in 1 .. n /\ q[i] = s[e + i]
    BY <1>1, <1>4
  <2>2. ASSUME NEW k \in 1 .. e PROVE s[k] # s[e + i]
    <3>1. k \in 1 .. n /\ k # e + i
      BY <1>1
    <3> QED BY <1>1, <2>1, <3>1, Zenon
  <2> QED BY <2>1, <2>2, Zenon DEF First
<1>7. ASSUME NEW k \in 1 .. n, s[k] \notin First(s, e)
      PROVE  s[k] \in {q[i] : i \in 1 .. n - e}
  <2>1. k \notin 1 .. e
    BY <1>7 DEF First
  <2>2. k - e \in 1 .. n - e /\ e + (k - e) = k
    BY <1>1, <2>1
  <2>3. q[k - e] = s[k]
    BY <1>1, <2>2
  <2> QED BY <2>2, <2>3, Zenon
<1>8. Elements(q) = Elements(s) \ First(s, e)
  <2>1. \A x \in Elements(q) : x \in Elements(s) /\ x \notin First(s, e)
    BY <1>2, <1>3, <1>6, Zenon
  <2>2. \A x \in Elements(s) : x \notin First(s, e) => x \in Elements(q)
    BY <1>2, <1>3, <1>7, Zenon
  <2> QED BY <2>1, <2>2
<1> QED BY <1>1, <1>5, <1>8 DEF n, q, Rest

(* Retention: the completed jobs kept are the newest ones, and exactly the *)
(* others are forgotten.                                                   *)
LEMMA Retention ==
  ASSUME BmInv, NEW j \in Jobs, job[j].running, NEW all, all = Append(completed, j)
  PROVE  /\ Elements(all) = Elements(completed) \cup {j}
         /\ Forgotten(all) \subseteq Elements(all)
         /\ SubSeq(all, Excess(all) + 1, Len(all)) \in Seq(Jobs)
         /\ Elements(SubSeq(all, Excess(all) + 1, Len(all))) = Elements(all) \ Forgotten(all)
         /\ Unrepeated(SubSeq(all, Excess(all) + 1, Len(all)))
<1>1. /\ completed \in Seq(Jobs) /\ Len(completed) \in Nat
      /\ DOMAIN completed = 1 .. Len(completed)
      /\ \A i \in 1 .. Len(completed) : completed[i] \in Jobs
  BY DEF BmInv, TypeOK
<1>2. /\ all \in Seq(Jobs) /\ Len(all) = Len(completed) + 1 /\ all[Len(all)] = j
      /\ \A i \in 1 .. Len(completed) : all[i] = completed[i]
      /\ DOMAIN all = 1 .. Len(all)
  BY <1>1
<1>3. Elements(all) = Elements(completed) \cup {j}
  <2>1. \A i \in 1 .. Len(all) : i \in 1 .. Len(completed) \/ i = Len(all)
    BY <1>1, <1>2
  <2>2. \A i \in 1 .. Len(completed) : i \in 1 .. Len(all)
    BY <1>1, <1>2
  <2>3. Len(all) \in 1 .. Len(all)
    BY <1>1, <1>2
  <2> QED BY <1>1, <1>2, <2>1, <2>2, <2>3 DEF Elements
<1>4. \A i \in 1 .. Len(completed) : completed[i] # j
  BY DEF BmInv, Listed
<1>5. Unrepeated(all)
  BY <1>1, <1>2, <1>4 DEF BmInv, Listed, Unrepeated
<1>6. Excess(all) \in Nat /\ Excess(all) <= Len(all)
  BY <1>1, <1>2, CapBounds DEF Excess
<1>7. Forgotten(all) \subseteq Elements(all)
  <2>1. \A i \in 1 .. Excess(all) : i \in DOMAIN all
    BY <1>1, <1>2, <1>6
  <2> QED BY <2>1 DEF Forgotten, Elements
<1> DEFINE kept == SubSeq(all, Excess(all) + 1, Len(all))
<1>8. /\ kept \in Seq(Jobs) /\ Unrepeated(kept)
      /\ Elements(kept) = Elements(all) \ Forgotten(all)
  <2> DEFINE e == Excess(all)
  <2>1. Forgotten(all) = First(all, e) /\ e \in Nat /\ e <= Len(all)
    BY <1>6 DEF Forgotten, First
  <2> HIDE DEF e
  <2>2. /\ Rest(all, e) \in Seq(Jobs) /\ Unrepeated(Rest(all, e))
        /\ Elements(Rest(all, e)) = Elements(all) \ First(all, e)
    BY <1>2, <1>5, <2>1, CutTail, Zenon
  <2> QED BY <2>1, <2>2, Zenon DEF e, Rest
<1> QED BY <1>3, <1>7, <1>8

LEMMA PublishKeeps ==
  ASSUME BmInv, NEW j \in Jobs, Publish(j)
  PROVE  BmInv'
<1> DEFINE rec == [job[j] EXCEPT !.pc = "announce", !.running = FALSE,
                     !.state = IF ManagerKilled(j) THEN "killed" ELSE "exited"]
           all == Append(completed, j)
<1>1. /\ rec \in JobStates /\ rec.pc = "announce" /\ ~rec.running
      /\ rec.registered = job[j].registered /\ rec.killRequested = job[j].killRequested
      /\ rec.guard = job[j].guard /\ rec.done = job[j].done
  BY JobGood DEF JobStates, Places
<1>2. /\ job[j].pc = "publish" /\ active' = active - 1
      /\ completed' = SubSeq(all, Excess(all) + 1, Len(all)) /\ known' = known \ Forgotten(all)
      /\ job' = [job EXCEPT ![j] = rec] /\ live' = live
      /\ UNCHANGED <<closed, wg, host, shut, kills, misfired>>
  BY DEF Publish, Put
<1>3. job[j].running /\ job[j].registered
  BY <1>2, JobGood DEF Good
<1>14. all = Append(completed, j)
  OBVIOUS
<1> HIDE DEF rec, all
<1>4. /\ Elements(all) = Elements(completed) \cup {j} /\ Forgotten(all) \subseteq Elements(all)
      /\ completed' \in Seq(Jobs) /\ Unrepeated(completed')
      /\ Elements(completed') = Elements(all) \ Forgotten(all)
  <2> DEFINE kept == SubSeq(all, Excess(all) + 1, Len(all))
  <2>1. /\ Elements(all) = Elements(completed) \cup {j} /\ Forgotten(all) \subseteq Elements(all)
        /\ kept \in Seq(Jobs) /\ Unrepeated(kept)
        /\ Elements(kept) = Elements(all) \ Forgotten(all)
    BY <1>3, <1>14, Retention, Zenon
  <2> HIDE DEF kept
  <2>2. completed' = kept
    BY <1>2, Zenon DEF kept
  <2> QED BY <2>1, <2>2, Zenon
<1>5. /\ job'[j] = rec /\ \A k \in Jobs : k # j => job'[k] = job[k]
      /\ job' \in [Jobs -> JobStates]
  BY <1>1, <1>2 DEF BmInv, TypeOK
<1>6. JobsGood'
  <2>1. Good(rec, live[j])
    BY <1>1, <1>2, JobGood DEF Good, Reaped
  <2> QED BY <1>2, <1>5, <2>1 DEF BmInv, JobsGood
<1>7. Occupying' = Occupying \ {j} /\ j \in Occupying /\ Starting' = Starting
  BY <1>1, <1>2, <1>5 DEF Starting, Occupying, Starts, Occupies
<1>8. Cardinality(Occupying') = Cardinality(Occupying) - 1 /\ Cardinality(Occupying') \in Nat
  BY <1>7, CountsFinite, FS_RemoveElement, FS_CardinalityType
<1>9. Counted' /\ active' \in 0 .. ActiveCap
  BY <1>2, <1>7, <1>8, CountsFinite, CapBounds DEF BmInv, TypeOK, Counted
<1>10. TypeOK'
  BY <1>2, <1>4, <1>5, <1>9 DEF BmInv, TypeOK
<1>11. Fenced'
  BY <1>2, <1>7 DEF BmInv, Fenced
<1>12. Owned'
  <2>1. \A k \in Jobs : job'[k].killRequested = job[k].killRequested
    BY <1>1, <1>5
  <2> QED BY <1>2, <2>1 DEF BmInv, Owned, MayKill
<1>13. Listed'
  <2> DEFINE ran == {k \in Jobs : job[k].running}
             runs == {k \in Jobs : job'[k].running}
             told == Elements(all)
             old == Elements(completed)
  <2>1. runs = ran \ {j} /\ j \in ran
    BY <1>1, <1>3, <1>5
  <2>2. \A k \in told : k \in Jobs /\ job'[k].registered /\ ~job'[k].running
    <3>1. \A i \in DOMAIN completed : /\ completed[i] \in Jobs /\ job[completed[i]].registered
                                      /\ ~job[completed[i]].running /\ completed[i] # j
      BY <1>3 DEF BmInv, TypeOK, Listed
    <3>2. \A k \in old : k \in Jobs /\ job[k].registered /\ ~job[k].running /\ k # j
      BY <3>1 DEF Elements
    <3> HIDE DEF old
    <3> QED BY <1>1, <1>3, <1>4, <1>5, <3>2 DEF old
  <2>3. known = (runs \cup told)
    <3>1. known = ran \cup old
      BY DEF BmInv, Listed, RunningStaysKnown, Elements
    <3> HIDE DEF ran, runs
    <3> QED BY <1>4, <2>1, <3>1
  <2>4. runs \cap told = {}
    BY <2>2
  <2>5. known' = runs \cup Elements(completed')
    <3> HIDE DEF runs
    <3> QED BY <1>2, <1>4, <2>3, <2>4
  <2>6. \A i \in 1 .. Len(completed') : completed'[i] \in told
    <3>1. DOMAIN completed' = 1 .. Len(completed')
      BY <1>4
    <3>2. \A i \in 1 .. Len(completed') : completed'[i] \in Elements(completed')
      BY <3>1 DEF Elements
    <3> QED BY <1>4, <3>2
  <2>7. RunningStaysKnown'
    BY <2>5 DEF RunningStaysKnown, Elements
  <2> QED BY <1>4, <2>2, <2>6, <2>7 DEF Listed, Unrepeated
<1> QED BY <1>2, <1>6, <1>9, <1>10, <1>11, <1>12, <1>13 DEF BmInv

-----------------------------------------------------------------------------
(* Stop and Shutdown.                                                      *)
LEMMA StopKeeps ==
  ASSUME BmInv, NEW h \in Hosts, NEW j \in Jobs, Stop(h, j)
  PROVE  BmInv'
<1> DEFINE rec == [job[j] EXCEPT !.killRequested = TRUE]
           caller == [at |-> IF NeedKill(j) THEN "kill" ELSE "wait", job |-> {j}]
<1>1. /\ rec \in JobStates /\ rec.pc = job[j].pc /\ rec.registered = job[j].registered
      /\ rec.running = job[j].running /\ rec.killRequested
      /\ rec.guard = job[j].guard /\ rec.done = job[j].done
  BY JobGood DEF JobStates
<1>2. /\ host[h].at = "idle" /\ job[j].running /\ job' = [job EXCEPT ![j] = rec] /\ live' = live
      /\ host' = [host EXCEPT ![h] = caller]
      /\ UNCHANGED <<closed, active, wg, known, completed, shut, kills, misfired>>
  BY DEF Stop, Put, books
<1>3. /\ caller \in [at : {"idle", "kill", "wait", "shutdown", "gone"}, job : SUBSET Jobs]
      /\ caller.job = {j} /\ (caller.at = "kill" => ~job[j].killRequested)
  BY DEF NeedKill
<1> HIDE DEF rec, caller
<1>4. Keeps(j, rec, live[j])
  BY <1>1, <1>2, JobGood DEF Keeps, Good
<1>5. /\ job' \in [Jobs -> JobStates] /\ live' \in [Jobs -> SUBSET (Ours \cup Elevated)]
      /\ job'[j] = rec /\ \A k \in Jobs : k # j => job'[k] = job[k]
      /\ JobsGood' /\ Listed'
  BY <1>2, <1>4, KeepsJob
<1>6. Starting' = Starting /\ Occupying' = Occupying
  BY <1>1, <1>5 DEF Starting, Occupying, Starts, Occupies
<1>7. TypeOK'
  BY <1>2, <1>3, <1>5 DEF BmInv, TypeOK
<1>8. Counted' /\ Fenced'
  BY <1>2, <1>6 DEF BmInv, Counted, Fenced
<1>9. Owned'
  <2>1. \A k \in Jobs : job[k].killRequested => job'[k].killRequested
    BY <1>1, <1>5
  <2>2. host'[h] = caller /\ \A g \in Hosts : g # h => host'[g] = host[g]
    BY <1>2 DEF BmInv, TypeOK
  <2>3. \A g \in Hosts, k \in Jobs : MayKill(g, k)' =>
           \/ g # h /\ MayKill(g, k)
           \/ g = h /\ k = j /\ ~job[j].killRequested
    <3>1. ASSUME NEW g \in Hosts, NEW k \in Jobs, MayKill(g, k)', g # h PROVE MayKill(g, k)
      BY <2>2, <3>1 DEF MayKill
    <3>2. ASSUME NEW k \in Jobs, MayKill(h, k)' PROVE k = j /\ ~job[j].killRequested
      <4>1. caller.at = "kill" /\ k \in caller.job
        BY <2>2, <3>2 DEF MayKill
      <4> QED BY <1>3, <4>1
    <3> QED BY <3>1, <3>2
  <2>4. \A k \in Jobs : /\ kills'[k] <= 1
                        /\ kills'[k] # 0 => job'[k].killRequested
                        /\ k \in shut'.toKill => job'[k].killRequested /\ kills'[k] = 0
    BY <1>2, <2>1 DEF BmInv, Owned
  <2>5. \A g \in Hosts, k \in Jobs : MayKill(g, k)' =>
          /\ job'[k].killRequested /\ kills'[k] = 0 /\ k \notin shut'.toKill
          /\ \A f \in Hosts : MayKill(f, k)' => f = g
    BY <1>1, <1>2, <1>5, <2>1, <2>3 DEF BmInv, Owned
  <2> QED BY <2>4, <2>5 DEF Owned
<1> QED BY <1>2, <1>5, <1>7, <1>8, <1>9 DEF BmInv

(* A job marked for killing is registered, so its group is not yet reused. *)
LEMMA KillMoves ==
  ASSUME BmInv, NEW j \in Jobs, Kill(j), job[j].killRequested, UNCHANGED books
  PROVE  /\ job' \in [Jobs -> JobStates] /\ live' \in [Jobs -> SUBSET (Ours \cup Elevated)]
         /\ JobsGood' /\ Starting' = Starting /\ Occupying' = Occupying /\ Listed'
         /\ \A k \in Jobs : job'[k].killRequested = job[k].killRequested
         /\ misfired' = misfired /\ kills' = [kills EXCEPT ![j] = @ + 1]
<1> USE JobGood
<1>1. Signal(j, "manager", job[j]) /\ kills' = [kills EXCEPT ![j] = @ + 1]
  BY DEF Kill
<1>2. job[j].guard = "open" => job[j].pc \notin Reaped
  BY DEF Good, Reaped
<1>3. job[j].guard = "open" => Good([job[j] EXCEPT !.guard = "manager"], live[j] \ Ours)
  <2>1. LET q == [job[j] EXCEPT !.guard = "manager"] IN
           /\ q.pc = job[j].pc /\ q.registered = job[j].registered
           /\ q.running = job[j].running /\ q.killRequested = job[j].killRequested
           /\ q.done = job[j].done /\ q.guard = "manager"
    BY DEF JobStates
  <2> QED BY <2>1 DEF Good, Reaped
<1>4. misfired' = misfired /\ \E r, group : Moves(j, r, group)
  BY <1>1, <1>2, <1>3, SignalMoves
<1> QED BY <1>1, <1>4, MovesJob DEF books

LEMMA StopKillKeeps ==
  ASSUME BmInv, NEW h \in Hosts, StopKill(h)
  PROVE  BmInv'
<1>1. PICK j \in host[h].job : Kill(j)
  BY DEF StopKill
<1>2. /\ host[h].at = "kill" /\ host' = [host EXCEPT ![h].at = "wait"]
      /\ UNCHANGED <<books, shut>>
  BY DEF StopKill
<1>3. /\ j \in Jobs /\ MayKill(h, j) /\ job[j].killRequested /\ kills[j] = 0
      /\ j \notin shut.toKill /\ \A g \in Hosts : MayKill(g, j) => g = h
  <2>1. j \in Jobs /\ MayKill(h, j)
    BY <1>1, <1>2 DEF BmInv, TypeOK, MayKill
  <2> QED BY <2>1 DEF BmInv, Owned
<1>4. /\ job' \in [Jobs -> JobStates] /\ live' \in [Jobs -> SUBSET (Ours \cup Elevated)]
      /\ JobsGood' /\ Starting' = Starting /\ Occupying' = Occupying /\ Listed'
      /\ \A k \in Jobs : job'[k].killRequested = job[k].killRequested
      /\ misfired' = misfired /\ kills' = [kills EXCEPT ![j] = @ + 1]
  BY <1>1, <1>2, <1>3, KillMoves
<1>5. /\ host'[h].at = "wait" /\ host'[h].job = host[h].job
      /\ \A g \in Hosts : g # h => host'[g] = host[g]
      /\ host' \in [Hosts -> [at : {"idle", "kill", "wait", "shutdown", "gone"},
                              job : SUBSET Jobs]]
  BY <1>2 DEF BmInv, TypeOK
<1>6. kills' \in [Jobs -> Nat] /\ kills'[j] = 1 /\ \A k \in Jobs : k # j => kills'[k] = kills[k]
  BY <1>3, <1>4 DEF BmInv, TypeOK
<1>7. TypeOK'
  BY <1>2, <1>4, <1>5, <1>6 DEF BmInv, TypeOK, books
<1>8. Counted' /\ Fenced'
  BY <1>2, <1>4 DEF BmInv, Counted, Fenced, books
<1>9. Owned'
  <2>1. \A g \in Hosts, k \in Jobs : MayKill(g, k)' => g # h /\ MayKill(g, k) /\ k # j
    BY <1>3, <1>5 DEF MayKill
  <2> QED BY <1>2, <1>3, <1>4, <1>6, <2>1 DEF BmInv, Owned
<1> QED BY <1>4, <1>7, <1>8, <1>9 DEF BmInv

LEMMA ShutdownKillKeeps ==
  ASSUME BmInv, NEW j \in Jobs, ShutdownKill(j)
  PROVE  BmInv'
<1>1. /\ j \in shut.toKill /\ Kill(j) /\ shut' = [shut EXCEPT !.toKill = @ \ {j}]
      /\ UNCHANGED <<books, host>>
  BY DEF ShutdownKill
<1>2. job[j].killRequested /\ kills[j] = 0 /\ \A g \in Hosts : ~MayKill(g, j)
  BY <1>1 DEF BmInv, Owned
<1>3. /\ job' \in [Jobs -> JobStates] /\ live' \in [Jobs -> SUBSET (Ours \cup Elevated)]
      /\ JobsGood' /\ Starting' = Starting /\ Occupying' = Occupying /\ Listed'
      /\ \A k \in Jobs : job'[k].killRequested = job[k].killRequested
      /\ misfired' = misfired /\ kills' = [kills EXCEPT ![j] = @ + 1]
  BY <1>1, <1>2, KillMoves
<1>4. /\ shut'.at = shut.at /\ shut'.jobs = shut.jobs /\ shut'.toKill = shut.toKill \ {j}
      /\ shut' \in [at : {"no", "barrier", "kill", "finished"},
                    jobs : SUBSET Jobs, toKill : SUBSET Jobs]
  BY <1>1 DEF BmInv, TypeOK
<1>5. kills' \in [Jobs -> Nat] /\ kills'[j] = 1 /\ \A k \in Jobs : k # j => kills'[k] = kills[k]
  BY <1>2, <1>3 DEF BmInv, TypeOK
<1>6. TypeOK'
  BY <1>1, <1>3, <1>4, <1>5 DEF BmInv, TypeOK, books
<1>7. Counted' /\ Fenced'
  BY <1>1, <1>3, <1>4 DEF BmInv, Counted, Fenced, books
<1>8. Owned'
  <2>1. \A g \in Hosts, k \in Jobs : MayKill(g, k)' => MayKill(g, k) /\ k # j
    BY <1>1, <1>2 DEF MayKill
  <2> QED BY <1>2, <1>3, <1>4, <1>5, <2>1 DEF BmInv, Owned
<1> QED BY <1>3, <1>6, <1>7, <1>8 DEF BmInv

(* Past the barrier no start is under way, so a job with a slot is running *)
(* and known.                                                              *)
LEMMA SnapshotKeeps ==
  ASSUME BmInv, Snapshot
  PROVE  BmInv'
<1> DEFINE toKill == {j \in known : job[j].running /\ ~job[j].killRequested}
           marked(j) == IF j \in toKill THEN [job[j] EXCEPT !.killRequested = TRUE] ELSE job[j]
<1>1. /\ shut.at = "barrier" /\ wg = 0
      /\ shut' = [at |-> "kill", jobs |-> known, toKill |-> toKill]
      /\ job' = [j \in Jobs |-> marked(j)]
      /\ UNCHANGED <<closed, active, wg, known, completed, live, host, kills, misfired>>
  BY DEF Snapshot, BarrierPassed, books
<1>2. toKill \subseteq Jobs
  BY DEF BmInv, TypeOK
<1>3. ASSUME NEW j \in Jobs
      PROVE  /\ job'[j] \in JobStates /\ job'[j].pc = job[j].pc
             /\ job'[j].registered = job[j].registered /\ job'[j].running = job[j].running
             /\ job'[j].guard = job[j].guard /\ job'[j].done = job[j].done
             /\ job[j].killRequested => job'[j].killRequested
             /\ j \in toKill => job'[j].killRequested
             /\ job'[j].killRequested => job[j].killRequested \/ job[j].running
  <2>1. job[j] \in JobStates
    BY JobGood
  <2>2. job'[j] = marked(j)
    BY <1>1
  <2>3. CASE j \in toKill
    <3>1. job'[j] = [job[j] EXCEPT !.killRequested = TRUE] /\ job[j].running
      BY <2>2, <2>3
    <3> HIDE DEF toKill
    <3> QED BY <2>1, <3>1 DEF JobStates
  <2>4. CASE j \notin toKill
    <3> HIDE DEF toKill
    <3> QED BY <2>1, <2>2, <2>4
  <2> QED BY <2>3, <2>4
<1> HIDE DEF marked
<1>4. JobsGood'
  <2>1. ASSUME NEW j \in Jobs PROVE Good(job'[j], live[j])
    BY <1>3, JobGood DEF Good
  <2> QED BY <1>1, <2>1 DEF JobsGood
<1>5. Starting' = Starting /\ Occupying' = Occupying
  BY <1>3 DEF Starting, Occupying, Starts, Occupies
<1>6. job' \in [Jobs -> JobStates]
  BY <1>1, <1>3
<1>7. shut'.at = "kill" /\ shut'.jobs = known /\ shut'.toKill = toKill
  BY <1>1
<1>8. TypeOK'
  <2>1. shut' \in [at : {"no", "barrier", "kill", "finished"},
                  jobs : SUBSET Jobs, toKill : SUBSET Jobs]
    <3> HIDE DEF toKill
    <3> QED BY <1>1, <1>2 DEF BmInv, TypeOK
  <2> QED BY <1>1, <1>6, <2>1 DEF BmInv, TypeOK
<1>9. Counted'
  BY <1>1, <1>5 DEF BmInv, Counted
<1>10. Fenced'
  <2>1. Starting = {}
    BY <1>1, CountsFinite, FS_EmptySet DEF BmInv, Counted
  <2>2. ASSUME NEW j \in Occupying PROVE j \in known
    <3>1. j \in Jobs /\ Occupies(job[j]) /\ ~Starts(job[j])
      BY <2>1 DEF Starting, Occupying
    <3>2. job[j].running
      BY <3>1, JobGood DEF Good, Occupies, Starts, JobStates, Places
    <3> QED BY <3>1, <3>2 DEF BmInv, Listed, RunningStaysKnown
  <2>3. closed
    BY <1>1 DEF BmInv, Fenced
  <2> QED BY <1>1, <1>5, <1>7, <2>1, <2>2, <2>3 DEF Fenced
<1>11. Listed'
  <2>1. {k \in Jobs : job'[k].running} = {k \in Jobs : job[k].running}
    BY <1>3
  <2>2. RunningStaysKnown'
    BY <1>1, <2>1 DEF BmInv, Listed, RunningStaysKnown
  <2>3. \A i \in 1 .. Len(completed) : completed[i] \in Jobs
    BY DEF BmInv, TypeOK
  <2> QED BY <1>1, <1>3, <2>2, <2>3 DEF BmInv, Listed, Unrepeated
<1>12. Owned'
  <2>1. \A j \in toKill : ~job[j].killRequested
    OBVIOUS
  <2> HIDE DEF toKill
  <2>2. \A h \in Hosts, j \in Jobs : MayKill(h, j)' <=> MayKill(h, j)
    BY <1>1 DEF MayKill
  <2>3. \A j \in Jobs : /\ kills'[j] <= 1
                        /\ kills'[j] # 0 => job'[j].killRequested
                        /\ j \in shut'.toKill => job'[j].killRequested /\ kills'[j] = 0
    BY <1>1, <1>2, <1>3, <1>7, <2>1 DEF BmInv, Owned
  <2>4. \A h \in Hosts, j \in Jobs : MayKill(h, j)' =>
          /\ job'[j].killRequested /\ kills'[j] = 0 /\ j \notin shut'.toKill
          /\ \A g \in Hosts : MayKill(g, j)' => g = h
    BY <1>1, <1>3, <1>7, <2>1, <2>2 DEF BmInv, Owned
  <2> QED BY <2>3, <2>4 DEF Owned
<1> QED BY <1>1, <1>4, <1>8, <1>9, <1>10, <1>11, <1>12 DEF BmInv

LEMMA ShutdownDoneKeeps ==
  ASSUME BmInv, ShutdownDone
  PROVE  BmInv'
<1> USE DEF books
<1>1. /\ shut.at = "kill" /\ shut' = [at |-> "finished", jobs |-> {}, toKill |-> {}]
      /\ \A j \in shut.jobs : job[j].done
      /\ UNCHANGED <<books, job, live, host, kills, misfired>>
  BY DEF ShutdownDone
<1>2. shut'.at = "finished" /\ shut'.toKill = {}
  BY <1>1
<1>3. Occupying = {}
  <2>1. ASSUME NEW j \in Occupying PROVE FALSE
    <3>1. j \in Jobs /\ job[j].done
      BY <1>1 DEF BmInv, Fenced, Occupying
    <3> QED BY <3>1, JobGood DEF Good, Occupying, Occupies
  <2> QED BY <2>1
<1>4. shut' \in [at : {"no", "barrier", "kill", "finished"}, jobs : SUBSET Jobs, toKill : SUBSET Jobs]
  BY <1>1
<1>5. TypeOK'
  BY <1>1, <1>4 DEF BmInv, TypeOK
<1>6. Starting' = Starting /\ Occupying' = Occupying /\ JobsGood' /\ Listed'
  BY <1>1 DEF BmInv, Starting, Occupying, JobsGood, Listed, RunningStaysKnown
<1>7. Fenced' /\ Counted'
  BY <1>1, <1>2, <1>3, <1>6 DEF BmInv, Fenced, Counted
<1>8. Owned'
  BY <1>1, <1>2 DEF BmInv, Owned, MayKill
<1> QED BY <1>1, <1>5, <1>6, <1>7, <1>8 DEF BmInv

(* Steps of a caller that touch neither the jobs nor a kill.               *)
LEMMA CallerKeeps ==
  ASSUME BmInv, NEW h \in Hosts,
         StopReturns(h) \/ StopGivesUp(h) \/ Shutdown(h) \/ ShutdownReturns(h)
  PROVE  BmInv'
<1> USE DEF books
<1>1. UNCHANGED <<active, wg, known, completed, job, live, kills, misfired>>
  BY DEF StopReturns, StopGivesUp, Shutdown, ShutdownReturns
<1>2. /\ host' \in [Hosts -> [at : {"idle", "kill", "wait", "shutdown", "gone"},
                              job : SUBSET Jobs]]
      /\ host'[h].at # "kill" /\ \A g \in Hosts : g # h => host'[g] = host[g]
  <2>1. CASE StopReturns(h) \/ StopGivesUp(h)
    <3>1. host' = [host EXCEPT ![h] = HostIdle]
      BY <2>1 DEF StopReturns, StopGivesUp
    <3> QED BY <3>1 DEF BmInv, TypeOK, HostIdle
  <2>2. CASE Shutdown(h)
    BY <2>2 DEF Shutdown, BmInv, TypeOK
  <2>3. CASE ShutdownReturns(h)
    BY <2>3 DEF ShutdownReturns, BmInv, TypeOK
  <2> QED BY <2>1, <2>2, <2>3
<1>3. \/ UNCHANGED <<closed, shut>>
      \/ closed' = TRUE /\ shut' = shut
      \/ closed' = TRUE /\ shut.at = "no" /\ shut' = [shut EXCEPT !.at = "barrier"]
  BY DEF StopReturns, StopGivesUp, Shutdown, ShutdownReturns
<1>4. /\ closed' \in BOOLEAN /\ (closed => closed') /\ shut'.toKill = shut.toKill
      /\ shut'.jobs = shut.jobs
      /\ shut'.at = shut.at \/ (shut'.at = "barrier" /\ closed')
      /\ shut' \in [at : {"no", "barrier", "kill", "finished"},
                    jobs : SUBSET Jobs, toKill : SUBSET Jobs]
  BY <1>3 DEF BmInv, TypeOK
<1>5. TypeOK'
  BY <1>1, <1>2, <1>4 DEF BmInv, TypeOK
<1>6. Starting' = Starting /\ Occupying' = Occupying /\ JobsGood' /\ Listed'
  BY <1>1 DEF BmInv, Starting, Occupying, JobsGood, Listed, RunningStaysKnown
<1>7. Fenced' /\ Counted'
  BY <1>1, <1>4, <1>6 DEF BmInv, Fenced, Counted
<1>8. Owned'
  <2>1. \A g \in Hosts, k \in Jobs : MayKill(g, k)' => MayKill(g, k)
    BY <1>2 DEF MayKill
  <2> QED BY <1>1, <1>4, <2>1 DEF BmInv, Owned
<1> QED BY <1>1, <1>5, <1>6, <1>7, <1>8 DEF BmInv

LEMMA BmStepKeeps == BmInv /\ [Next]_vars => BmInv'
<1> SUFFICES ASSUME BmInv, [Next]_vars PROVE BmInv'
  OBVIOUS
<1>1. CASE UNCHANGED vars
  BY <1>1 DEF BmInv, vars, books, TypeOK, JobsGood, Counted, Listed, RunningStaysKnown,
              Owned, MayKill, Fenced, Starting, Occupying
<1>2. ASSUME NEW j \in Jobs, Reserve(j) \/ StartStep(j) \/ ReapStep(j) \/ ObserveFails(j)
      PROVE  BmInv'
  BY <1>2, ReserveKeeps, StartMoves, RegisterKeeps, GateMoves, ReleaseKeeps, ReapMoves,
     PublishKeeps DEF StartStep, ReapStep
<1>3. ASSUME NEW j \in Jobs,
             \/ \E m \in Ours \cup Elevated, how \in {"exit", "signal"} : Exits(j, m, how)
             \/ Elevate(j, "leader", "rootLeader") \/ Elevate(j, "child", "rootChild")
      PROVE  BmInv'
  BY <1>3, ReapMoves
<1>4. ASSUME NEW h \in Hosts, StopStep(h) \/ StopGivesUp(h) \/ Shutdown(h) \/ ShutdownReturns(h)
      PROVE  BmInv'
  BY <1>4, StopKillKeeps, CallerKeeps DEF StopStep
<1>5. ASSUME NEW h \in Hosts, NEW j \in Jobs, Stop(h, j) PROVE BmInv'
  BY <1>5, StopKeeps
<1>6. CASE ShutdownStep
  BY <1>6, SnapshotKeeps, ShutdownDoneKeeps, ShutdownKillKeeps DEF ShutdownStep
<1> QED BY <1>1, <1>2, <1>3, <1>4, <1>5, <1>6 DEF Next

LEMMA BmAlways == Spec => []BmInv
<1> QED BY BmInitHolds, BmStepKeeps, PTL DEF Spec

-----------------------------------------------------------------------------
(* The manager's state has its type, and active never exceeds the cap.     *)
THEOREM BackgroundTypeCorrect == Spec => []TypeOK
<1>1. BmInv => TypeOK
  BY DEF BmInv
<1> QED BY <1>1, BmAlways, PTL

(* active counts exactly the starts under way and the jobs that run, and   *)
(* the jobs map holds exactly the running jobs and the retained ones:      *)
(* whatever starts, fails, is abandoned, stopped or shut down, a slot is   *)
(* neither leaked nor returned twice, and no running job is forgotten.     *)
THEOREM SlotsAndHandlesExact == Spec => []BooksExact
<1>1. BmInv => BooksExact
  <2>1. BmInv => Occupying = {j \in Jobs : job[j].pc \notin {"new", "announce", "over"}}
    BY DEF Occupying, Occupies
  <2> QED BY <2>1 DEF BmInv, Counted, Listed, BooksExact, ActiveExact
<1> QED BY <1>1, BmAlways, PTL

(* Once Shutdown's body has finished, every leader is reaped and a process *)
(* group holds at most a descendant that changed its uid, the groups of    *)
(* starts that were under way included.                                    *)
THEOREM ShutdownReapsAll == Spec => []NoOrphans
<1>1. BmInv => NoOrphans
  <2> SUFFICES ASSUME BmInv, shut.at = "finished", NEW j \in Jobs
               PROVE  job[j].pc \in {"new", "announce", "over"} /\ live[j] \subseteq {"rootChild"}
    BY DEF NoOrphans
  <2>1. job[j].pc \in {"new", "announce", "over"}
    BY DEF BmInv, Fenced, Occupying, Occupies
  <2> QED BY <2>1, JobGood DEF Good, Reaped
<1> QED BY <1>1, BmAlways, PTL

(* Over all Stop and Shutdown calls a job is killed at most once, and no   *)
(* signal goes to a group whose leader has been reaped.                    *)
THEOREM KillsOnceAndNeverReused == Spec => []KillsAreSafe
<1>1. BmInv => KillsAreSafe
  BY DEF BmInv, Owned, KillsAreSafe
<1> QED BY <1>1, BmAlways, PTL
-----------------------------------------------------------------------------
(* Stretches of the stream as sequences.                                   *)
LEMMA BytesType ==
  ASSUME NEW a \in Nat, NEW b \in Nat, a <= b
  PROVE  /\ Bytes(a, b) \in Seq(Nat) /\ Len(Bytes(a, b)) = b - a
         /\ \A i \in 1 .. b - a : Bytes(a, b)[i] = a + i
<1>1. Bytes(a, b) \in [1 .. b - a -> Nat] /\ b - a \in Nat
  BY DEF Bytes
<1> QED  BY <1>1 DEF Bytes

LEMMA BytesJoin ==
  ASSUME NEW a \in Nat, NEW b \in Nat, NEW c \in Nat, a <= b, b <= c
  PROVE  Bytes(a, b) \o Bytes(b, c) = Bytes(a, c)
<1>1. /\ Bytes(a, b) \in Seq(Nat) /\ Len(Bytes(a, b)) = b - a
      /\ \A i \in 1 .. b - a : Bytes(a, b)[i] = a + i
  BY BytesType
<1>2. /\ Bytes(b, c) \in Seq(Nat) /\ Len(Bytes(b, c)) = c - b
      /\ \A i \in 1 .. c - b : Bytes(b, c)[i] = b + i
  BY BytesType
<1>3. /\ Bytes(a, c) \in Seq(Nat) /\ Len(Bytes(a, c)) = c - a
      /\ \A i \in 1 .. c - a : Bytes(a, c)[i] = a + i
  BY BytesType
<1> DEFINE s == Bytes(a, b) \o Bytes(b, c)
<1>4. s \in Seq(Nat) /\ Len(s) = c - a
  <2>1. s \in Seq(Nat) /\ Len(s) = Len(Bytes(a, b)) + Len(Bytes(b, c))
    BY <1>1, <1>2, ConcatProperties, Zenon
  <2>2. (b - a) + (c - b) = c - a
    OBVIOUS
  <2> QED  BY <1>1, <1>2, <2>1, <2>2, Zenon
<1>5. ASSUME NEW i \in 1 .. c - a  PROVE s[i] = a + i
  <2>1. s[i] = IF i <= b - a THEN Bytes(a, b)[i] ELSE Bytes(b, c)[i - (b - a)]
    BY <1>1, <1>2, ConcatProperties
  <2> QED  BY <1>1, <1>2, <2>1
<1>6. \A i \in 1 .. Len(s) : s[i] = Bytes(a, c)[i]
  BY <1>3, <1>4, <1>5
<1> HIDE DEF s
<1>7. s = Bytes(a, c)
  BY <1>3, <1>4, <1>6, SeqEqual
<1> QED  BY <1>7 DEF s

LEMMA BytesCut ==
  ASSUME NEW a \in Nat, NEW c \in Nat, NEW b \in Nat, a <= c, c <= b
  PROVE  SubSeq(Bytes(a, b), (c - a) + 1, b - a) = Bytes(c, b)
<1>1. /\ Bytes(a, b) \in Seq(Nat) /\ Len(Bytes(a, b)) = b - a
      /\ \A i \in 1 .. b - a : Bytes(a, b)[i] = a + i
  BY BytesType
<1>2. /\ Bytes(c, b) \in Seq(Nat) /\ Len(Bytes(c, b)) = b - c
      /\ \A i \in 1 .. b - c : Bytes(c, b)[i] = c + i
  BY BytesType
<1> DEFINE m == (c - a) + 1
           l == b - a
           s == SubSeq(Bytes(a, b), m, l)
<1>3. /\ m \in Int /\ l \in Int /\ l - m + 1 = b - c
      /\ (IF m <= l THEN l - m + 1 ELSE 0) = b - c
      /\ \A i \in m .. l : Bytes(a, b)[i] \in Nat
      /\ \A i \in 1 .. b - c : Bytes(a, b)[m + i - 1] = c + i
  BY <1>1
<1> HIDE DEF m, l
<1>4. s \in Seq(Nat)
  BY <1>3, SubSeqProperties
<1>5. Len(s) = b - c
  BY <1>3, SubSeqProperties
<1>6. \A i \in 1 .. l - m + 1 : s[i] = Bytes(a, b)[m + i - 1]
  BY <1>3, SubSeqProperties
<1> HIDE DEF s
<1>7. \A i \in 1 .. b - c : s[i] = Bytes(c, b)[i]
  BY <1>2, <1>3, <1>6
<1>8. s = Bytes(c, b)
  BY <1>2, <1>4, <1>5, <1>7, SeqEqual, Zenon
<1> QED  BY <1>8 DEF s, m, l

-----------------------------------------------------------------------------
(* What makes the ring's contents inductive: the offsets are ordered and   *)
(* their distance is what fits.                                            *)
Offsets == /\ floor \in Nat /\ end \in Nat /\ floor <= end
           /\ end - floor = Least(CapBytes, end)
           /\ buf = Bytes(floor, end)

LEMMA WriteKeepsOffsets ==
  ASSUME Offsets, NEW n \in Nat, n >= 1, Write(n)
  PROVE  Offsets'
<1> USE RingBounds
<1>1. /\ end' = end + n /\ Len(buf) = end - floor
      /\ floor \in Nat /\ end \in Nat /\ floor <= end
  BY BytesType DEF Offsets, Write
<1>5. Over(n) \in Int
  BY <1>1 DEF Over
<1>2. CASE n >= CapBytes
  <2>1. buf' = Bytes(floor', end') /\ floor' = end' - CapBytes
    BY <1>2 DEF Write
  <2>2. /\ floor' \in Nat /\ end' \in Nat /\ floor' <= end'
        /\ end' - floor' = Least(CapBytes, end')
    BY <1>1, <1>2, <2>1 DEF Offsets, Least
  <2> QED  BY <2>1, <2>2 DEF Offsets
<1>3. CASE n < CapBytes /\ Over(n) > 0
  <2>1. /\ buf' = SubSeq(buf, Over(n) + 1, Len(buf)) \o Bytes(end, end')
        /\ floor' = floor + Over(n)
    <3>1. ~(n >= CapBytes) /\ ~(Over(n) <= 0)
      BY <1>3, <1>5
    <3> QED  BY <3>1, Zenon DEF Write
  <2>2. Over(n) \in Nat /\ floor + Over(n) <= end
    BY <1>1, <1>3 DEF Over, Offsets, Least
  <2>3. SubSeq(buf, Over(n) + 1, Len(buf)) = Bytes(floor + Over(n), end)
    <3> DEFINE f == floor + Over(n)
    <3>1. f \in Nat /\ f - floor = Over(n) /\ floor <= f /\ f <= end
      BY <1>1, <2>2
    <3> HIDE DEF f
    <3>2. SubSeq(Bytes(floor, end), (f - floor) + 1, end - floor) = Bytes(f, end)
      BY <1>1, <3>1, BytesCut, Zenon
    <3> QED  BY <1>1, <3>1, <3>2, Zenon DEF Offsets, f
  <2>4. Bytes(floor + Over(n), end) \o Bytes(end, end + n)
          = Bytes(floor + Over(n), end + n)
    <3>1. end + n \in Nat /\ floor + Over(n) \in Nat /\ end <= end + n
      BY <1>1, <2>2
    <3> QED  BY <1>1, <2>2, <3>1, BytesJoin
  <2>6. buf' = Bytes(floor', end')
    BY <1>1, <2>1, <2>3, <2>4
  <2>5. floor' \in Nat /\ end' \in Nat /\ floor' <= end'
        /\ end' - floor' = Least(CapBytes, end')
    BY <1>1, <1>3, <2>1, <2>2 DEF Over, Offsets, Least
  <2> QED  BY <2>5, <2>6 DEF Offsets
<1>4. CASE n < CapBytes /\ Over(n) <= 0
  <2>1. buf' = buf \o Bytes(end, end') /\ floor' = floor
    <3>1. ~(n >= CapBytes) /\ ~(Over(n) > 0)
      BY <1>4, <1>5
    <3> QED  BY <3>1, Zenon DEF Write
  <2>4. Bytes(floor, end) \o Bytes(end, end + n) = Bytes(floor, end + n)
    <3>1. end + n \in Nat /\ end <= end + n
      BY <1>1
    <3> QED  BY <1>1, <3>1, BytesJoin
  <2>2. buf' = Bytes(floor', end')
    BY <1>1, <2>1, <2>4 DEF Offsets
  <2>3. end' \in Nat /\ floor' <= end'
        /\ end' - floor' = Least(CapBytes, end')
    BY <1>1, <1>4, <2>1 DEF Over, Offsets, Least
  <2> QED  BY <1>1, <2>1, <2>2, <2>3 DEF Offsets
<1> QED  BY <1>2, <1>3, <1>4, <1>5

LEMMA OffsetsAlways == TrSpec => []Offsets
<1>1. TrInit => Offsets
  <2>1. TrInit => buf = Bytes(floor, end)
    BY DEF TrInit, Bytes
  <2> QED  BY <2>1, RingBounds DEF TrInit, Offsets, Least
<1>2. Offsets /\ [TrNext]_trVars => Offsets'
  <2>1. CASE UNCHANGED ring
    BY <2>1 DEF ring, Offsets
  <2>2. ASSUME Offsets, NEW n \in 1 .. MaxWrite, Write(n)  PROVE Offsets'
    BY <2>2, WriteKeepsOffsets, RingBounds
  <2>3. [TrNext]_trVars => UNCHANGED ring \/ \E n \in 1 .. MaxWrite : Write(n)
    BY DEF TrNext, trVars, Read, Finish, ObservePublished, Return, Again
  <2> QED  BY <2>1, <2>2, <2>3
<1> QED  BY <1>1, <1>2, PTL DEF TrSpec

(* The ring holds exactly the newest bytes of the stream, as many as fit.  *)
THEOREM RingKeepsNewest == TrSpec => []RingIsNewestTail
<1>1. Offsets => RingIsNewestTail
  BY BytesType DEF Offsets, RingIsNewestTail
<1> QED  BY <1>1, OffsetsAlways, PTL

-----------------------------------------------------------------------------
(* What a tail call knows: publication, once observed, is final, and EOF   *)
(* is only ever the verdict of a returned call.                            *)
Fields == {"at", "published", "cursor", "data", "next", "dropped", "asked",
           "eof"}
EOFInv == /\ DOMAIN tail = Fields
          /\ tail.published => done
          /\ tail.eof => tail.at = "returned" /\ done /\ tail.next = end

LEMMA EOFInvAlways == TrSpec => []EOFInv
<1>1. TrInit => EOFInv
  BY DEF TrInit, EOFInv, NoTail, Fields
<1>2. EOFInv /\ [TrNext]_trVars => EOFInv'
  <2> SUFFICES ASSUME EOFInv, [TrNext]_trVars  PROVE EOFInv'
    OBVIOUS
  <2>1. ASSUME NEW n \in 1 .. MaxWrite, Write(n)  PROVE EOFInv'
    BY <2>1 DEF EOFInv, Write
  <2>2. ASSUME NEW c \in NoCursor .. MaxEnd + 1, NEW max \in 1 .. MaxBytes,
               Read(c, max)
        PROVE  EOFInv'
    <3> DEFINE got == IF c = NoCursor THEN ReadNewest(max) ELSE ReadFrom(c, max)
    <3>1. /\ tail' = [tail EXCEPT !.at = "bounds", !.cursor = c, !.asked = end,
                        !.data = got.data, !.next = got.next,
                        !.dropped = got.dropped]
          /\ done' = done /\ end' = end /\ tail.at = "read"
      BY <2>2 DEF Read, ring
    <3> HIDE DEF got
    <3> QED  BY <3>1 DEF EOFInv, Fields
  <2>3. CASE Finish
    BY <2>3 DEF EOFInv, Finish, ring
  <2>4. CASE ObservePublished
    BY <2>4 DEF EOFInv, ObservePublished, ring, NoTail, Fields
  <2>5. CASE Return
    BY <2>5 DEF EOFInv, Return, EOF, ring, Fields
  <2>6. CASE Again
    BY <2>6 DEF EOFInv, Again, ring, NoTail, Fields
  <2>7. CASE UNCHANGED trVars
    BY <2>7 DEF EOFInv, trVars, ring
  <2> QED  BY <2>1, <2>2, <2>3, <2>4, <2>5, <2>6, <2>7 DEF TrNext
<1> QED  BY <1>1, <1>2, PTL DEF TrSpec

(* EOF is reported only to a reader that is at the end of everything the   *)
(* job wrote or will write, for every interleaving of writes, publication  *)
(* and the steps of tail.                                                  *)
THEOREM EOFIsFinal == TrSpec => []EOFMeansComplete
<1>1. EOFInv => EOFMeansComplete
  BY DEF EOFInv, EOFMeansComplete
<1> QED  BY <1>1, EOFInvAlways, PTL

-----------------------------------------------------------------------------
(* A stretch of a stretch.                                                 *)
LEMMA BytesSlice ==
  ASSUME NEW a \in Nat, NEW b \in Nat, NEW from \in Nat, NEW to \in Nat,
         a <= from, from <= to, to <= b
  PROVE  SubSeq(Bytes(a, b), (from - a) + 1, to - a) = Bytes(from, to)
<1> DEFINE m == (from - a) + 1
           l == to - a
           s == SubSeq(Bytes(a, b), m, l)
<1>1. /\ Bytes(a, b) \in Seq(Nat) /\ Len(Bytes(a, b)) = b - a
      /\ \A i \in 1 .. b - a : Bytes(a, b)[i] = a + i
  BY BytesType
<1>2. /\ Bytes(from, to) \in Seq(Nat) /\ Len(Bytes(from, to)) = to - from
      /\ \A i \in 1 .. to - from : Bytes(from, to)[i] = from + i
  BY BytesType
<1>3. /\ m \in Int /\ l \in Int /\ l - m + 1 = to - from
      /\ (IF m <= l THEN l - m + 1 ELSE 0) = to - from
      /\ \A i \in m .. l : Bytes(a, b)[i] \in Nat
      /\ \A i \in 1 .. to - from : Bytes(a, b)[m + i - 1] = from + i
  BY <1>1
<1> HIDE DEF m, l
<1>4. s \in Seq(Nat)
  BY <1>3, SubSeqProperties
<1>5. Len(s) = to - from
  BY <1>3, SubSeqProperties
<1>6. \A i \in 1 .. l - m + 1 : s[i] = Bytes(a, b)[m + i - 1]
  BY <1>3, SubSeqProperties
<1> HIDE DEF s
<1>7. \A i \in 1 .. to - from : s[i] = Bytes(from, to)[i]
  BY <1>2, <1>3, <1>6
<1>8. s = Bytes(from, to)
  BY <1>2, <1>4, <1>5, <1>7, SeqEqual, Zenon
<1> QED  BY <1>8 DEF s, m, l

(* What readFrom hands out, for a cursor inside the stream.                *)
LEMMA ReadFromExact ==
  ASSUME Offsets, NEW c \in Nat, NEW max \in Nat \ {0}, c <= end
  PROVE  LET got == ReadFrom(c, max)
         IN  /\ got.data = Bytes(c + got.dropped, got.next)
             /\ got.next <= end
             /\ got.data = <<>> => got.next = end
<1> DEFINE k == Clamped(c)
           n == Least(Len(buf) - (k - floor), max)
<1>1. /\ floor \in Nat /\ end \in Nat /\ floor <= end /\ Len(buf) = end - floor
      /\ buf = Bytes(floor, end)
  BY BytesType DEF Offsets
<1>2. k \in Nat /\ floor <= k /\ c <= k /\ k <= end
  BY <1>1 DEF Clamped
<1>3. n \in Nat /\ k + n \in Nat /\ k + n <= end /\ (n = 0 => k + n = end)
  BY <1>1, <1>2 DEF Least
<1>4. ReadFrom(c, max) = [data |-> SubSeq(buf, (k - floor) + 1, (k - floor) + n),
                          next |-> k + n, dropped |-> k - c]
  <2>1. ~(c > end)
    BY <1>1
  <2> QED  BY <2>1, Zenon DEF ReadFrom, Gap
<1> HIDE DEF k, n
<1>5. SubSeq(buf, (k - floor) + 1, (k - floor) + n) = Bytes(k, k + n)
  <2> DEFINE to == k + n
  <2>1. to \in Nat /\ k <= to /\ to <= end /\ to - floor = (k - floor) + n
    BY <1>1, <1>2, <1>3
  <2> HIDE DEF to
  <2>2. SubSeq(Bytes(floor, end), (k - floor) + 1, to - floor) = Bytes(k, to)
    <3>1. floor \in Nat /\ end \in Nat /\ k \in Nat /\ to \in Nat
      BY <1>1, <1>2, <2>1
    <3>2. floor <= k /\ k <= to /\ to <= end
      BY <1>2, <2>1
    <3> QED  BY <3>1, <3>2, BytesSlice
  <2> QED  BY <1>1, <2>1, <2>2, Zenon DEF to
<1>6. c + (k - c) = k
  BY <1>2
<1>7. Bytes(k, k + n) = <<>> => n = 0
  <2>1. k <= k + n /\ (k + n) - k = n
    BY <1>2, <1>3
  <2>2. Len(Bytes(k, k + n)) = n
    BY <1>2, <1>3, <2>1, BytesType
  <2> QED  BY <2>2
<1> DEFINE got == ReadFrom(c, max)
<1>8. got.data = Bytes(k, k + n) /\ got.next = k + n /\ got.dropped = k - c
  BY <1>4, <1>5
<1> HIDE DEF got
<1>9. got.data = Bytes(c + got.dropped, got.next)
  BY <1>6, <1>8
<1>10. got.next <= end /\ (got.data = <<>> => got.next = end)
  BY <1>3, <1>7, <1>8
<1> QED  BY <1>9, <1>10 DEF got

(* A reader that follows next is told of every byte it misses: a tail call *)
(* returns exactly the bytes between the cursor, moved by the gap reported,*)
(* and next, whatever was evicted before the call.                         *)
THEOREM ReadsAreGapless == TrSpec => []ReadHasNoSilentGap
<1>1. TrInit => ReadHasNoSilentGap
  BY DEF TrInit, ReadHasNoSilentGap, NoTail
<1>2. /\ Offsets /\ EOFInv /\ ReadHasNoSilentGap /\ [TrNext]_trVars
      => ReadHasNoSilentGap'
  <2> SUFFICES ASSUME Offsets, EOFInv, ReadHasNoSilentGap, [TrNext]_trVars
               PROVE  ReadHasNoSilentGap'
    OBVIOUS
  <2>1. ASSUME NEW c \in NoCursor .. MaxEnd + 1, NEW max \in 1 .. MaxBytes,
               Read(c, max)
        PROVE  ReadHasNoSilentGap'
    <3> DEFINE got == IF c = NoCursor THEN ReadNewest(max) ELSE ReadFrom(c, max)
    <3>1. tail' = [tail EXCEPT !.at = "bounds", !.cursor = c, !.asked = end,
                     !.data = got.data, !.next = got.next, !.dropped = got.dropped]
      BY <2>1 DEF Read
    <3>2. /\ tail'.at = "bounds" /\ tail'.cursor = c /\ tail'.asked = end
          /\ tail'.data = got.data /\ tail'.next = got.next
          /\ tail'.dropped = got.dropped
      <4> HIDE DEF got
      <4> QED  BY <3>1 DEF EOFInv, Fields
    <3>3. CASE c # NoCursor /\ c <= end
      <4>1. c \in Nat /\ max \in Nat \ {0} /\ got = ReadFrom(c, max)
        BY <3>3, RingBounds DEF NoCursor
      <4> HIDE DEF got
      <4>2. /\ got.data = Bytes(c + got.dropped, got.next)
            /\ got.next <= end
            /\ got.data = <<>> => got.next = end
        BY <3>3, <4>1, ReadFromExact
      <4>3. ~(c > end)
        BY <3>3, <4>1 DEF Offsets
      <4> QED  BY <3>2, <4>2, <4>3 DEF ReadHasNoSilentGap
    <3>4. CASE c # NoCursor /\ c > end
      <4>1. got.data = <<>> /\ got.next = end
        BY <3>4 DEF ReadFrom, PastEnd
      <4> HIDE DEF got
      <4> QED  BY <3>2, <3>4, <4>1 DEF ReadHasNoSilentGap
    <3>5. CASE c = NoCursor
      <4> HIDE DEF got
      <4> QED  BY <3>2, <3>5 DEF ReadHasNoSilentGap
    <3>6. c <= end \/ c > end
      BY RingBounds DEF Offsets, NoCursor
    <3> QED  BY <3>3, <3>4, <3>5, <3>6
  <2>2. CASE ObservePublished
    BY <2>2 DEF ObservePublished, ReadHasNoSilentGap, NoTail
  <2>3. CASE Return
    <3>1. /\ tail.at = "bounds" /\ tail'.cursor = tail.cursor
          /\ tail'.asked = tail.asked /\ tail'.data = tail.data
          /\ tail'.next = tail.next /\ tail'.dropped = tail.dropped
      BY <2>3 DEF Return, EOFInv, Fields
    <3> QED  BY <3>1 DEF ReadHasNoSilentGap
  <2>4. CASE Again
    BY <2>4 DEF Again, ReadHasNoSilentGap, NoTail
  <2>5. CASE UNCHANGED tail
    BY <2>5 DEF ReadHasNoSilentGap
  <2>6. [TrNext]_trVars =>
          \/ UNCHANGED tail \/ ObservePublished \/ Return \/ Again
          \/ \E c \in NoCursor .. MaxEnd + 1, max \in 1 .. MaxBytes : Read(c, max)
    BY DEF TrNext, trVars, Write, Finish
  <2> QED  BY <2>1, <2>2, <2>3, <2>4, <2>5, <2>6
<1> QED  BY <1>1, <1>2, OffsetsAlways, EOFInvAlways, PTL DEF TrSpec
=============================================================================
