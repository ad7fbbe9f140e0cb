-------------------------- MODULE BackgroundManager --------------------------
(***************************************************************************)
(* The owner of detached background commands                               *)
(* (agent/tools/background_manager.go with the process guard of            *)
(* background_unix.go): admission against the active cap, registration,    *)
(* one reaper per job, retention of completed jobs, Stop and Shutdown.     *)
(*                                                                         *)
(* A job stands for one start call: the handle drawn for it is redrawn     *)
(* until it is not taken.  Critical sections of the manager mutex and of   *)
(* the guard's mutex are one action each; the startWG.Done that follows a  *)
(* critical section is taken with it, since it only lets Shutdown go on.   *)
(* SIGKILL takes effect at once on the members that may be signalled.  A   *)
(* member whose real uid changed (an approved sudo) may not: kill reports  *)
(* EPERM, or signals the rest of the group, and the guard closes anyway.   *)
(***************************************************************************)
EXTENDS Integers, Sequences, FiniteSets

CONSTANTS Jobs,         \* the start calls of a run
          Hosts,        \* callers of Stop and Shutdown
          ActiveCap,    \* backgroundActiveCap
          RetainedCap,  \* backgroundRetainedCap
          MaxElevated   \* bound: groups with a member out of reach at a time

ASSUME FiniteJobs == IsFiniteSet(Jobs)
ASSUME CapBounds == ActiveCap \in Nat \ {0} /\ {RetainedCap, MaxElevated} \subseteq Nat

VARIABLES
  closed,      \* no more starts are admitted
  active,      \* running jobs and reserved starts
  wg,          \* startWG
  known,       \* the jobs map
  completed,   \* completion order, oldest first
  job,         \* each job, its start call and its reaper
  live,        \* live members of each process group
  host,        \* each caller of Stop or Shutdown
  shut,        \* progress of the Once body of Shutdown
  kills,       \* history: Kill calls per registered job
  misfired     \* history: groups signalled after their leader was reaped

books == <<closed, active, wg, known, completed>>
vars == <<books, job, live, host, shut, kills, misfired>>

(* pc of a job: its start call up to registration or abandonment, then its *)
(* reaper.                                                                 *)
Places == {"new", "reserved", "spawned", "kill", "observe", "close",
           "collect", "publish", "announce", "release", "over"}

(* Members of a process group: the command itself and a descendant, each   *)
(* under golem's uid or, after it changed its uid, out of reach.           *)
Ours == {"leader", "child"}
Elevated == {"rootLeader", "rootChild"}
Leaders == {"leader", "rootLeader"}

(* The leader has been collected.                                          *)
Reaped == {"publish", "announce", "release", "over"}

NewJob == [pc |-> "new", registered |-> FALSE, running |-> FALSE,
           killRequested |-> FALSE, state |-> "none", done |-> FALSE,
           guard |-> "open", code |-> "none"]

JobStates ==
  [pc : Places, registered : BOOLEAN, running : BOOLEAN,
   killRequested : BOOLEAN, state : {"none", "running", "exited", "killed"},
   done : BOOLEAN, guard : {"open", "manager", "wait"},
   code : {"none", "exit", "signal"}]

HostIdle == [at |-> "idle", job |-> {}]

Init ==
  /\ closed = FALSE /\ active = 0 /\ wg = 0 /\ known = {} /\ completed = <<>>
  /\ job = [j \in Jobs |-> NewJob]
  /\ live = [j \in Jobs |-> {}]
  /\ host = [h \in Hosts |-> HostIdle]
  /\ shut = [at |-> "no", jobs |-> {}, toKill |-> {}]
  /\ kills = [j \in Jobs |-> 0] /\ misfired = {}

Put(j, rec) == job' = [job EXCEPT ![j] = rec]

LeaderLives(j) == live[j] \cap Leaders # {}

-----------------------------------------------------------------------------
(* start: admission, the checks in the order of the code.                  *)
Admitted == ~closed /\ active < ActiveCap

Reserve(j) ==
  /\ job[j].pc = "new" /\ Admitted
  /\ active' = active + 1 /\ wg' = wg + 1
  /\ Put(j, [job[j] EXCEPT !.pc = "reserved"])
  /\ UNCHANGED <<closed, known, completed, live, host, shut, kills, misfired>>

(* The context is done or the backend cannot start the command.            *)
StartFails(j) ==
  /\ job[j].pc = "reserved"
  /\ Put(j, [job[j] EXCEPT !.pc = "release"])
  /\ UNCHANGED <<books, live, host, shut, kills, misfired>>

(* backend.Start: the command leads its own process group and may leave a  *)
(* descendant in it.                                                       *)
Spawn(j, members) ==
  /\ job[j].pc = "reserved"
  /\ live' = [live EXCEPT ![j] = members]
  /\ Put(j, [job[j] EXCEPT !.pc = "spawned"])
  /\ UNCHANGED <<books, host, shut, kills, misfired>>

(* Registration is the linearization point.  A manager that has closed, or *)
(* a context that is done, turns the start into a synchronous reap.        *)
Register(j) ==
  /\ job[j].pc = "spawned" /\ ~closed
  /\ known' = known \cup {j}
  /\ wg' = wg - 1
  /\ Put(j, [job[j] EXCEPT !.pc = "observe", !.registered = TRUE,
                           !.running = TRUE, !.state = "running"])
  /\ UNCHANGED <<closed, active, completed, live, host, shut, kills, misfired>>

Abandon(j) ==
  /\ job[j].pc = "spawned"
  /\ Put(j, [job[j] EXCEPT !.pc = "kill"])
  /\ UNCHANGED <<books, live, host, shut, kills, misfired>>

(* processGroupGuard.close: the first close signals the group; later ones  *)
(* do nothing, also if the first reached nobody (EPERM counts as success). *)
(* who tells a Kill from the residual signal of Wait.                      *)
Signal(j, who, rec) ==
  IF job[j].guard = "open"
    THEN /\ live' = [live EXCEPT ![j] = @ \ Ours]
         /\ misfired' = IF job[j].pc \in Reaped
                          THEN misfired \cup {j} ELSE misfired
         /\ Put(j, [rec EXCEPT !.guard = who,
                               !.code = IF "leader" \in live[j] THEN "signal"
                                                                ELSE @])
    ELSE /\ Put(j, rec)
         /\ UNCHANGED <<live, misfired>>

(* Abandoned: kill, then wait like a reaper, then undo the reservation.    *)
AbandonKill(j) ==
  /\ job[j].pc = "kill"
  /\ Signal(j, "manager", [job[j] EXCEPT !.pc = "observe"])
  /\ UNCHANGED <<books, host, shut, kills>>

SlotKept == active                                          \* mutant
SlotReturned == active - 1

ReleaseReservation(j) ==
  /\ job[j].pc = "release"
  /\ active' = SlotReturned /\ wg' = wg - 1
  /\ Put(j, [job[j] EXCEPT !.pc = "over"])
  /\ UNCHANGED <<closed, known, completed, live, host, shut, kills, misfired>>

-----------------------------------------------------------------------------
(* The process: the leader or a descendant exits, the leader with a code   *)
(* of its own or through a signal from outside.                            *)
Exits(j, member, how) ==
  /\ member \in live[j]
  /\ live' = [live EXCEPT ![j] = @ \ {member}]
  /\ IF member \in Leaders THEN Put(j, [job[j] EXCEPT !.code = how])
                           ELSE UNCHANGED job
  /\ UNCHANGED <<books, host, shut, kills, misfired>>

(* A member runs on under another uid.                                     *)
Elevate(j, member, root) ==
  /\ member \in live[j]
  /\ Cardinality({k \in Jobs \ {j} : live[k] \cap Elevated # {}}) < MaxElevated
  /\ live' = [live EXCEPT ![j] = (@ \ {member}) \cup {root}]
  /\ UNCHANGED <<books, job, host, shut, kills, misfired>>

(* unixProcess.Wait: observe the exit without reaping, close the signal    *)
(* gate with one residual signal, only then collect the child.             *)
Observe(j) ==
  /\ job[j].pc = "observe" /\ ~LeaderLives(j)
  /\ Put(j, [job[j] EXCEPT !.pc = "close"])
  /\ UNCHANGED <<books, live, host, shut, kills, misfired>>

(* The observer itself fails: the gate closes on a command that may still  *)
(* be running.                                                             *)
ObserveFails(j) ==
  /\ job[j].pc = "observe" /\ LeaderLives(j)
  /\ Put(j, [job[j] EXCEPT !.pc = "close"])
  /\ UNCHANGED <<books, live, host, shut, kills, misfired>>

GateLeftOpen(j) ==                                          \* mutant
  Put(j, [job[j] EXCEPT !.pc = "collect"]) /\ UNCHANGED <<live, misfired>>
GateClosed(j) == Signal(j, "wait", [job[j] EXCEPT !.pc = "collect"])

CloseGate(j) ==
  /\ job[j].pc = "close"
  /\ GateClosed(j)
  /\ UNCHANGED <<books, host, shut, kills>>

Collect(j) ==
  /\ job[j].pc = "collect" /\ ~LeaderLives(j)
  /\ Put(j, [job[j] EXCEPT !.pc = IF job[j].registered THEN "publish"
                                                       ELSE "release"])
  /\ UNCHANGED <<books, live, host, shut, kills, misfired>>

(* reap: the exit state, the active slot and retention in one critical     *)
(* section; done closes after it.  A job counts as killed if a Kill closed *)
(* the gate and the leader died of a signal.                               *)
ManagerKilled(j) == job[j].guard = "manager" /\ job[j].code = "signal"

(* Completed jobs beyond the newest RetainedCap are forgotten.             *)
Excess(seq) == IF Len(seq) > RetainedCap THEN Len(seq) - RetainedCap ELSE 0
Forgotten(seq) == {seq[i] : i \in 1 .. Excess(seq)}

Publish(j) ==
  /\ job[j].pc = "publish"
  /\ active' = active - 1
  /\ LET all == Append(completed, j)
     IN /\ completed' = SubSeq(all, Excess(all) + 1, Len(all))
        /\ known' = known \ Forgotten(all)
  /\ Put(j, [job[j] EXCEPT !.pc = "announce", !.running = FALSE,
               !.state = IF ManagerKilled(j) THEN "killed" ELSE "exited"])
  /\ UNCHANGED <<closed, wg, live, host, shut, kills, misfired>>

Announce(j) ==
  /\ job[j].pc = "announce"
  /\ Put(j, [job[j] EXCEPT !.pc = "over", !.done = TRUE])
  /\ UNCHANGED <<books, live, host, shut, kills, misfired>>

-----------------------------------------------------------------------------
(* Stop: a running job is marked, killed by whoever marked it first, and   *)
(* awaited until done closes or the caller's context ends.  Stop of an     *)
(* unknown or a finished job changes nothing.                              *)
NeedKillInverted(j) == job[j].killRequested                 \* mutant
NeedKill(j) == ~job[j].killRequested

Stop(h, j) ==
  /\ host[h].at = "idle" /\ j \in known /\ job[j].running
  /\ host' = [host EXCEPT ![h] = [at |-> IF NeedKill(j) THEN "kill" ELSE "wait",
                                  job |-> {j}]]
  /\ Put(j, [job[j] EXCEPT !.killRequested = TRUE])
  /\ UNCHANGED <<books, live, shut, kills, misfired>>

(* Kill on a registered job, by Stop or by Shutdown.                       *)
Kill(j) ==
  /\ Signal(j, "manager", job[j])
  /\ kills' = [kills EXCEPT ![j] = @ + 1]

StopKill(h) ==
  /\ host[h].at = "kill"
  /\ \E j \in host[h].job : Kill(j)
  /\ host' = [host EXCEPT ![h].at = "wait"]
  /\ UNCHANGED <<books, shut>>

StopReturns(h) ==
  /\ host[h].at = "wait" /\ \A j \in host[h].job : job[j].done
  /\ host' = [host EXCEPT ![h] = HostIdle]
  /\ UNCHANGED <<books, job, live, shut, kills, misfired>>

StopGivesUp(h) ==
  /\ host[h].at = "wait"
  /\ host' = [host EXCEPT ![h] = HostIdle]
  /\ UNCHANGED <<books, job, live, shut, kills, misfired>>

(* Shutdown: the first caller runs the body, every caller waits for it.    *)
Shutdown(h) ==
  /\ host[h].at = "idle"
  /\ host' = [host EXCEPT ![h].at = "shutdown"]
  /\ IF shut.at = "no" THEN shut' = [shut EXCEPT !.at = "barrier"]
                       ELSE UNCHANGED shut
  /\ closed' = TRUE
  /\ UNCHANGED <<active, wg, known, completed, job, live, kills, misfired>>

(* startWG.Wait, then the snapshot of the known jobs.                      *)
NoBarrier == TRUE                                           \* mutant
BarrierPassed == wg = 0

Snapshot ==
  /\ shut.at = "barrier" /\ BarrierPassed
  /\ LET toKill == {j \in known : job[j].running /\ ~job[j].killRequested}
     IN /\ shut' = [at |-> "kill", jobs |-> known, toKill |-> toKill]
        /\ job' = [j \in Jobs |-> IF j \in toKill
                     THEN [job[j] EXCEPT !.killRequested = TRUE] ELSE job[j]]
  /\ UNCHANGED <<books, live, host, kills, misfired>>

ShutdownKill(j) ==
  /\ shut.at = "kill" /\ j \in shut.toKill
  /\ Kill(j)
  /\ shut' = [shut EXCEPT !.toKill = @ \ {j}]
  /\ UNCHANGED <<books, host>>

(* Every job of the snapshot is awaited, also one whose reaper is between  *)
(* publishing and closing done.                                            *)
ShutdownDone ==
  /\ shut.at = "kill" /\ shut.toKill = {}
  /\ \A j \in shut.jobs : job[j].done
  /\ shut' = [at |-> "finished", jobs |-> {}, toKill |-> {}]
  /\ UNCHANGED <<books, job, live, host, kills, misfired>>

ShutdownReturns(h) ==
  /\ host[h].at = "shutdown" /\ shut.at = "finished"
  /\ host' = [host EXCEPT ![h].at = "gone"]
  /\ UNCHANGED <<books, job, live, shut, kills, misfired>>

StartStep(j) ==
  \/ StartFails(j)
  \/ \E child \in SUBSET {"child"} : Spawn(j, {"leader"} \cup child)
  \/ Register(j) \/ Abandon(j) \/ AbandonKill(j) \/ ReleaseReservation(j)

ReapStep(j) ==
  Observe(j) \/ CloseGate(j) \/ Collect(j) \/ Publish(j) \/ Announce(j)

StopStep(h) == StopKill(h) \/ StopReturns(h)

ShutdownStep == Snapshot \/ ShutdownDone \/ \E j \in Jobs : ShutdownKill(j)

Next ==
  \/ \E j \in Jobs :
       \/ Reserve(j) \/ StartStep(j) \/ ReapStep(j) \/ ObserveFails(j)
       \/ \E m \in Ours \cup Elevated, how \in {"exit", "signal"} :
            Exits(j, m, how)
       \/ Elevate(j, "leader", "rootLeader") \/ Elevate(j, "child", "rootChild")
  \/ \E h \in Hosts : StopStep(h) \/ StopGivesUp(h)
                        \/ Shutdown(h) \/ ShutdownReturns(h)
  \/ \E h \in Hosts, j \in Jobs : Stop(h, j)
  \/ ShutdownStep

Spec == Init /\ [][Next]_vars

(* Goroutines that can run do.  Commands need not exit by themselves, no   *)
(* context need end, and nobody has to call anything.                      *)
FairSpec ==
  /\ Spec
  /\ \A j \in Jobs : WF_vars(StartStep(j)) /\ WF_vars(ReapStep(j))
  /\ \A h \in Hosts : WF_vars(StopStep(h)) /\ WF_vars(ShutdownReturns(h))
  /\ WF_vars(ShutdownStep)

-----------------------------------------------------------------------------
(* Types.                                                                  *)
TypeOK ==
  /\ closed \in BOOLEAN /\ active \in 0 .. ActiveCap /\ wg \in Nat
  /\ known \subseteq Jobs /\ completed \in Seq(Jobs)
  /\ job \in [Jobs -> JobStates]
  /\ live \in [Jobs -> SUBSET (Ours \cup Elevated)]
  /\ host \in [Hosts -> [at : {"idle", "kill", "wait", "shutdown", "gone"},
                         job : SUBSET Jobs]]
  /\ shut \in [at : {"no", "barrier", "kill", "finished"},
               jobs : SUBSET Jobs, toKill : SUBSET Jobs]
  /\ kills \in [Jobs -> Nat] /\ misfired \subseteq Jobs

(* A slot is taken by exactly the starts under way and the jobs whose      *)
(* completion is not published: no path leaks one or returns it twice.     *)
ActiveExact ==
  /\ active = Cardinality({j \in Jobs :
               job[j].pc \notin {"new", "announce", "over"}})
  /\ active <= ActiveCap

(* When Shutdown has returned to any caller every leader has been reaped,  *)
(* also of a start that was under way when it began, and the only process  *)
(* left in any group is a descendant that changed its uid, the limitation  *)
(* that the comment of unixProcess.Kill names.                             *)
NoOrphans ==
  shut.at = "finished" =>
    \A j \in Jobs : /\ job[j].pc \in {"new", "announce", "over"}
                    /\ live[j] \subseteq {"rootChild"}

(* The kill is issued at most once per job across all Stop and Shutdown    *)
(* calls, and never to a process group whose leader has been reaped: its   *)
(* ID may belong to somebody else by then.                                 *)
KillsAreSafe == misfired = {} /\ \A j \in Jobs : kills[j] <= 1

(* Retention forgets completed jobs only: a running job can always be      *)
(* stopped by its handle, and the newest completed jobs stay readable.     *)
RunningStaysKnown ==
  known = {j \in Jobs : job[j].running}
            \cup {completed[i] : i \in DOMAIN completed}

(* Both books of the manager at once.                                      *)
BooksExact == ActiveExact /\ RunningStaysKnown

(* Shutdown returns, whatever starts, stops and exits are in flight and    *)
(* although no command exits by itself, except that a command which        *)
(* changed its own uid holds it up until it exits.                         *)
ShutdownTerminates ==
  (\A j \in Jobs : []<>("rootLeader" \notin live[j]))
    => \A h \in Hosts : host[h].at = "shutdown" ~> host[h].at = "gone"
=============================================================================
