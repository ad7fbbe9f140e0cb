# Verification of go-llm

TLA+ models of the concurrent and crash-safe parts of go-llm, the TLC runs that check them on
small instances and the TLAPS proofs that hold for every instance.
`PROJECT.json` lists the same material for tools: components, runs, mutants,
the map from definitions to source lines, findings, hazards and theorems.

Contents: 1 the system, 2 the models and the code, 3 runs, 4 bounds, 5 fairness,
6 proofs, 7 findings, 8 what is abstracted, 9 what is not modelled, 10 plan.

## 1. The system

go-llm is a toolkit for local language models and a terminal coding agent,
Golem. A request enters through an application, the HTTP compatibility server,
the MCP server or the agent loop; the router chooses a provider and walks a
fallback chain; the agent runs tools, some of them as background commands; the
index, the conversation and the configuration live in SQLite and in files.

### Components, their state and what makes them correct

| Component | State | Operations | Correct when |
|---|---|---|---|
| Admission gate, `provider/admission.go` | per model key: in-flight count, backlog gauge, tallies, wake channel | `acquire`, the release closure, `exitWait`, `Close` through the router's `done` | counts are exact, no wake-up is lost, cancel and close always win and always drain |
| Slot source, `provider/slots_openaicompat.go` | cached capacity per key, keys being probed, closed flag, wait group | `RecordUse`, `probe`, `Capacity`, `Close` | one probe per key, no probe outlives `Close`, stale capacities expire |
| Circuit breaker, `provider/circuit_breaker.go` | state, failure count, time of the last failure | `Allow`, `RecordSuccess`, `RecordFailure` | trips at the threshold, recovers only through a probe, the probe is recorded |
| Router and plans, `provider/router.go`, `router_score.go`, `route_plan.go` | breakers, sticky cache, gates; per request the plan and its attempts | `Route`, `ExecuteChat`, `ExecuteChatStream`, `ExecuteGenerate(Stream)`, `ExecuteEmbed` | no spliced answers, no hold-and-wait, only admissible candidates are contacted, errors blame the right party |
| Sticky cache, `provider/router_sticky.go` | route per affinity key, LRU order, expiry | `get`, `put`, `invalidateProvider` | never outranks the breakers |
| Background manager, `agent/tools/background_manager.go`, `background_unix.go` | jobs, active count, completion order, start barrier; per job a process-group guard | `start`, `reap`, `Stop`, `Shutdown` | no slot leaks, no orphan after `Shutdown`, no signal to a reaped group, one kill per job |
| Output ring, `agent/tools/background_buffer.go` | bytes, floor and end offsets | `Write`, `Read`, `Bounds`, and `tail` in the manager | holds the newest bytes, readers learn of every gap, EOF is final |
| Chain routing, `provider/router_chain.go` | none of its own | `RouteChain` | as the router, with the caller's order |
| Model registry and catalog, `provider/model_registry.go` | profiles, generations, pending probes | `Sync`, probes, listing | a late probe never overwrites a newer generation |
| Warmth source, routing feedback | poll results, outcome statistics | poll loop, record | `Close` ends the loop; records follow attempts |
| Destination gate, `provider/destination*.go` | admitted manifest and its generation | admit, bind | no contact outside the manifest in force |
| Provider clients, `provider/openaicompat`, `ollama` | HTTP clients, the shared embedding flight | chat, generate, embed, stream | one flight per batch, abandoned followers do not leak |
| Agent loop, `agent/orchestrator.go`, `dispatch.go` | transcript, budgets, approvals | plan, act, observe | no tool runs unapproved, every call is answered |
| Exec tools and scratch workspaces, `agent/tools` | workspaces on disk | run, apply, discard | scratch changes reach the tree only when applied |
| AgentFlow, `agentflow`, `cmd/golem/agentflow_*.go` | journal, worker leases | run, resume, recover | a task is completed once, also after a crash |
| Index generations, `cmd/golem/index_generation.go`, `index.go`, `source_cmd.go` | generation directories, published pointer, writer lease | build, finalise, publish, resolve, retire, collect | the pointer always names a complete generation, added sources survive a rebuild, an index of denied content is retired |
| Retrieve tool and background indexing, `cmd/golem/ready_retrieve.go`, `auto_index.go` | the installed reader, retired readers and their calls | `Invoke`, `install`, `detach`, `markFailed`, `close` | no reader is closed under a call, no call is served from a superseded index, `close` releases every reader |
| Checkpoint journal, `cmd/golem/checkpoint_journal.go`, `checkpoint_store.go` | checkpoints, rows and receipts in SQLite, the files of the workspace | prepare, write, commit, seal, recover, undo | recovery tells a done mutation from one that was not, undo can be resumed, nothing of the user's is overwritten |
| Configuration documents and profiles, `config/document_*.go`, `profiles/store.go` | a file and its revision, path and document locks | mutate, create, replace | no update of a concurrent writer is lost, the outcome is the save's own |
| Feedback, `cmd/golem/feedback.go`, `feedback/collector.go` | event queue, join tables, open windows, signals | observe, join, record, sweep, close | every event ends in the report once, a retrieval judges a chunk once |
| Prefetch engine, `prefetch` | debounce timer, cache | notify, fetch, cancel | the cache matches the state it is asked for |
| Consult runners, MCP client and server | child processes, sessions, pins | run, call, verify | bounded, and pinned tools do not change silently |
| Golem runtime, `golem/runtime.go`, `session.go`, over `conversation/store.go` | active runs and threads; revisioned conversations | `Run`, `CompactThread`, `Cancel`, `Close`; `Save`, `Delete` | the terminal event agrees with what is stored, deleted turns do not return, `Close` returns |
| Other stores (`rag`, `memory`, `transcript`) | SQLite tables | insert, search, prune | transactions of the database |
| Completion, analysis, fingerprint, profiles, recipes, signing, benches | none shared | data transformations | functional tests |

### How they interact

* `Route` asks `scoreAll` for every candidate. Scoring calls `Allow` on the
  provider's breaker, which may **change** it. The sticky cache is consulted
  after the sort and written afterwards, in two critical sections.
* `Execute*` brackets every provider call with a permit of the admission gate,
  and releases it **before** it acquires the next one of the fallback chain.
  The provider's chunks reach the caller's callback through a wrapper that
  notes whether visible content and an accepted terminal chunk passed.
* The result of each attempt goes to the breaker, an infrastructure error also
  to the sticky cache. The slot source hears of the use of a key and probes
  its backend in a goroutine; the gate reads the cached capacity anew on every
  decision, without its own mutex.
* `Router.Close` closes the `done` channel that queued callers select on.
* The agent's tools share one background manager. Each job has a process
  group, a ring its output is copied to, and a goroutine that reaps it;
  `Stop`, `Shutdown` and the reaper meet at the manager's mutex and at the
  guard that decides who may signal the group.
* Every write of a tool goes through the checkpoint journal: a row and a receipt
  are prepared, the file is checked and renamed into place, and the row is
  committed. `/undo` runs the rows backwards.
* The background indexer builds a generation under the writer lease, opens a
  reader on it, publishes the pointer and installs the reader; `golem index`
  and `golem source` do the first and the third from other processes.
* Several runtimes may share one conversation database. A run loads a snapshot,
  works on it without a lock and saves it against the revision it loaded.
* Tool results and retrieval presentations are posted to the feedback queue,
  which never blocks the agent loop.

### What is hard here

Capacity read outside the lock that uses it; a broadcast channel captured under
a lock and waited on outside; several ready cases of one `select`; results of
calls made before a breaker tripped arriving after it; transport errors after a
complete answer; errors that belong to the caller; a process started while the
manager shuts down; process-group identifiers that the kernel may reuse; flags,
bytes and offsets read at three different moments; crashes between a record, a
rename and a commit; a file edited between a check and a rename; a snapshot
saved after somebody else has saved or deleted; a reader replaced while a call
validates it; a deadline that passes while the worker holds an event. `PROJECT.json` lists each
hazard at its line with the property that would catch it.

## 2. The models and the code

| Module | Models | Kind |
|---|---|---|
| `SlotAdmission` | the gate | state machine, one action per critical section |
| `PermitPool` | what plan execution relies on | abstract specification refined by `SlotAdmission` |
| `CircuitBreaker` | the breaker's methods | functions on a breaker record |
| `RouteExecution` | routing, planning, execution, sticky route | composes the breakers with abstract gates (a permit set per provider, as in `PermitPool`) |
| `SlotSource` | the capacity cache | state machine with time |
| `BackgroundManager` | jobs, reapers, stop, shutdown, process groups | state machine |
| `TailRing` | the output ring and `tail` | state machine |
| `CheckpointJournal` | the journalled write, the store, recovery and undo | state machine with crashes |
| `IndexGeneration` | generations, the pointer, the commands that write them | state machine with crashes and damage |
| `ReadyRetrieve` | the retrieve tool and its readers | state machine |
| `GolemRuntime` | runs and compactions of several runtimes over one store | state machine |
| `DocumentSave` | document saves and `SaveAs` | state machine |
| `FeedbackService` | event queue, worker, collector, close | state machine with time |
| `EmbedFlight` | the shared embedding flight | state machine |
| `MC*` | symmetry, one history variable, instances with several components | instances for TLC |
| `*Proofs` | theorems | TLAPS |

**SlotAdmission.** `inflight`, `waiting` and the tallies are the fields of
`slotGateState`; a gate that does not exist yet reads as zeros. A caller's `pc`
runs through one call of `acquire`: `ReadCapacity` is the unlocked
`source.Capacity`, with the governance bypass and the entry check of the
context; `Admit` and `Park` are the critical section; `SelectWake` and
`SelectTerminal` the cases of the `select`; `Recheck` the terminal checks at
the head of an iteration after a wake-up; `ExitWait` is `exitWait` on both
paths. The wake channel is represented by the set `woken`: parking captures
the current channel (the caller is not in the set), a release closes it
(everyone parked on the key enters the set). `Release` is the call right after
the provider returns and `Backstop` the deferred one, both through the
`sync.Once` closure (`ReleaseOnce`); a panic takes the second path only.

**CircuitBreaker.** Each method is one critical section, so it is a function
from the breaker's state to its next state: `Allows`/`AfterAllow`,
`AfterSuccess`, `AfterFailure`. Ticks replace `time.Since(lastFailure)`, and
the distinction the code draws (`>=` cooldown for a probe, `>` for decay) is
kept.

**RouteExecution.** `Begin` to `PutSticky` are `Route`: candidates are scored
one at a time because `Allow` locks each breaker separately, and other requests
may interleave. `Gated` is a candidate stopped before `Allow` by the memory or
the capability gate. `MakePlan` is the sort, `applySticky` and `buildPlan`.
`Refuse`, `Acquire`, `Chunk`, `Return`, `JudgeInfra`, `DropSticky` and `Finish`
are one attempt of an `Execute` method: binding and admission, the wrapped
callback, release and effective error, `recordFailure` with invalidation and
the next fallback, `recordResult`. `Abandon` is a dry run or a plan that is
never executed.

**SlotSource.** `RecordUse` is the spawn decision with `wg.Add` in the same
critical section; `FetchOK` and `FetchFails` end the HTTP request; `Record` is
the critical section of `probe`, which writes nothing after `Close`; `Exit`
is the deferred `wg.Done`; `Close` and `CloseReturns` the two halves of `Close`.

**BackgroundManager.** A job's `pc` is its start call (`Reserve`, `Spawn` or
`StartFails`, `Register` or `Abandon`) and then its reaper (`Observe`,
`CloseGate`, `Collect`, `Publish`, `Announce`). The guard of `background_unix.go`
is the field `guard`: the first of Kill and Wait closes it and signals the
group. `Shutdown` is the `sync.Once` body with its barrier (`startWG.Wait`),
snapshot, kills and waits; every other caller waits for the same body. A group
has a leader and possibly a descendant, and each may change its uid (`Elevate`,
an approved `sudo`). `Signal` ends the members golem may signal and leaves the
others: `signalProcessGroup` takes EPERM for success (`background_unix.go:143`),
the guard closes, and nobody signals the group again.

**TailRing.** A byte is its position in the stream, so that a wrong byte is a
wrong number. `ObservePublished`, `Read` and `Return` are the three moments at which
`tail` looks at the job: `done`, the bytes, the end.

**CheckpointJournal.** One step is one transaction, one read of the live file or
one rename; what a read found is kept in `pc`, `cur` and `seen` until the
transaction that uses it, and the user, a crash or a failure may come between
them. `BeginTurn`, `Plan`, `Prepare`, `WriteCheck`, `WriteInstall`,
`ObserveWrite`, `Commit`, `SealTurn` are the life of a write: `ObserveWrite` is
the live read of `commit` (`checkpoint_journal.go:298`), the receipt is signed and
verified, and `Commit` is the transaction (`:317`). Each has its failure
(`PrepareOverQuota`, `PrepareFails`, `WriteFails`, `CommitFails`), with the fatal
latch where the code sets it; a transaction that reports an error may have
committed, because `execTx` re-secures the database files after its commit.
`Crash` takes the volatile variables away; `Start`, `RecoverRead`, `RecoverRow`,
`RecoverSeal`, `Recovered` are `recoverStartup`, which judges an unresolved row by
the file alone (`NotLanded`) and then drops or keeps it. `Undo` chooses the
checkpoints, `PreflightRead` reads each of their files once and simulates the
rows in reverse (`Simulated`), `UndoMarks` is `markUndoing`. `RestoreRead` to
`InverseCommit` are `restoreFile`: the first read, `RestoreReached` or the inverse
intent, the recheck, the rename, the read before the inverse receipt is signed,
the transaction. `DeleteRestored` and `UndoDone` end the undo. `Edit` is the
user's editor, at any moment. History variables (`landed`, `lastWriter`,
`pruned`, `touched`, `late`) are read by properties only.

**IndexGeneration.** A writer is `golem index`, the background indexer or a
`golem source` command: `Begin` takes the lease and resolves the pointer,
`Collect` and `Collected` are the collection of old generations and the creation
of the staging directory, `Build` fills it, `Finalize` and `Publish` are the two
renames. Each may fail before or after its effect (`PublishFails` may have
moved the pointer), and `CleanUp`, `AfterPublishFailed`, `Unpublished`, `Retire`
are the deferred functions. `IxCrash` releases the lease, as the kernel does,
and leaves everything else. `Damage` makes a generation unreadable.

**ReadyRetrieve.** A call takes the installed reader (`InvokeTakes`), reads the
pointer outside the lock (`InvokeValidates`), and is admitted under the lock if
the reader is still installed (`InvokeAdmits`); a reader that is no longer
valid is detached. `OpenReader`, `Install`, `AbandonReader`, `IndexFailsOnPolicy`
and `MarkFailed` are the background indexer, `DrainRetired` the goroutine that
closes a retired reader after its calls, `CloseBegins` and `CloseDrains` the
end of the session.

**GolemRuntime.** Each runtime has at most one operation on the thread, a turn
or a compaction: `ReserveTurn` or `ReserveCompaction`, `Load`, `Orchestrate`,
the claim and `SaveTurn`, `Compress`, `SaveCompacted`, `Finish`. The store is one
conversation with a revision, and a floor that survives deletion (the triggers
of `conversation/migration.go`). `Cancel`, `CallerCancels`, `SinkFails` and
`CloseRuntime` may come at any moment.

**DocumentSave.** `SaveAs`, the path lock, the document lock, `Snapshot` (first
check and temporary file), `FinalCheck`, `PublishSave`, `CommitSave`, the
unlock, and only then `ReportSave`, which reads the document's revision again.
A content is its own revision. The history variable `dsForeign` tells the writes
of other programs from those of this process.

**FeedbackService.** `AdmitEvent` is `admit` with its overflow; `Dequeue` to
`FinalSweep` are the worker's loop, with the event in its hand (`fbHand`) as
state because the flags are read again after it is taken; `CloseStops`,
`CloseTimesOut`, `CloseReports` are `close`. An operation of the store succeeds,
fails, or commits and then reports an error.

**EmbedFlight.** `Embed` joins or starts a flight, `AdmitFlight` and `Respond`
are its goroutine, `EmbedReturns` is the caller's `select`. The singleflight
group is external: a flight leaves the group when it lands.

**MCSharedState, MCLifecycle, MCBackgroundManager** host components that do not
interact. A behaviour is one of a single component, chosen by `component` in the
initial state, so the state count is the sum of the components' and not the
product. In `MCLifecycle` the fairness of all three is assumed, which binds only
the chosen one: in their initial states none of the others' fair actions is
enabled.

Every mutant named in `PROJECT.json` stands beside the definition it replaces,
marked `mutant`. No action uses it.

## 3. Runs

| Run | Instance | Checks |
|---|---|---|
| `slot_admission` | 3 callers, 1 key, capacity up to 2 | `NoLostWakeup`, `TerminalSignalsWin`, `AccountingExact`, `ImplementsPool` |
| `slot_admission_live` | 2 callers, 1 key | `ParkedEventuallyMoves`, `TerminalDrains` |
| `route_execution` | 2 requests, 2 providers of 1 slot, threshold 1, 1 fallback | `AnswerIsWhole`, `NoHoldAndWait`, `ClosedBelowThreshold`, `OnlyAllowedPlanned`, `OpenNeverJumpsToClosed` |
| `route_live` | as `route_execution`, no affinity, no callback errors | `PermitsReturn` |
| `probe_recorded` | 1 request, 2 providers | finding 1 |
| `callback_blame` | 1 request, 2 providers | finding 2 |
| `background_manager` | 3 jobs, cap 2, retention 1, 2 hosts; a ring of 3 with 8 bytes written | `BooksExact`, `NoOrphans`, `KillsAreSafe`; `RingIsNewestTail`, `ReadHasNoSilentGap`, `EOFMeansComplete` |
| `background_manager_live` | 2 jobs, 2 hosts | `ShutdownTerminates` |
| `checkpoint_journal` | 1 file, 2 contents, 3 mutations in 3 turns, retention 2, 1 crash, 1 edit | `WritesStayUndoable`, `ResumeAlwaysPossible`, `LedgerTruthful`, `UndoIsExact`, `UserEditsRespected` |
| `shared_state` | 2 writers and 3 generations; 2 savers of 2 documents to 1 path; 2 retrievals and a queue of 2; 2 runtimes and 3 turns; 2 callers and 2 flights | `ActiveIsComplete`, `ManagedSourcesKept`, `PolicyRetiresOldIndex`; `SaveOverwritesOnlySeen`; `ReportBalances`, `JudgedOnce`; `TurnsAsReported`, `DeletedStaysDeleted`; `EachCallItsOwn` |
| `lifecycle` | 2 calls and 3 readers; 2 runtimes, 1 of them closed, 2 turns; 1 key, 2 probes, 2 closers | `ReaderOutlivesCalls`, `ServesActiveGeneration`, `CloseReleasesReaders`; `RuntimeCloses`; `ProbeDiscipline`, `StalenessBounded`, `CloseTerminates` |
| `save_outcome` | 2 savers of 1 document to 2 paths | finding 3 |

What they show, in the order of the table:

* The gate stays exact whatever mix of explicit releases, deferred releases,
  cancellations, `Close` and governance flips happens, and however the capacity
  changes between its unlocked read and its use. Because a decision may use an
  old capacity, a gate can exceed the *current* capacity for a while; what
  holds is that it never exceeds the largest one reported.
  Once a terminal signal is up for a queued call, that call never gets a permit
  and never passes as ungoverned, even when all cases of the `select` are ready.
* A gate refines `PermitPool`: a caller holds at most one permit over all keys,
  the holders of a key are bounded, each permit is given back once.
* If provider calls return, nobody stays parked for good. If they hang for
  ever, cancellation and `Close` still drain the queue.
* Two requests with opposite fallback chains neither deadlock nor hold a permit
  while they wait for another. No order of chunks, errors and fallbacks shows a
  caller content of two providers; after an accepted terminal chunk a transport
  error neither starts a fallback nor turns the attempt into a failure. The
  sticky incumbent never re-enters a plan from which scoring excluded it, even
  though its entry may have been written after its provider failed.
* A breaker never stays closed at its threshold and never goes from open to
  closed directly, for late successes, late failures, decay at the boundary and
  probes in any order.
* No start path leaks or doubles an active slot, and a running job stays
  reachable while completed ones are evicted (`BooksExact`). When `Shutdown`
  returns every leader has been reaped, also of a start that was between spawn
  and registration, and the only process left in any group is a descendant that
  changed its uid: such a process lingers, as the comment of `unixProcess.Kill`
  says (`background_unix.go:107`), and `NoOrphans` carves out exactly it. One kill
  per job and no signal after the leader was reaped (`KillsAreSafe`). `Shutdown`
  returns to every caller although no command exits by itself, with one
  exception: a command that changed its *own* uid cannot be killed, and `Shutdown`
  waits until it exits (`ShutdownTerminates` names that condition).
* The ring holds exactly the newest bytes for writes smaller than, equal to and
  larger than the free space and the capacity; a reader that follows `next`
  learns of every byte it misses; EOF means that the stream is complete.
* Whatever golem wrote and is still in the workspace can be undone until
  retention removes its record, although the process may die between any two of
  record, rename and commit and although the store may fail. A receipt turns
  applied only for a write that landed and whose bytes are in the file, or were
  there when `commit` looked and were replaced by the user while the receipt was
  signed; the evidence of a write that landed is never deleted. An undo that was interrupted anywhere
  passes its own preflight again, ends with the contents before the checkpoint,
  and never replaces bytes that neither it nor the write put there, except in
  the window between check and rename, which the code documents
  (`agent/tools/paths_mutation.go:56`).
* The active pointer always names a finalised generation, also after a
  publication that failed half way; a generation that replaces a published one
  has all of its added sources, because a rebuild refuses when it cannot read the
  old index; a run that met denied content leaves the old index retired or says
  that it could not. `ManagedSourcesKept` is about moves of the pointer from one
  generation to the next. After a policy retirement there is no old index
  (`index_generation.go:349`): the next rebuild starts without the added sources
  and does drop them.
* Two saves of one process never overwrite each other, and a save overwrites
  another program's write only in the window the code documents.
* Every feedback event is completed or dropped by the time `close` reports, for
  overflow, store errors and a deadline that passes while an event is in hand; no
  retrieval judges a chunk twice, also when the store commits and then fails.
* `run.finished` means that the turn is stored, and a cancelled or failed turn is
  not; no save based on an old snapshot, before or after a deletion, brings a
  deleted turn back.
* A caller of a shared embedding flight gets the embedding of its own text, and
  hears of a cancellation only if it was cancelled itself.
* No reader is closed under a call, no call is served from a generation that was
  superseded before the call began, and `close` releases every reader. The
  runtime's `Close` returns although models and summarizers hang.
* A key has at most one probe; after `Close` returned there is none; a probe
  that loses to `Close` writes nothing; a backend that came back smaller is
  over-admitted for at most the lifetime of an entry plus that of a probe; and
  `Close` returns even if no backend answers.

Deadlock is checked in the runs of the router, which never stops. The other
instances stop when their bounds are used up: tallies, starts, mutations,
generations, turns, events, readers.

An instance beyond the runs was checked once: two keys with two callers
(capacity 1, two calls per key; safety, liveness and the refinement; 611 thousand
states). It passed.

## 4. Bounds

* Three callers and a capacity of two are the least for which a caller parks
  behind two holders while one of them releases, or is woken together with a
  newcomer and loses. `MaxTally` limits the calls per key: three calls let one
  caller return to the gate while the others are queued. Zero and ungoverned
  are among the capacities.
* Two providers with one slot and two requests are the least for opposite
  chains; one fallback reaches every branch of the walk since a longer chain
  repeats the same step. Threshold 1 makes every failure trip; larger
  thresholds, where counting and decay matter, are covered by the proofs
  (`BreakersTrip`, `RecoveryNeedsProbe`). Cooldown is one tick: an age can be
  below, at and above it.
* `TTL` and `Timeout` of one tick each make an entry fresh and expired and let
  a probe straddle an expiry. Keys do not interact in the source but for the
  closed flag and the wait group, so one key with two probe goroutines is enough.
* Three starts against a cap of two reach the cap; retention of one evicts; two
  hosts give concurrent `Stop`, `Stop` against `Shutdown`, and two `Shutdown`.
  A group has a leader and possibly one descendant. `MaxElevated` limits the
  groups that have a member out of reach at the same time: one in the safety run
  (2.0 million states), so that such a job meets every step of the others, and
  both jobs in the liveness run.
* A ring of three with writes of one to four bytes covers smaller, equal and
  larger; eight bytes overwrite the ring twice. Cursors go from none to one past
  the end that can be reached.

* Three mutations in three turns reach retention (two checkpoints), a second
  write of the same file inside one checkpoint and across two, and an undo of
  two checkpoints at once; `MaxPrior` of two makes admission prune and refuse.
  One crash and one edit may each fall between any two steps (1.7 million states).
* Three generations are an active one, its successor and one that was never
  published; two vector spaces make a rebuild incompatible, one managed document
  is what can be lost, one damage makes the pointer unresolvable.
* Two contents and two savers with external writers give every order of check,
  foreign write and rename. One path puts both savers behind one lock; finding 3
  needs two.
* A queue of two overflows under four events beside the two retrievals; two ticks
  exceed the window of one.
* Two runtimes are the least for a stale snapshot, three turns let one be saved
  between load and save of another and one be saved after a deletion.
* Two callers and two texts share a flight or not; capacity one queues a flight.
* Three readers are the installed one, a retired one with a call in it and one
  that is opened while both exist.

`Symmetry` is used in safety runs only, over sets whose members the
specification treats alike.

## 5. Fairness

* `SlotAdmission!FairSpec`: weak fairness of each caller's steps inside
  `acquire`. The Go scheduler runs runnable goroutines, and a mutex held for a
  few statements is granted. Nothing is assumed of releases, because a provider
  call may hang; `ParkedEventuallyMoves` names that assumption itself
  (`CallsReturn => ...`). No fairness *between* waiters is assumed, and none is
  claimed: the gate has no queue order, so an unlucky caller may lose to
  newcomers for ever. The property says it is woken, not that it is admitted.
* `RouteExecution!FairSpec`: a request that has begun keeps running and its
  provider calls return; a provider that hangs with a context that never ends
  is outside the claim. `BusySpec`, used only for
  finding 1, adds that time passes, that requests keep coming and that every
  provider is scored with a fitting budget again and again: the conditions
  under which one would expect a breaker to recover.
* `SlotSource!SsFairness`: a cancelled HTTP request ends (`FetchAborts`), the
  rest of a probe and `Close` run. A backend need not answer and time need not
  pass.
* `BackgroundManager!FairSpec`: start calls, reapers, `Stop` and `Shutdown`
  run. Commands need not exit, contexts need not end; SIGKILL does its work on
  those it may be sent to. `ShutdownTerminates` holds on the condition, named in
  it, that no leader stays out of reach for ever
  (`[]<>("rootLeader" \notin live[j])`): golem can neither signal such a command
  nor reap it before it exits.
* `ReadyRetrieve!RrFairness`: calls, the goroutines that drain retired readers and
  `close` run; a retrieval ends because its context ends with the session.
* `GolemRuntime!GrFairness`: store and lock operations and *cancelled* model calls
  end. A model or summarizer call that is not cancelled may hang for ever, which
  is what `RuntimeCloses` is about.

## 6. Proofs

TLAPS proves these for every value of the constants. The assumptions are the
named `ASSUME`s of the modules: finite sets of callers, providers, jobs and
probes (`FiniteCallers`, `FiniteProviders`, `FiniteJobs`, `FiniteProbes`, so that
sets of them can be counted),
positive capacity, threshold, cooldown and ring size (`Bounds`, `BreakerBounds`,
`RouteBounds`, `RingBounds`), natural bounds of the journal
(`BoundsAssumption`, with `Absent` not being a content), and that the values the models use for "nobody"
and for errors are not actors or texts (`IxWritersAssumption`,
`SaversAssumption`, `TextsAssumption`). TLC evaluates them in the runs.

| Theorem | States | Inductive invariant |
|---|---|---|
| `CheckpointProofs!JournalTypeCorrect` | `Spec => []TypeOK` | `Structure` |
| `WritesUndoable` | `[]WritesStayUndoable` | `Structure`, `HistoryGood` |
| `LedgerIsTruthful` | `LedgerTruthful` | `Structure`, `HistoryGood` |
| `EditsRespected` | `UserEditsRespected` | `Structure`, `HistoryGood` |
| `UndoCanResume` | `[]ResumeAlwaysPossible` | itself with `Structure`, `ExactGood` |
| `UndoRestoresExactly` | `UndoIsExact` | the one before |
| `SlotAdmissionProofs!TypeCorrect` | `Spec => []TypeOK` | itself |
| `PermitsAccounted` | `[]PermitAccounting` | itself with types |
| `GaugeExact` | `[]WaitingGauge` | with `BlockedLocations` |
| `AccountsExact` | `[]AccountingExact` | the two before |
| `CapacityRespected` | `[]NeverOverAdmitted` | itself with types |
| `WakeupsNotLost` | `[]NoLostWakeup` | `StillBlocked` and `PermitAccounting` |
| `GateImplementsPool` | `ImplementsPool` | `PermitAccounting`, `NeverOverAdmitted` |
| `TerminalSignalsAlwaysWin` | `MCSpec => []TerminalSignalsWin` | `StillDoomed` |
| `RouteExecutionProofs!TypeCorrect` | `Spec => []TypeOK` | itself |
| `BreakersTrip` | `[]ClosedBelowThreshold` | `AllSound` |
| `RecoveryNeedsProbe` | `OpenNeverJumpsToClosed` | `AllSound` |
| `WaitingHoldsNothing` | `[]NoHoldAndWait` | `HeldForCall` for each request |
| `AnswerFromOneAttempt` | `[]AnswerIsWhole` | `WholeInv` |
| `OnlyScoredArePlanned` | `OnlyAllowedPlanned` | `TypeOK` |
| `BackgroundProofs!BackgroundTypeCorrect` | `Spec => []TypeOK` | `BmInv` |
| `SlotsAndHandlesExact` | `[]BooksExact` | `BmInv` |
| `ShutdownReapsAll` | `[]NoOrphans` | `BmInv` |
| `KillsOnceAndNeverReused` | `[]KillsAreSafe` | `BmInv` |
| `RingKeepsNewest` | `[]RingIsNewestTail` | `Offsets` |
| `EOFIsFinal` | `[]EOFMeansComplete` | `EOFInv` |
| `ReadsAreGapless` | `[]ReadHasNoSilentGap` | itself with `Offsets` |
| `IndexGenerationProofs!ActiveComplete` | `[]ActiveIsComplete` | `IxInv` |
| `SourcesKept` | `ManagedSourcesKept` | `IxInv` |
| `PolicyRetires` | `PolicyRetiresOldIndex` | `IxInv` |
| `SharedStateProofs!SavesOverwriteOnlySeen` | `SaveOverwritesOnlySeen` | `DsInv` |
| `CallsAreTheirOwn` | `[]EachCallItsOwn` | `EfInv` |
| `LifecycleProofs!ReadersOutlive` | `[]ReaderOutlivesCalls` | `RrInv` |
| `ServedActive` | `[]ServesActiveGeneration` | `RrInv` |
| `StalenessIsBounded` | `[]StalenessBounded` | `SsInv` |
| `ProbesAreDisciplined` | `ProbeDiscipline` | `SsInv` |
| `ReportsAreTrue` | `[]TurnsAsReported` | `GrInv` |
| `DeletionIsFinal` | `[]DeletedStaysDeleted` | `GrInv` |
| `FeedbackProofs!NeverJudgedTwice` | `[]JudgedOnce` | `JudgeInv` |
| `ReportsBalance` | `[]ReportBalances` | `Balanced`, `Stopping` |

*The gate.* Two lemmas carry everything: `PermitEffect` (a step grants one
permit, gives one back or touches none) and `BacklogEffect` (the same for the
backlog). The counting arguments then never look at an action again. The
backlog needs `BlockedLocations`, that a caller in the `select` or past it has
blocked, for otherwise `ExitWait` could decrement a gauge it never raised.
`NoLostWakeup` is not inductive: that holders exist follows from the in-flight
count only through `PermitAccounting`. Its inductive core `StillBlocked` says
that the permits which blocked a caller with an open channel are still out; the
only step that lowers the count closes the channel in the same critical section.
The refinement uses `PermitEffect` again, with `inflight < n <= MaxCap` for the
bound. `TerminalSignalsWin` is a property of the instance with the history
variable `doomed`; it becomes inductive with the fact that the signal which
doomed a call is still up (`StillDoomed`): neither a context nor a router comes
back, and the caller's own return is the only step that ends its call.

*The router.* `MethodsSound` is a statement about the breaker's functions
alone, `BreakerStep` says that every step applies one of them (or time), and
the two theorems about breakers follow for any number of requests. Types need
lemmas on sequences (`StickyKeepsSeq`, `CutIsSeq`: moving the incumbent to the
front and cutting keep a non-empty plan over the providers) because `TypeOK`
includes that no walk runs past its plan. `NoHoldAndWait` is strengthened to
`HeldForCall`: a permit is held only during the call it was taken for.
`AnswerIsWhole` needs `Whole`, which says of one request how far its attempt may
be when something is visible: only the attempt being made shows content, only if
it says that it delivered, and an attempt that succeeded is still to be judged
and is judged without an error. `judge` then cannot fall back after a success
(`err` is empty) nor after visible content (`delivered`). That a plan holds only
what scoring allowed is a lemma on sequences (`PlanMadeOf`).

*Background jobs.* `BmInv` joins five views. `Good` relates a job's record to the
members of its process group: once the guard is closed only members out of reach
live, a leader is collected only behind a closed guard and after it has ended, so
a reaped job has at most a descendant out of reach. `Counted` makes `active` and the
wait group cardinalities of sets of jobs. `Listed`: the completed list has every
retained job once. `Owned`: whoever is about to kill a job is alone in that, and
nobody has killed it, which is what makes one kill of many `Stop` and `Shutdown`
calls. `Fenced` is the argument of the barrier: behind it no start is under way
(the wait group is empty, hence the set it counts), no new one can begin
(`closed`), so every job that has a slot is in the snapshot, and `Shutdown` ends
only when each of those is done.

*The ring.* `Offsets` says that floor and end differ by what fits and that the
buffer is the stretch between them; the three cases of `Write` are arithmetic on
stretches (`BytesJoin`, `BytesCut`). A read is a stretch of the buffer again, so
that it has no silent gap is arithmetic on the same lemmas, and stays true
because what was read is never written to again.

*Index generations.* The lease leaves one writer at work at a time, so what it
resolved at the start is still what the pointer names until it publishes itself.
`IxInv` adds that what it builds is a directory of its own that the pointer does
not name, that a built generation keeps the managed documents of the one it
replaces, and that a policy outcome is settled before the writer is done. A
crash frees the lease but leaves the pointer and its target, which is all the
next writer relies on.

*Documents.* `DsInv` says that a saver in its window holds the lock of its path,
and that a replacement about to be renamed has seen the expected revision, which
is still in the file unless another program has written it. A second save of
the process would need the lock (`OneHolder`), so only an `ExternalWrite` can
disturb the second half, and it sets the history flag.

*The journal.* The invariant has three layers. `Structure` is about the tables
and the process: a row in use belongs to a checkpoint that exists, only an open
checkpoint has unapplied rows and only the newest can be open, rows are numbered
in the order of their checkpoints (`Ordered`), and a turn and an undo exclude
each other. It is proved once for each kind of transaction (the `Store`
lemmas), not once for each action. `HistoryGood` says whose bytes a file holds:
the last writer of a file has a row, not restored, whose `after` is in the file
(`WriterGood`). Pruning is the only way to lose such a row, because a row is
dropped as never written only when the write did not land or the file is back at
its prior content, and deleted after an undo only when it is restored. Reads and
the transactions that use them are separate steps, so what a read found must
still be good enough when it is used although the user may have edited since:
`Unneeded` says that a row about to be dropped is nobody's last write,
`ReachedGood` that a row about to be recorded as restored is at its target or its
file was touched, `SeenGood` that a file the preflight has passed still passes or
was touched. `Observed` bytes are in the file or the file is in `late`, which is
the ledger's statement.
`ResumeAlwaysPossible` is about a simulation of everything the undo has still to
do. It is kept because each step restores the newest pending row of all marked
checkpoints, by `Ordered` also across checkpoints, so that the row below it finds
in the file what the simulation promised. Between an inverse write and its record the file is already at the
prior content, which the preflight accepts too. `ExactGood` says where an
interruption left the files: only the newest marked checkpoint has restored rows,
and a file the user left alone holds what its oldest restored row restored, or
what its newest pending row is about to record. When nothing is pending the
oldest restored row is the checkpoint's first, which is `UndoIsExact`. That
finite sets of rows have a newest and an oldest element (`HasMaximum`,
`HasMinimum`) is proved from the well-founded order of finite subsets.

*The retrieve tool.* `RrInv`: exactly the tool's reader is installed; a running
call's reader is installed, retired or closing, because admission demands the
installed one and every close of a reader waits for its calls; and a call past
its validation has seen its generation active.

*The capacity source.* `SsInv`: a probe under way holds its key and nobody else
does, the wait group counts the goroutines, and a Close that returned found
none. For staleness, an observation above the backend's size was made before the
backend last changed (`FetchedLately` in a probe, `CachedLately` in the cache), so
its age bounds the time since that change from above.

*The runtime.* `GrInv` says that revisions only grow: a snapshot whose revision
is the stored one is the stored conversation (`SnapshotGood`), so a save that the
store accepts extends what is there, and a save of a deleted conversation is
refused because the floor is above its revision. `TurnGood` ties the event a turn
is about to report to whether it is in the store, and `OneOwner` and `InOrder`
that no two runs share an ID.

*Feedback.* The property is not inductive after a store that commits and then
reports an error: the worker's memory then disagrees with the store. `JudgeInv`
therefore says that either the worker will handle nothing any more (`Spent`,
because such an error disables it), or every call is in order: it announces
itself once, nothing is recorded before its window opens, and a recorded signal
is remembered. `Balanced`: an attempted event is completed, dropped, in the queue
or in the worker's hand. `Stopping`: the queue is empty once the worker is gone.

*Embedding flights.* A landing answers every member with the flight's key, so
`EfInv` needs that the members asked for that key and that a caller is a member
of one flight only (`OneFlight`).

*Proved only.* `TypeOK`, `NeverOverAdmitted`, and the two halves of
`AccountingExact` by themselves are theorems and no longer separate checks.

*Model-checked only.* Liveness (`ParkedEventuallyMoves`, `TerminalDrains`,
`PermitsReturn`, `CloseTerminates`, `ShutdownTerminates`, `RuntimeCloses`,
`CloseReleasesReaders`) is outside the prover's reach. The three properties that
the code violates are counterexamples of TLC. Every other property of the runs
is a theorem above.

## 7. Findings

1. **A probe that is granted need not be recorded** (`probe_recorded`).
   Scoring calls `Allow`, which moves an open breaker to half-open, for every
   candidate that passes the earlier gates. If the candidate is then not
   contacted (it loses, does not fit the budget, the run is dry, admission or
   the destination gate refuses), or ends in an error that is not an
   infrastructure error, nothing is recorded, and half-open refuses everyone
   from then on. Comments at `circuit_breaker.go:89` and `router_score.go:246`
   promise recovery. In the trace `p1` trips, a later request is scored, uses up
   the probe and is served by `p2`; `p1` is never routed again.
2. **An error of the caller's callback is blamed on the provider**
   (`callback_blame`). The stream methods classify whatever error the call
   returned; if the callback failed with a network error, because the client
   of the HTTP server has gone, the provider's breaker counts it. The comment at
   `route_plan.go:427` says that such an abort is not a provider failure.
3. **A save may report another save's revision** (`save_outcome`). `SaveAs`
   evaluates `d.Revision()` after the save has unlocked the document
   (`profiles/store.go:331` and `:333`), so a second save of the same document to
   another profile, with an edit in between, can commit first. The comment at
   `profiles/store.go:265` says that the outcome reports what `SaveAs` did. A
   caller that passes this revision to its next overwrite compares against a
   content it did not write and gets a conflict.

## 8. What is abstracted

* **Router.** One model per provider, so key and provider coincide. Scores are
  any order of the executable candidates, which covers the hysteresis margin.
  Budget, RAM and capability verdicts are inputs. A cancelled context is an
  error that is not an infrastructure error; closing the router appears as a
  refusal. The gate inside `RouteExecution` has a constant capacity; how it
  behaves when capacity changes is `SlotAdmission`'s subject. A provider sends
  no chunk after an accepted terminal one, as the clients in `src/` do. The
  non-streaming methods are streams without chunks. One sticky entry stands for
  the cache: all requests with affinity share the key, expiry and eviction may
  happen at any time.
* **Gate.** Keys, not model names. `snapshot` only reads.
* **Slot source.** Pinned and ungoverned keys have a constant answer and never
  probe, and are left out. A probe never outlives its deadline: the HTTP client
  enforces it.
* **Background manager.** The command's output has been copied when `Wait`
  returns, as `exec.Cmd` guarantees. `startWG.Done` is taken together with the
  critical section before it: it only enables `Shutdown`, so delaying it adds no
  behaviour. SIGKILL takes effect at once. An exit observer that fails leads to
  a signal to a group that may be alive (`ObserveFails`). A completed job that
  is evicted between publication and `close(done)` is not awaited by `Shutdown`;
  its process is gone by then, which is what `NoOrphans` demands. EPERM and
  ESRCH are success, as in the code; other errors of the signal call are left
  out. A group that still has members keeps its identifier. The Unix guard is
  modelled; other platforms refuse to start background commands.
* **Checkpoint journal.** A content is its own hash; every prior content counts
  one unit of the quota; file modes and receipts' signatures are left out, and so
  is the branch of `reconcileInverseIntent` for a completed inverse, which only a
  changed database reaches. Crashes are those of the process: what SQLite
  committed and what was renamed stays. The mutating tools differ only in how
  they compute the new content, so `Plan` picks one.
* **Index generations.** A generation is its managed documents, whether the
  workspace was walked, and its vector space. The layout before generations and
  power loss are left out. Writers wait for the lease by being disabled.
* **Retrieve tool.** A reader stands also for the generation it is bound to.
* **Runtime.** One thread. Answers are turn numbers; a compaction moves turns into
  the summary. Duplicate run identifiers, event formats, `Replace` and
  permissions are left out.
* **Documents.** Rendering a draft is a function of the draft. Durability
  warnings count as success, as `saveOutcomeFromErr` treats them.
* **Feedback.** One run; a path has one chunk, and every retrieval presents all of
  them. Weights are left out. The collector that sweeps by itself
  (`NewCollector`) is not used by the program.
* **Embedding flight.** The admission gate is a count of permits, as in
  `PermitPool`. Denied content is refused before the flight and left out.
* **Ring.** Bytes are positions. Rendering of the chunk by the tool is left out.

## 9. What is not modelled

Formatting, wording, logging, wire formats and prompts; floating-point scoring
and ranking; SQL stores, whose guarantees are the database's; sandbox policies,
which are the operating system's; benchmarks. The components with a protocol of
their own that are not modelled *yet* are in the plan.

## 10. Plan

Models to add, most important first:

1. `StickyCache`: many keys, LRU order and expiry; `RouteExecution`'s single
   entry as its abstraction. `RouteChain` on top of `CircuitBreaker`.
2. `ModelRegistry` and `DestinationGate`: generations and late results.
3. `AgentLoop` and `AgentFlow`: dispatch, approval, budget stop; workers, journal,
   recovery.
4. `Prefetch`: debounce and cancellation.

Proofs to add: those of the models above. The safety and action properties of the
present models are proved; their liveness stays with TLC.
