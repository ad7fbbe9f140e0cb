------------------------- MODULE CheckpointJournal -------------------------
(***************************************************************************)
(* The durable undo journal of the golem REPL                              *)
(* (cmd/golem/checkpoint_journal.go and checkpoint_store.go) together with *)
(* the journalled write of the mutating tools (agent/tools/mutate.go,      *)
(* write.go and paths_mutation_unix.go).                                   *)
(*                                                                         *)
(* Durable: the workspace files, the checkpoints, one row per recorded     *)
(* mutation and the receipt ledger.  Volatile: where the process is, the   *)
(* fatal latch and the turn's checkpoint.  One step is one transaction,    *)
(* one read of the live file or one rename, so that the user's editor and  *)
(* a crash can come between any two of them; signing happens in between.   *)
(* What a read found is kept in pc and cur until the transaction that uses *)
(* it.  A transaction that fails may have committed: execTx re-secures the *)
(* database files afterwards and reports an error of that, too.  Row       *)
(* numbers double as mutation identifiers; a content hash is the content.  *)
(***************************************************************************)
EXTENDS Integers, FiniteSets, FiniteSetsExt

CONSTANTS Paths, Contents, Absent,
          MaxMutations,     \* bound: mutations ever prepared
          MaxTurns,         \* bound: checkpoints ever created
          MaxRetained,      \* maxCheckpoints
          MaxPrior,         \* maxPriorBytes, every prior content counting 1
          MaxCrashes,       \* bound: crashes
          MaxEdits          \* bound: edits by the user

ASSUME BoundsAssumption ==
  /\ {MaxMutations, MaxTurns, MaxRetained, MaxPrior, MaxCrashes, MaxEdits} \subseteq Nat
  /\ Absent \notin Contents

Mutations == 1..MaxMutations

Checkpoints == 1..MaxTurns

FileStates == Contents \cup {Absent}

NoRow == [cp |-> 0, path |-> Absent, prior |-> Absent, after |-> Absent,
          applied |-> FALSE, restored |-> FALSE, inverse |-> "none"]

VARIABLES
  files,      \* the workspace
  cps,        \* state of every checkpoint; "none" before creation and after deletion
  rows,       \* checkpoint_files
  ledger,     \* mutation_receipts of forward mutations; survives pruning and undo
  pc,         \* what the process is doing; "down" when it does not run
  fatal,      \* the latch
  cpID,       \* the open turn's checkpoint, 0 if none yet
  plan,       \* the approved mutation: path, content read, content to write
  cur,        \* the row being written or restored
  batch,      \* the checkpoints of the undo in progress
  seen,       \* the files its preflight has read
  nextRow, nextCp, crashes, edits,
  \* history, read by properties only
  landed,     \* mutations whose write reached the workspace
  lastWriter, \* whose bytes each file holds: a mutation's, 0 for the user's or undo's
  pruned,     \* mutations whose rows retention removed
  touched,    \* files the user edited since the undo in progress began
  late        \* files the user edited since golem last checked a file

durable == <<files, cps, rows, ledger>>
history == <<landed, lastWriter, pruned, touched, late>>
bounds == <<nextRow, nextCp, crashes, edits>>
vars == <<durable, pc, fatal, cpID, plan, cur, batch, seen, bounds, history>>

RowsOf(c) == {m \in Mutations : rows[m].cp = c}

InState(s) == {c \in Checkpoints : cps[c] = s}

NoPlan == [path |-> Absent, prior |-> Absent, after |-> Absent]

Init ==
  /\ files \in [Paths -> FileStates]
  /\ cps = [c \in Checkpoints |-> "none"]
  /\ rows = [m \in Mutations |-> NoRow]
  /\ ledger = [m \in Mutations |-> "none"]
  /\ pc = "down" /\ fatal = FALSE /\ cpID = 0 /\ plan = NoPlan /\ cur = 0
  /\ batch = {} /\ seen = {}
  /\ nextRow = 1 /\ nextCp = 1 /\ crashes = 0 /\ edits = 0
  /\ landed = {} /\ pruned = {} /\ touched = {} /\ late = {}
  /\ lastWriter = [p \in Paths |-> 0]

-----------------------------------------------------------------------------
(* The store's deletions *)

\* deleteCheckpointTx: the checkpoint and its rows; the ledger stays.
Without(rs, C) == [m \in Mutations |-> IF rs[m].cp \in C THEN NoRow ELSE rs[m]]

Gone(cs, C) == [c \in Checkpoints |-> IF c \in C THEN "none" ELSE cs[c]]

\* The oldest k completed checkpoints.
Oldest(k) == {c \in InState("completed") :
                Cardinality({d \in InState("completed") : d < c}) < k}

PriorBytes(rs) == Cardinality({m \in Mutations : rs[m].cp # 0 /\ rs[m].prior # Absent})

Fits(k, prior) ==
  PriorBytes(Without(rows, Oldest(k))) + (IF prior = Absent THEN 0 ELSE 1) <= MaxPrior

\* Prunings that make the new intent fit: the least number of oldest completed
\* checkpoints, or none if even all of them are not enough.
Admissions(prior) ==
  {k \in 0..Cardinality(InState("completed")) :
     Fits(k, prior) /\ \A j \in 0..(k - 1) : ~Fits(j, prior)}

\* Count retention of seal: all but the MaxRetained newest completed ones.
Excess(cs) ==
  LET done == {c \in Checkpoints : cs[c] = "completed"}
  IN  {c \in done : Cardinality({d \in done : d > c}) >= MaxRetained}

-----------------------------------------------------------------------------
(* A turn *)

BeginTurn ==
  /\ pc = "idle" /\ ~fatal
  /\ InState("undoing") = {}
  /\ pc' = "turn" /\ cpID' = 0
  /\ UNCHANGED <<durable, fatal, plan, cur, batch, seen, bounds, history>>

\* Plan of write_file or edit_file: reads the file, fixes the bytes to write.
Plan(p, c) ==
  /\ pc = "turn" /\ nextRow <= MaxMutations
  /\ InState("open") = {} => nextCp <= MaxTurns
  /\ plan' = [path |-> p, prior |-> files[p], after |-> c]
  /\ pc' = "planned"
  /\ UNCHANGED <<durable, fatal, cpID, cur, batch, seen, bounds, history>>

OpenCheckpoint == IF InState("open") = {} THEN nextCp ELSE CHOOSE o \in InState("open") : TRUE

\* prepareSignedIntent: receipt, pruning, checkpoint and row in one transaction.
PrepareIntent(k) ==
  /\ cps' = [Gone(cps, Oldest(k)) EXCEPT ![OpenCheckpoint] = "open"]
  /\ rows' = [Without(rows, Oldest(k)) EXCEPT ![nextRow] =
                [NoRow EXCEPT !.cp = OpenCheckpoint, !.path = plan.path,
                              !.prior = plan.prior, !.after = plan.after]]
  /\ ledger' = [ledger EXCEPT ![nextRow] = "intent"]
  /\ pruned' = pruned \cup {m \in Mutations : rows[m].cp \in Oldest(k)}
  /\ nextCp' = IF InState("open") = {} THEN nextCp + 1 ELSE nextCp
  /\ nextRow' = nextRow + 1

Prepare ==
  /\ pc = "planned"
  /\ \E k \in Admissions(plan.prior) : PrepareIntent(k)
  /\ pc' = "prepared" /\ cur' = nextRow /\ cpID' = OpenCheckpoint
  /\ UNCHANGED <<files, fatal, plan, batch, seen, crashes, edits, landed, lastWriter, touched,
                 late>>

\* errCheckpointQuota: the transaction rolls back and the turn is cancelled.
PrepareOverQuota ==
  /\ pc = "planned" /\ Admissions(plan.prior) = {}
  /\ pc' = "ending" /\ plan' = NoPlan
  /\ UNCHANGED <<durable, fatal, cpID, cur, batch, seen, bounds, history>>

\* The transaction fails, or it commits and the database files cannot be
\* re-secured: execTx reports an error either way, the journal latches.
PrepareFails ==
  /\ pc = "planned"
  /\ \/ UNCHANGED <<cps, rows, ledger, pruned, nextCp, nextRow>>
     \/ \E k \in Admissions(plan.prior) : PrepareIntent(k)
  /\ pc' = "ending" /\ fatal' = TRUE /\ plan' = NoPlan
  /\ UNCHANGED <<files, cpID, cur, batch, seen, crashes, edits, landed, lastWriter, touched,
                 late>>

\* checkMutation under the admitted parent: the file still holds what was planned.
WriteCheck ==
  /\ pc = "prepared" /\ files[plan.path] = plan.prior
  /\ pc' = "checked" /\ late' = {}
  /\ UNCHANGED <<durable, fatal, cpID, plan, cur, batch, seen, bounds, landed, lastWriter, pruned,
                 touched>>

\* Renameat over the checked file, or the no-replace rename of a new one.
WriteInstall ==
  /\ pc = "checked"
  /\ plan.prior = Absent => files[plan.path] = Absent
  /\ files' = [files EXCEPT ![plan.path] = plan.after]
  /\ landed' = landed \cup {cur}
  /\ lastWriter' = IF plan.after = plan.prior THEN lastWriter
                   ELSE [lastWriter EXCEPT ![plan.path] = cur]
  /\ pc' = "written"
  /\ UNCHANGED <<cps, rows, ledger, fatal, cpID, plan, cur, batch, seen, bounds, pruned, touched,
                 late>>

\* abortIntent: row and receipt are removed at once.
AbortIntent ==
  /\ rows' = [rows EXCEPT ![cur] = NoRow]
  /\ ledger' = [ledger EXCEPT ![cur] = "none"]

\* The write fails or the context is cancelled: Abort, which may fail itself.
WriteFails ==
  /\ pc \in {"prepared", "checked"}
  /\ \/ AbortIntent /\ pc' = "turn" /\ UNCHANGED fatal
     \/ /\ AbortIntent \/ UNCHANGED <<rows, ledger>>
        /\ pc' = "ending" /\ fatal' = TRUE
  /\ plan' = NoPlan /\ cur' = 0
  /\ UNCHANGED <<files, cps, cpID, batch, seen, bounds, history>>

\* mutant: an applied receipt is signed without looking at the file
ObservedAny == TRUE

\* commit signs only the expected after-state.
Observed == files[plan.path] = plan.after

\* The live read of commit, before the applied receipt is signed and verified.
ObserveWrite ==
  /\ pc = "written" /\ Observed
  /\ pc' = "observed" /\ late' = {}
  /\ UNCHANGED <<durable, fatal, cpID, plan, cur, batch, seen, bounds, landed, lastWriter,
                 pruned, touched>>

\* commitSignedIntent: the observed receipt and the row's progress at once.
CommitIntent ==
  /\ rows' = [rows EXCEPT ![cur].applied = TRUE]
  /\ ledger' = [ledger EXCEPT ![cur] = "applied"]

Commit ==
  /\ pc = "observed"
  /\ CommitIntent
  /\ pc' = "turn" /\ plan' = NoPlan /\ cur' = 0
  /\ UNCHANGED <<files, cps, fatal, cpID, batch, seen, bounds, history>>

\* A mismatch, a failed signature or a failed transaction leaves an unapplied
\* intent, a transaction that committed before it failed an applied one.
CommitFails ==
  /\ \/ pc \in {"written", "observed"} /\ UNCHANGED <<rows, ledger>>
     \/ pc = "observed" /\ CommitIntent
  /\ pc' = "ending" /\ fatal' = TRUE /\ plan' = NoPlan /\ cur' = 0
  /\ UNCHANGED <<files, cps, cpID, batch, seen, bounds, history>>

-----------------------------------------------------------------------------
(* Sealing *)

Unapplied(c) == {m \in RowsOf(c) : ~rows[m].applied}

Sealable(c) == Unapplied(c) = {}

\* seal: an empty checkpoint is deleted, another completes, retention follows.
Seal(c) ==
  /\ Sealable(c)
  /\ LET done == [cps EXCEPT ![c] = IF RowsOf(c) = {} THEN "none" ELSE "completed"]
         victims == IF RowsOf(c) = {} THEN {} ELSE Excess(done)
     IN  /\ cps' = Gone(done, victims)
         /\ rows' = Without(rows, victims)
         /\ pruned' = pruned \cup {m \in Mutations : rows[m].cp \in victims}

SealTurn ==
  /\ pc \in {"turn", "ending"}
  /\ pc' = "idle"
  /\ \/ cpID = 0 /\ UNCHANGED <<cps, rows, pruned, fatal, cpID>>
     \/ cpID # 0 /\ Seal(cpID) /\ cpID' = 0 /\ UNCHANGED fatal
     \/ /\ cpID # 0 /\ fatal' = TRUE /\ UNCHANGED cpID
        /\ Seal(cpID) \/ UNCHANGED <<cps, rows, pruned>>
  /\ UNCHANGED <<files, ledger, plan, cur, batch, seen, bounds, landed, lastWriter, touched, late>>

-----------------------------------------------------------------------------
(* Crash and recovery *)

Crash ==
  /\ pc # "down" /\ crashes < MaxCrashes
  /\ crashes' = crashes + 1
  /\ pc' = "down" /\ fatal' = FALSE /\ cpID' = 0 /\ plan' = NoPlan /\ cur' = 0
  /\ batch' = {} /\ seen' = {}
  /\ UNCHANGED <<durable, nextRow, nextCp, edits, history>>

Start ==
  /\ pc = "down"
  /\ pc' = "recovering"
  /\ UNCHANGED <<durable, fatal, cpID, plan, cur, batch, seen, bounds, history>>

Unresolved == UNION {Unapplied(c) : c \in InState("open")}

\* The state that undoing row m leads to (undoTargetFrom).
Target(m) == rows[m].prior

\* mutant: drops the intent although its write landed
NotLandedInverted(m) == files[rows[m].path] # Target(m)

\* recoverStartup drops an intent only if the file is where undo would put it.
NotLanded(m) == files[rows[m].path] = Target(m)

\* The live read that classifies the newest unresolved intent.
RecoverRead ==
  /\ pc = "recovering" /\ Unresolved # {}
  /\ LET m == Max(Unresolved)
     IN  cur' = m /\ pc' = IF NotLanded(m) THEN "drop" ELSE "keep"
  /\ UNCHANGED <<durable, fatal, cpID, plan, batch, seen, bounds, history>>

\* recoverDropIntent or recoverCommitIntent; the ledger stays unconfirmed.
RecoverRow ==
  /\ \/ pc = "drop" /\ rows' = [rows EXCEPT ![cur] = NoRow]
     \/ pc = "keep" /\ rows' = [rows EXCEPT ![cur].applied = TRUE]
  /\ pc' = "recovering" /\ cur' = 0
  /\ UNCHANGED <<files, cps, ledger, fatal, cpID, plan, batch, seen, bounds, history>>

RecoverSeal ==
  /\ pc = "recovering" /\ Unresolved = {}
  /\ \E c \in InState("open") : Seal(c)
  /\ UNCHANGED <<files, ledger, pc, fatal, cpID, plan, cur, batch, seen, bounds,
                 landed, lastWriter, touched, late>>

\* A file cannot be read or a transaction fails: the journal is not mounted.
RecoverFails ==
  /\ pc \in {"recovering", "drop", "keep"}
  /\ pc' = "down" /\ cur' = 0
  /\ UNCHANGED <<durable, fatal, cpID, plan, batch, seen, bounds, history>>

Recovered ==
  /\ pc = "recovering" /\ InState("open") = {}
  /\ pc' = "idle"
  /\ UNCHANGED <<durable, fatal, cpID, plan, cur, batch, seen, bounds, history>>

-----------------------------------------------------------------------------
(* Undo *)

Pending(C) == {m \in Mutations : rows[m].cp \in C /\ rows[m].applied /\ ~rows[m].restored}

\* matchesAfter: what golem wrote, or nothing if golem had created it.
MatchesAfter(s, m) == IF s = Absent THEN rows[m].prior = Absent ELSE s = rows[m].after

\* The state row m meets when the rows above it have been restored.
Simulated(m, C) ==
  LET newer == {n \in Pending(C) : n > m /\ rows[n].path = rows[m].path}
  IN  IF newer = {} THEN files[rows[m].path] ELSE Target(Min(newer))

\* mutant: a restore whose flag was lost in a crash looks like a user's edit
AlreadyTargetNever(s, m) == FALSE

\* Only an interrupted undo may find a file already restored.
AlreadyTarget(s, m) == cps[rows[m].cp] = "undoing" /\ s = Target(m)

\* The chain preflight of restoreGroups, for the rows of one file and for all.
PreflightAt(C, p) ==
  \A m \in Pending(C) :
    rows[m].path = p =>
      LET s == Simulated(m, C) IN AlreadyTarget(s, m) \/ MatchesAfter(s, m)

Preflight(C) == \A p \in Paths : PreflightAt(C, p)

\* The n newest completed checkpoints.
Newest(n) == {c \in InState("completed") :
                Cardinality({d \in InState("completed") : d > c}) < n}

\* undo: an interrupted undo is resumed first, else the n newest are chosen.
Undo(n) ==
  /\ pc = "idle"
  /\ LET C == IF InState("undoing") # {} THEN InState("undoing") ELSE Newest(n)
     IN  /\ C # {}
         /\ InState("undoing") # {} \/ Cardinality(C) = n
         /\ batch' = C
         /\ touched' = IF InState("undoing") # {} THEN touched ELSE {}
  /\ pc' = "preflight"
  /\ UNCHANGED <<durable, fatal, cpID, plan, cur, seen, bounds, landed, lastWriter, pruned,
                 late>>

\* Each file is read once and the restoration of its rows is simulated.
PreflightRead(p) ==
  /\ pc = "preflight" /\ p \notin seen
  /\ p \in {rows[m].path : m \in Pending(batch)}
  /\ PreflightAt(batch, p)
  /\ seen' = seen \cup {p}
  /\ UNCHANGED <<durable, pc, fatal, cpID, plan, cur, batch, bounds, history>>

\* markUndoing, if an undo is not being resumed.
MarkUndoing ==
  /\ {rows[m].path : m \in Pending(batch)} \subseteq seen
  /\ cps' = [c \in Checkpoints |-> IF c \in batch THEN "undoing" ELSE cps[c]]

UndoMarks ==
  /\ pc = "preflight"
  /\ MarkUndoing
  /\ pc' = "undo" /\ seen' = {}
  /\ UNCHANGED <<files, rows, ledger, fatal, cpID, plan, cur, batch, bounds, history>>

\* A file does not match or cannot be read, or the transaction fails: the undo
\* ends without latching.
UndoRefused ==
  /\ pc = "preflight"
  /\ UNCHANGED cps \/ MarkUndoing
  /\ pc' = "idle" /\ batch' = {} /\ seen' = {}
  /\ UNCHANGED <<files, rows, ledger, fatal, cpID, plan, cur, bounds, history>>

\* The group at work and the row restoreFile is called with.
Group == Max(batch)

RowToRestore == Max(Pending({Group}))

Restoring == pc = "undo" /\ batch # {} /\ Pending({Group}) # {}

\* restoreFile reads the file: it is where undo would put it, or as golem left it.
RestoreRead ==
  /\ Restoring
  /\ LET m == RowToRestore
         s == files[rows[m].path]
     IN  /\ s = Target(m) \/ MatchesAfter(s, m)
         /\ pc' = IF s = Target(m) THEN "reached" ELSE "matched"
         /\ cur' = m
  /\ UNCHANGED <<durable, fatal, cpID, plan, batch, seen, bounds, history>>

\* The file changed since golem wrote it, or cannot be read: the undo stops
\* without latching.
RestoreRefused ==
  /\ Restoring
  /\ pc' = "idle" /\ batch' = {}
  /\ UNCHANGED <<durable, fatal, cpID, plan, cur, seen, bounds, history>>

\* recoverRestored: only the progress is recorded.
RestoreReached ==
  /\ pc = "reached"
  /\ rows' = [rows EXCEPT ![cur].restored = TRUE]
  /\ pc' = "undo" /\ cur' = 0
  /\ UNCHANGED <<files, cps, ledger, fatal, cpID, plan, batch, seen, bounds, history>>

\* prepareInverseIntent, after the inverse receipt was signed.
PrepareInverse ==
  /\ pc = "matched"
  /\ rows' = [rows EXCEPT ![cur].inverse = "intent"]
  /\ pc' = "inverse"
  /\ UNCHANGED <<files, cps, ledger, fatal, cpID, plan, cur, batch, seen, bounds, history>>

\* mutant: the file is not looked at again after the inverse intent was stored
InverseAllowedBlindly(m) == TRUE

InverseAllowed(m) == MatchesAfter(files[rows[m].path], m) /\ files[rows[m].path] # Absent

\* The recheck after signing and the precondition of the conditional write.
InverseCheck ==
  /\ pc = "inverse" /\ InverseAllowed(cur)
  /\ pc' = "inverseChecked" /\ late' = {}
  /\ UNCHANGED <<durable, fatal, cpID, plan, cur, batch, seen, bounds, landed, lastWriter, pruned,
                 touched>>

InverseInstall ==
  /\ pc = "inverseChecked"
  /\ files' = [files EXCEPT ![rows[cur].path] = Target(cur)]
  /\ lastWriter' = [lastWriter EXCEPT ![rows[cur].path] = 0]
  /\ pc' = "inverted"
  /\ UNCHANGED <<cps, rows, ledger, fatal, cpID, plan, cur, batch, seen, bounds, landed, pruned,
                 touched, late>>

\* The live read before the applied inverse receipt is signed.
InverseObserve ==
  /\ pc = "inverted" /\ files[rows[cur].path] = Target(cur)
  /\ pc' = "inverseSeen"
  /\ UNCHANGED <<durable, fatal, cpID, plan, cur, batch, seen, bounds, history>>

InverseCommit ==
  /\ pc = "inverseSeen"
  /\ rows' = [rows EXCEPT ![cur].inverse = "applied", ![cur].restored = TRUE]
  /\ pc' = "undo" /\ cur' = 0
  /\ UNCHANGED <<files, cps, ledger, fatal, cpID, plan, batch, seen, bounds, history>>

\* Any failure of restoreFile or of a transaction latches and ends the undo.  If
\* the transaction had committed, its step comes first and this one follows it.
UndoFails ==
  /\ pc \in {"undo", "reached", "matched", "inverse", "inverseChecked", "inverted",
             "inverseSeen"}
  /\ pc' = "idle" /\ fatal' = TRUE /\ batch' = {} /\ cur' = 0
  /\ UNCHANGED <<durable, cpID, plan, seen, bounds, history>>

\* mutant: the caller's belief decides instead of the guard query
DeletableBlindly(c) == TRUE

\* The guard of deleteRestored: no applied row is left unrestored.
Deletable(c) == Pending({c}) = {}

DeleteRestored ==
  /\ pc = "undo" /\ batch # {} /\ Deletable(Group)
  /\ cps' = Gone(cps, {Group})
  /\ rows' = Without(rows, {Group})
  /\ batch' = batch \ {Group}
  /\ UNCHANGED <<files, ledger, pc, fatal, cpID, plan, cur, seen, bounds, history>>

UndoDone ==
  /\ pc = "undo" /\ batch = {}
  /\ pc' = "idle"
  /\ UNCHANGED <<durable, fatal, cpID, plan, cur, batch, seen, bounds, history>>

-----------------------------------------------------------------------------
\* The user's editor, or any other program: it may change a file at any moment.
Edit(p, s) ==
  /\ edits < MaxEdits /\ s # files[p]
  /\ edits' = edits + 1
  /\ files' = [files EXCEPT ![p] = s]
  /\ lastWriter' = [lastWriter EXCEPT ![p] = 0]
  /\ touched' = touched \cup {p} /\ late' = late \cup {p}
  /\ UNCHANGED <<cps, rows, ledger, pc, fatal, cpID, plan, cur, batch, seen, nextRow,
                 nextCp, crashes, landed, pruned>>

Next ==
  \/ BeginTurn
  \/ \E p \in Paths, c \in Contents : Plan(p, c)
  \/ Prepare \/ PrepareOverQuota \/ PrepareFails
  \/ WriteCheck \/ WriteInstall \/ WriteFails
  \/ ObserveWrite \/ Commit \/ CommitFails \/ SealTurn
  \/ Crash \/ Start \/ RecoverRead \/ RecoverRow \/ RecoverSeal \/ RecoverFails \/ Recovered
  \/ (\E n \in 1..2 : Undo(n)) \/ (\E p \in Paths : PreflightRead(p))
  \/ UndoMarks \/ UndoRefused
  \/ RestoreRead \/ RestoreRefused \/ RestoreReached \/ PrepareInverse
  \/ InverseCheck \/ InverseInstall \/ InverseObserve \/ InverseCommit
  \/ UndoFails \/ DeleteRestored \/ UndoDone
  \/ \E p \in Paths, s \in FileStates : Edit(p, s)

Spec == Init /\ [][Next]_vars

-----------------------------------------------------------------------------
(* Properties *)

TypeOK ==
  /\ files \in [Paths -> FileStates]
  /\ cps \in [Checkpoints -> {"none", "open", "completed", "undoing"}]
  /\ rows \in [Mutations ->
       [cp : 0..MaxTurns, path : Paths \cup {Absent}, prior : FileStates, after : FileStates,
        applied : BOOLEAN, restored : BOOLEAN, inverse : {"none", "intent", "applied"}]]
  /\ ledger \in [Mutations -> {"none", "intent", "applied"}]

\* Every write of golem that is still in the workspace can be undone: its row
\* exists until retention removes it, and undo will read it, because the row is
\* applied or its checkpoint is still open and will be recovered.  This is the
\* write-ahead protocol of Prepare, Commit, Abort, seal and recoverStartup under
\* crashes, failed transactions and edits.
WritesStayUndoable ==
  \A p \in Paths :
    LET m == lastWriter[p]
    IN  m # 0 /\ m \notin pruned =>
          rows[m].cp # 0 /\ (rows[m].applied \/ cps[rows[m].cp] = "open")

\* The ledger tells the truth under crashes, failures and edits: a receipt turns
\* applied only when the write landed and its bytes are in the workspace, or the
\* user replaced them after commit observed them, while the receipt was signed;
\* and the evidence of a write that landed is never deleted.
LedgerTruthful ==
  [][\A m \in Mutations :
       /\ ledger[m] # "applied" /\ ledger'[m] = "applied" =>
            /\ m \in landed
            /\ files[rows[m].path] = rows[m].after \/ rows[m].path \in late
       /\ m \in landed /\ ledger[m] # "none" => ledger'[m] # "none"]_vars

\* A crash or a failure inside an undo never makes the undo refuse to resume:
\* unless the user touched a file since the undo was decided, the preflight of
\* the interrupted checkpoints passes in every intermediate state.
ResumeAlwaysPossible ==
  InState("undoing") # {} /\ touched = {} => Preflight(InState("undoing"))

\* What undo leaves behind: when a checkpoint is deleted as undone, every file of
\* it that the user left alone has the content it had before the checkpoint's
\* first mutation of it, also when the undo was interrupted and resumed.
UndoIsExact ==
  [][\A c \in Checkpoints :
       cps[c] = "undoing" /\ cps'[c] = "none" =>
         \A m \in RowsOf(c) :
           (/\ rows[m].applied /\ rows[m].path \notin touched
            /\ \A n \in RowsOf(c) : rows[n].path = rows[m].path => n >= m)
           => files[rows[m].path] = rows[m].prior]_vars

\* golem replaces only bytes it knows: a write or a restore that changes a file
\* found there the content its record names, or the user changed it after the
\* precondition check, the window that the conditional write leaves open.
UserEditsRespected ==
  [][\A p \in Paths :
       files'[p] # files[p] /\ edits' = edits /\ p \notin late =>
         LET r == rows[cur] IN files[p] = IF pc = "checked" THEN r.prior ELSE r.after]_vars
=============================================================================
