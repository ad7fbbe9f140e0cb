---------------------------- MODULE GolemRuntime ----------------------------
(***************************************************************************)
(* The embeddable runtime (golem/runtime.go, golem/session.go) over a      *)
(* shared conversation store (conversation/store.go).  Several runtimes    *)
(* run turns and compactions on one thread; within a runtime the thread is *)
(* reserved, across runtimes only the revision of the stored snapshot      *)
(* protects it.  Turns are cancelled, fail, lose their sink, race Close,   *)
(* and the conversation may be deleted and created anew at any moment.     *)
(***************************************************************************)
EXTENDS Integers, FiniteSetsExt

CONSTANTS Runtimes,
          GrClosers,     \* bound: the runtimes that are ever closed
          GrMaxTurns,    \* bound: turns ever started
          GrMaxDeletes   \* bound: deletions of the conversation

ASSUME GrBounds == {GrMaxTurns, GrMaxDeletes} \subseteq Nat /\ GrClosers \subseteq Runtimes

Turns == 1..GrMaxTurns

\* A stored or loaded snapshot; revision 0 is an absent conversation.  Packed
\* turns survive in the durable summary only.
Absent == [rev |-> 0, turns |-> {}, packed |-> {}]

NoOp == [kind |-> "none", turn |-> 0, conv |-> Absent, cancelled |-> FALSE,
         terminal |-> FALSE, event |-> "none"]

VARIABLES
  grStored,   \* the conversation
  grFloor,    \* the store-wide revision floor
  grPc, grOp, \* per runtime: its turn or compaction on the thread
  grLife,     \* per runtime: open, closing or closed
  grReported, \* history, per turn: the terminal event its sink saw, "empty" for none
              \* and for run.finished without an answer
  grDeleted,  \* history: turns that were deleted with the conversation
  grDeletes

grVars == <<grStored, grFloor, grPc, grOp, grLife, grReported, grDeleted, grDeletes>>

storeVars == <<grStored, grFloor, grDeleted, grDeletes>>

GrInit ==
  /\ grStored = Absent /\ grFloor = 1
  /\ grPc = [r \in Runtimes |-> "idle"]
  /\ grOp = [r \in Runtimes |-> NoOp]
  /\ grLife = [r \in Runtimes |-> "open"]
  /\ grReported = [t \in Turns |-> "none"]
  /\ grDeleted = {} /\ grDeletes = 0

At(r, place) == grPc' = [grPc EXCEPT ![r] = place]

\* The operation ends with this terminal event, still to be committed and sent.
Ends(r, event) ==
  /\ grOp' = [grOp EXCEPT ![r].event = event]
  /\ At(r, "finish")

-----------------------------------------------------------------------------
(* conversation.SQLiteStore *)

\* mutant: the update is not conditional on the revision
MatchesAny(conv) == conv.rev = 0 => grStored.rev = 0

\* Save's condition: create only what is absent, replace only the revision loaded.
Matches(conv) == conv.rev = grStored.rev

\* mutant: a new conversation starts at the first revision again
NextRevisionFromOne(conv) == IF conv.rev = 0 THEN 2 ELSE conv.rev + 1

\* A creation takes the floor plus one, so that no revision is used twice.
NextRevision(conv) == IF conv.rev = 0 THEN grFloor + 1 ELSE conv.rev + 1

Committed(conv) == [conv EXCEPT !.rev = NextRevision(conv)]

\* Delete; its trigger raises the floor.
Delete ==
  /\ grStored # Absent /\ grDeletes < GrMaxDeletes
  /\ grFloor' = Max({grFloor, grStored.rev})
  /\ grDeleted' = grDeleted \cup grStored.turns
  /\ grStored' = Absent
  /\ grDeletes' = grDeletes + 1
  /\ UNCHANGED <<grPc, grOp, grLife, grReported>>

-----------------------------------------------------------------------------
(* Reservation *)

NextTurn == 1 + Cardinality({t \in Turns : \/ grReported[t] # "none"
                                           \/ \E r \in Runtimes : grOp[r].turn = t})

\* reserve: the runtime is open and no turn or compaction holds the thread.
CanReserve(r) == grLife[r] = "open" /\ grPc[r] = "idle"

\* Run reserves the thread and its run ID.
ReserveTurn(r) ==
  /\ CanReserve(r) /\ NextTurn \in Turns
  /\ grOp' = [grOp EXCEPT ![r] = [NoOp EXCEPT !.kind = "turn", !.turn = NextTurn]]
  /\ At(r, "started")
  /\ UNCHANGED <<storeVars, grLife, grReported>>

\* CompactThread reserves the thread only.
ReserveCompaction(r) ==
  /\ CanReserve(r)
  /\ grOp' = [grOp EXCEPT ![r] = [NoOp EXCEPT !.kind = "compaction"]]
  /\ At(r, "started")
  /\ UNCHANGED <<storeVars, grLife, grReported>>

\* Runtime.Cancel finds turns only, and loses once the terminal event is claimed.
Cancel(r) ==
  /\ grOp[r].kind = "turn" /\ ~grOp[r].terminal /\ ~grOp[r].cancelled
  /\ grOp' = [grOp EXCEPT ![r].cancelled = TRUE]
  /\ UNCHANGED <<storeVars, grPc, grLife, grReported>>

\* The caller's own context ends; that may happen at any time.
CallerCancels(r) ==
  /\ grOp[r].kind # "none" /\ ~grOp[r].cancelled
  /\ grOp' = [grOp EXCEPT ![r].cancelled = TRUE]
  /\ UNCHANGED <<storeVars, grPc, grLife, grReported>>

-----------------------------------------------------------------------------
(* The turn *)

\* loadThread; a compaction of an absent conversation ends unchanged.
Load(r) ==
  /\ grPc[r] = "started"
  /\ \/ /\ ~grOp[r].cancelled
        /\ grOp' = [grOp EXCEPT ![r].conv = grStored]
        /\ At(r, IF grOp[r].kind = "turn" THEN "loaded" ELSE "compress")
     \/ grOp[r].cancelled /\ Ends(r, "canceled")
     \/ Ends(r, "failed")
  /\ UNCHANGED <<storeVars, grLife, grReported>>

\* saveThread's candidate, and commitTerminal: from here on cancellation loses.
Claimed(op) == [op EXCEPT !.terminal = TRUE, !.conv.turns = @ \cup {op.turn}]

\* The orchestrator returns an answer, which is claimed at once, no answer, or an
\* error.  A cancelled context wins over all of them.
Orchestrate(r) ==
  /\ grPc[r] = "loaded" /\ ~grOp[r].cancelled
  /\ \/ grOp' = [grOp EXCEPT ![r] = Claimed(@)] /\ At(r, "claimed")
     \/ Ends(r, "empty")
     \/ Ends(r, "failed")
  /\ UNCHANGED <<storeVars, grLife, grReported>>

OrchestrateCancelled(r) ==
  /\ grPc[r] = "loaded" /\ grOp[r].cancelled
  /\ Ends(r, "canceled")
  /\ UNCHANGED <<storeVars, grLife, grReported>>

\* A failing sink, on run.started or later, stops the run; nothing more is sent.
SinkFails(r) ==
  /\ grOp[r].kind = "turn" /\ grPc[r] \in {"started", "loaded"}
  /\ Ends(r, "empty")
  /\ UNCHANGED <<storeVars, grLife, grReported>>

\* The save ignores cancellation; it commits, conflicts or fails.
SaveTurn(r) ==
  /\ grPc[r] = "claimed"
  /\ LET conv == grOp[r].conv
     IN  \/ /\ Matches(conv)
            /\ grStored' = Committed(conv)
            /\ grOp' = [grOp EXCEPT ![r].conv = Committed(conv), ![r].event = "finished"]
            /\ At(r, "compress")
         \/ Ends(r, "failed") /\ UNCHANGED grStored
  /\ UNCHANGED <<grFloor, grDeleted, grDeletes, grLife, grReported>>

-----------------------------------------------------------------------------
(* Compression, after a turn or on request *)

\* What compressConversation moves into the summary: all but the newest exchange.
Compacted(conv) == [conv EXCEPT !.packed = conv.turns \ {Max(conv.turns)}]

Compresses(conv) == conv.turns # {} /\ Compacted(conv) # conv

\* The summarizer is a model call: it may fail, and be cut short by a cancellation.
Compress(r) ==
  /\ grPc[r] = "compress" /\ ~grOp[r].cancelled
  /\ \/ /\ Compresses(grOp[r].conv)
        /\ grOp' = [grOp EXCEPT ![r].conv = Compacted(@)]
        /\ At(r, "saveCompacted")
     \/ Ends(r, grOp[r].event)
  /\ UNCHANGED <<storeVars, grLife, grReported>>

CompressCancelled(r) ==
  /\ grPc[r] = "compress" /\ grOp[r].cancelled
  /\ Ends(r, grOp[r].event)
  /\ UNCHANGED <<storeVars, grLife, grReported>>

\* After a turn a failure is only a warning.
SaveCompacted(r) ==
  /\ grPc[r] = "saveCompacted"
  /\ \/ Matches(grOp[r].conv) /\ grStored' = Committed(grOp[r].conv)
     \/ UNCHANGED grStored
  /\ Ends(r, grOp[r].event)
  /\ UNCHANGED <<grFloor, grDeleted, grDeletes, grLife, grReported>>

-----------------------------------------------------------------------------
(* The end of an operation, and Close *)

\* finish's commitTerminal: an unclaimed event becomes run.canceled if the context has ended.
TerminalEvent(op) == IF ~op.terminal /\ op.cancelled THEN "canceled" ELSE op.event

\* finish (the sink may fail on the terminal event itself) and release.
Finish(r) ==
  /\ grPc[r] = "finish"
  /\ IF grOp[r].kind = "turn"
     THEN \E event \in {TerminalEvent(grOp[r]), "empty"} :
            grReported' = [grReported EXCEPT ![grOp[r].turn] = event]
     ELSE UNCHANGED grReported
  /\ grOp' = [grOp EXCEPT ![r] = NoOp]
  /\ At(r, "idle")
  /\ UNCHANGED <<storeVars, grLife>>

\* mutant: Close cancels the runs only
CancelledByCloseRunsOnly(op) == op.kind = "turn"

\* Close cancels runs and compactions, those with a claimed terminal event too.
CancelledByClose(op) == op.kind # "none"

CloseRuntime(r) ==
  /\ grLife[r] = "open" /\ r \in GrClosers
  /\ grLife' = [grLife EXCEPT ![r] = "closing"]
  /\ grOp' = [grOp EXCEPT ![r].cancelled = @ \/ CancelledByClose(grOp[r])]
  /\ UNCHANGED <<storeVars, grPc, grReported>>

\* The wait group is empty; the session store is closed.
RuntimeClosed(r) ==
  /\ grLife[r] = "closing" /\ grPc[r] = "idle"
  /\ grLife' = [grLife EXCEPT ![r] = "closed"]
  /\ UNCHANGED <<storeVars, grPc, grOp, grReported>>

-----------------------------------------------------------------------------

\* Steps that end by themselves: store and lock operations, and cancelled calls.
PromptStep(r) ==
  \/ Load(r) \/ OrchestrateCancelled(r) \/ SaveTurn(r)
  \/ CompressCancelled(r) \/ SaveCompacted(r) \/ Finish(r)

GrNext ==
  \/ \E r \in Runtimes :
       \/ ReserveTurn(r) \/ ReserveCompaction(r) \/ Cancel(r) \/ CallerCancels(r)
       \/ PromptStep(r) \/ Orchestrate(r) \/ SinkFails(r) \/ Compress(r)
       \/ CloseRuntime(r) \/ RuntimeClosed(r)
  \/ Delete

GrFairness == \A r \in Runtimes : WF_grVars(PromptStep(r)) /\ WF_grVars(RuntimeClosed(r))

GrSpec == GrInit /\ [][GrNext]_grVars /\ GrFairness

-----------------------------------------------------------------------------
(* Properties *)

\* A finished turn stays in the conversation until somebody deletes it: no other
\* runtime, and no compaction of a stale snapshot, saves over it.
FinishedTurnsKept ==
  \A t \in Turns : grReported[t] = "finished" => t \in grStored.turns \cup grDeleted

\* A cancelled or failed turn was not saved, so a retry duplicates nothing.
UnfinishedTurnsNotSaved ==
  \A t \in Turns : grReported[t] \in {"canceled", "failed"} => t \notin grStored.turns \cup grDeleted

\* The terminal event of a turn tells the truth about the stored conversation,
\* however cancellation, claims, saves and other runtimes interleave.
TurnsAsReported == FinishedTurnsKept /\ UnfinishedTurnsNotSaved

\* A deleted conversation stays deleted: whoever still holds a snapshot of it
\* cannot save it over its successor.
DeletedStaysDeleted == grStored.turns \cap grDeleted = {}

\* Close returns although a model or summarizer call would hang: it cancels whatever
\* it waits for.
RuntimeCloses == \A r \in Runtimes : grLife[r] = "closing" ~> grLife[r] = "closed"
=============================================================================
