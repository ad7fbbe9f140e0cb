-------------------------- MODULE FeedbackService --------------------------
(***************************************************************************)
(* Behavioural feedback of a golem session (cmd/golem/feedback.go) on the  *)
(* manual collector (feedback/collector.go).  Observers of parallel tool   *)
(* calls post events to a bounded queue that never blocks them; one worker *)
(* joins retrievals with what was presented and read, opens attribution    *)
(* windows, records signals and sweeps expired windows; close stops, waits *)
(* with a timeout and reports.  Overflow or any store error disables the   *)
(* service for good.                                                       *)
(*                                                                         *)
(* One run; a path has one chunk; every retrieval presents every chunk.    *)
(* Steps are left out: events of a run that share a step with the retrieval*)
(* they belong to are not posted.                                          *)
(***************************************************************************)
EXTENDS Integers, Sequences, FiniteSets

CONSTANTS FbCalls,      \* retrieve calls of the run, ordered integers
          Chunks,
          FbQueueSize,  \* feedbackQueueSize
          FbMaxAge,     \* maxWindowAge, in ticks
          FbMaxTime,    \* bound: the clock
          FbMaxEvents   \* bound: presentations and reads posted

ASSUME FbBounds == {FbQueueSize, FbMaxAge, FbMaxTime, FbMaxEvents} \subseteq Nat

Pairs == FbCalls \X Chunks

Never == -1

NoEvent == [kind |-> "none", call |-> 0, chunk |-> 0, at |-> 0]

Event(kind, call, chunk, at) == [kind |-> kind, call |-> call, chunk |-> chunk, at |-> at]

VARIABLES
  fbTime,                          \* the clock
  fbRun,                           \* the run: calls that have retrieved, events left, finished
  fbQueue, fbStopped, fbDisabled,  \* the events channel and the admission flags
  fbTimedOut,                      \* close gave up waiting: the worker's context is cancelled
  fbReport,                        \* attempted, completed and dropped
  fbWorker, fbHand,                \* where the worker is; the event it has taken
  fbPending, fbPresented, fbJoined, fbCredited,  \* the worker's maps
  fbWindows, fbInteracted,         \* the collector: when each window was opened; pairs with a signal
  fbPositive, fbNegative,          \* the store: signals per pair
  fbCloser                         \* open, waiting or closed

admission == <<fbQueue, fbStopped, fbDisabled>>
joins == <<fbPending, fbPresented, fbJoined, fbCredited>>
collector == <<fbWindows, fbInteracted>>
store == <<fbPositive, fbNegative>>
fbVars == <<fbTime, fbRun, admission, fbTimedOut, fbReport, fbWorker, fbHand,
            joins, collector, store, fbCloser>>

FbInit ==
  /\ fbTime = 0
  /\ fbRun = [retrieved |-> {}, left |-> FbMaxEvents, finished |-> FALSE]
  /\ fbQueue = <<>> /\ fbStopped = FALSE /\ fbDisabled = FALSE /\ fbTimedOut = FALSE
  /\ fbReport = [attempted |-> 0, completed |-> 0, dropped |-> 0]
  /\ fbWorker = "top" /\ fbHand = NoEvent
  /\ fbPending = {} /\ fbPresented = {} /\ fbJoined = {} /\ fbCredited = {}
  /\ fbWindows = [c \in FbCalls |-> Never] /\ fbInteracted = {}
  /\ fbPositive = [p \in Pairs |-> 0] /\ fbNegative = [p \in Pairs |-> 0]
  /\ fbCloser = "open"

Counted(e) == e.kind \in {"retrieve", "present", "read"}

CountedIn(q) == Cardinality({i \in DOMAIN q : Counted(q[i])})

-----------------------------------------------------------------------------
(* The observers *)

\* mutant: an event that finds the queue full is not counted as dropped
OverflowUncounted(e) == fbReport' = [fbReport EXCEPT !.attempted = @ + 1]

\* The queue is full: the newest event is lost and the service disabled.
Overflow(e) ==
  fbReport' = IF Counted(e) THEN [fbReport EXCEPT !.attempted = @ + 1, !.dropped = @ + 1]
                            ELSE fbReport

\* feedbackService.admit
AdmitEvent(e) ==
  /\ ~fbStopped
  /\ IF fbDisabled \/ Len(fbQueue) = FbQueueSize
     THEN Overflow(e) /\ fbDisabled' = TRUE /\ UNCHANGED fbQueue
     ELSE /\ fbReport' = IF Counted(e) THEN [fbReport EXCEPT !.attempted = @ + 1] ELSE fbReport
          /\ fbQueue' = Append(fbQueue, e)
          /\ UNCHANGED fbDisabled
  /\ UNCHANGED <<fbTime, fbStopped, fbTimedOut, fbWorker, fbHand, joins, collector, store, fbCloser>>

\* OnToolResult for retrieve, once per call.
ObserveRetrieve(c) ==
  /\ ~fbRun.finished /\ c \notin fbRun.retrieved
  /\ AdmitEvent(Event("retrieve", c, 0, fbTime))
  /\ fbRun' = [fbRun EXCEPT !.retrieved = @ \cup {c}]

\* OnRetrievalPresentation, only of calls this observer saw, and possibly again;
\* OnToolResult for read_file.
ObserveUse ==
  /\ ~fbRun.finished /\ fbRun.left > 0
  /\ \/ \E c \in fbRun.retrieved : AdmitEvent(Event("present", c, 0, fbTime))
     \/ \E k \in Chunks : AdmitEvent(Event("read", 0, k, fbTime))
  /\ fbRun' = [fbRun EXCEPT !.left = @ - 1]

FinishRun ==
  /\ ~fbRun.finished
  /\ AdmitEvent(Event("finish", 0, 0, fbTime))
  /\ fbRun' = [fbRun EXCEPT !.finished = TRUE]

-----------------------------------------------------------------------------
(* The worker's loop *)

\* discard: the worker's maps and the collector's open windows.
Discard ==
  /\ fbPending' = {} /\ fbPresented' = {} /\ fbJoined' = {} /\ fbCredited' = {}
  /\ fbWindows' = [c \in FbCalls |-> Never] /\ fbInteracted' = {}

\* abandon, with the event in hand.
Abandon ==
  /\ fbReport' = [fbReport EXCEPT !.dropped = @ + CountedIn(Append(fbQueue, fbHand))]
  /\ fbQueue' = <<>> /\ fbHand' = NoEvent
  /\ Discard

\* The flags are read before every wait and again after every event.
WorkerAbandons ==
  /\ fbWorker \in {"top", "got"} /\ (fbTimedOut \/ fbDisabled)
  /\ Abandon
  /\ fbWorker' = IF fbTimedOut THEN "done" ELSE "parked"
  /\ UNCHANGED <<fbTime, fbRun, fbStopped, fbDisabled, fbTimedOut, store, fbCloser>>

WorkerGoesOn ==
  /\ fbWorker \in {"top", "got"} /\ ~fbTimedOut /\ ~fbDisabled
  /\ fbWorker' = IF fbWorker = "top" THEN "select" ELSE "handle"
  /\ UNCHANGED <<fbTime, fbRun, admission, fbTimedOut, fbReport, fbHand, joins, collector, store, fbCloser>>

\* After a stop the worker only drains, so that its select has the queue alone.
Dequeue ==
  /\ fbWorker = "select" /\ fbQueue # <<>>
  /\ fbHand' = Head(fbQueue) /\ fbQueue' = Tail(fbQueue)
  /\ fbWorker' = "got"
  /\ UNCHANGED <<fbTime, fbRun, fbStopped, fbDisabled, fbTimedOut, fbReport, joins, collector, store, fbCloser>>

\* A cancelled context is seen in the select too.
ContextDone ==
  /\ fbWorker = "select" /\ fbTimedOut
  /\ Abandon
  /\ fbWorker' = "done"
  /\ UNCHANGED <<fbTime, fbRun, fbStopped, fbDisabled, fbTimedOut, store, fbCloser>>

ParkedStops ==
  /\ fbWorker = "parked" /\ fbStopped
  /\ fbWorker' = "done"
  /\ UNCHANGED <<fbTime, fbRun, admission, fbTimedOut, fbReport, fbHand, joins, collector, store, fbCloser>>

-----------------------------------------------------------------------------
(* Events *)

\* Any store error disables the service.
DisabledOnError(outcome) == outcome # "ok"

Ended(outcome) ==
  /\ fbDisabled' = (fbDisabled \/ DisabledOnError(outcome))
  /\ fbReport' = IF ~Counted(fbHand) THEN fbReport
                 ELSE IF outcome \in {"ok", "maintenance"}
                      THEN [fbReport EXCEPT !.completed = @ + 1]
                      ELSE [fbReport EXCEPT !.dropped = @ + 1]
  /\ fbHand' = NoEvent
  /\ fbWorker' = "top"
  /\ UNCHANGED <<fbTime, fbRun, fbQueue, fbStopped, fbTimedOut, fbCloser>>

HandleRetrieve ==
  /\ fbWorker = "handle" /\ fbHand.kind = "retrieve"
  /\ fbPending' = fbPending \cup {fbHand.call}
  /\ Ended("ok")
  /\ UNCHANGED <<fbPresented, fbJoined, fbCredited, collector, store>>

Joins(c) == c \notin fbPresented /\ c \in fbPending

\* RegisterRetrievalAt: the row and the counts commit together, then the window opens.
HandlePresentation ==
  /\ fbWorker = "handle" /\ fbHand.kind = "present" /\ Joins(fbHand.call)
  /\ \/ /\ fbWindows' = [fbWindows EXCEPT ![fbHand.call] = fbHand.at]
        /\ fbPending' = fbPending \ {fbHand.call}
        /\ fbPresented' = fbPresented \cup {fbHand.call}
        /\ fbJoined' = fbJoined \cup {fbHand.call}
        /\ Ended("ok")
     \/ UNCHANGED <<fbWindows, fbPending, fbPresented, fbJoined>> /\ Ended("write")
  /\ UNCHANGED <<fbCredited, fbInteracted, store>>

\* A duplicate, or a presentation whose retrieval was never seen.
PresentationMisses ==
  /\ fbWorker = "handle" /\ fbHand.kind = "present" /\ ~Joins(fbHand.call)
  /\ Ended("ok")
  /\ UNCHANGED <<joins, collector, store>>

\* mutant: a chunk is credited to a retrieval with every read
CreditsAgain == {<<c, fbHand.chunk>> : c \in fbJoined}

\* The retrievals a read is credited to, each once.
Credits == {<<c, fbHand.chunk>> : c \in fbJoined} \ fbCredited

\* recordBatchAt takes only windows that are open at the event's time.
Recorded == {p \in Credits : fbHand.at - fbWindows[p[1]] < FbMaxAge}

Bump(tally, pairs) == [p \in Pairs |-> IF p \in pairs THEN tally[p] + 1 ELSE tally[p]]

\* RecordBatchAt: it commits; or commits and the maintenance fails; or fails, and
\* the transaction may have committed all the same.
HandleRead ==
  /\ fbWorker = "handle" /\ fbHand.kind = "read"
  /\ \/ /\ fbPositive' = Bump(fbPositive, Recorded)
        /\ fbInteracted' = fbInteracted \cup Recorded
        /\ fbCredited' = fbCredited \cup Recorded
        /\ Ended("ok") \/ (Recorded # {} /\ Ended("maintenance"))
     \/ /\ Recorded # {}
        /\ fbPositive' \in {fbPositive, Bump(fbPositive, Recorded)}
        /\ UNCHANGED <<fbInteracted, fbCredited>>
        /\ Ended("write")
  /\ UNCHANGED <<fbPending, fbPresented, fbJoined, fbWindows, fbNegative>>

HandleFinish ==
  /\ fbWorker = "handle" /\ fbHand.kind = "finish"
  /\ fbPending' = {} /\ fbPresented' = {} /\ fbJoined' = {}
  /\ Ended("ok")
  /\ UNCHANGED <<fbCredited, collector, store>>

-----------------------------------------------------------------------------
(* Sweeping *)

Expired(c) == fbWindows[c] # Never /\ fbTime - fbWindows[c] >= FbMaxAge

\* Chunks of swept windows that nothing was recorded for.
WeakNegatives(cs) == (cs \X Chunks) \ fbInteracted

Swept(cs) == fbNegative' = Bump(fbNegative, WeakNegatives(cs))

AllExpired == {c \in FbCalls : Expired(c)}

\* sweepExpiredAt fails after the oldest windows, which are gone; the weak
\* negatives of the next one may have committed.
SweepStops(gone) ==
  /\ gone \in SUBSET AllExpired
  /\ \A c \in gone, d \in AllExpired \ gone : fbWindows[c] <= fbWindows[d]
  /\ \/ Swept(gone)
     \/ \E d \in AllExpired \ gone :
          /\ \A e \in AllExpired \ gone : fbWindows[d] <= fbWindows[e]
          /\ Swept(gone \cup {d})

Gone(cs) ==
  /\ fbWindows' = [c \in FbCalls |-> IF c \in cs THEN Never ELSE fbWindows[c]]
  /\ fbJoined' = fbJoined \ cs

Sweep ==
  /\ fbWorker = "select" /\ ~fbStopped /\ AllExpired # {}
  /\ \/ Swept(AllExpired) /\ Gone(AllExpired) /\ UNCHANGED fbDisabled
     \/ \E cs \in SUBSET AllExpired : SweepStops(cs) /\ Gone(cs) /\ fbDisabled' = TRUE
  /\ fbWorker' = "top"
  /\ UNCHANGED <<fbTime, fbRun, fbQueue, fbStopped, fbTimedOut, fbReport, fbHand,
                 fbPending, fbPresented, fbCredited, fbInteracted, fbPositive, fbCloser>>

\* The queue is empty after a stop: the final sweep, whose failure closes with an
\* error, and the windows that are left are discarded.
FinalSweep ==
  /\ fbWorker = "select" /\ fbStopped /\ fbQueue = <<>>
  /\ Swept(AllExpired) \/ \E cs \in SUBSET AllExpired : SweepStops(cs)
  /\ Discard
  /\ fbWorker' = "done"
  /\ UNCHANGED <<fbTime, fbRun, admission, fbTimedOut, fbReport, fbHand, fbPositive, fbCloser>>

-----------------------------------------------------------------------------
(* Close *)

CloseStops ==
  /\ fbCloser = "open"
  /\ fbStopped' = TRUE
  /\ fbCloser' = "waiting"
  /\ UNCHANGED <<fbTime, fbRun, fbQueue, fbDisabled, fbTimedOut, fbReport, fbWorker, fbHand, joins, collector, store>>

CloseTimesOut ==
  /\ fbCloser = "waiting" /\ ~fbTimedOut /\ fbWorker # "done"
  /\ fbTimedOut' = TRUE
  /\ UNCHANGED <<fbTime, fbRun, admission, fbReport, fbWorker, fbHand, joins, collector, store, fbCloser>>

CloseReports ==
  /\ fbCloser = "waiting" /\ fbWorker = "done"
  /\ fbCloser' = "closed"
  /\ UNCHANGED <<fbTime, fbRun, admission, fbTimedOut, fbReport, fbWorker, fbHand, joins, collector, store>>

TimePasses ==
  /\ fbTime < FbMaxTime
  /\ fbTime' = fbTime + 1
  /\ UNCHANGED <<fbRun, admission, fbTimedOut, fbReport, fbWorker, fbHand, joins, collector, store, fbCloser>>

FbNext ==
  \/ \E c \in FbCalls : ObserveRetrieve(c)
  \/ ObserveUse \/ FinishRun \/ WorkerAbandons \/ WorkerGoesOn \/ Dequeue \/ ContextDone \/ ParkedStops
  \/ HandleRetrieve \/ HandlePresentation \/ PresentationMisses \/ HandleRead \/ HandleFinish
  \/ Sweep \/ FinalSweep \/ CloseStops \/ CloseTimesOut \/ CloseReports \/ TimePasses

FbSpec == FbInit /\ [][FbNext]_fbVars

-----------------------------------------------------------------------------
(* Properties *)

\* When close reports, every event that was attempted is either completed or
\* dropped: none is left in the queue or lost between observers, worker and close.
ReportBalances ==
  fbCloser = "closed" =>
    /\ fbReport.attempted = fbReport.completed + fbReport.dropped
    /\ fbQueue = <<>>

\* One retrieval judges a chunk at most once: never two signals, and never a weak
\* negative beside a signal, even if the store commits and then reports an error.
JudgedOnce == \A p \in Pairs : fbPositive[p] + fbNegative[p] <= 1
=============================================================================
