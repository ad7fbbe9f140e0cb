--------------------------- MODULE ReadyRetrieve ---------------------------
(***************************************************************************)
(* The late-binding retrieve tool (cmd/golem/ready_retrieve.go).  Parallel *)
(* calls read a reader bound to one index generation while the background  *)
(* auto-index installs, detaches and replaces readers, other processes     *)
(* move the active pointer, and the session closes the tool.  A call takes *)
(* its reader, checks the pointer without the lock, and is admitted under  *)
(* the lock only if its reader is still the installed one.                 *)
(***************************************************************************)
EXTENDS Integers

CONSTANTS RrCalls,      \* dispatch goroutines
          RrMaxReaders  \* bound: readers ever opened

ASSUME RrBounds == RrMaxReaders \in Nat

Readers == 1..RrMaxReaders   \* a reader stands also for the generation it is bound to

NoReader == 0

VARIABLES
  rrState,    \* "warming", "ready" or "failed"
  rrReader,   \* the installed reader
  rrClosed,   \* close() has begun
  rrLife,     \* per reader: none, opened, installed, retired, closing or closed
  rrPointer,  \* the generation the active pointer names, NoReader if none of ours
  rrAffected, \* the reader the auto-index saw when it began
  rrPc,       \* per call: idle, validate, detach, admit or running
  rrUses,     \* per call: the reader it took
  rrFresh,    \* history, per call: its generation has been active since it began
  rrCloser    \* the session: open, draining, waiting or returned

rrVars == <<rrState, rrReader, rrClosed, rrLife, rrPointer, rrAffected,
            rrPc, rrUses, rrFresh, rrCloser>>

RrInit ==
  /\ rrState = "warming" /\ rrReader = NoReader /\ rrClosed = FALSE
  /\ rrLife = [r \in Readers |-> "none"]
  /\ rrPointer = NoReader /\ rrAffected = NoReader
  /\ rrPc = [c \in RrCalls |-> "idle"]
  /\ rrUses = [c \in RrCalls |-> NoReader]
  /\ rrFresh = [c \in RrCalls |-> FALSE]
  /\ rrCloser = "open"

Idle(c) ==
  /\ rrPc' = [rrPc EXCEPT ![c] = "idle"]
  /\ rrUses' = [rrUses EXCEPT ![c] = NoReader]
  /\ rrFresh' = [rrFresh EXCEPT ![c] = FALSE]

InFlight(r) == {c \in RrCalls : rrPc[c] = "running" /\ rrUses[c] = r}

-----------------------------------------------------------------------------
(* Invoke *)

\* Takes the reader under the lock; without one the state's message is the answer.
InvokeTakes(c) ==
  /\ rrPc[c] = "idle" /\ rrState = "ready" /\ rrReader # NoReader
  /\ rrUses' = [rrUses EXCEPT ![c] = rrReader]
  /\ rrFresh' = [rrFresh EXCEPT ![c] = (rrPointer = rrReader)]
  /\ rrPc' = [rrPc EXCEPT ![c] = "validate"]
  /\ UNCHANGED <<rrState, rrReader, rrClosed, rrLife, rrPointer, rrAffected, rrCloser>>

\* mutant: the pointer is not consulted
ValidAlways(r) == TRUE

\* bindGeneration's check: the active pointer still names the reader's generation.
Valid(r) == rrPointer = r

InvokeValidates(c) ==
  /\ rrPc[c] = "validate"
  /\ rrPc' = [rrPc EXCEPT ![c] = IF Valid(rrUses[c]) THEN "admit" ELSE "detach"]
  /\ UNCHANGED <<rrState, rrReader, rrClosed, rrLife, rrPointer, rrAffected,
                 rrUses, rrFresh, rrCloser>>

\* mutant: a call is admitted on the reader it took, installed or not
AdmittedStale(c) == ~rrClosed

\* The re-check under the lock, which orders inflight.Add before any retirement.
Admitted(c) == ~rrClosed /\ rrReader = rrUses[c]

InvokeAdmits(c) ==
  /\ rrPc[c] = "admit"
  /\ IF Admitted(c)
     THEN rrPc' = [rrPc EXCEPT ![c] = "running"] /\ UNCHANGED <<rrUses, rrFresh>>
     ELSE Idle(c)
  /\ UNCHANGED <<rrState, rrReader, rrClosed, rrLife, rrPointer, rrAffected, rrCloser>>

InvokeReturns(c) ==
  /\ rrPc[c] = "running"
  /\ Idle(c)
  /\ UNCHANGED <<rrState, rrReader, rrClosed, rrLife, rrPointer, rrAffected, rrCloser>>

\* mutant: a detached reader is forgotten
DetachForgets(r) ==
  IF rrClosed \/ rrState = "failed" \/ rrReader # r
  THEN UNCHANGED <<rrState, rrReader, rrLife>>
  ELSE rrReader' = NoReader /\ rrState' = "ready" /\ UNCHANGED rrLife

\* detach(r): only the checked reader, and only from a tool that can be replaced.
Detach(r) ==
  IF rrClosed \/ rrState = "failed" \/ rrReader # r
  THEN UNCHANGED <<rrState, rrReader, rrLife>>
  ELSE /\ rrReader' = NoReader /\ rrState' = "ready"
       /\ rrLife' = IF r = NoReader THEN rrLife ELSE [rrLife EXCEPT ![r] = "retired"]

InvokeDetaches(c) ==
  /\ rrPc[c] = "detach"
  /\ Detach(rrUses[c])
  /\ Idle(c)
  /\ UNCHANGED <<rrClosed, rrPointer, rrAffected, rrCloser>>

-----------------------------------------------------------------------------
(* The auto-index and other processes *)

PointerMoves(p) ==
  /\ rrPointer' = p
  /\ rrFresh' = [c \in RrCalls |-> rrFresh[c] \/ (rrPc[c] # "idle" /\ rrUses[c] = p)]

\* executeAutoIndex notes the reader that serves while it builds.
IndexBegins ==
  /\ rrAffected # rrReader
  /\ rrAffected' = rrReader
  /\ UNCHANGED <<rrState, rrReader, rrClosed, rrLife, rrPointer, rrPc, rrUses, rrFresh, rrCloser>>

\* A reader is opened on a new generation, then the pointer is published.
OpenReader(r) ==
  /\ rrLife[r] = "none" /\ \A q \in Readers : rrLife[q] # "opened"
  /\ rrLife' = [rrLife EXCEPT ![r] = "opened"]
  /\ PointerMoves(r)
  /\ UNCHANGED <<rrState, rrReader, rrClosed, rrAffected, rrPc, rrUses, rrCloser>>

\* install: refused (and closed) after close or a terminal failure, else it
\* retires the reader it replaces.
Install(r) ==
  /\ rrLife[r] = "opened"
  /\ IF rrClosed \/ rrState = "failed"
     THEN /\ rrLife' = [rrLife EXCEPT ![r] = "closed"]
          /\ UNCHANGED <<rrState, rrReader>>
     ELSE /\ rrReader' = r /\ rrState' = "ready"
          /\ rrLife' = [q \in Readers |-> IF q = r THEN "installed"
                                          ELSE IF q = rrReader THEN "retired" ELSE rrLife[q]]
  /\ UNCHANGED <<rrClosed, rrPointer, rrAffected, rrPc, rrUses, rrFresh, rrCloser>>

\* The auto-index cannot publish or was cancelled: it closes the reader it opened.
AbandonReader(r) ==
  /\ rrLife[r] = "opened"
  /\ rrLife' = [rrLife EXCEPT ![r] = "closed"]
  /\ UNCHANGED <<rrState, rrReader, rrClosed, rrPointer, rrAffected, rrPc, rrUses, rrFresh, rrCloser>>

\* failBuilt after a policy outcome: the pointer has been retired, or its
\* retirement failed; the affected reader goes in either case.
IndexFailsOnPolicy ==
  /\ Detach(rrAffected)
  /\ UNCHANGED <<rrClosed, rrPointer, rrAffected, rrPc, rrUses, rrFresh, rrCloser>>

\* markFailed: only a tool that never served fails for good.
MarkFailed ==
  /\ rrState = "warming" /\ rrReader = NoReader
  /\ rrState' = "failed"
  /\ UNCHANGED <<rrReader, rrClosed, rrLife, rrPointer, rrAffected, rrPc, rrUses, rrFresh, rrCloser>>

\* Another process publishes a generation of its own, or retires the index.
ElsewherePublished ==
  /\ rrPointer # NoReader
  /\ PointerMoves(NoReader)
  /\ UNCHANGED <<rrState, rrReader, rrClosed, rrLife, rrAffected, rrPc, rrUses, rrCloser>>

-----------------------------------------------------------------------------
(* Retirement and close *)

\* inflight.Wait has returned.
Drained(r) == InFlight(r) = {}

CloseReader(r) == rrLife' = [rrLife EXCEPT ![r] = "closed"]

\* The goroutine of drainRetired.
DrainRetired(r) ==
  /\ rrLife[r] = "retired" /\ Drained(r)
  /\ CloseReader(r)
  /\ UNCHANGED <<rrState, rrReader, rrClosed, rrPointer, rrAffected, rrPc, rrUses, rrFresh, rrCloser>>

CloseBegins ==
  /\ rrCloser = "open"
  /\ rrClosed' = TRUE /\ rrReader' = NoReader
  /\ rrLife' = [r \in Readers |-> IF r = rrReader THEN "closing" ELSE rrLife[r]]
  /\ rrCloser' = "draining"
  /\ UNCHANGED <<rrState, rrPointer, rrAffected, rrPc, rrUses, rrFresh>>

CloseDrains ==
  /\ rrCloser = "draining"
  /\ \A r \in Readers : rrLife[r] = "closing" => Drained(r)
  /\ rrLife' = [r \in Readers |-> IF rrLife[r] = "closing" THEN "closed" ELSE rrLife[r]]
  /\ rrCloser' = "waiting"
  /\ UNCHANGED <<rrState, rrReader, rrClosed, rrPointer, rrAffected, rrPc, rrUses, rrFresh>>

\* retiring.Wait has returned.
CloseReturnsNow ==
  /\ rrCloser = "waiting"
  /\ \A r \in Readers : rrLife[r] # "retired"
  /\ rrCloser' = "returned"
  /\ UNCHANGED <<rrState, rrReader, rrClosed, rrLife, rrPointer, rrAffected, rrPc, rrUses, rrFresh>>

CallStep(c) ==
  InvokeValidates(c) \/ InvokeAdmits(c) \/ InvokeReturns(c) \/ InvokeDetaches(c)

RrNext ==
  \/ \E c \in RrCalls : InvokeTakes(c) \/ CallStep(c)
  \/ \E r \in Readers : OpenReader(r) \/ Install(r) \/ AbandonReader(r) \/ DrainRetired(r)
  \/ IndexBegins \/ IndexFailsOnPolicy \/ MarkFailed \/ ElsewherePublished
  \/ CloseBegins \/ CloseDrains \/ CloseReturnsNow

\* A retrieval returns: its context ends with the session at the latest.
RrFairness ==
  /\ \A c \in RrCalls : WF_rrVars(CallStep(c))
  /\ \A r \in Readers : WF_rrVars(DrainRetired(r))
  /\ WF_rrVars(CloseDrains) /\ WF_rrVars(CloseReturnsNow)

RrSpec == RrInit /\ [][RrNext]_rrVars /\ RrFairness

-----------------------------------------------------------------------------
(* Properties *)

\* Each admitted call runs on resources that are open until it returns, however
\* validation, replacement, detachment and close interleave.
ReaderOutlivesCalls ==
  \A c \in RrCalls : rrPc[c] = "running" => rrLife[rrUses[c]] # "closed"

\* A call begun after its generation was retired or replaced is never served from
\* it: the generation it reads was the active one at some moment of the call.
ServesActiveGeneration ==
  \A c \in RrCalls : rrPc[c] = "running" => rrFresh[c]

\* close returns, and by then every reader it ever installed has been closed.
CloseReleasesReaders ==
  rrCloser = "draining" ~>
    rrCloser = "returned" /\ \A r \in Readers : rrLife[r] \in {"none", "opened", "closed"}
=============================================================================
