-------------------------- MODULE LifecycleProofs --------------------------
(***************************************************************************)
(* Proofs about the components whose calls race a close: the retrieve tool *)
(* and its readers, the capacity source and its probes, the runtimes that  *)
(* share a conversation store.                                             *)
(***************************************************************************)
EXTENDS ReadyRetrieve, SlotSource, GolemRuntime, FiniteSetTheorems, TLAPS

-----------------------------------------------------------------------------
(* ReadyRetrieve.  A reader outlives the calls it serves, and serves only  *)
(* the generation that was active during the call.                         *)
Lives == {"none", "opened", "installed", "retired", "closing", "closed"}

RrTypes ==
  /\ rrState \in {"warming", "ready", "failed"}
  /\ rrReader \in Readers \cup {NoReader} /\ rrAffected \in Readers \cup {NoReader}
  /\ rrPointer \in Readers \cup {NoReader}
  /\ rrLife \in [Readers -> Lives]
  /\ rrPc \in [RrCalls -> {"idle", "validate", "detach", "admit", "running"}]
  /\ rrUses \in [RrCalls -> Readers \cup {NoReader}]
  /\ rrFresh \in [RrCalls -> BOOLEAN]

\* The tool's reader is the installed one, and the only one.
OneInstalled ==
  /\ \A r \in Readers : rrLife[r] = "installed" <=> r = rrReader

\* A call under way has a reader, and one that is admitted runs on a reader that
\* is installed or waiting for it.
ReaderHeld ==
  \A c \in RrCalls :
    /\ rrPc[c] # "idle" => rrUses[c] \in Readers
    /\ rrPc[c] = "running" => rrLife[rrUses[c]] \in {"installed", "retired", "closing"}

\* The history is exact: a call whose reader's generation is active now has seen it
\* active, and so has every call past validation.
FreshExact ==
  \A c \in RrCalls :
    /\ rrPc[c] # "idle" /\ rrPointer = rrUses[c] => rrFresh[c]
    /\ rrPc[c] \in {"admit", "running"} => rrFresh[c]

RrInv == RrTypes /\ OneInstalled /\ ReaderHeld /\ FreshExact

LEMMA ReadersFact == NoReader \notin Readers
BY DEF NoReader, Readers

LEMMA RrInitHolds == RrInit => RrInv
BY ReadersFact DEF RrInit, RrInv, RrTypes, OneInstalled, ReaderHeld, FreshExact, Lives

-----------------------------------------------------------------------------

LEMMA InvokeTakesKeeps ==
  ASSUME RrInv, NEW c \in RrCalls, InvokeTakes(c)
  PROVE  RrInv'
<1>1. /\ rrReader \in Readers /\ rrUses' = [rrUses EXCEPT ![c] = rrReader]
      /\ rrFresh' = [rrFresh EXCEPT ![c] = (rrPointer = rrReader)]
      /\ rrPc' = [rrPc EXCEPT ![c] = "validate"]
      /\ UNCHANGED <<rrState, rrReader, rrLife, rrPointer, rrAffected>>
  BY DEF InvokeTakes, RrInv, RrTypes
<1>2. RrTypes'
  BY <1>1 DEF RrInv, RrTypes
<1>3. ReaderHeld' /\ FreshExact' /\ OneInstalled'
  BY <1>1 DEF RrInv, RrTypes, ReaderHeld, FreshExact, OneInstalled
<1> QED BY <1>2, <1>3 DEF RrInv

LEMMA InvokeValidatesKeeps ==
  ASSUME RrInv, NEW c \in RrCalls, InvokeValidates(c)
  PROVE  RrInv'
<1>1. /\ rrPc[c] = "validate"
      /\ rrPc' = [rrPc EXCEPT ![c] = IF rrPointer = rrUses[c] THEN "admit" ELSE "detach"]
      /\ UNCHANGED <<rrState, rrReader, rrLife, rrPointer, rrAffected, rrUses, rrFresh>>
  BY DEF InvokeValidates, Valid
<1>2. RrTypes'
  BY <1>1 DEF RrInv, RrTypes
<1>3. ReaderHeld' /\ FreshExact' /\ OneInstalled'
  BY <1>1 DEF RrInv, RrTypes, ReaderHeld, FreshExact, OneInstalled
<1> QED BY <1>2, <1>3 DEF RrInv

\* A call that becomes idle disturbs nobody.
LEMMA IdleKeeps ==
  ASSUME RrInv, NEW c \in RrCalls, Idle(c),
         UNCHANGED <<rrState, rrReader, rrLife, rrPointer, rrAffected>>
  PROVE  RrInv'
<1>1. RrTypes'
  BY DEF Idle, RrInv, RrTypes
<1>2. ReaderHeld' /\ FreshExact' /\ OneInstalled'
  BY DEF Idle, RrInv, RrTypes, ReaderHeld, FreshExact, OneInstalled
<1> QED BY <1>1, <1>2 DEF RrInv

\* Admission: the reader the call took is still the installed one.
LEMMA InvokeAdmitsKeeps ==
  ASSUME RrInv, NEW c \in RrCalls, InvokeAdmits(c)
  PROVE  RrInv'
<1>1. CASE Admitted(c)
  <2>1. /\ rrPc[c] = "admit" /\ rrReader = rrUses[c]
        /\ rrPc' = [rrPc EXCEPT ![c] = "running"]
        /\ UNCHANGED <<rrState, rrReader, rrLife, rrPointer, rrAffected, rrUses, rrFresh>>
    BY <1>1 DEF InvokeAdmits, Admitted
  <2>2. rrUses[c] \in Readers /\ rrLife[rrUses[c]] = "installed"
    BY <2>1 DEF RrInv, ReaderHeld, OneInstalled
  <2>3. RrTypes'
    BY <2>1 DEF RrInv, RrTypes
  <2>4. ReaderHeld' /\ FreshExact' /\ OneInstalled'
    BY <2>1, <2>2 DEF RrInv, RrTypes, ReaderHeld, FreshExact, OneInstalled
  <2> QED BY <2>3, <2>4 DEF RrInv
<1>2. CASE ~Admitted(c)
  BY <1>2, IdleKeeps DEF InvokeAdmits
<1> QED BY <1>1, <1>2

\* Detaching retires the installed reader, which the calls it serves keep open.
LEMMA DetachKeeps ==
  ASSUME RrInv, NEW r \in Readers \cup {NoReader}, Detach(r),
         UNCHANGED <<rrPointer, rrAffected, rrPc, rrUses, rrFresh>>
  PROVE  RrInv'
<1>1. CASE UNCHANGED <<rrState, rrReader, rrLife>>
  BY <1>1 DEF RrInv, RrTypes, ReaderHeld, FreshExact, OneInstalled
<1>2. CASE /\ rrReader = r /\ rrReader' = NoReader /\ rrState' = "ready"
           /\ rrLife' = IF r = NoReader THEN rrLife ELSE [rrLife EXCEPT ![r] = "retired"]
  <2>1. RrTypes'
    BY <1>2 DEF RrInv, RrTypes, Lives
  <2>2. OneInstalled'
    BY <1>2, ReadersFact DEF RrInv, RrTypes, OneInstalled
  <2>3. ReaderHeld'
    BY <1>2 DEF RrInv, RrTypes, ReaderHeld
  <2>4. FreshExact'
    BY DEF RrInv, FreshExact
  <2> QED BY <2>1, <2>2, <2>3, <2>4 DEF RrInv
<1> QED BY <1>1, <1>2 DEF Detach

LEMMA InvokeDetachesKeeps ==
  ASSUME RrInv, NEW c \in RrCalls, InvokeDetaches(c)
  PROVE  RrInv'
<1> DEFINE r == rrUses[c]
<1>1. /\ rrPc[c] = "detach" /\ r \in Readers
      /\ rrPc' = [rrPc EXCEPT ![c] = "idle"] /\ rrUses' = [rrUses EXCEPT ![c] = NoReader]
      /\ rrFresh' = [rrFresh EXCEPT ![c] = FALSE] /\ UNCHANGED <<rrPointer, rrAffected>>
  BY DEF InvokeDetaches, Idle, RrInv, ReaderHeld
<1>2. \/ UNCHANGED <<rrState, rrReader, rrLife>>
      \/ /\ rrReader = r /\ rrReader' = NoReader /\ rrState' = "ready"
         /\ rrLife' = [rrLife EXCEPT ![r] = "retired"]
  BY <1>1, ReadersFact DEF InvokeDetaches, Detach
<1> HIDE DEF r
<1>3. CASE UNCHANGED <<rrState, rrReader, rrLife>>
  BY <1>1, <1>3, IdleKeeps DEF Idle
<1>4. CASE /\ rrReader = r /\ rrReader' = NoReader /\ rrState' = "ready"
           /\ rrLife' = [rrLife EXCEPT ![r] = "retired"]
  <2>1. RrTypes'
    BY <1>1, <1>4 DEF RrInv, RrTypes, Lives
  <2>2. OneInstalled'
    BY <1>1, <1>4, ReadersFact DEF RrInv, RrTypes, OneInstalled
  <2>3. ReaderHeld'
    BY <1>1, <1>4 DEF RrInv, RrTypes, ReaderHeld
  <2>4. FreshExact'
    BY <1>1 DEF RrInv, RrTypes, FreshExact
  <2> QED BY <2>1, <2>2, <2>3, <2>4 DEF RrInv
<1> QED BY <1>2, <1>3, <1>4

\* The pointer moves: whoever uses the new generation notes it.
LEMMA PointerMovesFresh ==
  ASSUME RrInv, NEW p \in Readers \cup {NoReader}, PointerMoves(p), UNCHANGED <<rrPc, rrUses>>
  PROVE  /\ FreshExact' /\ rrFresh' \in [RrCalls -> BOOLEAN]
         /\ rrPointer' \in Readers \cup {NoReader}
BY DEF PointerMoves, RrInv, RrTypes, FreshExact

\* A reader that serves nobody may be opened or closed.
LEMMA LifeMoves ==
  ASSUME RrInv, NEW r \in Readers, NEW life \in {"opened", "closed"},
         rrLife[r] \notin {"installed"},
         \A c \in RrCalls : rrPc[c] = "running" => rrUses[c] # r,
         rrLife' = [rrLife EXCEPT ![r] = life], UNCHANGED <<rrReader, rrPc, rrUses>>
  PROVE  OneInstalled' /\ ReaderHeld' /\ rrLife' \in [Readers -> Lives]
BY DEF RrInv, RrTypes, OneInstalled, ReaderHeld, Lives

LEMMA OpenReaderKeeps ==
  ASSUME RrInv, NEW r \in Readers, OpenReader(r)
  PROVE  RrInv'
<1>1. /\ rrLife[r] = "none" /\ rrLife' = [rrLife EXCEPT ![r] = "opened"] /\ PointerMoves(r)
      /\ UNCHANGED <<rrState, rrReader, rrAffected, rrPc, rrUses>>
  BY DEF OpenReader
<1>2. \A c \in RrCalls : rrPc[c] = "running" => rrUses[c] # r
  BY <1>1 DEF RrInv, ReaderHeld
<1>3. OneInstalled' /\ ReaderHeld' /\ rrLife' \in [Readers -> Lives]
  BY <1>1, <1>2, LifeMoves
<1>4. /\ FreshExact' /\ rrFresh' \in [RrCalls -> BOOLEAN]
      /\ rrPointer' \in Readers \cup {NoReader}
  BY <1>1, PointerMovesFresh
<1> QED BY <1>1, <1>3, <1>4 DEF RrInv, RrTypes

\* Closing a reader that is not installed and serves nobody.
LEMMA ClosedKeeps ==
  ASSUME RrInv, NEW r \in Readers, rrLife[r] # "installed",
         \A c \in RrCalls : rrPc[c] = "running" => rrUses[c] # r,
         rrLife' = [rrLife EXCEPT ![r] = "closed"],
         UNCHANGED <<rrState, rrReader, rrPointer, rrAffected, rrPc, rrUses, rrFresh>>
  PROVE  RrInv'
<1>1. OneInstalled' /\ ReaderHeld' /\ rrLife' \in [Readers -> Lives]
  BY LifeMoves
<1> QED BY <1>1 DEF RrInv, RrTypes, FreshExact

LEMMA InstallKeeps ==
  ASSUME RrInv, NEW r \in Readers, Install(r)
  PROVE  RrInv'
<1>1. /\ rrLife[r] = "opened"
      /\ UNCHANGED <<rrPointer, rrAffected, rrPc, rrUses, rrFresh>>
  BY DEF Install
<1>2. \A c \in RrCalls : rrPc[c] = "running" => rrUses[c] # r
  BY <1>1 DEF RrInv, ReaderHeld
<1>3. CASE rrClosed \/ rrState = "failed"
  BY <1>1, <1>2, <1>3, ClosedKeeps DEF Install
<1>4. CASE ~(rrClosed \/ rrState = "failed")
  <2>1. /\ rrReader' = r /\ rrState' = "ready"
        /\ rrLife' = [q \in Readers |-> IF q = r THEN "installed"
                                        ELSE IF q = rrReader THEN "retired" ELSE rrLife[q]]
    BY <1>4 DEF Install
  <2>2. RrTypes'
    BY <1>1, <2>1 DEF RrInv, RrTypes, Lives
  <2>3. OneInstalled'
    BY <2>1 DEF RrInv, OneInstalled
  <2>4. ReaderHeld'
    BY <1>1, <2>1 DEF RrInv, ReaderHeld
  <2>5. FreshExact'
    BY <1>1 DEF RrInv, FreshExact
  <2> QED BY <2>2, <2>3, <2>4, <2>5 DEF RrInv
<1> QED BY <1>3, <1>4

LEMMA AbandonReaderKeeps ==
  ASSUME RrInv, NEW r \in Readers, AbandonReader(r)
  PROVE  RrInv'
<1>1. /\ rrLife[r] = "opened" /\ rrLife' = [rrLife EXCEPT ![r] = "closed"]
      /\ UNCHANGED <<rrState, rrReader, rrPointer, rrAffected, rrPc, rrUses, rrFresh>>
  BY DEF AbandonReader
<1>2. \A c \in RrCalls : rrPc[c] = "running" => rrUses[c] # r
  BY <1>1 DEF RrInv, ReaderHeld
<1> QED BY <1>1, <1>2, ClosedKeeps

\* The drain goroutine closes a retired reader once nobody runs on it.
LEMMA DrainRetiredKeeps ==
  ASSUME RrInv, NEW r \in Readers, DrainRetired(r)
  PROVE  RrInv'
<1>1. /\ rrLife[r] = "retired" /\ rrLife' = [rrLife EXCEPT ![r] = "closed"]
      /\ UNCHANGED <<rrState, rrReader, rrPointer, rrAffected, rrPc, rrUses, rrFresh>>
  BY DEF DrainRetired, CloseReader
<1>2. \A c \in RrCalls : rrPc[c] = "running" => rrUses[c] # r
  BY DEF DrainRetired, Drained, InFlight
<1> QED BY <1>1, <1>2, ClosedKeeps

LEMMA IndexFailsOnPolicyKeeps ==
  ASSUME RrInv, IndexFailsOnPolicy
  PROVE  RrInv'
<1>1. rrAffected \in Readers \cup {NoReader}
  BY DEF RrInv, RrTypes
<1> QED BY <1>1, DetachKeeps DEF IndexFailsOnPolicy

LEMMA ElsewherePublishedKeeps ==
  ASSUME RrInv, ElsewherePublished
  PROVE  RrInv'
<1>1. /\ PointerMoves(NoReader)
      /\ UNCHANGED <<rrState, rrReader, rrLife, rrAffected, rrPc, rrUses>>
  BY DEF ElsewherePublished
<1>2. /\ FreshExact' /\ rrFresh' \in [RrCalls -> BOOLEAN]
      /\ rrPointer' \in Readers \cup {NoReader}
  BY <1>1, PointerMovesFresh
<1> QED BY <1>1, <1>2 DEF RrInv, RrTypes, OneInstalled, ReaderHeld

\* close begins: the installed reader waits for the calls it serves ...
LEMMA CloseBeginsKeeps ==
  ASSUME RrInv, CloseBegins
  PROVE  RrInv'
<1>1. /\ rrReader' = NoReader
      /\ rrLife' = [r \in Readers |-> IF r = rrReader THEN "closing" ELSE rrLife[r]]
      /\ UNCHANGED <<rrState, rrPointer, rrAffected, rrPc, rrUses, rrFresh>>
  BY DEF CloseBegins
<1>2. RrTypes'
  BY <1>1 DEF RrInv, RrTypes, Lives
<1>3. OneInstalled'
  BY <1>1, ReadersFact DEF RrInv, OneInstalled
<1>4. ReaderHeld' /\ FreshExact'
  BY <1>1 DEF RrInv, ReaderHeld, FreshExact
<1> QED BY <1>2, <1>3, <1>4 DEF RrInv

\* ... and is closed when they have returned.
LEMMA CloseDrainsKeeps ==
  ASSUME RrInv, CloseDrains
  PROVE  RrInv'
<1>1. /\ \A r \in Readers : rrLife[r] = "closing" => Drained(r)
      /\ rrLife' = [r \in Readers |-> IF rrLife[r] = "closing" THEN "closed" ELSE rrLife[r]]
      /\ UNCHANGED <<rrState, rrReader, rrPointer, rrAffected, rrPc, rrUses, rrFresh>>
  BY DEF CloseDrains
<1>2. \A c \in RrCalls : rrPc[c] = "running" => rrLife[rrUses[c]] # "closing"
  BY <1>1 DEF RrInv, ReaderHeld, Drained, InFlight
<1>3. RrTypes'
  BY <1>1 DEF RrInv, RrTypes, Lives
<1>4. OneInstalled'
  BY <1>1 DEF RrInv, OneInstalled
<1>5. ReaderHeld' /\ FreshExact'
  BY <1>1, <1>2 DEF RrInv, ReaderHeld, FreshExact
<1> QED BY <1>3, <1>4, <1>5 DEF RrInv

-----------------------------------------------------------------------------

LEMMA RrStepKeeps == RrInv /\ [RrNext]_rrVars => RrInv'
<1> SUFFICES ASSUME RrInv, [RrNext]_rrVars PROVE RrInv'
  OBVIOUS
<1>1. CASE \E c \in RrCalls : InvokeTakes(c) \/ CallStep(c)
  <2>1. ASSUME NEW c \in RrCalls, InvokeReturns(c) PROVE RrInv'
    BY <2>1, IdleKeeps DEF InvokeReturns
  <2> QED BY <1>1, <2>1, InvokeTakesKeeps, InvokeValidatesKeeps, InvokeAdmitsKeeps,
             InvokeDetachesKeeps DEF CallStep
<1>2. CASE \E r \in Readers : OpenReader(r) \/ Install(r) \/ AbandonReader(r) \/ DrainRetired(r)
  BY <1>2, OpenReaderKeeps, InstallKeeps, AbandonReaderKeeps, DrainRetiredKeeps
<1>3. CASE IndexBegins \/ MarkFailed \/ CloseReturnsNow \/ UNCHANGED rrVars
  <2>1. /\ rrState' \in {"warming", "ready", "failed"} /\ rrAffected' \in Readers \cup {NoReader}
        /\ UNCHANGED <<rrReader, rrLife, rrPointer, rrPc, rrUses, rrFresh>>
    BY <1>3 DEF IndexBegins, MarkFailed, CloseReturnsNow, rrVars, RrInv, RrTypes
  <2> QED BY <2>1 DEF RrInv, RrTypes, OneInstalled, ReaderHeld, FreshExact
<1> QED BY <1>1, <1>2, <1>3, IndexFailsOnPolicyKeeps, ElsewherePublishedKeeps, CloseBeginsKeeps,
           CloseDrainsKeeps DEF RrNext

\* Each admitted retrieval runs on open resources until it returns (Invoke, install,
\* detach, drainRetired, close): admission under the lock is what orders a call
\* before the retirement of its reader.
THEOREM ReadersOutlive == RrSpec => []ReaderOutlivesCalls
<1>1. RrInv => ReaderOutlivesCalls
  BY DEF RrInv, ReaderHeld, ReaderOutlivesCalls
<1> QED BY <1>1, RrInitHolds, RrStepKeeps, PTL DEF RrSpec

\* A retrieval is served only from a generation that was the active one at some
\* moment of the call (Invoke's validation against the pointer).
THEOREM ServedActive == RrSpec => []ServesActiveGeneration
<1>1. RrInv => ServesActiveGeneration
  BY DEF RrInv, FreshExact, ServesActiveGeneration
<1> QED BY <1>1, RrInitHolds, RrStepKeeps, PTL DEF RrSpec

-----------------------------------------------------------------------------
(* SlotSource.                                                             *)
(* A goroutine, and what is cached, by type.                               *)
ProbeStates ==
  {Ready} \cup [at : {"fetch"}, key : Keys, age : 0 .. Timeout]
          \cup [at : {"record"}, key : Keys, age : 0 .. Timeout, n : 0 .. MaxCap]
          \cup [at : {"exit"}, key : Keys]
EntryStates == [capacity : 0 .. MaxCap, age : 0 .. TTL]

SsType ==
  /\ backend \in [Keys -> 1 .. MaxCap] /\ entries \in [Keys -> EntryStates]
  /\ inflight \subseteq Keys /\ closed \in BOOLEAN /\ wg \in Nat
  /\ probe \in [Probes -> ProbeStates]
  /\ closer \in [Closers -> {"idle", "waiting", "returned"}]
  /\ settled \in [Keys -> 0 .. Horizon]

(* A probe under way holds its key; nobody else does.                      *)
Probing(p) == p.at \in {"fetch", "record"}
KeysHeld == \A i \in Probes : Probing(probe[i]) => probe[i].key \in inflight

Alive == {i \in Probes : probe[i] # Ready}

(* The wait group counts the goroutines, and a Close that has returned     *)
(* found none.                                                             *)
ProbesCounted ==
  /\ wg = Cardinality(Alive)
  /\ \A c \in Closers : closer[c] # "idle" => closed
  /\ \A c \in Closers : closer[c] = "returned" => Alive = {}

(* A slot count above the backend's was fetched before the backend last    *)
(* changed, so it cannot be older than that change.                        *)
FetchedLately == \A i \in Probes : probe[i].at = "record" =>
  probe[i].n <= backend[probe[i].key] \/ settled[probe[i].key] <= probe[i].age
CachedLately == \A k \in Keys : Fresh(k) =>
  entries[k].capacity <= backend[k] \/ settled[k] <= entries[k].age + Timeout

SsInv == SsType /\ KeysHeld /\ OneProbePerKey /\ ProbesCounted /\ FetchedLately /\ CachedLately

LEMMA SsInitHolds == SsInit => SsInv
<1> SUFFICES ASSUME SsInit PROVE SsInv
  OBVIOUS
<1>1. Alive = {} /\ Cardinality({}) = 0 /\ \A i \in Probes : probe[i] = Ready /\ probe[i].at = "ready"
  BY FS_EmptySet DEF SsInit, Alive, Ready
<1>2. SsType
  <2>1. NoEntry \in EntryStates /\ Horizon \in 0 .. Horizon
    BY SourceBounds DEF NoEntry, EntryStates, Horizon
  <2>2. Ready \in ProbeStates
    BY DEF ProbeStates
  <2>3. closed \in BOOLEAN
    BY DEF SsInit
  <2> QED BY <2>1, <2>2, <2>3 DEF SsInit, SsType
<1>3. KeysHeld /\ OneProbePerKey /\ FetchedLately
  BY <1>1 DEF KeysHeld, OneProbePerKey, FetchedLately, Probing
<1>4. ProbesCounted
  BY <1>1 DEF SsInit, ProbesCounted
<1>5. CachedLately
  BY SourceBounds DEF SsInit, CachedLately, Fresh, NoEntry
<1> QED BY <1>2, <1>3, <1>4, <1>5 DEF SsInv

-----------------------------------------------------------------------------
LEMMA ProbeType ==
  ASSUME SsInv, NEW i \in Probes
  PROVE  /\ probe[i] \in ProbeStates
         /\ probe[i].at \in {"ready", "fetch", "record", "exit"}
         /\ probe[i] = Ready <=> probe[i].at = "ready"
         /\ Probing(probe[i]) => probe[i].key \in Keys /\ probe[i].age \in 0 .. Timeout
         /\ probe[i].at = "record" => probe[i].n \in 0 .. MaxCap
BY DEF SsInv, SsType, ProbeStates, Ready, Probing

LEMMA AliveFinite == IsFiniteSet(Alive) /\ Cardinality(Alive) \in Nat
<1>1. Alive \subseteq Probes
  BY DEF Alive
<1> QED BY <1>1, FiniteProbes, FS_Subset, FS_CardinalityType

LEMMA RecordUseKeeps ==
  ASSUME SsInv, NEW k \in Keys, NEW i \in Probes, RecordUse(k, i)
  PROVE  SsInv'
<1> DEFINE p == [at |-> "fetch", key |-> k, age |-> 0]
<1>1. /\ ~closed /\ k \notin inflight /\ probe[i] = Ready
      /\ inflight' = inflight \cup {k} /\ wg' = wg + 1 /\ probe' = [probe EXCEPT ![i] = p]
      /\ UNCHANGED <<backend, entries, closed, closer, settled>>
  BY DEF RecordUse, MaySpawn
<1>2. p \in ProbeStates /\ p.at = "fetch" /\ p.key = k /\ p # Ready
  BY SourceBounds DEF ProbeStates, Ready
<1> HIDE DEF p
<1>3. /\ probe'[i] = p /\ \A g \in Probes : g # i => probe'[g] = probe[g]
      /\ probe' \in [Probes -> ProbeStates]
  BY <1>1, <1>2 DEF SsInv, SsType
<1>4. SsType'
  BY <1>1, <1>3 DEF SsInv, SsType
<1>5. KeysHeld' /\ OneProbePerKey'
  BY <1>1, <1>2, <1>3 DEF SsInv, KeysHeld, OneProbePerKey, Probing
<1>6. ProbesCounted'
  <2>1. Alive' = Alive \cup {i} /\ i \notin Alive
    BY <1>1, <1>2, <1>3 DEF Alive
  <2>2. Cardinality(Alive') = Cardinality(Alive) + 1
    BY <2>1, AliveFinite, FS_AddElement
  <2> QED BY <1>1, <2>2 DEF SsInv, SsType, ProbesCounted
<1>7. FetchedLately'
  BY <1>1, <1>2, <1>3 DEF SsInv, FetchedLately
<1>8. CachedLately'
  BY <1>1 DEF SsInv, CachedLately, Fresh
<1> QED BY <1>4, <1>5, <1>6, <1>7, <1>8 DEF SsInv

LEMMA FetchedKeeps ==
  ASSUME SsInv, NEW i \in Probes, FetchOK(i) \/ FetchFails(i)
  PROVE  SsInv'
<1>1. PICK n : Fetched(i, n) /\ (n = backend[probe[i].key] \/ n = Failed)
  BY DEF FetchOK, FetchFails, Fetched
<1> DEFINE p == [at |-> "record", key |-> probe[i].key, age |-> probe[i].age, n |-> n]
<1>2. /\ probe[i].at = "fetch" /\ probe' = [probe EXCEPT ![i] = p]
      /\ UNCHANGED <<backend, entries, inflight, closed, wg, closer, settled>>
  BY <1>1 DEF Fetched
<1>3. probe[i].key \in Keys /\ probe[i].age \in 0 .. Timeout /\ probe[i] # Ready
  BY <1>2, ProbeType DEF Probing, Ready
<1>4. backend[probe[i].key] \in 1 .. MaxCap
  BY <1>3 DEF SsInv, SsType
<1>5. n \in 0 .. MaxCap /\ n <= backend[probe[i].key]
  BY <1>1, <1>4, SourceBounds DEF Failed
<1>6. /\ p \in ProbeStates /\ p.at = "record" /\ p.key = probe[i].key /\ p.n = n
      /\ p.age = probe[i].age /\ p # Ready
  BY <1>3, <1>5 DEF ProbeStates, Ready
<1> HIDE DEF p
<1>7. /\ probe'[i] = p /\ \A g \in Probes : g # i => probe'[g] = probe[g]
      /\ probe' \in [Probes -> ProbeStates]
  BY <1>2, <1>6 DEF SsInv, SsType
<1>8. SsType'
  BY <1>2, <1>7 DEF SsInv, SsType
<1>9. KeysHeld' /\ OneProbePerKey'
  BY <1>2, <1>6, <1>7 DEF SsInv, KeysHeld, OneProbePerKey, Probing
<1>10. ProbesCounted'
  <2>1. Alive' = Alive
    BY <1>3, <1>6, <1>7 DEF Alive
  <2> QED BY <1>2, <2>1 DEF SsInv, ProbesCounted
<1>11. FetchedLately'
  BY <1>2, <1>5, <1>6, <1>7 DEF SsInv, FetchedLately
<1>12. CachedLately'
  BY <1>2 DEF SsInv, CachedLately, Fresh
<1> QED BY <1>8, <1>9, <1>10, <1>11, <1>12 DEF SsInv

LEMMA RecordKeeps ==
  ASSUME SsInv, NEW i \in Probes, Record(i)
  PROVE  SsInv'
<1> DEFINE k == probe[i].key
           p == [at |-> "exit", key |-> k]
           e == Written(entries[k], probe[i].n)
<1>1. /\ probe[i].at = "record" /\ inflight' = inflight \ {k}
      /\ entries' = [entries EXCEPT ![k] = e] /\ probe' = [probe EXCEPT ![i] = p]
      /\ UNCHANGED <<backend, closed, wg, closer, settled>>
  BY DEF Record
<1>2. /\ k \in Keys /\ probe[i].age \in 0 .. Timeout /\ probe[i].n \in 0 .. MaxCap
      /\ probe[i] # Ready
  BY <1>1, ProbeType DEF Probing, Ready
<1>3. p \in ProbeStates /\ p.at = "exit" /\ p # Ready
  BY <1>2 DEF ProbeStates, Ready
<1>4. /\ entries[k] \in EntryStates /\ backend[k] \in 1 .. MaxCap /\ settled[k] \in 0 .. Horizon
      /\ probe[i].n <= backend[k] \/ settled[k] <= probe[i].age
  BY <1>1, <1>2 DEF SsInv, SsType, FetchedLately
<1>5. /\ e \in EntryStates
      /\ e = entries[k] \/ (e.age = 0 /\ (e.capacity <= backend[k] \/ settled[k] <= Timeout))
  <2>1. CASE closed
    BY <1>4, <2>1 DEF Written
  <2>2. CASE ~closed
    <3>1. e = [capacity |-> IF probe[i].n = Failed THEN 1 ELSE probe[i].n, age |-> 0]
      BY <2>2 DEF Written, Observed
    <3>2. 0 \in 0 .. TTL /\ Horizon \in Nat
      BY SourceBounds DEF Horizon
    <3>3. e.age = 0 /\ e.capacity = IF probe[i].n = Failed THEN 1 ELSE probe[i].n
      BY <3>1
    <3>4. e.capacity \in 0 .. MaxCap /\ (e.capacity <= backend[k] \/ settled[k] <= Timeout)
      BY <1>2, <1>4, <3>2, <3>3, SourceBounds DEF Failed
    <3>5. e \in EntryStates
      BY <3>1, <3>2, <3>3, <3>4 DEF EntryStates
    <3> QED BY <3>3, <3>4, <3>5
  <2> QED BY <2>1, <2>2
<1> HIDE DEF p, e
<1>6. /\ probe'[i] = p /\ \A g \in Probes : g # i => probe'[g] = probe[g]
      /\ probe' \in [Probes -> ProbeStates]
  BY <1>1, <1>3 DEF SsInv, SsType
<1>7. /\ entries'[k] = e /\ \A l \in Keys : l # k => entries'[l] = entries[l]
      /\ entries' \in [Keys -> EntryStates]
  BY <1>1, <1>2, <1>5 DEF SsInv, SsType
<1>8. SsType'
  BY <1>1, <1>6, <1>7 DEF SsInv, SsType
<1>9. KeysHeld' /\ OneProbePerKey'
  <2>1. \A g \in Probes : g # i /\ Probing(probe[g]) => probe[g].key # k
    BY <1>1 DEF SsInv, OneProbePerKey, Probing
  <2> QED BY <1>1, <1>3, <1>6, <2>1 DEF SsInv, KeysHeld, OneProbePerKey, Probing
<1>10. ProbesCounted'
  <2>1. Alive' = Alive
    BY <1>2, <1>3, <1>6 DEF Alive
  <2> QED BY <1>1, <2>1 DEF SsInv, ProbesCounted
<1>11. FetchedLately'
  BY <1>1, <1>3, <1>6 DEF SsInv, FetchedLately
<1>12. CachedLately'
  <2>1. e.age = 0 => e.age + Timeout = Timeout
    BY SourceBounds
  <2> QED BY <1>1, <1>5, <1>7, <2>1 DEF SsInv, CachedLately, Fresh
<1> QED BY <1>8, <1>9, <1>10, <1>11, <1>12 DEF SsInv

LEMMA ExitKeeps ==
  ASSUME SsInv, NEW i \in Probes, Exit(i)
  PROVE  SsInv'
<1>1. /\ probe[i].at = "exit" /\ probe' = [probe EXCEPT ![i] = Ready] /\ wg' = wg - 1
      /\ UNCHANGED <<backend, entries, inflight, closed, closer, settled>>
  BY DEF Exit
<1>2. Ready \in ProbeStates /\ Ready.at = "ready" /\ probe[i] # Ready
  BY <1>1 DEF ProbeStates, Ready
<1>3. /\ probe'[i] = Ready /\ \A g \in Probes : g # i => probe'[g] = probe[g]
      /\ probe' \in [Probes -> ProbeStates]
  BY <1>1, <1>2 DEF SsInv, SsType
<1>4. KeysHeld' /\ OneProbePerKey' /\ FetchedLately'
  BY <1>1, <1>2, <1>3 DEF SsInv, KeysHeld, OneProbePerKey, FetchedLately, Probing
<1>5. Alive' = Alive \ {i} /\ i \in Alive
  BY <1>2, <1>3 DEF Alive
<1>6. Cardinality(Alive') = Cardinality(Alive) - 1 /\ Cardinality(Alive') \in Nat
  BY <1>5, AliveFinite, FS_RemoveElement, FS_CardinalityType
<1>7. ProbesCounted' /\ wg' \in Nat
  BY <1>1, <1>5, <1>6, AliveFinite DEF SsInv, SsType, ProbesCounted
<1>8. SsType'
  BY <1>1, <1>3, <1>7 DEF SsInv, SsType
<1>9. CachedLately'
  BY <1>1 DEF SsInv, CachedLately, Fresh
<1> QED BY <1>4, <1>7, <1>8, <1>9 DEF SsInv

LEMMA CloseKeeps ==
  ASSUME SsInv, NEW c \in Closers, Close(c) \/ CloseReturns(c)
  PROVE  SsInv'
<1>1. UNCHANGED <<backend, entries, inflight, wg, probe, settled>>
  BY DEF Close, CloseReturns
<1>2. KeysHeld' /\ OneProbePerKey' /\ FetchedLately' /\ CachedLately' /\ Alive' = Alive
  BY <1>1 DEF SsInv, KeysHeld, OneProbePerKey, FetchedLately, CachedLately, Fresh, Probing, Alive
<1>3. CASE Close(c)
  <2>1. closed' = TRUE /\ closer[c] = "idle" /\ closer' = [closer EXCEPT ![c] = "waiting"]
    BY <1>3 DEF Close
  <2>2. SsType'
    BY <1>1, <2>1 DEF SsInv, SsType
  <2>3. ProbesCounted'
    BY <1>1, <1>2, <2>1 DEF SsInv, SsType, ProbesCounted
  <2> QED BY <1>2, <2>2, <2>3 DEF SsInv
<1>4. CASE CloseReturns(c)
  <2>1. /\ wg = 0 /\ closed' = closed /\ closer[c] = "waiting"
        /\ closer' = [closer EXCEPT ![c] = "returned"]
    BY <1>4 DEF CloseReturns, ProbesDrained
  <2>2. SsType'
    BY <1>1, <2>1 DEF SsInv, SsType
  <2>3. Alive = {}
    BY <2>1, AliveFinite, FS_EmptySet DEF SsInv, ProbesCounted
  <2>4. ProbesCounted'
    BY <1>1, <1>2, <2>1, <2>3 DEF SsInv, SsType, ProbesCounted
  <2> QED BY <1>2, <2>2, <2>4 DEF SsInv
<1> QED BY <1>3, <1>4

LEMMA RestartKeeps ==
  ASSUME SsInv, NEW k \in Keys, NEW n \in 1 .. MaxCap, Restart(k, n)
  PROVE  SsInv'
<1>1. /\ backend' = [backend EXCEPT ![k] = n] /\ settled' = [settled EXCEPT ![k] = 0]
      /\ UNCHANGED <<entries, inflight, closed, wg, probe, closer>>
  BY DEF Restart
<1>2. Horizon \in Nat /\ 0 \in 0 .. Horizon
  BY SourceBounds DEF Horizon
<1>3. SsType'
  BY <1>1, <1>2 DEF SsInv, SsType
<1>4. KeysHeld' /\ OneProbePerKey' /\ ProbesCounted'
  BY <1>1 DEF SsInv, KeysHeld, OneProbePerKey, ProbesCounted, Probing, Alive
<1>5. /\ settled'[k] = 0
      /\ \A l \in Keys : l # k => backend'[l] = backend[l] /\ settled'[l] = settled[l]
  BY <1>1 DEF SsInv, SsType
<1>6. FetchedLately'
  <2> SUFFICES ASSUME NEW i \in Probes, probe[i].at = "record"
               PROVE  \/ probe[i].n <= backend'[probe[i].key]
                      \/ settled'[probe[i].key] <= probe[i].age
    BY <1>1 DEF FetchedLately
  <2>1. probe[i].key \in Keys /\ probe[i].age \in 0 .. Timeout
    BY ProbeType DEF Probing
  <2>2. 0 <= probe[i].age
    BY <2>1, SourceBounds
  <2> QED BY <1>5, <2>1, <2>2 DEF SsInv, FetchedLately
<1>7. CachedLately'
  <2> SUFFICES ASSUME NEW l \in Keys, Fresh(l)
               PROVE  \/ entries[l].capacity <= backend'[l]
                      \/ settled'[l] <= entries[l].age + Timeout
    BY <1>1 DEF CachedLately, Fresh
  <2>1. 0 <= entries[l].age + Timeout
    BY <1>2, SourceBounds DEF SsInv, SsType, EntryStates
  <2> QED BY <1>5, <2>1 DEF SsInv, CachedLately
<1> QED BY <1>3, <1>4, <1>6, <1>7 DEF SsInv

LEMMA TickKeeps ==
  ASSUME SsInv, Tick
  PROVE  SsInv'
<1>1. /\ \A i \in Probes : Probing(probe[i]) => probe[i].age < Timeout
      /\ entries' = [k \in Keys |-> [entries[k] EXCEPT !.age = IF @ < TTL THEN @ + 1 ELSE @]]
      /\ probe' = [i \in Probes |-> IF Probing(probe[i]) THEN [probe[i] EXCEPT !.age = @ + 1]
                                                        ELSE probe[i]]
      /\ settled' = [k \in Keys |-> IF settled[k] < Horizon THEN settled[k] + 1 ELSE settled[k]]
      /\ UNCHANGED <<backend, inflight, closed, wg, closer>>
  BY DEF Tick, Probing
<1>2. ASSUME NEW k \in Keys
      PROVE  /\ entries'[k] \in EntryStates /\ entries'[k].capacity = entries[k].capacity
             /\ entries'[k].age < TTL => entries'[k].age = entries[k].age + 1 /\ entries[k].age < TTL
  <2>1. entries[k] \in EntryStates
    BY DEF SsInv, SsType
  <2>2. entries'[k] = [entries[k] EXCEPT !.age = IF @ < TTL THEN @ + 1 ELSE @]
    BY <1>1
  <2>3. /\ entries'[k].capacity = entries[k].capacity
        /\ entries'[k].age = IF entries[k].age < TTL THEN entries[k].age + 1 ELSE entries[k].age
    BY <2>1, <2>2 DEF EntryStates
  <2> QED BY <2>1, <2>2, <2>3, SourceBounds DEF EntryStates
<1>3. ASSUME NEW i \in Probes
      PROVE  /\ probe'[i] \in ProbeStates /\ probe'[i].at = probe[i].at
             /\ probe'[i] = Ready <=> probe[i] = Ready
             /\ Probing(probe[i]) => probe'[i].key = probe[i].key /\ probe'[i].age = probe[i].age + 1
             /\ probe[i].at = "record" => probe'[i].n = probe[i].n
  <2>1. CASE ~Probing(probe[i])
    <3>1. probe'[i] = probe[i]
      BY <1>1, <2>1
    <3> QED BY <2>1, <3>1, ProbeType DEF Probing
  <2>2. CASE probe[i].at = "fetch"
    <3>1. /\ probe'[i] = [probe[i] EXCEPT !.age = @ + 1] /\ probe[i].age < Timeout
          /\ probe[i] \in [at : {"fetch"}, key : Keys, age : 0 .. Timeout]
      BY <1>1, <2>2, ProbeType DEF Probing, ProbeStates, Ready
    <3> QED BY <2>2, <3>1, SourceBounds DEF ProbeStates, Probing, Ready
  <2>3. CASE probe[i].at = "record"
    <3>1. /\ probe'[i] = [probe[i] EXCEPT !.age = @ + 1] /\ probe[i].age < Timeout
          /\ probe[i] \in [at : {"record"}, key : Keys, age : 0 .. Timeout, n : 0 .. MaxCap]
      BY <1>1, <2>3, ProbeType DEF Probing, ProbeStates, Ready
    <3> QED BY <2>3, <3>1, SourceBounds DEF ProbeStates, Probing, Ready
  <2> QED BY <2>1, <2>2, <2>3 DEF Probing
<1>4. ASSUME NEW k \in Keys
      PROVE  /\ settled'[k] \in 0 .. Horizon /\ settled[k] \in 0 .. Horizon
             /\ \A a \in Nat : a <= TTL + Timeout /\ settled[k] <= a => settled'[k] <= a + 1
  <2>1. settled'[k] = IF settled[k] < Horizon THEN settled[k] + 1 ELSE settled[k]
    BY <1>1
  <2>2. settled[k] \in 0 .. Horizon
    BY DEF SsInv, SsType
  <2> QED BY <2>1, <2>2, SourceBounds DEF Horizon
<1>5. SsType'
  <2>1. entries' \in [Keys -> EntryStates]
    BY <1>1, <1>2
  <2>2. probe' \in [Probes -> ProbeStates]
    <3>1. DOMAIN probe' = Probes
      BY <1>1
    <3> QED BY <1>1, <1>3, <3>1
  <2>3. settled' \in [Keys -> 0 .. Horizon]
    BY <1>1, <1>4
  <2> QED BY <1>1, <2>1, <2>2, <2>3 DEF SsInv, SsType
<1>6. KeysHeld' /\ OneProbePerKey'
  <2>1. \A i \in Probes : Probing(probe'[i]) <=> Probing(probe[i])
    BY <1>3 DEF Probing
  <2> QED BY <1>1, <1>3, <2>1 DEF SsInv, KeysHeld, OneProbePerKey, Probing
<1>7. ProbesCounted'
  <2>1. Alive' = Alive
    BY <1>3 DEF Alive
  <2> QED BY <1>1, <2>1 DEF SsInv, ProbesCounted
<1>8. FetchedLately'
  <2> SUFFICES ASSUME NEW i \in Probes, probe[i].at = "record"
               PROVE  \/ probe[i].n <= backend[probe[i].key]
                      \/ settled'[probe[i].key] <= probe[i].age + 1
    BY <1>1, <1>3 DEF FetchedLately, Probing
  <2>1. probe[i].key \in Keys /\ probe[i].age \in 0 .. Timeout
    BY ProbeType DEF Probing
  <2>2. probe[i].age \in Nat /\ probe[i].age <= TTL + Timeout
    BY <2>1, SourceBounds
  <2> QED BY <1>4, <2>1, <2>2 DEF SsInv, FetchedLately
<1>9. CachedLately'
  <2> SUFFICES ASSUME NEW k \in Keys, entries'[k].age < TTL
               PROVE  \/ entries[k].capacity <= backend[k]
                      \/ settled'[k] <= entries'[k].age + Timeout
    BY <1>1, <1>2 DEF CachedLately, Fresh
  <2>1. /\ entries[k].age \in Nat /\ entries[k].age < TTL
        /\ entries'[k].age = entries[k].age + 1
    BY <1>2 DEF SsInv, SsType, EntryStates
  <2>2. \/ entries[k].capacity <= backend[k]
        \/ settled[k] <= entries[k].age + Timeout
    BY <2>1 DEF SsInv, CachedLately, Fresh
  <2>3. /\ entries[k].age + Timeout \in Nat /\ entries[k].age + Timeout <= TTL + Timeout
        /\ (entries[k].age + Timeout) + 1 = entries'[k].age + Timeout
    BY <2>1, SourceBounds
  <2> QED BY <1>4, <2>2, <2>3
<1> QED BY <1>5, <1>6, <1>7, <1>8, <1>9 DEF SsInv

LEMMA SsStepKeeps == SsInv /\ [SsNext]_ssVars => SsInv'
<1> SUFFICES ASSUME SsInv, [SsNext]_ssVars PROVE SsInv'
  OBVIOUS
<1>1. CASE UNCHANGED ssVars
  BY <1>1 DEF SsInv, ssVars, SsType, KeysHeld, OneProbePerKey, ProbesCounted, Alive, FetchedLately,
              CachedLately, Fresh, Probing
<1>2. CASE SsNext
  BY <1>2, RecordUseKeeps, FetchedKeeps, RecordKeeps, ExitKeeps, CloseKeeps, RestartKeeps,
     TickKeeps DEF SsNext
<1> QED BY <1>1, <1>2

LEMMA SsAlways == SsSpec => []SsInv
<1> QED BY SsInitHolds, SsStepKeeps, PTL DEF SsSpec

-----------------------------------------------------------------------------
(* Once a backend has kept its slot count for the life of an entry and of  *)
(* a probe, Capacity reports no more than that, however probes, restarts   *)
(* and failures interleave and for every ttl and probe timeout.            *)
THEOREM StalenessIsBounded == SsSpec => []StalenessBounded
<1>1. SsInv => StalenessBounded
  <2> SUFFICES ASSUME SsInv, NEW k \in Keys, settled[k] = Horizon
               PROVE  Capacity(k) <= backend[k]
    BY DEF StalenessBounded
  <2>1. backend[k] \in 1 .. MaxCap /\ entries[k].age \in 0 .. TTL
    BY DEF SsInv, SsType, EntryStates
  <2>2. CASE Fresh(k)
    <3>1. ~(settled[k] <= entries[k].age + Timeout)
      BY <2>1, <2>2, SourceBounds DEF Fresh, Horizon
    <3> QED BY <2>2, <3>1 DEF SsInv, CachedLately, Capacity
  <2>3. CASE ~Fresh(k)
    BY <2>1, <2>3, SourceBounds DEF Capacity
  <2> QED BY <2>2, <2>3
<1> QED BY <1>1, SsAlways, PTL

(* In every step no key gets a second probe, no probe is left or started   *)
(* once a Close has returned, and after Close an observation only ages.    *)
THEOREM ProbesAreDisciplined == SsSpec => ProbeDiscipline
<1>1. SsInv' => OneProbePerKey' /\ NoProbeAfterClose'
  BY DEF SsInv, ProbesCounted, Alive, NoProbeAfterClose
<1>2. ASSUME SsInv, [SsNext]_ssVars, closed, NEW k \in Keys
      PROVE  /\ entries'[k].capacity = entries[k].capacity
             /\ entries'[k].age >= entries[k].age
  <2>1. entries[k] \in EntryStates /\ entries[k].age \in Nat /\ entries[k].age >= entries[k].age
    BY <1>2, SourceBounds DEF SsInv, SsType, EntryStates
  <2>2. CASE UNCHANGED entries
    BY <2>1, <2>2
  <2>3. ASSUME NEW i \in Probes, Record(i) PROVE entries' = entries
    BY <1>2, <2>3 DEF Record, Written, SsInv, SsType
  <2>4. CASE Tick
    <3>1. entries'[k] = [entries[k] EXCEPT !.age = IF @ < TTL THEN @ + 1 ELSE @]
      BY <2>4 DEF Tick
    <3> QED BY <2>1, <3>1 DEF EntryStates
  <2>5. UNCHANGED entries \/ Tick \/ \E i \in Probes : Record(i)
    BY <1>2 DEF SsNext, ssVars, RecordUse, FetchOK, FetchFails, Fetched, Exit, Close,
                CloseReturns, Restart
  <2> QED BY <2>1, <2>2, <2>3, <2>4, <2>5
<1>3. SsInv /\ SsInv' /\ [SsNext]_ssVars =>
        [/\ OneProbePerKey' /\ NoProbeAfterClose'
         /\ closed => \A k \in Keys :
              /\ entries'[k].capacity = entries[k].capacity
              /\ entries'[k].age >= entries[k].age]_ssVars
  BY <1>1, <1>2
<1> QED BY <1>3, SsAlways, PTL DEF SsSpec, ProbeDiscipline

-----------------------------------------------------------------------------
(* GolemRuntime.  The states an operation can be in.                       *)
GrPlaces == {"idle", "started", "loaded", "claimed", "compress", "saveCompacted", "finish"}
GrEvents == {"none", "canceled", "failed", "empty", "finished"}
GrConvs == [rev : Nat, turns : SUBSET Turns, packed : SUBSET Turns]
GrOps == [kind : {"none", "turn", "compaction"}, turn : 0 .. GrMaxTurns, conv : GrConvs,
          cancelled : BOOLEAN, terminal : BOOLEAN, event : GrEvents]

GrType ==
  /\ grStored \in GrConvs /\ grFloor \in Nat /\ grDeleted \subseteq Turns
  /\ grPc \in [Runtimes -> GrPlaces] /\ grOp \in [Runtimes -> GrOps]
  /\ grReported \in [Turns -> GrEvents]

(* Where an operation is tells how far its event is decided: a turn is     *)
(* finished from its save on, and its terminal event was claimed before.   *)
OpGood(pc, op) ==
  /\ op.kind = "none" <=> pc = "idle"
  /\ op.kind = "turn" => op.turn \in Turns
  /\ op.kind # "turn" => op.turn = 0
  /\ pc \in {"loaded", "claimed"} => op.kind = "turn"
  /\ op.kind = "turn" /\ pc \in {"started", "loaded", "claimed"} => op.event = "none"
  /\ op.kind = "turn" /\ pc \in {"compress", "saveCompacted"} => op.event = "finished"
  /\ op.kind = "turn" /\ pc = "finish" => op.event # "none"
  /\ op.event = "finished" => op.kind = "turn" /\ op.terminal
  /\ pc = "claimed" => op.terminal

(* The snapshot an operation holds: what it was loaded from, with its own  *)
(* turn added once that is claimed.                                        *)
HasSnapshot(pc) == pc \in {"loaded", "claimed", "compress", "saveCompacted"}
TakenFrom(pc, op, turns) ==
  op.conv.turns = IF pc = "claimed" THEN turns \cup {op.turn} ELSE turns

(* Revisions only grow: a snapshot whose revision is the stored one is     *)
(* the stored conversation, and no other revision comes back.              *)
SnapshotGood(pc, op) == HasSnapshot(pc) =>
  /\ op.conv.rev <= grFloor \/ op.conv.rev <= grStored.rev
  /\ op.conv.rev = 0 => TakenFrom(pc, op, {})
  /\ op.conv.rev = grStored.rev => TakenFrom(pc, op, grStored.turns)

StoreGood ==
  /\ grStored.rev = 0 => grStored.turns = {}
  /\ grStored.rev # 0 => grFloor < grStored.rev
  /\ grStored.turns \cap grDeleted = {}

Saved == grStored.turns \cup grDeleted

(* A turn under way is not reported, and it is saved iff it is finished.   *)
TurnGood(op) == op.kind = "turn" =>
  /\ grReported[op.turn] = "none"
  /\ op.turn \in Saved <=> op.event = "finished"

OneOwner == \A r, s \in Runtimes :
  grOp[r].kind = "turn" /\ grOp[s].kind = "turn" /\ grOp[r].turn = grOp[s].turn => r = s

(* Run IDs are given out in order.                                         *)
Used == {t \in Turns : grReported[t] # "none" \/ \E r \in Runtimes : grOp[r].turn = t}
InOrder == Used = 1 .. Cardinality(Used)
SavedAreUsed == Saved \subseteq Used

OpsGood == \A r \in Runtimes :
  OpGood(grPc[r], grOp[r]) /\ SnapshotGood(grPc[r], grOp[r]) /\ TurnGood(grOp[r])

GrInv == GrType /\ StoreGood /\ OpsGood /\ OneOwner /\ InOrder /\ SavedAreUsed /\ TurnsAsReported

LEMMA GrInitHolds == GrInit => GrInv
<1> SUFFICES ASSUME GrInit PROVE GrInv
  OBVIOUS
<1>1. Absent \in GrConvs /\ Absent.rev = 0 /\ Absent.turns = {}
  BY DEF Absent, GrConvs
<1>2. NoOp \in GrOps /\ NoOp.kind = "none" /\ NoOp.turn = 0 /\ NoOp.event = "none"
  BY <1>1, GrBounds DEF NoOp, GrOps, GrEvents
<1>3. GrType
  BY <1>1, <1>2 DEF GrInit, GrType, GrPlaces, GrEvents
<1>4. StoreGood
  BY <1>1 DEF GrInit, StoreGood
<1>5. OpsGood
  BY <1>2 DEF GrInit, OpsGood, OpGood, SnapshotGood, HasSnapshot, TurnGood
<1>6. OneOwner
  BY <1>2 DEF GrInit, OneOwner
<1>7. InOrder
  <2>1. 0 \notin Turns
    BY DEF Turns
  <2>2. Used = {}
    BY <1>2, <2>1 DEF GrInit, Used
  <2> QED BY <2>2, FS_EmptySet DEF InOrder
<1>9. SavedAreUsed
  BY <1>1 DEF GrInit, SavedAreUsed, Saved
<1>8. TurnsAsReported
  BY DEF GrInit, TurnsAsReported, FinishedTurnsKept, UnfinishedTurnsNotSaved
<1> QED BY <1>3, <1>4, <1>5, <1>6, <1>7, <1>8, <1>9 DEF GrInv

-----------------------------------------------------------------------------
(* An operation goes on without touching the store.                        *)
Goes(r, pc, op) ==
  /\ pc \in GrPlaces /\ op \in GrOps /\ OpGood(pc, op) /\ SnapshotGood(pc, op)
  /\ op.kind = grOp[r].kind /\ op.turn = grOp[r].turn
  /\ op.event = "finished" <=> grOp[r].event = "finished"
  /\ grPc' = [grPc EXCEPT ![r] = pc] /\ grOp' = [grOp EXCEPT ![r] = op]

LEMMA GoesKeeps ==
  ASSUME GrInv, NEW r \in Runtimes, NEW pc, NEW op, Goes(r, pc, op),
         UNCHANGED <<storeVars, grReported>>
  PROVE  GrInv'
<1>1. /\ grPc'[r] = pc /\ grOp'[r] = op
      /\ \A s \in Runtimes : s # r => grPc'[s] = grPc[s] /\ grOp'[s] = grOp[s]
      /\ grPc' \in [Runtimes -> GrPlaces] /\ grOp' \in [Runtimes -> GrOps]
  BY DEF Goes, GrInv, GrType
<1>2. UNCHANGED <<grStored, grFloor, grDeleted, grReported>>
  BY DEF storeVars
<1>3. GrType' /\ StoreGood' /\ TurnsAsReported'
  BY <1>1, <1>2 DEF GrInv, GrType, StoreGood, TurnsAsReported, FinishedTurnsKept,
                    UnfinishedTurnsNotSaved
<1>4. \A s \in Runtimes : /\ grOp'[s].kind = grOp[s].kind /\ grOp'[s].turn = grOp[s].turn
                          /\ grOp'[s].event = "finished" <=> grOp[s].event = "finished"
  BY <1>1 DEF Goes
<1>5. \A s \in Runtimes : TurnGood(grOp[s])'
  BY <1>2, <1>4 DEF GrInv, OpsGood, TurnGood, Saved
<1>6. \A s \in Runtimes : OpGood(grPc'[s], grOp'[s])
  BY <1>1 DEF GrInv, OpsGood, Goes
<1>7. \A s \in Runtimes : SnapshotGood(grPc[s], grOp[s])'
  BY <1>1, <1>2 DEF GrInv, OpsGood, Goes, SnapshotGood
<1>8. OpsGood'
  BY <1>5, <1>6, <1>7 DEF OpsGood
<1>9. OneOwner'
  BY <1>4 DEF GrInv, OneOwner
<1>10. InOrder' /\ SavedAreUsed'
  <2>1. Used' = Used
    BY <1>2, <1>4 DEF Used
  <2> QED BY <1>2, <2>1 DEF GrInv, InOrder, SavedAreUsed, Saved
<1> QED BY <1>3, <1>8, <1>9, <1>10 DEF GrInv

LEMMA OpFacts ==
  ASSUME GrInv, NEW r \in Runtimes
  PROVE  /\ grOp[r] \in GrOps /\ grOp[r].conv \in GrConvs /\ grPc[r] \in GrPlaces
         /\ OpGood(grPc[r], grOp[r]) /\ SnapshotGood(grPc[r], grOp[r]) /\ TurnGood(grOp[r])
         /\ grPc = [grPc EXCEPT ![r] = grPc[r]]
BY DEF GrInv, GrType, OpsGood, GrOps

(* An operation gets its terminal event.                                   *)
LEMMA EndsGoes ==
  ASSUME GrInv, NEW r \in Runtimes, NEW event \in GrEvents, Ends(r, event),
         grPc[r] # "idle",
         event = "finished" <=> grOp[r].event = "finished",
         grOp[r].kind = "turn" => event # "none"
  PROVE  \E pc, op : Goes(r, pc, op)
<1> DEFINE op == [grOp[r] EXCEPT !.event = event]
<1>1. /\ op \in GrOps /\ op.kind = grOp[r].kind /\ op.turn = grOp[r].turn
      /\ op.event = event /\ op.terminal = grOp[r].terminal
  BY OpFacts DEF GrOps
<1>2. grPc' = [grPc EXCEPT ![r] = "finish"] /\ grOp' = [grOp EXCEPT ![r] = op]
  BY DEF Ends, At
<1> HIDE DEF op
<1>3. OpGood("finish", op)
  BY <1>1, OpFacts DEF OpGood
<1>4. Goes(r, "finish", op)
  BY <1>1, <1>2, <1>3 DEF Goes, GrPlaces, SnapshotGood, HasSnapshot
<1> QED BY <1>4

(* A cancellation changes one flag.                                        *)
LEMMA CancelGoes ==
  ASSUME GrInv, NEW r \in Runtimes, NEW flag \in BOOLEAN,
         grOp' = [grOp EXCEPT ![r].cancelled = flag], grPc' = grPc
  PROVE  \E pc, op : Goes(r, pc, op)
<1> DEFINE op == [grOp[r] EXCEPT !.cancelled = flag]
<1>1. /\ op \in GrOps /\ op.kind = grOp[r].kind /\ op.turn = grOp[r].turn
      /\ op.event = grOp[r].event /\ op.terminal = grOp[r].terminal /\ op.conv = grOp[r].conv
  BY OpFacts DEF GrOps
<1>2. grOp' = [grOp EXCEPT ![r] = op]
  OBVIOUS
<1> HIDE DEF op
<1>3. OpGood(grPc[r], op) /\ SnapshotGood(grPc[r], op)
  BY <1>1, OpFacts DEF OpGood, SnapshotGood, TakenFrom
<1>4. Goes(r, grPc[r], op)
  BY <1>1, <1>2, <1>3, OpFacts DEF Goes
<1> QED BY <1>4

LEMMA CancelKeeps ==
  ASSUME GrInv, NEW r \in Runtimes,
         Cancel(r) \/ CallerCancels(r) \/ CloseRuntime(r) \/ RuntimeClosed(r)
  PROVE  GrInv'
<1>1. UNCHANGED <<storeVars, grPc, grReported>>
  BY DEF Cancel, CallerCancels, CloseRuntime, RuntimeClosed
<1>2. grOp[r].cancelled \in BOOLEAN /\ grOp \in [Runtimes -> GrOps]
  BY OpFacts DEF GrOps, GrInv, GrType
<1>3. CASE Cancel(r) \/ CallerCancels(r)
  <2>1. grOp' = [grOp EXCEPT ![r].cancelled = TRUE]
    BY <1>3 DEF Cancel, CallerCancels
  <2> QED BY <1>1, <2>1, CancelGoes, GoesKeeps
<1>4. CASE CloseRuntime(r)
  <2>1. grOp' = [grOp EXCEPT ![r].cancelled = grOp[r].cancelled \/ CancelledByClose(grOp[r])]
    BY <1>4 DEF CloseRuntime
  <2>2. (grOp[r].cancelled \/ CancelledByClose(grOp[r])) \in BOOLEAN
    BY DEF CancelledByClose
  <2> QED BY <1>1, <2>1, <2>2, CancelGoes, GoesKeeps
<1>5. CASE RuntimeClosed(r)
  <2>1. grOp' = grOp
    BY <1>5 DEF RuntimeClosed
  <2>2. grOp' = [grOp EXCEPT ![r].cancelled = grOp[r].cancelled]
    BY <1>2, <2>1, OpFacts DEF GrOps
  <2> QED BY <1>1, <1>2, <2>2, CancelGoes, GoesKeeps
<1> QED BY <1>3, <1>4, <1>5

LEMMA LoadKeeps ==
  ASSUME GrInv, NEW r \in Runtimes, Load(r)
  PROVE  GrInv'
<1>1. grPc[r] = "started" /\ UNCHANGED <<storeVars, grReported>>
  BY DEF Load
<1>2. grOp[r].event # "finished" /\ grOp[r].kind # "none"
  BY <1>1, OpFacts DEF OpGood
<1>3. CASE Ends(r, "canceled")
  BY <1>1, <1>2, <1>3, EndsGoes, GoesKeeps DEF GrEvents
<1>4. CASE Ends(r, "failed")
  BY <1>1, <1>2, <1>4, EndsGoes, GoesKeeps DEF GrEvents
<1>5. ASSUME grOp' = [grOp EXCEPT ![r].conv = grStored],
             At(r, IF grOp[r].kind = "turn" THEN "loaded" ELSE "compress")
      PROVE  GrInv'
  <2> DEFINE op == [grOp[r] EXCEPT !.conv = grStored]
             pc == IF grOp[r].kind = "turn" THEN "loaded" ELSE "compress"
  <2>1. grStored \in GrConvs
    BY DEF GrInv, GrType
  <2>2. /\ op \in GrOps /\ op.kind = grOp[r].kind /\ op.turn = grOp[r].turn
        /\ op.event = grOp[r].event /\ op.terminal = grOp[r].terminal /\ op.conv = grStored
    BY <2>1, OpFacts DEF GrOps
  <2>3. grOp' = [grOp EXCEPT ![r] = op] /\ grPc' = [grPc EXCEPT ![r] = pc]
    BY <1>5 DEF At
  <2>4. pc \in GrPlaces /\ pc # "claimed" /\ (pc = "loaded" <=> grOp[r].kind = "turn")
        /\ pc \in {"loaded", "compress"}
    BY DEF GrPlaces
  <2> HIDE DEF op, pc
  <2>5. OpGood(pc, op)
    BY <1>1, <1>2, <2>2, <2>4, OpFacts DEF OpGood
  <2>6. SnapshotGood(pc, op)
    BY <2>1, <2>2, <2>4 DEF SnapshotGood, TakenFrom, GrInv, StoreGood, GrConvs
  <2>7. Goes(r, pc, op)
    BY <2>2, <2>3, <2>4, <2>5, <2>6 DEF Goes
  <2> QED BY <1>1, <2>7, GoesKeeps
<1> QED BY <1>3, <1>4, <1>5 DEF Load

LEMMA OrchestrateKeeps ==
  ASSUME GrInv, NEW r \in Runtimes,
         Orchestrate(r) \/ OrchestrateCancelled(r) \/ SinkFails(r)
  PROVE  GrInv'
<1>1. /\ grPc[r] \in {"started", "loaded"} /\ grOp[r].kind = "turn"
      /\ UNCHANGED <<storeVars, grReported>>
  BY OpFacts DEF Orchestrate, OrchestrateCancelled, SinkFails, OpGood
<1>2. grOp[r].event = "none"
  BY <1>1, OpFacts DEF OpGood
<1>3. ASSUME NEW event \in {"empty", "failed", "canceled"}, Ends(r, event) PROVE GrInv'
  BY <1>1, <1>2, <1>3, EndsGoes, GoesKeeps DEF GrEvents
<1>4. ASSUME Orchestrate(r), grOp' = [grOp EXCEPT ![r] = Claimed(@)], At(r, "claimed") PROVE GrInv'
  <2> DEFINE conv == [grOp[r].conv EXCEPT !.turns = @ \cup {grOp[r].turn}]
             op == [grOp[r] EXCEPT !.terminal = TRUE, !.conv = conv]
  <2>1. grOp[r].conv \in GrConvs /\ grOp[r].turn \in Turns /\ grPc[r] = "loaded"
    BY <1>1, <1>4, OpFacts DEF OpGood, Orchestrate
  <2>2. /\ conv \in GrConvs /\ conv.rev = grOp[r].conv.rev
        /\ conv.turns = grOp[r].conv.turns \cup {grOp[r].turn}
    BY <2>1 DEF GrConvs
  <2>3. grOp' = [grOp EXCEPT ![r] = op] /\ grPc' = [grPc EXCEPT ![r] = "claimed"]
    BY <1>4 DEF At, Claimed
  <2> HIDE DEF conv
  <2>4. /\ op \in GrOps /\ op.kind = grOp[r].kind /\ op.turn = grOp[r].turn
        /\ op.event = grOp[r].event /\ op.terminal /\ op.conv = conv
    BY <2>2, OpFacts DEF GrOps
  <2> HIDE DEF op
  <2>5. OpGood("claimed", op)
    BY <1>1, <1>2, <2>4, OpFacts DEF OpGood
  <2>6. SnapshotGood("claimed", op)
    BY <2>1, <2>2, <2>4, OpFacts DEF SnapshotGood, TakenFrom, HasSnapshot
  <2>7. Goes(r, "claimed", op)
    BY <2>3, <2>4, <2>5, <2>6 DEF Goes, GrPlaces
  <2> QED BY <1>1, <2>7, GoesKeeps
<1> QED BY <1>3, <1>4 DEF Orchestrate, OrchestrateCancelled, SinkFails

LEMMA CompressKeeps ==
  ASSUME GrInv, NEW r \in Runtimes, Compress(r) \/ CompressCancelled(r)
  PROVE  GrInv'
<1>1. grPc[r] = "compress" /\ UNCHANGED <<storeVars, grReported>>
  BY DEF Compress, CompressCancelled
<1>2. /\ grOp[r].kind = "turn" => grOp[r].event = "finished"
      /\ grOp[r].event \in GrEvents /\ grOp[r].kind # "none"
  BY <1>1, OpFacts DEF OpGood, GrOps
<1>3. CASE Ends(r, grOp[r].event)
  BY <1>1, <1>2, <1>3, EndsGoes, GoesKeeps
<1>4. ASSUME grOp' = [grOp EXCEPT ![r].conv = Compacted(@)], At(r, "saveCompacted") PROVE GrInv'
  <2> DEFINE conv == Compacted(grOp[r].conv)
             op == [grOp[r] EXCEPT !.conv = conv]
  <2>1. grOp[r].conv \in GrConvs
    BY OpFacts
  <2>2. conv \in GrConvs /\ conv.rev = grOp[r].conv.rev /\ conv.turns = grOp[r].conv.turns
    BY <2>1 DEF GrConvs, Compacted
  <2>3. grOp' = [grOp EXCEPT ![r] = op] /\ grPc' = [grPc EXCEPT ![r] = "saveCompacted"]
    BY <1>4 DEF At
  <2> HIDE DEF conv
  <2>4. /\ op \in GrOps /\ op.kind = grOp[r].kind /\ op.turn = grOp[r].turn
        /\ op.event = grOp[r].event /\ op.terminal = grOp[r].terminal /\ op.conv = conv
    BY <2>2, OpFacts DEF GrOps
  <2> HIDE DEF op
  <2>5. OpGood("saveCompacted", op)
    BY <1>1, <1>2, <2>4, OpFacts DEF OpGood
  <2>6. SnapshotGood("saveCompacted", op)
    BY <1>1, <2>2, <2>4, OpFacts DEF SnapshotGood, TakenFrom, HasSnapshot
  <2>7. Goes(r, "saveCompacted", op)
    BY <2>3, <2>4, <2>5, <2>6 DEF Goes, GrPlaces
  <2> QED BY <1>1, <2>7, GoesKeeps
<1> QED BY <1>3, <1>4 DEF Compress, CompressCancelled

-----------------------------------------------------------------------------
(* The run ID of a new turn has not been used.                             *)
LEMMA NextTurnIsNew ==
  ASSUME GrInv, NextTurn \in Turns
  PROVE  /\ NextTurn \notin Used /\ Used \cup {NextTurn} = 1 .. NextTurn
         /\ Cardinality(1 .. NextTurn) = NextTurn
<1> DEFINE n == Cardinality(Used)
<1>1. Used \subseteq 1 .. GrMaxTurns /\ GrMaxTurns \in Nat
  BY GrBounds DEF Used, Turns
<1>2. IsFiniteSet(Used)
  <2>1. IsFiniteSet(1 .. GrMaxTurns)
    BY <1>1, FS_Interval
  <2> QED BY <1>1, <2>1, FS_Subset
<1>3. n \in Nat
  BY <1>2, FS_CardinalityType
<1>4. NextTurn = 1 + n /\ Used = 1 .. n
  BY DEF NextTurn, Used, GrInv, InOrder
<1> HIDE DEF n
<1>5. Cardinality(1 .. NextTurn) = NextTurn
  BY <1>3, <1>4, FS_Interval
<1>6. NextTurn \notin 1 .. n /\ (1 .. n) \cup {NextTurn} = 1 .. NextTurn
  BY <1>3, <1>4
<1> QED BY <1>4, <1>5, <1>6

LEMMA ReserveKeeps ==
  ASSUME GrInv, NEW r \in Runtimes, ReserveTurn(r) \/ ReserveCompaction(r)
  PROVE  GrInv'
<1>1. /\ grPc[r] = "idle" /\ grPc' = [grPc EXCEPT ![r] = "started"]
      /\ UNCHANGED <<grStored, grFloor, grDeleted, grReported>>
  BY DEF ReserveTurn, ReserveCompaction, CanReserve, At, storeVars
<1>2. PICK op \in GrOps :
        /\ grOp' = [grOp EXCEPT ![r] = op] /\ op.event = "none"
        /\ \/ op.kind = "compaction" /\ op.turn = 0
           \/ op.kind = "turn" /\ op.turn = NextTurn /\ NextTurn \in Turns
  <2>1. NoOp \in GrOps /\ NoOp.event = "none" /\ NoOp.turn = 0
    BY GrBounds DEF NoOp, GrOps, GrEvents, GrConvs, Absent
  <2>2. CASE ReserveTurn(r)
    <3> DEFINE op == [NoOp EXCEPT !.kind = "turn", !.turn = NextTurn]
    <3>1. NextTurn \in Turns /\ grOp' = [grOp EXCEPT ![r] = op]
      BY <2>2 DEF ReserveTurn
    <3>2. NextTurn \in 0 .. GrMaxTurns
      BY <3>1, GrBounds DEF Turns
    <3>3. op \in GrOps /\ op.event = "none" /\ op.kind = "turn" /\ op.turn = NextTurn
      BY <2>1, <3>2 DEF GrOps
    <3> QED BY <3>1, <3>3
  <2>3. CASE ReserveCompaction(r)
    <3> DEFINE op == [NoOp EXCEPT !.kind = "compaction"]
    <3>1. grOp' = [grOp EXCEPT ![r] = op]
      BY <2>3 DEF ReserveCompaction
    <3>2. op \in GrOps /\ op.event = "none" /\ op.kind = "compaction" /\ op.turn = 0
      BY <2>1 DEF GrOps
    <3> QED BY <3>1, <3>2
  <2> QED BY <2>2, <2>3
<1>3. /\ grPc'[r] = "started" /\ grOp'[r] = op
      /\ \A s \in Runtimes : s # r => grPc'[s] = grPc[s] /\ grOp'[s] = grOp[s]
      /\ grPc' \in [Runtimes -> GrPlaces] /\ grOp' \in [Runtimes -> GrOps]
  BY <1>1, <1>2 DEF GrInv, GrType, GrPlaces
<1>4. GrType' /\ StoreGood' /\ TurnsAsReported'
  BY <1>1, <1>3 DEF GrInv, GrType, StoreGood, TurnsAsReported, FinishedTurnsKept,
                    UnfinishedTurnsNotSaved
<1>5. grOp[r].turn = 0 /\ 0 \notin Turns /\ grOp[r].kind = "none"
  BY <1>1, OpFacts DEF OpGood, Turns
<1>6. ASSUME op.kind = "turn"
      PROVE  /\ grReported[op.turn] = "none" /\ op.turn \notin Saved
             /\ \A s \in Runtimes : grOp[s].turn # op.turn
  <2>1. op.turn \in Turns /\ op.turn \notin Used
    BY <1>2, <1>6, NextTurnIsNew
  <2>2. grReported[op.turn] = "none" /\ \A s \in Runtimes : grOp[s].turn # op.turn
    BY <2>1 DEF Used
  <2>3. op.turn \notin Saved
    BY <2>1, <2>2 DEF GrInv, SavedAreUsed
  <2> QED BY <2>2, <2>3
<1>7. OpsGood'
  <2>1. OpGood("started", op) /\ SnapshotGood("started", op)'
    BY <1>2 DEF OpGood, SnapshotGood, HasSnapshot
  <2>2. TurnGood(op)'
    BY <1>1, <1>2, <1>6 DEF TurnGood, Saved
  <2>3. ASSUME NEW s \in Runtimes, s # r
        PROVE  /\ OpGood(grPc[s], grOp[s])' /\ SnapshotGood(grPc[s], grOp[s])'
               /\ TurnGood(grOp[s])'
    BY <1>1, <1>3, <2>3 DEF GrInv, OpsGood, SnapshotGood, TurnGood, Saved
  <2> QED BY <1>3, <2>1, <2>2, <2>3 DEF OpsGood
<1>8. OneOwner'
  BY <1>2, <1>3, <1>6 DEF GrInv, OneOwner
<1>9. InOrder' /\ SavedAreUsed'
  <2>1. CASE op.kind = "compaction"
    <3>1. Used' = Used
      BY <1>1, <1>2, <1>3, <1>5, <2>1 DEF Used
    <3> QED BY <1>1, <3>1 DEF GrInv, InOrder, SavedAreUsed, Saved
  <2>2. CASE op.kind = "turn"
    <3>1. Used' = Used \cup {NextTurn} /\ NextTurn \in Turns
      BY <1>1, <1>2, <1>3, <1>5, <2>2 DEF Used
    <3>2. InOrder'
      BY <3>1, NextTurnIsNew DEF InOrder
    <3> QED BY <1>1, <3>1, <3>2 DEF GrInv, SavedAreUsed, Saved
  <2> QED BY <1>2, <2>1, <2>2
<1> QED BY <1>4, <1>7, <1>8, <1>9 DEF GrInv

-----------------------------------------------------------------------------
(* A commit: the snapshot was the stored conversation, and its new         *)
(* revision is larger than that of any snapshot held.                      *)
LEMMA CommitKeeps ==
  ASSUME GrInv, NEW r \in Runtimes, NEW pc \in GrPlaces, NEW op \in GrOps,
         grPc[r] \in {"claimed", "saveCompacted"},
         Matches(grOp[r].conv), grStored' = Committed(grOp[r].conv),
         grPc' = [grPc EXCEPT ![r] = pc], grOp' = [grOp EXCEPT ![r] = op],
         op.kind = grOp[r].kind, op.turn = grOp[r].turn, OpGood(pc, op),
         grOp[r].kind = "turn" => op.event = "finished",
         HasSnapshot(pc) => pc # "claimed" /\ op.conv = Committed(grOp[r].conv),
         UNCHANGED <<grFloor, grDeleted, grReported>>
  PROVE  GrInv'
<1> DEFINE conv == grOp[r].conv
           new == Committed(conv)
           mine == IF grPc[r] = "claimed" THEN {grOp[r].turn} ELSE {}
<1>1. /\ conv \in GrConvs /\ grStored \in GrConvs /\ grFloor \in Nat
      /\ conv.rev = grStored.rev /\ conv.turns = grStored.turns \cup mine
  BY OpFacts DEF Matches, SnapshotGood, HasSnapshot, TakenFrom, GrInv, GrType
<1>2. NextRevision(conv) \in Nat /\ grFloor < NextRevision(conv) /\ grStored.rev < NextRevision(conv)
  BY <1>1 DEF NextRevision, GrConvs, GrInv, StoreGood
<1>3. new \in GrConvs /\ new.rev = NextRevision(conv) /\ new.turns = conv.turns
  BY <1>1, <1>2 DEF Committed, GrConvs
<1>4. grStored' = new /\ (HasSnapshot(pc) => pc # "claimed" /\ op.conv = new)
  OBVIOUS
<1> HIDE DEF new
<1>5. /\ grPc'[r] = pc /\ grOp'[r] = op
      /\ \A s \in Runtimes : s # r => grPc'[s] = grPc[s] /\ grOp'[s] = grOp[s]
      /\ grPc' \in [Runtimes -> GrPlaces] /\ grOp' \in [Runtimes -> GrOps]
  BY DEF GrInv, GrType
<1>6. GrType'
  BY <1>3, <1>4, <1>5 DEF GrInv, GrType
<1>7. grOp[r].kind = "turn" /\ grPc[r] = "claimed" => /\ grOp[r].turn \notin Saved
                                                     /\ grOp[r].turn \in Turns
  BY OpFacts DEF OpGood, TurnGood
<1>8. grPc[r] = "claimed" => grOp[r].kind = "turn"
  BY OpFacts DEF OpGood
<1>9. Saved' = Saved \cup mine /\ grStored'.turns = grStored.turns \cup mine
  BY <1>1, <1>3, <1>4 DEF Saved
<1>10. mine # {} => mine = {grOp[r].turn} /\ grOp[r].turn \notin Saved /\ grOp[r].kind = "turn"
  BY <1>7, <1>8
<1> HIDE DEF mine
<1>11. StoreGood'
  <2>1. grStored'.rev # 0 /\ grFloor' < grStored'.rev
    BY <1>1, <1>2, <1>3, <1>4 DEF GrConvs
  <2>2. grStored'.turns \cap grDeleted' = {}
    BY <1>9, <1>10 DEF GrInv, StoreGood, Saved
  <2> QED BY <2>1, <2>2 DEF StoreGood
<1>12. OpsGood'
  <2>1. OpGood(pc, op) /\ SnapshotGood(pc, op)'
    <3>1. HasSnapshot(pc) => /\ op.conv.rev = grStored'.rev /\ op.conv.turns = grStored'.turns
                             /\ grStored'.rev \in Nat /\ grStored'.rev # 0 /\ pc # "claimed"
      BY <1>2, <1>3, <1>4, <1>1
    <3> QED BY <3>1 DEF SnapshotGood, TakenFrom
  <2>2. TurnGood(op)'
    <3>1. ASSUME op.kind = "turn" PROVE op.turn \in Saved' /\ grReported'[op.turn] = "none"
      <4>1. CASE grPc[r] = "claimed"
        <5>1. op.turn \in mine
          BY <4>1 DEF mine
        <5> QED BY <1>9, <3>1, <5>1, OpFacts DEF TurnGood
      <4>2. CASE grPc[r] = "saveCompacted"
        <5>1. grOp[r].kind = "turn" /\ grOp[r].event = "finished"
          BY <3>1, <4>2, OpFacts DEF OpGood
        <5>2. grOp[r].turn \in Saved /\ grReported[grOp[r].turn] = "none"
          BY <5>1, OpFacts DEF TurnGood
        <5> QED BY <1>9, <5>2
      <4> QED BY <4>1, <4>2
    <3> QED BY <3>1 DEF TurnGood
  <2>3. ASSUME NEW s \in Runtimes, s # r
        PROVE  /\ OpGood(grPc[s], grOp[s])' /\ SnapshotGood(grPc[s], grOp[s])'
               /\ TurnGood(grOp[s])'
    <3>1. OpGood(grPc[s], grOp[s]) /\ SnapshotGood(grPc[s], grOp[s]) /\ TurnGood(grOp[s])
          /\ grOp[s].conv \in GrConvs
      BY OpFacts
    <3>2. TurnGood(grOp[s])'
      <4>1. grOp[s].kind = "turn" => grOp[s].turn \notin mine
        BY <1>10, <2>3 DEF GrInv, OneOwner
      <4> QED BY <1>5, <1>9, <2>3, <3>1, <4>1 DEF TurnGood
    <3>3. SnapshotGood(grPc[s], grOp[s])'
      <4>1. HasSnapshot(grPc[s]) =>
              grOp[s].conv.rev <= grStored'.rev /\ grOp[s].conv.rev # grStored'.rev
        BY <1>1, <1>2, <1>3, <1>4, <3>1 DEF SnapshotGood, GrConvs
      <4> QED BY <1>5, <2>3, <3>1, <4>1 DEF SnapshotGood
    <3> QED BY <1>5, <2>3, <3>1, <3>2, <3>3
  <2> QED BY <1>5, <2>1, <2>2, <2>3 DEF OpsGood
<1>13. \A s \in Runtimes : grOp'[s].kind = grOp[s].kind /\ grOp'[s].turn = grOp[s].turn
  BY <1>5
<1>14. OneOwner'
  BY <1>13 DEF GrInv, OneOwner
<1>15. Used' = Used
  BY <1>13 DEF Used
<1>16. InOrder' /\ SavedAreUsed'
  <2>1. mine \subseteq Used
    BY <1>7, <1>10 DEF Used, mine
  <2> QED BY <1>9, <1>15, <2>1 DEF GrInv, InOrder, SavedAreUsed
<1>17. TurnsAsReported'
  <2>1. \A t \in mine : grReported[t] = "none"
    BY <1>10, OpFacts DEF TurnGood
  <2> QED BY <1>9, <2>1 DEF GrInv, TurnsAsReported, FinishedTurnsKept, UnfinishedTurnsNotSaved, Saved
<1> QED BY <1>6, <1>11, <1>12, <1>14, <1>16, <1>17 DEF GrInv

LEMMA SaveTurnKeeps ==
  ASSUME GrInv, NEW r \in Runtimes, SaveTurn(r)
  PROVE  GrInv'
<1>1. /\ grPc[r] = "claimed" /\ grOp[r].kind = "turn" /\ grOp[r].event = "none"
      /\ grOp[r].terminal /\ UNCHANGED <<grFloor, grDeleted, grDeletes, grReported>>
  BY OpFacts DEF SaveTurn, OpGood
<1>2. CASE Ends(r, "failed") /\ UNCHANGED grStored
  BY <1>1, <1>2, EndsGoes, GoesKeeps DEF GrEvents, storeVars
<1>3. ASSUME Matches(grOp[r].conv), grStored' = Committed(grOp[r].conv),
             grOp' = [grOp EXCEPT ![r].conv = Committed(grOp[r].conv), ![r].event = "finished"],
             At(r, "compress")
      PROVE  GrInv'
  <2> DEFINE new == Committed(grOp[r].conv)
             op == [grOp[r] EXCEPT !.conv = new, !.event = "finished"]
  <2>1. grOp[r].conv \in GrConvs /\ NextRevision(grOp[r].conv) \in Nat
    BY OpFacts DEF GrConvs, NextRevision, GrInv, GrType
  <2>2. new \in GrConvs
    BY <2>1 DEF Committed, GrConvs
  <2>3. grOp' = [grOp EXCEPT ![r] = op] /\ grPc' = [grPc EXCEPT ![r] = "compress"]
    BY <1>3 DEF At, GrInv, GrType
  <2> HIDE DEF new
  <2>4. /\ op \in GrOps /\ op.kind = grOp[r].kind /\ op.turn = grOp[r].turn
        /\ op.event = "finished" /\ op.terminal = grOp[r].terminal /\ op.conv = new
    BY <2>2, OpFacts DEF GrOps, GrEvents
  <2> HIDE DEF op
  <2>5. OpGood("compress", op)
    BY <1>1, <2>4, OpFacts DEF OpGood
  <2> QED BY <1>1, <1>3, <2>3, <2>4, <2>5, CommitKeeps DEF GrPlaces, new
<1> QED BY <1>2, <1>3 DEF SaveTurn

LEMMA SaveCompactedKeeps ==
  ASSUME GrInv, NEW r \in Runtimes, SaveCompacted(r)
  PROVE  GrInv'
<1>1. /\ grPc[r] = "saveCompacted" /\ Ends(r, grOp[r].event)
      /\ UNCHANGED <<grFloor, grDeleted, grDeletes, grReported>>
  BY DEF SaveCompacted
<1>2. /\ grOp[r].kind = "turn" => grOp[r].event = "finished"
      /\ grOp[r].event \in GrEvents /\ grOp[r].kind # "none"
  BY <1>1, OpFacts DEF OpGood, GrOps
<1>3. CASE UNCHANGED grStored
  BY <1>1, <1>2, <1>3, EndsGoes, GoesKeeps DEF storeVars
<1>4. ASSUME Matches(grOp[r].conv), grStored' = Committed(grOp[r].conv) PROVE GrInv'
  <2> DEFINE op == [grOp[r] EXCEPT !.event = grOp[r].event]
  <2>1. grOp' = [grOp EXCEPT ![r] = op] /\ grPc' = [grPc EXCEPT ![r] = "finish"]
    BY <1>1 DEF Ends, At
  <2>2. op = grOp[r] /\ op \in GrOps
    BY OpFacts DEF GrOps
  <2> HIDE DEF op
  <2>3. OpGood("finish", op) /\ ~HasSnapshot("finish")
    BY <1>1, <1>2, <2>2, OpFacts DEF OpGood, HasSnapshot
  <2> QED BY <1>1, <1>2, <1>4, <2>1, <2>2, <2>3, CommitKeeps DEF GrPlaces
<1> QED BY <1>3, <1>4 DEF SaveCompacted

-----------------------------------------------------------------------------
LEMMA FinishKeeps ==
  ASSUME GrInv, NEW r \in Runtimes, Finish(r)
  PROVE  GrInv'
<1> DEFINE op == grOp[r]
<1>1. /\ grPc[r] = "finish" /\ grOp' = [grOp EXCEPT ![r] = NoOp]
      /\ grPc' = [grPc EXCEPT ![r] = "idle"] /\ UNCHANGED <<grStored, grFloor, grDeleted>>
  BY DEF Finish, At, storeVars
<1>2. /\ NoOp \in GrOps /\ NoOp.event = "none" /\ NoOp.turn = 0 /\ NoOp.kind = "none"
      /\ 0 \notin Turns
  BY GrBounds DEF NoOp, GrOps, GrEvents, GrConvs, Absent, Turns
<1>3. /\ grPc'[r] = "idle" /\ grOp'[r] = NoOp
      /\ \A s \in Runtimes : s # r => grPc'[s] = grPc[s] /\ grOp'[s] = grOp[s]
      /\ grPc' \in [Runtimes -> GrPlaces] /\ grOp' \in [Runtimes -> GrOps]
  BY <1>1, <1>2 DEF GrInv, GrType, GrPlaces
<1>4. /\ op \in GrOps /\ OpGood("finish", op) /\ TurnGood(op)
  BY <1>1, OpFacts
<1>5. CASE op.kind # "turn"
  <2>1. grReported' = grReported /\ op.turn = 0
    BY <1>4, <1>5 DEF Finish, OpGood
  <2>2. Used' = Used
    BY <1>2, <1>3, <2>1 DEF Used
  <2>3. GrType' /\ StoreGood' /\ TurnsAsReported' /\ InOrder' /\ SavedAreUsed'
    BY <1>1, <1>3, <2>1, <2>2 DEF GrInv, GrType, StoreGood, TurnsAsReported, FinishedTurnsKept,
       UnfinishedTurnsNotSaved, InOrder, SavedAreUsed, Saved
  <2>4. OneOwner'
    BY <1>2, <1>3 DEF GrInv, OneOwner
  <2>5. OpsGood'
    BY <1>1, <1>2, <1>3, <2>1 DEF GrInv, OpsGood, OpGood, SnapshotGood, HasSnapshot, TurnGood, Saved
  <2> QED BY <2>3, <2>4, <2>5 DEF GrInv
<1>6. CASE op.kind = "turn"
  <2>1. PICK event \in {TerminalEvent(op), "empty"} :
          grReported' = [grReported EXCEPT ![op.turn] = event]
    BY <1>6 DEF Finish
  <2>2. op.turn \in Turns /\ op.event \in GrEvents /\ op.event # "none"
    BY <1>4, <1>6 DEF OpGood, GrOps
  <2>3. /\ event \in GrEvents /\ event # "none"
        /\ event = "finished" => op.turn \in Saved
        /\ event \in {"canceled", "failed"} => op.turn \notin Saved
    BY <1>4, <1>6, <2>2 DEF TerminalEvent, GrEvents, TurnGood, OpGood
  <2>4. /\ grReported'[op.turn] = event /\ grReported' \in [Turns -> GrEvents]
        /\ \A t \in Turns : t # op.turn => grReported'[t] = grReported[t]
    BY <2>1, <2>2, <2>3 DEF GrInv, GrType
  <2>5. Used' = Used
    <3>1. \A t \in Turns : t # op.turn => ((\E s \in Runtimes : grOp'[s].turn = t)
                                            <=> (\E s \in Runtimes : grOp[s].turn = t))
      BY <1>2, <1>3
    <3> QED BY <2>2, <2>3, <2>4, <3>1 DEF Used
  <2>6. GrType' /\ StoreGood' /\ InOrder' /\ SavedAreUsed'
    BY <1>1, <1>3, <2>4, <2>5 DEF GrInv, GrType, StoreGood, InOrder, SavedAreUsed, Saved
  <2>7. TurnsAsReported'
    BY <1>1, <2>3, <2>4 DEF GrInv, TurnsAsReported, FinishedTurnsKept, UnfinishedTurnsNotSaved, Saved
  <2>8. OneOwner'
    BY <1>2, <1>3 DEF GrInv, OneOwner
  <2>9. OpsGood'
    <3>1. ASSUME NEW s \in Runtimes, s # r
          PROVE  /\ OpGood(grPc[s], grOp[s])' /\ SnapshotGood(grPc[s], grOp[s])'
                 /\ TurnGood(grOp[s])'
      <4>1. OpGood(grPc[s], grOp[s]) /\ SnapshotGood(grPc[s], grOp[s]) /\ TurnGood(grOp[s])
        BY OpFacts
      <4>2. grOp[s].kind = "turn" => grOp[s].turn # op.turn /\ grOp[s].turn \in Turns
        BY <1>6, <3>1, <4>1 DEF GrInv, OneOwner, OpGood
      <4> QED BY <1>1, <1>3, <2>4, <3>1, <4>1, <4>2 DEF SnapshotGood, TurnGood, Saved
    <3>2. OpGood("idle", NoOp) /\ SnapshotGood("idle", NoOp)' /\ TurnGood(NoOp)'
      BY <1>2 DEF OpGood, SnapshotGood, HasSnapshot, TurnGood
    <3> QED BY <1>3, <3>1, <3>2 DEF OpsGood
  <2> QED BY <2>6, <2>7, <2>8, <2>9 DEF GrInv
<1> QED BY <1>5, <1>6

LEMMA MaxOfTwo ==
  ASSUME NEW a \in Nat, NEW b \in Nat
  PROVE  Max({a, b}) \in Nat /\ a <= Max({a, b}) /\ b <= Max({a, b})
<1>1. \E x \in {a, b} : \A y \in {a, b} : x >= y
  OBVIOUS
<1>2. Max({a, b}) \in {a, b} /\ \A y \in {a, b} : Max({a, b}) >= y
  BY <1>1, Zenon DEF Max
<1> QED BY <1>2

LEMMA DeleteKeeps ==
  ASSUME GrInv, Delete
  PROVE  GrInv'
<1>1. /\ grFloor' = Max({grFloor, grStored.rev}) /\ grDeleted' = grDeleted \cup grStored.turns
      /\ grStored' = Absent /\ UNCHANGED <<grPc, grOp, grReported>>
  BY DEF Delete
<1>2. grFloor \in Nat /\ grStored.rev \in Nat /\ grStored.turns \subseteq Turns
  BY DEF GrInv, GrType, GrConvs
<1>3. grFloor' \in Nat /\ grFloor <= grFloor' /\ grStored.rev <= grFloor'
  BY <1>1, <1>2, MaxOfTwo
<1>4. Absent \in GrConvs /\ Absent.rev = 0 /\ Absent.turns = {}
  BY DEF Absent, GrConvs
<1>5. Saved' = Saved /\ Used' = Used
  BY <1>1, <1>4 DEF Saved, Used
<1>6. GrType' /\ StoreGood'
  BY <1>1, <1>2, <1>3, <1>4 DEF GrInv, GrType, StoreGood
<1>7. InOrder' /\ SavedAreUsed' /\ OneOwner'
  BY <1>1, <1>5 DEF GrInv, InOrder, SavedAreUsed, OneOwner
<1>8. TurnsAsReported'
  BY <1>1, <1>4 DEF GrInv, TurnsAsReported, FinishedTurnsKept, UnfinishedTurnsNotSaved
<1>9. OpsGood'
  <2>1. ASSUME NEW s \in Runtimes PROVE SnapshotGood(grPc[s], grOp[s])' /\ TurnGood(grOp[s])'
    <3>1. SnapshotGood(grPc[s], grOp[s]) /\ TurnGood(grOp[s]) /\ grOp[s].conv.rev \in Nat
      BY OpFacts DEF GrConvs
    <3>2. HasSnapshot(grPc[s]) => grOp[s].conv.rev <= grFloor'
      BY <1>2, <1>3, <3>1 DEF SnapshotGood
    <3> QED BY <1>1, <1>4, <1>5, <3>1, <3>2 DEF SnapshotGood, TurnGood
  <2> QED BY <1>1, <2>1 DEF GrInv, OpsGood
<1> QED BY <1>6, <1>7, <1>8, <1>9 DEF GrInv

LEMMA GrStepKeeps == GrInv /\ [GrNext]_grVars => GrInv'
<1> SUFFICES ASSUME GrInv, [GrNext]_grVars PROVE GrInv'
  OBVIOUS
<1>1. CASE UNCHANGED grVars
  <2>1. Saved' = Saved /\ Used' = Used
    BY <1>1 DEF grVars, Saved, Used
  <2>2. GrType' /\ StoreGood' /\ TurnsAsReported' /\ OneOwner'
    BY <1>1 DEF grVars, GrInv, GrType, StoreGood, OneOwner, TurnsAsReported, FinishedTurnsKept,
       UnfinishedTurnsNotSaved
  <2>3. OpsGood'
    BY <1>1, <2>1 DEF grVars, GrInv, OpsGood, SnapshotGood, TurnGood
  <2>4. InOrder' /\ SavedAreUsed'
    BY <2>1 DEF GrInv, InOrder, SavedAreUsed
  <2> QED BY <2>2, <2>3, <2>4 DEF GrInv
<1>2. ASSUME NEW r \in Runtimes,
             \/ ReserveTurn(r) \/ ReserveCompaction(r) \/ Cancel(r) \/ CallerCancels(r)
             \/ PromptStep(r) \/ Orchestrate(r) \/ SinkFails(r) \/ Compress(r)
             \/ CloseRuntime(r) \/ RuntimeClosed(r)
      PROVE  GrInv'
  <2>1. CASE \/ ReserveTurn(r) \/ ReserveCompaction(r) \/ Cancel(r) \/ CallerCancels(r)
             \/ CloseRuntime(r) \/ RuntimeClosed(r)
    BY <2>1, ReserveKeeps, CancelKeeps
  <2>2. CASE Load(r) \/ Orchestrate(r) \/ OrchestrateCancelled(r) \/ SinkFails(r) \/ SaveTurn(r)
    BY <2>2, LoadKeeps, OrchestrateKeeps, SaveTurnKeeps
  <2>3. CASE Compress(r) \/ CompressCancelled(r) \/ SaveCompacted(r) \/ Finish(r)
    BY <2>3, CompressKeeps, SaveCompactedKeeps, FinishKeeps
  <2> QED BY <1>2, <2>1, <2>2, <2>3 DEF PromptStep
<1> QED BY <1>1, <1>2, DeleteKeeps DEF GrNext

LEMMA GrAlways == GrSpec => []GrInv
<1> QED BY GrInitHolds, GrStepKeeps, PTL DEF GrSpec

(* The terminal event a sink saw tells the truth about the stored          *)
(* conversation, for any number of runtimes, turns and deletions.          *)
THEOREM ReportsAreTrue == GrSpec => []TurnsAsReported
<1>1. GrInv => TurnsAsReported
  BY DEF GrInv
<1> QED BY <1>1, GrAlways, PTL

(* No turn of a deleted conversation comes back into the stored one.       *)
THEOREM DeletionIsFinal == GrSpec => []DeletedStaysDeleted
<1>1. GrInv => DeletedStaysDeleted
  BY DEF GrInv, StoreGood, DeletedStaysDeleted
<1> QED BY <1>1, GrAlways, PTL
=============================================================================
