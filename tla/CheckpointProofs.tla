-------------------------- MODULE CheckpointProofs --------------------------
(***************************************************************************)
(* Proofs about CheckpointJournal for any files, contents and bounds: what *)
(* golem wrote stays undoable, the ledger tells the truth, the user's      *)
(* edits are respected, an interrupted undo can be resumed and leaves the  *)
(* files as they were.                                                     *)
(***************************************************************************)
EXTENDS CheckpointJournal, FiniteSetTheorems, WellFoundedInduction, TLAPS

InTurn == {"turn", "planned", "prepared", "checked", "written", "observed", "ending"}
Writing == {"prepared", "checked", "written", "observed"}
Classified == {"drop", "keep"}
Inverting == {"reached", "matched", "inverse", "inverseChecked", "inverted", "inverseSeen"}

Rows == [cp : 0..MaxTurns, path : Paths \cup {Absent}, prior : FileStates,
         after : FileStates, applied : BOOLEAN, restored : BOOLEAN,
         inverse : {"none", "intent", "applied"}]

Stages == {"none", "open", "completed", "undoing"}

(* The types of the workspace and of the running process.                  *)
Process ==
  /\ files \in [Paths -> FileStates]
  /\ ledger \in [Mutations -> {"none", "intent", "applied"}]
  /\ pc \in {"down", "recovering", "idle", "preflight", "undo"}
             \cup InTurn \cup Classified \cup Inverting
  /\ plan \in [path : Paths \cup {Absent}, prior : FileStates, after : FileStates]
  /\ cpID \in 0..MaxTurns /\ cur \in 0..MaxMutations
  /\ edits \in Nat
  /\ lastWriter \in [Paths -> 0..MaxMutations]

(* A row in use is numbered below nextRow and belongs to a checkpoint that *)
(* exists; only an open checkpoint has unapplied rows, only one being      *)
(* undone has restored rows.                                               *)
RowGood(m) ==
  rows[m].cp # 0 =>
    /\ m < nextRow /\ rows[m].path \in Paths
    /\ cps[rows[m].cp] # "none"
    /\ cps[rows[m].cp] # "open" => rows[m].applied
    /\ cps[rows[m].cp] # "undoing" => ~rows[m].restored

(* Checkpoints are numbered in order of creation, only the last one can be *)
(* open, and rows are numbered in the order of their checkpoints.          *)
CheckpointGood(c) ==
  /\ cps[c] # "none" => c < nextCp
  /\ cps[c] = "open" => c = nextCp - 1

Ordered ==
  \A m, n \in Mutations :
    rows[m].cp # 0 /\ rows[n].cp # 0 /\ m < n => rows[m].cp <= rows[n].cp

(* A turn and an undo in progress exclude each other; the row being        *)
(* written is the plan's, unapplied, in an open checkpoint, and so is the  *)
(* intent that recovery has classified.                                    *)
TurnGood ==
  /\ pc \in InTurn => \A c \in Checkpoints : cps[c] # "undoing"
  /\ pc = "planned" =>
       /\ nextRow \in Mutations /\ plan.path \in Paths
       /\ InState("open") = {} => nextCp \in Checkpoints
  /\ pc \in Writing =>
       /\ cur \in Mutations /\ plan.path \in Paths
       /\ rows[cur].cp # 0 /\ cps[rows[cur].cp] = "open" /\ ~rows[cur].applied
       /\ rows[cur].path = plan.path /\ rows[cur].prior = plan.prior
       /\ rows[cur].after = plan.after
  /\ pc \in Classified =>
       cur \in Mutations /\ rows[cur].cp # 0 /\ cps[rows[cur].cp] = "open" /\ ~rows[cur].applied

(* A preflight is made for the checkpoints that are marked, or for         *)
(* completed ones if none is.  The undo at work has all the checkpoints    *)
(* that are marked; the row being restored is the newest pending one.      *)
UndoGood ==
  /\ pc = "preflight" =>
       \/ batch = InState("undoing")
       \/ InState("undoing") = {} /\ batch \subseteq InState("completed")
  /\ pc \in {"undo"} \cup Inverting => batch = InState("undoing")
  /\ pc \in Inverting => /\ batch # {} /\ Pending({Group}) # {}
                         /\ cur = RowToRestore

(* The checkpoint store's tables: what every transaction keeps.            *)
Store ==
  /\ cps \in [Checkpoints -> Stages] /\ rows \in [Mutations -> Rows]
  /\ nextRow \in Nat \ {0} /\ nextCp \in Nat \ {0}
  /\ \A m \in Mutations : RowGood(m)
  /\ \A c \in Checkpoints : CheckpointGood(c)
  /\ Ordered

Structure == Store /\ Process /\ TurnGood /\ UndoGood

-----------------------------------------------------------------------------
(* Whose bytes a file holds, as far as the row still exists.               *)
WriterGood(p) ==
  LET m == lastWriter[p]
  IN  /\ m # 0 => m \in landed
      /\ m # 0 /\ m \notin pruned =>
           /\ rows[m].cp # 0 /\ ~rows[m].restored
           /\ rows[m].path = p /\ files[p] = rows[m].after
           /\ rows[m].prior # rows[m].after

(* No file has bytes that undoing row m would have to restore.             *)
Unneeded(m) == \A p \in Paths : lastWriter[p] = m => m \in pruned

(* What the process has read and done holds on, unless the user has edited *)
(* the file since.                                                         *)
LandedGood ==
  /\ landed \subseteq 1..(nextRow - 1) /\ pruned \subseteq 1..(nextRow - 1)
  /\ pc \in {"prepared", "checked"} => cur \notin landed
  /\ pc \in {"written", "observed"} => cur \in landed
  /\ pc \in Writing => cur \notin pruned
  /\ pc = "checked" =>
       /\ files[plan.path] = plan.prior \/ lastWriter[plan.path] = 0
       /\ plan.path \notin late => files[plan.path] = plan.prior
  /\ pc = "observed" /\ plan.path \notin late => files[plan.path] = plan.after
  /\ pc \in {"drop", "reached", "inverseSeen"} => Unneeded(cur)
  /\ pc = "inverseChecked" /\ rows[cur].path \notin late =>
       files[rows[cur].path] = rows[cur].after

HistoryGood == LandedGood /\ \A p \in Paths : WriterGood(p)

-----------------------------------------------------------------------------
(* Where an interrupted undo left the files: only the newest marked        *)
(* checkpoint has restored rows, and a file of it that the user left alone *)
(* holds what its oldest restored row restored, or what its newest pending *)
(* row is about to record.                                                 *)
RestoredRows(c, p) == {m \in RowsOf(c) : rows[m].restored /\ rows[m].path = p}

LeftAt(c, p) ==
  \/ \E m \in RestoredRows(c, p) :
       /\ \A n \in RestoredRows(c, p) : m <= n
       /\ files[p] = rows[m].prior
  \/ \E m \in Pending({c}) :
       /\ rows[m].path = p /\ \A n \in Pending({c}) : rows[n].path = p => n <= m
       /\ files[p] = rows[m].prior

ExactAt(c, p) ==
  RestoredRows(c, p) # {} =>
    /\ \A d \in InState("undoing") : d <= c
    /\ \A m \in RestoredRows(c, p), n \in Pending({c}) : n < m
    /\ p \notin touched => LeftAt(c, p)

ExactGood == \A c \in InState("undoing"), p \in Paths : ExactAt(c, p)

(* What an undo has read stays true of the files that the user leaves      *)
(* alone: a row about to be recorded as restored finds its file restored,  *)
(* and the rows of a file that the preflight has read pass it.             *)
ReachedGood ==
  pc \in {"reached", "inverseSeen"} /\ rows[cur].path \notin touched =>
    files[rows[cur].path] = rows[cur].prior

SeenGood ==
  IF pc = "preflight"
  THEN InState("undoing") = {} => \A p \in Paths : p \in seen \ touched => PreflightAt(batch, p)
  ELSE seen = {}

ReadsGood == ReachedGood /\ SeenGood
-----------------------------------------------------------------------------
(* A non-empty finite set of integers has a maximum and a minimum: among   *)
(* the sets of its elements above (below) each element, one is minimal for *)
(* inclusion, and it is empty.                                             *)
LEMMA MinimalSubset ==
  ASSUME NEW S, IsFiniteSet(S), NEW T, \A U \in T : U \subseteq S, T # {}
  PROVE  \E U \in T : \A V \in T : ~(V \subseteq U /\ V # U)
<1>1. T \subseteq FiniteSubsetsOf(S)
  BY FS_FiniteSubsetsOfFinite
<1>2. \E U \in T : \A V \in T : ~(<<V, U>> \in StrictSubsetOrdering(S))
  BY <1>1, FS_StrictSubsetOrderingWellFounded, WFMin
<1> QED  BY <1>2 DEF StrictSubsetOrdering

LEMMA HasMaximum ==
  ASSUME NEW S \in SUBSET Int, IsFiniteSet(S), S # {}
  PROVE  Max(S) \in S /\ \A y \in S : Max(S) >= y
<1> DEFINE Above(x) == {y \in S : y > x}
<1>1. PICK x \in S : \A z \in S : ~(Above(z) \subseteq Above(x) /\ Above(z) # Above(x))
  <2> DEFINE T == {Above(x) : x \in S}
  <2>1. (\A U \in T : U \subseteq S) /\ T # {}
    OBVIOUS
  <2> HIDE DEF T
  <2>2. PICK U \in T : \A V \in T : ~(V \subseteq U /\ V # U)
    BY <2>1, MinimalSubset
  <2> HIDE DEF Above
  <2> QED  BY <2>2 DEF T
<1>2. ASSUME NEW y \in S, ~(x >= y) PROVE FALSE
  <2>0. x \in Int /\ y \in Int /\ S \subseteq Int
    OBVIOUS
  <2>1. y > x /\ ~(y > y) /\ \A z \in S : z > y => z > x
    BY <1>2, <2>0
  <2>2. y \in Above(x) /\ y \notin Above(y) /\ Above(y) \subseteq Above(x)
    BY <2>1
  <2> HIDE DEF Above
  <2> QED  BY <1>1, <2>2
<1>3. \E m \in S : \A y \in S : m >= y
  BY <1>2
<1> QED  BY <1>3, Zenon DEF Max

LEMMA HasMinimum ==
  ASSUME NEW S \in SUBSET Int, IsFiniteSet(S), S # {}
  PROVE  Min(S) \in S /\ \A y \in S : Min(S) <= y
<1> DEFINE Below(x) == {y \in S : y < x}
<1>1. PICK x \in S : \A z \in S : ~(Below(z) \subseteq Below(x) /\ Below(z) # Below(x))
  <2> DEFINE T == {Below(x) : x \in S}
  <2>1. (\A U \in T : U \subseteq S) /\ T # {}
    OBVIOUS
  <2> HIDE DEF T
  <2>2. PICK U \in T : \A V \in T : ~(V \subseteq U /\ V # U)
    BY <2>1, MinimalSubset
  <2> HIDE DEF Below
  <2> QED  BY <2>2 DEF T
<1>2. ASSUME NEW y \in S, ~(x <= y) PROVE FALSE
  <2>0. x \in Int /\ y \in Int /\ S \subseteq Int
    OBVIOUS
  <2>1. y < x /\ ~(y < y) /\ \A z \in S : z < y => z < x
    BY <1>2, <2>0
  <2>2. y \in Below(x) /\ y \notin Below(y) /\ Below(y) \subseteq Below(x)
    BY <2>1
  <2> HIDE DEF Below
  <2> QED  BY <1>1, <2>2
<1>3. \E m \in S : \A y \in S : m <= y
  BY <1>2
<1> QED  BY <1>3, Zenon DEF Min

(* The numbers of rows and checkpoints.                                    *)
LEMMA RowExtrema ==
  ASSUME NEW S \in SUBSET Mutations, S # {}
  PROVE  /\ Max(S) \in S /\ \A y \in S : Max(S) >= y
         /\ Min(S) \in S /\ \A y \in S : Min(S) <= y
<1>1. S \in SUBSET Int /\ IsFiniteSet(S)
  <2>1. IsFiniteSet(Mutations)
    BY BoundsAssumption, FS_Interval DEF Mutations
  <2>2. IsFiniteSet(S)
    BY <2>1, FS_Subset
  <2> QED  BY <2>2 DEF Mutations
<1> QED  BY <1>1, HasMaximum, HasMinimum

LEMMA CheckpointMaximum ==
  ASSUME NEW S \in SUBSET Checkpoints, S # {}
  PROVE  Max(S) \in S /\ \A y \in S : Max(S) >= y
<1>1. S \in SUBSET Int /\ IsFiniteSet(S)
  <2>1. IsFiniteSet(Checkpoints)
    BY BoundsAssumption, FS_Interval DEF Checkpoints
  <2>2. IsFiniteSet(S)
    BY <2>1, FS_Subset
  <2> QED  BY <2>2 DEF Checkpoints
<1> QED  BY <1>1, HasMaximum
-----------------------------------------------------------------------------
(* The store: what each kind of transaction does to rows and checkpoints.  *)
LEMMA NoRowIs ==
  /\ NoRow \in Rows /\ NoRow.cp = 0
BY BoundsAssumption DEF NoRow, Rows, FileStates

LEMMA Numbers ==
  /\ Mutations \subseteq Nat \ {0} /\ Checkpoints \subseteq Nat \ {0}
  /\ \A m \in Mutations : m <= MaxMutations
  /\ \A c \in 1..MaxTurns : c \in Checkpoints
  /\ \A c \in 0..MaxTurns : c # 0 => c \in Checkpoints
  /\ MaxMutations \in Nat /\ MaxTurns \in Nat
BY BoundsAssumption DEF Mutations, Checkpoints

LEMMA RowCheckpoint ==
  ASSUME rows \in [Mutations -> Rows], NEW m \in Mutations
  PROVE  rows[m].cp \in 0..MaxTurns /\ (rows[m].cp # 0 => rows[m].cp \in Checkpoints)
<1>1. rows[m] \in Rows
  OBVIOUS
<1>2. rows[m].cp \in 0..MaxTurns
  BY <1>1 DEF Rows
<1> QED  BY <1>2, Numbers

(* The row that an intent adds.                                            *)
NewRow == [NoRow EXCEPT !.cp = OpenCheckpoint, !.path = plan.path,
                        !.prior = plan.prior, !.after = plan.after]

MayPrepare ==
  /\ nextRow \in Mutations /\ plan.path \in Paths
  /\ plan \in [path : Paths \cup {Absent}, prior : FileStates, after : FileStates]
  /\ InState("open") = {} => nextCp \in Checkpoints

LEMMA OpenIs ==
  ASSUME Store, MayPrepare
  PROVE  /\ OpenCheckpoint \in Checkpoints
         /\ InState("open") = {} => OpenCheckpoint = nextCp
         /\ InState("open") # {} => /\ OpenCheckpoint = nextCp - 1
                                    /\ cps[OpenCheckpoint] = "open"
<1>1. CASE InState("open") = {}
  BY <1>1 DEF OpenCheckpoint, MayPrepare
<1>2. CASE InState("open") # {}
  <2>1. (CHOOSE o \in InState("open") : TRUE) \in InState("open")
    BY <1>2
  <2>2. OpenCheckpoint \in InState("open")
    BY <1>2, <2>1 DEF OpenCheckpoint
  <2>3. OpenCheckpoint \in Checkpoints /\ cps[OpenCheckpoint] = "open"
    BY <2>2 DEF InState
  <2> QED  BY <1>2, <2>3 DEF Store, CheckpointGood
<1> QED  BY <1>1, <1>2

LEMMA NewRowIs ==
  ASSUME Store, MayPrepare
  PROVE  /\ NewRow \in Rows
         /\ NewRow.cp = OpenCheckpoint /\ NewRow.path = plan.path
         /\ NewRow.prior = plan.prior /\ NewRow.after = plan.after
         /\ ~NewRow.applied /\ ~NewRow.restored
<1>1. OpenCheckpoint \in 0..MaxTurns
  BY OpenIs, Numbers DEF Checkpoints
<1>2. /\ plan.path \in Paths \cup {Absent}
      /\ plan.prior \in FileStates /\ plan.after \in FileStates
  BY DEF MayPrepare
<1>3. NoRow \in Rows /\ ~NoRow.applied /\ ~NoRow.restored
  <2>1. ~NoRow.applied /\ ~NoRow.restored
    BY Zenon DEF NoRow
  <2> QED  BY <2>1, NoRowIs
<1>4. NewRow \in Rows
  BY <1>1, <1>2, <1>3 DEF NewRow, Rows
<1>5. /\ NewRow.cp = OpenCheckpoint /\ NewRow.path = plan.path
      /\ NewRow.prior = plan.prior /\ NewRow.after = plan.after
      /\ NewRow.applied = NoRow.applied /\ NewRow.restored = NoRow.restored
  BY <1>3 DEF NewRow, Rows
<1> QED  BY <1>3, <1>4, <1>5

LEMMA IntentRows ==
  ASSUME Store, MayPrepare, NEW k, PrepareIntent(k)
  PROVE  /\ rows' \in [Mutations -> Rows] /\ rows'[nextRow] = NewRow
         /\ \A n \in Mutations \ {nextRow} :
              IF rows[n].cp \in Oldest(k) THEN rows'[n] = NoRow
                                          ELSE rows'[n] = rows[n]
         /\ cps' \in [Checkpoints -> Stages]
         /\ cps'[OpenCheckpoint] = "open"
         /\ \A c \in Checkpoints \ {OpenCheckpoint} :
              IF c \in Oldest(k) THEN cps'[c] = "none" ELSE cps'[c] = cps[c]
         /\ \A c \in Oldest(k) : c \in Checkpoints /\ cps[c] = "completed"
         /\ nextRow' = nextRow + 1 /\ nextCp' = OpenCheckpoint + 1
<1>1. rows' = [Without(rows, Oldest(k)) EXCEPT ![nextRow] = NewRow]
  BY DEF PrepareIntent, NewRow
<1>2. \A c \in Oldest(k) : c \in Checkpoints /\ cps[c] = "completed"
  BY DEF Oldest, InState
<1>3. NewRow \in Rows /\ NoRow \in Rows
  BY NewRowIs, NoRowIs
<1>4. /\ rows' \in [Mutations -> Rows] /\ rows'[nextRow] = NewRow
      /\ \A n \in Mutations \ {nextRow} :
           IF rows[n].cp \in Oldest(k) THEN rows'[n] = NoRow
                                       ELSE rows'[n] = rows[n]
  BY <1>1, <1>3 DEF Without, Store, MayPrepare
<1>5. /\ cps' \in [Checkpoints -> Stages]
      /\ cps'[OpenCheckpoint] = "open"
      /\ \A c \in Checkpoints \ {OpenCheckpoint} :
           IF c \in Oldest(k) THEN cps'[c] = "none" ELSE cps'[c] = cps[c]
  BY OpenIs DEF PrepareIntent, Gone, Store, Stages
<1>6. nextRow' = nextRow + 1 /\ nextCp' = OpenCheckpoint + 1
  BY OpenIs DEF PrepareIntent, Store
<1> QED  BY <1>2, <1>4, <1>5, <1>6

LEMMA IntentStore ==
  ASSUME Store, MayPrepare, NEW k, PrepareIntent(k)
  PROVE  Store'
<1> DEFINE o == OpenCheckpoint
<1>0. /\ o \in Checkpoints /\ o \in Nat \ {0} /\ nextCp \in Nat \ {0}
      /\ nextRow \in Mutations /\ nextRow \in Nat \ {0}
      /\ o = nextCp \/ o = nextCp - 1
      /\ nextRow' = nextRow + 1 /\ nextCp' = o + 1
  BY OpenIs, IntentRows, Numbers DEF Store, MayPrepare
<1>1. /\ rows' \in [Mutations -> Rows]
      /\ cps' \in [Checkpoints -> Stages]
      /\ nextRow' \in Nat \ {0} /\ nextCp' \in Nat \ {0}
  BY <1>0, IntentRows
<1>2. ASSUME NEW n \in Mutations, n # nextRow, rows'[n].cp # 0
      PROVE  /\ rows'[n] = rows[n] /\ rows[n].cp \in Checkpoints
             /\ rows[n].cp < nextCp /\ n < nextRow
             /\ cps'[rows[n].cp] = cps[rows[n].cp]
             /\ cps[rows[n].cp] # "none" /\ RowGood(n)
  <2>1. rows'[n] = rows[n] /\ rows[n].cp \notin Oldest(k)
    BY <1>2, IntentRows, NoRowIs
  <2>2. rows[n].cp \in Checkpoints
    BY <1>2, <2>1, RowCheckpoint DEF Store
  <2>3. RowGood(n) /\ CheckpointGood(rows[n].cp)
    BY <2>2 DEF Store
  <2>4. rows[n].cp < nextCp /\ cps[rows[n].cp] # "none" /\ n < nextRow
    BY <1>2, <2>1, <2>3 DEF RowGood, CheckpointGood
  <2>5. cps'[rows[n].cp] = cps[rows[n].cp]
    <3>1. CASE rows[n].cp = o
      <4>1. o # nextCp
        BY <1>0, <2>4, <3>1
      <4>2. cps[o] = "open"
        BY <4>1, OpenIs
      <4> QED  BY <3>1, <4>2, IntentRows
    <3>2. CASE rows[n].cp # o
      BY <2>1, <2>2, <3>2, IntentRows
    <3> QED  BY <3>1, <3>2
  <2> QED  BY <2>1, <2>2, <2>3, <2>4, <2>5
<1>3. ASSUME NEW n \in Mutations PROVE RowGood(n)'
  <2>1. CASE n = nextRow
    <3>1. rows'[n] = NewRow /\ cps'[o] = "open" /\ plan.path \in Paths
      BY <2>1, IntentRows DEF MayPrepare
    <3>2. n < nextRow'
      BY <1>0, <2>1
    <3> QED  BY <3>1, <3>2, NewRowIs DEF RowGood
  <2>2. CASE n # nextRow
    <3>1. rows'[n].cp # 0 => n < nextRow'
      BY <1>0, <1>2, <2>2, Numbers
    <3> QED  BY <1>2, <2>2, <3>1 DEF RowGood
  <2> QED  BY <2>1, <2>2
<1>4. ASSUME NEW c \in Checkpoints PROVE CheckpointGood(c)'
  <2>1. CASE c = o
    BY <1>0, <2>1 DEF CheckpointGood
  <2>2. CASE c # o
    <3>1. cps'[c] # "none" => cps'[c] = cps[c]
      BY <2>2, IntentRows
    <3>2. CheckpointGood(c) /\ c \in Nat
      BY Numbers DEF Store
    <3>3. cps'[c] # "open"
      <4>1. cps[c] = "open" => c = nextCp - 1 /\ InState("open") # {}
        BY <3>2 DEF CheckpointGood, InState
      <4>2. cps[c] # "open"
        BY <2>2, <4>1, OpenIs
      <4> QED  BY <3>1, <4>2
    <3> QED  BY <1>0, <3>1, <3>2, <3>3 DEF CheckpointGood
  <2> QED  BY <2>1, <2>2
<1>5. Ordered'
  <2> SUFFICES ASSUME NEW m \in Mutations, NEW n \in Mutations,
                      rows'[m].cp # 0, rows'[n].cp # 0, m < n
               PROVE  rows'[m].cp <= rows'[n].cp
    BY DEF Ordered
  <2>0. m \in Nat /\ n \in Nat
    BY Numbers
  <2>1. CASE n = nextRow
    <3>1. m # nextRow /\ rows'[n].cp = o
      BY <2>0, <2>1, IntentRows, NewRowIs
    <3>2. rows'[m].cp < nextCp /\ rows'[m].cp \in Checkpoints
      BY <1>2, <3>1
    <3>3. rows'[m].cp \in Nat
      BY <3>2, Numbers
    <3> HIDE DEF o
    <3> QED  BY <1>0, <3>1, <3>2, <3>3
  <2>2. CASE n # nextRow
    <3>1. n < nextRow /\ rows'[n] = rows[n]
      BY <1>2, <2>2
    <3>2. m # nextRow
      BY <1>0, <2>0, <3>1
    <3>3. rows'[m] = rows[m]
      BY <1>2, <3>2
    <3> QED  BY <3>1, <3>3 DEF Store, Ordered
  <2> QED  BY <2>1, <2>2
<1> QED  BY <1>1, <1>3, <1>4, <1>5 DEF Store

LEMMA SameStore ==
  ASSUME Store, UNCHANGED <<cps, rows, nextRow, nextCp>>
  PROVE  Store'
BY DEF Store, RowGood, CheckpointGood, Ordered

(* Any other transaction: it forgets rows or advances them within their    *)
(* checkpoint, and opens no checkpoint.                                    *)
LEMMA StoreStep ==
  ASSUME Store, nextRow' = nextRow, nextCp' = nextCp,
         cps' \in [Checkpoints -> Stages], rows' \in [Mutations -> Rows],
         \A m \in Mutations : rows'[m].cp # 0 =>
           /\ rows'[m].cp = rows[m].cp /\ rows'[m].path = rows[m].path
           /\ cps'[rows'[m].cp] # "none"
           /\ cps'[rows'[m].cp] # "open" => rows'[m].applied
           /\ cps'[rows'[m].cp] # "undoing" => ~rows'[m].restored,
         \A c \in Checkpoints : cps'[c] # "none" =>
           cps[c] # "none" /\ (cps'[c] = "open" => cps[c] = "open")
  PROVE  Store'
<1>1. ASSUME NEW m \in Mutations PROVE RowGood(m)'
  BY DEF Store, RowGood
<1>2. ASSUME NEW c \in Checkpoints PROVE CheckpointGood(c)'
  BY DEF Store, CheckpointGood
<1>3. Ordered'
  BY DEF Store, Ordered
<1> QED  BY <1>1, <1>2, <1>3 DEF Store

LEMMA ChangeRow ==
  ASSUME Store, UNCHANGED <<cps, nextRow, nextCp>>,
         NEW m \in Mutations, NEW q \in Rows, rows' = [rows EXCEPT ![m] = q],
         q.cp # 0 => /\ q.cp = rows[m].cp /\ q.path = rows[m].path
                     /\ rows[m].applied => q.applied
                     /\ cps[q.cp] # "undoing" => ~q.restored
  PROVE  /\ Store' /\ rows'[m] = q
         /\ \A n \in Mutations \ {m} : rows'[n] = rows[n]
<1>1. /\ rows' \in [Mutations -> Rows] /\ rows'[m] = q
      /\ \A n \in Mutations \ {m} : rows'[n] = rows[n]
  BY DEF Store
<1>2. ASSUME NEW n \in Mutations, rows'[n].cp # 0
      PROVE  /\ rows'[n].cp = rows[n].cp /\ rows'[n].path = rows[n].path
             /\ cps'[rows'[n].cp] # "none"
             /\ cps'[rows'[n].cp] # "open" => rows'[n].applied
             /\ cps'[rows'[n].cp] # "undoing" => ~rows'[n].restored
  <2>1. RowGood(n)
    BY DEF Store
  <2>2. CASE n = m
    BY <1>1, <1>2, <2>1, <2>2 DEF RowGood
  <2>3. CASE n # m
    BY <1>1, <1>2, <2>1, <2>3 DEF RowGood
  <2> QED  BY <2>2, <2>3
<1>3. Store'
  BY <1>1, <1>2, StoreStep DEF Store
<1> QED  BY <1>1, <1>3

(* What the assignments to single columns leave of a row.                  *)
SameMutation(q, r) == /\ q.cp = r.cp /\ q.path = r.path
                      /\ q.prior = r.prior /\ q.after = r.after

LEMMA AppliedRow ==
  ASSUME NEW r \in Rows
  PROVE  LET q == [r EXCEPT !.applied = TRUE]
         IN  /\ q \in Rows /\ SameMutation(q, r)
             /\ q.applied /\ q.restored = r.restored
<1> DEFINE yes == TRUE
           q == [r EXCEPT !.applied = yes]
<1>0. yes \in BOOLEAN
  OBVIOUS
<1>1. q.applied = yes
  BY DEF Rows
<1>2. q.applied
  BY <1>1
<1> HIDE DEF yes
<1>3. q \in Rows /\ SameMutation(q, r) /\ q.restored = r.restored
  BY <1>0 DEF Rows, SameMutation
<1> USE DEF yes
<1> QED  BY <1>2, <1>3

LEMMA RestoredRow ==
  ASSUME NEW r \in Rows
  PROVE  LET q == [r EXCEPT !.restored = TRUE]
         IN  /\ q \in Rows /\ SameMutation(q, r)
             /\ q.restored /\ q.applied = r.applied
<1> DEFINE yes == TRUE
           q == [r EXCEPT !.restored = yes]
<1>0. yes \in BOOLEAN
  OBVIOUS
<1>1. q.restored = yes
  BY DEF Rows
<1>2. q.restored
  BY <1>1
<1> HIDE DEF yes
<1>3. q \in Rows /\ SameMutation(q, r) /\ q.applied = r.applied
  BY <1>0 DEF Rows, SameMutation
<1> USE DEF yes
<1> QED  BY <1>2, <1>3

LEMMA InverseRow ==
  ASSUME NEW r \in Rows, NEW i \in {"none", "intent", "applied"}
  PROVE  LET q == [r EXCEPT !.inverse = i]
         IN  /\ q \in Rows /\ SameMutation(q, r)
             /\ q.restored = r.restored /\ q.applied = r.applied
BY DEF Rows, SameMutation

(* One row advances.                                                       *)
Advances(m, q) ==
  /\ q \in Rows /\ SameMutation(q, rows[m]) /\ rows' = [rows EXCEPT ![m] = q]
  /\ rows[m].applied => q.applied
  /\ UNCHANGED <<cps, nextRow, nextCp>>

LEMMA AdvanceStore ==
  ASSUME Store, NEW m \in Mutations, NEW q, Advances(m, q),
         \/ q.restored = rows[m].restored
         \/ rows[m].cp # 0 /\ cps[rows[m].cp] = "undoing"
  PROVE  /\ Store' /\ rows'[m] = q
         /\ \A n \in Mutations \ {m} : rows'[n] = rows[n]
<1>1. RowGood(m)
  BY DEF Store
<1>2. q.cp # 0 => /\ q.cp = rows[m].cp /\ q.path = rows[m].path
                  /\ rows[m].applied => q.applied
                  /\ cps[q.cp] # "undoing" => ~q.restored
  BY <1>1 DEF Advances, SameMutation, RowGood
<1> QED  BY <1>2, ChangeRow DEF Advances

LEMMA DropStore ==
  ASSUME Store, NEW m \in Mutations, rows' = [rows EXCEPT ![m] = NoRow],
         UNCHANGED <<cps, nextRow, nextCp>>
  PROVE  /\ Store' /\ rows'[m] = NoRow
         /\ \A n \in Mutations \ {m} : rows'[n] = rows[n]
BY NoRowIs, ChangeRow

(* Checkpoints C go with their rows.                                       *)
LEMMA WithoutRows ==
  ASSUME rows \in [Mutations -> Rows], NEW C
  PROVE  /\ Without(rows, C) \in [Mutations -> Rows]
         /\ \A m \in Mutations :
              Without(rows, C)[m] = IF rows[m].cp \in C THEN NoRow ELSE rows[m]
BY NoRowIs DEF Without

LEMMA SealStore ==
  ASSUME Store, NEW c \in Checkpoints, cps[c] # "undoing", Seal(c),
         nextRow' = nextRow, nextCp' = nextCp
  PROVE  /\ Store'
         /\ \A d \in Checkpoints : cps'[d] = "undoing" <=> cps[d] = "undoing"
         /\ \E C \in SUBSET Checkpoints :
              /\ \A d \in C : cps[d] # "undoing"
              /\ pruned' = pruned \cup {m \in Mutations : rows[m].cp \in C}
              /\ \A m \in Mutations :
                   rows'[m] = IF rows[m].cp \in C THEN NoRow ELSE rows[m]
<1> DEFINE ended == IF RowsOf(c) = {} THEN "none" ELSE "completed"
           done == [cps EXCEPT ![c] = ended]
           C == IF RowsOf(c) = {} THEN {} ELSE Excess(done)
<1>1. /\ cps' = Gone(done, C) /\ rows' = Without(rows, C)
      /\ pruned' = pruned \cup {m \in Mutations : rows[m].cp \in C}
      /\ Sealable(c)
  BY DEF Seal
<1>2. /\ done \in [Checkpoints -> Stages] /\ done[c] = ended
      /\ \A d \in Checkpoints \ {c} : done[d] = cps[d]
      /\ ended \in {"none", "completed"}
  BY DEF Store, Stages
<1>3. C \in SUBSET Checkpoints /\ \A d \in C : done[d] = "completed"
  BY DEF Excess
<1> HIDE DEF done, C
<1>4. /\ cps' \in [Checkpoints -> Stages]
      /\ \A d \in Checkpoints : cps'[d] = IF d \in C THEN "none" ELSE done[d]
  BY <1>1, <1>2 DEF Gone, Stages
<1>5. /\ rows' \in [Mutations -> Rows]
      /\ \A m \in Mutations : rows'[m] = IF rows[m].cp \in C THEN NoRow ELSE rows[m]
  BY <1>1, WithoutRows DEF Store
<1>6. \A d \in C : cps[d] # "undoing"
  BY <1>2, <1>3
<1>7. \A d \in Checkpoints : cps'[d] = "undoing" <=> cps[d] = "undoing"
  BY <1>2, <1>4, <1>6
<1>8. ASSUME NEW m \in Mutations, rows'[m].cp # 0
      PROVE  /\ rows'[m] = rows[m]
             /\ cps'[rows'[m].cp] # "none"
             /\ cps'[rows'[m].cp] # "open" => rows'[m].applied
             /\ cps'[rows'[m].cp] # "undoing" => ~rows'[m].restored
  <2>1. rows'[m] = rows[m] /\ rows[m].cp \notin C
    BY <1>5, <1>8, NoRowIs
  <2>2. rows[m].cp \in Checkpoints /\ RowGood(m)
    BY <1>8, <2>1, RowCheckpoint DEF Store
  <2>3. CASE rows[m].cp = c
    <3>1. m \in RowsOf(c)
      BY <2>3 DEF RowsOf
    <3>2. rows[m].applied
      BY <1>1, <3>1 DEF Sealable, Unapplied
    <3>3. cps'[c] = "completed"
      BY <1>2, <1>4, <2>1, <2>3, <3>1
    <3> QED  BY <1>8, <2>1, <2>2, <2>3, <3>2, <3>3 DEF RowGood
  <2>4. CASE rows[m].cp # c
    <3>1. cps'[rows[m].cp] = cps[rows[m].cp]
      BY <1>2, <1>4, <2>1, <2>2, <2>4
    <3> QED  BY <1>8, <2>1, <2>2, <3>1 DEF RowGood
  <2> QED  BY <2>3, <2>4
<1>9. ASSUME NEW d \in Checkpoints, cps'[d] # "none"
      PROVE  cps[d] # "none" /\ (cps'[d] = "open" => cps[d] = "open")
  <2>1. cps'[d] = done[d]
    BY <1>4, <1>9
  <2>2. CASE d = c
    <3>1. ended = "completed" /\ RowsOf(c) # {}
      BY <1>2, <1>9, <2>1, <2>2
    <3>2. PICK m \in Mutations : rows[m].cp = c
      BY <3>1 DEF RowsOf
    <3>3. c # 0 /\ RowGood(m)
      BY Numbers DEF Store
    <3> QED  BY <1>2, <2>1, <2>2, <3>1, <3>2, <3>3 DEF RowGood
  <2>3. CASE d # c
    BY <1>2, <1>9, <2>1, <2>3
  <2> QED  BY <2>2, <2>3
<1>10. Store'
  BY <1>4, <1>5, <1>8, <1>9, StoreStep
<1> QED  BY <1>1, <1>3, <1>5, <1>6, <1>7, <1>10

LEMMA MarkStore ==
  ASSUME Store, NEW C \in SUBSET Checkpoints,
         \A c \in C : cps[c] \in {"completed", "undoing"},
         cps' = [c \in Checkpoints |-> IF c \in C THEN "undoing" ELSE cps[c]],
         UNCHANGED <<rows, nextRow, nextCp>>
  PROVE  Store'
<1>1. /\ cps' \in [Checkpoints -> Stages] /\ rows' \in [Mutations -> Rows]
      /\ \A c \in Checkpoints : cps'[c] = IF c \in C THEN "undoing" ELSE cps[c]
  BY DEF Store, Stages
<1>2. ASSUME NEW m \in Mutations, rows'[m].cp # 0
      PROVE  /\ rows'[m].cp = rows[m].cp /\ rows'[m].path = rows[m].path
             /\ cps'[rows'[m].cp] # "none"
             /\ cps'[rows'[m].cp] # "open" => rows'[m].applied
             /\ cps'[rows'[m].cp] # "undoing" => ~rows'[m].restored
  <2>1. rows[m].cp \in Checkpoints /\ RowGood(m)
    BY <1>2, RowCheckpoint DEF Store
  <2> QED  BY <1>1, <1>2, <2>1 DEF RowGood
<1>3. \A c \in Checkpoints : cps'[c] # "none" =>
        cps[c] # "none" /\ (cps'[c] = "open" => cps[c] = "open")
  BY <1>1
<1> QED  BY <1>1, <1>2, <1>3, StoreStep

LEMMA DeleteStore ==
  ASSUME Store, NEW g, cps' = Gone(cps, {g}), rows' = Without(rows, {g}),
         UNCHANGED <<nextRow, nextCp>>
  PROVE  /\ Store'
         /\ \A c \in Checkpoints : cps'[c] = IF c = g THEN "none" ELSE cps[c]
         /\ \A m \in Mutations : rows'[m] = IF rows[m].cp = g THEN NoRow ELSE rows[m]
<1>1. /\ cps' \in [Checkpoints -> Stages]
      /\ \A c \in Checkpoints : cps'[c] = IF c = g THEN "none" ELSE cps[c]
  BY DEF Gone, Store, Stages
<1>2. /\ rows' \in [Mutations -> Rows]
      /\ \A m \in Mutations : rows'[m] = IF rows[m].cp = g THEN NoRow ELSE rows[m]
  BY WithoutRows DEF Store
<1>3. ASSUME NEW m \in Mutations, rows'[m].cp # 0
      PROVE  /\ rows'[m].cp = rows[m].cp /\ rows'[m].path = rows[m].path
             /\ cps'[rows'[m].cp] # "none"
             /\ cps'[rows'[m].cp] # "open" => rows'[m].applied
             /\ cps'[rows'[m].cp] # "undoing" => ~rows'[m].restored
  <2>1. rows'[m] = rows[m] /\ rows[m].cp # g
    BY <1>2, <1>3, NoRowIs
  <2>2. rows[m].cp \in Checkpoints /\ RowGood(m)
    BY <1>3, <2>1, RowCheckpoint DEF Store
  <2> QED  BY <1>1, <1>3, <2>1, <2>2 DEF RowGood
<1>4. \A c \in Checkpoints : cps'[c] # "none" =>
        cps[c] # "none" /\ (cps'[c] = "open" => cps[c] = "open")
  BY <1>1
<1>5. Store'
  BY <1>1, <1>2, <1>3, <1>4, StoreStep
<1> QED  BY <1>1, <1>2, <1>5
-----------------------------------------------------------------------------
(* The undo at work restores the newest pending row of all checkpoints     *)
(* that are marked.                                                        *)
LEMMA NewestPending ==
  ASSUME Store, batch = InState("undoing"), batch # {}, Pending({Group}) # {},
         NEW m, m = RowToRestore
  PROVE  /\ Group \in Checkpoints /\ cps[Group] = "undoing"
         /\ \A c \in batch : c <= Group
         /\ m \in Mutations /\ m # 0 /\ m \in Pending({Group})
         /\ rows[m].cp = Group /\ rows[m].cp # 0 /\ rows[m].path \in Paths
         /\ rows[m].applied /\ ~rows[m].restored
         /\ \A n \in Pending(batch) : n <= m
<1>1. Group \in batch /\ batch \subseteq Checkpoints /\ \A c \in batch : Group >= c
  <2>1. batch \in SUBSET Checkpoints
    BY DEF InState
  <2> QED  BY <2>1, CheckpointMaximum DEF Group
<1>2. /\ Group \in Checkpoints /\ cps[Group] = "undoing" /\ Group # 0
      /\ \A c \in batch : c <= Group
  BY <1>1, Numbers DEF InState
<1>3. /\ m \in Pending({Group})
      /\ \A n \in Pending({Group}) : m >= n
  <2>1. Pending({Group}) \in SUBSET Mutations
    BY DEF Pending
  <2> QED  BY <2>1, RowExtrema DEF RowToRestore
<1>4. /\ m \in Mutations /\ rows[m].cp = Group
      /\ rows[m].applied /\ ~rows[m].restored
  BY <1>3 DEF Pending
<1>5. RowGood(m)
  BY <1>4 DEF Store
<1>6. rows[m].path \in Paths /\ m # 0
  BY <1>2, <1>4, <1>5, Numbers DEF RowGood
<1>7. ASSUME NEW n \in Pending(batch) PROVE n <= m
  <2>1. n \in Mutations /\ rows[n].cp \in batch /\ rows[n].applied /\ ~rows[n].restored
    BY DEF Pending
  <2>2. rows[n].cp \in Checkpoints /\ rows[n].cp # 0 /\ rows[n].cp <= Group
    BY <1>1, <1>2, <2>1, Numbers
  <2>3. CASE rows[n].cp = Group
    <3>1. n \in Pending({Group})
      BY <2>1, <2>3 DEF Pending
    <3> QED  BY <1>3, <1>4, <2>1, <3>1, Numbers
  <2>4. CASE rows[n].cp # Group
    <3>1. m < n => rows[m].cp <= rows[n].cp
      BY <1>2, <1>4, <2>1, <2>2 DEF Store, Ordered
    <3>2. rows[n].cp \in Nat /\ Group \in Nat /\ m \in Nat /\ n \in Nat
      BY <1>2, <1>4, <2>1, <2>2, Numbers
    <3> HIDE DEF Group
    <3> QED  BY <1>4, <2>2, <2>4, <3>1, <3>2
  <2> QED  BY <2>3, <2>4
<1> QED  BY <1>2, <1>3, <1>4, <1>6, <1>7

(* Steps of the process outside an undo, outside a turn, within a turn     *)
(* between two writes.                                                     *)
LEMMA OutsideUndo ==
  ASSUME pc' \notin {"preflight", "undo"} \cup Inverting
  PROVE  UndoGood'
BY DEF UndoGood

LEMMA OutsideTurn ==
  ASSUME pc' \notin InTurn \cup Classified
  PROVE  TurnGood'
BY DEF TurnGood, InTurn, Writing

LEMMA BetweenWrites ==
  ASSUME TurnGood, pc \in InTurn, pc' \in {"turn", "ending"},
         \A c \in Checkpoints : cps'[c] = "undoing" => cps[c] = "undoing"
  PROVE  TurnGood' /\ UndoGood'
BY DEF TurnGood, UndoGood, InTurn, Writing, Classified, Inverting

LEMMA SameTurn ==
  ASSUME TurnGood, pc' = pc, UNCHANGED <<cps, rows, nextRow, nextCp, plan, cur>>
  PROVE  TurnGood'
BY DEF TurnGood, InState

LEMMA SameUndo ==
  ASSUME UndoGood, pc' \in Inverting => pc \in Inverting,
         pc' = "undo" => pc \in {"undo"} \cup Inverting,
         pc' = "preflight" => pc = "preflight",
         UNCHANGED <<cps, rows, batch, cur>>
  PROVE  UndoGood'
BY DEF UndoGood, InState, Pending, Group, RowToRestore

LEMMA NoPlanIs == NoPlan \in [path : Paths \cup {Absent}, prior : FileStates, after : FileStates]
BY DEF NoPlan, FileStates
-----------------------------------------------------------------------------
(* The structure is kept, action by action.                                *)
LEMMA TurnSteps ==
  ASSUME Structure,
         \/ BeginTurn \/ (\E p \in Paths, c \in Contents : Plan(p, c))
         \/ PrepareOverQuota \/ WriteCheck \/ WriteInstall \/ ObserveWrite
  PROVE  Structure'
<1>0. Store /\ Process /\ TurnGood /\ UndoGood
  BY DEF Structure
<1>1. CASE BeginTurn
  <2>1. Store'
    BY <1>0, <1>1, SameStore DEF BeginTurn, durable, bounds
  <2>2. Process'
    BY <1>0, <1>1, BoundsAssumption
       DEF BeginTurn, Process, InTurn, durable, bounds, history
  <2>3. TurnGood' /\ UndoGood'
    BY <1>1 DEF BeginTurn, durable, InState, TurnGood, UndoGood, InTurn, Writing, Classified,
                Inverting
  <2> QED  BY <2>1, <2>2, <2>3 DEF Structure
<1>2. ASSUME NEW p \in Paths, NEW c \in Contents, Plan(p, c) PROVE Structure'
  <2>1. Store'
    BY <1>0, <1>2, SameStore DEF Plan, durable, bounds
  <2>2. /\ plan' \in [path : Paths \cup {Absent}, prior : FileStates, after : FileStates]
        /\ plan'.path = p
    BY <1>0, <1>2 DEF Plan, Process, FileStates
  <2>3. Process'
    BY <1>0, <1>2, <2>2 DEF Plan, Process, InTurn, durable, bounds, history
  <2>4. nextRow \in Mutations
    BY <1>0, <1>2, BoundsAssumption DEF Plan, Store, Mutations
  <2>5. InState("open") = {} => nextCp \in Checkpoints
    BY <1>0, <1>2, BoundsAssumption DEF Plan, Store, Checkpoints
  <2>6. InState("open")' = InState("open") /\ nextRow' = nextRow /\ nextCp' = nextCp
        /\ cps' = cps /\ pc' = "planned" /\ pc = "turn"
    BY <1>2 DEF Plan, durable, bounds, InState
  <2>7. TurnGood'
    BY <1>0, <2>2, <2>4, <2>5, <2>6 DEF TurnGood, InTurn, Writing, Classified
  <2>8. UndoGood'
    BY <2>6, OutsideUndo DEF Inverting
  <2> QED  BY <2>1, <2>3, <2>7, <2>8 DEF Structure
<1>3. CASE PrepareOverQuota
  <2>1. Store'
    BY <1>0, <1>3, SameStore DEF PrepareOverQuota, durable, bounds
  <2>2. Process'
    BY <1>0, <1>3, NoPlanIs
       DEF PrepareOverQuota, Process, InTurn, durable, bounds, history
  <2>3. TurnGood' /\ UndoGood'
    BY <1>0, <1>3, BetweenWrites DEF PrepareOverQuota, durable, InTurn
  <2> QED  BY <2>1, <2>2, <2>3 DEF Structure
<1>4. CASE WriteCheck \/ ObserveWrite
  <2>1. Store'
    BY <1>0, <1>4, SameStore DEF WriteCheck, ObserveWrite, durable, bounds
  <2>2. Process'
    BY <1>0, <1>4 DEF WriteCheck, ObserveWrite, Process, InTurn, durable, bounds
  <2>3. TurnGood'
    BY <1>0, <1>4 DEF WriteCheck, ObserveWrite, durable, TurnGood, InTurn, Writing, Classified
  <2>4. UndoGood'
    BY <1>4, OutsideUndo DEF WriteCheck, ObserveWrite, Inverting
  <2> QED  BY <2>1, <2>2, <2>3, <2>4 DEF Structure
<1>5. CASE WriteInstall
  <2>1. Store'
    BY <1>0, <1>5, SameStore DEF WriteInstall, bounds
  <2>2. /\ plan.path \in Paths /\ plan.after \in FileStates /\ cur \in 0..MaxMutations
        /\ files \in [Paths -> FileStates] /\ lastWriter \in [Paths -> 0..MaxMutations]
    BY <1>0, <1>5 DEF WriteInstall, TurnGood, Process, Writing
  <2>3. files' \in [Paths -> FileStates] /\ lastWriter' \in [Paths -> 0..MaxMutations]
    BY <1>5, <2>2 DEF WriteInstall
  <2>4. Process'
    BY <1>0, <1>5, <2>3 DEF WriteInstall, Process, InTurn, bounds
  <2>5. TurnGood'
    BY <1>0, <1>5 DEF WriteInstall, TurnGood, InTurn, Writing, Classified
  <2>6. UndoGood'
    BY <1>5, OutsideUndo DEF WriteInstall, Inverting
  <2> QED  BY <2>1, <2>4, <2>5, <2>6 DEF Structure
<1> QED  BY <1>1, <1>2, <1>3, <1>4, <1>5

LEMMA PrepareSteps ==
  ASSUME Structure, Prepare \/ PrepareFails
  PROVE  Structure'
<1>0. Store /\ Process /\ TurnGood /\ UndoGood
  BY DEF Structure
<1>1. pc = "planned" /\ MayPrepare
  BY <1>0 DEF Prepare, PrepareFails, TurnGood, Process, MayPrepare
<1>2. \A c \in Checkpoints : cps[c] # "undoing"
  BY <1>0, <1>1 DEF TurnGood, InTurn
<1>3. ASSUME NEW k, PrepareIntent(k)
      PROVE  /\ Store' /\ \A c \in Checkpoints : cps'[c] # "undoing"
             /\ ledger' \in [Mutations -> {"none", "intent", "applied"}]
  <2>1. Store'
    BY <1>0, <1>1, <1>3, IntentStore
  <2>2. \A c \in Checkpoints : cps'[c] # "undoing"
    BY <1>0, <1>1, <1>2, <1>3, IntentRows
  <2>3. ledger' = [ledger EXCEPT ![nextRow] = "intent"]
    BY <1>3 DEF PrepareIntent
  <2> QED  BY <1>0, <2>1, <2>2, <2>3 DEF Process
<1>4. CASE Prepare
  <2>1. PICK k : PrepareIntent(k)
    BY <1>4 DEF Prepare
  <2>2. /\ pc' = "prepared" /\ cur' = nextRow /\ cpID' = OpenCheckpoint /\ plan' = plan
        /\ UNCHANGED <<files, edits, lastWriter>>
    BY <1>4 DEF Prepare
  <2>3. cur' \in 0..MaxMutations /\ cpID' \in 0..MaxTurns
    BY <1>0, <1>1, <2>2, OpenIs, BoundsAssumption DEF MayPrepare, Mutations, Checkpoints
  <2>4. Process'
    BY <1>0, <1>3, <2>1, <2>2, <2>3 DEF Process, InTurn
  <2>5. /\ rows'[nextRow] = NewRow /\ cps'[OpenCheckpoint] = "open"
        /\ OpenCheckpoint \in Checkpoints /\ OpenCheckpoint # 0
        /\ nextRow \in Mutations /\ plan.path \in Paths
    BY <1>0, <1>1, <2>1, IntentRows, OpenIs, Numbers DEF MayPrepare
  <2>6. TurnGood'
    BY <1>0, <1>1, <1>3, <2>1, <2>2, <2>5, NewRowIs DEF TurnGood, InTurn, Writing, Classified
  <2>7. UndoGood'
    BY <2>2, OutsideUndo DEF Inverting
  <2> QED  BY <1>3, <2>1, <2>4, <2>6, <2>7 DEF Structure
<1>5. CASE PrepareFails
  <2>1. /\ pc' = "ending" /\ plan' = NoPlan
        /\ UNCHANGED <<files, cpID, cur, edits, lastWriter>>
    BY <1>5 DEF PrepareFails
  <2>2. /\ Store' /\ \A c \in Checkpoints : cps'[c] # "undoing"
        /\ ledger' \in [Mutations -> {"none", "intent", "applied"}]
    <3>1. CASE UNCHANGED <<cps, rows, ledger, pruned, nextCp, nextRow>>
      BY <1>0, <1>2, <3>1, SameStore DEF Process
    <3>2. CASE \E k \in Admissions(plan.prior) : PrepareIntent(k)
      BY <1>3, <3>2
    <3> QED  BY <1>5, <3>1, <3>2 DEF PrepareFails
  <2>3. Process'
    BY <1>0, <2>1, <2>2, NoPlanIs DEF Process, InTurn
  <2>4. TurnGood' /\ UndoGood'
    BY <1>0, <1>1, <2>1, <2>2, BetweenWrites DEF InTurn
  <2> QED  BY <2>2, <2>3, <2>4 DEF Structure
<1> QED  BY <1>4, <1>5

(* A commit: the row whose write was observed becomes applied.             *)
LEMMA CommitRow ==
  ASSUME Structure, pc = "observed", CommitIntent, UNCHANGED <<cps, nextRow, nextCp>>
  PROVE  /\ Store' /\ cur \in Mutations
         /\ SameMutation(rows'[cur], rows[cur]) /\ rows'[cur].restored = rows[cur].restored
         /\ \A n \in Mutations \ {cur} : rows'[n] = rows[n]
         /\ ledger' = [ledger EXCEPT ![cur] = "applied"]
         /\ rows[cur].cp # 0 /\ cps[rows[cur].cp] = "open"
<1> DEFINE q == [rows[cur] EXCEPT !.applied = TRUE]
<1>1. cur \in Mutations /\ Store /\ rows[cur].cp # 0 /\ cps[rows[cur].cp] = "open"
  BY DEF Structure, TurnGood, Writing
<1>2. q \in Rows /\ SameMutation(q, rows[cur]) /\ q.applied /\ q.restored = rows[cur].restored
  BY <1>1, AppliedRow DEF Store
<1>3. rows' = [rows EXCEPT ![cur] = q]
  BY DEF CommitIntent
<1> HIDE DEF q
<1>4. Advances(cur, q)
  BY <1>2, <1>3 DEF Advances
<1> QED  BY <1>1, <1>2, <1>4, AdvanceStore DEF CommitIntent

LEMMA WriteEndSteps ==
  ASSUME Structure, WriteFails \/ Commit \/ CommitFails
  PROVE  Structure'
<1>0. Store /\ Process /\ TurnGood /\ UndoGood
  BY DEF Structure
<1>1. /\ pc' \in {"turn", "ending"} /\ pc \in Writing /\ cur' = 0 /\ plan' = NoPlan
      /\ UNCHANGED <<files, cps, cpID, edits, lastWriter, nextRow, nextCp>>
  BY DEF WriteFails, Commit, CommitFails, Writing, bounds, history
<1>2. cur \in Mutations
  BY <1>0, <1>1 DEF TurnGood
<1>3. Store' /\ ledger' \in [Mutations -> {"none", "intent", "applied"}]
  <2>1. CASE UNCHANGED <<rows, ledger>>
    BY <1>0, <1>1, <2>1, SameStore DEF Process
  <2>2. CASE rows' = [rows EXCEPT ![cur] = NoRow] /\ ledger' = [ledger EXCEPT ![cur] = "none"]
    BY <1>0, <1>1, <1>2, <2>2, DropStore DEF Process
  <2>3. CASE pc = "observed" /\ CommitIntent
    BY <1>0, <1>1, <2>3, CommitRow DEF Process
  <2> QED  BY <2>1, <2>2, <2>3 DEF WriteFails, AbortIntent, Commit, CommitFails
<1>4. Process'
  BY <1>0, <1>1, <1>3, NoPlanIs, BoundsAssumption DEF Process, InTurn
<1>5. TurnGood' /\ UndoGood'
  BY <1>0, <1>1, BetweenWrites DEF InTurn, Writing
<1> QED  BY <1>3, <1>4, <1>5 DEF Structure

LEMMA SealSteps ==
  ASSUME Structure, SealTurn
  PROVE  Structure'
<1>0. Store /\ Process /\ TurnGood /\ UndoGood
  BY DEF Structure
<1>1. /\ pc' = "idle" /\ pc \in InTurn /\ cpID' \in {0, cpID}
      /\ UNCHANGED <<files, ledger, plan, cur, edits, lastWriter, nextRow, nextCp>>
  BY DEF SealTurn, bounds, InTurn
<1>2. Store'
  <2>1. CASE UNCHANGED <<cps, rows>>
    BY <1>0, <1>1, <2>1, SameStore
  <2>2. CASE cpID # 0 /\ Seal(cpID)
    <3>1. cpID \in Checkpoints /\ cps[cpID] # "undoing"
      BY <1>0, <1>1, <2>2, Numbers DEF Process, TurnGood
    <3> QED  BY <1>0, <1>1, <2>2, <3>1, SealStore
  <2> QED  BY <2>1, <2>2 DEF SealTurn
<1>3. Process'
  BY <1>0, <1>1, BoundsAssumption DEF Process
<1>4. TurnGood' /\ UndoGood'
  BY <1>1, OutsideTurn, OutsideUndo DEF InTurn, Classified, Inverting
<1> QED  BY <1>2, <1>3, <1>4 DEF Structure

(* What recovery finds and what it leaves of a row.                        *)
LEMMA RecoveredRow ==
  ASSUME Structure, RecoverRow
  PROVE  /\ cur \in Mutations /\ rows[cur].cp # 0 /\ cps[rows[cur].cp] = "open"
         /\ \A n \in Mutations \ {cur} : rows'[n] = rows[n]
         /\ \/ pc = "drop" /\ rows'[cur] = NoRow
            \/ SameMutation(rows'[cur], rows[cur]) /\ rows'[cur].restored = rows[cur].restored
         /\ Store'
<1> DEFINE q == [rows[cur] EXCEPT !.applied = TRUE]
<1>1. /\ cur \in Mutations /\ rows[cur].cp # 0 /\ cps[rows[cur].cp] = "open"
      /\ Store /\ UNCHANGED <<cps, nextRow, nextCp>>
  BY DEF RecoverRow, Structure, TurnGood, Classified, bounds
<1>2. q \in Rows /\ SameMutation(q, rows[cur]) /\ q.applied /\ q.restored = rows[cur].restored
  BY <1>1, AppliedRow DEF Store
<1>3. CASE pc = "drop" /\ rows' = [rows EXCEPT ![cur] = NoRow]
  BY <1>1, <1>3, DropStore
<1>4. CASE rows' = [rows EXCEPT ![cur].applied = TRUE]
  <2>1. rows' = [rows EXCEPT ![cur] = q]
    BY <1>4
  <2> HIDE DEF q
  <2>2. Advances(cur, q)
    BY <1>1, <1>2, <2>1 DEF Advances
  <2> QED  BY <1>1, <1>2, <2>2, AdvanceStore
<1> QED  BY <1>3, <1>4 DEF RecoverRow

(* The row that recovery reads next.                                       *)
LEMMA ReadRow ==
  ASSUME Structure, RecoverRead
  PROVE  /\ cur' \in Mutations /\ rows[cur'].cp # 0 /\ cps[rows[cur'].cp] = "open"
         /\ ~rows[cur'].applied
         /\ pc' \in Classified /\ (pc' = "drop" => NotLanded(cur'))
<1> DEFINE m == Max(Unresolved)
<1>1. m \in Unresolved
  <2>1. Unresolved \in SUBSET Mutations /\ Unresolved # {}
    BY DEF RecoverRead, Unresolved, Unapplied, RowsOf
  <2> QED  BY <2>1, RowExtrema
<1>2. /\ m \in Mutations /\ rows[m].cp \in Checkpoints /\ rows[m].cp # 0
      /\ cps[rows[m].cp] = "open" /\ ~rows[m].applied
  BY <1>1, Numbers DEF Unresolved, Unapplied, RowsOf, InState
<1>3. cur' = m /\ pc' \in Classified /\ (pc' = "drop" => NotLanded(m))
  BY DEF RecoverRead, Classified
<1> QED  BY <1>2, <1>3

LEMMA LifeSteps ==
  ASSUME Structure, Crash \/ Start \/ RecoverRow \/ RecoverSeal \/ RecoverFails \/ Recovered
  PROVE  Structure'
<1>0. Store /\ Process /\ TurnGood /\ UndoGood
  BY DEF Structure
<1>1. /\ pc' \in {"down", "recovering", "idle"}
      /\ cur' \in {0, cur} /\ cpID' \in {0, cpID} /\ plan' \in {NoPlan, plan}
      /\ UNCHANGED <<files, ledger, edits, lastWriter, nextRow, nextCp>>
  BY DEF Crash, Start, RecoverRow, RecoverSeal, RecoverFails, Recovered, durable, bounds, history
<1>2. Store'
  <2>1. CASE Crash \/ Start \/ RecoverFails \/ Recovered
    BY <1>0, <1>1, <2>1, SameStore DEF Crash, Start, RecoverFails, Recovered, durable
  <2>2. CASE RecoverRow
    BY <2>2, RecoveredRow
  <2>3. CASE RecoverSeal
    <3>1. PICK c \in Checkpoints : cps[c] = "open" /\ Seal(c)
      BY <2>3 DEF RecoverSeal, InState
    <3> QED  BY <1>0, <1>1, <3>1, SealStore
  <2> QED  BY <2>1, <2>2, <2>3
<1>3. Process'
  BY <1>0, <1>1, NoPlanIs, BoundsAssumption DEF Process
<1>4. TurnGood' /\ UndoGood'
  BY <1>1, OutsideTurn, OutsideUndo DEF InTurn, Classified, Inverting
<1> QED  BY <1>2, <1>3, <1>4 DEF Structure

LEMMA ReadStep ==
  ASSUME Structure, RecoverRead
  PROVE  Structure'
<1>0. Store /\ Process /\ TurnGood /\ UndoGood
  BY DEF Structure
<1>1. /\ pc' \in Classified /\ cur' \in Mutations
      /\ UNCHANGED <<files, cps, rows, ledger, plan, cpID, edits, lastWriter, nextRow, nextCp>>
  BY ReadRow DEF RecoverRead, durable, bounds, history
<1>2. Store'
  BY <1>0, <1>1, SameStore
<1>3. Process'
  BY <1>0, <1>1, BoundsAssumption DEF Process, Mutations
<1>4. TurnGood'
  BY <1>1, ReadRow DEF TurnGood, InTurn, Writing, Classified
<1>5. UndoGood'
  BY <1>1, OutsideUndo DEF Classified, Inverting
<1> QED  BY <1>2, <1>3, <1>4, <1>5 DEF Structure

(* The transaction that marks an undo, or finds it marked.                 *)
LEMMA Marked ==
  ASSUME Structure, pc = "preflight", MarkUndoing, UNCHANGED <<rows, nextRow, nextCp>>
  PROVE  /\ Store' /\ InState("undoing")' = batch
         /\ batch \subseteq Checkpoints
         /\ InState("undoing") # {} => cps' = cps
<1>1. /\ cps' = [c \in Checkpoints |-> IF c \in batch THEN "undoing" ELSE cps[c]]
      /\ \/ batch = InState("undoing")
         \/ InState("undoing") = {} /\ batch \subseteq InState("completed")
  BY DEF MarkUndoing, Structure, UndoGood
<1>2. batch \in SUBSET Checkpoints /\ \A c \in batch : cps[c] \in {"completed", "undoing"}
  BY <1>1 DEF InState
<1>3. \A c \in Checkpoints : cps[c] = "undoing" => c \in batch
  BY <1>1 DEF InState
<1>4. Store'
  BY <1>1, <1>2, MarkStore DEF Structure
<1>5. InState("undoing")' = batch
  BY <1>1, <1>2, <1>3 DEF InState
<1>6. InState("undoing") # {} => cps' = cps
  <2>1. InState("undoing") # {} => \A c \in batch : cps[c] = "undoing"
    BY <1>1 DEF InState
  <2> QED  BY <1>1, <2>1 DEF Structure, Store
<1> QED  BY <1>2, <1>4, <1>5, <1>6

(* An undo is decided, its files are read, and it is marked or refused.    *)
LEMMA DecideSteps ==
  ASSUME Structure,
         \/ (\E n \in 1..2 : Undo(n)) \/ (\E p \in Paths : PreflightRead(p))
         \/ UndoMarks \/ UndoRefused
  PROVE  Structure'
<1>0. Store /\ Process /\ TurnGood /\ UndoGood
  BY DEF Structure
<1>1. /\ pc' \in {"preflight", "undo", "idle"}
      /\ UNCHANGED <<files, rows, ledger, plan, cpID, cur, edits, lastWriter, nextRow, nextCp>>
  BY DEF Undo, PreflightRead, UndoMarks, UndoRefused, durable, bounds, history
<1>2. Process' /\ TurnGood'
  <2>1. Process'
    BY <1>0, <1>1 DEF Process
  <2> QED  BY <1>1, <2>1, OutsideTurn DEF InTurn, Classified
<1>3. CASE \E n \in 1..2 : Undo(n)
  <2>1. PICK n \in 1..2 : Undo(n)
    BY <1>3
  <2>2. /\ pc' = "preflight" /\ cps' = cps
        /\ batch' = IF InState("undoing") # {} THEN InState("undoing") ELSE Newest(n)
    BY <2>1 DEF Undo, durable
  <2>3. Newest(n) \subseteq InState("completed") /\ \A st : InState(st)' = InState(st)
    BY <2>2 DEF Newest, InState
  <2>4. UndoGood'
    BY <2>2, <2>3 DEF UndoGood, Inverting
  <2> QED  BY <1>0, <1>1, <1>2, <2>2, <2>4, SameStore DEF Structure
<1>4. CASE \E p \in Paths : PreflightRead(p)
  <2>1. pc' = pc /\ pc = "preflight" /\ UNCHANGED <<cps, batch>>
    BY <1>4 DEF PreflightRead, durable
  <2>2. UndoGood'
    BY <1>0, <1>1, <2>1, SameUndo DEF Inverting
  <2> QED  BY <1>0, <1>1, <1>2, <2>1, <2>2, SameStore DEF Structure
<1>5. CASE UndoMarks
  <2>1. pc = "preflight" /\ MarkUndoing /\ pc' = "undo" /\ batch' = batch
    BY <1>5 DEF UndoMarks
  <2>2. UndoGood' /\ Store'
    BY <1>1, <2>1, Marked DEF UndoGood, Inverting
  <2> QED  BY <1>2, <2>2 DEF Structure
<1>6. CASE UndoRefused
  <2>1. pc = "preflight" /\ (UNCHANGED cps \/ MarkUndoing) /\ pc' = "idle"
    BY <1>6 DEF UndoRefused
  <2>2. UndoGood'
    BY <2>1, OutsideUndo DEF Inverting
  <2>3. Store'
    BY <1>0, <1>1, <2>1, Marked, SameStore
  <2> QED  BY <1>2, <2>2, <2>3 DEF Structure
<1> QED  BY <1>3, <1>4, <1>5, <1>6

(* The row that a restore step works on.                                   *)
LEMMA Restored ==
  ASSUME Structure, NEW m \in Mutations, NEW q, Advances(m, q),
         cps[rows[m].cp] = "undoing", rows[m].cp # 0
  PROVE  /\ Store' /\ rows'[m] = q
         /\ \A n \in Mutations \ {m} : rows'[n] = rows[n]
BY AdvanceStore DEF Structure

LEMMA UndoRow ==
  ASSUME Structure, pc \in Inverting
  PROVE  /\ batch = InState("undoing") /\ batch # {} /\ Pending({Group}) # {}
         /\ cur = RowToRestore
BY DEF Structure, UndoGood

(* The progress of an undo: the newest pending row is recorded as          *)
(* restored.                                                               *)
LEMMA ProgressRow ==
  ASSUME Structure, RestoreReached \/ InverseCommit, NEW m, m = RowToRestore
  PROVE  /\ m = cur /\ m \in Mutations /\ Store'
         /\ SameMutation(rows'[m], rows[m])
         /\ rows'[m].restored /\ rows'[m].applied = rows[m].applied
         /\ \A n \in Mutations \ {m} : rows'[n] = rows[n]
<1>0. pc \in Inverting
  BY DEF RestoreReached, InverseCommit, Inverting
<1>1. /\ m \in Mutations /\ rows[m].cp # 0 /\ cps[rows[m].cp] = "undoing" /\ Store /\ m = cur
  BY <1>0, UndoRow, NewestPending DEF Structure
<1>2. UNCHANGED <<cps, nextRow, nextCp>> /\ rows[m] \in Rows
  BY <1>1 DEF RestoreReached, InverseCommit, bounds, Store
<1>4. \E q : /\ Advances(m, q) /\ SameMutation(q, rows[m])
             /\ q.restored /\ q.applied = rows[m].applied
  <2>1. CASE RestoreReached
    <3> DEFINE q == [rows[m] EXCEPT !.restored = TRUE]
    <3>1. q \in Rows /\ SameMutation(q, rows[m]) /\ q.restored /\ q.applied = rows[m].applied
      BY <1>2, RestoredRow
    <3>2. rows' = [rows EXCEPT ![m] = q]
      BY <1>1, <2>1 DEF RestoreReached
    <3> HIDE DEF q
    <3>3. Advances(m, q)
      BY <1>2, <3>1, <3>2 DEF Advances
    <3> QED  BY <3>1, <3>3
  <2>2. CASE InverseCommit
    <3> DEFINE i == [rows[m] EXCEPT !.inverse = "applied"]
               q == [i EXCEPT !.restored = TRUE]
    <3>1. /\ i \in Rows /\ SameMutation(i, rows[m])
          /\ i.restored = rows[m].restored /\ i.applied = rows[m].applied
      BY <1>2, InverseRow
    <3>2. rows' = [rows EXCEPT ![m] = q]
      <4>1. rows' = [[rows EXCEPT ![m].inverse = "applied"] EXCEPT ![m].restored = TRUE]
        BY <1>1, <2>2 DEF InverseCommit
      <4> QED  BY <1>1, <4>1 DEF Store
    <3> HIDE DEF i
    <3>3. q \in Rows /\ SameMutation(q, i) /\ q.restored /\ q.applied = i.applied
      BY <3>1, RestoredRow
    <3> HIDE DEF q
    <3>4. SameMutation(q, rows[m])
      BY <3>1, <3>3 DEF SameMutation
    <3>5. Advances(m, q)
      BY <1>2, <3>1, <3>2, <3>3, <3>4 DEF Advances
    <3> QED  BY <3>1, <3>3, <3>4, <3>5
  <2> QED  BY <2>1, <2>2
<1>5. PICK q : /\ Advances(m, q) /\ SameMutation(q, rows[m])
               /\ q.restored /\ q.applied = rows[m].applied
  BY <1>4
<1>6. /\ Store' /\ rows'[m] = q
      /\ \A n \in Mutations \ {m} : rows'[n] = rows[n]
  BY <1>1, <1>5, Restored
<1> QED  BY <1>1, <1>5, <1>6

LEMMA InverseIntent ==
  ASSUME Structure, PrepareInverse, NEW m, m = RowToRestore
  PROVE  /\ m = cur /\ m \in Mutations /\ Store'
         /\ SameMutation(rows'[m], rows[m])
         /\ rows'[m].restored = rows[m].restored /\ rows'[m].applied = rows[m].applied
         /\ \A n \in Mutations \ {m} : rows'[n] = rows[n]
<1>0. pc \in Inverting
  BY DEF PrepareInverse, Inverting
<1>1. /\ m \in Mutations /\ rows[m].cp # 0 /\ cps[rows[m].cp] = "undoing" /\ Store /\ m = cur
  BY <1>0, UndoRow, NewestPending DEF Structure
<1>2. UNCHANGED <<cps, nextRow, nextCp>> /\ rows[m] \in Rows
  BY <1>1 DEF PrepareInverse, bounds, Store
<1> DEFINE q == [rows[m] EXCEPT !.inverse = "intent"]
<1>3. /\ q \in Rows /\ SameMutation(q, rows[m])
      /\ q.restored = rows[m].restored /\ q.applied = rows[m].applied
  BY <1>2, InverseRow
<1>4. rows' = [rows EXCEPT ![m] = q]
  BY <1>1 DEF PrepareInverse
<1> HIDE DEF q
<1>5. Advances(m, q)
  BY <1>2, <1>3, <1>4 DEF Advances
<1> QED  BY <1>1, <1>3, <1>5, Restored

LEMMA UndoSteps ==
  ASSUME Structure,
         \/ RestoreRead \/ RestoreRefused \/ RestoreReached
         \/ PrepareInverse \/ InverseCheck \/ InverseInstall \/ InverseObserve \/ InverseCommit
         \/ UndoFails \/ DeleteRestored \/ UndoDone
  PROVE  Structure'
<1>0. Store /\ Process /\ TurnGood /\ UndoGood
  BY DEF Structure
<1>1. /\ pc' \in {"idle", "undo"} \cup Inverting /\ cur' \in {0, cur, RowToRestore}
      /\ UNCHANGED <<ledger, plan, cpID, edits, nextRow, nextCp>>
  BY DEF RestoreRead, RestoreReached, RestoreRefused, PrepareInverse, InverseCheck,
         InverseInstall, InverseObserve, InverseCommit, UndoFails, DeleteRestored, UndoDone,
         Inverting, durable, bounds
<1>2. TurnGood'
  BY <1>1, OutsideTurn DEF InTurn, Classified, Inverting
<1>3. Store'
  <2>1. CASE RestoreReached \/ InverseCommit
    BY <2>1, ProgressRow
  <2>2. CASE PrepareInverse
    BY <2>2, InverseIntent
  <2>3. CASE DeleteRestored
    BY <1>0, <1>1, <2>3, DeleteStore DEF DeleteRestored
  <2>4. CASE \/ RestoreRead \/ RestoreRefused \/ InverseCheck \/ InverseInstall
             \/ InverseObserve \/ UndoFails \/ UndoDone
    BY <1>0, <1>1, <2>4, SameStore
       DEF RestoreRead, RestoreRefused, InverseCheck, InverseInstall, InverseObserve, UndoFails,
           UndoDone, durable
  <2> QED  BY <2>1, <2>2, <2>3, <2>4
<1>4. files' \in [Paths -> FileStates] /\ lastWriter' \in [Paths -> 0..MaxMutations]
  <2>1. CASE InverseInstall
    <3>1. rows[cur] \in Rows
      BY <1>0, <2>1, UndoRow, NewestPending DEF InverseInstall, Inverting, Store
    <3>2. rows[cur].prior \in FileStates
      BY <3>1 DEF Rows
    <3>3. files' \in [Paths -> FileStates]
      BY <1>0, <2>1, <3>2 DEF InverseInstall, Target, Process
    <3>4. 0 \in 0..MaxMutations
      BY BoundsAssumption
    <3>5. lastWriter' \in [Paths -> 0..MaxMutations]
      BY <1>0, <2>1, <3>4 DEF InverseInstall, Process
    <3> QED  BY <3>3, <3>5
  <2>2. CASE ~InverseInstall
    BY <1>0, <2>2
       DEF RestoreRead, RestoreReached, RestoreRefused, PrepareInverse, InverseCheck,
           InverseObserve, InverseCommit, UndoFails, DeleteRestored, UndoDone, durable, history,
           Process
  <2> QED  BY <2>1, <2>2
<1>5. RestoreRead => /\ batch = InState("undoing") /\ batch # {} /\ Pending({Group}) # {}
                     /\ cur' = RowToRestore /\ pc' \in Inverting
  BY <1>0 DEF RestoreRead, Restoring, UndoGood, Inverting
<1>6. cur' \in 0..MaxMutations
  <2>1. CASE RestoreRead
    BY <1>0, <1>5, <2>1, NewestPending, BoundsAssumption DEF Mutations
  <2>2. CASE ~RestoreRead
    BY <1>0, <2>2, BoundsAssumption
       DEF RestoreReached, RestoreRefused, PrepareInverse, InverseCheck, InverseInstall,
           InverseObserve, InverseCommit, UndoFails, DeleteRestored, UndoDone, Process
  <2> QED  BY <2>1, <2>2
<1>7. Process'
  BY <1>0, <1>1, <1>4, <1>6 DEF Process
<1>8. UndoGood'
  <2>1. CASE RestoreRead
    <3>1. UNCHANGED <<cps, rows, batch>>
      BY <2>1 DEF RestoreRead, durable
    <3>2. Group' = Group /\ (\A C : Pending(C)' = Pending(C)) /\ InState("undoing")' = batch
      BY <1>5, <2>1, <3>1 DEF Group, Pending, InState
    <3>3. RowToRestore' = RowToRestore /\ Pending({Group})' # {}
      BY <1>5, <2>1, <3>2 DEF RowToRestore
    <3> QED  BY <1>5, <2>1, <3>1, <3>2, <3>3 DEF UndoGood, Inverting
  <2>2. CASE RestoreReached \/ InverseCommit
    <3>1. pc' = "undo" /\ batch' = batch /\ cps' = cps /\ batch = InState("undoing")
      BY <2>2, UndoRow DEF RestoreReached, InverseCommit, Inverting
    <3> QED  BY <3>1 DEF UndoGood, Inverting, InState
  <2>3. CASE PrepareInverse
    <3>1. /\ pc' = "inverse" /\ batch' = batch /\ cps' = cps /\ cur' = RowToRestore
          /\ batch = InState("undoing") /\ batch # {} /\ Pending({Group}) # {}
      BY <2>3, UndoRow DEF PrepareInverse, Inverting
    <3>2. ASSUME NEW n \in Mutations
          PROVE  /\ rows'[n].cp = rows[n].cp /\ rows'[n].applied = rows[n].applied
                 /\ rows'[n].restored = rows[n].restored
      BY <2>3, InverseIntent DEF SameMutation
    <3>3. Group' = Group /\ \A C : Pending(C)' = Pending(C)
      BY <3>1, <3>2 DEF Group, Pending
    <3>4. RowToRestore' = RowToRestore
      BY <3>3 DEF RowToRestore
    <3>5. Pending({Group})' # {}
      BY <3>1, <3>3
    <3> QED  BY <3>1, <3>4, <3>5 DEF UndoGood, InState
  <2>4. CASE InverseCheck \/ InverseInstall \/ InverseObserve
    BY <1>0, <2>4, SameUndo DEF InverseCheck, InverseInstall, InverseObserve, Inverting, durable
  <2>5. CASE DeleteRestored
    <3>1. /\ pc' = "undo" /\ batch' = batch \ {Group} /\ batch = InState("undoing")
          /\ \A c \in Checkpoints : cps'[c] = IF c = Group THEN "none" ELSE cps[c]
      BY <1>0, <1>1, <2>5, DeleteStore DEF DeleteRestored, UndoGood
    <3> HIDE DEF Group
    <3>2. batch' = InState("undoing")'
      BY <3>1 DEF InState
    <3> QED  BY <3>1, <3>2 DEF UndoGood, Inverting
  <2>6. CASE RestoreRefused \/ UndoFails \/ UndoDone
    BY <2>6, OutsideUndo DEF RestoreRefused, UndoFails, UndoDone, Inverting
  <2> QED  BY <2>1, <2>2, <2>3, <2>4, <2>5, <2>6
<1> QED  BY <1>2, <1>3, <1>7, <1>8 DEF Structure

LEMMA EditStep ==
  ASSUME Structure, NEW p \in Paths, NEW s \in FileStates, Edit(p, s)
  PROVE  Structure'
<1>0. Store /\ Process /\ TurnGood /\ UndoGood
  BY DEF Structure
<1>1. Store' /\ TurnGood' /\ UndoGood'
  BY <1>0, SameStore, SameTurn, SameUndo DEF Edit, Inverting
<1>2. Process'
  BY <1>0, BoundsAssumption DEF Edit, Process
<1> QED  BY <1>1, <1>2 DEF Structure

LEMMA StructureInit == Init => Structure
<1> SUFFICES ASSUME Init PROVE Structure
  OBVIOUS
<1>1. Store
  BY NoRowIs DEF Init, Store, RowGood, CheckpointGood, Ordered, Stages
<1>2. Process
  BY NoPlanIs, BoundsAssumption DEF Init, Process
<1>3. TurnGood /\ UndoGood
  BY DEF Init, TurnGood, UndoGood, InTurn, Writing, Classified, Inverting
<1> QED  BY <1>1, <1>2, <1>3 DEF Structure

LEMMA StructureNext == Structure /\ [Next]_vars => Structure'
<1> SUFFICES ASSUME Structure, [Next]_vars PROVE Structure'
  OBVIOUS
<1>1. CASE UNCHANGED vars
  <2>1. UNCHANGED <<files, cps, rows, ledger, pc, plan, cpID, cur, batch, nextRow, nextCp,
                    edits, lastWriter>>
    BY <1>1 DEF vars, durable, bounds, history
  <2>2. Store' /\ TurnGood' /\ UndoGood'
    BY <2>1, SameStore, SameTurn, SameUndo DEF Structure
  <2>3. Process'
    BY <2>1 DEF Structure, Process
  <2> QED  BY <2>2, <2>3 DEF Structure
<1>2. CASE Next
  BY <1>2, TurnSteps, PrepareSteps, WriteEndSteps, SealSteps, LifeSteps, ReadStep, DecideSteps,
     UndoSteps, EditStep DEF Next
<1> QED  BY <1>1, <1>2
-----------------------------------------------------------------------------
(* Whose bytes a file holds.  A row that accounts for a file:              *)
Lasting(m) ==
  /\ rows[m].cp # 0 /\ ~rows[m].restored
  /\ rows[m].path \in Paths /\ files[rows[m].path] = rows[m].after
  /\ rows[m].prior # rows[m].after

LEMMA WriterIs ==
  ASSUME Structure, HistoryGood, NEW p \in Paths, lastWriter[p] # 0
  PROVE  /\ lastWriter[p] \in Mutations /\ lastWriter[p] \in landed
         /\ lastWriter[p] < nextRow
         /\ lastWriter[p] \notin pruned =>
              Lasting(lastWriter[p]) /\ rows[lastWriter[p]].path = p
<1>1. lastWriter[p] \in Mutations
  BY BoundsAssumption DEF Structure, Process, Mutations
<1>2. WriterGood(p) /\ LandedGood
  BY DEF HistoryGood
<1>3. lastWriter[p] \in landed /\ lastWriter[p] \in 1..(nextRow - 1)
  BY <1>2 DEF WriterGood, LandedGood
<1>4. lastWriter[p] < nextRow
  BY <1>3 DEF Structure, Store
<1> QED  BY <1>1, <1>2, <1>3, <1>4 DEF WriterGood, Lasting

(* A step that leaves the files alone keeps the accounts if it keeps every *)
(* row that accounts for a file, or prunes it.                             *)
LEMMA KeepsWriters ==
  ASSUME Structure, HistoryGood, UNCHANGED <<files, lastWriter, landed>>,
         pruned \subseteq pruned',
         \A m \in Mutations :
           m \in landed /\ m < nextRow /\ Lasting(m) /\ ~Unneeded(m) /\ m \notin pruned' =>
             SameMutation(rows'[m], rows[m]) /\ rows'[m].restored = rows[m].restored
  PROVE  \A p \in Paths : WriterGood(p)'
<1> SUFFICES ASSUME NEW p \in Paths PROVE WriterGood(p)'
  OBVIOUS
<1> DEFINE m == lastWriter[p]
<1>0. lastWriter'[p] = m /\ files'[p] = files[p] /\ landed' = landed
  OBVIOUS
<1>1. CASE m = 0
  BY <1>0, <1>1 DEF WriterGood
<1>2. CASE m # 0
  <2>1. /\ m \in Mutations /\ m \in landed /\ m < nextRow
        /\ m \notin pruned => Lasting(m) /\ rows[m].path = p
    BY <1>2, WriterIs
  <2> HIDE DEF m
  <2>2. CASE m \in pruned'
    BY <1>0, <2>1, <2>2 DEF WriterGood
  <2>3. CASE m \notin pruned'
    <3>1. Lasting(m) /\ rows[m].path = p
      BY <2>1, <2>3
    <3>2. SameMutation(rows'[m], rows[m]) /\ rows'[m].restored = rows[m].restored
      <4>1. ~Unneeded(m)
        BY <2>3 DEF Unneeded, m
      <4> QED  BY <2>1, <2>3, <3>1, <4>1
    <3> QED  BY <1>0, <2>1, <3>1, <3>2 DEF WriterGood, Lasting, SameMutation
  <2> QED  BY <2>2, <2>3
<1> QED  BY <1>1, <1>2

(* A row whose bytes are not in its file is needed by no file.             *)
LEMMA NotLasting ==
  ASSUME Structure, HistoryGood, NEW m \in Mutations, files[rows[m].path] = rows[m].prior
  PROVE  Unneeded(m)
<1> SUFFICES ASSUME NEW p \in Paths, lastWriter[p] = m, m \notin pruned PROVE FALSE
  BY DEF Unneeded
<1>1. Lasting(m)
  BY WriterIs, Numbers
<1> QED  BY <1>1 DEF Lasting

(* Steps that end where nothing that was read is waiting to be used.       *)
Quiet == pc' \notin Writing \cup {"inverseChecked", "drop", "reached", "inverseSeen"}

LEMMA IntervalGrows ==
  ASSUME NEW a \in Nat, NEW b \in Nat, a <= b, NEW m \in 1..(a - 1)
  PROVE  m \in 1..(b - 1)
OBVIOUS

LEMMA NumbersGrow ==
  ASSUME Structure, nextRow' \in Nat, nextRow <= nextRow'
  PROVE  /\ nextRow \in Nat
         /\ \A S : S \subseteq 1..(nextRow - 1) => S \subseteq 1..(nextRow' - 1)
<1>1. nextRow \in Nat
  BY DEF Structure, Store
<1>2. \A m \in 1..(nextRow - 1) : m \in 1..(nextRow' - 1)
  BY <1>1, IntervalGrows
<1> QED  BY <1>1, <1>2

LEMMA QuietLanded ==
  ASSUME Structure, LandedGood, Quiet, landed' = landed,
         nextRow' \in Nat, nextRow <= nextRow', pruned' \subseteq 1..(nextRow' - 1)
  PROVE  LandedGood'
<1>1. landed' \subseteq 1..(nextRow' - 1)
  BY NumbersGrow DEF LandedGood
<1> QED  BY <1>1 DEF LandedGood, Quiet, Writing

LEMMA QuietHistory ==
  ASSUME Structure, HistoryGood, Quiet,
         UNCHANGED <<rows, files, lastWriter, landed, pruned, nextRow>>
  PROVE  HistoryGood'
<1>1. LandedGood'
  BY QuietLanded DEF HistoryGood, LandedGood, Structure, Store
<1>2. \A p \in Paths : WriterGood(p)'
  BY DEF HistoryGood, WriterGood
<1> QED  BY <1>1, <1>2 DEF HistoryGood

(* A row changes that accounts for no file.                                *)
LEMMA RowHistory ==
  ASSUME Structure, HistoryGood, Quiet, UNCHANGED <<files, lastWriter, landed, pruned, nextRow>>,
         NEW m \in Mutations, \A n \in Mutations \ {m} : rows'[n] = rows[n],
         \/ m \notin landed \/ Unneeded(m)
         \/ SameMutation(rows'[m], rows[m]) /\ rows'[m].restored = rows[m].restored
  PROVE  HistoryGood'
<1>1. LandedGood'
  BY QuietLanded DEF HistoryGood, LandedGood, Structure, Store
<1>2. \A p \in Paths : WriterGood(p)'
  <2>1. ASSUME NEW n \in Mutations, n \in landed, ~Unneeded(n)
        PROVE  SameMutation(rows'[n], rows[n]) /\ rows'[n].restored = rows[n].restored
    <3>1. CASE n = m
      BY <2>1, <3>1
    <3>2. CASE n # m
      BY <3>2 DEF SameMutation
    <3> QED  BY <3>1, <3>2
  <2> QED  BY <2>1, KeepsWriters
<1> QED  BY <1>1, <1>2 DEF HistoryGood

LEMMA PrunedRows ==
  ASSUME Structure, HistoryGood, NEW C \in SUBSET Checkpoints,
         pruned' = pruned \cup {m \in Mutations : rows[m].cp \in C},
         nextRow' \in Nat, nextRow <= nextRow'
  PROVE  pruned' \subseteq 1..(nextRow' - 1)
<1>1. ASSUME NEW m \in pruned' PROVE m \in 1..(nextRow' - 1)
  <2>1. CASE m \in pruned
    BY <2>1, NumbersGrow DEF HistoryGood, LandedGood
  <2>2. CASE m \in Mutations /\ rows[m].cp \in C
    <3>1. rows[m].cp # 0 /\ RowGood(m)
      BY <2>2, Numbers DEF Structure, Store
    <3>2. m \in Nat \ {0} /\ m < nextRow /\ nextRow \in Nat
      BY <2>2, <3>1, Numbers DEF RowGood, Structure, Store
    <3>3. m \in 1..(nextRow - 1)
      BY <3>2
    <3> QED  BY <3>3, NumbersGrow
  <2> QED  BY <1>1, <2>1, <2>2
<1> QED  BY <1>1

LEMMA IntentHistory ==
  ASSUME Structure, HistoryGood, pc = "planned", NEW k, PrepareIntent(k),
         UNCHANGED <<files, lastWriter, landed>>
  PROVE  /\ \A p \in Paths : WriterGood(p)'
         /\ nextRow \notin landed /\ nextRow \notin pruned'
         /\ pruned' \subseteq 1..(nextRow' - 1)
         /\ nextRow' \in Nat /\ nextRow <= nextRow'
<1>0. Store /\ MayPrepare /\ nextRow \in Nat \ {0} /\ nextRow \in Mutations
  BY DEF Structure, Process, Store, TurnGood, MayPrepare
<1>1. nextRow' \in Nat /\ nextRow <= nextRow'
  BY <1>0, IntentRows
<1>2. /\ Oldest(k) \in SUBSET Checkpoints
      /\ pruned' = pruned \cup {m \in Mutations : rows[m].cp \in Oldest(k)}
  BY <1>0, IntentRows DEF PrepareIntent
<1>3. pruned' \subseteq 1..(nextRow' - 1)
  BY <1>1, <1>2, PrunedRows
<1>4. nextRow \notin landed /\ nextRow \notin pruned
  BY <1>0 DEF HistoryGood, LandedGood
<1>5. nextRow \notin pruned'
  <2>1. rows[nextRow].cp = 0
    <3>1. RowGood(nextRow) /\ ~(nextRow < nextRow)
      BY <1>0 DEF Store
    <3> QED  BY <3>1 DEF RowGood
  <2> QED  BY <1>2, <1>4, <2>1, Numbers
<1>6. \A p \in Paths : WriterGood(p)'
  <2>1. ASSUME NEW m \in Mutations, m < nextRow, m \notin pruned'
        PROVE  rows'[m] = rows[m]
    <3>1. m # nextRow /\ rows[m].cp \notin Oldest(k)
      BY <1>0, <1>2, <2>1
    <3> QED  BY <1>0, <3>1, IntentRows
  <2> HIDE DEF HistoryGood
  <2> QED  BY <1>2, <2>1, KeepsWriters DEF SameMutation
<1> QED  BY <1>1, <1>3, <1>4, <1>5, <1>6

LEMMA SealHistory ==
  ASSUME Structure, HistoryGood, Quiet, NEW c \in Checkpoints, cps[c] # "undoing", Seal(c),
         UNCHANGED <<files, lastWriter, landed, nextRow, nextCp>>
  PROVE  HistoryGood'
<1>1. PICK C \in SUBSET Checkpoints :
        /\ pruned' = pruned \cup {m \in Mutations : rows[m].cp \in C}
        /\ \A m \in Mutations : rows'[m] = IF rows[m].cp \in C THEN NoRow ELSE rows[m]
  BY SealStore DEF Structure
<1>2. pruned' \subseteq 1..(nextRow' - 1)
  <2>1. nextRow' \in Nat /\ nextRow <= nextRow'
    BY DEF Structure, Store
  <2> QED  BY <1>1, <2>1, PrunedRows
<1>3. LandedGood'
  BY <1>2, QuietLanded DEF HistoryGood, Structure, Store
<1>4. \A p \in Paths : WriterGood(p)'
  <2>1. ASSUME NEW m \in Mutations, m \notin pruned' PROVE rows'[m] = rows[m]
    BY <1>1, <2>1
  <2> QED  BY <1>1, <2>1, KeepsWriters DEF SameMutation
<1> QED  BY <1>3, <1>4 DEF HistoryGood

LEMMA TurnHistory ==
  ASSUME Structure, HistoryGood,
         Prepare \/ PrepareFails \/ WriteCheck \/ WriteInstall \/ ObserveWrite
  PROVE  HistoryGood'
<1>0. LandedGood
  BY DEF HistoryGood
<1>1. CASE Prepare
  <2>1. PICK k : PrepareIntent(k)
    BY <1>1 DEF Prepare
  <2>2. /\ pc = "planned" /\ pc' = "prepared" /\ cur' = nextRow
        /\ UNCHANGED <<files, lastWriter, landed>>
    BY <1>1 DEF Prepare
  <2>3. /\ \A p \in Paths : WriterGood(p)'
        /\ nextRow \notin landed /\ nextRow \notin pruned'
        /\ pruned' \subseteq 1..(nextRow' - 1)
        /\ nextRow' \in Nat /\ nextRow <= nextRow'
    BY <2>1, <2>2, IntentHistory
  <2>4. landed' \subseteq 1..(nextRow' - 1)
    BY <1>0, <2>2, <2>3, NumbersGrow DEF LandedGood
  <2>5. LandedGood'
    BY <2>2, <2>3, <2>4 DEF LandedGood, Writing
  <2> QED  BY <2>3, <2>5 DEF HistoryGood
<1>2. CASE PrepareFails
  <2>1. /\ pc = "planned" /\ Quiet /\ UNCHANGED <<files, lastWriter, landed>>
    BY <1>2 DEF PrepareFails, Quiet, Writing
  <2>2. CASE UNCHANGED <<cps, rows, ledger, pruned, nextCp, nextRow>>
    BY <2>1, <2>2, QuietHistory
  <2>3. ASSUME NEW k, PrepareIntent(k) PROVE HistoryGood'
    <3>1. /\ \A p \in Paths : WriterGood(p)'
          /\ pruned' \subseteq 1..(nextRow' - 1)
          /\ nextRow' \in Nat /\ nextRow <= nextRow'
      BY <2>1, <2>3, IntentHistory
    <3> QED  BY <1>0, <2>1, <3>1, QuietLanded DEF HistoryGood
  <2> QED  BY <1>2, <2>2, <2>3 DEF PrepareFails
<1>3. CASE WriteCheck
  <2>1. /\ pc = "prepared" /\ pc' = "checked" /\ files[plan.path] = plan.prior
        /\ UNCHANGED <<files, rows, landed, pruned, lastWriter, plan, cur, nextRow>>
    BY <1>3 DEF WriteCheck, durable, bounds
  <2>2. LandedGood'
    BY <1>0, <2>1 DEF LandedGood, Writing
  <2>3. \A p \in Paths : WriterGood(p)'
    BY <2>1 DEF HistoryGood, WriterGood
  <2> QED  BY <2>2, <2>3 DEF HistoryGood
<1>4. CASE WriteInstall
  <2>1. /\ pc = "checked" /\ pc' = "written"
        /\ files' = [files EXCEPT ![plan.path] = plan.after]
        /\ landed' = landed \cup {cur}
        /\ lastWriter' = IF plan.after = plan.prior THEN lastWriter
                         ELSE [lastWriter EXCEPT ![plan.path] = cur]
        /\ UNCHANGED <<rows, pruned, plan, cur, nextRow>>
    BY <1>4 DEF WriteInstall, bounds
  <2>2. /\ cur \in Mutations /\ plan.path \in Paths /\ rows[cur].cp # 0
        /\ cps[rows[cur].cp] = "open"
        /\ rows[cur].path = plan.path /\ rows[cur].prior = plan.prior
        /\ rows[cur].after = plan.after
    BY <2>1 DEF Structure, TurnGood, Writing
  <2>3. RowGood(cur)
    BY <2>2 DEF Structure, Store
  <2>4. cur < nextRow /\ ~rows[cur].restored /\ cur \in 1..(nextRow - 1)
    <3>1. cur < nextRow /\ ~rows[cur].restored
      BY <2>2, <2>3 DEF RowGood
    <3> QED  BY <2>2, <3>1, Numbers DEF Structure, Store
  <2>5. LandedGood'
    BY <1>0, <2>1, <2>4 DEF LandedGood, Writing
  <2>6. ASSUME NEW p \in Paths PROVE WriterGood(p)'
    <3>1. WriterGood(p)
      BY DEF HistoryGood
    <3>2. lastWriter \in [Paths -> 0..MaxMutations] /\ files \in [Paths -> FileStates]
      BY DEF Structure, Process
    <3>3. CASE p # plan.path
      <4>1. files'[p] = files[p] /\ lastWriter'[p] = lastWriter[p]
        BY <2>1, <3>2, <3>3
      <4> QED  BY <2>1, <3>1, <4>1 DEF WriterGood
    <3>4. CASE p = plan.path /\ plan.after # plan.prior
      <4>1. files'[p] = plan.after /\ lastWriter'[p] = cur
        BY <2>1, <3>2, <3>4
      <4> QED  BY <2>1, <2>2, <2>4, <3>4, <4>1 DEF WriterGood
    <3>5. CASE p = plan.path /\ plan.after = plan.prior
      <4>1. files'[p] = plan.prior /\ lastWriter'[p] = lastWriter[p]
        BY <2>1, <3>2, <3>5
      <4>2. files[p] = plan.prior \/ lastWriter[p] = 0
        BY <1>0, <2>1, <3>5 DEF LandedGood
      <4> QED  BY <2>1, <3>1, <4>1, <4>2 DEF WriterGood
    <3> QED  BY <3>3, <3>4, <3>5
  <2> QED  BY <2>5, <2>6 DEF HistoryGood
<1>5. CASE ObserveWrite
  <2>1. /\ pc = "written" /\ pc' = "observed" /\ files[plan.path] = plan.after
        /\ UNCHANGED <<files, rows, landed, pruned, lastWriter, plan, cur, nextRow>>
    BY <1>5 DEF ObserveWrite, Observed, durable, bounds
  <2>2. LandedGood'
    BY <1>0, <2>1 DEF LandedGood, Writing
  <2>3. \A p \in Paths : WriterGood(p)'
    BY <2>1 DEF HistoryGood, WriterGood
  <2> QED  BY <2>2, <2>3 DEF HistoryGood
<1> QED  BY <1>1, <1>2, <1>3, <1>4, <1>5

LEMMA WriteEndHistory ==
  ASSUME Structure, HistoryGood, WriteFails \/ Commit \/ CommitFails
  PROVE  HistoryGood'
<1>1. /\ pc \in Writing /\ Quiet
      /\ UNCHANGED <<files, cps, lastWriter, landed, pruned, nextRow, nextCp>>
  BY DEF WriteFails, Commit, CommitFails, Writing, Quiet, bounds, history
<1>2. cur \in Mutations /\ Store
  BY <1>1 DEF Structure, TurnGood
<1>3. CASE UNCHANGED <<rows, ledger>>
  BY <1>1, <1>3, QuietHistory
<1>4. CASE pc \in {"prepared", "checked"} /\ rows' = [rows EXCEPT ![cur] = NoRow]
  <2>1. cur \notin landed
    BY <1>4 DEF HistoryGood, LandedGood
  <2>2. \A n \in Mutations \ {cur} : rows'[n] = rows[n]
    BY <1>1, <1>2, <1>4, DropStore
  <2> QED  BY <1>1, <1>2, <2>1, <2>2, RowHistory
<1>5. CASE pc = "observed" /\ CommitIntent
  BY <1>1, <1>2, <1>5, CommitRow, RowHistory
<1> QED  BY <1>3, <1>4, <1>5 DEF WriteFails, AbortIntent, Commit, CommitFails

LEMMA LifeHistory ==
  ASSUME Structure, HistoryGood,
         \/ SealTurn \/ Crash \/ Start \/ RecoverRow \/ RecoverSeal \/ RecoverFails
         \/ Recovered
  PROVE  HistoryGood'
<1>1. Quiet /\ UNCHANGED <<files, lastWriter, landed, nextRow, nextCp>>
  BY DEF SealTurn, Crash, Start, RecoverRow, RecoverSeal, RecoverFails, Recovered, Quiet,
         Writing, durable, bounds, history
<1>2. CASE UNCHANGED <<rows, pruned>>
  BY <1>1, <1>2, QuietHistory
<1>3. ASSUME NEW c \in Checkpoints, cps[c] # "undoing", Seal(c) PROVE HistoryGood'
  BY <1>1, <1>3, SealHistory
<1>4. CASE SealTurn
  <2>1. cpID # 0 => cpID \in Checkpoints /\ cps[cpID] # "undoing"
    BY <1>4, Numbers DEF SealTurn, Structure, Process, TurnGood, InTurn
  <2> QED  BY <1>2, <1>3, <1>4, <2>1 DEF SealTurn
<1>5. CASE RecoverSeal
  BY <1>3, <1>5 DEF RecoverSeal, InState
<1>6. CASE RecoverRow
  <2>1. /\ cur \in Mutations /\ \A n \in Mutations \ {cur} : rows'[n] = rows[n]
        /\ \/ pc = "drop"
           \/ SameMutation(rows'[cur], rows[cur]) /\ rows'[cur].restored = rows[cur].restored
    BY <1>6, RecoveredRow
  <2>2. pc = "drop" => Unneeded(cur)
    BY DEF HistoryGood, LandedGood
  <2>3. pruned' = pruned
    BY <1>6 DEF RecoverRow, history
  <2> QED  BY <1>1, <2>1, <2>2, <2>3, RowHistory
<1>7. CASE Crash \/ Start \/ RecoverFails \/ Recovered
  BY <1>2, <1>7 DEF Crash, Start, RecoverFails, Recovered, durable, history
<1> QED  BY <1>4, <1>5, <1>6, <1>7

(* The reads that find a file as it was before its row.                    *)
LEMMA ReadHistory ==
  ASSUME Structure, HistoryGood, RecoverRead \/ RestoreRead \/ InverseObserve
  PROVE  HistoryGood'
<1>0. LandedGood
  BY DEF HistoryGood
<1>1. /\ pc' \in {"drop", "keep", "reached", "matched", "inverseSeen"}
      /\ UNCHANGED <<files, rows, landed, pruned, lastWriter, nextRow>>
  BY DEF RecoverRead, RestoreRead, InverseObserve, durable, bounds, history
<1>2. pc' \in {"drop", "reached", "inverseSeen"} => Unneeded(cur')
  <2>1. cur' \in Mutations
    <3>1. CASE RecoverRead
      BY <3>1, ReadRow
    <3>2. CASE RestoreRead
      <4>1. batch = InState("undoing") /\ batch # {} /\ Pending({Group}) # {}
        BY <3>2 DEF RestoreRead, Restoring, Structure, UndoGood
      <4>2. RowToRestore \in Mutations
        BY <4>1, NewestPending DEF Structure
      <4> QED  BY <3>2, <4>2 DEF RestoreRead
    <3>3. CASE InverseObserve
      <4>1. cur \in Mutations
        BY <3>3, UndoRow, NewestPending DEF InverseObserve, Inverting, Structure
      <4> QED  BY <3>3, <4>1 DEF InverseObserve
    <3> QED  BY <3>1, <3>2, <3>3
  <2>2. pc' \in {"drop", "reached", "inverseSeen"} => files[rows[cur'].path] = rows[cur'].prior
    <3>1. CASE RecoverRead
      BY <3>1, ReadRow DEF NotLanded, Target, Classified
    <3>2. CASE RestoreRead
      BY <3>2 DEF RestoreRead, Target
    <3>3. CASE InverseObserve
      BY <3>3 DEF InverseObserve, Target
    <3> QED  BY <3>1, <3>2, <3>3
  <2> QED  BY <2>1, <2>2, NotLasting
<1>3. LandedGood'
  BY <1>0, <1>1, <1>2 DEF LandedGood, Writing, Unneeded
<1>4. \A p \in Paths : WriterGood(p)'
  BY <1>1 DEF HistoryGood, WriterGood
<1> QED  BY <1>3, <1>4 DEF HistoryGood

LEMMA UndoHistory ==
  ASSUME Structure, HistoryGood,
         \/ RestoreReached \/ PrepareInverse \/ InverseCheck \/ InverseInstall
         \/ InverseCommit \/ DeleteRestored
  PROVE  HistoryGood'
<1>0. LandedGood
  BY DEF HistoryGood
<1>1. CASE RestoreReached \/ InverseCommit
  <2> DEFINE m == RowToRestore
  <2>1. /\ Quiet /\ UNCHANGED <<files, lastWriter, landed, pruned, nextRow>>
    BY <1>1 DEF RestoreReached, InverseCommit, Quiet, Writing, bounds, history
  <2>2. /\ m = cur /\ m \in Mutations
        /\ \A n \in Mutations \ {m} : rows'[n] = rows[n]
    BY <1>1, ProgressRow
  <2>3. Unneeded(m)
    BY <1>0, <1>1, <2>2 DEF RestoreReached, InverseCommit, LandedGood
  <2> HIDE DEF m
  <2> QED  BY <2>1, <2>2, <2>3, RowHistory
<1>2. CASE PrepareInverse
  <2>1. /\ Quiet /\ UNCHANGED <<files, lastWriter, landed, pruned, nextRow>>
    BY <1>2 DEF PrepareInverse, Quiet, Writing, bounds, history
  <2> QED  BY <1>2, <2>1, InverseIntent, RowHistory
<1>3. CASE InverseCheck
  <2>1. /\ pc' = "inverseChecked" /\ files[rows[cur].path] = rows[cur].after
        /\ UNCHANGED <<files, rows, landed, pruned, lastWriter, cur, nextRow>>
    BY <1>3 DEF InverseCheck, InverseAllowed, MatchesAfter, durable, bounds
  <2>2. LandedGood'
    BY <1>0, <2>1 DEF LandedGood, Writing
  <2>3. \A p \in Paths : WriterGood(p)'
    BY <2>1 DEF HistoryGood, WriterGood
  <2> QED  BY <2>2, <2>3 DEF HistoryGood
<1>4. CASE InverseInstall
  <2>1. /\ Quiet /\ UNCHANGED <<rows, landed, pruned, nextRow>>
        /\ files' = [files EXCEPT ![rows[cur].path] = Target(cur)]
        /\ lastWriter' = [lastWriter EXCEPT ![rows[cur].path] = 0]
    BY <1>4 DEF InverseInstall, Quiet, Writing, bounds
  <2>2. LandedGood'
    BY <1>0, <2>1, QuietLanded DEF LandedGood, Structure, Store
  <2>3. ASSUME NEW p \in Paths PROVE WriterGood(p)'
    <3>1. lastWriter \in [Paths -> 0..MaxMutations] /\ files \in [Paths -> FileStates]
      BY DEF Structure, Process
    <3>2. \/ lastWriter'[p] = 0
          \/ lastWriter'[p] = lastWriter[p] /\ files'[p] = files[p]
      BY <2>1, <3>1
    <3> QED  BY <2>1, <3>2 DEF HistoryGood, WriterGood
  <2> QED  BY <2>2, <2>3 DEF HistoryGood
<1>5. CASE DeleteRestored
  <2> DEFINE g == Group
  <2>1. /\ Quiet /\ UNCHANGED <<files, lastWriter, landed, pruned, nextRow, nextCp>>
        /\ batch = InState("undoing") /\ batch # {} /\ Pending({g}) = {}
        /\ cps' = Gone(cps, {g}) /\ rows' = Without(rows, {g})
    BY <1>5 DEF DeleteRestored, Deletable, Quiet, Writing, bounds, history, Structure, UndoGood
  <2>2. \A m \in Mutations : rows'[m] = IF rows[m].cp = g THEN NoRow ELSE rows[m]
    BY <2>1, DeleteStore DEF Structure
  <2>3. g \in Checkpoints /\ cps[g] = "undoing"
    <3>1. batch \in SUBSET Checkpoints
      BY <2>1 DEF InState
    <3>2. g \in batch
      BY <2>1, <3>1, CheckpointMaximum DEF Group
    <3> QED  BY <2>1, <3>2 DEF InState
  <2> HIDE DEF g
  <2>4. ASSUME NEW m \in Mutations, Lasting(m) PROVE rows[m].cp # g
    <3>1. RowGood(m) /\ m \notin Pending({g})
      BY <2>1 DEF Structure, Store
    <3> QED  BY <2>3, <2>4, <3>1 DEF Lasting, RowGood, Pending
  <2>5. \A p \in Paths : WriterGood(p)'
    BY <2>1, <2>2, <2>4, KeepsWriters DEF SameMutation
  <2>6. LandedGood'
    BY <1>0, <2>1, QuietLanded DEF LandedGood, Structure, Store
  <2> QED  BY <2>5, <2>6 DEF HistoryGood
<1> QED  BY <1>1, <1>2, <1>3, <1>4, <1>5

LEMMA EditHistory ==
  ASSUME Structure, HistoryGood, NEW p \in Paths, NEW s \in FileStates, Edit(p, s)
  PROVE  HistoryGood'
<1>0. LandedGood
  BY DEF HistoryGood
<1>1. /\ files' = [files EXCEPT ![p] = s] /\ lastWriter' = [lastWriter EXCEPT ![p] = 0]
      /\ late' = late \cup {p}
      /\ UNCHANGED <<rows, pc, plan, cur, landed, pruned, nextRow>>
  BY DEF Edit
<1>2. /\ lastWriter \in [Paths -> 0..MaxMutations] /\ files \in [Paths -> FileStates]
  BY DEF Structure, Process
<1>3. /\ files'[p] = s /\ lastWriter'[p] = 0
      /\ \A q \in Paths \ {p} : files'[q] = files[q] /\ lastWriter'[q] = lastWriter[q]
  BY <1>1, <1>2
<1>4. ASSUME NEW q \in Paths PROVE WriterGood(q)'
  <2>1. WriterGood(q)
    BY DEF HistoryGood
  <2>2. CASE q = p
    BY <1>3, <2>2 DEF WriterGood
  <2>3. CASE q # p
    BY <1>1, <1>3, <2>1, <2>3 DEF WriterGood
  <2> QED  BY <2>2, <2>3
<1>5. pc \in Writing => plan.path \in Paths
  BY DEF Structure, TurnGood, Writing
<1>6. /\ pc \in Inverting => cur \in Mutations /\ rows[cur].path \in Paths
      /\ pc = "drop" => cur \in Mutations
  BY UndoRow, NewestPending DEF Structure, TurnGood, Classified
<1>7. LandedGood'
  <2>1. ASSUME pc = "checked"
        PROVE  /\ files'[plan.path] = plan.prior \/ lastWriter'[plan.path] = 0
               /\ plan.path \notin late' => files'[plan.path] = plan.prior
    <3>1. /\ files[plan.path] = plan.prior \/ lastWriter[plan.path] = 0
          /\ plan.path \notin late => files[plan.path] = plan.prior
      BY <1>0, <2>1 DEF LandedGood
    <3>2. CASE plan.path = p
      BY <1>1, <1>3, <3>2
    <3>3. CASE plan.path # p
      BY <1>1, <1>3, <1>5, <2>1, <3>1, <3>3 DEF Writing
    <3> QED  BY <3>2, <3>3
  <2>2. ASSUME pc = "inverseChecked", rows[cur].path \notin late'
        PROVE  files'[rows[cur].path] = rows[cur].after
    <3>1. rows[cur].path \notin late /\ rows[cur].path # p
      BY <1>1, <2>2
    <3>2. files[rows[cur].path] = rows[cur].after
      BY <1>0, <2>2, <3>1 DEF LandedGood
    <3> QED  BY <1>3, <1>6, <2>2, <3>1, <3>2 DEF Inverting
  <2>3. ASSUME pc = "observed", plan.path \notin late'
        PROVE  files'[plan.path] = plan.after
    <3>1. plan.path \notin late /\ plan.path # p
      BY <1>1, <2>3
    <3>2. files[plan.path] = plan.after
      BY <1>0, <2>3, <3>1 DEF LandedGood
    <3> QED  BY <1>3, <1>5, <2>3, <3>1, <3>2 DEF Writing
  <2>4. ASSUME pc \in {"drop", "reached", "inverseSeen"} PROVE Unneeded(cur)'
    <3>1. Unneeded(cur) /\ cur # 0
      BY <1>0, <1>6, <2>4, Numbers DEF LandedGood, Inverting
    <3> QED  BY <1>1, <1>3, <3>1 DEF Unneeded
  <2> QED  BY <1>0, <1>1, <2>1, <2>2, <2>3, <2>4 DEF LandedGood
<1> QED  BY <1>4, <1>7 DEF HistoryGood

LEMMA HistoryInit == Init => HistoryGood
<1> SUFFICES ASSUME Init PROVE HistoryGood
  OBVIOUS
<1>1. LandedGood
  BY DEF Init, LandedGood, Writing
<1>2. \A p \in Paths : WriterGood(p)
  BY DEF Init, WriterGood
<1> QED  BY <1>1, <1>2 DEF HistoryGood

LEMMA HistoryNext == Structure /\ HistoryGood /\ [Next]_vars => HistoryGood'
<1> SUFFICES ASSUME Structure, HistoryGood, [Next]_vars PROVE HistoryGood'
  OBVIOUS
<1>1. CASE UNCHANGED vars
  <2>1. UNCHANGED <<files, rows, pc, plan, cur, nextRow, lastWriter, landed, pruned, late>>
    BY <1>1 DEF vars, durable, bounds, history
  <2>2. LandedGood'
    BY <2>1 DEF HistoryGood, LandedGood, Unneeded
  <2>3. \A p \in Paths : WriterGood(p)'
    BY <2>1 DEF HistoryGood, WriterGood
  <2> QED  BY <2>2, <2>3 DEF HistoryGood
<1>2. CASE \/ BeginTurn \/ (\E p \in Paths, c \in Contents : Plan(p, c))
           \/ PrepareOverQuota \/ (\E n \in 1..2 : Undo(n))
           \/ (\E p \in Paths : PreflightRead(p)) \/ UndoMarks \/ UndoRefused
           \/ RestoreRefused \/ UndoFails \/ UndoDone
  <2>1. Quiet /\ UNCHANGED <<rows, files, lastWriter, landed, pruned, nextRow>>
    BY <1>2 DEF BeginTurn, Plan, PrepareOverQuota, Undo, PreflightRead, UndoMarks, UndoRefused,
                RestoreRefused, UndoFails, UndoDone, Quiet, Writing, durable, bounds, history
  <2> QED  BY <2>1, QuietHistory
<1>3. CASE Next
  BY <1>2, <1>3, TurnHistory, WriteEndHistory, LifeHistory, ReadHistory, UndoHistory,
     EditHistory DEF Next
<1> QED  BY <1>1, <1>3

LEMMA StructureAlways == Spec => []Structure
BY StructureInit, StructureNext, PTL DEF Spec

LEMMA HistoryAlways == Spec => []HistoryGood
BY HistoryInit, HistoryNext, StructureAlways, PTL DEF Spec

(* The durable state keeps its types for any files, contents and bounds.   *)
THEOREM JournalTypeCorrect == Spec => []TypeOK
<1>1. Structure => TypeOK
  BY DEF Structure, Store, Process, Stages, Rows, TypeOK
<1> QED  BY <1>1, StructureAlways, PTL

(* Whatever golem wrote and is still in a file can be undone until         *)
(* retention prunes it, under any crashes, failures and edits.             *)
THEOREM WritesUndoable == Spec => []WritesStayUndoable
<1>1. ASSUME Structure, HistoryGood PROVE WritesStayUndoable
  <2> SUFFICES ASSUME NEW p \in Paths, lastWriter[p] # 0, lastWriter[p] \notin pruned
               PROVE  /\ rows[lastWriter[p]].cp # 0
                      /\ \/ rows[lastWriter[p]].applied
                         \/ cps[rows[lastWriter[p]].cp] = "open"
    BY DEF WritesStayUndoable
  <2>1. lastWriter[p] \in Mutations /\ Lasting(lastWriter[p])
    BY <1>1, WriterIs
  <2>2. RowGood(lastWriter[p])
    BY <1>1, <2>1 DEF Structure, Store
  <2> QED  BY <2>1, <2>2 DEF Lasting, RowGood
<1> QED  BY <1>1, StructureAlways, HistoryAlways, PTL

(* The steps that write to the ledger.                                     *)
LEMMA LedgerStep ==
  ASSUME Structure, HistoryGood, [Next]_vars, NEW m \in Mutations
  PROVE  /\ ledger[m] # "applied" /\ ledger'[m] = "applied" =>
              /\ m \in landed
              /\ files[rows[m].path] = rows[m].after \/ rows[m].path \in late
         /\ m \in landed /\ ledger[m] # "none" => ledger'[m] # "none"
<1>0. ledger \in [Mutations -> {"none", "intent", "applied"}]
  BY DEF Structure, Process
<1>1. CASE ledger' = ledger
  BY <1>1
<1>2. ASSUME NEW k, PrepareIntent(k)
      PROVE  ledger'[m] = ledger[m] \/ ledger'[m] = "intent"
  <2>1. ledger' = [ledger EXCEPT ![nextRow] = "intent"]
    BY <1>2 DEF PrepareIntent
  <2> QED  BY <1>0, <2>1
<1>3. CASE Prepare \/ PrepareFails
  BY <1>1, <1>2, <1>3 DEF Prepare, PrepareFails
<1>4. CASE WriteFails
  <2>1. CASE ledger' = [ledger EXCEPT ![cur] = "none"]
    <3>1. cur \notin landed
      BY <1>4 DEF WriteFails, HistoryGood, LandedGood
    <3>2. CASE m = cur
      BY <1>0, <2>1, <3>1, <3>2
    <3>3. CASE m # cur
      BY <1>0, <2>1, <3>3
    <3> QED  BY <3>2, <3>3
  <2> QED  BY <1>1, <1>4, <2>1 DEF WriteFails, AbortIntent
<1>5. CASE Commit \/ CommitFails
  <2>1. CASE pc = "observed" /\ CommitIntent
    <3>1. pc = "observed" /\ ledger' = [ledger EXCEPT ![cur] = "applied"]
      BY <2>1 DEF CommitIntent
    <3>2. /\ rows[cur].path = plan.path /\ rows[cur].after = plan.after /\ cur \in landed
          /\ files[plan.path] = plan.after \/ plan.path \in late
      BY <3>1 DEF Structure, TurnGood, Writing, HistoryGood, LandedGood
    <3>3. CASE m = cur
      BY <1>0, <3>1, <3>2, <3>3
    <3>4. CASE m # cur
      BY <1>0, <3>1, <3>4
    <3> QED  BY <3>3, <3>4
  <2> QED  BY <1>1, <1>5, <2>1 DEF Commit, CommitFails
<1>6. CASE ~(Prepare \/ PrepareFails \/ WriteFails \/ Commit \/ CommitFails)
  <2>1. ledger' = ledger
    BY <1>6 DEF Next, vars, durable, BeginTurn, Plan, PrepareOverQuota, WriteCheck,
       WriteInstall, ObserveWrite, SealTurn, Crash, Start, RecoverRead, RecoverRow, RecoverSeal,
       RecoverFails, Recovered, Undo, PreflightRead, UndoMarks, UndoRefused, RestoreRead,
       RestoreReached, RestoreRefused, PrepareInverse, InverseCheck, InverseInstall,
       InverseObserve, InverseCommit, UndoFails, DeleteRestored, UndoDone, Edit
  <2> QED  BY <1>1, <2>1
<1> QED  BY <1>3, <1>4, <1>5, <1>6

(* A receipt turns applied only when the write is in the workspace, or the *)
(* user replaced it after commit had observed it, and the evidence of a    *)
(* write that landed is never deleted.                                     *)
THEOREM LedgerIsTruthful == Spec => LedgerTruthful
<1>1. Structure /\ HistoryGood /\ [Next]_vars =>
        [\A m \in Mutations :
           /\ ledger[m] # "applied" /\ ledger'[m] = "applied" =>
                /\ m \in landed
                /\ files[rows[m].path] = rows[m].after \/ rows[m].path \in late
           /\ m \in landed /\ ledger[m] # "none" => ledger'[m] # "none"]_vars
  BY LedgerStep
<1> QED  BY <1>1, StructureAlways, HistoryAlways, PTL DEF Spec, LedgerTruthful

LEMMA FileStep ==
  ASSUME Structure, HistoryGood, [Next]_vars, NEW p \in Paths,
         files'[p] # files[p], edits' = edits, p \notin late
  PROVE  files[p] = IF pc = "checked" THEN rows[cur].prior ELSE rows[cur].after
<1>0. files \in [Paths -> FileStates] /\ edits \in Nat
  BY DEF Structure, Process
<1>1. CASE WriteInstall
  <2>1. pc = "checked" /\ files' = [files EXCEPT ![plan.path] = plan.after]
    BY <1>1 DEF WriteInstall
  <2>2. p = plan.path
    BY <1>0, <2>1
  <2> QED  BY <2>1, <2>2 DEF Structure, TurnGood, Writing, HistoryGood, LandedGood
<1>2. CASE InverseInstall
  <2>1. pc = "inverseChecked" /\ files' = [files EXCEPT ![rows[cur].path] = Target(cur)]
    BY <1>2 DEF InverseInstall
  <2>2. p = rows[cur].path
    BY <1>0, <2>1
  <2> QED  BY <2>1, <2>2 DEF HistoryGood, LandedGood
<1>3. CASE \E q \in Paths, s \in FileStates : Edit(q, s)
  BY <1>0, <1>3 DEF Edit
<1>4. CASE \/ UNCHANGED vars
           \/ Next /\ ~WriteInstall /\ ~InverseInstall
                   /\ ~(\E q \in Paths, s \in FileStates : Edit(q, s))
  <2>1. files' = files
    BY <1>4 DEF Next, vars, durable, BeginTurn, Plan, Prepare, PrepareOverQuota, PrepareFails,
       WriteCheck, WriteFails, ObserveWrite, Commit, CommitFails, SealTurn, Crash, Start,
       RecoverRead, RecoverRow, RecoverSeal, RecoverFails, Recovered, Undo, PreflightRead,
       UndoMarks, UndoRefused, RestoreRead, RestoreReached, RestoreRefused, PrepareInverse,
       InverseCheck, InverseObserve, InverseCommit, UndoFails, DeleteRestored, UndoDone
  <2> QED  BY <2>1
<1> QED  BY <1>1, <1>2, <1>3, <1>4

(* golem replaces only bytes that its record names, unless the user        *)
(* changed the file after the precondition check.                          *)
THEOREM EditsRespected == Spec => UserEditsRespected
<1>1. Structure /\ HistoryGood /\ [Next]_vars =>
        [\A p \in Paths :
           files'[p] # files[p] /\ edits' = edits /\ p \notin late =>
             LET r == rows[cur]
             IN  files[p] = IF pc = "checked" THEN r.prior ELSE r.after]_vars
  BY FileStep
<1> QED  BY <1>1, StructureAlways, HistoryAlways, PTL DEF Spec, UserEditsRespected
-----------------------------------------------------------------------------
(* An interrupted undo.  A file state that row m accepts.                  *)
Passes(m, s) == s = rows[m].prior \/ MatchesAfter(s, m)

LEMMA PendingPath ==
  ASSUME Structure, NEW C \in SUBSET Checkpoints, NEW m \in Pending(C)
  PROVE  rows[m].path \in Paths
<1>1. m \in Mutations /\ rows[m].cp \in C /\ RowGood(m)
  BY DEF Pending, Structure, Store
<1>2. rows[m].cp # 0
  BY <1>1, Numbers
<1> QED  BY <1>1, <1>2 DEF RowGood

LEMMA PreflightIs ==
  ASSUME Structure, NEW C, C = InState("undoing"), Preflight(C)
  PROVE  \A m \in Pending(C) : Passes(m, Simulated(m, C))
<1> SUFFICES ASSUME NEW m \in Pending(C) PROVE Passes(m, Simulated(m, C))
  OBVIOUS
<1>1. rows[m].path \in Paths
  BY PendingPath DEF InState
<1> QED  BY <1>1 DEF Preflight, PreflightAt, AlreadyTarget, Passes, Target

LEMMA ResumeIf ==
  ASSUME NEW C, C = InState("undoing")',
         touched' = {} =>
           \A m \in Pending(C)' : \A s : s = Simulated(m, C)' => Passes(m, s)'
  PROVE  ResumeAlwaysPossible'
BY DEF ResumeAlwaysPossible, Preflight, PreflightAt, AlreadyTarget, Passes, Target, Pending,
       InState

(* The rows above m that an undo of the checkpoints C restores before it.  *)
Newer(m, C) == {n \in Pending(C) : n > m /\ rows[n].path = rows[m].path}

LEMMA SimulatedIs ==
  ASSUME NEW C, NEW m
  PROVE  Simulated(m, C) = IF Newer(m, C) = {} THEN files[rows[m].path]
                           ELSE rows[Min(Newer(m, C))].prior
BY DEF Simulated, Newer, Target

LEMMA SimulatedNext ==
  ASSUME NEW C, NEW m
  PROVE  Simulated(m, C)' = IF Newer(m, C)' = {} THEN files'[rows'[m].path]
                            ELSE rows'[Min(Newer(m, C)')].prior
BY DEF Simulated, Newer, Target

(* Steps that leave the checkpoints being undone and their rows alone.     *)
SameRow(m) == /\ SameMutation(rows'[m], rows[m])
              /\ rows'[m].applied = rows[m].applied
              /\ rows'[m].restored = rows[m].restored

UndoKept ==
  /\ \A c \in Checkpoints : cps'[c] = "undoing" <=> cps[c] = "undoing"
  /\ \A m \in Mutations :
       rows[m].cp \in InState("undoing") \/ rows'[m].cp \in InState("undoing") => SameRow(m)

LEMMA KeptSets ==
  ASSUME UndoKept
  PROVE  /\ InState("undoing")' = InState("undoing")
         /\ \A C \in SUBSET InState("undoing") : Pending(C)' = Pending(C)
         /\ \A c \in InState("undoing") : \A p : RestoredRows(c, p)' = RestoredRows(c, p)
<1>1. InState("undoing")' = InState("undoing")
  BY DEF UndoKept, InState
<1>2. ASSUME NEW C \in SUBSET InState("undoing"), NEW m \in Mutations
      PROVE  /\ rows'[m].cp \in C <=> rows[m].cp \in C
             /\ rows[m].cp \in C => SameRow(m)
  BY DEF UndoKept, SameRow, SameMutation
<1>3. ASSUME NEW C \in SUBSET InState("undoing") PROVE Pending(C)' = Pending(C)
  BY <1>2 DEF Pending, SameRow
<1>4. ASSUME NEW c \in InState("undoing"), NEW p
      PROVE  RestoredRows(c, p)' = RestoredRows(c, p)
  <2>1. {c} \in SUBSET InState("undoing")
    OBVIOUS
  <2>2. ASSUME NEW m \in Mutations
        PROVE  /\ rows'[m].cp = c <=> rows[m].cp = c
               /\ rows[m].cp = c => SameRow(m)
    BY <1>2, <2>1
  <2> QED  BY <2>2 DEF RestoredRows, RowsOf, SameRow, SameMutation
<1> QED  BY <1>1, <1>3, <1>4

LEMMA KeptRow ==
  ASSUME UndoKept, NEW C \in SUBSET InState("undoing"), NEW m \in Mutations, rows[m].cp \in C
  PROVE  SameRow(m)
BY DEF UndoKept

LEMMA KeptSimulated ==
  ASSUME UndoKept, NEW C, C = InState("undoing"), NEW m \in Pending(C)
  PROVE  Newer(m, C)' = Newer(m, C)
<1>1. Pending(C)' = Pending(C) /\ C \in SUBSET InState("undoing")
  BY KeptSets
<1>2. ASSUME NEW n \in Pending(C) PROVE rows'[n].path = rows[n].path
  <2>1. n \in Mutations /\ rows[n].cp \in C
    BY DEF Pending
  <2> QED  BY <1>1, <2>1, KeptRow DEF SameRow, SameMutation
<1> QED  BY <1>1, <1>2 DEF Newer

LEMMA KeptResume ==
  ASSUME Structure, UndoKept, UNCHANGED <<files, touched>>, ResumeAlwaysPossible,
         NEW C, C = InState("undoing")
  PROVE  ResumeAlwaysPossible'
<1>1. InState("undoing")' = C /\ Pending(C)' = Pending(C) /\ C \in SUBSET InState("undoing")
  BY KeptSets
<1>2. ASSUME touched' = {}, NEW m \in Pending(C)', NEW s, s = Simulated(m, C)'
      PROVE  Passes(m, s)'
  <2>1. m \in Pending(C) /\ m \in Mutations /\ rows[m].cp \in C
    BY <1>1, <1>2 DEF Pending
  <2>2. Passes(m, Simulated(m, C))
    <3>1. Preflight(C)
      BY <1>2, <2>1 DEF ResumeAlwaysPossible
    <3> QED  BY <2>1, <3>1, PreflightIs
  <2>3. SameRow(m)
    BY <1>1, <2>1, KeptRow
  <2>4. s = Simulated(m, C)
    <3>1. Newer(m, C)' = Newer(m, C) /\ files' = files /\ rows'[m].path = rows[m].path
      BY <2>1, <2>3, KeptSimulated DEF SameRow, SameMutation
    <3>2. CASE Newer(m, C) = {}
      BY <1>2, <3>1, <3>2, SimulatedIs, SimulatedNext
    <3>3. CASE Newer(m, C) # {}
      <4> DEFINE n == Min(Newer(m, C))
      <4>1. n \in Newer(m, C)
        <5>1. Newer(m, C) \in SUBSET Mutations
          BY DEF Newer, Pending
        <5> QED  BY <3>3, <5>1, RowExtrema
      <4>2. n \in Mutations /\ rows[n].cp \in C
        BY <4>1 DEF Newer, Pending
      <4>3. rows'[n].prior = rows[n].prior
        BY <1>1, <4>2, KeptRow DEF SameRow, SameMutation
      <4> QED  BY <1>2, <3>1, <3>3, <4>3, SimulatedIs, SimulatedNext
    <3> QED  BY <3>2, <3>3
  <2> QED  BY <2>2, <2>3, <2>4 DEF Passes, MatchesAfter, SameRow, SameMutation
<1> QED  BY <1>1, <1>2, ResumeIf

(* What a preflight has read.                                              *)
LEMMA SamePreflight ==
  ASSUME NEW C, NEW p, PreflightAt(C, p), UNCHANGED <<rows, cps>>, files'[p] = files[p]
  PROVE  PreflightAt(C, p)'
<1>1. Pending(C)' = Pending(C)
  BY DEF Pending
<1>2. ASSUME NEW m \in Pending(C), rows[m].path = p
      PROVE  Simulated(m, C)' = Simulated(m, C)
  <2>1. Newer(m, C)' = Newer(m, C)
    BY <1>1 DEF Newer
  <2> QED  BY <1>2, <2>1, SimulatedIs, SimulatedNext
<1> QED  BY <1>1, <1>2 DEF PreflightAt, AlreadyTarget, MatchesAfter, Target

LEMMA ReadsInit == Init => ReadsGood
BY DEF Init, ReadsGood, ReachedGood, SeenGood

LEMMA ReadsNext ==
  ASSUME Structure, ReadsGood, [Next]_vars
  PROVE  ReadsGood'
<1>0. ReachedGood /\ SeenGood
  BY DEF ReadsGood
<1>1. CASE UNCHANGED vars
  <2>1. UNCHANGED <<files, cps, rows, pc, cur, batch, seen, touched>>
    BY <1>1 DEF vars, durable, history
  <2>2. ReachedGood'
    BY <1>0, <2>1 DEF ReachedGood
  <2>3. \A C, p : PreflightAt(C, p) => PreflightAt(C, p)'
    BY <2>1, SamePreflight
  <2>4. SeenGood'
    BY <1>0, <2>1, <2>3 DEF SeenGood, InState
  <2> QED  BY <2>2, <2>4 DEF ReadsGood
<1>2. CASE \E p \in Paths, s \in FileStates : Edit(p, s)
  <2>1. PICK p \in Paths, s \in FileStates : Edit(p, s)
    BY <1>2
  <2>2. /\ files' = [files EXCEPT ![p] = s] /\ touched' = touched \cup {p}
        /\ UNCHANGED <<cps, rows, pc, cur, batch, seen>>
    BY <2>1 DEF Edit
  <2>3. \A q \in Paths : q \notin touched' => files'[q] = files[q]
    BY <2>2 DEF Structure, Process
  <2>4. pc \in {"reached", "inverseSeen"} => rows[cur].path \in Paths
    BY UndoRow, NewestPending DEF Structure, Inverting
  <2>5. ReachedGood'
    BY <1>0, <2>2, <2>3, <2>4 DEF ReachedGood
  <2>6. \A C : \A q \in Paths : q \notin touched' /\ PreflightAt(C, q) => PreflightAt(C, q)'
    BY <2>2, <2>3, SamePreflight
  <2>7. SeenGood'
    BY <1>0, <2>2, <2>6 DEF SeenGood, InState
  <2> QED  BY <2>5, <2>7 DEF ReadsGood
<1>3. CASE \E n \in 1..2 : Undo(n)
  BY <1>0, <1>3 DEF Undo, ReadsGood, ReachedGood, SeenGood
<1>4. CASE \E p \in Paths : PreflightRead(p)
  <2>1. PICK p \in Paths : PreflightRead(p)
    BY <1>4
  <2>2. /\ pc = "preflight" /\ PreflightAt(batch, p) /\ seen' = seen \cup {p}
        /\ UNCHANGED <<files, cps, rows, pc, batch, touched>>
    BY <2>1 DEF PreflightRead, durable, history
  <2>3. \A C, q : PreflightAt(C, q) => PreflightAt(C, q)'
    BY <2>2, SamePreflight
  <2> QED  BY <1>0, <2>2, <2>3 DEF ReadsGood, ReachedGood, SeenGood, InState
<1>5. CASE RestoreRead \/ InverseObserve
  <2>1. /\ pc # "preflight" /\ pc' # "preflight" /\ seen' = seen
        /\ pc' \in {"reached", "inverseSeen"} => files'[rows'[cur'].path] = rows'[cur'].prior
    BY <1>5 DEF RestoreRead, Restoring, InverseObserve, Target, durable
  <2> QED  BY <1>0, <2>1 DEF ReadsGood, ReachedGood, SeenGood
<1>6. CASE UndoMarks \/ UndoRefused \/ Crash
  BY <1>6 DEF UndoMarks, UndoRefused, Crash, ReadsGood, ReachedGood, SeenGood
<1>7. CASE \/ BeginTurn \/ (\E p \in Paths, c \in Contents : Plan(p, c))
           \/ Prepare \/ PrepareOverQuota \/ PrepareFails
           \/ WriteCheck \/ WriteInstall \/ WriteFails
           \/ ObserveWrite \/ Commit \/ CommitFails \/ SealTurn
           \/ Start \/ RecoverRead \/ RecoverRow \/ RecoverSeal \/ RecoverFails \/ Recovered
  <2>1. pc # "preflight" /\ pc' \notin {"preflight", "reached", "inverseSeen"} /\ seen' = seen
    BY <1>7 DEF BeginTurn, Plan, Prepare, PrepareOverQuota, PrepareFails, WriteCheck,
         WriteInstall, WriteFails, ObserveWrite, Commit, CommitFails, SealTurn, Start,
         RecoverRead, RecoverRow, RecoverSeal, RecoverFails, Recovered
  <2> QED  BY <1>0, <2>1 DEF ReadsGood, ReachedGood, SeenGood
<1>8. CASE \/ RestoreRefused \/ RestoreReached \/ PrepareInverse \/ InverseCheck
           \/ InverseInstall \/ InverseCommit \/ UndoFails \/ DeleteRestored \/ UndoDone
  <2>1. pc # "preflight" /\ pc' \notin {"preflight", "reached", "inverseSeen"} /\ seen' = seen
    BY <1>8 DEF RestoreRefused, Restoring, RestoreReached, PrepareInverse, InverseCheck,
         InverseInstall, InverseCommit, UndoFails, DeleteRestored, UndoDone
  <2> QED  BY <1>0, <2>1 DEF ReadsGood, ReachedGood, SeenGood
<1> QED  BY <1>1, <1>2, <1>3, <1>4, <1>5, <1>6, <1>7, <1>8 DEF Next

LEMMA ReadsAlways == Spec => []ReadsGood
<1>1. Structure /\ ReadsGood /\ [Next]_vars => ReadsGood'
  BY ReadsNext
<1> QED  BY <1>1, ReadsInit, StructureAlways, PTL DEF Spec

(* The marks of an undo: every file of it has passed the preflight.        *)
LEMMA MarkResume ==
  ASSUME Structure, ReadsGood, ResumeAlwaysPossible, pc = "preflight", MarkUndoing,
         UNCHANGED <<rows, files, touched, nextRow, nextCp>>, NEW C, C = batch
  PROVE  ResumeAlwaysPossible'
<1>1. InState("undoing")' = C /\ C \in SUBSET Checkpoints
      /\ (InState("undoing") # {} => cps' = cps)
  BY Marked
<1>2. CASE InState("undoing") # {}
  <2>1. UndoKept
    BY <1>1, <1>2 DEF UndoKept, SameRow, SameMutation
  <2> QED  BY <2>1, KeptResume
<1>3. CASE InState("undoing") = {}
  <2>1. Pending(C)' = Pending(C)
    BY DEF Pending
  <2>2. ASSUME NEW m \in Pending(C) PROVE Simulated(m, C)' = Simulated(m, C)
    <3>1. Newer(m, C)' = Newer(m, C)
      BY <2>1 DEF Newer
    <3> QED  BY <3>1, SimulatedIs, SimulatedNext
  <2>3. ASSUME touched' = {}, NEW m \in Pending(C) PROVE Passes(m, Simulated(m, C))
    <3>1. rows[m].path \in Paths /\ rows[m].path \in seen
      BY <1>1, PendingPath DEF MarkUndoing
    <3>2. PreflightAt(C, rows[m].path)
      BY <1>3, <2>3, <3>1 DEF ReadsGood, SeenGood
    <3> QED  BY <3>2 DEF PreflightAt, AlreadyTarget, Passes, Target
  <2>4. ASSUME touched' = {}, NEW m \in Pending(C)', NEW s, s = Simulated(m, C)'
        PROVE  Passes(m, s)'
    <3>1. Passes(m, s)
      BY <2>1, <2>2, <2>3, <2>4
    <3> QED  BY <3>1 DEF Passes, MatchesAfter
  <2> QED  BY <1>1, <2>4, ResumeIf
<1> QED  BY <1>2, <1>3

(* The progress of an undo: the row below meets in the file what the       *)
(* simulation promised it.                                                 *)
LEMMA ProgressResume ==
  ASSUME Structure, RestoreReached \/ InverseCommit, ReadsGood, ResumeAlwaysPossible,
         NEW C, C = InState("undoing")
  PROVE  ResumeAlwaysPossible'
<1> DEFINE m == RowToRestore
<1>1. /\ C = batch /\ m \in Mutations /\ m \in Nat
      /\ \A n \in Pending(C) : n <= m
  BY UndoRow, NewestPending, Numbers DEF Structure, RestoreReached, InverseCommit, Inverting
<1>2. /\ touched = {} => files[rows[m].path] = rows[m].prior
      /\ SameMutation(rows'[m], rows[m])
      /\ rows'[m].restored /\ \A n \in Mutations \ {m} : rows'[n] = rows[n]
  BY ProgressRow DEF ReadsGood, ReachedGood, RestoreReached, InverseCommit
<1>3. UNCHANGED <<files, cps, touched>>
  BY DEF RestoreReached, InverseCommit, history
<1> HIDE DEF m
<1>4. InState("undoing")' = C /\ Pending(C)' = Pending(C) \ {m}
  <2>1. InState("undoing")' = C
    BY <1>3 DEF InState
  <2> QED  BY <1>1, <1>2, <2>1 DEF Pending
<1>5. ASSUME touched' = {}, NEW k \in Pending(C)', NEW s, s = Simulated(k, C)'
      PROVE  Passes(k, s)'
  <2>1. /\ k \in Pending(C) /\ k # m /\ k \in Mutations /\ rows'[k] = rows[k]
    BY <1>2, <1>4, <1>5 DEF Pending
  <2>2. Passes(k, Simulated(k, C))
    <3>1. Preflight(C)
      BY <1>3, <1>5, <2>1 DEF ResumeAlwaysPossible, Pending
    <3> QED  BY <2>1, <3>1, PreflightIs
  <2>3. Newer(k, C)' = Newer(k, C) \ {m}
    <3>1. ASSUME NEW n \in Pending(C), n # m PROVE rows'[n] = rows[n]
      BY <1>2, <3>1 DEF Pending
    <3> QED  BY <1>4, <2>1, <3>1 DEF Newer
  <2>4. Newer(k, C) \in SUBSET Mutations /\ Newer(k, C)' \in SUBSET Mutations
    BY <2>3 DEF Newer, Pending
  <2>5. s = Simulated(k, C)
    <3>1. CASE Newer(k, C) = {}
      BY <1>3, <1>5, <2>1, <2>3, <3>1, SimulatedIs, SimulatedNext
    <3>2. CASE Newer(k, C) = {m}
      <4>1. Min({m}) = m
        <5>1. {m} \in SUBSET Mutations
          BY <1>1
        <5> QED  BY <5>1, RowExtrema
      <4>2. Simulated(k, C) = rows[m].prior
        BY <3>2, <4>1, SimulatedIs
      <4>3. rows[k].path = rows[m].path /\ Newer(k, C)' = {}
        BY <2>3, <3>2 DEF Newer
      <4> QED  BY <1>2, <1>3, <1>5, <2>1, <4>2, <4>3, SimulatedNext
    <3>3. CASE \E n \in Newer(k, C) : n # m
      <4> DEFINE a == Min(Newer(k, C))
                 b == Min(Newer(k, C)')
      <4>1. a \in Newer(k, C) /\ \A n \in Newer(k, C) : a <= n
        BY <2>4, <3>3, RowExtrema
      <4>2. b \in Newer(k, C)' /\ \A n \in Newer(k, C)' : b <= n
        BY <2>3, <2>4, <3>3, RowExtrema
      <4> HIDE DEF a, b
      <4>3. PICK n \in Newer(k, C) : n # m
        BY <3>3
      <4>4. a \in Nat /\ b \in Nat /\ n \in Nat
        BY <2>4, <4>1, <4>2, Numbers
      <4>5. a # m
        <5>1. n <= m /\ a <= n
          BY <1>1, <4>1 DEF Newer
        <5> QED  BY <1>1, <4>3, <4>4, <5>1
      <4>6. a = b
        <5>1. a \in Newer(k, C)' /\ b \in Newer(k, C)
          BY <2>3, <4>1, <4>2, <4>5
        <5> QED  BY <4>1, <4>2, <4>4, <5>1
      <4>7. rows'[a] = rows[a]
        BY <1>2, <2>4, <4>1, <4>5
      <4>8. Simulated(k, C) = rows[a].prior /\ Simulated(k, C)' = rows'[b].prior
        BY <4>1, <4>2, SimulatedIs, SimulatedNext DEF a, b
      <4> QED  BY <1>5, <4>6, <4>7, <4>8
    <3> QED  BY <3>1, <3>2, <3>3
  <2> QED  BY <2>1, <2>2, <2>5 DEF Passes, MatchesAfter
<1> QED  BY <1>4, <1>5, ResumeIf

(* The conditional write of an undo: its row finds the file restored.      *)
LEMMA InstallResume ==
  ASSUME Structure, InverseInstall, ResumeAlwaysPossible, NEW C, C = InState("undoing")
  PROVE  ResumeAlwaysPossible'
<1> DEFINE m == RowToRestore
<1>1. /\ C = batch /\ m \in Mutations /\ m \in Nat /\ m \in Pending(C)
      /\ cur = m /\ rows[m].path \in Paths
      /\ \A n \in Pending(C) : n <= m
  BY UndoRow, NewestPending, Numbers DEF Structure, InverseInstall, Inverting, Pending, InState
<1> HIDE DEF m
<1>2. /\ files' = [files EXCEPT ![rows[m].path] = rows[m].prior]
      /\ UNCHANGED <<cps, rows, touched>>
  BY <1>1 DEF InverseInstall, Target
<1>3. InState("undoing")' = C /\ Pending(C)' = Pending(C)
  BY <1>2 DEF InState, Pending
<1>4. files'[rows[m].path] = rows[m].prior
  BY <1>1, <1>2 DEF Structure, Process
<1>5. ASSUME touched' = {}, NEW k \in Pending(C)', NEW s, s = Simulated(k, C)'
      PROVE  Passes(k, s)'
  <2>1. k \in Pending(C) /\ k \in Mutations /\ k \in Nat
    BY <1>3, <1>5, Numbers DEF Pending
  <2>2. Passes(k, Simulated(k, C))
    <3>1. Preflight(C)
      BY <1>2, <1>5, <2>1 DEF ResumeAlwaysPossible, Pending
    <3> QED  BY <2>1, <3>1, PreflightIs
  <2>3. Newer(k, C)' = Newer(k, C)
    BY <1>2, <1>3 DEF Newer
  <2>4. CASE Newer(k, C) # {}
    <3>1. s = Simulated(k, C)
      BY <1>2, <1>5, <2>3, <2>4, SimulatedIs, SimulatedNext
    <3> QED  BY <1>2, <2>2, <3>1 DEF Passes, MatchesAfter
  <2>5. CASE Newer(k, C) = {} /\ rows[k].path = rows[m].path
    <3>1. k = m
      <4>1. ~(m > k)
        BY <1>1, <2>5 DEF Newer
      <4> QED  BY <1>1, <2>1, <4>1
    <3>2. s = rows[m].prior
      BY <1>2, <1>4, <1>5, <2>3, <2>5, SimulatedNext
    <3> QED  BY <1>2, <3>1, <3>2 DEF Passes
  <2>6. CASE Newer(k, C) = {} /\ rows[k].path # rows[m].path
    <3>1. rows[k].path \in Paths
      <4>1. rows[k].cp \in C /\ RowGood(k)
        BY <2>1 DEF Pending, Structure, Store
      <4>2. rows[k].cp # 0
        BY <4>1, Numbers DEF InState
      <4> QED  BY <4>1, <4>2 DEF RowGood
    <3>2. files'[rows[k].path] = files[rows[k].path]
      BY <1>2, <2>6, <3>1 DEF Structure, Process
    <3>3. s = Simulated(k, C)
      BY <1>2, <1>5, <2>3, <2>6, <3>2, SimulatedIs, SimulatedNext
    <3> QED  BY <1>2, <2>2, <3>3 DEF Passes, MatchesAfter
  <2> QED  BY <2>4, <2>5, <2>6
<1> QED  BY <1>3, <1>5, ResumeIf

(* What the deletion of an undone checkpoint finds and leaves.             *)
LEMMA DeletedGroup ==
  ASSUME Structure, DeleteRestored, NEW g, g = Group
  PROVE  /\ batch = InState("undoing") /\ g \in Checkpoints /\ cps[g] = "undoing"
         /\ \A c \in InState("undoing") : c <= g
         /\ Pending({g}) = {}
         /\ \A c \in Checkpoints : cps'[c] = IF c = g THEN "none" ELSE cps[c]
         /\ \A m \in Mutations : rows'[m] = IF rows[m].cp = g THEN NoRow ELSE rows[m]
         /\ UNCHANGED <<files, touched>>
<1>1. /\ batch = InState("undoing") /\ batch # {} /\ Pending({g}) = {}
      /\ cps' = Gone(cps, {g}) /\ rows' = Without(rows, {g})
      /\ UNCHANGED <<files, touched, nextRow, nextCp>>
  BY DEF DeleteRestored, Deletable, bounds, history, Structure, UndoGood
<1>2. batch \in SUBSET Checkpoints
  BY <1>1 DEF InState
<1>3. g \in batch /\ \A c \in batch : g >= c
  BY <1>1, <1>2, CheckpointMaximum DEF Group
<1>4. \A c \in InState("undoing") : c <= g
  BY <1>1, <1>2, <1>3, Numbers
<1>5. /\ \A c \in Checkpoints : cps'[c] = IF c = g THEN "none" ELSE cps[c]
      /\ \A m \in Mutations : rows'[m] = IF rows[m].cp = g THEN NoRow ELSE rows[m]
  BY <1>1, DeleteStore DEF Structure
<1>6. g \in Checkpoints /\ cps[g] = "undoing"
  BY <1>1, <1>3 DEF InState
<1> QED  BY <1>1, <1>4, <1>5, <1>6

LEMMA DeleteResume ==
  ASSUME Structure, DeleteRestored, ResumeAlwaysPossible,
         NEW C, C = InState("undoing"), NEW D, D = InState("undoing")', NEW g, g = Group
  PROVE  ResumeAlwaysPossible'
<1>1. /\ g \in Checkpoints /\ cps[g] = "undoing" /\ Pending({g}) = {}
      /\ \A c \in Checkpoints : cps'[c] = IF c = g THEN "none" ELSE cps[c]
      /\ \A m \in Mutations : rows'[m] = IF rows[m].cp = g THEN NoRow ELSE rows[m]
      /\ UNCHANGED <<files, touched>>
  BY DeletedGroup
<1>2. D = C \ {g} /\ g # 0 /\ 0 \notin C
  BY <1>1, Numbers DEF InState
<1>3. Pending(D)' = Pending(C) /\ \A m \in Pending(C) : rows'[m] = rows[m]
  <2>1. ASSUME NEW m \in Mutations PROVE m \in Pending(D)' <=> m \in Pending(C)
    <3>1. CASE rows[m].cp = g
      <4>1. rows'[m].cp = 0 /\ m \notin Pending({g})
        BY <1>1, <3>1, NoRowIs
      <4> QED  BY <1>2, <3>1, <4>1 DEF Pending
    <3>2. CASE rows[m].cp # g
      BY <1>1, <1>2, <3>2 DEF Pending
    <3> QED  BY <3>1, <3>2
  <2>2. ASSUME NEW m \in Pending(C) PROVE rows'[m] = rows[m]
    <3>1. m \in Mutations /\ m \notin Pending({g})
      BY <1>1 DEF Pending
    <3>2. rows[m].cp # g
      BY <3>1 DEF Pending
    <3> QED  BY <1>1, <3>1, <3>2
  <2>3. Pending(D)' \subseteq Mutations /\ Pending(C) \subseteq Mutations
    BY DEF Pending
  <2> QED  BY <2>1, <2>2, <2>3
<1>4. ASSUME touched' = {}, NEW m \in Pending(D)', NEW s, s = Simulated(m, D)'
      PROVE  Passes(m, s)'
  <2>1. m \in Pending(C) /\ rows'[m] = rows[m]
    BY <1>3, <1>4
  <2>2. Passes(m, Simulated(m, C))
    <3>1. Preflight(C)
      BY <1>1, <1>4, <2>1 DEF ResumeAlwaysPossible, Pending
    <3> QED  BY <2>1, <3>1, PreflightIs
  <2>3. Newer(m, D)' = Newer(m, C)
    BY <1>3, <2>1 DEF Newer
  <2>4. s = Simulated(m, C)
    <3>1. CASE Newer(m, C) = {}
      BY <1>1, <1>4, <2>1, <2>3, <3>1, SimulatedIs, SimulatedNext
    <3>2. CASE Newer(m, C) # {}
      <4> DEFINE n == Min(Newer(m, C))
      <4>1. n \in Newer(m, C)
        <5>1. Newer(m, C) \in SUBSET Mutations
          BY DEF Newer, Pending
        <5> QED  BY <3>2, <5>1, RowExtrema
      <4>2. rows'[n] = rows[n]
        BY <1>3, <4>1 DEF Newer
      <4> QED  BY <1>4, <2>3, <3>2, <4>2, SimulatedIs, SimulatedNext
    <3> QED  BY <3>1, <3>2
  <2> QED  BY <2>1, <2>2, <2>4 DEF Passes, MatchesAfter
<1> QED  BY <1>4, ResumeIf

(* What an undo has restored stays where it left it.                       *)
LEMMA KeptExact ==
  ASSUME UndoKept, ExactGood, touched \subseteq touched',
         \A p \in Paths : p \notin touched' => files'[p] = files[p]
  PROVE  ExactGood'
<1>1. /\ InState("undoing")' = InState("undoing")
      /\ \A c \in InState("undoing") : Pending({c})' = Pending({c})
      /\ \A c \in InState("undoing") : \A p : RestoredRows(c, p)' = RestoredRows(c, p)
  <2>1. \A c \in InState("undoing") : {c} \in SUBSET InState("undoing")
    OBVIOUS
  <2>2. \A C \in SUBSET InState("undoing") : Pending(C)' = Pending(C)
    BY KeptSets
  <2>3. ASSUME NEW c \in InState("undoing") PROVE Pending({c})' = Pending({c})
    BY <2>1, <2>2
  <2> QED  BY <2>3, KeptSets
<1>2. ASSUME NEW c \in InState("undoing"), NEW p \in Paths, RestoredRows(c, p)' # {}
      PROVE  /\ \A d \in InState("undoing")' : d <= c
             /\ \A m \in RestoredRows(c, p)', n \in Pending({c})' : n < m
             /\ p \notin touched' => LeftAt(c, p)'
  <2>1. /\ RestoredRows(c, p)' = RestoredRows(c, p) /\ Pending({c})' = Pending({c})
        /\ RestoredRows(c, p) # {}
    BY <1>1, <1>2
  <2>2. /\ \A d \in InState("undoing") : d <= c
        /\ \A m \in RestoredRows(c, p), n \in Pending({c}) : n < m
        /\ p \notin touched => LeftAt(c, p)
    BY <2>1 DEF ExactGood, ExactAt
  <2>3. \A m \in Mutations : rows[m].cp = c => SameRow(m)
    BY DEF UndoKept
  <2>4. ASSUME p \notin touched' PROVE LeftAt(c, p)'
    <3>1. files'[p] = files[p] /\ LeftAt(c, p)
      BY <2>2, <2>4
    <3>2. CASE \E m \in RestoredRows(c, p) :
                 /\ \A n \in RestoredRows(c, p) : m <= n
                 /\ files[p] = rows[m].prior
      <4>1. PICK m \in RestoredRows(c, p) :
                 /\ \A n \in RestoredRows(c, p) : m <= n
                 /\ files[p] = rows[m].prior
        BY <3>2
      <4>2. rows'[m].prior = rows[m].prior
        BY <2>3, <4>1 DEF RestoredRows, RowsOf, SameRow, SameMutation
      <4> QED  BY <2>1, <3>1, <4>1, <4>2 DEF LeftAt
    <3>3. CASE \E m \in Pending({c}) :
                 /\ rows[m].path = p /\ \A n \in Pending({c}) : rows[n].path = p => n <= m
                 /\ files[p] = rows[m].prior
      <4>1. PICK m \in Pending({c}) :
                 /\ rows[m].path = p /\ \A n \in Pending({c}) : rows[n].path = p => n <= m
                 /\ files[p] = rows[m].prior
        BY <3>3
      <4>2. \A n \in Pending({c}) : SameRow(n)
        BY <2>3 DEF Pending
      <4>3. /\ rows'[m].prior = rows[m].prior
            /\ \A n \in Pending({c}) : rows'[n].path = rows[n].path
        BY <4>2 DEF SameRow, SameMutation
      <4> QED  BY <2>1, <3>1, <4>1, <4>3 DEF LeftAt
    <3> QED  BY <3>1, <3>2, <3>3 DEF LeftAt
  <2> QED  BY <1>1, <2>1, <2>2, <2>4
<1> QED  BY <1>1, <1>2 DEF ExactGood, ExactAt

LEMMA MarkExact ==
  ASSUME Structure, ExactGood, pc = "preflight", MarkUndoing,
         UNCHANGED <<rows, files, touched, nextRow, nextCp>>
  PROVE  ExactGood'
<1>1. /\ InState("undoing")' = batch /\ batch \subseteq Checkpoints
      /\ InState("undoing") # {} => cps' = cps
  BY Marked
<1>2. CASE InState("undoing") # {}
  <2>1. UndoKept
    BY <1>1, <1>2 DEF UndoKept, SameRow, SameMutation
  <2> QED  BY <2>1, KeptExact
<1>3. CASE InState("undoing") = {}
  <2>1. ASSUME NEW c \in batch, NEW p PROVE RestoredRows(c, p)' = {}
    <3>1. c \in Checkpoints /\ c # 0 /\ cps[c] # "undoing"
      BY <1>1, <1>3, Numbers DEF InState
    <3>2. ASSUME NEW m \in Mutations, rows[m].cp = c PROVE ~rows[m].restored
      BY <3>1, <3>2 DEF Structure, Store, RowGood
    <3> QED  BY <3>2 DEF RestoredRows, RowsOf
  <2> QED  BY <1>1, <2>1 DEF ExactGood, ExactAt
<1> QED  BY <1>2, <1>3

LEMMA ProgressExact ==
  ASSUME Structure, RestoreReached \/ InverseCommit, ReadsGood, ExactGood,
         NEW C, C = InState("undoing"), NEW g, g = Group, NEW m, m = RowToRestore
  PROVE  ExactGood'
<1>1. /\ C = batch /\ g \in C /\ g \in Nat /\ C \subseteq Nat
      /\ \A c \in C : c <= g
      /\ m \in Mutations /\ m \in Nat /\ m \in Pending({g}) /\ rows[m].cp = g
      /\ \A n \in Pending({g}) : n <= m
  <2>1. /\ C = batch /\ g \in Checkpoints /\ cps[g] = "undoing"
        /\ \A c \in C : c <= g
        /\ m \in Mutations /\ m \in Pending({g}) /\ rows[m].cp = g
        /\ \A n \in Pending(batch) : n <= m
    BY UndoRow, NewestPending DEF Structure, RestoreReached, InverseCommit, Inverting
  <2>2. g \in C /\ C \subseteq Checkpoints
    BY <2>1 DEF InState
  <2>3. \A n \in Pending({g}) : n \in Pending(batch)
    BY <2>1, <2>2 DEF Pending
  <2> QED  BY <2>1, <2>2, <2>3, Numbers
<1>2. /\ rows[m].path \notin touched => files[rows[m].path] = rows[m].prior
      /\ SameMutation(rows'[m], rows[m])
      /\ rows'[m].restored /\ \A n \in Mutations \ {m} : rows'[n] = rows[n]
  BY ProgressRow DEF ReadsGood, ReachedGood, RestoreReached, InverseCommit
<1>3. UNCHANGED <<files, cps, touched>> /\ InState("undoing")' = C
  BY DEF RestoreReached, InverseCommit, history, InState
<1>4. Pending({g})' = Pending({g}) \ {m}
  BY <1>1, <1>2 DEF Pending
<1>5. /\ rows'[m].cp = g /\ rows'[m].path = rows[m].path /\ rows'[m].prior = rows[m].prior
      /\ ~rows[m].restored
  BY <1>1, <1>2 DEF SameMutation, Pending
<1>6. ASSUME NEW c, NEW p, c # g \/ p # rows[m].path
      PROVE  RestoredRows(c, p)' = RestoredRows(c, p)
  <2>1. ASSUME NEW n \in Mutations
        PROVE  n \in RestoredRows(c, p)' <=> n \in RestoredRows(c, p)
    <3>1. CASE n = m
      BY <1>1, <1>5, <1>6, <3>1 DEF RestoredRows, RowsOf
    <3>2. CASE n # m
      BY <1>2, <3>2 DEF RestoredRows, RowsOf
    <3> QED  BY <3>1, <3>2
  <2>2. RestoredRows(c, p)' \subseteq Mutations /\ RestoredRows(c, p) \subseteq Mutations
    BY DEF RestoredRows, RowsOf
  <2> QED  BY <2>1, <2>2
<1>7. ASSUME NEW p, p = rows[m].path
      PROVE  RestoredRows(g, p)' = RestoredRows(g, p) \cup {m}
  <2>1. ASSUME NEW n \in Mutations
        PROVE  n \in RestoredRows(g, p)' <=> n \in RestoredRows(g, p) \/ n = m
    <3>1. CASE n = m
      BY <1>1, <1>2, <1>5, <1>7, <3>1 DEF RestoredRows, RowsOf
    <3>2. CASE n # m
      BY <1>2, <3>2 DEF RestoredRows, RowsOf
    <3> QED  BY <3>1, <3>2
  <2>2. RestoredRows(g, p)' \subseteq Mutations /\ RestoredRows(g, p) \subseteq Mutations
    BY DEF RestoredRows, RowsOf
  <2> QED  BY <1>1, <2>1, <2>2
<1>8. ASSUME NEW c \in C, NEW p \in Paths, RestoredRows(c, p)' # {}
      PROVE  /\ \A d \in C : d <= c
             /\ \A a \in RestoredRows(c, p)', n \in Pending({c})' : n < a
             /\ p \notin touched' => LeftAt(c, p)'
  <2>1. RestoredRows(c, p) # {} =>
          /\ \A d \in C : d <= c
          /\ \A a \in RestoredRows(c, p), n \in Pending({c}) : n < a
          /\ p \notin touched => LeftAt(c, p)
    BY DEF ExactGood, ExactAt
  <2>2. c = g
    <3>1. SUFFICES ASSUME c # g PROVE FALSE
      OBVIOUS
    <3>2. \A d \in C : d <= c
      BY <1>6, <1>8, <2>1, <3>1
    <3> QED  BY <1>1, <3>1, <3>2
  <2>3. \A d \in C : d <= c
    BY <1>1, <2>2
  <2>4. ASSUME NEW a \in RestoredRows(g, p)', NEW n \in Pending({g})' PROVE n < a
    <3>1. n \in Pending({g}) /\ n # m /\ n \in Mutations
      BY <1>4 DEF Pending
    <3>2. CASE a \in RestoredRows(g, p)
      BY <2>1, <2>2, <3>1, <3>2
    <3>3. CASE a = m
      BY <1>1, <3>1, <3>3, Numbers
    <3> QED  BY <1>6, <1>7, <3>2, <3>3
  <2>5. ASSUME p \notin touched' PROVE LeftAt(g, p)'
    <3>1. CASE p = rows[m].path
      <4>1. m \in RestoredRows(g, p)'
        BY <1>7, <3>1
      <4>2. \A n \in RestoredRows(g, p)' : m <= n
        <5>1. ASSUME NEW n \in RestoredRows(g, p) PROVE m < n /\ n \in Nat
          BY <1>1, <2>1, <2>2, Numbers DEF RestoredRows, RowsOf
        <5> QED  BY <1>1, <1>7, <3>1, <5>1
      <4>3. files'[p] = rows'[m].prior
        BY <1>2, <1>3, <1>5, <2>5, <3>1
      <4> QED  BY <4>1, <4>2, <4>3 DEF LeftAt
    <3>2. CASE p # rows[m].path
      <4>1. RestoredRows(g, p)' = RestoredRows(g, p) /\ LeftAt(g, p)
        BY <1>3, <1>6, <1>8, <2>1, <2>2, <2>5, <3>2
      <4>2. \A n \in RestoredRows(g, p) \cup (Pending({g}) \ {m}) :
              n # m => rows'[n] = rows[n]
        BY <1>2 DEF RestoredRows, RowsOf, Pending
      <4>3. m \notin RestoredRows(g, p)
        BY <1>5 DEF RestoredRows
      <4>4. CASE \E a \in RestoredRows(g, p) :
                   /\ \A n \in RestoredRows(g, p) : a <= n
                   /\ files[p] = rows[a].prior
        BY <1>3, <4>1, <4>2, <4>3, <4>4 DEF LeftAt
      <4>5. CASE \E a \in Pending({g}) :
                   /\ rows[a].path = p /\ \A n \in Pending({g}) : rows[n].path = p => n <= a
                   /\ files[p] = rows[a].prior
        <5>1. PICK a \in Pending({g}) :
                   /\ rows[a].path = p /\ \A n \in Pending({g}) : rows[n].path = p => n <= a
                   /\ files[p] = rows[a].prior
          BY <4>5
        <5>2. a # m /\ a \in Pending({g})'
          BY <1>4, <3>2, <5>1
        <5>3. \A n \in Pending({g})' : n \in Pending({g}) /\ rows'[n] = rows[n]
          BY <1>4, <4>2
        <5> QED  BY <1>3, <5>1, <5>2, <5>3 DEF LeftAt
      <4> QED  BY <4>1, <4>4, <4>5 DEF LeftAt
    <3> QED  BY <3>1, <3>2
  <2> QED  BY <2>2, <2>3, <2>4, <2>5
<1> QED  BY <1>3, <1>8 DEF ExactGood, ExactAt

LEMMA InstallExact ==
  ASSUME Structure, InverseInstall, ExactGood,
         NEW C, C = InState("undoing"), NEW g, g = Group, NEW m, m = RowToRestore
  PROVE  ExactGood'
<1>1. /\ C = batch /\ cur = m /\ g \in C /\ C \subseteq Nat
      /\ \A c \in C : c <= g
      /\ m \in Pending({g}) /\ rows[m].path \in Paths
      /\ \A n \in Pending({g}) : n <= m
  <2>1. /\ C = batch /\ cur = m /\ g \in Checkpoints /\ cps[g] = "undoing"
        /\ \A c \in C : c <= g
        /\ m \in Pending({g}) /\ rows[m].path \in Paths
        /\ \A n \in Pending(batch) : n <= m
    BY UndoRow, NewestPending DEF Structure, InverseInstall, Inverting
  <2>2. g \in C /\ C \subseteq Checkpoints
    BY <2>1 DEF InState
  <2>3. \A n \in Pending({g}) : n \in Pending(batch)
    BY <2>1, <2>2 DEF Pending
  <2> QED  BY <2>1, <2>2, <2>3, Numbers
<1>2. /\ files' = [files EXCEPT ![rows[m].path] = rows[m].prior]
      /\ UNCHANGED <<cps, rows, touched>>
  BY <1>1 DEF InverseInstall, Target
<1>3. files'[rows[m].path] = rows[m].prior
      /\ \A p \in Paths : p # rows[m].path => files'[p] = files[p]
  BY <1>1, <1>2 DEF Structure, Process
<1>4. /\ InState("undoing")' = C
      /\ \A c, p : RestoredRows(c, p)' = RestoredRows(c, p)
      /\ \A c : Pending({c})' = Pending({c})
  BY <1>2 DEF InState, RestoredRows, RowsOf, Pending
<1>5. ASSUME NEW c \in C, NEW p \in Paths, RestoredRows(c, p) # {}
      PROVE  /\ \A d \in C : d <= c
             /\ \A a \in RestoredRows(c, p), n \in Pending({c}) : n < a
             /\ p \notin touched => LeftAt(c, p)'
  <2>1. /\ \A d \in C : d <= c
        /\ \A a \in RestoredRows(c, p), n \in Pending({c}) : n < a
        /\ p \notin touched => LeftAt(c, p)
    BY <1>5 DEF ExactGood, ExactAt
  <2>2. c = g
    BY <1>1, <2>1
  <2>3. CASE p = rows[m].path
    <3>1. /\ m \in Pending({g})' /\ rows'[m].path = p /\ files'[p] = rows'[m].prior
          /\ \A n \in Pending({g})' : n <= m
      BY <1>1, <1>2, <1>3, <1>4, <2>3
    <3> QED  BY <2>1, <2>2, <3>1 DEF LeftAt
  <2>4. CASE p # rows[m].path
    <3>1. files'[p] = files[p]
      BY <1>3, <2>4
    <3>2. /\ RestoredRows(c, p)' = RestoredRows(c, p) /\ Pending({c})' = Pending({c})
          /\ rows' = rows
      BY <1>2, <1>4
    <3>3. LeftAt(c, p) => LeftAt(c, p)'
      BY <3>1, <3>2 DEF LeftAt
    <3> QED  BY <2>1, <3>3
  <2> QED  BY <2>3, <2>4
<1> QED  BY <1>2, <1>4, <1>5 DEF ExactGood, ExactAt

LEMMA DeleteExact ==
  ASSUME Structure, DeleteRestored, ExactGood, NEW g, g = Group
  PROVE  ExactGood'
<1>1. /\ g \in Checkpoints /\ cps[g] = "undoing"
      /\ \A c \in InState("undoing") : c <= g
      /\ \A c \in Checkpoints : cps'[c] = IF c = g THEN "none" ELSE cps[c]
      /\ \A m \in Mutations : rows'[m] = IF rows[m].cp = g THEN NoRow ELSE rows[m]
  BY DeletedGroup
<1>2. ASSUME NEW c \in InState("undoing")', NEW p \in Paths
      PROVE  RestoredRows(c, p)' = {}
  <2>1. c \in InState("undoing") /\ c # g /\ c \in Nat /\ g \in Nat /\ c # 0 /\ c < g
    BY <1>1, <1>2, Numbers DEF InState
  <2>2. RestoredRows(c, p) = {}
    <3>1. g \in InState("undoing") /\ ~(g <= c)
      BY <1>1, <2>1 DEF InState
    <3> QED  BY <2>1, <3>1 DEF ExactGood, ExactAt
  <2>3. \A m \in Mutations : rows'[m].cp = c => rows'[m] = rows[m]
    BY <1>1, <2>1, NoRowIs
  <2> QED  BY <2>2, <2>3 DEF RestoredRows, RowsOf
<1> QED  BY <1>2 DEF ExactGood, ExactAt

(* No other step of the process touches the rows of an undo.               *)
Bystander ==
  \/ Crash \/ Start \/ RecoverRead \/ RecoverRow \/ RecoverSeal \/ RecoverFails \/ Recovered
  \/ (\E p \in Paths : PreflightRead(p))
  \/ RestoreRead \/ RestoreRefused \/ PrepareInverse \/ InverseCheck \/ InverseObserve
  \/ UndoFails \/ UndoDone
  \/ UNCHANGED vars

LEMMA LeavesUndo ==
  ASSUME Structure, Bystander
  PROVE  UndoKept /\ UNCHANGED <<files, touched>>
<1>1. UNCHANGED <<files, touched>>
  BY DEF Bystander, Crash, Start, RecoverRead, RecoverRow, RecoverSeal, RecoverFails, Recovered,
         PreflightRead, RestoreRead, RestoreRefused, PrepareInverse, InverseCheck,
         InverseObserve, UndoFails, UndoDone, vars, durable, history
<1>2. CASE UNCHANGED <<cps, rows>>
  BY <1>1, <1>2 DEF UndoKept, SameRow, SameMutation
<1>3. CASE RecoverRow
  <2>1. PICK m \in Mutations :
          /\ rows[m].cp # 0 /\ cps[rows[m].cp] = "open"
          /\ \A n \in Mutations \ {m} : rows'[n] = rows[n]
          /\ rows'[m].cp \in {0, rows[m].cp}
    BY <1>3, RecoveredRow, NoRowIs, Zenon DEF SameMutation
  <2>2. cps' = cps /\ 0 \notin InState("undoing")
    BY <1>3, Numbers DEF RecoverRow, InState
  <2>3. rows[m].cp \notin InState("undoing") /\ rows'[m].cp \notin InState("undoing")
    BY <2>1, <2>2 DEF InState
  <2> QED  BY <1>1, <2>1, <2>2, <2>3 DEF UndoKept, SameRow, SameMutation
<1>4. CASE RecoverSeal
  <2>1. PICK c \in Checkpoints : cps[c] = "open" /\ Seal(c)
    BY <1>4 DEF RecoverSeal, InState
  <2>2. UNCHANGED <<nextRow, nextCp>>
    BY <1>4 DEF RecoverSeal, bounds
  <2>3. \A d \in Checkpoints : cps'[d] = "undoing" <=> cps[d] = "undoing"
    BY <2>1, <2>2, SealStore DEF Structure
  <2>4. PICK C \in SUBSET Checkpoints :
          /\ \A d \in C : cps[d] # "undoing"
          /\ \A m \in Mutations : rows'[m] = IF rows[m].cp \in C THEN NoRow ELSE rows[m]
    BY <2>1, <2>2, SealStore DEF Structure
  <2>5. 0 \notin InState("undoing")
    BY Numbers DEF InState
  <2>6. ASSUME NEW m \in Mutations,
               rows[m].cp \in InState("undoing") \/ rows'[m].cp \in InState("undoing")
        PROVE  rows'[m] = rows[m]
    BY <2>4, <2>5, <2>6, NoRowIs DEF InState
  <2> QED  BY <1>1, <2>3, <2>6 DEF UndoKept, SameRow, SameMutation
<1>5. CASE PrepareInverse
  <2> DEFINE m == RowToRestore
  <2>1. cps' = cps
    BY <1>5 DEF PrepareInverse
  <2>2. ASSUME NEW n \in Mutations PROVE SameRow(n)
    BY <1>5, InverseIntent DEF SameRow, SameMutation
  <2> QED  BY <1>1, <2>1, <2>2 DEF UndoKept
<1>6. CASE Bystander /\ ~RecoverRow /\ ~RecoverSeal /\ ~PrepareInverse
  BY <1>2, <1>6 DEF Bystander, Crash, Start, RecoverRead, RecoverFails, Recovered,
     PreflightRead, RestoreRead, RestoreRefused, InverseCheck, InverseObserve, UndoFails,
     UndoDone, vars, durable
<1> QED  BY <1>3, <1>4, <1>5, <1>6

(* There is no undo in a turn, and sealing it marks none.                  *)
LEMMA NoUndoInTurn ==
  ASSUME Structure, Structure', pc' \in InTurn \/ SealTurn
  PROVE  InState("undoing")' = {}
<1>1. CASE pc' \in InTurn
  BY <1>1 DEF Structure, TurnGood, InState
<1>2. CASE SealTurn
  <2>1. \A c \in Checkpoints : cps[c] # "undoing"
    BY <1>2 DEF SealTurn, Structure, TurnGood, InTurn
  <2>2. CASE cps' = cps
    BY <2>1, <2>2 DEF InState
  <2>3. CASE cpID # 0 /\ Seal(cpID)
    <3>1. cpID \in Checkpoints /\ UNCHANGED <<nextRow, nextCp>>
      BY <1>2, <2>3, Numbers DEF SealTurn, Structure, Process, bounds
    <3>2. \A c \in Checkpoints : cps'[c] # "undoing"
      BY <2>1, <2>3, <3>1, SealStore DEF Structure
    <3> QED  BY <3>2 DEF InState
  <2> QED  BY <1>2, <2>2, <2>3 DEF SealTurn
<1> QED  BY <1>1, <1>2

LEMMA ResumeStep ==
  ASSUME Structure, Structure', ReadsGood, ResumeAlwaysPossible, ExactGood, [Next]_vars
  PROVE  ResumeAlwaysPossible' /\ ExactGood'
<1>1. CASE InState("undoing")' = {}
  BY <1>1 DEF ResumeAlwaysPossible, ExactGood
<1>2. CASE \/ BeginTurn \/ (\E p \in Paths, c \in Contents : Plan(p, c))
           \/ Prepare \/ PrepareOverQuota \/ PrepareFails
           \/ WriteCheck \/ WriteInstall \/ WriteFails
           \/ ObserveWrite \/ Commit \/ CommitFails \/ SealTurn
  <2>1. pc' \in InTurn \/ SealTurn
    BY <1>2 DEF BeginTurn, Plan, Prepare, PrepareOverQuota, PrepareFails, WriteCheck,
                WriteInstall, WriteFails, ObserveWrite, Commit, CommitFails, InTurn
  <2> QED  BY <1>1, <2>1, NoUndoInTurn
<1>3. CASE Bystander
  <2>1. UndoKept /\ UNCHANGED <<files, touched>>
    BY <1>3, LeavesUndo
  <2> QED  BY <2>1, KeptResume, KeptExact
<1>4. CASE \E n \in 1..2 : Undo(n)
  <2>1. /\ UNCHANGED <<files, cps, rows>>
        /\ InState("undoing") # {} => touched' = touched
    BY <1>4 DEF Undo, durable
  <2>2. UndoKept /\ InState("undoing")' = InState("undoing")
    BY <2>1 DEF UndoKept, SameRow, SameMutation, InState
  <2> QED  BY <1>1, <2>1, <2>2, KeptResume, KeptExact
<1>5. CASE RestoreReached \/ InverseCommit
  BY <1>5, ProgressResume, ProgressExact
<1>6. CASE InverseInstall
  BY <1>6, InstallResume, InstallExact
<1>7. CASE DeleteRestored
  BY <1>7, DeleteResume, DeleteExact
<1>8. CASE \E p \in Paths, s \in FileStates : Edit(p, s)
  <2>1. PICK p \in Paths, s \in FileStates : Edit(p, s)
    BY <1>8
  <2>2. /\ files' = [files EXCEPT ![p] = s] /\ touched' = touched \cup {p}
        /\ UNCHANGED <<cps, rows>>
    BY <2>1 DEF Edit
  <2>3. \A q \in Paths : q \notin touched' => files'[q] = files[q]
    BY <2>2 DEF Structure, Process
  <2>4. UndoKept
    BY <2>2 DEF UndoKept, SameRow, SameMutation
  <2>5. ExactGood'
    BY <2>2, <2>3, <2>4, KeptExact
  <2>6. touched' # {}
    BY <2>2
  <2> QED  BY <2>5, <2>6 DEF ResumeAlwaysPossible
<1>9. CASE UndoMarks \/ UndoRefused
  <2>1. /\ pc = "preflight" /\ (UNCHANGED cps \/ MarkUndoing)
        /\ UNCHANGED <<rows, files, touched, nextRow, nextCp>>
    BY <1>9 DEF UndoMarks, UndoRefused, bounds, history
  <2>2. CASE UNCHANGED cps
    <3>1. UndoKept
      BY <2>1, <2>2 DEF UndoKept, SameRow, SameMutation
    <3> QED  BY <2>1, <3>1, KeptResume, KeptExact
  <2>3. CASE MarkUndoing
    BY <2>1, <2>3, MarkResume, MarkExact
  <2> QED  BY <2>1, <2>2, <2>3
<1> QED  BY <1>2, <1>3, <1>4, <1>5, <1>6, <1>7, <1>8, <1>9 DEF Next, Bystander

LEMMA ResumeInit == Init => ResumeAlwaysPossible /\ ExactGood
<1> SUFFICES ASSUME Init PROVE ResumeAlwaysPossible /\ ExactGood
  OBVIOUS
<1>1. InState("undoing") = {}
  BY DEF Init, InState
<1> QED  BY <1>1 DEF ResumeAlwaysPossible, ExactGood

LEMMA ResumeAlways == Spec => [](ResumeAlwaysPossible /\ ExactGood)
<1>1. Structure /\ Structure' /\ ReadsGood /\ (ResumeAlwaysPossible /\ ExactGood) /\ [Next]_vars
        => (ResumeAlwaysPossible /\ ExactGood)'
  BY ResumeStep
<1> QED  BY <1>1, ResumeInit, ReadsAlways, StructureAlways, PTL DEF Spec

(* An interrupted undo can always be resumed, unless the user touched a    *)
(* file since it was decided: its preflight passes in every state.         *)
THEOREM UndoCanResume == Spec => []ResumeAlwaysPossible
BY ResumeAlways, PTL

LEMMA UndoneIsExact ==
  ASSUME Structure, Structure', ExactGood, [Next]_vars, NEW c \in Checkpoints,
         cps[c] = "undoing", cps'[c] = "none", NEW m \in RowsOf(c),
         rows[m].applied, rows[m].path \notin touched,
         \A n \in RowsOf(c) : rows[n].path = rows[m].path => n >= m
  PROVE  files[rows[m].path] = rows[m].prior
<1> DEFINE p == rows[m].path
<1>1. DeleteRestored /\ c = Group
  <2>1. CASE DeleteRestored
    BY <2>1, DeletedGroup
  <2>2. CASE Bystander
    BY <2>2, LeavesUndo DEF UndoKept
  <2>3. CASE pc \in InTurn
    BY <2>3 DEF Structure, TurnGood
  <2>4. CASE BeginTurn
    BY <2>4 DEF BeginTurn, InState
  <2>5. CASE \E n \in 1..2 : Undo(n)
    BY <2>5 DEF Undo, durable
  <2>6. CASE \/ RestoreReached \/ InverseCommit \/ InverseInstall
             \/ (\E q \in Paths, s \in FileStates : Edit(q, s))
    BY <2>6 DEF RestoreReached, InverseCommit, InverseInstall, Edit
  <2>7. CASE \/ (\E q \in Paths, s \in Contents : Plan(q, s))
             \/ Prepare \/ PrepareOverQuota \/ PrepareFails
             \/ WriteCheck \/ WriteInstall \/ WriteFails
             \/ ObserveWrite \/ Commit \/ CommitFails \/ SealTurn
    <3>1. pc \in InTurn
      BY <2>7 DEF Plan, Prepare, PrepareOverQuota, PrepareFails, WriteCheck, WriteInstall,
                  WriteFails, ObserveWrite, Commit, CommitFails, SealTurn, InTurn
    <3> QED  BY <2>3, <3>1
  <2>8. CASE UndoMarks \/ UndoRefused
    <3>1. InState("undoing") # {}
      BY DEF InState
    <3>2. /\ pc = "preflight" /\ (UNCHANGED cps \/ MarkUndoing)
          /\ UNCHANGED <<rows, nextRow, nextCp>>
      BY <2>8 DEF UndoMarks, UndoRefused, bounds
    <3>3. cps' = cps
      BY <3>1, <3>2, Marked
    <3> QED  BY <3>3
  <2> QED  BY <2>1, <2>2, <2>4, <2>5, <2>6, <2>7, <2>8 DEF Next, Bystander
<1>2. Pending({c}) = {}
  BY <1>1, DeletedGroup
<1>3. m \in Mutations /\ rows[m].cp = c /\ c # 0
  BY Numbers DEF RowsOf
<1>4. RowGood(m) /\ m \notin Pending({c})
  BY <1>2, <1>3 DEF Structure, Store
<1>5. m \in RestoredRows(c, p) /\ p \in Paths
  BY <1>3, <1>4 DEF RowGood, Pending, RestoredRows
<1>6. LeftAt(c, p)
  BY <1>5 DEF ExactGood, ExactAt, InState
<1>7. PICK a \in RestoredRows(c, p) :
        /\ \A n \in RestoredRows(c, p) : a <= n
        /\ files[p] = rows[a].prior
  BY <1>2, <1>6 DEF LeftAt
<1>8. a = m
  <2>1. a \in RowsOf(c) /\ rows[a].path = p /\ a \in Mutations
    BY <1>7 DEF RestoredRows, RowsOf
  <2>2. a <= m /\ a >= m /\ a \in Nat /\ m \in Nat
    BY <1>3, <1>5, <1>7, <2>1, Numbers
  <2> QED  BY <2>2
<1> QED  BY <1>7, <1>8

(* An undo leaves every file the user did not touch as it was before the   *)
(* checkpoint, however often it was interrupted and resumed.               *)
THEOREM UndoRestoresExactly == Spec => UndoIsExact
<1>1. Structure /\ Structure' /\ ExactGood /\ [Next]_vars =>
        [\A c \in Checkpoints :
           cps[c] = "undoing" /\ cps'[c] = "none" =>
             \A m \in RowsOf(c) :
               (/\ rows[m].applied /\ rows[m].path \notin touched
                /\ \A n \in RowsOf(c) : rows[n].path = rows[m].path => n >= m)
               => files[rows[m].path] = rows[m].prior]_vars
  BY UndoneIsExact
<1> QED  BY <1>1, StructureAlways, ResumeAlways, PTL DEF Spec, UndoIsExact
=============================================================================
