------------------------- MODULE SharedStateProofs -------------------------
(***************************************************************************)
(* Proofs about two components whose callers share state: a save of a      *)
(* document overwrites only what its author has seen, for any number of    *)
(* savers, documents and paths; sharing an embedding flight is invisible   *)
(* to its callers, for any number of callers, texts, permits and flights.  *)
(***************************************************************************)
EXTENDS DocumentSave, EmbedFlight, TLAPS

(* DocumentSave.                                                           *)
Places == {"idle", "lockPath", "lockDoc", "read", "check", "publish", "commit", "saved", "reported"}

Saves == [doc : Documents \cup {"none"}, path : Paths \cup {"none"}, expected : Contents \cup {NoFile},
          out : Contents \cup {NoFile}, seen : Contents \cup {NoFile}, outcome : Contents \cup {NoFile}]

DsTypes ==
  /\ dsFile \in [Paths -> Contents \cup {NoFile}] /\ dsForeign \in [Paths -> BOOLEAN]
  /\ dsDraft \in [Documents -> Contents] /\ dsRevision \in [Documents -> Contents \cup {NoFile}]
  /\ dsPathLock \in [Paths -> Savers \cup {"free"}]
  /\ dsPc \in [Savers -> Places] /\ dsSave \in [Savers -> Saves]

\* Where a saver holds the lock of its path.
Locked == {"lockDoc", "read", "check", "publish", "commit"}

\* A saver at work has a path and a document, and inside the save window it holds the path's lock.
HoldsPath ==
  \A s \in Savers :
    /\ dsPc[s] # "idle" => dsSave[s].path \in Paths /\ dsSave[s].doc \in Documents
    /\ dsPc[s] \in Locked => dsPathLock[dsSave[s].path] = s

\* A replacement about to be renamed has seen what it expects, and only another
\* program can have changed the file since.
SeenExpected ==
  \A s \in Savers : dsPc[s] = "publish" /\ ~Creates(s) =>
    /\ dsSave[s].seen = dsSave[s].expected
    /\ Target(s) = dsSave[s].seen \/ dsForeign[dsSave[s].path]

DsInv == DsTypes /\ HoldsPath /\ SeenExpected

LEMMA DsInitHolds == DsInit => DsInv
<1>1. NoSave \in Saves
  BY DEF NoSave, Saves
<1>2. 1 \in Contents
  BY DsBounds DEF Contents
<1> QED BY <1>1, <1>2 DEF DsInit, DsInv, DsTypes, HoldsPath, SeenExpected, Places, Locked, Saves

\* Only the holder of a path's lock is inside its save window.
LEMMA OneHolder ==
  ASSUME DsInv, NEW s \in Savers, NEW t \in Savers, s # t,
         dsPc[s] \in Locked, dsPc[t] \in Locked
  PROVE  dsSave[s].path # dsSave[t].path
BY DEF DsInv, HoldsPath

LEMMA SaveAsKeeps ==
  ASSUME DsInv, NEW s \in Savers, SaveAs(s)
  PROVE  DsInv'
<1>1. PICK d \in Documents, p \in Paths, e \in Contents \cup {NoFile} :
        dsSave' = [dsSave EXCEPT ![s] = [NoSave EXCEPT !.doc = d, !.path = p, !.expected = e]]
  BY DEF SaveAs
<1> DEFINE new == [NoSave EXCEPT !.doc = d, !.path = p, !.expected = e]
<1>2. new \in Saves /\ new.path = p /\ new.doc = d
  BY DEF NoSave, Saves
<1>3. /\ dsPc' = [dsPc EXCEPT ![s] = "lockPath"]
      /\ UNCHANGED <<dsFile, dsForeign, dsDraft, dsRevision, dsPathLock>>
  BY DEF SaveAs, DsGoto
<1>4. dsSave' \in [Savers -> Saves] /\ dsSave'[s] = new /\ dsPc'[s] = "lockPath"
      /\ \A t \in Savers : t # s => dsSave'[t] = dsSave[t] /\ dsPc'[t] = dsPc[t]
  BY <1>1, <1>2, <1>3 DEF DsInv, DsTypes
<1> HIDE DEF new
<1>5. DsTypes'
  BY <1>3, <1>4 DEF DsInv, DsTypes, Places
<1>6. HoldsPath'
  BY <1>2, <1>3, <1>4 DEF DsInv, HoldsPath, Locked
<1>7. SeenExpected'
  BY <1>3, <1>4 DEF DsInv, SeenExpected, Creates, Target
<1> QED BY <1>5, <1>6, <1>7 DEF DsInv

LEMMA LockPathKeeps ==
  ASSUME DsInv, NEW s \in Savers, LockPath(s)
  PROVE  DsInv'
<1>1. /\ dsPc[s] = "lockPath" /\ dsPathLock[dsSave[s].path] = "free"
      /\ dsPathLock' = [dsPathLock EXCEPT ![dsSave[s].path] = s]
      /\ dsPc' = [dsPc EXCEPT ![s] = "lockDoc"]
      /\ UNCHANGED <<dsFile, dsForeign, dsDraft, dsRevision, dsSave>>
  BY DEF LockPath, DsGoto
<1>2. DsTypes'
  BY <1>1 DEF DsInv, DsTypes, Places
<1>3. dsSave[s].path \in Paths /\ dsSave[s].doc \in Documents
  BY <1>1 DEF DsInv, HoldsPath
<1>4. HoldsPath'
  <2> SUFFICES ASSUME NEW t \in Savers
               PROVE  /\ dsPc'[t] # "idle" => dsSave'[t].path \in Paths /\ dsSave'[t].doc \in Documents
                      /\ dsPc'[t] \in Locked => dsPathLock'[dsSave'[t].path] = t
    BY DEF HoldsPath
  <2>1. CASE t = s
    BY <1>1, <1>3, <2>1 DEF DsInv, DsTypes
  <2>2. CASE t # s
    <3>1. dsPc'[t] = dsPc[t] /\ dsSave'[t] = dsSave[t]
      BY <1>1, <2>2 DEF DsInv, DsTypes
    <3>2. dsPc[t] \in Locked => dsSave[t].path # dsSave[s].path
      BY <1>1, SaversAssumption DEF DsInv, HoldsPath
    <3> QED BY <1>1, <1>3, <3>1, <3>2 DEF DsInv, DsTypes, HoldsPath
  <2> QED BY <2>1, <2>2
<1>5. SeenExpected'
  BY <1>1 DEF DsInv, DsTypes, SeenExpected, Creates, Target
<1> QED BY <1>2, <1>4, <1>5 DEF DsInv

LEMMA LockDocKeeps ==
  ASSUME DsInv, NEW s \in Savers, LockDoc(s)
  PROVE  DsInv'
<1>1. /\ dsPc[s] = "lockDoc" /\ dsPc' = [dsPc EXCEPT ![s] = "read"]
      /\ UNCHANGED <<dsFile, dsForeign, dsDraft, dsRevision, dsPathLock, dsSave>>
  BY DEF LockDoc, DsGoto
<1>2. DsTypes'
  BY <1>1 DEF DsInv, DsTypes, Places
<1>3. HoldsPath'
  BY <1>1 DEF DsInv, DsTypes, HoldsPath, Locked
<1>4. SeenExpected'
  BY <1>1 DEF DsInv, DsTypes, SeenExpected, Creates, Target
<1> QED BY <1>2, <1>3, <1>4 DEF DsInv

\* The canonical bytes and the final comparison change the saver's own record.
LEMMA OwnRecordKeeps ==
  ASSUME DsInv, NEW s \in Savers, NEW save \in Saves, NEW place \in {"check", "publish", "commit"},
         dsPc[s] \in {"read", "check"},
         save.path = dsSave[s].path, save.doc = dsSave[s].doc,
         place = "publish" =>
           (save.expected = NoFile \/ (save.seen = save.expected /\ dsFile[save.path] = save.seen)),
         dsSave' = [dsSave EXCEPT ![s] = save], dsPc' = [dsPc EXCEPT ![s] = place],
         UNCHANGED <<dsFile, dsForeign, dsDraft, dsRevision, dsPathLock>>
  PROVE  DsInv'
<1>1. /\ dsSave'[s] = save /\ dsPc'[s] = place
      /\ \A t \in Savers : t # s => dsSave'[t] = dsSave[t] /\ dsPc'[t] = dsPc[t]
  BY DEF DsInv, DsTypes
<1>2. DsTypes'
  BY DEF DsInv, DsTypes, Places
<1>3. HoldsPath'
  BY <1>1 DEF DsInv, HoldsPath, Locked
<1>4. SeenExpected'
  BY <1>1 DEF DsInv, SeenExpected, Creates, Target
<1> QED BY <1>2, <1>3, <1>4 DEF DsInv

LEMMA SnapshotKeeps ==
  ASSUME DsInv, NEW s \in Savers, Snapshot(s)
  PROVE  DsInv'
<1> DEFINE save == [dsSave[s] EXCEPT !.out = dsDraft[dsSave[s].doc]]
           place == IF Creates(s) THEN "publish" ELSE "check"
<1>1. /\ dsPc[s] = "read" /\ dsSave' = [dsSave EXCEPT ![s] = save]
      /\ dsPc' = [dsPc EXCEPT ![s] = place]
      /\ UNCHANGED <<dsFile, dsForeign, dsDraft, dsRevision, dsPathLock>>
  BY DEF Snapshot, DsGoto, DsInv, DsTypes
<1>2. dsSave[s] \in Saves /\ dsDraft[dsSave[s].doc] \in Contents
  BY <1>1 DEF DsInv, DsTypes, HoldsPath
<1>3. /\ save \in Saves /\ save.path = dsSave[s].path /\ save.doc = dsSave[s].doc
      /\ save.expected = dsSave[s].expected
  BY <1>2 DEF Saves
<1>4. place = "publish" => save.expected = NoFile
  BY <1>3 DEF Creates
<1>5. place \in {"check", "publish", "commit"}
  OBVIOUS
<1> HIDE DEF save, place
<1> QED BY <1>1, <1>3, <1>4, <1>5, OwnRecordKeeps

LEMMA FinalCheckKeeps ==
  ASSUME DsInv, NEW s \in Savers, FinalCheck(s)
  PROVE  DsInv'
<1> DEFINE save == [dsSave[s] EXCEPT !.seen = Target(s)]
           place == IF dsSave[s].out = dsSave[s].expected THEN "commit" ELSE "publish"
<1>1. /\ dsPc[s] = "check" /\ Target(s) = dsSave[s].expected
      /\ dsSave' = [dsSave EXCEPT ![s] = save] /\ dsPc' = [dsPc EXCEPT ![s] = place]
      /\ UNCHANGED <<dsFile, dsForeign, dsDraft, dsRevision, dsPathLock>>
  BY DEF FinalCheck, StillExpected, Expected, DsGoto, DsInv, DsTypes
<1>2. dsSave[s] \in Saves /\ Target(s) \in Contents \cup {NoFile}
  BY <1>1 DEF DsInv, DsTypes, HoldsPath, Target
<1>3. /\ save \in Saves /\ save.path = dsSave[s].path /\ save.doc = dsSave[s].doc
      /\ save.expected = dsSave[s].expected /\ save.seen = Target(s)
  BY <1>2 DEF Saves
<1>4. save.seen = save.expected /\ dsFile[save.path] = save.seen
  BY <1>1, <1>3 DEF Target
<1>5. place \in {"check", "publish", "commit"}
  OBVIOUS
<1> HIDE DEF save, place
<1> QED BY <1>1, <1>3, <1>4, <1>5, OwnRecordKeeps

\* The rename: its saver holds the path, so no other save there is about to rename.
LEMMA PublishSaveKeeps ==
  ASSUME DsInv, NEW s \in Savers, PublishSave(s)
  PROVE  DsInv'
<1>1. /\ dsPc[s] = "publish" /\ dsPc' = [dsPc EXCEPT ![s] = "commit"]
      /\ dsFile' = [dsFile EXCEPT ![dsSave[s].path] = dsSave[s].out]
      /\ dsForeign' = [dsForeign EXCEPT ![dsSave[s].path] = FALSE]
      /\ UNCHANGED <<dsDraft, dsRevision, dsPathLock, dsSave>>
  BY DEF PublishSave, DsGoto
<1>2. dsSave[s] \in Saves /\ dsSave[s].out \in Contents \cup {NoFile}
  BY DEF DsInv, DsTypes, Saves
<1>3. DsTypes'
  BY <1>1, <1>2 DEF DsInv, DsTypes, Places
<1>4. HoldsPath'
  BY <1>1 DEF DsInv, DsTypes, HoldsPath, Locked
<1>5. SeenExpected'
  <2> SUFFICES ASSUME NEW t \in Savers, dsPc'[t] = "publish", ~Creates(t)'
               PROVE  /\ dsSave'[t].seen = dsSave'[t].expected
                      /\ dsFile'[dsSave'[t].path] = dsSave'[t].seen \/ dsForeign'[dsSave'[t].path]
    BY DEF SeenExpected, Target
  <2>1. t # s /\ dsPc[t] = "publish" /\ ~Creates(t)
    BY <1>1 DEF DsInv, DsTypes, Creates
  <2>2. dsSave[t].path # dsSave[s].path
    BY <1>1, <2>1, OneHolder DEF Locked
  <2>3. dsFile'[dsSave[t].path] = dsFile[dsSave[t].path]
        /\ dsForeign'[dsSave[t].path] = dsForeign[dsSave[t].path]
    BY <1>1, <2>1, <2>2 DEF DsInv, DsTypes, HoldsPath
  <2> QED BY <1>1, <2>1, <2>3 DEF DsInv, SeenExpected, Target
<1> QED BY <1>3, <1>4, <1>5 DEF DsInv

\* Leaving the save window, done or given up: the lock goes with it.
LEMMA UnlockKeeps ==
  ASSUME DsInv, NEW s \in Savers, NEW save \in Saves, NEW place \in {"idle", "saved"},
         dsPc[s] \in Locked,
         place = "saved" => save = dsSave[s],
         dsPathLock' = [dsPathLock EXCEPT ![dsSave[s].path] = "free"],
         dsSave' = [dsSave EXCEPT ![s] = save], dsPc' = [dsPc EXCEPT ![s] = place],
         dsRevision' \in [Documents -> Contents \cup {NoFile}],
         UNCHANGED <<dsFile, dsForeign, dsDraft>>
  PROVE  DsInv'
<1>1. /\ dsSave'[s] = save /\ dsPc'[s] = place
      /\ \A t \in Savers : t # s => dsSave'[t] = dsSave[t] /\ dsPc'[t] = dsPc[t]
  BY DEF DsInv, DsTypes
<1>2. DsTypes'
  BY DEF DsInv, DsTypes, Places
<1>3. HoldsPath'
  <2> SUFFICES ASSUME NEW t \in Savers
               PROVE  /\ dsPc'[t] # "idle" => dsSave'[t].path \in Paths /\ dsSave'[t].doc \in Documents
                      /\ dsPc'[t] \in Locked => dsPathLock'[dsSave'[t].path] = t
    BY DEF HoldsPath
  <2>1. CASE t = s
    BY <1>1, <2>1 DEF DsInv, HoldsPath, Locked
  <2>2. CASE t # s
    <3>1. dsPc[t] \in Locked => dsSave[t].path # dsSave[s].path
      BY <2>2, OneHolder
    <3> QED BY <1>1, <2>2, <3>1 DEF DsInv, DsTypes, HoldsPath
  <2> QED BY <2>1, <2>2
<1>4. SeenExpected'
  BY <1>1 DEF DsInv, SeenExpected, Creates, Target
<1> QED BY <1>2, <1>3, <1>4 DEF DsInv

LEMMA GiveUpKeeps ==
  ASSUME DsInv, NEW s \in Savers, GiveUp(s)
  PROVE  DsInv'
<1>1. NoSave \in Saves
  BY DEF NoSave, Saves
<1>2. /\ dsPc[s] \in Locked /\ dsPathLock' = [dsPathLock EXCEPT ![dsSave[s].path] = "free"]
      /\ dsSave' = [dsSave EXCEPT ![s] = NoSave] /\ dsPc' = [dsPc EXCEPT ![s] = "idle"]
      /\ dsRevision' \in [Documents -> Contents \cup {NoFile}]
      /\ UNCHANGED <<dsFile, dsForeign, dsDraft>>
  BY DEF GiveUp, Unlock, DsGoto, Locked, DsInv, DsTypes
<1> QED BY <1>1, <1>2, UnlockKeeps

LEMMA CommitSaveKeeps ==
  ASSUME DsInv, NEW s \in Savers, CommitSave(s)
  PROVE  DsInv'
<1>1. /\ dsSave[s] \in Saves /\ dsSave[s].out \in Contents \cup {NoFile}
      /\ dsSave = [dsSave EXCEPT ![s] = dsSave[s]]
  BY DEF DsInv, DsTypes, Saves
<1>2. dsRevision' \in [Documents -> Contents \cup {NoFile}]
  BY <1>1 DEF CommitSave, DsInv, DsTypes
<1>3. /\ dsPc[s] \in Locked /\ dsPathLock' = [dsPathLock EXCEPT ![dsSave[s].path] = "free"]
      /\ dsSave' = [dsSave EXCEPT ![s] = dsSave[s]] /\ dsPc' = [dsPc EXCEPT ![s] = "saved"]
      /\ UNCHANGED <<dsFile, dsForeign, dsDraft>>
  BY <1>1 DEF CommitSave, Unlock, DsGoto, Locked
<1> QED BY <1>1, <1>2, <1>3, UnlockKeeps

\* After the save window.
LEMMA AfterwardsKeeps ==
  ASSUME DsInv, NEW s \in Savers, ReportSave(s) \/ Returns(s)
  PROVE  DsInv'
<1> DEFINE reported == [dsSave[s] EXCEPT !.outcome = dsRevision[dsSave[s].doc]]
<1>1. NoSave \in Saves /\ dsSave[s] \in Saves
  BY DEF NoSave, Saves, DsInv, DsTypes
<1>2. CASE ReportSave(s)
  <2>1. /\ dsPc[s] = "saved" /\ dsSave' = [dsSave EXCEPT ![s] = reported]
        /\ dsPc' = [dsPc EXCEPT ![s] = "reported"]
        /\ UNCHANGED <<dsFile, dsForeign, dsDraft, dsRevision, dsPathLock>>
    BY <1>2 DEF ReportSave, DsGoto, DsInv, DsTypes
  <2>2. dsRevision[dsSave[s].doc] \in Contents \cup {NoFile}
    BY <2>1 DEF DsInv, DsTypes, HoldsPath
  <2>3. reported \in Saves /\ reported.path = dsSave[s].path /\ reported.doc = dsSave[s].doc
    BY <1>1, <2>2 DEF Saves
  <2> HIDE DEF reported
  <2>4. /\ dsSave'[s] = reported /\ dsPc'[s] = "reported"
        /\ \A t \in Savers : t # s => dsSave'[t] = dsSave[t] /\ dsPc'[t] = dsPc[t]
    BY <2>1 DEF DsInv, DsTypes
  <2>5. DsTypes'
    BY <2>1, <2>3 DEF DsInv, DsTypes, Places
  <2>6. HoldsPath'
    BY <2>1, <2>3, <2>4 DEF DsInv, HoldsPath, Locked
  <2>7. SeenExpected'
    BY <2>1, <2>4 DEF DsInv, SeenExpected, Creates, Target
  <2> QED BY <2>5, <2>6, <2>7 DEF DsInv
<1>3. CASE Returns(s)
  <2>1. /\ dsPc[s] = "reported" /\ dsSave' = [dsSave EXCEPT ![s] = NoSave]
        /\ dsPc' = [dsPc EXCEPT ![s] = "idle"]
        /\ UNCHANGED <<dsFile, dsForeign, dsDraft, dsRevision, dsPathLock>>
    BY <1>3 DEF Returns, DsGoto
  <2>2. /\ dsPc'[s] = "idle"
        /\ \A t \in Savers : t # s => dsSave'[t] = dsSave[t] /\ dsPc'[t] = dsPc[t]
    BY <2>1 DEF DsInv, DsTypes
  <2>3. DsTypes'
    BY <1>1, <2>1 DEF DsInv, DsTypes, Places
  <2>4. HoldsPath'
    BY <2>1, <2>2 DEF DsInv, HoldsPath, Locked
  <2>5. SeenExpected'
    BY <2>1, <2>2 DEF DsInv, SeenExpected, Creates, Target
  <2> QED BY <2>3, <2>4, <2>5 DEF DsInv
<1> QED BY <1>2, <1>3

\* Other goroutines edit drafts and other programs write files.
LEMMA OthersKeep ==
  ASSUME DsInv,
         \/ \E d \in Documents, c \in Contents : Mutate(d, c)
         \/ \E p \in Paths, c \in Contents \cup {NoFile} : ExternalWrite(p, c)
  PROVE  DsInv'
<1>1. CASE \E d \in Documents, c \in Contents : Mutate(d, c)
  BY <1>1 DEF Mutate, DsInv, DsTypes, HoldsPath, SeenExpected, Creates, Target
<1>2. CASE \E p \in Paths, c \in Contents \cup {NoFile} : ExternalWrite(p, c)
  <2>1. PICK p \in Paths, c \in Contents \cup {NoFile} : ExternalWrite(p, c)
    BY <1>2
  <2>2. /\ dsFile' = [dsFile EXCEPT ![p] = c] /\ dsForeign' = [dsForeign EXCEPT ![p] = TRUE]
        /\ UNCHANGED <<dsDraft, dsRevision, dsPathLock, dsPc, dsSave>>
    BY <2>1 DEF ExternalWrite
  <2>3. DsTypes' /\ HoldsPath'
    BY <2>2 DEF DsInv, DsTypes, HoldsPath
  <2>4. \A q \in Paths : dsForeign'[q] \/ (dsFile'[q] = dsFile[q] /\ dsForeign'[q] = dsForeign[q])
    BY <2>2 DEF DsInv, DsTypes
  <2>5. SeenExpected'
    BY <2>2, <2>4 DEF DsInv, HoldsPath, SeenExpected, Creates, Target
  <2> QED BY <2>3, <2>5 DEF DsInv
<1> QED BY <1>1, <1>2

LEMMA DsStepKeeps == DsInv /\ [DsNext]_dsVars => DsInv'
<1> SUFFICES ASSUME DsInv, [DsNext]_dsVars PROVE DsInv'
  OBVIOUS
<1>1. CASE UNCHANGED dsVars
  BY <1>1 DEF dsVars, DsInv, DsTypes, HoldsPath, SeenExpected, Creates, Target
<1>2. CASE DsNext
  BY <1>2, SaveAsKeeps, LockPathKeeps, LockDocKeeps, SnapshotKeeps, FinalCheckKeeps,
     PublishSaveKeeps, CommitSaveKeeps, AfterwardsKeeps, GiveUpKeeps, OthersKeep DEF DsNext
<1> QED BY <1>1, <1>2

\* The only step from "publish" to "commit" is the rename or the link.
LEMMA PublishesSeen ==
  ASSUME DsInv, [DsNext]_dsVars, NEW s \in Savers, dsPc[s] = "publish", dsPc'[s] = "commit"
  PROVE  \/ Expected(s)
         \/ ~Creates(s) /\ Target(s) # dsSave[s].seen /\ dsForeign[dsSave[s].path]
<1>1. PublishSave(s)
  BY DEF DsNext, dsVars, DsInv, DsTypes, SaveAs, LockPath, LockDoc, Snapshot, FinalCheck,
         PublishSave, CommitSave, ReportSave, Returns, GiveUp, Mutate, ExternalWrite, DsGoto
<1>2. CASE Creates(s)
  BY <1>1, <1>2 DEF PublishSave, Creates, Expected
<1>3. CASE ~Creates(s)
  BY <1>3 DEF DsInv, SeenExpected, Expected
<1> QED BY <1>2, <1>3

\* A save overwrites nothing its author has not seen (SaveNewAs, SaveReplaceAs): at
\* the rename the file is as expected, or another program changed it after the final
\* comparison.  The per-path lock keeps every other save of the process out of it.
THEOREM SavesOverwriteOnlySeen == DsSpec => SaveOverwritesOnlySeen
<1>1. DsInv /\ [DsNext]_dsVars =>
        [\A s \in Savers : dsPc[s] = "publish" /\ dsPc'[s] = "commit" =>
           \/ Expected(s)
           \/ ~Creates(s) /\ Target(s) # dsSave[s].seen /\ dsForeign[dsSave[s].path]]_dsVars
  BY PublishesSeen
<1> QED BY <1>1, DsInitHolds, DsStepKeeps, PTL DEF DsSpec, SaveOverwritesOnlySeen

-----------------------------------------------------------------------------
(* EmbedFlight.                                                            *)
FlightStates == {"none", "queued", "requesting", "landed"}

EfTypes ==
  /\ efFlight \in [Flights -> [state : FlightStates, key : Texts \cup {"none"},
                               leader : EfCallers \cup {"none"}, members : SUBSET EfCallers]]
  /\ efCall \in [EfCallers -> [at : {"idle", "waiting", "answered", "returned"},
                               asked : Texts \cup {"none"},
                               answer : Texts \cup {"none", "failed", "closed", "canceled"}]]
  /\ efSlice \in [EfCallers -> Texts]

\* The members of a flight wait for it, and asked for what it carries.
MembersAsked ==
  \A f \in Flights : \A c \in efFlight[f].members :
    efCall[c].at = "waiting" /\ efCall[c].asked = efFlight[f].key

\* A flight that can still answer carries a text.
OpenCarries ==
  \A f \in Flights : efFlight[f].state \in {"queued", "requesting"} => efFlight[f].key \in Texts

\* A caller waits for one flight.
OneFlight ==
  \A f, g \in Flights : f # g => efFlight[f].members \cap efFlight[g].members = {}

Own(c) == {efCall[c].asked, "failed", "closed"}

\* What a caller holds is its own answer or an error, or its own cancellation.
AnswersOwn ==
  \A c \in EfCallers :
    /\ efCall[c].at \in {"waiting", "answered", "returned"} => efCall[c].asked \in Texts
    /\ efCall[c].at = "answered" => efCall[c].answer \in Own(c)
    /\ efCall[c].at = "returned" =>
         efCall[c].answer \in Own(c) \/ (efCall[c].answer = "canceled" /\ c \in efCancelled)

EfInv == EfTypes /\ MembersAsked /\ OneFlight /\ OpenCarries /\ AnswersOwn

LEMMA EfInitHolds == EfInit => EfInv
BY DEF EfInit, EfInv, EfTypes, MembersAsked, OneFlight, OpenCarries, AnswersOwn, NotBegun, NoCall, FlightStates

\* Joining or starting a flight.
LEMMA EmbedKeeps ==
  ASSUME EfInv, NEW c \in EfCallers, Embed(c)
  PROVE  EfInv'
<1> DEFINE k == efSlice[c]
           call == [at |-> "waiting", asked |-> k, answer |-> "none"]
<1>1. /\ k \in Texts /\ efCall[c].at = "idle"
      /\ efCall' = [efCall EXCEPT ![c] = call]
      /\ UNCHANGED <<efSlice, efCancelled>>
  BY DEF Embed, EfInv, EfTypes
<1>2. PICK f \in Flights :
        \/ f \in Open(k) /\ efFlight' = [efFlight EXCEPT ![f].members = @ \cup {c}]
        \/ efFlight' = [efFlight EXCEPT ![f] =
             [state |-> "queued", key |-> k, leader |-> c, members |-> {c}]]
  BY DEF Embed, Open
<1>3. \A g \in Flights : c \notin efFlight[g].members
  BY <1>1 DEF EfInv, MembersAsked
<1>4. AnswersOwn' /\ efCall'[c] = call /\ \A d \in EfCallers : d # c => efCall'[d] = efCall[d]
  BY <1>1 DEF EfInv, EfTypes, AnswersOwn, Own
<1>5. CASE f \in Open(k) /\ efFlight' = [efFlight EXCEPT ![f].members = @ \cup {c}]
  <2>1. efFlight[f].key = k /\ efFlight'[f].key = k /\ efFlight'[f].state = efFlight[f].state
        /\ efFlight'[f].members = efFlight[f].members \cup {c}
    BY <1>5 DEF Open, EfInv, EfTypes
  <2>2. EfTypes'
    BY <1>1, <1>5 DEF EfInv, EfTypes
  <2>3. MembersAsked'
    BY <1>3, <1>4, <1>5, <2>1 DEF EfInv, EfTypes, MembersAsked
  <2>4. OpenCarries'
    BY <1>5, <2>1 DEF EfInv, EfTypes, OpenCarries
  <2>5. OneFlight'
    BY <1>3, <1>5, <2>1 DEF EfInv, EfTypes, OneFlight
  <2> QED BY <1>4, <2>2, <2>3, <2>4, <2>5 DEF EfInv
<1>6. CASE efFlight' = [efFlight EXCEPT ![f] =
             [state |-> "queued", key |-> k, leader |-> c, members |-> {c}]]
  <2>2. EfTypes'
    BY <1>1, <1>6 DEF EfInv, EfTypes, FlightStates
  <2>3. MembersAsked'
    BY <1>3, <1>4, <1>6 DEF EfInv, EfTypes, MembersAsked
  <2>4. OpenCarries'
    BY <1>1, <1>6 DEF EfInv, EfTypes, OpenCarries
  <2>5. OneFlight'
    BY <1>3, <1>6 DEF EfInv, EfTypes, OneFlight
  <2> QED BY <1>4, <2>2, <2>3, <2>4, <2>5 DEF EfInv
<1> QED BY <1>2, <1>5, <1>6

\* Landing gives every member its own text or an error.
LEMMA LandKeeps ==
  ASSUME EfInv, NEW f \in Flights, NEW result \in {efFlight[f].key, "failed", "closed"},
         efFlight[f].key \in Texts, Land(f, result)
  PROVE  EfInv'
<1>1. /\ efFlight' = [efFlight EXCEPT ![f].state = "landed", ![f].members = {}]
      /\ efCall' = [c \in EfCallers |->
           IF c \in efFlight[f].members /\ efCall[c].at = "waiting"
           THEN [efCall[c] EXCEPT !.at = "answered", !.answer = result] ELSE efCall[c]]
      /\ UNCHANGED <<efSlice, efCancelled>>
  BY DEF Land
<1>2. \A g \in Flights : g # f => efFlight'[g] = efFlight[g]
  BY <1>1 DEF EfInv, EfTypes
<1>3. /\ efFlight'[f].members = {} /\ efFlight'[f].state = "landed"
      /\ efFlight'[f].key = efFlight[f].key /\ efFlight'[f].leader = efFlight[f].leader
  BY <1>1 DEF EfInv, EfTypes
<1>4. ASSUME NEW c \in EfCallers
      PROVE  \/ efCall'[c] = efCall[c]
             \/ /\ efCall[c].at = "waiting" /\ c \in efFlight[f].members
                /\ efCall'[c] = [efCall[c] EXCEPT !.at = "answered", !.answer = result]
  BY <1>1
<1>5. ASSUME NEW g \in Flights, NEW c \in efFlight'[g].members
      PROVE  g # f /\ c \in EfCallers /\ c \in efFlight[g].members /\ efCall'[c] = efCall[c]
  <2>1. g # f /\ c \in efFlight[g].members
    BY <1>2, <1>3, <1>5
  <2>2. c \in EfCallers /\ c \notin efFlight[f].members
    BY <2>1 DEF EfInv, EfTypes, OneFlight
  <2> QED BY <1>1, <2>1, <2>2
<1>6. EfTypes'
  <2>1. efFlight' \in [Flights -> [state : FlightStates, key : Texts \cup {"none"},
                                   leader : EfCallers \cup {"none"}, members : SUBSET EfCallers]]
    <3>1. ASSUME NEW g \in Flights
          PROVE  [efFlight[g] EXCEPT !.state = "landed", !.members = {}]
                   \in [state : FlightStates, key : Texts \cup {"none"},
                        leader : EfCallers \cup {"none"}, members : SUBSET EfCallers]
      BY DEF EfInv, EfTypes, FlightStates
    <3>2. efFlight' = [efFlight EXCEPT ![f] =
                         [efFlight[f] EXCEPT !.state = "landed", !.members = {}]]
      BY <1>1 DEF EfInv, EfTypes
    <3> QED BY <3>1, <3>2 DEF EfInv, EfTypes
  <2>2. ASSUME NEW c \in EfCallers
        PROVE  [efCall[c] EXCEPT !.at = "answered", !.answer = result]
                 \in [at : {"idle", "waiting", "answered", "returned"},
                      asked : Texts \cup {"none"},
                      answer : Texts \cup {"none", "failed", "closed", "canceled"}]
    BY DEF EfInv, EfTypes
  <2>3. efCall' \in [EfCallers -> [at : {"idle", "waiting", "answered", "returned"},
                                   asked : Texts \cup {"none"},
                                   answer : Texts \cup {"none", "failed", "closed", "canceled"}]]
    BY <1>1, <2>2 DEF EfInv, EfTypes
  <2> QED BY <1>1, <2>1, <2>3 DEF EfInv, EfTypes
<1>7. MembersAsked'
  BY <1>2, <1>5 DEF EfInv, MembersAsked
<1>8. OneFlight'
  BY <1>2, <1>3 DEF EfInv, OneFlight
<1>9. OpenCarries'
  BY <1>2, <1>3 DEF EfInv, OpenCarries
<1>10. ASSUME NEW c \in EfCallers, c \in efFlight[f].members
       PROVE  efCall[c].asked = efFlight[f].key
  BY <1>10 DEF EfInv, MembersAsked
<1>11. AnswersOwn'
  <2> SUFFICES ASSUME NEW c \in EfCallers
      PROVE  /\ efCall'[c].at \in {"waiting", "answered", "returned"} => efCall'[c].asked \in Texts
             /\ efCall'[c].at = "answered" => efCall'[c].answer \in {efCall'[c].asked, "failed", "closed"}
             /\ efCall'[c].at = "returned" =>
                  \/ efCall'[c].answer \in {efCall'[c].asked, "failed", "closed"}
                  \/ efCall'[c].answer = "canceled" /\ c \in efCancelled'
    BY DEF AnswersOwn, Own
  <2>1. CASE efCall'[c] = efCall[c]
    BY <1>1, <2>1 DEF EfInv, AnswersOwn, Own
  <2>2. CASE /\ efCall[c].at = "waiting" /\ c \in efFlight[f].members
             /\ efCall'[c] = [efCall[c] EXCEPT !.at = "answered", !.answer = result]
    <3>1. /\ efCall'[c].at = "answered" /\ efCall'[c].answer = result
          /\ efCall'[c].asked = efCall[c].asked
      BY <2>2 DEF EfInv, EfTypes
    <3>2. efCall[c].asked = efFlight[f].key
      BY <1>10, <2>2
    <3> QED BY <3>1, <3>2
  <2> QED BY <1>4, <2>1, <2>2
<1> QED BY <1>6, <1>7, <1>8, <1>9, <1>11 DEF EfInv

\* A caller leaves the flight with its result or for its own cancellation.
LEMMA EmbedReturnsKeeps ==
  ASSUME EfInv, NEW c \in EfCallers, EmbedReturns(c)
  PROVE  EfInv'
<1>1. /\ efFlight' = [f \in Flights |-> [efFlight[f] EXCEPT !.members = @ \ {c}]]
      /\ UNCHANGED <<efSlice, efCancelled>>
  BY DEF EmbedReturns
<1>2. \/ efCall[c].at = "answered" /\ efCall' = [efCall EXCEPT ![c].at = "returned"]
      \/ /\ efCall[c].at \in {"waiting", "answered"} /\ c \in efCancelled
         /\ efCall' = [efCall EXCEPT ![c].at = "returned", ![c].answer = "canceled"]
  BY DEF EmbedReturns
<1>3. \A f \in Flights : /\ efFlight'[f].state = efFlight[f].state
                         /\ efFlight'[f].key = efFlight[f].key
                         /\ efFlight'[f].members = efFlight[f].members \ {c}
  BY <1>1 DEF EfInv, EfTypes
<1>4. \A d \in EfCallers : d # c => efCall'[d] = efCall[d]
  BY <1>2 DEF EfInv, EfTypes
<1>5. EfTypes'
  <2>1. efFlight' \in [Flights -> [state : FlightStates, key : Texts \cup {"none"},
                                   leader : EfCallers \cup {"none"}, members : SUBSET EfCallers]]
    BY <1>1 DEF EfInv, EfTypes
  <2>2. efCall' \in [EfCallers -> [at : {"idle", "waiting", "answered", "returned"},
                                   asked : Texts \cup {"none"},
                                   answer : Texts \cup {"none", "failed", "closed", "canceled"}]]
    BY <1>2 DEF EfInv, EfTypes
  <2> QED BY <1>1, <2>1, <2>2 DEF EfInv, EfTypes
<1>6. MembersAsked'
  BY <1>3, <1>4 DEF EfInv, EfTypes, MembersAsked
<1>7. OneFlight'
  BY <1>3 DEF EfInv, OneFlight
<1>8. OpenCarries'
  BY <1>3 DEF EfInv, OpenCarries
<1>9. /\ efCall'[c].at = "returned" /\ efCall'[c].asked = efCall[c].asked
      /\ \/ efCall'[c].answer = efCall[c].answer /\ efCall[c].at = "answered"
         \/ efCall'[c].answer = "canceled" /\ c \in efCancelled
  BY <1>2 DEF EfInv, EfTypes
<1>10. AnswersOwn'
  BY <1>1, <1>2, <1>4, <1>9 DEF EfInv, AnswersOwn, Own
<1> QED BY <1>5, <1>6, <1>7, <1>8, <1>10 DEF EfInv

\* A flight is granted its permit.
LEMMA AdmitFlightKeeps ==
  ASSUME EfInv, NEW f \in Flights, AdmitFlight(f)
  PROVE  EfInv'
<1>1. /\ efFlight' = [efFlight EXCEPT ![f].state = "requesting"]
      /\ efFlight[f].state = "queued" /\ UNCHANGED <<efCall, efSlice, efCancelled>>
  BY DEF AdmitFlight
<1>2. \A g \in Flights : /\ efFlight'[g].key = efFlight[g].key
                         /\ efFlight'[g].members = efFlight[g].members
                         /\ efFlight'[g].state = efFlight[g].state \/ g = f
  BY <1>1 DEF EfInv, EfTypes
<1>3. EfTypes'
  BY <1>1 DEF EfInv, EfTypes, FlightStates
<1> QED BY <1>1, <1>2, <1>3 DEF EfInv, MembersAsked, OneFlight, OpenCarries, AnswersOwn, Own

LEMMA CallerContinuesKeeps ==
  ASSUME EfInv, NEW c \in EfCallers, CallerContinues(c)
  PROVE  EfInv'
<1>1. /\ efCall[c].at = "returned" /\ efCall' = [efCall EXCEPT ![c] = NoCall]
      /\ efCancelled' = efCancelled \ {c} /\ UNCHANGED <<efFlight, efSlice>>
  BY DEF CallerContinues
<1>2. efCall'[c] = NoCall /\ \A d \in EfCallers : d # c => efCall'[d] = efCall[d]
  BY <1>1 DEF EfInv, EfTypes
<1>3. \A f \in Flights : c \notin efFlight[f].members
  BY <1>1 DEF EfInv, MembersAsked
<1>4. EfTypes'
  BY <1>1 DEF EfInv, EfTypes, NoCall
<1>5. MembersAsked'
  BY <1>1, <1>2, <1>3 DEF EfInv, EfTypes, MembersAsked
<1>6. AnswersOwn'
  BY <1>1, <1>2 DEF EfInv, AnswersOwn, Own, NoCall
<1>7. OneFlight' /\ OpenCarries'
  BY <1>1 DEF EfInv, OneFlight, OpenCarries
<1> QED BY <1>4, <1>5, <1>6, <1>7 DEF EfInv

LEMMA EfStepKeeps == EfInv /\ [EfNext]_efVars => EfInv'
<1> SUFFICES ASSUME EfInv, [EfNext]_efVars PROVE EfInv'
  OBVIOUS
<1>1. CASE \E c \in EfCallers : Embed(c)
  BY <1>1, EmbedKeeps
<1>2. CASE \E c \in EfCallers : EmbedReturns(c)
  BY <1>2, EmbedReturnsKeeps
<1>3. CASE \E c \in EfCallers : CallerContinues(c)
  BY <1>3, CallerContinuesKeeps
<1>4. CASE \E c \in EfCallers : CallerEnds(c)
  BY <1>4 DEF CallerEnds, EfInv, EfTypes, MembersAsked, OneFlight, OpenCarries, AnswersOwn, Own
<1>5. CASE \E c \in EfCallers, t \in Texts : SliceReused(c, t)
  BY <1>5 DEF SliceReused, EfInv, EfTypes, MembersAsked, OneFlight, OpenCarries, AnswersOwn, Own
<1>6. CASE \E f \in Flights : AdmitFlight(f)
  BY <1>6, AdmitFlightKeeps
<1>7. CASE \E f \in Flights : FlightRejected(f)
  <2>1. PICK f \in Flights : efFlight[f].state = "queued" /\ Land(f, "closed")
    BY <1>7 DEF FlightRejected
  <2>2. efFlight[f].key \in Texts
    BY <2>1 DEF EfInv, OpenCarries
  <2> QED BY <2>1, <2>2, LandKeeps
<1>8. CASE \E f \in Flights : Respond(f)
  <2>1. PICK f \in Flights : efFlight[f].state = "requesting"
          /\ \E result \in {efFlight[f].key, "failed"} : Land(f, result)
    BY <1>8 DEF Respond, Body, Failures
  <2>2. efFlight[f].key \in Texts
    BY <2>1 DEF EfInv, OpenCarries
  <2> QED BY <2>1, <2>2, LandKeeps
<1>9. CASE RouterCloses \/ UNCHANGED efVars
  BY <1>9 DEF RouterCloses, efVars, EfInv, EfTypes, MembersAsked, OneFlight, OpenCarries,
              AnswersOwn, Own
<1> QED BY <1>1, <1>2, <1>3, <1>4, <1>5, <1>6, <1>7, <1>8, <1>9 DEF EfNext

\* Sharing a flight is invisible (embed): whoever leads the flight, and whatever
\* becomes of the slices and contexts of the others, a call returns the embedding
\* of what it asked for, or an error, and "canceled" only for its own context.
THEOREM CallsAreTheirOwn == EfSpec => []EachCallItsOwn
<1>1. EfInv => EachCallItsOwn
  BY TextsAssumption DEF EfInv, AnswersOwn, Own, EachCallItsOwn
<1> QED BY <1>1, EfInitHolds, EfStepKeeps, PTL DEF EfSpec
=============================================================================
