---------------------------- MODULE DocumentSave ----------------------------
(***************************************************************************)
(* Saving configuration documents (config/document_save.go) as profiles    *)
(* (profiles/store.go, SaveAs).  Goroutines of one process save documents, *)
(* creating a file or replacing the revision its author saw, while other   *)
(* goroutines edit the drafts and other programs write the files.  A       *)
(* content stands for its own digest, the revision; the merge that renders *)
(* a draft is a function of the draft.                                     *)
(***************************************************************************)
EXTENDS Naturals

CONSTANTS Savers,       \* goroutines that save
          Documents,
          Paths,
          DsMaxContent  \* bound: contents told apart

ASSUME DsBounds == DsMaxContent \in Nat \ {0}

ASSUME SaversAssumption == "free" \notin Savers

Contents == 1..DsMaxContent

NoFile == 0

NoSave == [doc |-> "none", path |-> "none", expected |-> NoFile, out |-> NoFile,
           seen |-> NoFile, outcome |-> NoFile]

VARIABLES
  dsFile,                 \* per path: its content, or NoFile
  dsForeign,              \* history, per path: another program wrote it last
  dsDraft, dsRevision,    \* per document: what its author wrote; what it was last loaded or saved as
  dsPathLock, dsDocLock,  \* saveLocks and Document.mu: the holder, or "free"
  dsPc, dsSave            \* per saver

dsVars == <<dsFile, dsForeign, dsDraft, dsRevision, dsPathLock, dsDocLock, dsPc, dsSave>>

DsInit ==
  /\ dsFile = [p \in Paths |-> NoFile] /\ dsForeign = [p \in Paths |-> FALSE]
  /\ dsDraft = [d \in Documents |-> 1] /\ dsRevision = [d \in Documents |-> 1]
  /\ dsPathLock = [p \in Paths |-> "free"] /\ dsDocLock = [d \in Documents |-> "free"]
  /\ dsPc = [s \in Savers |-> "idle"] /\ dsSave = [s \in Savers |-> NoSave]

DsGoto(s, place) == dsPc' = [dsPc EXCEPT ![s] = place]

Target(s) == dsFile[dsSave[s].path]

Creates(s) == dsSave[s].expected = NoFile

-----------------------------------------------------------------------------

\* SaveAs: without a revision the save creates, with one it replaces.
SaveAs(s) ==
  /\ dsPc[s] = "idle"
  /\ \E d \in Documents, p \in Paths, e \in Contents \cup {NoFile} :
       dsSave' = [dsSave EXCEPT ![s] = [NoSave EXCEPT !.doc = d, !.path = p, !.expected = e]]
  /\ DsGoto(s, "lockPath")
  /\ UNCHANGED <<dsFile, dsForeign, dsDraft, dsRevision, dsPathLock, dsDocLock>>

LockPath(s) ==
  /\ dsPc[s] = "lockPath" /\ dsPathLock[dsSave[s].path] = "free"
  /\ dsPathLock' = [dsPathLock EXCEPT ![dsSave[s].path] = s]
  /\ DsGoto(s, "lockDoc")
  /\ UNCHANGED <<dsFile, dsForeign, dsDraft, dsRevision, dsDocLock, dsSave>>

LockDoc(s) ==
  /\ dsPc[s] = "lockDoc" /\ dsDocLock[dsSave[s].doc] = "free"
  /\ dsDocLock' = [dsDocLock EXCEPT ![dsSave[s].doc] = s]
  /\ DsGoto(s, "read")
  /\ UNCHANGED <<dsFile, dsForeign, dsDraft, dsRevision, dsPathLock, dsSave>>

Unlock(s) ==
  /\ dsPathLock' = [dsPathLock EXCEPT ![dsSave[s].path] = "free"]
  /\ dsDocLock' = [dsDocLock EXCEPT ![dsSave[s].doc] = "free"]

\* The save is refused or fails before publication.
GiveUp(s) ==
  /\ dsPc[s] \in {"read", "check", "publish"}
  /\ Unlock(s)
  /\ dsSave' = [dsSave EXCEPT ![s] = NoSave]
  /\ DsGoto(s, "idle")
  /\ UNCHANGED <<dsFile, dsForeign, dsDraft, dsRevision>>

Expected(s) == Target(s) = dsSave[s].expected

\* The first comparison of a replacement, the canonical snapshot, the sibling file.
Snapshot(s) ==
  /\ dsPc[s] = "read" /\ (Creates(s) \/ Expected(s))
  /\ dsSave' = [dsSave EXCEPT ![s].out = dsDraft[dsSave[s].doc]]
  /\ DsGoto(s, IF Creates(s) THEN "publish" ELSE "check")
  /\ UNCHANGED <<dsFile, dsForeign, dsDraft, dsRevision, dsPathLock, dsDocLock>>

\* mutant: no comparison after the sibling file is written
StillExpectedUnchecked(s) == TRUE

\* The comparison after the sibling file is synced, or before a save of
\* unchanged content is taken for done.
StillExpected(s) == Expected(s)

FinalCheck(s) ==
  /\ dsPc[s] = "check" /\ StillExpected(s)
  /\ dsSave' = [dsSave EXCEPT ![s].seen = Target(s)]
  /\ DsGoto(s, IF dsSave[s].out = dsSave[s].expected THEN "commit" ELSE "publish")
  /\ UNCHANGED <<dsFile, dsForeign, dsDraft, dsRevision, dsPathLock, dsDocLock>>

\* os.Rename replaces whatever is there; os.Link only creates.  A failed
\* directory sync afterwards is a warning.
PublishSave(s) ==
  /\ dsPc[s] = "publish" /\ (Creates(s) => Target(s) = NoFile)
  /\ dsFile' = [dsFile EXCEPT ![dsSave[s].path] = dsSave[s].out]
  /\ dsForeign' = [dsForeign EXCEPT ![dsSave[s].path] = FALSE]
  /\ DsGoto(s, "commit")
  /\ UNCHANGED <<dsDraft, dsRevision, dsPathLock, dsDocLock, dsSave>>

\* commitSavedLocked and the two unlocks.
CommitSave(s) ==
  /\ dsPc[s] = "commit"
  /\ dsRevision' = [dsRevision EXCEPT ![dsSave[s].doc] = dsSave[s].out]
  /\ Unlock(s)
  /\ DsGoto(s, "saved")
  /\ UNCHANGED <<dsFile, dsForeign, dsDraft, dsSave>>

\* SaveAs asks the document for the revision it reports once the save has returned.
ReportSave(s) ==
  /\ dsPc[s] = "saved"
  /\ dsDocLock[dsSave[s].doc] = "free"
  /\ dsSave' = [dsSave EXCEPT ![s].outcome = dsRevision[dsSave[s].doc]]
  /\ DsGoto(s, "reported")
  /\ UNCHANGED <<dsFile, dsForeign, dsDraft, dsRevision, dsPathLock, dsDocLock>>

Returns(s) ==
  /\ dsPc[s] = "reported"
  /\ dsSave' = [dsSave EXCEPT ![s] = NoSave]
  /\ DsGoto(s, "idle")
  /\ UNCHANGED <<dsFile, dsForeign, dsDraft, dsRevision, dsPathLock, dsDocLock>>

-----------------------------------------------------------------------------

\* Document.mutate, under the document's lock.
Mutate(d, c) ==
  /\ dsDocLock[d] = "free" /\ dsDraft[d] # c
  /\ dsDraft' = [dsDraft EXCEPT ![d] = c]
  /\ UNCHANGED <<dsFile, dsForeign, dsRevision, dsPathLock, dsDocLock, dsPc, dsSave>>

\* Another program writes or removes the file.
ExternalWrite(p, c) ==
  /\ dsFile[p] # c
  /\ dsFile' = [dsFile EXCEPT ![p] = c] /\ dsForeign' = [dsForeign EXCEPT ![p] = TRUE]
  /\ UNCHANGED <<dsDraft, dsRevision, dsPathLock, dsDocLock, dsPc, dsSave>>

DsNext ==
  \/ \E s \in Savers :
       \/ SaveAs(s) \/ LockPath(s) \/ LockDoc(s) \/ Snapshot(s) \/ FinalCheck(s)
       \/ PublishSave(s) \/ CommitSave(s) \/ ReportSave(s) \/ Returns(s) \/ GiveUp(s)
  \/ \E d \in Documents, c \in Contents : Mutate(d, c)
  \/ \E p \in Paths, c \in Contents \cup {NoFile} : ExternalWrite(p, c)

DsSpec == DsInit /\ [][DsNext]_dsVars

-----------------------------------------------------------------------------
(* Properties *)

\* A save overwrites nothing its author has not seen: what it replaces is the
\* expected revision, and what it creates was absent, unless another program wrote
\* in the documented window between the final comparison and the rename.  Two saves
\* of this process never overwrite each other, in that window or out of it.
SaveOverwritesOnlySeen ==
  [][\A s \in Savers : dsPc[s] = "publish" /\ dsPc'[s] = "commit" =>
       \/ Expected(s)
       \/ ~Creates(s) /\ Target(s) # dsSave[s].seen /\ dsForeign[dsSave[s].path]]_dsVars

\* SaveOutcome "reports what SaveAs actually did": the revision it returns is the
\* one that this save published.
OutcomeIsOwn ==
  \A s \in Savers : dsPc[s] = "reported" => dsSave[s].outcome = dsSave[s].out
=============================================================================
