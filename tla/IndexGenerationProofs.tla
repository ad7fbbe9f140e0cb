----------------------- MODULE IndexGenerationProofs -----------------------
(***************************************************************************)
(* Proofs about IndexGeneration, for every set of writers, documents and   *)
(* vector spaces: the active pointer names a finalised generation, no      *)
(* rebuild drops a managed document, and an index of sensitive content is  *)
(* retired.  The lease makes the writers take turns, so the invariant      *)
(* follows one writer through its command: what it resolved is still what  *)
(* the pointer says, and what it builds is not what the pointer names.     *)
(***************************************************************************)
EXTENDS IndexGeneration, TLAPS

Pointers == Gens \cup {NoPointer, Retired}

Jobs ==
  [kind : {"none", "index", "auto", "add", "rm", "reindex"}, doc : SUBSET IxDocs,
   space : SUBSET IxSpaces, full : BOOLEAN, old : Pointers, activeOK : BOOLEAN,
   gen : Gens \cup {NoGen}, policy : BOOLEAN, retireFailed : BOOLEAN]

Stored == [managed : SUBSET IxDocs, walked : BOOLEAN, space : SUBSET IxSpaces]

Places ==
  {"idle", "collect", "staging", "built", "final", "buildFailed", "publishFailed",
   "retire", "retireThenRemove", "unpublished", "done"}

\* The types the arguments need.
IxTypes ==
  /\ ixDirs \in [Gens -> {"none", "staging", "final"}]
  /\ ixContent \in [Gens -> Stored]
  /\ ixPointer \in Pointers
  /\ ixPc \in [IxWriters -> Places]
  /\ ixJob \in [IxWriters -> Jobs]
  /\ \A w \in IxWriters : ixJob[w].activeOK => ixJob[w].old \in Gens

\* A command under way has the lease.
UnderLease == \A w \in IxWriters : ixPc[w] # "idle" => ixLease = w

\* What the job will not lose of the index it found.
Kept(job) == ixContent[job.old].managed \ (IF job.kind = "rm" THEN job.doc ELSE {})

\* Until it publishes or retires, the pointer is the one it resolved, and a
\* rebuild from scratch has nothing to lose.
BeforeBuild(w) ==
  ixPc[w] \in {"collect", "staging"} =>
    /\ ixJob[w].old = ixPointer
    /\ ixPointer \in Gens /\ ~Inherits(ixJob[w]) => ixContent[ixPointer].managed = {}

\* The directory it fills is its own.
InStaging(w) ==
  ixPc[w] \in {"staging", "built"} =>
    ixJob[w].gen \in Gens /\ ixDirs[ixJob[w].gen] = "staging"

\* What it built keeps the managed documents, and is not what readers follow.
AfterBuild(w) ==
  ixPc[w] \in {"built", "final"} =>
    /\ ixJob[w].old = ixPointer
    /\ ixJob[w].gen \in Gens
    /\ ixPointer \in Gens => Kept(ixJob[w]) \subseteq ixContent[ixJob[w].gen].managed

Finalized(w) ==
  ixPc[w] = "final" =>
    ixDirs[ixJob[w].gen] = "final" /\ ixJob[w].gen # ixPointer

\* A policy outcome is settled before the command ends.
PolicySettled(w) ==
  ixPc[w] \in {"done", "unpublished"} =>
    \/ ~ixJob[w].policy \/ ixJob[w].retireFailed
    \/ ixPointer = Retired \/ ixPointer # ixJob[w].old

Facts(w) ==
  BeforeBuild(w) /\ InStaging(w) /\ AfterBuild(w) /\ Finalized(w) /\ PolicySettled(w)

IxInv ==
  IxTypes /\ UnderLease /\ ActiveIsComplete /\ \A w \in IxWriters : Facts(w)

\* What writer w does with its lease, and how it gets and loses it.
Work(w) ==
  \/ Collect(w) \/ Collected(w) \/ Build(w) \/ RmLast(w) \/ Finalize(w)
  \/ BuildFails(w) \/ CleanUp(w) \/ OpenFails(w)
  \/ Publish(w) \/ PublishFails(w) \/ AfterPublishFailed(w) \/ Retire(w) \/ Unpublished(w)

Leave(w) == Release(w) \/ IxCrash(w)

-----------------------------------------------------------------------------
(* Types *)

LEMMA InitTypes == IxInit => IxTypes
BY IxBounds DEF IxInit, IxTypes, Gens, Pointers, NoPointer, Empty, Stored, Jobs, Places, IxIdle, NoGen

\* What a build stores is an index.
LEMMA StagedTyped ==
  ASSUME IxTypes, NEW w \in IxWriters
  PROVE  Staged(ixJob[w]) \in Stored
<1> DEFINE job == ixJob[w]
           base == IF Inherits(job) THEN ixContent[job.old] ELSE [Empty EXCEPT !.space = job.space]
<1>1. job \in Jobs /\ (job.activeOK => job.old \in Gens)
  BY DEF IxTypes
<1>2. base \in Stored
  BY <1>1 DEF IxTypes, Inherits, Empty, Stored, Jobs
<1>3. /\ [base EXCEPT !.managed = @ \cup job.doc] \in Stored
      /\ [base EXCEPT !.managed = @ \ job.doc] \in Stored
      /\ [base EXCEPT !.walked = TRUE] \in Stored
  <2> HIDE DEF base
  <2> QED BY <1>1, <1>2 DEF Stored, Jobs
<1> QED BY <1>2, <1>3 DEF Staged

\* A command starts with the job it resolved, which it does not refuse.
LEMMA BeginJob ==
  ASSUME IxTypes, NEW w \in IxWriters, Begin(w)
  PROVE  /\ ixJob'[w] \in Jobs /\ Accepted(ixJob'[w])
         /\ ixJob'[w].old = ixPointer
         /\ ixJob'[w].activeOK => ixPointer \in Gens
<1>1. PICK kind \in {"index", "auto", "add", "rm", "reindex"}, d \in IxDocs, v \in IxSpaces,
           full \in BOOLEAN :
        /\ Accepted(Resolved(kind, d, v, full))
        /\ ixJob' = [ixJob EXCEPT ![w] = Resolved(kind, d, v, full)]
  BY DEF Begin
<1>2. ixJob'[w] = Resolved(kind, d, v, full)
  BY <1>1 DEF IxTypes
<1>3. Resolvable(ixPointer) \in BOOLEAN /\ (Resolvable(ixPointer) => ixPointer \in Gens)
  BY DEF Resolvable
<1>4. Resolved(kind, d, v, full) \in Jobs
  BY <1>3 DEF Resolved, Jobs, IxTypes
<1>5. /\ Resolved(kind, d, v, full).old = ixPointer
      /\ Resolved(kind, d, v, full).activeOK = Resolvable(ixPointer)
  BY DEF Resolved
<1> QED BY <1>1, <1>2, <1>3, <1>4, <1>5

LEMMA BeginTyped ==
  ASSUME IxTypes, NEW w \in IxWriters, Begin(w)
  PROVE  IxTypes'
<1>1. /\ ixJob'[w] \in Jobs
      /\ ixJob'[w].activeOK => ixJob'[w].old \in Gens
  BY BeginJob
<1>2. \E job : ixJob' = [ixJob EXCEPT ![w] = job]
  BY DEF Begin
<1> QED BY <1>1, <1>2 DEF IxTypes, Begin, Goto, Places

LEMMA WorkTyped ==
  ASSUME IxTypes, NEW w \in IxWriters, Work(w)
  PROVE  IxTypes'
<1> USE DEF IxTypes, Goto, Places
<1>1. CASE Collect(w) BY <1>1 DEF Collect, Garbage
<1>2. CASE Collected(w) BY <1>2 DEF Collected, Jobs
<1>3. CASE Build(w)
  <2>1. Staged(ixJob[w]) \in Stored
    BY StagedTyped
  <2>2. ixContent' \in [Gens -> Stored]
    BY <1>3, <2>1 DEF Build
  <2> QED BY <1>3, <2>2 DEF Build, Jobs
<1>4. CASE RmLast(w) BY <1>4 DEF RmLast, StagingRemoved
<1>5. CASE Finalize(w) BY <1>5 DEF Finalize
<1>6. CASE BuildFails(w) BY <1>6 DEF BuildFails, Jobs
<1>7. CASE CleanUp(w) BY <1>7 DEF CleanUp, StagingRemoved
<1>8. CASE OpenFails(w) BY <1>8 DEF OpenFails
<1>9. CASE Publish(w) BY <1>9 DEF Publish, Jobs, Pointers, NoGen, NoPointer
<1>10. CASE PublishFails(w) BY <1>10 DEF PublishFails
<1>11. CASE AfterPublishFailed(w) BY <1>11 DEF AfterPublishFailed
<1>12. CASE Retire(w)
  <2>1. ixPointer' \in Pointers
    BY <1>12 DEF Retire, Pointers
  <2>2. ixJob' = ixJob \/ ixJob' = [ixJob EXCEPT ![w].retireFailed = TRUE]
    BY <1>12 DEF Retire
  <2>3. /\ ixJob' \in [IxWriters -> Jobs]
        /\ \A v \in IxWriters : ixJob'[v].activeOK => ixJob'[v].old \in Gens
    <3>1. CASE ixJob' = ixJob BY <3>1
    <3>2. CASE ixJob' = [ixJob EXCEPT ![w].retireFailed = TRUE]
      <4> DEFINE new == [ixJob[w] EXCEPT !.retireFailed = TRUE]
      <4>1. new \in Jobs /\ new.activeOK = ixJob[w].activeOK /\ new.old = ixJob[w].old
        BY DEF Jobs
      <4>2. ixJob' = [ixJob EXCEPT ![w] = new]
        BY <3>2
      <4> HIDE DEF new
      <4> QED BY <4>1, <4>2
    <3> QED BY <2>2, <3>1, <3>2
  <2> QED BY <1>12, <2>1, <2>3 DEF Retire
<1>13. CASE Unpublished(w) BY <1>13 DEF Unpublished
<1> QED BY <1>1, <1>2, <1>3, <1>4, <1>5, <1>6, <1>7, <1>8, <1>9, <1>10, <1>11, <1>12, <1>13 DEF Work

LEMMA LeaveTyped ==
  ASSUME IxTypes, NEW w \in IxWriters, Leave(w)
  PROVE  IxTypes'
<1>1. IxIdle \in Jobs /\ ~IxIdle.activeOK
  BY DEF IxIdle, Jobs, Pointers, NoPointer, NoGen
<1>2. /\ ixJob' = [ixJob EXCEPT ![w] = IxIdle]
      /\ ixPc' = [ixPc EXCEPT ![w] = "idle"]
      /\ UNCHANGED <<ixDirs, ixContent, ixPointer>>
  BY DEF Leave, Release, IxCrash, Goto
<1> QED BY <1>1, <1>2 DEF IxTypes, Places

-----------------------------------------------------------------------------
(* One writer at a time *)

\* While a writer is under way, or while the lease is free, the others are idle.
LEMMA OthersIdle ==
  ASSUME IxInv, NEW w \in IxWriters, ixPc[w] # "idle" \/ ixLease = "free",
         NEW v \in IxWriters, v # w
  PROVE  ixPc[v] = "idle"
BY IxWritersAssumption DEF IxInv, UnderLease

\* Nothing is claimed of an idle writer.
LEMMA IdleFacts ==
  ASSUME NEW v \in IxWriters, ixPc[v] = "idle"
  PROVE  Facts(v)
BY DEF Facts, BeforeBuild, InStaging, AfterBuild, Finalized, PolicySettled

\* What a working step leaves alone.
LEMMA WorkFrame ==
  ASSUME IxTypes, NEW w \in IxWriters, Work(w)
  PROVE  /\ ixPc[w] # "idle" /\ ixPc'[w] # "idle" /\ ixLease' = ixLease
         /\ \A v \in IxWriters : v # w => ixPc'[v] = ixPc[v]
         /\ ixJob'[w].old = ixJob[w].old /\ ixJob'[w].kind = ixJob[w].kind
         /\ ixJob'[w].doc = ixJob[w].doc
<1> USE DEF IxTypes, Goto, Jobs
<1>1. CASE Collect(w) BY <1>1 DEF Collect
<1>2. CASE Collected(w) BY <1>2 DEF Collected
<1>3. CASE Build(w) BY <1>3 DEF Build
<1>4. CASE RmLast(w) BY <1>4 DEF RmLast
<1>5. CASE Finalize(w) BY <1>5 DEF Finalize
<1>6. CASE BuildFails(w) BY <1>6 DEF BuildFails
<1>7. CASE CleanUp(w) BY <1>7 DEF CleanUp
<1>8. CASE OpenFails(w) BY <1>8 DEF OpenFails
<1>9. CASE Publish(w) BY <1>9 DEF Publish
<1>10. CASE PublishFails(w) BY <1>10 DEF PublishFails
<1>11. CASE AfterPublishFailed(w) BY <1>11 DEF AfterPublishFailed
<1>12. CASE Retire(w) BY <1>12 DEF Retire
<1>13. CASE Unpublished(w) BY <1>13 DEF Unpublished
<1> QED BY <1>1, <1>2, <1>3, <1>4, <1>5, <1>6, <1>7, <1>8, <1>9, <1>10, <1>11, <1>12, <1>13 DEF Work

-----------------------------------------------------------------------------
(* The invariant is inductive *)

\* A build keeps what it must of the index it found.
LEMMA StagedKeeps ==
  ASSUME IxTypes, NEW w \in IxWriters, BeforeBuild(w), ixPc[w] = "staging", ixPointer \in Gens
  PROVE  Kept(ixJob[w]) \subseteq Staged(ixJob[w]).managed
<1> DEFINE job == ixJob[w]
           base == IF Inherits(job) THEN ixContent[job.old] ELSE [Empty EXCEPT !.space = job.space]
<1>1. job \in Jobs /\ job.old = ixPointer /\ ixContent[job.old] \in Stored
  BY DEF BeforeBuild, IxTypes
<1>2. base \in Stored /\ ixContent[job.old].managed \subseteq base.managed
  <2>1. CASE Inherits(job) BY <1>1, <2>1
  <2>2. CASE ~Inherits(job)
    <3>1. ixContent[job.old].managed = {}
      BY <1>1, <2>2 DEF BeforeBuild
    <3> QED BY <1>1, <2>2, <3>1 DEF Empty, Stored, Jobs
  <2> QED BY <2>1, <2>2
<1>3. Staged(job).managed = CASE job.kind = "add" -> base.managed \cup job.doc
                              [] job.kind = "rm"  -> base.managed \ job.doc
                              [] OTHER            -> base.managed
  <2>1. /\ [base EXCEPT !.managed = @ \cup job.doc].managed = base.managed \cup job.doc
        /\ [base EXCEPT !.managed = @ \ job.doc].managed = base.managed \ job.doc
        /\ [base EXCEPT !.walked = TRUE].managed = base.managed
    <3> HIDE DEF base
    <3> QED BY <1>2 DEF Stored
  <2> QED BY <2>1 DEF Staged
<1> HIDE DEF base
<1>4. CASE job.kind = "rm" BY <1>2, <1>3, <1>4 DEF Kept
<1>5. CASE job.kind # "rm" BY <1>2, <1>3, <1>5 DEF Kept
<1> QED BY <1>4, <1>5

\* One step of the writer at work.
LEMMA WorkFacts ==
  ASSUME IxInv, IxTypes', NEW w \in IxWriters, Work(w)
  PROVE  ActiveIsComplete' /\ Facts(w)'
<1> DEFINE job == ixJob[w]
<1>0. /\ IxTypes /\ ActiveIsComplete /\ Facts(w)
      /\ job \in Jobs /\ ixPc[w] \in Places
  BY DEF IxInv, IxTypes
<1>a. /\ ixJob'[w].old = job.old /\ ixJob'[w].kind = job.kind /\ ixJob'[w].doc = job.doc
  BY <1>0, WorkFrame
<1> USE DEF Facts, ActiveIsComplete, IxTypes, Goto
<1>1. CASE Collect(w)
  <2>1. PICK g \in Garbage(job) : ixDirs' = [ixDirs EXCEPT ![g] = "none"]
    BY <1>1 DEF Collect
  <2>2. g # ixPointer
    BY <1>0, <1>1, <2>1 DEF Collect, Garbage, BeforeBuild, NoActive, Gens, NoPointer, Retired
  <2>3. ixPc' = ixPc /\ ixPc[w] = "collect" /\ UNCHANGED <<ixPointer, ixJob, ixContent>>
    BY <1>1 DEF Collect
  <2>4. ActiveIsComplete'
    BY <1>0, <2>1, <2>2, <2>3
  <2> QED BY <1>0, <2>3, <2>4 DEF BeforeBuild, InStaging, AfterBuild, Finalized, PolicySettled, Inherits
<1>2. CASE Collected(w)
  <2>1. PICK g \in Gens : /\ ixDirs[g] = "none" /\ ixDirs' = [ixDirs EXCEPT ![g] = "staging"]
                          /\ ixJob' = [ixJob EXCEPT ![w].gen = g]
    BY <1>2 DEF Collected
  <2>2. ixPc'[w] = "staging" /\ ixPc[w] = "collect" /\ UNCHANGED <<ixPointer, ixContent>>
    BY <1>0, <1>2 DEF Collected
  <2>3. ActiveIsComplete'
    BY <1>0, <2>1, <2>2
  <2>4. ixJob'[w].gen = g /\ ixDirs'[g] = "staging"
    BY <1>0, <2>1 DEF Jobs
  <2>5. Inherits(ixJob[w]) <=> Inherits(ixJob[w])'
    BY <1>0, <2>1, <2>2 DEF Inherits, Jobs
  <2>6. BeforeBuild(w)'
    BY <1>0, <1>a, <2>2, <2>5 DEF BeforeBuild
  <2> QED BY <1>0, <2>1, <2>2, <2>3, <2>4, <2>6 DEF InStaging, AfterBuild, Finalized, PolicySettled
<1>3. CASE Build(w)
  <2>1. /\ ixPc[w] = "staging" /\ ixPc'[w] = "built"
        /\ ixContent' = [ixContent EXCEPT ![job.gen] = Staged(job)]
        /\ ixJob'[w].gen = job.gen
        /\ UNCHANGED <<ixDirs, ixPointer>>
    BY <1>0, <1>3 DEF Build, Jobs
  <2>2. job.old = ixPointer /\ job.gen \in Gens /\ ixDirs[job.gen] = "staging"
    BY <1>0, <2>1 DEF BeforeBuild, InStaging
  <2>3. ASSUME ixPointer \in Gens PROVE Kept(ixJob[w])' \subseteq ixContent'[job.gen].managed
    <3>1. Kept(job) \subseteq Staged(job).managed
      BY <1>0, <2>1, <2>3, StagedKeeps
    <3>2. job.gen # ixPointer
      BY <1>0, <2>2, <2>3
    <3>3. ixContent'[ixPointer] = ixContent[ixPointer] /\ ixContent'[job.gen] = Staged(job)
      BY <1>0, <2>1, <2>2, <2>3, <3>2
    <3> QED BY <1>a, <2>1, <2>2, <3>1, <3>3 DEF Kept
  <2>4. AfterBuild(w)'
    BY <1>a, <2>1, <2>2, <2>3 DEF AfterBuild
  <2> QED BY <1>0, <2>1, <2>2, <2>4 DEF BeforeBuild, InStaging, Finalized, PolicySettled
<1>4. CASE RmLast(w)
  BY <1>0, <1>4 DEF RmLast, StagingRemoved, BeforeBuild, InStaging, AfterBuild, Finalized, PolicySettled
<1>5. CASE Finalize(w)
  <2>1. /\ ixPc[w] = "built" /\ ixPc'[w] \in {"final", "buildFailed"}
        /\ ixDirs' = [ixDirs EXCEPT ![job.gen] = "final"]
        /\ UNCHANGED <<ixContent, ixPointer, ixJob>>
    BY <1>0, <1>5 DEF Finalize
  <2>2. job.gen \in Gens /\ ixDirs[job.gen] = "staging"
    BY <1>0, <2>1 DEF InStaging
  <2>3. ActiveIsComplete' /\ Finalized(w)'
    BY <1>0, <2>1, <2>2 DEF Finalized
  <2> QED BY <1>0, <2>1, <2>2, <2>3 DEF BeforeBuild, InStaging, AfterBuild, PolicySettled, Kept
<1>6. CASE BuildFails(w)
  BY <1>0, <1>6 DEF BuildFails, BeforeBuild, InStaging, AfterBuild, Finalized, PolicySettled
<1>7. CASE CleanUp(w)
  <2>1. ActiveIsComplete'
    BY <1>0, <1>7 DEF CleanUp, StagingRemoved
  <2> QED BY <1>0, <1>7, <2>1 DEF CleanUp, MustRetire, BeforeBuild, InStaging, AfterBuild, Finalized, PolicySettled
<1>8. CASE OpenFails(w)
  <2>1. ActiveIsComplete'
    BY <1>0, <1>8 DEF OpenFails, Finalized
  <2> QED BY <1>0, <1>8, <2>1 DEF OpenFails, MustRetire, BeforeBuild, InStaging, AfterBuild, Finalized, PolicySettled
<1>9. CASE Publish(w)
  <2>1. /\ ixPc[w] = "final" /\ ixPc'[w] \in {"done", "publishFailed", "retire"}
        /\ ixPointer' = job.gen /\ UNCHANGED <<ixDirs, ixJob>>
    BY <1>0, <1>9 DEF Publish
  <2>2. job.old = ixPointer /\ ixDirs[job.gen] = "final" /\ job.gen # ixPointer
    BY <1>0, <2>1 DEF AfterBuild, Finalized
  <2> QED BY <1>0, <2>1, <2>2 DEF BeforeBuild, InStaging, AfterBuild, Finalized, PolicySettled
<1>10. CASE PublishFails(w)
  BY <1>0, <1>10 DEF PublishFails, BeforeBuild, InStaging, AfterBuild, Finalized, PolicySettled
<1>11. CASE AfterPublishFailed(w)
  BY <1>0, <1>11 DEF AfterPublishFailed, MustRetire, BeforeBuild, InStaging, AfterBuild, Finalized, PolicySettled
<1>12. CASE Retire(w)
  <2>1. /\ ixPc'[w] \in {"done", "unpublished"} /\ ixPointer' \in {ixPointer, Retired}
        /\ UNCHANGED ixDirs
    BY <1>0, <1>12 DEF Retire
  <2>2. ActiveIsComplete'
    BY <1>0, <2>1 DEF Gens, Retired
  <2>3. ixPointer' = Retired \/ ixJob'[w].retireFailed
    BY <1>0, <1>12 DEF Retire, Jobs
  <2> QED BY <2>1, <2>2, <2>3 DEF BeforeBuild, InStaging, AfterBuild, Finalized, PolicySettled
<1>13. CASE Unpublished(w)
  <2>1. ActiveIsComplete'
    BY <1>0, <1>13 DEF Unpublished, ShouldRemoveUnpublished
  <2> QED BY <1>0, <1>13, <2>1 DEF Unpublished, BeforeBuild, InStaging, AfterBuild, Finalized, PolicySettled
<1> QED BY <1>1, <1>2, <1>3, <1>4, <1>5, <1>6, <1>7, <1>8, <1>9, <1>10, <1>11, <1>12, <1>13 DEF Work

LEMMA WorkKeeps ==
  ASSUME IxInv, NEW w \in IxWriters, Work(w)
  PROVE  IxInv'
<1>1. IxTypes'
  BY WorkTyped DEF IxInv
<1>2. ActiveIsComplete' /\ Facts(w)'
  BY <1>1, WorkFacts
<1>3. /\ ixPc[w] # "idle" /\ ixPc'[w] # "idle" /\ ixLease' = ixLease
      /\ \A v \in IxWriters : v # w => ixPc'[v] = ixPc[v]
  BY WorkFrame DEF IxInv
<1>4. ASSUME NEW v \in IxWriters, v # w PROVE ixPc'[v] = "idle"
  BY <1>3, <1>4, OthersIdle
<1>5. \A v \in IxWriters : Facts(v)'
  <2> TAKE v \in IxWriters
  <2>1. CASE v = w BY <1>2, <2>1
  <2>2. CASE v # w
    <3>1. ixPc'[v] = "idle"
      BY <1>4, <2>2
    <3> QED BY <3>1 DEF Facts, BeforeBuild, InStaging, AfterBuild, Finalized, PolicySettled
  <2> QED BY <2>1, <2>2
<1>6. UnderLease'
  BY <1>3, <1>4 DEF IxInv, UnderLease
<1> QED BY <1>1, <1>2, <1>5, <1>6 DEF IxInv

\* A command that starts has resolved the pointer under the lease.
LEMMA BeginKeeps ==
  ASSUME IxInv, NEW w \in IxWriters, Begin(w)
  PROVE  IxInv'
<1>1. IxTypes /\ IxTypes' /\ ActiveIsComplete
  BY BeginTyped DEF IxInv
<1>2. /\ ixPc[w] = "idle" /\ ixLease = "free" /\ ixLease' = w
      /\ ixPc' = [ixPc EXCEPT ![w] = "collect"]
      /\ UNCHANGED <<ixDirs, ixContent, ixDamaged, ixPointer>>
  BY DEF Begin, Goto
<1>3. ixJob'[w] \in Jobs /\ Accepted(ixJob'[w]) /\ ixJob'[w].old = ixPointer
  BY <1>1, BeginJob
<1>4. ActiveIsComplete'
  BY <1>1, <1>2 DEF ActiveIsComplete
<1>5. ASSUME NEW v \in IxWriters, v # w PROVE ixPc'[v] = "idle"
  <2>1. ixPc[v] = "idle"
    BY <1>2, <1>5, OthersIdle
  <2> QED BY <1>1, <1>2, <1>5, <2>1 DEF IxTypes
<1>6. Facts(w)'
  <2>1. ixPc'[w] = "collect"
    BY <1>1, <1>2 DEF IxTypes
  <2>2. ixPointer \in Gens /\ ~Inherits(ixJob'[w]) => ixContent[ixPointer].managed = {}
    BY <1>1, <1>3 DEF Accepted, WouldLoseManaged, ActiveIsComplete
  <2>3. Inherits(ixJob'[w]) <=> Inherits(ixJob[w])'
    BY <1>2 DEF Inherits
  <2>4. BeforeBuild(w)'
    BY <1>2, <1>3, <2>2, <2>3 DEF BeforeBuild
  <2> QED BY <2>1, <2>4 DEF Facts, InStaging, AfterBuild, Finalized, PolicySettled
<1>7. \A v \in IxWriters : Facts(v)'
  <2> TAKE v \in IxWriters
  <2>1. CASE v = w BY <1>6, <2>1
  <2>2. CASE v # w
    <3>1. ixPc'[v] = "idle"
      BY <1>5, <2>2
    <3> QED BY <3>1 DEF Facts, BeforeBuild, InStaging, AfterBuild, Finalized, PolicySettled
  <2> QED BY <2>1, <2>2
<1>8. UnderLease'
  BY <1>2, <1>5 DEF UnderLease
<1> QED BY <1>1, <1>4, <1>7, <1>8 DEF IxInv

\* A command that ends, or whose process dies, gives the lease back.
LEMMA LeaveKeeps ==
  ASSUME IxInv, NEW w \in IxWriters, Leave(w)
  PROVE  IxInv'
<1>1. IxTypes'
  BY LeaveTyped DEF IxInv
<1>2. /\ ixPc[w] # "idle" /\ ixPc' = [ixPc EXCEPT ![w] = "idle"]
      /\ UNCHANGED <<ixDirs, ixPointer>>
  BY DEF Leave, Release, IxCrash, Goto
<1>3. \A v \in IxWriters : ixPc'[v] = "idle"
  <2> TAKE v \in IxWriters
  <2>1. CASE v = w BY <1>2, <2>1 DEF IxInv, IxTypes
  <2>2. CASE v # w
    <3>1. ixPc[v] = "idle"
      BY <1>2, <2>2, OthersIdle
    <3> QED BY <1>2, <2>2, <3>1 DEF IxInv, IxTypes
  <2> QED BY <2>1, <2>2
<1>4. UnderLease' /\ \A v \in IxWriters : Facts(v)'
  BY <1>3 DEF UnderLease, Facts, BeforeBuild, InStaging, AfterBuild, Finalized, PolicySettled
<1>5. ActiveIsComplete'
  BY <1>2 DEF ActiveIsComplete, IxInv
<1> QED BY <1>1, <1>4, <1>5 DEF IxInv

LEMMA StepKeeps == IxInv /\ [IxNext]_ixVars => IxInv'
<1> SUFFICES ASSUME IxInv, [IxNext]_ixVars PROVE IxInv'
  OBVIOUS
<1>1. ASSUME NEW w \in IxWriters, Begin(w) PROVE IxInv'
  BY <1>1, BeginKeeps
<1>2. ASSUME NEW w \in IxWriters, Work(w) PROVE IxInv'
  BY <1>2, WorkKeeps
<1>3. ASSUME NEW w \in IxWriters, Leave(w) PROVE IxInv'
  BY <1>3, LeaveKeeps
<1>4. CASE \E g \in Gens : Damage(g)
  BY <1>4 DEF Damage, IxInv, IxTypes, UnderLease, ActiveIsComplete, Facts, BeforeBuild, InStaging,
              AfterBuild, Finalized, PolicySettled, Inherits, Kept
<1>5. CASE UNCHANGED ixVars
  BY <1>5 DEF ixVars, IxInv, IxTypes, UnderLease, ActiveIsComplete, Facts, BeforeBuild, InStaging,
              AfterBuild, Finalized, PolicySettled, Inherits, Kept
<1> QED BY <1>1, <1>2, <1>3, <1>4, <1>5 DEF IxNext, Work, Leave

LEMMA InitHolds == IxInit => IxInv
<1> SUFFICES ASSUME IxInit PROVE IxInv
  OBVIOUS
<1>1. IxTypes
  BY InitTypes
<1>2. \A w \in IxWriters : ixPc[w] = "idle"
  BY DEF IxInit
<1>3. UnderLease /\ \A w \in IxWriters : Facts(w)
  BY <1>2, IdleFacts DEF UnderLease
<1>4. ActiveIsComplete
  BY DEF IxInit, ActiveIsComplete, NoPointer, Gens
<1> QED BY <1>1, <1>3, <1>4 DEF IxInv

LEMMA Invariant == IxSpec => []IxInv
BY InitHolds, StepKeeps, PTL DEF IxSpec

-----------------------------------------------------------------------------
(* Theorems *)

\* The pointer that readers follow names a finalised generation, whatever fails or
\* dies between the renames of finalizeStagingGeneration and writeAtomicJSON.
THEOREM ActiveComplete == IxSpec => []ActiveIsComplete
<1>1. IxInv => ActiveIsComplete
  BY DEF IxInv
<1> QED BY <1>1, Invariant, PTL

\* buildIndexGeneration never replaces a published generation by one that lacks a
\* managed document, except the document that source rm removes.  A build after a
\* policy retirement replaces no generation and is outside the statement.
THEOREM SourcesKept == IxSpec => ManagedSourcesKept
<1> DEFINE Step == (ixPointer \in Gens /\ ixPointer' \in Gens) =>
                     ixContent[ixPointer].managed \ UNION {ixJob[w].doc : w \in Removing}
                       \subseteq ixContent[ixPointer'].managed
<1>1. ASSUME IxInv, [IxNext]_ixVars, ixPointer \in Gens, ixPointer' \in Gens
      PROVE  ixContent[ixPointer].managed \ UNION {ixJob[w].doc : w \in Removing}
               \subseteq ixContent[ixPointer'].managed
  <2>1. CASE ixPointer' = ixPointer
    BY <2>1
  <2>2. CASE \E w \in IxWriters : Publish(w)
    <3>1. PICK w \in IxWriters : Publish(w)
      BY <2>2
    <3>2. ixPc[w] = "final" /\ ixPointer' = ixJob[w].gen
      BY <3>1 DEF Publish
    <3>3. AfterBuild(w)
      BY <1>1 DEF IxInv, Facts
    <3>4. /\ ixJob[w].old = ixPointer
          /\ Kept(ixJob[w]) \subseteq ixContent[ixJob[w].gen].managed
      BY <1>1, <3>2, <3>3 DEF AfterBuild
    <3>5. ixJob[w].kind = "rm" => ixJob[w].doc \subseteq UNION {ixJob[v].doc : v \in Removing}
      BY DEF Removing
    <3> QED BY <3>2, <3>4, <3>5 DEF Kept
  <2>3. CASE \E w \in IxWriters : Retire(w)
    BY <1>1, <2>1, <2>3 DEF Retire, Gens, Retired
  <2>4. ixPointer' = ixPointer \/ (\E w \in IxWriters : Publish(w)) \/ \E w \in IxWriters : Retire(w)
    BY <1>1 DEF IxNext, ixVars, Begin, Collect, Collected, Build, RmLast, Finalize, BuildFails, CleanUp,
                OpenFails, PublishFails, AfterPublishFailed, Unpublished, Release, IxCrash, Damage
  <2> QED BY <2>1, <2>2, <2>3, <2>4
<1>2. IxInv /\ [IxNext]_ixVars => [Step]_ixVars
  BY <1>1
<1> QED BY <1>2, Invariant, PTL DEF IxSpec, ManagedSourcesKept

\* A command that met sensitive content and ends by itself leaves the index it found
\* retired or replaced, or has reported that the retirement failed.
THEOREM PolicyRetires == IxSpec => PolicyRetiresOldIndex
<1> DEFINE Ended == \A w \in IxWriters :
                      ixPc[w] = "done" /\ ixJob[w].policy /\ ~ixJob[w].retireFailed
                        => ixPointer = Retired \/ ixPointer # ixJob[w].old
<1>1. IxInv => Ended
  BY DEF IxInv, Facts, PolicySettled
<1> QED BY <1>1, Invariant, PTL DEF PolicyRetiresOldIndex
=============================================================================
