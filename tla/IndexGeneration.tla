-------------------------- MODULE IndexGeneration --------------------------
(***************************************************************************)
(* The immutable generations of a workspace's retrieval index              *)
(* (cmd/golem/index_generation.go) and the commands that write them:       *)
(* golem index, the auto-index and golem source add, rm and reindex.  A    *)
(* writer holds the workspace lease, resolves the active pointer, collects *)
(* garbage, builds a staging directory, renames it into place and renames  *)
(* the pointer onto it.  A writer may fail between any two file-system     *)
(* operations, after them (a failed directory sync), or die.  The          *)
(* pre-generation ("legacy") layout is left out.                           *)
(***************************************************************************)
EXTENDS Integers, FiniteSets

CONSTANTS IxWriters,     \* processes
          IxDocs,        \* managed documents
          IxSpaces,      \* vector spaces the embedding probe may report
          IxMaxGens,     \* bound: generations ever created
          IxMaxDamage    \* bound: damaged generations

ASSUME IxBounds == IxMaxGens \in Nat /\ IxMaxDamage \in Nat

ASSUME IxWritersAssumption == "free" \notin IxWriters

Gens == 1..IxMaxGens

NoGen == 0

\* What a pointer file says besides a generation: nothing (it does not exist), or retired.
NoPointer == 0
Retired == -1

IxIdle == [kind |-> "none", doc |-> {}, space |-> {}, full |-> FALSE,
           old |-> NoPointer, activeOK |-> FALSE, gen |-> NoGen, policy |-> FALSE,
           retireFailed |-> FALSE]

VARIABLES
  ixDirs,     \* per generation: "none", "staging" or "final"
  ixContent,  \* per generation: managed documents, workspace sources, vector space
  ixDamaged,  \* generations whose metadata is unreadable
  ixPointer,  \* the active pointer
  ixLease,    \* the lease holder, or "free"
  ixPc, ixJob \* per writer: where it is and what it builds

ixVars == <<ixDirs, ixContent, ixDamaged, ixPointer, ixLease, ixPc, ixJob>>

Empty == [managed |-> {}, walked |-> FALSE, space |-> {}]

IxInit ==
  /\ ixDirs = [g \in Gens |-> "none"]
  /\ ixContent = [g \in Gens |-> Empty]
  /\ ixDamaged = {}
  /\ ixPointer = NoPointer
  /\ ixLease = "free"
  /\ ixPc = [w \in IxWriters |-> "idle"]
  /\ ixJob = [w \in IxWriters |-> IxIdle]

Goto(w, place) == ixPc' = [ixPc EXCEPT ![w] = place]

-----------------------------------------------------------------------------
(* resolveActiveGeneration *)

Resolvable(p) == p \in Gens /\ ixDirs[p] = "final" /\ p \notin ixDamaged

NoActive(p) == p \in {NoPointer, Retired}

-----------------------------------------------------------------------------
(* A command starts: lease, probe, resolve, refusals *)

Inherits(job) == ~job.full /\ job.activeOK /\ ixContent[job.old].space = job.space

\* refuseInvalidActive: every manual command but index -full.
RefusesInvalid(job) ==
  /\ job.kind # "auto" /\ ~job.full
  /\ ~NoActive(job.old)
  /\ (~Resolvable(job.old) \/ ixContent[job.old].space # job.space)

\* mutant: a rebuild does not look for managed sources in a damaged index
WouldLoseManagedIfValid(job) ==
  /\ ~Inherits(job) /\ Resolvable(job.old)
  /\ ixContent[job.old].managed # {}

\* A rebuild from scratch would lose managed documents, whose database the
\* pointer still names even if its metadata is damaged.
WouldLoseManaged(job) ==
  /\ ~Inherits(job)
  /\ job.old \in Gens /\ ixDirs[job.old] = "final"
  /\ ixContent[job.old].managed # {}

\* source rm and reindex resolve first and need the document; rm builds in the
\* active vector space without a probe.
SourceApplies(job) ==
  job.kind \in {"rm", "reindex"} =>
    /\ Resolvable(job.old)
    /\ job.doc \subseteq ixContent[job.old].managed
    /\ job.kind = "rm" => job.space = ixContent[job.old].space

\* The job of a command, with what it found when it resolved the pointer.
Resolved(kind, d, v, full) ==
  [kind |-> kind, doc |-> IF kind \in {"add", "rm", "reindex"} THEN {d} ELSE {},
   space |-> {v}, full |-> full, old |-> ixPointer, activeOK |-> Resolvable(ixPointer),
   gen |-> NoGen, policy |-> FALSE, retireFailed |-> FALSE]

Accepted(job) == SourceApplies(job) /\ ~RefusesInvalid(job) /\ ~WouldLoseManaged(job)

Begin(w) ==
  /\ ixPc[w] = "idle" /\ ixLease = "free"
  /\ \E kind \in {"index", "auto", "add", "rm", "reindex"}, d \in IxDocs, v \in IxSpaces, full \in BOOLEAN :
       /\ full => kind = "index"
       /\ Accepted(Resolved(kind, d, v, full))
       /\ ixJob' = [ixJob EXCEPT ![w] = Resolved(kind, d, v, full)]
  /\ ixLease' = w
  /\ Goto(w, "collect")
  /\ UNCHANGED <<ixDirs, ixContent, ixDamaged, ixPointer>>

\* cleanupStaleGenerations: staging directories always; finalised ones unless the
\* active pointer names something that cannot be resolved.
Garbage(job) ==
  {g \in Gens :
     \/ ixDirs[g] = "staging"
     \/ /\ ixDirs[g] = "final"
        /\ (job.activeOK /\ g # job.old) \/ NoActive(job.old)}

\* One directory at a time, so that a writer may die or give up between two.
Collect(w) ==
  /\ ixPc[w] = "collect"
  /\ \E g \in Garbage(ixJob[w]) : ixDirs' = [ixDirs EXCEPT ![g] = "none"]
  /\ UNCHANGED <<ixContent, ixDamaged, ixPointer, ixLease, ixPc, ixJob>>

\* createStagingGeneration; a finalised directory that resists is only a warning.
Collected(w) ==
  /\ ixPc[w] = "collect"
  /\ \A g \in Garbage(ixJob[w]) : ixDirs[g] = "final"
  /\ \E g \in Gens :
       /\ ixDirs[g] = "none" /\ ixContent[g] = Empty
       /\ ixDirs' = [ixDirs EXCEPT ![g] = "staging"]
       /\ ixJob' = [ixJob EXCEPT ![w].gen = g]
  /\ Goto(w, "staging")
  /\ UNCHANGED <<ixContent, ixDamaged, ixPointer, ixLease>>

\* What the copied or fresh staging database holds after the walk or the mutation.
Staged(job) ==
  LET base == IF Inherits(job) THEN ixContent[job.old] ELSE [Empty EXCEPT !.space = job.space]
  IN  CASE job.kind = "add" -> [base EXCEPT !.managed = @ \cup job.doc]
        [] job.kind = "rm"  -> [base EXCEPT !.managed = @ \ job.doc]
        [] job.kind = "reindex" -> base
        [] OTHER            -> [base EXCEPT !.walked = TRUE]

EmptyStaging(job) == Staged(job).managed = {} /\ ~Staged(job).walked

\* The index is built and validated; a walk may meet sensitive content.
Build(w) ==
  /\ ixPc[w] = "staging" /\ ~EmptyStaging(ixJob[w])
  /\ ixContent' = [ixContent EXCEPT ![ixJob[w].gen] = Staged(ixJob[w])]
  /\ \E policy \in BOOLEAN :
       /\ policy => ixJob[w].kind \in {"index", "auto"}
       /\ ixJob' = [ixJob EXCEPT ![w].policy = policy]
  /\ Goto(w, "built")
  /\ UNCHANGED <<ixDirs, ixDamaged, ixPointer, ixLease>>

\* removeGenerationPath on a staging directory, which may fail.
StagingRemoved(g) ==
  {ixDirs, [h \in Gens |-> IF h = g /\ ixDirs[h] = "staging" THEN "none" ELSE ixDirs[h]]}

\* source rm of the last source: the staging directory goes and the pointer retires.
RmLast(w) ==
  /\ ixPc[w] = "staging" /\ EmptyStaging(ixJob[w])
  /\ ixDirs' \in StagingRemoved(ixJob[w].gen)
  /\ Goto(w, "retire")
  /\ UNCHANGED <<ixContent, ixDamaged, ixPointer, ixLease, ixJob>>

\* finalizeStagingGeneration: the rename; the directory sync may still fail.
Finalize(w) ==
  /\ ixPc[w] = "built"
  /\ ixDirs' = [ixDirs EXCEPT ![ixJob[w].gen] = "final"]
  /\ Goto(w, "final") \/ Goto(w, "buildFailed")
  /\ UNCHANGED <<ixContent, ixDamaged, ixPointer, ixLease, ixJob>>

-----------------------------------------------------------------------------
(* Failure of the build, and publication *)

\* The build fails or is cancelled; a policy outcome may have been seen.
BuildFails(w) ==
  /\ ixPc[w] \in {"collect", "staging", "built"}
  /\ \E policy \in BOOLEAN :
       /\ policy => \/ ixJob[w].policy
                    \/ ixPc[w] = "staging" /\ ixJob[w].kind \in {"index", "auto"}
       /\ ixJob[w].policy => policy
       /\ ixJob' = [ixJob EXCEPT ![w].policy = policy]
  /\ Goto(w, "buildFailed")
  /\ UNCHANGED <<ixDirs, ixContent, ixDamaged, ixPointer, ixLease>>

\* mutant: a failed build forgets the policy outcome
MustRetireNever(job) == FALSE

\* Sensitive content was found: the old index must not stay active.
MustRetire(job) == job.policy

\* The deferred clean-up of buildIndexGeneration removes the staging path.
CleanUp(w) ==
  /\ ixPc[w] = "buildFailed"
  /\ ixDirs' \in StagingRemoved(ixJob[w].gen)
  /\ Goto(w, IF MustRetire(ixJob[w]) THEN "retire" ELSE "done")
  /\ UNCHANGED <<ixContent, ixDamaged, ixPointer, ixLease, ixJob>>

\* The auto-index cannot open its new generation: it is removed unpublished, if
\* the removal succeeds.
OpenFails(w) ==
  /\ ixPc[w] = "final" /\ ixJob[w].kind = "auto"
  /\ ixDirs' \in {ixDirs, [ixDirs EXCEPT ![ixJob[w].gen] = "none"]}
  /\ Goto(w, IF MustRetire(ixJob[w]) THEN "retire" ELSE "done")
  /\ UNCHANGED <<ixContent, ixDamaged, ixPointer, ixLease, ixJob>>

\* publishActiveGeneration: the pointer's rename; its directory sync may fail.  An
\* auto-index cancelled right after the publication retires what it published if
\* policy was affected.
Publish(w) ==
  /\ ixPc[w] = "final"
  /\ ixPointer' = ixJob[w].gen
  /\ \/ Goto(w, "done") \/ Goto(w, "publishFailed")
     \/ ixJob[w].kind = "auto" /\ MustRetire(ixJob[w]) /\ Goto(w, "retire")
  /\ UNCHANGED <<ixDirs, ixContent, ixDamaged, ixLease, ixJob>>

PublishFails(w) ==
  /\ ixPc[w] = "final"
  /\ Goto(w, "publishFailed")
  /\ UNCHANGED <<ixDirs, ixContent, ixDamaged, ixPointer, ixLease, ixJob>>

\* publish retires first if policy was affected, then considers removal.
AfterPublishFailed(w) ==
  /\ ixPc[w] = "publishFailed"
  /\ Goto(w, IF MustRetire(ixJob[w]) THEN "retireThenRemove" ELSE "unpublished")
  /\ UNCHANGED <<ixDirs, ixContent, ixDamaged, ixPointer, ixLease, ixJob>>

\* retireActiveGeneration: succeeds, fails, or fails after its rename.
Retire(w) ==
  /\ ixPc[w] \in {"retire", "retireThenRemove"}
  /\ \/ ixPointer' = Retired /\ UNCHANGED ixJob
     \/ /\ ixPointer' \in {ixPointer, Retired}
        /\ ixJob' = [ixJob EXCEPT ![w].retireFailed = TRUE]
  /\ Goto(w, IF ixPc[w] = "retire" THEN "done" ELSE "unpublished")
  /\ UNCHANGED <<ixDirs, ixContent, ixDamaged, ixLease>>

\* mutant: a failed publication is taken for no publication
ShouldRemoveAlways(g) == TRUE

\* shouldRemoveUnpublished: a readable pointer that names another generation.
ShouldRemoveUnpublished(g) == ixPointer # NoPointer /\ ixPointer # g

Unpublished(w) ==
  /\ ixPc[w] = "unpublished"
  /\ \/ /\ ShouldRemoveUnpublished(ixJob[w].gen)
        /\ ixDirs' = [ixDirs EXCEPT ![ixJob[w].gen] = "none"]
     \/ UNCHANGED ixDirs
  /\ Goto(w, "done")
  /\ UNCHANGED <<ixContent, ixDamaged, ixPointer, ixLease, ixJob>>

Release(w) ==
  /\ ixPc[w] = "done"
  /\ ixLease' = "free"
  /\ ixJob' = [ixJob EXCEPT ![w] = IxIdle]
  /\ Goto(w, "idle")
  /\ UNCHANGED <<ixDirs, ixContent, ixDamaged, ixPointer>>

\* The process dies; the operating system releases the lock.
IxCrash(w) ==
  /\ ixPc[w] \notin {"idle", "done"}
  /\ ixLease' = "free"
  /\ ixJob' = [ixJob EXCEPT ![w] = IxIdle]
  /\ Goto(w, "idle")
  /\ UNCHANGED <<ixDirs, ixContent, ixDamaged, ixPointer>>

\* Something outside golem damages a generation's metadata.
Damage(g) ==
  /\ ixDirs[g] = "final" /\ Cardinality(ixDamaged) < IxMaxDamage
  /\ ixDamaged' = ixDamaged \cup {g}
  /\ UNCHANGED <<ixDirs, ixContent, ixPointer, ixLease, ixPc, ixJob>>

IxNext ==
  \/ \E w \in IxWriters :
       \/ Begin(w) \/ Collect(w) \/ Collected(w) \/ Build(w) \/ RmLast(w) \/ Finalize(w)
       \/ BuildFails(w) \/ CleanUp(w) \/ OpenFails(w)
       \/ Publish(w) \/ PublishFails(w) \/ AfterPublishFailed(w)
       \/ Retire(w) \/ Unpublished(w) \/ Release(w) \/ IxCrash(w)
  \/ \E g \in Gens : Damage(g)

IxSpec == IxInit /\ [][IxNext]_ixVars

-----------------------------------------------------------------------------
(* Properties *)

\* Whatever fails or dies, the pointer that readers follow names a finalised
\* generation: neither garbage collection, nor the clean-up of a build, nor the
\* removal of an unpublished generation ever deletes its target.
ActiveIsComplete == ixPointer \in Gens => ixDirs[ixPointer] = "final"

Removing == {w \in IxWriters : ixJob[w].kind = "rm"}

\* No rebuild loses a managed document: when the pointer moves from a generation
\* that holds it to another one, the new one holds it too, unless the job in
\* progress is the removal of that document.  A pointer that a policy failure
\* retired names no generation: the build after it resolves no old index, starts
\* without the added documents and does drop them.
ManagedSourcesKept ==
  [][(ixPointer \in Gens /\ ixPointer' \in Gens) =>
       ixContent[ixPointer].managed \ UNION {ixJob[w].doc : w \in Removing}
         \subseteq ixContent[ixPointer'].managed]_ixVars

\* A run that met sensitive content and ends by itself never leaves the index it
\* found active, unless it has reported that the retirement failed.
PolicyRetiresOldIndex ==
  [][\A w \in IxWriters :
       ixPc[w] = "done" /\ ixJob[w].policy /\ ~ixJob[w].retireFailed
         => ixPointer = Retired \/ ixPointer # ixJob[w].old]_ixVars
=============================================================================
