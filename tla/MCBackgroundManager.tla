------------------------ MODULE MCBackgroundManager ------------------------
(***************************************************************************)
(* Model checking of background jobs: the manager, and the output ring of  *)
(* one job.  The ring meets the manager only in the publication of the     *)
(* job's completion, which TailRing has as an action of its own, so a      *)
(* behaviour is one of a single component, chosen at the start.            *)
(***************************************************************************)
EXTENDS BackgroundManager, TailRing, TLC

VARIABLE component

mcVars == <<component, vars, trVars>>

MCInit == component \in {"manager", "ring"} /\ Init /\ TrInit

MCNext ==
  /\ UNCHANGED component
  /\ \/ component = "manager" /\ Next /\ UNCHANGED trVars
     \/ component = "ring" /\ TrNext /\ UNCHANGED vars

MCSpec == MCInit /\ [][MCNext]_mcVars

\* Jobs and hosts are interchangeable.
Symmetry == Permutations(Jobs) \cup Permutations(Hosts)
=============================================================================
