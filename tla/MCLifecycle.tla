---------------------------- MODULE MCLifecycle ----------------------------
(***************************************************************************)
(* Model checking of the components whose calls race a close: the retrieve *)
(* tool, the runtime and the capacity source.  They do not interact, so a  *)
(* behaviour is one of a single component, chosen at the start.            *)
(***************************************************************************)
EXTENDS ReadyRetrieve, GolemRuntime, SlotSource

VARIABLE component

mcVars == <<component, rrVars, grVars, ssVars>>

MCInit ==
  /\ component \in {"retrieve", "runtime", "slots"}
  /\ RrInit /\ GrInit /\ SsInit
  /\ component # "slots" => \A k \in Keys : backend[k] = 1

MCNext ==
  /\ UNCHANGED component
  /\ \/ component = "retrieve" /\ RrNext /\ UNCHANGED <<grVars, ssVars>>
     \/ component = "runtime" /\ GrNext /\ UNCHANGED <<rrVars, ssVars>>
     \/ component = "slots" /\ SsNext /\ UNCHANGED <<rrVars, grVars>>

\* The fairness of each component; the others' actions are not enabled.
MCSpec ==
  /\ MCInit /\ [][MCNext]_mcVars
  /\ RrFairness /\ GrFairness /\ SsFairness
=============================================================================
