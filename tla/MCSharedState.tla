--------------------------- MODULE MCSharedState ---------------------------
(***************************************************************************)
(* Model checking of the components whose state several calls, goroutines  *)
(* or processes share: index generations, configuration documents,         *)
(* behavioural feedback, the conversations of runtimes over one store, and *)
(* embedding flights.  They do not interact, so a behaviour is one of a    *)
(* single component, chosen at the start.                                  *)
(***************************************************************************)
EXTENDS IndexGeneration, DocumentSave, FeedbackService, GolemRuntime, EmbedFlight

VARIABLE component

mcVars == <<component, ixVars, dsVars, fbVars, grVars, efVars>>

MCInit ==
  /\ component \in {"index", "document", "feedback", "runtime", "embed"}
  /\ IxInit /\ DsInit /\ FbInit /\ GrInit /\ EfInit
  /\ component # "embed" => efSlice = [c \in EfCallers |-> CHOOSE t \in Texts : TRUE]

MCNext ==
  /\ UNCHANGED component
  /\ \/ component = "index" /\ IxNext /\ UNCHANGED <<dsVars, fbVars, grVars, efVars>>
     \/ component = "document" /\ DsNext /\ UNCHANGED <<ixVars, fbVars, grVars, efVars>>
     \/ component = "feedback" /\ FbNext /\ UNCHANGED <<ixVars, dsVars, grVars, efVars>>
     \/ component = "runtime" /\ GrNext /\ UNCHANGED <<ixVars, dsVars, fbVars, efVars>>
     \/ component = "embed" /\ EfNext /\ UNCHANGED <<ixVars, dsVars, fbVars, grVars>>

MCSpec == MCInit /\ [][MCNext]_mcVars
=============================================================================
