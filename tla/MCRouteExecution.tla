-------------------------- MODULE MCRouteExecution --------------------------
(***************************************************************************)
(* Model checking of RouteExecution.  Providers and requests are           *)
(* interchangeable: scores are abstract and every provider has the same    *)
(* thresholds and capacity.                                                *)
(***************************************************************************)
EXTENDS RouteExecution, TLC

Symmetry == Permutations(Providers) \cup Permutations(Requests)
=============================================================================
