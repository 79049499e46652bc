------------------------- MODULE MCKvRedbRefinement -------------------------
(* Model checking of KvRedbRefinement. *)
EXTENDS KvRedbRefinement, KvWorkloads
=============================================================================
