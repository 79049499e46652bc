--------------------------- MODULE MCKvRedbHistory ---------------------------
(* Model checking of KvRedbHistory. *)
EXTENDS KvRedbHistory, KvWorkloads
=============================================================================
