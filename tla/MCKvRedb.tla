------------------------------ MODULE MCKvRedb ------------------------------
(* Model checking of KvRedb. *)
EXTENDS KvRedb, KvWorkloads
=============================================================================
