--------------------------- MODULE MCSecretStores ---------------------------
(* An instance of SecretStores for TLC: every backend, one secret. *)
EXTENDS SecretStores

CONSTANTS n1, r1, r2, r3, r4

FourRequests == {r1, r2, r3, r4}

Call(ops) == [op : ops, name : {n1}]

\* Two clients create the secret; the others change, remove or read it.
Roles ==
  [r \in FourRequests |->
     CASE r = r1 -> Call({"create"})
       [] r = r2 -> Call({"create"})
       [] r = r3 -> Call({"update", "delete", "get"})
       [] r = r4 -> Call({"delete", "exists", "list", "search"})]
=============================================================================
