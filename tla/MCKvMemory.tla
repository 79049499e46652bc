----------------------------- MODULE MCKvMemory -----------------------------
(***************************************************************************)
(* Model checking of KvMemory.  k1 sees every operation; k2 is written     *)
(* with and without a ttl, so that a batch meets two keys whose deadlines  *)
(* pass one after the other.  One request makes every call, the other the  *)
(* writes that race with it.                                               *)
(***************************************************************************)
EXTENDS KvMemory

CONSTANTS k1, k2, t1, r1, r2

MCKeys == {k1, k2}
MCTexts == {t1}
MCRequests == {r1, r2}

MCReads ==
  {[op |-> o, key |-> k1] : o \in {"get", "exists", "ttl"}}
    \union {[op |-> o, keys |-> {k1, k2}] : o \in {"mget", "keys"}}

\* Single keys.  ttl 0 is filtered out; 3 overflows an Instant when the clock is late enough.
MCWrites ==
  {[op |-> o, key |-> k1] : o \in {"del", "incr"}}
    \union {[op |-> "set", key |-> k1, value |-> t1, ttl |-> t] : t \in {0, 3}}
    \union {[op |-> "expire", key |-> k1, seconds |-> -1]}

\* What changes several keys, or the deadlines of several keys, between two readings.
MCRaces ==
  {[op |-> "expire", key |-> k1, seconds |-> 1],
   [op |-> "set", key |-> k2, value |-> t1, ttl |-> 1],
   [op |-> "mset", pairs |-> [k \in MCKeys |-> 1]]}

MCMinInt == -1

MCCalls ==
  [r \in MCRequests |-> IF r = r1 THEN MCReads \union MCWrites \union MCRaces ELSE MCRaces]

=============================================================================
