----------------------------- MODULE KvWorkloads -----------------------------
(***************************************************************************)
(* The workloads the models of the redb backend are checked with: each     *)
(* configuration picks one of them as Calls.                               *)
(***************************************************************************)
EXTENDS KvApi

CONSTANTS k1, k2, t1, r1, r2

MCKeys == {k1, k2}
MCTexts == {t1}
TwoRequests == {r1, r2}
MCMinInt == -1

Single(ops, k) == [op : ops, key : {k}]
Batch(ops) == [op : ops, keys : {MCKeys}]
SetWith(k, v, ttls) == [op : {"set"}, key : {k}, value : {v}, ttl : ttls]
ExpireIn(k, secs) == [op : {"expire"}, key : {k}, seconds : secs]
MsetAll(v) == [op : {"mset"}, pairs : {[k \in MCKeys |-> v]}]

\* Every request may make any of the calls.
All(calls) == [r \in Requests |-> calls]

\* Reads of every kind against writers of the keys they read.  Reads do not disturb
\* each other, so one request makes them, and both write.  They do not look at values
\* either: one value, stored and deleted, tells the tables apart.  An EXPIRE by -4 wraps
\* below zero: its timestamp is that of a far future.
ReadCalls ==
  LET Writes == SetWith(k1, t1, {1}) \union MsetAll(t1)
      Reading == Single({"get", "exists", "ttl"}, k1) \union Batch({"mget", "keys"})
  IN  [r \in Requests |-> IF r = r1 THEN Reading \union Writes
                         ELSE Writes \union Single({"del"}, k1) \union ExpireIn(k1, {1, -4})]

\* Nothing ever expires.
PlainCalls ==
  All(Single({"get", "exists", "ttl", "del", "incr"}, k1) \union Batch({"mget", "keys"})
        \union SetWith(k1, t1, {Nil, 0}) \union MsetAll(0))

\* The SET of test_redb_set_and_get, on a key with a past.
SetAfterTtlCalls == All(SetWith(k1, t1, {Nil, 1}))
=============================================================================
