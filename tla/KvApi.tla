------------------------------- MODULE KvApi -------------------------------
(***************************************************************************)
(* The vocabulary shared by the models of the key-value service            *)
(* (src/kv.rs): keys, values, the calls a handler makes on the KvBackend   *)
(* trait, and the i64 arithmetic of INCR.                                  *)
(*                                                                         *)
(* A value is a text that does not parse as a number, or the number it     *)
(* parses to.  Numbers range over MinInt..MaxInt, the i64 range scaled     *)
(* down; incrementing MaxInt wraps, as it does in the release build.       *)
(***************************************************************************)
EXTENDS Integers

CONSTANTS Keys,       \* the keys clients use
          Texts,      \* values that are not decimal numbers
          MinInt,     \* i64::MIN
          MaxInt,     \* i64::MAX
          Requests,   \* request slots: each runs one call at a time
          Calls,      \* of each request slot: the calls its clients may make
          Nil         \* "no value", "no expiry", "no holder"

Value == Texts \union (MinInt .. MaxInt)

(***************************************************************************)
(* A call names the trait method and its arguments.  SET carries the ttl   *)
(* query parameter (Nil when absent); KEYS carries the set of keys its     *)
(* pattern matches; MSET carries the batch as a function.                  *)
(***************************************************************************)
KeyCall    == [op : {"get", "exists", "ttl", "del", "incr"}, key : Keys]
SetCall    == [op : {"set"}, key : Keys, value : Value, ttl : Int \union {Nil}]
ExpireCall == [op : {"expire"}, key : Keys, seconds : Int]
BatchCall  == [op : {"mget", "keys"}, keys : SUBSET Keys]
MsetCall   == [op : {"mset"}, pairs : UNION {[K -> Value] : K \in SUBSET Keys}]

CallType == KeyCall \union SetCall \union ExpireCall \union BatchCall \union MsetCall

ASSUME ApiAssumption ==
  /\ MinInt \in Int
  /\ MaxInt \in Int
  /\ MinInt <= 0
  /\ 1 <= MaxInt
  /\ Nil \notin Value
  /\ Nil \notin Int
  /\ Nil \notin Requests
  /\ Texts \intersect Int = {}

ASSUME CallsAssumption == Calls \in [Requests -> SUBSET CallType]

AnyCall == UNION {Calls[r] : r \in Requests}

\* `parse::<i64>().ok()).unwrap_or(0)`: a missing or non-numeric value counts as 0.
Number(v) == IF v \in Texts \union {Nil} THEN 0 ELSE v

\* Mutant of Succ: the counter has no width.
SuccUnbounded(n) == n + 1

\* `current + 1` on an i64, wrapping.
Succ(n) == IF n = MaxInt THEN MinInt ELSE n + 1

\* A table after the batch of an MSET has been inserted into it.
Overwrite(table, pairs) ==
  [k \in Keys |-> IF k \in DOMAIN pairs THEN pairs[k] ELSE table[k]]

\* A SET stores an expiry only for a ttl greater than zero (`ttl.filter(|&t| t > 0)`).
HasTtl(c) == c.ttl # Nil /\ c.ttl > 0
=============================================================================
