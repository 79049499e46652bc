---------------------------- MODULE KvRedbHistory ----------------------------
(***************************************************************************)
(* KvRedb with history variables that record what a request could have     *)
(* seen while it ran, and the properties of the answers of reads, which    *)
(* span several transactions and a later look at the clock.                *)
(***************************************************************************)
EXTENDS KvRedb

VARIABLES tabs,    \* the committed "kv" tables during the call of each request
          stamps   \* the <<key, timestamp>> rows of the "ttl" table during the call

history == <<tabs, stamps>>

Stamps == {<<k, ttl[k]>> : k \in {j \in Keys : ttl[j] # Nil}}

Reads == {"get", "exists", "ttl", "mget", "keys"}

\* Adds what the next state has to what was seen: of reads, from Invoke to the answer.
Record(seen, next) ==
  [r \in Requests |->
     IF pc'[r] = "idle" \/ call'[r].op \notin Reads THEN {}
     ELSE IF pc[r] = "done" THEN seen[r]
     ELSE seen[r] \union next]

HistoryInit ==
  /\ Init
  /\ tabs = [r \in Requests |-> {}]
  /\ stamps = [r \in Requests |-> {}]

HistoryNext ==
  /\ Next
  /\ tabs' = Record(tabs, {kv'})
  /\ stamps' = Record(stamps, Stamps')

HistorySpec == HistoryInit /\ [][HistoryNext]_<<vars, history>>

Done(r, ops) == At(r, "done", ops)

\* Key k had, during the call of r, a timestamp that has passed by now.
Aged(r, k) == \E s \in stamps[r] : s[1] = k /\ now >= s[2]

\* A batch read is one snapshot: whatever commits while mget_sync or keys_sync
\* walk their keys, there is one committed table that explains the whole answer,
\* and a key of it is left out only because a timestamp it had during the call
\* has passed.  No half of an MSET is ever seen.
BatchIsOneSnapshot ==
  \A r \in Requests :
    /\ Done(r, {"mget"}) =>
         \E t \in tabs[r] : \A k \in call[r].keys :
           ans[r][k] = t[k] \/ (ans[r][k] = Nil /\ Aged(r, k))
    /\ Done(r, {"keys"}) =>
         \E t \in tabs[r] : \A k \in call[r].keys :
           IF k \in ans[r] THEN t[k] # Nil ELSE t[k] = Nil \/ Aged(r, k)

\* A single-key read never invents: a value was stored during the call; "not
\* found" means that the key was missing or had a timestamp that passed.
LookupIsJustified ==
  \A r \in Requests :
    /\ Done(r, {"get"}) =>
         \/ \E t \in tabs[r] : ans[r] = t[call[r].key]
         \/ ans[r] = Nil /\ Aged(r, call[r].key)
    /\ Done(r, {"exists"}) =>
         \/ \E t \in tabs[r] : ans[r] = (t[call[r].key] # Nil)
         \/ ans[r] = FALSE /\ Aged(r, call[r].key)

\* TTL answers -2 only for a key missing or past its timestamp, -1 only for a key
\* stored, and any other number for a timestamp the key really had during the call: a
\* positive one when it is that many seconds away, a negative one when an EXPIRE with
\* negative seconds has wrapped below zero, and it is that many seconds away from the
\* timestamp that was meant.  (ttl_sync answers a u64 difference as an i64.)
TtlIsJustified ==
  \A r \in Requests : Done(r, {"ttl"}) =>
    LET k == call[r].key
        Away(d) == \E s \in stamps[r] : s[1] = k /\ s[2] - d \in Epoch .. now
    IN
    \/ ans[r] = -2 /\ ((\E t \in tabs[r] : t[k] = Nil) \/ Aged(r, k))
    \/ ans[r] = -1 /\ (\E t \in tabs[r] : t[k] # Nil)
    \/ ans[r] >= 1 /\ Away(ans[r])
    \/ ans[r] < -2 /\ Away(ans[r] + U64)
=============================================================================
