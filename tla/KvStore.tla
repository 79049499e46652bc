------------------------------ MODULE KvStore ------------------------------
(***************************************************************************)
(* What the key-value API promises, whatever the backend: every call takes *)
(* effect atomically at one moment between its invocation and its answer   *)
(* (README "Key-Value"; trait KvBackend in src/kv.rs).  Only the clock may *)
(* be read more than once: the map does not change while a batch is read,  *)
(* but each key may be judged at a moment of its own.                      *)
(*                                                                         *)
(* `expiry` is in ticks of a clock with TicksPerSecond ticks per second.   *)
(* An entry whose expiry has passed is not shown to any reader, but stays  *)
(* in the map until it is overwritten or deleted: nothing purges it.       *)
(***************************************************************************)
EXTENDS KvApi

CONSTANTS MaxNow,          \* the clock stops here (bound of the model)
          TicksPerSecond

VARIABLES store, expiry,   \* the map: value (or Nil) and expiry (or Nil) of each key
          now,
          changed,         \* when the map was last written
          phase, call,     \* of each request
          asked,           \* when the request was made
          ans              \* its answer

vars == <<store, expiry, now, changed, phase, call, asked, ans>>

Init ==
  /\ store = [k \in Keys |-> Nil]
  /\ expiry = [k \in Keys |-> Nil]
  /\ now = 0
  /\ changed = 0
  /\ phase = [r \in Requests |-> "idle"]
  /\ call = [r \in Requests |-> Nil]
  /\ asked = [r \in Requests |-> 0]
  /\ ans = [r \in Requests |-> Nil]

AliveAt(k, t) == store[k] # Nil /\ (expiry[k] # Nil => t < expiry[k])

ShownAt(k, t) == IF AliveAt(k, t) THEN store[k] ELSE Nil

\* The moments of the call of r at which the map was what it is now.
Moments(r) == {t \in asked[r] .. now : changed <= t}

\* Seconds left at t, rounded down; none when the expiry has passed since the key was
\* found alive.
SecondsLeft(k, t) == IF t < expiry[k] THEN (expiry[k] - t) \div TicksPerSecond ELSE 0

\* Where a ttl of s seconds runs out that is counted from a moment after t.
Deadlines(t, s) == {u + s * TicksPerSecond : u \in t .. now}

Invoke(r, c) ==
  /\ phase[r] = "idle"
  /\ phase' = [phase EXCEPT ![r] = "called"]
  /\ call' = [call EXCEPT ![r] = c]
  /\ asked' = [asked EXCEPT ![r] = now]
  /\ UNCHANGED <<store, expiry, now, changed, ans>>

Calling(r, op) == phase[r] = "called" /\ call[r].op = op

Answer(r, a) ==
  /\ phase' = [phase EXCEPT ![r] = "done"]
  /\ ans' = [ans EXCEPT ![r] = a]
  /\ UNCHANGED <<now, call, asked>>

Keep == UNCHANGED <<store, expiry, changed>>

Put(k, v, e) ==
  /\ store' = [store EXCEPT ![k] = v]
  /\ expiry' = [expiry EXCEPT ![k] = e]
  /\ changed' = now

Get(r) ==
  /\ Calling(r, "get")
  /\ Answer(r, ShownAt(call[r].key, now))
  /\ Keep

Exists(r) ==
  /\ Calling(r, "exists")
  /\ Answer(r, AliveAt(call[r].key, now))
  /\ Keep

\* The clock is read to see whether the key is alive, and again for what is left.
Ttl(r) ==
  LET k == call[r].key IN
  /\ Calling(r, "ttl")
  /\ \E t \in Moments(r) :
       \/ ~AliveAt(k, t) /\ Answer(r, -2)
       \/ AliveAt(k, t) /\ expiry[k] = Nil /\ Answer(r, -1)
       \/ /\ AliveAt(k, t) /\ expiry[k] # Nil
          /\ \E u \in t .. now : Answer(r, SecondsLeft(k, u))
  /\ Keep

\* One map, and for each key a moment at which it is judged.
Mget(r) ==
  /\ Calling(r, "mget")
  /\ \E at \in [call[r].keys -> Moments(r)] :
       Answer(r, [k \in call[r].keys |-> ShownAt(k, at[k])])
  /\ Keep

ListKeys(r) ==
  /\ Calling(r, "keys")
  /\ \E at \in [call[r].keys -> Moments(r)] :
       Answer(r, {k \in call[r].keys : AliveAt(k, at[k])})
  /\ Keep

Set(r) ==
  LET c == call[r] IN
  /\ Calling(r, "set")
  /\ \/ HasTtl(c) /\ \E d \in Deadlines(asked[r], c.ttl) : Put(c.key, c.value, d)
     \/ ~HasTtl(c) /\ Put(c.key, c.value, Nil)
  /\ Answer(r, "ok")

Mset(r) ==
  LET pairs == call[r].pairs IN
  /\ Calling(r, "mset")
  /\ store' = Overwrite(store, pairs)
  /\ expiry' = Overwrite(expiry, [k \in DOMAIN pairs |-> Nil])
  /\ changed' = now
  /\ Answer(r, "ok")

\* Counts what it removes, shown or not.
Del(r) ==
  LET k == call[r].key IN
  /\ Calling(r, "del")
  /\ Put(k, Nil, Nil)
  /\ Answer(r, IF store[k] = Nil THEN 0 ELSE 1)

Incr(r) ==
  LET k == call[r].key
      n == Succ(Number(ShownAt(k, now)))
  IN
  /\ Calling(r, "incr")
  /\ Put(k, n, Nil)
  /\ Answer(r, n)

\* The clock is read to see whether the key is alive, and again for the deadline.
Expire(r) ==
  LET c == call[r] IN
  /\ Calling(r, "expire")
  /\ \E t \in Moments(r) :
       \/ /\ AliveAt(c.key, t)
          /\ \E d \in Deadlines(t, c.seconds) : Put(c.key, store[c.key], d)
          /\ Answer(r, TRUE)
       \/ ~AliveAt(c.key, t) /\ Keep /\ Answer(r, FALSE)

\* A call may fail instead, with no effect.
Fail(r) ==
  /\ phase[r] = "called"
  /\ phase' = [phase EXCEPT ![r] = "failed"]
  /\ UNCHANGED <<store, expiry, now, changed, call, asked, ans>>

Reply(r) ==
  /\ phase[r] \in {"done", "failed"}
  /\ phase' = [phase EXCEPT ![r] = "idle"]
  /\ call' = [call EXCEPT ![r] = Nil]
  /\ asked' = [asked EXCEPT ![r] = 0]
  /\ ans' = [ans EXCEPT ![r] = Nil]
  /\ UNCHANGED <<store, expiry, now, changed>>

Tick ==
  /\ now < MaxNow
  /\ now' = now + 1
  /\ UNCHANGED <<store, expiry, changed, phase, call, asked, ans>>

\* The process is restarted: the map survives, the requests in flight do not.
Crash ==
  /\ phase' = [r \in Requests |-> "idle"]
  /\ call' = [r \in Requests |-> Nil]
  /\ asked' = [r \in Requests |-> 0]
  /\ ans' = [r \in Requests |-> Nil]
  /\ UNCHANGED <<store, expiry, now, changed>>

Apply(r) ==
  \/ Get(r) \/ Exists(r) \/ Ttl(r) \/ Mget(r) \/ ListKeys(r)
  \/ Set(r) \/ Mset(r) \/ Del(r) \/ Incr(r) \/ Expire(r)

Next ==
  \/ \E r \in Requests : (\E c \in Calls[r] : Invoke(r, c)) \/ Apply(r) \/ Fail(r) \/ Reply(r)
  \/ Tick
  \/ Crash

Spec == Init /\ [][Next]_vars
=============================================================================
