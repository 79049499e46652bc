-------------------------- MODULE QueueMemory_proofs --------------------------
(***************************************************************************)
(* Theorems about the in-memory queue service, for every set of topics,    *)
(* queues, requests and calls: its types, where each message is, and that  *)
(* it implements the channels of MessageChannels.  The inductive invariant *)
(* says that a request stays with the channel of its name, that a consumer *)
(* in the middle of its batch has the receiver's mutex, and that a message *)
(* is queued or received, once.                                            *)
(***************************************************************************)
EXTENDS QueueMemory, SequenceTheorems, FiniteSetTheorems, TLAPS

-----------------------------------------------------------------------------
(* The inductive invariant *)

Working == {"send", "lock", "recv", "done", "answered"}

\* A request keeps the channel it has looked up, and takes nothing before its time.
FlowOf(r) ==
  /\ pc[r] # "idle" => call[r] \in Calls[r]
  /\ pc[r] \in {"idle", "lookup"} => mine[r] = Nil
  /\ mine[r] # Nil => mine[r] = map[call[r].name]
  /\ pc[r] \in Working => mine[r] # Nil
  /\ pc[r] = "send" => Produces(call[r])
  /\ pc[r] \in {"lock", "recv"} => ~Produces(call[r])
  /\ pc[r] \in {"idle", "lookup", "send", "lock"} => got[r] = <<>>
  /\ pc[r] = "recv" /\ call[r].op = "pop" => got[r] = <<>>
  /\ got[r] # <<>> => ~Produces(call[r])

\* Who waits is in the line at the mutex, and who has begun a batch is its head.
InLine(r) ==
  pc[r] = "recv" =>
    /\ Contains(channels[mine[r]].waiters, r)
    /\ got[r] # <<>> => Head(channels[mine[r]].waiters) = r

\* No two names share a channel.
Apart == \A n, m \in Names : map[n] # Nil /\ map[n] = map[m] => n = m

Flow == DOMAIN call = Requests /\ Apart /\ \A r \in Requests : FlowOf(r) /\ InLine(r)

\* Where messages come from: a producer that is done sent it, once; what is queued or
\* received was sent.
Sent ==
  /\ pushed \in [Names -> Seq(Requests)]
  /\ \A n \in Names, m \in Requests : Contains(pushed[n], m) =>
       /\ pc[m] \in {"done", "answered", "dropped"}
       /\ mine[m] # Nil /\ Produces(call[m]) /\ call[m].name = n
  /\ \A n \in Names, m \in Requests : Contains(Queued(n), m) => Contains(pushed[n], m)
  /\ \A r, m \in Requests : Contains(got[r], m) => \E n \in Names : Contains(pushed[n], m)

\* No message is queued twice.
Distinct ==
  \A n \in Names : \A i, j \in 1 .. Len(Queued(n)) : Queued(n)[i] = Queued(n)[j] => i = j

\* A message that was sent is queued and nobody's, or one consumer's.
Once ==
  \A n \in Names, m \in Requests : Contains(pushed[n], m) =>
    \/ Contains(Queued(n), m) /\ \A q \in Requests : ~Contains(got[q], m)
    \/ /\ ~Contains(Queued(n), m)
       /\ \E r \in Requests : /\ Contains(got[r], m)
                              /\ \A q \in Requests : Contains(got[q], m) => q = r

IInv == TypeOK /\ Flow /\ Sent /\ Distinct /\ Once

StepOf(r) == (\E c \in Calls[r] : Invoke(r, c)) \/ Step(r) \/ Drop(r)

-----------------------------------------------------------------------------
(* Lemmas about calls and sequences *)

\* What a call names and how much it may take.
LEMMA CallShape ==
  ASSUME NEW r \in Requests, NEW c \in Calls[r]
  PROVE  /\ c # Nil /\ c.name \in Names
         /\ c.op \in {"push", "publish", "pop", "subscribe"}
         /\ c.op = "subscribe" => c.max \in Nat
         /\ Limit(c) \in Nat \/ Produces(c)
<1>1. c \in CallType
  BY QueueAssumption
<1>2. CASE c \in [op : {"publish"}, name : Topics]
  BY <1>1, <1>2, QueueAssumption DEF Names, Limit, Produces
<1>3. CASE c \in [op : {"push", "pop"}, name : Queues]
  BY <1>1, <1>3, QueueAssumption DEF Names, Limit, Produces
<1>4. CASE c \in [op : {"subscribe"}, name : Topics, max : Nat, timeout : {0, 1}]
  BY <1>1, <1>4, QueueAssumption DEF Names, Limit, Produces
<1>5. QED
  BY <1>1, <1>2, <1>3, <1>4 DEF CallType

\* What an appended sequence contains.
LEMMA Appended ==
  ASSUME NEW S, NEW s \in Seq(S), NEW e \in S
  PROVE  /\ Append(s, e) \in Seq(S) /\ Append(s, e) # <<>>
         /\ \A x : Contains(Append(s, e), x) <=> Contains(s, x) \/ x = e
         /\ s # <<>> => Head(Append(s, e)) = Head(s)
<1>1. /\ Append(s, e) \in Seq(S) /\ Len(Append(s, e)) = Len(s) + 1 /\ Len(s) \in Nat
      /\ \A i \in 1 .. Len(s) : Append(s, e)[i] = s[i]
      /\ Append(s, e)[Len(s) + 1] = e
  BY AppendProperties
<1>2. ASSUME NEW x PROVE Contains(Append(s, e), x) <=> Contains(s, x) \/ x = e
  <2>1. ASSUME Contains(Append(s, e), x) PROVE Contains(s, x) \/ x = e
    <3>1. PICK i \in 1 .. Len(s) + 1 : Append(s, e)[i] = x
      BY <1>1, <2>1 DEF Contains
    <3>2. QED
      BY <1>1, <3>1 DEF Contains
  <2>2. ASSUME Contains(s, x) \/ x = e PROVE Contains(Append(s, e), x)
    <3>1. CASE Contains(s, x)
      <4>1. PICK i \in 1 .. Len(s) : s[i] = x
        BY <3>1 DEF Contains
      <4>2. QED
        BY <1>1, <4>1 DEF Contains
    <3>2. CASE x = e
      BY <1>1, <3>2 DEF Contains
    <3>3. QED
      BY <2>2, <3>1, <3>2
  <2>3. QED
    BY <2>1, <2>2
<1>3. s # <<>> => Head(Append(s, e)) = Head(s)
  BY <1>1
<1>4. Append(s, e) # <<>>
  BY <1>1
<1>5. QED
  BY <1>1, <1>2, <1>3, <1>4

\* What is left of a sequence without repetitions when its head is taken.
LEMMA Taken ==
  ASSUME NEW S, NEW s \in Seq(S), s # <<>>,
         \A i, j \in 1 .. Len(s) : s[i] = s[j] => i = j
  PROVE  /\ Head(s) \in S /\ Contains(s, Head(s))
         /\ Tail(s) \in Seq(S)
         /\ \A x : Contains(Tail(s), x) <=> Contains(s, x) /\ x # Head(s)
         /\ \A i, j \in 1 .. Len(Tail(s)) : Tail(s)[i] = Tail(s)[j] => i = j
<1>1. /\ Head(s) \in S /\ Tail(s) \in Seq(S) /\ Len(Tail(s)) = Len(s) - 1
      /\ Len(s) \in Nat /\ Len(s) # 0 /\ Head(s) = s[1]
      /\ \A i \in 1 .. Len(s) - 1 : Tail(s)[i] = s[i + 1]
  BY HeadTailProperties
<1>2. ASSUME NEW x PROVE Contains(Tail(s), x) <=> Contains(s, x) /\ x # Head(s)
  <2>1. ASSUME Contains(Tail(s), x) PROVE Contains(s, x) /\ x # Head(s)
    <3>1. PICK i \in 1 .. Len(s) - 1 : Tail(s)[i] = x
      BY <1>1, <2>1 DEF Contains
    <3>2. i + 1 \in 1 .. Len(s) /\ s[i + 1] = x /\ 1 \in 1 .. Len(s) /\ i + 1 # 1
      BY <1>1, <3>1
    <3>3. QED
      BY <1>1, <3>2 DEF Contains
  <2>2. ASSUME Contains(s, x), x # Head(s) PROVE Contains(Tail(s), x)
    <3>1. PICK i \in 1 .. Len(s) : s[i] = x
      BY <2>2 DEF Contains
    <3>2. i - 1 \in 1 .. Len(s) - 1
      BY <1>1, <2>2, <3>1
    <3>3. Tail(s)[i - 1] = x
      BY <1>1, <3>1, <3>2
    <3>4. QED
      BY <1>1, <3>2, <3>3 DEF Contains
  <2>3. QED
    BY <2>1, <2>2
<1>3. ASSUME NEW i \in 1 .. Len(Tail(s)), NEW j \in 1 .. Len(Tail(s)), Tail(s)[i] = Tail(s)[j]
      PROVE  i = j
  <2>1. i + 1 \in 1 .. Len(s) /\ j + 1 \in 1 .. Len(s) /\ s[i + 1] = s[j + 1]
    BY <1>1, <1>3
  <2>2. QED
    BY <2>1
<1>4. Contains(s, Head(s))
  BY <1>1 DEF Contains
<1>5. QED
  BY <1>1, <1>2, <1>3, <1>4

\* A line that someone leaves: the others keep their places, and the head stays head.
LEMMA Left ==
  ASSUME NEW S, NEW s \in Seq(S), NEW i \in 1 .. Len(s)
  PROVE  /\ RemoveAt(s, i) \in Seq(S)
         /\ \A x : Contains(s, x) /\ x # s[i] => Contains(RemoveAt(s, i), x)
         /\ Head(s) # s[i] => Head(RemoveAt(s, i)) = Head(s)
<1> DEFINE a == SubSeq(s, 1, i - 1)
           b == SubSeq(s, i + 1, Len(s))
<1>1. Len(s) \in Nat /\ \A j \in 1 .. Len(s) : s[j] \in S
  OBVIOUS
<1>2. /\ a \in Seq(S) /\ Len(a) = i - 1
      /\ \A j \in 1 .. i - 1 : a[j] = s[j]
  <2>1. \A j \in 1 .. i - 1 : s[j] \in S
    BY <1>1
  <2>2. /\ a \in Seq(S) /\ Len(a) = IF 1 <= i - 1 THEN i - 1 - 1 + 1 ELSE 0
        /\ \A j \in 1 .. i - 1 - 1 + 1 : a[j] = s[1 + j - 1]
    BY <2>1, SubSeqProperties
  <2> HIDE DEF a
  <2>3. QED
    BY <1>1, <2>2
<1>3. /\ b \in Seq(S) /\ Len(b) = Len(s) - i
      /\ \A j \in 1 .. Len(s) - i : b[j] = s[i + j]
  <2>1. \A j \in i + 1 .. Len(s) : s[j] \in S
    BY <1>1
  <2>2. /\ b \in Seq(S) /\ Len(b) = IF i + 1 <= Len(s) THEN Len(s) - (i + 1) + 1 ELSE 0
        /\ \A j \in 1 .. Len(s) - (i + 1) + 1 : b[j] = s[i + 1 + j - 1]
    BY <1>1, <2>1, SubSeqProperties
  <2> HIDE DEF b
  <2>3. QED
    BY <1>1, <2>2
<1>4. RemoveAt(s, i) = a \o b
  BY DEF RemoveAt
<1> HIDE DEF a, b
<1>5. /\ a \o b \in Seq(S) /\ Len(a \o b) = Len(s) - 1
      /\ \A j \in 1 .. Len(s) - 1 : (a \o b)[j] = IF j <= i - 1 THEN s[j] ELSE s[j + 1]
  <2>1. /\ a \o b \in Seq(S) /\ Len(a \o b) = Len(a) + Len(b)
        /\ \A j \in 1 .. Len(a) + Len(b) :
             (a \o b)[j] = IF j <= Len(a) THEN a[j] ELSE b[j - Len(a)]
    BY <1>2, <1>3, ConcatProperties
  <2>2. Len(a) + Len(b) = Len(s) - 1
    BY <1>1, <1>2, <1>3
  <2>3. ASSUME NEW j \in 1 .. Len(s) - 1
        PROVE  (a \o b)[j] = IF j <= i - 1 THEN s[j] ELSE s[j + 1]
    <3>1. CASE j <= i - 1
      BY <1>1, <1>2, <2>1, <2>2, <3>1
    <3>2. CASE ~(j <= i - 1)
      <4>1. j - Len(a) \in 1 .. Len(s) - i /\ i + (j - Len(a)) = j + 1
        BY <1>1, <1>2, <3>2
      <4>2. b[j - Len(a)] = s[j + 1]
        BY <1>3, <4>1
      <4>3. QED
        BY <1>2, <2>1, <2>2, <3>2, <4>2
    <3>3. QED
      BY <3>1, <3>2
  <2>4. QED
    BY <2>1, <2>2, <2>3
<1>6. ASSUME NEW x, Contains(s, x), x # s[i] PROVE Contains(a \o b, x)
  <2>1. PICK j \in 1 .. Len(s) : s[j] = x
    BY <1>6 DEF Contains
  <2>2. CASE j < i
    <3>1. j \in 1 .. Len(s) - 1 /\ j <= i - 1
      BY <1>1, <2>2
    <3>2. (a \o b)[j] = x
      BY <1>5, <2>1, <3>1
    <3>3. QED
      BY <1>5, <3>1, <3>2 DEF Contains
  <2>3. CASE j > i
    <3>1. j - 1 \in 1 .. Len(s) - 1 /\ ~(j - 1 <= i - 1) /\ j - 1 + 1 = j
      BY <1>1, <2>3
    <3>2. (a \o b)[j - 1] = x
      BY <1>5, <2>1, <3>1
    <3>3. QED
      BY <1>5, <3>1, <3>2 DEF Contains
  <2>4. QED
    BY <1>6, <2>1, <2>2, <2>3
<1>7. ASSUME Head(s) # s[i] PROVE Head(a \o b) = Head(s)
  <2>1. i # 1 /\ 1 \in 1 .. Len(s) - 1 /\ 1 <= i - 1
    BY <1>1, <1>7
  <2> DEFINE t == a \o b
  <2>2. t[1] = s[1] /\ t \in Seq(S) /\ Len(t) # 0
    BY <1>1, <1>5, <2>1
  <2> HIDE DEF t
  <2>3. Head(t) = t[1]
    BY <2>2
  <2>4. Head(s) = s[1]
    BY <1>1
  <2>5. QED
    BY <2>2, <2>3, <2>4 DEF t
<1>8. QED
  BY <1>4, <1>5, <1>6, <1>7

-----------------------------------------------------------------------------
(* Lemmas about channels *)

\* The channel of a request that has one.
LEMMA MyChannel ==
  ASSUME TypeOK, Flow, NEW r \in Requests, mine[r] # Nil, pc[r] # "idle"
  PROVE  /\ call[r] \in Calls[r] /\ call[r].name \in Names
         /\ mine[r] = map[call[r].name] /\ mine[r] \in 1 .. Len(channels)
         /\ channels[mine[r]] \in Channel
         /\ channels[mine[r]].items \in Seq(Requests)
         /\ channels[mine[r]].waiters \in Seq(Requests)
         /\ Queued(call[r].name) = channels[mine[r]].items
<1>1. call[r] \in Calls[r] /\ mine[r] = map[call[r].name]
  BY DEF Flow, FlowOf
<1>2. call[r].name \in Names
  BY <1>1, CallShape
<1>3. mine[r] \in 1 .. Len(channels)
  BY <1>1, <1>2 DEF TypeOK
<1>4. channels[mine[r]] \in Channel
  BY <1>3 DEF TypeOK
<1>5. QED
  BY <1>1, <1>2, <1>3, <1>4 DEF Channel, Queued

\* A request that changes its channel changes what is queued under its name alone.
LEMMA ChannelChanges ==
  ASSUME TypeOK, Flow, NEW r \in Requests, mine[r] # Nil, pc[r] # "idle", map' = map,
         NEW items \in Seq(Requests), NEW waiters \in Seq(Requests),
         channels' = [channels EXCEPT ![mine[r]] = [items |-> items, waiters |-> waiters]]
  PROVE  /\ channels' \in Seq(Channel) /\ Len(channels') = Len(channels)
         /\ channels'[mine[r]].waiters = waiters
         /\ \A i \in 1 .. Len(channels) : i # mine[r] => channels'[i] = channels[i]
         /\ \A n \in Names : Queued(n)' = IF n = call[r].name THEN items ELSE Queued(n)
<1> DEFINE c == [items |-> items, waiters |-> waiters]
<1>1. c \in Channel /\ c.items = items /\ c.waiters = waiters
  BY DEF Channel
<1>2. mine[r] \in 1 .. Len(channels) /\ mine[r] = map[call[r].name] /\ call[r].name \in Names
  BY MyChannel
<1>3. channels \in Seq(Channel)
  BY DEF TypeOK
<1> HIDE DEF c
<1>4. channels' = [channels EXCEPT ![mine[r]] = c]
  BY DEF c
<1>5. /\ channels' \in Seq(Channel) /\ Len(channels') = Len(channels)
      /\ \A i \in 1 .. Len(channels) : channels'[i] = IF i = mine[r] THEN c ELSE channels[i]
  BY <1>1, <1>2, <1>3, <1>4, ExceptSeq
<1>6. ASSUME NEW n \in Names
      PROVE  Queued(n)' = IF n = call[r].name THEN items ELSE Queued(n)
  <2>1. CASE map[n] = Nil
    BY <1>2, <2>1 DEF Queued
  <2>2. CASE map[n] # Nil
    <3>1. map[n] \in 1 .. Len(channels)
      BY <2>2 DEF TypeOK
    <3>2. map[n] = mine[r] <=> n = call[r].name
      BY <1>2, <2>2 DEF Flow, Apart
    <3>3. QED
      BY <1>1, <1>5, <2>2, <3>1, <3>2 DEF Queued
  <2>3. QED
    BY <2>1, <2>2
<1>7. QED
  BY <1>1, <1>2, <1>5, <1>6

\* Who leaves the line at the mutex.
LEMMA LeavesLine ==
  ASSUME TypeOK, Flow, NEW r \in Requests, pc[r] = "recv"
  PROVE  /\ Without(r) \in Seq(Requests)
         /\ \A x : Contains(channels[mine[r]].waiters, x) /\ x # r => Contains(Without(r), x)
         /\ Head(channels[mine[r]].waiters) # r =>
              Head(Without(r)) = Head(channels[mine[r]].waiters)
<1> DEFINE line == channels[mine[r]].waiters
           i == CHOOSE i \in DOMAIN line : line[i] = r
<1>1. line \in Seq(Requests) /\ Contains(line, r)
  BY MyChannel DEF Flow, FlowOf, InLine, Working
<1>2. DOMAIN line = 1 .. Len(line)
  BY <1>1
<1>3. i \in 1 .. Len(line) /\ line[i] = r
  BY <1>1, <1>2 DEF Contains
<1>4. Without(r) = RemoveAt(line, i)
  BY DEF Without
<1> HIDE DEF line, i
<1>5. QED
  BY <1>1, <1>3, <1>4, Left DEF line

-----------------------------------------------------------------------------
(* What the steps do *)

\* Outside the channels: a step of one request touches no other.
LEMMA OneActs ==
  ASSUME TypeOK, Flow, NEW r \in Requests, StepOf(r)
  PROVE  /\ DOMAIN call' = Requests
         /\ \A s \in Requests \ {r} : /\ pc'[s] = pc[s] /\ call'[s] = call[s]
                                      /\ mine'[s] = mine[s] /\ got'[s] = got[s]
         /\ pc[r] # "idle" => call' = call
<1> USE DEF TypeOK, Flow, Goto
<1>1. CASE \E c \in Calls[r] : Invoke(r, c)
  BY <1>1 DEF Invoke
<1>2. CASE Lookup(r)
  BY <1>2 DEF Lookup
<1>3. CASE Send(r) \/ Lock(r)
  BY <1>3 DEF Send, Lock
<1>4. CASE Receive(r) \/ TimeIsUp(r)
  BY <1>4 DEF Receive, TimeIsUp
<1>5. CASE Deliver(r) \/ Drop(r)
  BY <1>5 DEF Deliver, Drop
<1>6. QED
  BY <1>1, <1>2, <1>3, <1>4, <1>5 DEF StepOf, Step

\* Lookup finds the channel of its name or makes it, and leaves all others alone.
LEMMA LookupDoes ==
  ASSUME TypeOK, Flow, NEW r \in Requests, Lookup(r)
  PROVE  /\ channels' \in Seq(Channel) /\ Len(channels') >= Len(channels)
         /\ \A i \in 1 .. Len(channels) : channels'[i] = channels[i]
         /\ map' \in [Names -> Nat \union {Nil}]
         /\ \A n \in Names : map'[n] # Nil => map'[n] \in 1 .. Len(channels')
         /\ \A n \in Names : map[n] # Nil => map'[n] = map[n]
         /\ mine' = [mine EXCEPT ![r] = map'[call[r].name]]
         /\ map'[call[r].name] # Nil /\ call[r].name \in Names
         /\ Apart'
         /\ \A n \in Names : Queued(n)' = Queued(n)
<1> DEFINE n0 == call[r].name
           new == Len(channels) + 1
<1>1. n0 \in Names
  BY CallShape DEF Lookup, Flow, FlowOf
<1>2. channels \in Seq(Channel) /\ Len(channels) \in Nat
  BY DEF TypeOK
<1>3. CASE map[n0] # Nil
  <2>1. /\ map' = map /\ channels' = channels
        /\ mine' = [mine EXCEPT ![r] = map'[n0]]
    BY <1>3 DEF Lookup
  <2>2. \A n \in Names : Queued(n)' = Queued(n)
    BY <2>1 DEF Queued
  <2>3. QED
    BY <1>1, <1>2, <1>3, <2>1, <2>2 DEF TypeOK, Flow, Apart
<1>4. CASE map[n0] = Nil
  <2>1. /\ map' = [map EXCEPT ![n0] = new] /\ channels' = Append(channels, Fresh)
        /\ mine' = [mine EXCEPT ![r] = new]
    BY <1>4 DEF Lookup
  <2>2. Fresh \in Channel /\ Fresh.items = <<>>
    BY DEF Fresh, Channel
  <2>3. /\ channels' \in Seq(Channel) /\ Len(channels') = new
        /\ \A i \in 1 .. Len(channels) : channels'[i] = channels[i]
        /\ channels'[new] = Fresh
    BY <1>2, <2>1, <2>2, AppendProperties
  <2>4. new \in Nat /\ new # Nil /\ new \notin 1 .. Len(channels)
    BY <1>2, QueueAssumption
  <2>5. /\ map' \in [Names -> Nat \union {Nil}]
        /\ \A n \in Names : map'[n] = IF n = n0 THEN new ELSE map[n]
    BY <1>1, <2>1, <2>4 DEF TypeOK
  <2> HIDE DEF new, n0
  <2>6. \A n \in Names : map[n] # Nil => map[n] \in 1 .. Len(channels)
    BY DEF TypeOK
  <2>7. \A n \in Names : map'[n] # Nil => map'[n] \in 1 .. Len(channels')
    BY <1>2, <2>3, <2>4, <2>5, <2>6 DEF new
  <2>8. Apart'
    BY <1>4, <2>4, <2>5, <2>6 DEF Flow, Apart
  <2>9. ASSUME NEW n \in Names PROVE Queued(n)' = Queued(n)
    <3>1. CASE n = n0
      BY <1>4, <2>2, <2>3, <2>4, <2>5, <3>1 DEF Queued
    <3>2. CASE n # n0
      BY <2>3, <2>5, <2>6, <3>2 DEF Queued
    <3>3. QED
      BY <3>1, <3>2
  <2>10. \A n \in Names : map[n] # Nil => map'[n] = map[n]
    BY <1>4, <2>5
  <2>11. map'[n0] = new
    BY <1>1, <2>5
  <2>12. Len(channels') >= Len(channels)
    BY <1>2, <2>3 DEF new
  <2>13. QED
    BY <1>1, <2>1, <2>3, <2>4, <2>5, <2>7, <2>8, <2>9, <2>10, <2>11, <2>12 DEF n0
<1>5. QED
  BY <1>3, <1>4

\* Send puts its message at the end of the channel of its name.
LEMMA SendDoes ==
  ASSUME TypeOK, Flow, NEW r \in Requests, Send(r)
  PROVE  LET c == channels[mine[r]] IN
         /\ mine[r] # Nil /\ Append(c.items, r) \in Seq(Requests) /\ c.waiters \in Seq(Requests)
         /\ channels' = [channels EXCEPT ![mine[r]] = [items |-> Append(c.items, r),
                                                       waiters |-> c.waiters]]
<1> DEFINE c == channels[mine[r]]
<1>1. mine[r] # Nil
  BY DEF Send, Flow, FlowOf, Working
<1>2. c \in Channel /\ c.items \in Seq(Requests) /\ c.waiters \in Seq(Requests)
  BY <1>1, MyChannel DEF Send
<1>3. Append(c.items, r) \in Seq(Requests)
  BY <1>2, Appended
<1>4. channels' = [channels EXCEPT ![mine[r]] = [c EXCEPT !.items = Append(c.items, r)]]
  BY DEF Send
<1>5. \A v : [c EXCEPT !.items = v] = [items |-> v, waiters |-> c.waiters]
  BY <1>2 DEF Channel
<1>6. QED
  BY <1>1, <1>2, <1>3, <1>4, <1>5

\* Lock takes its place at the end of the line.
LEMMA LockDoes ==
  ASSUME TypeOK, Flow, NEW r \in Requests, Lock(r)
  PROVE  LET c == channels[mine[r]] IN
         /\ mine[r] # Nil /\ c.items \in Seq(Requests) /\ Append(c.waiters, r) \in Seq(Requests)
         /\ channels' = [channels EXCEPT ![mine[r]] = [items |-> c.items,
                                                       waiters |-> Append(c.waiters, r)]]
<1> DEFINE c == channels[mine[r]]
<1>1. mine[r] # Nil
  BY DEF Lock, Flow, FlowOf, Working
<1>2. c \in Channel /\ c.items \in Seq(Requests) /\ c.waiters \in Seq(Requests)
  BY <1>1, MyChannel DEF Lock
<1>3. Append(c.waiters, r) \in Seq(Requests)
  BY <1>2, Appended
<1>4. channels' = [channels EXCEPT ![mine[r]] = [c EXCEPT !.waiters = Append(c.waiters, r)]]
  BY DEF Lock
<1>5. \A v : [c EXCEPT !.waiters = v] = [items |-> c.items, waiters |-> v]
  BY <1>2 DEF Channel
<1>6. QED
  BY <1>1, <1>2, <1>3, <1>4, <1>5

\* A consumer whose time is up, or that is dropped, leaves the line.
LEMMA LeaveDoes ==
  ASSUME TypeOK, Flow, NEW r \in Requests, pc[r] = "recv",
         channels' = [channels EXCEPT ![mine[r]].waiters = Without(r)]
  PROVE  LET c == channels[mine[r]] IN
         /\ mine[r] # Nil /\ c.items \in Seq(Requests) /\ Without(r) \in Seq(Requests)
         /\ channels' = [channels EXCEPT ![mine[r]] = [items |-> c.items,
                                                       waiters |-> Without(r)]]
<1> DEFINE c == channels[mine[r]]
<1>1. mine[r] # Nil
  BY DEF Flow, FlowOf, Working
<1>2. c \in Channel /\ c.items \in Seq(Requests)
  BY <1>1, MyChannel
<1>3. channels' = [channels EXCEPT ![mine[r]] = [c EXCEPT !.waiters = Without(r)]]
  OBVIOUS
<1>4. [c EXCEPT !.waiters = Without(r)] = [items |-> c.items, waiters |-> Without(r)]
  BY <1>2 DEF Channel
<1>5. QED
  BY <1>1, <1>2, <1>3, <1>4, LeavesLine

\* Receive takes the first message, and leaves the line with the last it may take.
LEMMA ReceiveDoes ==
  ASSUME TypeOK, Flow, NEW r \in Requests, Receive(r)
  PROVE  LET c == channels[mine[r]]
             line == IF Len(got'[r]) = Limit(call[r]) THEN Without(r) ELSE c.waiters
         IN
         /\ mine[r] # Nil /\ c.items \in Seq(Requests) /\ c.items # <<>>
         /\ Tail(c.items) \in Seq(Requests) /\ line \in Seq(Requests)
         /\ channels' = [channels EXCEPT ![mine[r]] = [items |-> Tail(c.items), waiters |-> line]]
<1> DEFINE c == channels[mine[r]]
<1>1. pc[r] = "recv" /\ c.items # <<>>
  BY DEF Receive, Owns, Items
<1>2. mine[r] # Nil
  BY <1>1 DEF Flow, FlowOf, Working
<1>3. c.items \in Seq(Requests) /\ c.waiters \in Seq(Requests)
  BY <1>1, <1>2, MyChannel
<1>4. Tail(c.items) \in Seq(Requests)
  BY <1>1, <1>3, HeadTailProperties
<1>5. Without(r) \in Seq(Requests)
  BY <1>1, LeavesLine
<1>6. QED
  BY <1>1, <1>2, <1>3, <1>4, <1>5 DEF Receive, Items

\* All steps but Send and Receive leave every message where it is.
LEMMA QuietSteps ==
  ASSUME TypeOK, Flow, NEW r \in Requests, StepOf(r), ~Send(r), ~Receive(r)
  PROVE  /\ got' = got /\ pushed' = pushed
         /\ \A n \in Names : Queued(n)' = Queued(n)
<1> DEFINE c == channels[mine[r]]
<1>1. got' = got /\ pushed' = pushed
  <2>1. CASE \E d \in Calls[r] : Invoke(r, d)
    BY <2>1 DEF Invoke
  <2>2. CASE Step(r)
    BY <2>2 DEF Step, Lookup, Lock, TimeIsUp, Deliver
  <2>3. CASE Drop(r)
    BY <2>3 DEF Drop
  <2>4. QED
    BY <2>1, <2>2, <2>3 DEF StepOf
<1>2. CASE UNCHANGED <<map, channels>>
  BY <1>1, <1>2 DEF Queued
<1>3. CASE Lookup(r)
  BY <1>1, <1>3, LookupDoes
<1>4. ASSUME NEW w \in Seq(Requests), mine[r] # Nil, pc[r] # "idle", map' = map,
             c.items \in Seq(Requests),
             channels' = [channels EXCEPT ![mine[r]] = [items |-> c.items, waiters |-> w]]
      PROVE  \A n \in Names : Queued(n)' = Queued(n)
  <2>1. \A n \in Names : Queued(n)' = IF n = call[r].name THEN c.items ELSE Queued(n)
    BY <1>4, ChannelChanges
  <2>2. c.items = Queued(call[r].name)
    BY <1>4, MyChannel
  <2>3. QED
    BY <2>1, <2>2
<1> HIDE DEF c
<1>5. CASE Lock(r)
  <2>1. mine[r] # Nil /\ pc[r] # "idle" /\ map' = map
    BY <1>5, LockDoes DEF Lock
  <2>2. QED
    BY <1>1, <1>4, <1>5, <2>1, LockDoes DEF c
<1>6. CASE TimeIsUp(r) \/ (Drop(r) /\ pc[r] = "recv")
  <2>1. /\ pc[r] = "recv" /\ map' = map
        /\ channels' = [channels EXCEPT ![mine[r]].waiters = Without(r)]
    BY <1>6 DEF TimeIsUp, Owns, Drop
  <2>2. QED
    BY <1>1, <1>4, <2>1, LeaveDoes DEF c
<1>7. QED
  BY <1>2, <1>3, <1>5, <1>6 DEF StepOf, Step, Invoke, Deliver, Drop

\* Send queues its message.
LEMMA SendQueues ==
  ASSUME TypeOK, Flow, pushed \in [Names -> Seq(Requests)], NEW r \in Requests, Send(r)
  PROVE  /\ call[r].name \in Names /\ got' = got
         /\ \A n \in Names : Queued(n) \in Seq(Requests)
         /\ \A n \in Names :
              Queued(n)' = IF n = call[r].name THEN Append(Queued(n), r) ELSE Queued(n)
         /\ \A n \in Names :
              pushed'[n] = IF n = call[r].name THEN Append(pushed[n], r) ELSE pushed[n]
<1> DEFINE c == channels[mine[r]]
<1>1. mine[r] # Nil /\ pc[r] # "idle" /\ map' = map /\ got' = got
  BY SendDoes DEF Send
<1>2. c.items = Queued(call[r].name) /\ call[r].name \in Names
  BY <1>1, MyChannel
<1>3. \A n \in Names : Queued(n)' = IF n = call[r].name THEN Append(c.items, r) ELSE Queued(n)
  <2> HIDE DEF c
  <2>1. QED
    BY <1>1, SendDoes, ChannelChanges DEF c
<1>4. \A n \in Names : pushed'[n] = IF n = call[r].name THEN Append(pushed[n], r) ELSE pushed[n]
  BY DEF Send
<1>5. ASSUME NEW n \in Names PROVE Queued(n) \in Seq(Requests)
  <2>1. CASE map[n] = Nil
    BY <2>1 DEF Queued
  <2>2. CASE map[n] # Nil
    <3>1. channels[map[n]] \in Channel
      BY <2>2 DEF TypeOK
    <3>2. QED
      BY <2>2, <3>1 DEF Queued, Channel
  <2>3. QED
    BY <2>1, <2>2
<1> HIDE DEF c
<1>6. QED
  BY <1>1, <1>2, <1>3, <1>4, <1>5

\* Receive takes the first message of its channel.
LEMMA ReceiveTakes ==
  ASSUME TypeOK, Flow, NEW r \in Requests, Receive(r)
  PROVE  LET q == Queued(call[r].name) IN
         /\ call[r].name \in Names /\ q \in Seq(Requests) /\ q # <<>> /\ pushed' = pushed
         /\ \A n \in Names : Queued(n)' = IF n = call[r].name THEN Tail(q) ELSE Queued(n)
         /\ got' = [got EXCEPT ![r] = Append(got[r], Head(q))]
         /\ Head(q) \in Requests
<1> DEFINE c == channels[mine[r]]
<1>1. mine[r] # Nil /\ pc[r] # "idle" /\ map' = map /\ pushed' = pushed
  BY ReceiveDoes DEF Receive, Owns
<1>2. c.items = Queued(call[r].name) /\ call[r].name \in Names /\ c.items \in Seq(Requests)
  BY <1>1, MyChannel
<1>3. \A n \in Names : Queued(n)' = IF n = call[r].name THEN Tail(c.items) ELSE Queued(n)
  <2> HIDE DEF c
  <2>1. QED
    BY <1>1, ReceiveDoes, ChannelChanges DEF c
<1>4. got' = [got EXCEPT ![r] = Append(got[r], Head(c.items))] /\ c.items # <<>>
  BY DEF Receive, Items
<1> HIDE DEF c
<1>5. Head(c.items) \in Requests
  BY <1>2, <1>4, HeadTailProperties
<1>6. QED
  BY <1>1, <1>2, <1>3, <1>4, <1>5

-----------------------------------------------------------------------------
(* The invariant is inductive *)

\* The initial states: no channels.
LEMMA InitIInv == Init => IInv
<1> SUFFICES ASSUME Init PROVE IInv
  OBVIOUS
<1>0. \A m : ~Contains(<<>>, m)
  BY DEF Contains
<1>1. TypeOK
  BY DEF Init, TypeOK, Points
<1>2. Flow
  BY DEF Init, Flow, FlowOf, InLine, Apart, Working
<1>3. Sent /\ Once
  BY <1>0 DEF Init, Sent, Once, Queued
<1>4. Distinct
  BY DEF Init, Distinct, Queued
<1>5. QED
  BY <1>1, <1>2, <1>3, <1>4 DEF IInv

\* Every step keeps channels and requests what they are, and no batch exceeds its limit.
LEMMA TypePreserved ==
  ASSUME TypeOK, Flow, NEW r \in Requests, StepOf(r)
  PROVE  TypeOK'
<1> USE DEF Goto
<1>1. pc' \in [Requests -> Points]
  <2>1. PICK p \in Points : pc' = [pc EXCEPT ![r] = p]
    BY DEF StepOf, Step, Invoke, Lookup, Send, Lock, Receive, TimeIsUp, Deliver, Drop, Points
  <2>2. QED
    BY <2>1 DEF TypeOK
<1>2. \A s \in Requests : call'[s] \in Calls[s] \union {Nil}
  <2>1. CASE \E c \in Calls[r] : Invoke(r, c)
    BY <2>1 DEF Invoke, TypeOK, Flow
  <2>2. CASE Step(r) \/ Drop(r)
    BY <2>2 DEF Step, Lookup, Send, Lock, Receive, TimeIsUp, Deliver, Drop, TypeOK
  <2>3. QED
    BY <2>1, <2>2 DEF StepOf
<1>3. /\ channels' \in Seq(Channel)
      /\ map' \in [Names -> Nat \union {Nil}]
      /\ \A n \in Names : map'[n] # Nil => map'[n] \in 1 .. Len(channels')
      /\ mine' \in [Requests -> Nat \union {Nil}]
  <2>1. CASE UNCHANGED <<map, channels, mine>>
    BY <2>1 DEF TypeOK
  <2>2. CASE Lookup(r)
    <3>1. map'[call[r].name] \in Nat \union {Nil}
      BY <2>2, LookupDoes
    <3>2. mine' \in [Requests -> Nat \union {Nil}]
      BY <2>2, <3>1, LookupDoes DEF TypeOK
    <3>3. QED
      BY <2>2, <3>2, LookupDoes
  <2>3. ASSUME map' = map, mine' = mine, channels' \in Seq(Channel),
               Len(channels') = Len(channels)
        PROVE  /\ map' \in [Names -> Nat \union {Nil}]
               /\ \A n \in Names : map'[n] # Nil => map'[n] \in 1 .. Len(channels')
               /\ mine' \in [Requests -> Nat \union {Nil}]
    BY <2>3 DEF TypeOK
  <2>4. CASE Send(r)
    <3>1. pc[r] # "idle" /\ map' = map /\ mine' = mine
      BY <2>4 DEF Send
    <3>2. channels' \in Seq(Channel) /\ Len(channels') = Len(channels)
      BY <2>4, <3>1, SendDoes, ChannelChanges
    <3>3. QED
      BY <2>3, <3>1, <3>2
  <2>5. CASE Lock(r)
    <3>1. pc[r] # "idle" /\ map' = map /\ mine' = mine
      BY <2>5 DEF Lock
    <3>2. channels' \in Seq(Channel) /\ Len(channels') = Len(channels)
      BY <2>5, <3>1, LockDoes, ChannelChanges
    <3>3. QED
      BY <2>3, <3>1, <3>2
  <2>6. CASE Receive(r)
    <3>1. pc[r] # "idle" /\ map' = map /\ mine' = mine
      BY <2>6 DEF Receive, Owns
    <3>2. channels' \in Seq(Channel) /\ Len(channels') = Len(channels)
      BY <2>6, <3>1, ReceiveDoes, ChannelChanges
    <3>3. QED
      BY <2>3, <3>1, <3>2
  <2>7. CASE TimeIsUp(r) \/ (Drop(r) /\ pc[r] = "recv")
    <3>1. /\ pc[r] = "recv" /\ map' = map /\ mine' = mine
          /\ channels' = [channels EXCEPT ![mine[r]].waiters = Without(r)]
      BY <2>7 DEF TimeIsUp, Owns, Drop
    <3>2. channels' \in Seq(Channel) /\ Len(channels') = Len(channels)
      BY <3>1, LeaveDoes, ChannelChanges
    <3>3. QED
      BY <2>3, <3>1, <3>2
  <2>8. QED
    BY <2>1, <2>2, <2>4, <2>5, <2>6, <2>7 DEF StepOf, Step, Invoke, Deliver, Drop
<1>4. /\ got' \in [Requests -> Seq(Requests)]
      /\ \A s \in Requests : got'[s] # <<>> => Len(got'[s]) <= Limit(call'[s])
  <2>1. CASE Receive(r)
    <3> DEFINE h == Head(Queued(call[r].name))
               g == Append(got[r], h)
    <3>1. got' = [got EXCEPT ![r] = g] /\ h \in Requests
      BY <2>1, ReceiveTakes
    <3>2. got[r] \in Seq(Requests)
      BY DEF TypeOK
    <3> HIDE DEF h
    <3>3. g \in Seq(Requests) /\ Len(g) = Len(got[r]) + 1 /\ Len(got[r]) \in Nat
      BY <3>1, <3>2, AppendProperties
    <3>4. Len(g) <= Limit(call[r])
      <4>1. pc[r] = "recv" /\ MayPoll(r) /\ call[r] \in Calls[r] /\ ~Produces(call[r])
        BY <2>1 DEF Receive, Owns, Flow, FlowOf
      <4>2. CASE call[r].op = "pop"
        <5>1. Len(got[r]) = 0
          BY <4>1, <4>2 DEF Flow, FlowOf
        <5>2. QED
          BY <3>3, <4>2, <5>1 DEF Limit
      <4>3. CASE call[r].op = "subscribe"
        <5>1. Len(got[r]) < call[r].max /\ call[r].max \in Nat
          BY <4>1, <4>3, CallShape DEF MayPoll
        <5>2. QED
          BY <3>3, <4>3, <5>1 DEF Limit
      <4>4. QED
        BY <4>1, <4>2, <4>3, CallShape DEF Produces
    <3> HIDE DEF g
    <3>5. call' = call
      BY <2>1 DEF Receive
    <3>6. QED
      BY <3>1, <3>3, <3>4, <3>5 DEF TypeOK
  <2>2. CASE ~Receive(r)
    <3>1. got' = got
      BY <2>2 DEF StepOf, Step, Invoke, Lookup, Send, Lock, TimeIsUp, Deliver, Drop
    <3>2. ASSUME NEW s \in Requests, got[s] # <<>> PROVE call'[s] = call[s]
      <4>1. pc[s] # "idle"
        BY <3>2 DEF Flow, FlowOf
      <4>2. QED
        BY <4>1, OneActs
    <3>3. QED
      BY <3>1, <3>2 DEF TypeOK
  <2>3. QED
    BY <2>1, <2>2
<1>5. QED
  BY <1>1, <1>2, <1>3, <1>4 DEF TypeOK

\* Names keep their channels, and no step makes two of them share one.
LEMMA MapKept ==
  ASSUME TypeOK, Flow, NEW r \in Requests, StepOf(r)
  PROVE  Apart' /\ \A n \in Names : map[n] # Nil => map'[n] = map[n]
<1>1. CASE Lookup(r)
  BY <1>1, LookupDoes
<1>2. CASE map' = map
  BY <1>2 DEF Flow, Apart
<1>3. QED
  BY <1>1, <1>2 DEF StepOf, Step, Invoke, Send, Lock, Receive, TimeIsUp, Deliver, Drop

\* A line at a mutex in which r alone came, stayed or went.
LEMMA OthersStay ==
  ASSUME TypeOK, Flow, NEW r \in Requests, NEW s \in Requests \ {r}, pc[s] = "recv",
         pc'[s] = pc[s], mine'[s] = mine[s], got'[s] = got[s],
         mine[r] # Nil, pc[r] # "idle", map' = map,
         NEW items \in Seq(Requests), NEW line \in Seq(Requests),
         channels' = [channels EXCEPT ![mine[r]] = [items |-> items, waiters |-> line]],
         \A x : Contains(channels[mine[r]].waiters, x) /\ x # r => Contains(line, x),
         LET w == channels[mine[r]].waiters
         IN  w # <<>> /\ Head(w) # r => Head(line) = Head(w)
  PROVE  InLine(s)'
<1> DEFINE w == channels[mine[s]].waiters
<1>1. mine[s] \in 1 .. Len(channels)
  BY MyChannel DEF Flow, FlowOf, Working
<1>2. Contains(w, s) /\ (got[s] # <<>> => Head(w) = s)
  BY DEF Flow, InLine
<1>3. CASE mine[s] # mine[r]
  <2>1. channels'[mine[s]] = channels[mine[s]]
    BY <1>1, <1>3, ChannelChanges
  <2>2. QED
    BY <1>2, <2>1 DEF InLine
<1>4. CASE mine[s] = mine[r]
  <2>1. channels'[mine[s]].waiters = line
    BY <1>4, ChannelChanges
  <2>2. w # <<>>
    BY <1>2 DEF Contains
  <2>3. Contains(line, s)
    BY <1>2, <1>4
  <2>4. got[s] # <<>> => Head(line) = s
    BY <1>2, <1>4, <2>2
  <2>5. QED
    BY <2>1, <2>3, <2>4 DEF InLine
<1>5. QED
  BY <1>3, <1>4

\* Whatever a request does, the others keep their places in the lines.
LEMMA LinesKept ==
  ASSUME TypeOK, Flow, NEW r \in Requests, StepOf(r), NEW s \in Requests \ {r}
  PROVE  InLine(s)'
<1> DEFINE c == channels[mine[r]]
<1>1. pc'[s] = pc[s] /\ mine'[s] = mine[s] /\ got'[s] = got[s]
  BY OneActs
<1> SUFFICES ASSUME pc[s] = "recv" PROVE InLine(s)'
  BY <1>1 DEF InLine
<1>2. mine[s] \in 1 .. Len(channels)
  BY MyChannel DEF Flow, FlowOf, Working
<1>3. CASE channels'[mine[s]] = channels[mine[s]]
  BY <1>1, <1>3 DEF Flow, InLine
<1>4. ASSUME NEW items \in Seq(Requests), NEW line \in Seq(Requests),
             pc[r] # "idle", map' = map, mine[r] # Nil,
             channels' = [channels EXCEPT ![mine[r]] = [items |-> items, waiters |-> line]],
             \A x : Contains(c.waiters, x) /\ x # r => Contains(line, x),
             c.waiters # <<>> /\ Head(c.waiters) # r => Head(line) = Head(c.waiters)
      PROVE  InLine(s)'
  BY <1>1, <1>4, OthersStay
<1> HIDE DEF c
<1>5. CASE Send(r)
  <2>1. pc[r] # "idle" /\ map' = map
    BY <1>5 DEF Send
  <2>2. QED
    BY <1>4, <1>5, <2>1, SendDoes DEF c
<1>6. CASE Lock(r)
  <2>1. pc[r] # "idle" /\ map' = map
    BY <1>6 DEF Lock
  <2>2. mine[r] # Nil
    BY <1>6, LockDoes
  <2>3. c.waiters \in Seq(Requests)
    BY <2>1, <2>2, MyChannel DEF c
  <2>4. /\ \A x : Contains(c.waiters, x) => Contains(Append(c.waiters, r), x)
        /\ c.waiters # <<>> => Head(Append(c.waiters, r)) = Head(c.waiters)
    BY <2>3, Appended
  <2>5. QED
    BY <1>4, <1>6, <2>1, <2>2, <2>4, LockDoes DEF c
<1>7. CASE Receive(r)
  <2>1. pc[r] = "recv" /\ map' = map
    BY <1>7 DEF Receive, Owns
  <2> DEFINE line == IF Len(got'[r]) = Limit(call[r]) THEN Without(r) ELSE c.waiters
  <2>2. /\ \A x : Contains(c.waiters, x) /\ x # r => Contains(line, x)
        /\ Head(c.waiters) # r => Head(line) = Head(c.waiters)
    BY <2>1, LeavesLine DEF c
  <2>3. /\ mine[r] # Nil /\ Tail(c.items) \in Seq(Requests) /\ line \in Seq(Requests)
        /\ channels' = [channels EXCEPT ![mine[r]] = [items |-> Tail(c.items), waiters |-> line]]
    BY <1>7, ReceiveDoes DEF c
  <2> HIDE DEF line
  <2>4. QED
    BY <1>4, <2>1, <2>2, <2>3
<1>8. CASE TimeIsUp(r) \/ (Drop(r) /\ pc[r] = "recv")
  <2>1. /\ pc[r] = "recv" /\ map' = map
        /\ channels' = [channels EXCEPT ![mine[r]].waiters = Without(r)]
    BY <1>8 DEF TimeIsUp, Owns, Drop
  <2>2. /\ mine[r] # Nil /\ c.items \in Seq(Requests) /\ Without(r) \in Seq(Requests)
        /\ channels' = [channels EXCEPT ![mine[r]] = [items |-> c.items, waiters |-> Without(r)]]
    BY <2>1, LeaveDoes DEF c
  <2>3. /\ \A x : Contains(c.waiters, x) /\ x # r => Contains(Without(r), x)
        /\ Head(c.waiters) # r => Head(Without(r)) = Head(c.waiters)
    BY <2>1, LeavesLine DEF c
  <2>4. QED
    BY <1>4, <2>1, <2>2, <2>3
<1>9. CASE Lookup(r)
  BY <1>2, <1>3, <1>9, LookupDoes
<1>10. QED
  BY <1>3, <1>5, <1>6, <1>7, <1>8, <1>9 DEF StepOf, Step, Invoke, Deliver, Drop

\* A request that acts stays with its channel, and takes its place in the line there.
LEMMA ActorFlows ==
  ASSUME TypeOK, Flow, NEW r \in Requests, StepOf(r)
  PROVE  FlowOf(r)' /\ InLine(r)'
<1> USE DEF Goto
<1>0. ASSUME NEW items \in Seq(Requests), NEW line \in Seq(Requests),
             mine[r] # Nil, pc[r] # "idle", map' = map,
             channels' = [channels EXCEPT ![mine[r]] = [items |-> items, waiters |-> line]]
      PROVE  channels'[mine[r]].waiters = line
  <2>1. mine[r] \in DOMAIN channels
    BY <1>0, MyChannel DEF TypeOK
  <2>2. QED
    BY <1>0, <2>1
<1>1. FlowOf(r) /\ InLine(r) /\ r \in DOMAIN pc /\ r \in DOMAIN call
  BY DEF Flow, TypeOK
<1>2. \A p : pc' = [pc EXCEPT ![r] = p] => pc'[r] = p
  BY <1>1
<1>3. CASE \E c \in Calls[r] : Invoke(r, c)
  <2>1. PICK c \in Calls[r] : Invoke(r, c)
    BY <1>3
  <2>2. pc[r] = "idle" /\ pc'[r] = "lookup" /\ mine' = mine /\ got' = got
    BY <1>2, <2>1 DEF Invoke
  <2>3. call'[r] = c
    BY <1>1, <2>1 DEF Invoke
  <2>4. QED
    BY <1>1, <2>2, <2>3 DEF FlowOf, InLine, Working
<1>4. CASE Lookup(r)
  <2>1. pc[r] = "lookup" /\ call' = call /\ got' = got
    BY <1>4 DEF Lookup
  <2>2. pc'[r] = IF Produces(call[r]) THEN "send" ELSE "lock"
    BY <1>2, <1>4 DEF Lookup
  <2>3. mine'[r] = map'[call[r].name] /\ mine'[r] # Nil
    BY <1>4, LookupDoes DEF TypeOK
  <2>4. QED
    BY <1>1, <2>1, <2>2, <2>3 DEF FlowOf, InLine, Working
<1>5. CASE Lock(r)
  <2>1. pc[r] = "lock" /\ pc'[r] = "recv" /\ UNCHANGED <<map, call, mine, got>>
    BY <1>2, <1>5 DEF Lock
  <2>2. mine[r] # Nil /\ got[r] = <<>> /\ ~Produces(call[r])
    BY <1>1, <2>1 DEF FlowOf, Working
  <2>3. channels'[mine[r]].waiters = Append(channels[mine[r]].waiters, r)
    BY <1>0, <1>5, <2>1, <2>2, LockDoes
  <2>4. Contains(channels'[mine[r]].waiters, r)
    BY <2>1, <2>2, <2>3, MyChannel, Appended
  <2>5. QED
    BY <1>1, <2>1, <2>2, <2>4 DEF FlowOf, InLine, Working
<1>6. CASE Receive(r)
  <2>1. /\ pc[r] = "recv" /\ UNCHANGED <<map, call, mine>>
        /\ pc'[r] = IF Len(got'[r]) = Limit(call[r]) THEN "done" ELSE "recv"
    BY <1>2, <1>6 DEF Receive, Owns
  <2>2. mine[r] # Nil /\ ~Produces(call[r])
    BY <1>1, <2>1 DEF FlowOf, Working
  <2>3. call[r].op = "pop" => pc'[r] = "done"
    <3>1. ASSUME call[r].op = "pop" PROVE Len(got'[r]) = Limit(call[r])
      <4>1. got[r] = <<>> /\ got'[r] = Append(<<>>, Head(Queued(call[r].name)))
        BY <1>1, <1>6, <2>1, <3>1, ReceiveTakes DEF FlowOf, TypeOK
      <4>2. QED
        BY <3>1, <4>1 DEF Limit
    <3>2. QED
      BY <2>1, <3>1
  <2>4. ASSUME pc'[r] = "recv"
        PROVE  channels'[mine[r]].waiters = channels[mine[r]].waiters
    <3>1. Len(got'[r]) # Limit(call[r])
      BY <2>1, <2>4
    <3>2. QED
      BY <1>0, <1>6, <2>1, <2>2, <3>1, ReceiveDoes
  <2>5. Contains(channels[mine[r]].waiters, r) /\ Head(channels[mine[r]].waiters) = r
    BY <1>1, <1>6, <2>1 DEF InLine, Receive, Owns
  <2>6. InLine(r)'
    BY <2>1, <2>4, <2>5 DEF InLine
  <2>7. FlowOf(r)'
    BY <1>1, <2>1, <2>2, <2>3 DEF FlowOf, Working
  <2>8. QED
    BY <2>6, <2>7
<1>7. CASE Send(r) \/ TimeIsUp(r) \/ Deliver(r)
  <2>1. /\ pc[r] \in {"send", "recv", "done"} /\ UNCHANGED <<map, call, mine, got>>
        /\ pc'[r] \in {"done", "answered"}
    BY <1>2, <1>7 DEF Send, TimeIsUp, Owns, Deliver
  <2>2. QED
    BY <1>1, <2>1 DEF FlowOf, InLine, Working
<1>8. CASE Drop(r)
  <2>1. /\ pc[r] # "idle" /\ UNCHANGED <<map, call, mine, got>> /\ pc'[r] = "dropped"
    BY <1>2, <1>8 DEF Drop
  <2>2. QED
    BY <1>1, <2>1 DEF FlowOf, InLine, Working
<1>9. QED
  BY <1>3, <1>4, <1>5, <1>6, <1>7, <1>8 DEF StepOf, Step

\* Requests stay with the channels of their names, and collectors at the head of the line.
LEMMA FlowPreserved ==
  ASSUME TypeOK, Flow, NEW r \in Requests, StepOf(r)
  PROVE  Flow'
<1>1. ASSUME NEW s \in Requests \ {r} PROVE FlowOf(s)'
  <2>1. /\ pc'[s] = pc[s] /\ call'[s] = call[s]
        /\ mine'[s] = mine[s] /\ got'[s] = got[s]
    BY OneActs
  <2>2. FlowOf(s)
    BY DEF Flow
  <2>3. ASSUME mine[s] # Nil PROVE mine[s] = map'[call[s].name]
    <3>1. pc[s] # "idle"
      BY <2>2, <2>3 DEF FlowOf
    <3>2. call[s].name \in Names /\ mine[s] = map[call[s].name]
      BY <2>3, <3>1, MyChannel
    <3>3. QED
      BY <2>3, <3>2, MapKept
  <2>4. QED
    BY <2>1, <2>2, <2>3 DEF FlowOf
<1>2. QED
  BY <1>1, OneActs, MapKept, LinesKept, ActorFlows DEF Flow

Settled == {"done", "answered", "dropped"}

\* A request that is done keeps its call and its channel.
LEMMA StaysSettled ==
  ASSUME TypeOK, Flow, NEW r \in Requests, StepOf(r), NEW m \in Requests, pc[m] \in Settled
  PROVE  pc'[m] \in Settled /\ mine'[m] = mine[m] /\ call'[m] = call[m]
<1>1. CASE m # r
  BY <1>1, OneActs
<1>2. CASE m = r
  <2>1. Deliver(r) \/ Drop(r)
    BY <1>2 DEF StepOf, Step, Invoke, Lookup, Send, Lock, Receive, Owns, TimeIsUp, Settled
  <2>2. QED
    BY <1>2, <2>1 DEF Deliver, Drop, Goto, Settled, TypeOK
<1>3. QED
  BY <1>1, <1>2

\* A producer that has not sent its message is no queue's and no consumer's.
LEMMA NotYet ==
  ASSUME IInv, NEW r \in Requests, pc[r] \notin Settled
  PROVE  /\ \A n \in Names : ~Contains(pushed[n], r) /\ ~Contains(Queued(n), r)
         /\ \A q \in Requests : ~Contains(got[q], r)
<1>1. \A n \in Names : ~Contains(pushed[n], r)
  BY DEF IInv, Sent, Settled
<1>2. QED
  BY <1>1 DEF IInv, Sent

\* What Send does to the places of messages.
LEMMA SendPlaces ==
  ASSUME IInv, NEW r \in Requests, Send(r)
  PROVE  /\ call[r].name \in Names /\ got' = got
         /\ \A n \in Names, m \in Requests :
              /\ Contains(pushed'[n], m) <=> Contains(pushed[n], m) \/ (n = call[r].name /\ m = r)
              /\ Contains(Queued(n)', m) <=> Contains(Queued(n), m) \/ (n = call[r].name /\ m = r)
         /\ \A n \in Names : ~Contains(pushed[n], r) /\ ~Contains(Queued(n), r)
         /\ \A q \in Requests : ~Contains(got[q], r)
<1>1. pushed \in [Names -> Seq(Requests)] /\ TypeOK /\ Flow
  BY DEF IInv, Sent
<1>2. pc[r] \notin Settled
  BY DEF Send, Settled
<1>3. ASSUME NEW n \in Names, NEW m \in Requests
      PROVE  Contains(pushed'[n], m) <=> Contains(pushed[n], m) \/ (n = call[r].name /\ m = r)
  <2>1. pushed[n] \in Seq(Requests)
    BY <1>1
  <2>2. Contains(Append(pushed[n], r), m) <=> Contains(pushed[n], m) \/ m = r
    BY <2>1, Appended
  <2>3. pushed'[n] = IF n = call[r].name THEN Append(pushed[n], r) ELSE pushed[n]
    BY <1>1, SendQueues
  <2>4. QED
    BY <2>2, <2>3
<1>4. ASSUME NEW n \in Names, NEW m \in Requests
      PROVE  Contains(Queued(n)', m) <=> Contains(Queued(n), m) \/ (n = call[r].name /\ m = r)
  <2>1. Queued(n) \in Seq(Requests)
    BY <1>1, SendQueues
  <2>2. Contains(Append(Queued(n), r), m) <=> Contains(Queued(n), m) \/ m = r
    BY <2>1, Appended
  <2>3. Queued(n)' = IF n = call[r].name THEN Append(Queued(n), r) ELSE Queued(n)
    BY <1>1, SendQueues
  <2>4. QED
    BY <2>2, <2>3
<1>5. call[r].name \in Names /\ got' = got
  BY <1>1, SendQueues
<1>6. QED
  BY <1>2, <1>3, <1>4, <1>5, NotYet

\* What Receive does to the places of messages.
LEMMA ReceivePlaces ==
  ASSUME IInv, NEW r \in Requests, Receive(r)
  PROVE  LET h == Head(Queued(call[r].name)) IN
         /\ h \in Requests /\ call[r].name \in Names /\ pushed' = pushed
         /\ Contains(Queued(call[r].name), h)
         /\ \A n \in Names, m \in Requests :
              Contains(Queued(n)', m) <=> Contains(Queued(n), m) /\ ~(n = call[r].name /\ m = h)
         /\ \A q, m \in Requests :
              Contains(got'[q], m) <=> Contains(got[q], m) \/ (q = r /\ m = h)
<1> DEFINE n0 == call[r].name
           s == Queued(n0)
<1>1. TypeOK /\ Flow
  BY DEF IInv
<1>2. /\ n0 \in Names /\ s \in Seq(Requests) /\ s # <<>> /\ pushed' = pushed
      /\ \A n \in Names : Queued(n)' = IF n = n0 THEN Tail(s) ELSE Queued(n)
      /\ got' = [got EXCEPT ![r] = Append(got[r], Head(s))]
      /\ Head(s) \in Requests
  BY <1>1, ReceiveTakes
<1>3. \A i, j \in 1 .. Len(s) : s[i] = s[j] => i = j
  BY <1>2 DEF IInv, Distinct
<1> HIDE DEF n0, s
<1>4. /\ Contains(s, Head(s))
      /\ \A m : Contains(Tail(s), m) <=> Contains(s, m) /\ m # Head(s)
  BY <1>2, <1>3, Taken
<1>5. \A n \in Names, m \in Requests :
        Contains(Queued(n)', m) <=> Contains(Queued(n), m) /\ ~(n = n0 /\ m = Head(s))
  BY <1>2, <1>4 DEF s
<1>6. ASSUME NEW q \in Requests, NEW m \in Requests
      PROVE  Contains(got'[q], m) <=> Contains(got[q], m) \/ (q = r /\ m = Head(s))
  <2>1. got[r] \in Seq(Requests) /\ got \in [Requests -> Seq(Requests)]
    BY DEF IInv, TypeOK
  <2>2. Contains(Append(got[r], Head(s)), m) <=> Contains(got[r], m) \/ m = Head(s)
    BY <1>2, <2>1, Appended
  <2>3. got'[q] = IF q = r THEN Append(got[r], Head(s)) ELSE got[q]
    BY <1>2, <2>1
  <2>4. QED
    BY <2>2, <2>3
<1>7. QED
  BY <1>2, <1>4, <1>5, <1>6 DEF n0, s

\* Messages come from producers that are done, and go nowhere else.
LEMMA SentPreserved ==
  ASSUME IInv, NEW r \in Requests, StepOf(r)
  PROVE  Sent'
<1>1. TypeOK /\ Flow /\ Sent
  BY DEF IInv
<1>2. ASSUME NEW n \in Names, NEW m \in Requests, Contains(pushed[n], m)
      PROVE  /\ pc'[m] \in Settled /\ mine'[m] # Nil
             /\ Produces(call'[m]) /\ call'[m].name = n
  <2>1. pc[m] \in Settled /\ mine[m] # Nil /\ Produces(call[m]) /\ call[m].name = n
    BY <1>1, <1>2 DEF Sent, Settled
  <2>2. QED
    BY <1>1, <2>1, StaysSettled
<1>3. CASE ~Send(r) /\ ~Receive(r)
  <2>1. /\ got' = got /\ pushed' = pushed
        /\ \A n \in Names : Queued(n)' = Queued(n)
    BY <1>1, <1>3, QuietSteps
  <2>2. QED
    BY <1>1, <1>2, <2>1 DEF Sent, Settled
<1>4. CASE Send(r)
  <2>1. pushed' \in [Names -> Seq(Requests)]
    <3>1. \A s \in Seq(Requests) : Append(s, r) \in Seq(Requests)
      BY Appended
    <3>2. QED
      BY <1>1, <1>4, <3>1 DEF Send, Sent
  <2>2. /\ pc'[r] \in Settled /\ mine'[r] # Nil
        /\ Produces(call'[r]) /\ call'[r].name = call[r].name
    BY <1>1, <1>4 DEF Send, Goto, Flow, FlowOf, Working, Settled, TypeOK
  <2>3. \A n \in Names, m \in Requests : Contains(pushed'[n], m) =>
          /\ pc'[m] \in Settled /\ mine'[m] # Nil
          /\ Produces(call'[m]) /\ call'[m].name = n
    BY <1>2, <1>4, <2>2, SendPlaces
  <2>4. \A n \in Names, m \in Requests : Contains(Queued(n)', m) => Contains(pushed'[n], m)
    BY <1>1, <1>4, SendPlaces DEF Sent
  <2>5. \A q, m \in Requests :
          Contains(got'[q], m) => \E n \in Names : Contains(pushed'[n], m)
    BY <1>1, <1>4, SendPlaces DEF Sent
  <2>6. QED
    BY <2>1, <2>3, <2>4, <2>5 DEF Sent, Settled
<1>5. CASE Receive(r)
  <2>1. pushed' = pushed
    BY <1>5, ReceivePlaces
  <2>2. \A n \in Names, m \in Requests : Contains(Queued(n)', m) => Contains(pushed'[n], m)
    BY <1>1, <1>5, <2>1, ReceivePlaces DEF Sent
  <2>3. \A q, m \in Requests :
          Contains(got'[q], m) => \E n \in Names : Contains(pushed'[n], m)
    BY <1>1, <1>5, <2>1, ReceivePlaces DEF Sent
  <2>4. QED
    BY <1>1, <1>2, <2>1, <2>2, <2>3 DEF Sent, Settled
<1>6. QED
  BY <1>3, <1>4, <1>5

\* No step queues a message a second time.
LEMMA DistinctPreserved ==
  ASSUME IInv, NEW r \in Requests, StepOf(r)
  PROVE  Distinct'
<1>1. TypeOK /\ Flow /\ pushed \in [Names -> Seq(Requests)]
  BY DEF IInv, Sent
<1>2. CASE ~Send(r) /\ ~Receive(r)
  BY <1>1, <1>2, QuietSteps DEF IInv, Distinct
<1>3. ASSUME NEW n \in Names
      PROVE  \A i, j \in 1 .. Len(Queued(n)) : Queued(n)[i] = Queued(n)[j] => i = j
  BY DEF IInv, Distinct
<1>4. ASSUME Send(r), NEW n \in Names
      PROVE  \A i, j \in 1 .. Len(Queued(n)') : (Queued(n)')[i] = (Queued(n)')[j] => i = j
  <2> DEFINE s == Queued(n)
  <2>1. s \in Seq(Requests) /\ Queued(n)' = IF n = call[r].name THEN Append(s, r) ELSE s
    BY <1>1, <1>4, SendQueues
  <2>2. ~Contains(s, r)
    BY <1>4, SendPlaces
  <2> HIDE DEF s
  <2>3. /\ Len(Append(s, r)) = Len(s) + 1 /\ Len(s) \in Nat
        /\ \A i \in 1 .. Len(s) : Append(s, r)[i] = s[i] /\ s[i] # r
        /\ Append(s, r)[Len(s) + 1] = r
    BY <2>1, <2>2, AppendProperties DEF Contains
  <2>4. \A i, j \in 1 .. Len(s) : s[i] = s[j] => i = j
    BY <1>3 DEF s
  <2>5. ASSUME NEW i \in 1 .. Len(s) + 1, NEW j \in 1 .. Len(s) + 1,
               Append(s, r)[i] = Append(s, r)[j]
        PROVE  i = j
    BY <2>3, <2>4, <2>5
  <2>6. QED
    BY <2>1, <2>3, <2>4, <2>5
<1>5. ASSUME Receive(r), NEW n \in Names
      PROVE  \A i, j \in 1 .. Len(Queued(n)') : (Queued(n)')[i] = (Queued(n)')[j] => i = j
  <2> DEFINE n0 == call[r].name
             s == Queued(n0)
  <2>1. /\ n0 \in Names /\ s \in Seq(Requests) /\ s # <<>>
        /\ Queued(n)' = IF n = n0 THEN Tail(s) ELSE Queued(n)
    BY <1>1, <1>5, ReceiveTakes
  <2>2. \A i, j \in 1 .. Len(s) : s[i] = s[j] => i = j
    BY <1>3, <2>1
  <2> HIDE DEF n0, s
  <2>3. \A i, j \in 1 .. Len(Tail(s)) : Tail(s)[i] = Tail(s)[j] => i = j
    BY <2>1, <2>2, Taken
  <2>4. QED
    BY <1>3, <2>1, <2>3
<1>6. QED
  BY <1>2, <1>4, <1>5 DEF Distinct

\* Send puts a new message in its queue, Receive moves one from its queue to one consumer.
LEMMA OncePreserved ==
  ASSUME IInv, NEW r \in Requests, StepOf(r)
  PROVE  Once'
<1>1. TypeOK /\ Flow /\ Sent /\ Once
  BY DEF IInv
<1>2. CASE ~Send(r) /\ ~Receive(r)
  BY <1>1, <1>2, QuietSteps DEF Once
<1>3. CASE Send(r)
  <2>1. ASSUME NEW n \in Names, NEW m \in Requests, Contains(pushed'[n], m)
        PROVE  \/ Contains(Queued(n)', m) /\ \A q \in Requests : ~Contains(got'[q], m)
               \/ /\ ~Contains(Queued(n)', m)
                  /\ \E s \in Requests : /\ Contains(got'[s], m)
                                         /\ \A q \in Requests : Contains(got'[q], m) => q = s
    <3>1. CASE m = r
      BY <1>3, <2>1, <3>1, SendPlaces
    <3>2. CASE m # r
      <4>1. /\ Contains(pushed[n], m) /\ got' = got
            /\ Contains(Queued(n)', m) <=> Contains(Queued(n), m)
        BY <1>3, <2>1, <3>2, SendPlaces
      <4>2. QED
        BY <1>1, <4>1 DEF Once
    <3>3. QED
      BY <3>1, <3>2
  <2>2. QED
    BY <2>1 DEF Once
<1>4. CASE Receive(r)
  <2> DEFINE n0 == call[r].name
             h == Head(Queued(n0))
  <2>1. /\ h \in Requests /\ n0 \in Names /\ pushed' = pushed
        /\ Contains(Queued(n0), h)
        /\ \A n \in Names, m \in Requests :
             Contains(Queued(n)', m) <=> Contains(Queued(n), m) /\ ~(n = n0 /\ m = h)
        /\ \A q, m \in Requests :
             Contains(got'[q], m) <=> Contains(got[q], m) \/ (q = r /\ m = h)
    BY <1>4, ReceivePlaces
  <2> HIDE DEF n0, h
  <2>2. Contains(pushed[n0], h)
    BY <1>1, <2>1 DEF Sent
  <2>3. \A q \in Requests : ~Contains(got[q], h)
    BY <1>1, <2>1, <2>2 DEF Once
  <2>4. ASSUME NEW n \in Names, NEW m \in Requests, Contains(pushed[n], m)
        PROVE  \/ Contains(Queued(n)', m) /\ \A q \in Requests : ~Contains(got'[q], m)
               \/ /\ ~Contains(Queued(n)', m)
                  /\ \E s \in Requests : /\ Contains(got'[s], m)
                                         /\ \A q \in Requests : Contains(got'[q], m) => q = s
    <3>1. CASE m = h
      <4>1. n = n0
        BY <1>1, <2>1, <2>2, <2>4, <3>1 DEF Sent
      <4>2. QED
        BY <2>1, <2>3, <3>1, <4>1
    <3>2. CASE m # h
      <4>1. /\ Contains(Queued(n)', m) <=> Contains(Queued(n), m)
            /\ \A q \in Requests : Contains(got'[q], m) <=> Contains(got[q], m)
        BY <2>1, <3>2
      <4>2. QED
        BY <1>1, <2>4, <4>1 DEF Once
    <3>3. QED
      BY <3>1, <3>2
  <2>5. QED
    BY <2>1, <2>4 DEF Once
<1>5. QED
  BY <1>2, <1>3, <1>4

-----------------------------------------------------------------------------
(* The theorems *)

\* The invariant holds in every state the service reaches.
THEOREM Invariance == Spec => []IInv
<1>1. Init => IInv
  BY InitIInv
<1>2. IInv /\ [Next]_vars => IInv'
  <2>1. ASSUME IInv, NEW r \in Requests, StepOf(r) PROVE IInv'
    BY <2>1, TypePreserved, FlowPreserved, SentPreserved, DistinctPreserved, OncePreserved
       DEF IInv
  <2>2. ASSUME IInv, UNCHANGED vars PROVE IInv'
    <3>1. \A n \in Names : Queued(n)' = Queued(n)
      BY <2>2 DEF vars, Queued
    <3>2. TypeOK' /\ Flow'
      BY <2>2 DEF IInv, vars, TypeOK, Flow, FlowOf, InLine, Apart
    <3>3. Sent' /\ Distinct' /\ Once'
      BY <2>2, <3>1 DEF IInv, vars, Sent, Distinct, Once
    <3>4. QED
      BY <3>2, <3>3 DEF IInv
  <2>3. QED
    BY <2>1, <2>2 DEF Next, StepOf
<1>3. QED
  BY <1>1, <1>2, PTL DEF Spec

\* The maps, the channels and the requests keep their types: a name that has a channel has
\* one that exists, and no consumer receives more than it asked for.
THEOREM TypeCorrect == Spec => []TypeOK
<1>1. IInv => TypeOK
  BY DEF IInv
<1>2. QED
  BY <1>1, Invariance, PTL

\* However requests race to create a queue and wherever handlers are dropped, a message
\* that was sent is in its queue or with the one consumer that received it.
THEOREM MessagesStay == Spec => []EachMessageOnce
<1>1. ASSUME IInv PROVE EachMessageOnce
  <2>1. ASSUME NEW n \in Names, NEW m \in ToSet(pushed[n])
        PROVE  IF Contains(Queued(n), m)
               THEN \A r \in Requests : ~Contains(got[r], m)
               ELSE Cardinality({r \in Requests : Contains(got[r], m)}) = 1
    <3>1. Contains(pushed[n], m) /\ m \in Requests
      BY <1>1 DEF IInv, Sent, ToSet, Contains
    <3>2. CASE Contains(Queued(n), m)
      BY <1>1, <3>1, <3>2 DEF IInv, Once
    <3>3. CASE ~Contains(Queued(n), m)
      <4>1. PICK r \in Requests : /\ Contains(got[r], m)
                                  /\ \A q \in Requests : Contains(got[q], m) => q = r
        BY <1>1, <3>1, <3>3 DEF IInv, Once
      <4>2. {q \in Requests : Contains(got[q], m)} = {r}
        BY <4>1
      <4>3. QED
        BY <3>3, <4>2, FS_Singleton
    <3>4. QED
      BY <3>2, <3>3
  <2>2. QED
    BY <2>1 DEF EachMessageOnce
<1>2. QED
  BY <1>1, Invariance, PTL

-----------------------------------------------------------------------------
(* The refinement *)

\* What a client sees of the point a request has reached.
Seen(p) == CASE p \in {"lookup", "send", "lock", "recv"} -> "open"
             [] p = "dropped" -> "lost"
             [] OTHER -> p

\* Clients see a request move as it moves.
LEMMA SamePhase ==
  ASSUME TypeOK, NEW r \in Requests
  PROVE  /\ Phase[r] = Seen(pc[r])
         /\ \A p : Goto(r, p) => Phase' = [Phase EXCEPT ![r] = Seen(p)]
<1>1. \A s \in Requests : Phase[s] = Seen(pc[s])
  BY DEF Phase, Seen
<1>2. ASSUME NEW p, Goto(r, p) PROVE Phase' = [Phase EXCEPT ![r] = Seen(p)]
  <2>1. Phase' = [s \in Requests |-> Seen(pc'[s])]
    BY DEF Phase, Seen
  <2>2. \A s \in Requests : pc'[s] = IF s = r THEN p ELSE pc[s]
    BY <1>2 DEF Goto, TypeOK
  <2>3. Phase = [s \in Requests |-> Seen(pc[s])]
    BY DEF Phase, Seen
  <2>4. QED
    BY <2>1, <2>2, <2>3
<1>3. QED
  BY <1>1, <1>2

\* What clients see of every control point.
LEMMA SeenAs ==
  /\ \A p \in {"lookup", "send", "lock", "recv"} : Seen(p) = "open"
  /\ \A p \in {"idle", "done", "answered"} : Seen(p) = p
  /\ Seen("dropped") = "lost"
  BY DEF Seen

\* A step that leaves every message where it is leaves the channels of the promise alone.
LEMMA SameContent ==
  ASSUME \A n \in Names : Queued(n)' = Queued(n)
  PROVE  Content' = Content
BY DEF Content

\* While r has the mutex no other consumer of its channel is in the middle of a batch.
LEMMA NoOtherCollects ==
  ASSUME IInv, NEW r \in Requests, Owns(r), NEW s \in Requests \ {r}
  PROVE  ~Promise!Collects(s, call[r].name)
<1> SUFFICES ASSUME Promise!Collects(s, call[r].name) PROVE FALSE
  OBVIOUS
<1>1. TypeOK /\ Flow /\ FlowOf(r) /\ FlowOf(s) /\ InLine(s)
  BY DEF IInv, Flow
<1>2. Phase[s] = "open" /\ call[s].name = call[r].name /\ got[s] # <<>>
  BY DEF Promise!Collects
<1>3. pc[s] \in {"lookup", "send", "lock", "recv"}
  BY <1>1, <1>2, SamePhase DEF Seen, TypeOK, Points
<1>4. pc[s] = "recv"
  BY <1>1, <1>2, <1>3 DEF FlowOf
<1>5. mine[s] = mine[r]
  BY <1>1, <1>2, <1>4 DEF FlowOf, Working, Owns
<1>6. QED
  BY <1>1, <1>2, <1>4, <1>5 DEF InLine, Owns

\* Receive takes the oldest message of a channel whose batch no one else is collecting.
LEMMA ReceiveIsTake ==
  ASSUME IInv, NEW r \in Requests, Receive(r)
  PROVE  Promise!Take(r)
<1> DEFINE n == call[r].name
<1>1. TypeOK /\ Flow /\ FlowOf(r) /\ StepOf(r)
  BY DEF IInv, Flow, StepOf, Step
<1>2. /\ n \in Names /\ Queued(n) # <<>>
      /\ \A m \in Names : Queued(m)' = IF m = n THEN Tail(Queued(n)) ELSE Queued(m)
      /\ got' = [got EXCEPT ![r] = Append(got[r], Head(Queued(n)))]
      /\ Head(Queued(n)) \in Requests
  BY <1>1, ReceiveTakes
<1>3. /\ Owns(r) /\ pc[r] = "recv" /\ call' = call
      /\ Goto(r, IF Len(got'[r]) = Limit(call[r]) THEN "done" ELSE "recv")
  BY DEF Receive, Owns
<1>4. Promise!Limit(call[r]) = Limit(call[r])
  <2>1. call[r] \in Calls[r] /\ ~Produces(call[r])
    BY <1>1, <1>3 DEF FlowOf
  <2>2. call[r].op \in {"pop", "subscribe"}
    BY <2>1, CallShape DEF Produces
  <2>3. QED
    BY <2>2 DEF Promise!Limit, Limit
<1>5. Len(got[r]) < Limit(call[r])
  <2>1. TypeOK'
    BY <1>1, TypePreserved
  <2> DEFINE h == Head(Queued(n))
  <2>2. got[r] \in Seq(Requests) /\ got'[r] = Append(got[r], h) /\ h \in Requests
    BY <1>1, <1>2 DEF TypeOK
  <2> HIDE DEF h
  <2>3. got'[r] # <<>> /\ Len(got'[r]) = Len(got[r]) + 1 /\ Len(got[r]) \in Nat
    BY <2>2, AppendProperties
  <2>4. Len(got'[r]) <= Limit(call[r])
    BY <1>3, <2>1, <2>3 DEF TypeOK
  <2>5. Limit(call[r]) \in Nat
    BY <1>1, <1>3, CallShape DEF FlowOf
  <2>6. QED
    BY <2>3, <2>4, <2>5
<1>6. Content[n] = Queued(n)
  BY <1>2 DEF Content
<1>7. Content' = [Content EXCEPT ![n] = Tail(Content[n])]
  <2>1. Content' = [m \in Names |-> Queued(m)']
    BY DEF Content
  <2>2. Content = [m \in Names |-> Queued(m)]
    BY DEF Content
  <2>3. QED
    BY <1>2, <1>6, <2>1, <2>2
<1>8. Phase[r] = "open"
  BY <1>1, <1>3, SamePhase, SeenAs
<1>9. Phase' = [Phase EXCEPT ![r] = IF Len(got'[r]) = Promise!Limit(call[r])
                                    THEN "done" ELSE "open"]
  BY <1>1, <1>3, <1>4, SamePhase, SeenAs
<1>10. \A s \in Requests \ {r} : ~Promise!Collects(s, n)
  BY <1>3, NoOtherCollects
<1> HIDE DEF n
<1>11. /\ Content[n] # <<>> /\ Len(got[r]) < Promise!Limit(call[r])
       /\ got' = [got EXCEPT ![r] = Append(got[r], Head(Content[n]))]
  BY <1>2, <1>4, <1>5, <1>6
<1>12. QED
  BY <1>3, <1>7, <1>8, <1>9, <1>10, <1>11 DEF Promise!Take, n

\* Send puts a message at the end of its channel.
LEMMA SendIsPut ==
  ASSUME IInv, NEW r \in Requests, Send(r)
  PROVE  Promise!Put(r)
<1> DEFINE n == call[r].name
<1>1. TypeOK /\ Flow /\ FlowOf(r) /\ pushed \in [Names -> Seq(Requests)]
  BY DEF IInv, Flow, Sent
<1>2. /\ n \in Names /\ got' = got
      /\ \A m \in Names : Queued(m)' = IF m = n THEN Append(Queued(m), r) ELSE Queued(m)
  BY <1>1, SendQueues
<1>3. pc[r] = "send" /\ call' = call /\ Goto(r, "done")
  BY DEF Send
<1>4. Phase[r] = "open" /\ Phase' = [Phase EXCEPT ![r] = "done"]
  BY <1>1, <1>3, SamePhase, SeenAs
<1>5. Content' = [Content EXCEPT ![n] = Append(Content[n], r)]
  <2>1. Content' = [m \in Names |-> Queued(m)']
    BY DEF Content
  <2>2. Content = [m \in Names |-> Queued(m)]
    BY DEF Content
  <2>3. QED
    BY <1>2, <2>1, <2>2
<1>6. Promise!Produces(call[r])
  BY <1>1, <1>3 DEF FlowOf, Produces, Promise!Produces
<1>7. QED
  BY <1>2, <1>3, <1>4, <1>5, <1>6 DEF Promise!Put

\* A consumer whose time is up stops; a pop does so on an empty queue only.
LEMMA TimeIsUpIsStop ==
  ASSUME IInv, NEW r \in Requests, TimeIsUp(r)
  PROVE  Promise!Stop(r)
<1>1. TypeOK /\ Flow /\ FlowOf(r) /\ StepOf(r)
  BY DEF IInv, Flow, StepOf, Step
<1>2. /\ pc[r] = "recv" /\ call' = call /\ Goto(r, "done")
      /\ call[r].op = "pop" => Items(r) = <<>>
  BY DEF TimeIsUp, Owns
<1>3. Phase[r] = "open" /\ Phase' = [Phase EXCEPT ![r] = "done"]
  BY <1>1, <1>2, SamePhase, SeenAs
<1>4. mine[r] # Nil /\ ~Promise!Produces(call[r])
  BY <1>1, <1>2 DEF FlowOf, Working, Produces, Promise!Produces
<1>5. call[r].name \in Names /\ Queued(call[r].name) = Items(r)
  BY <1>1, <1>2, <1>4, MyChannel DEF Items
<1>6. Content[call[r].name] = Items(r)
  BY <1>5 DEF Content
<1>7. ~Send(r) /\ ~Receive(r)
  <2>1. pc'[r] = "done" /\ got' = got
    BY <1>1, <1>2 DEF TimeIsUp, Goto, TypeOK
  <2>2. ~Send(r)
    BY <1>2 DEF Send
  <2>3. ASSUME Receive(r) PROVE FALSE
    <3>1. /\ got'[r] = Append(got[r], Head(Queued(call[r].name)))
          /\ Head(Queued(call[r].name)) \in Requests
      BY <1>1, <2>3, ReceiveTakes DEF TypeOK
    <3> DEFINE h == Head(Queued(call[r].name))
    <3>2. got[r] \in Seq(Requests) /\ h \in Requests /\ got'[r] = Append(got[r], h)
      BY <1>1, <3>1 DEF TypeOK
    <3> HIDE DEF h
    <3>3. Len(got'[r]) = Len(got[r]) + 1 /\ Len(got[r]) \in Nat
      BY <3>2, AppendProperties
    <3>4. QED
      BY <2>1, <3>3
  <2>4. QED
    BY <2>2, <2>3
<1>8. Content' = Content /\ got' = got
  BY <1>1, <1>7, QuietSteps, SameContent
<1>9. QED
  BY <1>2, <1>3, <1>4, <1>6, <1>8 DEF Promise!Stop

\* A step of a request is a step of the promise, or one that no client sees.
LEMMA StepRefines ==
  ASSUME IInv, NEW r \in Requests, StepOf(r)
  PROVE  [Promise!Next]_Promise!vars
<1>1. TypeOK /\ Flow
  BY DEF IInv
<1>2. CASE Send(r) \/ Receive(r)
  BY <1>2, SendIsPut, ReceiveIsTake DEF Promise!Next
<1>3. CASE TimeIsUp(r)
  BY <1>3, TimeIsUpIsStop DEF Promise!Next
<1>4. CASE ~Send(r) /\ ~Receive(r)
  <2>1. Content' = Content /\ got' = got
    BY <1>1, <1>4, QuietSteps, SameContent
  <2>2. CASE \E c \in Calls[r] : Invoke(r, c)
    <3>1. PICK c \in Calls[r] : Invoke(r, c)
      BY <2>2
    <3>2. pc[r] = "idle" /\ Goto(r, "lookup") /\ call' = [call EXCEPT ![r] = c]
      BY <3>1 DEF Invoke
    <3>3. Phase[r] = "idle" /\ Phase' = [Phase EXCEPT ![r] = "open"]
      BY <1>1, <3>2, SamePhase, SeenAs
    <3>4. Promise!Ask(r, c)
      BY <2>1, <3>2, <3>3 DEF Promise!Ask
    <3>5. QED
      BY <3>4 DEF Promise!Next
  <2>3. CASE Lookup(r) \/ Lock(r)
    <3>1. PICK p \in {"send", "lock", "recv"} : Goto(r, p)
      BY <2>3 DEF Lookup, Lock
    <3>2. pc[r] \in {"lookup", "lock"} /\ call' = call
      BY <2>3 DEF Lookup, Lock
    <3>3. Phase[r] = "open" /\ Phase' = [Phase EXCEPT ![r] = "open"]
      BY <1>1, <3>1, <3>2, SamePhase, SeenAs
    <3>4. Phase' = Phase
      BY <3>3 DEF Phase
    <3>5. QED
      BY <2>1, <3>2, <3>4 DEF Promise!vars
  <2>4. CASE Deliver(r)
    <3>1. pc[r] = "done" /\ Goto(r, "answered") /\ call' = call
      BY <2>4 DEF Deliver
    <3>2. Phase[r] = "done" /\ Phase' = [Phase EXCEPT ![r] = "answered"]
      BY <1>1, <3>1, SamePhase, SeenAs
    <3>3. Promise!Answer(r)
      BY <2>1, <3>1, <3>2 DEF Promise!Answer
    <3>4. QED
      BY <3>3 DEF Promise!Next
  <2>5. CASE Drop(r)
    <3>1. pc[r] \in {"lookup", "lock", "recv", "done"} /\ Goto(r, "dropped") /\ call' = call
      BY <2>5 DEF Drop
    <3>2. Phase[r] \in {"open", "done"} /\ Phase' = [Phase EXCEPT ![r] = "lost"]
      BY <1>1, <3>1, SamePhase, SeenAs
    <3>3. Promise!Lose(r)
      BY <2>1, <3>1, <3>2 DEF Promise!Lose
    <3>4. QED
      BY <3>3 DEF Promise!Next
  <2>6. QED
    BY <1>3, <1>4, <2>2, <2>3, <2>4, <2>5 DEF StepOf, Step
<1>5. QED
  BY <1>2, <1>4

\* The in-memory service implements the channels of MessageChannels: first in, first out,
\* each message to one consumer, batches that no other consumer interrupts, and a pop
\* that answers null only when its queue was empty.
THEOREM MemoryImplementsChannels == Spec => ImplementsChannels
<1>1. Init => Promise!Init
  BY DEF Init, Promise!Init, Content, Queued, Phase
<1>2. IInv /\ [Next]_vars => [Promise!Next]_Promise!vars
  <2>1. ASSUME UNCHANGED vars PROVE UNCHANGED Promise!vars
    BY <2>1 DEF vars, Promise!vars, Content, Queued, Phase
  <2>2. QED
    BY <2>1, StepRefines DEF Next, StepOf
<1>3. QED
  BY <1>1, <1>2, Invariance, PTL DEF Spec, ImplementsChannels, Promise!Spec

=============================================================================
