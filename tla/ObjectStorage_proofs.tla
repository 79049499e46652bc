------------------------ MODULE ObjectStorage_proofs ------------------------
(***************************************************************************)
(* Theorems about listing, for every set of paths, clients and walks and   *)
(* every limit.  The inductive invariant says of each client, while it     *)
(* walks, that the objects it has got lie in order before the place where  *)
(* the stream is, and that nothing that stayed in the store has been       *)
(* passed over.                                                            *)
(***************************************************************************)
EXTENDS ObjectStorage, FiniteSetTheorems, TLAPS

\* A client that has not begun has nothing.
NotBegun(c) ==
  pc[c] = "idle" =>
    /\ page[c] = {} /\ listed[c] = {}
    /\ cursor[c] = Nil /\ last[c] = Nil
    /\ ~more[c] /\ ~rewritten[c]

\* What stayed is there, and what is there is known.
Watched(c) ==
  /\ pc[c] = "page" => stayed[c] \subseteq objects /\ objects \subseteq known[c]
  /\ pc[c] # "idle" => page[c] \union listed[c] \subseteq known[c] \intersect Scope(c)

\* The objects of the pages before lie up to the cursor, those of the page beyond it
\* and up to the last one.
InOrder(c) ==
  pc[c] = "page" /\ Regular(c) =>
    /\ cursor[c] # Nil => PathFrom[cursor[c]] = cursor[c]
    /\ \A l \in listed[c] : cursor[c] # Nil /\ Rank[l] <= Rank[cursor[c]]
    /\ \A l \in page[c] : last[c] # Nil /\ Rank[l] <= Rank[last[c]]
    /\ cursor[c] # Nil => \A l \in page[c] : Rank[l] > Rank[cursor[c]]
    /\ more[c] => last[c] # Nil

\* The place up to which the walk has come.
Passed(c, l) ==
  \/ cursor[c] # Nil /\ Rank[l] <= Rank[cursor[c]]
  \/ last[c] # Nil /\ Rank[l] <= Rank[last[c]]

\* What stayed, and has been passed, has been listed.
NothingMissed(c) ==
  Regular(c) =>
    /\ pc[c] = "page" => \A l \in stayed[c] \intersect Scope(c) :
                           Passed(c, l) => l \in listed[c] \union page[c]
    /\ pc[c] = "done" => stayed[c] \intersect Scope(c) \subseteq listed[c]

ClientInv(c) == NotBegun(c) /\ Watched(c) /\ InOrder(c) /\ NothingMissed(c)

IInv ==
  /\ TypeOK
  /\ DOMAIN walk = Clients
  /\ \A c \in Clients : ClientInv(c)

-----------------------------------------------------------------------------
(* Lemmas *)

\* A page of at most n objects has at most n + 1 with one more (`take(limit)`).
LEMMA OneMore ==
  ASSUME NEW S \in SUBSET Texts, NEW l \in Texts
  PROVE  /\ Cardinality(S) \in Nat
         /\ Cardinality(S \union {l}) \in Nat
         /\ Cardinality(S \union {l}) <= Cardinality(S) + 1
         /\ Cardinality({}) = 0
<1>1. IsFiniteSet(S)
  BY StorageAssumption, FS_Subset
<1>2. /\ IsFiniteSet(S \union {l})
      /\ Cardinality(S \union {l}) = IF l \in S THEN Cardinality(S) ELSE Cardinality(S) + 1
  BY <1>1, FS_AddElement
<1>3. Cardinality(S) \in Nat /\ Cardinality(S \union {l}) \in Nat
  BY <1>1, <1>2, FS_CardinalityType
<1>4. Cardinality({}) = 0
  BY FS_EmptySet
<1>5. QED
  BY <1>2, <1>3, <1>4

\* What the stream yields is in the store, under the prefix.
LEMMA ComingIsThere ==
  ASSUME NEW c \in Clients, NEW l \in Coming(c)
  PROVE  l \in objects /\ l \in Scope(c) /\ IsBeyond(c, l) /\ l \in Rest(c)
BY DEF Coming, Rest

\* A walk has a limit that is a usize.
LEMMA LimitType ==
  ASSUME NEW c \in Clients, NEW w \in Walks[c]
  PROVE  w.limit \in Nat /\ w.limit < Usize
BY StorageAssumption DEF Limits

\* A client that a step does not touch keeps its invariant, whatever objects come or go.
LEMMA UntouchedPreserves ==
  ASSUME TypeOK, Observe, NEW d \in Clients, ClientInv(d), backend' = backend,
         pc'[d] = pc[d], walk'[d] = walk[d], cursor'[d] = cursor[d], page'[d] = page[d],
         last'[d] = last[d], more'[d] = more[d], listed'[d] = listed[d],
         rewritten'[d] = rewritten[d]
  PROVE  ClientInv(d)'
<1>1. Scope(d)' = Scope(d) /\ (Regular(d)' <=> Regular(d))
  BY DEF Scope, Prefix, Regular
<1>2. \A l : Passed(d, l)' <=> Passed(d, l)
  BY DEF Passed
<1>3. /\ pc[d] = "page" => stayed'[d] = stayed[d] \intersect objects' /\ known'[d] = known[d] \union objects'
      /\ pc[d] = "done" => stayed'[d] = stayed[d] /\ known'[d] = known[d]
  BY DEF Observe
<1>4. pc[d] \in {"idle", "page", "done"}
  BY DEF TypeOK
<1>5. NotBegun(d)'
  BY DEF NotBegun, ClientInv
<1>6. Watched(d)'
  BY <1>1, <1>3, <1>4 DEF Watched, ClientInv
<1>7. InOrder(d)'
  BY <1>1 DEF InOrder, ClientInv
<1>8. NothingMissed(d)'
  BY <1>1, <1>2, <1>3 DEF NothingMissed, ClientInv
<1>9. QED
  BY <1>5, <1>6, <1>7, <1>8 DEF ClientInv

\* The history variables keep their types.
LEMMA ObserveType ==
  ASSUME TypeOK, Observe, objects' \subseteq Texts
  PROVE  stayed' \in [Clients -> SUBSET Texts] /\ known' \in [Clients -> SUBSET Texts]
BY DEF TypeOK, Observe

-----------------------------------------------------------------------------
(* One lemma for each action *)

LEMMA InitIInv == Init => IInv
<1> SUFFICES ASSUME Init PROVE IInv
  OBVIOUS
<1>1. objects \subseteq Texts
  BY StorageAssumption DEF Init, Locations
<1>2. TypeOK
  BY <1>1, StorageAssumption DEF Init, TypeOK
<1>3. \A c \in Clients : ClientInv(c)
  BY DEF Init, ClientInv, NotBegun, Watched, InOrder, NothingMissed
<1>4. QED
  BY <1>2, <1>3 DEF IInv, Init

\* A PUT or DELETE touches no client.
LEMMA ObjectsPreserve ==
  ASSUME IInv, NEW t \in Names, Put(t) \/ Delete(t), Observe
  PROVE  IInv'
<1>1. objects' \subseteq Texts
  BY StorageAssumption DEF Put, Delete, IInv, TypeOK
<1>2. UNCHANGED <<backend, pc, walk, cursor, page, last, more, listed, failures, rewritten>>
  BY DEF Put, Delete, client, request
<1>3. TypeOK'
  BY <1>1, <1>2, ObserveType DEF IInv, TypeOK
<1>4. \A d \in Clients : ClientInv(d)'
  BY <1>2, UntouchedPreserves DEF IInv
<1>5. QED
  BY <1>2, <1>3, <1>4 DEF IInv

\* The first page of a walk has nothing behind it.
LEMMA ListPreserves ==
  ASSUME IInv, NEW c \in Clients, NEW w \in Walks[c], List(c, w), Observe
  PROVE  IInv'
<1> USE DEF IInv
<1>1. /\ pc[c] = "idle" /\ pc' = [pc EXCEPT ![c] = "page"] /\ walk' = [walk EXCEPT ![c] = w]
      /\ UNCHANGED <<backend, objects, cursor, page, last, more, listed, failures, rewritten>>
  BY DEF List, request
<1>2. TypeOK'
  <2>1. stayed' \in [Clients -> SUBSET Texts] /\ known' \in [Clients -> SUBSET Texts]
    BY <1>1, ObserveType DEF TypeOK
  <2>2. pc' \in [Clients -> {"idle", "page", "done"}]
    BY <1>1 DEF TypeOK
  <2>3. \A d \in Clients : pc'[d] # "idle" => walk'[d] \in Walks[d]
    BY <1>1 DEF TypeOK
  <2>4. page[c] = {}
    BY <1>1 DEF ClientInv, NotBegun
  <2>5. \A d \in Clients : pc'[d] # "idle" => Cardinality(page'[d]) <= walk'[d].limit
    <3>1. Cardinality(page'[c]) = 0 /\ walk'[c].limit \in Nat
      BY <1>1, <2>4, FS_EmptySet, LimitType
    <3>2. \A d \in Clients \ {c} : pc'[d] # "idle" => Cardinality(page'[d]) <= walk'[d].limit
      BY <1>1 DEF TypeOK
    <3>3. QED
      BY <3>1, <3>2
  <2>6. QED
    BY <1>1, <2>1, <2>2, <2>3, <2>5 DEF TypeOK
<1>3. ClientInv(c)'
  <2>1. /\ page'[c] = {} /\ listed'[c] = {} /\ cursor'[c] = Nil /\ last'[c] = Nil
        /\ ~more'[c] /\ pc'[c] = "page"
    BY <1>1 DEF ClientInv, NotBegun, TypeOK
  <2>2. stayed'[c] = objects' /\ known'[c] = objects'
    BY <1>1 DEF Observe
  <2>3. QED
    BY <2>1, <2>2 DEF ClientInv, NotBegun, Watched, InOrder, NothingMissed, Passed
<1>4. \A d \in Clients \ {c} : ClientInv(d)'
  BY <1>1, UntouchedPreserves DEF TypeOK
<1>5. QED
  BY <1>1, <1>2, <1>3, <1>4

\* The next item is the least one that is left.
LEMMA YieldPreserves ==
  ASSUME IInv, NEW c \in Clients, Yield(c), Observe
  PROVE  IInv'
<1> USE DEF IInv
<1>1. PICK l \in Coming(c) : Collect(c, l)
  BY DEF Yield
<1>2. /\ pc[c] = "page"
      /\ UNCHANGED <<backend, objects, pc, walk, cursor, listed, failures, rewritten>>
  BY DEF Yield, client
<1>3. l \in objects /\ l \in Scope(c) /\ IsBeyond(c, l) /\ l \in Rest(c) /\ l \in Texts /\ l # Nil
  BY ComingIsThere, StorageAssumption DEF TypeOK
<1>4. walk[c] \in Walks[c] /\ walk[c].limit \in Nat /\ page[c] \in SUBSET Texts
  BY <1>2, LimitType DEF TypeOK
<1>5. /\ Cardinality(page[c]) \in Nat
      /\ Cardinality(page[c] \union {l}) \in Nat
      /\ Cardinality(page[c] \union {l}) <= Cardinality(page[c]) + 1
      /\ Cardinality({}) = 0
  BY <1>3, <1>4, OneMore
<1>6. /\ DOMAIN page = Clients /\ DOMAIN last = Clients /\ DOMAIN more = Clients
      /\ stayed'[c] = stayed[c] \intersect objects /\ known'[c] = known[c] \union objects
  BY <1>2 DEF TypeOK, Observe
<1>7. stayed' \in [Clients -> SUBSET Texts] /\ known' \in [Clients -> SUBSET Texts]
  BY <1>2, ObserveType DEF TypeOK
<1>8. \A d \in Clients \ {c} : page'[d] = page[d] /\ last'[d] = last[d] /\ more'[d] = more[d]
  BY <1>1, <1>6 DEF Collect
<1>9. \A d \in Clients \ {c} : ClientInv(d)'
  BY <1>2, <1>8, UntouchedPreserves
<1>10. CASE Cardinality(page[c]) < walk[c].limit
  <2>1. /\ page' = [page EXCEPT ![c] = page[c] \union {l}]
        /\ last' = [last EXCEPT ![c] = l]
        /\ more' = more
    BY <1>1, <1>10 DEF Collect
  <2>2. TypeOK'
    BY <1>2, <1>3, <1>4, <1>5, <1>7, <1>10, <2>1 DEF TypeOK
  <2>3. ClientInv(c)'
    <3>1. Scope(c)' = Scope(c) /\ (Regular(c)' <=> Regular(c))
      BY <1>2 DEF Scope, Prefix, Regular
    <3>2. page'[c] = page[c] \union {l} /\ last'[c] = l
      BY <1>6, <2>1
    <3>3. NotBegun(c)'
      BY <1>2 DEF NotBegun
    <3>4. Watched(c)'
      BY <1>2, <1>3, <1>6, <3>1, <3>2 DEF Watched, ClientInv
    <3>5. ASSUME Regular(c)
          PROVE  /\ \A k \in page[c] : Rank[k] < Rank[l]
                 /\ cursor[c] # Nil => Rank[l] > Rank[cursor[c]]
      <4>1. cursor[c] # Nil => Rank[l] > Rank[cursor[c]]
        BY <1>2, <1>3, <3>5 DEF IsBeyond, ClientInv, InOrder
      <4>2. last[c] # Nil => Rank[l] > Rank[last[c]]
        BY <1>3, <3>5 DEF Rest, Regular
      <4>3. ASSUME NEW k \in page[c]
            PROVE  Rank[k] < Rank[l]
        <5>1. last[c] # Nil /\ Rank[k] <= Rank[last[c]]
          BY <1>2, <3>5 DEF ClientInv, InOrder
        <5>2. Rank[k] \in Nat /\ Rank[l] \in Nat /\ Rank[last[c]] \in Nat
          BY <1>3, <1>4, <5>1, StorageAssumption DEF TypeOK
        <5>3. QED
          BY <4>2, <5>1, <5>2
      <4>4. QED
        BY <4>1, <4>3
    <3>6. InOrder(c)'
      <4> SUFFICES ASSUME Regular(c)
                   PROVE  InOrder(c)'
        BY <3>1 DEF InOrder
      <4>1. Rank[l] \in Nat /\ \A k \in page[c] : Rank[k] \in Nat
        BY <1>3, <1>4, StorageAssumption
      <4>2. \A k \in page'[c] : Rank[k] <= Rank[l]
        BY <3>2, <3>5, <4>1
      <4>3. cursor[c] # Nil => \A k \in page'[c] : Rank[k] > Rank[cursor[c]]
        BY <1>2, <3>2, <3>5 DEF ClientInv, InOrder
      <4>4. QED
        BY <1>2, <1>3, <2>1, <3>2, <4>2, <4>3 DEF ClientInv, InOrder
    <3>7. NothingMissed(c)'
      <4> SUFFICES ASSUME Regular(c), NEW k \in stayed'[c] \intersect Scope(c), Passed(c, k)'
                   PROVE  k \in listed[c] \union page[c] \union {l}
        BY <1>2, <3>1, <3>2 DEF NothingMissed
      <4>1. k \in objects /\ k \in stayed[c] /\ k \in Texts
        BY <1>6 DEF TypeOK
      <4>2. CASE Passed(c, k)
        BY <1>2, <4>1, <4>2 DEF ClientInv, NothingMissed
      <4>3. CASE ~Passed(c, k)
        <5>1. Rank[k] <= Rank[l]
          BY <1>2, <3>2, <4>3 DEF Passed
        <5>2. /\ Rank[k] \in Nat /\ Rank[l] \in Nat
              /\ cursor[c] # Nil => Rank[cursor[c]] \in Nat
              /\ last[c] # Nil => Rank[last[c]] \in Nat
          BY <1>3, <4>1, StorageAssumption DEF TypeOK
        <5>3. /\ cursor[c] # Nil => Rank[k] > Rank[cursor[c]]
              /\ last[c] # Nil => Rank[k] > Rank[last[c]]
          BY <4>3, <5>2 DEF Passed
        <5>4. IsBeyond(c, k)
          BY <1>2, <5>3 DEF IsBeyond, ClientInv, InOrder
        <5>5. k \in Rest(c)
          BY <4>1, <5>3, <5>4 DEF Rest, Regular
        <5>6. Rank[l] <= Rank[k]
          BY <5>5 DEF Coming, Regular
        <5>7. k = l
          BY <1>3, <4>1, <5>1, <5>2, <5>6, StorageAssumption
        <5>8. QED
          BY <5>7
      <4>4. QED
        BY <4>2, <4>3
    <3>8. QED
      BY <3>3, <3>4, <3>6, <3>7 DEF ClientInv
  <2>4. QED
    BY <1>2, <1>9, <2>2, <2>3
<1>11. CASE ~(Cardinality(page[c]) < walk[c].limit)
  <2>1. page' = page /\ last' = last /\ more' = [more EXCEPT ![c] = TRUE]
    BY <1>1, <1>11 DEF Collect
  <2>2. TypeOK'
    BY <1>2, <1>7, <2>1 DEF TypeOK
  <2>3. ClientInv(c)'
    <3>1. Scope(c)' = Scope(c) /\ (Regular(c)' <=> Regular(c))
      BY <1>2 DEF Scope, Prefix, Regular
    <3>2. \A k : Passed(c, k)' <=> Passed(c, k)
      BY <1>2, <2>1 DEF Passed
    <3>3. Regular(c) => last[c] # Nil
      <4>1. Regular(c) => page[c] # {}
        BY <1>4, <1>5, <1>11 DEF Regular
      <4>2. QED
        BY <1>2, <4>1 DEF ClientInv, InOrder
    <3>4. NotBegun(c)' /\ Watched(c)'
      BY <1>2, <1>6, <2>1, <3>1 DEF NotBegun, Watched, ClientInv
    <3>5. InOrder(c)'
      BY <1>2, <2>1, <3>1, <3>3 DEF InOrder, ClientInv
    <3>6. NothingMissed(c)'
      BY <1>2, <1>6, <2>1, <3>1, <3>2 DEF NothingMissed, ClientInv
    <3>7. QED
      BY <3>4, <3>5, <3>6 DEF ClientInv
  <2>4. QED
    BY <1>2, <1>9, <2>2, <2>3
<1>12. QED
  BY <1>10, <1>11

\* A page that is begun again has nothing, and its walk is where it was before the page.
LEMMA TurnPreserves ==
  ASSUME IInv, NEW c \in Clients, pc[c] = "page", Turn(c), Observe,
         failures' \in [Clients -> 0..MaxFailures],
         UNCHANGED <<backend, objects, pc, walk, cursor, listed, rewritten>>
  PROVE  IInv'
<1> USE DEF IInv
<1>1. /\ page' = [page EXCEPT ![c] = {}] /\ last' = [last EXCEPT ![c] = Nil]
      /\ more' = [more EXCEPT ![c] = FALSE]
  BY DEF Turn
<1>2. stayed' \in [Clients -> SUBSET Texts] /\ known' \in [Clients -> SUBSET Texts]
  BY ObserveType DEF TypeOK
<1>3. walk[c] \in Walks[c] /\ walk[c].limit \in Nat
  BY LimitType DEF TypeOK
<1>4. TypeOK'
  <2>1. \A d \in Clients : pc[d] # "idle" => Cardinality(page'[d]) <= walk[d].limit
    <3>1. Cardinality(page'[c]) = 0
      BY <1>1, FS_EmptySet DEF TypeOK
    <3>2. \A d \in Clients \ {c} : page'[d] = page[d]
      BY <1>1 DEF TypeOK
    <3>3. QED
      BY <1>3, <3>1, <3>2 DEF TypeOK
  <2>2. QED
    BY <1>1, <1>2, <2>1 DEF TypeOK
<1>5. ClientInv(c)'
  <2>1. page'[c] = {} /\ last'[c] = Nil /\ ~more'[c]
    BY <1>1 DEF TypeOK
  <2>2. Scope(c)' = Scope(c) /\ (Regular(c)' <=> Regular(c))
    BY DEF Scope, Prefix, Regular
  <2>3. stayed'[c] = stayed[c] \intersect objects /\ known'[c] = known[c] \union objects
    BY DEF Observe
  <2>4. NotBegun(c)' /\ Watched(c)'
    BY <2>1, <2>2, <2>3 DEF NotBegun, Watched, ClientInv
  <2>5. InOrder(c)'
    BY <2>1, <2>2 DEF InOrder, ClientInv
  <2>6. NothingMissed(c)'
    <3> SUFFICES ASSUME Regular(c), NEW k \in stayed[c] \intersect Scope(c),
                        cursor[c] # Nil, Rank[k] <= Rank[cursor[c]]
                 PROVE  k \in listed[c]
      BY <2>1, <2>2, <2>3 DEF NothingMissed, Passed
    <3>1. k \in listed[c] \union page[c]
      BY DEF ClientInv, NothingMissed, Passed
    <3>2. k \notin page[c]
      <4>1. k \in Texts /\ Rank[k] \in Nat /\ Rank[cursor[c]] \in Nat
        BY StorageAssumption DEF TypeOK
      <4>2. \A l \in page[c] : Rank[l] > Rank[cursor[c]]
        BY DEF ClientInv, InOrder
      <4>3. QED
        BY <4>1, <4>2
    <3>3. QED
      BY <3>1, <3>2
  <2>7. QED
    BY <2>4, <2>5, <2>6 DEF ClientInv
<1>6. \A d \in Clients \ {c} : ClientInv(d)'
  <2>1. \A d \in Clients \ {c} : page'[d] = page[d] /\ last'[d] = last[d] /\ more'[d] = more[d]
    BY <1>1 DEF TypeOK
  <2>2. QED
    BY <2>1, UntouchedPreserves
<1>7. QED
  BY <1>4, <1>5, <1>6

\* The handler dropped: the page is begun again.
LEMMA DropPreserves ==
  ASSUME IInv, NEW c \in Clients, Drop(c), Observe
  PROVE  IInv'
<1>1. failures' \in [Clients -> 0..MaxFailures]
  BY StorageAssumption DEF Drop, Failed, IInv, TypeOK
<1>2. QED
  BY <1>1, TurnPreserves DEF Drop, Failed, client

\* An error within the limit is a page begun again; the one item too many is counted
\* whether it is an object or an error.
LEMMA BreakPreserves ==
  ASSUME IInv, NEW c \in Clients, Break(c), Observe
  PROVE  IInv'
<1> USE DEF IInv
<1>1. failures' \in [Clients -> 0..MaxFailures]
  BY StorageAssumption DEF Break, Failed, TypeOK
<1>2. pc[c] = "page" /\ UNCHANGED <<backend, objects, pc, walk, cursor, listed, rewritten>>
  BY DEF Break, Failed, client
<1>3. CASE Cardinality(page[c]) < walk[c].limit
  BY <1>1, <1>2, <1>3, TurnPreserves DEF Break
<1>4. CASE ~(Cardinality(page[c]) < walk[c].limit)
  <2>1. page' = page /\ last' = last /\ more' = [more EXCEPT ![c] = TRUE]
    BY <1>4 DEF Break
  <2>2. stayed' \in [Clients -> SUBSET Texts] /\ known' \in [Clients -> SUBSET Texts]
    BY <1>2, ObserveType DEF TypeOK
  <2>3. TypeOK'
    BY <1>1, <1>2, <2>1, <2>2 DEF TypeOK
  <2>4. ClientInv(c)'
    <3>1. Scope(c)' = Scope(c) /\ (Regular(c)' <=> Regular(c))
      BY <1>2 DEF Scope, Prefix, Regular
    <3>2. \A k : Passed(c, k)' <=> Passed(c, k)
      BY <1>2, <2>1 DEF Passed
    <3>3. Regular(c) => last[c] # Nil
      <4>1. Regular(c) => page[c] # {}
        BY <1>2, <1>4, FS_EmptySet, LimitType DEF Regular, TypeOK
      <4>2. QED
        BY <1>2, <4>1 DEF ClientInv, InOrder
    <3>4. stayed'[c] = stayed[c] \intersect objects /\ known'[c] = known[c] \union objects
      BY <1>2 DEF Observe
    <3>5. NotBegun(c)' /\ Watched(c)'
      BY <1>2, <2>1, <3>1, <3>4 DEF NotBegun, Watched, ClientInv
    <3>6. InOrder(c)'
      BY <1>2, <2>1, <3>1, <3>3 DEF InOrder, ClientInv
    <3>7. NothingMissed(c)'
      BY <1>2, <2>1, <3>1, <3>2, <3>4 DEF NothingMissed, ClientInv
    <3>8. QED
      BY <3>5, <3>6, <3>7 DEF ClientInv
  <2>5. \A d \in Clients \ {c} : ClientInv(d)'
    <3>1. \A d \in Clients \ {c} : more'[d] = more[d]
      BY <2>1 DEF TypeOK
    <3>2. QED
      BY <1>2, <2>1, <3>1, UntouchedPreserves
  <2>6. QED
    BY <1>2, <2>3, <2>4, <2>5
<1>5. QED
  BY <1>3, <1>4

\* A walk that ends has passed all there is; one that goes on goes on behind its page.
LEMMA FinishPreserves ==
  ASSUME IInv, NEW c \in Clients, Finish(c), Observe
  PROVE  IInv'
<1> USE DEF IInv
<1> DEFINE next == IF more[c] THEN last[c] ELSE Nil
<1>1. /\ pc[c] = "page" /\ (Full(c) \/ Rest(c) = {})
      /\ listed' = [listed EXCEPT ![c] = listed[c] \union page[c]]
      /\ cursor' = [cursor EXCEPT ![c] = next]
      /\ pc' = [pc EXCEPT ![c] = IF next = Nil THEN "done" ELSE "page"]
      /\ rewritten' = [rewritten EXCEPT ![c] = rewritten[c] \/ (next # Nil /\ PathFrom[next] # next)]
      /\ page' = [page EXCEPT ![c] = {}] /\ last' = [last EXCEPT ![c] = Nil]
      /\ more' = [more EXCEPT ![c] = FALSE]
      /\ UNCHANGED <<backend, objects, walk, failures>>
  BY DEF Finish, Answer, Turn, TypeOK
<1> HIDE DEF next
<1>2. next \in Texts \union {Nil} /\ (next # Nil => more[c] /\ next = last[c])
  BY DEF next, TypeOK
<1>3. stayed' \in [Clients -> SUBSET Texts] /\ known' \in [Clients -> SUBSET Texts]
  BY <1>1, ObserveType DEF TypeOK
<1>4. walk[c] \in Walks[c] /\ walk[c].limit \in Nat
  BY <1>1, LimitType DEF TypeOK
<1>5. \A d \in Clients \ {c} : ClientInv(d)'
  <2>1. \A d \in Clients \ {c} :
          /\ listed'[d] = listed[d] /\ cursor'[d] = cursor[d] /\ pc'[d] = pc[d]
          /\ rewritten'[d] = rewritten[d] /\ page'[d] = page[d] /\ last'[d] = last[d]
          /\ more'[d] = more[d]
    BY <1>1 DEF TypeOK
  <2>2. QED
    BY <1>1, <2>1, UntouchedPreserves
<1>6. TypeOK'
  <2>1. \A d \in Clients : pc'[d] # "idle" =>
          walk[d] \in Walks[d] /\ Cardinality(page'[d]) <= walk[d].limit
    <3>1. Cardinality(page'[c]) = 0
      BY <1>1, FS_EmptySet DEF TypeOK
    <3>2. \A d \in Clients \ {c} : page'[d] = page[d] /\ pc'[d] = pc[d]
      BY <1>1 DEF TypeOK
    <3>3. QED
      BY <1>4, <3>1, <3>2 DEF TypeOK
  <2>2. /\ pc' \in [Clients -> {"idle", "page", "done"}]
        /\ cursor' \in [Clients -> Texts \union {Nil}]
        /\ page' \in [Clients -> SUBSET Texts]
        /\ last' \in [Clients -> Texts \union {Nil}]
        /\ listed' \in [Clients -> SUBSET Texts]
    BY <1>1, <1>2 DEF TypeOK
  <2>3. more' \in [Clients -> BOOLEAN] /\ rewritten' \in [Clients -> BOOLEAN]
    BY <1>1 DEF TypeOK
  <2>4. \A d \in Clients : last'[d] # Nil => last'[d] \in page'[d]
    BY <1>1 DEF TypeOK
  <2>5. QED
    BY <1>1, <1>3, <2>1, <2>2, <2>3, <2>4 DEF TypeOK
<1>7. ClientInv(c)'
  <2>1. /\ listed'[c] = listed[c] \union page[c] /\ cursor'[c] = next
        /\ pc'[c] = (IF next = Nil THEN "done" ELSE "page")
        /\ page'[c] = {} /\ last'[c] = Nil /\ ~more'[c]
    BY <1>1 DEF TypeOK
  <2>2. rewritten'[c] <=> rewritten[c] \/ (next # Nil /\ PathFrom[next] # next)
    BY <1>1 DEF TypeOK
  <2>3. Scope(c)' = Scope(c)
    BY <1>1 DEF Scope, Prefix
  <2>4. Regular(c)' => Regular(c) /\ (next # Nil => PathFrom[next] = next)
    BY <1>1, <2>2 DEF Regular
  <2>5. stayed'[c] = stayed[c] \intersect objects /\ known'[c] = known[c] \union objects
    BY <1>1 DEF Observe
  <2>6. NotBegun(c)' /\ Watched(c)'
    BY <1>1, <2>1, <2>3, <2>5 DEF NotBegun, Watched, ClientInv
  <2>7. /\ \A k \in stayed[c] \union listed[c] \union page[c] : k \in Texts /\ Rank[k] \in Nat
        /\ cursor[c] # Nil => Rank[cursor[c]] \in Nat
        /\ last[c] # Nil => Rank[last[c]] \in Nat /\ last[c] \in page[c]
    BY StorageAssumption DEF TypeOK
  <2>8. InOrder(c)'
    <3> SUFFICES ASSUME Regular(c)', next # Nil, NEW l \in listed[c] \union page[c]
                 PROVE  Rank[l] <= Rank[next]
      <4>1. Regular(c)' /\ next = Nil => pc'[c] # "page"
        BY <2>1
      <4>2. QED
        BY <2>1, <2>4, <4>1 DEF InOrder
    <3>1. CASE l \in page[c]
      BY <1>1, <1>2, <2>4, <3>1 DEF ClientInv, InOrder
    <3>2. CASE l \in listed[c]
      <4>1. cursor[c] # Nil /\ Rank[l] <= Rank[cursor[c]] /\ Rank[last[c]] > Rank[cursor[c]]
        BY <1>1, <1>2, <2>4, <2>7, <3>2 DEF ClientInv, InOrder
      <4>2. QED
        BY <1>2, <2>7, <4>1
    <3>3. QED
      BY <3>1, <3>2
  <2>9. NothingMissed(c)'
    <3> SUFFICES ASSUME Regular(c)', NEW k \in stayed[c] \intersect objects \intersect Scope(c),
                        next # Nil => Rank[k] <= Rank[next]
                 PROVE  k \in listed[c] \union page[c]
      BY <2>1, <2>3, <2>5 DEF NothingMissed, Passed
    <3>1. CASE Passed(c, k)
      BY <1>1, <2>4, <3>1 DEF ClientInv, NothingMissed
    <3>2. CASE ~Passed(c, k)
      <4>1. next = Nil
        BY <1>2, <3>2 DEF Passed
      <4>2. ~more[c]
        BY <1>1, <2>4, <4>1 DEF next, ClientInv, InOrder
      <4>3. ~Full(c)
        <5>1. Cardinality(page[c]) \in Nat /\ Cardinality(page[c]) <= walk[c].limit
          BY <1>1, FS_Subset, FS_CardinalityType, StorageAssumption DEF TypeOK
        <5>2. (walk[c].limit + 1) % Usize = walk[c].limit + 1
          BY <1>4, <2>4, StorageAssumption DEF Regular
        <5>3. QED
          BY <1>4, <4>2, <5>1, <5>2 DEF Full
      <4>4. Rest(c) = {}
        BY <1>1, <4>3
      <4>5. IsBeyond(c, k)
        BY <1>1, <2>4, <2>7, <3>2 DEF IsBeyond, Passed, ClientInv, InOrder
      <4>6. last[c] # Nil => Rank[k] > Rank[last[c]]
        BY <2>7, <3>2 DEF Passed
      <4>7. k \in Rest(c)
        BY <2>4, <4>5, <4>6 DEF Rest, Regular
      <4>8. QED
        BY <4>4, <4>7
    <3>3. QED
      BY <3>1, <3>2
  <2>10. QED
    BY <2>6, <2>8, <2>9 DEF ClientInv
<1>8. QED
  BY <1>1, <1>5, <1>6, <1>7

\* A stuttering step changes nothing.
LEMMA StutterPreserves ==
  ASSUME IInv, UNCHANGED vars
  PROVE  IInv'
BY DEF IInv, TypeOK, ClientInv, NotBegun, Watched, InOrder, NothingMissed, Passed, Regular, Scope,
       Prefix, vars, client, request, history

-----------------------------------------------------------------------------
(* The theorems *)

\* Every step preserves the inductive invariant.
LEMMA NextPreserves == IInv /\ [Next]_vars => IInv'
BY ObjectsPreserve, ListPreserves, YieldPreserves, FinishPreserves, BreakPreserves, DropPreserves,
   StutterPreserves DEF Next, Step

\* The inductive invariant holds in every reachable state.
THEOREM Invariance == Spec => []IInv
BY InitIInv, NextPreserves, PTL DEF Spec

\* Types, and pages that never have more than their limit (list_objects_impl).
THEOREM TypeCorrect == Spec => []TypeOK
<1>1. IInv => TypeOK
  BY DEF IInv
<1>2. QED
  BY <1>1, Invariance, PTL

\* For every limit, every store and whatever Path::from does to a cursor, what is listed
\* lies under the prefix and was there during the walk.
THEOREM NothingInvented == Spec => []ListedWasThere
<1>1. IInv => ListedWasThere
  BY DEF IInv, ClientInv, Watched, ListedWasThere
<1>2. QED
  BY <1>1, Invariance, PTL

\* A walk over a store that lists in order has no object twice, for any number of
\* objects that come and go meanwhile.
THEOREM NothingListedTwice == Spec => []NothingTwice
<1>1. IInv => NothingTwice
  <2> SUFFICES ASSUME IInv, NEW c \in Clients, pc[c] = "page", Regular(c),
                      NEW l \in page[c], l \in listed[c]
               PROVE  FALSE
    BY DEF NothingTwice
  <2>1. cursor[c] # Nil /\ Rank[l] <= Rank[cursor[c]] /\ Rank[l] > Rank[cursor[c]]
    BY DEF IInv, ClientInv, InOrder
  <2>2. Rank[l] \in Nat /\ Rank[cursor[c]] \in Nat
    BY <2>1, StorageAssumption DEF IInv, TypeOK
  <2>3. QED
    BY <2>1, <2>2
<1>2. QED
  BY <1>1, Invariance, PTL

\* Such a walk, followed to its end, has every object that stayed in the store.
THEOREM NothingLeftOut == Spec => []WalkIsComplete
<1>1. IInv => WalkIsComplete
  BY DEF IInv, ClientInv, NothingMissed, WalkIsComplete
<1>2. QED
  BY <1>1, Invariance, PTL
=============================================================================
