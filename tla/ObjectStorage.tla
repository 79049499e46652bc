--------------------------- MODULE ObjectStorage ---------------------------
(***************************************************************************)
(* The storage service (src/storage.rs): objects behind the object_store   *)
(* crate, and the listing that a client walks through page by page, each   *)
(* time with the `next_offset` of the page before, while others put and    *)
(* delete objects.                                                         *)
(*                                                                         *)
(* A page is not a snapshot, and two pages are two requests: the handler   *)
(* keeps nothing between them.  What it takes from the store is a stream,  *)
(* read item by item, of which it looks one item further than the limit.   *)
(*                                                                         *)
(* A path is a text.  object_store::path::Path::from makes a location of   *)
(* it, percent-encoding some characters, "%" and "~" among them.  The code *)
(* does this to every path it is given, a `next_offset` included, which is *)
(* a location already.                                                     *)
(*                                                                         *)
(* GET and HEAD change nothing.  PUT and DELETE are one request to the     *)
(* store each: what else their handlers do changes nothing, so one action  *)
(* stands for all that becomes of them, answered, refused or dropped.      *)
(*                                                                         *)
(* External: the store, and the client that walks.                         *)
(***************************************************************************)
EXTENDS Integers, FiniteSets

CONSTANTS Schemes,      \* the stores STORAGE_URL may name
          Texts,        \* paths, in requests and in the store
          Rank,         \* of each text: its place in byte order
          PathFrom,     \* text -> text: the location Path::from makes of it
          Names,        \* the texts clients use for objects
          Invalid,      \* the texts that validate_storage_path refuses
          Root,         \* no prefix: GET /list
          Under,        \* prefix -> the locations under it
          Clients,
          Walks,        \* of each client: the listings it may walk through
          Usize,        \* the number of values of a usize
          MaxFailures,  \* bound on the pages of a client that fail
          Nil

Limits == 0..(Usize - 1)
Locations == {PathFrom[t] : t \in Names \ Invalid}

ASSUME StorageAssumption ==
  /\ Schemes \subseteq {"s3", "file"}
  /\ IsFiniteSet(Texts) /\ Names \subseteq Texts /\ Nil \notin Texts
  /\ Rank \in [Texts -> Nat]
  /\ \A t, u \in Texts : Rank[t] = Rank[u] => t = u
  /\ PathFrom \in [Texts -> Texts]
  /\ Root \notin Texts /\ Under \in [Texts \union {Root} -> SUBSET Texts]
  /\ Usize \in Nat \ {0} /\ MaxFailures \in Nat
  /\ Walks \in [Clients -> SUBSET [prefix : Texts \union {Root}, limit : Limits]]

VARIABLES backend,   \* StorageService.store: "s3" stands for every store that lists in order
          objects,   \* the locations in the store
          pc, walk,  \* of each client: where it is in its walk, and its query
          cursor,    \* ... the next_offset it sends, or Nil
          page,      \* ... what the page has, up to the limit
          last,      \* ... the object that came last, or Nil
          more,      \* ... whether one more item has come
          listed,    \* ... the objects of the pages before
          failures,  \* ... pages that failed
          stayed,    \* history: the objects that have been there since the walk began
          known,     \* history: the objects that have been there since the walk began, or came
          rewritten  \* history: the walk has used a cursor that Path::from changes

request == <<page, last, more>>
client == <<pc, walk, cursor, listed>>
history == <<stayed, known, rewritten>>
vars == <<backend, objects, client, request, failures, history>>

TypeOK ==
  /\ backend \in Schemes
  /\ objects \subseteq Texts
  /\ pc \in [Clients -> {"idle", "page", "done"}]
  /\ \A c \in Clients : pc[c] # "idle" => walk[c] \in Walks[c]
  /\ cursor \in [Clients -> Texts \union {Nil}]
  /\ page \in [Clients -> SUBSET Texts]
  /\ \A c \in Clients : pc[c] # "idle" => Cardinality(page[c]) <= walk[c].limit
  /\ last \in [Clients -> Texts \union {Nil}]
  /\ \A c \in Clients : last[c] # Nil => last[c] \in page[c]
  /\ more \in [Clients -> BOOLEAN]
  /\ listed \in [Clients -> SUBSET Texts]
  /\ failures \in [Clients -> 0..MaxFailures]
  /\ stayed \in [Clients -> SUBSET Texts]
  /\ known \in [Clients -> SUBSET Texts]
  /\ rewritten \in [Clients -> BOOLEAN]

Init ==
  /\ backend \in Schemes
  /\ objects \in SUBSET Locations
  /\ pc = [c \in Clients |-> "idle"]
  /\ walk = [c \in Clients |-> Nil]
  /\ cursor = [c \in Clients |-> Nil]
  /\ page = [c \in Clients |-> {}]
  /\ last = [c \in Clients |-> Nil]
  /\ more = [c \in Clients |-> FALSE]
  /\ listed = [c \in Clients |-> {}]
  /\ failures = [c \in Clients |-> 0]
  /\ stayed = [c \in Clients |-> {}]
  /\ known = [c \in Clients |-> {}]
  /\ rewritten = [c \in Clients |-> FALSE]

-----------------------------------------------------------------------------
(* Objects *)

Accepts(t) == t \notin Invalid

Put(t) ==
  /\ Accepts(t)
  /\ objects' = objects \union {PathFrom[t]}
  /\ UNCHANGED <<backend, client, request, failures, rewritten>>

Delete(t) ==
  /\ Accepts(t)
  /\ objects' = objects \ {PathFrom[t]}
  /\ UNCHANGED <<backend, client, request, failures, rewritten>>

-----------------------------------------------------------------------------
(* One page *)

Prefix(w) == IF w.prefix = Root THEN Root ELSE PathFrom[w.prefix]

\* The locations a walk is about.
Scope(c) == Under[Prefix(walk[c])]

\* Mutant of IsBeyond: the offset is ignored when there is a prefix.
IsBeyondAtRoot(c, l) ==
  cursor[c] = Nil \/ walk[c].prefix # Root \/ Rank[l] > Rank[PathFrom[cursor[c]]]

\* Mutant of IsBeyond: the page begins with the offset.
IsBeyondOrAt(c, l) == cursor[c] = Nil \/ Rank[l] >= Rank[PathFrom[cursor[c]]]

\* The pages after the first list what is beyond the offset.
IsBeyond(c, l) == cursor[c] = Nil \/ Rank[l] > Rank[PathFrom[cursor[c]]]

\* Mutant of Rest: a page with an offset is listed from the root.
RestOfStore(c) == {l \in objects \intersect (IF cursor[c] = Nil THEN Scope(c) ELSE Texts) :
                     /\ IsBeyond(c, l)
                     /\ last[c] # Nil => Rank[l] > Rank[last[c]]}

\* What the stream may still yield, as the store is now.
Rest(c) == {l \in objects \intersect Scope(c) :
              /\ IsBeyond(c, l)
              /\ IF backend = "file" THEN l \notin page[c]
                                     ELSE last[c] # Nil => Rank[l] > Rank[last[c]]}

\* A directory is read in an order of its own; the other stores list in byte order.
Coming(c) == IF backend = "file" THEN Rest(c)
             ELSE {l \in Rest(c) : \A k \in Rest(c) : Rank[l] <= Rank[k]}

\* `stream.take(limit + 1)`: in a release build the sum wraps.
Full(c) == more[c] \/ Cardinality(page[c]) >= (walk[c].limit + 1) % Usize

Turn(c) ==
  /\ page' = [page EXCEPT ![c] = {}]
  /\ last' = [last EXCEPT ![c] = Nil]
  /\ more' = [more EXCEPT ![c] = FALSE]

\* A walk begins.
List(c, w) ==
  /\ pc[c] = "idle"
  /\ w.prefix # Root => Accepts(w.prefix)
  /\ pc' = [pc EXCEPT ![c] = "page"]
  /\ walk' = [walk EXCEPT ![c] = w]
  /\ UNCHANGED <<backend, objects, cursor, request, listed, failures, rewritten>>

\* Mutant of Collect: the extra item is put on the page.
CollectExtra(c, l) ==
  /\ page' = [page EXCEPT ![c] = @ \union {l}]
  /\ last' = [last EXCEPT ![c] = l]
  /\ more' = [more EXCEPT ![c] = Cardinality(page[c]) >= walk[c].limit]

\* An item goes on the page if there is room, and is dropped otherwise.
Collect(c, l) ==
  IF Cardinality(page[c]) < walk[c].limit
  THEN /\ page' = [page EXCEPT ![c] = @ \union {l}]
       /\ last' = [last EXCEPT ![c] = l]
       /\ UNCHANGED more
  ELSE /\ more' = [more EXCEPT ![c] = TRUE]
       /\ UNCHANGED <<page, last>>

\* The next item of the stream.
Yield(c) ==
  /\ pc[c] = "page" /\ ~Full(c)
  /\ \E l \in Coming(c) : Collect(c, l)
  /\ UNCHANGED <<backend, objects, client, failures, rewritten>>

\* The client has its page, and asks for the next one if there is a next_offset.
Answer(c, next) ==
  /\ listed' = [listed EXCEPT ![c] = @ \union page[c]]
  /\ cursor' = [cursor EXCEPT ![c] = next]
  /\ pc' = [pc EXCEPT ![c] = IF next = Nil THEN "done" ELSE "page"]
  /\ rewritten' = [rewritten EXCEPT ![c] = @ \/ (next # Nil /\ PathFrom[next] # next)]
  /\ Turn(c)
  /\ UNCHANGED <<backend, objects, walk, failures>>

\* The stream has ended, or has yielded all that was asked of it.
Finish(c) ==
  /\ pc[c] = "page" /\ (Full(c) \/ Rest(c) = {})
  /\ Answer(c, IF more[c] THEN last[c] ELSE Nil)

Failed(c) ==
  /\ pc[c] = "page" /\ failures[c] < MaxFailures
  /\ failures' = [failures EXCEPT ![c] = @ + 1]

\* Mutant of Break: an error ends the stream.
BreakEnds(c) ==
  /\ pc[c] = "page" /\ failures[c] < MaxFailures /\ ~Full(c)
  /\ Answer(c, Nil)

\* The stream yields an error: the page is answered with it, whatever came before,
\* unless the error is the one item too many.  The client asks for the page again.
Break(c) ==
  /\ Failed(c) /\ ~Full(c)
  /\ IF Cardinality(page[c]) < walk[c].limit
     THEN Turn(c)
     ELSE more' = [more EXCEPT ![c] = TRUE] /\ UNCHANGED <<page, last>>
  /\ UNCHANGED <<backend, objects, client, rewritten>>

\* The handler is dropped while it reads the stream; the client asks again.
Drop(c) ==
  /\ Failed(c) /\ Turn(c)
  /\ UNCHANGED <<backend, objects, client, rewritten>>

-----------------------------------------------------------------------------
\* History: what was there all the time, or at any time, since a walk began.
Observe ==
  /\ stayed' = [c \in Clients |->
       CASE pc[c] = "idle" -> objects' [] pc[c] = "page" -> stayed[c] \intersect objects'
         [] OTHER -> stayed[c]]
  /\ known' = [c \in Clients |->
       CASE pc[c] = "idle" -> objects' [] pc[c] = "page" -> known[c] \union objects'
         [] OTHER -> known[c]]

Step(c) == Yield(c) \/ Finish(c)

Next ==
  /\ \/ \E t \in Names : Put(t) \/ Delete(t)
     \/ \E c \in Clients :
          (\E w \in Walks[c] : List(c, w)) \/ Step(c) \/ Break(c) \/ Drop(c)
  /\ Observe

Spec == Init /\ [][Next]_vars

\* A handler that can go on does, and the client asks for the pages there are.
LiveSpec == Spec /\ \A c \in Clients : WF_vars(Step(c) /\ Observe)

-----------------------------------------------------------------------------
(* Properties *)

\* A walk that reaches what it asks for: over a store that lists in order, with a limit
\* that is neither zero nor the largest usize, and with cursors that are their own
\* locations.
Regular(c) ==
  /\ backend # "file" /\ ~rewritten[c]
  /\ walk[c].limit > 0 /\ walk[c].limit + 1 < Usize

\* Whoever follows next_offset to the end has seen every object that was there all the
\* while, whatever was put and deleted between the pages and within them, and whichever
\* pages failed and were asked for again.
WalkIsComplete ==
  \A c \in Clients :
    pc[c] = "done" /\ Regular(c) => stayed[c] \intersect Scope(c) \subseteq listed[c]

\* No object is listed twice.
NothingTwice ==
  \A c \in Clients : pc[c] = "page" /\ Regular(c) => page[c] \intersect listed[c] = {}

\* Over every store, for every limit and cursor: what is listed is under the prefix, and
\* was there at some moment of the walk.
ListedWasThere ==
  \A c \in Clients :
    pc[c] # "idle" => page[c] \union listed[c] \subseteq known[c] \intersect Scope(c)

\* From some time on no new object comes; objects may still be deleted.
Quiet == <>[][objects' \subseteq objects]_vars

\* A walk comes to an end once no new object comes: who puts larger and larger keys for
\* ever keeps has_more true for ever.  This leaves out the walks of which Path::from has
\* changed a cursor.
EveryWalkEnds ==
  Quiet => \A c \in Clients : (pc[c] = "page") ~> (pc[c] = "done" \/ rewritten[c])
=============================================================================
