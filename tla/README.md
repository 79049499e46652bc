# mikcar in TLA+

mikcar is a sidecar: one process that gives the application next to it key-value,
queue, SQL, secrets, storage and email services over HTTP. Each service is an axum
router over a trait or an enum of backends. This directory holds TLA+ models of the
services that keep state or run several things at once, the TLC configurations that
check them, and TLAPS proofs about every service: all safety invariants, all action
properties but those of the refuted runs, and all refinements hold for any size.

Paths and line numbers are those of the repository; `PROJECT.json` maps every
definition to its lines.

## 1. Inventory

| Component | Source | State | Operations |
|---|---|---|---|
| Key-value service | `src/kv.rs` | in-memory map behind an `RwLock`, or two redb tables (`kv`, `ttl`) | get, set, del, keys, incr, mget, mset, exists, ttl, expire |
| Queue service, in-memory | `src/queue.rs` | two maps (topics, queues) of unbounded channels; a mutex on each receiver | publish, subscribe, push, pop |
| Queue service, brokers | `src/queue.rs` | maps of omniqueue producers and consumers, each map and consumer behind a mutex; the queue lives at Redis or RabbitMQ | push, pop |
| SQL service | `src/sql.rs` | a pool of ten connections; per script a transaction, a thread, two channels | query, execute, batch, script |
| Secrets service | `src/secrets.rs` | memory map behind an async `RwLock`; Vault, AWS, GCP by HTTP; environment | get, create, update, delete, exists, list |
| Storage service | `src/storage.rs` | none of its own (object_store); a walk through a listing lives in the cursor its client holds | get, put, delete, head, list |
| Email service | `src/email.rs` | memory outbox behind an async `RwLock`, or an SMTP transport | send, batch |
| Health, auth, errors, telemetry, server | `src/health.rs`, `auth.rs`, `error.rs`, `otlp.rs`, `builder.rs`, `main.rs`, `lib.rs` | configuration | middleware: trace, timeout (30 s by default), authentication |

How they interact: services share nothing but the tokio runtime, its blocking pool,
and the middleware stack. One consequence matters to all of them: `TimeoutLayer` and a
client that hangs up both *drop the handler's future at the await it is waiting in*.
What the handler has done is done; guards it holds are released; tasks it has spawned
on the blocking pool (redb calls, scripts) go on without it.

Hard behaviours, and the property a correct component has:

- **redb**: calls of one client are several transactions and a later look at the
  clock; tasks of many requests interleave between them, commits fail, the process
  restarts. Correct: writes are atomic, isolated and lose nothing; a read answers what
  some moment of its call justifies; a timestamp outlives its key only where an EXPIRE
  put it there; every writer gets its turn.
- **in-memory map**: deadlines are computed before or under the lock; a call reads the
  clock for each key; a panic under the lock poisons it. Correct: one map with atomic
  operations.
- **in-memory queues**: channels are created by whoever names them first; a consumer
  owns the receiver while it waits, for a whole batch if it subscribes; handlers are
  dropped anywhere. Correct: first-in first-out channels, each message to one consumer,
  and a line at the receiver that moves on.
- **brokers**: clients are cached and built over the network under a mutex that all
  queues share; the broker redelivers what is not acknowledged; RabbitMQ is not asked to
  confirm what it is sent. Correct: what the broker has confirmed is kept until a handler
  has it, one client per queue, nobody waits for ever.
- **secrets**: a remote store serves a request when its handler has long gone; a create
  over GCP is two requests; each store lists in its own way. Correct: one of several
  creates succeeds, and what the client is told is true.
- **scripts**: handler and script thread wait for each other, either may be gone
  first, statements fail and scripts catch, several scripts write the same rows.
  Correct: all or nothing, and "ok" means committed.
- **storage**: a listing is a chain of requests tied together by a cursor, and each is
  a stream that may fail; objects come and go meanwhile. Correct: a walk along the
  cursors shows what stayed, once, and ends when puts do.
- **email**: a batch is a loop of sends to a server, ended by an error or a dropped
  handler anywhere; clients try again. Correct: "sent" is true, and a mail goes out
  twice only where nobody could know.

The `hazards` of `PROJECT.json` list these at their lines, with the properties that
watch them.

## 2. Modules

```
KvApi ──── KvStore                     vocabulary and i64 arithmetic; the promise
  ├── KvMemory ── MCKvMemory           in-memory backend, implements KvStore
  │     └── KvMemory_proofs            theorems
  └── KvRedb                           redb backend
        ├── KvRedbHistory              ... with a record of what a read could have seen
        ├── KvRedbRefinement           ... implements KvStore when nothing expires
        └── KvRedb_proofs              theorems about the three
      KvWorkloads                      the calls clients make in each instance
MessageChannels                        the promise of the in-memory queues
QueueMemory ── MCQueueMemory           implements MessageChannels
  └── QueueMemory_proofs               theorems
QueueBroker ── MCQueueBroker           Redis Streams and RabbitMQ through omniqueue
  └── QueueBroker_proofs               theorems
SqlScript ──── MCSqlScript             statements, batches, scripts
  └── SqlScript_proofs                 theorems
SecretStores ─ MCSecretStores          memory, Vault, AWS and GCP secrets
  └── SecretStores_proofs              theorems
ObjectStorage ─ MCObjectStorage        objects, and the pages of a listing
  └── ObjectStorage_proofs             theorems
EmailService ── MCEmailService         mails and batches, and clients that try again
  └── EmailService_proofs              theorems
```

**KvApi** has the calls as records and what INCR does to an `i64` (the release profile
has no overflow checks: the largest number wraps). A value is a text that does not
parse, or a number. The batch of an MSET is a function from keys to values: of two
pairs with one key the last counts, as in the code.

**KvStore** is what the trait promises: one map with an expiry per key, every operation
with its effect at one moment between call and answer. A read sees one map, but the code
does not judge all its keys at one moment: each key is shown or expired as of a moment of
its own (`Moments`) during the call at which the map was that one, and TTL and EXPIRE go
by two readings of the clock. `changed`, the time of the last write, tells those moments.
A call may also fail, with no effect.

**KvMemory**: `data` is the map, `pc` of a request goes from "idle" to "lock" (a
SET reads the clock there, before it has the lock) and to "done" or "panicked". A method
that reads the clock once is one action, because it runs under the lock. The others are an
action for each reading, with the lock held between them (`Readers`, `Writers`): MGET and
KEYS open a walk and visit a key at a time (`OpenBatch`, `Visit`), TTL asks whether the key
is alive and then for what is left (`Ttl`, `TtlLeft`), EXPIRE likewise and then for the
deadline (`Expire`, `Stamp`). A sum beyond the range of `Instant` panics: before the lock
in SET, under it in EXPIRE (`StampPanics`), and then `poisoned` fails every later call.
Time passes in ticks, several to a second, so that the rounding of TTL shows; `changed` is
a history variable for the refinement.

**KvRedb**: `kv` and `ttl` are the committed tables, `wkv`, `wttl` what the open write
transaction sees, `writer` who holds it (redb has one at a time; `begin_write` waits).
One action per transaction, clock reading or body: `CheckRow` then `ClockGet` are the
halves of `is_key_expired`, `ReadValue` the second transaction of `get_sync`,
`OpenBatch` the snapshot of `mget_sync` and `keys_sync` and `CheckRow`/`ClockBatch` a
turn of their loops, `LookExpire` and `BeginExpire` the two transactions of
`expire_sync`; a write is `BeginSet` (and so on) and `Commit` or `Abort`. `Crash` is a
restart on the same file. A task whose handler was dropped is a request whose `Reply`
nobody reads. Timestamps are u64: `seconds as u64` and the sum wrap at `U64`, and TTL
casts what is left back to an i64 (`AsSigned`).

**KvRedbHistory** records, for each request, the committed tables and timestamps that
existed while it ran. **KvRedbRefinement** maps a lookup to the moment its value is
read, a batch to the moment its snapshot opens, a write to its commit. Its `LiveSpec`
has the steps of calls that set no expiry; the others run in `kv_redb`.

**QueueMemory**: `map` takes a name to a channel, `channels` hold messages and the line
of requests at the receiver (its head owns the mutex; tokio's mutex is fair). `Lookup`
is one step because `get_or_create_*` runs under the mutex of the map. `Receive` takes
one message, so a subscriber is several steps during which it may run out of time or be
dropped. Topics and queues differ in `Limit` and in what a timeout looks at first.

**QueueBroker**: the broker is external: per queue the messages nobody holds and the
deliveries not yet acknowledged; `backend` is the one that the URL names. `AskProducers`
keeps the mutex of the map when it finds nothing, through `Ensure` (XGROUP CREATE, or
queue_declare) and `BuildProducer`; `AskConsumers` likewise. `Send` may be answered "ok"
with nothing stored, unless the broker confirms (`Confirms`: XADD is answered by Redis, a
publish to RabbitMQ by nobody). `Ack` precedes the answer. Every network step may fail,
having had its effect or not (`HalfDone`). `ReceiveNothing` may leave a delivery that
nobody reads; `Redeliver` is the broker taking one back, also from a consumer still at
work. `Crash` restarts the service with empty maps.

**SqlScript**: `pc` is the handler, `js` the script's thread, `reply` the channel
between them. `TakeMessage`/`RunMessage`/`JoinScript` are the branches of the
`select!` loop of `execute_script`; `RunBatch` and `RunAlone` the other handlers.
The loop's `None` branch and what follows the loop are not there: the handler keeps a
sender of its own (`bridge`), so the channel does not close. The body of a script is a
list of steps (a query, an UPDATE that adds to a row, a check of what was read, a
throw, an await) with two flags: `async` for `export default async function`, and
`catches` for a script that wraps its statements. PostgreSQL and sqlx are external:
READ COMMITTED, row locks until the transaction ends, COMMIT of an aborted transaction
reports success and rolls back, dropping a transaction rolls it back.

**SecretStores**: `backend` is the one that `SECRETS_URL` names, chosen in `Init`. The
tables `VaultAsks`, `AwsAsks` and so on say what a backend asks of its store for each
operation, `AnswerTo` what becomes of the status. `asked` is a request on its way,
`reply` a status on its way back; `Serve` does not need the handler to be there still.
`Respond` lets a GCP create go on with its second request ("version"). A secret is the
sequence of its versions, each known by its writer: a GCP secret without a version is
the empty sequence, `Gone` the mark Vault sets on a deleted version. `Observe` keeps the
history the properties speak of. The stores are external; each may refuse any request.

A listing is seen from the secret its caller looks for (yes or no): "list" is one of the
secret's directory, "search" one of another beginning of its name. AWS and GCP may put the
secret on a later page, which the code does not ask for (`IsBeyondPage`). Vault lists one
directory, so a search does not find the secret, or finds another name that reads like it
behind the prefix (`IsOtherLevel`). Vault also answers the DELETE of a missing secret with
204, which the code reports as deleted.

**ObjectStorage**: `objects` are the locations in the store, `PathFrom` what
`Path::from` makes of a text (it encodes some characters, "%" among them, so it is not
idempotent), `Rank` the byte order. `List` begins a walk; `Yield` takes the next item of
the stream, which a store gives in order (`Coming`) and the `file://` store in any
order; `Full` is `take(limit + 1)`, a sum modulo `Usize`; `Finish` answers with a
`next_offset` if one item too many came, `Break` is an error in the stream, `Drop` the
dropped handler; after either the client asks for the page again. A PUT or a DELETE is
one request to the store. `Observe` records what stayed and what was ever there.

**EmailService**: `results` grows by one with each turn of the loop of `send_batch`; a
single send is a loop of one. `Send`, `SendFails` (the server may have taken the mail
all the same) and `Refuse` (`?` on a mail that cannot be built) are what a turn may come
to, `Report` the answer. `Retry` is the client, which repeats what it was not told of,
in any order. `unclear` counts, for the properties, how often a mail went out with no
word to the client.

`Drop` in the last six modules is the timeout layer or the client's hang-up, at
every await. Operators whose comment begins with "Mutant of" are not part of a model:
each is a plausible mistake in the code, kept to show that a property notices it.

## 3. Runs

| Run | Instance | What it shows |
|---|---|---|
| `kv_memory` | 2 keys, 2 requests, all operations against those that race with them, ttl 0/1/too large, EXPIRE -1/1 | `ImplementsPromise`: the map is atomic, each clock reading a step, TTL rounding and poisoning included |
| `kv_redb` | 2 keys, 2 requests, all reads, SET with ttl, MSET, DEL, EXPIRE 1/-4 | reads: `BatchIsOneSnapshot`, `LookupIsJustified`, `TtlIsJustified`; writers: a row changes only when a call on its key commits (`OnlyTheWriterWrites`), a timestamp without its key is left by the commit of an EXPIRE only (`OrphanOnlyByExpire`) |
| `kv_redb_plain` | 2 requests, no ttl, with fairness | refinement of `KvStore`; INCR loses no update (`IncrementsOnce`); `EveryCallAnswered` |
| `kv_redb_set` | SET with and without ttl | **violated**: `SetShows` |
| `queue_memory` | 4 requests, a queue and a topic, with fairness | `EachMessageOnce`, refinement of `MessageChannels`, `EveryRequestEnds` |
| `broker` | 3 requests, 2 queues, either broker, with fairness | `PushedIsKept` (Redis), `OneClientPerQueue`, `EveryRequestEnds` |
| `broker_ack` | the same over Redis | **violated**: `AtLeastOnce` |
| `sql` | 3 requests, 2 connections, 2 rows, with fairness | `AllOrNothing`, `SuccessIsCommitted`, `EveryRequestEnds` for handlers and script threads |
| `sql_async` | one async script | **violated**: `ThrowRollsBack` |
| `secrets` | 4 requests, one secret, every backend | `CreateIsExclusive`, `AnswersAreTrue`, `DenialsAreJustified`, `ShellIsUnfinished` |
| `storage` | 4 objects, one that `Path::from` changes; a prefix and the root; limits 0 to the largest; 2 failed pages; with fairness | `WalkIsComplete`, `NothingTwice`, `ListedWasThere`, `EveryWalkEnds` |
| `email` | batches of 0 to 3 mails with one that cannot be built at any place, 4 tries | `ToldIsSent`, `TwiceOnlyInDoubt` |

### Bounds, and why they are enough

- *Two keys*: one key shows every race on a row; the second is what tells a batch from
  a single key, and "its own key" from "any key".
- *Two requests* for the key-value backends, each making any number of calls: every
  race of the code is between one call and one writer, and the writer can change its
  call while a slow reader goes on. *Three or four* for queues and scripts, where a
  request makes one call: two consumers against two messages, two who create a
  channel and one who uses it, two who hold both connections and one who waits.
- *One value* in `kv_redb`, stored, expired and deleted: reads do not look at values, so a
  stale or torn answer shows by what is there and what is not. INCR, which does, runs in
  `kv_redb_plain`, where nothing expires: it does not look at the ttl table.
- *Numbers* -1..1 (`MinInt`, `MaxInt`): an INCR wraps after one or two steps. *Clock*
  `Epoch`..`MaxNow` with ttl 1: a key is set, expires and is looked at while the clock
  can still move; `MaxNow = 3` in memory, where a second has two ticks, so that two
  deadlines can pass one after the other within a batch. `U64 = 16` lets EXPIRE -4 wrap
  below zero and not meet the clock; `Epoch` is 2 or more, as a clock of the present has
  more than the one or two seconds that would make a wrapped difference read as -1 or -2.
- *Calls*: a parameter that gives each request the calls it may make, chosen in
  `KvWorkloads` and the MC modules so that what an instance asks about is all there; no
  instance has a call that the API does not offer. In `MCKvMemory` one request makes
  every call and the other the writes that change what the first is reading. Requests
  of one module are alike, so an instance may fix who reads and who writes, or who
  produces and who consumes; what it loses are renamings (`MCQueueBroker` calls the first
  request's queue q1) and a few mixes (three subscribers at once) that have no
  interaction of their own. No symmetry is declared.
- *One secret*: the stores keep names apart, and no step touches two.
- *One walker*: a walk changes nothing, so others do not notice it, and PUT and DELETE
  are atomic. Three locations under the prefix, one beside it; with a limit of 1 a walk
  has three pages, with 2 two, and 3 is `usize::MAX` (`Usize = 4`). *Two failed pages*:
  one page may fail twice, or two pages once.
- *One client of the email service*: clients share nothing but the server. Three mails
  in a batch put the refused one first, between and last; four tries let a mail go out
  in doubt, be retried and go out in doubt again.
- `CHECK_DEADLOCK FALSE` stands where each request makes one call, so the system
  stops when all have ended. In the key-value models a request calls again (or a restart
  is possible), and deadlock is checked.

### Fairness

- `KvRedbRefinement!LiveSpec`: a task on the blocking pool, once running, goes on. Between
  restarts each request makes one call: redb's `begin_write` waits on a condition
  variable, which promises no order, so with endless writers weak fairness would not be
  enough. Commits are not assumed to succeed, nor restarts to happen.
- `QueueMemory!LiveSpec`: the runtime polls a handler that can go on, and timers of
  the service's own timeouts fire. That a request is timed out from outside is not assumed.
- `QueueBroker!LiveSpec`: a call to the broker ends, with a result or an error.
  Neither redelivery nor a restart is assumed.
- `SqlScript!LiveSpec`: a statement ends, if only with an error of `lock_timeout` or
  the deadlock detector, and a script is no endless loop (its body is finite). A
  dropped handler is never assumed.
- `ObjectStorage!LiveSpec`: a handler reads its stream, and the client asks for the next
  page; pages fail finitely often. That new objects stop coming is not part of it but the
  hypothesis of `EveryWalkEnds` (`Quiet`): to a client that puts larger and larger keys
  for ever, has_more stays true.

### What is refuted

- `SetShows`. `set_sync` writes the ttl table only when a ttl is given and never
  removes a row that is there. A SET without ttl over an expired key is invisible; over
  a key with a ttl it expires with the old one. The in-memory backend clears the expiry.
- `ThrowRollsBack`. `README.md:176` promises a rollback when a script throws. An async
  script has returned a promise by then, which the service takes for a result.
- `AtLeastOnce`. `src/queue.rs:29` speaks of at-least-once delivery. A pop acknowledges
  its message before it answers, so a handler dropped in between, or an answer that does
  not arrive, loses it. Over RabbitMQ the property fails earlier: a push is answered when
  it is written, on a channel that asks for no confirms, so the broker may never have it
  (`Backends = {"rabbitmq"}` shows that). What holds is `PushedIsKept`: over Redis a pushed
  message stays until a handler has it.

Other things the models have and the properties make room for, not run as refutations:

- `expire_sync` looks a key up in one transaction and writes its timestamp in another;
  a DEL in between leaves a timestamp without a key, and the next SET without ttl
  inherits it. `OrphanOnlyByExpire` says that it is the commit of an EXPIRE that leaves it,
  and nothing else.
- EXPIRE on an expired key brings it back in redb, not in memory.
- EXISTS and GET compare a timestamp read earlier with a later clock: an EXPIRE that
  prolongs the key in between is not seen, and a live key is denied. MGET answers the
  value of its snapshot for a key that expired and was deleted while it ran.
- EXPIRE with negative seconds leaves a timestamp near 2^64 in redb if the sum is below
  zero, and TTL then answers a negative number that is neither -1 nor -2
  (`TtlIsJustified` says which).
- MGET and KEYS of the in-memory backend read the clock for each key: a key may be shown
  although another that expires later is not.
- A negative EXPIRE in the in-memory backend panics under the lock; every later call
  fails, and `health()` goes on to report healthy.
- The default deadline of a subscribe (30 s) starts after the default request timeout
  (30 s), which thus always fires first, and the messages collected by then are lost.
- Scripts run at READ COMMITTED, so the "fund transfer with balance check" of
  `README.md:180` can overdraw an account when two run at once.
- A GCP create that fails between its two requests leaves a secret that EXISTS reports,
  GET does not find and a second create refuses; an update or a delete mends it.
  `ShellIsUnfinished` says that nothing else leads there.
- Two GCP creates may both succeed with one delete between them, on one secret: the
  delete removes what the first half of the first one made, and both versions end in what
  the second one made. `CreateIsExclusive` counts removals for that reason.
- Over Vault a create of an existing secret overwrites it and an update of a missing one
  creates it, since both are the same POST; EXISTS over GCP says "no" for any failure.
  DELETE of a secret that is not in Vault is answered "deleted". `CreateIsExclusive` and
  `DenialsAreJustified` leave these answers out.
- `list` of Vault gives one directory: of a prefix that is not the directory's path it
  gives nothing, or names that are glued to it without a "/", and a subdirectory is one
  entry. Over AWS and GCP `list` gives the store's first page. `DenialsAreJustified` leaves
  out a listing that stops there (`reply` "unlisted" and "glued").
- A `next_offset` is a location, and `Path::from` encodes it once more: after an object
  "a/%7E" (put as "a/~") the next page begins at "a/%257E", before that object, and a client
  that passes it on, as `src/storage.rs:244` says, is given the same page for ever. Where
  the encoded cursor comes later in the order, objects are passed over instead. `Regular`
  names the walks that are spared, and the properties of walks are about those.
- A `file://` store lists a directory in its own order, in which "beyond the offset" is
  not "after it": pages leave objects out. A limit of 0 answers an empty page without a
  cursor, and so does a limit of `usize::MAX`, whose successor is 0.
- A batch that is answered with 400 or 500 may have sent mails before the one that
  could not be built; a mail reported as failed may have been delivered. `TwiceOnlyInDoubt`
  says that these are the only ways to a duplicate.

## 4. Proofs

Each module with theorems has an invariant `IInv` that every step preserves, for every
value of the constants; what the runs check on an instance follows from it. The
hypotheses are the assumptions declared with the constants, which TLC evaluates in every
run, and two that a theorem names: no async script, no expiry.

`KvRedb_proofs` proves, for every set of keys, texts, requests and calls, every i64 and
u64 range and any clock:

| Theorem | Statement |
|---|---|
| `Invariance` | `Spec => []IInv` |
| `TypeCorrect` | `Spec => []TypeOK` |
| `IncrementIsAtomic` | `Spec => IncrementsOnce` |
| `NoUpdateIsLost` | `Spec => OnlyTheWriterWrites` |
| `OrphansComeFromExpire` | `Spec => OrphanOnlyByExpire` |
| `HistoryInvariance` | `HistorySpec => []HInv` |
| `OneSnapshot` | `HistorySpec => []BatchIsOneSnapshot` |
| `LookupsAreTrue` | `HistorySpec => []LookupIsJustified` |
| `TtlIsTrue` | `HistorySpec => []TtlIsJustified` |
| `RedbImplementsPromise` | `Spec => ImplementsPromise`, if no call asks for an expiry |

The assumptions are those declared with the constants: `ApiAssumption` (0 and 1 are
numbers of the range, `Nil` is no value), `CallsAssumption` (calls are well formed) and
`RedbAssumption` (the clock starts at 2 or later, `U64` is positive). TLC evaluates them
in every run.

The argument. Type correctness alone is not inductive for what matters: that a commit
publishes only its own changes depends on what has happened since the transaction
began. The inductive invariant is `IInv == TypeOK /\ Isolation`, where `Isolation` says
that a request between its `Begin` and `Commit` is the writer (so there is one at most),
and that the transaction's tables differ from the committed ones in the keys of its
call alone, an INCR having stored the successor of the committed number. A step that
is not a commit leaves the committed tables alone (`OnlyCommitWrites`); no second
transaction can begin beside the first; so `Isolation` holds until the commit, and the
commit publishes what it describes. `IncrementsOnce` and `OnlyTheWriterWrites` follow
from `IInv` at the step of the commit. `TypeCorrect` has every stored timestamp below
`U64`, wrapped sums included. `OrphanOnlyByExpire` asks of each step whether the orphan was
there before: the committed tables change at a commit, and of the bodies only that of an
EXPIRE can leave its transaction with an orphan that the committed tables do not have
(`NewOrphanInTxn`).

The answers of reads need to know what a read has in hand halfway. `HInv` says that the
history of a running read has the tables as they are now, and the row it has looked at
(`RowSeen`); and of a batch, that its snapshot is a table of its history that explains
the answer so far, all but the keys still to be visited and those of which a timestamp
of the call has passed (`Walked`). A later commit changes nothing of that, because
histories only grow and a timestamp that has passed stays so (`MoreHistory`,
`AgedGrows`). That each operation goes through its own control points only (`Control`)
is a conjunct of its own.

For the refinement the abstract step is taken where the code settles the answer: `OpenBatch`
for a batch, `ReadValue` for a lookup, `OpenTtl` for TTL, `Commit` for a write; all other
steps must show nothing. `PlainInv` gives the reason: an open transaction holds all that
its call makes of the *committed* tables, and its answer (`Written`), and a batch has the
answer of its snapshot but for the keys to come (`Walking`). The hypothesis `NoTtl` says
that no call sets an expiry. It cannot be dropped: with timestamps a lookup reads clock
and value at different moments, and SET leaves an old row behind (`SetShows` is refuted).
What holds with them is what the theorems about reads say.

`KvMemory_proofs`, for every set of keys, texts, requests and calls and any clock:

| Theorem | Statement |
|---|---|
| `TypeCorrect` | `Spec => []TypeOK` |
| `MemoryImplementsPromise` | `Spec => ImplementsPromise` |

A method of one step is one step of `KvStore`, and what takes work is that an entry with
its `Option<Instant>` shows as value and expiry, that a TTL is the same number of seconds
rounded, and that a call over a poisoned lock is a call that fails. A method of several
steps is a step of `KvStore` when it answers. Until then the invariant carries what it
knows (`Knows`): of a batch, that each key it has visited was judged at one of the moments
`KvStore` allows, of TTL and EXPIRE, that the key was alive at one of them. Those moments
last as long as nobody writes, and nobody can: an EXPIRE between its two readings has the
lock alone (`Exclusive`), and readers keep writers out.

`QueueMemory_proofs`, for every set of topics, queues, requests and calls:

| Theorem | Statement |
|---|---|
| `TypeCorrect` | `Spec => []TypeOK` |
| `MessagesStay` | `Spec => []EachMessageOnce` |
| `MemoryImplementsChannels` | `Spec => ImplementsChannels` |

Whoever creates a channel first, a name keeps it, no two names share one, and a request
stays with the one it has looked up (`Flow`). A message is in its channel once
(`Distinct`), sent by a producer that is done (`Sent`), and queued or with one consumer
(`Once`). `InLine` is what the uninterrupted batches of `MessageChannels` rest on: a
consumer with part of its batch is the head of the line at the mutex, and `Drop` takes
it out of the line and ends its batch in one step.

`QueueBroker_proofs`, for every set of queues and requests:

| Theorem | Statement |
|---|---|
| `TypeCorrect` | `Spec => []TypeOK` |
| `OneBuilder` | `Spec => []OneClientPerQueue` |
| `NoPushIsLost` | `Spec => []PushedIsKept` |

`Locks`: who builds a client holds the mutex of its map and the map does not have that
client; who receives or acknowledges holds the mutex of the consumer. `Declared`: a
cached producer belongs to a queue that exists, so that a message it sends has a place
to be kept. `PushedIsKept` is inductive with these: a message leaves the broker with the
acknowledgement of a handler that received it, and a handler that is over stays over with
what it received (`OverStays`). The theorem is about Redis; of RabbitMQ, the answer to a
push implies nothing (`AtLeastOnce`).

`SqlScript_proofs`, for every pool, set of rows and requests and all calls:

| Theorem | Statement |
|---|---|
| `TypeCorrect` | `Spec => []TypeOK` |
| `NoFalseSuccess` | `Spec => []SuccessIsCommitted` |
| `WholeCallsOnly` | `Spec => AllOrNothing`, if no script is async |
| `FirstPartsOnly` | `Spec => PrefixOnly` |

`Flow` keeps handler, transaction and script thread together: a script may have caught
an error, but an aborted transaction is remembered in `last_error`, and the handler
commits only without one. `Partial` says what an open transaction has written: on top of
the committed rows, which are its own until it ends, what the steps of its body so far
add; so a commit at the end of the body adds the whole. An async script has returned
before its end, which is why `WholeCallsOnly` leaves it out (`ThrowRollsBack` is refuted)
and why `FirstPartsOnly` is what is left: a first part of the statements, in order. The sums
over a body are a recursive function; that it is defined, and an integer everywhere, is
proved by induction written with sets (`Least`, `Induction`), the induction theorems of
the library taking an operator.

`ObjectStorage_proofs`, for every set of paths, clients and walks, every `PathFrom`,
every width of usize and any number of failures:

| Theorem | Statement |
|---|---|
| `TypeCorrect` | `Spec => []TypeOK` |
| `NothingLeftOut` | `Spec => []WalkIsComplete` |
| `NothingListedTwice` | `Spec => []NothingTwice` |
| `NothingInvented` | `Spec => []ListedWasThere` |

`WalkIsComplete` speaks of the end of a walk, and its reason is in the middle. The
invariant says of a client in a page that the objects of the pages before lie up to the
cursor, and those of this page beyond it and up to `last` (`InOrder`); and that what
stayed in the store and lies up to one of these places has been seen (`NothingMissed`).
`Yield` moves `last` to the least of what is left, so it passes nothing over; `Finish`
with one item too many moves the cursor to `last`, where `Regular` is needed: `PathFrom`
must leave the cursor where it is. `Finish` without one finds nothing left in the store.

`EmailService_proofs`, for every set of mails, clients and calls and any number of tries:

| Theorem | Statement |
|---|---|
| `TypeCorrect` | `Spec => []TypeOK` |
| `NoFalseSuccess` | `Spec => []ToldIsSent` |
| `DuplicatesAreInDoubt` | `Spec => []TwiceOnlyInDoubt` |

The invariant is an account of each mail (`Account`): it has gone out as often as it did
so in doubt, and once more if the client, or the handler that is still at work for it,
knows of it. It needs that a call has no mail twice and none the client knows of
(`CallIsFresh`), which a retry keeps, and that a mail goes out once in a call at most
(`OncePerCall`), which also bounds the counts. The assumption `EmailAssumption` says
that a call as first made has no mail twice.

`SecretStores_proofs`, for every set of backends, names, requests and calls:

| Theorem | Statement |
|---|---|
| `TypeCorrect` | `Spec => []TypeOK` |
| `OneCreateWins` | `Spec => []CreateIsExclusive` |
| `NoFalseAnswer` | `Spec => []AnswersAreTrue` |
| `ShellMarksCreate` | `Spec => []ShellIsUnfinished` |
| `ReasonedDenials` | `Spec => DenialsAreJustified` |

The invariant follows a request through its stages: what is on its way to the store is
not done yet (`Asking`), a status on its way back says whether it is done (`Replied`),
and so does the answer (`Told`). Three accounts rest on it. `Paid`: the `Winners` of a
name are the creates that may still be told "created", or have been; each but one is
paid for by a removal, and every one if the secret is not there. A secret comes to be
where there is none, so `Serve` adds a winner when there is room for it; a request that
is served after its handler has gone adds none. `ShellInv`: a secret without a version
has a create that marks it (`Marks`), which waits for its second request, or ended
without success; the mark goes only when that create stores its version, and then the
secret has one. `SeenInv`: the history of a running call has the secret as it is now, and
the reason of the status on its way back, which no later step takes away. Two statuses
have no such reason, "unlisted" and "glued", and a refused EXISTS over GCP: they are what
`DenialsAreJustified` leaves out, and no other answer. The assumption
`SecretsAssumption` says that `Nil` is none of the other values, and that the calls are
well formed.

Only model-checked: liveness (`EveryRequestEnds`, `EveryCallAnswered`, `EveryWalkEnds`),
which rests on fairness and `ENABLED`; and what the refuted runs show, among it that
`AllOrNothing` and the refinement of `KvStore` by redb fail outside their hypotheses.
Nothing in the modules is RECURSIVE.

## 5. Not modelled, and why

- Pattern matching of KEYS (the set of matching keys is the argument; the code removes
  `*` and looks for what remains anywhere in the key), conversion of SQL parameters and
  rows, the content of mails, JSON: no property is about them. Of building a mail,
  whether it succeeds is modelled; the custom headers of a mail are read and not used.
- Errors of redb's *read* transactions (`is_key_expired` takes them for "not expired"),
  and an error when DEL removes the timestamp, which the code ignores: redb refuses the
  commit after an I/O error, which is `Abort`.
- A wall clock that steps back and brings expired keys to life again, and one of the
  first two seconds of 1970.
- Scripts that never end, which keep a thread of the blocking pool.
- Growth of memory: in-memory channels are unbounded and never removed.
- A restart of the broker itself (messages to RabbitMQ are transient), and whether omniqueue reconnects (a broken consumer stays in the map).
- The audit log, tracing and metrics.
- Secrets: the health checks and the environment backend (they change nothing),
  labels (stored by the memory backend alone), signatures of AWS requests.
- Storage: GET and HEAD (one request to the store, nothing changes), metadata of objects;
  what `from_url` does with the path of a `file://` URL (it drops it).
- Health aggregation: a fold of results into one status, and no server mounts it:
  `serve` and `serve_multi` answer `/health` with a constant. Authentication: one
  stateless comparison of a token. Errors and telemetry: tables. None has state, or an
  order that could be wrong.
- Of the server, the timeout and the client's hang-up are `Drop` in six modules; the
  other layers are configuration.

## 6. Plan

Done: the six services, with the faults and retries they meet; proofs of every invariant,
action property and refinement that a passing run checks. What is left:

1. More to say of what is modelled: that the line at a receiver is served in order
   (`QueueMemory`), what an EXPIRE on an expired key may bring back (`KvRedb`), and
   the creates of Vault, which are no creates (`SecretStores`).
2. Theorems of the abstract specifications themselves: that `MessageChannels` is first in
   first out, and that what `KvStore` answers is what it stores.
