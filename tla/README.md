# A verification project for Conductor

Conductor takes product feeds over HTTP, finds out which products changed since
the last upload, records every upload as a *run*, and lets worker processes push
the changed products to sales channels.  This directory holds TLA+ models of the
parts of it that carry state, TLC runs over small instances, and TLAPS proofs for
all instances.  Paths such as `internal/worker/runner.go` are relative to the
repository's root.

## 1. The system

| Component | State it keeps | Operations |
|---|---|---|
| Delta engine (`internal/ingest/processor.go`, `delta.go`) | none | classify a product as rejected, unchanged or enqueued; count a summary |
| Upsert handlers (`internal/api/handlers/debug_upsert*.go`) | the local variables of one request | read the body, look hashes up, persist hashes, insert the run, insert its products, answer |
| MySQL state store (`internal/state/mysql_store.go`, `migrations/0001_init.sql`) | tables `product_state`, `runs`, `run_products`, `idempotency`, `tenants` | one SQL statement per method; no transaction spans two methods |
| Run queue (`internal/state/mysql_runs_queue.go`) | `runs.status`, row locks of the claiming transaction | `ClaimRuns`, `CompleteRun`, `FailRun` |
| Worker service (`internal/worker`, `internal/execute`, `cmd/worker`) | the claimed batch and the current run | poll, claim, load the products, call `OnExecute`, record the outcome |
| HTTP gateway (`internal/api/middleware`, `cmd/api/main.go`) | the tenant in a request's context; the cached answers | authenticate, choose the tenant, replay or run the handler and cache its answer |
| Validation, normalization, parsing (`internal/ingest/validate.go`, `hash.go`, `parse_products.go`) | none | decide validity, canonical form, hash |
| Legacy ingest endpoints (`internal/ingest/http_*.go`, `idempotency_*.go`) | in-memory maps | an earlier version of the handlers, not wired by `main` |
| Migrations (`internal/migrate`) | table `schema_migrations` | check, execute, mark |
| In-memory store (`internal/state/memory_*.go`) | maps under one mutex | the `Store` interface for tests and local use |
| Run reports (`internal/api/handlers/debug_runs.go`) | none | list runs, show a run |
| Start-up (`cmd/*/main.go`, `internal/config`, `internal/state/factory.go`) | the configuration | open the store, migrate, create the debug tenant, serve or poll, exit on errors |
| Tokens and key tools, connection pools, logging | none | - |

How they interact: a call passes `AuthMiddleware`, `TenantMiddleware` and, on the
two upsert endpoints, `IdempotencyMiddleware` before it reaches a handler.  The
handler and the workers never talk to each other; they share the tables.  The
worker calls the channel push through the hook `Executor.OnExecute`, which the
repository leaves nil.

What is hard: requests run in parallel goroutines and workers in parallel
processes, and all of them interleave at every SQL statement; a handler makes
many statements without a transaction, so it can fail or die between any two; the
claim of a batch is a transaction whose effect may be reported as an error; a
worker may die with claimed runs in hand; cached answers are read before and
written after the handler, and expire.

What makes each part correct:

- *handlers*: an answer 200 means everything is stored; the counters of a run
  agree with its products; a product is called unchanged only if its content was
  scheduled before; every request is answered;
- *queue and workers*: a run has one owner, is pushed at most once, is pushed
  whole, and is completed or failed in the end; only enqueued products of the
  right tenant reach a channel;
- *validation and hashing*: a product is accepted exactly when it is complete,
  although errors of decoding are dropped, and "unchanged" means unchanged;
- *reports*: the two reads of a detail fit together, a list is the reader's
  tenant's newest runs, and no later read is behind an earlier answer;
- *start-up*: a migration is marked only when it is complete, nobody serves
  without the schema, and processes that race come up in the end;
- *gateway*: answers come only to authenticated calls, a retry is replayed and
  never crosses tenants, endpoints or keys; the tenant is the token's.

Hazards are listed one by one, with the line where each bites and the properties
aimed at it, in `PROJECT.json`.

## 2. The modules

| Module | Builds on | Used by |
|---|---|---|
| `Processor` | - | `StateStore`; `LegacyIngest` (by `INSTANCE`) |
| `StateStore` | `Processor` | `UpsertHandlers`, `Worker`, `MemoryStore` |
| `UpsertHandlers` | `StateStore` | `Conductor`, `Upload` |
| `Worker` | `StateStore` | `Conductor` |
| `RunQueue` (abstract) | - | `Conductor` (by `INSTANCE`) |
| `Conductor` | `UpsertHandlers`, `Worker` | `MCConductor`; `ConductorProofs`, then `DataProofs` |
| `Upload` | `UpsertHandlers` | `MCUpload`; `UploadProofs` |
| `Gateway` | - | `MCGateway`; `GatewayProofs` |
| `MemoryStore` | `StateStore` | `RunReports` |
| `RunReports` | `MemoryStore` | `MCRunReports`; `ReportsProofs` |
| `Products` | - | `LegacyIngest`; `ProductProofs` |
| `LegacyIngest` | `Products` | `MCLegacyIngest`; `LegacyProofs`, with `ProductProofs` |
| `Startup` | - | `MCStartup`; `StartupProofs` |

**Processor** - `ComputeDisposition`, `ProcessProduct`, `CountResult` and the
status a run starts with, as operators.  A product is its key, its content hash
and whether it is valid; SHA-256 is taken to be injective.

**StateStore** - the tables as functions and one operator per statement, with
what makes a statement fail: the primary key of `run_products` (a body with a key
twice, two lines that cannot be parsed) and the foreign key of `runs` on
`tenants`.  Keys stand for what the collation of the column takes for equal.  `product_state` has no foreign key, so hashes of an unknown tenant are
accepted.  `ListRunProducts` keeps its hidden cap (`ListCap`, 2000 in the code).

**UpsertHandlers** - both handlers.  `pc[r]` is the place in the handler of
request `r`, and an action is the code between two Store calls:

| Action | Code |
|---|---|
| `Accept` | method, encoding, run id, decoding of the array |
| `ProcessItem`, `LookupFails` | `ProcessProduct` with its lookup |
| `UpsertLine` (bulk), `PersistRow` (json), `UpsertFails` | `UpsertProductHash` |
| `ScanFails` | `scanner.Err()` of the bulk handler |
| `BuildRun`, `InsertRun`, `InsertRunFails` | the run record and its insertion |
| `InsertRow`, `InsertRowFails` | the loop inside `InsertRunProducts` |
| `Respond` | the answer 200 |
| `ApiCrash` | the process dies with all requests in flight |

A failing write chooses whether the statement took effect, because an error may
stand for a lost acknowledgement.

**Worker** - `Runner.tick` and `Executor.Execute` of any number of processes.
The claim is two steps, `SelectRuns` (the `SELECT ... FOR UPDATE`, which waits for
rows another transaction has locked) and `CommitClaim` (the updates and the
commit); `GetRun`, `LoadProducts`, `OnExecute` and `RecordOutcome` follow.
`ClaimFails` ends the process as `main` does, `OutcomeDropped` is the ignored
error of `CompleteRun` and `FailRun`, `WorkerCrash` is a kill or a shutdown (`main`
does not wait for the tick), `WorkerStart` the restart.  `pushes` is a history
variable, `channel` the external system's state.

**RunQueue** - the abstract specification: a queue with atomic `Insert`, `Claim`,
`Execute` and `Resolve`, which is how the in-memory queue works under its mutex.

**Conductor** - the composition and its properties.  `Queue` instantiates
`RunQueue` with `status` read off table `runs` and `attempts` off `pushes`.
`arrivals` is history: the runs in the order they were stored, which is not the
order of their stamps when requests overlap.

**Gateway** - the three middlewares in the order of `cmd/api/main.go`, table
`idempotency`, the clock and expiry.  The handler is a single step here; an answer
is identified by the call whose handler wrote it, as it contains a fresh run id.
The clock is finer than a second: `Rounded` is what the `TIMESTAMP` column makes of
`expires_at`, and `Loss` the most a record can lose by it.

**Upload** - the composition of the idempotency middleware with the handlers of
`UpsertHandlers`: calls carry bodies, so a key that is reused for another body, a
body whose reading error the middleware drops, a failure that is cached and an
answer that is lost before it is cached all happen.  Calls overlap.  `log` is history:
the lookups and the writes of product hashes in their order, which is what "scheduled
again" is about.  Expiry is left to `Gateway`.

**MemoryStore** - the methods of the in-memory store that differ from their MySQL
counterparts, over the state of `StateStore`: atomic, without foreign keys, unique
rows or caps.

**RunReports** - the endpoints that list runs and show one, over either store,
between the steps of uploads and workers and of each other.  A list is one read
(`ListRuns`), a detail two (`GetRun`, `ListProducts`), and `reading[v]` is what reader `v`
has between them.  `Clamp` is the handlers' treatment of `?limit=`, `StoreLimit` the
second one inside the MySQL store.  Uploads and workers are cut down to the order of the
writes a reader can see: a claim is one step in memory (`Claim`) and a transaction in
MySQL (`LockRuns`, `EndClaim`), and `Resolve` may come with or without a push.  `seen`
is history, one answer that a client remembers.

**Products** - the path of one product: decoding (`ParseSingleProduct` and the
`Decode...` operators, one per Go type, each leaving the zero value, or the part
that could be decoded, where the error is dropped), validation
(`ValidateProductBase`, `ValidateChannelControls`, `LooksLikeDecimal` with
its loop as the recursive function of `Scan`) and the normalized form
(`HashNormalized`; a sorted list is the ascending one among the rearrangements).
Strings are sequences of code points and objects lists of members, since the decoder
keeps the last of two members in a map, decodes both, one over the other, into a
struct, and there ignores the case of their names.  Two functions of `encoding/json` are
constants: `Fold`, a name as it is compared with a field's, and `AnyValue`, what becomes
of a value in an attribute.
`Complete`, `IsDecimal` and `SameContent` are the reference definitions they are compared
with.  `IsDocument` says what a JSON decoder may yield in the places the code reads.

**LegacyIngest** - the self-contained endpoints of `internal/ingest`, which neither
`main` nor a test builds: the two handlers over `MemoryHashStore`, and the
middleware with `MemoryIdempotencyStore`, whose `Get` is a read (`Lookup`) and,
after another lock, a deletion (`DeleteExpired`).  `content`, `expired` and the
fields `item`, `against`, `by` and `at` are history.

**Startup** - processes from `main` to the first request or poll: `StartApi` and
`StartWorker` (configuration, store, key), `Ensure`, `Check`, `Exec` and `Mark`
(`ApplyDir`, a file executed statement by statement, since MySQL commits each
`CREATE TABLE` on its own), `Bootstrap` (the debug tenant), `Poll`.  Any error ends
the process (`Exit`), and the platform starts it again.

Definitions whose names contain an underscore (`Respond_Early`, ...) are
plausible bugs used to show that the properties can fail; no specification uses
them.

## 3. The runs

Passing runs:

| Run | Instance | Checks |
|---|---|---|
| `ingest` | 2 requests at once, 7 kinds of body, 1 worker, every fault and crash | `TypeOK`, `ChannelBacked`, `CanonicalBacked`, `SuccessPersisted`, `SummaryAddsUp`, `LoadsWholeRun` |
| `queue` | 3 runs of overlapping requests, 2 workers, batches of 2, 2 clock values, worker crashes and faults | `SingleOwner`, `AtMostOnce`, `OldestFirst`, `QueueRefined` |
| `live` | 2 requests and 2 workers without faults, under fairness | `UnchangedWasScheduled`, `RunsFinish`, `RequestsAnswered` |
| `gateway` | 3 calls of 5 kinds, dev and production, faults, a lifetime of 1, a second of 3, 3 clock values | `TypeOK`, `ReplayInScope`, `RetryIsReplayed`, `AnswersAuthenticated` |
| `upload` | 3 calls, 2 at a time, with one key or none, 3 bodies, a fault or a crash | `TypeOK`, `AnswerAccounts`, `RefusalSchedulesNothing`, `ScheduledOnce` |
| `startup` | 3 API processes and a worker, 2 migration files, every configuration, 2 crashes | `TypeOK`, `MarkedIsComplete`, `ReadyHasSchema`, `AllStart` |
| `reports` | 2 readers, 2 uploads of 3 kinds, 2 tenants, both stores, limits at their edges | `TypeOK`, `DetailAgrees`, `ListsNewestOwn`, `ReadsForward` |
| `legacy` | 3 calls: a long body of odd products, products side by side, one key | `TypeOK`, `ValidationExact`, `DeltaExact`, `StoredWasEnqueued`, `ReplayIsFresh`, `ExecutedOncePerKey` |

What some of them show. `queue`: a client that sends a second request after the
answer to the first, a second later, has its runs claimed in that order, whatever
else goes on and fails; but two workers that have claimed one each may push them in
either order. `upload`: an answer 200 accounts for every product of the call that
earned it, but with a key that need not be the client's own body, and a body cut off
on the wire may be accepted as whole; an answer 400 means that nothing was
scheduled; and however often a client repeats an upload after errors, crashes and
lost answers, a content is scheduled again only by a call that looked it up before
the first had written its hash, or after another content was written in between.
`startup`: racing processes make each other's `markApplied` fail and exit, and still
all come up. `reports`: what is answered is consistent although the run changes
between the reads, and who reads after an answer, his own or another's, never sees
less. `legacy`: dropped decoding errors never let an incomplete product through,
`Get`'s late deletion can throw a fresh record away (the property excludes exactly
that case), but without an expiry a finished call is never executed again.

Runs that show the code at odds with what the repository says of it:

| Run | Property | What happens |
|---|---|---|
| `early_claim` | `ExecutedWhole` | The run is visible to the workers before its products are inserted.  A worker claims it in between, hands `OnExecute` an empty or partial list and completes the run; the missing products are never pushed, because their hashes are already stored. |
| `lost_change` | `UnchangedWasScheduled` | A bulk body breaks off after a line whose hash is already stored.  No run is made, and the repeated body is answered "unchanged". |
| `stuck_run` | `RunsFinish` | A worker stops after the commit of a claim.  `ClaimTTL` is never read, so the run stays `processing` for good. |
| `token_tenant` | `TenantFromToken` | `main` wraps auth around the tenant middleware, which overwrites the token's tenant with the default one. |

`UnchangedWasScheduled` and `RunsFinish` thus hold when nothing fails (`live`) and
fail with a body cut off and with a worker that dies.

Three more disagreements have no run of their own:

- `ListRunProducts` of the MySQL store cuts every list at 2000 rows although the
  executor asks for 100000, so the rest of a larger run is never pushed.
  `LoadsWholeRun` holds in `ingest` with a cap the bodies stay within, and fails
  there with `ListCap = 1`.
- Two overlapping calls with one `Idempotency-Key` both miss the cache and both run
  the handler; `RetryIsReplayed` therefore speaks of later calls only.
- A comment in `validate.go` says that an enabled channel the service does not know
  does not fail the product; it does.  `Products` follows the code.

### Bounds

- Two requests in flight suffice for every read-then-write race on a hash; two
  keys, two hashes and two tenants let a property tell keys, contents and tenants
  apart.  `MixedShapes` holds a body for each way a handler can end, a duplicate
  key and an unknown tenant (tenant 2 has no row in `ingest`) included.
- `queue` has three runs and batches of two, so a batch may be full or not, and a
  second worker has something left to claim; `MaxClock = 1` gives runs of equal
  and of different age.  Its handlers have no faults, since `ingest` covers them.
  `OverlapBound` lets requests overlap where the queue can tell: while one has its
  stamp and is not stored yet, others come, are stored and claimed; and of two workers
  one is left running.
- `live` has no faults: with them `RunsFinish` is false (`stuck_run`).  It uses
  neither symmetry nor a clock.
- `gateway` has three calls: the one that fills the cache, one that overlaps it
  and a later retry.  `MaxNow = 2` with `TTL = 1` and `Second = 3` has expiries that are
  rounded up and such that are rounded down, and reaches the last instant of a record's
  life and the first after it.  That a lifetime is shorter than a second is a matter of
  the instance only: what counts is where in a second it ends.
- `upload` has three calls, the fewest that have an upload, a retry and another body in
  between, of which two may overlap (`MaxOpen`, `MaxInFlight`).  `Bounded`: one of them
  may go wrong, one be cut off and one have another content.
- `startup` has two files, of two statements and one, so that a process can die
  inside a file and between files; three processes, so that one may meet marks of
  two others.  `AnyConfig` leaves out only combinations the code does not tell apart.
- `reports`: three rows against a detail limit of two, two runs against a list limit
  of one, and limits below and above what is allowed.  By `OneRunInDetail` workers take,
  and details are read of, one of the two runs; by `ListsAreReads` a list nobody remembers
  is not followed up.  TLC checks a step, and the state it leads to, before it leaves
  it out, so every list and every detail of a state within the bounds is checked.
- `legacy`: `Amounts` is every string of up to three characters out of a digit, a
  sign and a point, which covers every transition of `looksLikeDecimal`; `Oddities`
  breaks one field of a good product at a time, with white space of several kinds, members
  in another case and members given twice.  Only google is enabled, as in
  `main`.
- Runs with finitely many calls and nothing that polls (`gateway`, `upload`,
  `reports`, `legacy`) end, and do not check deadlock.
- Symmetry is over requests, workers and calls, in runs of safety properties only.

### Fairness

`FairSpec` assumes weak fairness of the steps of each request in progress (a Go
scheduler serves every goroutine, and a Store call returns with a result or an
error) and of the steps of each worker, the restart after an exit included (the
ticker keeps firing, and services like these are restarted).  It assumes nothing
of clients (`Accept`), of the clock, of crashes or of faults.  `OnExecute` is
assumed to return.  No strong fairness is needed: a worker that waits for a row
lock waits for a transaction that is itself fair.

`Startup` assumes weak fairness of the steps of each process, starting it included:
`main` exits on every error and leaves the restart to the platform.  Crashes are
bounded by `MaxCrashes`; a failing `markApplied` is not a crash and may happen to
every process.

## 4. The proofs

The theorems hold for all sets of requests, calls, workers, processes, tenants,
keys, hashes, bodies and migration files, all limits and lifetimes, and with every
fault and crash the model has enabled, unless a hypothesis is stated.

| Module | Theorem | Statement |
|---|---|---|
| `ConductorProofs` | `TypeCorrect` | `Spec => []TypeOK` |
| | `SingleOwnership` | `Spec => []SingleOwner` |
| | `PushedAtMostOnce` | `Spec => []AtMostOnce` |
| | `ImplementsQueue` | `Spec => QueueRefined` |
| `DataProofs` | `HashesComeFromChanges` | `Spec => []CanonicalBacked` |
| | `ChannelsShowChanges` | `Spec => []ChannelBacked` |
| | `SuccessMeansStored` | `Spec => []SuccessPersisted` |
| | `SummariesAddUp` | `Spec => []SummaryAddsUp` |
| | `ClaimsOldestFirst` | `Spec => []OldestFirst` |
| | `AnsweredRunsLoadWhole` | `BodiesFit => (Spec => LoadsWholeRun)` |
| | `UnchangedIsScheduled` | `Undisturbed => (Spec => []UnchangedWasScheduled)` |
| `GatewayProofs` | `TypeCorrect` | `Spec => []TypeOK` |
| | `ReplayInScopeHolds` | `Spec => []ReplayInScope` |
| | `RetryIsReplayedHolds` | `Spec => []RetryIsReplayed` |
| | `AnswersAuthenticatedHolds` | `Spec => []AnswersAuthenticated` |
| `UploadProofs` | `TypeCorrect` | `Spec => []TypeOK` |
| | `AnswerAccountsHolds` | `Spec => []AnswerAccounts` |
| | `RefusalSchedulesNothingHolds` | `Spec => []RefusalSchedulesNothing` |
| | `ScheduledOnceHolds` | `Spec => []ScheduledOnce` |
| `ReportsProofs` | `TypeCorrect` | `Spec => []TypeOK` |
| | `DetailAgreesHolds` | `Spec => []DetailAgrees` |
| | `ListsNewestOwnHolds` | `Spec => ListsNewestOwn` |
| | `ReadsForwardHolds` | `Spec => ReadsForward` |
| `LegacyProofs` | `TypeCorrect` | `Spec => []TypeOK` |
| | `StoredWasEnqueuedHolds` | `Spec => []StoredWasEnqueued` |
| | `ReplayIsFreshHolds` | `Spec => []ReplayIsFresh` |
| | `ExecutedOncePerKeyHolds` | `Spec => ExecutedOncePerKey` |
| | `ValidationExactHolds` | `Spec => []ValidationExact` |
| | `DeltaExactHolds` | `Spec => []DeltaExact` |
| `ProductProofs` | `DecimalExact` | `LooksLikeDecimal(s) <=> IsDecimal(s)` for every string |
| | `ValidExact` | a decoded document is valid exactly when it is complete |
| | `HashExact` | two documents have one hash exactly when they have the same content |
| `StartupProofs` | `StartupTypeCorrect` | `Spec => []TypeOK` |
| | `MigrationsComplete` | `Spec => []MarkedIsComplete` |
| | `ReadyMeansSchema` | `Spec => []ReadyHasSchema` |

The only assumptions are the named `ASSUME`s of the modules, which TLC evaluates in
every run: `Requests` is finite, the sentinels (`NoHash`, `NoTenant`, `NoJob`, `None`)
are not real values, limits are positive, and every request body is a `Shape` whose
valid products have a key.  For `Startup`: no process is both API and worker, there
is a migration file, each has a statement, and the first creates table `runs`.  For
`LegacyIngest`: what the clients send are lists of documents (`IsDocument`: strings are
lists of code points, arrays and objects lists), `NoProduct` is not a product, and the
hash of a product is not the empty string (`BodyAssumption`); for `Products`: a missing
channel block is not a lifecycle state (`StateAssumption`).

Some theorems have a hypothesis on the constants, because the code does not keep the
promise without it:

- `BodiesFit` (`AnsweredRunsLoadWhole`): no body has more products than the executor's
  limit and the cap of `ListRunProducts`.  Faults and crashes stay enabled;
- `Undisturbed` (`UnchangedIsScheduled`): no failing Store call and no API crash,
  every tenant has a row, bodies arrive whole and hold no key twice.  Each excludes a
  way for hashes to be stored and the run to be lost; `lost_change` shows one.  Any
  number of requests may overlap, and workers may crash.

The instance `ingest` satisfies the first and `live` the second, so the hypotheses are
not empty.  `MaxInFlight`, `MaxOpen` and the bounds on clocks are any numbers.  Two
functions of `encoding/json`, `Fold` and `AnyValue`, are any operators: the theorems about
`Products` hold whatever names are taken for equal and whatever is made of a number.

### Ownership and the queue

The argument.  `TypeOK` is not inductive: indexing `out[r][cur[r]]` needs to know
where the loop index may point (`CursorInv`), and the worker's steps need
`job[w]` to be a run exactly while one is being executed (`JobInv`).  `SingleOwner` and
`AtMostOnce` are not inductive either, and rest on four facts together:

- `BirthInv`: until `InsertRun` a request has no run, so a run is inserted once,
  and with a status an ingestion run can have;
- `ClaimInv`: a worker inside the claim's transaction has selected runs that are
  still pending, and after the commit all it holds are `processing`;
- `DisjointInv`: the sets of runs in the hands of two workers are disjoint (the
  row locks give this for the selected ones, the status for the claimed ones);
- `PushInv`: a run has been pushed only if it left `has_changes`, at most once,
  and not yet if a worker holds it before its call of `OnExecute`.

`ImplementsQueue` maps every step of the handlers and workers to a step of
`RunQueue` or to a stutter, using the same invariant: `CommitClaim` and a
`ClaimFails` that took effect are `Claim`, `OnExecute` is `Execute` and
`RecordOutcome` is `Resolve`; a dropped outcome and a crash are stutters.

### Stored data

The theorems of `DataProofs` rest on the fact that a request's results only grow
(`OutGrows`) and on four more invariants:

- `RowsBacked`: every hash a handler holds among its results is backed by an
  enqueued one.  `CanonicalBacked` needs it because a handler writes the hash of an
  unchanged product long after it was looked up; `RowsBacked` in turn needs
  `CanonicalBacked` at the moment of the lookup, so the two go together;
- `PersistInv`: `run_products` is a prefix of the results, and a stored run has the
  tenant and the summary of its request;
- `LoadInv`: what a worker has read are enqueued results of the run it executes;
- `CountInv`: the counters agree with the results after every product.  Its step
  counts a set of indices with the library's cardinality theorems.

### Order, pages and unchanged products

The second half of `DataProofs` builds on the invariants above.

- `OldestFirst` is not inductive, since a claim selects in one step and commits in
  another.  `BatchInv` says that a transaction has selected, with a run, every pending
  one that precedes it, until it commits: what is stored meanwhile may have an older
  stamp, as requests overlap, but is stored later (`ArrivalInv`) and so precedes none.
- For `LoadsWholeRun`, `PersistInv` gives that an answered run has all its rows, and
  `ListsAll` that a list within the limits is whole.
- `SmoothInv` carries `UnchangedWasScheduled`: a request that is over was answered 200 or
  never had results (`NoneFails`), its results are those of its items in order (`ResultsInv`), and
  a run is marked for pushing exactly if something in it was enqueued (`PushesInv`).
  A stored hash then has an enqueued row (`CanonicalBacked`) in a request that is in
  flight or has its run.

### Gateway

`GatewayInv` adds to the properties: `CacheInv`, a record repeats the answer of a call
that is over and had this scope; `StoredInv`, once an answer was cached its scope
has a record that lives at least as long, but for what rounding takes, because an
overlapping call can only replace it by a younger one (`RoundedFacts`: rounding takes
no more than `Loss`) and expired rows are only ignored, never deleted; `ReplayInv`, a
replay repeats a call that is over, so its answer can no longer change; `TokenInv`,
what is past `AuthMiddleware` in production has a token.  `RetryIsReplayed` follows
from `StoredInv` at the moment of a miss.

### Upload

`UploadInv` ties a call's place in the middleware to that of its handler (`StageInv`),
the handler's place to its results, its run and its rows (`HandlerOK`), an answer to
the call that earned it (`GivenInv`) and a cached answer to a call that is over
(`CacheInv`).  `ScheduledOnce` needs `OnceInv` on top: what has a row in `run_products` was
written, and the write is in the log (`RowsOK`); a hash in the log is still the stored one
or was overwritten later, and so a lookup after a write enqueues the same content only if
another was written in between (`HistoryInv`).

### Run reports

`ReportsInv`: a stored run has its upload's tenant and size and a prefix of its rows
(`RunOK`); what `GetRun` told a reader remains true of the run but for the status, which
only moves forward, and is not behind an answer given before it (`ReadInv`, `NotBehind`);
no run is behind the remembered answer (`SeenInv`); and the runs of an open claim are
still pending, so that its commit takes none back (`LockedInv`).  The lists are sorted
choices, of which the proofs use that the result is a permutation in order, and count it
with the library's cardinality theorems.

### Legacy ingest

`LegacyInv`: a record holds the final answer of a finished call with its key
(`RecordInv`, `ReplayInv`), the key of a finished call has a record or had one that
expired (`DoneInv`, which is what `ExecutedOncePerKey` needs), and every row and stored
hash was enqueued by somebody (`RowInv`, `HashInv`).  Up to here the proofs use of
parsing and hashing only that an accepted product has a key and a hash.

`ExactInv` adds what the results say: a stored hash is that of the content it stands for,
which is a document somebody sent (`ContentInv`); a JSON body that is being processed was
parsed as a whole, so that its items are not checked again (`ParsedInv`); a row is
rejected or not as validation says, and 'unchanged' exactly if its hash is that of what it
was compared with (`VerdictInv`).  `ValidationExact` and `DeltaExact` then follow from
`ValidExact` and `HashExact`, state by state.

### Products

Documents have any size, so these proofs are inductions.  The induction theorems of the
library take a predicate, which the provers cannot instantiate; `SetInduction` states the
principle for a set, and is proved from the minimal element that a well-founded order
gives (`WFMin`).  Four facts are proved with it:

- `ScanInvariant`: after n characters of `looksLikeDecimal`'s loop, the flag says whether
  they are digits with at most one point, and the counters are zero exactly when there was
  no point and no digit.  That the loop's states exist at all (`ScanExists`) is an
  induction too, since a recursive function is a `CHOOSE`.
- `FieldExact` and `ControlExact`: the members of an object, decoded one over the other,
  leave the last string given for a field, and the state of a channel block is the last
  one given in any of its controls.
- `SortExists`: every list of strings has an ascending rearrangement, by insertion.  It
  needs that the order of Go strings is total (`OrderFacts`, from the first position where
  two strings differ).
- `SortedUnique`: two ascending lists that hold the same strings equally often are equal,
  by comparing their last elements and dropping them.

`LinksExact` combines the last two: sorted, two lists of links are equal exactly when they
hold the same links equally often.  `MapExact` needs no uniqueness, as the sorted pairs of
a map give the map back.  `HashExact` puts the fields together.

### Start-up

The theorems of `StartupProofs` rest on one invariant, `StartupInv`, in three
parts.  `MarkedIsComplete` alone is not inductive, because `Mark` looks at nothing:

- `LoopInv`: the statements a process has behind it in its file took effect, and
  at `Mark` the whole file did.  Other processes cannot take that back, since
  tables are only added;
- `MarkInv`: marks are downward closed and only on complete files, and all files
  before the one a process looks at are marked, by whomever;
- `ReadyInv`: a process past the migrations has seen every file marked.

### Only model-checked

- The liveness properties `RunsFinish`, `RequestsAnswered` and `AllStart`: fairness is
  out of the prover's reach.

Every invariant and every other action property of the passing runs is proved.

`TypeOK` of every module, the invariants named above and the properties were checked by
TLC on the instances of section 3 before they were proved; `LegacyInv`, which is
slow to evaluate, on a smaller instance of `LegacyIngest` than `legacy`.

## 5. What is not modelled

- The RSA and JWT library: a token is valid for a tenant or not valid.  Key tools,
  connection pool settings and logging have no state of their own.
- The product-hash and idempotency methods of the in-memory store, which do what
  their MySQL counterparts do, without foreign keys.
- Two services configured with the memory backend have a store each, so a worker
  never sees the API's runs; `RunReports` gives both one store, as the repository's
  tests of the worker do.
- What `encoding/json` makes of a value in an attribute (`AnyValue`): numbers become
  `float64`, so two integers above 2^53 can have one hash.  Wording of issues and warnings
  is left out, and so is the trimming of unknown keys.
- The answers 405 and "misconfigured" of the handlers, which touch no state.
- Lock waits inside a claim's `SELECT ... FOR UPDATE`: it waits until nobody holds a
  pending run and then selects in one step, while InnoDB locks row by row.
- The collation of `product_key`, which ignores case in MySQL: a key of the model is a
  class of equal ones.  The in-memory store compares exactly.
- The order of runs of one second, which the code leaves open and the model too; and
  what a run with more rows than `ListCap` shows and pushes, which is a part.
- Uniqueness of run ids (128 random bits) and injectivity of SHA-256 are assumed.
- Graceful HTTP shutdown is a crash that happens to find few requests in flight.

## 6. Plan

1. *Done*: `Processor`, `StateStore`, `UpsertHandlers`, `Worker`, `RunQueue`,
   `Conductor`, `Gateway`, and the theorems about ownership, the queue and the
   stored data.
2. *Done*: `Upload`, `Startup`, `MemoryStore`, `RunReports`, `Products`,
   `LegacyIngest`, and the theorems about migrations.
3. *Done*: the theorems about `Gateway`, `Upload`, `RunReports`, `LegacyIngest`, and about
   order, pages and unchanged products in `Conductor`, and what parsing, validation and
   hashing compute on documents of any size (`ProductProofs`): every safety property of the
   passing runs is proved.
4. *Done*: strings, white space and member names in `Products` as the decoder treats them;
   overlapping requests in `OldestFirst` and `ScheduledOnce`, whose theorems need no
   hypothesis any more; overlapping readers and claims in steps in `RunReports`; the
   rounded expiry in `Gateway`.
5. Left: a weaker hypothesis for `UnchangedIsScheduled` (failures of requests that do not
   hold the product), and lock waits row by row in `SelectRuns`.
