# Verification of nordicintel-storage-api

TLA+ models of the storage API, TLC runs that check them on small instances, and
TLAPS proofs. Line numbers are those of the files under `src/`.

## The system

The service stores *datasets*: sparse cubes of numbers, texts and statuses. A
dataset is identified by a provider code and a dataset code, both normalized.
A client replaces a whole dataset in one `POST`, deletes it, and reads it whole
or in part. The parts and what they have to get right:

| Part | State | Operations | What makes it correct |
|---|---|---|---|
| dataset store, `internal/store` | five tables in PostgreSQL; per call: a connection, a transaction, locks, a snapshot | `Replace`, `Delete`, `GetSummary`, `GetStructure`, `GetData`, `Query`, `ListDatasets`, `ListProviders`, `Ping` | every call is atomic; a dataset is always one writer's whole submission; spellings persist; no two writers of one identity; every call ends |
| storage schema, `internal/migrations/sql` | keys, unique constraints, cascades, checks | — | `observations` has no foreign key: its integrity is the store's duty |
| cube arithmetic, `internal/domain/index.go` | none | `CheckedProduct`, `Strides`, `Coordinates`, `CellIndex` | exact sizes without overflow; coordinates and indexes are inverse |
| payload, `internal/domain/payload.go` | none | `ParseReplacement`, `ParseSelection` | every value is stored under the names it was submitted for; accepted data passes the schema's checks |
| selection, `internal/domain/selection.go` | none | `ResolveSelection` | exactly the selected cells, in the query's order |
| normalization, `internal/domain/normalize.go` | a candidate key, a round | `NormalizeCode` | a key is its own normalization |
| strict JSON, `internal/jsonx` | the open objects and their keys | `DecodeStrict` | duplicate keys, unknown fields, trailing content are refused |
| presentation, `internal/presentation` | none | `DataResponse`, `StructureResponse` | no representation loses, moves or invents a value |
| handlers, `internal/httpapi` | per request: deadline, response status | ten routes | authorization, limits, deadlines, one answer |
| configuration, `internal/config` | none after startup | `Load`, `Validate` | bounds the other parts rely on |
| migrations, `internal/migrations`, `cmd/migrate` | schema version, session lock | `Run`, `CheckServer`, `CheckVersion` | serialized runs; the API starts only on its version |
| lifecycle, `cmd/api` | process, listener, pool | start, serve, signal, shut down | bounded graceful shutdown |
| release gate, `tools/millioncell` | the driver, a reading goroutine | nine steps | a pass can be trusted, a failure has a cause, the gate ends |
| docs, scripts, CI | none | — | — |

Handlers call the store with a context whose deadline is `DB_TIMEOUT`; the store
calls `ResolveSelection` inside the read transaction of a query. Everything that
concurrent requests share is in PostgreSQL and in the connection pool. The hard
behaviours are there: statements of concurrent transactions interleave, writers
wait for an advisory lock, for an uncommitted insert of the same provider and
for row locks while they hold connections, a request is abandoned at its
deadline while its server session lives on, and the answer to `COMMIT` can be
lost. The pure parts are hard in another way: the same cell has a number in the
submission's order, another in stored order and a third in a query's order.

`PROJECT.json` lists the hazards with their lines and the properties that cover
them.

## Modules

| Module | Models | Role |
|---|---|---|
| `DatasetStore` | `postgres.go`, the schema's keys and cascades | the detailed specification: one action per statement |
| `AtomicStore` | what the store promises | the abstract specification: one step per call |
| `DatasetStoreRefinement` | — | refinement mapping from the first to the second |
| `DatasetStoreProofs` | — | type correctness of `DatasetStore`, its inductive invariant and safety theorems; that it implements `AtomicStore` |
| `Cube` | `index.go`, `remapCellIndex`, `selection.go` | arithmetic of cubes, as operators |
| `CubeProofs` | — | sizes are exact, coordinates and indexes inverse; lemmas on cubes for `PipelineProofs` and `AcceptanceProofs` |
| `Payload` | `payload.go` | from decoded JSON to stored rows |
| `Presentation` | `presentation.go` | from a view to a response |
| `DatasetPipeline` | the handlers' data path | composes `Cube`, `Payload` and `Presentation` |
| `PipelineProofs` | — | its safety theorems |
| `HttpRequest` | `server.go` | one request, from the route table to the log line |
| `HttpRequestProofs` | — | its safety theorems |
| `StrictJson` | `json.go` | both passes of `DecodeStrict` |
| `Normalize` | `normalize.go` | the bounded search for a key |
| `Intake` | `payload.go`, up to the codes | composes the two above: a document, then its codes |
| `IntakeProofs` | — | its safety theorems |
| `Config` | `config.go` | the steps of `Load`, one per variable |
| `Service` | `cmd/api/main.go` | the process, which starts with `Config`; its server, handlers and pool |
| `ServiceProofs` | — | its safety theorems |
| `Migration` | `migrations.go`, `downgrade.go`, `cmd/migrate`, `store.Open` | deployment jobs and APIs of several releases on one database |
| `MigrationProofs` | — | its safety theorems |
| `Acceptance` | `tools/millioncell/main.go` | the release gate against an API that is right or wrong |
| `AcceptanceProofs` | — | its safety theorems |
| `MC...` | — | instances for TLC |

Definitions whose comment begins "Mutant of" are not part of the model: they are
plausible mistakes in the definition that follows, kept to show that the
properties notice them.

### DatasetStore

Each request has a program counter `pc` whose values are the statements of its
store call, in the order of the code. `db` is what is committed; `ins[r]` and
`del[r]` are what r's transaction has written and not committed; `snap[r]` is
the snapshot of a `REPEATABLE READ` transaction; `holder` the owner of each
transaction advisory lock; `tx[r]` the server's view of r's transaction, which
outlives the request when it is abandoned. A request stands also for every
identifier and spelling it writes: the dataset it creates has r as
`dataset_id`, so that "whose row is this" is a comparison.

| Code | Actions |
|---|---|
| `Replace`, postgres.go:228-352 | `Begin`, `AdvisoryLock`, `InsertProvider`, `SelectProvider`, `SelectDataset`, then `InsertDataset` or `ClearObservations` and `ClearDimensions`, then `InsertStructure`, `CopyObservations`, `UpdateDataset`, `Commit`, `ServerCommit`, `Ack` |
| `Delete`, postgres.go:354-389 | `Begin`, `AdvisoryLock`, `DeleteObservations`, `DeleteDataset`, `Commit`, `ServerCommit`, `Ack` |
| `GetStructure`, `GetData`, `Query` | `Begin`, `ReadSummary`, `ReadDimensions`, `ReadCategories`, `ReadCells` or `ReadBatch`, `Finish` |
| `GetSummary`, `ListDatasets`, `ListProviders` | `Begin` and one action: one autocommit statement |
| error returns | `Fail` inside the statement, then `Rollback` (the deferred one, which has no deadline) |
| deadline, cancelled client, broken connection | `GiveUp`; later `ServerAbort`, or `ServerCommit` if `COMMIT` was sent |

What is abstract: one dimension row and one category row stand for a structure;
numbers, texts and statuses of a cell are the name of the request that wrote
them; batches of a query are chosen in any order. What is assumed of
PostgreSQL: `READ COMMITTED` statements see what is committed when they start;
an insert waits for an uncommitted insert of the same unique key; row locks;
locks are released when the transaction ends, whoever ends it; the database
clock advances between two updates (`clock_timestamp()` has microseconds).
Advisory keys are 64 bits of a SHA-256 of the identity (postgres.go:542): any
function from identities to keys is allowed, so that two identities may share a
key. A session that still waits for a lock when its request gives up is modelled
as one that never takes it. A crash of the API is every request giving up; a
crash of the database is that and every session aborted.

### AtomicStore and the refinement

`AtomicStore` has one map from identities to datasets and no transactions. A
call takes effect at one instant between its arrival and its answer; a call that
was reported as failed takes effect at most once, whole, possibly later. The
mapping puts the instant of a write at `ServerCommit`, of a refused creation at
the statement that finds the dataset, of a transactional read
at its first statement, of an autocommit read at its statement.

### Cube, Payload, Presentation, DatasetPipeline

Codes are pairs of a spelling and a key; keys are numbers in their bytewise
order. `Payload` starts from decoded JSON: a channel is absent, null, a scalar,
an array or an object, and an entry is null, malformed or a value.
`sort.Slice` is
`SortByKey`, which tells the order and not the algorithm: the k-th key has k - 1
smaller ones. `RemapCellIndex` is the fused loop of payload.go:466-481, a fold whose state is
the loop's. `DatasetPipeline` has one action per handler: `Replace` parses and
stores a submission, `GetData` and `Query` answer from what is stored. Its
properties are told in other terms than the code: the cells of a cube are
numbered in the lexicographic order of their coordinates, counted and not
computed from strides, and a cell is named by one category of each dimension.

### HttpRequest

One request is a record of what the code tells apart: route, method, token,
query string, media type, kind of path, declared and real length of the body,
kind of content. `Dispatch` is the route table and the method check; `Checks`
gives the checks of each handler in the order of its source, and each check is
an action that goes on or answers: `Authorize`, `ValidateNoQuery`, `ReadFormat`,
`RequireJSON`, `PathCode`, `PathSpelling`, `ReadBody`, `Parse`. `StoreReturns`
takes any result that `DatasetStore` allows, with or without an effect.
`WriteHeader` and `WriteBody` go through `responseRecorder`; `Cancel` is the
request's context (client or deadline); `Panic` may come at any step and
`Recover` is the deferred function; `Log` its last lines.

### StrictJson, Normalize, Intake

`StrictJson` reads one token per action. The recursion of `validateValue` is a
stack, one frame per call, with the keys that call has seen; `Decode` is the
second decoder, with the way `encoding/json` matches names. `Normalize` searches
a key by rounds; the Unicode tables are constants, functions from a character to
its replacement. `Intake` puts them in the order of the parsers of
`payload.go`: no code is normalized before its document is decoded.

### Config and Service

`Service` extends `Config`: `LoadStep` reads one variable or validates, and
`config.DB_MAX_CONNS` is the size of the pool. `phase` is the place of `run` in
its source (`loading`, `opening`, `opened`, `selecting`, `draining`, `closing`,
`waiting`), `server` the goroutine of `ListenAndServe`, `errors` its channel. A
request goes through a connection that is accepted, a header that is read and
the moment at which `net/http` counts it; `cut` are those whose connection was
closed under them. `ClosePool` and `PoolClosed` are the deferred
`database.Close`, which waits for acquired connections.

### Migration

`pc[j]` is the place of a job in `Run` (or `MigrateTo`), `session[j]` what its
session does at the server, which goes on when the job is gone: a lock may be
granted to, and a commit done for, a process that died. `pending[j]` is a
migration applied and not committed; `version` and `schema` are what is. Each
job has the number of migrations its release embeds and its target, so that
older releases meet newer databases. `api` is `store.Open` at a start.

### Acceptance

`Script` is the list of steps with the status each must have, `Accepts` what a
step checks of an answer. The expectations are translated (`Want` for the
reordered subset); what the API answers comes from `Cube`, so that an
expectation that is wrong fails the gate against a right API. `fault` is what is
wrong with an API. `flight` is the streamed replacement as the API sees it, with
its body whole or not and its connection open or not.

## Runs

| Run | Instance | Shows |
|---|---|---|
| `writers` | three creations, replacements, deletions of one identity, two connections, any request abandoned at any statement | `NoOrphans`, `WholeDatasets`, `OneWriterPerIdentity`, `UpdatedAtAdvances`, `TypeOK` |
| `readers` | two writers against structure, data and query calls; queries of three cells in batches of two | `ReadersSeeOneWriter`, `NoInternalError`, `ImplementsAtomicStore` |
| `neighbours` | two providers, three identities, refused creations, summaries, listings | `NoInternalError`, `SpellingPreserved`, `ImplementsAtomicStore` |
| `waiting` | three first writers of one provider, two lock keys colliding, two connections, under fairness | `EveryRequestEnds` |
| `failed_write` | two writers of one identity | a counterexample to `FailedWritesLeavePriorState` |
| `cube` | all sequences of up to four sizes from 0 to 4, four limits, largest integer 31 | `ProductIsExact`, `CoordinatesInvertCellIndex` |
| `pipeline` | submissions of one, two and three dimensions in every order, in all representations, valid and not; queries in every order | `StoredAsSubmitted`, `RowsSatisfyChecks`, `QueryAnswersSelection`, `ResponseMeansView` |
| `request` | every route, method, token, query, media type, kind of path; bodies around a limit of two bytes; every result of the store; a client that leaves and a panic at any step | `CallsAreAcceptable`, `WholeBody`, `AnswerTellsEffect`, `OneAnswer` |
| `intake` | every document of up to nine tokens over three keys; then two codes, under tables in which rounds shrink, grow, chain and circle | `DuplicatesRefused`, `OneValue`, `KeysAreIdentities`, `KeysFitColumns` |
| `service` | environments at every bound; two requests, pools of one and two, failing starts, two signals at any moment | `OpenedAsAsked`, `NoTransactionCut`, `CleanExitAnswersAll`, `SignalEnds` |
| `migration` | jobs of two releases and a downgrade of a test, any of which may die anywhere; an API of each release | `NoConflict`, `SchemaMatchesVersion`, `SuccessMeansSchema`, `ServedSchemaStays`, `ForwardOnly`, `JobsEnd` |
| `acceptance` | the gate with three categories a side, six APIs, unanswered requests, a concurrent reader, an abort that comes too late | `TrustedReport`, `FailsForCause`, `DriverEnds` |

Why the bounds are enough. Three requests give a writer that finished, one in
its middle and one that waits or reads; the errors the store guards against
(two writers past the same check, a reader between two commits, a replacement
over an abandoned one) need two or three. Two structures and two or three cells
tell one writer's content from another's and from a mixture; three cells and a
batch of two give a full and a partial batch. Two connections for three
requests make the pool a resource that is waited for. A cube of 2, 1 and 3
categories in three dimensions has orders that are not their own inverses,
which two dimensions of two categories do not have, and tokens tell all its
cells apart. The largest integer of `cube` is exceeded by products of its sizes.

A limit of two bytes has bodies below it, at it, one byte over it and further
over it. Nine tokens hold an object in an object with a key of the outer one
after it (seven), and two neighbours with a key each. Two codes are a spelling
and its key; with a bound of three rounds, one chain converges in the last round
that may and another one needs one more. Two requests and one connection have one that holds
the connection and one that waits, while the shutdown sees a third state only in
requests that are over. Integers of four and six bits wrap as those of 32 and 64
do. Jobs that interfere do so in pairs; the third, which goes down, meets two
that go up, of which one is older than the database. Three categories a side are
the first whose reversed order has a middle.

`CHECK_DEADLOCK FALSE` is only used for `cube` and `pipeline`, in which a
behaviour ends after its answer. In the store a deadlock would be a real one
(`Terminating` is enabled when every request is answered); so it would be in the
other components, whose last states step to themselves. In `migration` an API can
always stop or start: that no job waits for ever is `JobsEnd`.

**Fairness.** Weak everywhere, and each time only of what the scheduler, the
server or a deadline of the code guarantees.

- `waiting`: every request that can run its next statement does so and the
  server ends every session: goroutines and server processes are scheduled, and
  PostgreSQL ends the session of a client that is gone. Each request runs once,
  so that what it waits for is freed by a finite number of others. `GiveUp` has
  no fairness: requests end without the help of the deadline.
- `migration`: a job that is there takes its next step; the server grants a lock
  that is free, does a commit it was sent, and ends an idle session whose client
  is gone. Nobody has to give up, and nothing is assumed of a session that dies
  while it waits: its lock may still be granted to it.
- `service`: `run` is scheduled and its shutdown deadline passes
  (main.go:75); a store call ends, because its context has a deadline. Nothing
  is assumed of clients, nor of handlers outside the store.
- `acceptance`: the driver's goroutines run and its client has a timeout
  (main.go:83). Nothing is assumed of the API.

## Disagreements

README.md:41 of the repository says "Failed writes leave the prior state
visible." `Replace` reports the error of `tx.Commit(ctx)` (postgres.go:348) as a
failure. When the deadline passes or the connection breaks after `COMMIT` was
sent, the server may have committed, or commit later: the client has been told
503 or 500 and its data is visible. `failed_write` shows it. What does hold is in
`AtomicStore`: such a write takes effect at most once and whole.

Four more were met while modelling. They are not among the runs of
`PROJECT.json`; each has a configuration that shows it.

| Configuration, module, property | The repository says | The code does |
|---|---|---|
| `unknown_fields`, `MCIntake`, `UnknownRefused` | "Unknown fields, duplicate keys, trailing JSON [...] are rejected" (docs/api.md:79) | `DisallowUnknownFields` (json.go:30) matches names without regard to case: `"VALUE"` is taken for `value`, also beside it, where the last one wins because the first pass compares spellings |
| `documented`, `MCHttpRequest`, `StatusesDocumented` | "exhaustive HTTP contract" (README.md:17, of the OpenAPI document) | four GET operations answer 400 for a query string (server.go:584) or an empty path code, which the document does not list for them |
| `largest_limit`, `MCService`, `BodiesWithinLimitAreRead` | a body is refused when it "exceeds configured limit" (openapi.json:1285) | with `MAX_REQUEST_BYTES` at the largest int64, which `Validate` accepts, `maxRequestBytes+1` (server.go:556) is negative and every body is read as empty |
| `late_commit`, `Acceptance`, `PreviousStateKept` | "must cancel its database work and leave the previous state untouched" (tools/millioncell/main.go:593) | the step passes with the first summary that equals the earlier one (main.go:660), and the aborted replacement can commit after it |

## Proofs

The theorems hold for every value of the constants. Each rests on the named
assumptions of the module it is about, which TLC evaluates, and on nothing else.

### DatasetStore

For every set of requests, identities, structures and cells, every set of calls,
every function from identities to lock keys, every pool and batch size. The
assumptions are four; that the requests are a finite set is one of them.

`DatasetStoreProofs` proves `TypeCorrect`: `Spec => []TypeOK`. `TypeOK` is
inductive. Each helper that builds or filters rows has a lemma on its type
(`MergeType`, `SelectType`, `CascadeType`, `ViewType`); `Write`, `Fail` and
`EndSession`, from which the actions are made, have one each; `WriterType`,
`ReaderType` and `TypeStep` put the actions together.

It also proves the safety properties that the runs check:

| Theorem | Property | What it says of the code |
|---|---|---|
| `OneWriter` | `OneWriterPerIdentity` | the advisory lock of `Replace` and `Delete` separates the writers of an identity, abandoned ones included |
| `Referential` | `NoOrphans` | `observations`, which has no foreign key, never refers to a missing dataset |
| `Whole` | `WholeDatasets` | a committed dataset is all of one submission and nothing else |
| `UpdatedAt` | `UpdatedAtAdvances` | `updated_at` grows with every replacement |
| `Spelling` | `SpellingPreserved` | spellings and dataset identifiers persist |
| `InternalErrors` | `NoInternalError` | the branches for impossible rows are never taken |
| `OneSnapshot` | `ReadersSeeOneWriter` | a read answers with rows of one replacement |

None of these is inductive: a state in which two requests are about to insert the
same dataset satisfies `WholeDatasets`, and the next steps do not. The inductive
invariant `Safe` says what the code relies on between statements. Its parts:

- `LockHeld`. From `AdvisoryLock` until its session ends, on the server and not
  in the client, a writer holds the lock of its identity; who has written, or
  has sent `COMMIT`, holds it. `OneWriter` follows at once, and every other
  part needs it: while a writer holds the lock, nobody else commits rows of its
  identity.
- `ProvidersKept`. Provider rows are not covered by that lock (writers of two
  identities share a provider): the unique key and the wait for an uncommitted
  insert keep them one per provider, and nothing deletes them.
- `ContentsStaged`. For every statement p of a writer, the rows of its identity
  that the writer sees at p (`Seen`: committed, less deleted, plus inserted) are
  a function of those that were committed when it took the lock: after the
  cascade the dataset row alone, then with the new structure, then with the new
  observations, then with the new stamp. Rows of other identities are not
  touched. A writer that may commit shows either no row or the whole of one
  request's rows (`Final`), under the old identifier and with a later stamp. What
  is committed is whole for each identity (`Sound`).
- `ProvidersPresent`. A dataset that is or may be committed has its provider.
- `ReadersStaged`. What a reader has loaded by statement p is what p's
  predecessors select from its snapshot, and the snapshot is sound, being a
  past value of `db`.

`Frame` says what a step of one request leaves alone. Each part then has its step
lemma: `LockStep`, `ProvidersStep`, `ContentsKept`, `ProvidersPresentStep`,
`ReadersStep`. `ContentsKept` rests on one lemma per statement
(`LockContents`, `SelectDatasetContents`, `InsertDatasetContents`,
`ClearContents`, `FillContents`, `UpdateContents`, `DeleteContents`,
`CommitContents`). `SafeInit` and `SafeStep` put them together, and `SafeAlways`
is `Spec => []Safe`. The algebra of rows (merging, selecting by identity,
cascading) is in lemmas on constants, since a step changes their arguments only.

The second half of the module proves `StoreIsAtomic`: `Spec => ImplementsAtomicStore`.
The abstract map is the datasets that are committed; the instant of a call is
the one given above. `Safe` says that at `ServerCommit` the
identity of the writer, and no other, changes to what its call asks for. What
`Safe` does not say is that the client is told so: `AllTold`, proved invariant
as `TellsItsEffect`, says of every call that its memory agrees with the server's.
Who is about to answer "created" has staged a dataset that was absent when it
took the lock; who deletes has counted a row exactly if there was one; what a
reader holds is the abstract result of its snapshot. Then every action of
`DatasetStore` is a step of `AtomicStore` or a stutter: a lemma for each action
that a call takes effect in, `Begin`, `Rollback`, `Ack`, `GiveUp` and
`ServerAbort`, one for all the others.

### Migration

For any jobs of any releases with any targets, and any APIs. `Serialized`
(`NoConflict`), `Transactional` (`SchemaMatchesVersion`) and `OnlyForward`
(`ForwardOnly`), and with them the promises about later states, `SuccessLasts`
(`SuccessMeansSchema`) and `ServedLasts` (`ServedSchemaStays`), follow from one
invariant, whose argument is ownership. A job
holds the advisory lock from its grant to `Unlock`, and its session holds it on
the server as long as it could still commit (`LockFits`), whether or not the job
lives; `SessionFits` says that the session does what the job asked for last;
`VersionFits` that the job which holds the lock knows the version, and that what
it may commit is the version that follows. None of the three properties is
inductive alone: two jobs that both read version 0 satisfy them, and the next
steps do not. `InitIInv`, one lemma per action, `NextIInv`. The version only goes
down in a `ServerCommit` of a job whose target is not that of its release. A job that has reported
success, and an API that was let start, remember the version they saw; until a
test goes down it only grows.

### Service

For any requests and any environment. `StartsAsAsked` (`OpenedAsAsked`) is
proved variable by variable: what `Load` has read so far is what the environment
gives or the fallback, and no conversion to int32 changes it.
`FallbackAssumption` says that the fallbacks are integers, that of
`DB_MAX_CONNS` an int32. `ConnectionsReturned` (`NoTransactionCut`)
and `ExitMeansAnswered` (`CleanExitAnswersAll`) turn on one moment, `Drained`.
Before it the pool is open, and no counted request is cut or turned away
(`NothingLostYet`), and only main can have closed the server (`NotClosedYet`).
After it, with exit status 0, every counted request is answered, and requests
whose header is read are on connections that are closed, so that no more can be
counted (`DrainedClean`). A status other than 0 promises nothing, but the pool
still waits for its connections (`NobodyHolds`).

### HttpRequest

For any requests and any limit. `OnlyAcceptable`, `ParsedWhole`,
`AnswersTellTheEffect` and `OneAnswerEach` follow from two invariants. `Checked`:
a check of the handler's list that is no longer in `todo` has held of the
request, so that a handler with nothing to do has made all of them; parsing comes
right after the body, and when it is next, all of the body was read.
`Recorded`: before a status is written there is neither a document nor a log
line, after it both agree with it, and a status below 500 that may be about to
be written agrees with the effect.

### StrictJson, Normalize, Intake

For any keys, documents of any length, any tables, any bound on the rounds and
any strings. `Identities` (`KeysAreIdentities`): a key that was returned is left
alone by a round, is not empty and is not too long, so that the search for it
ends at once and accepts; nothing is used of what a round does. `Fits`
(`KeysFitColumns`) needs in addition that a round goes from strings to strings:
its walks are recursive functions, which are shown to return (`WalkBegins`,
`EachReturns`, `TrimReturns`, `RoundReturns`). `TablesAssumption` says that the
tables replace a character by characters. `OnlyDuplicates`
(`DuplicatesRefused`) is about the whole history of the tokens: its invariant
says that the stack is as deep as the tokens are, and that what a frame has
`seen` are the keys at its depth in the container that is still open there
(`Followed`). `NothingTrails` (`OneValue`) says of the same history where the
depth is zero (`Single`).

### Cube

For any sequence of sizes, any limit and any largest integer. `ExactProduct`
(`ProductIsExact`): the loop of `CheckedProduct`, which divides before it
multiplies, accepts exactly the cubes whose size is within the limit.
`CoordinatesInvert` (`CoordinatesInvertCellIndex`): coordinates taken off by
quotients and remainders lie in the cube and sum up to the index again; every
other index is refused. A fold is by definition the value of a recursive
function on sets of positions, chosen by `CHOOSE`, so that each proof first shows
that such a function exists (`FoldExists`, `Recursion`), then that it has at
each position what the loop has (`Checks`, `RemainingOf`, `SumOf`). Induction
is over sets of numbers, from `Smallest`, that a set of numbers has a least
one, because the induction theorems of the library take an operator
(`Reaches`, `ReachesDown`). `SizesAssumption` is that limits are positive and
within the integers, which `Validate` checks.

### DatasetPipeline

For any submissions, queries, formats, codes and limits. `KeepsMeaning`
(`StoredAsSubmitted`), `SatisfiesChecks` (`RowsSatisfyChecks`), `AnswersSelection`
(`QueryAnswersSelection`) and `MeansView` (`ResponseMeansView`). The steps are few
and the argument is in the data:

- *Index and rank.* The properties count the coordinates that come first; the
  code multiplies by strides. `RankIs` says that both give the same number:
  coordinates that come first have the smaller index (`BeforeIsLess`), so that
  an index is the number of those before it. `MeaningIs` tells a meaning from
  indexes.
- *Names.* In dimensions told apart by their keys (`WellFormed`, which is what
  the refusals of `parseRequestDimensions` and `parseCategories` establish:
  `RequestIs`), a name belongs to one cell (`NameTells`).
- *The fused loop.* `remapCellIndex` takes the coordinates off an index and adds
  up the strides of the other order in one pass. `RemapIs`: it finds the index
  of the point with the same name. The loop visits the positions in one order
  and `CellIndex` in another, and `Summed` says that a loop over all positions
  adds up the same sum in any order. It needs only that every name of the one is
  a name of the other (`Inside`), so that it serves the remap into stored order,
  where both have the same names, and a query, which has some of them.
- *Sorting.* Sorting by distinct keys is a permutation (`KeyOrderIs`); stored
  dimensions are the submitted ones in order (`DimensionsSorted`).
- *Storing, selecting, presenting.* Cells that are moved to the index of their
  name keep their meaning (`MovedMeans`); those a selection picks are those whose
  names it has (`SelectedMeans`); a response is a body that is accepted again
  (`StructureParses`, `ResponseCells`), whose stored form means the same by
  `AcceptedMeans`. A status is shared only when every cell of the cube has it
  (`SharedIs`).

The invariant `Held` ties the steps together: what is stored is what parsing made
of the body (`Kept`), and an answer is the whole of it or what one query selected
of it (`Answered`). `StoredAsSubmitted` and `RowsSatisfyChecks` follow from
`Kept`; the other two are about a view and a response whose origin only `Answered`
tells.

The assumptions are on what the operators are given. `CodeAssumption`: keys are
numbers, an order without ties standing for that of the strings the code
compares. `LimitAssumption`: `MAX_CELLS` is positive and at most the largest count
the presentation multiplies up to (`Validate` bounds it by `SchemaMaxCells`,
config.go:91, the same million as presentation.go:136), which is within int64.
`BodyAssumption`: bodies have passed `DecodeStrict`, so that an `id` is a list of
strings, a dimension an object of integers (payload.go:18-34) and a scalar status
a string (payload.go:342). It says nothing of whether they are valid. `CubeProofs`
is used for its lemmas on `Cube`; no fact about the state of `MCCube` is.

### Acceptance

For any `-side` from two on and any of the six APIs. `PassesForCause`
(`TrustedReport`) and `RefusesForCause` (`FailsForCause`). The first needs what
each passed step has shown, the second that a step which refuses an answer has
met a fault; so both need to know, at every place of the script, what a right
API and a wrong one hold there. `IInv` says it, in parts:

- `Shown`. The step that would have noticed a fault is passed only without it:
  the dense read without `truncate`, the query without `order`, the status
  without `merge`, the last request without `keep`.
- `DataFits`. The dataset that a driver still at work meets. It is given up when
  the driver ends, since the API may commit the aborted replacement later. An API
  that tears may hold anything from the concurrent replacement on.
- `FlightFits`. One streamed replacement at a time, that of its step; when the
  step has passed, the first is committed. `Working` follows: what a commit
  stores is known from the place of the driver alone.
- `ReaderFits`. Only an API that tears shows the reader a partial dataset, its
  error is set only by its last read, and the driver goes on only without one.
  That is why a report can be trusted even about the read that was on its way
  when the replacement was answered: `Join` looks at `readErr` after the reader.
- `ExitFits`. A failure over an answer has a fault or the committed abort.

Neither property is inductive: nothing in them says why a driver in its last step
has met the four faults, or why one that polls for its state can see no other
than its own abandoned replacement. TLC has confirmed `IInv` for a side of two
before it was proved.

That a gate does not refuse a right API over the reordered subset is arithmetic.
`QueryAnswer` compares `Want`, which the driver computes with products of its
side, with what `SelectedIndexes` gives the API: `SliceIndex` takes the
coordinates off an index of the asked cube and adds up the strides of the stored
one, for every side and every cell, so that the four cells the driver probes are
right, and the first of them is wrong if the order is ignored (`QueryAccepted`).
`Requests` puts the steps of one request together, there is a lemma for each
other action or for a few that are alike, and `NextFits` combines them.
The only assumption is `AcceptanceAssumption`.

### What is only model-checked

Liveness (`EveryRequestEnds`, `JobsEnd`, `SignalEnds`, `DriverEnds`), which needs
fairness and `ENABLED`. Every other property of a run has a theorem, but
`FailedWritesLeavePriorState`, which its run refutes.

## Not modelled

- External code, modelled by how it is used: PostgreSQL; tern's migrator (its
  own advisory lock is left out, so that the lock of `Run` is shown to be
  enough); `net/http`; pgxpool; `encoding/json`; `golang.org/x/text` (without
  canonical composition).
- `Ping` (no state); the test checkpoints of `transaction_checkpoint.go`;
  `LOG_LEVEL`; the comparison of tokens in constant time; request identifiers.
- In a payload: number syntax, `source_stamp`, limits on lengths of texts. In a
  response: the fields of a summary. They are copied, and no property is about
  them.
- The second pass of `DecodeStrict` inside nested structures.
- Clocks. Deadlines are events that come at any moment after what they follow,
  so that nothing is said of how long anything takes. Two hazards of
  `PROJECT.json` without a property are about that.
- The pages of the API documentation (bytes without state), the evaluator's
  fixtures (data), shell scripts and workflows. The gate with `-side 1`, where
  `fullDenseRead` probes a cell that does not exist (main.go:432).

## Plan

1. *(done)* the store, its abstract specification and refinement; the data
   path; the inductive invariant of the store and its safety theorems.
2. *(done)* requests, intake, startup and shutdown, migrations, the release
   gate.
3. *(done)* the refinement of `AtomicStore` as a theorem; the promises of
   `Migration` about later states; startup; intake; the arithmetic of `Cube`.
4. *(done)* the theorems of `DatasetPipeline`.
5. *(done)* the theorems of `Acceptance`.
