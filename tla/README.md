# A TLA+ model of the quote service

This directory holds a specification of the currency-quote service: the queue
of quote updates that lives in PostgreSQL, the background workers that consume
it, the refresh transaction with its idempotency keys, the Redis cache of the
latest quote, the validation of currency pairs, the start and stop of the
process and the API documentation page. TLC checks it on small instances; the
TLA+ proof system proves every safety property of the passing runs for every
instance.

## 1. The system

A client posts `/quotes/refresh` with a pair and an `Idempotency-Key` and gets
the id of a *quote update*. Workers, one goroutine per running instance, claim
updates, ask a foreign-exchange provider for the rate and record the outcome.
Clients poll the update by its id, or ask for the latest saved rate of a pair.

| Component | State | Operations | Correct when |
|---|---|---|---|
| `quote_updates` table (migration 0001, `quotes.sql`) | status, rate, error, attempts, due time, lease (`locked_until`, `lease_token`), times | create-or-get, claim, requeue expired, mark succeeded/failed, schedule retry, two reads | rows satisfy the CHECK; one active row per pair; final rows are final |
| Worker (`internal/worker/quotes`, `repository/quotes/worker.go`) | the claimed task, its token and attempt | `Run`, `processAvailable`, `ProcessOnce`, `retryDelay` | leases are exclusive; only the holder's answer ends a lease; every update ends |
| Refresh transaction (`repository/quotes/refresh.go`, `transactor.go`) | `idempotency_keys`, advisory locks, row locks | `refreshTx` | one key and body name one update; requests do not block each other for ever |
| Latest-quote cache (`service/quotes/get.go`, `cache/quotes`) | a Redis entry per pair | get, set, delete, TTL | entries follow the table, and errors of Redis are harmless |
| Validation and HTTP statuses (`service/quotes`, `transport/http`) | none | normalise, `isSupported`, map errors to statuses | invalid pairs are 400 |
| FX client | none | `GetRate` | a rate or an error |
| Lifecycle (`internal/app`, `cmd/app`) | pool, worker goroutine, HTTP server | `New`, `Start`, `Stop`, signals | what was started is stopped, in an order in which nobody uses what is gone |
| Documentation page (`initEcho`, `pkg/swagger-ui`) | a browser's address, files and scripts | routes, redirects, the `onload` handler | the page is shown unless a request fails |
| Configuration, migrations, outbox table, generated server, vendored bundles | - | - | - |

Interaction: HTTP handlers call the service, which calls the repository and the
cache. Workers call the repository, the provider and the cache. Instances share
nothing but PostgreSQL and Redis, so the statements are the messages of this
system, and PostgreSQL's locking and snapshot rules are its memory model.

What is hard here: several workers and instances act on a row between any two
statements of one of them; processes stop anywhere; a statement may commit and
its reply be lost; leases run out under a slow provider; application and
database clocks differ; an open Refresh transaction holds a row locked, so that
a claim skips it and a mark waits and is then judged by the `NOW()` of its own
start. Within a process, the goroutine of `Start`, the worker and the handlers
race the shutdown. PROJECT.json lists these hazards line by line.

## 2. Modules

| Module | Models |
|---|---|
| `QuoteUpdates` | the table and every statement that writes it |
| `RetryBackoff`, `MCRetryBackoff` | `Worker.retryDelay`, with the wrap-around of `time.Duration` |
| `QuoteWorker`, `MCQuoteWorker` | the workers over the table, with time, clients, crashes, lost replies |
| `LeasedTasks` | what the queue promises, without clocks, tokens or statements |
| `RefreshTx`, `MCRefreshTx` | concurrent Refresh transactions |
| `IdempotentRefresh` | what the endpoint promises: every request a single step |
| `WorkerProgress` | the queue and its workers over unbounded runs, for liveness |
| `LatestCache` | cache-aside readers and invalidating workers |
| `QuotesApi` | which status a pair is answered with |
| `AppLifecycle` | `run`, `New`, `Start` and `Stop`, with the goroutines beside them |
| `DocsPage` | the routes of the documentation and the browser that visits them |
| `QuoteWorkerProofs`, `QuoteQueueProofs`, `RetryBackoffProofs`, `RefreshTxProofs`, `LatestCacheProofs`, `AppLifecycleProofs`, `WorkerProgressProofs`, `DocsPageProofs` | theorems and proofs |

### QuoteUpdates and QuoteWorker

`table[u]` is the row with id `u`; `locked` the rows an open Refresh transaction
holds; `now` the database clock. A statement is one operator, named as in
`quotes.sql`; `HoldsLease` is the WHERE clause of the three statements that end
a lease. `work[w]` says where worker `w` is:

| `pc` | place in the code | leaves by |
|---|---|---|
| `down` | the process is not running | `Start` |
| `requeue` | `processAvailable` before `RequeueExpired` | `RequeueExpired` |
| `claim` | the drain loop before `ClaimNext` | `ClaimNext`, `NothingDue` |
| `calling` | in `provider.GetRate` | `GetRate` |
| `marking` | one of the three marks has been sent, at `stmt_now` | `MarkSucceeded`, `MarkFailed`, `ScheduleRetry`, `LeaseLost` |
| `invalidating` | before `cache.DeleteLatest` | `DeleteLatest` |
| `waiting` | `Run` waits for its ticker | `PollTick` |

`Crash` and `StatementFails` may strike at any of them. A lost reply is the
second outcome of each statement: it has committed, and the worker goes on as
after an error. A statement that is still being executed when its worker stops
is the case of a worker that is slow in `marking`. `gen_random_uuid()` returns
any token that nobody remembers. `Refresh` is abstracted to what the table sees:
an insert that becomes visible at commit, dated at the start of its transaction
(at most `MaxRefreshLag` earlier), or an active row that stays locked until
`CommitRefresh`. `RefreshTx` has the whole transaction.

Abstracted: rates are opaque, error texts are present or absent, the provider
may answer anything at any later time. A requeue is judged by the clock at
the moment it has its rows; one that waited for a locked row would use its own,
earlier `NOW()`, and leave rows that expired meanwhile to the next tick. A worker that finds no lease token in
the claimed row cannot happen, since the statement sets it.

### LeasedTasks and the refinement

A task is new, open, taken, done or abandoned, has at most one holder, is
finished only by its holder, and is abandoned only after `MaxTries` tries.
`QuoteWorker!QueueSpec` maps a row's status to the phase and the workers that
remember its current token to the holders. A stale mark, a claim whose reply is
lost and a clock that jumps all map to abstract steps or to stuttering.

### RefreshTx

`tx[q]` is the transaction of request `q`: its place in `refreshTx`, its
snapshot time, the row it has inserted or locked. The key lock is held until the
end of the transaction and is taken on `hashtext(key)`, which may collide.
`Commit` makes all writes visible at once. `Rollback` stands for any error, a
client that goes away, or an instance that stops, and for a conflict whose
rollback fails. `answers` is a history of what committed transactions answer,
`refusals` of the requests that were answered with 409. A client that did not
receive its answer retries with the same key, which is just another request.
Requests are numbered in the order in which they begin, and the update that a
request inserts has its number: `gen_random_uuid()` never returns a value twice.

A request waits in two places: for the advisory lock, and in
`CreateOrGetActiveQuoteUpdate` for a row that another transaction has locked or
is inserting. `Waits` and `WaitsFor` say so, and `NoDeadlock` that no set of
requests waits only for its own members. `UpdatesAdvance` is the table as a
worker sees it: rows appear when their pair has no active one and are never
taken back, which is what `InsertQuoteUpdate` of `QuoteUpdates`, where the
transaction is a single step, takes for granted.

### IdempotentRefresh and the refinement

The same endpoint as if a request were one step: it repeats the update its key
stands for, binds the key to the pair's active update or a new one, or is
refused. `RefreshTx!RefreshSpec` instantiates it with the committed rows, so
that a transaction takes effect where it commits, or where it finds the
conflict; every other step, a rollback among them, stutters. A binding may be
older than the answer that rests on it, and a refusal looks at the expiry as of
its own start: the abstract actions allow this, since the code uses `NOW()`.

### WorkerProgress

The loop of `QuoteWorker` without numbers for time: a PENDING row is due or not,
a lease has run out or not. A pair has at most one active row (proved, see
section 5), so the pair stands for it, and a worker stands for its token.

`due` lists the due rows in the order of `next_attempt_at`. It is not a queue in
which rows line up at the end: an inserted or requeued row is dated at the start
of its transaction, a retried one by the application's clock plus a delay that
may be 0. `Arrive` therefore lets a row in at any place, except ahead of a row in
`settled`, which has been due for longer than transactions last and clocks
differ (`Settle`). `locked` are the pairs whose active row an open Refresh has
locked: `TouchQuoteUpdate` is the ON CONFLICT branch, `EndRefresh` the end of
that transaction, `InsertQuoteUpdate` the insert at its commit. A claim takes
the first due row that is not locked, the requeue and the marks wait. What a
claim locks needs no variable, since it is one statement that commits on its own.

`Unsavable` are pairs whose rates need not fit `NUMERIC(18,8)`: `SaveFails` may
then strike at every success, for ever.

### LatestCache

One pair. The n-th saved rate is n; that `GetLatestByPair` may return the one
saved last is `LatestIsNewest`. `reader[r]` walks through `service.GetLatest`; a worker is
`deleting` between the commit of MarkSucceeded and `DeleteLatest`. `Failures`
switches on errors of Redis, lost replies and workers that stop. `late` and
`missed` record why an entry is older than the table.

### QuotesApi

A pair of seven characters is two codes, a separator, and whether it needs
normalising. `isSupported` looks at the codes only; the CHECK of the column looks
at the separator too.

### AppLifecycle

One process. `main` is where `run` is, `start` where the goroutine is that calls
`Start`, `worker` what `Worker.Run` does to the pool, `handler[h]` an HTTP
request, which may take a connection. `pool` is closed in two steps, as
`dbPool.Close` first refuses connections and then waits for those in use. After
a signal nothing orders `a.cancel = cancel` in `Start` before `a.cancel != nil`
in `Stop`, a data race: `Cancel` then reads the assigned value or nil. After
`Start` has returned, the error channel orders them.

A signal may even arrive before the goroutine has run at all. Stop then finds
no cancel function and nothing to wait for, closes the pool, and the worker is
launched afterwards. `WorkerDoneBeforeClose` says why this is harmless: the
worker's context is derived from the one that the signal has cancelled.
`StopWaitsEnd` says what each wait of Stop rests on: at `wg.Wait` the context of
the worker is done, and it exists or is about to; `dbPool.Close` waits for
requests that outlasted the timeout, never for the worker.

### DocsPage

The server is a function from paths to responses (`Get`): the Echo middleware
that removes a trailing slash except below `/swagger`, the three routes, and
`http.FileServer`, which serves a directory as its `index.html` and redirects
`index.html` to the directory. The browser opens one of the addresses, follows
redirects, loads the style sheets and scripts that `index.html` names by
relative URLs, runs scripts in document order, and then the `onload` handler of
`swagger-initializer.js`, which needs the globals of the two bundles and asks
for the OpenAPI document. Any request may fail, and the user may go elsewhere at
any time.

## 3. Runs

| Run | Question | Bounds and why they suffice |
|---|---|---|
| `queue_safety` | leases, finality and order of saving under drifting clocks | two workers, so that one can supersede the other; two ids, so that an update can follow another of the same pair; two tokens, one per worker; clocks off by one, leases of one unit and four instants, so that leases can be born expired, expire under a call or under a waiting statement; Refresh may be open for one instant |
| `queue_pairs` | CHECK, unique index and refinement | two pairs, so that a requeue touches several rows; three tokens |
| `queue_attempts` | are there calls beyond MaxAttempts? (violated) | one row, `MaxAttempts` 1 |
| `backoff` | the delay for every accepted configuration | 6-bit words, every base and maximum, attempts up to 8: every shift, every wrap-around and the `shift >= 63` branch occur |
| `refresh` | idempotency, one active update, answers and refusals, refinement, deadlock, do requests end? | three requests, overlapping or one after the other, two keys and two pairs, so that a key is repeated, refused, reused after its expiry and after a rollback; a TTL and a clock of one unit, so that a key expires during a transaction. The keys have locks of their own: requests with the same key wait for one lock, those with the same pair for one row. Colliding `hashtext` values are covered by the proofs |
| `progress` | does every update end, is every due row claimed? | two pairs, so that one can overtake, lock out or hold up the other, one of them unsavable; two workers, so that one can supersede the other; one fault of any kind, two attempts; no bound on refreshes, locks and unsavable rates. Two faults (`MaxFaults = 2`) give the same answer in 250,000 states and a few minutes |
| `requeue_starved` | is every expired lease requeued? (violated) | one worker, two pairs, one fault |
| `cache` | why is an entry stale, and for how long | two readers, two workers, three rates, Redis failures |
| `cache_stale` | is the cache right after invalidation? (violated) | the same without failures |
| `pair_format` | are invalid pairs 400? (violated) | the supported codes and another one, two separators |
| `docs_page` | is the documentation shown? | none: every address, every order of arrival, every failure |
| `lifecycle` | is the shutdown in order, and does it end? | two requests, so that one may end and the other outlast the timeout |

Symmetry is used in `queue_safety` and `queue_pairs`, which check safety only,
over sets whose elements no definition tells apart. CHECK_DEADLOCK is off in
`refresh` (the bound on requests is reached and nobody is left to act), in
`backoff` (the last attempt) and in `lifecycle` (the process has ended). Every
other system can always go on: a worker can be started or polls again, a reader
can read, a browser can be pointed at another address.

Every property has a mutant, an operator next to the definition it replaces,
that a plausible bug would produce and that TLC finds by that property.

### Fairness

`WorkerProgress`: a running worker goes on, since Go schedules the goroutine, the
ticker ticks and the provider's HTTP client has a timeout; a stopped instance is
started again, as a container is by its restart policy; time passes, and Refresh
transactions end (`EveryRequestEnds`). The fairness of a worker is strong: its
requeue and its marks may wait for a row that clients lock again and again, and
PostgreSQL queues those who wait for a row, so that such a statement gets it. A
claim does not wait: a row that is locked at every claim is never claimed. Crashes, lost replies, failed statements and overrun leases happen
finitely often in a run; without that no update need ever end, as the code
repeats work that fails. Clients are not fair, and `EveryUpdateEnds` assumes that
they stop, `DueIsClaimed` only that they leave the pair in question alone.
`RefreshTx`: PostgreSQL executes a statement when the lock it waits for is free. `LatestCache`: a request that has started goes on, a
worker that has saved a rate goes on to the invalidation unless it fails, and
Redis expires the entry: this needs `REDIS_CACHE_TTL` greater than zero.
`AppLifecycle`: goroutines are scheduled and statements end, so `run`, the
launch of the worker, the worker and the handlers are weakly fair; nothing makes
a server that serves return, and no signal need come. `DocsPage`: the browser
goes on as long as requests are answered; the user's choices are not fair.

## 4. What the runs found

* **Attempts are limited only when the provider fails** (`queue_attempts`).
  `ProcessOnce` compares `AttemptCount` with `MaxAttempts` after `GetRate` has
  returned an error. An attempt that ends otherwise (the process stops, the call
  outlasts the lease, the mark fails) is counted but not compared, so the
  provider is called again, beyond `WORKER_MAX_ATTEMPTS`.
* **Requeueing can starve** (`requeue_starved`). Expired leases are returned only
  between two drains of the queue. A worker that always finds due work never
  comes back to it.
* **A cache fill can overtake an invalidation** (`cache_stale`), with no failure
  at all; `StaleHasCause` and `EventuallyFresh` say what remains true.
* **`EUR-MXN` is accepted** (`pair_format`): refresh answers 500, latest 404,
  where the API documents 400.
* **The comment on the backoff is off by one** (`backoff`). `worker.go:154` gives
  `BaseDelay * 2^(AttemptCount)`; the code, and line 155, raise 2 to
  `AttemptCount - 1`, so the first retry waits up to `RetryBaseDelay`.
  `CappedUnlessWrapped` states what the code computes, and the formula of line
  154 is its mutant, so the passing run tells the two apart.

Four more observations have no run of their own. `retryDelay` may wrap round to
a small positive delay (`CappedUnlessWrapped` states when it cannot).
`error_message` survives a retry, so PENDING and PROCESSING updates show one. An
update whose rate `NUMERIC(18,8)` cannot hold is tried for ever: `progress` shows
that the others still end, but nothing ends this one. And `New` leaves the pool
open when `migrateDB` or `initEcho` fails, which the end of the process repairs.

## 5. What is proved

Every invariant and every safety property of an action that a passing run
checks is also a theorem. The proofs rest on the named assumptions that the
modules declare and TLC evaluates: `NullAssumption`, `WidthAssumption`,
`MaxAttemptAssumption`, `WorkerAssumption` (what `worker.New` requires),
`RefreshAssumption`, `NoRowAssumption` (NULL is not a row of
`idempotency_keys`), `CacheAssumption`, `ProgressAssumption` (there are finitely
many pairs), and `PowersOfTwo`, the recurrence of 2^n up to the largest exponent
that occurs, which is arithmetic that the provers do not know.

**The queue.** For every set of ids, pairs, tokens, rates and workers and every
clock skew, `QuoteWorkerProofs` proves of `Spec`: `TypeOK`, `RowConsistent`,
`OneActivePerPair`, `LeaseExclusive`, `FailsOnlyAfterMaxAttempts`,
`LeaseEndsProperly`, `FinishedIsFinal` and `LatestIsNewest`. All follow from one
inductive invariant, `IInv`. The properties alone are not inductive. That only
the holder ends a lease needs that a token is remembered at most once among rows
and among workers (`TokensDistinct`), that a worker has a token exactly between
claim and mark (`TaskInHand`), and that whoever knows a row's token claimed that
very row in its current attempt (`HoldersAgree`). That `updated_at` follows the
order of saving needs `TimesOrdered`: earlier successes of a pair precede the
claim of its active row, which precedes the statement of its holder; with
`OneActivePerPair` there is no other row that could be saved in between. Hence
the row that has just been saved is one that `GetLatestByPair` may return.

`QuoteQueueProofs` proves that the queue implements `LeasedTasks`. Given `IInv`
and the fact that a row that does not exist has the values of a new one, each
statement maps to one abstract action: a requeue releases every expired task at
once, a mark is a finish, an abandonment or a release by the only worker in the
row's `Holders`, a worker that stops forgets its task, and all else stutters.
`PromisesKept` is about `LeasedTasks` alone: its steps imply one task in progress
per subject, one holder per task, no early abandonment and no task done without
a result, so the refinement is to a specification that says something.

**The backoff.** `RetryBackoffProofs` proves for every word size, base, maximum
and attempt that the argument of `rand.Int63n` is positive and at most
`RetryMaxDelay`, the same as an invariant of the run's specification, and
`CappedUnlessWrapped`: unless the product wraps around, the bound of the jitter
is the capped exponential. From `PowersOfTwo` it follows that powers of two grow
(by taking the least exponent that would be a counterexample), so that the
conversion of the power to a signed word changes nothing where it is used, and a
shift beyond the word exceeds every maximum.

**Refresh.** For every set of keys and pairs, every `HashText`, collisions
included, and every bound, `RefreshTxProofs` proves `TypeOK`,
`SameKeySameUpdate`, `OneActivePerPair`, `AnswersName`, `RefusalsHaveCause`,
`UpdatesAdvance`, `NoDeadlock` and that interleaved transactions implement
`IdempotentRefresh`. The inductive invariant says who may know what: at most one
transaction per lock is past `LockIdempotencyKey`; one past `get` has decided on
a key row that nobody else can change; a row is held by one transaction, is
active, or is that transaction's own insert; the answers given under a key are
no later than its committed row, and those that differ from it had expired when
it was bound.

Deadlock is excluded by the order of the statements: the advisory lock is taken
before the row, and a transaction that has its row waits for nothing more. Of
any set of waiting requests, one that waits for a row waits for such a
transaction (`RowHolder`), which does not wait; if there is none, one that waits
for a lock waits for a request that is past the lock. What makes this hold is
that a row nobody has committed is held by the very request that inserts it
(`OwnIds`), so that a request never waits for a row without a holder.
`RequestsOnlyAdvance` adds that a request only gets closer to its end.
`PromisesKept` is about `IdempotentRefresh` alone: its atomic steps imply the
properties of `RefreshTx` about keys, pairs, answers and refusals, so that the
refinement says at least as much as they do.

**The cache.** `LatestCacheProofs` proves `TypeOK` and `StaleHasCause`: a reader
that will write an old rate has read it before the last save, and a worker that
has yet to invalidate is one of the causes, so no step creates another.

**The process.** `AppLifecycleProofs` proves `TypeOK`, `WorkerDoneBeforeClose`,
`RefusedOnlyAfterTimeout`, `SuccessMeansGraceful` and `StopWaitsEnd` for any
number of requests. The invariant ties the place of `run` to the pool and the
server, says that no request is left after `Shutdown` unless it timed out, and
that a worker that Stop has not waited for is one whose context a signal has
cancelled.

**The due rows.** `WorkerProgressProofs` proves `TypeOK` of `WorkerProgress` for
any number of pairs: `due` is a sequence of PENDING rows without repetition,
wherever an arriving row gets in and whichever row a claim takes out, and a row
that an open Refresh has locked stays active until its transaction ends, since
no statement of a worker ends a row under the lock. It takes a lemma on removing
an element anywhere, one (by the pigeonhole principle) that a sequence of as many
distinct elements as a set has contains them all, and that a worker that is
calling or marking knows its pair. That due rows are claimed in any order is not
claimed: locked rows are passed over and rows with an older date get ahead.

**The documentation page.** `DocsPageProofs` proves `TypeOK`, `NotShownHasCause`
and that a visit follows one redirect at most (`RedirectedOnce`). The invariant
adds that a page which is open was loaded from the directory of the
documentation, so that its relative URLs name what the server has, and that a
file which is not there has failed. `DocsPage` has no parameters, so the run is
exhaustive as well; the proof says why.

Only model-checked are the liveness properties (`EveryUpdateEnds`,
`DueIsClaimed`, `EveryRequestEnds`, `EventuallyFresh`, `EveryVisitEnds`,
`EveryStopEnds`): the prover has no rule for fairness. `NoDeadlock`,
`RequestsOnlyAdvance` and `StopWaitsEnd` are the safety half of
`EveryRequestEnds` and `EveryStopEnds`. The properties of the runs that end in a violation have no proof,
of course.

## 6. Not modelled, and why

* The FX client beyond its answer, and the bodies of HTTP requests and responses:
  the JSON and HTTP exchange converts data and keeps no state. `GetQuoteUpdateByID`
  reads one row.
* Configuration is parsed once at the start. What `worker.New` requires of it is
  `WorkerAssumption`.
* Migrations are run by goose, whose locking is not part of this repository; the
  schema they produce is.
* The outbox table is neither read nor written.
* The generated server, the Swagger UI bundles and the collection of requests are
  generated or vendored. Of the bundles, `DocsPage` models the globals they set.
* Redis as a server: `LatestCache` models one key, as every command names one.

## 7. What could come next

1. `error_message` in the answer of `GetQuoteUpdateByID`, against what
   `api/openapi.yaml` says of it.
2. Several instances of the cache over `QuoteUpdates`, which would replace the
   assumption of `LatestCache` that the table returns the rate saved last
   (`LatestIsNewest`) by the table itself.

`QuoteWorker` does not refine `WorkerProgress` as the two stand: leases that are
born expired under a clock that is off, and rates that never fit, are in one of
them only, so the liveness properties do not carry over to the queue with
clocks; the two modules are related by their sources only.
