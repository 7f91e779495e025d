# Formal verification of Brokle

This directory holds TLA+ models of the Brokle backend (the Go code under
`internal/`, `pkg/` and `cmd/`), the TLC runs that check them on small
instances, and TLAPS proofs of what matters most. `PROJECT.json` maps every
definition to the lines it models and lists runs, hazards and theorems.

## Inventory

Brokle is an AI observability platform: an HTTP/gRPC server, a worker process,
PostgreSQL, ClickHouse and Redis. Its parts, their state, and what makes them
correct:

| Component | State | Operations | Hard part | Correct when |
|---|---|---|---|---|
| **Telemetry ingestion** (`otlp.go`, `otlp_handler.go`, `telemetry_stream_consumer.go`, `telemetry_deduplication_repository.go`, `telemetry_stream.go`) | Redis keys `dedup:span:<id>`, one stream and one dead letter stream per project, consumer group, ClickHouse rows | claim, publish, roll back, read, insert with retries, move to DLQ, release, ack, replay | several servers and workers, retries, lost replies, crashes, TTLs | a span is stored once; what was acknowledged or refused as a duplicate is not lost |
| **Metrics and logs** (`otlp_metrics.go`, `otlp_logs.go`) | the same streams, no keys | publish | partial failure of one batch | a batch that is acknowledged is stored or dead |
| **Human annotation queues** (`annotation/*.go`, `lock_expiry_worker.go`) | queue settings, items with status and lock, scores in ClickHouse | add, claim, complete, skip, release, delete, update, sweep | calls read, check and then update by id, without a transaction | an item is one user's at a time, its outcome is final, no lock stays for ever |
| **Evaluation execution** (`workers/evaluation/*.go`, `execution.go`, `evaluator_execution_repository.go`) | execution row with counters and status, job stream | trigger, match, enqueue, score, count, complete, fail, cancel | three workers count towards one total, stale caches, messages always acknowledged | an execution ends, exactly once, with counters that add up |
| **Experiments, datasets** | experiment counters, numbered dataset versions, pins | run, count, create version, pin | number taken by reading a maximum | numbers unique, counters add up |
| **Sessions and auth** (`services/auth`) | sessions, refresh tokens, blacklist | login, refresh, revoke, change and reset password | rotation and revocation interleave | a rotated or revoked token is never accepted |
| **Organizations, invitations, registration** | members, invitations with status and expiry | invite, accept, decline, resend, revoke, expire, register | two accepts, accept against revoke or expiry | one membership per invitation and user |
| **Billing: usage and budgets** (`usage_aggregation_worker.go`, `organization_billing_repository.go`, `usage_budget_repository.go`, `usage_alert_repository.go`) | billing row per organization, budgets, alerts | provision, sync usage, roll a period over, check budgets, alert, email | a worker in every process, hour and day tables, saves of stale rows | usage is billed once, in one period; a limit that is reached is alerted about, once |
| **Billing: contracts and pricing** (`contract_service.go`, `pricing_service.go`, `contract_expiration_worker.go`) | contracts, volume tiers | create, update, activate, cancel, replace tiers, expire, price | whole-row saves with preloaded tiers, delete and insert in one transaction | one active contract, the tiers of one request, every unit at its price |
| **Prompt registry** (`prompt_service.go`, `repository/prompt/*.go`) | prompts, numbered versions, labels, Redis cache | create, version, rename, delete, move labels, get | number read under a lock that does not help, cache filled and dropped by overtaking calls | `latest` is the highest version; what is served is current, or about to be dropped |
| **Notifications** (`notification_worker.go`) | in-memory queue | enqueue, deliver, retry | full queue, shutdown | accepted jobs are delivered or reported |
| **Rate limiting** (`rate_limit.go`) | window in Redis | check and count | concurrent checks | limit not exceeded by more than the window allows |
| **Comments, dashboards, playground, credentials, analytics, website, storage** | rows of their own | CRUD and queries | little | - |
| **Realtime** (`pkg/realtime`, `pkg/websocket`) | clients, channels | subscribe, broadcast, close | closing while sending | no send after close |
| **Start-up, migrations, configuration; web UI; SDKs; enterprise stubs** | - | - | sequential, generated or third-party | - |

Interaction: the handlers publish spans to a project's stream; the stream
workers store them; the evaluator worker reads the same streams in a group of
its own, matches spans to evaluators and puts jobs on a second stream, whose
worker writes scores and counts them on the execution. Annotators pull items
that refer to traces and spans and write scores. Billing aggregates what was
stored. Everything shared lives in Redis, PostgreSQL or ClickHouse; processes
keep only caches.

## Plan

Modules, with what each is built of:

1. `TelemetryIngest`, checked through `MCTelemetryIngest`, proved about in
   `TelemetryIngestProofs`; its promise is `SpanStore`, the refinement is proved in
   `SpanRefinement`.
2. `AnnotationQueue`, `MCAnnotationQueue`, `AnnotationQueueProofs`; its promise is
   `Lease`, proved in the same module.
3. `EvaluationExecution`, `MCEvaluationExecution`, `EvaluationExecutionProofs`.
4. `Contracts` on top of `TierPricing`, `MCContracts`, `ContractsProofs`.
5. `UsageBilling`, `MCUsageBilling`, `UsageBillingProofs`; the sums of 4 and 5 rest on
   `SumTheorems`.
6. `PromptRegistry`, `MCPromptRegistry`, `PromptRegistryProofs`.

All of these are there. Left, in this order: `StreamDiscovery` (streams that
expire, groups, rotation; composed with the consumer of 1 for "every queued batch is
read"), `Invitations` with registration, `Sessions` (rotation against revocation),
`NotificationQueue`, `DatasetVersions`, `RateLimit`. Every invariant and every action
property of the runs is proved; their liveness properties are not.

## Telemetry ingestion

`TelemetryIngest` follows one project. A request, its handler, its batch id
(a fresh ULID) and its stream message are one element of `Batches`.

- Handler: `Receive`, then for traces `ClaimOK`/`ClaimError` (a SETNX pipeline), then
  `Publish`/`PublishError`/`PublishLost`, then `Rollback`. A batch left without claims
  answers `all_duplicates`.
- Worker: `Read` (`XREADGROUP >`), `Take`, `Attempt` (one `processBatch` in the
  retry loop), `MoveToDLQ`, `ReleaseClaims`, `Ack`, and `WorkerCrash`.
- The Redis client (`MaxRetries = 3`) sends a command again whose reply it misses:
  `ClaimReplay` (all or part of the pipeline had run), `PublishReplay`,
  `RollbackReplay` and `ReleaseReplay` each come before the command runs once more, and
  may come several times. The copy of a message that `PublishReplay` leaves is a batch of
  its own, under the identifier of a request that is then not made. A repeated XADD to
  the dead letter queue changes nothing here (`dlq` is a set, and a replay of a dead
  letter may leave it there); a repeated XACK has nothing left to do; an XREADGROUP whose
  reply is lost is a worker's death after `Read`.
- Others: `ClaimExpires` (24 h), `ServerCrash`, `RetryDLQMessage` (exported by the
  consumer and called nowhere; modelled as an operator's replay).

`Env` names the environment's events a run allows. *Definite* events are errors
after which the caller knows, or assumes rightly, that the call had no effect
it relies on. *Ambiguous* events make duplicates unavoidable for this design: a lost
reply of XADD (the call fails, or is repeated), of DEL (repeated: the keys may be others'
by then) or of an insert, an expired key, a replay of a dead letter. `slips` counts them
per event.

`unreadable` are the events of a request that no worker can unmarshal (`mapToStruct`).
`processBatch` counts and skips them: they are in no insert, and count as a failure only
when nothing of the batch was inserted. `Skipped` names what is lost this way without any
error, a span beside one of its batch that is stored.

Abstracted: the stream is a set (no property is about delivery order); payloads
are the multiset of events; a project's streams and keys are independent of
other projects' (the keys are in fact global, `dedup:span:<trace>:<span>`; ids
are assumed unique across projects). Left out: spans with an empty id (dropped by
the handler), the archive to S3, the 30-day TTL of streams and the 7-day TTL and
trimming of the dead letter queue, discovery of streams, the gRPC path's
missing organization id.

| Run | Shows |
|---|---|
| `ingest_definite` | With every definite error and crash: the pipeline implements `SpanStore` (`ImplementsSpanStore`); `StoredOnce`, and the inductive invariant `IInv`; the key of a stored span is never deleted (`StoredKeepsClaim`); a span answered as a duplicate is stored, in somebody's hands, dead, skipped, or was refused to a client that sent it (`DuplicateAnswerTrue`); a span that was acknowledged is stored, dead, or skipped beside a stored one (`AckedSpansSafe`). |
| `ingest_all` | With ambiguous events too: every one costs at most one row more (`DuplicatesAccounted`), and `AckedSpansSafe` holds as before. |
| `ingest_live` | With inserts and publishes that fail and spans that cannot be read: a key that refuses resends stands for data or for a skipped span (`ClaimsBacked`), the retry loop ends, and the dead letter queue gives the keys back. |
| `ingest_partial_ack` | *violation*: a batch of two event types of which one fails to insert is acknowledged, the failed type kept nowhere. |
| `ingest_pending` | *violation*: a message left pending "for retry" is never read again. |

`DuplicateAnswerTrue` leaves out the replayed claim: when the reply of the SETNX
pipeline is lost and the Redis client repeats it, the handler finds its own keys,
answers `all_duplicates` and stores nothing. `ClaimsBacked` needs claims and releases
to succeed: a claim that fails half-way releases nothing. Metrics and logs sent
twice are stored twice; no property asks otherwise.

Bounds: `ingest_definite` has three requests over two spans, once each, and two
workers; `ingest_all` one span that a request may carry twice, three batches of which a
repeated XADD takes one, one worker and two slips; `ingest_live` two requests over two
spans and two kinds of metrics, and two workers; one retry everywhere. Two requests and
two workers are enough for every race over one key, the third batch lets a key that was
given back be claimed again; retries beyond the first repeat the same step.

Fairness: a handler that was started goes on (a crash is an event of its own, and
the liveness run allows none) and `consumeLoop` runs for ever. Nothing is assumed
of clients.

Proved (`TelemetryIngestProofs`), for every number of requests, spans, workers
and retries. In every environment: `TypeCorrect`; `AcknowledgedIsSafe`
(`AckedSpansSafe`), from a few facts about where a message is and what its worker has
seen of its inserts; and `DuplicatesBounded` (`DuplicatesAccounted`). For the last
one, the rows of a span are too weak a measure: a second row is stored long after the
event that allowed it. The proof bounds a potential, a span's rows and its batches
that may still insert it, or are about to give its key back, and one more while nobody
has the key, by one and the ambiguous events so far; only these events increase it.

With fewer events: `DuplicateAnswersTrue` (`DuplicateAnswerTrue`) for environments
without a replayed claim; `EveryClaimBacked` (`ClaimsBacked`) where claims and releases
succeed and the server does not die; and without ambiguous events `InductiveInvariant`,
`SpansStoredOnce` and `StoredClaimsKept` (`StoredKeepsClaim`). `StoredOnce` alone is not
inductive. What carries it is `HoldersOwnClaims`: whoever may still insert
a span or delete its key (its handler before and during rollback, the stream, the
one worker that has the message) owns the key, and the span is not stored yet.
That is also why `ReleaseEvents` may delete keys without comparing them. It needs
`Places` and `Custody` (a message is in one place and one worker has it) and
`StoredIsClaimed`. `SpanRefinement` maps a span's owners to the batches that may still
insert it or release its key (`Owners`), and its rows to `rows`: the answer of SETNX
grants, an insert settles, a rollback or a loss gives up, and `IInv` is what makes
every grant one of a free span. It holds under the same condition, no ambiguous
events. The liveness properties stay with TLC.

## Human annotation queues

`AnnotationQueue` follows one queue. A service call is a process in `Calls`:
`Begin` reads the queue row, later steps work with what it read (`call[r].queue`).
`Check` reads the item and tests status and lock; `SubmitScores` and `Finish` or
`ReleaseLock` come after it, and any other call can come between. `ClaimNext` is one
step because `FetchAndLockNext` locks the row it selects and updates it in the same
transaction. `ListActive` and `ReleaseExpiredLocks` are the sweeper.

Time is the age of a lock, saturating at `MaxAge` above every timeout, so no run
needs a clock bound; `NoAge` is a NULL `locked_at`. `grant` is history: how long
ago a user was told an item is theirs. `Live(u, i)` means less than the lock
duration ago. A claim that excludes seen items and skips locked rows may return any
claimable item, so priorities are left out. Not modelled: creation and deletion of
queues, statistics, listing, how many score rows a submission writes.

| Run | Shows |
|---|---|
| `lease_in_time` | With three calls overtaking each other, aborts and lost replies: two users never hold a live lease on one item, of the users who finish an item at most one was in time, and the queue implements `Lease`. Allows no release and no update of the queue. |
| `queue_all` | With releases, stale updates of the queue and the timeout 0 that the API stores when it is given none: a refused completion leaves no scores (`ScoresFollowCompletion`), a finished item never returns to the pool (`NeverReopened`), and while the queue stays active a lock its user walked away from is released in the end (`AbandonedLockFreed`). |

With `lock_timeout_seconds` 0 (what a request with settings but no timeout stores)
the lease properties fail: only `ClaimNext` does not apply the default of 300 s, so
every lock looks expired to it. `LeaseAssumption` excludes it.

Bounds: one item (items do not interact), two users, two or three calls, a
timeout of one or two ticks, so that "just before", "exactly at" and "after" the
timeout are all reached. `queue_all` leaves out skipping (a completion without scores)
and deletion, which `lease_in_time` fires and the theorems cover, so that the graph
of its liveness check stays small. Fairness (`FairSpec`): time passes, the worker's
ticker fires, a call that was begun goes on; nothing is assumed of users.

Proved (`AnnotationQueueProofs`), for any users, items, calls, timeouts and
failures: `TypeCorrect`; `FinishedStaysFinished` (`NeverReopened`), with every
operation; `RefusedLeavesNoScores` (`ScoresFollowCompletion`), where no call is cut off
between its scores and its completion; and, while nobody releases or updates and the
timeout is positive, `LeaseInvariant`, `LeaseSafe` (`LeaseExclusive`),
`FinishedInTimeByOne` (`OneAnnotatorInTime`) and `QueueImplementsLease`. The invariant of
these: a user whose lease runs has the lock and the lock is no older than the lease,
unless the item is finished; a finished item is never claimed again; whoever finished in
time was alone. The refinement reads the tenants of an item off the running leases and
its finishers off those who were in time; every other step of a call or of the sweeper
is a stutter.

## Evaluation execution

`EvaluationExecution` follows one execution: its row, the server's request that may
have created it, the worker that emits its jobs, and a goroutine per job.

- A manual trigger: `TriggerEvaluator` creates the row (running, target 0), `Publish`
  puts the trigger message on its stream, the manual trigger worker takes it,
  `Discover`s the spans, sets the target (`UpdateSpansMatched`), emits the jobs
  and counts those it could not emit (`CountRefused`).
- An automatic execution: the evaluator worker creates the row with its target
  (`StartExecutionWithCount`) and emits and counts in the same way.
- XADD: a lost reply fails the call (`PublishError`, `EmitError`) or makes the Redis
  client send the message again (`PublishRepeat`, `EmitRepeat`). A copy of a job is a
  job of its own, of the same span, that is scored and counted too. A copy of the trigger
  is carried out after the first (`TakeTriggerAgain`): nothing looks at the status, so the
  target and the jobs are set a second time on the same row. That one worker process does
  this one after the other is assumed; two doing it at once is not modelled.
- Jobs: `TakeJob`, `Score` (scorer, retries and the write of the scores), `Count`.
- `ReadRow` and `WriteRow` are the two statements of `FailExecution` and
  `CompleteExecution`: a check of a row that was read, and an update of all its
  columns. `Incremented` is the transaction of `IncrementCountersAndComplete`.

`happened` and `lost` record the environment's events, so that one run has all of them
and a property can say under which it holds: `Reliable` is "no reply of an XADD was
lost", `Once` is "the trigger was not repeated". `Surplus` are the jobs in the stream
once too often: copies, and jobs whose XADD returned an error.
Matching, sampling and scoring are choices. Left out: `CancelExecution` and
`FlushExecutionStats` (nothing calls them), the evaluator cache, deletion of
executions, an execution whose row could not be created (its jobs count nowhere).

| Run | Shows |
|---|---|
| `evaluation` | With every event: an execution that was triggered `Once` completes only when all its spans are processed, but for as many as jobs are in the stream once too often (`CompletedMeansDone`, `CompletedAddsUp`); while `Reliable`, nothing is undone (`NothingUndone`) and `IInv` holds; an execution ends unless a write of its row failed or a process died (`ExecutionEnds`). |

`NothingUndone` really needs `Reliable`: with a lost reply of the trigger's XADD the
server fails an execution that is being carried out, and overwrites its counters; with
one of a job's XADD and a failed count, the worker does. And the two properties about
completion need `Once`: a second pass sets a new target on counters that are there
already, so it may complete before its spans are processed.

Bounds: three jobs, so that a batch can be partly refused, partly counted and
partly in flight, or have copies; two lost replies (`MaxLost`), which is one of the
trigger and one of a job, or two of the same kind; nothing else is bounded. Fairness: a request and a message that
are being processed are carried to their end and the consume loops run for ever; death
of a process and failed writes are events, which `ExecutionEnds` excepts.

Proved (`EvaluationExecutionProofs`), for any finite set of jobs and any environment:
`TypeCorrect`, `InductiveInvariant`, `ClosedStaysClosed` (`NothingUndone`),
`CompletionAddsUp` (`CompletedAddsUp`) and `CompletionIsTrue` (`CompletedMeansDone`).
`IInv` says where the processes can be together (`Places`), that whoever is
about to write has read what the row still is (`WritersAreCurrent`), and that the
counters count only finished jobs under the right target (`TargetAndTally`), the last
two while `Reliable`. What the two theorems about completion need is weaker and holds in
every environment while `Once` (`SInv`): the counters never exceed the jobs that were
counted and those that were reported as refused (`Tallied`), and the processes are where
the order "set the target, emit, count" puts them (`Together`). A completed row then has
no more unfinished jobs than there are in `Surplus`, by counting sets that do not overlap. `ExecutionEnds`
(liveness) stays with TLC.

## Billing: contracts and pricing

`TierPricing` has no state: `ValidTiers` is what the service asks of a list of tiers,
`Cost` the loop of `CalculateDimensionWithTiers` over the tiers in the order of their
starts (`Visited`: those that no earlier tier cuts off), and `CostByUnit` the
reference, every unit beyond the free ones at the price of its place. Division by the size of a
unit and rounding are left out.

`Contracts` EXTENDS it with the contracts of one organization and their tiers in
one dimension. A call reads a row with its tiers (`call[r].read`) and later saves
every column of it; gorm also saves the preloaded tiers, so a tier that was deleted
meanwhile comes back (`Save`). `AddVolumeTiers` and `UpdateVolumeTiers` are one step at
their commit; `Unlocked` are the rows a DELETE that had to wait does not see.
`ActivateContract` reads the active contract of the organization in a step of its own
(`ReadExisting`), expires it and activates its own. `ListExpiring`, `CheckActive` and
`ExpireContract` are the daily worker.

| Run | Shows |
|---|---|
| `contracts` | With two calls, the worker and errors: the tiers hold all rows of a request or none (`RequestsWhole`), a contract with one request's tiers is billed unit by unit (`BilledByPosition`), and an ended contract comes back only by a call that had read it before it ended (`EndedStaysEnded`). |

Bounds: two contracts (activation relates two), two calls (a race needs two), one
tick of time (before and after an end date), one request of tiers (a second one in
flight is what `RequestsWhole` is proved for), three lists: two tiers, a list with
an end, an invalid one. `MaxFree` 2 and `MaxUsage` 4 reach before, at and beyond
every end of a tier.

Proved (`ContractsProofs`), for any contracts, calls, finite lists and errors:
`TypeCorrect`, `InductiveInvariant`, `RequestsStayWhole`, `EndedContractsStayEnded`,
`PricedByUnit` and `BilledAsListed` (`BilledByPosition`). `RequestsWhole`
is not inductive, since a save puts back tiers that were read long ago; `IInv` says
of every snapshot in every call what it says of the table, and that a call about to
activate has read a draft. `BilledByPosition` has two halves. `PricedByUnit` is about the
algorithm alone: in a valid list a tier ends where the next begins or before
(`TiersInOrder`), so a tier that is not visited has nothing to charge (`NothingLeft`),
and a smallest usage for which loop and reference differ cannot exist, because one more
unit is charged by the tiers that have a place for it (`OneMoreUnit`). The other half
is an invariant, `Validated`: each row that is stored, or that some call may put back,
belongs to a request that passed the validation.

## Billing: usage and budgets

`UsageBilling` follows one organization and one budget in one dimension. The clock
counts hours. `UsageOf` is what ClickHouse counts: a period up to `Window` (7 days) is
summed by hours, a longer one by whole days that start in it. A worker's cycle is
`BeginCycle` (reads the row), `ResetPeriod` when the period is over,
`GetUsageSummary`, `QueryBudget`, `Commit` (`SetUsage` and the budgets in one
transaction), `CheckBudgets`, `CreateAlert`, or `RefuseAlert` where the percentage does
not fit in the alert's column (`Overflows`), and `SendAlertNotification`. Several workers run
the same cycle, one in each process. `BeginUpdate` and `UpdateBudget` are a user's
save of a budget row read earlier.

| Run | Shows |
|---|---|
| `usage_billing` | With two workers in any order, stale saves, errors and crashes: neither figure exceeds what was used (`NeverOverbilled`); a threshold is emailed at most once (`EmailedOnce`); the bill catches up with the usage again and again (`CatchesUp`); a threshold that is used up has an alert in the end, at it or above it, unless the usage is past what the column of an alert has room for (`LimitAlerted`). |
| `period_rolls` | *violation*: the statement that starts the next period names a table that does not exist, so a period never rolls over and the organization's usage is no longer synced. |

Bounds: two workers; months of two days and one day of two hours each and a window of
two hours, so that a period that starts in the first hour is counted by the hour and, in
its last hour, by the day; four hours, one unit of usage and one edit, which is enough
for one stale figure to be written over a newer one; limits of which the unit is a half
and all, thresholds 25 and 50, and room for less than 100 % in an alert (`MaxPercent`,
1000 in the code), so that an alert is created for one limit and refused for the other. Fairness: a worker's ticker starts cycle after cycle and a step
that is enabled is taken (WF); an error or a crash ends a cycle and the next one
tries again, so a step that is tried again and again succeeds in some cycle of some
worker (SF per kind of step). `QueryBudget` counts as a success only with a figure,
since its error is logged and the cycle goes on (`Counted`). `LimitAlerted` excepts
budgets that are not active, a period that is over, which no cycle leaves, and usage
past `MaxPercent`; an alert of an earlier period satisfies it, since the code creates none
while that one is there.

Proved (`UsageBillingProofs`), for any workers, thresholds, periods and failures:
`TypeCorrect`, `AlertsEmailedOnce` (`EmailedOnce`) and `NothingBilledTwice`
(`NeverOverbilled`). `EmailedOnce` needs that whoever is about to send an email has
inserted the alert himself, so nobody has sent it or is about to (`Notifying`); the
unique index on alerts carries it. `NeverOverbilled` needs its bound for the figures in
the hands of workers and users as well, and that the usage of a period is a part of the
usage since the organization was provisioned (`Within`): hours are only added to.

`SumTheorems` is what these sums rest on. The fold behind `MapThenSumSet` takes the
elements of a set away in an order of its own; `TotalOf` frees the result from it. The
induction theorems of the library take an operator as a parameter, so the proofs
take a minimal counterexample among the subsets instead (`MinimalMember`).

## Prompt registry

`PromptRegistry` follows one project. A call begins by reading the prompt's row
(`Reads`) and keeps it; the steps after it are the statements that follow.
`CreatePrompt` is one transaction. In `CreateVersion` the transaction is three steps:
`ReadNumber` is the snapshot of `GetNextVersionNumber`, `LockVersions` the moment its
FOR UPDATE is granted, `CreateVersion` the commit, where the unique index refuses a
number that was taken. `SetLabels` is no transaction: `ListLabels`, `RemoveLabel` and
`SetLabel` are statements of their own. `Store` is GetPrompt filling the cache with what
it read earlier. Who has written owes the cache an invalidation, a `Scan` for the keys
of a name and a `Drop` of what was found.

`missed` is history: entries that nobody will drop though they may be stale. The code
leaves them in four cases: a reader stores what was overtaken; a call fails or is
refused half-way; the deletion of keys fails (only logged); a call writes to a prompt
that was renamed since it read it. `CacheFollows` says that these are all: any other
stale entry is about to be dropped by a call under way.

| Run | Shows |
|---|---|
| `prompts` | With two calls on two prompts and two names, errors and crashes between any two steps: `LatestIsHighest`, `CacheFollows`, and a deleted prompt comes back only by an update that had read it before (`DeletedStaysDeleted`). |

Bounds: two versions (a number can be taken once), two names (a prompt can be renamed
and its name given to another), one label to set and to ask for: entries of two
labels share nothing but the invalidation, which drops all keys of a name. Calls may
stop for ever, so deadlock is not checked.

Left out: the table of protected labels (a label is refused or not), versions asked
for by number (a cache key of their own that the same pattern drops), the list of
labels inside a cached response, the other columns of a prompt, listings, diffs and
compilation, `UpsertPrompt`'s choice between the two creations, and `RemoveLabel`,
`GetVersionByLabel`, `Restore` and hard deletion, which no handler calls.

Proved (`PromptRegistryProofs`), for any prompts, names, labels and calls, with and
without failures: `TypeCorrect`, `LatestNamesHighest`, `DeletedStays` and
`CacheIsFollowed`. `LatestIsHighest` needs the types alone: a version's number, its row
and the label are written by one commit, and the service never lets a request name
`latest`. `CacheFollows` is inductive with the types, because it names for every stale
entry the call that will drop it: a writer owes the names it knows
(`WriteStep`), scanning finds every entry that is stale by then (`ScanFollows`), and
only what was found stops being owed (`DropFollows`).

## Observations

What the code does and no property forbids, met while modelling:

- Two calls that both read a pending item overwrite each other's outcome
  (`item_service.go:187`), and a release that was overtaken takes the lock of whoever
  holds it then (`item_service.go:455`).
- Scores that were written before the update of their item failed are written again,
  under new ids, by the client's retry (`item_service.go:215`).
- A paused queue is not swept: abandoned locks stay until it is active again.
- When no job of a manual execution can be enqueued, counting the failures completes
  the execution before `FailExecution` is refused.
- Two replacements of a contract's tiers at the same moment leave both lists
  (`contract_service.go:360`).
- A contract that was renewed after the expiration worker listed it is expired: the
  worker reads again only its status (`contract_expiration_worker.go`).
- The email of an alert is lost when the queue is full or the process dies, and alerts
  are never resolved, so a threshold is alerted about once ever; migration
  20260110120117 speaks of a new alert after 24 hours.
- A month added to the 29th to 31st overflows into the month after
  (`usage_aggregation_worker.go:644`).
- A span that cannot be unmarshalled is lost when another event of its batch is stored:
  it is counted and skipped (`telemetry_stream_consumer.go:594`), the message is
  acknowledged (777), nothing goes to the dead letter queue, and its key turns resends
  away for 24 hours. An input token count of -1 does it: it becomes 18446744073709551615
  (`otlp_converter.go:861`) and, in the worker's map, a float64 that fits no uint64.
- A repeated XADD of a trigger (`evaluator_service.go:349`) carries out the execution
  twice; a repeated job is scored and counted twice.
- An alert at 1000 % of the limit or more does not fit in `percent_used DECIMAL(5,2)`
  (migration 20260105011312): its INSERT fails in every cycle and is only logged
  (`usage_aggregation_worker.go:367`), so a budget that is first seen there is never
  alerted about.
- The dead letter queue is trimmed without giving claims back.
- A stream that expired and was created again between two discoveries has no consumer
  group (`telemetry_stream_consumer.go:203`).
- A second creator of a version waits for FOR UPDATE, takes the number of its own
  snapshot and fails on the unique index.
- `SetLabels` refused half-way leaves labels changed and the cache as it was.
- A label that reads like `v2` shares its cache key with version 2.
- An update that overtakes a deletion brings the prompt back.
- A refresh of a session reads, checks and updates without a transaction
  (`auth_service.go:217`).

## Proved and only model-checked

Proofs need no bounds: parameters are arbitrary, with the assumptions named in each
module (`ASSUME`), which TLC evaluates for its instances. Theorems state every
invariant and every action property of the passing runs, and both refinements. A
theorem about part of the environments says which in its `ASSUME`; the run of its
property allows no others.

Only model-checked is liveness under fairness, which the provers here do not reach:
`QueuedSettles`, `DeadLetterFreesClaims`, `AbandonedLockFreed`, `ExecutionEnds`,
`CatchesUp`, `LimitAlerted`. The properties of the three runs that expect a violation
are refuted, so there is nothing to prove.

## Not modelled

`PROJECT.json` lists every component with its status. Queue assignments, comments,
reactions and rate limiting are single statements or scripts that nothing interacts
with; queries, dashboards and analytics have no state of their own; playground, model
providers and credentials are calls of external services; configuration, migrations
and start-up are sequential or driven by libraries; the web dashboard and the SDKs are
clients, seen as the requests they send; enterprise features are stubs. Sessions,
invitations, experiments and dataset versions, stream discovery and the notification
queue have state worth modelling and are next in the plan.
