# Weewoo: models, checks and proofs

Weewoo collects metrics of services from Prometheus, learns from them how
latency goes with load (and load with the time of day), compares every new
collection with what it learned, and raises alerts that it shows in its own
interface and hands to Alertmanager. This directory holds TLA+ specifications
of the parts of the server (`src/internal`, `src/cmd/weewoo-server`) in which
goroutines, transactions and failures interleave; the configurations that check
them with TLC; and proofs for TLAPS.

    tlc -workers 2 -config IntervalScheduler.cfg MCIntervalScheduler.tla
    tlapm IntervalSchedulerProofs.tla

## 1. Inventory

### Components

| Component | State | Operations | Correct when |
|---|---|---|---|
| Interval scheduler (`collection/intervals.go`) | one goroutine owns a map from callback id to `{interval, lastEnd, next window, attempt, inFlight, disabled, removeAfter, pending update}`; one timer; a goroutine per invocation | `AddCallback` (add or update), `RemoveCallback`, `Stop`; dispatch, completion, timer | the successful windows of a callback are contiguous, aligned after one transition window, never overlapping, never of the future; nothing due is forgotten; `Stop` leaves nothing running |
| Backoff policy (same file) | none | `Delay(interval, attempt)` | positive, monotone, within the interval, one hour and the policy's own maximum |
| Collector (`collector.go`, `window_processor.go`) | none of its own | a callback per service: query Prometheus, write two chunks, submit two analyses; on failure put the window in the backlog; `Import` of a range | a window the scheduler moves past is collected or in the backlog |
| Recovery queue (`recovery.go`) | table `collection_backlog`, a worker per service | `Register`, `Unregister`, `EnqueueFailure`, `processOne`, `Stop` | oldest first; every window is recovered, or expires with a gap alert; nothing lost in a crash |
| Chunks and verdicts (`ecdf/database.go`) | tables `time_chunk`, `verdict`, each row with its generation | `WriteChunk`, `WriteVerdict`, `CountEligibleChunks`, `ScanGoodChunks` | old generations never overwrite or count for a new one |
| Analysis worker and analysis (`analyzer_worker.go`, `analyze.go`) | two bounded channels in memory, one goroutine | `Submit`, `SubmitContext`, `Stop`; active generation, reference, test, verdict | each result goes to the generation it was computed for; live before historical; repeated recording has no further effect |
| ECDF builder and joint store (`builder.go`, `ecdf/joint_database.go`) | table `ecdf`; PostgreSQL advisory lock per service and indicator | hourly build, build after an import: readiness, lock, re-read, build, commit, trim | one version per interval; no version of an earlier generation |
| Service configuration (`config/database.go`) | table `service` with revision and generation | write, update, reset baseline, pause, delete | optimistic revisions; a material change starts a generation and drops the ECDFs |
| Alert manager (`alerting/manager.go`) | tables `alert`, `alert_occurrence`, `alert_outbox`, `alert_event` | good, bad or failed analysis; failed or successful collection; interrupt, close, review, retention | one firing alert per condition; severity and resolution follow occurrences and reviews |
| Outbox dispatcher (`alerting/outbox.go`) | one goroutine; rows of `alert_outbox` | claim, re-read the status, send, commit; backoff; refresh; retention | what Alertmanager holds follows the alert; every row is settled |
| Service API (`api_services.go`, `main.go`) | none of its own | create, update, pause, resume, reset, delete: database, scheduler, alerts, in an order per handler | no update is lost or reverted; the schedule is that of the row; a paused or deleted service is quiet and has no firing alert |
| Imports (`monitoring.go`, `import_store.go`) | jobs in the memory of each server and in a table, with owner and heartbeat | start, progress, cancel, restart | each job ends in one final state that says what happened; a live import is not taken for a dead one, nor a dead one for live |

The other parts (statistics and encodings, HTTP adapters that read, rendering,
migrations, the web interface, test doubles) have no interleaving of their own;
`PROJECT.json` lists them with the reason they are not modelled.

### Interaction

The scheduler calls the collector, which writes chunks, submits requests to the
analysis worker (channels in memory) and failed windows to the recovery queue
(table, then an in-memory wake). The worker reads the service and the newest
reference, and records through the alert manager, which writes the verdict, the
alert and the outbox row in one transaction. The dispatcher polls the outbox,
calls Alertmanager over HTTP, and commits what came of it. The builder, run by
the same scheduler, reads verdicts and chunks and publishes references. The
service API changes the `service` row and then, step by step, the scheduler,
the recovery queue and the alerts. Everything shared between processes is in
the database.

### What is hard here

* requests to the scheduler that meet an invocation in flight;
* reads that are acted on after the lock or the transaction they were made in:
  status before send, generation before build, service before collection;
* an HTTP call whose answer is lost, retries overtaken by later rows, a crash
  between send and commit;
* the same recording repeated after a commit whose answer was an error;
* reviews that resolve and reopen alerts while chunks come in;
* old generations outliving a change of the service;
* handlers without a lock per service that write a whole row from a copy, and
  then change the schedule call by call, or not at all when the commit is answered
  with an error;
* work on a service that goes on after it was paused: invocations that a removal
  does not wait for, goroutines that do not look at their stop channel;
* queries of Prometheus without a deadline;
* servers that overlap at a deployment, each with a memory of the same import;
* restart: what is in memory (schedule, requests, wakes) is gone.

`PROJECT.json` has each of these as a hazard at its line, with the properties
that would show it going wrong or the reason there is none yet.

## 2. Modules

| Module | Models | Configurations |
|---|---|---|
| `ContiguousWindows` | abstract: cursor and attempt per stream | (a property of `IntervalScheduler`) |
| `IntervalScheduler` | `intervals.go` | `IntervalScheduler`, `_readd` |
| `ExponentialBackoff` | `ExponentialBackoffPolicy.Delay` | (extended by `IntervalScheduler`) |
| `RecoveryQueue` | `recovery.go`, `window_processor.go`, the callback of `collector.go` | `RecoveryQueue`, `_retry` |
| `AlertOutbox` | `manager.go`, `outbox.go`, Alertmanager | `AlertOutbox_reviews`, `_delivery`, `_resolution` |
| `PublishedReferences` | abstract: the versions kept, a publication and a change as one event each | (a property of `ReferencePublication`) |
| `ReferencePublication` | `ecdf/database.go`, `joint_database.go`, `builder.go`, `model.go`, `analyze.go`, the update in `config/database.go` | `ReferencePublication_postgres`, `_sqlite` |
| `ServiceRegister` | abstract: one record per service, changed at once | (a property of `ServiceLifecycle`) |
| `ServiceLifecycle` | handlers of `api_services.go`, reads and transactions of `config/database.go`, the restart in `main.go`, composed with the callbacks of `collector.go` and `builder.go`, the goroutines of `recovery.go`, the analysis worker and the alerts | `ServiceLifecycle`, `_quiet` |
| `AnalysisQueue` | `analyzer_worker.go` | (extended by `ImportJobs`) |
| `ImportJobs` | `monitoring.go`, `import_store.go`, `Import` in `collector.go` | `ImportJobs` |

The proofs are in `IntervalSchedulerProofs`, `IntervalSchedulerRefinement`,
`RecoveryQueueProofs`, `AlertOutboxProofs`, `ReferencePublicationProofs`,
`ServiceLifecycleProofs` and `ImportJobsProofs`, each about the module it is named
after; `NatRecursion` has the lemmas on recursive functions that several use.

`MC*` modules give the constants their values. A definition that a comment
introduces with "Mutant:" is not used by the specification: it is a mistaken
variant of the definition that follows it, and putting it in place of that
definition makes a property fail (`PROJECT.json`, "mutants").

### IntervalScheduler

`states` is the loop's map, `running` the callback goroutines with the result
they are about to hand in, `phase` says whether the loop is at its head
(`pass`), waits (`select`) or has returned, `stop` is `stopReq`/`done`.

| Action | Code |
|---|---|
| `DispatchDue`, `Drain` | head of the loop: dispatch all that is due, re-arm the timer; when stopping, wait for the invocations in flight and close `done` |
| `AddCallback`, `AddRejected` | `handleAdd`: a new callback, an update of an idle one, a pending update of one in flight; `ErrSchedulerStopped` |
| `RemoveCallback` | `handleRemove`: cancel; `removeAfter` when in flight |
| `Stop` | the first stop request: cancel everything in flight |
| `Return`, `HandleCompletion` | the callback returns; the loop receives the completion |
| `TimerFires`, `Tick` | the timer; the clock |

All request and completion channels are unbuffered, so sender and loop take one
step together. Times are integers; `Truncate` is Go's, counted from the zero
time. `asked` is a history variable: the interval of the last accepted
`AddCallback`, or `None` after a removal.

`ContiguousWindows` is what a client may rely on: per registered stream a
cursor that only a successful attempt moves, exactly to the attempt's end, and
at most one attempt outstanding. The refinement maps the cursor to `lastEnd`
and the attempt to the goroutine with its result; `ImplementsContiguousWindows`
is checked as a property.

### AlertOutbox

An action is one transaction or one HTTP call. Alerts of one service are modelled:
a condition per indicator, one analysis impairment, one collection failure.
`alert_outbox` is kept as what the code asks of it: its pending rows in the order
of their ids, the severities of an alert with a delivered firing row
(`delivered`), and the severity of its latest firing payload (`form`).
`next_attempt_at` is abstracted to due, waiting (backoff) or claimed (lease). `am`
is external: the forms of an alert that Alertmanager holds, keyed as its labels
are by alert and severity. (The label `instance` is the same for all: the setting
`alert_generator_url`, which nothing in the program writes.) `unrecorded` is a
history variable: forms that Alertmanager took while their delivery had not been
recorded with the alert still firing. `Abandon` stands for a database error and
for a crash of the process alike: the row keeps its lease until it runs out.
`enqueueRefreshes` is one statement and so one step; on PostgreSQL its snapshot
may be a little older than its inserts, which the next delivery of the same row
corrects and the model leaves out.

### ReferencePublication

One indicator of one service. `chunk[t]` is the generation of a row of
`time_chunk`; `verdict[t]` has its own generation, the state, and the review;
`ecdf` is the table in the order of versions, a body abstracted to the
generation it was built from. A publication goes through `ReadService`,
`MeasureReadiness`, `OpenPublication` (lock and first check), `RereadService`,
`BuildJointECDF`, `Publish` (second check, insert, trim); `FailPublication` is
an error, the build timeout or a crash, and releases the lock. With `Backend =
"postgres"` the lock is held from `OpenPublication` to the end and
`ChangeGeneration` waits for it; with `"sqlite"` there is no lock and the single
connection is free during the build. The analysis is split at its reads:
`StartAnalysis` (active generation), `ReadReference`, and one of
`RecordBaseline`, `RecordResult`, `RecordAnalysisFailure`, `RetryAnalysis`.
`occurrences` are the chunks with a row in `alert_occurrence`: a live bad result
makes one, and a review may come to it from then on, whatever has become of the
verdict. `judge` is history: the generation of the reference that a historical
analysis compared the chunk with.

`PublishedReferences` is what a reader of the references may rely on: a change of
the generation drops all versions at once, and a publication adds, at once, one
interval that is not there, of the generation in force, in place of the oldest if
as many are kept as may be. On PostgreSQL the four transactions of a publication
implement that one event; on SQLite they do not (`publication_sqlite`).

### RecoveryQueue

One service. `backlog[w]` is the row of a window in `collection_backlog`:
its state, and of `next_attempt_at` and `expires_at` whether they are reached.
`chunks`, `firing` and `gaps` are what collection leaves in the other tables:
the chunks of a window, the alert on failed collection, and the gaps reported.
`scheduled`, `window`, `live` and `passed` are the scheduler's side of the
service, `target`, `workers` and `cancelled` the queue's; a worker's `step` is
the statement of `processOne` it comes to next, and `window` the row it holds.

| Action | Code |
|---|---|
| `Schedule`, `Unschedule` | the methods of `collector`: `Register` and `AddCallback`, `RemoveCallback` and `Unregister`, which does not wait for its goroutine |
| `Stop`, `Restart` | `RecoveryQueue.Stop`; the end of the process and the loop in `main.go` that schedules again |
| `StartLive`, `CollectLive`, `ResolveLive`, `EnqueueFailure` | the callback of a window: collection, then the resolution of the alert, or the transaction of row and alert with success or retry as its answer |
| `Read`, `ReadFails`, `ResolveCollection` | the `SELECT` of the oldest open row; no row: the alert is resolved |
| `MarkCollecting`, `CollectWindow` | the attempt; `written` and `submitted` say how far it comes |
| `MarkRecovered`, `Reschedule`, `RecordCollectionFailure` | its outcome |
| `ExpireWindow`, `RecordGap` | the row is over its retention |
| `WakeUp`, `Return` | the `select` of `run` |
| `Ripen`, `Age` | the two times of a row are reached |

Each statement succeeds or fails (`ok`), none succeeds once the queue's context
is done, and the process may end before any of them. Each of the alert
manager's operations is one step (`AlertOutbox` has what is inside). A wait may
end at any time, which stands for the timer and for every wake signal. A window
whose collection had begun when its callback was removed, or when the process
ended, is dropped, because the schedule starts again from the present. A
callback removed in flight and added again goes with the removal, as
`scheduler_readd` shows of the scheduler. `Schedule` and `Unschedule` are one
step each: handlers that run at the same time are in `ServiceLifecycle`.
Requests stop before the queue does (`main.go` shuts its servers down first),
so neither happens once `cancelled`.

### ServiceLifecycle and ServiceRegister

One service. `row` is its row, `handler` what each request being served has come
to: it has read the service (`base`), or it has committed and has calls to make
(`todo`). A handler is `Read`, then one transaction (`Create`, `UpdateService`,
`DeleteService`), then its calls one by one: `Register`, `AddCollect`,
`AddBuild`, `Unregister`, `RemoveCollect`, `RemoveBuild`, `CloseService`, in the
order of the handler (`Follows`). The transaction compares the revision the
handler (or the client) expects with that of the row and writes the whole row
from the copy that was read; a commit may be done and answered with an error
(`LoseAnswer`), and then the calls are not made.

`config` is a writing of what a material change is about: the URL, the queries,
the interval. `ReadService` parses the URL and renders it again, so a handler
holds `Presented(row)`, with the writing `Rendered[config]`; `Material` compares
the writing stored with the one to be written, as the code does. Two writings of
which one is rendered as the other are enough to tell the two comparisons apart.

| Action | Code |
|---|---|
| `Create`, `Read`, `UpdateService`, `DeleteService` | the read of a handler and its transaction |
| `Register`, `Unregister` | the calls on the recovery queue: a goroutine is started, or the entry goes and its goroutine, which nobody waits for, will find its stop channel closed |
| `AddCallback`, `RemoveCallback` | the calls on the scheduler, for the collection and for the builder: a callback in flight is cancelled and goes when it returns (`removing`), and one that is added behind that goes with it |
| `Start`, `Live`, `Build` | an invocation begins; the collection ends with its samples written or the window in the backlog; the build ends |
| `TakeWindow`, `Defer`, `Expire`, `NothingOpen`, `Recover`, `FailRecovery` | a turn of `run`: what `processOne` finds, and how the attempt ends; after a window that was worked on the goroutine looks again at once |
| `WakeUp`, `Return` | its `select`: timer or wake; the stop channel |
| `StartAnalysis`, `StartHistorical`, `FinishAnalysis` | the worker: a live analysis asks for the generation and records, a historical one touches no alert |
| `CloseService`, `Restart` | all firing alerts are resolved; the process ends at any moment, and `main` schedules again |

`target` is the entry of the recovery queue, with the service and the goroutine
it has; `callback`, `flight` and `removing` are the scheduler's; `goroutine` are
the goroutines of the queue, registered or not, at most as many as `Goroutines`;
`backlog` are the open windows, oldest first; `queue` and `history` the two
channels of the worker, `analysing` what it is at, and `firing` the kinds of
firing alerts. The failure of the statement that expires a row, and the wake
signal, are left to `RecoveryQueue`; windows and retries of the callbacks to
`IntervalScheduler`.

Two history variables mark what the code leaves to chance. `astray`: two handlers
made their calls at the same time, or the calls that should follow a commit were
not made because its answer was lost, so the schedule may be that of an earlier
row until a later request sets it alone. `lost`: the callbacks that were added
while a removal of them was in flight, which loses them (`scheduler_readd`).

`ServiceRegister` is what a user of the API may rely on: one record that each
request changes at once and only in what it asks for. It knows of the two
writings as well: what a request other than an edit writes is the rendering
(`Switch`, `ResetBaseline`), and a generation is begun exactly when the writing changes or the
baseline is reset. So a pause never reverts an edit, but it may begin a
generation (section 5). The refinement maps it to the row; every step of a
handler but its transaction is a stutter.

### AnalysisQueue and ImportJobs

`AnalysisQueue` counts the requests in the two channels of the analysis worker.
`FirstSelect` and `SecondSelect` are the two `select`s of `run`: the first has
the live channel and a default, the second both channels; among ready cases Go
picks at random. `Submit` never waits, `Enqueue` is `SubmitContext` that has
found room, `StopWorker` and `Exit` its end. `overtaken` counts, as history, the
historical requests taken while a live one waited.

`ImportJobs` extends it with one import. `row` is the job in the table, `memory`
the job as each server has it, `phase` a server's life, `task` the goroutine of
the import at the step it comes to next.

| Action | Code |
|---|---|
| `Load`, `MarkStale`, `NothingToMark`, `End` | a server reads the table, looks at a job that is not final (with the row as it is by then), and is up; it ends with all it holds in memory |
| `Start`, `Cancel` | `start` (the row first, then goroutine and heartbeat), `cancel` |
| `Begin`, `CollectWindow`, `SubmitContext`, `SubmitEnds`, `WindowCancelled`, `UpdateProgress`, `ImportReturns` | `run` up to the return of `Import`, window by window |
| `UpdateSummary`, `FinishFailed`, `StartBuild`, `Build`, `FinishComplete` | the rest of `run` |
| `Heartbeat`, `Tick` | the heartbeat's goroutine; the clock, one unit per heartbeat |

`Store` is every write of the job: it always reaches memory, and the table only
if the statement succeeds and the row still has the job's owner. `checked` (when
a server looked at what it loaded) and `handed` (the analyses queued) are
history. Heartbeats and looks fall somewhere between two ticks, so one that is
`Timeout` ticks back may be found on either side of the limit: `SeemsStale` lets
a server interrupt it, `Stale` makes it. A job that was cancelled has no heartbeat
any more while its last query returns, and may be interrupted meanwhile; the
property says so.

### ExponentialBackoff

`Delay` with its clamps over natural numbers (seconds); a policy is a record whose
fields are zero when they are not set, as in the code. `math.Pow` is the recursive
function `Power`. The code computes in floating point and the model in integers:
results below the clamp are exact for whole multipliers, which is what the model's
policies have. The program itself has only the policy without any field set, which
doubles from one second (`NewIntervalScheduler` is called without options);
fractions as multipliers are left out. The scheduler takes the delay of every
retry from `Delay` with its constant `Backoff`. `MCIntervalScheduler` assumes, so
that TLC evaluates it, that delays are positive and within each limit for 36
policies around each clamp, six intervals and fourteen attempts;
`DelaysAreBounded` proves it for every policy.

## 3. Runs

| Run | Shows | Bounds |
|---|---|---|
| `scheduler` | windows stay contiguous and realign to the boundary of the active interval, the latest update wins; flags match goroutines, the timer covers the earliest callback, a removed callback stays removed, `Stop` cancels, drains and ends; the loop implements `ContiguousWindows`; the count of failures and with it the delay grows with each failure and starts afresh with a success or an update; everything due is dispatched; an invocation that was cancelled or has returned is handed in, and `Stop` ends | one callback with intervals 2, 3, 4 (dividing and not dividing each other), a `WithLastEnd` off every boundary, three attempts, clock 5..11; a second callback beside it until 6 |
| `scheduler_readd` (violation) | an accepted `AddCallback` is lost behind a removal in flight | one callback |
| `alerts_reviews` | an anomaly goes on exactly while an occurrence is not accepted, each chunk counts once | two alerts in a row, two chunks, one failed collection, two reviews per occurrence, threshold 2 |
| `alerts_delivery` | forms of a resolved alert are withdrawn (but for a hand-off under way), no firing waits after the resolution, a firing alert reaches Alertmanager again and again in its present severity, resolutions drain | one alert through escalation, resolution, reopening; three pending rows |
| `alerts_resolution` (violation) | the hand-off that races a resolution is never withdrawn | as above |
| `publication_postgres` | publications and changes are single events on the list of versions, so that no reference of an earlier generation survives (refines `PublishedReferences`); one version per interval, readiness counts what is built, a historical result keeps its generation | two publishers, three intervals (two versions kept), one chunk, two queued analyses, three generations |
| `publication_sqlite` (violation) | on SQLite the commit of a publication follows the change that should have dropped it | as above |
| `recovery_queue` | no window is lost between scheduler, backlog and chunks; one goroutine is in charge; while a service stays registered its backlog is settled and the alert ends; goroutines that were told to stop return | two windows with one goroutine; one window with two goroutines, of which one has been told to stop, and with the end of the queue |
| `recovery_retry` (violation) | a window whose chunks are persisted is collected again because its analysis could not be queued | one window |
| `lifecycle` | concurrent requests are atomic changes of one record (refines `ServiceRegister`); between requests the schedule is that of the row; a service that stays paused or deleted comes to rest | two requests at a time, two writings of a configuration of which one is rendered as the other, three revisions, two windows, two goroutines of the recovery queue, channels of one, lost answers, failed calls and crashes |
| `lifecycle_quiet` (violation) | a collection in flight at a pause opens an alert after the pause has closed them | one request, two revisions, nothing fails |
| `imports` | a live import is not interrupted, a dead one is, a final job stays final, a complete one is whole and not cancelled, live analyses wait for one historical one at most, a cancelled import ends and so does one whose queries return | two servers, one import of two windows, channels of one, one lost write, timeout 3, clock 0..4 |

Why these bounds are enough. A callback of the scheduler shares only the timer,
the loop and the stop with the others, so windows need one callback and the
loop needs two; `SharedBound` keeps the second to one interval and one retry. It
forbids requests, ticks and outcomes only, so that fairness means the same under
it. Escalation needs as many chunks as the threshold, so two with
threshold 2; reviews need two occurrences, and a second alert after the first.
Delivery interleaves at most one firing per severity, their resolutions and a
refresh: with three pending rows the refresh and the reopening meet the retired
warning. `MaxPending` is a guard on the actions that add rows. In the reference
model chunks meet only in the count of the readiness, and the properties on
chunks speak of one timestamp at a time, so one timestamp and two queued
analyses of it (of different generations) give the races; trimming needs one
interval more than is retained. Publishers and intervals are symmetric.

In the recovery queue windows meet only in the order of the `SELECT`, for which
two are enough (an older row that waits or expires before a younger one), and
goroutines only on a row, for which one is; `MCRecoveryQueue` therefore lets the
second goroutine, and the end of the queue, come only while a single window has
fallen due (`TwoWindowsBound`).

A lost update needs two handlers and a revision between the read and the commit
of one of them; an edit of the latest record needs a second writing, and a
third revision lets a handler meet the second one's result. `Bound` of
`MCServiceLifecycle` lets both be served at once while nothing is in hand but a
live collection and a goroutine that looks at the backlog; one at a time meets
recovery, builds and analyses as well. No more than two windows, invocations and
analyses are in hand: a collection and the build, both behind their removals; a
goroutine that was unregistered and its successor, each with a window, or one
with a window in hand and another ready; what a window leaves in the worker's
channels. Nothing new is begun while the schedule is astray, for which the
properties promise nothing until it is set again. The bound forbids
beginnings, and an outcome that would leave more in hand (a window recovered by one
goroutine while another still has it); each becomes possible again when
something in hand has ended, and no goroutine is left without a step, so it does
not help anything to come to rest. The view leaves out `firing`, on which no
guard and neither temporal property depends.

In `imports` two windows give a window after the first and counts of both kinds;
one slot per channel makes every submission wait; the second server loads at the
earliest after the timeout, so that it finds heartbeats just young enough, just
stale, and one lost in between. Live requests and the end of the worker come at
the first instant, in which the collection may come to any of its steps, and a
write fails in the second one (`Arrivals`, `Failures`, `SecondServer`).

`CHECK_DEADLOCK FALSE` is set where the system may stop: the scheduler after
`Stop`, the clock at `MaxTime`, the lifecycle of a deleted service, an import
that has ended, and the alerts and references when the bounded supply of chunks,
reviews, generations or windows is used up.

### Fairness

Scheduler (`FairSpec`): the loop's goroutine runs (weak fairness of its head
and its timer); a callback that was cancelled returns (`CancelledReturns`); a
completion that stays ready is received (strong fairness of `HandleCompletion`:
Go's `select` picks at random among ready cases, so requests cannot shut it out
for ever). That a callback returns which nobody cancels is not assumed: its
context is `context.WithCancel(context.Background())` (`intervals.go:528`) and
the Prometheus client has no timeout (`prometheus.go:26-56`), so that a live
collection may wait for an answer for ever. Requests are not fair.

Alerts (`FairSpec`): the dispatcher's tickers run and `select` is random among
them; a database transaction tried again and again commits at some time, and
Alertmanager answers at some time (strong fairness of `ReadStatus`,
`Send(TRUE, TRUE)`, `RecordDelivery`, `EnqueueRefreshes`); backoffs and the two
minutes of a refresh pass. Chunks, reviews, failures and crashes are not fair.

Recovery queue (`Fairness`): a goroutine takes its next step (statements and
collections have deadlines); its `select`, entered again and again once it was
told to stop, takes that case at some time (strong fairness of `Return`: `select`
is random among ready cases); a window reaches its expiry. Live collections,
`Ripen`, requests and crashes are not fair. The liveness properties have
`Healthy` as their premise: from some time on no statement fails without which
the queue cannot go on: the read of the backlog, the resolution of the alert, the
expiry of a row, and the transaction of a live failure. Collections, and all
other statements, may go on failing.

Service lifecycle (`Fairness`): a handler makes its calls; a build (`builder.go:133`),
a recovery (`recovery.go:261`) and an analysis (`analyzer_worker.go:164`) have
deadlines, a live collection only ends for sure once it is cancelled
(`CancelledLive`); a goroutine that waits again and again with its stop channel
closed takes that case at some time (strong fairness of `Return`). That it waits
again and again is not assumed: it follows because a service that is paused adds
no windows. Requests, windows that fall due and crashes are not fair.

Imports (`Fairness`): the goroutine of the import runs but for its query, which
has no deadline either (`monitoring.go:182`) and returns for sure once the import
was cancelled; the analysis worker runs, analyses having deadlines, and its second
`select` picks a historical request at some time if it finds one again and again
(strong fairness of `HistoryPicked`). The clock, requests and the end of a server
are not fair. `ImportEnds` says that a cancelled import ends, without exception, and
that any import ends unless one query waits for ever (`<>[]Querying`) or the
first `select` finds a live request every time from some time on
(`LiveWorkForEver`): it prefers the live channel, so nothing bounds how long
historical requests wait behind an unbroken stream of live ones. Live requests
that come again and again, with the queue empty in between, are no exception.

## 4. Proofs

Every theorem holds for all values of the constants that satisfy the named
assumptions of the module it is about.

`IntervalSchedulerProofs`: `TypeCorrect`, `InFlightFlagsAreTrue`
(`InFlightMatchesGoroutines`), `NoGapNoOverlap` (`WindowsContiguous`),
`StopIsQuiet` (`StopLeavesNothingRunning`), `TimerIsEarliest`
(`TimerCoversEarliest`), `RemovedIsGone` (`RemovedStaysRemoved`), `LatestUpdate`
(`LatestUpdateWins`), from `SchedulerInvariant`: the conjunction of the first
four, which is inductive. None of the last three of them is inductive alone.
That a goroutine works on the window its state planned is kept by an update only
because an update of a callback in flight is stored as pending; that needs the
flag to agree with the goroutines. That nothing runs once stopped follows from
the flags, because the loop counts flags and not goroutines; and that all are
cancelled needs the same agreement, because `Stop` cancels by flag. So a step is
shown to keep the conjunction, action by action, and the other invariants are
then each inductive relative to it. The lemmas on `Truncate`, `NextBoundary` and
`WindowEnd` (a window is never empty) rest on the division of integers; the
lemmas on `Put` and `Delete` say what the map operations keep. On the retries:
`DelaysAreBounded`, for every policy, interval and attempt, and
`RetriesAreMultiplied` (`RetriesBackOff`): what becomes of the count of failures
and of the next attempt in every step, by whether the step takes a completion, and
which. `Delay` clamps the whole power, the property multiplies by one factor per
failure and clamps each product; that both give the same is an induction over the
failures (`ClampedProduct`, `DelayMultiplies`), which rests on what `Power` computes
(`PowerIterates`). Which steps take a completion is read off the goroutines, and
that a callback is in flight exactly while it has one (`InFlightFlagsAreTrue`)
keeps every other step from touching a count that a goroutine will add to: an
update starts the count afresh at once only where no goroutine works.

`IntervalSchedulerRefinement`: `WindowsAreRealigned` (`WindowsRealign`), from the
lemma that a window whose cap is not below the interval ends on a boundary; and
`LoopImplementsWindows` (`ImplementsContiguousWindows`): a lemma per action says
which step of the abstraction it is, or that cursors and attempts stay.

`RecoveryQueueProofs`: `QueueTypeCorrect` (`TypeOK`), `WindowsAreKept`
(`NoWindowLost`), `OneGoroutineInCharge` (`OneWorkerInCharge`), and
`QueueInvariant`: their conjunction with `HandsAreTrue`. `NoWindowLost` is not
inductive: a row may be set to recovered, or back to pending, by a goroutine that
read it long ago, whatever its state has become. What makes this harmless is
`HandsAreTrue`: a goroutine that is about to set a row to recovered has had its
chunks written, the callback that reports success likewise, and no other state
forgets a window. All steps of goroutines go through one lemma (`PassKeeps`),
which says what a change of one row and of one goroutine must satisfy.

`AlertOutboxProofs`, the tables: `ReviewsDecide` (`ReviewsDecideResolution`) and
`CountsAreTrue` (`AnomalyCountsChunks`), from `AlertsInvariant`. A review may come
to an alert in any state, so the argument needs that only an alert that is over
was ended by its reviews (`AcceptedIsOver`: then a restored verdict either reopens
it or finds the reason gone) and that no occurrence belongs to an alert before
it opens or after it is deleted (`OccurrencesKept`: then a fresh id starts at
one). The outbox is not mentioned there.

The outbox: `NoFiringWaits` (`NoFiringWaitsAfterResolution`) and
`FormsAreWithdrawn` (`ResolvedFormsAreWithdrawn`), from `OutboxInvariant`. What
Alertmanager holds of an alert, the dispatcher told it at some time, maybe before
the alert was resolved and reopened; so the invariant has to say that the tables
know every form it holds (`FormsAreKnown`: delivered, or handed off and not
recorded), that a resolution handed off has withdrawn its form until the
dispatcher forgets the row (`WithdrawalIsSent`), and that the one leased row is
the one in the dispatcher's hand (`ClaimedIsHeld`), so that what it removes when
it is done is that row and no other. The order of the rows does not matter to any
of this: the lemmas say which set of rows `Only`, `Append` and the concatenations
leave (`OnlyKept`, `ConcatRows`). `OneFiringPerCondition` is the unique index on
the firing alerts of a condition: what opens an alert looks for a firing one
first, so that only a review that reopens an alert can run into it.
`AlertsTypeCorrect` (`TypeOK`) needs `CountsAreBounded`: an alert counts no more
than the analyses and failed collections there were, because each occurrence has
one to itself, also where the record of an analysis is repeated; it is the reason
why `Indicators` is assumed to be finite.

`ReferencePublicationProofs`: `PublicationTypeCorrect`, `EachIntervalOnce`
(`OneVersionPerInterval`) and `ReadyFromWhatIsBuilt`
(`ReadinessCountsWhatIsBuilt`) on both backends; `NoStaleReference`
(`PublishedForActiveGeneration`) and `HistoryKeepsGeneration`
(`HistoricalVerdictsKeepGeneration`) on PostgreSQL; from `PublicationInvariant`.
Its parts: an eligible verdict has the generation of its chunk
(`SameGeneration`); past its re-read a publication holds the lock and has the
active generation (`LockProtects`), which a change of the generation cannot break
because it waits for the lock; a chunk is judged by no older reference than its
own generation (`JudgedByNoOlder`). `PublicationIsOneEvent`
(`ImplementsPublishedReferences`, on PostgreSQL): the commit is the event, and the
rest stutters; `LockProtects` carries the answers of the two checks to the commit,
and since no more than `Retained` versions are kept the trim drops one at most
(`OldestMakesRoom`). That reviews come to chunks only is `OccurrencesOfChunks`.

`ServiceLifecycleProofs`: `LifecycleTypeCorrect` and `RequestsAreAtomic`
(`ImplementsServiceRegister`), from `LifecycleInvariant`: a revision identifies a
version. What a handler has read at the revision of the row is the row with its
URL rendered, and no copy is ahead of it; so the comparison of revisions, which is
all that the transaction does, makes the write of a whole stale copy a change of
the latest record. `Rendered` is any function: nothing is assumed of it, not even
that it leaves its own results alone.

In the same module, `ScheduleIsThatOfRow` (`ScheduleFollowsRow`). Between the
commit and the last schedule call of a request the registrations differ from
the row, so the invariant is about what the handlers have left to do: while
nothing is astray, a handler with a call left that adds a registration holds the
row and the row is active, one with a call left that removes one means that the
row is not active, and where no handler has such a call left the registration is
already that of the row (`LeadsToRow`). Both callbacks also go when an earlier
removal ends; that this takes nothing, unless the callback was added again
meanwhile, is `RemovalIsDone`. A commit without schedule calls keeps `LeadsToRow`
because it changes only a service that is not active; one whose answer is lost
keeps it if it leaves what is wanted as it was, and is astray otherwise.
`InactiveStartsNothing` is the safety half of `InactiveComesToRest`: between
requests no step of a paused or deleted service starts a collection, a build or a
goroutine, and rest lasts. What is under way goes on, a goroutine with windows
ready included. A callback may still be registered then, if it was added behind a
removal in flight; that it never gets to run is `RemovalInHand`: the invocation in
flight takes it along when it ends.

`ImportJobsProofs`: `ImportTypeCorrect`, `StaleInterrupted`
(`StaleImportIsInterrupted`), `CompleteIsWhole` (`CompleteImportIsWhole`),
`LiveNotInterrupted` (`LiveImportIsNotInterrupted`, if `MaxLost + 1 < Timeout`),
`FinishedIsFinal` (`FinishedStaysFinished`), `HistoryGivesWay`
(`HistoryOvertakesOnce`), from `ImportInvariant`: who owns the row; that the row
precedes the goroutine; at each step of the goroutine, how many windows and
analyses it has counted; what a final state says; and that the heartbeat in the
row is as old as the writes lost since, plus the one that is due. All writes of
the goroutine go through one lemma (`StoreKeeps`).

`NatRecursion`: a recursive function is `CHOOSE`n, and the provers know nothing of
it until it is shown that some function satisfies its equations. The library's
theorems for this take an operator as parameter, so the module has induction on
the naturals and the existence and uniqueness of an iterated function stated
with sets and functions (`NatSetInduction`, `RecursionExists`,
`RecursionUnique`); `Power` and `Only` are computed from them.

Every invariant and action property that a passing run checks is stated by a
theorem. Only model-checked is the liveness: `DueIsDispatched`,
`InvocationsAreHandedIn`, `FiringReachesAlertmanager`, `OutboxDrains`,
`BacklogIsSettled`, `CollectionAlertEnds`, `WorkersReturn`, `InactiveComesToRest`
and `ImportEnds`, because the prover has neither fairness nor `ENABLED`.

## 5. Where code and documents disagree

Each of these is a run that TLC refutes, with the lines in `PROJECT.json`
("findings"): `scheduler_readd`, `alerts_resolution`, `publication_sqlite`,
`recovery_retry`, `lifecycle_quiet`.

Seen without a run:

* `docs/design/interval_scheduler_spec.md` gives the default backoff a maximum of
  `min(activeInterval, 1m)`, the code one of an hour (`intervals.go`,
  `MaxBackoffDelay`); the model has the code's.
* The occurrence key of a failed analysis leaves the indicator out
  (`manager.go:476`), while the count goes up for each: two indicators that fail
  on one chunk count twice and have one occurrence, so the impairment may be
  critical with fewer occurrences than `docs/design/alerts.md:35` asks for. The
  model has the key and the count as in the code (`MonitoringKey`, `Counted`).
* `ReadService` renders the URL it has parsed (`config/database.go:312-316`),
  inserts and edits store it as the client wrote it, and the update compares
  what it read with what is stored (196-198). So the first pause or resume of a
  service whose URL is not in the rendered form, such as one with an upper-case
  scheme, counts as a material change: it raises the generation and drops the
  baseline. `docs/design/load-time-of-day.md:42-43` has that follow from a
  material change of the configuration or a reset, and `main_test.go`
  (`TestServiceAPIPauseAndResumeAreRevisionedAndAudited`, on the fake
  configuration) expects neither a pause nor a resume to be one.
  `ServiceLifecycle` has the rendering, and `ServiceRegister` says what it does.
* A live collection whose query is never answered neither fails nor ends
  (`intervals.go:528`, `prometheus.go:26-56`): the service is not collected any
  more, without an alert, until it is paused or the server stops. No document says
  what should happen, and no property can hold against it; the fairness assumed
  leaves it out (section 3).
* An import that a restarted server loads as running, because its heartbeat is
  younger than the timeout, is never looked at again, and a request to cancel it
  calls a nil function (`monitoring.go:360`). `ImportJobs` leaves that cancel out.

## 6. Plan

Done: the scheduler with its abstraction, the recovery queue, alerts and outbox,
references, the lifecycle of a service with its abstraction, the analysis queue
and imports; and the proofs above.

Next, in the order of what matters most to a user of the program:

1. Two servers on the outbox and on the recovery queue of one database, as
   `ImportJobs` has them for imports.

## 7. Not modelled

* Tracking monitor: recent events in memory under one mutex, for display; nothing
  reads it back.
* Distributions and statistics: floating-point and binary encodings without
  interleaving, whose properties are numerical.
* Rendering and read APIs: adapters that decode, call one operation and encode.
* Migrations and dialect: schema files applied in order before anything else runs.
* Test doubles, and the web interface, which is a client of the API.

Left out of the parts that are modelled: the event and display tables of the
alert manager, evidence and lists; `ResolveMonitoring`, `ResolveAlert` and the
emergency alert for an unreachable database; Alertmanager's own expiry of an
alert (a form that is refreshed does not expire); bodies of chunks and of
references, checksums, and the numerical test of the analysis; the history of
revisions and the global settings of the configuration; the Prometheus client;
lists of imports, HTTP decoding, and logging.
