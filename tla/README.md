# Verification of the scan platform

This directory holds TLA+ specifications of the OSINT scan platform in `src/`:
an API process (FastAPI, `app/main.py`), any number of worker processes
(`app/worker.py`, run by arq), a job queue in Redis (`app/core/queueing.py`) and
a durable store (`app/storage/`). TLC checks small instances; TLAPS proves the
theorems for every value of the constants.

## The system

| component | state it keeps | operations | hard behaviour |
|---|---|---|---|
| store (`storage/memory.py`, `storage/neo4j.py`) | scans (state, outcome code, worker attempt, job id, cancel flag, updated_at), adapter runs, events, evidence graph | create, claim, touch, finish, recover, mark dispatched, request and acknowledge cancellation, add run / event / graph records | fenced writes of several workers, unfenced writes of several closers, whole-record writes |
| worker (`run_case_scan_task`) | the claimed attempt, counters, completed keys, executions not stored yet | load, claim, list, announce, execute, store findings, record run, finish; handlers for cancellation and failure; heartbeat task | crash, timeout, retry, lease loss between any two calls |
| dispatch loop (`_dispatch_loop`) | the sweep's snapshot of the scans | acknowledge cancellations, recover stale leases, enqueue again, clear the failed-dispatch code | works on a snapshot while everything moves |
| create handler | the record it made | idempotency, admission, create, enqueue, repair after a failed enqueue | concurrent requests, a rewrite that is not conditional |
| cancel handler | the scan it first read | request cancellation, abort the job, refresh, close runs, acknowledge | races with everyone; may die at any point |
| queue (arq) | jobs with their try count, abort flags, kept results | enqueue, deliver, retry, abort | at-least-once delivery, max_tries, timeout, abort of running jobs |
| progress stream and browser client | sent event ids, terminal flag; last event id | poll, emit, reconnect | resume position, terminal detection |
| scan page (`ScanDetailPage.jsx`) | the scan and the evidence shown, versions of its requests | refresh on events and by a timer, load more, cancel | answers out of order, pages cut for another view |
| evidence graph (`engine/correlation.py`, stores, retention loop) | nodes, edges, provenance of a scan | derive and upsert, page, purge | late workers, deletion under a running scan, page boundaries |
| rate limiters, stream limiter | windows and counters | allow, acquire, release | window boundary, two charges of one request, release on every path |
| adapters, HTTP, tool execution | attempts, deadlines, a process group | retry, spawn, terminate | cancellation at any await, signals that are ignored, descendants |
| service container, worker startup, deployment | connections, startup errors, the lock of the repair, the worker's heartbeat, Neo4j's constraints | construct, repair when probed, health, shut down | concurrent repairs, outages half way, order of start and stop |
| metrics, auth, configuration, reports | – | – | – |

The components interact only through the store and the queue: the API and the
workers never talk to each other. A worker learns of a cancellation by reading
the record (`_terminal_or_cancelled_scan`, the heartbeat) or by arq's abort; the
dispatch loop learns of a dead worker by the age of `updated_at`.

What makes the core correct:

- one worker writes at a time, although leases expire while their holder lives;
- a result that is stored stays, and is not computed twice without need;
- the verdict agrees with the stored runs, over any number of attempts;
- a cancellation cannot be overtaken, closes every run, and is acknowledged;
- every scan ends, and the page shows it;
- evidence stands on evidence, readers who page through it while it grows miss nothing,
  and it is gone after deletion;
- a tool does not outlive the attempt that started it, and a cancelled run starts nothing more;
- connections are built once, repaired, and closed after their last user.

## Modules

| module | models |
|---|---|
| `ScanRecord` | the durable record and the store operations on it, as operators on one record |
| `ScanLifecycle` | one scan: workers, heartbeats, arq, dispatch loop, create handler's tail, cancel requests, faults |
| `ScanContract` | the abstract promise of the platform about one scan; `ScanLifecycle` implements it |
| `ScanStore` | the abstract store: every operation on the record is one atomic step; `ScanLifecycle` uses it so, `Neo4jScan` implements it, `EvidenceGraph` builds on it |
| `Neo4jScan` | one scan node of `Neo4jStore`: operations that read and later write under a condition; it implements `ScanStore` |
| `ScanProgress` | how a scan's end reaches the browser: event log, streams and their slots, subscription, scan page |
| `Admission` | how requests become scans: idempotency keys, queue depth, quota, repeated dispatch, over either store |
| `EvidenceGraph` | the evidence of a scan: records, fenced storage, pages, deletion, and the page that shows it; it extends `ScanStore` |
| `ToolExecution` | one adapter run: attempts, deadline, provider requests, or a tool and the end of its process group |
| `Services` | how API, worker and frontend come up, are repaired and go down |
| `RateLimit` | the in-memory and the Redis limiter, as requests are charged |
| `MCScanLifecycle`, `MCNeo4jScan`, `MCScanProgress`, `MCAdmission`, `MCEvidenceGraph`, `MCToolExecution`, `MCServices`, `MCRateLimit` | the instances for TLC |
| `ScanLifecycleProofs`, `Neo4jScanProofs`, `AdmissionProofs`, `EvidenceGraphProofs`, `ToolExecutionProofs`, `ServicesProofs`, `ScanProgressProofs`, `RateLimitProofs` | the theorems |

### ScanLifecycle and the code

A step is one store or queue call together with the computation up to the next
one; this is the granularity at which asyncio tasks and processes interleave,
because every such call is an `await`, and the in-memory store runs each
operation under its lock.

| variable | in the code |
|---|---|
| `scan`, `lease` | the `Scan` record; the age of its `updated_at` against `stale_before` of the sweep under way |
| `runs` | the adapter runs, keyed by the id `_adapter_run_id` derives from target and adapter |
| `graph` | which runs have their finding in the evidence graph |
| `queue` | arq's job, retry, abort and result keys, per job id (0 is the first job, n is `<scan>-lease-n`) |
| `pc`, `wk` | where a process is, and the worker's locals: attempt, try, targets to visit, plan of the current target, executions not stored yet, completed keys and counters, the pending cancellation |
| `left`, `seen` | the list a closer works through; the record an API process last read |
| `faults`, `reused` | the fault bound; whether an attempt number was installed a second time (a history variable, only read by properties) |

`Check` is `_terminal_or_cancelled_scan` with its ten call sites (`wk[w].then`
says which one). `Closing` is `finalize_cancelled_adapter_runs`, executed by
workers, dispatch loop and cancel requests alike. `CancelTask` is the arrival of
`CancelledError` at the next await, from the heartbeat (`LeaseLost`), from arq's
abort (`AbortTask`) or from the job timeout (`JobTimeout`).

Abstractions:

- targets and adapters are visited in any order; the code's order is one of them;
- two reads of the scan with nothing between them are one step;
- a run that succeeds has one finding; `unavailable` and `retryable_failure`
  are `failed`, since the worker treats the three alike;
- events appear only as the fenced call that may raise (`AddEvent`);
- a store call that raises has no effect (an error after the commit is the same
  as a crash after it, which is modelled);
- there is one dispatch loop, as the API runs as one process.

### Neo4jScan and the code

The lifecycle takes a store operation to be one step. `InMemoryStore` does that
with a lock; `Neo4jStore` does not: an operation calls `get_scan`, decides and
computes the new payload in Python, and sends a second query whose WHERE clause
looks at the node's properties. `ReadTo...` is the first query with the early
returns after it, the action of the operation's name is the second one. `op[c]`
is what the task c remembers between the two; `fields` are the properties,
`payload` is the JSON text that every read of the application returns. A query
is one transaction and taken to be atomic. `Fails` is a query that raises;
a failure after the commit is the same as the commit with nobody to hear of it.

The arguments are left open (any task may claim, touch or finish with any
attempt), so what holds does not depend on how workers behave. Three things are
taken from the callers: only the dispatch loop recovers leases, the create
handler rewrites a record at most once (one handler per scan), and
`finish_scan` is called with a verdict or with RUNNING and a retryable code.
`set_scan_job_id` is not called (the create handler assigns the job id before the
record is stored).

The payload does not agree with the properties in every field: a cancel request
that was decided on an older read writes an older state, attempt or job id into
the payload, and leaves those properties as they are. `PayloadAgrees` draws the
line: while a cancellation is pending only the cancellation and the end of the
scan are reliable in the payload, and that is all the code decides on then.

### ScanProgress and the code

| variable | in the code |
|---|---|
| `scan`, `log`, `clock`, `drafts`, `final` | the record as far as events depend on it; the stored events by `created_at`; events stamped in Python and not stored yet (`Neo4jStore`); the event of the scan's end |
| `streams`, `slots` | per connection: the generator of `scan_events` (`sent`, `terminal`, the `Last-Event-ID`) and the bytes under way; `StreamLimiter`'s count |
| `sub` | `subscribeScanEvents`: `lastEventId`, `reconnectAttempts`, and the events it handed on (a history variable) |
| `shown`, `requests`, `reply` | the page's scan state; its status requests, of which one has the current `scanRequestVersion`; the cancel request |

`stamped` is the store, chosen at the start. With `InMemoryStore` an operation writes record and
event in one step (`Write`); with `Neo4jStore` it stamps the event, and stores it
later if the WHERE clause still holds (`Stamp`, `Commit`). Here an operation is
known only by the kind of its event: which worker may do what is the matter of
`ScanLifecycle`.

Abstractions: a poll sends its whole batch in one step, and a browser that went
away is noticed at the next poll; a deleted scan, the end of the token, the
deadline and an error of the store all end the generator the same way
(`Expires`); the browser lets at most `Requests` status requests be in flight;
backoff delays have no length; the evidence graph is refreshed like the status
and left out (it is in `EvidenceGraph`). Connections that are closed on both sides are reused. A slot taken for a response whose generator is never started is a
matter of the HTTP server and not modelled. A page opened by its address shows
nothing until its first status request succeeds; if that fails nothing runs but
the user's own retry (`TryAgain`), so the liveness property begins when the scan
is shown.

### Admission and the code

| variable | in the code |
|---|---|
| `neo4j`, `key`, `body` | chosen at the start: the store, and what each client sends |
| `handler` | per client, the handler at work: its place in `create_scan`, the scan it is about, the state it read for the repair |
| `scans`, `jobs` | the scans of one principal in one case; which of them have a job in the queue |
| `accepted` | the answers that named a scan (a history variable) |

A step is one await of the handler. `Create` is `create_scan` of the store together with
what the handler makes of its three kinds of answer: the two stores differ in what
they look at first. An answer that names no scan (409, 429, 503) and no answer at all
leave the same state (`Refuse`), since nothing depends on which it was. The checks
of the request that come before the first store call, and the weighted rate limit, are left
out, and so are cancellation, retention (a purged scan frees its key) and
everything `ScanLifecycle` has; a scan's jobs are one. With `RewriteRaces` FALSE the
rewrite of a scan that moved on is void.

### EvidenceGraph and the code

| variable | in the code |
|---|---|
| `backend` | which store, chosen at the start |
| `deleted` | `purge_expired` has removed the scan |
| `graph` | the stored ids of nodes, edges and provenance records |
| `settled` | the scan the page shows is final, so its timer and subscription have stopped |
| `view` | `graph`, `graphLoading` and `graphError` of the page, with `next_cursor` as `next` and `more`; `fresh` (a history variable) says that the evidence was final when what is shown was requested, and `owed` (another) what was stored when the first page of what is shown was requested |
| `requests` | its `getGraph` calls: `latest` is the one of the current `graphRequestVersion` |

The scan record evolves as `ScanStore` promises, which `Neo4jScan` is shown to
implement; the create handler's rewrite is left out here, because it can bring a
finished scan back (run `rollback`), and so is the expiry of a lease while the scan is not
running, which nothing here reads. A record id is a hash of what it is about, so it
is a number whose order stands for the order of the hashes, and `EvidenceAssumption`
says what it is a hash of. `InMemoryStore` cuts a page in one step; `Neo4jStore`
looks for the scan and then asks three times, each time what is stored by then. A page
carries offsets of three lists at once.

What the page does not do: `loadMoreGraph` takes a version and never compares it
(`ScanDetailPage.jsx:103-121`). A page cut for the evidence shown then is merged into
what a refresh has shown since, and the records between the two are skipped
(`ApplyRefresh` marks such a request, so that `FreshViewComplete` and
`NothingPassedOver` do not claim more than the code gives). If that refresh failed
there is nothing to merge into: the update throws and takes the page down (`view.crashed`). And once the end is
shown nothing refreshes the evidence any more: an answer that was cut before the
last finding was stored stays until the user asks. Nothing in the repository promises
otherwise in these three cases; the properties are stated around them.

### ToolExecution and the code

| variable | in the code |
|---|---|
| `kind` | whether the adapter asks a provider (`fetch_json`) or runs a tool (`run_cli_command`) |
| `pc`, `attempt`, `deadline` | where `execute` waits, its attempt, and whether `wait_for` of this attempt has fired |
| `request` | the attempt of `fetch_json` |
| `cancels`, `owed` | cancellations of the task, all and in this attempt: `wait_for` turns `CancelledError` into `TimeoutError` only if its own deadline alone has cancelled |
| `cause`, `cleanup` | which handler of `run_cli_command` terminates the tool; where the shielded task of `_terminate_process_tree` waits |
| `leader`, `child` | per attempt, the tool's process and a descendant in its group that holds its output open |

A cancellation arrives at the await where the task is (`Interrupted`): while the
process is created, the first one waits for the creation and the second one cancels it;
during the cleanup the first one is dropped and waits, the second one cancels the
cleanup. `SIGKILL` takes effect some time later, or so late that
`_wait_for_process_exit` gives up. Delays have no length. The shared HTTP client and the
temporary directory have no state of their own.

No adapter that runs a tool is enabled in `registry.py`; the code and its tests
are there, and `SherlockAdapter` is what calls it. What the model shows beside its
properties: the exit status 124 of a timeout is an empty answer to the adapter, so the
run counts as `no_results`, although `AdapterOutcome` "cannot confuse failures with valid
empty results" (`outcomes.py:46`); and a second cancellation during the cleanup
leaves the tool alive, which `ToolDoomed` excepts.

### Services and the code

| variable | in the code |
|---|---|
| `neo4j`, `redis` | whether they can be reached, at any moment |
| `constraints` | the constraints `Neo4jStore.initialize` creates |
| `phase`, `loops` | `lifespan` of the API: before, at and after its `yield`; its retention and dispatch loops |
| `store`, `queue`, `made`, `initialized`, `errors`, `lock` | `ServiceContainer`: its connections, how many were built and not closed (a history variable), `store_initialized`, `startup_errors`, `dependency_lock` |
| `tasks` | per construction or probe, where it waits and what it found |
| `worker`, `heartbeat`, `frontend` | the worker's startup, arq's health-check key, whether readiness was answered, which is what lets the frontend's container start |

The queue counts as healthy only with a worker's heartbeat, and the worker
needs Neo4j, so readiness is a matter of all four. The health check of the API is
also what repairs it: without a probe nothing is built again. The rate limiter's
client and the token verifier are built without I/O, in the same step as the end of a
repair. The two seconds of a health call, and a call that raises, are the answer that
nothing is there. The API's own port is published on the loopback address too: a
request that comes that way may use a store whose constraints do not exist yet, so
`WritesProtected` is about the worker and the frontend.

### RateLimit and the code

| variable | in the code |
|---|---|
| `hits` | `InMemoryRateLimiter._requests` of the principal, by time |
| `keys` | the Redis counters by window, with the time they are forgotten |
| `calls` | requests under way: the charge of every request, then for a scan the rest of its weight |
| `granted`, `asked` | what was let through, what Redis was asked for (history variables) |

A tick is the unit of the window. `RedisRateLimiter` names its window before it counts
in Redis, so the count may come when that window is over: it then starts the key
again and counts for nothing that `LimitKept` looks at (`granted` leaves it out). A
refused request stays counted in Redis, and a failed one may be. A weight above
`RATE_LIMIT_REQUESTS` is refused for ever.

## Runs

The runs of `MCScanLifecycle` have at most two workers, one
request that created the scan, one cancel request, two tries per job, recovery
jobs numbered up to `MaxJob`, and `MaxFaults` faults (crash, raised store call,
timeout, stalled heartbeat, failed enqueue, failed sweep). Two workers are enough
for every conflict of attempts: the fence compares one worker with the record.
One fault loses a lease while its holder lives on, or crashes a worker between
any two calls. `MaxJob` is larger than the number of
recoveries the faults cause, so that the bound in `RecoverStaleScan` does not cut
the interesting behaviours. The theorems have none of these bounds.

| run | checks | shows |
|---|---|---|
| `verdict` | `LeaseExclusive`, `OutcomeAgrees`, `FindingsBeforeRun`, `ResultsAreFinal`, `StorePromised`, `EventuallyTerminal` | two workers, two targets, lease recovery and retries: one writer at a time, results stay, the verdict is that of the durable runs, the record changes by the store's operations only, every scan ends |
| `cancel` | `TypeOK`, `CancelledRunsClosed`, `ContractHolds`, `CancelAcknowledged` | cancel request, worker, dispatch loop and abort race: the contract holds, a cancelled scan has no open run, every cancellation is acknowledged |
| `neo4j` | `PayloadAgrees`, `QueuedJobAgrees`, `FinalPayloadStays`, `StoreHolds` | two tasks within any operations, one of them the create handler's rewrite: the node implements the atomic store, a final payload stays |
| `admission` | `AdmissionTypeOK`, `OneScanPerKey`, `BodyHonoured`, `QuotaKept`, `Served` | repeated and concurrent requests over either store: one scan per key, within the quota, and patient clients are served |
| `progress` | `NothingSkipped`, `ClosesAfterFinal`, `SlotsMatch`, `ViewStaysFinal`, `EndShown` | reconnects lose and repeat nothing, streams close and give back their slots, late answers are ignored, the page shows the end whatever the streams do |
| `evidence` | `Anchored`, `NothingOfDeleted`, `NothingPassedOver`, `FreshViewComplete`, `FreshViewStays` | evidence is whole, fenced and deleted for good; pages pass over nothing while evidence grows under their offsets; pages of final evidence neither skip nor repeat, and are not replaced by older ones |
| `tools` | `ToolTypeOK`, `ToolDoomed`, `CancelHonoured`, `ExecuteEnds` | attempts, deadlines, cancellations and a tool that ignores signals: nothing is left to work beside a retry, nothing starts after a cancellation, the run ends |
| `services` | `NothingLeaked`, `LoopsBeforeClose`, `WritesProtected`, `Mends`, `StopEnds` | concurrent repairs, outages, crashes and shutdown: one connection of each kind, constraints before use, probes mend, the shutdown ends |
| `limits` | `LimitKept`, `RefusedUnderLoad` | no window lets through more than its limit, and nobody is refused without a cause |
| `reuse` | `ReplacementArtifactsStay` | violated: see below |
| `rollback` | `NoRollback` | violated: see below |
| `tools_tree` | `TreeTerminated` | violated: see below |

The run of `MCNeo4jScan` uses two tasks, two attempts and two recovery jobs: a guard
compares one remembered read with one node, so a second attempt and a second job
are all a guard can confuse. The proofs remove these bounds.

The run of `MCAdmission` has two clients, which repeat their requests for ever, two
keys, two bodies, two scan ids, a quota of one, a queue of one and two faults. Keys,
bodies and the store are chosen at the start, so the run covers all of their
combinations. A scan stored without an answer, a second request for it and an
enqueue that fails as well need the two faults.

The run of `MCScanProgress` has two connections, reused when both sides have closed
them, of which one may be open at once, three events (what happened before the page
opened counts as the first), two status requests and two failures in a row before the browser gives up: a reconnect
needs two connections while the old generator still runs, and then meets the limiter;
a late answer needs two requests; the two further events are the final one and one that
is on the wire when the connection breaks, or that is stamped behind it.

The run of `MCEvidenceGraph` has two attempts, of which the second takes over, two
findings of one value by two adapters (so node and edge are shared and the lists
have different lengths), pages of one record, and two requests at a time: a list
then spans three pages, another ends before it, and one request can overtake another. A
record may be stored in front of an offset between two pages, or between the three
queries of one, which moves the records behind it: that is what `NothingPassedOver` is about.
The run of `MCToolExecution` has three attempts, two requests each, and two
cancellations, since the second one finds what the first one left. That of `MCServices`
has two probes, as many as it takes to wait for the lock; that of `MCRateLimit` two
requests at a time of weight one or three, a limit of three, windows of two ticks
and five ticks, so three windows with a boundary inside every sliding one.

Deadlock is not checked: a scan that reached its final state with an empty queue
leaves nothing to do, and so do a node in its final state, an adapter run that has ended
and a limiter at its last tick. The other runs may stop only at a bound.

`RewriteRaces` says whether `RewriteScan`, the unconditional `update_scan` of the
create handler, may write over a record that changed since it was read. The
passing runs set it to FALSE, because that write breaks leases, cancellations and
the quota (run `rollback` shows how); everything that follows from it is one finding.

Fairness (`Fairness`): weak fairness of each worker's work and of its fetching,
of arq's own bookkeeping, of the dispatch loop and of the passing of time. The
processes are loops without a lock held between steps, so each keeps running
as long as the container does. Nothing is assumed of requests (a client may
disconnect, the process may restart: the dispatch loop must do without them), of
heartbeats, or of faults. `ScanProgress` assumes nothing of streams: only that the page's
interval timer runs and that, again and again, a status request is answered
before the next one is sent (requests take less than the five seconds between
two ticks, now and then; strong fairness, as each tick makes an older answer void).
`Served` is about clients that repeat their request until they get an answer, so it
assumes that they do (`Send`), beside weak fairness of handlers, workers and dispatch loop.
`ToolExecution` assumes that the event loop goes on and its timers fire (`Loop`), and
nothing of providers and processes. `Services` assumes that tasks and loops
go on, that asyncio's lock serves its waiters in order (strong fairness of `Acquire`),
that the deployment keeps probing the API, and that the worker is restarted and beats;
`Mends` is about a time when nothing fails any more and says that readiness is answered
(Compose gives up on an API that has been unhealthy for its retries; a frontend it no longer
starts is started by hand), `StopEnds` assumes nothing of
Neo4j and Redis, whose calls have deadlines or are not waited for.

### What the violated runs show

- `reuse`: a worker reads the scan (QUEUED, attempt 0) and is delayed; another
  claims attempt 1, loses its lease to a stall, is recovered; the first one now
  claims attempt 1 again, because `claim_scan` takes any attempt of a QUEUED
  scan. Both pass the fence. The properties about leases therefore carry
  `~reused`, and this run shows what happens otherwise.
- `rollback`: enqueue reports an error although the job reached Redis; a worker
  claims; the create handler writes back what it read before.
- `tools_tree`: the deadline of the attempt passes while the process is being created;
  the tool then starts a descendant and ends before the cleanup looks at it.
  `_terminate_process_tree` returns at once because `returncode` is set
  (`execution.py:43`), and the descendant is never signalled, although it is in the
  process group made for that purpose. The tool's own timeout gets to the same line
  when the tool ended long before and `communicate` waits for the output that a
  descendant holds open.

### What the passing properties leave out

Four behaviours that nothing in the repository forbids and that a reader of the
properties should know of:

- A recovery job starts again at try 1 while the scan already has a higher attempt;
  after a retryable failure its second try claims with attempt 2 or less, is refused,
  and the job counts as done (`worker.py:459-477`). `EventuallyTerminal` still
  holds: the lease expires and the dispatch loop starts another job.
- With the stamps of `Neo4jStore` a second cancel request may be stamped after the
  acknowledgement and stored before it. The list is ordered by stamp, so the final
  event is not the last of its batch, `terminal` becomes False again and the stream
  polls on until its deadline, holding a slot (`main.py:1056`). `ClosesAfterFinal` says
  that nothing else keeps a stream open. The browser is not misled: it ends
  the subscription on the event itself.
- The cancel handler reads the scan while it runs and its answer is on the way; the
  scan ends, a status request shows it; then the answer is merged into the page,
  which shows a running scan until the next refresh (`ScanDetailPage.jsx:156`).
  `ViewStaysFinal` says that nothing else takes the end back.
- With `Neo4jStore` an event may be stamped before one that is already sent and stored
  after it. A connection that resumes takes everything ordered before its
  `Last-Event-ID` for sent (`main.py:1043`) and passes over it; the page reads the scan
  again every five seconds. `NothingSkipped` is about events stored in stamp order.

## Proofs

Every theorem is of the form `Spec => ...`, for all sets of workers, cancel
requests, targets and runs, all bounds, from `ConstantsAssumption`.

- `TypeCorrect` (`ScanLifecycleProofs`): `TypeOK`. It is not inductive: `record`
  writes `wk[w].got[wk[w].run]`, which is a stored state only if the worker has
  an execution there. `TypeInv` adds where a worker must have a current run and
  which locals are filled at which program counter.
- `LeaseExcludes` (`ScanLifecycleProofs`): `LeaseExclusive`, when
  `RewriteRaces` is FALSE. The invariant `Attempts` says that a worker past
  its claim has an attempt not above the record's, and that as long as no number was
  installed twice, two such workers have different ones.
- `CancellationClosesRuns` (`ScanLifecycleProofs`): `CancelledRunsClosed`, when
  `RewriteRaces` is FALSE. The invariant `ClosingSafe` says that a closer is past
  its list only when the scan is frozen (cancel requested or final), that a
  frozen scan opens no run, and that every open run is still on the list of
  every closer that is writing, so that one at the acknowledgement has none left.
- `ContractKept` (`ScanLifecycleProofs`): the refinement of `ScanContract`,
  from `ClosingSafe`, one lemma per group of actions.
- `VerdictAgrees`, `ResultsStay` (`ScanLifecycleProofs`): `OutcomeAgrees` and
  `ResultsAreFinal`, when `RewriteRaces` is FALSE, on top of `Attempts` and
  `ClosingSafe`. The invariant `Verdict` says three things. A worker in its loop has no
  plan for a run whose result it knows, and every run without one is still ahead of it
  (`Ordered`, `Ahead`), so at the end of the loop it knows them all. As long as it holds
  the lease, what it knows is what the store holds (`Knows`): this is where the
  exclusion of other workers is needed, and that no closer works on a scan whose lease is
  held. And a closer only has runs on its list that were open (`Listed`), so closing
  replaces no result. `Locally` covers the steps that write no run, `Fencing` the
  fenced writes of a worker; the claim, the list and `finish_scan` have their own lemmas.
- `FindingsFirst` (`ScanLifecycleProofs`): `FindingsBeforeRun`, with or without the
  create handler's rewrite. A run that succeeded is recorded only by a worker past its
  finding's write; the invariant says that a worker about to record such a run has the
  finding in the graph, and nothing ever leaves the graph.
- `StoreUsed` (`ScanLifecycleProofs`): the refinement of `ScanStore`, with or without
  the create handler's rewrite: the lifecycle calls the store as its promise allows.
  With `StoreKept` below, which shows that the node of `Neo4jStore` keeps that
  promise, the two modules meet; and `EvidenceGraph`, whose environment is
  `ScanStore`, loses no behaviour of the lifecycle's record without the rewrite, up to the expiry of
  leases of scans that are not running.
  `Bounded` keeps attempt numbers within `MaxTries + MaxJob` and job ids within
  `MaxJob`. It needs that the attempt the sweep read is still the record's when the
  recovery finds the lease stale: every write renews the lease, and only the next sweep
  makes it stale again. One lemma per operation maps it; one per process its steps.

- `ReadersAgree`, `JobsAgree`, `Neo4jTypes`, `FinalPayloadKept`, `StoreKept` (`Neo4jScanProofs`), for any
  number of tasks. `NodeInv` records what each task decided on (`Decided`), and
  that the code `queue_retryable_failure`, which only the rewrite brings in,
  does not come back once cleared (`CodeFree`, `OneUpdate`): that is why the
  attempt a `mark_scan_dispatched` read is still the node's (`MarkPinned`),
  although its WHERE clause does not compare it. One lemma per second query shows
  that the two copies still agree, another that the step is the atomic operation.

- `AdmissionTypes`, `OneScan`, `BodiesHonoured` (`AdmissionProofs`): `AdmissionTypeOK`,
  `OneScanPerKey`, `BodyHonoured`, for any number of clients and either store. The invariant
  `HoldsItsScan` says that a handler past the store is about a stored scan with the key
  and the body of its request. Most steps change no stored scan but in its state
  (`SameScans`), so one lemma per way a handler goes on covers them; an insertion has
  its own lemma.
- `QuotaHolds` (`AdmissionProofs`): `QuotaKept`, when `RewriteRaces` is FALSE: no step
  but an insertion makes an ended or absent scan active, and it is preceded by the count.

- `EvidenceAnchored`, `DeletedForGood` (`EvidenceGraphProofs`), for any findings, ids and
  attempts. `EvidenceInv` is inductive with `Anchored` for all kinds of records at once: a write adds the nodes of a finding
  with its edge and provenance, a purge takes everything. All steps of the page leave the
  stored evidence alone (`OtherSteps`).
- `FreshViewIsAll`, `FreshViewKept` (`EvidenceGraphProofs`): `FreshViewComplete` and
  `FreshViewStays`, for any page size and number of requests. What a page is, is stated without
  induction: a record's place is the number of smaller ids, and a page has the
  records whose place is at least its offset and below the next (`SliceFollows`). `PageInv`
  says that a request's lists are cut from the stored evidence (`CutAt`), that a fresh
  view has what comes before its offsets, that a fresh page still to come goes on
  where the view ends, and that the latest request is as fresh as the view.
- `NothingLeftOut` (`EvidenceGraphProofs`): `NothingPassedOver`, for the same. A place only
  rises when records are added (`PlaceRises`), so a record that a list has not reached stays
  in front of its offset, however the evidence grows. `OwedInv` says that each owed record is
  shown or still to come: in the view (`OwesView`) or in the page under way that continues
  it (`OwesPage`), of which there is one (`SharesDebt`). Growth, a page's query, a
  request and a merge have a lemma each.
- `ToolTypes`, `ToolsAttended`, `CancellationKept` (`ToolExecutionProofs`), for any
  numbers of attempts, requests and cancellations. The invariant says in which
  places an attempt's tool may run, that tools of later attempts do not exist yet, and that
  the tool of an attempt is no longer running when its cleanup is done, unless killed.
- `ServicesTypes`, `OneConnection`, `LoopsEndFirst`, `ConstraintsFirst`
  (`ServicesProofs`), for any number of probes. `ServicesInv` says that whoever repairs
  holds the lock, that connections are closed only after the API closed, and that a
  repair without an error of the store has initialised it; hence a readiness answer
  without errors implies the constraints.
- `SlotsCounted`, `EndKept` (`ScanProgressProofs`), for any finite set of connections,
  either store, any number of requests. The first needs that a connection that is
  released was live, and the cardinality facts for one element more or less; the second,
  that an answer to the latest request sent after the end says the end.
- `ClosedAfterEnd`, `EveryEventOnce` (`ScanProgressProofs`): `ClosesAfterFinal` and
  `NothingSkipped`. The log in order is the one sequence that lists its events by
  increasing stamps (`InOrder`), so what is sent can be appended without sorting again.
  `ReaderInv` says that a stream has sent only events of the log, and that a live stream
  that sent the end has a later event still to send. `WireInv` says, for events stored in
  the order of their stamps, that what the browser has counts up from 1 without a gap
  (`CountsUp`), and that what is on the wire of a stream goes on from there; a broken
  connection loses the wire and resumes at what the browser has.
- `LimitHolds`, `RefusedForCause` (`RateLimitProofs`): `LimitKept` and `RefusedUnderLoad`,
  for any limit, window, weights and number of requests under way. A total is the
  cardinality of the entries, one for each unit as in the deque, so `FewerEntries` and
  `MoreEntries` replace an induction over time. `RateInv` says that the deque has, of
  the current window, exactly what was let through (`MemoryInv`), and that a Redis key outlives
  its window and counts at least what was let through in it and at most
  what was asked for (`RedisInv`, `KeysInv`): only so can one counter decide for all.

Only model-checked: the liveness properties `CancelAcknowledged`, `EventuallyTerminal`,
`EndShown`, `Served`, `ExecuteEnds`, `Mends` and `StopEnds`, which are out of the prover's
reach, and the three properties the code does not have. Every other property of the
runs is a theorem.

The proofs rest on the named assumptions of the modules and on nothing else. The
bounds (`MaxJob`, `MaxFaults`, `MaxTime` and their like) are constants too, so what is
proved holds for each of their values.

## Plan

What could still be added: a composition of `ToolExecution` with the worker, whose
cancellations are open here.

## Not modelled

Authentication, configuration, logging, metrics, redaction and report
formatting are functions of one request or of one screen. `CorrelationEngine` and
`run_scan_task` (`worker.py:81-226`) are not registered with the worker. Cases and
the paging of scan lists are one query each. The other adapters differ from the two
modelled in what they ask and how they parse it. The frontend's other screens
render what the API returns. The validation of the deployment's environment is a
function of it. A final `worker_failure` leaves announced runs open in a FAILED scan;
nothing in the repository promises otherwise, so no property says so.
