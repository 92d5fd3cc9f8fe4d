----------------------------- MODULE ScanLifecycle -----------------------------
(***************************************************************************)
(* One case scan from the moment its record is durable to its final state: *)
(* the create handler's tail and the cancel handler of the API             *)
(* (app/main.py), the dispatch loop (app/main.py), the ARQ job queue       *)
(* (app/core/queueing.py and the arq library), and any number of worker    *)
(* processes running run_case_scan_task (app/worker.py) with their lease   *)
(* heartbeats.                                                             *)
(*                                                                         *)
(* A step is one call of the store or of the queue together with the       *)
(* computation up to the next such call.  Two reads of the scan with       *)
(* nothing between them are one step.  The order in which a worker visits  *)
(* targets and adapters is left open.                                      *)
(***************************************************************************)
EXTENDS ScanRecord, FiniteSets

CONSTANTS
  Workers,          \* worker processes, one job at a time each
  Cancellers,       \* requests to POST /scans/{id}/cancel
  Creators,         \* the request that created the scan, unless it died
  Dispatcher,       \* the dispatch loop of the API process
  Targets,          \* the targets of the scan
  Runs,             \* the eligible (target, adapter) pairs
  NoRun,            \* no run
  TargetOf,         \* the target of a run
  AdapterOutcomes,  \* how an adapter may end
  MaxTries,         \* WORKER_MAX_TRIES
  MaxJob,           \* bound: recovery jobs are numbered up to MaxJob
  MaxFaults,        \* bound: crashes, errors, stalls and timeouts together
  RewriteRaces      \* may the create handler's rewrite meet a newer record?

Closers == Workers \cup Cancellers \cup {Dispatcher}
Procs == Closers \cup Creators
Jobs == 0 .. MaxJob

ASSUME ConstantsAssumption ==
  /\ Creators \cap Closers = {}
  /\ Dispatcher \notin Workers \cup Cancellers
  /\ Workers \cap Cancellers = {}
  /\ IsFiniteSet(Runs)
  /\ NoRun \notin Runs
  /\ TargetOf \in [Runs -> Targets]
  /\ AdapterOutcomes \subseteq {"succeeded", "no_results", "failed"}
  /\ MaxTries \in Nat \ {0}
  /\ MaxJob \in Nat
  /\ MaxFaults \in Nat
  /\ RewriteRaces \in BOOLEAN

VARIABLES
  scan,     \* the durable scan record
  lease,    \* age of its last write: fresh, aged, or stale for this sweep
  runs,     \* the durable adapter runs; "none" is a run never written
  graph,    \* runs whose finding is in the evidence graph
  queue,    \* the ARQ jobs
  pc,       \* where each process is
  left,     \* runs a closer still has to close
  seen,     \* the scan as the API processes last read it
  wk,       \* local state of the workers
  faults,   \* faults so far
  reused    \* history: an attempt number was installed a second time

durable == <<scan, lease, runs, graph>>
vars == <<scan, lease, runs, graph, queue, pc, left, seen, wk, faults, reused>>

\* A run closed by a cancellation is stored FAILED with code "cancelled".
DoneRun == {"succeeded", "no_results", "failed", "cancelled"}
LiveRun == {"queued", "running"}
RunState == {"none"} \cup LiveRun \cup DoneRun
AdapterResult == {"succeeded", "no_results", "failed"}

JobStatus == {"gone", "queued", "running", "aborted"}
Job == [status: JobStatus, tries: Nat, abort: BOOLEAN]
NoJob == [status |-> "gone", tries |-> 0, abort |-> FALSE]

(***************************************************************************)
(* Program counters.  "check" is _terminal_or_cancelled_scan; wk[w].then   *)
(* says which of its call sites the worker is at:                          *)
(*   "return"   before the try block, after a refused claim                *)
(*   "leave"    after finish_scan reported a cancellation                  *)
(*   "abort"    in the CancelledError handler                              *)
(*   "failed"   in the Exception handler                                   *)
(*   otherwise  before the step of that name.                              *)
(* "event" is the fenced add_event that follows an adapter run.            *)
(***************************************************************************)
Steps == {"target", "announce", "start", "finding", "record"}
WritePcs == {"list", "announce", "start", "execute", "finding", "record",
             "event", "finish"}
ClosePcs == {"closelist", "closewrite", "closeack"}
CheckPcs == {"check"} \cup ClosePcs
WorkerPcs == {"idle", "load", "claim", "reload", "fail"} \cup WritePcs \cup CheckPcs
ApiPcs == {"off", "enqueue", "reread", "rewrite", "sweep", "recover", "mark",
           "read", "request", "abort", "await", "refresh", "confirm"} \cup ClosePcs
Then == Steps \cup {"return", "leave", "abort", "failed", "execute", "finish", "-"}

Worker == [job: Jobs, try: Nat, attempt: Nat,
           todo: SUBSET Targets, plan: SUBSET Runs, run: Runs \cup {NoRun},
           got: [Runs -> AdapterResult \cup {"none"}],
           known: [Runs -> DoneRun \cup {"none"}],
           then: Then, cause: {"none", "cancelled", "abort", "timeout"}]

Nothing == [r \in Runs |-> "none"]

IdleWorker == [job |-> 0, try |-> 0, attempt |-> 0, todo |-> {}, plan |-> {},
               run |-> NoRun, got |-> Nothing, known |-> Nothing,
               then |-> "-", cause |-> "none"]

\* Before claim_scan succeeded, inside the try block, inside its handlers.
Unclaimed(w) ==
  \/ pc[w] \in {"load", "claim", "reload"}
  \/ pc[w] \in CheckPcs /\ wk[w].then = "return"
InHandler(w) ==
  \/ pc[w] = "fail"
  \/ pc[w] \in CheckPcs /\ wk[w].then \in {"abort", "failed"}
InTry(w) == pc[w] # "idle" /\ ~Unclaimed(w) /\ ~InHandler(w)

\* The heartbeat task runs from the claim to the end of the job.
Active(w) == InTry(w) \/ InHandler(w)

Holds(w) == Active(w) /\ HoldsLease(scan, wk[w].attempt)

LiveRuns == {r \in Runs : runs[r] \in LiveRun}

-------------------------------------------------------------------------------
(* Helpers of the actions *)

\* Every write of the record sets updated_at; a refused one leaves it alone.
Store(s) == scan' = s /\ lease' = "fresh"
StoreIfChanged(s) == IF s = scan THEN UNCHANGED <<scan, lease>> ELSE Store(s)

Goto(p, where) == pc' = [pc EXCEPT ![p] = where]

Fault == faults < MaxFaults /\ faults' = faults + 1

\* The worker goes on with its local state set to l.
Become(w, where, l) == Goto(w, where) /\ wk' = [wk EXCEPT ![w] = l]

\* arq records the end of a job: for good, aborted, or to be run again.
EndJob(w, end) ==
  /\ pc' = [pc EXCEPT ![w] = "idle"]
  /\ wk' = [wk EXCEPT ![w] = IdleWorker]
  /\ left' = [left EXCEPT ![w] = {}]
  /\ queue' = [queue EXCEPT ![wk[w].job] =
                 IF end = "queued" THEN [@ EXCEPT !.status = "queued"]
                                   ELSE [NoJob EXCEPT !.status = end]]

EndAfterCause(cause) ==
  CASE cause = "abort" -> "aborted"
    [] cause = "timeout" -> "gone"
    [] OTHER -> "queued"

\* Does this try exhaust the job, so that a failure is final?
FinalAttempt(w) == wk[w].try >= MaxTries

RaiseFailure(w) == EndJob(w, IF FinalAttempt(w) THEN "gone" ELSE "queued")

\* What a handler keeps of the local state of the try block.
Forget(l, then, cause) ==
  [IdleWorker EXCEPT !.job = l.job, !.try = l.try, !.attempt = l.attempt,
                     !.then = then, !.cause = cause]

\* enqueue_job is a no-op for a job that exists; a kept result is discarded.
Enqueued(job) ==
  IF queue[job].status \in {"gone", "aborted"}
    THEN [queue EXCEPT ![job].status = "queued", ![job].tries = 0]
    ELSE queue

(***************************************************************************)
(* The final state a worker computes from the runs it counts: those it     *)
(* found completed when it listed them, and those it recorded itself.      *)
(***************************************************************************)
Succeeds(o) == o \in {"succeeded", "no_results"}
Counted(known) == {r \in Runs : known[r] # "none"}
Covered(known) == {TargetOf[r] : r \in Counted(known)}

FinalCode(known) ==
  LET counted == Counted(known)
  IN  IF counted = {} THEN "no_adapters_available"
      ELSE IF \A r \in counted : ~Succeeds(known[r]) THEN "adapter_failure"
      ELSE IF Covered(known) # Targets THEN "incomplete_target_coverage"
      ELSE IF \E r \in counted : ~Succeeds(known[r]) THEN "adapter_partial_failure"
      ELSE IF \E r \in counted : known[r] = "succeeded" THEN "complete"
      ELSE "no_findings"

StateOfCode(code) ==
  CASE code \in {"no_adapters_available", "adapter_failure"} -> "failed"
    [] code \in {"incomplete_target_coverage", "adapter_partial_failure"} -> "partial"
    [] OTHER -> "succeeded"

-------------------------------------------------------------------------------
(* ARQ: delivery of jobs *)

Deliver(w, job) ==
  /\ pc[w] = "idle" /\ queue[job].status = "queued" /\ ~queue[job].abort
  /\ queue[job].tries < MaxTries
  /\ queue' = [queue EXCEPT ![job].status = "running", ![job].tries = @ + 1]
  /\ Become(w, "load", [IdleWorker EXCEPT !.job = job, !.try = queue[job].tries + 1])
  /\ UNCHANGED <<durable, left, seen, faults, reused>>

\* A job asked to abort before it started never runs.
DropAborted(job) ==
  /\ queue[job].status = "queued" /\ queue[job].abort
  /\ queue' = [queue EXCEPT ![job] = [NoJob EXCEPT !.status = "aborted"]]
  /\ UNCHANGED <<durable, pc, left, seen, wk, faults, reused>>

\* A job that was tried max_tries times is given up without running.
DropExhausted(job) ==
  /\ queue[job].status = "queued" /\ ~queue[job].abort
  /\ queue[job].tries >= MaxTries
  /\ queue' = [queue EXCEPT ![job] = NoJob]
  /\ UNCHANGED <<durable, pc, left, seen, wk, faults, reused>>

-------------------------------------------------------------------------------
(* run_case_scan_task *)

Load(w) ==
  /\ pc[w] = "load"
  /\ \/ /\ scan.cancel_requested
        /\ Become(w, "check", [wk[w] EXCEPT !.then = "return"])
        /\ UNCHANGED <<left, queue>>
     \/ /\ ~scan.cancel_requested /\ Terminal(scan)
        /\ EndJob(w, "gone")
     \/ /\ ~scan.cancel_requested /\ ~Terminal(scan)
        /\ Become(w, "claim", [wk[w] EXCEPT !.attempt = WorkerAttempt(scan, wk[w].try)])
        /\ UNCHANGED <<left, queue>>
  /\ UNCHANGED <<durable, seen, faults, reused>>

ClaimScan(w) ==
  /\ pc[w] = "claim"
  /\ \/ /\ Claimable(scan, wk[w].attempt)
        /\ Store(Claimed(scan, wk[w].attempt))
        /\ reused' = (reused \/ wk[w].attempt <= scan.worker_attempt)
        /\ Goto(w, "list")
     \/ /\ ~Claimable(scan, wk[w].attempt)
        /\ Goto(w, "reload")
        /\ UNCHANGED <<scan, lease, reused>>
  /\ UNCHANGED <<runs, graph, queue, left, seen, wk, faults>>

\* A refused claim ends the job with the state of the scan as its result.
Reload(w) ==
  /\ pc[w] = "reload"
  /\ \/ /\ scan.cancel_requested
        /\ Become(w, "check", [wk[w] EXCEPT !.then = "return"])
        /\ UNCHANGED <<left, queue>>
     \/ /\ ~scan.cancel_requested
        /\ EndJob(w, "gone")
  /\ UNCHANGED <<durable, seen, faults, reused>>

\* Runs that are done are not executed again.
ListRuns(w) ==
  /\ pc[w] = "list"
  /\ Become(w, "check",
            [wk[w] EXCEPT !.todo = Targets, !.then = "target",
                          !.known = [r \in Runs |->
                              IF runs[r] \in DoneRun THEN runs[r] ELSE "none"]])
  /\ UNCHANGED <<durable, left, queue, seen, faults, reused>>

\* Mutant: completed adapters are executed again.
RemainingForgetful(l, t) == {r \in Runs : TargetOf[r] = t}

\* The adapters of a target without a result the worker knows of.
Remaining(l, t) == {r \in Runs : TargetOf[r] = t /\ l.known[r] = "none"}

\* The loop goes to its next target, or leaves the loop.
NextTarget(w, l) ==
  IF l.todo = {} THEN Become(w, "finish", [l EXCEPT !.run = NoRun, !.then = "-"])
                 ELSE Become(w, "check", [l EXCEPT !.run = NoRun, !.then = "target"])

BeginTarget(w, t) ==
  LET l == [wk[w] EXCEPT !.todo = @ \ {t}, !.then = "-"]
  IN  IF Remaining(l, t) = {}
        THEN NextTarget(w, l)
        ELSE Become(w, "announce", [l EXCEPT !.plan = Remaining(l, t)])

\* Mutant: the run is recorded before its finding.
StepForRecordFirst(l, r) == "record"

\* The next execution of the target: its findings first, then its run.
Executions(l) == {r \in Runs : l.got[r] # "none"}
StepFor(l, r) == IF l.got[r] = "succeeded" THEN "finding" ELSE "record"

(***************************************************************************)
(* _terminal_or_cancelled_scan returned None: the worker goes on.          *)
(***************************************************************************)
GoOn(w) ==
  \/ /\ wk[w].then = "target"
     /\ \E t \in wk[w].todo : BeginTarget(w, t)
     /\ UNCHANGED <<left, queue>>
  \/ /\ wk[w].then \in Steps \ {"target"}
     /\ Become(w, wk[w].then, [wk[w] EXCEPT !.then = "-"])
     /\ UNCHANGED <<left, queue>>
  \/ /\ wk[w].then = "return"
     /\ EndJob(w, "gone")
  \/ /\ wk[w].then = "leave"
     /\ Become(w, "fail", Forget(wk[w], "-", wk[w].cause))
     /\ UNCHANGED <<left, queue>>
  \/ /\ wk[w].then = "abort"
     /\ EndJob(w, EndAfterCause(wk[w].cause))
  \/ /\ wk[w].then = "failed"
     /\ RaiseFailure(w)

(***************************************************************************)
(* It returned the scan s, which is terminal: the worker stops.  Inside    *)
(* the progress callback that is a CancelledError, whose handler looks     *)
(* again.                                                                  *)
(***************************************************************************)
StopAt(w, s) ==
  \/ /\ wk[w].then \in {"announce", "start"}
     /\ Become(w, "check", Forget(wk[w], "abort", wk[w].cause))
     /\ UNCHANGED <<left, queue>>
  \/ /\ wk[w].then = "abort"
     /\ EndJob(w, IF s.state = "cancelled" THEN "gone" ELSE EndAfterCause(wk[w].cause))
  \/ /\ wk[w].then = "failed"
     /\ IF s.state = "cancelled" THEN EndJob(w, "gone") ELSE RaiseFailure(w)
  \/ /\ wk[w].then \in {"target", "finding", "record", "return", "leave"}
     /\ EndJob(w, "gone")

Check(w) ==
  /\ pc[w] = "check"
  /\ \/ /\ scan.cancel_requested
        /\ Goto(w, "closelist")
        /\ UNCHANGED <<left, queue, wk>>
     \/ ~scan.cancel_requested /\ Terminal(scan) /\ StopAt(w, scan)
     \/ ~scan.cancel_requested /\ ~Terminal(scan) /\ GoOn(w)
  /\ UNCHANGED <<durable, seen, faults, reused>>

-------------------------------------------------------------------------------
(* finalize_cancelled_adapter_runs and acknowledge_cancellation: whoever   *)
(* sees the cancellation lists the runs, closes the live ones one by one,  *)
(* without a fence, and then acknowledges.                                 *)

CloseList(p) ==
  /\ pc[p] = "closelist"
  /\ left' = [left EXCEPT ![p] = LiveRuns]
  /\ Goto(p, IF LiveRuns = {} THEN "closeack" ELSE "closewrite")
  /\ UNCHANGED <<durable, queue, seen, wk, faults, reused>>

CloseWrite(p, r) ==
  /\ pc[p] = "closewrite" /\ r \in left[p]
  /\ runs' = [runs EXCEPT ![r] = "cancelled"]
  /\ left' = [left EXCEPT ![p] = @ \ {r}]
  /\ Goto(p, IF left[p] = {r} THEN "closeack" ELSE "closewrite")
  /\ UNCHANGED <<scan, lease, graph, queue, seen, wk, faults, reused>>

\* The worker's acknowledgement, and what its caller does with the answer.
WorkerAck(w) ==
  /\ pc[w] = "closeack"
  /\ LET s == CancellationAcknowledged(scan)
     IN  /\ StoreIfChanged(s)
         /\ IF Terminal(s) THEN StopAt(w, s) ELSE GoOn(w)
  /\ UNCHANGED <<runs, graph, seen, faults, reused>>
-------------------------------------------------------------------------------
(* The fenced writes of an attempt.  A write whose lease was lost raises.  *)

Fenced(w, step) == pc[w] = step /\ HoldsLease(scan, wk[w].attempt)

LosesFence(w) ==
  /\ pc[w] \in {"announce", "start", "finding", "record", "event"}
  /\ ~HoldsLease(scan, wk[w].attempt)
  /\ Become(w, "fail", Forget(wk[w], "-", wk[w].cause))
  /\ UNCHANGED <<durable, left, queue, seen, faults, reused>>

\* progress_callback(QUEUED), once for every remaining adapter of the target.
Announce(w, r) ==
  LET rest == wk[w].plan \ {r}
  IN  /\ Fenced(w, "announce") /\ r \in wk[w].plan
      /\ runs' = [runs EXCEPT ![r] = "queued"]
      /\ Become(w, "event",
                IF rest = {}
                  THEN [wk[w] EXCEPT !.then = "start",
                                     !.plan = Remaining(wk[w], TargetOf[r])]
                  ELSE [wk[w] EXCEPT !.then = "announce", !.plan = rest])
      /\ UNCHANGED <<scan, lease, graph, left, queue, seen, faults, reused>>

\* progress_callback(RUNNING), right before the adapter executes.
Start(w, r) ==
  /\ Fenced(w, "start") /\ r \in wk[w].plan
  /\ runs' = [runs EXCEPT ![r] = "running"]
  /\ Become(w, "event", [wk[w] EXCEPT !.then = "execute", !.run = r, !.plan = @ \ {r}])
  /\ UNCHANGED <<scan, lease, graph, left, queue, seen, faults, reused>>

\* The adapter ends, one way or another; an exception of its is a failure.
Execute(w, o) ==
  LET l == [wk[w] EXCEPT !.got[wk[w].run] = o]
  IN  /\ pc[w] = "execute"
      /\ \/ /\ l.plan # {}
            /\ Become(w, "check", [l EXCEPT !.then = "start", !.run = NoRun])
         \/ /\ l.plan = {}
            /\ \E r \in Executions(l) :
                 Become(w, "check", [l EXCEPT !.then = StepFor(l, r), !.run = r])
      /\ UNCHANGED <<durable, left, queue, seen, faults, reused>>

AddEvent(w) ==
  /\ Fenced(w, "event")
  /\ IF wk[w].then \in {"execute", "finish"}
       THEN Become(w, wk[w].then, [wk[w] EXCEPT !.then = "-"])
       ELSE Goto(w, "check") /\ UNCHANGED wk
  /\ UNCHANGED <<durable, left, queue, seen, faults, reused>>

AddFinding(w) ==
  /\ Fenced(w, "finding")
  /\ graph' = graph \cup {wk[w].run}
  /\ Become(w, "check", [wk[w] EXCEPT !.then = "record"])
  /\ UNCHANGED <<scan, lease, runs, left, queue, seen, faults, reused>>

RecordRun(w) ==
  LET r == wk[w].run
      l == [wk[w] EXCEPT !.known[r] = wk[w].got[r], !.got[r] = "none", !.run = NoRun]
  IN  /\ Fenced(w, "record")
      /\ runs' = [runs EXCEPT ![r] = wk[w].got[r]]
      /\ \/ \E q \in Executions(l) :
              Become(w, "event", [l EXCEPT !.then = StepFor(l, q), !.run = q])
         \/ /\ Executions(l) = {}
            /\ Become(w, "event",
                  [l EXCEPT !.then = IF l.todo = {} THEN "finish" ELSE "target"])
      /\ UNCHANGED <<scan, lease, graph, left, queue, seen, faults, reused>>

\* finish_scan at the end of the loop.  A stale attempt ends quietly.
FinishScan(w) ==
  LET code == FinalCode(wk[w].known)
  IN  /\ pc[w] = "finish"
      /\ StoreIfChanged(Finished(scan, wk[w].attempt, StateOfCode(code), code))
      /\ \/ /\ scan.cancel_requested
            /\ Become(w, "check", [wk[w] EXCEPT !.then = "leave"])
            /\ UNCHANGED <<left, queue>>
         \/ /\ ~scan.cancel_requested
            /\ EndJob(w, "gone")
      /\ UNCHANGED <<runs, graph, seen, faults, reused>>

\* The Exception handler: retryable, unless this is the last try of the job.
FailScan(w) ==
  LET state == IF FinalAttempt(w) THEN "failed" ELSE "running"
      code == IF FinalAttempt(w) THEN "worker_failure" ELSE "retryable_worker_failure"
  IN  /\ pc[w] = "fail"
      /\ StoreIfChanged(Finished(scan, wk[w].attempt, state, code))
      /\ \/ /\ scan.cancel_requested
            /\ Become(w, "check", [wk[w] EXCEPT !.then = "failed"])
            /\ UNCHANGED <<left, queue>>
         \/ /\ ~scan.cancel_requested
            /\ RaiseFailure(w)
      /\ UNCHANGED <<runs, graph, seen, faults, reused>>

-------------------------------------------------------------------------------
(* The heartbeat, and everything else that stops a worker from outside.    *)

Heartbeat(w) ==
  /\ Holds(w) /\ lease # "fresh"
  /\ lease' = "fresh"
  /\ UNCHANGED <<scan, runs, graph, queue, pc, left, seen, wk, faults, reused>>

\* A CancelledError reaches the task at its next await.
CancelTask(w, cause) ==
  \/ /\ InTry(w)
     /\ Become(w, "check", Forget(wk[w], "abort", cause))
     /\ left' = [left EXCEPT ![w] = {}]
     /\ queue' = [queue EXCEPT ![wk[w].job].abort = @ /\ cause # "abort"]
  \/ /\ Unclaimed(w) \/ InHandler(w)
     /\ EndJob(w, EndAfterCause(cause))

\* The heartbeat finds the lease lost and cancels its task, once.
LeaseLost(w) ==
  /\ Active(w) /\ ~HoldsLease(scan, wk[w].attempt) /\ ~Terminal(scan)
  /\ wk[w].cause # "cancelled"
  /\ CancelTask(w, IF wk[w].cause = "none" THEN "cancelled" ELSE wk[w].cause)
  /\ UNCHANGED <<durable, seen, faults, reused>>

\* arq's abort loop cancels a running job that was asked to abort.
AbortTask(w) ==
  /\ pc[w] # "idle" /\ queue[wk[w].job].abort
  /\ CancelTask(w, "abort")
  /\ UNCHANGED <<durable, seen, faults, reused>>

\* job_timeout: arq cancels the task and does not run the job again.
JobTimeout(w) ==
  /\ pc[w] # "idle" /\ Fault
  /\ CancelTask(w, "timeout")
  /\ UNCHANGED <<durable, seen, reused>>

\* The worker process dies; arq delivers its job again.
Crash(w) ==
  /\ pc[w] # "idle" /\ Fault
  /\ EndJob(w, "queued")
  /\ UNCHANGED <<durable, seen, reused>>

\* A call of the store raises.
StoreFails(w) ==
  /\ Fault
  /\ \/ /\ Unclaimed(w) \/ (InHandler(w) /\ wk[w].then = "abort")
        /\ EndJob(w, "gone")
     \/ /\ InTry(w) /\ pc[w] # "execute"
        /\ Become(w, "fail", Forget(wk[w], "-", wk[w].cause))
        /\ left' = [left EXCEPT ![w] = {}]
        /\ UNCHANGED queue
     \/ /\ InHandler(w) /\ wk[w].then # "abort"
        /\ RaiseFailure(w)
  /\ UNCHANGED <<durable, seen, reused>>

-------------------------------------------------------------------------------
(* Time.  stale_before is fixed when a sweep starts, so a lease is only    *)
(* taken back if it was expired at that moment and not renewed since.      *)

LeaseAges ==
  /\ scan.state = "running" /\ lease = "fresh"
  /\ \A w \in Workers : ~Holds(w)
  /\ lease' = "aged"
  /\ UNCHANGED <<scan, runs, graph, queue, pc, left, seen, wk, faults, reused>>

\* A live worker misses its heartbeats for a whole lease.
WorkerStalls ==
  /\ scan.state = "running" /\ lease = "fresh"
  /\ \E w \in Workers : Holds(w)
  /\ Fault
  /\ lease' = "aged"
  /\ UNCHANGED <<scan, runs, graph, queue, pc, left, seen, wk, reused>>

-------------------------------------------------------------------------------
(* _dispatch_loop, for the one scan *)

SeenBy(p, s) == seen' = [seen EXCEPT ![p] = s]

\* Back to rest; what was read is dead.
Leave(p, where) == Goto(p, where) /\ SeenBy(p, InitialScan)

\* Mutant: the sweep only lists QUEUED scans.
SweepQueuedOnly ==
  /\ pc[Dispatcher] = "sweep"
  /\ scan.state = "queued"
  /\ SeenBy(Dispatcher, scan)
  /\ Goto(Dispatcher, IF scan.cancel_requested THEN "closelist" ELSE "enqueue")
  /\ UNCHANGED <<durable, queue, left, wk, faults, reused>>

Sweep ==
  /\ pc[Dispatcher] = "sweep"
  /\ scan.state = "queued" \/ (scan.state = "running" /\ lease # "fresh")
  /\ lease' = IF lease = "aged" THEN "stale" ELSE lease
  /\ SeenBy(Dispatcher, scan)
  /\ Goto(Dispatcher, CASE scan.cancel_requested -> "closelist"
                         [] ~scan.cancel_requested /\ scan.state = "running" -> "recover"
                         [] OTHER -> "enqueue")
  /\ UNCHANGED <<scan, runs, graph, queue, left, wk, faults, reused>>

\* Mutant: the recovery relies on the sweep's read and compares no updated_at.
RecoverStaleScanAsRead ==
  /\ pc[Dispatcher] = "recover" /\ RecoveryJob(seen[Dispatcher]) \in Jobs
  /\ Store(Recovered(scan, RecoveryJob(seen[Dispatcher])))
  /\ SeenBy(Dispatcher, Recovered(scan, RecoveryJob(seen[Dispatcher])))
  /\ Goto(Dispatcher, "enqueue")
  /\ UNCHANGED <<runs, graph, queue, left, wk, faults, reused>>

RecoverStaleScan ==
  LET job == RecoveryJob(seen[Dispatcher])
  IN  /\ pc[Dispatcher] = "recover" /\ job \in Jobs
      /\ \/ /\ Recoverable(scan) /\ lease = "stale"
            /\ Store(Recovered(scan, job))
            /\ SeenBy(Dispatcher, Recovered(scan, job))
            /\ Goto(Dispatcher, "enqueue")
         \/ /\ ~(Recoverable(scan) /\ lease = "stale")
            /\ Leave(Dispatcher, "sweep")
            /\ UNCHANGED <<scan, lease>>
      /\ UNCHANGED <<runs, graph, queue, left, wk, faults, reused>>

EnqueueRepair ==
  /\ pc[Dispatcher] = "enqueue"
  /\ queue' = Enqueued(seen[Dispatcher].job_id)
  /\ IF seen[Dispatcher].outcome_code = "queue_retryable_failure"
       THEN Goto(Dispatcher, "mark") /\ UNCHANGED seen
       ELSE Leave(Dispatcher, "sweep")
  /\ UNCHANGED <<durable, left, wk, faults, reused>>

MarkScanDispatched ==
  /\ pc[Dispatcher] = "mark"
  /\ StoreIfChanged(Dispatched(scan, seen[Dispatcher].job_id))
  /\ Leave(Dispatcher, "sweep")
  /\ UNCHANGED <<runs, graph, queue, left, wk, faults, reused>>

DispatcherAck ==
  /\ pc[Dispatcher] = "closeack"
  /\ StoreIfChanged(CancellationAcknowledged(scan))
  /\ Leave(Dispatcher, "sweep")
  /\ UNCHANGED <<runs, graph, queue, left, wk, faults, reused>>

\* Any call of the sweep raises, or the API process restarts.
SweepFails ==
  /\ pc[Dispatcher] # "sweep" /\ Fault
  /\ Leave(Dispatcher, "sweep")
  /\ left' = [left EXCEPT ![Dispatcher] = {}]
  /\ UNCHANGED <<durable, queue, wk, reused>>

-------------------------------------------------------------------------------
(* The tail of the create handler, after create_scan returned its record.  *)
(* The request may also die at any point: none of its steps is fair.       *)

EnqueueScan(c) ==
  /\ pc[c] = "enqueue"
  /\ queue' = Enqueued(InitialScan.job_id)
  /\ Goto(c, "off")
  /\ UNCHANGED <<durable, left, seen, wk, faults, reused>>

\* enqueue raised, whether or not the job reached Redis.
EnqueueScanFails(c) ==
  /\ pc[c] = "enqueue" /\ Fault
  /\ queue' \in {queue, Enqueued(InitialScan.job_id)}
  /\ Goto(c, "reread")
  /\ UNCHANGED <<durable, left, seen, wk, reused>>

RereadScan(c) ==
  /\ pc[c] = "reread"
  /\ SeenBy(c, scan)
  /\ Goto(c, "rewrite")
  /\ UNCHANGED <<durable, queue, left, wk, faults, reused>>

\* update_scan writes the whole record back, whatever it is by now.
RewriteScan(c) ==
  /\ pc[c] = "rewrite"
  /\ RewriteRaces \/ scan = seen[c]
  /\ Store([seen[c] EXCEPT !.outcome_code = "queue_retryable_failure"])
  /\ Leave(c, "off")
  /\ UNCHANGED <<runs, graph, queue, left, wk, faults, reused>>

-------------------------------------------------------------------------------
(* The cancel handler.  The request may die at any point, like the create  *)
(* request.                                                                *)

ReadForCancel(c) ==
  /\ pc[c] = "read"
  /\ \/ /\ ~Terminal(scan)
        /\ SeenBy(c, scan)
        /\ Goto(c, "request")
     \/ /\ Terminal(scan)
        /\ SeenBy(c, scan)
        /\ Goto(c, IF scan.state = "cancelled" THEN "closelist" ELSE "off")
  /\ UNCHANGED <<durable, left, queue, wk, faults, reused>>

RequestCancellation(c) ==
  /\ pc[c] = "request"
  /\ IF Terminal(scan) THEN UNCHANGED <<scan, lease>>
                        ELSE Store(CancellationRequested(scan))
  /\ Goto(c, "abort")
  /\ UNCHANGED <<runs, graph, left, queue, seen, wk, faults, reused>>

\* The job to abort is the one of the first read; the call itself may fail.
AbortJob(c) ==
  /\ pc[c] = "abort"
  /\ \/ queue' = [queue EXCEPT ![seen[c].job_id].abort = TRUE]
     \/ UNCHANGED queue
  /\ Goto(c, "await")
  /\ UNCHANGED <<durable, left, seen, wk, faults, reused>>

\* The job's result is awaited for five seconds.
AwaitAbort(c) ==
  /\ pc[c] = "await"
  /\ \/ queue[seen[c].job_id].status = "aborted" /\ Goto(c, "confirm")
     \/ Goto(c, "refresh")
  /\ UNCHANGED <<durable, left, queue, seen, wk, faults, reused>>

RefreshAfterAbort(c) ==
  /\ pc[c] \in {"refresh", "confirm"}
  /\ SeenBy(c, scan)
  /\ Goto(c, IF pc[c] = "confirm" \/ scan.state = "cancelled"
               THEN "closelist" ELSE "off")
  /\ UNCHANGED <<durable, left, queue, wk, faults, reused>>

CancelAck(c) ==
  /\ pc[c] = "closeack"
  /\ IF Terminal(seen[c]) THEN UNCHANGED <<scan, lease>>
                           ELSE StoreIfChanged(CancellationAcknowledged(scan))
  /\ Leave(c, "off")
  /\ UNCHANGED <<runs, graph, queue, left, wk, faults, reused>>

-------------------------------------------------------------------------------
Init ==
  /\ scan = InitialScan
  /\ lease = "fresh"
  /\ runs = [r \in Runs |-> "none"]
  /\ graph = {}
  /\ queue = [j \in Jobs |-> NoJob]
  /\ pc = [p \in Procs |-> IF p \in Workers THEN "idle"
                            ELSE IF p \in Cancellers THEN "read"
                            ELSE IF p \in Creators THEN "enqueue" ELSE "sweep"]
  /\ left = [p \in Closers |-> {}]
  /\ seen = [p \in Procs \ Workers |-> InitialScan]
  /\ wk = [w \in Workers |-> IdleWorker]
  /\ faults = 0
  /\ reused = FALSE

Closing(p) == CloseList(p) \/ \E r \in Runs : CloseWrite(p, r)

Fetch(w) == \E j \in Jobs : Deliver(w, j)

Work(w) ==
  \/ Load(w) \/ ClaimScan(w) \/ Reload(w) \/ ListRuns(w) \/ Check(w)
  \/ \E r \in Runs : Announce(w, r) \/ Start(w, r)
  \/ \E o \in AdapterOutcomes : Execute(w, o)
  \/ AddEvent(w) \/ AddFinding(w) \/ RecordRun(w) \/ LosesFence(w)
  \/ FinishScan(w) \/ FailScan(w)
  \/ Closing(w) \/ WorkerAck(w)

Stop(w) == LeaseLost(w) \/ AbortTask(w) \/ JobTimeout(w) \/ Crash(w) \/ StoreFails(w)

Dispatch ==
  \/ Sweep \/ RecoverStaleScan \/ EnqueueRepair \/ MarkScanDispatched
  \/ Closing(Dispatcher) \/ DispatcherAck

Create(c) == EnqueueScan(c) \/ EnqueueScanFails(c) \/ RereadScan(c) \/ RewriteScan(c)

Cancel(c) ==
  \/ ReadForCancel(c) \/ RequestCancellation(c) \/ AbortJob(c) \/ AwaitAbort(c)
  \/ RefreshAfterAbort(c) \/ Closing(c) \/ CancelAck(c)

ArqDrops == \E j \in Jobs : DropAborted(j) \/ DropExhausted(j)

Next ==
  \/ \E w \in Workers : Fetch(w) \/ Work(w) \/ Heartbeat(w) \/ Stop(w)
  \/ ArqDrops \/ LeaseAges \/ WorkerStalls
  \/ Dispatch \/ SweepFails
  \/ \E c \in Creators : Create(c)
  \/ \E c \in Cancellers : Cancel(c)

(***************************************************************************)
(* Workers, arq and the dispatch loop keep running; time passes.  Nothing  *)
(* else is fair: requests die, and no fault is bound to happen.            *)
(***************************************************************************)
Fairness ==
  /\ \A w \in Workers : WF_vars(Work(w)) /\ WF_vars(Fetch(w))
  /\ WF_vars(ArqDrops) /\ WF_vars(LeaseAges) /\ WF_vars(Dispatch)

Spec == Init /\ [][Next]_vars
FairSpec == Spec /\ Fairness
-------------------------------------------------------------------------------
(* Properties *)

\* Every variable keeps its type.
TypeOK ==
  /\ scan \in Scan
  /\ lease \in {"fresh", "aged", "stale"}
  /\ runs \in [Runs -> RunState]
  /\ graph \subseteq Runs
  /\ queue \in [Jobs -> Job]
  /\ pc \in [Procs -> WorkerPcs \cup ApiPcs]
  /\ left \in [Closers -> SUBSET Runs]
  /\ seen \in [Procs \ Workers -> Scan]
  /\ wk \in [Workers -> Worker]
  /\ faults \in 0 .. MaxFaults
  /\ reused \in BOOLEAN

\* The fence of add_adapter_run, add_graph_records and finish_scan lets at
\* most one worker write, as long as no attempt number was installed twice,
\* however late an earlier worker notices that its lease was taken.
LeaseExclusive ==
  ~reused => \A v, w \in Workers : Holds(v) /\ Holds(w) => v = w

\* The runs of the store as a worker counts them.
DurableResults == [r \in Runs |-> IF runs[r] \in DoneRun THEN runs[r] ELSE "none"]

\* The verdict finish_scan stores is the one the durable adapter runs call
\* for, and no run is left open, although the worker computed it from its own
\* counters, over several attempts, of which some died half way.
OutcomeAgrees ==
  (~reused /\ scan.outcome_code \in CompletionCodes) =>
    /\ scan.outcome_code = FinalCode(DurableResults)
    /\ scan.state = StateOfCode(scan.outcome_code)
    /\ LiveRuns = {}

\* A scan that shows CANCELLED shows no adapter run as queued or running,
\* although the runs are closed one by one, without a fence, by a worker, the
\* dispatch loop and the cancel request at the same time.
CancelledRunsClosed == scan.state = "cancelled" => LiveRuns = {}

\* A run that is stored as succeeded has its finding in the evidence graph:
\* the graph is written first, in a separate call.
FindingsBeforeRun == \A r \in Runs : runs[r] = "succeeded" => r \in graph

\* The stored result of a run is never replaced: not by a retry, not by a
\* worker that lost its lease, not by the closing of a cancelled scan.
ResultsAreFinal ==
  [][~reused' => \A r \in Runs : runs[r] \in AdapterResult => runs'[r] = runs[r]]_vars

\* The lifecycle keeps the promise of ScanContract.
Contract == INSTANCE ScanContract
              WITH status <- scan.state, cancel <- scan.cancel_requested, live <- LiveRuns

ContractHolds == Contract!ContractSpec

\* What the workers claim with, the dispatch loop's job ids, and how an attempt ends.
AttemptNumbers == 0 .. MaxTries + MaxJob
RecoveryJobs == Jobs \ {0}
Endings ==
  {<<StateOfCode(code), code>> : code \in CompletionCodes}
    \cup {<<"failed", "worker_failure">>, <<"running", "retryable_worker_failure">>}

\* Whoever moves, and whatever failed before, the record and its lease change only by
\* one operation of the store at a time, called as its promise allows: a recovery of a
\* lease that is stale at that moment, an end by the holder of the lease with a verdict
\* or a failure, a rewrite only by the create handler; and the numbers stay in bounds.
RecordStore == INSTANCE ScanStore
                 WITH record <- scan, expired <- (lease = "stale"),
                      Attempts <- AttemptNumbers, LeaseJobs <- RecoveryJobs,
                      Rewriters <- Creators

StorePromised == RecordStore!StoreSpec

\* Whatever fails, the scan reaches a final state.
EventuallyTerminal == <>Terminal(scan)

\* A requested cancellation is acknowledged.
CancelAcknowledged == scan.cancel_requested ~> scan.state = "cancelled"

(***************************************************************************)
(* What tests of the repository say, and the code does not do.             *)
(***************************************************************************)

\* tests/test_scan_leases.py:163: a stale worker cannot overwrite the
\* artifacts of the worker that replaced it.
ReplacementArtifactsStay ==
  [][\A r \in Runs : runs[r] \in AdapterResult => runs'[r] = runs[r]]_vars

\* tests/test_scan_leases.py:283: repairing a failed enqueue does not roll back
\* the claim of a concurrent worker.  RUNNING goes back to QUEUED only under
\* the job id of a lease recovery.
NoRollback ==
  [][scan.state = "running" /\ scan'.state = "queued" => scan'.job_id # scan.job_id]_vars
===============================================================================
