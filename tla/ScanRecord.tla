------------------------------ MODULE ScanRecord ------------------------------
(***************************************************************************)
(* The durable scan record and what each store operation does to it.       *)
(*                                                                         *)
(* Every operator is one method of the store (app/storage/memory.py):      *)
(* the guard it evaluates under the store's lock and the record it writes. *)
(* InMemoryStore runs each of them under one asyncio.Lock, and Neo4jStore  *)
(* writes with a compare-and-set on the same fields, so a step of the      *)
(* modules that use this one is one such call.                             *)
(***************************************************************************)
EXTENDS Naturals

TerminalScanStates == {"succeeded", "partial", "failed", "cancelled"}

ScanState == {"queued", "running"} \cup TerminalScanStates

\* The codes a worker completes a scan with, and all outcome codes.
CompletionCodes == {"complete", "no_findings", "adapter_failure",
                    "adapter_partial_failure", "incomplete_target_coverage",
                    "no_adapters_available"}

OutcomeCodes == CompletionCodes \cup
                {"queued", "queue_retryable_failure", "running",
                 "worker_lease_expired", "retryable_worker_failure",
                 "worker_failure", "cancellation_requested", "cancelled"}

\* job_id 0 is the job the create handler assigned; n > 0 is the recovery
\* job "<scan>-lease-n" of the dispatch loop.
Scan == [state: ScanState, cancel_requested: BOOLEAN, worker_attempt: Nat,
         job_id: Nat, outcome_code: OutcomeCodes]

InitialScan == [state |-> "queued", cancel_requested |-> FALSE,
                worker_attempt |-> 0, job_id |-> 0, outcome_code |-> "queued"]

Terminal(s) == s.state \in TerminalScanStates

(***************************************************************************)
(* The fence.  A worker's writes carry the attempt it claimed; the store   *)
(* refuses them once another attempt was installed, the scan left RUNNING  *)
(* or a cancellation is durable.                                           *)
(***************************************************************************)
\* Mutants: the fence forgets the cancellation, or the attempt.
HoldsLeaseIgnoringCancel(s, attempt) == s.state = "running" /\ s.worker_attempt = attempt
HoldsLeaseIgnoringAttempt(s, attempt) == s.state = "running" /\ ~s.cancel_requested

HoldsLease(s, attempt) ==
  /\ s.state = "running"
  /\ s.worker_attempt = attempt
  /\ ~s.cancel_requested

(***************************************************************************)
(* The attempt number a worker computes from the record it loaded and the  *)
(* try number of its job, and the claim made with it.                      *)
(***************************************************************************)
WorkerAttempt(s, try) ==
  IF s.state = "queued" /\ s.worker_attempt + 1 > try
    THEN s.worker_attempt + 1
    ELSE try

\* Mutant: a cancelled scan can still be claimed.
ClaimableWhenCancelled(s, attempt) ==
  s.state = "queued" \/ (s.state = "running" /\ attempt > s.worker_attempt)

Claimable(s, attempt) ==
  /\ \/ s.state = "queued"
     \/ s.state = "running" /\ attempt > s.worker_attempt
  /\ ~s.cancel_requested

Claimed(s, attempt) ==
  [s EXCEPT !.state = "running", !.outcome_code = "running",
            !.worker_attempt = attempt]

(***************************************************************************)
(* Recovery of an expired lease by the dispatch loop: the scan goes back   *)
(* to QUEUED under a new job id.  Whether the lease is stale is a question *)
(* of time, which the lifecycle module answers.                            *)
(***************************************************************************)
RecoveryJob(s) == s.worker_attempt + 1

Recoverable(s) == s.state = "running" /\ ~s.cancel_requested

Recovered(s, job) ==
  [s EXCEPT !.state = "queued", !.outcome_code = "worker_lease_expired",
            !.job_id = job]

\* Mutant: the arguments of finish_scan are swapped.
FinishedSwapped(s, attempt, state, code) ==
  IF HoldsLease(s, attempt)
    THEN [s EXCEPT !.state = code, !.outcome_code = state]
    ELSE s

\* The fenced end of an attempt.  A stale attempt gets the record unchanged.
Finished(s, attempt, state, code) ==
  IF HoldsLease(s, attempt)
    THEN [s EXCEPT !.state = state, !.outcome_code = code]
    ELSE s

CancellationRequested(s) ==
  IF Terminal(s)
    THEN s
    ELSE [s EXCEPT !.cancel_requested = TRUE,
                   !.outcome_code = "cancellation_requested"]

\* Mutant: only a scan that never started can be acknowledged.
CancellationAcknowledgedIfQueued(s) ==
  IF s.state # "queued" \/ ~s.cancel_requested
    THEN s
    ELSE [s EXCEPT !.state = "cancelled", !.outcome_code = "cancelled"]

CancellationAcknowledged(s) ==
  IF Terminal(s) \/ ~s.cancel_requested
    THEN s
    ELSE [s EXCEPT !.state = "cancelled", !.outcome_code = "cancelled"]

\* The dispatch loop clears "queue_retryable_failure" only if nothing moved.
Dispatched(s, job) ==
  IF /\ s.state = "queued"
     /\ s.job_id = job
     /\ ~s.cancel_requested
     /\ s.outcome_code = "queue_retryable_failure"
    THEN [s EXCEPT !.outcome_code = "queued"]
    ELSE s
===============================================================================
