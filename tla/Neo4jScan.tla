------------------------------- MODULE Neo4jScan -------------------------------
(***************************************************************************)
(* One scan in Neo4jStore (app/storage/neo4j.py).                          *)
(*                                                                         *)
(* A Scan node keeps the record twice: as properties (state, outcome_code, *)
(* job_id, cancel_requested, worker_attempt, updated_at), which the WHERE  *)
(* clauses look at, and as a JSON payload, which is what every read of the *)
(* application returns.  An operation is two queries: it reads the         *)
(* payload, decides and computes the new payload in Python, and writes     *)
(* under a WHERE clause on the properties.  Between the two queries other  *)
(* clients write.  A query is a transaction, and taken to be atomic.       *)
(*                                                                         *)
(* The arguments are left open: the store has to work for every caller.    *)
(***************************************************************************)
EXTENDS ScanRecord

CONSTANTS
  Clients,    \* tasks of the API and of the workers that call the store
  Sweeper,    \* the dispatch loop: only it recovers leases
  Rewriters,  \* clients that may write a whole record back (update_scan)
  Attempts,   \* attempt numbers passed by workers
  LeaseJobs,  \* recovery job ids passed by the dispatch loop
  Endings     \* the (state, outcome code) pairs finish_scan is called with

ASSUME ClientsAssumption ==
  /\ Sweeper \in Clients
  /\ Rewriters \subseteq Clients
  /\ Attempts \subseteq Nat \ {0}
  /\ LeaseJobs \subseteq Nat \ {0}
  /\ Endings \subseteq (TerminalScanStates \cup {"running"})
                         \X (OutcomeCodes \ {"queue_retryable_failure"})

VARIABLES
  fields,     \* the node's properties
  payload,    \* the node's payload
  lease,      \* age of updated_at: fresh, aged, or stale for the sweep under way
  op,         \* the operation each client is in the middle of
  rewritten   \* the scan's one create request began its rewrite

node == <<fields, payload>>
nvars == <<fields, payload, lease, op, rewritten>>

Kinds == {"none", "mark", "claim", "touch", "recover", "finish", "request",
          "acknowledge", "update"}

Operation == [kind: Kinds, read: Scan, attempt: Attempts \cup {0},
              job: LeaseJobs \cup {0}, ending: Endings \cup {<<>>}]

NoOp == [kind |-> "none", read |-> InitialScan, attempt |-> 0, job |-> 0, ending |-> <<>>]

\* The first query, when the operation goes on after it.
Started(kind, a, j, e) ==
  [kind |-> kind, read |-> payload, attempt |-> a, job |-> j, ending |-> e]

Reads(c, o) ==
  /\ op[c] = NoOp
  /\ op' = [op EXCEPT ![c] = o]
  /\ UNCHANGED node

\* The second query: the properties f and the payload p are set if the WHERE
\* clause matches the node.
Writes(c, kind, where, f, p) ==
  /\ op[c].kind = kind
  /\ op' = [op EXCEPT ![c] = NoOp]
  /\ \/ where /\ fields' = f /\ payload' = p /\ lease' = "fresh"
     \/ ~where /\ UNCHANGED <<fields, payload, lease>>
  /\ UNCHANGED rewritten

-------------------------------------------------------------------------------
ReadToMark(c, j) ==
  /\ Dispatched(payload, j) # payload
  /\ Reads(c, Started("mark", 0, j, <<>>))
  /\ UNCHANGED <<lease, rewritten>>

MarkScanDispatched(c) ==
  LET o == op[c]
  IN  Writes(c, "mark",
        /\ fields.state = "queued" /\ fields.job_id = o.job
        /\ fields.outcome_code = "queue_retryable_failure"
        /\ ~fields.cancel_requested,
        [fields EXCEPT !.outcome_code = "queued"],
        Dispatched(o.read, o.job))

ReadToClaim(c, a) ==
  /\ Claimable(payload, a)
  /\ Reads(c, Started("claim", a, 0, <<>>))
  /\ UNCHANGED <<lease, rewritten>>

ClaimScan(c) ==
  LET o == op[c]
  IN  Writes(c, "claim",
        /\ ~fields.cancel_requested
        /\ \/ fields.state = "queued"
           \/ fields.state = "running" /\ fields.worker_attempt < o.attempt,
        [fields EXCEPT !.state = "running", !.outcome_code = "running",
                       !.worker_attempt = o.attempt],
        Claimed(o.read, o.attempt))

ReadToTouch(c, a) ==
  /\ HoldsLease(payload, a)
  /\ Reads(c, Started("touch", a, 0, <<>>))
  /\ UNCHANGED <<lease, rewritten>>

\* Mutant: the WHERE clause forgets the cancellation.
TouchScanLeaseBlind(c) ==
  LET o == op[c]
  IN  Writes(c, "touch", fields.state = "running" /\ fields.worker_attempt = o.attempt,
             fields, o.read)

TouchScanLease(c) ==
  LET o == op[c]
  IN  Writes(c, "touch",
        /\ fields.state = "running"
        /\ fields.worker_attempt = o.attempt
        /\ ~fields.cancel_requested,
        fields, o.read)

\* stale_before is fixed by the sweep; what is older now stays stale for it.
ReadToRecover(j) ==
  /\ Recoverable(payload) /\ lease # "fresh"
  /\ Reads(Sweeper, Started("recover", 0, j, <<>>))
  /\ lease' = "stale"
  /\ UNCHANGED rewritten

\* Mutant: the WHERE clause does not look at the age of the lease again.
RecoverStaleScanUnchecked ==
  LET o == op[Sweeper]
  IN  Writes(Sweeper, "recover",
        /\ fields.state = "running"
        /\ fields.worker_attempt = o.read.worker_attempt
        /\ ~fields.cancel_requested,
        [fields EXCEPT !.state = "queued", !.outcome_code = "worker_lease_expired",
                       !.job_id = o.job],
        Recovered(o.read, o.job))

\* Mutant: the job id of the recovery is only set in the payload.
RecoverStaleScanKeepsJob ==
  LET o == op[Sweeper]
  IN  Writes(Sweeper, "recover",
        /\ fields.state = "running"
        /\ fields.worker_attempt = o.read.worker_attempt
        /\ ~fields.cancel_requested
        /\ lease = "stale",
        [fields EXCEPT !.state = "queued", !.outcome_code = "worker_lease_expired"],
        Recovered(o.read, o.job))

RecoverStaleScan ==
  LET o == op[Sweeper]
  IN  Writes(Sweeper, "recover",
        /\ fields.state = "running"
        /\ fields.worker_attempt = o.read.worker_attempt
        /\ ~fields.cancel_requested
        /\ lease = "stale",
        [fields EXCEPT !.state = "queued", !.outcome_code = "worker_lease_expired",
                       !.job_id = o.job],
        Recovered(o.read, o.job))

ReadToFinish(c, a, e) ==
  /\ HoldsLease(payload, a)
  /\ Reads(c, Started("finish", a, 0, e))
  /\ UNCHANGED <<lease, rewritten>>

FinishScan(c) ==
  LET o == op[c]
  IN  Writes(c, "finish",
        /\ fields.state = "running"
        /\ fields.worker_attempt = o.attempt
        /\ ~fields.cancel_requested,
        [fields EXCEPT !.state = o.ending[1], !.outcome_code = o.ending[2]],
        [o.read EXCEPT !.state = o.ending[1], !.outcome_code = o.ending[2]])

ReadToRequest(c) ==
  /\ ~Terminal(payload)
  /\ Reads(c, Started("request", 0, 0, <<>>))
  /\ UNCHANGED <<lease, rewritten>>

\* Mutant: without the WHERE clause a final scan gets an older payload.
RequestCancellationBlind(c) ==
  Writes(c, "request", TRUE,
    [fields EXCEPT !.cancel_requested = TRUE, !.outcome_code = "cancellation_requested"],
    CancellationRequested(op[c].read))

\* The state is not set: whatever the scan is by now, only the payload says.
RequestCancellation(c) ==
  Writes(c, "request", ~Terminal(fields),
    [fields EXCEPT !.cancel_requested = TRUE, !.outcome_code = "cancellation_requested"],
    CancellationRequested(op[c].read))

ReadToAcknowledge(c) ==
  /\ ~Terminal(payload) /\ payload.cancel_requested
  /\ Reads(c, Started("acknowledge", 0, 0, <<>>))
  /\ UNCHANGED <<lease, rewritten>>

AcknowledgeCancellation(c) ==
  Writes(c, "acknowledge", fields.cancel_requested /\ ~Terminal(fields),
    [fields EXCEPT !.state = "cancelled", !.outcome_code = "cancelled"],
    CancellationAcknowledged(op[c].read))

\* The request that created the scan reads it to write it back as not
\* dispatched, at most once.
ReadToUpdate(c) ==
  /\ c \in Rewriters /\ ~rewritten
  /\ rewritten' = TRUE
  /\ Reads(c, Started("update", 0, 0, <<>>))
  /\ UNCHANGED lease

UpdateScan(c) ==
  LET r == [op[c].read EXCEPT !.outcome_code = "queue_retryable_failure"]
  IN  Writes(c, "update", TRUE, r, r)

\* A query raises; whether it took effect is another behaviour of the same steps.
Fails(c) ==
  /\ op[c] # NoOp
  /\ op' = [op EXCEPT ![c] = NoOp]
  /\ UNCHANGED <<fields, payload, lease, rewritten>>

LeaseAges == lease = "fresh" /\ lease' = "aged" /\ UNCHANGED <<fields, payload, op, rewritten>>

Next ==
  \/ \E c \in Clients :
       \/ \E j \in LeaseJobs \cup {0} : ReadToMark(c, j)
       \/ \E a \in Attempts : ReadToClaim(c, a) \/ ReadToTouch(c, a)
       \/ \E a \in Attempts, e \in Endings : ReadToFinish(c, a, e)
       \/ ReadToRequest(c) \/ ReadToAcknowledge(c) \/ ReadToUpdate(c)
       \/ MarkScanDispatched(c) \/ ClaimScan(c) \/ TouchScanLease(c) \/ FinishScan(c)
       \/ RequestCancellation(c) \/ AcknowledgeCancellation(c) \/ UpdateScan(c)
       \/ Fails(c)
  \/ \E j \in LeaseJobs : ReadToRecover(j)
  \/ RecoverStaleScan \/ LeaseAges

Init ==
  /\ fields = InitialScan /\ payload = InitialScan
  /\ lease = "fresh"
  /\ op = [c \in Clients |-> NoOp]
  /\ rewritten = FALSE

Spec == Init /\ [][Next]_nvars
-------------------------------------------------------------------------------
(* Properties *)

Neo4jTypeOK ==
  /\ fields \in Scan /\ payload \in Scan
  /\ lease \in {"fresh", "aged", "stale"}
  /\ op \in [Clients -> Operation]
  /\ rewritten \in BOOLEAN

\* What readers see (the payload) and what the WHERE clauses see (the
\* properties) agree on everything the protocol decides on: the cancellation,
\* the end of the scan, and, until it is cancelled, its state and its attempt.
\* Every write pairs a fresh guard with a payload computed from an older read.
PayloadAgrees ==
  /\ payload.cancel_requested = fields.cancel_requested
  /\ Terminal(payload) = Terminal(fields)
  /\ Terminal(fields) \/ ~fields.cancel_requested => payload.state = fields.state
  /\ ~fields.cancel_requested => payload.worker_attempt = fields.worker_attempt

\* A scan that is queued again shows the job id of its recovery.
QueuedJobAgrees ==
  fields.state = "queued" /\ ~fields.cancel_requested => payload.job_id = fields.job_id

\* A final scan is never shown with another payload, however late a cancel
\* request, a heartbeat or a recovery that read it before comes to write; only the
\* unconditional write of the create handler replaces it.
FinalPayloadStays ==
  [][Terminal(fields) => payload' = payload \/ \E c \in Rewriters : UpdateScan(c)]_nvars

\* The properties of the node keep the promise of ScanStore: two queries per
\* operation look like one atomic step.
Promise == INSTANCE ScanStore WITH record <- fields, expired <- (lease = "stale")

StoreHolds == Promise!StoreSpec
================================================================================
