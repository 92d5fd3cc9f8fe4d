---------------------------- MODULE Neo4jScanProofs ----------------------------
(***************************************************************************)
(* Neo4jScan, for any number of clients: the payload agrees with the       *)
(* properties, a final payload stays, and the properties are a ScanStore.  *)
(***************************************************************************)
EXTENDS Neo4jScan, TLAPS

(***************************************************************************)
(* What the first query of an operation established about what it read.    *)
(***************************************************************************)
Decided(o) ==
  /\ o \in Operation
  /\ o.kind = "claim" => o.attempt \in Attempts /\ Claimable(o.read, o.attempt)
  /\ o.kind \in {"touch", "finish"} => o.attempt \in Attempts /\ HoldsLease(o.read, o.attempt)
  /\ o.kind = "finish" => o.ending \in Endings
  /\ o.kind = "mark" => /\ o.read.state = "queued" /\ o.read.job_id = o.job
                        /\ ~o.read.cancel_requested
                        /\ o.read.outcome_code = "queue_retryable_failure"
  /\ o.kind = "recover" => o.job \in LeaseJobs /\ Recoverable(o.read)
  /\ o.kind = "request" => ~Terminal(o.read)
  /\ o.kind = "acknowledge" => ~Terminal(o.read) /\ o.read.cancel_requested

\* Until the rewrite is done, nothing carries its outcome code.
Updating == \E c \in Clients : op[c].kind = "update"
NotRewritten == ~rewritten \/ Updating

CodeFree ==
  NotRewritten =>
    /\ fields.outcome_code # "queue_retryable_failure"
    /\ payload.outcome_code # "queue_retryable_failure"
    /\ \A c \in Clients : op[c].read.outcome_code # "queue_retryable_failure"

OneUpdate ==
  \A c \in Clients : op[c].kind = "update" =>
    c \in Rewriters /\ rewritten /\ \A d \in Clients : op[d].kind = "update" => c = d

\* The code, once gone, does not come back, so it pins the attempt a mark read.
MarkPinned ==
  \A c \in Clients :
    op[c].kind = "mark" /\ fields.outcome_code = "queue_retryable_failure"
      => fields.worker_attempt = op[c].read.worker_attempt

NodeInv ==
  /\ Neo4jTypeOK
  /\ \A c \in Clients : Decided(op[c])
  /\ CodeFree /\ OneUpdate /\ MarkPinned
  /\ PayloadAgrees /\ QueuedJobAgrees

\* Nobody is in the middle of an operation, and NoOp is one.
LEMMA NoOpDecided == Decided(NoOp) /\ NoOp.kind = "none" /\ NoOp.read = InitialScan
  BY DEF Decided, NoOp, Operation, Kinds, Scan, InitialScan, ScanState, OutcomeCodes,
         CompletionCodes, TerminalScanStates

\* The initial node satisfies the invariant.
LEMMA NodeInit == Init => NodeInv
  <1> SUFFICES ASSUME Init PROVE NodeInv
    OBVIOUS
  <1>1. InitialScan \in Scan /\ InitialScan.outcome_code = "queued"
    BY DEF InitialScan, Scan, ScanState, OutcomeCodes, CompletionCodes
  <1>2. \A c \in Clients : op[c] = NoOp
    BY DEF Init
  <1>3. Neo4jTypeOK
    BY <1>1, NoOpDecided DEF Neo4jTypeOK, Init, Decided
  <1>4. \A c \in Clients : Decided(op[c])
    BY <1>2, NoOpDecided
  <1>5. CodeFree /\ OneUpdate /\ MarkPinned
    BY <1>1, <1>2, NoOpDecided DEF CodeFree, OneUpdate, MarkPinned, Init
  <1>6. PayloadAgrees /\ QueuedJobAgrees
    BY DEF PayloadAgrees, QueuedJobAgrees, Init, Terminal
  <1>7. QED
    BY <1>3, <1>4, <1>5, <1>6 DEF NodeInv

(***************************************************************************)
(* A first query: client c holds the operation q, decided on the payload   *)
(* of the moment.                                                          *)
(***************************************************************************)
LEMMA ReadKeeps ==
  ASSUME NodeInv, NEW c \in Clients, NEW q \in Operation,
         op[c] = NoOp, op' = [op EXCEPT ![c] = q], UNCHANGED node,
         lease' \in {"fresh", "aged", "stale"},
         Decided(q), q.read = payload,
         \/ q.kind # "update" /\ UNCHANGED rewritten
         \/ q.kind = "update" /\ c \in Rewriters /\ ~rewritten /\ rewritten' = TRUE
  PROVE  NodeInv'
  <1>1. op'[c] = q /\ \A d \in Clients \ {c} : op'[d] = op[d]
    BY DEF NodeInv, Neo4jTypeOK
  <1>2. fields' = fields /\ payload' = payload
    BY DEF node
  <1>3. Neo4jTypeOK'
    BY <1>1, <1>2 DEF NodeInv, Neo4jTypeOK
  <1>4. (\A d \in Clients : Decided(op[d]))'
    BY <1>1 DEF NodeInv, Decided
  <1>5. NotRewritten' => NotRewritten
    BY <1>1, NoOpDecided DEF NotRewritten, Updating
  <1>6. CodeFree'
    BY <1>1, <1>2, <1>5 DEF NodeInv, CodeFree
  <1>7. OneUpdate'
    BY <1>1, NoOpDecided DEF NodeInv, OneUpdate
  <1>8. MarkPinned'
    BY <1>1, <1>2 DEF NodeInv, MarkPinned, PayloadAgrees, Decided
  <1>9. PayloadAgrees' /\ QueuedJobAgrees'
    BY <1>2 DEF NodeInv, PayloadAgrees, QueuedJobAgrees, Terminal
  <1>10. QED
    BY <1>3, <1>4, <1>6, <1>7, <1>8, <1>9 DEF NodeInv

(***************************************************************************)
(* A second query, or a failure: client c is done, and the node holds the  *)
(* properties f and the payload p, which agree.                            *)
(***************************************************************************)
Agree(f, p) ==
  /\ p.cancel_requested = f.cancel_requested
  /\ Terminal(p) = Terminal(f)
  /\ Terminal(f) \/ ~f.cancel_requested => p.state = f.state
  /\ ~f.cancel_requested => p.worker_attempt = f.worker_attempt
  /\ f.state = "queued" /\ ~f.cancel_requested => p.job_id = f.job_id

LEMMA WriteKeeps ==
  ASSUME NodeInv, NEW c \in Clients, NEW f \in Scan, NEW p \in Scan,
         op' = [op EXCEPT ![c] = NoOp], fields' = f, payload' = p,
         lease' \in {"fresh", "aged", "stale"}, UNCHANGED rewritten,
         Agree(f, p),
         \/ op[c].kind = "update"
         \/ /\ NotRewritten => /\ f.outcome_code # "queue_retryable_failure"
                               /\ p.outcome_code # "queue_retryable_failure"
            /\ f.outcome_code = "queue_retryable_failure" => f = fields
  PROVE  NodeInv'
  <1>1. op'[c] = NoOp /\ \A d \in Clients \ {c} : op'[d] = op[d]
    BY DEF NodeInv, Neo4jTypeOK
  <1>2. Neo4jTypeOK'
    BY <1>1, NoOpDecided DEF NodeInv, Neo4jTypeOK, Decided
  <1>3. (\A d \in Clients : Decided(op[d]))'
    BY <1>1, NoOpDecided DEF NodeInv, Decided
  <1>4. NotRewritten' => NotRewritten /\ op[c].kind # "update"
    BY <1>1, NoOpDecided DEF NodeInv, NotRewritten, Updating, OneUpdate
  <1>5. InitialScan.outcome_code # "queue_retryable_failure"
    BY DEF InitialScan
  <1>6. CodeFree'
    BY <1>1, <1>4, <1>5, NoOpDecided DEF NodeInv, CodeFree
  <1>7. OneUpdate'
    BY <1>1, NoOpDecided DEF NodeInv, OneUpdate
  <1>8. MarkPinned'
    <2> SUFFICES ASSUME NEW d \in Clients, op'[d].kind = "mark",
                        fields'.outcome_code = "queue_retryable_failure"
                 PROVE  fields'.worker_attempt = op'[d].read.worker_attempt
      BY DEF MarkPinned
    <2>1. d # c /\ op'[d] = op[d]
      BY <1>1, NoOpDecided
    <2>2. op[d].read.outcome_code = "queue_retryable_failure"
      BY <2>1 DEF NodeInv, Decided
    <2>3. op[c].kind # "update"
      BY <2>2 DEF NodeInv, CodeFree, NotRewritten, Updating
    <2>4. QED
      BY <2>1, <2>3 DEF NodeInv, MarkPinned
  <1>9. PayloadAgrees' /\ QueuedJobAgrees'
    BY DEF Agree, PayloadAgrees, QueuedJobAgrees, Terminal
  <1>10. QED
    BY <1>2, <1>3, <1>6, <1>7, <1>8, <1>9 DEF NodeInv
(***************************************************************************)
(* The first queries.                                                      *)
(***************************************************************************)
LEMMA FirstQueriesKeep ==
  ASSUME NodeInv, NEW c \in Clients,
         \/ \E j \in LeaseJobs \cup {0} : ReadToMark(c, j)
         \/ \E a \in Attempts : ReadToClaim(c, a) \/ ReadToTouch(c, a)
         \/ \E a \in Attempts, e \in Endings : ReadToFinish(c, a, e)
         \/ ReadToRequest(c) \/ ReadToAcknowledge(c) \/ ReadToUpdate(c)
         \/ c = Sweeper /\ \E j \in LeaseJobs : ReadToRecover(j)
  PROVE  NodeInv'
  <1>1. payload \in Scan /\ lease \in {"fresh", "aged", "stale"}
    BY DEF NodeInv, Neo4jTypeOK
  <1>2. CASE \E j \in LeaseJobs \cup {0} : ReadToMark(c, j)
    <2> PICK j \in LeaseJobs \cup {0} : ReadToMark(c, j)
      BY <1>2
    <2> DEFINE o == Started("mark", 0, j, <<>>)
    <2>1. o \in Operation /\ o.kind = "mark" /\ o.read = payload
      BY <1>1 DEF Started, Operation, Kinds
    <2>2. /\ op[c] = NoOp /\ op' = [op EXCEPT ![c] = o]
          /\ UNCHANGED <<node, lease, rewritten>>
      BY DEF ReadToMark, Reads
    <2>3. Decided(o)
      BY <1>1, <2>1 DEF Decided, Started, ReadToMark, Dispatched
    <2> HIDE DEF o
    <2>4. QED
      BY <1>1, <2>1, <2>2, <2>3, ReadKeeps
  <1>3. CASE \E a \in Attempts : ReadToClaim(c, a)
    <2> PICK a \in Attempts : ReadToClaim(c, a)
      BY <1>3
    <2> DEFINE o == Started("claim", a, 0, <<>>)
    <2>1. o \in Operation /\ o.kind = "claim" /\ o.read = payload
      BY <1>1 DEF Started, Operation, Kinds
    <2>2. /\ op[c] = NoOp /\ op' = [op EXCEPT ![c] = o]
          /\ UNCHANGED <<node, lease, rewritten>>
      BY DEF ReadToClaim, Reads
    <2>3. Decided(o)
      BY <1>1, <2>1 DEF Decided, Started, ReadToClaim
    <2> HIDE DEF o
    <2>4. QED
      BY <1>1, <2>1, <2>2, <2>3, ReadKeeps
  <1>4. CASE \E a \in Attempts : ReadToTouch(c, a)
    <2> PICK a \in Attempts : ReadToTouch(c, a)
      BY <1>4
    <2> DEFINE o == Started("touch", a, 0, <<>>)
    <2>1. o \in Operation /\ o.kind = "touch" /\ o.read = payload
      BY <1>1 DEF Started, Operation, Kinds
    <2>2. /\ op[c] = NoOp /\ op' = [op EXCEPT ![c] = o]
          /\ UNCHANGED <<node, lease, rewritten>>
      BY DEF ReadToTouch, Reads
    <2>3. Decided(o)
      BY <1>1, <2>1 DEF Decided, Started, ReadToTouch
    <2> HIDE DEF o
    <2>4. QED
      BY <1>1, <2>1, <2>2, <2>3, ReadKeeps
  <1>5. CASE \E a \in Attempts, e \in Endings : ReadToFinish(c, a, e)
    <2> PICK a \in Attempts, e \in Endings : ReadToFinish(c, a, e)
      BY <1>5
    <2> DEFINE o == Started("finish", a, 0, e)
    <2>1. o \in Operation /\ o.kind = "finish" /\ o.read = payload
      BY <1>1 DEF Started, Operation, Kinds
    <2>2. /\ op[c] = NoOp /\ op' = [op EXCEPT ![c] = o]
          /\ UNCHANGED <<node, lease, rewritten>>
      BY DEF ReadToFinish, Reads
    <2>3. Decided(o)
      BY <1>1, <2>1 DEF Decided, Started, ReadToFinish
    <2> HIDE DEF o
    <2>4. QED
      BY <1>1, <2>1, <2>2, <2>3, ReadKeeps
  <1>6. CASE ReadToRequest(c)
    <2> DEFINE o == Started("request", 0, 0, <<>>)
    <2>1. o \in Operation /\ o.kind = "request" /\ o.read = payload
      BY <1>1 DEF Started, Operation, Kinds
    <2>2. /\ op[c] = NoOp /\ op' = [op EXCEPT ![c] = o]
          /\ UNCHANGED <<node, lease, rewritten>>
      BY <1>6 DEF ReadToRequest, Reads
    <2>3. Decided(o)
      BY <1>6, <1>1, <2>1 DEF Decided, Started, ReadToRequest
    <2> HIDE DEF o
    <2>4. QED
      BY <1>1, <2>1, <2>2, <2>3, ReadKeeps
  <1>7. CASE ReadToAcknowledge(c)
    <2> DEFINE o == Started("acknowledge", 0, 0, <<>>)
    <2>1. o \in Operation /\ o.kind = "acknowledge" /\ o.read = payload
      BY <1>1 DEF Started, Operation, Kinds
    <2>2. /\ op[c] = NoOp /\ op' = [op EXCEPT ![c] = o]
          /\ UNCHANGED <<node, lease, rewritten>>
      BY <1>7 DEF ReadToAcknowledge, Reads
    <2>3. Decided(o)
      BY <1>7, <1>1, <2>1 DEF Decided, Started, ReadToAcknowledge
    <2> HIDE DEF o
    <2>4. QED
      BY <1>1, <2>1, <2>2, <2>3, ReadKeeps
  <1>8. CASE ReadToUpdate(c)
    <2> DEFINE o == Started("update", 0, 0, <<>>)
    <2>1. o \in Operation /\ o.kind = "update" /\ o.read = payload
      BY <1>1 DEF Started, Operation, Kinds
    <2>2. /\ op[c] = NoOp /\ op' = [op EXCEPT ![c] = o]
          /\ UNCHANGED <<node, lease>>
          /\ c \in Rewriters /\ ~rewritten /\ rewritten' = TRUE
      BY <1>8 DEF ReadToUpdate, Reads
    <2>3. Decided(o)
      BY <1>8, <1>1, <2>1 DEF Decided, Started, ReadToUpdate
    <2> HIDE DEF o
    <2>4. QED
      BY <1>1, <2>1, <2>2, <2>3, ReadKeeps
  <1>9. CASE c = Sweeper /\ \E j \in LeaseJobs : ReadToRecover(j)
    <2> PICK j \in LeaseJobs : ReadToRecover(j)
      BY <1>9
    <2> DEFINE o == Started("recover", 0, j, <<>>)
    <2>1. o \in Operation /\ o.kind = "recover" /\ o.read = payload
      BY <1>1 DEF Started, Operation, Kinds
    <2>2. /\ op[c] = NoOp /\ op' = [op EXCEPT ![c] = o]
          /\ UNCHANGED <<node, rewritten>>
          /\ lease' = "stale"
      BY <1>9 DEF ReadToRecover, Reads
    <2>3. Decided(o)
      BY <1>9, <1>1, <2>1 DEF Decided, Started, ReadToRecover
    <2> HIDE DEF o
    <2>4. QED
      BY <1>1, <2>1, <2>2, <2>3, ReadKeeps
  <1>10. QED
    BY <1>2, <1>3, <1>4, <1>5, <1>6, <1>7, <1>8, <1>9
(***************************************************************************)
(* The second queries.  One whose WHERE clause does not match, or that     *)
(* raises, leaves the node as it is.                                       *)
(***************************************************************************)
LEMMA MissKeeps ==
  ASSUME NodeInv, NEW c \in Clients,
         op' = [op EXCEPT ![c] = NoOp], UNCHANGED <<fields, payload, lease, rewritten>>
  PROVE  NodeInv'
  <1>1. fields \in Scan /\ payload \in Scan /\ lease \in {"fresh", "aged", "stale"}
    BY DEF NodeInv, Neo4jTypeOK
  <1>2. Agree(fields, payload)
    BY DEF NodeInv, Agree, PayloadAgrees, QueuedJobAgrees
  <1>3. NotRewritten => /\ fields.outcome_code # "queue_retryable_failure"
                        /\ payload.outcome_code # "queue_retryable_failure"
    BY DEF NodeInv, CodeFree
  <1>4. QED
    BY <1>1, <1>2, <1>3, WriteKeeps

\* The WHERE clause matches: what is left to show of the new node.
LEMMA HitKeeps ==
  ASSUME NodeInv, NEW c \in Clients, NEW kind, NEW f \in Scan, NEW p \in Scan,
         Writes(c, kind, TRUE, f, p), Agree(f, p),
         \/ op[c].kind = "update"
         \/ /\ f.outcome_code = "queue_retryable_failure" => f = fields
            /\ p.outcome_code = "queue_retryable_failure" => p = op[c].read
  PROVE  NodeInv'
  <1>1. /\ op' = [op EXCEPT ![c] = NoOp] /\ fields' = f /\ payload' = p
        /\ lease' = "fresh" /\ UNCHANGED rewritten
    BY DEF Writes
  <1>2. NotRewritten => /\ fields.outcome_code # "queue_retryable_failure"
                        /\ op[c].read.outcome_code # "queue_retryable_failure"
    BY DEF NodeInv, CodeFree
  <1>3. QED
    BY <1>1, <1>2, WriteKeeps

\* What a second query knows of its operation, and the node's type.
LEMMA Pending ==
  ASSUME NodeInv, NEW c \in Clients
  PROVE  /\ Decided(op[c]) /\ op[c].read \in Scan
         /\ fields \in Scan /\ payload \in Scan
         /\ op[c].attempt \in Nat /\ op[c].job \in Nat
         /\ op[c].ending \in Endings =>
              /\ op[c].ending[1] \in TerminalScanStates \cup {"running"}
              /\ op[c].ending[2] \in OutcomeCodes \ {"queue_retryable_failure"}
  <1>1. Decided(op[c]) /\ fields \in Scan /\ payload \in Scan
    BY DEF NodeInv, Neo4jTypeOK
  <1>2. op[c].read \in Scan /\ op[c].attempt \in Attempts \cup {0}
        /\ op[c].job \in LeaseJobs \cup {0}
    BY <1>1 DEF Decided, Operation
  <1>3. op[c].attempt \in Nat /\ op[c].job \in Nat
    <2>1. \A n \in Attempts \cup LeaseJobs : n \in Nat
      BY ClientsAssumption
    <2>2. 0 \in Nat
      OBVIOUS
    <2>3. QED
      BY <1>2, <2>1, <2>2, Zenon
  <1>4. op[c].ending \in Endings =>
          /\ op[c].ending[1] \in TerminalScanStates \cup {"running"}
          /\ op[c].ending[2] \in OutcomeCodes \ {"queue_retryable_failure"}
    BY ClientsAssumption
  <1>5. QED
    BY <1>1, <1>2, <1>3, <1>4

\* mark_scan_dispatched: the code it saw pins the attempt.
LEMMA MarkKeeps ==
  ASSUME NodeInv, NEW c \in Clients, MarkScanDispatched(c)
  PROVE  NodeInv'
  <1> DEFINE o == op[c]
             f == [fields EXCEPT !.outcome_code = "queued"]
             p == Dispatched(o.read, o.job)
             where == /\ fields.state = "queued" /\ fields.job_id = o.job
                      /\ fields.outcome_code = "queue_retryable_failure"
                      /\ ~fields.cancel_requested
  <1>1. CASE ~where
    BY <1>1, MissKeeps DEF MarkScanDispatched, Writes
  <1>2. CASE where
    <2>1. o.kind = "mark" /\ Writes(c, "mark", TRUE, f, p)
      BY <1>2 DEF MarkScanDispatched, Writes
    <2>2. p = [o.read EXCEPT !.outcome_code = "queued"]
      BY <2>1, Pending DEF Decided, Dispatched
    <2>3. f \in Scan /\ p \in Scan
      BY <2>2, Pending DEF Scan, OutcomeCodes
    <2>4. o.read.worker_attempt = fields.worker_attempt
      BY <1>2, <2>1 DEF NodeInv, MarkPinned
    <2>5. Agree(f, p)
      BY <1>2, <2>1, <2>2, <2>4, Pending DEF Agree, Decided, Terminal, Scan
    <2>6. f.outcome_code = "queued" /\ p.outcome_code = "queued"
      BY <2>2, Pending DEF Scan
    <2> HIDE DEF f, p
    <2>7. QED
      BY <2>1, <2>3, <2>5, <2>6, HitKeeps
  <1>3. QED
    BY <1>1, <1>2

\* claim_scan_for_execution.
LEMMA ClaimKeeps ==
  ASSUME NodeInv, NEW c \in Clients, ClaimScan(c)
  PROVE  NodeInv'
  <1> DEFINE o == op[c]
             f == [fields EXCEPT !.state = "running", !.outcome_code = "running",
                                 !.worker_attempt = o.attempt]
             p == Claimed(o.read, o.attempt)
             where == /\ ~fields.cancel_requested
                      /\ \/ fields.state = "queued"
                         \/ fields.state = "running" /\ fields.worker_attempt < o.attempt
  <1>1. CASE ~where
    BY <1>1, MissKeeps DEF ClaimScan, Writes
  <1>2. CASE where
    <2>1. o.kind = "claim" /\ Writes(c, "claim", TRUE, f, p)
      BY <1>2 DEF ClaimScan, Writes
    <2>2. f \in Scan /\ p \in Scan
      BY Pending DEF Scan, OutcomeCodes, ScanState, Claimed
    <2>3. /\ f.state = "running" /\ p.state = "running"
          /\ f.worker_attempt = o.attempt /\ p.worker_attempt = o.attempt
          /\ f.cancel_requested = fields.cancel_requested
          /\ p.cancel_requested = o.read.cancel_requested
          /\ f.outcome_code = "running" /\ p.outcome_code = "running"
      BY Pending DEF Scan, Claimed
    <2>4. Agree(f, p)
      BY <1>2, <2>1, <2>3, Pending DEF Agree, Decided, Claimable, Terminal, TerminalScanStates,
         Scan
    <2> HIDE DEF f, p
    <2>5. QED
      BY <2>1, <2>2, <2>3, <2>4, HitKeeps
  <1>3. QED
    BY <1>1, <1>2

\* touch_scan_lease writes the payload it read: only updated_at moves.
LEMMA TouchKeeps ==
  ASSUME NodeInv, NEW c \in Clients, TouchScanLease(c)
  PROVE  NodeInv'
  <1> DEFINE o == op[c]
             where == /\ fields.state = "running" /\ fields.worker_attempt = o.attempt
                      /\ ~fields.cancel_requested
  <1>1. CASE ~where
    BY <1>1, MissKeeps DEF TouchScanLease, Writes
  <1>2. CASE where
    <2>1. o.kind = "touch" /\ Writes(c, "touch", TRUE, fields, o.read)
      BY <1>2 DEF TouchScanLease, Writes
    <2>2. Agree(fields, o.read)
      BY <1>2, <2>1, Pending DEF Agree, Decided, HoldsLease, Terminal, Scan
    <2>3. QED
      BY <2>1, <2>2, Pending, HitKeeps
  <1>3. QED
    BY <1>1, <1>2

\* recover_stale_scan.
LEMMA RecoverKeeps ==
  ASSUME NodeInv, RecoverStaleScan
  PROVE  NodeInv'
  <1> DEFINE o == op[Sweeper]
             f == [fields EXCEPT !.state = "queued", !.outcome_code = "worker_lease_expired",
                                 !.job_id = o.job]
             p == Recovered(o.read, o.job)
             where == /\ fields.state = "running"
                      /\ fields.worker_attempt = o.read.worker_attempt
                      /\ ~fields.cancel_requested
                      /\ lease = "stale"
  <1>0. Sweeper \in Clients
    BY ClientsAssumption
  <1>1. CASE ~where
    BY <1>0, <1>1, MissKeeps DEF RecoverStaleScan, Writes
  <1>2. CASE where
    <2>1. o.kind = "recover" /\ Writes(Sweeper, "recover", TRUE, f, p)
      BY <1>2 DEF RecoverStaleScan, Writes
    <2>2. f \in Scan /\ p \in Scan
      BY <1>0, Pending DEF Scan, OutcomeCodes, ScanState, Recovered
    <2>3. /\ f.state = "queued" /\ p.state = "queued"
          /\ f.job_id = o.job /\ p.job_id = o.job
          /\ f.worker_attempt = fields.worker_attempt
          /\ p.worker_attempt = o.read.worker_attempt
          /\ f.cancel_requested = fields.cancel_requested
          /\ p.cancel_requested = o.read.cancel_requested
          /\ f.outcome_code = "worker_lease_expired"
          /\ p.outcome_code = "worker_lease_expired"
      BY <1>0, Pending DEF Scan, Recovered
    <2>4. Agree(f, p)
      BY <1>0, <1>2, <2>1, <2>3, Pending DEF Agree, Decided, Recoverable, Terminal, Scan
    <2> HIDE DEF f, p
    <2>5. QED
      BY <1>0, <2>1, <2>2, <2>3, <2>4, HitKeeps
  <1>3. QED
    BY <1>1, <1>2

\* finish_scan.
LEMMA FinishKeeps ==
  ASSUME NodeInv, NEW c \in Clients, FinishScan(c)
  PROVE  NodeInv'
  <1> DEFINE o == op[c]
             f == [fields EXCEPT !.state = o.ending[1], !.outcome_code = o.ending[2]]
             p == [o.read EXCEPT !.state = o.ending[1], !.outcome_code = o.ending[2]]
             where == /\ fields.state = "running" /\ fields.worker_attempt = o.attempt
                      /\ ~fields.cancel_requested
  <1>1. CASE ~where
    BY <1>1, MissKeeps DEF FinishScan, Writes
  <1>2. CASE where
    <2>1. o.kind = "finish" /\ Writes(c, "finish", TRUE, f, p)
      BY <1>2 DEF FinishScan, Writes
    <2>2. /\ o.ending[1] \in TerminalScanStates \cup {"running"}
          /\ o.ending[2] \in OutcomeCodes \ {"queue_retryable_failure"}
      BY <2>1, Pending DEF Decided
    <2>3. f \in Scan /\ p \in Scan
      BY <2>2, Pending DEF Scan, ScanState
    <2>4. /\ f.state = o.ending[1] /\ p.state = o.ending[1]
          /\ f.worker_attempt = fields.worker_attempt
          /\ p.worker_attempt = o.read.worker_attempt
          /\ f.cancel_requested = fields.cancel_requested
          /\ p.cancel_requested = o.read.cancel_requested
          /\ f.outcome_code = o.ending[2] /\ p.outcome_code = o.ending[2]
      BY Pending DEF Scan
    <2>5. Agree(f, p)
      BY <1>2, <2>1, <2>2, <2>4, Pending DEF Agree, Decided, HoldsLease, Terminal, Scan,
         TerminalScanStates
    <2> HIDE DEF f, p
    <2>6. QED
      BY <2>1, <2>2, <2>3, <2>4, <2>5, HitKeeps
  <1>3. QED
    BY <1>1, <1>2

\* request_cancellation.
LEMMA RequestKeeps ==
  ASSUME NodeInv, NEW c \in Clients, RequestCancellation(c)
  PROVE  NodeInv'
  <1> DEFINE o == op[c]
             f == [fields EXCEPT !.cancel_requested = TRUE,
                                 !.outcome_code = "cancellation_requested"]
             p == CancellationRequested(o.read)
  <1>1. CASE Terminal(fields)
    BY <1>1, MissKeeps DEF RequestCancellation, Writes
  <1>2. CASE ~Terminal(fields)
    <2>1. o.kind = "request" /\ Writes(c, "request", TRUE, f, p)
      BY <1>2 DEF RequestCancellation, Writes
    <2>2. p = [o.read EXCEPT !.cancel_requested = TRUE,
                             !.outcome_code = "cancellation_requested"]
      BY <2>1, Pending DEF Decided, CancellationRequested
    <2>3. f \in Scan /\ p \in Scan
      BY <2>2, Pending DEF Scan, OutcomeCodes
    <2>4. /\ f.state = fields.state /\ p.state = o.read.state
          /\ f.cancel_requested /\ p.cancel_requested
          /\ f.outcome_code = "cancellation_requested"
          /\ p.outcome_code = "cancellation_requested"
      BY <2>2, Pending DEF Scan
    <2>5. Agree(f, p)
      BY <1>2, <2>1, <2>3, <2>4, Pending DEF Agree, Decided, Terminal, Scan
    <2> HIDE DEF f, p
    <2>6. QED
      BY <2>1, <2>3, <2>4, <2>5, HitKeeps
  <1>3. QED
    BY <1>1, <1>2

\* acknowledge_cancellation.
LEMMA AcknowledgeKeeps ==
  ASSUME NodeInv, NEW c \in Clients, AcknowledgeCancellation(c)
  PROVE  NodeInv'
  <1> DEFINE o == op[c]
             f == [fields EXCEPT !.state = "cancelled", !.outcome_code = "cancelled"]
             p == CancellationAcknowledged(o.read)
             where == fields.cancel_requested /\ ~Terminal(fields)
  <1>1. CASE ~where
    BY <1>1, MissKeeps DEF AcknowledgeCancellation, Writes
  <1>2. CASE where
    <2>1. o.kind = "acknowledge" /\ Writes(c, "acknowledge", TRUE, f, p)
      BY <1>2 DEF AcknowledgeCancellation, Writes
    <2>2. p = [o.read EXCEPT !.state = "cancelled", !.outcome_code = "cancelled"]
      BY <2>1, Pending DEF Decided, CancellationAcknowledged
    <2>3. f \in Scan /\ p \in Scan
      BY <2>2, Pending DEF Scan, OutcomeCodes, ScanState, TerminalScanStates
    <2>4. /\ f.state = "cancelled" /\ p.state = "cancelled"
          /\ f.cancel_requested = fields.cancel_requested
          /\ p.cancel_requested = o.read.cancel_requested
          /\ f.outcome_code = "cancelled" /\ p.outcome_code = "cancelled"
      BY <2>2, Pending DEF Scan
    <2>5. Agree(f, p)
      BY <1>2, <2>1, <2>3, <2>4, Pending DEF Agree, Decided, Terminal, Scan
    <2> HIDE DEF f, p
    <2>6. QED
      BY <2>1, <2>3, <2>4, <2>5, HitKeeps
  <1>3. QED
    BY <1>1, <1>2

\* update_scan writes the properties and the payload from one record.
LEMMA UpdateKeeps ==
  ASSUME NodeInv, NEW c \in Clients, UpdateScan(c)
  PROVE  NodeInv'
  <1> DEFINE r == [op[c].read EXCEPT !.outcome_code = "queue_retryable_failure"]
  <1>1. op[c].kind = "update" /\ Writes(c, "update", TRUE, r, r)
    BY DEF UpdateScan, Writes
  <1>2. r \in Scan
    BY Pending DEF Scan, OutcomeCodes
  <1>3. Agree(r, r)
    BY DEF Agree
  <1> HIDE DEF r
  <1>4. QED
    BY <1>1, <1>2, <1>3, HitKeeps
(***************************************************************************)
(* The invariant.                                                          *)
(***************************************************************************)
LEMMA FailsKeeps ==
  ASSUME NodeInv, NEW c \in Clients, Fails(c)
  PROVE  NodeInv'
  BY MissKeeps DEF Fails

LEMMA AgesKeeps ==
  ASSUME NodeInv, LeaseAges
  PROVE  NodeInv'
  <1>1. UNCHANGED <<fields, payload, op, rewritten>> /\ lease' = "aged"
    BY DEF LeaseAges
  <1>2. QED
    BY <1>1 DEF NodeInv, Neo4jTypeOK, CodeFree, NotRewritten, Updating, OneUpdate, MarkPinned,
       PayloadAgrees, QueuedJobAgrees, Decided, Terminal

\* A second query of client c.
SecondQuery(c) ==
  \/ MarkScanDispatched(c) \/ ClaimScan(c) \/ TouchScanLease(c) \/ FinishScan(c)
  \/ RequestCancellation(c) \/ AcknowledgeCancellation(c) \/ UpdateScan(c)

LEMMA NodeStep == NodeInv /\ [Next]_nvars => NodeInv'
  <1> SUFFICES ASSUME NodeInv, [Next]_nvars PROVE NodeInv'
    OBVIOUS
  <1>1. Sweeper \in Clients
    BY ClientsAssumption
  <1>2. ASSUME NEW c \in Clients,
               \/ \E j \in LeaseJobs \cup {0} : ReadToMark(c, j)
               \/ \E a \in Attempts : ReadToClaim(c, a) \/ ReadToTouch(c, a)
               \/ \E a \in Attempts, e \in Endings : ReadToFinish(c, a, e)
               \/ ReadToRequest(c) \/ ReadToAcknowledge(c) \/ ReadToUpdate(c)
        PROVE  NodeInv'
    BY <1>2, FirstQueriesKeep
  <1>3. CASE \E j \in LeaseJobs : ReadToRecover(j)
    BY <1>1, <1>3, FirstQueriesKeep
  <1>4. ASSUME NEW c \in Clients, SecondQuery(c)
        PROVE  NodeInv'
    BY <1>4, MarkKeeps, ClaimKeeps, TouchKeeps, FinishKeeps, RequestKeeps, AcknowledgeKeeps,
       UpdateKeeps DEF SecondQuery
  <1>5. CASE RecoverStaleScan
    BY <1>5, RecoverKeeps
  <1>6. ASSUME NEW c \in Clients, Fails(c)
        PROVE  NodeInv'
    BY <1>6, FailsKeeps
  <1>7. CASE LeaseAges
    BY <1>7, AgesKeeps
  <1>8. CASE UNCHANGED nvars
    BY <1>8 DEF nvars, NodeInv, Neo4jTypeOK, CodeFree, NotRewritten, Updating, OneUpdate,
       MarkPinned, PayloadAgrees, QueuedJobAgrees, Decided, Terminal
  <1>9. QED
    BY <1>2, <1>3, <1>4, <1>5, <1>6, <1>7, <1>8 DEF Next, SecondQuery

LEMMA NodeInvariant == Spec => []NodeInv
  <1>1. QED
    BY NodeInit, NodeStep, PTL DEF Spec

(***************************************************************************)
(* What a reader is shown (the payload) agrees with what the WHERE clauses *)
(* decide on (the properties), for any number of clients in the middle of  *)
(* any operations of app/storage/neo4j.py.                                 *)
(***************************************************************************)
THEOREM ReadersAgree == Spec => []PayloadAgrees
  <1>1. NodeInv => PayloadAgrees
    BY DEF NodeInv
  <1>2. QED
    BY <1>1, NodeInvariant, PTL

\* A queued scan's payload names the job the dispatch loop will look for.
THEOREM JobsAgree == Spec => []QueuedJobAgrees
  <1>1. NodeInv => QueuedJobAgrees
    BY DEF NodeInv
  <1>2. QED
    BY <1>1, NodeInvariant, PTL

\* The types of the node and of the operations on it.
THEOREM Neo4jTypes == Spec => []Neo4jTypeOK
  <1>1. NodeInv => Neo4jTypeOK
    BY DEF NodeInv
  <1>2. QED
    BY <1>1, NodeInvariant, PTL

(***************************************************************************)
(* A final scan keeps the payload it ended with, unless the create handler *)
(* rewrites it: no late write of app/storage/neo4j.py replaces it.         *)
(***************************************************************************)
THEOREM FinalPayloadKept == Spec => FinalPayloadStays
  <1> DEFINE Kept == payload' = payload \/ \E c \in Rewriters : UpdateScan(c)
  <1>1. ASSUME NodeInv, [Next]_nvars, Terminal(fields)
        PROVE  Kept
    <2>1. fields.state # "queued" /\ fields.state # "running"
      BY <1>1 DEF Terminal, TerminalScanStates
    <2>2. ASSUME NEW c \in Clients, UpdateScan(c)
          PROVE  Kept
      <3>1. op[c].kind = "update"
        BY <2>2 DEF UpdateScan, Writes
      <3>2. c \in Rewriters
        BY <1>1, <3>1 DEF NodeInv, OneUpdate
      <3>3. QED
        BY <2>2, <3>2
    <2>3. ASSUME NEW c \in Clients, SecondQuery(c)
          PROVE  Kept
      BY <1>1, <2>1, <2>2, <2>3 DEF SecondQuery, MarkScanDispatched, ClaimScan, TouchScanLease,
         FinishScan, RequestCancellation, AcknowledgeCancellation, Writes
    <2>4. ASSUME RecoverStaleScan
          PROVE  payload' = payload
      BY <2>1, <2>4 DEF RecoverStaleScan, Writes
    <2>5. ASSUME NEW c \in Clients, NEW o, Reads(c, o)
          PROVE  payload' = payload
      BY <2>5 DEF Reads, node
    <2>6. ASSUME NEW c \in Clients,
                 \/ \E j \in LeaseJobs \cup {0} : ReadToMark(c, j)
                 \/ \E a \in Attempts : ReadToClaim(c, a) \/ ReadToTouch(c, a)
                 \/ \E a \in Attempts, e \in Endings : ReadToFinish(c, a, e)
                 \/ ReadToRequest(c) \/ ReadToAcknowledge(c) \/ ReadToUpdate(c)
                 \/ Fails(c)
          PROVE  payload' = payload
      BY <2>5, <2>6 DEF ReadToMark, ReadToClaim, ReadToTouch, ReadToFinish, ReadToRequest,
         ReadToAcknowledge, ReadToUpdate, Fails
    <2>7. ASSUME \E j \in LeaseJobs : ReadToRecover(j)
          PROVE  payload' = payload
      BY <2>5, <2>7, ClientsAssumption DEF ReadToRecover
    <2>8. ASSUME LeaseAges \/ UNCHANGED nvars
          PROVE  payload' = payload
      BY <2>8 DEF LeaseAges, nvars
    <2>9. QED
      BY <1>1, <2>3, <2>4, <2>6, <2>7, <2>8 DEF Next, SecondQuery
  <1>2. NodeInv /\ [Next]_nvars => [Terminal(fields) => Kept]_nvars
    BY <1>1
  <1>3. QED
    BY <1>2, NodeInvariant, PTL DEF Spec, FinalPayloadStays

(***************************************************************************)
(* The promise of ScanStore: a second query that matches is the operation, *)
(* done in one step on the properties; everything else is a stutter or the *)
(* expiry of the lease.                                                    *)
(***************************************************************************)
\* A query whose WHERE clause does not match changes nothing of the promise.
LEMMA MissStutters ==
  ASSUME UNCHANGED <<fields, lease>>
  PROVE  UNCHANGED Promise!svars
  BY DEF Promise!svars

LEMMA MarkPromised ==
  ASSUME NodeInv, NEW c \in Clients, MarkScanDispatched(c)
  PROVE  Promise!MarkScanDispatched \/ UNCHANGED Promise!svars
  <1> DEFINE o == op[c]
             where == /\ fields.state = "queued" /\ fields.job_id = o.job
                      /\ fields.outcome_code = "queue_retryable_failure"
                      /\ ~fields.cancel_requested
  <1>1. CASE ~where
    BY <1>1, MissStutters DEF MarkScanDispatched, Writes
  <1>2. CASE where
    <2>1. fields' = [fields EXCEPT !.outcome_code = "queued"] /\ lease' = "fresh"
      BY <1>2 DEF MarkScanDispatched, Writes
    <2>2. fields' = Promise!Dispatched(fields, o.job)
      BY <1>2, <2>1 DEF Promise!Dispatched
    <2>3. o.job \in LeaseJobs \cup {0}
      BY Pending DEF Decided, Operation
    <2>4. QED
      BY <2>1, <2>2, <2>3 DEF Promise!MarkScanDispatched, Promise!Write
  <1>3. QED
    BY <1>1, <1>2

LEMMA ClaimPromised ==
  ASSUME NodeInv, NEW c \in Clients, ClaimScan(c)
  PROVE  Promise!ClaimScan \/ UNCHANGED Promise!svars
  <1> DEFINE o == op[c]
             where == /\ ~fields.cancel_requested
                      /\ \/ fields.state = "queued"
                         \/ fields.state = "running" /\ fields.worker_attempt < o.attempt
  <1>1. CASE ~where
    BY <1>1, MissStutters DEF ClaimScan, Writes
  <1>2. CASE where
    <2>1. /\ fields' = Promise!Claimed(fields, o.attempt) /\ lease' = "fresh"
          /\ o.kind = "claim"
      BY <1>2 DEF ClaimScan, Writes, Promise!Claimed
    <2>2. o.attempt \in Attempts
      BY <2>1, Pending DEF Decided
    <2>3. Promise!Claimable(fields, o.attempt)
      <3>1. fields.worker_attempt \in Nat /\ o.attempt \in Nat
        BY Pending DEF Scan
      <3>2. QED
        BY <1>2, <3>1 DEF Promise!Claimable
    <2>4. QED
      BY <2>1, <2>2, <2>3 DEF Promise!ClaimScan, Promise!Write
  <1>3. QED
    BY <1>1, <1>2

LEMMA TouchPromised ==
  ASSUME NodeInv, NEW c \in Clients, TouchScanLease(c)
  PROVE  Promise!TouchScanLease \/ UNCHANGED Promise!svars
  <1> DEFINE o == op[c]
             where == /\ fields.state = "running" /\ fields.worker_attempt = o.attempt
                      /\ ~fields.cancel_requested
  <1>1. CASE ~where
    BY <1>1, MissStutters DEF TouchScanLease, Writes
  <1>2. CASE where
    <2>1. fields' = fields /\ lease' = "fresh" /\ o.kind = "touch"
      BY <1>2 DEF TouchScanLease, Writes
    <2>2. o.attempt \in Attempts
      BY <2>1, Pending DEF Decided
    <2>3. Promise!HoldsLease(fields, o.attempt)
      BY <1>2 DEF Promise!HoldsLease
    <2>4. QED
      BY <2>1, <2>2, <2>3 DEF Promise!TouchScanLease, Promise!Write
  <1>3. QED
    BY <1>1, <1>2

LEMMA RecoverPromised ==
  ASSUME NodeInv, RecoverStaleScan
  PROVE  Promise!RecoverStaleScan \/ UNCHANGED Promise!svars
  <1> DEFINE o == op[Sweeper]
             where == /\ fields.state = "running"
                      /\ fields.worker_attempt = o.read.worker_attempt
                      /\ ~fields.cancel_requested
                      /\ lease = "stale"
  <1>1. CASE ~where
    BY <1>1, MissStutters DEF RecoverStaleScan, Writes
  <1>2. CASE where
    <2>1. /\ fields' = Promise!Recovered(fields, o.job) /\ lease' = "fresh"
          /\ o.kind = "recover"
      BY <1>2 DEF RecoverStaleScan, Writes, Promise!Recovered
    <2>2. o.job \in LeaseJobs
      BY <2>1, ClientsAssumption, Pending DEF Decided
    <2>3. Promise!Recoverable(fields)
      BY <1>2 DEF Promise!Recoverable
    <2>4. QED
      BY <1>2, <2>1, <2>2, <2>3 DEF Promise!RecoverStaleScan, Promise!Write
  <1>3. QED
    BY <1>1, <1>2

LEMMA FinishPromised ==
  ASSUME NodeInv, NEW c \in Clients, FinishScan(c)
  PROVE  Promise!FinishScan \/ UNCHANGED Promise!svars
  <1> DEFINE o == op[c]
             where == /\ fields.state = "running" /\ fields.worker_attempt = o.attempt
                      /\ ~fields.cancel_requested
  <1>1. CASE ~where
    BY <1>1, MissStutters DEF FinishScan, Writes
  <1>2. CASE where
    <2>1. /\ fields' = [fields EXCEPT !.state = o.ending[1], !.outcome_code = o.ending[2]]
          /\ lease' = "fresh" /\ o.kind = "finish"
      BY <1>2 DEF FinishScan, Writes
    <2>2. o.attempt \in Attempts /\ o.ending \in Endings
      BY <2>1, Pending DEF Decided
    <2>3. Promise!HoldsLease(fields, o.attempt)
      BY <1>2 DEF Promise!HoldsLease
    <2>4. fields' = Promise!Finished(fields, o.attempt, o.ending[1], o.ending[2])
      BY <2>1, <2>3 DEF Promise!Finished
    <2>5. QED
      BY <2>1, <2>2, <2>3, <2>4 DEF Promise!FinishScan, Promise!Write
  <1>3. QED
    BY <1>1, <1>2

LEMMA RequestPromised ==
  ASSUME NEW c \in Clients, RequestCancellation(c)
  PROVE  Promise!RequestCancellation \/ UNCHANGED Promise!svars
  <1>1. CASE Terminal(fields)
    BY <1>1, MissStutters DEF RequestCancellation, Writes
  <1>2. CASE ~Terminal(fields)
    <2>1. ~Promise!Terminal(fields)
      BY <1>2 DEF Terminal, TerminalScanStates, Promise!Terminal, Promise!TerminalScanStates
    <2>2. fields' = Promise!CancellationRequested(fields) /\ lease' = "fresh"
      BY <1>2, <2>1 DEF RequestCancellation, Writes, Promise!CancellationRequested
    <2>3. QED
      BY <2>1, <2>2 DEF Promise!RequestCancellation, Promise!Write
  <1>3. QED
    BY <1>1, <1>2

LEMMA AcknowledgePromised ==
  ASSUME NEW c \in Clients, AcknowledgeCancellation(c)
  PROVE  Promise!AcknowledgeCancellation \/ UNCHANGED Promise!svars
  <1> DEFINE where == fields.cancel_requested /\ ~Terminal(fields)
  <1>1. CASE ~where
    BY <1>1, MissStutters DEF AcknowledgeCancellation, Writes
  <1>2. CASE where
    <2>1. ~Promise!Terminal(fields)
      BY <1>2 DEF Terminal, TerminalScanStates, Promise!Terminal, Promise!TerminalScanStates
    <2>2. fields' = Promise!CancellationAcknowledged(fields) /\ lease' = "fresh"
      BY <1>2, <2>1 DEF AcknowledgeCancellation, Writes, Promise!CancellationAcknowledged
    <2>3. QED
      BY <1>2, <2>1, <2>2 DEF Promise!AcknowledgeCancellation, Promise!Write
  <1>3. QED
    BY <1>1, <1>2

LEMMA UpdatePromised ==
  ASSUME NodeInv, NEW c \in Clients, UpdateScan(c)
  PROVE  Promise!UpdateScan
  <1>1. Rewriters # {}
    BY DEF UpdateScan, Writes, NodeInv, OneUpdate
  <1>2. /\ fields' = [op[c].read EXCEPT !.outcome_code = "queue_retryable_failure"]
        /\ lease' = "fresh"
    BY DEF UpdateScan, Writes
  <1>3. fields'.outcome_code = "queue_retryable_failure"
    BY <1>2, Pending DEF Scan
  <1>4. QED
    BY <1>1, <1>2, <1>3 DEF Promise!UpdateScan

(***************************************************************************)
(* Neo4jStore implements the atomic store: although each operation of      *)
(* app/storage/neo4j.py is a read and a later conditional write, the       *)
(* properties of the node change as if it were one step.                   *)
(***************************************************************************)
THEOREM StoreKept == Spec => StoreHolds
  <1>1. Init => Promise!StoreInit
    BY DEF Init, Promise!StoreInit, InitialScan, Promise!InitialScan
  <1>2. ASSUME NodeInv, [Next]_nvars
        PROVE  [Promise!StoreNext]_Promise!svars
    <2>1. ASSUME NEW c \in Clients, SecondQuery(c)
          PROVE  Promise!StoreNext \/ UNCHANGED Promise!svars
      BY <1>2, <2>1, MarkPromised, ClaimPromised, TouchPromised, FinishPromised,
         RequestPromised, AcknowledgePromised, UpdatePromised
         DEF SecondQuery, Promise!StoreNext
    <2>2. ASSUME RecoverStaleScan
          PROVE  Promise!StoreNext \/ UNCHANGED Promise!svars
      BY <1>2, <2>2, RecoverPromised DEF Promise!StoreNext
    <2>3. ASSUME NEW c \in Clients, NEW o, Reads(c, o)
          PROVE  fields' = fields
      BY <2>3 DEF Reads, node
    <2>4. ASSUME NEW c \in Clients,
                 \/ \E j \in LeaseJobs \cup {0} : ReadToMark(c, j)
                 \/ \E a \in Attempts : ReadToClaim(c, a) \/ ReadToTouch(c, a)
                 \/ \E a \in Attempts, e \in Endings : ReadToFinish(c, a, e)
                 \/ ReadToRequest(c) \/ ReadToAcknowledge(c) \/ ReadToUpdate(c)
                 \/ Fails(c)
          PROVE  UNCHANGED Promise!svars
      <3>1. UNCHANGED <<fields, lease>>
        BY <2>3, <2>4 DEF ReadToMark, ReadToClaim, ReadToTouch, ReadToFinish, ReadToRequest,
           ReadToAcknowledge, ReadToUpdate, Fails
      <3>2. QED
        BY <3>1, MissStutters
    <2>5. ASSUME (\E j \in LeaseJobs : ReadToRecover(j)) \/ LeaseAges
          PROVE  Promise!Expire
      <3>1. fields' = fields
        BY <2>3, <2>5, ClientsAssumption DEF ReadToRecover, LeaseAges
      <3>2. (lease' = "stale") \in BOOLEAN
        OBVIOUS
      <3>3. QED
        BY <3>1, <3>2 DEF Promise!Expire
    <2>6. ASSUME UNCHANGED nvars
          PROVE  UNCHANGED Promise!svars
      BY <2>6, MissStutters DEF nvars
    <2>7. QED
      BY <1>2, <2>1, <2>2, <2>4, <2>5, <2>6 DEF Next, SecondQuery, Promise!StoreNext
  <1>3. QED
    BY <1>1, <1>2, NodeInvariant, PTL DEF Spec, StoreHolds, Promise!StoreSpec
================================================================================
