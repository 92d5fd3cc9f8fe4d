------------------------------- MODULE ScanStore -------------------------------
(***************************************************************************)
(* The store's promise for one scan record: every operation is one atomic  *)
(* step.  InMemoryStore (app/storage/memory.py) keeps it by running each   *)
(* operation under one asyncio.Lock; Neo4jScan shows that the indexed      *)
(* fields of Neo4jStore keep it although each operation is two queries.    *)
(***************************************************************************)
EXTENDS ScanRecord

CONSTANTS
  Attempts,   \* the attempt numbers workers pass
  LeaseJobs,  \* the job ids the dispatch loop passes
  Endings,    \* the (state, outcome code) pairs finish_scan is called with
  Rewriters   \* clients that write whole records back with update_scan

VARIABLES record,   \* the scan record
          expired   \* updated_at lies before the sweep's stale_before

svars == <<record, expired>>

Write(s) == record' = s /\ expired' = FALSE

ClaimScan == \E a \in Attempts : Claimable(record, a) /\ Write(Claimed(record, a))

\* touch_scan_lease only renews updated_at.
TouchScanLease == \E a \in Attempts : HoldsLease(record, a) /\ Write(record)

RecoverStaleScan ==
  \E j \in LeaseJobs : expired /\ Recoverable(record) /\ Write(Recovered(record, j))

FinishScan ==
  \E a \in Attempts, e \in Endings :
    HoldsLease(record, a) /\ Write(Finished(record, a, e[1], e[2]))

MarkScanDispatched == \E j \in LeaseJobs \cup {0} : Write(Dispatched(record, j))

RequestCancellation == ~Terminal(record) /\ Write(CancellationRequested(record))

AcknowledgeCancellation ==
  ~Terminal(record) /\ record.cancel_requested /\ Write(CancellationAcknowledged(record))

\* update_scan replaces the record by one that was read some time ago.
UpdateScan ==
  Rewriters # {} /\ record'.outcome_code = "queue_retryable_failure" /\ expired' = FALSE

\* The lease expires, for a sweep that starts now.
Expire == expired' \in BOOLEAN /\ UNCHANGED record

StoreNext ==
  \/ ClaimScan \/ TouchScanLease \/ RecoverStaleScan \/ FinishScan
  \/ MarkScanDispatched \/ RequestCancellation \/ AcknowledgeCancellation
  \/ UpdateScan \/ Expire

StoreInit == record = InitialScan /\ expired = FALSE

StoreSpec == StoreInit /\ [][StoreNext]_svars
================================================================================
