----------------------------- MODULE ScanContract -----------------------------
(***************************************************************************)
(* What the platform promises about one scan, without workers, queues,     *)
(* attempts or leases: a status that moves forward to one final state, a   *)
(* cancellation that cannot be overtaken, and a set of adapter runs that   *)
(* are open (queued or running).                                           *)
(*                                                                         *)
(* ScanLifecycle is shown to implement this specification.                 *)
(***************************************************************************)
EXTENDS ScanRecord

CONSTANT Runs       \* the adapter runs of the scan, one per target and adapter

VARIABLES status,   \* what the API shows as the state of the scan
          cancel,   \* a cancellation was requested
          live      \* runs the API shows as queued or running

cvars == <<status, cancel, live>>

ContractTypeOK ==
  /\ status \in ScanState
  /\ cancel \in BOOLEAN
  /\ live \subseteq Runs

ContractInit == status = "queued" /\ cancel = FALSE /\ live = {}

\* A worker takes the scan, or the dispatch loop takes it back.
Claim == status = "queued" /\ ~cancel /\ status' = "running" /\ UNCHANGED <<cancel, live>>
Requeue == status = "running" /\ ~cancel /\ status' = "queued" /\ UNCHANGED <<cancel, live>>

\* A run opens only while the scan runs and nobody asked to cancel it.
Open(r) ==
  /\ status = "running" /\ ~cancel
  /\ live' = live \cup {r}
  /\ UNCHANGED <<status, cancel>>

\* A run is closed, by its result or by the cancellation.
Close(r) == live' = live \ {r} /\ UNCHANGED <<status, cancel>>

\* The scan ends with a result only if nobody asked to cancel it.
End ==
  /\ status = "running" /\ ~cancel
  /\ status' \in TerminalScanStates \ {"cancelled"}
  /\ UNCHANGED <<cancel, live>>

RequestCancel ==
  /\ status \notin TerminalScanStates
  /\ cancel' = TRUE
  /\ UNCHANGED <<status, live>>

\* A requested cancellation becomes the final state once every run is closed.
Acknowledge ==
  /\ status \notin TerminalScanStates /\ cancel /\ live = {}
  /\ status' = "cancelled"
  /\ UNCHANGED <<cancel, live>>

ContractNext ==
  \/ Claim \/ Requeue \/ End \/ RequestCancel \/ Acknowledge
  \/ \E r \in Runs : Open(r) \/ Close(r)

ContractSpec == ContractInit /\ [][ContractNext]_cvars
===============================================================================
