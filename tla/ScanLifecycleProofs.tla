-------------------------- MODULE ScanLifecycleProofs --------------------------
(***************************************************************************)
(* Theorems about ScanLifecycle, for every value of its constants: its     *)
(* types; that the lease excludes as long as no attempt number was         *)
(* installed twice; that findings come before their run.  And, where the   *)
(* create handler's rewrite meets no newer record (RewriteRaces = FALSE):  *)
(* a cancelled scan shows no open run; ScanLifecycle implements            *)
(* ScanContract, as its initial state and each of its steps map to an      *)
(* initial state and a step, or a stutter, of the contract; and the        *)
(* verdict of a scan is the one its stored runs call for, whose results    *)
(* stay.  And, with that rewrite too, ScanLifecycle uses the store as      *)
(* ScanStore promises it.                                                  *)
(***************************************************************************)
EXTENDS ScanLifecycle, TLAPS

-------------------------------------------------------------------------------
(* The store operations of ScanRecord. *)

\* Every operation of the store leaves a well-typed record.
LEMMA RecordTypes ==
  ASSUME NEW s \in Scan, NEW n \in Nat, NEW t \in Nat,
         NEW state \in ScanState, NEW code \in OutcomeCodes
  PROVE  /\ WorkerAttempt(s, t) \in Nat
         /\ Claimed(s, n) \in Scan
         /\ RecoveryJob(s) \in Nat
         /\ Recovered(s, n) \in Scan
         /\ Finished(s, n, state, code) \in Scan
         /\ CancellationRequested(s) \in Scan
         /\ CancellationAcknowledged(s) \in Scan
         /\ Dispatched(s, n) \in Scan
<1> USE DEF Scan, ScanState, TerminalScanStates, OutcomeCodes
<1>1. WorkerAttempt(s, t) \in Nat /\ RecoveryJob(s) \in Nat
  BY DEF WorkerAttempt, RecoveryJob
<1>2. Claimed(s, n) \in Scan
  BY DEF Claimed
<1>3. Recovered(s, n) \in Scan
  BY DEF Recovered
<1>4. Finished(s, n, state, code) \in Scan
  BY DEF Finished
<1>5. CancellationRequested(s) \in Scan
  BY DEF CancellationRequested
<1>6. CancellationAcknowledged(s) \in Scan
  BY DEF CancellationAcknowledged
<1>7. Dispatched(s, n) \in Scan
  BY DEF Dispatched
<1>8. QED BY <1>1, <1>2, <1>3, <1>4, <1>5, <1>6, <1>7

LEMMA InitialScanType == InitialScan \in Scan
  BY DEF InitialScan, Scan, ScanState, OutcomeCodes

\* A record is frozen once it is final or a cancellation is durable: no worker
\* holds its lease, and no operation of the store thaws it.
Frozen(s) == s.cancel_requested \/ Terminal(s)

LEMMA FrozenRefusesLeases ==
  ASSUME NEW s \in Scan, NEW n \in Nat, Frozen(s)
  PROVE  ~HoldsLease(s, n) /\ ~Claimable(s, n) /\ ~Recoverable(s)
  BY DEF Scan, Frozen, HoldsLease, Claimable, Recoverable, Terminal, TerminalScanStates

LEMMA FrozenStaysFrozen ==
  ASSUME NEW s \in Scan, NEW n \in Nat, NEW state, NEW code, Frozen(s)
  PROVE  /\ Frozen(Finished(s, n, state, code))
         /\ Frozen(CancellationRequested(s))
         /\ Frozen(CancellationAcknowledged(s))
         /\ Frozen(Dispatched(s, n))
  BY DEF Scan, Frozen, Finished, HoldsLease, CancellationRequested,
         CancellationAcknowledged, Dispatched, Terminal, TerminalScanStates

-------------------------------------------------------------------------------
(* Types *)

\* A worker about to write a finding or a result is at a run.
AtRun == {"finding", "record"}
Placed(where, l) == where \in AtRun \/ l.then \in AtRun => l.run \in Runs

TypeInv == TypeOK /\ \A w \in Workers : Placed(pc[w], wk[w])

LEMMA IdleType ==
  /\ IdleWorker \in Worker
  /\ NoJob \in Job
  /\ \A e \in JobStatus : [NoJob EXCEPT !.status = e] \in Job
<1>1. 0 \in Jobs
  BY ConstantsAssumption DEF Jobs
<1>2. /\ Nothing \in [Runs -> AdapterResult \cup {"none"}]
      /\ Nothing \in [Runs -> DoneRun \cup {"none"}]
  BY DEF Nothing
<1>3. IdleWorker \in Worker
  BY <1>1, <1>2 DEF IdleWorker, Worker, Then
<1>4. NoJob \in Job /\ \A e \in JobStatus : [NoJob EXCEPT !.status = e] \in Job
  BY DEF NoJob, Job, JobStatus
<1>5. QED BY <1>3, <1>4

LEMMA ForgetType ==
  ASSUME NEW l \in Worker, NEW then \in Then,
         NEW cause \in {"none", "cancelled", "abort", "timeout"}
  PROVE  /\ Forget(l, then, cause) \in Worker
         /\ Forget(l, then, cause).then = then
  BY IdleType DEF Forget, Worker

\* The local state and the pc of a worker that goes on.
LEMMA BecomeType ==
  ASSUME TypeOK, NEW w \in Workers, NEW l \in Worker, NEW where \in WorkerPcs,
         Become(w, where, l)
  PROVE  pc' \in [Procs -> WorkerPcs \cup ApiPcs] /\ wk' \in [Workers -> Worker]
  BY DEF Become, Goto, TypeOK, Procs, Closers

LEMMA GotoType ==
  ASSUME TypeOK, NEW p \in Procs, NEW where \in WorkerPcs \cup ApiPcs, Goto(p, where)
  PROVE  pc' \in [Procs -> WorkerPcs \cup ApiPcs]
  BY DEF Goto, TypeOK

\* All variables a job's end writes.
LEMMA EndJobType ==
  ASSUME TypeOK, NEW w \in Workers, NEW end \in JobStatus, EndJob(w, end)
  PROVE  /\ pc' \in [Procs -> WorkerPcs \cup ApiPcs]
         /\ wk' \in [Workers -> Worker]
         /\ left' \in [Closers -> SUBSET Runs]
         /\ queue' \in [Jobs -> Job]
<1>1. pc' \in [Procs -> WorkerPcs \cup ApiPcs] /\ left' \in [Closers -> SUBSET Runs]
  BY DEF EndJob, TypeOK, WorkerPcs, Procs, Closers
<1>2. wk' \in [Workers -> Worker]
  BY IdleType DEF EndJob, TypeOK
<1>3. wk[w].job \in Jobs
  BY DEF TypeOK, Worker
<1>4. [queue[wk[w].job] EXCEPT !.status = "queued"] \in Job
  BY <1>3 DEF TypeOK, Job, JobStatus
<1>5. queue' \in [Jobs -> Job]
  BY <1>3, <1>4, IdleType DEF EndJob, TypeOK
<1>6. QED BY <1>1, <1>2, <1>5

LEMMA EndAfterCauseType ==
  ASSUME NEW cause PROVE EndAfterCause(cause) \in JobStatus
  BY DEF EndAfterCause, JobStatus

-------------------------------------------------------------------------------
\* The state a worker is in after _terminal_or_cancelled_scan answered.
WorkerVarsOK ==
  /\ pc \in [Procs -> WorkerPcs \cup ApiPcs]
  /\ wk \in [Workers -> Worker]
  /\ left \in [Closers -> SUBSET Runs]
  /\ queue \in [Jobs -> Job]
  /\ \A w \in Workers : Placed(pc[w], wk[w])

LEMMA GotoPlaced ==
  ASSUME TypeInv, NEW p \in Procs, NEW where \in WorkerPcs \cup ApiPcs,
         where \notin AtRun, Goto(p, where), UNCHANGED <<wk, left, queue>>
  PROVE  WorkerVarsOK'
<1>1. pc' \in [Procs -> WorkerPcs \cup ApiPcs]
  BY GotoType DEF TypeInv
<1>2. \A w \in Workers : Placed(pc[w], wk[w])'
  BY DEF Goto, TypeInv, TypeOK, Placed, Procs, Closers
<1>3. QED BY <1>1, <1>2 DEF TypeInv, TypeOK, WorkerVarsOK

LEMMA EndJobOK ==
  ASSUME TypeInv, NEW w \in Workers, NEW end \in JobStatus, EndJob(w, end)
  PROVE  WorkerVarsOK'
<1>1. \A v \in Workers : Placed(pc[v], wk[v])'
  BY DEF EndJob, TypeInv, TypeOK, Placed, AtRun, Procs, Closers, IdleWorker
<1>2. QED BY <1>1, EndJobType DEF WorkerVarsOK, TypeInv

LEMMA RaiseFailureOK ==
  ASSUME TypeInv, NEW w \in Workers, RaiseFailure(w)
  PROVE  WorkerVarsOK'
<1>1. PICK end \in JobStatus : EndJob(w, end)
  BY DEF RaiseFailure, JobStatus
<1>2. QED BY <1>1, EndJobOK

LEMMA BecomePlaced ==
  ASSUME TypeInv, NEW w \in Workers, NEW l, NEW where, Placed(where, l),
         Become(w, where, l)
  PROVE  \A v \in Workers : Placed(pc[v], wk[v])'
  BY DEF Become, Goto, TypeInv, TypeOK, Placed, Procs, Closers

LEMMA BecomeOK ==
  ASSUME TypeInv, NEW w \in Workers, NEW l \in Worker, NEW where \in WorkerPcs,
         Placed(where, l), Become(w, where, l), UNCHANGED <<left, queue>>
  PROVE  WorkerVarsOK'
  BY BecomeType, BecomePlaced DEF TypeInv, TypeOK, WorkerVarsOK

LEMMA LocalType ==
  ASSUME TypeInv, NEW w \in Workers
  PROVE  wk[w] \in Worker /\ Placed(pc[w], wk[w])
  BY DEF TypeInv, TypeOK

LEMMA NextTargetOK ==
  ASSUME TypeInv, NEW w \in Workers, NEW l \in Worker, NextTarget(w, l),
         UNCHANGED <<left, queue>>
  PROVE  WorkerVarsOK'
<1>1. "-" \in Then /\ "target" \in Then /\ "finish" \in WorkerPcs /\ "check" \in WorkerPcs
  BY DEF Then, Steps, WorkerPcs, WritePcs, CheckPcs
<1>2. /\ [l EXCEPT !.run = NoRun, !.then = "-"] \in Worker
      /\ [l EXCEPT !.run = NoRun, !.then = "target"] \in Worker
      /\ Placed("finish", [l EXCEPT !.run = NoRun, !.then = "-"])
      /\ Placed("check", [l EXCEPT !.run = NoRun, !.then = "target"])
  BY <1>1 DEF Worker, Placed, AtRun
<1>3. QED BY <1>1, <1>2, BecomeOK DEF NextTarget

LEMMA BeginTargetOK ==
  ASSUME TypeInv, NEW w \in Workers, NEW t \in Targets, BeginTarget(w, t),
         UNCHANGED <<left, queue>>
  PROVE  WorkerVarsOK'
<1> DEFINE l == [wk[w] EXCEPT !.todo = @ \ {t}, !.then = "-"]
<1>1. l \in Worker
  BY LocalType DEF Worker, Then
<1>2. CASE Remaining(l, t) = {}
  BY <1>1, <1>2, NextTargetOK DEF BeginTarget
<1>3. CASE Remaining(l, t) # {}
  <2>1. /\ [l EXCEPT !.plan = Remaining(l, t)] \in Worker
        /\ Placed("announce", [l EXCEPT !.plan = Remaining(l, t)])
    BY <1>1, LocalType DEF Worker, Remaining, Placed, AtRun
  <2>2. "announce" \in WorkerPcs
    BY DEF WorkerPcs, WritePcs
  <2>3. Become(w, "announce", [l EXCEPT !.plan = Remaining(l, t)])
    BY <1>3 DEF BeginTarget
  <2>4. QED BY <2>1, <2>2, <2>3, BecomeOK
<1>4. QED BY <1>2, <1>3

LEMMA GoOnOK ==
  ASSUME TypeInv, NEW w \in Workers, GoOn(w)
  PROVE  WorkerVarsOK'
<1>1. wk[w] \in Worker
  BY LocalType
<1>2. CASE /\ \E t \in wk[w].todo : BeginTarget(w, t)
           /\ UNCHANGED <<left, queue>>
  BY <1>1, <1>2, BeginTargetOK DEF Worker
<1>3. CASE /\ wk[w].then \in Steps \ {"target"}
           /\ Become(w, wk[w].then, [wk[w] EXCEPT !.then = "-"])
           /\ UNCHANGED <<left, queue>>
  <2>1. wk[w].then \in WorkerPcs
    BY <1>3 DEF Steps, WorkerPcs, WritePcs
  <2>2. /\ [wk[w] EXCEPT !.then = "-"] \in Worker
        /\ Placed(wk[w].then, [wk[w] EXCEPT !.then = "-"])
    BY <1>1, LocalType DEF Worker, Then, Placed, AtRun
  <2>3. QED BY <1>3, <2>1, <2>2, BecomeOK
<1>4. CASE EndJob(w, "gone")
  BY <1>4, EndJobOK DEF JobStatus
<1>5. CASE /\ Become(w, "fail", Forget(wk[w], "-", wk[w].cause))
           /\ UNCHANGED <<left, queue>>
  <2>1. /\ Forget(wk[w], "-", wk[w].cause) \in Worker
        /\ Placed("fail", Forget(wk[w], "-", wk[w].cause))
    BY <1>1, ForgetType DEF Worker, Then, Placed, AtRun
  <2>2. QED BY <1>5, <2>1, BecomeOK DEF WorkerPcs
<1>6. CASE EndJob(w, EndAfterCause(wk[w].cause))
  BY <1>6, EndJobOK, EndAfterCauseType
<1>7. CASE RaiseFailure(w)
  BY <1>7, RaiseFailureOK
<1>8. QED BY <1>2, <1>3, <1>4, <1>5, <1>6, <1>7 DEF GoOn

LEMMA StopAtOK ==
  ASSUME TypeInv, NEW w \in Workers, NEW s, StopAt(w, s)
  PROVE  WorkerVarsOK'
<1>1. CASE /\ Become(w, "check", Forget(wk[w], "abort", wk[w].cause))
           /\ UNCHANGED <<left, queue>>
  <2>1. /\ Forget(wk[w], "abort", wk[w].cause) \in Worker
        /\ Placed("check", Forget(wk[w], "abort", wk[w].cause))
    BY LocalType, ForgetType DEF Worker, Then, Placed, AtRun
  <2>2. QED BY <1>1, <2>1, BecomeOK DEF WorkerPcs, CheckPcs
<1>2. CASE \E end \in JobStatus : EndJob(w, end)
  BY <1>2, EndJobOK
<1>3. CASE RaiseFailure(w)
  BY <1>3, RaiseFailureOK
<1>4. "gone" \in JobStatus /\ EndAfterCause(wk[w].cause) \in JobStatus
  BY EndAfterCauseType DEF JobStatus
<1>5. QED BY <1>1, <1>2, <1>3, <1>4 DEF StopAt

LEMMA CancelTaskOK ==
  ASSUME TypeInv, NEW w \in Workers,
         NEW cause \in {"none", "cancelled", "abort", "timeout"}, CancelTask(w, cause)
  PROVE  WorkerVarsOK'
<1>1. CASE /\ Become(w, "check", Forget(wk[w], "abort", cause))
           /\ left' = [left EXCEPT ![w] = {}]
           /\ queue' = [queue EXCEPT ![wk[w].job].abort = @ /\ cause # "abort"]
  <2>1. /\ Forget(wk[w], "abort", cause) \in Worker
        /\ Placed("check", Forget(wk[w], "abort", cause))
    BY LocalType, ForgetType DEF Then, Placed, AtRun
  <2>2. pc' \in [Procs -> WorkerPcs \cup ApiPcs] /\ wk' \in [Workers -> Worker]
    BY <1>1, <2>1, BecomeType DEF TypeInv, WorkerPcs, CheckPcs
  <2>3. left' \in [Closers -> SUBSET Runs]
    BY <1>1 DEF TypeInv, TypeOK, Closers
  <2>4. queue' \in [Jobs -> Job]
    <3>1. wk[w].job \in Jobs /\ queue[wk[w].job] \in Job
      BY LocalType DEF TypeInv, TypeOK, Worker
    <3>2. [queue[wk[w].job] EXCEPT !.abort = @ /\ cause # "abort"] \in Job
      BY <3>1 DEF Job
    <3>3. QED BY <1>1, <3>1, <3>2 DEF TypeInv, TypeOK
  <2>5. QED BY <1>1, <2>1, <2>2, <2>3, <2>4, BecomePlaced DEF WorkerVarsOK
<1>2. CASE EndJob(w, EndAfterCause(cause))
  BY <1>2, EndJobOK, EndAfterCauseType
<1>3. QED BY <1>1, <1>2 DEF CancelTask

-------------------------------------------------------------------------------
(* Type correctness *)

\* The rest of TypeOK.
OthersOK ==
  /\ scan \in Scan
  /\ lease \in {"fresh", "aged", "stale"}
  /\ runs \in [Runs -> RunState]
  /\ graph \subseteq Runs
  /\ seen \in [Procs \ Workers -> Scan]
  /\ faults \in 0 .. MaxFaults
  /\ reused \in BOOLEAN

LEMMA TypeSplit == TypeInv <=> WorkerVarsOK /\ OthersOK
  BY DEF TypeInv, TypeOK, WorkerVarsOK, OthersOK

LEMMA FaultType ==
  ASSUME TypeInv, Fault PROVE faults' \in 0 .. MaxFaults
  BY ConstantsAssumption DEF TypeInv, TypeOK, Fault

LEMMA StoreType ==
  ASSUME TypeInv, NEW s \in Scan, Store(s) \/ StoreIfChanged(s)
  PROVE  scan' \in Scan /\ lease' \in {"fresh", "aged", "stale"}
  BY DEF TypeInv, TypeOK, Store, StoreIfChanged

LEMMA StoreIfChangedStores ==
  ASSUME NEW s, StoreIfChanged(s) PROVE scan' = s
  BY DEF StoreIfChanged, Store

\* Steps of a worker that leave the other variables alone.
LEMMA WorkerOnly ==
  ASSUME TypeInv, WorkerVarsOK', UNCHANGED <<durable, seen, faults, reused>>
  PROVE  TypeInv'
  BY DEF TypeInv, TypeOK, WorkerVarsOK, durable

LEMMA WorkerFault ==
  ASSUME TypeInv, WorkerVarsOK', Fault, UNCHANGED <<durable, seen, reused>>
  PROVE  TypeInv'
  BY FaultType DEF TypeInv, TypeOK, WorkerVarsOK, durable

\* What the code of a worker computes is well typed.
LEMMA ComputedTypes ==
  ASSUME NEW known
  PROVE  /\ FinalCode(known) \in CompletionCodes
         /\ StateOfCode(FinalCode(known)) \in ScanState
  BY DEF FinalCode, StateOfCode, CompletionCodes, ScanState, TerminalScanStates

LEMMA AcknowledgedType ==
  ASSUME TypeInv PROVE CancellationAcknowledged(scan) \in Scan
  BY DEF TypeInv, TypeOK, CancellationAcknowledged, Scan, ScanState, TerminalScanStates,
         OutcomeCodes

\* Closing the runs of a cancelled scan, by any process.
LEMMA ClosingTypes ==
  ASSUME TypeInv, NEW p \in Closers, Closing(p)
  PROVE  TypeInv'
<1>1. PICK where \in ClosePcs : Goto(p, where)
  BY DEF Closing, CloseList, CloseWrite, ClosePcs
<1>2. pc' \in [Procs -> WorkerPcs \cup ApiPcs]
  BY <1>1, GotoType DEF TypeInv, Procs, ApiPcs
<1>3. \A w \in Workers : Placed(pc[w], wk[w])'
  <2>1. UNCHANGED wk
    BY DEF Closing, CloseList, CloseWrite
  <2>2. QED BY <1>1, <2>1 DEF Goto, TypeInv, TypeOK, Placed, Procs, Closers, AtRun, ClosePcs
<1>4. left' \in [Closers -> SUBSET Runs]
  BY DEF Closing, CloseList, CloseWrite, TypeInv, TypeOK, LiveRuns
<1>5. runs' \in [Runs -> RunState]
  BY DEF Closing, CloseList, CloseWrite, TypeInv, TypeOK, RunState, DoneRun, durable
<1>6. QED
  BY <1>2, <1>3, <1>4, <1>5 DEF Closing, CloseList, CloseWrite, TypeInv, TypeOK, durable

LEMMA WorkTypes ==
  ASSUME TypeInv, NEW w \in Workers, Work(w)
  PROVE  TypeInv'
<1> USE DEF WorkerPcs, WritePcs, CheckPcs, Then, Steps, JobStatus
<1>0. wk[w] \in Worker /\ scan \in Scan
  BY LocalType DEF TypeInv, TypeOK
<1>1. CASE Load(w)
  <2>1. WorkerAttempt(scan, wk[w].try) \in Nat
    BY <1>0, RecordTypes DEF Worker, Scan, ScanState, OutcomeCodes
  <2>2. /\ [wk[w] EXCEPT !.then = "return"] \in Worker
        /\ [wk[w] EXCEPT !.attempt = WorkerAttempt(scan, wk[w].try)] \in Worker
        /\ Placed("check", [wk[w] EXCEPT !.then = "return"])
        /\ Placed("claim", [wk[w] EXCEPT !.attempt = WorkerAttempt(scan, wk[w].try)])
    BY <1>0, <1>1, <2>1, LocalType DEF Worker, Placed, AtRun
  <2>3. WorkerVarsOK'
    BY <1>1, <2>2, BecomeOK, EndJobOK DEF Load
  <2>4. QED BY <1>1, <2>3, WorkerOnly DEF Load
<1>2. CASE ClaimScan(w)
  <2>1. Claimed(scan, wk[w].attempt) \in Scan
    BY <1>0, RecordTypes DEF Worker, Scan, ScanState, OutcomeCodes
  <2>2. scan' \in Scan /\ lease' \in {"fresh", "aged", "stale"}
    BY <1>2, <2>1, StoreType DEF ClaimScan, TypeInv, TypeOK
  <2>3. WorkerVarsOK'
    <3>1. PICK where \in {"list", "reload"} : Goto(w, where)
      BY <1>2 DEF ClaimScan
    <3>2. QED BY <1>2, <3>1, GotoPlaced DEF ClaimScan, Procs, Closers, AtRun
  <2>4. reused' \in BOOLEAN
    BY <1>2 DEF ClaimScan, TypeInv, TypeOK
  <2>5. QED BY <1>2, <2>2, <2>3, <2>4 DEF ClaimScan, TypeInv, TypeOK, WorkerVarsOK
<1>3. CASE Reload(w)
  <2>1. /\ [wk[w] EXCEPT !.then = "return"] \in Worker
        /\ Placed("check", [wk[w] EXCEPT !.then = "return"])
    BY <1>0 DEF Worker, Placed, AtRun
  <2>2. WorkerVarsOK'
    BY <1>3, <2>1, BecomeOK, EndJobOK DEF Reload
  <2>3. QED BY <1>3, <2>2, WorkerOnly DEF Reload
<1>4. CASE ListRuns(w)
  <2>1. [r \in Runs |-> IF runs[r] \in DoneRun THEN runs[r] ELSE "none"]
          \in [Runs -> DoneRun \cup {"none"}]
    OBVIOUS
  <2> DEFINE l == [wk[w] EXCEPT !.todo = Targets, !.then = "target",
                                !.known = [r \in Runs |->
                                   IF runs[r] \in DoneRun THEN runs[r] ELSE "none"]]
  <2>2. l \in Worker /\ Placed("check", l)
    BY <1>0, <2>1 DEF Worker, Placed, AtRun
  <2>3. WorkerVarsOK'
    BY <1>4, <2>2, BecomeOK DEF ListRuns
  <2>4. QED BY <1>4, <2>3, WorkerOnly DEF ListRuns
<1>5. CASE Check(w)
  <2>1. CASE Goto(w, "closelist") /\ UNCHANGED <<left, queue, wk>>
    <3>1. WorkerVarsOK'
      BY <2>1, GotoPlaced DEF ClosePcs, Procs, Closers, AtRun
    <3>2. QED BY <1>5, <3>1, WorkerOnly DEF Check
  <2>2. CASE WorkerVarsOK'
    BY <1>5, <2>2, WorkerOnly DEF Check
  <2>3. QED BY <1>5, <2>1, <2>2, StopAtOK, GoOnOK DEF Check
<1>6. CASE \E r \in Runs : Announce(w, r)
  <2>1. PICK r \in Runs : Announce(w, r)
    BY <1>6
  <2>2. Remaining(wk[w], TargetOf[r]) \in SUBSET Runs /\ wk[w].plan \ {r} \in SUBSET Runs
    BY <1>0 DEF Remaining, Worker
  <2> DEFINE last == [wk[w] EXCEPT !.then = "start", !.plan = Remaining(wk[w], TargetOf[r])]
             more == [wk[w] EXCEPT !.then = "announce", !.plan = wk[w].plan \ {r}]
  <2>3. last \in Worker /\ more \in Worker /\ Placed("event", last) /\ Placed("event", more)
    BY <1>0, <2>2 DEF Worker, Placed, AtRun
  <2>4. WorkerVarsOK'
    BY <2>1, <2>3, BecomeOK DEF Announce
  <2>5. runs' \in [Runs -> RunState]
    BY <2>1 DEF Announce, TypeInv, TypeOK, RunState, LiveRun
  <2>6. QED BY <2>1, <2>4, <2>5 DEF Announce, TypeInv, TypeOK, WorkerVarsOK
<1>7. CASE \E r \in Runs : Start(w, r)
  <2>1. PICK r \in Runs : Start(w, r)
    BY <1>7
  <2> DEFINE l == [wk[w] EXCEPT !.then = "execute", !.run = r, !.plan = @ \ {r}]
  <2>2. l \in Worker /\ Placed("event", l)
    BY <1>0 DEF Worker, Placed, AtRun
  <2>3. WorkerVarsOK'
    BY <2>1, <2>2, BecomeOK DEF Start
  <2>4. runs' \in [Runs -> RunState]
    BY <2>1 DEF Start, TypeInv, TypeOK, RunState, LiveRun
  <2>5. QED BY <2>1, <2>3, <2>4 DEF Start, TypeInv, TypeOK, WorkerVarsOK
<1>8. CASE \E o \in AdapterOutcomes : Execute(w, o)
  <2>1. PICK o \in AdapterOutcomes : Execute(w, o)
    BY <1>8
  <2> DEFINE l == [wk[w] EXCEPT !.got[wk[w].run] = o]
  <2>2. l \in Worker
    <3>1. o \in AdapterResult
      BY <2>1, ConstantsAssumption DEF AdapterResult
    <3>2. QED BY <1>0, <3>1 DEF Worker
  <2>3. /\ [l EXCEPT !.then = "start", !.run = NoRun] \in Worker
        /\ Placed("check", [l EXCEPT !.then = "start", !.run = NoRun])
    BY <2>2 DEF Worker, Placed, AtRun
  <2>4. \A r \in Executions(l) :
          /\ [l EXCEPT !.then = StepFor(l, r), !.run = r] \in Worker
          /\ Placed("check", [l EXCEPT !.then = StepFor(l, r), !.run = r])
    BY <2>2 DEF Worker, Executions, StepFor, Placed
  <2>5. WorkerVarsOK'
    BY <2>1, <2>3, <2>4, BecomeOK DEF Execute
  <2>6. QED BY <2>1, <2>5, WorkerOnly DEF Execute
<1>9. CASE AddEvent(w)
  <2>1. CASE wk[w].then \in {"execute", "finish"}
    <3>1. /\ [wk[w] EXCEPT !.then = "-"] \in Worker
          /\ Placed(wk[w].then, [wk[w] EXCEPT !.then = "-"])
      BY <1>0, <2>1 DEF Worker, Placed, AtRun
    <3>2. WorkerVarsOK'
      BY <1>9, <2>1, <3>1, BecomeOK DEF AddEvent
    <3>3. QED BY <1>9, <3>2, WorkerOnly DEF AddEvent
  <2>2. CASE Goto(w, "check") /\ UNCHANGED wk
    <3>1. WorkerVarsOK'
      BY <1>9, <2>2, GotoPlaced DEF AddEvent, Procs, Closers, AtRun
    <3>2. QED BY <1>9, <3>1, WorkerOnly DEF AddEvent
  <2>3. QED BY <1>9, <2>1, <2>2 DEF AddEvent
<1>10. CASE AddFinding(w)
  <2>0. wk[w].run \in Runs
    BY <1>10, LocalType DEF AddFinding, Fenced, Placed, AtRun
  <2>1. /\ [wk[w] EXCEPT !.then = "record"] \in Worker
        /\ Placed("check", [wk[w] EXCEPT !.then = "record"])
    BY <1>0, <2>0 DEF Worker, Placed
  <2>2. WorkerVarsOK'
    BY <1>10, <2>1, BecomeOK DEF AddFinding
  <2>3. graph' \subseteq Runs
    BY <1>10, <2>0 DEF AddFinding, TypeInv, TypeOK
  <2>4. QED BY <1>10, <2>2, <2>3 DEF AddFinding, TypeInv, TypeOK, WorkerVarsOK
<1>11. CASE RecordRun(w)
  <2>0. wk[w].run \in Runs
    BY <1>11, LocalType DEF RecordRun, Fenced, Placed, AtRun
  <2> DEFINE r == wk[w].run
             l == [wk[w] EXCEPT !.known[r] = wk[w].got[r], !.got[r] = "none", !.run = NoRun]
             last == [l EXCEPT !.then = IF l.todo = {} THEN "finish" ELSE "target"]
             more(q) == [l EXCEPT !.then = StepFor(l, q), !.run = q]
  <2>1. wk[w].got[r] \in AdapterResult \cup {"none"}
    BY <1>0, <2>0 DEF Worker
  <2>2. l \in Worker
    BY <1>0, <2>0, <2>1 DEF Worker, AdapterResult, DoneRun
  <2>3. last \in Worker /\ Placed("event", last)
    BY <2>2 DEF Worker, Placed, AtRun
  <2>4. \A q \in Executions(l) : more(q) \in Worker /\ Placed("event", more(q))
    BY <2>2 DEF Worker, Executions, StepFor, Placed
  <2>5. WorkerVarsOK'
    BY <1>11, <2>3, <2>4, BecomeOK DEF RecordRun
  <2>6. runs' \in [Runs -> RunState]
    BY <1>11, <2>1 DEF RecordRun, TypeInv, TypeOK, RunState, AdapterResult, DoneRun
  <2>7. QED BY <1>11, <2>5, <2>6 DEF RecordRun, TypeInv, TypeOK, WorkerVarsOK
<1>12. CASE LosesFence(w)
  <2>1. /\ Forget(wk[w], "-", wk[w].cause) \in Worker
        /\ Placed("fail", Forget(wk[w], "-", wk[w].cause))
    <3>1. wk[w].cause \in {"none", "cancelled", "abort", "timeout"} /\ "-" \in Then
      BY <1>0 DEF Worker
    <3> HIDE DEF Then
    <3>2. QED BY <1>0, <3>1, ForgetType DEF Placed, AtRun
  <2>2. WorkerVarsOK'
    BY <1>12, <2>1, BecomeOK DEF LosesFence
  <2>3. QED BY <1>12, <2>2, WorkerOnly DEF LosesFence
<1>13. CASE FinishScan(w)
  <2> DEFINE code == FinalCode(wk[w].known)
             leave == [wk[w] EXCEPT !.then = "leave"]
  <2>1. Finished(scan, wk[w].attempt, StateOfCode(code), code) \in Scan
    BY <1>0, RecordTypes, ComputedTypes DEF Worker, OutcomeCodes
  <2>2. scan' \in Scan /\ lease' \in {"fresh", "aged", "stale"}
    BY <1>13, <2>1, StoreType DEF FinishScan
  <2>3. leave \in Worker /\ Placed("check", leave)
    BY <1>0 DEF Worker, Placed, AtRun
  <2>4. WorkerVarsOK'
    BY <1>13, <2>3, BecomeOK, EndJobOK DEF FinishScan
  <2>5. QED BY <1>13, <2>2, <2>4 DEF FinishScan, TypeInv, TypeOK, WorkerVarsOK
<1>14. CASE FailScan(w)
  <2> DEFINE state == IF FinalAttempt(w) THEN "failed" ELSE "running"
             code == IF FinalAttempt(w) THEN "worker_failure" ELSE "retryable_worker_failure"
             failed == [wk[w] EXCEPT !.then = "failed"]
  <2>1. Finished(scan, wk[w].attempt, state, code) \in Scan
    <3>1. state \in ScanState /\ code \in OutcomeCodes
      BY DEF ScanState, TerminalScanStates, OutcomeCodes
    <3>2. QED BY <1>0, <3>1, RecordTypes DEF Worker
  <2>2. scan' \in Scan /\ lease' \in {"fresh", "aged", "stale"}
    BY <1>14, <2>1, StoreType DEF FailScan
  <2>3. failed \in Worker /\ Placed("check", failed)
    BY <1>0 DEF Worker, Placed, AtRun
  <2>4. WorkerVarsOK'
    BY <1>14, <2>3, BecomeOK, RaiseFailureOK DEF FailScan
  <2>5. QED BY <1>14, <2>2, <2>4 DEF FailScan, TypeInv, TypeOK, WorkerVarsOK
<1>15. CASE Closing(w)
  BY <1>15, ClosingTypes DEF Closers
<1>16. CASE WorkerAck(w)
  <2> DEFINE s == CancellationAcknowledged(scan)
  <2>1. scan' \in Scan /\ lease' \in {"fresh", "aged", "stale"}
    BY <1>0, <1>16, RecordTypes, StoreType, AcknowledgedType DEF WorkerAck
  <2>2. WorkerVarsOK'
    BY <1>16, StopAtOK, GoOnOK DEF WorkerAck
  <2>3. QED BY <1>16, <2>1, <2>2 DEF WorkerAck, TypeInv, TypeOK, WorkerVarsOK
<1>17. QED BY <1>1, <1>2, <1>3, <1>4, <1>5, <1>6, <1>7, <1>8, <1>9, <1>10, <1>11,
              <1>12, <1>13, <1>14, <1>15, <1>16 DEF Work

LEMMA StopTypes ==
  ASSUME TypeInv, NEW w \in Workers, Stop(w)
  PROVE  TypeInv'
<1>0. wk[w] \in Worker
  BY LocalType
<1>1. CASE LeaseLost(w)
  <2>1. WorkerVarsOK'
    BY <1>0, <1>1, CancelTaskOK DEF LeaseLost, Worker
  <2>2. QED BY <1>1, <2>1, WorkerOnly DEF LeaseLost
<1>2. CASE AbortTask(w)
  BY <1>2, CancelTaskOK, WorkerOnly DEF AbortTask
<1>3. CASE JobTimeout(w)
  BY <1>3, CancelTaskOK, WorkerFault DEF JobTimeout
<1>4. CASE Crash(w)
  BY <1>4, EndJobOK, WorkerFault DEF Crash, JobStatus
<1>5. CASE StoreFails(w)
  <2>1. CASE EndJob(w, "gone")
    BY <1>5, <2>1, EndJobOK, WorkerFault DEF StoreFails, JobStatus
  <2>2. CASE /\ Become(w, "fail", Forget(wk[w], "-", wk[w].cause))
             /\ left' = [left EXCEPT ![w] = {}]
             /\ UNCHANGED queue
    <3> DEFINE l == Forget(wk[w], "-", wk[w].cause)
    <3>1. l \in Worker /\ Placed("fail", l)
      BY <1>0, ForgetType DEF Worker, Then, Placed, AtRun
    <3>2. pc' \in [Procs -> WorkerPcs \cup ApiPcs] /\ wk' \in [Workers -> Worker]
      BY <2>2, <3>1, BecomeType DEF TypeInv, WorkerPcs
    <3>3. \A v \in Workers : Placed(pc[v], wk[v])'
      BY <2>2, <3>1, BecomePlaced
    <3>4. left' \in [Closers -> SUBSET Runs] /\ queue' \in [Jobs -> Job]
      BY <2>2 DEF TypeInv, TypeOK, Closers
    <3>5. WorkerVarsOK'
      BY <3>2, <3>3, <3>4 DEF WorkerVarsOK
    <3>6. QED BY <1>5, <3>5, WorkerFault DEF StoreFails
  <2>3. CASE RaiseFailure(w)
    BY <1>5, <2>3, RaiseFailureOK, WorkerFault DEF StoreFails
  <2>4. QED BY <1>5, <2>1, <2>2, <2>3 DEF StoreFails
<1>6. QED BY <1>1, <1>2, <1>3, <1>4, <1>5 DEF Stop

\* The steps of the API processes.
LEMMA ApiTypes ==
  ASSUME TypeInv, NEW p \in Procs \ Workers, NEW where \in ApiPcs, Goto(p, where),
         UNCHANGED wk
  PROVE  /\ pc' \in [Procs -> WorkerPcs \cup ApiPcs]
         /\ \A w \in Workers : Placed(pc[w], wk[w])'
<1>1. pc' \in [Procs -> WorkerPcs \cup ApiPcs]
  BY GotoType DEF TypeInv
<1>2. QED BY <1>1 DEF Goto, TypeInv, TypeOK, Placed, Procs, Closers

LEMMA EnqueuedType ==
  ASSUME TypeInv, NEW job PROVE Enqueued(job) \in [Jobs -> Job]
<1>1. CASE job \in Jobs
  <2>1. queue[job] \in Job
    BY <1>1 DEF TypeInv, TypeOK
  <2>2. [[queue[job] EXCEPT !.status = "queued"] EXCEPT !.tries = 0] \in Job
    BY <2>1 DEF Job, JobStatus
  <2>3. QED BY <1>1, <2>1, <2>2 DEF Enqueued, TypeInv, TypeOK, Job, JobStatus
<1>2. CASE job \notin Jobs
  BY <1>2 DEF Enqueued, TypeInv, TypeOK
<1>3. QED BY <1>1, <1>2

LEMMA SeenType ==
  ASSUME TypeInv, NEW p \in Procs \ Workers, NEW s \in Scan, SeenBy(p, s)
  PROVE  seen' \in [Procs \ Workers -> Scan]
  BY DEF SeenBy, TypeInv, TypeOK

LEMMA DispatchTypes ==
  ASSUME TypeInv, Dispatch \/ SweepFails
  PROVE  TypeInv'
<1>0. /\ Dispatcher \in Procs \ Workers /\ Dispatcher \in Closers
      /\ scan \in Scan /\ seen[Dispatcher] \in Scan /\ seen[Dispatcher].job_id \in Nat
      /\ InitialScan \in Scan
  BY ConstantsAssumption, InitialScanType DEF Procs, Closers, TypeInv, TypeOK, Scan
<1>1. CASE Sweep
  <2>1. PICK where \in ApiPcs : Goto(Dispatcher, where)
    BY <1>1 DEF Sweep, ApiPcs, ClosePcs
  <2>2. UNCHANGED wk /\ SeenBy(Dispatcher, scan)
    BY <1>1 DEF Sweep
  <2>3. lease' \in {"fresh", "aged", "stale"}
    BY <1>1 DEF Sweep, TypeInv, TypeOK
  <2>4. QED
    BY <1>0, <1>1, <2>1, <2>2, <2>3, ApiTypes, SeenType DEF Sweep, TypeInv, TypeOK
<1>2. CASE RecoverStaleScan
  <2> DEFINE job == RecoveryJob(seen[Dispatcher])
  <2>1. job \in Nat /\ Recovered(scan, job) \in Scan
    <3>1. job \in Nat
      BY <1>2 DEF RecoverStaleScan, Jobs
    <3>2. QED BY <1>0, <3>1 DEF Recovered, Scan, ScanState, OutcomeCodes
  <2>2. PICK where \in ApiPcs : Goto(Dispatcher, where)
    BY <1>2 DEF RecoverStaleScan, Leave, ApiPcs
  <2>3. UNCHANGED wk
    BY <1>2 DEF RecoverStaleScan
  <2>4. PICK s \in Scan : SeenBy(Dispatcher, s)
    BY <1>0, <1>2, <2>1 DEF RecoverStaleScan, Leave
  <2>5. scan' \in Scan /\ lease' \in {"fresh", "aged", "stale"}
    BY <1>2, <2>1 DEF RecoverStaleScan, Store, TypeInv, TypeOK
  <2>6. QED
    BY <1>0, <1>2, <2>2, <2>3, <2>4, <2>5, ApiTypes, SeenType
       DEF RecoverStaleScan, TypeInv, TypeOK
<1>3. CASE EnqueueRepair
  <2>1. PICK where \in ApiPcs : Goto(Dispatcher, where)
    BY <1>3 DEF EnqueueRepair, Leave, ApiPcs
  <2>2. UNCHANGED wk
    BY <1>3 DEF EnqueueRepair
  <2>3. seen' \in [Procs \ Workers -> Scan]
    BY <1>0, <1>3, SeenType DEF EnqueueRepair, Leave, TypeInv, TypeOK
  <2>4. queue' \in [Jobs -> Job]
    BY <1>3, EnqueuedType DEF EnqueueRepair
  <2>5. QED
    BY <1>0, <1>3, <2>1, <2>2, <2>3, <2>4, ApiTypes DEF EnqueueRepair, TypeInv, TypeOK, durable
<1>4. CASE MarkScanDispatched
  <2> DEFINE s == Dispatched(scan, seen[Dispatcher].job_id)
  <2>1. s \in Scan
    BY <1>0 DEF Dispatched, Scan, ScanState, OutcomeCodes
  <2>2. scan' \in Scan /\ lease' \in {"fresh", "aged", "stale"}
    BY <1>4, <2>1, StoreType DEF MarkScanDispatched
  <2>3. QED
    BY <1>0, <1>4, <2>2, ApiTypes, SeenType
       DEF MarkScanDispatched, Leave, ApiPcs, TypeInv, TypeOK
<1>5. CASE Closing(Dispatcher)
  BY <1>0, <1>5, ClosingTypes
<1>6. CASE DispatcherAck
  <2>1. scan' \in Scan /\ lease' \in {"fresh", "aged", "stale"}
    BY <1>6, AcknowledgedType, StoreType DEF DispatcherAck
  <2>2. QED
    BY <1>0, <1>6, <2>1, ApiTypes, SeenType DEF DispatcherAck, Leave, ApiPcs, TypeInv, TypeOK
<1>7. CASE SweepFails
  <2>1. left' \in [Closers -> SUBSET Runs]
    BY <1>7 DEF SweepFails, TypeInv, TypeOK
  <2>2. QED
    BY <1>0, <1>7, <2>1, ApiTypes, SeenType, FaultType
       DEF SweepFails, Leave, ApiPcs, TypeInv, TypeOK, durable
<1>8. QED BY <1>1, <1>2, <1>3, <1>4, <1>5, <1>6, <1>7 DEF Dispatch

LEMMA CreateTypes ==
  ASSUME TypeInv, NEW c \in Creators, Create(c)
  PROVE  TypeInv'
<1>0. /\ c \in Procs \ Workers
      /\ scan \in Scan /\ seen[c] \in Scan /\ InitialScan \in Scan
  BY ConstantsAssumption, InitialScanType DEF Procs, Closers, TypeInv, TypeOK
<1>1. CASE EnqueueScan(c)
  BY <1>0, <1>1, ApiTypes, EnqueuedType DEF EnqueueScan, ApiPcs, TypeInv, TypeOK, durable
<1>2. CASE EnqueueScanFails(c)
  <2>1. queue' \in [Jobs -> Job]
    BY <1>2, EnqueuedType DEF EnqueueScanFails, TypeInv, TypeOK
  <2>2. QED
    BY <1>0, <1>2, <2>1, ApiTypes, FaultType DEF EnqueueScanFails, ApiPcs, TypeInv, TypeOK, durable
<1>3. CASE RereadScan(c)
  BY <1>0, <1>3, ApiTypes, SeenType DEF RereadScan, ApiPcs, TypeInv, TypeOK, durable
<1>4. CASE RewriteScan(c)
  <2>1. [seen[c] EXCEPT !.outcome_code = "queue_retryable_failure"] \in Scan
    BY <1>0 DEF Scan, OutcomeCodes
  <2>2. scan' \in Scan /\ lease' \in {"fresh", "aged", "stale"}
    BY <1>4, <2>1, StoreType DEF RewriteScan
  <2>3. QED
    BY <1>0, <1>4, <2>2, ApiTypes, SeenType DEF RewriteScan, Leave, ApiPcs, TypeInv, TypeOK
<1>5. QED BY <1>1, <1>2, <1>3, <1>4 DEF Create

LEMMA CancelTypes ==
  ASSUME TypeInv, NEW c \in Cancellers, Cancel(c)
  PROVE  TypeInv'
<1>0. /\ c \in Procs \ Workers /\ c \in Closers
      /\ scan \in Scan /\ seen[c] \in Scan /\ InitialScan \in Scan
  BY ConstantsAssumption, InitialScanType DEF Procs, Closers, TypeInv, TypeOK
<1>1. CASE ReadForCancel(c)
  <2>1. PICK where \in ApiPcs : Goto(c, where)
    BY <1>1 DEF ReadForCancel, ApiPcs, ClosePcs
  <2>2. SeenBy(c, scan) /\ UNCHANGED wk
    BY <1>1 DEF ReadForCancel
  <2>3. QED
    BY <1>0, <1>1, <2>1, <2>2, ApiTypes, SeenType DEF ReadForCancel, TypeInv, TypeOK, durable
<1>2. CASE RequestCancellation(c)
  <2>1. CancellationRequested(scan) \in Scan
    BY <1>0 DEF CancellationRequested, Scan, ScanState, OutcomeCodes
  <2>2. scan' \in Scan /\ lease' \in {"fresh", "aged", "stale"}
    BY <1>2, <2>1, StoreType DEF RequestCancellation, TypeInv, TypeOK
  <2>3. QED
    BY <1>0, <1>2, <2>2, ApiTypes DEF RequestCancellation, ApiPcs, TypeInv, TypeOK
<1>3. CASE AbortJob(c)
  <2> DEFINE job == seen[c].job_id
  <2>1. [queue EXCEPT ![job].abort = TRUE] \in [Jobs -> Job]
    <3>1. CASE job \in Jobs
      <4>1. [queue[job] EXCEPT !.abort = TRUE] \in Job
        BY <3>1 DEF TypeInv, TypeOK, Job
      <4>2. QED BY <3>1, <4>1 DEF TypeInv, TypeOK
    <3>2. CASE job \notin Jobs
      BY <3>2 DEF TypeInv, TypeOK
    <3>3. QED BY <3>1, <3>2
  <2>2. queue' \in [Jobs -> Job]
    BY <1>3, <2>1 DEF AbortJob, TypeInv, TypeOK
  <2>3. QED
    BY <1>0, <1>3, <2>2, ApiTypes DEF AbortJob, ApiPcs, TypeInv, TypeOK, durable
<1>4. CASE AwaitAbort(c)
  BY <1>0, <1>4, ApiTypes DEF AwaitAbort, ApiPcs, TypeInv, TypeOK, durable
<1>5. CASE RefreshAfterAbort(c)
  <2>1. PICK where \in ApiPcs : Goto(c, where)
    BY <1>5 DEF RefreshAfterAbort, ApiPcs, ClosePcs
  <2>2. SeenBy(c, scan) /\ UNCHANGED wk
    BY <1>5 DEF RefreshAfterAbort
  <2>3. QED
    BY <1>0, <1>5, <2>1, <2>2, ApiTypes, SeenType DEF RefreshAfterAbort, TypeInv, TypeOK, durable
<1>6. CASE Closing(c)
  BY <1>0, <1>6, ClosingTypes
<1>7. CASE CancelAck(c)
  <2>1. scan' \in Scan /\ lease' \in {"fresh", "aged", "stale"}
    BY <1>7, AcknowledgedType, StoreType DEF CancelAck, TypeInv, TypeOK
  <2>2. QED
    BY <1>0, <1>7, <2>1, ApiTypes, SeenType DEF CancelAck, Leave, ApiPcs, TypeInv, TypeOK
<1>8. QED BY <1>1, <1>2, <1>3, <1>4, <1>5, <1>6, <1>7 DEF Cancel

\* arq hands out and drops jobs.
LEMMA ArqTypes ==
  ASSUME TypeInv, ArqDrops \/ \E w \in Workers : Fetch(w)
  PROVE  TypeInv'
<1>1. CASE ArqDrops
  <2>1. queue' \in [Jobs -> Job]
    BY <1>1, IdleType DEF ArqDrops, DropAborted, DropExhausted, TypeInv, TypeOK, JobStatus
  <2>2. QED
    BY <1>1, <2>1 DEF ArqDrops, DropAborted, DropExhausted, TypeInv, TypeOK, durable
<1>2. CASE \E w \in Workers : Fetch(w)
  <2>1. PICK w \in Workers, job \in Jobs : Deliver(w, job)
    BY <1>2 DEF Fetch
  <2> DEFINE l == [IdleWorker EXCEPT !.job = job, !.try = queue[job].tries + 1]
  <2>2. queue[job] \in Job
    BY DEF TypeInv, TypeOK
  <2>3. l \in Worker /\ Placed("load", l)
    <3>1. queue[job].tries + 1 \in Nat
      BY <2>2 DEF Job
    <3>2. l \in Worker
      BY <3>1, IdleType DEF Worker
    <3>3. l.then = "-"
      BY DEF IdleWorker
    <3>4. QED BY <3>2, <3>3 DEF Placed, AtRun
  <2>4. Become(w, "load", l)
    BY <2>1 DEF Deliver
  <2>5. pc' \in [Procs -> WorkerPcs \cup ApiPcs] /\ wk' \in [Workers -> Worker]
    BY <2>3, <2>4, BecomeType DEF TypeInv, WorkerPcs
  <2>6. \A v \in Workers : Placed(pc[v], wk[v])'
    BY <2>3, <2>4, BecomePlaced
  <2>7. queue' \in [Jobs -> Job]
    <3> DEFINE busy == [queue[job] EXCEPT !.status = "running"]
    <3>1. queue[job].tries + 1 \in Nat /\ busy \in Job
      BY <2>2 DEF Job, JobStatus
    <3>2. [busy EXCEPT !.tries = queue[job].tries + 1] \in Job
      <4> HIDE DEF busy
      <4>1. QED BY <3>1 DEF Job
    <3>3. QED BY <2>1, <2>2, <3>2 DEF Deliver, TypeInv, TypeOK, Job
  <2>8. QED BY <2>1, <2>5, <2>6, <2>7 DEF Deliver, TypeInv, TypeOK, durable
<1>3. QED BY <1>1, <1>2

LEMMA TypeInit == Init => TypeInv
<1> SUFFICES ASSUME Init PROVE TypeInv
  OBVIOUS
<1>1. scan \in Scan /\ seen \in [Procs \ Workers -> Scan]
  BY InitialScanType DEF Init
<1>2. queue \in [Jobs -> Job] /\ wk \in [Workers -> Worker]
  BY IdleType DEF Init
<1>3. pc \in [Procs -> WorkerPcs \cup ApiPcs]
  BY DEF Init, WorkerPcs, ApiPcs
<1>4. \A w \in Workers : Placed(pc[w], wk[w])
  BY DEF Init, Placed, AtRun, IdleWorker, Procs, Closers
<1>5. faults \in 0 .. MaxFaults
  BY ConstantsAssumption DEF Init
<1>6. runs \in [Runs -> RunState] /\ left \in [Closers -> SUBSET Runs]
  BY DEF Init, RunState
<1>7. QED
  BY <1>1, <1>2, <1>3, <1>4, <1>5, <1>6 DEF Init, TypeInv, TypeOK

LEMMA TypeStep == TypeInv /\ [Next]_vars => TypeInv'
<1> SUFFICES ASSUME TypeInv, [Next]_vars PROVE TypeInv'
  OBVIOUS
<1>1. CASE \E w \in Workers : Work(w) \/ Stop(w)
  BY <1>1, WorkTypes, StopTypes
<1>2. CASE (\E w \in Workers : Heartbeat(w)) \/ LeaseAges \/ WorkerStalls
  <2>1. faults' \in 0 .. MaxFaults
    BY <1>2, FaultType DEF Heartbeat, LeaseAges, WorkerStalls, TypeInv, TypeOK
  <2>2. QED
    BY <1>2, <2>1 DEF Heartbeat, LeaseAges, WorkerStalls, TypeInv, TypeOK
<1>3. CASE UNCHANGED vars
  BY <1>3 DEF vars, TypeInv, TypeOK
<1>4. QED
  BY <1>1, <1>2, <1>3, ArqTypes, DispatchTypes, CreateTypes, CancelTypes DEF Next

\* Every reachable state is well typed.
THEOREM TypeCorrect == Spec => []TypeOK
<1>1. TypeInv => TypeOK
  BY DEF TypeInv
<1>2. QED BY <1>1, TypeInit, TypeStep, PTL DEF Spec

-------------------------------------------------------------------------------
(* The lease excludes, if RewriteRaces = FALSE. *)

\* The attempts of the workers that claimed the scan differ, and none is ahead
\* of the record, also those of workers that lost the lease long ago.
Attempts ==
  ~reused =>
    /\ \A w \in Workers : Active(w) => wk[w].attempt <= scan.worker_attempt
    /\ \A v, w \in Workers :
         Active(v) /\ Active(w) /\ wk[v].attempt = wk[w].attempt => v = w

LEMMA ActiveMeans ==
  ASSUME NEW w PROVE Active(w) <=> pc[w] # "idle" /\ ~Unclaimed(w)
  BY DEF Active, InTry, InHandler, Unclaimed, CheckPcs, ClosePcs

\* Nobody but w moves, and w does not become active, or does it keep its attempt.
Keeps(w) ==
  /\ \A v \in Workers \ {w} : pc'[v] = pc[v] /\ wk'[v] = wk[v]
  /\ w \in Workers /\ Active(w)' => Active(w) /\ wk'[w].attempt = wk[w].attempt

\* A step that keeps the attempts and the number in the record.
LEMMA KeepsAttempts ==
  ASSUME Attempts, NEW p, Keeps(p),
         reused' = reused, scan'.worker_attempt = scan.worker_attempt
  PROVE  Attempts'
<1>1. \A v \in Workers : Active(v)' => Active(v) /\ wk'[v].attempt = wk[v].attempt
  BY DEF Keeps, Active, InTry, InHandler, Unclaimed
<1>2. QED BY <1>1 DEF Attempts

LEMMA BecomeKeeps ==
  ASSUME TypeInv, NEW w \in Workers, NEW where, NEW l, Become(w, where, l),
         l.attempt = wk[w].attempt, Active(w)
  PROVE  Keeps(w)
  BY DEF TypeInv, TypeOK, Become, Goto, Keeps, Procs, Closers

LEMMA EndJobKeeps ==
  ASSUME TypeInv, NEW w \in Workers, NEW end, EndJob(w, end)
  PROVE  Keeps(w)
<1>1. pc'[w] = "idle" /\ \A v \in Workers \ {w} : pc'[v] = pc[v] /\ wk'[v] = wk[v]
  BY DEF TypeInv, TypeOK, EndJob, Procs, Closers
<1>2. ~Active(w)'
  BY <1>1 DEF Active, InTry, InHandler, CheckPcs, ClosePcs
<1>3. QED BY <1>1, <1>2 DEF Keeps

\* A worker that has not claimed and does not claim.
LEMMA UnclaimedKeeps ==
  ASSUME TypeInv, NEW w \in Workers, NEW where, NEW l, Become(w, where, l),
         where \in {"load", "claim"} \/ (where = "check" /\ l.then = "return")
  PROVE  Keeps(w)
<1>1. /\ pc'[w] = where /\ wk'[w] = l
      /\ \A v \in Workers \ {w} : pc'[v] = pc[v] /\ wk'[v] = wk[v]
  BY DEF TypeInv, TypeOK, Become, Goto, Procs, Closers
<1>2. ~Active(w)'
  BY <1>1 DEF Active, InTry, InHandler, Unclaimed, CheckPcs, ClosePcs
<1>3. QED BY <1>1, <1>2 DEF Keeps

\* A worker that moves between places of the same kind.
LEMMA GotoKeeps ==
  ASSUME TypeInv, NEW w \in Workers, NEW where, Goto(w, where), UNCHANGED wk,
         \/ pc[w] \in CheckPcs /\ where \in CheckPcs
         \/ where = "reload"
         \/ Active(w)
  PROVE  Keeps(w)
<1>1. /\ pc'[w] = where
      /\ \A v \in Workers \ {w} : pc'[v] = pc[v] /\ wk'[v] = wk[v]
  BY DEF TypeInv, TypeOK, Goto, Procs, Closers
<1>2. Active(w)' => Active(w)
  BY <1>1 DEF Active, InTry, InHandler, Unclaimed, CheckPcs, ClosePcs
<1>3. QED BY <1>1, <1>2 DEF Keeps

LEMMA ForgetKeeps ==
  ASSUME NEW l, NEW then, NEW cause
  PROVE  Forget(l, then, cause).attempt = l.attempt
  BY DEF Forget, IdleWorker

LEMMA RaiseFailureKeeps ==
  ASSUME TypeInv, NEW w \in Workers, RaiseFailure(w)
  PROVE  Keeps(w)
  BY EndJobKeeps DEF RaiseFailure

LEMMA AfterCheck ==
  ASSUME TypeInv, NEW w \in Workers, pc[w] \in CheckPcs, wk[w].then # "return"
  PROVE  Active(w)
  BY DEF Active, InTry, InHandler, Unclaimed, CheckPcs, ClosePcs

LEMMA GoOnKeeps ==
  ASSUME TypeInv, NEW w \in Workers, pc[w] \in CheckPcs, GoOn(w)
  PROVE  Keeps(w)
<1>0. wk[w] \in Worker
  BY LocalType
<1>1. CASE wk[w].then = "target" /\ \E t \in wk[w].todo : BeginTarget(w, t)
  <2>1. PICK t \in wk[w].todo : BeginTarget(w, t)
    BY <1>1
  <2> DEFINE l == [wk[w] EXCEPT !.todo = @ \ {t}, !.then = "-"]
  <2>2. l \in Worker /\ l.attempt = wk[w].attempt
    BY <1>0 DEF Worker, Then
  <2>3. PICK where, m : Become(w, where, m) /\ m.attempt = wk[w].attempt
    <3> HIDE DEF l
    <3>1. BeginTarget(w, t) <=> IF Remaining(l, t) = {} THEN NextTarget(w, l)
                                ELSE Become(w, "announce", [l EXCEPT !.plan = Remaining(l, t)])
      BY DEF BeginTarget, l
    <3>2. /\ [l EXCEPT !.plan = Remaining(l, t)].attempt = wk[w].attempt
          /\ [l EXCEPT !.run = NoRun, !.then = "-"].attempt = wk[w].attempt
          /\ [l EXCEPT !.run = NoRun, !.then = "target"].attempt = wk[w].attempt
      BY <2>2 DEF Worker
    <3>3. QED BY <2>1, <3>1, <3>2 DEF NextTarget
  <2>4. QED BY <1>1, <2>3, AfterCheck, BecomeKeeps
<1>2. CASE /\ wk[w].then \in Steps \ {"target"}
           /\ Become(w, wk[w].then, [wk[w] EXCEPT !.then = "-"])
  <2>1. [wk[w] EXCEPT !.then = "-"].attempt = wk[w].attempt
    BY <1>0 DEF Worker
  <2>2. QED BY <1>2, <2>1, AfterCheck, BecomeKeeps DEF Steps
<1>3. CASE wk[w].then = "leave" /\ Become(w, "fail", Forget(wk[w], "-", wk[w].cause))
  BY <1>3, AfterCheck, BecomeKeeps, ForgetKeeps
<1>4. CASE RaiseFailure(w) \/ EndJob(w, "gone") \/ EndJob(w, EndAfterCause(wk[w].cause))
  BY <1>4, EndJobKeeps, RaiseFailureKeeps
<1>5. QED BY <1>1, <1>2, <1>3, <1>4 DEF GoOn

LEMMA StopAtKeeps ==
  ASSUME TypeInv, NEW w \in Workers, NEW s, pc[w] \in CheckPcs, StopAt(w, s)
  PROVE  Keeps(w)
<1>1. CASE /\ wk[w].then \in {"announce", "start"}
           /\ Become(w, "check", Forget(wk[w], "abort", wk[w].cause))
  BY <1>1, AfterCheck, BecomeKeeps, ForgetKeeps
<1>2. CASE RaiseFailure(w) \/ \E end : EndJob(w, end)
  BY <1>2, EndJobKeeps, RaiseFailureKeeps
<1>3. QED BY <1>1, <1>2 DEF StopAt

LEMMA CancelTaskKeeps ==
  ASSUME TypeInv, NEW w \in Workers, NEW cause, CancelTask(w, cause)
  PROVE  Keeps(w)
<1>1. CASE InTry(w) /\ Become(w, "check", Forget(wk[w], "abort", cause))
  BY <1>1, BecomeKeeps, ForgetKeeps DEF Active
<1>2. CASE EndJob(w, EndAfterCause(cause))
  BY <1>2, EndJobKeeps
<1>3. QED BY <1>1, <1>2 DEF CancelTask

\* Only a claim changes the attempt number of the record.
LEMMA NumberKept ==
  ASSUME NEW s \in Scan, NEW n, NEW state, NEW code
  PROVE  /\ Finished(s, n, state, code).worker_attempt = s.worker_attempt
         /\ CancellationRequested(s).worker_attempt = s.worker_attempt
         /\ CancellationAcknowledged(s).worker_attempt = s.worker_attempt
         /\ Dispatched(s, n).worker_attempt = s.worker_attempt
         /\ Recovered(s, n).worker_attempt = s.worker_attempt
  BY DEF Scan, Finished, CancellationRequested, CancellationAcknowledged, Dispatched, Recovered

-------------------------------------------------------------------------------
LEMMA ClaimExcludes ==
  ASSUME TypeInv, Attempts, NEW w \in Workers, ClaimScan(w)
  PROVE  Attempts'
<1>0. scan \in Scan /\ w \in Procs /\ \A v \in Workers : wk[v].attempt \in Nat
  BY DEF TypeInv, TypeOK, Worker, Procs, Closers
<1>1. CASE Goto(w, "reload") /\ UNCHANGED <<scan, reused>>
  BY <1>0, <1>1, GotoKeeps, KeepsAttempts DEF ClaimScan
<1>2. CASE /\ scan' = Claimed(scan, wk[w].attempt)
           /\ reused' = (reused \/ wk[w].attempt <= scan.worker_attempt)
           /\ Goto(w, "list")
  <2>1. scan'.worker_attempt = wk[w].attempt
    BY <1>0, <1>2 DEF Claimed, Scan
  <2>2. UNCHANGED wk /\ \A v \in Workers \ {w} : Active(v)' => Active(v)
    <3>1. UNCHANGED wk /\ \A v \in Workers \ {w} : pc'[v] = pc[v]
      BY <1>2 DEF ClaimScan, Goto, TypeInv, TypeOK, Procs, Closers
    <3>2. QED BY <3>1 DEF Active, InTry, InHandler, Unclaimed
  <2>3. SUFFICES ASSUME ~reused'
                 PROVE  /\ \A v \in Workers : Active(v)' => wk'[v].attempt <= scan'.worker_attempt
                        /\ \A u, v \in Workers :
                             Active(u)' /\ Active(v)' /\ wk'[u].attempt = wk'[v].attempt => u = v
    BY DEF Attempts
  <2>4. ~reused /\ scan.worker_attempt < wk[w].attempt /\ scan.worker_attempt \in Nat
    <3>1. ~reused /\ ~(wk[w].attempt <= scan.worker_attempt)
      BY <1>2, <2>3, Zenon
    <3>2. scan.worker_attempt \in Nat /\ wk[w].attempt \in Nat
      BY <1>0 DEF Scan
    <3>3. QED BY <3>1, <3>2
  <2>5. \A v \in Workers \ {w} : Active(v)' => wk[v].attempt < wk[w].attempt
    BY <1>0, <2>2, <2>4 DEF Attempts
  <2>6. \A v \in Workers : Active(v)' => wk'[v].attempt <= scan'.worker_attempt
    BY <1>0, <2>1, <2>2, <2>5
  <2>7. ASSUME NEW u \in Workers, NEW v \in Workers, Active(u)', Active(v)',
               wk'[u].attempt = wk'[v].attempt
        PROVE  u = v
    BY <1>0, <2>2, <2>4, <2>5, <2>7 DEF Attempts
  <2>8. QED BY <2>6, <2>7
<1>3. QED BY <1>1, <1>2 DEF ClaimScan, Store

\* A worker past its claim keeps its attempt until the job ends.
LEMMA WorkKeeps ==
  ASSUME TypeInv, NEW w \in Workers, Work(w), ~ClaimScan(w)
  PROVE  Keeps(w)
<1>0. wk[w] \in Worker /\ scan \in Scan /\ w \in Procs
  BY LocalType DEF TypeInv, TypeOK, Procs, Closers
<1>1. CASE Load(w) \/ Reload(w)
  <2>1. [wk[w] EXCEPT !.then = "return"].then = "return"
    BY <1>0 DEF Worker
  <2>2. QED BY <1>1, <2>1, EndJobKeeps, UnclaimedKeeps DEF Load, Reload
<1>2. CASE ListRuns(w) \/ AddFinding(w) \/ LosesFence(w) \/ AddEvent(w)
  <2>1. Active(w)
    BY <1>2 DEF ListRuns, AddFinding, LosesFence, AddEvent, Fenced, Active, InTry, InHandler,
                Unclaimed, CheckPcs, ClosePcs
  <2>2. CASE \E where, l : Become(w, where, l) /\ l.attempt = wk[w].attempt
    BY <2>1, <2>2, BecomeKeeps
  <2>3. CASE \E where : Goto(w, where) /\ UNCHANGED wk
    BY <1>0, <2>1, <2>3, GotoKeeps
  <2>4. CASE ListRuns(w)
    <3> DEFINE l == [wk[w] EXCEPT !.todo = Targets, !.then = "target",
                                  !.known = [r \in Runs |->
                                     IF runs[r] \in DoneRun THEN runs[r] ELSE "none"]]
    <3>1. Become(w, "check", l) /\ l.attempt = wk[w].attempt
      BY <1>0, <2>4 DEF ListRuns, Worker
    <3>2. QED BY <2>2, <3>1
  <2>5. CASE AddFinding(w)
    <3>1. [wk[w] EXCEPT !.then = "record"].attempt = wk[w].attempt
      BY <1>0 DEF Worker
    <3>2. QED BY <2>1, <2>5, <3>1, BecomeKeeps DEF AddFinding
  <2>6. CASE LosesFence(w)
    BY <2>1, <2>6, BecomeKeeps, ForgetKeeps DEF LosesFence
  <2>7. CASE AddEvent(w)
    <3>1. [wk[w] EXCEPT !.then = "-"].attempt = wk[w].attempt
      BY <1>0 DEF Worker
    <3>2. QED BY <2>2, <2>3, <2>7, <3>1 DEF AddEvent
  <2>8. QED BY <1>2, <2>4, <2>5, <2>6, <2>7
<1>3. CASE Check(w)
  BY <1>0, <1>3, StopAtKeeps, GoOnKeeps, GotoKeeps DEF Check, CheckPcs, ClosePcs
<1>4. CASE \E r \in Runs : Announce(w, r) \/ Start(w, r)
  <2>1. PICK r \in Runs : Announce(w, r) \/ Start(w, r)
    BY <1>4
  <2>2. Active(w)
    BY <2>1 DEF Announce, Start, Fenced, Active, InTry, InHandler, Unclaimed, CheckPcs, ClosePcs
  <2>3. /\ [wk[w] EXCEPT !.then = "start",
                         !.plan = Remaining(wk[w], TargetOf[r])].attempt = wk[w].attempt
        /\ [wk[w] EXCEPT !.then = "announce", !.plan = wk[w].plan \ {r}].attempt = wk[w].attempt
        /\ [wk[w] EXCEPT !.then = "execute", !.run = r, !.plan = @ \ {r}].attempt = wk[w].attempt
    BY <1>0 DEF Worker
  <2>4. PICK l : Become(w, "event", l) /\ l.attempt = wk[w].attempt
    BY <2>1, <2>3 DEF Announce, Start
  <2>5. QED BY <2>2, <2>4, BecomeKeeps
<1>5. CASE \E o \in AdapterOutcomes : Execute(w, o)
  <2>1. PICK o \in AdapterOutcomes : Execute(w, o)
    BY <1>5
  <2>2. Active(w)
    BY <2>1 DEF Execute, Active, InTry, InHandler, Unclaimed, CheckPcs, ClosePcs
  <2> DEFINE l == [wk[w] EXCEPT !.got[wk[w].run] = o]
  <2>3. l.attempt = wk[w].attempt /\ DOMAIN l = DOMAIN wk[w]
    BY <1>0 DEF Worker
  <2>4. PICK m : Become(w, "check", m) /\ m.attempt = wk[w].attempt
    <3>1. /\ [l EXCEPT !.then = "start", !.run = NoRun].attempt = wk[w].attempt
          /\ \A r : [l EXCEPT !.then = StepFor(l, r), !.run = r].attempt = wk[w].attempt
      BY <1>0, <2>3 DEF Worker
    <3>2. QED BY <2>1, <3>1 DEF Execute
  <2>5. QED BY <2>2, <2>4, BecomeKeeps
<1>6. CASE RecordRun(w)
  <2>1. Active(w)
    BY <1>6 DEF RecordRun, Fenced, Active, InTry, InHandler, Unclaimed, CheckPcs, ClosePcs
  <2> DEFINE r == wk[w].run
             l == [wk[w] EXCEPT !.known[r] = wk[w].got[r], !.got[r] = "none", !.run = NoRun]
  <2>2. l.attempt = wk[w].attempt /\ DOMAIN l = DOMAIN wk[w]
    BY <1>0 DEF Worker
  <2>3. PICK m : Become(w, "event", m) /\ m.attempt = wk[w].attempt
    <3>1. /\ [l EXCEPT !.then = IF l.todo = {} THEN "finish" ELSE "target"].attempt = wk[w].attempt
          /\ \A q : [l EXCEPT !.then = StepFor(l, q), !.run = q].attempt = wk[w].attempt
      BY <1>0, <2>2 DEF Worker
    <3>2. QED BY <1>6, <3>1 DEF RecordRun
  <2>4. QED BY <2>1, <2>3, BecomeKeeps
<1>7. CASE FinishScan(w) \/ FailScan(w)
  <2>1. Active(w)
    BY <1>7 DEF FinishScan, FailScan, Active, InTry, InHandler, Unclaimed, CheckPcs, ClosePcs
  <2>2. /\ [wk[w] EXCEPT !.then = "leave"].attempt = wk[w].attempt
        /\ [wk[w] EXCEPT !.then = "failed"].attempt = wk[w].attempt
    BY <1>0 DEF Worker
  <2>3. QED
    BY <1>7, <2>1, <2>2, BecomeKeeps, EndJobKeeps, RaiseFailureKeeps DEF FinishScan, FailScan
<1>8. CASE Closing(w)
  <2>1. PICK where \in CheckPcs : Goto(w, where) /\ UNCHANGED wk
    BY <1>8 DEF Closing, CloseList, CloseWrite, CheckPcs, ClosePcs
  <2>2. pc[w] \in CheckPcs
    BY <1>8 DEF Closing, CloseList, CloseWrite, CheckPcs, ClosePcs
  <2>3. QED BY <1>0, <2>1, <2>2, GotoKeeps
<1>9. CASE WorkerAck(w)
  BY <1>9, StopAtKeeps, GoOnKeeps DEF WorkerAck, CheckPcs, ClosePcs
<1>10. QED
  BY <1>1, <1>2, <1>3, <1>4, <1>5, <1>6, <1>7, <1>8, <1>9 DEF Work

LEMMA WorkExcludes ==
  ASSUME TypeInv, Attempts, NEW w \in Workers, Work(w)
  PROVE  Attempts'
<1>0. scan \in Scan
  BY DEF TypeInv, TypeOK
<1>1. CASE ClaimScan(w)
  BY <1>1, ClaimExcludes
<1>2. ASSUME ~ClaimScan(w)
      PROVE  reused' = reused /\ scan'.worker_attempt = scan.worker_attempt
  <2>1. CASE FinishScan(w) \/ FailScan(w) \/ WorkerAck(w)
    <3>1. \/ \E n, state, code : scan' = Finished(scan, n, state, code)
          \/ scan' = CancellationAcknowledged(scan)
      BY <2>1, StoreIfChangedStores DEF FinishScan, FailScan, WorkerAck
    <3>2. QED BY <1>0, <2>1, <3>1, NumberKept DEF FinishScan, FailScan, WorkerAck
  <2>2. CASE ~(FinishScan(w) \/ FailScan(w) \/ WorkerAck(w))
    BY <1>2, <2>2 DEF Work, Load, Reload, ListRuns, Check, Announce, Start, Execute, AddEvent,
       AddFinding, RecordRun, LosesFence, Closing, CloseList, CloseWrite, durable
  <2>3. QED BY <2>1, <2>2
<1>3. QED BY <1>1, <1>2, WorkKeeps, KeepsAttempts

LEMMA StopKeeps ==
  ASSUME TypeInv, NEW w \in Workers, Stop(w)
  PROVE  Keeps(w)
<1>1. CASE LeaseLost(w) \/ AbortTask(w) \/ JobTimeout(w)
  <2>1. PICK cause : CancelTask(w, cause)
    BY <1>1 DEF LeaseLost, AbortTask, JobTimeout
  <2>2. QED BY <2>1, CancelTaskKeeps
<1>2. CASE Crash(w)
  BY <1>2, EndJobKeeps DEF Crash
<1>3. CASE StoreFails(w)
  <2>1. CASE InTry(w) /\ Become(w, "fail", Forget(wk[w], "-", wk[w].cause))
    BY <2>1, BecomeKeeps, ForgetKeeps DEF Active
  <2>2. CASE EndJob(w, "gone") \/ RaiseFailure(w)
    BY <2>2, EndJobKeeps, RaiseFailureKeeps
  <2>3. QED BY <1>3, <2>1, <2>2 DEF StoreFails
<1>4. QED BY <1>1, <1>2, <1>3 DEF Stop

LEMMA StopExcludes ==
  ASSUME TypeInv, Attempts, NEW w \in Workers, Stop(w)
  PROVE  Attempts'
<1>1. UNCHANGED <<scan, reused>>
  BY DEF Stop, LeaseLost, AbortTask, JobTimeout, Crash, StoreFails, durable
<1>2. QED BY <1>1, StopKeeps, KeepsAttempts

\* A step of the API moves one of its processes, and no worker.
LEMMA ApiKeeps ==
  ASSUME TypeInv, NEW p \in Procs \ Workers, NEW where, Goto(p, where), UNCHANGED wk
  PROVE  Keeps(p)
  BY DEF Keeps, Goto, TypeInv, TypeOK, Procs, Closers

LEMMA ApiMoves ==
  ASSUME \/ Dispatch \/ SweepFails
         \/ \E c \in Creators : Create(c)
         \/ \E c \in Cancellers : Cancel(c)
  PROVE  \E p \in Procs \ Workers : UNCHANGED wk /\ \E where : Goto(p, where)
<1>1. CASE Dispatch \/ SweepFails
  <2>1. Dispatcher \in Procs \ Workers
    BY ConstantsAssumption DEF Procs, Closers
  <2>2. UNCHANGED wk /\ \E where : Goto(Dispatcher, where)
    BY <1>1 DEF Dispatch, Sweep, RecoverStaleScan, EnqueueRepair, MarkScanDispatched,
       Closing, CloseList, CloseWrite, DispatcherAck, SweepFails, Leave
  <2>3. QED BY <2>1, <2>2
<1>2. CASE \E c \in Creators : Create(c)
  <2>1. PICK c \in Creators : Create(c)
    BY <1>2
  <2>2. c \in Procs \ Workers
    BY ConstantsAssumption DEF Procs, Closers
  <2>3. UNCHANGED wk /\ \E where : Goto(c, where)
    BY <2>1 DEF Create, EnqueueScan, EnqueueScanFails, RereadScan, RewriteScan, Leave
  <2>4. QED BY <2>2, <2>3
<1>3. CASE \E c \in Cancellers : Cancel(c)
  <2>1. PICK c \in Cancellers : Cancel(c)
    BY <1>3
  <2>2. c \in Procs \ Workers
    BY ConstantsAssumption DEF Procs, Closers
  <2>3. UNCHANGED wk /\ \E where : Goto(c, where)
    BY <2>1 DEF Cancel, ReadForCancel, RequestCancellation, AbortJob, AwaitAbort,
       RefreshAfterAbort, Closing, CloseList, CloseWrite, CancelAck, Leave
  <2>4. QED BY <2>2, <2>3
<1>4. QED BY <1>1, <1>2, <1>3

\* No step of the API or of arq moves a worker that claimed.
LEMMA ApiExcludes ==
  ASSUME TypeInv, Attempts, ~RewriteRaces,
         \/ Dispatch \/ SweepFails
         \/ \E c \in Creators : Create(c)
         \/ \E c \in Cancellers : Cancel(c)
  PROVE  Attempts'
<1>0. scan \in Scan
  BY DEF TypeInv, TypeOK
<1>1. PICK p \in Procs \ Workers : UNCHANGED wk /\ \E where : Goto(p, where)
  BY ApiMoves
<1>2. Keeps(p)
  BY <1>1, ApiKeeps
<1>3. reused' = reused /\ scan'.worker_attempt = scan.worker_attempt
  <2>1. CASE Dispatch \/ SweepFails
    <3>1. \/ UNCHANGED scan
          \/ scan' = CancellationAcknowledged(scan)
          \/ \E n : scan' = Recovered(scan, n) \/ scan' = Dispatched(scan, n)
      BY <2>1, StoreIfChangedStores
         DEF Dispatch, Sweep, RecoverStaleScan, EnqueueRepair, MarkScanDispatched,
             Closing, CloseList, CloseWrite, DispatcherAck, SweepFails, Store, durable
    <3>2. reused' = reused
      BY <2>1 DEF Dispatch, Sweep, RecoverStaleScan, EnqueueRepair, MarkScanDispatched,
             Closing, CloseList, CloseWrite, DispatcherAck, SweepFails
    <3>3. QED BY <1>0, <3>1, <3>2, NumberKept
  <2>2. CASE \E c \in Creators : Create(c)
    BY <1>0, <2>2 DEF Create, EnqueueScan, EnqueueScanFails, RereadScan, RewriteScan, Store,
       durable, Scan
  <2>3. CASE \E c \in Cancellers : Cancel(c)
    <3>1. \/ UNCHANGED scan
          \/ scan' = CancellationAcknowledged(scan)
          \/ scan' = CancellationRequested(scan)
      BY <2>3, StoreIfChangedStores
         DEF Cancel, ReadForCancel, RequestCancellation, AbortJob, AwaitAbort,
             RefreshAfterAbort, Closing, CloseList, CloseWrite, CancelAck, Store, durable
    <3>2. reused' = reused
      BY <2>3 DEF Cancel, ReadForCancel, RequestCancellation, AbortJob, AwaitAbort,
             RefreshAfterAbort, Closing, CloseList, CloseWrite, CancelAck
    <3>3. QED BY <1>0, <3>1, <3>2, NumberKept
  <2>4. QED BY <2>1, <2>2, <2>3
<1>4. QED BY <1>2, <1>3, KeepsAttempts

LEMMA FetchExcludes ==
  ASSUME TypeInv, Attempts, NEW w \in Workers, Fetch(w)
  PROVE  Attempts'
<1>1. PICK job \in Jobs : Deliver(w, job)
  BY DEF Fetch
<1>2. PICK l : Become(w, "load", l)
  BY <1>1 DEF Deliver
<1>3. QED BY <1>1, <1>2, UnclaimedKeeps, KeepsAttempts DEF Deliver, durable

LEMMA AttemptsInit == Init => Attempts
  BY DEF Init, Attempts, Active, InTry, InHandler, Procs, Closers, CheckPcs, ClosePcs

LEMMA AttemptsNext ==
  ASSUME ~RewriteRaces, TypeInv, Attempts, [Next]_vars
  PROVE  Attempts'
<1>1. CASE UNCHANGED <<scan, pc, wk, reused>>
  BY <1>1 DEF Attempts, Active, InTry, InHandler, Unclaimed
<1>2. ASSUME (\E w \in Workers : Heartbeat(w)) \/ ArqDrops \/ LeaseAges \/ WorkerStalls
             \/ UNCHANGED vars
      PROVE  UNCHANGED <<scan, pc, wk, reused>>
  BY <1>2 DEF Heartbeat, ArqDrops, DropAborted, DropExhausted, LeaseAges, WorkerStalls, vars,
              durable
<1>3. QED
  BY <1>1, <1>2, WorkExcludes, StopExcludes, ApiExcludes, FetchExcludes DEF Next

\* Two workers never pass the fence of the store together, however many jobs
\* of the scan are delivered and however late a worker that lost the lease
\* notices it, unless an attempt number was installed twice.
THEOREM LeaseExcludes ==
  ASSUME ~RewriteRaces
  PROVE  Spec => []LeaseExclusive
<1>1. TypeInv /\ Attempts /\ [Next]_vars => Attempts'
  BY AttemptsNext
<1>2. Attempts => LeaseExclusive
  BY DEF Attempts, LeaseExclusive, Holds, HoldsLease
<1>3. QED BY <1>1, <1>2, TypeInit, TypeStep, AttemptsInit, PTL DEF Spec

-------------------------------------------------------------------------------
(* Findings before runs.                                                   *)
\* A worker about to record a run that found something has stored its finding.
Ready(where, l) ==
  (where = "record" \/ l.then = "record") /\ l.got[l.run] = "succeeded" => l.run \in graph

Prepared == FindingsBeforeRun /\ \A w \in Workers : Ready(pc[w], wk[w])

\* The step of one worker keeps what the others rely on.
Readies(w) ==
  /\ Ready(pc[w], wk[w])'
  /\ \A v \in Workers : v # w => pc'[v] = pc[v] /\ wk'[v] = wk[v]

LEMMA ReadiesPrepared ==
  ASSUME Prepared, NEW w, Readies(w), graph \subseteq graph',
         \A r \in Runs : runs'[r] = "succeeded" => runs[r] = "succeeded" \/ r \in graph'
  PROVE  Prepared'
<1>1. FindingsBeforeRun'
  BY DEF Prepared, FindingsBeforeRun
<1>2. \A v \in Workers : Ready(pc[v], wk[v])'
  BY DEF Prepared, Readies, Ready
<1>3. QED
  BY <1>1, <1>2 DEF Prepared

LEMMA BecomeLocal ==
  ASSUME TypeInv, NEW w \in Workers, NEW l, NEW where, Become(w, where, l)
  PROVE  /\ pc'[w] = where /\ wk'[w] = l
         /\ \A v \in Workers : v # w => pc'[v] = pc[v] /\ wk'[v] = wk[v]
  BY DEF Become, Goto, TypeInv, TypeOK, Procs, Closers

LEMMA BecomeReadies ==
  ASSUME TypeInv, NEW w \in Workers, NEW l, NEW where, Become(w, where, l),
         (where # "record" /\ l.then # "record") \/ l.got[l.run] # "succeeded" \/ l.run \in graph'
  PROVE  Readies(w)
  BY BecomeLocal DEF Readies, Ready

LEMMA BecomeStaysReady ==
  ASSUME TypeInv, Prepared, NEW w \in Workers, NEW l, NEW where, Become(w, where, l),
         where = "record" \/ l.then = "record" => pc[w] = "record" \/ wk[w].then = "record",
         l.got = wk[w].got, l.run = wk[w].run, graph \subseteq graph'
  PROVE  Readies(w)
  BY BecomeLocal DEF Readies, Ready, Prepared

LEMMA ForgetReadies ==
  ASSUME TypeInv, NEW w \in Workers, NEW where, where # "record", NEW then \in Then, then # "record",
         NEW cause \in {"none", "cancelled", "abort", "timeout"},
         Become(w, where, Forget(wk[w], then, cause))
  PROVE  Readies(w)
<1>1. Forget(wk[w], then, cause).then = then
  BY LocalType, ForgetType
<1>2. QED
  BY <1>1, BecomeReadies

LEMMA EndJobReadies ==
  ASSUME TypeInv, NEW w \in Workers, NEW end, EndJob(w, end)
  PROVE  Readies(w)
<1>1. /\ pc'[w] = "idle" /\ wk'[w] = IdleWorker
      /\ \A v \in Workers : v # w => pc'[v] = pc[v] /\ wk'[v] = wk[v]
  BY DEF EndJob, TypeInv, TypeOK, Procs, Closers
<1>2. IdleWorker.then = "-"
  BY DEF IdleWorker
<1>3. QED
  BY <1>1, <1>2 DEF Readies, Ready

LEMMA RaiseFailureReadies ==
  ASSUME TypeInv, NEW w \in Workers, RaiseFailure(w)
  PROVE  Readies(w)
  BY EndJobReadies DEF RaiseFailure

\* A process that only moves, and not to the recording of a run.
LEMMA GotoReadies ==
  ASSUME TypeInv, Prepared, NEW w \in Workers, NEW where, where # "record", Goto(w, where),
         UNCHANGED wk, graph \subseteq graph'
  PROVE  Readies(w)
<1>1. pc'[w] = where /\ \A v \in Workers : v # w => pc'[v] = pc[v]
  BY DEF Goto, TypeInv, TypeOK, Procs, Closers
<1>2. QED
  BY <1>1 DEF Readies, Ready, Prepared

LEMMA OthersPrepared ==
  ASSUME TypeInv, Prepared, NEW p, p \notin Workers, NEW where, Goto(p, where), UNCHANGED <<wk, graph>>,
         \A r \in Runs : runs'[r] = "succeeded" => runs[r] = "succeeded"
  PROVE  Prepared'
<1>1. \A v \in Workers : pc'[v] = pc[v]
  BY DEF Goto, TypeInv, TypeOK, Procs, Closers
<1>2. QED
  BY <1>1 DEF Prepared, FindingsBeforeRun, Ready

LEMMA BeginTargetReadies ==
  ASSUME TypeInv, Prepared, NEW w \in Workers, NEW t, BeginTarget(w, t), UNCHANGED graph
  PROVE  Readies(w)
<1> DEFINE l == [wk[w] EXCEPT !.todo = @ \ {t}, !.then = "-"]
<1>1. l.then = "-"
  BY LocalType DEF Worker
<1>2. CASE Remaining(l, t) = {}
  <2>1. NextTarget(w, l)
    BY <1>2 DEF BeginTarget
  <2>2. /\ [l EXCEPT !.run = NoRun, !.then = "-"].then = "-"
        /\ [l EXCEPT !.run = NoRun, !.then = "target"].then = "target"
    BY LocalType DEF Worker
  <2> HIDE DEF l
  <2>3. QED
    BY <2>1, <2>2, BecomeReadies DEF NextTarget
<1>3. CASE Remaining(l, t) # {}
  <2>1. Become(w, "announce", [l EXCEPT !.plan = Remaining(l, t)])
    BY <1>3 DEF BeginTarget
  <2>2. [l EXCEPT !.plan = Remaining(l, t)].then = "-"
    BY LocalType DEF Worker
  <2> HIDE DEF l
  <2>3. QED
    BY <2>1, <2>2, BecomeReadies
<1>4. QED
  BY <1>2, <1>3

LEMMA GoOnReadies ==
  ASSUME TypeInv, Prepared, NEW w \in Workers, GoOn(w), UNCHANGED graph
  PROVE  Readies(w)
<1>0. wk[w] \in Worker
  BY LocalType
<1>1. CASE \E t \in wk[w].todo : BeginTarget(w, t)
  BY <1>1, BeginTargetReadies
<1>2. CASE Become(w, wk[w].then, [wk[w] EXCEPT !.then = "-"])
  <2> DEFINE l == [wk[w] EXCEPT !.then = "-"]
  <2>1. l.then = "-" /\ l.got = wk[w].got /\ l.run = wk[w].run
    BY <1>0 DEF Worker
  <2> HIDE DEF l
  <2>2. Become(w, wk[w].then, l)
    BY <1>2 DEF l
  <2>3. QED
    BY <2>1, <2>2, BecomeStaysReady
<1>3. CASE Become(w, "fail", Forget(wk[w], "-", wk[w].cause))
  BY <1>0, <1>3, ForgetReadies DEF Worker, Then
<1>4. CASE RaiseFailure(w) \/ EndJob(w, "gone") \/ EndJob(w, EndAfterCause(wk[w].cause))
  BY <1>4, EndJobReadies, RaiseFailureReadies
<1>5. QED
  BY <1>1, <1>2, <1>3, <1>4 DEF GoOn

LEMMA StopAtReadies ==
  ASSUME TypeInv, NEW w \in Workers, NEW s, StopAt(w, s)
  PROVE  Readies(w)
<1>1. CASE Become(w, "check", Forget(wk[w], "abort", wk[w].cause))
  BY <1>1, LocalType, ForgetReadies DEF Worker, Then
<1>2. CASE RaiseFailure(w) \/ \E end : EndJob(w, end)
  BY <1>2, EndJobReadies, RaiseFailureReadies
<1>3. QED
  BY <1>1, <1>2 DEF StopAt

LEMMA CancelTaskReadies ==
  ASSUME TypeInv, NEW w \in Workers,
         NEW cause \in {"none", "cancelled", "abort", "timeout"}, CancelTask(w, cause)
  PROVE  Readies(w)
<1>1. CASE Become(w, "check", Forget(wk[w], "abort", cause))
  BY <1>1, ForgetReadies DEF Then
<1>2. CASE EndJob(w, EndAfterCause(cause))
  BY <1>2, EndJobReadies
<1>3. QED
  BY <1>1, <1>2 DEF CancelTask

LEMMA WorkPrepared ==
  ASSUME TypeInv, Prepared, NEW w \in Workers, Work(w)
  PROVE  Prepared'
<1>0. wk[w] \in Worker /\ w \in Procs
  BY LocalType DEF Procs, Closers
<1>a. ASSUME UNCHANGED <<runs, graph>>, Readies(w) PROVE Prepared'
  BY <1>a, ReadiesPrepared
<1>1. CASE Load(w)
  <2>1. CASE EndJob(w, "gone")
    BY <1>1, <1>a, <2>1, EndJobReadies DEF Load, durable
  <2>2. CASE Become(w, "check", [wk[w] EXCEPT !.then = "return"])
    <3>1. [wk[w] EXCEPT !.then = "return"].then = "return"
      BY <1>0 DEF Worker
    <3>2. QED
      BY <1>1, <1>a, <2>2, <3>1, BecomeReadies DEF Load, durable
  <2>3. CASE Become(w, "claim", [wk[w] EXCEPT !.attempt = WorkerAttempt(scan, wk[w].try)])
    <3> DEFINE l == [wk[w] EXCEPT !.attempt = WorkerAttempt(scan, wk[w].try)]
    <3>1. l.then = wk[w].then /\ l.got = wk[w].got /\ l.run = wk[w].run
      BY <1>0 DEF Worker
    <3> HIDE DEF l
    <3>2. Become(w, "claim", l)
      BY <2>3 DEF l
    <3>3. QED
      BY <1>1, <1>a, <3>1, <3>2, BecomeStaysReady DEF Load, durable
  <2>4. QED
    BY <1>1, <2>1, <2>2, <2>3 DEF Load
<1>2. CASE ClaimScan(w)
  <2>1. PICK where \in {"list", "reload"} : Goto(w, where)
    BY <1>2 DEF ClaimScan
  <2>2. QED
    BY <1>2, <1>a, <2>1, GotoReadies DEF ClaimScan
<1>3. CASE Reload(w)
  <2>1. [wk[w] EXCEPT !.then = "return"].then = "return"
    BY <1>0 DEF Worker
  <2>2. QED
    BY <1>3, <1>a, <2>1, EndJobReadies, BecomeReadies DEF Reload, durable
<1>4. CASE ListRuns(w)
  <2> DEFINE l == [wk[w] EXCEPT !.todo = Targets, !.then = "target",
                     !.known = [r \in Runs |-> IF runs[r] \in DoneRun THEN runs[r] ELSE "none"]]
  <2>1. l.then = "target"
    BY <1>0 DEF Worker
  <2>2. Become(w, "check", l)
    BY <1>4 DEF ListRuns
  <2> HIDE DEF l
  <2>3. QED
    BY <1>4, <1>a, <2>1, <2>2, BecomeReadies DEF ListRuns, durable
<1>5. CASE Check(w)
  <2>1. CASE Goto(w, "closelist") /\ UNCHANGED wk
    BY <1>5, <1>a, <2>1, GotoReadies DEF Check, durable
  <2>2. CASE StopAt(w, scan) \/ GoOn(w)
    BY <1>5, <1>a, <2>2, StopAtReadies, GoOnReadies DEF Check, durable
  <2>3. QED
    BY <1>5, <2>1, <2>2 DEF Check
<1>6. ASSUME NEW r \in Runs, Announce(w, r) PROVE Prepared'
  <2> DEFINE next == [wk[w] EXCEPT !.then = "start", !.plan = Remaining(wk[w], TargetOf[r])]
             more == [wk[w] EXCEPT !.then = "announce", !.plan = wk[w].plan \ {r}]
  <2>1. next.then = "start" /\ more.then = "announce"
    BY <1>0 DEF Worker
  <2>2. Become(w, "event", next) \/ Become(w, "event", more)
    BY <1>6 DEF Announce
  <2> HIDE DEF next, more
  <2>3. Readies(w)
    BY <2>1, <2>2, BecomeReadies
  <2>4. \A q \in Runs : runs'[q] = "succeeded" => runs[q] = "succeeded"
    BY <1>6 DEF Announce, TypeInv, TypeOK
  <2>5. QED
    BY <1>6, <2>3, <2>4, ReadiesPrepared DEF Announce
<1>7. ASSUME NEW r \in Runs, Start(w, r) PROVE Prepared'
  <2> DEFINE l == [wk[w] EXCEPT !.then = "execute", !.run = r, !.plan = @ \ {r}]
  <2>1. l.then = "execute"
    BY <1>0 DEF Worker
  <2>2. Become(w, "event", l)
    BY <1>7 DEF Start
  <2> HIDE DEF l
  <2>3. Readies(w)
    BY <2>1, <2>2, BecomeReadies
  <2>4. \A q \in Runs : runs'[q] = "succeeded" => runs[q] = "succeeded"
    BY <1>7 DEF Start, TypeInv, TypeOK
  <2>5. QED
    BY <1>7, <2>3, <2>4, ReadiesPrepared DEF Start
<1>8. ASSUME NEW o \in AdapterOutcomes, Execute(w, o) PROVE Prepared'
  <2> DEFINE l == [wk[w] EXCEPT !.got[wk[w].run] = o]
             next == [l EXCEPT !.then = "start", !.run = NoRun]
             first(r) == [l EXCEPT !.then = StepFor(l, r), !.run = r]
  <2>1. next.then = "start"
    BY <1>0 DEF Worker
  <2>2. ASSUME NEW r PROVE first(r).then = StepFor(l, r) /\ first(r).run = r /\ first(r).got = l.got
    BY <1>0 DEF Worker
  <2>3. Become(w, "check", next) \/ \E r : Become(w, "check", first(r))
    BY <1>8 DEF Execute
  <2> HIDE DEF next, first, l
  <2>4. ASSUME NEW r, Become(w, "check", first(r)) PROVE Readies(w)
    <3>1. StepFor(l, r) = "record" => l.got[r] # "succeeded"
      BY DEF StepFor
    <3>2. QED
      BY <2>2, <2>4, <3>1, BecomeReadies
  <2>5. Readies(w)
    BY <2>1, <2>3, <2>4, BecomeReadies
  <2>6. QED
    BY <1>8, <1>a, <2>5 DEF Execute, durable
<1>9. CASE AddEvent(w)
  <2> DEFINE l == [wk[w] EXCEPT !.then = "-"]
  <2>1. l.then = "-"
    BY <1>0 DEF Worker
  <2>2. \/ wk[w].then # "record" /\ Become(w, wk[w].then, l)
        \/ Goto(w, "check") /\ UNCHANGED wk
    BY <1>9 DEF AddEvent
  <2> HIDE DEF l
  <2>3. QED
    BY <1>9, <1>a, <2>1, <2>2, BecomeReadies, GotoReadies DEF AddEvent, durable
<1>10. CASE AddFinding(w)
  <2> DEFINE l == [wk[w] EXCEPT !.then = "record"]
  <2>1. l.run = wk[w].run
    BY <1>0 DEF Worker
  <2>2. Become(w, "check", l) /\ graph' = graph \cup {wk[w].run} /\ UNCHANGED runs
    BY <1>10 DEF AddFinding
  <2> HIDE DEF l
  <2>3. Readies(w)
    BY <2>1, <2>2, BecomeReadies
  <2>4. QED
    BY <2>2, <2>3, ReadiesPrepared
<1>11. CASE RecordRun(w)
  <2> DEFINE r == wk[w].run
             l == [wk[w] EXCEPT !.known[r] = wk[w].got[r], !.got[r] = "none", !.run = NoRun]
             next(q) == [l EXCEPT !.then = StepFor(l, q), !.run = q]
             done == [l EXCEPT !.then = IF l.todo = {} THEN "finish" ELSE "target"]
  <2>1. done.then # "record"
    BY <1>0 DEF Worker
  <2>2. ASSUME NEW q PROVE next(q).then = StepFor(l, q) /\ next(q).run = q /\ next(q).got = l.got
    BY <1>0 DEF Worker
  <2>3. Become(w, "event", done) \/ \E q : Become(w, "event", next(q))
    BY <1>11 DEF RecordRun
  <2> HIDE DEF next, done, l
  <2>4. ASSUME NEW q, Become(w, "event", next(q)) PROVE Readies(w)
    <3>1. StepFor(l, q) = "record" => l.got[q] # "succeeded"
      BY DEF StepFor
    <3>2. QED
      BY <2>2, <2>4, <3>1, BecomeReadies
  <2>5. Readies(w)
    BY <2>1, <2>3, <2>4, BecomeReadies
  <2>6. pc[w] = "record" /\ runs' = [runs EXCEPT ![r] = wk[w].got[r]] /\ UNCHANGED graph
    BY <1>11 DEF RecordRun, Fenced
  <2>7. \A q \in Runs : runs'[q] = "succeeded" => runs[q] = "succeeded" \/ q \in graph'
    BY <2>6 DEF Prepared, Ready, TypeInv, TypeOK
  <2>8. QED
    BY <2>5, <2>6, <2>7, ReadiesPrepared
<1>12. CASE LosesFence(w)
  BY <1>0, <1>12, <1>a, ForgetReadies DEF LosesFence, durable, Worker, Then
<1>13. CASE FinishScan(w)
  <2>1. [wk[w] EXCEPT !.then = "leave"].then = "leave"
    BY <1>0 DEF Worker
  <2>2. QED
    BY <1>13, <1>a, <2>1, EndJobReadies, BecomeReadies DEF FinishScan
<1>14. CASE FailScan(w)
  <2>1. [wk[w] EXCEPT !.then = "failed"].then = "failed"
    BY <1>0 DEF Worker
  <2>2. QED
    BY <1>14, <1>a, <2>1, RaiseFailureReadies, BecomeReadies DEF FailScan
<1>15. CASE CloseList(w)
  BY <1>15, <1>a, GotoReadies DEF CloseList, durable
<1>16. ASSUME NEW r \in Runs, CloseWrite(w, r) PROVE Prepared'
  <2>1. \A q \in Runs : runs'[q] = "succeeded" => runs[q] = "succeeded"
    BY <1>16 DEF CloseWrite, TypeInv, TypeOK
  <2>2. Readies(w)
    BY <1>16, GotoReadies DEF CloseWrite
  <2>3. QED
    BY <1>16, <2>1, <2>2, ReadiesPrepared DEF CloseWrite
<1>17. CASE WorkerAck(w)
  BY <1>17, <1>a, StopAtReadies, GoOnReadies DEF WorkerAck
<1>18. QED
  BY <1>1, <1>2, <1>3, <1>4, <1>5, <1>6, <1>7, <1>8, <1>9, <1>10, <1>11, <1>12, <1>13,
     <1>14, <1>15, <1>16, <1>17 DEF Work, Closing

LEMMA StopPrepared ==
  ASSUME TypeInv, Prepared, NEW w \in Workers, Stop(w) \/ Fetch(w)
  PROVE  Prepared'
<1>0. wk[w] \in Worker /\ wk[w].cause \in {"none", "cancelled", "abort", "timeout"}
  BY LocalType DEF Worker
<1>1. UNCHANGED <<runs, graph>>
  BY DEF Stop, Fetch, Deliver, LeaseLost, AbortTask, JobTimeout, Crash, StoreFails, durable
<1>2. Readies(w)
  <2>1. CASE LeaseLost(w) \/ AbortTask(w) \/ JobTimeout(w)
    BY <1>0, <2>1, CancelTaskReadies DEF LeaseLost, AbortTask, JobTimeout
  <2>2. CASE Crash(w)
    BY <2>2, EndJobReadies DEF Crash
  <2>3. CASE StoreFails(w)
    BY <1>0, <2>3, EndJobReadies, RaiseFailureReadies, ForgetReadies DEF StoreFails, Then
  <2>4. ASSUME NEW job, Deliver(w, job) PROVE Readies(w)
    <3> DEFINE l == [IdleWorker EXCEPT !.job = job, !.try = queue[job].tries + 1]
    <3>1. l.then = "-"
      BY DEF IdleWorker
    <3>2. Become(w, "load", l)
      BY <2>4 DEF Deliver
    <3> HIDE DEF l
    <3>3. QED
      BY <3>1, <3>2, BecomeReadies
  <2>5. QED
    BY <2>1, <2>2, <2>3, <2>4 DEF Stop, Fetch
<1>3. QED
  BY <1>1, <1>2, ReadiesPrepared

LEMMA ApiPrepared ==
  ASSUME TypeInv, Prepared,
         \/ Dispatch \/ SweepFails
         \/ \E c \in Creators : Create(c)
         \/ \E c \in Cancellers : Cancel(c)
  PROVE  Prepared'
<1>1. UNCHANGED <<wk, graph>>
  BY DEF Dispatch, Sweep, RecoverStaleScan, EnqueueRepair, MarkScanDispatched, Closing, CloseList,
         CloseWrite, DispatcherAck, SweepFails, Create, EnqueueScan, EnqueueScanFails, RereadScan,
         RewriteScan, Cancel, ReadForCancel, RequestCancellation, AbortJob, AwaitAbort,
         RefreshAfterAbort, CancelAck, durable
<1>2. PICK p : p \notin Workers /\ \E where : Goto(p, where)
  <2>1. CASE Dispatch \/ SweepFails
    <3>1. Dispatcher \notin Workers
      BY ConstantsAssumption
    <3>2. \E where : Goto(Dispatcher, where)
      BY <2>1 DEF Dispatch, Sweep, RecoverStaleScan, EnqueueRepair, MarkScanDispatched,
         Closing, CloseList, CloseWrite, DispatcherAck, SweepFails, Leave
    <3>3. QED BY <3>1, <3>2
  <2>2. ASSUME NEW c \in Creators, Create(c) PROVE c \notin Workers /\ \E where : Goto(c, where)
    <3>1. c \notin Workers
      BY ConstantsAssumption DEF Closers
    <3>2. \E where : Goto(c, where)
      BY <2>2 DEF Create, EnqueueScan, EnqueueScanFails, RereadScan, RewriteScan, Leave
    <3>3. QED BY <3>1, <3>2
  <2>3. ASSUME NEW c \in Cancellers, Cancel(c) PROVE c \notin Workers /\ \E where : Goto(c, where)
    <3>1. c \notin Workers
      BY ConstantsAssumption
    <3>2. \E where : Goto(c, where)
      BY <2>3 DEF Cancel, ReadForCancel, RequestCancellation, AbortJob, AwaitAbort,
         RefreshAfterAbort, Closing, CloseList, CloseWrite, CancelAck, Leave
    <3>3. QED BY <3>1, <3>2
  <2>4. QED BY <2>1, <2>2, <2>3
<1>3. \A r \in Runs : runs'[r] = "succeeded" => runs[r] = "succeeded"
  <2>1. UNCHANGED runs \/ \E q, r : CloseWrite(q, r)
    BY DEF Dispatch, Sweep, RecoverStaleScan, EnqueueRepair, MarkScanDispatched, Closing, CloseList,
           DispatcherAck, SweepFails, Create, EnqueueScan, EnqueueScanFails, RereadScan,
           RewriteScan, Cancel, ReadForCancel, RequestCancellation, AbortJob, AwaitAbort,
           RefreshAfterAbort, CancelAck, durable
  <2>2. QED
    BY <2>1 DEF CloseWrite, TypeInv, TypeOK
<1>4. QED
  BY <1>1, <1>2, <1>3, OthersPrepared

LEMMA PreparedInit == Init => Prepared
<1> SUFFICES ASSUME Init PROVE Prepared
  OBVIOUS
<1>1. \A w \in Workers : pc[w] = "idle" /\ wk[w] = IdleWorker
  BY DEF Init, Procs, Closers
<1>2. IdleWorker.then = "-"
  BY DEF IdleWorker
<1>3. FindingsBeforeRun
  BY DEF Init, FindingsBeforeRun
<1>4. QED
  BY <1>1, <1>2, <1>3 DEF Prepared, Ready

LEMMA PreparedStep == TypeInv /\ Prepared /\ [Next]_vars => Prepared'
<1> SUFFICES ASSUME TypeInv, Prepared, [Next]_vars PROVE Prepared'
  OBVIOUS
<1>1. CASE UNCHANGED <<runs, graph, pc, wk>>
  BY <1>1 DEF Prepared, FindingsBeforeRun, Ready
<1>2. ASSUME (\E w \in Workers : Heartbeat(w)) \/ ArqDrops \/ LeaseAges \/ WorkerStalls
             \/ UNCHANGED vars
      PROVE  UNCHANGED <<runs, graph, pc, wk>>
  BY <1>2 DEF Heartbeat, ArqDrops, DropAborted, DropExhausted, LeaseAges, WorkerStalls, vars,
              durable
<1>3. QED
  BY <1>1, <1>2, WorkPrepared, StopPrepared, ApiPrepared DEF Next

\* However workers are retried, lose their lease or die between the two calls, no run
\* is stored as succeeded before its finding is in the evidence graph.
THEOREM FindingsFirst == Spec => []FindingsBeforeRun
<1>1. Prepared => FindingsBeforeRun
  BY DEF Prepared
<1>2. QED
  BY <1>1, TypeInit, TypeStep, PreparedInit, PreparedStep, PTL DEF Spec

-------------------------------------------------------------------------------
(* Cancelled scans. *)
\* Closing processes, and cancel requests that will close whatever they read.
Committed(p) == pc[p] \in ClosePcs \cup {"abort", "await", "confirm"}

\* A closer works on a frozen record.  Once it listed the runs it has every
\* open one before it, and none when it acknowledges.
SafeCloser(p) ==
  /\ Committed(p) => Frozen(scan)
  /\ pc[p] = "closewrite" => LiveRuns \subseteq left[p]
  /\ pc[p] = "closeack" => LiveRuns = {}

ClosingSafe == CancelledRunsClosed /\ \A p \in Closers : SafeCloser(p)

\* What any step must do for ClosingSafe to survive it: a frozen record stays
\* frozen and opens no run, and only p moves.
LEMMA ClosingStep ==
  ASSUME ClosingSafe, NEW p,
         Frozen(scan) => Frozen(scan') /\ LiveRuns' \subseteq LiveRuns,
         scan'.state = "cancelled" => scan.state = "cancelled" \/ LiveRuns' = {},
         \A q \in Closers \ {p} : pc'[q] = pc[q] /\ left'[q] = left[q],
         p \in Closers => SafeCloser(p)'
  PROVE  ClosingSafe'
<1>1. CancelledRunsClosed'
  BY DEF ClosingSafe, CancelledRunsClosed, Frozen, Terminal, TerminalScanStates
<1>2. \A q \in Closers : SafeCloser(q)'
  BY DEF ClosingSafe, SafeCloser, Committed, ClosePcs
<1>3. QED BY <1>1, <1>2 DEF ClosingSafe

\* Steps that leave record and runs alone and commit nobody.
LEMMA QuietStep ==
  ASSUME ClosingSafe, NEW p, UNCHANGED <<scan, runs>>,
         \A q \in Closers \ {p} : pc'[q] = pc[q] /\ left'[q] = left[q],
         p \in Closers => ~Committed(p)'
  PROVE  ClosingSafe'
<1>1. LiveRuns' = LiveRuns
  BY DEF LiveRuns
<1>2. p \in Closers => SafeCloser(p)'
  BY DEF SafeCloser, Committed, ClosePcs
<1>3. QED BY <1>1, <1>2, ClosingStep

\* Only w moves, and not to a place where it is committed.
Leaves(w) ==
  /\ ~Committed(w)'
  /\ \A q \in Closers \ {w} : pc'[q] = pc[q] /\ left'[q] = left[q]

LEMMA BecomeLeaves ==
  ASSUME TypeInv, NEW w \in Workers, NEW where, NEW l, Become(w, where, l), UNCHANGED left,
         where \notin ClosePcs \cup {"abort", "await", "confirm"}
  PROVE  Leaves(w)
  BY DEF TypeInv, TypeOK, Become, Goto, Leaves, Committed, Procs, Closers

LEMMA GotoLeaves ==
  ASSUME TypeInv, NEW p \in Procs, NEW where, Goto(p, where), UNCHANGED left,
         where \notin ClosePcs \cup {"abort", "await", "confirm"}
  PROVE  Leaves(p)
  BY DEF TypeInv, TypeOK, Goto, Leaves, Committed, Procs, Closers

LEMMA EndJobLeaves ==
  ASSUME TypeInv, NEW w \in Workers, NEW end, EndJob(w, end)
  PROVE  Leaves(w)
  BY DEF TypeInv, TypeOK, EndJob, Leaves, Committed, ClosePcs, Procs, Closers

LEMMA RaiseFailureLeaves ==
  ASSUME TypeInv, NEW w \in Workers, RaiseFailure(w)
  PROVE  Leaves(w)
  BY EndJobLeaves DEF RaiseFailure

LEMMA GoOnLeaves ==
  ASSUME TypeInv, NEW w \in Workers, GoOn(w)
  PROVE  Leaves(w)
<1> USE DEF ClosePcs
<1>1. CASE /\ \E t \in wk[w].todo : BeginTarget(w, t)
           /\ UNCHANGED <<left, queue>>
  <2>1. PICK where \in {"finish", "check", "announce"} : \E l : Become(w, where, l)
    BY <1>1 DEF BeginTarget, NextTarget
  <2>2. QED BY <1>1, <2>1, BecomeLeaves
<1>2. CASE /\ wk[w].then \in Steps \ {"target"}
           /\ Become(w, wk[w].then, [wk[w] EXCEPT !.then = "-"])
           /\ UNCHANGED <<left, queue>>
  BY <1>2, BecomeLeaves DEF Steps
<1>3. CASE /\ Become(w, "fail", Forget(wk[w], "-", wk[w].cause))
           /\ UNCHANGED <<left, queue>>
  BY <1>3, BecomeLeaves
<1>4. CASE RaiseFailure(w) \/ \E end \in JobStatus : EndJob(w, end)
  BY <1>4, EndJobLeaves, RaiseFailureLeaves
<1>5. "gone" \in JobStatus /\ EndAfterCause(wk[w].cause) \in JobStatus
  BY EndAfterCauseType DEF JobStatus
<1>6. QED BY <1>1, <1>2, <1>3, <1>4, <1>5 DEF GoOn

LEMMA StopAtLeaves ==
  ASSUME TypeInv, NEW w \in Workers, NEW s, StopAt(w, s)
  PROVE  Leaves(w)
<1>1. CASE /\ Become(w, "check", Forget(wk[w], "abort", wk[w].cause))
           /\ UNCHANGED <<left, queue>>
  BY <1>1, BecomeLeaves DEF ClosePcs
<1>2. CASE RaiseFailure(w) \/ \E end \in JobStatus : EndJob(w, end)
  BY <1>2, EndJobLeaves, RaiseFailureLeaves
<1>3. "gone" \in JobStatus /\ EndAfterCause(wk[w].cause) \in JobStatus
  BY EndAfterCauseType DEF JobStatus
<1>4. QED BY <1>1, <1>2, <1>3 DEF StopAt

LEMMA CancelTaskLeaves ==
  ASSUME TypeInv, NEW w \in Workers, NEW cause, CancelTask(w, cause)
  PROVE  Leaves(w)
<1>1. CASE /\ Become(w, "check", Forget(wk[w], "abort", cause))
           /\ left' = [left EXCEPT ![w] = {}]
  BY <1>1 DEF TypeInv, TypeOK, Become, Goto, Leaves, Committed, ClosePcs, Procs, Closers
<1>2. CASE EndJob(w, EndAfterCause(cause))
  BY <1>2, EndJobLeaves
<1>3. QED BY <1>1, <1>2 DEF CancelTask

\* A quiet step of a process that leaves.
LEMMA LeavesQuietly ==
  ASSUME ClosingSafe, NEW p, Leaves(p), UNCHANGED <<scan, runs>>
  PROVE  ClosingSafe'
  BY QuietStep DEF Leaves

\* A step of a process that leaves and writes the record or a run.
LEMMA LeavesWriting ==
  ASSUME ClosingSafe, NEW p, Leaves(p),
         Frozen(scan) => Frozen(scan') /\ LiveRuns' \subseteq LiveRuns,
         scan'.state = "cancelled" => scan.state = "cancelled" \/ LiveRuns' = {}
  PROVE  ClosingSafe'
<1>1. p \in Closers => SafeCloser(p)'
  BY DEF Leaves, SafeCloser, Committed, ClosePcs
<1>2. QED BY <1>1, ClosingStep DEF Leaves

-------------------------------------------------------------------------------
(* The steps of the processes *)

\* The closing itself, by any process: list, close one by one.
LEMMA ClosingClosing ==
  ASSUME TypeInv, ClosingSafe, NEW p \in Closers, Closing(p)
  PROVE  ClosingSafe'
<1>0. p \in Procs /\ Frozen(scan) /\ UNCHANGED scan
  BY DEF Closing, CloseList, CloseWrite, ClosingSafe, SafeCloser, Committed, ClosePcs,
         Procs, durable
<1>1. \A q \in Closers \ {p} : pc'[q] = pc[q] /\ left'[q] = left[q]
  <2>1. PICK where : Goto(p, where)
    BY DEF Closing, CloseList, CloseWrite
  <2>2. PICK rest : left' = [left EXCEPT ![p] = rest]
    BY DEF Closing, CloseList, CloseWrite
  <2>3. QED BY <2>1, <2>2 DEF Goto, TypeInv, TypeOK, Procs
<1>2. CASE CloseList(p)
  <2>1. LiveRuns' = LiveRuns
    BY <1>2 DEF CloseList, durable, LiveRuns
  <2>2. /\ pc'[p] = (IF LiveRuns = {} THEN "closeack" ELSE "closewrite")
        /\ left'[p] = LiveRuns
    BY <1>0, <1>2 DEF CloseList, Goto, TypeInv, TypeOK
  <2>3. SafeCloser(p)'
    BY <1>0, <2>1, <2>2 DEF SafeCloser
  <2>4. QED BY <1>0, <1>1, <2>1, <2>3, ClosingStep
<1>3. CASE \E r \in Runs : CloseWrite(p, r)
  <2>1. PICK r \in Runs : CloseWrite(p, r)
    BY <1>3
  <2>2. LiveRuns' = LiveRuns \ {r}
    BY <2>1 DEF CloseWrite, LiveRuns, LiveRun, TypeInv, TypeOK
  <2>3. /\ pc'[p] = (IF left[p] = {r} THEN "closeack" ELSE "closewrite")
        /\ left'[p] = left[p] \ {r}
    BY <1>0, <2>1 DEF CloseWrite, Goto, TypeInv, TypeOK
  <2>4. LiveRuns \subseteq left[p]
    BY <2>1 DEF CloseWrite, ClosingSafe, SafeCloser
  <2>5. SafeCloser(p)'
    BY <1>0, <2>2, <2>3, <2>4 DEF SafeCloser
  <2>6. QED BY <1>0, <1>1, <2>2, <2>5, ClosingStep
<1>4. QED BY <1>2, <1>3 DEF Closing

\* An acknowledgement after the closing.
LEMMA Acknowledging ==
  ASSUME TypeInv, ClosingSafe, NEW p, Leaves(p), UNCHANGED runs, LiveRuns = {},
         scan' = CancellationAcknowledged(scan) \/ scan' = scan
  PROVE  ClosingSafe'
<1>1. LiveRuns' = {}
  BY DEF LiveRuns
<1>2. Frozen(scan) => Frozen(scan')
  <2>1. scan \in Scan
    BY DEF TypeInv, TypeOK
  <2>2. QED
    BY <2>1 DEF CancellationAcknowledged, Frozen, Terminal, TerminalScanStates, Scan
<1>3. QED BY <1>1, <1>2, LeavesWriting

\* A fenced write needs a record that is not frozen.
LEMMA FencedThaws ==
  ASSUME NEW w, NEW step, Fenced(w, step) PROVE ~Frozen(scan)
  BY DEF Fenced, HoldsLease, Frozen, Terminal, TerminalScanStates

\* The fenced end of an attempt does not touch a frozen record.
LEMMA FinishedFreezes ==
  ASSUME NEW s \in Scan, NEW n, NEW state, NEW code, state # "cancelled"
  PROVE  /\ Frozen(s) => Frozen(Finished(s, n, state, code))
         /\ Finished(s, n, state, code).state = "cancelled" => s.state = "cancelled"
  BY DEF Finished, HoldsLease, Frozen, Terminal, TerminalScanStates, Scan

LEMMA WorkCloses ==
  ASSUME TypeInv, ClosingSafe, NEW w \in Workers, Work(w)
  PROVE  ClosingSafe'
<1> USE DEF ClosePcs
<1>0. w \in Procs /\ w \in Closers /\ scan \in Scan
  BY DEF Procs, Closers, TypeInv, TypeOK
<1>1. CASE Load(w)
  BY <1>1, EndJobLeaves, BecomeLeaves, LeavesQuietly DEF Load, durable
<1>2. CASE ClaimScan(w)
  <2>1. Leaves(w)
    BY <1>0, <1>2, GotoLeaves DEF ClaimScan
  <2>2. UNCHANGED runs /\ LiveRuns' = LiveRuns
    BY <1>2 DEF ClaimScan, LiveRuns
  <2>3. CASE Claimable(scan, wk[w].attempt) /\ Store(Claimed(scan, wk[w].attempt))
    <3>1. ~Frozen(scan)
      BY <2>3 DEF Claimable, Frozen, Terminal, TerminalScanStates
    <3>2. scan'.state = "running"
      BY <1>0, <2>3 DEF Store, Claimed, Scan
    <3>3. QED BY <2>1, <2>2, <3>1, <3>2, LeavesWriting
  <2>4. CASE UNCHANGED scan
    BY <2>1, <2>2, <2>4, LeavesQuietly
  <2>5. QED BY <1>2, <2>3, <2>4 DEF ClaimScan
<1>3. CASE Reload(w)
  BY <1>3, EndJobLeaves, BecomeLeaves, LeavesQuietly DEF Reload, durable
<1>4. CASE ListRuns(w)
  BY <1>4, BecomeLeaves, LeavesQuietly DEF ListRuns, durable
<1>5. CASE Check(w)
  <2>1. UNCHANGED <<scan, runs>>
    BY <1>5 DEF Check, durable
  <2>2. CASE scan.cancel_requested /\ Goto(w, "closelist") /\ UNCHANGED left
    <3>1. \A q \in Closers \ {w} : pc'[q] = pc[q] /\ left'[q] = left[q]
      BY <2>2 DEF Goto, TypeInv, TypeOK
    <3>2. SafeCloser(w)'
      BY <1>0, <2>1, <2>2 DEF Goto, TypeInv, TypeOK, SafeCloser, Frozen
    <3>3. LiveRuns' = LiveRuns
      BY <2>1 DEF LiveRuns
    <3>4. QED BY <2>1, <3>1, <3>2, <3>3, ClosingStep
  <2>3. CASE StopAt(w, scan) \/ GoOn(w)
    BY <2>1, <2>3, StopAtLeaves, GoOnLeaves, LeavesQuietly
  <2>4. QED BY <1>5, <2>2, <2>3 DEF Check
<1>6. CASE \E r \in Runs : Announce(w, r) \/ Start(w, r)
  <2>1. PICK r \in Runs : Announce(w, r) \/ Start(w, r)
    BY <1>6
  <2>2. ~Frozen(scan) /\ UNCHANGED scan
    BY <2>1, FencedThaws DEF Announce, Start
  <2>3. Leaves(w)
    BY <2>1, BecomeLeaves DEF Announce, Start
  <2>4. QED BY <2>2, <2>3, LeavesWriting DEF Frozen, Terminal, TerminalScanStates
<1>7. CASE \E o \in AdapterOutcomes : Execute(w, o)
  <2>1. PICK l : Become(w, "check", l)
    BY <1>7 DEF Execute
  <2>2. UNCHANGED <<scan, runs, left>>
    BY <1>7 DEF Execute, durable
  <2>3. QED BY <2>1, <2>2, BecomeLeaves, LeavesQuietly
<1>8. CASE AddEvent(w)
  <2>1. Leaves(w)
    BY <1>0, <1>8, BecomeLeaves, GotoLeaves DEF AddEvent
  <2>2. QED BY <1>8, <2>1, LeavesQuietly DEF AddEvent, durable
<1>9. CASE AddFinding(w)
  BY <1>9, BecomeLeaves, LeavesQuietly DEF AddFinding
<1>10. CASE RecordRun(w)
  <2>1. ~Frozen(scan) /\ UNCHANGED scan
    BY <1>10, FencedThaws DEF RecordRun
  <2>2. Leaves(w)
    <3>1. PICK l : Become(w, "event", l)
      BY <1>10 DEF RecordRun
    <3>2. QED BY <1>10, <3>1, BecomeLeaves DEF RecordRun
  <2>3. QED BY <2>1, <2>2, LeavesWriting DEF Frozen, Terminal, TerminalScanStates
<1>11. CASE LosesFence(w)
  BY <1>11, BecomeLeaves, LeavesQuietly DEF LosesFence, durable
<1>12. CASE FinishScan(w)
  <2> DEFINE code == FinalCode(wk[w].known)
  <2>1. scan' = Finished(scan, wk[w].attempt, StateOfCode(code), code) /\ LiveRuns' = LiveRuns
    BY <1>12, StoreIfChangedStores DEF FinishScan, LiveRuns
  <2>2. Leaves(w)
    BY <1>12, BecomeLeaves, EndJobLeaves DEF FinishScan
  <2>3. StateOfCode(code) # "cancelled"
    BY DEF StateOfCode
  <2>4. QED BY <1>0, <2>1, <2>2, <2>3, LeavesWriting, FinishedFreezes
<1>13. CASE FailScan(w)
  <2> DEFINE state == IF FinalAttempt(w) THEN "failed" ELSE "running"
             code == IF FinalAttempt(w) THEN "worker_failure" ELSE "retryable_worker_failure"
  <2>1. scan' = Finished(scan, wk[w].attempt, state, code) /\ LiveRuns' = LiveRuns
    BY <1>13, StoreIfChangedStores DEF FailScan, LiveRuns
  <2>2. Leaves(w)
    BY <1>13, BecomeLeaves, RaiseFailureLeaves DEF FailScan
  <2>3. state # "cancelled"
    OBVIOUS
  <2>4. QED BY <1>0, <2>1, <2>2, <2>3, LeavesWriting, FinishedFreezes
<1>14. CASE Closing(w)
  BY <1>0, <1>14, ClosingClosing
<1>15. CASE WorkerAck(w)
  <2>1. scan' = CancellationAcknowledged(scan) /\ UNCHANGED runs
    BY <1>15, StoreIfChangedStores DEF WorkerAck
  <2>2. LiveRuns = {}
    BY <1>0, <1>15 DEF WorkerAck, ClosingSafe, SafeCloser
  <2>3. Leaves(w)
    BY <1>15, StopAtLeaves, GoOnLeaves DEF WorkerAck
  <2>4. QED BY <2>1, <2>2, <2>3, Acknowledging
<1>16. QED BY <1>1, <1>2, <1>3, <1>4, <1>5, <1>6, <1>7, <1>8, <1>9, <1>10, <1>11,
              <1>12, <1>13, <1>14, <1>15 DEF Work

LEMMA StopCloses ==
  ASSUME TypeInv, ClosingSafe, NEW w \in Workers, Stop(w)
  PROVE  ClosingSafe'
<1>1. UNCHANGED <<scan, runs>>
  BY DEF Stop, LeaseLost, AbortTask, JobTimeout, Crash, StoreFails, durable
<1>2. CASE LeaseLost(w) \/ AbortTask(w) \/ JobTimeout(w)
  <2>1. PICK cause : CancelTask(w, cause)
    BY <1>2 DEF LeaseLost, AbortTask, JobTimeout
  <2>2. QED BY <1>1, <2>1, CancelTaskLeaves, LeavesQuietly
<1>3. CASE Crash(w)
  BY <1>1, <1>3, EndJobLeaves, LeavesQuietly DEF Crash
<1>4. CASE StoreFails(w)
  <2>1. CASE /\ Become(w, "fail", Forget(wk[w], "-", wk[w].cause))
             /\ left' = [left EXCEPT ![w] = {}]
    <3>1. Leaves(w)
      BY <2>1 DEF TypeInv, TypeOK, Become, Goto, Leaves, Committed, ClosePcs, Procs, Closers
    <3>2. QED BY <1>1, <3>1, LeavesQuietly
  <2>2. CASE EndJob(w, "gone") \/ RaiseFailure(w)
    BY <1>1, <2>2, EndJobLeaves, RaiseFailureLeaves, LeavesQuietly
  <2>3. QED BY <1>4, <2>1, <2>2 DEF StoreFails
<1>5. QED BY <1>2, <1>3, <1>4 DEF Stop

LEMMA DispatchCloses ==
  ASSUME TypeInv, ClosingSafe, Dispatch \/ SweepFails
  PROVE  ClosingSafe'
<1> USE DEF ClosePcs
<1>0. Dispatcher \in Procs /\ Dispatcher \in Closers /\ scan \in Scan
  BY DEF Procs, Closers, TypeInv, TypeOK
<1>1. CASE Sweep
  <2>1. UNCHANGED <<scan, runs, left>> /\ LiveRuns' = LiveRuns
    BY <1>1 DEF Sweep, LiveRuns
  <2>2. CASE scan.cancel_requested
    <3>1. Goto(Dispatcher, "closelist")
      BY <1>1, <2>2 DEF Sweep
    <3>2. \A q \in Closers \ {Dispatcher} : pc'[q] = pc[q] /\ left'[q] = left[q]
      BY <2>1, <3>1 DEF Goto, TypeInv, TypeOK, Procs
    <3>3. SafeCloser(Dispatcher)'
      BY <1>0, <2>1, <2>2, <3>1 DEF Goto, TypeInv, TypeOK, SafeCloser, Frozen
    <3>4. QED BY <2>1, <3>2, <3>3, ClosingStep
  <2>3. CASE ~scan.cancel_requested
    <3>1. PICK where \in {"recover", "enqueue"} : Goto(Dispatcher, where)
      BY <1>1, <2>3 DEF Sweep
    <3>2. QED BY <1>0, <2>1, <3>1, GotoLeaves, LeavesQuietly
  <2>4. QED BY <2>2, <2>3
<1>2. CASE RecoverStaleScan
  <2>1. Leaves(Dispatcher)
    <3>1. PICK where \in {"enqueue", "sweep"} : Goto(Dispatcher, where)
      BY <1>2 DEF RecoverStaleScan, Leave
    <3>2. QED BY <1>0, <1>2, <3>1, GotoLeaves DEF RecoverStaleScan
  <2>2. LiveRuns' = LiveRuns /\ UNCHANGED runs
    BY <1>2 DEF RecoverStaleScan, LiveRuns
  <2>3. CASE UNCHANGED scan
    BY <2>1, <2>2, <2>3, LeavesQuietly
  <2>4. CASE \E job : Recoverable(scan) /\ Store(Recovered(scan, job))
    <3>1. ~Frozen(scan)
      BY <2>4 DEF Recoverable, Frozen, Terminal, TerminalScanStates
    <3>2. scan'.state = "queued"
      BY <1>0, <2>4 DEF Store, Recovered, Scan
    <3>3. QED BY <2>1, <2>2, <3>1, <3>2, LeavesWriting
  <2>5. QED BY <1>2, <2>3, <2>4 DEF RecoverStaleScan
<1>3. CASE EnqueueRepair
  <2>1. PICK where \in {"mark", "sweep"} : Goto(Dispatcher, where)
    BY <1>3 DEF EnqueueRepair, Leave
  <2>2. QED
    BY <1>0, <1>3, <2>1, GotoLeaves, LeavesQuietly DEF EnqueueRepair, durable
<1>4. CASE MarkScanDispatched
  <2> DEFINE s == Dispatched(scan, seen[Dispatcher].job_id)
  <2>1. scan' = s /\ LiveRuns' = LiveRuns
    BY <1>4, StoreIfChangedStores DEF MarkScanDispatched, LiveRuns
  <2>2. Leaves(Dispatcher)
    BY <1>0, <1>4, GotoLeaves DEF MarkScanDispatched, Leave
  <2>3. s.state = scan.state /\ s.cancel_requested = scan.cancel_requested
    BY <1>0 DEF Dispatched, Scan
  <2>4. QED BY <2>1, <2>2, <2>3, LeavesWriting DEF Frozen, Terminal
<1>5. CASE Closing(Dispatcher)
  BY <1>0, <1>5, ClosingClosing
<1>6. CASE DispatcherAck
  <2>1. scan' = CancellationAcknowledged(scan) /\ UNCHANGED runs
    BY <1>6, StoreIfChangedStores DEF DispatcherAck
  <2>2. LiveRuns = {}
    BY <1>0, <1>6 DEF DispatcherAck, ClosingSafe, SafeCloser
  <2>3. Leaves(Dispatcher)
    BY <1>0, <1>6, GotoLeaves DEF DispatcherAck, Leave
  <2>4. QED BY <2>1, <2>2, <2>3, Acknowledging
<1>7. CASE SweepFails
  <2>1. Leaves(Dispatcher)
    BY <1>0, <1>7 DEF SweepFails, Leave, Goto, TypeInv, TypeOK, Leaves, Committed, Procs, Closers
  <2>2. QED BY <1>7, <2>1, LeavesQuietly DEF SweepFails, durable
<1>8. QED BY <1>1, <1>2, <1>3, <1>4, <1>5, <1>6, <1>7 DEF Dispatch

\* The create handler closes nothing; its rewrite does not thaw a record that
\* has not changed since it was read.
LEMMA CreateCloses ==
  ASSUME ~RewriteRaces, TypeInv, ClosingSafe, NEW c \in Creators, Create(c)
  PROVE  ClosingSafe'
<1>0. c \in Procs /\ c \notin Closers /\ scan \in Scan
  BY ConstantsAssumption DEF Procs, TypeInv, TypeOK
<1>1. UNCHANGED <<runs, left>> /\ LiveRuns' = LiveRuns
  BY DEF Create, EnqueueScan, EnqueueScanFails, RereadScan, RewriteScan, durable, LiveRuns
<1>2. \A q \in Closers : pc'[q] = pc[q] /\ left'[q] = left[q]
  <2>1. PICK where : Goto(c, where)
    BY DEF Create, EnqueueScan, EnqueueScanFails, RereadScan, RewriteScan, Leave
  <2>2. QED BY <1>0, <1>1, <2>1 DEF Goto, TypeInv, TypeOK, Procs
<1>3. scan'.state = scan.state /\ scan'.cancel_requested = scan.cancel_requested
  BY <1>0 DEF Create, EnqueueScan, EnqueueScanFails, RereadScan, RewriteScan, durable,
              Store, Scan
<1>4. QED BY <1>0, <1>1, <1>2, <1>3, ClosingStep DEF Frozen, Terminal

LEMMA CancelCloses ==
  ASSUME TypeInv, ClosingSafe, NEW c \in Cancellers, Cancel(c)
  PROVE  ClosingSafe'
<1> USE DEF ClosePcs
<1>0. c \in Procs /\ c \in Closers /\ scan \in Scan
  BY DEF Procs, Closers, TypeInv, TypeOK
<1>1. CASE Closing(c)
  BY <1>0, <1>1, ClosingClosing
<1>2. CASE CancelAck(c)
  <2>1. scan' = CancellationAcknowledged(scan) \/ scan' = scan
    BY <1>2, StoreIfChangedStores DEF CancelAck
  <2>2. LiveRuns = {} /\ UNCHANGED runs
    BY <1>0, <1>2 DEF CancelAck, ClosingSafe, SafeCloser
  <2>3. Leaves(c)
    BY <1>0, <1>2, GotoLeaves DEF CancelAck, Leave
  <2>4. QED BY <2>1, <2>2, <2>3, Acknowledging
<1>3. CASE /\ ~Closing(c) /\ ~CancelAck(c)
  <2>1. UNCHANGED <<runs, left>> /\ LiveRuns' = LiveRuns
    BY <1>3 DEF Cancel, ReadForCancel, RequestCancellation, AbortJob, AwaitAbort,
                RefreshAfterAbort, durable, LiveRuns
  <2>2. PICK where \in {"request", "closelist", "off", "abort", "await", "confirm", "refresh"} :
          Goto(c, where)
    BY <1>3 DEF Cancel, ReadForCancel, RequestCancellation, AbortJob, AwaitAbort,
                RefreshAfterAbort
  <2>3. \A q \in Closers \ {c} : pc'[q] = pc[q] /\ left'[q] = left[q]
    BY <2>1, <2>2 DEF Goto, TypeInv, TypeOK, Procs
  <2>4. pc'[c] = where
    BY <1>0, <2>2 DEF Goto, TypeInv, TypeOK
  <2>5. /\ Frozen(scan) => Frozen(scan')
        /\ scan'.state = "cancelled" => scan.state = "cancelled"
    BY <1>0, <1>3 DEF Cancel, ReadForCancel, RequestCancellation, AbortJob, AwaitAbort,
                RefreshAfterAbort, durable, Store, CancellationRequested, Frozen, Terminal, Scan,
                TerminalScanStates
  <2>6. Committed(c)' => Frozen(scan')
    <3>1. CASE ReadForCancel(c)
      BY <2>4, <3>1, <1>0 DEF ReadForCancel, Goto, TypeInv, TypeOK, durable, Committed, Frozen
    <3>2. CASE RequestCancellation(c)
      BY <3>2, <1>0 DEF RequestCancellation, Store, CancellationRequested, Frozen, Scan
    <3>3. CASE AbortJob(c) \/ AwaitAbort(c)
      BY <1>0, <2>5, <3>3 DEF AbortJob, AwaitAbort, ClosingSafe, SafeCloser, Committed
    <3>4. CASE RefreshAfterAbort(c)
      <4>1. CASE pc[c] = "confirm" \/ scan.state = "cancelled"
        BY <1>0, <2>5, <4>1 DEF ClosingSafe, SafeCloser, Committed, Frozen, Terminal, TerminalScanStates
      <4>2. CASE pc[c] = "refresh" /\ scan.state # "cancelled"
        BY <1>0, <3>4, <4>2 DEF RefreshAfterAbort, Goto, TypeInv, TypeOK, Committed
      <4>3. QED BY <3>4, <4>1, <4>2 DEF RefreshAfterAbort
    <3>5. QED BY <1>3, <3>1, <3>2, <3>3, <3>4 DEF Cancel
  <2>7. SafeCloser(c)'
    BY <2>4, <2>6 DEF SafeCloser
  <2>8. QED BY <2>1, <2>3, <2>5, <2>7, ClosingStep
<1>4. QED BY <1>1, <1>2, <1>3

-------------------------------------------------------------------------------
LEMMA ClosingInit == Init => ClosingSafe
  BY ConstantsAssumption DEF Init, ClosingSafe, CancelledRunsClosed, SafeCloser, Committed, ClosePcs, InitialScan,
         Procs, Closers

LEMMA ClosingNext ==
  ASSUME ~RewriteRaces, TypeInv, ClosingSafe, [Next]_vars
  PROVE  ClosingSafe'
<1>1. CASE \E w \in Workers : Work(w) \/ Stop(w)
  BY <1>1, WorkCloses, StopCloses
<1>2. CASE \E w \in Workers : Fetch(w)
  <2>1. PICK w \in Workers, job \in Jobs : Deliver(w, job)
    BY <1>2 DEF Fetch
  <2>2. PICK l : Become(w, "load", l)
    BY <2>1 DEF Deliver
  <2>3. QED BY <2>1, <2>2, BecomeLeaves, LeavesQuietly DEF Deliver, durable, ClosePcs
<1>3. CASE UNCHANGED <<scan, runs, pc, left>>
  BY <1>3 DEF ClosingSafe, CancelledRunsClosed, SafeCloser, Committed, LiveRuns
<1>4. ASSUME (\E w \in Workers : Heartbeat(w)) \/ LeaseAges \/ WorkerStalls \/ ArqDrops
             \/ UNCHANGED vars
      PROVE  UNCHANGED <<scan, runs, pc, left>>
  BY <1>4 DEF Heartbeat, LeaseAges, WorkerStalls, ArqDrops, DropAborted, DropExhausted, vars,
              durable
<1>5. QED
  BY <1>1, <1>2, <1>3, <1>4, DispatchCloses, CreateCloses, CancelCloses DEF Next

\* No run of a cancelled scan is ever shown as queued or running: not by a
\* worker that lost its lease in the middle of a write, not by one of several
\* closers that listed the runs at different times.
THEOREM CancellationClosesRuns ==
  ASSUME ~RewriteRaces
  PROVE  Spec => []CancelledRunsClosed
<1>1. TypeInv /\ ClosingSafe /\ [Next]_vars => ClosingSafe'
  BY ClosingNext
<1>2. ClosingSafe => CancelledRunsClosed
  BY DEF ClosingSafe
<1>3. QED BY <1>1, <1>2, TypeInit, TypeStep, ClosingInit, PTL DEF Spec

-------------------------------------------------------------------------------
(* The contract, under the mapping of ScanLifecycle!Contract. *)

\* A step or a stutter of the contract.
Promised == [Contract!ContractNext]_(Contract!cvars)

LEMMA Stutter ==
  ASSUME scan'.state = scan.state, scan'.cancel_requested = scan.cancel_requested,
         LiveRuns' = LiveRuns
  PROVE  Promised
  BY DEF Promised, Contract!cvars

LEMMA Unchanged ==
  ASSUME UNCHANGED <<scan, runs>> PROVE Promised
  BY Stutter DEF LiveRuns

\* The steps of the contract, as the record and the runs show them.
LEMMA RunSteps ==
  ASSUME NEW r \in Runs, UNCHANGED scan,
         \/ LiveRuns' = LiveRuns \ {r}
         \/ LiveRuns' = LiveRuns \cup {r} /\ scan.state = "running" /\ ~scan.cancel_requested
  PROVE  Promised
  BY DEF Promised, Contract!ContractNext, Contract!Open, Contract!Close

LEMMA RecordSteps ==
  ASSUME UNCHANGED runs,
         \/ /\ scan.state = "queued" /\ scan'.state = "running" /\ ~scan.cancel_requested
            /\ scan'.cancel_requested = scan.cancel_requested
         \/ /\ scan.state = "running" /\ ~scan.cancel_requested
            /\ scan'.state \in {"queued", "succeeded", "partial", "failed"}
            /\ scan'.cancel_requested = scan.cancel_requested
         \/ /\ ~Terminal(scan) /\ scan'.state = scan.state /\ scan'.cancel_requested = TRUE
         \/ /\ ~Terminal(scan) /\ scan.cancel_requested /\ LiveRuns = {}
            /\ scan'.state = "cancelled" /\ scan'.cancel_requested = scan.cancel_requested
  PROVE  Promised
<1>1. LiveRuns' = LiveRuns
  BY DEF LiveRuns
<1> USE DEF Promised, Contract!ContractNext, Contract!TerminalScanStates, Terminal,
            TerminalScanStates
<1>2. CASE scan.state = "queued"
  BY <1>1, <1>2 DEF Contract!Claim, Contract!RequestCancel, Contract!Acknowledge
<1>3. CASE scan.state # "queued"
  BY <1>1, <1>3
     DEF Contract!Requeue, Contract!End, Contract!RequestCancel, Contract!Acknowledge
<1>4. QED BY <1>2, <1>3

-------------------------------------------------------------------------------
LEMMA ClosingPromised ==
  ASSUME TypeInv, NEW p, Closing(p) PROVE Promised
<1>1. CASE CloseList(p)
  BY <1>1, Unchanged DEF CloseList, durable
<1>2. CASE \E r \in Runs : CloseWrite(p, r)
  <2>1. PICK r \in Runs : CloseWrite(p, r)
    BY <1>2
  <2>2. LiveRuns' = LiveRuns \ {r} /\ UNCHANGED scan
    BY <2>1 DEF CloseWrite, LiveRuns, LiveRun, TypeInv, TypeOK
  <2>3. QED BY <2>2, RunSteps
<1>3. QED BY <1>1, <1>2 DEF Closing

LEMMA AckPromised ==
  ASSUME TypeInv, LiveRuns = {}, UNCHANGED runs,
         scan' = CancellationAcknowledged(scan) \/ scan' = scan
  PROVE  Promised
<1>0. scan \in Scan
  BY DEF TypeInv, TypeOK
<1>1. CASE scan' = scan
  BY <1>1, Unchanged
<1>2. CASE /\ ~Terminal(scan) /\ scan.cancel_requested
           /\ scan' = [scan EXCEPT !.state = "cancelled", !.outcome_code = "cancelled"]
  <2>1. scan'.state = "cancelled" /\ scan'.cancel_requested = scan.cancel_requested
    BY <1>0, <1>2 DEF Scan
  <2>2. QED BY <1>2, <2>1, RecordSteps
<1>3. QED BY <1>1, <1>2 DEF CancellationAcknowledged

\* The fenced end of an attempt.
LEMMA FinishPromised ==
  ASSUME TypeInv, UNCHANGED runs, NEW n, NEW code,
         NEW state \in {"running", "succeeded", "partial", "failed"},
         scan' = Finished(scan, n, state, code)
  PROVE  Promised
<1>0. scan \in Scan
  BY DEF TypeInv, TypeOK
<1>1. CASE scan' = scan
  BY <1>1, Unchanged
<1>2. CASE /\ HoldsLease(scan, n)
           /\ scan' = [scan EXCEPT !.state = state, !.outcome_code = code]
  <2>1. scan'.state = state /\ scan'.cancel_requested = scan.cancel_requested
    BY <1>0, <1>2 DEF Scan
  <2>2. scan.state = "running" /\ ~scan.cancel_requested
    BY <1>2 DEF HoldsLease
  <2>3. CASE state = "running"
    BY <2>1, <2>2, <2>3, Stutter DEF LiveRuns
  <2>4. CASE state # "running"
    BY <2>1, <2>2, <2>4, RecordSteps
  <2>5. QED BY <2>3, <2>4
<1>3. QED BY <1>1, <1>2 DEF Finished

LEMMA WorkPromised ==
  ASSUME TypeInv, ClosingSafe, NEW w \in Workers, Work(w)
  PROVE  Promised
<1>0. w \in Closers /\ scan \in Scan
  BY DEF Closers, TypeInv, TypeOK
<1>1. CASE ClaimScan(w)
  <2>1. CASE UNCHANGED scan
    BY <1>1, <2>1, Unchanged DEF ClaimScan
  <2>2. CASE Claimable(scan, wk[w].attempt) /\ scan' = Claimed(scan, wk[w].attempt)
    <3>1. scan'.state = "running" /\ scan'.cancel_requested = scan.cancel_requested
      BY <1>0, <2>2 DEF Claimed, Scan
    <3>2. ~scan.cancel_requested /\ scan.state \in {"queued", "running"}
      BY <2>2 DEF Claimable
    <3>3. UNCHANGED runs /\ LiveRuns' = LiveRuns
      BY <1>1 DEF ClaimScan, LiveRuns
    <3>4. QED BY <3>1, <3>2, <3>3, RecordSteps, Stutter
  <2>3. QED BY <1>1, <2>1, <2>2 DEF ClaimScan, Store
<1>2. CASE \E r \in Runs : Announce(w, r) \/ Start(w, r)
  <2>1. PICK r \in Runs : Announce(w, r) \/ Start(w, r)
    BY <1>2
  <2>2. UNCHANGED scan /\ scan.state = "running" /\ ~scan.cancel_requested
    BY <2>1 DEF Announce, Start, Fenced, HoldsLease
  <2>3. LiveRuns' = LiveRuns \cup {r}
    BY <2>1 DEF Announce, Start, LiveRuns, LiveRun, TypeInv, TypeOK
  <2>4. QED BY <2>2, <2>3, RunSteps
<1>3. CASE RecordRun(w)
  <2> DEFINE r == wk[w].run
  <2>1. r \in Runs /\ wk[w].got[r] \in AdapterResult \cup {"none"}
    BY <1>3, LocalType DEF RecordRun, Fenced, Placed, AtRun, Worker
  <2>2. UNCHANGED scan /\ runs' = [runs EXCEPT ![r] = wk[w].got[r]]
    BY <1>3 DEF RecordRun
  <2>3. LiveRuns' = LiveRuns \ {r}
    BY <2>1, <2>2 DEF LiveRuns, LiveRun, AdapterResult, TypeInv, TypeOK
  <2>4. QED BY <2>1, <2>2, <2>3, RunSteps
<1>4. CASE FinishScan(w)
  <2> DEFINE code == FinalCode(wk[w].known)
  <2>1. scan' = Finished(scan, wk[w].attempt, StateOfCode(code), code) /\ UNCHANGED runs
    BY <1>4, StoreIfChangedStores DEF FinishScan
  <2>2. StateOfCode(code) \in {"running", "succeeded", "partial", "failed"}
    BY DEF StateOfCode
  <2>3. QED BY <2>1, <2>2, FinishPromised
<1>5. CASE FailScan(w)
  <2> DEFINE state == IF FinalAttempt(w) THEN "failed" ELSE "running"
             code == IF FinalAttempt(w) THEN "worker_failure" ELSE "retryable_worker_failure"
  <2>1. scan' = Finished(scan, wk[w].attempt, state, code) /\ UNCHANGED runs
    BY <1>5, StoreIfChangedStores DEF FailScan
  <2>2. state \in {"running", "succeeded", "partial", "failed"}
    OBVIOUS
  <2>3. QED BY <2>1, <2>2, FinishPromised
<1>6. CASE Closing(w)
  BY <1>6, ClosingPromised
<1>7. CASE WorkerAck(w)
  <2>1. scan' = CancellationAcknowledged(scan) /\ UNCHANGED runs
    BY <1>7, StoreIfChangedStores DEF WorkerAck
  <2>2. LiveRuns = {}
    BY <1>0, <1>7 DEF WorkerAck, ClosingSafe, SafeCloser
  <2>3. QED BY <2>1, <2>2, AckPromised
<1>8. CASE \/ Load(w) \/ Reload(w) \/ ListRuns(w) \/ Check(w) \/ AddEvent(w) \/ AddFinding(w)
           \/ LosesFence(w) \/ \E o \in AdapterOutcomes : Execute(w, o)
  <2>1. UNCHANGED <<scan, runs>>
    BY <1>8 DEF Load, Reload, ListRuns, Check, AddEvent, AddFinding, LosesFence, Execute, durable
  <2>2. QED BY <2>1, Unchanged
<1>9. QED BY <1>1, <1>2, <1>3, <1>4, <1>5, <1>6, <1>7, <1>8 DEF Work

LEMMA DispatchPromised ==
  ASSUME TypeInv, ClosingSafe, Dispatch \/ SweepFails
  PROVE  Promised
<1>0. Dispatcher \in Closers /\ scan \in Scan
  BY DEF Closers, TypeInv, TypeOK
<1>1. CASE RecoverStaleScan
  <2>1. CASE UNCHANGED scan
    BY <1>1, <2>1, Unchanged DEF RecoverStaleScan
  <2>2. CASE \E job : Recoverable(scan) /\ scan' = Recovered(scan, job)
    <3>1. scan'.state = "queued" /\ scan'.cancel_requested = scan.cancel_requested
      BY <1>0, <2>2 DEF Recovered, Scan
    <3>2. ~scan.cancel_requested /\ scan.state = "running"
      BY <2>2 DEF Recoverable
    <3>3. QED BY <1>1, <3>1, <3>2, RecordSteps DEF RecoverStaleScan
  <2>3. QED BY <1>1, <2>1, <2>2 DEF RecoverStaleScan, Store
<1>2. CASE MarkScanDispatched
  <2>1. scan' = Dispatched(scan, seen[Dispatcher].job_id) /\ LiveRuns' = LiveRuns
    BY <1>2, StoreIfChangedStores DEF MarkScanDispatched, LiveRuns
  <2>2. scan'.state = scan.state /\ scan'.cancel_requested = scan.cancel_requested
    BY <1>0, <2>1 DEF Dispatched, Scan
  <2>3. QED BY <2>1, <2>2, Stutter
<1>3. CASE Closing(Dispatcher)
  BY <1>3, ClosingPromised
<1>4. CASE DispatcherAck
  <2>1. scan' = CancellationAcknowledged(scan) /\ UNCHANGED runs
    BY <1>4, StoreIfChangedStores DEF DispatcherAck
  <2>2. LiveRuns = {}
    BY <1>0, <1>4 DEF DispatcherAck, ClosingSafe, SafeCloser
  <2>3. QED BY <2>1, <2>2, AckPromised
<1>5. CASE Sweep \/ EnqueueRepair \/ SweepFails
  BY <1>5, Unchanged DEF Sweep, EnqueueRepair, SweepFails, durable
<1>6. QED BY <1>1, <1>2, <1>3, <1>4, <1>5 DEF Dispatch

LEMMA CreatePromised ==
  ASSUME ~RewriteRaces, TypeInv, NEW c \in Creators, Create(c)
  PROVE  Promised
<1>1. scan'.state = scan.state /\ scan'.cancel_requested = scan.cancel_requested
  BY DEF TypeInv, TypeOK, Create, EnqueueScan, EnqueueScanFails, RereadScan, RewriteScan, durable,
         Store, Scan
<1>2. LiveRuns' = LiveRuns
  BY DEF Create, EnqueueScan, EnqueueScanFails, RereadScan, RewriteScan, durable, LiveRuns
<1>3. QED BY <1>1, <1>2, Stutter

LEMMA CancelPromised ==
  ASSUME TypeInv, ClosingSafe, NEW c \in Cancellers, Cancel(c)
  PROVE  Promised
<1>0. c \in Closers /\ scan \in Scan
  BY DEF Closers, TypeInv, TypeOK
<1>1. CASE RequestCancellation(c)
  <2>1. CASE Terminal(scan)
    BY <1>1, <2>1, Unchanged DEF RequestCancellation
  <2>2. CASE ~Terminal(scan)
    <3>1. scan'.state = scan.state /\ scan'.cancel_requested = TRUE
      BY <1>0, <1>1, <2>2 DEF RequestCancellation, Store, CancellationRequested, Scan
    <3>2. QED BY <1>1, <2>2, <3>1, RecordSteps DEF RequestCancellation
  <2>3. QED BY <2>1, <2>2
<1>2. CASE Closing(c)
  BY <1>2, ClosingPromised
<1>3. CASE CancelAck(c)
  <2>1. scan' = CancellationAcknowledged(scan) \/ scan' = scan
    BY <1>3, StoreIfChangedStores DEF CancelAck
  <2>2. LiveRuns = {} /\ UNCHANGED runs
    BY <1>0, <1>3 DEF CancelAck, ClosingSafe, SafeCloser
  <2>3. QED BY <2>1, <2>2, AckPromised
<1>4. CASE ReadForCancel(c) \/ AbortJob(c) \/ AwaitAbort(c) \/ RefreshAfterAbort(c)
  BY <1>4, Unchanged DEF ReadForCancel, AbortJob, AwaitAbort, RefreshAfterAbort, durable
<1>5. QED BY <1>1, <1>2, <1>3, <1>4 DEF Cancel

LEMMA ContractStep ==
  ASSUME ~RewriteRaces, TypeInv, ClosingSafe, [Next]_vars
  PROVE  [Contract!ContractNext]_(Contract!cvars)
<1>1. CASE \/ \E w \in Workers : Fetch(w) \/ Heartbeat(w) \/ Stop(w)
           \/ ArqDrops \/ LeaseAges \/ WorkerStalls \/ UNCHANGED vars
  <2>1. UNCHANGED <<scan, runs>>
    BY <1>1 DEF Fetch, Deliver, Heartbeat, Stop, LeaseLost, AbortTask, JobTimeout, Crash,
                StoreFails, ArqDrops, DropAborted, DropExhausted, LeaseAges, WorkerStalls,
                vars, durable
  <2>2. QED BY <2>1, Unchanged DEF Promised
<1>2. CASE \E w \in Workers : Work(w)
  BY <1>2, WorkPromised DEF Promised
<1>3. CASE Dispatch \/ SweepFails
  BY <1>3, DispatchPromised DEF Promised
<1>4. CASE \E c \in Creators : Create(c)
  BY <1>4, CreatePromised DEF Promised
<1>5. CASE \E c \in Cancellers : Cancel(c)
  BY <1>5, CancelPromised DEF Promised
<1>6. QED BY <1>1, <1>2, <1>3, <1>4, <1>5 DEF Next

LEMMA ContractStart == Init => Contract!ContractInit
  BY DEF Init, Contract!ContractInit, InitialScan, LiveRuns, LiveRun

\* Workers, queue, dispatch loop and cancel requests together keep the promise
\* of ScanContract, whatever crashes, stalls or is delivered twice.
THEOREM ContractKept ==
  ASSUME ~RewriteRaces
  PROVE  Spec => ContractHolds
<1>1. TypeInv /\ ClosingSafe /\ [Next]_vars => ClosingSafe'
  BY ClosingNext
<1>2. TypeInv /\ ClosingSafe /\ [Next]_vars => [Contract!ContractNext]_(Contract!cvars)
  BY ContractStep
<1>3. QED
  BY <1>1, <1>2, TypeInit, TypeStep, ClosingInit, ContractStart, PTL
     DEF Spec, ContractHolds, Contract!ContractSpec

-------------------------------------------------------------------------------
(* The verdict.                                                            *)
\* What a worker does, or will do when it was told that it may go on.
StageOf(where, l) == IF where \in CheckPcs \cup {"event"} THEN l.then ELSE where
Stage(w) == StageOf(pc[w], wk[w])
Working == Steps \cup {"execute", "finish"}

\* The worker is still going to record the run.
Ahead(stage, l, r) ==
  \/ TargetOf[r] \in l.todo
  \/ stage = "announce" /\ \E q \in l.plan : TargetOf[q] = TargetOf[r]
  \/ stage \in {"start", "execute"} /\ r \in l.plan
  \/ stage = "execute" /\ r = l.run
  \/ stage \in {"start", "execute", "finding", "record"} /\ l.got[r] # "none"

\* A worker visits no run it knows the result of, and every other.
Ordered(stage, l) ==
  /\ \A r \in Runs : r \in l.plan \/ l.got[r] # "none" => l.known[r] = "none"
  /\ stage = "execute" => l.run \in Runs /\ l.known[l.run] = "none"
  /\ stage \in {"load", "claim", "list", "target", "finish"} =>
       l.plan = {} /\ \A r \in Runs : l.got[r] = "none"
  /\ stage \in AtRun => l.plan = {} /\ l.got[l.run] # "none"
  /\ stage = "announce" => \A q, r \in l.plan : TargetOf[q] = TargetOf[r]
  /\ stage = "finish" => l.todo = {}
  /\ stage \in Working => \A r \in Runs : l.known[r] = "none" => Ahead(stage, l, r)

\* What a worker with the lease knows is what the store holds.
Knows(w) ==
  Stage(w) \in Working /\ HoldsLease(scan, wk[w].attempt) =>
    \A r \in Runs : wk[w].known[r] = DurableResults[r]

\* Closing only replaces open runs.
Listed ==
  \A p \in Closers : pc[p] = "closewrite" =>
    \A r \in left[p] : runs[r] \in LiveRun \cup {"cancelled"}

Verdict ==
  /\ OutcomeAgrees /\ Listed
  /\ \A w \in Workers : Ordered(Stage(w), wk[w])
  /\ ~reused => \A w \in Workers : Knows(w)

ResultsKept == ~reused' => \A r \in Runs : runs[r] \in AdapterResult => runs'[r] = runs[r]

\* Only p moves; a worker keeps its order, and starts to work only with the list
\* of the runs.
Obeys(p) ==
  /\ pc'[p] # "closewrite"
  /\ \A q \in Closers \ {p} : pc'[q] = pc[q] /\ left'[q] = left[q]
  /\ \A v \in Workers \ {p} : wk'[v] = wk[v]
  /\ p \in Workers => Ordered(Stage(p), wk[p])'

Continues(w) ==
  Stage(w)' \in Working =>
    Stage(w) \in Working /\ wk'[w].known = wk[w].known /\ wk'[w].attempt = wk[w].attempt

LEMMA WorkingIsActive ==
  ASSUME NEW w, Stage(w) \in Working PROVE Active(w)
  BY DEF Stage, StageOf, Working, Steps, Active, InTry, InHandler, Unclaimed, CheckPcs, ClosePcs

\* Outside the loop there is no order to keep.
LEMMA OrderedOutside ==
  ASSUME NEW stage, NEW l, stage \notin Working \cup {"load", "claim", "list"},
         \A r \in Runs : r \in l.plan \/ l.got[r] # "none" => l.known[r] = "none"
  PROVE  Ordered(stage, l)
  BY DEF Ordered, Working, Steps, AtRun

LEMMA OrderedIdle ==
  ASSUME NEW stage, NEW l, stage \notin Working, l.plan = {}, \A r \in Runs : l.got[r] = "none"
  PROVE  Ordered(stage, l)
  BY DEF Ordered, Working, Steps, AtRun

LEMMA OrderedSame ==
  ASSUME NEW stage, NEW l, Ordered(stage, l), NEW m, m.plan = l.plan, m.got = l.got,
         m.known = l.known, m.run = l.run, m.todo = l.todo
  PROVE  Ordered(stage, m)
  BY DEF Ordered, Ahead

\* A step of w that leaves the runs alone.
LEMMA Locally ==
  ASSUME Verdict, NEW p, p \in Workers => Continues(p), Obeys(p), UNCHANGED runs,
         reused => reused',
         \A n : HoldsLease(scan', n) => HoldsLease(scan, n),
         scan'.outcome_code \in CompletionCodes => scan' = scan
  PROVE  Verdict' /\ ResultsKept
<1>1. OutcomeAgrees'
  BY DEF Verdict, OutcomeAgrees, DurableResults, LiveRuns
<1>2. Listed'
  BY DEF Verdict, Listed, Obeys
<1>3. \A v \in Workers : v # p => Stage(v)' = Stage(v) /\ wk'[v] = wk[v]
  BY DEF Obeys, Stage, StageOf, Closers
<1>4. \A v \in Workers : Ordered(Stage(v), wk[v])'
  <2>1. ASSUME NEW v \in Workers, v # p PROVE Ordered(Stage(v), wk[v])'
    <3>1. Ordered(Stage(v), wk[v])
      BY DEF Verdict
    <3>2. QED
      BY <1>3, <2>1, <3>1 DEF Ordered, Ahead
  <2>2. QED
    BY <2>1 DEF Obeys
<1>5. ~reused' => \A v \in Workers : Knows(v)'
  BY <1>3 DEF Verdict, Knows, DurableResults, Continues
<1>6. QED
  BY <1>1, <1>2, <1>4, <1>5 DEF Verdict, ResultsKept

\* A fenced write of a run: by one worker, which knows the results, and not after
\* the end.
LEMMA Fencing ==
  ASSUME TypeInv, Attempts, ClosingSafe, Verdict, NEW w \in Workers, Obeys(w), UNCHANGED <<scan, reused>>,
         Stage(w) \in Working, HoldsLease(scan, wk[w].attempt), wk'[w].attempt = wk[w].attempt,
         NEW r \in Runs, NEW o, runs' = [runs EXCEPT ![r] = o], wk[w].known[r] = "none",
         \/ o \notin DoneRun /\ wk'[w].known = wk[w].known
         \/ o \in DoneRun /\ wk'[w].known = [wk[w].known EXCEPT ![r] = o]
  PROVE  Verdict' /\ ResultsKept
<1>1. ~Frozen(scan) /\ scan.state = "running"
  BY DEF HoldsLease, Frozen, Terminal, TerminalScanStates
<1>2. ~reused => scan.outcome_code \notin CompletionCodes
  BY <1>1 DEF Verdict, OutcomeAgrees, StateOfCode, CompletionCodes
<1>3. OutcomeAgrees'
  BY <1>2 DEF OutcomeAgrees
<1>4. Listed'
  <2>1. \A q \in Closers : pc[q] # "closewrite"
    BY <1>1 DEF ClosingSafe, SafeCloser, Committed, ClosePcs
  <2>2. QED
    BY <2>1 DEF Listed, Obeys
<1>5. \A v \in Workers : v # w => Stage(v)' = Stage(v) /\ wk'[v] = wk[v]
  BY DEF Obeys, Stage, StageOf, Closers
<1>6. \A v \in Workers : Ordered(Stage(v), wk[v])'
  <2>1. ASSUME NEW v \in Workers, v # w PROVE Ordered(Stage(v), wk[v])'
    <3>1. Ordered(Stage(v), wk[v])
      BY DEF Verdict
    <3>2. QED
      BY <1>5, <2>1, <3>1 DEF Ordered, Ahead
  <2>2. QED
    BY <2>1 DEF Obeys
<1>7. ASSUME ~reused PROVE runs[r] \notin DoneRun /\ \A v \in Workers : Knows(v)'
  <2>1. \A q \in Runs : wk[w].known[q] = DurableResults[q]
    BY <1>7 DEF Verdict, Knows
  <2>2. runs[r] \notin DoneRun
    BY <2>1 DEF DurableResults, DoneRun
  <2>3. runs \in [Runs -> RunState] /\ wk[w].known \in [Runs -> DoneRun \cup {"none"}]
    BY LocalType DEF TypeInv, TypeOK, Worker
  <2>4. \A q \in Runs : wk'[w].known[q] = DurableResults'[q]
    BY <2>1, <2>2, <2>3 DEF DurableResults
  <2>5. \A v \in Workers : v # w => ~(Stage(v)' \in Working /\ HoldsLease(scan', wk'[v].attempt))
    <3>1. SUFFICES ASSUME NEW v \in Workers, v # w, Stage(v) \in Working,
                          HoldsLease(scan, wk[v].attempt)
                   PROVE FALSE
      BY <1>5
    <3>2. wk[v].attempt = wk[w].attempt
      BY <3>1 DEF HoldsLease
    <3>3. QED
      BY <1>7, <3>1, <3>2, WorkingIsActive DEF Attempts
  <2>6. QED
    BY <2>2, <2>4, <2>5 DEF Knows
<1>8. ResultsKept
  BY <1>7 DEF ResultsKept, AdapterResult, DoneRun, TypeInv, TypeOK
<1>9. QED
  BY <1>3, <1>4, <1>6, <1>7, <1>8 DEF Verdict

\* The ways a worker moves.
Moves(w) == Obeys(w) /\ Continues(w)

LEMMA BecomeObeys ==
  ASSUME TypeInv, NEW w \in Workers, NEW where, NEW l, Become(w, where, l), where # "closewrite",
         UNCHANGED left \/ left' = [left EXCEPT ![w] = {}], Ordered(StageOf(where, l), l)
  PROVE  /\ Obeys(w)
         /\ pc'[w] = where /\ wk'[w] = l /\ Stage(w)' = StageOf(where, l)
<1>1. /\ pc'[w] = where /\ wk'[w] = l
      /\ \A v \in Workers \ {w} : wk'[v] = wk[v]
      /\ \A q \in Closers \ {w} : pc'[q] = pc[q] /\ left'[q] = left[q]
  BY DEF Become, Goto, TypeInv, TypeOK, Procs, Closers
<1>2. Stage(w)' = StageOf(where, l)
  BY <1>1 DEF Stage
<1>3. Ordered(Stage(w), wk[w])'
  BY <1>1, <1>2 DEF Ordered, Ahead
<1>4. QED
  BY <1>1, <1>2, <1>3 DEF Obeys

\* A worker that goes on where it was.
LEMMA BecomeSame ==
  ASSUME TypeInv, Verdict, NEW w \in Workers, NEW where, NEW l, Become(w, where, l), UNCHANGED left,
         where # "closewrite", StageOf(where, l) = Stage(w),
         l.plan = wk[w].plan, l.got = wk[w].got, l.known = wk[w].known, l.run = wk[w].run,
         l.todo = wk[w].todo, l.attempt = wk[w].attempt
  PROVE  Moves(w)
<1>1. Ordered(StageOf(where, l), l)
  BY OrderedSame DEF Verdict
<1>2. QED
  BY <1>1, BecomeObeys DEF Moves, Continues

LEMMA GotoSame ==
  ASSUME TypeInv, Verdict, NEW w \in Workers, NEW where, Goto(w, where), UNCHANGED <<left, wk>>,
         where # "closewrite", StageOf(where, wk[w]) = Stage(w)
  PROVE  Moves(w)
<1>1. /\ pc'[w] = where
      /\ \A q \in Closers \ {w} : pc'[q] = pc[q] /\ left'[q] = left[q]
  BY DEF Goto, TypeInv, TypeOK, Procs, Closers
<1>2. Stage(w)' = Stage(w)
  BY <1>1 DEF Stage
<1>3. Ordered(Stage(w), wk[w])
  BY DEF Verdict
<1>4. Ordered(Stage(w), wk[w])'
  BY <1>2, <1>3 DEF Ordered, Ahead
<1>5. QED
  BY <1>1, <1>2, <1>4 DEF Moves, Obeys, Continues

\* A worker that is outside the loop from now on.
LEMMA BecomeOutside ==
  ASSUME TypeInv, NEW w \in Workers, NEW where, NEW l, Become(w, where, l), where # "closewrite",
         UNCHANGED left \/ left' = [left EXCEPT ![w] = {}],
         StageOf(where, l) \notin Working \cup {"load", "claim", "list"},
         \A r \in Runs : r \in l.plan \/ l.got[r] # "none" => l.known[r] = "none"
  PROVE  Moves(w)
  BY BecomeObeys, OrderedOutside DEF Moves, Continues

LEMMA ForgetMoves ==
  ASSUME TypeInv, NEW w \in Workers, NEW where \in {"check", "fail"}, NEW then \in {"-", "abort"},
         where = "check" => then = "abort",
         NEW cause \in {"none", "cancelled", "abort", "timeout"},
         UNCHANGED left \/ left' = [left EXCEPT ![w] = {}],
         Become(w, where, Forget(wk[w], then, cause))
  PROVE  Moves(w)
<1> DEFINE l == Forget(wk[w], then, cause)
<1>1. l.then = then
  BY LocalType, ForgetType DEF Then
<1>2. l.plan = {} /\ \A r \in Runs : l.got[r] = "none"
  BY DEF Forget, IdleWorker, Nothing
<1>3. StageOf(where, l) \in {"fail", "abort"}
  BY <1>1 DEF StageOf, CheckPcs, ClosePcs
<1> HIDE DEF l
<1>4. Become(w, where, l)
  BY DEF l
<1>5. QED
  BY <1>2, <1>3, <1>4, BecomeOutside DEF Working, Steps

LEMMA EndJobMoves ==
  ASSUME TypeInv, NEW w \in Workers, NEW end, EndJob(w, end)
  PROVE  Moves(w)
<1>1. /\ pc'[w] = "idle" /\ wk'[w] = IdleWorker
      /\ \A v \in Workers \ {w} : wk'[v] = wk[v]
      /\ \A q \in Closers \ {w} : pc'[q] = pc[q] /\ left'[q] = left[q]
  BY DEF EndJob, TypeInv, TypeOK, Procs, Closers
<1>2. Stage(w)' = "idle"
  BY <1>1 DEF Stage, StageOf, CheckPcs, ClosePcs
<1>3. IdleWorker.plan = {} /\ \A r \in Runs : IdleWorker.got[r] = "none"
  BY DEF IdleWorker, Nothing
<1>4. Ordered("idle", IdleWorker)
  BY <1>3, OrderedIdle DEF Working, Steps
<1>5. Ordered(Stage(w), wk[w])'
  BY <1>1, <1>2, <1>4 DEF Ordered, Ahead
<1>6. QED
  BY <1>1, <1>2, <1>5 DEF Moves, Obeys, Continues, Working, Steps

LEMMA RaiseFailureMoves ==
  ASSUME TypeInv, NEW w \in Workers, RaiseFailure(w)
  PROVE  Moves(w)
  BY EndJobMoves DEF RaiseFailure

\* The loop turns to a target, and skips it when all its results are known.
LEMMA BeginTargetMoves ==
  ASSUME TypeInv, Verdict, NEW w \in Workers, Stage(w) = "target",
         NEW t \in wk[w].todo, BeginTarget(w, t), UNCHANGED left
  PROVE  Moves(w)
<1> DEFINE l == [wk[w] EXCEPT !.todo = @ \ {t}, !.then = "-"]
           last == [l EXCEPT !.run = NoRun, !.then = "-"]
           next == [l EXCEPT !.run = NoRun, !.then = "target"]
           some == [l EXCEPT !.plan = Remaining(l, t)]
<1>0. wk[w] \in Worker
  BY LocalType
<1>1. /\ wk[w].plan = {} /\ \A r \in Runs : wk[w].got[r] = "none"
      /\ \A r \in Runs : wk[w].known[r] = "none" => TargetOf[r] \in wk[w].todo
  BY DEF Verdict, Ordered, Ahead, Working, Steps
<1>2. /\ l.todo = wk[w].todo \ {t} /\ l.known = wk[w].known
  BY <1>0 DEF Worker
<1>3. /\ last.todo = l.todo /\ last.known = l.known /\ last.plan = {} /\ last.got = wk[w].got
      /\ last.attempt = wk[w].attempt /\ last.then = "-"
      /\ next.todo = l.todo /\ next.known = l.known /\ next.plan = {} /\ next.got = wk[w].got
      /\ next.attempt = wk[w].attempt /\ next.then = "target"
      /\ some.todo = l.todo /\ some.known = l.known /\ some.plan = Remaining(l, t)
      /\ some.got = wk[w].got /\ some.attempt = wk[w].attempt /\ some.then = "-"
  BY <1>0, <1>1 DEF Worker
<1>4. \/ Remaining(l, t) = {} /\ l.todo = {} /\ Become(w, "finish", last)
      \/ Remaining(l, t) = {} /\ Become(w, "check", next)
      \/ Become(w, "announce", some)
  BY DEF BeginTarget, NextTarget
<1>5. Remaining(l, t) = {r \in Runs : TargetOf[r] = t /\ wk[w].known[r] = "none"}
  BY <1>2 DEF Remaining
<1> HIDE DEF l, last, next, some
<1>6. CASE Remaining(l, t) = {} /\ l.todo = {} /\ Become(w, "finish", last)
  <2>1. Ordered("finish", last) /\ StageOf("finish", last) = "finish"
    BY <1>1, <1>2, <1>3, <1>5, <1>6 DEF Ordered, Ahead, AtRun, StageOf, CheckPcs, ClosePcs
  <2>2. QED
    BY <1>2, <1>3, <1>6, <2>1, BecomeObeys DEF Moves, Continues, Working, Steps
<1>7. CASE Remaining(l, t) = {} /\ Become(w, "check", next)
  <2>1. Ordered("target", next) /\ StageOf("check", next) = "target"
    BY <1>1, <1>2, <1>3, <1>5, <1>7 DEF Ordered, Ahead, AtRun, StageOf, CheckPcs, ClosePcs
  <2>2. QED
    BY <1>2, <1>3, <1>7, <2>1, BecomeObeys DEF Moves, Continues, Working, Steps
<1>8. CASE Become(w, "announce", some)
  <2>1. Ordered("announce", some) /\ StageOf("announce", some) = "announce"
    BY <1>1, <1>2, <1>3, <1>5 DEF Ordered, Ahead, AtRun, StageOf, CheckPcs, ClosePcs
  <2>2. QED
    BY <1>2, <1>3, <1>8, <2>1, BecomeObeys DEF Moves, Continues, Working, Steps
<1>9. QED
  BY <1>4, <1>6, <1>7, <1>8

LEMMA GoOnMoves ==
  ASSUME TypeInv, Verdict, NEW w \in Workers, pc[w] \in CheckPcs, GoOn(w)
  PROVE  Moves(w)
<1>0. wk[w] \in Worker /\ Stage(w) = wk[w].then
  BY LocalType DEF Stage, StageOf
<1>1. CASE wk[w].then = "target" /\ (\E t \in wk[w].todo : BeginTarget(w, t)) /\ UNCHANGED left
  BY <1>0, <1>1, BeginTargetMoves
<1>2. CASE /\ wk[w].then \in Steps \ {"target"} /\ UNCHANGED left
           /\ Become(w, wk[w].then, [wk[w] EXCEPT !.then = "-"])
  <2> DEFINE l == [wk[w] EXCEPT !.then = "-"]
  <2>1. /\ l.plan = wk[w].plan /\ l.got = wk[w].got /\ l.known = wk[w].known /\ l.run = wk[w].run
        /\ l.todo = wk[w].todo /\ l.attempt = wk[w].attempt
    BY <1>0 DEF Worker
  <2>2. StageOf(wk[w].then, l) = Stage(w) /\ wk[w].then # "closewrite"
    BY <1>0, <1>2 DEF StageOf, Steps, CheckPcs, ClosePcs
  <2> HIDE DEF l
  <2>3. Become(w, wk[w].then, l)
    BY <1>2 DEF l
  <2>4. QED
    BY <1>2, <2>1, <2>2, <2>3, BecomeSame
<1>3. CASE Become(w, "fail", Forget(wk[w], "-", wk[w].cause)) /\ UNCHANGED left
  BY <1>0, <1>3, ForgetMoves DEF Worker
<1>4. CASE RaiseFailure(w) \/ EndJob(w, "gone") \/ EndJob(w, EndAfterCause(wk[w].cause))
  BY <1>4, EndJobMoves, RaiseFailureMoves
<1>5. QED
  BY <1>1, <1>2, <1>3, <1>4 DEF GoOn

LEMMA StopAtMoves ==
  ASSUME TypeInv, NEW w \in Workers, NEW s, StopAt(w, s)
  PROVE  Moves(w)
<1>1. CASE Become(w, "check", Forget(wk[w], "abort", wk[w].cause)) /\ UNCHANGED left
  BY <1>1, LocalType, ForgetMoves DEF Worker
<1>2. CASE RaiseFailure(w) \/ \E end : EndJob(w, end)
  BY <1>2, EndJobMoves, RaiseFailureMoves
<1>3. QED
  BY <1>1, <1>2 DEF StopAt

LEMMA StopMoves ==
  ASSUME TypeInv, NEW w \in Workers, Stop(w)
  PROVE  Moves(w)
<1>0. wk[w].cause \in {"none", "cancelled", "abort", "timeout"}
  BY LocalType DEF Worker
<1>1. ASSUME NEW cause \in {"none", "cancelled", "abort", "timeout"}, CancelTask(w, cause)
      PROVE  Moves(w)
  BY <1>1, ForgetMoves, EndJobMoves DEF CancelTask
<1>2. CASE LeaseLost(w) \/ AbortTask(w) \/ JobTimeout(w)
  BY <1>0, <1>1, <1>2 DEF LeaseLost, AbortTask, JobTimeout
<1>3. CASE Crash(w) \/ StoreFails(w)
  BY <1>0, <1>3, EndJobMoves, RaiseFailureMoves, ForgetMoves DEF Crash, StoreFails
<1>4. QED
  BY <1>2, <1>3 DEF Stop

-------------------------------------------------------------------------------
(* The record. *)

\* What a step does to the record that completes no scan and gives no lease.
Modest(s) ==
  /\ \A n : HoldsLease(s, n) => HoldsLease(scan, n)
  /\ s.outcome_code \in CompletionCodes => s = scan

LEMMA ModestRecords ==
  ASSUME scan \in Scan, NEW n, NEW state, NEW code, code \notin CompletionCodes
  PROVE  /\ Modest(scan)
         /\ Modest(Finished(scan, n, state, code))
         /\ Modest(CancellationRequested(scan))
         /\ Modest(CancellationAcknowledged(scan))
         /\ Modest(Dispatched(scan, n))
         /\ Modest(Recovered(scan, n))
         /\ Modest([scan EXCEPT !.outcome_code = "queue_retryable_failure"])
<1> USE DEF Modest, HoldsLease, Scan, CompletionCodes
<1>1. Modest(Finished(scan, n, state, code))
  BY DEF Finished
<1>2. Modest(CancellationRequested(scan))
  BY DEF CancellationRequested
<1>3. Modest(CancellationAcknowledged(scan))
  BY DEF CancellationAcknowledged
<1>4. Modest(Dispatched(scan, n))
  BY DEF Dispatched
<1>5. Modest(Recovered(scan, n))
  BY DEF Recovered
<1>6. QED
  BY <1>1, <1>2, <1>3, <1>4, <1>5

LEMMA MovesVerdict ==
  ASSUME Verdict, NEW w \in Workers, Moves(w), UNCHANGED <<runs, reused>>, Modest(scan')
  PROVE  Verdict' /\ ResultsKept
  BY Locally DEF Moves, Modest

\* The one claim: nobody else holds the lease then.
LEMMA ClaimVerdict ==
  ASSUME TypeInv, Attempts, Verdict, NEW w \in Workers, ClaimScan(w)
  PROVE  Verdict' /\ ResultsKept
<1>0. w \in Procs /\ scan \in Scan /\ wk[w] \in Worker /\ Stage(w) = "claim"
  BY LocalType DEF ClaimScan, Procs, Closers, TypeInv, TypeOK, Stage, StageOf, CheckPcs, ClosePcs
<1>1. PICK where \in {"list", "reload"} : Goto(w, where)
  BY DEF ClaimScan
<1>2. /\ pc'[w] = where /\ UNCHANGED <<wk, left, runs>>
      /\ \A q \in Closers \ {w} : pc'[q] = pc[q]
  BY <1>1 DEF ClaimScan, Goto, TypeInv, TypeOK, Procs, Closers
<1>3. wk[w].plan = {} /\ \A r \in Runs : wk[w].got[r] = "none"
  BY <1>0 DEF Verdict, Ordered
<1>4. Stage(w)' = where /\ where \notin Working
  BY <1>2 DEF Stage, StageOf, CheckPcs, ClosePcs, Working, Steps
<1>5. Ordered(where, wk[w])
  BY <1>3, <1>4, OrderedIdle
<1>6. Moves(w)
  BY <1>2, <1>4, <1>5 DEF Moves, Obeys, Continues, Ordered, Ahead
<1>7. CASE UNCHANGED <<scan, reused>>
  BY <1>0, <1>2, <1>6, <1>7, MovesVerdict, ModestRecords DEF CompletionCodes
<1>8. CASE /\ scan' = Claimed(scan, wk[w].attempt)
           /\ reused' = (reused \/ wk[w].attempt <= scan.worker_attempt)
  <2>1. scan'.worker_attempt = wk[w].attempt /\ scan'.outcome_code = "running"
    BY <1>0, <1>8 DEF Claimed, Scan
  <2>2. OutcomeAgrees' /\ ResultsKept
    BY <1>2, <2>1 DEF OutcomeAgrees, CompletionCodes, ResultsKept
  <2>3. Listed'
    BY <1>2, <1>6 DEF Verdict, Listed, Moves, Obeys
  <2>4. \A v \in Workers : v # w => Stage(v)' = Stage(v) /\ wk'[v] = wk[v]
    BY <1>2 DEF Stage, StageOf, Closers
  <2>5. \A v \in Workers : Ordered(Stage(v), wk[v])'
    BY <1>6, <2>4 DEF Verdict, Moves, Obeys, Ordered, Ahead
  <2>6. ASSUME ~reused', NEW v \in Workers PROVE Knows(v)'
    <3>1. CASE v = w
      BY <1>4, <3>1 DEF Knows
    <3>2. CASE v # w /\ Stage(v) \in Working
      <4>1. wk[v].attempt <= scan.worker_attempt
        BY <1>8, <2>6, <3>2, WorkingIsActive DEF Attempts
      <4>2. ~(wk[w].attempt <= scan.worker_attempt)
        BY <1>8, <2>6, Zenon
      <4>3. wk[v].attempt # wk[w].attempt
        BY <4>1, <4>2
      <4>4. QED
        BY <1>2, <2>1, <4>3 DEF Knows, HoldsLease
    <3>3. CASE v # w /\ Stage(v) \notin Working
      BY <2>4, <3>3 DEF Knows
    <3>4. QED
      BY <3>1, <3>2, <3>3
  <2>7. QED
    BY <2>2, <2>3, <2>5, <2>6 DEF Verdict
<1>9. QED
  BY <1>7, <1>8 DEF ClaimScan, Store

\* The list of the runs: from now on the worker knows what the store holds.
LEMMA ListVerdict ==
  ASSUME TypeInv, Verdict, NEW w \in Workers, ListRuns(w)
  PROVE  Verdict' /\ ResultsKept
<1> DEFINE l == [wk[w] EXCEPT !.todo = Targets, !.then = "target",
                   !.known = [r \in Runs |-> IF runs[r] \in DoneRun THEN runs[r] ELSE "none"]]
<1>0. wk[w] \in Worker /\ Stage(w) = "list"
  BY LocalType DEF ListRuns, Stage, StageOf, CheckPcs, ClosePcs
<1>1. l.todo = Targets /\ l.then = "target" /\ l.known = DurableResults /\ l.plan = wk[w].plan
      /\ l.got = wk[w].got
  BY <1>0 DEF Worker, DurableResults
<1>2. Become(w, "check", l) /\ UNCHANGED <<scan, runs, reused, left>>
  BY DEF ListRuns, durable
<1>3. wk[w].plan = {} /\ \A r \in Runs : wk[w].got[r] = "none"
  BY <1>0 DEF Verdict, Ordered
<1> HIDE DEF l
<1>4. Ordered("target", l) /\ StageOf("check", l) = "target"
  BY <1>1, <1>3, ConstantsAssumption DEF Ordered, Ahead, AtRun, StageOf, CheckPcs, ClosePcs
<1>5. Obeys(w) /\ wk'[w] = l
  BY <1>2, <1>4, BecomeObeys
<1>6. OutcomeAgrees' /\ Listed' /\ ResultsKept /\ DurableResults' = DurableResults
  BY <1>2, <1>5 DEF Verdict, OutcomeAgrees, Listed, Obeys, DurableResults, LiveRuns, ResultsKept
<1>7. \A v \in Workers : v # w => Stage(v)' = Stage(v) /\ wk'[v] = wk[v]
  BY <1>5 DEF Obeys, Stage, StageOf, Closers
<1>8. \A v \in Workers : Ordered(Stage(v), wk[v])'
  BY <1>5, <1>7 DEF Verdict, Obeys, Ordered, Ahead
<1>9. ~reused => \A v \in Workers : Knows(v)'
  BY <1>1, <1>2, <1>5, <1>6, <1>7 DEF Verdict, Knows
<1>10. QED
  BY <1>2, <1>6, <1>8, <1>9 DEF Verdict

-------------------------------------------------------------------------------
\* The steps of a worker inside its loop.
LEMMA OrderedAtRun ==
  ASSUME NEW stage \in AtRun, NEW l, l.plan = {}, l.got[l.run] # "none",
         \A r \in Runs : l.got[r] # "none" => l.known[r] = "none",
         \A r \in Runs : l.known[r] = "none" => TargetOf[r] \in l.todo \/ l.got[r] # "none"
  PROVE  Ordered(stage, l)
  BY DEF Ordered, Ahead, AtRun

LEMMA ExecuteMoves ==
  ASSUME TypeInv, Verdict, NEW w \in Workers, NEW o \in AdapterOutcomes, Execute(w, o)
  PROVE  Moves(w)
<1> DEFINE l == [wk[w] EXCEPT !.got[wk[w].run] = o]
           next == [l EXCEPT !.then = "start", !.run = NoRun]
           first(r) == [l EXCEPT !.then = StepFor(l, r), !.run = r]
<1>0. wk[w] \in Worker /\ Stage(w) = "execute" /\ o # "none"
  BY LocalType, ConstantsAssumption DEF Execute, Stage, StageOf, CheckPcs, ClosePcs
<1>1. /\ wk[w].run \in Runs /\ wk[w].known[wk[w].run] = "none"
      /\ \A r \in Runs : r \in wk[w].plan \/ wk[w].got[r] # "none" => wk[w].known[r] = "none"
      /\ \A r \in Runs : wk[w].known[r] = "none" => Ahead("execute", wk[w], r)
  BY <1>0 DEF Verdict, Ordered, Working
<1>2. /\ l.plan = wk[w].plan /\ l.known = wk[w].known /\ l.todo = wk[w].todo
      /\ l.attempt = wk[w].attempt /\ l.got = [wk[w].got EXCEPT ![wk[w].run] = o]
  BY <1>0 DEF Worker
<1>3. wk[w].got \in [Runs -> AdapterResult \cup {"none"}]
  BY <1>0 DEF Worker
<1>4. \A r \in Runs : l.got[r] = IF r = wk[w].run THEN o ELSE wk[w].got[r]
  BY <1>1, <1>2, <1>3
<1>5. l = [l EXCEPT !.got = l.got] /\ DOMAIN l = DOMAIN wk[w]
  BY <1>0 DEF Worker
<1>6. /\ next.plan = l.plan /\ next.known = l.known /\ next.todo = l.todo /\ next.got = l.got
      /\ next.attempt = l.attempt /\ next.then = "start"
  BY <1>0 DEF Worker
<1>7. \A r : /\ first(r).plan = l.plan /\ first(r).known = l.known /\ first(r).todo = l.todo
             /\ first(r).got = l.got /\ first(r).attempt = l.attempt /\ first(r).run = r
             /\ first(r).then = StepFor(l, r)
  BY <1>0 DEF Worker
<1>8. UNCHANGED left
  BY DEF Execute
<1>9. \/ l.plan # {} /\ Become(w, "check", next)
      \/ l.plan = {} /\ \E r \in Executions(l) : Become(w, "check", first(r))
  BY DEF Execute
<1> HIDE DEF l, next, first
<1>10. CASE l.plan # {} /\ Become(w, "check", next)
  <2>1. Ordered("start", next) /\ StageOf("check", next) = "start"
    BY <1>0, <1>1, <1>2, <1>4, <1>6 DEF Ordered, Ahead, AtRun, StageOf, CheckPcs, ClosePcs
  <2>2. QED
    BY <1>0, <1>2, <1>6, <1>8, <1>10, <2>1, BecomeObeys DEF Moves, Continues, Working, Steps
<1>11. ASSUME l.plan = {}, NEW r \in Executions(l), Become(w, "check", first(r))
       PROVE  Moves(w)
  <2>1. StepFor(l, r) \in AtRun /\ r \in Runs /\ l.got[r] # "none"
    BY <1>11 DEF StepFor, AtRun, Executions
  <2>2. PICK m : m = first(r)
    OBVIOUS
  <2>3. /\ m.plan = {} /\ m.known = wk[w].known /\ m.todo = wk[w].todo /\ m.got = l.got
        /\ m.attempt = wk[w].attempt /\ m.run = r /\ m.then = StepFor(l, r)
    BY <1>2, <1>7, <1>11, <2>2
  <2>4. /\ m.got[m.run] # "none"
        /\ \A q \in Runs : m.got[q] # "none" => m.known[q] = "none"
    BY <1>1, <1>4, <2>1, <2>3
  <2>5. \A q \in Runs : m.known[q] = "none" => TargetOf[q] \in m.todo \/ m.got[q] # "none"
    BY <1>0, <1>1, <1>2, <1>4, <1>11, <2>3 DEF Ahead
  <2>6. Ordered(StepFor(l, r), m) /\ StageOf("check", m) = StepFor(l, r)
    BY <2>1, <2>3, <2>4, <2>5, OrderedAtRun DEF StageOf, CheckPcs
  <2>7. QED
    BY <1>0, <1>8, <1>11, <2>1, <2>2, <2>3, <2>6, BecomeObeys
       DEF Moves, Continues, Working, Steps, AtRun
<1>12. QED
  BY <1>9, <1>10, <1>11

LEMMA AnnounceVerdict ==
  ASSUME TypeInv, Attempts, ClosingSafe, Verdict, NEW w \in Workers, NEW r \in Runs, Announce(w, r)
  PROVE  Verdict' /\ ResultsKept
<1> DEFINE rest == wk[w].plan \ {r}
           last == [wk[w] EXCEPT !.then = "start", !.plan = Remaining(wk[w], TargetOf[r])]
           next == [wk[w] EXCEPT !.then = "announce", !.plan = rest]
<1>0. wk[w] \in Worker /\ Stage(w) = "announce" /\ HoldsLease(scan, wk[w].attempt)
  BY LocalType DEF Announce, Fenced, Stage, StageOf, CheckPcs, ClosePcs
<1>1. /\ r \in wk[w].plan /\ wk[w].known[r] = "none"
      /\ \A q \in Runs : q \in wk[w].plan \/ wk[w].got[q] # "none" => wk[w].known[q] = "none"
      /\ \A p, q \in wk[w].plan : TargetOf[p] = TargetOf[q]
      /\ \A q \in Runs : wk[w].known[q] = "none" => Ahead("announce", wk[w], q)
  BY <1>0 DEF Announce, Verdict, Ordered, Working, Steps
<1>2. /\ last.known = wk[w].known /\ last.todo = wk[w].todo /\ last.got = wk[w].got
      /\ last.attempt = wk[w].attempt /\ last.then = "start"
      /\ last.plan = {q \in Runs : TargetOf[q] = TargetOf[r] /\ wk[w].known[q] = "none"}
      /\ next.known = wk[w].known /\ next.todo = wk[w].todo /\ next.got = wk[w].got
      /\ next.attempt = wk[w].attempt /\ next.then = "announce" /\ next.plan = rest
  BY <1>0 DEF Worker, Remaining
<1>3. /\ UNCHANGED <<scan, reused, left>> /\ runs' = [runs EXCEPT ![r] = "queued"]
      /\ \/ Become(w, "event", last) /\ rest = {}
         \/ Become(w, "event", next) /\ rest # {}
  BY DEF Announce
<1> HIDE DEF rest, last, next
<1>4. CASE Become(w, "event", last)
  <2>1. Ordered("start", last) /\ StageOf("event", last) = "start"
    BY <1>1, <1>2 DEF Ordered, Ahead, AtRun, StageOf
  <2>2. Obeys(w) /\ wk'[w] = last
    BY <1>3, <1>4, <2>1, BecomeObeys
  <2>3. QED
    BY <1>0, <1>1, <1>2, <1>3, <2>2, Fencing DEF DoneRun, Working, Steps
<1>5. CASE Become(w, "event", next) /\ rest # {}
  <2>1. Ordered("announce", next) /\ StageOf("event", next) = "announce"
    BY <1>1, <1>2, <1>5 DEF rest, Ordered, Ahead, AtRun, StageOf
  <2>2. Obeys(w) /\ wk'[w] = next
    BY <1>3, <1>5, <2>1, BecomeObeys
  <2>3. QED
    BY <1>0, <1>1, <1>2, <1>3, <2>2, Fencing DEF DoneRun, Working, Steps
<1>6. QED
  BY <1>3, <1>4, <1>5

LEMMA StartVerdict ==
  ASSUME TypeInv, Attempts, ClosingSafe, Verdict, NEW w \in Workers, NEW r \in Runs, Start(w, r)
  PROVE  Verdict' /\ ResultsKept
<1> DEFINE l == [wk[w] EXCEPT !.then = "execute", !.run = r, !.plan = @ \ {r}]
<1>0. wk[w] \in Worker /\ Stage(w) = "start" /\ HoldsLease(scan, wk[w].attempt)
  BY LocalType DEF Start, Fenced, Stage, StageOf, CheckPcs, ClosePcs
<1>1. /\ r \in wk[w].plan /\ wk[w].known[r] = "none"
      /\ \A q \in Runs : q \in wk[w].plan \/ wk[w].got[q] # "none" => wk[w].known[q] = "none"
      /\ \A q \in Runs : wk[w].known[q] = "none" => Ahead("start", wk[w], q)
  BY <1>0 DEF Start, Verdict, Ordered, Working, Steps
<1>2. /\ l.known = wk[w].known /\ l.todo = wk[w].todo /\ l.got = wk[w].got /\ l.run = r
      /\ l.attempt = wk[w].attempt /\ l.then = "execute" /\ l.plan = wk[w].plan \ {r}
  BY <1>0 DEF Worker
<1>3. /\ UNCHANGED <<scan, reused, left>> /\ runs' = [runs EXCEPT ![r] = "running"]
      /\ Become(w, "event", l)
  BY DEF Start
<1> HIDE DEF l
<1>4. Ordered("execute", l) /\ StageOf("event", l) = "execute"
  BY <1>1, <1>2 DEF Ordered, Ahead, AtRun, StageOf
<1>5. Obeys(w) /\ wk'[w] = l
  BY <1>3, <1>4, BecomeObeys
<1>6. QED
  BY <1>0, <1>1, <1>2, <1>3, <1>5, Fencing DEF DoneRun, Working, Steps

\* The result of a run: stored and known in one step.
LEMMA RecordVerdict ==
  ASSUME TypeInv, Attempts, ClosingSafe, Verdict, NEW w \in Workers, RecordRun(w)
  PROVE  Verdict' /\ ResultsKept
<1> DEFINE r == wk[w].run
           l == [wk[w] EXCEPT !.known[r] = wk[w].got[r], !.got[r] = "none", !.run = NoRun]
           next(q) == [l EXCEPT !.then = StepFor(l, q), !.run = q]
           last == [l EXCEPT !.then = IF l.todo = {} THEN "finish" ELSE "target"]
<1>0. wk[w] \in Worker /\ Stage(w) = "record" /\ HoldsLease(scan, wk[w].attempt) /\ r \in Runs
  BY LocalType DEF RecordRun, Fenced, Stage, StageOf, CheckPcs, ClosePcs, Placed, AtRun
<1>1. /\ wk[w].plan = {} /\ wk[w].got[r] # "none" /\ wk[w].known[r] = "none"
      /\ \A q \in Runs : wk[w].got[q] # "none" => wk[w].known[q] = "none"
      /\ \A q \in Runs : wk[w].known[q] = "none" => Ahead("record", wk[w], q)
  BY <1>0 DEF Verdict, Ordered, Working, Steps, AtRun
<1>2. wk[w].got[r] \in DoneRun
  BY <1>0, <1>1 DEF Worker, AdapterResult, DoneRun
<1>3. /\ l.known = [wk[w].known EXCEPT ![r] = wk[w].got[r]] /\ l.plan = {}
      /\ l.got = [wk[w].got EXCEPT ![r] = "none"] /\ l.todo = wk[w].todo
      /\ l.attempt = wk[w].attempt
  BY <1>0, <1>1 DEF Worker
<1>4. wk[w].got \in [Runs -> AdapterResult \cup {"none"}]
      /\ wk[w].known \in [Runs -> DoneRun \cup {"none"}]
  BY <1>0 DEF Worker
<1>5. \A q \in Runs : /\ l.got[q] = IF q = r THEN "none" ELSE wk[w].got[q]
                      /\ l.known[q] = IF q = r THEN wk[w].got[r] ELSE wk[w].known[q]
  BY <1>0, <1>3, <1>4
<1>6. /\ last.known = l.known /\ last.plan = l.plan /\ last.got = l.got /\ last.todo = l.todo
      /\ last.attempt = l.attempt /\ last.then = IF l.todo = {} THEN "finish" ELSE "target"
  BY <1>0 DEF Worker
<1>7. \A q : /\ next(q).known = l.known /\ next(q).plan = l.plan /\ next(q).got = l.got
             /\ next(q).todo = l.todo /\ next(q).attempt = l.attempt /\ next(q).run = q
             /\ next(q).then = StepFor(l, q)
  BY <1>0 DEF Worker
<1>8. /\ UNCHANGED <<scan, reused, left>> /\ runs' = [runs EXCEPT ![r] = wk[w].got[r]]
      /\ \/ \E q \in Executions(l) : Become(w, "event", next(q))
         \/ Executions(l) = {} /\ Become(w, "event", last)
  BY DEF RecordRun
<1> HIDE DEF r, l, next, last
<1>9. ASSUME NEW m, m.known = l.known, m.attempt = l.attempt, Obeys(w), wk'[w] = m
      PROVE  Verdict' /\ ResultsKept
  <2>1. /\ wk'[w].attempt = wk[w].attempt
        /\ wk'[w].known = [wk[w].known EXCEPT ![r] = wk[w].got[r]]
    BY <1>3, <1>9
  <2>2. Stage(w) \in Working
    BY <1>0 DEF Working, Steps
  <2>3. UNCHANGED <<scan, reused>>
    BY <1>8
  <2>4. QED
    BY <1>0, <1>1, <1>2, <1>8, <1>9, <2>1, <2>2, <2>3, Fencing
<1>10. ASSUME NEW q \in Executions(l), Become(w, "event", next(q))
       PROVE  Verdict' /\ ResultsKept
  <2>1. StepFor(l, q) \in AtRun /\ q \in Runs /\ l.got[q] # "none"
    BY <1>10 DEF StepFor, AtRun, Executions
  <2>2. PICK m : m = next(q)
    OBVIOUS
  <2>3. /\ m.plan = {} /\ m.known = l.known /\ m.todo = wk[w].todo /\ m.got = l.got
        /\ m.attempt = l.attempt /\ m.run = q /\ m.then = StepFor(l, q)
    BY <1>3, <1>7, <2>2
  <2>4. /\ m.got[m.run] # "none"
        /\ \A p \in Runs : m.got[p] # "none" => m.known[p] = "none"
    BY <1>1, <1>5, <2>1, <2>3
  <2>5. \A p \in Runs : m.known[p] = "none" => TargetOf[p] \in m.todo \/ m.got[p] # "none"
    BY <1>1, <1>5, <2>3 DEF Ahead
  <2>6. Ordered(StepFor(l, q), m) /\ StageOf("event", m) = StepFor(l, q)
    BY <2>1, <2>3, <2>4, <2>5, OrderedAtRun DEF StageOf
  <2>7. Obeys(w) /\ wk'[w] = m
    BY <1>8, <1>10, <2>2, <2>6, BecomeObeys
  <2>8. QED
    BY <1>9, <2>3, <2>7
<1>11. CASE Executions(l) = {} /\ Become(w, "event", last)
  <2>1. \A q \in Runs : l.got[q] = "none"
    BY <1>11 DEF Executions
  <2>2. last.then \in {"target", "finish"} /\ (last.then = "finish" => last.todo = {})
    BY <1>6
  <2>3. \A q \in Runs : last.known[q] = "none" => TargetOf[q] \in last.todo
    BY <1>1, <1>2, <1>5, <1>6, <1>3, <2>1 DEF Ahead, DoneRun
  <2>4. Ordered(last.then, last) /\ StageOf("event", last) = last.then
    BY <1>3, <1>6, <2>1, <2>2, <2>3 DEF Ordered, Ahead, AtRun, StageOf
  <2>5. Obeys(w) /\ wk'[w] = last
    BY <1>8, <1>11, <2>4, BecomeObeys
  <2>6. QED
    BY <1>6, <1>9, <2>5
<1>12. QED
  BY <1>8, <1>10, <1>11

-------------------------------------------------------------------------------
\* The end of the loop: the verdict of a worker that still holds the lease is the
\* one the store calls for.
LEMMA FinishVerdict ==
  ASSUME TypeInv, ClosingSafe, Verdict, NEW w \in Workers, FinishScan(w)
  PROVE  Verdict' /\ ResultsKept
<1> DEFINE code == FinalCode(wk[w].known)
           l == [wk[w] EXCEPT !.then = "leave"]
<1>0. /\ wk[w] \in Worker /\ Stage(w) = "finish" /\ scan \in Scan /\ UNCHANGED <<runs, reused>>
      /\ scan' = Finished(scan, wk[w].attempt, StateOfCode(code), code)
  BY LocalType, StoreIfChangedStores
     DEF FinishScan, Stage, StageOf, CheckPcs, ClosePcs, TypeInv, TypeOK
<1>1. l.plan = wk[w].plan /\ l.got = wk[w].got /\ l.known = wk[w].known /\ l.then = "leave"
  BY <1>0 DEF Worker, Then
<1>2. /\ wk[w].plan = {} /\ (\A r \in Runs : wk[w].got[r] = "none") /\ wk[w].todo = {}
      /\ \A r \in Runs : wk[w].known[r] = "none" => Ahead("finish", wk[w], r)
  BY <1>0 DEF Verdict, Ordered, Working, Steps
<1>3. Moves(w)
  <2>1. CASE EndJob(w, "gone")
    BY <2>1, EndJobMoves
  <2>2. CASE Become(w, "check", l) /\ UNCHANGED left
    <3> HIDE DEF l
    <3>1. StageOf("check", l) = "leave"
      BY <1>1 DEF StageOf, CheckPcs
    <3>2. QED
      BY <1>1, <1>2, <2>2, <3>1, BecomeOutside DEF Working, Steps
  <2>3. QED
    BY <2>1, <2>2 DEF FinishScan
<1>4. CASE ~HoldsLease(scan, wk[w].attempt)
  BY <1>0, <1>3, <1>4, MovesVerdict DEF Finished, Modest
<1>5. CASE HoldsLease(scan, wk[w].attempt)
  <2>1. scan'.outcome_code = code /\ scan'.state = StateOfCode(code)
    BY <1>0, <1>5 DEF Finished, Scan
  <2>2. scan'.state # "running"
    BY <2>1 DEF StateOfCode
  <2>3. Listed'
    BY <1>0, <1>3 DEF Verdict, Listed, Moves, Obeys
  <2>4. \A v \in Workers : v # w => Stage(v)' = Stage(v) /\ wk'[v] = wk[v]
    BY <1>3 DEF Moves, Obeys, Stage, StageOf, Closers
  <2>5. \A v \in Workers : Ordered(Stage(v), wk[v])'
    BY <1>3, <2>4 DEF Verdict, Moves, Obeys, Ordered, Ahead
  <2>6. \A v \in Workers : Knows(v)'
    BY <2>2 DEF Knows, HoldsLease
  <2>7. ASSUME ~reused PROVE code = FinalCode(DurableResults) /\ LiveRuns = {}
    <3>1. \A r \in Runs : wk[w].known[r] = DurableResults[r]
      BY <1>0, <1>5, <2>7 DEF Verdict, Knows, Working
    <3>2. wk[w].known = [r \in Runs |-> wk[w].known[r]]
      BY <1>0 DEF Worker
    <3>3. wk[w].known = DurableResults
      BY <3>1, <3>2 DEF DurableResults
    <3>4. \A r \in Runs : wk[w].known[r] # "none"
      BY <1>2 DEF Ahead
    <3>5. \A r \in Runs : runs[r] \in DoneRun
      BY <3>1, <3>4 DEF DurableResults
    <3>6. LiveRuns = {}
      BY <3>5 DEF LiveRuns, LiveRun, DoneRun
    <3>7. QED
      BY <3>3, <3>6
  <2>8. DurableResults' = DurableResults /\ LiveRuns' = LiveRuns
    BY <1>0 DEF DurableResults, LiveRuns
  <2>9. OutcomeAgrees' /\ ResultsKept
    <3>1. FinalCode(DurableResults)' = FinalCode(DurableResults')
      BY DEF FinalCode, Counted, Covered
    <3>2. FinalCode(DurableResults') = FinalCode(DurableResults)
      BY <2>8
    <3> HIDE DEF code
    <3>3. QED
      BY <1>0, <2>1, <2>7, <2>8, <3>1, <3>2 DEF OutcomeAgrees, ResultsKept, StateOfCode
  <2>10. QED
    BY <2>3, <2>5, <2>6, <2>9 DEF Verdict
<1>6. QED
  BY <1>4, <1>5

LEMMA LoadVerdict ==
  ASSUME TypeInv, Verdict, NEW w \in Workers, Load(w) \/ Reload(w) \/ Fetch(w)
  PROVE  Verdict' /\ ResultsKept
<1> DEFINE return == [wk[w] EXCEPT !.then = "return"]
           claim == [wk[w] EXCEPT !.attempt = WorkerAttempt(scan, wk[w].try)]
<1>0. wk[w] \in Worker /\ scan \in Scan /\ UNCHANGED <<scan, runs, reused>>
  BY LocalType DEF Load, Reload, Fetch, Deliver, durable, TypeInv, TypeOK
<1>1. Modest(scan')
  BY <1>0 DEF Modest
<1>2. CASE Become(w, "check", return) /\ UNCHANGED left
  <2>1. /\ return.then = "return" /\ return.plan = wk[w].plan /\ return.got = wk[w].got
        /\ return.known = wk[w].known
    BY <1>0 DEF Worker
  <2>2. \A r \in Runs : r \in return.plan \/ return.got[r] # "none" => return.known[r] = "none"
    BY <2>1 DEF Verdict, Ordered
  <2> HIDE DEF return
  <2>3. StageOf("check", return) = "return"
    BY <2>1 DEF StageOf, CheckPcs
  <2>4. Moves(w)
    BY <1>2, <2>2, <2>3, BecomeOutside DEF Working, Steps
  <2>5. QED
    BY <1>0, <1>1, <2>4, MovesVerdict
<1>3. CASE pc[w] = "load" /\ Become(w, "claim", claim) /\ UNCHANGED left
  <2>1. Stage(w) = "load"
    BY <1>3 DEF Stage, StageOf, CheckPcs, ClosePcs
  <2>2. claim.plan = {} /\ \A r \in Runs : claim.got[r] = "none"
    BY <1>0, <2>1 DEF Worker, Verdict, Ordered
  <2> HIDE DEF claim
  <2>3. Ordered("claim", claim) /\ StageOf("claim", claim) = "claim"
    BY <2>2, OrderedIdle DEF StageOf, CheckPcs, ClosePcs, Working, Steps
  <2>4. Moves(w)
    BY <1>3, <2>3, BecomeObeys DEF Moves, Continues, Working, Steps
  <2>5. QED
    BY <1>0, <1>1, <2>4, MovesVerdict
<1>4. CASE EndJob(w, "gone")
  BY <1>0, <1>1, <1>4, EndJobMoves, MovesVerdict
<1>5. CASE Fetch(w)
  <2>1. PICK job \in Jobs : Deliver(w, job)
    BY <1>5 DEF Fetch
  <2> DEFINE l == [IdleWorker EXCEPT !.job = job, !.try = queue[job].tries + 1]
  <2>2. Become(w, "load", l) /\ UNCHANGED left
    BY <2>1 DEF Deliver
  <2>3. l.plan = {} /\ \A r \in Runs : l.got[r] = "none"
    BY DEF IdleWorker, Nothing
  <2> HIDE DEF l
  <2>4. Ordered("load", l) /\ StageOf("load", l) = "load"
    BY <2>3, OrderedIdle DEF StageOf, CheckPcs, ClosePcs, Working, Steps
  <2>5. Moves(w)
    BY <2>2, <2>4, BecomeObeys DEF Moves, Continues, Working, Steps
  <2>6. QED
    BY <1>0, <1>1, <2>5, MovesVerdict
<1>6. QED
  BY <1>2, <1>3, <1>4, <1>5 DEF Load, Reload

\* A closer works on a frozen record, and what it replaces is open or closed
\* already.
LEMMA ClosingVerdict ==
  ASSUME TypeInv, ClosingSafe, Verdict, NEW p \in Closers, Closing(p)
  PROVE  Verdict' /\ ResultsKept
<1>0. Frozen(scan) /\ UNCHANGED <<scan, wk, reused>>
  BY DEF Closing, CloseList, CloseWrite, ClosingSafe, SafeCloser, Committed, ClosePcs, durable
<1>1. \A n : ~HoldsLease(scan', n)
  BY <1>0 DEF HoldsLease, Frozen, Terminal, TerminalScanStates
<1>2. p \in Procs /\ pc[p] \in ClosePcs
  BY DEF Procs, Closing, CloseList, CloseWrite, ClosePcs
<1>3. PICK where \in ClosePcs : Goto(p, where)
  BY DEF Closing, CloseList, CloseWrite, ClosePcs
<1>4. pc'[p] = where /\ \A q \in Procs \ {p} : pc'[q] = pc[q]
  BY <1>2, <1>3 DEF Goto, TypeInv, TypeOK
<1>5. \A v \in Workers : Stage(v)' = Stage(v) /\ wk'[v] = wk[v]
  BY <1>0, <1>2, <1>4 DEF Stage, StageOf, CheckPcs, Procs, Closers
<1>6. \A v \in Workers : Ordered(Stage(v), wk[v])'
  BY <1>5 DEF Verdict, Ordered, Ahead
<1>7. \A v \in Workers : Knows(v)'
  BY <1>1 DEF Knows
<1>8. CASE CloseList(p)
  <2>1. UNCHANGED runs /\ LiveRuns' = LiveRuns /\ DurableResults' = DurableResults
    BY <1>8 DEF CloseList, durable, LiveRuns, DurableResults
  <2>2. Listed'
    BY <1>4, <1>8, <2>1 DEF Verdict, Listed, CloseList, LiveRuns, TypeInv, TypeOK, Procs
  <2>3. OutcomeAgrees' /\ ResultsKept
    BY <1>0, <2>1 DEF Verdict, OutcomeAgrees, ResultsKept, DurableResults, LiveRuns
  <2>4. QED
    BY <1>6, <1>7, <2>2, <2>3 DEF Verdict
<1>9. ASSUME NEW r \in Runs, CloseWrite(p, r) PROVE Verdict' /\ ResultsKept
  <2>1. /\ pc[p] = "closewrite" /\ r \in left[p] /\ runs[r] \in LiveRun \cup {"cancelled"}
        /\ runs' = [runs EXCEPT ![r] = "cancelled"] /\ left' = [left EXCEPT ![p] = @ \ {r}]
    BY <1>9 DEF CloseWrite, Verdict, Listed
  <2>2. \A q \in Runs : runs'[q] = IF q = r THEN "cancelled" ELSE runs[q]
    BY <2>1 DEF TypeInv, TypeOK
  <2>3. Listed'
    <3>1. ASSUME NEW q \in Closers, pc'[q] = "closewrite", NEW s \in left'[q]
          PROVE  runs'[s] \in LiveRun \cup {"cancelled"}
      <4>1. pc[q] = "closewrite" /\ s \in left[q] /\ s \in Runs
        BY <1>4, <2>1, <3>1 DEF TypeInv, TypeOK, Procs
      <4>2. runs[s] \in LiveRun \cup {"cancelled"}
        BY <4>1 DEF Verdict, Listed
      <4>3. QED
        BY <2>2, <4>1, <4>2
    <3>2. QED
      BY <3>1 DEF Listed
  <2>4. ResultsKept
    BY <2>1, <2>2 DEF ResultsKept, AdapterResult, LiveRun
  <2>5. OutcomeAgrees'
    <3>1. CASE ~reused /\ scan.outcome_code \in CompletionCodes
      <4>1. runs[r] = "cancelled"
        BY <2>1, <3>1 DEF Verdict, OutcomeAgrees, LiveRuns
      <4>2. runs' = runs
        BY <2>1, <4>1 DEF TypeInv, TypeOK
      <4>3. QED
        BY <1>0, <4>2 DEF Verdict, OutcomeAgrees, DurableResults, LiveRuns
    <3>2. QED
      BY <1>0, <3>1 DEF OutcomeAgrees
  <2>6. QED
    BY <1>6, <1>7, <2>3, <2>4, <2>5 DEF Verdict
<1>10. QED
  BY <1>8, <1>9 DEF Closing

LEMMA WorkVerdict ==
  ASSUME TypeInv, Attempts, ClosingSafe, Verdict, NEW w \in Workers, Work(w)
  PROVE  Verdict' /\ ResultsKept
<1>0. wk[w] \in Worker /\ scan \in Scan /\ w \in Closers
  BY LocalType DEF TypeInv, TypeOK, Closers
<1>1. Modest(scan) /\ Modest(CancellationAcknowledged(scan))
  BY <1>0, ModestRecords DEF CompletionCodes
<1>2. ASSUME Moves(w), UNCHANGED <<scan, runs, reused>> PROVE Verdict' /\ ResultsKept
  BY <1>1, <1>2, MovesVerdict
<1>3. CASE Check(w)
  <2>1. UNCHANGED <<scan, runs, reused>> /\ pc[w] = "check"
    BY <1>3 DEF Check, durable
  <2>2. CASE Goto(w, "closelist") /\ UNCHANGED <<left, wk>>
    <3>1. StageOf("closelist", wk[w]) = Stage(w)
      BY <2>1 DEF Stage, StageOf, CheckPcs, ClosePcs
    <3>2. QED
      BY <1>2, <2>1, <2>2, <3>1, GotoSame
  <2>3. CASE StopAt(w, scan) \/ GoOn(w)
    BY <1>2, <2>1, <2>3, StopAtMoves, GoOnMoves DEF CheckPcs
  <2>4. QED
    BY <1>3, <2>2, <2>3 DEF Check
<1>4. CASE LosesFence(w)
  <2>1. Moves(w)
    BY <1>0, <1>4, ForgetMoves DEF LosesFence, Worker
  <2>2. QED
    BY <1>2, <1>4, <2>1 DEF LosesFence, durable
<1>5. CASE \E o \in AdapterOutcomes : Execute(w, o)
  <2>1. Moves(w)
    BY <1>5, ExecuteMoves
  <2>2. QED
    BY <1>2, <1>5, <2>1 DEF Execute, durable
<1>6. CASE AddEvent(w)
  <2> DEFINE l == [wk[w] EXCEPT !.then = "-"]
  <2>1. UNCHANGED <<scan, runs, reused, left>> /\ pc[w] = "event" /\ Stage(w) = wk[w].then
    BY <1>6 DEF AddEvent, Fenced, durable, Stage, StageOf
  <2>2. CASE wk[w].then \in {"execute", "finish"} /\ Become(w, wk[w].then, l)
    <3>1. /\ l.plan = wk[w].plan /\ l.got = wk[w].got /\ l.known = wk[w].known /\ l.run = wk[w].run
          /\ l.todo = wk[w].todo /\ l.attempt = wk[w].attempt
      BY <1>0 DEF Worker
    <3>2. StageOf(wk[w].then, l) = Stage(w)
      BY <2>1, <2>2 DEF StageOf, CheckPcs, ClosePcs
    <3> HIDE DEF l
    <3>3. Moves(w)
      BY <2>1, <2>2, <3>1, <3>2, BecomeSame
    <3>4. QED
      BY <1>2, <2>1, <3>3
  <2>3. CASE Goto(w, "check") /\ UNCHANGED wk
    <3>1. StageOf("check", wk[w]) = Stage(w)
      BY <2>1 DEF StageOf, CheckPcs
    <3>2. QED
      BY <1>2, <2>1, <2>3, <3>1, GotoSame
  <2>4. QED
    BY <1>6, <2>2, <2>3 DEF AddEvent
<1>7. CASE AddFinding(w)
  <2> DEFINE l == [wk[w] EXCEPT !.then = "record"]
  <2>1. UNCHANGED <<scan, runs, reused, left>> /\ Stage(w) = "finding" /\ Become(w, "check", l)
    BY <1>7 DEF AddFinding, Fenced, Stage, StageOf, CheckPcs, ClosePcs
  <2>2. /\ l.plan = wk[w].plan /\ l.got = wk[w].got /\ l.known = wk[w].known /\ l.run = wk[w].run
        /\ l.todo = wk[w].todo /\ l.attempt = wk[w].attempt /\ l.then = "record"
    BY <1>0 DEF Worker, Then, Steps
  <2>3. /\ wk[w].plan = {} /\ wk[w].got[wk[w].run] # "none"
        /\ \A r \in Runs : wk[w].got[r] # "none" => wk[w].known[r] = "none"
        /\ \A r \in Runs : wk[w].known[r] = "none" => Ahead("finding", wk[w], r)
    BY <2>1 DEF Verdict, Ordered, Working, Steps, AtRun
  <2> HIDE DEF l
  <2>4. Ordered("record", l) /\ StageOf("check", l) = "record"
    BY <2>2, <2>3, OrderedAtRun DEF Ahead, AtRun, StageOf, CheckPcs
  <2>5. Moves(w)
    BY <2>1, <2>2, <2>4, BecomeObeys DEF Moves, Continues, Working, Steps
  <2>6. QED
    BY <1>2, <2>1, <2>5
<1>8. CASE FailScan(w)
  <2> DEFINE l == [wk[w] EXCEPT !.then = "failed"]
             state == IF FinalAttempt(w) THEN "failed" ELSE "running"
             code == IF FinalAttempt(w) THEN "worker_failure" ELSE "retryable_worker_failure"
  <2>1. scan' = Finished(scan, wk[w].attempt, state, code) /\ UNCHANGED <<runs, reused>>
    BY <1>8, StoreIfChangedStores DEF FailScan
  <2>2. Modest(scan')
    BY <1>0, <2>1, ModestRecords DEF CompletionCodes
  <2>3. CASE Become(w, "check", l) /\ UNCHANGED left
    <3>1. /\ l.then = "failed" /\ l.plan = wk[w].plan /\ l.got = wk[w].got /\ l.known = wk[w].known
      BY <1>0 DEF Worker
    <3>2. \A r \in Runs : r \in l.plan \/ l.got[r] # "none" => l.known[r] = "none"
      BY <3>1 DEF Verdict, Ordered
    <3> HIDE DEF l
    <3>3. StageOf("check", l) = "failed"
      BY <3>1 DEF StageOf, CheckPcs
    <3>4. Moves(w)
      BY <2>3, <3>2, <3>3, BecomeOutside DEF Working, Steps
    <3>5. QED
      BY <2>1, <2>2, <3>4, MovesVerdict
  <2>4. CASE RaiseFailure(w)
    BY <2>1, <2>2, <2>4, RaiseFailureMoves, MovesVerdict
  <2>5. QED
    BY <1>8, <2>3, <2>4 DEF FailScan
<1>9. CASE WorkerAck(w)
  <2>1. scan' = CancellationAcknowledged(scan) /\ UNCHANGED <<runs, reused>> /\ pc[w] \in CheckPcs
    BY <1>9, StoreIfChangedStores DEF WorkerAck, CheckPcs, ClosePcs
  <2>2. Moves(w)
    BY <1>9, <2>1, StopAtMoves, GoOnMoves DEF WorkerAck
  <2>3. QED
    BY <1>1, <2>1, <2>2, MovesVerdict
<1>10. QED
  BY <1>0, <1>3, <1>4, <1>5, <1>6, <1>7, <1>8, <1>9, LoadVerdict, ClaimVerdict, ListVerdict,
     AnnounceVerdict, StartVerdict, RecordVerdict, FinishVerdict, ClosingVerdict DEF Work

LEMMA StopVerdict ==
  ASSUME TypeInv, Verdict, NEW w \in Workers, Stop(w)
  PROVE  Verdict' /\ ResultsKept
<1>1. UNCHANGED <<scan, runs, reused>>
  BY DEF Stop, LeaseLost, AbortTask, JobTimeout, Crash, StoreFails, durable
<1>2. QED
  BY <1>1, StopMoves, MovesVerdict DEF Modest

-------------------------------------------------------------------------------
(* The API processes record no run and complete no scan. *)

LEMMA ApiVerdict ==
  ASSUME TypeInv, Verdict, NEW p \in Procs \ Workers, NEW where, where # "closewrite", Goto(p, where),
         UNCHANGED left \/ left' = [left EXCEPT ![p] = {}],
         UNCHANGED <<runs, wk, reused>>, Modest(scan')
  PROVE  Verdict' /\ ResultsKept
<1>1. Obeys(p)
  BY DEF Obeys, Goto, TypeInv, TypeOK, Closers, Procs
<1>2. QED
  BY <1>1, Locally DEF Modest

LEMMA DispatchVerdict ==
  ASSUME TypeInv, ClosingSafe, Verdict, Dispatch \/ SweepFails
  PROVE  Verdict' /\ ResultsKept
<1>0. Dispatcher \in Procs \ Workers /\ Dispatcher \in Closers /\ scan \in Scan
  BY ConstantsAssumption DEF Procs, Closers, TypeInv, TypeOK
<1>1. CASE Closing(Dispatcher)
  BY <1>0, <1>1, ClosingVerdict
<1>2. CASE ~Closing(Dispatcher)
  <2>1. PICK where \in {"closelist", "recover", "enqueue", "mark", "sweep"} : Goto(Dispatcher, where)
    BY <1>2 DEF Dispatch, Sweep, RecoverStaleScan, EnqueueRepair, MarkScanDispatched, DispatcherAck,
                SweepFails, Leave
  <2>2. UNCHANGED <<runs, wk, reused>> /\ (UNCHANGED left \/ left' = [left EXCEPT ![Dispatcher] = {}])
    BY <1>2 DEF Dispatch, Sweep, RecoverStaleScan, EnqueueRepair, MarkScanDispatched, DispatcherAck,
                SweepFails, durable
  <2>3. \/ scan' = scan
        \/ scan' = Recovered(scan, RecoveryJob(seen[Dispatcher]))
        \/ scan' = Dispatched(scan, seen[Dispatcher].job_id)
        \/ scan' = CancellationAcknowledged(scan)
    BY <1>2, StoreIfChangedStores
       DEF Dispatch, Sweep, RecoverStaleScan, EnqueueRepair, MarkScanDispatched, DispatcherAck,
           SweepFails, durable, Store
  <2>4. Modest(scan')
    BY <1>0, <2>3, ModestRecords DEF CompletionCodes
  <2>5. QED
    BY <1>0, <2>1, <2>2, <2>4, ApiVerdict
<1>3. QED
  BY <1>1, <1>2

LEMMA CreateVerdict ==
  ASSUME ~RewriteRaces, TypeInv, Verdict, NEW c \in Creators, Create(c)
  PROVE  Verdict' /\ ResultsKept
<1>0. c \in Procs \ Workers /\ scan \in Scan
  BY ConstantsAssumption DEF Procs, Closers, TypeInv, TypeOK
<1>1. PICK where \in {"off", "reread", "rewrite"} : Goto(c, where)
  BY DEF Create, EnqueueScan, EnqueueScanFails, RereadScan, RewriteScan, Leave
<1>2. UNCHANGED <<runs, wk, reused, left>>
  BY DEF Create, EnqueueScan, EnqueueScanFails, RereadScan, RewriteScan, durable
<1>3. scan' = scan \/ scan' = [scan EXCEPT !.outcome_code = "queue_retryable_failure"]
  BY DEF Create, EnqueueScan, EnqueueScanFails, RereadScan, RewriteScan, durable, Store
<1>4. Modest(scan')
  BY <1>0, <1>3, ModestRecords DEF CompletionCodes
<1>5. QED
  BY <1>0, <1>1, <1>2, <1>4, ApiVerdict

LEMMA CancelVerdict ==
  ASSUME TypeInv, ClosingSafe, Verdict, NEW c \in Cancellers, Cancel(c)
  PROVE  Verdict' /\ ResultsKept
<1>0. c \in Procs \ Workers /\ c \in Closers /\ scan \in Scan
  BY ConstantsAssumption DEF Procs, Closers, TypeInv, TypeOK
<1>1. CASE Closing(c)
  BY <1>0, <1>1, ClosingVerdict
<1>2. CASE ~Closing(c)
  <2>1. PICK where \in {"request", "closelist", "off", "abort", "await", "confirm", "refresh"} :
          Goto(c, where)
    BY <1>2 DEF Cancel, ReadForCancel, RequestCancellation, AbortJob, AwaitAbort,
                RefreshAfterAbort, CancelAck, Leave
  <2>2. UNCHANGED <<runs, wk, reused, left>>
    BY <1>2 DEF Cancel, ReadForCancel, RequestCancellation, AbortJob, AwaitAbort,
                RefreshAfterAbort, CancelAck, durable
  <2>3. \/ scan' = scan
        \/ scan' = CancellationRequested(scan)
        \/ scan' = CancellationAcknowledged(scan)
    BY <1>2, StoreIfChangedStores
       DEF Cancel, ReadForCancel, RequestCancellation, AbortJob, AwaitAbort, RefreshAfterAbort,
           CancelAck, durable, Store
  <2>4. Modest(scan')
    BY <1>0, <2>3, ModestRecords DEF CompletionCodes
  <2>5. QED
    BY <1>0, <2>1, <2>2, <2>4, ApiVerdict
<1>3. QED
  BY <1>1, <1>2

-------------------------------------------------------------------------------
LEMMA VerdictInit == Init => Verdict
<1> SUFFICES ASSUME Init PROVE Verdict
  OBVIOUS
<1>1. \A w \in Workers : pc[w] = "idle" /\ wk[w] = IdleWorker /\ Stage(w) = "idle"
  BY DEF Init, Procs, Closers, Stage, StageOf, CheckPcs, ClosePcs
<1>2. IdleWorker.plan = {} /\ \A r \in Runs : IdleWorker.got[r] = "none"
  BY DEF IdleWorker, Nothing
<1>3. \A w \in Workers : Ordered(Stage(w), wk[w]) /\ Knows(w)
  BY <1>1, <1>2, OrderedIdle DEF Knows, Working, Steps
<1>4. OutcomeAgrees
  BY DEF Init, InitialScan, OutcomeAgrees, CompletionCodes
<1>5. Listed
  BY DEF Init, Listed, Procs
<1>6. QED
  BY <1>3, <1>4, <1>5 DEF Verdict

LEMMA VerdictNext ==
  ASSUME ~RewriteRaces, TypeInv, Attempts, ClosingSafe, Verdict, [Next]_vars
  PROVE  Verdict' /\ ResultsKept
<1>1. CASE \E w \in Workers : Fetch(w) \/ Work(w) \/ Stop(w)
  BY <1>1, LoadVerdict, WorkVerdict, StopVerdict
<1>2. CASE UNCHANGED <<scan, runs, pc, left, wk, reused>>
  <2>1. /\ OutcomeAgrees' <=> OutcomeAgrees
        /\ Listed' <=> Listed
    BY <1>2 DEF OutcomeAgrees, DurableResults, LiveRuns, Listed
  <2>2. ASSUME NEW w \in Workers
        PROVE  (Ordered(Stage(w), wk[w])' <=> Ordered(Stage(w), wk[w])) /\ (Knows(w)' <=> Knows(w))
    <3>1. Stage(w)' = Stage(w) /\ wk'[w] = wk[w]
      BY <1>2 DEF Stage
    <3>2. QED
      BY <1>2, <3>1 DEF Ordered, Ahead, Knows, DurableResults
  <2>3. QED
    BY <1>2, <2>1, <2>2 DEF Verdict, ResultsKept
<1>3. ASSUME (\E w \in Workers : Heartbeat(w)) \/ LeaseAges \/ WorkerStalls \/ ArqDrops
             \/ UNCHANGED vars
      PROVE  UNCHANGED <<scan, runs, pc, left, wk, reused>>
  BY <1>3 DEF Heartbeat, LeaseAges, WorkerStalls, ArqDrops, DropAborted, DropExhausted, vars,
              durable
<1>4. QED
  BY <1>1, <1>2, <1>3, DispatchVerdict, CreateVerdict, CancelVerdict DEF Next

\* The verdict a scan ends with is the one its stored adapter runs call for, and
\* no run is left open: however many attempts counted them, whatever died or was
\* delivered twice, as long as no attempt number is installed twice.
THEOREM VerdictAgrees ==
  ASSUME ~RewriteRaces
  PROVE  Spec => []OutcomeAgrees
<1>1. TypeInv /\ Attempts /\ ClosingSafe /\ Verdict /\ [Next]_vars => Verdict'
  BY VerdictNext
<1>2. TypeInv /\ Attempts /\ [Next]_vars => Attempts'
  BY AttemptsNext
<1>3. TypeInv /\ ClosingSafe /\ [Next]_vars => ClosingSafe'
  BY ClosingNext
<1>4. Verdict => OutcomeAgrees
  BY DEF Verdict
<1>5. QED
  BY <1>1, <1>2, <1>3, <1>4, TypeInit, TypeStep, AttemptsInit, ClosingInit, VerdictInit, PTL
     DEF Spec

\* The stored result of a run is never replaced: not by a retry, not by a worker
\* that lost its lease, not by the closing of a cancelled scan.
THEOREM ResultsStay ==
  ASSUME ~RewriteRaces
  PROVE  Spec => ResultsAreFinal
<1>1. TypeInv /\ Attempts /\ ClosingSafe /\ Verdict /\ [Next]_vars => Verdict'
  BY VerdictNext
<1>2. TypeInv /\ Attempts /\ [Next]_vars => Attempts'
  BY AttemptsNext
<1>3. TypeInv /\ ClosingSafe /\ [Next]_vars => ClosingSafe'
  BY ClosingNext
<1>4. TypeInv /\ Attempts /\ ClosingSafe /\ Verdict /\ [Next]_vars
        => [~reused' => \A r \in Runs : runs[r] \in AdapterResult => runs'[r] = runs[r]]_vars
  BY VerdictNext DEF ResultsKept
<1>5. QED
  BY <1>1, <1>2, <1>3, <1>4, TypeInit, TypeStep, AttemptsInit, ClosingInit, VerdictInit, PTL
     DEF Spec, ResultsAreFinal

-------------------------------------------------------------------------------
(* The store, under the mapping of ScanLifecycle!RecordStore.              *)

\* A step or a stutter of the store.
Operates == [RecordStore!StoreNext]_(RecordStore!svars)

WithinBounds(s) ==
  /\ s.worker_attempt \in AttemptNumbers
  /\ s.state = "queued" => s.worker_attempt < MaxTries + MaxJob
  /\ s.job_id \in Jobs

\* The numbers stay in bounds, because a scan is queued again only by a recovery: the
\* lease it took back was stale since its sweep, so nobody claimed in between.
RecordBounded ==
  /\ WithinBounds(scan)
  /\ \A p \in Procs \ Workers : WithinBounds(seen[p])
  /\ lease = "stale" /\ pc[Dispatcher] = "recover" =>
       seen[Dispatcher].worker_attempt = scan.worker_attempt

WorkersBounded ==
  \A w \in Workers :
    /\ pc[w] = "load" => wk[w].try \in 0 .. MaxTries
    /\ pc[w] = "claim" \/ Active(w) => wk[w].attempt \in AttemptNumbers

Bounded == RecordBounded /\ WorkersBounded

\* The operations of the store.
LEMMA StoreAlone ==
  ASSUME UNCHANGED scan, lease' = "stale" => lease = "stale" \/ lease = "aged"
  PROVE  Operates
  BY DEF Operates, RecordStore!StoreNext, RecordStore!Expire, RecordStore!svars

LEMMA StoreClaims ==
  ASSUME NEW a \in AttemptNumbers, Claimable(scan, a), Store(Claimed(scan, a))
  PROVE  Operates
  BY DEF Operates, Store, Claimable, Claimed, RecordStore!StoreNext, RecordStore!ClaimScan,
         RecordStore!Claimable, RecordStore!Claimed, RecordStore!Write

LEMMA StoreTouched ==
  ASSUME NEW a \in AttemptNumbers, HoldsLease(scan, a), Store(scan)
  PROVE  Operates
  BY DEF Operates, Store, HoldsLease, RecordStore!StoreNext, RecordStore!TouchScanLease,
         RecordStore!HoldsLease, RecordStore!Write

LEMMA StoreRecovers ==
  ASSUME NEW j \in RecoveryJobs, lease = "stale", Recoverable(scan), Store(Recovered(scan, j))
  PROVE  Operates
  BY DEF Operates, Store, Recoverable, Recovered, RecordStore!StoreNext,
         RecordStore!RecoverStaleScan, RecordStore!Recoverable, RecordStore!Recovered,
         RecordStore!Write

LEMMA StoreFinishes ==
  ASSUME NEW a \in AttemptNumbers, NEW e \in Endings,
         StoreIfChanged(Finished(scan, a, e[1], e[2]))
  PROVE  Operates
<1>1. CASE UNCHANGED <<scan, lease>>
  BY <1>1, StoreAlone
<1>2. CASE HoldsLease(scan, a) /\ Store(Finished(scan, a, e[1], e[2]))
  BY <1>2 DEF Operates, Store, HoldsLease, Finished, RecordStore!StoreNext,
     RecordStore!FinishScan, RecordStore!HoldsLease, RecordStore!Finished, RecordStore!Write
<1>3. QED BY <1>1, <1>2 DEF StoreIfChanged, Finished

LEMMA StoreDispatches ==
  ASSUME NEW j \in Jobs, StoreIfChanged(Dispatched(scan, j))
  PROVE  Operates
<1>1. CASE UNCHANGED <<scan, lease>>
  BY <1>1, StoreAlone
<1>2. CASE Store(Dispatched(scan, j))
  <2>1. j \in RecoveryJobs \cup {0}
    BY DEF RecoveryJobs
  <2>2. QED
    BY <1>2, <2>1 DEF Operates, Store, Dispatched, RecordStore!StoreNext,
       RecordStore!MarkScanDispatched, RecordStore!Dispatched, RecordStore!Write
<1>3. QED BY <1>1, <1>2 DEF StoreIfChanged

LEMMA StoreCancels ==
  ASSUME \/ ~Terminal(scan) /\ Store(CancellationRequested(scan))
         \/ StoreIfChanged(CancellationAcknowledged(scan))
  PROVE  Operates
<1>1. CASE ~Terminal(scan) /\ Store(CancellationRequested(scan))
  BY <1>1 DEF Operates, Store, Terminal, TerminalScanStates, CancellationRequested,
     RecordStore!StoreNext, RecordStore!RequestCancellation, RecordStore!Terminal,
     RecordStore!TerminalScanStates, RecordStore!CancellationRequested, RecordStore!Write
<1>2. CASE UNCHANGED <<scan, lease>>
  BY <1>2, StoreAlone
<1>3. CASE ~Terminal(scan) /\ scan.cancel_requested /\ Store(CancellationAcknowledged(scan))
  BY <1>3 DEF Operates, Store, Terminal, TerminalScanStates, CancellationAcknowledged,
     RecordStore!StoreNext, RecordStore!AcknowledgeCancellation, RecordStore!Terminal,
     RecordStore!TerminalScanStates, RecordStore!CancellationAcknowledged, RecordStore!Write
<1>4. QED
  BY <1>1, <1>2, <1>3 DEF StoreIfChanged, CancellationAcknowledged

LEMMA StoreRewrites ==
  ASSUME NEW c \in Creators, seen[c] \in Scan,
         Store([seen[c] EXCEPT !.outcome_code = "queue_retryable_failure"])
  PROVE  Operates
<1>1. scan'.outcome_code = "queue_retryable_failure" /\ lease' = "fresh"
  BY DEF Store, Scan
<1>2. QED
  BY <1>1 DEF Operates, RecordStore!StoreNext, RecordStore!UpdateScan

-------------------------------------------------------------------------------
\* The record.
LEMMA InitialBounds == WithinBounds(InitialScan)
  BY ConstantsAssumption DEF WithinBounds, InitialScan, AttemptNumbers, Jobs

LEMMA OperationBounds ==
  ASSUME NEW s \in Scan, WithinBounds(s)
  PROVE  /\ WithinBounds(CancellationRequested(s))
         /\ WithinBounds(CancellationAcknowledged(s))
         /\ \A job : WithinBounds(Dispatched(s, job))
         /\ \A n \in AttemptNumbers : WithinBounds(Claimed(s, n))
         /\ \A n, state, code :
              state # "queued" => WithinBounds(Finished(s, n, state, code))
<1> USE DEF Scan, WithinBounds
<1>1. WithinBounds(CancellationRequested(s)) /\ WithinBounds(CancellationAcknowledged(s))
  BY DEF CancellationRequested, CancellationAcknowledged
<1>2. \A job : WithinBounds(Dispatched(s, job))
  BY DEF Dispatched
<1>3. \A n \in AttemptNumbers : WithinBounds(Claimed(s, n))
  BY DEF Claimed
<1>4. ASSUME NEW n, NEW code, NEW state, state # "queued"
      PROVE  WithinBounds(Finished(s, n, state, code))
  BY <1>4 DEF Finished
<1>5. QED BY <1>1, <1>2, <1>3, <1>4

\* A step that leaves the dispatch loop and what was read alone.
LEMMA RecordKept ==
  ASSUME RecordBounded, UNCHANGED seen, pc'[Dispatcher] = pc[Dispatcher],
         \/ UNCHANGED scan /\ (lease' = "stale" => lease = "stale")
         \/ WithinBounds(scan') /\ lease' # "stale"
  PROVE  RecordBounded'
  BY DEF RecordBounded, WithinBounds

LEMMA StoreFresh ==
  ASSUME NEW s, WithinBounds(s), StoreIfChanged(s) \/ Store(s)
  PROVE  \/ UNCHANGED <<scan, lease>>
         \/ WithinBounds(scan') /\ lease' # "stale"
  BY DEF StoreIfChanged, Store

\* A worker that keeps its attempt keeps it in bounds.
LEMMA WorkersKept ==
  ASSUME WorkersBounded, NEW p, Keeps(p),
         p \in Workers => pc'[p] \notin {"load", "claim"}
  PROVE  WorkersBounded'
<1>1. ASSUME NEW v \in Workers, v # p
      PROVE  pc'[v] = pc[v] /\ wk'[v] = wk[v] /\ (Active(v)' <=> Active(v))
  BY <1>1 DEF Keeps, Active, InTry, InHandler, Unclaimed
<1>2. QED BY <1>1 DEF WorkersBounded, Keeps

-------------------------------------------------------------------------------
\* Only Load and Deliver lead to "claim" and "load", and a worker moves nobody else.
GoesTo(w, wheres) == \E where \in wheres : pc' = [pc EXCEPT ![w] = where]
Beyond == WorkerPcs \ {"load", "claim"}
Stopped == {"check", "fail", "idle"}

LEMMA WentTo ==
  ASSUME TypeInv, NEW w \in Workers, NEW wheres, GoesTo(w, wheres)
  PROVE  /\ pc'[w] \in wheres
         /\ pc'[Dispatcher] = pc[Dispatcher]
  BY ConstantsAssumption DEF GoesTo, TypeInv, TypeOK, Procs, Closers

LEMMA WorkGoesTo ==
  ASSUME TypeInv, NEW w \in Workers, Work(w), ~Load(w)
  PROVE  GoesTo(w, Beyond)
<1> USE DEF Beyond, WorkerPcs, WritePcs, CheckPcs, ClosePcs
<1>1. ASSUME NEW where \in Beyond, Goto(w, where) PROVE GoesTo(w, Beyond)
  BY <1>1 DEF Goto, GoesTo
<1>2. ASSUME NEW where \in Beyond, NEW l, Become(w, where, l) PROVE GoesTo(w, Beyond)
  BY <1>1, <1>2 DEF Become
<1>3. ASSUME NEW end, EndJob(w, end) PROVE GoesTo(w, Beyond)
  BY <1>3 DEF EndJob, GoesTo
<1>4. ASSUME GoOn(w) PROVE GoesTo(w, Beyond)
  <2>1. CASE \E t \in wk[w].todo : BeginTarget(w, t)
    BY <1>2, <2>1 DEF BeginTarget, NextTarget
  <2>2. CASE /\ wk[w].then \in Steps \ {"target"}
             /\ Become(w, wk[w].then, [wk[w] EXCEPT !.then = "-"])
    BY <1>2, <2>2 DEF Steps
  <2>3. CASE Become(w, "fail", Forget(wk[w], "-", wk[w].cause))
    BY <1>2, <2>3
  <2>4. CASE \E end : EndJob(w, end)
    BY <1>3, <2>4
  <2>5. QED BY <1>4, <2>1, <2>2, <2>3, <2>4 DEF GoOn, RaiseFailure
<1>5. ASSUME NEW s, StopAt(w, s) PROVE GoesTo(w, Beyond)
  <2>1. CASE Become(w, "check", Forget(wk[w], "abort", wk[w].cause))
    BY <1>2, <2>1
  <2>2. CASE \E end : EndJob(w, end)
    BY <1>3, <2>2
  <2>3. QED BY <1>5, <2>1, <2>2 DEF StopAt, RaiseFailure
<1>6. CASE Check(w) \/ WorkerAck(w)
  BY <1>1, <1>4, <1>5, <1>6 DEF Check, WorkerAck
<1>7. CASE ClaimScan(w) \/ ListRuns(w) \/ Closing(w)
  BY <1>1, <1>2, <1>7 DEF ClaimScan, ListRuns, Closing, CloseList, CloseWrite
<1>8. CASE Reload(w) \/ FinishScan(w) \/ FailScan(w)
  BY <1>2, <1>3, <1>8 DEF Reload, FinishScan, FailScan, RaiseFailure
<1>9. CASE \/ \E r \in Runs : Announce(w, r) \/ Start(w, r)
           \/ AddFinding(w) \/ RecordRun(w) \/ LosesFence(w)
  BY <1>2, <1>9 DEF Announce, Start, AddFinding, RecordRun, LosesFence
<1>10. CASE (\E o \in AdapterOutcomes : Execute(w, o)) \/ AddEvent(w)
  BY <1>1, <1>2, <1>10 DEF Execute, AddEvent
<1>11. QED
  BY <1>6, <1>7, <1>8, <1>9, <1>10 DEF Work

LEMMA LoadGoesTo ==
  ASSUME TypeInv, NEW w \in Workers, Load(w)
  PROVE  GoesTo(w, WorkerPcs)
  BY DEF GoesTo, Load, Become, Goto, EndJob, WorkerPcs, CheckPcs

LEMMA StopGoesTo ==
  ASSUME TypeInv, NEW w \in Workers, Stop(w)
  PROVE  GoesTo(w, Stopped)
<1>1. ASSUME NEW end, EndJob(w, end) PROVE GoesTo(w, Stopped)
  BY <1>1 DEF EndJob, GoesTo, Stopped
<1>2. ASSUME NEW where \in {"check", "fail"}, NEW l, Become(w, where, l)
      PROVE  GoesTo(w, Stopped)
  BY <1>2 DEF Become, Goto, GoesTo, Stopped
<1>3. ASSUME NEW cause, CancelTask(w, cause) PROVE GoesTo(w, Stopped)
  BY <1>1, <1>2, <1>3 DEF CancelTask
<1>4. CASE LeaseLost(w) \/ AbortTask(w) \/ JobTimeout(w)
  <2>1. PICK cause : CancelTask(w, cause)
    BY <1>4 DEF LeaseLost, AbortTask, JobTimeout
  <2>2. QED BY <1>3, <2>1
<1>5. CASE Crash(w)
  BY <1>1, <1>5 DEF Crash
<1>6. CASE StoreFails(w)
  <2>1. CASE Become(w, "fail", Forget(wk[w], "-", wk[w].cause))
    BY <1>2, <2>1
  <2>2. CASE EndJob(w, "gone") \/ RaiseFailure(w)
    BY <1>1, <2>2 DEF RaiseFailure
  <2>3. QED BY <1>6, <2>1, <2>2 DEF StoreFails
<1>7. QED BY <1>4, <1>5, <1>6 DEF Stop

LEMMA FetchGoesTo ==
  ASSUME TypeInv, NEW w \in Workers, Fetch(w)
  PROVE  GoesTo(w, {"load"})
  BY DEF GoesTo, Fetch, Deliver, Become, Goto

LEMMA LoadBounded ==
  ASSUME TypeInv, Bounded, NEW w \in Workers, Load(w)
  PROVE  WorkersBounded'
<1>0. w \in Procs /\ wk[w] \in Worker /\ scan \in Scan
  BY LocalType DEF TypeInv, TypeOK, Procs, Closers
<1>1. \A v \in Workers \ {w} : pc'[v] = pc[v] /\ wk'[v] = wk[v]
  BY <1>0 DEF Load, Become, Goto, EndJob, TypeInv, TypeOK, Procs, Closers
<1>2. \/ pc'[w] = "idle"
      \/ pc'[w] = "check" /\ wk'[w].then = "return"
      \/ pc'[w] = "claim" /\ wk'[w].attempt = WorkerAttempt(scan, wk[w].try)
  BY <1>0 DEF Load, Become, Goto, EndJob, TypeInv, TypeOK, Worker
<1>3. WorkerAttempt(scan, wk[w].try) \in AttemptNumbers
  <2>1. wk[w].try \in 0 .. MaxTries
    BY DEF Load, Bounded, WorkersBounded
  <2>2. WithinBounds(scan)
    BY DEF Bounded, RecordBounded
  <2>3. QED
    BY <2>1, <2>2, ConstantsAssumption DEF WithinBounds, WorkerAttempt, AttemptNumbers
<1>4. pc'[w] = "claim" \/ Active(w)' => wk'[w].attempt \in AttemptNumbers
  BY <1>2, <1>3 DEF Active, InTry, InHandler, Unclaimed, CheckPcs, ClosePcs
<1>5. \A v \in Workers \ {w} : Active(v)' <=> Active(v)
  BY <1>1 DEF Active, InTry, InHandler, Unclaimed
<1>6. pc'[w] # "load"
  BY <1>2
<1>7. QED
  BY <1>1, <1>4, <1>5, <1>6 DEF Bounded, WorkersBounded

LEMMA ClaimBounded ==
  ASSUME TypeInv, Bounded, NEW w \in Workers, ClaimScan(w)
  PROVE  WorkersBounded'
<1>1. /\ UNCHANGED wk /\ pc'[w] \notin {"load", "claim"}
      /\ \A v \in Workers \ {w} : pc'[v] = pc[v]
  BY DEF ClaimScan, Goto, TypeInv, TypeOK, Procs, Closers
<1>2. wk[w].attempt \in AttemptNumbers
  BY DEF ClaimScan, Bounded, WorkersBounded
<1>3. \A v \in Workers \ {w} : Active(v)' <=> Active(v)
  BY <1>1 DEF Active, InTry, InHandler, Unclaimed
<1>4. QED
  BY <1>1, <1>2, <1>3 DEF Bounded, WorkersBounded

LEMMA DeliverBounded ==
  ASSUME TypeInv, Bounded, NEW w \in Workers, Fetch(w)
  PROVE  WorkersBounded'
<1>1. PICK job \in Jobs : Deliver(w, job)
  BY DEF Fetch
<1>2. queue[job].tries \in Nat /\ queue[job].tries < MaxTries
  BY <1>1 DEF Deliver, TypeInv, TypeOK, Job
<1>3. /\ pc'[w] = "load" /\ wk'[w].try = queue[job].tries + 1
      /\ \A v \in Workers \ {w} : pc'[v] = pc[v] /\ wk'[v] = wk[v]
  BY <1>1, IdleType DEF Deliver, Become, Goto, TypeInv, TypeOK, Worker, Procs, Closers
<1>4. wk'[w].try \in 0 .. MaxTries
  BY <1>2, <1>3, ConstantsAssumption
<1>5. ~Active(w)' /\ \A v \in Workers \ {w} : Active(v)' <=> Active(v)
  BY <1>3 DEF Active, InTry, InHandler, Unclaimed, CheckPcs, ClosePcs
<1>6. QED
  BY <1>3, <1>4, <1>5 DEF Bounded, WorkersBounded

LEMMA WorkersStep ==
  ASSUME TypeInv, Bounded, [Next]_vars
  PROVE  WorkersBounded'
<1>1. ASSUME NEW w \in Workers, Work(w) PROVE WorkersBounded'
  <2>1. CASE Load(w) \/ ClaimScan(w)
    BY <2>1, LoadBounded, ClaimBounded
  <2>2. CASE ~Load(w) /\ ~ClaimScan(w)
    <3>1. pc'[w] \notin {"load", "claim"}
      BY <1>1, <2>2, WorkGoesTo, WentTo DEF Beyond
    <3>2. QED BY <1>1, <2>2, <3>1, WorkKeeps, WorkersKept DEF Bounded
  <2>3. QED BY <2>1, <2>2
<1>2. ASSUME NEW w \in Workers, Stop(w) PROVE WorkersBounded'
  <2>1. pc'[w] \notin {"load", "claim"}
    <3>1. pc'[w] \in Stopped
      BY <1>2, StopGoesTo, WentTo
    <3>2. QED BY <3>1 DEF Stopped
  <2>2. QED BY <1>2, <2>1, StopKeeps, WorkersKept DEF Bounded
<1>3. CASE \E w \in Workers : Fetch(w)
  BY <1>3, DeliverBounded
<1>4. CASE UNCHANGED <<pc, wk>>
  BY <1>4 DEF Bounded, WorkersBounded, Active, InTry, InHandler, Unclaimed
<1>5. ASSUME (\E w \in Workers : Heartbeat(w)) \/ ArqDrops \/ LeaseAges \/ WorkerStalls
             \/ UNCHANGED vars
      PROVE  UNCHANGED <<pc, wk>>
  BY <1>5 DEF Heartbeat, ArqDrops, DropAborted, DropExhausted, LeaseAges, WorkerStalls, vars
<1>6. CASE \/ Dispatch \/ SweepFails
           \/ \E c \in Creators : Create(c)
           \/ \E c \in Cancellers : Cancel(c)
  <2>1. PICK p \in Procs \ Workers : UNCHANGED wk /\ \E where : Goto(p, where)
    BY <1>6, ApiMoves
  <2>2. QED BY <2>1, ApiKeeps, WorkersKept DEF Bounded
<1>7. QED BY <1>1, <1>2, <1>3, <1>4, <1>5, <1>6 DEF Next

-------------------------------------------------------------------------------
\* A step of the store with which the record stays in bounds.
WithinStore == Operates /\ RecordBounded'

LEMMA Rests ==
  ASSUME Bounded, UNCHANGED <<scan, lease, seen>>, pc'[Dispatcher] = pc[Dispatcher]
  PROVE  WithinStore
  BY StoreAlone, RecordKept DEF Bounded, WithinStore

LEMMA WorkStores ==
  ASSUME TypeInv, Bounded, NEW w \in Workers, Work(w)
  PROVE  WithinStore
<1>0. /\ wk[w] \in Worker /\ scan \in Scan /\ w \in Procs /\ w # Dispatcher
      /\ WithinBounds(scan) /\ RecordBounded
  BY LocalType, ConstantsAssumption DEF TypeInv, TypeOK, Procs, Closers, Bounded, RecordBounded
<1>1. UNCHANGED seen /\ pc'[Dispatcher] = pc[Dispatcher]
  <2>1. UNCHANGED seen
    BY DEF Work, Load, ClaimScan, Reload, ListRuns, Check, Announce, Start, Execute,
       AddEvent, AddFinding, RecordRun, LosesFence, FinishScan, FailScan, Closing, CloseList,
       CloseWrite, WorkerAck
  <2>2. QED BY <2>1, WorkGoesTo, LoadGoesTo, WentTo
<1>2. CASE ClaimScan(w)
  <2>1. wk[w].attempt \in AttemptNumbers
    BY <1>2 DEF ClaimScan, Bounded, WorkersBounded
  <2>2. CASE Claimable(scan, wk[w].attempt) /\ Store(Claimed(scan, wk[w].attempt))
    <3>1. WithinBounds(Claimed(scan, wk[w].attempt))
      BY <1>0, <2>1, OperationBounds
    <3>2. QED BY <1>0, <1>1, <2>1, <2>2, <3>1, StoreClaims, StoreFresh, RecordKept DEF WithinStore
  <2>3. QED BY <1>1, <1>2, <2>2, Rests DEF ClaimScan
<1>3. CASE FinishScan(w) \/ FailScan(w)
  <2>1. wk[w].attempt \in AttemptNumbers
    <3>1. Active(w)
      BY <1>3 DEF FinishScan, FailScan, Active, InTry, InHandler, Unclaimed, CheckPcs, ClosePcs
    <3>2. QED BY <3>1 DEF Bounded, WorkersBounded
  <2>2. PICK e \in Endings : StoreIfChanged(Finished(scan, wk[w].attempt, e[1], e[2]))
    <3>1. CASE FinishScan(w)
      <4> DEFINE code == FinalCode(wk[w].known)
      <4>1. <<StateOfCode(code), code>> \in Endings
        BY ComputedTypes DEF Endings
      <4>2. QED BY <3>1, <4>1 DEF FinishScan
    <3>2. CASE FailScan(w)
      <4>1. /\ <<"failed", "worker_failure">> \in Endings
            /\ <<"running", "retryable_worker_failure">> \in Endings
        BY DEF Endings
      <4>2. CASE FinalAttempt(w)
        BY <3>2, <4>1, <4>2 DEF FailScan
      <4>3. CASE ~FinalAttempt(w)
        BY <3>2, <4>1, <4>3 DEF FailScan
      <4>4. QED BY <4>2, <4>3
    <3>3. QED BY <1>3, <3>1, <3>2
  <2>3. e[1] # "queued"
    BY DEF Endings, StateOfCode
  <2>4. WithinBounds(Finished(scan, wk[w].attempt, e[1], e[2]))
    BY <1>0, <2>3, OperationBounds
  <2>5. QED
    BY <1>0, <1>1, <2>1, <2>2, <2>4, StoreFinishes, StoreFresh, RecordKept DEF WithinStore
<1>4. CASE WorkerAck(w)
  <2>1. StoreIfChanged(CancellationAcknowledged(scan))
    BY <1>4 DEF WorkerAck
  <2>2. WithinBounds(CancellationAcknowledged(scan))
    BY <1>0, OperationBounds
  <2>3. QED BY <1>0, <1>1, <2>1, <2>2, StoreCancels, StoreFresh, RecordKept DEF WithinStore
<1>5. CASE ~(ClaimScan(w) \/ FinishScan(w) \/ FailScan(w) \/ WorkerAck(w))
  <2>1. UNCHANGED <<scan, lease>>
    BY <1>5 DEF Work, Load, Reload, ListRuns, Check, Announce, Start, Execute,
       AddEvent, AddFinding, RecordRun, LosesFence, Closing, CloseList, CloseWrite, durable
  <2>2. QED BY <1>1, <2>1, Rests
<1>6. QED BY <1>2, <1>3, <1>4, <1>5

\* The steps of time and of arq, and what stops a worker from outside.
LEMMA OthersStore ==
  ASSUME TypeInv, Bounded,
         \/ \E w \in Workers : Fetch(w) \/ Heartbeat(w) \/ Stop(w)
         \/ ArqDrops \/ LeaseAges \/ WorkerStalls \/ UNCHANGED vars
  PROVE  WithinStore
<1>0. /\ Dispatcher \in Procs \ Workers /\ RecordBounded
  BY ConstantsAssumption DEF Procs, Closers, Bounded
<1>1. CASE \E w \in Workers : Heartbeat(w)
  <2>1. PICK w \in Workers : Heartbeat(w)
    BY <1>1
  <2>2. /\ HoldsLease(scan, wk[w].attempt) /\ wk[w].attempt \in AttemptNumbers
    BY <2>1 DEF Heartbeat, Holds, Bounded, WorkersBounded
  <2>3. Store(scan)
    BY <2>1 DEF Heartbeat, Store
  <2>4. QED
    BY <1>0, <2>1, <2>2, <2>3, StoreTouched, RecordKept DEF Heartbeat, WithinStore
<1>2. CASE LeaseAges \/ WorkerStalls
  BY <1>0, <1>2, StoreAlone, RecordKept DEF LeaseAges, WorkerStalls, WithinStore
<1>3. CASE \E w \in Workers : Fetch(w) \/ Stop(w)
  <2>1. PICK w \in Workers : Fetch(w) \/ Stop(w)
    BY <1>3
  <2>2. UNCHANGED <<scan, lease, seen>>
    BY <2>1 DEF Fetch, Deliver, Stop, LeaseLost, AbortTask, JobTimeout, Crash, StoreFails, durable
  <2>3. pc'[Dispatcher] = pc[Dispatcher]
    <3>1. CASE Fetch(w)
      BY <3>1, FetchGoesTo, WentTo
    <3>2. CASE Stop(w)
      BY <3>2, StopGoesTo, WentTo
    <3>3. QED BY <2>1, <3>1, <3>2
  <2>4. QED BY <2>2, <2>3, Rests
<1>4. CASE ArqDrops \/ UNCHANGED vars
  BY <1>4, Rests DEF ArqDrops, DropAborted, DropExhausted, durable, vars
<1>5. QED BY <1>1, <1>2, <1>3, <1>4

LEMMA DispatchStores ==
  ASSUME TypeInv, Bounded, Dispatch \/ SweepFails
  PROVE  WithinStore
<1>0. /\ Dispatcher \in Procs \ Workers /\ scan \in Scan
      /\ seen \in [Procs \ Workers -> Scan] /\ pc \in [Procs -> WorkerPcs \cup ApiPcs]
      /\ WithinBounds(scan) /\ \A p \in Procs \ Workers : WithinBounds(seen[p])
  BY ConstantsAssumption DEF Procs, Closers, TypeInv, TypeOK, Bounded, RecordBounded
\* The dispatch loop reads s and goes on, the lease does not become stale.
<1> DEFINE Reads(s, where) == SeenBy(Dispatcher, s) /\ Goto(Dispatcher, where)
<1>1. ASSUME NEW s \in Scan, WithinBounds(s), NEW where, Reads(s, where),
             WithinBounds(scan'), lease' = "stale" /\ where = "recover" =>
                                    s.worker_attempt = scan'.worker_attempt
      PROVE  RecordBounded'
  <2>1. seen'[Dispatcher] = s /\ pc'[Dispatcher] = where
    BY <1>0, <1>1 DEF SeenBy, Goto
  <2>2. \A p \in Procs \ Workers : WithinBounds(seen'[p])
    BY <1>0, <1>1, <2>1 DEF SeenBy
  <2>3. QED BY <1>1, <2>1, <2>2 DEF RecordBounded, WithinBounds
<1>2. ASSUME NEW where, Leave(Dispatcher, where), WithinBounds(scan'), where # "recover"
      PROVE  RecordBounded'
  BY <1>1, <1>2, InitialBounds, InitialScanType DEF Leave
<1>3. CASE Sweep
  <2>1. Operates
    BY <1>3, StoreAlone DEF Sweep
  <2>2. PICK where : Reads(scan, where)
    BY <1>3 DEF Sweep
  <2>3. WithinBounds(scan') /\ UNCHANGED scan
    BY <1>0, <1>3 DEF Sweep, WithinBounds
  <2>4. RecordBounded'
    BY <1>0, <1>1, <2>2, <2>3
  <2>5. QED BY <2>1, <2>4 DEF WithinStore
<1>4. CASE RecoverStaleScan
  <2> DEFINE job == RecoveryJob(seen[Dispatcher])
  <2>1. CASE /\ Recoverable(scan) /\ lease = "stale" /\ Store(Recovered(scan, job))
             /\ Reads(Recovered(scan, job), "enqueue")
    <3>1. /\ seen[Dispatcher].worker_attempt = scan.worker_attempt
          /\ scan.worker_attempt \in Nat
      BY <1>0, <1>4, <2>1 DEF RecoverStaleScan, Bounded, RecordBounded, Scan
    <3>2. job \in RecoveryJobs /\ job = scan.worker_attempt + 1
      BY <1>4, <3>1 DEF RecoverStaleScan, RecoveryJob, RecoveryJobs, Jobs
    <3>3. scan.worker_attempt < MaxTries + MaxJob
      BY <3>1, <3>2, ConstantsAssumption DEF RecoveryJobs, Jobs
    <3>4. Recovered(scan, job) \in Scan /\ WithinBounds(Recovered(scan, job))
      <4> HIDE DEF job
      <4>1. job \in Nat /\ job \in Jobs
        BY <3>2 DEF RecoveryJobs, Jobs
      <4>2. Recovered(scan, job) \in Scan
        BY <1>0, <4>1 DEF Recovered, Scan, ScanState, OutcomeCodes
      <4>3. WithinBounds(Recovered(scan, job))
        BY <1>0, <3>3, <4>1 DEF Recovered, Scan, WithinBounds
      <4>4. QED BY <4>2, <4>3
    <3>5. Operates
      BY <2>1, <3>2, StoreRecovers
    <3>6. WithinBounds(scan')
      BY <2>1, <3>4 DEF Store
    <3>7. RecordBounded'
      BY <1>1, <2>1, <3>4, <3>6
    <3>8. QED BY <3>5, <3>7 DEF WithinStore
  <2>2. CASE Leave(Dispatcher, "sweep") /\ UNCHANGED <<scan, lease>>
    <3>1. WithinBounds(scan')
      BY <1>0, <2>2
    <3>2. QED BY <1>2, <2>2, <3>1, StoreAlone DEF WithinStore
  <2>3. QED BY <1>4, <2>1, <2>2 DEF RecoverStaleScan
<1>5. CASE EnqueueRepair
  <2>1. UNCHANGED <<scan, lease>> /\ WithinBounds(scan')
    BY <1>0, <1>5 DEF EnqueueRepair, durable
  <2>2. CASE Leave(Dispatcher, "sweep")
    BY <1>2, <2>1, <2>2, StoreAlone DEF WithinStore
  <2>3. CASE Goto(Dispatcher, "mark") /\ UNCHANGED seen
    <3>1. pc'[Dispatcher] = "mark"
      BY <1>0, <2>3 DEF Goto
    <3>2. RecordBounded'
      BY <1>0, <2>1, <2>3, <3>1 DEF RecordBounded
    <3>3. QED BY <2>1, <3>2, StoreAlone DEF WithinStore
  <2>4. QED BY <1>5, <2>2, <2>3 DEF EnqueueRepair
<1>6. CASE MarkScanDispatched
  <2> DEFINE job == seen[Dispatcher].job_id
  <2>1. job \in Jobs
    BY <1>0 DEF WithinBounds
  <2>2. StoreIfChanged(Dispatched(scan, job)) /\ Leave(Dispatcher, "sweep")
    BY <1>6 DEF MarkScanDispatched
  <2>3. Operates
    BY <2>1, <2>2, StoreDispatches
  <2>4. WithinBounds(scan')
    BY <1>0, <2>2, OperationBounds, StoreIfChangedStores
  <2>5. QED BY <1>2, <2>2, <2>3, <2>4 DEF WithinStore
<1>7. CASE DispatcherAck
  <2>1. StoreIfChanged(CancellationAcknowledged(scan)) /\ Leave(Dispatcher, "sweep")
    BY <1>7 DEF DispatcherAck
  <2>2. WithinBounds(scan')
    BY <1>0, <2>1, OperationBounds, StoreIfChangedStores
  <2>3. QED BY <1>2, <2>1, <2>2, StoreCancels DEF WithinStore
<1>8. CASE Closing(Dispatcher)
  <2>1. UNCHANGED <<scan, lease, seen>> /\ pc'[Dispatcher] # "recover"
    BY <1>0, <1>8 DEF Closing, CloseList, CloseWrite, Goto, durable
  <2>2. RecordBounded'
    BY <1>0, <2>1 DEF RecordBounded
  <2>3. QED BY <2>1, <2>2, StoreAlone DEF WithinStore
<1>9. CASE SweepFails
  <2>1. UNCHANGED <<scan, lease>> /\ WithinBounds(scan') /\ Leave(Dispatcher, "sweep")
    BY <1>0, <1>9 DEF SweepFails, durable
  <2>2. QED BY <1>2, <2>1, StoreAlone DEF WithinStore
<1>10. QED BY <1>3, <1>4, <1>5, <1>6, <1>7, <1>8, <1>9 DEF Dispatch

\* The handlers of the API.
LEMMA HandlersStore ==
  ASSUME TypeInv, Bounded, \/ \E c \in Creators : Create(c)
                           \/ \E c \in Cancellers : Cancel(c)
  PROVE  WithinStore
<1>1. PICK c \in Creators \cup Cancellers : \/ c \in Creators /\ Create(c)
                                            \/ c \in Cancellers /\ Cancel(c)
  OBVIOUS
<1>0. /\ c \in Procs \ Workers /\ c # Dispatcher /\ scan \in Scan /\ seen[c] \in Scan
      /\ seen \in [Procs \ Workers -> Scan]
      /\ WithinBounds(scan) /\ WithinBounds(seen[c])
  BY ConstantsAssumption DEF Procs, Closers, TypeInv, TypeOK, Bounded, RecordBounded
<1>2. pc'[Dispatcher] = pc[Dispatcher]
  <2>1. \E where : Goto(c, where)
    BY <1>1 DEF Create, EnqueueScan, EnqueueScanFails, RereadScan, RewriteScan, Leave, Cancel,
       ReadForCancel, RequestCancellation, AbortJob, AwaitAbort, RefreshAfterAbort, Closing,
       CloseList, CloseWrite, CancelAck
  <2>2. QED BY <1>0, <2>1 DEF Goto, TypeInv, TypeOK, Procs, Closers
<1>3. /\ \A p \in Procs \ Workers : WithinBounds(seen'[p])
      /\ seen'[Dispatcher] = seen[Dispatcher]
  <2>1. UNCHANGED seen \/ SeenBy(c, scan) \/ SeenBy(c, InitialScan)
    BY <1>1 DEF Create, EnqueueScan, EnqueueScanFails, RereadScan, RewriteScan, Leave, Cancel,
       ReadForCancel, RequestCancellation, AbortJob, AwaitAbort, RefreshAfterAbort, Closing,
       CloseList, CloseWrite, CancelAck
  <2>2. Dispatcher \in Procs \ Workers
    BY ConstantsAssumption DEF Procs, Closers
  <2>3. QED
    BY <1>0, <2>1, <2>2, InitialBounds DEF SeenBy, Bounded, RecordBounded
<1>4. /\ Operates
      /\ UNCHANGED <<scan, lease>> \/ (WithinBounds(scan') /\ lease' # "stale")
  <2>1. CASE RewriteScan(c) /\ c \in Creators
    <3>1. Store([seen[c] EXCEPT !.outcome_code = "queue_retryable_failure"])
      BY <2>1 DEF RewriteScan
    <3>2. WithinBounds([seen[c] EXCEPT !.outcome_code = "queue_retryable_failure"])
      BY <1>0 DEF WithinBounds, Scan
    <3>3. QED BY <1>0, <2>1, <3>1, <3>2, StoreRewrites, StoreFresh
  <2>2. CASE \/ ~Terminal(scan) /\ Store(CancellationRequested(scan))
             \/ StoreIfChanged(CancellationAcknowledged(scan))
    <3>1. /\ WithinBounds(CancellationRequested(scan))
          /\ WithinBounds(CancellationAcknowledged(scan))
      BY <1>0, OperationBounds
    <3>2. QED BY <2>2, <3>1, StoreCancels, StoreFresh
  <2>3. CASE UNCHANGED <<scan, lease>>
    BY <2>3, StoreAlone
  <2>4. QED
    BY <1>1, <2>1, <2>2, <2>3 DEF Create, EnqueueScan, EnqueueScanFails, RereadScan, Cancel,
       ReadForCancel, RequestCancellation, AbortJob, AwaitAbort, RefreshAfterAbort, Closing,
       CloseList, CloseWrite, CancelAck, durable
<1>5. QED
  BY <1>0, <1>2, <1>3, <1>4 DEF WithinStore, Bounded, RecordBounded, WithinBounds

LEMMA BoundedInit == Init => Bounded
<1> SUFFICES ASSUME Init PROVE Bounded
  OBVIOUS
<1>1. RecordBounded
  BY InitialBounds DEF Init, RecordBounded
<1>2. \A w \in Workers : pc[w] = "idle"
  BY DEF Init, Procs, Closers
<1>3. WorkersBounded
  BY <1>2 DEF WorkersBounded, Active, InTry, InHandler, CheckPcs, ClosePcs
<1>4. QED BY <1>1, <1>3 DEF Bounded

LEMMA StoreStep ==
  ASSUME TypeInv, Bounded, [Next]_vars
  PROVE  WithinStore /\ Bounded'
<1>1. WithinStore
  BY WorkStores, OthersStore, DispatchStores, HandlersStore DEF Next
<1>2. QED BY <1>1, WorkersStep DEF WithinStore, Bounded

\* Whoever moves, and also with the create handler's rewrite, the record changes by one
\* operation of the atomic store at a time, with what its promise asks of the caller:
\* run_case_scan_task, _dispatch_loop, cancel_scan and the tail of create_scan.
THEOREM StoreUsed == Spec => StorePromised
<1>1. Init => RecordStore!StoreInit
  BY DEF Init, InitialScan, RecordStore!StoreInit, RecordStore!InitialScan
<1>2. TypeInv /\ Bounded /\ [Next]_vars => [RecordStore!StoreNext]_(RecordStore!svars) /\ Bounded'
  BY StoreStep DEF WithinStore, Operates
<1>3. QED
  BY <1>1, <1>2, TypeInit, TypeStep, BoundedInit, PTL
     DEF Spec, StorePromised, RecordStore!StoreSpec
===============================================================================
