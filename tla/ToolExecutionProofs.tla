--------------------------- MODULE ToolExecutionProofs ---------------------------
(***************************************************************************)
(* What one adapter run keeps, for any number of attempts, requests and    *)
(* cancellations.                                                          *)
(***************************************************************************)
EXTENDS ToolExecution, TLAPS

\* Where execute waits tells how far its counters are.
Counted ==
  /\ pc = "start" => attempt = 0
  /\ pc \notin {"start", "done"} \/ cleanup # "none" => attempt > 0
  /\ pc = "delay" => attempt < MaxAttempts
  /\ pc = "backoff" => request < Retries

\* No attempt has a process before its turn, and a cleanup that got as far as SIGKILL
\* or the end leaves no process that was not killed.
Attended ==
  /\ \A a \in AttemptIds : a > attempt => leader[a] = "none"
  /\ pc \in {"get", "backoff", "spawn", "respawn", "talk"} => cleanup = "none"
  /\ cleanup \in {"kill", "last", "done"} => leader[attempt] # "running"

\* A cancellation of the worker belongs to the last attempt.  Two interruptions of a
\* cleanup are not both the deadline, so a cancelled cleanup ends the run.
Owed ==
  /\ cancels > 0 => owed > 0
  /\ pc = "unshielded" => owed > 0 \/ deadline
  /\ cleanup = "cancelled" => pc = "done"

ToolInv == ToolTypeOK /\ ToolDoomed /\ CancelHonoured /\ Counted /\ Attended /\ Owed

-------------------------------------------------------------------------------
LEMMA ToolInit == Init => ToolInv
<1> SUFFICES ASSUME Init PROVE ToolInv
  OBVIOUS
<1>1. /\ attempt \in 0..MaxAttempts /\ request \in 0..Retries /\ cancels \in 0..MaxCancels
      /\ owed \in 0..cancels /\ ~(cancels > 0) /\ ~(attempt > 0)
  BY ToolAssumption DEF Init
<1>2. ToolTypeOK
  <2>1. deadline \in BOOLEAN
    BY Zenon DEF Init
  <2>2. QED
    BY <1>1, <2>1, Zenon DEF Init, ToolTypeOK, Places, Outcomes
<1>3. ToolDoomed /\ CancelHonoured /\ Counted /\ Attended /\ Owed
  BY <1>1 DEF Init, ToolDoomed, CancelHonoured, Counted, Attended, Owed, AttemptIds
<1>4. QED
  BY <1>2, <1>3 DEF ToolInv

\* The loop of execute, the requests and the answers.
LEMMA LoopStep ==
  ASSUME ToolInv, Begin \/ StartRun \/ RetryDelayOver \/ Answered \/ NotAnswered \/ BackoffOver
  PROVE  ToolInv'
<1> USE ToolAssumption
    DEF ToolInv, ToolTypeOK, ToolDoomed, CancelHonoured, Counted, Attended, Owed, Places,
        RunPlaces, Outcomes, AttemptIds, loopVars, toolVars, processVars, Finish
<1>1. CASE Begin
  BY <1>1 DEF Begin
<1>2. CASE StartRun
  <2>1. deadline' \in BOOLEAN
    BY <1>2, Zenon DEF StartRun
  <2>2. ~(cancels > 0)
    BY <1>2 DEF StartRun
  <2>3. QED
    BY <1>2, <2>1, <2>2 DEF StartRun
<1>3. CASE RetryDelayOver
  BY <1>3 DEF RetryDelayOver
<1>4. CASE Answered
  BY <1>4 DEF Answered
<1>5. CASE NotAnswered
  BY <1>5 DEF NotAnswered, Retry
<1>6. CASE BackoffOver
  BY <1>6 DEF BackoffOver
<1>7. QED
  BY <1>1, <1>2, <1>3, <1>4, <1>5, <1>6

\* The tool from its start to its output.
LEMMA CommandStep ==
  ASSUME ToolInv, SpawnFails \/ Spawned \/ Communicated \/ ToolTimeout \/ Terminated
  PROVE  ToolInv'
<1> USE ToolAssumption
    DEF ToolInv, ToolTypeOK, ToolDoomed, CancelHonoured, Counted, Attended, Owed, Places,
        RunPlaces, Outcomes, AttemptIds, loopVars, toolVars, processVars, Finish
<1>1. CASE SpawnFails
  BY <1>1 DEF SpawnFails, RaiseCancelled, Retry
<1>2. CASE Spawned
  BY <1>2 DEF Spawned
<1>3. CASE Communicated
  BY <1>3 DEF Communicated
<1>4. CASE ToolTimeout
  BY <1>4 DEF ToolTimeout, Interrupt
<1>5. CASE Terminated
  BY <1>5 DEF Terminated, RaiseCancelled, Retry
<1>6. QED
  BY <1>1, <1>2, <1>3, <1>4, <1>5

LEMMA SignalType ==
  ASSUME NEW signal, NEW state \in {"none", "running", "signalled", "killed", "gone"}
  PROVE  Signal(state, signal) \in {"none", "running", "signalled", "killed", "gone"}
  BY Zenon DEF Signal

\* The cleanup and the processes.
LEMMA ProcessStep ==
  ASSUME ToolInv, Terminate \/ TermIgnored \/ Exited \/ KillIgnored \/ GiveUp \/ Processes
  PROVE  ToolInv'
<1> USE ToolAssumption
    DEF ToolInv, ToolTypeOK, ToolDoomed, CancelHonoured, Counted, Attended, Owed, Places,
        RunPlaces, Outcomes, AttemptIds, loopVars, toolVars, processVars, Running
<1>1. CASE Terminate
  BY <1>1, SignalType DEF Terminate, SignalGroup, SignalLeader
<1>2. CASE TermIgnored
  BY <1>2, SignalType DEF TermIgnored, SignalGroup, SignalLeader
<1>3. CASE Exited
  BY <1>3 DEF Exited
<1>4. CASE KillIgnored
  BY <1>4 DEF KillIgnored, SignalLeader
<1>5. CASE GiveUp
  BY <1>5 DEF GiveUp
<1>6. CASE Processes
  BY <1>6 DEF Processes, LeaderExits, Forks, ChildExits
<1>7. QED
  BY <1>1, <1>2, <1>3, <1>4, <1>5, <1>6

\* The deadline and the worker's cancellations.
LEMMA InterruptStep ==
  ASSUME ToolInv, DeadlinePasses \/ Cancel
  PROVE  ToolInv'
<1> USE ToolAssumption
    DEF ToolInv, ToolTypeOK, ToolDoomed, CancelHonoured, Counted, Attended, Owed, Places,
        RunPlaces, Outcomes, AttemptIds, loopVars, toolVars, processVars, Finish
<1>1. CASE DeadlinePasses
  BY <1>1 DEF DeadlinePasses, Interrupted, Interrupt, RaiseCancelled, Retry
<1>2. CASE Cancel
  BY <1>2 DEF Cancel, Interrupted, Interrupt, RaiseCancelled, Retry
<1>3. QED
  BY <1>1, <1>2

LEMMA ToolStep == ToolInv /\ [Next]_vars => ToolInv'
<1>1. ToolInv /\ Next => ToolInv'
  BY LoopStep, CommandStep, ProcessStep, InterruptStep DEF Next, Loop
<1>2. ToolInv /\ UNCHANGED vars => ToolInv'
  BY DEF vars, loopVars, toolVars, processVars, ToolInv, ToolTypeOK, ToolDoomed,
         CancelHonoured, Counted, Attended, Owed
<1>3. QED
  BY <1>1, <1>2

-------------------------------------------------------------------------------
(* Theorems *)

\* The types of ToolAdapter.execute and of what it runs.
THEOREM ToolTypes == Spec => []ToolTypeOK
<1>1. ToolInv => ToolTypeOK
  BY DEF ToolInv
<1>2. QED
  BY <1>1, ToolInit, ToolStep, PTL DEF Spec

\* run_cli_command: a tool outlives its attempt only if it was killed, unless two
\* interruptions hit its cleanup.
THEOREM ToolsAttended == Spec => []ToolDoomed
<1>1. ToolInv => ToolDoomed
  BY DEF ToolInv
<1>2. QED
  BY <1>1, ToolInit, ToolStep, PTL DEF Spec

\* execute, fetch_json and run_cli_command: what the worker cancelled stays cancelled.
THEOREM CancellationKept == Spec => []CancelHonoured
<1>1. ToolInv => CancelHonoured
  BY DEF ToolInv
<1>2. QED
  BY <1>1, ToolInit, ToolStep, PTL DEF Spec
===============================================================================
