------------------------------ MODULE ToolExecution ------------------------------
(***************************************************************************)
(* One adapter run of a worker: ToolAdapter.execute (app/adapters/base.py) *)
(* with its attempts, deadline and retries, around either                  *)
(*   - a request to a provider: ShodanAdapter.run (app/adapters/ip.py) and *)
(*     fetch_json (app/utils/http.py), or                                  *)
(*   - a tool: SherlockAdapter.run (app/adapters/username.py) and          *)
(*     run_cli_command (app/utils/execution.py), which must end the tool's *)
(*     process group when its own timeout, execute's deadline or a         *)
(*     cancellation by the worker interrupts it.                           *)
(*                                                                         *)
(* A step runs to the next await.  The processes, the provider, the timers *)
(* and the worker that cancels are steps of their own.                     *)
(***************************************************************************)
EXTENDS Naturals

CONSTANTS
  MaxAttempts,  \* max_attempts of the adapter's metadata
  Retries,      \* retries passed to fetch_json
  MaxCancels    \* bound: how often the worker cancels the run

ASSUME ToolAssumption ==
  MaxAttempts \in Nat \ {0} /\ Retries \in Nat \ {0} /\ MaxCancels \in Nat

VARIABLES
  kind,      \* "request" or "tool"
  pc,        \* where execute waits
  attempt,   \* its current attempt
  request,   \* the current request of fetch_json in this attempt
  deadline,  \* execute's deadline for this attempt has passed
  cancels,   \* cancellations by the worker
  owed,      \* those of them that came in this attempt
  cause,     \* what interrupted the tool: "none", "timeout" or "cancelled"
  cleanup,   \* where the task of _terminate_process_tree waits
  leader,    \* the process of each attempt's tool
  child,     \* a descendant of it that holds its output open
  outcome

loopVars == <<attempt, owed, deadline>>
toolVars == <<cause, cleanup>>
processVars == <<leader, child>>
vars == <<kind, pc, loopVars, request, cancels, toolVars, processVars, outcome>>

AttemptIds == 1..MaxAttempts
RunPlaces == {"get", "backoff", "spawn", "respawn", "talk", "shield", "unshielded"}
Places == {"start", "pause", "delay", "done"} \cup RunPlaces
Outcomes == {"none", "succeeded", "no_results", "unavailable", "failed", "retryable",
             "cancelled"}

-------------------------------------------------------------------------------
(* The loop of execute.                                                    *)
Finish(state) == pc' = "done" /\ outcome' = state

\* A disabled adapter, a target it does not take, or the first attempt.
Begin ==
  /\ pc = "start"
  /\ \/ Finish("unavailable") /\ UNCHANGED attempt
     \/ Finish("failed") /\ UNCHANGED attempt
     \/ pc' = "pause" /\ attempt' = 1 /\ UNCHANGED outcome
  /\ UNCHANGED <<kind, owed, deadline, request, cancels, toolVars, processVars>>

\* The rate limit's sleep is over; the deadline counts from here.
StartRun ==
  /\ pc = "pause"
  /\ pc' = IF kind = "request" THEN "get" ELSE "spawn"
  /\ request' = 1 /\ deadline' = FALSE /\ owed' = 0
  /\ cause' = "none" /\ cleanup' = "none"
  /\ UNCHANGED <<kind, attempt, cancels, processVars, outcome>>

\* Mutant: one attempt too many.
RetryOnceMore ==
  IF attempt > MaxAttempts THEN Finish("retryable") ELSE pc' = "delay" /\ UNCHANGED outcome

\* RetryableAdapterError or TimeoutError.
Retry ==
  IF attempt >= MaxAttempts THEN Finish("retryable") ELSE pc' = "delay" /\ UNCHANGED outcome

RetryDelayOver ==
  /\ pc = "delay" /\ pc' = "pause" /\ attempt' = attempt + 1
  /\ UNCHANGED <<kind, owed, deadline, request, cancels, toolVars, processVars, outcome>>

\* CancelledError leaves run: wait_for makes it a TimeoutError if nobody but its
\* own deadline cancelled the run.
RaiseCancelled(passed, cancellations) ==
  IF passed /\ cancellations = 0 THEN Retry ELSE Finish("cancelled")

-------------------------------------------------------------------------------
(* fetch_json and ShodanAdapter.                                           *)
\* Records, none, something that is not JSON or that parse rejects, the status 404,
\* the statuses 401 and 403, another definite status.
Answered ==
  /\ pc = "get"
  /\ \E state \in {"succeeded", "no_results", "failed", "unavailable"} : Finish(state)
  /\ UNCHANGED <<kind, loopVars, request, cancels, toolVars, processVars>>

\* A transport error or a transient status.
NotAnswered ==
  /\ pc = "get"
  /\ IF request >= Retries THEN Retry ELSE pc' = "backoff" /\ UNCHANGED outcome
  /\ UNCHANGED <<kind, loopVars, request, cancels, toolVars, processVars>>

BackoffOver ==
  /\ pc = "backoff" /\ pc' = "get" /\ request' = request + 1
  /\ UNCHANGED <<kind, loopVars, cancels, toolVars, processVars, outcome>>

-------------------------------------------------------------------------------
(* run_cli_command.                                                        *)
Running(a) == leader[a] \in {"running", "killed"}

\* The tool is missing: execution_failed, and nothing found.
SpawnFails ==
  /\ pc \in {"spawn", "respawn"}
  /\ IF pc = "spawn" THEN Finish("no_results") ELSE RaiseCancelled(deadline, owed)
  /\ UNCHANGED <<kind, loopVars, request, cancels, toolVars, processVars>>

\* Mutant: a process that starts after the cancellation is left alone.
SpawnedUnattended ==
  /\ pc \in {"spawn", "respawn"}
  /\ leader' = [leader EXCEPT ![attempt] = "running"]
  /\ IF pc = "spawn" THEN pc' = "talk" /\ UNCHANGED outcome ELSE RaiseCancelled(deadline, owed)
  /\ UNCHANGED <<kind, loopVars, request, cancels, toolVars, child>>

Spawned ==
  /\ pc \in {"spawn", "respawn"}
  /\ leader' = [leader EXCEPT ![attempt] = "running"]
  /\ IF pc = "spawn"
       THEN pc' = "talk" /\ UNCHANGED toolVars
       ELSE pc' = "shield" /\ cause' = "cancelled" /\ cleanup' = "begin"
  /\ UNCHANGED <<kind, loopVars, request, cancels, child, outcome>>

\* communicate: all output is read once nobody holds it open, and the process has
\* been waited for.  Any exit status but 0 is an empty answer.
Communicated ==
  /\ pc = "talk" /\ leader[attempt] = "exited" /\ child[attempt] # "running"
  /\ Finish("succeeded") \/ Finish("no_results")
  /\ UNCHANGED <<kind, loopVars, request, cancels, toolVars, processVars>>

Interrupt(why) == pc' = "shield" /\ cause' = why /\ cleanup' = "begin"

\* run_cli_command's own timeout.
ToolTimeout ==
  /\ pc = "talk" /\ Interrupt("timeout")
  /\ UNCHANGED <<kind, loopVars, request, cancels, processVars, outcome>>

\* Mutant: the cancellation ends with the cleanup.
TerminatedForGood ==
  /\ pc \in {"shield", "unshielded"} /\ cleanup = "done"
  /\ Finish("no_results")
  /\ UNCHANGED <<kind, loopVars, request, cancels, toolVars, processVars>>

\* The status 124 is an empty answer to the adapter; a cancellation goes on.
Terminated ==
  /\ pc \in {"shield", "unshielded"} /\ cleanup = "done"
  /\ IF cause = "timeout" THEN Finish("no_results") ELSE RaiseCancelled(deadline, owed)
  /\ UNCHANGED <<kind, loopVars, request, cancels, toolVars, processVars>>

-------------------------------------------------------------------------------
(* _terminate_process_tree, a task of its own.                             *)
\* What SIGTERM does is up to the process.
Signal(state, signal) ==
  CASE state \in {"none", "gone"} -> state
    [] signal = "SIGKILL" \/ state = "killed" -> "killed"
    [] OTHER -> "signalled"

SignalLeader(signal) == leader' = [leader EXCEPT ![attempt] =
  IF signal = "SIGKILL" /\ @ = "running" THEN "killed" ELSE @]
SignalGroup(signal) ==
  /\ SignalLeader(signal)
  /\ child' = [child EXCEPT ![attempt] = Signal(@, signal)]

\* The process has ended already, or SIGTERM to its group.
Terminate ==
  /\ cleanup = "begin"
  /\ IF Running(attempt)
       THEN SignalGroup("SIGTERM") /\ cleanup' = "term"
       ELSE cleanup' = "done" /\ UNCHANGED processVars
  /\ UNCHANGED <<kind, pc, loopVars, request, cancels, cause, outcome>>

\* The process is still there after a second.
TermIgnored ==
  /\ cleanup = "term" /\ Running(attempt)
  /\ SignalGroup("SIGKILL") /\ cleanup' = "kill"
  /\ UNCHANGED <<kind, pc, loopVars, request, cancels, cause, outcome>>

Exited ==
  /\ cleanup \in {"term", "kill", "last"} /\ ~Running(attempt)
  /\ cleanup' = "done"
  /\ UNCHANGED <<kind, pc, loopVars, request, cancels, cause, processVars, outcome>>

\* _wait_for_process_exit: two seconds, one more kill, two seconds, and it gives up.
KillIgnored ==
  /\ cleanup = "kill" /\ Running(attempt)
  /\ SignalLeader("SIGKILL") /\ cleanup' = "last"
  /\ UNCHANGED <<kind, pc, loopVars, request, cancels, cause, child, outcome>>

\* Mutant: it waits for the end of the process.
GiveUpNever ==
  /\ cleanup = "last" /\ ~Running(attempt)
  /\ cleanup' = "done"
  /\ UNCHANGED <<kind, pc, loopVars, request, cancels, cause, processVars, outcome>>

GiveUp ==
  /\ cleanup = "last" /\ Running(attempt)
  /\ cleanup' = "done"
  /\ UNCHANGED <<kind, pc, loopVars, request, cancels, cause, processVars, outcome>>

-------------------------------------------------------------------------------
(* A cancellation where execute waits; passed and cancellations are the    *)
(* deadline and the worker's cancellations with this one.                  *)
Interrupted(passed, cancellations) ==
  \/ /\ pc \in {"start", "pause", "delay"}
     /\ Finish("cancelled")
     /\ UNCHANGED <<toolVars, processVars>>
  \/ /\ pc \in {"get", "backoff"}
     /\ RaiseCancelled(passed, cancellations)
     /\ UNCHANGED <<toolVars, processVars>>
  \* The creation of the process goes on and is waited for.
  \/ /\ pc = "spawn" /\ pc' = "respawn"
     /\ UNCHANGED <<outcome, toolVars, processVars>>
  \* The creation itself is cancelled: what it started is killed and not reported.
  \/ /\ pc = "respawn" /\ RaiseCancelled(passed, cancellations)
     /\ UNCHANGED <<toolVars, child>>
     /\ \/ leader' = [leader EXCEPT ![attempt] = "killed"]
        \/ UNCHANGED leader
  \/ /\ pc = "talk" /\ Interrupt("cancelled")
     /\ UNCHANGED <<outcome, processVars>>
  \* The first one during the cleanup is dropped ...
  \/ /\ pc = "shield" /\ pc' = "unshielded"
     /\ UNCHANGED <<outcome, toolVars, processVars>>
  \* ... and the second one cancels the cleanup.
  \/ /\ pc = "unshielded" /\ RaiseCancelled(passed, cancellations)
     /\ cleanup' = "cancelled"
     /\ UNCHANGED <<cause, processVars>>

DeadlinePasses ==
  /\ pc \in RunPlaces /\ ~deadline
  /\ deadline' = TRUE
  /\ Interrupted(TRUE, owed)
  /\ UNCHANGED <<kind, attempt, owed, request, cancels>>

\* The worker stops its adapters, and again when its own job is cancelled.
Cancel ==
  /\ cancels < MaxCancels /\ pc # "done"
  /\ cancels' = cancels + 1 /\ owed' = owed + 1
  /\ Interrupted(deadline, owed + 1)
  /\ UNCHANGED <<kind, attempt, deadline, request>>

-------------------------------------------------------------------------------
(* The processes: a tool ends when it likes, for SIGTERM if it likes, and  *)
(* some time after SIGKILL; until then it may start another one.           *)
LeaderExits(a) ==
  /\ Running(a) /\ leader' = [leader EXCEPT ![a] = "exited"]
  /\ UNCHANGED <<kind, pc, loopVars, request, cancels, toolVars, child, outcome>>

Forks(a) ==
  /\ leader[a] = "running" /\ child[a] = "none"
  /\ child' = [child EXCEPT ![a] = "running"]
  /\ UNCHANGED <<kind, pc, loopVars, request, cancels, toolVars, leader, outcome>>

ChildExits(a) ==
  /\ child[a] \in {"running", "signalled", "killed"}
  /\ child' = [child EXCEPT ![a] = "gone"]
  /\ UNCHANGED <<kind, pc, loopVars, request, cancels, toolVars, leader, outcome>>

Processes == \E a \in AttemptIds : LeaderExits(a) \/ Forks(a) \/ ChildExits(a)

-------------------------------------------------------------------------------
\* What the event loop does sooner or later: its timers fire, its tasks go on.
Loop ==
  \/ Begin \/ StartRun \/ RetryDelayOver \/ BackoffOver
  \/ SpawnFails \/ Spawned \/ Communicated \/ ToolTimeout \/ Terminated
  \/ Terminate \/ TermIgnored \/ Exited \/ KillIgnored \/ GiveUp
  \/ DeadlinePasses

Next == Loop \/ Answered \/ NotAnswered \/ Cancel \/ Processes

Init ==
  /\ kind \in {"request", "tool"} /\ pc = "start" /\ attempt = 0 /\ request = 0
  /\ deadline = FALSE /\ cancels = 0 /\ owed = 0 /\ cause = "none" /\ cleanup = "none"
  /\ leader = [a \in AttemptIds |-> "none"] /\ child = [a \in AttemptIds |-> "none"]
  /\ outcome = "none"

Spec == Init /\ [][Next]_vars
FairSpec == Spec /\ WF_vars(Loop)
-------------------------------------------------------------------------------
(* Properties *)

ToolTypeOK ==
  /\ kind \in {"request", "tool"} /\ pc \in Places /\ outcome \in Outcomes
  /\ attempt \in 0..MaxAttempts /\ request \in 0..Retries /\ deadline \in BOOLEAN
  /\ cancels \in 0..MaxCancels /\ owed \in 0..cancels
  /\ cause \in {"none", "timeout", "cancelled"}
  /\ cleanup \in {"none", "begin", "term", "kill", "last", "done", "cancelled"}
  /\ leader \in [AttemptIds -> {"none", "running", "killed", "exited"}]
  /\ child \in [AttemptIds -> {"none", "running", "signalled", "killed", "gone"}]

\* A tool outlives the attempt that started it only if it was killed and takes its
\* time to go, whatever interrupted the attempt, unless the cleanup was itself
\* cancelled: so no retry runs beside the tool of an earlier attempt that still works.
ToolDoomed ==
  \A a \in AttemptIds :
    leader[a] = "running" =>
      \/ a = attempt /\ pc \in {"talk", "shield", "unshielded"}
      \/ cleanup = "cancelled"

\* Once the worker has cancelled the run, it asks no provider, starts no tool and
\* sleeps for no retry any more, and it ends cancelled, even where a deadline passed
\* before or after; only the cleanup after the tool's own timeout keeps its result.
CancelHonoured ==
  cancels > 0 =>
    /\ pc \in {"respawn", "shield", "unshielded", "done"}
    /\ pc = "done" => outcome = "cancelled" \/ cause = "timeout"

\* execute comes to an end, even if no provider answers and the tool neither ends by
\* itself nor can be killed.
ExecuteEnds == <>(pc = "done")

\* "Timeout and caller cancellation both terminate the complete process tree": a
\* tool that was interrupted, and whose cleanup is complete, leaves no descendant
\* that was never told to end.
TreeTerminated ==
  cause # "none" /\ cleanup = "done" /\ pc \notin {"shield", "unshielded"} =>
    child[attempt] # "running"
================================================================================
