-------------------------------- MODULE Services --------------------------------
(***************************************************************************)
(* How the deployment comes up, repairs itself and goes down: the API's    *)
(* service container (app/main.py), which builds its connections once and  *)
(* repairs what failed when somebody asks whether it is ready; the         *)
(* worker's startup (app/worker.py), whose heartbeat the API's queue       *)
(* health needs; the constraints both create in Neo4j                      *)
(* (app/storage/neo4j.py); and the frontend, which docker-compose.yml      *)
(* starts once the API's readiness check succeeded.                        *)
(*                                                                         *)
(* A step of the API runs to its next await.  The rate limiter and the     *)
(* token verifier are built without I/O in the same step as the end of a   *)
(* repair.                                                                 *)
(***************************************************************************)
EXTENDS Naturals

CONSTANTS
  Probes,   \* requests for the readiness or the capabilities, at a time
  Startup,  \* the construction when the API starts
  Free      \* nobody holds dependency_lock

ASSUME ServicesAssumption == Startup \notin Probes /\ Free \notin Probes \cup {Startup}

VARIABLES
  neo4j, redis,  \* they can be reached
  constraints,   \* Neo4j's uniqueness constraints exist
  phase,         \* of the API: "starting", "serving", "stopping" or "closed"
  store, queue,  \* its connections: "none", "open" or "closed"
  made,          \* how many of each it has built and not closed
  initialized,   \* store_initialized
  errors,        \* startup_errors
  lock,          \* who holds dependency_lock
  tasks,         \* where each repair or probe waits, and what it found
  loops,         \* retention and dispatch: "sleeping", "working" or "ended"
  worker,        \* "down", "checking", "initializing" or "running"
  heartbeat,     \* the worker's key in Redis
  frontend       \* readiness was answered, so the frontend may start

services == <<store, queue, made, initialized, errors>>
outside == <<neo4j, redis, worker, heartbeat, frontend>>
vars == <<neo4j, redis, constraints, phase, services, lock, tasks, loops, worker, heartbeat,
          frontend>>

Tasks == Probes \cup {Startup}
Loops == {"retention", "dispatch"}
Idle == [pc |-> "idle", errors |-> {}, healthy |-> TRUE]
None == [d \in {"store", "queue"} |-> 0]

-------------------------------------------------------------------------------
(* _repair_production_services.                                            *)
At(t, pc) == tasks' = [tasks EXCEPT ![t].pc = pc]

\* Mutant: nobody waits for the lock.
AcquireAlways(t) ==
  /\ tasks[t].pc = "lock"
  /\ lock' = t
  /\ IF store = "none"
       THEN store' = "open" /\ made' = [made EXCEPT !["store"] = @ + 1]
       ELSE UNCHANGED <<store, made>>
  /\ At(t, "health")
  /\ UNCHANGED <<constraints, phase, queue, initialized, errors, loops, outside>>

\* The store's driver connects on first use.
Acquire(t) ==
  /\ tasks[t].pc = "lock" /\ lock = Free
  /\ lock' = t
  /\ IF store = "none"
       THEN store' = "open" /\ made' = [made EXCEPT !["store"] = @ + 1]
       ELSE UNCHANGED <<store, made>>
  /\ At(t, "health")
  /\ UNCHANGED <<constraints, phase, queue, initialized, errors, loops, outside>>

\* The repair ends: the errors it found replace the last ones.
Release(t, found) ==
  /\ lock' = Free /\ errors' = found
  /\ IF t = Startup
       THEN /\ tasks' = [tasks EXCEPT ![t] = Idle]
            /\ phase' = "serving" /\ loops' = [l \in Loops |-> "sleeping"]
       ELSE /\ tasks' = [tasks EXCEPT ![t] = [Idle EXCEPT !.pc = "store"]]
            /\ UNCHANGED <<phase, loops>>

\* After the store comes the queue, unless there is one.
StoreDone(t, found) ==
  \/ /\ queue = "none"
     /\ tasks' = [tasks EXCEPT ![t].pc = "pool", ![t].errors = found]
     /\ UNCHANGED <<lock, errors, phase, loops>>
  \/ /\ queue # "none"
     /\ Release(t, found)

\* health, with its two seconds.
StoreHealth(t) ==
  /\ tasks[t].pc = "health"
  /\ \/ /\ neo4j /\ ~initialized
        /\ At(t, "initialize")
        /\ UNCHANGED <<lock, errors, phase, loops>>
     \/ neo4j /\ initialized /\ StoreDone(t, {})
     \/ ~neo4j /\ StoreDone(t, {"store"})
  /\ UNCHANGED <<constraints, store, queue, made, initialized, outside>>

\* Mutant: the store counts as initialised before it is.
InitializeInVain(t) ==
  /\ tasks[t].pc = "initialize"
  /\ initialized' = TRUE
  /\ IF neo4j
       THEN constraints' = TRUE /\ StoreDone(t, {})
       ELSE UNCHANGED constraints /\ StoreDone(t, {"store"})
  /\ UNCHANGED <<store, queue, made, outside>>

\* One query for each constraint, each IF NOT EXISTS.
Initialize(t) ==
  /\ tasks[t].pc = "initialize"
  /\ IF neo4j
       THEN constraints' = TRUE /\ initialized' = TRUE /\ StoreDone(t, {})
       ELSE UNCHANGED <<constraints, initialized>> /\ StoreDone(t, {"store"})
  /\ UNCHANGED <<store, queue, made, outside>>

\* create_pool connects.
CreatePool(t) ==
  /\ tasks[t].pc = "pool"
  /\ IF redis
       THEN /\ queue' = "open" /\ made' = [made EXCEPT !["queue"] = @ + 1]
            /\ Release(t, tasks[t].errors)
       ELSE /\ UNCHANGED <<queue, made>>
            /\ Release(t, tasks[t].errors \cup {"queue"})
  /\ UNCHANGED <<constraints, store, initialized, outside>>

-------------------------------------------------------------------------------
(* readiness, and what capabilities does like it.                          *)
\* Mutant: a probe only looks.
ProbeOnly(p) ==
  /\ phase = "serving" /\ tasks[p] = Idle
  /\ At(p, "store")
  /\ UNCHANGED <<constraints, phase, services, lock, loops, outside>>

Probe(p) ==
  /\ phase = "serving" /\ tasks[p] = Idle
  /\ At(p, IF errors # {} THEN "lock" ELSE "store")
  /\ UNCHANGED <<constraints, phase, services, lock, loops, outside>>

Checked(p, pc, healthy) ==
  /\ tasks' = [tasks EXCEPT ![p].pc = pc, ![p].healthy = @ /\ healthy]
  /\ UNCHANGED <<constraints, phase, services, lock, loops, outside>>

CheckStore(p) ==
  tasks[p].pc = "store" /\ Checked(p, "queue", store = "open" /\ neo4j)

\* Redis answers, and the worker's heartbeat is there.
CheckQueue(p) ==
  tasks[p].pc = "queue" /\ Checked(p, "limiter", queue = "open" /\ redis /\ heartbeat)

\* The limiter's health, and then the answer: 200 lets the frontend start.
Answer(p) ==
  /\ tasks[p].pc = "limiter"
  /\ tasks' = [tasks EXCEPT ![p] = Idle]
  /\ frontend' = (frontend \/ (tasks[p].healthy /\ redis /\ errors = {}))
  /\ UNCHANGED <<constraints, phase, services, lock, loops, neo4j, redis, worker, heartbeat>>

-------------------------------------------------------------------------------
(* The API's loops, its end and its crash.                                 *)
LoopWorks(l) ==
  /\ phase = "serving" /\ loops[l] = "sleeping"
  /\ store # "none" /\ (l = "dispatch" => queue # "none")
  /\ loops' = [loops EXCEPT ![l] = "working"]
  /\ UNCHANGED <<constraints, phase, services, lock, tasks, outside>>

LoopRests(l) ==
  /\ loops[l] = "working"
  /\ loops' = [loops EXCEPT ![l] = "sleeping"]
  /\ UNCHANGED <<constraints, phase, services, lock, tasks, outside>>

\* Mutant: a loop without its connections never looks at stop.
LoopEndsWithConnections(l) ==
  /\ phase = "stopping" /\ loops[l] = "sleeping"
  /\ store # "none" /\ (l = "dispatch" => queue # "none")
  /\ loops' = [loops EXCEPT ![l] = "ended"]
  /\ UNCHANGED <<constraints, phase, services, lock, tasks, outside>>

LoopEnds(l) ==
  /\ phase = "stopping" /\ loops[l] = "sleeping"
  /\ loops' = [loops EXCEPT ![l] = "ended"]
  /\ UNCHANGED <<constraints, phase, services, lock, tasks, outside>>

\* The server has answered the requests it had.
Stop ==
  /\ phase = "serving" /\ \A t \in Tasks : tasks[t] = Idle
  /\ phase' = "stopping"
  /\ UNCHANGED <<constraints, services, lock, tasks, loops, outside>>

\* Mutant: the connections are closed when the loops are told to stop.
CloseAtOnce ==
  /\ phase = "stopping" /\ phase' = "closed"
  /\ store' = IF store = "open" THEN "closed" ELSE store
  /\ queue' = IF queue = "open" THEN "closed" ELSE queue
  /\ made' = None
  /\ UNCHANGED <<constraints, initialized, errors, lock, tasks, loops, outside>>

CloseServices ==
  /\ phase = "stopping" /\ \A l \in Loops : loops[l] = "ended"
  /\ phase' = "closed"
  /\ store' = IF store = "open" THEN "closed" ELSE store
  /\ queue' = IF queue = "open" THEN "closed" ELSE queue
  /\ made' = None
  /\ UNCHANGED <<constraints, initialized, errors, lock, tasks, loops, outside>>

Fresh ==
  /\ phase' = "starting" /\ store' = "none" /\ queue' = "none" /\ made' = None
  /\ initialized' = FALSE /\ errors' = {} /\ lock' = Free
  /\ tasks' = [t \in Tasks |-> IF t = Startup THEN [Idle EXCEPT !.pc = "lock"] ELSE Idle]
  /\ loops' = [l \in Loops |-> "ended"]

\* The container crashes or has stopped, and starts again.
Restart == Fresh /\ UNCHANGED <<constraints, outside>>

-------------------------------------------------------------------------------
(* The worker: startup_case_worker, then ARQ's heartbeat.                  *)
inside == <<phase, services, lock, tasks, loops>>

WorkerStarts ==
  /\ worker = "down" /\ worker' = "checking"
  /\ UNCHANGED <<constraints, inside, neo4j, redis, heartbeat, frontend>>

\* Without a healthy store it raises and the container starts again.
WorkerChecks ==
  /\ worker = "checking"
  /\ worker' = IF neo4j THEN "initializing" ELSE "down"
  /\ UNCHANGED <<constraints, inside, neo4j, redis, heartbeat, frontend>>

WorkerInitializes ==
  /\ worker = "initializing"
  /\ IF neo4j THEN constraints' = TRUE /\ worker' = "running"
              ELSE worker' = "down" /\ UNCHANGED constraints
  /\ UNCHANGED <<inside, neo4j, redis, heartbeat, frontend>>

WorkerDies ==
  /\ worker # "down" /\ worker' = "down"
  /\ UNCHANGED <<constraints, inside, neo4j, redis, heartbeat, frontend>>

WorkerBeats ==
  /\ worker = "running" /\ redis /\ heartbeat' = TRUE
  /\ UNCHANGED <<constraints, inside, neo4j, redis, worker, frontend>>

\* The key outlives the worker for a while.
HeartbeatExpires ==
  /\ heartbeat /\ (worker # "running" \/ ~redis) /\ heartbeat' = FALSE
  /\ UNCHANGED <<constraints, inside, neo4j, redis, worker, frontend>>

Neo4jFlips ==
  /\ neo4j' = ~neo4j
  /\ UNCHANGED <<constraints, inside, redis, worker, heartbeat, frontend>>
RedisFlips ==
  /\ redis' = ~redis
  /\ UNCHANGED <<constraints, inside, neo4j, worker, heartbeat, frontend>>

-------------------------------------------------------------------------------
Repair(t) == Acquire(t) \/ StoreHealth(t) \/ Initialize(t) \/ CreatePool(t)
Check(p) == Probe(p) \/ CheckStore(p) \/ CheckQueue(p) \/ Answer(p)
Loop(l) == LoopWorks(l) \/ LoopRests(l) \/ LoopEnds(l)
Worker == WorkerStarts \/ WorkerChecks \/ WorkerInitializes

Next ==
  \/ \E t \in Tasks : Repair(t)
  \/ \E p \in Probes : Check(p)
  \/ \E l \in Loops : Loop(l)
  \/ Stop \/ CloseServices \/ Restart
  \/ Worker \/ WorkerDies \/ WorkerBeats \/ HeartbeatExpires
  \/ Neo4jFlips \/ RedisFlips

Init ==
  /\ neo4j \in BOOLEAN /\ redis \in BOOLEAN /\ constraints = FALSE
  /\ phase = "starting" /\ store = "none" /\ queue = "none" /\ made = None
  /\ initialized = FALSE /\ errors = {} /\ lock = Free
  /\ tasks = [t \in Tasks |-> IF t = Startup THEN [Idle EXCEPT !.pc = "lock"] ELSE Idle]
  /\ loops = [l \in Loops |-> "ended"]
  /\ worker = "down" /\ heartbeat = FALSE /\ frontend = FALSE

Spec == Init /\ [][Next]_vars

\* Every task and loop goes on, docker-compose.yml probes the API again and again,
\* and the worker is restarted and beats.
Fairness ==
  /\ \A t \in Tasks : SF_vars(Acquire(t)) /\ WF_vars(StoreHealth(t) \/ Initialize(t) \/ CreatePool(t))
  /\ \A p \in Probes : WF_vars(Check(p))
  /\ \A l \in Loops : WF_vars(LoopRests(l)) /\ WF_vars(LoopEnds(l))
  /\ WF_vars(CloseServices)
  /\ WF_vars(Worker) /\ WF_vars(WorkerBeats)

FairSpec == Spec /\ Fairness
-------------------------------------------------------------------------------
(* Properties *)

ServicesTypeOK ==
  /\ phase \in {"starting", "serving", "stopping", "closed"}
  /\ store \in {"none", "open", "closed"} /\ queue \in {"none", "open", "closed"}
  /\ errors \subseteq {"store", "queue"} /\ lock \in Tasks \cup {Free}
  /\ loops \in [Loops -> {"sleeping", "working", "ended"}]
  /\ worker \in {"down", "checking", "initializing", "running"}
  /\ \A t \in Tasks :
       /\ tasks[t].pc \in {"idle", "lock", "health", "initialize", "pool", "store", "queue", "limiter"}
       /\ tasks[t].errors \subseteq {"store"} /\ tasks[t].healthy \in BOOLEAN
       /\ tasks[t].pc \in {"health", "initialize", "pool"} <=> lock = t

\* However many probes repair at once, the API has one connection of each kind, and
\* none that it would not close.
NothingLeaked ==
  /\ made["store"] = IF store = "open" THEN 1 ELSE 0
  /\ made["queue"] = IF queue = "open" THEN 1 ELSE 0

\* A loop never works on connections that are closed.
LoopsBeforeClose ==
  \A l \in Loops : loops[l] = "working" => store = "open" /\ (l = "dispatch" => queue = "open")

\* "Create the uniqueness constraints required for safe idempotent writes": they exist
\* before the worker takes a job and before the frontend lets anybody in, whatever
\* restarted in between.
WritesProtected == (worker = "running" \/ frontend \/ initialized) => constraints

\* Once Neo4j, Redis and the API stay up, the probes mend whatever was missing, and
\* readiness is answered.  Compose may have stopped waiting by then.
Mends ==
  <>[](neo4j /\ redis /\ phase = "serving" /\ worker = "running") => <>[](errors = {}) /\ <>frontend

\* An API that is told to stop closes its connections.
StopEnds == phase = "stopping" ~> phase # "stopping"
================================================================================
