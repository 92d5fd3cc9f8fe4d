------------------------------ MODULE ServicesProofs ------------------------------
(***************************************************************************)
(* What the services keep while they start, repair themselves, stop and    *)
(* crash, for any number of probes.                                        *)
(***************************************************************************)
EXTENDS Services, TLAPS

RepairPlaces == {"lock", "health", "initialize", "pool"}
Task == [pc : {"idle", "store", "queue", "limiter"} \cup RepairPlaces,
         errors : SUBSET {"store"}, healthy : BOOLEAN]

Typed ==
  /\ ServicesTypeOK
  /\ tasks \in [Tasks -> Task] /\ made \in [{"store", "queue"} -> Nat]
  /\ initialized \in BOOLEAN /\ constraints \in BOOLEAN /\ frontend \in BOOLEAN

\* Only the construction runs while the API starts, only probes while it serves.
InPhase ==
  /\ tasks[Startup].pc \in RepairPlaces \cup {"idle"}
  /\ tasks[Startup].pc # "idle" => phase = "starting"
  /\ \A p \in Probes : tasks[p].pc # "idle" => phase = "serving"

\* Who is about to create a pool holds the lock, so nobody else has created one.
Connected ==
  /\ NothingLeaked /\ LoopsBeforeClose
  /\ \A t \in Tasks : tasks[t].pc = "pool" => queue = "none"
  /\ phase # "closed" => store # "closed" /\ queue # "closed"

\* A repair that reports no error of the store has initialised it.
Protected ==
  /\ WritesProtected
  /\ \A t \in Tasks : tasks[t].pc = "pool" /\ "store" \notin tasks[t].errors => initialized
  /\ phase # "starting" /\ "store" \notin errors => initialized

ServicesInv == Typed /\ InPhase /\ Connected /\ Protected

-------------------------------------------------------------------------------
(* Changes of a task.                                                      *)
LEMMA TaskMoves ==
  ASSUME tasks \in [Tasks -> Task], NEW t \in Tasks,
         NEW pc \in {"idle", "store", "queue", "limiter"} \cup RepairPlaces, At(t, pc)
  PROVE  /\ tasks' \in [Tasks -> Task]
         /\ tasks'[t].pc = pc /\ tasks'[t].errors = tasks[t].errors
         /\ \A u \in Tasks : u # t => tasks'[u] = tasks[u]
  BY DEF At, Task

LEMMA TaskFinds ==
  ASSUME tasks \in [Tasks -> Task], NEW t \in Tasks, NEW found \in SUBSET {"store"},
         tasks' = [tasks EXCEPT ![t].pc = "pool", ![t].errors = found]
  PROVE  /\ tasks' \in [Tasks -> Task]
         /\ tasks'[t].pc = "pool" /\ tasks'[t].errors = found
         /\ \A u \in Tasks : u # t => tasks'[u] = tasks[u]
  BY DEF Task, RepairPlaces

LEMMA TaskReleases ==
  ASSUME tasks \in [Tasks -> Task], NEW t \in Tasks, NEW found, Release(t, found)
  PROVE  /\ tasks' \in [Tasks -> Task]
         /\ tasks'[t].pc = IF t = Startup THEN "idle" ELSE "store"
         /\ tasks'[t].errors = {}
         /\ \A u \in Tasks : u # t => tasks'[u] = tasks[u]
<1> DEFINE Left(u) == IF u = Startup THEN Idle ELSE [Idle EXCEPT !.pc = "store"]
<1>1. Left(t) \in Task /\ Left(t).pc = (IF t = Startup THEN "idle" ELSE "store") /\ Left(t).errors = {}
  BY DEF Idle, Task
<1>2. tasks' = [tasks EXCEPT ![t] = Left(t)]
  BY DEF Release
<1> HIDE DEF Left
<1>3. QED
  BY <1>1, <1>2

LEMMA TaskChecks ==
  ASSUME tasks \in [Tasks -> Task], NEW p \in Tasks,
         NEW pc \in {"queue", "limiter"}, NEW healthy \in BOOLEAN, Checked(p, pc, healthy)
  PROVE  /\ tasks' \in [Tasks -> Task]
         /\ tasks'[p].pc = pc /\ tasks'[p].errors = tasks[p].errors
         /\ \A u \in Tasks : u # p => tasks'[u] = tasks[u]
  BY DEF Checked, Task

-------------------------------------------------------------------------------
(* The repair.                                                             *)
\* A task between the lock and its release holds the lock.
LEMMA RepairHolds ==
  ASSUME ServicesInv, NEW t \in Tasks, tasks[t].pc \in {"health", "initialize", "pool"}
  PROVE  /\ lock = t
         /\ \A u \in Tasks : u # t => tasks[u].pc \notin {"health", "initialize", "pool"}
         /\ t = Startup => phase = "starting"
         /\ t # Startup => t \in Probes /\ phase = "serving"
  BY DEF ServicesInv, Typed, ServicesTypeOK, InPhase, Tasks

\* The end of a repair, whatever it did to the queue and the constraints.
LEMMA ReleaseStep ==
  ASSUME ServicesInv, NEW t \in Tasks, tasks[t].pc \in {"health", "initialize", "pool"},
         NEW found \in SUBSET {"store", "queue"}, Release(t, found),
         UNCHANGED <<store, outside>>,
         queue' = queue \/ (queue = "none" /\ queue' = "open"),
         made' \in [{"store", "queue"} -> Nat], NothingLeaked',
         initialized' \in BOOLEAN, constraints' \in BOOLEAN,
         initialized => initialized', constraints => constraints',
         initialized' => constraints', "store" \notin found => initialized'
  PROVE  ServicesInv'
<1>1. /\ tasks' \in [Tasks -> Task] /\ tasks'[t].errors = {}
      /\ tasks'[t].pc = IF t = Startup THEN "idle" ELSE "store"
      /\ \A u \in Tasks : u # t => tasks'[u] = tasks[u]
  BY TaskReleases DEF ServicesInv, Typed
<1>2. /\ lock' = Free /\ errors' = found /\ lock = t
      /\ t = Startup => phase' = "serving" /\ loops' = [l \in Loops |-> "sleeping"]
      /\ t # Startup => t \in Probes /\ phase = "serving" /\ UNCHANGED <<phase, loops>>
      /\ t = Startup => phase = "starting"
      /\ \A u \in Tasks : u # t => tasks[u].pc \notin {"health", "initialize", "pool"}
  BY RepairHolds DEF Release
<1>3. \A u \in Tasks : tasks'[u].pc \notin {"health", "initialize", "pool"} /\ lock' # u
  BY <1>1, <1>2, ServicesAssumption DEF Tasks
<1>4. Typed'
  <2>1. \A u \in Tasks :
          /\ tasks'[u].pc \in {"idle", "lock", "health", "initialize", "pool", "store", "queue", "limiter"}
          /\ tasks'[u].errors \subseteq {"store"} /\ tasks'[u].healthy \in BOOLEAN
    BY <1>1 DEF Task, RepairPlaces
  <2>2. /\ phase' \in {"starting", "serving", "stopping", "closed"}
        /\ loops' \in [Loops -> {"sleeping", "working", "ended"}]
    BY <1>2 DEF ServicesInv, Typed, ServicesTypeOK
  <2>3. QED
    BY <1>1, <1>2, <1>3, <2>1, <2>2
    DEF ServicesInv, Typed, ServicesTypeOK, outside
<1>5. InPhase'
  <2>1. \A p \in Probes : p # Startup /\ p \in Tasks
    BY ServicesAssumption DEF Tasks
  <2>2. Startup \in Tasks
    BY DEF Tasks
  <2>3. QED
    BY <1>1, <1>2, <2>1, <2>2 DEF ServicesInv, InPhase
<1>6. Connected'
  <2>1. LoopsBeforeClose'
    BY <1>2 DEF ServicesInv, Connected, LoopsBeforeClose
  <2>2. QED
    BY <1>2, <1>3, <2>1 DEF ServicesInv, Connected, outside
<1>7. Protected'
  BY <1>2, <1>3 DEF ServicesInv, Protected, WritesProtected, outside
<1>8. QED
  BY <1>4, <1>5, <1>6, <1>7 DEF ServicesInv

\* The store's part of a repair is over.
LEMMA StoreDoneStep ==
  ASSUME ServicesInv, NEW t \in Tasks, tasks[t].pc \in {"health", "initialize"},
         NEW found \in SUBSET {"store"}, StoreDone(t, found),
         UNCHANGED <<store, queue, made, outside>>,
         initialized' \in BOOLEAN, constraints' \in BOOLEAN,
         initialized => initialized', constraints => constraints',
         initialized' => constraints', "store" \notin found => initialized'
  PROVE  ServicesInv'
<1>1. CASE queue # "none" /\ Release(t, found)
  BY <1>1, ReleaseStep DEF ServicesInv, Typed, Connected, NothingLeaked
<1>2. CASE /\ queue = "none"
           /\ tasks' = [tasks EXCEPT ![t].pc = "pool", ![t].errors = found]
           /\ UNCHANGED <<lock, errors, phase, loops>>
  <2>1. /\ tasks' \in [Tasks -> Task] /\ tasks'[t].pc = "pool" /\ tasks'[t].errors = found
        /\ \A u \in Tasks : u # t => tasks'[u] = tasks[u]
    BY <1>2, TaskFinds DEF ServicesInv, Typed
  <2>2. lock = t /\ \A u \in Tasks : u # t => lock # u
    BY RepairHolds
  <2>3. Typed'
    <3>1. \A u \in Tasks :
            /\ tasks'[u].pc \in {"idle", "lock", "health", "initialize", "pool", "store", "queue", "limiter"}
            /\ tasks'[u].errors \subseteq {"store"} /\ tasks'[u].healthy \in BOOLEAN
            /\ tasks'[u].pc \in {"health", "initialize", "pool"} <=> lock' = u
      BY <1>2, <2>1, <2>2 DEF Task, RepairPlaces, ServicesInv, Typed, ServicesTypeOK
    <3>2. QED
      BY <1>2, <2>1, <3>1 DEF ServicesInv, Typed, ServicesTypeOK, outside
  <2>4. InPhase'
    <3>1. Startup \in Tasks /\ \A p \in Probes : p \in Tasks
      BY DEF Tasks
    <3>2. QED
      BY <1>2, <2>1, <3>1 DEF ServicesInv, InPhase, RepairPlaces
  <2>5. Connected'
    BY <1>2, <2>1 DEF ServicesInv, Connected, NothingLeaked, LoopsBeforeClose
  <2>6. Protected'
    BY <1>2, <2>1 DEF ServicesInv, Protected, WritesProtected, outside
  <2>7. QED
    BY <2>3, <2>4, <2>5, <2>6 DEF ServicesInv
<1>3. QED
  BY <1>1, <1>2 DEF StoreDone

\* Taking the lock, or a step of the probe beside the repair.
LEMMA TaskStep ==
  ASSUME ServicesInv, NEW t \in Tasks, tasks' \in [Tasks -> Task],
         \A u \in Tasks : u # t => tasks'[u] = tasks[u],
         tasks'[t].pc # "pool", UNCHANGED <<constraints, phase, queue, initialized, errors,
                                            loops, neo4j, redis, worker, heartbeat>>,
         store' \in {"none", "open", "closed"}, made' \in [{"store", "queue"} -> Nat],
         store' = store \/ (store = "none" /\ store' = "open"),
         NothingLeaked', frontend' \in BOOLEAN, frontend' => constraints,
         lock' \in Tasks \cup {Free},
         \A u \in Tasks : tasks'[u].pc \in {"health", "initialize", "pool"} <=> lock' = u,
         t = Startup => tasks'[t].pc \in RepairPlaces /\ phase = "starting",
         t # Startup /\ tasks'[t].pc # "idle" => phase = "serving"
  PROVE  ServicesInv'
<1>1. Typed'
  <2>1. \A u \in Tasks :
          /\ tasks'[u].pc \in {"idle", "lock", "health", "initialize", "pool", "store", "queue", "limiter"}
          /\ tasks'[u].errors \subseteq {"store"} /\ tasks'[u].healthy \in BOOLEAN
    BY DEF Task, RepairPlaces
  <2>2. QED
    BY <2>1 DEF ServicesInv, Typed, ServicesTypeOK
<1>2. InPhase'
  <2>1. Startup \in Tasks /\ \A p \in Probes : p \in Tasks /\ p # Startup
    BY ServicesAssumption DEF Tasks
  <2>2. QED
    BY <2>1 DEF ServicesInv, InPhase
<1>3. Connected'
  BY DEF ServicesInv, Connected, LoopsBeforeClose
<1>4. Protected'
  BY DEF ServicesInv, Protected, WritesProtected
<1>5. QED
  BY <1>1, <1>2, <1>3, <1>4 DEF ServicesInv

LEMMA RepairStep ==
  ASSUME ServicesInv, NEW t \in Tasks, Repair(t)
  PROVE  ServicesInv'
<1>1. /\ tasks \in [Tasks -> Task] /\ initialized \in BOOLEAN /\ constraints \in BOOLEAN
      /\ made \in [{"store", "queue"} -> Nat] /\ frontend \in BOOLEAN
      /\ (frontend => constraints) /\ (initialized => constraints)
      /\ store \in {"none", "open", "closed"} /\ lock \in Tasks \cup {Free}
  BY DEF ServicesInv, Typed, ServicesTypeOK, Protected, WritesProtected
<1>2. \A u \in Tasks : tasks[u].pc \in {"health", "initialize", "pool"} <=> lock = u
  BY DEF ServicesInv, Typed, ServicesTypeOK
<1>3. t = Startup \/ t \in Probes
  BY DEF Tasks
<1>4. tasks[t].pc # "idle" => phase = IF t = Startup THEN "starting" ELSE "serving"
  BY <1>3 DEF ServicesInv, InPhase
<1>5. CASE Acquire(t)
  <2>1. /\ tasks' \in [Tasks -> Task] /\ tasks'[t].pc = "health"
        /\ \A u \in Tasks : u # t => tasks'[u] = tasks[u]
    BY <1>1, <1>5, TaskMoves DEF Acquire, RepairPlaces
  <2>2. \A u \in Tasks : tasks'[u].pc \in {"health", "initialize", "pool"} <=> lock' = u
    BY <1>2, <1>5, <2>1, ServicesAssumption DEF Acquire, Tasks
  <2>3. NothingLeaked' /\ made' \in [{"store", "queue"} -> Nat]
    BY <1>1, <1>5 DEF Acquire, ServicesInv, Connected, NothingLeaked
  <2>4. QED
    BY <1>1, <1>4, <1>5, <2>1, <2>2, <2>3, TaskStep DEF Acquire, outside, RepairPlaces
<1>6. CASE StoreHealth(t)
  <2>1. CASE ~initialized /\ At(t, "initialize") /\ UNCHANGED <<lock, errors, phase, loops>>
    <3>1. /\ tasks' \in [Tasks -> Task] /\ tasks'[t].pc = "initialize"
          /\ \A u \in Tasks : u # t => tasks'[u] = tasks[u]
      BY <1>1, <2>1, TaskMoves DEF RepairPlaces
    <3>2. \A u \in Tasks : tasks'[u].pc \in {"health", "initialize", "pool"} <=> lock' = u
      BY <1>2, <1>6, <2>1, <3>1 DEF StoreHealth
    <3>3. NothingLeaked'
      BY <1>6 DEF StoreHealth, ServicesInv, Connected, NothingLeaked
    <3>4. QED
      BY <1>1, <1>4, <1>6, <2>1, <3>1, <3>2, <3>3, TaskStep DEF StoreHealth, outside, RepairPlaces
  <2>2. CASE initialized /\ StoreDone(t, {})
    BY <1>1, <1>6, <2>2, StoreDoneStep DEF StoreHealth
  <2>3. CASE StoreDone(t, {"store"})
    BY <1>1, <1>6, <2>3, StoreDoneStep DEF StoreHealth
  <2>4. QED
    BY <1>6, <2>1, <2>2, <2>3 DEF StoreHealth
<1>7. CASE Initialize(t)
  <2>1. tasks[t].pc = "initialize" /\ UNCHANGED <<store, queue, made, outside>>
    BY <1>7 DEF Initialize
  <2>2. CASE neo4j
    <3>1. constraints' /\ initialized' /\ StoreDone(t, {})
      BY <1>7, <2>2 DEF Initialize
    <3>2. initialized' \in BOOLEAN /\ constraints' \in BOOLEAN
      BY <1>7, <2>2, Zenon DEF Initialize
    <3>3. QED
      BY <2>1, <3>1, <3>2, StoreDoneStep
  <2>3. CASE ~neo4j
    <3>1. UNCHANGED <<constraints, initialized>> /\ StoreDone(t, {"store"})
      BY <1>7, <2>3 DEF Initialize
    <3>2. QED
      BY <1>1, <2>1, <3>1, StoreDoneStep
  <2>4. QED
    BY <2>2, <2>3
<1>8. CASE CreatePool(t)
  <2>1. queue = "none" /\ tasks[t].errors \in SUBSET {"store"}
        /\ ("store" \notin tasks[t].errors => initialized)
    BY <1>1, <1>8 DEF CreatePool, ServicesInv, Connected, Protected, Task
  <2>2. NothingLeaked' /\ made' \in [{"store", "queue"} -> Nat]
    BY <1>1, <1>8, <2>1 DEF CreatePool, Release, ServicesInv, Connected, NothingLeaked
  <2>3. PICK found \in SUBSET {"store", "queue"} :
          Release(t, found) /\ ("store" \notin found => "store" \notin tasks[t].errors)
    BY <1>8, <2>1 DEF CreatePool
  <2>4. QED
    BY <1>1, <1>8, <2>1, <2>2, <2>3, ReleaseStep DEF CreatePool
<1>9. QED
  BY <1>5, <1>6, <1>7, <1>8 DEF Repair

LEMMA CheckStep ==
  ASSUME ServicesInv, NEW p \in Probes, Check(p)
  PROVE  ServicesInv'
<1>1. /\ tasks \in [Tasks -> Task] /\ made \in [{"store", "queue"} -> Nat]
      /\ frontend \in BOOLEAN /\ store \in {"none", "open", "closed"}
      /\ lock \in Tasks \cup {Free} /\ (frontend => constraints)
      /\ p \in Tasks /\ p # Startup
      /\ \A u \in Tasks : tasks[u].pc \in {"health", "initialize", "pool"} <=> lock = u
  BY ServicesAssumption
  DEF ServicesInv, Typed, ServicesTypeOK, Protected, WritesProtected, Tasks
<1>2. tasks[p].pc # "idle" => phase = "serving"
  BY DEF ServicesInv, InPhase
<1> DEFINE Moves == /\ tasks' \in [Tasks -> Task]
                    /\ tasks'[p].pc \in {"idle", "lock", "store", "queue", "limiter"}
                    /\ \A u \in Tasks : u # p => tasks'[u] = tasks[u]
                    /\ tasks[p].pc \in {"idle", "store", "queue", "limiter"}
                    /\ phase = "serving"
<1>3. ASSUME Moves, UNCHANGED <<constraints, phase, services, lock, loops, neo4j, redis,
                                worker, heartbeat>>,
             frontend' \in BOOLEAN, frontend' => constraints
      PROVE  ServicesInv'
  <2>1. \A u \in Tasks : tasks'[u].pc \in {"health", "initialize", "pool"} <=> lock' = u
    BY <1>1, <1>3
  <2>2. NothingLeaked'
    BY <1>3 DEF ServicesInv, Connected, NothingLeaked, services
  <2>3. QED
    BY <1>1, <1>3, <2>1, <2>2, TaskStep DEF services
<1>4. CASE Probe(p)
  <2>1. tasks[p].pc = "idle"
    BY <1>4 DEF Probe, Idle
  <2>2. Moves
    BY <1>1, <1>4, <2>1, TaskMoves DEF Probe, RepairPlaces
  <2>3. QED
    BY <1>1, <1>3, <1>4, <2>2 DEF Probe, outside
<1>5. CASE CheckStore(p)
  <2>1. PICK healthy \in BOOLEAN : Checked(p, "queue", healthy)
    BY <1>5 DEF CheckStore
  <2>2. Moves
    BY <1>1, <1>2, <1>5, <2>1, TaskChecks DEF CheckStore
  <2>3. QED
    BY <1>1, <1>3, <2>1, <2>2 DEF Checked, outside
<1>6. CASE CheckQueue(p)
  <2>1. PICK healthy \in BOOLEAN : Checked(p, "limiter", healthy)
    BY <1>6 DEF CheckQueue
  <2>2. Moves
    BY <1>1, <1>2, <1>6, <2>1, TaskChecks DEF CheckQueue
  <2>3. QED
    BY <1>1, <1>3, <2>1, <2>2 DEF Checked, outside
<1>7. CASE Answer(p)
  <2>1. Idle \in Task /\ Idle.pc = "idle"
    BY DEF Idle, Task
  <2>2. Moves
    BY <1>1, <1>2, <1>7, <2>1 DEF Answer
  <2>3. errors = {} => constraints
    BY <1>2, <1>7 DEF Answer, ServicesInv, Protected, WritesProtected
  <2>4. frontend' \in BOOLEAN /\ (frontend' => constraints)
    BY <1>1, <1>7, <2>3, Zenon DEF Answer
  <2>5. QED
    BY <1>3, <1>7, <2>2, <2>4 DEF Answer
<1>8. QED
  BY <1>4, <1>5, <1>6, <1>7 DEF Check

-------------------------------------------------------------------------------
(* The loops, the end of the API and its start.                            *)
LEMMA QuietTypes ==
  ASSUME ServicesInv
  PROVE  /\ Startup \in Tasks /\ (\A p \in Probes : p \in Tasks /\ p # Startup)
         /\ \A t \in Tasks :
              /\ tasks[t].pc \in {"idle", "lock", "health", "initialize", "pool", "store", "queue", "limiter"}
              /\ tasks[t].errors \subseteq {"store"} /\ tasks[t].healthy \in BOOLEAN
              /\ tasks[t].pc \in {"health", "initialize", "pool"} <=> lock = t
  BY ServicesAssumption DEF ServicesInv, Typed, ServicesTypeOK, Tasks

LEMMA LoopStep ==
  ASSUME ServicesInv, NEW l \in Loops, Loop(l)
  PROVE  ServicesInv'
<1>1. loops' \in [Loops -> {"sleeping", "working", "ended"}]
  BY DEF Loop, LoopWorks, LoopRests, LoopEnds, ServicesInv, Typed, ServicesTypeOK
<1>2. LoopsBeforeClose'
  <2>1. CASE LoopWorks(l)
    <3>1. store = "open" /\ (l = "dispatch" => queue = "open")
      BY <2>1 DEF LoopWorks, ServicesInv, Typed, ServicesTypeOK, Connected
    <3>2. QED
      BY <2>1, <3>1
      DEF LoopWorks, services, ServicesInv, Connected, LoopsBeforeClose, Typed, ServicesTypeOK
  <2>2. CASE LoopRests(l) \/ LoopEnds(l)
    BY <2>2 DEF LoopRests, LoopEnds, services, ServicesInv, Connected, LoopsBeforeClose,
                Typed, ServicesTypeOK
  <2>3. QED
    BY <2>1, <2>2 DEF Loop
<1>3. UNCHANGED <<constraints, phase, services, lock, tasks, outside>>
  BY DEF Loop, LoopWorks, LoopRests, LoopEnds
<1>4. Typed'
  BY <1>1, <1>3 DEF ServicesInv, Typed, ServicesTypeOK, services, outside
<1>5. InPhase' /\ Protected'
  BY <1>3 DEF ServicesInv, InPhase, Protected, WritesProtected, services, outside
<1>6. Connected'
  BY <1>2, <1>3 DEF ServicesInv, Connected, NothingLeaked, services
<1>7. QED
  BY <1>4, <1>5, <1>6 DEF ServicesInv

LEMMA StopStep ==
  ASSUME ServicesInv, Stop PROVE ServicesInv'
<1>1. \A t \in Tasks : tasks[t].pc = "idle"
  BY DEF Stop, Idle
<1>2. Typed' /\ Connected' /\ Protected'
  BY DEF Stop, ServicesInv, Typed, ServicesTypeOK, Connected, NothingLeaked, LoopsBeforeClose,
         Protected, WritesProtected, services, outside
<1>3. InPhase'
  BY <1>1, QuietTypes DEF Stop, ServicesInv, InPhase
<1>4. QED
  BY <1>2, <1>3 DEF ServicesInv

LEMMA CloseStep ==
  ASSUME ServicesInv, CloseServices PROVE ServicesInv'
<1>1. \A t \in Tasks : tasks[t].pc = "idle"
  BY DEF CloseServices, ServicesInv, InPhase, Tasks
<1>2. /\ store' \in {"none", "closed"} /\ queue' \in {"none", "closed"}
      /\ made' \in [{"store", "queue"} -> Nat] /\ made'["store"] = 0 /\ made'["queue"] = 0
  BY DEF CloseServices, None, ServicesInv, Typed, ServicesTypeOK
<1>3. Typed'
  BY <1>2 DEF CloseServices, ServicesInv, Typed, ServicesTypeOK, outside
<1>4. InPhase'
  BY <1>1, QuietTypes DEF CloseServices, ServicesInv, InPhase
<1>5. Connected'
  BY <1>1, <1>2, QuietTypes DEF CloseServices, Connected, NothingLeaked, LoopsBeforeClose
<1>6. Protected'
  BY <1>1, QuietTypes DEF CloseServices, ServicesInv, Protected, WritesProtected, outside
<1>7. QED
  BY <1>3, <1>4, <1>5, <1>6 DEF ServicesInv

\* A new container, whose predecessor may have been anywhere.
LEMMA FreshTasks ==
  ASSUME NEW starts, starts = [t \in Tasks |-> IF t = Startup THEN [Idle EXCEPT !.pc = "lock"] ELSE Idle]
  PROVE  /\ starts \in [Tasks -> Task] /\ starts[Startup].pc = "lock"
         /\ \A p \in Probes : starts[p].pc = "idle"
         /\ \A t \in Tasks : /\ starts[t].pc \in {"idle", "lock"} /\ starts[t].errors = {}
                            /\ starts[t].healthy \in BOOLEAN
<1>1. Idle \in Task /\ Idle.pc = "idle" /\ Idle.errors = {}
  BY DEF Idle, Task
<1> DEFINE first == [Idle EXCEPT !.pc = "lock"]
<1>2. first \in Task /\ first.pc = "lock" /\ first.errors = {}
  BY DEF Idle, Task, RepairPlaces
<1>3. Startup \in Tasks /\ \A p \in Probes : p \in Tasks /\ p # Startup
  BY ServicesAssumption DEF Tasks
<1>4. \A t \in Task : t.healthy \in BOOLEAN
  BY DEF Task
<1>5. starts = [t \in Tasks |-> IF t = Startup THEN first ELSE Idle]
  OBVIOUS
<1> HIDE DEF first
<1>6. QED
  BY <1>1, <1>2, <1>3, <1>4, <1>5

LEMMA RestartStep ==
  ASSUME ServicesInv, Restart PROVE ServicesInv'
<1>1. /\ tasks' \in [Tasks -> Task] /\ tasks'[Startup].pc = "lock"
      /\ \A p \in Probes : tasks'[p].pc = "idle"
      /\ \A t \in Tasks : /\ tasks'[t].pc \in {"idle", "lock"} /\ tasks'[t].errors = {}
                         /\ tasks'[t].healthy \in BOOLEAN
  BY FreshTasks DEF Restart, Fresh
<1>2. /\ made' \in [{"store", "queue"} -> Nat] /\ made'["store"] = 0 /\ made'["queue"] = 0
      /\ store' = "none" /\ queue' = "none" /\ lock' = Free /\ lock' \notin Tasks
      /\ loops' \in [Loops -> {"ended"}] /\ phase' = "starting" /\ errors' = {}
      /\ UNCHANGED <<constraints, outside>> /\ ~initialized'
  BY ServicesAssumption DEF Restart, Fresh, None, Tasks
<1>3. initialized' \in BOOLEAN
  BY Zenon DEF Restart, Fresh
<1>4. Typed'
  BY <1>1, <1>2, <1>3 DEF ServicesInv, Typed, ServicesTypeOK, outside
<1>5. InPhase'
  BY <1>1, <1>2 DEF InPhase, RepairPlaces
<1>6. Connected' /\ Protected'
  BY <1>1, <1>2 DEF ServicesInv, Connected, NothingLeaked, LoopsBeforeClose, Protected,
                    WritesProtected, outside
<1>7. QED
  BY <1>4, <1>5, <1>6 DEF ServicesInv

LEMMA ServicesInit == Init => ServicesInv
<1> SUFFICES ASSUME Init PROVE ServicesInv
  OBVIOUS
<1>1. /\ tasks \in [Tasks -> Task] /\ tasks[Startup].pc = "lock"
      /\ \A p \in Probes : tasks[p].pc = "idle"
      /\ \A t \in Tasks : /\ tasks[t].pc \in {"idle", "lock"} /\ tasks[t].errors = {}
                         /\ tasks[t].healthy \in BOOLEAN
  BY FreshTasks DEF Init
<1>2. /\ made \in [{"store", "queue"} -> Nat] /\ made["store"] = 0 /\ made["queue"] = 0
      /\ store = "none" /\ queue = "none" /\ lock = Free /\ lock \notin Tasks
      /\ loops \in [Loops -> {"ended"}] /\ phase = "starting" /\ errors = {}
      /\ worker = "down" /\ ~initialized /\ ~frontend
  BY ServicesAssumption DEF Init, None, Tasks
<1>3. initialized \in BOOLEAN /\ constraints \in BOOLEAN /\ frontend \in BOOLEAN
  BY Zenon DEF Init
<1>4. Typed
  BY <1>1, <1>2, <1>3 DEF Typed, ServicesTypeOK
<1>5. InPhase
  BY <1>1, <1>2 DEF InPhase, RepairPlaces
<1>6. Connected /\ Protected
  BY <1>1, <1>2 DEF Connected, NothingLeaked, LoopsBeforeClose, Protected, WritesProtected
<1>7. QED
  BY <1>4, <1>5, <1>6 DEF ServicesInv

\* The worker and what the API connects to.
LEMMA OutsideStep ==
  ASSUME ServicesInv,
         Worker \/ WorkerDies \/ WorkerBeats \/ HeartbeatExpires \/ Neo4jFlips \/ RedisFlips
  PROVE  ServicesInv'
<1>1. UNCHANGED <<inside, frontend>>
  BY DEF Worker, WorkerStarts, WorkerChecks, WorkerInitializes, WorkerDies, WorkerBeats,
         HeartbeatExpires, Neo4jFlips, RedisFlips
<1>2. worker' \in {"down", "checking", "initializing", "running"}
  BY DEF Worker, WorkerStarts, WorkerChecks, WorkerInitializes, WorkerDies, WorkerBeats,
         HeartbeatExpires, Neo4jFlips, RedisFlips, ServicesInv, Typed, ServicesTypeOK
<1>3. constraints' \in BOOLEAN
  <2>1. constraints \in BOOLEAN
    BY DEF ServicesInv, Typed
  <2>2. CASE WorkerInitializes
    BY <2>1, <2>2, Zenon DEF WorkerInitializes
  <2>3. CASE UNCHANGED constraints
    BY <2>1, <2>3
  <2>4. QED
    BY <2>2, <2>3 DEF Worker, WorkerStarts, WorkerChecks, WorkerDies, WorkerBeats,
                      HeartbeatExpires, Neo4jFlips, RedisFlips
<1>4. /\ constraints => constraints'
      /\ worker' = "running" => worker = "running" \/ constraints'
  BY DEF Worker, WorkerStarts, WorkerChecks, WorkerInitializes, WorkerDies, WorkerBeats,
         HeartbeatExpires, Neo4jFlips, RedisFlips
<1>5. Typed'
  BY <1>1, <1>2, <1>3 DEF inside, services, ServicesInv, Typed, ServicesTypeOK
<1>6. InPhase' /\ Connected'
  BY <1>1 DEF inside, services, ServicesInv, InPhase, Connected, NothingLeaked, LoopsBeforeClose
<1>7. Protected'
  BY <1>1, <1>4 DEF inside, services, ServicesInv, Protected, WritesProtected
<1>8. QED
  BY <1>5, <1>6, <1>7 DEF ServicesInv

LEMMA ServicesStep == ServicesInv /\ [Next]_vars => ServicesInv'
<1>1. ServicesInv /\ Next => ServicesInv'
  BY RepairStep, CheckStep, LoopStep, StopStep, CloseStep, RestartStep, OutsideStep DEF Next
<1>2. ServicesInv /\ UNCHANGED vars => ServicesInv'
  BY DEF vars, services, ServicesInv, Typed, ServicesTypeOK, InPhase, Connected, NothingLeaked,
         LoopsBeforeClose, Protected, WritesProtected
<1>3. QED
  BY <1>1, <1>2

-------------------------------------------------------------------------------
(* Theorems *)

\* The types of the container, the discipline of dependency_lock among them.
THEOREM ServicesTypes == Spec => []ServicesTypeOK
<1>1. ServicesInv => ServicesTypeOK
  BY DEF ServicesInv, Typed
<1>2. QED
  BY <1>1, ServicesInit, ServicesStep, PTL DEF Spec

\* One connection of each kind, however many probes repair at once.
THEOREM OneConnection == Spec => []NothingLeaked
<1>1. ServicesInv => NothingLeaked
  BY DEF ServicesInv, Connected
<1>2. QED
  BY <1>1, ServicesInit, ServicesStep, PTL DEF Spec

\* _close_services comes after the loops: none works on a closed connection.
THEOREM LoopsEndFirst == Spec => []LoopsBeforeClose
<1>1. ServicesInv => LoopsBeforeClose
  BY DEF ServicesInv, Connected
<1>2. QED
  BY <1>1, ServicesInit, ServicesStep, PTL DEF Spec

\* initialize runs before the worker takes a job and before the frontend starts.
THEOREM ConstraintsFirst == Spec => []WritesProtected
<1>1. ServicesInv => WritesProtected
  BY DEF ServicesInv, Protected
<1>2. QED
  BY <1>1, ServicesInit, ServicesStep, PTL DEF Spec
===============================================================================
