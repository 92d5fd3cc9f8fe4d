----------------------------- MODULE AdmissionProofs -----------------------------
(***************************************************************************)
(* Proofs about Admission, for any number of clients, scans and faults.    *)
(***************************************************************************)
EXTENDS Admission, FiniteSetTheorems, TLAPS

\* A handler past the store holds a scan that is what its request asks for.
HoldsItsScan ==
  \A r \in Requests :
    handler[r].pc \in {"enqueue", "redispatch", "reread", "rewrite"} =>
      /\ handler[r].scan \in Stored
      /\ scans[handler[r].scan].key = key[r] /\ scans[handler[r].scan].body = body[r]
      /\ handler[r].pc = "rewrite" => handler[r].read # "absent"

AdmissionInv == AdmissionTypeOK /\ HoldsItsScan /\ OneScanPerKey /\ BodyHonoured

LEMMA InvInit == Init => AdmissionInv
  <1> SUFFICES ASSUME Init PROVE AdmissionInv
    OBVIOUS
  <1>1. Stored = {}
    BY DEF Init, Stored, Absent
  <1>2. AdmissionTypeOK
    BY <1>1, AdmissionAssumption DEF Init, AdmissionTypeOK, Absent, Idle, Steps, State
  <1>3. HoldsItsScan /\ OneScanPerKey /\ BodyHonoured
    BY <1>1 DEF Init, HoldsItsScan, OneScanPerKey, BodyHonoured, Idle
  <1>4. QED
    BY <1>2, <1>3 DEF AdmissionInv

(***************************************************************************)
(* A step that keeps the stored scans as they are, up to their states: the *)
(* invariant needs to be checked for handlers, jobs and answers only.      *)
(***************************************************************************)
SameScans ==
  /\ scans' \in [Scans -> [state: State, key: Keys \cup {NoKey}, body: Bodies \cup {NoBody}]]
  /\ \A s \in Scans :
       /\ scans'[s].state = "absent" <=> scans[s].state = "absent"
       /\ scans'[s].key = scans[s].key /\ scans'[s].body = scans[s].body

LEMMA SameScansStored == SameScans => Stored' = Stored
  BY DEF SameScans, Stored

\* The step of one handler: h is what it becomes.
Holds(r, h) ==
  /\ h \in [pc: Steps, scan: Stored \cup {NoScan}, read: State]
  /\ h.pc \in {"enqueue", "redispatch", "reread", "rewrite"} =>
       /\ h.scan \in Stored
       /\ scans[h.scan].key = key[r] /\ scans[h.scan].body = body[r]
       /\ h.pc = "rewrite" => h.read # "absent"

LEMMA HandlerKeeps ==
  ASSUME AdmissionInv, SameScans, UNCHANGED given, NEW r \in Requests, NEW h, Holds(r, h),
         handler' = [handler EXCEPT ![r] = h],
         jobs' \subseteq Stored, faults' \in 0..MaxFaults,
         \A a \in accepted' : 
            \/ a \in accepted 
            \/ /\ a \in [key: Keys, body: Bodies, scan: Stored]
               /\ scans[a.scan].body = a.body /\ scans[a.scan].key = a.key
  PROVE  AdmissionInv'
  <1>1. Stored' = Stored
    BY SameScansStored
  <1>2. AdmissionTypeOK'
    BY <1>1 DEF AdmissionInv, AdmissionTypeOK, SameScans, Holds, given
  <1>3. HoldsItsScan'
    <2> SUFFICES ASSUME NEW q \in Requests,
                        handler'[q].pc \in {"enqueue", "redispatch", "reread", "rewrite"}
                 PROVE  /\ handler'[q].scan \in Stored
                        /\ scans'[handler'[q].scan].key = key[q]
                        /\ scans'[handler'[q].scan].body = body[q]
                        /\ handler'[q].pc = "rewrite" => handler'[q].read # "absent"
      BY <1>1 DEF HoldsItsScan, given
    <2>1. CASE q = r
      BY <2>1 DEF AdmissionInv, AdmissionTypeOK, Holds, SameScans, Stored
    <2>2. CASE q # r
      BY <2>2 DEF AdmissionInv, AdmissionTypeOK, HoldsItsScan, SameScans, Stored
    <2>3. QED
      BY <2>1, <2>2
  <1>4. OneScanPerKey'
    BY <1>1 DEF AdmissionInv, OneScanPerKey, SameScans, Stored
  <1>5. BodyHonoured'
    BY DEF AdmissionInv, AdmissionTypeOK, BodyHonoured, SameScans, Stored
  <1>6. QED
    BY <1>2, <1>3, <1>4, <1>5 DEF AdmissionInv

\* A step of no handler, that keeps the stored scans up to their states.
LEMMA OthersKeep ==
  ASSUME AdmissionInv, SameScans, UNCHANGED <<given, handler, accepted>>,
         jobs' \subseteq Stored, faults' \in 0..MaxFaults
  PROVE  AdmissionInv'
  <1>1. Stored' = Stored
    BY SameScansStored
  <1>2. AdmissionTypeOK'
    BY <1>1 DEF AdmissionInv, AdmissionTypeOK, SameScans, given
  <1>3. HoldsItsScan'
    BY <1>1 DEF AdmissionInv, AdmissionTypeOK, HoldsItsScan, SameScans, Stored, given
  <1>4. OneScanPerKey' /\ BodyHonoured'
    BY <1>1 DEF AdmissionInv, AdmissionTypeOK, OneScanPerKey, BodyHonoured, SameScans, Stored
  <1>5. QED
    BY <1>2, <1>3, <1>4 DEF AdmissionInv

\* A new scan, when there is none with its key; its handler may hold it.
LEMMA InsertKeeps ==
  ASSUME AdmissionInv, UNCHANGED <<given, accepted, jobs>>, NEW r \in Requests,
         NEW s \in Scans, Insert(r, s), Existing(r) = {},
         NEW h, handler' = [handler EXCEPT ![r] = h], faults' \in 0..MaxFaults,
         h \in [pc: Steps, scan: Stored \cup {NoScan, s}, read: State],
         \/ h.pc \notin {"enqueue", "redispatch", "reread", "rewrite"}
         \/ h.pc = "enqueue" /\ h.scan = s
  PROVE  AdmissionInv'
  <1>1. /\ s \notin Stored
        /\ scans' = [scans EXCEPT ![s] = [state |-> "queued", key |-> key[r], body |-> body[r]]]
    BY DEF Insert
  <1>2. \A t \in Scans : t # s => scans'[t] = scans[t]
    BY <1>1 DEF AdmissionInv, AdmissionTypeOK
  <1>3. scans'[s] = [state |-> "queued", key |-> key[r], body |-> body[r]]
    BY <1>1 DEF AdmissionInv, AdmissionTypeOK
  <1>4. Stored' = Stored \cup {s}
    BY <1>2, <1>3 DEF Stored
  <1>5. scans' \in [Scans -> [state: State, key: Keys \cup {NoKey}, body: Bodies \cup {NoBody}]]
    BY <1>1 DEF AdmissionInv, AdmissionTypeOK, State
  <1>6. AdmissionTypeOK'
    BY <1>4, <1>5 DEF AdmissionInv, AdmissionTypeOK, given
  <1>7. HoldsItsScan'
    <2> SUFFICES ASSUME NEW q \in Requests,
                        handler'[q].pc \in {"enqueue", "redispatch", "reread", "rewrite"}
                 PROVE  /\ handler'[q].scan \in Stored'
                        /\ scans'[handler'[q].scan].key = key[q]
                        /\ scans'[handler'[q].scan].body = body[q]
                        /\ handler'[q].pc = "rewrite" => handler'[q].read # "absent"
      BY DEF HoldsItsScan, given
    <2>1. CASE q = r
      BY <2>1, <1>3, <1>4 DEF AdmissionInv, AdmissionTypeOK
    <2>2. CASE q # r
      BY <2>2, <1>1, <1>2, <1>4 DEF AdmissionInv, AdmissionTypeOK, HoldsItsScan, Stored
    <2>3. QED
      BY <2>1, <2>2
  <1>8. OneScanPerKey'
    <2>1. \A t \in Stored : scans[t].key = key[r] => key[r] = NoKey
      BY DEF Existing
    <2>2. QED
      BY <2>1, <1>1, <1>2, <1>3, <1>4 DEF AdmissionInv, OneScanPerKey, Stored
  <1>9. BodyHonoured'
    BY <1>1, <1>2 DEF AdmissionInv, AdmissionTypeOK, BodyHonoured, Stored
  <1>10. QED
    BY <1>6, <1>7, <1>8, <1>9 DEF AdmissionInv

-------------------------------------------------------------------------------
\* The ways a handler goes on.

Untouched == SameScans /\ UNCHANGED given /\ jobs' \subseteq Stored /\ faults' \in 0..MaxFaults

LEMMA RefuseKeeps ==
  ASSUME AdmissionInv, Untouched, NEW r \in Requests, Refuse(r)
  PROVE  AdmissionInv'
  <1>1. Holds(r, Idle)
    BY DEF Holds, Idle, Steps, State
  <1>2. QED
    BY <1>1, HandlerKeeps DEF Refuse, Untouched

LEMMA AcceptKeeps ==
  ASSUME AdmissionInv, Untouched, NEW r \in Requests, NEW s \in Stored,
         scans[s].key = key[r], scans[s].body = body[r], Accept(r, s)
  PROVE  AdmissionInv'
  <1>1. Holds(r, Idle)
    BY DEF Holds, Idle, Steps, State
  <1>2. [key |-> key[r], body |-> body[r], scan |-> s] \in [key: Keys, body: Bodies, scan: Stored]
    BY DEF AdmissionInv, AdmissionTypeOK
  <1>3. \A a \in accepted' :
          \/ a \in accepted
          \/ /\ a \in [key: Keys, body: Bodies, scan: Stored]
             /\ scans[a.scan].body = a.body /\ scans[a.scan].key = a.key
    BY <1>2 DEF Accept
  <1>4. QED
    BY <1>1, <1>3, HandlerKeeps DEF Accept, Untouched

LEMMA GotoKeeps ==
  ASSUME AdmissionInv, Untouched, NEW r \in Requests, NEW pc \in Steps \ {"rewrite"},
         Goto(r, pc), UNCHANGED accepted,
         pc \in {"enqueue", "redispatch", "reread"}
           => handler[r].pc \in {"enqueue", "redispatch", "reread", "rewrite"}
  PROVE  AdmissionInv'
  <1> DEFINE h == [handler[r] EXCEPT !.pc = pc]
  <1>1. handler' = [handler EXCEPT ![r] = h]
    BY DEF Goto
  <1>2. Holds(r, h)
    BY DEF Holds, AdmissionInv, AdmissionTypeOK, HoldsItsScan
  <1>3. QED
    BY <1>1, <1>2, HandlerKeeps DEF Untouched

LEMMA AnswerKeeps ==
  ASSUME AdmissionInv, Untouched, NEW r \in Requests, NEW s \in Existing(r),
         SameRequest(r, s), Answer(r, s)
  PROVE  AdmissionInv'
  <1>1. s \in Stored /\ scans[s].key = key[r] /\ scans[s].body = body[r]
    BY DEF Existing, SameRequest
  <1>2. CASE Accept(r, s)
    BY <1>1, <1>2, AcceptKeeps
  <1>3. CASE /\ handler' = [handler EXCEPT ![r].pc = "redispatch", ![r].scan = s]
             /\ UNCHANGED accepted
    <2> DEFINE h == [handler[r] EXCEPT !.pc = "redispatch", !.scan = s]
    <2>1. handler' = [handler EXCEPT ![r] = h]
      BY <1>3 DEF AdmissionInv, AdmissionTypeOK
    <2>2. Holds(r, h)
      BY <1>1 DEF Holds, AdmissionInv, AdmissionTypeOK, Steps
    <2>3. QED
      BY <1>3, <2>1, <2>2, HandlerKeeps DEF Untouched
  <1>4. QED
    BY <1>2, <1>3 DEF Answer

\* Nothing the store or the queue sees.
LEMMA QuietUntouched ==
  ASSUME AdmissionInv, UNCHANGED <<given, scans, jobs>>, faults' = faults \/ Fault
  PROVE  Untouched
  BY AdmissionAssumption DEF AdmissionInv, AdmissionTypeOK, Untouched, SameScans, Fault

-------------------------------------------------------------------------------
\* create_scan (app/main.py) up to the store, and after a failed or refused call.
LEMMA LookupKeeps ==
  ASSUME AdmissionInv, NEW r \in Requests,
         Send(r) \/ Lookup(r) \/ Depth(r) \/ Recheck(r) \/ FindDespiteQuota(r) \/ Fails(r)
  PROVE  AdmissionInv'
  <1>1. Untouched
    BY QuietUntouched DEF Send, Lookup, Depth, Recheck, FindDespiteQuota, Fails
  <1>2. CASE Send(r)
    BY <1>1, <1>2, GotoKeeps DEF Send, Steps
  <1>3. CASE Lookup(r)
    BY <1>1, <1>3, GotoKeeps, AnswerKeeps, RefuseKeeps DEF Lookup, Steps
  <1>4. CASE Depth(r)
    BY <1>1, <1>4, GotoKeeps, RefuseKeeps DEF Depth, Steps
  <1>5. CASE Recheck(r)
    BY <1>1, <1>5, AnswerKeeps, RefuseKeeps DEF Recheck
  <1>6. CASE FindDespiteQuota(r)
    BY <1>1, <1>6, AcceptKeeps, RefuseKeeps DEF FindDespiteQuota, Existing, SameRequest
  <1>7. CASE Fails(r)
    BY <1>1, <1>7, RefuseKeeps DEF Fails
  <1>8. QED
    BY <1>2, <1>3, <1>4, <1>5, <1>6, <1>7

LEMMA CreateKeeps ==
  ASSUME AdmissionInv, NEW r \in Requests, Create(r)
  PROVE  AdmissionInv'
  <1>1. CASE UNCHANGED scans
    <2>1. Untouched
      BY <1>1, QuietUntouched DEF Create
    <2>2. \A s \in Scans : ~Insert(r, s)
      BY <1>1 DEF Insert, AdmissionInv, AdmissionTypeOK, Stored
    <2>3. QED
      BY <2>1, <2>2, AnswerKeeps, RefuseKeeps, GotoKeeps DEF Create, Steps
  <1>2. CASE ~UNCHANGED scans
    <2>1. PICK s \in Scans :
            Insert(r, s) /\ handler' = [handler EXCEPT ![r].pc = "enqueue", ![r].scan = s]
      BY <1>2 DEF Create
    <2> DEFINE h == [handler[r] EXCEPT !.pc = "enqueue", !.scan = s]
    <2>2. handler' = [handler EXCEPT ![r] = h]
      BY <2>1 DEF AdmissionInv, AdmissionTypeOK
    <2>3. h \in [pc: Steps, scan: Stored \cup {NoScan, s}, read: State]
      BY DEF AdmissionInv, AdmissionTypeOK, Steps
    <2>4. h.pc = "enqueue" /\ h.scan = s
      BY DEF AdmissionInv, AdmissionTypeOK
    <2>5. Existing(r) = {} /\ UNCHANGED <<given, accepted, jobs>> /\ faults' \in 0..MaxFaults
      BY <1>2 DEF Create, AdmissionInv, AdmissionTypeOK
    <2>6. QED
      BY <2>1, <2>2, <2>3, <2>4, <2>5, InsertKeeps
  <1>3. QED
    BY <1>1, <1>2

LEMMA CreateFailsKeeps ==
  ASSUME AdmissionInv, NEW r \in Requests, CreateFails(r)
  PROVE  AdmissionInv'
  <1>1. CASE UNCHANGED scans
    <2>1. Untouched
      BY <1>1, QuietUntouched DEF CreateFails
    <2>2. QED
      BY <2>1, RefuseKeeps, GotoKeeps DEF CreateFails, Steps
  <1>2. CASE ~UNCHANGED scans
    <2>1. PICK s \in Scans : Insert(r, s)
      BY <1>2 DEF CreateFails
    <2>2. /\ Existing(r) = {} /\ UNCHANGED <<given, accepted, jobs>>
          /\ handler[r].pc = "create" /\ faults' \in 0..MaxFaults
      BY <1>2, AdmissionAssumption
      DEF CreateFails, Refuse, Fault, AdmissionInv, AdmissionTypeOK
    <2>3. CASE Refuse(r)
      <3>1. /\ Idle \in [pc: Steps, scan: Stored \cup {NoScan, s}, read: State]
            /\ Idle.pc \notin {"enqueue", "redispatch", "reread", "rewrite"}
        BY DEF Idle, Steps, State
      <3>2. QED
        BY <2>1, <2>2, <2>3, <3>1, InsertKeeps DEF Refuse
    <2>4. CASE Goto(r, "recheck")
      <3> DEFINE h == [handler[r] EXCEPT !.pc = "recheck"]
      <3>1. /\ h \in [pc: Steps, scan: Stored \cup {NoScan, s}, read: State]
            /\ h.pc = "recheck"
        BY DEF AdmissionInv, AdmissionTypeOK, Steps
      <3>2. handler' = [handler EXCEPT ![r] = h]
        BY <2>4 DEF Goto
      <3>3. QED
        BY <2>1, <2>2, <3>1, <3>2, InsertKeeps
    <2>5. QED
      BY <2>3, <2>4 DEF CreateFails
  <1>3. QED
    BY <1>1, <1>2

-------------------------------------------------------------------------------
\* The handler after the store, and the environment.
LEMMA EnqueueKeeps ==
  ASSUME AdmissionInv, NEW r \in Requests, Enqueue(r) \/ EnqueueFails(r)
  PROVE  AdmissionInv'
  <1>1. /\ handler[r].scan \in Stored
        /\ scans[handler[r].scan].key = key[r] /\ scans[handler[r].scan].body = body[r]
    BY DEF AdmissionInv, HoldsItsScan, Enqueue, EnqueueFails
  <1>2. Untouched
    BY <1>1, AdmissionAssumption
    DEF Enqueue, EnqueueFails, Untouched, SameScans, AdmissionInv, AdmissionTypeOK, Fault
  <1>3. CASE Enqueue(r)
    BY <1>1, <1>2, <1>3, AcceptKeeps DEF Enqueue
  <1>4. CASE EnqueueFails(r)
    BY <1>2, <1>4, RefuseKeeps, GotoKeeps DEF EnqueueFails, Steps
  <1>5. QED
    BY <1>3, <1>4

LEMMA RepairKeeps ==
  ASSUME AdmissionInv, NEW r \in Requests, Reread(r) \/ Rewrite(r)
  PROVE  AdmissionInv'
  <1>1. /\ handler[r].scan \in Stored
        /\ scans[handler[r].scan].key = key[r] /\ scans[handler[r].scan].body = body[r]
        /\ handler[r].pc = "rewrite" => handler[r].read # "absent"
    BY DEF AdmissionInv, HoldsItsScan, Reread, Rewrite
  <1>2. CASE Reread(r)
    <2> DEFINE h == [handler[r] EXCEPT !.pc = "rewrite", !.read = scans[handler[r].scan].state]
    <2>1. handler' = [handler EXCEPT ![r] = h]
      BY <1>2 DEF Reread, AdmissionInv, AdmissionTypeOK
    <2>2. Holds(r, h)
      BY <1>1 DEF Holds, AdmissionInv, AdmissionTypeOK, Steps, Stored
    <2>3. Untouched
      BY <1>2, QuietUntouched DEF Reread
    <2>4. QED
      BY <1>2, <2>1, <2>2, <2>3, HandlerKeeps DEF Untouched, Reread
  <1>3. CASE Rewrite(r)
    <2> DEFINE s == handler[r].scan
    <2>1. SameScans
      <3>1. s \in Scans /\ scans[s].state # "absent"
        BY <1>1 DEF Stored
      <3>2. handler[r].read \in State \ {"absent"}
        BY <1>1, <1>3 DEF Rewrite, AdmissionInv, AdmissionTypeOK
      <3>3. CASE UNCHANGED scans
        BY <3>3 DEF SameScans, AdmissionInv, AdmissionTypeOK
      <3>4. CASE scans' = [scans EXCEPT ![s].state = handler[r].read]
        BY <3>1, <3>2, <3>4 DEF SameScans, AdmissionInv, AdmissionTypeOK
      <3>5. QED
        BY <1>3, <3>3, <3>4 DEF Rewrite
    <2>2. Untouched
      BY <1>3, <2>1 DEF Rewrite, Untouched, AdmissionInv, AdmissionTypeOK
    <2>3. QED
      BY <1>3, <2>2, RefuseKeeps DEF Rewrite
  <1>4. QED
    BY <1>2, <1>3

LEMMA ProcessKeeps ==
  ASSUME AdmissionInv, NEW s \in Scans, Process(s) \/ Lose(s)
  PROVE  AdmissionInv'
  <1>1. SameScans
    <2>1. CASE UNCHANGED scans
      BY <2>1 DEF SameScans, AdmissionInv, AdmissionTypeOK
    <2>2. ASSUME NEW state \in State \ {"absent"}, scans[s].state # "absent",
                 scans' = [scans EXCEPT ![s].state = state]
          PROVE  SameScans
      BY <2>2 DEF SameScans, AdmissionInv, AdmissionTypeOK
    <2>3. CASE Start(s) \/ Finish(s) \/ Dispatch(s)
      BY <2>2, <2>3 DEF Start, Finish, Dispatch, State
    <2>4. QED
      BY <2>1, <2>3 DEF Process, Skip, Lose
  <1>2. jobs' \subseteq Stored
    BY DEF Process, Start, Finish, Skip, Dispatch, Lose, Stored, AdmissionInv, AdmissionTypeOK
  <1>3. UNCHANGED <<given, handler, accepted>> /\ faults' \in 0..MaxFaults
    BY AdmissionAssumption
    DEF Process, Start, Finish, Skip, Dispatch, Lose, Fault, AdmissionInv, AdmissionTypeOK
  <1>4. QED
    BY <1>1, <1>2, <1>3, OthersKeep

LEMMA InvStep == AdmissionInv /\ [Next]_vars => AdmissionInv'
  <1> SUFFICES ASSUME AdmissionInv, [Next]_vars PROVE AdmissionInv'
    OBVIOUS
  <1>1. CASE UNCHANGED vars
    <2>1. Untouched
      BY <1>1, QuietUntouched DEF vars, given
    <2>2. QED
      BY <1>1, <2>1, OthersKeep DEF Untouched, vars, given
  <1>2. CASE Next
    BY <1>2, LookupKeeps, CreateKeeps, CreateFailsKeeps, EnqueueKeeps, RepairKeeps, ProcessKeeps
    DEF Next, Handle
  <1>3. QED
    BY <1>1, <1>2

LEMMA AdmissionInvariant == Spec => []AdmissionInv
  <1>1. QED
    BY InvInit, InvStep, PTL DEF Spec

\* The types of create_scan's handlers and of what they store.
THEOREM AdmissionTypes == Spec => []AdmissionTypeOK
  <1>1. AdmissionInv => AdmissionTypeOK
    BY DEF AdmissionInv
  <1>2. QED
    BY <1>1, AdmissionInvariant, PTL

\* However many clients race, repeat their requests and fail half way in create_scan,
\* there is one scan per idempotency key.
THEOREM OneScan == Spec => []OneScanPerKey
  <1>1. AdmissionInv => OneScanPerKey
    BY DEF AdmissionInv
  <1>2. QED
    BY <1>1, AdmissionInvariant, PTL

\* A client is only told of a scan that is the one it asked for.
THEOREM BodiesHonoured == Spec => []BodyHonoured
  <1>1. AdmissionInv => BodyHonoured
    BY DEF AdmissionInv
  <1>2. QED
    BY <1>1, AdmissionInvariant, PTL

-------------------------------------------------------------------------------
\* Active scans are finitely many and within the quota.
Bounded == IsFiniteSet(Active) /\ QuotaKept

LEMMA SubsetBounded ==
  ASSUME Bounded, Active' \subseteq Active
  PROVE  Bounded'
  <1>1. IsFiniteSet(Active') /\ Cardinality(Active') <= Cardinality(Active)
    BY FS_Subset DEF Bounded
  <1>2. Cardinality(Active) \in Nat /\ Cardinality(Active') \in Nat
    BY <1>1, FS_CardinalityType DEF Bounded
  <1>3. QED
    BY <1>1, <1>2, AdmissionAssumption DEF Bounded, QuotaKept

\* A step that leaves the state of every scan or ends it.
LEMMA NothingStarts ==
  ASSUME Bounded, \A s \in Scans : scans'[s].state \in {scans[s].state, "ended"}
  PROVE  Bounded'
  BY SubsetBounded DEF Active

LEMMA InsertBounded ==
  ASSUME AdmissionInv, Bounded, ~Full, NEW r \in Requests, NEW s \in Scans, Insert(r, s)
  PROVE  Bounded'
  <1>1. Active' = Active \cup {s} /\ s \notin Active
    BY DEF Active, Insert, Stored, AdmissionInv, AdmissionTypeOK
  <1>2. IsFiniteSet(Active') /\ Cardinality(Active') = Cardinality(Active) + 1
    BY <1>1, FS_AddElement DEF Bounded
  <1>3. Cardinality(Active) \in Nat /\ Cardinality(Active) < MaxActive
    BY FS_CardinalityType, AdmissionAssumption DEF Bounded, Full
  <1>4. QED
    BY <1>2, <1>3, AdmissionAssumption DEF Bounded, QuotaKept

\* A worker starts an active scan, the dispatch loop queues one again.
LEMMA StaysActive ==
  ASSUME AdmissionInv, Bounded, NEW s \in Active, NEW state,
         scans' = [scans EXCEPT ![s].state = state]
  PROVE  Bounded'
  <1>1. \A t \in Scans : t # s => scans'[t].state = scans[t].state
    BY DEF AdmissionInv, AdmissionTypeOK
  <1>2. Active' \subseteq Active
    BY <1>1 DEF Active
  <1>3. QED
    BY <1>2, SubsetBounded

LEMMA BoundedStep == ~RewriteRaces /\ AdmissionInv /\ Bounded /\ [Next]_vars => Bounded'
  <1> SUFFICES ASSUME ~RewriteRaces, AdmissionInv, Bounded, [Next]_vars PROVE Bounded'
    OBVIOUS
  <1>1. CASE UNCHANGED scans
    BY <1>1, NothingStarts
  <1>2. ASSUME NEW r \in Requests, Create(r) \/ CreateFails(r)
        PROVE  Bounded'
    BY <1>1, <1>2, InsertBounded DEF Create, CreateFails
  <1>3. ASSUME NEW r \in Requests, Rewrite(r)
        PROVE  Bounded'
    <2> DEFINE s == handler[r].scan
    <2>1. s \in Scans
      BY <1>3 DEF Rewrite, AdmissionInv, HoldsItsScan, Stored
    <2>2. \A t \in Scans : scans'[t].state = scans[t].state
      BY <1>3, <2>1 DEF Rewrite, AdmissionInv, AdmissionTypeOK
    <2>3. QED
      BY <2>2, NothingStarts
  <1>4. ASSUME NEW r \in Requests, Handle(r) \/ Send(r) \/ EnqueueFails(r) \/ Fails(r)
        PROVE  Bounded'
    BY <1>1, <1>2, <1>3, <1>4 DEF Handle, Send, Lookup, Depth, Recheck, FindDespiteQuota,
       Enqueue, EnqueueFails, Reread, Fails
  <1>5. ASSUME NEW s \in Scans, Process(s) \/ Lose(s)
        PROVE  Bounded'
    <2>1. CASE Start(s) \/ Finish(s) \/ Dispatch(s)
      <3>1. s \in Active
        BY <2>1 DEF Start, Finish, Dispatch, Active
      <3>2. QED
        BY <2>1, <3>1, StaysActive DEF Start, Finish, Dispatch
    <2>2. CASE Skip(s) \/ Lose(s)
      BY <1>1, <2>2 DEF Skip, Lose
    <2>3. QED
      BY <1>5, <2>1, <2>2 DEF Process
  <1>6. QED
    BY <1>1, <1>2, <1>4, <1>5 DEF Next, vars

(***************************************************************************)
(* The scans of a principal stay within MAX_OUTSTANDING_SCANS_PER_PRINCIPAL *)
(* for any number of requests that pass create_scan at once, as long as    *)
(* the repair after a failed enqueue does not bring an ended scan back.    *)
(***************************************************************************)
THEOREM QuotaHolds ==
  ASSUME ~RewriteRaces
  PROVE  Spec => []QuotaKept
  <1>1. Init => Bounded
    <2> SUFFICES ASSUME Init PROVE Bounded
      OBVIOUS
    <2>1. Active = {}
      BY DEF Init, Active, Absent
    <2>2. QED
      BY <2>1, FS_EmptySet, AdmissionAssumption DEF Bounded, QuotaKept
  <1>2. AdmissionInv /\ Bounded /\ [Next]_vars => Bounded'
    BY BoundedStep
  <1>3. Bounded => QuotaKept
    BY DEF Bounded
  <1>4. QED
    BY <1>1, <1>2, <1>3, InvInit, InvStep, PTL DEF Spec
================================================================================
