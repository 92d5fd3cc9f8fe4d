-------------------------------- MODULE Admission --------------------------------
(***************************************************************************)
(* How requests become scans: the handler create_scan of app/main.py, run  *)
(* for several requests of one principal about one case at once, with      *)
(* create_scan of InMemoryStore or Neo4jStore under it.  Clients send a    *)
(* request again when they like, also after an answer was lost.            *)
(*                                                                         *)
(* What happens to a scan afterwards is kept to the least: workers start   *)
(* and finish it, jobs get lost, the dispatch loop enqueues it again.      *)
(* ScanLifecycle has the details.                                          *)
(***************************************************************************)
EXTENDS Naturals, FiniteSets

CONSTANTS
  Requests,      \* clients, each with one request that it may repeat
  Scans,         \* bound: scan ids
  Keys,          \* idempotency keys that clients use; NoKey may be one
  Bodies,        \* what requests ask for, as far as _same_scan_request tells
  NoKey, NoScan, NoBody,
  MaxActive,     \* MAX_OUTSTANDING_SCANS_PER_PRINCIPAL
  MaxDepth,      \* MAX_QUEUE_DEPTH
  Stores,        \* the store to check: TRUE for Neo4jStore, FALSE for InMemoryStore
  RewriteRaces,  \* the write after a failed enqueue may undo a concurrent one
  MaxFaults      \* bound: calls that fail, handlers that die, jobs that get lost

ASSUME AdmissionAssumption ==
  /\ NoScan \notin Scans
  /\ MaxActive \in Nat \ {0} /\ MaxDepth \in Nat \ {0} /\ MaxFaults \in Nat
  /\ Stores \subseteq BOOLEAN /\ RewriteRaces \in BOOLEAN

VARIABLES
  neo4j,      \* which store it is
  key, body,  \* what each client asks for, under which key
  handler,    \* the handler at work on the client's request
  scans,      \* the store
  jobs,       \* the scans that have a job in the queue
  accepted,   \* the answers that named a scan (history)
  faults

given == <<neo4j, key, body>>
vars == <<given, handler, scans, jobs, accepted, faults>>

Steps == {"idle", "lookup", "depth", "create", "recheck", "full", "enqueue",
          "redispatch", "reread", "rewrite"}
State == {"absent", "queued", "running", "ended"}
Idle == [pc |-> "idle", scan |-> NoScan, read |-> "absent"]
Absent == [state |-> "absent", key |-> NoKey, body |-> NoBody]

Stored == {s \in Scans : scans[s].state # "absent"}

\* Mutant: a scan that ended still counts.
ActiveStored == Stored

\* Mutant: a scan no worker has started does not count.
ActiveRunning == {s \in Scans : scans[s].state = "running"}

\* What the quota counts.
Active == {s \in Scans : scans[s].state \in {"queued", "running"}}

\* get_scan_by_idempotency
Existing(r) == {s \in Stored : key[r] # NoKey /\ scans[s].key = key[r]}

\* Mutant: a request is the same if its key is.
SameKey(r, s) == scans[s].key = key[r]

SameRequest(r, s) == scans[s].body = body[r]

-------------------------------------------------------------------------------
Goto(r, pc) == handler' = [handler EXCEPT ![r].pc = pc]

\* An answer that names no scan, or no answer at all.
Refuse(r) ==
  /\ handler' = [handler EXCEPT ![r] = Idle]
  /\ UNCHANGED accepted

Accept(r, s) ==
  /\ handler' = [handler EXCEPT ![r] = Idle]
  /\ accepted' = accepted \cup {[key |-> key[r], body |-> body[r], scan |-> s]}

\* An existing scan is the answer; if it is queued, its job is enqueued again first.
Answer(r, s) ==
  \/ /\ scans[s].state = "queued"
     /\ handler' = [handler EXCEPT ![r].pc = "redispatch", ![r].scan = s]
     /\ UNCHANGED accepted
  \/ scans[s].state # "queued" /\ Accept(r, s)

Fault == faults < MaxFaults /\ faults' = faults + 1

Send(r) ==
  /\ handler[r].pc = "idle"
  /\ Goto(r, IF key[r] = NoKey THEN "depth" ELSE "lookup")
  /\ UNCHANGED <<given, scans, jobs, accepted, faults>>

Lookup(r) ==
  /\ handler[r].pc = "lookup"
  /\ \/ \E s \in Existing(r) : SameRequest(r, s) /\ Answer(r, s)
     \/ (\E s \in Existing(r) : ~SameRequest(r, s)) /\ Refuse(r)
     \/ Existing(r) = {} /\ Goto(r, "depth") /\ UNCHANGED accepted
  /\ UNCHANGED <<given, scans, jobs, faults>>

Depth(r) ==
  /\ handler[r].pc = "depth"
  /\ \/ Cardinality(jobs) < MaxDepth /\ Goto(r, "create") /\ UNCHANGED accepted
     \/ Cardinality(jobs) >= MaxDepth /\ Refuse(r)
  /\ UNCHANGED <<given, scans, jobs, faults>>

-------------------------------------------------------------------------------
(* create_scan of the store, and what the handler makes of its answer.     *)
Full == Cardinality(Active) >= MaxActive

Insert(r, s) ==
  /\ s \in Scans \ Stored
  /\ scans' = [scans EXCEPT ![s] =
       [state |-> "queued", key |-> key[r], body |-> body[r]]]

\* Mutant: the store relies on the handler's lookup.
CreateUnchecked(r) ==
  /\ handler[r].pc = "create"
  /\ \/ /\ Full /\ UNCHANGED <<scans, accepted>>
        /\ IF key[r] = NoKey THEN Refuse(r) ELSE Goto(r, "full")
     \/ /\ ~Full /\ UNCHANGED accepted
        /\ \E s \in Scans :
             /\ Insert(r, s)
             /\ handler' = [handler EXCEPT ![r].pc = "enqueue", ![r].scan = s]
  /\ UNCHANGED <<given, jobs, faults>>

\* InMemoryStore looks for the key first and then at the quota; Neo4jStore
\* counts first, and its constraint makes the query raise.
Create(r) ==
  /\ handler[r].pc = "create"
  /\ \/ /\ ~neo4j /\ UNCHANGED scans
        /\ \/ \E s \in Existing(r) : SameRequest(r, s) /\ Answer(r, s)
           \/ (\E s \in Existing(r) : ~SameRequest(r, s)) /\ Refuse(r)
     \/ /\ Full /\ (neo4j \/ Existing(r) = {})
        /\ \/ key[r] = NoKey /\ Refuse(r)
           \/ key[r] # NoKey /\ Goto(r, "full") /\ UNCHANGED accepted
        /\ UNCHANGED scans
     \/ /\ neo4j /\ ~Full /\ Existing(r) # {}
        /\ Goto(r, "recheck")
        /\ UNCHANGED <<scans, accepted>>
     \/ /\ ~Full /\ Existing(r) = {}
        /\ \E s \in Scans :
             /\ Insert(r, s)
             /\ handler' = [handler EXCEPT ![r].pc = "enqueue", ![r].scan = s]
        /\ UNCHANGED accepted
  /\ UNCHANGED <<given, jobs, faults>>

\* The call raises; the query of Neo4jStore may have been committed all the same.
CreateFails(r) ==
  /\ handler[r].pc = "create" /\ Fault
  /\ \/ UNCHANGED scans
     \/ neo4j /\ ~Full /\ Existing(r) = {} /\ \E s \in Scans : Insert(r, s)
  /\ \/ key[r] = NoKey /\ Refuse(r)
     \/ key[r] # NoKey /\ Goto(r, "recheck") /\ UNCHANGED accepted
  /\ UNCHANGED <<given, jobs>>

\* Mutant: nothing found, so the handler's own record must be stored.
RecheckTrusting(r) ==
  /\ handler[r].pc = "recheck"
  /\ \/ \E s \in Existing(r) : SameRequest(r, s) /\ Answer(r, s)
     \/ /\ Existing(r) = {} /\ UNCHANGED accepted
        /\ \E s \in Scans \ Stored :
             handler' = [handler EXCEPT ![r].pc = "enqueue", ![r].scan = s]
  /\ UNCHANGED <<given, scans, jobs, faults>>

\* The call raised: is there a scan for the key now?
Recheck(r) ==
  /\ handler[r].pc = "recheck"
  /\ \/ \E s \in Existing(r) : SameRequest(r, s) /\ Answer(r, s)
     \/ (\A s \in Existing(r) : ~SameRequest(r, s)) /\ Refuse(r)
  /\ UNCHANGED <<given, scans, jobs, faults>>

\* The quota is used up, perhaps by the scan of this very key.
FindDespiteQuota(r) ==
  /\ handler[r].pc = "full"
  /\ \/ \E s \in Existing(r) : SameRequest(r, s) /\ Accept(r, s)
     \/ (\A s \in Existing(r) : ~SameRequest(r, s)) /\ Refuse(r)
  /\ UNCHANGED <<given, scans, jobs, faults>>

-------------------------------------------------------------------------------
Enqueue(r) ==
  /\ handler[r].pc \in {"enqueue", "redispatch"}
  /\ jobs' = jobs \cup {handler[r].scan}
  /\ Accept(r, handler[r].scan)
  /\ UNCHANGED <<given, scans, faults>>

\* An error of the queue says nothing about the job.
EnqueueFails(r) ==
  /\ handler[r].pc \in {"enqueue", "redispatch"} /\ Fault
  /\ jobs' \in {jobs, jobs \cup {handler[r].scan}}
  /\ \/ handler[r].pc = "enqueue" /\ Goto(r, "reread") /\ UNCHANGED accepted
     \/ handler[r].pc = "redispatch" /\ Refuse(r)
  /\ UNCHANGED <<given, scans>>

Reread(r) ==
  /\ handler[r].pc = "reread"
  /\ handler' = [handler EXCEPT ![r].pc = "rewrite",
                                ![r].read = scans[handler[r].scan].state]
  /\ UNCHANGED <<given, scans, jobs, accepted, faults>>

\* update_scan puts back the whole record that was read.  Without RewriteRaces
\* the write is taken to be void if the scan moved on.
Rewrite(r) ==
  LET s == handler[r].scan
  IN  /\ handler[r].pc = "rewrite"
      /\ \/ /\ RewriteRaces \/ scans[s].state = handler[r].read
            /\ scans' = [scans EXCEPT ![s].state = handler[r].read]
         \/ /\ ~RewriteRaces /\ scans[s].state # handler[r].read
            /\ UNCHANGED scans
      /\ Refuse(r)
      /\ UNCHANGED <<given, jobs, faults>>

\* A read raises, or the process ends.
Fails(r) ==
  /\ handler[r].pc # "idle" /\ Fault
  /\ Refuse(r)
  /\ UNCHANGED <<given, scans, jobs>>

-------------------------------------------------------------------------------
(* Workers, the queue and the dispatch loop.                               *)
Start(s) ==
  /\ s \in jobs /\ scans[s].state = "queued"
  /\ scans' = [scans EXCEPT ![s].state = "running"]
  /\ UNCHANGED <<given, handler, jobs, accepted, faults>>

Finish(s) ==
  /\ s \in jobs /\ scans[s].state = "running"
  /\ scans' = [scans EXCEPT ![s].state = "ended"]
  /\ jobs' = jobs \ {s}
  /\ UNCHANGED <<given, handler, accepted, faults>>

\* A worker that finds the scan ended has nothing to do.
Skip(s) ==
  /\ s \in jobs /\ scans[s].state = "ended"
  /\ jobs' = jobs \ {s}
  /\ UNCHANGED <<given, handler, scans, accepted, faults>>

Lose(s) ==
  /\ s \in jobs /\ Fault
  /\ jobs' = jobs \ {s}
  /\ UNCHANGED <<given, handler, scans, accepted>>

\* The dispatch loop: a queued scan, or a running one whose lease expired.
Dispatch(s) ==
  /\ s \notin jobs /\ scans[s].state \in {"queued", "running"}
  /\ scans' = [scans EXCEPT ![s].state = "queued"]
  /\ jobs' = jobs \cup {s}
  /\ UNCHANGED <<given, handler, accepted, faults>>

-------------------------------------------------------------------------------
Handle(r) ==
  \/ Lookup(r) \/ Depth(r) \/ Create(r) \/ Recheck(r) \/ FindDespiteQuota(r)
  \/ Enqueue(r) \/ Reread(r) \/ Rewrite(r)

Process(s) == Start(s) \/ Finish(s) \/ Skip(s) \/ Dispatch(s)

Next ==
  \/ \E r \in Requests :
       Send(r) \/ Handle(r) \/ CreateFails(r) \/ EnqueueFails(r) \/ Fails(r)
  \/ \E s \in Scans : Process(s) \/ Lose(s)

Init ==
  /\ neo4j \in Stores
  /\ key \in [Requests -> Keys] /\ body \in [Requests -> Bodies]
  /\ handler = [r \in Requests |-> Idle]
  /\ scans = [s \in Scans |-> Absent]
  /\ jobs = {} /\ accepted = {} /\ faults = 0

Spec == Init /\ [][Next]_vars

\* Handlers, workers and the dispatch loop run, and clients ask until they know.
Fairness ==
  /\ \A r \in Requests : WF_vars(Send(r)) /\ WF_vars(Handle(r))
  /\ \A s \in Scans : WF_vars(Process(s))

PatientSpec == Spec /\ Fairness
-------------------------------------------------------------------------------
(* Properties *)

AdmissionTypeOK ==
  /\ key \in [Requests -> Keys] /\ body \in [Requests -> Bodies]
  /\ scans \in [Scans -> [state: State, key: Keys \cup {NoKey}, body: Bodies \cup {NoBody}]]
  /\ handler \in [Requests -> [pc: Steps, scan: Stored \cup {NoScan}, read: State]]
  /\ jobs \subseteq Stored
  /\ accepted \subseteq [key: Keys, body: Bodies, scan: Stored]
  /\ faults \in 0..MaxFaults /\ neo4j \in Stores

\* However requests with one key race, are repeated and fail half way, they make
\* one scan: tests/test_api.py test_scan_creation_is_idempotent_for_retried_requests.
OneScanPerKey ==
  \A s, t \in Stored : scans[s].key = scans[t].key /\ scans[s].key # NoKey => s = t

\* A client is only told of a scan that does what it asked for, under its key:
\* test_idempotency_key_cannot_be_reused_for_a_different_scan.
BodyHonoured ==
  \A a \in accepted : scans[a.scan].body = a.body /\ scans[a.scan].key = a.key

\* The scans of a principal that are not over stay within the quota, whatever
\* runs at the same time: test_outstanding_scan_and_queue_depth_quotas_are_enforced.
QuotaKept == Cardinality(Active) <= MaxActive

\* A client that asks with a key until it is answered gets its scan, through
\* failures, a full queue and a used up quota, unless its key went to another
\* body, or others ask without a key for more and more scans.
Served ==
  \A r \in Requests :
    []((\A q \in Requests : key[q] # NoKey /\ (key[q] = key[r] => body[q] = body[r]))
         => <>(\E a \in accepted : a.key = key[r]))
================================================================================
