------------------------------ MODULE EvidenceGraph ------------------------------
(***************************************************************************)
(* The evidence of a scan: the records build_finding_records derives from  *)
(* a finding (app/engine/correlation.py), their fenced storage, their      *)
(* reading in pages and their deletion (app/storage/memory.py and          *)
(* neo4j.py, _retention_loop in app/main.py), and the page that shows them *)
(* (frontend/src/pages/ScanDetailPage.jsx).                                *)
(*                                                                         *)
(* The scan record itself evolves as ScanStore promises: evidence is       *)
(* written and read beside its steps.  A record id is a hash; here it is   *)
(* the number of its place in the order of the hashes, by which pages are  *)
(* cut.                                                                    *)
(***************************************************************************)
EXTENDS ScanStore, FiniteSets

CONSTANTS
  Findings,      \* what adapters may find for the one target of the scan
  Source,        \* id of the target's node
  NodeOf,        \* ids of the records of each finding
  EdgeOf,
  ProvenanceOf,
  PageLimit,     \* the limit of a page request
  Requests       \* bound: evidence requests of the page in flight

\* _record_id hashes the owner, the case, the scan and the type and value of an
\* entity; an edge its two nodes; a provenance record its node and its adapter.
ASSUME EvidenceAssumption ==
  /\ Source \in Nat /\ PageLimit \in Nat \ {0}
  /\ NodeOf \in [Findings -> Nat]
  /\ EdgeOf \in [Findings -> Nat]
  /\ ProvenanceOf \in [Findings -> Nat]
  /\ \A f, g \in Findings :
       /\ EdgeOf[f] = EdgeOf[g] => NodeOf[f] = NodeOf[g]
       /\ ProvenanceOf[f] = ProvenanceOf[g] => NodeOf[f] = NodeOf[g]

VARIABLES
  backend,   \* the store in use: "memory" or "neo4j"
  deleted,   \* retention has deleted the scan
  graph,     \* the stored ids of each kind of record
  settled,   \* the page shows a final state of the scan
  view,      \* the evidence on the page
  requests   \* its evidence requests under way

storedVars == <<svars, backend, deleted, graph>>
pageVars == <<settled, view, requests>>
vars == <<storedVars, pageVars>>

Kinds == {"node", "edge", "provenance"}

-------------------------------------------------------------------------------
(* Storing.                                                                *)
\* Mutant: the node of the target is left to be there already.
RecordsOfFinding(f) ==
  [node |-> {NodeOf[f]}, edge |-> {EdgeOf[f]}, provenance |-> {ProvenanceOf[f]}]

\* One set if the finding is the target itself.
Records(f) ==
  [node |-> {Source, NodeOf[f]}, edge |-> {EdgeOf[f]}, provenance |-> {ProvenanceOf[f]}]

Ids == [node |-> {Source} \cup {NodeOf[f] : f \in Findings},
        edge |-> {EdgeOf[f] : f \in Findings},
        provenance |-> {ProvenanceOf[f] : f \in Findings}]

\* Records are upserted by id: what another attempt stored stays one record.
Upserted(f) == [k \in Kinds |-> graph[k] \cup Records(f)[k]]

\* A worker's write; without the lease it raises and nothing is stored.
AddGraphRecords(attempt, f) ==
  /\ ~deleted /\ HoldsLease(record, attempt)
  /\ graph' = Upserted(f)
  /\ UNCHANGED <<svars, backend, deleted, pageVars>>

\* Mutant: one kind of artifact is forgotten.
PurgeWithoutProvenance ==
  /\ ~deleted /\ deleted' = TRUE
  /\ graph' = [graph EXCEPT !["node"] = {}, !["edge"] = {}]
  /\ UNCHANGED <<svars, backend, pageVars>>

\* The scan is older than DATA_RETENTION_DAYS, whatever its state.
PurgeExpired ==
  /\ ~deleted /\ deleted' = TRUE
  /\ graph' = [k \in Kinds |-> {}]
  /\ UNCHANGED <<svars, backend, pageVars>>

\* Every other operation on the scan but the create handler's rewrite of a whole
\* record, which can undo the end of a scan; a deleted one is not found.
ScanStep ==
  /\ ~deleted
  /\ \/ ClaimScan \/ TouchScanLease \/ RecoverStaleScan \/ FinishScan
     \/ MarkScanDispatched \/ RequestCancellation \/ AcknowledgeCancellation
     \/ record.state = "running" /\ Expire
  /\ UNCHANGED <<backend, deleted, graph, pageVars>>

-------------------------------------------------------------------------------
(* Reading a page.                                                         *)
Start == [k \in Kinds |-> 0]
NoRows == [k \in Kinds |-> {}]
NoView == [loaded |-> FALSE, rows |-> NoRows, next |-> Start, more |-> FALSE,
           loading |-> TRUE, error |-> FALSE, crashed |-> FALSE, fresh |-> FALSE,
           owed |-> NoRows]
Idle == [pc |-> "idle", kind |-> "refresh", from |-> Start, rows |-> NoRows,
         next |-> Start, more |-> FALSE, latest |-> FALSE, fresh |-> FALSE, owed |-> NoRows]

\* SKIP and LIMIT of the records ordered by id.
Slice(ids, offset) ==
  {i \in ids : LET place == Cardinality({j \in ids : j < i})
               IN  offset <= place /\ place < offset + PageLimit}

\* Mutant: the next offset counts the record that was fetched to see if there is more.
WithRowsAsFetched(q, k) ==
  LET fetched == Slice(graph[k], q.from[k]) \cup Slice(graph[k], q.from[k] + 1)
      next == q.from[k] + Cardinality(fetched)
  IN  [q EXCEPT !.rows[k] = Slice(graph[k], q.from[k]), !.next[k] = next,
                !.more = q.more \/ next < Cardinality(graph[k])]

\* Mutant: only the edges decide whether there is another page.
WithRowsOfEdges(q, k) ==
  LET rows == Slice(graph[k], q.from[k])
      next == q.from[k] + Cardinality(rows)
  IN  [q EXCEPT !.rows[k] = rows, !.next[k] = next,
                !.more = q.more \/ (k = "edge" /\ next < Cardinality(graph[k]))]

WithRows(q, k) ==
  LET rows == Slice(graph[k], q.from[k])
      next == q.from[k] + Cardinality(rows)
  IN  [q EXCEPT !.rows[k] = rows, !.next[k] = next,
                !.more = q.more \/ next < Cardinality(graph[k])]

\* InMemoryStore cuts the page in one step.
ReadPage(r) ==
  /\ backend = "memory" /\ requests[r].pc = "sent" /\ ~deleted
  /\ requests' = [requests EXCEPT ![r] =
       [WithRows(WithRows(WithRows(@, "node"), "edge"), "provenance")
          EXCEPT !.pc = "answered"]]
  /\ UNCHANGED <<storedVars, settled, view>>

\* Neo4jStore looks for the scan, then runs three queries, each of what is
\* stored by then.
FindScan(r) ==
  /\ backend = "neo4j" /\ requests[r].pc = "sent" /\ ~deleted
  /\ requests' = [requests EXCEPT ![r].pc = "node"]
  /\ UNCHANGED <<storedVars, settled, view>>

After == [node |-> "edge", edge |-> "provenance", provenance |-> "answered"]

ReadRows(r) ==
  \E k \in Kinds :
    /\ requests[r].pc = k
    /\ requests' = [requests EXCEPT ![r] = [WithRows(@, k) EXCEPT !.pc = After[k]]]
    /\ UNCHANGED <<storedVars, settled, view>>

\* No such scan any more, the store unavailable, or the network.
RequestFails(r) ==
  /\ requests[r].pc \in {"sent", "answered"} \cup Kinds
  /\ requests' = [requests EXCEPT ![r] = [Idle EXCEPT !.pc = "failed",
       !.kind = requests[r].kind, !.latest = requests[r].latest]]
  /\ UNCHANGED <<storedVars, settled, view>>

-------------------------------------------------------------------------------
(* The page.                                                               *)
\* Each request is the latest until the next one; the answer to a refresh that is not
\* owes nothing.
Send(q) ==
  \E r \in Requests :
    /\ requests[r] = Idle
    /\ requests' = [p \in Requests |->
         IF p = r THEN q
         ELSE [requests[p] EXCEPT !.latest = FALSE,
                 !.owed = IF requests[p].kind = "refresh" THEN NoRows ELSE @]]

\* On every event and every five seconds until the page shows the end, and with
\* the button, which is disabled while something loads.  fresh and owed are history:
\* whether the evidence was final when the request was sent, and what was stored.
RefreshGraph ==
  /\ ~view.crashed /\ (settled => ~view.loading)
  /\ Send([Idle EXCEPT !.pc = "sent", !.latest = TRUE,
                       !.fresh = Terminal(record), !.owed = graph])
  /\ view' = [view EXCEPT !.loading = TRUE]
  /\ UNCHANGED <<storedVars, settled>>

LoadMoreGraph ==
  /\ view.loaded /\ view.more /\ ~view.error /\ ~view.loading /\ ~view.crashed
  /\ Send([Idle EXCEPT !.pc = "sent", !.kind = "more", !.from = view.next,
                       !.fresh = view.fresh, !.owed = view.owed])
  /\ view' = [view EXCEPT !.loading = TRUE]
  /\ UNCHANGED <<storedVars, settled>>

\* The scan on the page: its refresh is ScanProgress's.
ShowEnd ==
  /\ ~settled /\ Terminal(record) /\ settled' = TRUE
  /\ UNCHANGED <<storedVars, view, requests>>

\* Mutant: a page that answers an earlier request is shown as well.
ApplyEveryRefresh(r) ==
  /\ requests[r].pc = "answered" /\ requests[r].kind = "refresh"
  /\ requests' = [requests EXCEPT ![r] = Idle]
  /\ view' = [NoView EXCEPT !.loaded = TRUE, !.loading = FALSE,
                !.rows = requests[r].rows, !.next = requests[r].next,
                !.more = requests[r].more, !.fresh = requests[r].fresh,
                !.owed = requests[r].owed]
  /\ UNCHANGED <<storedVars, settled>>

\* A page that is still to be merged was cut for the view this one replaces, so
\* with it the view is no longer fresh and owes nothing.
ApplyRefresh(r) ==
  /\ requests[r].pc = "answered" /\ requests[r].kind = "refresh"
  /\ \/ /\ requests[r].latest
        /\ view' = [view EXCEPT !.loaded = TRUE, !.loading = FALSE, !.error = FALSE,
                      !.rows = requests[r].rows, !.next = requests[r].next,
                      !.more = requests[r].more, !.fresh = requests[r].fresh,
                      !.owed = requests[r].owed]
        /\ requests' = [p \in Requests |->
             IF p = r THEN Idle
             ELSE IF requests[p].kind = "refresh" THEN requests[p]
             ELSE [requests[p] EXCEPT !.fresh = FALSE, !.owed = NoRows]]
     \/ /\ ~requests[r].latest /\ UNCHANGED view
        /\ requests' = [requests EXCEPT ![r] = Idle]
  /\ UNCHANGED <<storedVars, settled>>

\* The page is merged into whatever is shown by then; with nothing shown the
\* update throws, no error boundary catches it, and nobody waits for the other
\* requests any more.
ApplyMore(r) ==
  /\ requests[r].pc = "answered" /\ requests[r].kind = "more"
  /\ \/ /\ view.loaded
        /\ requests' = [requests EXCEPT ![r] = Idle]
        /\ view' = [view EXCEPT !.loading = FALSE, !.error = FALSE,
                      !.rows = [k \in Kinds |-> @[k] \cup requests[r].rows[k]],
                      !.next = requests[r].next, !.more = requests[r].more,
                      !.fresh = @ /\ requests[r].fresh,
                      !.owed = [k \in Kinds |-> @[k] \cap requests[r].owed[k]]]
     \/ /\ ~view.loaded
        /\ requests' = [p \in Requests |-> Idle]
        /\ view' = [NoView EXCEPT !.crashed = TRUE]
  /\ UNCHANGED <<storedVars, settled>>

\* A failed refresh takes the evidence off the page; a failed load leaves it.
ApplyFailure(r) ==
  /\ requests[r].pc = "failed"
  /\ requests' = [requests EXCEPT ![r] = Idle]
  /\ \/ /\ requests[r].kind = "refresh" /\ requests[r].latest
        /\ view' = [NoView EXCEPT !.loading = FALSE, !.error = TRUE]
     \/ /\ requests[r].kind = "more"
        /\ view' = [view EXCEPT !.loading = FALSE, !.error = TRUE]
     \/ /\ requests[r].kind = "refresh" /\ ~requests[r].latest
        /\ UNCHANGED view
  /\ UNCHANGED <<storedVars, settled>>

-------------------------------------------------------------------------------
Next ==
  \/ ScanStep \/ PurgeExpired
  \/ \E a \in Attempts, f \in Findings : AddGraphRecords(a, f)
  \/ \E r \in Requests : ReadPage(r) \/ FindScan(r) \/ ReadRows(r) \/ RequestFails(r)
  \/ RefreshGraph \/ LoadMoreGraph \/ ShowEnd
  \/ \E r \in Requests : ApplyRefresh(r) \/ ApplyMore(r) \/ ApplyFailure(r)

\* The page opens with its first refresh under way.
Init ==
  /\ StoreInit
  /\ backend \in {"memory", "neo4j"} /\ deleted = FALSE
  /\ graph = NoRows
  /\ settled = FALSE /\ view = NoView
  /\ \E r \in Requests :
       requests = [p \in Requests |->
         IF p = r THEN [Idle EXCEPT !.pc = "sent", !.latest = TRUE] ELSE Idle]

Spec == Init /\ [][Next]_vars
-------------------------------------------------------------------------------
(* Properties *)

\* Stored evidence stands on stored nodes: both ends of every edge and what every
\* provenance record is about, whichever attempts stored them.
Anchored ==
  \A f \in Findings :
    /\ EdgeOf[f] \in graph["edge"] => {Source, NodeOf[f]} \subseteq graph["node"]
    /\ ProvenanceOf[f] \in graph["provenance"] => NodeOf[f] \in graph["node"]

\* A deleted scan leaves no evidence, and no worker that still runs it brings any
\* back: tests/test_platform_storage.py
\* test_retention_purge_removes_expired_scan_artifacts_but_keeps_case.
NothingOfDeleted == deleted => \A k \in Kinds : graph[k] = {}

\* Pages cut by offsets into three lists neither skip nor repeat a record once
\* the evidence is final: a view refreshed since then that offers no further
\* page shows all of it.
FreshViewComplete ==
  view.loaded /\ view.fresh /\ ~view.more /\ ~deleted => view.rows = graph

\* Pages pass over nothing although workers store evidence between them, and in Neo4j
\* between the queries of one page, so that records move past an offset: a view that
\* offers no further page shows what was stored when its first page was asked for,
\* unless a page that was cut for another view was merged into it.
NothingPassedOver ==
  view.loaded /\ ~view.more /\ ~deleted =>
    \A k \in Kinds : view.owed[k] \subseteq view.rows[k]

\* A view of final evidence is not replaced by the answer to a refresh that was sent
\* before: only a page that was loaded for another view can spoil it.
FreshViewStays ==
  [][view.fresh /\ view'.loaded =>
       \/ view'.fresh
       \/ \E r \in Requests : /\ requests[r].pc = "answered" /\ requests[r].kind = "more"
                              /\ requests'[r] = Idle]_vars
================================================================================
