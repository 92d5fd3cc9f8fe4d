--------------------------- MODULE EvidenceGraphProofs ---------------------------
(***************************************************************************)
(* What a scan's stored evidence keeps, and what the page makes of it, for *)
(* any findings, attempts and requests.                                    *)
(***************************************************************************)
EXTENDS EvidenceGraph, FiniteSetTheorems, TLAPS

\* The stored evidence is typed, stands on its nodes and goes with its scan.
EvidenceInv ==
  /\ graph \in [Kinds -> SUBSET Nat]
  /\ Anchored
  /\ NothingOfDeleted

-------------------------------------------------------------------------------
(* The records of a finding.                                               *)
LEMMA RecordsTyped ==
  ASSUME NEW f \in Findings, NEW k \in Kinds
  PROVE  Records(f)[k] \in SUBSET Nat
  BY EvidenceAssumption DEF Records, Kinds

LEMMA UpsertedRows ==
  ASSUME NEW f \in Findings
  PROVE  /\ Upserted(f)["node"] = graph["node"] \cup {Source, NodeOf[f]}
         /\ Upserted(f)["edge"] = graph["edge"] \cup {EdgeOf[f]}
         /\ Upserted(f)["provenance"] = graph["provenance"] \cup {ProvenanceOf[f]}
  BY DEF Upserted, Records, Kinds

\* What one finding brings stands on the nodes it brings along: a record it shares
\* with another finding has the node of that one.
LEMMA UpsertAnchors ==
  ASSUME NEW f \in Findings, Anchored, graph' = Upserted(f)
  PROVE  Anchored'
<1> SUFFICES ASSUME NEW g \in Findings
             PROVE  /\ EdgeOf[g] \in graph'["edge"] => {Source, NodeOf[g]} \subseteq graph'["node"]
                    /\ ProvenanceOf[g] \in graph'["provenance"] => NodeOf[g] \in graph'["node"]
  BY DEF Anchored
<1>1. /\ EdgeOf[g] \in graph["edge"] => {Source, NodeOf[g]} \subseteq graph["node"]
      /\ ProvenanceOf[g] \in graph["provenance"] => NodeOf[g] \in graph["node"]
  BY DEF Anchored
<1>2. /\ EdgeOf[g] = EdgeOf[f] => NodeOf[g] = NodeOf[f]
      /\ ProvenanceOf[g] = ProvenanceOf[f] => NodeOf[g] = NodeOf[f]
  BY EvidenceAssumption
<1>3. QED
  BY <1>1, <1>2, UpsertedRows

-------------------------------------------------------------------------------
(* The steps.  Only a worker's write and the retention touch what is       *)
(* stored.                                                                 *)
LEMMA OtherSteps ==
  ASSUME Next, ~PurgeExpired, \A a \in Attempts, f \in Findings : ~AddGraphRecords(a, f)
  PROVE  graph' = graph /\ deleted' = deleted
<1>1. CASE ScanStep
  BY <1>1 DEF ScanStep
<1>2. CASE \E r \in Requests : ReadPage(r) \/ FindScan(r) \/ ReadRows(r) \/ RequestFails(r)
  BY <1>2 DEF ReadPage, FindScan, ReadRows, RequestFails, storedVars
<1>3. CASE RefreshGraph \/ LoadMoreGraph \/ ShowEnd
  BY <1>3 DEF RefreshGraph, LoadMoreGraph, ShowEnd, storedVars
<1>4. CASE \E r \in Requests : ApplyRefresh(r) \/ ApplyMore(r) \/ ApplyFailure(r)
  BY <1>4 DEF ApplyRefresh, ApplyMore, ApplyFailure, storedVars
<1>5. QED
  BY <1>1, <1>2, <1>3, <1>4 DEF Next

LEMMA EvidenceInit == Init => EvidenceInv
  BY DEF Init, EvidenceInv, Anchored, NothingOfDeleted, NoRows, Kinds

LEMMA EvidenceStep == EvidenceInv /\ [Next]_vars => EvidenceInv'
<1> SUFFICES ASSUME EvidenceInv, [Next]_vars PROVE EvidenceInv'
  OBVIOUS
<1>1. ASSUME NEW a \in Attempts, NEW f \in Findings, AddGraphRecords(a, f)
      PROVE  EvidenceInv'
  <2>1. graph' \in [Kinds -> SUBSET Nat]
    BY <1>1, RecordsTyped DEF EvidenceInv, AddGraphRecords, Upserted
  <2>2. Anchored'
    BY <1>1, UpsertAnchors DEF EvidenceInv, AddGraphRecords
  <2>3. NothingOfDeleted'
    BY <1>1 DEF AddGraphRecords, NothingOfDeleted
  <2>4. QED
    BY <2>1, <2>2, <2>3 DEF EvidenceInv
<1>2. CASE PurgeExpired
  BY <1>2 DEF PurgeExpired, EvidenceInv, Anchored, NothingOfDeleted, Kinds
<1>3. CASE graph' = graph /\ deleted' = deleted
  BY <1>3 DEF EvidenceInv, Anchored, NothingOfDeleted
<1>4. CASE UNCHANGED vars
  BY <1>3, <1>4 DEF vars, storedVars
<1>5. QED
  BY <1>1, <1>2, <1>3, <1>4, OtherSteps

-------------------------------------------------------------------------------
(* Pages.                                                                  *)
Place(ids, i) == Cardinality({j \in ids : j < i})

\* The records before an offset.
Before(ids, offset) == {i \in ids : Place(ids, i) < offset}

LEMMA PlaceGrows ==
  ASSUME NEW ids \in SUBSET Nat, IsFiniteSet(ids), NEW h \in ids, NEW i \in ids
  PROVE  /\ Place(ids, i) \in Nat /\ Place(ids, i) < Cardinality(ids)
         /\ h < i => Place(ids, h) < Place(ids, i)
<1> DEFINE Lower(x) == {j \in ids : j < x}
<1>1. \A x \in ids :
        /\ IsFiniteSet(Lower(x)) /\ Cardinality(Lower(x)) \in Nat
        /\ IsFiniteSet(Lower(x) \cup {x})
        /\ Cardinality(Lower(x) \cup {x}) = Cardinality(Lower(x)) + 1
  <2> TAKE x \in ids
  <2>1. IsFiniteSet(Lower(x)) /\ x \notin Lower(x)
    BY FS_Subset
  <2> HIDE DEF Lower
  <2>2. QED
    BY <2>1, FS_AddElement, FS_CardinalityType
<1>2. Cardinality(Lower(i) \cup {i}) <= Cardinality(ids) /\ Cardinality(ids) \in Nat
  <2>1. Lower(i) \cup {i} \in SUBSET ids
    OBVIOUS
  <2>2. QED
    BY <2>1, FS_Subset, FS_CardinalityType
<1>3. h < i => Cardinality(Lower(h) \cup {h}) <= Cardinality(Lower(i))
  <2>1. h < i => \A j \in Lower(h) \cup {h} : j \in ids /\ j < i
    OBVIOUS
  <2>2. h < i => Lower(h) \cup {h} \in SUBSET Lower(i)
    BY <2>1
  <2>3. IsFiniteSet(Lower(i))
    BY <1>1
  <2> HIDE DEF Lower
  <2>4. QED
    BY <2>2, <2>3, FS_Subset
<1> HIDE DEF Lower
<1>4. Cardinality(Lower(h)) = Place(ids, h) /\ Cardinality(Lower(i)) = Place(ids, i)
  BY DEF Lower, Place
<1>5. QED
  BY <1>1, <1>2, <1>3, <1>4

\* No two records have one place, and no place is free.
LEMMA Placed ==
  ASSUME NEW ids \in SUBSET Nat, IsFiniteSet(ids)
  PROVE  [i \in ids |-> Place(ids, i)] \in Bijection(ids, 0..(Cardinality(ids) - 1))
<1> DEFINE n == Cardinality(ids)
           place == [i \in ids |-> Place(ids, i)]
<1>1. n \in Nat
  BY FS_CardinalityType
<1>2. IsFiniteSet(0..(n - 1)) /\ Cardinality(0..(n - 1)) = n
  <2>1. 0 \in Int /\ n - 1 \in Int
    BY <1>1
  <2>2. IsFiniteSet(0..(n - 1)) /\ Cardinality(0..(n - 1)) = IF 0 > n - 1 THEN 0 ELSE n - 1 - 0 + 1
    BY <2>1, FS_Interval
  <2>3. QED
    BY <1>1, <2>2
<1>3. place \in [ids -> 0..(n - 1)]
  BY <1>1, PlaceGrows
<1>4. ASSUME NEW h \in ids, NEW i \in ids, place[h] = place[i]
      PROVE  h = i
  <2>1. ~(h < i) /\ ~(i < h)
    BY <1>4, PlaceGrows
  <2>2. QED
    BY <2>1
<1>5. place \in Injection(ids, 0..(n - 1))
  BY <1>3, <1>4 DEF Injection, IsInjective
<1> HIDE DEF place
<1>6. place \in Surjection(ids, 0..(n - 1))
  BY <1>2, <1>5, FS_Injection DEF n
<1>7. QED
  BY <1>5, <1>6 DEF Bijection, place, n

\* A page has the records from its offset on, and the next offset is behind them.
LEMMA SliceFollows ==
  ASSUME NEW ids \in SUBSET Nat, IsFiniteSet(ids), NEW offset \in Nat
  PROVE  LET rows == Slice(ids, offset)
             next == offset + Cardinality(rows)
         IN  /\ rows \subseteq ids /\ Cardinality(rows) \in Nat
             /\ Before(ids, next) = Before(ids, offset) \cup rows
<1> DEFINE n == Cardinality(ids)
           rows == Slice(ids, offset)
           end == IF offset + PageLimit <= n THEN offset + PageLimit ELSE n
           place == [i \in rows |-> Place(ids, i)]
<1>1. n \in Nat /\ PageLimit \in Nat \ {0} /\ end \in Nat
  BY FS_CardinalityType, EvidenceAssumption
<1>2. \A i \in ids : Place(ids, i) \in Nat /\ Place(ids, i) < n
  BY PlaceGrows
<1>3. rows = {i \in ids : offset <= Place(ids, i) /\ Place(ids, i) < offset + PageLimit}
  BY DEF Slice, Place
<1> HIDE DEF rows
<1>4. \A i \in ids : i \in rows <=> offset <= Place(ids, i) /\ Place(ids, i) < end
  BY <1>1, <1>2, <1>3
<1>5. rows \in SUBSET ids /\ IsFiniteSet(rows) /\ Cardinality(rows) \in Nat
  <2>1. rows \in SUBSET ids
    BY <1>3
  <2>2. QED
    BY <2>1, FS_Subset, FS_CardinalityType
<1> HIDE DEF n, end
<1>6. place \in [rows -> offset..(end - 1)]
  BY <1>1, <1>2, <1>4, <1>5
<1>7. \A h, i \in rows : place[h] = place[i] => h = i
  BY <1>5, Placed DEF Bijection, Injection, IsInjective
<1>8. ASSUME NEW p \in offset..(end - 1)
      PROVE  \E i \in rows : place[i] = p
  <2>1. p \in 0..(n - 1)
    BY <1>1 DEF end
  <2>2. PICK i \in ids : Place(ids, i) = p
    BY <2>1, Placed DEF Bijection, Surjection, n
  <2>3. i \in rows
    BY <1>1, <1>4, <2>2
  <2>4. QED
    BY <2>2, <2>3
<1>9. place \in Bijection(rows, offset..(end - 1))
  BY <1>6, <1>7, <1>8 DEF Bijection, Injection, IsInjective, Surjection
<1> HIDE DEF place
<1>10. Cardinality(rows) = IF offset < end THEN end - offset ELSE 0
  <2>1. offset \in Int /\ end - 1 \in Int
    BY <1>1
  <2>2. Cardinality(offset..(end - 1)) = IF offset > end - 1 THEN 0 ELSE end - 1 - offset + 1
    BY <2>1, FS_Interval
  <2>3. ExistsBijection(rows, offset..(end - 1))
    BY <1>9 DEF ExistsBijection
  <2>4. Cardinality(rows) = Cardinality(offset..(end - 1))
    BY <1>5, <2>3, FS_Bijection
  <2>5. QED
    BY <1>1, <2>2, <2>4
<1>11. Before(ids, offset + Cardinality(rows)) = Before(ids, offset) \cup rows
  <2>1. CASE offset < end
    <3>1. offset + Cardinality(rows) = end
      BY <1>1, <1>10, <2>1
    <3>2. \A i \in ids : Place(ids, i) < end <=> Place(ids, i) < offset \/ i \in rows
      BY <1>1, <1>2, <1>4, <2>1
    <3>3. QED
      BY <1>5, <3>1, <3>2 DEF Before
  <2>2. CASE ~(offset < end)
    <3>1. offset + Cardinality(rows) = offset
      BY <1>1, <1>10, <2>2
    <3>2. rows = {}
      BY <1>1, <1>2, <1>4, <1>5, <2>2
    <3>3. QED
      BY <3>1, <3>2
  <2>3. QED
    BY <2>1, <2>2
<1>12. QED
  BY <1>5, <1>11 DEF rows

\* A record at or behind the offset of a page is on it or behind the next offset, and
\* then there is another page.
LEMMA SliceReaches ==
  ASSUME NEW ids \in SUBSET Nat, IsFiniteSet(ids), NEW offset \in Nat,
         NEW i \in ids, offset <= Place(ids, i)
  PROVE  LET rows == Slice(ids, offset)
             next == offset + Cardinality(rows)
         IN  i \in rows \/ (next <= Place(ids, i) /\ next < Cardinality(ids))
<1> DEFINE rows == Slice(ids, offset)
           next == offset + Cardinality(rows)
<1>1. Before(ids, next) = Before(ids, offset) \cup rows /\ next \in Nat
  BY SliceFollows
<1>2. Place(ids, i) \in Nat /\ Place(ids, i) < Cardinality(ids) /\ Cardinality(ids) \in Nat
  BY PlaceGrows, FS_CardinalityType
<1> HIDE DEF rows, next
<1>3. i \notin Before(ids, offset)
  BY <1>2 DEF Before
<1>4. i \notin rows => ~(Place(ids, i) < next)
  BY <1>1, <1>3 DEF Before
<1>5. QED
  BY <1>1, <1>2, <1>4 DEF rows, next

\* Places only rise when records are added.
LEMMA PlaceRises ==
  ASSUME NEW more \in SUBSET Nat, IsFiniteSet(more), NEW ids \in SUBSET more, NEW i \in Nat
  PROVE  Place(ids, i) <= Place(more, i) /\ Place(ids, i) \in Nat /\ Place(more, i) \in Nat
<1> DEFINE lower == {j \in ids : j < i}
           above == {j \in more : j < i}
<1>1. above \in SUBSET more /\ lower \in SUBSET above
  OBVIOUS
<1>2. IsFiniteSet(above)
  BY <1>1, FS_Subset
<1> HIDE DEF lower, above
<1>3. Cardinality(lower) <= Cardinality(above) /\ IsFiniteSet(lower)
  BY <1>1, <1>2, FS_Subset
<1>4. Cardinality(lower) \in Nat /\ Cardinality(above) \in Nat
  BY <1>2, <1>3, FS_CardinalityType
<1>5. QED
  BY <1>3, <1>4 DEF lower, above, Place

\* The offset behind the last record.
LEMMA AllBefore ==
  ASSUME NEW ids \in SUBSET Nat, IsFiniteSet(ids), NEW offset \in Nat, Cardinality(ids) <= offset
  PROVE  Before(ids, offset) = ids
<1>1. \A i \in ids : Place(ids, i) < offset
  <2> TAKE i \in ids
  <2>1. Place(ids, i) \in Nat /\ Place(ids, i) < Cardinality(ids) /\ Cardinality(ids) \in Nat
    BY PlaceGrows, FS_CardinalityType
  <2>2. QED
    BY <2>1
<1>2. QED
  BY <1>1 DEF Before

LEMMA NoneBefore ==
  ASSUME NEW ids \in SUBSET Nat, IsFiniteSet(ids)
  PROVE  Before(ids, 0) = {}
<1>1. \A i \in ids : ~(Place(ids, i) < 0)
  <2> TAKE i \in ids
  <2>1. Place(ids, i) \in Nat
    BY PlaceGrows
  <2>2. QED
    BY <2>1
<1>2. QED
  BY <1>1 DEF Before

-------------------------------------------------------------------------------
(* What the page may rely on.                                              *)
RequestRecord ==
  [pc : {"idle", "sent", "answered", "failed"} \cup Kinds, kind : {"refresh", "more"},
   from : [Kinds -> Nat], rows : [Kinds -> SUBSET Nat], next : [Kinds -> Nat],
   more : BOOLEAN, latest : BOOLEAN, fresh : BOOLEAN, owed : [Kinds -> SUBSET Nat]]

ViewRecord ==
  [loaded : BOOLEAN, rows : [Kinds -> SUBSET Nat], next : [Kinds -> Nat], more : BOOLEAN,
   loading : BOOLEAN, error : BOOLEAN, crashed : BOOLEAN, fresh : BOOLEAN,
   owed : [Kinds -> SUBSET Nat]]

FiniteGraph == graph \in [Kinds -> SUBSET Nat] /\ \A k \in Kinds : IsFiniteSet(graph[k])

PageTyped ==
  FiniteGraph /\ requests \in [Requests -> RequestRecord] /\ view \in ViewRecord

\* Only a refresh is the latest, and only one; what is fresh was asked for after the
\* end; and the answer to the latest request is as fresh as the view.
OrderInv ==
  /\ view.fresh => Terminal(record)
  /\ \A r \in Requests :
       /\ requests[r].fresh => Terminal(record) /\ requests[r].pc \notin {"idle", "failed"}
       /\ requests[r].latest => requests[r].kind = "refresh"
       /\ view.fresh /\ requests[r].latest => requests[r].fresh \/ requests[r].pc = "failed"
  /\ \A q, r \in Requests : requests[q].latest /\ requests[r].latest => q = r

\* The kinds a request has read are cut from the stored evidence.
HasRead(q, k) ==
  \/ q.pc = "answered"
  \/ q.pc = "provenance" /\ k # "provenance"
  \/ q.pc = "edge" /\ k = "node"

CutAt(q, k, g) ==
  /\ q.rows[k] = Slice(g[k], q.from[k]) /\ q.next[k] = q.from[k] + Cardinality(q.rows[k])
  /\ ~q.more => Cardinality(g[k]) <= q.next[k]

\* What a record of kind k may still hope for once its page was read: to be on it or on
\* a later one.
Shown(p, k, i, g) == i \in p.rows[k] \/ (p.next[k] <= Place(g[k], i) /\ p.more)

\* The same of a page that may not have been read.
Reaches(q, k, i, g) ==
  IF HasRead(q, k) THEN Shown(q, k, i, g) ELSE q.from[k] <= Place(g[k], i)

Fits(q, g) ==
  q.fresh => /\ \A k \in Kinds : HasRead(q, k) => CutAt(q, k, g)
             /\ q.kind = "refresh" => q.from = Start

\* A fresh view shows the stored evidence up to its offsets.
ViewFits(v, g) ==
  v.loaded /\ v.fresh =>
    \A k \in Kinds : /\ v.rows[k] = Before(g[k], v.next[k])
                     /\ ~v.more => Cardinality(g[k]) <= v.next[k]

\* A fresh page that is still to come goes on where the fresh view ends, and no
\* other one is asked for meanwhile.
Continues(v, q) ==
  v.loaded /\ v.fresh /\ q.fresh /\ q.kind = "more" => q.from = v.next /\ (v.loading \/ v.error)

FreshInv ==
  ~deleted =>
    /\ ViewFits(view, graph)
    /\ \A r \in Requests : Fits(requests[r], graph) /\ Continues(view, requests[r])
    /\ view.loaded /\ view.fresh =>
         \A q, r \in Requests :
           /\ requests[q].fresh /\ requests[q].kind = "more"
           /\ requests[r].fresh /\ requests[r].kind = "more"
           => q = r

PageInv == PageTyped /\ OrderInv /\ FreshInv

LEMMA NothingRead ==
  /\ Start \in [Kinds -> Nat] /\ NoRows \in [Kinds -> SUBSET Nat]
  /\ Idle \in RequestRecord /\ ~Idle.latest /\ ~Idle.fresh /\ Idle.pc = "idle" /\ Idle.kind = "refresh"
  /\ Idle.owed = NoRows /\ \A k \in Kinds : NoRows[k] = {}
  /\ NoView \in ViewRecord /\ ~NoView.fresh /\ ~NoView.loaded
  BY DEF Start, NoRows, Idle, NoView, RequestRecord, ViewRecord

\* The end of a scan is not undone here: nobody rewrites the whole record.
LEMMA EndedRecord ==
  ASSUME Terminal(record), ScanStep
  PROVE  record' = record
<1>1. record.state \in {"succeeded", "partial", "failed", "cancelled"}
  BY DEF Terminal, TerminalScanStates
<1>2. record.state # "queued" /\ record.state # "running"
  BY <1>1
<1>3. ~ClaimScan /\ ~TouchScanLease /\ ~RecoverStaleScan /\ ~FinishScan
  BY <1>2 DEF ClaimScan, TouchScanLease, RecoverStaleScan, FinishScan, Claimable, HoldsLease, Recoverable
<1>4. ~RequestCancellation /\ ~AcknowledgeCancellation
  BY DEF RequestCancellation, AcknowledgeCancellation
<1>5. MarkScanDispatched => record' = record
  BY <1>2 DEF MarkScanDispatched, Dispatched, Write
<1>6. QED
  BY <1>3, <1>4, <1>5 DEF ScanStep, Expire

-------------------------------------------------------------------------------
(* A request reads.                                                        *)
LEMMA RowsRead ==
  ASSUME FiniteGraph, NEW q \in RequestRecord, NEW k \in Kinds
  PROVE  LET p == WithRows(q, k)
         IN  /\ p \in RequestRecord
             /\ p.pc = q.pc /\ p.kind = q.kind /\ p.from = q.from /\ p.latest = q.latest /\ p.fresh = q.fresh
             /\ p.owed = q.owed
             /\ \A i \in graph[k] : q.from[k] <= Place(graph[k], i) => Shown(p, k, i, graph)
             /\ \A j \in Kinds, i \in Nat : j # k /\ Shown(q, j, i, graph) => Shown(p, j, i, graph)
             /\ CutAt(p, k, graph)
             /\ \A j \in Kinds : j # k /\ CutAt(q, j, graph) => CutAt(p, j, graph)
<1> DEFINE rows == Slice(graph[k], q.from[k])
           next == q.from[k] + Cardinality(rows)
           p == WithRows(q, k)
<1>1. /\ rows \in SUBSET Nat /\ next \in Nat /\ Cardinality(rows) \in Nat /\ Cardinality(graph[k]) \in Nat
  <2>1. graph[k] \in SUBSET Nat /\ IsFiniteSet(graph[k]) /\ q.from[k] \in Nat
    BY DEF FiniteGraph, RequestRecord
  <2>2. rows \subseteq graph[k] /\ Cardinality(rows) \in Nat
    BY <2>1, SliceFollows
  <2> HIDE DEF rows
  <2>3. QED
    BY <2>1, <2>2, FS_CardinalityType
<1>2. p = [q EXCEPT !.rows[k] = rows, !.next[k] = next,
                    !.more = q.more \/ next < Cardinality(graph[k])]
  BY DEF WithRows
<1> HIDE DEF rows, next, p
<1>3. /\ p \in RequestRecord
      /\ p.pc = q.pc /\ p.kind = q.kind /\ p.from = q.from /\ p.latest = q.latest /\ p.fresh = q.fresh
      /\ p.owed = q.owed
  BY <1>1, <1>2 DEF RequestRecord
<1>4. /\ p.rows[k] = rows /\ p.next[k] = next /\ p.more = (q.more \/ next < Cardinality(graph[k]))
      /\ \A j \in Kinds : j # k => p.rows[j] = q.rows[j] /\ p.next[j] = q.next[j]
  BY <1>1, <1>2 DEF RequestRecord
<1>5. CutAt(p, k, graph)
  <2>1. p.rows[k] = Slice(graph[k], p.from[k]) /\ p.next[k] = p.from[k] + Cardinality(p.rows[k])
    BY <1>3, <1>4 DEF rows, next
  <2>2. ~p.more => Cardinality(graph[k]) <= p.next[k]
    <3>1. ~p.more => ~(next < Cardinality(graph[k]))
      BY <1>4
    <3>2. QED
      BY <1>1, <1>4, <3>1
  <2>3. QED
    BY <2>1, <2>2 DEF CutAt
<1>6. ASSUME NEW j \in Kinds, j # k, CutAt(q, j, graph)
      PROVE  CutAt(p, j, graph)
  <2>1. ~p.more => ~q.more
    BY <1>4
  <2>2. QED
    BY <1>3, <1>4, <1>6, <2>1 DEF CutAt
<1>7. ASSUME NEW i \in graph[k], q.from[k] <= Place(graph[k], i)
      PROVE  Shown(p, k, i, graph)
  <2>1. graph[k] \in SUBSET Nat /\ IsFiniteSet(graph[k]) /\ q.from[k] \in Nat
    BY DEF FiniteGraph, RequestRecord
  <2>2. i \in rows \/ (next <= Place(graph[k], i) /\ next < Cardinality(graph[k]))
    BY <1>7, <2>1, SliceReaches DEF rows, next
  <2>3. QED
    BY <1>4, <2>2 DEF Shown
<1>8. ASSUME NEW j \in Kinds, NEW i \in Nat, j # k, Shown(q, j, i, graph)
      PROVE  Shown(p, j, i, graph)
  <2>1. q.more => p.more
    BY <1>4
  <2>2. QED
    BY <1>4, <1>8, <2>1 DEF Shown
<1>9. QED
  BY <1>3, <1>5, <1>6, <1>7, <1>8 DEF p

\* Moving on does not change what was read.
LEMMA MovesOn ==
  ASSUME NEW q \in RequestRecord, NEW pc \in {"answered"} \cup Kinds
  PROVE  LET p == [q EXCEPT !.pc = pc]
         IN  /\ p \in RequestRecord /\ p.pc = pc
             /\ p.kind = q.kind /\ p.from = q.from /\ p.latest = q.latest /\ p.fresh = q.fresh
             /\ p.owed = q.owed
             /\ \A k \in Kinds : CutAt(p, k, graph) <=> CutAt(q, k, graph)
             /\ \A k \in Kinds, i \in Nat : Shown(p, k, i, graph) <=> Shown(q, k, i, graph)
<1> DEFINE p == [q EXCEPT !.pc = pc]
<1>1. /\ p \in RequestRecord /\ p.pc = pc
      /\ p.kind = q.kind /\ p.from = q.from /\ p.latest = q.latest /\ p.fresh = q.fresh
      /\ p.owed = q.owed /\ p.rows = q.rows /\ p.next = q.next /\ p.more = q.more
  BY DEF RequestRecord
<1> HIDE DEF p
<1>2. QED
  BY <1>1 DEF CutAt, Shown, p

\* A request that reads on stays the request it is.
ReadsOn(q, p) ==
  /\ p \in RequestRecord /\ p.pc \in {"answered"} \cup Kinds
  /\ p.kind = q.kind /\ p.from = q.from /\ p.latest = q.latest /\ p.fresh = q.fresh
  /\ p.owed = q.owed
  /\ Fits(q, graph) => Fits(p, graph)
  /\ \A k \in Kinds : \A i \in graph[k] : Reaches(q, k, i, graph) => Reaches(p, k, i, graph)

LEMMA ReadingStep ==
  ASSUME PageTyped, NEW r \in Requests, ReadPage(r) \/ FindScan(r) \/ ReadRows(r)
  PROVE  \E p : ReadsOn(requests[r], p) /\ requests' = [requests EXCEPT ![r] = p]
<1> DEFINE q == requests[r]
<1>1. q \in RequestRecord /\ FiniteGraph /\ \A k \in Kinds : graph[k] \subseteq Nat
  BY DEF PageTyped, FiniteGraph
<1>2. "node" \in Kinds /\ "edge" \in Kinds /\ "provenance" \in Kinds /\ Kinds = {"node", "edge", "provenance"}
  BY DEF Kinds
<1>3. CASE ReadPage(r)
  <2> DEFINE n == WithRows(q, "node")
             e == WithRows(n, "edge")
             v == WithRows(e, "provenance")
             p == [v EXCEPT !.pc = "answered"]
  <2>1. requests' = [requests EXCEPT ![r] = p] /\ q.pc = "sent"
    BY <1>3 DEF ReadPage
  <2> HIDE DEF q
  <2>2. /\ n \in RequestRecord /\ CutAt(n, "node", graph)
        /\ n.kind = q.kind /\ n.from = q.from /\ n.latest = q.latest /\ n.fresh = q.fresh
        /\ n.owed = q.owed
        /\ \A i \in graph["node"] : q.from["node"] <= Place(graph["node"], i) => Shown(n, "node", i, graph)
    BY <1>1, <1>2, RowsRead
  <2> HIDE DEF n
  <2>3. /\ e \in RequestRecord /\ CutAt(e, "edge", graph) /\ CutAt(e, "node", graph)
        /\ e.kind = q.kind /\ e.from = q.from /\ e.latest = q.latest /\ e.fresh = q.fresh
        /\ e.owed = q.owed
        /\ \A k \in {"node", "edge"} : \A i \in graph[k] :
             q.from[k] <= Place(graph[k], i) => Shown(e, k, i, graph)
    BY <1>1, <1>2, <2>2, RowsRead
  <2> HIDE DEF e
  <2>4. /\ v \in RequestRecord /\ \A k \in Kinds : CutAt(v, k, graph)
        /\ v.kind = q.kind /\ v.from = q.from /\ v.latest = q.latest /\ v.fresh = q.fresh
        /\ v.owed = q.owed
        /\ \A k \in Kinds : \A i \in graph[k] :
             q.from[k] <= Place(graph[k], i) => Shown(v, k, i, graph)
    BY <1>1, <1>2, <2>3, RowsRead
  <2> HIDE DEF v
  <2>5. /\ p \in RequestRecord /\ p.pc = "answered" /\ \A k \in Kinds : CutAt(p, k, graph)
        /\ p.kind = q.kind /\ p.from = q.from /\ p.latest = q.latest /\ p.fresh = q.fresh
        /\ p.owed = q.owed
    BY <2>4, MovesOn
  <2>6. ASSUME NEW k \in Kinds, NEW i \in graph[k], q.from[k] <= Place(graph[k], i)
        PROVE  Shown(p, k, i, graph)
    BY <1>1, <2>4, <2>6, MovesOn
  <2> HIDE DEF p
  <2>7. \A k \in Kinds : ~HasRead(q, k) /\ HasRead(p, k)
    BY <2>1, <2>5 DEF HasRead
  <2>8. \A k \in Kinds : \A i \in graph[k] : Reaches(q, k, i, graph) => Reaches(p, k, i, graph)
    BY <2>6, <2>7 DEF Reaches
  <2>9. ReadsOn(q, p)
    BY <2>5, <2>8 DEF ReadsOn, Fits
  <2>10. QED
    BY <2>1, <2>9 DEF q
<1>4. CASE FindScan(r)
  <2> DEFINE p == [q EXCEPT !.pc = "node"]
  <2>1. requests' = [requests EXCEPT ![r] = p] /\ q.pc = "sent"
    BY <1>4 DEF FindScan
  <2> HIDE DEF q
  <2>2. /\ p \in RequestRecord /\ p.pc = "node"
        /\ p.kind = q.kind /\ p.from = q.from /\ p.latest = q.latest /\ p.fresh = q.fresh
        /\ p.owed = q.owed
    BY <1>1, <1>2, MovesOn
  <2> HIDE DEF p
  <2>3. \A k \in Kinds : ~HasRead(q, k) /\ ~HasRead(p, k)
    BY <1>2, <2>1, <2>2 DEF HasRead
  <2>4. ReadsOn(q, p)
    BY <1>2, <2>2, <2>3 DEF ReadsOn, Fits, Reaches
  <2>5. QED
    BY <2>1, <2>4 DEF q
<1>5. CASE ReadRows(r)
  <2>1. PICK k \in Kinds : q.pc = k /\ requests' = [requests EXCEPT ![r] = [WithRows(q, k) EXCEPT !.pc = After[k]]]
    BY <1>5 DEF ReadRows
  <2> DEFINE w == WithRows(q, k)
             p == [w EXCEPT !.pc = After[k]]
  <2>2. requests' = [requests EXCEPT ![r] = p]
    BY <2>1
  <2>3. /\ k = "node" => After[k] = "edge"
        /\ k = "edge" => After[k] = "provenance"
        /\ k = "provenance" => After[k] = "answered"
    BY DEF After
  <2> HIDE DEF q
  <2>4. /\ w \in RequestRecord /\ CutAt(w, k, graph) /\ \A j \in Kinds : j # k /\ CutAt(q, j, graph) => CutAt(w, j, graph)
        /\ w.kind = q.kind /\ w.from = q.from /\ w.latest = q.latest /\ w.fresh = q.fresh
        /\ w.owed = q.owed
        /\ \A i \in graph[k] : q.from[k] <= Place(graph[k], i) => Shown(w, k, i, graph)
        /\ \A j \in Kinds, i \in Nat : j # k /\ Shown(q, j, i, graph) => Shown(w, j, i, graph)
    BY <1>1, RowsRead
  <2> HIDE DEF w
  <2>5. After[k] \in {"answered"} \cup Kinds
    BY <1>2, <2>3
  <2>6. /\ p \in RequestRecord /\ p.pc = After[k] /\ \A j \in Kinds : CutAt(p, j, graph) <=> CutAt(w, j, graph)
        /\ p.kind = q.kind /\ p.from = q.from /\ p.latest = q.latest /\ p.fresh = q.fresh
        /\ p.owed = q.owed
        /\ \A j \in Kinds, i \in Nat : Shown(p, j, i, graph) <=> Shown(w, j, i, graph)
    BY <2>4, <2>5, MovesOn
  <2> HIDE DEF p
  <2>7. \A j \in Kinds : HasRead(p, j) <=> j = k \/ HasRead(q, j)
    BY <1>2, <2>1, <2>3, <2>6 DEF HasRead, q
  <2>8. ~HasRead(q, k)
    BY <1>2, <2>1 DEF HasRead, q
  <2>9. ASSUME NEW j \in Kinds, NEW i \in graph[j], Reaches(q, j, i, graph)
        PROVE  Reaches(p, j, i, graph)
    <3>1. i \in Nat
      BY <1>1
    <3>2. CASE j = k
      BY <2>4, <2>6, <2>7, <2>8, <2>9, <3>1, <3>2 DEF Reaches
    <3>3. CASE j # k
      BY <2>4, <2>6, <2>7, <2>9, <3>1, <3>3 DEF Reaches
    <3>4. QED
      BY <3>2, <3>3
  <2>10. ReadsOn(q, p)
    BY <2>4, <2>5, <2>6, <2>7, <2>9 DEF ReadsOn, Fits
  <2>11. QED
    BY <2>2, <2>10 DEF q
<1>6. QED
  BY <1>3, <1>4, <1>5

-------------------------------------------------------------------------------
(* The steps of the page.                                                  *)

\* Requests change, but none is new to the page, and the page does not change.
LEMMA RequestChanges ==
  ASSUME PageInv, NEW r \in Requests, NEW p \in RequestRecord,
         requests' = [requests EXCEPT ![r] = p],
         UNCHANGED <<storedVars, settled, view>>,
         p.latest => requests[r].latest, p.kind = requests[r].kind,
         \/ ~p.fresh /\ (p.latest => p.pc = "failed")
         \/ /\ p.fresh = requests[r].fresh /\ p.pc \notin {"idle", "failed"}
            /\ p.from = requests[r].from /\ requests[r].pc # "failed"
            /\ Fits(requests[r], graph) => Fits(p, graph)
  PROVE  PageInv'
<1>1. \A q \in Requests : requests'[q] = IF q = r THEN p ELSE requests[q]
  BY DEF PageInv, PageTyped
<1>2. UNCHANGED <<graph, deleted, record, view>>
  BY DEF storedVars, svars
<1>3. PageTyped'
  BY <1>2 DEF PageInv, PageTyped, FiniteGraph
<1>4. OrderInv'
  BY <1>1, <1>2 DEF PageInv, OrderInv
<1>5. FreshInv'
  <2> SUFFICES ASSUME ~deleted PROVE FreshInv'
    BY <1>2 DEF FreshInv
  <2>1. \A q \in Requests : Fits(requests[q], graph) /\ Continues(view, requests[q])
    BY DEF PageInv, FreshInv
  <2>2. Fits(p, graph) /\ Continues(view, p)
    BY <2>1 DEF Fits, Continues
  <2>3. \A q \in Requests : Fits(requests'[q], graph) /\ Continues(view, requests'[q])
    BY <1>1, <2>1, <2>2
  <2>4. \A q \in Requests : requests'[q].fresh /\ requests'[q].kind = "more" =>
                            requests[q].fresh /\ requests[q].kind = "more"
    BY <1>1
  <2>5. QED
    BY <1>2, <2>3, <2>4 DEF PageInv, FreshInv
<1>6. QED
  BY <1>3, <1>4, <1>5 DEF PageInv

LEMMA ReadingPage ==
  ASSUME PageInv, NEW r \in Requests, ReadPage(r) \/ FindScan(r) \/ ReadRows(r) \/ RequestFails(r)
  PROVE  PageInv'
<1>1. UNCHANGED <<storedVars, settled, view>>
  BY DEF ReadPage, FindScan, ReadRows, RequestFails
<1>2. CASE ReadPage(r) \/ FindScan(r) \/ ReadRows(r)
  <2>1. PICK p : ReadsOn(requests[r], p) /\ requests' = [requests EXCEPT ![r] = p]
    BY <1>2, ReadingStep DEF PageInv
  <2>2. requests[r].pc # "failed"
    BY <1>2 DEF ReadPage, FindScan, ReadRows, Kinds
  <2>3. p.pc \notin {"idle", "failed"}
    BY <2>1 DEF ReadsOn, Kinds
  <2>4. QED
    BY <1>1, <2>1, <2>2, <2>3, RequestChanges DEF ReadsOn
<1>3. CASE RequestFails(r)
  <2> DEFINE p == [Idle EXCEPT !.pc = "failed", !.kind = requests[r].kind, !.latest = requests[r].latest]
  <2>1. requests' = [requests EXCEPT ![r] = p] /\ requests[r] \in RequestRecord
    BY <1>3 DEF RequestFails, PageInv, PageTyped
  <2>2. /\ p \in RequestRecord /\ ~p.fresh /\ p.pc = "failed"
        /\ p.kind = requests[r].kind /\ p.latest = requests[r].latest
    BY <2>1, NothingRead DEF RequestRecord, Idle
  <2> HIDE DEF p
  <2>3. QED
    BY <1>1, <2>1, <2>2, RequestChanges
<1>4. QED
  BY <1>2, <1>3

\* The request goes on as it was, and owes what it owed or nothing.
Keeps(q, p) ==
  /\ p.pc = q.pc /\ p.kind = q.kind /\ p.from = q.from
  /\ p.rows = q.rows /\ p.next = q.next /\ p.more = q.more
  /\ p.owed = q.owed \/ p.owed = NoRows

\* A new request: of the others none is the latest any more.
LEMMA Sent ==
  ASSUME PageTyped, NEW q \in RequestRecord, Send(q)
  PROVE  \E r \in Requests :
           /\ requests' \in [Requests -> RequestRecord]
           /\ requests'[r] = q
           /\ \A p \in Requests : p # r =>
                /\ ~requests'[p].latest /\ requests'[p].fresh = requests[p].fresh
                /\ requests'[p].kind = requests[p].kind /\ requests'[p].pc = requests[p].pc
                /\ requests'[p].from = requests[p].from
                /\ Fits(requests[p], graph) => Fits(requests'[p], graph)
                /\ Keeps(requests[p], requests'[p])
<1>1. PICK r \in Requests :
        requests' = [p \in Requests |->
          IF p = r THEN q
          ELSE [requests[p] EXCEPT !.latest = FALSE,
                  !.owed = IF requests[p].kind = "refresh" THEN NoRows ELSE @]]
  BY DEF Send
<1>2. ASSUME NEW p \in Requests, p # r
      PROVE  /\ requests'[p] \in RequestRecord
             /\ ~requests'[p].latest /\ requests'[p].fresh = requests[p].fresh
             /\ requests'[p].kind = requests[p].kind /\ requests'[p].pc = requests[p].pc
             /\ requests'[p].from = requests[p].from
             /\ Fits(requests[p], graph) => Fits(requests'[p], graph)
             /\ Keeps(requests[p], requests'[p])
  <2> DEFINE owed == IF requests[p].kind = "refresh" THEN NoRows ELSE requests[p].owed
             s == [requests[p] EXCEPT !.latest = FALSE, !.owed = owed]
  <2>1. requests'[p] = s /\ requests[p] \in RequestRecord
    BY <1>1, <1>2 DEF PageTyped, RequestRecord
  <2>2. owed \in [Kinds -> SUBSET Nat] /\ (owed = NoRows \/ owed = requests[p].owed)
    BY <2>1, NothingRead DEF RequestRecord
  <2> HIDE DEF owed
  <2>3. /\ s \in RequestRecord /\ ~s.latest /\ s.fresh = requests[p].fresh /\ s.owed = owed
        /\ s.kind = requests[p].kind /\ s.pc = requests[p].pc /\ s.from = requests[p].from
        /\ s.rows = requests[p].rows /\ s.next = requests[p].next /\ s.more = requests[p].more
    BY <2>1, <2>2 DEF RequestRecord
  <2> HIDE DEF s
  <2>4. Fits(requests[p], graph) => Fits(s, graph)
    BY <2>3 DEF Fits, HasRead, CutAt
  <2>5. Keeps(requests[p], s)
    BY <2>2, <2>3 DEF Keeps
  <2>6. QED
    BY <2>1, <2>3, <2>4, <2>5
<1>3. requests'[r] = q
  BY <1>1
<1>4. requests' \in [Requests -> RequestRecord]
  BY <1>1, <1>2, <1>3
<1>5. QED
  BY <1>2, <1>3, <1>4

LEMMA SendingPage ==
  ASSUME PageInv, RefreshGraph \/ LoadMoreGraph
  PROVE  PageInv'
<1>1. UNCHANGED <<graph, deleted, record>> /\ PageTyped /\ OrderInv /\ view \in ViewRecord
  BY DEF RefreshGraph, LoadMoreGraph, storedVars, svars, PageInv, PageTyped
<1>2. /\ view' = [view EXCEPT !.loading = TRUE]
      /\ view' \in ViewRecord /\ view'.fresh = view.fresh /\ view'.loaded = view.loaded /\ view'.loading
      /\ view'.rows = view.rows /\ view'.next = view.next /\ view'.more = view.more
  <2>1. view' = [view EXCEPT !.loading = TRUE]
    BY DEF RefreshGraph, LoadMoreGraph
  <2>2. QED
    BY <1>1, <2>1 DEF ViewRecord
<1>3. ~deleted => ViewFits(view', graph)
  BY <1>2 DEF PageInv, FreshInv, ViewFits
<1>4. CASE RefreshGraph
  <2> DEFINE ended == Terminal(record)
             q == [Idle EXCEPT !.pc = "sent", !.latest = TRUE, !.fresh = ended, !.owed = graph]
  <2>1. ended \in BOOLEAN /\ graph \in [Kinds -> SUBSET Nat]
    BY <1>1 DEF Terminal, PageTyped, FiniteGraph
  <2>2. Send(q)
    BY <1>4 DEF RefreshGraph
  <2> HIDE DEF ended
  <2>3. /\ q \in RequestRecord /\ q.pc = "sent" /\ q.kind = "refresh" /\ q.from = Start
        /\ q.fresh = ended
    BY <2>1, NothingRead DEF Idle, RequestRecord
  <2> HIDE DEF q
  <2>4. PICK r \in Requests :
           /\ requests' \in [Requests -> RequestRecord]
           /\ requests'[r] = q
           /\ \A p \in Requests : p # r =>
                /\ ~requests'[p].latest /\ requests'[p].fresh = requests[p].fresh
                /\ requests'[p].kind = requests[p].kind /\ requests'[p].pc = requests[p].pc
                /\ requests'[p].from = requests[p].from
                /\ Fits(requests[p], graph) => Fits(requests'[p], graph)
    BY <1>1, <2>2, <2>3, Sent
  <2>5. PageTyped'
    BY <1>1, <1>2, <2>4 DEF PageTyped, FiniteGraph
  <2>6. OrderInv'
    <3>1. \A p \in Requests :
            /\ requests'[p].fresh => Terminal(record) /\ requests'[p].pc \notin {"idle", "failed"}
            /\ requests'[p].latest => p = r
      BY <1>1, <2>3, <2>4 DEF OrderInv, ended
    <3>2. view'.fresh => Terminal(record) /\ requests'[r].fresh
      BY <1>1, <1>2, <2>3, <2>4 DEF OrderInv, ended
    <3>3. requests'[r].kind = "refresh"
      BY <2>3, <2>4
    <3>4. QED
      BY <1>1, <3>1, <3>2, <3>3 DEF OrderInv
  <2>7. FreshInv'
    <3> SUFFICES ASSUME ~deleted PROVE FreshInv'
      BY <1>1 DEF FreshInv
    <3>1. Fits(q, graph) /\ Continues(view', q)
      BY <2>3 DEF Fits, HasRead, Continues, Kinds
    <3>2. \A p \in Requests : p # r => Fits(requests'[p], graph) /\ Continues(view', requests'[p])
      BY <1>2, <2>4 DEF PageInv, FreshInv, Continues
    <3>3. \A p \in Requests : requests'[p].fresh /\ requests'[p].kind = "more" =>
                              requests[p].fresh /\ requests[p].kind = "more"
      BY <2>3, <2>4
    <3>4. QED
      BY <1>1, <1>2, <1>3, <2>4, <3>1, <3>2, <3>3 DEF PageInv, FreshInv
  <2>8. QED
    BY <2>5, <2>6, <2>7 DEF PageInv
<1>5. CASE LoadMoreGraph
  <2> DEFINE q == [Idle EXCEPT !.pc = "sent", !.kind = "more", !.from = view.next,
                               !.fresh = view.fresh, !.owed = view.owed]
  <2>1. /\ q \in RequestRecord /\ q.pc = "sent" /\ q.kind = "more" /\ q.from = view.next
        /\ q.fresh = view.fresh /\ ~q.latest
    BY <1>1, NothingRead DEF Idle, RequestRecord, ViewRecord
  <2>2. Send(q) /\ view.loaded /\ ~view.error /\ ~view.loading
    BY <1>5 DEF LoadMoreGraph
  <2> HIDE DEF q
  <2>3. PICK r \in Requests :
           /\ requests' \in [Requests -> RequestRecord]
           /\ requests'[r] = q
           /\ \A p \in Requests : p # r =>
                /\ ~requests'[p].latest /\ requests'[p].fresh = requests[p].fresh
                /\ requests'[p].kind = requests[p].kind /\ requests'[p].pc = requests[p].pc
                /\ requests'[p].from = requests[p].from
                /\ Fits(requests[p], graph) => Fits(requests'[p], graph)
    BY <1>1, <2>1, <2>2, Sent
  <2>4. PageTyped'
    BY <1>1, <1>2, <2>3 DEF PageTyped, FiniteGraph
  <2>5. OrderInv'
    <3>1. \A p \in Requests :
            /\ requests'[p].fresh => Terminal(record) /\ requests'[p].pc \notin {"idle", "failed"}
            /\ ~requests'[p].latest
      BY <1>1, <2>1, <2>3 DEF OrderInv
    <3>2. QED
      BY <1>1, <1>2, <3>1 DEF OrderInv
  <2>6. FreshInv'
    <3> SUFFICES ASSUME ~deleted PROVE FreshInv'
      BY <1>1 DEF FreshInv
    <3>1. Fits(q, graph) /\ Continues(view', q)
      BY <1>2, <2>1 DEF Fits, HasRead, Continues, Kinds
    <3>2. \A p \in Requests : p # r => Fits(requests'[p], graph) /\ Continues(view', requests'[p])
      BY <1>2, <2>3 DEF PageInv, FreshInv, Continues
    <3>3. view.fresh => \A p \in Requests : ~(requests[p].fresh /\ requests[p].kind = "more")
      BY <2>2 DEF PageInv, FreshInv, Continues
    <3>4. view'.fresh => \A p \in Requests : requests'[p].fresh /\ requests'[p].kind = "more" => p = r
      BY <1>2, <2>3, <3>3
    <3>5. QED
      BY <1>1, <1>2, <1>3, <2>3, <3>1, <3>2, <3>4 DEF FreshInv
  <2>7. QED
    BY <2>4, <2>5, <2>6 DEF PageInv
<1>6. QED
  BY <1>4, <1>5

\* An answered or failed request is done with, and the page it leaves claims no more
\* than before.
LEMMA DonePage ==
  ASSUME PageInv, NEW r \in Requests, requests' = [requests EXCEPT ![r] = Idle],
         UNCHANGED <<storedVars, settled>>,
         view' \in ViewRecord, view'.fresh => view.fresh,
         view'.loaded /\ view'.fresh => view.loaded,
         ~deleted => /\ ViewFits(view', graph)
                     /\ \A p \in Requests : p # r => Continues(view', requests[p])
  PROVE  PageInv'
<1>1. UNCHANGED <<graph, deleted, record>> /\ PageTyped /\ OrderInv
  BY DEF storedVars, svars, PageInv
<1>2. \A p \in Requests : requests'[p] = IF p = r THEN Idle ELSE requests[p]
  BY <1>1 DEF PageTyped
<1>3. PageTyped'
  BY <1>1, NothingRead DEF PageTyped, FiniteGraph
<1>4. OrderInv'
  BY <1>1, <1>2, NothingRead DEF OrderInv
<1>5. FreshInv'
  <2> SUFFICES ASSUME ~deleted PROVE FreshInv'
    BY <1>1 DEF FreshInv
  <2>1. Fits(Idle, graph) /\ Continues(view', Idle)
    BY NothingRead DEF Fits, Continues
  <2>2. \A p \in Requests : Fits(requests'[p], graph) /\ Continues(view', requests'[p])
    BY <1>2, <2>1 DEF PageInv, FreshInv
  <2>3. \A p \in Requests : requests'[p].fresh /\ requests'[p].kind = "more" =>
                            requests[p].fresh /\ requests[p].kind = "more"
    BY <1>2, NothingRead
  <2>4. QED
    BY <1>1, <2>2, <2>3 DEF PageInv, FreshInv
<1>6. QED
  BY <1>3, <1>4, <1>5 DEF PageInv

LEMMA FailurePage ==
  ASSUME PageInv, NEW r \in Requests, ApplyFailure(r)
  PROVE  PageInv'
<1>1. requests' = [requests EXCEPT ![r] = Idle] /\ UNCHANGED <<storedVars, settled>>
  BY DEF ApplyFailure
<1>2. view \in ViewRecord /\ view.fresh \in BOOLEAN
  BY DEF PageInv, PageTyped, ViewRecord
<1>3. CASE view' = [NoView EXCEPT !.loading = FALSE, !.error = TRUE]
  <2>1. view' \in ViewRecord /\ ~view'.fresh
    BY <1>3, NothingRead DEF ViewRecord
  <2>2. QED
    BY <1>1, <2>1, DonePage DEF ViewFits, Continues
<1>4. CASE view' = [view EXCEPT !.loading = FALSE, !.error = TRUE]
  <2>1. /\ view' \in ViewRecord /\ view'.fresh = view.fresh /\ view'.loaded = view.loaded /\ view'.error
        /\ view'.rows = view.rows /\ view'.next = view.next /\ view'.more = view.more
    BY <1>2, <1>4 DEF ViewRecord
  <2>2. ~deleted => ViewFits(view', graph)
    BY <2>1 DEF PageInv, FreshInv, ViewFits
  <2>3. ~deleted => \A p \in Requests : Continues(view', requests[p])
    BY <2>1 DEF PageInv, FreshInv, Continues
  <2>4. QED
    BY <1>1, <2>1, <2>2, <2>3, DonePage
<1>5. CASE UNCHANGED view
  BY <1>1, <1>2, <1>5, DonePage DEF PageInv, FreshInv
<1>6. QED
  BY <1>3, <1>4, <1>5 DEF ApplyFailure

\* A further page: the fresh view and the fresh page that goes on from it are
\* together what comes before the next offset.
LEMMA MorePage ==
  ASSUME PageInv, NEW r \in Requests, ApplyMore(r)
  PROVE  PageInv'
<1> DEFINE q == requests[r]
<1>1. /\ UNCHANGED <<storedVars, settled>> /\ UNCHANGED <<graph, deleted, record>>
      /\ q.pc = "answered" /\ q.kind = "more" /\ q \in RequestRecord
      /\ view \in ViewRecord /\ FiniteGraph
  BY DEF ApplyMore, storedVars, svars, PageInv, PageTyped
<1>2. CASE view.loaded /\ requests' = [requests EXCEPT ![r] = Idle] /\
           view' = [view EXCEPT !.loading = FALSE, !.error = FALSE,
                      !.rows = [k \in Kinds |-> @[k] \cup requests[r].rows[k]],
                      !.next = requests[r].next, !.more = requests[r].more,
                      !.fresh = @ /\ requests[r].fresh,
                      !.owed = [k \in Kinds |-> @[k] \cap requests[r].owed[k]]]
  <2>1. /\ view'.loaded = view.loaded
        /\ \A k \in Kinds : view'.rows[k] = view.rows[k] \cup q.rows[k]
        /\ view'.next = q.next /\ view'.more = q.more
    BY <1>1, <1>2 DEF ViewRecord
  <2>2. view'.fresh = (view.fresh /\ q.fresh)
    BY <1>1, <1>2 DEF ViewRecord
  <2>3. view' \in ViewRecord
    <3> DEFINE rows == [k \in Kinds |-> view.rows[k] \cup q.rows[k]]
               fresh == view.fresh /\ q.fresh
               owed == [k \in Kinds |-> view.owed[k] \cap q.owed[k]]
    <3>1. owed \in [Kinds -> SUBSET Nat] /\ rows \in [Kinds -> SUBSET Nat] /\ fresh \in BOOLEAN /\ q.next \in [Kinds -> Nat] /\ q.more \in BOOLEAN
      BY <1>1 DEF ViewRecord, RequestRecord
    <3>2. view' = [view EXCEPT !.loading = FALSE, !.error = FALSE, !.rows = rows,
                               !.next = q.next, !.more = q.more, !.fresh = fresh, !.owed = owed]
      BY <1>1, <1>2 DEF ViewRecord
    <3> HIDE DEF rows, fresh, owed, q
    <3>3. QED
      BY <1>1, <3>1, <3>2 DEF ViewRecord
  <2>4. ASSUME ~deleted, view'.fresh
        PROVE  /\ ViewFits(view', graph)
               /\ \A p \in Requests : p # r => Continues(view', requests[p])
    <3>1. view.fresh /\ q.fresh
      BY <2>2, <2>4
    <3>2. /\ ViewFits(view, graph) /\ Fits(q, graph) /\ Continues(view, q)
          /\ \A p, s \in Requests : /\ requests[p].fresh /\ requests[p].kind = "more"
                                    /\ requests[s].fresh /\ requests[s].kind = "more"
                                    => p = s
      BY <1>2, <2>4, <3>1 DEF PageInv, FreshInv
    <3>3. \A p \in Requests : p # r => Continues(view', requests[p])
      BY <1>1, <3>1, <3>2 DEF Continues
    <3>4. ASSUME NEW k \in Kinds
          PROVE  /\ view'.rows[k] = Before(graph[k], view'.next[k])
                 /\ ~view'.more => Cardinality(graph[k]) <= view'.next[k]
      <4>1. CutAt(q, k, graph) /\ q.from = view.next
        BY <1>1, <1>2, <3>1, <3>2 DEF Fits, HasRead, Continues
      <4>2. view.rows[k] = Before(graph[k], view.next[k])
        BY <1>2, <3>1, <3>2 DEF ViewFits
      <4>3. graph[k] \in SUBSET Nat /\ IsFiniteSet(graph[k]) /\ q.from[k] \in Nat
        BY <1>1 DEF FiniteGraph, RequestRecord
      <4>4. Before(graph[k], q.next[k]) = Before(graph[k], q.from[k]) \cup q.rows[k]
        BY <4>1, <4>3, SliceFollows DEF CutAt
      <4>5. view'.rows[k] = Before(graph[k], view'.next[k])
        BY <2>1, <4>1, <4>2, <4>4
      <4>6. QED
        BY <2>1, <4>1, <4>5 DEF CutAt
    <3>5. QED
      BY <3>3, <3>4 DEF ViewFits
  <2>5. ~view'.fresh => ViewFits(view', graph) /\ \A p \in Requests : Continues(view', requests[p])
    BY DEF ViewFits, Continues
  <2>6. view'.fresh => view.fresh
    BY <2>2
  <2>7. QED
    BY <1>1, <1>2, <2>3, <2>4, <2>5, <2>6, DonePage
<1>3. CASE requests' = [p \in Requests |-> Idle] /\ view' = [NoView EXCEPT !.crashed = TRUE]
  <2>1. view' \in ViewRecord /\ ~view'.fresh
    BY <1>3, NothingRead DEF ViewRecord
  <2>2. PageTyped'
    BY <1>1, <1>3, <2>1, NothingRead DEF PageTyped, FiniteGraph
  <2>3. OrderInv'
    BY <1>1, <1>3, <2>1, NothingRead DEF OrderInv
  <2>4. Fits(Idle, graph)
    BY NothingRead DEF Fits
  <2>5. FreshInv'
    BY <1>1, <1>3, <2>1, <2>4 DEF FreshInv, ViewFits, Continues
  <2>6. QED
    BY <2>2, <2>3, <2>5 DEF PageInv
<1>4. QED
  BY <1>2, <1>3 DEF ApplyMore

\* A first page: nothing comes before it, and what is still to come for the view it
\* replaces no longer counts as fresh.
LEMMA RefreshPage ==
  ASSUME PageInv, NEW r \in Requests, ApplyRefresh(r)
  PROVE  PageInv'
<1> DEFINE q == requests[r]
<1>1. /\ UNCHANGED <<storedVars, settled>> /\ UNCHANGED <<graph, deleted, record>>
      /\ q.pc = "answered" /\ q.kind = "refresh" /\ q \in RequestRecord
      /\ view \in ViewRecord /\ FiniteGraph /\ PageTyped /\ OrderInv
  BY DEF ApplyRefresh, storedVars, svars, PageInv, PageTyped
<1>2. CASE ~q.latest /\ UNCHANGED view /\ requests' = [requests EXCEPT ![r] = Idle]
  BY <1>1, <1>2, DonePage DEF PageInv, FreshInv
<1>3. CASE /\ q.latest
           /\ view' = [view EXCEPT !.loaded = TRUE, !.loading = FALSE, !.error = FALSE,
                         !.rows = requests[r].rows, !.next = requests[r].next,
                         !.more = requests[r].more, !.fresh = requests[r].fresh,
                         !.owed = requests[r].owed]
           /\ requests' = [p \in Requests |->
                IF p = r THEN Idle
                ELSE IF requests[p].kind = "refresh" THEN requests[p]
                ELSE [requests[p] EXCEPT !.fresh = FALSE, !.owed = NoRows]]
  <2>1. /\ view' \in ViewRecord
        /\ view'.rows = q.rows /\ view'.next = q.next /\ view'.more = q.more /\ view'.fresh = q.fresh
    <3> HIDE DEF q
    <3>1. view' = [view EXCEPT !.loaded = TRUE, !.loading = FALSE, !.error = FALSE,
                         !.rows = q.rows, !.next = q.next, !.more = q.more, !.fresh = q.fresh, !.owed = q.owed]
      BY <1>3 DEF q
    <3>2. QED
      BY <1>1, <3>1 DEF ViewRecord, RequestRecord
  <2>2. ASSUME NEW p \in Requests, p # r
        PROVE  /\ requests'[p] \in RequestRecord
               /\ requests'[p].fresh => requests[p].fresh /\ requests[p].kind = "refresh"
               /\ requests'[p].latest = requests[p].latest
               /\ requests'[p].kind = requests[p].kind /\ requests'[p].pc = requests[p].pc
               /\ Fits(requests[p], graph) => Fits(requests'[p], graph)
    <3> DEFINE s == [requests[p] EXCEPT !.fresh = FALSE, !.owed = NoRows]
    <3>1. requests[p] \in RequestRecord
      BY <1>1 DEF PageTyped
    <3>2. CASE requests[p].kind = "refresh"
      BY <1>3, <2>2, <3>1, <3>2
    <3>3. CASE requests[p].kind # "refresh"
      <4>1. requests'[p] = s
        BY <1>3, <2>2, <3>3
      <4>2. /\ s \in RequestRecord /\ s.latest = requests[p].latest /\ ~s.fresh
            /\ s.kind = requests[p].kind /\ s.pc = requests[p].pc
        BY <3>1, NothingRead DEF RequestRecord
      <4> HIDE DEF s
      <4>3. QED
        BY <4>1, <4>2 DEF Fits
    <3>4. QED
      BY <3>2, <3>3
  <2>3. requests'[r] = Idle
    BY <1>3
  <2>4. PageTyped'
    <3>1. requests' \in [Requests -> RequestRecord]
      BY <1>3, <2>2, <2>3, NothingRead
    <3>2. QED
      BY <1>1, <2>1, <3>1 DEF PageTyped, FiniteGraph
  <2>5. OrderInv'
    <3>1. view'.fresh => Terminal(record)
      BY <1>1, <2>1 DEF OrderInv
    <3>2. \A p \in Requests : ~requests'[p].latest
      BY <1>1, <1>3, <2>2, <2>3, NothingRead DEF OrderInv
    <3>3. \A p \in Requests : requests'[p].fresh => Terminal(record) /\ requests'[p].pc \notin {"idle", "failed"}
      BY <1>1, <2>2, <2>3, NothingRead DEF OrderInv
    <3>4. QED
      BY <1>1, <3>1, <3>2, <3>3 DEF OrderInv
  <2>6. FreshInv'
    <3> SUFFICES ASSUME ~deleted PROVE FreshInv'
      BY <1>1 DEF FreshInv
    <3>1. ASSUME view'.fresh, NEW k \in Kinds
          PROVE  /\ view'.rows[k] = Before(graph[k], view'.next[k])
                 /\ ~view'.more => Cardinality(graph[k]) <= view'.next[k]
      <4>1. CutAt(q, k, graph) /\ q.from[k] = 0
        <5>1. Fits(q, graph) /\ q.fresh
          BY <2>1, <3>1 DEF PageInv, FreshInv
        <5>2. QED
          BY <1>1, <5>1 DEF Fits, HasRead, Start
      <4>2. graph[k] \in SUBSET Nat /\ IsFiniteSet(graph[k]) /\ q.from[k] \in Nat
        BY <1>1 DEF FiniteGraph, RequestRecord
      <4>3. Before(graph[k], q.next[k]) = Before(graph[k], q.from[k]) \cup q.rows[k]
        BY <4>1, <4>2, SliceFollows DEF CutAt
      <4>4. Before(graph[k], 0) = {}
        BY <4>2, NoneBefore
      <4>5. QED
        BY <2>1, <4>1, <4>3, <4>4 DEF CutAt
    <3>2. ViewFits(view', graph)
      BY <3>1 DEF ViewFits
    <3>3. \A p \in Requests : ~(requests'[p].fresh /\ requests'[p].kind = "more")
      BY <2>2, <2>3, NothingRead
    <3>4. \A p \in Requests : Fits(requests'[p], graph)
      <4>1. Fits(Idle, graph)
        BY NothingRead DEF Fits
      <4>2. QED
        BY <2>2, <2>3, <4>1 DEF PageInv, FreshInv
    <3>5. QED
      BY <1>1, <3>2, <3>3, <3>4 DEF FreshInv, Continues
  <2>7. QED
    BY <2>4, <2>5, <2>6 DEF PageInv
<1>4. QED
  BY <1>2, <1>3 DEF ApplyRefresh

-------------------------------------------------------------------------------
(* The steps of the store.                                                 *)

\* Nothing is fresh before the end of the scan.
LEMMA StillOpen ==
  ASSUME PageInv, UNCHANGED pageVars, ~Terminal(record), FiniteGraph'
  PROVE  PageInv'
<1>1. ~view'.fresh /\ \A r \in Requests : ~requests'[r].fresh
  BY DEF pageVars, PageInv, OrderInv
<1>2. PageTyped'
  BY DEF pageVars, PageInv, PageTyped
<1>3. OrderInv'
  BY <1>1 DEF pageVars, PageInv, OrderInv
<1>4. FreshInv'
  BY <1>1 DEF FreshInv, ViewFits, Fits, Continues
<1>5. QED
  BY <1>2, <1>3, <1>4 DEF PageInv

LEMMA StoragePage ==
  ASSUME PageInv, ScanStep \/ PurgeExpired \/ \E a \in Attempts, f \in Findings : AddGraphRecords(a, f)
  PROVE  PageInv'
<1>1. UNCHANGED pageVars /\ FiniteGraph
  BY DEF ScanStep, PurgeExpired, AddGraphRecords, PageInv, PageTyped
<1>2. CASE PurgeExpired
  <2>1. FiniteGraph'
    <3>1. IsFiniteSet({})
      BY FS_EmptySet
    <3>2. QED
      BY <1>2, <3>1 DEF PurgeExpired, FiniteGraph
  <2>2. deleted' /\ UNCHANGED record
    BY <1>2 DEF PurgeExpired, svars
  <2>3. PageTyped' /\ OrderInv' /\ FreshInv'
    BY <1>1, <2>1, <2>2 DEF pageVars, PageInv, PageTyped, OrderInv, FreshInv
  <2>4. QED
    BY <2>3 DEF PageInv
<1>3. CASE ScanStep
  <2>1. UNCHANGED <<graph, deleted>>
    BY <1>3 DEF ScanStep
  <2>2. FiniteGraph'
    BY <1>1, <2>1 DEF FiniteGraph
  <2>3. CASE Terminal(record)
    <3>1. record' = record
      BY <1>3, <2>3, EndedRecord
    <3>2. QED
      BY <1>1, <2>1, <2>2, <3>1 DEF pageVars, PageInv, PageTyped, OrderInv, FreshInv
  <2>4. QED
    BY <1>1, <2>2, <2>3, StillOpen
<1>4. ASSUME NEW a \in Attempts, NEW f \in Findings, AddGraphRecords(a, f)
      PROVE  PageInv'
  <2>1. ~Terminal(record)
    BY <1>4 DEF AddGraphRecords, HoldsLease, Terminal, TerminalScanStates
  <2>2. graph' = Upserted(f)
    BY <1>4 DEF AddGraphRecords
  <2>3. FiniteGraph'
    <3>1. \A S, x : IsFiniteSet(S) => IsFiniteSet(S \cup {x})
      BY FS_AddElement
    <3>2. \A k \in Kinds : IsFiniteSet(graph'[k])
      <4> DEFINE nodes == graph["node"] \cup {Source}
      <4>1. IsFiniteSet(graph["node"]) /\ IsFiniteSet(graph["edge"]) /\ IsFiniteSet(graph["provenance"])
        BY <1>1 DEF FiniteGraph, Kinds
      <4>2. IsFiniteSet(nodes)
        BY <3>1, <4>1
      <4>3. graph'["node"] = nodes \cup {NodeOf[f]}
        BY <2>2, UpsertedRows
      <4>4. graph'["edge"] = graph["edge"] \cup {EdgeOf[f]} /\ graph'["provenance"] = graph["provenance"] \cup {ProvenanceOf[f]}
        BY <2>2, UpsertedRows
      <4> HIDE DEF nodes
      <4>5. IsFiniteSet(nodes \cup {NodeOf[f]})
        BY <3>1, <4>2
      <4>6. IsFiniteSet(graph["edge"] \cup {EdgeOf[f]})
        BY <3>1, <4>1
      <4>7. IsFiniteSet(graph["provenance"] \cup {ProvenanceOf[f]})
        BY <3>1, <4>1
      <4>8. QED
        BY <4>3, <4>4, <4>5, <4>6, <4>7 DEF Kinds
    <3>3. graph' \in [Kinds -> SUBSET Nat]
      BY <1>1, <2>2, RecordsTyped DEF Upserted, FiniteGraph
    <3>4. QED
      BY <3>2, <3>3 DEF FiniteGraph
  <2>4. QED
    BY <1>1, <2>1, <2>3, StillOpen
<1>5. QED
  BY <1>2, <1>3, <1>4

LEMMA PageInit == Init => PageInv
<1> SUFFICES ASSUME Init PROVE PageInv
  OBVIOUS
<1> DEFINE First == [Idle EXCEPT !.pc = "sent", !.latest = TRUE]
<1>1. PICK r \in Requests : requests = [p \in Requests |-> IF p = r THEN First ELSE Idle]
  BY DEF Init
<1>2. view = NoView /\ graph = NoRows
  BY DEF Init
<1>3. First \in RequestRecord /\ ~First.fresh /\ First.kind = "refresh"
  BY NothingRead DEF RequestRecord
<1> HIDE DEF First
<1>4. \A p \in Requests : ~requests[p].fresh /\ requests[p].kind = "refresh" /\ (requests[p].latest => p = r)
  BY <1>1, <1>3, NothingRead
<1>5. FiniteGraph
  BY <1>2, NothingRead, FS_EmptySet DEF FiniteGraph, NoRows
<1>6. PageTyped
  BY <1>1, <1>2, <1>3, <1>5, NothingRead DEF PageTyped
<1>7. OrderInv
  BY <1>2, <1>4, NothingRead DEF OrderInv
<1>8. FreshInv
  BY <1>2, <1>4, NothingRead DEF FreshInv, ViewFits, Fits, Continues
<1>9. QED
  BY <1>6, <1>7, <1>8 DEF PageInv

LEMMA PageStep == PageInv /\ [Next]_vars => PageInv'
<1> SUFFICES ASSUME PageInv, [Next]_vars PROVE PageInv'
  OBVIOUS
<1>1. CASE ShowEnd \/ UNCHANGED vars
  <2>1. UNCHANGED <<graph, deleted, record, view, requests>>
    BY <1>1 DEF ShowEnd, vars, storedVars, svars, pageVars
  <2>2. QED
    BY <2>1 DEF PageInv, PageTyped, FiniteGraph, OrderInv, FreshInv
<1>2. CASE ScanStep \/ PurgeExpired \/ \E a \in Attempts, f \in Findings : AddGraphRecords(a, f)
  BY <1>2, StoragePage
<1>3. CASE \E r \in Requests : ReadPage(r) \/ FindScan(r) \/ ReadRows(r) \/ RequestFails(r)
  BY <1>3, ReadingPage
<1>4. CASE RefreshGraph \/ LoadMoreGraph
  BY <1>4, SendingPage
<1>5. CASE \E r \in Requests : ApplyRefresh(r) \/ ApplyMore(r) \/ ApplyFailure(r)
  BY <1>5, RefreshPage, MorePage, FailurePage
<1>6. QED
  BY <1>1, <1>2, <1>3, <1>4, <1>5 DEF Next

-------------------------------------------------------------------------------
(* What a page owes.  The stored evidence grows under the offsets, so a    *)
(* record only moves back: one that was not shown is still to come.        *)

\* A view has shown what it owes, or a further page will.
OwesView(v, g) ==
  v.loaded => \A k \in Kinds : \A i \in v.owed[k] : i \in g[k] /\ Shown(v, k, i, g)

\* A further page that is to be merged goes on where the view ends.
OwesPage(v, q, g) ==
  \A k \in Kinds : \A i \in q.owed[k] :
    /\ i \in g[k]
    /\ q.kind = "refresh" => q.from = Start /\ Reaches(q, k, i, g)
    /\ v.loaded /\ q.kind = "more" /\ i \in v.owed[k] =>
         /\ q.from = v.next /\ (v.loading \/ v.error)
         /\ i \in v.rows[k] \/ Reaches(q, k, i, g)

\* The page was asked for by the view and owes the same.
SharesDebt(v, q) ==
  v.loaded /\ q.kind = "more" /\ \E k \in Kinds : \E i \in v.owed[k] : i \in q.owed[k]

OwedInv ==
  ~deleted =>
    /\ OwesView(view, graph)
    /\ \A r \in Requests : OwesPage(view, requests[r], graph)
    /\ \A q, r \in Requests :
         SharesDebt(view, requests[q]) /\ SharesDebt(view, requests[r]) => q = r

LEMMA NothingOwed ==
  ASSUME NEW v, NEW q, q.owed = NoRows, NEW g
  PROVE  OwesPage(v, q, g) /\ ~SharesDebt(v, q)
  BY NothingRead DEF OwesPage, SharesDebt

\* What a request that goes on owes, it keeps owing.
LEMMA DebtKept ==
  ASSUME NEW v, NEW q, NEW p, Keeps(q, p)
  PROVE  /\ OwesPage(v, q, graph) => OwesPage(v, p, graph)
         /\ SharesDebt(v, p) => SharesDebt(v, q)
<1>1. CASE p.owed = NoRows
  BY <1>1, NothingOwed
<1>2. CASE p.owed = q.owed
  <2>1. \A k \in Kinds : \A i : Reaches(p, k, i, graph) <=> Reaches(q, k, i, graph)
    BY DEF Keeps, Reaches, Shown, HasRead
  <2>2. QED
    BY <1>2, <2>1 DEF Keeps, OwesPage, SharesDebt
<1>3. QED
  BY <1>1, <1>2 DEF Keeps

\* A view that shows the same rows owes the same, and so does what it asked for.
SameRows(v, w) ==
  /\ w.loaded = v.loaded /\ w.rows = v.rows /\ w.next = v.next /\ w.more = v.more
  /\ w.owed = v.owed /\ (v.loading \/ v.error => w.loading \/ w.error)

LEMMA ViewKept ==
  ASSUME NEW v, NEW w, SameRows(v, w), NEW q
  PROVE  /\ OwesView(v, graph) => OwesView(w, graph)
         /\ OwesPage(v, q, graph) => OwesPage(w, q, graph)
         /\ SharesDebt(w, q) => SharesDebt(v, q)
  BY DEF SameRows, OwesView, OwesPage, SharesDebt, Shown

LEMMA ReadingOwed ==
  ASSUME PageInv, OwedInv, NEW r \in Requests,
         ReadPage(r) \/ FindScan(r) \/ ReadRows(r) \/ RequestFails(r)
  PROVE  OwedInv'
<1>1. UNCHANGED <<graph, deleted, view>> /\ PageTyped
  BY DEF ReadPage, FindScan, ReadRows, RequestFails, storedVars, PageInv
<1> SUFFICES ASSUME ~deleted PROVE OwedInv'
  BY <1>1 DEF OwedInv
<1>2. /\ OwesView(view, graph)
      /\ \A p \in Requests : OwesPage(view, requests[p], graph)
      /\ \A p, s \in Requests : SharesDebt(view, requests[p]) /\ SharesDebt(view, requests[s]) => p = s
  BY DEF OwedInv
<1>3. \E p : /\ requests' = [requests EXCEPT ![r] = p]
             /\ OwesPage(view, p, graph) /\ (SharesDebt(view, p) => SharesDebt(view, requests[r]))
  <2>1. CASE RequestFails(r)
    <3> DEFINE p == [Idle EXCEPT !.pc = "failed", !.kind = requests[r].kind, !.latest = requests[r].latest]
    <3>1. p.owed = NoRows
      BY DEF Idle
    <3>2. requests' = [requests EXCEPT ![r] = p]
      BY <2>1 DEF RequestFails
    <3> HIDE DEF p
    <3>3. QED
      BY <3>1, <3>2, NothingOwed
  <2>2. CASE ReadPage(r) \/ FindScan(r) \/ ReadRows(r)
    <3>1. PICK p : ReadsOn(requests[r], p) /\ requests' = [requests EXCEPT ![r] = p]
      BY <1>1, <2>2, ReadingStep
    <3>2. OwesPage(view, p, graph)
      BY <1>2, <3>1 DEF OwesPage, ReadsOn
    <3>3. SharesDebt(view, p) => SharesDebt(view, requests[r])
      BY <3>1 DEF SharesDebt, ReadsOn
    <3>4. QED
      BY <3>1, <3>2, <3>3
  <2>3. QED
    BY <2>1, <2>2
<1>4. PICK p : /\ requests' = [requests EXCEPT ![r] = p]
               /\ OwesPage(view, p, graph) /\ (SharesDebt(view, p) => SharesDebt(view, requests[r]))
  BY <1>3
<1>5. \A s \in Requests : requests'[s] = IF s = r THEN p ELSE requests[s]
  BY <1>1, <1>4 DEF PageTyped
<1>6. \A s \in Requests : /\ OwesPage(view, requests'[s], graph)
                          /\ SharesDebt(view, requests'[s]) => SharesDebt(view, requests[s])
  BY <1>2, <1>4, <1>5
<1>7. QED
  BY <1>1, <1>2, <1>6 DEF OwedInv

\* A first page owes what is stored now; a further one what the view owes.
LEMMA SendingOwed ==
  ASSUME PageInv, OwedInv, RefreshGraph \/ LoadMoreGraph
  PROVE  OwedInv'
<1>1. /\ UNCHANGED <<graph, deleted>> /\ PageTyped /\ FiniteGraph
      /\ view \in ViewRecord /\ view' = [view EXCEPT !.loading = TRUE]
  BY DEF RefreshGraph, LoadMoreGraph, storedVars, PageInv, PageTyped
<1>2. SameRows(view, view')
  BY <1>1 DEF SameRows, ViewRecord
<1> SUFFICES ASSUME ~deleted PROVE OwedInv'
  BY <1>1 DEF OwedInv
<1>3. /\ OwesView(view', graph)
      /\ \A p \in Requests : OwesPage(view', requests[p], graph)
      /\ \A p \in Requests : SharesDebt(view', requests[p]) => SharesDebt(view, requests[p])
      /\ \A p, s \in Requests : SharesDebt(view, requests[p]) /\ SharesDebt(view, requests[s]) => p = s
  BY <1>2, ViewKept DEF OwedInv
<1>4. CASE RefreshGraph
  <2> DEFINE ended == Terminal(record)
             q == [Idle EXCEPT !.pc = "sent", !.latest = TRUE, !.fresh = ended, !.owed = graph]
  <2>1. ended \in BOOLEAN /\ graph \in [Kinds -> SUBSET Nat]
    BY <1>1 DEF Terminal, FiniteGraph
  <2>2. Send(q)
    BY <1>4 DEF RefreshGraph
  <2> HIDE DEF ended
  <2>3. /\ q \in RequestRecord /\ q.pc = "sent" /\ q.kind = "refresh" /\ q.from = Start
        /\ q.owed = graph
    BY <2>1, NothingRead DEF Idle, RequestRecord
  <2> HIDE DEF q
  <2>4. PICK r \in Requests :
          /\ requests'[r] = q
          /\ \A p \in Requests : p # r => Keeps(requests[p], requests'[p])
    BY <1>1, <2>2, <2>3, Sent
  <2>5. OwesPage(view', q, graph)
    <3>1. ASSUME NEW k \in Kinds, NEW i \in graph[k]
          PROVE  Reaches(q, k, i, graph)
      <4>1. graph[k] \in SUBSET Nat /\ IsFiniteSet(graph[k])
        BY <1>1 DEF FiniteGraph
      <4>2. Place(graph[k], i) \in Nat
        BY <4>1, PlaceGrows
      <4>3. ~HasRead(q, k) /\ q.from[k] = 0
        BY <2>3 DEF HasRead, Start
      <4>4. QED
        BY <4>2, <4>3 DEF Reaches
    <3>2. QED
      BY <2>3, <3>1 DEF OwesPage
  <2>6. ~SharesDebt(view', q)
    BY <2>3 DEF SharesDebt
  <2>7. \A p \in Requests : /\ OwesPage(view', requests'[p], graph)
                            /\ SharesDebt(view', requests'[p]) => SharesDebt(view, requests[p])
    BY <1>3, <2>4, <2>5, <2>6, DebtKept
  <2>8. QED
    BY <1>1, <1>3, <2>7 DEF OwedInv
<1>5. CASE LoadMoreGraph
  <2> DEFINE q == [Idle EXCEPT !.pc = "sent", !.kind = "more", !.from = view.next,
                               !.fresh = view.fresh, !.owed = view.owed]
  <2>1. /\ q \in RequestRecord /\ q.pc = "sent" /\ q.kind = "more" /\ q.from = view.next
        /\ q.owed = view.owed
    BY <1>1, NothingRead DEF Idle, RequestRecord, ViewRecord
  <2>2. Send(q) /\ view.loaded /\ ~view.error /\ ~view.loading
    BY <1>5 DEF LoadMoreGraph
  <2> HIDE DEF q
  <2>3. PICK r \in Requests :
          /\ requests'[r] = q
          /\ \A p \in Requests : p # r => Keeps(requests[p], requests'[p])
    BY <1>1, <2>1, <2>2, Sent
  <2>4. OwesPage(view', q, graph)
    <3>1. /\ view'.loaded /\ view'.loading /\ view'.next = view.next /\ view'.owed = view.owed
          /\ view'.rows = view.rows
      BY <1>1, <2>2 DEF ViewRecord
    <3>2. ASSUME NEW k \in Kinds, NEW i \in view.owed[k]
          PROVE  i \in graph[k] /\ (i \in view.rows[k] \/ Reaches(q, k, i, graph))
      <4>1. i \in graph[k] /\ Shown(view, k, i, graph)
        BY <2>2 DEF OwedInv, OwesView
      <4>2. ~HasRead(q, k)
        BY <2>1 DEF HasRead, Kinds
      <4>3. QED
        BY <2>1, <4>1, <4>2 DEF Reaches, Shown
    <3>3. QED
      BY <2>1, <3>1, <3>2 DEF OwesPage
  <2>5. \A p \in Requests : ~SharesDebt(view, requests[p])
    BY <2>2 DEF OwedInv, OwesPage, SharesDebt
  <2>6. \A p \in Requests : p # r => ~SharesDebt(view', requests'[p])
    BY <1>3, <2>3, <2>5, DebtKept
  <2>7. \A p \in Requests : OwesPage(view', requests'[p], graph)
    BY <1>3, <2>3, <2>4, DebtKept
  <2>8. QED
    BY <1>1, <1>3, <2>6, <2>7 DEF OwedInv
<1>6. QED
  BY <1>4, <1>5

LEMMA ApplyingOwed ==
  ASSUME PageInv, OwedInv, NEW r \in Requests,
         ApplyRefresh(r) \/ ApplyMore(r) \/ ApplyFailure(r)
  PROVE  OwedInv'
<1> DEFINE q == requests[r]
<1>1. /\ UNCHANGED <<graph, deleted>> /\ PageTyped /\ q \in RequestRecord /\ view \in ViewRecord
  BY DEF ApplyRefresh, ApplyMore, ApplyFailure, storedVars, PageInv, PageTyped
<1> SUFFICES ASSUME ~deleted PROVE OwedInv'
  BY <1>1 DEF OwedInv
<1>2. /\ OwesView(view, graph)
      /\ \A p \in Requests : OwesPage(view, requests[p], graph)
      /\ \A p, s \in Requests : SharesDebt(view, requests[p]) /\ SharesDebt(view, requests[s]) => p = s
  BY DEF OwedInv
<1>3. Idle.owed = NoRows /\ \A v : OwesPage(v, Idle, graph) /\ ~SharesDebt(v, Idle)
  BY NothingRead, NothingOwed
<1>4. ASSUME SameRows(view, view'), requests' = [requests EXCEPT ![r] = Idle]
      PROVE  OwedInv'
  <2>1. \A p \in Requests : requests'[p] = Idle \/ requests'[p] = requests[p]
    BY <1>1, <1>4 DEF PageTyped
  <2>2. \A p \in Requests : /\ OwesPage(view', requests'[p], graph)
                            /\ SharesDebt(view', requests'[p]) => SharesDebt(view, requests[p])
    BY <1>2, <1>3, <1>4, <2>1, ViewKept
  <2>3. OwesView(view', graph)
    BY <1>2, <1>4, ViewKept
  <2>4. QED
    BY <1>1, <1>2, <2>2, <2>3 DEF OwedInv
<1>5. ASSUME ~view'.loaded,
             \A p \in Requests : requests'[p] = Idle \/ requests'[p] = requests[p]
      PROVE  OwedInv'
  <2>1. OwesView(view', graph)
    BY <1>5 DEF OwesView
  <2>2. \A p \in Requests : OwesPage(view', requests'[p], graph) /\ ~SharesDebt(view', requests'[p])
    BY <1>2, <1>3, <1>5 DEF OwesPage, SharesDebt
  <2>3. QED
    BY <1>1, <2>1, <2>2 DEF OwedInv
<1>6. CASE ApplyFailure(r)
  <2>1. requests' = [requests EXCEPT ![r] = Idle]
    BY <1>6 DEF ApplyFailure
  <2>2. \A p \in Requests : requests'[p] = Idle \/ requests'[p] = requests[p]
    BY <1>1, <2>1 DEF PageTyped
  <2>3. CASE view' = [NoView EXCEPT !.loading = FALSE, !.error = TRUE]
    BY <1>5, <2>2, <2>3 DEF NoView
  <2>4. CASE view' = [view EXCEPT !.loading = FALSE, !.error = TRUE] \/ UNCHANGED view
    <3>1. SameRows(view, view')
      BY <1>1, <2>4 DEF SameRows, ViewRecord
    <3>2. QED
      BY <1>4, <2>1, <3>1
  <2>5. QED
    BY <1>6, <2>3, <2>4 DEF ApplyFailure
<1>7. CASE ApplyMore(r)
  <2>1. q.pc = "answered" /\ q.kind = "more"
    BY <1>7 DEF ApplyMore
  <2>2. CASE view.loaded /\ requests' = [requests EXCEPT ![r] = Idle] /\
             view' = [view EXCEPT !.loading = FALSE, !.error = FALSE,
                        !.rows = [k \in Kinds |-> @[k] \cup requests[r].rows[k]],
                        !.next = requests[r].next, !.more = requests[r].more,
                        !.fresh = @ /\ requests[r].fresh,
                        !.owed = [k \in Kinds |-> @[k] \cap requests[r].owed[k]]]
    <3>1. /\ view'.loaded /\ view'.next = q.next /\ view'.more = q.more
          /\ \A k \in Kinds : view'.rows[k] = view.rows[k] \cup q.rows[k]
          /\ \A k \in Kinds : view'.owed[k] = view.owed[k] \cap q.owed[k]
      BY <1>1, <2>2 DEF ViewRecord
    <3>2. \A p \in Requests : requests'[p] = IF p = r THEN Idle ELSE requests[p]
      BY <1>1, <2>2 DEF PageTyped
    <3>3. OwesView(view', graph)
      <4> SUFFICES ASSUME NEW k \in Kinds, NEW i \in view.owed[k], i \in q.owed[k]
                   PROVE  i \in graph[k] /\ Shown(view', k, i, graph)
        BY <3>1 DEF OwesView
      <4>1. i \in graph[k] /\ (i \in view.rows[k] \/ Reaches(q, k, i, graph))
        BY <1>2, <2>1, <2>2 DEF OwesPage
      <4>2. HasRead(q, k)
        BY <2>1 DEF HasRead
      <4>3. QED
        BY <3>1, <4>1, <4>2 DEF Reaches, Shown
    <3>4. ASSUME NEW p \in Requests, p # r
          PROVE  ~SharesDebt(view', requests[p])
      <4> SUFFICES ASSUME SharesDebt(view', requests[p]) PROVE FALSE
        OBVIOUS
      <4>1. SharesDebt(view, requests[p]) /\ SharesDebt(view, q)
        BY <2>1, <2>2, <3>1 DEF SharesDebt
      <4>2. QED
        BY <1>2, <3>4, <4>1
    <3>5. \A p \in Requests : p # r => OwesPage(view', requests[p], graph)
      BY <1>2, <3>4 DEF OwesPage, SharesDebt
    <3>6. QED
      BY <1>1, <1>3, <3>2, <3>3, <3>4, <3>5 DEF OwedInv
  <2>3. CASE requests' = [p \in Requests |-> Idle] /\ view' = [NoView EXCEPT !.crashed = TRUE]
    <3>1. ~view'.loaded
      BY <2>3 DEF NoView
    <3>2. QED
      BY <1>5, <2>3, <3>1
  <2>4. QED
    BY <1>7, <2>2, <2>3 DEF ApplyMore
<1>8. CASE ApplyRefresh(r)
  <2>1. q.pc = "answered" /\ q.kind = "refresh"
    BY <1>8 DEF ApplyRefresh
  <2>2. CASE UNCHANGED view /\ requests' = [requests EXCEPT ![r] = Idle]
    <3>1. SameRows(view, view')
      BY <2>2 DEF SameRows
    <3>2. QED
      BY <1>4, <2>2, <3>1
  <2>3. CASE /\ view' = [view EXCEPT !.loaded = TRUE, !.loading = FALSE, !.error = FALSE,
                           !.rows = requests[r].rows, !.next = requests[r].next,
                           !.more = requests[r].more, !.fresh = requests[r].fresh,
                           !.owed = requests[r].owed]
             /\ requests' = [p \in Requests |->
                  IF p = r THEN Idle
                  ELSE IF requests[p].kind = "refresh" THEN requests[p]
                  ELSE [requests[p] EXCEPT !.fresh = FALSE, !.owed = NoRows]]
    <3>1. view'.loaded /\ view'.rows = q.rows /\ view'.next = q.next /\ view'.more = q.more /\ view'.owed = q.owed
      BY <1>1, <2>3 DEF ViewRecord
    <3>2. OwesView(view', graph)
      <4> SUFFICES ASSUME NEW k \in Kinds, NEW i \in q.owed[k]
                   PROVE  i \in graph[k] /\ Shown(view', k, i, graph)
        BY <3>1 DEF OwesView
      <4>1. i \in graph[k] /\ Reaches(q, k, i, graph)
        BY <1>2, <2>1 DEF OwesPage
      <4>2. HasRead(q, k)
        BY <2>1 DEF HasRead
      <4>3. QED
        BY <3>1, <4>1, <4>2 DEF Reaches, Shown
    <3>3. ASSUME NEW p \in Requests
          PROVE  OwesPage(view', requests'[p], graph) /\ ~SharesDebt(view', requests'[p])
      <4>1. CASE p = r
        BY <1>3, <2>3, <4>1
      <4>2. CASE p # r /\ requests[p].kind = "refresh"
        BY <1>2, <2>3, <4>2 DEF OwesPage, SharesDebt
      <4>3. CASE p # r /\ requests[p].kind # "refresh"
        <5>1. requests[p] \in RequestRecord
          BY <1>1 DEF PageTyped
        <5>2. requests'[p].owed = NoRows
          BY <2>3, <4>3, <5>1 DEF RequestRecord
        <5>3. QED
          BY <5>2, NothingOwed
      <4>4. QED
        BY <4>1, <4>2, <4>3
    <3>4. QED
      BY <1>1, <3>2, <3>3 DEF OwedInv
  <2>4. QED
    BY <1>8, <2>2, <2>3 DEF ApplyRefresh
<1>9. QED
  BY <1>6, <1>7, <1>8

\* New records only push others back.
LEMMA GrowthOwed ==
  ASSUME PageInv, OwedInv, PageInv', UNCHANGED <<pageVars, deleted>>,
         \A k \in Kinds : graph[k] \subseteq graph'[k]
  PROVE  OwedInv'
<1> SUFFICES ASSUME ~deleted PROVE OwedInv'
  BY DEF OwedInv
<1>1. UNCHANGED <<view, requests>> /\ view \in ViewRecord /\ requests \in [Requests -> RequestRecord]
  BY DEF pageVars, PageInv, PageTyped
<1>2. ASSUME NEW k \in Kinds, NEW i \in graph[k]
      PROVE  i \in graph'[k] /\ \A n \in Nat : n <= Place(graph[k], i) => n <= Place(graph'[k], i)
  <2>1. graph'[k] \in SUBSET Nat /\ IsFiniteSet(graph'[k]) /\ graph[k] \in SUBSET graph'[k] /\ i \in Nat
    BY DEF PageInv, PageTyped, FiniteGraph
  <2>2. Place(graph[k], i) <= Place(graph'[k], i) /\ Place(graph[k], i) \in Nat /\ Place(graph'[k], i) \in Nat
    BY <2>1, PlaceRises
  <2>3. QED
    BY <2>1, <2>2
<1>3. OwesView(view, graph')
  <2>1. \A k \in Kinds : view.next[k] \in Nat
    BY <1>1 DEF ViewRecord
  <2>2. QED
    BY <1>2, <2>1 DEF OwedInv, OwesView, Shown
<1>4. ASSUME NEW r \in Requests
      PROVE  OwesPage(view, requests[r], graph')
  <2> DEFINE q == requests[r]
  <2>1. \A k \in Kinds : q.next[k] \in Nat /\ q.from[k] \in Nat
    BY <1>1 DEF RequestRecord
  <2>2. \A k \in Kinds : \A i \in graph[k] : Reaches(q, k, i, graph) => Reaches(q, k, i, graph')
    BY <1>2, <2>1 DEF Reaches, Shown
  <2>3. OwesPage(view, q, graph)
    BY DEF OwedInv
  <2>4. QED
    BY <1>2, <2>2, <2>3 DEF OwesPage
<1>5. QED
  BY <1>1, <1>3, <1>4 DEF OwedInv

LEMMA OwedInit == Init => OwedInv
<1> SUFFICES ASSUME Init PROVE OwedInv
  OBVIOUS
<1>1. \A p \in Requests : requests[p].owed = NoRows
  BY NothingRead DEF Init, Idle
<1>2. ~view.loaded
  BY NothingRead DEF Init
<1>3. QED
  BY <1>1, <1>2, NothingOwed DEF OwedInv, OwesView

LEMMA OwedStep == PageInv /\ OwedInv /\ [Next]_vars => OwedInv'
<1> SUFFICES ASSUME PageInv, OwedInv, [Next]_vars PROVE OwedInv'
  OBVIOUS
<1>1. PageInv'
  BY PageStep
<1>2. CASE ScanStep \/ ShowEnd \/ UNCHANGED vars
  <2>1. UNCHANGED <<graph, deleted, view, requests>>
    BY <1>2 DEF ScanStep, ShowEnd, vars, storedVars, pageVars
  <2>2. QED
    BY <2>1 DEF OwedInv
<1>3. CASE PurgeExpired
  BY <1>3 DEF PurgeExpired, OwedInv
<1>4. ASSUME NEW a \in Attempts, NEW f \in Findings, AddGraphRecords(a, f)
      PROVE  OwedInv'
  <2>1. UNCHANGED <<pageVars, deleted>> /\ \A k \in Kinds : graph[k] \subseteq graph'[k]
    BY <1>4 DEF AddGraphRecords, Upserted
  <2>2. QED
    BY <1>1, <2>1, GrowthOwed
<1>5. CASE \E r \in Requests : ReadPage(r) \/ FindScan(r) \/ ReadRows(r) \/ RequestFails(r)
  BY <1>5, ReadingOwed
<1>6. CASE RefreshGraph \/ LoadMoreGraph
  BY <1>6, SendingOwed
<1>7. CASE \E r \in Requests : ApplyRefresh(r) \/ ApplyMore(r) \/ ApplyFailure(r)
  BY <1>7, ApplyingOwed
<1>8. QED
  BY <1>2, <1>3, <1>4, <1>5, <1>6, <1>7 DEF Next

-------------------------------------------------------------------------------
(* Theorems *)

\* Every stored edge and provenance record has its stored nodes: the records
\* build_finding_records derives are added together.
THEOREM EvidenceAnchored == Spec => []Anchored
<1>1. EvidenceInv => Anchored
  BY DEF EvidenceInv
<1>2. QED
  BY <1>1, EvidenceInit, EvidenceStep, PTL DEF Spec

\* A deleted scan has no evidence, however late its worker writes: the two purges.
THEOREM DeletedForGood == Spec => []NothingOfDeleted
<1>1. EvidenceInv => NothingOfDeleted
  BY DEF EvidenceInv
<1>2. QED
  BY <1>1, EvidenceInit, EvidenceStep, PTL DEF Spec

\* A view refreshed since the end that offers no further page shows the whole stored
\* evidence, in whatever order pages were asked for, cut and answered: graph_for_scan
\* and the page's refreshGraph and loadMoreGraph.
THEOREM FreshViewIsAll == Spec => []FreshViewComplete
<1>1. PageInv => FreshViewComplete
  <2> SUFFICES ASSUME PageInv, view.loaded, view.fresh, ~view.more, ~deleted
               PROVE  view.rows = graph
    BY DEF FreshViewComplete
  <2>1. view.rows \in [Kinds -> SUBSET Nat] /\ view.next \in [Kinds -> Nat] /\ FiniteGraph
    BY DEF PageInv, PageTyped, ViewRecord
  <2>2. ASSUME NEW k \in Kinds PROVE view.rows[k] = graph[k]
    <3>1. view.rows[k] = Before(graph[k], view.next[k]) /\ Cardinality(graph[k]) <= view.next[k]
      BY DEF PageInv, FreshInv, ViewFits
    <3>2. graph[k] \in SUBSET Nat /\ IsFiniteSet(graph[k]) /\ view.next[k] \in Nat
      BY <2>1 DEF FiniteGraph
    <3>3. QED
      BY <3>1, <3>2, AllBefore
  <2>3. QED
    BY <2>1, <2>2 DEF FiniteGraph
<1>2. QED
  BY <1>1, PageInit, PageStep, PTL DEF Spec

\* Evidence stored while a reader pages through it moves no record past the offsets: a
\* view that offers no further page shows whatever was stored when its first page was
\* asked for, unless a page cut for another view was merged into it. The cursor of
\* get_graph in both stores.
THEOREM NothingLeftOut == Spec => []NothingPassedOver
<1>1. OwedInv => NothingPassedOver
  BY DEF OwedInv, OwesView, Shown, NothingPassedOver
<1>2. QED
  BY <1>1, PageInit, PageStep, OwedInit, OwedStep, PTL DEF Spec

\* A view of final evidence gives way to an older answer only where a page that was
\* loaded for another view is merged into it: graphRequestVersion, which refreshGraph
\* compares and loadMoreGraph does not.
THEOREM FreshViewKept == Spec => FreshViewStays
<1> DEFINE Kept == view.fresh /\ view'.loaded =>
             \/ view'.fresh
             \/ \E r \in Requests : /\ requests[r].pc = "answered" /\ requests[r].kind = "more"
                                    /\ requests'[r] = Idle
<1>1. PageInv /\ [Next]_vars => [Kept]_vars
  <2> SUFFICES ASSUME PageInv, [Next]_vars, view.fresh, view'.loaded, ~view'.fresh
               PROVE  \E r \in Requests : /\ requests[r].pc = "answered" /\ requests[r].kind = "more"
                                          /\ requests'[r] = Idle
    OBVIOUS
  <2>1. view \in ViewRecord /\ requests \in [Requests -> RequestRecord] /\ OrderInv
    BY DEF PageInv, PageTyped
  <2>2. view' # view
    OBVIOUS
  <2>3. ~(ScanStep \/ PurgeExpired \/ ShowEnd \/ UNCHANGED vars)
    BY <2>2 DEF ScanStep, PurgeExpired, ShowEnd, vars, pageVars
  <2>4. \A a \in Attempts, f \in Findings : ~AddGraphRecords(a, f)
    BY <2>2 DEF AddGraphRecords, pageVars
  <2>5. \A r \in Requests : ~(ReadPage(r) \/ FindScan(r) \/ ReadRows(r) \/ RequestFails(r))
    BY <2>2 DEF ReadPage, FindScan, ReadRows, RequestFails
  <2>6. ~(RefreshGraph \/ LoadMoreGraph)
    <3>1. RefreshGraph \/ LoadMoreGraph => view' = [view EXCEPT !.loading = TRUE]
      BY DEF RefreshGraph, LoadMoreGraph
    <3>2. view' = [view EXCEPT !.loading = TRUE] => view'.fresh = view.fresh
      BY <2>1 DEF ViewRecord
    <3>3. QED
      BY <3>1, <3>2
  <2>7. PICK r \in Requests : ApplyRefresh(r) \/ ApplyMore(r) \/ ApplyFailure(r)
    BY <2>3, <2>4, <2>5, <2>6 DEF Next
  <2>8. CASE ApplyMore(r)
    <3>1. requests'[r] = Idle
      BY <2>1, <2>8 DEF ApplyMore
    <3>2. QED
      BY <2>8, <3>1 DEF ApplyMore
  <2>9. CASE ApplyRefresh(r)
    <3>1. requests[r].latest /\ requests[r].pc = "answered"
      BY <2>2, <2>9 DEF ApplyRefresh
    <3>2. requests[r].fresh
      BY <2>1, <3>1 DEF OrderInv
    <3>3. view'.fresh = requests[r].fresh
      BY <2>1, <2>2, <2>9 DEF ApplyRefresh, ViewRecord
    <3>4. QED
      BY <3>2, <3>3
  <2>10. CASE ApplyFailure(r)
    <3>1. view' = [NoView EXCEPT !.loading = FALSE, !.error = TRUE] => ~view'.loaded
      BY DEF NoView
    <3>2. view' = [view EXCEPT !.loading = FALSE, !.error = TRUE] => view'.fresh = view.fresh
      BY <2>1 DEF ViewRecord
    <3>3. QED
      BY <2>2, <2>10, <3>1, <3>2 DEF ApplyFailure
  <2>11. QED
    BY <2>7, <2>8, <2>9, <2>10
<1>2. QED
  BY <1>1, PageInit, PageStep, PTL DEF Spec, FreshViewStays
===============================================================================
