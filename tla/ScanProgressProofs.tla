--------------------------- MODULE ScanProgressProofs ---------------------------
(***************************************************************************)
(* ScanProgress, for any number of events, connections and requests: the   *)
(* limiter counts the running generators, the page does not leave a final  *)
(* state, a stream that sent the end of the scan is over, and a            *)
(* subscription gets every event once and in order.                        *)
(***************************************************************************)
EXTENDS ScanProgress, FiniteSetTheorems, TLAPS

-------------------------------------------------------------------------------
(* The slots.                                                              *)
Live == {s \in Streams : streams[s].pc = "live"}

IsStream(stream) ==
  DOMAIN stream = {"pc", "attached", "sent", "terminal", "resume", "wire"}

StreamsTyped ==
  /\ DOMAIN streams = Streams /\ streams = [s \in Streams |-> streams[s]]
  /\ \A s \in Streams : IsStream(streams[s])

SlotsInv == StreamsTyped /\ SlotsMatch

LEMMA ClosedStream == IsStream(Closed) /\ Closed.pc = "closed"
  BY DEF Closed, IsStream

\* One connection changes, to one that is no longer live.
LEMMA StreamEndsLive ==
  ASSUME SlotsInv, NEW s \in Streams, streams[s].pc = "live", NEW stream,
         IsStream(stream), stream.pc # "live",
         streams' = [streams EXCEPT ![s] = stream], slots' = slots - 1
  PROVE  SlotsInv'
<1>1. StreamsTyped' /\ streams'[s].pc # "live" /\ \A q \in Streams : q # s => streams'[q] = streams[q]
  BY DEF SlotsInv, StreamsTyped
<1>2. Live' = Live \ {s} /\ s \in Live
  BY <1>1 DEF Live
<1>3. IsFiniteSet(Live)
  BY FS_Subset, ProgressAssumption DEF Live
<1>4. Cardinality(Live') = Cardinality(Live) - 1
  BY <1>2, <1>3, FS_RemoveElement
<1>5. slots = Cardinality(Live) /\ slots \in Nat /\ slots <= MaxStreams
  BY <1>3, FS_CardinalityType DEF SlotsInv, SlotsMatch, Live
<1>6. slots' = Cardinality(Live') /\ slots' <= MaxStreams
  BY <1>4, <1>5, ProgressAssumption
<1>7. QED
  BY <1>1, <1>6 DEF SlotsInv, SlotsMatch, Live

\* One connection becomes live.
LEMMA StreamStartsLive ==
  ASSUME SlotsInv, NEW s \in Streams, streams[s].pc # "live", NEW stream,
         IsStream(stream), stream.pc = "live", slots < MaxStreams,
         streams' = [streams EXCEPT ![s] = stream], slots' = slots + 1
  PROVE  SlotsInv'
<1>1. StreamsTyped' /\ streams'[s].pc = "live" /\ \A q \in Streams : q # s => streams'[q] = streams[q]
  BY DEF SlotsInv, StreamsTyped
<1>2. Live' = Live \cup {s} /\ s \notin Live
  BY <1>1 DEF Live
<1>3. IsFiniteSet(Live)
  BY FS_Subset, ProgressAssumption DEF Live
<1>4. Cardinality(Live') = Cardinality(Live) + 1
  BY <1>2, <1>3, FS_AddElement
<1>5. slots = Cardinality(Live) /\ slots \in Nat /\ slots <= MaxStreams
  BY <1>3, FS_CardinalityType DEF SlotsInv, SlotsMatch, Live
<1>6. slots' = Cardinality(Live') /\ slots' <= MaxStreams
  BY <1>4, <1>5, ProgressAssumption
<1>7. QED
  BY <1>1, <1>6 DEF SlotsInv, SlotsMatch, Live

\* Connections change, but none begins or ends to be live.
LEMMA SameLive ==
  ASSUME SlotsInv, slots' = slots, StreamsTyped',
         \A s \in Streams : streams'[s].pc = "live" <=> streams[s].pc = "live"
  PROVE  SlotsInv'
<1>1. Live' = Live
  BY DEF Live
<1>2. QED
  BY <1>1 DEF SlotsInv, SlotsMatch, Live

LEMMA SameStreams ==
  ASSUME SlotsInv, slots' = slots, streams' = streams
  PROVE  SlotsInv'
  BY DEF SlotsInv, SlotsMatch, StreamsTyped

LEMMA EndedStream ==
  ASSUME NEW stream, IsStream(stream)
  PROVE  IsStream(Ended(stream)) /\ Ended(stream).pc # "live"
  BY ClosedStream DEF Ended, IsStream

LEMMA DetachedStreams ==
  ASSUME SlotsInv, slots' = slots, streams' = Detached
  PROVE  SlotsInv'
<1>1. ASSUME NEW s \in Streams
      PROVE  IsStream(Detached[s]) /\ (Detached[s].pc = "live" <=> streams[s].pc = "live")
  BY ClosedStream DEF Detached, SlotsInv, StreamsTyped, IsStream
<1>2. StreamsTyped'
  BY <1>1 DEF StreamsTyped, Detached
<1>3. QED
  BY <1>1, <1>2, SameLive

LEMMA SlotsInit == Init => SlotsInv
<1> SUFFICES ASSUME Init PROVE SlotsInv
  OBVIOUS
<1>1. StreamsTyped /\ \A s \in Streams : streams[s].pc # "live"
  BY ClosedStream DEF Init, StreamsTyped
<1>2. Live = {}
  BY <1>1 DEF Live
<1>3. QED
  BY <1>1, <1>2, FS_EmptySet, ProgressAssumption DEF Init, SlotsInv, SlotsMatch, Live

\* The API's end of a connection.
LEMMA GeneratorSlots ==
  ASSUME SlotsInv, NEW s \in Streams, Poll(s) \/ HangUp(s) \/ Expires(s)
  PROVE  SlotsInv'
<1>1. streams[s].pc = "live" /\ IsStream(streams[s])
  BY DEF Poll, HangUp, Expires, SlotsInv, StreamsTyped
<1>2. CASE Poll(s)
  <2> DEFINE polled == [streams[s] EXCEPT
                          !.sent = Skipped(s) \cup log, !.terminal = Terminal(s),
                          !.wire = IF streams[s].attached THEN @ \o Pending(s) ELSE @]
  <2>1. IsStream(polled) /\ polled.pc = "live"
    BY <1>1 DEF IsStream
  <2>2. \/ streams' = [streams EXCEPT ![s] = Ended(polled)] /\ slots' = slots - 1
        \/ streams' = [streams EXCEPT ![s] = polled] /\ slots' = slots
    BY <1>2 DEF Poll, Release
  <2> HIDE DEF polled
  <2>3. CASE streams' = [streams EXCEPT ![s] = Ended(polled)] /\ slots' = slots - 1
    BY <1>1, <2>1, <2>3, EndedStream, StreamEndsLive
  <2>4. CASE streams' = [streams EXCEPT ![s] = polled] /\ slots' = slots
    <3>1. StreamsTyped' /\ \A q \in Streams : streams'[q].pc = "live" <=> streams[q].pc = "live"
      BY <1>1, <2>1, <2>4 DEF SlotsInv, StreamsTyped
    <3>2. QED
      BY <2>4, <3>1, SameLive
  <2>5. QED
    BY <2>2, <2>3, <2>4
<1>3. CASE HangUp(s)
  BY <1>1, <1>3, ClosedStream, StreamEndsLive DEF HangUp, Release
<1>4. CASE Expires(s)
  BY <1>1, <1>4, EndedStream, StreamEndsLive DEF Expires, Release
<1>5. QED
  BY <1>2, <1>3, <1>4

\* The browser's end.
LEMMA ReaderSlots ==
  ASSUME SlotsInv, NEW s \in Streams, Connect(s) \/ StreamEnds(s) \/ Receive(s)
  PROVE  SlotsInv'
<1>1. IsStream(streams[s])
  BY DEF SlotsInv, StreamsTyped
<1>2. CASE Connect(s)
  <2> DEFINE opened == [Closed EXCEPT !.pc = "live", !.attached = TRUE, !.resume = sub.last,
                                      !.terminal = (scan.state = "ended")]
  <2>1. IsStream(opened) /\ opened.pc = "live"
    BY DEF Closed, IsStream
  <2>2. /\ streams[s].pc # "live" /\ slots < MaxStreams
        /\ streams' = [streams EXCEPT ![s] = opened] /\ slots' = slots + 1
    BY <1>2, ClosedStream DEF Connect
  <2> HIDE DEF opened
  <2>3. QED
    BY <2>1, <2>2, StreamStartsLive
<1>3. CASE StreamEnds(s)
  <2>1. StreamsTyped' /\ \A q \in Streams : streams'[q].pc = "live" <=> streams[q].pc = "live"
    BY <1>3, ClosedStream DEF StreamEnds, SlotsInv, StreamsTyped
  <2>2. QED
    BY <1>3, <2>1, SameLive DEF StreamEnds
<1>4. CASE Receive(s)
  <2> DEFINE read == [streams[s] EXCEPT !.wire = Tail(@)]
  <2>1. IsStream(read) /\ read.pc = streams[s].pc
    BY <1>1 DEF IsStream
  <2>2. streams' = [streams EXCEPT ![s] = read] /\ slots' = slots
    BY <1>4 DEF Receive
  <2> HIDE DEF read
  <2>3. StreamsTyped' /\ \A q \in Streams : streams'[q].pc = "live" <=> streams[q].pc = "live"
    BY <2>1, <2>2 DEF SlotsInv, StreamsTyped
  <2>4. QED
    BY <2>2, <2>3, SameLive
<1>5. QED
  BY <1>2, <1>3, <1>4

LEMMA ShowSlots ==
  ASSUME SlotsInv, slots' = slots, NEW state, Show(state)
  PROVE  SlotsInv'
  BY DetachedStreams, SameStreams DEF Show

LEMMA SlotsStep == SlotsInv /\ [Next]_vars => SlotsInv'
<1> SUFFICES ASSUME SlotsInv, [Next]_vars PROVE SlotsInv'
  OBVIOUS
<1>1. CASE \E kind \in Kinds : Write(kind) \/ Stamp(kind) \/ Commit(kind)
  BY <1>1, SameStreams DEF Write, Stamp, Commit, Record
<1>2. CASE ConnectFails \/ Drop
  BY <1>2, SameStreams, DetachedStreams DEF ConnectFails, Drop
<1>3. CASE \/ Timer \/ TryAgain \/ CancelScan \/ AnswerCancel
           \/ \E r \in Requests : Answer(r) \/ RequestFails(r)
  BY <1>3, SameStreams DEF Timer, TryAgain, CancelScan, AnswerCancel, Answer, RequestFails
<1>4. CASE ApplyCancel \/ \E r \in Requests : Apply(r)
  BY <1>4, ShowSlots, SameStreams DEF ApplyCancel, Apply
<1>5. CASE UNCHANGED vars
  BY <1>5, SameStreams DEF vars
<1>6. QED
  BY <1>1, <1>2, <1>3, <1>4, <1>5, GeneratorSlots, ReaderSlots DEF Next

-------------------------------------------------------------------------------
(* The page.                                                               *)
Request == [pc : {"idle", "sent", "answered"}, answer : State, latest : BOOLEAN]

\* An answer with the end is true, also when it arrives late; and of the answers
\* that may still be shown, none is older than a shown end.
ViewInv ==
  /\ requests \in [Requests -> Request] /\ reply \in Request
  /\ scan \in [state : State, cancel : BOOLEAN]
  /\ \A q, r \in Requests : requests[q].latest /\ requests[r].latest => q = r
  /\ \A r \in Requests :
       requests[r].pc = "answered" /\ requests[r].answer = "ended" => scan.state = "ended"
  /\ reply.pc = "answered" /\ reply.answer = "ended" => scan.state = "ended"
  /\ shown = "ended" =>
       /\ scan.state = "ended"
       /\ \A r \in Requests :
            requests[r].pc = "answered" /\ requests[r].latest => requests[r].answer = "ended"

ViewKeeps == shown = "ended" => shown' = "ended" \/ (reply.pc = "answered" /\ reply' = Idle)

IdleSent == [Idle EXCEPT !.pc = "sent", !.latest = TRUE]

LEMMA IdleRequest ==
  /\ Idle \in Request /\ Idle.pc = "idle" /\ ~Idle.latest
  /\ IdleSent \in Request /\ IdleSent.pc = "sent"
  BY DEF Idle, IdleSent, Request, State

\* The end of a scan is for ever.
LEMMA EndStays ==
  ASSUME scan \in [state : State, cancel : BOOLEAN], NEW kind \in Kinds, May(kind)
  PROVE  /\ After(kind) \in [state : State, cancel : BOOLEAN]
         /\ scan.state = "ended" => After(kind).state = "ended"
<1>1. CASE kind = "claim"
  <2>1. scan.state = "queued" /\ After(kind) = [scan EXCEPT !.state = "running"]
    BY <1>1, Zenon DEF May, After
  <2>2. QED
    BY <2>1 DEF State
<1>2. CASE kind = "recover"
  <2>1. scan.state = "running" /\ After(kind) = [scan EXCEPT !.state = "queued"]
    BY <1>2, Zenon DEF May, After
  <2>2. QED
    BY <2>1 DEF State
<1>3. CASE kind = "request"
  <2>1. After(kind) = [scan EXCEPT !.cancel = TRUE]
    BY <1>3, Zenon DEF After
  <2>2. QED
    BY <2>1 DEF State
<1>4. CASE kind = "progress"
  <2>1. After(kind) = scan
    BY <1>4, Zenon DEF After
  <2>2. QED
    BY <2>1
<1>5. CASE kind \in {"finish", "acknowledge"}
  <2>1. After(kind) = [scan EXCEPT !.state = "ended"]
    BY <1>5, Zenon DEF After
  <2>2. QED
    BY <2>1 DEF State
<1>6. QED
  BY <1>1, <1>2, <1>3, <1>4, <1>5 DEF Kinds

LEMMA StoreView ==
  ASSUME ViewInv, \E kind \in Kinds : Write(kind) \/ Stamp(kind) \/ Commit(kind)
  PROVE  ViewInv' /\ ViewKeeps
<1>1. PICK kind \in Kinds : Write(kind) \/ Stamp(kind) \/ Commit(kind)
  OBVIOUS
<1>2. UNCHANGED pageVars /\ (scan' = scan \/ (May(kind) /\ scan' = After(kind)))
  BY <1>1 DEF Write, Stamp, Commit, Record
<1>3. scan' \in [state : State, cancel : BOOLEAN] /\ (scan.state = "ended" => scan'.state = "ended")
  BY <1>2, EndStays DEF ViewInv
<1>4. QED
  BY <1>2, <1>3 DEF ViewInv, ViewKeeps, pageVars

\* A refresh: no answer to an earlier one is shown any more.
LEMMA RefreshView ==
  ASSUME requests \in [Requests -> Request], Refresh
  PROVE  /\ requests' \in [Requests -> Request]
         /\ \A q, r \in Requests : requests'[q].latest /\ requests'[r].latest => q = r
         /\ \A r \in Requests : requests'[r].pc = "answered" =>
              requests[r].pc = "answered" /\ requests'[r].answer = requests[r].answer
         /\ \A r \in Requests : ~(requests'[r].pc = "answered" /\ requests'[r].latest)
<1>1. PICK r \in Requests :
        requests' = [q \in Requests |->
          IF q = r THEN IdleSent ELSE [requests[q] EXCEPT !.latest = FALSE]]
  BY DEF Refresh, IdleSent
<1>2. \A q \in Requests : q # r =>
        /\ requests'[q] \in Request /\ ~requests'[q].latest
        /\ requests'[q].pc = requests[q].pc /\ requests'[q].answer = requests[q].answer
  BY <1>1 DEF Request
<1>3. requests'[r] = IdleSent
  BY <1>1
<1>4. QED
  BY <1>1, <1>2, <1>3, IdleRequest

LEMMA ViewInit == Init => ViewInv
<1> SUFFICES ASSUME Init PROVE ViewInv
  OBVIOUS
<1>1. \E r : requests = [q \in Requests |-> IF q = r THEN IdleSent ELSE Idle]
  BY DEF Init, IdleSent
<1>2. scan \in [state : State, cancel : BOOLEAN] /\ scan.state = "queued"
  BY DEF Init, State
<1>3. reply \in Request /\ reply.pc = "idle" /\ shown # "ended"
  BY IdleRequest DEF Init
<1>4. QED
  BY <1>1, <1>2, <1>3, IdleRequest DEF ViewInv

LEMMA ViewStep == ViewInv /\ [Next]_vars => ViewInv' /\ ViewKeeps
<1> SUFFICES ASSUME ViewInv, [Next]_vars PROVE ViewInv' /\ ViewKeeps
  OBVIOUS
<1> USE DEF storeVars
<1>1. CASE \E s \in Streams : Poll(s) \/ HangUp(s) \/ Expires(s) \/ Connect(s) \/ StreamEnds(s)
  BY <1>1 DEF Poll, HangUp, Expires, Connect, StreamEnds, pageVars, ViewInv, ViewKeeps
<1>2. CASE ConnectFails \/ Drop \/ UNCHANGED vars
  BY <1>2 DEF ConnectFails, Drop, vars, pageVars, ViewInv, ViewKeeps
<1>3. CASE Timer \/ TryAgain \/ \E s \in Streams : Receive(s)
  <2>1. Refresh /\ UNCHANGED <<scan, shown, reply>>
    BY <1>3 DEF Timer, TryAgain, Receive
  <2>2. QED
    BY <2>1, RefreshView DEF ViewInv, ViewKeeps
<1>4. ASSUME NEW r \in Requests, Answer(r) PROVE ViewInv' /\ ViewKeeps
  <2>1. /\ requests'[r] \in Request /\ requests'[r].pc = "answered"
        /\ requests'[r].answer = scan.state /\ requests'[r].latest = requests[r].latest
        /\ \A q \in Requests : q # r => requests'[q] = requests[q]
        /\ requests' \in [Requests -> Request]
    BY <1>4 DEF Answer, ViewInv, Request
  <2>2. QED
    BY <1>4, <2>1 DEF Answer, ViewInv, ViewKeeps
<1>5. ASSUME NEW r \in Requests, Apply(r) PROVE ViewInv' /\ ViewKeeps
  <2>1. /\ requests' \in [Requests -> Request] /\ requests'[r].pc = "idle" /\ ~requests'[r].latest
        /\ \A q \in Requests : q # r => requests'[q] = requests[q]
        /\ UNCHANGED <<scan, reply>> /\ requests[r].pc = "answered"
    BY <1>5, IdleRequest DEF Apply, ViewInv
  <2>2. (requests[r].latest /\ shown' = requests[r].answer) \/ shown' = shown
    BY <1>5 DEF Apply, Show
  <2>3. QED
    BY <2>1, <2>2 DEF ViewInv, ViewKeeps
<1>6. ASSUME NEW r \in Requests, RequestFails(r) PROVE ViewInv' /\ ViewKeeps
  <2>1. /\ requests' \in [Requests -> Request] /\ requests'[r].pc = "idle" /\ ~requests'[r].latest
        /\ \A q \in Requests : q # r => requests'[q] = requests[q]
        /\ UNCHANGED <<scan, shown, reply>>
    BY <1>6, IdleRequest DEF RequestFails, ViewInv
  <2>2. QED
    BY <2>1 DEF ViewInv, ViewKeeps
<1>7. CASE CancelScan
  <2>1. reply' \in Request /\ reply'.pc = "sent" /\ UNCHANGED <<scan, shown, requests>>
    BY <1>7 DEF CancelScan, Idle, Request, State
  <2>2. QED
    BY <2>1 DEF ViewInv, ViewKeeps
<1>8. CASE AnswerCancel
  <2>1. /\ reply' \in Request /\ reply'.pc = "answered" /\ reply'.answer = scan.state
        /\ UNCHANGED <<scan, shown, requests>>
    BY <1>8 DEF AnswerCancel, ViewInv, Request
  <2>2. QED
    BY <2>1 DEF ViewInv, ViewKeeps
<1>9. CASE ApplyCancel
  <2>1. /\ reply.pc = "answered" /\ reply' = Idle /\ shown' = reply.answer /\ Refresh
        /\ UNCHANGED scan
    BY <1>9 DEF ApplyCancel, Show
  <2>2. QED
    BY <2>1, RefreshView, IdleRequest DEF ViewInv, ViewKeeps
<1>10. QED
  BY <1>1, <1>2, <1>3, <1>4, <1>5, <1>6, <1>7, <1>8, <1>9, StoreView DEF Next

-------------------------------------------------------------------------------
(* Events in order.                                                        *)
Place(events, e) == Cardinality({d \in events : d < e})

\* A later event has more events before it.
LEMMA PlaceGrows ==
  ASSUME NEW events \in SUBSET Nat, IsFiniteSet(events), NEW d \in events, NEW e \in events
  PROVE  /\ Place(events, e) \in 0..(Cardinality(events) - 1)
         /\ d < e => Place(events, d) < Place(events, e)
<1> DEFINE Before(x) == {c \in events : c < x}
<1>1. \A x \in events :
        /\ IsFiniteSet(Before(x)) /\ Cardinality(Before(x)) \in Nat
        /\ IsFiniteSet(Before(x) \cup {x})
        /\ Cardinality(Before(x) \cup {x}) = Cardinality(Before(x)) + 1
  <2> TAKE x \in events
  <2>1. IsFiniteSet(Before(x)) /\ x \notin Before(x)
    BY FS_Subset
  <2> HIDE DEF Before
  <2>2. QED
    BY <2>1, FS_AddElement, FS_CardinalityType
<1>2. Cardinality(Before(e) \cup {e}) <= Cardinality(events) /\ Cardinality(events) \in Nat
  <2>1. Before(e) \cup {e} \in SUBSET events
    OBVIOUS
  <2>2. QED
    BY <2>1, FS_Subset, FS_CardinalityType
<1>3. d < e => Cardinality(Before(d) \cup {d}) <= Cardinality(Before(e))
  <2>1. d < e => \A c \in Before(d) \cup {d} : c \in events /\ c < e
    OBVIOUS
  <2>2. d < e => Before(d) \cup {d} \in SUBSET Before(e)
    BY <2>1
  <2>3. IsFiniteSet(Before(e))
    BY <1>1
  <2> HIDE DEF Before
  <2>4. QED
    BY <2>2, <2>3, FS_Subset
<1> HIDE DEF Before
<1>4. Cardinality(Before(d)) = Place(events, d) /\ Cardinality(Before(e)) = Place(events, e)
  BY DEF Before, Place
<1>5. QED
  BY <1>1, <1>2, <1>3, <1>4

\* Every place is taken.
LEMMA PlacesTaken ==
  ASSUME NEW events \in SUBSET Nat, IsFiniteSet(events),
         NEW i \in 0..(Cardinality(events) - 1)
  PROVE  \E e \in events : Place(events, e) = i
<1> DEFINE n == Cardinality(events)
           place == [e \in events |-> Place(events, e)]
<1>1. n \in Nat /\ n # 0
  BY FS_CardinalityType
<1>2. IsFiniteSet(0..(n - 1)) /\ Cardinality(0..(n - 1)) = n
  BY <1>1, FS_Interval
<1>3. place \in [events -> 0..(n - 1)]
  BY PlaceGrows
<1>4. ASSUME NEW d \in events, NEW e \in events, place[d] = place[e]
      PROVE  d = e
  <2>1. ~(d < e) /\ ~(e < d)
    BY <1>4, PlaceGrows
  <2>2. QED
    BY <2>1
<1>5. place \in Injection(events, 0..(n - 1))
  BY <1>3, <1>4 DEF Injection, IsInjective
<1> HIDE DEF place
<1>6. place \in Surjection(events, 0..(n - 1))
  BY <1>2, <1>5, FS_Injection
<1>7. QED
  BY <1>6 DEF Surjection, place

\* The listing of a finite set of events has each of them once, the earlier first.
LEMMA Listed ==
  ASSUME NEW events \in SUBSET Nat, IsFiniteSet(events)
  PROVE  /\ Cardinality(events) \in Nat
         /\ InOrder(events) \in [1..Cardinality(events) -> events]
         /\ \A i, j \in 1..Cardinality(events) : i < j => InOrder(events)[i] < InOrder(events)[j]
<1> DEFINE n == Cardinality(events)
           seq == [i \in 1..n |-> CHOOSE e \in events : Place(events, e) = i - 1]
<1>1. n \in Nat
  BY FS_CardinalityType
<1>2. \A i \in 1..n : seq[i] \in events /\ Place(events, seq[i]) = i - 1
  <2> TAKE i \in 1..n
  <2>1. \E e \in events : Place(events, e) = i - 1
    BY <1>1, PlacesTaken
  <2>2. QED
    BY <2>1
<1>3. seq \in [1..n -> events]
  BY <1>2
<1> HIDE DEF seq
<1>4. \A i, j \in 1..n : i < j => seq[i] < seq[j]
  <2> SUFFICES ASSUME NEW i \in 1..n, NEW j \in 1..n, i < j PROVE seq[i] < seq[j]
    OBVIOUS
  <2>1. Place(events, seq[i]) < Place(events, seq[j])
    BY <1>1, <1>2
  <2>2. seq[i] \in events /\ seq[j] \in events /\ seq[i] \in Nat /\ seq[j] \in Nat
    BY <1>2
  <2>3. seq[j] < seq[i] => Place(events, seq[j]) < Place(events, seq[i])
    BY <2>2, PlaceGrows
  <2>4. Place(events, seq[i]) \in Nat /\ Place(events, seq[j]) \in Nat
    BY <1>1, <1>2
  <2>5. QED
    <3> HIDE DEF n
    <3>1. Place(events, seq[i]) # Place(events, seq[j]) /\ ~(Place(events, seq[j]) < Place(events, seq[i]))
      BY <2>1, <2>4
    <3>2. QED
      BY <2>2, <2>3, <3>1
<1>5. QED
  BY <1>1, <1>3, <1>4 DEF InOrder

LEMMA ListedAll ==
  ASSUME NEW events \in SUBSET Nat, IsFiniteSet(events), NEW e \in events
  PROVE  \E i \in 1..Cardinality(events) : InOrder(events)[i] = e
<1> DEFINE n == Cardinality(events)
           seq == InOrder(events)
<1>1. n \in Nat /\ seq \in [1..n -> events] /\ \A i, j \in 1..n : i < j => seq[i] < seq[j]
  BY Listed
<1>2. IsFiniteSet(1..n) /\ Cardinality(1..n) = n
  BY <1>1, FS_Interval
<1> HIDE DEF n, seq
<1>3. ASSUME NEW i \in 1..n, NEW j \in 1..n, seq[i] = seq[j]
      PROVE  i = j
  <2>1. seq[i] \in Nat /\ (i < j => seq[i] < seq[j]) /\ (j < i => seq[j] < seq[i])
    BY <1>1
  <2>2. QED
    BY <1>1, <1>3, <2>1
<1>4. seq \in Injection(1..n, events)
  BY <1>1, <1>3 DEF Injection, IsInjective
<1>5. seq \in Surjection(1..n, events)
  BY <1>2, <1>4, FS_Injection DEF n
<1>6. QED
  BY <1>5 DEF Surjection, n, seq

\* The numbers after m, up to n.
CountsUp(seq, m, n) ==
  seq \in Seq(Nat) /\ Len(seq) = n - m /\ \A i \in 1..(n - m) : seq[i] = m + i

\* Distinct numbers of an interval are no more than the interval has.
LEMMA IntervalHolds ==
  ASSUME NEW f, NEW a \in Nat, NEW b \in Nat, NEW c \in Nat, NEW d \in Nat,
         a <= b + 1, c <= d + 1, f \in [a..b -> c..d],
         \A i, j \in a..b : i < j => f[i] < f[j]
  PROVE  b - a <= d - c
<1>1. ASSUME NEW i \in a..b, NEW j \in a..b, f[i] = f[j]
      PROVE  i = j
  <2>1. f[i] \in Nat /\ (i < j => f[i] < f[j]) /\ (j < i => f[j] < f[i])
    OBVIOUS
  <2>2. QED
    BY <1>1, <2>1
<1>2. f \in Injection(a..b, c..d)
  BY <1>1 DEF Injection, IsInjective
<1>3. IsFiniteSet(c..d) /\ Cardinality(c..d) = d - c + 1
  BY FS_Interval
<1>4. Cardinality(a..b) = b - a + 1
  BY FS_Interval
<1>5. Cardinality(a..b) <= Cardinality(c..d)
  BY <1>2, <1>3, FS_Injection
<1>6. QED
  BY <1>3, <1>4, <1>5

LEMMA ListedInterval ==
  ASSUME NEW m \in Nat, NEW n \in Nat, m <= n
  PROVE  CountsUp(InOrder((m + 1)..n), m, n)
<1> DEFINE events == (m + 1)..n
           seq == InOrder(events)
<1>1. events \in SUBSET Nat /\ IsFiniteSet(events) /\ Cardinality(events) = n - m
  <2>1. m + 1 \in Int /\ n \in Int /\ events \in SUBSET Nat
    OBVIOUS
  <2>2. IsFiniteSet(events) /\ Cardinality(events) = IF m + 1 > n THEN 0 ELSE n - (m + 1) + 1
    BY <2>1, FS_Interval
  <2>3. QED
    BY <2>1, <2>2
<1> HIDE DEF events
<1>2. /\ seq \in [1..(n - m) -> events]
      /\ \A i, j \in 1..(n - m) : i < j => seq[i] < seq[j]
  BY <1>1, Listed
<1> HIDE DEF seq
<1>3. ASSUME NEW k \in 1..(n - m)
      PROVE  seq[k] = m + k
  <2>1. /\ seq[k] \in (m + 1)..n
        /\ \A i \in 1..(n - m) : seq[i] \in (m + 1)..n
        /\ \A i \in 1..(k - 1) : seq[i] < seq[k]
        /\ \A i \in (k + 1)..(n - m) : seq[k] < seq[i]
    BY <1>2 DEF events
  <2>2. k <= seq[k] - m
    <3> DEFINE before == [i \in 1..(k - 1) |-> seq[i]]
               low == m + 1
               high == seq[k] - 1
               last == k - 1
    <3>1. before \in [1..last -> low..high]
      BY <2>1
    <3>2. \A i, j \in 1..last : i < j => before[i] < before[j]
      BY <1>2
    <3>3. 1 \in Nat /\ last \in Nat /\ low \in Nat /\ high \in Nat /\ 1 <= last + 1 /\ low <= high + 1
      BY <2>1
    <3> HIDE DEF before, low, high, last
    <3>4. last - 1 <= high - low
      BY <3>1, <3>2, <3>3, IntervalHolds
    <3>5. QED
      BY <2>1, <3>4 DEF low, high, last
  <2>3. seq[k] <= m + k
    <3> DEFINE after == [i \in (k + 1)..(n - m) |-> seq[i]]
               first == k + 1
               last == n - m
               low == seq[k] + 1
    <3>1. after \in [first..last -> low..n]
      BY <2>1
    <3>2. \A i, j \in first..last : i < j => after[i] < after[j]
      BY <1>2
    <3>3. first \in Nat /\ last \in Nat /\ low \in Nat /\ first <= last + 1 /\ low <= n + 1
      BY <2>1
    <3> HIDE DEF after, first, last, low
    <3>4. last - first <= n - low
      BY <3>1, <3>2, <3>3, IntervalHolds
    <3>5. QED
      BY <2>1, <3>4 DEF first, last, low
  <2>4. QED
    BY <2>1, <2>2, <2>3
<1>4. seq \in Seq(Nat) /\ Len(seq) = n - m
  <2>1. n - m \in Nat /\ seq \in [1..(n - m) -> Nat]
    BY <1>2 DEF events
  <2>2. QED
    BY <2>1
<1>5. QED
  BY <1>3, <1>4 DEF CountsUp, seq, events

\* A sequence that counts up is the listing of what it counts.
LEMMA CountListed ==
  ASSUME NEW seq, NEW n \in Nat, CountsUp(seq, 0, n)
  PROVE  seq = InOrder(1..n)
<1>1. CountsUp(InOrder(1..n), 0, n)
  <2>1. CountsUp(InOrder((0 + 1)..n), 0, n)
    BY ListedInterval
  <2>2. (0 + 1)..n = 1..n
    OBVIOUS
  <2>3. QED
    BY <2>1, <2>2
<1>2. QED
  BY <1>1 DEF CountsUp

-------------------------------------------------------------------------------
(* The log.                                                                *)

\* A stamp is used once; the scan's end has its event; and an event that is
\* stored with its stamp is the last one.
EventsInv ==
  /\ stamped \in BOOLEAN /\ clock \in Nat \ {0} /\ log \in SUBSET (1..clock)
  /\ drafts \in [Kinds -> 0..clock]
  /\ \A k \in Kinds : drafts[k] # 0 => stamped /\ drafts[k] \notin log
  /\ \A j, k \in Kinds : drafts[j] = drafts[k] /\ drafts[k] # 0 => j = k
  /\ scan \in [state : State, cancel : BOOLEAN]
  /\ scan.state = "ended" => final \in log
  /\ scan.state # "ended" => final = 0
  /\ ~stamped => log = 1..clock /\ (final # 0 => final = clock)

\* What a reader of the log may rely on.
LogGrows ==
  /\ stamped' = stamped /\ log \subseteq log' /\ clock <= clock'
  /\ final' = final \/ final' \notin log

LEMMA MayNotEnded ==
  ASSUME NEW kind \in Kinds, May(kind)
  PROVE  scan.state # "ended"
<1>1. CASE kind = "claim"
  <2>1. scan.state = "queued"
    BY <1>1, Zenon DEF May
  <2>2. QED
    BY <2>1
<1>2. CASE kind \in {"request", "acknowledge"}
  BY <1>2 DEF May
<1>3. CASE kind \in {"recover", "progress", "finish"}
  <2>1. scan.state = "running"
    BY <1>3 DEF May
  <2>2. QED
    BY <2>1
<1>4. QED
  BY <1>1, <1>2, <1>3 DEF Kinds

\* Which kinds end the scan.
LEMMA AfterEnded ==
  ASSUME scan \in [state : State, cancel : BOOLEAN], NEW kind \in Kinds, May(kind)
  PROVE  After(kind).state = "ended" <=> kind \in {"finish", "acknowledge"}
<1>1. scan.state # "ended"
  BY MayNotEnded
<1>2. CASE kind = "claim"
  <2>1. After(kind) = [scan EXCEPT !.state = "running"]
    BY <1>2, Zenon DEF After
  <2>2. QED
    BY <1>2, <2>1
<1>3. CASE kind = "recover"
  <2>1. After(kind) = [scan EXCEPT !.state = "queued"]
    BY <1>3, Zenon DEF After
  <2>2. QED
    BY <1>3, <2>1
<1>4. CASE kind = "request"
  <2>1. After(kind) = [scan EXCEPT !.cancel = TRUE]
    BY <1>4, Zenon DEF After
  <2>2. QED
    BY <1>1, <1>4, <2>1
<1>5. CASE kind = "progress"
  <2>1. After(kind) = scan
    BY <1>5, Zenon DEF After
  <2>2. QED
    BY <1>1, <1>5, <2>1
<1>6. CASE kind \in {"finish", "acknowledge"}
  <2>1. After(kind) = [scan EXCEPT !.state = "ended"]
    BY <1>6, Zenon DEF After
  <2>2. QED
    BY <1>6, <2>1
<1>7. QED
  BY <1>2, <1>3, <1>4, <1>5, <1>6 DEF Kinds

LEMMA EventsInit == Init => EventsInv
<1> SUFFICES ASSUME Init PROVE EventsInv
  OBVIOUS
<1>1. scan \in [state : State, cancel : BOOLEAN] /\ scan.state = "queued"
  BY DEF Init, State
<1>2. log = {1} /\ clock = 1 /\ final = 0 /\ stamped \in BOOLEAN /\ drafts = [kind \in Kinds |-> 0]
  BY DEF Init
<1>3. QED
  BY <1>1, <1>2 DEF EventsInv

\* An event is recorded under its stamp.
LEMMA RecordEvents ==
  ASSUME EventsInv, NEW kind \in Kinds, NEW e \in Nat \ {0}, May(kind), Record(kind, e), e \notin log
  PROVE  /\ scan' \in [state : State, cancel : BOOLEAN]
         /\ scan'.state = "ended" => final' \in log'
         /\ scan'.state # "ended" => final' = 0
         /\ final' = e \/ final' = 0
         /\ log' = log \cup {e} /\ final' \notin log /\ final = 0
<1>1. scan' = After(kind) /\ scan.state # "ended" /\ final = 0
  BY MayNotEnded DEF Record, EventsInv
<1>2. scan' \in [state : State, cancel : BOOLEAN]
  BY <1>1, EndStays DEF EventsInv
<1>3. scan'.state = "ended" <=> kind \in {"finish", "acknowledge"}
  BY <1>1, AfterEnded DEF EventsInv
<1>4. log' = log \cup {e} /\ final' = IF kind \in {"finish", "acknowledge"} THEN e ELSE final
  BY DEF Record
<1>5. 0 \notin log
  BY DEF EventsInv
<1>6. QED
  BY <1>1, <1>2, <1>3, <1>4, <1>5

LEMMA StoreEvents ==
  ASSUME EventsInv, NEW kind \in Kinds, Write(kind) \/ Stamp(kind) \/ Commit(kind)
  PROVE  EventsInv' /\ LogGrows
<1>1. CASE Write(kind)
  <2>1. /\ ~stamped /\ stamped' = stamped /\ clock' = clock + 1 /\ May(kind) /\ Record(kind, clock + 1)
        /\ drafts' = drafts /\ clock + 1 \in Nat \ {0} /\ clock + 1 \notin log
    BY <1>1 DEF Write, Record, EventsInv
  <2>2. /\ scan' \in [state : State, cancel : BOOLEAN]
        /\ scan'.state = "ended" => final' \in log'
        /\ scan'.state # "ended" => final' = 0
        /\ final' = clock + 1 \/ final' = 0
        /\ log' = log \cup {clock + 1} /\ final' \notin log
    BY <2>1, RecordEvents
  <2>3. log' = 1..clock' /\ drafts' \in [Kinds -> 0..clock'] /\ clock' \in Nat \ {0}
    BY <2>1, <2>2 DEF EventsInv
  <2>4. QED
    BY <2>1, <2>2, <2>3 DEF EventsInv, LogGrows
<1>2. CASE Stamp(kind)
  <2>1. /\ stamped /\ stamped' = stamped /\ clock' = clock + 1
        /\ drafts' = [drafts EXCEPT ![kind] = clock + 1]
        /\ UNCHANGED <<scan, log, final>>
    BY <1>2 DEF Stamp
  <2>2. drafts' \in [Kinds -> 0..clock'] /\ log' \in SUBSET (1..clock') /\ clock' \in Nat \ {0}
    BY <2>1 DEF EventsInv
  <2>3. clock + 1 \notin log /\ \A k \in Kinds : drafts[k] # clock + 1
    BY DEF EventsInv
  <2>4. \A k \in Kinds : drafts'[k] = IF k = kind THEN clock + 1 ELSE drafts[k]
    BY <2>1 DEF EventsInv
  <2>5. \A j, k \in Kinds : drafts'[j] = drafts'[k] /\ drafts'[k] # 0 => j = k
    BY <2>3, <2>4 DEF EventsInv
  <2>6. QED
    BY <2>1, <2>2, <2>3, <2>4, <2>5 DEF EventsInv, LogGrows
<1>3. CASE Commit(kind)
  <2>1. /\ drafts[kind] # 0 /\ drafts' = [drafts EXCEPT ![kind] = 0] /\ UNCHANGED <<clock, stamped>>
        /\ \/ May(kind) /\ Record(kind, drafts[kind])
           \/ UNCHANGED <<scan, log, final>>
    BY <1>3 DEF Commit, Record
  <2>2. /\ drafts[kind] \in 1..clock /\ drafts[kind] \in Nat \ {0} /\ drafts[kind] \notin log /\ stamped
        /\ drafts' \in [Kinds -> 0..clock]
        /\ \A k \in Kinds : drafts'[k] # 0 => drafts'[k] = drafts[k] /\ drafts[k] # drafts[kind]
    BY <2>1 DEF EventsInv
  <2>3. CASE May(kind) /\ Record(kind, drafts[kind])
    <3>1. /\ scan' \in [state : State, cancel : BOOLEAN]
          /\ scan'.state = "ended" => final' \in log'
          /\ scan'.state # "ended" => final' = 0
          /\ log' = log \cup {drafts[kind]} /\ final' \notin log
      BY <2>2, <2>3, RecordEvents
    <3>2. log' \in SUBSET (1..clock) /\ log \subseteq log'
      BY <2>2, <3>1 DEF EventsInv
    <3>3. \A k \in Kinds : drafts'[k] # 0 => drafts'[k] \notin log'
      BY <2>2, <3>1 DEF EventsInv
    <3>4. \A j, k \in Kinds : drafts'[j] = drafts'[k] /\ drafts'[k] # 0 => j = k
      BY <2>2 DEF EventsInv
    <3>5. clock \in Nat \ {0} /\ clock' = clock /\ stamped' /\ stamped' \in BOOLEAN
      BY <2>1, <2>2 DEF EventsInv
    <3>6. EventsInv'
      BY <2>2, <3>1, <3>2, <3>3, <3>4, <3>5 DEF EventsInv
    <3>7. QED
      BY <2>1, <3>1, <3>2, <3>5, <3>6 DEF LogGrows
  <2>4. CASE UNCHANGED <<scan, log, final>>
    BY <2>1, <2>2, <2>4 DEF EventsInv, LogGrows
  <2>5. QED
    BY <2>1, <2>3, <2>4
<1>4. QED
  BY <1>1, <1>2, <1>3

\* No other step touches the store.
LEMMA ReadersLeaveStore ==
  ASSUME [Next]_vars, ~(\E kind \in Kinds : Write(kind) \/ Stamp(kind) \/ Commit(kind))
  PROVE  UNCHANGED storeVars
<1>1. CASE \E s \in Streams : Poll(s) \/ HangUp(s) \/ Expires(s) \/ Connect(s) \/ StreamEnds(s) \/ Receive(s)
  BY <1>1 DEF Poll, HangUp, Expires, Connect, StreamEnds, Receive
<1>2. CASE ConnectFails \/ Drop \/ Timer \/ TryAgain \/ CancelScan \/ AnswerCancel \/ ApplyCancel
  BY <1>2 DEF ConnectFails, Drop, Timer, TryAgain, CancelScan, AnswerCancel, ApplyCancel
<1>3. CASE \E r \in Requests : Answer(r) \/ Apply(r) \/ RequestFails(r)
  BY <1>3 DEF Answer, Apply, RequestFails
<1>4. CASE UNCHANGED vars
  BY <1>4 DEF vars, storeVars
<1>5. QED
  BY <1>1, <1>2, <1>3, <1>4 DEF Next

LEMMA SameStore ==
  ASSUME EventsInv, UNCHANGED storeVars
  PROVE  EventsInv' /\ LogGrows
  BY DEF EventsInv, LogGrows, storeVars

LEMMA EventsStep == EventsInv /\ [Next]_vars => EventsInv' /\ LogGrows
  BY StoreEvents, ReadersLeaveStore, SameStore

\* What a stream has to send, in order.
LEMMA PendingListed ==
  ASSUME EventsInv, NEW s \in Streams
  PROVE  LET rest == log \ Skipped(s)
         IN  /\ rest \in SUBSET Nat /\ IsFiniteSet(rest)
             /\ Pending(s) \in Seq(rest) /\ Pending(s) \in Seq(log)
             /\ rest = {} <=> Pending(s) = <<>>
             /\ rest # {} => Last(Pending(s)) \in rest /\ \A e \in rest : e <= Last(Pending(s))
<1> DEFINE rest == log \ Skipped(s)
           n == Cardinality(rest)
           seq == InOrder(rest)
<1>1. rest \in SUBSET Nat /\ IsFiniteSet(rest) /\ rest \subseteq log
  <2>1. rest \subseteq log
    OBVIOUS
  <2>2. log \subseteq 1..clock /\ 1 \in Int /\ clock \in Int
    BY DEF EventsInv
  <2> HIDE DEF rest
  <2>3. IsFiniteSet(1..clock) /\ rest \in SUBSET (1..clock) /\ rest \in SUBSET Nat
    BY <2>1, <2>2, FS_Interval
  <2>4. QED
    BY <2>1, <2>3, FS_Subset
<1>2. Pending(s) = seq
  BY DEF Pending
<1> HIDE DEF rest
<1>3. /\ n \in Nat /\ seq \in [1..n -> rest] /\ seq \in Seq(rest) /\ Len(seq) = n
      /\ \A i, j \in 1..n : i < j => seq[i] < seq[j]
  <2>1. /\ n \in Nat /\ seq \in [1..n -> rest]
        /\ \A i, j \in 1..n : i < j => seq[i] < seq[j]
    BY <1>1, Listed
  <2> HIDE DEF seq, n
  <2>2. QED
    BY <2>1
<1>4. rest = {} <=> n = 0
  BY <1>1, FS_EmptySet
<1>5. \A e \in rest : \E i \in 1..n : seq[i] = e
  BY <1>1, ListedAll
<1> HIDE DEF n, seq
<1>6. rest = {} <=> seq = <<>>
  BY <1>3, <1>4
<1>7. ASSUME rest # {}
      PROVE  Last(seq) \in rest /\ \A e \in rest : e <= Last(seq)
  <2>1. n \in 1..n /\ Last(seq) = seq[n] /\ seq[n] \in rest /\ seq[n] \in Nat
    <3>1. n \in 1..n
      BY <1>3, <1>4, <1>7
    <3>2. QED
      BY <1>1, <1>3, <3>1 DEF Last
  <2>2. ASSUME NEW e \in rest
        PROVE  e <= seq[n]
    <3>1. PICK i \in 1..n : seq[i] = e
      BY <1>5
    <3>2. seq[i] \in Nat /\ (i < n => seq[i] < seq[n])
      BY <1>1, <1>3, <2>1
    <3>3. i < n \/ i = n
      BY <1>3
    <3>4. QED
      BY <2>1, <3>1, <3>2, <3>3
  <2>3. QED
    BY <2>1, <2>2
<1>8. seq \in Seq(log)
  <2>1. seq \in [1..n -> log] /\ n \in Nat
    BY <1>1, <1>3
  <2>2. QED
    BY <2>1
<1>9. QED
  BY <1>1, <1>2, <1>3, <1>6, <1>7, <1>8 DEF rest

-------------------------------------------------------------------------------
(* The readers.                                                            *)

\* A stream has sent what is in the log; it was not opened to resume behind the
\* end; and if it sent the end and goes on, a later event was listed with it.
OnLog(stream, events, end, late) ==
  /\ stream.wire \in Seq(events) /\ stream.sent \subseteq events
  /\ stream.resume \in events \cup {0}
  /\ stream.resume = 0 \/ stream.resume # end
  /\ stream.pc = "live" /\ end \in stream.sent => \E e \in events : late /\ e > end

IsSub(s) == DOMAIN s = {"pc", "last", "attempts", "got"}

ReaderInv ==
  /\ IsSub(sub) /\ sub.last \in log \cup {0}
  /\ sub.last = 0 \/ sub.last # final \/ sub.pc = "done"
  /\ \A s \in Streams : OnLog(streams[s], log, final, stamped)

\* What a reader knows stays true of a log that has grown.
LEMMA StillOnLog ==
  ASSUME LogGrows, NEW stream, OnLog(stream, log, final, stamped)
  PROVE  OnLog(stream, log', final', stamped')
<1>1. stream.wire \in Seq(log')
  <2>1. Seq(log) \subseteq Seq(log')
    BY DEF LogGrows
  <2>2. QED
    BY <2>1 DEF OnLog
<1>2. final' = final \/ (final' \notin stream.sent /\ (stream.resume = 0 \/ stream.resume # final'))
  BY DEF OnLog, LogGrows
<1>3. QED
  BY <1>1, <1>2 DEF OnLog, LogGrows

LEMMA ClosedOnLog ==
  ASSUME NEW events, NEW end, NEW late
  PROVE  OnLog(Closed, events, end, late)
  BY DEF OnLog, Closed

LEMMA EndedOnLog ==
  ASSUME NEW events, NEW end, NEW late, NEW stream, IsStream(stream),
         stream.wire \in Seq(events), stream.sent \subseteq events,
         stream.resume \in events \cup {0}, stream.resume = 0 \/ stream.resume # end
  PROVE  OnLog(Ended(stream), events, end, late)
<1>1. CASE stream.attached
  BY <1>1 DEF Ended, OnLog, IsStream
<1>2. CASE ~stream.attached
  BY <1>2, ClosedOnLog DEF Ended
<1>3. QED
  BY <1>1, <1>2

\* A poll that finds no reason to end the stream.
LEMMA PolledOn ==
  ASSUME EventsInv, NEW s \in Streams, IsStream(streams[s]),
         OnLog(streams[s], log, final, stamped), streams[s].pc = "live",
         ~Terminal(s), final \in Skipped(s) \cup log
  PROVE  \E e \in log : stamped /\ e > final
<1> DEFINE rest == log \ Skipped(s)
<1>1. /\ rest = {} <=> Pending(s) = <<>>
      /\ rest # {} => Last(Pending(s)) \in rest /\ \A e \in rest : e <= Last(Pending(s))
  BY PendingListed
<1>2. log \in SUBSET (1..clock) /\ clock \in Nat /\ Skipped(s) \subseteq log
  BY DEF EventsInv, OnLog, Skipped
<1>3. final \in log /\ \A e \in log : e \in Nat
  BY <1>2
<1>4. ASSUME NEW e \in log, e > final
      PROVE  stamped
  <2>1. e <= clock /\ e \in Nat /\ final \in Nat /\ final # 0
    BY <1>2, <1>3
  <2>2. QED
    BY <1>4, <2>1 DEF EventsInv
<1>5. CASE final \in rest
  <2>1. Last(Pending(s)) # final
    BY <1>1, <1>5 DEF Terminal
  <2>2. Last(Pending(s)) \in log /\ final <= Last(Pending(s))
    BY <1>1, <1>5
  <2>3. Last(Pending(s)) > final
    BY <1>3, <2>1, <2>2
  <2>4. QED
    BY <1>4, <2>2, <2>3
<1>6. CASE final \in Skipped(s)
  <2>1. CASE streams[s].sent = {} /\ streams[s].resume \in log
    <3>1. final <= streams[s].resume
      BY <1>6, <2>1 DEF Skipped
    <3>2. streams[s].resume # final
      BY <1>2, <2>1 DEF OnLog
    <3>3. streams[s].resume > final
      BY <1>3, <2>1, <3>1, <3>2
    <3>4. QED
      BY <1>4, <2>1, <3>3
  <2>2. CASE ~(streams[s].sent = {} /\ streams[s].resume \in log)
    BY <1>6, <2>2 DEF Skipped, OnLog
  <2>3. QED
    BY <2>1, <2>2
<1>7. QED
  BY <1>3, <1>5, <1>6

\* One stream changes.
LEMMA OneStream ==
  ASSUME StreamsTyped, ReaderInv, EventsInv, UNCHANGED storeVars, UNCHANGED sub,
         NEW s \in Streams, NEW stream, OnLog(stream, log, final, stamped),
         streams' = [streams EXCEPT ![s] = stream]
  PROVE  ReaderInv'
  BY DEF ReaderInv, StreamsTyped, storeVars

LEMMA GeneratorReads ==
  ASSUME StreamsTyped, EventsInv, ReaderInv, NEW s \in Streams, Poll(s) \/ HangUp(s) \/ Expires(s)
  PROVE  ReaderInv'
<1>1. IsStream(streams[s]) /\ OnLog(streams[s], log, final, stamped) /\ UNCHANGED <<storeVars, sub>>
  BY DEF ReaderInv, StreamsTyped, Poll, HangUp, Expires
<1>2. CASE Poll(s)
  <2> DEFINE polled == [streams[s] EXCEPT
                          !.sent = Skipped(s) \cup log, !.terminal = Terminal(s),
                          !.wire = IF streams[s].attached THEN @ \o Pending(s) ELSE @]
  <2>1. /\ IsStream(polled) /\ polled.pc = "live" /\ polled.sent = Skipped(s) \cup log
        /\ polled.wire = IF streams[s].attached THEN streams[s].wire \o Pending(s) ELSE streams[s].wire
        /\ polled.resume = streams[s].resume /\ streams[s].pc = "live"
    BY <1>1, <1>2 DEF IsStream, Poll
  <2>2. \/ Terminal(s) /\ streams' = [streams EXCEPT ![s] = Ended(polled)]
        \/ ~Terminal(s) /\ streams' = [streams EXCEPT ![s] = polled]
    BY <1>2 DEF Poll
  <2> HIDE DEF polled
  <2>3. Skipped(s) \cup log = log
    BY <1>1 DEF OnLog, Skipped
  <2>4. polled.wire \in Seq(log)
    <3>1. Pending(s) \in Seq(log) /\ streams[s].wire \in Seq(log)
      BY <1>1, PendingListed DEF OnLog
    <3>2. QED
      BY <2>1, <3>1
  <2>5. polled.resume \in log \cup {0} /\ (polled.resume = 0 \/ polled.resume # final) /\ polled.sent \subseteq log
    BY <1>1, <2>1, <2>3 DEF OnLog
  <2>6. CASE Terminal(s) /\ streams' = [streams EXCEPT ![s] = Ended(polled)]
    <3>1. OnLog(Ended(polled), log, final, stamped)
      BY <2>1, <2>4, <2>5, EndedOnLog
    <3>2. QED
      BY <1>1, <2>6, <3>1, OneStream
  <2>7. CASE ~Terminal(s) /\ streams' = [streams EXCEPT ![s] = polled]
    <3>1. final \in polled.sent => \E e \in log : stamped /\ e > final
      BY <1>1, <2>1, <2>7, PolledOn
    <3>2. OnLog(polled, log, final, stamped)
      BY <2>4, <2>5, <3>1 DEF OnLog
    <3>3. QED
      BY <1>1, <2>7, <3>2, OneStream
  <2>8. QED
    BY <2>2, <2>6, <2>7
<1>3. CASE HangUp(s)
  BY <1>1, <1>3, ClosedOnLog, OneStream DEF HangUp
<1>4. CASE Expires(s)
  <2>1. OnLog(Ended(streams[s]), log, final, stamped)
    <3>1. /\ streams[s].wire \in Seq(log) /\ streams[s].sent \subseteq log
          /\ streams[s].resume \in log \cup {0} /\ (streams[s].resume = 0 \/ streams[s].resume # final)
      BY <1>1 DEF OnLog
    <3>2. QED
      BY <1>1, <3>1, EndedOnLog
  <2>2. QED
    BY <1>1, <1>4, <2>1, OneStream DEF Expires
<1>5. QED
  BY <1>2, <1>3, <1>4

\* After a failed try the browser waits, or gives up.
LEMMA FailedSub ==
  ASSUME IsSub(sub), NEW permanent \in BOOLEAN
  PROVE  /\ IsSub(Failed(permanent)) /\ Failed(permanent).last = sub.last
         /\ Failed(permanent).got = sub.got
         /\ Failed(permanent).pc \in {"done", "waiting"}
  BY DEF IsSub, Failed

LEMMA DetachedOn ==
  ASSUME StreamsTyped, NEW s \in Streams, OnLog(streams[s], log, final, stamped)
  PROVE  OnLog(Detached[s], log, final, stamped)
<1>1. CASE streams[s].pc = "live"
  <2>1. Detached[s] = [streams[s] EXCEPT !.attached = FALSE, !.wire = <<>>]
    BY <1>1 DEF Detached
  <2>2. <<>> \in Seq(log) /\ IsStream(streams[s])
    BY DEF StreamsTyped
  <2>3. QED
    BY <2>1, <2>2 DEF OnLog, IsStream
<1>2. CASE streams[s].pc # "live"
  BY <1>2, ClosedOnLog DEF Detached
<1>3. QED
  BY <1>1, <1>2

LEMMA BrowserReads ==
  ASSUME StreamsTyped, EventsInv, ReaderInv, NEW s \in Streams,
         Connect(s) \/ StreamEnds(s) \/ Receive(s)
  PROVE  ReaderInv'
<1>1. IsStream(streams[s]) /\ OnLog(streams[s], log, final, stamped) /\ UNCHANGED storeVars
  BY DEF ReaderInv, StreamsTyped, Connect, StreamEnds, Receive
<1>2. CASE Connect(s)
  <2> DEFINE opened == [Closed EXCEPT !.pc = "live", !.attached = TRUE, !.resume = sub.last,
                                      !.terminal = (scan.state = "ended")]
  <2>1. sub.pc = "waiting" /\ sub' = [sub EXCEPT !.pc = "reading"] /\ streams' = [streams EXCEPT ![s] = opened]
    BY <1>2 DEF Connect
  <2>2. OnLog(opened, log, final, stamped)
    BY <2>1 DEF ReaderInv, OnLog, Closed
  <2> HIDE DEF opened
  <2>3. IsSub(sub') /\ sub'.last = sub.last /\ (sub.last = 0 \/ sub.last # final)
    BY <2>1 DEF ReaderInv, IsSub
  <2>4. QED
    BY <1>1, <2>1, <2>2, <2>3 DEF ReaderInv, StreamsTyped, storeVars
<1>3. CASE StreamEnds(s)
  <2>1. /\ sub.pc = "reading" /\ sub' = [Failed(FALSE) EXCEPT !.pc = "waiting"]
        /\ streams' = [streams EXCEPT ![s] = Closed]
    BY <1>3 DEF StreamEnds
  <2>2. IsSub(sub') /\ sub'.last = sub.last /\ (sub.last = 0 \/ sub.last # final)
    BY <2>1, FailedSub DEF ReaderInv, IsSub
  <2>3. QED
    BY <1>1, <2>1, <2>2, ClosedOnLog DEF ReaderInv, StreamsTyped, storeVars
<1>4. CASE Receive(s)
  <2> DEFINE e == Head(streams[s].wire)
             read == [streams[s] EXCEPT !.wire = Tail(@)]
  <2>1. /\ streams[s].wire # <<>> /\ streams' = [streams EXCEPT ![s] = read]
        /\ sub' = [sub EXCEPT !.last = e, !.attempts = 0, !.got = Append(@, e),
                              !.pc = IF e = final THEN "done" ELSE "reading"]
    BY <1>4 DEF Receive
  <2>2. e \in log /\ Tail(streams[s].wire) \in Seq(log)
    BY <1>1, <2>1 DEF OnLog
  <2>3. OnLog(read, log, final, stamped)
    BY <1>1, <2>2 DEF OnLog, IsStream
  <2> HIDE DEF e, read
  <2>4. IsSub(sub') /\ sub'.last = e /\ sub'.pc = IF e = final THEN "done" ELSE "reading"
    BY <2>1 DEF ReaderInv, IsSub
  <2>5. QED
    BY <1>1, <2>1, <2>2, <2>3, <2>4 DEF ReaderInv, StreamsTyped, storeVars
<1>5. QED
  BY <1>2, <1>3, <1>4

LEMMA ShowReads ==
  ASSUME StreamsTyped, EventsInv, ReaderInv, UNCHANGED storeVars, NEW state, Show(state)
  PROVE  ReaderInv'
<1>1. CASE UNCHANGED <<sub, streams>>
  BY <1>1 DEF ReaderInv, storeVars
<1>2. CASE /\ streams' = Detached
           /\ sub' = IF state = "ended" THEN [sub EXCEPT !.pc = "done"] ELSE Subscribed
  <2>1. /\ IsSub(sub') /\ sub'.last \in log \cup {0}
        /\ sub'.last = 0 \/ sub'.pc = "done"
    BY <1>2 DEF ReaderInv, IsSub, Subscribed
  <2>2. QED
    BY <1>2, <2>1, DetachedOn DEF ReaderInv, storeVars
<1>3. QED
  BY <1>1, <1>2 DEF Show

LEMMA ReaderInit == Init => ReaderInv
<1> SUFFICES ASSUME Init PROVE ReaderInv
  OBVIOUS
<1>1. IsSub(sub) /\ sub.last = 0
  BY DEF Init, IsSub, Subscribed
<1>2. \A s \in Streams : streams[s] = Closed
  BY DEF Init
<1>3. QED
  BY <1>1, <1>2, ClosedOnLog DEF ReaderInv

LEMMA ReaderStep == StreamsTyped /\ EventsInv /\ ReaderInv /\ [Next]_vars => ReaderInv'
<1> SUFFICES ASSUME StreamsTyped, EventsInv, ReaderInv, [Next]_vars PROVE ReaderInv'
  OBVIOUS
<1>1. CASE \E kind \in Kinds : Write(kind) \/ Stamp(kind) \/ Commit(kind)
  <2>1. LogGrows /\ UNCHANGED <<streams, sub>>
    BY <1>1, StoreEvents DEF Write, Stamp, Commit, Record
  <2>2. \A s \in Streams : OnLog(streams[s], log', final', stamped')
    BY <2>1, StillOnLog DEF ReaderInv
  <2>3. sub.last \in log' \cup {0} /\ (sub.last = 0 \/ sub.last # final' \/ sub.pc = "done")
    BY <2>1 DEF ReaderInv, LogGrows
  <2>4. QED
    BY <2>1, <2>2, <2>3 DEF ReaderInv
<1>2. CASE UNCHANGED storeVars
  <2>1. CASE ConnectFails
    BY <1>2, <2>1, FailedSub DEF ConnectFails, ReaderInv, storeVars
  <2>2. CASE Drop
    <3>1. sub.pc = "reading" /\ sub' = Failed(FALSE) /\ streams' = Detached
      BY <2>2 DEF Drop
    <3>2. IsSub(sub') /\ sub'.last = sub.last /\ (sub.last = 0 \/ sub.last # final)
      BY <3>1, FailedSub DEF ReaderInv
    <3>3. QED
      BY <1>2, <3>1, <3>2, DetachedOn DEF ReaderInv, storeVars
  <2>3. CASE \/ Timer \/ TryAgain \/ CancelScan \/ AnswerCancel
             \/ \E r \in Requests : Answer(r) \/ RequestFails(r)
    BY <1>2, <2>3 DEF Timer, TryAgain, CancelScan, AnswerCancel, Answer, RequestFails, ReaderInv, storeVars
  <2>4. CASE ApplyCancel \/ \E r \in Requests : Apply(r)
    <3>1. (\E state : Show(state)) \/ UNCHANGED <<streams, sub>>
      BY <2>4 DEF ApplyCancel, Apply
    <3>2. CASE UNCHANGED <<streams, sub>>
      BY <1>2, <3>2 DEF ReaderInv, storeVars
    <3>3. QED
      BY <1>2, <3>1, <3>2, ShowReads
  <2>5. CASE UNCHANGED vars
    BY <2>5 DEF vars, ReaderInv
  <2>6. CASE \E kind \in Kinds : Write(kind) \/ Stamp(kind) \/ Commit(kind)
    BY <1>1, <2>6
  <2>7. QED
    BY <2>1, <2>2, <2>3, <2>4, <2>5, <2>6, GeneratorReads, BrowserReads DEF Next
<1>3. QED
  BY <1>1, <1>2, ReadersLeaveStore

-------------------------------------------------------------------------------
(* The order of arrival, where an event is stored with its stamp.          *)

\* What is under way to the browser follows on what it got; and what the
\* generator will send next follows on that.
OnWire(stream, last, count) ==
  stream.attached =>
    LET n == last + Len(stream.wire)
    IN  /\ n <= count /\ CountsUp(stream.wire, last, n)
        /\ stream.pc = "live" =>
             \/ stream.sent # {} /\ stream.sent = 1..n
             \/ stream.sent = {} /\ stream.wire = <<>> /\ stream.resume = last

WireInv ==
  ~stamped =>
    /\ CountsUp(sub.got, 0, sub.last)
    /\ sub.pc = "waiting" => \A s \in Streams : ~streams[s].attached
    /\ \A q, s \in Streams : streams[q].attached /\ streams[s].attached => q = s
    /\ \A s \in Streams : OnWire(streams[s], sub.last, clock)

LEMMA CountsOn ==
  ASSUME NEW l \in Nat, NEW m \in Nat, NEW n \in Nat, l <= m, m <= n,
         NEW first, CountsUp(first, l, m), NEW second, CountsUp(second, m, n)
  PROVE  CountsUp(first \o second, l, n)
<1>1. /\ first \in Seq(Nat) /\ Len(first) = m - l /\ \A i \in 1..(m - l) : first[i] = l + i
      /\ second \in Seq(Nat) /\ Len(second) = n - m /\ \A i \in 1..(n - m) : second[i] = m + i
  BY DEF CountsUp
<1>2. first \o second \in Seq(Nat) /\ Len(first \o second) = n - l
  <2>1. first \in Seq(Nat) /\ second \in Seq(Nat)
    BY <1>1
  <2>2. first \o second \in Seq(Nat) /\ Len(first \o second) = Len(first) + Len(second)
    BY <2>1
  <2>3. QED
    BY <1>1, <2>2
<1>3. ASSUME NEW i \in 1..(n - l)
      PROVE  (first \o second)[i] = l + i
  <2>1. CASE i <= m - l
    BY <1>1, <2>1
  <2>2. CASE i > m - l
    <3>1. (first \o second)[i] = second[i - (m - l)]
      BY <1>1, <1>2, <2>2
    <3>2. i - (m - l) \in 1..(n - m)
      BY <2>2
    <3>3. second[i - (m - l)] = m + (i - (m - l))
      BY <1>1, <3>2
    <3>4. QED
      BY <3>1, <3>3
  <2>3. i <= m - l \/ i > m - l
    OBVIOUS
  <2>4. QED
    BY <2>1, <2>2, <2>3
<1>4. QED
  BY <1>2, <1>3 DEF CountsUp

LEMMA CountsHead ==
  ASSUME NEW m \in Nat, NEW n \in Nat, NEW seq, CountsUp(seq, m, n), seq # <<>>
  PROVE  Head(seq) = m + 1 /\ m + 1 <= n /\ CountsUp(Tail(seq), m + 1, n) /\ Len(Tail(seq)) = Len(seq) - 1
<1>1. seq \in Seq(Nat) /\ Len(seq) = n - m /\ Len(seq) >= 1 /\ \A i \in 1..(n - m) : seq[i] = m + i
  BY DEF CountsUp
<1>2. Head(seq) = seq[1] /\ seq[1] = m + 1
  BY <1>1
<1>3. Tail(seq) \in Seq(Nat) /\ Len(Tail(seq)) = n - (m + 1)
  BY <1>1
<1>4. \A i \in 1..(n - (m + 1)) : Tail(seq)[i] = m + 1 + i
  BY <1>1
<1>5. QED
  BY <1>1, <1>2, <1>3, <1>4 DEF CountsUp

LEMMA CountsMore ==
  ASSUME NEW n \in Nat, NEW seq, CountsUp(seq, 0, n)
  PROVE  CountsUp(Append(seq, n + 1), 0, n + 1)
  BY DEF CountsUp

\* The list a generator sends is what its browser has still to get.
LEMMA SendsTheRest ==
  ASSUME EventsInv, ReaderInv, ~stamped, NEW s \in Streams, streams[s].pc = "live", streams[s].attached,
         OnWire(streams[s], sub.last, clock)
  PROVE  LET n == sub.last + Len(streams[s].wire)
         IN  /\ n \in Nat /\ n <= clock /\ Skipped(s) = 1..n
             /\ CountsUp(Pending(s), n, clock)
<1> DEFINE n == sub.last + Len(streams[s].wire)
<1>1. clock \in Nat /\ log = 1..clock /\ sub.last \in Nat /\ streams[s].resume \in Nat
  BY DEF EventsInv, ReaderInv, OnLog
<1>2. /\ n <= clock /\ streams[s].wire \in Seq(Nat)
      /\ \/ streams[s].sent # {} /\ streams[s].sent = 1..n
         \/ streams[s].sent = {} /\ streams[s].wire = <<>> /\ streams[s].resume = sub.last
  BY DEF OnWire, CountsUp
<1>3. n \in Nat
  BY <1>1, <1>2
<1>4. Skipped(s) = 1..n
  <2>1. CASE streams[s].sent # {} /\ streams[s].sent = 1..n
    BY <2>1 DEF Skipped
  <2>2. CASE streams[s].sent = {} /\ streams[s].wire = <<>> /\ streams[s].resume = sub.last
    <3>1. n = sub.last
      BY <1>1, <2>2
    <3>2. CASE sub.last \in log
      <4>1. Skipped(s) = {e \in log : e <= n}
        BY <2>2, <3>1, <3>2 DEF Skipped
      <4>2. QED
        BY <1>1, <1>2, <1>3, <4>1
    <3>3. CASE sub.last \notin log
      <4>1. Skipped(s) = {} /\ n = 0
        BY <1>1, <1>2, <2>2, <3>1, <3>3 DEF Skipped
      <4>2. QED
        BY <4>1
    <3>4. QED
      BY <3>2, <3>3
  <2>3. QED
    BY <1>2, <2>1, <2>2
<1>5. log \ Skipped(s) = (n + 1)..clock
  BY <1>1, <1>3, <1>4
<1>6. CountsUp(Pending(s), n, clock)
  BY <1>1, <1>2, <1>3, <1>5, ListedInterval DEF Pending
<1>7. QED
  BY <1>2, <1>3, <1>4, <1>6

\* One stream changes, and the browser is still attached only to those it was.
LEMMA OneWire ==
  ASSUME StreamsTyped, WireInv, UNCHANGED storeVars, UNCHANGED sub,
         NEW s \in Streams, NEW stream, stream.attached => streams[s].attached,
         ~stamped => OnWire(stream, sub.last, clock),
         streams' = [streams EXCEPT ![s] = stream]
  PROVE  WireInv'
<1> SUFFICES ASSUME ~stamped PROVE WireInv'
  BY DEF WireInv, storeVars
<1>1. UNCHANGED <<stamped, clock>>
  BY DEF storeVars
<1>2. \A q \in Streams : streams'[q] = IF q = s THEN stream ELSE streams[q]
  BY DEF StreamsTyped
<1>3. \A q \in Streams : streams'[q].attached => streams[q].attached
  BY <1>2
<1>4. \A q \in Streams : OnWire(streams'[q], sub.last, clock)
  BY <1>2 DEF WireInv
<1>5. QED
  BY <1>1, <1>3, <1>4 DEF WireInv

LEMMA GeneratorWire ==
  ASSUME StreamsTyped, EventsInv, ReaderInv, WireInv, NEW s \in Streams, Poll(s) \/ HangUp(s) \/ Expires(s)
  PROVE  WireInv'
<1>1. IsStream(streams[s]) /\ UNCHANGED <<storeVars, sub>> /\ streams[s].pc = "live"
  BY DEF StreamsTyped, Poll, HangUp, Expires
<1>2. ~Closed.attached
  BY DEF Closed
<1>3. CASE Poll(s)
  <2> DEFINE polled == [streams[s] EXCEPT
                          !.sent = Skipped(s) \cup log, !.terminal = Terminal(s),
                          !.wire = IF streams[s].attached THEN @ \o Pending(s) ELSE @]
  <2>1. /\ IsStream(polled) /\ polled.pc = "live" /\ polled.sent = Skipped(s) \cup log
        /\ polled.wire = IF streams[s].attached THEN streams[s].wire \o Pending(s) ELSE streams[s].wire
        /\ polled.attached = streams[s].attached
    BY <1>1 DEF IsStream
  <2>2. \/ streams' = [streams EXCEPT ![s] = Ended(polled)]
        \/ streams' = [streams EXCEPT ![s] = polled]
    BY <1>3 DEF Poll
  <2> HIDE DEF polled
  <2>3. ASSUME ~stamped, streams[s].attached
        PROVE  polled.wire \in Seq(Nat) /\ OnWire(polled, sub.last, clock)
    <3> DEFINE n == sub.last + Len(streams[s].wire)
    <3>1. OnWire(streams[s], sub.last, clock)
      BY <2>3 DEF WireInv
    <3>2. n \in Nat /\ n <= clock /\ Skipped(s) = 1..n /\ CountsUp(Pending(s), n, clock)
      BY <1>1, <2>3, <3>1, SendsTheRest
    <3>3. CountsUp(streams[s].wire, sub.last, n) /\ streams[s].wire \in Seq(Nat)
      BY <2>3, <3>1 DEF OnWire, CountsUp
    <3>4. sub.last \in Nat /\ clock \in Nat \ {0} /\ log = 1..clock /\ sub.last <= n
      BY <2>3, <3>3 DEF ReaderInv, EventsInv
    <3> HIDE DEF n
    <3>5. CountsUp(polled.wire, sub.last, clock)
      BY <2>1, <2>3, <3>2, <3>3, <3>4, CountsOn
    <3>6. polled.wire \in Seq(Nat) /\ Len(polled.wire) = clock - sub.last
      BY <3>5 DEF CountsUp
    <3>7. polled.sent = 1..clock /\ polled.sent # {} /\ sub.last + Len(polled.wire) = clock
      <4>1. Skipped(s) \cup log = 1..clock
        BY <3>2, <3>4
      <4>2. 1 \in 1..clock /\ sub.last + (clock - sub.last) = clock
        BY <3>4
      <4>3. QED
        BY <2>1, <3>6, <4>1, <4>2
    <3>8. QED
      BY <3>4, <3>5, <3>6, <3>7 DEF OnWire
  <2>4. ASSUME ~stamped
        PROVE  OnWire(polled, sub.last, clock)
    BY <2>1, <2>3, <2>4 DEF OnWire
  <2>5. CASE streams' = [streams EXCEPT ![s] = polled]
    BY <1>1, <2>1, <2>4, <2>5, OneWire
  <2>6. CASE streams' = [streams EXCEPT ![s] = Ended(polled)]
    <3>1. Ended(polled).attached => streams[s].attached /\ Ended(polled) = [polled EXCEPT !.pc = "over"]
      BY <1>2, <2>1 DEF Ended
    <3>2. ~stamped => OnWire(Ended(polled), sub.last, clock)
      BY <2>1, <2>4, <3>1 DEF OnWire, IsStream
    <3>3. QED
      BY <1>1, <2>6, <3>1, <3>2, OneWire
  <2>7. QED
    BY <2>2, <2>5, <2>6
<1>4. CASE HangUp(s)
  BY <1>1, <1>2, <1>4, OneWire DEF HangUp, OnWire
<1>5. CASE Expires(s)
  <2>1. /\ Ended(streams[s]).attached =>
             streams[s].attached /\ Ended(streams[s]) = [streams[s] EXCEPT !.pc = "over"]
        /\ streams' = [streams EXCEPT ![s] = Ended(streams[s])]
    BY <1>2, <1>5 DEF Ended, Expires
  <2>2. ~stamped => OnWire(streams[s], sub.last, clock)
    BY DEF WireInv
  <2>3. ~stamped => OnWire(Ended(streams[s]), sub.last, clock)
    BY <1>1, <2>1, <2>2 DEF OnWire, IsStream
  <2>4. QED
    BY <1>1, <2>1, <2>3, OneWire
<1>6. QED
  BY <1>3, <1>4, <1>5

LEMMA BrowserWire ==
  ASSUME StreamsTyped, EventsInv, ReaderInv, WireInv, NEW s \in Streams,
         Connect(s) \/ StreamEnds(s) \/ Receive(s)
  PROVE  WireInv'
<1>0. UNCHANGED storeVars /\ UNCHANGED <<stamped, clock>>
  BY DEF Connect, StreamEnds, Receive, storeVars
<1> SUFFICES ASSUME ~stamped PROVE WireInv'
  BY <1>0 DEF WireInv
<1>1. /\ UNCHANGED storeVars /\ UNCHANGED <<stamped, clock>> /\ IsStream(streams[s]) /\ IsSub(sub)
      /\ sub.last \in Nat /\ clock \in Nat /\ sub.last <= clock
  <2>1. log = 1..clock /\ clock \in Nat /\ sub.last \in log \cup {0}
    BY DEF ReaderInv, EventsInv
  <2>2. IsStream(streams[s]) /\ IsSub(sub)
    BY DEF ReaderInv, StreamsTyped
  <2>3. QED
    BY <1>0, <2>1, <2>2
<1>2. ~Closed.attached
  BY DEF Closed
<1>3. CASE Connect(s)
  <2> DEFINE opened == [Closed EXCEPT !.pc = "live", !.attached = TRUE, !.resume = sub.last,
                                      !.terminal = (scan.state = "ended")]
  <2>1. sub.pc = "waiting" /\ sub' = [sub EXCEPT !.pc = "reading"] /\ streams' = [streams EXCEPT ![s] = opened]
    BY <1>3 DEF Connect
  <2>2. OnWire(opened, sub.last, clock)
    <3>1. opened.wire = <<>> /\ opened.sent = {} /\ opened.resume = sub.last
      BY DEF Closed
    <3>2. <<>> \in Seq(Nat) /\ Len(<<>>) = 0
      OBVIOUS
    <3> HIDE DEF opened
    <3>3. QED
      BY <1>1, <3>1, <3>2 DEF OnWire, CountsUp
  <2> HIDE DEF opened
  <2>3. sub'.last = sub.last /\ sub'.got = sub.got /\ sub'.pc = "reading"
    BY <1>1, <2>1 DEF IsSub
  <2>4. \A q \in Streams : streams'[q] = IF q = s THEN opened ELSE streams[q]
    BY <2>1 DEF StreamsTyped
  <2>5. \A q \in Streams : streams'[q].attached => q = s
    BY <2>1, <2>4 DEF WireInv
  <2>6. \A q \in Streams : OnWire(streams'[q], sub.last, clock)
    BY <2>2, <2>4 DEF WireInv
  <2>7. QED
    BY <1>1, <2>3, <2>5, <2>6 DEF WireInv
<1>4. CASE StreamEnds(s)
  <2>1. /\ streams[s].attached /\ sub' = [Failed(FALSE) EXCEPT !.pc = "waiting"]
        /\ streams' = [streams EXCEPT ![s] = Closed]
    BY <1>4 DEF StreamEnds
  <2>2. sub'.last = sub.last /\ sub'.got = sub.got
    BY <1>1, <2>1, FailedSub DEF IsSub
  <2>3. \A q \in Streams : ~streams'[q].attached
    BY <1>2, <2>1 DEF StreamsTyped, WireInv
  <2>4. QED
    BY <1>1, <2>2, <2>3 DEF WireInv, OnWire
<1>5. CASE Receive(s)
  <2> DEFINE e == Head(streams[s].wire)
             read == [streams[s] EXCEPT !.wire = Tail(@)]
             n == sub.last + Len(streams[s].wire)
  <2>1. /\ streams[s].attached /\ streams[s].wire # <<>>
        /\ streams' = [streams EXCEPT ![s] = read]
        /\ sub' = [sub EXCEPT !.last = e, !.attempts = 0, !.got = Append(@, e),
                              !.pc = IF e = final THEN "done" ELSE "reading"]
    BY <1>5 DEF Receive
  <2>2. sub'.last = e /\ sub'.got = Append(sub.got, e) /\ sub'.pc # "waiting"
    BY <1>1, <2>1 DEF IsSub
  <2>3. /\ n <= clock /\ CountsUp(streams[s].wire, sub.last, n) /\ streams[s].wire \in Seq(Nat)
        /\ streams[s].pc = "live" => streams[s].sent # {} /\ streams[s].sent = 1..n
    BY <2>1 DEF WireInv, OnWire, CountsUp
  <2>4. n \in Nat
    BY <1>1, <2>3
  <2>5. /\ e = sub.last + 1 /\ CountsUp(Tail(streams[s].wire), sub.last + 1, n)
        /\ Len(Tail(streams[s].wire)) = Len(streams[s].wire) - 1
    <3> HIDE DEF n
    <3>1. QED
      BY <1>1, <2>1, <2>3, <2>4, CountsHead
  <2>6. (sub.last + 1) + Len(Tail(streams[s].wire)) = n
    <3>1. Len(streams[s].wire) \in Nat /\ n = sub.last + Len(streams[s].wire)
      BY <2>3
    <3>2. QED
      BY <1>1, <2>5, <3>1
  <2>7. /\ read.wire = Tail(streams[s].wire) /\ read.pc = streams[s].pc /\ read.sent = streams[s].sent
        /\ read.attached
    BY <1>1, <2>1 DEF IsStream
  <2> HIDE DEF e, read, n
  <2>8. OnWire(read, sub.last + 1, clock)
    BY <2>3, <2>5, <2>6, <2>7 DEF OnWire
  <2>9. CountsUp(sub'.got, 0, sub.last + 1)
    BY <1>1, <2>2, <2>5, CountsMore DEF WireInv
  <2>10. \A q \in Streams : streams'[q] = IF q = s THEN read ELSE streams[q]
    BY <2>1 DEF StreamsTyped
  <2>11. \A q \in Streams : q # s => ~streams[q].attached
    BY <2>1 DEF WireInv
  <2>12. \A q \in Streams : OnWire(streams'[q], sub'.last, clock)
    BY <2>2, <2>5, <2>8, <2>10, <2>11 DEF OnWire
  <2>13. QED
    BY <1>1, <2>2, <2>5, <2>9, <2>10, <2>11, <2>12 DEF WireInv
<1>6. QED
  BY <1>3, <1>4, <1>5

\* The browser has let go of every stream.
LEMMA NoneAttached ==
  ASSUME StreamsTyped, NEW s \in Streams
  PROVE  ~Detached[s].attached
<1>1. CASE streams[s].pc = "live"
  <2>1. Detached[s] = [streams[s] EXCEPT !.attached = FALSE, !.wire = <<>>] /\ IsStream(streams[s])
    BY <1>1 DEF Detached, StreamsTyped
  <2>2. QED
    BY <2>1 DEF IsStream
<1>2. CASE streams[s].pc # "live"
  BY <1>2 DEF Detached, Closed
<1>3. QED
  BY <1>1, <1>2

LEMMA DetachedWire ==
  ASSUME StreamsTyped, WireInv, UNCHANGED storeVars, streams' = Detached,
         CountsUp(sub'.got, 0, sub'.last) \/ (sub'.got = sub.got /\ sub'.last = sub.last)
  PROVE  WireInv'
<1>1. \A s \in Streams : ~streams'[s].attached
  BY NoneAttached
<1>2. QED
  BY <1>1 DEF WireInv, OnWire, storeVars

LEMMA ShowWire ==
  ASSUME StreamsTyped, ReaderInv, WireInv, UNCHANGED storeVars, NEW state, Show(state)
  PROVE  WireInv'
<1>1. CASE UNCHANGED <<sub, streams>>
  BY <1>1 DEF WireInv, storeVars
<1>2. CASE /\ streams' = Detached
           /\ sub' = IF state = "ended" THEN [sub EXCEPT !.pc = "done"] ELSE Subscribed
  <2>1. CountsUp(sub'.got, 0, sub'.last) \/ (sub'.got = sub.got /\ sub'.last = sub.last)
    BY <1>2 DEF ReaderInv, IsSub, Subscribed, CountsUp
  <2>2. QED
    BY <1>2, <2>1, DetachedWire
<1>3. QED
  BY <1>1, <1>2 DEF Show

LEMMA WireInit == Init => WireInv
<1> SUFFICES ASSUME Init PROVE WireInv
  OBVIOUS
<1>1. sub.got = <<>> /\ sub.last = 0
  BY DEF Init, Subscribed
<1>2. \A s \in Streams : ~streams[s].attached
  BY DEF Init, Closed
<1>3. QED
  BY <1>1, <1>2 DEF WireInv, OnWire, CountsUp

LEMMA WireStep == StreamsTyped /\ EventsInv /\ ReaderInv /\ WireInv /\ [Next]_vars => WireInv'
<1> SUFFICES ASSUME StreamsTyped, EventsInv, ReaderInv, WireInv, [Next]_vars PROVE WireInv'
  OBVIOUS
<1>1. CASE \E kind \in Kinds : Write(kind) \/ Stamp(kind) \/ Commit(kind)
  <2>1. LogGrows /\ UNCHANGED <<streams, sub>> /\ EventsInv'
    BY <1>1, StoreEvents DEF Write, Stamp, Commit, Record
  <2>2. ASSUME NEW s \in Streams, OnWire(streams[s], sub.last, clock), ~stamped
        PROVE  OnWire(streams[s], sub.last, clock')
    <3>1. clock \in Nat /\ clock' \in Nat /\ sub.last \in Nat /\ clock <= clock'
      <4>1. (\A e \in log : e \in Nat) /\ clock \in Nat /\ clock' \in Nat
        <5>1. log \in SUBSET (1..clock) /\ clock \in Nat /\ clock' \in Nat
          BY <2>1 DEF EventsInv
        <5>2. QED
          BY <5>1
      <4>2. sub.last \in Nat
        BY <4>1 DEF ReaderInv
      <4>3. QED
        BY <2>1, <4>1, <4>2 DEF LogGrows
    <3>2. streams[s].attached => sub.last + Len(streams[s].wire) <= clock /\ streams[s].wire \in Seq(Nat)
      BY <2>2 DEF OnWire, CountsUp
    <3>3. streams[s].attached => sub.last + Len(streams[s].wire) <= clock'
      BY <3>1, <3>2
    <3>4. QED
      BY <2>2, <3>3 DEF OnWire
  <2>3. QED
    BY <2>1, <2>2 DEF WireInv, LogGrows
<1>2. CASE UNCHANGED storeVars
  <2>1. CASE ConnectFails
    <3>1. sub.pc = "waiting" /\ streams' = streams /\ sub'.got = sub.got /\ sub'.last = sub.last
      BY <2>1, FailedSub DEF ConnectFails, ReaderInv
    <3>2. QED
      BY <1>2, <3>1 DEF WireInv, storeVars
  <2>2. CASE Drop
    <3>1. streams' = Detached /\ sub'.got = sub.got /\ sub'.last = sub.last
      BY <2>2, FailedSub DEF Drop, ReaderInv
    <3>2. QED
      BY <1>2, <3>1, DetachedWire
  <2>3. CASE \/ Timer \/ TryAgain \/ CancelScan \/ AnswerCancel
             \/ \E r \in Requests : Answer(r) \/ RequestFails(r)
    BY <1>2, <2>3 DEF Timer, TryAgain, CancelScan, AnswerCancel, Answer, RequestFails, WireInv, storeVars
  <2>4. CASE ApplyCancel \/ \E r \in Requests : Apply(r)
    <3>1. (\E state : Show(state)) \/ UNCHANGED <<streams, sub>>
      BY <2>4 DEF ApplyCancel, Apply
    <3>2. CASE UNCHANGED <<streams, sub>>
      BY <1>2, <3>2 DEF WireInv, storeVars
    <3>3. QED
      BY <1>2, <3>1, <3>2, ShowWire
  <2>5. CASE UNCHANGED vars
    BY <2>5 DEF vars, WireInv
  <2>6. CASE \E kind \in Kinds : Write(kind) \/ Stamp(kind) \/ Commit(kind)
    BY <1>1, <2>6
  <2>7. QED
    BY <2>1, <2>2, <2>3, <2>4, <2>5, <2>6, GeneratorWire, BrowserWire DEF Next
<1>3. QED
  BY <1>1, <1>2, ReadersLeaveStore

-------------------------------------------------------------------------------
(* Theorems *)

\* StreamLimiter counts the generators that run, whatever ends them: scan_events
\* releases its slot once, and takes none above the limit.
THEOREM SlotsCounted == Spec => []SlotsMatch
<1>1. SlotsInv => SlotsMatch
  BY DEF SlotsInv
<1>2. QED
  BY <1>1, SlotsInit, SlotsStep, PTL DEF Spec

\* ScanDetailPage.jsx: an older answer never takes the end of a scan off the page,
\* but that of a cancel request.
THEOREM EndKept == Spec => ViewStaysFinal
<1>1. ViewInv /\ [Next]_vars => [ViewKeeps]_vars
  BY ViewStep
<1>2. QED
  BY <1>1, ViewInit, ViewStep, PTL DEF Spec, ViewStaysFinal, ViewKeeps

\* scan_events returns with the terminal event: only one that Neo4jStore stored
\* behind it, under a later stamp, keeps the stream open.
THEOREM ClosedAfterEnd == Spec => []ClosesAfterFinal
<1> DEFINE AllInv == SlotsInv /\ EventsInv /\ ReaderInv
<1>1. Init => AllInv
  BY SlotsInit, EventsInit, ReaderInit
<1>2. AllInv /\ [Next]_vars => AllInv'
  BY SlotsStep, EventsStep, ReaderStep DEF SlotsInv
<1>3. AllInv => ClosesAfterFinal
  BY DEF ReaderInv, OnLog, ClosesAfterFinal
<1>4. QED
  BY <1>1, <1>2, <1>3, PTL DEF Spec

\* With InMemoryStore the browser gets each event once and in order, over however
\* many connections: list_events and the resume position of scan_events.
THEOREM EveryEventOnce == Spec => []NothingSkipped
<1> DEFINE AllInv == SlotsInv /\ EventsInv /\ ReaderInv /\ WireInv
<1>1. Init => AllInv
  BY SlotsInit, EventsInit, ReaderInit, WireInit
<1>2. AllInv /\ [Next]_vars => AllInv'
  BY SlotsStep, EventsStep, ReaderStep, WireStep DEF SlotsInv
<1>3. AllInv => NothingSkipped
  <2> SUFFICES ASSUME EventsInv, ReaderInv, WireInv, ~stamped
               PROVE  sub.got = InOrder({e \in log : e <= sub.last})
    BY DEF NothingSkipped
  <2>1. log = 1..clock /\ clock \in Nat /\ sub.last \in Nat /\ sub.last <= clock
    BY DEF EventsInv, ReaderInv
  <2>2. {e \in log : e <= sub.last} = 1..sub.last
    BY <2>1
  <2>3. sub.got = InOrder(1..sub.last)
    BY <2>1, CountListed DEF WireInv
  <2>4. QED
    BY <2>2, <2>3
<1>4. QED
  BY <1>1, <1>2, <1>3, PTL DEF Spec
===============================================================================
