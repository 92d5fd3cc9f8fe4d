------------------------------ MODULE ScanProgress ------------------------------
(***************************************************************************)
(* How the end of a scan reaches the browser: the event log of the store,  *)
(* the server-sent event streams of the API (scan_events in app/main.py),  *)
(* the subscription that reconnects (subscribeScanEvents in                *)
(* frontend/src/api/client.js) and the scan page, which refreshes on       *)
(* events and on a timer (frontend/src/pages/ScanDetailPage.jsx).          *)
(*                                                                         *)
(* An event is the number of its stamp (created_at); the log lists events  *)
(* by stamp.  InMemoryStore stamps and appends under its lock.  Neo4jStore *)
(* stamps an event in Python and stores it with a later conditional query, *)
(* so that an event may enter the log before ones already read.            *)
(***************************************************************************)
EXTENDS Naturals, FiniteSets, Sequences, SequencesExt

CONSTANTS
  MaxEvents,      \* bound: events of the scan
  Streams,        \* connections, reused once closed on both sides
  MaxStreams,     \* SCAN_EVENT_MAX_CONNECTIONS_PER_PRINCIPAL
  MaxReconnects,  \* maxReconnectAttempts
  Requests,       \* bound: status requests of the page in flight
  Cancels         \* the page's user may cancel the scan

ASSUME ProgressAssumption ==
  /\ MaxEvents \in Nat /\ MaxStreams \in Nat \ {0} /\ MaxReconnects \in Nat \ {0}
  /\ Cancels \in BOOLEAN /\ IsFiniteSet(Streams)

VARIABLES
  stamped,   \* the store stamps events before it stores them (Neo4jStore)
  scan,      \* the durable record: its state, and whether it is cancelled
  log,       \* the stored events
  clock,     \* the last stamp
  drafts,    \* stamps of events on their way to the store
  final,     \* the event of the scan's end, or 0
  streams,   \* the generators of the API and what the network holds for the browser
  slots,     \* StreamLimiter's count for the principal
  sub,       \* the browser's subscription
  shown,     \* the state of the scan on the page, unknown before it is loaded
  requests,  \* status requests; the latest is the one of the current version
  reply      \* the answer to a cancel request

vars == <<stamped, scan, log, clock, drafts, final, streams, slots, sub, shown, requests, reply>>
storeVars == <<stamped, scan, log, clock, drafts, final>>
pageVars == <<shown, requests, reply>>

State == {"queued", "running", "ended"}
Event == 1..MaxEvents
Kinds == {"claim", "recover", "progress", "finish", "request", "acknowledge"}

Closed == [pc |-> "closed", attached |-> FALSE, sent |-> {}, terminal |-> FALSE,
           resume |-> 0, wire |-> <<>>]
Idle == [pc |-> "idle", answer |-> "queued", latest |-> FALSE]
Subscribed == [pc |-> "waiting", last |-> 0, attempts |-> 0, got |-> <<>>]

-------------------------------------------------------------------------------
(* The store: what writes an event, under which condition.                 *)
May(kind) ==
  CASE kind = "claim"       -> scan.state = "queued" /\ ~scan.cancel
    [] kind = "request"     -> scan.state # "ended"
    [] kind = "acknowledge" -> scan.state # "ended" /\ scan.cancel
    [] OTHER                -> scan.state = "running" /\ ~scan.cancel

After(kind) ==
  CASE kind = "claim"    -> [scan EXCEPT !.state = "running"]
    [] kind = "recover"  -> [scan EXCEPT !.state = "queued"]
    [] kind = "request"  -> [scan EXCEPT !.cancel = TRUE]
    [] kind = "progress" -> scan
    [] OTHER             -> [scan EXCEPT !.state = "ended"]

Record(kind, e) ==
  /\ scan' = After(kind)
  /\ log' = log \cup {e}
  /\ final' = IF kind \in {"finish", "acknowledge"} THEN e ELSE final
  /\ UNCHANGED <<stamped, streams, slots, sub, pageVars>>

\* InMemoryStore: nothing changed, no event.
Write(kind) ==
  /\ ~stamped /\ clock < MaxEvents
  /\ May(kind) /\ (kind = "request" => ~scan.cancel)
  /\ clock' = clock + 1
  /\ Record(kind, clock + 1)
  /\ UNCHANGED drafts

\* Neo4jStore: read and stamp, then write under the WHERE clause.
Stamp(kind) ==
  /\ stamped /\ clock < MaxEvents
  /\ drafts[kind] = 0 /\ May(kind)
  /\ clock' = clock + 1
  /\ drafts' = [drafts EXCEPT ![kind] = clock + 1]
  /\ UNCHANGED <<stamped, scan, log, final, streams, slots, sub, pageVars>>

Commit(kind) ==
  /\ drafts[kind] # 0
  /\ drafts' = [drafts EXCEPT ![kind] = 0]
  /\ UNCHANGED clock
  /\ \/ May(kind) /\ Record(kind, drafts[kind])
     \/ ~May(kind) /\ UNCHANGED <<stamped, scan, log, final, streams, slots, sub, pageVars>>

-------------------------------------------------------------------------------
(* The API's end of a connection.                                          *)
Release == slots' = slots - 1

\* Mutant: the resume position itself is sent again.
SkippedShort(s) ==
  IF streams[s].sent = {} /\ streams[s].resume \in log
    THEN {e \in log : e < streams[s].resume}
    ELSE streams[s].sent

\* What a poll takes as sent: the first one skips up to the resume position.
Skipped(s) ==
  IF streams[s].sent = {} /\ streams[s].resume \in log
    THEN {e \in log : e <= streams[s].resume}
    ELSE streams[s].sent

\* Events as the store lists them, by stamp.
InOrder(events) ==
  CHOOSE seq \in [1..Cardinality(events) -> events] :
    \A i, j \in 1..Cardinality(events) : i < j => seq[i] < seq[j]

Pending(s) == InOrder(log \ Skipped(s))

\* Mutant: the flag is only set from the scan the handler read.
TerminalAtOpen(s) == streams[s].terminal

\* The flag is assigned for every event sent: the last one decides.
Terminal(s) ==
  IF Pending(s) = <<>> THEN streams[s].terminal ELSE Last(Pending(s)) = final

\* The generator ends; what is on the wire still reaches a browser that is there.
Ended(stream) == IF stream.attached THEN [stream EXCEPT !.pc = "over"] ELSE Closed

\* A poll may run before the server learns that the browser is gone.
Poll(s) ==
  /\ streams[s].pc = "live"
  /\ LET polled == [streams[s] EXCEPT
                      !.sent = Skipped(s) \cup log, !.terminal = Terminal(s),
                      !.wire = IF streams[s].attached THEN @ \o Pending(s) ELSE @]
     IN  \/ /\ Terminal(s)
            /\ streams' = [streams EXCEPT ![s] = Ended(polled)]
            /\ Release
         \/ /\ ~Terminal(s)
            /\ streams' = [streams EXCEPT ![s] = polled]
            /\ UNCHANGED slots
  /\ UNCHANGED <<storeVars, sub, pageVars>>

\* Mutant: the generator returns without its finally block.
HangUpKeepsSlot(s) ==
  /\ streams[s].pc = "live" /\ ~streams[s].attached
  /\ streams' = [streams EXCEPT ![s] = Closed]
  /\ UNCHANGED <<storeVars, slots, sub, pageVars>>

\* A poll notices that the browser is gone.
HangUp(s) ==
  /\ streams[s].pc = "live" /\ ~streams[s].attached
  /\ streams' = [streams EXCEPT ![s] = Closed]
  /\ Release
  /\ UNCHANGED <<storeVars, sub, pageVars>>

\* The deadline, the end of the token, the scan is deleted, or the store raises.
Expires(s) ==
  /\ streams[s].pc = "live"
  /\ streams' = [streams EXCEPT ![s] = Ended(streams[s])]
  /\ Release
  /\ UNCHANGED <<storeVars, sub, pageVars>>

-------------------------------------------------------------------------------
(* The browser's subscription.                                             *)
\* The browser lets go of its connections; what was under way is lost.
Detached ==
  [s \in Streams |->
     IF streams[s].pc = "live"
       THEN [streams[s] EXCEPT !.attached = FALSE, !.wire = <<>>]
       ELSE Closed]

Failed(permanent) ==
  LET n == IF sub.attempts < MaxReconnects THEN sub.attempts + 1 ELSE sub.attempts
  IN  [sub EXCEPT !.attempts = n,
                  !.pc = IF permanent \/ n >= MaxReconnects THEN "done" ELSE "waiting"]

\* Any connection that is closed on both sides: which one does not matter.
Unused == CHOOSE s \in Streams : streams[s] = Closed

\* scan_events reads the scan, takes a slot and starts the generator.
Connect(s) ==
  /\ sub.pc = "waiting" /\ streams[s] = Closed /\ s = Unused
  /\ slots < MaxStreams /\ slots' = slots + 1
  /\ streams' = [streams EXCEPT ![s] =
       [Closed EXCEPT !.pc = "live", !.attached = TRUE, !.resume = sub.last,
                      !.terminal = (scan.state = "ended")]]
  /\ sub' = [sub EXCEPT !.pc = "reading"]
  /\ UNCHANGED <<storeVars, pageVars>>

\* No slot (429), no network or no service; or a refusal that is permanent.
ConnectFails ==
  /\ sub.pc = "waiting"
  /\ \E permanent \in BOOLEAN : sub' = Failed(permanent)
  /\ UNCHANGED <<storeVars, streams, slots, pageVars>>

Drop ==
  /\ sub.pc = "reading"
  /\ sub' = Failed(FALSE)
  /\ streams' = Detached
  /\ UNCHANGED <<storeVars, slots, pageVars>>

\* The stream ended: not an error, the number of tries is not limited.
StreamEnds(s) ==
  /\ sub.pc = "reading" /\ streams[s].attached
  /\ streams[s].pc = "over" /\ streams[s].wire = <<>>
  /\ sub' = [Failed(FALSE) EXCEPT !.pc = "waiting"]
  /\ streams' = [streams EXCEPT ![s] = Closed]
  /\ UNCHANGED <<storeVars, slots, pageVars>>

-------------------------------------------------------------------------------
(* The page.  Each refresh is the latest until the next one.               *)
Refresh ==
  LET unused == {r \in Requests : requests[r].pc = "idle"}
      r == CHOOSE r \in unused : TRUE
  IN
    /\ unused # {}
    /\ requests' = [q \in Requests |->
         IF q = r THEN [Idle EXCEPT !.pc = "sent", !.latest = TRUE]
                  ELSE [requests[q] EXCEPT !.latest = FALSE]]

Receive(s) ==
  /\ sub.pc = "reading" /\ streams[s].attached /\ streams[s].wire # <<>>
  /\ LET e == Head(streams[s].wire)
     IN  sub' = [sub EXCEPT !.last = e, !.attempts = 0, !.got = Append(@, e),
                            !.pc = IF e = final THEN "done" ELSE "reading"]
  /\ streams' = [streams EXCEPT ![s].wire = Tail(@)]
  /\ Refresh
  /\ UNCHANGED <<storeVars, slots, shown, reply>>

\* A new state on the page ends the subscription; unless it is the end, the
\* page subscribes afresh, from the first event on.
Show(state) ==
  /\ shown' = state
  /\ \/ state = shown /\ UNCHANGED <<sub, streams>>
     \/ /\ state # shown
        /\ streams' = Detached
        /\ sub' = IF state = "ended" THEN [sub EXCEPT !.pc = "done"] ELSE Subscribed

\* Mutant: the timer runs only while the subscription does.
TimerWithSubscription ==
  /\ shown \notin {"unknown", "ended"} /\ sub.pc # "done"
  /\ Refresh
  /\ UNCHANGED <<storeVars, streams, slots, sub, shown, reply>>

Timer ==
  /\ shown \notin {"unknown", "ended"}
  /\ Refresh
  /\ UNCHANGED <<storeVars, streams, slots, sub, shown, reply>>

\* Until a scan is shown there is no timer: after an error the user tries again.
TryAgain ==
  /\ shown = "unknown" /\ \A r \in Requests : requests[r].pc = "idle"
  /\ Refresh
  /\ UNCHANGED <<storeVars, streams, slots, sub, shown, reply>>

Answer(r) ==
  /\ requests[r].pc = "sent"
  /\ requests' = [requests EXCEPT ![r].pc = "answered", ![r].answer = scan.state]
  /\ UNCHANGED <<storeVars, streams, slots, sub, shown, reply>>

\* Mutant: every answer is shown, in the order of arrival.
ApplyAny(r) ==
  /\ requests[r].pc = "answered"
  /\ requests' = [requests EXCEPT ![r] = Idle]
  /\ Show(requests[r].answer)
  /\ UNCHANGED <<storeVars, slots, reply>>

\* An answer is shown only if no later request was sent.
Apply(r) ==
  /\ requests[r].pc = "answered"
  /\ requests' = [requests EXCEPT ![r] = Idle]
  /\ \/ requests[r].latest /\ Show(requests[r].answer)
     \/ ~requests[r].latest /\ UNCHANGED <<streams, sub, shown>>
  /\ UNCHANGED <<storeVars, slots, reply>>

RequestFails(r) ==
  /\ requests[r].pc # "idle"
  /\ requests' = [requests EXCEPT ![r] = Idle]
  /\ UNCHANGED <<storeVars, streams, slots, sub, shown, reply>>

CancelScan ==
  /\ Cancels /\ shown \notin {"unknown", "ended"} /\ reply.pc = "idle"
  /\ reply' = [Idle EXCEPT !.pc = "sent"]
  /\ UNCHANGED <<storeVars, streams, slots, sub, shown, requests>>

\* The cancel handler's last read of the scan, after its request is durable.
AnswerCancel ==
  /\ reply.pc = "sent" /\ (scan.cancel \/ scan.state = "ended")
  /\ reply' = [reply EXCEPT !.pc = "answered", !.answer = scan.state]
  /\ UNCHANGED <<storeVars, streams, slots, sub, shown, requests>>

\* The answer is merged into whatever the page shows; then it refreshes.
ApplyCancel ==
  /\ reply.pc = "answered" /\ reply' = Idle
  /\ Show(reply.answer)
  /\ Refresh
  /\ UNCHANGED <<storeVars, slots>>

-------------------------------------------------------------------------------
Next ==
  \/ \E kind \in Kinds : Write(kind) \/ Stamp(kind) \/ Commit(kind)
  \/ \E s \in Streams : Poll(s) \/ HangUp(s) \/ Expires(s)
  \/ \E s \in Streams : Connect(s) \/ StreamEnds(s) \/ Receive(s)
  \/ ConnectFails \/ Drop
  \/ Timer \/ TryAgain \/ \E r \in Requests : Answer(r) \/ Apply(r) \/ RequestFails(r)
  \/ CancelScan \/ AnswerCancel \/ ApplyCancel

\* The page opens with the scan the create handler returned, or with nothing but
\* its address; the first refresh is on its way.  The events there are by then, of
\* which the last may have requested a cancellation, count as one.
Init ==
  /\ stamped \in BOOLEAN
  /\ \E cancel \in BOOLEAN : scan = [state |-> "queued", cancel |-> cancel]
  /\ log = {1} /\ clock = 1 /\ final = 0
  /\ drafts = [kind \in Kinds |-> 0]
  /\ streams = [s \in Streams |-> Closed] /\ slots = 0
  /\ \/ shown = "queued" /\ sub = Subscribed
     \/ shown = "unknown" /\ sub = [Subscribed EXCEPT !.pc = "done"]
  /\ requests = [q \in Requests |->
         IF q = CHOOSE r \in Requests : TRUE THEN [Idle EXCEPT !.pc = "sent", !.latest = TRUE] ELSE Idle]
  /\ reply = Idle

Spec == Init /\ [][Next]_vars

\* The interval timer runs; and again and again a request is answered, and its
\* answer arrives, before the next request is sent.  Of the streams nothing is
\* assumed.
Fairness ==
  /\ WF_vars(Timer)
  /\ WF_vars(\E r \in Requests : Answer(r) \/ Apply(r))
  /\ SF_vars(\E r \in Requests : Answer(r) /\ requests[r].latest)
  /\ SF_vars(\E r \in Requests : Apply(r) /\ requests[r].latest)

FairSpec == Spec /\ Fairness
-------------------------------------------------------------------------------
(* Properties *)

\* With InMemoryStore a subscription gets every event of the log once and in
\* order, whatever connections it needs: Last-Event-ID neither skips nor repeats.
NothingSkipped ==
  ~stamped => sub.got = InOrder({e \in log : e <= sub.last})

\* A stream that sent the event of the scan's end is not polling any more:
\* tests/test_api.py test_terminal_sse_event_closes_stream.  Only an event that
\* Neo4jStore stored behind that one, under a later stamp, can keep it open.
ClosesAfterFinal ==
  \A s \in Streams :
    streams[s].pc = "live" /\ final \in streams[s].sent => \E e \in log : stamped /\ e > final

\* The limiter counts the generators that run, also those whose browser is gone,
\* and there are never more than it allows.
SlotsMatch ==
  slots = Cardinality({s \in Streams : streams[s].pc = "live"}) /\ slots <= MaxStreams

\* What the page shows never leaves a final state: ScanDetailPage.test.jsx "does
\* not let an older status response overwrite a newer terminal state".  The answer
\* to a cancel request alone is shown however old it is.
ViewStaysFinal ==
  [][shown = "ended" => shown' = "ended" \/ (reply.pc = "answered" /\ reply' = Idle)]_vars

\* A page that shows the scan shows its end at last, whatever happens to the
\* streams.
EndShown == scan.state = "ended" /\ shown # "unknown" ~> shown = "ended"
================================================================================
