------------------------------- MODULE RateLimit -------------------------------
(***************************************************************************)
(* The request limits of one principal: the sliding window of              *)
(* InMemoryRateLimiter and the fixed windows of RedisRateLimiter           *)
(* (app/core/rate_limit.py), as _limited_principal and the create handler  *)
(* (app/main.py) charge them: one for every request, and for a scan the    *)
(* rest of its weight in a second call.                                    *)
(*                                                                         *)
(* Time is a number of ticks.  InMemoryRateLimiter decides in one step,    *)
(* since nothing in it waits; RedisRateLimiter names its window first and  *)
(* counts in Redis some time later.                                        *)
(***************************************************************************)
EXTENDS Naturals, FiniteSets

CONSTANTS
  Clients,      \* requests under way at a time
  Weights,      \* what requests cost
  MaxRequests,  \* RATE_LIMIT_REQUESTS
  Window,       \* RATE_LIMIT_WINDOW_SECONDS
  MaxTime       \* bound: ticks

ASSUME RateAssumption ==
  /\ Weights \subseteq Nat \ {0} /\ MaxRequests \in Nat \ {0}
  /\ Window \in Nat \ {0} /\ MaxTime \in Nat

VARIABLES
  limiter,  \* "memory" or "redis"
  now,
  hits,     \* InMemoryRateLimiter: requests kept in the deque, by their time
  keys,     \* RedisRateLimiter: each window's count and when it is forgotten
  calls,    \* the requests under way
  granted,  \* what was let through lately, by time, unless its window was over by then
  asked     \* what Redis was asked for, by window

vars == <<limiter, now, hits, keys, calls, granted, asked>>

Time == 0..MaxTime
WindowOf(t) == t \div Window
Windows == {WindowOf(t) : t \in Time}
Idle == [pc |-> "idle", weight |-> 1, window |-> 0]
NoKey == [count |-> 0, expires |-> 0]

\* What is counted by time in f: one entry for each unit, as in the deque.
Entries(f, S) == UNION {{t} \X (1..f[t]) : t \in S}
Total(f, S) == Cardinality(Entries(f, S))
\* The times within the window that ends at t.
Recent(t) == {u \in Time : u <= t /\ t < u + Window}

-------------------------------------------------------------------------------
(* The handlers.                                                           *)
Cost(c) == IF calls[c].pc \in {"first", "first_sent"} THEN 1 ELSE calls[c].weight - 1

\* The second call of a scan, or the handler goes on.
Allow(c) ==
  calls' = [calls EXCEPT ![c] =
    IF calls[c].pc \in {"first", "first_sent"} /\ calls[c].weight > 1
      THEN [@ EXCEPT !.pc = "second"] ELSE Idle]

\* 429.
Refuse(c) == calls' = [calls EXCEPT ![c] = [Idle EXCEPT !.pc = "refused"]]

Granted(c) == [granted EXCEPT ![now] = @ + Cost(c)]

Ask(c) ==
  /\ calls[c].pc \in {"idle", "refused"}
  /\ \E w \in Weights : calls' = [calls EXCEPT ![c] = [Idle EXCEPT !.pc = "first", !.weight = w]]
  /\ UNCHANGED <<limiter, now, hits, keys, granted, asked>>

-------------------------------------------------------------------------------
(* InMemoryRateLimiter.allow.                                              *)
\* Mutant: a request at the edge of the window is kept.
KeptAtTheEdge == [t \in Time |-> IF t + Window < now THEN 0 ELSE hits[t]]

\* Mutant: a request is forgotten a tick early.
KeptTooShort == [t \in Time |-> IF t + Window <= now + 1 THEN 0 ELSE hits[t]]

Kept == [t \in Time |-> IF t + Window <= now THEN 0 ELSE hits[t]]

AllowInMemory(c) ==
  /\ limiter = "memory" /\ calls[c].pc \in {"first", "second"}
  /\ \/ /\ Total(Kept, Time) + Cost(c) <= MaxRequests
        /\ hits' = [Kept EXCEPT ![now] = @ + Cost(c)]
        /\ Allow(c) /\ granted' = Granted(c)
     \/ /\ Total(Kept, Time) + Cost(c) > MaxRequests
        /\ hits' = Kept
        /\ Refuse(c) /\ UNCHANGED granted
  /\ UNCHANGED <<limiter, now, keys, asked>>

-------------------------------------------------------------------------------
(* RedisRateLimiter.allow.                                                 *)
Send(c) ==
  /\ limiter = "redis" /\ calls[c].pc \in {"first", "second"}
  /\ calls' = [calls EXCEPT ![c].window = WindowOf(now),
                            ![c].pc = IF @ = "first" THEN "first_sent" ELSE "second_sent"]
  /\ UNCHANGED <<limiter, now, hits, keys, granted, asked>>

\* Counts are only compared with the limit: beyond it they are one number.
Capped(n) == IF n > MaxRequests THEN MaxRequests + 1 ELSE n

\* A key is gone once it expired.
Counted(w) == IF keys[w].expires <= now THEN 0 ELSE keys[w].count

\* Mutant: every request counts as one.
CountedOnce(w, cost) ==
  [count |-> Capped(Counted(w) + 1),
   expires |-> IF Counted(w) = 0 THEN now + Window ELSE keys[w].expires]

\* INCRBY, and EXPIRE if the key is new.
Incremented(w, cost) ==
  [count |-> Capped(Counted(w) + cost),
   expires |-> IF Counted(w) = 0 THEN now + Window ELSE keys[w].expires]

Charged(c) ==
  LET w == calls[c].window
  IN  /\ keys' = [keys EXCEPT ![w] = Incremented(w, Cost(c))]
      /\ asked' = [asked EXCEPT ![w] = Capped(@ + Cost(c))]

Count(c) ==
  /\ calls[c].pc \in {"first_sent", "second_sent"}
  /\ Charged(c)
  /\ LET w == calls[c].window
     IN  \/ /\ keys'[w].count <= MaxRequests /\ Allow(c)
            /\ granted' = IF w = WindowOf(now) THEN Granted(c) ELSE granted
         \/ /\ keys'[w].count > MaxRequests /\ Refuse(c)
            /\ UNCHANGED granted
  /\ UNCHANGED <<limiter, now, hits>>

\* 503; whether Redis counted the call is not known.
Fails(c) ==
  /\ calls[c].pc \in {"first_sent", "second_sent"}
  /\ Charged(c) \/ UNCHANGED <<keys, asked>>
  /\ calls' = [calls EXCEPT ![c] = Idle]
  /\ UNCHANGED <<limiter, now, hits, granted>>

-------------------------------------------------------------------------------
\* granted is only looked at within a window from now.
Tick ==
  /\ now < MaxTime /\ now' = now + 1
  /\ granted' = [t \in Time |-> IF t + Window <= now' THEN 0 ELSE granted[t]]
  /\ UNCHANGED <<limiter, hits, keys, calls, asked>>

Next == Tick \/ \E c \in Clients : Ask(c) \/ AllowInMemory(c) \/ Send(c) \/ Count(c) \/ Fails(c)

Init ==
  /\ limiter \in {"memory", "redis"} /\ now = 0
  /\ hits = [t \in Time |-> 0] /\ keys = [w \in Windows |-> NoKey]
  /\ calls = [c \in Clients |-> Idle]
  /\ granted = [t \in Time |-> 0] /\ asked = [w \in Windows |-> 0]

Spec == Init /\ [][Next]_vars
-------------------------------------------------------------------------------
(* Properties *)

\* No window, wherever it begins, lets through more than its limit in memory; with
\* Redis no fixed window does, so that any window sees at most twice the limit.  A
\* call that Redis counts after its window is over starts that window again and is
\* not covered.
LimitKept ==
  /\ limiter = "memory" => Total(granted, Recent(now)) <= MaxRequests
  /\ limiter = "redis" =>
       Total(granted, {t \in Time : WindowOf(t) = WindowOf(now)}) <= MaxRequests

\* A request is refused only because of others: with what was let through within
\* the last window, or, with Redis, with what was asked for within the same one,
\* refused or not, it would exceed the limit.
RefusedUnderLoad ==
  [][\A c \in Clients :
       calls[c].pc # "refused" /\ calls'[c].pc = "refused" =>
         IF limiter = "memory"
           THEN Total(granted, Recent(now)) + Cost(c) > MaxRequests
           ELSE asked'[calls[c].window] > MaxRequests]_vars
================================================================================
