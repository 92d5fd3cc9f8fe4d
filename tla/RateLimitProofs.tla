----------------------------- MODULE RateLimitProofs -----------------------------
(***************************************************************************)
(* The limits of RateLimit, for any limit, window, weights, and number of  *)
(* requests under way.                                                     *)
(***************************************************************************)
EXTENDS RateLimit, FiniteSetTheorems, TLAPS

(* What is counted. *)
LEMMA EntryOf ==
  ASSUME NEW f, NEW S, NEW e
  PROVE  e \in Entries(f, S) <=> \E t \in S : e \in {t} \X (1..f[t])
  BY DEF Entries

\* Counts that are smaller, or looked at in fewer places, have a smaller total.
LEMMA FewerEntries ==
  ASSUME NEW f, NEW S, NEW g, NEW T, IsFiniteSet(Entries(g, T)),
         \A t \in S : f[t] \in Nat /\ (f[t] > 0 => t \in T /\ g[t] \in Nat /\ f[t] <= g[t])
  PROVE  /\ IsFiniteSet(Entries(f, S))
         /\ Total(f, S) \in Nat /\ Total(g, T) \in Nat /\ Total(f, S) <= Total(g, T)
<1>1. \A t \in S : {t} \X (1..f[t]) \subseteq {t} \X (1..g[t])
  <2> TAKE t \in S
  <2>1. 1..f[t] \subseteq 1..g[t]
    OBVIOUS
  <2>2. QED
    BY <2>1
<1>2. \A t \in S : 1..f[t] # {} => t \in T
  OBVIOUS
<1>3. \A e \in Entries(f, S) : e \in Entries(g, T)
  <2> TAKE e \in Entries(f, S)
  <2>1. PICK t \in S : e \in {t} \X (1..f[t])
    BY EntryOf
  <2>2. 1..f[t] # {}
    BY <2>1
  <2>3. QED
    BY <1>1, <1>2, <2>1, <2>2, EntryOf
<1>4. Entries(f, S) \in SUBSET Entries(g, T)
  BY <1>3
<1>5. QED
  BY <1>4, FS_Subset, FS_CardinalityType DEF Total

\* Counting on at one time adds to the total what is counted.
LEMMA MoreEntries ==
  ASSUME NEW f, NEW S, IsFiniteSet(Entries(f, S)), NEW t \in S, f[t] \in Nat,
         NEW n \in Nat, NEW g, g[t] = f[t] + n, \A u \in S \ {t} : g[u] = f[u]
  PROVE  /\ IsFiniteSet(Entries(g, S)) /\ Total(f, S) \in Nat
         /\ Total(g, S) = Total(f, S) + n
<1> DEFINE first == f[t] + 1
           last == f[t] + n
           new == first..last
           added == {t} \X new
           number == [k \in new |-> <<t, k>>]
           old == Entries(f, S)
<1>1. IsFiniteSet(new) /\ Cardinality(new) = n
  <2>1. first \in Int /\ last \in Int /\ (first > last => n = 0) /\ last - first + 1 = n
    OBVIOUS
  <2> HIDE DEF first, last
  <2>2. IsFiniteSet(new) /\ Cardinality(new) = IF first > last THEN 0 ELSE last - first + 1
    BY <2>1, FS_Interval
  <2>3. QED
    BY <2>1, <2>2
<1>2. 1..g[t] = (1..f[t]) \cup new /\ (1..f[t]) \cap new = {}
  OBVIOUS
<1> HIDE DEF new
<1>3. IsFiniteSet(added) /\ Cardinality(added) = n
  <2>1. number \in [new -> added]
    OBVIOUS
  <2>2. ASSUME NEW j \in new, NEW k \in new, number[j] = number[k] PROVE j = k
    BY <2>2
  <2>3. ASSUME NEW e \in added PROVE \E k \in new : number[k] = e
    OBVIOUS
  <2> HIDE DEF number
  <2>4. number \in Bijection(new, added)
    BY <2>1, <2>2, <2>3 DEF Bijection, Injection, IsInjective, Surjection
  <2>5. ExistsBijection(new, added)
    BY <2>4 DEF ExistsBijection
  <2>6. QED
    BY <1>1, <2>5, FS_Bijection
<1>4. Entries(g, S) = Entries(f, S) \cup added
  <2>1. ASSUME NEW e PROVE e \in Entries(g, S) <=> e \in Entries(f, S) \/ e \in added
    <3>1. \A u \in S : e \in {u} \X (1..g[u]) <=> e \in {u} \X (1..f[u]) \/ (u = t /\ e \in added)
      BY <1>2
    <3>2. QED
      BY <3>1, EntryOf
  <2>2. QED
    BY <2>1
<1>5. Entries(f, S) \cap added = {}
  <2>1. ASSUME NEW e \in Entries(f, S), e \in added PROVE FALSE
    <3>1. PICK u \in S : e \in {u} \X (1..f[u])
      BY EntryOf
    <3>2. QED
      BY <1>2, <2>1, <3>1
  <2>2. QED
    BY <2>1
<1>6. IsFiniteSet(old) /\ old \cap added = {}
  BY <1>5
<1> HIDE DEF added, old
<1>7. /\ IsFiniteSet(old \cup added)
      /\ Cardinality(old \cup added) = Cardinality(old) + Cardinality(added) - Cardinality(old \cap added)
  BY <1>3, <1>6, FS_Union
<1>8. Cardinality(old \cap added) = 0 /\ Cardinality(old) \in Nat
  BY <1>6, FS_EmptySet, FS_CardinalityType
<1>9. QED
  BY <1>3, <1>4, <1>7, <1>8 DEF Total, old

-------------------------------------------------------------------------------
(* Windows. *)
LEMMA WindowsFollow ==
  /\ \A t \in Nat : WindowOf(t) \in Nat
  /\ 0 \in Windows /\ \A t \in Time : WindowOf(t) \in Windows
  /\ \A s, t \in Nat : s <= t => WindowOf(s) <= WindowOf(t)
<1>1. ASSUME NEW t \in Nat PROVE WindowOf(t) \in Nat
  BY RateAssumption DEF WindowOf
<1>2. 0 \in Time /\ WindowOf(0) = 0
  BY RateAssumption DEF Time, WindowOf
<1>3. ASSUME NEW s \in Nat, NEW t \in Nat, s <= t PROVE WindowOf(s) <= WindowOf(t)
  BY <1>3, RateAssumption DEF WindowOf
<1>4. QED
  BY <1>1, <1>2, <1>3 DEF Windows

\* A key that is set in its window or later outlives the window.
LEMMA WindowsEnd ==
  ASSUME NEW s \in Nat, NEW t \in Nat, WindowOf(s) <= WindowOf(t)
  PROVE  s < t + Window
  BY RateAssumption DEF WindowOf

-------------------------------------------------------------------------------
(* The invariant. *)
CallRecord ==
  [pc : {"idle", "first", "first_sent", "second", "second_sent", "refused"},
   weight : Nat \ {0}, window : Windows]

RateTyped ==
  /\ limiter \in {"memory", "redis"} /\ now \in Time
  /\ hits \in [Time -> Nat] /\ granted \in [Time -> Nat]
  /\ keys \in [Windows -> [count : 0..(MaxRequests + 1), expires : Nat]]
  /\ asked \in [Windows -> 0..(MaxRequests + 1)]
  /\ calls \in [Clients -> CallRecord]

\* Nothing is granted in the future, and what was is a finite number of requests.
GrantedSoFar ==
  /\ \A t \in Time : t > now => granted[t] = 0
  /\ IsFiniteSet(Entries(granted, Time))

\* The deque holds what was let through within the window, and older requests.
MemoryInv ==
  /\ \A c \in Clients : calls[c].pc \notin {"first_sent", "second_sent"}
  /\ \A t \in Time : /\ granted[t] = IF t + Window <= now THEN 0 ELSE hits[t]
                     /\ t > now => hits[t] = 0
  /\ Total(granted, Time) <= MaxRequests

ThisWindow == {t \in Time : WindowOf(t) = WindowOf(now)}

\* A key counts no more than it was asked for, and outlives its window; calls are
\* counted in their window or later.
KeysInv ==
  /\ \A w \in Windows :
       /\ keys[w].count <= asked[w]
       /\ keys[w].count > 0 =>
            w <= WindowOf(now) /\ \A t \in Time : WindowOf(t) = w => t < keys[w].expires
  /\ \A c \in Clients : calls[c].pc \in {"first_sent", "second_sent"} => calls[c].window <= WindowOf(now)

\* The key of the window counts at least what was let through in it.
RedisInv ==
  /\ KeysInv
  /\ Total(granted, ThisWindow) <= MaxRequests
  /\ \A w \in Windows : w = WindowOf(now) => Total(granted, ThisWindow) <= Counted(w)

RateInv ==
  /\ RateTyped /\ GrantedSoFar
  /\ limiter = "memory" => MemoryInv
  /\ limiter = "redis" => RedisInv

LEMMA IdleCall == Idle \in CallRecord /\ Idle.pc = "idle"
  BY WindowsFollow DEF Idle, CallRecord

LEMMA CostTyped ==
  ASSUME RateTyped, NEW c \in Clients
  PROVE  Cost(c) \in Nat
<1>1. calls[c].weight \in Nat \ {0}
  BY DEF RateTyped, CallRecord
<1>2. QED
  BY <1>1 DEF Cost

\* Where a call goes on it waits for no answer.
LEMMA CallsGoOn ==
  ASSUME RateTyped, NEW c \in Clients,
         Allow(c) \/ Refuse(c) \/ calls' = [calls EXCEPT ![c] = Idle]
  PROVE  /\ calls' \in [Clients -> CallRecord]
         /\ calls'[c].pc \notin {"first_sent", "second_sent"}
         /\ \A d \in Clients \ {c} : calls'[d] = calls[d]
<1>1. calls[c] \in CallRecord
  BY DEF RateTyped
<1>2. /\ [calls[c] EXCEPT !.pc = "second"] \in CallRecord
      /\ [calls[c] EXCEPT !.pc = "second"].pc = "second"
  BY <1>1 DEF CallRecord
<1>3. [Idle EXCEPT !.pc = "refused"] \in CallRecord /\ [Idle EXCEPT !.pc = "refused"].pc = "refused"
  BY IdleCall DEF CallRecord
<1>4. PICK q \in CallRecord : q.pc \notin {"first_sent", "second_sent"} /\ calls' = [calls EXCEPT ![c] = q]
  <2>1. CASE Allow(c)
    <3>1. CASE calls[c].pc \in {"first", "first_sent"} /\ calls[c].weight > 1
      BY <1>2, <2>1, <3>1 DEF Allow
    <3>2. CASE ~(calls[c].pc \in {"first", "first_sent"} /\ calls[c].weight > 1)
      BY <2>1, <3>2, IdleCall DEF Allow
    <3>3. QED
      BY <3>1, <3>2
  <2>2. CASE Refuse(c)
    BY <1>3, <2>2 DEF Refuse
  <2>3. CASE calls' = [calls EXCEPT ![c] = Idle]
    BY <2>3, IdleCall
  <2>4. QED
    BY <2>1, <2>2, <2>3
<1>5. QED
  BY <1>4 DEF RateTyped

-------------------------------------------------------------------------------
(* The steps.                                                              *)
LEMMA RateInit == Init => RateInv
<1> SUFFICES ASSUME Init PROVE RateInv
  OBVIOUS
<1>1. 0 \in Time /\ 0 \in Nat /\ MaxRequests \in Nat
  BY RateAssumption DEF Time
<1>2. RateTyped
  BY <1>1, IdleCall, RateAssumption DEF Init, RateTyped, NoKey
<1>3. \A S \in SUBSET Time : Entries(granted, S) = {}
  <2> SUFFICES ASSUME NEW S \in SUBSET Time, NEW e \in Entries(granted, S) PROVE FALSE
    OBVIOUS
  <2>1. PICK t \in S : e \in {t} \X (1..granted[t])
    BY EntryOf
  <2>2. granted[t] = 0
    BY DEF Init
  <2>3. QED
    BY <2>1, <2>2
<1>4. \A S \in SUBSET Time : IsFiniteSet(Entries(granted, S)) /\ Total(granted, S) = 0
  BY <1>3, FS_EmptySet DEF Total
<1>5. GrantedSoFar
  BY <1>4 DEF Init, GrantedSoFar
<1>6. MemoryInv
  BY <1>1, <1>4, IdleCall DEF Init, MemoryInv
<1>7. RedisInv
  <2>1. \A w \in Windows : keys[w].count = 0 /\ asked[w] = 0 /\ keys[w].expires = 0
    BY DEF Init, NoKey
  <2>2. KeysInv
    BY <2>1, IdleCall DEF Init, KeysInv
  <2>3. ThisWindow \in SUBSET Time
    BY DEF ThisWindow
  <2>4. \A w \in Windows : Counted(w) = 0
    BY <1>1, <2>1 DEF Counted, Init
  <2>5. QED
    BY <1>1, <1>4, <2>2, <2>3, <2>4 DEF RedisInv
<1>8. QED
  BY <1>2, <1>5, <1>6, <1>7 DEF RateInv

\* What was let through stays while no time passes and nothing more is let through.
LEMMA NothingGranted ==
  ASSUME RateInv, UNCHANGED <<limiter, now, hits, keys, granted, asked>>,
         calls' \in [Clients -> CallRecord],
         \A d \in Clients : calls'[d].pc \in {"first_sent", "second_sent"} =>
           limiter = "redis" /\ calls'[d].window <= WindowOf(now)
  PROVE  RateInv'
<1>1. RateTyped' /\ GrantedSoFar'
  BY DEF RateInv, RateTyped, GrantedSoFar
<1>2. limiter = "memory" => MemoryInv'
  BY DEF RateInv, MemoryInv
<1>3. limiter = "redis" => RedisInv'
  BY DEF RateInv, RedisInv, KeysInv, ThisWindow, Counted
<1>4. QED
  BY <1>1, <1>2, <1>3 DEF RateInv

LEMMA AskStep ==
  ASSUME RateInv, NEW c \in Clients, Ask(c)
  PROVE  RateInv'
<1>1. PICK w \in Weights : calls' = [calls EXCEPT ![c] = [Idle EXCEPT !.pc = "first", !.weight = w]]
  BY DEF Ask
<1> DEFINE q == [Idle EXCEPT !.pc = "first", !.weight = w]
<1>2. q \in CallRecord /\ q.pc = "first"
  BY IdleCall, RateAssumption DEF CallRecord
<1>3. calls \in [Clients -> CallRecord] /\ calls' = [calls EXCEPT ![c] = q]
  BY <1>1 DEF RateInv, RateTyped
<1> HIDE DEF q
<1>4. calls' \in [Clients -> CallRecord] /\ calls'[c].pc = "first" /\ \A d \in Clients \ {c} : calls'[d] = calls[d]
  BY <1>2, <1>3
<1>5. \A d \in Clients : calls[d].pc \in {"first_sent", "second_sent"} =>
        limiter = "redis" /\ calls[d].window <= WindowOf(now)
  BY DEF RateInv, RateTyped, MemoryInv, RedisInv, KeysInv
<1>6. QED
  BY <1>4, <1>5, NothingGranted DEF Ask

LEMMA SendStep ==
  ASSUME RateInv, NEW c \in Clients, Send(c)
  PROVE  RateInv'
<1> DEFINE here == WindowOf(now)
           sent == IF calls[c].pc = "first" THEN "first_sent" ELSE "second_sent"
           q == [calls[c] EXCEPT !.window = here, !.pc = sent]
<1>1. calls \in [Clients -> CallRecord] /\ here \in Windows /\ here \in Nat
  BY WindowsFollow DEF RateInv, RateTyped, Time
<1>2. calls' = [calls EXCEPT ![c] = q]
  BY <1>1 DEF Send, CallRecord
<1>3. q \in CallRecord /\ q.window = here
  BY <1>1 DEF CallRecord
<1> HIDE DEF q
<1>4. calls' \in [Clients -> CallRecord] /\ calls'[c].window = here /\ \A d \in Clients \ {c} : calls'[d] = calls[d]
  BY <1>1, <1>2, <1>3
<1>5. \A d \in Clients : calls[d].pc \in {"first_sent", "second_sent"} => calls[d].window <= here
  BY DEF RateInv, RedisInv, KeysInv, Send
<1>6. \A d \in Clients : calls'[d].pc \in {"first_sent", "second_sent"} => calls'[d].window <= here
  BY <1>1, <1>4, <1>5
<1>7. QED
  BY <1>4, <1>6, NothingGranted DEF Send

\* Letting a request through adds its cost, now.
LEMMA GrantedMore ==
  ASSUME RateTyped, GrantedSoFar, UNCHANGED now, NEW n \in Nat, granted' = [granted EXCEPT ![now] = @ + n]
  PROVE  /\ granted' \in [Time -> Nat] /\ GrantedSoFar'
         /\ \A S \in SUBSET Time : now \in S =>
              Total(granted, S) \in Nat /\ Total(granted', S) = Total(granted, S) + n
<1>1. granted \in [Time -> Nat] /\ now \in Time /\ \A t \in Time : t \in Nat
  BY DEF RateTyped, Time
<1>2. granted' \in [Time -> Nat] /\ granted'[now] = granted[now] + n /\ \A t \in Time \ {now} : granted'[t] = granted[t]
  BY <1>1
<1>3. ASSUME NEW S \in SUBSET Time, now \in S
      PROVE  IsFiniteSet(Entries(granted', S)) /\ Total(granted, S) \in Nat /\ Total(granted', S) = Total(granted, S) + n
  <2>1. IsFiniteSet(Entries(granted, S))
    BY <1>1, FewerEntries DEF GrantedSoFar
  <2>2. granted[now] \in Nat /\ \A t \in S \ {now} : granted'[t] = granted[t]
    BY <1>1, <1>2
  <2> DEFINE g == granted'
  <2>3. g[now] = granted[now] + n /\ \A t \in S \ {now} : g[t] = granted[t]
    BY <1>2, <2>2
  <2> HIDE DEF g
  <2>4. IsFiniteSet(Entries(g, S)) /\ Total(granted, S) \in Nat /\ Total(g, S) = Total(granted, S) + n
    BY <1>3, <2>1, <2>2, <2>3, MoreEntries
  <2>5. QED
    BY <2>4 DEF g
<1>4. GrantedSoFar'
  <2>1. \A t \in Time : t > now => granted'[t] = 0
    BY <1>1, <1>2 DEF GrantedSoFar
  <2>2. IsFiniteSet(Entries(granted', Time))
    BY <1>1, <1>3
  <2>3. QED
    BY <2>1, <2>2 DEF GrantedSoFar
<1>5. QED
  BY <1>2, <1>3, <1>4

\* In memory, what the deque keeps is what was let through.
LEMMA KeptIsGranted ==
  ASSUME RateTyped, MemoryInv
  PROVE  Kept = granted
<1>1. \A t \in Time : Kept[t] = granted[t]
  BY DEF Kept, MemoryInv, RateTyped
<1>2. QED
  BY <1>1 DEF Kept, RateTyped

LEMMA MemoryStep ==
  ASSUME RateInv, NEW c \in Clients, AllowInMemory(c)
  PROVE  RateInv'
<1>1. /\ limiter = "memory" /\ RateTyped /\ GrantedSoFar /\ MemoryInv
      /\ UNCHANGED <<limiter, now, keys, asked>> /\ Kept = granted
  BY KeptIsGranted DEF AllowInMemory, RateInv
<1>2. Cost(c) \in Nat /\ MaxRequests \in Nat /\ now \in Time /\ \A t \in Time : t \in Nat
  BY <1>1, CostTyped, RateAssumption DEF RateTyped, Time
<1>3. /\ calls' \in [Clients -> CallRecord]
      /\ \A d \in Clients : calls'[d].pc \notin {"first_sent", "second_sent"}
  BY <1>1, CallsGoOn DEF AllowInMemory, MemoryInv
<1>4. CASE Total(Kept, Time) + Cost(c) <= MaxRequests /\ hits' = [Kept EXCEPT ![now] = @ + Cost(c)]
           /\ granted' = Granted(c)
  <2> DEFINE n == Cost(c)
  <2>1. granted' = [granted EXCEPT ![now] = @ + n] /\ hits' = granted'
    BY <1>1, <1>4 DEF Granted
  <2>2. Total(granted, Time) + n <= MaxRequests
    BY <1>1, <1>4
  <2> HIDE DEF n
  <2>3. /\ granted' \in [Time -> Nat] /\ GrantedSoFar'
        /\ Total(granted', Time) = Total(granted, Time) + n
    BY <1>1, <1>2, <2>1, GrantedMore DEF n
  <2>4. \A t \in Time : /\ granted'[t] = IF t + Window <= now THEN 0 ELSE granted'[t]
                        /\ t > now => granted'[t] = 0
    <3>1. ASSUME NEW t \in Time, t # now
          PROVE  granted'[t] = granted[t] /\ (t + Window <= now => granted[t] = 0) /\ (t > now => granted[t] = 0)
      BY <1>1, <1>2, <2>1, <3>1 DEF RateTyped, MemoryInv
    <3>2. ~(now + Window <= now) /\ ~(now > now)
      BY <1>2, RateAssumption
    <3>3. QED
      BY <3>1, <3>2
  <2>5. MemoryInv'
    BY <1>1, <1>3, <2>1, <2>2, <2>3, <2>4 DEF MemoryInv
  <2>6. RateTyped'
    BY <1>1, <1>3, <2>1, <2>3 DEF RateTyped
  <2>7. QED
    BY <1>1, <2>3, <2>5, <2>6 DEF RateInv
<1>5. CASE hits' = Kept /\ UNCHANGED granted
  <2>1. RateTyped' /\ GrantedSoFar'
    BY <1>1, <1>3, <1>5 DEF RateTyped, GrantedSoFar
  <2>2. MemoryInv'
    BY <1>1, <1>3, <1>5 DEF MemoryInv, GrantedSoFar
  <2>3. QED
    BY <1>1, <2>1, <2>2 DEF RateInv
<1>6. QED
  BY <1>4, <1>5 DEF AllowInMemory

\* A counted key is alive, and its count is exact up to the limit.
LEMMA IncrementedKey ==
  ASSUME RateTyped, NEW w \in Windows, NEW n \in Nat
  PROVE  LET key == Incremented(w, n)
         IN  /\ key \in [count : 0..(MaxRequests + 1), expires : Nat]
             /\ Counted(w) \in 0..(MaxRequests + 1) /\ Counted(w) <= keys[w].count
             /\ key.count = Capped(Counted(w) + n) /\ Counted(w) <= key.count
             /\ key.count <= MaxRequests => key.count = Counted(w) + n
             /\ key.expires > now
             /\ key.expires = now + Window \/ (keys[w].count > 0 /\ key.expires = keys[w].expires)
<1> DEFINE old == Counted(w)
           until == IF old = 0 THEN now + Window ELSE keys[w].expires
           key == Incremented(w, n)
<1>1. /\ keys[w].count \in 0..(MaxRequests + 1) /\ keys[w].expires \in Nat /\ now \in Nat
      /\ Window \in Nat /\ Window > 0 /\ MaxRequests \in Nat
  BY RateAssumption DEF RateTyped, Time
<1>2. old = IF keys[w].expires <= now THEN 0 ELSE keys[w].count
  BY DEF Counted
<1>3. key.count = Capped(old + n) /\ key.expires = until /\ key = [count |-> Capped(old + n), expires |-> until]
  BY DEF Incremented
<1> HIDE DEF old, key
<1>4. old \in 0..(MaxRequests + 1) /\ old <= keys[w].count
  BY <1>1, <1>2
<1>5. until \in Nat /\ until > now /\ (until = now + Window \/ (keys[w].count > 0 /\ until = keys[w].expires))
  BY <1>1, <1>2
<1> HIDE DEF until
<1>6. /\ Capped(old + n) \in 0..(MaxRequests + 1) /\ old <= Capped(old + n)
      /\ Capped(old + n) <= MaxRequests => Capped(old + n) = old + n
  BY <1>1, <1>4 DEF Capped
<1>7. key \in [count : 0..(MaxRequests + 1), expires : Nat]
  BY <1>3, <1>5, <1>6
<1>8. QED
  BY <1>3, <1>4, <1>5, <1>6, <1>7 DEF old, key

\* A call that Redis counted, whether or not its answer arrives.
LEMMA ChargedKeys ==
  ASSUME RateTyped, KeysInv, NEW c \in Clients, calls[c].pc \in {"first_sent", "second_sent"},
         NEW w \in Windows, calls[c].window = w, Charged(c), UNCHANGED now,
         calls'[c].pc \notin {"first_sent", "second_sent"},
         \A d \in Clients \ {c} : calls'[d] = calls[d]
  PROVE  /\ keys' \in [Windows -> [count : 0..(MaxRequests + 1), expires : Nat]]
         /\ asked' \in [Windows -> 0..(MaxRequests + 1)]
         /\ KeysInv'
         /\ \A v \in Windows : Counted(v) <= Counted(v)' /\ Counted(v) \in Nat /\ Counted(v)' \in Nat
         /\ keys'[w].count <= MaxRequests => Counted(w)' = Counted(w) + Cost(c)
         /\ keys'[w].count > MaxRequests => asked'[w] > MaxRequests
<1> DEFINE n == Cost(c)
           key == Incremented(w, n)
           more == Capped(asked[w] + n)
<1>1. n \in Nat /\ MaxRequests \in Nat /\ now \in Nat /\ now \in Time /\ w <= WindowOf(now)
  <2>1. n \in Nat
    BY CostTyped
  <2> HIDE DEF n
  <2>2. QED
    BY <2>1, RateAssumption DEF RateTyped, Time, KeysInv
<1>2. keys' = [keys EXCEPT ![w] = key] /\ asked' = [asked EXCEPT ![w] = more]
  BY DEF Charged
<1>3. /\ key \in [count : 0..(MaxRequests + 1), expires : Nat]
      /\ Counted(w) \in 0..(MaxRequests + 1) /\ Counted(w) <= keys[w].count
      /\ key.count = Capped(Counted(w) + n) /\ Counted(w) <= key.count
      /\ key.count <= MaxRequests => key.count = Counted(w) + n
      /\ key.expires > now
      /\ key.expires = now + Window \/ (keys[w].count > 0 /\ key.expires = keys[w].expires)
  <2> HIDE DEF n
  <2>1. QED
    BY <1>1, IncrementedKey
<1> HIDE DEF n, key
<1>4. asked \in [Windows -> 0..(MaxRequests + 1)] /\ keys \in [Windows -> [count : 0..(MaxRequests + 1), expires : Nat]]
  BY DEF RateTyped
<1>5. more \in 0..(MaxRequests + 1) /\ key.count <= more /\ (key.count > MaxRequests => more > MaxRequests)
  <2>1. asked[w] \in 0..(MaxRequests + 1) /\ keys[w].count <= asked[w] /\ keys[w].count \in 0..(MaxRequests + 1)
    BY <1>1, <1>4 DEF KeysInv
  <2>2. QED
    BY <1>1, <1>3, <2>1 DEF Capped
<1> HIDE DEF more
<1>6. /\ keys' \in [Windows -> [count : 0..(MaxRequests + 1), expires : Nat]]
      /\ asked' \in [Windows -> 0..(MaxRequests + 1)]
      /\ keys'[w] = key /\ asked'[w] = more
      /\ \A v \in Windows \ {w} : keys'[v] = keys[v] /\ asked'[v] = asked[v]
  BY <1>1, <1>2, <1>3, <1>4, <1>5
<1>7. KeysInv'
  <2>1. \A t \in Time : WindowOf(t) = w => t < key.expires
    <3>1. ASSUME NEW t \in Time, WindowOf(t) = w PROVE t < now + Window
      BY <1>1, <3>1, WindowsEnd DEF Time
    <3>2. keys[w].count > 0 => \A t \in Time : WindowOf(t) = w => t < keys[w].expires
      BY <1>1 DEF KeysInv
    <3>3. QED
      BY <1>3, <3>1, <3>2
  <2>2. \A v \in Windows : /\ keys'[v].count <= asked'[v]
                           /\ keys'[v].count > 0 => v <= WindowOf(now) /\ \A t \in Time : WindowOf(t) = v => t < keys'[v].expires
    BY <1>1, <1>5, <1>6, <2>1 DEF KeysInv
  <2>3. \A d \in Clients : calls'[d].pc \in {"first_sent", "second_sent"} => calls'[d].window <= WindowOf(now)
    BY DEF KeysInv
  <2>4. QED
    BY <2>2, <2>3 DEF KeysInv
<1>8. Counted(w)' = key.count
  BY <1>1, <1>3, <1>6 DEF Counted
<1>9. ASSUME NEW v \in Windows, v # w PROVE Counted(v)' = Counted(v) /\ Counted(v) \in Nat
  BY <1>1, <1>4, <1>6, <1>9 DEF Counted
<1>10. \A v \in Windows : Counted(v) <= Counted(v)' /\ Counted(v) \in Nat /\ Counted(v)' \in Nat
  BY <1>1, <1>3, <1>8, <1>9
<1>11. QED
  BY <1>1, <1>3, <1>5, <1>6, <1>7, <1>8, <1>10 DEF n

LEMMA CountStep ==
  ASSUME RateInv, NEW c \in Clients, Count(c) \/ Fails(c)
  PROVE  RateInv'
<1>1. /\ limiter = "redis" /\ RateTyped /\ GrantedSoFar /\ RedisInv /\ KeysInv
      /\ calls[c].pc \in {"first_sent", "second_sent"} /\ UNCHANGED <<limiter, now, hits>>
  BY DEF Count, Fails, RateInv, RateTyped, MemoryInv, RedisInv
<1>2. /\ calls' \in [Clients -> CallRecord] /\ calls'[c].pc \notin {"first_sent", "second_sent"}
      /\ \A d \in Clients \ {c} : calls'[d] = calls[d]
  BY <1>1, CallsGoOn DEF Count, Fails
<1>3. PICK w \in Windows : calls[c].window = w
  BY <1>1 DEF RateTyped, CallRecord
<1>4. PICK here \in Windows : here = WindowOf(now)
  BY <1>1, WindowsFollow DEF RateTyped
<1>5. MaxRequests \in Nat /\ now \in ThisWindow /\ ThisWindow \in SUBSET Time /\ ThisWindow' = ThisWindow
  BY <1>1, RateAssumption DEF RateTyped, ThisWindow
<1>6. Total(granted, ThisWindow) \in Nat
  <2>1. \A t \in ThisWindow : granted[t] \in Nat
    BY <1>1, <1>5 DEF RateTyped
  <2>2. QED
    BY <1>1, <1>5, <2>1, FewerEntries DEF GrantedSoFar
<1>7. CASE UNCHANGED <<keys, asked, granted>>
  <2>1. RateTyped' /\ GrantedSoFar'
    BY <1>1, <1>2, <1>7 DEF RateTyped, GrantedSoFar
  <2>2. KeysInv'
    BY <1>1, <1>2, <1>7 DEF KeysInv
  <2>3. RedisInv'
    BY <1>1, <1>5, <1>7, <2>2 DEF RedisInv, Counted
  <2>4. QED
    BY <1>1, <2>1, <2>3 DEF RateInv
<1>8. CASE Charged(c)
  <2>1. /\ keys' \in [Windows -> [count : 0..(MaxRequests + 1), expires : Nat]]
        /\ asked' \in [Windows -> 0..(MaxRequests + 1)]
        /\ KeysInv'
        /\ \A v \in Windows : Counted(v) <= Counted(v)' /\ Counted(v) \in Nat /\ Counted(v)' \in Nat
        /\ keys'[w].count <= MaxRequests => Counted(w)' = Counted(w) + Cost(c)
    BY <1>1, <1>2, <1>3, <1>8, ChargedKeys
  <2>2. Total(granted, ThisWindow) <= MaxRequests /\ Total(granted, ThisWindow) <= Counted(here)
    BY <1>1, <1>4 DEF RedisInv
  <2>3. CASE UNCHANGED granted
    <3>1. RateTyped' /\ GrantedSoFar'
      BY <1>1, <1>2, <2>1, <2>3 DEF RateTyped, GrantedSoFar
    <3>2. Total(granted, ThisWindow) <= Counted(here)'
      BY <1>6, <2>1, <2>2
    <3>3. \A v \in Windows : v = WindowOf(now) => Total(granted, ThisWindow) <= Counted(v)'
      BY <1>4, <3>2
    <3>4. RedisInv'
      BY <1>1, <1>5, <2>1, <2>2, <2>3, <3>3 DEF RedisInv
    <3>5. QED
      BY <1>1, <3>1, <3>4 DEF RateInv
  <2>4. CASE w = here /\ granted' = Granted(c) /\ keys'[w].count <= MaxRequests
    <3> DEFINE n == Cost(c)
    <3>1. n \in Nat /\ granted' = [granted EXCEPT ![now] = @ + n]
      BY <1>1, <2>4, CostTyped DEF Granted
    <3>2. Counted(here)' = Counted(here) + n
      BY <2>1, <2>4
    <3> HIDE DEF n
    <3>3. /\ granted' \in [Time -> Nat] /\ GrantedSoFar'
          /\ Total(granted', ThisWindow) = Total(granted, ThisWindow) + n
      BY <1>1, <1>5, <3>1, GrantedMore
    <3>4. Total(granted', ThisWindow) <= Counted(here)'
      BY <1>4, <1>6, <2>1, <2>2, <3>1, <3>2, <3>3
    <3>5. Counted(here)' <= MaxRequests
      <4>1. keys'[w].count \in Nat
        BY <1>3, <2>1
      <4>2. Counted(w)' <= keys'[w].count
        BY <4>1, <1>1, <2>1 DEF Counted
      <4>3. Counted(here)' = Counted(w)' /\ Counted(here)' \in Nat
        BY <2>1, <2>4
      <4>4. QED
        BY <1>5, <2>4, <4>1, <4>2, <4>3
    <3>6. Total(granted', ThisWindow) <= MaxRequests
      BY <1>5, <1>6, <2>1, <3>1, <3>3, <3>4, <3>5
    <3>7. RateTyped'
      BY <1>1, <1>2, <2>1, <3>3 DEF RateTyped
    <3>8. \A v \in Windows : v = WindowOf(now) => Total(granted', ThisWindow) <= Counted(v)'
      BY <1>4, <3>4
    <3>9. RedisInv'
      BY <1>1, <1>5, <2>1, <3>6, <3>8 DEF RedisInv
    <3>10. QED
      BY <1>1, <3>3, <3>7, <3>9 DEF RateInv
  <2>5. QED
    BY <1>3, <1>4, <1>8, <2>3, <2>4 DEF Count, Fails
<1>9. QED
  BY <1>7, <1>8 DEF Count, Fails

LEMMA TickStep ==
  ASSUME RateInv, Tick
  PROVE  RateInv'
<1>1. /\ RateTyped /\ GrantedSoFar /\ UNCHANGED <<limiter, hits, keys, calls, asked>>
      /\ now \in Time /\ now \in Nat /\ now' = now + 1 /\ now' \in Time
      /\ \A t \in Time : t \in Nat /\ granted[t] \in Nat
  BY RateAssumption DEF Tick, RateInv, RateTyped, Time
<1>2. /\ granted' \in [Time -> Nat]
      /\ \A t \in Time : granted'[t] = IF t + Window <= now' THEN 0 ELSE granted[t]
  BY <1>1 DEF Tick
<1>3. RateTyped'
  BY <1>1, <1>2 DEF RateTyped
<1>4. ASSUME NEW S \in SUBSET Time
      PROVE  /\ IsFiniteSet(Entries(granted, S)) /\ IsFiniteSet(Entries(granted', S))
             /\ Total(granted, S) \in Nat /\ Total(granted', S) \in Nat
             /\ Total(granted', S) <= Total(granted, S)
  <2>1. IsFiniteSet(Entries(granted, S)) /\ Total(granted, S) \in Nat
    <3>1. IsFiniteSet(Entries(granted, Time))
      BY <1>1 DEF GrantedSoFar
    <3>2. \A t \in S : granted[t] \in Nat /\ t \in Time /\ granted[t] <= granted[t]
      BY <1>1
    <3>3. QED
      BY <3>1, <3>2, FewerEntries
  <2> DEFINE g == granted'
  <2>2. \A t \in S : g[t] \in Nat /\ granted[t] \in Nat /\ g[t] <= granted[t]
    BY <1>1, <1>2
  <2> HIDE DEF g
  <2>3. IsFiniteSet(Entries(g, S)) /\ Total(g, S) \in Nat /\ Total(g, S) <= Total(granted, S)
    BY <2>1, <2>2, FewerEntries
  <2>4. QED
    BY <2>1, <2>3 DEF g
<1>5. GrantedSoFar'
  <2>1. \A t \in Time : t > now' => granted'[t] = 0
    BY <1>1, <1>2 DEF GrantedSoFar
  <2>2. QED
    BY <1>4, <2>1 DEF GrantedSoFar
<1>6. MaxRequests \in Nat /\ Window \in Nat
  BY RateAssumption
<1>7. CASE limiter = "memory"
  <2>1. MemoryInv
    BY <1>7 DEF RateInv
  <2>2. \A t \in Time : /\ granted'[t] = IF t + Window <= now' THEN 0 ELSE hits[t]
                        /\ t > now' => hits[t] = 0
    BY <1>1, <1>2, <1>6, <2>1 DEF MemoryInv
  <2>3. Total(granted', Time) <= MaxRequests
    BY <1>4, <1>6, <2>1 DEF MemoryInv
  <2>4. MemoryInv'
    BY <1>1, <2>1, <2>2, <2>3 DEF MemoryInv
  <2>5. QED
    BY <1>1, <1>3, <1>5, <1>7, <2>4 DEF RateInv
<1>8. CASE limiter = "redis"
  <2>1. RedisInv /\ KeysInv
    BY <1>8 DEF RateInv, RedisInv
  <2>2. WindowOf(now) <= WindowOf(now') /\ WindowOf(now) \in Nat /\ WindowOf(now') \in Nat
    BY <1>1, WindowsFollow
  <2>3. \A w \in Windows : w \in Nat
    BY <1>1, WindowsFollow DEF Windows
  <2>4. KeysInv'
    <3>1. \A c \in Clients : calls[c].window \in Windows
      BY <1>1 DEF RateTyped, CallRecord
    <3>2. QED
      BY <1>1, <2>1, <2>2, <2>3, <3>1 DEF KeysInv
  <2>5. ThisWindow \in SUBSET Time /\ ThisWindow' \in SUBSET Time
    BY DEF ThisWindow
  <2>6. \A w \in Windows : keys[w].count \in Nat /\ keys[w].expires \in Nat
    BY <1>1 DEF RateTyped
  <2>7. CASE WindowOf(now') = WindowOf(now)
    <3>1. ThisWindow' = ThisWindow
      BY <2>7 DEF ThisWindow
    <3>2. Total(granted', ThisWindow) <= MaxRequests
      BY <1>4, <1>6, <2>1, <2>5 DEF RedisInv
    <3>3. ASSUME NEW w \in Windows, w = WindowOf(now')
          PROVE  Total(granted', ThisWindow) <= Counted(w)'
      <4>1. Total(granted, ThisWindow) <= Counted(w)
        BY <2>1, <2>7, <3>3 DEF RedisInv
      <4>2. keys[w].count > 0 => now' < keys[w].expires
        BY <1>1, <2>1, <3>3 DEF KeysInv
      <4>3. Counted(w)' = keys[w].count
        BY <1>1, <2>6, <4>2 DEF Counted
      <4>4. Counted(w) <= keys[w].count /\ Counted(w) \in Nat
        BY <1>1, <2>6 DEF Counted
      <4>5. QED
        BY <1>4, <2>5, <2>6, <4>1, <4>3, <4>4
    <3>4. RedisInv'
      BY <2>4, <3>1, <3>2, <3>3 DEF RedisInv
    <3>5. QED
      BY <1>1, <1>3, <1>5, <1>8, <3>4 DEF RateInv
  <2>8. CASE WindowOf(now') # WindowOf(now)
    <3>1. ASSUME NEW t \in Time, WindowOf(t) = WindowOf(now') PROVE granted'[t] = 0
      <4>1. ~(t <= now)
        BY <1>1, <2>2, <2>8, <3>1, WindowsFollow
      <4>2. granted[t] = 0
        BY <1>1, <4>1 DEF GrantedSoFar
      <4>3. QED
        BY <1>2, <4>2
    <3>2. Entries(granted', ThisWindow') = {}
      <4> SUFFICES ASSUME NEW e \in Entries(granted', ThisWindow') PROVE FALSE
        OBVIOUS
      <4> DEFINE g == granted'
                 S == ThisWindow'
      <4>1. \A t \in S : g[t] = 0
        BY <3>1 DEF ThisWindow
      <4>2. e \in Entries(g, S)
        OBVIOUS
      <4> HIDE DEF g, S
      <4>3. PICK t \in S : e \in {t} \X (1..g[t])
        BY <4>2, EntryOf
      <4>4. QED
        BY <4>1, <4>3
    <3>3. Total(granted', ThisWindow') = 0
      BY <3>2, FS_EmptySet DEF Total
    <3>4. \A w \in Windows : Counted(w)' \in Nat
      BY <1>1, <2>6 DEF Counted
    <3>5. RedisInv'
      BY <1>6, <2>4, <3>3, <3>4 DEF RedisInv
    <3>6. QED
      BY <1>1, <1>3, <1>5, <1>8, <3>5 DEF RateInv
  <2>9. QED
    BY <2>7, <2>8
<1>9. QED
  BY <1>1, <1>7, <1>8 DEF RateTyped

LEMMA RateStep == RateInv /\ [Next]_vars => RateInv'
<1> SUFFICES ASSUME RateInv, [Next]_vars PROVE RateInv'
  OBVIOUS
<1>1. CASE Tick
  BY <1>1, TickStep
<1>2. ASSUME NEW c \in Clients, Ask(c) \/ AllowInMemory(c) \/ Send(c) \/ Count(c) \/ Fails(c)
      PROVE  RateInv'
  BY <1>2, AskStep, MemoryStep, SendStep, CountStep
<1>3. CASE UNCHANGED vars
  <2>1. RateTyped' /\ GrantedSoFar'
    BY <1>3 DEF vars, RateInv, RateTyped, GrantedSoFar
  <2>2. limiter = "memory" => MemoryInv'
    BY <1>3 DEF vars, RateInv, MemoryInv
  <2>3. limiter = "redis" => RedisInv'
    BY <1>3 DEF vars, RateInv, RedisInv, KeysInv, ThisWindow, Counted
  <2>4. QED
    BY <1>3, <2>1, <2>2, <2>3 DEF vars, RateInv
<1>4. QED
  BY <1>1, <1>2, <1>3 DEF Next

-------------------------------------------------------------------------------
(* Theorems *)

\* However requests overlap, fail and are charged in two calls, no sliding window in
\* memory and no fixed window of Redis lets through more than RATE_LIMIT_REQUESTS: the
\* two allow methods.
THEOREM LimitHolds == Spec => []LimitKept
<1>1. RateInv => LimitKept
  <2> SUFFICES ASSUME RateInv PROVE LimitKept
    OBVIOUS
  <2>1. MaxRequests \in Nat /\ Recent(now) \in SUBSET Time /\ \A t \in Time : granted[t] \in Nat
    BY RateAssumption DEF Recent, RateInv, RateTyped
  <2>2. CASE limiter = "memory"
    <3>1. /\ Total(granted, Recent(now)) <= Total(granted, Time)
          /\ Total(granted, Recent(now)) \in Nat /\ Total(granted, Time) \in Nat
      BY <2>1, FewerEntries DEF RateInv, GrantedSoFar
    <3>2. Total(granted, Time) <= MaxRequests
      BY <2>2 DEF RateInv, MemoryInv
    <3>3. QED
      BY <2>1, <2>2, <3>1, <3>2 DEF LimitKept
  <2>3. CASE limiter = "redis"
    BY <2>3 DEF LimitKept, RateInv, RedisInv, ThisWindow
  <2>4. QED
    BY <2>2, <2>3 DEF RateInv, RateTyped
<1>2. QED
  BY <1>1, RateInit, RateStep, PTL DEF Spec

\* Nobody is refused without a cause: 429 only with the limit's worth of requests let
\* through within the last window, or asked for in that of the call.
THEOREM RefusedForCause == Spec => RefusedUnderLoad
<1> DEFINE Loaded(c) == IF limiter = "memory"
                          THEN Total(granted, Recent(now)) + Cost(c) > MaxRequests
                          ELSE asked'[calls[c].window] > MaxRequests
           Caused == \A c \in Clients : calls[c].pc # "refused" /\ calls'[c].pc = "refused" => Loaded(c)
<1>1. RateInv /\ [Next]_vars => [Caused]_vars
  <2> SUFFICES ASSUME RateInv, [Next]_vars, NEW c \in Clients,
                      calls[c].pc # "refused", calls'[c].pc = "refused"
               PROVE  Loaded(c)
    OBVIOUS
  <2>1. RateTyped /\ GrantedSoFar /\ calls \in [Clients -> CallRecord] /\ calls[c] \in CallRecord
    BY DEF RateInv, RateTyped
  <2>2. ~Tick /\ ~UNCHANGED vars
    BY DEF Tick, vars
  <2>3. PICK d \in Clients : Ask(d) \/ AllowInMemory(d) \/ Send(d) \/ Count(d) \/ Fails(d)
    BY <2>2 DEF Next
  <2>4. d = c
    BY <2>1, <2>3 DEF Ask, AllowInMemory, Send, Count, Fails, Allow, Refuse
  <2>5. ~Ask(c)
    <3>1. ASSUME NEW w \in Weights, calls' = [calls EXCEPT ![c] = [Idle EXCEPT !.pc = "first", !.weight = w]]
          PROVE  FALSE
      BY <2>1, <3>1 DEF Idle
    <3>2. QED
      BY <3>1 DEF Ask
  <2>6. ~Send(c)
    BY <2>1 DEF Send, CallRecord
  <2>7. ~Allow(c) /\ ~Fails(c)
    BY <2>1, IdleCall DEF Allow, Fails, CallRecord
  <2>8. CASE AllowInMemory(c)
    <3>1. limiter = "memory" /\ Total(Kept, Time) + Cost(c) > MaxRequests /\ MemoryInv
      BY <2>7, <2>8 DEF AllowInMemory, RateInv
    <3>2. Kept = granted
      BY <2>1, <3>1, KeptIsGranted
    <3>3. \A t \in Time : granted[t] \in Nat /\ (granted[t] > 0 => t \in Recent(now))
      BY <2>1, <3>1, RateAssumption DEF RateTyped, MemoryInv, GrantedSoFar, Recent, Time
    <3>4. IsFiniteSet(Entries(granted, Recent(now)))
      <4>1. IsFiniteSet(Entries(granted, Time)) /\ Recent(now) \in SUBSET Time
        BY <2>1 DEF GrantedSoFar, Recent
      <4>2. \A t \in Recent(now) : granted[t] \in Nat /\ t \in Time /\ granted[t] <= granted[t]
        BY <3>3, <4>1
      <4>3. QED
        BY <4>1, <4>2, FewerEntries
    <3>5. \A t \in Time : granted[t] \in Nat /\ (granted[t] > 0 => t \in Recent(now) /\ granted[t] <= granted[t])
      BY <3>3
    <3>6. /\ Total(granted, Time) <= Total(granted, Recent(now))
          /\ Total(granted, Time) \in Nat /\ Total(granted, Recent(now)) \in Nat
      BY <3>4, <3>5, FewerEntries
    <3>7. Cost(c) \in Nat /\ MaxRequests \in Nat
      BY <2>1, CostTyped, RateAssumption
    <3>8. QED
      BY <3>1, <3>2, <3>6, <3>7
  <2>9. CASE Count(c)
    <3>1. PICK w \in Windows : calls[c].window = w
      BY <2>1 DEF CallRecord
    <3>2. /\ limiter = "redis" /\ KeysInv /\ calls[c].pc \in {"first_sent", "second_sent"}
          /\ Charged(c) /\ UNCHANGED now /\ Refuse(c) /\ keys'[w].count > MaxRequests
      BY <2>7, <2>9, <3>1 DEF Count, RateInv, RateTyped, MemoryInv, RedisInv
    <3>3. calls'[c].pc \notin {"first_sent", "second_sent"} /\ \A e \in Clients \ {c} : calls'[e] = calls[e]
      BY <2>1, <3>2, CallsGoOn
    <3>4. asked'[w] > MaxRequests
      BY <2>1, <3>1, <3>2, <3>3, ChargedKeys
    <3>5. QED
      BY <3>1, <3>2, <3>4
  <2>10. QED
    BY <2>3, <2>4, <2>5, <2>6, <2>7, <2>8, <2>9
<1>2. QED
  BY <1>1, RateInit, RateStep, PTL DEF Spec, RefusedUnderLoad
===============================================================================
