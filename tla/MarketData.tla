----------------------------- MODULE MarketData -----------------------------
(***************************************************************************)
(* Quotes: getOrSetCached over the process-wide cache of                   *)
(* lib/market-data/cache.ts, on top of the Yahoo request queue of          *)
(* lib/market-data/yahoo-request-queue.ts (slots, waiters, shared flights, *)
(* retries).                                                               *)
(*                                                                         *)
(* The process is single-threaded: a step below is all that runs between   *)
(* two returns to the event loop.  The microtasks that follow the end of a *)
(* fetch (hand-over of the slot, removal from inFlight, setCached and the  *)
(* answer of every caller that shares it) belong to that step.             *)
(***************************************************************************)
EXTENDS Integers, Sequences, FiniteSets

CONSTANTS Callers,          \* the calls of getCachedQuote in a behaviour
          Symbols,          \* the symbols asked for, one cache key each
          NoFlight,         \* inFlight has no entry
          MAX_CONCURRENCY,  \* slots of the queue
          RETRY_COUNT,      \* retries of one flight
          MAX_CACHE_ENTRIES,
          MaxPrice          \* bound on the changes of the upstream price

ASSUME MarketDataAssumption ==
  /\ NoFlight \notin Callers
  /\ MAX_CONCURRENCY \in Nat \ {0} /\ RETRY_COUNT \in Nat
  /\ MAX_CACHE_ENTRIES \in Nat \ {0} /\ MaxPrice \in Nat

VARIABLES
  price,      \* how often the upstream prices have changed
  cache,      \* the Map of entries, in insertion order
  inFlight,   \* the Map from keys to promises; a promise is named by its caller
  flight,     \* what runYahooRequest does for the promise of each caller
  active,     \* activeCount
  waitQueue,  \* the flights that wait for a slot
  caller      \* the calls

vars == <<price, cache, inFlight, flight, active, waitQueue, caller>>

Entry == [key : Symbols, value : 0 .. MaxPrice, expired : BOOLEAN]

\* since is the price when the current attempt was sent upstream.
Flight == [pc : {"none", "waiting", "fetching", "backoff"}, key : Symbols \cup {NoFlight},
           attempt : 0 .. RETRY_COUNT, since : 0 .. MaxPrice]

Caller == [pc : {"idle", "awaiting", "answered", "failed"}, key : Symbols \cup {NoFlight},
           flight : Callers \cup {NoFlight}, value : 0 .. MaxPrice]

NoFlightYet == [pc |-> "none", key |-> NoFlight, attempt |-> 0, since |-> 0]
NotAsked == [pc |-> "idle", key |-> NoFlight, flight |-> NoFlight, value |-> 0]

TypeOK ==
  /\ price \in 0 .. MaxPrice
  /\ cache \in Seq(Entry) /\ Len(cache) <= MAX_CACHE_ENTRIES
  /\ \A i, j \in DOMAIN cache : cache[i].key = cache[j].key => i = j
  /\ inFlight \in [Symbols -> Callers \cup {NoFlight}]
  /\ flight \in [Callers -> Flight]
  /\ active \in Nat
  /\ waitQueue \in Seq(Callers)
  /\ caller \in [Callers -> Caller]

Init ==
  /\ price = 0
  /\ cache = <<>>
  /\ inFlight = [k \in Symbols |-> NoFlight]
  /\ flight = [c \in Callers |-> NoFlightYet]
  /\ active = 0
  /\ waitQueue = <<>>
  /\ caller = [c \in Callers |-> NotAsked]

-----------------------------------------------------------------------------
(* Cache *)

\* What clearExpired leaves, in the order of insertion.
Kept == {i \in DOMAIN cache : ~cache[i].expired}
Unexpired == [n \in 1 .. Cardinality(Kept) |->
                cache[CHOOSE i \in Kept : Cardinality({j \in Kept : j <= i}) = n]]

\* Mutant of Evicted: the limit is not looked at.
EvictedNone(entries) == entries

\* The entry inserted first makes room.
Evicted(entries) == IF Len(entries) < MAX_CACHE_ENTRIES THEN entries ELSE Tail(entries)

\* setCached: a key that is present keeps its place in the order of insertion.
SetCached(k, v) ==
  LET fresh == [key |-> k, value |-> v, expired |-> FALSE]
  IN  IF \E i \in DOMAIN Unexpired : Unexpired[i].key = k
        THEN [i \in DOMAIN Unexpired |->
                IF Unexpired[i].key = k THEN fresh ELSE Unexpired[i]]
        ELSE Append(Evicted(Unexpired), fresh)

\* getCached and getStaleCached: the entries of a key.
Cached(k) == {e \in {cache[i] : i \in DOMAIN cache} : e.key = k /\ ~e.expired}
StaleCached(k) == {e \in {cache[i] : i \in DOMAIN cache} : e.key = k}

Expire(i) ==
  /\ ~cache[i].expired
  /\ cache' = [cache EXCEPT ![i].expired = TRUE]
  /\ UNCHANGED <<price, inFlight, flight, active, waitQueue, caller>>

-----------------------------------------------------------------------------
(* A call *)

Hit(c, k) ==
  /\ caller[c].pc = "idle"
  /\ \E e \in Cached(k) :
       caller' = [caller EXCEPT ![c] = [pc |-> "answered", key |-> k,
                                        flight |-> NoFlight, value |-> e.value]]
  /\ UNCHANGED <<price, cache, inFlight, flight, active, waitQueue>>

\* Mutant of Existing: every call is a flight of its own.
ExistingNone(k) == NoFlight

Existing(k) == inFlight[k]

Await(c, k, f) ==
  caller' = [caller EXCEPT ![c] = [pc |-> "awaiting", key |-> k, flight |-> f, value |-> 0]]

Fetching(f, k, attempt) ==
  [flight EXCEPT ![f] = [pc |-> "fetching", key |-> k, attempt |-> attempt, since |-> price]]

\* A miss, or bypassCache: share the flight that is under way ...
Join(c, k) ==
  /\ caller[c].pc = "idle"
  /\ Existing(k) # NoFlight
  /\ Await(c, k, Existing(k))
  /\ UNCHANGED <<price, cache, inFlight, flight, active, waitQueue>>

\* ... or open one, with a slot of its own or at the end of the queue.
Open(c, k) ==
  /\ caller[c].pc = "idle"
  /\ Existing(k) = NoFlight
  /\ inFlight' = [inFlight EXCEPT ![k] = c]
  /\ Await(c, k, c)
  /\ IF active < MAX_CONCURRENCY
       THEN /\ active' = active + 1
            /\ flight' = Fetching(c, k, 0)
            /\ UNCHANGED waitQueue
       ELSE /\ waitQueue' = Append(waitQueue, c)
            /\ flight' = [flight EXCEPT ![c].pc = "waiting", ![c].key = k]
            /\ UNCHANGED active
  /\ UNCHANGED <<price, cache>>

-----------------------------------------------------------------------------
(* A flight *)

\* A transient error, with attempts left: the slot is kept during the sleep.
Retry(f) ==
  /\ flight[f].pc = "fetching" /\ flight[f].attempt < RETRY_COUNT
  /\ flight' = [flight EXCEPT ![f].pc = "backoff"]
  /\ UNCHANGED <<price, cache, inFlight, active, waitQueue, caller>>

BackoffEnds(f) ==
  /\ flight[f].pc = "backoff"
  /\ flight' = Fetching(f, flight[f].key, flight[f].attempt + 1)
  /\ UNCHANGED <<price, cache, inFlight, active, waitQueue, caller>>

\* Mutant of Woken: the resolve function that was shifted is not called.
WokenNone == {}

\* releaseSlot: the slot goes to the next waiter, or back to the pool.
Woken == IF waitQueue = <<>> THEN {} ELSE {Head(waitQueue)}

\* Mutant of SlotsLeft: the slot is handed over and given back.
SlotsLeftLess == active - 1

SlotsLeft == IF waitQueue = <<>> THEN active - 1 ELSE active

ReleaseSlot(f) ==
  /\ active' = SlotsLeft
  /\ waitQueue' = IF waitQueue = <<>> THEN <<>> ELSE Tail(waitQueue)
  /\ flight' = [g \in Callers |->
                  CASE g = f -> NoFlightYet
                    [] g \in Woken -> [flight[g] EXCEPT !.pc = "fetching", !.since = price]
                    [] OTHER -> flight[g]]

Sharing(f) == {c \in Callers : caller[c].pc = "awaiting" /\ caller[c].flight = f}

\* Every caller that shares the flight goes on, with an answer or an error.
AnswerAll(f, pc, v) ==
  caller' = [c \in Callers |->
               IF c \in Sharing(f)
                 THEN [pc |-> pc, key |-> flight[f].key, flight |-> NoFlight, value |-> v]
                 ELSE caller[c]]

\* cleanup: the entry is removed only if it is that of this flight.
Settle(f) ==
  /\ flight[f].pc = "fetching"
  /\ inFlight' = [inFlight EXCEPT ![flight[f].key] = IF @ = f THEN NoFlight ELSE @]
  /\ ReleaseSlot(f)
  /\ UNCHANGED price

\* The answer shows a price between the sending of the request and now.
Succeed(f) ==
  /\ Settle(f)
  /\ \E v \in flight[f].since .. price :
       /\ cache' = SetCached(flight[f].key, v)
       /\ AnswerAll(f, "answered", v)

\* A permanent error, or the last attempt: what is still cached is the answer.
Fail(f) ==
  /\ Settle(f)
  /\ IF StaleCached(flight[f].key) # {}
       THEN \E e \in StaleCached(flight[f].key) : AnswerAll(f, "answered", e.value)
       ELSE AnswerAll(f, "failed", 0)
  /\ UNCHANGED cache

PriceMoves ==
  /\ price < MaxPrice
  /\ price' = price + 1
  /\ UNCHANGED <<cache, inFlight, flight, active, waitQueue, caller>>

AllAnswered ==
  /\ \A c \in Callers : caller[c].pc \in {"answered", "failed"}
  /\ UNCHANGED vars

Next ==
  \/ \E c \in Callers, k \in Symbols : Hit(c, k) \/ Join(c, k) \/ Open(c, k)
  \/ \E f \in Callers : Retry(f) \/ BackoffEnds(f) \/ Succeed(f) \/ Fail(f)
  \/ \E i \in DOMAIN cache : Expire(i)
  \/ PriceMoves
  \/ AllAnswered

\* An upstream call ends, with a value or an error, and a sleep ends.
Fairness ==
  \A f \in Callers : /\ WF_vars(Retry(f) \/ Succeed(f) \/ Fail(f))
                     /\ WF_vars(BackoffEnds(f))

Spec == Init /\ [][Next]_vars /\ Fairness

-----------------------------------------------------------------------------
(* Properties *)

Running == {f \in Callers : flight[f].pc \in {"fetching", "backoff"}}
Waiting == {f \in Callers : flight[f].pc = "waiting"}

\* The counter of slots is the number of flights that hold one, through every
\* hand-over; there are never more than MAX_CONCURRENCY, and no flight waits
\* while a slot is free.
SlotsAccountedFor ==
  /\ active = Cardinality(Running) /\ active <= MAX_CONCURRENCY
  /\ waitQueue # <<>> => active = MAX_CONCURRENCY
  /\ Waiting = {waitQueue[i] : i \in DOMAIN waitQueue}
  /\ \A i, j \in DOMAIN waitQueue : waitQueue[i] = waitQueue[j] => i = j

\* A price shown to one caller is never followed by an older one of the same
\* symbol, although callers share flights, bypass the cache, retry and fall
\* back on expired entries: that takes one flight at a time per symbol.
AnswersNeverGoBack ==
  [][\A c, d \in Callers :
       /\ caller[c].pc = "answered"
       /\ caller[d].pc # "answered" /\ caller'[d].pc = "answered"
       /\ caller[c].key = caller'[d].key
       => caller[c].value <= caller'[d].value]_vars

\* Every call returns, however long the queue and however the calls share
\* their flights: no waiter is forgotten by the hand-over of a slot.
EveryCallReturns ==
  \A c \in Callers : caller[c].pc = "awaiting" ~> caller[c].pc \in {"answered", "failed"}

\* quote.ts promises stale-on-error: a symbol that has been quoted before is
\* answered, with an old price if need be, when Yahoo fails.
StaleOnError ==
  [][\A c, d \in Callers :
       /\ caller[c].pc = "answered"
       /\ caller[d].pc # "failed" /\ caller'[d].pc = "failed"
       => caller[c].key # caller'[d].key]_vars
=============================================================================
