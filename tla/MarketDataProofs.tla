-------------------------- MODULE MarketDataProofs --------------------------
(***************************************************************************)
(* Safety of the quote cache and of its request queue, for any number of   *)
(* calls, symbols, slots and retries, and any size of the cache; and of    *)
(* the cache of the SEC client, for any callers, keys and sizes.           *)
(***************************************************************************)
EXTENDS MCMarketData, FiniteSetTheorems, SequenceTheorems, TLAPS

-----------------------------------------------------------------------------
(* Ranks *)

\* A finite set of numbers has an element of every rank.
LEMMA EveryRank ==
  ASSUME NEW S, IsFiniteSet(S), S \subseteq Int, NEW n \in 1 .. Cardinality(S)
  PROVE  \E i \in S : Cardinality({j \in S : j <= i}) = n
  <1> DEFINE upTo(i) == {j \in S : j <= i}
             rank == [i \in S |-> Cardinality(upTo(i))]
             N == Cardinality(S)
  <1>1. N \in Nat
    BY FS_CardinalityType
  <1>2. ASSUME NEW i
        PROVE  /\ IsFiniteSet(upTo(i)) /\ Cardinality(upTo(i)) \in Nat
               /\ Cardinality(upTo(i)) <= N
    BY FS_Subset, FS_CardinalityType
  <1>3. \A i \in S : Cardinality(upTo(i)) # 0
    <2> SUFFICES ASSUME NEW i \in S PROVE Cardinality(upTo(i)) # 0
      OBVIOUS
    <2>1. i \in upTo(i)
      OBVIOUS
    <2> QED
      BY <1>2, <2>1, FS_EmptySet
  <1>4. rank \in [S -> 1 .. N]
    BY <1>1, <1>2, <1>3
  <1>5. ASSUME NEW a \in S, NEW b \in S, a < b
        PROVE  rank[a] # rank[b]
    <2>1. /\ \A j \in upTo(a) : j \in upTo(b)
          /\ b \in upTo(b) /\ b \notin upTo(a)
      <3>1. \A j \in S : j <= a => j <= b
        BY <1>5
      <3>2. b <= b /\ ~(b <= a)
        BY <1>5
      <3> QED
        BY <3>1, <3>2
    <2>2. Cardinality(upTo(b)) # Cardinality(upTo(a))
      BY <1>2, <2>1, FS_Subset
    <2> QED
      BY <2>2
  <1>6. \A a, b \in S : rank[a] = rank[b] => a = b
    <2> SUFFICES ASSUME NEW a \in S, NEW b \in S, a # b PROVE rank[a] # rank[b]
      OBVIOUS
    <2>1. a < b \/ b < a
      OBVIOUS
    <2> QED
      BY <1>5, <2>1
  <1>7. rank \in Injection(S, 1 .. N)
    BY <1>4, <1>6 DEF Injection, IsInjective
  <1>8. IsFiniteSet(1 .. N) /\ Cardinality(1 .. N) = N
    BY <1>1, FS_Interval
  <1>9. rank \in Surjection(S, 1 .. N)
    BY <1>7, <1>8, FS_Injection
  <1>10. PICK i \in S : rank[i] = n
    BY <1>9 DEF Surjection
  <1> QED
    BY <1>10

-----------------------------------------------------------------------------
(* The cache *)

CacheTyped ==
  /\ cache \in Seq(Entry) /\ Len(cache) <= MAX_CACHE_ENTRIES
  /\ \A i, j \in DOMAIN cache : cache[i].key = cache[j].key => i = j

\* clearExpired keeps entries of the cache, each once.
LEMMA UnexpiredKeeps ==
  ASSUME CacheTyped
  PROVE  /\ Unexpired \in Seq(Entry) /\ Len(Unexpired) <= MAX_CACHE_ENTRIES
         /\ \A n \in DOMAIN Unexpired : \E i \in DOMAIN cache : Unexpired[n] = cache[i]
         /\ \A n, m \in DOMAIN Unexpired : Unexpired[n].key = Unexpired[m].key => n = m
  <1> DEFINE rank(i) == Cardinality({j \in Kept : j <= i})
             at(n) == CHOOSE i \in Kept : rank(i) = n
             N == Cardinality(Kept)
  <1>1. /\ DOMAIN cache = 1 .. Len(cache) /\ Len(cache) \in Nat
        /\ \A i \in DOMAIN cache : cache[i] \in Entry
    <2>1. cache \in Seq(Entry)
      BY DEF CacheTyped
    <2> HIDE DEF rank, at, N
    <2>2. Len(cache) \in Nat /\ DOMAIN cache = 1 .. Len(cache)
      BY <2>1
    <2>3. \A i \in 1 .. Len(cache) : cache[i] \in Entry
      BY <2>1
    <2> QED
      BY <2>2, <2>3
  <1>2. IsFiniteSet(Kept) /\ Kept \subseteq Int /\ N \in Nat /\ N <= Len(cache)
    <2>1. IsFiniteSet(1 .. Len(cache)) /\ Cardinality(1 .. Len(cache)) = Len(cache)
      <3>1. 1 \in Int /\ Len(cache) \in Int
        BY <1>1
      <3> HIDE DEF rank, at, N
      <3>2. /\ IsFiniteSet(1 .. Len(cache))
            /\ Cardinality(1 .. Len(cache)) = IF 1 > Len(cache) THEN 0 ELSE Len(cache) - 1 + 1
        BY <3>1, FS_Interval
      <3> QED
        BY <1>1, <3>2
    <2>2. Kept \in SUBSET (1 .. Len(cache))
      BY <1>1 DEF Kept
    <2>3. IsFiniteSet(Kept) /\ N <= Cardinality(1 .. Len(cache))
      BY <2>1, <2>2, FS_Subset
    <2> QED
      BY <2>1, <2>2, <2>3, FS_CardinalityType
  <1>3. ASSUME NEW n \in 1 .. N PROVE at(n) \in Kept /\ rank(at(n)) = n
    <2>1. \E i \in Kept : rank(i) = n
      BY <1>2, EveryRank
    <2> QED
      BY <2>1
  <1>4. Unexpired = [n \in 1 .. N |-> cache[at(n)]]
    BY DEF Unexpired
  <1> HIDE DEF rank, at, N
  <1>5. \A n \in 1 .. N : at(n) \in DOMAIN cache
    BY <1>3 DEF Kept
  <1>6. Unexpired \in Seq(Entry) /\ Len(Unexpired) = N /\ DOMAIN Unexpired = 1 .. N
    BY <1>1, <1>2, <1>4, <1>5
  <1>7. \A n, m \in 1 .. N : Unexpired[n].key = Unexpired[m].key => n = m
    BY <1>3, <1>4, <1>5 DEF CacheTyped
  <1>8. MAX_CACHE_ENTRIES \in Nat
    BY MarketDataAssumption
  <1> QED
    BY <1>1, <1>2, <1>4, <1>5, <1>6, <1>7, <1>8 DEF CacheTyped

\* setCached: one entry of the key k, with the value v; the others were there.
LEMMA SetCachedKeeps ==
  ASSUME CacheTyped, NEW k \in Symbols, NEW v \in 0 .. MaxPrice
  PROVE  LET new == SetCached(k, v)
         IN  /\ new \in Seq(Entry) /\ Len(new) <= MAX_CACHE_ENTRIES
             /\ \A i, j \in DOMAIN new : new[i].key = new[j].key => i = j
             /\ \A i \in DOMAIN new :
                  \/ new[i].key = k /\ new[i].value = v
                  \/ new[i].key # k /\ \E j \in DOMAIN cache : new[i] = cache[j]
  <1> DEFINE fresh == [key |-> k, value |-> v, expired |-> FALSE]
             old == Unexpired
             evicted == Evicted(old)
  <1>1. /\ fresh \in Entry /\ fresh.key = k /\ fresh.value = v
        /\ MAX_CACHE_ENTRIES \in Nat \ {0}
    BY MarketDataAssumption DEF Entry
  <1>2. /\ old \in Seq(Entry) /\ Len(old) <= MAX_CACHE_ENTRIES
        /\ \A n \in DOMAIN old : \E i \in DOMAIN cache : old[n] = cache[i]
        /\ \A n, m \in DOMAIN old : old[n].key = old[m].key => n = m
    BY UnexpiredKeeps
  <1>3. SetCached(k, v) =
          IF \E i \in DOMAIN old : old[i].key = k
            THEN [i \in DOMAIN old |-> IF old[i].key = k THEN fresh ELSE old[i]]
            ELSE Append(evicted, fresh)
    BY DEF SetCached
  <1> HIDE DEF fresh, old
  <1>4. CASE \E i \in DOMAIN old : old[i].key = k
    <2> DEFINE new == [i \in DOMAIN old |-> IF old[i].key = k THEN fresh ELSE old[i]]
    <2>1. DOMAIN old = 1 .. Len(old) /\ Len(old) \in Nat /\ \A i \in DOMAIN old : old[i] \in Entry
      BY <1>2
    <2>2. /\ DOMAIN new = DOMAIN old
          /\ \A i \in DOMAIN old : new[i] = IF old[i].key = k THEN fresh ELSE old[i]
      OBVIOUS
    <2>3. new \in Seq(Entry) /\ Len(new) = Len(old)
      BY <1>1, <2>1
    <2>4. \A i \in DOMAIN old : new[i].key = old[i].key
      BY <1>1, <2>2
    <2>5. SetCached(k, v) = new
      BY <1>3, <1>4
    <2> QED
      BY <1>1, <1>2, <2>2, <2>3, <2>4, <2>5
  <1>5. CASE ~ \E i \in DOMAIN old : old[i].key = k
    <2>1. /\ evicted \in Seq(Entry) /\ Len(evicted) < MAX_CACHE_ENTRIES
          /\ \A i \in DOMAIN evicted : \E n \in DOMAIN old : evicted[i] = old[n]
          /\ \A i, j \in DOMAIN evicted : evicted[i].key = evicted[j].key => i = j
      <3>1. CASE Len(old) < MAX_CACHE_ENTRIES
        BY <1>2, <3>1 DEF Evicted
      <3>2. CASE ~(Len(old) < MAX_CACHE_ENTRIES)
        <4>1. evicted = Tail(old)
          BY <3>2 DEF Evicted
        <4>2. old # <<>> /\ Len(old) = MAX_CACHE_ENTRIES
          BY <1>1, <1>2, <3>2
        <4>3. /\ Tail(old) \in Seq(Entry) /\ Len(Tail(old)) = Len(old) - 1
              /\ \A i \in 1 .. (Len(old) - 1) : Tail(old)[i] = old[i + 1] /\ i + 1 \in DOMAIN old
          BY <1>2, <4>2
        <4>4. DOMAIN Tail(old) = 1 .. (Len(old) - 1)
          BY <4>3
        <4>5. \A i, j \in 1 .. (Len(old) - 1) : i + 1 = j + 1 => i = j
          BY <1>2
        <4> QED
          BY <1>1, <1>2, <4>1, <4>2, <4>3, <4>4, <4>5
      <3> QED
        BY <3>1, <3>2
    <2> DEFINE new == Append(evicted, fresh)
    <2> HIDE DEF evicted
    <2>2. /\ new \in Seq(Entry) /\ Len(new) = Len(evicted) + 1
          /\ DOMAIN new = 1 .. (Len(evicted) + 1)
          /\ new[Len(evicted) + 1] = fresh
          /\ DOMAIN evicted = 1 .. Len(evicted) /\ Len(evicted) \in Nat
          /\ \A i \in 1 .. Len(evicted) : new[i] = evicted[i]
      BY <1>1, <2>1
    <2>3. \A i \in DOMAIN evicted : evicted[i].key # k
      BY <1>5, <2>1
    <2>4. SetCached(k, v) = new
      BY <1>3, <1>5
    <2> HIDE DEF new
    <2>5. \A i, j \in DOMAIN new : new[i].key = new[j].key => i = j
      BY <1>1, <2>1, <2>2, <2>3
    <2>6. \A i \in DOMAIN new :
             \/ new[i].key = k /\ new[i].value = v
             \/ new[i].key # k /\ \E j \in DOMAIN cache : new[i] = cache[j]
      BY <1>1, <1>2, <2>1, <2>2, <2>3
    <2>7. Len(new) <= MAX_CACHE_ENTRIES
      BY <1>1, <2>1, <2>2
    <2> QED
      BY <2>2, <2>4, <2>5, <2>6, <2>7
  <1> QED
    BY <1>4, <1>5

-----------------------------------------------------------------------------
(* The inductive invariant *)

\* A flight sleeps only while it has an attempt left.
BackoffFits == \A f \in Callers : flight[f].pc = "backoff" => flight[f].attempt < RETRY_COUNT

\* One flight per symbol: the promise that inFlight has of it, awaited by the
\* call that opened it and by those that share it.
OneFlightPerSymbol ==
  /\ \A f \in Callers : flight[f].pc # "none" =>
       /\ flight[f].key \in Symbols /\ inFlight[flight[f].key] = f
       /\ caller[f].pc = "awaiting" /\ caller[f].flight = f
  /\ \A k \in Symbols : inFlight[k] # NoFlight =>
       flight[inFlight[k]].pc # "none" /\ flight[inFlight[k]].key = k
  /\ \A c \in Callers : caller[c].pc = "awaiting" =>
       /\ caller[c].key \in Symbols /\ caller[c].flight # NoFlight
       /\ inFlight[caller[c].key] = caller[c].flight

Answered == {c \in Callers : caller[c].pc = "answered"}

\* What was answered of a symbol is not newer than what is cached of it, and
\* neither is newer than what its flight will bring.
ValuesInOrder ==
  /\ \A i \in DOMAIN cache : cache[i].value <= price
  /\ \A f \in Running : flight[f].since <= price
  /\ \A c \in Answered : caller[c].value <= price
  /\ \A i \in DOMAIN cache, f \in Running :
       cache[i].key = flight[f].key => cache[i].value <= flight[f].since
  /\ \A c \in Answered, f \in Running :
       caller[c].key = flight[f].key => caller[c].value <= flight[f].since
  /\ \A c \in Answered, i \in DOMAIN cache :
       caller[c].key = cache[i].key => caller[c].value <= cache[i].value

IInv ==
  /\ TypeOK /\ BackoffFits /\ OneFlightPerSymbol
  /\ IsFiniteSet(Running) /\ SlotsAccountedFor
  /\ ValuesInOrder

LEMMA InitIInv == Init => IInv
  <1> SUFFICES ASSUME Init PROVE IInv
    OBVIOUS
  <1> USE MarketDataAssumption
  <1>1. /\ DOMAIN cache = {} /\ cache \in Seq(Entry) /\ Len(cache) = 0
        /\ DOMAIN waitQueue = {} /\ waitQueue \in Seq(Callers)
    BY DEF Init
  <1>2. NoFlightYet \in Flight /\ NotAsked \in Caller
    BY DEF NoFlightYet, NotAsked, Flight, Caller
  <1>3. /\ \A f \in Callers : flight[f].pc = "none"
        /\ \A c \in Callers : caller[c].pc = "idle"
    BY DEF Init, NoFlightYet, NotAsked
  <1>4. TypeOK
    BY <1>1, <1>2 DEF Init, TypeOK
  <1>5. Running = {} /\ Waiting = {} /\ Answered = {}
    BY <1>3 DEF Running, Waiting, Answered
  <1>6. IsFiniteSet(Running) /\ SlotsAccountedFor
    BY <1>1, <1>5, FS_EmptySet DEF SlotsAccountedFor, Init
  <1> QED
    BY <1>1, <1>3, <1>4, <1>5, <1>6
       DEF Init, IInv, BackoffFits, OneFlightPerSymbol, ValuesInOrder

-----------------------------------------------------------------------------
(* Steps that leave the queue alone *)

\* Whether a flight runs or waits depends on its phase only.
LEMMA SlotsKept ==
  ASSUME IInv, UNCHANGED <<active, waitQueue>>, Running' = Running, Waiting' = Waiting
  PROVE  IsFiniteSet(Running)' /\ SlotsAccountedFor'
  BY DEF IInv, SlotsAccountedFor

LEMMA ExpireKeeps ==
  ASSUME IInv, NEW i \in DOMAIN cache, Expire(i)
  PROVE  IInv'
  <1> DEFINE e == [cache[i] EXCEPT !.expired = TRUE]
  <1>1. /\ UNCHANGED <<price, inFlight, flight, active, waitQueue, caller>>
        /\ cache' = [cache EXCEPT ![i] = e]
    BY DEF Expire
  <1>2. cache \in Seq(Entry) /\ cache[i] \in Entry /\ Len(cache) \in Nat
    BY DEF IInv, TypeOK
  <1>3. e \in Entry /\ e.key = cache[i].key /\ e.value = cache[i].value
    BY <1>2 DEF Entry
  <1>4. /\ cache' \in Seq(Entry) /\ Len(cache') = Len(cache) /\ DOMAIN cache' = DOMAIN cache
        /\ \A j \in DOMAIN cache : cache'[j] = IF j = i THEN e ELSE cache[j]
    BY <1>1, <1>2, <1>3
  <1>5. \A j \in DOMAIN cache : cache'[j].key = cache[j].key /\ cache'[j].value = cache[j].value
    BY <1>3, <1>4
  <1>6. TypeOK'
    BY <1>1, <1>4, <1>5 DEF IInv, TypeOK
  <1>7. Running' = Running /\ Waiting' = Waiting /\ Answered' = Answered
    BY <1>1 DEF Running, Waiting, Answered
  <1>8. IsFiniteSet(Running)' /\ SlotsAccountedFor'
    BY <1>1, <1>7, SlotsKept
  <1>9. ValuesInOrder'
    BY <1>1, <1>4, <1>5, <1>7 DEF IInv, ValuesInOrder
  <1> QED
    BY <1>1, <1>6, <1>8, <1>9 DEF IInv, BackoffFits, OneFlightPerSymbol

LEMMA PriceMovesKeeps ==
  ASSUME IInv, PriceMoves
  PROVE  IInv'
  <1>1. /\ UNCHANGED <<cache, inFlight, flight, active, waitQueue, caller>>
        /\ price' = price + 1 /\ price' \in 0 .. MaxPrice /\ price \in Nat
    BY MarketDataAssumption DEF PriceMoves, IInv, TypeOK
  <1>2. TypeOK'
    BY <1>1 DEF IInv, TypeOK
  <1>3. Running' = Running /\ Waiting' = Waiting /\ Answered' = Answered
    BY <1>1 DEF Running, Waiting, Answered
  <1>4. IsFiniteSet(Running)' /\ SlotsAccountedFor'
    BY <1>1, <1>3, SlotsKept
  <1>5. /\ \A i \in DOMAIN cache : cache[i].value \in Int
        /\ \A f \in Callers : flight[f].since \in Int
        /\ \A c \in Callers : caller[c].value \in Int
    <2>1. /\ \A i \in DOMAIN cache : cache[i] \in Entry
          /\ \A f \in Callers : flight[f] \in Flight
          /\ \A c \in Callers : caller[c] \in Caller
      BY DEF IInv, TypeOK
    <2> QED
      BY <2>1, MarketDataAssumption DEF Entry, Flight, Caller
  <1>6. ValuesInOrder'
    BY <1>1, <1>3, <1>5 DEF IInv, ValuesInOrder, Running, Answered
  <1> QED
    BY <1>1, <1>2, <1>4, <1>6 DEF IInv, BackoffFits, OneFlightPerSymbol

LEMMA HitKeeps ==
  ASSUME IInv, NEW c \in Callers, NEW k \in Symbols, Hit(c, k)
  PROVE  IInv'
  <1>1. PICK i \in DOMAIN cache :
          /\ cache[i].key = k
          /\ caller' = [caller EXCEPT ![c] = [pc |-> "answered", key |-> k,
                                              flight |-> NoFlight, value |-> cache[i].value]]
    BY DEF Hit, Cached
  <1>2. caller[c].pc = "idle" /\ UNCHANGED <<price, cache, inFlight, flight, active, waitQueue>>
    BY DEF Hit
  <1>3. cache[i] \in Entry
    BY DEF IInv, TypeOK
  <1>4. /\ caller' \in [Callers -> Caller]
        /\ caller'[c].pc = "answered" /\ caller'[c].key = k /\ caller'[c].value = cache[i].value
        /\ \A d \in Callers \ {c} : caller'[d] = caller[d]
    BY <1>1, <1>3 DEF IInv, TypeOK, Caller, Entry
  <1>5. TypeOK'
    BY <1>2, <1>4 DEF IInv, TypeOK
  <1>6. Running' = Running /\ Waiting' = Waiting /\ Answered' = Answered \cup {c}
    BY <1>2, <1>4 DEF Running, Waiting, Answered
  <1>7. IsFiniteSet(Running)' /\ SlotsAccountedFor'
    BY <1>2, <1>6, SlotsKept
  <1>8. OneFlightPerSymbol'
    BY <1>2, <1>4 DEF IInv, OneFlightPerSymbol
  <1>9. \A j \in DOMAIN cache : cache[j].key = k => j = i
    BY <1>1 DEF IInv, TypeOK
  <1>10. cache[i].value <= cache[i].value
    BY <1>3 DEF Entry
  <1>11. \A d \in Answered \ {c} : caller'[d] = caller[d]
    BY <1>4 DEF Answered
  <1>12. ValuesInOrder'
    BY <1>1, <1>2, <1>4, <1>6, <1>9, <1>10, <1>11 DEF IInv, ValuesInOrder
  <1> QED
    BY <1>2, <1>5, <1>7, <1>8, <1>12 DEF IInv, BackoffFits

LEMMA JoinKeeps ==
  ASSUME IInv, NEW c \in Callers, NEW k \in Symbols, Join(c, k)
  PROVE  IInv'
  <1>1. /\ UNCHANGED <<price, cache, inFlight, flight, active, waitQueue>>
        /\ caller[c].pc = "idle" /\ inFlight[k] # NoFlight /\ inFlight[k] \in Callers
        /\ caller' = [caller EXCEPT ![c] = [pc |-> "awaiting", key |-> k,
                                            flight |-> inFlight[k], value |-> 0]]
    BY DEF Join, Existing, Await, IInv, TypeOK
  <1>2. /\ caller' \in [Callers -> Caller]
        /\ caller'[c].pc = "awaiting" /\ caller'[c].key = k /\ caller'[c].flight = inFlight[k]
        /\ \A d \in Callers \ {c} : caller'[d] = caller[d]
    BY <1>1, MarketDataAssumption DEF IInv, TypeOK, Caller
  <1>3. TypeOK'
    BY <1>1, <1>2 DEF IInv, TypeOK
  <1>4. Running' = Running /\ Waiting' = Waiting /\ Answered' = Answered /\ c \notin Answered
    BY <1>1, <1>2 DEF Running, Waiting, Answered
  <1>5. IsFiniteSet(Running)' /\ SlotsAccountedFor'
    BY <1>1, <1>4, SlotsKept
  <1>6. OneFlightPerSymbol'
    BY <1>1, <1>2 DEF IInv, OneFlightPerSymbol
  <1>7. \A d \in Answered : caller'[d] = caller[d]
    BY <1>2, <1>4 DEF Answered
  <1>8. ValuesInOrder'
    BY <1>1, <1>4, <1>7 DEF IInv, ValuesInOrder
  <1> QED
    BY <1>1, <1>3, <1>5, <1>6, <1>8 DEF IInv, BackoffFits

\* The flight f goes on with another attempt, or sleeps before it.
LEMMA SameSlotKeeps ==
  ASSUME IInv, NEW f \in Callers, f \in Running, NEW g \in Flight,
         flight' = [flight EXCEPT ![f] = g],
         g.pc \in {"fetching", "backoff"}, g.key = flight[f].key,
         g.since \in {flight[f].since, price},
         g.pc = "backoff" => g.attempt < RETRY_COUNT,
         UNCHANGED <<price, cache, inFlight, active, waitQueue, caller>>
  PROVE  IInv'
  <1>1. /\ flight' \in [Callers -> Flight]
        /\ flight'[f] = g
        /\ \A h \in Callers \ {f} : flight'[h] = flight[h]
    BY DEF IInv, TypeOK
  <1>2. TypeOK'
    BY <1>1 DEF IInv, TypeOK
  <1>3. Running' = Running /\ Waiting' = Waiting /\ Answered' = Answered
    BY <1>1 DEF Running, Waiting, Answered
  <1>4. IsFiniteSet(Running)' /\ SlotsAccountedFor'
    BY <1>3, SlotsKept
  <1>5. OneFlightPerSymbol'
    BY <1>1 DEF IInv, OneFlightPerSymbol, Running
  <1>6. BackoffFits'
    BY <1>1 DEF IInv, BackoffFits
  <1>7. /\ \A h \in Running : flight'[h].key = flight[h].key
        /\ \A h \in Running : flight'[h].since \in {flight[h].since, price}
        /\ price <= price
    BY <1>1, MarketDataAssumption DEF Running, IInv, TypeOK
  <1>8. ValuesInOrder'
    BY <1>3, <1>7 DEF IInv, ValuesInOrder
  <1> QED
    BY <1>2, <1>4, <1>5, <1>6, <1>8 DEF IInv

LEMMA RetryKeeps ==
  ASSUME IInv, NEW f \in Callers, Retry(f) \/ BackoffEnds(f)
  PROVE  IInv'
  <1>1. flight[f] \in Flight /\ price \in 0 .. MaxPrice /\ flight \in [Callers -> Flight]
    BY DEF IInv, TypeOK
  <1>2. CASE Retry(f)
    <2> DEFINE g == [flight[f] EXCEPT !.pc = "backoff"]
    <2>1. /\ g \in Flight /\ g.pc = "backoff" /\ g.key = flight[f].key
          /\ g.since = flight[f].since /\ g.attempt = flight[f].attempt
      BY <1>1 DEF Flight
    <2>2. flight' = [flight EXCEPT ![f] = g]
      BY <1>1, <1>2 DEF Retry
    <2>3. f \in Running /\ flight[f].attempt < RETRY_COUNT
      BY <1>2 DEF Retry, Running
    <2> HIDE DEF g
    <2> QED
      BY <1>2, <2>1, <2>2, <2>3, SameSlotKeeps DEF Retry
  <1>3. CASE BackoffEnds(f)
    <2> DEFINE g == [pc |-> "fetching", key |-> flight[f].key,
                     attempt |-> flight[f].attempt + 1, since |-> price]
    <2>1. f \in Running /\ flight[f].attempt < RETRY_COUNT
      BY <1>3 DEF BackoffEnds, Running, IInv, BackoffFits
    <2>2. /\ g \in Flight /\ g.pc = "fetching" /\ g.key = flight[f].key
          /\ g.since = price
      BY <1>1, <2>1, MarketDataAssumption DEF Flight
    <2>3. flight' = [flight EXCEPT ![f] = g]
      BY <1>1, <1>3 DEF BackoffEnds, Fetching
    <2> HIDE DEF g
    <2> QED
      BY <1>3, <2>1, <2>2, <2>3, SameSlotKeeps DEF BackoffEnds
  <1> QED
    BY <1>2, <1>3
-----------------------------------------------------------------------------
(* Steps that take a slot, a place in the queue, or hand a slot over *)

LEMMA OpenKeeps ==
  ASSUME IInv, NEW c \in Callers, NEW k \in Symbols, Open(c, k)
  PROVE  IInv'
  <1>1. /\ caller[c].pc = "idle" /\ inFlight[k] = NoFlight /\ UNCHANGED <<price, cache>>
        /\ inFlight' = [inFlight EXCEPT ![k] = c]
        /\ caller' = [caller EXCEPT ![c] = [pc |-> "awaiting", key |-> k,
                                            flight |-> c, value |-> 0]]
    BY DEF Open, Existing, Await
  <1>2. /\ flight \in [Callers -> Flight] /\ flight[c] \in Flight
        /\ inFlight \in [Symbols -> Callers \cup {NoFlight}]
        /\ price \in 0 .. MaxPrice /\ active \in Nat
        /\ waitQueue \in Seq(Callers) /\ caller \in [Callers -> Caller]
    BY DEF IInv, TypeOK
  <1>3. flight[c].pc = "none"
    BY <1>1 DEF IInv, OneFlightPerSymbol
  <1>4. /\ caller' \in [Callers -> Caller]
        /\ caller'[c].pc = "awaiting" /\ caller'[c].key = k /\ caller'[c].flight = c
        /\ \A d \in Callers \ {c} : caller'[d] = caller[d]
    BY <1>1, <1>2, MarketDataAssumption DEF Caller
  <1>5. /\ inFlight' \in [Symbols -> Callers \cup {NoFlight}] /\ inFlight'[k] = c
        /\ \A l \in Symbols \ {k} : inFlight'[l] = inFlight[l]
    BY <1>1, <1>2
  <1>6. Answered' = Answered /\ c \notin Answered
    BY <1>1, <1>4 DEF Answered
  <1>7. \A d \in Answered : caller'[d] = caller[d]
    BY <1>4, <1>6 DEF Answered
  <1>8. ASSUME NEW g \in Flight, flight' = [flight EXCEPT ![c] = g],
               g.pc # "none", g.pc # "backoff", g.key = k
        PROVE  /\ flight' \in [Callers -> Flight] /\ flight'[c] = g
               /\ \A f \in Callers \ {c} : flight'[f] = flight[f]
               /\ BackoffFits' /\ OneFlightPerSymbol'
    <2>1. /\ flight' \in [Callers -> Flight] /\ flight'[c] = g
          /\ \A f \in Callers \ {c} : flight'[f] = flight[f]
      BY <1>2, <1>8
    <2>2. BackoffFits'
      BY <1>8, <2>1 DEF IInv, BackoffFits
    <2>3. \A f \in Callers : flight'[f].pc # "none" =>
            /\ flight'[f].key \in Symbols /\ inFlight'[flight'[f].key] = f
            /\ caller'[f].pc = "awaiting" /\ caller'[f].flight = f
      BY <1>1, <1>4, <1>5, <1>8, <2>1, MarketDataAssumption DEF IInv, OneFlightPerSymbol
    <2>4. \A l \in Symbols : inFlight'[l] # NoFlight =>
            flight'[inFlight'[l]].pc # "none" /\ flight'[inFlight'[l]].key = l
      BY <1>2, <1>3, <1>5, <1>8, <2>1 DEF IInv, OneFlightPerSymbol
    <2>5. \A d \in Callers : caller'[d].pc = "awaiting" =>
            /\ caller'[d].key \in Symbols /\ caller'[d].flight # NoFlight
            /\ inFlight'[caller'[d].key] = caller'[d].flight
      BY <1>1, <1>4, <1>5, MarketDataAssumption DEF IInv, OneFlightPerSymbol
    <2> QED
      BY <2>1, <2>2, <2>3, <2>4, <2>5 DEF OneFlightPerSymbol
  <1>9. CASE active < MAX_CONCURRENCY
    <2> DEFINE g == [pc |-> "fetching", key |-> k, attempt |-> 0, since |-> price]
    <2>1. /\ active' = active + 1 /\ flight' = [flight EXCEPT ![c] = g]
          /\ waitQueue' = waitQueue
      BY <1>9 DEF Open, Fetching
    <2>2. g \in Flight /\ g.pc = "fetching" /\ g.key = k /\ g.since = price
      BY <1>2, MarketDataAssumption DEF Flight
    <2> HIDE DEF g
    <2>3. /\ flight' \in [Callers -> Flight] /\ flight'[c] = g
          /\ \A f \in Callers \ {c} : flight'[f] = flight[f]
          /\ BackoffFits' /\ OneFlightPerSymbol'
      BY <1>8, <2>1, <2>2
    <2>4. TypeOK'
      BY <1>1, <1>2, <1>4, <1>5, <2>1, <2>3 DEF IInv, TypeOK
    <2>5. /\ Running' = Running \cup {c} /\ c \notin Running
          /\ Waiting' = Waiting
      BY <1>3, <2>2, <2>3 DEF Running, Waiting
    <2>6. IsFiniteSet(Running') /\ Cardinality(Running') = Cardinality(Running) + 1
      BY <2>5, FS_AddElement DEF IInv
    <2>7. SlotsAccountedFor'
      BY <1>2, <1>9, <2>1, <2>5, <2>6, MarketDataAssumption DEF IInv, SlotsAccountedFor
    <2>8. price <= price /\ \A f \in Running : flight'[f] = flight[f]
      BY <1>2, <2>3, <2>5 DEF Running
    <2>9. ValuesInOrder'
      BY <1>1, <1>6, <1>7, <2>2, <2>3, <2>5, <2>8 DEF IInv, ValuesInOrder
    <2> QED
      BY <2>3, <2>4, <2>6, <2>7, <2>9 DEF IInv
  <1>10. CASE ~(active < MAX_CONCURRENCY)
    <2> DEFINE g == [flight[c] EXCEPT !.pc = "waiting", !.key = k]
    <2>1. active' = active /\ waitQueue' = Append(waitQueue, c)
      BY <1>10 DEF Open
    <2>2. /\ g \in Flight /\ g.pc = "waiting" /\ g.key = k
      BY <1>2 DEF Flight
    <2>3. flight' = [flight EXCEPT ![c] = g]
      BY <1>2, <1>10 DEF Open
    <2> HIDE DEF g
    <2>4. /\ flight' \in [Callers -> Flight] /\ flight'[c] = g
          /\ \A f \in Callers \ {c} : flight'[f] = flight[f]
          /\ BackoffFits' /\ OneFlightPerSymbol'
      BY <1>8, <2>2, <2>3
    <2>5. /\ waitQueue' \in Seq(Callers) /\ Len(waitQueue') = Len(waitQueue) + 1
          /\ Len(waitQueue) \in Nat /\ DOMAIN waitQueue = 1 .. Len(waitQueue)
          /\ DOMAIN waitQueue' = 1 .. (Len(waitQueue) + 1)
          /\ waitQueue'[Len(waitQueue) + 1] = c
          /\ \A i \in 1 .. Len(waitQueue) : waitQueue'[i] = waitQueue[i]
      BY <1>2, <2>1
    <2>6. TypeOK'
      BY <1>1, <1>2, <1>4, <1>5, <2>1, <2>4, <2>5 DEF IInv, TypeOK
    <2>7. /\ Running' = Running /\ c \notin Running
          /\ Waiting' = Waiting \cup {c} /\ c \notin Waiting
      BY <1>3, <2>2, <2>4 DEF Running, Waiting
    <2>8. /\ active' = Cardinality(Running') /\ active' <= MAX_CONCURRENCY
          /\ waitQueue' # <<>> => active' = MAX_CONCURRENCY
      BY <1>2, <1>10, <2>1, <2>7, MarketDataAssumption DEF IInv, SlotsAccountedFor
    <2>9. Waiting' = {waitQueue'[i] : i \in DOMAIN waitQueue'}
      BY <2>5, <2>7 DEF IInv, SlotsAccountedFor
    <2>10. \A i \in 1 .. Len(waitQueue) : waitQueue[i] # c
      BY <2>5, <2>7 DEF IInv, SlotsAccountedFor
    <2>11. \A i, j \in DOMAIN waitQueue' : waitQueue'[i] = waitQueue'[j] => i = j
      BY <2>5, <2>10 DEF IInv, SlotsAccountedFor
    <2>12. SlotsAccountedFor'
      BY <2>8, <2>9, <2>11 DEF SlotsAccountedFor
    <2>13. \A f \in Running : flight'[f] = flight[f]
      BY <2>4, <2>7 DEF Running
    <2>14. ValuesInOrder'
      BY <1>1, <1>6, <1>7, <2>7, <2>13 DEF IInv, ValuesInOrder
    <2> QED
      BY <2>4, <2>6, <2>7, <2>12, <2>14 DEF IInv
  <1> QED
    BY <1>9, <1>10
\* releaseSlot: the slot of f goes to the flight that waited longest, or back.
LEMMA ReleaseKeeps ==
  ASSUME IInv, NEW f \in Callers, flight[f].pc = "fetching", ReleaseSlot(f)
  PROVE  /\ active' \in Nat /\ waitQueue' \in Seq(Callers) /\ flight' \in [Callers -> Flight]
         /\ IsFiniteSet(Running)' /\ SlotsAccountedFor'
         /\ flight'[f].pc = "none"
         /\ \A g \in Callers \ {f} :
              /\ flight'[g].key = flight[g].key
              /\ flight'[g].pc = "none" <=> flight[g].pc = "none"
              /\ flight'[g].pc = "backoff" => flight'[g] = flight[g]
         /\ \A g \in Running' :
              g # f /\ (flight'[g].since = price \/ (g \in Running /\ flight'[g] = flight[g]))
  <1>1. /\ flight \in [Callers -> Flight] /\ \A g \in Callers : flight[g] \in Flight
        /\ price \in 0 .. MaxPrice /\ active \in Nat
        /\ waitQueue \in Seq(Callers) /\ IsFiniteSet(Running)
    BY DEF IInv, TypeOK
  <1>2. NoFlightYet \in Flight /\ NoFlightYet.pc = "none"
    BY MarketDataAssumption DEF NoFlightYet, Flight
  <1>3. f \in Running /\ f \notin Waiting
    BY DEF Running, Waiting
  <1>4. CASE waitQueue = <<>>
    <2>1. /\ active' = active - 1 /\ waitQueue' = <<>>
          /\ flight' = [g \in Callers |-> IF g = f THEN NoFlightYet ELSE flight[g]]
      BY <1>4 DEF ReleaseSlot, SlotsLeft, Woken
    <2>2. /\ flight' \in [Callers -> Flight] /\ flight'[f] = NoFlightYet
          /\ \A g \in Callers \ {f} : flight'[g] = flight[g]
      BY <1>1, <1>2, <2>1
    <2>3. Running' = Running \ {f} /\ Waiting' = Waiting
      BY <1>2, <1>3, <2>2 DEF Running, Waiting
    <2>4. /\ IsFiniteSet(Running') /\ Cardinality(Running') = Cardinality(Running) - 1
          /\ Cardinality(Running') \in Nat
      BY <1>1, <1>3, <2>3, FS_RemoveElement, FS_CardinalityType
    <2>5. SlotsAccountedFor'
      BY <1>1, <1>4, <2>1, <2>3, <2>4, MarketDataAssumption DEF IInv, SlotsAccountedFor
    <2>6. \A g \in Running' : g # f /\ g \in Running /\ flight'[g] = flight[g]
      BY <2>2, <2>3 DEF Running
    <2>7. active' \in Nat /\ waitQueue' \in Seq(Callers)
      BY <1>1, <1>4, <2>1, <2>4 DEF IInv, SlotsAccountedFor
    <2> QED
      BY <1>2, <2>2, <2>4, <2>5, <2>6, <2>7
  <1>5. CASE waitQueue # <<>>
    <2> DEFINE h == Head(waitQueue)
               q == [flight[h] EXCEPT !.pc = "fetching", !.since = price]
    <2>1. /\ Len(waitQueue) \in Nat /\ DOMAIN waitQueue = 1 .. Len(waitQueue)
          /\ Len(waitQueue) >= 1 /\ h = waitQueue[1] /\ h \in Callers
          /\ Tail(waitQueue) \in Seq(Callers)
          /\ Len(Tail(waitQueue)) = Len(waitQueue) - 1
          /\ DOMAIN Tail(waitQueue) = 1 .. (Len(waitQueue) - 1)
          /\ \A i \in 1 .. (Len(waitQueue) - 1) : Tail(waitQueue)[i] = waitQueue[i + 1]
      BY <1>1, <1>5
    <2> HIDE DEF h
    <2>2. h \in Waiting /\ h # f /\ h \notin Running
      BY <1>3, <2>1 DEF IInv, SlotsAccountedFor, Running, Waiting
    <2>3. /\ q \in Flight /\ q.pc = "fetching" /\ q.key = flight[h].key /\ q.since = price
      <3>1. flight[h] \in Flight /\ price \in 0 .. MaxPrice
        BY <1>1, <2>1
      <3>2. ASSUME NEW e \in Flight
            PROVE  LET new == [e EXCEPT !.pc = "fetching", !.since = price]
                   IN  /\ new \in Flight /\ new.pc = "fetching"
                       /\ new.key = e.key /\ new.since = price
        BY <3>1 DEF Flight
      <3> QED
        BY <3>1, <3>2
    <2>4. /\ active' = active /\ waitQueue' = Tail(waitQueue)
          /\ flight' = [g \in Callers |-> IF g = f THEN NoFlightYet
                                          ELSE IF g = h THEN q ELSE flight[g]]
      <3>1. Woken = {h}
        BY <1>5 DEF Woken, h
      <3> QED
        BY <1>5, <2>2, <3>1 DEF ReleaseSlot, SlotsLeft
    <2> HIDE DEF q
    <2>5. /\ flight' \in [Callers -> Flight] /\ flight'[f] = NoFlightYet /\ flight'[h] = q
          /\ \A g \in Callers \ {f, h} : flight'[g] = flight[g]
      BY <1>1, <1>2, <2>1, <2>2, <2>3, <2>4
    <2>6. /\ Running' = (Running \ {f}) \cup {h}
          /\ Waiting' = Waiting \ {h}
      BY <1>2, <1>3, <2>1, <2>2, <2>3, <2>5 DEF Running, Waiting
    <2>7. IsFiniteSet(Running') /\ Cardinality(Running') = Cardinality(Running)
      <3> DEFINE rest == Running \ {f}
      <3>1. /\ IsFiniteSet(rest) /\ Cardinality(rest) = Cardinality(Running) - 1
            /\ h \notin rest /\ Cardinality(Running) \in Nat
        BY <1>1, <1>3, <2>2, FS_RemoveElement, FS_CardinalityType
      <3>2. Running' = rest \cup {h}
        BY <2>6
      <3> HIDE DEF rest
      <3>3. IsFiniteSet(Running') /\ Cardinality(Running') = Cardinality(rest) + 1
        BY <3>1, <3>2, FS_AddElement
      <3> QED
        BY <3>1, <3>3
    <2>8. /\ Waiting = {waitQueue[i] : i \in 1 .. Len(waitQueue)}
          /\ \A i, j \in 1 .. Len(waitQueue) : waitQueue[i] = waitQueue[j] => i = j
          /\ active = Cardinality(Running) /\ active = MAX_CONCURRENCY
      BY <1>5, <2>1 DEF IInv, SlotsAccountedFor
    <2>9. /\ DOMAIN waitQueue' = 1 .. (Len(waitQueue) - 1)
          /\ \A i \in 1 .. (Len(waitQueue) - 1) : waitQueue'[i] = waitQueue[i + 1]
      BY <2>1, <2>4
    <2>10. Waiting' = {waitQueue'[i] : i \in DOMAIN waitQueue'}
      <3>1. \A i \in 2 .. Len(waitQueue) : waitQueue[i] # h
        BY <2>1, <2>8
      <3>2. ASSUME NEW g \in Waiting' PROVE \E i \in DOMAIN waitQueue' : g = waitQueue'[i]
        <4>1. PICK i \in 1 .. Len(waitQueue) : g = waitQueue[i]
          BY <2>6, <2>8, <3>2
        <4>2. i # 1
          BY <2>1, <2>6, <3>2, <4>1
        <4>3. i - 1 \in 1 .. (Len(waitQueue) - 1) /\ (i - 1) + 1 = i
          BY <2>1, <4>2
        <4> QED
          BY <2>9, <4>1, <4>3
      <3>3. ASSUME NEW i \in DOMAIN waitQueue' PROVE waitQueue'[i] \in Waiting'
        <4>1. i + 1 \in 2 .. Len(waitQueue) /\ i + 1 \in 1 .. Len(waitQueue)
          BY <2>1, <2>9, <3>3
        <4>2. waitQueue'[i] = waitQueue[i + 1] /\ waitQueue[i + 1] \in Waiting
          BY <2>8, <2>9, <4>1
        <4> QED
          BY <2>6, <3>1, <4>1, <4>2
      <3> QED
        BY <3>2, <3>3
    <2>11. \A i, j \in DOMAIN waitQueue' : waitQueue'[i] = waitQueue'[j] => i = j
      <3> SUFFICES ASSUME NEW i \in DOMAIN waitQueue', NEW j \in DOMAIN waitQueue',
                          waitQueue'[i] = waitQueue'[j]
                   PROVE  i = j
        OBVIOUS
      <3>1. i + 1 \in 1 .. Len(waitQueue) /\ j + 1 \in 1 .. Len(waitQueue)
        BY <2>1, <2>9
      <3>2. i + 1 = j + 1
        BY <2>8, <2>9, <3>1
      <3> QED
        BY <2>1, <2>9, <3>2
    <2>12. SlotsAccountedFor'
      BY <1>1, <2>4, <2>7, <2>8, <2>10, <2>11, MarketDataAssumption DEF SlotsAccountedFor
    <2>13. /\ \A g \in Running' : g # f
           /\ \A g \in Running' \ {h} : g \in Running /\ flight'[g] = flight[g]
      BY <2>2, <2>5, <2>6 DEF Running
    <2>14. flight[h].pc = "waiting"
      BY <2>2 DEF Waiting
    <2> QED
      BY <1>1, <1>2, <2>1, <2>2, <2>3, <2>4, <2>5, <2>7, <2>12, <2>13, <2>14
  <1> QED
    BY <1>4, <1>5
\* The end of the flight f: no flight of its symbol is left, and everyone who
\* awaited it has an answer or an error.
LEMMA SettleKeeps ==
  ASSUME IInv, NEW f \in Callers, Settle(f),
         NEW pc \in {"answered", "failed"}, NEW v \in 0 .. MaxPrice, AnswerAll(f, pc, v)
  PROVE  /\ flight[f].pc = "fetching" /\ flight[f].key \in Symbols /\ f \in Running
         /\ inFlight' \in [Symbols -> Callers \cup {NoFlight}]
         /\ caller' \in [Callers -> Caller]
         /\ BackoffFits' /\ OneFlightPerSymbol'
         /\ \A g \in Running' :
              /\ flight'[g].key = flight[g].key /\ flight'[g].key # flight[f].key
              /\ flight'[g].since = price \/ (g \in Running /\ flight'[g] = flight[g])
         /\ \A c \in Answered' :
              \/ c \in Answered /\ caller'[c] = caller[c]
              \/ pc = "answered" /\ caller'[c].key = flight[f].key /\ caller'[c].value = v
  <1> DEFINE k == flight[f].key
  <1>1. /\ flight[f].pc = "fetching" /\ ReleaseSlot(f)
        /\ inFlight' = [inFlight EXCEPT ![k] = IF @ = f THEN NoFlight ELSE @]
    BY DEF Settle
  <1>2. /\ inFlight \in [Symbols -> Callers \cup {NoFlight}]
        /\ caller \in [Callers -> Caller]
    BY DEF IInv, TypeOK
  <1>3. k \in Symbols /\ inFlight[k] = f /\ f # NoFlight
    BY <1>1, MarketDataAssumption DEF IInv, OneFlightPerSymbol
  <1> HIDE DEF k
  <1>4. /\ inFlight' \in [Symbols -> Callers \cup {NoFlight}] /\ inFlight'[k] = NoFlight
        /\ \A l \in Symbols \ {k} : inFlight'[l] = inFlight[l]
    BY <1>1, <1>2, <1>3
  <1>5. /\ flight'[f].pc = "none"
        /\ \A g \in Callers \ {f} :
             /\ flight'[g].key = flight[g].key
             /\ flight'[g].pc = "none" <=> flight[g].pc = "none"
             /\ flight'[g].pc = "backoff" => flight'[g] = flight[g]
        /\ \A g \in Running' :
             g # f /\ (flight'[g].since = price \/ (g \in Running /\ flight'[g] = flight[g]))
    BY <1>1, ReleaseKeeps
  <1> DEFINE end == [pc |-> pc, key |-> k, flight |-> NoFlight, value |-> v]
  <1>6. end \in Caller /\ end.pc = pc /\ end.key = k /\ end.value = v
    BY <1>3 DEF Caller
  <1>7. caller' = [c \in Callers |-> IF c \in Sharing(f) THEN end ELSE caller[c]]
    BY DEF AnswerAll, k
  <1> HIDE DEF end
  <1>8. /\ caller' \in [Callers -> Caller]
        /\ \A c \in Callers : caller'[c] = IF c \in Sharing(f) THEN end ELSE caller[c]
    BY <1>2, <1>6, <1>7
  <1>9. \A c \in Sharing(f) : caller[c].key = k
    BY <1>3 DEF IInv, OneFlightPerSymbol, Sharing, k
  <1>10. \A g \in Callers \ {f} : flight[g].pc # "none" => flight[g].key # k
    BY <1>3 DEF IInv, OneFlightPerSymbol
  <1>11. BackoffFits'
    BY <1>5 DEF IInv, BackoffFits
  <1>12. OneFlightPerSymbol'
    <2>1. \A g \in Callers : flight'[g].pc # "none" =>
            /\ flight'[g].key \in Symbols /\ inFlight'[flight'[g].key] = g
            /\ caller'[g].pc = "awaiting" /\ caller'[g].flight = g
      <3> SUFFICES ASSUME NEW g \in Callers, flight'[g].pc # "none"
                   PROVE  /\ flight'[g].key \in Symbols /\ inFlight'[flight'[g].key] = g
                          /\ caller'[g].pc = "awaiting" /\ caller'[g].flight = g
        OBVIOUS
      <3>1. /\ g # f /\ flight'[g].key = flight[g].key /\ flight[g].pc # "none"
            /\ flight[g].key # k
        BY <1>5, <1>10
      <3>2. /\ flight[g].key \in Symbols /\ inFlight[flight[g].key] = g
            /\ caller[g].pc = "awaiting" /\ caller[g].flight = g
        BY <3>1 DEF IInv, OneFlightPerSymbol
      <3>3. g \notin Sharing(f)
        BY <3>1, <3>2 DEF Sharing
      <3> QED
        BY <1>4, <1>8, <3>1, <3>2, <3>3
    <2>2. \A l \in Symbols : inFlight'[l] # NoFlight =>
            flight'[inFlight'[l]].pc # "none" /\ flight'[inFlight'[l]].key = l
      <3> SUFFICES ASSUME NEW l \in Symbols, inFlight'[l] # NoFlight
                   PROVE  flight'[inFlight'[l]].pc # "none" /\ flight'[inFlight'[l]].key = l
        OBVIOUS
      <3>1. l # k /\ inFlight'[l] = inFlight[l]
        BY <1>4
      <3>2. /\ inFlight[l] \in Callers
            /\ flight[inFlight[l]].pc # "none" /\ flight[inFlight[l]].key = l
        BY <1>2, <3>1 DEF IInv, OneFlightPerSymbol
      <3>3. inFlight[l] # f
        BY <3>1, <3>2 DEF k
      <3> QED
        BY <1>5, <3>1, <3>2, <3>3
    <2>3. \A d \in Callers : caller'[d].pc = "awaiting" =>
            /\ caller'[d].key \in Symbols /\ caller'[d].flight # NoFlight
            /\ inFlight'[caller'[d].key] = caller'[d].flight
      <3> SUFFICES ASSUME NEW d \in Callers, caller'[d].pc = "awaiting"
                   PROVE  /\ caller'[d].key \in Symbols /\ caller'[d].flight # NoFlight
                          /\ inFlight'[caller'[d].key] = caller'[d].flight
        OBVIOUS
      <3>1. d \notin Sharing(f) /\ caller'[d] = caller[d]
        BY <1>6, <1>8
      <3>2. /\ caller[d].key \in Symbols /\ caller[d].flight # NoFlight
            /\ inFlight[caller[d].key] = caller[d].flight /\ caller[d].flight # f
        BY <3>1 DEF IInv, OneFlightPerSymbol, Sharing
      <3>3. caller[d].key # k
        BY <1>3, <3>2
      <3> QED
        BY <1>4, <3>1, <3>2, <3>3
    <2> QED
      BY <2>1, <2>2, <2>3 DEF OneFlightPerSymbol
  <1>13. \A g \in Running' :
           /\ flight'[g].key = flight[g].key /\ flight'[g].key # k
           /\ flight'[g].since = price \/ (g \in Running /\ flight'[g] = flight[g])
    BY <1>5, <1>10 DEF Running
  <1>14. \A c \in Answered' :
           \/ c \in Answered /\ caller'[c] = caller[c]
           \/ pc = "answered" /\ caller'[c].key = k /\ caller'[c].value = v
    BY <1>6, <1>8 DEF Answered
  <1>15. f \in Running
    BY <1>1 DEF Running
  <1> QED
    BY <1>1, <1>3, <1>4, <1>8, <1>11, <1>12, <1>13, <1>14, <1>15 DEF k

LEMMA SucceedKeeps ==
  ASSUME IInv, NEW f \in Callers, Succeed(f)
  PROVE  IInv'
  <1> DEFINE k == flight[f].key
  <1>1. PICK v \in flight[f].since .. price :
          cache' = SetCached(k, v) /\ AnswerAll(f, "answered", v)
    BY DEF Succeed
  <1>2. Settle(f) /\ ReleaseSlot(f) /\ price' = price /\ flight[f].pc = "fetching"
    BY DEF Succeed, Settle
  <1>3. /\ price \in 0 .. MaxPrice /\ flight[f] \in Flight /\ CacheTyped
        /\ MaxPrice \in Nat
    BY MarketDataAssumption DEF IInv, TypeOK, CacheTyped
  <1>4. flight[f].since \in 0 .. MaxPrice
    BY <1>3 DEF Flight
  <1>5. v \in 0 .. MaxPrice /\ flight[f].since <= v /\ v <= price /\ v <= v
    BY <1>1, <1>3, <1>4
  <1>6. /\ k \in Symbols /\ f \in Running
        /\ inFlight' \in [Symbols -> Callers \cup {NoFlight}]
        /\ caller' \in [Callers -> Caller]
        /\ BackoffFits' /\ OneFlightPerSymbol'
        /\ \A g \in Running' :
             /\ flight'[g].key = flight[g].key /\ flight'[g].key # k
             /\ flight'[g].since = price \/ (g \in Running /\ flight'[g] = flight[g])
        /\ \A c \in Answered' :
             \/ c \in Answered /\ caller'[c] = caller[c]
             \/ caller'[c].key = k /\ caller'[c].value = v
    BY <1>1, <1>2, <1>5, SettleKeeps
  <1>7. /\ active' \in Nat /\ waitQueue' \in Seq(Callers) /\ flight' \in [Callers -> Flight]
        /\ IsFiniteSet(Running)' /\ SlotsAccountedFor'
    BY <1>2, ReleaseKeeps
  <1> HIDE DEF k
  <1>8. /\ cache' \in Seq(Entry) /\ Len(cache') <= MAX_CACHE_ENTRIES
        /\ \A i, j \in DOMAIN cache' : cache'[i].key = cache'[j].key => i = j
        /\ \A i \in DOMAIN cache' :
             \/ cache'[i].key = k /\ cache'[i].value = v
             \/ cache'[i].key # k /\ \E j \in DOMAIN cache : cache'[i] = cache[j]
    BY <1>1, <1>3, <1>5, <1>6, SetCachedKeeps
  <1>9. TypeOK'
    BY <1>2, <1>3, <1>6, <1>7, <1>8 DEF TypeOK
  <1>10. /\ \A c \in Answered : caller[c].key = k => caller[c].value <= flight[f].since
         /\ \A c \in Answered : caller[c].value \in Int
    <2>1. \A c \in Answered : caller[c] \in Caller
      BY DEF IInv, TypeOK, Answered
    <2> QED
      BY <1>3, <1>6, <2>1 DEF IInv, ValuesInOrder, Caller, k
  <1>11. ValuesInOrder'
    <2>1. /\ \A i \in DOMAIN cache' : cache'[i].value <= price'
          /\ \A g \in Running' : flight'[g].since <= price'
          /\ \A c \in Answered' : caller'[c].value <= price'
      BY <1>2, <1>3, <1>5, <1>6, <1>8 DEF IInv, ValuesInOrder
    <2>2. \A i \in DOMAIN cache', g \in Running' :
            cache'[i].key = flight'[g].key => cache'[i].value <= flight'[g].since
      BY <1>2, <1>6, <1>8 DEF IInv, ValuesInOrder
    <2>3. \A c \in Answered', g \in Running' :
            caller'[c].key = flight'[g].key => caller'[c].value <= flight'[g].since
      BY <1>2, <1>6 DEF IInv, ValuesInOrder
    <2>4. \A c \in Answered', i \in DOMAIN cache' :
            caller'[c].key = cache'[i].key => caller'[c].value <= cache'[i].value
      <3> SUFFICES ASSUME NEW c \in Answered', NEW i \in DOMAIN cache',
                          caller'[c].key = cache'[i].key
                   PROVE  caller'[c].value <= cache'[i].value
        OBVIOUS
      <3>1. CASE cache'[i].key = k
        <4>1. cache'[i].value = v
          BY <1>8, <3>1
        <4>2. CASE c \in Answered /\ caller'[c] = caller[c]
          BY <1>3, <1>4, <1>5, <1>10, <3>1, <4>1, <4>2
        <4>3. CASE caller'[c].value = v
          BY <1>5, <4>1, <4>3
        <4> QED
          BY <1>6, <4>2, <4>3
      <3>2. CASE cache'[i].key # k
        <4>1. PICK j \in DOMAIN cache : cache'[i] = cache[j]
          BY <1>8, <3>2
        <4>2. c \in Answered /\ caller'[c] = caller[c]
          BY <1>6, <3>2
        <4> QED
          BY <4>1, <4>2 DEF IInv, ValuesInOrder
      <3> QED
        BY <3>1, <3>2
    <2> QED
      BY <2>1, <2>2, <2>3, <2>4 DEF ValuesInOrder
  <1> QED
    BY <1>6, <1>7, <1>9, <1>11 DEF IInv
LEMMA FailKeeps ==
  ASSUME IInv, NEW f \in Callers, Fail(f)
  PROVE  IInv'
  <1> DEFINE k == flight[f].key
  <1>1. Settle(f) /\ ReleaseSlot(f) /\ price' = price /\ cache' = cache /\ flight[f].pc = "fetching"
    BY DEF Fail, Settle
  <1>2. /\ price \in 0 .. MaxPrice /\ price <= price
        /\ \A i \in DOMAIN cache : cache[i].value \in 0 .. MaxPrice
    <2>1. price \in 0 .. MaxPrice /\ \A i \in DOMAIN cache : cache[i] \in Entry
      BY DEF IInv, TypeOK
    <2> QED
      BY <2>1, MarketDataAssumption DEF Entry
  <1>3. PICK pc \in {"answered", "failed"}, v \in 0 .. MaxPrice :
          /\ AnswerAll(f, pc, v)
          /\ pc = "answered" => \E i \in DOMAIN cache : cache[i].key = k /\ cache[i].value = v
    <2>1. CASE StaleCached(k) # {}
      <3>1. PICK e \in StaleCached(k) : AnswerAll(f, "answered", e.value)
        BY <2>1 DEF Fail
      <3>2. PICK i \in DOMAIN cache : e = cache[i] /\ cache[i].key = k
        BY DEF StaleCached
      <3> QED
        BY <1>2, <3>1, <3>2
    <2>2. CASE StaleCached(k) = {}
      <3>1. AnswerAll(f, "failed", 0)
        BY <2>2 DEF Fail
      <3> QED
        BY <3>1, MarketDataAssumption
    <2> QED
      BY <2>1, <2>2
  <1>4. /\ k \in Symbols /\ f \in Running
        /\ inFlight' \in [Symbols -> Callers \cup {NoFlight}]
        /\ caller' \in [Callers -> Caller]
        /\ BackoffFits' /\ OneFlightPerSymbol'
        /\ \A g \in Running' :
             /\ flight'[g].key = flight[g].key /\ flight'[g].key # k
             /\ flight'[g].since = price \/ (g \in Running /\ flight'[g] = flight[g])
        /\ \A c \in Answered' :
             \/ c \in Answered /\ caller'[c] = caller[c]
             \/ pc = "answered" /\ caller'[c].key = k /\ caller'[c].value = v
    BY <1>1, <1>3, SettleKeeps
  <1>5. /\ active' \in Nat /\ waitQueue' \in Seq(Callers) /\ flight' \in [Callers -> Flight]
        /\ IsFiniteSet(Running)' /\ SlotsAccountedFor'
    BY <1>1, ReleaseKeeps
  <1> HIDE DEF k
  <1>6. TypeOK'
    BY <1>1, <1>4, <1>5 DEF IInv, TypeOK
  <1>7. ASSUME NEW c \in Answered'
        PROVE  \/ c \in Answered /\ caller'[c] = caller[c]
               \/ \E i \in DOMAIN cache :
                    /\ caller'[c].key = k /\ cache[i].key = k
                    /\ caller'[c].value = cache[i].value
    BY <1>3, <1>4
  <1>8. ValuesInOrder'
    <2>1. /\ \A i \in DOMAIN cache' : cache'[i].value <= price'
          /\ \A g \in Running' : flight'[g].since <= price'
          /\ \A c \in Answered' : caller'[c].value <= price'
      BY <1>1, <1>2, <1>4, <1>7 DEF IInv, ValuesInOrder
    <2>2. \A i \in DOMAIN cache', g \in Running' :
            cache'[i].key = flight'[g].key => cache'[i].value <= flight'[g].since
      BY <1>1, <1>4 DEF IInv, ValuesInOrder
    <2>3. \A c \in Answered', g \in Running' :
            caller'[c].key = flight'[g].key => caller'[c].value <= flight'[g].since
      BY <1>1, <1>4, <1>7 DEF IInv, ValuesInOrder
    <2>4. \A c \in Answered', i \in DOMAIN cache' :
            caller'[c].key = cache'[i].key => caller'[c].value <= cache'[i].value
      <3>1. \A i, j \in DOMAIN cache : cache[i].key = cache[j].key => i = j
        BY DEF IInv, TypeOK
      <3>2. \A i \in DOMAIN cache : cache[i].value <= cache[i].value
        BY <1>2
      <3> QED
        BY <1>1, <1>7, <3>1, <3>2 DEF IInv, ValuesInOrder
    <2> QED
      BY <2>1, <2>2, <2>3, <2>4 DEF ValuesInOrder
  <1> QED
    BY <1>4, <1>5, <1>6, <1>8 DEF IInv

-----------------------------------------------------------------------------
(* Theorems *)

LEMMA StutterKeeps ==
  ASSUME IInv, UNCHANGED vars
  PROVE  IInv'
  <1>1. UNCHANGED <<price, cache, inFlight, flight, active, waitQueue, caller>>
    BY DEF vars
  <1>2. Running' = Running /\ Waiting' = Waiting /\ Answered' = Answered
    BY <1>1 DEF Running, Waiting, Answered
  <1>3. IsFiniteSet(Running)' /\ SlotsAccountedFor'
    BY <1>1, <1>2, SlotsKept
  <1> QED
    BY <1>1, <1>2, <1>3
       DEF IInv, TypeOK, BackoffFits, OneFlightPerSymbol, ValuesInOrder

LEMMA NextKeeps ==
  ASSUME IInv, [Next]_vars
  PROVE  IInv'
  <1>1. ASSUME NEW c \in Callers, NEW k \in Symbols, Hit(c, k) PROVE IInv'
    BY <1>1, HitKeeps
  <1>2. ASSUME NEW c \in Callers, NEW k \in Symbols, Join(c, k) PROVE IInv'
    BY <1>2, JoinKeeps
  <1>3. ASSUME NEW c \in Callers, NEW k \in Symbols, Open(c, k) PROVE IInv'
    BY <1>3, OpenKeeps
  <1>4. ASSUME NEW f \in Callers, Retry(f) \/ BackoffEnds(f) PROVE IInv'
    BY <1>4, RetryKeeps
  <1>5. ASSUME NEW f \in Callers, Succeed(f) PROVE IInv'
    BY <1>5, SucceedKeeps
  <1>6. ASSUME NEW f \in Callers, Fail(f) PROVE IInv'
    BY <1>6, FailKeeps
  <1>7. ASSUME NEW i \in DOMAIN cache, Expire(i) PROVE IInv'
    BY <1>7, ExpireKeeps
  <1>8. ASSUME PriceMoves PROVE IInv'
    BY <1>8, PriceMovesKeeps
  <1>9. ASSUME UNCHANGED vars PROVE IInv'
    BY <1>9, StutterKeeps
  <1> QED
    BY <1>1, <1>2, <1>3, <1>4, <1>5, <1>6, <1>7, <1>8, <1>9 DEF Next, AllAnswered

\* A step answers at most with what was cached, or with what a flight of the
\* same symbol has just brought: never with less than was answered before.
LEMMA StepAnswers ==
  ASSUME IInv, [Next]_vars, NEW c \in Callers, NEW d \in Callers,
         caller[c].pc = "answered",
         caller[d].pc # "answered", caller'[d].pc = "answered",
         caller[c].key = caller'[d].key
  PROVE  caller[c].value <= caller'[d].value
  <1>1. IInv'
    BY NextKeeps
  <1>2. c \in Answered
    BY DEF Answered
  <1>3. ASSUME NEW a \in Callers, NEW k \in Symbols, Hit(a, k)
        PROVE  caller[c].value <= caller'[d].value
    <2>1. PICK i \in DOMAIN cache :
            /\ cache[i].key = k
            /\ caller' = [caller EXCEPT ![a] = [pc |-> "answered", key |-> k,
                                                flight |-> NoFlight, value |-> cache[i].value]]
      BY <1>3 DEF Hit, Cached
    <2>2. d = a /\ caller'[d].key = k /\ caller'[d].value = cache[i].value
      BY <2>1 DEF IInv, TypeOK
    <2> QED
      BY <1>2, <2>1, <2>2 DEF IInv, ValuesInOrder
  <1>4. ASSUME NEW f \in Callers, Succeed(f)
        PROVE  caller[c].value <= caller'[d].value
    <2>1. PICK v \in flight[f].since .. price : AnswerAll(f, "answered", v)
      BY <1>4 DEF Succeed
    <2>2. /\ caller'[d] = [pc |-> "answered", key |-> flight[f].key,
                           flight |-> NoFlight, value |-> v]
          /\ f \in Running
      BY <1>4, <2>1 DEF AnswerAll, Succeed, Settle, Running
    <2>3. caller[c].value <= flight[f].since
      BY <1>2, <2>2 DEF IInv, ValuesInOrder
    <2>4. flight[f] \in Flight /\ caller[c] \in Caller /\ price \in 0 .. MaxPrice
      BY DEF IInv, TypeOK
    <2>5. flight[f].since \in Int /\ caller[c].value \in Int
      BY <2>4, MarketDataAssumption DEF Flight, Caller
    <2> QED
      BY <2>1, <2>2, <2>3, <2>4, <2>5
  <1>5. ASSUME NEW f \in Callers, Fail(f)
        PROVE  caller[c].value <= caller'[d].value
    <2>1. CASE StaleCached(flight[f].key) # {}
      <3>1. PICK e \in StaleCached(flight[f].key) : AnswerAll(f, "answered", e.value)
        BY <1>5, <2>1 DEF Fail
      <3>2. caller'[d].key = flight[f].key /\ caller'[d].value = e.value
        BY <3>1 DEF AnswerAll
      <3>3. PICK i \in DOMAIN cache : e = cache[i] /\ cache[i].key = flight[f].key
        BY DEF StaleCached
      <3> QED
        BY <1>2, <3>2, <3>3 DEF IInv, ValuesInOrder
    <2>2. CASE StaleCached(flight[f].key) = {}
      <3>1. AnswerAll(f, "failed", 0)
        BY <1>5, <2>2 DEF Fail
      <3> QED
        BY <3>1 DEF AnswerAll
    <2> QED
      BY <2>1, <2>2
  <1>6. ASSUME NEW a \in Callers, NEW k \in Symbols, Join(a, k) \/ Open(a, k) PROVE FALSE
    <2>1. PICK f \in Callers \cup {NoFlight} : Await(a, k, f)
      BY <1>6 DEF Join, Open, Existing, IInv, TypeOK
    <2> QED
      BY <2>1 DEF Await, IInv, TypeOK
  <1>7. caller' # caller
    OBVIOUS
  <1> QED
    BY <1>3, <1>4, <1>5, <1>6, <1>7
       DEF Next, Retry, BackoffEnds, Expire, PriceMoves, AllAnswered, vars

\* The inductive invariant holds for any number of calls, symbols, slots and
\* retries.
THEOREM MarketDataInvariant == Spec => []IInv
  <1>1. Init => IInv
    BY InitIInv
  <1>2. IInv /\ [Next]_vars => IInv'
    BY NextKeeps
  <1> QED
    BY <1>1, <1>2, PTL DEF Spec

\* Every state of the cache and of the queue has its type; the cache never holds
\* two entries of a key, nor more than MAX_CACHE_ENTRIES.
THEOREM MarketDataTypes == Spec => []TypeOK
  <1>1. IInv => TypeOK
    BY DEF IInv
  <1> QED
    BY <1>1, MarketDataInvariant, PTL

\* acquireSlot and releaseSlot lose no slot and no waiter: the counter is the
\* number of flights that hold a slot, and no flight waits while one is free.
THEOREM SlotsNeverLost == Spec => []SlotsAccountedFor
  <1>1. IInv => SlotsAccountedFor
    BY DEF IInv
  <1> QED
    BY <1>1, MarketDataInvariant, PTL

\* No caller is shown an older price of a symbol than another was shown before,
\* whatever shares a flight, bypasses the cache, retries or falls back.
THEOREM PricesGoForward == Spec => AnswersNeverGoBack
  <1>1. IInv /\ [Next]_vars
          => [\A c, d \in Callers :
                /\ caller[c].pc = "answered"
                /\ caller[d].pc # "answered" /\ caller'[d].pc = "answered"
                /\ caller[c].key = caller'[d].key
                => caller[c].value <= caller'[d].value]_vars
    BY StepAnswers
  <1> QED
    BY <1>1, MarketDataInvariant, PTL DEF Spec, AnswersNeverGoBack


-----------------------------------------------------------------------------
(* The cache of SEC *)

\* The entries of a Map: one of each key.
SecMap(es) ==
  /\ es \in Seq(Sec!Entry)
  /\ \A i, j \in DOMAIN es : es[i].key = es[j].key => i = j

LEMMA SecMapFacts ==
  ASSUME NEW es, SecMap(es)
  PROVE  /\ Len(es) \in Nat /\ DOMAIN es = 1 .. Len(es)
         /\ \A i \in DOMAIN es : es[i] \in Sec!Entry
  BY DEF SecMap

\* A sequence of distinct keys, one longer.
LEMMA SecAppended ==
  ASSUME NEW es, SecMap(es), NEW e \in Sec!Entry, Sec!Places(es, e.key) = {}
  PROVE  LET new == Append(es, e)
         IN  /\ SecMap(new) /\ Len(new) = Len(es) + 1
             /\ \A i \in DOMAIN new : new[i] = e \/ \E j \in DOMAIN es : new[i] = es[j]
             /\ \E i \in DOMAIN new : new[i] = e
             /\ \A j \in DOMAIN es : \E i \in DOMAIN new : new[i] = es[j]
  <1> DEFINE new == Append(es, e)
  <1>1. Len(es) \in Nat /\ DOMAIN es = 1 .. Len(es)
    BY SecMapFacts
  <1>2. /\ new \in Seq(Sec!Entry) /\ Len(new) = Len(es) + 1 /\ DOMAIN new = 1 .. (Len(es) + 1)
        /\ new[Len(es) + 1] = e
        /\ \A i \in 1 .. Len(es) : new[i] = es[i]
    BY <1>1 DEF SecMap
  <1> HIDE DEF new
  <1>3. \A i \in 1 .. Len(es) : es[i].key # e.key
    BY <1>1 DEF Sec!Places
  <1>4. \A i \in DOMAIN new : i = Len(es) + 1 \/ i \in 1 .. Len(es)
    BY <1>1, <1>2
  <1>5. /\ Len(es) + 1 \in DOMAIN new
        /\ \A i \in 1 .. Len(es) : i \in DOMAIN new
    BY <1>1, <1>2
  <1>6. \A i, j \in DOMAIN new : new[i].key = new[j].key => i = j
    BY <1>1, <1>2, <1>3, <1>4 DEF SecMap
  <1> QED
    BY <1>1, <1>2, <1>4, <1>5, <1>6 DEF SecMap, new

\* Map.delete of the entry at i.
LEMMA SecRemoved ==
  ASSUME NEW es, SecMap(es), NEW i \in DOMAIN es
  PROVE  LET new == Sec!RemoveAt(es, i)
         IN  /\ SecMap(new) /\ Len(new) = Len(es) - 1
             /\ \A a \in DOMAIN new : \E j \in DOMAIN es : j # i /\ new[a] = es[j]
             /\ \A j \in DOMAIN es : j # i => \E a \in DOMAIN new : new[a] = es[j]
  <1> DEFINE left == SubSeq(es, 1, i - 1)
             right == SubSeq(es, i + 1, Len(es))
             n == Len(es)
             new == left \o right
  <1>1. /\ n \in Nat /\ DOMAIN es = 1 .. n /\ i \in 1 .. n
        /\ \A j \in 1 .. n : es[j] \in Sec!Entry
    BY SecMapFacts
  <1>2. /\ left \in Seq(Sec!Entry) /\ Len(left) = i - 1
        /\ \A a \in 1 .. (i - 1) : left[a] = es[a]
    <2>1. \A j \in 1 .. (i - 1) : es[j] \in Sec!Entry
      BY <1>1
    <2> QED
      BY <1>1, <2>1, SubSeqProperties
  <1>3. /\ right \in Seq(Sec!Entry) /\ Len(right) = n - i
        /\ \A a \in 1 .. (n - i) : right[a] = es[i + a]
    <2>1. \A j \in (i + 1) .. n : es[j] \in Sec!Entry
      BY <1>1
    <2>2. /\ right \in Seq(Sec!Entry)
          /\ Len(right) = IF i + 1 <= n THEN n - (i + 1) + 1 ELSE 0
          /\ \A a \in 1 .. (n - (i + 1) + 1) : right[a] = es[(i + 1) + a - 1]
      BY <1>1, <2>1, SubSeqProperties
    <2> QED
      BY <1>1, <2>2
  <1> HIDE DEF left, right
  <1>4. /\ new \in Seq(Sec!Entry) /\ Len(new) = Len(left) + Len(right)
        /\ \A a \in 1 .. (Len(left) + Len(right)) :
             new[a] = IF a <= Len(left) THEN left[a] ELSE right[a - Len(left)]
    BY <1>2, <1>3, ConcatProperties
  <1>5. Sec!RemoveAt(es, i) = new
    BY DEF Sec!RemoveAt, left, right
  <1> HIDE DEF new
  <1> DEFINE from(a) == IF a < i THEN a ELSE a + 1
  <1>6. /\ Len(new) = n - 1 /\ DOMAIN new = 1 .. (n - 1)
    BY <1>1, <1>2, <1>3, <1>4
  <1>7. \A a \in 1 .. (n - 1) : from(a) \in 1 .. n /\ from(a) # i /\ new[a] = es[from(a)]
    <2> SUFFICES ASSUME NEW a \in 1 .. (n - 1)
                 PROVE  from(a) \in 1 .. n /\ from(a) # i /\ new[a] = es[from(a)]
      OBVIOUS
    <2>1. CASE a < i
      <3>0. a \in 1 .. (i - 1) /\ a <= Len(left) /\ a \in 1 .. (Len(left) + Len(right))
        BY <1>1, <1>2, <1>3, <2>1
      <3>1. new[a] = left[a] /\ left[a] = es[a]
        BY <1>2, <1>4, <3>0
      <3> QED
        BY <1>1, <2>1, <3>1
    <2>2. CASE ~(a < i)
      <3>1. a - (i - 1) \in 1 .. (n - i) /\ i + (a - (i - 1)) = a + 1
        BY <1>1, <2>2
      <3>2. new[a] = right[a - (i - 1)]
        BY <1>1, <1>2, <1>3, <1>4, <2>2, SMTT(30)
      <3>3. new[a] = es[a + 1]
        BY <1>3, <3>1, <3>2
      <3> QED
        BY <1>1, <2>2, <3>3
    <2> QED
      BY <2>1, <2>2
  <1>8. \A j \in 1 .. n : j # i => \E a \in 1 .. (n - 1) : from(a) = j
    <2> SUFFICES ASSUME NEW j \in 1 .. n, j # i PROVE \E a \in 1 .. (n - 1) : from(a) = j
      OBVIOUS
    <2>1. CASE j < i
      BY <1>1, <2>1
    <2>2. CASE ~(j < i)
      <3>1. j - 1 \in 1 .. (n - 1) /\ from(j - 1) = j
        BY <1>1, <2>2
      <3> QED
        BY <3>1
    <2> QED
      BY <2>1, <2>2
  <1>9. \A a, b \in 1 .. (n - 1) : from(a) = from(b) => a = b
    BY <1>1
  <1> HIDE DEF from
  <1>10. SecMap(new)
    <2>1. ASSUME NEW a \in 1 .. (n - 1), NEW b \in 1 .. (n - 1), new[a].key = new[b].key
          PROVE  a = b
      <3>1. from(a) = from(b)
        BY <1>1, <1>7, <2>1 DEF SecMap
      <3> QED
        BY <1>9, <3>1
    <2> QED
      BY <1>4, <1>6, <2>1 DEF SecMap
  <1> QED
    <2>1. \A a \in DOMAIN new : \E j \in DOMAIN es : j # i /\ new[a] = es[j]
      BY <1>1, <1>6, <1>7
    <2>2. \A j \in DOMAIN es : j # i => \E a \in DOMAIN new : new[a] = es[j]
      BY <1>1, <1>6, <1>7, <1>8
    <2> QED
      BY <1>1, <1>5, <1>6, <1>10, <2>1, <2>2
\* touch: the entry comes to the end, the keys are those of before and its own.
LEMMA TouchedKeeps ==
  ASSUME NEW es, SecMap(es), NEW e \in Sec!Entry
  PROVE  LET new == Sec!Touched(es, e)
         IN  /\ SecMap(new)
             /\ Len(new) = IF Sec!Places(es, e.key) = {} THEN Len(es) + 1 ELSE Len(es)
             /\ \A i \in DOMAIN new : new[i] = e \/ \E j \in DOMAIN es : new[i] = es[j]
             /\ \A k : Sec!Places(new, k) = {} <=> k # e.key /\ Sec!Places(es, k) = {}
  <1>1. CASE Sec!Places(es, e.key) = {}
    <2> DEFINE new == Append(es, e)
    <2>1. Sec!Touched(es, e) = new
      BY <1>1 DEF Sec!Touched
    <2>2. /\ SecMap(new) /\ Len(new) = Len(es) + 1
          /\ \A i \in DOMAIN new : new[i] = e \/ \E j \in DOMAIN es : new[i] = es[j]
          /\ \E i \in DOMAIN new : new[i] = e
          /\ \A j \in DOMAIN es : \E i \in DOMAIN new : new[i] = es[j]
      BY <1>1, SecAppended
    <2> HIDE DEF new
    <2>3. \A k : Sec!Places(new, k) = {} <=> k # e.key /\ Sec!Places(es, k) = {}
      BY <2>2 DEF Sec!Places
    <2> QED
      BY <1>1, <2>1, <2>2, <2>3
  <1>2. CASE Sec!Places(es, e.key) # {}
    <2> DEFINE at == CHOOSE i \in Sec!Places(es, e.key) : TRUE
               less == Sec!RemoveAt(es, at)
               new == Append(less, e)
    <2>1. at \in DOMAIN es /\ es[at].key = e.key
      BY <1>2 DEF Sec!Places
    <2>2. Sec!Touched(es, e) = new
      BY <1>2 DEF Sec!Touched
    <2> HIDE DEF at
    <2>3. /\ SecMap(less) /\ Len(less) = Len(es) - 1
          /\ \A a \in DOMAIN less : \E j \in DOMAIN es : j # at /\ less[a] = es[j]
          /\ \A j \in DOMAIN es : j # at => \E a \in DOMAIN less : less[a] = es[j]
      BY <2>1, SecRemoved
    <2> HIDE DEF less
    <2>4. Sec!Places(less, e.key) = {}
      BY <2>1, <2>3 DEF Sec!Places, SecMap
    <2>5. /\ SecMap(new) /\ Len(new) = Len(less) + 1
          /\ \A i \in DOMAIN new : new[i] = e \/ \E j \in DOMAIN less : new[i] = less[j]
          /\ \E i \in DOMAIN new : new[i] = e
          /\ \A j \in DOMAIN less : \E i \in DOMAIN new : new[i] = less[j]
      BY <2>3, <2>4, SecAppended
    <2> HIDE DEF new
    <2>6. Len(new) = Len(es)
      BY <2>3, <2>5, SecMapFacts
    <2>7. \A i \in DOMAIN new : new[i] = e \/ \E j \in DOMAIN es : new[i] = es[j]
      BY <2>3, <2>5
    <2>8. ASSUME NEW j \in DOMAIN es PROVE \E i \in DOMAIN new : new[i].key = es[j].key
      <3>1. CASE j = at
        BY <2>1, <2>5, <3>1
      <3>2. CASE j # at
        <4>1. PICK a \in DOMAIN less : less[a] = es[j]
          BY <2>3, <3>2
        <4>2. PICK i \in DOMAIN new : new[i] = less[a]
          BY <2>5
        <4> QED
          BY <4>1, <4>2
      <3> QED
        BY <3>1, <3>2
    <2>9. \A k : Sec!Places(new, k) = {} <=> k # e.key /\ Sec!Places(es, k) = {}
      BY <2>5, <2>7, <2>8 DEF Sec!Places
    <2> QED
      BY <1>2, <2>2, <2>5, <2>6, <2>7, <2>9
  <1> QED
    BY <1>1, <1>2

\* The write of a loaded value, and evict.
LEMMA StoredKeeps ==
  ASSUME NEW es, SecMap(es), NEW e \in Sec!Entry
  PROVE  LET new == Sec!Evicted(Sec!Put(es, e))
         IN  /\ SecMap(new) /\ Len(new) <= MaxEntries
             /\ \A i \in DOMAIN new : new[i] = e \/ \E j \in DOMAIN es : new[i] = es[j]
  <1> DEFINE put == Sec!Put(es, e)
  <1>1. SecMap(put) /\ \A i \in DOMAIN put : put[i] = e \/ \E j \in DOMAIN es : put[i] = es[j]
    <2>1. CASE Sec!Places(es, e.key) = {}
      <3>1. put = Append(es, e)
        BY <2>1 DEF Sec!Put
      <3> QED
        BY <2>1, <3>1, SecAppended
    <2>2. CASE Sec!Places(es, e.key) # {}
      <3>1. put = [i \in DOMAIN es |-> IF es[i].key = e.key THEN e ELSE es[i]]
        BY <2>2 DEF Sec!Put
      <3>2. /\ Len(es) \in Nat /\ DOMAIN es = 1 .. Len(es)
            /\ \A i \in DOMAIN es : es[i] \in Sec!Entry
        BY SecMapFacts
      <3>3. put \in Seq(Sec!Entry) /\ DOMAIN put = DOMAIN es
        BY <3>1, <3>2
      <3>4. \A i \in DOMAIN es : /\ put[i].key = es[i].key
                                 /\ put[i] = e \/ put[i] = es[i]
        BY <3>1
      <3> QED
        BY <3>3, <3>4 DEF SecMap
    <2> QED
      BY <2>1, <2>2
  <1> HIDE DEF put
  <1>2. /\ Len(put) \in Nat /\ DOMAIN put = 1 .. Len(put) /\ MaxEntries \in Nat
        /\ \A i \in DOMAIN put : put[i] \in Sec!Entry
    BY <1>1, SecMapFacts, SecAssumption
  <1>3. CASE Len(put) <= MaxEntries
    BY <1>1, <1>2, <1>3 DEF Sec!Evicted, put
  <1>4. CASE Len(put) > MaxEntries
    <2> DEFINE first == Len(put) - MaxEntries + 1
               new == SubSeq(put, first, Len(put))
    <2>1. Sec!Evicted(put) = new
      BY <1>4 DEF Sec!Evicted
    <2>2. /\ first \in 1 .. (Len(put) + 1) /\ first - 1 \in Nat
          /\ Len(put) = (first - 1) + MaxEntries
      BY <1>2, <1>4
    <2> HIDE DEF first
    <2>3. \A i \in first .. Len(put) : put[i] \in Sec!Entry
      BY <1>2, <2>2
    <2>4. /\ new \in Seq(Sec!Entry)
          /\ Len(new) = IF first <= Len(put) THEN Len(put) - first + 1 ELSE 0
          /\ \A i \in 1 .. (Len(put) - first + 1) : new[i] = put[first + i - 1]
      <3>1. first \in Int /\ Len(put) \in Int
        BY <1>2, <2>2
      <3> QED
        BY <2>3, <3>1, SubSeqProperties
    <2> HIDE DEF new
    <2>5. /\ Len(new) = MaxEntries /\ DOMAIN new = 1 .. MaxEntries
          /\ \A i \in 1 .. MaxEntries :
               (first - 1) + i \in DOMAIN put /\ new[i] = put[(first - 1) + i]
      <3>1. Len(put) - first + 1 = MaxEntries /\ Len(new) = MaxEntries
        BY <1>2, <2>2, <2>4
      <3>2. \A i \in 1 .. MaxEntries : first + i - 1 = (first - 1) + i
        BY <2>2
      <3>3. \A i \in 1 .. MaxEntries : (first - 1) + i \in DOMAIN put
        BY <1>2, <2>2
      <3> QED
        BY <2>4, <3>1, <3>2, <3>3
    <2>6. \A i, j \in 1 .. MaxEntries : (first - 1) + i = (first - 1) + j => i = j
      BY <1>2, <2>2
    <2>7. SecMap(new)
      BY <1>1, <2>4, <2>5, <2>6 DEF SecMap
    <2>8. Len(new) <= MaxEntries
      BY <1>2, <2>5
    <2> QED
      BY <1>1, <2>1, <2>5, <2>7, <2>8 DEF put
  <1> QED
    BY <1>2, <1>3, <1>4

\* Each key once: the number of keys is the length.
LEMMA KeysCounted ==
  ASSUME NEW es, SecMap(es)
  PROVE  Cardinality({e.key : e \in Sec!ToSet(es)}) = Len(es)
  <1> DEFINE S == 1 .. Len(es)
             T == {e.key : e \in Sec!ToSet(es)}
             f == [i \in S |-> es[i].key]
  <1>1. Len(es) \in Nat /\ DOMAIN es = S
    BY SecMapFacts
  <1>2. IsFiniteSet(S) /\ Cardinality(S) = Len(es)
    <2>1. 1 \in Int /\ Len(es) \in Int /\ (1 > Len(es) => Len(es) = 0)
      BY <1>1
    <2> QED
      BY <2>1, FS_Interval
  <1>3. Sec!ToSet(es) = {es[i] : i \in S}
    BY <1>1 DEF Sec!ToSet
  <1>4. f \in Bijection(S, T)
    <2>1. f \in [S -> T]
      BY <1>3
    <2>2. \A t \in T : \E i \in S : f[i] = t
      BY <1>3
    <2>3. \A i, j \in S : f[i] = f[j] => i = j
      BY <1>1 DEF SecMap
    <2> QED
      BY <2>1, <2>2, <2>3 DEF Bijection, Injection, IsInjective, Surjection
  <1> HIDE DEF S, T, f
  <1>5. ExistsBijection(S, T)
    BY <1>4 DEF ExistsBijection
  <1> QED
    BY <1>2, <1>5, FS_Bijection DEF T
\* A load is alone with its key, and holds of it what is the latest.
LoadsFit ==
  /\ \A c, d \in Callers :
       call[c].phase = "loading" /\ call[d].phase = "loading" /\ call[c].key = call[d].key
         => c = d
  /\ \A c \in Callers : \A e \in call[c].existing :
       call[c].phase = "loading" /\ e.key = call[c].key /\ e.latest
  /\ \A c \in Callers :
       call[c].usable => call[c].phase = "loading" /\ call[c].existing # {}

\* The loads that may put back an entry that is no longer there.
Out == {c \in Callers : call[c].usable /\ Sec!Places(entries, call[c].key) = {}}

SecIInv ==
  /\ Sec!CacheTypeOK /\ SecMap(entries) /\ \A i \in DOMAIN entries : entries[i].latest
  /\ LoadsFit
  /\ Len(entries) + Cardinality(Out) <= MaxEntries + Cardinality(Callers)

LEMMA OutFinite ==
  ASSUME NEW S, S \subseteq Callers
  PROVE  /\ IsFiniteSet(S) /\ Cardinality(S) \in Nat /\ Cardinality(Callers) \in Nat
         /\ Cardinality(S) <= Cardinality(Callers)
  BY SecAssumption, FS_Subset, FS_CardinalityType

LEMMA IdleFits ==
  /\ Sec!NoCall.phase = "idle" /\ Sec!NoCall.key \in Keys
  /\ Sec!NoCall.existing = {} /\ Sec!NoCall.usable = FALSE
  BY SecAssumption DEF Sec!NoCall

LEMMA SecCallTyped ==
  ASSUME SecIInv, NEW c \in Callers
  PROVE  /\ call[c].phase \in {"idle", "loading", "joined"} /\ call[c].key \in Keys
         /\ call[c].existing \subseteq Sec!Entry /\ call[c].usable \in BOOLEAN
  BY DEF SecIInv, Sec!CacheTypeOK

LEMMA SecInit == Sec!CacheInit => SecIInv
  <1> SUFFICES ASSUME Sec!CacheInit PROVE SecIInv
    OBVIOUS
  <1>1. /\ entries = <<>> /\ DOMAIN entries = {} /\ Len(entries) = 0
        /\ \A c \in Callers : call[c] = Sec!NoCall
        /\ call = [c \in Callers |-> Sec!NoCall]
    BY DEF Sec!CacheInit
  <1>2. SecMap(entries)
    BY <1>1 DEF SecMap
  <1>3. Out = {}
    BY <1>1, IdleFits DEF Out
  <1>4. LoadsFit
    BY <1>1, IdleFits DEF LoadsFit
  <1>5. Sec!NoCall \in [phase : {"idle", "loading", "joined"}, key : Keys,
                      existing : SUBSET Sec!Entry, usable : BOOLEAN]
    BY SecAssumption DEF Sec!NoCall
  <1>6. Sec!CacheTypeOK
    BY <1>1, <1>5 DEF Sec!CacheTypeOK
  <1>7. Cardinality(Out) = 0 /\ Cardinality(Callers) \in Nat
    BY <1>3, FS_EmptySet, OutFinite
  <1> QED
    BY <1>1, <1>2, <1>4, <1>6, <1>7, SecAssumption DEF SecIInv

\* A value that is fresh is moved to the end.
LEMMA SecHitKeeps ==
  ASSUME SecIInv, NEW c \in Callers, NEW key \in Keys, Sec!GetOrLoad(c, key),
         \E e \in Sec!Stored(key) : e.age <= FreshMs
  PROVE  SecIInv'
  <1> DEFINE e == CHOOSE e \in Sec!Stored(key) : TRUE
  <1>1. entries' = Sec!Touched(entries, e) /\ call' = call
    BY DEF Sec!GetOrLoad
  <1>2. PICK j \in DOMAIN entries : e = entries[j] /\ e.key = key
    BY DEF Sec!Stored, Sec!ToSet
  <1> HIDE DEF e
  <1>3. e \in Sec!Entry /\ SecMap(entries) /\ e.latest
    BY <1>2 DEF SecIInv, Sec!CacheTypeOK
  <1>4. Sec!Places(entries, e.key) # {}
    BY <1>2 DEF Sec!Places
  <1>5. /\ SecMap(entries') /\ Len(entries') = Len(entries)
        /\ \A i \in DOMAIN entries' : entries'[i] = e \/ \E i2 \in DOMAIN entries : entries'[i] = entries[i2]
        /\ \A k : Sec!Places(entries', k) = {} <=> Sec!Places(entries, k) = {}
    <2> DEFINE new == Sec!Touched(entries, e)
    <2>1. /\ SecMap(new)
          /\ Len(new) = IF Sec!Places(entries, e.key) = {} THEN Len(entries) + 1 ELSE Len(entries)
          /\ \A i \in DOMAIN new : new[i] = e \/ \E i2 \in DOMAIN entries : new[i] = entries[i2]
          /\ \A k : Sec!Places(new, k) = {} <=> k # e.key /\ Sec!Places(entries, k) = {}
      BY <1>3, TouchedKeeps
    <2>2. entries' = new
      BY <1>1
    <2> HIDE DEF new
    <2>3. \A k : Sec!Places(new, k) = {} <=> Sec!Places(entries, k) = {}
      BY <1>4, <2>1
    <2> QED
      BY <1>4, <2>1, <2>2, <2>3
  <1>6. Out' = Out
    BY <1>1, <1>5 DEF Out
  <1>7. \A i \in DOMAIN entries' : entries'[i].latest /\ entries'[i] \in Sec!Entry
    BY <1>3, <1>5 DEF SecIInv, Sec!CacheTypeOK
  <1> QED
    BY <1>1, <1>5, <1>6, <1>7 DEF SecIInv, Sec!CacheTypeOK, LoadsFit

\* A call joins the load of its key, or begins one.
LEMMA SecMissKeeps ==
  ASSUME SecIInv, NEW c \in Callers, NEW key \in Keys, Sec!GetOrLoad(c, key),
         ~ \E e \in Sec!Stored(key) : e.age <= FreshMs
  PROVE  SecIInv'
  <1> DEFINE joined == [Sec!NoCall EXCEPT !.phase = "joined", !.key = key]
             loading == [phase |-> "loading", key |-> key, existing |-> Sec!Stored(key),
                         usable |-> \E e \in Sec!Stored(key) : e.age <= FreshMs + StaleMs]
             new == IF Sec!Pending(key) THEN joined ELSE loading
  <1>1. /\ entries' = entries /\ call[c].phase = "idle"
        /\ call' = [call EXCEPT ![c] = new]
    BY DEF Sec!GetOrLoad
  <1>2. \A e \in Sec!Stored(key) : \E i \in DOMAIN entries : e = entries[i] /\ e.key = key
    BY DEF Sec!Stored, Sec!ToSet
  <1>3. /\ Sec!Stored(key) \subseteq Sec!Entry
        /\ \A e \in Sec!Stored(key) : e.key = key /\ e.latest
    BY <1>2 DEF SecIInv, Sec!CacheTypeOK
  <1>4. Sec!Stored(key) # {} => Sec!Places(entries, key) # {}
    BY <1>2 DEF Sec!Places
  <1>5. /\ new \in [phase : {"idle", "loading", "joined"}, key : Keys,
                    existing : SUBSET Sec!Entry, usable : BOOLEAN]
        /\ new.phase = "loading" => ~Sec!Pending(key)
        /\ new.key = key
        /\ \A e \in new.existing : new.phase = "loading" /\ e \in Sec!Stored(key)
        /\ new.usable => new.phase = "loading" /\ new.existing # {} /\ Sec!Stored(key) # {}
    <2>1. CASE Sec!Pending(key)
      <3>1. new = [phase |-> "joined", key |-> key, existing |-> {}, usable |-> FALSE]
        BY <2>1 DEF Sec!NoCall
      <3> QED
        BY <2>1, <3>1
    <2>2. CASE ~Sec!Pending(key)
      <3>1. new = loading
        BY <2>2
      <3> QED
        BY <1>3, <2>2, <3>1
    <2> QED
      BY <2>1, <2>2
  <1> HIDE DEF new
  <1>6. /\ call'[c] = new /\ \A d \in Callers \ {c} : call'[d] = call[d]
        /\ Sec!CacheTypeOK'
    BY <1>1, <1>5 DEF SecIInv, Sec!CacheTypeOK
  <1>7. LoadsFit'
    <2>1. \A d \in Callers \ {c} :
            new.phase = "loading" => ~(call[d].phase = "loading" /\ call[d].key = key)
      BY <1>5 DEF Sec!Pending
    <2>2. \A d1, d2 \in Callers :
            call'[d1].phase = "loading" /\ call'[d2].phase = "loading"
              /\ call'[d1].key = call'[d2].key => d1 = d2
      BY <1>5, <1>6, <2>1 DEF SecIInv, LoadsFit
    <2>3. \A d \in Callers : \A e \in call'[d].existing :
            call'[d].phase = "loading" /\ e.key = call'[d].key /\ e.latest
      BY <1>3, <1>5, <1>6 DEF SecIInv, LoadsFit
    <2>4. \A d \in Callers :
            call'[d].usable => call'[d].phase = "loading" /\ call'[d].existing # {}
      BY <1>5, <1>6 DEF SecIInv, LoadsFit
    <2> QED
      BY <2>2, <2>3, <2>4 DEF LoadsFit
  <1>8. Out' = Out
    <2>1. c \notin Out
      BY <1>1 DEF SecIInv, LoadsFit, Out
    <2>2. c \notin Out'
      BY <1>1, <1>4, <1>5, <1>6 DEF Out
    <2>3. \A d \in Callers \ {c} : d \in Out' <=> d \in Out
      BY <1>1, <1>6 DEF Out
    <2> QED
      BY <2>1, <2>2, <2>3 DEF Out
  <1> QED
    BY <1>1, <1>6, <1>7, <1>8 DEF SecIInv
\* Whoever awaited the load of c is idle again, and the others are as before.
LoadEnded(c) ==
  /\ call' \in [Callers -> [phase : {"idle", "loading", "joined"}, key : Keys,
                            existing : SUBSET Sec!Entry, usable : BOOLEAN]]
  /\ \A d \in Callers :
       \/ call'[d].phase = "idle" /\ call'[d].existing = {} /\ call'[d].usable = FALSE
       \/ /\ d # c /\ call'[d].phase = call[d].phase /\ call'[d].key = call[d].key
          /\ call'[d].existing = call[d].existing /\ call'[d].usable = call[d].usable

LEMMA EndedFits ==
  ASSUME SecIInv, NEW c \in Callers, LoadEnded(c)
  PROVE  LoadsFit'
  <1>0. \A d \in Callers : call'[d].phase = "loading" =>
          /\ call[d].phase = "loading" /\ call'[d].key = call[d].key
          /\ call'[d].existing = call[d].existing /\ call'[d].usable = call[d].usable
    BY DEF LoadEnded
  <1>1. ASSUME NEW f \in Callers, NEW d \in Callers, call'[f].phase = "loading",
               call'[d].phase = "loading", call'[f].key = call'[d].key
        PROVE  f = d
    BY <1>0, <1>1 DEF SecIInv, LoadsFit
  <1>2. ASSUME NEW d \in Callers, NEW e \in call'[d].existing
        PROVE  call'[d].phase = "loading" /\ e.key = call'[d].key /\ e.latest
    <2>1. call'[d].existing = call[d].existing /\ call'[d].phase = call[d].phase
          /\ call'[d].key = call[d].key
      BY <1>2 DEF LoadEnded
    <2>2. call[d].phase = "loading" /\ e.key = call[d].key /\ e.latest
      BY <1>2, <2>1 DEF SecIInv, LoadsFit
    <2> QED
      BY <2>1, <2>2
  <1>3. ASSUME NEW d \in Callers, call'[d].usable
        PROVE  call'[d].phase = "loading" /\ call'[d].existing # {}
    <2>1. call'[d].existing = call[d].existing /\ call'[d].phase = call[d].phase
          /\ call'[d].usable = call[d].usable
      BY <1>3 DEF LoadEnded
    <2> QED
      BY <1>3, <2>1 DEF SecIInv, LoadsFit
  <1> QED
    BY <1>1, <1>2, <1>3 DEF LoadsFit

LEMMA AnsweredEnds ==
  ASSUME SecIInv, NEW c \in Callers,
         NEW d \in Callers
  PROVE  LET r == Sec!Answered(c)[d]
         IN  r = Sec!NoCall \/ (d # c /\ r = call[d])
  BY DEF Sec!Answered

LEMMA FailureEnds ==
  ASSUME SecIInv, NEW c \in Callers, call' = Sec!Answered(c)
  PROVE  LoadEnded(c)
  <1>1. Sec!NoCall \in [phase : {"idle", "loading", "joined"}, key : Keys,
                      existing : SUBSET Sec!Entry, usable : BOOLEAN]
    BY SecAssumption DEF Sec!NoCall
  <1>2. call' \in [Callers -> [phase : {"idle", "loading", "joined"}, key : Keys,
                               existing : SUBSET Sec!Entry, usable : BOOLEAN]]
    BY <1>1 DEF Sec!Answered, SecIInv, Sec!CacheTypeOK
  <1> QED
    BY <1>2, AnsweredEnds, IdleFits DEF LoadEnded

LEMMA SuccessEnds ==
  ASSUME SecIInv, NEW c \in Callers, Sec!LoadSucceeds(c)
  PROVE  LoadEnded(c)
  <1> DEFINE r(d) == Sec!Answered(c)[d]
             old(d) == {[e EXCEPT !.latest = FALSE] : e \in r(d).existing}
  <1>1. /\ call[c].phase = "loading"
        /\ call' = [d \in Callers |->
                      IF r(d).key = call[c].key THEN [r(d) EXCEPT !.existing = old(d)] ELSE r(d)]
    BY DEF Sec!LoadSucceeds
  <1>2. ASSUME NEW d \in Callers
        PROVE  /\ r(d) \in [phase : {"idle", "loading", "joined"}, key : Keys,
                            existing : SUBSET Sec!Entry, usable : BOOLEAN]
               /\ r(d) = Sec!NoCall \/ (d # c /\ r(d) = call[d])
               /\ r(d).key = call[c].key => r(d).existing = {}
    <2>1. r(d) = Sec!NoCall \/ (d # c /\ r(d) = call[d])
      BY AnsweredEnds
    <2>2. Sec!NoCall \in [phase : {"idle", "loading", "joined"}, key : Keys,
                        existing : SUBSET Sec!Entry, usable : BOOLEAN]
      BY SecAssumption DEF Sec!NoCall
    <2>3. call[d] \in [phase : {"idle", "loading", "joined"}, key : Keys,
                       existing : SUBSET Sec!Entry, usable : BOOLEAN]
      BY DEF SecIInv, Sec!CacheTypeOK
    <2>4. d # c /\ call[d].key = call[c].key => call[d].existing = {}
      BY <1>1 DEF SecIInv, LoadsFit
    <2> HIDE DEF r
    <2> QED
      BY <2>1, <2>2, <2>3, <2>4, IdleFits
  <1> HIDE DEF r
  <1>3. \A d \in Callers : r(d).key = call[c].key => old(d) = {}
    BY <1>2
  <1> HIDE DEF old
  <1>4. \A d \in Callers :
          /\ call'[d] \in [phase : {"idle", "loading", "joined"}, key : Keys,
                           existing : SUBSET Sec!Entry, usable : BOOLEAN]
          /\ call'[d].phase = r(d).phase /\ call'[d].key = r(d).key
          /\ call'[d].existing = r(d).existing /\ call'[d].usable = r(d).usable
    <2> SUFFICES ASSUME NEW d \in Callers
                 PROVE  /\ call'[d] \in [phase : {"idle", "loading", "joined"}, key : Keys,
                                         existing : SUBSET Sec!Entry, usable : BOOLEAN]
                        /\ call'[d].phase = r(d).phase /\ call'[d].key = r(d).key
                        /\ call'[d].existing = r(d).existing /\ call'[d].usable = r(d).usable
      OBVIOUS
    <2>1. CASE r(d).key = call[c].key
      <3>1. call'[d] = [r(d) EXCEPT !.existing = {}] /\ r(d).existing = {}
        BY <1>1, <1>2, <1>3, <2>1
      <3> QED
        BY <1>2, <3>1
    <2>2. CASE r(d).key # call[c].key
      BY <1>1, <1>2, <2>2
    <2> QED
      BY <2>1, <2>2
  <1>5. call' \in [Callers -> [phase : {"idle", "loading", "joined"}, key : Keys,
                               existing : SUBSET Sec!Entry, usable : BOOLEAN]]
    BY <1>1, <1>4
  <1> QED
    BY <1>2, <1>4, <1>5, IdleFits DEF LoadEnded

LEMMA SecSucceedKeeps ==
  ASSUME SecIInv, NEW c \in Callers, Sec!LoadSucceeds(c)
  PROVE  SecIInv'
  <1> DEFINE e == [key |-> call[c].key, age |-> 0, latest |-> TRUE]
  <1>1. entries' = Sec!Evicted(Sec!Put(entries, e))
    BY DEF Sec!LoadSucceeds
  <1>2. Sec!AgeCap \in Nat
    BY SecAssumption DEF Sec!AgeCap
  <1>3. e \in Sec!Entry /\ e.latest
    BY <1>2, SecCallTyped DEF Sec!Entry
  <1> HIDE DEF e
  <1>4. /\ SecMap(entries') /\ Len(entries') <= MaxEntries
        /\ \A i \in DOMAIN entries' : entries'[i] = e \/ \E j \in DOMAIN entries : entries'[i] = entries[j]
    BY <1>1, <1>3, StoredKeeps DEF SecIInv
  <1>5. \A i \in DOMAIN entries' : entries'[i] \in Sec!Entry /\ entries'[i].latest
    BY <1>3, <1>4 DEF SecIInv, Sec!CacheTypeOK
  <1>6. LoadEnded(c) /\ LoadsFit'
    BY SuccessEnds, EndedFits
  <1>7. Sec!CacheTypeOK'
    BY <1>5, <1>6 DEF LoadEnded, Sec!CacheTypeOK
  <1>8. Len(entries') + Cardinality(Out') <= MaxEntries + Cardinality(Callers)
    <2>1. Out' \subseteq Callers
      BY DEF Out
    <2>2. /\ Cardinality(Out') \in Nat /\ Cardinality(Callers) \in Nat
          /\ Cardinality(Out') <= Cardinality(Callers)
      BY <2>1, OutFinite
    <2>3. Len(entries') \in Nat
      BY <1>4, SecMapFacts
    <2> QED
      BY <1>4, <2>2, <2>3, SecAssumption
  <1> QED
    BY <1>4, <1>5, <1>6, <1>7, <1>8 DEF SecIInv

LEMMA SecFailKeeps ==
  ASSUME SecIInv, NEW c \in Callers, NEW retryable \in BOOLEAN, Sec!LoadFails(c, retryable)
  PROVE  SecIInv'
  <1>1. call' = Sec!Answered(c) /\ call[c].phase = "loading"
    BY DEF Sec!LoadFails
  <1>2. LoadEnded(c) /\ LoadsFit'
    BY <1>1, FailureEnds, EndedFits
  <1>3. \A d \in Callers : call'[d].usable =>
          d # c /\ call[d].usable /\ call'[d].key = call[d].key
    BY <1>2 DEF LoadEnded
  <1>4. /\ Out \subseteq Callers /\ IsFiniteSet(Out) /\ Cardinality(Out) \in Nat
        /\ Out' \subseteq Callers /\ IsFiniteSet(Out') /\ Cardinality(Out') \in Nat
        /\ Cardinality(Callers) \in Nat /\ MaxEntries \in Nat
    <2>1. Out \subseteq Callers /\ Out' \subseteq Callers
      BY DEF Out
    <2> QED
      BY <2>1, OutFinite, SecAssumption
  <1>5. SecMap(entries) /\ Len(entries) \in Nat
    BY SecMapFacts DEF SecIInv
  <1>6. CASE ~(retryable /\ call[c].usable)
    <2>1. entries' = entries
      BY <1>6 DEF Sec!LoadFails
    <2>2. \A d \in Out' : d \in Out
      BY <1>3, <2>1 DEF Out
    <2>3. Cardinality(Out') <= Cardinality(Out)
      BY <1>4, <2>2, FS_Subset
    <2> QED
      BY <1>2, <1>4, <1>5, <2>1, <2>3 DEF SecIInv, LoadEnded, Sec!CacheTypeOK
  <1>7. CASE retryable /\ call[c].usable
    <2> DEFINE e == CHOOSE e \in call[c].existing : TRUE
    <2>1. entries' = Sec!Touched(entries, e)
      BY <1>7 DEF Sec!LoadFails
    <2>2. e \in Sec!Entry /\ e.key = call[c].key /\ e.latest
      <3>1. e \in call[c].existing
        BY <1>7 DEF SecIInv, LoadsFit
      <3> QED
        BY <3>1, SecCallTyped DEF SecIInv, LoadsFit
    <2> HIDE DEF e
    <2>3. /\ SecMap(entries')
          /\ Len(entries') = IF Sec!Places(entries, e.key) = {} THEN Len(entries) + 1 ELSE Len(entries)
          /\ \A i \in DOMAIN entries' : entries'[i] = e \/ \E j \in DOMAIN entries : entries'[i] = entries[j]
          /\ \A k : Sec!Places(entries', k) = {} <=> k # e.key /\ Sec!Places(entries, k) = {}
      <3> DEFINE new == Sec!Touched(entries, e)
      <3>1. /\ SecMap(new)
            /\ Len(new) = IF Sec!Places(entries, e.key) = {} THEN Len(entries) + 1 ELSE Len(entries)
            /\ \A i \in DOMAIN new : new[i] = e \/ \E j \in DOMAIN entries : new[i] = entries[j]
            /\ \A k : Sec!Places(new, k) = {} <=> k # e.key /\ Sec!Places(entries, k) = {}
        BY <1>5, <2>2, TouchedKeeps
      <3>2. entries' = new
        BY <2>1
      <3> HIDE DEF new
      <3> QED
        BY <3>1, <3>2
    <2>4. \A i \in DOMAIN entries' : entries'[i] \in Sec!Entry /\ entries'[i].latest
      BY <2>2, <2>3 DEF SecIInv, Sec!CacheTypeOK
    <2>5. \A d \in Out' : d \in Out \ {c}
      BY <1>3, <2>3 DEF Out
    <2>6. Len(entries') + Cardinality(Out') <= Len(entries) + Cardinality(Out)
      <3>1. Cardinality(Out') <= Cardinality(Out \ {c}) /\ IsFiniteSet(Out \ {c})
        <4>1. IsFiniteSet(Out \ {c})
          BY <1>4, FS_RemoveElement
        <4> QED
          BY <2>5, <4>1, FS_Subset
      <3>2. CASE Sec!Places(entries, e.key) = {}
        <4>1. c \in Out
          BY <1>7, <2>2, <3>2 DEF Out
        <4>2. Cardinality(Out \ {c}) = Cardinality(Out) - 1
          BY <1>4, <4>1, FS_RemoveElement
        <4> QED
          BY <1>4, <1>5, <2>3, <3>1, <3>2, <4>2
      <3>3. CASE Sec!Places(entries, e.key) # {}
        <4>1. Cardinality(Out') <= Cardinality(Out)
          BY <1>4, <2>5, FS_Subset
        <4> QED
          BY <1>4, <1>5, <2>3, <3>3, <4>1
      <3> QED
        BY <3>2, <3>3
    <2>7. Len(entries') \in Nat
      BY <2>3, SecMapFacts
    <2>8. Len(entries') + Cardinality(Out') <= MaxEntries + Cardinality(Callers)
      BY <1>4, <1>5, <2>6, <2>7 DEF SecIInv
    <2> QED
      BY <1>2, <2>3, <2>4, <2>8 DEF SecIInv, LoadEnded, Sec!CacheTypeOK
  <1> QED
    BY <1>6, <1>7

LEMMA Ageing ==
  ASSUME NEW e \in Sec!Entry
  PROVE  LET f == Sec!AsTimePasses(e)
         IN  f \in Sec!Entry /\ f.key = e.key /\ f.latest = e.latest
  <1>1. Sec!AgeCap \in Nat
    BY SecAssumption DEF Sec!AgeCap
  <1> QED
    BY <1>1 DEF Sec!AsTimePasses, Sec!Entry

LEMMA SecTickKeeps ==
  ASSUME SecIInv, Sec!CacheTick
  PROVE  SecIInv'
  <1> DEFINE aged(c) == {Sec!AsTimePasses(e) : e \in call[c].existing}
  <1>1. /\ entries' = [i \in DOMAIN entries |-> Sec!AsTimePasses(entries[i])]
        /\ call' = [c \in Callers |-> [call[c] EXCEPT !.existing = aged(c)]]
    BY DEF Sec!CacheTick
  <1>2. /\ SecMap(entries) /\ Len(entries) \in Nat /\ DOMAIN entries = 1 .. Len(entries)
        /\ \A i \in DOMAIN entries : entries[i] \in Sec!Entry
    BY SecMapFacts DEF SecIInv
  <1>3. \A i \in DOMAIN entries :
          /\ entries'[i] \in Sec!Entry
          /\ entries'[i].key = entries[i].key /\ entries'[i].latest = entries[i].latest
    BY <1>1, <1>2, Ageing
  <1>4. entries' \in Seq(Sec!Entry) /\ DOMAIN entries' = DOMAIN entries /\ Len(entries') = Len(entries)
    BY <1>1, <1>2, <1>3
  <1>5. SecMap(entries') /\ \A i \in DOMAIN entries' : entries'[i].latest
    BY <1>2, <1>3, <1>4 DEF SecMap, SecIInv
  <1>6. ASSUME NEW c \in Callers
        PROVE  /\ aged(c) \subseteq Sec!Entry
               /\ \A f \in aged(c) : \E e \in call[c].existing : f.key = e.key /\ f.latest = e.latest
               /\ call[c].existing # {} => aged(c) # {}
    <2>1. \A e \in call[c].existing : e \in Sec!Entry
      BY SecCallTyped
    <2> QED
      BY <2>1, Ageing
  <1> HIDE DEF aged
  <1>7. \A c \in Callers :
          /\ call'[c] \in [phase : {"idle", "loading", "joined"}, key : Keys,
                           existing : SUBSET Sec!Entry, usable : BOOLEAN]
          /\ call'[c].phase = call[c].phase /\ call'[c].key = call[c].key
          /\ call'[c].existing = aged(c) /\ call'[c].usable = call[c].usable
    BY <1>1, <1>6 DEF SecIInv, Sec!CacheTypeOK
  <1>8. Sec!CacheTypeOK'
    BY <1>1, <1>3, <1>4, <1>7 DEF Sec!CacheTypeOK
  <1>9. LoadsFit'
    BY <1>6, <1>7 DEF SecIInv, LoadsFit
  <1>10. Out' = Out
    <2>1. \A k : Sec!Places(entries', k) = Sec!Places(entries, k)
      BY <1>3, <1>4 DEF Sec!Places
    <2> QED
      BY <1>7, <2>1 DEF Out
  <1> QED
    BY <1>4, <1>5, <1>8, <1>9, <1>10 DEF SecIInv

LEMMA SecNextKeeps ==
  ASSUME SecIInv, Sec!CacheNext \/ UNCHANGED cacheVars
  PROVE  SecIInv'
  <1>1. ASSUME NEW c \in Callers, NEW key \in Keys, Sec!GetOrLoad(c, key)
        PROVE  SecIInv'
    BY <1>1, SecHitKeeps, SecMissKeeps
  <1>2. ASSUME UNCHANGED cacheVars PROVE SecIInv'
    <2>1. UNCHANGED <<entries, call>>
      BY <1>2 DEF cacheVars
    <2> QED
      BY <2>1 DEF SecIInv, Sec!CacheTypeOK, LoadsFit, Out
  <1> QED
    BY <1>1, <1>2, SecSucceedKeeps, SecFailKeeps, SecTickKeeps DEF Sec!CacheNext

\* Of SEC's values, no caller is shown an older one than a caller before it,
\* however loads are joined, fail late and put back what they found, for any
\* number of keys, callers and entries.
THEOREM SecGoesForward == SpecAll => []SecValuesGoForward
  <1>1. InitAll => SecIInv
    BY SecInit DEF InitAll
  <1>2. SecIInv /\ [NextAll]_allVars => SecIInv'
    <2>1. [NextAll]_allVars => Sec!CacheNext \/ UNCHANGED cacheVars
      BY DEF NextAll, YahooSteps, SecSteps, QueueSteps, Rests, allVars
    <2> QED
      BY <2>1, SecNextKeeps
  <1>3. SecIInv => SecValuesGoForward
    <2> SUFFICES ASSUME SecIInv PROVE SecValuesGoForward
      OBVIOUS
    <2>1. \A e \in Sec!ToSet(entries) : e.latest
      BY DEF SecIInv, Sec!ToSet
    <2>2. Cardinality({e.key : e \in Sec!ToSet(entries)}) = Len(entries)
      BY KeysCounted DEF SecIInv
    <2>3. Len(entries) <= MaxEntries + Cardinality(Callers)
      <3>1. Out \subseteq Callers
        BY DEF Out
      <3>2. Cardinality(Out) \in Nat /\ Cardinality(Callers) \in Nat /\ Len(entries) \in Nat
        BY <3>1, OutFinite, SecMapFacts DEF SecIInv
      <3> QED
        BY <3>2, SecAssumption DEF SecIInv
    <2> QED
      <3>1. Sec!ValuesGoForward
        BY <2>1, <2>2, <2>3 DEF Sec!ValuesGoForward, Sec!Cardinality, Cardinality
      <3>2. Sec!CacheTypeOK
        BY DEF SecIInv
      <3> QED
        BY <3>1, <3>2 DEF SecValuesGoForward
  <1> QED
    BY <1>1, <1>2, <1>3, PTL DEF SpecAll
=============================================================================
