------------------------------ MODULE SecEdgar ------------------------------
(***************************************************************************)
(* The client of SEC EDGAR: the memory cache of its answers                *)
(* (server/utils/sec-edgar/cache.ts), whose calls for one key join the     *)
(* load in flight; and the requests that the loads make, by the client     *)
(* that retries and joins calls for one URL (client.ts) over the queue     *)
(* that limits how many requests run and how fast they start (queue.ts).   *)
(* Times are ages, capped where the code no longer tells them apart.       *)
(***************************************************************************)
EXTENDS Integers, FiniteSets, Sequences, SequencesExt

CONSTANTS
  Keys, Callers, FreshMs, StaleMs, MaxEntries,   \* the cache
  Requests,                                      \* calls of request(), one per URL
  Attempts,                                      \* 3, or 1 for a stream
  Concurrency, MinIntervalMs, MaxQueued

VARIABLES
  entries,                 \* the Map, in insertion order: <<[key, age, latest]>>
  call,                    \* of every caller: its getOrLoad
  request,                 \* of every call: [phase, attempt, wait]
  active, waiting,         \* the slots taken, and who waits for one
  startGate,               \* who has a slot and waits to start, in order
  sinceStart               \* the time since lastStartedAt, up to MinIntervalMs

-----------------------------------------------------------------------------
(* The cache.  An expired value is served when a load fails for now, the   *)
(* least recently used entry is dropped; a load may end in any way.        *)

cacheVars == <<entries, call>>

AgeCap == FreshMs + StaleMs + 1

(* latest is a ghost: no newer value of the key was ever loaded. *)
Entry == [key : Keys, age : 0..AgeCap, latest : BOOLEAN]

NoCall == [phase |-> "idle", key |-> CHOOSE k \in Keys : TRUE, existing |-> {}, usable |-> FALSE]

CacheTypeOK ==
  /\ \A i \in DOMAIN entries : entries[i] \in Entry
  /\ call \in [Callers -> [phase : {"idle", "loading", "joined"}, key : Keys,
                           existing : SUBSET Entry, usable : BOOLEAN]]

CacheInit ==
  /\ entries = <<>>
  /\ call = [c \in Callers |-> NoCall]

Stored(key) == {e \in ToSet(entries) : e.key = key}

Places(es, key) == {i \in DOMAIN es : es[i].key = key}

(* touch: to the end, as the most recently used *)
Touched(es, e) ==
  IF Places(es, e.key) = {}
    THEN Append(es, e)
    ELSE Append(RemoveAt(es, CHOOSE i \in Places(es, e.key) : TRUE), e)

(* Map.set keeps the place of a key that is there. *)
Put(es, e) ==
  IF Places(es, e.key) # {}
    THEN [i \in DOMAIN es |-> IF es[i].key = e.key THEN e ELSE es[i]]
    ELSE Append(es, e)

(* evict *)
Evicted(es) == IF Len(es) > MaxEntries THEN SubSeq(es, Len(es) - MaxEntries + 1, Len(es)) ELSE es

(* A plausible mistake: every caller loads for itself. *)
PendingNone(key) == FALSE

(* A load of the key is in flight. *)
Pending(key) == \E c \in Callers : call[c].phase = "loading" /\ call[c].key = key

(* getOrLoad: a fresh value at once, the load in flight, or a load of its  *)
(* own, whose existing value is read now.                                  *)
GetOrLoad(c, key) ==
  /\ call[c].phase = "idle"
  /\ IF \E e \in Stored(key) : e.age <= FreshMs
       THEN /\ entries' = Touched(entries, CHOOSE e \in Stored(key) : TRUE)
            /\ UNCHANGED call
       ELSE /\ call' = [call EXCEPT ![c] =
                 IF Pending(key)
                   THEN [NoCall EXCEPT !.phase = "joined", !.key = key]
                   ELSE [phase |-> "loading", key |-> key, existing |-> Stored(key),
                         usable |-> \E e \in Stored(key) : e.age <= FreshMs + StaleMs]]
            /\ UNCHANGED entries

(* The load has ended: its caller and those that joined it are answered.   *)
Answered(c) ==
  [d \in Callers |->
     IF d = c \/ (call[d].phase = "joined" /\ call[d].key = call[c].key) THEN NoCall ELSE call[d]]

(* The value is stored; what another load holds of the key is not the      *)
(* latest any more.                                                        *)
LoadSucceeds(c) ==
  /\ call[c].phase = "loading"
  /\ entries' = Evicted(Put(entries, [key |-> call[c].key, age |-> 0, latest |-> TRUE]))
  /\ call' = [d \in Callers |->
                IF Answered(c)[d].key = call[c].key
                  THEN [Answered(c)[d] EXCEPT !.existing = {[e EXCEPT !.latest = FALSE] : e \in @}]
                  ELSE Answered(c)[d]]

(* The load fails: the expired value is served and put back, if it was not *)
(* too old when the call began and the failure is temporary.               *)
LoadFails(c, retryable) ==
  /\ call[c].phase = "loading"
  /\ entries' = IF retryable /\ call[c].usable
                  THEN Touched(entries, CHOOSE e \in call[c].existing : TRUE)
                  ELSE entries
  /\ call' = Answered(c)

AsTimePasses(e) == [e EXCEPT !.age = IF @ < AgeCap THEN @ + 1 ELSE @]

CacheTick ==
  /\ entries' = [i \in DOMAIN entries |-> AsTimePasses(entries[i])]
  /\ call' = [c \in Callers |-> [call[c] EXCEPT !.existing = {AsTimePasses(e) : e \in @}]]

CacheNext ==
  \/ \E c \in Callers :
       \/ \E key \in Keys : GetOrLoad(c, key)
       \/ LoadSucceeds(c)
       \/ \E retryable \in BOOLEAN : LoadFails(c, retryable)
  \/ CacheTick

-----------------------------------------------------------------------------
(* The requests and their queue. *)

queueVars == <<request, active, waiting, startGate, sinceStart>>

(* "queued": in the waiting list; "woken": its promise resolved, not yet   *)
(* resumed; "gate", "spacing": in waitForStartSlot; "fetching": its        *)
(* operation runs; "redirected": the second fetch, and "reading": the body *)
(* of the answer, both outside the queue; "backoff": between attempts.     *)
Phases == {"idle", "queued", "woken", "gate", "spacing", "fetching",
           "redirected", "reading", "backoff"}

NoRequest == [phase |-> "idle", attempt |-> 0, wait |-> 0]

QueueTypeOK ==
  /\ request \in [Requests -> [phase : Phases, attempt : 0..Attempts - 1, wait : 0..MinIntervalMs]]
  /\ active \in 0..Cardinality(Requests)
  /\ waiting \in SeqOf(Requests, MaxQueued)
  /\ ToSet(startGate) = {r \in Requests : request[r].phase \in {"gate", "spacing"}}
  /\ sinceStart \in 0..MinIntervalMs

QueueInit ==
  /\ request = [r \in Requests |-> NoRequest]
  /\ active = 0 /\ waiting = <<>> /\ startGate = <<>>
  /\ sinceStart = MinIntervalMs

(* The attempt has failed: another after a pause, or the call fails. *)
AttemptFailed(r) ==
  IF request[r].attempt < Attempts - 1 THEN [request[r] EXCEPT !.phase = "backoff"] ELSE NoRequest

(* run, up to acquire's await, in attempt n: a slot at once, a place in    *)
(* the waiting list, or SEC_QUEUE_FULL, which is retried like any other    *)
(* temporary failure.                                                      *)
Acquire(r, n) ==
  /\ UNCHANGED sinceStart
  /\ IF active < Concurrency /\ waiting = <<>>
       THEN /\ active' = active + 1
            /\ startGate' = Append(startGate, r)
            /\ request' = [request EXCEPT ![r] = [phase |-> "gate", attempt |-> n, wait |-> 0]]
            /\ UNCHANGED waiting
       ELSE /\ IF Len(waiting) >= MaxQueued
                 THEN /\ request' = [request EXCEPT ![r] =
                           IF n < Attempts - 1 THEN [phase |-> "backoff", attempt |-> n, wait |-> 0]
                                               ELSE NoRequest]
                      /\ UNCHANGED waiting
                 ELSE /\ waiting' = Append(waiting, r)
                      /\ request' = [request EXCEPT ![r] = [phase |-> "queued", attempt |-> n, wait |-> 0]]
            /\ UNCHANGED <<active, startGate>>

(* getJson for a URL that is in flight returns the promise there is. *)
Begins(r) == request[r].phase = "idle" /\ Acquire(r, 0)

Retries(r) == request[r].phase = "backoff" /\ Acquire(r, request[r].attempt + 1)

(* The woken waiter takes its slot, in a microtask of its own: another     *)
(* call may have taken one since the release.                              *)
Resumes(r) ==
  /\ request[r].phase = "woken"
  /\ active' = active + 1
  /\ startGate' = Append(startGate, r)
  /\ request' = [request EXCEPT ![r].phase = "gate"]
  /\ UNCHANGED <<waiting, sinceStart>>

(* A plausible mistake: nobody awaits the gate of the request before. *)
GateOpenAlways(r) == TRUE

(* The gate of the request before has been released. *)
GateOpen(r) == r = Head(startGate)

(* waitForStartSlot: the wait is computed once the gate opens, ... *)
Waits(r) ==
  /\ request[r].phase = "gate"
  /\ GateOpen(r)
  /\ request' = [request EXCEPT ![r].phase = "spacing", ![r].wait = MinIntervalMs - sinceStart]
  /\ UNCHANGED <<active, waiting, startGate, sinceStart>>

(* ... then slept, and the start noted before the gate is released.        *)
Starts(r) ==
  /\ request[r].phase = "spacing" /\ request[r].wait = 0
  /\ request' = [request EXCEPT ![r].phase = "fetching"]
  /\ sinceStart' = 0
  /\ startGate' = SelectSeq(startGate, LAMBDA q : q # r)
  /\ UNCHANGED <<active, waiting>>

(* A plausible mistake: only the end of a good request wakes a waiter. *)
WakesIfOk(ok) == IF ok THEN 1 ELSE 0

(* How many waiters the finally of run wakes, whatever the outcome. *)
Wakes(ok) == 1

(* The operation has ended: the slot is released and the first waiter      *)
(* woken.  r goes on as next.                                              *)
Released(r, next, ok) ==
  LET woken == {waiting[i] : i \in {j \in DOMAIN waiting : j <= Wakes(ok)}}
  IN /\ active' = active - 1
     /\ waiting' = SelectSeq(waiting, LAMBDA q : q \notin woken)
     /\ request' = [q \in Requests |->
                      IF q = r THEN next
                      ELSE IF q \in woken THEN [request[q] EXCEPT !.phase = "woken"]
                      ELSE request[q]]
     /\ UNCHANGED <<startGate, sinceStart>>

(* Answered, or redirected within the same resource. *)
Answers(r, phase) ==
  /\ request[r].phase = "fetching"
  /\ Released(r, [request[r] EXCEPT !.phase = phase], TRUE)

(* A network error, the timeout, 429, 502, 503 or 504. *)
FailsForNow(r) ==
  /\ request[r].phase = "fetching"
  /\ Released(r, AttemptFailed(r), FALSE)

(* Any other status, or a redirect elsewhere: not retried. *)
FailsForGood(r) ==
  /\ request[r].phase = "fetching"
  /\ Released(r, NoRequest, FALSE)

(* The redirected fetch: a network error in it is one of the attempt.      *)
RedirectEnds(r, ok) ==
  /\ request[r].phase = "redirected"
  /\ request' = [request EXCEPT ![r] = IF ok THEN [@ EXCEPT !.phase = "reading"] ELSE AttemptFailed(r)]
  /\ UNCHANGED <<active, waiting, startGate, sinceStart>>

(* The body is read and parsed, or not: never retried. *)
ReadEnds(r) ==
  /\ request[r].phase = "reading"
  /\ request' = [request EXCEPT ![r] = NoRequest]
  /\ UNCHANGED <<active, waiting, startGate, sinceStart>>

QueueTick ==
  /\ sinceStart < MinIntervalMs
  /\ sinceStart' = sinceStart + 1
  /\ request' = [r \in Requests |->
                   [request[r] EXCEPT !.wait = IF @ > 0 THEN @ - 1 ELSE 0]]
  /\ UNCHANGED <<active, waiting, startGate>>

Proceeds(r) ==
  \/ Retries(r) \/ Resumes(r) \/ Waits(r) \/ Starts(r)
  \/ \E phase \in {"reading", "redirected"} : Answers(r, phase)
  \/ FailsForNow(r) \/ FailsForGood(r)
  \/ \E ok \in BOOLEAN : RedirectEnds(r, ok)
  \/ ReadEnds(r)

QueueNext == QueueTick \/ \E r \in Requests : Begins(r) \/ Proceeds(r)

(* Timers fire, fetches end by their timeout, microtasks run.              *)
QueueFairness == WF_queueVars(QueueTick) /\ \A r \in Requests : WF_queueVars(Proceeds(r))

-----------------------------------------------------------------------------
(* What the cache holds of a key is the newest value ever loaded of it,    *)
(* even when a load fails late and the value it found is put back: a page  *)
(* of filings is never computed from older data than the page before.      *)
(* Values put back exceed the limit by at most one per call.               *)
ValuesGoForward ==
  /\ \A e \in ToSet(entries) : e.latest
  /\ Cardinality({e.key : e \in ToSet(entries)}) = Len(entries)
  /\ Len(entries) <= MaxEntries + Cardinality(Callers)

(* Nobody waits beside a free slot, whatever the outcome of the requests   *)
(* that held it.                                                           *)
NoIdleSlot ==
  waiting # <<>> => active + Cardinality({r \in Requests : request[r].phase = "woken"}) >= Concurrency

(* SEC's fair-access rule: requests start MinIntervalMs apart, also when   *)
(* more than one has a slot.                                               *)
StartsSpaced ==
  [][\A r \in Requests :
       request[r].phase = "spacing" /\ request'[r].phase = "fetching" => sinceStart = MinIntervalMs]_queueVars

(* Every request ends: no wake-up is lost.                                 *)
RequestsEnd == \A r \in Requests : request[r].phase # "idle" ~> request[r].phase = "idle"
=============================================================================
