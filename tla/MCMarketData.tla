---------------------------- MODULE MCMarketData ----------------------------
(***************************************************************************)
(* The two clients of outside data: Yahoo Finance (MarketData), and SEC    *)
(* EDGAR with its cache and its request queue (SecEdgar).  They share no   *)
(* variable: each is checked alone, in its own part of the state graph,    *)
(* and the others stay as they began.                                      *)
(***************************************************************************)
EXTENDS MarketData

CONSTANTS Keys, FreshMs, StaleMs, MaxEntries,
          Requests, Attempts, Concurrency, MinIntervalMs, MaxQueued

ASSUME SecAssumption ==
  IsFiniteSet(Callers) /\ Keys # {} /\ FreshMs \in Nat /\ StaleMs \in Nat /\ MaxEntries \in Nat

VARIABLES
  part,   \* the machine that runs
  entries, call,
  request, slots, waiting, startGate, sinceStart

cacheVars == <<entries, call>>
queueVars == <<request, slots, waiting, startGate, sinceStart>>
allVars == <<part, vars, cacheVars, queueVars>>

Sec == INSTANCE SecEdgar WITH active <- slots

InitAll ==
  /\ part \in {"yahoo", "cache", "queue"}
  /\ Init /\ Sec!CacheInit /\ Sec!QueueInit

YahooSteps == part = "yahoo" /\ Next /\ UNCHANGED <<part, cacheVars, queueVars>>
SecSteps == part = "cache" /\ Sec!CacheNext /\ UNCHANGED <<part, vars, queueVars>>
QueueSteps == part = "queue" /\ Sec!QueueNext /\ UNCHANGED <<part, vars, cacheVars>>

\* Nobody need ask SEC; the calls of MarketData all end.
Rests == part # "yahoo" /\ UNCHANGED allVars

NextAll == YahooSteps \/ SecSteps \/ QueueSteps \/ Rests

QueueTick == part = "queue" /\ Sec!QueueTick /\ UNCHANGED <<part, vars, cacheVars>>
QueueProceeds(r) == part = "queue" /\ Sec!Proceeds(r) /\ UNCHANGED <<part, vars, cacheVars>>

SpecAll ==
  /\ InitAll /\ [][NextAll]_allVars
  /\ Fairness
  /\ WF_allVars(QueueTick) /\ \A r \in Requests : WF_allVars(QueueProceeds(r))

-----------------------------------------------------------------------------
\* Of SEC's values, a caller is never shown an older one than a caller before.
SecValuesGoForward == Sec!CacheTypeOK /\ Sec!ValuesGoForward

\* The queue to SEC works to the end: no request waits beside a free slot,
\* they start apart, and every one of them ends.
SecRequestsFlow ==
  /\ [](Sec!QueueTypeOK /\ Sec!NoIdleSlot)
  /\ Sec!StartsSpaced
  /\ Sec!RequestsEnd
=============================================================================
