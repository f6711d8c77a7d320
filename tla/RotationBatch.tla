--------------------------- MODULE RotationBatch ---------------------------
(***************************************************************************)
(* The Market Rotation batch of one rank scope                             *)
(* (server/utils/market-rotation-batch.ts) and the window of qualified     *)
(* dates it shares with the monitor (lib/market-rotation/qualified-date.ts,*)
(* server/utils/market-rotation-queries.ts).  A date is a trading day; a   *)
(* symbol's provider may publish its bar late.  Runs start from the admin  *)
(* endpoint or the script, and stop anywhere when a query or a fetch fails.*)
(***************************************************************************)
EXTENDS Integers, FiniteSets, Sequences, SequencesExt, FiniteSetsExt

CONSTANTS
  Symbols,      \* the universe of the scope
  LastDate,     \* bound on the trading days
  Threshold,    \* computeThreshold(universe size): 90 % of the symbols
  Offset,       \* COMPARISON_OFFSET
  Runs          \* batch runs that may overlap

VARIABLES
  bar,          \* market_daily_price: the last date of every symbol; 0 none
  snapshot,     \* market_rotation_snapshot: of symbol and date, the
                \* comparison date its row was computed with
  batch         \* of every run: [phase, latest, comparison, left, alone]

vars == <<bar, snapshot, batch>>

Dates == 1..LastDate
NoDate == 0
NoRow == -1

Idle == [phase |-> "idle", latest |-> [s \in Symbols |-> NoDate], comparison |-> NoDate,
         left |-> {}, alone |-> TRUE]

TypeOK ==
  /\ bar \in [Symbols -> 0..LastDate]
  /\ snapshot \in [Symbols \X Dates -> {NoRow, NoDate} \cup Dates]
  /\ \A r \in Runs :
       /\ batch[r].phase \in {"idle", "loaded", "window", "done"}
       /\ batch[r].latest \in [Symbols -> 0..LastDate]
       /\ batch[r].comparison \in 0..LastDate
       /\ batch[r].left \subseteq Symbols

Init ==
  /\ bar = [s \in Symbols |-> 0]
  /\ snapshot = [c \in Symbols \X Dates |-> NoRow]
  /\ batch = [r \in Runs |-> Idle]

-----------------------------------------------------------------------------
(* qualified-date.ts *)

(* loadQualifiedDatesForScope: filterQualifiedDates over the rows there are. *)
QualifiedDates ==
  {d \in Dates : Cardinality({s \in Symbols : snapshot[s, d] # NoRow}) >= Threshold}

(* getLatestCandidateCoverage and pickLatestQualifiedCandidate: the newest *)
(* date that is the last of enough symbols.                                *)
Candidate(latest) ==
  LET enough == {d \in Dates : Cardinality({s \in Symbols : latest[s] = d}) >= Threshold}
  IN IF enough = {} THEN NoDate ELSE Max(enough)

Descending(dates) == SetToSortSeq(dates, LAMBDA a, b : a > b)

(* A plausible mistake: a retry counts its own date twice. *)
WindowRepeating(qualified, candidate) ==
  (IF candidate = NoDate THEN <<>> ELSE <<candidate>>) \o Descending(qualified)

(* resolveQualifiedDateWindow: the candidate takes its place, once. *)
Window(qualified, candidate) ==
  Descending(qualified \cup (IF candidate = NoDate THEN {} ELSE {candidate}))

(* pickComparisonDate *)
Comparison(dates) == IF Len(dates) > Offset THEN dates[Offset + 1] ELSE NoDate

LatestDate(dates) == IF dates = <<>> THEN NoDate ELSE dates[1]

-----------------------------------------------------------------------------
Running(r) == batch[r].phase \in {"loaded", "window"}

(* ensureCanonicalPrices, then step 1: the provider has the bars of the    *)
(* completed days, of some symbols later than of others; a symbol whose    *)
(* prices cannot be read back is left out.                                 *)
Read(r) ==
  /\ ~Running(r)
  /\ bar' \in {f \in [Symbols -> 0..LastDate] : \A s \in Symbols : bar[s] <= f[s]}
  /\ \E unread \in SUBSET Symbols :
       batch' = [q \in Runs |->
         IF q = r
           THEN [Idle EXCEPT !.phase = "loaded",
                             !.latest = [s \in Symbols |-> IF s \in unread THEN NoDate ELSE bar'[s]],
                             !.alone = \A p \in Runs \ {r} : ~Running(p)]
           ELSE [batch[q] EXCEPT !.alone = FALSE]]
  /\ UNCHANGED snapshot

(* Steps 2 to 4: the window with the candidate in it; every symbol that    *)
(* was read is ranked, and is to be written at its own last date.          *)
Resolve(r) ==
  /\ batch[r].phase = "loaded"
  /\ LET left == {s \in Symbols : batch[r].latest[s] # NoDate}
     IN batch' = [batch EXCEPT ![r].phase = IF left = {} THEN "done" ELSE "window",
                               ![r].comparison = Comparison(Window(QualifiedDates, Candidate(batch[r].latest))),
                               ![r].left = left]
  /\ UNCHANGED <<bar, snapshot>>

(* Step 5: upsertSnapshots, row after row without a transaction. *)
Upsert(r, s) ==
  /\ batch[r].phase = "window"
  /\ s \in batch[r].left
  /\ snapshot' = [snapshot EXCEPT ![<<s, batch[r].latest[s]>>] = batch[r].comparison]
  /\ batch' = [batch EXCEPT ![r].phase = IF batch[r].left = {s} THEN "done" ELSE @,
                            ![r].left = @ \ {s}]
  /\ UNCHANGED bar

(* A query or a fetch throws, or the process ends: what is written stays. *)
Aborts(r) ==
  /\ Running(r)
  /\ batch' = [batch EXCEPT ![r] = Idle]
  /\ UNCHANGED <<bar, snapshot>>

Next ==
  \E r \in Runs :
    \/ Read(r) \/ Resolve(r) \/ Aborts(r)
    \/ \E s \in Symbols : Upsert(r, s)

Spec == Init /\ [][Next]_vars

-----------------------------------------------------------------------------
(* getComparisonWindow's promise, "what lets pre-persistence snapshot      *)
(* generation and post-persistence monitor reads select the same           *)
(* comparison boundary": when a run that nothing overlapped has written    *)
(* the same day for every symbol, the monitor shows that day and compares  *)
(* with the date the rows were computed with, also after runs that stopped *)
(* half-way and when the day is run again.                                 *)
SameBoundary ==
  \A r \in Runs : \A d \in Dates :
    batch[r].phase = "done" /\ batch[r].alone /\ batch[r].latest = [s \in Symbols |-> d] =>
      LET dates == Window(QualifiedDates, NoDate)
      IN /\ LatestDate(dates) = d
         /\ Comparison(dates) = batch[r].comparison
         /\ \A s \in Symbols : snapshot[s, d] = batch[r].comparison

(* enrichScopes: "Input snapshots must all belong to the same date and     *)
(* rank scope", since they are ranked against one another.                 *)
RankedOnOneDate ==
  \A r \in Runs : \A s, q \in batch[r].left : batch[r].latest[s] = batch[r].latest[q]
=============================================================================
