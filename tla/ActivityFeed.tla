---------------------------- MODULE ActivityFeed ----------------------------
(***************************************************************************)
(* The activity feed (server/utils/investment-activity.ts,                 *)
(* lib/investment-activity.ts): diaries, thesis reviews, research records  *)
(* and theses in one order, read page by page behind a cursor, as of the   *)
(* instant of the first page, while the four tables are being written.     *)
(* Instants are counted in half days: day d begins at 2d and has its noon  *)
(* at 2d+1.  A write touches one row, so the four queries of a page are    *)
(* one step.  The filter by symbol, which all queries share, is left out.  *)
(***************************************************************************)
EXTENDS Integers, Sequences, FiniteSets, Functions, FiniteSetsExt

CONSTANTS
  Times,        \* instants
  MaxRows,      \* bound on the rows there are at first
  MaxWrites,    \* bound on the writes
  SourceLimit,  \* rows read of each table: 2 * ACTIVITY_LIMIT
  Limit         \* rows of a page, at most SourceLimit: 1 to ACTIVITY_LIMIT

VARIABLES
  rows,     \* of the four tables
  asOf,     \* of the first page; -1 before it is read
  cursor,   \* the last item of the page before; {} when there is none
  shown,    \* items of the pages so far
  hasMore,
  touched,  \* history: [kind, id] of the rows written since the first page
  overrun   \* history: a page left out more than a window can spare

vars == <<rows, asOf, cursor, shown, hasMore, touched, overrun>>

KIND_ORDER == [diary |-> 0, thesis_review |-> 1, stock_timeline |-> 2, thesis |-> 3]
Kinds == DOMAIN KIND_ORDER
Noon(t) == 2 * (t \div 2) + 1
Midnight(t) == 2 * (t \div 2)

\* A diary has a date, stored as its noon; of: the diary a record comes from.
Row == [kind : Kinds, id : Nat, time : Times, of : Nat]
Rows(k) == {r \in rows : r.kind = k}
Key(r) == <<r.kind, r.id>>
Ids(k) == {key[2] : key \in {e \in {Key(r) : r \in rows} \cup touched : e[1] = k}}
New(k, t, d) == [kind |-> k, id |-> Max(Ids(k) \cup {0}) + 1, time |-> t, of |-> d]

\* Diaries compare by the beginning of their day.
At(r) == IF r.kind = "diary" THEN Midnight(r.time) ELSE r.time

\* compareItems
Before(a, b) ==
  \/ At(a) > At(b)
  \/ At(a) = At(b) /\ KIND_ORDER[a.kind] < KIND_ORDER[b.kind]
  \/ At(a) = At(b) /\ a.kind = b.kind /\ a.id < b.id

TypeOK ==
  /\ \A r \in rows : r \in Row /\ (r.kind = "diary" => r.time = Noon(r.time))
  /\ asOf \in Times \cup {-1}
  /\ cursor \subseteq Range(shown)
  /\ \A r \in Range(shown) : r \in Row
  /\ hasMore \in BOOLEAN /\ overrun \in BOOLEAN
  /\ touched \subseteq Kinds \X Nat

Numbered(k, times, of) ==
  {[kind |-> k, id |-> i, time |-> times[i], of |-> of[i]] : i \in DOMAIN times}
Alone(times) == [i \in DOMAIN times |-> 0]
Column(S, n) == UNION {[1..m -> S] : m \in 0..n}
Noons == {t \in Times : t = Noon(t)}

Init ==
  /\ \E d \in Column(Noons, MaxRows) :
     \E v \in Column(Times, MaxRows - Len(d)) :
     \E s \in Column(Times, MaxRows - Len(d) - Len(v)) :
     \E t \in Column(Times, MaxRows - Len(d) - Len(v) - Len(s)) :
     \E of \in [DOMAIN s -> {0} \cup DOMAIN d] :
       rows = Numbered("diary", d, Alone(d)) \cup Numbered("thesis_review", v, Alone(v))
                \cup Numbered("stock_timeline", s, of) \cup Numbered("thesis", t, Alone(t))
  /\ asOf = -1 /\ cursor = {} /\ shown = <<>> /\ hasMore = TRUE
  /\ touched = {} /\ overrun = FALSE

-----------------------------------------------------------------------------
(* A slip: only the table of the cursor goes on with its instant. *)
EarlierDays(k, c, r) ==
  \/ r.time < (IF k = "diary" THEN Noon(At(c)) ELSE At(c))
  \/ r.time = At(c) /\ k = c.kind /\ r.id > c.id

(* The predicate a query adds to continue after the cursor. *)
afterActivityCursor(k, c, r) ==
  IF k = "diary"
  THEN LET day == Noon(At(c))
       IN \/ r.time < day
          \/ c.kind = "diary" /\ r.time = day /\ r.id > c.id
          \/ c.kind # "diary" /\ r.time = day /\ At(c) > Midnight(At(c))
  ELSE \/ r.time < At(c)
       \/ r.time = At(c) /\ KIND_ORDER[k] > KIND_ORDER[c.kind]
       \/ r.time = At(c) /\ k = c.kind /\ r.id > c.id

(* What the query of one table finds; it takes the newest of them. *)
Found(k, t) ==
  {r \in Rows(k) : r.time <= (IF k = "diary" THEN Noon(t) ELSE t)
                      /\ \A c \in cursor : afterActivityCursor(k, c, r)}
Newest(S, n) == {r \in S : Cardinality({s \in S : Before(s, r)}) < n}

(* readInvestmentActivityPage: of each table a window, from which the      *)
(* records of the diaries in the window are dropped; the rest is merged,   *)
(* and the page is its beginning.                                          *)
Window(k, t) == Newest(Found(k, t), SourceLimit)
truncated(k, t) == Window(k, t) # Found(k, t)
Dropped(t) == {r \in Window("stock_timeline", t) : \E d \in Window("diary", t) : d.id = r.of}
FeedItems(t) == {r \in rows : r \notin Dropped(t) /\ \E k \in Kinds : r \in Window(k, t)}
Ordered(S) == CHOOSE q \in [1..Cardinality(S) -> S] : \A i, j \in DOMAIN q : i < j => Before(q[i], q[j])

ReadPage ==
  /\ hasMore
  /\ \E t \in IF asOf = -1 THEN Times ELSE {asOf} :
     LET items == FeedItems(t)
         pageItems == Ordered(Newest(items, Limit))
     IN /\ asOf' = t
        /\ shown' = shown \o pageItems
        /\ cursor' = IF pageItems = <<>> THEN cursor ELSE {pageItems[Len(pageItems)]}
        /\ hasMore' = (pageItems # <<>>
                         /\ \/ Len(pageItems) < Cardinality(items)
                            \/ \E k \in Kinds : truncated(k, t))
        /\ overrun' = \/ overrun
                       \/ /\ truncated("stock_timeline", t)
                          /\ Cardinality(Dropped(t)) > SourceLimit - Limit
  /\ UNCHANGED <<rows, touched>>

-----------------------------------------------------------------------------
\* What is written with the present time is not older than the first page.
Present == {t \in Times : t >= asOf}

Write(gone, new) ==
  /\ asOf # -1 /\ hasMore /\ Cardinality(touched) < MaxWrites
  /\ rows' = (rows \ gone) \cup new
  /\ touched' = touched \cup {Key(r) : r \in gone \cup new}
  /\ UNCHANGED <<asOf, cursor, shown, hasMore, overrun>>

(* createDiaryForUser, updateDiaryForUser: of any date. *)
SaveDiary(t) ==
  \/ Write({}, {New("diary", Noon(t), 0)})
  \/ \E d \in Rows("diary") : Write({d}, {[d EXCEPT !.time = Noon(t)]})

(* The records of a diary that is deleted stay, without it. *)
DeleteDiary(d) ==
  LET its == {r \in rows : r.of = d.id}
  IN Write({d} \cup its, {[r EXCEPT !.of = 0] : r \in its})

(* createStockTimelineRecordsFromAgent: a new record, or other contents    *)
(* under an idempotency key it has used before.                            *)
UpsertRecord(t, of) ==
  /\ of = 0 \/ \E d \in Rows("diary") : d.id = of
  /\ \/ Write({}, {New("stock_timeline", t, of)})
     \/ \E r \in Rows("stock_timeline") : Write({r}, {[r EXCEPT !.time = t, !.of = of]})

(* saveCurrentThesis: a thesis is moved to the present by every write. *)
SaveThesis(t) ==
  /\ t \in Present
  /\ \/ Write({}, {New("thesis", t, 0)})
     \/ \E r \in Rows("thesis") : Write({r}, {[r EXCEPT !.time = t]})

(* completeThesisReview: the review, and the thesis reviewed. *)
CompleteReview(t) ==
  /\ t \in Present
  /\ \E r \in Rows("thesis") :
       Write({r}, {[r EXCEPT !.time = t], New("thesis_review", t, 0)})

Next ==
  \/ ReadPage
  \/ \E t \in Times :
       \/ SaveDiary(t) \/ SaveThesis(t) \/ CompleteReview(t)
       \/ \E of \in {0} \cup Ids("diary") : UpsertRecord(t, of)
  \/ \E d \in Rows("diary") : DeleteDiary(d)

Spec == Init /\ [][Next]_vars

-----------------------------------------------------------------------------
\* The promise of the cursor ("can silently omit old records", the comment on
\* afterActivityCursor): the pages are in the one order of the feed, so that
\* nothing comes twice, and at the end they hold every row as of the first
\* page that nobody wrote meanwhile.  Two exceptions: the records of diaries,
\* which the feed may leave out; and a feed in which a page had to leave out
\* more of a truncated window of records than the window exceeds a page by.
FeedIsWhole ==
  /\ \A i, j \in DOMAIN shown : i < j => Before(shown[i], shown[j])
  /\ ~hasMore /\ ~overrun =>
       \A r \in rows :
         /\ r.time <= (IF r.kind = "diary" THEN Noon(asOf) ELSE asOf)
         /\ r.of = 0 /\ Key(r) \notin touched
         => r \in Range(shown)
=============================================================================
