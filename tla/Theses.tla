------------------------------- MODULE Theses -------------------------------
(***************************************************************************)
(* The thesis of one user on one stock, and its reviews                    *)
(* (server/utils/investment-thesis-queries.ts), as the review page         *)
(* (buildReviewBuckets in diary-read.ts) and the attention list            *)
(* (lib/portfolio-attention.ts, api/portfolio/attention.get.ts) judge it.  *)
(* The review page has its day from TodayStart to TomorrowStart, and the   *)
(* clock runs inside it.                                                   *)
(***************************************************************************)
EXTENDS Naturals, FiniteSets

CONSTANTS
  Dues,      \* the due dates that are entered: before, in and after the day
  MaxNow,    \* bound on the clock
  MaxCalls,  \* bound on the writes under way
  MaxReviews \* bound on the reviews

Null == 0
TodayStart == 2
TomorrowStart == MaxNow + 1
Outcomes == {"HEALTHY", "INVALIDATED"}
Statuses == {"DRAFT", "ACTIVE", "ARCHIVED"}

VARIABLES
  now,
  thesis,   \* {} or {[status, complete, due, activatedAt, archivedAt,
            \* lastReviewedAt, latestOutcome]}; complete: summary and why are there
  reviews,  \* [at, outcome, status], status being the snapshot's
  calls,    \* writes that have read and not yet written
  crossed   \* ghost: two reviews overlapped

vars == <<now, thesis, reviews, calls, crossed>>

Times == 0..MaxNow

TypeOK ==
  /\ now \in TodayStart..MaxNow
  /\ Cardinality(thesis) <= 1
  /\ \A t \in thesis : /\ t.status \in Statuses /\ t.due \in Dues \union {Null}
                       /\ {t.activatedAt, t.archivedAt, t.lastReviewedAt} \subseteq Times
                       /\ t.latestOutcome \in Outcomes \union {"none"}
  /\ \A r \in reviews : r.at \in Times /\ r.outcome \in Outcomes
  /\ Cardinality(calls) <= MaxCalls

Init == now = TodayStart /\ thesis = {} /\ reviews = {} /\ calls = {} /\ crossed = FALSE

Tick ==
  /\ now < MaxNow
  /\ now' = now + 1
  /\ UNCHANGED <<thesis, reviews, calls, crossed>>

Room == Cardinality(calls) < MaxCalls

(* saveCurrentThesis reads the activation date alone; an ACTIVE one must   *)
(* have its summary and the reason to own.                                 *)
SaveRead(status, complete, due) ==
  /\ Room
  /\ status = "ACTIVE" => complete
  /\ LET before == IF thesis = {} THEN Null ELSE (CHOOSE t \in thesis : TRUE).activatedAt
     IN calls' = calls \union
          {[kind |-> "save", status |-> status, complete |-> complete, due |-> due,
            fresh |-> thesis = {},
            activatedAt |-> IF status = "ACTIVE" /\ before = Null THEN now ELSE before,
            archivedAt |-> IF status = "ARCHIVED" THEN now ELSE Null]}
  /\ UNCHANGED <<now, thesis, reviews, crossed>>

(* The upsert replaces every column of the draft, and leaves the reviewed  *)
(* ones; without a row at the read the activation date of a DRAFT or an    *)
(* ARCHIVED one is left out of the update.                                 *)
SaveWrite(c) ==
  /\ c.kind = "save"
  /\ LET Columns(t) == [t EXCEPT !.status = c.status, !.complete = c.complete, !.due = c.due,
                                 !.archivedAt = c.archivedAt,
                                 !.activatedAt = IF c.fresh /\ c.status # "ACTIVE" THEN @
                                                 ELSE c.activatedAt]
         new == [status |-> "DRAFT", complete |-> FALSE, due |-> Null, activatedAt |-> Null,
                 archivedAt |-> Null, lastReviewedAt |-> Null, latestOutcome |-> "none"]
     IN thesis' = IF thesis = {} THEN {Columns(new)} ELSE {Columns(t) : t \in thesis}
  /\ calls' = calls \ {c}
  /\ UNCHANGED <<now, reviews, crossed>>

(* completeThesisReview: of an ACTIVE thesis; the review and the thesis's  *)
(* last review are written in one transaction.                             *)
ReviewRead(outcome) ==
  /\ Room
  /\ Cardinality(reviews) + Cardinality({c \in calls : c.kind = "review"}) < MaxReviews
  /\ \E t \in thesis :
       /\ t.status = "ACTIVE"
       /\ calls' = calls \union {[kind |-> "review", outcome |-> outcome, at |-> now, status |-> t.status]}
  /\ crossed' = (crossed \/ \E c \in calls : c.kind = "review")
  /\ UNCHANGED <<now, thesis, reviews>>

(* A slip: the outcome of the first review stays. *)
LastReviewOutcomeKept(t, c) ==
  [t EXCEPT !.lastReviewedAt = c.at, !.latestOutcome = IF @ = "none" THEN c.outcome ELSE @]
(* A slip: a review moves no date. *)
LastReviewUndated(t, c) == [t EXCEPT !.latestOutcome = c.outcome]
LastReview(t, c) == [t EXCEPT !.lastReviewedAt = c.at, !.latestOutcome = c.outcome]

ReviewWrite(c) ==
  /\ c.kind = "review"
  /\ reviews' = reviews \union {[at |-> c.at, outcome |-> c.outcome, status |-> c.status]}
  /\ thesis' = {LastReview(t, c) : t \in thesis}
  /\ calls' = calls \ {c}
  /\ UNCHANGED <<now, crossed>>

----------------------------------------------------------------------------
(* Overdue by the one rule of isThesisReviewOverdue.                       *)
isThesisReviewOverdue(due, lastReviewedAt, baseline) ==
  /\ due # Null /\ due < baseline
  /\ lastReviewedAt = Null \/ lastReviewedAt < due

(* The page goes by the latest review row, and by the thesis without one.  *)
LatestReview(t) ==
  IF reviews = {} THEN t.lastReviewedAt ELSE CHOOSE a \in {r.at : r \in reviews} :
                                              \A r \in reviews : r.at <= a
ThesisBucket(t) ==
  LET last == LatestReview(t)
  IN IF last # Null /\ (t.due = Null \/ last >= t.due) THEN "completed"
     ELSE IF t.due = Null THEN "unscheduled"
     ELSE IF isThesisReviewOverdue(t.due, last, TodayStart) THEN "overdue"
     ELSE IF t.due < TomorrowStart THEN "today" ELSE "upcoming"

(* deriveInvestmentThesisHealth. *)
Health(t) ==
  CASE t.status = "ARCHIVED" -> "archived"
    [] t.status = "DRAFT" -> "draft"
    [] t.status = "ACTIVE" /\ t.latestOutcome = "INVALIDATED" -> "invalidated"
    [] OTHER -> IF t.due # Null /\ t.due < now THEN "needs_review" ELSE "healthy"

(* evaluatePortfolioAttention, for a stock that is held, and for a diary.  *)
StockAttention ==
  IF thesis = {} \/ \E t \in thesis : t.status = "DRAFT" THEN {"missing_thesis"}
  ELSE {r \in {"overdue_thesis_review", "invalidated_thesis_while_held"} :
          \E t \in thesis :
            /\ t.status # "ARCHIVED"
            /\ r = "overdue_thesis_review" => isThesisReviewOverdue(t.due, t.lastReviewedAt, now)
            /\ r = "invalidated_thesis_while_held" => t.latestOutcome = "INVALIDATED"}

Next ==
  \/ Tick
  \/ \E s \in Statuses, complete \in BOOLEAN, due \in Dues \union {Null} : SaveRead(s, complete, due)
  \/ \E c \in calls : SaveWrite(c)
  \/ \E o \in Outcomes : ReviewRead(o)
  \/ \E c \in calls : ReviewWrite(c)

Spec == Init /\ [][Next]_vars

----------------------------------------------------------------------------
(* An ACTIVE thesis has its text and the date it became so, an ARCHIVED    *)
(* one, and no other, the date of that; what it says of its last review is *)
(* one of its reviews; and no review is of a thesis that was not active.   *)
ThesisHolds ==
  /\ \A t \in thesis :
       /\ t.status = "ACTIVE" => t.complete /\ t.activatedAt # Null
       /\ (t.status = "ARCHIVED") = (t.archivedAt # Null)
       /\ IF reviews = {} THEN t.lastReviewedAt = Null
          ELSE \E r \in reviews : r.at = t.lastReviewedAt /\ r.outcome = t.latestOutcome
  /\ \A r \in reviews : r.status = "ACTIVE"

(* The two readers of the overdue rule: of an active thesis whose reviews  *)
(* did not overlap, the page and the attention list clear the signal       *)
(* together, although one goes by the review rows and the other by the     *)
(* thesis, and the page by the start of the day; and the health shown with *)
(* the thesis is invalidated when the list says so, and not healthy when   *)
(* the list calls it overdue.                                              *)
SignalsAgree ==
  \A t \in thesis :
    t.status = "ACTIVE" /\ ~crossed =>
      /\ ThesisBucket(t) = "overdue" => "overdue_thesis_review" \in StockAttention
      /\ ThesisBucket(t) \in {"completed", "unscheduled", "upcoming"} =>
           "overdue_thesis_review" \notin StockAttention
      /\ (Health(t) = "invalidated") = ("invalidated_thesis_while_held" \in StockAttention)
      /\ "overdue_thesis_review" \in StockAttention => Health(t) \in {"needs_review", "invalidated"}
=============================================================================
