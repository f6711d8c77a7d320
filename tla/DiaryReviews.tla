---------------------------- MODULE DiaryReviews ----------------------------
(***************************************************************************)
(* The review of a diary (server/utils/diary-review.ts, and its due date   *)
(* in diary-write.ts), and the review page that is read by five queries at *)
(* once (buildReviewBuckets in diary-read.ts).  The page has its day from  *)
(* TodayStart to TomorrowStart; dates are instants, 0 for none.  The       *)
(* database has a CHECK, diaries_review_lifecycle_v1_check: a diary has    *)
(* the time of its review if and only if it is reviewed.                   *)
(***************************************************************************)
EXTENDS Naturals, FiniteSets

CONSTANTS
  Diaries,
  Dues,      \* the due dates that are entered: before, in and after the day
  Times,     \* the times of reviews
  CompletedLimit, \* rows of the bucket of the completed ones: 50
  MaxCalls   \* bound on the edits under way

Null == 0
TodayStart == 2
TomorrowStart == 4
Buckets == {"unscheduled", "overdue", "today", "upcoming", "completed"}

VARIABLES
  diaries,  \* id -> [due, status, reviewedAt]
  calls,    \* edits that have read and not yet written: [diary, due, reviewed]
  page,     \* the review page: bucket -> the diaries read into it
  toRead,   \* its queries that have not answered yet
  raced     \* ghost: a diary was written since the page was asked for

vars == <<diaries, calls, page, toRead, raced>>

NoPage == [b \in Buckets |-> {}]
Row == [due : Dues \union {Null}, status : {"none", "pending", "reviewed"},
        reviewedAt : Times \union {Null}]
Scheduled(due) ==
  [due |-> due, status |-> IF due = Null THEN "none" ELSE "pending", reviewedAt |-> Null]

TypeOK ==
  /\ diaries \in [Diaries -> Row]
  /\ Cardinality(calls) <= MaxCalls
  /\ calls \subseteq [diary : Diaries, due : Dues \union {Null}, reviewed : BOOLEAN]
  /\ page \in [Buckets -> SUBSET Diaries] /\ toRead \subseteq Buckets /\ raced \in BOOLEAN

Init ==
  /\ diaries = [d \in Diaries |-> Scheduled(Null)]
  /\ calls = {} /\ page = NoPage /\ toRead = {} /\ raced = FALSE

Write(d, row) ==
  /\ diaries' = [diaries EXCEPT ![d] = row]
  /\ raced' = (raced \/ toRead # {} \/ page # NoPage)

(* createDiaryForUser; the row stands for one that was not there before.   *)
Schedule(d, due) ==
  /\ diaries[d] = Scheduled(Null)
  /\ Write(d, Scheduled(due))
  /\ UNCHANGED <<calls, page, toRead>>

(* updateDiaryForUser: whether the diary is reviewed is read first; the    *)
(* transaction then sets the due date, and the status unless it was.       *)
EditRead(d, due) ==
  /\ Cardinality(calls) < MaxCalls
  /\ calls' = calls \union {[diary |-> d, due |-> due, reviewed |-> diaries[d].status = "reviewed"]}
  /\ UNCHANGED <<diaries, page, toRead, raced>>

StatusUnlessReviewed(c, status) ==
  IF c.reviewed THEN status ELSE IF c.due = Null THEN "none" ELSE "pending"

Edited(c) == [diaries[c.diary] EXCEPT !.due = c.due, !.status = StatusUnlessReviewed(c, @)]

(* A slip: the migration leaves the CHECK out. *)
AdmitsAll(r) == TRUE

(* The CHECK. *)
Admits(r) == r.status = "reviewed" <=> r.reviewedAt # Null

EditWrite(c) ==
  /\ Admits(Edited(c))
  /\ Write(c.diary, Edited(c))
  /\ calls' = calls \ {c}
  /\ UNCHANGED <<page, toRead>>

(* The CHECK refuses the update of a diary that was reviewed after it was  *)
(* read: the transaction rolls back, the request ends in an error.         *)
EditRefused(c) ==
  /\ ~Admits(Edited(c))
  /\ calls' = calls \ {c}
  /\ UNCHANGED <<diaries, page, toRead, raced>>

(* saveStructuredReviewForUser, at the time of the server; a review may be *)
(* saved again, and of two at once the one with the earlier time may be    *)
(* written last.                                                           *)
SaveReview(d, at) ==
  /\ Write(d, [diaries[d] EXCEPT !.status = "reviewed", !.reviewedAt = at])
  /\ UNCHANGED <<calls, page, toRead>>

----------------------------------------------------------------------------
(* buildReviewBuckets: five queries that run together, then the thesis.    *)

(* A slip: the day begins after its first instant. *)
BeforeTodayInclusive(due) == due # Null /\ due <= TodayStart
BeforeToday(due) == due # Null /\ due < TodayStart

Where(b, r) ==
  CASE b = "completed"   -> r.status = "reviewed"
    [] b = "unscheduled" -> r.status = "pending" /\ r.due = Null
    [] b = "overdue"     -> r.status # "reviewed" /\ BeforeToday(r.due)
    [] b = "today"       -> r.status # "reviewed" /\ r.due >= TodayStart /\ r.due < TomorrowStart
    [] b = "upcoming"    -> r.status # "reviewed" /\ r.due >= TomorrowStart

OpenPage ==
  /\ toRead = {} /\ page = NoPage
  /\ toRead' = Buckets /\ raced' = FALSE
  /\ UNCHANGED <<diaries, calls, page>>

Matching(b) == {d \in Diaries : Where(b, diaries[d])}

(* A slip: the limit is lost. *)
LatestUnlimited(S) == {S}

(* orderBy reviewedAt desc, take 50: no row left out is of a later review  *)
(* than one that is taken; among those of one time any may come first.     *)
Latest(S) ==
  {T \in SUBSET S :
     \/ T = S /\ Cardinality(S) <= CompletedLimit
     \/ /\ Cardinality(T) = CompletedLimit
        /\ \A e \in T, d \in S \ T : diaries[e].reviewedAt >= diaries[d].reviewedAt}

Answers(b) == IF b = "completed" THEN Latest(Matching(b)) ELSE {Matching(b)}

Query(b) ==
  /\ b \in toRead
  /\ \E rows \in Answers(b) : page' = [page EXCEPT ![b] = rows]
  /\ toRead' = toRead \ {b}
  /\ UNCHANGED <<diaries, calls, raced>>

LeavePage ==
  /\ toRead = {} /\ page # NoPage
  /\ page' = NoPage
  /\ UNCHANGED <<diaries, calls, toRead, raced>>

Next ==
  \/ \E d \in Diaries, due \in Dues : Schedule(d, due)
  \/ \E d \in Diaries, due \in Dues \union {Null} : EditRead(d, due)
  \/ \E c \in calls : EditWrite(c) \/ EditRefused(c)
  \/ \E d \in Diaries, at \in Times : SaveReview(d, at)
  \/ OpenPage
  \/ \E b \in Buckets : Query(b)
  \/ LeavePage

Spec == Init /\ [][Next]_vars

----------------------------------------------------------------------------
(* Of a page that no write fell into: a diary that is not reviewed is in   *)
(* exactly one bucket if it has a due date or waits for a review, else in  *)
(* none.  A reviewed one is in no bucket but that of the completed, which  *)
(* has at most CompletedLimit; one that is not shown there, and so nowhere *)
(* on the page, has given way to that many, each reviewed no earlier.      *)
BucketsPartition ==
  (toRead = {} /\ page # NoPage /\ ~raced) =>
    /\ Cardinality(page["completed"]) <= CompletedLimit
    /\ \A d \in Diaries :
         LET shown == {b \in Buckets : d \in page[b]}
         IN IF diaries[d].status = "reviewed"
              THEN /\ shown \subseteq {"completed"}
                   /\ shown = {} =>
                        /\ Cardinality(page["completed"]) = CompletedLimit
                        /\ \A e \in page["completed"] : diaries[e].reviewedAt >= diaries[d].reviewedAt
              ELSE Cardinality(shown) = IF diaries[d].due = Null /\ diaries[d].status = "none" THEN 0 ELSE 1

(* A diary that has been reviewed stays so: an edit that read it before    *)
(* does not take the review back.                                          *)
StaysReviewed ==
  \A d \in Diaries : diaries[d].status = "reviewed" => diaries'[d].status = "reviewed"
ReviewsStay == [][StaysReviewed]_vars
=============================================================================
