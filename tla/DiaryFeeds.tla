----------------------------- MODULE DiaryFeeds -----------------------------
(***************************************************************************)
(* The two endless lists of diaries: the timeline, kept by                 *)
(* composables/useTimelineDiaries.ts, and pages/diaries/index.vue.  Both   *)
(* ask GET /api/diaries for the first page through Nuxt's useLazyFetch,    *)
(* which lets a newer request cancel an older one, and for the next pages  *)
(* by a plain request, which nothing cancels.  Meanwhile the filters       *)
(* change, diaries are written, and answers come late, out of order or not *)
(* at all.                                                                 *)
(***************************************************************************)
EXTENDS Naturals, Sequences, FiniteSets, Functions

CONSTANTS
  Ids,       \* ids of diaries, which also are their dates
  Unwritten, \* those of diaries that are created later
  Limit,     \* rows of a page
  MaxGen,    \* bound on the refreshes
  MaxPage    \* bound on the pages: when a diary was created since, rows are
             \* never as many as total says and hasMore never turns false

VARIABLES
  surface,      \* "timeline" or "list"
  stored,       \* ids of the diaries there are
  gone,         \* ids of diaries deleted again
  filter,       \* the date range asked for
  list,         \* ids shown, in the order they came
  total,        \* pagination.total; 0 when there is no pagination
  page,         \* page, or currentPage: the last page loaded
  loadingMore,
  generation,   \* first-page requests so far
  first,        \* the first-page request under way
  more,         \* requests for later pages under way
  changed,      \* history: diaries were written since the first page was read
  raced         \* history, list only: a refresh met a later page

vars == <<surface, stored, gone, filter, list, total, page, loadingMore, generation, first, more,
          changed, raced>>
shown == <<list, total, page>>

Filters == {"all", "since"}
Newest(S) == CHOOSE q \in [1..Cardinality(S) -> S] : \A i, j \in DOMAIN q : i < j => q[i] > q[j]
Matching(f) == Newest({i \in stored : f = "all" \/ \E j \in Ids : j < i})

Upto(a, b) == IF a < b THEN a ELSE b

(* listDiariesForUser: ordered by date, newest first.  Its rows and their  *)
(* count are two queries sent together; they are one read here.            *)
Rows(f, k) == SubSeq(Matching(f), (k - 1) * Limit + 1, Upto(k * Limit, Len(Matching(f))))

Answer == [phase : {"idle", "asked", "read"}, items : Seq(Ids), total : 0..Cardinality(Ids)]
NoAnswer == [phase |-> "idle", items |-> <<>>, total |-> 0]
Asked == [NoAnswer EXCEPT !.phase = "asked"]
ReadOf(f, k) == [phase |-> "read", items |-> Rows(f, k), total |-> Len(Matching(f))]

Later == [generation : 0..MaxGen, page : 1..MaxPage, filter : Filters, answer : Answer]

TypeOK ==
  /\ surface \in {"timeline", "list"}
  /\ stored \subseteq Ids /\ gone \subseteq Ids
  /\ filter \in Filters
  /\ list \in Seq(Ids)
  /\ total \in 0..Cardinality(Ids)
  /\ page \in 1..MaxPage
  /\ loadingMore \in BOOLEAN /\ changed \in BOOLEAN /\ raced \in BOOLEAN
  /\ generation \in 0..MaxGen
  /\ first \in Answer
  /\ \A m \in more : m \in Later

Init ==
  /\ surface \in {"timeline", "list"}
  /\ stored = Ids \ Unwritten /\ gone = {}
  /\ filter = "all"
  /\ list = <<>> /\ total = 0 /\ page = 1
  /\ loadingMore = FALSE
  /\ generation = 0
  /\ first = Asked
  /\ more = {}
  /\ changed = FALSE /\ raced = FALSE

pending == first.phase # "idle"
hasMore == Len(list) < total

-----------------------------------------------------------------------------
(* refresh of the timeline: what is shown goes, and later pages under way  *)
(* belong to an older generation.                                          *)
RefreshTimeline ==
  /\ surface = "timeline"
  /\ list' = <<>> /\ total' = 0 /\ page' = 1
  /\ loadingMore' = FALSE
  /\ UNCHANGED raced

(* refreshAll of the page: only the request is repeated. *)
RefreshList ==
  /\ surface = "list"
  /\ raced' = (raced \/ more # {} \/ page > 1)
  /\ UNCHANGED <<shown, loadingMore>>

Ask ==
  /\ generation < MaxGen
  /\ generation' = generation + 1
  /\ first' = Asked

(* onDiaryMutation: a diary was saved somewhere else in the tab. *)
Refresh ==
  /\ Ask
  /\ RefreshTimeline \/ RefreshList
  /\ UNCHANGED <<surface, stored, gone, filter, more, changed>>

(* The watcher of queryParams. *)
RestartList ==
  /\ surface = "list"
  /\ page' = 1
  /\ raced' = (more # {})
  /\ UNCHANGED <<list, total, loadingMore>>

SetFilter(f) ==
  /\ f # filter
  /\ filter' = f
  /\ Ask
  /\ RefreshTimeline \/ RestartList
  /\ UNCHANGED <<surface, stored, gone, more, changed>>

ReadFirst ==
  /\ first.phase = "asked"
  /\ first' = ReadOf(filter, 1)
  /\ changed' = FALSE
  /\ UNCHANGED <<surface, stored, gone, filter, shown, loadingMore, generation, more, raced>>

AnswerFirst ==
  /\ first.phase = "read"
  /\ first' = NoAnswer
  /\ list' = first.items /\ total' = first.total
  /\ UNCHANGED <<surface, stored, gone, filter, page, loadingMore, generation, more, changed, raced>>

(* useLazyFetch falls back to no data: the list of the page is empty then, *)
(* the timeline keeps what refresh left.                                   *)
FirstFails ==
  /\ pending
  /\ first' = NoAnswer
  /\ list' = IF surface = "list" THEN <<>> ELSE list
  /\ total' = IF surface = "list" THEN 0 ELSE total
  /\ UNCHANGED <<surface, stored, gone, filter, page, loadingMore, generation, more, changed, raced>>

-----------------------------------------------------------------------------
LoadMore ==
  /\ ~pending /\ ~loadingMore /\ hasMore /\ page < MaxPage
  /\ loadingMore' = TRUE
  /\ more' = more \cup {[generation |-> generation, page |-> page + 1, filter |-> filter, answer |-> Asked]}
  /\ UNCHANGED <<surface, stored, gone, filter, shown, generation, first, changed, raced>>

ReadMore(m) ==
  /\ m.answer.phase = "asked"
  /\ more' = (more \ {m}) \cup {[m EXCEPT !.answer = ReadOf(m.filter, m.page)]}
  /\ UNCHANGED <<surface, stored, gone, filter, shown, loadingMore, generation, first, changed, raced>>

(* A plausible mistake: the rows are added as they come. *)
Chained(existing, incoming) == existing \o incoming

mergeDiariesById(existing, incoming) ==
  LET new == {k \in DOMAIN incoming : incoming[k] \notin Range(existing)}
      place(k) == Cardinality({j \in new : j <= k})
  IN  existing \o [n \in 1..Cardinality(new) |-> incoming[CHOOSE k \in new : place(k) = n]]

(* A plausible mistake: the timeline does as the page does. *)
Welcome(m) == TRUE

(* requestGeneration = generation; the page has no such test. *)
Current(m) == surface = "timeline" => m.generation = generation

AnswerMore(m) ==
  /\ m.answer.phase = "read"
  /\ more' = more \ {m}
  /\ IF Current(m)
       THEN /\ list' = mergeDiariesById(list, m.answer.items)
            /\ total' = m.answer.total
            /\ page' = m.page
            /\ loadingMore' = FALSE
       ELSE UNCHANGED <<shown, loadingMore>>
  /\ UNCHANGED <<surface, stored, gone, filter, generation, first, changed, raced>>

(* The list stays, and a retry asks for the same page. *)
MoreFails(m) ==
  /\ more' = more \ {m}
  /\ loadingMore' = IF Current(m) THEN FALSE ELSE loadingMore
  /\ UNCHANGED <<surface, stored, gone, filter, shown, generation, first, changed, raced>>

-----------------------------------------------------------------------------
(* DiaryWrite, from this tab or another one. *)
Create(i) ==
  /\ i \notin stored \cup gone
  /\ stored' = stored \cup {i}
  /\ changed' = TRUE
  /\ UNCHANGED <<surface, gone, filter, shown, loadingMore, generation, first, more, raced>>

Delete(i) ==
  /\ i \in stored
  /\ stored' = stored \ {i}
  /\ gone' = gone \cup {i}
  /\ changed' = TRUE
  /\ UNCHANGED <<surface, filter, shown, loadingMore, generation, first, more, raced>>

Next ==
  \/ Refresh
  \/ \E f \in Filters : SetFilter(f)
  \/ ReadFirst \/ AnswerFirst \/ FirstFails
  \/ LoadMore
  \/ \E m \in more : ReadMore(m) \/ AnswerMore(m) \/ MoreFails(m)
  \/ \E i \in Ids : Create(i) \/ Delete(i)

Spec == Init /\ [][Next]_vars

-----------------------------------------------------------------------------
(* No diary is shown twice, whatever was written between two pages; and as *)
(* long as nothing was written since the first page was read, the list is  *)
(* the newest diaries the filters ask for, without a gap or a stranger,    *)
(* however filters, refreshes, failures and late answers followed each     *)
(* other.  The page of diaries keeps the second half only until a refresh  *)
(* meets a later page: its requests carry no generation, and its refresh   *)
(* leaves currentPage where it was.                                        *)
ListsAreWhole ==
  /\ \A a, b \in DOMAIN list : list[a] = list[b] => a = b
  /\ (~pending /\ ~changed /\ ~raced) =>
       list = SubSeq(Matching(filter), 1, Upto(page * Limit, total))
=============================================================================
