----------------------------- MODULE ArticleFeed -----------------------------
(***************************************************************************)
(* The list of articles (pages/articles/index.vue): pages of GET /api/blog *)
(* that grow by scrolling, a page fetched ahead, a category and a search   *)
(* kept in the route, the deletion of a post by an administrator, and the  *)
(* posts that others publish and take back meanwhile.                      *)
(* Answers come late and out of order; requestGeneration tells those of    *)
(* the current list from the others.                                       *)
(***************************************************************************)
EXTENDS Naturals, Sequences, FiniteSets

CONSTANTS
  Posts,     \* posts, numbered in the order they are published
  Limit,     \* rows of a page: 9
  MaxGen     \* bound on the lists

VARIABLES
  stored,       \* posts that are published
  filter,       \* category and search of the route
  posts,        \* posts shown
  origin,       \* history: the page the list begins with
  currentPage,
  totalPages,   \* of pagination; 0 when there is none
  pending, loadingMore,
  error,        \* the first page could not be fetched: shown instead of the posts
  requestGeneration,
  cache,        \* prefetchCache: the rows of a page fetched ahead
  prefetching,
  requests,     \* GET /api/blog under way
  changed       \* history: a post came or went since the first page of the list was
                \* read

vars == <<stored, filter, posts, origin, currentPage, totalPages, pending, loadingMore,
          error, requestGeneration, cache, prefetching, requests, changed>>

Filters == {"all", "category"}
Newest(S) == CHOOSE q \in [1..Cardinality(S) -> S] : \A i, j \in DOMAIN q : i < j => q[i] > q[j]
Matching(f) == Newest({p \in stored : f = "all" \/ \E q \in Posts : q < p})
Upto(a, b) == IF a < b THEN a ELSE b
Pages(n) == (n + Limit - 1) \div Limit
MaxPage == Pages(Cardinality(Posts)) + 2

(* queryPosts, for the public. *)
Rows(f, k) == SubSeq(Matching(f), (k - 1) * Limit + 1, Upto(k * Limit, Len(Matching(f))))

Payload == [items : Seq(Posts), pages : 0..MaxPage]
Unread == [items |-> <<>>, pages |-> 0]

(* for: what the request was made for; holds: the flag that a page fetched *)
(* ahead keeps set until it ends.                                          *)
Request == [for : {"initial", "more", "ahead"}, holds : {"none", "pending", "loadingMore"},
            generation : 0..MaxGen, page : 1..MaxPage, filter : Filters, read : BOOLEAN, payload : Payload]

TypeOK ==
  /\ stored \subseteq Posts
  /\ filter \in Filters
  /\ posts \in Seq(Posts)
  /\ origin \in 1..MaxPage /\ currentPage \in 1..MaxPage /\ totalPages \in 0..MaxPage
  /\ pending \in BOOLEAN /\ loadingMore \in BOOLEAN /\ error \in BOOLEAN /\ changed \in BOOLEAN
  /\ requestGeneration \in 0..MaxGen
  /\ DOMAIN cache \subseteq 1..MaxPage /\ \A k \in DOMAIN cache : cache[k] \in Payload
  /\ prefetching \subseteq 1..MaxPage
  /\ \A r \in requests : r \in Request

Asked(for, holds, generation, page, f) ==
  [for |-> for, holds |-> holds, generation |-> generation, page |-> page, filter |-> f,
   read |-> FALSE, payload |-> Unread]

(* The route may name a page. *)
Init ==
  /\ stored \in SUBSET Posts
  /\ filter = "all"
  /\ posts = <<>>
  /\ currentPage \in 1..2 /\ origin = currentPage /\ totalPages = 0
  /\ pending = TRUE /\ loadingMore = FALSE /\ error = FALSE
  /\ requestGeneration = 0
  /\ cache = <<>> /\ prefetching = {}
  /\ requests = {Asked("initial", "none", 0, currentPage, "all")}
  /\ changed = FALSE

(* A plausible mistake: whatever is answered is used. *)
CurrentAlways(r) == TRUE

Current(r) == r.generation = requestGeneration

(* loadInitial, up to its await *)
LoadInitial(page, f) ==
  /\ requestGeneration < MaxGen
  /\ requestGeneration' = requestGeneration + 1
  /\ cache' = <<>> /\ prefetching' = {}
  /\ loadingMore' = FALSE /\ pending' = TRUE /\ error' = FALSE
  /\ requests' = requests \cup {Asked("initial", "none", requestGeneration + 1, page, f)}
  /\ currentPage' = page

(* performSearch or a category: the watcher of the route starts over. *)
SetFilter(f) ==
  /\ f # filter
  /\ filter' = f
  /\ LoadInitial(1, f)
  /\ UNCHANGED <<stored, posts, origin, totalPages, changed>>

(* DELETE /api/blog/:id, then handlePostDeleted. *)
DeletePost(p) ==
  /\ p \in stored
  /\ stored' = stored \ {p}
  /\ changed' = TRUE
  /\ LoadInitial(1, filter)
  /\ UNCHANGED <<filter, posts, origin, totalPages>>

(* The button under the error: the page the list had come to is asked for. *)
Refresh ==
  /\ error
  /\ LoadInitial(currentPage, filter)
  /\ UNCHANGED <<stored, filter, posts, origin, totalPages, changed>>

(* A post that somebody else publishes.  Its date is that of now, so it    *)
(* comes before all that are published (resolvePublishedAt); one that was  *)
(* taken back comes again under a later number.                            *)
Publish(p) ==
  /\ \A q \in stored : q < p
  /\ stored' = stored \cup {p}
  /\ changed' = TRUE
  /\ UNCHANGED <<filter, posts, origin, currentPage, totalPages, pending, loadingMore,
                 error, requestGeneration, cache, prefetching, requests>>

(* A post that somebody else takes back. *)
Archive(p) ==
  /\ p \in stored
  /\ stored' = stored \ {p}
  /\ changed' = TRUE
  /\ UNCHANGED <<filter, posts, origin, currentPage, totalPages, pending, loadingMore,
                 error, requestGeneration, cache, prefetching, requests>>

Read(r) ==
  /\ ~r.read
  /\ requests' = (requests \ {r}) \cup
       {[r EXCEPT !.read = TRUE,
                  !.payload = [items |-> Rows(r.filter, r.page), pages |-> Pages(Len(Matching(r.filter)))]]}
  /\ changed' = IF r.for = "initial" /\ Current(r) THEN FALSE ELSE changed
  /\ UNCHANGED <<stored, filter, posts, origin, currentPage, totalPages, pending, loadingMore,
                 error, requestGeneration, cache, prefetching>>

(* prefetchNextPage: awaited, so that the caller's flag stays set; nothing *)
(* to do when there is no next page or it is there or on its way.          *)
Ahead(page, pages, held, holds, rest) ==
  LET ask == page + 1 <= pages /\ page + 1 \notin DOMAIN held \cup prefetching
  IN /\ prefetching' = IF ask THEN prefetching \cup {page + 1} ELSE prefetching
     /\ pending' = IF holds = "pending" /\ ~ask THEN FALSE ELSE pending
     /\ loadingMore' = IF holds = "loadingMore" THEN ask ELSE loadingMore
     /\ requests' = rest \cup (IF ask THEN {Asked("ahead", holds, requestGeneration, page + 1, filter)} ELSE {})

(* setPageData, and the page fetched ahead that follows it. *)
SetPageData(page, payload, append, holds, rest) ==
  /\ posts' = IF append THEN posts \o payload.items ELSE payload.items
  /\ origin' = IF append THEN origin ELSE page
  /\ totalPages' = payload.pages
  /\ currentPage' = page
  /\ cache' = [k \in DOMAIN cache \ {page} |-> cache[k]]
  /\ Ahead(page, payload.pages, cache', holds, rest)

Dropped(r) ==
  /\ requests' = requests \ {r}
  /\ UNCHANGED <<posts, origin, currentPage, totalPages, pending, loadingMore, cache, prefetching>>

AnswerPage(r) ==
  /\ r.read /\ r.for # "ahead"
  /\ IF ~Current(r)
       THEN Dropped(r)
       ELSE IF r.for = "initial"
         THEN SetPageData(r.page, r.payload, FALSE, "pending", requests \ {r})
         ELSE SetPageData(r.page, r.payload, TRUE, "loadingMore", requests \ {r})
  /\ UNCHANGED <<stored, filter, error, requestGeneration, changed>>

(* The end of the awaiting caller of a page fetched ahead. *)
Release(r) ==
  /\ pending' = IF r.holds = "pending" THEN FALSE ELSE pending
  /\ loadingMore' = IF r.holds = "loadingMore" THEN FALSE ELSE loadingMore

AnswerAhead(r) ==
  /\ r.read /\ r.for = "ahead"
  /\ requests' = requests \ {r}
  /\ IF Current(r)
       THEN /\ cache' = [k \in DOMAIN cache \cup {r.page} |-> IF k = r.page THEN r.payload ELSE cache[k]]
            /\ prefetching' = prefetching \ {r.page}
            /\ Release(r)
       ELSE UNCHANGED <<cache, prefetching, pending, loadingMore>>
  /\ UNCHANGED <<stored, filter, posts, origin, currentPage, totalPages, error, requestGeneration,
                 changed>>

Fails(r) ==
  /\ requests' = requests \ {r}
  /\ error' = (error \/ (r.for = "initial" /\ Current(r)))
  /\ IF ~Current(r)
       THEN UNCHANGED <<pending, loadingMore, prefetching>>
       ELSE CASE r.for = "initial" -> pending' = FALSE /\ UNCHANGED <<loadingMore, prefetching>>
              [] r.for = "more" -> loadingMore' = FALSE /\ UNCHANGED <<pending, prefetching>>
              [] r.for = "ahead" -> Release(r) /\ prefetching' = prefetching \ {r.page}
  /\ UNCHANGED <<stored, filter, posts, origin, currentPage, totalPages, requestGeneration, cache, changed>>

(* loadMore, when the end of the list comes near. *)
LoadMore ==
  /\ ~loadingMore /\ ~pending /\ currentPage < totalPages
  /\ IF currentPage + 1 \in DOMAIN cache
       THEN SetPageData(currentPage + 1, cache[currentPage + 1], TRUE, "loadingMore", requests)
       ELSE /\ loadingMore' = TRUE
            /\ requests' = requests \cup {Asked("more", "none", requestGeneration, currentPage + 1, filter)}
            /\ UNCHANGED <<posts, origin, currentPage, totalPages, pending, cache, prefetching>>
  /\ UNCHANGED <<stored, filter, error, requestGeneration, changed>>

Next ==
  \/ \E f \in Filters : SetFilter(f)
  \/ \E p \in Posts : DeletePost(p) \/ Publish(p) \/ Archive(p)
  \/ \E r \in requests : Read(r) \/ AnswerPage(r) \/ AnswerAhead(r) \/ Fails(r)
  \/ Refresh \/ LoadMore

Spec == Init /\ [][Next]_vars

-----------------------------------------------------------------------------
(* As long as no post was published, taken back or deleted since the first *)
(* page of the list was read, the articles shown are the pages from the    *)
(* first one asked for to the current one, of the category and search of   *)
(* the route: no page twice, none skipped, none of another search,         *)
(* whichever of a page asked for and a page fetched ahead came first,      *)
(* failed, or came after the list was begun again.  Otherwise the offsets  *)
(* of the pages shift: a post that is published makes the last article     *)
(* come again with the next page, one that goes hides the next.  (Behind   *)
(* an error scrolling still adds pages of the new search to the old list;  *)
(* the page shows the error instead, until a first page replaces it all.)  *)
ArticlesAreWhole ==
  (~pending /\ ~error /\ ~changed) =>
    posts = SubSeq(Matching(filter), (origin - 1) * Limit + 1, Upto(currentPage * Limit, Len(Matching(filter))))
=============================================================================
