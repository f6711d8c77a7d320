----------------------------- MODULE AdminLists -----------------------------
(***************************************************************************)
(* The two tables of the administrators: the posts (pages/admin/blog,      *)
(* queryPostsAdmin) and the users (pages/admin/index.vue, listUsersAdmin). *)
(* Both ask for one page at a time and replace what they show by any       *)
(* answer that comes: no request is cancelled or numbered.  A change of    *)
(* the filters asks for the first page half a second later, a write that   *)
(* succeeded asks for a page again.                                        *)
(***************************************************************************)
EXTENDS Naturals, FiniteSets

CONSTANTS
  Rows,        \* the ids, in the order of the table
  Limit,       \* rows of a page
  MaxRequests  \* bound on the requests under way

VARIABLES
  surface,     \* "posts" or "users"
  stored,      \* the rows there are
  narrow,      \* those of them that the narrow filter finds (the drafts, say)
  filter,      \* "all" or "narrow"
  timer,       \* filterTimer, or searchTimer, is set
  shown,       \* posts, or users
  page,        \* pagination.page
  totalPages,  \* pagination.totalPages
  selected,    \* selectedPosts
  loading,     \* while it holds, the rows are hidden
  requests,    \* under way: [kind, phase, ids, page, filter, total]
  upset,       \* ghost: two requests overlapped, or one failed
  thinned      \* ghost: rows left the list other than by one deletion

vars == <<surface, stored, narrow, filter, timer, shown, page, totalPages, selected,
          loading, requests, upset, thinned>>
table == <<shown, page, totalPages, selected>>

Filters == {"all", "narrow"}
Writes == {"status", "role", "delete", "bulkPublish", "bulkDelete"}

Matching(f) == IF f = "all" THEN stored ELSE narrow
PageOf(f, k) == {r \in Matching(f) :
                   Cardinality({s \in Matching(f) : s < r}) \in ((k - 1) * Limit)..(k * Limit - 1)}
Pages(n) == (n + Limit - 1) \div Limit  \* Math.ceil(total / limit)

TypeOK ==
  /\ surface \in {"posts", "users"}
  /\ narrow \subseteq stored /\ stored \subseteq Rows
  /\ filter \in Filters /\ timer \in BOOLEAN
  /\ shown \subseteq Rows /\ selected \subseteq Rows
  /\ page \in Nat /\ totalPages \in Nat
  /\ loading \in BOOLEAN /\ upset \in BOOLEAN /\ thinned \in BOOLEAN
  /\ Cardinality(requests) <= MaxRequests
  /\ \A q \in requests : /\ q.kind \in Writes \union {"fetch"}
                         /\ q.phase \in {"sent", "served"} /\ q.ids \subseteq Rows

Request(kind, ids, p, f) ==
  [kind |-> kind, phase |-> "sent", ids |-> ids, page |-> p, filter |-> f, total |-> 0]

(* The posts start as drafts.  The first fetch is that of onMounted.       *)
Init ==
  /\ surface \in {"posts", "users"}
  /\ stored = Rows
  /\ narrow \in {n \in SUBSET Rows : surface = "posts" => n = Rows}
  /\ filter = "all" /\ timer = FALSE
  /\ shown = {} /\ page = 1 /\ totalPages = 0 /\ selected = {}
  /\ requests = {Request("fetch", {}, 1, filter)} /\ loading = TRUE
  /\ upset = FALSE /\ thinned = FALSE

(* Two requests that are alike in everything count as one.                 *)
Send(q, others) ==
  /\ Cardinality(others) < MaxRequests
  /\ requests' = others \union {q}

(* fetchPosts and fetchUsers.  The first page, asked for with nothing else *)
(* under way, makes up for what went before.                               *)
Fetch(p, others) ==
  /\ Send(Request("fetch", {}, p, filter), others)
  /\ loading' = TRUE
  /\ LET anew == p = 1 /\ others = {}
     IN  upset' = ((upset /\ ~anew) \/ others # {}) /\ thinned' = (thinned /\ ~anew)

----------------------------------------------------------------------------
(* What the user does.  The rows, with what is in them, are hidden while   *)
(* loading; the box that selects all, the buttons for what is selected and *)
(* the pages stay.                                                         *)
changeFilter ==
  /\ filter' \in Filters \ {filter}
  /\ timer' = TRUE
  /\ UNCHANGED <<surface, stored, narrow, table, loading, requests, upset, thinned>>

(* A slip: the page is kept.                                               *)
FilterFetchesPage(p) == IF p < 1 THEN 1 ELSE p
FilterPage(p) == 1

filterTimer ==
  /\ timer
  /\ timer' = FALSE
  /\ Fetch(FilterPage(page), requests)
  /\ UNCHANGED <<surface, stored, narrow, filter, table>>

TurnPage(p) ==
  /\ totalPages > 1
  /\ \/ p = page - 1 /\ page # 1
     \/ p = page + 1 /\ page # totalPages
  /\ Fetch(p, requests)
  /\ UNCHANGED <<surface, stored, narrow, filter, timer, table>>

toggleSelection(r) ==
  /\ surface = "posts" /\ ~loading /\ r \in shown
  /\ selected' = IF r \in selected THEN selected \ {r} ELSE selected \union {r}
  /\ UNCHANGED <<surface, stored, narrow, filter, timer, shown, page, totalPages, loading,
                 requests, upset, thinned>>

toggleSelectAll ==
  /\ surface = "posts"
  /\ selected' = IF shown # {} /\ shown \subseteq selected THEN {} ELSE shown
  /\ UNCHANGED <<surface, stored, narrow, filter, timer, shown, page, totalPages, loading,
                 requests, upset, thinned>>

Write(kind, ids) ==
  /\ Send(Request(kind, ids, 0, "all"), requests)
  /\ upset' = (upset \/ requests # {})
  /\ UNCHANGED <<surface, stored, narrow, filter, timer, table, loading, thinned>>

(* Of one row: publishPost and archivePost, deletePost; updateUserRole,    *)
(* deleteUser.                                                             *)
ChangePost(r) == surface = "posts" /\ ~loading /\ r \in shown /\ Write("status", {r})
updateUserRole(r) == surface = "users" /\ ~loading /\ r \in shown /\ Write("role", {r})
Delete(r) == ~loading /\ r \in shown /\ Write("delete", {r})

Bulk(kind) == selected # {} /\ Write(kind, selected)

----------------------------------------------------------------------------
(* The server.  A status takes a post out of the narrow list; a role does  *)
(* not; a deletion finds its rows or fails, the bulk one takes those there *)
(* are.                                                                    *)
Serve(q) ==
  /\ q.phase = "sent" /\ q.kind # "fetch"
  /\ q.kind \in {"status", "role", "delete"} => q.ids \subseteq stored
  /\ stored' = IF q.kind \in {"delete", "bulkDelete"} THEN stored \ q.ids ELSE stored
  /\ narrow' = IF q.kind = "role" THEN narrow ELSE narrow \ q.ids
  /\ thinned' = (thinned \/ q.kind \notin {"role", "delete"})
  /\ requests' = (requests \ {q}) \union {[q EXCEPT !.phase = "served"]}
  /\ UNCHANGED <<surface, filter, timer, table, loading, upset>>

(* The rows of the page and their count, which are one read here.          *)
Read(q) ==
  /\ q.phase = "sent" /\ q.kind = "fetch"
  /\ requests' = (requests \ {q}) \union
       {[q EXCEPT !.phase = "served", !.ids = PageOf(q.filter, q.page),
                  !.total = Cardinality(Matching(q.filter))]}
  /\ UNCHANGED <<surface, stored, narrow, filter, timer, table, loading, upset, thinned>>

(* A request fails, before or after it was served: a toast.                *)
Fails(q) ==
  /\ requests' = requests \ {q}
  /\ loading' = (loading /\ q.kind # "fetch")
  /\ upset' = TRUE
  /\ UNCHANGED <<surface, stored, narrow, filter, timer, table, thinned>>

----------------------------------------------------------------------------
(* Answers.  A slip: the selection outlives the rows.                      *)
SelectionKept(s) == s
SelectionReset(s) == {}

ShowPage(q) ==
  /\ q.phase = "served" /\ q.kind = "fetch"
  /\ shown' = q.ids /\ page' = q.page /\ totalPages' = Pages(q.total)
  /\ selected' = SelectionReset(selected)
  /\ loading' = FALSE
  /\ requests' = requests \ {q}
  /\ UNCHANGED <<surface, stored, narrow, filter, timer, upset, thinned>>

(* A slip: the page is asked for again, whatever is left of it.            *)
ReloadSamePage(current, total, visible) == current
resolveReloadPageAfterDelete(current, total, visible) ==
  IF current = total /\ visible <= 1 /\ current > 1 THEN current - 1 ELSE current

Written(q) ==
  /\ q.phase = "served" /\ q.kind # "fetch"
  /\ Fetch(IF q.kind = "delete"
           THEN resolveReloadPageAfterDelete(page, totalPages, Cardinality(shown)) ELSE page,
           requests \ {q})
  /\ UNCHANGED <<surface, stored, narrow, filter, timer, table>>

Next ==
  \/ changeFilter \/ filterTimer \/ toggleSelectAll
  \/ \E p \in 1..(totalPages + 1) : TurnPage(p)
  \/ \E r \in Rows : \/ toggleSelection(r) \/ ChangePost(r)
                     \/ updateUserRole(r) \/ Delete(r)
  \/ \E kind \in {"bulkPublish", "bulkDelete"} : Bulk(kind)
  \/ \E q \in requests : Serve(q) \/ Read(q) \/ Fails(q) \/ ShowPage(q) \/ Written(q)

Spec == Init /\ [][Next]_vars

----------------------------------------------------------------------------
(* What the bulk buttons act on is in the page that is shown, whichever    *)
(* answers came late and whatever was filtered or turned meanwhile.        *)
SelectionShown == selected \subseteq shown

(* With nothing under way, after requests that did not overlap nor fail,   *)
(* the table is the page of the server for the filters that are set; and   *)
(* it is not empty while there are rows, if single deletions are all that  *)
(* took rows away.                                                         *)
TableSettles ==
  requests = {} /\ ~timer /\ ~upset =>
    /\ shown = PageOf(filter, page)
    /\ totalPages = Pages(Cardinality(Matching(filter)))
    /\ ~thinned /\ shown = {} => Matching(filter) = {}

TablesHold == SelectionShown /\ TableSettles
=============================================================================
