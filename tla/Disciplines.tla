---------------------------- MODULE Disciplines ----------------------------
(***************************************************************************)
(* A user's trading disciplines (server/utils/discipline-queries.ts) and   *)
(* the page that edits them (pages/discipline/index.vue).  The order of a  *)
(* new row is read in one query and used in the next; an import that       *)
(* replaces deletes first and inserts then; the page swaps two rows at     *)
(* once and sends the orders of all it shows a moment later.               *)
(***************************************************************************)
EXTENDS Naturals, FiniteSets, Sequences, Functions

CONSTANTS
  MaxRows,      \* bound on the rows ever created
  MaxRequests   \* bound on the requests of the page under way

VARIABLES
  rows,      \* [id, order]
  created,   \* the ids given so far
  list,      \* the page's list, a sequence of rows
  timer,     \* reorderTimer is set
  requests,  \* under way: [kind, phase, id, start, sent]
  raced,     \* ghost: two requests were under way at once
  failed     \* ghost: a request has failed

vars == <<rows, created, list, timer, requests, raced, failed>>

Kinds == {"add", "delete", "append", "replace", "reorder", "fetch"}

TypeOK ==
  /\ \A r \in rows : r.id \in 1..created /\ r.order \in Nat
  /\ \A r, s \in rows : r.id = s.id => r = s
  /\ created \in 0..MaxRows
  /\ \A i \in DOMAIN list : list[i].id \in 1..created
  /\ timer \in BOOLEAN
  /\ \A q \in requests : q.kind \in Kinds /\ q.phase \in {"sent", "read", "written", "answered"}
  /\ Cardinality(requests) <= MaxRequests

Init ==
  /\ rows = {} /\ created = 0 /\ list = <<>> /\ timer = FALSE
  /\ requests = {} /\ raced = FALSE /\ failed = FALSE

(* listDisciplines orders by order; ties come as the database has them.    *)
Listing(s) == CHOOSE q \in Injection(1..Cardinality(s), s) :
                \A i, j \in DOMAIN q : i < j => q[i].order <= q[j].order

(* A slip: the number of rows, which a deletion makes one too small.       *)
NextOrderByCount == Cardinality(rows)
NextOrder == IF rows = {} THEN 0 ELSE 1 + CHOOSE m \in {r.order : r \in rows} :
                                            \A r \in rows : r.order <= m

Request(kind, id, sent) ==
  [kind |-> kind, phase |-> "sent", id |-> id, start |-> 0, sent |-> sent]
Send(q, others) ==
  /\ Cardinality(others) < MaxRequests
  /\ requests' = others \union {q}
  /\ raced' = (raced \/ others # {})

(* Every phase but the last leaves the list of the page alone. *)
Advance(q, changed) == requests' = (requests \ {q}) \union {changed}

Add == Send(Request("add", 0, <<>>), requests) /\ UNCHANGED <<rows, created, list, timer, failed>>
Import(kind) == Send(Request(kind, 0, <<>>), requests) /\ UNCHANGED <<rows, created, list, timer, failed>>
Delete(i) ==
  /\ i \in DOMAIN list
  /\ Send(Request("delete", list[i].id, <<>>), requests)
  /\ UNCHANGED <<rows, created, list, timer, failed>>

(* moveUp, and moveDown of the row before: the two exchange their orders   *)
(* and their places, and the timer starts again.                           *)
Move(i) ==
  /\ i \in 2..Len(list)
  /\ list' = [list EXCEPT ![i] = [list[i - 1] EXCEPT !.order = list[i].order],
                          ![i - 1] = [list[i] EXCEPT !.order = list[i - 1].order]]
  /\ timer' = TRUE
  /\ UNCHANGED <<rows, created, requests, raced, failed>>

commitReorder ==
  /\ timer
  /\ timer' = FALSE
  /\ IF list = <<>> THEN UNCHANGED <<requests, raced>>
     ELSE Send(Request("reorder", 0, list), requests)
  /\ UNCHANGED <<rows, created, list, failed>>

(* The first query: the highest order; the rows to reorder must all be     *)
(* there; a replacing import deletes.                                      *)
FirstQuery(q) ==
  /\ q.phase = "sent" /\ q.kind \in {"add", "append", "replace", "reorder"}
  /\ q.kind = "reorder" => {q.sent[i].id : i \in DOMAIN q.sent} \subseteq {r.id : r \in rows}
  /\ Advance(q, [q EXCEPT !.phase = "read", !.start = IF q.kind \in {"add", "append"} THEN NextOrder ELSE 0])
  /\ rows' = IF q.kind = "replace" THEN {} ELSE rows
  /\ UNCHANGED <<created, list, timer, raced, failed>>

Insert(n, start) ==
  /\ created + n <= MaxRows
  /\ created' = created + n
  /\ rows' = rows \union {[id |-> created + k, order |-> start + k - 1] : k \in 1..n}

(* The second: one new row, or the two of an import; the new orders, in    *)
(* one transaction, of the rows that still are there; the deletion.        *)
SecondQuery(q) ==
  /\ q.phase = (IF q.kind = "delete" THEN "sent" ELSE "read")
  /\ CASE q.kind = "add" -> Insert(1, q.start)
       [] q.kind \in {"append", "replace"} -> Insert(2, q.start)
       [] q.kind = "delete" -> rows' = {r \in rows : r.id # q.id} /\ UNCHANGED created
       [] q.kind = "reorder" ->
            /\ rows' = {IF \E i \in DOMAIN q.sent : q.sent[i].id = r.id
                        THEN CHOOSE s \in Range(q.sent) : s.id = r.id ELSE r : r \in rows}
            /\ UNCHANGED created
  /\ Advance(q, [q EXCEPT !.phase = "written", !.sent = <<>>])
  /\ UNCHANGED <<list, timer, raced, failed>>

(* A query fails, or the rows of a reorder are not all there: a toast, and *)
(* after a reorder a fetch of the list.                                    *)
Fail(q) ==
  /\ q.phase \in {"sent", "read"}
  /\ requests' = (requests \ {q}) \union
                 (IF q.kind = "reorder" THEN {[Request("fetch", 0, <<>>) EXCEPT !.phase = "written"]} ELSE {})
  /\ failed' = TRUE
  /\ UNCHANGED <<rows, created, list, timer, raced>>

(* fetchList reads the rows (a reorder's own answer has them), and the     *)
(* page shows them when they arrive.                                       *)
ReadList(q) ==
  /\ q.phase = "written"
  /\ Advance(q, [q EXCEPT !.phase = "answered", !.sent = Listing(rows)])
  /\ UNCHANGED <<rows, created, list, timer, raced, failed>>

Show(q) ==
  /\ q.phase = "answered"
  /\ list' = q.sent
  /\ requests' = requests \ {q}
  /\ UNCHANGED <<rows, created, timer, raced, failed>>

Next ==
  \/ Add
  \/ \E kind \in {"append", "replace"} : Import(kind)
  \/ \E i \in 1..MaxRows : Delete(i)
  \/ \E i \in 1..MaxRows : Move(i)
  \/ commitReorder
  \/ \E q \in requests : FirstQuery(q)
  \/ \E q \in requests : SecondQuery(q)
  \/ \E q \in requests : Fail(q)
  \/ \E q \in requests : ReadList(q)
  \/ \E q \in requests : Show(q)

Spec == Init /\ [][Next]_vars

----------------------------------------------------------------------------
(* As long as no two requests of the page overlap, whatever is added,      *)
(* imported, deleted, moved or fails: no two rows have the same order, so  *)
(* that the list has one order and every move shows.  And when nothing is  *)
(* under way and nothing has failed, the page shows the rows.              *)
OrderHolds ==
  ~raced =>
    /\ \A r, s \in rows : r.order = s.order => r = s
    /\ requests = {} /\ ~timer /\ ~failed => list = Listing(rows)
=============================================================================
