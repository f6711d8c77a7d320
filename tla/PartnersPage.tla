---------------------------- MODULE PartnersPage ----------------------------
(***************************************************************************)
(* pages/partners/index.vue: the links of a user to its partners, and the  *)
(* API keys of the user.  A switch, a removal and a revocation show before *)
(* the server has answered and are taken back when it refuses; the other   *)
(* operations show what the server answers.  Nothing keeps two of them     *)
(* from being under way at once.  (What the partner does to the links      *)
(* meanwhile is not told to the page, and left out.)                       *)
(***************************************************************************)
EXTENDS Naturals, FiniteSets

CONSTANTS
  Items,       \* the links, or the keys
  Fields,      \* shareDiaries and shareStockNotes
  MaxRequests  \* bound on the requests under way

VARIABLES
  surface,   \* "links" or "keys"
  server,    \* of each item: [status, shares]
  page,      \* the same as the page has it
  requests,  \* under way: [kind, phase, item, asked, was, answer]
  crossed    \* ghost: the items whose requests overlapped, or lost an answer,
             \* or that a rollback of another item put back

vars == <<surface, server, page, requests, crossed>>

Row(status, shares) == [status |-> status, shares |-> shares]
None == Row("none", {})
Nothing == [i \in Items |-> None]
Statuses == {"none", "pending_incoming", "pending_outgoing", "connected", "active", "revoked"}
Kinds == {"load", "create", "accept", "share", "remove", "revoke"}

TypeOK ==
  /\ surface \in {"links", "keys"}
  /\ \A t \in {server, page} : \A i \in Items :
       t[i].status \in Statuses /\ t[i].shares \subseteq Fields
  /\ Cardinality(requests) <= MaxRequests
  /\ \A q \in requests : q.kind \in Kinds /\ q.phase \in {"sent", "served"}
  /\ crossed \subseteq Items

Request(kind, i, asked, was) ==
  [kind |-> kind, phase |-> "sent", item |-> i, asked |-> asked, was |-> was, answer |-> None]

(* onMounted loads the list; the form above it can be used already.        *)
Init ==
  /\ surface \in {"links", "keys"}
  /\ server \in [Items -> IF surface = "keys" THEN {None, Row("active", {})}
                          ELSE {None, Row("pending_incoming", {}), Row("connected", Fields)}]
  /\ page = Nothing
  /\ requests = {[kind |-> "load", phase |-> "sent", item |-> 0]}
  /\ crossed = {}

----------------------------------------------------------------------------
(* An operation on item i, which shows row at once and remembers was.      *)
Operate(kind, i, asked, row, was) ==
  /\ Cardinality(requests) < MaxRequests
  /\ requests' = requests \union {Request(kind, i, asked, was)}
  /\ page' = [page EXCEPT ![i] = row]
  /\ crossed' = IF \E q \in requests : q.item \in {0, i} THEN crossed \union {i} ELSE crossed
  /\ UNCHANGED <<surface, server>>

(* The form is disabled while its request is under way.                    *)
Create(i) ==
  /\ server[i] = None /\ page[i] = None
  /\ ~\E q \in requests : q.kind = "create"
  /\ Operate("create", i, {}, None, Nothing)

acceptLink(i) ==
  /\ page[i].status = "pending_incoming"
  /\ Operate("accept", i, {}, page[i], Nothing)

toggleSharingField(i, f) ==
  /\ page[i].status = "connected"
  /\ LET shares == IF f \in page[i].shares THEN page[i].shares \ {f} ELSE page[i].shares \union {f}
     IN  Operate("share", i, {f}, [page[i] EXCEPT !.shares = shares], page)

removeLink(i) ==
  /\ surface = "links" /\ page[i].status # "none"
  /\ Operate("remove", i, {}, None, page)

revokeKey(i) ==
  /\ page[i].status = "active"
  /\ Operate("revoke", i, {}, Row("revoked", {}), page)

----------------------------------------------------------------------------
(* The server: each operation has its condition, and answers the new row.  *)
(* The switch sets the field to what the page asked for, which is what it  *)
(* was not when it was clicked.                                            *)
Wanted(q) == IF q.asked \subseteq q.was[q.item].shares
             THEN server[q.item].shares \ q.asked ELSE server[q.item].shares \union q.asked

Possible(q) ==
  \/ q.kind = "create" /\ server[q.item].status = "none"
  \/ q.kind = "accept" /\ server[q.item].status = "pending_incoming"
  \/ q.kind = "share"  /\ server[q.item].status = "connected"
  \/ q.kind = "remove" /\ server[q.item].status # "none"
  \/ q.kind = "revoke" /\ server[q.item].status = "active"

Result(q) ==
  CASE q.kind = "create" -> Row(IF surface = "keys" THEN "active" ELSE "pending_outgoing", {})
    [] q.kind = "accept" -> [server[q.item] EXCEPT !.status = "connected"]
    [] q.kind = "share"  -> [server[q.item] EXCEPT !.shares = Wanted(q)]
    [] q.kind = "remove" -> None
    [] q.kind = "revoke" -> Row("revoked", {})

Serve(q) ==
  /\ q.phase = "sent" /\ q.kind # "load"
  /\ Possible(q)
  /\ server' = [server EXCEPT ![q.item] = Result(q)]
  /\ requests' = (requests \ {q}) \union {[q EXCEPT !.phase = "served", !.answer = Result(q)]}
  /\ UNCHANGED <<surface, page, crossed>>

ServeLoad(q) ==
  /\ q.phase = "sent" /\ q.kind = "load"
  /\ requests' = (requests \ {q}) \union
                 {[kind |-> "load", phase |-> "served", item |-> 0, answer |-> server]}
  /\ UNCHANGED <<surface, server, page, crossed>>

----------------------------------------------------------------------------
(* Answers.  loadLinks and loadKeys replace the list.                      *)
ShowLoad(q) ==
  /\ q.phase = "served" /\ q.kind = "load"
  /\ page' = q.answer
  /\ requests' = requests \ {q}
  /\ UNCHANGED <<surface, server, crossed>>

(* upsertLink, and keys.unshift of a new key; a removal and a revocation   *)
(* show already.                                                           *)
Done(q) ==
  /\ q.phase = "served" /\ q.kind # "load"
  /\ page' = IF q.kind \in {"remove", "revoke"} THEN page ELSE [page EXCEPT ![q.item] = q.answer]
  /\ requests' = requests \ {q}
  /\ UNCHANGED <<surface, server, crossed>>

(* What a failed operation puts back: a switch its link, as it was when it *)
(* was clicked; a removal and a revocation the whole list, as it was then. *)
(* A slip: a switch that failed stays.                                     *)
SwitchStays(q) == IF q.kind \in {"remove", "revoke"} THEN q.was ELSE page
(* A slip: a switch, too, puts back the whole list.                        *)
ListBack(q) == IF q.kind \in {"share", "remove", "revoke"} THEN q.was ELSE page
Rollback(q) ==
  CASE q.kind = "share" -> [page EXCEPT ![q.item] = q.was[q.item]]
    [] q.kind \in {"remove", "revoke"} -> q.was
    [] OTHER -> page

(* A request fails before it was served, or its answer is lost; the list   *)
(* is not asked for again.                                                 *)
Fails(q) ==
  /\ page' = Rollback(q)
  /\ requests' = requests \ {q}
  /\ crossed' = crossed
       \union (IF q.kind = "load" THEN Items ELSE {})
       \union (IF q.phase = "served" THEN {q.item} \ {0} ELSE {})
       \union (IF q.kind = "share" THEN {} ELSE {i \in Items : page'[i] # page[i]} \ {q.item})
  /\ UNCHANGED <<surface, server>>

Next ==
  \/ \E i \in Items : \/ Create(i) \/ acceptLink(i) \/ removeLink(i) \/ revokeKey(i)
                      \/ \E f \in Fields : toggleSharingField(i, f)
  \/ \E q \in requests : Serve(q) \/ ServeLoad(q) \/ ShowLoad(q) \/ Done(q) \/ Fails(q)

Spec == Init /\ [][Next]_vars

----------------------------------------------------------------------------
(* The page says what the server does, sharing and keys in force above     *)
(* all: once the requests about an item are answered, it is shown as the   *)
(* server has it, whatever other items are about, and whether the requests *)
(* succeeded or failed; except where requests about one item overlapped,   *)
(* an answer or the list itself was lost, or the failed removal or         *)
(* revocation of one item put back another.                                *)
PageIsTrue ==
  \A i \in Items \ crossed :
    (~\E q \in requests : q.item \in {0, i}) => page[i] = server[i]
=============================================================================
