--------------------------- MODULE RecordsProofs ---------------------------
(***************************************************************************)
(* The components of MCRecords, for every value of the constants.          *)
(* Each has an inductive invariant; together they are RecordsInv, and the  *)
(* properties of the module follow from it.                                *)
(***************************************************************************)
EXTENDS MCRecords, Sequences, FiniteSetTheorems, WellFoundedInduction, TLAPS

-----------------------------------------------------------------------------
(* The invariants of the components but the price alerts. *)

\* The links as the table keeps them, and the writes that have read one.
LinkRow == [id : Nat, a : Users, b : Users, initiator : Users, accepted : BOOLEAN,
            shares : SUBSET ({"a", "b"} \X Partner!Resources)]

LinkTypes ==
  /\ s2 \in Nat
  /\ s1 \subseteq LinkRow /\ \A l \in s1 : l.id <= s2
  /\ \A l \in s1 : l.a < l.b /\ l.initiator \in {l.a, l.b}
  /\ \A l, m \in s1 : l.id = m.id => l = m
  /\ \A c \in s3 :
       \/ /\ c.kind = "create" /\ c.a \in Users /\ c.b \in Users /\ c.a < c.b
          /\ c.user \in {c.a, c.b}
       \/ /\ c.kind \in {"accept", "remove", "share"}
          /\ c.id \in Nat /\ c.id <= s2 /\ c.resource \in Partner!Resources
          /\ \A l \in s1 : l.id = c.id =>
               /\ c.user \in {l.a, l.b}
               /\ c.kind = "accept" => c.user # l.initiator

\* What a row of the table says is what its two users said.
LinksMeant ==
  \A l \in s1 :
    /\ <<l.initiator, l.id>> \in s5
    /\ l.accepted => {<<l.a, l.id>>, <<l.b, l.id>>} \subseteq s5
    /\ \A u \in {l.a, l.b}, r \in Partner!Resources :
         <<Partner!SideOf(l, u), r>> \in l.shares => <<u, l.id, r>> \in s6

\* A request has noted whoever consents now, and whoever did when it asked.
RequestNoted ==
  /\ s4 \in [step : {"idle", "select", "check", "fetch", "answered"},
             viewer : Users \cup {Partner!Nobody}, resource : Partner!Resources,
             partner : Users \cup {Partner!Nobody}, got : SUBSET Users]
  /\ s4.step # "idle" => Partner!Consents(s1, s5, s6, s4.viewer, s4.resource) \subseteq s7
  /\ s4.step = "idle" => s4.got = {}
  /\ s4.got \subseteq s7

PartnerInv == LinkTypes /\ LinksMeant /\ RequestNoted

-----------------------------------------------------------------------------
ItemRow == [status : PartnerPage!Statuses, shares : SUBSET Fields]
ListRequest ==
  [kind : {"load"}, phase : {"sent"}, item : {0}]
    \cup [kind : {"load"}, phase : {"served"}, item : {0}, answer : [Items -> ItemRow]]
ItemRequest ==
  [kind : PartnerPage!Kinds \ {"load"}, phase : {"sent", "served"}, item : Items,
   asked : SUBSET Fields, was : [Items -> ItemRow], answer : ItemRow]

PageTypes ==
  /\ s1 \in {"links", "keys"}
  /\ s2 \in [Items -> ItemRow] /\ s3 \in [Items -> ItemRow]
  /\ s4 \subseteq ListRequest \cup ItemRequest
  /\ s5 \subseteq Items

\* What a request about item i that is alone knows of it.
Knows(q, i) ==
  IF q.item = 0 THEN q.phase = "served" => q.answer[i] = s2[i]
  ELSE IF q.phase = "sent"
  THEN /\ q.kind \in {"create", "accept"} => s3[i] = s2[i]
       /\ q.kind \in {"share", "remove", "revoke"} => q.was[i] = s2[i]
       /\ q.kind = "remove" => s3[i] = PartnerPage!None
       /\ q.kind = "revoke" => s3[i] = PartnerPage!Row("revoked", {})
  ELSE /\ q.answer = s2[i]
       /\ q.kind \in {"remove", "revoke"} => s3[i] = s2[i]

Undisputed(i) ==
  LET about == {q \in s4 : q.item \in {0, i}}
  IN  /\ \A p, q \in about : p = q
      /\ about = {} => s3[i] = s2[i]
      /\ \A q \in about : Knows(q, i)

PageInv == PageTypes /\ \A i \in Items \ s5 : Undisputed(i)

-----------------------------------------------------------------------------
EditorInv ==
  /\ s1 \in [kind : Editor!Kinds, phase : {"loading", "open", "left"}]
  /\ s7 \in DiaryDates /\ s8 \in DiaryDates \cup {Editor!None}
  /\ s12 \in Nat
  /\ s11 \subseteq [token : Nat, date : DiaryDates, initial : BOOLEAN, preserve : BOOLEAN]
  /\ \A l \in s11 : l.token <= s12 /\ (l.token = s12 => l.date = s15)
  /\ s1.phase # "left" => s4 # Editor!Typed
  /\ s1.phase = "loading" => \A l, m \in s11 : l = m
  /\ s1.phase = "loading" /\ s1.kind = "edit" => s11 = {}
  /\ \A l \in s11 : l.initial => s1.phase = "loading"
  /\ s13 => s1.phase # "loading"

\* The latest lookup is one, and once it is answered a question is about its
\* date; an error has none.
LookupFollowed ==
  /\ \A l, m \in s11 : l.token = s12 /\ m.token = s12 => l = m
  /\ s9 \in BOOLEAN
  /\ s9 => s8 = Editor!None /\ ~Editor!checkingDate
  /\ s8 # Editor!None => s8 = s15 /\ ~Editor!checkingDate
  /\ s5 # Editor!None => s5 = s7 /\ ~s6

-----------------------------------------------------------------------------
PostCall ==
  [phase : {"read", "write"}, kind : {"create", "update", "set", "bulk"}, todo : Seq(Nat),
   status : Post!Statuses, title : Titles, slug : Titles \X Nat, date : Nat,
   disturbed : BOOLEAN]
StoredPost ==
  [id : PostIds, title : Titles, slug : Titles \X Nat, status : Post!Statuses,
   publishedAt : Nat]

\* What an undisturbed write knows of the post it will update.
StillAsRead(c, p) ==
  c.status = "PUBLISHED" =>
    IF p.status = "PUBLISHED" THEN c.date = p.publishedAt ELSE c.date > s5[p.id]

PostInv ==
  /\ s1 \subseteq StoredPost /\ s4 \subseteq PostCall
  /\ s2 \in Nat /\ s3 \in Nat /\ s5 \in [PostIds -> Nat]
  /\ \A i \in PostIds : s5[i] <= s3
  /\ \A p \in s1 : p.id < s2 /\ p.publishedAt <= s3
  /\ \A p, q \in s1 : p.id = q.id => p = q
  /\ \A c \in s4 : c.date <= s3
  /\ Post!DatedIffPublished
  /\ \A c \in s4 : c.phase = "write" =>
       /\ (c.status = "PUBLISHED") = (c.date # Post!Null)
       /\ c.kind # "create" => c.todo[1] \in Nat /\ c.todo[1] < s2
       /\ c.kind # "create" /\ ~c.disturbed =>
            \A p \in s1 : p.id = c.todo[1] => StillAsRead(c, p)

-----------------------------------------------------------------------------
ReviewInv ==
  /\ s1 \in [DiaryIds -> Review!Row]
  /\ \A d \in DiaryIds : Review!Admits(s1[d])
  /\ s2 \subseteq [diary : DiaryIds, due : Dues \cup {Review!Null}, reviewed : BOOLEAN]

\* What the page has read, while no write fell into it, is what it may read.
PageExact ==
  /\ s3 \in [Review!Buckets -> SUBSET DiaryIds] /\ s4 \subseteq Review!Buckets
  /\ (s4 # {} \/ s3 # Review!NoPage) /\ ~s5 =>
       \A b \in Review!Buckets \ s4 : s3[b] \in Review!Answers(b)

-----------------------------------------------------------------------------
AccountCall ==
  [kind : {"register"}, phase : {"read"}, email : Emails, new : Passwords]
    \cup [kind : {"password"}, phase : {"read"}, target : Nat, given : Passwords, new : Passwords]
    \cup [kind : Account!AdminKinds, phase : {"authorised", "read"}, actor : Nat, target : Nat]

AccountInv ==
  /\ s2 \in Nat /\ s4 \in BOOLEAN /\ s3 \subseteq AccountCall
  /\ s1 \subseteq [id : Nat, email : Emails, password : Passwords, role : Account!Roles]
  /\ \A u \in s1 : u.id < s2
  /\ \A u, v \in s1 : u.id = v.id => u = v
  /\ \A c \in s3 : c.kind = "password" =>
       c.target < s2 /\ (~s4 => \A u \in s1 : u.id = c.target => c.given = u.password)
  /\ ~s4 => \A c, d \in s3 : c.kind = "password" /\ d.kind = "password" /\ c.target = d.target
                              => c = d

\* An admin is left, and no admin call that has found its target is about its
\* own caller.
AdminsLeft ==
  /\ Account!AdminRemains
  /\ \A c \in s3 : c.kind \in Account!AdminKinds /\ c.phase = "read" => c.target # c.actor

-----------------------------------------------------------------------------
HubLoad == [phase : {"sent", "thesis", "served"}, thesis : Company!Theses, reviews : SUBSET Nat]
PageWriting == [kind : {"save", "review"}, phase : {"sent", "served"}, thesis : Company!Theses]

PanelState ==
  [editing : BOOLEAN, form : ThesisTexts \cup {Company!Null}, reviewing : BOOLEAN]

CompanyTypes ==
  /\ s1 \in Company!Theses /\ s2 \in Nat /\ s9 \in BOOLEAN /\ s10 \in BOOLEAN
  /\ s3 \in [thesis : Company!Theses, reviews : SUBSET Nat]
  /\ s5 \subseteq HubLoad /\ s6 \in PanelState /\ s7 \subseteq PageWriting
  /\ s5 # {} => s4 # "ready"
  /\ \A v, w \in s7 : v = w
  /\ \A w \in s7 : w.kind = "save" => w.thesis # Company!NoThesis
  /\ s1 = Company!NoThesis => s2 = 0

\* What a load has read is the server's, as long as no write was served since.
LoadInStep(l) ==
  /\ l.phase # "sent" => l.thesis = s1
  /\ l.phase = "served" => l.reviews = Company!Latest(s2)

\* What a write under way was made from is the server's.
WriteInStep(w) ==
  /\ w.kind = "save" /\ w.thesis.status = "ARCHIVED" => w.thesis.text = s1.text
  /\ w.kind = "review" => w.thesis = s1

HubInStep ==
  ~s10 /\ (\A w \in s7 : w.phase = "sent") =>
    /\ s4 = "ready" => s3.thesis = s1 /\ s3.reviews = Company!Latest(s2)
    /\ \A l \in s5 : LoadInStep(l)
    /\ \A w \in s7 : WriteInStep(w)

CompanyInv == CompanyTypes /\ ~s9 /\ HubInStep

-----------------------------------------------------------------------------
(* The versions that are about are none of those a diary has. *)
NoteInv ==
  /\ s6 \in Nat /\ s2 \in 0..s6 /\ s7 \in 0..s6
  /\ s8 \subseteq [version : 0..s6, current : BOOLEAN]
  /\ s12 \in [version : 0..s6, date : NoteDates, mode : Note!Modes] \cup {Note!NoPost}
  /\ s13 \subseteq 1..s6
  /\ s3 \in NoteDates /\ s4 \in Note!Modes
  /\ s11 = "post" => s12.version # 0
  /\ s2 \notin s13 /\ s7 \notin s13
  /\ \A p \in s8 : p.current => p.version \notin s13

-----------------------------------------------------------------------------
(* Once the post is published there is no draft, nor does one come back. *)
DraftInv ==
  /\ 0 \notin s11
  /\ \A r \in s9 : r.version # 0 /\ r.status = s5
  /\ \A q, r \in s9 : q = r
  /\ s11 # {} => s6 = 0 /\ ~s8 /\ s2 # "loading"
  /\ s2 = "loading" => s9 = {}

-----------------------------------------------------------------------------
ThesisRow ==
  [status : Thesis!Statuses, complete : BOOLEAN, due : ThesisDues \cup {Thesis!Null},
   activatedAt : Nat, archivedAt : Nat, lastReviewedAt : Nat,
   latestOutcome : Thesis!Outcomes \cup {"none"}]
ThesisCall ==
  [kind : {"save"}, status : Thesis!Statuses, complete : BOOLEAN,
   due : ThesisDues \cup {Thesis!Null}, fresh : BOOLEAN, activatedAt : Nat, archivedAt : Nat]
    \cup [kind : {"review"}, outcome : Thesis!Outcomes, at : Nat, status : {"ACTIVE"}]

ThesisTypes ==
  /\ s1 \in Nat /\ Thesis!TodayStart <= s1 /\ s1 <= MaxThesisNow
  /\ s2 \subseteq ThesisRow /\ \A t, u \in s2 : t = u
  /\ s3 \subseteq [at : Nat, outcome : Thesis!Outcomes, status : Thesis!Statuses]
  /\ s4 \subseteq ThesisCall /\ s5 \in BOOLEAN

\* A write under way would leave an active thesis its text and dates, and
\* there is a thesis to review.
ThesisCallsSound ==
  /\ \A c \in s4 : c.kind = "save" =>
       /\ c.status = "ACTIVE" => c.complete /\ c.activatedAt # Thesis!Null
       /\ (c.status = "ARCHIVED") = (c.archivedAt # Thesis!Null)
  /\ s2 = {} => s3 = {} /\ \A c \in s4 : c.kind # "review"

\* No review is of a later moment than now, and while none overlapped, none
\* of a later one than the one under way or than the thesis says.
ReviewsInOrder ==
  /\ \A r \in s3 : r.at <= s1
  /\ \A c \in s4 : c.kind = "review" => c.at <= s1
  /\ ~s5 =>
       /\ \A c, d \in s4 : c.kind = "review" /\ d.kind = "review" => c = d
       /\ \A c \in s4, r \in s3 : c.kind = "review" => r.at <= c.at
       /\ \A t \in s2, r \in s3 : r.at <= t.lastReviewedAt

ThesisInv == ThesisTypes /\ ThesisCallsSound /\ Thesis!ThesisHolds /\ ReviewsInOrder

-----------------------------------------------------------------------------
StockTypes ==
  /\ s1 \in [Stocks -> {Stock!None, "WATCHING", "ARCHIVED"}]
  /\ s2 \subseteq Stock!Record
  /\ s3 \in Stock!Keys
  /\ s4 \in [open : BOOLEAN, text : Insights, symbol : Stocks, pending : BOOLEAN,
             saved : Stocks \cup {Stock!None}]
  /\ s5 \in [StockSlots -> Stock!Call]

\* A record has the key of the opening it comes from, and only one does.
RecordsKeyed ==
  /\ \A r \in s2 : r.key = r.opening /\ (r.via = "WEB") = (r.key # 0)
  /\ \A r, q \in s2 : r.symbol = q.symbol /\ r.key = q.key => r = q

\* A request under way carries what the dialog sent, or what an agent did, and
\* its stock is on the list when its record comes next.
RequestsSound ==
  \A c \in StockSlots :
    /\ s5[c].kind = "evidence" =>
         /\ s5[c].key = s5[c].opening /\ s5[c].key # 0
         /\ <<s5[c].opening, s5[c].symbol, s5[c].text>> \in s6
    /\ s5[c].kind = "agent" => s5[c].key = 0
    /\ s5[c].phase = "create" => s5[c].symbol \in Stock!Followed

\* The dialog waits for one request at most, of its own opening.
DialogWaits ==
  /\ s4.open => s3 # 0
  /\ s4.pending => s4.open /\ s4.saved = Stock!None
  /\ \A c \in StockSlots : s5[c].awaited =>
       /\ s4.pending /\ s5[c].key = s3
       /\ s5[c].phase = "create" =>
            s5[c].symbol \in s7 \/ s1[s5[c].symbol] = "WATCHING"
  /\ \A c, d \in StockSlots : s5[c].awaited /\ s5[d].awaited => c = d
  /\ s4.saved # Stock!None => s3 # 0

StockInv == StockTypes /\ RecordsKeyed /\ RequestsSound /\ DialogWaits /\ Stock!CaptureHolds

-----------------------------------------------------------------------------
PlanRow == [id : Plans, user : Users, diary : Plan!Diaries \cup {Plan!Null},
            low : PlanPrices \cup {Plan!Null}, high : PlanPrices \cup {Plan!Null}]
PlanCall == [user : Users, op : {"post", "put", "delete"}, plan : Plans, body : Plan!Body,
             step : {"diary", "write"}]

PlanInv == s2 \subseteq PlanRow /\ s4 \subseteq PlanCall /\ Plan!PlansHold

(* A zone is never changed, and the clock stays within its bound. *)
DayInv == UserDay!TypeOK

-----------------------------------------------------------------------------
(* An alert that some tick could see, and that may still be pushed, was      *)
(* pushed, is in the window of a tick whose query is not answered, or comes  *)
(* after the last window; and that does not end before the next tick.        *)
AwaitsItsTick(i) ==
  \/ i \in s6
  \/ \E clock \in s3 : s4[i].triggerAt \in Pusher!Window(clock)
  \/ s2 + BufferWindow <= s4[i].triggerAt

PusherInv ==
  /\ s1 \in Nat /\ s2 \in Nat /\ s1 <= s2 + BufferWindow
  /\ s3 \subseteq Nat /\ \A clock \in s3 : clock <= s1
  /\ s4 \in [AlertIds -> Pusher!AlertRow] /\ s5 \subseteq AlertIds
  /\ \A i \in AlertIds : s4[i].status = "unused" => i \notin s5 /\ s4[i] = Pusher!NoRow("unused")
  /\ \A i \in s5 : ~s7 /\ Pusher!Active(i) => AwaitsItsTick(i)

(* The rows of a series have their root.                                     *)
SeriesInv ==
  /\ \A i, j \in AlertIds : Pusher!Stored(j) /\ s4[j].parentId = i =>
       /\ s4[i].status # "unused"
       /\ Pusher!Stored(i) => Pusher!IsRecurringRoot(i)
  /\ Pusher!SeriesDismissedWhole

-----------------------------------------------------------------------------
(* Those of the calendar, the tables of the administrators and the disciplines. *)

MonthRange == [id : Nat, from : Nat, to : Nat, rest : BOOLEAN, phase : {"asked", "read"},
               rows : SUBSET Months]
HolidayRun == [token : Nat, year : Months, done : 0..2]

\* The latest run of loadHolidays, alone, is for the month that is shown.
HolidayInv ==
  /\ s1 \in Months /\ s7 \in Nat /\ s8 \in BOOLEAN /\ s10 \in BOOLEAN
  /\ s9 \subseteq HolidayRun
  /\ \A h \in s9 : h.token <= s7 /\ (h.token = s7 => h.year = s1)
  /\ \A g, h \in s9 : g.token = s7 /\ h.token = s7 => g = h
  /\ ~s10 => s9 = {} /\ ~s8
  /\ Month!HolidaysFollow

\* A load that is under way brings month m.
Brings(l, m) == m \in l.from..l.to /\ (l.phase = "read" => m \in l.rows)

\* While none has failed, a diary of the year or of the month on the page is
\* shown, unless it was written elsewhere, or some load brings it; that of the
\* month may be the one that will follow.
MonthInv ==
  /\ HolidayInv
  /\ s2 \subseteq Months /\ s3 \subseteq Months /\ s11 \in Nat
  /\ s5 \subseteq MonthRange
  /\ s4 \subseteq s2 \cup s3
  /\ \A l \in s5 : l.rows \subseteq s2 \cup s3
  /\ ~s14 =>
       /\ s1 \in s13 \/ \E l \in s5 : l.rest \/ s1 \in l.from..l.to
       /\ \A m \in s2 \ s12 : m \in Month!Whole => m \in s4 \/ \E l \in s5 : Brings(l, m)
       /\ s1 \in s2 \ s12 => s1 \in s4 \/ \E l \in s5 : l.rest \/ Brings(l, s1)

-----------------------------------------------------------------------------
TableRequest ==
  [kind : AdminList!Writes \cup {"fetch"}, phase : {"sent", "served"}, ids : SUBSET TableRows,
   page : Nat, filter : AdminList!Filters, total : Nat]

TableTypes ==
  /\ s3 \subseteq s2 /\ s2 \subseteq TableRows
  /\ s4 \in AdminList!Filters /\ s5 \in BOOLEAN
  /\ s6 \subseteq TableRows /\ s9 \subseteq s6
  /\ s7 \in Nat \ {0} /\ s8 \in Nat
  /\ s11 \subseteq TableRequest
  /\ \A q \in s11 : q.kind = "fetch" => q.page # 0
  /\ s12 \in BOOLEAN /\ s13 \in BOOLEAN

\* Page k has a row, if there is any; when rows left otherwise than one by one
\* nothing is known.
Within(k) ==
  ~s13 /\ AdminList!Matching(s4) # {} =>
    (k - 1) * TablePage < Cardinality(AdminList!Matching(s4))

\* The table is the page of the server.
TableExact ==
  /\ s6 = AdminList!PageOf(s4, s7)
  /\ s8 = AdminList!Pages(Cardinality(AdminList!Matching(s4)))
  /\ Within(s7)

\* What the one request there is knows.
TableKnows(q) ==
  CASE q.kind = "fetch" ->
         /\ q.filter = s4 /\ Within(q.page)
         /\ q.phase = "served" => /\ q.ids = AdminList!PageOf(s4, q.page)
                                  /\ q.total = Cardinality(AdminList!Matching(s4))
    [] q.kind = "delete" ->
         IF q.phase = "sent" THEN TableExact /\ \E r \in s6 : q.ids = {r}
         ELSE Within(AdminList!resolveReloadPageAfterDelete(s7, s8, Cardinality(s6)))
    [] OTHER -> Within(s7)

TableInv ==
  /\ TableTypes
  /\ ~s12 =>
       /\ \A p, q \in s11 : p = q
       /\ ~s5 => /\ s11 = {} => TableExact
                 /\ \A q \in s11 : TableKnows(q)

-----------------------------------------------------------------------------
RuleRow == [id : Nat, order : Nat]
RuleRequest ==
  [kind : Rules!Kinds, phase : {"sent", "read", "written", "answered"}, id : Nat, start : Nat,
   sent : Seq(RuleRow)]

\* Every id once, and every order.
InOrder(q) == \A i, j \in DOMAIN q : q[i].id = q[j].id \/ q[i].order = q[j].order => i = j
Ids(q) == {q[i].id : i \in DOMAIN q}
RowIds == {r.id : r \in s1}

\* What the one request there is knows.
RuleKnows(q) ==
  /\ q.phase = "read" => q.kind \in {"add", "append", "replace", "reorder"}
  /\ q.phase = "read" /\ q.kind # "reorder" => \A r \in s1 : r.order < q.start
  /\ q.phase = "read" /\ q.kind = "replace" => s1 = {}
  /\ q.phase \in {"sent", "read"} =>
       /\ q.kind \in Rules!Kinds \ {"fetch"}
       /\ Ids(s3) = RowIds \/ s1 = {}
  /\ q.phase \in {"sent", "read"} /\ q.kind = "reorder" =>
       InOrder(q.sent) /\ q.sent # <<>> /\ Ids(q.sent) = Ids(s3)
  /\ q.phase = "read" /\ q.kind = "reorder" => Ids(q.sent) = RowIds
  /\ q.phase = "answered" => q.sent = Rules!Listing(s1)

\* The rows: every id once, and every order.
RowsOnce(S) ==
  /\ IsFiniteSet(S) /\ S \subseteq RuleRow
  /\ \A r, s \in S : r.id = s.id \/ r.order = s.order => r = s

\* As long as no two requests overlap.
RuleInv ==
  ~s6 =>
    /\ RowsOnce(s1) /\ s2 \in Nat /\ \A r \in s1 : r.id <= s2
    /\ s3 \in Seq(RuleRow) /\ InOrder(s3)
    /\ s5 \subseteq RuleRequest /\ \A p, q \in s5 : p = q
    /\ s5 = {} => (Ids(s3) = RowIds \/ s1 = {})
    /\ s5 = {} /\ ~s7 => Ids(s3) = RowIds
    /\ s5 = {} /\ ~s4 /\ ~s7 => s3 = Rules!Listing(s1)
    /\ \A q \in s5 : RuleKnows(q)

\* A set of numbers has a least one.
LEMMA LeastNat ==
  ASSUME NEW S, S \subseteq Nat, S # {}
  PROVE  \E x \in S : \A y \in S : x <= y
  <1>1. PICK x \in S : \A y \in S : <<y, x>> \notin OpToRel(<, Nat)
    BY NatLessThanWellFounded, WFMin
  <1>2. \A y \in S : ~(y < x)
    BY <1>1 DEF OpToRel
  <1> QED
    BY <1>2

-----------------------------------------------------------------------------
(* Price alerts.  The slots: s1 price, s2 row, s3 run, s4 pushes, s5 cause, *)
(* s6 disturbed, s7 overlapped.                                             *)

Held(r) == s3[r].left \cup s3[r].pushing

\* Of an alert that nobody wrote while a run held it: what a run has yet to
\* judge it by is what the row says, and one that is being pushed is marked.
AlertUnwritten(a) ==
  /\ s4[a] > 0 => s2[a].isTriggered
  /\ s5[a] # PriceAlert!NoPrice =>
       /\ PriceAlert!Stored(a) /\ s2[a].isTriggered
       /\ \/ s2[a].type = "PRICE_ABOVE" /\ s2[a].threshold <= s5[a]
          \/ s2[a].type = "PRICE_BELOW" /\ s5[a] <= s2[a].threshold
  /\ \A r \in CheckRuns :
       a \in s3[r].left => /\ PriceAlert!Stored(a)
                          /\ s3[r].rows[a].type = s2[a].type
                          /\ s3[r].rows[a].threshold = s2[a].threshold
  /\ \A r \in CheckRuns : a \in s3[r].pushing => PriceAlert!Stored(a) /\ s2[a].isTriggered

\* If no two runs held it either: one that is still to be judged is armed, and
\* one that is being pushed was not pushed before.
AlertAlone(a) ==
  /\ s4[a] <= 1
  /\ \A r, q \in CheckRuns : a \in Held(r) /\ a \in Held(q) => r = q
  /\ \A r \in CheckRuns : a \in s3[r].left => ~s2[a].isTriggered
  /\ \A r \in CheckRuns : a \in s3[r].pushing => s4[a] = 0

AlertUndisturbed(a) == AlertUnwritten(a) /\ (a \notin s7 => AlertAlone(a))

AlertInv ==
  /\ PriceAlert!TypeOK
  /\ \A a \in Alerts \ s6 : AlertUndisturbed(a)

LEMMA AlertTypes ==
  /\ PriceAlert!EmptyRow \in PriceAlert!Row
  /\ PriceAlert!NoRun \in PriceAlert!Run
  /\ PriceAlert!NoRun.left = {} /\ PriceAlert!NoRun.pushing = {}
  <1>1. PriceAlert!EmptyRow \in PriceAlert!Row
    BY RecordsAssumption DEF PriceAlert!EmptyRow, PriceAlert!Row, PriceAlert!AlertType
  <1> QED
    BY <1>1 DEF PriceAlert!NoRun, PriceAlert!Run

LEMMA AlertStarts == PriceAlert!Init => AlertInv
  <1> SUFFICES ASSUME PriceAlert!Init PROVE AlertInv
    OBVIOUS
  <1>1. PriceAlert!TypeOK
    BY AlertTypes DEF PriceAlert!Init, PriceAlert!TypeOK
  <1>2. \A r \in CheckRuns : s3[r].left = {} /\ s3[r].pushing = {}
    BY AlertTypes DEF PriceAlert!Init
  <1>3. ASSUME NEW a \in Alerts
        PROVE  AlertUndisturbed(a)
    BY <1>2 DEF PriceAlert!Init, AlertUndisturbed, AlertUnwritten, AlertAlone, Held
  <1> QED
    BY <1>1, <1>3 DEF AlertInv

\* A request writes a row.
LEMMA WrittenKeeps ==
  ASSUME AlertInv, NEW a \in Alerts, NEW new \in PriceAlert!Row, PriceAlert!Written(a, new)
  PROVE  AlertInv'
  <1>1. /\ s2' = [s2 EXCEPT ![a] = new] /\ s4' = [s4 EXCEPT ![a] = 0]
        /\ s5' = [s5 EXCEPT ![a] = PriceAlert!NoPrice] /\ UNCHANGED <<s1, s3>>
        /\ IF PriceAlert!Holding(a) = {}
             THEN s6' = s6 \ {a} /\ s7' = s7 \ {a}
             ELSE s6' = s6 \cup {a} /\ UNCHANGED s7
    BY DEF PriceAlert!Written
  <1>2. /\ s2 \in [Alerts -> PriceAlert!Row] /\ s4 \in [Alerts -> Nat] /\ s6 \subseteq Alerts
        /\ s5 \in [Alerts -> Levels \cup {PriceAlert!NoPrice}] /\ s7 \subseteq Alerts
    BY DEF AlertInv, PriceAlert!TypeOK
  <1>3. PriceAlert!TypeOK'
    BY <1>1, <1>2 DEF AlertInv, PriceAlert!TypeOK
  <1>4. ASSUME NEW b \in Alerts \ s6'
        PROVE  AlertUndisturbed(b)'
    <2>1. CASE b = a
      <3>1. PriceAlert!Holding(a) = {}
        BY <1>1, <2>1, <1>4
      <3>2. \A r \in CheckRuns : a \notin s3[r].left /\ a \notin s3[r].pushing
        BY <3>1 DEF PriceAlert!Holding
      <3> QED
        BY <1>1, <1>2, <2>1, <3>2 DEF AlertUndisturbed, AlertUnwritten, AlertAlone, Held
    <2>2. CASE b # a
      <3>1. AlertUndisturbed(b)
        BY <1>1, <1>4, <2>2 DEF AlertInv
      <3>2. /\ s2'[b] = s2[b] /\ s4'[b] = s4[b] /\ s5'[b] = s5[b] /\ s3' = s3
            /\ b \notin s7' => b \notin s7
        BY <1>1, <1>2, <2>2
      <3> QED
        BY <3>1, <3>2 DEF AlertUndisturbed, AlertUnwritten, AlertAlone, Held, PriceAlert!Stored
    <2> QED
      BY <2>1, <2>2
  <1> QED
    BY <1>3, <1>4 DEF AlertInv

LEMMA AlertRequestsKeep ==
  ASSUME AlertInv, NEW a \in Alerts,
         \/ PriceAlert!createPriceAlert(a) \/ PriceAlert!updatePriceAlert(a)
         \/ PriceAlert!deletePriceAlert(a)
  PROVE  AlertInv'
  <1>0. s2[a] \in PriceAlert!Row
    BY DEF AlertInv, PriceAlert!TypeOK
  <1>1. CASE PriceAlert!createPriceAlert(a)
    <2>1. PICK type \in PriceAlert!Supported, threshold \in Levels :
            PriceAlert!Written(a, [status |-> "stored", type |-> type,
                                   threshold |-> threshold, isTriggered |-> FALSE])
      BY <1>1 DEF PriceAlert!createPriceAlert
    <2> DEFINE new == [status |-> "stored", type |-> type, threshold |-> threshold,
                       isTriggered |-> FALSE]
    <2>2. new \in PriceAlert!Row
      BY DEF PriceAlert!Row, PriceAlert!Supported, PriceAlert!AlertType
    <2>3. PriceAlert!Written(a, new)
      BY <2>1
    <2> HIDE DEF new
    <2> QED
      BY <2>2, <2>3, WrittenKeeps
  <1>2. CASE PriceAlert!updatePriceAlert(a)
    <2>1. PICK threshold \in Levels, isTriggered \in BOOLEAN :
            PriceAlert!Written(a, [s2[a] EXCEPT !.threshold = threshold,
                                                !.isTriggered = isTriggered])
      BY <1>2 DEF PriceAlert!updatePriceAlert
    <2> DEFINE new == [s2[a] EXCEPT !.threshold = threshold, !.isTriggered = isTriggered]
    <2>2. new \in PriceAlert!Row
      BY <1>0 DEF PriceAlert!Row
    <2>3. PriceAlert!Written(a, new)
      BY <2>1
    <2> HIDE DEF new
    <2> QED
      BY <2>2, <2>3, WrittenKeeps
  <1>3. CASE PriceAlert!deletePriceAlert(a)
    <2>1. [PriceAlert!EmptyRow EXCEPT !.status = "deleted"] \in PriceAlert!Row
      BY AlertTypes DEF PriceAlert!Row
    <2> QED
      BY <1>3, <2>1, WrittenKeeps DEF PriceAlert!deletePriceAlert
  <1> QED
    BY <1>1, <1>2, <1>3

LEMMA AlertStartKeeps ==
  ASSUME AlertInv, NEW r \in CheckRuns, PriceAlert!Start(r)
  PROVE  AlertInv'
  <1> DEFINE armed == PriceAlert!Armed
             new == [PriceAlert!NoRun EXCEPT !.rows = s2, !.left = armed]
  <1>1. /\ s3' = [s3 EXCEPT ![r] = new] /\ s3[r] = PriceAlert!NoRun
        /\ s7' = s7 \cup {a \in armed : PriceAlert!Holding(a) # {}}
        /\ UNCHANGED <<s1, s2, s4, s5, s6>>
    BY DEF PriceAlert!Start
  <1>2. /\ s3 \in [CheckRuns -> PriceAlert!Run] /\ s2 \in [Alerts -> PriceAlert!Row]
    BY DEF AlertInv, PriceAlert!TypeOK
  <1>3. /\ new \in PriceAlert!Run /\ new.left = armed /\ new.pushing = {} /\ new.rows = s2
        /\ armed \subseteq Alerts
    BY <1>2, AlertTypes DEF PriceAlert!Run, PriceAlert!Armed
  <1> HIDE DEF new
  <1>4. PriceAlert!TypeOK'
    <2>1. s3' \in [CheckRuns -> PriceAlert!Run]
      BY <1>1, <1>2, <1>3
    <2>2. s7' \subseteq Alerts
      BY <1>1, <1>3 DEF AlertInv, PriceAlert!TypeOK
    <2> QED
      BY <1>1, <2>1, <2>2 DEF AlertInv, PriceAlert!TypeOK
  <1>5. ASSUME NEW a \in Alerts \ s6'
        PROVE  AlertUndisturbed(a)'
    <2>1. AlertUndisturbed(a)
      BY <1>1, <1>5 DEF AlertInv
    <2>2. s3'[r] = new /\ \A q \in CheckRuns : q # r => s3'[q] = s3[q]
      BY <1>1, <1>2
    <2>3. \A q \in CheckRuns : a \in Held(q)' => a \in Held(q) \/ (q = r /\ a \in armed)
      BY <1>3, <2>2 DEF Held
    <2>4. PriceAlert!Stored(a)' <=> PriceAlert!Stored(a)
      BY <1>1 DEF PriceAlert!Stored
    <2>5. a \in armed => PriceAlert!Stored(a) /\ ~s2[a].isTriggered
      BY DEF PriceAlert!Armed
    <2>6. AlertUnwritten(a)'
      <3>1. \A q \in CheckRuns :
              a \in s3'[q].left => /\ PriceAlert!Stored(a)
                                  /\ s3'[q].rows[a].type = s2[a].type
                                  /\ s3'[q].rows[a].threshold = s2[a].threshold
        BY <1>3, <2>1, <2>2, <2>5 DEF AlertUndisturbed, AlertUnwritten
      <3>2. \A q \in CheckRuns : a \in s3'[q].pushing => PriceAlert!Stored(a) /\ s2[a].isTriggered
        BY <1>3, <2>1, <2>2 DEF AlertUndisturbed, AlertUnwritten
      <3> QED
        BY <1>1, <2>1, <2>4, <3>1, <3>2 DEF AlertUndisturbed, AlertUnwritten
    <2>7. ASSUME a \notin s7'
          PROVE  AlertAlone(a)'
      <3>1. AlertAlone(a) /\ (a \in armed => \A q \in CheckRuns : a \notin Held(q))
        BY <1>1, <2>1, <2>7 DEF PriceAlert!Holding, Held, AlertUndisturbed
      <3>2. \A p, q \in CheckRuns : (a \in Held(p) /\ a \in Held(q))' => p = q
        BY <2>3, <3>1 DEF AlertAlone
      <3>3. \A q \in CheckRuns : a \in s3'[q].left => ~s2[a].isTriggered
        BY <1>3, <2>2, <2>5, <3>1 DEF AlertAlone
      <3>4. \A q \in CheckRuns : a \in s3'[q].pushing => s4[a] = 0
        BY <1>3, <2>2, <3>1 DEF AlertAlone
      <3> QED
        BY <1>1, <3>1, <3>2, <3>3, <3>4 DEF AlertAlone
    <2> QED
      BY <2>6, <2>7 DEF AlertUndisturbed
  <1> QED
    BY <1>4, <1>5 DEF AlertInv

\* A run goes on to d, of which nothing is new but the alert it judged.
LEMMA RunsOn ==
  ASSUME AlertInv, NEW r \in CheckRuns, NEW d \in PriceAlert!Run, s3' = [s3 EXCEPT ![r] = d]
  PROVE  /\ s3' \in [CheckRuns -> PriceAlert!Run] /\ s3'[r] = d
         /\ \A q \in CheckRuns : q # r => s3'[q] = s3[q]
  BY DEF AlertInv, PriceAlert!TypeOK

LEMMA FinishedIs ==
  ASSUME NEW d \in PriceAlert!Run
  PROVE  /\ PriceAlert!Finished(d) \in PriceAlert!Run
         /\ PriceAlert!Finished(d).left = d.left /\ PriceAlert!Finished(d).pushing = d.pushing
         /\ d.left # {} => PriceAlert!Finished(d).rows = d.rows
  BY AlertTypes DEF PriceAlert!Finished

\* A run that holds no more than before, with the same rows.
LEMMA RunShrinks ==
  ASSUME AlertInv, NEW r \in CheckRuns, NEW d \in PriceAlert!Run, s3' = [s3 EXCEPT ![r] = d],
         d.left \subseteq s3[r].left, d.pushing \subseteq s3[r].pushing,
         d.left # {} => d.rows = s3[r].rows,
         UNCHANGED <<s1, s2, s4, s5, s6, s7>>
  PROVE  AlertInv'
  <1>1. /\ s3' \in [CheckRuns -> PriceAlert!Run] /\ s3'[r] = d
        /\ \A q \in CheckRuns : q # r => s3'[q] = s3[q]
    BY RunsOn
  <1>2. PriceAlert!TypeOK'
    BY <1>1 DEF AlertInv, PriceAlert!TypeOK
  <1>3. ASSUME NEW a \in Alerts \ s6'
        PROVE  AlertUndisturbed(a)'
    <2>1. AlertUndisturbed(a)
      BY <1>3 DEF AlertInv
    <2>2. \A q \in CheckRuns : /\ a \in s3'[q].left => a \in s3[q].left /\ s3'[q].rows = s3[q].rows
                               /\ a \in s3'[q].pushing => a \in s3[q].pushing
      BY <1>1
    <2> QED
      BY <2>1, <2>2 DEF AlertUndisturbed, AlertUnwritten, AlertAlone, Held, PriceAlert!Stored
  <1> QED
    BY <1>2, <1>3 DEF AlertInv

LEMMA FetchQuoteKeeps ==
  ASSUME AlertInv, NEW r \in CheckRuns, PriceAlert!FetchQuote(r)
  PROVE  AlertInv'
  <1>0. PICK s \in PriceAlert!Needed(r) :
          \E q \in {s1[s], PriceAlert!NoPrice} :
            s3' = [s3 EXCEPT ![r].quote[s] = q] /\ UNCHANGED <<s1, s2, s4, s5, s6, s7>>
    BY DEF PriceAlert!FetchQuote
  <1>1. PICK q \in {s1[s], PriceAlert!NoPrice} :
          s3' = [s3 EXCEPT ![r].quote[s] = q] /\ UNCHANGED <<s1, s2, s4, s5, s6, s7>>
    BY <1>0
  <1>2. /\ s3[r] \in PriceAlert!Run /\ s1 \in [PriceAlert!Symbols -> Levels]
    BY DEF AlertInv, PriceAlert!TypeOK
  <1>3. s \in PriceAlert!Symbols
    BY <1>2 DEF PriceAlert!Needed, PriceAlert!Symbols, PriceAlert!Run
  <1> DEFINE d == [s3[r] EXCEPT !.quote = [@ EXCEPT ![s] = q]]
  <1>4. d \in PriceAlert!Run
    BY <1>1, <1>2, <1>3 DEF PriceAlert!Run
  <1>5. d.left = s3[r].left /\ d.pushing = s3[r].pushing /\ d.rows = s3[r].rows
    BY <1>2 DEF PriceAlert!Run
  <1>6. s3' = [s3 EXCEPT ![r] = d]
    BY <1>1
  <1> HIDE DEF d
  <1> QED
    BY <1>1, <1>4, <1>5, <1>6, RunShrinks

\* Judge takes the alert with the least id of those that are left.
LEMMA NextIs ==
  ASSUME AlertInv, NEW r \in CheckRuns, s3[r].left # {}
  PROVE  PriceAlert!Next1(r) \in s3[r].left
  <1>1. s3[r].left \subseteq Nat
    BY RecordsAssumption DEF AlertInv, PriceAlert!TypeOK, PriceAlert!Run
  <1>2. \E a \in s3[r].left : \A b \in s3[r].left : a <= b
    BY <1>1, LeastNat
  <1> QED
    BY <1>2 DEF PriceAlert!Next1

LEMMA JudgeKeeps ==
  ASSUME AlertInv, NEW r \in CheckRuns, PriceAlert!Judge(r)
  PROVE  AlertInv'
  <1>0. PICK a \in s3[r].left : a = PriceAlert!Next1(r)
    BY NextIs DEF PriceAlert!Judge
  <1> DEFINE old == s3[r].rows[a]
             q == s3[r].quote[SymbolOf[a]]
             rest == s3[r].left \ {a}
             met == /\ q # PriceAlert!NoPrice
                    /\ PriceAlert!evaluatePriceAlertCondition(old.type, q, old.threshold)
  <1>1. a \in s3[r].left /\ s3[r].pushing = {} /\ PriceAlert!Quoted(r)
    BY DEF PriceAlert!Judge
  <1>2. /\ s3[r] \in PriceAlert!Run /\ s2 \in [Alerts -> PriceAlert!Row] /\ a \in Alerts
        /\ s4 \in [Alerts -> Nat] /\ s5 \in [Alerts -> Levels \cup {PriceAlert!NoPrice}]
        /\ s6 \subseteq Alerts
    BY DEF AlertInv, PriceAlert!TypeOK, PriceAlert!Run
  <1>3. q \in Levels \cup {PriceAlert!NoPrice}
    <2>1. SymbolOf[a] \in PriceAlert!Needed(r) /\ SymbolOf[a] \in PriceAlert!Symbols
      BY <1>1, <1>2 DEF PriceAlert!Needed, PriceAlert!Symbols
    <2>2. q # PriceAlert!Unasked
      BY <1>1, <2>1 DEF PriceAlert!Quoted
    <2> QED
      BY <1>2, <2>1, <2>2 DEF PriceAlert!Run
  <1>4. \/ /\ met /\ PriceAlert!Stored(a)
           /\ s2' = [s2 EXCEPT ![a].isTriggered = TRUE]
           /\ s5' = [s5 EXCEPT ![a] = q]
           /\ s3' = [s3 EXCEPT ![r].left = rest, ![r].pushing = {a}]
           /\ UNCHANGED <<s1, s4, s6, s7>>
        \/ /\ s3' = [s3 EXCEPT ![r] = PriceAlert!Finished([@ EXCEPT !.left = rest])]
           /\ UNCHANGED <<s1, s2, s4, s5, s6, s7>>
    BY <1>0 DEF PriceAlert!Judge
  <1>5. CASE /\ s3' = [s3 EXCEPT ![r] = PriceAlert!Finished([@ EXCEPT !.left = rest])]
             /\ UNCHANGED <<s1, s2, s4, s5, s6, s7>>
    <2> DEFINE d == [s3[r] EXCEPT !.left = rest]
    <2>1. /\ d \in PriceAlert!Run /\ d.left = rest /\ d.pushing = s3[r].pushing
          /\ d.rows = s3[r].rows
      BY <1>2 DEF PriceAlert!Run
    <2>2. s3' = [s3 EXCEPT ![r] = PriceAlert!Finished(d)]
      BY <1>5
    <2> HIDE DEF d
    <2>3. /\ PriceAlert!Finished(d) \in PriceAlert!Run
          /\ PriceAlert!Finished(d).left \subseteq s3[r].left
          /\ PriceAlert!Finished(d).pushing \subseteq s3[r].pushing
          /\ PriceAlert!Finished(d).left # {} => PriceAlert!Finished(d).rows = s3[r].rows
      BY <2>1, FinishedIs
    <2> QED
      BY <1>5, <2>2, <2>3, RunShrinks
  <1>6. CASE /\ met /\ PriceAlert!Stored(a)
             /\ s2' = [s2 EXCEPT ![a].isTriggered = TRUE]
             /\ s5' = [s5 EXCEPT ![a] = q]
             /\ s3' = [s3 EXCEPT ![r].left = rest, ![r].pushing = {a}]
             /\ UNCHANGED <<s1, s4, s6, s7>>
    <2> DEFINE d == [s3[r] EXCEPT !.left = rest, !.pushing = {a}]
               marked == [s2[a] EXCEPT !.isTriggered = TRUE]
    <2>1. /\ d \in PriceAlert!Run /\ d.left = rest /\ d.pushing = {a} /\ d.rows = s3[r].rows
      BY <1>2 DEF PriceAlert!Run
    <2>2. s3' = [s3 EXCEPT ![r] = d]
      BY <1>6
    <2>3. /\ marked \in PriceAlert!Row /\ marked.status = s2[a].status
          /\ marked.type = s2[a].type /\ marked.threshold = s2[a].threshold
          /\ marked.isTriggered = TRUE
      BY <1>2 DEF PriceAlert!Row
    <2>4. s2' = [s2 EXCEPT ![a] = marked]
      BY <1>6
    <2> HIDE DEF d, marked
    <2>5. /\ s3' \in [CheckRuns -> PriceAlert!Run] /\ s3'[r] = d
          /\ \A p \in CheckRuns : p # r => s3'[p] = s3[p]
      BY <2>1, <2>2, RunsOn
    <2>6. PriceAlert!TypeOK'
      <3>1. s2' \in [Alerts -> PriceAlert!Row]
        BY <1>2, <2>3, <2>4
      <3>2. s5' \in [Alerts -> Levels \cup {PriceAlert!NoPrice}]
        BY <1>2, <1>3, <1>6
      <3> QED
        BY <1>6, <2>5, <3>1, <3>2 DEF AlertInv, PriceAlert!TypeOK
    <2>7. ASSUME NEW b \in Alerts \ s6'
          PROVE  AlertUndisturbed(b)'
      <3>1. AlertUndisturbed(b)
        BY <1>6, <2>7 DEF AlertInv
      <3>2. \A p \in CheckRuns : b \in Held(p)' => b \in Held(p)
        BY <1>1, <2>1, <2>5 DEF Held
      <3>3. CASE b # a
        <4>1. s2'[b] = s2[b] /\ s4'[b] = s4[b] /\ s5'[b] = s5[b]
          BY <1>2, <1>6, <2>4, <3>3
        <4>2. \A p \in CheckRuns : /\ b \in s3'[p].left => b \in s3[p].left
                                   /\ b \in s3'[p].pushing => b \in s3[p].pushing
                                   /\ s3'[p].rows = s3[p].rows
          BY <2>1, <2>5, <3>3
        <4>3. PriceAlert!Stored(b)' <=> PriceAlert!Stored(b)
          BY <4>1 DEF PriceAlert!Stored
        <4>4. AlertUnwritten(b)'
          BY <3>1, <4>1, <4>2, <4>3 DEF AlertUndisturbed, AlertUnwritten
        <4>5. AlertAlone(b) => AlertAlone(b)'
          BY <3>2, <4>1, <4>2 DEF AlertAlone
        <4> QED
          BY <1>6, <3>1, <4>4, <4>5 DEF AlertUndisturbed
      <3>4. CASE b = a
        <4>1. /\ PriceAlert!Stored(a) /\ old.type = s2[a].type /\ old.threshold = s2[a].threshold
          BY <1>1, <1>2, <3>1, <3>4 DEF AlertUndisturbed, AlertUnwritten
        <4>2. s2'[a] = marked /\ s4'[a] = s4[a] /\ s5'[a] = q
          BY <1>2, <1>6, <2>4
        <4>3. PriceAlert!Stored(a)' /\ s2'[a].isTriggered
          BY <2>3, <4>1, <4>2 DEF PriceAlert!Stored
        <4>4. \/ s2'[a].type = "PRICE_ABOVE" /\ s2'[a].threshold <= q
              \/ s2'[a].type = "PRICE_BELOW" /\ q <= s2'[a].threshold
          <5>1. q \in Nat /\ s2[a].threshold \in Nat
            BY <1>2, <1>3, <1>6, RecordsAssumption DEF PriceAlert!Row
          <5> QED
            BY <1>6, <2>3, <4>1, <4>2, <5>1 DEF PriceAlert!evaluatePriceAlertCondition
        <4>5. \A p \in CheckRuns :
                a \in s3'[p].left => /\ s3'[p].rows[a].type = s2'[a].type
                                    /\ s3'[p].rows[a].threshold = s2'[a].threshold
          <5>1. ASSUME NEW p \in CheckRuns, a \in s3'[p].left
                PROVE  p # r /\ s3'[p] = s3[p]
            BY <2>1, <2>5, <5>1
          <5> QED
            BY <2>3, <3>1, <3>4, <4>2, <5>1 DEF AlertUndisturbed, AlertUnwritten
        <4>6. AlertUnwritten(a)'
          BY <4>2, <4>3, <4>4, <4>5 DEF AlertUnwritten
        <4>7. ASSUME a \notin s7'
              PROVE  AlertAlone(a)'
          <5>1. AlertAlone(a)
            BY <1>6, <3>1, <3>4, <4>7 DEF AlertUndisturbed
          <5>2. \A p \in CheckRuns : a \in Held(p) => p = r
            BY <1>1, <5>1 DEF AlertAlone, Held
          <5>3. \A p \in CheckRuns : a \notin s3'[p].left
            BY <2>1, <2>5, <5>2 DEF Held
          <5>4. \A p, o \in CheckRuns : (a \in Held(p) /\ a \in Held(o))' => p = o
            BY <3>2, <3>4, <5>2
          <5>5. s4[a] = 0
            BY <1>1, <1>2, <3>1, <3>4, <5>1 DEF AlertUndisturbed, AlertUnwritten, AlertAlone
          <5> QED
            BY <4>2, <5>3, <5>4, <5>5 DEF AlertAlone
        <4> QED
          BY <3>4, <4>6, <4>7 DEF AlertUndisturbed
      <3> QED
        BY <3>3, <3>4
    <2> QED
      BY <2>6, <2>7 DEF AlertInv
  <1> QED
    BY <1>4, <1>5, <1>6

LEMMA PushKeeps ==
  ASSUME AlertInv, NEW r \in CheckRuns, PriceAlert!Push(r)
  PROVE  AlertInv'
  <1> DEFINE d == [s3[r] EXCEPT !.pushing = {}]
             f == PriceAlert!Finished(d)
  <1>1. /\ s3[r] \in PriceAlert!Run /\ s4 \in [Alerts -> Nat]
    BY DEF AlertInv, PriceAlert!TypeOK
  <1>2. d \in PriceAlert!Run /\ d.left = s3[r].left /\ d.pushing = {} /\ d.rows = s3[r].rows
    BY <1>1 DEF PriceAlert!Run
  <1>3. /\ s4' = [a \in Alerts |-> IF a \in s3[r].pushing THEN s4[a] + 1 ELSE s4[a]]
        /\ s3' = [s3 EXCEPT ![r] = f]
        /\ UNCHANGED <<s1, s2, s5, s6, s7>>
    BY DEF PriceAlert!Push
  <1> HIDE DEF d
  <1>4. /\ f \in PriceAlert!Run /\ f.left = s3[r].left /\ f.pushing = {}
        /\ f.left # {} => f.rows = s3[r].rows
    BY <1>2, FinishedIs
  <1> HIDE DEF f
  <1>5. /\ s3' \in [CheckRuns -> PriceAlert!Run] /\ s3'[r] = f
        /\ \A p \in CheckRuns : p # r => s3'[p] = s3[p]
    BY <1>3, <1>4, RunsOn
  <1>6. PriceAlert!TypeOK'
    BY <1>1, <1>3, <1>5 DEF AlertInv, PriceAlert!TypeOK
  <1>7. ASSUME NEW a \in Alerts \ s6'
        PROVE  AlertUndisturbed(a)'
    <2>1. AlertUndisturbed(a)
      BY <1>3, <1>7 DEF AlertInv
    <2>2. \A p \in CheckRuns : /\ a \in s3'[p].left => a \in s3[p].left /\ s3'[p].rows = s3[p].rows
                               /\ a \in s3'[p].pushing => a \in s3[p].pushing /\ p # r
      BY <1>4, <1>5
    <2>3. \A p \in CheckRuns : a \in Held(p)' => a \in Held(p)
      BY <2>2 DEF Held
    <2>4. PriceAlert!Stored(a)' <=> PriceAlert!Stored(a)
      BY <1>3 DEF PriceAlert!Stored
    <2>5. CASE a \in s3[r].pushing
      <3>1. s4'[a] = s4[a] + 1 /\ s2[a].isTriggered
        BY <1>1, <1>3, <2>1, <2>5 DEF AlertUndisturbed, AlertUnwritten
      <3>2. AlertUnwritten(a)'
        BY <1>3, <2>1, <2>2, <2>4, <3>1 DEF AlertUndisturbed, AlertUnwritten
      <3>3. ASSUME a \notin s7'
            PROVE  AlertAlone(a)'
        <4>1. AlertAlone(a)
          BY <1>3, <2>1, <3>3 DEF AlertUndisturbed
        <4>2. s4'[a] = 1 /\ \A p \in CheckRuns : a \notin s3'[p].pushing
          BY <2>2, <2>5, <3>1, <4>1 DEF AlertAlone, Held
        <4> QED
          BY <1>3, <2>2, <2>3, <4>1, <4>2 DEF AlertAlone
      <3> QED
        BY <3>2, <3>3 DEF AlertUndisturbed
    <2>6. CASE a \notin s3[r].pushing
      <3>1. s4'[a] = s4[a]
        BY <1>1, <1>3, <2>6
      <3> QED
        BY <1>3, <2>1, <2>2, <2>3, <2>4, <3>1 DEF AlertUndisturbed, AlertUnwritten, AlertAlone
    <2> QED
      BY <2>5, <2>6
  <1> QED
    BY <1>6, <1>7 DEF AlertInv

LEMMA AlertKeeps ==
  ASSUME AlertInv, PriceAlert!Next \/ UNCHANGED PriceAlert!vars
  PROVE  AlertInv'
  <1>1. CASE UNCHANGED PriceAlert!vars
    BY <1>1
    DEF PriceAlert!vars, AlertInv, PriceAlert!TypeOK, AlertUndisturbed, AlertUnwritten, AlertAlone,
        Held, PriceAlert!Stored
  <1>2. ASSUME NEW s \in PriceAlert!Symbols, PriceAlert!PriceMoves(s)
        PROVE  AlertInv'
    <2>1. s1' \in [PriceAlert!Symbols -> Levels]
      BY <1>2 DEF PriceAlert!PriceMoves, AlertInv, PriceAlert!TypeOK
    <2> QED
      BY <1>2, <2>1
      DEF PriceAlert!PriceMoves, AlertInv, PriceAlert!TypeOK, AlertUndisturbed, AlertUnwritten,
          AlertAlone, Held, PriceAlert!Stored
  <1>3. CASE PriceAlert!Restart
    <2>1. /\ s3' = [r \in CheckRuns |-> PriceAlert!NoRun] /\ UNCHANGED <<s1, s2, s4, s5, s6, s7>>
      BY <1>3 DEF PriceAlert!Restart
    <2>2. \A r \in CheckRuns : s3'[r].left = {} /\ s3'[r].pushing = {}
      BY <2>1, AlertTypes
    <2>3. PriceAlert!TypeOK'
      BY <2>1, AlertTypes DEF AlertInv, PriceAlert!TypeOK
    <2>4. ASSUME NEW a \in Alerts \ s6'
          PROVE  AlertUndisturbed(a)'
      BY <2>1, <2>2, <2>4
      DEF AlertInv, AlertUndisturbed, AlertUnwritten, AlertAlone, Held, PriceAlert!Stored
    <2> QED
      BY <2>3, <2>4 DEF AlertInv
  <1> QED
    BY <1>1, <1>2, <1>3, AlertRequestsKeep, AlertStartKeeps, FetchQuoteKeeps, JudgeKeeps,
       PushKeeps
    DEF PriceAlert!Next

-----------------------------------------------------------------------------
(* Partners. *)

LEMMA PartnerStarts == Partner!Init => PartnerInv
  BY DEF Partner!Init, Partner!Idle, Partner!Nobody, Partner!Resources,
         PartnerInv, LinkTypes, LinksMeant, RequestNoted

\* What a viewer is told is shared, its owner consents to.
LEMMA SharedIsMeant ==
  ASSUME LinkTypes, LinksMeant, NEW viewer, NEW resource \in Partner!Resources
  PROVE  Partner!listSharingPartners(viewer, resource)
           \subseteq Partner!Consents(s1, s5, s6, viewer, resource)
  <1> SUFFICES ASSUME NEW l \in s1, Partner!isParticipant(l, viewer),
                      Partner!getPartnerLinkStatus(l, viewer) = "connected",
                      Partner!sideSharesResource(l, viewer, resource)
               PROVE  Partner!PartnerOf(l, viewer)
                        \in Partner!Consents(s1, s5, s6, viewer, resource)
    BY DEF Partner!listSharingPartners, Partner!LinksOf
  <1> DEFINE o == Partner!PartnerOf(l, viewer)
  <1>1. l.accepted
    BY DEF Partner!getPartnerLinkStatus
  <1>2. viewer \in {l.a, l.b} /\ o \in {l.a, l.b} /\ l.a \in Users /\ l.b \in Users
    BY DEF Partner!isParticipant, Partner!PartnerOf, LinkTypes, LinkRow
  <1>3. {<<o, l.id>>, <<viewer, l.id>>} \subseteq s5
    BY <1>1, <1>2 DEF LinksMeant
  <1>4. <<Partner!SideOf(l, o), resource>> \in l.shares
    BY DEF Partner!sideSharesResource
  <1>5. <<o, l.id, resource>> \in s6
    BY <1>2, <1>4 DEF LinksMeant
  <1> QED
    BY <1>2, <1>3, <1>5 DEF Partner!Consents

\* A write notes whom the request under way may have from now on.
LEMMA NotedKeeps ==
  ASSUME RequestNoted, Partner!Consented, s4' = s4
  PROVE  RequestNoted'
  BY DEF RequestNoted, Partner!Consented

LEMMA CreateKeeps ==
  ASSUME PartnerInv, NEW c \in s3, Partner!CreateWrite(c)
  PROVE  PartnerInv'
  <1>1. s3' = s3 \ {c} /\ s4' = s4 /\ s6' = s6 /\ Partner!Consented
    BY DEF Partner!CreateWrite
  <1>2. RequestNoted'
    BY <1>1, NotedKeeps DEF PartnerInv
  <1>3. CASE s1' = s1 /\ s2' = s2 /\ s5' = s5
    BY <1>1, <1>2, <1>3 DEF PartnerInv, LinkTypes, LinksMeant
  <1>4. CASE ~(\E l \in s1 : l.a = c.a /\ l.b = c.b)
    <2> DEFINE n == [id |-> s2 + 1, a |-> c.a, b |-> c.b, initiator |-> c.user,
                     accepted |-> FALSE, shares |-> {}]
    <2>1. /\ s2' = s2 + 1 /\ s1' = s1 \cup {n} /\ s5' = s5 \cup {<<c.user, s2 + 1>>}
      BY <1>4 DEF Partner!CreateWrite
    <2>2. /\ c.a \in Users /\ c.b \in Users /\ c.a < c.b /\ c.user \in {c.a, c.b}
      BY DEF Partner!CreateWrite, PartnerInv, LinkTypes
    <2>3. /\ n \in LinkRow /\ n.id = s2 + 1 /\ n.a < n.b /\ n.initiator \in {n.a, n.b}
          /\ ~n.accepted /\ n.shares = {} /\ n.initiator = c.user
      BY <2>2 DEF LinkRow, PartnerInv, LinkTypes
    <2> HIDE DEF n
    <2>4. \A l \in s1 : l.id \in Nat /\ l.id <= s2 /\ l.id # s2 + 1
      BY DEF PartnerInv, LinkTypes, LinkRow
    <2>5. \A d \in s3 : d.kind # "create" => d.id \in Nat /\ d.id <= s2 /\ d.id # s2 + 1
      BY DEF PartnerInv, LinkTypes
    <2>6. s2 \in Nat
      BY DEF PartnerInv, LinkTypes
    <2>7. /\ s2' \in Nat /\ s1' \subseteq LinkRow
          /\ \A l \in s1' : l.id <= s2' /\ l.a < l.b /\ l.initiator \in {l.a, l.b}
      BY <2>1, <2>3, <2>4, <2>6 DEF PartnerInv, LinkTypes
    <2>8. \A l, m \in s1' : l.id = m.id => l = m
      BY <2>1, <2>3, <2>4 DEF PartnerInv, LinkTypes
    <2>9. ASSUME NEW d \in s3'
          PROVE  \/ /\ d.kind = "create" /\ d.a \in Users /\ d.b \in Users /\ d.a < d.b
                    /\ d.user \in {d.a, d.b}
                 \/ /\ d.kind \in {"accept", "remove", "share"}
                    /\ d.id \in Nat /\ d.id <= s2' /\ d.resource \in Partner!Resources
                    /\ \A l \in s1' : l.id = d.id =>
                         /\ d.user \in {l.a, l.b}
                         /\ d.kind = "accept" => d.user # l.initiator
      <3>1. d \in s3
        BY <1>1
      <3>2. CASE d.kind = "create"
        BY <3>1, <3>2 DEF PartnerInv, LinkTypes
      <3>3. CASE d.kind # "create"
        <4>1. d.id \in Nat /\ d.id <= s2'
          BY <3>1, <3>3, <2>1, <2>5, <2>6
        <4>2. \A l \in s1' : l.id = d.id => l \in s1
          BY <3>1, <3>3, <2>1, <2>3, <2>5
        <4> QED
          BY <3>1, <3>3, <4>1, <4>2 DEF PartnerInv, LinkTypes
      <3> QED
        BY <3>2, <3>3
    <2>10. LinkTypes'
      BY <2>7, <2>8, <2>9 DEF LinkTypes
    <2>11. LinksMeant'
      BY <1>1, <2>1, <2>3 DEF PartnerInv, LinksMeant
    <2> QED
      BY <1>2, <2>10, <2>11 DEF PartnerInv
  <1> QED
    BY <1>3, <1>4 DEF Partner!CreateWrite

LEMMA WriteReadKeeps ==
  ASSUME PartnerInv,
         NEW kind \in {"accept", "remove", "share"}, NEW l \in s1, NEW u \in Users,
         NEW on, NEW r \in Partner!Resources, Partner!WriteRead(kind, l, u, on, r)
  PROVE  PartnerInv'
  <1> DEFINE c == [kind |-> kind, user |-> u, id |-> l.id, on |-> on, resource |-> r]
  <1>1. s3' = s3 \cup {c} /\ UNCHANGED <<s1, s2, s4, s5, s6, s7>>
    BY DEF Partner!WriteRead
  <1>2. /\ c.kind = kind /\ c.user = u /\ c.id = l.id /\ c.resource = r
    OBVIOUS
  <1> HIDE DEF c
  <1>3. u \in {l.a, l.b} /\ (kind = "accept" => u # l.initiator)
    BY DEF Partner!WriteRead, Partner!May, Partner!isParticipant, Partner!getPartnerLinkStatus
  <1>4. l.id \in Nat /\ l.id <= s2 /\ \A m \in s1 : m.id = l.id => m = l
    BY DEF PartnerInv, LinkTypes, LinkRow
  <1>5. LinkTypes'
    BY <1>1, <1>2, <1>3, <1>4 DEF PartnerInv, LinkTypes
  <1>6. LinksMeant' /\ RequestNoted'
    BY <1>1 DEF PartnerInv, LinksMeant, RequestNoted
  <1> QED
    BY <1>5, <1>6 DEF PartnerInv

\* The row that a write updates by its id keeps its pair and its initiator.
LEMMA CommitKeeps ==
  ASSUME PartnerInv, NEW c \in s3, Partner!WriteCommit(c)
  PROVE  PartnerInv'
  <1>1. /\ s3' = s3 \ {c} /\ s2' = s2 /\ s4' = s4 /\ Partner!Consented
    BY DEF Partner!WriteCommit
  <1>2. RequestNoted'
    BY <1>1, NotedKeeps DEF PartnerInv
  <1>3. /\ c.kind \in {"accept", "remove", "share"} /\ c.resource \in Partner!Resources
        /\ \A l \in s1 : l.id = c.id =>
             /\ c.user \in {l.a, l.b}
             /\ c.kind = "accept" => c.user # l.initiator
    BY DEF Partner!WriteCommit, PartnerInv, LinkTypes
  <1> DEFINE hit == {l \in s1 : l.id = c.id}
             Kept(l) == l \in s1 /\ l.id # c.id
             Accepted(l) == c.kind = "accept" /\ \E m \in hit : l = [m EXCEPT !.accepted = TRUE]
             Shared(l) == c.kind = "share" /\ \E m \in hit : l = [m EXCEPT !.shares =
                            Partner!getSharingUpdateData(m, c.user, c.on, c.resource)]
  <1>4. \A l \in s1' : Kept(l) \/ Accepted(l) \/ Shared(l)
    BY <1>3 DEF Partner!WriteCommit
  <1>5. \A x : x \in s5 \/ (c.kind = "accept" /\ x = <<c.user, c.id>>) =>
          ((\E l \in s1' : l.id = x[2]) => x \in s5')
    BY DEF Partner!WriteCommit
  <1>6. \A x : x \in (IF c.kind = "share"
                      THEN IF c.on THEN s6 \union {<<c.user, c.id, c.resource>>}
                                   ELSE s6 \ {<<c.user, c.id, c.resource>>}
                      ELSE s6) =>
          ((\E l \in s1' : l.id = x[2]) => x \in s6')
    BY DEF Partner!WriteCommit
  <1>7. ASSUME NEW l \in s1', ~Kept(l)
        PROVE  \E m \in hit :
                 /\ l \in LinkRow /\ l.id = m.id /\ l.a = m.a /\ l.b = m.b
                 /\ l.initiator = m.initiator
                 /\ \/ c.kind = "accept" /\ l.accepted /\ l.shares = m.shares
                    \/ /\ c.kind = "share" /\ l.accepted = m.accepted
                       /\ l.shares = Partner!getSharingUpdateData(m, c.user, c.on, c.resource)
    <2>1. CASE Accepted(l)
      <3>1. PICK m \in hit : l = [m EXCEPT !.accepted = TRUE]
        BY <2>1
      <3>2. m \in LinkRow
        BY DEF PartnerInv, LinkTypes
      <3>3. /\ l \in LinkRow /\ l.id = m.id /\ l.a = m.a /\ l.b = m.b
            /\ l.initiator = m.initiator /\ l.accepted /\ l.shares = m.shares
        BY <3>1, <3>2 DEF LinkRow
      <3> QED
        BY <2>1, <3>3
    <2>2. CASE Shared(l)
      <3>1. PICK m \in hit : l = [m EXCEPT !.shares =
                               Partner!getSharingUpdateData(m, c.user, c.on, c.resource)]
        BY <2>2
      <3>2. m \in LinkRow
        BY DEF PartnerInv, LinkTypes
      <3>3. Partner!getSharingUpdateData(m, c.user, c.on, c.resource)
              \in SUBSET ({"a", "b"} \X Partner!Resources)
        BY <1>3, <3>2 DEF LinkRow, Partner!getSharingUpdateData, Partner!SideOf
      <3>4. /\ l \in LinkRow /\ l.id = m.id /\ l.a = m.a /\ l.b = m.b
            /\ l.initiator = m.initiator /\ l.accepted = m.accepted
            /\ l.shares = Partner!getSharingUpdateData(m, c.user, c.on, c.resource)
        BY <3>1, <3>2, <3>3 DEF LinkRow
      <3> QED
        BY <2>2, <3>4
    <2> QED
      BY <1>4, <1>7, <2>1, <2>2
  <1>8. \A l \in s1' : \E m \in s1 : /\ l.id = m.id /\ l.a = m.a /\ l.b = m.b
                                     /\ l.initiator = m.initiator
    BY <1>7
  <1>9. \A l \in s1' : l \in LinkRow
    BY <1>7 DEF PartnerInv, LinkTypes
  <1>10. ASSUME NEW l \in s1', NEW m \in s1', l.id = m.id
         PROVE  l = m
    <2>1. CASE l.id # c.id
      BY <1>10, <1>7, <2>1 DEF PartnerInv, LinkTypes
    <2>2. CASE l.id = c.id
      <3>1. \A x, y \in hit : x = y
        BY DEF PartnerInv, LinkTypes
      <3>2. ~Kept(l) /\ ~Kept(m)
        BY <1>10, <2>2
      <3> QED
        BY <1>4, <3>1, <3>2
    <2> QED
      BY <2>1, <2>2
  <1> HIDE DEF hit, Kept, Accepted, Shared
  <1>11. LinkTypes'
    <2>1. \A l \in s1' : l.id <= s2' /\ l.a < l.b /\ l.initiator \in {l.a, l.b}
      BY <1>1, <1>8 DEF PartnerInv, LinkTypes
    <2>2. ASSUME NEW d \in s3'
          PROVE  \/ /\ d.kind = "create" /\ d.a \in Users /\ d.b \in Users /\ d.a < d.b
                    /\ d.user \in {d.a, d.b}
                 \/ /\ d.kind \in {"accept", "remove", "share"}
                    /\ d.id \in Nat /\ d.id <= s2' /\ d.resource \in Partner!Resources
                    /\ \A l \in s1' : l.id = d.id =>
                         /\ d.user \in {l.a, l.b}
                         /\ d.kind = "accept" => d.user # l.initiator
      <3>1. d \in s3 /\ s2' = s2
        BY <1>1
      <3>2. CASE d.kind = "create"
        BY <3>1, <3>2 DEF PartnerInv, LinkTypes
      <3>3. CASE d.kind # "create"
        BY <3>1, <3>3, <1>8 DEF PartnerInv, LinkTypes
      <3> QED
        BY <3>2, <3>3
    <2>3. s2' \in Nat
      BY <1>1 DEF PartnerInv, LinkTypes
    <2> QED
      BY <1>9, <1>10, <2>1, <2>2, <2>3 DEF LinkTypes
  <1>12. ASSUME NEW l \in s1'
         PROVE  /\ <<l.initiator, l.id>> \in s5'
                /\ l.accepted => {<<l.a, l.id>>, <<l.b, l.id>>} \subseteq s5'
                /\ \A u \in {l.a, l.b}, r \in Partner!Resources :
                     <<Partner!SideOf(l, u), r>> \in l.shares => <<u, l.id, r>> \in s6'
    <2>1. CASE Kept(l)
      <3>1. l \in s1 /\ l.id # c.id
        BY <2>1 DEF Kept
      <3>2. \A u : <<u, l.id>> \in s5 => <<u, l.id>> \in s5'
        BY <1>5
      <3>3. \A u, r : <<u, l.id, r>> \in s6 => <<u, l.id, r>> \in s6'
        BY <1>6, <3>1
      <3> QED
        BY <3>1, <3>2, <3>3 DEF PartnerInv, LinksMeant
    <2>2. CASE ~Kept(l)
      <3>1. PICK m \in hit :
                 /\ l.id = m.id /\ l.a = m.a /\ l.b = m.b
                 /\ l.initiator = m.initiator
                 /\ \/ c.kind = "accept" /\ l.accepted /\ l.shares = m.shares
                    \/ /\ c.kind = "share" /\ l.accepted = m.accepted
                       /\ l.shares = Partner!getSharingUpdateData(m, c.user, c.on, c.resource)
        BY <1>7, <2>2
      <3>2. m \in s1 /\ m.id = c.id
        BY DEF hit
      <3>3. /\ <<m.initiator, m.id>> \in s5 /\ m.initiator \in {m.a, m.b}
            /\ m.accepted => {<<m.a, m.id>>, <<m.b, m.id>>} \subseteq s5
            /\ \A u \in {m.a, m.b}, r \in Partner!Resources :
                     <<Partner!SideOf(m, u), r>> \in m.shares => <<u, m.id, r>> \in s6
        BY <3>2 DEF PartnerInv, LinksMeant, LinkTypes
      <3>4. \A u : Partner!SideOf(l, u) = Partner!SideOf(m, u)
        BY <3>1 DEF Partner!SideOf
      <3>5. \A u : <<u, l.id>> \in s5 => <<u, l.id>> \in s5'
        BY <1>5
      <3>6. CASE c.kind = "accept"
        <4>1. <<c.user, l.id>> \in s5'
          BY <1>5, <3>1, <3>2, <3>6
        <4>2. c.user \in {m.a, m.b} /\ c.user # m.initiator
          BY <1>3, <3>2, <3>6
        <4>3. {<<l.a, l.id>>, <<l.b, l.id>>} \subseteq s5'
          BY <3>1, <3>3, <3>5, <4>1, <4>2
        <4>4. \A u, r : <<u, l.id, r>> \in s6 => <<u, l.id, r>> \in s6'
          BY <1>6, <3>6
        <4> QED
          BY <3>1, <3>3, <3>4, <3>5, <3>6, <4>3, <4>4
      <3>7. CASE c.kind = "share"
        <4>1. /\ <<l.initiator, l.id>> \in s5'
              /\ l.accepted => {<<l.a, l.id>>, <<l.b, l.id>>} \subseteq s5'
          BY <3>1, <3>3, <3>5, <3>7
        <4>2. ASSUME NEW u \in {l.a, l.b}, NEW r \in Partner!Resources,
                     <<Partner!SideOf(l, u), r>> \in l.shares
              PROVE  <<u, l.id, r>> \in s6'
          <5>1. l.shares = Partner!getSharingUpdateData(m, c.user, c.on, c.resource)
            BY <3>1, <3>7
          <5>2. c.user \in {m.a, m.b} /\ m.a # m.b
            <6>1. m.a \in Nat /\ m.b \in Nat /\ m.a < m.b
              BY <3>2, RecordsAssumption DEF PartnerInv, LinkTypes, LinkRow
            <6>2. m.a # m.b
              BY <6>1
            <6>3. c.user \in {m.a, m.b}
              BY <1>3, <3>2
            <6> QED
              BY <6>2, <6>3
          <5>3. CASE c.on
            <6>1. <<Partner!SideOf(m, u), r>> \in m.shares
                    \/ (Partner!SideOf(m, u) = Partner!SideOf(m, c.user) /\ r = c.resource)
              <7>1. l.shares = m.shares \union {<<Partner!SideOf(m, c.user), c.resource>>}
                BY <5>1, <5>3 DEF Partner!getSharingUpdateData
              <7>2. <<Partner!SideOf(m, u), r>> \in l.shares
                BY <4>2, <3>4
              <7> QED
                BY <7>1, <7>2
            <6>2. u \in {m.a, m.b} /\ <<u, l.id, r>> = <<u, m.id, r>>
              BY <3>1
            <6>3. CASE <<Partner!SideOf(m, u), r>> \in m.shares
              <7>1. <<u, l.id, r>> \in s6
                BY <3>3, <6>2, <6>3
              <7>2. <<u, l.id, r>> \in s6 \union {<<c.user, c.id, c.resource>>}
                BY <7>1
              <7> QED
                BY <1>6, <3>7, <5>3, <7>2
            <6>4. CASE Partner!SideOf(m, u) = Partner!SideOf(m, c.user) /\ r = c.resource
              <7>1. u = c.user
                BY <5>2, <6>2, <6>4 DEF Partner!SideOf
              <7>2. <<u, l.id, r>> = <<c.user, c.id, c.resource>>
                BY <3>1, <3>2, <6>4, <7>1
              <7>3. <<u, l.id, r>> \in s6 \union {<<c.user, c.id, c.resource>>}
                BY <7>2
              <7> QED
                BY <1>6, <3>7, <5>3, <7>3
            <6> QED
              BY <6>1, <6>3, <6>4
          <5>4. CASE ~c.on
            <6>1. <<Partner!SideOf(m, u), r>> \in m.shares
                    /\ ~(Partner!SideOf(m, u) = Partner!SideOf(m, c.user) /\ r = c.resource)
              BY <4>2, <5>1, <5>4, <3>4 DEF Partner!getSharingUpdateData
            <6>2. <<u, m.id, r>> \in s6 /\ <<u, m.id, r>> # <<c.user, c.id, c.resource>>
              BY <6>1, <3>1, <3>3
            <6> QED
              BY <1>6, <3>1, <3>7, <5>4, <6>2
          <5> QED
            BY <5>3, <5>4
        <4> QED
          BY <4>1, <4>2
      <3> QED
        BY <3>1, <3>6, <3>7
    <2> QED
      BY <2>1, <2>2
  <1>13. LinksMeant'
    BY <1>12 DEF LinksMeant
  <1> QED
    BY <1>2, <1>11, <1>13 DEF PartnerInv

LEMMA RequestKeeps ==
  ASSUME PartnerInv,
         \/ \E v \in Users, r \in Partner!Resources : Partner!Ask(v, r)
         \/ Partner!loadCompareContext \/ Partner!CheckSharing \/ Partner!Fetch \/ Partner!Done
  PROVE  PartnerInv'
  <1>1. UNCHANGED <<s1, s2, s3, s5, s6>>
    BY DEF Partner!Ask, Partner!loadCompareContext, Partner!CheckSharing, Partner!Fetch,
           Partner!Done
  <1>2. LinkTypes' /\ LinksMeant'
    BY <1>1 DEF PartnerInv, LinkTypes, LinksMeant
  <1> DEFINE now == Partner!Consents(s1, s5, s6, s4.viewer, s4.resource)
             req == [step : {"idle", "select", "check", "fetch", "answered"},
                     viewer : Users \cup {Partner!Nobody}, resource : Partner!Resources,
                     partner : Users \cup {Partner!Nobody}, got : SUBSET Users]
  <1>3. s4 \in req /\ s4.got \subseteq s7 /\ (s4.step # "idle" => now \subseteq s7)
    BY DEF PartnerInv, RequestNoted
  \* A step of the request that goes on for the same viewer.
  <1>4. ASSUME NEW r \in req, s4' = r, s4.step # "idle", r.step # "idle", s7' = s7,
               r.viewer = s4.viewer, r.resource = s4.resource, r.got \subseteq s7
        PROVE  RequestNoted'
    BY <1>1, <1>3, <1>4 DEF RequestNoted
  <1>5. CASE \E v \in Users, r \in Partner!Resources : Partner!Ask(v, r)
    <2>1. PICK v \in Users, r \in Partner!Resources : Partner!Ask(v, r)
      BY <1>5
    <2> DEFINE step == IF r = "diaries" THEN "select" ELSE "check"
               n == [Partner!Idle EXCEPT !.step = step, !.viewer = v, !.resource = r]
    <2>2. s4' = n /\ s7' = Partner!Consents(s1, s5, s6, v, r)
      BY <2>1 DEF Partner!Ask
    <2>3. n \in req /\ n.step # "idle" /\ n.viewer = v /\ n.resource = r /\ n.got = {}
      BY DEF Partner!Idle, Partner!Nobody
    <2> HIDE DEF n
    <2>4. RequestNoted'
      BY <1>1, <2>2, <2>3 DEF RequestNoted
    <2> QED
      BY <1>2, <2>4 DEF PartnerInv
  <1>6. CASE Partner!loadCompareContext
    <2>1. s4.step = "select" /\ s7' = s7
      BY <1>6 DEF Partner!loadCompareContext
    <2>2. CASE \E l \in s1 : s4' = [s4 EXCEPT !.step = "check",
                                             !.partner = Partner!PartnerOf(l, s4.viewer)]
      <3>1. PICK l \in s1 : s4' = [s4 EXCEPT !.step = "check",
                                            !.partner = Partner!PartnerOf(l, s4.viewer)]
        BY <2>2
      <3>2. Partner!PartnerOf(l, s4.viewer) \in Users
        BY DEF Partner!PartnerOf, PartnerInv, LinkTypes, LinkRow
      <3> DEFINE n == [s4 EXCEPT !.step = "check", !.partner = Partner!PartnerOf(l, s4.viewer)]
      <3>3. /\ n \in req /\ n.step # "idle" /\ n.viewer = s4.viewer /\ n.resource = s4.resource
            /\ n.got = s4.got
        BY <1>3, <3>2
      <3>4. s4' = n
        BY <3>1
      <3> HIDE DEF n
      <3> QED
        BY <1>2, <1>3, <1>4, <2>1, <3>3, <3>4 DEF PartnerInv
    <2>3. CASE s4' = [s4 EXCEPT !.step = "answered"]
      <3> DEFINE n == [s4 EXCEPT !.step = "answered"]
      <3>3. /\ n \in req /\ n.step # "idle" /\ n.viewer = s4.viewer /\ n.resource = s4.resource
            /\ n.got = s4.got
        BY <1>3
      <3>4. s4' = n
        BY <2>3
      <3> HIDE DEF n
      <3> QED
        BY <1>2, <1>3, <1>4, <2>1, <3>3, <3>4 DEF PartnerInv
    <2> QED
      BY <1>6, <2>2, <2>3 DEF Partner!loadCompareContext, Partner!LinksOf
  <1>7. CASE Partner!CheckSharing
    <2> DEFINE sharing == Partner!listSharingPartners(s4.viewer, s4.resource)
    <2>1. s4.step = "check" /\ s7' = s7
      BY <1>7 DEF Partner!CheckSharing
    <2>2. sharing \subseteq now
      BY <1>3, SharedIsMeant DEF PartnerInv
    <2>3. PICK p \in SUBSET sharing : s4' = [s4 EXCEPT !.step = "fetch", !.got = p]
      BY <1>7 DEF Partner!CheckSharing
    <2>4. p \subseteq Users /\ p \subseteq s7
      BY <1>3, <2>1, <2>2 DEF Partner!Consents
    <2> DEFINE n == [s4 EXCEPT !.step = "fetch", !.got = p]
    <2>5. /\ n \in req /\ n.step # "idle" /\ n.viewer = s4.viewer /\ n.resource = s4.resource
          /\ n.got = p
      BY <1>3, <2>4
    <2>6. s4' = n
      BY <2>3
    <2> HIDE DEF n
    <2> QED
      BY <1>2, <1>4, <2>1, <2>4, <2>5, <2>6 DEF PartnerInv
  <1>8. CASE Partner!Fetch
    <2> DEFINE n == [s4 EXCEPT !.step = "answered"]
    <2>1. /\ n \in req /\ n.step # "idle" /\ n.viewer = s4.viewer /\ n.resource = s4.resource
          /\ n.got = s4.got
      BY <1>3
    <2>2. s4' = n /\ s4.step # "idle" /\ s7' = s7
      BY <1>8 DEF Partner!Fetch
    <2> HIDE DEF n
    <2> QED
      BY <1>2, <1>3, <1>4, <2>1, <2>2 DEF PartnerInv
  <1>9. CASE Partner!Done
    BY <1>2, <1>9 DEF Partner!Done, Partner!Idle, Partner!Nobody, Partner!Resources,
                      PartnerInv, RequestNoted
  <1> QED
    BY <1>5, <1>6, <1>7, <1>8, <1>9

LEMMA PartnerKeeps ==
  ASSUME PartnerInv, Partner!Next \/ UNCHANGED Partner!vars
  PROVE  PartnerInv'
  <1>1. ASSUME NEW u \in Users, NEW p \in Users, Partner!CreateRead(u, p)
        PROVE  PartnerInv'
    <2> DEFINE a == IF u < p THEN u ELSE p
               b == IF u < p THEN p ELSE u
               c == [kind |-> "create", user |-> u, a |-> a, b |-> b]
    <2>1. s3' = s3 \cup {c} /\ UNCHANGED <<s1, s2, s4, s5, s6, s7>>
      BY <1>1 DEF Partner!CreateRead
    <2>2. u \in Nat /\ p \in Nat /\ u # p
      BY <1>1, RecordsAssumption DEF Partner!CreateRead
    <2>3. /\ c.kind = "create" /\ c.a \in Users /\ c.b \in Users /\ c.a < c.b
          /\ c.user \in {c.a, c.b}
      BY <2>2
    <2> HIDE DEF c
    <2>4. LinkTypes'
      BY <2>1, <2>3 DEF PartnerInv, LinkTypes
    <2> QED
      BY <2>1, <2>4 DEF PartnerInv, LinksMeant, RequestNoted
  <1>2. CASE \E c \in s3 : Partner!CreateWrite(c) \/ Partner!WriteCommit(c)
    BY <1>2, CreateKeeps, CommitKeeps
  <1>3. CASE \E l \in s1, u \in Users, kind \in {"accept", "remove"} :
               Partner!WriteRead(kind, l, u, TRUE, "diaries")
    BY <1>3, WriteReadKeeps DEF Partner!Resources
  <1>4. CASE \E l \in s1, u \in Users, on \in BOOLEAN, r \in Partner!Resources :
               Partner!WriteRead("share", l, u, on, r)
    BY <1>4, WriteReadKeeps
  <1>5. CASE \/ \E v \in Users, r \in Partner!Resources : Partner!Ask(v, r)
             \/ Partner!loadCompareContext \/ Partner!CheckSharing \/ Partner!Fetch
             \/ Partner!Done
    BY <1>5, RequestKeeps
  <1>6. CASE UNCHANGED Partner!vars
    BY <1>6 DEF Partner!vars, PartnerInv, LinkTypes, LinksMeant, RequestNoted
  <1> QED
    BY <1>1, <1>2, <1>3, <1>4, <1>5, <1>6 DEF Partner!Next

LEMMA PartnerHonours == PartnerInv => Partner!ConsentHonoured
  BY DEF PartnerInv, RequestNoted, Partner!ConsentHonoured

-----------------------------------------------------------------------------
(* The partners page. *)

LEMMA NoneIsRow ==
  /\ PartnerPage!None \in ItemRow /\ PartnerPage!None.status = "none"
  /\ PartnerPage!None.shares = {}
  /\ \A status \in PartnerPage!Statuses, shares \in SUBSET Fields :
       PartnerPage!Row(status, shares) \in ItemRow
  /\ PartnerPage!Nothing \in [Items -> ItemRow]
  BY DEF PartnerPage!None, PartnerPage!Row, PartnerPage!Statuses, PartnerPage!Nothing, ItemRow

LEMMA PageStarts == PartnerPage!Init => PageInv
  <1> SUFFICES ASSUME PartnerPage!Init PROVE PageInv
    OBVIOUS
  <1> DEFINE q == [kind |-> "load", phase |-> "sent", item |-> 0]
  <1>1. s4 = {q} /\ s5 = {} /\ s1 \in {"links", "keys"} /\ s3 = PartnerPage!Nothing
    BY DEF PartnerPage!Init
  <1>2. q \in ListRequest /\ q.item = 0 /\ q.phase = "sent"
    BY DEF ListRequest
  <1> HIDE DEF q
  <1>3. s2 \in [Items -> ItemRow]
    <2>1. /\ PartnerPage!Row("active", {}) \in ItemRow
          /\ PartnerPage!Row("pending_incoming", {}) \in ItemRow
          /\ PartnerPage!Row("connected", Fields) \in ItemRow
          /\ PartnerPage!None \in ItemRow
      BY NoneIsRow DEF PartnerPage!Statuses
    <2> QED
      BY <2>1 DEF PartnerPage!Init
  <1>4. PageTypes
    BY <1>1, <1>2, <1>3, NoneIsRow DEF PageTypes
  <1>5. \A i \in Items : Undisputed(i)
    BY <1>1, <1>2 DEF Undisputed, Knows
  <1> QED
    BY <1>4, <1>5 DEF PageInv

\* What the two kinds of requests are.
LEMMA RequestIs ==
  ASSUME PageTypes, NEW q \in s4
  PROVE  \/ q \in ListRequest /\ q.kind = "load" /\ q.item = 0
         \/ q \in ItemRequest /\ q.kind # "load" /\ q.item \in Items /\ q.item # 0
  BY RecordsAssumption DEF PageTypes, ListRequest, ItemRequest

\* The user operates on an item that nothing is under way about.
LEMMA OperateKeeps ==
  ASSUME PageInv,
         NEW kind \in PartnerPage!Kinds \ {"load"}, NEW i \in Items,
         NEW asked \in SUBSET Fields, NEW row \in ItemRow, NEW was \in [Items -> ItemRow],
         PartnerPage!Operate(kind, i, asked, row, was),
         s3[i] = s2[i] => /\ kind \in {"create", "accept"} => row = s3[i]
                          /\ kind \in {"share", "remove", "revoke"} => was = s3,
         kind = "remove" => row = PartnerPage!None,
         kind = "revoke" => row = PartnerPage!Row("revoked", {})
  PROVE  PageInv'
  <1> DEFINE n == PartnerPage!Request(kind, i, asked, was)
  <1>1. /\ n \in ItemRequest /\ n.kind = kind /\ n.phase = "sent" /\ n.item = i
        /\ n.was = was
    BY NoneIsRow DEF PartnerPage!Request, ItemRequest
  <1>2. s4' = s4 \cup {n} /\ s3' = [s3 EXCEPT ![i] = row] /\ s1' = s1 /\ s2' = s2
    BY DEF PartnerPage!Operate
  <1>3. s5' = IF \E q \in s4 : q.item \in {0, i} THEN s5 \union {i} ELSE s5
    BY DEF PartnerPage!Operate
  <1> HIDE DEF n
  <1>4. PageTypes'
    BY <1>1, <1>2, <1>3 DEF PageInv, PageTypes
  <1>5. ASSUME NEW j \in Items \ s5'
        PROVE  Undisputed(j)'
    <2>1. j \in Items \ s5 /\ s2'[j] = s2[j]
      BY <1>2, <1>3
    <2>2. Undisputed(j)
      BY <2>1 DEF PageInv
    <2>3. i # 0 /\ j # 0
      BY RecordsAssumption
    <2>4. CASE j # i
      <3>1. s3'[j] = s3[j]
        BY <1>2, <2>4 DEF PageInv, PageTypes
      <3>2. \A q : q \in s4' /\ q.item \in {0, j} <=> q \in s4 /\ q.item \in {0, j}
        BY <1>1, <1>2, <2>3, <2>4
      <3>3. \A q : Knows(q, j)' <=> Knows(q, j)
        BY <2>1, <3>1, <1>2 DEF Knows
      <3> QED
        BY <2>1, <2>2, <3>1, <3>2, <3>3 DEF Undisputed
    <2>5. CASE j = i
      <3>1. ~\E q \in s4 : q.item \in {0, i}
        BY <1>3, <2>5
      <3>2. s3[i] = s2[i]
        BY <2>2, <2>5, <3>1 DEF Undisputed
      <3>3. s3'[i] = row
        BY <1>2 DEF PageInv, PageTypes
      <3>4. Knows(n, i)'
        BY <1>1, <1>2, <2>3, <3>2, <3>3 DEF Knows
      <3>5. \A q \in s4' : q.item \in {0, i} => q = n
        BY <1>2, <3>1
      <3>6. n \in s4' /\ n.item \in {0, i}
        BY <1>1, <1>2
      <3> QED
        BY <2>5, <3>4, <3>5, <3>6 DEF Undisputed
    <2> QED
      BY <2>4, <2>5
  <1> QED
    BY <1>4, <1>5 DEF PageInv

LEMMA UserKeeps ==
  ASSUME PageInv, NEW i \in Items,
         \/ PartnerPage!Create(i) \/ PartnerPage!acceptLink(i) \/ PartnerPage!removeLink(i)
         \/ PartnerPage!revokeKey(i) \/ \E f \in Fields : PartnerPage!toggleSharingField(i, f)
  PROVE  PageInv'
  <1>1. s2 \in [Items -> ItemRow] /\ s3 \in [Items -> ItemRow]
    BY DEF PageInv, PageTypes
  <1> USE DEF PartnerPage!Kinds
  <1>2. CASE PartnerPage!Create(i)
    <2>1. /\ PartnerPage!Operate("create", i, {}, PartnerPage!None, PartnerPage!Nothing)
          /\ s3[i] = PartnerPage!None
      BY <1>2 DEF PartnerPage!Create
    <2> QED
      BY <1>1, <2>1, NoneIsRow, OperateKeeps
  <1>3. CASE PartnerPage!acceptLink(i)
    <2>1. PartnerPage!Operate("accept", i, {}, s3[i], PartnerPage!Nothing)
      BY <1>3 DEF PartnerPage!acceptLink
    <2> QED
      BY <1>1, <2>1, NoneIsRow, OperateKeeps
  <1>4. CASE PartnerPage!removeLink(i)
    <2>1. PartnerPage!Operate("remove", i, {}, PartnerPage!None, s3)
      BY <1>4 DEF PartnerPage!removeLink
    <2> QED
      BY <1>1, <2>1, NoneIsRow, OperateKeeps
  <1>5. CASE PartnerPage!revokeKey(i)
    <2>1. PartnerPage!Operate("revoke", i, {}, PartnerPage!Row("revoked", {}), s3)
      BY <1>5 DEF PartnerPage!revokeKey
    <2>2. PartnerPage!Row("revoked", {}) \in ItemRow
      BY NoneIsRow DEF PartnerPage!Statuses
    <2> QED
      BY <1>1, <2>1, <2>2, OperateKeeps
  <1>6. CASE \E f \in Fields : PartnerPage!toggleSharingField(i, f)
    <2>1. PICK f \in Fields : PartnerPage!toggleSharingField(i, f)
      BY <1>6
    <2> DEFINE shares == IF f \in s3[i].shares THEN s3[i].shares \ {f} ELSE s3[i].shares \union {f}
               row == [s3[i] EXCEPT !.shares = shares]
    <2>2. PartnerPage!Operate("share", i, {f}, row, s3)
      BY <2>1 DEF PartnerPage!toggleSharingField
    <2>3. row \in ItemRow
      BY <1>1 DEF ItemRow
    <2> HIDE DEF row
    <2> QED
      BY <1>1, <2>2, <2>3, OperateKeeps
  <1> QED
    BY <1>2, <1>3, <1>4, <1>5, <1>6

\* What the server makes of a request is what the page showed for it, where it
\* shows something else than before.
LEMMA ServedIs ==
  ASSUME PageTypes, NEW q \in s4, q \in ItemRequest, q.phase = "sent", q.kind # "load",
         PartnerPage!Possible(q)
  PROVE  /\ PartnerPage!Result(q) \in ItemRow
         /\ q.kind = "remove" => PartnerPage!Result(q) = PartnerPage!None
         /\ q.kind = "revoke" => PartnerPage!Result(q) = PartnerPage!Row("revoked", {})
  <1>1. /\ q.kind \in PartnerPage!Kinds \ {"load"} /\ q.item \in Items
        /\ q.asked \subseteq Fields /\ s2[q.item] \in ItemRow
    BY DEF ItemRequest, PageTypes
  <1>2. CASE q.kind = "create"
    BY <1>2, NoneIsRow DEF PartnerPage!Result, PartnerPage!Statuses
  <1>3. CASE q.kind = "accept"
    BY <1>1, <1>3 DEF PartnerPage!Result, PartnerPage!Statuses, ItemRow
  <1>4. CASE q.kind = "share"
    <2>1. PartnerPage!Wanted(q) \subseteq Fields
      BY <1>1 DEF PartnerPage!Wanted, ItemRow
    <2> QED
      BY <1>1, <1>4, <2>1 DEF PartnerPage!Result, ItemRow
  <1>5. CASE q.kind = "remove"
    BY <1>5, NoneIsRow DEF PartnerPage!Result
  <1>6. CASE q.kind = "revoke"
    BY <1>6, NoneIsRow DEF PartnerPage!Result, PartnerPage!Statuses
  <1> QED
    BY <1>1, <1>2, <1>3, <1>4, <1>5, <1>6 DEF PartnerPage!Kinds

LEMMA ServeKeeps ==
  ASSUME PageInv, NEW q \in s4, PartnerPage!Serve(q)
  PROVE  PageInv'
  <1>7. PICK res : res = PartnerPage!Result(q)
    OBVIOUS
  <1>8. PICK n : n = [q EXCEPT !.phase = "served", !.answer = res]
    OBVIOUS
  <1>1. /\ q.phase = "sent" /\ q.kind # "load" /\ PartnerPage!Possible(q)
        /\ s2' = [s2 EXCEPT ![q.item] = res]
        /\ s4' = (s4 \ {q}) \cup {n}
        /\ UNCHANGED <<s1, s3, s5>>
    BY <1>7, <1>8 DEF PartnerPage!Serve
  <1>2. q \in ItemRequest /\ q.item \in Items /\ q.item # 0
    BY <1>1, RequestIs DEF PageInv
  <1>3. /\ res \in ItemRow /\ (q.kind = "remove" => res = PartnerPage!None)
        /\ (q.kind = "revoke" => res = PartnerPage!Row("revoked", {}))
    BY <1>1, <1>2, <1>7, ServedIs DEF PageInv
  <1>4. /\ n \in ItemRequest /\ n.item = q.item /\ n.kind = q.kind /\ n.phase = "served"
        /\ n.answer = res
    BY <1>2, <1>3, <1>8 DEF ItemRequest
  <1>5. PageTypes'
    BY <1>1, <1>2, <1>3, <1>4 DEF PageInv, PageTypes
  <1>6. ASSUME NEW j \in Items \ s5'
        PROVE  Undisputed(j)'
    <2>1. Undisputed(j) /\ s3'[j] = s3[j] /\ j # 0
      BY <1>1, RecordsAssumption DEF PageInv
    <2>2. CASE j # q.item
      <3>1. s2'[j] = s2[j]
        BY <1>1, <2>2 DEF PageInv, PageTypes
      <3>2. \A p : p \in s4' /\ p.item \in {0, j} <=> p \in s4 /\ p.item \in {0, j}
        BY <1>1, <1>2, <1>4, <2>2
      <3>3. \A p : Knows(p, j)' <=> Knows(p, j)
        BY <2>1, <3>1 DEF Knows
      <3> QED
        BY <2>1, <3>1, <3>2, <3>3 DEF Undisputed
    <2>3. CASE j = q.item
      <3>1. \A p \in s4 : p.item \in {0, j} => p = q
        BY <2>1, <2>3 DEF Undisputed
      <3>2. Knows(q, j)
        BY <2>1, <2>3 DEF Undisputed
      <3>3. s2'[j] = res
        BY <1>1, <2>3 DEF PageInv, PageTypes
      <3>4. Knows(n, j)'
        BY <1>1, <1>2, <1>3, <1>4, <2>1, <3>2, <3>3 DEF Knows
      <3>5. n \in s4' /\ n.item \in {0, j} /\ \A p \in s4' : p.item \in {0, j} => p = n
        BY <1>1, <1>4, <2>3, <3>1
      <3> QED
        BY <3>4, <3>5 DEF Undisputed
    <2> QED
      BY <2>2, <2>3
  <1> QED
    BY <1>5, <1>6 DEF PageInv

LEMMA ServeLoadKeeps ==
  ASSUME PageInv, NEW q \in s4, PartnerPage!ServeLoad(q)
  PROVE  PageInv'
  <1>6. PICK n : n = [kind |-> "load", phase |-> "served", item |-> 0, answer |-> s2]
    OBVIOUS
  <1>1. /\ q.kind = "load" /\ s4' = (s4 \ {q}) \cup {n} /\ UNCHANGED <<s1, s2, s3, s5>>
    BY <1>6 DEF PartnerPage!ServeLoad
  <1>2. n \in ListRequest /\ n.item = 0 /\ n.answer = s2
    BY <1>6 DEF ListRequest, PageInv, PageTypes
  <1>3. q.item = 0
    BY <1>1, RequestIs DEF PageInv
  <1>4. PageTypes'
    BY <1>1, <1>2 DEF PageInv, PageTypes
  <1>5. ASSUME NEW j \in Items \ s5'
        PROVE  Undisputed(j)'
    <2>1. Undisputed(j)
      BY <1>1 DEF PageInv
    <2>2. \A p \in s4 : p.item \in {0, j} => p = q
      BY <1>3, <2>1 DEF Undisputed
    <2>3. n \in s4' /\ n.item \in {0, j} /\ \A p \in s4' : p.item \in {0, j} => p = n
      BY <1>1, <1>2, <2>2
    <2>4. Knows(n, j)'
      BY <1>1, <1>2 DEF Knows
    <2> QED
      BY <2>3, <2>4 DEF Undisputed
  <1> QED
    BY <1>4, <1>5 DEF PageInv

\* A request is over, of success or not.
LEMMA EndedKeeps ==
  ASSUME PageInv, NEW q \in s4, s4' = s4 \ {q}, s1' = s1, s2' = s2,
         s3' \in [Items -> ItemRow], s5 \subseteq s5', s5' \subseteq Items,
         \A i \in Items \ s5' : q.item \notin {0, i} => s3'[i] = s3[i],
         \A i \in Items \ s5' : q.item \in {0, i} => s3'[i] = s2[i]
  PROVE  PageInv'
  <1>1. PageTypes'
    BY DEF PageInv, PageTypes
  <1>2. ASSUME NEW j \in Items \ s5'
        PROVE  Undisputed(j)'
    <2>1. Undisputed(j)
      BY DEF PageInv
    <2>2. CASE q.item \in {0, j}
      <3>1. ~\E p \in s4' : p.item \in {0, j}
        BY <2>1, <2>2 DEF Undisputed
      <3> QED
        BY <2>2, <3>1 DEF Undisputed
    <2>3. CASE q.item \notin {0, j}
      <3>1. s3'[j] = s3[j] /\ s2'[j] = s2[j]
        BY <2>3
      <3>2. \A p : p \in s4' /\ p.item \in {0, j} <=> p \in s4 /\ p.item \in {0, j}
        BY <2>3
      <3>3. \A p : Knows(p, j)' <=> Knows(p, j)
        BY <3>1 DEF Knows
      <3> QED
        BY <2>1, <3>1, <3>2, <3>3 DEF Undisputed
    <2> QED
      BY <2>2, <2>3
  <1> QED
    BY <1>1, <1>2 DEF PageInv

\* What the request about an item that is undisputed knows.
LEMMA TheRequest ==
  ASSUME PageInv, NEW q \in s4, NEW i \in Items \ s5, q.item \in {0, i}
  PROVE  Knows(q, i)
  BY DEF PageInv, Undisputed

LEMMA AnswersKeep ==
  ASSUME PageInv, NEW q \in s4, PartnerPage!ShowLoad(q) \/ PartnerPage!Done(q)
  PROVE  PageInv'
  <1>1. s4' = s4 \ {q} /\ s1' = s1 /\ s2' = s2 /\ s5' = s5 /\ q.phase = "served"
    BY DEF PartnerPage!ShowLoad, PartnerPage!Done
  <1>2. s3 \in [Items -> ItemRow] /\ s5 \subseteq Items
    BY DEF PageInv, PageTypes
  <1>3. CASE PartnerPage!ShowLoad(q)
    <2>1. s3' = q.answer /\ q.kind = "load"
      BY <1>3 DEF PartnerPage!ShowLoad
    <2>2. q.item = 0 /\ q.answer \in [Items -> ItemRow]
      BY <1>1, <2>1, RequestIs DEF PageInv, ListRequest
    <2>3. \A i \in Items \ s5 : s3'[i] = s2[i]
      BY <1>1, <2>1, <2>2, TheRequest DEF Knows
    <2> QED
      BY <1>1, <1>2, <2>1, <2>2, <2>3, EndedKeeps
  <1>4. CASE PartnerPage!Done(q)
    <2>1. /\ q.kind # "load"
          /\ s3' = IF q.kind \in {"remove", "revoke"} THEN s3 ELSE [s3 EXCEPT ![q.item] = q.answer]
      BY <1>4 DEF PartnerPage!Done
    <2>2. q.item \in Items /\ q.item # 0 /\ q.answer \in ItemRow
      BY <2>1, RequestIs DEF PageInv, ItemRequest
    <2>3. s3' \in [Items -> ItemRow] /\ \A i \in Items : i # q.item => s3'[i] = s3[i]
      BY <1>2, <2>1, <2>2
    <2>4. ASSUME NEW i \in Items \ s5', q.item \in {0, i}
          PROVE  s3'[i] = s2[i]
      <3>1. i = q.item /\ Knows(q, i)
        BY <1>1, <2>2, <2>4, TheRequest
      <3> QED
        BY <1>1, <1>2, <2>1, <2>2, <3>1 DEF Knows
    <2>5. \A i \in Items \ s5' : q.item \notin {0, i} => s3'[i] = s3[i]
      BY <2>3
    <2> QED
      BY <1>1, <1>2, <2>3, <2>4, <2>5, EndedKeeps
  <1> QED
    BY <1>3, <1>4

LEMMA FailsKeeps ==
  ASSUME PageInv, NEW q \in s4, PartnerPage!Fails(q)
  PROVE  PageInv'
  <1> DEFINE back == PartnerPage!Rollback(q)
  <1>1. /\ s4' = s4 \ {q} /\ s1' = s1 /\ s2' = s2 /\ s3' = back
        /\ s5' = s5 \union (IF q.kind = "load" THEN Items ELSE {})
                    \union (IF q.phase = "served" THEN {q.item} \ {0} ELSE {})
                    \union (IF q.kind = "share" THEN {}
                            ELSE {i \in Items : s3'[i] # s3[i]} \ {q.item})
    BY DEF PartnerPage!Fails
  <1>2. s3 \in [Items -> ItemRow] /\ s5 \subseteq Items
    BY DEF PageInv, PageTypes
  <1>3. CASE q.kind = "load"
    <2>1. s3' = s3 /\ q.item = 0
      BY <1>1, <1>3, RequestIs DEF PartnerPage!Rollback, PageInv
    <2>2. Items \subseteq s5'
      BY <1>1, <1>3
    <2>3. s5 \subseteq s5' /\ s5' \subseteq Items
      BY <1>1, <1>2, <2>1
    <2> QED
      BY <1>1, <1>2, <2>1, <2>2, <2>3, EndedKeeps
  <1>4. CASE q.kind # "load"
    <2>1. /\ q \in ItemRequest /\ q.item \in Items /\ q.item # 0
      BY <1>4, RequestIs DEF PageInv
    <2>2. /\ q.was \in [Items -> ItemRow] /\ q.phase \in {"sent", "served"}
          /\ q.kind \in PartnerPage!Kinds \ {"load"}
      BY <2>1 DEF ItemRequest
    <2>3. /\ q.kind = "share" => s3' = [s3 EXCEPT ![q.item] = q.was[q.item]]
          /\ q.kind \in {"remove", "revoke"} => s3' = q.was
          /\ q.kind \notin {"share", "remove", "revoke"} => s3' = s3
      BY <1>1 DEF PartnerPage!Rollback
    <2>4. s3' \in [Items -> ItemRow]
      BY <1>2, <2>1, <2>2, <2>3
    <2>5. s5 \subseteq s5' /\ s5' \subseteq Items
      BY <1>1, <1>2, <1>4, <2>1
    <2>6. ASSUME NEW i \in Items \ s5', q.item \notin {0, i}
          PROVE  s3'[i] = s3[i]
      <3>1. CASE q.kind = "share"
        BY <1>2, <2>1, <2>3, <2>6, <3>1
      <3>2. CASE q.kind # "share"
        BY <1>1, <2>6, <3>2
      <3> QED
        BY <3>1, <3>2
    <2>7. ASSUME NEW i \in Items \ s5', q.item \in {0, i}
          PROVE  s3'[i] = s2[i]
      <3>1. i = q.item /\ q.phase = "sent" /\ i \notin s5
        BY <1>1, <2>1, <2>2, <2>7
      <3>2. Knows(q, i)
        BY <3>1, TheRequest
      <3>3. /\ q.kind \in {"create", "accept"} => s3[i] = s2[i]
            /\ q.kind \in {"share", "remove", "revoke"} => q.was[i] = s2[i]
        BY <2>1, <3>1, <3>2 DEF Knows
      <3> QED
        BY <1>2, <2>2, <2>3, <3>1, <3>3 DEF PartnerPage!Kinds
    <2> QED
      BY <1>1, <2>4, <2>5, <2>6, <2>7, EndedKeeps
  <1> QED
    BY <1>3, <1>4

LEMMA PageKeeps ==
  ASSUME PageInv, PartnerPage!Next \/ UNCHANGED PartnerPage!vars
  PROVE  PageInv'
  <1>1. CASE UNCHANGED PartnerPage!vars
    BY <1>1 DEF PartnerPage!vars, PageInv, PageTypes, Undisputed, Knows
  <1> QED
    BY <1>1, UserKeeps, ServeKeeps, ServeLoadKeeps, AnswersKeep, FailsKeeps DEF PartnerPage!Next

LEMMA PageShows == PageInv => PartnerPage!PageIsTrue
  BY DEF PageInv, Undisputed, PartnerPage!PageIsTrue

-----------------------------------------------------------------------------
(* The editor. *)

LEMMA EditorStarts == Editor!Init => EditorInv /\ LookupFollowed
  <1> SUFFICES ASSUME NEW d \in DiaryDates, NEW kind \in Editor!Kinds,
                      s1 = [kind |-> kind, phase |-> "loading"], s4 = Editor!Empty,
                      s5 \in {d, Editor!None}, s6 = FALSE, s7 = d, s8 = Editor!None,
                      s9 = FALSE, s13 = FALSE,
                      s11 = IF kind = "edit" THEN {}
                            ELSE {[token |-> 1, date |-> d, initial |-> TRUE, preserve |-> FALSE]},
                      s12 = IF kind = "edit" THEN 0 ELSE 1, s15 = d
               PROVE  EditorInv /\ LookupFollowed
    BY DEF Editor!Init
  <1>1. CASE kind = "edit"
    <2>1. EditorInv
      BY <1>1 DEF EditorInv, Editor!Empty, Editor!Typed
    <2>2. LookupFollowed
      BY <1>1 DEF LookupFollowed, Editor!checkingDate
    <2> QED
      BY <2>1, <2>2
  <1>2. CASE kind # "edit"
    <2> DEFINE l == [token |-> 1, date |-> d, initial |-> TRUE, preserve |-> FALSE]
    <2>1. s11 = {l} /\ s12 = 1
      BY <1>2
    <2>2. /\ l \in [token : Nat, date : DiaryDates, initial : BOOLEAN, preserve : BOOLEAN]
          /\ l.token = 1 /\ l.date = d
      OBVIOUS
    <2> HIDE DEF l
    <2>3. EditorInv
      BY <1>2, <2>1, <2>2 DEF EditorInv, Editor!Empty, Editor!Typed
    <2>4. LookupFollowed
      BY <2>1 DEF LookupFollowed, Editor!checkingDate
    <2> QED
      BY <2>3, <2>4
  <1> QED
    BY <1>1, <1>2

\* A date or a mark is none of the others.
LEMMA MarksDiffer ==
  /\ Editor!Typed \notin DiaryDates /\ Editor!Empty \notin DiaryDates /\ Editor!None \notin DiaryDates
  /\ Editor!Typed # Editor!Empty /\ Editor!Typed # Editor!None
  BY RecordsAssumption DEF Editor!Typed, Editor!Empty, Editor!None

\* A lookup is asked for, by a page that is open.
LEMMA LookupKeeps ==
  ASSUME EditorInv, NEW d \in DiaryDates, NEW preserve \in BOOLEAN,
         Editor!Lookup(d, FALSE, preserve), s1.phase = "open",
         UNCHANGED <<s1, s4, s7, s8, s13>>
  PROVE  EditorInv'
  <1> DEFINE n == [token |-> s12 + 1, date |-> d, initial |-> FALSE, preserve |-> preserve]
             all12 == s12 + 1
  <1>1. s11' = s11 \cup {n} /\ s12' = s12 + 1 /\ s15' = d
    BY DEF Editor!Lookup
  <1>2. s12 \in Nat
    BY DEF EditorInv
  <1>3. /\ n \in [token : Nat, date : DiaryDates, initial : BOOLEAN, preserve : BOOLEAN]
        /\ n.token = s12 + 1 /\ n.date = d /\ ~n.initial
    BY <1>2
  <1> HIDE DEF n
  <1>4. \A l \in s11 : l.token \in Nat /\ l.token <= s12
    BY DEF EditorInv
  <1>5. \A l \in s11' : l.token <= s12' /\ (l.token = s12' => l.date = s15')
    BY <1>1, <1>2, <1>3, <1>4
  <1> QED
    BY <1>1, <1>2, <1>3, <1>5 DEF EditorInv

\* A lookup has ended.
LEMMA EndedLookupKeeps ==
  ASSUME EditorInv, NEW l \in s11, Editor!Ended(l),
         s7' \in DiaryDates, s8' \in DiaryDates \cup {Editor!None}, s4' \in {s4, Editor!Empty}
  PROVE  EditorInv'
  <1>1. /\ s11' = s11 \ {l} /\ UNCHANGED <<s12, s13, s15>>
        /\ s1' = IF l.initial THEN [s1 EXCEPT !.phase = IF @ = "loading" THEN "open" ELSE @]
                 ELSE s1
    BY DEF Editor!Ended
  <1>2. s1 \in [kind : Editor!Kinds, phase : {"loading", "open", "left"}]
    BY DEF EditorInv
  <1>3. /\ s1' \in [kind : Editor!Kinds, phase : {"loading", "open", "left"}]
        /\ s1'.kind = s1.kind
        /\ s1'.phase = IF l.initial /\ s1.phase = "loading" THEN "open" ELSE s1.phase
    BY <1>1, <1>2
  <1>4. s1'.phase # "left" => s4' # Editor!Typed
    BY <1>3, MarksDiffer DEF EditorInv
  <1>5. \A m \in s11' : m.initial => s1'.phase = "loading"
    BY <1>1, <1>3 DEF EditorInv
  <1> QED
    BY <1>1, <1>3, <1>4, <1>5 DEF EditorInv

\* The answers: the draft is replaced by the one that was confirmed only.
LEMMA LookupAnswers ==
  ASSUME EditorInv, NEW l \in s11,
         \/ Editor!Found(l) \/ Editor!LookupFails(l) \/ Editor!LookupUnauthorised(l)
         \/ \E confirmed \in BOOLEAN : Editor!Free(l, confirmed)
  PROVE  EditorInv' /\ Editor!KeepsDraft
  <1> USE DEF Editor!controller
  <1>1. l.date \in DiaryDates /\ s7 \in DiaryDates /\ s8 \in DiaryDates \cup {Editor!None}
    BY DEF EditorInv
  <1>2. CASE Editor!Found(l) \/ Editor!LookupFails(l) \/ Editor!LookupUnauthorised(l)
    <2>1. /\ Editor!Ended(l) /\ s4' = s4 /\ s3' = s3
          /\ s7' \in DiaryDates /\ s8' \in DiaryDates \cup {Editor!None}
      BY <1>1, <1>2 DEF Editor!Found, Editor!LookupFails, Editor!LookupUnauthorised
    <2> QED
      BY <2>1, EndedLookupKeeps DEF Editor!KeepsDraft
  <1>3. CASE \E confirmed \in BOOLEAN : Editor!Free(l, confirmed)
    <2>1. PICK confirmed \in BOOLEAN : Editor!Free(l, confirmed)
      BY <1>3
    <2>2. /\ Editor!Ended(l) /\ s4' \in {s4, Editor!Empty}
          /\ s7' \in DiaryDates /\ s8' \in DiaryDates \cup {Editor!None}
      BY <1>1, <2>1 DEF Editor!Free
    <2>3. EditorInv'
      BY <2>2, EndedLookupKeeps
    <2>4. Editor!KeepsDraft
      <3> SUFFICES ASSUME s1.phase = "open", s3 = Editor!Typed, s3' # Editor!Typed
                   PROVE  /\ Editor!Free(l, TRUE) /\ ~Editor!Free(l, FALSE)
                          /\ ~l.initial /\ ~l.preserve /\ l.date = s15
        BY DEF Editor!KeepsDraft
      <3>1. s3' # s3
        OBVIOUS
      <3>2. /\ Editor!IsLatest(l) /\ ~l.preserve /\ ~(Editor!MustAsk(l) /\ ~confirmed)
        BY <2>1, <3>1 DEF Editor!Free
      <3>3. ~l.initial /\ s4 # Editor!Typed
        BY DEF EditorInv
      <3>4. Editor!MustAsk(l)
        BY <3>3 DEF Editor!MustAsk, Editor!isContentDirty
      <3>5. confirmed = TRUE
        BY <3>2, <3>4
      <3>6. ~Editor!Free(l, FALSE)
        BY <3>1, <3>2, <3>4 DEF Editor!Free
      <3>7. l.date = s15
        BY <3>2 DEF Editor!IsLatest, EditorInv
      <3> QED
        BY <2>1, <3>2, <3>3, <3>5, <3>6, <3>7
    <2> QED
      BY <2>3, <2>4
  <1> QED
    BY <1>2, <1>3

LEMMA EditorKeeps ==
  ASSUME EditorInv, Editor!Next \/ UNCHANGED Editor!vars
  PROVE  EditorInv' /\ Editor!KeepsDraft
  <1> USE DEF Editor!controller
  <1>0. s1 \in [kind : Editor!Kinds, phase : {"loading", "open", "left"}]
    BY DEF EditorInv
  <1>1. ASSUME NEW d \in DiaryDates, Editor!Hydrate(d)
        PROVE  EditorInv' /\ Editor!KeepsDraft
    <2>1. /\ s1.kind = "edit" /\ s1.phase = "loading" /\ s1' = [s1 EXCEPT !.phase = "open"]
          /\ s4' = d /\ s7' = d /\ s8' = Editor!None /\ UNCHANGED <<s11, s12>> /\ s15' = d
      BY <1>1 DEF Editor!Hydrate
    <2>2. s11 = {}
      BY <2>1 DEF EditorInv
    <2>3. /\ s1' \in [kind : Editor!Kinds, phase : {"loading", "open", "left"}]
          /\ s1'.phase = "open"
      BY <1>0, <2>1
    <2> QED
      BY <2>1, <2>2, <2>3, MarksDiffer DEF EditorInv, Editor!KeepsDraft
  <1>2. ASSUME NEW d \in DiaryDates, Editor!ChangeDate(d)
        PROVE  EditorInv' /\ Editor!KeepsDraft
    <2>1. s3' = s3 /\ UNCHANGED <<s1, s4, s7, s8, s13>> /\ s1.phase = "open"
      BY <1>2 DEF Editor!ChangeDate, Editor!FormShown
    <2>2. CASE UNCHANGED <<s11, s12, s15>>
      BY <2>1, <2>2 DEF EditorInv, Editor!KeepsDraft
    <2>3. CASE Editor!Lookup(d, FALSE, FALSE)
      BY <2>1, <2>3, LookupKeeps DEF Editor!KeepsDraft
    <2> QED
      BY <1>2, <2>2, <2>3 DEF Editor!ChangeDate
  <1>3. CASE \E l \in s11 :
               \/ Editor!Found(l) \/ Editor!LookupFails(l) \/ Editor!LookupUnauthorised(l)
               \/ \E confirmed \in BOOLEAN : Editor!Free(l, confirmed)
    BY <1>3, LookupAnswers
  <1>4. CASE Editor!Retry
    <2>1. s3' = s3 /\ UNCHANGED <<s1, s4, s7, s8, s13>> /\ s1.phase = "open"
      BY <1>4 DEF Editor!Retry
    <2> QED
      BY <1>4, <2>1, LookupKeeps DEF Editor!Retry, Editor!KeepsDraft, EditorInv
  <1>5. CASE Editor!Cancel
    BY <1>5 DEF Editor!Cancel, EditorInv, Editor!KeepsDraft
  <1>6. CASE Editor!Edit
    <2>1. Editor!KeepsDraft
      BY <1>6 DEF Editor!KeepsDraft
    <2>2. s8 \in DiaryDates /\ s4' = s8 /\ s7' = s8 /\ s8' = Editor!None
          /\ UNCHANGED <<s1, s11, s12, s13, s15>>
      BY <1>6 DEF Editor!Edit, EditorInv
    <2> QED
      BY <2>1, <2>2, MarksDiffer DEF EditorInv
  <1>7. CASE Editor!AppendToIt
    BY <1>7 DEF Editor!AppendToIt, EditorInv, Editor!KeepsDraft
  <1>8. CASE Editor!Types \/ Editor!Copy \/ (\E found \in BOOLEAN : Editor!CopyEnds(found))
             \/ Editor!Save
    <2>1. /\ UNCHANGED <<s1, s4, s7, s8, s11, s12, s15>> /\ s3' \in {s3, Editor!Typed}
          /\ s13' => s13 \/ s1.phase = "open"
      BY <1>8 DEF Editor!Types, Editor!Copy, Editor!CopyEnds, Editor!Save, Editor!FormShown
    <2> QED
      BY <2>1 DEF EditorInv, Editor!KeepsDraft
  <1>9. CASE (\E ok \in BOOLEAN : Editor!SaveEnds(ok)) \/ Editor!Leave
    <2>1. /\ s3' = s3 /\ UNCHANGED <<s7, s8, s11, s12, s15>> /\ (s13' => s13)
          /\ s1.phase # "loading"
          /\ \/ UNCHANGED <<s1, s4>>
             \/ s1' = [s1 EXCEPT !.phase = "left"]
      BY <1>9 DEF Editor!SaveEnds, Editor!Leave, EditorInv
    <2>2. CASE UNCHANGED <<s1, s4>>
      BY <2>1, <2>2 DEF EditorInv, Editor!KeepsDraft
    <2>3. CASE s1' = [s1 EXCEPT !.phase = "left"]
      <3>1. /\ s1' \in [kind : Editor!Kinds, phase : {"loading", "open", "left"}]
            /\ s1'.phase = "left"
        BY <1>0, <2>3
      <3>2. ~\E l \in s11 : l.initial
        BY <2>1 DEF EditorInv
      <3> QED
        BY <2>1, <3>1, <3>2 DEF EditorInv, Editor!KeepsDraft
    <2> QED
      BY <2>1, <2>2, <2>3
  <1>10. CASE UNCHANGED Editor!vars
    BY <1>10 DEF Editor!vars, EditorInv, Editor!KeepsDraft
  <1> QED
    BY <1>1, <1>2, <1>3, <1>4, <1>5, <1>6, <1>7, <1>8, <1>9, <1>10 DEF Editor!Next
\* A new lookup is the latest, and asks anew.
LEMMA LookupAsked ==
  ASSUME EditorInv, LookupFollowed, NEW d \in DiaryDates, NEW preserve \in BOOLEAN,
         Editor!Lookup(d, FALSE, preserve), s8 = Editor!None, s9' = FALSE,
         UNCHANGED <<s5, s6, s7, s8>>
  PROVE  LookupFollowed'
  <1> DEFINE n == [token |-> s12 + 1, date |-> d, initial |-> FALSE, preserve |-> preserve]
  <1>1. s11' = s11 \cup {n} /\ s12' = s12 + 1
    BY DEF Editor!Lookup
  <1> HIDE DEF n
  <1>2. \A l \in s11 : l.token # s12 + 1
    BY DEF EditorInv
  <1>3. \A l, m \in s11' : l.token = s12' /\ m.token = s12' => l = m
    BY <1>1, <1>2
  <1> QED
    BY <1>3 DEF LookupFollowed

\* An answer ends the check, if it is the latest one's.
LEMMA LookupAnswered ==
  ASSUME EditorInv, LookupFollowed, NEW l \in s11, Editor!Ended(l)
  PROVE  /\ s12' = s12 /\ s15' = s15 /\ s11' \subseteq s11
         /\ \A k, m \in s11' : k.token = s12' /\ m.token = s12' => k = m
         /\ ~Editor!checkingDate => ~Editor!checkingDate'
         /\ Editor!IsLatest(l) => l.date = s15 /\ ~Editor!checkingDate' /\ Editor!checkingDate
  <1>1. s11' = s11 \ {l} /\ s12' = s12 /\ s15' = s15
    BY DEF Editor!Ended
  <1>2. Editor!checkingDate' <=> \E m \in s11' : m.token = s12'
    BY DEF Editor!checkingDate
  <1>3. Editor!checkingDate <=> \E m \in s11 : m.token = s12
    BY DEF Editor!checkingDate
  <1>4. Editor!IsLatest(l) => l.date = s15 /\ \A m \in s11' : m.token # s12
    BY <1>1 DEF Editor!IsLatest, EditorInv, LookupFollowed
  <1> QED
    BY <1>1, <1>2, <1>3, <1>4 DEF Editor!IsLatest, LookupFollowed

LEMMA LookupKeepsUp ==
  ASSUME EditorInv, LookupFollowed, Editor!Next \/ UNCHANGED Editor!vars
  PROVE  LookupFollowed'
  <1> USE DEF Editor!controller
  <1>1. CASE \E d \in DiaryDates : Editor!Hydrate(d)
    <2>1. PICK d \in DiaryDates : Editor!Hydrate(d)
      BY <1>1
    <2> QED
      BY <2>1 DEF Editor!Hydrate, LookupFollowed
  <1>2. CASE \E d \in DiaryDates : Editor!ChangeDate(d)
    <2>1. PICK d \in DiaryDates : Editor!ChangeDate(d)
      BY <1>2
    <2>2. s8 = Editor!None /\ UNCHANGED <<s5, s6, s7, s8>>
      BY <2>1 DEF Editor!ChangeDate, Editor!FormShown
    <2>3. CASE UNCHANGED <<s9, s11, s12>>
      BY <2>2, <2>3 DEF LookupFollowed, Editor!checkingDate
    <2>4. CASE Editor!Lookup(d, FALSE, FALSE) /\ s9' = FALSE
      BY <2>2, <2>4, LookupAsked
    <2> QED
      BY <2>1, <2>3, <2>4 DEF Editor!ChangeDate
  <1>3. CASE Editor!Retry
    <2>1. /\ Editor!Lookup(s7, FALSE, TRUE) /\ s9' = FALSE /\ UNCHANGED <<s5, s6, s7, s8>>
          /\ s8 = Editor!None /\ s7 \in DiaryDates
      BY <1>3 DEF Editor!Retry, LookupFollowed, EditorInv
    <2> QED
      BY <2>1, LookupAsked
  <1>4. CASE \E l \in s11 : \/ Editor!Found(l) \/ Editor!LookupUnauthorised(l)
                            \/ Editor!LookupFails(l)
                            \/ \E confirmed \in BOOLEAN : Editor!Free(l, confirmed)
    <2>1. PICK l \in s11 : \/ Editor!Found(l) \/ Editor!LookupUnauthorised(l)
                           \/ Editor!LookupFails(l)
                           \/ \E confirmed \in BOOLEAN : Editor!Free(l, confirmed)
      BY <1>4
    <2>2. Editor!Ended(l)
      BY <2>1 DEF Editor!Found, Editor!LookupUnauthorised, Editor!LookupFails, Editor!Free
    <2>3. /\ s12' = s12 /\ s15' = s15
          /\ \A k, m \in s11' : k.token = s12' /\ m.token = s12' => k = m
          /\ ~Editor!checkingDate => ~Editor!checkingDate'
          /\ Editor!IsLatest(l) => l.date = s15 /\ ~Editor!checkingDate' /\ Editor!checkingDate
      BY <2>2, LookupAnswered
    <2>4. CASE Editor!Found(l) \/ Editor!LookupUnauthorised(l)
      <3>1. /\ UNCHANGED <<s5, s6, s7, s9>>
            /\ s8' = s8 \/ (Editor!IsLatest(l) /\ s8' = l.date)
        BY <2>4 DEF Editor!Found, Editor!LookupUnauthorised
      <3> QED
        BY <2>3, <3>1 DEF LookupFollowed
    <2>5. CASE Editor!LookupFails(l)
      <3>1. /\ UNCHANGED <<s5, s6, s7>>
            /\ \/ UNCHANGED <<s8, s9>>
               \/ Editor!IsLatest(l) /\ s9' = TRUE /\ s8' = Editor!None
        BY <2>5 DEF Editor!LookupFails
      <3>2. CASE UNCHANGED <<s8, s9>>
        BY <2>3, <3>1, <3>2 DEF LookupFollowed
      <3>3. CASE Editor!IsLatest(l) /\ s9' = TRUE /\ s8' = Editor!None
        BY <2>3, <3>1, <3>3 DEF LookupFollowed
      <3> QED
        BY <3>1, <3>2, <3>3
    <2>6. CASE \E confirmed \in BOOLEAN : Editor!Free(l, confirmed)
      <3>1. /\ s9' = s9
            /\ \/ UNCHANGED <<s5, s6, s7, s8>>
               \/ s5' = Editor!None /\ s8' = Editor!None
        BY <2>6 DEF Editor!Free
      <3> QED
        BY <2>3, <3>1 DEF LookupFollowed
    <2> QED
      BY <2>1, <2>4, <2>5, <2>6
  <1>5. CASE Editor!Cancel \/ Editor!Edit \/ Editor!AppendToIt
    <2>1. /\ UNCHANGED <<s11, s12>> /\ s8' = Editor!None
          /\ \/ UNCHANGED <<s5, s6, s7, s9>>
             \/ s5' = s7' /\ s6' = FALSE /\ s9' = FALSE
             \/ s5' = Editor!None /\ s9' = FALSE
      BY <1>5 DEF Editor!Cancel, Editor!Edit, Editor!AppendToIt
    <2>2. Editor!checkingDate' = Editor!checkingDate
      BY <2>1 DEF Editor!checkingDate
    <2>3. CASE UNCHANGED <<s5, s6, s7, s9>>
      BY <2>1, <2>2, <2>3 DEF LookupFollowed
    <2>4. CASE s5' = s7' /\ s6' = FALSE /\ s9' = FALSE
      BY <2>1, <2>4 DEF LookupFollowed
    <2>5. CASE s5' = Editor!None /\ s9' = FALSE
      BY <2>1, <2>5 DEF LookupFollowed
    <2> QED
      BY <2>1, <2>3, <2>4, <2>5
  <1>6. CASE \/ Editor!Types \/ Editor!Copy \/ (\E found \in BOOLEAN : Editor!CopyEnds(found))
             \/ Editor!Save \/ (\E ok \in BOOLEAN : Editor!SaveEnds(ok)) \/ Editor!Leave
    BY <1>6 DEF Editor!Types, Editor!Copy, Editor!CopyEnds, Editor!Save, Editor!SaveEnds,
                Editor!Leave, LookupFollowed, Editor!checkingDate
  <1>7. CASE UNCHANGED Editor!vars
    BY <1>7 DEF Editor!vars, LookupFollowed, Editor!checkingDate
  <1> QED
    BY <1>1, <1>2, <1>3, <1>4, <1>5, <1>6, <1>7 DEF Editor!Next

-----------------------------------------------------------------------------
(* Posts. *)

LEMMA PostStarts == Post!Init => PostInv
  BY RecordsAssumption DEF Post!Init, PostInv, Post!Null, Post!DatedIffPublished

\* The post of an id is the one there is.
LEMMA ThePost ==
  ASSUME PostInv, NEW id, Post!Exists(id)
  PROVE  Post!Post(id) \in s1 /\ Post!Post(id).id = id
  <1>1. \E p \in s1 : p.id = id
    BY DEF Post!Exists
  <1> QED
    BY <1>1 DEF Post!Post

\* What the resolved date is: of a post that stays published its own, of one
\* that is published now the date of the write.
LEMMA ResolvedIs ==
  ASSUME NEW status \in Post!Statuses, NEW publishedAt \in Nat, NEW nextStatus \in Post!Statuses,
         NEW date \in Nat, date # 0, (status = "PUBLISHED") = (publishedAt # Post!Null)
  PROVE  /\ Post!resolvePublishedAt(status, publishedAt, nextStatus, date) \in Nat
         /\ (nextStatus = "PUBLISHED") =
              (Post!resolvePublishedAt(status, publishedAt, nextStatus, date) # Post!Null)
         /\ nextStatus = "PUBLISHED" =>
              Post!resolvePublishedAt(status, publishedAt, nextStatus, date) =
                IF status = "PUBLISHED" THEN publishedAt ELSE date
  BY DEF Post!resolvePublishedAt, Post!Null, Post!Statuses

\* The calls there are are those there were, some ended, and others, each of
\* which knows its post.
LEMMA CallsKeep ==
  ASSUME PostInv, UNCHANGED <<s1, s2, s5>>, s3' \in Nat, s3' >= s3,
         NEW new \in SUBSET PostCall, s4' \subseteq s4 \cup new,
         \A c \in new : c.date <= s3',
         \A c \in new : c.phase = "write" =>
           /\ (c.status = "PUBLISHED") = (c.date # Post!Null)
           /\ c.kind # "create" => c.todo[1] \in Nat /\ c.todo[1] < s2
           /\ c.kind # "create" /\ ~c.disturbed =>
                \A p \in s1 : p.id = c.todo[1] => StillAsRead(c, p)
  PROVE  PostInv' /\ Post!KeepsDate
  <1>1. \A i \in PostIds : s5'[i] <= s3'
    BY DEF PostInv
  <1>5. \A c \in s4' : c.date <= s3'
    BY DEF PostInv, PostCall
  <1>6. \A p \in s1 : p.publishedAt <= s3'
    BY DEF PostInv, StoredPost
  <1>2. \A c \in s4' : c.phase = "write" =>
           /\ (c.status = "PUBLISHED") = (c.date # Post!Null)
           /\ c.kind # "create" => c.todo[1] \in Nat /\ c.todo[1] < s2'
           /\ c.kind # "create" /\ ~c.disturbed =>
                \A p \in s1' : p.id = c.todo[1] => StillAsRead(c, p)'
    BY DEF PostInv, StillAsRead
  <1>3. PostInv'
    BY <1>1, <1>2, <1>5, <1>6 DEF PostInv, Post!DatedIffPublished
  <1>4. Post!KeepsDate
    BY DEF PostInv, Post!KeepsDate
  <1> QED
    BY <1>3, <1>4

LEMMA WaitingIs ==
  ASSUME NEW kind \in {"create", "update", "set", "bulk"}, NEW todo \in Seq(Nat),
         NEW status \in Post!Statuses, NEW title \in Titles
  PROVE  /\ Post!Waiting(kind, todo, status, title) \in PostCall
         /\ Post!Waiting(kind, todo, status, title).phase = "read"
         /\ Post!Waiting(kind, todo, status, title).date = 0
  <1>1. <<title, 0>> \in Titles \X Nat
    OBVIOUS
  <1> QED
    BY <1>1 DEF Post!Waiting, PostCall, Post!Null

LEMMA StartKeeps ==
  ASSUME PostInv, NEW c \in PostCall, c.phase = "read", c.date = 0, Post!Start(c)
  PROVE  PostInv' /\ Post!KeepsDate
  <1>1. UNCHANGED <<s1, s2, s3, s5>> /\ s4' \subseteq s4 \cup {c} /\ s3 \in Nat
    BY DEF Post!Start, PostInv
  <1> DEFINE new == {c}
  <1>2. new \in SUBSET PostCall /\ (\A d \in new : d.phase = "read" /\ d.date = 0)
    OBVIOUS
  <1>3. s4' \subseteq s4 \cup new /\ s3' \in Nat /\ s3' >= s3 /\ 0 <= s3'
    BY <1>1
  <1> HIDE DEF new
  <1> QED
    BY <1>1, <1>2, <1>3, CallsKeep

\* A call that has read knows the post as it is.
LEMMA PostReadKeeps ==
  ASSUME PostInv, NEW c \in s4, Post!Read(c)
  PROVE  PostInv' /\ Post!KeepsDate
  <1>1. /\ c \in PostCall /\ c.phase = "read" /\ s3' = s3 + 1 /\ s3 \in Nat /\ s3' \in Nat
        /\ UNCHANGED <<s1, s2, s5>>
    BY DEF Post!Read, PostInv
  <1>2. s3' # 0 /\ s3' >= s3 /\ s3' > s3
    BY <1>1
  \* What the call becomes with the slug and the date it has resolved.
  <1>3. ASSUME NEW slug \in Titles \X Nat, NEW date \in Nat,
               NEW n, n = Post!Ready(c, slug, date)
        PROVE  /\ n \in PostCall /\ n.phase = "write" /\ n.status = c.status /\ n.date = date
               /\ n.kind = c.kind /\ n.todo = c.todo /\ ~n.disturbed
    BY <1>1, <1>3 DEF Post!Ready, PostCall
  <1>4. ASSUME NEW title \in Titles, NEW others
        PROVE  Post!uniqueSlugFor(title, others) \in Titles \X Nat
    BY <1>1 DEF Post!uniqueSlugFor
  <1>5. CASE c.kind = "create"
    <2>1. PICK date : date = Post!resolvePublishedAt("DRAFT", Post!Null, c.status, s3')
      OBVIOUS
    <2>2. PICK slug : slug = Post!uniqueSlugFor(c.title, s1)
      OBVIOUS
    <2>3. PICK n : n = Post!Ready(c, slug, date)
      OBVIOUS
    <2>4. s4' = (s4 \ {c}) \cup {n}
      BY <1>5, <2>1, <2>2, <2>3 DEF Post!Read
    <2>5. c.status \in Post!Statuses /\ c.title \in Titles
      BY <1>1 DEF PostCall
    <2>6. /\ date \in Nat /\ (c.status = "PUBLISHED") = (date # Post!Null)
          /\ c.status = "PUBLISHED" => date = s3'
      BY <1>1, <1>2, <2>1, <2>5, ResolvedIs DEF Post!Null, Post!Statuses
    <2>10. date <= s3'
      BY <1>1, <2>6 DEF Post!Null
    <2>7. slug \in Titles \X Nat
      BY <1>4, <2>2, <2>5
    <2>8. /\ n \in PostCall /\ n.phase = "write" /\ n.status = c.status /\ n.date = date
          /\ n.kind = "create"
      BY <1>3, <1>5, <2>3, <2>6, <2>7
    <2> DEFINE new == {n}
    <2>9. /\ new \in SUBSET PostCall /\ s4' \subseteq s4 \cup new
          /\ \A d \in new : /\ (d.status = "PUBLISHED") = (d.date # Post!Null)
                            /\ d.kind = "create" /\ d.date <= s3'
      BY <2>4, <2>6, <2>8, <2>10
    <2> HIDE DEF new
    <2> QED
      BY <1>1, <1>2, <2>9, CallsKeep
  <1>6. CASE c.kind # "create" /\ Post!Exists(c.todo[1])
    <2>1. PICK p \in s1 : p = Post!Post(c.todo[1]) /\ p.id = c.todo[1]
      BY <1>6, ThePost
    <2>2. PICK date : date = Post!resolvePublishedAt(p.status, p.publishedAt, c.status, s3')
      OBVIOUS
    <2>3. PICK slug : slug = IF c.kind = "update" /\ c.title # p.title
                             THEN Post!uniqueSlugFor(c.title, s1 \ {p}) ELSE p.slug
      OBVIOUS
    <2>4. PICK n : n = Post!Ready(c, slug, date)
      OBVIOUS
    <2>5. s4' = (s4 \ {c}) \cup {n}
      BY <1>6, <2>1, <2>2, <2>3, <2>4 DEF Post!Read
    <2>6. /\ c.status \in Post!Statuses /\ c.title \in Titles
          /\ p.status \in Post!Statuses /\ p.publishedAt \in Nat /\ p.slug \in Titles \X Nat
          /\ (p.status = "PUBLISHED") = (p.publishedAt # Post!Null)
          /\ p.id < s2 /\ p.id \in PostIds /\ p.publishedAt <= s3
      BY <1>1 DEF PostCall, PostInv, StoredPost, Post!DatedIffPublished
    <2>7. /\ date \in Nat /\ (c.status = "PUBLISHED") = (date # Post!Null)
          /\ c.status = "PUBLISHED" =>
               date = IF p.status = "PUBLISHED" THEN p.publishedAt ELSE s3'
      BY <1>1, <1>2, <2>2, <2>6, ResolvedIs
    <2>8. slug \in Titles \X Nat
      BY <1>4, <2>3, <2>6
    <2>9. /\ n \in PostCall /\ n.phase = "write" /\ n.status = c.status /\ n.date = date
          /\ n.kind = c.kind /\ n.todo = c.todo
      BY <1>3, <2>4, <2>7, <2>8
    <2>10. s5[p.id] < s3'
      <3>1. s5[p.id] <= s3 /\ s5[p.id] \in Nat
        BY <2>6 DEF PostInv
      <3> QED
        BY <1>1, <3>1
    <2>11. \A q \in s1 : q.id = n.todo[1] => StillAsRead(n, q)
      <3>1. \A q \in s1 : q.id = n.todo[1] => q = p
        BY <2>1, <2>9 DEF PostInv
      <3>2. StillAsRead(n, p)
        BY <2>7, <2>9, <2>10 DEF StillAsRead
      <3> QED
        BY <3>1, <3>2
    <2>14. date <= s3'
      BY <1>1, <2>6, <2>7 DEF Post!Null
    <2>12. n.todo[1] \in Nat /\ n.todo[1] < s2
      BY <2>1, <2>6, <2>9, RecordsAssumption
    <2> DEFINE new == {n}
    <2>13. /\ new \in SUBSET PostCall /\ s4' \subseteq s4 \cup new
           /\ \A d \in new : /\ (d.status = "PUBLISHED") = (d.date # Post!Null)
                             /\ d.todo[1] \in Nat /\ d.todo[1] < s2 /\ d.date <= s3'
                             /\ \A q \in s1 : q.id = d.todo[1] => StillAsRead(d, q)
      BY <2>5, <2>7, <2>9, <2>11, <2>12, <2>14
    <2> HIDE DEF new
    <2> QED
      BY <1>1, <1>2, <2>13, CallsKeep
  <1>7. CASE c.kind # "create" /\ ~Post!Exists(c.todo[1])
    <2> DEFINE new == IF c.kind = "bulk" /\ Len(c.todo) > 1
                      THEN {[c EXCEPT !.todo = Tail(@)]} ELSE {}
    <2>1. s4' = (s4 \ {c}) \cup new
      BY <1>7 DEF Post!Read
    <2>2. ASSUME NEW d \in new
          PROVE  d \in PostCall /\ d.phase = "read" /\ d.date <= s3'
      <3>1. Len(c.todo) > 1 /\ d = [c EXCEPT !.todo = Tail(@)] /\ c.todo \in Seq(Nat)
        BY <1>1, <2>2 DEF PostCall
      <3>2. Tail(c.todo) \in Seq(Nat)
        BY <3>1
      <3>3. c.date <= s3'
        BY <1>1 DEF PostInv, PostCall
      <3> QED
        BY <1>1, <3>1, <3>2, <3>3 DEF PostCall
    <2>3. new \in SUBSET PostCall /\ s4' \subseteq s4 \cup new
      BY <2>1, <2>2
    <2> HIDE DEF new
    <2> QED
      BY <1>1, <1>2, <2>2, <2>3, CallsKeep
  <1> QED
    BY <1>5, <1>6, <1>7

\* Whoever writes a post: one row is put in the place of its id.
LEMMA WriteNewKeeps ==
  ASSUME PostInv, NEW c \in s4, Post!WriteNew(c)
  PROVE  PostInv' /\ Post!KeepsDate
  <1>1. s3' = s3 /\ s3 \in Nat /\ s2 \in Nat /\ s4' = s4 \ {c}
    BY DEF Post!WriteNew, Post!Fails, PostInv
  <1>2. CASE \E p \in s1 : p.slug = c.slug
    <2>1. UNCHANGED <<s1, s2, s5>>
      BY <1>2 DEF Post!WriteNew, Post!Fails
    <2> DEFINE new == {}
    <2>2. new \in SUBSET PostCall /\ s4' \subseteq s4 \cup new /\ ~\E d : d \in new
      BY <1>1
    <2> HIDE DEF new
    <2>3. s3' \in Nat /\ s3' >= s3
      BY <1>1
    <2> QED
      BY <2>1, <2>2, <2>3, CallsKeep
  <1>3. CASE ~\E p \in s1 : p.slug = c.slug
    <2>1. PICK n : n = [id |-> s2, title |-> c.title, slug |-> c.slug, status |-> c.status,
                        publishedAt |-> c.date]
      OBVIOUS
    <2>2. /\ s2 \in PostIds /\ Post!Store(n) /\ s2' = s2 + 1
      BY <1>3, <2>1 DEF Post!WriteNew
    <2>3. c \in PostCall /\ c.date <= s3 /\ (c.status = "PUBLISHED") = (c.date # Post!Null)
      BY DEF Post!WriteNew, PostInv
    <2>4. /\ n \in StoredPost /\ n.id = s2 /\ n.status = c.status /\ n.publishedAt = c.date
      BY <2>1, <2>2, <2>3 DEF StoredPost, PostCall
    <2>5. \A p \in s1 : p.id \in Nat /\ p.id < s2 /\ p.id # s2 /\ p.id \in PostIds
      <3> TAKE p \in s1
      <3>1. p.id \in PostIds /\ p.id < s2
        BY DEF PostInv, StoredPost
      <3>2. p.id \in Nat
        BY <3>1, RecordsAssumption
      <3> QED
        BY <1>1, <3>1, <3>2
    <2>6. s1' = s1 \cup {n}
      <3>1. {q \in s1 : q.id # s2} = s1
        BY <2>5
      <3> QED
        BY <2>2, <2>4, <3>1 DEF Post!Store
    <2>7. PICK g : g = IF c.date > s5[s2] THEN c.date ELSE s5[s2]
      OBVIOUS
    <2>16. s5' = [s5 EXCEPT ![s2] = g] /\ g \in Nat /\ g <= s3'
      BY <1>1, <2>2, <2>3, <2>4, <2>7 DEF Post!Store, PostInv, PostCall
    <2>8. /\ s5' \in [PostIds -> Nat] /\ \A i \in PostIds : i # s2 => s5'[i] = s5[i]
          /\ \A i \in PostIds : s5'[i] <= s3'
      BY <1>1, <2>2, <2>16 DEF PostInv
    <2>9. Post!KeepsDate
      BY <2>4, <2>5, <2>6 DEF Post!KeepsDate, PostInv
    <2>10. s1' \subseteq StoredPost /\ \A p, q \in s1' : p.id = q.id => p = q
      BY <2>4, <2>5, <2>6 DEF PostInv
    <2>11. \A p \in s1' : p.id < s2' /\ p.publishedAt <= s3'
      BY <1>1, <2>2, <2>3, <2>4, <2>5, <2>6 DEF PostInv
    <2>12. Post!DatedIffPublished'
      BY <2>3, <2>4, <2>6 DEF PostInv, Post!DatedIffPublished
    <2>13. ASSUME NEW d \in s4', d.phase = "write"
           PROVE  /\ (d.status = "PUBLISHED") = (d.date # Post!Null)
                  /\ d.kind # "create" => d.todo[1] \in Nat /\ d.todo[1] < s2'
                  /\ d.kind # "create" /\ ~d.disturbed =>
                       \A p \in s1' : p.id = d.todo[1] => StillAsRead(d, p)'
      <3>1. d \in s4
        BY <1>1
      <3>2. (d.status = "PUBLISHED") = (d.date # Post!Null)
        BY <2>13, <3>1 DEF PostInv
      <3>3. CASE d.kind # "create"
        <4>1. d.todo[1] \in Nat /\ d.todo[1] < s2 /\ d.todo[1] # s2
          BY <1>1, <2>13, <3>1, <3>3 DEF PostInv
        <4>2. ASSUME ~d.disturbed, NEW p \in s1', p.id = d.todo[1]
              PROVE  StillAsRead(d, p)'
          <5>1. p \in s1 /\ p.id \in PostIds /\ p.id # s2
            BY <2>4, <2>5, <2>6, <4>1, <4>2
          <5>2. StillAsRead(d, p)
            BY <2>13, <3>1, <3>3, <4>2, <5>1 DEF PostInv
          <5> QED
            BY <2>8, <5>1, <5>2 DEF StillAsRead
        <4>3. d.todo[1] < s2'
          BY <1>1, <2>2, <4>1
        <4> QED
          BY <3>2, <4>1, <4>2, <4>3
      <3> QED
        BY <3>2, <3>3
    <2>14. s4' \subseteq PostCall /\ \A d \in s4' : d.date <= s3'
      BY <1>1 DEF PostInv
    <2>15. s2' \in Nat /\ s3' \in Nat
      BY <1>1, <2>2
    <2> QED
      BY <2>8, <2>9, <2>10, <2>11, <2>12, <2>13, <2>14, <2>15 DEF PostInv
  <1> QED
    BY <1>2, <1>3

LEMMA WriteKeeps ==
  ASSUME PostInv, NEW c \in s4, Post!Write(c)
  PROVE  PostInv' /\ Post!KeepsDate
  <1>1. /\ s3' = s3 /\ s2' = s2 /\ s3 \in Nat /\ s2 \in Nat
        /\ c.phase = "write" /\ c.kind # "create"
    BY DEF Post!Write, Post!Fails, PostInv
  <1>2. CASE Post!Fails(c)
    <2>1. UNCHANGED <<s1, s5>> /\ s4' = s4 \ {c}
      BY <1>2 DEF Post!Fails
    <2> DEFINE new == {}
    <2>2. new \in SUBSET PostCall /\ s4' \subseteq s4 \cup new /\ ~\E d : d \in new
      BY <2>1
    <2> HIDE DEF new
    <2>3. s3' \in Nat /\ s3' >= s3
      BY <1>1
    <2> QED
      BY <1>1, <2>1, <2>2, <2>3, CallsKeep
  <1>3. CASE Post!Exists(c.todo[1]) /\ ~Post!Fails(c)
    <2>1. PICK p \in s1 : p = Post!Post(c.todo[1]) /\ p.id = c.todo[1]
      BY <1>3, ThePost
    <2>2. PICK n : n = [p EXCEPT !.title = IF c.kind = "update" THEN c.title ELSE @,
                                 !.slug = IF c.kind = "update" THEN c.slug ELSE @,
                                 !.status = c.status, !.publishedAt = c.date]
      OBVIOUS
    <2>3. PICK rest : rest = IF Len(c.todo) > 1
                             THEN {[c EXCEPT !.phase = "read", !.todo = Tail(@)]} ELSE {}
      OBVIOUS
    <2>4. /\ Post!Store(n) /\ s4' = Post!Disturb(s4 \ {c}, c.todo[1]) \union rest
      BY <1>3, <2>1, <2>2, <2>3 DEF Post!Write
    <2>5. /\ c \in PostCall /\ c.date <= s3 /\ (c.status = "PUBLISHED") = (c.date # Post!Null)
          /\ p \in StoredPost /\ p.id \in PostIds
      BY <1>1 DEF PostInv, StoredPost
    <2>6. /\ n \in StoredPost /\ n.id = p.id /\ n.status = c.status /\ n.publishedAt = c.date
      BY <2>2, <2>5 DEF StoredPost, PostCall
    <2>7. \A q \in s1' : q = n \/ (q \in s1 /\ q.id # p.id)
      BY <2>4, <2>6 DEF Post!Store
    <2>8. s5' = [s5 EXCEPT ![p.id] = IF c.date > @ THEN c.date ELSE @]
      BY <2>4, <2>6 DEF Post!Store
    <2>9. /\ s5' \in [PostIds -> Nat] /\ \A i \in PostIds : i # p.id => s5'[i] = s5[i]
          /\ \A i \in PostIds : s5'[i] <= s3'
      BY <1>1, <2>5, <2>8 DEF PostInv, PostCall
    <2>10. Post!KeepsDate
      <3> SUFFICES ASSUME NEW x \in s1, NEW q \in s1', x.id = q.id, q.status = "PUBLISHED",
                          q.publishedAt # x.publishedAt
                   PROVE  \/ x.status # "PUBLISHED" /\ q.publishedAt > s5[x.id]
                          \/ c.disturbed /\ c.todo[1] = x.id /\ c.date = q.publishedAt
        BY <1>1 DEF Post!KeepsDate
      <3>1. x = p /\ q = n
        BY <2>6, <2>7 DEF PostInv
      <3>2. CASE ~c.disturbed
        <4>1. StillAsRead(c, p)
          BY <1>1, <2>1, <3>2 DEF PostInv
        <4> QED
          BY <2>6, <3>1, <4>1 DEF StillAsRead
      <3> QED
        BY <2>1, <2>6, <3>1, <3>2
    <2>11. s1' \subseteq StoredPost /\ \A x, q \in s1' : x.id = q.id => x = q
      BY <2>6, <2>7 DEF PostInv
    <2>12. \A q \in s1' : q.id < s2' /\ q.publishedAt <= s3'
      BY <1>1, <2>5, <2>6, <2>7 DEF PostInv
    <2>13. Post!DatedIffPublished'
      BY <2>5, <2>6, <2>7 DEF PostInv, Post!DatedIffPublished
    <2>14. ASSUME NEW d \in rest
           PROVE  d \in PostCall /\ d.phase = "read" /\ d.date = c.date
      <3>1. Len(c.todo) > 1 /\ d = [c EXCEPT !.phase = "read", !.todo = Tail(@)]
        BY <2>3, <2>14
      <3>2. c.todo \in Seq(Nat)
        BY <2>5 DEF PostCall
      <3>3. Tail(c.todo) \in Seq(Nat)
        BY <3>1, <3>2
      <3> QED
        BY <2>5, <3>1, <3>3 DEF PostCall
    \* A call that has not ended knows the post as before, or that it was written.
    <2>15. ASSUME NEW d \in s4', d \notin rest
           PROVE  \E e \in s4 :
                    /\ d \in PostCall /\ d.date = e.date /\ d.phase = e.phase
                    /\ d.kind = e.kind /\ d.status = e.status /\ d.todo = e.todo
                    /\ d.disturbed \/ d = e
                    /\ d.phase = "write" /\ d.kind # "create" /\ d.todo[1] = p.id => d.disturbed
      <3>1. PICK e \in s4 \ {c} : d = IF e.phase = "write" /\ e.kind # "create" /\ e.todo[1] = p.id
                                      THEN [e EXCEPT !.disturbed = TRUE] ELSE e
        BY <2>1, <2>4, <2>15 DEF Post!Disturb
      <3>2. e \in PostCall
        BY DEF PostInv
      <3>3. CASE e.phase = "write" /\ e.kind # "create" /\ e.todo[1] = p.id
        <4>1. /\ d \in PostCall /\ d.date = e.date /\ d.phase = e.phase
              /\ d.kind = e.kind /\ d.status = e.status /\ d.todo = e.todo /\ d.disturbed
          BY <3>1, <3>2, <3>3 DEF PostCall
        <4> QED
          BY <4>1
      <3>4. CASE ~(e.phase = "write" /\ e.kind # "create" /\ e.todo[1] = p.id)
        BY <3>1, <3>2, <3>4
      <3> QED
        BY <3>3, <3>4
    <2>16. ASSUME NEW d \in s4', d.phase = "write"
           PROVE  /\ (d.status = "PUBLISHED") = (d.date # Post!Null)
                  /\ d.kind # "create" => d.todo[1] \in Nat /\ d.todo[1] < s2'
                  /\ d.kind # "create" /\ ~d.disturbed =>
                       \A q \in s1' : q.id = d.todo[1] => StillAsRead(d, q)'
      <3>1. PICK e \in s4 :
                    /\ d.date = e.date /\ d.phase = e.phase
                    /\ d.kind = e.kind /\ d.status = e.status /\ d.todo = e.todo
                    /\ d.disturbed \/ d = e
                    /\ d.phase = "write" /\ d.kind # "create" /\ d.todo[1] = p.id => d.disturbed
        BY <2>14, <2>15, <2>16
      <3>2. /\ (d.status = "PUBLISHED") = (d.date # Post!Null)
            /\ d.kind # "create" => d.todo[1] \in Nat /\ d.todo[1] < s2'
        BY <1>1, <2>16, <3>1 DEF PostInv
      <3>3. ASSUME d.kind # "create", ~d.disturbed, NEW q \in s1', q.id = d.todo[1]
            PROVE  StillAsRead(d, q)'
        <4>1. d \in s4 /\ q \in s1 /\ q.id # p.id
          BY <2>6, <2>7, <2>16, <3>1, <3>3
        <4>2. StillAsRead(d, q) /\ q.id \in PostIds
          BY <2>16, <3>3, <4>1 DEF PostInv, StoredPost
        <4> QED
          BY <2>9, <4>1, <4>2 DEF StillAsRead
      <3> QED
        BY <3>2, <3>3
    <2>17. s4' \subseteq PostCall /\ \A d \in s4' : d.date <= s3'
      <3> SUFFICES ASSUME NEW d \in s4' PROVE d \in PostCall /\ d.date <= s3'
        OBVIOUS
      <3>1. CASE d \in rest
        BY <1>1, <2>5, <2>14, <3>1
      <3>2. CASE d \notin rest
        <4>1. PICK e \in s4 : d \in PostCall /\ d.date = e.date
          BY <2>15, <3>2
        <4> QED
          BY <1>1, <4>1 DEF PostInv
      <3> QED
        BY <3>1, <3>2
    <2> QED
      BY <1>1, <2>9, <2>10, <2>11, <2>12, <2>13, <2>16, <2>17 DEF PostInv
  <1> QED
    BY <1>2, <1>3 DEF Post!Write

LEMMA DeleteKeeps ==
  ASSUME PostInv, NEW ids, Post!Delete(ids)
  PROVE  PostInv' /\ Post!KeepsDate
  <1>1. s1' \subseteq s1 /\ UNCHANGED <<s2, s3, s4, s5>>
    BY DEF Post!Delete
  <1> QED
    BY <1>1 DEF PostInv, Post!KeepsDate, Post!DatedIffPublished, StillAsRead

LEMMA PostKeeps ==
  ASSUME PostInv, Post!Next \/ UNCHANGED Post!vars
  PROVE  PostInv' /\ Post!KeepsDate
  <1>1. Post!AnyTitle \in Titles
    BY RecordsAssumption DEF Post!AnyTitle
  <1>2. /\ <<>> \in Seq(Nat) /\ <<1, 2>> \in Seq(Nat)
        /\ \A id \in PostIds : <<id>> \in Seq(Nat)
    BY RecordsAssumption
  <1>3. CASE \/ \E t \in Titles, s \in Post!Statuses : Post!Create(t, s)
             \/ \E id \in PostIds, t \in Titles, s \in Post!Statuses : Post!Update(id, t, s)
             \/ \E id \in PostIds, s \in {"PUBLISHED", "ARCHIVED"} : Post!SetStatus(id, s)
             \/ Post!BulkPublish(<<1, 2>>)
    <2>1. PICK kind \in {"create", "update", "set", "bulk"}, todo \in Seq(Nat),
               status \in Post!Statuses, title \in Titles :
                 Post!Start(Post!Waiting(kind, todo, status, title))
      BY <1>1, <1>2, <1>3 DEF Post!Create, Post!Update, Post!SetStatus, Post!BulkPublish,
                              Post!Statuses
    <2> QED
      BY <2>1, WaitingIs, StartKeeps
  <1>4. CASE \E c \in s4 : Post!Read(c) \/ Post!WriteNew(c) \/ Post!Write(c)
    BY <1>4, PostReadKeeps, WriteNewKeeps, WriteKeeps
  <1>5. CASE \E ids \in {{1}, PostIds} : Post!Delete(ids)
    BY <1>5, DeleteKeeps
  <1>6. CASE UNCHANGED Post!vars
    BY <1>6 DEF Post!vars, PostInv, Post!KeepsDate, Post!DatedIffPublished, StillAsRead
  <1> QED
    BY <1>3, <1>4, <1>5, <1>6 DEF Post!Next

-----------------------------------------------------------------------------
(* Reviews. *)

LEMMA ScheduledIs ==
  ASSUME NEW due \in Dues \cup {Review!Null}
  PROVE  Review!Scheduled(due) \in Review!Row /\ Review!Admits(Review!Scheduled(due))
  BY DEF Review!Scheduled, Review!Row, Review!Admits

LEMMA ReviewStarts == Review!Init => ReviewInv /\ PageExact
  BY ScheduledIs DEF Review!Init, ReviewInv, PageExact, Review!NoPage

\* A write of a row that the CHECK admits.
LEMMA RowWritten ==
  ASSUME ReviewInv, NEW d \in DiaryIds, NEW row \in Review!Row, Review!Admits(row),
         s1' = [s1 EXCEPT ![d] = row], s2' \subseteq s2,
         s1[d].status = "reviewed" => row.status = "reviewed"
  PROVE  ReviewInv' /\ Review!StaysReviewed
  <1>1. s1' \in [DiaryIds -> Review!Row] /\ s1'[d] = row
    BY DEF ReviewInv
  <1>2. \A e \in DiaryIds : e # d => s1'[e] = s1[e]
    BY DEF ReviewInv
  <1>3. \A e \in DiaryIds : Review!Admits(s1'[e])
    BY <1>1, <1>2 DEF ReviewInv
  <1>4. Review!StaysReviewed
    BY <1>1, <1>2 DEF Review!StaysReviewed
  <1> QED
    BY <1>1, <1>3, <1>4 DEF ReviewInv, Review!Admits

LEMMA ReviewKeeps ==
  ASSUME ReviewInv, Review!Next \/ UNCHANGED Review!vars
  PROVE  ReviewInv' /\ Review!StaysReviewed
  <1>0. ASSUME UNCHANGED s1, s2' \subseteq s2
        PROVE  ReviewInv' /\ Review!StaysReviewed
    BY <1>0 DEF ReviewInv, Review!Admits, Review!StaysReviewed
  <1>1. CASE \E d \in DiaryIds, due \in Dues : Review!Schedule(d, due)
    <2>1. PICK d \in DiaryIds, due \in Dues : Review!Schedule(d, due)
      BY <1>1
    <2>2. /\ s1[d].status # "reviewed" /\ s1' = [s1 EXCEPT ![d] = Review!Scheduled(due)]
          /\ s2' = s2
      BY <2>1 DEF Review!Schedule, Review!Write, Review!Scheduled
    <2> QED
      BY <2>2, ScheduledIs, RowWritten
  <1>2. CASE \E d \in DiaryIds, due \in Dues \union {Review!Null} : Review!EditRead(d, due)
    <2>1. PICK d \in DiaryIds, due \in Dues \union {Review!Null} : Review!EditRead(d, due)
      BY <1>2
    <2> DEFINE c == [diary |-> d, due |-> due, reviewed |-> s1[d].status = "reviewed"]
    <2>2. s2' = s2 \union {c} /\ s1' = s1
      BY <2>1 DEF Review!EditRead
    <2>3. (s1[d].status = "reviewed") \in BOOLEAN
      OBVIOUS
    <2>4. c \in [diary : DiaryIds, due : Dues \cup {Review!Null}, reviewed : BOOLEAN]
      BY <2>3
    <2> HIDE DEF c
    <2> QED
      BY <2>2, <2>4 DEF ReviewInv, Review!Admits, Review!StaysReviewed
  <1>3. CASE \E c \in s2 : Review!EditWrite(c)
    <2>1. PICK c \in s2 : Review!EditWrite(c)
      BY <1>3
    <2> DEFINE row == Review!Edited(c)
               st == Review!StatusUnlessReviewed(c, s1[c.diary].status)
    <2>2. /\ Review!Admits(row) /\ s1' = [s1 EXCEPT ![c.diary] = row] /\ s2' \subseteq s2
      BY <2>1 DEF Review!EditWrite, Review!Write
    <2>3. /\ c.diary \in DiaryIds /\ c.due \in Dues \cup {Review!Null}
          /\ s1[c.diary] \in Review!Row /\ Review!Admits(s1[c.diary])
      BY DEF ReviewInv
    <2>4. st \in {"none", "pending", "reviewed"}
      BY <2>3 DEF Review!StatusUnlessReviewed, Review!Row
    <2>5. row = [s1[c.diary] EXCEPT !.due = c.due, !.status = st]
      BY DEF Review!Edited
    <2> HIDE DEF st, row
    <2>6. row \in Review!Row /\ row.reviewedAt = s1[c.diary].reviewedAt
      BY <2>3, <2>4, <2>5 DEF Review!Row
    <2>7. s1[c.diary].status = "reviewed" => row.status = "reviewed"
      BY <2>2, <2>3, <2>6 DEF Review!Admits
    <2> QED
      BY <2>2, <2>3, <2>6, <2>7, RowWritten
  <1>4. CASE \E c \in s2 : Review!EditRefused(c)
    BY <1>0, <1>4 DEF Review!EditRefused
  <1>5. CASE \E d \in DiaryIds, at \in ReviewTimes : Review!SaveReview(d, at)
    <2>1. PICK d \in DiaryIds, at \in ReviewTimes : Review!SaveReview(d, at)
      BY <1>5
    <2> DEFINE row == [s1[d] EXCEPT !.status = "reviewed", !.reviewedAt = at]
    <2>2. s1' = [s1 EXCEPT ![d] = row] /\ s2' = s2
      BY <2>1 DEF Review!SaveReview, Review!Write
    <2>3. s1[d] \in Review!Row
      BY DEF ReviewInv
    <2>4. row \in Review!Row /\ row.status = "reviewed" /\ row.reviewedAt = at
      BY <2>3 DEF Review!Row
    <2>5. Review!Admits(row)
      BY <2>4, RecordsAssumption DEF Review!Admits, Review!Null
    <2> HIDE DEF row
    <2> QED
      BY <2>2, <2>4, <2>5, RowWritten
  <1>6. CASE Review!OpenPage \/ (\E b \in Review!Buckets : Review!Query(b)) \/ Review!LeavePage
    BY <1>0, <1>6 DEF Review!OpenPage, Review!Query, Review!LeavePage
  <1>7. CASE UNCHANGED Review!vars
    BY <1>0, <1>7 DEF Review!vars
  <1> QED
    BY <1>1, <1>2, <1>3, <1>4, <1>5, <1>6, <1>7 DEF Review!Next

\* What a query takes is among what matches it: all of it, or as much of the
\* completed as the bucket holds, and then none that was reviewed before one
\* that is left out.
LEMMA AnswerIs ==
  ASSUME NEW b \in Review!Buckets, NEW T \in Review!Answers(b)
  PROVE  /\ T \subseteq Review!Matching(b)
         /\ b # "completed" => T = Review!Matching(b)
         /\ b = "completed" =>
              /\ Review!Cardinality(T) <= ReviewLimit
              /\ T # Review!Matching(b) =>
                   /\ Review!Cardinality(T) = ReviewLimit
                   /\ \A e \in T, d \in Review!Matching(b) \ T :
                        s1[e].reviewedAt >= s1[d].reviewedAt
  <1> DEFINE S == Review!Matching(b)
  <1>1. CASE b = "completed"
    <2>1. T \in Review!Latest(S)
      BY <1>1 DEF Review!Answers
    <2> HIDE DEF S
    <2>2. /\ T \subseteq S
          /\ \/ T = S /\ Review!Cardinality(S) <= ReviewLimit
             \/ /\ Review!Cardinality(T) = ReviewLimit
                /\ \A e \in T, d \in S \ T : s1[e].reviewedAt >= s1[d].reviewedAt
      BY <2>1 DEF Review!Latest
    <2> USE DEF S
    <2> QED
      BY <1>1, <2>2, RecordsAssumption
  <1>2. CASE b # "completed"
    BY <1>2 DEF Review!Answers
  <1> QED
    BY <1>1, <1>2

\* The answers depend on the diaries alone.
LEMMA SameAnswers ==
  ASSUME UNCHANGED s1, NEW b \in Review!Buckets
  PROVE  Review!Answers(b)' = Review!Answers(b)
  BY DEF Review!Answers, Review!Latest, Review!Matching

LEMMA PageStaysExact ==
  ASSUME ReviewInv, PageExact, Review!Next \/ UNCHANGED Review!vars
  PROVE  PageExact'
  <1>1. CASE \/ \E d \in DiaryIds, due \in Dues : Review!Schedule(d, due)
             \/ \E c \in s2 : Review!EditWrite(c)
             \/ \E d \in DiaryIds, at \in ReviewTimes : Review!SaveReview(d, at)
    <2>1. UNCHANGED <<s3, s4>> /\ s5' = (s5 \/ s4 # {} \/ s3 # Review!NoPage)
      BY <1>1 DEF Review!Schedule, Review!EditWrite, Review!SaveReview, Review!Write
    <2> QED
      BY <2>1 DEF PageExact
  <1>2. CASE \/ \E d \in DiaryIds, due \in Dues \union {Review!Null} : Review!EditRead(d, due)
             \/ \E c \in s2 : Review!EditRefused(c)
    <2>1. UNCHANGED <<s1, s3, s4, s5>>
      BY <1>2 DEF Review!EditRead, Review!EditRefused
    <2> QED
      BY <2>1, SameAnswers DEF PageExact
  <1>3. CASE Review!OpenPage
    BY <1>3 DEF Review!OpenPage, PageExact
  <1>4. CASE \E b \in Review!Buckets : Review!Query(b)
    <2>1. PICK b \in Review!Buckets : Review!Query(b)
      BY <1>4
    <2>2. PICK read \in Review!Answers(b) :
            /\ b \in s4 /\ s3' = [s3 EXCEPT ![b] = read] /\ s4' = s4 \ {b} /\ UNCHANGED <<s1, s5>>
      BY <2>1 DEF Review!Query
    <2>3. read \in SUBSET DiaryIds
      BY <2>2, AnswerIs DEF Review!Matching
    <2>4. /\ s3' \in [Review!Buckets -> SUBSET DiaryIds] /\ s3'[b] = read
          /\ \A a \in Review!Buckets \ {b} : s3'[a] = s3[a]
      BY <2>2, <2>3 DEF PageExact
    <2>5. ASSUME ~s5, NEW a \in Review!Buckets \ s4'
          PROVE  s3'[a] \in Review!Answers(a)
      <3>1. CASE a = b
        BY <2>2, <2>4, <3>1
      <3>2. CASE a # b
        <4>1. s3'[a] = s3[a]
          BY <2>4, <3>2
        <4>2. s3[a] \in Review!Answers(a)
          BY <2>2, <2>5, <3>2 DEF PageExact
        <4> QED
          BY <4>1, <4>2
      <3> QED
        BY <3>1, <3>2
    <2>6. s4' \subseteq Review!Buckets
      BY <2>2 DEF PageExact
    <2> QED
      BY <2>2, <2>4, <2>5, <2>6, SameAnswers DEF PageExact
  <1>5. CASE Review!LeavePage
    <2>1. Review!NoPage \in [Review!Buckets -> SUBSET DiaryIds]
      BY DEF Review!NoPage
    <2> QED
      BY <1>5, <2>1 DEF Review!LeavePage, PageExact
  <1>6. CASE UNCHANGED Review!vars
    BY <1>6, SameAnswers DEF Review!vars, PageExact
  <1> QED
    BY <1>1, <1>2, <1>3, <1>4, <1>5, <1>6 DEF Review!Next

\* A diary is in one bucket if it has a review or a due date.
LEMMA OneBucket ==
  ASSUME NEW r \in Review!Row
  PROVE  IF r.due = Review!Null /\ r.status = "none"
         THEN {b \in Review!Buckets : Review!Where(b, r)} = {}
         ELSE \E b \in Review!Buckets : {a \in Review!Buckets : Review!Where(a, r)} = {b}
  <1>0. r.due \in Nat
    <2>1. r.due \in Dues \/ r.due = 0
      BY DEF Review!Null, Review!Row
    <2>2. Dues \subseteq Nat
      BY RecordsAssumption
    <2>3. CASE r.due \in Dues
      BY <2>2, <2>3
    <2>4. CASE r.due = 0
      BY <2>4
    <2> QED
      BY <2>1, <2>3, <2>4
  <1> DEFINE In == {b \in Review!Buckets : Review!Where(b, r)}
  <1>1. /\ Review!Where("completed", r) <=> r.status = "reviewed"
        /\ Review!Where("unscheduled", r) <=> r.status = "pending" /\ r.due = 0
        /\ Review!Where("overdue", r) <=> r.status # "reviewed" /\ r.due # 0 /\ r.due < 2
        /\ Review!Where("today", r) <=> r.status # "reviewed" /\ r.due >= 2 /\ r.due < 4
        /\ Review!Where("upcoming", r) <=> r.status # "reviewed" /\ r.due >= 4
    BY DEF Review!Where, Review!BeforeToday, Review!Null, Review!TodayStart, Review!TomorrowStart
  <1>2. \A b : b \in Review!Buckets <=>
                 b \in {"unscheduled", "overdue", "today", "upcoming", "completed"}
    BY DEF Review!Buckets
  <1>3. CASE r.status = "reviewed"
    <2>1. In = {"completed"}
      BY <1>1, <1>2, <1>3
    <2> QED
      BY <1>2, <1>3, <2>1
  <1>4. CASE r.status = "none" /\ r.due = 0
    <2>1. In = {}
      BY <1>1, <1>2, <1>4
    <2> QED
      BY <1>4, <2>1 DEF Review!Null
  <1>5. CASE r.status = "pending" /\ r.due = 0
    <2>1. In = {"unscheduled"}
      BY <1>1, <1>2, <1>5
    <2> QED
      BY <1>2, <1>5, <2>1
  <1>6. CASE r.status # "reviewed" /\ r.due # 0
    <2>1. CASE r.due < 2
      <3>1. In = {"overdue"}
        BY <1>0, <1>1, <1>2, <1>6, <2>1
      <3> QED
        BY <1>2, <1>6, <3>1 DEF Review!Null
    <2>2. CASE r.due >= 2 /\ r.due < 4
      <3>1. In = {"today"}
        BY <1>0, <1>1, <1>2, <1>6, <2>2
      <3> QED
        BY <1>2, <1>6, <3>1 DEF Review!Null
    <2>3. CASE r.due >= 4
      <3>1. In = {"upcoming"}
        BY <1>0, <1>1, <1>2, <1>6, <2>3
      <3> QED
        BY <1>2, <1>6, <3>1 DEF Review!Null
    <2> QED
      BY <1>0, <2>1, <2>2, <2>3
  <1>7. r.status \in {"none", "pending", "reviewed"}
    BY DEF Review!Row
  <1> QED
    BY <1>3, <1>4, <1>5, <1>6, <1>7

\* Cardinality is the same in the component.
LEMMA SameCardinality == ASSUME NEW S PROVE Review!Cardinality(S) = Cardinality(S)
  BY DEF Review!Cardinality, Cardinality

LEMMA PagePartitions == ReviewInv /\ PageExact => Review!BucketsPartition
  <1> SUFFICES ASSUME ReviewInv, PageExact, s4 = {}, s3 # Review!NoPage, ~s5
               PROVE  Review!BucketsPartition
    BY DEF Review!BucketsPartition
  <1> DEFINE In(d) == {b \in Review!Buckets : d \in s3[b]}
             Matched(d) == {b \in Review!Buckets : Review!Where(b, s1[d])}
  <1>1. \A b \in Review!Buckets : s3[b] \in Review!Answers(b)
    BY DEF PageExact
  <1>2. "completed" \in Review!Buckets
    BY DEF Review!Buckets
  <1>3. Review!Cardinality(s3["completed"]) <= ReviewLimit
    BY <1>1, <1>2, AnswerIs
  <1>4. ASSUME NEW d \in DiaryIds, s1[d].status = "reviewed"
        PROVE  /\ In(d) \subseteq {"completed"}
               /\ In(d) = {} =>
                    /\ Review!Cardinality(s3["completed"]) = ReviewLimit
                    /\ \A e \in s3["completed"] : s1[e].reviewedAt >= s1[d].reviewedAt
    <2>1. \A b \in Review!Buckets : Review!Where(b, s1[d]) <=> b = "completed"
      BY <1>4 DEF Review!Buckets, Review!Where
    <2>2. \A b \in Review!Buckets : d \in s3[b] => Review!Where(b, s1[d])
      BY <1>1, AnswerIs DEF Review!Matching
    <2>3. d \in Review!Matching("completed")
      BY <1>2, <2>1 DEF Review!Matching
    <2>4. In(d) = {} => d \notin s3["completed"]
      BY <1>2
    <2> QED
      BY <1>1, <1>2, <2>1, <2>2, <2>3, <2>4, AnswerIs
  <1>5. ASSUME NEW d \in DiaryIds, s1[d].status # "reviewed"
        PROVE  Cardinality(In(d)) =
                 IF s1[d].due = Review!Null /\ s1[d].status = "none" THEN 0 ELSE 1
    <2>1. \A b \in Review!Buckets : d \in s3[b] <=> Review!Where(b, s1[d])
      <3>1. ASSUME NEW b \in Review!Buckets
            PROVE  d \in s3[b] <=> Review!Where(b, s1[d])
        <4>1. CASE b = "completed"
          <5>1. ~Review!Where(b, s1[d])
            BY <1>5, <4>1 DEF Review!Where
          <5> QED
            BY <1>1, <5>1, AnswerIs DEF Review!Matching
        <4>2. CASE b # "completed"
          BY <1>1, <4>2, AnswerIs DEF Review!Matching
        <4> QED
          BY <4>1, <4>2
      <3> QED
        BY <3>1
    <2>2. In(d) = Matched(d)
      BY <2>1
    <2>3. s1[d] \in Review!Row
      BY DEF ReviewInv
    <2>4. CASE s1[d].due = Review!Null /\ s1[d].status = "none"
      <3>1. Matched(d) = {}
        BY <2>3, <2>4, OneBucket
      <3>2. Cardinality({}) = 0
        BY FS_EmptySet
      <3> QED
        BY <2>2, <2>4, <3>1, <3>2
    <2>5. CASE ~(s1[d].due = Review!Null /\ s1[d].status = "none")
      <3>1. PICK c \in Review!Buckets : Matched(d) = {c}
        BY <2>3, <2>5, OneBucket
      <3>2. Cardinality({c}) = 1
        BY FS_Singleton
      <3> QED
        BY <2>2, <2>5, <3>1, <3>2
    <2> QED
      BY <2>4, <2>5
  <1> QED
    BY <1>3, <1>4, <1>5, SameCardinality DEF Review!BucketsPartition

-----------------------------------------------------------------------------
(* Accounts. *)

LEMMA AccountStarts == Account!Init => AccountInv /\ AdminsLeft
  <1> SUFFICES ASSUME Account!Init PROVE AccountInv /\ AdminsLeft
    OBVIOUS
  <1> DEFINE e == CHOOSE e \in Emails : TRUE
             f == CHOOSE f \in Emails : f # e
             p == CHOOSE p \in Passwords : TRUE
  <1>1. e \in Emails /\ p \in Passwords
    BY RecordsAssumption
  <1>2. f \in Emails
    <2>1. \E g \in Emails : g # e
      BY RecordsAssumption
    <2> HIDE DEF e
    <2> QED
      BY <2>1
  <1>3. s1 = {[id |-> 1, email |-> e, password |-> p, role |-> "ADMIN"],
              [id |-> 2, email |-> f, password |-> p, role |-> "USER"]}
        /\ s2 = 3 /\ s3 = {} /\ s4 = FALSE
    BY DEF Account!Init
  <1> HIDE DEF e, f, p
  <1> DEFINE x == [id |-> 1, email |-> e, password |-> p, role |-> "ADMIN"]
             y == [id |-> 2, email |-> f, password |-> p, role |-> "USER"]
             rows == [id : Nat, email : Emails, password : Passwords, role : Account!Roles]
  <1>4. x \in rows /\ y \in rows /\ x.id = 1 /\ y.id = 2 /\ x.role = "ADMIN"
    BY <1>1, <1>2 DEF Account!Roles
  <1> HIDE DEF x, y
  <1>5. s1 = {x, y} /\ s2 = 3 /\ s3 = {} /\ s4 = FALSE
    BY <1>3 DEF x, y
  <1>6. s1 \subseteq rows /\ (\A u \in s1 : u.id < s2)
    BY <1>4, <1>5
  <1>7. \A u, v \in s1 : u.id = v.id => u = v
    BY <1>4, <1>5
  <1> QED
    BY <1>4, <1>5, <1>6, <1>7 DEF AccountInv, AdminsLeft, Account!AdminRemains

\* Changing one row.
LEMMA RowChanged ==
  ASSUME AccountInv, NEW u \in s1,
         NEW v \in [id : Nat, email : Emails, password : Passwords, role : Account!Roles],
         v.id = u.id, s1' = (s1 \ {u}) \cup {v}, s2' = s2
  PROVE  /\ s1' \subseteq [id : Nat, email : Emails, password : Passwords, role : Account!Roles]
         /\ \A x \in s1' : x.id < s2'
         /\ \A x, y \in s1' : x.id = y.id => x = y
  <1>1. \A x \in s1 : x.id = u.id => x = u
    BY DEF AccountInv
  <1>2. \A x \in s1' : (x \in s1 /\ x # u) \/ x = v
    OBVIOUS
  <1>3. /\ s1' \subseteq [id : Nat, email : Emails, password : Passwords, role : Account!Roles]
        /\ \A x \in s1' : x.id < s2'
    BY DEF AccountInv
  <1>4. ASSUME NEW x \in s1', NEW y \in s1', x.id = y.id
        PROVE  x = y
    BY <1>1, <1>2, <1>4 DEF AccountInv
  <1> QED
    BY <1>3, <1>4

LEMMA TheAccount ==
  ASSUME AccountInv, NEW id, Account!Exists(id)
  PROVE  Account!Account(id) \in s1 /\ Account!Account(id).id = id
  <1>1. \E u \in s1 : u.id = id
    BY DEF Account!Exists
  <1> QED
    BY <1>1 DEF Account!Account

LEMMA AccountCallsKeep ==
  ASSUME AccountInv,
         Account!findUserByEmail \/ Account!compareCurrent \/ Account!adminGuard
           \/ (\E c \in s3 : Account!findTarget(c))
  PROVE  AccountInv' /\ Account!PasswordHeld
  <1>0. s1' = s1 /\ s2' = s2
    BY DEF Account!findUserByEmail, Account!compareCurrent, Account!adminGuard, Account!findTarget
  <1>1. Account!PasswordHeld
    BY <1>0 DEF Account!PasswordHeld, AccountInv
  <1>2. CASE Account!findUserByEmail
    <2>1. PICK e \in Emails, p \in Passwords :
            s3' = s3 \cup {[kind |-> "register", phase |-> "read", email |-> e, new |-> p]}
            /\ s4' = s4
      BY <1>2 DEF Account!findUserByEmail, Account!Start
    <2> DEFINE c == [kind |-> "register", phase |-> "read", email |-> e, new |-> p]
    <2>2. c \in AccountCall /\ c.kind # "password"
      BY DEF AccountCall
    <2> HIDE DEF c
    <2> QED
      BY <1>0, <1>1, <2>1, <2>2 DEF AccountInv, c
  <1>3. CASE Account!compareCurrent
    <2>1. PICK u \in s1, given \in Passwords, new \in Passwords :
            /\ given = u.password
            /\ Account!Start([kind |-> "password", phase |-> "read", target |-> u.id,
                              given |-> given, new |-> new])
            /\ s4' = (s4 \/ \E d \in s3 : d.kind = "password" /\ d.target = u.id)
      BY <1>3 DEF Account!compareCurrent, Account!Matches
    <2> DEFINE c == [kind |-> "password", phase |-> "read", target |-> u.id,
                     given |-> given, new |-> new]
    <2>2. s3' = s3 \cup {c}
      BY <2>1 DEF Account!Start
    <2>3. /\ c \in AccountCall /\ c.kind = "password" /\ c.target = u.id /\ c.given = u.password
      BY <2>1 DEF AccountCall, AccountInv
    <2>4. u.id < s2 /\ \A w \in s1 : w.id = u.id => w = u
      BY DEF AccountInv
    <2> HIDE DEF c
    <2>5. /\ s1' = s1 /\ s2' = s2 /\ s4' \in BOOLEAN
          /\ s4' = (s4 \/ \E d \in s3 : d.kind = "password" /\ d.target = u.id)
      BY <1>0, <2>1 DEF AccountInv
    <2>6. \A d \in s3' : d.kind = "password" =>
            d.target < s2' /\ (~s4' => \A w \in s1' : w.id = d.target => d.given = w.password)
      <3>1. \A d \in s3 : d.kind = "password" =>
              d.target < s2 /\ (~s4 => \A w \in s1 : w.id = d.target => d.given = w.password)
        BY DEF AccountInv
      <3>2. ~s4' => ~s4
        BY <2>5
      <3>3. ASSUME NEW d \in s3, d.kind = "password"
            PROVE  d.target < s2' /\ (~s4' => \A w \in s1' : w.id = d.target => d.given = w.password)
        BY <2>5, <3>1, <3>2, <3>3
      <3>4. c.target < s2' /\ \A w \in s1' : w.id = c.target => c.given = w.password
        BY <2>3, <2>4, <2>5
      <3> QED
        BY <2>2, <3>3, <3>4
    <2>7. ~s4' => \A b, d \in s3' :
            b.kind = "password" /\ d.kind = "password" /\ b.target = d.target => b = d
      <3>1. ~s4 => \A b, d \in s3 :
              b.kind = "password" /\ d.kind = "password" /\ b.target = d.target => b = d
        BY DEF AccountInv
      <3>2. ASSUME ~s4', NEW b \in s3, NEW d \in s3, b.kind = "password", d.kind = "password",
                   b.target = d.target
            PROVE  b = d
        <4>1. ~s4
          BY <2>5, <3>2
        <4> QED
          BY <3>1, <3>2, <4>1
      <3>3. ~s4' => \A d \in s3 : d.kind = "password" => d.target # c.target
        BY <2>3, <2>5
      <3> QED
        BY <2>2, <3>2, <3>3
    <2>8. /\ s2 \in Nat /\ s3' \subseteq AccountCall
          /\ s1 \subseteq [id : Nat, email : Emails, password : Passwords, role : Account!Roles]
          /\ \A w \in s1 : w.id < s2
          /\ \A v, w \in s1 : w.id = v.id => w = v
      BY <2>2, <2>3 DEF AccountInv
    <2>9. AccountInv'
      BY <2>5, <2>6, <2>7, <2>8 DEF AccountInv
    <2> QED
      BY <1>0, <1>1, <2>9
  <1>4. CASE Account!adminGuard
    <2>1. PICK u \in s1, target \in 1..(s2 - 1), kind \in Account!AdminKinds :
            s3' = s3 \cup {[kind |-> kind, phase |-> "authorised", actor |-> u.id,
                            target |-> target]} /\ s4' = s4
      BY <1>4 DEF Account!adminGuard, Account!Start
    <2> DEFINE c == [kind |-> kind, phase |-> "authorised", actor |-> u.id, target |-> target]
    <2>2. c \in AccountCall /\ c.kind # "password"
      BY DEF AccountCall, AccountInv, Account!AdminKinds, Account!Roles
    <2> HIDE DEF c
    <2> QED
      BY <1>0, <1>1, <2>1, <2>2 DEF AccountInv, c
  <1>5. CASE \E c \in s3 : Account!findTarget(c)
    <2>1. PICK c \in s3 : Account!findTarget(c)
      BY <1>5
    <2> DEFINE d == [c EXCEPT !.phase = "read"]
    <2>2. c \in [kind : Account!AdminKinds, phase : {"authorised", "read"}, actor : Nat,
                 target : Nat]
      BY <2>1 DEF Account!findTarget, Account!At, Account!AdminKinds, Account!Roles,
                  AccountCall, AccountInv
    <2>3. d \in AccountCall /\ d.kind # "password"
      BY <2>2 DEF AccountCall, Account!AdminKinds, Account!Roles
    <2>4. s3' \subseteq s3 \cup {d} /\ s4' = s4
      BY <2>1 DEF Account!findTarget, Account!End
    <2> HIDE DEF d
    <2> QED
      BY <1>0, <1>1, <2>3, <2>4 DEF AccountInv
  <1> QED
    BY <1>2, <1>3, <1>4, <1>5

LEMMA AccountKeeps ==
  ASSUME AccountInv, Account!Next \/ UNCHANGED Account!vars
  PROVE  AccountInv' /\ Account!PasswordHeld
  <1>1. CASE Account!findUserByEmail \/ Account!compareCurrent \/ Account!adminGuard
           \/ (\E c \in s3 : Account!findTarget(c))
    BY <1>1, AccountCallsKeep
  <1>2. ASSUME NEW c \in s3, Account!createUserForRegistration(c)
        PROVE  AccountInv' /\ Account!PasswordHeld
    <2>1. c \in [kind : {"register"}, phase : {"read"}, email : Emails, new : Passwords]
      BY <1>2 DEF Account!createUserForRegistration, Account!At, AccountInv, AccountCall,
                  Account!AdminKinds, Account!Roles
    <2>2. s3' = s3 \ {c} /\ s4' = s4
      BY <1>2 DEF Account!createUserForRegistration, Account!End
    <2>3. CASE s1' = s1 /\ s2' = s2
      BY <2>2, <2>3 DEF AccountInv, Account!PasswordHeld
    <2>4. CASE Account!Insert(c)
      <3> DEFINE u == [id |-> s2, email |-> c.email, password |-> c.new, role |-> "USER"]
      <3>1. s1' = s1 \cup {u} /\ s2' = s2 + 1
        BY <2>4 DEF Account!Insert
      <3>2. /\ u \in [id : Nat, email : Emails, password : Passwords, role : Account!Roles]
            /\ u.id = s2
        BY <2>1 DEF AccountInv, Account!Roles
      <3> HIDE DEF u
      <3>3. \A v \in s1 : v.id \in Nat /\ v.id < s2 /\ v.id # s2
        BY DEF AccountInv
      <3>4. Account!PasswordHeld
        BY <3>1, <3>2, <3>3 DEF Account!PasswordHeld, AccountInv
      <3>5. \A d \in s3' : d.kind = "password" => d.target < s2 /\ d.target \in Nat
        BY <2>2 DEF AccountInv, AccountCall, Account!AdminKinds, Account!Roles
      <3> QED
        BY <2>2, <3>1, <3>2, <3>3, <3>4, <3>5 DEF AccountInv
    <2> QED
      BY <1>2, <2>3, <2>4 DEF Account!createUserForRegistration
  <1>3. ASSUME NEW c \in s3, Account!changeUserPassword(c)
        PROVE  AccountInv' /\ Account!PasswordHeld
    <2>1. c \in [kind : {"password"}, phase : {"read"}, target : Nat, given : Passwords,
                 new : Passwords]
      BY <1>3 DEF Account!changeUserPassword, Account!At, AccountInv, AccountCall,
                  Account!AdminKinds, Account!Roles
    <2>2. s2' = s2 /\ s3' = s3 \ {c} /\ s4' = s4
      BY <1>3 DEF Account!changeUserPassword, Account!End
    <2>3. CASE ~Account!Exists(c.target)
      <3>1. s1' = s1
        BY <1>3, <2>3 DEF Account!changeUserPassword
      <3> QED
        BY <2>2, <3>1 DEF AccountInv, Account!PasswordHeld
    <2>4. CASE Account!Exists(c.target)
      <3> DEFINE u == Account!Account(c.target)
                 v == [u EXCEPT !.password = c.new]
      <3>1. u \in s1 /\ u.id = c.target
        BY <2>4, TheAccount
      <3>2. s1' = (s1 \ {u}) \cup {v}
        BY <1>3, <2>4 DEF Account!changeUserPassword, Account!Put
      <3> HIDE DEF u
      <3>3. /\ v \in [id : Nat, email : Emails, password : Passwords, role : Account!Roles]
            /\ v.id = u.id
        BY <2>1, <3>1 DEF AccountInv
      <3> HIDE DEF v
      <3>4. /\ s1' \subseteq [id : Nat, email : Emails, password : Passwords, role : Account!Roles]
            /\ \A x \in s1' : x.id < s2'
            /\ \A x, y \in s1' : x.id = y.id => x = y
        BY <2>2, <3>1, <3>2, <3>3, RowChanged
      <3>5. \A x \in s1' : x \in s1 \/ x.id = c.target
        BY <3>1, <3>2, <3>3
      <3>6. Account!PasswordHeld
        <4> SUFFICES ASSUME NEW x \in s1, NEW y \in s1', x.id = y.id, x.password # y.password
                     PROVE  \E d \in s3 : /\ d.kind = "password" /\ d.target = x.id
                                          /\ s4 \/ d.given = x.password
          BY <2>2 DEF Account!PasswordHeld
        <4>1. x.id = c.target
          BY <3>5 DEF AccountInv
        <4>2. s4 \/ c.given = x.password
          BY <2>1, <4>1 DEF AccountInv
        <4> QED
          BY <2>1, <4>1, <4>2
      <3>7. \A d \in s3' : d.kind = "password" /\ ~s4 => d.target # c.target
        BY <2>1, <2>2 DEF AccountInv
      <3> QED
        BY <2>2, <3>4, <3>5, <3>6, <3>7 DEF AccountInv
    <2> QED
      BY <2>3, <2>4
  <1>4. ASSUME NEW c \in s3, Account!writeTarget(c)
        PROVE  AccountInv' /\ Account!PasswordHeld
    <2>1. c \in [kind : Account!AdminKinds, phase : {"authorised", "read"}, actor : Nat,
                 target : Nat]
      BY <1>4 DEF Account!writeTarget, Account!At, Account!AdminKinds, Account!Roles,
                  AccountCall, AccountInv
    <2>2. s2' = s2 /\ s3' = s3 \ {c} /\ s4' = s4
      BY <1>4 DEF Account!writeTarget, Account!End
    <2>3. CASE s1' \subseteq s1
      BY <2>2, <2>3 DEF AccountInv, Account!PasswordHeld
    <2>4. CASE Account!Exists(c.target) /\ c.kind # "delete"
      <3> DEFINE u == Account!Account(c.target)
                 v == [u EXCEPT !.role = c.kind]
      <3>1. u \in s1
        BY <2>4, TheAccount
      <3>2. s1' = (s1 \ {u}) \cup {v}
        BY <1>4, <2>4 DEF Account!writeTarget, Account!Put
      <3> HIDE DEF u
      <3>3. /\ v \in [id : Nat, email : Emails, password : Passwords, role : Account!Roles]
            /\ v.id = u.id /\ v.password = u.password
        BY <2>1, <2>4, <3>1 DEF AccountInv, Account!AdminKinds
      <3> HIDE DEF v
      <3>4. /\ s1' \subseteq [id : Nat, email : Emails, password : Passwords, role : Account!Roles]
            /\ \A x \in s1' : x.id < s2'
            /\ \A x, y \in s1' : x.id = y.id => x = y
        BY <2>2, <3>1, <3>2, <3>3, RowChanged
      <3>5. \A x \in s1' : \E y \in s1 : x.id = y.id /\ x.password = y.password
        BY <3>1, <3>2, <3>3
      <3>6. Account!PasswordHeld
        BY <3>5 DEF AccountInv, Account!PasswordHeld
      <3> QED
        BY <2>2, <3>4, <3>5, <3>6 DEF AccountInv
    <2> QED
      BY <1>4, <2>3, <2>4 DEF Account!writeTarget, Account!Put
  <1>5. CASE UNCHANGED Account!vars
    BY <1>5 DEF Account!vars, AccountInv, Account!PasswordHeld
  <1> QED
    BY <1>1, <1>2, <1>3, <1>4, <1>5 DEF Account!Next
\* A row of the admin that acts is left, as it is not the one written to.
LEMMA AdminsStay ==
  ASSUME AccountInv, AdminsLeft, Account!Next \/ UNCHANGED Account!vars
  PROVE  AdminsLeft'
  <1>1. CASE Account!findUserByEmail \/ Account!compareCurrent \/ Account!adminGuard
    <2>1. PICK c : s3' = s3 \cup {c} /\ UNCHANGED <<s1, s5>>
                   /\ ~(c.kind \in Account!AdminKinds /\ c.phase = "read")
      <3>1. CASE Account!findUserByEmail
        BY <3>1 DEF Account!findUserByEmail, Account!Start, Account!AdminKinds, Account!Roles
      <3>2. CASE Account!compareCurrent
        BY <3>2 DEF Account!compareCurrent, Account!Start, Account!AdminKinds, Account!Roles
      <3>3. CASE Account!adminGuard
        BY <3>3 DEF Account!adminGuard, Account!Start
      <3> QED
        BY <1>1, <3>1, <3>2, <3>3
    <2> QED
      BY <2>1 DEF AdminsLeft, Account!AdminRemains
  <1>2. CASE \E c \in s3 : Account!findTarget(c)
    <2>1. PICK c \in s3 : Account!findTarget(c)
      BY <1>2
    <2> DEFINE d == [c EXCEPT !.phase = "read"]
    <2>2. c \in [kind : Account!AdminKinds, phase : {"authorised", "read"}, actor : Nat,
                 target : Nat]
      BY <2>1 DEF Account!findTarget, Account!At, Account!AdminKinds, Account!Roles,
                  AccountCall, AccountInv
    <2>3. d.target = c.target /\ d.actor = c.actor
      BY <2>2
    <2>4. /\ s3' \subseteq s3 \cup {d} /\ UNCHANGED <<s1, s5>>
          /\ c.target # c.actor \/ s3' \subseteq s3
      BY <2>1 DEF Account!findTarget, Account!End, Account!NotOneself
    <2> HIDE DEF d
    <2> QED
      BY <2>3, <2>4 DEF AdminsLeft, Account!AdminRemains
  <1>3. CASE \E c \in s3 : Account!createUserForRegistration(c)
    BY <1>3 DEF Account!createUserForRegistration, Account!Insert, Account!End, AdminsLeft,
                Account!AdminRemains
  <1>4. CASE \E c \in s3 : Account!changeUserPassword(c)
    <2>1. PICK c \in s3 : Account!changeUserPassword(c)
      BY <1>4
    <2>2. s3' = s3 \ {c} /\ s5' = s5
      BY <2>1 DEF Account!changeUserPassword, Account!End
    <2>3. CASE ~Account!Exists(c.target)
      BY <2>1, <2>2, <2>3 DEF Account!changeUserPassword, AdminsLeft, Account!AdminRemains
    <2>4. CASE Account!Exists(c.target)
      <3> DEFINE u == Account!Account(c.target)
                 v == [u EXCEPT !.password = c.new]
      <3>1. u \in s1
        BY <2>4, TheAccount
      <3>2. s1' = (s1 \ {u}) \cup {v}
        BY <2>1, <2>4 DEF Account!changeUserPassword, Account!Put
      <3> HIDE DEF u
      <3>3. v.role = u.role
        BY <3>1 DEF AccountInv
      <3> HIDE DEF v
      <3> QED
        BY <2>2, <3>1, <3>2, <3>3 DEF AdminsLeft, Account!AdminRemains
    <2> QED
      BY <2>3, <2>4
  <1>5. CASE \E c \in s3 : Account!writeTarget(c)
    <2>1. PICK c \in s3 : Account!writeTarget(c)
      BY <1>5
    <2>2. /\ s3' = s3 \ {c} /\ c.target # c.actor
          /\ IF Account!Exists(c.target) THEN s5' = (s5 \/ ~Account!IsAdmin(c.actor))
             ELSE UNCHANGED <<s1, s5>>
      BY <2>1 DEF Account!writeTarget, Account!End, Account!At, AdminsLeft
    <2>3. CASE ~Account!Exists(c.target)
      BY <2>2, <2>3 DEF AdminsLeft, Account!AdminRemains
    <2>4. CASE Account!Exists(c.target) /\ Account!IsAdmin(c.actor)
      <3>1. PICK u \in s1 : u.id = c.target /\ u = Account!Account(c.target)
        BY <2>4, TheAccount
      <3>2. PICK w \in s1 : w.id = c.actor /\ w.role = "ADMIN"
        BY <2>4, TheAccount DEF Account!IsAdmin
      <3>3. w # u
        BY <2>2, <3>1, <3>2
      <3>4. s1 \ {u} \subseteq s1'
        BY <2>1, <2>4, <3>1 DEF Account!writeTarget, Account!Put
      <3> QED
        BY <2>2, <3>2, <3>3, <3>4 DEF AdminsLeft, Account!AdminRemains
    <2>5. CASE Account!Exists(c.target) /\ ~Account!IsAdmin(c.actor)
      BY <2>2, <2>5 DEF AdminsLeft, Account!AdminRemains
    <2> QED
      BY <2>3, <2>4, <2>5
  <1>6. CASE UNCHANGED Account!vars
    BY <1>6 DEF Account!vars, AdminsLeft, Account!AdminRemains
  <1> QED
    BY <1>1, <1>2, <1>3, <1>4, <1>5, <1>6 DEF Account!Next

-----------------------------------------------------------------------------
(* The company page. *)

LEMMA LatestAre ==
  ASSUME NEW n \in Nat
  PROVE  Company!Latest(n) \in SUBSET Nat /\ (n = 0 => Company!Latest(n) = {})
  BY DEF Company!Latest

LEMMA RequestedIs ==
  /\ Company!NoThesis \in Company!Theses
  /\ Company!Request \subseteq HubLoad
  /\ \A l \in Company!Request : l.phase = "sent"
  /\ Company!Mounted(Company!NoThesis) \in PanelState
  <1>1. Company!NoThesis \in Company!Theses
    BY DEF Company!Theses
  <1> QED
    BY <1>1 DEF Company!Request, HubLoad, Company!Mounted, Company!NoThesis, PanelState

LEMMA CompanyStarts == Company!Init => CompanyInv
  <1> SUFFICES ASSUME Company!Init PROVE CompanyInv
    OBVIOUS
  <1>1. /\ s1 \in Company!Theses /\ s2 = 0 /\ s3 = [thesis |-> Company!NoThesis, reviews |-> {}]
        /\ s4 = "pending" /\ s5 = Company!Request /\ s6 = Company!Mounted(Company!NoThesis)
        /\ s7 = {} /\ s9 = FALSE /\ s10 = FALSE
    BY DEF Company!Init
  <1>2. s3 \in [thesis : Company!Theses, reviews : SUBSET Nat]
    BY <1>1, RequestedIs
  <1>3. CompanyTypes
    BY <1>1, <1>2, RequestedIs DEF CompanyTypes
  <1>4. HubInStep
    BY <1>1, RequestedIs DEF HubInStep, LoadInStep
  <1> QED
    BY <1>1, <1>3, <1>4 DEF CompanyInv

\* A load is over, or another has been asked for.
LEMMA LoadKeeps ==
  ASSUME CompanyInv,
         Company!getCompanyHub \/ Company!ShowHub \/ Company!LoadFails \/ Company!Retry
  PROVE  CompanyInv'
  <1>1. UNCHANGED <<s1, s2, s7, s9, s10>>
    BY DEF Company!getCompanyHub, Company!ShowHub, Company!LoadFails, Company!Retry
  <1>2. CASE Company!getCompanyHub
    <2>1. PICK l \in s5 :
            s5' = {CASE l.phase = "sent" -> [l EXCEPT !.phase = "thesis", !.thesis = s1]
                     [] l.phase = "thesis" ->
                          [l EXCEPT !.phase = "served",
                                    !.reviews = IF l.thesis = Company!NoThesis THEN {} ELSE Company!Latest(s2)]
                     [] OTHER -> l}
      BY <1>2 DEF Company!getCompanyHub
    <2>2. l \in HubLoad /\ s1 \in Company!Theses /\ s2 \in Nat /\ s5 # {}
      BY DEF CompanyInv, CompanyTypes
    <2>3. UNCHANGED <<s3, s4, s6>>
      BY <1>2 DEF Company!getCompanyHub
    <2>7. ASSUME NEW n \in HubLoad, s5' = {n}, HubInStep => HubInStep'
          PROVE  CompanyInv'
      BY <1>1, <2>2, <2>3, <2>7 DEF CompanyInv, CompanyTypes
    <2>4. CASE l.phase = "sent"
      <3>1. PICK n : n = [l EXCEPT !.phase = "thesis", !.thesis = s1]
        OBVIOUS
      <3>2. n \in HubLoad /\ n.phase = "thesis" /\ n.thesis = s1
        BY <2>2, <3>1 DEF HubLoad
      <3>3. s5' = {n}
        BY <2>1, <2>4, <3>1
      <3>4. HubInStep => HubInStep'
        BY <1>1, <2>3, <3>2, <3>3 DEF HubInStep, LoadInStep, WriteInStep
      <3> QED
        BY <2>7, <3>2, <3>3, <3>4
    <2>5. CASE l.phase = "thesis"
      <3>1. PICK n : n = [l EXCEPT !.phase = "served",
                                   !.reviews = IF l.thesis = Company!NoThesis THEN {} ELSE Company!Latest(s2)]
        OBVIOUS
      <3>2. /\ n \in HubLoad /\ n.phase = "served" /\ n.thesis = l.thesis
            /\ n.reviews = IF l.thesis = Company!NoThesis THEN {} ELSE Company!Latest(s2)
        BY <2>2, <3>1, LatestAre DEF HubLoad
      <3>3. s5' = {n}
        BY <2>1, <2>5, <3>1
      <3>4. l.thesis = s1 => n.reviews = Company!Latest(s2)
        BY <3>2, LatestAre DEF CompanyInv, CompanyTypes
      <3>5. HubInStep => HubInStep'
        BY <1>1, <2>3, <2>5, <3>2, <3>3, <3>4 DEF HubInStep, LoadInStep, WriteInStep
      <3> QED
        BY <2>7, <3>2, <3>3, <3>5
    <2>6. CASE l.phase \notin {"sent", "thesis"}
      <3>1. s5' = {l}
        BY <2>1, <2>6
      <3>2. HubInStep => HubInStep'
        BY <1>1, <2>3, <3>1 DEF HubInStep, LoadInStep, WriteInStep
      <3> QED
        BY <2>2, <2>7, <3>1, <3>2
    <2> QED
      BY <2>4, <2>5, <2>6
  <1>3. CASE Company!ShowHub
    <2>1. PICK l \in s5 : l.phase = "served" /\ s3' = [thesis |-> l.thesis, reviews |-> l.reviews]
      BY <1>3 DEF Company!ShowHub
    <2>2. s5' = {} /\ l \in HubLoad /\ l.thesis \in Company!Theses /\ l.reviews \in SUBSET Nat
          /\ s6' = Company!Mounted(l.thesis)
      BY <1>3, <2>1 DEF Company!ShowHub, CompanyInv, CompanyTypes, HubLoad
    <2>3. /\ s3' \in [thesis : Company!Theses, reviews : SUBSET Nat]
          /\ s3'.thesis = l.thesis /\ s3'.reviews = l.reviews
      BY <2>1, <2>2
    <2>4. s6' \in PanelState
      BY <2>2 DEF Company!Mounted, PanelState, Company!Theses, Company!NoThesis
    <2>5. CompanyTypes'
      BY <1>1, <2>2, <2>3, <2>4 DEF CompanyInv, CompanyTypes
    <2>6. HubInStep'
      BY <1>1, <2>1, <2>2, <2>3 DEF CompanyInv, HubInStep, LoadInStep, WriteInStep
    <2> QED
      BY <1>1, <2>5, <2>6 DEF CompanyInv
  <1>4. CASE Company!LoadFails \/ Company!Retry
    <2>1. /\ s4' # "ready" /\ UNCHANGED <<s3, s6>> /\ s5' \subseteq HubLoad
          /\ \A l \in s5' : l.phase = "sent"
      BY <1>4, RequestedIs DEF Company!LoadFails, Company!Retry
    <2>2. CompanyTypes'
      BY <1>1, <2>1 DEF CompanyInv, CompanyTypes
    <2>3. HubInStep'
      BY <1>1, <2>1 DEF CompanyInv, HubInStep, LoadInStep, WriteInStep
    <2> QED
      BY <1>1, <2>2, <2>3 DEF CompanyInv
  <1> QED
    BY <1>2, <1>3, <1>4

\* A write is sent by a page that shows the thesis of the server.
LEMMA SendKeeps ==
  ASSUME CompanyInv, NEW kind \in {"save", "review"}, NEW t \in Company!Theses,
         Company!Send(kind, t), s6' \in PanelState,
         kind = "save" => t # Company!NoThesis /\
                          (t.status = "ARCHIVED" => t.text = s3.thesis.text),
         kind = "review" => t = s3.thesis
  PROVE  CompanyInv'
  <1>1. PICK n : n = [kind |-> kind, phase |-> "sent", thesis |-> t]
    OBVIOUS
  <1>2. s4 = "ready" /\ s7 = {} /\ s7' = {n} /\ UNCHANGED <<s1, s2, s3, s4, s5, s9, s10>>
    BY <1>1 DEF Company!Send
  <1>3. n \in PageWriting /\ n.kind = kind /\ n.phase = "sent" /\ n.thesis = t
    BY <1>1 DEF PageWriting
  <1>4. CompanyTypes'
    BY <1>2, <1>3 DEF CompanyInv, CompanyTypes
  <1>5. ~s10 => s3.thesis = s1
    BY <1>2 DEF CompanyInv, HubInStep
  <1>6. ~s10 => WriteInStep(n)
    BY <1>3, <1>5 DEF WriteInStep
  <1>7. HubInStep'
    BY <1>2, <1>3, <1>6 DEF CompanyInv, HubInStep, LoadInStep, WriteInStep
  <1> QED
    BY <1>2, <1>4, <1>7 DEF CompanyInv

LEMMA CompanyPanelKeeps ==
  ASSUME CompanyInv,
         \/ Company!startEdit \/ Company!CancelEdit \/ Company!toggleReviewing
         \/ Company!archive \/ Company!submitReview
         \/ \E text \in ThesisTexts \union {Company!Null} : Company!Type(text)
         \/ \E status \in {"DRAFT", "ACTIVE"} : Company!submitThesis(status)
  PROVE  CompanyInv'
  <1>1. /\ s6 \in PanelState /\ s3.thesis \in Company!Theses
        /\ s3.thesis.text \in ThesisTexts \union {Company!Null}
    BY DEF CompanyInv, CompanyTypes, Company!Theses, Company!NoThesis
  <1>2. CASE \/ Company!startEdit \/ Company!CancelEdit \/ Company!toggleReviewing
             \/ \E text \in ThesisTexts \union {Company!Null} : Company!Type(text)
    <2>1. UNCHANGED <<s1, s2, s3, s4, s5, s7, s9, s10>>
      BY <1>2 DEF Company!startEdit, Company!CancelEdit, Company!toggleReviewing, Company!Type
    <2>2. s6' \in PanelState
      BY <1>1, <1>2 DEF Company!startEdit, Company!CancelEdit, Company!toggleReviewing,
                        Company!Type, PanelState
    <2> QED
      BY <2>1, <2>2 DEF CompanyInv, CompanyTypes, HubInStep, LoadInStep, WriteInStep
  <1>3. CASE Company!archive
    <2>1. PICK t : t = [text |-> s3.thesis.text, status |-> "ARCHIVED"]
      OBVIOUS
    <2>2. Company!Send("save", t) /\ s6' = [s6 EXCEPT !.form = s3.thesis.text]
      BY <1>3, <2>1 DEF Company!archive, Company!hydrate
    <2>3. t \in Company!Theses /\ t.text = s3.thesis.text /\ t # Company!NoThesis
      BY <1>1, <2>1 DEF Company!Theses, Company!Statuses, Company!NoThesis
    <2>4. s6' \in PanelState
      BY <1>1, <2>2 DEF PanelState
    <2> QED
      BY <2>2, <2>3, <2>4, SendKeeps
  <1>4. CASE Company!submitReview
    <2>1. Company!Send("review", s3.thesis) /\ s6' = [s6 EXCEPT !.reviewing = FALSE]
      BY <1>4 DEF Company!submitReview
    <2>2. s6' \in PanelState
      BY <1>1, <2>1 DEF PanelState
    <2> QED
      BY <1>1, <2>1, <2>2, SendKeeps
  <1>5. CASE \E status \in {"DRAFT", "ACTIVE"} : Company!submitThesis(status)
    <2>1. PICK status \in {"DRAFT", "ACTIVE"} : Company!submitThesis(status)
      BY <1>5
    <2>2. PICK t : t = [text |-> s6.form, status |-> status]
      OBVIOUS
    <2>3. Company!Send("save", t) /\ (status = "ACTIVE" => s6.form # Company!Null) /\ s6' = s6
      BY <2>1, <2>2 DEF Company!submitThesis
    <2>4. t \in Company!Theses /\ t.status # "ARCHIVED" /\ t # Company!NoThesis
      BY <1>1, <2>2, <2>3 DEF Company!Theses, Company!Statuses, Company!NoThesis, PanelState
    <2> QED
      BY <1>1, <2>3, <2>4, SendKeeps
  <1> QED
    BY <1>2, <1>3, <1>4, <1>5

\* The server archives the text it has.
LEMMA CompanyServeKeeps ==
  ASSUME CompanyInv, Company!Serve
  PROVE  CompanyInv' /\ Company!ArchivedAsItWas
  <1>1. PICK w \in s7 :
          /\ w.phase = "sent"
          /\ s7' = {[w EXCEPT !.phase = "served"]}
          /\ \/ w.kind = "save" /\ s1' = w.thesis /\ UNCHANGED s2
             \/ w.kind = "review" /\ s1.status = "ACTIVE" /\ s2' = s2 + 1 /\ UNCHANGED s1
          /\ s9' = (s9 \/ (w.kind = "review" /\ ~s10 /\ w.thesis # s1))
    BY DEF Company!Serve
  <1>2. UNCHANGED <<s3, s4, s5, s6, s10>>
    BY DEF Company!Serve
  <1>3. w \in PageWriting /\ s7 = {w}
    BY DEF CompanyInv, CompanyTypes
  <1>4. PICK n : n = [w EXCEPT !.phase = "served"]
    OBVIOUS
  <1>5. n \in PageWriting /\ n.phase = "served" /\ n.kind = w.kind /\ n.thesis = w.thesis
        /\ s7' = {n}
    BY <1>1, <1>3, <1>4 DEF PageWriting
  <1>6. ~s10 => WriteInStep(w)
    BY <1>1, <1>3 DEF CompanyInv, HubInStep
  <1>7. ~s9'
    BY <1>1, <1>6 DEF CompanyInv, WriteInStep
  <1>8. s1' \in Company!Theses /\ s2' \in Nat /\ (s1' = Company!NoThesis => s2' = 0)
    <2>1. CASE w.kind = "save" /\ s1' = w.thesis /\ UNCHANGED s2
      <3>1. w.thesis \in Company!Theses /\ w.thesis # Company!NoThesis
        BY <1>3, <2>1 DEF PageWriting, CompanyInv, CompanyTypes
      <3> QED
        BY <2>1, <3>1 DEF CompanyInv, CompanyTypes
    <2>2. CASE s1.status = "ACTIVE" /\ s2' = s2 + 1 /\ UNCHANGED s1
      <3>1. s1 # Company!NoThesis
        BY <2>2 DEF Company!NoThesis
      <3> QED
        BY <2>2, <3>1 DEF CompanyInv, CompanyTypes
    <2> QED
      BY <1>1, <2>1, <2>2
  <1>9. Company!ArchivedAsItWas
    BY <1>1, <1>2, <1>6 DEF Company!ArchivedAsItWas, WriteInStep
  <1>10. CompanyTypes'
    <2>1. s9' \in BOOLEAN
      BY Zenon, <1>1
    <2>2. \A x \in s7' : x.kind = "save" => x.thesis # Company!NoThesis
      BY <1>3, <1>5 DEF CompanyInv, CompanyTypes
    <2> QED
      BY <1>2, <1>5, <1>8, <2>1, <2>2 DEF CompanyInv, CompanyTypes
  <1>11. HubInStep'
    BY <1>5 DEF HubInStep
  <1> QED
    BY <1>7, <1>9, <1>10, <1>11 DEF CompanyInv

\* The answers, and the notes, load the hub again.
LEMMA CompanyAnswersKeep ==
  ASSUME CompanyInv,
         Company!ServeNote \/ Company!Written \/ Company!WriteFails \/ Company!Note
  PROVE  CompanyInv'
  <1>1. s1' = s1 /\ s2' = s2 /\ s3' = s3 /\ s9' = s9
    BY DEF Company!ServeNote, Company!Written, Company!WriteFails, Company!Note
  <1>3. CASE Company!Refresh /\ s10' = s10 /\ s7' \subseteq s7
    <2>1. /\ s4' = "pending" /\ s5' = Company!Request
          /\ s6' = Company!Mounted(Company!NoThesis)
      BY <1>3 DEF Company!Refresh
    <2>2. CompanyTypes'
      BY <1>1, <1>3, <2>1, RequestedIs DEF CompanyInv, CompanyTypes
    <2>3. ASSUME ~s10', \A w \in s7' : w.phase = "sent"
          PROVE  \A w \in s7' : WriteInStep(w)'
      BY <1>1, <1>3, <2>3 DEF CompanyInv, CompanyTypes, HubInStep, WriteInStep
    <2>4. HubInStep'
      BY <2>1, <2>3, RequestedIs DEF HubInStep, LoadInStep
    <2> QED
      BY <1>1, <2>2, <2>4 DEF CompanyInv
  <1>4. CASE Company!ServeNote
    BY <1>4 DEF Company!ServeNote, CompanyInv, CompanyTypes, HubInStep, LoadInStep, WriteInStep
  <1>5. CASE Company!Written
    <2>1. Company!Refresh /\ s10' = s10 /\ s7' = {}
      BY <1>5 DEF Company!Written, Company!Refreshes
    <2> QED
      BY <1>3, <2>1
  <1>6. CASE Company!WriteFails
    <2>1. PICK w \in s7 : s10' = (s10 \/ w.phase = "served")
      BY <1>6 DEF Company!WriteFails
    <2>2. s7 = {w} /\ s7' = {} /\ UNCHANGED <<s4, s5, s6>> /\ s10' \in BOOLEAN
      BY <1>6, <2>1 DEF Company!WriteFails, CompanyInv, CompanyTypes
    <2>3. w.phase \in {"sent", "served"}
      BY DEF CompanyInv, CompanyTypes, PageWriting
    <2>4. CompanyTypes'
      BY <1>1, <2>2 DEF CompanyInv, CompanyTypes
    <2>5. HubInStep'
      BY <1>1, <2>1, <2>2, <2>3 DEF CompanyInv, CompanyTypes, HubInStep, LoadInStep
    <2> QED
      BY <1>1, <2>4, <2>5 DEF CompanyInv
  <1>7. CASE Company!Note
    <2>1. s7' = s7 /\ s10' = s10 /\ (Company!Refresh \/ UNCHANGED <<s4, s5, s6>>)
      BY <1>7 DEF Company!Note
    <2>2. CASE UNCHANGED <<s4, s5, s6>>
      BY <1>1, <2>1, <2>2 DEF CompanyInv, CompanyTypes, HubInStep, LoadInStep, WriteInStep
    <2> QED
      BY <1>3, <2>1, <2>2
  <1> QED
    BY <1>4, <1>5, <1>6, <1>7

LEMMA CompanyKeeps ==
  ASSUME CompanyInv, Company!Next \/ UNCHANGED Company!vars
  PROVE  CompanyInv' /\ Company!ArchivedAsItWas
  <1>1. CASE Company!Serve
    BY <1>1, CompanyServeKeeps
  <1>2. CASE s1' = s1 /\ CompanyInv'
    BY <1>2 DEF Company!ArchivedAsItWas
  <1>3. CASE Company!getCompanyHub \/ Company!ShowHub \/ Company!LoadFails \/ Company!Retry
    BY <1>2, <1>3, LoadKeeps DEF Company!getCompanyHub, Company!ShowHub, Company!LoadFails,
                                 Company!Retry
  <1>4. CASE \/ Company!startEdit \/ Company!CancelEdit \/ Company!toggleReviewing
             \/ Company!archive \/ Company!submitReview
             \/ \E text \in ThesisTexts \union {Company!Null} : Company!Type(text)
             \/ \E status \in {"DRAFT", "ACTIVE"} : Company!submitThesis(status)
    BY <1>2, <1>4, CompanyPanelKeeps
       DEF Company!startEdit, Company!CancelEdit, Company!toggleReviewing, Company!archive,
           Company!submitReview, Company!Type, Company!submitThesis, Company!Send
  <1>5. CASE Company!ServeNote \/ Company!Written \/ Company!WriteFails \/ Company!Note
    BY <1>2, <1>5, CompanyAnswersKeep DEF Company!ServeNote, Company!Written,
                                          Company!WriteFails, Company!Note
  <1>6. CASE UNCHANGED Company!vars
    BY <1>2, <1>6 DEF Company!vars, CompanyInv, CompanyTypes, HubInStep, LoadInStep, WriteInStep
  <1> QED
    BY <1>1, <1>3, <1>4, <1>5, <1>6 DEF Company!Next

LEMMA HubIsWhole == CompanyInv => Company!HubHolds
  BY DEF CompanyInv, CompanyTypes, HubInStep, Company!HubHolds

-----------------------------------------------------------------------------
(* The quick note. *)

LEMMA NoteStarts == Note!Init => NoteInv
  BY DEF Note!Init, NoteInv, Note!Modes

\* Overtaking what is pending leaves nothing current.
LEMMA NoteOutdated ==
  ASSUME NoteInv
  PROVE  /\ Note!Outdated \subseteq [version : 0..s6, current : BOOLEAN]
         /\ \A p \in Note!Outdated : ~p.current
  <1> SUFFICES ASSUME NEW q \in Note!Outdated
               PROVE  q \in [version : 0..s6, current : BOOLEAN] /\ ~q.current
    OBVIOUS
  <1>1. PICK p \in s8 : q = [p EXCEPT !.current = FALSE]
    BY DEF Note!Outdated
  <1>2. p \in [version : 0..s6, current : BOOLEAN]
    BY DEF NoteInv
  <1> QED
    BY <1>1, <1>2

\* What waits to be saved after version was autosaved, or was not.
LEMMA NoteAutosaved ==
  ASSUME NoteInv, NEW version \in 0..s6', version \notin s13, s6' \in Nat, s6 <= s6', s13' = s13,
         Note!Autosave(version) \/ s8' = s8
  PROVE  /\ s8' \subseteq [version : 0..s6', current : BOOLEAN]
         /\ \A p \in s8' : p.current => p.version \notin s13'
  <1>1. 0..s6 \subseteq 0..s6'
    BY DEF NoteInv
  <1>2. CASE s8' = s8
    BY <1>1, <1>2 DEF NoteInv
  <1>3. CASE Note!Autosave(version) /\ version # 0
    <2> DEFINE q == [version |-> version, current |-> TRUE]
    <2>1. s8' = {q}
      BY <1>3 DEF Note!Autosave
    <2>2. q \in [version : 0..s6', current : BOOLEAN] /\ q.version = version
      OBVIOUS
    <2> HIDE DEF q
    <2> QED
      BY <2>1, <2>2
  <1> QED
    BY <1>2, <1>3 DEF Note!Autosave

LEMMA NoteKeeps ==
  ASSUME NoteInv, Note!Next \/ UNCHANGED Note!vars
  PROVE  NoteInv'
  <1> USE DEF Note!sync
  <1>0. /\ s6 \in Nat /\ s2 \in 0..s6 /\ s7 \in 0..s6 /\ s13 \subseteq 1..s6
        /\ s2 \notin s13 /\ s7 \notin s13 /\ 0 \notin s13
    BY DEF NoteInv
  <1>1. CASE \E restore \in BOOLEAN : Note!Open(restore)
    <2>1. /\ s2' \in {s2, s7} /\ s7' \in {0, s7}
          /\ Note!Autosave(s7) \/ s8' = s8
          /\ UNCHANGED <<s3, s4, s6, s11, s12, s13>>
      BY <1>1 DEF Note!Open
    <2>2. /\ s8' \subseteq [version : 0..s6', current : BOOLEAN]
          /\ \A p \in s8' : p.current => p.version \notin s13'
      BY <1>0, <2>1, NoteAutosaved
    <2> QED
      BY <1>0, <2>1, <2>2 DEF NoteInv
  <1>2. CASE Note!Type
    <2>1. /\ s6' = s6 + 1 /\ s2' = s6 + 1 /\ Note!Autosave(s6 + 1)
          /\ UNCHANGED <<s3, s4, s7, s11, s12, s13>>
      BY <1>2 DEF Note!Type
    <2>2. s6 + 1 \in 0..s6' /\ s6 + 1 \notin s13 /\ s6' \in Nat /\ s6 <= s6'
      BY <1>0, <2>1
    <2>3. /\ s8' \subseteq [version : 0..s6', current : BOOLEAN]
          /\ \A p \in s8' : p.current => p.version \notin s13'
      BY <2>1, <2>2, NoteAutosaved
    <2>4. s7' \in 0..s6' /\ s13' \subseteq 1..s6'
      BY <1>0, <2>1
    <2>5. s12' \in [version : 0..s6', date : NoteDates, mode : Note!Modes] \cup {Note!NoPost}
      <3>1. 0..s6 \subseteq 0..s6'
        BY <1>0, <2>1
      <3> QED
        BY <2>1, <3>1 DEF NoteInv
    <2> QED
      BY <1>0, <2>1, <2>2, <2>3, <2>4, <2>5 DEF NoteInv
  <1>3. CASE Note!SaveDraft
    <2>1. PICK p \in s8 : /\ s8' = {} /\ s7' = IF p.current THEN p.version ELSE s7
                          /\ UNCHANGED <<s2, s3, s4, s6, s11, s12, s13>>
      BY <1>3 DEF Note!SaveDraft
    <2>2. p.version \in 0..s6 /\ (p.current => p.version \notin s13)
      BY DEF NoteInv
    <2> QED
      BY <1>0, <2>1, <2>2 DEF NoteInv
  <1>4. CASE Note!Save
    BY <1>4 DEF Note!Save, NoteInv
  <1>5. CASE Note!PostFails
    BY <1>5 DEF Note!PostFails, NoteInv
  <1>6. CASE \E d \in NoteDates : Note!SetDate(d)
    <2>1. /\ Note!Autosave(s2) /\ s3' \in NoteDates /\ UNCHANGED <<s2, s4, s6, s7, s11, s12, s13>>
      BY <1>6 DEF Note!SetDate
    <2>2. /\ s8' \subseteq [version : 0..s6', current : BOOLEAN]
          /\ \A p \in s8' : p.current => p.version \notin s13'
      BY <1>0, <2>1, NoteAutosaved
    <2> QED
      BY <1>0, <2>1, <2>2 DEF NoteInv
  <1>7. CASE \E d \in NoteDates : \E closes \in BOOLEAN : Note!Posted(d, closes)
    <2>1. /\ s13' = s13 \cup {s12.version} /\ s7' = 0 /\ s8' = Note!Outdated /\ s2' = 0
          /\ s3' \in NoteDates /\ s4' \in Note!Modes /\ s6' = s6 /\ s11 = "post"
          /\ s11' = "no" /\ s12' = Note!NoPost
      BY <1>7 DEF Note!Posted, Note!Reset, Note!Modes
    <2>2. s12.version \in 1..s6
      BY <1>0, <2>1 DEF NoteInv, Note!NoPost
    <2>3. s8' \subseteq [version : 0..s6', current : BOOLEAN] /\ \A p \in s8' : ~p.current
      BY <2>1, NoteOutdated
    <2>4. \A v \in s13' : v \in 1..s6 /\ v # 0
      BY <1>0, <2>1, <2>2
    <2>5. s6' \in Nat /\ s2' = 0 /\ s7' = 0 /\ s6' = s6 /\ 0 \in 0..s6
      BY <1>0, <2>1
    <2> QED
      BY <2>1, <2>3, <2>4, <2>5 DEF NoteInv
  <1>8. CASE \E d \in NoteDates : \E closes \in BOOLEAN : Note!Cancel(d, closes)
    <2>1. /\ s8' = Note!Outdated /\ s2' = 0
          /\ s3' \in NoteDates /\ s4' \in Note!Modes /\ UNCHANGED <<s6, s7, s11, s12, s13>>
      BY <1>8 DEF Note!Cancel, Note!Reset, Note!Modes
    <2> QED
      BY <1>0, <2>1, NoteOutdated DEF NoteInv
  <1>9. CASE \E mode \in Note!Modes : Note!SetSaveMode(mode)
    <2>1. /\ Note!Autosave(s2) /\ s4' \in Note!Modes /\ UNCHANGED <<s2, s3, s6, s7, s11, s12, s13>>
      BY <1>9 DEF Note!SetSaveMode
    <2>2. /\ s8' \subseteq [version : 0..s6', current : BOOLEAN]
          /\ \A p \in s8' : p.current => p.version \notin s13'
      BY <1>0, <2>1, NoteAutosaved
    <2> QED
      BY <1>0, <2>1, <2>2 DEF NoteInv
  <1>10. CASE \E l \in s9 : \E found, ok \in BOOLEAN : Note!LookupEnds(l, found, ok)
    <2>1. PICK l \in s9, found \in BOOLEAN, ok \in BOOLEAN : Note!LookupEnds(l, found, ok)
      BY <1>10
    <2>2. /\ Note!Autosave(s2) \/ s8' = s8
          /\ s4' \in {s4, "append", "create"} /\ UNCHANGED <<s2, s3, s6, s7, s13>>
      BY <2>1 DEF Note!LookupEnds
    <2>3. /\ s8' \subseteq [version : 0..s6', current : BOOLEAN]
          /\ \A p \in s8' : p.current => p.version \notin s13'
      BY <1>0, <2>2, NoteAutosaved
    <2>4. s4' \in Note!Modes /\ s3 \in NoteDates
      BY <2>2 DEF NoteInv, Note!Modes
    <2>5. \/ s11' = "no" /\ s12' = s12
          \/ s11' = "post" /\ s12' = [version |-> s2, date |-> s3, mode |-> s4'] /\ s2 # 0
          \/ UNCHANGED <<s11, s12>>
      BY <2>1 DEF Note!LookupEnds
    <2>6. /\ s12' \in [version : 0..s6', date : NoteDates, mode : Note!Modes] \cup {Note!NoPost}
          /\ s11' = "post" => s12'.version # 0
      BY <1>0, <2>2, <2>4, <2>5 DEF NoteInv
    <2> QED
      BY <1>0, <2>2, <2>3, <2>4, <2>6 DEF NoteInv
  <1>11. CASE UNCHANGED Note!vars
    BY <1>11 DEF Note!vars, NoteInv
  <1> QED
    BY <1>1, <1>2, <1>3, <1>4, <1>5, <1>6, <1>7, <1>8, <1>9, <1>10, <1>11 DEF Note!Next

-----------------------------------------------------------------------------
(* The draft of a post. *)

LEMMA DraftStarts == Draft!Init => DraftInv
  BY DEF Draft!Init, DraftInv

LEMMA DraftKeeps ==
  ASSUME DraftInv, Draft!Next \/ UNCHANGED Draft!vars
  PROVE  DraftInv'
  <1> USE DEF DraftInv
  <1>1. CASE Draft!Visit
    BY <1>1 DEF Draft!Visit
  <1>2. CASE Draft!LoadFails \/ Draft!Edits \/ Draft!SaveFails \/ Draft!Leave
    BY <1>2 DEF Draft!LoadFails, Draft!Edits, Draft!SaveFails, Draft!Leave
  <1>3. CASE Draft!Autosaves
    BY <1>3 DEF Draft!Autosaves
  <1>4. CASE Draft!Saved
    <2>1. PICK r \in s9 : /\ s9' = {} /\ s8' = FALSE /\ UNCHANGED <<s2, s5>>
                          /\ s11' = IF r.status = "PUBLISHED" THEN s11 \cup {r.version} ELSE s11
                          /\ s6' = IF s5 = "PUBLISHED" THEN 0 ELSE s6
      BY <1>4 DEF Draft!Saved, Draft!ReadyOnceSaved
    <2>2. r.version # 0 /\ r.status = s5 /\ s2 # "loading"
      OBVIOUS
    <2> QED
      BY <2>1, <2>2
  <1>5. CASE \E restore \in BOOLEAN : Draft!Opened(restore)
    BY <1>5 DEF Draft!Opened
  <1>6. CASE \E s \in Draft!Statuses : Draft!Save(s)
    <2>1. PICK s \in Draft!Statuses : Draft!Save(s)
      BY <1>6
    <2> DEFINE q == [version |-> s3, status |-> s]
    <2>2. /\ s9' = {q} /\ s5' = s /\ s3 # 0 /\ s2 = "open" /\ UNCHANGED <<s2, s6, s8, s11>>
      BY <2>1 DEF Draft!Save
    <2>3. q.version = s3 /\ q.status = s
      OBVIOUS
    <2> HIDE DEF q
    <2> QED
      BY <2>2, <2>3
  <1>7. CASE UNCHANGED Draft!vars
    BY <1>7 DEF Draft!vars
  <1> QED
    BY <1>1, <1>2, <1>3, <1>4, <1>5, <1>6, <1>7 DEF Draft!Next

-----------------------------------------------------------------------------
(* The thesis. *)

LEMMA ThesisStarts == Thesis!Init => ThesisInv
  <1> SUFFICES ASSUME Thesis!Init PROVE ThesisInv
    OBVIOUS
  <1>1. s1 = 2 /\ s2 = {} /\ s3 = {} /\ s4 = {} /\ s5 = FALSE
    BY DEF Thesis!Init, Thesis!TodayStart
  <1>2. 2 <= MaxThesisNow
    BY RecordsAssumption
  <1>3. s1 \in Nat /\ Thesis!TodayStart <= s1 /\ s1 <= MaxThesisNow
    BY <1>1, <1>2 DEF Thesis!TodayStart
  <1>4. ThesisTypes
    BY <1>1, <1>3 DEF ThesisTypes
  <1> QED
    BY <1>1, <1>4 DEF ThesisInv, ThesisCallsSound, Thesis!ThesisHolds, ReviewsInOrder

\* The clock.
LEMMA ThesisTicks ==
  ASSUME ThesisInv, Thesis!Tick
  PROVE  ThesisInv'
  <1>1. s1 < MaxThesisNow /\ s1' = s1 + 1 /\ UNCHANGED <<s2, s3, s4, s5>>
    BY DEF Thesis!Tick
  <1>2. s1 \in Nat /\ MaxThesisNow \in Nat /\ Thesis!TodayStart \in Nat
    BY RecordsAssumption DEF ThesisInv, ThesisTypes, Thesis!TodayStart
  <1>3. ThesisTypes'
    BY <1>1, <1>2 DEF ThesisInv, ThesisTypes
  <1>4. ThesisCallsSound' /\ Thesis!ThesisHolds'
    BY <1>1 DEF ThesisInv, ThesisCallsSound, Thesis!ThesisHolds
  <1>5. (\A r \in s3 : r.at \in Nat) /\ (\A c \in s4 : c.kind = "review" => c.at \in Nat)
    BY DEF ThesisInv, ThesisTypes, ThesisCall
  <1>6. ReviewsInOrder'
    BY <1>1, <1>2, <1>5 DEF ThesisInv, ReviewsInOrder
  <1> QED
    BY <1>3, <1>4, <1>6 DEF ThesisInv

\* A call that has read.
LEMMA ThesisReads ==
  ASSUME ThesisInv, NEW c \in ThesisCall, s4' = s4 \cup {c}, UNCHANGED <<s1, s2, s3>>,
         c.kind = "save" =>
           /\ c.status = "ACTIVE" => c.complete /\ c.activatedAt # Thesis!Null
           /\ (c.status = "ARCHIVED") = (c.archivedAt # Thesis!Null)
           /\ s5' = s5,
         c.kind = "review" =>
           /\ s2 # {} /\ c.at = s1
           /\ s5' = (s5 \/ \E d \in s4 : d.kind = "review")
  PROVE  ThesisInv'
  <1>1. ThesisTypes'
    <2>1. s5' \in BOOLEAN
      BY DEF ThesisInv, ThesisTypes, ThesisCall
    <2> QED
      BY <2>1 DEF ThesisInv, ThesisTypes
  <1>2. ThesisCallsSound' /\ Thesis!ThesisHolds'
    BY DEF ThesisInv, ThesisCallsSound, Thesis!ThesisHolds
  <1>3. s1 \in Nat
    BY DEF ThesisInv, ThesisTypes
  <1>4. (\A r \in s3' : r.at <= s1') /\ (\A d \in s4' : d.kind = "review" => d.at <= s1')
    BY <1>3 DEF ThesisInv, ReviewsInOrder
  <1>5. CASE c.kind = "save"
    BY <1>1, <1>2, <1>4, <1>5 DEF ThesisInv, ReviewsInOrder
  <1>6. CASE c.kind = "review"
    <2>1. ~s5' => ~s5 /\ \A d \in s4 : d.kind # "review"
      BY <1>6
    <2>2. \A r \in s3 : r.at <= c.at
      BY <1>4, <1>6
    <2> QED
      BY <1>1, <1>2, <1>4, <1>6, <2>1, <2>2 DEF ThesisInv, ReviewsInOrder
  <1> QED
    BY <1>1, <1>2, <1>5, <1>6 DEF ThesisInv, ReviewsInOrder, ThesisCall

LEMMA ThesisSaveReads ==
  ASSUME ThesisInv,
         NEW status \in Thesis!Statuses, NEW complete \in BOOLEAN,
         NEW due \in ThesisDues \cup {Thesis!Null}, Thesis!SaveRead(status, complete, due)
  PROVE  ThesisInv'
  <1> DEFINE before == IF s2 = {} THEN Thesis!Null ELSE (CHOOSE t \in s2 : TRUE).activatedAt
             activated == IF status = "ACTIVE" /\ before = Thesis!Null THEN s1 ELSE before
             archived == IF status = "ARCHIVED" THEN s1 ELSE Thesis!Null
             c == [kind |-> "save", status |-> status, complete |-> complete, due |-> due,
                   fresh |-> s2 = {}, activatedAt |-> activated, archivedAt |-> archived]
  <1>1. before \in Nat
    <2>1. CASE s2 = {}
      BY <2>1 DEF Thesis!Null
    <2>2. CASE s2 # {}
      <3>1. (CHOOSE t \in s2 : TRUE) \in s2
        BY <2>2
      <3> QED
        BY <2>2, <3>1 DEF ThesisInv, ThesisTypes, ThesisRow
    <2> QED
      BY <2>1, <2>2
  <1>2. s1 \in Nat /\ s1 # Thesis!Null
    BY DEF ThesisInv, ThesisTypes, Thesis!TodayStart, Thesis!Null
  <1> HIDE DEF before
  <1>3. /\ activated \in Nat /\ (status = "ACTIVE" => activated # Thesis!Null)
        /\ archived \in Nat /\ (status = "ARCHIVED") = (archived # Thesis!Null)
    BY <1>1, <1>2 DEF Thesis!Null
  <1>4. (status = "ACTIVE" => complete) /\ s4' = s4 \cup {c} /\ UNCHANGED <<s1, s2, s3, s5>>
    BY DEF Thesis!SaveRead, before
  <1> HIDE DEF activated, archived
  <1>5. /\ c \in ThesisCall /\ c.kind = "save" /\ c.status = status /\ c.complete = complete
        /\ c.activatedAt = activated /\ c.archivedAt = archived
    <2>1. (s2 = {}) \in BOOLEAN
      OBVIOUS
    <2> QED
      BY <1>3, <2>1 DEF ThesisCall
  <1> HIDE DEF c
  <1> QED
    BY <1>3, <1>4, <1>5, ThesisReads

LEMMA ThesisReviewReads ==
  ASSUME ThesisInv, NEW outcome \in Thesis!Outcomes, Thesis!ReviewRead(outcome)
  PROVE  ThesisInv'
  <1>1. PICK t \in s2 :
          /\ t.status = "ACTIVE"
          /\ s4' = s4 \cup {[kind |-> "review", outcome |-> outcome, at |-> s1,
                             status |-> t.status]}
          /\ s5' = (s5 \/ \E d \in s4 : d.kind = "review") /\ UNCHANGED <<s1, s2, s3>>
    BY DEF Thesis!ReviewRead
  <1> DEFINE c == [kind |-> "review", outcome |-> outcome, at |-> s1, status |-> t.status]
  <1>2. c \in ThesisCall /\ c.kind = "review" /\ c.at = s1
    BY <1>1 DEF ThesisCall, ThesisInv, ThesisTypes
  <1>3. s4' = s4 \cup {c}
    BY <1>1
  <1> HIDE DEF c
  <1> QED
    BY <1>1, <1>2, <1>3, ThesisReads

LEMMA ThesisSaveWrites ==
  ASSUME ThesisInv, NEW c \in s4, Thesis!SaveWrite(c)
  PROVE  ThesisInv'
  <1> DEFINE
        Columns(t) == [t EXCEPT !.status = c.status, !.complete = c.complete, !.due = c.due,
                                !.archivedAt = c.archivedAt,
                                !.activatedAt = IF c.fresh /\ c.status # "ACTIVE" THEN @
                                                ELSE c.activatedAt]
        new == [status |-> "DRAFT", complete |-> FALSE, due |-> Thesis!Null,
                activatedAt |-> Thesis!Null, archivedAt |-> Thesis!Null,
                lastReviewedAt |-> Thesis!Null, latestOutcome |-> "none"]
  <1>1. /\ s2' = IF s2 = {} THEN {Columns(new)} ELSE {Columns(t) : t \in s2}
        /\ s4' = s4 \ {c} /\ UNCHANGED <<s1, s3, s5>> /\ c.kind = "save"
    BY DEF Thesis!SaveWrite
  <1>2. c \in [kind : {"save"}, status : Thesis!Statuses, complete : BOOLEAN,
               due : ThesisDues \cup {Thesis!Null}, fresh : BOOLEAN, activatedAt : Nat,
               archivedAt : Nat]
    BY <1>1 DEF ThesisInv, ThesisTypes, ThesisCall
  <1>3. /\ c.status = "ACTIVE" => c.complete /\ c.activatedAt # Thesis!Null
        /\ (c.status = "ARCHIVED") = (c.archivedAt # Thesis!Null)
    BY <1>1 DEF ThesisInv, ThesisCallsSound
  <1>4. ASSUME NEW t \in ThesisRow
        PROVE  /\ Columns(t) \in ThesisRow
               /\ Columns(t).status = "ACTIVE" =>
                    Columns(t).complete /\ Columns(t).activatedAt # Thesis!Null
               /\ (Columns(t).status = "ARCHIVED") = (Columns(t).archivedAt # Thesis!Null)
               /\ Columns(t).lastReviewedAt = t.lastReviewedAt
               /\ Columns(t).latestOutcome = t.latestOutcome
    <2>1. PICK at : at = IF c.fresh /\ c.status # "ACTIVE" THEN t.activatedAt ELSE c.activatedAt
      OBVIOUS
    <2>2. Columns(t) = [t EXCEPT !.status = c.status, !.complete = c.complete, !.due = c.due,
                                 !.archivedAt = c.archivedAt, !.activatedAt = at]
      BY <2>1
    <2>3. PICK u : u = [t EXCEPT !.status = c.status, !.complete = c.complete, !.due = c.due,
                                 !.archivedAt = c.archivedAt, !.activatedAt = at]
      OBVIOUS
    <2>4. at \in Nat /\ (c.status = "ACTIVE" => at = c.activatedAt)
      BY <1>2, <2>1 DEF ThesisRow
    <2>5. /\ u \in ThesisRow /\ u.status = c.status /\ u.complete = c.complete
          /\ u.activatedAt = at /\ u.archivedAt = c.archivedAt
          /\ u.lastReviewedAt = t.lastReviewedAt /\ u.latestOutcome = t.latestOutcome
      BY <1>2, <2>3, <2>4 DEF ThesisRow
    <2> QED
      BY <1>3, <2>2, <2>3, <2>4, <2>5
  <1>5. new \in ThesisRow /\ new.lastReviewedAt = Thesis!Null
    BY DEF ThesisRow, Thesis!Statuses, Thesis!Null
  <1> HIDE DEF Columns, new
  <1>6. ASSUME NEW u \in s2'
        PROVE  \E t \in ThesisRow : /\ u = Columns(t)
                                    /\ s2 # {} => t \in s2
                                    /\ s2 = {} => t = new
    BY <1>1, <1>5 DEF ThesisInv, ThesisTypes
  <1>7. s2' # {} /\ \A t, u \in s2' : t = u
    BY <1>1 DEF ThesisInv, ThesisTypes
  <1>8. ThesisTypes'
    BY <1>1, <1>4, <1>6, <1>7 DEF ThesisInv, ThesisTypes
  <1>9. ThesisCallsSound'
    BY <1>1, <1>7 DEF ThesisInv, ThesisCallsSound
  <1>10. ASSUME NEW u \in s2'
         PROVE  /\ u.status = "ACTIVE" => u.complete /\ u.activatedAt # Thesis!Null
                /\ (u.status = "ARCHIVED") = (u.archivedAt # Thesis!Null)
                /\ IF s3 = {} THEN u.lastReviewedAt = Thesis!Null
                   ELSE \E r \in s3 : r.at = u.lastReviewedAt /\ r.outcome = u.latestOutcome
                /\ ~s5 => \A r \in s3 : r.at <= u.lastReviewedAt
    <2>1. PICK t \in ThesisRow : u = Columns(t) /\ (s2 # {} => t \in s2) /\ (s2 = {} => t = new)
      BY <1>6
    <2>2. CASE s2 # {}
      BY <1>4, <2>1, <2>2 DEF ThesisInv, Thesis!ThesisHolds, ReviewsInOrder
    <2>3. CASE s2 = {}
      <3>1. s3 = {}
        BY <2>3 DEF ThesisInv, ThesisCallsSound
      <3> QED
        BY <1>4, <1>5, <2>1, <2>3, <3>1
    <2> QED
      BY <2>2, <2>3
  <1>11. Thesis!ThesisHolds'
    BY <1>1, <1>10 DEF ThesisInv, Thesis!ThesisHolds
  <1>12. ReviewsInOrder'
    BY <1>1, <1>10 DEF ThesisInv, ReviewsInOrder
  <1> QED
    BY <1>8, <1>9, <1>11, <1>12 DEF ThesisInv

LEMMA ThesisReviewWrites ==
  ASSUME ThesisInv, NEW c \in s4, Thesis!ReviewWrite(c)
  PROVE  ThesisInv'
  <1> DEFINE r == [at |-> c.at, outcome |-> c.outcome, status |-> c.status]
             Last(t) == [t EXCEPT !.lastReviewedAt = c.at, !.latestOutcome = c.outcome]
  <1>1. /\ s3' = s3 \cup {r} /\ s2' = {Last(t) : t \in s2}
        /\ s4' = s4 \ {c} /\ UNCHANGED <<s1, s5>> /\ c.kind = "review"
    BY DEF Thesis!ReviewWrite, Thesis!LastReview
  <1>2. c \in [kind : {"review"}, outcome : Thesis!Outcomes, at : Nat, status : {"ACTIVE"}]
    BY <1>1 DEF ThesisInv, ThesisTypes, ThesisCall
  <1>3. /\ r \in [at : Nat, outcome : Thesis!Outcomes, status : Thesis!Statuses]
        /\ r.at = c.at /\ r.outcome = c.outcome /\ r.status = "ACTIVE"
    BY <1>2 DEF Thesis!Statuses
  <1>4. ASSUME NEW t \in ThesisRow
        PROVE  /\ Last(t) \in ThesisRow
               /\ Last(t).lastReviewedAt = c.at /\ Last(t).latestOutcome = c.outcome
               /\ Last(t).status = t.status /\ Last(t).complete = t.complete
               /\ Last(t).activatedAt = t.activatedAt /\ Last(t).archivedAt = t.archivedAt
    BY <1>2 DEF ThesisRow
  <1> HIDE DEF r, Last
  <1>5. s2 \subseteq ThesisRow /\ s2 # {}
    BY <1>1 DEF ThesisInv, ThesisTypes, ThesisCallsSound
  <1>6. s2' # {} /\ \A t, u \in s2' : t = u
    BY <1>1, <1>5 DEF ThesisInv, ThesisTypes
  <1>7. ThesisTypes'
    <2>1. s2' \subseteq ThesisRow
      BY <1>1, <1>4, <1>5
    <2> QED
      BY <1>1, <1>3, <1>6, <2>1 DEF ThesisInv, ThesisTypes
  <1>8. ThesisCallsSound'
    BY <1>1, <1>6 DEF ThesisInv, ThesisCallsSound
  <1>9. Thesis!ThesisHolds'
    <2>1. ASSUME NEW u \in s2'
          PROVE  /\ u.status = "ACTIVE" => u.complete /\ u.activatedAt # Thesis!Null
                 /\ (u.status = "ARCHIVED") = (u.archivedAt # Thesis!Null)
                 /\ \E q \in s3' : q.at = u.lastReviewedAt /\ q.outcome = u.latestOutcome
      <3>1. PICK t \in s2 : u = Last(t)
        BY <1>1
      <3>2. \E q \in s3' : q.at = u.lastReviewedAt /\ q.outcome = u.latestOutcome
        BY <1>1, <1>3, <1>4, <1>5, <3>1
      <3> QED
        BY <1>4, <1>5, <3>1, <3>2 DEF ThesisInv, Thesis!ThesisHolds
    <2>2. \A q \in s3' : q.status = "ACTIVE"
      BY <1>1, <1>3 DEF ThesisInv, Thesis!ThesisHolds
    <2>3. s3' # {}
      BY <1>1
    <2> QED
      BY <2>1, <2>2, <2>3 DEF Thesis!ThesisHolds
  <1>10. ReviewsInOrder'
    <2>1. (\A q \in s3' : q.at <= s1') /\ (\A d \in s4' : d.kind = "review" => d.at <= s1')
      BY <1>1, <1>3 DEF ThesisInv, ReviewsInOrder
    <2>2. ~s5 => \A d \in s4' : d.kind # "review"
      BY <1>1 DEF ThesisInv, ReviewsInOrder
    <2>3. ~s5 => \A q \in s3' : q.at <= c.at
      <3>1. c.at <= c.at
        BY <1>2
      <3> QED
        BY <1>1, <1>3, <3>1 DEF ThesisInv, ReviewsInOrder
    <2>4. \A u \in s2' : u.lastReviewedAt = c.at
      BY <1>1, <1>4, <1>5
    <2> QED
      BY <1>1, <2>1, <2>2, <2>3, <2>4 DEF ReviewsInOrder
  <1> QED
    BY <1>7, <1>8, <1>9, <1>10 DEF ThesisInv

LEMMA ThesisKeeps ==
  ASSUME ThesisInv, Thesis!Next \/ UNCHANGED Thesis!vars
  PROVE  ThesisInv'
  <1>1. CASE UNCHANGED Thesis!vars
    BY <1>1 DEF Thesis!vars, ThesisInv, ThesisTypes, ThesisCallsSound, Thesis!ThesisHolds,
                ReviewsInOrder
  <1> QED
    BY <1>1, ThesisTicks, ThesisSaveReads, ThesisReviewReads, ThesisSaveWrites,
       ThesisReviewWrites DEF Thesis!Next

\* Without an overlap the page's last review is the one of the thesis.
LEMMA LastReviewShown ==
  ASSUME ThesisInv, ~s5, NEW t \in s2
  PROVE  Thesis!LatestReview(t) = t.lastReviewedAt
  <1>1. CASE s3 = {}
    BY <1>1 DEF Thesis!LatestReview
  <1>2. CASE s3 # {}
    <2> DEFINE times == {r.at : r \in s3}
               Last(a) == \A r \in s3 : r.at <= a
    <2>1. /\ t.lastReviewedAt \in times /\ Last(t.lastReviewedAt)
      BY <1>2 DEF ThesisInv, Thesis!ThesisHolds, ReviewsInOrder
    <2>2. ASSUME NEW a \in times, Last(a)
          PROVE  a = t.lastReviewedAt
      <3>1. a \in Nat /\ t.lastReviewedAt \in Nat
        BY <2>1 DEF ThesisInv, ThesisTypes
      <3>2. a <= t.lastReviewedAt /\ t.lastReviewedAt <= a
        BY <2>1, <2>2
      <3> QED
        BY <3>1, <3>2
    <2>3. Thesis!LatestReview(t) = CHOOSE a \in times : Last(a)
      BY <1>2 DEF Thesis!LatestReview
    <2> QED
      BY <2>1, <2>2, <2>3
  <1> QED
    BY <1>1, <1>2

LEMMA SignalsDoAgree == ThesisInv => Thesis!SignalsAgree
  <1> SUFFICES ASSUME ThesisInv, NEW t \in s2, t.status = "ACTIVE", ~s5
               PROVE  /\ Thesis!ThesisBucket(t) = "overdue" =>
                           "overdue_thesis_review" \in Thesis!StockAttention
                      /\ Thesis!ThesisBucket(t) \in {"completed", "unscheduled", "upcoming"} =>
                           "overdue_thesis_review" \notin Thesis!StockAttention
                      /\ (Thesis!Health(t) = "invalidated") =
                           ("invalidated_thesis_while_held" \in Thesis!StockAttention)
                      /\ "overdue_thesis_review" \in Thesis!StockAttention =>
                           Thesis!Health(t) \in {"needs_review", "invalidated"}
    BY DEF Thesis!SignalsAgree
  <1> DEFINE overdue == Thesis!isThesisReviewOverdue(t.due, t.lastReviewedAt, s1)
             invalid == t.latestOutcome = "INVALIDATED"
  <1>1. \A u \in s2 : u = t
    BY DEF ThesisInv, ThesisTypes
  <1>2. /\ "overdue_thesis_review" \in Thesis!StockAttention <=> overdue
        /\ "invalidated_thesis_while_held" \in Thesis!StockAttention <=> invalid
    BY <1>1 DEF Thesis!StockAttention
  <1>3. /\ t.due \in Nat /\ t.lastReviewedAt \in Nat
        /\ s1 \in Nat /\ 2 <= s1 /\ s1 <= MaxThesisNow /\ MaxThesisNow \in Nat
    <2>1. t \in ThesisRow /\ s1 \in Nat /\ 2 <= s1 /\ s1 <= MaxThesisNow
      BY DEF ThesisInv, ThesisTypes, Thesis!TodayStart
    <2>2. t.due \in ThesisDues \/ t.due = 0
      BY <2>1 DEF ThesisRow, Thesis!Null
    <2>3. ThesisDues \subseteq Nat /\ MaxThesisNow \in Nat
      BY RecordsAssumption
    <2>4. t.due \in Nat
      <3>1. CASE t.due \in ThesisDues
        BY <2>3, <3>1
      <3>2. CASE t.due = 0
        BY <3>2
      <3> QED
        BY <2>2, <3>1, <3>2
    <2>5. t.lastReviewedAt \in Nat
      BY <2>1 DEF ThesisRow
    <2> QED
      BY <2>1, <2>3, <2>4, <2>5
  <1>4. Thesis!LatestReview(t) = t.lastReviewedAt
    BY LastReviewShown
  <1>5. overdue <=> t.due # 0 /\ t.due < s1 /\ (t.lastReviewedAt = 0 \/ t.lastReviewedAt < t.due)
    BY DEF Thesis!isThesisReviewOverdue, Thesis!Null
  <1> HIDE DEF overdue
  <1>6. /\ Thesis!ThesisBucket(t) = "overdue" => overdue
        /\ Thesis!ThesisBucket(t) \in {"completed", "unscheduled", "upcoming"} => ~overdue
    BY <1>3, <1>4, <1>5 DEF Thesis!ThesisBucket, Thesis!isThesisReviewOverdue, Thesis!Null,
       Thesis!TodayStart, Thesis!TomorrowStart
  <1>7. /\ Thesis!Health(t) = "invalidated" <=> invalid
        /\ overdue => Thesis!Health(t) \in {"needs_review", "invalidated"}
    BY <1>5 DEF Thesis!Health, Thesis!Null
  <1> QED
    BY <1>2, <1>6, <1>7

-----------------------------------------------------------------------------
(* The stocks. *)

LEMMA StockChosen == Stock!SomeSymbol \in Stocks /\ Stock!SomeText \in Insights
  <1>1. Stocks # {} /\ Insights # {}
    BY RecordsAssumption
  <1> QED
    BY <1>1 DEF Stock!SomeSymbol, Stock!SomeText

LEMMA StockIdle ==
  /\ Stock!Idle \in Stock!Call /\ Stock!Idle.kind = "none" /\ Stock!Idle.phase = "idle"
  /\ Stock!Idle.awaited = FALSE /\ Stock!Idle.key = 0
  BY StockChosen DEF Stock!Idle, Stock!Call, Stock!Kinds, Stock!None, Stock!Keys

LEMMA StockClosed ==
  /\ Stock!Closed \in [open : BOOLEAN, text : Insights, symbol : Stocks, pending : BOOLEAN,
                       saved : Stocks \cup {Stock!None}]
  /\ Stock!Closed.open = FALSE /\ Stock!Closed.pending = FALSE /\ Stock!Closed.saved = Stock!None
  BY StockChosen DEF Stock!Closed

\* An opening is not the key an agent chose.
LEMMA OpeningsPositive == 0 \notin Openings
  BY RecordsAssumption

LEMMA KeysAreNumbers == Stock!Keys \subseteq Nat
  <1> SUFFICES ASSUME NEW k \in Stock!Keys PROVE k \in Nat
    OBVIOUS
  <1>1. CASE k = 0
    BY <1>1
  <1>2. CASE k \in Openings
    BY <1>2, RecordsAssumption
  <1> QED
    BY <1>1, <1>2 DEF Stock!Keys

LEMMA StockStarts == Stock!Init => StockInv
  <1> SUFFICES ASSUME Stock!Init PROVE StockInv
    OBVIOUS
  <1>1. /\ s1 = [s \in Stocks |-> Stock!None] /\ s2 = {} /\ s3 = 0 /\ s4 = Stock!Closed
        /\ s5 = [c \in StockSlots |-> Stock!Idle] /\ s6 = {} /\ s7 = {}
    BY DEF Stock!Init
  <1>2. \A c \in StockSlots : s5[c] = Stock!Idle
    BY <1>1
  <1>3. StockTypes
    BY <1>1, StockIdle, StockClosed DEF StockTypes, Stock!Keys
  <1>4. RequestsSound
    BY <1>2, StockIdle DEF RequestsSound
  <1>5. DialogWaits
    BY <1>1, <1>2, StockIdle, StockClosed DEF DialogWaits
  <1>6. RecordsKeyed /\ Stock!CaptureHolds
    BY <1>1, StockClosed DEF RecordsKeyed, Stock!CaptureHolds
  <1> QED
    BY <1>3, <1>4, <1>5, <1>6 DEF StockInv

\* The dialog alone changes, and waits for nothing.
LEMMA DialogChanges ==
  ASSUME StockInv, UNCHANGED <<s1, s2, s5, s6, s7>>, s3' \in Stock!Keys, ~s4.pending,
         s4' \in [open : BOOLEAN, text : Insights, symbol : Stocks, pending : BOOLEAN,
                  saved : Stocks \cup {Stock!None}],
         s4'.open => s3' # 0, ~s4'.pending, s4'.saved = Stock!None
  PROVE  StockInv'
  <1>1. \A c \in StockSlots : ~s5[c].awaited
    BY DEF StockInv, DialogWaits
  <1>2. StockTypes' /\ RecordsKeyed' /\ RequestsSound'
    BY DEF StockInv, StockTypes, RecordsKeyed, RequestsSound, Stock!Followed
  <1>3. DialogWaits'
    BY <1>1 DEF DialogWaits
  <1>4. Stock!CaptureHolds'
    BY DEF StockInv, Stock!CaptureHolds, Stock!Followed
  <1> QED
    BY <1>2, <1>3, <1>4 DEF StockInv

\* One request goes on, or another takes its place.
LEMMA RequestGoesOn ==
  ASSUME StockInv, NEW c \in StockSlots, NEW q \in Stock!Call, s5' = [s5 EXCEPT ![c] = q],
         UNCHANGED <<s1, s2, s3, s4, s6, s7>>,
         q.kind = "evidence" => /\ q.key = q.opening /\ q.key # 0
                                /\ <<q.opening, q.symbol, q.text>> \in s6,
         q.kind = "agent" => q.key = 0,
         q.phase = "create" => q.symbol \in Stock!Followed,
         q.awaited => s5[c].awaited /\ q.key = s5[c].key /\ q.phase # "create"
  PROVE  StockInv'
  <1>1. /\ s5' \in [StockSlots -> Stock!Call] /\ s5'[c] = q
        /\ \A d \in StockSlots : d # c => s5'[d] = s5[d]
    BY DEF StockInv, StockTypes
  <1>2. StockTypes' /\ RecordsKeyed'
    BY <1>1 DEF StockInv, StockTypes, RecordsKeyed
  <1>3. Stock!CaptureHolds'
    BY DEF StockInv, Stock!CaptureHolds, Stock!Followed, Stock!Stored, Stock!idempotencyKey
  <1>4. RequestsSound'
    BY <1>1 DEF StockInv, RequestsSound, Stock!Followed
  <1>5. \A d \in StockSlots : s5'[d].awaited => s5[d].awaited /\ s5'[d].key = s5[d].key
    BY <1>1
  <1>6. DialogWaits'
    BY <1>1, <1>5 DEF StockInv, DialogWaits
  <1> QED
    BY <1>2, <1>3, <1>4, <1>6 DEF StockInv

LEMMA EvidenceIsSent ==
  ASSUME StockInv, NEW c \in StockSlots, Stock!SaveEvidence(c)
  PROVE  StockInv'
  <1> DEFINE q == [Stock!Idle EXCEPT !.kind = "evidence", !.symbol = s4.symbol, !.key = s3,
                                     !.text = s4.text, !.phase = "sent", !.opening = s3,
                                     !.awaited = TRUE]
             e == <<s3, s4.symbol, s4.text>>
  <1>1. /\ s4.open /\ ~s4.pending /\ s4.saved = Stock!None
        /\ s5' = [s5 EXCEPT ![c] = q] /\ s4' = [s4 EXCEPT !.pending = TRUE]
        /\ s6' = s6 \cup {e} /\ UNCHANGED <<s1, s2, s3>>
    BY DEF Stock!SaveEvidence, Stock!Start, Stock!idempotencyKey
  <1>2. s3 \in Stock!Keys /\ s3 # 0 /\ s4.symbol \in Stocks /\ s4.text \in Insights
    BY <1>1 DEF StockInv, StockTypes, DialogWaits
  <1>3. /\ q \in Stock!Call /\ q.kind = "evidence" /\ q.key = s3 /\ q.opening = s3
        /\ q.symbol = s4.symbol /\ q.text = s4.text /\ q.phase = "sent" /\ q.awaited
    BY <1>2, StockIdle, KeysAreNumbers DEF Stock!Call, Stock!Kinds
  <1>4. <<q.opening, q.symbol, q.text>> \in s6'
    BY <1>1, <1>3
  <1> HIDE DEF q, e
  <1>5. /\ s5' \in [StockSlots -> Stock!Call] /\ s5'[c] = q
        /\ \A d \in StockSlots : d # c => s5'[d] = s5[d]
    BY <1>1, <1>3 DEF StockInv, StockTypes
  <1>6. /\ s4' \in [open : BOOLEAN, text : Insights, symbol : Stocks, pending : BOOLEAN,
                    saved : Stocks \cup {Stock!None}]
        /\ s4'.open = s4.open /\ s4'.pending /\ s4'.saved = Stock!None
    BY <1>1 DEF StockInv, StockTypes
  <1>7. StockTypes' /\ RecordsKeyed'
    BY <1>1, <1>5, <1>6 DEF StockInv, StockTypes, RecordsKeyed
  <1>8. RequestsSound'
    BY <1>1, <1>2, <1>3, <1>4, <1>5 DEF StockInv, RequestsSound, Stock!Followed
  <1>9. \A d \in StockSlots : d # c => ~s5'[d].awaited
    BY <1>1, <1>5 DEF StockInv, DialogWaits
  <1>10. DialogWaits'
    BY <1>1, <1>2, <1>3, <1>5, <1>6, <1>9 DEF DialogWaits
  <1>11. Stock!CaptureHolds'
    BY <1>1, <1>6 DEF StockInv, Stock!CaptureHolds, Stock!Followed
  <1> QED
    BY <1>7, <1>8, <1>10, <1>11 DEF StockInv

LEMMA DialogGivesUp ==
  ASSUME StockInv, Stock!SaveFailed
  PROVE  StockInv'
  <1>1. /\ s4.pending /\ s4' = [s4 EXCEPT !.pending = FALSE]
        /\ s5' = [c \in StockSlots |-> [s5[c] EXCEPT !.awaited = FALSE]]
        /\ UNCHANGED <<s1, s2, s3, s6, s7>>
    BY DEF Stock!SaveFailed
  <1>2. ASSUME NEW c \in StockSlots
        PROVE  /\ s5'[c] \in Stock!Call /\ s5'[c].awaited = FALSE
               /\ s5'[c].kind = s5[c].kind /\ s5'[c].key = s5[c].key
               /\ s5'[c].opening = s5[c].opening /\ s5'[c].symbol = s5[c].symbol
               /\ s5'[c].text = s5[c].text /\ s5'[c].phase = s5[c].phase
    <2>1. s5[c] \in Stock!Call /\ s5'[c] = [s5[c] EXCEPT !.awaited = FALSE]
      BY <1>1 DEF StockInv, StockTypes
    <2> QED
      BY <2>1 DEF Stock!Call
  <1>3. s5' \in [StockSlots -> Stock!Call]
    BY <1>1, <1>2
  <1>4. /\ s4' \in [open : BOOLEAN, text : Insights, symbol : Stocks, pending : BOOLEAN,
                    saved : Stocks \cup {Stock!None}]
        /\ s4'.open = s4.open /\ s4'.pending = FALSE /\ s4'.saved = s4.saved
    BY <1>1 DEF StockInv, StockTypes
  <1>5. StockTypes' /\ RecordsKeyed'
    BY <1>1, <1>3, <1>4 DEF StockInv, StockTypes, RecordsKeyed
  <1>6. RequestsSound'
    <2>1. Stock!Followed' = Stock!Followed /\ s6' = s6
      BY <1>1 DEF Stock!Followed
    <2>2. ASSUME NEW c \in StockSlots
          PROVE  /\ s5'[c].kind = "evidence" =>
                      /\ s5'[c].key = s5'[c].opening /\ s5'[c].key # 0
                      /\ <<s5'[c].opening, s5'[c].symbol, s5'[c].text>> \in s6
                 /\ s5'[c].kind = "agent" => s5'[c].key = 0
                 /\ s5'[c].phase = "create" => s5'[c].symbol \in Stock!Followed
      <3>1. /\ s5[c].kind = "evidence" => /\ s5[c].key = s5[c].opening /\ s5[c].key # 0
                                          /\ <<s5[c].opening, s5[c].symbol, s5[c].text>> \in s6
            /\ s5[c].kind = "agent" => s5[c].key = 0
            /\ s5[c].phase = "create" => s5[c].symbol \in Stock!Followed
        BY DEF StockInv, RequestsSound
      <3> QED
        BY <1>2, <3>1
    <2> QED
      BY <2>1, <2>2 DEF RequestsSound
  <1>7. DialogWaits'
    BY <1>1, <1>2, <1>4 DEF StockInv, DialogWaits
  <1>8. Stock!CaptureHolds'
    BY <1>1, <1>4 DEF StockInv, Stock!CaptureHolds, Stock!Followed, DialogWaits
  <1> QED
    BY <1>5, <1>6, <1>7, <1>8 DEF StockInv

\* The status of an item changes; one that is on the list stays on it.
LEMMA ItemChanges ==
  ASSUME StockInv, NEW s \in Stocks, NEW status \in {"WATCHING", "ARCHIVED"},
         s1' = [s1 EXCEPT ![s] = status],
         \/ status = "WATCHING" /\ s7 \ {s} \subseteq s7'
         \/ s7' = s7 \cup {s},
         UNCHANGED <<s2, s3, s4, s6>>
  PROVE  /\ s1' \in [Stocks -> {Stock!None, "WATCHING", "ARCHIVED"}]
         /\ Stock!Followed \subseteq Stock!Followed' /\ s \in Stock!Followed'
         /\ \A t \in Stocks : t \in s7 \/ s1[t] = "WATCHING" => t \in s7' \/ s1'[t] = "WATCHING"
         /\ s \in s7' \/ s1'[s] = "WATCHING"
         /\ Stock!CaptureHolds'
  <1>1. /\ s1' \in [Stocks -> {Stock!None, "WATCHING", "ARCHIVED"}] /\ s1'[s] = status
        /\ \A t \in Stocks : t # s => s1'[t] = s1[t]
    BY DEF StockInv, StockTypes
  <1>2. Stock!Followed \subseteq Stock!Followed' /\ s \in Stock!Followed'
    BY <1>1 DEF Stock!Followed, Stock!None
  <1>3. /\ \A t \in Stocks : t \in s7 \/ s1[t] = "WATCHING" => t \in s7' \/ s1'[t] = "WATCHING"
        /\ s \in s7' \/ s1'[s] = "WATCHING"
    BY <1>1
  <1>4. s4.saved \in Stocks \cup {Stock!None}
    BY DEF StockInv, StockTypes
  <1>5. Stock!CaptureHolds'
    BY <1>2, <1>3, <1>4 DEF StockInv, Stock!CaptureHolds, Stock!Stored, Stock!idempotencyKey
  <1> QED
    BY <1>1, <1>2, <1>3, <1>5

LEMMA ItemIsUpdated ==
  ASSUME StockInv, NEW s \in Stocks, Stock!UpdateItem(s)
  PROVE  StockInv'
  <1>1. PICK status \in {"WATCHING", "ARCHIVED"} :
          /\ s1' = [s1 EXCEPT ![s] = status]
          /\ s7' = IF status = "ARCHIVED" THEN s7 \cup {s} ELSE s7
          /\ UNCHANGED <<s2, s3, s4, s5, s6>>
    BY DEF Stock!UpdateItem
  <1>2. /\ s1' \in [Stocks -> {Stock!None, "WATCHING", "ARCHIVED"}]
        /\ Stock!Followed \subseteq Stock!Followed' /\ Stock!CaptureHolds'
        /\ \A t \in Stocks : t \in s7 \/ s1[t] = "WATCHING" => t \in s7' \/ s1'[t] = "WATCHING"
    BY <1>1, ItemChanges
  <1>3. StockTypes' /\ RecordsKeyed'
    BY <1>1, <1>2 DEF StockInv, StockTypes, RecordsKeyed
  <1>4. RequestsSound'
    BY <1>1, <1>2 DEF StockInv, RequestsSound
  <1>5. \A c \in StockSlots : s5[c].symbol \in Stocks
    BY DEF StockInv, StockTypes, Stock!Call
  <1>6. DialogWaits'
    BY <1>1, <1>2, <1>5 DEF StockInv, DialogWaits
  <1> QED
    BY <1>2, <1>3, <1>4, <1>6 DEF StockInv

LEMMA ItemIsUpserted ==
  ASSUME StockInv, NEW c \in StockSlots, Stock!Upsert(c)
  PROVE  StockInv'
  <1> DEFINE s == s5[c].symbol
             q == IF s5[c].kind = "follow" THEN Stock!Idle
                  ELSE [s5[c] EXCEPT !.phase = "create"]
  <1>1. /\ s1' = [s1 EXCEPT ![s] = "WATCHING"] /\ s7' = s7 \ {s}
        /\ s5' = [s5 EXCEPT ![c] = q] /\ UNCHANGED <<s2, s3, s4, s6>>
    BY DEF Stock!Upsert, Stock!Upserted
  <1>2. s5[c] \in Stock!Call /\ s \in Stocks
    BY DEF StockInv, StockTypes, Stock!Call
  <1>3. /\ q \in Stock!Call
        /\ q = Stock!Idle \/ /\ q.kind = s5[c].kind /\ q.key = s5[c].key
                             /\ q.opening = s5[c].opening /\ q.symbol = s
                             /\ q.text = s5[c].text /\ q.awaited = s5[c].awaited
    BY <1>2, StockIdle DEF Stock!Call
  <1> HIDE DEF q, s
  <1>4. /\ s1' \in [Stocks -> {Stock!None, "WATCHING", "ARCHIVED"}]
        /\ Stock!Followed \subseteq Stock!Followed' /\ s \in Stock!Followed'
        /\ Stock!CaptureHolds'
        /\ \A t \in Stocks : t \in s7 \/ s1[t] = "WATCHING" => t \in s7' \/ s1'[t] = "WATCHING"
        /\ s \in s7' \/ s1'[s] = "WATCHING"
    BY <1>1, <1>2, ItemChanges
  <1>5. /\ s5' \in [StockSlots -> Stock!Call] /\ s5'[c] = q
        /\ \A d \in StockSlots : d # c => s5'[d] = s5[d]
    BY <1>1, <1>3 DEF StockInv, StockTypes
  <1>6. StockTypes' /\ RecordsKeyed'
    BY <1>1, <1>4, <1>5 DEF StockInv, StockTypes, RecordsKeyed
  <1>7. ASSUME NEW d \in StockSlots
        PROVE  /\ s5'[d].kind = "evidence" =>
                    /\ s5'[d].key = s5'[d].opening /\ s5'[d].key # 0
                    /\ <<s5'[d].opening, s5'[d].symbol, s5'[d].text>> \in s6
               /\ s5'[d].kind = "agent" => s5'[d].key = 0
               /\ s5'[d].phase = "create" => s5'[d].symbol \in Stock!Followed'
    <2>1. CASE d # c
      BY <1>4, <1>5, <2>1 DEF StockInv, RequestsSound
    <2>2. CASE d = c /\ q = Stock!Idle
      BY <1>5, <2>2, StockIdle
    <2>3. CASE d = c /\ q # Stock!Idle
      BY <1>3, <1>4, <1>5, <2>3 DEF StockInv, RequestsSound, s
    <2> QED
      BY <2>1, <2>2, <2>3
  <1>8. RequestsSound'
    BY <1>1, <1>7 DEF RequestsSound
  <1>9. \A d \in StockSlots : s5[d].symbol \in Stocks
    BY DEF StockInv, StockTypes, Stock!Call
  <1>10. ASSUME NEW d \in StockSlots, s5'[d].awaited
         PROVE  /\ s5[d].awaited /\ s5'[d].key = s5[d].key
                /\ s5'[d].phase = "create" =>
                     s5'[d].symbol \in s7' \/ s1'[s5'[d].symbol] = "WATCHING"
    <2>1. CASE d # c
      <3>1. s5[d].awaited /\ s5'[d] = s5[d]
        BY <1>5, <1>10, <2>1
      <3> QED
        BY <1>4, <1>9, <3>1 DEF StockInv, DialogWaits
    <2>2. CASE d = c
      BY <1>3, <1>4, <1>5, <1>10, <2>2, StockIdle
    <2> QED
      BY <2>1, <2>2
  <1>11. DialogWaits'
    BY <1>1, <1>10 DEF StockInv, DialogWaits
  <1> QED
    BY <1>4, <1>6, <1>8, <1>11 DEF StockInv

\* A request that ends leaves the others as they are.
LEMMA RequestEnds ==
  ASSUME StockInv, NEW c \in StockSlots, s5' = [s5 EXCEPT ![c] = Stock!Idle],
         UNCHANGED <<s1, s3, s6, s7>>
  PROVE  /\ s5' \in [StockSlots -> Stock!Call] /\ RequestsSound'
         /\ \A d \in StockSlots : d # c => s5'[d] = s5[d]
         /\ ~s5'[c].awaited
  <1>1. /\ s5' \in [StockSlots -> Stock!Call] /\ s5'[c] = Stock!Idle
        /\ \A d \in StockSlots : d # c => s5'[d] = s5[d]
    BY StockIdle DEF StockInv, StockTypes
  <1>2. RequestsSound'
    BY <1>1, StockIdle DEF StockInv, RequestsSound, Stock!Followed
  <1> QED
    BY <1>1, <1>2, StockIdle

LEMMA EvidenceIsCreated ==
  ASSUME StockInv, NEW c \in StockSlots, Stock!CreateEvidence(c)
  PROVE  StockInv'
  <1> DEFINE r == s5[c]
             new == [symbol |-> r.symbol, key |-> r.key, text |-> r.text,
                     opening |-> r.opening, via |-> "WEB"]
  <1>1. /\ r.kind = "evidence" /\ r.phase = "create"
        /\ s2' = IF Stock!Stored(r.symbol, r.key) # {} THEN s2 ELSE s2 \cup {new}
        /\ s5' = [s5 EXCEPT ![c] = Stock!Idle]
        /\ s4' = IF r.awaited THEN [s4 EXCEPT !.pending = FALSE, !.saved = r.symbol] ELSE s4
        /\ UNCHANGED <<s1, s3, s6, s7>>
    BY DEF Stock!CreateEvidence
  <1>2. /\ r \in Stock!Call /\ r.symbol \in Stocks
        /\ r.key = r.opening /\ r.key # 0 /\ <<r.opening, r.symbol, r.text>> \in s6
        /\ r.symbol \in Stock!Followed
    BY <1>1 DEF StockInv, StockTypes, RequestsSound, Stock!Call
  <1>3. /\ r.awaited =>
             /\ s4.pending /\ r.key = s3
             /\ r.symbol \in s7 \/ s1[r.symbol] = "WATCHING"
             /\ \A d \in StockSlots : s5[d].awaited => d = c
    BY <1>1 DEF StockInv, DialogWaits
  <1>4. /\ new \in Stock!Record /\ new.symbol = r.symbol /\ new.key = r.key
        /\ new.text = r.text /\ new.opening = r.opening /\ new.via = "WEB"
    BY <1>2 DEF Stock!Record, Stock!Call
  <1> HIDE DEF r, new
  <1>5. /\ s5' \in [StockSlots -> Stock!Call] /\ RequestsSound' /\ ~s5'[c].awaited
        /\ \A d \in StockSlots : d # c => s5'[d] = s5[d]
    BY <1>1, RequestEnds
  <1>6. /\ s4' \in [open : BOOLEAN, text : Insights, symbol : Stocks, pending : BOOLEAN,
                    saved : Stocks \cup {Stock!None}]
        /\ s4'.open = s4.open
        /\ IF r.awaited THEN s4'.pending = FALSE /\ s4'.saved = r.symbol ELSE s4' = s4
    BY <1>1, <1>2 DEF StockInv, StockTypes
  <1>7. StockTypes'
    BY <1>1, <1>4, <1>5, <1>6 DEF StockInv, StockTypes
  <1>8. \A q \in s2' : q \in s2 \/ (q = new /\ Stock!Stored(r.symbol, r.key) = {})
    BY <1>1
  <1>9. RecordsKeyed'
    <2>1. \A q \in s2' : q.key = q.opening /\ (q.via = "WEB") = (q.key # 0)
      BY <1>2, <1>4, <1>8 DEF StockInv, RecordsKeyed
    <2>2. ASSUME NEW p \in s2', NEW q \in s2', p.symbol = q.symbol, p.key = q.key
          PROVE  p = q
      BY <1>4, <1>8, <2>2 DEF StockInv, RecordsKeyed, Stock!Stored
    <2> QED
      BY <2>1, <2>2 DEF RecordsKeyed
  <1>10. \A d \in StockSlots : s5'[d].awaited => s5[d].awaited /\ s5'[d] = s5[d] /\ d # c
    BY <1>5
  <1>11. DialogWaits'
    <2>1. CASE r.awaited
      <3>1. \A d \in StockSlots : ~s5'[d].awaited
        BY <1>3, <1>10, <2>1
      <3> QED
        BY <1>1, <1>2, <1>3, <1>6, <2>1, <3>1 DEF DialogWaits
    <2>2. CASE ~r.awaited
      BY <1>1, <1>6, <1>10, <2>2 DEF StockInv, DialogWaits
    <2> QED
      BY <2>1, <2>2
  <1>12. Stock!CaptureHolds'
    <2>1. s2 \subseteq s2' /\ \E q \in s2' : q.symbol = r.symbol /\ q.key = r.key
      BY <1>1, <1>4 DEF Stock!Stored
    <2>2. /\ \A q \in s2' : q.via = "WEB" => <<q.opening, q.symbol, q.text>> \in s6'
          /\ \A q \in s2' : q.symbol \in Stock!Followed'
      BY <1>1, <1>2, <1>4, <1>8 DEF StockInv, Stock!CaptureHolds, Stock!Followed
    <2>3. \A p, q \in s2' : p.opening # 0 /\ p.opening = q.opening /\ p.symbol = q.symbol => p = q
      BY <1>9 DEF RecordsKeyed
    <2>4. s4'.saved # Stock!None =>
            /\ \E q \in s2' : q.symbol = s4'.saved /\ q.key = s3'
            /\ s4'.saved \in s7' \/ s1'[s4'.saved] = "WATCHING"
      <3>1. CASE r.awaited
        BY <1>1, <1>3, <1>6, <2>1, <3>1
      <3>2. CASE ~r.awaited
        BY <1>1, <1>6, <2>1, <3>2 DEF StockInv, Stock!CaptureHolds, Stock!Stored,
           Stock!idempotencyKey
      <3> QED
        BY <3>1, <3>2
    <2>5. s4'.saved # Stock!None => Stock!Stored(s4.saved, Stock!idempotencyKey)' # {}
      BY <2>4 DEF Stock!Stored, Stock!idempotencyKey
    <2> QED
      BY <2>2, <2>3, <2>4, <2>5 DEF Stock!CaptureHolds
  <1> QED
    BY <1>5, <1>7, <1>9, <1>11, <1>12 DEF StockInv

LEMMA RecordIsUpserted ==
  ASSUME StockInv, NEW c \in StockSlots, Stock!UpsertRecord(c)
  PROVE  StockInv'
  <1> DEFINE r == s5[c]
             new == [symbol |-> r.symbol, key |-> r.key, text |-> r.text, opening |-> 0,
                     via |-> "API_KEY"]
  <1>1. /\ r.kind = "agent" /\ r.phase = "create"
        /\ s2' = (s2 \ Stock!Stored(r.symbol, r.key)) \cup {new}
        /\ s5' = [s5 EXCEPT ![c] = Stock!Idle]
        /\ UNCHANGED <<s1, s3, s4, s6, s7>>
    BY DEF Stock!UpsertRecord
  <1>2. r \in Stock!Call /\ r.key = 0 /\ r.symbol \in Stock!Followed
    BY <1>1 DEF StockInv, StockTypes, RequestsSound
  <1>3. /\ new \in Stock!Record /\ new.symbol = r.symbol /\ new.key = 0
        /\ new.opening = 0 /\ new.via = "API_KEY"
    BY <1>2 DEF Stock!Record, Stock!Call, Stock!Keys
  <1> HIDE DEF r, new
  <1>4. /\ s5' \in [StockSlots -> Stock!Call] /\ RequestsSound' /\ ~s5'[c].awaited
        /\ \A d \in StockSlots : d # c => s5'[d] = s5[d]
    BY <1>1, RequestEnds
  <1>5. StockTypes'
    BY <1>1, <1>3, <1>4 DEF StockInv, StockTypes
  <1>6. /\ \A q \in s2' : q = new \/ (q \in s2 /\ ~(q.symbol = r.symbol /\ q.key = 0))
        /\ \A q \in s2 : q.key # 0 => q \in s2'
    BY <1>1, <1>2 DEF Stock!Stored
  <1>7. RecordsKeyed'
    <2>1. \A q \in s2' : q.key = q.opening /\ (q.via = "WEB") = (q.key # 0)
      BY <1>3, <1>6 DEF StockInv, RecordsKeyed
    <2>2. ASSUME NEW p \in s2', NEW q \in s2', p.symbol = q.symbol, p.key = q.key
          PROVE  p = q
      BY <1>3, <1>6, <2>2 DEF StockInv, RecordsKeyed
    <2> QED
      BY <2>1, <2>2 DEF RecordsKeyed
  <1>8. \A d \in StockSlots : s5'[d].awaited => s5[d].awaited /\ s5'[d] = s5[d]
    BY <1>4
  <1>9. DialogWaits'
    BY <1>1, <1>8 DEF StockInv, DialogWaits
  <1>10. Stock!CaptureHolds'
    <2>1. /\ \A q \in s2' : q.via = "WEB" => <<q.opening, q.symbol, q.text>> \in s6'
          /\ \A q \in s2' : q.symbol \in Stock!Followed'
      BY <1>1, <1>2, <1>3, <1>6 DEF StockInv, Stock!CaptureHolds, Stock!Followed
    <2>2. \A p, q \in s2' : p.opening # 0 /\ p.opening = q.opening /\ p.symbol = q.symbol => p = q
      BY <1>7 DEF RecordsKeyed
    <2>3. ASSUME s4.saved # Stock!None
          PROVE  /\ \E q \in s2' : q.symbol = s4.saved /\ q.key = s3
                 /\ s4.saved \in s7 \/ s1[s4.saved] = "WATCHING"
      <3>1. s3 # 0
        BY <2>3 DEF StockInv, DialogWaits
      <3>2. \E q \in s2 : q.symbol = s4.saved /\ q.key = s3
        BY <2>3 DEF StockInv, Stock!CaptureHolds, Stock!Stored, Stock!idempotencyKey
      <3> QED
        BY <1>6, <2>3, <3>1, <3>2 DEF StockInv, Stock!CaptureHolds
    <2>4. s4'.saved # Stock!None => Stock!Stored(s4.saved, Stock!idempotencyKey)' # {}
      BY <1>1, <2>3 DEF Stock!Stored, Stock!idempotencyKey
    <2> QED
      BY <1>1, <2>1, <2>2, <2>3, <2>4 DEF Stock!CaptureHolds
  <1> QED
    BY <1>4, <1>5, <1>7, <1>9, <1>10 DEF StockInv

LEMMA StockKeeps ==
  ASSUME StockInv, Stock!Next \/ UNCHANGED Stock!vars
  PROVE  StockInv'
  <1>0. /\ s4 \in [open : BOOLEAN, text : Insights, symbol : Stocks, pending : BOOLEAN,
                   saved : Stocks \cup {Stock!None}]
        /\ s3 \in Stock!Keys /\ (s4.pending => s4.open)
    BY DEF StockInv, StockTypes, DialogWaits
  <1>1. CASE Stock!Open
    <2>1. PICK s \in Stocks :
            /\ s4' = [Stock!Closed EXCEPT !.open = TRUE, !.symbol = s]
            /\ ~s4.open /\ s3' \in Openings /\ UNCHANGED <<s1, s2, s5, s6, s7>>
      BY <1>1 DEF Stock!Open
    <2>2. /\ s4' \in [open : BOOLEAN, text : Insights, symbol : Stocks, pending : BOOLEAN,
                      saved : Stocks \cup {Stock!None}]
          /\ ~s4'.pending /\ s4'.saved = Stock!None
      BY <2>1, StockClosed
    <2>3. s3' \in Stock!Keys /\ s3' # 0
      BY <2>1, OpeningsPositive DEF Stock!Keys
    <2> QED
      BY <1>0, <2>1, <2>2, <2>3, DialogChanges
  <1>2. CASE Stock!Close
    <2>1. s4' = Stock!Closed /\ ~s4.pending /\ UNCHANGED <<s1, s2, s3, s5, s6, s7>>
      BY <1>2 DEF Stock!Close
    <2> QED
      BY <1>0, <2>1, StockClosed, DialogChanges
  <1>3. CASE Stock!Edit
    <2>1. PICK t \in Insights, s \in Stocks :
            /\ s4' = [s4 EXCEPT !.text = t, !.symbol = s]
            /\ UNCHANGED <<s1, s2, s3, s5, s6, s7>>
      BY <1>3 DEF Stock!Edit
    <2>2. /\ s4' \in [open : BOOLEAN, text : Insights, symbol : Stocks, pending : BOOLEAN,
                      saved : Stocks \cup {Stock!None}]
          /\ s4'.open = s4.open /\ s4'.pending = s4.pending /\ s4'.saved = s4.saved
      BY <1>0, <2>1
    <2>3. StockTypes' /\ RecordsKeyed' /\ RequestsSound'
      BY <2>1, <2>2 DEF StockInv, StockTypes, RecordsKeyed, RequestsSound, Stock!Followed
    <2>4. DialogWaits' /\ Stock!CaptureHolds'
      BY <2>1, <2>2 DEF StockInv, DialogWaits, Stock!CaptureHolds, Stock!Followed,
         Stock!Stored, Stock!idempotencyKey
    <2> QED
      BY <2>3, <2>4 DEF StockInv
  <1>4. CASE Stock!SaveFailed
    BY <1>4, DialogGivesUp
  <1>5. CASE \E s \in Stocks : Stock!UpdateItem(s)
    BY <1>5, ItemIsUpdated
  <1>6. ASSUME NEW c \in StockSlots, Stock!EvidenceArrives(c)
        PROVE  StockInv'
    <2> DEFINE found == s5[c].symbol \in Stock!Followed
               q == [s5[c] EXCEPT !.phase = "upsert", !.found = found]
    <2>1. s5[c] \in Stock!Call
      BY DEF StockInv, StockTypes
    <2>2. s5' = [s5 EXCEPT ![c] = q] /\ UNCHANGED <<s1, s2, s3, s4, s6, s7>>
      BY <1>6 DEF Stock!EvidenceArrives, Stock!ReadItem
    <2>3. found \in BOOLEAN
      OBVIOUS
    <2> HIDE DEF found
    <2>4. /\ q \in Stock!Call /\ q.kind = s5[c].kind /\ q.key = s5[c].key
          /\ q.opening = s5[c].opening /\ q.symbol = s5[c].symbol /\ q.text = s5[c].text
          /\ q.awaited = s5[c].awaited /\ q.phase = "upsert"
      BY <2>1, <2>3 DEF Stock!Call
    <2> HIDE DEF q
    <2>5. /\ q.kind = "evidence" => /\ q.key = q.opening /\ q.key # 0
                                    /\ <<q.opening, q.symbol, q.text>> \in s6
          /\ q.kind = "agent" => q.key = 0
      BY <2>4 DEF StockInv, RequestsSound
    <2> QED
      BY <2>2, <2>4, <2>5, RequestGoesOn
  <1>7. ASSUME NEW c \in StockSlots, NEW s \in Stocks, Stock!Follow(c, s)
        PROVE  StockInv'
    <2> DEFINE q0 == [Stock!Idle EXCEPT !.kind = "follow", !.symbol = s]
               found == q0.symbol \in Stock!Followed
               q == [q0 EXCEPT !.phase = "upsert", !.found = found]
    <2>1. s5' = [s5 EXCEPT ![c] = q] /\ UNCHANGED <<s1, s2, s3, s4, s6, s7>>
      BY <1>7 DEF Stock!Follow, Stock!ReadItem
    <2>2. q0 \in Stock!Call /\ q0.kind = "follow" /\ q0.awaited = FALSE
      BY StockIdle DEF Stock!Call, Stock!Kinds
    <2>3. found \in BOOLEAN
      OBVIOUS
    <2> HIDE DEF q0, found
    <2>4. q \in Stock!Call /\ q.kind = "follow" /\ q.awaited = FALSE /\ q.phase = "upsert"
      BY <2>2, <2>3 DEF Stock!Call
    <2> HIDE DEF q
    <2> QED
      BY <2>1, <2>4, RequestGoesOn
  <1>8. ASSUME NEW c \in StockSlots, NEW s \in Stocks, Stock!AgentRecord(c, s)
        PROVE  StockInv'
    <2> DEFINE q == [Stock!Idle EXCEPT !.kind = "agent", !.symbol = s, !.phase = "create"]
    <2>1. /\ s5' = [s5 EXCEPT ![c] = q] /\ UNCHANGED <<s1, s2, s3, s4, s6, s7>>
          /\ s1[s] = "WATCHING"
      BY <1>8 DEF Stock!AgentRecord, Stock!Start
    <2>2. /\ q \in Stock!Call /\ q.kind = "agent" /\ q.awaited = FALSE /\ q.key = 0
          /\ q.symbol = s
      BY StockIdle DEF Stock!Call, Stock!Kinds
    <2>3. s \in Stock!Followed
      BY <2>1 DEF Stock!Followed, Stock!None
    <2> HIDE DEF q
    <2> QED
      BY <2>1, <2>2, <2>3, RequestGoesOn
  <1>9. ASSUME NEW c \in StockSlots, Stock!Fail(c)
        PROVE  StockInv'
    <2>1. s5' = [s5 EXCEPT ![c] = Stock!Idle] /\ UNCHANGED <<s1, s2, s3, s4, s6, s7>>
      BY <1>9 DEF Stock!Fail
    <2> QED
      BY <2>1, StockIdle, RequestGoesOn
  <1>10. CASE UNCHANGED Stock!vars
    BY <1>10 DEF Stock!vars, StockInv, StockTypes, RecordsKeyed, RequestsSound, DialogWaits,
       Stock!CaptureHolds, Stock!Followed, Stock!Stored, Stock!idempotencyKey
  <1> QED
    BY <1>1, <1>2, <1>3, <1>4, <1>5, <1>6, <1>7, <1>8, <1>9, <1>10, EvidenceIsSent,
       ItemIsUpserted, EvidenceIsCreated, RecordIsUpserted DEF Stock!Next

-----------------------------------------------------------------------------
(* Trade plans. *)

LEMMA PlanStarts == Plan!Init => PlanInv
  BY DEF Plan!Init, PlanInv, Plan!PlansHold

\* What the table takes is a plan that is sound.
LEMMA PlanMerged ==
  ASSUME NEW p \in PlanRow, NEW b \in Plan!Body, Plan!Allowed(Plan!Merged(p, b))
  PROVE  LET q == Plan!Merged(p, b)
         IN  /\ q \in PlanRow
             /\ q.diary # Plan!Null => q.diary \in s1 /\ PlanDiaryOf[q.diary] = q.user
             /\ q.low # Plan!Null /\ q.high # Plan!Null => q.low <= q.high
  <1> DEFINE q == Plan!Merged(p, b)
  <1>1. /\ Plan!Set(b.diary, p.diary) \in Plan!Diaries \cup {Plan!Null}
        /\ Plan!Set(b.low, p.low) \in PlanPrices \cup {Plan!Null}
        /\ Plan!Set(b.high, p.high) \in PlanPrices \cup {Plan!Null}
    BY DEF Plan!Set, Plan!Body, PlanRow
  <1>2. q = [p EXCEPT !.diary = Plan!Set(b.diary, p.diary), !.low = Plan!Set(b.low, p.low),
                      !.high = Plan!Set(b.high, p.high)]
    BY DEF Plan!Merged
  <1>3. /\ q \in PlanRow /\ q.diary \in Plan!Diaries \cup {Plan!Null}
        /\ q.low \in PlanPrices \cup {Plan!Null} /\ q.high \in PlanPrices \cup {Plan!Null}
    BY <1>1, <1>2 DEF PlanRow
  <1> HIDE DEF q
  <1>4. Plan!Allowed(q)
    BY DEF q
  <1>5. /\ q.diary # Plan!Null => q.diary \in s1 /\ PlanDiaryOf[q.diary] = q.user
        /\ q.low # Plan!Null /\ q.high # Plan!Null => q.low <= q.high
    BY <1>3, <1>4 DEF Plan!Allowed
  <1> QED
    BY <1>3, <1>5 DEF q

LEMMA PlanKeeps ==
  ASSUME PlanInv, Plan!Next \/ UNCHANGED Plan!vars
  PROVE  PlanInv'
  <1>0. s2 \subseteq PlanRow /\ s4 \subseteq PlanCall
    BY DEF PlanInv
  <1>1. ASSUME NEW c \in PlanCall, Plan!Ask(c)
        PROVE  PlanInv'
    <2>1. Plan!AfterPlan(c) \in PlanCall
      BY DEF Plan!AfterPlan, PlanCall
    <2> QED
      BY <1>1, <2>1 DEF Plan!Ask, PlanInv, Plan!PlansHold
  <1>2. Plan!Empty \in Plan!Body
    <2>1. Plan!Empty.low = Plan!Unset /\ Plan!Empty.high = Plan!Unset
      BY DEF Plan!Empty
    <2> QED
      BY <2>1 DEF Plan!Empty, Plan!Body, Plan!Unset
  <1>3. CASE \E user \in Users, body \in Plan!Body :
               Plan!Post(user, body) \/ \E id \in Plans : Plan!Put(user, id, body)
    <2>1. PICK user \in Users, body \in Plan!Body :
            Plan!Post(user, body) \/ \E id \in Plans : Plan!Put(user, id, body)
      BY <1>3
    <2>2. PICK id \in Plans, op \in {"post", "put"} :
            Plan!Ask([user |-> user, op |-> op, plan |-> id, body |-> body, step |-> "diary"])
      BY <2>1 DEF Plan!Post, Plan!Put
    <2> DEFINE c == [user |-> user, op |-> op, plan |-> id, body |-> body, step |-> "diary"]
    <2>3. c \in PlanCall
      BY DEF PlanCall
    <2> QED
      BY <1>1, <2>2, <2>3
  <1>4. CASE \E user \in Users, id \in Plans : Plan!Delete(user, id)
    <2>1. PICK user \in Users, id \in Plans : Plan!Delete(user, id)
      BY <1>4
    <2> DEFINE c == [user |-> user, op |-> "delete", plan |-> id, body |-> Plan!Empty,
                     step |-> "diary"]
    <2>2. c \in PlanCall
      BY <1>2 DEF PlanCall
    <2> QED
      BY <1>1, <2>1, <2>2 DEF Plan!Delete
  <1>5. CASE \E c \in s4 : Plan!AssertDiary(c)
    <2>1. PICK c \in s4 : Plan!AssertDiary(c)
      BY <1>5
    <2> DEFINE d == [c EXCEPT !.step = "write"]
    <2>2. d \in PlanCall
      BY <1>0 DEF PlanCall
    <2>3. s4' \subseteq s4 \cup {d} /\ UNCHANGED <<s1, s2>>
      BY <2>1 DEF Plan!AssertDiary
    <2> HIDE DEF d
    <2> QED
      BY <1>0, <2>2, <2>3 DEF PlanInv, Plan!PlansHold
  <1>6. CASE \E c \in s4 : Plan!Write(c)
    <2>1. PICK c \in s4 : Plan!Write(c)
      BY <1>6
    <2> DEFINE found == {p \in s2 : p.id = c.plan}
               fresh == IF c.op = "post" THEN {Plan!NewPlan(c.plan, c.user)} ELSE found
               rows == {Plan!Merged(p, c.body) : p \in fresh}
    <2>2. c \in PlanCall /\ c.body \in Plan!Body
      BY <1>0 DEF PlanCall
    <2>3. fresh \subseteq PlanRow
      <3>1. Plan!NewPlan(c.plan, c.user) \in PlanRow
        BY <2>2 DEF Plan!NewPlan, PlanRow, PlanCall
      <3> QED
        BY <1>0, <3>1
    <2>4. /\ s4' = s4 \ {c} /\ s1' = s1
          /\ \/ (\A q \in rows : Plan!Allowed(q)) /\ s2' = (s2 \ found) \cup rows
             \/ s2' \subseteq s2
      BY <2>1 DEF Plan!Write
    <2> HIDE DEF fresh
    <2>5. ASSUME NEW q \in s2'
          PROVE  /\ q \in PlanRow
                 /\ q.diary # Plan!Null => q.diary \in s1 /\ PlanDiaryOf[q.diary] = q.user
                 /\ q.low # Plan!Null /\ q.high # Plan!Null => q.low <= q.high
      <3>1. CASE q \in s2
        BY <1>0, <3>1 DEF PlanInv, Plan!PlansHold
      <3>2. CASE q \notin s2
        <4>1. PICK p \in fresh : q = Plan!Merged(p, c.body)
          BY <2>4, <3>2
        <4>2. Plan!Allowed(q)
          BY <2>4, <3>2
        <4> QED
          BY <2>2, <2>3, <4>1, <4>2, PlanMerged
      <3> QED
        BY <3>1, <3>2
    <2> QED
      BY <1>0, <2>4, <2>5 DEF PlanInv, Plan!PlansHold
  <1>7. CASE \E d \in Plan!Diaries : Plan!DeleteDiary(d)
    <2>1. PICK d \in Plan!Diaries : Plan!DeleteDiary(d)
      BY <1>7
    <2>2. /\ s1' = s1 \ {d} /\ s4' = s4
          /\ s2' = {[p EXCEPT !.diary = IF @ = d THEN Plan!Null ELSE @] : p \in s2}
      BY <2>1 DEF Plan!DeleteDiary
    <2>3. ASSUME NEW q \in s2'
          PROVE  /\ q \in PlanRow
                 /\ q.diary # Plan!Null => q.diary \in s1' /\ PlanDiaryOf[q.diary] = q.user
                 /\ q.low # Plan!Null /\ q.high # Plan!Null => q.low <= q.high
      <3>1. PICK p \in s2 : q = [p EXCEPT !.diary = IF @ = d THEN Plan!Null ELSE @]
        BY <2>2
      <3>2. p \in PlanRow
        BY <1>0
      <3>3. /\ q \in PlanRow /\ q.low = p.low /\ q.high = p.high /\ q.user = p.user
            /\ q.diary = IF p.diary = d THEN Plan!Null ELSE p.diary
        BY <3>1, <3>2 DEF PlanRow
      <3> QED
        BY <2>2, <3>3 DEF PlanInv, Plan!PlansHold
    <2> QED
      BY <1>0, <2>2, <2>3 DEF PlanInv, Plan!PlansHold
  <1>8. CASE UNCHANGED Plan!vars
    BY <1>8 DEF Plan!vars, PlanInv, Plan!PlansHold
  <1> QED
    BY <1>3, <1>4, <1>5, <1>6, <1>7, <1>8 DEF Plan!Next

-----------------------------------------------------------------------------
(* The pusher. *)

LEMMA PusherTypes ==
  /\ CheckInterval \in Nat /\ BufferWindow \in Nat /\ MaxAlertNow \in Nat
  /\ AlertIds \subseteq Nat /\ 0 \notin AlertIds /\ Pusher!Times \subseteq Nat
  /\ \A r \in Pusher!AlertRow : r.triggerAt \in Nat /\ r.isDismissed \in BOOLEAN
  BY RecordsAssumption DEF Pusher!Times, Pusher!AlertRow

LEMMA NoRows ==
  \A s \in {"unused", "gone"} :
    /\ Pusher!NoRow(s) \in Pusher!AlertRow /\ Pusher!NoRow(s).status = s
    /\ Pusher!NoRow(s).isDismissed = FALSE
  BY PusherTypes, RecordsAssumption DEF Pusher!NoRow, Pusher!AlertRow, Pusher!Times

LEMMA SingleRow ==
  ASSUME NEW at \in Pusher!Times
  PROVE  LET r == Pusher!New(at, 0, 0, FALSE)
         IN r \in Pusher!AlertRow /\ r.status = "stored" /\ r.parentId = 0 /\ r.isDismissed = FALSE
  BY DEF Pusher!New, Pusher!AlertRow

LEMMA SeriesRow ==
  ASSUME NEW at \in Pusher!Times, NEW p \in AlertIds, NEW n \in {1, 2}
  PROVE  LET r == Pusher!New(at, p, n, TRUE)
         IN /\ r \in Pusher!AlertRow /\ r.status = "stored" /\ r.parentId = p
            /\ r.isDismissed = FALSE /\ r.instanceNumber = n /\ r.recurring = TRUE
  BY DEF Pusher!New, Pusher!AlertRow

LEMMA PusherStarts == Pusher!Init => PusherInv /\ SeriesInv
  <1> SUFFICES ASSUME Pusher!Init PROVE PusherInv /\ SeriesInv
    OBVIOUS
  <1>1. /\ s1 = 0 /\ s2 = 0 /\ s3 = {} /\ s5 = {} /\ s6 = {}
        /\ \A i \in AlertIds : s4[i] = Pusher!NoRow("unused")
        /\ s4 = [i \in AlertIds |-> Pusher!NoRow("unused")]
    BY DEF Pusher!Init
  <1>2. Pusher!NoRow("unused") \in Pusher!AlertRow /\ Pusher!NoRow("unused").status = "unused"
    BY NoRows
  <1>3. PusherInv
    BY <1>1, <1>2, PusherTypes DEF PusherInv
  <1>4. SeriesInv
    BY <1>1, <1>2 DEF SeriesInv, Pusher!SeriesDismissedWhole, Pusher!Stored
  <1> QED
    BY <1>3, <1>4

\* The rows change, and no owed alert becomes active again.
LEMMA RowsChange ==
  ASSUME PusherInv, UNCHANGED <<s1, s2, s3, s5, s6, s7>>,
         s4' \in [AlertIds -> Pusher!AlertRow],
         \A i \in AlertIds : s4'[i].status = "unused" => s4'[i] = s4[i],
         \A i \in s5 : Pusher!Active(i)' =>
                         Pusher!Active(i) /\ s4'[i].triggerAt = s4[i].triggerAt
  PROVE  PusherInv'
  <1>1. \A i \in s5 : ~s7 /\ Pusher!Active(i)' => AwaitsItsTick(i)'
    <2> SUFFICES ASSUME NEW i \in s5, ~s7, Pusher!Active(i)' PROVE AwaitsItsTick(i)'
      OBVIOUS
    <2>1. AwaitsItsTick(i) /\ s4'[i].triggerAt = s4[i].triggerAt
      BY DEF PusherInv
    <2> QED
      BY <2>1 DEF AwaitsItsTick, Pusher!Window
  <1> QED
    BY <1>1 DEF PusherInv

\* A row that is not used is given away, and no other is touched.
LEMMA NoRowsPersisted ==
  ASSUME PusherInv, UNCHANGED <<s1, s2, s3, s5, s6, s7>>,
         s4' \in [AlertIds -> Pusher!AlertRow],
         \A i \in AlertIds : \/ s4'[i] = s4[i]
                             \/ s4[i].status = "unused" /\ s4'[i].status = "stored"
  PROVE  PusherInv'
  <1>1. \A i \in AlertIds : s4[i].status = "unused" => s4[i].isDismissed = FALSE /\ i \notin s5
    BY NoRows DEF PusherInv
  <1>2. ASSUME NEW i \in s5, Pusher!Active(i)'
        PROVE  Pusher!Active(i) /\ s4'[i].triggerAt = s4[i].triggerAt
    <2>1. i \in AlertIds /\ s4'[i] = s4[i]
      BY <1>1 DEF PusherInv
    <2>2. s4[i].parentId \in AlertIds \cup {0}
      BY <2>1 DEF PusherInv, Pusher!AlertRow
    <2>3. /\ s4[i].status = "stored" /\ ~s4[i].isDismissed
          /\ s4[i].parentId = 0 \/ ~s4'[s4[i].parentId].isDismissed
      BY <1>2, <2>1 DEF Pusher!Active, Pusher!Stored
    <2>4. s4[i].parentId = 0 \/ ~s4[s4[i].parentId].isDismissed
      BY <1>1, <2>2, <2>3
    <2> QED
      BY <2>1, <2>3, <2>4 DEF Pusher!Active, Pusher!Stored
  <1> QED
    BY <1>2, RowsChange

LEMMA FreshRows ==
  ASSUME NEW n
  PROVE  /\ Pusher!Fresh(n) \subseteq AlertIds
         /\ \A i \in Pusher!Fresh(n) : s4[i].status = "unused"
  BY DEF Pusher!Fresh

LEMMA FirstIs ==
  ASSUME NEW S, S \subseteq AlertIds, S # {}
  PROVE  Pusher!FirstOf(S) \in S
  <1>1. \E i \in S : \A j \in S : i <= j
    BY LeastNat, PusherTypes
  <1> QED
    BY <1>1 DEF Pusher!FirstOf

LEMMA SinglePersisted ==
  ASSUME PusherInv, SeriesInv, NEW at \in Pusher!Times, Pusher!PersistSingle(at)
  PROVE  PusherInv' /\ SeriesInv'
  <1> DEFINE k == Pusher!FirstOf(Pusher!Fresh(1))
             new == Pusher!New(at, 0, 0, FALSE)
  <1>1. k \in AlertIds /\ s4[k].status = "unused"
    BY FirstIs, FreshRows DEF Pusher!PersistSingle
  <1>2. s4' = [s4 EXCEPT ![k] = new] /\ UNCHANGED <<s1, s2, s3, s5, s6, s7>>
    BY DEF Pusher!PersistSingle
  <1>3. /\ new \in Pusher!AlertRow /\ new.status = "stored" /\ new.parentId = 0
        /\ new.isDismissed = FALSE
    BY SingleRow
  <1> HIDE DEF k, new
  <1>4. /\ s4' \in [AlertIds -> Pusher!AlertRow] /\ s4'[k] = new
        /\ \A i \in AlertIds : i # k => s4'[i] = s4[i]
    BY <1>1, <1>2, <1>3 DEF PusherInv
  <1>5. PusherInv'
    BY <1>1, <1>2, <1>3, <1>4, NoRowsPersisted
  <1>6. ASSUME NEW i \in AlertIds, NEW j \in AlertIds, Pusher!Stored(j)', s4'[j].parentId = i
        PROVE  /\ i # k /\ j # k /\ Pusher!Stored(j) /\ s4[j].parentId = i /\ s4'[j] = s4[j]
               /\ s4'[i] = s4[i]
    <2>1. j # k
      BY <1>3, <1>4, <1>6, PusherTypes
    <2>2. Pusher!Stored(j) /\ s4[j].parentId = i /\ s4'[j] = s4[j]
      BY <1>4, <1>6, <2>1 DEF Pusher!Stored
    <2>3. i # k
      BY <1>1, <2>2 DEF SeriesInv
    <2> QED
      BY <1>4, <2>1, <2>2, <2>3
  <1>7. SeriesInv'
    BY <1>6 DEF SeriesInv, Pusher!SeriesDismissedWhole, Pusher!Stored, Pusher!IsRecurringRoot
  <1> QED
    BY <1>5, <1>7

LEMMA PusherCardinality == ASSUME NEW S PROVE Pusher!Cardinality(S) = Cardinality(S)
  BY DEF Pusher!Cardinality, Cardinality

LEMMA SeriesPersisted ==
  ASSUME PusherInv, SeriesInv, NEW at \in Pusher!Times, NEW later \in Pusher!Times,
         Pusher!PersistSeries(at, later)
  PROVE  PusherInv' /\ SeriesInv'
  <1> DEFINE F == Pusher!Fresh(2)
             root == Pusher!FirstOf(F)
             child == Pusher!FirstOf(F \ {root})
             r == Pusher!New(at, root, 1, TRUE)
             c == Pusher!New(later, root, 2, TRUE)
  <1>1. /\ Cardinality(F) = 2
        /\ s4' = [s4 EXCEPT ![root] = r, ![child] = c] /\ UNCHANGED <<s1, s2, s3, s5, s6, s7>>
    BY PusherCardinality DEF Pusher!PersistSeries
  <1>2. F \subseteq AlertIds /\ \A i \in F : s4[i].status = "unused"
    BY FreshRows
  <1> HIDE DEF F
  <1>3. F # {} /\ \A x : F # {x}
    <2>1. F # {}
      BY <1>1, FS_EmptySet
    <2>2. ASSUME NEW x, F = {x} PROVE FALSE
      <3>1. Cardinality({x}) = 1
        BY FS_Singleton
      <3> QED
        BY <1>1, <2>2, <3>1
    <2> QED
      BY <2>1, <2>2
  <1>4. root \in F
    BY <1>2, <1>3, FirstIs
  <1> HIDE DEF root
  <1>5. child \in F /\ child # root
    <2>1. F \ {root} # {}
      BY <1>3, <1>4
    <2>2. F \ {root} \subseteq AlertIds
      BY <1>2
    <2>3. child \in F \ {root}
      BY <2>1, <2>2, FirstIs
    <2> QED
      BY <2>3
  <1> HIDE DEF child
  <1>6. /\ root \in AlertIds /\ child \in AlertIds /\ s4[root].status = "unused"
        /\ s4[child].status = "unused" /\ child # root
    BY <1>2, <1>4, <1>5
  <1>7. /\ r \in Pusher!AlertRow /\ r.status = "stored" /\ r.parentId = root
        /\ r.isDismissed = FALSE /\ r.instanceNumber = 1 /\ r.recurring = TRUE
        /\ c \in Pusher!AlertRow /\ c.status = "stored" /\ c.parentId = root
        /\ c.isDismissed = FALSE
    <2>1. /\ r \in Pusher!AlertRow /\ r.status = "stored" /\ r.parentId = root
          /\ r.isDismissed = FALSE /\ r.instanceNumber = 1 /\ r.recurring = TRUE
      BY <1>6, SeriesRow
    <2>2. /\ c \in Pusher!AlertRow /\ c.status = "stored" /\ c.parentId = root
          /\ c.isDismissed = FALSE
      BY <1>6 DEF Pusher!New, Pusher!AlertRow
    <2> HIDE DEF r, c
    <2> QED
      BY <2>1, <2>2
  <1> HIDE DEF r, c
  <1>8. /\ s4' \in [AlertIds -> Pusher!AlertRow] /\ s4'[root] = r /\ s4'[child] = c
        /\ \A i \in AlertIds : i # root /\ i # child => s4'[i] = s4[i]
    BY <1>1, <1>6, <1>7 DEF PusherInv
  <1>9. PusherInv'
    BY <1>1, <1>6, <1>7, <1>8, NoRowsPersisted
  <1>10. ASSUME NEW i \in AlertIds, NEW j \in AlertIds, Pusher!Stored(j)', s4'[j].parentId = i
         PROVE  \/ i = root
                \/ /\ Pusher!Stored(j) /\ s4[j].parentId = i /\ s4'[j] = s4[j]
                   /\ s4'[i] = s4[i]
    <2>1. CASE j \in {root, child}
      BY <1>7, <1>8, <1>10, <2>1
    <2>2. CASE j \notin {root, child}
      <3>1. Pusher!Stored(j) /\ s4[j].parentId = i /\ s4'[j] = s4[j]
        BY <1>8, <1>10, <2>2 DEF Pusher!Stored
      <3>2. i \notin {root, child}
        BY <1>6, <3>1 DEF SeriesInv
      <3> QED
        BY <1>8, <3>1, <3>2
    <2> QED
      BY <2>1, <2>2
  <1>11. /\ s4'[root].status = "stored" /\ s4'[root].recurring /\ s4'[root].instanceNumber = 1
         /\ s4'[root].parentId = root /\ s4'[root].isDismissed = FALSE
    BY <1>7, <1>8
  <1>12. SeriesInv'
    BY <1>10, <1>11
       DEF SeriesInv, Pusher!SeriesDismissedWhole, Pusher!Stored, Pusher!IsRecurringRoot
  <1> QED
    BY <1>9, <1>12

LEMMA AlertDismissed ==
  ASSUME PusherInv, SeriesInv, NEW k \in AlertIds, Pusher!DismissAlert(k)
  PROVE  PusherInv' /\ SeriesInv'
  <1> DEFINE hit == IF Pusher!IsRecurringRoot(k) THEN Pusher!Series(k) ELSE {k}
  <1>1. /\ s4' = [j \in AlertIds |-> IF j \in hit THEN [s4[j] EXCEPT !.isDismissed = TRUE] ELSE s4[j]]
        /\ UNCHANGED <<s1, s2, s3, s5, s6, s7>> /\ Pusher!Stored(k)
    BY DEF Pusher!DismissAlert
  <1>2. /\ hit \subseteq AlertIds /\ k \in hit /\ \A j \in hit : Pusher!Stored(j)
        /\ \A j \in hit : j = k \/ (Pusher!IsRecurringRoot(k) /\ s4[j].parentId = k)
        /\ Pusher!IsRecurringRoot(k) =>
             \A j \in AlertIds : Pusher!Stored(j) /\ s4[j].parentId = k => j \in hit
    <2>1. CASE Pusher!IsRecurringRoot(k)
      <3>1. hit = {j \in AlertIds : Pusher!Stored(j) /\ (j = k \/ s4[j].parentId = k)}
        BY <2>1 DEF Pusher!Series
      <3> HIDE DEF hit
      <3> QED
        BY <1>1, <2>1, <3>1
    <2>2. CASE ~Pusher!IsRecurringRoot(k)
      <3>1. hit = {k}
        BY <2>2
      <3> HIDE DEF hit
      <3> QED
        BY <1>1, <2>2, <3>1
    <2> QED
      BY <2>1, <2>2
  <1> HIDE DEF hit
  <1>3. ASSUME NEW j \in AlertIds
        PROVE  /\ s4'[j] \in Pusher!AlertRow /\ s4'[j].status = s4[j].status
               /\ s4'[j].parentId = s4[j].parentId /\ s4'[j].triggerAt = s4[j].triggerAt
               /\ s4'[j].recurring = s4[j].recurring
               /\ s4'[j].instanceNumber = s4[j].instanceNumber
               /\ s4'[j].isDismissed <=> s4[j].isDismissed \/ j \in hit
               /\ j \notin hit => s4'[j] = s4[j]
    <2>1. s4[j] \in Pusher!AlertRow
      BY DEF PusherInv
    <2>2. s4'[j] = IF j \in hit THEN [s4[j] EXCEPT !.isDismissed = TRUE] ELSE s4[j]
      BY <1>1
    <2>3. CASE j \in hit
      <3> DEFINE d == [s4[j] EXCEPT !.isDismissed = TRUE]
      <3>1. /\ d \in Pusher!AlertRow /\ d.isDismissed /\ d.status = s4[j].status
            /\ d.parentId = s4[j].parentId /\ d.triggerAt = s4[j].triggerAt
            /\ d.recurring = s4[j].recurring /\ d.instanceNumber = s4[j].instanceNumber
        BY <2>1 DEF Pusher!AlertRow
      <3>2. s4'[j] = d
        BY <2>2, <2>3
      <3> HIDE DEF d
      <3> QED
        BY <2>3, <3>1, <3>2
    <2>4. CASE j \notin hit
      BY <2>1, <2>2, <2>4
    <2> QED
      BY <2>3, <2>4
  <1>4. s4' \in [AlertIds -> Pusher!AlertRow]
    BY <1>1, <1>3
  <1>5. \A j \in AlertIds : s4'[j].status = "unused" => s4'[j] = s4[j]
    BY <1>2, <1>3 DEF Pusher!Stored
  <1>6. ASSUME NEW i \in s5, Pusher!Active(i)'
        PROVE  Pusher!Active(i) /\ s4'[i].triggerAt = s4[i].triggerAt
    <2>1. i \in AlertIds /\ s4[i].parentId \in AlertIds \cup {0}
      BY DEF PusherInv, Pusher!AlertRow
    <2> QED
      BY <1>3, <1>6, <2>1 DEF Pusher!Active, Pusher!Stored
  <1>7. PusherInv'
    BY <1>1, <1>4, <1>5, <1>6, RowsChange
  <1>8. ASSUME NEW i \in AlertIds, NEW j \in AlertIds, Pusher!Stored(j)', s4'[j].parentId = i
        PROVE  /\ s4'[i].status # "unused" /\ (Pusher!Stored(i)' => Pusher!IsRecurringRoot(i)')
               /\ Pusher!Stored(i)' /\ s4'[i].isDismissed => s4'[j].isDismissed
    <2>1. Pusher!Stored(j) /\ s4[j].parentId = i
      BY <1>3, <1>8 DEF Pusher!Stored
    <2>2. s4[i].status # "unused" /\ (Pusher!Stored(i) => Pusher!IsRecurringRoot(i))
      BY <2>1 DEF SeriesInv
    <2>3. s4'[i].status # "unused" /\ (Pusher!Stored(i)' => Pusher!IsRecurringRoot(i)')
      BY <1>3, <2>2 DEF Pusher!Stored, Pusher!IsRecurringRoot
    <2>4. ASSUME Pusher!Stored(i)', s4'[i].isDismissed PROVE s4'[j].isDismissed
      <3>1. Pusher!Stored(i)
        BY <1>3, <2>4 DEF Pusher!Stored
      <3>2. CASE s4[i].isDismissed
        BY <1>3, <2>1, <3>1, <3>2 DEF SeriesInv, Pusher!SeriesDismissedWhole
      <3>3. CASE i \in hit
        <4>1. CASE i = k
          BY <1>2, <1>3, <2>1, <2>2, <3>1, <4>1
        <4>2. CASE i # k
          <5>1. s4[i].parentId = k /\ k # 0
            BY <1>2, <3>3, <4>2, PusherTypes
          <5>2. s4[i].parentId \in {0, i}
            BY <2>2, <3>1 DEF Pusher!IsRecurringRoot
          <5> QED
            BY <4>2, <5>1, <5>2
        <4> QED
          BY <4>1, <4>2
      <3> QED
        BY <1>3, <2>4, <3>2, <3>3
    <2> QED
      BY <2>3, <2>4
  <1>9. SeriesInv'
    BY <1>8 DEF SeriesInv, Pusher!SeriesDismissedWhole
  <1> QED
    BY <1>7, <1>9

LEMMA AlertsDeleted ==
  ASSUME PusherInv, SeriesInv, Pusher!DeleteAlerts
  PROVE  PusherInv' /\ SeriesInv'
  <1>1. /\ s4' = [i \in AlertIds |-> IF Pusher!Stored(i) THEN Pusher!NoRow("gone") ELSE s4[i]]
        /\ UNCHANGED <<s1, s2, s3, s5, s6, s7>>
    BY DEF Pusher!DeleteAlerts
  <1>2. ASSUME NEW i \in AlertIds
        PROVE  /\ s4'[i] \in Pusher!AlertRow /\ ~Pusher!Stored(i)'
               /\ s4'[i].status = "unused" => s4'[i] = s4[i]
    <2>1. s4[i] \in Pusher!AlertRow
      BY DEF PusherInv
    <2> QED
      BY <1>1, <2>1, NoRows DEF Pusher!Stored
  <1>3. s4' \in [AlertIds -> Pusher!AlertRow]
    BY <1>1, <1>2
  <1>4. \A i \in s5 : ~Pusher!Active(i)'
    BY <1>2 DEF Pusher!Active, PusherInv
  <1>5. PusherInv'
    BY <1>1, <1>2, <1>3, <1>4, RowsChange
  <1>6. SeriesInv'
    BY <1>2 DEF SeriesInv, Pusher!SeriesDismissedWhole
  <1> QED
    BY <1>5, <1>6

LEMMA PusherTicks ==
  ASSUME PusherInv, Pusher!Tick
  PROVE  PusherInv'
  <1>1. /\ s2 <= s1 /\ s3' = s3 \cup {s1} /\ s2' = s1 + CheckInterval
        /\ s5' = s5 \cup {i \in AlertIds : Pusher!Stored(i) /\ s1 <= s4[i].triggerAt}
        /\ UNCHANGED <<s1, s4, s6, s7>>
    BY DEF Pusher!Tick
  <1>2. s1 \in Nat /\ s2 \in Nat /\ s1 <= s2 + BufferWindow
    BY DEF PusherInv
  <1>3. s2' \in Nat /\ s1' <= s2' + BufferWindow
    BY <1>1, <1>2, PusherTypes
  <1>4. ASSUME NEW i \in s5', ~s7, Pusher!Active(i)' PROVE AwaitsItsTick(i)'
    <2>1. i \in AlertIds /\ s4[i] \in Pusher!AlertRow /\ Pusher!Active(i)
      BY <1>1, <1>4 DEF PusherInv, Pusher!Active, Pusher!Stored
    <2>2. s4[i].triggerAt \in Nat
      BY <2>1, PusherTypes
    <2>3. CASE s1 <= s4[i].triggerAt
      <3>1. CASE s4[i].triggerAt < s1 + CheckInterval + BufferWindow
        <4>1. s4[i].triggerAt \in Pusher!Window(s1)
          BY <1>2, <2>2, <2>3, <3>1, PusherTypes DEF Pusher!Window
        <4> QED
          BY <1>1, <4>1 DEF AwaitsItsTick, Pusher!Window
      <3>2. CASE s1 + CheckInterval + BufferWindow <= s4[i].triggerAt
        BY <1>1, <3>2 DEF AwaitsItsTick
      <3> QED
        BY <1>2, <2>2, <3>1, <3>2, PusherTypes
    <2>4. CASE ~(s1 <= s4[i].triggerAt)
      <3>1. AwaitsItsTick(i)
        BY <1>1, <1>4, <2>1, <2>4 DEF PusherInv
      <3>2. ~(s2 + BufferWindow <= s4[i].triggerAt)
        BY <1>2, <2>2, <2>4, PusherTypes
      <3> QED
        BY <1>1, <3>1, <3>2 DEF AwaitsItsTick, Pusher!Window
    <2> QED
      BY <2>3, <2>4
  <1>5. s3' \subseteq Nat /\ \A clock \in s3' : clock <= s1'
    BY <1>1, <1>2 DEF PusherInv
  <1>6. s5' \subseteq AlertIds
    BY <1>1 DEF PusherInv
  <1>7. \A i \in AlertIds : s4'[i].status = "unused" => i \notin s5' /\ s4'[i] = Pusher!NoRow("unused")
    BY <1>1 DEF PusherInv, Pusher!Stored
  <1> QED
    BY <1>1, <1>2, <1>3, <1>4, <1>5, <1>6, <1>7 DEF PusherInv

LEMMA PusherPushes ==
  ASSUME PusherInv, NEW clock \in s3, Pusher!Push(clock) \/ Pusher!TickFails(clock)
  PROVE  PusherInv'
  <1>1. s3' = s3 \ {clock} /\ UNCHANGED <<s1, s2, s4, s5>>
    BY DEF Pusher!Push, Pusher!TickFails
  <1>2. ASSUME NEW i \in s5', ~s7', Pusher!Active(i)' PROVE AwaitsItsTick(i)'
    <2>1. /\ ~s7
          /\ s6' = s6 \cup {j \in AlertIds : Pusher!Active(j)
                                            /\ s4[j].triggerAt \in Pusher!Window(clock)}
      BY <1>2 DEF Pusher!Push, Pusher!TickFails
    <2>2. i \in AlertIds /\ Pusher!Active(i)
      BY <1>1, <1>2 DEF PusherInv, Pusher!Active, Pusher!Stored
    <2>3. AwaitsItsTick(i)
      BY <1>1, <2>1, <2>2 DEF PusherInv
    <2>4. CASE s4[i].triggerAt \in Pusher!Window(clock)
      BY <2>1, <2>2, <2>4 DEF AwaitsItsTick
    <2>5. CASE s4[i].triggerAt \notin Pusher!Window(clock)
      BY <1>1, <2>1, <2>3, <2>5 DEF AwaitsItsTick, Pusher!Window
    <2> QED
      BY <2>4, <2>5
  <1> QED
    BY <1>1, <1>2 DEF PusherInv

LEMMA PusherKeeps ==
  ASSUME PusherInv, SeriesInv, Pusher!Next \/ UNCHANGED Pusher!vars
  PROVE  PusherInv' /\ SeriesInv'
  <1>1. CASE \E at \in Pusher!Times : at >= s1 /\ Pusher!PersistSingle(at)
    BY <1>1, SinglePersisted
  <1>2. CASE \E at, later \in Pusher!Times : at >= s1 /\ Pusher!PersistSeries(at, later)
    BY <1>2, SeriesPersisted
  <1>3. CASE \E i \in AlertIds : Pusher!DismissAlert(i)
    BY <1>3, AlertDismissed
  <1>4. CASE Pusher!DeleteAlerts
    BY <1>4, AlertsDeleted
  <1>5. ASSUME s4' = s4 PROVE SeriesInv'
    BY <1>5 DEF SeriesInv, Pusher!SeriesDismissedWhole, Pusher!Stored, Pusher!IsRecurringRoot
  <1>6. CASE Pusher!Tick
    BY <1>5, <1>6, PusherTicks DEF Pusher!Tick
  <1>7. CASE \E clock \in s3 : Pusher!Push(clock) \/ Pusher!TickFails(clock)
    BY <1>5, <1>7, PusherPushes DEF Pusher!Push, Pusher!TickFails
  <1>8. ASSUME s1' \in Nat, s1' <= s2 + BufferWindow, s1 <= s1',
               UNCHANGED <<s2, s3, s4, s5, s6, s7>>
        PROVE  PusherInv'
    BY <1>8 DEF PusherInv, AwaitsItsTick, Pusher!Active, Pusher!Stored, Pusher!Window
  <1>9. CASE Pusher!Advance
    <2>1. s1 \in Nat /\ s2 \in Nat /\ s1 < s2 + BufferWindow /\ s1' = s1 + 1
      BY <1>9 DEF Pusher!Advance, PusherInv
    <2> QED
      BY <1>5, <1>8, <1>9, <2>1, PusherTypes DEF Pusher!Advance
  <1>10. CASE UNCHANGED Pusher!vars
    BY <1>5, <1>8, <1>10 DEF Pusher!vars, PusherInv
  <1> QED
    BY <1>1, <1>2, <1>3, <1>4, <1>6, <1>7, <1>9, <1>10 DEF Pusher!Next

\* An alert whose time has passed, and all of whose ticks are answered, was pushed.
LEMMA NoneIsSkipped == PusherInv => Pusher!NoAlertSkipped
  <1> SUFFICES ASSUME PusherInv, ~s7, NEW i \in s5, Pusher!Active(i), s4[i].triggerAt < s1,
                      \A clock \in s3 : clock > s4[i].triggerAt
               PROVE  i \in s6
    BY DEF Pusher!NoAlertSkipped
  <1>1. AwaitsItsTick(i)
    BY DEF PusherInv
  <1>2. s1 \in Nat /\ s2 \in Nat /\ s1 <= s2 + BufferWindow /\ s3 \subseteq Nat
        /\ s4[i] \in Pusher!AlertRow
    BY DEF PusherInv
  <1>3. s4[i].triggerAt \in Nat
    BY <1>2, PusherTypes
  <1>4. ~(s2 + BufferWindow <= s4[i].triggerAt)
    BY <1>2, <1>3, PusherTypes
  <1>5. \A clock \in s3 : s4[i].triggerAt \notin Pusher!Window(clock)
    BY <1>2, <1>3, PusherTypes DEF Pusher!Window
  <1> QED
    BY <1>1, <1>4, <1>5 DEF AwaitsItsTick

-----------------------------------------------------------------------------
(* The days. *)

\* A day has its hours.
LEMMA DayIs ==
  ASSUME NEW H \in Nat, 0 < H, NEW w \in Int, NEW d \in Int
  PROVE  w \div H = d <=> d * H <= w /\ w < (d + 1) * H
  <1> DEFINE q == w \div H
  <1>1. q \in Int /\ q * H <= w /\ w < (q + 1) * H
    OBVIOUS
  <1> HIDE DEF q
  <1>2. CASE q < d
    <2>1. (q + 1) * H <= d * H
      BY <1>1, <1>2
    <2> QED
      BY <1>1, <1>2, <2>1
  <1>3. CASE d < q
    <2>1. (d + 1) * H <= q * H
      BY <1>1, <1>3
    <2> QED
      BY <1>1, <1>3, <2>1
  <1>4. CASE d = q
    BY <1>1, <1>4
  <1>5. q = d <=> d * H <= w /\ w < (d + 1) * H
    BY <1>1, <1>2, <1>3, <1>4
  <1> QED
    BY <1>5 DEF q

\* The offsets of a zone are less than a day.
LEMMA ZoneTypes ==
  ASSUME DayInv
  PROVE  /\ s1.before \in Int /\ s1.after \in Int /\ s1.change \in Int
         /\ s1.after = s1.before - 1 \/ s1.after = s1.before + 1
         /\ -Hours < s1.before /\ s1.before < Hours /\ -Hours < s1.after /\ s1.after < Hours
         /\ Hours \in Nat /\ 0 < Hours /\ TriggerHour \in Int /\ 1 <= TriggerHour
         /\ TriggerHour <= Hours - 2 /\ LastDay \in Nat /\ 1 <= LastDay
  <1>1. /\ Hours \in Nat /\ LastDay \in Nat \ {0} /\ TriggerHour \in 1..(Hours - 2)
        /\ ZoneOffsets \subseteq (2 - Hours)..(Hours - 2) /\ ZoneChanges \subseteq Int
    BY RecordsAssumption
  <1>2. /\ s1.before \in ZoneOffsets /\ s1.after \in {s1.before - 1, s1.before + 1}
        /\ s1.change \in ZoneChanges
    BY DEF DayInv, UserDay!TypeOK
  <1>3. s1.change \in Int /\ s1.before \in (2 - Hours)..(Hours - 2)
    BY <1>1, <1>2
  <1>4. TriggerHour \in Int /\ 1 <= TriggerHour /\ TriggerHour <= Hours - 2
    BY <1>1
  <1>5. /\ s1.before \in Int /\ 2 - Hours <= s1.before /\ s1.before <= Hours - 2
        /\ s1.after = s1.before - 1 \/ s1.after = s1.before + 1
    BY <1>1, <1>2, <1>3
  <1> QED
    BY <1>1, <1>3, <1>4, <1>5

LEMMA WallIs ==
  ASSUME DayInv, NEW t \in Int
  PROVE  /\ UserDay!getZonedOffset(t) = (IF t < s1.change THEN s1.before ELSE s1.after)
         /\ UserDay!getZonedOffset(t) \in Int
         /\ UserDay!Wall(t) = t + UserDay!getZonedOffset(t)
         /\ UserDay!Wall(t) \in Int
  BY ZoneTypes DEF UserDay!getZonedOffset, UserDay!Wall

LEMMA UtcIs ==
  ASSUME DayInv, NEW w \in Int
  PROVE  /\ UserDay!zonedPartsToUtc(w)
              = (IF w - (IF w < s1.change THEN s1.before ELSE s1.after) < s1.change
                 THEN w - s1.before ELSE w - s1.after)
         /\ UserDay!zonedPartsToUtc(w) \in Int
  <1>1. UserDay!getZonedOffset(w) = (IF w < s1.change THEN s1.before ELSE s1.after)
    BY WallIs
  <1>2. w - UserDay!getZonedOffset(w) \in Int
    BY WallIs
  <1>3. UserDay!getZonedOffset(w - UserDay!getZonedOffset(w))
          = (IF w - UserDay!getZonedOffset(w) < s1.change THEN s1.before ELSE s1.after)
    BY <1>2, WallIs
  <1> QED
    BY <1>1, <1>3, ZoneTypes DEF UserDay!zonedPartsToUtc

\* A wall clock that the change skips is there never, one that it repeats twice.
LEMMA OnceMeans ==
  ASSUME DayInv, NEW w \in Int, UserDay!Once(w)
  PROVE  /\ ~(s1.after = s1.before + 1 /\ w = s1.change + s1.before)
         /\ ~(s1.after = s1.before - 1 /\ w = s1.change + s1.after)
  <1>1. PICK t : UserDay!Instants(w) = {t}
    BY DEF UserDay!Once
  <1>2. t \in Int /\ UserDay!Wall(t) = w
    BY <1>1, ZoneTypes DEF UserDay!Instants
  <1>3. ~(s1.after = s1.before + 1 /\ w = s1.change + s1.before)
    BY <1>2, WallIs, ZoneTypes
  <1>4. ASSUME s1.after = s1.before - 1, w = s1.change + s1.after PROVE FALSE
    <2>1. s1.change \in Int /\ s1.change - 1 \in Int
      BY ZoneTypes
    <2>2. UserDay!Wall(s1.change) = w /\ UserDay!Wall(s1.change - 1) = w
      BY <1>4, <2>1, WallIs, ZoneTypes
    <2>3. /\ s1.change \in (w - Hours)..(w + Hours)
          /\ s1.change - 1 \in (w - Hours)..(w + Hours)
      BY <1>4, ZoneTypes
    <2>4. s1.change = t /\ s1.change - 1 = t
      BY <1>1, <2>2, <2>3 DEF UserDay!Instants
    <2> QED
      BY <2>1, <2>4
  <1> QED
    BY <1>3, <1>4

LEMMA KnownMeans ==
  ASSUME DayInv, NEW w \in Int, UserDay!Known(w)
  PROVE  /\ s1.after = s1.before + 1 /\ w = s1.change + s1.before => s1.before >= 0
         /\ s1.after = s1.before - 1 /\ w = s1.change + s1.after => s1.after < 0
  <1>1. ASSUME s1.after = s1.before + 1, w = s1.change + s1.before PROVE s1.before >= 0
    <2>1. \A t \in Int : UserDay!Wall(t) # w
      BY <1>1, WallIs, ZoneTypes
    <2>2. UserDay!Instants(w) = {}
      BY <2>1, ZoneTypes DEF UserDay!Instants
    <2>3. ~UserDay!Once(w)
      BY <1>1, OnceMeans
    <2> QED
      BY <2>2, <2>3 DEF UserDay!Known
  <1>2. ASSUME s1.after = s1.before - 1, w = s1.change + s1.after PROVE s1.after < 0
    <2>1. UserDay!Wall(s1.change) = w
      BY <1>2, WallIs, ZoneTypes
    <2>2. s1.change \in (w - Hours)..(w + Hours)
      BY <1>2, ZoneTypes
    <2>3. UserDay!Instants(w) # {}
      BY <2>1, <2>2 DEF UserDay!Instants
    <2>4. ~UserDay!Once(w)
      BY <1>2, OnceMeans
    <2> QED
      BY <2>3, <2>4 DEF UserDay!Known
  <1> QED
    BY <1>1, <1>2

\* What is on the right side of a known midnight.
LEMMA KnownDivides ==
  ASSUME DayInv, NEW w \in Int, UserDay!Known(w), NEW t \in Int
  PROVE  UserDay!zonedPartsToUtc(w) <= t <=> w <= UserDay!Wall(t)
  <1> DEFINE z == UserDay!zonedPartsToUtc(w)
             v == UserDay!Wall(t)
  <1>1. /\ z = (IF w - (IF w < s1.change THEN s1.before ELSE s1.after) < s1.change
                THEN w - s1.before ELSE w - s1.after)
        /\ z \in Int
    BY UtcIs
  <1>2. v = t + (IF t < s1.change THEN s1.before ELSE s1.after) /\ v \in Int
    BY WallIs
  <1>3. /\ s1.after = s1.before + 1 /\ w = s1.change + s1.before => s1.before >= 0
        /\ s1.after = s1.before - 1 /\ w = s1.change + s1.after => s1.after < 0
    BY KnownMeans
  <1> HIDE DEF z, v
  <1>4. z <= t <=> w <= v
    <2>1. CASE s1.after = s1.before + 1
      BY <1>1, <1>2, <1>3, <2>1, ZoneTypes
    <2>2. CASE s1.after = s1.before - 1
      BY <1>1, <1>2, <1>3, <2>2, ZoneTypes
    <2> QED
      BY <2>1, <2>2, ZoneTypes
  <1> QED
    BY <1>4 DEF z, v

\* A wall clock becomes an instant that shows it, or one of the next hours.
LEMMA WallComesBack ==
  ASSUME DayInv, NEW w \in Int
  PROVE  /\ UserDay!zonedPartsToUtc(w) \in Int
         /\ LET v == UserDay!Wall(UserDay!zonedPartsToUtc(w))
            IN v \in Int /\ w - 1 <= v /\ v <= w + 1 /\ (UserDay!Once(w) => v = w)
  <1> DEFINE t == UserDay!zonedPartsToUtc(w)
  <1>1. t \in Int
    BY UtcIs
  <1>2. /\ UserDay!Wall(t) = t + (IF t < s1.change THEN s1.before ELSE s1.after)
        /\ UserDay!Wall(t) \in Int
    BY <1>1, WallIs
  <1>3. t = (IF w - (IF w < s1.change THEN s1.before ELSE s1.after) < s1.change
             THEN w - s1.before ELSE w - s1.after)
    BY UtcIs
  <1> HIDE DEF t
  <1>4. w - 1 <= UserDay!Wall(t) /\ UserDay!Wall(t) <= w + 1
    BY <1>1, <1>2, <1>3, ZoneTypes
  <1>5. ASSUME UserDay!Once(w) PROVE UserDay!Wall(t) = w
    <2>1. /\ ~(s1.after = s1.before + 1 /\ w = s1.change + s1.before)
          /\ ~(s1.after = s1.before - 1 /\ w = s1.change + s1.after)
      BY <1>5, OnceMeans
    <2> QED
      BY <1>1, <1>2, <1>3, <2>1, ZoneTypes
  <1> QED
    BY <1>1, <1>2, <1>4, <1>5 DEF t

LEMMA DayStarts == UserDay!Init => DayInv
  <1> SUFFICES ASSUME UserDay!Init PROVE DayInv
    OBVIOUS
  <1>1. PICK b \in ZoneOffsets, a \in {-1, 1}, c \in ZoneChanges :
          s1 = [before |-> b, after |-> b + a, change |-> c]
    BY DEF UserDay!Init
  <1>2. b \in Int
    BY RecordsAssumption
  <1>3. s2 \in Hours..(LastDay * Hours)
    <2>1. Hours \in Nat /\ LastDay \in Nat /\ 1 <= LastDay
      BY RecordsAssumption
    <2>2. Hours <= LastDay * Hours /\ LastDay * Hours \in Int
      BY <2>1
    <2> QED
      BY <2>1, <2>2 DEF UserDay!Init
  <1> QED
    BY <1>1, <1>2, <1>3 DEF DayInv, UserDay!TypeOK

LEMMA DayKeeps ==
  ASSUME DayInv, UserDay!Next \/ UNCHANGED UserDay!vars
  PROVE  DayInv'
  <1>1. CASE UserDay!Next
    <2>1. s2 \in Hours..(LastDay * Hours) /\ s2 < LastDay * Hours /\ s2' = s2 + 1 /\ s1' = s1
      BY <1>1 DEF UserDay!Next, UserDay!Tick, DayInv, UserDay!TypeOK
    <2>2. Hours \in Int /\ LastDay * Hours \in Int
      BY RecordsAssumption
    <2>3. s2' \in Hours..(LastDay * Hours)
      BY <2>1, <2>2
    <2> QED
      BY <2>1, <2>3 DEF DayInv, UserDay!TypeOK
  <1>2. CASE UNCHANGED UserDay!vars
    BY <1>2 DEF UserDay!vars, DayInv, UserDay!TypeOK
  <1> QED
    BY <1>1, <1>2

\* The clock never leaves the days from 0 to the last.
LEMMA NowIsADay ==
  ASSUME DayInv
  PROVE  /\ s2 \in Int
         /\ UserDay!DayOf(s2) \in Int /\ 0 <= UserDay!DayOf(s2) /\ UserDay!DayOf(s2) <= LastDay
  <1>1. /\ Hours \in Nat /\ 0 < Hours /\ LastDay \in Nat
        /\ -Hours < s1.before /\ s1.before < Hours /\ -Hours < s1.after /\ s1.after < Hours
        /\ s1.before \in Int /\ s1.after \in Int
    BY ZoneTypes
  <1>2. LastDay * Hours \in Int
    BY <1>1
  <1>3. s2 \in Int /\ Hours <= s2 /\ s2 <= LastDay * Hours
    BY <1>1, <1>2 DEF DayInv, UserDay!TypeOK
  <1> DEFINE w == UserDay!Wall(s2)
             d == UserDay!DayOf(s2)
  <1>4. w \in Int /\ w = s2 + UserDay!getZonedOffset(s2) /\ UserDay!getZonedOffset(s2) \in Int
        /\ (UserDay!getZonedOffset(s2) = s1.before \/ UserDay!getZonedOffset(s2) = s1.after)
    BY <1>3, WallIs
  <1>5. 0 < w /\ w < LastDay * Hours + Hours
    BY <1>1, <1>2, <1>3, <1>4
  <1>6. d = w \div Hours /\ d \in Int
    BY <1>1, <1>4 DEF UserDay!DayOf
  <1> HIDE DEF d, w
  <1>7. d * Hours <= w /\ w < (d + 1) * Hours
    BY <1>1, <1>4, <1>6, DayIs
  <1>8. 0 <= d
    <2>1. CASE d < 0
      <3>1. (d + 1) * Hours <= 0
        BY <1>1, <1>6, <2>1
      <3> QED
        BY <1>4, <1>5, <1>7, <1>6, <1>1, <3>1
    <2> QED
      BY <1>6, <2>1
  <1>9. d <= LastDay
    <2>1. CASE LastDay + 1 <= d
      <3>1. (LastDay + 1) * Hours <= d * Hours
        BY <1>1, <1>6, <2>1
      <3> QED
        BY <1>1, <1>4, <1>5, <1>6, <1>7, <3>1
    <2> QED
      BY <1>1, <1>6, <2>1
  <1> QED
    BY <1>3, <1>6, <1>8, <1>9 DEF d

\* The range of today is the instants of today.
LEMMA TodayIs == DayInv => UserDay!TodayIsWhole
  <1> SUFFICES ASSUME DayInv PROVE UserDay!TodayIsWhole
    OBVIOUS
  <1> DEFINE d == UserDay!DayOf(s2)
             lo == d * Hours
             hi == (d + 1) * Hours
             r == UserDay!getUserDayRange(s2)
  <1>1. d \in Int /\ Hours \in Nat /\ 0 < Hours /\ s2 \in Int
    BY NowIsADay, ZoneTypes
  <1>2. r.start = UserDay!zonedPartsToUtc(lo) /\ r.end = UserDay!zonedPartsToUtc(hi)
    BY DEF UserDay!getUserDayRange, UserDay!getUserYmdDayRange
  <1> HIDE DEF d, r
  <1>3. lo \in Int /\ hi \in Int
    BY <1>1
  <1>4. ASSUME UserDay!Known(lo), UserDay!Known(hi), NEW t \in Int
        PROVE  (r.start <= t /\ t < r.end) <=> UserDay!DayOf(t) = d
    <2> DEFINE w == UserDay!Wall(t)
    <2>1. w \in Int
      BY WallIs
    <2>2. (r.start <= t <=> lo <= w) /\ (r.end <= t <=> hi <= w)
      BY <1>2, <1>3, <1>4, KnownDivides
    <2>3. r.end \in Int
      BY <1>2, <1>3, UtcIs
    <2>4. UserDay!DayOf(t) = w \div Hours
      BY DEF UserDay!DayOf
    <2> HIDE DEF w
    <2>5. UserDay!DayOf(t) = d <=> lo <= w /\ w < hi
      BY <1>1, <2>1, <2>4, DayIs
    <2> HIDE DEF lo, hi
    <2> QED
      BY <1>3, <2>1, <2>2, <2>3, <2>5
  <1>5. ASSUME UserDay!Known(lo), UserDay!Known(hi),
               NEW t \in (s2 - 2 * Hours)..(s2 + 2 * Hours)
        PROVE  (r.start <= t /\ t < r.end) <=> UserDay!DayOf(t) = d
    <2>1. t \in Int
      BY <1>1
    <2> QED
      BY <1>4, <1>5, <2>1
  <1> QED
    BY <1>5 DEF d, r, UserDay!TodayIsWhole

\* The days on which a series may end.
EndsOf(mode) ==
  IF mode = "WEEK"
  THEN {d \in UserDay!DayOf(s2)..(UserDay!DayOf(s2) + 7) : UserDay!Weekday(d) = 5}
  ELSE MonthEnds

LEMMA FirstEnd ==
  ASSUME DayInv
  PROVE  \E e \in MonthEnds : /\ UserDay!DayOf(s2) <= e
                              /\ \A m \in MonthEnds : m < e => m < UserDay!DayOf(s2)
  <1> DEFINE D == UserDay!DayOf(s2)
             S == {e \in MonthEnds : D <= e}
  <1>1. D \in Int /\ 0 <= D /\ D <= LastDay /\ MonthEnds \subseteq 0..(7 * LastDay)
        /\ LastDay \in Nat
    BY NowIsADay, RecordsAssumption
  <1>2. PICK f \in MonthEnds : LastDay < f
    BY RecordsAssumption
  <1>3. MonthEnds \subseteq Nat
    BY <1>1
  <1> HIDE DEF D
  <1>4. f \in S /\ S \subseteq Nat
    <2>1. f \in Nat /\ D <= f
      BY <1>1, <1>2, <1>3
    <2> QED
      BY <1>2, <1>3, <2>1
  <1>5. PICK e \in S : \A m \in S : e <= m
    <2>1. S # {}
      BY <1>4
    <2> HIDE DEF S
    <2> QED
      BY <1>4, <2>1, LeastNat
  <1>6. \A m \in MonthEnds : m < e => m < D
    BY <1>1, <1>3, <1>5
  <1> QED
    BY <1>5, <1>6 DEF D

LEMMA EndDayIs ==
  ASSUME DayInv, NEW mode \in {"WEEK", "MONTH"}
  PROVE  LET D == UserDay!DayOf(s2)
             E == UserDay!calculateEndDay(D, mode)
         IN /\ E \in Int /\ E <= D + 7 * LastDay
            /\ E \in EndsOf(mode) /\ D <= E
            /\ \A e \in EndsOf(mode) : D <= e => E <= e
  <1> DEFINE D == UserDay!DayOf(s2)
             E == UserDay!calculateEndDay(D, mode)
  <1>1. D \in Int /\ 0 <= D /\ LastDay \in Nat /\ 1 <= LastDay
    BY NowIsADay, ZoneTypes
  <1>2. CASE mode = "WEEK"
    <2>1. E = (IF D % 7 <= 5 THEN D + 5 - (D % 7) ELSE D + 5 + 7 - (D % 7))
      BY <1>2 DEF UserDay!calculateEndDay, UserDay!Weekday
    <2>2. EndsOf(mode) = {d \in D..(D + 7) : d % 7 = 5}
      BY <1>2 DEF EndsOf, UserDay!Weekday
    <2> HIDE DEF D, E
    <2>3. E \in Int /\ D <= E /\ E <= D + 7 /\ E % 7 = 5
      BY <1>1, <2>1
    <2>4. \A e \in D..(D + 7) : e % 7 = 5 => E <= e
      BY <1>1, <2>1
    <2>5. E <= D + 7 * LastDay
      BY <1>1, <2>3
    <2> QED
      BY <1>1, <2>2, <2>3, <2>4, <2>5 DEF D, E
  <1>3. CASE mode = "MONTH"
    <2>1. E = CHOOSE e \in MonthEnds : D <= e /\ \A m \in MonthEnds : m < e => m < D
      BY <1>3 DEF UserDay!calculateEndDay
    <2>2. \E e \in MonthEnds : D <= e /\ \A m \in MonthEnds : m < e => m < D
      BY FirstEnd
    <2> HIDE DEF E
    <2>3. E \in MonthEnds /\ D <= E /\ \A m \in MonthEnds : m < E => m < D
      BY <2>1, <2>2
    <2>4. EndsOf(mode) = MonthEnds
      BY <1>3 DEF EndsOf
    <2>5. MonthEnds \subseteq 0..(7 * LastDay)
      BY RecordsAssumption
    <2> HIDE DEF D
    <2>6. MonthEnds \subseteq Int /\ E \in Int /\ E <= 7 * LastDay
      BY <1>1, <2>3, <2>5
    <2>7. E <= D + 7 * LastDay
      BY <1>1, <2>6
    <2>8. \A e \in MonthEnds : D <= e => E <= e
      BY <1>1, <2>3, <2>6
    <2> QED
      BY <2>3, <2>4, <2>6, <2>7, <2>8 DEF D, E
  <1> QED
    BY <1>2, <1>3

\* The instant of an alert is of the day it is for.
LEMMA HourOfDay ==
  ASSUME DayInv, NEW d \in Int
  PROVE  LET t == UserDay!zonedPartsToUtc(d * Hours + TriggerHour)
         IN /\ UserDay!DayOf(t) = d
            /\ UserDay!Once(d * Hours + TriggerHour) => UserDay!Wall(t) = d * Hours + TriggerHour
  <1> DEFINE w == d * Hours + TriggerHour
             t == UserDay!zonedPartsToUtc(w)
             v == UserDay!Wall(t)
  <1>1. /\ Hours \in Nat /\ 0 < Hours /\ TriggerHour \in Int /\ 1 <= TriggerHour
        /\ TriggerHour <= Hours - 2
    BY ZoneTypes
  <1>2. w \in Int
    BY <1>1
  <1>3. v \in Int /\ w - 1 <= v /\ v <= w + 1 /\ (UserDay!Once(w) => v = w)
    <2> HIDE DEF w
    <2> QED
      BY <1>2, WallComesBack
  <1>4. UserDay!DayOf(t) = v \div Hours
    BY DEF UserDay!DayOf
  <1> HIDE DEF t, v
  <1>5. d * Hours <= v /\ v < (d + 1) * Hours
    <2>1. (d + 1) * Hours = d * Hours + Hours /\ d * Hours \in Int
      BY <1>1
    <2> QED
      BY <1>1, <1>3, <2>1
  <1>6. UserDay!DayOf(t) = d
    BY <1>1, <1>3, <1>4, <1>5, DayIs
  <1> QED
    BY <1>3, <1>6 DEF t, v

LEMMA HoursAre == DayInv => UserDay!AlertsAtTheHour
  <1> SUFFICES ASSUME DayInv, NEW mode \in {"WEEK", "MONTH"}
               PROVE  LET series == UserDay!calculateRecurringAlertDates(s2, mode)
                          days == {d \in UserDay!DayOf(s2)..(UserDay!DayOf(s2) + 7 * LastDay) :
                                     /\ UserDay!isWeekdayDay(d)
                                     /\ \A e \in EndsOf(mode) : UserDay!DayOf(s2) <= e => d <= e}
                          atHour == {d \in days : UserDay!Once(d * Hours + TriggerHour)}
                      IN /\ \A d \in atHour :
                              \E t \in series : UserDay!Wall(t) = d * Hours + TriggerHour
                         /\ \A t \in series : UserDay!DayOf(t) \in days
                         /\ days = atHour =>
                              \A t, u \in series : UserDay!DayOf(t) = UserDay!DayOf(u) => t = u
    BY DEF UserDay!AlertsAtTheHour, EndsOf
  <1> DEFINE D == UserDay!DayOf(s2)
             E == UserDay!calculateEndDay(D, mode)
             At(d) == UserDay!zonedPartsToUtc(d * Hours + TriggerHour)
             series == UserDay!calculateRecurringAlertDates(s2, mode)
             days == {d \in D..(D + 7 * LastDay) :
                        /\ UserDay!isWeekdayDay(d) /\ \A e \in EndsOf(mode) : D <= e => d <= e}
  <1>1. series = {At(d) : d \in {x \in D..E : UserDay!isWeekdayDay(x)}}
    BY DEF UserDay!calculateRecurringAlertDates
  <1>2. /\ E \in Int /\ E <= D + 7 * LastDay /\ E \in EndsOf(mode) /\ D <= E
        /\ \A e \in EndsOf(mode) : D <= e => E <= e
    BY EndDayIs
  <1>3. D \in Int /\ LastDay \in Nat
    BY NowIsADay, ZoneTypes
  <1>4. EndsOf(mode) \subseteq Int
    <2>1. MonthEnds \subseteq Int
      BY RecordsAssumption
    <2>2. EndsOf(mode) = {d \in D..(D + 7) : UserDay!Weekday(d) = 5} \/ EndsOf(mode) = MonthEnds
      BY DEF EndsOf
    <2> HIDE DEF D
    <2>3. D..(D + 7) \subseteq Int
      BY <1>3
    <2>4. EndsOf(mode) \subseteq D..(D + 7) \/ EndsOf(mode) = MonthEnds
      BY <2>2
    <2> QED
      BY <2>1, <2>3, <2>4
  <1>5. \A d \in Int : /\ UserDay!DayOf(At(d)) = d
                       /\ UserDay!Once(d * Hours + TriggerHour) =>
                            UserDay!Wall(At(d)) = d * Hours + TriggerHour
    BY HourOfDay
  <1> HIDE DEF D, E, At, series
  <1>6. days = {x \in D..E : UserDay!isWeekdayDay(x)}
    BY <1>2, <1>3, <1>4
  <1>7. \A d \in days : d \in Int
    BY <1>3
  <1> HIDE DEF days
  <1>8. \A d \in days : UserDay!Once(d * Hours + TriggerHour) =>
          \E t \in series : UserDay!Wall(t) = d * Hours + TriggerHour
    BY <1>1, <1>5, <1>6, <1>7
  <1>9. \A t \in series : \E d \in days : t = At(d) /\ UserDay!DayOf(t) = d
    BY <1>1, <1>5, <1>6, <1>7
  <1>10. \A t, u \in series : UserDay!DayOf(t) = UserDay!DayOf(u) => t = u
    BY <1>9
  <1> QED
    BY <1>8, <1>9, <1>10 DEF D, series, days

-----------------------------------------------------------------------------
(* Ranks in a finite set of numbers. *)

Below(S, x) == {y \in S : y < x}
Rank(S, x) == Cardinality(Below(S, x))

LEMMA RankType ==
  ASSUME NEW S, IsFiniteSet(S), NEW x
  PROVE  IsFiniteSet(Below(S, x)) /\ Rank(S, x) \in Nat /\ Cardinality(S) \in Nat
  BY FS_Subset, FS_CardinalityType DEF Below, Rank

\* A greater element has a greater rank, and no rank reaches the number of
\* elements.
LEMMA RankGrows ==
  ASSUME NEW S, S \subseteq Nat, IsFiniteSet(S), NEW x \in S
  PROVE  /\ Rank(S, x) < Cardinality(S)
         /\ \A y \in S : x < y => Rank(S, x) < Rank(S, y)
  <1> DEFINE T == Below(S, x) \cup {x}
  <1>0. x \in Nat /\ x \notin Below(S, x) /\ T \subseteq S
    BY DEF Below
  <1>1. IsFiniteSet(T) /\ Cardinality(T) = Rank(S, x) + 1
    <2>1. IsFiniteSet(Below(S, x))
      BY RankType
    <2> QED
      BY <1>0, <2>1, FS_AddElement DEF Rank
  <1>2. Cardinality(T) <= Cardinality(S)
    BY <1>0, FS_Subset
  <1>3. ASSUME NEW y \in S, x < y
        PROVE  Rank(S, x) < Rank(S, y)
    <2>1. T \subseteq Below(S, y)
      <3>1. ASSUME NEW z \in T
            PROVE  z \in S /\ z < y
        <4>1. x \in Nat /\ y \in Nat /\ z \in Nat /\ (z = x \/ z < x)
          BY <1>0 DEF Below
        <4> QED
          BY <1>0, <1>3, <4>1
      <3> QED
        BY <3>1 DEF Below
    <2>2. Cardinality(T) <= Rank(S, y)
      BY <2>1, RankType, FS_Subset DEF Rank
    <2> QED
      BY <1>1, <2>2, RankType
  <1> QED
    BY <1>1, <1>2, <1>3, RankType

\* A finite set of numbers has a greatest one: that of the greatest rank.
LEMMA GreatestOf ==
  ASSUME NEW S, S \subseteq Nat, IsFiniteSet(S), S # {}
  PROVE  \E x \in S : \A y \in S : y <= x
  <1> DEFINE n == Cardinality(S)
             R == {n - Rank(S, x) : x \in S}
  <1>1. n \in Nat /\ \A x \in S : Rank(S, x) \in Nat /\ Rank(S, x) < n
    BY RankType, RankGrows
  <1> HIDE DEF n
  <1>2. R \subseteq Nat /\ R # {}
    <2>1. \A x \in S : n - Rank(S, x) \in Nat
      BY <1>1
    <2> QED
      BY <2>1
  <1>3. PICK r \in R : \A t \in R : r <= t
    BY <1>2, LeastNat
  <1>4. PICK x \in S : r = n - Rank(S, x)
    OBVIOUS
  <1>5. \A y \in S : Rank(S, y) <= Rank(S, x)
    BY <1>1, <1>3, <1>4
  <1>6. ASSUME NEW y \in S, x < y
        PROVE  FALSE
    <2>1. Rank(S, x) < Rank(S, y)
      BY <1>6, RankGrows
    <2> QED
      BY <1>1, <1>5, <2>1
  <1> QED
    BY <1>6

\* Every rank below the number of elements is that of one of them.
LEMMA RankTaken ==
  ASSUME NEW S, S \subseteq Nat, IsFiniteSet(S), NEW j \in Nat, j < Cardinality(S)
  PROVE  \E x \in S : Rank(S, x) = j
  <1> DEFINE U == {x \in S : j <= Rank(S, x)}
  <1>1. U # {}
    <2>1. S # {}
      BY FS_EmptySet
    <2>2. PICK x \in S : \A y \in S : y <= x
      BY <2>1, GreatestOf
    <2>3. Below(S, x) = S \ {x}
      <3>1. \A y \in S : y < x <=> y # x
        BY <2>2
      <3> QED
        BY <3>1 DEF Below
    <2>4. Rank(S, x) = Cardinality(S) - 1
      BY <2>3, FS_RemoveElement DEF Rank
    <2> QED
      BY <2>4, RankType
  <1>2. PICK x \in U : \A y \in U : x <= y
    BY <1>1, LeastNat
  <1>3. ASSUME j < Rank(S, x)
        PROVE  FALSE
    <2>1. IsFiniteSet(Below(S, x)) /\ Below(S, x) \subseteq Nat
      BY RankType DEF Below
    <2>2. Below(S, x) # {}
      BY <1>3, FS_EmptySet DEF Rank
    <2>3. PICK t \in Below(S, x) : \A y \in Below(S, x) : y <= t
      BY <2>1, <2>2, GreatestOf
    <2>4. Below(S, t) = Below(S, x) \ {t}
      <3>1. t \in S /\ t < x /\ x \in S
        BY <2>3 DEF Below
      <3>2. ASSUME NEW y \in S
            PROVE  y < t <=> y < x /\ y # t
        <4>1. y < x => y <= t
          BY <2>3 DEF Below
        <4>2. y \in Nat /\ t \in Nat /\ x \in Nat
          BY <3>1
        <4> QED
          BY <3>1, <4>1, <4>2
      <3> QED
        BY <3>2 DEF Below
    <2>5. Rank(S, t) = Rank(S, x) - 1
      BY <2>1, <2>3, <2>4, FS_RemoveElement DEF Rank
    <2>6. t \in S /\ t < x /\ t \in Nat /\ x \in Nat
      BY <2>3 DEF Below
    <2>7. j <= Rank(S, t)
      <3>1. Rank(S, x) \in Nat
        BY RankType
      <3> QED
        BY <1>3, <2>5, <3>1
    <2> QED
      BY <1>2, <2>6, <2>7
  <1>4. Rank(S, x) \in Nat
    BY RankType
  <1> QED
    BY <1>2, <1>3, <1>4

-----------------------------------------------------------------------------
(* The calendar. *)

LEMMA MonthStarts == Month!Init => MonthInv
  <1> SUFFICES ASSUME Month!Init PROVE MonthInv
    OBVIOUS
  <1>1. Months \subseteq Nat /\ Today \in Months
    BY RecordsAssumption
  <1> DEFINE first == [id |-> 0, from |-> 0, to |-> Today, rest |-> TRUE, phase |-> "asked", rows |-> {}]
  <1>2. first \in MonthRange
    BY <1>1 DEF MonthRange
  <1>3. s5 = {first}
    BY DEF Month!Init
  <1>4. first.rest /\ first.phase = "asked" /\ first.rows = {} /\ first.from = 0 /\ first.to = Today
    OBVIOUS
  <1> HIDE DEF first
  <1>5. \A m \in Month!Whole : Brings(first, m)
    BY <1>4 DEF Month!Whole, Brings
  <1>6. HolidayInv
    <2> DEFINE run == [token |-> 1, year |-> Today, done |-> 0]
    <2>1. run \in HolidayRun /\ run.token = 1 /\ run.year = Today
      BY <1>1 DEF HolidayRun
    <2>2. /\ s1 = Today /\ s6 = {}
          /\ \/ s10 = TRUE /\ s8 = TRUE /\ s7 = 1 /\ s9 = {run}
             \/ s10 = FALSE /\ s8 = FALSE /\ s7 = 0 /\ s9 = {}
      BY DEF Month!Init
    <2> HIDE DEF run
    <2>3. CASE s10
      <3>1. s8 = TRUE /\ s7 = 1 /\ s9 = {run}
        BY <2>2, <2>3
      <3>2. Month!HolidaysFollow
        BY <2>1, <2>3, <3>1 DEF Month!HolidaysFollow, Month!Current
      <3> QED
        BY <1>1, <2>1, <2>2, <2>3, <3>1, <3>2 DEF HolidayInv
    <2>4. CASE ~s10
      <3>1. s8 = FALSE /\ s7 = 0 /\ s9 = {}
        BY <2>2, <2>4
      <3>2. Month!HolidaysFollow
        BY <2>2, <3>1 DEF Month!HolidaysFollow, Month!Current
      <3> QED
        BY <1>1, <2>2, <2>4, <3>1, <3>2 DEF HolidayInv
    <2> QED
      BY <2>3, <2>4
  <1> QED
    BY <1>1, <1>2, <1>3, <1>4, <1>5, <1>6 DEF Month!Init, MonthInv

\* A run of loadHolidays that starts is the latest.
LEMMA HolidaysStart ==
  ASSUME HolidayInv, NEW m \in Months, Month!loadHolidays(m), s1' = m, UNCHANGED s10
  PROVE  HolidayInv'
  <1>1. CASE s10
    <2> DEFINE new == [token |-> s7 + 1, year |-> m, done |-> 0]
    <2>1. new \in HolidayRun /\ new.token = s7 + 1 /\ new.year = m
      BY DEF HolidayInv, HolidayRun
    <2>2. s7' = s7 + 1 /\ s8' = TRUE /\ s9' = s9 \cup {new} /\ s6' = s6
      BY <1>1 DEF Month!loadHolidays
    <2> HIDE DEF new
    <2> QED
      BY <1>1, <2>1, <2>2 DEF HolidayInv, HolidayRun, Month!HolidaysFollow, Month!Current
  <1>2. CASE ~s10
    BY <1>2 DEF Month!loadHolidays, HolidayInv, Month!HolidaysFollow, Month!Current
  <1> QED
    BY <1>1, <1>2

\* A year of it is loaded or not.
LEMMA HolidaysGoOn ==
  ASSUME HolidayInv, NEW h \in s9, Month!YearLoaded(h) \/ Month!YearFailed(h)
  PROVE  HolidayInv'
  <1>0. /\ UNCHANGED <<s1, s7, s10>> /\ s10
        /\ h \in HolidayRun /\ s7 \in Nat /\ (Month!Current(h) => h.year = s1 /\ s8)
        /\ Month!Current(h) <=> h.token = s7
    BY DEF HolidayInv, HolidayRun, Month!YearLoaded, Month!YearFailed, Month!HolidaysFollow,
       Month!Current
  <1>1. CASE Month!YearLoaded(h) /\ Month!Current(h) /\ h.done < 2
    <2> DEFINE k == [h EXCEPT !.done = @ + 1]
    <2>1. k \in HolidayRun /\ k.token = h.token /\ k.year = h.year
      BY <1>0, <1>1 DEF HolidayRun
    <2>2. h.done # 2
      BY <1>0, <1>1 DEF HolidayRun
    <2>3. s9' = (s9 \ {h}) \cup {k} /\ UNCHANGED <<s6, s8>>
      BY <1>1, <2>2 DEF Month!YearLoaded
    <2> HIDE DEF k
    <2> QED
      BY <1>0, <1>1, <2>1, <2>3 DEF HolidayInv, Month!HolidaysFollow, Month!Current
  <1>2. CASE Month!YearLoaded(h) /\ Month!Current(h) /\ ~(h.done < 2)
    <2>0. h.done = 2
      BY <1>0, <1>2 DEF HolidayRun
    <2>1. s9' = s9 \ {h} /\ s6' = Month!Window(s1) /\ s8' = FALSE
      BY <1>0, <1>2, <2>0 DEF Month!YearLoaded
    <2>2. Month!Window(s1)' = Month!Window(s1)
      BY <1>0 DEF Month!Window
    <2> QED
      BY <1>0, <1>2, <2>1, <2>2 DEF HolidayInv, Month!HolidaysFollow, Month!Current
  <1>3. CASE Month!YearFailed(h) /\ Month!Current(h)
    <2>1. s9' = s9 \ {h} /\ s6' = {} /\ s8' = FALSE
      BY <1>3 DEF Month!YearFailed
    <2> QED
      BY <1>0, <1>3, <2>1 DEF HolidayInv, Month!HolidaysFollow, Month!Current
  <1>4. CASE ~Month!Current(h)
    <2>1. s9' = s9 \ {h} /\ UNCHANGED <<s6, s8>>
      BY <1>4 DEF Month!YearLoaded, Month!YearFailed
    <2>2. Month!Window(s1)' = Month!Window(s1)
      BY <1>0 DEF Month!Window
    <2> QED
      BY <1>0, <1>4, <2>1, <2>2 DEF HolidayInv, Month!HolidaysFollow, Month!Current
  <1> QED
    BY <1>1, <1>2, <1>3, <1>4

LEMMA MonthKeeps ==
  ASSUME MonthInv, Month!Next \/ UNCHANGED Month!vars
  PROVE  MonthInv'
  <1>0. /\ s1 \in Months /\ Months \subseteq Nat /\ Today \in Months
        /\ s2 \subseteq Months /\ s3 \subseteq Months /\ s11 \in Nat /\ s5 \subseteq MonthRange
        /\ \A l \in s5 : l.from \in Nat /\ l.to \in Nat
    BY RecordsAssumption DEF MonthInv, HolidayInv, MonthRange
  <1>h. UNCHANGED <<s1, s6, s7, s8, s9, s10>> => HolidayInv'
    BY DEF MonthInv, HolidayInv, Month!HolidaysFollow, Month!Current, Month!Window
  <1>1. CASE UNCHANGED Month!vars
    BY <1>1, <1>h DEF Month!vars, MonthInv, Month!Whole
  <1>2. ASSUME NEW m \in Months, Month!GoTo(m)
        PROVE  MonthInv'
    <2> DEFINE new == Month!MonthLoad(m)
    <2>1. /\ new \in MonthRange /\ new.from = m /\ new.to = m /\ new.phase = "asked"
          /\ new.rows = {} /\ ~new.rest
      BY <1>0 DEF Month!MonthLoad, Month!Load, MonthRange
    <2>2. /\ s1' = m /\ s5' = s5 \cup {new} /\ s11' = s11 + 1
          /\ UNCHANGED <<s2, s3, s4, s10, s12, s13, s14>> /\ Month!loadHolidays(m)
      BY <1>2 DEF Month!GoTo
    <2> HIDE DEF new
    <2>3. HolidayInv'
      BY <2>2, HolidaysStart DEF MonthInv
    <2>4. Brings(new, m)
      BY <1>0, <2>1 DEF Brings
    <2> QED
      BY <1>0, <2>1, <2>2, <2>3, <2>4 DEF MonthInv, Brings, Month!Whole
  <1>3. ASSUME NEW m \in Months, Month!Write(m)
        PROVE  MonthInv'
    <2> DEFINE new == Month!fetchActivity
    <2>1. /\ new \in MonthRange /\ new.from = 0 /\ new.to = Today /\ new.phase = "asked"
          /\ new.rows = {} /\ new.rest
      BY <1>0 DEF Month!fetchActivity, Month!Load, MonthRange
    <2>2. /\ s2' = s2 \cup {m} /\ s5' = s5 \cup {new} /\ s11' = s11 + 1 /\ s12' = s12 \ {m}
          /\ UNCHANGED <<s1, s3, s4, s6, s7, s8, s9, s10, s13, s14>>
      BY <1>3 DEF Month!Write, Month!holidayVars
    <2> HIDE DEF new
    <2>3. \A k \in Month!Whole : Brings(new, k)
      BY <2>1 DEF Brings, Month!Whole
    <2> QED
      BY <1>0, <1>h, <2>1, <2>2, <2>3 DEF MonthInv, Brings, Month!Whole
  <1>4. ASSUME NEW m \in Months, Month!WriteElsewhere(m)
        PROVE  MonthInv'
    <2>1. /\ s11' = s11 + 1 /\ UNCHANGED <<s1, s4, s5, s6, s7, s8, s9, s10, s13, s14>>
          /\ s2' \subseteq Months /\ s3' \subseteq Months
          /\ s2 \cup s3 \subseteq s2' \cup s3' /\ s2' \ s12' \subseteq s2 \ s12
      BY <1>0, <1>4 DEF Month!WriteElsewhere, Month!holidayVars
    <2>2. s4' \subseteq s2' \cup s3' /\ \A l \in s5' : l.rows \subseteq s2' \cup s3'
      <3>1. s4 \subseteq s2 \cup s3 /\ \A l \in s5 : l.rows \subseteq s2 \cup s3
        BY DEF MonthInv
      <3>2. s4' = s4 /\ s5' = s5 /\ s2 \cup s3 \subseteq s2' \cup s3'
        BY <2>1
      <3> QED
        BY <3>1, <3>2
    <2>4. s11' \in Nat
      BY <1>0, <2>1
    <2>3. ~s14' =>
            /\ s1' \in s13' \/ \E l \in s5' : l.rest \/ s1' \in l.from..l.to
            /\ \A d \in s2' \ s12' : d \in Month!Whole => d \in s4' \/ \E l \in s5' : Brings(l, d)
            /\ s1' \in s2' \ s12' => s1' \in s4' \/ \E l \in s5' : l.rest \/ Brings(l, s1')
      BY <1>0, <2>1 DEF MonthInv
    <2> QED
      BY <1>0, <1>h, <2>1, <2>2, <2>3, <2>4 DEF MonthInv
  <1>5. ASSUME NEW l \in s5, Month!Read(l)
        PROVE  MonthInv'
    <2> DEFINE k == [l EXCEPT !.phase = "read", !.rows = s2 \cap (l.from..l.to)]
    <2>1. /\ k \in MonthRange /\ k.from = l.from /\ k.to = l.to /\ k.rest = l.rest
          /\ k.rows = s2 \cap (l.from..l.to) /\ k.phase = "read"
      BY <1>0 DEF MonthRange
    <2>2. /\ s5' = (s5 \ {l}) \cup {k} /\ s12' = s12 \ (l.from..l.to) /\ l.phase = "asked"
          /\ UNCHANGED <<s1, s2, s3, s4, s6, s7, s8, s9, s10, s11, s13, s14>>
      BY <1>5 DEF Month!Read, Month!holidayVars
    <2> HIDE DEF k
    <2>3. \A m \in s2 : m \in l.from..l.to => Brings(k, m)
      BY <2>1 DEF Brings
    <2>4. \A m \in s2, i \in s5 : Brings(i, m) => \E j \in s5' : Brings(j, m)
      BY <2>2, <2>3 DEF Brings
    <2>5. \A m \in s2 \ s12' : m \in s2 \ s12 \/ Brings(k, m)
      BY <2>2, <2>3
    <2> QED
      BY <1>0, <1>h, <2>1, <2>2, <2>3, <2>4, <2>5 DEF MonthInv, Month!Whole
  <1>6. ASSUME NEW l \in s5, Month!Answered(l)
        PROVE  MonthInv'
    <2> DEFINE k == [Month!MonthLoad(s1) EXCEPT !.id = l.id]
    <2>1. /\ k \in MonthRange /\ k.from = s1 /\ k.to = s1 /\ k.phase = "asked" /\ k.rows = {}
      BY <1>0 DEF Month!MonthLoad, Month!Load, MonthRange
    <2>2. /\ l.phase = "read" /\ s4' = s4 \cup l.rows
          /\ s13' = s13 \cup ((l.from..l.to) \cap Months)
          /\ s5' = (s5 \ {l}) \cup (IF l.rest THEN {k} ELSE {})
          /\ UNCHANGED <<s1, s2, s3, s6, s7, s8, s9, s10, s11, s12, s14>>
      BY <1>6 DEF Month!Answered, Month!holidayVars, Month!mergeActivity
    <2> HIDE DEF k
    <2>3. Brings(k, s1) /\ s1 \in k.from..k.to
      BY <1>0, <2>1 DEF Brings
    <2>4. \A m \in s2, i \in s5 : Brings(i, m) => m \in s4' \/ \E j \in s5' : Brings(j, m)
      BY <2>2 DEF Brings
    <2> QED
      BY <1>0, <1>h, <2>1, <2>2, <2>3, <2>4 DEF MonthInv, Month!Whole
  <1>7. ASSUME NEW l \in s5, Month!LoadFailed(l)
        PROVE  MonthInv'
    BY <1>0, <1>7, <1>h DEF MonthInv, Month!LoadFailed, Month!holidayVars
  <1>8. ASSUME NEW h \in s9, Month!YearLoaded(h) \/ Month!YearFailed(h)
        PROVE  MonthInv'
    <2>1. HolidayInv'
      BY <1>8, HolidaysGoOn DEF MonthInv
    <2>2. UNCHANGED <<s1, s2, s3, s4, s5, s11, s12, s13, s14>>
      BY <1>8 DEF Month!YearLoaded, Month!YearFailed
    <2> QED
      BY <2>1, <2>2 DEF MonthInv, Brings, Month!Whole
  <1> QED
    BY <1>1, <1>2, <1>3, <1>4, <1>5, <1>6, <1>7, <1>8 DEF Month!Next

\* When the loads have ended.
LEMMA MonthShows == MonthInv => Month!CalendarHolds
  BY DEF MonthInv, HolidayInv, Brings, Month!CalendarHolds, Month!RecordedDaysShow, Month!Whole

-----------------------------------------------------------------------------
(* The tables of the administrators. *)

PageIn(S, k) == {r \in S : Rank(S, r) \in ((k - 1) * TablePage)..(k * TablePage - 1)}

LEMMA TableCardinality == ASSUME NEW S PROVE AdminList!Cardinality(S) = Cardinality(S)
  BY DEF AdminList!Cardinality, Cardinality

LEMMA PageIs ==
  ASSUME NEW f, NEW k
  PROVE  AdminList!PageOf(f, k) = PageIn(AdminList!Matching(f), k)
  <1>1. \A S, r : Rank(S, r) = Cardinality({s \in S : s < r})
    BY DEF Rank, Below
  <1>2. \A r : r \in AdminList!PageOf(f, k) <=>
          /\ r \in AdminList!Matching(f)
          /\ AdminList!Cardinality({s \in AdminList!Matching(f) : s < r})
               \in ((k - 1) * TablePage)..(k * TablePage - 1)
    BY Zenon DEF AdminList!PageOf
  <1>3. \A r : r \in PageIn(AdminList!Matching(f), k) <=>
          /\ r \in AdminList!Matching(f)
          /\ Rank(AdminList!Matching(f), r) \in ((k - 1) * TablePage)..(k * TablePage - 1)
    BY Zenon DEF PageIn
  <1>4. \A r : r \in AdminList!PageOf(f, k) <=> r \in PageIn(AdminList!Matching(f), k)
    BY <1>1, <1>2, <1>3, TableCardinality
  <1> QED
    <2>1. AdminList!PageOf(f, k) \subseteq PageIn(AdminList!Matching(f), k)
      BY <1>4
    <2>2. PageIn(AdminList!Matching(f), k) \subseteq AdminList!PageOf(f, k)
      BY <1>4
    <2> QED
      BY <2>1, <2>2

\* Where the pages lie: page k is one of them as long as it has a row.
LEMMA PagesLie ==
  ASSUME NEW n \in Nat, NEW k \in Nat \ {0}
  PROVE  /\ TablePage \in Nat \ {0} /\ AdminList!Pages(n) \in Nat
         /\ (k - 1) * TablePage \in Nat /\ k * TablePage = (k - 1) * TablePage + TablePage
         /\ k <= AdminList!Pages(n) <=> (k - 1) * TablePage < n
  <1>1. TablePage \in Nat \ {0}
    BY RecordsAssumption
  <1> DEFINE L == TablePage
             q == (n + L - 1) \div L
  <1>2. AdminList!Pages(n) = q
    BY DEF AdminList!Pages
  <1> HIDE DEF L
  <1>3. L \in Nat \ {0} /\ 0 < L
    BY <1>1 DEF L
  <1>4. q \in Nat /\ q * L <= n + L - 1 /\ n + L - 1 < (q + 1) * L
    BY <1>3
  <1> HIDE DEF q
  <1>5. (k - 1) * L \in Nat /\ k * L = (k - 1) * L + L
    BY <1>3
  <1>6. CASE k <= q
    <2>1. k * L <= q * L
      BY <1>3, <1>4, <1>6
    <2> QED
      BY <1>1, <1>2, <1>3, <1>4, <1>5, <1>6, <2>1 DEF L
  <1>7. CASE q < k
    <2>1. (q + 1) * L <= k * L
      BY <1>3, <1>4, <1>7
    <2>2. ~((k - 1) * L < n)
      BY <1>3, <1>4, <1>5, <2>1
    <2> QED
      BY <1>1, <1>2, <1>3, <1>4, <1>5, <1>7, <2>2 DEF L
  <1> QED
    BY <1>4, <1>6, <1>7

\* A page below the number of rows has one.
LEMMA PageHasRow ==
  ASSUME NEW S, S \subseteq Nat, IsFiniteSet(S), NEW k \in Nat \ {0},
         (k - 1) * TablePage < Cardinality(S)
  PROVE  PageIn(S, k) # {}
  <1>1. /\ (k - 1) * TablePage \in Nat /\ TablePage \in Nat \ {0}
        /\ k * TablePage = (k - 1) * TablePage + TablePage
    BY PagesLie
  <1>2. PICK x \in S : Rank(S, x) = (k - 1) * TablePage
    BY <1>1, RankTaken
  <1>3. Rank(S, x) \in ((k - 1) * TablePage)..(k * TablePage - 1)
    BY <1>1, <1>2
  <1> QED
    BY <1>3 DEF PageIn

\* A page with two rows has a row after its first.
LEMMA PageHasTwo ==
  ASSUME NEW S, S \subseteq Nat, IsFiniteSet(S), NEW k \in Nat \ {0},
         NEW x \in PageIn(S, k), NEW y \in PageIn(S, k), x # y
  PROVE  (k - 1) * TablePage < Cardinality(S) - 1
  <1> SUFFICES ASSUME NEW u \in PageIn(S, k), NEW v \in PageIn(S, k), u < v
               PROVE  (k - 1) * TablePage < Cardinality(S) - 1
    <2>1. x \in Nat /\ y \in Nat
      BY DEF PageIn
    <2> QED
      BY <2>1
  <1>1. u \in S /\ v \in S /\ (k - 1) * TablePage <= Rank(S, u)
    BY DEF PageIn
  <1>2. Rank(S, u) < Rank(S, v) /\ Rank(S, v) < Cardinality(S)
    BY <1>1, RankGrows
  <1>3. Rank(S, u) \in Nat /\ Rank(S, v) \in Nat /\ Cardinality(S) \in Nat
    BY RankType
  <1>4. (k - 1) * TablePage \in Nat
    BY PagesLie
  <1> QED
    BY <1>1, <1>2, <1>3, <1>4

\* The page that is asked for when a row of the one that is shown is deleted
\* has a row, if there is one left.
LEMMA PageAfterDelete ==
  ASSUME NEW S, S \subseteq Nat, IsFiniteSet(S), NEW k \in Nat \ {0}, NEW r \in S,
         (k - 1) * TablePage < Cardinality(S)
  PROVE  LET p == AdminList!resolveReloadPageAfterDelete(k, AdminList!Pages(Cardinality(S)),
                                                         Cardinality(PageIn(S, k)))
         IN  /\ p \in Nat \ {0}
             /\ S \ {r} # {} => (p - 1) * TablePage < Cardinality(S \ {r})
  <1> DEFINE n == Cardinality(S)
             L == TablePage
             p == AdminList!resolveReloadPageAfterDelete(k, AdminList!Pages(n),
                                                         Cardinality(PageIn(S, k)))
  <1>1. n \in Nat /\ Cardinality(S \ {r}) = n - 1
    BY FS_CardinalityType, FS_RemoveElement
  <1>2. S \ {r} # {} => 1 < n
    <2>1. IsFiniteSet(S \ {r})
      BY FS_RemoveElement
    <2>2. S \ {r} # {} => n - 1 # 0
      BY <1>1, <2>1, FS_EmptySet
    <2>3. n # 0
      BY FS_EmptySet
    <2> QED
      BY <1>1, <2>2, <2>3
  <1>3. /\ L \in Nat \ {0} /\ AdminList!Pages(n) \in Nat
        /\ (k - 1) * L \in Nat /\ k * L = (k - 1) * L + L
        /\ k <= AdminList!Pages(n)
    BY <1>1, PagesLie
  <1>4. CASE k = AdminList!Pages(n) /\ Cardinality(PageIn(S, k)) <= 1 /\ k > 1
    <2>1. p = k - 1 /\ k - 1 \in Nat \ {0}
      BY <1>4 DEF AdminList!resolveReloadPageAfterDelete
    <2>2. (k - 1) * L = (k - 1 - 1) * L + L /\ (k - 1 - 1) * L \in Nat
      BY <1>1, <2>1, PagesLie
    <2>3. (p - 1) * L < n - 1
      <3> HIDE DEF p, n, L
      <3> QED
        BY <1>1, <1>3, <2>1, <2>2 DEF n, L
    <2> QED
      BY <1>1, <2>1, <2>3
  <1>5. CASE ~(k = AdminList!Pages(n) /\ Cardinality(PageIn(S, k)) <= 1 /\ k > 1)
    <2>1. p = k
      BY <1>5 DEF AdminList!resolveReloadPageAfterDelete
    <2>2. CASE k # AdminList!Pages(n)
      <3>1. k + 1 <= AdminList!Pages(n)
        BY <1>3, <2>2
      <3>2. (k + 1 - 1) * L < n
        BY <1>1, <3>1, PagesLie
      <3>3. (k - 1) * L < n - 1
        BY <1>1, <1>3, <3>2
      <3> QED
        BY <1>1, <2>1, <3>3
    <2>3. CASE ~(Cardinality(PageIn(S, k)) <= 1)
      <3>1. IsFiniteSet(PageIn(S, k)) /\ PageIn(S, k) # {}
        <4>1. PageIn(S, k) \subseteq S
          BY DEF PageIn
        <4> QED
          BY <4>1, FS_Subset, PageHasRow
      <3>2. PICK x \in PageIn(S, k) : TRUE
        BY <3>1
      <3>3. PageIn(S, k) # {x}
        BY <2>3, FS_Singleton
      <3>4. PICK y \in PageIn(S, k) : x # y
        BY <3>2, <3>3
      <3>5. (k - 1) * L < n - 1
        BY <3>4, PageHasTwo
      <3> QED
        BY <1>1, <2>1, <3>5
    <2>4. CASE ~(k > 1)
      <3>1. k = 1 /\ (k - 1) * L = 0
        BY <1>3, <2>4
      <3> QED
        BY <1>1, <1>2, <2>1, <3>1
    <2> QED
      BY <1>5, <2>2, <2>3, <2>4
  <1> QED
    BY <1>4, <1>5

LEMMA TableFacts ==
  ASSUME TableTypes, NEW f
  PROVE  /\ AdminList!Matching(f) \subseteq Nat /\ AdminList!Matching(f) \subseteq TableRows
         /\ IsFiniteSet(AdminList!Matching(f)) /\ Cardinality(AdminList!Matching(f)) \in Nat
         /\ \A k : PageIn(AdminList!Matching(f), k) \subseteq AdminList!Matching(f)
  <1>1. AdminList!Matching(f) \subseteq TableRows
    BY DEF AdminList!Matching, TableTypes
  <1>2. IsFiniteSet(AdminList!Matching(f))
    BY <1>1, RecordsAssumption, FS_Subset
  <1> QED
    BY <1>1, <1>2, RecordsAssumption, FS_CardinalityType DEF PageIn

LEMMA FirstIsWithin ==
  ASSUME NEW S, IsFiniteSet(S), S # {}
  PROVE  (1 - 1) * TablePage < Cardinality(S)
  <1>1. Cardinality(S) \in Nat /\ Cardinality(S) # 0
    BY FS_CardinalityType, FS_EmptySet
  <1>2. (1 - 1) * TablePage = 0
    BY RecordsAssumption
  <1> QED
    BY <1>1, <1>2

\* What the table and a request know is about the rows, the filter and the page.
LEMMA TableSame ==
  ASSUME UNCHANGED <<s2, s3, s4, s13>>
  PROVE  /\ \A f : AdminList!Matching(f)' = AdminList!Matching(f)
         /\ \A f, k : AdminList!PageOf(f, k)' = AdminList!PageOf(f, k)
         /\ \A k : Within(k)' <=> Within(k)
         /\ UNCHANGED <<s6, s7, s8>> =>
              (TableExact' <=> TableExact) /\ \A q : TableKnows(q)' <=> TableKnows(q)
  <1>1. \A f : AdminList!Matching(f)' = AdminList!Matching(f)
    BY DEF AdminList!Matching
  <1>2. \A f, k : AdminList!PageOf(f, k)' = AdminList!PageOf(f, k)
    BY <1>1 DEF AdminList!PageOf
  <1>3. \A k : Within(k)' <=> Within(k)
    BY <1>1 DEF Within
  <1>4. ASSUME UNCHANGED <<s6, s7, s8>>
        PROVE  (TableExact' <=> TableExact) /\ \A q : TableKnows(q)' <=> TableKnows(q)
    <2>1. TableExact' <=> TableExact
      BY <1>1, <1>2, <1>3, <1>4 DEF TableExact
    <2> QED
      BY <1>1, <1>2, <1>3, <1>4, <2>1 DEF TableKnows
  <1> QED
    BY <1>1, <1>2, <1>3, <1>4

LEMMA TableStarts == AdminList!Init => TableInv
  <1> SUFFICES ASSUME AdminList!Init PROVE TableInv
    OBVIOUS
  <1> DEFINE first == AdminList!Request("fetch", {}, 1, s4)
  <1>1. /\ s2 = TableRows /\ s3 \subseteq s2 /\ s4 = "all" /\ s5 = FALSE /\ s6 = {} /\ s7 = 1
        /\ s8 = 0 /\ s9 = {} /\ s11 = {first} /\ s12 = FALSE /\ s13 = FALSE
    BY DEF AdminList!Init
  <1>2. /\ first \in TableRequest /\ first.kind = "fetch" /\ first.phase = "sent"
        /\ first.page = 1 /\ first.filter = s4
    BY <1>1 DEF AdminList!Request, TableRequest, AdminList!Filters
  <1> HIDE DEF first
  <1>3. TableTypes
    <2>1. s4 \in AdminList!Filters /\ s11 \subseteq TableRequest
      BY <1>1, <1>2 DEF AdminList!Filters
    <2>2. s3 \subseteq s2 /\ s2 \subseteq TableRows /\ s6 \subseteq TableRows /\ s9 \subseteq s6
      BY <1>1
    <2>3. \A q \in s11 : q.kind = "fetch" => q.page # 0
      BY <1>1, <1>2
    <2>4. s5 \in BOOLEAN /\ s12 \in BOOLEAN /\ s13 \in BOOLEAN
      BY <1>1
    <2>5. s7 \in Nat \ {0} /\ s8 \in Nat
      BY <1>1
    <2> QED
      BY <2>1, <2>2, <2>3, <2>4, <2>5 DEF TableTypes
  <1>4. TableKnows(first)
    <2>1. Within(1)
      BY <1>3, TableFacts, FirstIsWithin DEF Within
    <2> QED
      BY <1>2, <2>1 DEF TableKnows
  <1> QED
    BY <1>1, <1>3, <1>4 DEF TableInv

\* A page is asked for: the first, or one that has a row.
LEMMA FetchKeeps ==
  ASSUME TableInv, NEW p \in Nat \ {0}, NEW others \in SUBSET s11, AdminList!Fetch(p, others),
         UNCHANGED <<s1, s2, s3, s4, s6, s7, s8, s9>>, s5' \in BOOLEAN,
         p = 1 \/ (s5' = s5 /\ (~s12 /\ ~s5 /\ others = {} => Within(p)))
  PROVE  TableInv'
  <1> PICK new : new = AdminList!Request("fetch", {}, p, s4)
    OBVIOUS
  <1>0. TableTypes /\ s12 \in BOOLEAN /\ s13 \in BOOLEAN /\ s5 \in BOOLEAN
    BY DEF TableInv, TableTypes
  <1>1. /\ new \in TableRequest /\ new.kind = "fetch" /\ new.phase = "sent"
        /\ new.page = p /\ new.filter = s4
    BY <1>0 DEF AdminList!Request, TableRequest, TableTypes, AdminList!Filters
  <1>2. /\ s11' = others \cup {new}
        /\ s12' = ((s12 /\ ~(p = 1 /\ others = {})) \/ others # {})
        /\ s13' = (s13 /\ ~(p = 1 /\ others = {}))
    BY DEF AdminList!Fetch, AdminList!Send
  <1>3. TableTypes'
    BY <1>0, <1>1, <1>2 DEF TableTypes
  <1>4. ASSUME ~s12', ~s5'
        PROVE  s11' = {new} /\ Within(p)'
    <2>1. others = {} /\ (p = 1 \/ ~s12)
      BY <1>0, <1>2, <1>4
    <2>2. CASE p = 1
      <3>1. AdminList!Matching(s4)' = AdminList!Matching(s4)
        BY DEF AdminList!Matching
      <3> QED
        BY <1>0, <1>2, <2>1, <2>2, <3>1, TableFacts, FirstIsWithin DEF Within
    <2>3. CASE p # 1
      <3>1. ~s5 /\ ~s12 /\ Within(p)
        BY <1>4, <2>1, <2>3
      <3>2. s13' = s13
        BY <1>0, <1>2, <2>3
      <3> QED
        BY <1>2, <2>1, <3>1, <3>2, TableSame
    <2> QED
      BY <2>2, <2>3
  <1>5. ASSUME ~s12'
        PROVE  s11' = {new}
    BY <1>0, <1>2, <1>5
  <1>6. ASSUME ~s12', ~s5'
        PROVE  TableKnows(new)'
    BY <1>1, <1>4, <1>6 DEF TableKnows
  <1> QED
    BY <1>3, <1>4, <1>5, <1>6 DEF TableInv

LEMMA TableKeeps ==
  ASSUME TableInv, AdminList!Next \/ UNCHANGED AdminList!vars
  PROVE  TableInv'
  <1>0. /\ TableTypes /\ s5 \in BOOLEAN /\ s12 \in BOOLEAN /\ s13 \in BOOLEAN
        /\ s7 \in Nat \ {0} /\ s8 \in Nat /\ s6 \subseteq TableRows /\ s9 \subseteq s6
        /\ s4 \in AdminList!Filters /\ s11 \subseteq TableRequest
        /\ s3 \subseteq s2 /\ s2 \subseteq TableRows
    BY DEF TableInv, TableTypes
  <1>1. CASE UNCHANGED AdminList!vars
    BY <1>0, <1>1, TableSame DEF AdminList!vars, AdminList!table, TableInv, TableTypes
  <1>2. CASE AdminList!changeFilter
    <2>1. /\ s4' \in AdminList!Filters /\ s5' = TRUE
          /\ UNCHANGED <<s2, s3, s6, s7, s8, s9, s11, s12, s13>>
      BY <1>2 DEF AdminList!changeFilter, AdminList!table
    <2> QED
      BY <1>0, <2>1 DEF TableInv, TableTypes
  <1>3. CASE AdminList!filterTimer
    <2>1. /\ s5' = FALSE /\ AdminList!Fetch(1, s11)
          /\ UNCHANGED <<s1, s2, s3, s4, s6, s7, s8, s9>>
      BY <1>3 DEF AdminList!filterTimer, AdminList!FilterPage, AdminList!table
    <2>2. s5' \in BOOLEAN
      BY <2>1, Zenon
    <2>3. 1 \in Nat \ {0} /\ s11 \in SUBSET s11
      OBVIOUS
    <2> QED
      BY <2>1, <2>2, <2>3, FetchKeeps
  <1>4. ASSUME AdminList!toggleSelectAll \/ \E r \in TableRows : AdminList!toggleSelection(r)
        PROVE  TableInv'
    <2>1. UNCHANGED <<s2, s3, s4, s5, s6, s7, s8, s11, s12, s13>> /\ s9' \subseteq s6
      <3>1. CASE AdminList!toggleSelectAll
        BY <3>1 DEF AdminList!toggleSelectAll
      <3>2. ASSUME NEW r \in TableRows, AdminList!toggleSelection(r)
            PROVE  UNCHANGED <<s2, s3, s4, s5, s6, s7, s8, s11, s12, s13>> /\ s9' \subseteq s6
        BY <1>0, <3>2 DEF AdminList!toggleSelection
      <3> QED
        BY <1>4, <3>1, <3>2
    <2> QED
      BY <1>0, <2>1, TableSame DEF TableInv, TableTypes
  <1>5. ASSUME NEW p \in 1..(s8 + 1), AdminList!TurnPage(p)
        PROVE  TableInv'
    <2>1. /\ s5' = s5 /\ AdminList!Fetch(p, s11) /\ p \in Nat \ {0}
          /\ UNCHANGED <<s1, s2, s3, s4, s6, s7, s8, s9>>
          /\ (p = s7 - 1 \/ (p = s7 + 1 /\ s7 # s8))
      BY <1>0, <1>5 DEF AdminList!TurnPage, AdminList!table
    <2>2. ASSUME ~s12, ~s5, s11 = {}
          PROVE  Within(p)
      <3> DEFINE S == AdminList!Matching(s4)
                 n == Cardinality(S)
      <3>1. TableExact
        BY <2>2 DEF TableInv
      <3>2. n \in Nat /\ s8 = AdminList!Pages(n)
        BY <1>0, <3>1, TableFacts DEF TableExact
      <3>3. CASE p = s7 + 1
        <4>1. p <= AdminList!Pages(n)
          BY <1>0, <2>1, <3>2, <3>3
        <4> QED
          BY <2>1, <3>2, <4>1, PagesLie DEF Within
      <3>4. CASE p = s7 - 1
        <4>1. Within(s7) /\ p = s7 - 1 /\ s7 - 1 = p
          BY <1>0, <3>1, <3>4 DEF TableExact
        <4>2. /\ (p - 1) * TablePage \in Nat /\ TablePage \in Nat \ {0}
              /\ p * TablePage = (p - 1) * TablePage + TablePage
          BY <2>1, <3>2, PagesLie
        <4>3. ~s13 /\ S # {} => p * TablePage < n
          BY <4>1 DEF Within
        <4>4. ~s13 /\ S # {} => (p - 1) * TablePage < n
          <5> HIDE DEF n, S
          <5> QED
            BY <3>2, <4>2, <4>3
        <4> QED
          BY <4>4 DEF Within
      <3> QED
        BY <2>1, <3>3, <3>4
    <2> QED
      BY <1>0, <2>1, <2>2, FetchKeeps
  <1>6. ASSUME NEW kind \in AdminList!Writes, NEW ids \in SUBSET TableRows,
               AdminList!Write(kind, ids), kind = "delete" => \E r \in s6 : ids = {r}
        PROVE  TableInv'
    <2> PICK new : new = AdminList!Request(kind, ids, 0, "all")
      OBVIOUS
    <2>1. /\ new \in TableRequest /\ new.kind = kind /\ new.phase = "sent" /\ new.ids = ids
          /\ kind # "fetch"
      BY DEF AdminList!Request, TableRequest, AdminList!Filters, AdminList!Writes
    <2>2. /\ s11' = s11 \cup {new} /\ s12' = (s12 \/ s11 # {})
          /\ UNCHANGED <<s2, s3, s4, s5, s6, s7, s8, s9, s13>>
      BY <1>6 DEF AdminList!Write, AdminList!Send, AdminList!table
    <2>3. TableTypes'
      BY <1>0, <2>1, <2>2 DEF TableTypes
    <2>4. ASSUME ~s12'
          PROVE  s11' = {new} /\ (~s5' => TableExact)
      BY <1>0, <2>2, <2>4 DEF TableInv
    <2>5. ASSUME TableExact
          PROVE  TableKnows(new)
      BY <1>6, <2>1, <2>5 DEF TableKnows, TableExact
    <2> QED
      BY <2>2, <2>3, <2>4, <2>5, TableSame DEF TableInv
  <1>7. ASSUME NEW q \in s11, AdminList!Serve(q)
        PROVE  TableInv'
    <2> PICK k : k = [q EXCEPT !.phase = "served"]
      OBVIOUS
    <2>1. /\ q \in TableRequest /\ k \in TableRequest /\ k.kind = q.kind /\ k.phase = "served"
          /\ q.phase = "sent" /\ q.kind # "fetch"
      BY <1>0, <1>7 DEF AdminList!Serve, TableRequest
    <2>2. /\ s2' = IF q.kind \in {"delete", "bulkDelete"} THEN s2 \ q.ids ELSE s2
          /\ s3' = IF q.kind = "role" THEN s3 ELSE s3 \ q.ids
          /\ s13' = (s13 \/ q.kind \notin {"role", "delete"})
          /\ s11' = (s11 \ {q}) \cup {k}
          /\ UNCHANGED <<s4, s5, s6, s7, s8, s9, s12>>
      BY <1>7 DEF AdminList!Serve, AdminList!table
    <2>3. TableTypes'
      BY <1>0, <2>1, <2>2 DEF TableTypes
    <2>4. ASSUME ~s12, ~s5
          PROVE  TableKnows(k)'
      <3>1. TableKnows(q)
        BY <2>4 DEF TableInv
      <3>2. CASE q.kind \notin {"role", "delete"}
        BY <1>0, <2>1, <2>2, <3>2 DEF TableKnows, Within
      <3>3. CASE q.kind = "role"
        <4>1. UNCHANGED <<s2, s3, s4, s6, s7, s8, s13>>
          BY <1>0, <2>2, <3>3
        <4> QED
          BY <2>1, <3>1, <3>3, <4>1, TableSame DEF TableKnows
      <3>4. CASE q.kind = "delete"
        <4>1. TableExact /\ s13' = s13
          BY <1>0, <2>1, <2>2, <3>1, <3>4 DEF TableKnows
        <4>2. PICK r \in s6 : q.ids = {r}
          BY <2>1, <3>1, <3>4 DEF TableKnows
        <4> DEFINE S == AdminList!Matching(s4)
        <4>3. AdminList!Matching(s4)' = S \ {r}
          BY <2>2, <3>4, <4>2 DEF AdminList!Matching
        <4>4. /\ s6 = PageIn(S, s7) /\ r \in S /\ s8 = AdminList!Pages(Cardinality(S))
              /\ S \subseteq Nat /\ IsFiniteSet(S) /\ S # {}
          BY <1>0, <4>1, <4>2, PageIs, TableFacts DEF TableExact
        <4>5. ~s13 => (s7 - 1) * TablePage < Cardinality(S)
          BY <4>1, <4>4 DEF TableExact, Within
        <4> HIDE DEF S
        <4> DEFINE p == AdminList!resolveReloadPageAfterDelete(s7, s8, Cardinality(s6))
        <4>6. ~s13 /\ S \ {r} # {} => (p - 1) * TablePage < Cardinality(S \ {r})
          BY <1>0, <4>4, <4>5, PageAfterDelete
        <4>7. p' = p
          BY <2>2 DEF AdminList!resolveReloadPageAfterDelete
        <4>8. Within(p)'
          <5> HIDE DEF p
          <5> QED
            BY <4>1, <4>3, <4>6, <4>7 DEF Within
        <4> QED
          BY <2>1, <3>4, <4>8 DEF TableKnows
      <3> QED
        BY <3>2, <3>3, <3>4
    <2>5. ASSUME ~s12
          PROVE  s11' = {k}
      BY <2>2, <2>5 DEF TableInv
    <2> QED
      BY <2>2, <2>3, <2>4, <2>5 DEF TableInv
  <1>8. ASSUME NEW q \in s11, AdminList!Read(q)
        PROVE  TableInv'
    <2> DEFINE n == Cardinality(AdminList!Matching(q.filter))
    <2> PICK k : k = [q EXCEPT !.phase = "served", !.ids = AdminList!PageOf(q.filter, q.page),
                               !.total = n]
      OBVIOUS
    <2>1. /\ q \in TableRequest /\ q.phase = "sent" /\ q.kind = "fetch" /\ n \in Nat
          /\ AdminList!PageOf(q.filter, q.page) \subseteq TableRows
      <3>1. PageIn(AdminList!Matching(q.filter), q.page) \subseteq TableRows
        BY <1>0, TableFacts
      <3> QED
        BY <1>0, <1>8, <3>1, PageIs, TableFacts DEF AdminList!Read
    <2>2. /\ k \in TableRequest /\ k.kind = "fetch" /\ k.phase = "served" /\ k.page = q.page
          /\ k.filter = q.filter /\ k.ids = AdminList!PageOf(q.filter, q.page) /\ k.total = n
      <3> HIDE DEF n
      <3> QED
        BY <2>1 DEF TableRequest
    <2>3. s11' = (s11 \ {q}) \cup {k} /\ UNCHANGED <<s2, s3, s4, s5, s6, s7, s8, s9, s12, s13>>
      BY <1>8, TableCardinality DEF AdminList!Read, AdminList!table
    <2>4. TableTypes'
      <3>1. s11' \subseteq TableRequest /\ \A p \in s11' : p.kind = "fetch" => p.page # 0
        <4>1. s11 \subseteq TableRequest /\ \A p \in s11 : p.kind = "fetch" => p.page # 0
          BY <1>0 DEF TableTypes
        <4>2. k.page # 0
          BY <2>1, <2>2, <4>1
        <4> QED
          BY <2>2, <2>3, <4>1, <4>2
      <3> QED
        BY <1>0, <2>3, <3>1 DEF TableTypes
    <2>5. ASSUME ~s12
          PROVE  s11' = {k}
      BY <2>3, <2>5 DEF TableInv
    <2>6. ASSUME ~s12, ~s5
          PROVE  TableKnows(k)
      <3>1. TableKnows(q)
        BY <2>6 DEF TableInv
      <3> QED
        BY <2>1, <2>2, <3>1 DEF TableKnows
    <2> QED
      BY <2>3, <2>4, <2>5, <2>6, TableSame DEF TableInv
  <1>9. ASSUME NEW q \in s11, AdminList!Fails(q)
        PROVE  TableInv'
    <2>1. s12' = TRUE /\ s11' = s11 \ {q} /\ UNCHANGED <<s2, s3, s4, s5, s6, s7, s8, s9, s13>>
      BY <1>9 DEF AdminList!Fails, AdminList!table
    <2> QED
      BY <1>0, <2>1 DEF TableInv, TableTypes
  <1>10. ASSUME NEW q \in s11, AdminList!ShowPage(q)
         PROVE  TableInv'
    <2>1. /\ q.phase = "served" /\ q.kind = "fetch" /\ q \in TableRequest
          /\ s6' = q.ids /\ s7' = q.page /\ s8' = AdminList!Pages(q.total) /\ s9' = {}
          /\ s11' = s11 \ {q} /\ UNCHANGED <<s2, s3, s4, s5, s12, s13>>
      BY <1>0, <1>10 DEF AdminList!ShowPage, AdminList!SelectionReset
    <2>2. /\ q.page \in Nat \ {0} /\ q.total \in Nat /\ q.ids \subseteq TableRows
          /\ AdminList!Pages(q.total) \in Nat
      <3>1. q.page \in Nat \ {0} /\ q.total \in Nat /\ q.ids \subseteq TableRows
        BY <1>0, <2>1 DEF TableTypes, TableRequest
      <3> QED
        BY <3>1, PagesLie
    <2>3. TableTypes'
      BY <1>0, <2>1, <2>2 DEF TableTypes
    <2>4. ASSUME ~s12, ~s5
          PROVE  TableExact'
      <3>1. /\ q.filter = s4 /\ Within(q.page) /\ q.ids = AdminList!PageOf(s4, q.page)
            /\ q.total = Cardinality(AdminList!Matching(s4))
        BY <2>1, <2>4 DEF TableInv, TableKnows
      <3> QED
        BY <2>1, <3>1, TableSame DEF TableExact, Within
    <2>5. ASSUME ~s12
          PROVE  s11' = {}
      BY <2>1, <2>5 DEF TableInv
    <2> QED
      BY <2>1, <2>3, <2>4, <2>5 DEF TableInv
  <1>11. ASSUME NEW q \in s11, AdminList!Written(q)
         PROVE  TableInv'
    <2> DEFINE p == IF q.kind = "delete"
                    THEN AdminList!resolveReloadPageAfterDelete(s7, s8, Cardinality(s6)) ELSE s7
    <2>1. /\ q.phase = "served" /\ q.kind # "fetch" /\ AdminList!Fetch(p, s11 \ {q})
          /\ UNCHANGED <<s1, s2, s3, s4, s5, s6, s7, s8, s9>>
      BY <1>11, TableCardinality DEF AdminList!Written, AdminList!table
    <2>2. p \in Nat \ {0}
      BY <1>0 DEF AdminList!resolveReloadPageAfterDelete
    <2>3. ~s12 /\ ~s5 => Within(p)
      BY <2>1 DEF TableInv, TableKnows
    <2> HIDE DEF p
    <2> QED
      BY <1>0, <2>1, <2>2, <2>3, FetchKeeps
  <1>12. ASSUME NEW r \in TableRows,
                AdminList!ChangePost(r) \/ AdminList!updateUserRole(r) \/ AdminList!Delete(r)
         PROVE  TableInv'
    <2>1. r \in s6 /\ \E kind \in {"status", "role", "delete"} : AdminList!Write(kind, {r})
      BY <1>12 DEF AdminList!ChangePost, AdminList!updateUserRole, AdminList!Delete
    <2> QED
      BY <1>6, <2>1 DEF AdminList!Writes
  <1>13. ASSUME NEW kind \in {"bulkPublish", "bulkDelete"}, AdminList!Bulk(kind)
         PROVE  TableInv'
    BY <1>0, <1>6, <1>13 DEF AdminList!Bulk, AdminList!Writes
  <1> QED
    BY <1>1, <1>2, <1>3, <1>4, <1>5, <1>7, <1>8, <1>9, <1>10, <1>11, <1>12, <1>13
       DEF AdminList!Next

\* The table shows a page of the server, and there is a row in it.
LEMMA TableShows == TableInv => AdminList!TablesHold
  <1> SUFFICES ASSUME TableInv PROVE AdminList!TablesHold
    OBVIOUS
  <1>0. TableTypes /\ s7 \in Nat \ {0} /\ s9 \subseteq s6
    BY DEF TableInv, TableTypes
  <1>1. ASSUME s11 = {}, ~s5, ~s12
        PROVE  /\ s6 = AdminList!PageOf(s4, s7)
               /\ s8 = AdminList!Pages(AdminList!Cardinality(AdminList!Matching(s4)))
               /\ ~s13 /\ s6 = {} => AdminList!Matching(s4) = {}
    <2>1. TableExact
      BY <1>1 DEF TableInv
    <2>2. ASSUME ~s13, AdminList!Matching(s4) # {}
          PROVE  s6 # {}
      <3>1. (s7 - 1) * TablePage < Cardinality(AdminList!Matching(s4))
        BY <2>1, <2>2 DEF TableExact, Within
      <3>2. PageIn(AdminList!Matching(s4), s7) # {}
        BY <1>0, <3>1, TableFacts, PageHasRow
      <3> QED
        BY <2>1, <3>2, PageIs DEF TableExact
    <2> QED
      BY <2>1, <2>2, TableCardinality DEF TableExact
  <1> QED
    BY <1>0, <1>1 DEF AdminList!TablesHold, AdminList!SelectionShown, AdminList!TableSettles

-----------------------------------------------------------------------------
(* The disciplines. *)

LEMMA RuleCardinality == ASSUME NEW S PROVE Rules!Cardinality(S) = Cardinality(S)
  BY DEF Rules!Cardinality, Cardinality

SortedSeq(S, q) ==
  /\ q \in [1..Cardinality(S) -> S]
  /\ \A i, j \in 1..Cardinality(S) : i # j => q[i] # q[j]
  /\ \A i, j \in 1..Cardinality(S) : i < j => q[i].order <= q[j].order

\* Rows that have each order once can be put in order: each takes the place of
\* its rank.
LEMMA CanBeSorted ==
  ASSUME NEW S, RowsOnce(S)
  PROVE  \E q : SortedSeq(S, q)
  <1> DEFINE n == Cardinality(S)
             O == {r.order : r \in S}
             q == [i \in 1..n |-> CHOOSE r \in S : Rank(O, r.order) = i - 1]
  <1>1. IsFiniteSet(S) /\ S \subseteq RuleRow /\ n \in Nat /\ O \subseteq Nat
    BY FS_CardinalityType DEF RowsOnce, RuleRow
  <1>2. IsFiniteSet(O) /\ Cardinality(O) = n
    <2> DEFINE f == [r \in S |-> r.order]
    <2>1. f \in Bijection(S, O)
      BY DEF RowsOnce, Bijection, Injection, Surjection, IsInjective
    <2>2. ExistsBijection(S, O)
      BY <2>1 DEF ExistsBijection
    <2> QED
      BY <1>1, <2>2, FS_Bijection
  <1>3. ASSUME NEW i \in 1..n
        PROVE  q[i] \in S /\ Rank(O, q[i].order) = i - 1
    <2>1. i - 1 \in Nat /\ i - 1 < n
      BY <1>1
    <2>2. \E x \in O : Rank(O, x) = i - 1
      BY <1>1, <1>2, <2>1, RankTaken
    <2>3. \E r \in S : Rank(O, r.order) = i - 1
      BY <2>2
    <2> QED
      BY <2>3
  <1>4. q \in [1..n -> S]
    BY <1>3
  <1> HIDE DEF q
  <1>5. ASSUME NEW i \in 1..n, NEW j \in 1..n, i # j
        PROVE  q[i] # q[j]
    <2>1. Rank(O, q[i].order) = i - 1 /\ Rank(O, q[j].order) = j - 1
      BY <1>3
    <2>2. i - 1 # j - 1
      BY <1>1, <1>5
    <2> HIDE DEF O
    <2> QED
      BY <2>1, <2>2
  <1>6. ASSUME NEW i \in 1..n, NEW j \in 1..n, i < j
        PROVE  q[i].order <= q[j].order
    <2> DEFINE x == q[i].order
               y == q[j].order
    <2>1. x \in O /\ y \in O /\ Rank(O, x) = i - 1 /\ Rank(O, y) = j - 1
      BY <1>3
    <2> HIDE DEF x, y, O
    <2>2. ASSUME y < x
          PROVE  FALSE
      <3>1. Rank(O, y) < Rank(O, x)
        BY <1>1, <1>2, <2>1, <2>2, RankGrows
      <3> QED
        BY <1>1, <1>6, <2>1, <3>1
    <2>3. x \in Nat /\ y \in Nat
      BY <1>1, <2>1
    <2>4. x <= y
      BY <2>2, <2>3
    <2> QED
      BY <2>4 DEF x, y
  <1>7. SortedSeq(S, q)
    BY <1>4, <1>5, <1>6 DEF SortedSeq
  <1> QED
    BY <1>7

\* The list has every row once, in order.
LEMMA ListingIs ==
  ASSUME NEW S, RowsOnce(S)
  PROVE  LET q == Rules!Listing(S)
         IN  /\ q \in Seq(RuleRow) /\ InOrder(q)
             /\ Ids(q) = {r.id : r \in S}
             /\ S = {} => q = <<>>
  <1> DEFINE n == Cardinality(S)
  <1>1. IsFiniteSet(S) /\ S \subseteq RuleRow /\ n \in Nat
    BY FS_CardinalityType DEF RowsOnce
  <1>2. \A q : q \in Rules!Injection(1..n, S) <=>
               q \in [1..n -> S] /\ \A i, j \in 1..n : i # j => q[i] # q[j]
    BY DEF Rules!Injection, Rules!IsInjective
  <1>3. \E q \in Rules!Injection(1..n, S) : \A i, j \in DOMAIN q : i < j => q[i].order <= q[j].order
    <2>1. PICK q : SortedSeq(S, q)
      BY CanBeSorted
    <2>2. q \in Rules!Injection(1..n, S) /\ DOMAIN q = 1..n
      BY <1>2, <2>1 DEF SortedSeq
    <2> QED
      BY <2>1, <2>2 DEF SortedSeq
  <1> DEFINE q == Rules!Listing(S)
  <1>4. q \in Rules!Injection(1..n, S)
    BY <1>3, RuleCardinality DEF Rules!Listing
  <1> HIDE DEF q
  <1>5. /\ q \in [1..n -> S] /\ DOMAIN q = 1..n
        /\ \A i, j \in 1..n : i # j => q[i] # q[j]
    BY <1>2, <1>4
  <1>6. q \in Seq(RuleRow)
    <2>1. q \in [1..n -> RuleRow]
      BY <1>1, <1>5
    <2> QED
      BY <1>1, <2>1
  <1>7. InOrder(q)
    BY <1>5 DEF InOrder, RowsOnce
  <1>8. \A r \in S : \E i \in 1..n : q[i] = r
    <2>1. q \in Injection(1..n, S)
      BY <1>5 DEF Injection, IsInjective
    <2>2. Cardinality(1..n) = n
      BY <1>1, FS_Interval
    <2>3. q \in Surjection(1..n, S)
      BY <1>1, <2>1, <2>2, FS_Injection
    <2> QED
      BY <2>3 DEF Surjection
  <1>9. Ids(q) = {r.id : r \in S}
    BY <1>5, <1>8 DEF Ids
  <1>10. ASSUME S = {}
         PROVE  q = <<>>
    <2>1. n = 0
      BY <1>10, FS_EmptySet
    <2> QED
      BY <1>5, <1>6, <2>1
  <1> QED
    BY <1>6, <1>7, <1>9, <1>10 DEF q

\* A move exchanges two ids and keeps the orders in place.
LEMMA MoveIs ==
  ASSUME NEW q \in Seq(RuleRow), InOrder(q), NEW i \in 2..Len(q)
  PROVE  LET m == [q EXCEPT ![i] = [q[i - 1] EXCEPT !.order = q[i].order],
                            ![i - 1] = [q[i] EXCEPT !.order = q[i - 1].order]]
         IN  m \in Seq(RuleRow) /\ InOrder(m) /\ Ids(m) = Ids(q)
  <1> DEFINE a == [q[i - 1] EXCEPT !.order = q[i].order]
             b == [q[i] EXCEPT !.order = q[i - 1].order]
             m == [q EXCEPT ![i] = a, ![i - 1] = b]
             n == Len(q)
  <1>1. /\ n \in Nat /\ DOMAIN q = 1..n /\ \A j \in 1..n : q[j] \in RuleRow
        /\ i \in 1..n /\ i - 1 \in 1..n /\ i - 1 # i
    OBVIOUS
  <1>2. /\ a \in RuleRow /\ a.id = q[i - 1].id /\ a.order = q[i].order
        /\ b \in RuleRow /\ b.id = q[i].id /\ b.order = q[i - 1].order
    BY <1>1 DEF RuleRow
  <1> HIDE DEF a, b, n
  <1>3. /\ DOMAIN m = 1..n /\ m[i] = a /\ m[i - 1] = b
        /\ \A j \in 1..n : j # i /\ j # i - 1 => m[j] = q[j]
    BY <1>1
  <1>4. m \in Seq(RuleRow)
    <2>1. \A j \in 1..n : m[j] \in RuleRow
      BY <1>1, <1>2, <1>3
    <2>2. m \in [1..n -> RuleRow]
      BY <1>3, <2>1
    <2> QED
      BY <1>1, <2>2
  <1> HIDE DEF m
  <1> DEFINE src(j) == IF j = i THEN i - 1 ELSE IF j = i - 1 THEN i ELSE j
  <1>5. \A j \in 1..n : src(j) \in 1..n /\ m[j].id = q[src(j)].id /\ m[j].order = q[j].order
    BY <1>1, <1>2, <1>3
  <1>6. /\ \A j, k \in 1..n : src(j) = src(k) => j = k
        /\ \A j \in 1..n : src(src(j)) = j
    BY <1>1
  <1> HIDE DEF src
  <1>7. InOrder(m)
    <2>1. \A j, k \in 1..n : q[j].id = q[k].id \/ q[j].order = q[k].order => j = k
      BY <1>1 DEF InOrder
    <2>2. ASSUME NEW j \in 1..n, NEW k \in 1..n, m[j].id = m[k].id \/ m[j].order = m[k].order
          PROVE  j = k
      <3>1. CASE m[j].id = m[k].id
        <4>1. q[src(j)].id = q[src(k)].id
          BY <1>5, <3>1
        <4>2. src(j) = src(k)
          BY <1>5, <2>1, <4>1
        <4> QED
          BY <1>6, <4>2
      <3>2. CASE m[j].order = m[k].order
        <4>1. q[j].order = q[k].order
          BY <1>5, <3>2
        <4> QED
          BY <2>1, <4>1
      <3> QED
        BY <2>2, <3>1, <3>2
    <2> QED
      BY <1>3, <2>2 DEF InOrder
  <1>8. Ids(m) = Ids(q)
    <2>1. \A j \in 1..n : m[j].id \in Ids(q)
      BY <1>1, <1>5 DEF Ids
    <2>2. \A j \in 1..n : q[j].id \in Ids(m)
      <3>1. \A j \in 1..n : q[j].id = m[src(j)].id /\ src(j) \in 1..n
        BY <1>5, <1>6
      <3> QED
        BY <1>3, <3>1 DEF Ids
    <2>3. Ids(m) \subseteq Ids(q)
      BY <1>3, <2>1 DEF Ids
    <2>4. Ids(q) \subseteq Ids(m)
      BY <1>1, <2>2 DEF Ids
    <2> QED
      BY <2>3, <2>4
  <1> QED
    BY <1>4, <1>7, <1>8 DEF m, a, b

\* The order of a new row is above all others.
LEMMA NextOrderIs ==
  ASSUME RowsOnce(s1)
  PROVE  Rules!NextOrder \in Nat /\ \A r \in s1 : r.order < Rules!NextOrder
  <1> DEFINE O == {r.order : r \in s1}
             m == CHOOSE x \in O : \A r \in s1 : r.order <= x
  <1>1. IsFiniteSet(O) /\ O \subseteq Nat
    <2> DEFINE f == [r \in s1 |-> r.order]
    <2>1. f \in Surjection(s1, O) /\ O \subseteq Nat
      BY DEF Surjection, RowsOnce, RuleRow
    <2> HIDE DEF f
    <2> QED
      BY <2>1, FS_Surjection DEF RowsOnce
  <1>2. CASE s1 = {}
    BY <1>2 DEF Rules!NextOrder
  <1>3. CASE s1 # {}
    <2>1. \E x \in O : \A y \in O : y <= x
      BY <1>1, <1>3, GreatestOf
    <2>2. \E x \in O : \A r \in s1 : r.order <= x
      BY <2>1
    <2>3. m \in O /\ \A r \in s1 : r.order <= m
      BY <2>2
    <2>4. Rules!NextOrder = 1 + m
      BY <1>3 DEF Rules!NextOrder
    <2>5. m \in Nat /\ \A r \in s1 : r.order \in Nat
      BY <1>1, <2>3
    <2> HIDE DEF m
    <2> QED
      BY <2>3, <2>4, <2>5
  <1> QED
    BY <1>2, <1>3

\* New rows, whose ids are new and whose orders are above the others.
LEMMA InsertIs ==
  ASSUME RowsOnce(s1), s2 \in Nat, \A r \in s1 : r.id <= s2, NEW n \in Nat, NEW start \in Nat,
         \A r \in s1 : r.order < start, Rules!Insert(n, start)
  PROVE  RowsOnce(s1)' /\ s2' \in Nat /\ \A r \in s1' : r.id <= s2'
  <1> DEFINE row(k) == [id |-> s2 + k, order |-> start + k - 1]
             new == {row(k) : k \in 1..n}
  <1>1. s1' = s1 \cup new /\ s2' = s2 + n
    BY DEF Rules!Insert
  <1>2. \A k \in 1..n : /\ row(k) \in RuleRow /\ row(k).id = s2 + k
                        /\ row(k).order = start + k - 1
    BY DEF RuleRow
  <1>3. IsFiniteSet(new)
    <2> DEFINE f == [k \in 1..n |-> row(k)]
    <2>1. IsFiniteSet(1..n)
      BY FS_Interval
    <2>2. f \in Surjection(1..n, new)
      BY DEF Surjection
    <2> HIDE DEF f
    <2> QED
      BY <2>1, <2>2, FS_Surjection
  <1>4. IsFiniteSet(s1')
    BY <1>1, <1>3, FS_Union DEF RowsOnce
  <1> HIDE DEF row
  <1>5. new \subseteq RuleRow /\ s1' \subseteq RuleRow
    BY <1>1, <1>2 DEF RowsOnce
  <1>6. \A r \in new : s2 < r.id /\ r.id <= s2 + n /\ start <= r.order
    BY <1>2
  <1>7. \A r, s \in new : r.id = s.id \/ r.order = s.order => r = s
    BY <1>2
  <1> HIDE DEF new
  <1>8. ASSUME NEW r \in s1, NEW s \in new
        PROVE  r.id # s.id /\ r.order # s.order
    <2>1. r.id \in Nat /\ s.id \in Nat /\ r.order \in Nat /\ s.order \in Nat
      BY <1>5 DEF RowsOnce, RuleRow
    <2>2. r.id <= s2 /\ s2 < s.id /\ r.order < start /\ start <= s.order
      BY <1>6
    <2> QED
      BY <2>1, <2>2
  <1>9. \A r, s \in s1' : r.id = s.id \/ r.order = s.order => r = s
    BY <1>1, <1>7, <1>8 DEF RowsOnce
  <1>10. \A r \in s1' : r.id <= s2'
    <2>1. \A r \in s1 : r.id \in Nat
      BY DEF RowsOnce, RuleRow
    <2> QED
      BY <1>1, <1>6, <2>1
  <1>11. s2' \in Nat
    BY <1>1
  <1> QED
    BY <1>4, <1>5, <1>9, <1>10, <1>11 DEF RowsOnce

LEMMA RuleStarts == Rules!Init => RuleInv
  <1> SUFFICES ASSUME Rules!Init PROVE RuleInv
    OBVIOUS
  <1>1. /\ s1 = {} /\ s2 = 0 /\ s3 = <<>> /\ s5 = {} /\ s6 = FALSE
    BY DEF Rules!Init
  <1>2. RowsOnce(s1)
    BY <1>1, FS_EmptySet DEF RowsOnce
  <1>3. /\ s3 \in Seq(RuleRow) /\ DOMAIN s3 = {} /\ s3 = Rules!Listing(s1)
    BY <1>1, <1>2, ListingIs
  <1> QED
    BY <1>1, <1>2, <1>3 DEF RuleInv, InOrder, Ids, RowIds

\* A request goes out.
LEMMA RuleSends ==
  ASSUME RuleInv, NEW kind \in Rules!Kinds \ {"fetch"}, NEW id, NEW sent,
         Rules!Send(Rules!Request(kind, id, sent), s5), UNCHANGED <<s1, s2, s3, s7>>,
         ~s6 => /\ id \in Nat /\ sent \in Seq(RuleRow)
                /\ kind = "reorder" => InOrder(sent) /\ sent # <<>> /\ Ids(sent) = Ids(s3)
  PROVE  RuleInv'
  <1> SUFFICES ASSUME ~s6' PROVE RuleInv'
    BY DEF RuleInv
  <1> PICK k : k = Rules!Request(kind, id, sent)
    OBVIOUS
  <1>1. ~s6 /\ s5 = {} /\ s5' = {k}
    BY DEF Rules!Send
  <1>2. /\ k \in RuleRequest /\ k.phase = "sent" /\ k.kind = kind /\ k.sent = sent
    BY <1>1 DEF Rules!Request, RuleRequest
  <1>3. RuleKnows(k)
    BY <1>1, <1>2 DEF RuleKnows, RuleInv
  <1>4. RuleKnows(k)'
    BY <1>2, <1>3 DEF RuleKnows, RowIds
  <1> QED
    BY <1>1, <1>2, <1>4 DEF RuleInv, RowsOnce

LEMMA RuleKeeps ==
  ASSUME RuleInv, Rules!Next \/ UNCHANGED Rules!vars
  PROVE  RuleInv'
  <1>1. CASE UNCHANGED Rules!vars
    BY <1>1 DEF Rules!vars, RuleInv, RowsOnce, RuleKnows, RowIds
  <1>2. ASSUME NEW kind \in {"add", "append", "replace"},
               Rules!Send(Rules!Request(kind, 0, <<>>), s5), UNCHANGED <<s1, s2, s3, s7>>
        PROVE  RuleInv'
    <2>1. kind \in Rules!Kinds \ {"fetch"} /\ kind # "reorder" /\ 0 \in Nat /\ <<>> \in Seq(RuleRow)
      BY DEF Rules!Kinds
    <2> QED
      BY <1>2, <2>1, RuleSends
  <1>3. CASE Rules!Add \/ \E kind \in {"append", "replace"} : Rules!Import(kind)
    BY <1>2, <1>3 DEF Rules!Add, Rules!Import
  <1>4. ASSUME NEW i \in 1..MaxRules, Rules!Delete(i)
        PROVE  RuleInv'
    <2>1. /\ i \in DOMAIN s3 /\ Rules!Send(Rules!Request("delete", s3[i].id, <<>>), s5)
          /\ UNCHANGED <<s1, s2, s3, s7>>
      BY <1>4 DEF Rules!Delete
    <2>2. "delete" \in Rules!Kinds \ {"fetch"} /\ <<>> \in Seq(RuleRow)
      BY DEF Rules!Kinds
    <2>3. ~s6 => s3[i].id \in Nat
      <3>1. ~s6 => s3[i] \in RuleRow
        BY <2>1 DEF RuleInv
      <3> QED
        BY <3>1 DEF RuleRow
    <2> QED
      BY <2>1, <2>2, <2>3, RuleSends
  <1>5. ASSUME NEW i \in 1..MaxRules, Rules!Move(i)
        PROVE  RuleInv'
    <2> SUFFICES ASSUME ~s6' PROVE RuleInv'
      BY DEF RuleInv
    <2>1. /\ i \in 2..Len(s3) /\ s4' = TRUE /\ UNCHANGED <<s1, s2, s5, s6, s7>>
          /\ s3' = [s3 EXCEPT ![i] = [s3[i - 1] EXCEPT !.order = s3[i].order],
                              ![i - 1] = [s3[i] EXCEPT !.order = s3[i - 1].order]]
      BY <1>5 DEF Rules!Move
    <2>2. s3 \in Seq(RuleRow) /\ InOrder(s3) /\ ~s6
      BY <2>1 DEF RuleInv
    <2>3. s3' \in Seq(RuleRow) /\ InOrder(s3)' /\ Ids(s3)' = Ids(s3)
      <3>1. PICK m : m = s3'
        OBVIOUS
      <3>2. m \in Seq(RuleRow) /\ InOrder(m) /\ Ids(m) = Ids(s3)
        BY <2>1, <2>2, <3>1, MoveIs
      <3> QED
        BY <3>1, <3>2
    <2>4. \A q \in s5 : RuleKnows(q)'
      BY <2>1, <2>2, <2>3 DEF RuleInv, RuleKnows, RowIds
    <2> QED
      BY <2>1, <2>2, <2>3, <2>4 DEF RuleInv, RowsOnce, RowIds
  <1>6. CASE Rules!commitReorder
    <2>1. CASE s3 = <<>>
      <3> SUFFICES ASSUME ~s6' PROVE RuleInv'
        BY DEF RuleInv
      <3>1. UNCHANGED <<s1, s2, s3, s5, s6, s7>>
        BY <1>6, <2>1 DEF Rules!commitReorder
      <3>2. Ids(s3) = {} /\ ~s6
        BY <2>1, <3>1 DEF Ids
      <3>3. s5 = {} /\ ~s7 => s1 = {}
        BY <3>2 DEF RuleInv, RowIds
      <3>4. s5 = {} /\ ~s7 => s3 = Rules!Listing(s1)
        BY <2>1, <3>2, <3>3, ListingIs DEF RuleInv
      <3> QED
        BY <3>1, <3>2, <3>4 DEF RuleInv, RowsOnce, RuleKnows, RowIds
    <2>2. CASE s3 # <<>>
      <3>1. /\ Rules!Send(Rules!Request("reorder", 0, s3), s5) /\ UNCHANGED <<s1, s2, s3, s7>>
        BY <1>6, <2>2 DEF Rules!commitReorder
      <3>2. "reorder" \in Rules!Kinds \ {"fetch"} /\ 0 \in Nat
        BY DEF Rules!Kinds
      <3>3. ~s6 => s3 \in Seq(RuleRow) /\ InOrder(s3)
        BY DEF RuleInv
      <3> QED
        BY <2>2, <3>1, <3>2, <3>3, RuleSends
    <2> QED
      BY <2>1, <2>2
  <1>7. ASSUME NEW q \in s5, Rules!FirstQuery(q)
        PROVE  RuleInv'
    <2> SUFFICES ASSUME ~s6' PROVE RuleInv'
      BY DEF RuleInv
    <2> DEFINE start == IF q.kind \in {"add", "append"} THEN Rules!NextOrder ELSE 0
    <2> PICK k : k = [q EXCEPT !.phase = "read", !.start = start]
      OBVIOUS
    <2>1. /\ q.phase = "sent" /\ q.kind \in {"add", "append", "replace", "reorder"}
          /\ q.kind = "reorder" => Ids(q.sent) \subseteq RowIds
          /\ s5' = (s5 \ {q}) \cup {k} /\ s1' = IF q.kind = "replace" THEN {} ELSE s1
          /\ UNCHANGED <<s2, s3, s4, s6, s7>>
      BY <1>7 DEF Rules!FirstQuery, Rules!Advance, Ids, RowIds
    <2>2. /\ ~s6 /\ RowsOnce(s1) /\ q \in RuleRequest /\ RuleKnows(q) /\ s5' = {k}
      BY <2>1 DEF RuleInv
    <2>3. start \in Nat /\ (q.kind \in {"add", "append"} => \A r \in s1 : r.order < start)
      BY <2>2, NextOrderIs
    <2> HIDE DEF start
    <2>4. /\ k \in RuleRequest /\ k.phase = "read" /\ k.kind = q.kind /\ k.sent = q.sent
          /\ k.start = start
      BY <2>2, <2>3 DEF RuleRequest
    <2>5. RowsOnce(s1)'
      BY <2>1, <2>2, FS_EmptySet DEF RowsOnce
    <2>6. CASE q.kind = "replace"
      <3>1. RuleKnows(k)'
        BY <2>1, <2>4, <2>6 DEF RuleKnows, Rules!Kinds
      <3> QED
        BY <2>1, <2>2, <2>4, <2>5, <2>6, <3>1 DEF RuleInv
    <2>7. CASE q.kind \in {"add", "append"}
      <3>1. s1' = s1
        BY <2>1, <2>7
      <3>2. RuleKnows(k)'
        BY <2>1, <2>2, <2>3, <2>4, <2>7, <3>1 DEF RuleKnows, RowIds
      <3> QED
        BY <2>1, <2>2, <2>4, <2>5, <3>1, <3>2 DEF RuleInv
    <2>8. CASE q.kind = "reorder"
      <3>1. s1' = s1
        BY <2>1, <2>8
      <3>2. InOrder(q.sent) /\ q.sent # <<>> /\ Ids(q.sent) = Ids(s3)
        BY <2>1, <2>2, <2>8 DEF RuleKnows
      <3>3. Ids(q.sent) # {}
        <4>1. q.sent \in Seq(RuleRow)
          BY <2>2 DEF RuleRequest
        <4>2. 1 \in DOMAIN q.sent
          BY <3>2, <4>1
        <4> QED
          BY <4>2 DEF Ids
      <3>4. s1 # {}
        BY <2>1, <2>8, <3>3 DEF RowIds
      <3>5. Ids(s3) = RowIds
        BY <2>1, <2>2, <3>4 DEF RuleKnows
      <3>6. RuleKnows(k)'
        BY <2>1, <2>2, <2>4, <2>8, <3>1, <3>2, <3>5 DEF RuleKnows, RowIds, Rules!Kinds
      <3> QED
        BY <2>1, <2>2, <2>4, <2>5, <3>1, <3>6 DEF RuleInv
    <2> QED
      BY <2>1, <2>6, <2>7, <2>8
  <1>8. ASSUME NEW q \in s5, Rules!SecondQuery(q)
        PROVE  RuleInv'
    <2> SUFFICES ASSUME ~s6' PROVE RuleInv'
      BY DEF RuleInv
    <2> PICK k : k = [q EXCEPT !.phase = "written", !.sent = <<>>]
      OBVIOUS
    <2>1. s5' = (s5 \ {q}) \cup {k} /\ UNCHANGED <<s3, s4, s6, s7>>
      BY <1>8 DEF Rules!SecondQuery, Rules!Advance
    <2>2. /\ ~s6 /\ RowsOnce(s1) /\ s2 \in Nat /\ (\A r \in s1 : r.id <= s2)
          /\ q \in RuleRequest /\ RuleKnows(q) /\ s5' = {k}
      BY <2>1 DEF RuleInv
    <2>3. k \in RuleRequest /\ k.phase = "written"
      <3>1. <<>> \in Seq(RuleRow)
        OBVIOUS
      <3> QED
        BY <2>2, <3>1 DEF RuleRequest
    <2>4. RuleKnows(k)'
      BY <2>3 DEF RuleKnows
    <2>5. RowsOnce(s1)' /\ s2' \in Nat /\ \A r \in s1' : r.id <= s2'
      <3>1. CASE q.kind \in {"add", "append", "replace"}
        <4>1. q.phase = "read"
          BY <1>8, <3>1 DEF Rules!SecondQuery
        <4>2. \E n \in {1, 2} : Rules!Insert(n, q.start)
          BY <1>8, <3>1 DEF Rules!SecondQuery
        <4>3. PICK n \in Nat : Rules!Insert(n, q.start)
          BY <4>2
        <4>4. q.start \in Nat /\ \A r \in s1 : r.order < q.start
          BY <2>2, <3>1, <4>1 DEF RuleKnows, RuleRequest
        <4> QED
          BY <2>2, <4>3, <4>4, InsertIs
      <3>2. CASE q.kind = "delete"
        <4>1. s1' = {r \in s1 : r.id # q.id} /\ s2' = s2
          BY <1>8, <3>2 DEF Rules!SecondQuery
        <4>2. s1' \subseteq s1
          BY <4>1
        <4>3. IsFiniteSet(s1')
          BY <2>2, <4>2, FS_Subset DEF RowsOnce
        <4> QED
          BY <2>2, <4>1, <4>2, <4>3 DEF RowsOnce
      <3>3. CASE q.kind = "reorder"
        <4> DEFINE new(r) == IF \E i \in DOMAIN q.sent : q.sent[i].id = r.id
                             THEN CHOOSE s \in Rules!Range(q.sent) : s.id = r.id ELSE r
        <4>1. q.phase = "read" /\ s1' = {new(r) : r \in s1} /\ s2' = s2
          BY <1>8, <3>3 DEF Rules!SecondQuery
        <4>2. /\ InOrder(q.sent) /\ Ids(q.sent) = RowIds /\ q.sent \in Seq(RuleRow)
          BY <2>2, <3>3, <4>1 DEF RuleKnows, RuleRequest
        <4>3. ASSUME NEW r \in s1
              PROVE  \E i \in DOMAIN q.sent : new(r) = q.sent[i] /\ q.sent[i].id = r.id
          <5>1. r.id \in Ids(q.sent)
            BY <4>2 DEF RowIds
          <5>2. PICK i \in DOMAIN q.sent : q.sent[i].id = r.id
            BY <5>1 DEF Ids
          <5>3. \E s \in Rules!Range(q.sent) : s.id = r.id
            BY <5>2 DEF Rules!Range
          <5>4. new(r) \in Rules!Range(q.sent) /\ new(r).id = r.id
            BY <5>2, <5>3
          <5> QED
            BY <5>4 DEF Rules!Range
        <4> DEFINE f == [r \in s1 |-> new(r)]
        <4>4. f \in Surjection(s1, s1')
          <5> HIDE DEF new
          <5> QED
            BY <4>1 DEF Surjection
        <4> HIDE DEF new, f
        <4>5. IsFiniteSet(s1')
          BY <2>2, <4>4, FS_Surjection DEF RowsOnce
        <4>6. \A s \in s1' : \E i \in DOMAIN q.sent : s = q.sent[i]
          BY <4>1, <4>3
        <4>7. \A s \in s1' : \E r \in s1 : s.id = r.id
          BY <4>1, <4>3
        <4>8. s1' \subseteq RuleRow
          BY <4>2, <4>6
        <4>9. \A r, s \in s1' : r.id = s.id \/ r.order = s.order => r = s
          BY <4>2, <4>6 DEF InOrder
        <4> QED
          BY <2>2, <4>1, <4>5, <4>7, <4>8, <4>9 DEF RowsOnce
      <3> QED
        BY <1>8, <2>2, <3>1, <3>2, <3>3 DEF Rules!SecondQuery, RuleKnows, RuleRequest, Rules!Kinds
    <2> QED
      BY <2>1, <2>2, <2>3, <2>4, <2>5 DEF RuleInv
  <1>9. ASSUME NEW q \in s5, Rules!Fail(q)
        PROVE  RuleInv'
    <2> SUFFICES ASSUME ~s6' PROVE RuleInv'
      BY DEF RuleInv
    <2> PICK k : k = [Rules!Request("fetch", 0, <<>>) EXCEPT !.phase = "written"]
      OBVIOUS
    <2>1. /\ q.phase \in {"sent", "read"} /\ s7' = TRUE /\ UNCHANGED <<s1, s2, s3, s4, s6>>
          /\ s5' = (s5 \ {q}) \cup (IF q.kind = "reorder" THEN {k} ELSE {})
      BY <1>9 DEF Rules!Fail
    <2>2. /\ ~s6 /\ RowsOnce(s1) /\ RuleKnows(q) /\ s5 = {q}
      BY <2>1 DEF RuleInv
    <2>3. k \in RuleRequest /\ k.phase = "written"
      <3>1. <<>> \in Seq(RuleRow)
        OBVIOUS
      <3> QED
        BY <3>1 DEF RuleRequest, Rules!Request, Rules!Kinds
    <2>4. Ids(s3) = RowIds \/ s1 = {}
      BY <2>1, <2>2 DEF RuleKnows
    <2>5. RuleKnows(k)'
      BY <2>3 DEF RuleKnows
    <2>6. s5' = {} \/ s5' = {k}
      BY <2>1, <2>2
    <2> QED
      BY <2>1, <2>2, <2>3, <2>4, <2>5, <2>6 DEF RuleInv, RowsOnce, RowIds
  <1>10. ASSUME NEW q \in s5, Rules!ReadList(q)
         PROVE  RuleInv'
    <2> SUFFICES ASSUME ~s6' PROVE RuleInv'
      BY DEF RuleInv
    <2> PICK k : k = [q EXCEPT !.phase = "answered", !.sent = Rules!Listing(s1)]
      OBVIOUS
    <2>1. s5' = (s5 \ {q}) \cup {k} /\ UNCHANGED <<s1, s2, s3, s4, s6, s7>>
      BY <1>10 DEF Rules!ReadList, Rules!Advance
    <2>2. ~s6 /\ RowsOnce(s1) /\ q \in RuleRequest /\ s5' = {k}
      BY <2>1 DEF RuleInv
    <2>3. Rules!Listing(s1) \in Seq(RuleRow)
      BY <2>2, ListingIs
    <2>4. k \in RuleRequest /\ k.phase = "answered" /\ k.sent = Rules!Listing(s1)
      BY <2>2, <2>3 DEF RuleRequest
    <2>5. RuleKnows(k)'
      BY <2>1, <2>4 DEF RuleKnows
    <2> QED
      BY <2>1, <2>2, <2>4, <2>5 DEF RuleInv, RowsOnce
  <1>11. ASSUME NEW q \in s5, Rules!Show(q)
         PROVE  RuleInv'
    <2> SUFFICES ASSUME ~s6' PROVE RuleInv'
      BY DEF RuleInv
    <2>1. /\ q.phase = "answered" /\ s3' = q.sent /\ s5' = s5 \ {q}
          /\ UNCHANGED <<s1, s2, s4, s6, s7>>
      BY <1>11 DEF Rules!Show
    <2>2. ~s6 /\ RowsOnce(s1) /\ RuleKnows(q) /\ s5' = {}
      BY <2>1 DEF RuleInv
    <2>3. PICK m : m = s3'
      OBVIOUS
    <2>4. m = Rules!Listing(s1)
      BY <2>1, <2>2, <2>3 DEF RuleKnows
    <2>5. m \in Seq(RuleRow) /\ InOrder(m) /\ Ids(m) = RowIds
      BY <2>2, <2>4, ListingIs DEF RowIds
    <2>6. RowIds' = RowIds /\ Rules!Listing(s1)' = Rules!Listing(s1)
      BY <2>1 DEF RowIds, Rules!Listing
    <2>7. s3' \in Seq(RuleRow) /\ InOrder(s3)' /\ Ids(s3)' = RowIds' /\ s3' = Rules!Listing(s1)'
      BY <2>3, <2>4, <2>5, <2>6
    <2> QED
      BY <2>1, <2>2, <2>7 DEF RuleInv, RowsOnce
  <1> QED
    BY <1>1, <1>3, <1>4, <1>5, <1>6, <1>7, <1>8, <1>9, <1>10, <1>11 DEF Rules!Next

LEMMA RuleShows == RuleInv => Rules!OrderHolds
  BY DEF RuleInv, RowsOnce, Rules!OrderHolds

-----------------------------------------------------------------------------
(* All of them. *)

RecordsInv ==
  /\ part = "pusher" => PusherInv /\ SeriesInv
  /\ part = "days" => DayInv
  /\ part = "price alerts" => AlertInv
  /\ part = "editor" => EditorInv /\ LookupFollowed
  /\ part = "note" => NoteInv
  /\ part = "post draft" => DraftInv
  /\ part = "partners" => PartnerInv
  /\ part = "posts" => PostInv
  /\ part = "thesis" => ThesisInv
  /\ part = "reviews" => ReviewInv /\ PageExact
  /\ part = "stocks" => StockInv
  /\ part = "trade plans" => PlanInv
  /\ part = "accounts" => AccountInv /\ AdminsLeft
  /\ part = "company page" => CompanyInv
  /\ part = "partners page" => PageInv
  /\ part = "calendar" => MonthInv
  /\ part = "disciplines" => RuleInv
  /\ part = "admin lists" => TableInv

LEMMA RecordsStart == RecordsInit => RecordsInv
  BY PusherStarts, DayStarts, AlertStarts, EditorStarts, NoteStarts, DraftStarts, PartnerStarts, PostStarts,
     ThesisStarts, ReviewStarts, StockStarts, PlanStarts, AccountStarts, CompanyStarts,
     PageStarts, MonthStarts, RuleStarts, TableStarts DEF RecordsInit, RecordsInv

\* A step of the one that part names, or none.
LEMMA StepOfPart ==
  ASSUME [RecordsNext]_all
  PROVE  /\ part' = part
         /\ part = "pusher" => Pusher!Next \/ UNCHANGED Pusher!vars
         /\ part = "days" => UserDay!Next \/ UNCHANGED UserDay!vars
         /\ part = "price alerts" => PriceAlert!Next \/ UNCHANGED PriceAlert!vars
         /\ part = "editor" => Editor!Next \/ UNCHANGED Editor!vars
         /\ part = "note" => Note!Next \/ UNCHANGED Note!vars
         /\ part = "post draft" => Draft!Next \/ UNCHANGED Draft!vars
         /\ part = "partners" => Partner!Next \/ UNCHANGED Partner!vars
         /\ part = "posts" => Post!Next \/ UNCHANGED Post!vars
         /\ part = "thesis" => Thesis!Next \/ UNCHANGED Thesis!vars
         /\ part = "reviews" => Review!Next \/ UNCHANGED Review!vars
         /\ part = "stocks" => Stock!Next \/ UNCHANGED Stock!vars
         /\ part = "trade plans" => Plan!Next \/ UNCHANGED Plan!vars
         /\ part = "accounts" => Account!Next \/ UNCHANGED Account!vars
         /\ part = "company page" => Company!Next \/ UNCHANGED Company!vars
         /\ part = "partners page" => PartnerPage!Next \/ UNCHANGED PartnerPage!vars
         /\ part = "calendar" => Month!Next \/ UNCHANGED Month!vars
         /\ part = "disciplines" => Rules!Next \/ UNCHANGED Rules!vars
         /\ part = "admin lists" => AdminList!Next \/ UNCHANGED AdminList!vars
  <1>1. CASE RecordsNext
    BY <1>1 DEF RecordsNext
  <1>2. CASE UNCHANGED all
    <2>1. UNCHANGED <<part, s1, s2, s3, s4, s5, s6, s7, s8, s9, s10, s11, s12, s13, s14, s15>>
      BY <1>2 DEF all, after2, after4, after5, after7, after10, after12, after13, after14
    <2> QED
      BY <2>1 DEF Pusher!vars, UserDay!vars, PriceAlert!vars, Editor!vars, Editor!controller, Note!vars, Note!sync,
         Draft!vars, Partner!vars, Post!vars, Thesis!vars, Review!vars, Stock!vars,
         Plan!vars, Account!vars, Company!vars, PartnerPage!vars,
         Month!vars, Rules!vars, AdminList!vars, AdminList!table
  <1> QED
    BY <1>1, <1>2

LEMMA RecordsStep ==
  ASSUME RecordsInv, [RecordsNext]_all
  PROVE  RecordsInv'
  <1>1. part' = "price alerts" => AlertInv'
    BY StepOfPart, AlertKeeps DEF RecordsInv
  <1>2. part' = "editor" => EditorInv' /\ LookupFollowed'
    BY StepOfPart, EditorKeeps, LookupKeepsUp DEF RecordsInv
  <1>3. part' = "note" => NoteInv'
    BY StepOfPart, NoteKeeps DEF RecordsInv
  <1>4. part' = "post draft" => DraftInv'
    BY StepOfPart, DraftKeeps DEF RecordsInv
  <1>5. part' = "partners" => PartnerInv'
    BY StepOfPart, PartnerKeeps DEF RecordsInv
  <1>6. part' = "posts" => PostInv'
    BY StepOfPart, PostKeeps DEF RecordsInv
  <1>7. part' = "thesis" => ThesisInv'
    BY StepOfPart, ThesisKeeps DEF RecordsInv
  <1>8. part' = "reviews" => ReviewInv' /\ PageExact'
    BY StepOfPart, ReviewKeeps, PageStaysExact DEF RecordsInv
  <1>9. part' = "stocks" => StockInv'
    BY StepOfPart, StockKeeps DEF RecordsInv
  <1>10. part' = "trade plans" => PlanInv'
    BY StepOfPart, PlanKeeps DEF RecordsInv
  <1>11. part' = "accounts" => AccountInv' /\ AdminsLeft'
    BY StepOfPart, AccountKeeps, AdminsStay DEF RecordsInv
  <1>12. part' = "company page" => CompanyInv'
    BY StepOfPart, CompanyKeeps DEF RecordsInv
  <1>13. part' = "partners page" => PageInv'
    BY StepOfPart, PageKeeps DEF RecordsInv
  <1>14. part' = "pusher" => PusherInv' /\ SeriesInv'
    BY StepOfPart, PusherKeeps DEF RecordsInv
  <1>15. part' = "days" => DayInv'
    BY StepOfPart, DayKeeps DEF RecordsInv
  <1>16. part' = "calendar" => MonthInv'
    BY StepOfPart, MonthKeeps DEF RecordsInv
  <1>17. part' = "disciplines" => RuleInv'
    BY StepOfPart, RuleKeeps DEF RecordsInv
  <1>18. part' = "admin lists" => TableInv'
    BY StepOfPart, TableKeeps DEF RecordsInv
  <1> QED
    BY <1>1, <1>2, <1>3, <1>4, <1>5, <1>6, <1>7, <1>8, <1>9, <1>10, <1>11, <1>12, <1>13,
       <1>14, <1>15, <1>16, <1>17, <1>18 DEF RecordsInv

\* What the components have read, ask for and keep stays consistent.
THEOREM RecordsInvariant == RecordsSpec => []RecordsInv
  BY RecordsStart, RecordsStep, PTL DEF RecordsSpec

\* No due alert falls between two windows, a series is dismissed whole, and the
\* days and hours of a recurring alert are those of the user.
THEOREM AlertsArrive == RecordsSpec => []AlertsReachTheUser
  <1>1. RecordsInv => AlertsReachTheUser
    BY NoneIsSkipped, TodayIs, HoursAre
       DEF RecordsInv, SeriesInv, UserDay!DaysHold, AlertsReachTheUser
  <1> QED
    BY <1>1, RecordsInvariant, PTL

\* A price alert goes off for a price that meets its condition, and once.
THEOREM AlertsAreEarned == RecordsSpec => []TriggersAreEarned
  <1>1. RecordsInv => TriggersAreEarned
    BY DEF RecordsInv, AlertInv, AlertUndisturbed, AlertUnwritten, AlertAlone,
       TriggersAreEarned, PriceAlert!TriggersAreEarned
  <1> QED
    BY <1>1, RecordsInvariant, PTL

\* A partner is shown what its owner consented to, and the page shows it.
THEOREM ConsentIsHonoured == RecordsSpec => []ConsentHonoured
  <1>1. RecordsInv => ConsentHonoured
    BY PartnerHonours, PageShows DEF RecordsInv, ConsentHonoured
  <1> QED
    BY <1>1, RecordsInvariant, PTL

\* No step replaces a draft unasked, moves the date of a published post, takes
\* back a review, replaces a password unproved or archives another text.
THEOREM WritesAreKept == RecordsSpec => WritesKeep
  <1>1. RecordsInv /\ [RecordsNext]_all =>
          [/\ part = "editor" => Editor!KeepsDraft
           /\ part = "posts" => Post!KeepsDate
           /\ part = "reviews" => Review!StaysReviewed
           /\ part = "accounts" => Account!PasswordHeld
           /\ part = "company page" => Company!ArchivedAsItWas]_all
    BY StepOfPart, EditorKeeps, PostKeeps, ReviewKeeps, AccountKeeps, CompanyKeeps
       DEF RecordsInv
  <1> QED
    BY <1>1, RecordsInvariant, PTL DEF RecordsSpec, WritesKeep

\* The last lookup decides what the editor shows and asks, a note that was
\* posted is no draft again, and nor is a published post.
THEOREM DraftsAreKept == RecordsSpec => []DraftsHold
  <1>1. EditorInv /\ LookupFollowed => Editor!LastLookupWins
    BY DEF EditorInv, LookupFollowed, Editor!LastLookupWins
  <1>2. NoteInv => Note!PostedNotesStayGone
    BY DEF NoteInv, Note!PostedNotesStayGone
  <1>3. DraftInv => Draft!PublishedIsNoDraft
    BY DEF DraftInv, Draft!PublishedIsNoDraft
  <1>4. RecordsInv => DraftsHold
    BY <1>1, <1>2, <1>3 DEF RecordsInv, DraftsHold
  <1> QED
    BY <1>4, RecordsInvariant, PTL

\* The dates of posts and theses fit their statuses; the review page, while no
\* diary is written between its queries, has each diary once; a captured insight
\* is stored once on a stock that is followed; plans are on diaries of their user;
\* an administrator is left, unless one acted who was none any more; and the page
\* of a stock that is ready shows what the server has, unless an answer was lost.
\* The calendar shows the diaries of the month on the page and the holidays of its
\* year, an order of the disciplines that was taken is that of their rows, and a
\* table of the administrators is the page of the server that it says it is.
THEOREM RecordsAgree == RecordsSpec => []RecordsHold
  <1>1. RecordsInv => RecordsHold
    BY SignalsDoAgree, PagePartitions, HubIsWhole, MonthShows, RuleShows, TableShows
       DEF RecordsInv, PostInv, ThesisInv, StockInv, PlanInv, AdminsLeft, RecordsHold
  <1> QED
    BY <1>1, RecordsInvariant, PTL
=============================================================================
