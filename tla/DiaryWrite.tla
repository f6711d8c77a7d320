----------------------------- MODULE DiaryWrite -----------------------------
(***************************************************************************)
(* The diary write path of server/utils/diary-write.ts together with the   *)
(* structured review of server/utils/diary-review.ts, for one account.     *)
(*                                                                         *)
(* A write is a request of several database round trips: a preflight read, *)
(* the ledger validation (one SELECT over the rows of the user, outside of *)
(* any transaction), then one Prisma transaction.  Requests interleave at  *)
(* every await.  A transaction takes effect as a whole at its commit, or,  *)
(* when it throws, loses a deadlock or dies with the process, not at all.  *)
(***************************************************************************)
EXTENDS Ledger

CONSTANTS Requests,       \* the requests of a behaviour, each served once
          Days,           \* the calendar dates of diaries
          NoDay,          \* body.date is undefined
          CreateBodies,   \* the bodies a POST may carry
          UpdateBodies,   \* the bodies a PUT may carry
          Step,           \* units of quantity per stored step of Decimal(15,4)
          MaxInFlight     \* requests served at the same time (a bound)

\* A transaction row of a request; id 0 is a row without an id.
RowInput == [id : Nat, symbol : Symbols, type : {"BUY", "SELL"},
             qty : Nat \ {0}, date : Nat]

\* undefined leaves a field alone, null or [] clears it, a value sets it.
Option == {"keep", "clear", "set"}

Body == [day : Days \cup {NoDay}, append : BOOLEAN, hasRows : BOOLEAN, rows : Seq(RowInput),
         due : Option, alerts : Option, companies : Option]

NoBody == [day |-> NoDay, append |-> FALSE, hasRows |-> FALSE, rows |-> <<>>,
           due |-> "keep", alerts |-> "keep", companies |-> "keep"]

ASSUME DiaryAssumption ==
  /\ NoDay \notin Days
  /\ CreateBodies \subseteq {b \in Body : b.day # NoDay}
  /\ UpdateBodies \subseteq Body
  /\ Step \in Nat \ {0}
  /\ MaxInFlight \in Nat \ {0}

VARIABLES
  diary,       \* the diaries table: a function from ids to rows
  nextDiary,   \* its AUTO_INCREMENT counter
  txn,         \* the transactions table: a function from ids to rows
  nextTxn,     \* its AUTO_INCREMENT counter
  req          \* the requests being served

tables == <<diary, nextDiary, txn, nextTxn>>
vars == <<diary, nextDiary, txn, nextTxn, req>>

(***************************************************************************)
(* Content, alerts and linked companies are abstracted to the set of the   *)
(* requests whose text, alerts or companies the row carries.               *)
(***************************************************************************)
DiaryRow == [day : Days, text : SUBSET Requests,
             review : {"NONE", "PENDING", "REVIEWED"},
             alerts : SUBSET Requests, companies : SUBSET Requests]

TxnRow == [diary : Nat, symbol : Symbols, type : {"BUY", "SELL"},
           qty : Nat, date : Nat]

\* reviewed is what the preflight read says of the diary; text is the content
\* merged by an append under its row lock.
Request == [pc : {"idle", "checked", "validated", "locked", "done", "failed"},
            op : {"none", "create", "append", "update", "delete", "review"},
            body : CreateBodies \cup UpdateBodies \cup {NoBody},
            target : Nat, reviewed : BOOLEAN, text : SUBSET Requests]

NoRequest == [pc |-> "idle", op |-> "none", body |-> NoBody,
              target |-> 0, reviewed |-> FALSE, text |-> {}]

TypeOK ==
  /\ nextDiary \in Nat \ {0}
  /\ nextTxn \in Nat \ {0}
  /\ DOMAIN diary \subseteq 1 .. (nextDiary - 1)
  /\ diary \in [DOMAIN diary -> DiaryRow]
  /\ DOMAIN txn \subseteq 1 .. (nextTxn - 1)
  /\ txn \in [DOMAIN txn -> TxnRow]
  /\ req \in [Requests -> Request]

Init ==
  /\ diary = <<>>
  /\ nextDiary = 1
  /\ txn = <<>>
  /\ nextTxn = 1
  /\ req = [r \in Requests |-> NoRequest]

-----------------------------------------------------------------------------
(* Requests *)

InFlight == {r \in Requests : req[r].pc \in {"checked", "validated", "locked"}}

CanStart(r) == req[r].pc = "idle" /\ Cardinality(InFlight) < MaxInFlight

Answer(r, pc) == req' = [req EXCEPT ![r] = [NoRequest EXCEPT !.pc = pc]]

\* The request is answered with an error and nothing was written.
Refuse(r) == Answer(r, "failed") /\ UNCHANGED tables

Admit(r, op, b, d, pc) ==
  /\ req' = [req EXCEPT ![r] =
               [pc |-> pc, op |-> op, body |-> b, target |-> d,
                reviewed |-> d \in DOMAIN diary /\ diary[d].review = "REVIEWED",
                text |-> {}]]
  /\ UNCHANGED tables

\* Mutant of Locked: a plain SELECT, without FOR UPDATE.
LockedNever(d) == FALSE

\* An append holds the row lock of its diary from its read to its commit.
Locked(d) == \E r \in Requests : req[r].pc = "locked" /\ req[r].target = d

OnDay(day) == {d \in DOMAIN diary : diary[d].day = day}

-----------------------------------------------------------------------------
(* Preflight: the reads before validation *)

ReceiveCreate(r, b) ==
  /\ CanStart(r)
  /\ \/ OnDay(b.day) = {} /\ Admit(r, "create", b, 0, "checked")
     \/ \E d \in OnDay(b.day) : b.append /\ Admit(r, "append", b, d, "checked")
     \/ OnDay(b.day) # {} /\ ~b.append /\ Refuse(r)

Occupied(b, d) == b.day # NoDay /\ OnDay(b.day) \ {d} # {}

ReceiveUpdate(r, b, d) ==
  /\ CanStart(r)
  /\ IF d \in DOMAIN diary /\ ~Occupied(b, d)
       THEN Admit(r, "update", b, d, "checked")
       ELSE Refuse(r)

ReceiveDelete(r, d) ==
  /\ CanStart(r)
  /\ IF d \in DOMAIN diary THEN Admit(r, "delete", NoBody, d, "checked") ELSE Refuse(r)

\* A review has no ledger to validate.
ReceiveReview(r, d) ==
  /\ CanStart(r)
  /\ IF d \in DOMAIN diary THEN Admit(r, "review", NoBody, d, "validated") ELSE Refuse(r)

-----------------------------------------------------------------------------
(* Ledger validation *)

\* readUserTransactionLedger: the rows of other diaries, in trade-date then id
\* order.
LedgerRows(excluded) == [i \in {j \in DOMAIN txn : txn[j].diary # excluded} |-> txn[i]]

Persisted(excluded) == InTradeOrder(LedgerRows(excluded))

\* validateTransactionValues over the persisted and the incoming rows.
ValuesOK(entries) == \A k \in DOMAIN entries : entries[k].qty > 0

LedgerOK(entries) == ValuesOK(entries) /\ LedgerAccepts(entries)

NeedsLedger(q) ==
  CASE q.op \in {"create", "append"} -> q.body.rows # <<>>
    [] q.op = "update" -> q.body.hasRows
    [] OTHER -> TRUE

\* Mutant of Excluded: an edit is validated together with the rows it replaces.
ExcludedNone(q) == 0

\* An append keeps the rows its diary has; an update or delete replaces them.
Excluded(q) == IF q.op \in {"update", "delete"} THEN q.target ELSE 0

Projected(q) == Persisted(Excluded(q)) \o q.body.rows

Validate(r) ==
  /\ req[r].pc = "checked"
  /\ IF NeedsLedger(req[r]) => LedgerOK(Projected(req[r]))
       THEN /\ req' = [req EXCEPT ![r].pc = "validated"]
            /\ UNCHANGED tables
       ELSE Refuse(r)

-----------------------------------------------------------------------------
(* Rows written by a transaction *)

\* Decimal(15,4) rounds a quantity to the nearest stored step, halves up.
Stored(qty) == ((qty + Step \div 2) \div Step) * Step

\* Mutant of Created: new rows get no id of their own.
CreatedNone(rows) == {}

Created(rows) == {k \in DOMAIN rows : rows[k].id = 0}

\* The id under which row k of the request is stored.
RowId(rows, k) ==
  IF rows[k].id # 0 THEN rows[k].id
  ELSE nextTxn + Cardinality({j \in Created(rows) : j < k})

WrittenIds(rows) == {RowId(rows, k) : k \in DOMAIN rows}

\* Where the rows name an id: the last of them is written over the others.
LastNaming(rows, i) ==
  CHOOSE k \in DOMAIN rows : RowId(rows, k) = i /\ \A j \in DOMAIN rows : RowId(rows, j) = i => j <= k

\* mapTransactionWriteData for the row stored under id i.
Written(d, rows, i) ==
  LET row == rows[LastNaming(rows, i)]
  IN  [diary |-> d, symbol |-> row.symbol, type |-> row.type,
       qty |-> Stored(row.qty), date |-> row.date]

\* The rows of the request on top of the kept rows of the table.
WriteRows(kept, d, rows) ==
  /\ txn' = [i \in kept \cup WrittenIds(rows) |->
               IF i \in WrittenIds(rows) THEN Written(d, rows, i) ELSE txn[i]]
  /\ nextTxn' = nextTxn + Cardinality(Created(rows))

\* Create and append ignore the ids of their rows.
AsNew(rows) == [k \in DOMAIN rows |-> [rows[k] EXCEPT !.id = 0]]

RowsOf(d) == {i \in DOMAIN txn : txn[i].diary = d}

\* A field of the request: added to, or put in place of, what is there.
Added(option, old, r) == IF option = "set" THEN old \cup {r} ELSE old
Replaced(option, old, r) ==
  CASE option = "keep" -> old [] option = "clear" -> {} [] OTHER -> {r}

-----------------------------------------------------------------------------
(* Transactions *)

CommitCreate(r) ==
  LET b == req[r].body IN
  /\ req[r].pc = "validated" /\ req[r].op = "create"
  /\ IF OnDay(b.day) # {}                     \* P2002: unique (user, date)
       THEN Refuse(r)
       ELSE /\ diary' = [d \in DOMAIN diary \cup {nextDiary} |->
                           IF d = nextDiary
                             THEN [day |-> b.day, text |-> {r},
                                   review |-> IF b.due = "set" THEN "PENDING" ELSE "NONE",
                                   alerts |-> Added(b.alerts, {}, r),
                                   companies |-> Added(b.companies, {}, r)]
                             ELSE diary[d]]
            /\ nextDiary' = nextDiary + 1
            /\ WriteRows(DOMAIN txn, nextDiary, AsNew(b.rows))
            /\ Answer(r, "done")

\* SELECT ... FOR UPDATE: the current text is read under the row lock and the
\* text of the request is put after it.
LockAppend(r) ==
  LET d == req[r].target IN
  /\ req[r].pc = "validated" /\ req[r].op = "append"
  /\ ~Locked(d)
  /\ IF d \notin DOMAIN diary
       THEN Refuse(r)
       ELSE /\ req' = [req EXCEPT ![r].pc = "locked",
                                  ![r].text = diary[d].text \cup {r}]
            /\ UNCHANGED tables

CommitAppend(r) ==
  LET b == req[r].body
      d == req[r].target
  IN
  /\ req[r].pc = "locked"
  /\ diary' = [diary EXCEPT ![d].text = req[r].text,
                            ![d].alerts = Added(b.alerts, @, r),
                            ![d].companies = Added(b.companies, @, r)]
  /\ WriteRows(DOMAIN txn, d, AsNew(b.rows))
  /\ Answer(r, "done")
  /\ UNCHANGED nextDiary

\* The review status the row gets from reviewDueAt; the preflight read decides
\* whether it is touched at all.
ReviewWritten(q) ==
  CASE q.body.due = "keep" \/ q.reviewed -> diary[q.target].review
    [] q.body.due = "set" /\ ~q.reviewed -> "PENDING"
    [] OTHER -> "NONE"

\* Mutants: without the unique key on the date, without the diaryId in the
\* filter of updateMany, without the CHECK on the review.
DateTakenNever(q) == FALSE
RowMissingAnywhere(q) ==
  q.body.hasRows /\ \E k \in DOMAIN q.body.rows : q.body.rows[k].id \notin {0} \cup DOMAIN txn
ReopensReviewNever(q) == FALSE

\* Everything that makes the transaction throw and roll back: the diary is
\* gone, a row id is not a row of this diary, the date is taken by now, or the
\* CHECK diaries_review_lifecycle_v1_check refuses to reopen a reviewed diary.
DateTaken(q) == Occupied(q.body, q.target)

RowMissing(q) ==
  /\ q.body.hasRows
  /\ \E k \in DOMAIN q.body.rows : q.body.rows[k].id \notin {0} \cup RowsOf(q.target)

ReopensReview(q) == diary[q.target].review = "REVIEWED" /\ ReviewWritten(q) # "REVIEWED"

UpdateThrows(q) ==
  q.target \notin DOMAIN diary \/ RowMissing(q) \/ DateTaken(q) \/ ReopensReview(q)

CommitUpdate(r) ==
  LET q == req[r]
      b == q.body
      d == q.target
  IN
  /\ q.pc = "validated" /\ q.op = "update"
  /\ ~Locked(d)
  /\ IF UpdateThrows(q)
       THEN Refuse(r)
       ELSE /\ diary' = [diary EXCEPT ![d] =
                           [day |-> IF b.day = NoDay THEN @.day ELSE b.day,
                            text |-> {r},
                            review |-> ReviewWritten(q),
                            alerts |-> Replaced(b.alerts, @.alerts, r),
                            companies |-> Replaced(b.companies, @.companies, r)]]
            /\ IF b.hasRows
                 THEN WriteRows(DOMAIN txn \ RowsOf(d), d, b.rows)
                 ELSE UNCHANGED <<txn, nextTxn>>
            /\ Answer(r, "done")
            /\ UNCHANGED nextDiary

\* Mutant of Cascaded: the foreign key has no ON DELETE CASCADE.
CascadedNone(d) == {}

\* The rows that go with their diary.
Cascaded(d) == RowsOf(d)

CommitDelete(r) ==
  LET d == req[r].target IN
  /\ req[r].pc = "validated" /\ req[r].op = "delete"
  /\ ~Locked(d)
  /\ IF d \notin DOMAIN diary
       THEN Refuse(r)
       ELSE /\ diary' = [e \in DOMAIN diary \ {d} |-> diary[e]]
            /\ txn' = [i \in DOMAIN txn \ Cascaded(d) |-> txn[i]]
            /\ Answer(r, "done")
            /\ UNCHANGED <<nextDiary, nextTxn>>

CommitReview(r) ==
  LET d == req[r].target IN
  /\ req[r].pc = "validated" /\ req[r].op = "review"
  /\ ~Locked(d)
  /\ IF d \notin DOMAIN diary
       THEN Refuse(r)
       ELSE /\ diary' = [diary EXCEPT ![d].review = "REVIEWED"]
            /\ Answer(r, "done")
            /\ UNCHANGED <<nextDiary, txn, nextTxn>>

\* A database error, a deadlock victim, a restart of the process.
Abort(r) == r \in InFlight /\ Refuse(r)

-----------------------------------------------------------------------------
AllAnswered ==
  /\ \A r \in Requests : req[r].pc \in {"done", "failed"}
  /\ UNCHANGED vars

Next ==
  \/ \E r \in Requests :
       \/ \E b \in CreateBodies : ReceiveCreate(r, b)
       \/ \E b \in UpdateBodies, d \in 1 .. (nextDiary - 1) : ReceiveUpdate(r, b, d)
       \/ \E d \in 1 .. (nextDiary - 1) : ReceiveDelete(r, d) \/ ReceiveReview(r, d)
       \/ Validate(r)
       \/ CommitCreate(r) \/ LockAppend(r) \/ CommitAppend(r) \/ CommitUpdate(r)
       \/ CommitDelete(r) \/ CommitReview(r)
       \/ Abort(r)
  \/ AllAnswered

Spec == Init /\ [][Next]_vars

-----------------------------------------------------------------------------
(* Properties *)

\* A user has at most one diary per calendar date, whatever creates and date
\* moves run at once: the unique key (user_id, date) decides at the commit,
\* the preflight of createDiaryForUser and updateDiaryForUser does not.
OneDiaryPerDay ==
  \A d, e \in DOMAIN diary : diary[d].day = diary[e].day => d = e

\* No transaction row outlives its diary: an append or an edit that was
\* validated before a concurrent delete must not write rows after it.
RowsHaveDiary == \A i \in DOMAIN txn : txn[i].diary \in DOMAIN diary

\* A stored transaction keeps its diary for life: a PUT that names the id of a
\* row of another diary, or of a deleted row, must not move or overwrite it
\* (persistTransactionDiff filters on id and diaryId).
RowsStayPut ==
  [][\A i \in DOMAIN txn \cap DOMAIN txn' : txn'[i].diary = txn[i].diary]_vars

\* A completed review is never undone: an edit whose preflight read preceded
\* the review would write PENDING or NONE over it, and must be rolled back.
ReviewKept ==
  [][\A d \in DOMAIN diary \cap DOMAIN diary' :
        diary[d].review = "REVIEWED" => diary'[d].review = "REVIEWED"]_vars

\* Text, alerts and companies leave a diary only by a full edit of that very
\* diary: concurrent appends never overwrite each other's merge, and an append
\* never drops a context link.
AppendsOnlyAdd ==
  [][\A d \in DOMAIN diary \cap DOMAIN diary' :
        \/ /\ diary[d].text \subseteq diary'[d].text
           /\ diary[d].alerts \subseteq diary'[d].alerts
           /\ diary[d].companies \subseteq diary'[d].companies
        \/ \E r \in Requests : /\ req[r].op = "update" /\ req[r].target = d
                               /\ req'[r].pc = "done"]_vars

\* The rows as the next validation will read them form a ledger that sells
\* nothing that is not held.
LedgerValid == LedgerOK(Persisted(0))

TradeDatesDiffer ==
  \A i, j \in DOMAIN txn : txn[i].date = txn[j].date => i = j

\* When one request is served at a time, every write leaves a valid ledger, as
\* long as no two rows share a trade date: the projection validated by create,
\* append, update and delete is the table their transaction then writes.
LedgerValidWithoutTies == TradeDatesDiffer => LedgerValid

\* No row reaches the table with a value validateTransactionValues rejects.
StoredValuesOK == ValuesOK(Persisted(0))

-----------------------------------------------------------------------------
(* Bodies for model checking.  Quantities are in units of 0.00002 shares:  *)
(* a stored step of 0.0001 is 5 units, one lot is 50.                      *)

RequestSymmetry == Permutations(Requests)

Lot == 50
Trade(i, t, d, q) == [id |-> i, symbol |-> "S", type |-> t, qty |-> q, date |-> d]

Post(day, append, rows, option) ==
  [NoBody EXCEPT !.day = day, !.append = append, !.rows = rows,
                 !.hasRows = rows # <<>>, !.due = option,
                 !.alerts = option, !.companies = option]

Put(day, due, children) ==
  [NoBody EXCEPT !.day = day, !.due = due, !.alerts = children,
                 !.companies = children]

PutRows(rows) == [NoBody EXCEPT !.hasRows = TRUE, !.rows = rows]

(* Four requests at once: every kind of body, one trade date. *)
RaceDays == {1, 2}
RaceCreateBodies ==
       {Post(day, append, <<>>, "set") : day \in RaceDays, append \in BOOLEAN}
  \cup {Post(1, TRUE, <<Trade(0, "BUY", 1, Lot)>>, "keep")}
RaceUpdateBodies ==
       {Put(NoDay, "set", "keep"), Put(NoDay, "clear", "clear"),
        Put(1, "keep", "set"), Put(2, "keep", "keep")}
  \cup {PutRows(<<Trade(i, "BUY", 1, Lot)>>) : i \in 0 .. 2}

(* One request at a time: rows of one symbol on three trade dates. *)
OneRow(ids, dates) == {<<Trade(i, t, d, Lot)>> : i \in ids, t \in {"BUY", "SELL"}, d \in dates}
TwoRows(ids, dates) == {<<a[1], b[1]>> : a \in OneRow(ids, dates), b \in OneRow({0}, dates)}

SequentialDays == {1, 2, 3}
SequentialCreateBodies ==
  {Post(day, TRUE, rows, "keep") : day \in SequentialDays, rows \in OneRow({0}, {1, 2, 3})}
SequentialUpdateBodies ==
  {PutRows(rows) : rows \in {<<>>} \cup OneRow({1, 2}, {1, 2, 3}) \cup TwoRows({1, 2}, {1, 2, 3})}

(* The findings: rows on one trade date; one BUY and two SELLs on dates of     *)
(* their own; a quantity below half a stored step.                             *)
TieCreateBodies == {Post(day, FALSE, rows, "keep") : day \in {1, 2}, rows \in OneRow({0}, {1})}
TieUpdateBodies == {PutRows(rows) : rows \in OneRow({1, 2}, {1})}

OversellCreateBodies ==
  {Post(1, FALSE, <<Trade(0, "BUY", 1, Lot)>>, "keep")}
  \cup {Post(day, FALSE, <<Trade(0, "SELL", day, Lot)>>, "keep") : day \in {2, 3}}

DustCreateBodies == {Post(day, FALSE, <<Trade(0, "BUY", 1, 2)>>, "keep") : day \in {1, 2}}
NoUpdateBodies == {}
=============================================================================
