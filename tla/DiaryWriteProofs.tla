-------------------------- MODULE DiaryWriteProofs --------------------------
(***************************************************************************)
(* Safety of the diary write path, for any number of requests in flight,   *)
(* any dates and any bodies.                                               *)
(***************************************************************************)
EXTENDS DiaryWrite, LedgerProofs

LEMMA StoredType ==
  ASSUME NEW qty \in Nat
  PROVE  Stored(qty) \in Nat
  <1>1. Step \in Nat /\ Step > 0
    BY DiaryAssumption
  <1>2. Step \div 2 \in Nat
    BY <1>1
  <1>3. ASSUME NEW a \in Nat PROVE a \div Step \in Nat
    BY <1>1, <1>3
  <1>4. ASSUME NEW a \in Nat PROVE a * Step \in Nat
    BY <1>1, <1>4
  <1> QED
    BY <1>2, <1>3, <1>4 DEF Stored

-----------------------------------------------------------------------------
(* The ids of written rows *)

Row == [id : Nat, symbol : Symbols, type : {"BUY", "SELL"}, qty : Nat, date : Nat]
Rows == Seq(Row)

LEMMA CreatedCounts ==
  ASSUME NEW rows \in Rows
  PROVE  /\ Cardinality(Created(rows)) \in Nat
         /\ \A k \in DOMAIN rows :
              Cardinality({j \in Created(rows) : j < k}) \in Nat
         /\ \A k \in Created(rows) :
              Cardinality({j \in Created(rows) : j < k}) < Cardinality(Created(rows))
  <1>1. IsFiniteSet(Created(rows)) /\ Created(rows) \subseteq Nat
    <2>1. DOMAIN rows = 1 .. Len(rows) /\ Len(rows) \in Int
      BY DEF Rows
    <2>2. IsFiniteSet(1 .. Len(rows))
      BY <2>1, FS_Interval
    <2> QED
      BY <2>1, <2>2, FS_Subset DEF Created
  <1>2. ASSUME NEW k
        PROVE  /\ IsFiniteSet({j \in Created(rows) : j < k})
               /\ Cardinality({j \in Created(rows) : j < k}) \in Nat
               /\ Cardinality({j \in Created(rows) : j < k}) <= Cardinality(Created(rows))
               /\ Cardinality({j \in Created(rows) : j < k}) = Cardinality(Created(rows))
                    => Created(rows) = {j \in Created(rows) : j < k}
    BY <1>1, FS_Subset, FS_CardinalityType
  <1>3. Cardinality(Created(rows)) \in Nat
    BY <1>1, FS_CardinalityType
  <1>4. ASSUME NEW k \in Created(rows)
        PROVE  Cardinality({j \in Created(rows) : j < k}) < Cardinality(Created(rows))
    <2>1. k \notin {j \in Created(rows) : j < k}
      BY <1>1, <1>4
    <2> QED
      BY <1>2, <1>3, <2>1
  <1> QED
    BY <1>2, <1>3, <1>4

\* A row keeps its id, or gets one that the counter has not given yet.
LEMMA RowIdRange ==
  ASSUME NEW rows \in Rows, nextTxn \in Nat \ {0}, NEW k \in DOMAIN rows
  PROVE  /\ rows[k].id # 0 => RowId(rows, k) = rows[k].id
         /\ rows[k].id = 0 =>
              RowId(rows, k) \in nextTxn .. (nextTxn + Cardinality(Created(rows)) - 1)
  <1>1. CASE rows[k].id # 0
    BY <1>1 DEF RowId
  <1>2. CASE rows[k].id = 0
    <2>1. k \in Created(rows)
      BY <1>2 DEF Created
    <2>2. /\ RowId(rows, k) = nextTxn + Cardinality({j \in Created(rows) : j < k})
          /\ Cardinality({j \in Created(rows) : j < k}) \in Nat
          /\ Cardinality({j \in Created(rows) : j < k}) < Cardinality(Created(rows))
          /\ Cardinality(Created(rows)) \in Nat
      BY <1>2, <2>1, CreatedCounts DEF RowId
    <2> QED
      BY <1>2, <2>2
  <1> QED
    BY <1>1, <1>2

\* An id that is written has a last row that names it.
LEMMA LastIs ==
  ASSUME NEW rows \in Rows, NEW i \in WrittenIds(rows)
  PROVE  /\ LastNaming(rows, i) \in DOMAIN rows
         /\ RowId(rows, LastNaming(rows, i)) = i
  <1> DEFINE n == Len(rows)
             Naming == {k \in DOMAIN rows : RowId(rows, k) = i}
             Rest == {n - k : k \in Naming}
  <1>1. n \in Nat /\ DOMAIN rows = 1..n
    BY DEF Rows
  <1>2. Rest \subseteq Nat /\ Rest # {}
    BY <1>1 DEF WrittenIds
  <1>3. PICK x \in Rest : \A y \in Rest : x <= y
    BY <1>2, LeastNat
  <1>4. PICK k \in Naming : x = n - k
    OBVIOUS
  <1>5. ASSUME NEW j \in Naming PROVE j <= k
    <2>1. n - j \in Rest /\ j \in Nat /\ k \in Nat
      BY <1>1
    <2>2. n - k <= n - j
      BY <1>3, <1>4, <2>1
    <2> HIDE DEF n, Rest, Naming
    <2> QED
      BY <1>1, <2>1, <2>2
  <1>6. /\ k \in DOMAIN rows /\ RowId(rows, k) = i
        /\ \A j \in DOMAIN rows : RowId(rows, j) = i => j <= k
    BY <1>5
  <1> QED
    BY <1>6 DEF LastNaming

\* What WriteRows does to the table: the kept rows stay as they are, the
\* written ones belong to the diary d and bear ids of their own or new ones.
LEMMA RowsWritten ==
  ASSUME TypeOK, NEW rows \in Rows, NEW d \in Nat,
         NEW kept, kept \subseteq DOMAIN txn, NEW own, own \subseteq DOMAIN txn,
         \A k \in DOMAIN rows : rows[k].id \in {0} \cup own,
         WriteRows(kept, d, rows)
  PROVE  /\ nextTxn' \in Nat \ {0}
         /\ DOMAIN txn' \subseteq 1 .. (nextTxn' - 1)
         /\ txn' \in [DOMAIN txn' -> TxnRow]
         /\ \A i \in DOMAIN txn' :
              \/ i \in kept /\ txn'[i] = txn[i]
              \/ txn'[i].diary = d /\ (i \in DOMAIN txn => i \in own)
  <1> DEFINE n == Cardinality(Created(rows))
  <1>1. n \in Nat
    BY CreatedCounts
  <1>2. nextTxn \in Nat \ {0} /\ DOMAIN txn \subseteq 1 .. (nextTxn - 1)
        /\ txn \in [DOMAIN txn -> TxnRow]
    BY DEF TypeOK
  <1>3. /\ nextTxn' = nextTxn + n
        /\ DOMAIN txn' = kept \cup WrittenIds(rows)
        /\ \A i \in DOMAIN txn' :
             txn'[i] = IF i \in WrittenIds(rows) THEN Written(d, rows, i) ELSE txn[i]
    BY DEF WriteRows
  <1>4. \A i \in WrittenIds(rows) :
          i \in own \/ i \in nextTxn .. (nextTxn + n - 1)
    <2> SUFFICES ASSUME NEW k \in DOMAIN rows
                 PROVE  RowId(rows, k) \in own \cup (nextTxn .. (nextTxn + n - 1))
      BY DEF WrittenIds
    <2> QED
      BY <1>2, RowIdRange
  <1>5. ASSUME NEW i \in WrittenIds(rows)
        PROVE  Written(d, rows, i) \in TxnRow /\ Written(d, rows, i).diary = d
    <2> DEFINE j == LastNaming(rows, i)
    <2>1. j \in DOMAIN rows
      BY LastIs
    <2>2. ASSUME NEW k \in DOMAIN rows PROVE rows[k] \in Row
      BY <2>2 DEF Rows
    <2>3. rows[j] \in Row
      BY <2>1, <2>2
    <2>4. Stored(rows[j].qty) \in Nat
      BY <2>3, StoredType DEF Row
    <2> QED
      BY <2>3, <2>4 DEF Written, TxnRow, Row
  <1>6. DOMAIN txn' \subseteq 1 .. (nextTxn' - 1)
    BY <1>1, <1>2, <1>3, <1>4
  <1>7. txn' \in [DOMAIN txn' -> TxnRow]
    <2>1. \A i \in DOMAIN txn' : txn'[i] \in TxnRow
      BY <1>2, <1>3, <1>5
    <2>2. txn' = [i \in DOMAIN txn' |-> txn'[i]]
      BY DEF WriteRows
    <2> QED
      BY <2>1, <2>2
  <1>8. \A i \in DOMAIN txn' :
          \/ i \in kept /\ txn'[i] = txn[i]
          \/ txn'[i].diary = d /\ (i \in DOMAIN txn => i \in own)
    BY <1>1, <1>2, <1>3, <1>4, <1>5
  <1> QED
    BY <1>1, <1>2, <1>3, <1>6, <1>7, <1>8

\* The rows of a create or an append all are new.
LEMMA NewRowsWritten ==
  ASSUME TypeOK, NEW rows \in Rows, NEW d \in Nat,
         \A k \in DOMAIN rows : rows[k].id = 0,
         WriteRows(DOMAIN txn, d, rows)
  PROVE  /\ nextTxn' \in Nat \ {0}
         /\ DOMAIN txn' \subseteq 1 .. (nextTxn' - 1)
         /\ txn' \in [DOMAIN txn' -> TxnRow]
         /\ \A i \in DOMAIN txn' :
              \/ i \in DOMAIN txn /\ txn'[i] = txn[i]
              \/ txn'[i].diary = d /\ i \notin DOMAIN txn
  <1> DEFINE own == {}
             kept == DOMAIN txn
  <1>1. \A k \in DOMAIN rows : rows[k].id \in {0} \cup own
    OBVIOUS
  <1>2. own \subseteq DOMAIN txn /\ \A i : i \notin own
    OBVIOUS
  <1>3. kept \subseteq DOMAIN txn /\ WriteRows(kept, d, rows)
    OBVIOUS
  <1> HIDE DEF own, kept
  <1>4. /\ nextTxn' \in Nat \ {0}
        /\ DOMAIN txn' \subseteq 1 .. (nextTxn' - 1)
        /\ txn' \in [DOMAIN txn' -> TxnRow]
        /\ \A i \in DOMAIN txn' :
             \/ i \in kept /\ txn'[i] = txn[i]
             \/ txn'[i].diary = d /\ (i \in DOMAIN txn => i \in own)
    BY <1>1, <1>2, <1>3, RowsWritten
  <1> QED
    BY <1>2, <1>4 DEF kept

LEMMA BodyRows ==
  ASSUME NEW b \in CreateBodies \cup UpdateBodies \cup {NoBody}
  PROVE  /\ b \in Body
         /\ b.rows \in Rows
         /\ AsNew(b.rows) \in Rows
         /\ \A k \in DOMAIN AsNew(b.rows) : AsNew(b.rows)[k].id = 0
  <1>1. NoBody \in Body
    BY DEF NoBody, Body, Option
  <1>2. b \in Body
    BY <1>1, DiaryAssumption
  <1>3. b.rows \in Seq(RowInput)
    BY <1>2 DEF Body
  <1>4. /\ DOMAIN b.rows = 1 .. Len(b.rows) /\ Len(b.rows) \in Nat
        /\ \A k \in DOMAIN b.rows : b.rows[k] \in Row
    <2>1. RowInput \subseteq Row
      BY DEF RowInput, Row
    <2>2. \A k \in DOMAIN b.rows : b.rows[k] \in RowInput
      BY <1>3
    <2> QED
      BY <1>3, <2>1, <2>2
  <1>5. b.rows \in Rows
    BY <1>3, <1>4 DEF Rows
  <1>6. /\ DOMAIN AsNew(b.rows) = 1 .. Len(b.rows)
        /\ \A k \in DOMAIN AsNew(b.rows) : AsNew(b.rows)[k] \in Row /\ AsNew(b.rows)[k].id = 0
    BY <1>4 DEF AsNew, Row
  <1>7. AsNew(b.rows) \in [1 .. Len(b.rows) -> Row]
    BY <1>4, <1>6 DEF AsNew
  <1>8. AsNew(b.rows) \in Rows
    BY <1>4, <1>7 DEF Rows
  <1> QED
    BY <1>2, <1>5, <1>6, <1>8

-----------------------------------------------------------------------------
(* The inductive invariant *)

\* The body of a request is one that its operation takes.
BodiesFit ==
  \A r \in Requests :
    /\ req[r].op \in {"create", "append"} => req[r].body \in CreateBodies
    /\ req[r].op = "update" => req[r].body \in UpdateBodies

\* What SELECT ... FOR UPDATE secures: the diary of the lock stays, one append
\* holds it, and no text is added behind the one it has read.
LocksHold ==
  /\ \A r \in Requests : req[r].pc = "locked" =>
       /\ req[r].op = "append" /\ req[r].target \in DOMAIN diary
       /\ diary[req[r].target].text \subseteq req[r].text
  /\ \A r, s \in Requests :
       req[r].pc = "locked" /\ req[s].pc = "locked" /\ req[r].target = req[s].target => r = s

IInv == TypeOK /\ BodiesFit /\ LocksHold /\ OneDiaryPerDay /\ RowsHaveDiary

-----------------------------------------------------------------------------
(* Steps of a request *)

\* An answer ends one request and touches no other.
LEMMA AnswerEnds ==
  ASSUME IInv, NEW r \in Requests, NEW pc \in {"done", "failed"}, Answer(r, pc)
  PROVE  /\ req' \in [Requests -> Request]
         /\ req'[r].pc = pc /\ req'[r].op = "none"
         /\ \A s \in Requests \ {r} : req'[s] = req[s]
         /\ BodiesFit'
  <1>1. [NoRequest EXCEPT !.pc = pc] \in Request
    BY DEF NoRequest, Request
  <1>2. req \in [Requests -> Request]
    BY DEF IInv, TypeOK
  <1>3. /\ req' \in [Requests -> Request]
        /\ req'[r] = [NoRequest EXCEPT !.pc = pc]
        /\ \A s \in Requests \ {r} : req'[s] = req[s]
    BY <1>1, <1>2 DEF Answer
  <1>4. req'[r].pc = pc /\ req'[r].op = "none"
    BY <1>3 DEF NoRequest
  <1>5. BodiesFit'
    BY <1>3, <1>4 DEF IInv, BodiesFit
  <1> QED
    BY <1>3, <1>4, <1>5

LEMMA RefuseKeeps ==
  ASSUME IInv, NEW r \in Requests, Refuse(r)
  PROVE  IInv'
  <1>1. Answer(r, "failed") /\ UNCHANGED tables
    BY DEF Refuse
  <1>2. /\ req' \in [Requests -> Request]
        /\ req'[r].pc = "failed"
        /\ \A s \in Requests \ {r} : req'[s] = req[s]
        /\ BodiesFit'
    BY <1>1, AnswerEnds
  <1>3. TypeOK'
    BY <1>1, <1>2 DEF IInv, TypeOK, tables
  <1>4. LocksHold'
    BY <1>1, <1>2 DEF IInv, LocksHold, tables
  <1> QED
    BY <1>1, <1>2, <1>3, <1>4 DEF IInv, OneDiaryPerDay, RowsHaveDiary, tables

LEMMA AdmitKeeps ==
  ASSUME IInv, NEW r \in Requests,
         NEW op \in {"create", "append", "update", "delete", "review"},
         NEW b \in CreateBodies \cup UpdateBodies \cup {NoBody}, NEW d \in Nat,
         NEW pc \in {"checked", "validated"},
         op \in {"create", "append"} => b \in CreateBodies,
         op = "update" => b \in UpdateBodies,
         Admit(r, op, b, d, pc)
  PROVE  IInv'
  <1> DEFINE q == [pc |-> pc, op |-> op, body |-> b, target |-> d,
                   reviewed |-> d \in DOMAIN diary /\ diary[d].review = "REVIEWED",
                   text |-> {}]
  <1>1. q \in Request
    BY DEF Request
  <1>2. /\ req' = [req EXCEPT ![r] = q]
        /\ UNCHANGED tables
    BY DEF Admit
  <1>3. /\ req' \in [Requests -> Request]
        /\ req'[r] = q
        /\ \A s \in Requests \ {r} : req'[s] = req[s]
    BY <1>1, <1>2 DEF IInv, TypeOK
  <1>4. /\ req'[r].pc # "locked"
        /\ req'[r].op \in {"create", "append"} => req'[r].body \in CreateBodies
        /\ req'[r].op = "update" => req'[r].body \in UpdateBodies
    BY <1>3
  <1>5. TypeOK'
    BY <1>2, <1>3 DEF IInv, TypeOK, tables
  <1>6. BodiesFit'
    BY <1>3, <1>4 DEF IInv, BodiesFit
  <1>7. LocksHold'
    BY <1>2, <1>3, <1>4 DEF IInv, LocksHold, tables
  <1> QED
    BY <1>2, <1>5, <1>6, <1>7 DEF IInv, OneDiaryPerDay, RowsHaveDiary, tables

LEMMA ReceiveKeeps ==
  ASSUME IInv, NEW r \in Requests
  PROVE  /\ \A b \in CreateBodies : ReceiveCreate(r, b) => IInv'
         /\ \A b \in UpdateBodies, d \in 1 .. (nextDiary - 1) : ReceiveUpdate(r, b, d) => IInv'
         /\ \A d \in 1 .. (nextDiary - 1) : ReceiveDelete(r, d) \/ ReceiveReview(r, d) => IInv'
  <1>1. ASSUME NEW b \in CreateBodies, ReceiveCreate(r, b) PROVE IInv'
    <2>1. CASE Admit(r, "create", b, 0, "checked")
      BY <2>1, AdmitKeeps
    <2>2. CASE \E d \in OnDay(b.day) : Admit(r, "append", b, d, "checked")
      <3>1. OnDay(b.day) \subseteq Nat
        BY DEF OnDay, IInv, TypeOK
      <3> QED
        BY <2>2, <3>1, AdmitKeeps
    <2>3. CASE Refuse(r)
      BY <2>3, RefuseKeeps
    <2> QED
      BY <1>1, <2>1, <2>2, <2>3 DEF ReceiveCreate
  <1>2. ASSUME NEW b \in UpdateBodies, NEW d \in 1 .. (nextDiary - 1), ReceiveUpdate(r, b, d)
        PROVE  IInv'
    BY <1>2, AdmitKeeps, RefuseKeeps DEF ReceiveUpdate
  <1>3. ASSUME NEW d \in 1 .. (nextDiary - 1), ReceiveDelete(r, d) \/ ReceiveReview(r, d)
        PROVE  IInv'
    BY <1>3, AdmitKeeps, RefuseKeeps DEF ReceiveDelete, ReceiveReview
  <1> QED
    BY <1>1, <1>2, <1>3

LEMMA ValidateKeeps ==
  ASSUME IInv, NEW r \in Requests, Validate(r)
  PROVE  IInv'
  <1>1. CASE Refuse(r)
    BY <1>1, RefuseKeeps
  <1>2. CASE req' = [req EXCEPT ![r].pc = "validated"] /\ UNCHANGED tables
    <2>1. /\ req' \in [Requests -> Request]
          /\ req'[r] = [req[r] EXCEPT !.pc = "validated"]
          /\ \A s \in Requests \ {r} : req'[s] = req[s]
      BY <1>2, SMTT(30) DEF IInv, TypeOK, Request
    <2>2. /\ req'[r].pc = "validated"
          /\ req'[r].op = req[r].op /\ req'[r].body = req[r].body
      BY <2>1 DEF IInv, TypeOK, Request
    <2>3. TypeOK'
      BY <1>2, <2>1 DEF IInv, TypeOK, tables
    <2>4. BodiesFit'
      BY <2>1, <2>2 DEF IInv, BodiesFit
    <2>5. LocksHold'
      BY <1>2, <2>1, <2>2 DEF IInv, LocksHold, tables
    <2> QED
      BY <1>2, <2>3, <2>4, <2>5 DEF IInv, OneDiaryPerDay, RowsHaveDiary, tables
  <1> QED
    BY <1>1, <1>2 DEF Validate

LEMMA LockAppendKeeps ==
  ASSUME IInv, NEW r \in Requests, LockAppend(r)
  PROVE  IInv'
  <1> DEFINE d == req[r].target
  <1>1. CASE Refuse(r)
    BY <1>1, RefuseKeeps
  <1>2. CASE ~Refuse(r)
    <2>1. /\ d \in DOMAIN diary /\ ~Locked(d) /\ req[r].op = "append"
          /\ req' = [req EXCEPT ![r].pc = "locked", ![r].text = diary[d].text \cup {r}]
          /\ UNCHANGED tables
      BY <1>2 DEF LockAppend
    <2>2. diary[d].text \in SUBSET Requests
      BY <2>1 DEF IInv, TypeOK, DiaryRow
    <2>3. /\ req' \in [Requests -> Request]
          /\ req'[r] = [req[r] EXCEPT !.pc = "locked", !.text = diary[d].text \cup {r}]
          /\ \A s \in Requests \ {r} : req'[s] = req[s]
      <3> DEFINE q == [req[r] EXCEPT !.pc = "locked", !.text = diary[d].text \cup {r}]
      <3>1. req \in [Requests -> Request] /\ req[r] \in Request
        BY DEF IInv, TypeOK
      <3>2. q \in Request
        BY <2>2, <3>1 DEF Request
      <3>3. req' = [req EXCEPT ![r] = q]
        BY <2>1, <3>1
      <3> QED
        BY <3>1, <3>2, <3>3
    <2>4. /\ req'[r].pc = "locked" /\ req'[r].target = d
          /\ req'[r].text = diary[d].text \cup {r}
          /\ req'[r].op = req[r].op /\ req'[r].body = req[r].body
      BY <2>3 DEF IInv, TypeOK, Request
    <2>5. TypeOK'
      BY <2>1, <2>3 DEF IInv, TypeOK, tables
    <2>6. BodiesFit'
      BY <2>3, <2>4 DEF IInv, BodiesFit
    <2>7. LocksHold'
      BY <2>1, <2>3, <2>4 DEF IInv, LocksHold, Locked, tables
    <2> QED
      BY <2>1, <2>5, <2>6, <2>7 DEF IInv, OneDiaryPerDay, RowsHaveDiary, tables
  <1> QED
    BY <1>1, <1>2

-----------------------------------------------------------------------------
(* Commits *)

DiariesTyped ==
  /\ nextDiary \in Nat \ {0}
  /\ DOMAIN diary \subseteq 1 .. (nextDiary - 1)
  /\ diary \in [DOMAIN diary -> DiaryRow]

TxnsTyped ==
  /\ nextTxn \in Nat \ {0}
  /\ DOMAIN txn \subseteq 1 .. (nextTxn - 1)
  /\ txn \in [DOMAIN txn -> TxnRow]

\* A commit that leaves the text of the diaries that other requests have
\* locked keeps what their locks secure.
LEMMA CommitKeeps ==
  ASSUME IInv, NEW r \in Requests, Answer(r, "done"),
         DiariesTyped', TxnsTyped', OneDiaryPerDay', RowsHaveDiary',
         \A s \in Requests \ {r} : req[s].pc = "locked" =>
           /\ req[s].target \in DOMAIN diary'
           /\ diary'[req[s].target].text = diary[req[s].target].text
  PROVE  IInv'
  <1>1. /\ req' \in [Requests -> Request]
        /\ req'[r].pc = "done"
        /\ \A s \in Requests \ {r} : req'[s] = req[s]
        /\ BodiesFit'
    BY AnswerEnds
  <1>2. TypeOK'
    BY <1>1 DEF TypeOK, DiariesTyped, TxnsTyped
  <1>3. LocksHold'
    BY <1>1 DEF IInv, LocksHold
  <1> QED
    BY <1>1, <1>2, <1>3 DEF IInv

LEMMA CommitCreateKeeps ==
  ASSUME IInv, NEW r \in Requests, CommitCreate(r)
  PROVE  /\ IInv'
         /\ \A d \in DOMAIN diary : d \in DOMAIN diary' /\ diary'[d] = diary[d]
         /\ \A i \in DOMAIN txn \cap DOMAIN txn' : txn'[i].diary = txn[i].diary
  <1> DEFINE b == req[r].body
             new == [day |-> b.day, text |-> {r},
                     review |-> IF b.due = "set" THEN "PENDING" ELSE "NONE",
                     alerts |-> Added(b.alerts, {}, r),
                     companies |-> Added(b.companies, {}, r)]
  <1>1. CASE Refuse(r)
    BY <1>1, RefuseKeeps DEF Refuse, tables
  <1>2. CASE ~Refuse(r)
    <2>1. /\ req[r].op = "create" /\ OnDay(b.day) = {}
          /\ DOMAIN diary' = DOMAIN diary \cup {nextDiary}
          /\ diary' = [d \in DOMAIN diary \cup {nextDiary} |->
                         IF d = nextDiary THEN new ELSE diary[d]]
          /\ nextDiary' = nextDiary + 1
          /\ WriteRows(DOMAIN txn, nextDiary, AsNew(b.rows))
          /\ Answer(r, "done")
      BY <1>2 DEF CommitCreate
    <2>2. TypeOK /\ DiariesTyped /\ b \in CreateBodies
      BY <2>1 DEF IInv, TypeOK, DiariesTyped, BodiesFit
    <2>3. b \in Body /\ b.day \in Days
      BY <2>2, DiaryAssumption DEF Body
    <2>4. new \in DiaryRow
      BY <2>3 DEF DiaryRow, Added
    <2>5. /\ nextDiary \notin DOMAIN diary
          /\ \A d \in DOMAIN diary : d \in DOMAIN diary' /\ diary'[d] = diary[d]
          /\ diary'[nextDiary] = new
      BY <2>1, <2>2 DEF DiariesTyped
    <2>6. DiariesTyped'
      BY <2>1, <2>2, <2>4 DEF DiariesTyped
    <2>7. /\ TxnsTyped'
          /\ \A i \in DOMAIN txn' :
               \/ i \in DOMAIN txn /\ txn'[i] = txn[i]
               \/ txn'[i].diary = nextDiary /\ i \notin DOMAIN txn
      <3>1. /\ AsNew(b.rows) \in Rows
            /\ \A k \in DOMAIN AsNew(b.rows) : AsNew(b.rows)[k].id = 0
        BY <2>2, BodyRows
      <3>2. nextDiary \in Nat
        BY <2>2 DEF DiariesTyped
      <3> HIDE DEF b
      <3> QED
        BY <2>1, <2>2, <3>1, <3>2, NewRowsWritten DEF TxnsTyped
    <2>8. OneDiaryPerDay'
      BY <2>1, <2>5 DEF IInv, OneDiaryPerDay, OnDay
    <2>9. RowsHaveDiary'
      BY <2>1, <2>7 DEF IInv, RowsHaveDiary
    <2>10. IInv'
      <3>1. \A s \in Requests : req[s].pc = "locked" => req[s].target \in DOMAIN diary
        BY DEF IInv, LocksHold
      <3> QED
        BY <2>1, <2>5, <2>6, <2>7, <2>8, <2>9, <3>1, CommitKeeps
    <2> QED
      BY <2>5, <2>7, <2>10
  <1> QED
    BY <1>1, <1>2

LEMMA CommitAppendKeeps ==
  ASSUME IInv, NEW r \in Requests, CommitAppend(r)
  PROVE  /\ IInv'
         /\ \A d \in DOMAIN diary \cap DOMAIN diary' :
              /\ diary'[d].review = diary[d].review
              /\ diary[d].text \subseteq diary'[d].text
              /\ diary[d].alerts \subseteq diary'[d].alerts
              /\ diary[d].companies \subseteq diary'[d].companies
         /\ \A i \in DOMAIN txn \cap DOMAIN txn' : txn'[i].diary = txn[i].diary
  <1> DEFINE b == req[r].body
             d == req[r].target
             new == [diary[d] EXCEPT !.text = req[r].text,
                                     !.alerts = Added(b.alerts, @, r),
                                     !.companies = Added(b.companies, @, r)]
  <1>1. /\ TypeOK /\ DiariesTyped /\ req[r] \in Request
        /\ d \in DOMAIN diary /\ diary[d].text \subseteq req[r].text
        /\ \A s \in Requests \ {r} :
             req[s].pc = "locked" => req[s].target \in DOMAIN diary \ {d}
    BY DEF CommitAppend, IInv, LocksHold, TypeOK, DiariesTyped
  <1>2. diary[d] \in DiaryRow /\ d \in Nat /\ nextDiary' = nextDiary
    BY <1>1 DEF DiariesTyped, CommitAppend
  <1>3. /\ new \in DiaryRow
        /\ new.day = diary[d].day /\ new.review = diary[d].review
        /\ diary[d].text \subseteq new.text
        /\ diary[d].alerts \subseteq new.alerts
        /\ diary[d].companies \subseteq new.companies
    BY <1>1, <1>2 DEF DiaryRow, Request, Added
  <1>4. diary' = [diary EXCEPT ![d] = new]
    BY <1>1, <1>2 DEF CommitAppend
  <1>5. /\ DOMAIN diary' = DOMAIN diary
        /\ diary'[d] = new
        /\ \A e \in DOMAIN diary \ {d} : diary'[e] = diary[e]
    BY <1>1, <1>4 DEF DiariesTyped
  <1>6. DiariesTyped'
    BY <1>1, <1>2, <1>3, <1>4 DEF DiariesTyped
  <1>7. /\ TxnsTyped'
        /\ \A i \in DOMAIN txn' :
             \/ i \in DOMAIN txn /\ txn'[i] = txn[i]
             \/ txn'[i].diary = d /\ i \notin DOMAIN txn
    <2>1. /\ AsNew(b.rows) \in Rows
          /\ \A k \in DOMAIN AsNew(b.rows) : AsNew(b.rows)[k].id = 0
      BY <1>1, BodyRows DEF Request
    <2>2. WriteRows(DOMAIN txn, d, AsNew(b.rows))
      BY DEF CommitAppend
    <2> HIDE DEF b, d
    <2> QED
      BY <1>1, <1>2, <2>1, <2>2, NewRowsWritten DEF TxnsTyped
  <1>8. OneDiaryPerDay'
    <2>1. \A e \in DOMAIN diary : diary'[e].day = diary[e].day
      BY <1>3, <1>5
    <2> QED
      BY <1>5, <2>1 DEF IInv, OneDiaryPerDay
  <1>9. RowsHaveDiary'
    BY <1>1, <1>5, <1>7 DEF IInv, RowsHaveDiary
  <1>10. IInv'
    <2>1. Answer(r, "done")
      BY DEF CommitAppend
    <2> QED
      BY <1>1, <1>5, <1>6, <1>7, <1>8, <1>9, <2>1, CommitKeeps
  <1> QED
    BY <1>3, <1>5, <1>7, <1>10

LEMMA CommitUpdateKeeps ==
  ASSUME IInv, NEW r \in Requests, CommitUpdate(r)
  PROVE  /\ IInv'
         /\ \A d \in DOMAIN diary \cap DOMAIN diary' :
              /\ diary[d].review = "REVIEWED" => diary'[d].review = "REVIEWED"
              /\ \/ diary'[d] = diary[d]
                 \/ req[r].op = "update" /\ req[r].target = d /\ req'[r].pc = "done"
         /\ \A i \in DOMAIN txn \cap DOMAIN txn' : txn'[i].diary = txn[i].diary
  <1> DEFINE b == req[r].body
             d == req[r].target
             new == [day |-> IF b.day = NoDay THEN diary[d].day ELSE b.day,
                     text |-> {r},
                     review |-> ReviewWritten(req[r]),
                     alerts |-> Replaced(b.alerts, diary[d].alerts, r),
                     companies |-> Replaced(b.companies, diary[d].companies, r)]
  <1>1. CASE Refuse(r)
    BY <1>1, RefuseKeeps DEF Refuse, tables
  <1>2. CASE ~Refuse(r)
    <2>1. /\ req[r].op = "update" /\ ~Locked(d) /\ ~UpdateThrows(req[r])
          /\ diary' = [diary EXCEPT ![d] = new]
          /\ IF b.hasRows THEN WriteRows(DOMAIN txn \ RowsOf(d), d, b.rows)
                          ELSE UNCHANGED <<txn, nextTxn>>
          /\ Answer(r, "done")
          /\ nextDiary' = nextDiary
      BY <1>2 DEF CommitUpdate
    <2>2. /\ TypeOK /\ DiariesTyped /\ TxnsTyped /\ b \in UpdateBodies
          /\ d \in DOMAIN diary /\ d \in Nat /\ diary[d] \in DiaryRow
      BY <2>1 DEF IInv, TypeOK, DiariesTyped, TxnsTyped, BodiesFit, UpdateThrows
    <2>3. /\ b \in Body
          /\ b.day # NoDay => OnDay(b.day) \ {d} = {}
          /\ diary[d].review = "REVIEWED" => new.review = "REVIEWED"
          /\ b.hasRows => \A k \in DOMAIN b.rows : b.rows[k].id \in {0} \cup RowsOf(d)
      BY <2>1, <2>2, DiaryAssumption
         DEF UpdateThrows, DateTaken, Occupied, ReopensReview, RowMissing
    <2>4. new \in DiaryRow
      <3>1. ReviewWritten(req[r]) \in {"NONE", "PENDING", "REVIEWED"}
        BY <2>2 DEF ReviewWritten, DiaryRow
      <3>2. /\ Replaced(b.alerts, diary[d].alerts, r) \in SUBSET Requests
            /\ Replaced(b.companies, diary[d].companies, r) \in SUBSET Requests
        BY <2>2 DEF Replaced, DiaryRow
      <3>3. (IF b.day = NoDay THEN diary[d].day ELSE b.day) \in Days
        BY <2>2, <2>3 DEF Body, DiaryRow
      <3> QED
        BY <3>1, <3>2, <3>3 DEF DiaryRow
    <2>5. /\ DOMAIN diary' = DOMAIN diary
          /\ diary'[d] = new
          /\ \A e \in DOMAIN diary \ {d} : diary'[e] = diary[e]
      BY <2>1, <2>2 DEF DiariesTyped
    <2>6. DiariesTyped'
      BY <2>1, <2>2, <2>4 DEF DiariesTyped
    <2>7. /\ TxnsTyped'
          /\ \A i \in DOMAIN txn' :
               \/ i \in DOMAIN txn /\ txn'[i] = txn[i]
               \/ txn'[i].diary = d /\ (i \in DOMAIN txn => i \in RowsOf(d))
      <3>1. CASE b.hasRows
        <4> DEFINE kept == DOMAIN txn \ RowsOf(d)
        <4>1. kept \subseteq DOMAIN txn /\ RowsOf(d) \subseteq DOMAIN txn
          BY DEF RowsOf
        <4>2. b.rows \in Rows
          BY <2>2, BodyRows
        <4>3. WriteRows(kept, d, b.rows)
          BY <2>1, <3>1
        <4>5. /\ TypeOK /\ d \in Nat
              /\ \A k \in DOMAIN b.rows : b.rows[k].id \in {0} \cup RowsOf(d)
          BY <2>2, <2>3, <3>1
        <4> HIDE DEF kept, b, d
        <4>6. /\ nextTxn' \in Nat \ {0}
              /\ DOMAIN txn' \subseteq 1 .. (nextTxn' - 1)
              /\ txn' \in [DOMAIN txn' -> TxnRow]
              /\ \A i \in DOMAIN txn' :
                   \/ i \in kept /\ txn'[i] = txn[i]
                   \/ txn'[i].diary = d /\ (i \in DOMAIN txn => i \in RowsOf(d))
          BY <4>1, <4>2, <4>3, <4>5, RowsWritten
        <4>4. /\ TxnsTyped'
              /\ \A i \in DOMAIN txn' :
                   \/ i \in kept /\ txn'[i] = txn[i]
                   \/ txn'[i].diary = d /\ (i \in DOMAIN txn => i \in RowsOf(d))
          BY <4>6 DEF TxnsTyped
        <4> QED
          BY <4>1, <4>4
      <3>2. CASE ~b.hasRows
        BY <2>1, <2>2, <3>2 DEF TxnsTyped
      <3> QED
        BY <3>1, <3>2
    <2>8. OneDiaryPerDay'
      <3>1. \A e \in DOMAIN diary \ {d} : diary'[e].day = diary[e].day
        BY <2>5
      <3>2. \A e \in DOMAIN diary \ {d} : diary[e].day # diary'[d].day
        BY <2>2, <2>3, <2>5 DEF IInv, OneDiaryPerDay, OnDay
      <3> QED
        BY <2>5, <3>1, <3>2 DEF IInv, OneDiaryPerDay
    <2>9. RowsHaveDiary'
      BY <2>2, <2>5, <2>7 DEF IInv, RowsHaveDiary
    <2>10. IInv'
      <3>1. \A s \in Requests : req[s].pc = "locked" => req[s].target \in DOMAIN diary \ {d}
        BY <2>1 DEF IInv, LocksHold, Locked
      <3> QED
        BY <2>1, <2>5, <2>6, <2>7, <2>8, <2>9, <3>1, CommitKeeps
    <2>11. req'[r].pc = "done"
      BY <2>1, AnswerEnds
    <2>12. \A i \in DOMAIN txn \cap DOMAIN txn' : txn'[i].diary = txn[i].diary
      BY <2>7 DEF RowsOf
    <2> QED
      BY <2>1, <2>3, <2>5, <2>10, <2>11, <2>12
  <1> QED
    BY <1>1, <1>2

LEMMA CommitDeleteKeeps ==
  ASSUME IInv, NEW r \in Requests, CommitDelete(r)
  PROVE  /\ IInv'
         /\ \A d \in DOMAIN diary \cap DOMAIN diary' : diary'[d] = diary[d]
         /\ \A i \in DOMAIN txn \cap DOMAIN txn' : txn'[i].diary = txn[i].diary
  <1> DEFINE d == req[r].target
  <1>1. CASE Refuse(r)
    BY <1>1, RefuseKeeps DEF Refuse, tables
  <1>2. CASE ~Refuse(r)
    <2>1. /\ ~Locked(d)
          /\ diary' = [e \in DOMAIN diary \ {d} |-> diary[e]]
          /\ txn' = [i \in DOMAIN txn \ RowsOf(d) |-> txn[i]]
          /\ Answer(r, "done")
          /\ UNCHANGED <<nextDiary, nextTxn>>
      BY <1>2 DEF CommitDelete, Cascaded
    <2>2. DiariesTyped /\ TxnsTyped
      BY DEF IInv, TypeOK, DiariesTyped, TxnsTyped
    <2>3. /\ DOMAIN diary' = DOMAIN diary \ {d}
          /\ \A e \in DOMAIN diary' : diary'[e] = diary[e]
          /\ DOMAIN txn' = DOMAIN txn \ RowsOf(d)
          /\ \A i \in DOMAIN txn' : txn'[i] = txn[i]
      BY <2>1
    <2>4. DiariesTyped'
      BY <2>1, <2>2 DEF DiariesTyped
    <2>5. TxnsTyped'
      BY <2>1, <2>2 DEF TxnsTyped
    <2>6. OneDiaryPerDay'
      BY <2>3 DEF IInv, OneDiaryPerDay
    <2>7. RowsHaveDiary'
      BY <2>3 DEF IInv, RowsHaveDiary, RowsOf
    <2>8. \A s \in Requests : req[s].pc = "locked" => req[s].target \in DOMAIN diary \ {d}
      BY <2>1 DEF IInv, LocksHold, Locked
    <2>9. IInv'
      BY <2>1, <2>3, <2>4, <2>5, <2>6, <2>7, <2>8, CommitKeeps
    <2> QED
      BY <2>3, <2>9
  <1> QED
    BY <1>1, <1>2

LEMMA CommitReviewKeeps ==
  ASSUME IInv, NEW r \in Requests, CommitReview(r)
  PROVE  /\ IInv'
         /\ txn' = txn /\ DOMAIN diary' = DOMAIN diary
         /\ \A e \in DOMAIN diary : diary'[e] \in {diary[e], [diary[e] EXCEPT !.review = "REVIEWED"]}
  <1> DEFINE d == req[r].target
             new == [diary[d] EXCEPT !.review = "REVIEWED"]
  <1>1. CASE Refuse(r)
    BY <1>1, RefuseKeeps DEF Refuse, tables
  <1>2. CASE ~Refuse(r)
    <2>1. /\ d \in DOMAIN diary
          /\ diary' = [diary EXCEPT ![d].review = "REVIEWED"]
          /\ Answer(r, "done")
          /\ UNCHANGED <<nextDiary, txn, nextTxn>>
      BY <1>2 DEF CommitReview
    <2>2. DiariesTyped /\ TxnsTyped /\ diary[d] \in DiaryRow
      BY <2>1 DEF IInv, TypeOK, DiariesTyped, TxnsTyped
    <2>3. /\ new \in DiaryRow
          /\ new.day = diary[d].day /\ new.text = diary[d].text
      BY <2>2 DEF DiaryRow
    <2>4. /\ DOMAIN diary' = DOMAIN diary
          /\ diary'[d] = new
          /\ \A e \in DOMAIN diary \ {d} : diary'[e] = diary[e]
      BY <2>1, <2>2 DEF DiariesTyped
    <2>5. DiariesTyped' /\ TxnsTyped'
      BY <2>1, <2>2, <2>3, <2>4 DEF DiariesTyped, TxnsTyped
    <2>6. \A e \in DOMAIN diary : diary'[e].day = diary[e].day /\ diary'[e].text = diary[e].text
      BY <2>3, <2>4
    <2>7. OneDiaryPerDay' /\ RowsHaveDiary'
      BY <2>1, <2>4, <2>6 DEF IInv, OneDiaryPerDay, RowsHaveDiary
    <2>8. IInv'
      <3>1. \A s \in Requests : req[s].pc = "locked" => req[s].target \in DOMAIN diary
        BY DEF IInv, LocksHold
      <3> QED
        BY <2>1, <2>4, <2>5, <2>6, <2>7, <3>1, CommitKeeps
    <2> QED
      BY <2>1, <2>4, <2>8
  <1> QED
    BY <1>1, <1>2

-----------------------------------------------------------------------------
(* The invariant *)

LEMMA InitIInv == Init => IInv
  <1> SUFFICES ASSUME Init PROVE IInv
    OBVIOUS
  <1>1. /\ DOMAIN diary = {} /\ DOMAIN txn = {}
        /\ diary = [d \in {} |-> diary[d]] /\ txn = [i \in {} |-> txn[i]]
    BY DEF Init
  <1>2. NoRequest \in Request
    BY DEF NoRequest, Request
  <1>3. req \in [Requests -> Request] /\ \A r \in Requests : req[r] = NoRequest
    BY <1>2 DEF Init
  <1>4. \A r \in Requests : req[r].pc = "idle" /\ req[r].op = "none"
    BY <1>3 DEF NoRequest
  <1>5. TypeOK
    BY <1>1, <1>3 DEF Init, TypeOK
  <1> QED
    BY <1>1, <1>4, <1>5 DEF IInv, BodiesFit, LocksHold, OneDiaryPerDay, RowsHaveDiary

LEMMA NextIInv == IInv /\ [Next]_vars => IInv'
  <1> SUFFICES ASSUME IInv, [Next]_vars PROVE IInv'
    OBVIOUS
  <1>1. ASSUME NEW r \in Requests, NEW b \in CreateBodies, ReceiveCreate(r, b)
        PROVE  IInv'
    BY <1>1, ReceiveKeeps
  <1>2. ASSUME NEW r \in Requests, NEW b \in UpdateBodies, NEW d \in 1 .. (nextDiary - 1),
               ReceiveUpdate(r, b, d)
        PROVE  IInv'
    BY <1>2, ReceiveKeeps
  <1>3. ASSUME NEW r \in Requests, NEW d \in 1 .. (nextDiary - 1),
               ReceiveDelete(r, d) \/ ReceiveReview(r, d)
        PROVE  IInv'
    BY <1>3, ReceiveKeeps
  <1>4. ASSUME NEW r \in Requests, Validate(r) \/ LockAppend(r)
        PROVE  IInv'
    BY <1>4, ValidateKeeps, LockAppendKeeps
  <1>5. ASSUME NEW r \in Requests, CommitCreate(r) \/ CommitAppend(r) \/ CommitUpdate(r)
        PROVE  IInv'
    BY <1>5, CommitCreateKeeps, CommitAppendKeeps, CommitUpdateKeeps
  <1>6. ASSUME NEW r \in Requests, CommitDelete(r) \/ CommitReview(r)
        PROVE  IInv'
    BY <1>6, CommitDeleteKeeps, CommitReviewKeeps
  <1>7. ASSUME NEW r \in Requests, Abort(r)
        PROVE  IInv'
    BY <1>7, RefuseKeeps DEF Abort
  <1>8. CASE UNCHANGED vars
    BY <1>8 DEF vars, IInv, TypeOK, BodiesFit, LocksHold, OneDiaryPerDay, RowsHaveDiary
  <1> QED
    BY <1>1, <1>2, <1>3, <1>4, <1>5, <1>6, <1>7, <1>8 DEF Next, AllAnswered

\* The strengthening: what the locks secure and what the requests hold.
THEOREM DiaryInvariant == Spec => []IInv
  BY InitIInv, NextIInv, PTL DEF Spec

\* The tables and requests keep their types: no id is given twice, and no
\* row is stored that the columns of diary-write.ts cannot hold.
THEOREM DiaryTypes == Spec => []TypeOK
  <1>1. IInv => TypeOK
    BY DEF IInv
  <1> QED
    BY <1>1, DiaryInvariant, PTL

\* A user has one diary per date, whatever creates and moves are in flight.
THEOREM DiaryPerDay == Spec => []OneDiaryPerDay
  <1>1. IInv => OneDiaryPerDay
    BY DEF IInv
  <1> QED
    BY <1>1, DiaryInvariant, PTL

\* No transaction row outlives its diary, however late an append commits.
THEOREM RowsBelong == Spec => []RowsHaveDiary
  <1>1. IInv => RowsHaveDiary
    BY DEF IInv
  <1> QED
    BY <1>1, DiaryInvariant, PTL

-----------------------------------------------------------------------------
(* What no step does *)

\* Only commits change the tables.
LEMMA StepsOfTables ==
  ASSUME IInv, [Next]_vars
  PROVE  \/ UNCHANGED tables
         \/ \E r \in Requests : \/ CommitCreate(r) \/ CommitAppend(r) \/ CommitUpdate(r)
                                \/ CommitDelete(r) \/ CommitReview(r)
  <1>1. ASSUME NEW r \in Requests, NEW b \in CreateBodies, ReceiveCreate(r, b)
        PROVE  UNCHANGED tables
    BY <1>1 DEF ReceiveCreate, Admit, Refuse
  <1>2. ASSUME NEW r \in Requests, NEW b \in UpdateBodies, NEW d \in 1 .. (nextDiary - 1),
               ReceiveUpdate(r, b, d)
        PROVE  UNCHANGED tables
    BY <1>2 DEF ReceiveUpdate, Admit, Refuse
  <1>3. ASSUME NEW r \in Requests, NEW d \in 1 .. (nextDiary - 1),
               ReceiveDelete(r, d) \/ ReceiveReview(r, d)
        PROVE  UNCHANGED tables
    BY <1>3 DEF ReceiveDelete, ReceiveReview, Admit, Refuse
  <1>4. ASSUME NEW r \in Requests, Validate(r) \/ LockAppend(r) \/ Abort(r)
        PROVE  UNCHANGED tables
    BY <1>4 DEF Validate, LockAppend, Abort, Refuse
  <1>5. CASE UNCHANGED vars
    BY <1>5 DEF vars, tables
  <1> QED
    BY <1>1, <1>2, <1>3, <1>4, <1>5 DEF Next, AllAnswered

\* A transaction row keeps its diary for life, whatever ids a body names.
THEOREM RowsStay == Spec => RowsStayPut
  <1> DEFINE Stay == \A i \in DOMAIN txn \cap DOMAIN txn' : txn'[i].diary = txn[i].diary
  <1>1. ASSUME IInv, [Next]_vars PROVE Stay
    <2>1. CASE UNCHANGED tables
      BY <2>1 DEF tables
    <2>2. ASSUME NEW r \in Requests,
                 \/ CommitCreate(r) \/ CommitAppend(r) \/ CommitUpdate(r)
                 \/ CommitDelete(r) \/ CommitReview(r)
          PROVE  Stay
      BY <1>1, <2>2, CommitCreateKeeps, CommitAppendKeeps, CommitUpdateKeeps,
         CommitDeleteKeeps, CommitReviewKeeps
    <2> QED
      BY <1>1, <2>1, <2>2, StepsOfTables
  <1>2. IInv /\ [Next]_vars => [Stay]_vars
    BY <1>1
  <1> QED
    BY <1>2, DiaryInvariant, PTL DEF Spec, RowsStayPut

\* A completed review is never undone by an edit that read the diary before.
THEOREM ReviewStays == Spec => ReviewKept
  <1> DEFINE Kept == \A d \in DOMAIN diary \cap DOMAIN diary' :
                       diary[d].review = "REVIEWED" => diary'[d].review = "REVIEWED"
  <1>1. ASSUME IInv, [Next]_vars PROVE Kept
    <2>1. CASE UNCHANGED tables
      BY <2>1 DEF tables
    <2>2. ASSUME NEW r \in Requests,
                 CommitCreate(r) \/ CommitAppend(r) \/ CommitUpdate(r) \/ CommitDelete(r)
          PROVE  Kept
      BY <1>1, <2>2, CommitCreateKeeps, CommitAppendKeeps, CommitUpdateKeeps,
         CommitDeleteKeeps
    <2>3. ASSUME NEW r \in Requests, CommitReview(r)
          PROVE  Kept
      <3>1. \A d \in DOMAIN diary : diary[d] \in DiaryRow
        BY <1>1 DEF IInv, TypeOK
      <3>2. \A d \in DOMAIN diary :
              diary'[d] \in {diary[d], [diary[d] EXCEPT !.review = "REVIEWED"]}
        BY <1>1, <2>3, CommitReviewKeeps
      <3> QED
        BY <3>1, <3>2 DEF DiaryRow
    <2> QED
      BY <1>1, <2>1, <2>2, <2>3, StepsOfTables
  <1>2. IInv /\ [Next]_vars => [Kept]_vars
    BY <1>1
  <1> QED
    BY <1>2, DiaryInvariant, PTL DEF Spec, ReviewKept

\* Concurrent appends lose none of each other's text, alerts and companies:
\* only a full edit of the diary takes any away.
THEOREM AppendsAdd == Spec => AppendsOnlyAdd
  <1> DEFINE Adds == \A d \in DOMAIN diary \cap DOMAIN diary' :
                       \/ /\ diary[d].text \subseteq diary'[d].text
                          /\ diary[d].alerts \subseteq diary'[d].alerts
                          /\ diary[d].companies \subseteq diary'[d].companies
                       \/ \E r \in Requests : /\ req[r].op = "update" /\ req[r].target = d
                                              /\ req'[r].pc = "done"
  <1>1. ASSUME IInv, [Next]_vars PROVE Adds
    <2>1. CASE UNCHANGED tables
      BY <2>1 DEF tables
    <2>2. ASSUME NEW r \in Requests, CommitCreate(r) \/ CommitAppend(r) \/ CommitDelete(r)
          PROVE  Adds
      BY <1>1, <2>2, CommitCreateKeeps, CommitAppendKeeps, CommitDeleteKeeps
    <2>3. ASSUME NEW r \in Requests, CommitUpdate(r)
          PROVE  Adds
      BY <1>1, <2>3, CommitUpdateKeeps
    <2>4. ASSUME NEW r \in Requests, CommitReview(r)
          PROVE  Adds
      <3>1. \A d \in DOMAIN diary : diary[d] \in DiaryRow
        BY <1>1 DEF IInv, TypeOK
      <3>2. \A d \in DOMAIN diary :
              diary'[d] \in {diary[d], [diary[d] EXCEPT !.review = "REVIEWED"]}
        BY <1>1, <2>4, CommitReviewKeeps
      <3> QED
        BY <3>1, <3>2 DEF DiaryRow
    <2> QED
      BY <1>1, <2>1, <2>2, <2>3, <2>4, StepsOfTables
  <1>2. IInv /\ [Next]_vars => [Adds]_vars
    BY <1>1
  <1> QED
    BY <1>2, DiaryInvariant, PTL DEF Spec, AppendsOnlyAdd

-----------------------------------------------------------------------------
(* The ledger that was validated, and the one that is stored *)

\* To put rows in order twice changes nothing.
LEMMA OrderedOnce ==
  ASSUME NEW rows, AreRows(rows)
  PROVE  /\ AreRows(InTradeOrder(rows))
         /\ calculateLedgerHoldings(InTradeOrder(rows)) = calculateLedgerHoldings(rows)
  <1> DEFINE n == Count(rows)
             f == TradeOrder(rows)
             q == InTradeOrder(rows)
  <1>1. /\ n \in Nat /\ f \in [1..n -> DOMAIN rows]
        /\ \A k \in 1..n : Place(rows, f[k]) = k - 1
        /\ \A i \in DOMAIN rows : Place(rows, i) + 1 \in 1..n /\ f[Place(rows, i) + 1] = i
        /\ \A j, k \in 1..n : Before(rows, f[j], f[k]) <=> j < k
    BY OrderIs
  <1>2. /\ DOMAIN q = 1..n
        /\ \A k \in 1..n : q[k] = rows[f[k]] /\ IsRow(q[k])
    BY LedgerReplays
  <1>3. AreRows(q)
    <2>1. 1 \in Int /\ n \in Int /\ 1..n \subseteq Nat
      BY <1>1
    <2>2. IsFiniteSet(1..n)
      BY <2>1, FS_Interval
    <2> QED
      BY <1>2, <2>1, <2>2 DEF AreRows
  <1> HIDE DEF q, n, f
  <1>4. f \in Bijection(DOMAIN q, DOMAIN rows)
    <2>1. \A j, k \in 1..n : f[j] = f[k] => j = k
      <3>1. \A j, k \in 1..n : f[j] = f[k] => j - 1 = k - 1
        BY <1>1
      <3> QED
        BY <1>1, <3>1
    <2>2. \A i \in DOMAIN rows : \E k \in 1..n : f[k] = i
      BY <1>1
    <2> QED
      BY <1>1, <1>2, <2>1, <2>2 DEF Bijection, Injection, Surjection, IsInjective
  <1>5. \A k \in DOMAIN q : Alike(q[k], rows[f[k]])
    BY <1>2 DEF Alike
  <1>6. ASSUME NEW j \in DOMAIN q, NEW k \in DOMAIN q, Before(q, j, k)
        PROVE  Before(rows, f[j], f[k])
    <2>1. /\ j \in 1..n /\ k \in 1..n /\ j \in Nat /\ k \in Nat
          /\ q[j].date = rows[f[j]].date /\ q[k].date = rows[f[k]].date
          /\ q[j].date \in Nat /\ q[k].date \in Nat
      BY <1>1, <1>2 DEF IsRow
    <2>2. CASE q[j].date = q[k].date /\ j < k
      BY <1>1, <2>1, <2>2
    <2>3. CASE q[j].date < q[k].date
      BY <2>1, <2>3 DEF Before
    <2> QED
      BY <1>6, <2>2, <2>3 DEF Before
  <1>7. calculateLedgerHoldings(q) = calculateLedgerHoldings(rows)
    BY <1>3, <1>4, <1>5, <1>6, SameLedger
  <1> QED
    BY <1>3, <1>7 DEF q

\* Two ledgers whose rows are the same but for their numbers, the second one
\* without two rows of one date, are both accepted or none.
LEMMA SameWithoutTies ==
  ASSUME NEW r, NEW t, AreRows(r), AreRows(t), NEW f \in Bijection(DOMAIN r, DOMAIN t),
         \A i \in DOMAIN r : Alike(r[i], t[f[i]]) /\ r[i].date = t[f[i]].date,
         \A i, j \in DOMAIN t : t[i].date = t[j].date => i = j,
         LedgerOK(r)
  PROVE  LedgerOK(InTradeOrder(t))
  <1>1. /\ f \in [DOMAIN r -> DOMAIN t]
        /\ \A i, j \in DOMAIN r : f[i] = f[j] => i = j
        /\ \A k \in DOMAIN t : \E i \in DOMAIN r : f[i] = k
    BY DEF Bijection, Injection, Surjection, IsInjective
  <1>2. ASSUME NEW i \in DOMAIN r, NEW j \in DOMAIN r, Before(r, i, j)
        PROVE  Before(t, f[i], f[j])
    <2>1. f[i] \in DOMAIN t /\ f[j] \in DOMAIN t /\ i \in Nat /\ j \in Nat
      BY <1>1 DEF AreRows
    <2>2. CASE r[i].date < r[j].date
      BY <2>2 DEF Before
    <2>3. CASE r[i].date = r[j].date /\ i < j
      <3>1. f[i] = f[j]
        BY <2>1, <2>3
      <3>2. i = j
        BY <1>1, <3>1
      <3> QED
        BY <2>1, <2>3, <3>2
    <2> QED
      BY <1>2, <2>2, <2>3 DEF Before
  <1>3. calculateLedgerHoldings(r) = calculateLedgerHoldings(t)
    BY <1>2, SameLedger
  <1>4. LedgerAccepts(InTradeOrder(t))
    BY <1>3, OrderedOnce DEF LedgerOK, LedgerAccepts
  <1>5. ValuesOK(InTradeOrder(t))
    <2>1. \A k \in DOMAIN t : t[k].qty > 0
      BY <1>1 DEF LedgerOK, ValuesOK, Alike
    <2>2. /\ DOMAIN InTradeOrder(t) = 1..Count(t)
          /\ \A k \in 1..Count(t) : InTradeOrder(t)[k] = t[TradeOrder(t)[k]]
      BY LedgerReplays
    <2>3. TradeOrder(t) \in [1..Count(t) -> DOMAIN t]
      BY OrderIs
    <2> QED
      BY <2>1, <2>2, <2>3 DEF ValuesOK
  <1> QED
    BY <1>4, <1>5 DEF LedgerOK

\* Rows that name no id twice are stored under ids of their own.
LEMMA RowIdsDiffer ==
  ASSUME TypeOK, NEW rows \in Rows, NEW own, own \subseteq DOMAIN txn,
         \A k \in DOMAIN rows : rows[k].id \in {0} \cup own,
         \A j, k \in DOMAIN rows : rows[j].id = rows[k].id /\ rows[k].id # 0 => j = k,
         NEW j \in DOMAIN rows, NEW k \in DOMAIN rows, RowId(rows, j) = RowId(rows, k)
  PROVE  j = k
  <1>1. /\ nextTxn \in Nat \ {0} /\ DOMAIN txn \subseteq 1 .. (nextTxn - 1)
        /\ j \in Nat /\ k \in Nat /\ Created(rows) \subseteq Nat
        /\ Cardinality(Created(rows)) \in Nat
    <2>1. DOMAIN rows = 1 .. Len(rows) /\ Len(rows) \in Nat
      BY DEF Rows
    <2>2. j \in Nat /\ k \in Nat /\ Created(rows) \subseteq Nat
      BY <2>1 DEF Created
    <2>3. Cardinality(Created(rows)) \in Nat
      BY CreatedCounts
    <2> QED
      BY <2>2, <2>3 DEF TypeOK
  <1>2. CASE rows[j].id # 0 /\ rows[k].id # 0
    BY <1>2, <1>1, RowIdRange
  <1>3. \A i \in DOMAIN rows : /\ rows[i].id = 0 => RowId(rows, i) \notin DOMAIN txn
                               /\ rows[i].id # 0 => RowId(rows, i) \in DOMAIN txn
    BY <1>1, RowIdRange
  <1>4. CASE rows[j].id = 0 /\ rows[k].id = 0
    <2> DEFINE C == Created(rows)
               B(i) == {e \in C : e < i}
    <2>1. j \in C /\ k \in C
      BY <1>4 DEF Created
    <2>2. /\ Cardinality(B(j)) \in Nat /\ Cardinality(B(k)) \in Nat
          /\ RowId(rows, j) = nextTxn + Cardinality(B(j))
          /\ RowId(rows, k) = nextTxn + Cardinality(B(k))
      BY <1>4, CreatedCounts DEF RowId
    <2>3. Cardinality(B(j)) = Cardinality(B(k))
      <3>1. ASSUME NEW a \in Nat, NEW b \in Nat, nextTxn + a = nextTxn + b
            PROVE  a = b
        BY <1>1, <3>1
      <3>2. nextTxn + Cardinality(B(j)) = nextTxn + Cardinality(B(k))
        BY <2>2
      <3> HIDE DEF B
      <3> QED
        BY <2>2, <3>1, <3>2
    <2>4. IsFiniteSet(B(j)) /\ IsFiniteSet(B(k))
      <3>1. DOMAIN rows = 1 .. Len(rows) /\ Len(rows) \in Int /\ 1 \in Int
        BY DEF Rows
      <3>2. IsFiniteSet(DOMAIN rows)
        BY <3>1, FS_Interval
      <3>3. B(j) \subseteq DOMAIN rows /\ B(k) \subseteq DOMAIN rows
        BY DEF Created
      <3> QED
        BY <3>2, <3>3, FS_Subset
    <2>5. CASE j < k
      <3>1. B(j) \subseteq B(k) /\ j \in B(k) /\ j \notin B(j)
        BY <1>1, <2>1, <2>5
      <3>2. B(j) = B(k)
        BY <2>3, <2>4, <3>1, FS_Subset
      <3> QED
        BY <3>1, <3>2
    <2>6. CASE k < j
      <3>1. B(k) \subseteq B(j) /\ k \in B(j) /\ k \notin B(k)
        BY <1>1, <2>1, <2>6
      <3>2. B(k) = B(j)
        BY <2>3, <2>4, <3>1, FS_Subset
      <3> QED
        BY <3>1, <3>2
    <2> QED
      BY <1>1, <2>5, <2>6
  <1> QED
    BY <1>2, <1>3, <1>4

\* Of two lists, the rows of the second come after those of the first.
LEMMA Joined ==
  ASSUME NEW S, NEW p \in Seq(S), NEW q \in Seq(S)
  PROVE  /\ DOMAIN (p \o q) = 1..(Len(p) + Len(q))
         /\ \A k \in 1..Len(p) : (p \o q)[k] = p[k]
         /\ \A k \in 1..Len(q) : (p \o q)[Len(p) + k] = q[k]
  <1>1. p \o q \in Seq(S) /\ Len(p \o q) = Len(p) + Len(q)
    OBVIOUS
  <1>2. \A k \in 1..Len(p) : (p \o q)[k] = p[k]
    OBVIOUS
  <1>3. \A k \in 1..Len(q) : (p \o q)[Len(p) + k] = q[k]
    OBVIOUS
  <1> QED
    BY <1>1, <1>2, <1>3

\* What a write leaves in the table is the ledger that was projected for it.
LEMMA StoredAsProjected ==
  ASSUME TypeOK, NEW rows \in Rows, NEW given \in Rows, Len(given) = Len(rows),
         \A k \in DOMAIN rows :
           /\ Alike(given[k], rows[k]) /\ given[k].date = rows[k].date
           /\ Stored(rows[k].qty) = rows[k].qty,
         NEW kept, kept \subseteq DOMAIN txn,
         NEW own, own \subseteq DOMAIN txn, own \cap kept = {},
         \A k \in DOMAIN rows : rows[k].id \in {0} \cup own,
         \A j, k \in DOMAIN rows : rows[j].id = rows[k].id /\ rows[k].id # 0 => j = k,
         NEW d \in Nat, WriteRows(kept, d, rows),
         TradeDatesDiffer',
         NEW K, K = [i \in kept |-> txn[i]],
         LedgerOK(InTradeOrder(K) \o given)
  PROVE  LedgerOK(InTradeOrder(txn'))
  <1> DEFINE t == txn'
             n == Len(rows)
             m == Count(K)
             q == InTradeOrder(K)
             P == q \o given
             f == [k \in 1..(m + n) |-> IF k <= m THEN TradeOrder(K)[k] ELSE RowId(rows, k - m)]
  <1>1. /\ nextTxn \in Nat \ {0} /\ DOMAIN txn \subseteq 1 .. (nextTxn - 1)
        /\ txn \in [DOMAIN txn -> TxnRow]
    BY DEF TypeOK
  <1>2. /\ n \in Nat /\ DOMAIN rows = 1..n /\ DOMAIN given = 1..n
        /\ \A k \in 1..n : rows[k] \in Row /\ given[k] \in Row
    BY DEF Rows
  <1>3. \A e \in TxnRow \cup Row : IsRow(e)
    BY DEF TxnRow, Row, IsRow
  <1>4. /\ DOMAIN t = kept \cup WrittenIds(rows)
        /\ \A i \in kept \cup WrittenIds(rows) :
             t[i] = IF i \in WrittenIds(rows) THEN Written(d, rows, i) ELSE txn[i]
    BY DEF WriteRows
  <1>5. \A k \in 1..n : RowId(rows, k) \in WrittenIds(rows) /\ RowId(rows, k) \notin kept
    <2> TAKE k \in 1..n
    <2>1. Cardinality(Created(rows)) \in Nat
      BY CreatedCounts
    <2> QED
      BY <1>1, <1>2, <2>1, RowIdRange DEF WrittenIds
  <1>6. \A j, k \in 1..n : RowId(rows, j) = RowId(rows, k) => j = k
    BY <1>2, RowIdsDiffer
  <1>7. \A k \in 1..n : LastNaming(rows, RowId(rows, k)) = k
    BY <1>2, <1>5, <1>6, LastIs
  <1>8. \A k \in 1..n : /\ Alike(given[k], t[RowId(rows, k)])
                        /\ given[k].date = t[RowId(rows, k)].date
                        /\ t[RowId(rows, k)] \in Row \cup TxnRow
    <2> TAKE k \in 1..n
    <2>1. t[RowId(rows, k)] = Written(d, rows, RowId(rows, k))
      BY <1>4, <1>5
    <2>2. Written(d, rows, RowId(rows, k)) =
            [diary |-> d, symbol |-> rows[k].symbol, type |-> rows[k].type,
             qty |-> rows[k].qty, date |-> rows[k].date]
      BY <1>2, <1>7 DEF Written
    <2>3. rows[k] \in Row /\ Alike(given[k], rows[k]) /\ given[k].date = rows[k].date
      BY <1>2
    <2>4. Written(d, rows, RowId(rows, k)) \in TxnRow
      BY <2>2, <2>3 DEF Row, TxnRow
    <2> QED
      BY <2>1, <2>2, <2>3, <2>4 DEF Alike
  <1>9. AreRows(K) /\ DOMAIN K = kept /\ \A i \in kept : K[i] = txn[i] /\ K[i] = t[i] /\ IsRow(t[i])
    <2>1. IsFiniteSet(DOMAIN txn)
      <3>1. 1 \in Int /\ nextTxn - 1 \in Int
        BY <1>1
      <3>2. IsFiniteSet(1 .. (nextTxn - 1))
        BY <3>1, FS_Interval
      <3> QED
        BY <1>1, <3>2, FS_Subset
    <2>2. IsFiniteSet(kept) /\ kept \subseteq Nat
      BY <1>1, <2>1, FS_Subset
    <2>3. DOMAIN K = kept /\ \A i \in kept : K[i] = txn[i] /\ txn[i] \in TxnRow
      BY <1>1
    <2>4. \A i \in kept : i \notin WrittenIds(rows)
      BY <1>2, <1>5 DEF WrittenIds
    <2> QED
      BY <1>3, <1>4, <2>2, <2>3, <2>4 DEF AreRows
  <1>10. /\ m \in Nat /\ TradeOrder(K) \in [1..m -> kept]
         /\ \A k \in 1..m : Place(K, TradeOrder(K)[k]) = k - 1
         /\ \A i \in kept : Place(K, i) + 1 \in 1..m /\ TradeOrder(K)[Place(K, i) + 1] = i
    <2>1. AreRows(K) /\ DOMAIN K = kept
      BY <1>9
    <2> QED
      BY <2>1, OrderIs
  <1>11. /\ DOMAIN q = 1..m
         /\ \A k \in 1..m : q[k] = t[TradeOrder(K)[k]] /\ IsRow(q[k])
    BY <1>9, <1>10, LedgerReplays
  <1>12. /\ DOMAIN P = 1..(m + n)
         /\ \A k \in 1..m : P[k] = q[k]
         /\ \A k \in 1..n : P[m + k] = given[k]
    <2> DEFINE S == {q[k] : k \in 1..m} \cup Row
    <2>1. q \in [1..m -> S]
      <3>1. q = [k \in 1..m |-> q[k]]
        BY <1>11 DEF InTradeOrder
      <3> QED
        BY <3>1
    <2>3. given \in Seq(S) /\ Len(given) = n
      <3>1. Row \subseteq S /\ given \in Seq(Row)
        BY DEF Rows
      <3> HIDE DEF S
      <3>2. given \in [1..Len(given) -> S] /\ Len(given) \in Nat
        BY <3>1
      <3> QED
        BY <3>2
    <2> HIDE DEF S, q, m, n
    <2>2. q \in Seq(S) /\ Len(q) = m
      BY <1>10, <2>1
    <2>4. /\ P = q \o given /\ 1..Len(q) = 1..m /\ 1..Len(given) = 1..n
      BY <2>2, <2>3
    <2> HIDE DEF P
    <2> QED
      BY <2>2, <2>3, <2>4, Joined, SMTT(30)
  <1> HIDE DEF t, q, m, n, P
  <1>13. f \in [1..(m + n) -> DOMAIN t]
    BY <1>2, <1>4, <1>5, <1>10
  <1>14. \A j, k \in 1..(m + n) : f[j] = f[k] => j = k
    <2>1. \A j, k \in 1..m : TradeOrder(K)[j] = TradeOrder(K)[k] => j = k
      <3>1. \A j, k \in 1..m : TradeOrder(K)[j] = TradeOrder(K)[k] => j - 1 = k - 1
        BY <1>10
      <3> QED
        BY <1>10, <3>1
    <2>2. \A k \in 1..(m + n) : /\ k <= m => k \in 1..m /\ f[k] = TradeOrder(K)[k] /\ f[k] \in kept
                                /\ ~(k <= m) => k - m \in 1..n /\ f[k] = RowId(rows, k - m) /\ f[k] \notin kept
      BY <1>2, <1>5, <1>10
    <2> TAKE j, k \in 1..(m + n)
    <2> HAVE f[j] = f[k]
    <2>3. CASE j <= m /\ k <= m
      BY <2>1, <2>2, <2>3
    <2>4. CASE ~(j <= m) /\ ~(k <= m)
      <3>1. j - m = k - m
        BY <1>6, <2>2, <2>4
      <3> QED
        BY <1>2, <1>10, <3>1
    <2> QED
      BY <2>2, <2>3, <2>4
  <1>15. \A i \in DOMAIN t : \E k \in 1..(m + n) : f[k] = i
    <2> TAKE i \in DOMAIN t
    <2>1. CASE i \in kept
      <3> DEFINE k == Place(K, i) + 1
      <3>1. k \in 1..m /\ TradeOrder(K)[k] = i
        BY <1>10, <2>1
      <3>2. k \in 1..(m + n) /\ f[k] = i
        BY <1>2, <1>10, <3>1
      <3> QED
        BY <3>2
    <2>2. CASE i \in WrittenIds(rows)
      <3>1. PICK k \in 1..n : i = RowId(rows, k)
        BY <1>2, <2>2 DEF WrittenIds
      <3>2. /\ m + k \in 1..(m + n) /\ ~(m + k <= m) /\ (m + k) - m = k
        BY <1>2, <1>10
      <3>3. f[m + k] = i
        BY <3>1, <3>2
      <3> QED
        BY <3>2, <3>3
    <2> QED
      BY <1>4, <2>1, <2>2
  <1>16. \A k \in 1..(m + n) : Alike(P[k], t[f[k]]) /\ P[k].date = t[f[k]].date /\ IsRow(P[k])
    <2> TAKE k \in 1..(m + n)
    <2>1. CASE k <= m
      <3>1. k \in 1..m /\ f[k] = TradeOrder(K)[k]
        BY <1>2, <1>10, <2>1
      <3>2. P[k] = t[f[k]] /\ IsRow(P[k])
        BY <1>11, <1>12, <3>1
      <3> QED
        BY <3>2 DEF Alike
    <2>2. CASE ~(k <= m)
      <3>1. k - m \in 1..n /\ f[k] = RowId(rows, k - m) /\ m + (k - m) = k
        BY <1>2, <1>10, <2>2
      <3>2. P[k] = given[k - m]
        BY <1>12, <3>1
      <3> QED
        BY <1>2, <1>3, <1>8, <3>1, <3>2
    <2> QED
      BY <2>1, <2>2
  <1>17. AreRows(P) /\ AreRows(t)
    <2>1. 1 \in Int /\ m + n \in Int /\ 1..(m + n) \subseteq Nat
      BY <1>2, <1>10
    <2>2. IsFiniteSet(1..(m + n))
      BY <2>1, FS_Interval
    <2>3. AreRows(P)
      BY <1>12, <1>16, <2>1, <2>2 DEF AreRows
    <2>4. f \in Surjection(1..(m + n), DOMAIN t)
      BY <1>13, <1>15 DEF Surjection
    <2>5. IsFiniteSet(DOMAIN t)
      BY <2>2, <2>4, FS_Surjection
    <2>6. DOMAIN t \subseteq Nat
      <3>1. WrittenIds(rows) \subseteq Nat
        <4>1. Cardinality(Created(rows)) \in Nat
          BY CreatedCounts
        <4>2. \A k \in 1..n : RowId(rows, k) \in Nat
          BY <1>1, <1>2, <4>1, RowIdRange
        <4> QED
          BY <1>2, <4>2 DEF WrittenIds
      <3> QED
        BY <1>1, <1>4, <3>1
    <2>7. \A i \in DOMAIN t : IsRow(t[i])
      <3> TAKE i \in DOMAIN t
      <3>1. CASE i \in kept
        BY <1>9, <3>1
      <3>2. CASE i \in WrittenIds(rows)
        BY <1>2, <1>3, <1>8, <3>2 DEF WrittenIds
      <3> QED
        BY <1>4, <3>1, <3>2
    <2> QED
      BY <2>3, <2>5, <2>6, <2>7 DEF AreRows
  <1>18. f \in Bijection(DOMAIN P, DOMAIN t)
    BY <1>12, <1>13, <1>14, <1>15 DEF Bijection, Injection, Surjection, IsInjective
  <1>19. \A i, j \in DOMAIN t : t[i].date = t[j].date => i = j
    BY DEF TradeDatesDiffer, t
  <1>20. LedgerOK(P)
    BY DEF P, q
  <1> HIDE DEF f
  <1>21. LedgerOK(InTradeOrder(t))
    <2>1. \A k \in DOMAIN P : Alike(P[k], t[f[k]]) /\ P[k].date = t[f[k]].date
      BY <1>12, <1>16
    <2> QED
      BY <1>17, <1>18, <1>19, <1>20, <2>1, SameWithoutTies
  <1> QED
    BY <1>21 DEF t

\* What is asked of the bodies: quantities that the column holds as they are,
\* and no row named twice.
QuantitiesFit ==
  \A b \in CreateBodies \cup UpdateBodies : \A k \in DOMAIN b.rows :
    Stored(b.rows[k].qty) = b.rows[k].qty

RowsNamedOnce ==
  \A b \in UpdateBodies : \A j, k \in DOMAIN b.rows :
    b.rows[j].id = b.rows[k].id /\ b.rows[k].id # 0 => j = k

OneInFlight == \A r, s \in InFlight : r = s

DeletesCarryNothing == \A r \in Requests : req[r].op = "delete" => req[r].body = NoBody

\* The ledger that a request was validated with is still the one it projects.
Stands(q) ==
  q.pc \in {"validated", "locked"} /\ q.op # "review" /\ NeedsLedger(q) => LedgerOK(Projected(q))

ValidatedStands == \A r \in Requests : Stands(req[r])

LedgerInv ==
  IInv /\ OneInFlight /\ DeletesCarryNothing /\ ValidatedStands /\ LedgerValidWithoutTies

-----------------------------------------------------------------------------
(* The requests between their validation and their commit *)

\* Nothing is excluded from the rows when diary 0 is.
LEMMA NoneExcluded ==
  ASSUME NEW t, t = [i \in DOMAIN t |-> t[i]], \A i \in DOMAIN t : t[i].diary # 0
  PROVE  [i \in {j \in DOMAIN t : t[j].diary # 0} |-> t[i]] = t
  <1>1. {j \in DOMAIN t : t[j].diary # 0} = DOMAIN t
    OBVIOUS
  <1> QED
    BY <1>1

LEMMA AllRows ==
  ASSUME IInv
  PROVE  LedgerRows(0) = txn /\ Persisted(0) = InTradeOrder(txn)
  <1>1. txn = [i \in DOMAIN txn |-> txn[i]] /\ \A i \in DOMAIN txn : txn[i].diary # 0
    BY DEF IInv, TypeOK, RowsHaveDiary
  <1> QED
    BY <1>1, NoneExcluded DEF LedgerRows, Persisted

LEMMA AllRowsNext ==
  ASSUME IInv'
  PROVE  Persisted(0)' = InTradeOrder(txn')
  <1>1. txn' = [i \in DOMAIN txn' |-> txn'[i]] /\ \A i \in DOMAIN txn' : txn'[i].diary # 0
    BY DEF IInv, TypeOK, RowsHaveDiary
  <1>2. [i \in {j \in DOMAIN txn' : txn'[j].diary # 0} |-> txn'[i]] = txn'
    BY <1>1, NoneExcluded
  <1> QED
    BY <1>2 DEF LedgerRows, Persisted

\* While the rows stay, so do the ledger and what the requests project.
LEMMA QuietStep ==
  ASSUME LedgerInv, IInv', txn' = txn, NEW r \in Requests,
         \A s \in Requests \ {r} : req'[s] = req[s],
         OneInFlight',
         req'[r].op = "delete" => req'[r].body = NoBody,
         Stands(req'[r])
  PROVE  LedgerInv'
  <1>1. \A q : Stands(q)' <=> Stands(q)
    BY DEF Stands, Projected, Persisted, LedgerRows
  <1>2. LedgerValidWithoutTies'
    BY DEF LedgerInv, LedgerValidWithoutTies, TradeDatesDiffer, LedgerValid, Persisted, LedgerRows
  <1>3. DeletesCarryNothing'
    BY DEF LedgerInv, DeletesCarryNothing
  <1>4. ValidatedStands'
    BY DEF LedgerInv, ValidatedStands, Stands, Projected, Persisted, LedgerRows
  <1> QED
    BY <1>2, <1>3, <1>4 DEF LedgerInv

\* An answer ends the one request in flight.
LEMMA AnswerLeavesNone ==
  ASSUME LedgerInv, IInv', NEW r \in InFlight, NEW pc \in {"done", "failed"}, Answer(r, pc),
         LedgerValidWithoutTies'
  PROVE  LedgerInv'
  <1>1. /\ r \in Requests /\ req'[r].pc = pc /\ req'[r].op = "none"
        /\ \A s \in Requests \ {r} : req'[s] = req[s]
    BY AnswerEnds DEF LedgerInv, InFlight
  <1>2. \A s \in Requests \ {r} : req[s].pc \notin {"checked", "validated", "locked"}
    BY DEF LedgerInv, OneInFlight, InFlight
  <1>3. \A s \in Requests : req'[s].pc \notin {"checked", "validated", "locked"}
    BY <1>1, <1>2
  <1>4. OneInFlight'
    BY <1>3 DEF OneInFlight, InFlight
  <1>5. DeletesCarryNothing'
    BY <1>1 DEF LedgerInv, DeletesCarryNothing
  <1>6. ValidatedStands'
    BY <1>3 DEF ValidatedStands, Stands
  <1> QED
    BY <1>4, <1>5, <1>6 DEF LedgerInv

LEMMA SameRows ==
  ASSUME LedgerInv, txn' = txn
  PROVE  LedgerValidWithoutTies'
  BY DEF LedgerInv, LedgerValidWithoutTies, TradeDatesDiffer, LedgerValid, Persisted, LedgerRows

LEMMA RefuseLeaves ==
  ASSUME LedgerInv, NEW r \in InFlight, Refuse(r)
  PROVE  LedgerInv'
  <1>1. r \in Requests
    BY DEF InFlight
  <1>2. IInv'
    BY <1>1, RefuseKeeps DEF LedgerInv
  <1>3. txn' = txn /\ Answer(r, "failed")
    BY DEF Refuse, tables
  <1> QED
    BY <1>2, <1>3, SameRows, AnswerLeavesNone

\* When one is served at a time, the next starts when there is none.
LEMMA NoneInFlight ==
  ASSUME LedgerInv, MaxInFlight = 1, NEW r \in Requests, CanStart(r)
  PROVE  InFlight = {}
  <1> SUFFICES ASSUME NEW s \in InFlight PROVE FALSE
    OBVIOUS
  <1>1. InFlight = {s}
    BY DEF LedgerInv, OneInFlight
  <1>2. Cardinality(InFlight) = 1
    BY <1>1, FS_Singleton
  <1> QED
    BY <1>2 DEF CanStart

LEMMA AdmitStarts ==
  ASSUME LedgerInv, IInv', MaxInFlight = 1, NEW r \in Requests, CanStart(r),
         NEW op, NEW b, NEW d, NEW pc \in {"checked", "validated"},
         pc = "validated" => op = "review",
         op = "delete" => b = NoBody,
         Admit(r, op, b, d, pc)
  PROVE  LedgerInv'
  <1>1. /\ req'[r].pc = pc /\ req'[r].op = op /\ req'[r].body = b
        /\ \A s \in Requests \ {r} : req'[s] = req[s]
        /\ txn' = txn
    <2>1. req \in [Requests -> Request]
      BY DEF LedgerInv, IInv, TypeOK
    <2> QED
      BY <2>1 DEF Admit, tables
  <1>2. \A s \in Requests : req[s].pc \notin {"checked", "validated", "locked"}
    BY NoneInFlight DEF InFlight
  <1>3. OneInFlight'
    BY <1>1, <1>2 DEF OneInFlight, InFlight
  <1>4. Stands(req'[r])
    BY <1>1 DEF Stands
  <1> QED
    BY <1>1, <1>3, <1>4, QuietStep

LEMMA RefuseStarts ==
  ASSUME LedgerInv, MaxInFlight = 1, NEW r \in Requests, CanStart(r), Refuse(r)
  PROVE  LedgerInv'
  <1>1. IInv'
    BY RefuseKeeps DEF LedgerInv
  <1>2. /\ req'[r].pc = "failed" /\ req'[r].op = "none"
        /\ \A s \in Requests \ {r} : req'[s] = req[s]
        /\ txn' = txn
    BY AnswerEnds DEF Refuse, tables, LedgerInv
  <1>3. \A s \in Requests : req[s].pc \notin {"checked", "validated", "locked"}
    BY NoneInFlight DEF InFlight
  <1>4. OneInFlight'
    BY <1>2, <1>3 DEF OneInFlight, InFlight
  <1>5. Stands(req'[r])
    BY <1>2 DEF Stands
  <1> QED
    BY <1>1, <1>2, <1>4, <1>5, QuietStep

LEMMA ReceiveStarts ==
  ASSUME LedgerInv, IInv', MaxInFlight = 1, NEW r \in Requests
  PROVE  /\ \A b \in CreateBodies : ReceiveCreate(r, b) => LedgerInv'
         /\ \A b \in UpdateBodies, d \in 1 .. (nextDiary - 1) : ReceiveUpdate(r, b, d) => LedgerInv'
         /\ \A d \in 1 .. (nextDiary - 1) : ReceiveDelete(r, d) \/ ReceiveReview(r, d) => LedgerInv'
  <1>1. ASSUME NEW b \in CreateBodies, ReceiveCreate(r, b) PROVE LedgerInv'
    BY <1>1, AdmitStarts, RefuseStarts DEF ReceiveCreate
  <1>2. ASSUME NEW b \in UpdateBodies, NEW d \in 1 .. (nextDiary - 1), ReceiveUpdate(r, b, d)
        PROVE  LedgerInv'
    BY <1>2, AdmitStarts, RefuseStarts DEF ReceiveUpdate
  <1>3. ASSUME NEW d \in 1 .. (nextDiary - 1), ReceiveDelete(r, d) PROVE LedgerInv'
    BY <1>3, AdmitStarts, RefuseStarts DEF ReceiveDelete
  <1>4. ASSUME NEW d \in 1 .. (nextDiary - 1), ReceiveReview(r, d) PROVE LedgerInv'
    BY <1>4, AdmitStarts, RefuseStarts DEF ReceiveReview
  <1> QED
    BY <1>1, <1>2, <1>3, <1>4

LEMMA ValidateStands ==
  ASSUME LedgerInv, IInv', NEW r \in Requests, Validate(r)
  PROVE  LedgerInv'
  <1>1. r \in InFlight
    BY DEF Validate, InFlight
  <1>2. CASE Refuse(r)
    BY <1>1, <1>2, RefuseLeaves
  <1>3. CASE ~Refuse(r)
    <2>1. /\ NeedsLedger(req[r]) => LedgerOK(Projected(req[r]))
          /\ req' = [req EXCEPT ![r].pc = "validated"] /\ txn' = txn
      BY <1>3 DEF Validate, tables
    <2>2. req \in [Requests -> Request]
      BY DEF LedgerInv, IInv, TypeOK
    <2>3. /\ req'[r] = [req[r] EXCEPT !.pc = "validated"]
          /\ \A s \in Requests \ {r} : req'[s] = req[s]
      BY <2>1, <2>2
    <2>4. /\ req'[r].op = req[r].op /\ req'[r].body = req[r].body
          /\ req'[r].target = req[r].target /\ req'[r].pc = "validated"
      BY <2>2, <2>3 DEF Request
    <2>5. OneInFlight'
      BY <1>1, <2>3 DEF LedgerInv, OneInFlight, InFlight
    <2>6. Stands(req'[r])
      BY <2>1, <2>4 DEF Stands, NeedsLedger, Projected, Excluded
    <2>7. req'[r].op = "delete" => req'[r].body = NoBody
      BY <2>4 DEF LedgerInv, DeletesCarryNothing
    <2> QED
      BY <2>1, <2>3, <2>5, <2>6, <2>7, QuietStep
  <1> QED
    BY <1>2, <1>3

LEMMA LockStands ==
  ASSUME LedgerInv, IInv', NEW r \in Requests, LockAppend(r)
  PROVE  LedgerInv'
  <1>1. r \in InFlight
    BY DEF LockAppend, InFlight
  <1>2. CASE Refuse(r)
    BY <1>1, <1>2, RefuseLeaves
  <1>3. CASE ~Refuse(r)
    <2>1. /\ req' = [req EXCEPT ![r].pc = "locked",
                                ![r].text = diary[req[r].target].text \cup {r}]
          /\ txn' = txn /\ req[r].pc = "validated"
      BY <1>3 DEF LockAppend, tables
    <2>2. req \in [Requests -> Request]
      BY DEF LedgerInv, IInv, TypeOK
    <2>3. /\ req'[r] = [req[r] EXCEPT !.pc = "locked", !.text = diary[req[r].target].text \cup {r}]
          /\ \A s \in Requests \ {r} : req'[s] = req[s]
      BY <2>1, <2>2
    <2>4. /\ req'[r].op = req[r].op /\ req'[r].body = req[r].body
          /\ req'[r].target = req[r].target /\ req'[r].pc = "locked"
      BY <2>2, <2>3 DEF Request
    <2>5. OneInFlight'
      BY <1>1, <2>3 DEF LedgerInv, OneInFlight, InFlight
    <2>6. Stands(req'[r])
      BY <2>1, <2>4 DEF Stands, NeedsLedger, Projected, Excluded, LedgerInv, ValidatedStands
    <2>7. req'[r].op = "delete" => req'[r].body = NoBody
      BY <2>4 DEF LedgerInv, DeletesCarryNothing
    <2> QED
      BY <2>1, <2>3, <2>5, <2>6, <2>7, QuietStep
  <1> QED
    BY <1>2, <1>3

\* New rows are the ones their ledger was validated with.
LEMMA NewRowsStand ==
  ASSUME LedgerInv, IInv', QuantitiesFit, NEW r \in Requests,
         req[r].op \in {"create", "append"}, req[r].pc \in {"validated", "locked"},
         NEW d \in Nat, WriteRows(DOMAIN txn, d, AsNew(req[r].body.rows))
  PROVE  LedgerValidWithoutTies'
  <1> DEFINE given == req[r].body.rows
             rows == AsNew(given)
  <1>1. /\ TypeOK /\ req[r].body \in CreateBodies
        /\ txn = [i \in DOMAIN txn |-> txn[i]]
    BY DEF LedgerInv, IInv, TypeOK, BodiesFit
  <1>2. /\ given \in Rows /\ rows \in Rows
        /\ \A k \in DOMAIN rows : rows[k].id = 0
    BY <1>1, BodyRows
  <1>3. /\ DOMAIN rows = DOMAIN given
        /\ \A k \in DOMAIN given : rows[k] = [given[k] EXCEPT !.id = 0] /\ given[k] \in Row
    BY <1>2 DEF AsNew, Rows
  <1>4. CASE given = <<>>
    <2>1. DOMAIN rows = {}
      BY <1>3, <1>4
    <2>2. WrittenIds(rows) = {}
      BY <2>1 DEF WrittenIds
    <2>3. txn' = txn
      BY <1>1, <2>2 DEF WriteRows
    <2> QED
      BY <2>3, SameRows
  <1>5. CASE given # <<>>
    <2> SUFFICES ASSUME TradeDatesDiffer' PROVE LedgerValid'
      BY DEF LedgerValidWithoutTies
    <2>1. LedgerOK(InTradeOrder(txn) \o given)
      <3>1. LedgerOK(Projected(req[r]))
        BY <1>5 DEF LedgerInv, ValidatedStands, Stands, NeedsLedger
      <3>2. Persisted(0) = InTradeOrder(txn)
        BY AllRows DEF LedgerInv
      <3>3. Projected(req[r]) = Persisted(0) \o given
        BY DEF Projected, Excluded
      <3> QED
        BY <3>1, <3>2, <3>3
    <2>2. \A k \in DOMAIN rows : /\ Alike(given[k], rows[k]) /\ given[k].date = rows[k].date
                                 /\ Stored(rows[k].qty) = rows[k].qty
      <3> TAKE k \in DOMAIN rows
      <3>1. k \in DOMAIN given /\ Stored(given[k].qty) = given[k].qty
        BY <1>1, <1>3 DEF QuantitiesFit
      <3>2. rows[k] = [given[k] EXCEPT !.id = 0] /\ given[k] \in Row
        BY <1>3, <3>1
      <3>3. /\ rows[k].symbol = given[k].symbol /\ rows[k].type = given[k].type
            /\ rows[k].qty = given[k].qty /\ rows[k].date = given[k].date
        BY <3>2 DEF Row
      <3> QED
        BY <3>1, <3>3 DEF Alike
    <2>3. Len(given) = Len(rows)
      BY <1>2, <1>3 DEF Rows
    <2>4. WriteRows(DOMAIN txn, d, rows)
      OBVIOUS
    <2> HIDE DEF given, rows
    <2>5. /\ DOMAIN txn \subseteq DOMAIN txn /\ {} \subseteq DOMAIN txn
          /\ {} \cap DOMAIN txn = {}
          /\ \A k \in DOMAIN rows : rows[k].id \in {0} \cup {}
          /\ \A j, k \in DOMAIN rows : rows[j].id = rows[k].id /\ rows[k].id # 0 => j = k
      BY <1>2
    <2>6. LedgerOK(InTradeOrder(txn'))
      BY <1>1, <1>2, <2>1, <2>2, <2>3, <2>4, <2>5, StoredAsProjected
    <2> QED
      BY <2>6, AllRowsNext DEF LedgerValid
  <1> QED
    BY <1>4, <1>5

\* The rows a PUT puts in the place of those of its diary are the ones its
\* ledger was validated with.
LEMMA EditedRowsStand ==
  ASSUME LedgerInv, IInv', QuantitiesFit, RowsNamedOnce, NEW r \in Requests,
         req[r].op = "update", req[r].pc = "validated", req[r].body.hasRows,
         ~RowMissing(req[r]),
         WriteRows(DOMAIN txn \ RowsOf(req[r].target), req[r].target, req[r].body.rows)
  PROVE  LedgerValidWithoutTies'
  <1> SUFFICES ASSUME TradeDatesDiffer' PROVE LedgerValid'
    BY DEF LedgerValidWithoutTies
  <1> DEFINE d == req[r].target
             rows == req[r].body.rows
             kept == DOMAIN txn \ RowsOf(d)
             own == RowsOf(d)
             K == LedgerRows(d)
  <1>1. /\ TypeOK /\ req[r].body \in UpdateBodies /\ d \in Nat
    BY DEF LedgerInv, IInv, TypeOK, BodiesFit, Request
  <1>2. rows \in Rows
    BY <1>1, BodyRows
  <1>3. LedgerOK(InTradeOrder(K) \o rows)
    <2>1. LedgerOK(Projected(req[r]))
      BY DEF LedgerInv, ValidatedStands, Stands, NeedsLedger
    <2>2. Projected(req[r]) = Persisted(d) \o rows
      BY DEF Projected, Excluded
    <2> QED
      BY <2>1, <2>2 DEF Persisted
  <1>4. \A k \in DOMAIN rows : /\ Alike(rows[k], rows[k]) /\ rows[k].date = rows[k].date
                               /\ Stored(rows[k].qty) = rows[k].qty
                               /\ rows[k].id \in {0} \cup own
    BY <1>1 DEF QuantitiesFit, Alike, RowMissing
  <1>5. \A j, k \in DOMAIN rows : rows[j].id = rows[k].id /\ rows[k].id # 0 => j = k
    BY <1>1 DEF RowsNamedOnce
  <1>6. /\ kept \subseteq DOMAIN txn /\ own \subseteq DOMAIN txn /\ own \cap kept = {}
        /\ kept = {j \in DOMAIN txn : txn[j].diary # d}
    BY DEF RowsOf
  <1>7. K = [i \in kept |-> txn[i]] /\ WriteRows(kept, d, rows) /\ Len(rows) = Len(rows)
    BY <1>6 DEF LedgerRows
  <1> HIDE DEF d, rows, kept, own, K
  <1>8. LedgerOK(InTradeOrder(txn'))
    BY <1>1, <1>2, <1>3, <1>4, <1>5, <1>6, <1>7, StoredAsProjected
  <1> QED
    BY <1>8, AllRowsNext DEF LedgerValid

\* A transaction that throws, or takes effect.
LEMMA CommitStands ==
  ASSUME LedgerInv, IInv', QuantitiesFit, RowsNamedOnce, NEW r \in Requests,
         \/ CommitCreate(r) \/ CommitAppend(r) \/ CommitUpdate(r)
         \/ CommitDelete(r) \/ CommitReview(r)
  PROVE  LedgerInv'
  <1>1. r \in InFlight
    BY DEF CommitCreate, CommitAppend, CommitUpdate, CommitDelete, CommitReview, InFlight
  <1>2. CASE Refuse(r)
    BY <1>1, <1>2, RefuseLeaves
  <1>3. TypeOK /\ req[r].target \in Nat /\ nextDiary \in Nat
    BY DEF LedgerInv, IInv, TypeOK, Request
  <1> SUFFICES ASSUME ~Refuse(r) PROVE Answer(r, "done") /\ LedgerValidWithoutTies'
    BY <1>1, <1>2, AnswerLeavesNone
  <1>4. CASE CommitCreate(r)
    <2>1. /\ req[r].op = "create" /\ req[r].pc = "validated" /\ Answer(r, "done")
          /\ WriteRows(DOMAIN txn, nextDiary, AsNew(req[r].body.rows))
      BY <1>4 DEF CommitCreate
    <2> QED
      BY <1>3, <2>1, NewRowsStand
  <1>5. CASE CommitAppend(r)
    <2>1. /\ req[r].pc = "locked" /\ Answer(r, "done")
          /\ WriteRows(DOMAIN txn, req[r].target, AsNew(req[r].body.rows))
      BY <1>5 DEF CommitAppend
    <2>2. req[r].op = "append"
      BY <2>1 DEF LedgerInv, IInv, LocksHold
    <2> QED
      BY <1>3, <2>1, <2>2, NewRowsStand
  <1>6. CASE CommitUpdate(r)
    <2>1. /\ req[r].op = "update" /\ req[r].pc = "validated" /\ Answer(r, "done")
          /\ ~RowMissing(req[r])
          /\ IF req[r].body.hasRows
               THEN WriteRows(DOMAIN txn \ RowsOf(req[r].target), req[r].target, req[r].body.rows)
               ELSE UNCHANGED <<txn, nextTxn>>
      BY <1>6 DEF CommitUpdate, UpdateThrows
    <2>2. CASE req[r].body.hasRows
      BY <2>1, <2>2, EditedRowsStand
    <2>3. CASE ~req[r].body.hasRows
      BY <2>1, <2>3, SameRows
    <2> QED
      BY <2>1, <2>2, <2>3
  <1>7. CASE CommitDelete(r)
    <2> DEFINE d == req[r].target
    <2>1. /\ req[r].op = "delete" /\ req[r].pc = "validated" /\ Answer(r, "done")
          /\ txn' = [i \in DOMAIN txn \ RowsOf(d) |-> txn[i]]
      BY <1>7 DEF CommitDelete, Cascaded
    <2>2. txn' = LedgerRows(d)
      <3>1. DOMAIN txn \ RowsOf(d) = {j \in DOMAIN txn : txn[j].diary # d}
        BY DEF RowsOf
      <3> QED
        BY <2>1, <3>1 DEF LedgerRows
    <2>3. LedgerOK(Persisted(d) \o <<>>)
      <3>1. req[r].body = NoBody
        BY <2>1 DEF LedgerInv, DeletesCarryNothing
      <3>2. LedgerOK(Projected(req[r]))
        BY <2>1 DEF LedgerInv, ValidatedStands, Stands, NeedsLedger
      <3>3. Projected(req[r]) = Persisted(d) \o <<>>
        BY <2>1, <3>1 DEF Projected, Excluded, NoBody
      <3> QED
        BY <3>2, <3>3
    <2>4. Persisted(d) \o <<>> = Persisted(d)
      <3>1. Persisted(d) = InTradeOrder(txn')
        BY <2>2 DEF Persisted
      <3>2. /\ Count(txn') \in Nat /\ DOMAIN InTradeOrder(txn') = 1..Count(txn')
        <4>1. AreRows(txn')
          <5>1. /\ nextTxn' \in Nat \ {0} /\ DOMAIN txn' \subseteq 1 .. (nextTxn' - 1)
                /\ txn' \in [DOMAIN txn' -> TxnRow]
            BY DEF IInv, TypeOK
          <5>2. 1 \in Int /\ nextTxn' - 1 \in Int
            BY <5>1
          <5>3. IsFiniteSet(1 .. (nextTxn' - 1))
            BY <5>2, FS_Interval
          <5>4. IsFiniteSet(DOMAIN txn')
            BY <5>1, <5>3, FS_Subset
          <5> QED
            BY <5>1, <5>4 DEF AreRows, IsRow, TxnRow
        <4> QED
          BY <4>1, LedgerReplays
      <3> DEFINE q == InTradeOrder(txn')
                 S == {q[k] : k \in 1..Count(txn')}
      <3>3. q \in [1..Count(txn') -> S]
        <4>1. q = [k \in 1..Count(txn') |-> q[k]]
          BY <3>2 DEF InTradeOrder
        <4> QED
          BY <4>1
      <3> HIDE DEF q, S
      <3>4. q \in Seq(S)
        BY <3>2, <3>3
      <3>5. q \o <<>> = q
        BY <3>4
      <3> QED
        BY <3>1, <3>5 DEF q
    <2>5. LedgerOK(InTradeOrder(txn'))
      BY <2>2, <2>3, <2>4 DEF Persisted
    <2>6. LedgerValid'
      BY <2>5, AllRowsNext DEF LedgerValid
    <2> QED
      BY <2>1, <2>6 DEF LedgerValidWithoutTies
  <1>8. CASE CommitReview(r)
    <2>1. txn' = txn /\ Answer(r, "done")
      BY <1>8 DEF CommitReview
    <2> QED
      BY <2>1, SameRows
  <1> QED
    BY <1>4, <1>5, <1>6, <1>7, <1>8

\* The ledger of an empty table is accepted.
LEMMA InitLedgerInv == Init => LedgerInv
  <1> SUFFICES ASSUME Init PROVE LedgerInv
    OBVIOUS
  <1>1. IInv
    BY InitIInv
  <1>2. DOMAIN txn = {} /\ \A r \in Requests : req[r].pc = "idle" /\ req[r].op = "none"
    BY DEF Init, NoRequest
  <1>3. AreRows(txn) /\ Count(txn) = 0
    BY <1>2, FS_EmptySet DEF AreRows, Count
  <1>4. DOMAIN InTradeOrder(txn) = {}
    BY <1>3, LedgerReplays
  <1>5. calculateLedgerHoldings(txn) = EmptyBook
    BY <1>3, LedgerReplays DEF IsReplay
  <1>6. LedgerOK(InTradeOrder(txn))
    BY <1>3, <1>4, <1>5, OrderedOnce DEF LedgerOK, ValuesOK, LedgerAccepts, EmptyBook
  <1>7. LedgerValidWithoutTies
    BY <1>1, <1>6, AllRows DEF LedgerValidWithoutTies, LedgerValid
  <1>8. OneInFlight /\ DeletesCarryNothing /\ ValidatedStands
    BY <1>2 DEF OneInFlight, InFlight, DeletesCarryNothing, ValidatedStands, Stands
  <1> QED
    BY <1>1, <1>7, <1>8 DEF LedgerInv

LEMMA NextLedgerInv ==
  ASSUME LedgerInv, [Next]_vars, MaxInFlight = 1, QuantitiesFit, RowsNamedOnce
  PROVE  LedgerInv'
  <1>1. IInv'
    BY NextIInv DEF LedgerInv
  <1>2. ASSUME NEW r \in Requests, NEW b \in CreateBodies, ReceiveCreate(r, b)
        PROVE  LedgerInv'
    BY <1>1, <1>2, ReceiveStarts
  <1>3. ASSUME NEW r \in Requests, NEW b \in UpdateBodies, NEW d \in 1 .. (nextDiary - 1),
               ReceiveUpdate(r, b, d)
        PROVE  LedgerInv'
    BY <1>1, <1>3, ReceiveStarts
  <1>4. ASSUME NEW r \in Requests, NEW d \in 1 .. (nextDiary - 1),
               ReceiveDelete(r, d) \/ ReceiveReview(r, d)
        PROVE  LedgerInv'
    BY <1>1, <1>4, ReceiveStarts
  <1>5. ASSUME NEW r \in Requests, Validate(r) \/ LockAppend(r)
        PROVE  LedgerInv'
    BY <1>1, <1>5, ValidateStands, LockStands
  <1>6. ASSUME NEW r \in Requests,
               \/ CommitCreate(r) \/ CommitAppend(r) \/ CommitUpdate(r)
               \/ CommitDelete(r) \/ CommitReview(r)
        PROVE  LedgerInv'
    BY <1>1, <1>6, CommitStands
  <1>7. ASSUME NEW r \in Requests, Abort(r) PROVE LedgerInv'
    BY <1>7, RefuseLeaves DEF Abort
  <1>8. CASE UNCHANGED vars
    BY <1>1, <1>8 DEF vars, LedgerInv, OneInFlight, InFlight, DeletesCarryNothing,
       ValidatedStands, Stands, Projected, Persisted, LedgerRows,
       LedgerValidWithoutTies, TradeDatesDiffer, LedgerValid
  <1> QED
    BY <1>2, <1>3, <1>4, <1>5, <1>6, <1>7, <1>8 DEF Next, AllAnswered

\* Served one at a time, create, append, update and delete leave a ledger that
\* sells nothing which is not held, as long as no two rows share a trade date:
\* what validateDiaryTransactions accepted is what the transaction writes.
THEOREM LedgersStayValid ==
  ASSUME MaxInFlight = 1, QuantitiesFit, RowsNamedOnce
  PROVE  Spec => []LedgerValidWithoutTies
  <1>1. LedgerInv /\ [Next]_vars => LedgerInv'
    BY NextLedgerInv
  <1>2. LedgerInv => LedgerValidWithoutTies
    BY DEF LedgerInv
  <1> QED
    BY <1>1, <1>2, InitLedgerInv, PTL DEF Spec
=============================================================================
