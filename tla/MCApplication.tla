--------------------------- MODULE MCApplication ---------------------------
(***************************************************************************)
(* The components of MCRecords and of ListsProofs on a small instance, and *)
(* two that are only checked: the rotation batch and the read side of the  *)
(* ledger.  A behaviour is one of the component that part names, or one of *)
(* the lists; what it does not use stays 0.                                *)
(***************************************************************************)
EXTENDS MCRecords, ListsProofs

\* The slots after the first n, for the further lengths.
after3 == <<s4, after4>>
after1 == <<s2, after2>>

Unused3 == s4 = 0 /\ Unused4
Unused1 == s2 = 0 /\ Unused2

Unused == s1 = 0 /\ Unused1
NoList ==
  /\ which = "none" /\ v1 = 0 /\ v2 = 0 /\ v3 = 0 /\ v4 = 0 /\ v5 = 0 /\ v6 = 0 /\ v7 = 0
  /\ Empty7

EnteredRows ==
  [symbol : {"a"}, type : {"BUY", "SELL"}, qty : {2, 3}, price : {1, 4}, date : {1, 2}]
    \cup [symbol : {"b"}, type : {"BUY", "SELL"}, qty : {3}, price : {1}, date : {1}]

Rotation == INSTANCE RotationBatch WITH Symbols <- {"a", "b"}, LastDate <- 3,
  Threshold <- 2, Offset <- 1, Runs <- {1}, bar <- s1, snapshot <- s2, batch <- s3
Reads == INSTANCE Positions WITH Symbols <- {"a", "b"}, Epsilon <- 1,
  Rows <- EnteredRows, MaxRows <- 3, txns <- s1

-----------------------------------------------------------------------------
Init ==
  \/ NoList /\ RecordsInit
  \/ NoList /\ part = "rotation" /\ Rotation!Init /\ Unused3
  \/ NoList /\ part = "positions" /\ Reads!Init /\ Unused1
  \/ part = "lists" /\ Unused /\ ListsInit

Next ==
  \/ RecordsNext /\ UNCHANGED listVars
  \/ part = "rotation" /\ Rotation!Next /\ UNCHANGED <<part, after3, listVars>>
  \/ part = "positions" /\ Reads!Next /\ UNCHANGED <<part, after1, listVars>>
  \/ part = "lists" /\ ListsNext /\ UNCHANGED all

Spec == Init /\ [][Next]_<<all, listVars>>

-----------------------------------------------------------------------------
TypeOK ==
  /\ part = "pusher" => Pusher!TypeOK
  /\ part = "price alerts" => PriceAlert!TypeOK
  /\ part = "rotation" => Rotation!TypeOK
  /\ part = "editor" => Editor!TypeOK
  /\ part = "note" => Note!TypeOK
  /\ part = "post draft" => Draft!TypeOK
  /\ which = "diary lists" => DiaryList!TypeOK
  /\ which = "articles" => ArticleList!TypeOK
  /\ part = "positions" => Reads!TypeOK
  /\ part = "partners" => Partner!TypeOK
  /\ part = "posts" => Post!TypeOK
  /\ part = "thesis" => Thesis!TypeOK
  /\ part = "reviews" => Review!TypeOK
  /\ which = "activity" => Feed!TypeOK
  /\ part = "stocks" => Stock!TypeOK
  /\ part = "trade plans" => Plan!TypeOK
  /\ part = "calendar" => Month!TypeOK
  /\ which = "reconciliation" => Merge!TypeOK
  /\ part = "days" => UserDay!TypeOK
  /\ part = "disciplines" => Rules!TypeOK
  /\ part = "accounts" => Account!TypeOK
  /\ part = "admin lists" => AdminList!TypeOK
  /\ part = "company page" => Company!TypeOK
  /\ part = "partners page" => PartnerPage!TypeOK

\* The write side, the positions and the statistics account for the same
\* shares and the same money; the batch and the monitor compare with the same
\* date.
ReadsAgree ==
  /\ part = "positions" => Reads!ReadsAgree /\ Reads!StatsAgree
  /\ part = "rotation" => Rotation!SameBoundary
=============================================================================
