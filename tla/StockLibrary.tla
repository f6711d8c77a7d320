---------------------------- MODULE StockLibrary ----------------------------
(***************************************************************************)
(* The stocks a user follows and what is kept about them: the watchlist    *)
(* (server/utils/stock-watchlist-queries.ts), the research records         *)
(* (stock-timeline-queries.ts) and the capture dialog of the web client    *)
(* that writes them (composables/useResearchCapture.ts).  Nothing here is  *)
(* a transaction: a write passes through several queries, and an upsert is *)
(* a SELECT followed by an INSERT or an UPDATE, since Prisma has no native *)
(* upsert for MySQL.  The dialog gives up on an answer that is lost and    *)
(* tries again while the first attempt may still be running.               *)
(***************************************************************************)
EXTENDS Integers, FiniteSets

CONSTANTS
  Symbols,
  Texts,        \* what the insight may say, positive numbers
  Openings,     \* 1..n: the times the dialog is opened
  Slots         \* bound on the requests under way

VARIABLES
  watch,      \* stock_watchlists: the status by symbol
  records,    \* stock_timeline_records
  opening,    \* of the dialog: the last one, 0 before the first
  dialog,     \* [open, text, symbol, pending, saved]
  call,       \* the requests under way
  submitted,  \* history: <<opening, symbol, text>> sent by the dialog
  archived    \* history: symbols archived since the dialog last sent

vars == <<watch, records, opening, dialog, call, submitted, archived>>

None == "none"
Keys == Openings \cup {0}   \* idempotency keys; 0 is one an agent chose
Kinds == {"evidence", "follow", "agent"}

(* opening is a ghost: the one a record of the web comes from.             *)
Record == [symbol : Symbols, key : Nat, text : Texts, opening : Keys, via : {"WEB", "API_KEY"}]

(* "sent": by the dialog; "upsert": it has read whether the item is there; *)
(* "create": the record comes next.  opening is a ghost.                   *)
Call == [kind : Kinds \cup {None}, symbol : Symbols, key : Nat, text : Texts,
         phase : {"idle", "sent", "upsert", "create"},
         found : BOOLEAN, opening : Keys, awaited : BOOLEAN]

SomeSymbol == CHOOSE s \in Symbols : TRUE
SomeText == CHOOSE t \in Texts : TRUE
Idle == [kind |-> None, symbol |-> SomeSymbol, key |-> 0, text |-> SomeText, phase |-> "idle",
         found |-> FALSE, opening |-> 0, awaited |-> FALSE]
Closed == [open |-> FALSE, text |-> SomeText, symbol |-> SomeSymbol, pending |-> FALSE, saved |-> None]

TypeOK ==
  /\ watch \in [Symbols -> {None, "WATCHING", "ARCHIVED"}]
  /\ \A r \in records : r \in Record
  /\ opening \in Keys
  /\ dialog \in [open : BOOLEAN, text : Texts, symbol : Symbols, pending : BOOLEAN,
                 saved : Symbols \cup {None}]
  /\ call \in [Slots -> Call]
  /\ submitted \subseteq Openings \X Symbols \X Texts
  /\ archived \subseteq Symbols

Init ==
  /\ watch = [s \in Symbols |-> None]
  /\ records = {} /\ opening = 0 /\ dialog = Closed
  /\ call = [c \in Slots |-> Idle]
  /\ submitted = {} /\ archived = {}

-----------------------------------------------------------------------------
(* The dialog. *)

Open ==
  /\ ~dialog.open /\ opening + 1 \in Openings
  /\ opening' = opening + 1
  /\ \E s \in Symbols : dialog' = [Closed EXCEPT !.open = TRUE, !.symbol = s]
  /\ UNCHANGED <<watch, records, call, submitted, archived>>

Close ==
  /\ dialog.open /\ ~dialog.pending
  /\ dialog' = Closed
  /\ UNCHANGED <<watch, records, opening, call, submitted, archived>>

(* The fields stay open to the user while an attempt is under way.         *)
Edit ==
  /\ dialog.open
  /\ \E t \in Texts, s \in Symbols : dialog' = [dialog EXCEPT !.text = t, !.symbol = s]
  /\ UNCHANGED <<watch, records, opening, call, submitted, archived>>

Start(c, request) ==
  /\ call[c].phase = "idle"
  /\ call' = [call EXCEPT ![c] = request]

(* A slip: a key for every attempt. *)
KeyOfAttempt == Cardinality({r \in records : r.via = "WEB"}) + 1

(* createIdempotencyKey is called by open. *)
idempotencyKey == opening

SaveEvidence(c) ==
  /\ dialog.open /\ ~dialog.pending /\ dialog.saved = None
  /\ Start(c, [Idle EXCEPT !.kind = "evidence", !.symbol = dialog.symbol, !.key = idempotencyKey,
                           !.text = dialog.text, !.phase = "sent", !.opening = opening,
                           !.awaited = TRUE])
  /\ dialog' = [dialog EXCEPT !.pending = TRUE]
  /\ submitted' = submitted \cup {<<opening, dialog.symbol, dialog.text>>}
  /\ archived' = {}
  /\ UNCHANGED <<watch, records, opening>>

(* The answer is lost, or was an error. *)
SaveFailed ==
  /\ dialog.pending
  /\ dialog' = [dialog EXCEPT !.pending = FALSE]
  /\ call' = [c \in Slots |-> [call[c] EXCEPT !.awaited = FALSE]]
  /\ UNCHANGED <<watch, records, opening, submitted, archived>>

-----------------------------------------------------------------------------
(* The other requests. *)

(* upsertStockWatchlistItem, the read: whether the item is there.  The     *)
(* order that a new one gets is left out.                                  *)
Followed == {s \in Symbols : watch[s] # None}

ReadItem(c, request) ==
  call' = [call EXCEPT ![c] = [request EXCEPT !.phase = "upsert",
                                              !.found = request.symbol \in Followed]]

EvidenceArrives(c) ==
  /\ call[c].phase = "sent"
  /\ ReadItem(c, call[c])
  /\ UNCHANGED <<watch, records, opening, dialog, submitted, archived>>

(* POST of a watchlist item, or of a note, which is then written.          *)
Follow(c, s) ==
  /\ call[c].phase = "idle"
  /\ ReadItem(c, [Idle EXCEPT !.kind = "follow", !.symbol = s])
  /\ UNCHANGED <<watch, records, opening, dialog, submitted, archived>>

(* createStockTimelineRecordsFromAgent: a stock that is not watched is     *)
(* skipped.                                                                *)
AgentRecord(c, s) ==
  /\ watch[s] = "WATCHING"
  /\ Start(c, [Idle EXCEPT !.kind = "agent", !.symbol = s, !.phase = "create"])
  /\ UNCHANGED <<watch, records, opening, dialog, submitted, archived>>

(* updateStockWatchlistItem, for PATCH and for DELETE, which archives.  A  *)
(* row of the watchlist is never removed, so its read needs no step.       *)
UpdateItem(s) ==
  /\ s \in Followed
  /\ \E status \in {"WATCHING", "ARCHIVED"} :
       /\ watch' = [watch EXCEPT ![s] = status]
       /\ archived' = IF status = "ARCHIVED" THEN archived \cup {s} ELSE archived
  /\ UNCHANGED <<records, opening, dialog, call, submitted>>

-----------------------------------------------------------------------------
(* A slip: an item that is there is left as it is. *)
UpsertedIfNew(status) == IF status = None THEN "WATCHING" ELSE status

Upserted(status) == "WATCHING"

(* The INSERT fails on the unique key if the item has come in between.     *)
Upsert(c) ==
  LET s == call[c].symbol IN
  /\ call[c].phase = "upsert" /\ call[c].found = (s \in Followed)
  /\ watch' = [watch EXCEPT ![s] = Upserted(watch[s])]
  /\ archived' = archived \ {s}
  /\ call' = [call EXCEPT ![c] = IF call[c].kind = "follow" THEN Idle ELSE [call[c] EXCEPT !.phase = "create"]]
  /\ UNCHANGED <<records, opening, dialog, submitted>>

-----------------------------------------------------------------------------
Stored(s, key) == {r \in records : r.symbol = s /\ r.key = key}

(* The INSERT, or after a unique constraint error the read of the record   *)
(* that is there; the dialog may have given up on this attempt.            *)
CreateEvidence(c) ==
  LET r == call[c] IN
  /\ r.kind = "evidence" /\ r.phase = "create"
  /\ records' = IF Stored(r.symbol, r.key) # {} THEN records
                ELSE records \cup {[symbol |-> r.symbol, key |-> r.key, text |-> r.text,
                                    opening |-> r.opening, via |-> "WEB"]}
  /\ call' = [call EXCEPT ![c] = Idle]
  /\ dialog' = IF r.awaited THEN [dialog EXCEPT !.pending = FALSE, !.saved = r.symbol] ELSE dialog
  /\ UNCHANGED <<watch, opening, submitted, archived>>

(* The upsert of a record, read and write in one, since only the report of *)
(* created and updated records depends on the first.                       *)
UpsertRecord(c) ==
  LET r == call[c] IN
  /\ r.kind = "agent" /\ r.phase = "create"
  /\ records' = (records \ Stored(r.symbol, r.key)) \cup
       {[symbol |-> r.symbol, key |-> r.key, text |-> r.text, opening |-> 0, via |-> "API_KEY"]}
  /\ call' = [call EXCEPT ![c] = Idle]
  /\ UNCHANGED <<watch, opening, dialog, submitted, archived>>

(* A unique key, the database, or a restart ends a request between two     *)
(* queries.                                                                *)
Fail(c) ==
  /\ call[c].phase # "idle"
  /\ call' = [call EXCEPT ![c] = Idle]
  /\ UNCHANGED <<watch, records, opening, dialog, submitted, archived>>

Next ==
  \/ Open \/ Close \/ Edit \/ SaveFailed
  \/ \E s \in Symbols : UpdateItem(s)
  \/ \E c \in Slots :
       \/ SaveEvidence(c) \/ EvidenceArrives(c) \/ Upsert(c)
       \/ CreateEvidence(c) \/ UpsertRecord(c) \/ Fail(c)
       \/ \E s \in Symbols : Follow(c, s) \/ AgentRecord(c, s)

Spec == Init /\ [][Next]_vars

-----------------------------------------------------------------------------
(* However often it is sent, one opening of the dialog leaves one record   *)
(* on a stock, with a text that it sent (createStockTimelineRecordFromWeb: *)
(* a double submit returns the record there is).  When it says saved, the  *)
(* record is there, and the stock is watched unless someone archived it    *)
(* meanwhile: research that was captured is never dropped.  What has       *)
(* records stays on the list, archived at most.                            *)
CaptureHolds ==
  /\ \A r, q \in records : (r.opening # 0 /\ r.opening = q.opening /\ r.symbol = q.symbol) => r = q
  /\ \A r \in records : r.via = "WEB" => <<r.opening, r.symbol, r.text>> \in submitted
  /\ dialog.saved # None =>
       /\ Stored(dialog.saved, idempotencyKey) # {}
       /\ dialog.saved \in archived \/ watch[dialog.saved] = "WATCHING"
  /\ \A r \in records : r.symbol \in Followed
=============================================================================
