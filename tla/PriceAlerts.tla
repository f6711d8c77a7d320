----------------------------- MODULE PriceAlerts -----------------------------
(***************************************************************************)
(* The checker of price alerts (server/schedulers/price-alert-checker.ts)  *)
(* and the requests that create, edit, re-arm and delete them              *)
(* (server/utils/price-alert-queries.ts).  A run reads the armed rows,     *)
(* waits for a quote of every symbol, and then judges the rows it read one *)
(* after the other.  The interval timer does not wait for the run before.  *)
(***************************************************************************)
EXTENDS Integers, FiniteSets

CONSTANTS
  Alerts,      \* ids
  SymbolOf,    \* the symbol an alert of that id is created for
  Levels,      \* thresholds and prices
  Runs         \* bound on the runs at the same time

VARIABLES
  price,       \* regularMarketPrice of every symbol
  row,         \* the price_alerts table
  run,         \* runs of checkPriceAlerts
  pushes,      \* history: pushes of an alert since it was armed
  cause,       \* history: the price for which the checker triggered it
  disturbed,   \* history: it was written while a run held it
  overlapped   \* history: two runs held it at once since it was armed

vars == <<price, row, run, pushes, cause, disturbed, overlapped>>

Symbols == {SymbolOf[a] : a \in Alerts}
NoPrice == -1      \* a quote that failed, or none was asked for yet
Unasked == -2

AlertType == {"PRICE_ABOVE", "PRICE_BELOW", "CHANGE_PERCENT", "MOVING_AVG"}
Supported == {"PRICE_ABOVE", "PRICE_BELOW"}   \* isSupportedPriceAlertType
Row == [status : {"none", "stored", "deleted"}, type : AlertType, threshold : Levels, isTriggered : BOOLEAN]
EmptyRow == [status |-> "none", type |-> "PRICE_ABOVE",
             threshold |-> CHOOSE l \in Levels : TRUE, isTriggered |-> FALSE]

(* left: alerts of the snapshot still to judge; pushing: the one whose     *)
(* update has been sent and answered.                                      *)
Run == [rows : [Alerts -> Row], quote : [Symbols -> Levels \cup {NoPrice, Unasked}],
        left : SUBSET Alerts, pushing : SUBSET Alerts]
NoRun == [rows |-> [a \in Alerts |-> EmptyRow], quote |-> [s \in Symbols |-> Unasked],
          left |-> {}, pushing |-> {}]

TypeOK ==
  /\ price \in [Symbols -> Levels]
  /\ row \in [Alerts -> Row]
  /\ run \in [Runs -> Run]
  /\ pushes \in [Alerts -> Nat]
  /\ cause \in [Alerts -> Levels \cup {NoPrice}]
  /\ disturbed \subseteq Alerts /\ overlapped \subseteq Alerts

Init ==
  /\ price \in [Symbols -> Levels]
  /\ row = [a \in Alerts |-> EmptyRow]
  /\ run = [r \in Runs |-> NoRun]
  /\ pushes = [a \in Alerts |-> 0]
  /\ cause = [a \in Alerts |-> NoPrice]
  /\ disturbed = {} /\ overlapped = {}

evaluatePriceAlertCondition(type, current, threshold) ==
  \/ type = "PRICE_ABOVE" /\ current >= threshold
  \/ type = "PRICE_BELOW" /\ current <= threshold

Holding(a) == {r \in Runs : a \in run[r].left \cup run[r].pushing}
Stored(a) == row[a].status = "stored"

(* A new arming starts with a clean record, unless a run still holds the   *)
(* row it read before.                                                     *)
Written(a, new) ==
  /\ row' = [row EXCEPT ![a] = new]
  /\ pushes' = [pushes EXCEPT ![a] = 0]
  /\ cause' = [cause EXCEPT ![a] = NoPrice]
  /\ IF Holding(a) = {}
       THEN disturbed' = disturbed \ {a} /\ overlapped' = overlapped \ {a}
       ELSE disturbed' = disturbed \cup {a} /\ UNCHANGED overlapped
  /\ UNCHANGED <<price, run>>

createPriceAlert(a) ==
  /\ row[a].status = "none"
  /\ \E type \in Supported, threshold \in Levels :
       Written(a, [status |-> "stored", type |-> type, threshold |-> threshold, isTriggered |-> FALSE])

(* PUT of a threshold, or of isTriggered with its triggeredAt: re-arming,  *)
(* or silencing.  The row is looked up and then updated by id; the type,   *)
(* all that is used of the first read, never changes.  One that would      *)
(* leave isTriggered and triggeredAt apart is refused by a CHECK           *)
(* (price_alerts_trigger_state_v1_check) and changes nothing.              *)
updatePriceAlert(a) ==
  /\ Stored(a)
  /\ \E threshold \in Levels, isTriggered \in BOOLEAN :
       Written(a, [row[a] EXCEPT !.threshold = threshold, !.isTriggered = isTriggered])

deletePriceAlert(a) ==
  /\ Stored(a)
  /\ Written(a, [EmptyRow EXCEPT !.status = "deleted"])

PriceMoves(s) ==
  /\ price' \in {[price EXCEPT ![s] = l] : l \in Levels \ {price[s]}}
  /\ UNCHANGED <<row, run, pushes, cause, disturbed, overlapped>>

-----------------------------------------------------------------------------
(* A plausible mistake: the filter of the query is lost. *)
ArmedAll == {a \in Alerts : Stored(a)}

(* where: { isTriggered: false } *)
Armed == {a \in Alerts : Stored(a) /\ ~row[a].isTriggered}

Start(r) ==
  /\ run[r] = NoRun
  /\ Armed # {}
  /\ run' = [run EXCEPT ![r] = [NoRun EXCEPT !.rows = row, !.left = Armed]]
  /\ overlapped' = overlapped \cup {a \in Armed : Holding(a) # {}}
  /\ UNCHANGED <<price, row, pushes, cause, disturbed>>

Needed(r) == {SymbolOf[a] : a \in run[r].left}
Quoted(r) == \A s \in Needed(r) : run[r].quote[s] # Unasked

(* One quote per symbol; a quote that fails is kept as null. *)
FetchQuote(r) ==
  \E s \in Needed(r) :
    /\ run[r].quote[s] = Unasked
    /\ \E q \in {price[s], NoPrice} : run' = [run EXCEPT ![r].quote[s] = q]
    /\ UNCHANGED <<price, row, pushes, cause, disturbed, overlapped>>

Next1(r) == CHOOSE a \in run[r].left : \A b \in run[r].left : a <= b

(* After the last row the run is over. *)
Finished(d) == IF d.left = {} /\ d.pushing = {} THEN NoRun ELSE d

(* The next row of the snapshot: skipped without a quote, when the         *)
(* condition is not met, and when the update throws because the row is     *)
(* gone; else marked as triggered, whatever it says by now.                *)
Judge(r) ==
  /\ run[r].left # {} /\ run[r].pushing = {} /\ Quoted(r)
  /\ LET a == Next1(r)
         old == run[r].rows[a]
         q == run[r].quote[SymbolOf[a]]
         met == q # NoPrice /\ evaluatePriceAlertCondition(old.type, q, old.threshold)
         rest == run[r].left \ {a}
     IN IF met /\ Stored(a)
          THEN /\ row' = [row EXCEPT ![a].isTriggered = TRUE]
               /\ cause' = [cause EXCEPT ![a] = q]
               /\ run' = [run EXCEPT ![r].left = rest, ![r].pushing = {a}]
          ELSE /\ run' = [run EXCEPT ![r] = Finished([@ EXCEPT !.left = rest])]
               /\ UNCHANGED <<row, cause>>
  /\ UNCHANGED <<price, pushes, disturbed, overlapped>>

(* emitToUser; a user who is offline will find the alert over HTTP. *)
Push(r) ==
  /\ run[r].pushing # {}
  /\ pushes' = [a \in Alerts |-> IF a \in run[r].pushing THEN pushes[a] + 1 ELSE pushes[a]]
  /\ run' = [run EXCEPT ![r] = Finished([@ EXCEPT !.pushing = {}])]
  /\ UNCHANGED <<price, row, cause, disturbed, overlapped>>

(* The process restarts: what it had read is gone, a row may be triggered  *)
(* without having been pushed.                                             *)
Restart ==
  /\ \E r \in Runs : run[r] # NoRun
  /\ run' = [r \in Runs |-> NoRun]
  /\ UNCHANGED <<price, row, pushes, cause, disturbed, overlapped>>

Next ==
  \/ \E a \in Alerts : createPriceAlert(a) \/ updatePriceAlert(a) \/ deletePriceAlert(a)
  \/ \E s \in Symbols : PriceMoves(s)
  \/ \E r \in Runs : Start(r) \/ FetchQuote(r) \/ Judge(r) \/ Push(r)
  \/ Restart

Spec == Init /\ [][Next]_vars

-----------------------------------------------------------------------------
(* As long as nobody writes an alert while a run holds it, it is pushed    *)
(* only when it is triggered, and it is triggered only by a price its      *)
(* threshold asks for, however many runs hold it at once.  If no two did,  *)
(* it is pushed at most once per arming; two that overlap may both push    *)
(* it.  A write in between is judged by the row as it was read, before the *)
(* quotes were waited for: then none of the three holds.                   *)
TriggersAreEarned ==
  \A a \in Alerts \ disturbed :
    /\ a \notin overlapped => pushes[a] <= 1
    /\ pushes[a] > 0 => row[a].isTriggered
    /\ (cause[a] # NoPrice) =>
         /\ Stored(a) /\ row[a].isTriggered
         /\ \/ row[a].type = "PRICE_ABOVE" /\ row[a].threshold <= cause[a]
            \/ row[a].type = "PRICE_BELOW" /\ cause[a] <= row[a].threshold
=============================================================================
