------------------------------- MODULE Ledger -------------------------------
(***************************************************************************)
(* The portfolio ledger arithmetic of lib/diary-authoring/validation.ts:   *)
(* BUY and SELL rows are put in trade-date order and replayed over an      *)
(* empty portfolio; a SELL of what is not held aborts the replay.  Rows    *)
(* are given under numbers: their places in a list, or their ids.          *)
(*                                                                         *)
(* Quantities are multiples of a smallest unit.  Epsilon is the tolerance  *)
(* of the code (EPSILON = 0.0001 shares) expressed in that unit.           *)
(***************************************************************************)
EXTENDS Integers, Sequences, SequencesExt, FiniteSets

CONSTANTS Symbols,      \* the stock symbols traded
          Epsilon       \* the tolerance below which a holding counts as none

ASSUME LedgerAssumption == Epsilon \in Nat

\* A row as validation sees it: TransactionInput and the persisted rows alike.
Entry == [symbol : Symbols, type : {"BUY", "SELL"}, qty : Nat \ {0}, date : Nat]

\* Row i is traded before row j: by trade date, ties by their numbers.
Before(rows, i, j) ==
  \/ rows[i].date < rows[j].date
  \/ rows[i].date = rows[j].date /\ i < j

Preceding(rows, i) == {j \in DOMAIN rows : Before(rows, j, i)}

\* Mutant of TradeOrder: the rows are replayed in input order.
TradeOrderUnsorted(rows) ==
  [k \in 1..Cardinality(DOMAIN rows) |->
     CHOOSE i \in DOMAIN rows : Cardinality({j \in DOMAIN rows : j < i}) = k - 1]

(***************************************************************************)
(* orderedTransactions: by trade date, ties kept in the order of the       *)
(* input, that is of the numbers under which the rows are given: the k-th  *)
(* is the one that k - 1 others precede.                                   *)
(***************************************************************************)
TradeOrder(rows) ==
  [k \in 1..Cardinality(DOMAIN rows) |->
     CHOOSE i \in DOMAIN rows : Cardinality(Preceding(rows, i)) = k - 1]

InTradeOrder(rows) ==
  LET order == TradeOrder(rows) IN [k \in DOMAIN order |-> rows[order[k]]]

EmptyBook == [holdings |-> [s \in Symbols |-> 0], ok |-> TRUE]

\* Mutant of Held: the portfolio is one total.
HeldTotal(book, e) == MapThenSumSet(LAMBDA s : book.holdings[s], Symbols)

Held(book, e) == book.holdings[e.symbol]

\* Mutants of Refused: only an empty position is refused; a SELL has to leave
\* something.
RefusedIfEmpty(held, qty) == held <= Epsilon
RefusedIfAll(held, qty) == held <= Epsilon \/ qty >= held

\* A SELL of nothing held, or of more than is held.
Refused(held, qty) == held <= Epsilon \/ qty > held + Epsilon

\* One row of the replay loop; ok = FALSE stands for the thrown Error.  What a
\* SELL leaves within the tolerance is written off.
ApplyEntry(book, e) ==
  LET held == Held(book, e)
      remaining == held - e.qty
  IN  CASE ~book.ok -> book
        [] book.ok /\ e.type = "BUY" ->
             [book EXCEPT !.holdings[e.symbol] = held + e.qty]
        [] book.ok /\ e.type = "SELL" /\ Refused(held, e.qty) ->
             [book EXCEPT !.ok = FALSE]
        [] OTHER ->
             [book EXCEPT !.holdings[e.symbol] =
                            IF remaining <= Epsilon THEN 0 ELSE remaining]

calculateLedgerHoldings(rows) == FoldLeft(ApplyEntry, EmptyBook, InTradeOrder(rows))

LedgerAccepts(rows) == calculateLedgerHoldings(rows).ok

-----------------------------------------------------------------------------
(* The balance of a symbol, by a definition that neither sorts nor replays. *)

Earlier(rows, i) == {j \in Preceding(rows, i) : rows[j].symbol = rows[i].symbol}

\* The rows of one symbol, under the same numbers.
OfSymbol(rows, s) == [i \in {j \in DOMAIN rows : rows[j].symbol = s} |-> rows[i]]

OfType(rows, S, type) == {j \in S : rows[j].type = type}
Total(rows, S) == MapThenSumSet(LAMBDA j : rows[j].qty, S)

\* Bought less sold among some rows, and the tolerances their SELLs may spend.
Net(rows, S) == Total(rows, OfType(rows, S, "BUY")) - Total(rows, OfType(rows, S, "SELL"))
SlackOf(rows, S) == Epsilon * Cardinality(OfType(rows, S, "SELL"))

\* Both before row i trades.
Balance(rows, i) == Net(rows, Earlier(rows, i))
Slack(rows, i) == SlackOf(rows, Earlier(rows, i))
=============================================================================
