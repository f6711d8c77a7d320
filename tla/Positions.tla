------------------------------ MODULE Positions ------------------------------
(***************************************************************************)
(* What the read side makes of the transactions the write side accepted:   *)
(* open positions at average cost (lib/position-state.ts), closed trades   *)
(* and their statistics (lib/trade-analytics.ts,                           *)
(* server/utils/performance-stats.ts).  The read side tolerates what the   *)
(* write side (Ledger) refuses, so the two replay the same rows by         *)
(* different rules.  Quantities are counted in the smallest unit, amounts  *)
(* are exact fractions: the rounding of doubles is not modelled.           *)
(***************************************************************************)
EXTENDS Integers, Sequences, SequencesExt, FiniteSets

CONSTANTS
  Symbols,
  Epsilon,    \* 0.0001 shares
  Rows,       \* the transactions that may be entered
  MaxRows     \* bound on their number

VARIABLE txns   \* the rows in the order of their ids

Write == INSTANCE Ledger

TypeOK == txns \in Seq([symbol : Symbols, type : {"BUY", "SELL"}, qty : Nat, price : Nat, date : Nat])

Init == txns = <<>>

(* Rows of any date are added by DiaryWrite. *)
Enter(row) ==
  /\ Len(txns) < MaxRows
  /\ txns' = Append(txns, row)

Next == \E row \in Rows : Enter(row)

-----------------------------------------------------------------------------
(* Fractions. *)
Q(n) == [n |-> n, d |-> 1]
Zero == Q(0)
Plus(x, y) == [n |-> x.n * y.d + y.n * x.d, d |-> x.d * y.d]
Less(x, y) == Plus(x, [y EXCEPT !.n = -y.n])
Times(k, x) == [x EXCEPT !.n = k * x.n]
Over(x, k) == [x EXCEPT !.d = k * x.d]
Same(x, y) == x.n * y.d = y.n * x.d
Below(x, y) == x.n * y.d < y.n * x.d
Total(amounts) == FoldLeft(Plus, Zero, amounts)

-----------------------------------------------------------------------------
createPosition == [qty |-> 0, cost |-> Zero]

applyBuy(pos, row) == [qty |-> pos.qty + row.qty, cost |-> Plus(pos.cost, Q(row.qty * row.price))]

(* A plausible mistake: an oversold row is settled in full. *)
AppliedInFull(pos, row) == IF pos.qty <= 0 THEN 0 ELSE row.qty

(* A sale of nothing settles nothing; one of too much what is held. *)
Applied(pos, row) == IF pos.qty <= 0 THEN 0 ELSE IF row.qty < pos.qty THEN row.qty ELSE pos.qty

AvgCost(pos) == IF pos.qty <= 0 THEN Zero ELSE Over(pos.cost, pos.qty)

(* A plausible mistake: the cost that leaves is the price of the sale. *)
CostOfSale(pos, row) == Q(Applied(pos, row) * row.price)

CostSold(pos, row) == Times(Applied(pos, row), AvgCost(pos))

applySell(pos, row) ==
  [qty |-> pos.qty - Applied(pos, row), cost |-> Less(pos.cost, CostSold(pos, row))]

isPositionClosed(pos) == pos.qty <= Epsilon

(* toSorted by trade date, which keeps the order of ids. *)
Sorted(rows) == Write!InTradeOrder(rows)

(* computePositionState.  dust: what is left of closed positions, dropped; *)
(* missing: what sales exceeded the position by, incomplete when not empty. *)
StateStep(s, row) ==
  LET pos == s.positions[row.symbol]
      next == IF row.type = "BUY" THEN applyBuy(pos, row) ELSE applySell(pos, row)
      closed == row.type = "SELL" /\ isPositionClosed(next)
  IN [positions  |-> [s.positions EXCEPT ![row.symbol] = IF closed THEN createPosition ELSE next],
      dust       |-> IF closed THEN [qty |-> s.dust.qty + next.qty, cost |-> Plus(s.dust.cost, next.cost)]
                               ELSE s.dust,
      missing    |-> s.missing \cup (IF row.type = "SELL" THEN {row.qty - Applied(pos, row)} \ {0} ELSE {})]

computePositionState(rows) ==
  FoldLeft(StateStep, [positions |-> [s \in Symbols |-> createPosition], dust |-> createPosition, missing |-> {}],
           Sorted(rows))

(* matchTrades *)
MatchStep(s, row) ==
  LET pos == s.positions[row.symbol]
  IN IF row.type = "BUY"
       THEN [s EXCEPT !.positions[row.symbol] = applyBuy(pos, row)]
       ELSE IF Applied(pos, row) <= 0
         THEN s
         ELSE LET next == applySell(pos, row)
              IN [positions |-> [s.positions EXCEPT ![row.symbol] =
                                   IF isPositionClosed(next) THEN createPosition ELSE next],
                  closed    |-> Append(s.closed,
                                  [symbol |-> row.symbol, date |-> row.date, qty |-> Applied(pos, row),
                                   basis |-> CostSold(pos, row),
                                   pnl |-> Less(Q(Applied(pos, row) * row.price), CostSold(pos, row))])]

matchTrades(rows) ==
  FoldLeft(MatchStep, [positions |-> [s \in Symbols |-> createPosition], closed |-> <<>>], Sorted(rows)).closed

-----------------------------------------------------------------------------
Won(trades) == {i \in DOMAIN trades : trades[i].pnl.n > 0}
Lost(trades) == {i \in DOMAIN trades : trades[i].pnl.n < 0}

Pnl(trades) == Total([i \in DOMAIN trades |-> trades[i].pnl])

(* groupByPeriod and calcPeriodStats *)
PeriodStats(trades) ==
  [p \in {trades[i].date : i \in DOMAIN trades} |->
     LET of == SelectSeq(trades, LAMBDA t : t.date = p)
     IN [pnl |-> Pnl(of), tradeCount |-> Len(of), winCount |-> Cardinality(Won(of))]]

SymbolBreakdown(trades) ==
  [s \in {trades[i].symbol : i \in DOMAIN trades} |-> Pnl(SelectSeq(trades, LAMBDA t : t.symbol = s))]

(* buildEquityCurveWithDates, before it is rounded. *)
EquityCurve(trades) == [i \in DOMAIN trades |-> Pnl(SubSeq(trades, 1, i))]

(* calcRealizedDrawdown: one pass with a running peak, which starts at 0.  *)
DrawdownStep(s, t) ==
  LET cum == Plus(s.cum, t.pnl)
      basis == Plus(s.basis, t.basis)
      peak == IF Below(s.peak, cum) THEN cum ELSE s.peak
      drawdown == Less(peak, cum)
      deeper == Below(s.max, drawdown) /\ basis.n > 0
  IN [cum |-> cum, basis |-> basis, peak |-> peak, max |-> IF deeper THEN drawdown ELSE s.max]

calcRealizedDrawdown(trades) ==
  FoldLeft(DrawdownStep, [cum |-> Zero, basis |-> Zero, peak |-> Zero, max |-> Zero], trades).max

-----------------------------------------------------------------------------
(* Both sides replay alike: of a ledger the write side accepts, the read   *)
(* side holds the same quantity of every symbol, and reports a sale as     *)
(* incomplete only when it exceeds what is held by less than the tolerance. *)
(* Of any ledger, the position page and the performance page, which replay *)
(* on their own, account for every share and every unit of money between   *)
(* them: what was bought is what was sold, what is held and what was       *)
(* written off; and no average cost leaves the range of the prices paid.   *)
ReadsAgree ==
  LET book == Write!calculateLedgerHoldings(txns)
      read == computePositionState(txns)
      closed == matchTrades(txns)
      buys == SelectSeq(txns, LAMBDA row : row.type = "BUY")
      prices == {buys[i].price : i \in DOMAIN buys}
      Shares(rows) == FoldLeft(LAMBDA n, row : n + row.qty, 0, rows)
      open == [s \in Symbols |-> read.positions[s]]
      left == SetToSeq({<<s, open[s]>> : s \in Symbols}) \o <<<<"dust", read.dust>>>>
      PaidFor(pos) == /\ \E p \in prices \cup {0} : ~Below(pos.cost, Q(pos.qty * p))
                      /\ \E p \in prices \cup {0} : ~Below(Q(pos.qty * p), pos.cost)
  IN /\ book.ok => \A s \in Symbols : open[s].qty = book.holdings[s]
     /\ book.ok => \A n \in read.missing : n <= Epsilon
     /\ Shares(buys) = Shares(closed) + FoldLeft(LAMBDA n, entry : n + entry[2].qty, 0, left)
     /\ Same(Total([i \in DOMAIN buys |-> Q(buys[i].qty * buys[i].price)]),
             Plus(Total([i \in DOMAIN closed |-> closed[i].basis]),
                  Total([i \in DOMAIN left |-> left[i][2].cost])))
     /\ \A i \in DOMAIN left : left[i][2].qty >= 0 /\ PaidFor(left[i][2])

(* The statistics are about the same trades: the periods and the symbols   *)
(* add up to the last point of the equity curve, and the drawdown is the   *)
(* deepest fall between two points of the curve, the start included.       *)
StatsAgree ==
  LET trades == matchTrades(txns)
      curve == EquityCurve(trades)
      At(i) == IF i = 0 THEN Zero ELSE curve[i]
      stats == PeriodStats(trades)
      sums == SymbolBreakdown(trades)
      Fall(i, j) == Less(At(i), At(j))
      deepest == calcRealizedDrawdown(trades)
  IN /\ Same(At(Len(trades)), FoldLeft(LAMBDA sum, p : Plus(sum, stats[p].pnl), Zero, SetToSeq(DOMAIN stats)))
     /\ Same(At(Len(trades)), FoldLeft(LAMBDA sum, s : Plus(sum, sums[s]), Zero, SetToSeq(DOMAIN sums)))
     /\ \A i, j \in 0..Len(trades) : i <= j => ~Below(deepest, Fall(i, j))
     /\ \E i, j \in 0..Len(trades) : i <= j /\ Same(deepest, Fall(i, j))
     /\ Cardinality(Won(trades)) + Cardinality(Lost(trades)) <= Len(trades)
=============================================================================
