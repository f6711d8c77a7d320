------------------------------ MODULE MCLedger ------------------------------
(***************************************************************************)
(* The ledger arithmetic over every list of at most MaxRows rows, against  *)
(* a definition of the balance of a symbol that neither sorts nor replays. *)
(* Quantities lie below, at and above the tolerance Epsilon.  LedgerProofs *)
(* has the facts from which the properties follow, for any rows.           *)
(***************************************************************************)
EXTENDS LedgerProofs

CONSTANTS Quantities, Dates, MaxRows

ASSUME MCLedgerAssumption == Quantities \subseteq Nat /\ Dates \subseteq Nat /\ MaxRows \in Nat

VARIABLE entries    \* the rows handed to calculateLedgerHoldings

Rows == [symbol : Symbols, type : {"BUY", "SELL"}, qty : Quantities, date : Dates]

Init == entries = <<>>

Next ==
  \/ \E e \in Rows : Len(entries) < MaxRows /\ entries' = Append(entries, e)
  \/ Len(entries) = MaxRows /\ UNCHANGED entries

Spec == Init /\ [][Next]_entries

SymbolSymmetry == Permutations(Symbols)

-----------------------------------------------------------------------------
Sells == OfType(entries, DOMAIN entries, "SELL")

\* The tolerance does not add up to a short position out of proportion: in an
\* accepted ledger a SELL exceeds what is held by at most one Epsilon for
\* itself and one for every earlier SELL of its symbol.
AcceptedIsCovered ==
  LedgerAccepts(entries) =>
    \A i \in Sells : entries[i].qty <= Balance(entries, i) + Slack(entries, i) + Epsilon

\* No covered SELL is refused: a ledger is rejected only if some SELL meets a
\* position that is dust, or short, after the dust earlier SELLs wrote off.
CoveredIsAccepted ==
  (\A i \in Sells : LET sure == Balance(entries, i) - Slack(entries, i)
                    IN  sure > Epsilon /\ entries[i].qty <= sure)
  => LedgerAccepts(entries)

\* The stocks of a ledger do not affect each other: a ledger is accepted when
\* the rows of each symbol are, and a holding comes from its own rows only.
SymbolsIndependent ==
  LET Alone(s) == calculateLedgerHoldings(OfSymbol(entries, s))
      all == calculateLedgerHoldings(entries)
  IN  /\ all.ok <=> \A s \in Symbols : Alone(s).ok
      /\ all.ok => \A s \in Symbols : all.holdings[s] = Alone(s).holdings[s]

\* The order in which rows are typed, stored and read back means nothing
\* between different trade dates: only ties depend on it.
RowOrderMatters(k) == entries[k].date = entries[k + 1].date

RowOrderIrrelevant ==
  \A k \in 1 .. (Len(entries) - 1) :
    LET swapped == [entries EXCEPT ![k] = entries[k + 1], ![k + 1] = entries[k]]
    IN  RowOrderMatters(k) \/ LedgerAccepts(swapped) = LedgerAccepts(entries)

-----------------------------------------------------------------------------
(* The lists of the run, and of any other length, quantities and dates. *)

\* What is handed to calculateLedgerHoldings is a list of rows.
LEMMA EntriesAreRows == Spec => [](entries \in Seq(Rows))
  <1>1. Init => entries \in Seq(Rows)
    BY DEF Init
  <1>2. entries \in Seq(Rows) /\ [Next]_entries => (entries \in Seq(Rows))'
    BY DEF Next
  <1> QED
    BY <1>1, <1>2, PTL DEF Spec

LEMMA ListsAreRows ==
  ASSUME entries \in Seq(Rows)
  PROVE  /\ Len(entries) \in Nat /\ DOMAIN entries = 1..Len(entries)
         /\ entries = [i \in 1..Len(entries) |-> entries[i]]
         /\ \A i \in 1..Len(entries) : IsRow(entries[i])
         /\ AreRows(entries)
  <1>1. /\ Len(entries) \in Nat /\ DOMAIN entries = 1..Len(entries)
        /\ entries = [i \in 1..Len(entries) |-> entries[i]]
        /\ \A i \in 1..Len(entries) : entries[i] \in Rows
    OBVIOUS
  <1>2. \A e \in Rows : IsRow(e)
    BY MCLedgerAssumption DEF Rows, IsRow
  <1>3. 0 \in Int /\ 1 \in Int /\ Len(entries) \in Int
    BY <1>1
  <1>4. IsFiniteSet(1..Len(entries))
    BY <1>3, FS_Interval
  <1>5. 1..Len(entries) \subseteq Nat
    BY <1>1
  <1> QED
    BY <1>1, <1>2, <1>4, <1>5 DEF AreRows

\* In a ledger that is accepted no SELL exceeds what is held by more than one
\* Epsilon for itself and one for every earlier SELL of its symbol.
THEOREM AcceptedLedgersAreCovered == Spec => []AcceptedIsCovered
  <1>1. entries \in Seq(Rows) => AcceptedIsCovered
    BY ListsAreRows, AcceptedRowsAreCovered DEF AcceptedIsCovered, Sells
  <1> QED
    BY <1>1, EntriesAreRows, PTL

\* A ledger is refused only for a SELL of dust, or of more than is held for sure.
THEOREM CoveredLedgersAreAccepted == Spec => []CoveredIsAccepted
  <1>1. entries \in Seq(Rows) => CoveredIsAccepted
    BY ListsAreRows, CoveredRowsAreAccepted DEF CoveredIsAccepted, Sells
  <1> QED
    BY <1>1, EntriesAreRows, PTL

\* The stocks of a ledger do not affect each other.
THEOREM StocksAreIndependent == Spec => []SymbolsIndependent
  <1>1. entries \in Seq(Rows) => SymbolsIndependent
    BY ListsAreRows, SymbolsAreIndependent DEF SymbolsIndependent
  <1> QED
    BY <1>1, EntriesAreRows, PTL

\* Only ties of the trade date depend on the order in which rows are stored.
THEOREM OnlyTiesDependOnOrder == Spec => []RowOrderIrrelevant
  <1>1. ASSUME entries \in Seq(Rows), NEW k \in 1..(Len(entries) - 1), ~RowOrderMatters(k)
        PROVE  LedgerAccepts([entries EXCEPT ![k] = entries[k + 1], ![k + 1] = entries[k]])
                 = LedgerAccepts(entries)
    <2>1. calculateLedgerHoldings(entries)
            = calculateLedgerHoldings([entries EXCEPT ![k] = entries[k + 1], ![k + 1] = entries[k]])
      BY <1>1, ListsAreRows, NeighboursChangePlaces DEF RowOrderMatters
    <2> QED
      BY <2>1 DEF LedgerAccepts
  <1>2. entries \in Seq(Rows) => RowOrderIrrelevant
    BY <1>1 DEF RowOrderIrrelevant
  <1> QED
    BY <1>2, EntriesAreRows, PTL
=============================================================================
