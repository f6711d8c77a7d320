---------------------------- MODULE LedgerProofs ----------------------------
(***************************************************************************)
(* What calculateLedgerHoldings computes, for any rows under any numbers:  *)
(* the order is the one the code sorts by, its replay stays within the     *)
(* spent tolerances of the balance, and depends on nothing but the rows of *)
(* a symbol in that order.                                                 *)
(*                                                                         *)
(* Sums and replays are folds.  A fold is shown to exist by the number of  *)
(* the elements folded, from the fact that a set of numbers has a least.   *)
(***************************************************************************)
EXTENDS Ledger, FiniteSetTheorems, WellFoundedInduction, TLAPS

-----------------------------------------------------------------------------
(* Rows that are given under numbers, and their order. *)

IsRow(e) ==
  e.symbol \in Symbols /\ e.type \in {"BUY", "SELL"} /\ e.qty \in Nat /\ e.date \in Nat

AreRows(rows) ==
  /\ IsFiniteSet(DOMAIN rows) /\ DOMAIN rows \subseteq Nat
  /\ \A i \in DOMAIN rows : IsRow(rows[i])

\* The number of rows, and of those before one.
Count(rows) == Cardinality(DOMAIN rows)
Place(rows, i) == Cardinality(Preceding(rows, i))

\* A set of numbers has a least one.
LEMMA LeastNat ==
  ASSUME NEW S, S \subseteq Nat, S # {}
  PROVE  \E x \in S : \A y \in S : x <= y
  <1>1. PICK x \in S : \A y \in S : <<y, x>> \notin OpToRel(<, Nat)
    BY NatLessThanWellFounded, WFMin
  <1>2. \A y \in S : ~(y < x)
    BY <1>1 DEF OpToRel
  <1> QED
    BY <1>2

LEMMA PlaceType ==
  ASSUME NEW rows, AreRows(rows), NEW i \in DOMAIN rows
  PROVE  /\ IsFiniteSet(Preceding(rows, i)) /\ Place(rows, i) \in Nat
         /\ Count(rows) \in Nat /\ Place(rows, i) < Count(rows)
  <1> DEFINE D == DOMAIN rows
             P == Preceding(rows, i)
  <1>1. IsFiniteSet(D) /\ P \subseteq D \ {i} /\ i \in D
    BY DEF AreRows, IsRow, Preceding, Before
  <1>2. IsFiniteSet(D \ {i}) /\ Cardinality(D \ {i}) = Cardinality(D) - 1
    BY <1>1, FS_RemoveElement
  <1>3. IsFiniteSet(P) /\ Cardinality(P) <= Cardinality(D \ {i})
    BY <1>1, <1>2, FS_Subset
  <1>4. Cardinality(P) \in Nat /\ Cardinality(D) \in Nat
    BY <1>1, <1>3, FS_CardinalityType
  <1> QED
    BY <1>2, <1>3, <1>4 DEF Place, Count

\* Who trades before another has a smaller place.
LEMMA PlaceGrows ==
  ASSUME NEW rows, AreRows(rows), NEW i \in DOMAIN rows, NEW j \in DOMAIN rows, Before(rows, i, j)
  PROVE  Place(rows, i) < Place(rows, j)
  <1> DEFINE P == Preceding(rows, i)
  <1>1. i \notin P /\ P \cup {i} \subseteq Preceding(rows, j)
    BY DEF AreRows, IsRow, Preceding, Before
  <1>2. IsFiniteSet(P) /\ IsFiniteSet(Preceding(rows, j)) /\ Place(rows, i) \in Nat /\ Place(rows, j) \in Nat
    BY PlaceType
  <1>3. Cardinality(P \cup {i}) = Place(rows, i) + 1 /\ IsFiniteSet(P \cup {i})
    BY <1>1, <1>2, FS_AddElement DEF Place
  <1>4. Cardinality(P \cup {i}) <= Place(rows, j)
    BY <1>1, <1>2, FS_Subset DEF Place
  <1> QED
    BY <1>2, <1>3, <1>4

LEMMA OneIsBefore ==
  ASSUME NEW rows, AreRows(rows), NEW i \in DOMAIN rows, NEW j \in DOMAIN rows, i # j
  PROVE  Before(rows, i, j) \/ Before(rows, j, i)
  BY DEF AreRows, IsRow, Before

\* The order lists every row once, at its place, and who is listed before
\* another trades before it.
LEMMA OrderIs ==
  ASSUME NEW rows, AreRows(rows)
  PROVE  /\ Count(rows) \in Nat
         /\ TradeOrder(rows) \in [1..Count(rows) -> DOMAIN rows]
         /\ \A k \in 1..Count(rows) : Place(rows, TradeOrder(rows)[k]) = k - 1
         /\ \A i \in DOMAIN rows : /\ Place(rows, i) + 1 \in 1..Count(rows)
                                   /\ TradeOrder(rows)[Place(rows, i) + 1] = i
         /\ \A j, k \in 1..Count(rows) :
              Before(rows, TradeOrder(rows)[j], TradeOrder(rows)[k]) <=> j < k
  <1> DEFINE D == DOMAIN rows
             n == Count(rows)
             order == TradeOrder(rows)
             f == [i \in D |-> Place(rows, i) + 1]
  <1>1. IsFiniteSet(D) /\ n \in Nat
    BY FS_CardinalityType DEF AreRows, Count
  <1>2. \A i \in D : Place(rows, i) \in Nat /\ Place(rows, i) + 1 \in 1..n
    BY <1>1, PlaceType
  <1>3. \A i, j \in D : Place(rows, i) = Place(rows, j) => i = j
    BY <1>2, PlaceGrows, OneIsBefore
  <1>4. f \in Surjection(D, 1..n)
    <2>1. f \in Injection(D, 1..n)
      BY <1>2, <1>3 DEF Injection, IsInjective
    <2>2. IsFiniteSet(1..n) /\ Cardinality(1..n) = n
      BY <1>1, FS_Interval
    <2> QED
      BY <1>1, <2>1, <2>2, FS_Injection DEF Count
  <1>5. ASSUME NEW k \in 1..n
        PROVE  order[k] \in D /\ Place(rows, order[k]) = k - 1
    <2>1. PICK i \in D : f[i] = k
      BY <1>4 DEF Surjection
    <2>2. Place(rows, i) = k - 1
      BY <1>2, <2>1
    <2>3. \E x \in D : Cardinality(Preceding(rows, x)) = k - 1
      BY <2>2 DEF Place
    <2>4. order[k] = CHOOSE x \in D : Cardinality(Preceding(rows, x)) = k - 1
      BY DEF TradeOrder, Count
    <2> QED
      BY <2>3, <2>4 DEF Place
  <1>6. order \in [1..n -> D]
    BY <1>5 DEF TradeOrder, Count
  <1>7. \A i \in D : order[Place(rows, i) + 1] = i
    <2> TAKE i \in D
    <2>1. Place(rows, i) + 1 \in 1..n /\ Place(rows, i) \in Nat
      BY <1>2
    <2>2. order[Place(rows, i) + 1] \in D /\ Place(rows, order[Place(rows, i) + 1]) = Place(rows, i)
      BY <1>5, <2>1
    <2> QED
      BY <1>3, <2>2
  <1>8. ASSUME NEW j \in 1..n, NEW k \in 1..n
        PROVE  Before(rows, order[j], order[k]) <=> j < k
    <2>1. /\ order[j] \in D /\ Place(rows, order[j]) = j - 1
          /\ order[k] \in D /\ Place(rows, order[k]) = k - 1
      BY <1>5
    <2>2. Before(rows, order[j], order[k]) => j - 1 < k - 1
      BY <2>1, PlaceGrows
    <2>3. Before(rows, order[k], order[j]) => k - 1 < j - 1
      BY <2>1, PlaceGrows
    <2>4. j # k => Before(rows, order[j], order[k]) \/ Before(rows, order[k], order[j])
      <3>1. j # k => order[j] # order[k]
        BY <1>1, <2>1
      <3> QED
        BY <2>1, <3>1, OneIsBefore
    <2> QED
      BY <1>1, <2>2, <2>3, <2>4
  <1> QED
    BY <1>1, <1>2, <1>5, <1>6, <1>7, <1>8

-----------------------------------------------------------------------------
(* Folds over the subsets of a finite set: what they fold first is the     *)
(* element that take gives.                                                *)

Takes(take, S) == \A s \in SUBSET S : s # {} => take[s] \in s

IsFold(g, S, base, take, step) ==
  g = [s \in SUBSET S |-> IF s = {} THEN base ELSE step[<<take[s], g[s \ {take[s]}]>>]]

\* There is one: it is built up by the number of elements.
LEMMA FoldExists ==
  ASSUME NEW S, IsFiniteSet(S), NEW V, NEW base \in V, NEW take, Takes(take, S),
         NEW step \in [S \X V -> V]
  PROVE  \E g \in [SUBSET S -> V] : IsFold(g, S, base, take, step)
  <1> DEFINE Upto(n) == {s \in SUBSET S : Cardinality(s) <= n}
             Good(n, g) ==
               /\ g \in [SUBSET S -> V]
               /\ \A s \in Upto(n) :
                    g[s] = IF s = {} THEN base ELSE step[<<take[s], g[s \ {take[s]}]>>]
             Bad == {n \in Nat : ~\E g : Good(n, g)}
  <1>1. ASSUME NEW s \in SUBSET S
        PROVE  /\ IsFiniteSet(s) /\ Cardinality(s) \in Nat /\ Cardinality(s) <= Cardinality(S)
               /\ Cardinality(s) = 0 <=> s = {}
               /\ s # {} => /\ take[s] \in S /\ s \ {take[s]} \in SUBSET S
                            /\ Cardinality(s \ {take[s]}) = Cardinality(s) - 1
    <2>1. IsFiniteSet(s) /\ Cardinality(s) <= Cardinality(S)
      BY FS_Subset
    <2>2. Cardinality(s) \in Nat /\ (Cardinality(s) = 0 <=> s = {})
      BY <2>1, FS_CardinalityType, FS_EmptySet
    <2>3. s # {} => take[s] \in s
      BY DEF Takes
    <2>4. s # {} => Cardinality(s \ {take[s]}) = Cardinality(s) - 1
      BY <2>1, <2>3, FS_RemoveElement
    <2> QED
      BY <2>1, <2>2, <2>3, <2>4
  <1>2. \E g : Good(0, g)
    <2> DEFINE g == [s \in SUBSET S |-> base]
    <2>1. ASSUME NEW s \in Upto(0)
          PROVE  s = {}
      <3>1. s \in SUBSET S /\ Cardinality(s) <= 0
        OBVIOUS
      <3>2. Cardinality(s) \in Nat /\ (Cardinality(s) = 0 <=> s = {})
        BY <1>1, <3>1
      <3> QED
        BY <1>1, <3>1, <3>2
    <2>2. Good(0, g)
      BY <2>1
    <2> QED
      BY <2>2
  <1>3. ASSUME NEW n \in Nat, NEW g, Good(n, g)
        PROVE  \E h : Good(n + 1, h)
    <2> DEFINE h == [s \in SUBSET S |->
                       IF s \in Upto(n) THEN g[s] ELSE step[<<take[s], g[s \ {take[s]}]>>]]
    <2>1. ASSUME NEW s \in SUBSET S
          PROVE  h[s] \in V
      <3>1. CASE s \in Upto(n)
        BY <1>3, <3>1
      <3>2. CASE s \notin Upto(n)
        <4>1. s # {}
          BY <1>1, <3>2
        <4>2. <<take[s], g[s \ {take[s]}]>> \in S \X V
          BY <1>1, <1>3, <4>1
        <4> QED
          BY <3>2, <4>2
      <3> QED
        BY <3>1, <3>2
    <2>2. h \in [SUBSET S -> V]
      BY <2>1
    <2>3. ASSUME NEW s \in Upto(n + 1)
          PROVE  h[s] = IF s = {} THEN base ELSE step[<<take[s], h[s \ {take[s]}]>>]
      <3>1. s \in SUBSET S /\ Cardinality(s) <= n + 1
        OBVIOUS
      <3>2. CASE s = {}
        <4>1. Cardinality(s) = 0
          BY <1>1, <3>1, <3>2
        <4>2. s \in Upto(n)
          BY <1>3, <3>1, <4>1
        <4> QED
          BY <1>3, <3>2, <4>2
      <3>3. CASE s # {}
        <4> DEFINE t == s \ {take[s]}
        <4>1. t \in SUBSET S /\ Cardinality(t) = Cardinality(s) - 1 /\ Cardinality(s) \in Nat
          BY <1>1, <3>1, <3>3
        <4>2. t \in Upto(n)
          BY <3>1, <4>1
        <4>3. h[t] = g[t]
          BY <4>2
        <4>4. h[s] = step[<<take[s], g[t]>>]
          <5>1. CASE s \in Upto(n)
            BY <1>3, <3>3, <5>1
          <5>2. CASE s \notin Upto(n)
            BY <3>1, <5>2
          <5> QED
            BY <5>1, <5>2
        <4> QED
          BY <3>3, <4>3, <4>4
      <3> QED
        BY <3>2, <3>3
    <2>4. Good(n + 1, h)
      BY <2>2, <2>3
    <2> QED
      BY <2>4
  <1>4. Bad = {}
    <2> SUFFICES ASSUME Bad # {}
                 PROVE  FALSE
      OBVIOUS
    <2>1. PICK n \in Bad : \A k \in Bad : n <= k
      <3>1. Bad \subseteq Nat
        OBVIOUS
      <3> QED
        BY <3>1, LeastNat
    <2> HIDE DEF Good
    <2>2. n # 0
      <3>1. ~\E g : Good(n, g)
        OBVIOUS
      <3> HIDE DEF Bad
      <3> QED
        BY <1>2, <3>1
    <2> HIDE DEF Bad
    <2>3. n - 1 \in Nat /\ n - 1 \notin Bad
      <3>1. n \in Nat /\ n - 1 < n
        BY DEF Bad
      <3>2. ASSUME n - 1 \in Bad PROVE FALSE
        <4>1. n <= n - 1
          BY <2>1, <3>2
        <4> QED
          BY <3>1, <4>1
      <3> QED
        BY <2>2, <3>1, <3>2
    <2>4. PICK g : Good(n - 1, g)
      BY <2>3 DEF Bad
    <2>5. \E h : Good((n - 1) + 1, h)
      BY <1>3, <2>3, <2>4
    <2>6. (n - 1) + 1 = n /\ n \in Nat
      BY <2>3 DEF Bad
    <2> QED
      BY <2>1, <2>5, <2>6 DEF Bad
  <1>5. Cardinality(S) \in Nat
    BY FS_CardinalityType
  <1>6. PICK g : Good(Cardinality(S), g)
    BY <1>4, <1>5
  <1>7. Upto(Cardinality(S)) = SUBSET S
    BY <1>1
  <1>8. \A s \in SUBSET S :
          g[s] = IF s = {} THEN base ELSE step[<<take[s], g[s \ {take[s]}]>>]
    BY <1>6, <1>7
  <1>9. g \in [SUBSET S -> V]
    BY <1>6
  <1> HIDE DEF Good, Upto, Bad
  <1> QED
    BY <1>8, <1>9 DEF IsFold

-----------------------------------------------------------------------------
(* Replays. *)

Book == [holdings : [Symbols -> Nat], ok : BOOLEAN]

\* b has the book after each of the n rows of q.
IsReplay(b, q, n) ==
  /\ b \in [0..n -> Book] /\ b[0] = EmptyBook
  /\ \A k \in 1..n : b[k] = ApplyEntry(b[k - 1], q[k])

LEMMA ApplyType ==
  ASSUME NEW book \in Book, NEW e, IsRow(e)
  PROVE  ApplyEntry(book, e) \in Book
  <1> DEFINE held == book.holdings[e.symbol]
             new == IF e.type = "BUY" THEN held + e.qty
                    ELSE IF held - e.qty <= Epsilon THEN 0 ELSE held - e.qty
  <1>1. held \in Nat /\ e.qty \in Nat
    BY DEF Book, IsRow
  <1>2. new \in Nat
    BY <1>1, LedgerAssumption
  <1>3. \/ ApplyEntry(book, e) = book
        \/ ApplyEntry(book, e) = [book EXCEPT !.ok = FALSE]
        \/ ApplyEntry(book, e) = [book EXCEPT !.holdings[e.symbol] = new]
    BY <1>1 DEF ApplyEntry, Held, IsRow
  <1> HIDE DEF new
  <1>4. [book EXCEPT !.ok = FALSE] \in Book
    BY DEF Book
  <1>5. [book EXCEPT !.holdings[e.symbol] = new] \in Book
    BY <1>2 DEF Book
  <1> QED
    BY <1>3, <1>4, <1>5

\* A fold from the left replays.
LEMMA FoldReplays ==
  ASSUME NEW n \in Nat, NEW q, DOMAIN q = 1..n, \A k \in 1..n : IsRow(q[k])
  PROVE  \E b : IsReplay(b, q, n) /\ FoldLeft(ApplyEntry, EmptyBook, q) = b[n]
  <1> DEFINE D == 1..n
             take == [s \in SUBSET D |-> Max(s)]
             step == [p \in D \X Book |-> ApplyEntry(p[2], q[p[1]])]
             Eq(it) == it = [s \in SUBSET D |->
                               IF s = {} THEN EmptyBook
                               ELSE ApplyEntry(it[s \ {Max(s)}], q[Max(s)])]
             iter == CHOOSE it : Eq(it)
  <1>1. IsFiniteSet(D)
    BY FS_Interval
  <1>2. ASSUME NEW s \in SUBSET D, s # {}
        PROVE  Max(s) \in s
    <2> DEFINE R == {n - j : j \in s}
    <2>0. \A j \in s : j \in 1..n /\ n - j \in Nat /\ n - j \in R
      OBVIOUS
    <2>a. R \subseteq Nat /\ R # {} /\ \A r \in R : \E x \in s : r = n - x
      BY <1>2, <2>0
    <2> HIDE DEF R
    <2>1. PICK i \in R : \A k \in R : i <= k
      BY <2>a, LeastNat
    <2>2. PICK x \in s : i = n - x
      BY <2>a
    <2>3. \A y \in s : x >= y
      <3> TAKE y \in s
      <3>1. n - x <= n - y /\ x \in 1..n /\ y \in 1..n
        BY <2>0, <2>1, <2>2
      <3> QED
        BY <3>1
    <2> QED
      BY <2>3 DEF Max
  <1>3. EmptyBook \in Book
    BY DEF EmptyBook, Book
  <1>4. step \in [D \X Book -> Book]
    BY ApplyType
  <1>5. PICK g \in [SUBSET D -> Book] : IsFold(g, D, EmptyBook, take, step)
    BY <1>1, <1>2, <1>3, <1>4, FoldExists DEF Takes
  <1>6. Eq(g)
    <2>1. ASSUME NEW s \in SUBSET D, s # {}
          PROVE  step[<<take[s], g[s \ {take[s]}]>>] = ApplyEntry(g[s \ {Max(s)}], q[Max(s)])
      <3>1. take[s] = Max(s) /\ Max(s) \in D /\ g[s \ {Max(s)}] \in Book
        BY <1>2, <2>1
      <3> HIDE DEF take
      <3> QED
        BY <3>1
    <2>2. \A s \in SUBSET D : (IF s = {} THEN EmptyBook ELSE step[<<take[s], g[s \ {take[s]}]>>])
                            = (IF s = {} THEN EmptyBook ELSE ApplyEntry(g[s \ {Max(s)}], q[Max(s)]))
      <3> HIDE DEF step, take
      <3> QED
        BY <2>1
    <2> HIDE DEF step, take
    <2> QED
      BY <1>5, <2>2 DEF IsFold
  <1>7. Eq(iter)
    BY <1>6
  <1>8. FoldLeft(ApplyEntry, EmptyBook, q) = iter[D]
    BY DEF FoldLeft, MapThenFoldSet
  <1> HIDE DEF iter
  <1> DEFINE b == [k \in 0..n |-> iter[1..k]]
  <1>9. b[0] = EmptyBook
    <2>1. 1..0 = {} /\ 0 \in 0..n
      OBVIOUS
    <2> QED
      BY <1>7, <2>1
  <1>10. ASSUME NEW k \in 1..n
         PROVE  b[k] = ApplyEntry(b[k - 1], q[k])
    <2>1. /\ 1..k \in SUBSET D /\ 1..k # {} /\ k - 1 \in 0..n /\ k \in 0..n
      OBVIOUS
    <2>a. (1..k) \ {k} = 1..(k - 1)
      <3>1. k \in Nat /\ \A y : y \in (1..k) \ {k} <=> y \in 1..(k - 1)
        OBVIOUS
      <3> QED
        BY <3>1
    <2>2. Max(1..k) = k
      <3>0. Max(1..k) \in 1..k
        BY <1>2, <2>1
      <3>1. Max(1..k) \in 1..k /\ k \in 1..k
        BY <3>0
      <3>2. \A y \in 1..k : k >= y
        OBVIOUS
      <3>3. \A y \in 1..k : Max(1..k) >= y
        BY <3>1, <3>2 DEF Max
      <3> QED
        BY <3>1, <3>3
    <2>3. iter[1..k] = ApplyEntry(iter[(1..k) \ {Max(1..k)}], q[Max(1..k)])
      BY <1>7, <2>1
    <2> QED
      BY <2>1, <2>a, <2>2, <2>3
  <1>11. \A k \in 0..n : b[k] \in Book
    <2> DEFINE Bad == {k \in 0..n : b[k] \notin Book}
    <2> SUFFICES ASSUME Bad # {}
                 PROVE  FALSE
      OBVIOUS
    <2>1. PICK k \in Bad : \A j \in Bad : k <= j
      <3>1. Bad \subseteq Nat
        OBVIOUS
      <3> QED
        BY <3>1, LeastNat
    <2> HIDE DEF b
    <2>2. k \in 1..n /\ k - 1 \in 0..n
      BY <1>3, <1>9, <2>1
    <2>3. b[k - 1] \in Book
      <3>1. k - 1 < k
        BY <2>2
      <3> QED
        BY <2>1, <2>2, <3>1
    <2>4. b[k] \in Book
      BY <1>10, <2>2, <2>3, ApplyType
    <2> QED
      BY <2>1, <2>4
  <1>12. b \in [0..n -> Book] /\ b[n] = iter[D]
    BY <1>11
  <1> HIDE DEF b
  <1>13. IsReplay(b, q, n)
    BY <1>9, <1>10, <1>12 DEF IsReplay
  <1> QED
    BY <1>8, <1>12, <1>13

\* There is one replay of each list.
LEMMA ReplayUnique ==
  ASSUME NEW n \in Nat, NEW q, NEW b, NEW c, IsReplay(b, q, n), IsReplay(c, q, n)
  PROVE  b = c
  <1> DEFINE Bad == {k \in 0..n : b[k] # c[k]}
  <1>1. Bad = {}
    <2> SUFFICES ASSUME Bad # {}
                 PROVE  FALSE
      OBVIOUS
    <2>1. PICK k \in Bad : \A j \in Bad : k <= j
      <3>1. Bad \subseteq Nat
        OBVIOUS
      <3> QED
        BY <3>1, LeastNat
    <2>2. k \in 1..n /\ k - 1 \in 0..n
      BY <2>1 DEF IsReplay
    <2>3. k - 1 < k
      BY <2>2
    <2>4. b[k - 1] = c[k - 1]
      BY <2>1, <2>2, <2>3
    <2> QED
      BY <2>1, <2>2, <2>4 DEF IsReplay
  <1> QED
    BY <1>1 DEF IsReplay

\* What calculateLedgerHoldings returns is the last book of the replay of the
\* rows in their order.
LEMMA LedgerReplays ==
  ASSUME NEW rows, AreRows(rows)
  PROVE  /\ Count(rows) \in Nat /\ DOMAIN InTradeOrder(rows) = 1..Count(rows)
         /\ \A k \in 1..Count(rows) : /\ InTradeOrder(rows)[k] = rows[TradeOrder(rows)[k]]
                                      /\ IsRow(InTradeOrder(rows)[k])
         /\ \E b : /\ IsReplay(b, InTradeOrder(rows), Count(rows))
                   /\ calculateLedgerHoldings(rows) = b[Count(rows)]
  <1> DEFINE n == Count(rows)
             q == InTradeOrder(rows)
  <1>1. n \in Nat /\ TradeOrder(rows) \in [1..n -> DOMAIN rows]
    BY OrderIs
  <1>2. DOMAIN q = 1..n /\ \A k \in 1..n : q[k] = rows[TradeOrder(rows)[k]]
    BY <1>1 DEF InTradeOrder
  <1>3. \A k \in 1..n : IsRow(q[k])
    BY <1>1, <1>2 DEF AreRows
  <1>4. calculateLedgerHoldings(rows) = FoldLeft(ApplyEntry, EmptyBook, q)
    BY DEF calculateLedgerHoldings
  <1> HIDE DEF n, q
  <1>5. \E b : IsReplay(b, q, n) /\ FoldLeft(ApplyEntry, EmptyBook, q) = b[n]
    BY <1>1, <1>2, <1>3, FoldReplays
  <1> QED
    BY <1>1, <1>2, <1>3, <1>4, <1>5 DEF n, q

-----------------------------------------------------------------------------
(* Totals. *)

\* Of the sets of a family one has the fewest elements.
LEMMA FewestElements ==
  ASSUME NEW D, IsFiniteSet(D), NEW F, F \subseteq SUBSET D, F # {}
  PROVE  \E s \in F : /\ IsFiniteSet(s) /\ s \subseteq D
                      /\ \A x \in s : s \ {x} \notin F
  <1> DEFINE C == {Cardinality(s) : s \in F}
  <1>1. \A s \in F : IsFiniteSet(s) /\ Cardinality(s) \in Nat
    BY FS_Subset, FS_CardinalityType
  <1>2. C \subseteq Nat /\ C # {}
    BY <1>1
  <1>3. PICK c \in C : \A d \in C : c <= d
    BY <1>2, LeastNat
  <1>4. PICK s \in F : c = Cardinality(s)
    OBVIOUS
  <1>5. ASSUME NEW x \in s, s \ {x} \in F
        PROVE  FALSE
    <2>1. Cardinality(s \ {x}) = Cardinality(s) - 1
      BY <1>1, FS_RemoveElement
    <2>2. Cardinality(s) <= Cardinality(s \ {x})
      BY <1>3, <1>4, <1>5
    <2> QED
      BY <1>1, <2>1, <2>2
  <1> QED
    BY <1>1, <1>5

Some(s) == CHOOSE x \in s : TRUE

IsSum(it, rows, S) ==
  it = [s \in SUBSET S |->
          IF s = {} THEN 0 ELSE rows[Some(s)].qty + it[s \ {Some(s)}]]

\* The sum that Total takes: over each of its subsets it has a value.
LEMMA SumExists ==
  ASSUME NEW rows, AreRows(rows), NEW S, S \subseteq DOMAIN rows
  PROVE  \E it : IsSum(it, rows, S) /\ Total(rows, S) = it[S]
  <1> DEFINE take == [s \in SUBSET S |-> Some(s)]
             step == [p \in S \X Nat |-> rows[p[1]].qty + p[2]]
             iter == CHOOSE it : IsSum(it, rows, S)
  <1>1. IsFiniteSet(S)
    BY FS_Subset DEF AreRows
  <1>2. \A s \in SUBSET S : s # {} => Some(s) \in s
    BY DEF Some
  <1>3. step \in [S \X Nat -> Nat]
    BY DEF AreRows, IsRow
  <1>4. Takes(take, S)
    BY <1>2 DEF Takes
  <1>5. PICK g \in [SUBSET S -> Nat] : IsFold(g, S, 0, take, step)
    <2> HIDE DEF take, step
    <2> QED
      BY <1>1, <1>3, <1>4, FoldExists
  <1>6. IsSum(g, rows, S)
    <2>1. ASSUME NEW s \in SUBSET S, s # {}
          PROVE  step[<<take[s], g[s \ {take[s]}]>>] = rows[Some(s)].qty + g[s \ {Some(s)}]
      <3>1. take[s] = Some(s) /\ Some(s) \in S /\ g[s \ {Some(s)}] \in Nat
        BY <1>2, <2>1
      <3> HIDE DEF take
      <3> QED
        BY <3>1
    <2>2. \A s \in SUBSET S : (IF s = {} THEN 0 ELSE step[<<take[s], g[s \ {take[s]}]>>])
                            = (IF s = {} THEN 0 ELSE rows[Some(s)].qty + g[s \ {Some(s)}])
      <3> HIDE DEF step, take
      <3> QED
        BY <2>1
    <2> HIDE DEF step, take
    <2> QED
      BY <1>5, <2>2 DEF IsFold, IsSum
  <1>7. IsSum(iter, rows, S)
    BY <1>6
  <1>8. Total(rows, S) = iter[S]
    BY DEF Total, MapThenSumSet, MapThenFoldSet, IsSum, Some
  <1> QED
    BY <1>7, <1>8

\* Total takes one of the elements, and then the others.
LEMMA TotalStep ==
  ASSUME NEW rows, AreRows(rows), NEW S, S \subseteq DOMAIN rows
  PROVE  /\ S = {} => Total(rows, S) = 0
         /\ S # {} => Some(S) \in S /\ Total(rows, S) = rows[Some(S)].qty + Total(rows, S \ {Some(S)})
  <1>1. PICK it : IsSum(it, rows, S) /\ Total(rows, S) = it[S]
    BY SumExists
  <1>2. CASE S = {}
    BY <1>1, <1>2 DEF IsSum
  <1>3. CASE S # {}
    <2> DEFINE T == S \ {Some(S)}
    <2>1. Some(S) \in S
      BY <1>3 DEF Some
    <2>2. PICK jt : IsSum(jt, rows, T) /\ Total(rows, T) = jt[T]
      <3>1. T \subseteq DOMAIN rows
        OBVIOUS
      <3> HIDE DEF T
      <3> QED
        BY <3>1, SumExists
    <2> DEFINE F == {s \in SUBSET T : it[s] # jt[s]}
    <2>3. F = {}
      <3> SUFFICES ASSUME F # {}
                   PROVE  FALSE
        OBVIOUS
      <3>1. F \subseteq SUBSET T /\ IsFiniteSet(T) /\ F # {}
        BY FS_Subset DEF AreRows
      <3> HIDE DEF F, T
      <3>a. \E s \in F : /\ IsFiniteSet(s) /\ s \subseteq T
                          /\ \A x \in s : s \ {x} \notin F
        BY <3>1, FewestElements
      <3>2. PICK s \in F : s \subseteq T /\ \A x \in s : s \ {x} \notin F
        BY <3>a
      <3>3. s \in SUBSET T /\ s \in SUBSET S
        BY <3>2 DEF T
      <3>4. CASE s = {}
        <4>1. it[s] = 0 /\ jt[s] = 0
          BY <1>1, <2>2, <3>3, <3>4 DEF IsSum
        <4> QED
          BY <4>1 DEF F
      <3>5. CASE s # {}
        <4>1. Some(s) \in s
          BY <3>5 DEF Some
        <4>2. it[s \ {Some(s)}] = jt[s \ {Some(s)}]
          BY <3>2, <3>3, <4>1 DEF F
        <4>3. it[s] = rows[Some(s)].qty + it[s \ {Some(s)}]
          BY <1>1, <3>3, <3>5 DEF IsSum
        <4>4. jt[s] = rows[Some(s)].qty + jt[s \ {Some(s)}]
          BY <2>2, <3>3, <3>5 DEF IsSum
        <4> QED
          BY <4>2, <4>3, <4>4 DEF F
      <3> QED
        BY <3>4, <3>5
    <2>4. it[T] = jt[T]
      BY <2>3
    <2>5. it[S] = rows[Some(S)].qty + it[T]
      BY <1>1, <1>3 DEF IsSum
    <2> QED
      BY <1>1, <1>3, <2>1, <2>2, <2>4, <2>5
  <1> QED
    BY <1>2, <1>3

LEMMA TotalType ==
  ASSUME NEW rows, AreRows(rows), NEW S, S \subseteq DOMAIN rows
  PROVE  Total(rows, S) \in Nat
  <1> DEFINE D == DOMAIN rows
             F == {s \in SUBSET D : Total(rows, s) \notin Nat}
  <1>1. F = {}
    <2> SUFFICES ASSUME F # {}
                 PROVE  FALSE
      OBVIOUS
    <2>1. F \subseteq SUBSET D /\ IsFiniteSet(D)
      BY DEF AreRows
    <2> HIDE DEF F
    <2>2. PICK s \in F : s \subseteq D /\ \A x \in s : s \ {x} \notin F
      BY <2>1, FewestElements
    <2>3. CASE s = {}
      <3>1. Total(rows, s) = 0
        BY <2>2, <2>3, TotalStep
      <3> QED
        BY <3>1 DEF F
    <2>4. CASE s # {}
      <3>1. Some(s) \in s /\ Total(rows, s) = rows[Some(s)].qty + Total(rows, s \ {Some(s)})
        BY <2>2, <2>4, TotalStep
      <3>2. Total(rows, s \ {Some(s)}) \in Nat
        BY <2>2, <3>1 DEF F
      <3>3. rows[Some(s)].qty \in Nat
        BY <2>2, <3>1 DEF AreRows, IsRow
      <3> QED
        BY <3>1, <3>2, <3>3 DEF F
    <2> QED
      BY <2>3, <2>4
  <1> QED
    BY <1>1

\* Whatever it takes first, an element adds what it has.
LEMMA TotalRemoves ==
  ASSUME NEW rows, AreRows(rows), NEW S, S \subseteq DOMAIN rows, NEW i \in S
  PROVE  Total(rows, S) = Total(rows, S \ {i}) + rows[i].qty
  <1> DEFINE D == DOMAIN rows
             F == {s \in SUBSET D : \E y \in s : Total(rows, s) # Total(rows, s \ {y}) + rows[y].qty}
  <1>1. F = {}
    <2> SUFFICES ASSUME F # {}
                 PROVE  FALSE
      OBVIOUS
    <2>1. F \subseteq SUBSET D /\ IsFiniteSet(D)
      BY DEF AreRows
    <2> HIDE DEF F
    <2>2. PICK s \in F : s \subseteq D /\ \A x \in s : s \ {x} \notin F
      BY <2>1, FewestElements
    <2>3. PICK y \in s : Total(rows, s) # Total(rows, s \ {y}) + rows[y].qty
      BY DEF F
    <2> DEFINE x == Some(s)
    <2>4. x \in s /\ Total(rows, s) = rows[x].qty + Total(rows, s \ {x})
      BY <2>2, <2>3, TotalStep
    <2> HIDE DEF x
    <2>5. \A t \in SUBSET D : Total(rows, t) \in Nat
      BY TotalType
    <2>6. rows[x].qty \in Nat /\ rows[y].qty \in Nat
      BY <2>2, <2>3, <2>4 DEF AreRows, IsRow
    <2>7. x # y
      <3>1. Total(rows, s \ {x}) \in Nat /\ Total(rows, s \ {y}) \in Nat
        BY <2>2, <2>5
      <3>2. x = y => Total(rows, s) = Total(rows, s \ {y}) + rows[y].qty
        BY <2>4, <2>6, <3>1
      <3> QED
        BY <2>3, <3>2
    <2>8. Total(rows, s \ {x}) = Total(rows, (s \ {x}) \ {y}) + rows[y].qty
      <3>1. s \ {x} \in SUBSET D /\ s \ {x} \notin F /\ y \in s \ {x}
        BY <2>2, <2>3, <2>4, <2>7
      <3> QED
        BY <3>1 DEF F
    <2>9. Total(rows, s \ {y}) = Total(rows, (s \ {y}) \ {x}) + rows[x].qty
      <3>1. s \ {y} \in SUBSET D /\ s \ {y} \notin F /\ x \in s \ {y}
        BY <2>2, <2>3, <2>4, <2>7
      <3> QED
        BY <3>1 DEF F
    <2>10. (s \ {x}) \ {y} = (s \ {y}) \ {x} /\ (s \ {x}) \ {y} \in SUBSET D
      BY <2>2
    <2> QED
      BY <2>3, <2>4, <2>5, <2>6, <2>8, <2>9, <2>10
  <1> QED
    BY <1>1

-----------------------------------------------------------------------------
(* One row of the replay. *)

Left(held, e) ==
  IF e.type = "BUY" THEN held + e.qty
  ELSE IF held - e.qty <= Epsilon THEN 0 ELSE held - e.qty

LEMMA ApplyIs ==
  ASSUME NEW book \in Book, NEW e, IsRow(e)
  PROVE  LET held == book.holdings[e.symbol]
             new == ApplyEntry(book, e)
         IN  /\ held \in Nat /\ Left(held, e) \in Nat
             /\ ~book.ok => new = book
             /\ new.ok <=> book.ok /\ ~(e.type = "SELL" /\ Refused(held, e.qty))
             /\ new.ok => \A s \in Symbols :
                  new.holdings[s] = IF s = e.symbol THEN Left(held, e) ELSE book.holdings[s]
  <1> DEFINE held == book.holdings[e.symbol]
             new == ApplyEntry(book, e)
  <1>1. held \in Nat /\ e.qty \in Nat /\ e.symbol \in Symbols /\ e.type \in {"BUY", "SELL"}
    BY DEF Book, IsRow
  <1>2. Left(held, e) \in Nat
    BY <1>1, LedgerAssumption DEF Left
  <1>3. /\ ~book.ok => new = book
        /\ book.ok /\ e.type = "SELL" /\ Refused(held, e.qty) => new = [book EXCEPT !.ok = FALSE]
        /\ book.ok /\ ~(e.type = "SELL" /\ Refused(held, e.qty)) =>
             new = [book EXCEPT !.holdings[e.symbol] = Left(held, e)]
    BY <1>1 DEF ApplyEntry, Held, Left
  <1>4. /\ ~[book EXCEPT !.ok = FALSE].ok
        /\ [book EXCEPT !.holdings[e.symbol] = Left(held, e)].ok = book.ok
        /\ \A s \in Symbols : [book EXCEPT !.holdings[e.symbol] = Left(held, e)].holdings[s]
                                = IF s = e.symbol THEN Left(held, e) ELSE book.holdings[s]
    BY DEF Book
  <1> HIDE DEF new
  <1>5. new.ok <=> book.ok /\ ~(e.type = "SELL" /\ Refused(held, e.qty))
    BY <1>3, <1>4
  <1>6. new.ok => \A s \in Symbols :
          new.holdings[s] = IF s = e.symbol THEN Left(held, e) ELSE book.holdings[s]
    BY <1>3, <1>4, <1>5
  <1> QED
    BY <1>1, <1>2, <1>3, <1>5, <1>6 DEF new

-----------------------------------------------------------------------------
(* The rows replayed so far, and what they add up to. *)

FirstRows(rows, k) == {TradeOrder(rows)[j] : j \in 1..k}
FirstOf(rows, k, s) == {i \in FirstRows(rows, k) : rows[i].symbol = s}

LEMMA FirstAre ==
  ASSUME NEW rows, AreRows(rows)
  PROVE  /\ FirstRows(rows, 0) = {} /\ FirstRows(rows, Count(rows)) = DOMAIN rows
         /\ \A k \in 0..Count(rows) : FirstRows(rows, k) \subseteq DOMAIN rows
         /\ \A k \in 1..Count(rows) :
              LET i == TradeOrder(rows)[k]
              IN  /\ i \in DOMAIN rows /\ i \notin FirstRows(rows, k - 1)
                  /\ FirstRows(rows, k) = FirstRows(rows, k - 1) \cup {i}
                  /\ Preceding(rows, i) = FirstRows(rows, k - 1)
                  /\ Earlier(rows, i) = FirstOf(rows, k - 1, rows[i].symbol)
  <1> DEFINE n == Count(rows)
             order == TradeOrder(rows)
             D == DOMAIN rows
  <1>1. /\ n \in Nat /\ order \in [1..n -> D]
        /\ \A i \in D : \E j \in 1..n : order[j] = i
        /\ \A j, k \in 1..n : Before(rows, order[j], order[k]) <=> j < k
    BY OrderIs
  <1> HIDE DEF n, order, D
  <1>2. \A k \in 0..n : FirstRows(rows, k) = {order[j] : j \in 1..k}
    BY DEF FirstRows, order
  <1>3. FirstRows(rows, 0) = {}
    <2>1. 1..0 = {} /\ 0 \in 0..n
      BY <1>1
    <2> QED
      BY <1>2, <2>1
  <1>4. \A k \in 0..n : FirstRows(rows, k) \subseteq D
    BY <1>1, <1>2
  <1>5. FirstRows(rows, n) = D
    <2>1. n \in 0..n /\ \A j \in 1..n : order[j] \in D
      BY <1>1
    <2>2. FirstRows(rows, n) = {order[j] : j \in 1..n}
      BY <1>2, <2>1
    <2> QED
      BY <1>1, <2>1, <2>2
  <1>6. ASSUME NEW k \in 1..n
        PROVE  LET i == order[k]
               IN  /\ i \in D /\ i \notin FirstRows(rows, k - 1)
                   /\ FirstRows(rows, k) = FirstRows(rows, k - 1) \cup {i}
                   /\ Preceding(rows, i) = FirstRows(rows, k - 1)
    <2>1. k - 1 \in 0..n /\ k \in 0..n /\ k \in 1..k /\ k \in Nat
      BY <1>1
    <2>2. \A j : j \in 1..k <=> j \in 1..(k - 1) \/ j = k
      BY <2>1
    <2>3. \A j \in 1..(k - 1) : j \in 1..n /\ j < k
      BY <1>1
    <2>4. ~Before(rows, order[k], order[k]) /\ order[k] \in D
      BY <1>1
    <2>5. order[k] \notin FirstRows(rows, k - 1)
      BY <1>1, <1>2, <2>1, <2>3, <2>4
    <2>6. FirstRows(rows, k) = FirstRows(rows, k - 1) \cup {order[k]}
      BY <1>2, <2>1, <2>2
    <2>7. Preceding(rows, order[k]) = FirstRows(rows, k - 1)
      <3>1. ASSUME NEW x \in Preceding(rows, order[k])
            PROVE  x \in FirstRows(rows, k - 1)
        <4>1. x \in D /\ Before(rows, x, order[k])
          BY DEF Preceding, D
        <4>2. PICK j \in 1..n : order[j] = x
          BY <1>1, <4>1
        <4>3. j \in 1..(k - 1)
          BY <1>1, <4>1, <4>2
        <4> QED
          BY <1>2, <2>1, <4>2, <4>3
      <3>2. ASSUME NEW x \in FirstRows(rows, k - 1)
            PROVE  x \in Preceding(rows, order[k])
        <4>1. PICK j \in 1..(k - 1) : order[j] = x
          BY <1>2, <2>1
        <4>2. x \in D /\ Before(rows, x, order[k])
          BY <1>1, <2>3, <4>1
        <4> QED
          BY <4>2 DEF Preceding, D
      <3> QED
        BY <3>1, <3>2
    <2> QED
      BY <2>4, <2>5, <2>6, <2>7
  <1>7. \A k \in 1..n : Earlier(rows, order[k]) = FirstOf(rows, k - 1, rows[order[k]].symbol)
    BY <1>6 DEF Earlier, FirstOf
  <1> QED
    BY <1>3, <1>4, <1>5, <1>6, <1>7 DEF n, order, D

LEMMA NetType ==
  ASSUME NEW rows, AreRows(rows), NEW S, S \subseteq DOMAIN rows
  PROVE  Net(rows, S) \in Int /\ SlackOf(rows, S) \in Nat
  <1>1. \A type : OfType(rows, S, type) \subseteq DOMAIN rows /\ IsFiniteSet(OfType(rows, S, type))
    BY FS_Subset DEF OfType, AreRows
  <1>2. Total(rows, OfType(rows, S, "BUY")) \in Nat /\ Total(rows, OfType(rows, S, "SELL")) \in Nat
    BY <1>1, TotalType
  <1>3. Cardinality(OfType(rows, S, "SELL")) \in Nat
    BY <1>1, FS_CardinalityType
  <1> QED
    BY <1>2, <1>3, LedgerAssumption DEF Net, SlackOf

\* A row more: bought or sold, and a tolerance for what is sold.
LEMMA NetGrows ==
  ASSUME NEW rows, AreRows(rows), NEW S, S \subseteq DOMAIN rows, NEW i \in DOMAIN rows \ S
  PROVE  /\ rows[i].type = "BUY" => /\ Net(rows, S \cup {i}) = Net(rows, S) + rows[i].qty
                                    /\ SlackOf(rows, S \cup {i}) = SlackOf(rows, S)
         /\ rows[i].type = "SELL" => /\ Net(rows, S \cup {i}) = Net(rows, S) - rows[i].qty
                                     /\ SlackOf(rows, S \cup {i}) = SlackOf(rows, S) + Epsilon
  <1> DEFINE Kind(T, type) == OfType(rows, T, type)
             T == S \cup {i}
  <1>1. \A type : Kind(S, type) \subseteq DOMAIN rows /\ IsFiniteSet(Kind(S, type)) /\ i \notin Kind(S, type)
    BY FS_Subset DEF OfType, AreRows
  <1>2. \A type : Kind(T, type) = IF rows[i].type = type THEN Kind(S, type) \cup {i} ELSE Kind(S, type)
    BY DEF OfType
  <1> HIDE DEF Kind
  <1>3. ASSUME NEW type, rows[i].type = type
        PROVE  /\ Total(rows, Kind(T, type)) = Total(rows, Kind(S, type)) + rows[i].qty
               /\ Cardinality(Kind(T, type)) = Cardinality(Kind(S, type)) + 1
    <2>1. Kind(T, type) = Kind(S, type) \cup {i} /\ i \in Kind(T, type)
      BY <1>2, <1>3
    <2>2. Kind(T, type) \ {i} = Kind(S, type) /\ Kind(T, type) \subseteq DOMAIN rows
      BY <1>1, <2>1
    <2>3. Total(rows, Kind(T, type)) = Total(rows, Kind(S, type)) + rows[i].qty
      BY <2>1, <2>2, TotalRemoves
    <2>4. Cardinality(Kind(T, type)) = Cardinality(Kind(S, type)) + 1
      BY <1>1, <2>1, FS_AddElement
    <2> QED
      BY <2>3, <2>4
  <1>4. /\ Total(rows, Kind(S, "BUY")) \in Nat /\ Total(rows, Kind(S, "SELL")) \in Nat
        /\ Cardinality(Kind(S, "SELL")) \in Nat /\ rows[i].qty \in Nat
    BY <1>1, TotalType, FS_CardinalityType DEF AreRows, IsRow
  <1>5. CASE rows[i].type = "BUY"
    <2>1. Kind(T, "SELL") = Kind(S, "SELL")
      BY <1>2, <1>5
    <2>2. Total(rows, Kind(T, "BUY")) = Total(rows, Kind(S, "BUY")) + rows[i].qty
      BY <1>3, <1>5
    <2> QED
      BY <1>4, <1>5, <2>1, <2>2 DEF Net, SlackOf, Kind
  <1>6. CASE rows[i].type = "SELL"
    <2>1. Kind(T, "BUY") = Kind(S, "BUY")
      BY <1>2, <1>6
    <2>2. /\ Total(rows, Kind(T, "SELL")) = Total(rows, Kind(S, "SELL")) + rows[i].qty
          /\ Cardinality(Kind(T, "SELL")) = Cardinality(Kind(S, "SELL")) + 1
      BY <1>3, <1>6
    <2>3. \A c \in Nat : Epsilon * (c + 1) = Epsilon * c + Epsilon
      BY LedgerAssumption
    <2>4. Epsilon * Cardinality(Kind(T, "SELL")) = Epsilon * Cardinality(Kind(S, "SELL")) + Epsilon
      BY <1>4, <2>2, <2>3
    <2> QED
      BY <1>4, <1>6, <2>1, <2>2, <2>4 DEF Net, SlackOf, Kind
  <1> QED
    BY <1>5, <1>6

LEMMA NothingNets ==
  ASSUME NEW rows, AreRows(rows)
  PROVE  Net(rows, {}) = 0 /\ SlackOf(rows, {}) = 0
  <1>1. \A type : OfType(rows, {}, type) = {}
    BY DEF OfType
  <1>2. Total(rows, {}) = 0
    BY TotalStep
  <1>3. Cardinality({}) = 0 /\ Epsilon * 0 = 0
    BY FS_EmptySet, LedgerAssumption
  <1>4. Net(rows, {}) = 0
    BY <1>1, <1>2 DEF Net
  <1>5. SlackOf(rows, {}) = 0
    BY <1>1, <1>3 DEF SlackOf
  <1> QED
    BY <1>4, <1>5

-----------------------------------------------------------------------------
(* A replay and the balances. *)

\* While no SELL was refused, what is held of a symbol is its balance, but for
\* the tolerances that its SELLs have spent.
InBalance(rows, book, k) ==
  book.ok => \A s \in Symbols :
    LET S == FirstOf(rows, k, s)
    IN  /\ book.holdings[s] <= Net(rows, S) + SlackOf(rows, S)
        /\ Net(rows, S) - SlackOf(rows, S) <= book.holdings[s]

LEMMA BalanceKept ==
  ASSUME NEW rows, AreRows(rows), NEW k \in 1..Count(rows), NEW book \in Book,
         InBalance(rows, book, k - 1)
  PROVE  InBalance(rows, ApplyEntry(book, rows[TradeOrder(rows)[k]]), k)
  <1> DEFINE i == TradeOrder(rows)[k]
             e == rows[i]
             new == ApplyEntry(book, e)
             S(s) == FirstOf(rows, k - 1, s)
             T(s) == FirstOf(rows, k, s)
  <1>0. Count(rows) \in Nat /\ k - 1 \in 0..Count(rows) /\ k \in 0..Count(rows)
    BY OrderIs
  <1>1. /\ i \in DOMAIN rows /\ i \notin FirstRows(rows, k - 1)
        /\ FirstRows(rows, k) = FirstRows(rows, k - 1) \cup {i}
        /\ FirstRows(rows, k - 1) \subseteq DOMAIN rows
    BY <1>0, FirstAre
  <1>2. IsRow(e)
    BY <1>1 DEF AreRows
  <1> HIDE DEF i
  <1> SUFFICES ASSUME new.ok, NEW s \in Symbols
               PROVE  /\ new.holdings[s] <= Net(rows, T(s)) + SlackOf(rows, T(s))
                      /\ Net(rows, T(s)) - SlackOf(rows, T(s)) <= new.holdings[s]
    BY DEF InBalance, i
  <1>3. /\ book.ok /\ ~(e.type = "SELL" /\ Refused(book.holdings[e.symbol], e.qty))
        /\ book.holdings[e.symbol] \in Nat /\ e.qty \in Nat /\ e.type \in {"BUY", "SELL"}
        /\ new.holdings[s] = IF s = e.symbol THEN Left(book.holdings[e.symbol], e) ELSE book.holdings[s]
    BY <1>2, ApplyIs DEF IsRow
  <1>4. S(s) \subseteq DOMAIN rows /\ i \notin S(s)
    BY <1>1 DEF FirstOf
  <1>5. /\ book.holdings[s] <= Net(rows, S(s)) + SlackOf(rows, S(s))
        /\ Net(rows, S(s)) - SlackOf(rows, S(s)) <= book.holdings[s]
    BY <1>3 DEF InBalance
  <1>6. Net(rows, S(s)) \in Int /\ SlackOf(rows, S(s)) \in Nat
    BY <1>4, NetType
  <1>7. T(s) = IF e.symbol = s THEN S(s) \cup {i} ELSE S(s)
    BY <1>1 DEF FirstOf
  <1> HIDE DEF S, T, e, new
  <1>8. CASE e.symbol # s
    BY <1>3, <1>5, <1>7, <1>8
  <1>9. CASE e.symbol = s
    <2> DEFINE held == book.holdings[s]
    <2>1. /\ e.type = "BUY" => /\ Net(rows, T(s)) = Net(rows, S(s)) + e.qty
                               /\ SlackOf(rows, T(s)) = SlackOf(rows, S(s))
          /\ e.type = "SELL" => /\ Net(rows, T(s)) = Net(rows, S(s)) - e.qty
                                /\ SlackOf(rows, T(s)) = SlackOf(rows, S(s)) + Epsilon
      BY <1>1, <1>4, <1>7, <1>9, NetGrows DEF e
    <2>2. new.holdings[s] = Left(held, e) /\ held \in Nat
      BY <1>3, <1>9
    <2>3. CASE e.type = "BUY"
      <3>1. new.holdings[s] = held + e.qty
        BY <2>2, <2>3 DEF Left
      <3> HIDE DEF held
      <3> QED
        BY <1>3, <1>5, <1>6, <2>1, <2>2, <2>3, <3>1 DEF held
    <2>4. CASE e.type = "SELL"
      <3>1. new.holdings[s] = IF held - e.qty <= Epsilon THEN 0 ELSE held - e.qty
        BY <2>2, <2>4 DEF Left
      <3>2. e.qty <= held + Epsilon
        BY <1>3, <1>9, <2>2, <2>4, LedgerAssumption DEF Refused
      <3> QED
        BY <1>3, <1>5, <1>6, <2>1, <2>2, <2>4, <3>1, <3>2, LedgerAssumption
    <2> QED
      BY <1>3, <2>3, <2>4
  <1> QED
    BY <1>8, <1>9

\* The replay of some rows stays in balance, and once a SELL was refused it
\* ends.
LEMMA ReplayInBalance ==
  ASSUME NEW rows, AreRows(rows), NEW b, IsReplay(b, InTradeOrder(rows), Count(rows))
  PROVE  /\ \A k \in 0..Count(rows) : b[k] \in Book /\ InBalance(rows, b[k], k)
         /\ \A k \in 1..Count(rows) : /\ b[k] = ApplyEntry(b[k - 1], rows[TradeOrder(rows)[k]])
                                      /\ IsRow(rows[TradeOrder(rows)[k]])
         /\ b[Count(rows)].ok => \A k \in 0..Count(rows) : b[k].ok
  <1> DEFINE n == Count(rows)
             q == InTradeOrder(rows)
  <1>1. n \in Nat /\ \A k \in 1..n : q[k] = rows[TradeOrder(rows)[k]] /\ IsRow(q[k])
    BY LedgerReplays
  <1>2. /\ b[0] = EmptyBook /\ \A k \in 0..n : b[k] \in Book
        /\ \A k \in 1..n : b[k] = ApplyEntry(b[k - 1], rows[TradeOrder(rows)[k]])
    BY <1>1 DEF IsReplay
  <1> HIDE DEF n, q
  <1>3. InBalance(rows, b[0], 0)
    <2>1. \A s \in Symbols : FirstOf(rows, 0, s) = {}
      BY FirstAre DEF FirstOf
    <2>2. \A s \in Symbols : b[0].holdings[s] = 0
      BY <1>2 DEF EmptyBook
    <2> QED
      BY <2>1, <2>2, NothingNets DEF InBalance
  <1>4. \A k \in 0..n : InBalance(rows, b[k], k)
    <2> DEFINE Bad == {k \in 0..n : ~InBalance(rows, b[k], k)}
    <2> SUFFICES ASSUME Bad # {}
                 PROVE  FALSE
      OBVIOUS
    <2>1. PICK k \in Bad : \A j \in Bad : k <= j
      <3>1. Bad \subseteq Nat
        OBVIOUS
      <3> QED
        BY <3>1, LeastNat
    <2>2. k \in 0..n /\ ~InBalance(rows, b[k], k) /\ k # 0
      BY <1>3
    <2>3. k \in 1..n /\ k - 1 \in 0..n /\ k - 1 < k
      BY <1>1, <2>2
    <2>4. InBalance(rows, b[k - 1], k - 1)
      BY <2>1, <2>3
    <2>5. InBalance(rows, ApplyEntry(b[k - 1], rows[TradeOrder(rows)[k]]), k)
      BY <1>2, <2>3, <2>4, BalanceKept DEF n
    <2> QED
      BY <1>2, <2>2, <2>3, <2>5
  <1>5. \A k \in 1..n : b[k].ok => b[k - 1].ok
    <2> TAKE k \in 1..n
    <2>1. k - 1 \in 0..n
      BY <1>1
    <2> QED
      BY <1>1, <1>2, <2>1, ApplyIs
  <1>6. ASSUME b[n].ok
        PROVE  \A k \in 0..n : b[k].ok
    <2> DEFINE Bad == {m \in 0..n : ~b[n - m].ok}
    <2> SUFFICES ASSUME NEW k \in 0..n, ~b[k].ok
                 PROVE  FALSE
      OBVIOUS
    <2>1. PICK m \in Bad : \A j \in Bad : m <= j
      <3>1. Bad \subseteq Nat
        OBVIOUS
      <3>2. n - k \in Bad
        <4>1. n - k \in 0..n /\ n - (n - k) = k
          BY <1>1
        <4> QED
          BY <4>1
      <3> QED
        BY <3>1, <3>2, LeastNat
    <2>2. m \in 0..n /\ ~b[n - m].ok /\ m # 0
      <3>1. n - 0 = n
        BY <1>1
      <3> QED
        BY <1>6, <3>1
    <2>3. /\ m - 1 \in 0..n /\ m - 1 < m
          /\ n - m + 1 \in 1..n /\ (n - m + 1) - 1 = n - m /\ n - (m - 1) = n - m + 1
      BY <1>1, <2>2
    <2>4. b[n - m + 1].ok
      BY <2>1, <2>3
    <2> QED
      BY <1>5, <2>2, <2>3, <2>4
  <1> QED
    BY <1>1, <1>2, <1>4, <1>6 DEF n, q

-----------------------------------------------------------------------------
(* What a SELL finds. *)

LEMMA AcceptedRowsAreCovered ==
  ASSUME NEW rows, AreRows(rows), LedgerAccepts(rows),
         NEW i \in OfType(rows, DOMAIN rows, "SELL")
  PROVE  rows[i].qty <= Balance(rows, i) + Slack(rows, i) + Epsilon
  <1> DEFINE n == Count(rows)
             k == Place(rows, i) + 1
             s == rows[i].symbol
             S == FirstOf(rows, k - 1, s)
  <1>1. PICK b : IsReplay(b, InTradeOrder(rows), n) /\ calculateLedgerHoldings(rows) = b[n]
    BY LedgerReplays
  <1>2. /\ n \in Nat /\ k \in 1..n /\ TradeOrder(rows)[k] = i /\ rows[i].type = "SELL"
        /\ i \in DOMAIN rows /\ s \in Symbols /\ rows[i].qty \in Nat
    BY OrderIs DEF OfType, AreRows, IsRow
  <1> HIDE DEF n, k
  <1>3. b[n].ok /\ k \in 0..n /\ k - 1 \in 0..n
    BY <1>1, <1>2 DEF LedgerAccepts
  <1>4. /\ b[k].ok /\ b[k - 1].ok /\ b[k - 1] \in Book /\ InBalance(rows, b[k - 1], k - 1)
        /\ b[k] = ApplyEntry(b[k - 1], rows[i]) /\ IsRow(rows[i])
    BY <1>1, <1>2, <1>3, ReplayInBalance DEF n
  <1>5. ~Refused(b[k - 1].holdings[s], rows[i].qty) /\ b[k - 1].holdings[s] \in Nat
    BY <1>2, <1>4, ApplyIs
  <1>6. b[k - 1].holdings[s] <= Net(rows, S) + SlackOf(rows, S)
    BY <1>2, <1>4 DEF InBalance
  <1>7. S = Earlier(rows, i)
    BY <1>2, FirstAre DEF n
  <1>8. Net(rows, S) \in Int /\ SlackOf(rows, S) \in Nat
    <2>1. S \subseteq DOMAIN rows
      BY <1>7 DEF Earlier, Preceding
    <2> QED
      BY <2>1, NetType
  <1> HIDE DEF S, s
  <1> QED
    BY <1>2, <1>5, <1>6, <1>7, <1>8, LedgerAssumption DEF Refused, Balance, Slack

LEMMA CoveredRowsAreAccepted ==
  ASSUME NEW rows, AreRows(rows),
         \A i \in OfType(rows, DOMAIN rows, "SELL") :
           /\ Balance(rows, i) - Slack(rows, i) > Epsilon
           /\ rows[i].qty <= Balance(rows, i) - Slack(rows, i)
  PROVE  LedgerAccepts(rows)
  <1> DEFINE n == Count(rows)
  <1>1. PICK b : IsReplay(b, InTradeOrder(rows), n) /\ calculateLedgerHoldings(rows) = b[n]
    BY LedgerReplays
  <1>2. n \in Nat
    BY OrderIs
  <1> HIDE DEF n
  <1>3. \A k \in 0..n : b[k].ok
    <2> DEFINE Bad == {k \in 0..n : ~b[k].ok}
    <2> SUFFICES ASSUME Bad # {}
                 PROVE  FALSE
      OBVIOUS
    <2>1. PICK k \in Bad : \A j \in Bad : k <= j
      <3>1. Bad \subseteq Nat
        OBVIOUS
      <3> QED
        BY <3>1, LeastNat
    <2>2. k \in 0..n /\ ~b[k].ok /\ k # 0
      BY <1>1 DEF IsReplay, EmptyBook
    <2>3. k \in 1..n /\ k - 1 \in 0..n /\ k - 1 < k
      BY <1>2, <2>2
    <2>4. b[k - 1].ok
      BY <2>1, <2>3
    <2> DEFINE i == TradeOrder(rows)[k]
               s == rows[i].symbol
               S == FirstOf(rows, k - 1, s)
               held == b[k - 1].holdings[s]
    <2>5. /\ b[k - 1] \in Book /\ InBalance(rows, b[k - 1], k - 1)
          /\ b[k] = ApplyEntry(b[k - 1], rows[i]) /\ IsRow(rows[i])
      BY <1>1, <2>3, ReplayInBalance DEF n
    <2>6. rows[i].type = "SELL" /\ Refused(held, rows[i].qty)
      BY <2>2, <2>4, <2>5, ApplyIs
    <2>7. i \in DOMAIN rows /\ S = Earlier(rows, i)
      BY <2>3, FirstAre DEF n
    <2>8. s \in Symbols /\ rows[i].qty \in Nat /\ held \in Nat
      BY <2>5, ApplyIs DEF IsRow
    <2>9. Net(rows, S) - SlackOf(rows, S) <= held
      BY <2>4, <2>5, <2>8 DEF InBalance
    <2>10. Net(rows, S) \in Int /\ SlackOf(rows, S) \in Nat
      <3>1. S \subseteq DOMAIN rows
        BY <2>7 DEF Earlier, Preceding
      <3> QED
        BY <3>1, NetType
    <2>11. /\ Balance(rows, i) - Slack(rows, i) > Epsilon
           /\ rows[i].qty <= Balance(rows, i) - Slack(rows, i)
      BY <2>6, <2>7 DEF OfType
    <2>12. Balance(rows, i) = Net(rows, S) /\ Slack(rows, i) = SlackOf(rows, S)
      BY <2>7 DEF Balance, Slack
    <2> HIDE DEF i, s, S, held
    <2> QED
      BY <2>6, <2>8, <2>9, <2>10, <2>11, <2>12, LedgerAssumption DEF Refused
  <1> QED
    BY <1>1, <1>2, <1>3 DEF LedgerAccepts

-----------------------------------------------------------------------------
(* Rows under other numbers. *)

Alike(d, e) == d.symbol = e.symbol /\ d.type = e.type /\ d.qty = e.qty

\* Rows that are alike, in the same order, give the same holdings whatever
\* numbers they have.
LEMMA SameLedger ==
  ASSUME NEW r, NEW t, AreRows(r), AreRows(t), NEW f \in Bijection(DOMAIN r, DOMAIN t),
         \A i \in DOMAIN r : Alike(r[i], t[f[i]]),
         \A i, j \in DOMAIN r : Before(r, i, j) => Before(t, f[i], f[j])
  PROVE  calculateLedgerHoldings(r) = calculateLedgerHoldings(t)
  <1> DEFINE n == Count(r)
             D == DOMAIN r
             E == DOMAIN t
             R == InTradeOrder(r)
             T == InTradeOrder(t)
  <1>1. /\ f \in [D -> E] /\ \A x \in E : \E i \in D : f[i] = x
        /\ \A i, j \in D : f[i] = f[j] => i = j
    BY DEF Bijection, Injection, Surjection, IsInjective
  <1>2. n \in Nat /\ Count(t) = n
    <2>1. Cardinality(D) = Cardinality(E)
      BY FS_Bijection DEF AreRows, ExistsBijection
    <2> QED
      BY <2>1, OrderIs DEF Count
  <1>3. \A i, j \in D : Before(t, f[i], f[j]) <=> Before(r, i, j)
    <2> TAKE i, j \in D
    <2>1. i # j => Before(r, i, j) \/ Before(r, j, i)
      BY OneIsBefore
    <2>2. f[i] \in E /\ f[j] \in E
      BY <1>1
    <2>3. ~(Before(t, f[i], f[j]) /\ Before(t, f[j], f[i])) /\ ~Before(t, f[i], f[i])
      BY <2>2 DEF Before, AreRows, IsRow
    <2> QED
      BY <2>1, <2>3
  <1>4. ASSUME NEW i \in D
        PROVE  Place(t, f[i]) = Place(r, i)
    <2> DEFINE P == Preceding(r, i)
               Q == Preceding(t, f[i])
               g == [j \in P |-> f[j]]
    <2>1. P \subseteq D /\ Q \subseteq E /\ \A j \in D : j \in P <=> f[j] \in Q
      BY <1>1, <1>3 DEF Preceding
    <2> HIDE DEF P, Q
    <2>2. g \in Bijection(P, Q)
      BY <1>1, <2>1 DEF Bijection, Injection, Surjection, IsInjective
    <2>3. IsFiniteSet(P)
      BY PlaceType DEF P
    <2>4. Cardinality(P) = Cardinality(Q)
      BY <2>2, <2>3, FS_Bijection DEF ExistsBijection
    <2> QED
      BY <2>4 DEF Place, P, Q
  <1>5. ASSUME NEW k \in 1..n
        PROVE  TradeOrder(t)[k] = f[TradeOrder(r)[k]] /\ TradeOrder(r)[k] \in D
    <2> DEFINE i == TradeOrder(r)[k]
    <2>1. i \in D /\ Place(r, i) = k - 1
      BY OrderIs
    <2>2. f[i] \in E /\ Place(t, f[i]) = k - 1
      BY <1>1, <1>4, <2>1
    <2>3. TradeOrder(t)[Place(t, f[i]) + 1] = f[i]
      BY <2>2, OrderIs
    <2>4. (k - 1) + 1 = k
      BY <1>2
    <2> QED
      BY <2>1, <2>2, <2>3, <2>4
  <1>6. PICK b : IsReplay(b, R, n) /\ calculateLedgerHoldings(r) = b[n]
    BY LedgerReplays
  <1>7. PICK c : IsReplay(c, T, n) /\ calculateLedgerHoldings(t) = c[n]
    BY <1>2, LedgerReplays
  <1>8. \A k \in 1..n : Alike(R[k], T[k])
    <2>1. \A k \in 1..n : R[k] = r[TradeOrder(r)[k]]
      BY LedgerReplays
    <2>2. \A k \in 1..n : T[k] = t[TradeOrder(t)[k]]
      BY <1>2, LedgerReplays
    <2> QED
      BY <1>5, <2>1, <2>2
  <1> HIDE DEF n, R, T
  <1>9. \A book, d, e : Alike(d, e) => ApplyEntry(book, d) = ApplyEntry(book, e)
    BY DEF Alike, ApplyEntry, Held
  <1>10. IsReplay(b, T, n)
    BY <1>6, <1>8, <1>9 DEF IsReplay
  <1>11. b = c
    BY <1>2, <1>7, <1>10, ReplayUnique
  <1> QED
    BY <1>6, <1>7, <1>11

\* Two neighbours of a list that trade on different dates may change places.
LEMMA NeighboursChangePlaces ==
  ASSUME NEW n \in Nat, NEW r, r = [i \in 1..n |-> r[i]], \A i \in 1..n : IsRow(r[i]),
         NEW k \in 1..(n - 1), r[k].date # r[k + 1].date
  PROVE  LET t == [r EXCEPT ![k] = r[k + 1], ![k + 1] = r[k]]
         IN  calculateLedgerHoldings(r) = calculateLedgerHoldings(t)
  <1> DEFINE t == [r EXCEPT ![k] = r[k + 1], ![k + 1] = r[k]]
             f == [i \in 1..n |-> IF i = k THEN k + 1 ELSE IF i = k + 1 THEN k ELSE i]
  <1>1. /\ DOMAIN r = 1..n /\ DOMAIN t = 1..n /\ k \in 1..n /\ k + 1 \in 1..n /\ k # k + 1
        /\ \A i \in 1..n : t[i] = IF i = k + 1 THEN r[k] ELSE IF i = k THEN r[k + 1] ELSE r[i]
    OBVIOUS
  <1>2. f \in [1..n -> 1..n] /\ \A i \in 1..n : f[f[i]] = i
    BY <1>1
  <1>3. f \in Bijection(1..n, 1..n)
    BY <1>2 DEF Bijection, Injection, Surjection, IsInjective
  <1>4. \A i \in 1..n : t[f[i]] = r[i]
    BY <1>1, <1>2
  <1> HIDE DEF t
  <1>5. AreRows(r) /\ AreRows(t)
    <2>1. IsFiniteSet(1..n)
      <3>1. 1 \in Int /\ n \in Int
        OBVIOUS
      <3> QED
        BY <3>1, FS_Interval
    <2>3. 1..n \subseteq Nat
      OBVIOUS
    <2>2. \A i \in 1..n : IsRow(t[i])
      BY <1>1
    <2> QED
      BY <1>1, <2>1, <2>2, <2>3 DEF AreRows
  <1>6. \A i \in 1..n : Alike(r[i], t[f[i]])
    BY <1>4 DEF Alike
  <1>7. ASSUME NEW i \in 1..n, NEW j \in 1..n, Before(r, i, j)
        PROVE  Before(t, f[i], f[j])
    <2>1. t[f[i]].date = r[i].date /\ t[f[j]].date = r[j].date /\ r[i].date \in Nat /\ r[j].date \in Nat
      BY <1>4 DEF IsRow
    <2>2. CASE r[i].date < r[j].date
      BY <2>1, <2>2 DEF Before
    <2>3. CASE r[i].date = r[j].date /\ i < j
      <3>1. f[i] < f[j]
        BY <1>1, <2>3
      <3> QED
        BY <2>1, <2>3, <3>1 DEF Before
    <2> QED
      BY <1>7, <2>2, <2>3 DEF Before
  <1>8. calculateLedgerHoldings(r) = calculateLedgerHoldings(t)
    <2>1. /\ f \in Bijection(DOMAIN r, DOMAIN t)
          /\ \A i \in DOMAIN r : Alike(r[i], t[f[i]])
          /\ \A i, j \in DOMAIN r : Before(r, i, j) => Before(t, f[i], f[j])
      BY <1>1, <1>3, <1>6, <1>7
    <2> HIDE DEF f
    <2> QED
      BY <1>5, <2>1, SameLedger
  <1> QED
    BY <1>8 DEF t

-----------------------------------------------------------------------------
(* The rows of one symbol. *)

Number(rows, k, s) == Cardinality(FirstOf(rows, k, s))

LEMMA OfSymbolAre ==
  ASSUME NEW rows, AreRows(rows), NEW s
  PROVE  /\ AreRows(OfSymbol(rows, s))
         /\ Number(rows, 0, s) = 0 /\ Number(rows, Count(rows), s) = Count(OfSymbol(rows, s))
         /\ \A k \in 1..Count(rows) :
              LET i == TradeOrder(rows)[k]
              IN  /\ rows[i].symbol # s => Number(rows, k, s) = Number(rows, k - 1, s)
                  /\ rows[i].symbol = s =>
                       /\ Number(rows, k, s) = Number(rows, k - 1, s) + 1
                       /\ Number(rows, k, s) \in 1..Count(OfSymbol(rows, s))
                       /\ OfSymbol(rows, s)[TradeOrder(OfSymbol(rows, s))[Number(rows, k, s)]] = rows[i]
  <1> DEFINE own == OfSymbol(rows, s)
             D == {j \in DOMAIN rows : rows[j].symbol = s}
             n == Count(rows)
  <1>1. DOMAIN own = D /\ \A i \in D : own[i] = rows[i]
    BY DEF OfSymbol
  <1>2. AreRows(own)
    BY <1>1, FS_Subset DEF AreRows
  <1>3. FirstOf(rows, 0, s) = {} /\ FirstOf(rows, n, s) = D
    BY FirstAre DEF FirstOf
  <1>4. Number(rows, 0, s) = 0 /\ Number(rows, n, s) = Count(own)
    BY <1>1, <1>3, FS_EmptySet DEF Number, Count
  <1>0. n \in Nat
    BY OrderIs
  <1> HIDE DEF own, n
  <1>5. ASSUME NEW k \in 1..n
        PROVE  LET i == TradeOrder(rows)[k]
               IN  /\ rows[i].symbol # s => Number(rows, k, s) = Number(rows, k - 1, s)
                   /\ rows[i].symbol = s =>
                        /\ Number(rows, k, s) = Number(rows, k - 1, s) + 1
                        /\ Number(rows, k, s) \in 1..Count(own)
                        /\ own[TradeOrder(own)[Number(rows, k, s)]] = rows[i]
    <2> DEFINE i == TradeOrder(rows)[k]
               F == FirstOf(rows, k - 1, s)
    <2>1. /\ i \in DOMAIN rows /\ i \notin FirstRows(rows, k - 1)
          /\ FirstRows(rows, k) = FirstRows(rows, k - 1) \cup {i}
          /\ Earlier(rows, i) = FirstOf(rows, k - 1, rows[i].symbol)
      BY FirstAre DEF n
    <2>2. k - 1 \in 0..n
      BY <1>0
    <2>3. F \subseteq DOMAIN rows /\ IsFiniteSet(F) /\ i \notin F
      BY <2>1, <2>2, FirstAre, FS_Subset DEF FirstOf, AreRows, n
    <2>4. FirstOf(rows, k, s) = IF rows[i].symbol = s THEN F \cup {i} ELSE F
      BY <2>1 DEF FirstOf
    <2>5. CASE rows[i].symbol # s
      BY <2>4, <2>5 DEF Number
    <2>6. CASE rows[i].symbol = s
      <3>1. Number(rows, k, s) = Number(rows, k - 1, s) + 1
        BY <2>3, <2>4, <2>6, FS_AddElement DEF Number
      <3>2. i \in D /\ Preceding(own, i) = F
        BY <1>1, <2>1, <2>6 DEF Earlier, Preceding, Before
      <3>3. Place(own, i) + 1 = Number(rows, k, s)
        BY <3>1, <3>2 DEF Place, Number
      <3>4. /\ Place(own, i) + 1 \in 1..Count(own)
            /\ TradeOrder(own)[Place(own, i) + 1] = i
        BY <1>1, <1>2, <3>2, OrderIs
      <3> QED
        BY <1>1, <2>6, <3>1, <3>2, <3>3, <3>4
    <2> QED
      BY <2>5, <2>6
  <1> QED
    BY <1>2, <1>4, <1>5 DEF own, n

\* Until a SELL is refused, the book and that of the rows of one symbol agree.
LEMMA BooksAgree ==
  ASSUME NEW rows, AreRows(rows), NEW s \in Symbols,
         NEW b, IsReplay(b, InTradeOrder(rows), Count(rows)),
         NEW a, IsReplay(a, InTradeOrder(OfSymbol(rows, s)), Count(OfSymbol(rows, s)))
  PROVE  \A k \in 0..Count(rows) : b[k].ok =>
           /\ Number(rows, k, s) \in 0..Count(OfSymbol(rows, s))
           /\ a[Number(rows, k, s)].ok
           /\ a[Number(rows, k, s)].holdings[s] = b[k].holdings[s]
  <1> DEFINE n == Count(rows)
             own == OfSymbol(rows, s)
             m == Count(own)
             c(k) == Number(rows, k, s)
             Agree(k) == b[k].ok => c(k) \in 0..m /\ a[c(k)].ok /\ a[c(k)].holdings[s] = b[k].holdings[s]
             Bad == {k \in 0..n : ~Agree(k)}
  <1> SUFFICES ASSUME Bad # {}
               PROVE  FALSE
    OBVIOUS
  <1>1. AreRows(own) /\ n \in Nat /\ m \in Nat
    BY OfSymbolAre, OrderIs
  <1>2. PICK k \in Bad : \A j \in Bad : k <= j
    <2>1. Bad \subseteq Nat
      OBVIOUS
    <2> QED
      BY <2>1, LeastNat
  <1>3. k \in 0..n /\ ~Agree(k)
    OBVIOUS
  <1>4. k # 0
    <2>1. c(0) = 0 /\ 0 \in 0..m
      BY <1>1, OfSymbolAre
    <2>2. b[0] = EmptyBook /\ a[0] = EmptyBook
      BY DEF IsReplay
    <2> QED
      BY <1>3, <2>1, <2>2 DEF EmptyBook
  <1>5. k \in 1..n /\ k - 1 \in 0..n /\ k - 1 < k
    BY <1>1, <1>3, <1>4
  <1> DEFINE e == rows[TradeOrder(rows)[k]]
  <1>6. /\ b[k] = ApplyEntry(b[k - 1], e) /\ IsRow(e) /\ b[k - 1] \in Book
    BY <1>5, ReplayInBalance
  <1>7. b[k].ok
    BY <1>3
  <1>8. /\ b[k - 1].ok /\ ~(e.type = "SELL" /\ Refused(b[k - 1].holdings[e.symbol], e.qty))
        /\ b[k].holdings[s] = IF s = e.symbol THEN Left(b[k - 1].holdings[s], e)
                              ELSE b[k - 1].holdings[s]
    BY <1>6, <1>7, ApplyIs
  <1>9. Agree(k - 1)
    BY <1>2, <1>5
  <1>10. CASE e.symbol # s
    <2>1. c(k) = c(k - 1)
      BY <1>5, <1>10, OfSymbolAre
    <2> QED
      BY <1>3, <1>8, <1>9, <1>10, <2>1
  <1>11. CASE e.symbol = s
    <2>1. c(k) = c(k - 1) + 1 /\ c(k) \in 1..m /\ own[TradeOrder(own)[c(k)]] = e
      BY <1>5, <1>11, OfSymbolAre
    <2>2. c(k - 1) \in 0..m /\ c(k) - 1 = c(k - 1)
      BY <1>8, <1>9, <2>1
    <2> HIDE DEF c
    <2>3. a[c(k)] = ApplyEntry(a[c(k - 1)], e) /\ a[c(k - 1)] \in Book
      BY <1>1, <2>1, <2>2, ReplayInBalance
    <2>4. a[c(k - 1)].ok /\ a[c(k - 1)].holdings[s] = b[k - 1].holdings[s]
      BY <1>8, <1>9
    <2>5. a[c(k)].ok /\ a[c(k)].holdings[s] = Left(b[k - 1].holdings[s], e)
      BY <1>6, <1>8, <1>11, <2>3, <2>4, ApplyIs
    <2>6. c(k) \in 0..m
      BY <2>1
    <2> QED
      BY <1>3, <1>8, <1>11, <2>5, <2>6
  <1> QED
    BY <1>10, <1>11

LEMMA SymbolsAreIndependent ==
  ASSUME NEW rows, AreRows(rows)
  PROVE  LET Alone(s) == calculateLedgerHoldings(OfSymbol(rows, s))
             whole == calculateLedgerHoldings(rows)
         IN  /\ whole.ok <=> \A s \in Symbols : Alone(s).ok
             /\ whole.ok => \A s \in Symbols : whole.holdings[s] = Alone(s).holdings[s]
  <1> DEFINE Alone(s) == calculateLedgerHoldings(OfSymbol(rows, s))
             whole == calculateLedgerHoldings(rows)
             n == Count(rows)
  <1>1. PICK b : IsReplay(b, InTradeOrder(rows), n) /\ whole = b[n]
    BY LedgerReplays
  <1>2. n \in Nat
    BY OrderIs
  <1>3. ASSUME whole.ok, NEW s \in Symbols
        PROVE  Alone(s).ok /\ whole.holdings[s] = Alone(s).holdings[s]
    <2> DEFINE m == Count(OfSymbol(rows, s))
    <2>1. PICK a : IsReplay(a, InTradeOrder(OfSymbol(rows, s)), m) /\ Alone(s) = a[m]
      BY OfSymbolAre, LedgerReplays
    <2>2. Number(rows, n, s) = m /\ n \in 0..n
      BY <1>2, OfSymbolAre
    <2>3. a[m].ok /\ a[m].holdings[s] = b[n].holdings[s]
      BY <1>1, <1>3, <2>1, <2>2, BooksAgree
    <2> QED
      BY <1>1, <2>1, <2>3
  <1>4. ASSUME \A s \in Symbols : Alone(s).ok
        PROVE  whole.ok
    <2> DEFINE Bad == {k \in 0..n : ~b[k].ok}
    <2> SUFFICES ASSUME Bad # {}
                 PROVE  FALSE
      BY <1>1, <1>2
    <2>1. PICK k \in Bad : \A j \in Bad : k <= j
      <3>1. Bad \subseteq Nat
        OBVIOUS
      <3> QED
        BY <3>1, LeastNat
    <2>2. k \in 0..n /\ ~b[k].ok /\ k # 0
      BY <1>1 DEF IsReplay, EmptyBook
    <2>3. k \in 1..n /\ k - 1 \in 0..n /\ k - 1 < k
      BY <1>2, <2>2
    <2>4. b[k - 1].ok
      BY <2>1, <2>3
    <2> DEFINE e == rows[TradeOrder(rows)[k]]
               s == e.symbol
               own == OfSymbol(rows, s)
               m == Count(own)
               j == Number(rows, k, s)
    <2>5. b[k] = ApplyEntry(b[k - 1], e) /\ IsRow(e) /\ b[k - 1] \in Book
      BY <1>1, <2>3, ReplayInBalance
    <2>6. e.type = "SELL" /\ Refused(b[k - 1].holdings[s], e.qty) /\ s \in Symbols
      BY <2>2, <2>4, <2>5, ApplyIs DEF IsRow
    <2>7. AreRows(own) /\ m \in Nat
      BY OfSymbolAre, OrderIs
    <2>8. PICK a : IsReplay(a, InTradeOrder(own), m) /\ Alone(s) = a[m]
      BY <2>7, LedgerReplays
    <2>9. /\ j = Number(rows, k - 1, s) + 1 /\ j \in 1..m
          /\ own[TradeOrder(own)[j]] = e
      BY <2>3, OfSymbolAre
    <2>10. /\ Number(rows, k - 1, s) \in 0..m
           /\ a[Number(rows, k - 1, s)].holdings[s] = b[k - 1].holdings[s]
      <3>1. /\ IsReplay(b, InTradeOrder(rows), Count(rows))
            /\ IsReplay(a, InTradeOrder(OfSymbol(rows, s)), Count(OfSymbol(rows, s)))
            /\ s \in Symbols /\ k - 1 \in 0..Count(rows) /\ b[k - 1].ok
        BY <1>1, <2>3, <2>4, <2>6, <2>8
      <3> HIDE DEF e, s, n, Alone
      <3> QED
        BY <3>1, BooksAgree
    <2>11. j - 1 = Number(rows, k - 1, s) /\ j \in 0..m
      BY <2>9, <2>10
    <2> HIDE DEF own, m, j, Alone
    <2>12. a[j] = ApplyEntry(a[j - 1], e) /\ a[j - 1] \in Book
      BY <2>7, <2>8, <2>9, <2>10, <2>11, ReplayInBalance DEF m
    <2>13. ~a[j].ok
      <3>1. a[j].ok <=> /\ a[j - 1].ok
                        /\ ~(e.type = "SELL" /\ Refused(a[j - 1].holdings[e.symbol], e.qty))
        <4> HIDE DEF e
        <4> QED
          BY <2>5, <2>12, ApplyIs
      <3>2. a[j - 1].holdings[s] = b[k - 1].holdings[s]
        BY <2>10, <2>11
      <3> QED
        BY <2>6, <3>1, <3>2
    <2>14. a[m].ok
      BY <1>4, <2>6, <2>8
    <2> QED
      BY <2>7, <2>8, <2>11, <2>13, <2>14, ReplayInBalance DEF m
  <1> QED
    BY <1>3, <1>4
=============================================================================
