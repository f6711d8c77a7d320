---------------------------- MODULE ListsProofs ----------------------------
(***************************************************************************)
(* The components that list rows, a page at a time, while the rows change: *)
(* the lists of diaries, the list of articles, the activity feed, and the  *)
(* script that merges the diaries of a day.  They share no state: each is  *)
(* instantiated over the slots v1 to v14, a behaviour being one of the     *)
(* component that which names; the slots it does not use stay 0.           *)
(* MCApplication checks them on a small instance; here they are proved,    *)
(* for every value of the constants.                                       *)
(*                                                                         *)
(* What a list shows is a stretch of all its rows in an order.  So first   *)
(* come the facts about finite sets in an order, and then the components,  *)
(* each with an inductive invariant.                                       *)
(***************************************************************************)
EXTENDS Integers, Sequences, FiniteSets, FiniteSetTheorems, SequenceTheorems,
        WellFoundedInduction, TLAPS

CONSTANTS
  ListedIds, LaterIds, ListLimit, MaxRefreshes, MaxListPage,      \* diary lists
  ListedPosts, PostLimit, MaxPostLists,                           \* articles
  FeedTimes, MaxFeedRows, MaxFeedWrites, FeedSource, FeedPage,    \* activity
  MergeIds, MergeDays, MergeStocks, MaxMergeTexts, MaxMergeWrites \* reconciliation

\* Ids and times are numbers, and the tables finite.  A page has a row, and a
\* page of the feed no more than are read of each of its tables.
ASSUME ListsAssumption ==
  /\ ListedIds \subseteq Nat /\ IsFiniteSet(ListedIds) /\ ListLimit \in Nat \ {0}
  /\ MaxRefreshes \in Nat /\ MaxListPage \in Nat \ {0}
  /\ ListedPosts \subseteq Nat /\ IsFiniteSet(ListedPosts)
  /\ PostLimit \in Nat \ {0} /\ MaxPostLists \in Nat
  /\ FeedTimes \subseteq Nat /\ FeedPage \in Nat \ {0} /\ FeedSource \in Nat
  /\ FeedPage <= FeedSource /\ MaxFeedRows \in Nat /\ MaxFeedWrites \in Nat
  /\ MergeIds \subseteq Nat /\ IsFiniteSet(MergeIds)

VARIABLES which, v1, v2, v3, v4, v5, v6, v7, v8, v9, v10, v11, v12, v13, v14

\* The slots after the first n.
more13 == <<v14>>
more8 == <<v9, v10, v11, v12, v13, more13>>
more7 == <<v8, more8>>

Empty13 == v14 = 0
Empty8 == v9 = 0 /\ v10 = 0 /\ v11 = 0 /\ v12 = 0 /\ v13 = 0 /\ Empty13
Empty7 == v8 = 0 /\ Empty8

listVars == <<which, v1, v2, v3, v4, v5, v6, v7, more7>>

DiaryList == INSTANCE DiaryFeeds WITH Ids <- ListedIds, Unwritten <- LaterIds,
  Limit <- ListLimit, MaxGen <- MaxRefreshes, MaxPage <- MaxListPage, surface <- v1,
  stored <- v2, gone <- v3, filter <- v4, list <- v5, total <- v6, page <- v7,
  loadingMore <- v8, generation <- v9, first <- v10, more <- v11, changed <- v12,
  raced <- v13
ArticleList == INSTANCE ArticleFeed WITH Posts <- ListedPosts, Limit <- PostLimit,
  MaxGen <- MaxPostLists, stored <- v1, filter <- v2, posts <- v3, origin <- v4,
  currentPage <- v5, totalPages <- v6, pending <- v7, loadingMore <- v8, error <- v9,
  requestGeneration <- v10, cache <- v11, prefetching <- v12, requests <- v13,
  changed <- v14
Feed == INSTANCE ActivityFeed WITH Times <- FeedTimes, MaxRows <- MaxFeedRows,
  MaxWrites <- MaxFeedWrites, SourceLimit <- FeedSource, Limit <- FeedPage, rows <- v1,
  asOf <- v2, cursor <- v3, shown <- v4, hasMore <- v5, touched <- v6, overrun <- v7
Merge == INSTANCE Reconciliation WITH Ids <- MergeIds, Days <- MergeDays,
  Stocks <- MergeStocks, MaxTexts <- MaxMergeTexts, MaxWrites <- MaxMergeWrites,
  diaries <- v1, audits <- v2, groups <- v3, writes <- v4, dropped <- v5,
  arrived <- v6, finished <- v7, named <- v8

-----------------------------------------------------------------------------
ListsInit ==
  \/ which = "diary lists" /\ DiaryList!Init /\ Empty13
  \/ which = "articles" /\ ArticleList!Init
  \/ which = "activity" /\ Feed!Init /\ Empty7
  \/ which = "reconciliation" /\ Merge!Init /\ Empty8

ListsNext ==
  \/ which = "diary lists" /\ DiaryList!Next /\ UNCHANGED <<which, more13>>
  \/ which = "articles" /\ ArticleList!Next /\ UNCHANGED which
  \/ which = "activity" /\ Feed!Next /\ UNCHANGED <<which, more7>>
  \/ which = "reconciliation" /\ Merge!Next /\ UNCHANGED <<which, more8>>

ListsSpec == ListsInit /\ [][ListsNext]_listVars

\* A list that is shown has every row of its pages once, and a page what the
\* server has, whatever was loaded ahead, late or for another filter; and a
\* merged diary has everything once.
ListsAreWhole ==
  /\ which = "diary lists" => DiaryList!ListsAreWhole
  /\ which = "articles" => ArticleList!ArticlesAreWhole
  /\ which = "activity" => Feed!FeedIsWhole
  /\ which = "reconciliation" => Merge!NothingIsLost

-----------------------------------------------------------------------------
(* Finite sets in an order. *)

\* R orders S: of two different members exactly one comes first.
Orders(R, S) ==
  /\ IsFiniteSet(S)
  /\ \A x, y \in S : <<x, y>> \in R => <<y, x>> \notin R
  /\ \A x, y \in S : x # y => <<x, y>> \in R \/ <<y, x>> \in R
  /\ \A x, y, z \in S : <<x, y>> \in R /\ <<y, z>> \in R => <<x, z>> \in R

Earlier(R, S, x) == {y \in S : <<y, x>> \in R}
Place(R, S, x) == Cardinality(Earlier(R, S, x))

\* The sequence lists the set, in that order.
Lists(q, S, R) ==
  /\ q \in [1..Cardinality(S) -> S]
  /\ \A i, j \in 1..Cardinality(S) : i < j => <<q[i], q[j]>> \in R
  /\ \A x \in S : \E i \in 1..Cardinality(S) : q[i] = x

LEMMA PlaceType ==
  ASSUME NEW S, NEW R, Orders(R, S), NEW x \in S
  PROVE  /\ IsFiniteSet(Earlier(R, S, x)) /\ Cardinality(S) \in Nat
         /\ Place(R, S, x) \in Nat /\ Place(R, S, x) < Cardinality(S)
  <1> DEFINE P == Earlier(R, S, x)
  <1>1. IsFiniteSet(S) /\ P \in SUBSET (S \ {x})
    BY DEF Orders, Earlier
  <1>2. IsFiniteSet(S \ {x}) /\ Cardinality(S \ {x}) = Cardinality(S) - 1
    BY <1>1, FS_RemoveElement
  <1> HIDE DEF P
  <1>3. IsFiniteSet(P) /\ Cardinality(P) <= Cardinality(S \ {x})
    BY <1>1, <1>2, FS_Subset
  <1>4. Cardinality(P) \in Nat /\ Cardinality(S) \in Nat
    BY <1>1, <1>3, FS_CardinalityType
  <1>5. Cardinality(P) < Cardinality(S)
    BY <1>2, <1>3, <1>4
  <1> QED
    BY <1>3, <1>4, <1>5 DEF P, Place

\* Who comes first has the smaller place.
LEMMA PlaceGrows ==
  ASSUME NEW S, NEW R, Orders(R, S), NEW x \in S, NEW y \in S, <<x, y>> \in R
  PROVE  Place(R, S, x) < Place(R, S, y)
  <1> DEFINE P == Earlier(R, S, x)
             Q == Earlier(R, S, y)
  <1>1. x \notin P /\ P \cup {x} \in SUBSET Q
    BY DEF Orders, Earlier
  <1>2. /\ IsFiniteSet(P) /\ Cardinality(P) \in Nat
        /\ IsFiniteSet(Q) /\ Cardinality(Q) \in Nat
    BY PlaceType DEF Place
  <1> HIDE DEF P, Q
  <1>3. Cardinality(P \cup {x}) = Cardinality(P) + 1
    BY <1>1, <1>2, FS_AddElement
  <1>4. Cardinality(P \cup {x}) <= Cardinality(Q)
    BY <1>1, <1>2, FS_Subset
  <1> QED
    BY <1>2, <1>3, <1>4 DEF P, Q, Place

\* Every place is taken, by one member.
LEMMA PlaceTaken ==
  ASSUME NEW S, NEW R, Orders(R, S)
  PROVE  /\ \A x, y \in S : Place(R, S, x) = Place(R, S, y) => x = y
         /\ \A k \in 1..Cardinality(S) : \E x \in S : Place(R, S, x) = k - 1
  <1> DEFINE n == Cardinality(S)
             f == [x \in S |-> Place(R, S, x) + 1]
  <1>1. IsFiniteSet(S) /\ n \in Nat
    BY FS_CardinalityType DEF Orders
  <1>2. \A x \in S : Place(R, S, x) \in Nat /\ Place(R, S, x) + 1 \in 1..n
    BY <1>1, PlaceType
  <1>3. \A x, y \in S : Place(R, S, x) = Place(R, S, y) => x = y
    <2> SUFFICES ASSUME NEW x \in S, NEW y \in S, x # y
                 PROVE  Place(R, S, x) # Place(R, S, y)
      OBVIOUS
    <2>1. <<x, y>> \in R \/ <<y, x>> \in R
      BY DEF Orders
    <2>2. Place(R, S, x) \in Nat /\ Place(R, S, y) \in Nat
      BY <1>2
    <2>3. Place(R, S, x) < Place(R, S, y) \/ Place(R, S, y) < Place(R, S, x)
      BY <2>1, PlaceGrows
    <2> QED
      BY <2>2, <2>3
  <1>4. f \in Surjection(S, 1..n)
    <2>1. f \in Injection(S, 1..n)
      <3>1. \A x \in S : f[x] \in 1..n
        BY <1>2
      <3>2. \A x, y \in S : f[x] = f[y] => x = y
        BY <1>2, <1>3
      <3>3. f \in [S -> 1..n]
        BY <3>1
      <3> HIDE DEF f, n
      <3> QED
        BY <3>2, <3>3 DEF Injection, IsInjective
    <2>2. IsFiniteSet(1..n) /\ Cardinality(1..n) = n
      <3>1. 1 \in Int /\ n \in Int
        BY <1>1
      <3>2. IsFiniteSet(1..n) /\ Cardinality(1..n) = IF 1 > n THEN 0 ELSE n - 1 + 1
        BY <3>1, FS_Interval
      <3> HIDE DEF n
      <3> QED
        BY <1>1, <3>2
    <2> HIDE DEF f
    <2> QED
      BY <1>1, <2>1, <2>2, FS_Injection
  <1>5. ASSUME NEW k \in 1..n
        PROVE  \E x \in S : Place(R, S, x) = k - 1
    <2>1. PICK x \in S : f[x] = k
      BY <1>4 DEF Surjection
    <2>2. Place(R, S, x) = k - 1
      BY <1>2, <2>1
    <2> QED
      BY <2>2
  <1> QED
    BY <1>3, <1>5

LEMMA PlacesTaken ==
  \A S, R : Orders(R, S) => \A k \in 1..Cardinality(S) : \E x \in S : Place(R, S, x) = k - 1
  BY PlaceTaken

\* A set that is ordered can be listed.
LEMMA CanBeListed ==
  ASSUME NEW S, NEW R, Orders(R, S)
  PROVE  \E q : Lists(q, S, R)
  <1> DEFINE n == Cardinality(S)
             q == [k \in 1..n |-> CHOOSE x \in S : Place(R, S, x) = k - 1]
  <1>1. IsFiniteSet(S) /\ n \in Nat
    BY FS_CardinalityType DEF Orders
  <1>2. ASSUME NEW k \in 1..n
        PROVE  q[k] \in S /\ Place(R, S, q[k]) = k - 1
    <2>1. \E x \in S : Place(R, S, x) = k - 1
      BY PlaceTaken
    <2> QED
      BY <2>1
  <1>3. q \in [1..n -> S]
    BY <1>2
  <1> HIDE DEF q
  <1>4. ASSUME NEW i \in 1..n, NEW j \in 1..n, i < j
        PROVE  <<q[i], q[j]>> \in R
    <2>1. /\ q[i] \in S /\ Place(R, S, q[i]) = i - 1
          /\ q[j] \in S /\ Place(R, S, q[j]) = j - 1
      BY <1>2
    <2>2. ~(j - 1 < i - 1) /\ i - 1 # j - 1
      BY <1>1, <1>4
    <2>3. <<q[j], q[i]>> \notin R
      BY <2>1, <2>2, PlaceGrows
    <2>4. q[i] # q[j]
      BY <2>1, <2>2
    <2> QED
      BY <2>1, <2>3, <2>4 DEF Orders
  <1>5. ASSUME NEW x \in S
        PROVE  \E i \in 1..n : q[i] = x
    <2>1. Place(R, S, x) \in Nat /\ Place(R, S, x) < n
      BY PlaceType
    <2>2. Place(R, S, x) + 1 \in 1..n /\ (Place(R, S, x) + 1) - 1 = Place(R, S, x)
      BY <1>1, <2>1
    <2>3. q[Place(R, S, x) + 1] \in S /\ Place(R, S, q[Place(R, S, x) + 1]) = Place(R, S, x)
      BY <1>2, <2>2
    <2> QED
      BY <2>2, <2>3, PlaceTaken
  <1>6. Lists(q, S, R)
    BY <1>3, <1>4, <1>5 DEF Lists
  <1> QED
    BY <1>6

Distinct(q) == \A a, b \in DOMAIN q : q[a] = q[b] => a = b

\* The numbers of a set from the highest down.
LEMMA NewestIs ==
  ASSUME NEW S, S \subseteq Nat, IsFiniteSet(S), NEW q,
         q = CHOOSE p \in [1..Cardinality(S) -> S] : \A i, j \in DOMAIN p : i < j => p[i] > p[j]
  PROVE  /\ q \in Seq(S) /\ Distinct(q) /\ Len(q) = Cardinality(S)
         /\ \A x \in S : \E i \in 1..Cardinality(S) : q[i] = x
  <1> DEFINE n == Cardinality(S)
             R == {r \in S \X S : r[1] > r[2]}
  <1>1. n \in Nat
    BY FS_CardinalityType
  <1>2. Orders(R, S)
    BY DEF Orders
  <1>3. \A x, y \in S : <<x, y>> \in R <=> x > y
    OBVIOUS
  <1> HIDE DEF R
  <1>4. PICK p : Lists(p, S, R)
    BY <1>2, CanBeListed
  <1>5. p \in [1..n -> S] /\ \A i, j \in 1..n : i < j => p[i] > p[j]
    BY <1>3, <1>4 DEF Lists
  <1>6. p \in [1..n -> S] /\ \A i, j \in DOMAIN p : i < j => p[i] > p[j]
    BY <1>5
  <1>7. q \in [1..n -> S] /\ \A i, j \in DOMAIN q : i < j => q[i] > q[j]
    BY <1>6
  <1>8. \A i, j \in 1..n : i < j => q[i] > q[j]
    BY <1>7
  <1>9. q \in [1..n -> S] /\ \A i, j \in 1..n : i # j => q[i] # q[j]
    <2> SUFFICES ASSUME NEW i \in 1..n, NEW j \in 1..n, i < j
                 PROVE  q[i] # q[j]
      BY <1>1, <1>7
    <2>1. q[i] \in Nat /\ q[j] \in Nat /\ q[i] > q[j]
      BY <1>7, <1>8
    <2> QED
      BY <2>1
  <1>10. q \in Seq(S) /\ Len(q) = n
    BY <1>1, <1>9
  <1>11. Distinct(q)
    BY <1>9 DEF Distinct
  <1>12. \A x \in S : \E i \in 1..n : q[i] = x
    <2>1. q \in Injection(1..n, S)
      <3>1. \A i, j \in DOMAIN q : q[i] = q[j] => i = j
        BY <1>9
      <3>2. IsInjective(q)
        BY <3>1 DEF IsInjective
      <3> QED
        BY <1>9, <3>2 DEF Injection
    <2>2. IsFiniteSet(1..n) /\ Cardinality(1..n) = n
      <3>1. 1 \in Int /\ n \in Int
        BY <1>1
      <3>2. IsFiniteSet(1..n) /\ Cardinality(1..n) = IF 1 > n THEN 0 ELSE n - 1 + 1
        BY <3>1, FS_Interval
      <3> HIDE DEF n
      <3> QED
        BY <1>1, <3>2
    <2>3. q \in Surjection(1..n, S)
      BY <2>1, <2>2, FS_Injection
    <2> QED
      BY <2>3 DEF Surjection
  <1> QED
    BY <1>10, <1>11, <1>12

\* A stretch of a sequence is a sequence, without what the sequence has once
\* twice.
LEMMA StretchIs ==
  ASSUME NEW S, NEW q \in Seq(S), Distinct(q), NEW a \in Nat \ {0}, NEW b \in Nat, b <= Len(q)
  PROVE  /\ SubSeq(q, a, b) \in Seq(S) /\ Distinct(SubSeq(q, a, b))
         /\ Len(SubSeq(q, a, b)) = IF a <= b THEN b - a + 1 ELSE 0
         /\ \A i \in 1..Len(SubSeq(q, a, b)) : a + i - 1 \in 1..b /\ SubSeq(q, a, b)[i] = q[a + i - 1]
  <1> DEFINE p == SubSeq(q, a, b)
             n == IF a <= b THEN b - a + 1 ELSE 0
  <1>1. \A i \in a..b : q[i] \in S
    <2>1. \A i \in 1..Len(q) : q[i] \in S
      OBVIOUS
    <2>2. Len(q) \in Nat
      OBVIOUS
    <2> QED
      BY <2>1, <2>2
  <1>2. a \in Int /\ b \in Int
    OBVIOUS
  <1>3. /\ p \in Seq(S) /\ Len(p) = n
        /\ \A i \in 1..(b - a + 1) : p[i] = q[a + i - 1]
    BY <1>1, <1>2, SubSeqProperties
  <1> HIDE DEF p
  <1>4. \A i \in 1..n : i \in 1..(b - a + 1) /\ a + i - 1 \in 1..b
    OBVIOUS
  <1>5. \A i \in 1..n : p[i] = q[a + i - 1] /\ a + i - 1 \in 1..b
    BY <1>3, <1>4
  <1>6. DOMAIN p = 1..n /\ n \in Nat
    BY <1>3
  <1>7. Distinct(p)
    <2> SUFFICES ASSUME NEW i \in 1..n, NEW j \in 1..n, p[i] = p[j]
                 PROVE  i = j
      BY <1>6 DEF Distinct
    <2>1. 1..b \subseteq DOMAIN q
      <3>1. DOMAIN q = 1..Len(q) /\ Len(q) \in Nat
        OBVIOUS
      <3> QED
        BY <3>1
    <2>2. a + i - 1 \in DOMAIN q /\ a + j - 1 \in DOMAIN q /\ q[a + i - 1] = q[a + j - 1]
      BY <1>5, <2>1
    <2>3. a + i - 1 = a + j - 1
      BY <2>2 DEF Distinct
    <2> HIDE DEF n
    <2> QED
      BY <1>6, <2>3
  <1> QED
    BY <1>3, <1>5, <1>7 DEF p

\* The n-th of a finite set of numbers.
Nth(K, n) == CHOOSE k \in K : Cardinality({j \in K : j <= k}) = n

LEMMA NthIs ==
  ASSUME NEW K, K \subseteq Nat, IsFiniteSet(K)
  PROVE  /\ Cardinality(K) \in Nat
         /\ \A n \in 1..Cardinality(K) : Nth(K, n) \in K
         /\ \A m, n \in 1..Cardinality(K) : Nth(K, m) = Nth(K, n) => m = n
         /\ \A k \in K : Cardinality({j \in K : j <= k}) \in 1..Cardinality(K)
                         /\ Nth(K, Cardinality({j \in K : j <= k})) = k
  <1> DEFINE n == Cardinality(K)
             Up(k) == {j \in K : j <= k}
  <1>1. n \in Nat
    BY FS_CardinalityType
  <1>1a. PICK R : \A j, k \in K : <<j, k>> \in R <=> j < k
    <2>1. \A j, k \in K : <<j, k>> \in {r \in K \X K : r[1] < r[2]} <=> j < k
      OBVIOUS
    <2> QED
      BY <2>1
  <1>2. Orders(R, K)
    BY <1>1a DEF Orders
  <1>3. ASSUME NEW k \in K
        PROVE  /\ Cardinality(Up(k)) = Place(R, K, k) + 1
               /\ Cardinality(Up(k)) \in 1..n /\ Place(R, K, k) \in Nat
    <2> DEFINE P == Earlier(R, K, k)
    <2>1. Up(k) = P \cup {k} /\ k \notin P
      <3>1. \A j \in K : <<j, k>> \in R <=> j < k
        BY <1>1a
      <3>2. \A j \in K : j <= k <=> j < k \/ j = k
        OBVIOUS
      <3>3. ~(k < k)
        OBVIOUS
      <3> QED
        BY <3>1, <3>2, <3>3 DEF Earlier
    <2>2. IsFiniteSet(P) /\ Place(R, K, k) \in Nat /\ Place(R, K, k) < n
      BY <1>2, PlaceType
    <2> HIDE DEF P, Up
    <2>3. Cardinality(P \cup {k}) = Cardinality(P) + 1
      BY <2>1, <2>2, FS_AddElement
    <2>4. Cardinality(P) = Place(R, K, k)
      BY DEF P, Place
    <2>5. Cardinality(Up(k)) = Place(R, K, k) + 1
      BY <2>1, <2>3, <2>4
    <2> QED
      BY <1>1, <2>2, <2>5
  <1>3a. \A m \in 1..n : \E x \in K : Place(R, K, x) = m - 1
    BY <1>2, PlacesTaken, Zenon
  <1>4. ASSUME NEW k \in 1..n
        PROVE  Nth(K, k) \in K /\ Cardinality(Up(Nth(K, k))) = k
    <2>1. PICK x \in K : Place(R, K, x) = k - 1
      BY <1>3a
    <2>2. Place(R, K, x) = k - 1
      BY <2>1
    <2>3. k \in Nat /\ Cardinality(Up(x)) = Place(R, K, x) + 1
      BY <1>1, <1>3
    <2>4. Cardinality(Up(x)) = k
      BY <2>2, <2>3
    <2> QED
      BY <2>4 DEF Nth
  <1>5. ASSUME NEW k \in K
        PROVE  Cardinality(Up(k)) \in 1..n /\ Nth(K, Cardinality(Up(k))) = k
    <2> DEFINE x == Nth(K, Cardinality(Up(k)))
    <2>1. Cardinality(Up(k)) \in 1..n
      BY <1>3
    <2>2. x \in K /\ Cardinality(Up(x)) = Cardinality(Up(k))
      BY <1>4, <2>1
    <2> HIDE DEF x
    <2>3. Place(R, K, x) = Place(R, K, k)
      BY <1>3, <2>2
    <2>4. x = k
      BY <1>2, <2>2, <2>3, PlaceTaken
    <2> QED
      BY <2>1, <2>4 DEF x
  <1>6. \A m, k \in 1..n : Nth(K, m) = Nth(K, k) => m = k
    BY <1>4
  <1> QED
    BY <1>1, <1>4, <1>5, <1>6

\* Numbered from 1 without a gap, a set's n-th number is n.
LEMMA NthOfInterval ==
  ASSUME NEW m \in Nat, NEW n \in 1..m
  PROVE  Cardinality(1..m) = m /\ Nth(1..m, n) = n
  <1>1. \A k \in 0..m : IsFiniteSet(1..k) /\ Cardinality(1..k) = k
    <2> TAKE k \in 0..m
    <2>1. 1 \in Int /\ k \in Int
      OBVIOUS
    <2>2. IsFiniteSet(1..k) /\ Cardinality(1..k) = IF 1 > k THEN 0 ELSE k - 1 + 1
      BY <2>1, FS_Interval
    <2> QED
      BY <2>2
  <1>2. \A k \in 1..m : {j \in 1..m : j <= k} = 1..k
    OBVIOUS
  <1>3. \A k \in 1..m : Cardinality({j \in 1..m : j <= k}) = k
    <2> TAKE k \in 1..m
    <2>1. k \in 0..m /\ {j \in 1..m : j <= k} = 1..k
      BY <1>2
    <2> QED
      BY <1>1, <2>1
  <1>4. Cardinality({j \in 1..m : j <= n}) = n
    BY <1>3
  <1>5. Nth(1..m, n) \in 1..m /\ Cardinality({j \in 1..m : j <= Nth(1..m, n)}) = n
    BY <1>4 DEF Nth
  <1> DEFINE x == Nth(1..m, n)
  <1>6. x = n
    <2>1. x \in 1..m /\ Cardinality({j \in 1..m : j <= x}) = n
      BY <1>5
    <2> HIDE DEF x
    <2> QED
      BY <1>3, <2>1
  <1> QED
    BY <1>1, <1>6

\* What a set has listed in an order is listed once.
LEMMA ListedIs ==
  ASSUME NEW S, NEW R, Orders(R, S)
  PROVE  /\ \E q \in [1..Cardinality(S) -> S] : \A i, j \in DOMAIN q : i < j => <<q[i], q[j]>> \in R
         /\ Cardinality(S) \in Nat
         /\ \A q \in [1..Cardinality(S) -> S] :
              (\A i, j \in DOMAIN q : i < j => <<q[i], q[j]>> \in R) =>
                /\ q \in Seq(S) /\ Len(q) = Cardinality(S) /\ DOMAIN q = 1..Len(q)
                /\ \A x \in S : \E i \in 1..Len(q) : q[i] = x
  <1> DEFINE n == Cardinality(S)
  <1>1. n \in Nat
    BY FS_CardinalityType DEF Orders
  <1>2. PICK p : Lists(p, S, R)
    BY CanBeListed
  <1>3. p \in [1..n -> S] /\ \A i, j \in 1..n : i < j => <<p[i], p[j]>> \in R
    BY <1>2 DEF Lists
  <1>5. p \in [1..n -> S] /\ \A i, j \in DOMAIN p : i < j => <<p[i], p[j]>> \in R
    BY <1>3
  <1>6. ASSUME NEW q \in [1..n -> S], \A i, j \in DOMAIN q : i < j => <<q[i], q[j]>> \in R
        PROVE  /\ q \in Seq(S) /\ Len(q) = n /\ DOMAIN q = 1..n
               /\ \A x \in S : \E i \in 1..n : q[i] = x
    <2>1. q \in [1..n -> S] /\ \A i, j \in 1..n : i # j => q[i] # q[j]
      <3> SUFFICES ASSUME NEW i \in 1..n, NEW j \in 1..n, i < j
                   PROVE  q[i] # q[j]
        BY <1>1
      <3>1. q[i] \in S /\ q[j] \in S /\ <<q[i], q[j]>> \in R
        BY <1>6
      <3> QED
        BY <3>1 DEF Orders
    <2>2. q \in Seq(S) /\ Len(q) = n /\ DOMAIN q = 1..n
      BY <1>1, <2>1
    <2>3. q \in Injection(1..n, S)
      BY <2>1 DEF Injection, IsInjective
    <2>4. IsFiniteSet(1..n) /\ Cardinality(1..n) = n
      BY <1>1, FS_Interval
    <2>5. q \in Surjection(1..n, S)
      BY <2>3, <2>4, FS_Injection DEF Orders
    <2> QED
      BY <2>2, <2>5 DEF Surjection
  <1> QED
    BY <1>1, <1>5, <1>6

\* The first n of a set in an order.
LEMMA FirstsAre ==
  ASSUME NEW S, NEW R, Orders(R, S), NEW n \in Nat \ {0}
  PROVE  LET N == {x \in S : Place(R, S, x) < n}
         IN  /\ IsFiniteSet(N) /\ Cardinality(N) \in Nat
             /\ S # {} => N # {}
             /\ \A x \in S \ N, y \in N : <<y, x>> \in R
             /\ N # S => Cardinality(N) >= n
             /\ \A x \in N : \A A \in SUBSET S :
                  (\A y \in A : <<y, x>> \in R) => IsFiniteSet(A) /\ Cardinality(A) < n
  <1> DEFINE N == {x \in S : Place(R, S, x) < n}
             m == Cardinality(S)
  <1>1. IsFiniteSet(S) /\ m \in Nat
    BY FS_CardinalityType DEF Orders
  <1>2. IsFiniteSet(N) /\ Cardinality(N) \in Nat
    BY <1>1, FS_Subset, FS_CardinalityType
  <1>3. \A x \in S : Place(R, S, x) \in Nat /\ Place(R, S, x) < m
    BY PlaceType
  <1>4. S # {} => N # {}
    <2> SUFFICES ASSUME S # {} PROVE N # {}
      OBVIOUS
    <2>1. 1 \in 1..m
      BY <1>1, FS_EmptySet
    <2>2. PICK x \in S : Place(R, S, x) = 1 - 1
      BY <2>1, PlaceTaken
    <2>3. Place(R, S, x) < n
      BY <2>2
    <2> QED
      BY <2>3
  <1>5. ASSUME NEW x \in S \ N, NEW y \in N PROVE <<y, x>> \in R
    <2>1. Place(R, S, y) < Place(R, S, x)
      BY <1>3
    <2>2. <<x, y>> \in R => Place(R, S, x) < Place(R, S, y)
      BY PlaceGrows
    <2>3. <<x, y>> \notin R
      BY <1>3, <2>1, <2>2
    <2> QED
      BY <2>1, <2>3 DEF Orders
  <1>6. ASSUME N # S PROVE Cardinality(N) >= n
    <2>1. PICK x \in S : ~(Place(R, S, x) < n)
      BY <1>6
    <2>2. n < m
      BY <1>1, <1>3, <2>1
    <2> DEFINE f == [k \in 1..n |-> CHOOSE y \in S : Place(R, S, y) = k - 1]
    <2>3. ASSUME NEW k \in 1..n PROVE f[k] \in S /\ Place(R, S, f[k]) = k - 1
      <3>1. k \in 1..m
        BY <1>1, <2>2
      <3>2. \E y \in S : Place(R, S, y) = k - 1
        BY <3>1, PlaceTaken
      <3> QED
        BY <3>2
    <2>4. \A k \in 1..n : f[k] \in N
      BY <2>3
    <2>5. f \in [1..n -> N]
      BY <2>4
    <2> HIDE DEF f, N
    <2>6. \A j, k \in 1..n : f[j] = f[k] => j = k
      BY <2>3
    <2>7. f \in Injection(1..n, N)
      BY <2>5, <2>6 DEF Injection, IsInjective
    <2>8. Cardinality(1..n) = n
      BY FS_Interval
    <2>9. Cardinality(1..n) <= Cardinality(N)
      BY <1>2, <2>7, FS_Injection
    <2> QED
      BY <1>2, <2>8, <2>9
  <1>7. ASSUME NEW x \in N, NEW A \in SUBSET S, \A y \in A : <<y, x>> \in R
        PROVE  IsFiniteSet(A) /\ Cardinality(A) < n
    <2> DEFINE E == Earlier(R, S, x)
    <2>1. A \in SUBSET E
      BY <1>7 DEF Earlier
    <2>2. IsFiniteSet(E) /\ Cardinality(E) < n
      BY PlaceType DEF Place
    <2> HIDE DEF E
    <2>3. IsFiniteSet(A) /\ Cardinality(A) <= Cardinality(E)
      BY <2>1, <2>2, FS_Subset
    <2>4. Cardinality(A) \in Nat /\ Cardinality(E) \in Nat
      BY <2>2, <2>3, FS_CardinalityType
    <2> QED
      BY <2>2, <2>3, <2>4
  <1> QED
    BY <1>2, <1>4, <1>5, <1>6, <1>7

\* The greatest of finitely many numbers.
LEMMA GreatestIs ==
  ASSUME NEW S, S \subseteq Nat, IsFiniteSet(S), S # {}
  PROVE  \E x \in S : \A y \in S : x >= y
  <1> DEFINE R == {r \in S \X S : r[1] > r[2]}
  <1>1. Orders(R, S)
    BY DEF Orders
  <1>2. \A x, y \in S : <<x, y>> \in R <=> x > y
    OBVIOUS
  <1> HIDE DEF R
  <1>3. 1 \in 1..Cardinality(S)
    <2>1. Cardinality(S) \in Nat /\ Cardinality(S) # 0
      BY FS_CardinalityType, FS_EmptySet
    <2> QED
      BY <2>1
  <1>4. PICK x \in S : Place(R, S, x) = 1 - 1
    BY <1>1, <1>3, PlaceTaken
  <1>5. ASSUME NEW y \in S PROVE ~(y > x)
    <2> SUFFICES ASSUME y > x PROVE FALSE
      OBVIOUS
    <2>1. <<y, x>> \in R
      BY <1>2
    <2>2. Place(R, S, y) < Place(R, S, x) /\ Place(R, S, y) \in Nat
      BY <1>1, <2>1, PlaceGrows, PlaceType
    <2> QED
      BY <1>4, <2>2
  <1> QED
    BY <1>5

\* A function on finitely many takes finitely many values.
LEMMA ImagesAre ==
  ASSUME NEW f, IsFiniteSet(DOMAIN f), NEW T, T = {f[x] : x \in DOMAIN f}
  PROVE  IsFiniteSet(T)
  <1> DEFINE g == [x \in DOMAIN f |-> f[x]]
  <1>1. g \in Surjection(DOMAIN f, T)
    BY DEF Surjection
  <1> QED
    BY <1>1, FS_Surjection

-----------------------------------------------------------------------------
(* What a page of the diaries has. *)

LEMMA FeedCardinality == ASSUME NEW S PROVE DiaryList!Cardinality(S) = Cardinality(S)
  BY DEF DiaryList!Cardinality, Cardinality

LEMMA MatchingIs ==
  ASSUME v2 \subseteq ListedIds, NEW f
  PROVE  /\ DiaryList!Matching(f) \in Seq(ListedIds) /\ Distinct(DiaryList!Matching(f))
         /\ Len(DiaryList!Matching(f)) \in 0..DiaryList!Cardinality(ListedIds)
  <1> DEFINE S == {i \in v2 : f = "all" \/ \E j \in ListedIds : j < i}
             q == DiaryList!Matching(f)
  <1>1. S \in SUBSET ListedIds /\ IsFiniteSet(ListedIds) /\ ListedIds \subseteq Nat
    BY ListsAssumption
  <1>2. q = DiaryList!Newest(S)
    BY DEF DiaryList!Matching
  <1> HIDE DEF S, q
  <1>3. DiaryList!Newest(S) = CHOOSE p \in [1..Cardinality(S) -> S] : \A i, j \in DOMAIN p : i < j => p[i] > p[j]
    BY FeedCardinality DEF DiaryList!Newest
  <1>4. IsFiniteSet(S) /\ Cardinality(S) <= Cardinality(ListedIds) /\ S \subseteq Nat
    BY <1>1, FS_Subset
  <1>5. q \in Seq(S) /\ Distinct(q) /\ Len(q) = Cardinality(S)
    BY <1>2, <1>3, <1>4, NewestIs
  <1>6. Cardinality(S) \in Nat /\ Cardinality(ListedIds) \in Nat
    BY <1>1, <1>4, FS_CardinalityType
  <1>7. q \in Seq(ListedIds)
    BY <1>1, <1>5, SeqMonotonic
  <1> QED
    BY <1>4, <1>5, <1>6, <1>7, FeedCardinality DEF q

LEMMA UptoIs ==
  ASSUME NEW a \in Nat, NEW b \in Nat
  PROVE  DiaryList!Upto(a, b) \in Nat /\ DiaryList!Upto(a, b) <= a /\ DiaryList!Upto(a, b) <= b
  BY DEF DiaryList!Upto

LEMMA ReadIs ==
  ASSUME v2 \subseteq ListedIds, NEW f, NEW k \in Nat \ {0}
  PROVE  /\ DiaryList!ReadOf(f, k) \in DiaryList!Answer
         /\ DiaryList!ReadOf(f, k).phase = "read"
         /\ DiaryList!ReadOf(f, k).total = Len(DiaryList!Matching(f))
         /\ DiaryList!ReadOf(f, k).items = DiaryList!Rows(f, k)
         /\ DiaryList!Rows(f, k) \in Seq(ListedIds) /\ Distinct(DiaryList!Rows(f, k))
  <1> DEFINE q == DiaryList!Matching(f)
             a == (k - 1) * ListLimit + 1
             b == DiaryList!Upto(k * ListLimit, Len(q))
  <1>1. q \in Seq(ListedIds) /\ Distinct(q) /\ Len(q) \in Nat /\ Len(q) \in 0..DiaryList!Cardinality(ListedIds)
    BY MatchingIs
  <1>2. a \in Nat \ {0} /\ k * ListLimit \in Nat
    BY ListsAssumption
  <1> HIDE DEF q, a
  <1>3. b \in Nat /\ b <= Len(q)
    BY <1>1, <1>2, UptoIs
  <1> HIDE DEF b
  <1>4. SubSeq(q, a, b) \in Seq(ListedIds) /\ Distinct(SubSeq(q, a, b))
    BY <1>1, <1>2, <1>3, StretchIs
  <1>5. DiaryList!Rows(f, k) = SubSeq(q, a, b)
    BY DEF DiaryList!Rows, q, a, b
  <1>6. DiaryList!ReadOf(f, k) = [phase |-> "read", items |-> DiaryList!Rows(f, k), total |-> Len(q)]
    BY DEF DiaryList!ReadOf, q
  <1>7. DiaryList!ReadOf(f, k) \in DiaryList!Answer
    BY <1>1, <1>4, <1>5, <1>6 DEF DiaryList!Answer
  <1>8. /\ DiaryList!ReadOf(f, k).phase = "read"
        /\ DiaryList!ReadOf(f, k).total = Len(q)
        /\ DiaryList!ReadOf(f, k).items = DiaryList!Rows(f, k)
    BY <1>6
  <1>9. DiaryList!Rows(f, k) \in Seq(ListedIds) /\ Distinct(DiaryList!Rows(f, k))
    BY <1>4, <1>5
  <1> QED
    BY <1>7, <1>8, <1>9 DEF q

LEMMA MergeIs ==
  ASSUME NEW a \in Seq(ListedIds), Distinct(a), NEW b \in Seq(ListedIds), Distinct(b)
  PROVE  /\ DiaryList!mergeDiariesById(a, b) \in Seq(ListedIds)
         /\ Distinct(DiaryList!mergeDiariesById(a, b))
         /\ (\A i \in DOMAIN a : \A j \in DOMAIN b : a[i] # b[j]) =>
              DiaryList!mergeDiariesById(a, b) = a \o b
  <1> DEFINE new == {k \in DOMAIN b : b[k] \notin DiaryList!Range(a)}
             m == Cardinality(new)
             c == [n \in 1..m |-> b[Nth(new, n)]]
             r == a \o c
  <1>1. /\ DOMAIN a = 1..Len(a) /\ Len(a) \in Nat /\ \A i \in 1..Len(a) : a[i] \in ListedIds
        /\ DOMAIN b = 1..Len(b) /\ Len(b) \in Nat /\ \A i \in 1..Len(b) : b[i] \in ListedIds
    OBVIOUS
  <1>2. DiaryList!mergeDiariesById(a, b) = r
    BY DEF DiaryList!mergeDiariesById, Nth, DiaryList!Cardinality, Cardinality
  <1>3. new \in SUBSET (1..Len(b)) /\ new \subseteq Nat /\ IsFiniteSet(new)
    <2>1. new \in SUBSET (1..Len(b)) /\ 1..Len(b) \subseteq Nat
      BY <1>1
    <2>2. IsFiniteSet(1..Len(b))
      <3>1. 1 \in Int /\ Len(b) \in Int
        BY <1>1
      <3> QED
        BY <3>1, FS_Interval
    <2> HIDE DEF new
    <2> QED
      BY <2>1, <2>2, FS_Subset
  <1>4. \A k \in new : \A i \in 1..Len(a) : b[k] # a[i]
    BY <1>1 DEF DiaryList!Range
  <1>5. (\A i \in DOMAIN a : \A j \in DOMAIN b : a[i] # b[j]) => new = 1..Len(b)
    BY <1>1 DEF DiaryList!Range
  <1> HIDE DEF new
  <1>6. /\ m \in Nat
        /\ \A n \in 1..m : Nth(new, n) \in new
        /\ \A n, o \in 1..m : Nth(new, n) = Nth(new, o) => n = o
    BY <1>3, NthIs
  <1>7. c \in Seq(ListedIds) /\ Len(c) = m /\ DOMAIN c = 1..m
        /\ \A n \in 1..m : c[n] = b[Nth(new, n)]
    <2>1. \A n \in 1..m : b[Nth(new, n)] \in ListedIds
      BY <1>1, <1>3, <1>6
    <2>2. c \in [1..m -> ListedIds]
      BY <2>1
    <2> QED
      BY <1>6, <2>2
  <1> HIDE DEF m, c
  <1>8. /\ r \in Seq(ListedIds) /\ Len(r) = Len(a) + m
        /\ \A i \in 1..(Len(a) + m) : r[i] = IF i <= Len(a) THEN a[i] ELSE c[i - Len(a)]
    BY <1>7, ConcatProperties
  <1> HIDE DEF r
  <1>9. \A i \in 1..(Len(a) + m) :
          \/ i \in 1..Len(a) /\ r[i] = a[i]
          \/ /\ i - Len(a) \in 1..m /\ r[i] = b[Nth(new, i - Len(a))]
             /\ Nth(new, i - Len(a)) \in new
    BY <1>1, <1>6, <1>7, <1>8
  <1>10. Distinct(r)
    <2> SUFFICES ASSUME NEW i \in 1..(Len(a) + m), NEW j \in 1..(Len(a) + m), r[i] = r[j]
                 PROVE  i = j
      BY <1>8 DEF Distinct
    <2>1. CASE i \in 1..Len(a) /\ r[i] = a[i] /\ j \in 1..Len(a) /\ r[j] = a[j]
      BY <1>1, <2>1 DEF Distinct
    <2>2. CASE /\ i - Len(a) \in 1..m /\ r[i] = b[Nth(new, i - Len(a))]
               /\ j - Len(a) \in 1..m /\ r[j] = b[Nth(new, j - Len(a))]
      <3>1. Nth(new, i - Len(a)) \in DOMAIN b /\ Nth(new, j - Len(a)) \in DOMAIN b
        BY <1>1, <1>3, <1>6, <2>2
      <3>2. Nth(new, i - Len(a)) = Nth(new, j - Len(a))
        BY <2>2, <3>1 DEF Distinct
      <3>3. i - Len(a) = j - Len(a)
        BY <1>6, <2>2, <3>2
      <3> QED
        BY <1>1, <1>6, <3>3
    <2> QED
      BY <1>4, <1>9, <2>1, <2>2
  <1>11. ASSUME \A i \in DOMAIN a : \A j \in DOMAIN b : a[i] # b[j]
         PROVE  c = b
    <2>1. new = 1..Len(b)
      BY <1>5, <1>11
    <2>2. \A n \in 1..Len(b) : Cardinality(1..Len(b)) = Len(b) /\ Nth(1..Len(b), n) = n
      BY <1>1, NthOfInterval
    <2>3. m = Len(b)
      <3>1. CASE Len(b) = 0
        <4>1. 1..Len(b) = {}
          BY <3>1
        <4> QED
          BY <2>1, <3>1, <4>1, FS_EmptySet DEF m
      <3>2. CASE Len(b) # 0
        <4>1. 1 \in 1..Len(b)
          BY <1>1, <3>2
        <4> QED
          BY <2>1, <2>2, <4>1 DEF m
      <3> QED
        BY <3>1, <3>2
    <2>4. \A n \in 1..Len(b) : c[n] = b[n]
      BY <1>7, <2>1, <2>2, <2>3
    <2> QED
      BY <1>7, <2>3, <2>4, SeqEqual
  <1> QED
    BY <1>2, <1>8, <1>10, <1>11 DEF r

\* The page after what is shown of a list makes it longer, without a gap.
LEMMA PageAdds ==
  ASSUME v2 \subseteq ListedIds, NEW f, NEW p \in Nat \ {0},
         p * ListLimit < Len(DiaryList!Matching(f))
  PROVE  DiaryList!mergeDiariesById(SubSeq(DiaryList!Matching(f), 1, p * ListLimit), DiaryList!Rows(f, p + 1))
           = SubSeq(DiaryList!Matching(f), 1,
                    DiaryList!Upto((p + 1) * ListLimit, Len(DiaryList!Matching(f))))
  <1> DEFINE q == DiaryList!Matching(f)
             k == p * ListLimit
             n == DiaryList!Upto((p + 1) * ListLimit, Len(q))
             a == SubSeq(q, 1, k)
             b == SubSeq(q, k + 1, n)
  <1>1. q \in Seq(ListedIds) /\ Distinct(q) /\ Len(q) \in Nat
    BY MatchingIs
  <1>2. k \in Nat /\ (p + 1) * ListLimit = k + ListLimit /\ ((p + 1) - 1) * ListLimit + 1 = k + 1
    BY ListsAssumption
  <1>3. DiaryList!Rows(f, p + 1) = b
    BY <1>2 DEF DiaryList!Rows
  <1>4. n \in Nat /\ n <= Len(q) /\ k <= n /\ k < Len(q)
    <2>1. k + ListLimit \in Nat /\ k <= k + ListLimit
      BY <1>2, ListsAssumption
    <2>2. n = DiaryList!Upto(k + ListLimit, Len(q))
      BY <1>2
    <2> HIDE DEF q, k, n
    <2>3. k < Len(q)
      BY DEF q, k
    <2> QED
      BY <1>1, <1>2, <2>1, <2>2, <2>3 DEF DiaryList!Upto
  <1> HIDE DEF q, k, n
  <1>5. /\ a \in Seq(ListedIds) /\ Distinct(a) /\ Len(a) = IF 1 <= k THEN k - 1 + 1 ELSE 0
        /\ \A i \in 1..Len(a) : 1 + i - 1 \in 1..k /\ a[i] = q[1 + i - 1]
    BY <1>1, <1>2, <1>4, StretchIs
  <1>6. /\ b \in Seq(ListedIds) /\ Distinct(b)
        /\ \A i \in 1..Len(b) : (k + 1) + i - 1 \in 1..n /\ b[i] = q[(k + 1) + i - 1]
    BY <1>1, <1>2, <1>4, StretchIs
  <1>7. ASSUME NEW i \in DOMAIN a, NEW j \in DOMAIN b PROVE a[i] # b[j]
    <2>1. i \in 1..Len(a) /\ j \in 1..Len(b)
      BY <1>5, <1>6
    <2> HIDE DEF a, b
    <2>2. /\ 1 + i - 1 \in 1..k /\ a[i] = q[1 + i - 1]
          /\ (k + 1) + j - 1 \in 1..n /\ b[j] = q[(k + 1) + j - 1]
      BY <1>5, <1>6, <2>1
    <2>3. 1 + i - 1 \in DOMAIN q /\ (k + 1) + j - 1 \in DOMAIN q
      <3>1. DOMAIN q = 1..Len(q)
        BY <1>1
      <3> QED
        BY <1>1, <1>2, <1>4, <2>2, <3>1
    <2>4. j \in Nat /\ j >= 1
      <3>1. Len(b) \in Nat
        BY <1>6
      <3> QED
        BY <2>1, <3>1
    <2>5. 1 + i - 1 # (k + 1) + j - 1
      BY <1>2, <2>2, <2>4
    <2> QED
      BY <1>1, <2>2, <2>3, <2>5 DEF Distinct
  <1>8. DiaryList!mergeDiariesById(a, b) = a \o b
    BY <1>5, <1>6, <1>7, MergeIs
  <1>9. a \o b = SubSeq(q, 1, n)
    <2>1. 1 \in 1..Len(q)+1 /\ k \in (1 - 1)..Len(q) /\ n \in k..Len(q)
      BY <1>1, <1>2, <1>4
    <2> QED
      BY <1>1, <2>1, ConcatAdjacentSubSeq
  <1> QED
    BY <1>3, <1>8, <1>9 DEF q, k, n

-----------------------------------------------------------------------------
(* The two lists of diaries. *)

FeedOnce ==
  /\ Distinct(v5) /\ Distinct(v10.items)
  /\ \A m \in v11 : Distinct(m.answer.items) /\ m.generation <= v9

\* A first page under way begins the list, and no later page is for it.
FeedQuiet ==
  /\ v1 = "timeline" => ~v13
  /\ v1 = "timeline" /\ DiaryList!pending => v5 = <<>> /\ v6 = 0
  /\ ~v13 /\ DiaryList!pending => v7 = 1 /\ \A m \in v11 : ~DiaryList!Current(m)

\* One later page at a time is for the list, and it is the next one.
FeedOneMore ==
  ~v13 => \A m \in v11 : DiaryList!Current(m) =>
            /\ v8 /\ m.page = v7 + 1 /\ m.filter = v4 /\ Len(v5) < v6
            /\ \A l \in v11 : DiaryList!Current(l) => l = m

\* What was read is what there is, until something is written.
FeedFresh ==
  ~v12 =>
    /\ v10.phase = "read" => v10 = DiaryList!ReadOf(v4, 1)
    /\ \A m \in v11 :
         ~v13 /\ DiaryList!Current(m) /\ m.answer.phase = "read"
           => m.answer = DiaryList!ReadOf(v4, v7 + 1)
    /\ ~v13 /\ ~DiaryList!pending =>
         /\ v5 = SubSeq(DiaryList!Matching(v4), 1, DiaryList!Upto(v7 * ListLimit, v6))
         /\ v6 \in {0, Len(DiaryList!Matching(v4))}

FeedInv == DiaryList!TypeOK /\ FeedOnce /\ FeedQuiet /\ FeedOneMore /\ FeedFresh

LEMMA EmptyIs == <<>> \in Seq(ListedIds) /\ Distinct(<<>>) /\ Len(<<>>) = 0
  BY DEF Distinct

LEMMA ZeroCounts ==
  /\ Cardinality(ListedIds) \in Nat /\ 0 \in 0..DiaryList!Cardinality(ListedIds)
  /\ 1 \in 1..MaxListPage
  <1>1. Cardinality(ListedIds) \in Nat
    BY ListsAssumption, FS_CardinalityType
  <1>2. 0 \in 0..DiaryList!Cardinality(ListedIds)
    BY <1>1, FeedCardinality
  <1> QED
    BY <1>1, <1>2, ListsAssumption

LEMMA AskedIs ==
  /\ DiaryList!Asked \in DiaryList!Answer /\ DiaryList!Asked.phase = "asked"
  /\ DiaryList!Asked.items = <<>>
  /\ DiaryList!NoAnswer \in DiaryList!Answer /\ DiaryList!NoAnswer.phase = "idle"
  /\ DiaryList!NoAnswer.items = <<>>
  <1> QED
    BY ZeroCounts, EmptyIs DEF DiaryList!Asked, DiaryList!NoAnswer, DiaryList!Answer

LEMMA FeedStarts == DiaryList!Init => FeedInv
  <1> SUFFICES ASSUME DiaryList!Init PROVE FeedInv
    OBVIOUS
  <1>1. DiaryList!TypeOK
    <2>1. 0 \in 0..MaxRefreshes
      BY ListsAssumption
    <2> QED
      BY <2>1, ZeroCounts, AskedIs, EmptyIs DEF DiaryList!Init, DiaryList!TypeOK, DiaryList!Filters
  <1>2. FeedOnce
    BY AskedIs, EmptyIs DEF DiaryList!Init, FeedOnce
  <1>3. FeedQuiet /\ FeedOneMore
    BY DEF DiaryList!Init, FeedQuiet, FeedOneMore
  <1>4. FeedFresh
    BY AskedIs DEF DiaryList!Init, FeedFresh, DiaryList!pending
  <1> QED
    BY <1>1, <1>2, <1>3, <1>4 DEF FeedInv

LEMMA SameReads ==
  ASSUME v2' = v2
  PROVE  /\ \A f : DiaryList!Matching(f)' = DiaryList!Matching(f)
         /\ \A f, k : DiaryList!ReadOf(f, k)' = DiaryList!ReadOf(f, k)
  BY DEF DiaryList!Matching, DiaryList!ReadOf, DiaryList!Rows

LEMMA FeedFacts ==
  ASSUME FeedInv
  PROVE  /\ v1 \in {"timeline", "list"} /\ v2 \subseteq ListedIds /\ v4 \in DiaryList!Filters
         /\ v5 \in Seq(ListedIds) /\ Len(v5) \in Nat /\ v6 \in 0..DiaryList!Cardinality(ListedIds)
         /\ v7 \in 1..MaxListPage /\ v7 \in Nat \ {0} /\ v6 \in Nat
         /\ v8 \in BOOLEAN /\ v12 \in BOOLEAN /\ v13 \in BOOLEAN
         /\ v9 \in 0..MaxRefreshes /\ v9 \in Nat
         /\ v10 \in DiaryList!Answer
         /\ \A m \in v11 : m \in DiaryList!Later
         /\ v10.items \in Seq(ListedIds) /\ v10.total \in 0..DiaryList!Cardinality(ListedIds)
         /\ \A m \in v11 : /\ m.generation \in Nat /\ m.page \in 1..MaxListPage /\ m.page \in Nat \ {0}
                           /\ m.filter \in DiaryList!Filters /\ m.answer \in DiaryList!Answer
                           /\ m.answer.items \in Seq(ListedIds)
                           /\ m.answer.total \in 0..DiaryList!Cardinality(ListedIds)
  <1>1. DiaryList!TypeOK
    BY DEF FeedInv
  <1>2. \A a \in DiaryList!Answer : a.items \in Seq(ListedIds) /\ a.total \in 0..DiaryList!Cardinality(ListedIds)
    BY DEF DiaryList!Answer
  <1>3. \A m \in DiaryList!Later : /\ m.generation \in 0..MaxRefreshes /\ m.page \in 1..MaxListPage
                                   /\ m.filter \in DiaryList!Filters /\ m.answer \in DiaryList!Answer
    BY DEF DiaryList!Later
  <1>4. 1..MaxListPage \subseteq Nat \ {0} /\ 0..MaxRefreshes \subseteq Nat
    BY ListsAssumption
  <1>5. 0..DiaryList!Cardinality(ListedIds) \subseteq Nat
    BY ListsAssumption, FS_CardinalityType, FeedCardinality
  <1>6. Len(v5) \in Nat
    BY <1>1 DEF DiaryList!TypeOK
  <1> QED
    BY <1>1, <1>2, <1>3, <1>4, <1>5, <1>6 DEF DiaryList!TypeOK

\* A first page is asked for: the timeline forgets what it shows, and the page
\* of diaries notes when a later page is under way.
LEMMA AskKeeps ==
  ASSUME FeedInv, DiaryList!Ask, v4' \in DiaryList!Filters,
         UNCHANGED <<v1, v2, v3, v11, v12>>,
         \/ DiaryList!RefreshTimeline
         \/ /\ v1 = "list" /\ UNCHANGED <<v5, v6, v8>> /\ v7' \in {1, v7} /\ v13' \in BOOLEAN
            /\ ~v13' => v11 = {} /\ v7' = 1
  PROVE  FeedInv'
  <1>1. /\ v9' = v9 + 1 /\ v10' = DiaryList!Asked /\ v9' \in 0..MaxRefreshes
    BY FeedFacts, ListsAssumption DEF DiaryList!Ask
  <1>2. DiaryList!pending'
    BY <1>1, AskedIs DEF DiaryList!pending
  <1>3. \/ /\ v1 = "timeline" /\ v5' = <<>> /\ v6' = 0 /\ v7' = 1 /\ v8' = FALSE /\ v13' = v13
           /\ ~v13
        \/ /\ v1 = "list" /\ UNCHANGED <<v5, v6, v8>> /\ v7' \in {1, v7} /\ v13' \in BOOLEAN
           /\ ~v13' => v11 = {} /\ v7' = 1
    BY DEF DiaryList!RefreshTimeline, FeedInv, FeedQuiet
  <1>4. v5' \in Seq(ListedIds) /\ Distinct(v5')
    BY <1>3, FeedFacts, EmptyIs DEF FeedInv, FeedOnce
  <1>5. v6' \in 0..DiaryList!Cardinality(ListedIds) /\ v7' \in 1..MaxListPage
    <2> QED
      BY <1>3, ZeroCounts, FeedFacts
  <1>6. DiaryList!TypeOK'
    BY <1>1, <1>3, <1>4, <1>5, FeedFacts, AskedIs DEF DiaryList!TypeOK, FeedInv
  <1>7. FeedOnce'
    BY <1>1, <1>4, FeedFacts, AskedIs, EmptyIs DEF FeedInv, FeedOnce
  <1>8. ASSUME ~v13' PROVE \A m \in v11 : ~DiaryList!Current(m)'
    BY <1>1, <1>3, <1>8, FeedFacts DEF DiaryList!Current, FeedInv, FeedOnce
  <1>9. FeedQuiet'
    BY <1>3, <1>8 DEF FeedQuiet
  <1>10. FeedOneMore'
    BY <1>8 DEF FeedOneMore
  <1>11. FeedFresh'
    BY <1>1, <1>2, <1>8, AskedIs DEF FeedFresh
  <1> QED
    BY <1>6, <1>7, <1>9, <1>10, <1>11 DEF FeedInv

LEMMA AskingKeeps ==
  ASSUME FeedInv, \/ DiaryList!Refresh \/ \E f \in DiaryList!Filters : DiaryList!SetFilter(f)
  PROVE  FeedInv'
  <1>1. CASE DiaryList!Refresh
    <2>1. DiaryList!Ask /\ v4' \in DiaryList!Filters /\ UNCHANGED <<v1, v2, v3, v11, v12>>
      BY <1>1, FeedFacts DEF DiaryList!Refresh
    <2>2. DiaryList!RefreshTimeline \/ DiaryList!RefreshList
      BY <1>1 DEF DiaryList!Refresh
    <2>3. ASSUME DiaryList!RefreshList
          PROVE  /\ v1 = "list" /\ UNCHANGED <<v5, v6, v8>> /\ v7' \in {1, v7} /\ v13' \in BOOLEAN
                 /\ ~v13' => v11 = {} /\ v7' = 1
      <3>1. /\ v1 = "list" /\ UNCHANGED <<v5, v6, v7, v8>> /\ v13' = (v13 \/ v11 # {} \/ v7 > 1)
        BY <2>3 DEF DiaryList!RefreshList, DiaryList!shown
      <3>2. ~(v7 > 1) => v7 = 1
        BY FeedFacts
      <3>3. v13' \in BOOLEAN
        BY <3>1
      <3> QED
        BY <3>1, <3>2, <3>3
    <2> QED
      BY <2>1, <2>2, <2>3, AskKeeps
  <1>2. CASE \E f \in DiaryList!Filters : DiaryList!SetFilter(f)
    <2>1. DiaryList!Ask /\ v4' \in DiaryList!Filters /\ UNCHANGED <<v1, v2, v3, v11, v12>>
      BY <1>2 DEF DiaryList!SetFilter
    <2>2. DiaryList!RefreshTimeline \/ DiaryList!RestartList
      BY <1>2 DEF DiaryList!SetFilter
    <2>3. ASSUME DiaryList!RestartList
          PROVE  /\ v1 = "list" /\ UNCHANGED <<v5, v6, v8>> /\ v7' \in {1, v7} /\ v13' \in BOOLEAN
                 /\ ~v13' => v11 = {} /\ v7' = 1
      BY <2>3, FeedFacts DEF DiaryList!RestartList
    <2> QED
      BY <2>1, <2>2, <2>3, AskKeeps
  <1> QED
    BY <1>1, <1>2

LEMMA FirstKeeps ==
  ASSUME FeedInv, DiaryList!ReadFirst \/ DiaryList!AnswerFirst \/ DiaryList!FirstFails
  PROVE  FeedInv'
  <1> USE DEF DiaryList!shown
  <1>1. CASE DiaryList!ReadFirst
    <2>1. /\ v10.phase = "asked" /\ v10' = DiaryList!ReadOf(v4, 1) /\ v12' = FALSE
          /\ UNCHANGED <<v1, v2, v3, v4, v5, v6, v7, v8, v9, v11, v13>>
      BY <1>1 DEF DiaryList!ReadFirst
    <2>2. /\ v10' \in DiaryList!Answer /\ Distinct(v10'.items) /\ v10'.phase = "read"
      BY <2>1, FeedFacts, ReadIs
    <2>3. DiaryList!pending /\ DiaryList!pending'
      BY <2>1, <2>2 DEF DiaryList!pending
    <2>4. DiaryList!TypeOK'
      BY <2>1, <2>2 DEF FeedInv, DiaryList!TypeOK
    <2>5. FeedOnce'
      BY <2>1, <2>2 DEF FeedInv, FeedOnce
    <2>6. \A m : DiaryList!Current(m)' <=> DiaryList!Current(m)
      BY <2>1 DEF DiaryList!Current
    <2>7. FeedQuiet' /\ FeedOneMore'
      BY <2>1, <2>3, <2>6 DEF FeedInv, FeedQuiet, FeedOneMore
    <2>8. FeedFresh'
      <3>1. v10' = DiaryList!ReadOf(v4, 1)'
        BY <2>1, SameReads
      <3>2. ~v13 => \A m \in v11 : ~DiaryList!Current(m)
        BY <2>3 DEF FeedInv, FeedQuiet
      <3> QED
        BY <2>1, <2>3, <2>6, <3>1, <3>2 DEF FeedFresh
    <2> QED
      BY <2>4, <2>5, <2>7, <2>8 DEF FeedInv
  <1>2. CASE DiaryList!AnswerFirst
    <2>1. /\ v10.phase = "read" /\ v10' = DiaryList!NoAnswer /\ v5' = v10.items /\ v6' = v10.total
          /\ UNCHANGED <<v1, v2, v3, v4, v7, v8, v9, v11, v12, v13>>
      BY <1>2 DEF DiaryList!AnswerFirst
    <2>2. DiaryList!pending /\ ~DiaryList!pending'
      BY <2>1, AskedIs DEF DiaryList!pending
    <2>3. DiaryList!TypeOK'
      BY <2>1, AskedIs, FeedFacts DEF FeedInv, DiaryList!TypeOK
    <2>4. FeedOnce'
      BY <2>1, AskedIs, EmptyIs DEF FeedInv, FeedOnce
    <2>5. \A m : DiaryList!Current(m)' <=> DiaryList!Current(m)
      BY <2>1 DEF DiaryList!Current
    <2>6. ~v13 => v7 = 1 /\ \A m \in v11 : ~DiaryList!Current(m)
      BY <2>2 DEF FeedInv, FeedQuiet
    <2>7. FeedQuiet' /\ FeedOneMore'
      BY <2>1, <2>2, <2>5, <2>6 DEF FeedInv, FeedQuiet, FeedOneMore
    <2>8. ASSUME ~v12, ~v13
          PROVE  /\ v5' = SubSeq(DiaryList!Matching(v4), 1, DiaryList!Upto(v7 * ListLimit, v6'))
                 /\ v6' = Len(DiaryList!Matching(v4))
      <3>1. v10 = DiaryList!ReadOf(v4, 1)
        BY <2>1, <2>8 DEF FeedInv, FeedFresh
      <3>2. v10.total = Len(DiaryList!Matching(v4)) /\ v10.items = DiaryList!Rows(v4, 1)
        BY <3>1, FeedFacts, ReadIs
      <3>3. v7 = 1 /\ (1 - 1) * ListLimit + 1 = 1
        BY <2>6, <2>8, ListsAssumption
      <3> QED
        BY <2>1, <3>2, <3>3 DEF DiaryList!Rows
    <2>9. FeedFresh'
      <3>1. DiaryList!Matching(v4)' = DiaryList!Matching(v4)
        BY <2>1, SameReads
      <3> QED
        BY <2>1, <2>5, <2>6, <2>8, <3>1, AskedIs DEF FeedFresh
    <2> QED
      BY <2>3, <2>4, <2>7, <2>9 DEF FeedInv
  <1>3. CASE DiaryList!FirstFails
    <2>1. /\ DiaryList!pending /\ v10' = DiaryList!NoAnswer
          /\ v5' = (IF v1 = "list" THEN <<>> ELSE v5) /\ v6' = (IF v1 = "list" THEN 0 ELSE v6)
          /\ UNCHANGED <<v1, v2, v3, v4, v7, v8, v9, v11, v12, v13>>
      BY <1>3 DEF DiaryList!FirstFails
    <2>2. v5' = <<>> /\ v6' = 0
      BY <2>1, FeedFacts DEF FeedInv, FeedQuiet
    <2>3. ~DiaryList!pending'
      BY <2>1, AskedIs DEF DiaryList!pending
    <2>5. DiaryList!TypeOK'
      BY <2>1, <2>2, ZeroCounts, AskedIs, EmptyIs, FeedFacts DEF FeedInv, DiaryList!TypeOK
    <2>6. FeedOnce'
      BY <2>1, <2>2, AskedIs, EmptyIs DEF FeedInv, FeedOnce
    <2>7. \A m : DiaryList!Current(m)' <=> DiaryList!Current(m)
      BY <2>1 DEF DiaryList!Current
    <2>8. ~v13 => \A m \in v11 : ~DiaryList!Current(m)
      BY <2>1 DEF FeedInv, FeedQuiet
    <2>9. FeedQuiet' /\ FeedOneMore'
      BY <2>1, <2>3, <2>7, <2>8 DEF FeedInv, FeedQuiet, FeedOneMore
    <2>10. SubSeq(DiaryList!Matching(v4)', 1, DiaryList!Upto(v7' * ListLimit, v6')) = <<>>
      <3>1. v7 * ListLimit \in Nat
        BY FeedFacts, ListsAssumption
      <3>2. DiaryList!Upto(v7' * ListLimit, v6') = 0
        BY <2>1, <2>2, <3>1 DEF DiaryList!Upto
      <3>3. SubSeq(DiaryList!Matching(v4)', 1, 0) = <<>>
        BY SubSeqEmpty
      <3> QED
        BY <3>2, <3>3
    <2>11. FeedFresh'
      BY <2>1, <2>2, <2>7, <2>8, <2>10, AskedIs DEF FeedFresh
    <2> QED
      BY <2>5, <2>6, <2>9, <2>11 DEF FeedInv
  <1> QED
    BY <1>1, <1>2, <1>3

-----------------------------------------------------------------------------
\* The next page is asked for.
LEMMA LoadMoreKeeps ==
  ASSUME FeedInv, DiaryList!LoadMore
  PROVE  FeedInv'
  <1> DEFINE n == [generation |-> v9, page |-> v7 + 1, filter |-> v4, answer |-> DiaryList!Asked]
  <1>1. /\ ~DiaryList!pending /\ ~v8 /\ DiaryList!hasMore /\ v7 < MaxListPage
        /\ v8' = TRUE /\ v11' = v11 \cup {n}
        /\ UNCHANGED <<v1, v2, v3, v4, v5, v6, v7, v9, v10, v12, v13>>
    BY DEF DiaryList!LoadMore, DiaryList!shown
  <1>2. /\ n.generation = v9 /\ n.page = v7 + 1 /\ n.filter = v4 /\ n.answer = DiaryList!Asked
    OBVIOUS
  <1>3. n \in DiaryList!Later
    <2>1. v7 + 1 \in 1..MaxListPage
      BY <1>1, FeedFacts, ListsAssumption
    <2> QED
      BY <2>1, FeedFacts, AskedIs DEF DiaryList!Later
  <1> HIDE DEF n
  <1>4. \A m : DiaryList!Current(m)' <=> DiaryList!Current(m)
    BY <1>1 DEF DiaryList!Current
  <1>5. ~DiaryList!pending'
    BY <1>1 DEF DiaryList!pending
  <1>6. ~v13 => \A m \in v11 : ~DiaryList!Current(m)
    BY <1>1 DEF FeedInv, FeedOneMore
  <1>7. DiaryList!TypeOK'
    BY <1>1, <1>3 DEF FeedInv, DiaryList!TypeOK
  <1>8. FeedOnce'
    <2>1. Distinct(n.answer.items) /\ n.generation <= v9
      BY <1>2, AskedIs, EmptyIs, FeedFacts
    <2> QED
      BY <1>1, <2>1 DEF FeedInv, FeedOnce
  <1>9. FeedQuiet'
    BY <1>1, <1>5 DEF FeedInv, FeedQuiet
  <1>10. FeedOneMore'
    BY <1>1, <1>2, <1>4, <1>6 DEF FeedOneMore, DiaryList!hasMore
  <1>11. FeedFresh'
    <2>1. n.answer.phase # "read"
      BY <1>2, AskedIs
    <2>2. \A f, k : DiaryList!ReadOf(f, k)' = DiaryList!ReadOf(f, k)
      BY <1>1, SameReads
    <2>3. \A f : DiaryList!Matching(f)' = DiaryList!Matching(f)
      BY <1>1, SameReads
    <2>4. ~v12 => (v10.phase = "read" => v10 = DiaryList!ReadOf(v4, 1))
      BY DEF FeedInv, FeedFresh
    <2>5. ~v12 /\ ~v13 => v5 = SubSeq(DiaryList!Matching(v4), 1, DiaryList!Upto(v7 * ListLimit, v6))
                   /\ v6 \in {0, Len(DiaryList!Matching(v4))}
      BY <1>1 DEF FeedInv, FeedFresh
    <2> QED
      BY <1>1, <1>4, <1>6, <2>1, <2>2, <2>3, <2>4, <2>5 DEF FeedFresh
  <1> QED
    BY <1>7, <1>8, <1>9, <1>10, <1>11 DEF FeedInv

\* The server reads a later page.
LEMMA ReadMoreKeeps ==
  ASSUME FeedInv, NEW m \in v11, DiaryList!ReadMore(m)
  PROVE  FeedInv'
  <1> DEFINE n == [m EXCEPT !.answer = DiaryList!ReadOf(m.filter, m.page)]
  <1>1. /\ m.answer.phase = "asked" /\ v11' = (v11 \ {m}) \cup {n}
        /\ UNCHANGED <<v1, v2, v3, v4, v5, v6, v7, v8, v9, v10, v12, v13>>
    BY DEF DiaryList!ReadMore, DiaryList!shown
  <1>2. m \in DiaryList!Later /\ m.page \in Nat \ {0} /\ v2 \subseteq ListedIds
    BY FeedFacts
  <1>3. /\ n.generation = m.generation /\ n.page = m.page /\ n.filter = m.filter
        /\ n.answer = DiaryList!ReadOf(m.filter, m.page)
    BY <1>2 DEF DiaryList!Later
  <1>4. n.answer \in DiaryList!Answer /\ Distinct(n.answer.items)
    BY <1>2, <1>3, ReadIs
  <1>5. n \in DiaryList!Later
    BY <1>2, <1>3, <1>4 DEF DiaryList!Later
  <1> HIDE DEF n
  <1>6. \A l : DiaryList!Current(l)' <=> DiaryList!Current(l)
    BY <1>1 DEF DiaryList!Current
  <1>7. DiaryList!Current(n) <=> DiaryList!Current(m)
    BY <1>3 DEF DiaryList!Current
  <1>8. DiaryList!pending' <=> DiaryList!pending
    BY <1>1 DEF DiaryList!pending
  <1>9. DiaryList!TypeOK'
    BY <1>1, <1>5 DEF FeedInv, DiaryList!TypeOK
  <1>10. FeedOnce'
    BY <1>1, <1>3, <1>4 DEF FeedInv, FeedOnce
  <1>11. FeedQuiet'
    BY <1>1, <1>6, <1>7, <1>8 DEF FeedInv, FeedQuiet
  <1>12. ASSUME ~v13 PROVE \A l \in v11 : DiaryList!Current(l) =>
            /\ v8 /\ l.page = v7 + 1 /\ l.filter = v4 /\ Len(v5) < v6
            /\ \A o \in v11 : DiaryList!Current(o) => o = l
    BY <1>12 DEF FeedInv, FeedOneMore
  <1>13. FeedOneMore'
    <2> SUFFICES ASSUME ~v13, NEW l \in v11', DiaryList!Current(l)
                 PROVE  /\ v8 /\ l.page = v7 + 1 /\ l.filter = v4 /\ Len(v5) < v6
                        /\ \A o \in v11' : DiaryList!Current(o) => o = l
      BY <1>1, <1>6 DEF FeedOneMore
    <2>1. CASE l \in v11 \ {m}
      BY <1>1, <1>7, <1>12, <2>1
    <2>2. CASE l = n
      BY <1>1, <1>3, <1>7, <1>12, <2>2
    <2> QED
      BY <1>1, <2>1, <2>2
  <1>14. FeedFresh'
    <2>1. \A f, k : DiaryList!ReadOf(f, k)' = DiaryList!ReadOf(f, k)
      BY <1>1, SameReads
    <2>2. \A f : DiaryList!Matching(f)' = DiaryList!Matching(f)
      BY <1>1, SameReads
    <2>3. ~v13 /\ DiaryList!Current(n) => n.answer = DiaryList!ReadOf(v4, v7 + 1)
      BY <1>3, <1>7, <1>12
    <2>4. ~v12 => /\ v10.phase = "read" => v10 = DiaryList!ReadOf(v4, 1)
                  /\ \A l \in v11 : ~v13 /\ DiaryList!Current(l) /\ l.answer.phase = "read"
                        => l.answer = DiaryList!ReadOf(v4, v7 + 1)
                  /\ ~v13 /\ ~DiaryList!pending =>
                       /\ v5 = SubSeq(DiaryList!Matching(v4), 1, DiaryList!Upto(v7 * ListLimit, v6))
                       /\ v6 \in {0, Len(DiaryList!Matching(v4))}
      BY DEF FeedInv, FeedFresh
    <2> QED
      BY <1>1, <1>6, <1>8, <2>1, <2>2, <2>3, <2>4 DEF FeedFresh
  <1> QED
    BY <1>9, <1>10, <1>11, <1>13, <1>14 DEF FeedInv

\* A later page comes, or does not: one that is not for the list leaves it.
LEMMA DropKeeps ==
  ASSUME FeedInv, NEW m \in v11, v11' = v11 \ {m},
         v8' = (IF DiaryList!Current(m) THEN FALSE ELSE v8),
         UNCHANGED <<v1, v2, v3, v4, v5, v6, v7, v9, v10, v12, v13>>
  PROVE  FeedInv'
  <1>1. \A l : DiaryList!Current(l)' <=> DiaryList!Current(l)
    BY DEF DiaryList!Current
  <1>2. DiaryList!pending' <=> DiaryList!pending
    BY DEF DiaryList!pending
  <1>3. DiaryList!TypeOK'
    BY DEF FeedInv, DiaryList!TypeOK
  <1>4. FeedOnce'
    BY DEF FeedInv, FeedOnce
  <1>5. FeedQuiet'
    BY <1>1, <1>2 DEF FeedInv, FeedQuiet
  <1>6. FeedOneMore'
    BY <1>1 DEF FeedInv, FeedOneMore
  <1>7. FeedFresh'
    <2>1. \A f, k : DiaryList!ReadOf(f, k)' = DiaryList!ReadOf(f, k)
      BY SameReads
    <2>2. \A f : DiaryList!Matching(f)' = DiaryList!Matching(f)
      BY SameReads
    <2> QED
      BY <1>1, <1>2, <2>1, <2>2 DEF FeedInv, FeedFresh
  <1> QED
    BY <1>3, <1>4, <1>5, <1>6, <1>7 DEF FeedInv

LEMMA AnswerMoreKeeps ==
  ASSUME FeedInv, NEW m \in v11, DiaryList!AnswerMore(m)
  PROVE  FeedInv'
  <1>1. /\ m.answer.phase = "read" /\ v11' = v11 \ {m}
        /\ UNCHANGED <<v1, v2, v3, v4, v9, v10, v12, v13>>
    BY DEF DiaryList!AnswerMore
  <1>2. CASE ~DiaryList!Current(m)
    <2>1. UNCHANGED <<v5, v6, v7, v8>>
      BY <1>2 DEF DiaryList!AnswerMore, DiaryList!shown
    <2> QED
      BY <1>1, <1>2, <2>1, DropKeeps
  <1>3. CASE DiaryList!Current(m)
    <2>1. /\ v5' = DiaryList!mergeDiariesById(v5, m.answer.items) /\ v6' = m.answer.total
          /\ v7' = m.page /\ v8' = FALSE
      BY <1>3 DEF DiaryList!AnswerMore
    <2>2. \A l : DiaryList!Current(l)' <=> DiaryList!Current(l)
      BY <1>1 DEF DiaryList!Current
    <2>3. DiaryList!pending' <=> DiaryList!pending
      BY <1>1 DEF DiaryList!pending
    <2>4. /\ v5' \in Seq(ListedIds) /\ Distinct(v5')
      BY <2>1, FeedFacts, MergeIs DEF FeedInv, FeedOnce
    <2>5. DiaryList!TypeOK'
      BY <1>1, <2>1, <2>4, FeedFacts DEF FeedInv, DiaryList!TypeOK
    <2>6. FeedOnce'
      BY <1>1, <2>4 DEF FeedInv, FeedOnce
    <2>7. ~v13 => ~DiaryList!pending
      BY <1>3 DEF FeedInv, FeedQuiet
    <2>8. ~v13 => \A l \in v11' : ~DiaryList!Current(l)
      BY <1>1, <1>3 DEF FeedInv, FeedOneMore
    <2>9. FeedQuiet'
      BY <1>1, <2>2, <2>3, <2>7, <2>8 DEF FeedInv, FeedQuiet
    <2>10. FeedOneMore'
      BY <1>1, <2>2, <2>8 DEF FeedOneMore
    <2>11. ASSUME ~v12, ~v13
           PROVE  /\ v5' = SubSeq(DiaryList!Matching(v4), 1, DiaryList!Upto(v7' * ListLimit, v6'))
                  /\ v6' = Len(DiaryList!Matching(v4))
      <3> DEFINE q == DiaryList!Matching(v4)
      <3>1. /\ m.page = v7 + 1 /\ Len(v5) < v6
        BY <1>3, <2>11 DEF FeedInv, FeedOneMore
      <3>2. m.answer = DiaryList!ReadOf(v4, v7 + 1)
        BY <1>1, <1>3, <2>11 DEF FeedInv, FeedFresh
      <3>3. /\ v5 = SubSeq(q, 1, DiaryList!Upto(v7 * ListLimit, v6)) /\ v6 \in {0, Len(q)}
        BY <2>7, <2>11 DEF FeedInv, FeedFresh
      <3>4. v7 \in Nat \ {0} /\ v7 + 1 \in Nat \ {0} /\ v7 * ListLimit \in Nat /\ v2 \subseteq ListedIds
        BY FeedFacts, ListsAssumption
      <3>5. m.answer.total = Len(q) /\ m.answer.items = DiaryList!Rows(v4, v7 + 1)
        BY <3>2, <3>4, ReadIs
      <3>6. q \in Seq(ListedIds) /\ Distinct(q) /\ Len(q) \in Nat
        BY <3>4, MatchingIs
      <3> HIDE DEF q
      <3>7. v6 = Len(q)
        BY <3>1, <3>3, <3>6, FeedFacts
      <3>8. v7 * ListLimit < Len(q)
        <4> SUFFICES ASSUME ~(v7 * ListLimit < Len(q)) PROVE FALSE
          OBVIOUS
        <4>1. DiaryList!Upto(v7 * ListLimit, v6) = Len(q)
          BY <3>4, <3>6, <3>7 DEF DiaryList!Upto
        <4>2. v5 = SubSeq(q, 1, Len(q))
          BY <3>3, <4>1
        <4>3. v5 = q
          BY <3>6, <4>2, SubSeqFull
        <4> QED
          BY <3>1, <3>6, <3>7, <4>3
      <3>9. DiaryList!Upto(v7 * ListLimit, v6) = v7 * ListLimit
        BY <3>7, <3>8 DEF DiaryList!Upto
      <3>10. DiaryList!mergeDiariesById(SubSeq(q, 1, v7 * ListLimit), DiaryList!Rows(v4, v7 + 1))
               = SubSeq(q, 1, DiaryList!Upto((v7 + 1) * ListLimit, Len(q)))
        BY <3>4, <3>8, PageAdds DEF q
      <3> QED
        BY <2>1, <3>1, <3>3, <3>5, <3>9, <3>10 DEF q
    <2>12. FeedFresh'
      <3>1. \A f, k : DiaryList!ReadOf(f, k)' = DiaryList!ReadOf(f, k)
        BY <1>1, SameReads
      <3>2. \A f : DiaryList!Matching(f)' = DiaryList!Matching(f)
        BY <1>1, SameReads
      <3>3. ~v12 => (v10.phase = "read" => v10 = DiaryList!ReadOf(v4, 1))
        BY DEF FeedInv, FeedFresh
      <3> QED
        BY <1>1, <2>2, <2>8, <2>11, <3>1, <3>2, <3>3 DEF FeedFresh
    <2> QED
      BY <2>5, <2>6, <2>9, <2>10, <2>12 DEF FeedInv
  <1> QED
    BY <1>2, <1>3

LEMMA MoreFailsKeeps ==
  ASSUME FeedInv, NEW m \in v11, DiaryList!MoreFails(m)
  PROVE  FeedInv'
  <1>1. /\ v11' = v11 \ {m} /\ v8' = (IF DiaryList!Current(m) THEN FALSE ELSE v8)
        /\ UNCHANGED <<v1, v2, v3, v4, v5, v6, v7, v9, v10, v12, v13>>
    BY DEF DiaryList!MoreFails, DiaryList!shown
  <1> QED
    BY <1>1, DropKeeps

\* A diary is written: from then on nothing read before counts as fresh.
LEMMA WrittenKeeps ==
  ASSUME FeedInv, NEW i \in ListedIds, DiaryList!Create(i) \/ DiaryList!Delete(i)
  PROVE  FeedInv'
  <1>1. /\ v2' \subseteq ListedIds /\ v3' \subseteq ListedIds /\ v12' = TRUE
        /\ UNCHANGED <<v1, v4, v5, v6, v7, v8, v9, v10, v11, v13>>
    BY DEF DiaryList!Create, DiaryList!Delete, DiaryList!shown, FeedInv, DiaryList!TypeOK
  <1>2. \A l : DiaryList!Current(l)' <=> DiaryList!Current(l)
    BY <1>1 DEF DiaryList!Current
  <1>3. DiaryList!pending' <=> DiaryList!pending
    BY <1>1 DEF DiaryList!pending
  <1>4. DiaryList!TypeOK'
    BY <1>1 DEF FeedInv, DiaryList!TypeOK
  <1>5. FeedOnce'
    BY <1>1 DEF FeedInv, FeedOnce
  <1>6. FeedQuiet' /\ FeedOneMore'
    BY <1>1, <1>2, <1>3 DEF FeedInv, FeedQuiet, FeedOneMore
  <1>7. FeedFresh'
    BY <1>1 DEF FeedFresh
  <1> QED
    BY <1>4, <1>5, <1>6, <1>7 DEF FeedInv

LEMMA FeedKept == FeedInv /\ [DiaryList!Next]_(DiaryList!vars) => FeedInv'
  <1> SUFFICES ASSUME FeedInv, [DiaryList!Next]_(DiaryList!vars) PROVE FeedInv'
    OBVIOUS
  <1>1. CASE UNCHANGED DiaryList!vars
    <2>1. UNCHANGED <<v1, v2, v3, v4, v5, v6, v7, v8, v9, v10, v11, v12, v13>>
      BY <1>1 DEF DiaryList!vars
    <2>2. \A f, k : DiaryList!ReadOf(f, k)' = DiaryList!ReadOf(f, k)
      BY <2>1, SameReads
    <2>3. \A f : DiaryList!Matching(f)' = DiaryList!Matching(f)
      BY <2>1, SameReads
    <2>4. \A l : DiaryList!Current(l)' <=> DiaryList!Current(l)
      BY <2>1 DEF DiaryList!Current
    <2>5. DiaryList!pending' <=> DiaryList!pending
      BY <2>1 DEF DiaryList!pending
    <2>6. DiaryList!TypeOK' /\ FeedOnce'
      BY <2>1 DEF FeedInv, DiaryList!TypeOK, FeedOnce
    <2>7. FeedQuiet' /\ FeedOneMore'
      BY <2>1, <2>4, <2>5 DEF FeedInv, FeedQuiet, FeedOneMore
    <2>8. FeedFresh'
      BY <2>1, <2>2, <2>3, <2>4, <2>5 DEF FeedInv, FeedFresh
    <2> QED
      BY <2>6, <2>7, <2>8 DEF FeedInv
  <1>2. CASE DiaryList!Next
    BY <1>2, AskingKeeps, FirstKeeps, LoadMoreKeeps, ReadMoreKeeps, AnswerMoreKeeps, MoreFailsKeeps,
       WrittenKeeps DEF DiaryList!Next
  <1> QED
    BY <1>1, <1>2

LEMMA FeedHolds == FeedInv => DiaryList!ListsAreWhole
  BY DEF FeedInv, FeedOnce, FeedFresh, Distinct, DiaryList!ListsAreWhole

-----------------------------------------------------------------------------
(* What a page of the articles has. *)

\* Rounding up: before the last page there are rows left.
LEMMA Multiples ==
  ASSUME NEW a \in Nat, NEW b \in Nat, NEW l \in Nat, a <= b
  PROVE  a * l \in Nat /\ b * l \in Nat /\ a * l <= b * l
  OBVIOUS

LEMMA PagesIs ==
  ASSUME NEW n \in Nat
  PROVE  /\ ArticleList!Pages(n) \in Nat
         /\ \A c \in Nat : c < ArticleList!Pages(n) => c * PostLimit < n
         /\ \A m \in Nat : n <= m => ArticleList!Pages(n) <= ArticleList!Pages(m)
         /\ n > 0 => ArticleList!Pages(n) >= 1
  <1> DEFINE l == PostLimit
  <1>1. l \in Nat \ {0}
    BY ListsAssumption
  <1>2. \A m \in Nat : ArticleList!Pages(m) = (m + l - 1) \div l
    BY DEF ArticleList!Pages
  <1> HIDE DEF l
  <1>3. \A m \in Nat : (m + l - 1) \div l \in Nat
    BY <1>1
  <1>4. \A m \in Nat : /\ ((m + l - 1) \div l) * l <= m + l - 1
                       /\ m + l - 1 < ((m + l - 1) \div l) * l + l
    BY <1>1
  <1> DEFINE d(m) == ArticleList!Pages(m)
  <1>5. \A m \in Nat : d(m) \in Nat /\ d(m) * l <= m + l - 1 /\ m + l - 1 < d(m) * l + l
    BY <1>2, <1>3, <1>4
  <1> HIDE DEF d
  <1>6. ASSUME NEW c \in Nat, NEW e \in Nat, c < e
        PROVE  c * l + l <= e * l /\ c * l \in Nat /\ e * l \in Nat
    <2>1. (c + 1) * l <= e * l /\ e * l \in Nat
      BY <1>1, <1>6, Multiples
    <2>2. (c + 1) * l = c * l + l /\ c * l \in Nat
      BY <1>1
    <2> QED
      BY <2>1, <2>2
  <1>7. ASSUME NEW c \in Nat, c < d(n) PROVE c * l < n
    <2>1. c * l + l <= d(n) * l /\ c * l \in Nat /\ d(n) * l \in Nat /\ d(n) * l <= n + l - 1
      BY <1>5, <1>6, <1>7
    <2> QED
      BY <1>1, <2>1
  <1>8. ASSUME NEW m \in Nat, n <= m PROVE d(n) <= d(m)
    <2> SUFFICES ASSUME d(m) < d(n) PROVE FALSE
      BY <1>5
    <2>1. d(m) * l + l <= d(n) * l /\ d(m) * l \in Nat /\ d(n) * l \in Nat
      BY <1>5, <1>6
    <2>2. d(n) * l <= n + l - 1 /\ m + l - 1 < d(m) * l + l
      BY <1>5
    <2> QED
      BY <1>1, <1>8, <2>1, <2>2
  <1>9. ASSUME n > 0 PROVE d(n) >= 1
    <2> SUFFICES ASSUME d(n) = 0 PROVE FALSE
      BY <1>5
    <2>1. n + l - 1 < 0 * l + l
      BY <1>5
    <2> QED
      BY <1>1, <1>9, <2>1
  <1> QED
    BY <1>5, <1>7, <1>8, <1>9 DEF d, l

LEMMA PostCardinality == ASSUME NEW S PROVE ArticleList!Cardinality(S) = Cardinality(S)
  BY DEF ArticleList!Cardinality, Cardinality

LEMMA PostCounts ==
  /\ Cardinality(ListedPosts) \in Nat
  /\ ArticleList!Pages(Cardinality(ListedPosts)) \in Nat
  /\ ArticleList!MaxPage = ArticleList!Pages(Cardinality(ListedPosts)) + 2
  /\ ArticleList!MaxPage \in Nat /\ 1..2 \subseteq 1..ArticleList!MaxPage
  /\ 1..ArticleList!MaxPage \subseteq Nat \ {0} /\ 0..ArticleList!MaxPage \subseteq Nat
  <1> DEFINE n == Cardinality(ListedPosts)
             d == ArticleList!Pages(n)
  <1>1. n \in Nat
    BY ListsAssumption, FS_CardinalityType
  <1>2. ArticleList!MaxPage = d + 2
    BY PostCardinality DEF ArticleList!MaxPage
  <1> HIDE DEF n
  <1>3. d \in Nat
    BY <1>1, PagesIs
  <1> HIDE DEF d
  <1>4. d + 2 \in Nat /\ d + 2 >= 2
    BY <1>3
  <1> QED
    BY <1>1, <1>2, <1>3, <1>4 DEF d, n

\* What the server has of a search, and a page of it.
LEMMA PostsMatching ==
  ASSUME v1 \subseteq ListedPosts, NEW f
  PROVE  /\ ArticleList!Matching(f) \in Seq(ListedPosts) /\ Len(ArticleList!Matching(f)) \in Nat
         /\ Len(ArticleList!Matching(f)) <= Cardinality(ListedPosts)
         /\ Distinct(ArticleList!Matching(f))
  <1> DEFINE S == {i \in v1 : f = "all" \/ \E j \in ListedPosts : j < i}
             q == ArticleList!Matching(f)
  <1>1. S \in SUBSET ListedPosts /\ IsFiniteSet(ListedPosts) /\ ListedPosts \subseteq Nat
    BY ListsAssumption
  <1>2. q = ArticleList!Newest(S)
    BY DEF ArticleList!Matching
  <1> HIDE DEF S, q
  <1>3. ArticleList!Newest(S) = CHOOSE p \in [1..Cardinality(S) -> S] : \A i, j \in DOMAIN p : i < j => p[i] > p[j]
    BY PostCardinality DEF ArticleList!Newest
  <1>4. IsFiniteSet(S) /\ Cardinality(S) <= Cardinality(ListedPosts) /\ S \subseteq Nat
    BY <1>1, FS_Subset
  <1>5. q \in Seq(S) /\ Distinct(q) /\ Len(q) = Cardinality(S)
    BY <1>2, <1>3, <1>4, NewestIs
  <1>6. Cardinality(S) \in Nat /\ Cardinality(ListedPosts) \in Nat
    BY <1>1, <1>4, FS_CardinalityType
  <1>7. q \in Seq(ListedPosts)
    BY <1>1, <1>5, SeqMonotonic
  <1> QED
    BY <1>4, <1>5, <1>6, <1>7 DEF q

LEMMA PostsUpto ==
  ASSUME NEW a \in Nat, NEW b \in Nat
  PROVE  ArticleList!Upto(a, b) \in Nat /\ ArticleList!Upto(a, b) <= a /\ ArticleList!Upto(a, b) <= b
  BY DEF ArticleList!Upto

PostPages(f) == ArticleList!Pages(Len(ArticleList!Matching(f)))
PageOfPosts(f, k) == [items |-> ArticleList!Rows(f, k), pages |-> PostPages(f)]

LEMMA PostsRead ==
  ASSUME v1 \subseteq ListedPosts, NEW f, NEW k \in Nat \ {0}
  PROVE  PageOfPosts(f, k) \in ArticleList!Payload
  <1> DEFINE q == ArticleList!Matching(f)
             a == (k - 1) * PostLimit + 1
             b == ArticleList!Upto(k * PostLimit, Len(q))
  <1>1. q \in Seq(ListedPosts) /\ Distinct(q) /\ Len(q) \in Nat /\ Len(q) <= Cardinality(ListedPosts)
    BY PostsMatching
  <1>2. a \in Nat \ {0} /\ k * PostLimit \in Nat
    BY ListsAssumption
  <1> HIDE DEF q, a
  <1>3. b \in Nat /\ b <= Len(q)
    BY <1>1, <1>2, PostsUpto
  <1> HIDE DEF b
  <1>4. SubSeq(q, a, b) \in Seq(ListedPosts)
    BY <1>1, <1>2, <1>3, StretchIs
  <1>5. ArticleList!Rows(f, k) = SubSeq(q, a, b)
    BY DEF ArticleList!Rows, q, a, b
  <1>6. PostPages(f) \in 0..ArticleList!MaxPage
    <2>1. PostPages(f) = ArticleList!Pages(Len(q))
      BY DEF PostPages, q
    <2>2. ArticleList!Pages(Len(q)) \in Nat /\ ArticleList!Pages(Len(q)) <= ArticleList!Pages(Cardinality(ListedPosts))
      BY <1>1, PagesIs, PostCounts
    <2> QED
      BY <2>1, <2>2, PostCounts
  <1> QED
    BY <1>4, <1>5, <1>6 DEF PageOfPosts, ArticleList!Payload

\* The next page follows what is shown.
LEMMA PostPageAdds ==
  ASSUME v1 \subseteq ListedPosts, NEW f, NEW o \in Nat \ {0}, NEW c \in Nat \ {0}, o <= c,
         c < PostPages(f)
  PROVE  SubSeq(ArticleList!Matching(f), (o - 1) * PostLimit + 1,
                ArticleList!Upto(c * PostLimit, Len(ArticleList!Matching(f))))
            \o ArticleList!Rows(f, c + 1)
           = SubSeq(ArticleList!Matching(f), (o - 1) * PostLimit + 1,
                    ArticleList!Upto((c + 1) * PostLimit, Len(ArticleList!Matching(f))))
  <1> DEFINE q == ArticleList!Matching(f)
             a == (o - 1) * PostLimit
             k == c * PostLimit
             n == ArticleList!Upto((c + 1) * PostLimit, Len(q))
  <1>1. q \in Seq(ListedPosts) /\ Len(q) \in Nat
    BY PostsMatching
  <1>2. k \in Nat /\ a \in Nat /\ a <= k
    BY ListsAssumption, Multiples
  <1>3. k < Len(q)
    BY <1>1, PagesIs DEF PostPages
  <1>4. (c + 1) * PostLimit = k + PostLimit /\ ((c + 1) - 1) * PostLimit + 1 = k + 1
    BY ListsAssumption
  <1>5. ArticleList!Rows(f, c + 1) = SubSeq(q, k + 1, n)
    BY <1>4 DEF ArticleList!Rows
  <1>6. ArticleList!Upto(k, Len(q)) = k
    BY <1>3 DEF ArticleList!Upto
  <1>7. n = ArticleList!Upto(k + PostLimit, Len(q))
    BY <1>4
  <1> HIDE DEF q, k, n, a
  <1>8. n \in Nat /\ k <= n /\ n <= Len(q)
    BY <1>1, <1>2, <1>3, <1>7, ListsAssumption DEF ArticleList!Upto
  <1>9. SubSeq(q, a + 1, k) \o SubSeq(q, k + 1, n) = SubSeq(q, a + 1, n)
    <2> DEFINE m == a + 1
    <2>1. m \in 1..Len(q) + 1 /\ k \in (m - 1)..Len(q) /\ n \in k..Len(q)
      BY <1>1, <1>2, <1>3, <1>8
    <2> HIDE DEF m
    <2>2. SubSeq(q, m, k) \o SubSeq(q, k + 1, n) = SubSeq(q, m, n)
      BY <1>1, <2>1, ConcatAdjacentSubSeq
    <2> QED
      BY <2>2 DEF m
  <1> QED
    BY <1>5, <1>6, <1>9 DEF q, k, n, a

-----------------------------------------------------------------------------
(* The list of articles. *)

ShownPosts(f, o, c) ==
  SubSeq(ArticleList!Matching(f), (o - 1) * PostLimit + 1,
         ArticleList!Upto(c * PostLimit, Len(ArticleList!Matching(f))))

\* One request at a time is for the list, its flag is set, and a later page is
\* the next one.
ArticleOne ==
  /\ \A r \in v13 : r.generation <= v10
  /\ \A r, l \in v13 : ArticleList!Current(r) /\ ArticleList!Current(l) => r = l
  /\ \A r \in v13 : ArticleList!Current(r) =>
       /\ r.filter = v2
       /\ r.for = "initial" => v7 /\ DOMAIN v11 = {}
       /\ r.for = "more" => v8 /\ r.page = v5 + 1 /\ v5 < v6
       /\ r.for = "ahead" => \/ r.holds = "pending" /\ v7
                             \/ r.holds = "loadingMore" /\ v8

\* What was read for the list is what there is, until a post comes or goes.
ArticleFresh ==
  ~v14 =>
    /\ \A r \in v13 : ArticleList!Current(r) /\ r.read => r.payload = PageOfPosts(v2, r.page)
    /\ \A k \in DOMAIN v11 : v11[k] = PageOfPosts(v2, k)
    /\ ~v9 /\ (\A r \in v13 : ArticleList!Current(r) => r.for # "initial") =>
         v3 = ShownPosts(v2, v4, v5) /\ v4 <= v5 /\ v6 = PostPages(v2)

ArticleInv == ArticleList!TypeOK /\ ArticleOne /\ ArticleFresh

LEMMA SamePosts ==
  ASSUME v1' = v1
  PROVE  /\ \A f, k : PageOfPosts(f, k)' = PageOfPosts(f, k)
         /\ \A f, o, c : ShownPosts(f, o, c)' = ShownPosts(f, o, c)
         /\ \A f : PostPages(f)' = PostPages(f)
         /\ \A f, k : ArticleList!Rows(f, k)' = ArticleList!Rows(f, k)
  BY DEF PageOfPosts, ShownPosts, PostPages, ArticleList!Matching, ArticleList!Rows

LEMMA ArticleFacts ==
  ASSUME ArticleInv
  PROVE  /\ v1 \subseteq ListedPosts /\ v2 \in ArticleList!Filters /\ v3 \in Seq(ListedPosts)
         /\ v4 \in 1..ArticleList!MaxPage /\ v5 \in 1..ArticleList!MaxPage /\ v6 \in 0..ArticleList!MaxPage
         /\ v4 \in Nat \ {0} /\ v5 \in Nat \ {0} /\ v6 \in Nat /\ v10 \in 0..MaxPostLists /\ v10 \in Nat
         /\ v7 \in BOOLEAN /\ v8 \in BOOLEAN /\ v9 \in BOOLEAN /\ v14 \in BOOLEAN
         /\ DOMAIN v11 \subseteq 1..ArticleList!MaxPage
         /\ \A k \in DOMAIN v11 : v11[k] \in ArticleList!Payload
         /\ v12 \subseteq 1..ArticleList!MaxPage
         /\ \A r \in v13 : r \in ArticleList!Request
         /\ \A r \in v13 : /\ r.for \in {"initial", "more", "ahead"}
                           /\ r.holds \in {"none", "pending", "loadingMore"}
                           /\ r.generation \in Nat /\ r.page \in 1..ArticleList!MaxPage
                           /\ r.page \in Nat \ {0} /\ r.filter \in ArticleList!Filters
                           /\ r.read \in BOOLEAN /\ r.payload \in ArticleList!Payload
  <1>1. ArticleList!TypeOK
    BY DEF ArticleInv
  <1>2. \A r \in ArticleList!Request :
           /\ r.for \in {"initial", "more", "ahead"}
           /\ r.holds \in {"none", "pending", "loadingMore"}
           /\ r.generation \in 0..MaxPostLists /\ r.page \in 1..ArticleList!MaxPage
           /\ r.filter \in ArticleList!Filters
           /\ r.read \in BOOLEAN /\ r.payload \in ArticleList!Payload
    BY DEF ArticleList!Request
  <1>3. 0..MaxPostLists \subseteq Nat
    BY ListsAssumption
  <1> QED
    BY <1>1, <1>2, <1>3, PostCounts DEF ArticleList!TypeOK

LEMMA AskedForPosts ==
  ASSUME NEW for \in {"initial", "more", "ahead"}, NEW holds \in {"none", "pending", "loadingMore"},
         NEW g \in 0..MaxPostLists, NEW p \in 1..ArticleList!MaxPage, NEW f \in ArticleList!Filters
  PROVE  ArticleList!Asked(for, holds, g, p, f) \in ArticleList!Request
  <1>1. ArticleList!Unread \in ArticleList!Payload
    <2>1. <<>> \in Seq(ListedPosts) /\ 0 \in 0..ArticleList!MaxPage
      BY PostCounts
    <2> QED
      BY <2>1 DEF ArticleList!Unread, ArticleList!Payload
  <1> QED
    BY <1>1 DEF ArticleList!Asked, ArticleList!Request

LEMMA ArticlesStart == ArticleList!Init => ArticleInv
  <1> SUFFICES ASSUME ArticleList!Init PROVE ArticleInv
    OBVIOUS
  <1> DEFINE n == ArticleList!Asked("initial", "none", 0, v5, "all")
  <1>1. /\ v1 \subseteq ListedPosts /\ v2 = "all" /\ v3 = <<>> /\ v5 \in 1..2 /\ v4 = v5 /\ v6 = 0
        /\ v7 = TRUE /\ v8 = FALSE /\ v9 = FALSE /\ v10 = 0 /\ v11 = <<>> /\ v12 = {}
        /\ v13 = {n} /\ v14 = FALSE
    BY DEF ArticleList!Init
  <1>2. /\ n.for = "initial" /\ n.generation = 0 /\ n.filter = "all" /\ n.read = FALSE
        /\ n.page = v5
    BY DEF ArticleList!Asked
  <1>3. n \in ArticleList!Request
    <2>1. 0 \in 0..MaxPostLists /\ v5 \in 1..ArticleList!MaxPage /\ "all" \in ArticleList!Filters
      BY <1>1, PostCounts, ListsAssumption DEF ArticleList!Filters
    <2> QED
      BY <2>1, AskedForPosts
  <1> HIDE DEF n
  <1>4. DOMAIN v11 = {}
    BY <1>1
  <1>5. v3 \in Seq(ListedPosts)
    BY <1>1
  <1>6. v5 \in 1..ArticleList!MaxPage /\ 0 \in 0..ArticleList!MaxPage /\ 0 \in 0..MaxPostLists
    BY <1>1, PostCounts, ListsAssumption
  <1>7. ArticleList!TypeOK
    BY <1>1, <1>3, <1>4, <1>5, <1>6 DEF ArticleList!TypeOK, ArticleList!Filters
  <1>8. ArticleOne
    BY <1>1, <1>2, <1>4 DEF ArticleOne, ArticleList!Current
  <1>9. ArticleFresh
    BY <1>1, <1>2, <1>4 DEF ArticleFresh, ArticleList!Current
  <1> QED
    BY <1>7, <1>8, <1>9 DEF ArticleInv

\* The list is begun again: what was asked before is for it no more.
LEMMA BegunAgain ==
  ASSUME ArticleInv, NEW page \in 1..ArticleList!MaxPage, v2' \in ArticleList!Filters,
         ArticleList!LoadInitial(page, v2'), v1' \subseteq ListedPosts, v14' \in BOOLEAN,
         UNCHANGED <<v3, v4, v6>>
  PROVE  ArticleInv'
  <1> DEFINE n == ArticleList!Asked("initial", "none", v10 + 1, page, v2')
  <1>1. /\ v10 < MaxPostLists /\ v10' = v10 + 1 /\ v11' = <<>> /\ v12' = {} /\ v8' = FALSE
        /\ v7' = TRUE /\ v9' = FALSE /\ v13' = v13 \cup {n} /\ v5' = page
    BY DEF ArticleList!LoadInitial
  <1>2. v10' \in 0..MaxPostLists /\ v10' \in Nat /\ v10 < v10'
    BY <1>1, ArticleFacts, ListsAssumption
  <1>3. /\ n.for = "initial" /\ n.generation = v10' /\ n.filter = v2' /\ n.read = FALSE
        /\ n.page = page
    BY <1>1 DEF ArticleList!Asked
  <1>4. n \in ArticleList!Request
    <2>1. v10 + 1 \in 0..MaxPostLists
      BY <1>1, <1>2
    <2> QED
      BY <2>1, AskedForPosts
  <1> HIDE DEF n
  <1>5. DOMAIN v11' = {}
    BY <1>1
  <1>6. ArticleList!TypeOK'
    BY <1>1, <1>2, <1>4, <1>5, ArticleFacts DEF ArticleList!TypeOK
  <1>7. \A r \in v13 : r.generation < v10'
    BY <1>2, ArticleFacts DEF ArticleInv, ArticleOne
  <1>8. \A r \in v13' : r.generation = v10' => r = n
    BY <1>1, <1>2, <1>7, ArticleFacts
  <1>9. ArticleOne'
    <2>1. \A r \in v13' : r.generation <= v10'
      BY <1>1, <1>2, <1>3, <1>7, ArticleFacts
    <2> QED
      BY <1>1, <1>3, <1>5, <1>8, <2>1 DEF ArticleOne, ArticleList!Current
  <1>10. ArticleFresh'
    BY <1>1, <1>3, <1>5, <1>8 DEF ArticleFresh, ArticleList!Current
  <1> QED
    BY <1>6, <1>9, <1>10 DEF ArticleInv

\* A page is put into the list, and the next one asked for ahead.
LEMMA PageSet ==
  ASSUME ArticleInv, NEW page \in 1..ArticleList!MaxPage, NEW payload \in ArticleList!Payload,
         NEW append \in BOOLEAN, NEW holds \in {"pending", "loadingMore"}, NEW rest \in SUBSET v13,
         \A r \in rest : ~ArticleList!Current(r),
         ArticleList!SetPageData(page, payload, append, holds, rest),
         UNCHANGED <<v1, v2, v9, v10, v14>>,
         holds = "pending" => v7,
         ~v14 => payload = PageOfPosts(v2, page),
         append => page = v5 + 1,
         append /\ ~v14 /\ ~v9 => v3 = ShownPosts(v2, v4, v5) /\ v4 <= v5 /\ v5 < PostPages(v2)
  PROVE  ArticleInv'
  <1> DEFINE ask == page + 1 <= payload.pages /\ page + 1 \notin DOMAIN v11' \cup v12
             n == ArticleList!Asked("ahead", holds, v10, page + 1, v2)
  <1>1. /\ v3' = (IF append THEN v3 \o payload.items ELSE payload.items)
        /\ v4' = (IF append THEN v4 ELSE page) /\ v6' = payload.pages /\ v5' = page
        /\ v11' = [k \in DOMAIN v11 \ {page} |-> v11[k]]
        /\ ArticleList!Ahead(page, payload.pages, v11', holds, rest)
    BY DEF ArticleList!SetPageData
  <1>2. /\ v12' = (IF ask THEN v12 \cup {page + 1} ELSE v12)
        /\ v7' = (IF holds = "pending" /\ ~ask THEN FALSE ELSE v7)
        /\ v8' = (IF holds = "loadingMore" THEN ask ELSE v8)
        /\ v13' = rest \cup (IF ask THEN {n} ELSE {})
    BY <1>1 DEF ArticleList!Ahead
  <1>3. /\ n.for = "ahead" /\ n.holds = holds /\ n.generation = v10 /\ n.page = page + 1
        /\ n.filter = v2 /\ n.read = FALSE
    BY DEF ArticleList!Asked
  <1>4. /\ payload.items \in Seq(ListedPosts) /\ payload.pages \in 0..ArticleList!MaxPage
    BY DEF ArticleList!Payload
  <1>5. ask => page + 1 \in 1..ArticleList!MaxPage
    BY <1>4, PostCounts
  <1>6. ask => n \in ArticleList!Request
    BY <1>5, ArticleFacts, AskedForPosts
  <1>7. ask \in BOOLEAN
    OBVIOUS
  <1> HIDE DEF ask, n
  <1>8. DOMAIN v11' = DOMAIN v11 \ {page} /\ \A k \in DOMAIN v11' : v11'[k] = v11[k]
    BY <1>1
  <1>9. v3' \in Seq(ListedPosts)
    BY <1>1, <1>4, ArticleFacts, ConcatProperties
  <1>10. /\ v7' \in BOOLEAN /\ v8' \in BOOLEAN /\ v12' \subseteq 1..ArticleList!MaxPage
         /\ v4' \in 1..ArticleList!MaxPage
    BY <1>1, <1>2, <1>5, <1>7, ArticleFacts
  <1>11. ArticleList!TypeOK'
    <2>1. \A r \in v13' : r \in ArticleList!Request
      BY <1>2, <1>6, ArticleFacts
    <2>2. DOMAIN v11' \subseteq 1..ArticleList!MaxPage /\ \A k \in DOMAIN v11' : v11'[k] \in ArticleList!Payload
      BY <1>8, ArticleFacts
    <2> QED
      BY <1>1, <1>4, <1>9, <1>10, <2>1, <2>2, ArticleFacts DEF ArticleList!TypeOK
  <1>12. \A r : ArticleList!Current(r)' <=> ArticleList!Current(r)
    BY DEF ArticleList!Current
  <1>13. \A r \in v13' : ArticleList!Current(r) => r = n /\ ask
    BY <1>2
  <1>14. ArticleOne'
    <2>1. \A r \in v13' : r.generation <= v10
      BY <1>2, <1>3, ArticleFacts DEF ArticleInv, ArticleOne
    <2>2. \/ n.holds = "pending" /\ (ask => v7')
          \/ n.holds = "loadingMore" /\ (ask => v8')
      BY <1>2, <1>3
    <2> QED
      BY <1>3, <1>12, <1>13, <2>1, <2>2 DEF ArticleOne
  <1>15. ArticleFresh'
    <2> SUFFICES ASSUME ~v14
                 PROVE  /\ \A r \in v13' : ArticleList!Current(r) => ~r.read
                        /\ \A k \in DOMAIN v11' : v11'[k] = PageOfPosts(v2, k)
                        /\ ~v9 => v3' = ShownPosts(v2, v4', v5') /\ v4' <= v5' /\ v6' = PostPages(v2)
      BY <1>12, SamePosts DEF ArticleFresh
    <2>1. payload.items = ArticleList!Rows(v2, page) /\ payload.pages = PostPages(v2)
      BY DEF PageOfPosts
    <2>2. CASE append
      <3>1. ~v9 => v3 \o ArticleList!Rows(v2, v5 + 1) = ShownPosts(v2, v4, v5 + 1)
        BY <2>2, ArticleFacts, PostPageAdds DEF ShownPosts
      <3>2. ~v9 => v4 <= v5 + 1
        BY <2>2, ArticleFacts
      <3> QED
        BY <1>1, <1>3, <1>8, <1>13, <2>1, <2>2, <3>1, <3>2 DEF ArticleInv, ArticleFresh
    <2>3. CASE ~append
      <3>1. ArticleList!Rows(v2, page) = ShownPosts(v2, page, page)
        BY DEF ArticleList!Rows, ShownPosts
      <3>2. page <= page
        BY PostCounts
      <3> QED
        BY <1>1, <1>3, <1>8, <1>13, <2>1, <2>3, <3>1, <3>2 DEF ArticleInv, ArticleFresh
    <2> QED
      BY <2>2, <2>3
  <1> QED
    BY <1>11, <1>14, <1>15 DEF ArticleInv

LEMMA BeginningsKeep ==
  ASSUME ArticleInv, \/ \E f \in ArticleList!Filters : ArticleList!SetFilter(f)
                     \/ \E p \in ListedPosts : ArticleList!DeletePost(p)
                     \/ ArticleList!Refresh
  PROVE  ArticleInv'
  <1>1. 1 \in 1..ArticleList!MaxPage
    BY PostCounts
  <1>2. CASE \E f \in ArticleList!Filters : ArticleList!SetFilter(f)
    <2>1. /\ ArticleList!LoadInitial(1, v2') /\ v2' \in ArticleList!Filters
          /\ UNCHANGED <<v1, v3, v4, v6, v14>>
      BY <1>2 DEF ArticleList!SetFilter
    <2> QED
      BY <1>1, <2>1, ArticleFacts, BegunAgain
  <1>3. CASE \E p \in ListedPosts : ArticleList!DeletePost(p)
    <2>1. /\ ArticleList!LoadInitial(1, v2') /\ v1' \subseteq v1 /\ v14' = TRUE
          /\ UNCHANGED <<v2, v3, v4, v6>>
      BY <1>3 DEF ArticleList!DeletePost
    <2>2. v1' \subseteq ListedPosts /\ v2' \in ArticleList!Filters /\ v14' \in BOOLEAN
      BY <2>1, ArticleFacts
    <2> QED
      BY <1>1, <2>1, <2>2, BegunAgain
  <1>4. CASE ArticleList!Refresh
    <2>1. /\ ArticleList!LoadInitial(v5, v2') /\ UNCHANGED <<v1, v2, v3, v4, v6, v14>>
      BY <1>4 DEF ArticleList!Refresh
    <2> QED
      BY <2>1, ArticleFacts, BegunAgain
  <1> QED
    BY <1>2, <1>3, <1>4

\* A post comes or goes elsewhere: nothing read before counts as fresh.
LEMMA PublicationKeeps ==
  ASSUME ArticleInv, NEW p \in ListedPosts, ArticleList!Publish(p) \/ ArticleList!Archive(p)
  PROVE  ArticleInv'
  <1>1. /\ v1' \subseteq ListedPosts /\ v14' = TRUE
        /\ UNCHANGED <<v2, v3, v4, v5, v6, v7, v8, v9, v10, v11, v12, v13>>
    BY DEF ArticleList!Publish, ArticleList!Archive, ArticleInv, ArticleList!TypeOK
  <1>2. ArticleList!TypeOK'
    BY <1>1 DEF ArticleInv, ArticleList!TypeOK
  <1>3. ArticleOne'
    BY <1>1 DEF ArticleInv, ArticleOne, ArticleList!Current
  <1>4. ArticleFresh'
    BY <1>1 DEF ArticleFresh
  <1> QED
    BY <1>2, <1>3, <1>4 DEF ArticleInv

\* The server reads a page.
LEMMA PageReadKeeps ==
  ASSUME ArticleInv, NEW r \in v13, ArticleList!Read(r)
  PROVE  ArticleInv'
  <1> DEFINE n == [r EXCEPT !.read = TRUE, !.payload = PageOfPosts(r.filter, r.page)]
  <1>1. /\ v13' = (v13 \ {r}) \cup {n}
        /\ v14' = (IF r.for = "initial" /\ ArticleList!Current(r) THEN FALSE ELSE v14)
        /\ UNCHANGED <<v1, v2, v3, v4, v5, v6, v7, v8, v9, v10, v11, v12>>
    BY DEF ArticleList!Read, PageOfPosts, PostPages
  <1>2. r \in ArticleList!Request /\ r.page \in Nat \ {0}
    BY ArticleFacts
  <1>3. /\ n.for = r.for /\ n.holds = r.holds /\ n.generation = r.generation /\ n.page = r.page
        /\ n.filter = r.filter /\ n.read = TRUE /\ n.payload = PageOfPosts(r.filter, r.page)
    BY <1>2 DEF ArticleList!Request
  <1>4. n \in ArticleList!Request
    <2>1. n.payload \in ArticleList!Payload
      BY <1>2, <1>3, ArticleFacts, PostsRead
    <2> HIDE DEF ArticleList!Payload, ArticleList!Filters
    <2> QED
      BY <1>2, <1>3, <2>1 DEF ArticleList!Request
  <1> HIDE DEF n
  <1>5. \A l : ArticleList!Current(l)' <=> ArticleList!Current(l)
    BY <1>1 DEF ArticleList!Current
  <1>6. ArticleList!Current(n) <=> ArticleList!Current(r)
    BY <1>3 DEF ArticleList!Current
  <1>7. ArticleList!TypeOK'
    BY <1>1, <1>4, ArticleFacts DEF ArticleInv, ArticleList!TypeOK
  <1>8. ArticleOne'
    <2>1. \A l \in v13' : l.generation <= v10
      BY <1>1, <1>3 DEF ArticleInv, ArticleOne
    <2>2. \A l, o \in v13' : ArticleList!Current(l) /\ ArticleList!Current(o) => l = o
      BY <1>1, <1>6 DEF ArticleInv, ArticleOne
    <2>3. \A l \in v13' : ArticleList!Current(l) =>
            /\ l.filter = v2
            /\ l.for = "initial" => v7 /\ DOMAIN v11 = {}
            /\ l.for = "more" => v8 /\ l.page = v5 + 1 /\ v5 < v6
            /\ l.for = "ahead" => \/ l.holds = "pending" /\ v7
                                  \/ l.holds = "loadingMore" /\ v8
      BY <1>1, <1>3, <1>6 DEF ArticleInv, ArticleOne
    <2> QED
      BY <1>1, <1>5, <2>1, <2>2, <2>3 DEF ArticleOne
  <1>9. CASE ~ArticleList!Current(r)
    <2>1. ArticleFresh'
      BY <1>1, <1>5, <1>6, <1>9, SamePosts DEF ArticleInv, ArticleFresh
    <2> QED
      BY <1>7, <1>8, <2>1 DEF ArticleInv
  <1>10. CASE ArticleList!Current(r)
    <2>1. \A l \in v13' : ArticleList!Current(l) => l = n
      BY <1>1, <1>10 DEF ArticleInv, ArticleOne
    <2>2. n \in v13' /\ n.filter = v2
      BY <1>1, <1>3, <1>10 DEF ArticleInv, ArticleOne
    <2>3. n.payload = PageOfPosts(v2, n.page)
      BY <1>3, <2>2
    <2>4. CASE r.for = "initial"
      <3>1. DOMAIN v11 = {}
        BY <1>10, <2>4 DEF ArticleInv, ArticleOne
      <3> QED
        <4>1. ArticleFresh'
          BY <1>1, <1>3, <1>5, <1>6, <1>10, <2>1, <2>2, <2>3, <2>4, <3>1, SamePosts DEF ArticleFresh
        <4> QED
          BY <1>7, <1>8, <4>1 DEF ArticleInv
    <2>5. CASE r.for # "initial"
      <3>1. ArticleFresh'
        BY <1>1, <1>3, <1>5, <1>6, <1>10, <2>1, <2>2, <2>3, <2>5, SamePosts
           DEF ArticleInv, ArticleOne, ArticleFresh
      <3> QED
        BY <1>7, <1>8, <3>1 DEF ArticleInv
    <2> QED
      BY <2>4, <2>5
  <1> QED
    BY <1>9, <1>10

\* A request ends that was not for the list, or leaves only its flag behind.
LEMMA PageEnds ==
  ASSUME ArticleInv, NEW r \in v13, v13' = v13 \ {r},
         UNCHANGED <<v1, v2, v3, v4, v5, v6, v10, v11, v14>>,
         v7' \in BOOLEAN, v8' \in BOOLEAN, v9' \in BOOLEAN, v12' \subseteq v12,
         ArticleList!Current(r) \/ UNCHANGED <<v7, v8, v9>>,
         ArticleList!Current(r) /\ r.for = "initial" => v9',
         v9 => v9'
  PROVE  ArticleInv'
  <1>1. \A l : ArticleList!Current(l)' <=> ArticleList!Current(l)
    BY DEF ArticleList!Current
  <1>2. ArticleList!TypeOK'
    BY DEF ArticleInv, ArticleList!TypeOK
  <1>3. ArticleList!Current(r) => \A l \in v13' : ~ArticleList!Current(l)
    BY DEF ArticleInv, ArticleOne
  <1>4. ArticleOne'
    BY <1>1, <1>3 DEF ArticleInv, ArticleOne
  <1>5. ArticleFresh'
    <2> SUFFICES ASSUME ~v14
                 PROVE  /\ \A l \in v13' : ArticleList!Current(l) /\ l.read => l.payload = PageOfPosts(v2, l.page)
                        /\ \A k \in DOMAIN v11 : v11[k] = PageOfPosts(v2, k)
                        /\ ~v9' /\ (\A l \in v13' : ArticleList!Current(l) => l.for # "initial") =>
                             v3 = ShownPosts(v2, v4, v5) /\ v4 <= v5 /\ v6 = PostPages(v2)
      BY <1>1, SamePosts DEF ArticleFresh
    <2>1. /\ \A l \in v13 : ArticleList!Current(l) /\ l.read => l.payload = PageOfPosts(v2, l.page)
          /\ \A k \in DOMAIN v11 : v11[k] = PageOfPosts(v2, k)
          /\ ~v9 /\ (\A l \in v13 : ArticleList!Current(l) => l.for # "initial") =>
               v3 = ShownPosts(v2, v4, v5) /\ v4 <= v5 /\ v6 = PostPages(v2)
      BY DEF ArticleInv, ArticleFresh
    <2> QED
      BY <2>1
  <1> QED
    BY <1>2, <1>4, <1>5 DEF ArticleInv

LEMMA PageAnswered ==
  ASSUME ArticleInv, NEW r \in v13, ArticleList!AnswerPage(r)
  PROVE  ArticleInv'
  <1>1. r.read /\ r.for \in {"initial", "more"} /\ UNCHANGED <<v1, v2, v9, v10, v14>>
    BY ArticleFacts DEF ArticleList!AnswerPage
  <1>2. CASE ~ArticleList!Current(r)
    <2>1. v13' = v13 \ {r} /\ UNCHANGED <<v3, v4, v5, v6, v7, v8, v11, v12>>
      BY <1>2 DEF ArticleList!AnswerPage, ArticleList!Dropped
    <2> QED
      BY <1>1, <1>2, <2>1, ArticleFacts, PageEnds
  <1>3. CASE ArticleList!Current(r)
    <2>1. \A l \in v13 \ {r} : ~ArticleList!Current(l)
      BY <1>3 DEF ArticleInv, ArticleOne
    <2>2. ~v14 => r.payload = PageOfPosts(v2, r.page)
      BY <1>1, <1>3 DEF ArticleInv, ArticleFresh
    <2>3. r.page \in 1..ArticleList!MaxPage /\ r.payload \in ArticleList!Payload
      BY ArticleFacts
    <2>4. CASE r.for = "initial"
      <3>1. ArticleList!SetPageData(r.page, r.payload, FALSE, "pending", v13 \ {r})
        BY <1>3, <2>4 DEF ArticleList!AnswerPage
      <3>2. v7
        BY <1>3, <2>4 DEF ArticleInv, ArticleOne
      <3> QED
        BY <1>1, <2>1, <2>2, <2>3, <3>1, <3>2, PageSet
    <2>5. CASE r.for = "more"
      <3>1. ArticleList!SetPageData(r.page, r.payload, TRUE, "loadingMore", v13 \ {r})
        BY <1>3, <2>5 DEF ArticleList!AnswerPage
      <3>2. r.page = v5 + 1 /\ v5 < v6
        BY <1>3, <2>5 DEF ArticleInv, ArticleOne
      <3>3. \A l \in v13 : ArticleList!Current(l) => l.for # "initial"
        BY <2>1, <2>5
      <3>4. ~v14 /\ ~v9 => v3 = ShownPosts(v2, v4, v5) /\ v4 <= v5 /\ v5 < PostPages(v2)
        BY <3>2, <3>3 DEF ArticleInv, ArticleFresh
      <3> QED
        BY <1>1, <2>1, <2>2, <2>3, <3>1, <3>2, <3>4, PageSet
    <2> QED
      BY <1>1, <2>4, <2>5
  <1> QED
    BY <1>2, <1>3

\* The page fetched ahead is kept for when it is scrolled to.
LEMMA AheadAnswered ==
  ASSUME ArticleInv, NEW r \in v13, ArticleList!AnswerAhead(r)
  PROVE  ArticleInv'
  <1>1. /\ r.read /\ r.for = "ahead" /\ v13' = v13 \ {r}
        /\ UNCHANGED <<v1, v2, v3, v4, v5, v6, v9, v10, v14>>
    BY DEF ArticleList!AnswerAhead
  <1>2. CASE ~ArticleList!Current(r)
    <2>1. UNCHANGED <<v7, v8, v11, v12>>
      BY <1>2 DEF ArticleList!AnswerAhead
    <2> QED
      BY <1>1, <1>2, <2>1, ArticleFacts, PageEnds
  <1>3. CASE ArticleList!Current(r)
    <2>1. /\ v11' = [k \in DOMAIN v11 \cup {r.page} |-> IF k = r.page THEN r.payload ELSE v11[k]]
          /\ v12' = v12 \ {r.page}
          /\ v7' = (IF r.holds = "pending" THEN FALSE ELSE v7)
          /\ v8' = (IF r.holds = "loadingMore" THEN FALSE ELSE v8)
      BY <1>3 DEF ArticleList!AnswerAhead, ArticleList!Release
    <2>2. DOMAIN v11' = DOMAIN v11 \cup {r.page}
          /\ \A k \in DOMAIN v11' : v11'[k] = IF k = r.page THEN r.payload ELSE v11[k]
      BY <2>1
    <2>3. \A l : ArticleList!Current(l)' <=> ArticleList!Current(l)
      BY <1>1 DEF ArticleList!Current
    <2>4. \A l \in v13' : ~ArticleList!Current(l)
      BY <1>1, <1>3 DEF ArticleInv, ArticleOne
    <2>5. v7' \in BOOLEAN /\ v8' \in BOOLEAN /\ v12' \subseteq 1..ArticleList!MaxPage
          /\ DOMAIN v11' \subseteq 1..ArticleList!MaxPage
          /\ \A k \in DOMAIN v11' : v11'[k] \in ArticleList!Payload
      BY <2>1, <2>2, ArticleFacts
    <2>6. ArticleList!TypeOK'
      BY <1>1, <2>5 DEF ArticleInv, ArticleList!TypeOK
    <2>7. ArticleOne'
      BY <1>1, <2>3, <2>4 DEF ArticleInv, ArticleOne
    <2>8. ArticleFresh'
      <3> SUFFICES ASSUME ~v14
                   PROVE  /\ \A k \in DOMAIN v11' : v11'[k] = PageOfPosts(v2, k)
                          /\ ~v9 => v3 = ShownPosts(v2, v4, v5) /\ v4 <= v5 /\ v6 = PostPages(v2)
        BY <1>1, <2>3, <2>4, SamePosts DEF ArticleFresh
      <3>1. /\ r.payload = PageOfPosts(v2, r.page)
            /\ \A k \in DOMAIN v11 : v11[k] = PageOfPosts(v2, k)
        BY <1>1, <1>3 DEF ArticleInv, ArticleFresh
      <3>2. \A l \in v13 : ArticleList!Current(l) => l.for # "initial"
        BY <1>1, <1>3 DEF ArticleInv, ArticleOne
      <3> QED
        BY <2>2, <3>1, <3>2 DEF ArticleInv, ArticleFresh
    <2> QED
      BY <2>6, <2>7, <2>8 DEF ArticleInv
  <1> QED
    BY <1>2, <1>3

LEMMA PageFails ==
  ASSUME ArticleInv, NEW r \in v13, ArticleList!Fails(r)
  PROVE  ArticleInv'
  <1>1. /\ v13' = v13 \ {r} /\ v9' = (v9 \/ (r.for = "initial" /\ ArticleList!Current(r)))
        /\ UNCHANGED <<v1, v2, v3, v4, v5, v6, v10, v11, v14>>
    BY DEF ArticleList!Fails
  <1>2. CASE ~ArticleList!Current(r)
    <2>1. UNCHANGED <<v7, v8, v12>> /\ v9' = v9
      BY <1>1, <1>2, ArticleFacts DEF ArticleList!Fails
    <2> QED
      BY <1>1, <1>2, <2>1, ArticleFacts, PageEnds
  <1>3. CASE ArticleList!Current(r)
    <2>1. v7' \in BOOLEAN /\ v8' \in BOOLEAN /\ v12' \subseteq v12
      <3>1. CASE r.for = "initial"
        BY <1>3, <3>1, ArticleFacts DEF ArticleList!Fails
      <3>2. CASE r.for = "more"
        BY <1>3, <3>2, ArticleFacts DEF ArticleList!Fails
      <3>3. CASE r.for = "ahead"
        BY <1>3, <3>3, ArticleFacts DEF ArticleList!Fails, ArticleList!Release
      <3> QED
        BY <3>1, <3>2, <3>3, ArticleFacts
    <2>2. v9' \in BOOLEAN /\ (v9 => v9') /\ (r.for = "initial" => v9')
      BY <1>1, <1>3, ArticleFacts
    <2> QED
      BY <1>1, <1>3, <2>1, <2>2, PageEnds
  <1> QED
    BY <1>2, <1>3

LEMMA ScrollKeeps ==
  ASSUME ArticleInv, ArticleList!LoadMore
  PROVE  ArticleInv'
  <1>1. ~v8 /\ ~v7 /\ v5 < v6 /\ UNCHANGED <<v1, v2, v9, v10, v14>>
    BY DEF ArticleList!LoadMore
  <1>2. \A r \in v13 : ~ArticleList!Current(r)
    BY <1>1, ArticleFacts DEF ArticleInv, ArticleOne
  <1>3. v5 + 1 \in 1..ArticleList!MaxPage /\ v5 + 1 \in Nat \ {0}
    BY <1>1, ArticleFacts, PostCounts
  <1>4. ~v14 /\ ~v9 => v3 = ShownPosts(v2, v4, v5) /\ v4 <= v5 /\ v6 = PostPages(v2)
    BY <1>2 DEF ArticleInv, ArticleFresh
  <1>5. CASE v5 + 1 \in DOMAIN v11
    <2>1. ArticleList!SetPageData(v5 + 1, v11[v5 + 1], TRUE, "loadingMore", v13)
      BY <1>5 DEF ArticleList!LoadMore
    <2>2. v11[v5 + 1] \in ArticleList!Payload
      BY <1>5, ArticleFacts
    <2>3. ~v14 => v11[v5 + 1] = PageOfPosts(v2, v5 + 1)
      BY <1>5 DEF ArticleInv, ArticleFresh
    <2>4. v13 \in SUBSET v13
      OBVIOUS
    <2> QED
      BY <1>1, <1>2, <1>3, <1>4, <2>1, <2>2, <2>3, <2>4, PageSet
  <1>6. CASE v5 + 1 \notin DOMAIN v11
    <2> DEFINE n == ArticleList!Asked("more", "none", v10, v5 + 1, v2)
    <2>1. v8' = TRUE /\ v13' = v13 \cup {n} /\ UNCHANGED <<v3, v4, v5, v6, v7, v11, v12>>
      BY <1>6 DEF ArticleList!LoadMore
    <2>2. /\ n.for = "more" /\ n.generation = v10 /\ n.page = v5 + 1 /\ n.filter = v2
          /\ n.read = FALSE
      BY DEF ArticleList!Asked
    <2>3. n \in ArticleList!Request
      BY <1>3, ArticleFacts, AskedForPosts
    <2> HIDE DEF n
    <2>4. \A l : ArticleList!Current(l)' <=> ArticleList!Current(l)
      BY <1>1 DEF ArticleList!Current
    <2>5. ArticleList!TypeOK'
      BY <1>1, <2>1, <2>3 DEF ArticleInv, ArticleList!TypeOK
    <2>6. \A l \in v13' : ArticleList!Current(l) => l = n
      BY <1>2, <2>1
    <2>7. ArticleOne'
      <3>1. \A l \in v13' : l.generation <= v10
        BY <2>1, <2>2, ArticleFacts DEF ArticleInv, ArticleOne
      <3> QED
        BY <1>1, <2>1, <2>2, <2>4, <2>6, <3>1 DEF ArticleOne
    <2>8. ArticleFresh'
      BY <1>1, <1>4, <2>1, <2>2, <2>4, <2>6, SamePosts DEF ArticleInv, ArticleFresh
    <2> QED
      BY <2>5, <2>7, <2>8 DEF ArticleInv
  <1> QED
    BY <1>5, <1>6

LEMMA ArticlesKept == ArticleInv /\ [ArticleList!Next]_(ArticleList!vars) => ArticleInv'
  <1> SUFFICES ASSUME ArticleInv, [ArticleList!Next]_(ArticleList!vars) PROVE ArticleInv'
    OBVIOUS
  <1>1. CASE UNCHANGED ArticleList!vars
    <2>1. UNCHANGED <<v1, v2, v3, v4, v5, v6, v7, v8, v9, v10, v11, v12, v13, v14>>
      BY <1>1 DEF ArticleList!vars
    <2>2. \A l : ArticleList!Current(l)' <=> ArticleList!Current(l)
      BY <2>1 DEF ArticleList!Current
    <2>3. ArticleList!TypeOK' /\ ArticleOne'
      BY <2>1, <2>2 DEF ArticleInv, ArticleList!TypeOK, ArticleOne
    <2>4. ArticleFresh'
      BY <2>1, <2>2, SamePosts DEF ArticleInv, ArticleFresh
    <2> QED
      BY <2>3, <2>4 DEF ArticleInv
  <1>2. CASE ArticleList!Next
    BY <1>2, BeginningsKeep, PublicationKeeps, PageReadKeeps, PageAnswered, AheadAnswered,
       PageFails, ScrollKeeps DEF ArticleList!Next
  <1> QED
    BY <1>1, <1>2

LEMMA ArticlesHold == ArticleInv => ArticleList!ArticlesAreWhole
  BY DEF ArticleInv, ArticleOne, ArticleFresh, ShownPosts, ArticleList!ArticlesAreWhole

-----------------------------------------------------------------------------
(* The activity feed: its order, and the predicate that goes on in it. *)

LEMMA KindsAre ==
  /\ Feed!Kinds = {"diary", "thesis_review", "stock_timeline", "thesis"}
  /\ Feed!KIND_ORDER["diary"] = 0 /\ Feed!KIND_ORDER["thesis_review"] = 1
  /\ Feed!KIND_ORDER["stock_timeline"] = 2 /\ Feed!KIND_ORDER["thesis"] = 3
  BY DEF Feed!Kinds, Feed!KIND_ORDER

LEMMA RanksAre ==
  /\ \A k \in Feed!Kinds : Feed!KIND_ORDER[k] \in Nat
  /\ \A k \in Feed!Kinds : Feed!KIND_ORDER[k] = 0 <=> k = "diary"
  /\ \A k, l \in Feed!Kinds : Feed!KIND_ORDER[k] = Feed!KIND_ORDER[l] => k = l
  BY KindsAre

LEMMA HalfDays ==
  ASSUME NEW t \in Nat
  PROVE  \E d \in Nat : /\ t = 2 * d \/ t = 2 * d + 1
                        /\ Feed!Midnight(t) = 2 * d /\ Feed!Noon(t) = 2 * d + 1
  <1> DEFINE d == t \div 2
  <1>1. d \in Nat /\ (t = 2 * d \/ t = 2 * d + 1)
    OBVIOUS
  <1>2. Feed!Midnight(t) = 2 * d /\ Feed!Noon(t) = 2 * d + 1
    BY DEF Feed!Midnight, Feed!Noon
  <1> QED
    BY <1>1, <1>2

\* A row as the tables keep it: a diary has the noon of its day.
ActivityRow == [kind : Feed!Kinds, id : Nat \ {0}, time : Nat, of : Nat]
Valid(r) == r \in ActivityRow /\ (r.kind = "diary" => r.time = Feed!Noon(r.time))

LEMMA RowIs ==
  ASSUME NEW r, Valid(r)
  PROVE  /\ r.kind \in Feed!Kinds /\ r.id \in Nat \ {0} /\ r.time \in Nat /\ r.of \in Nat
         /\ Feed!At(r) \in Nat
         /\ r.kind # "diary" => Feed!At(r) = r.time
         /\ r.kind = "diary" => \E d \in Nat : r.time = 2 * d + 1 /\ Feed!At(r) = 2 * d
  <1>1. r.kind \in Feed!Kinds /\ r.id \in Nat \ {0} /\ r.time \in Nat /\ r.of \in Nat
    BY DEF Valid, ActivityRow
  <1>2. r.kind # "diary" => Feed!At(r) = r.time
    BY DEF Feed!At
  <1>3. ASSUME r.kind = "diary"
        PROVE  \E d \in Nat : r.time = 2 * d + 1 /\ Feed!At(r) = 2 * d
    <2>1. PICK d \in Nat : Feed!Midnight(r.time) = 2 * d /\ Feed!Noon(r.time) = 2 * d + 1
      BY <1>1, HalfDays
    <2> QED
      BY <1>3, <2>1 DEF Feed!At, Valid
  <1>4. Feed!At(r) \in Nat
    BY <1>1, <1>2, <1>3
  <1> QED
    BY <1>1, <1>2, <1>3, <1>4

\* The order is one: no row comes before itself, what comes before what comes
\* before a row comes before it, and of two rows one comes first.
LEMMA BeforeOrders ==
  ASSUME NEW a, NEW b, NEW c, Valid(a), Valid(b), Valid(c)
  PROVE  /\ Feed!Before(a, b) => ~Feed!Before(b, a)
         /\ Feed!Before(a, b) /\ Feed!Before(b, c) => Feed!Before(a, c)
         /\ Feed!Key(a) # Feed!Key(b) => Feed!Before(a, b) \/ Feed!Before(b, a)
  <1>1. /\ Feed!At(a) \in Nat /\ Feed!At(b) \in Nat /\ Feed!At(c) \in Nat
        /\ a.kind \in Feed!Kinds /\ b.kind \in Feed!Kinds /\ c.kind \in Feed!Kinds
        /\ a.id \in Nat /\ b.id \in Nat /\ c.id \in Nat
    BY RowIs
  <1>2. /\ Feed!KIND_ORDER[a.kind] \in Nat /\ Feed!KIND_ORDER[b.kind] \in Nat
        /\ Feed!KIND_ORDER[c.kind] \in Nat
    BY <1>1, RanksAre
  <1>3. /\ a.kind = b.kind <=> Feed!KIND_ORDER[a.kind] = Feed!KIND_ORDER[b.kind]
        /\ b.kind = c.kind <=> Feed!KIND_ORDER[b.kind] = Feed!KIND_ORDER[c.kind]
        /\ a.kind = c.kind <=> Feed!KIND_ORDER[a.kind] = Feed!KIND_ORDER[c.kind]
    BY <1>1, RanksAre
  <1>4. Feed!Key(a) = Feed!Key(b) <=> a.kind = b.kind /\ a.id = b.id
    BY DEF Feed!Key
  <1> QED
    BY <1>1, <1>2, <1>3, <1>4 DEF Feed!Before

\* The predicate of the query says what comes after the cursor, of every table.
LEMMA CursorGoesOn ==
  ASSUME NEW c, NEW r, Valid(c), Valid(r)
  PROVE  Feed!afterActivityCursor(r.kind, c, r) <=> Feed!Before(c, r)
  <1>1. /\ Feed!At(c) \in Nat /\ r.time \in Nat /\ c.id \in Nat /\ r.id \in Nat
        /\ c.kind \in Feed!Kinds /\ r.kind \in Feed!Kinds
    BY RowIs
  <1>2. /\ Feed!KIND_ORDER[c.kind] \in Nat /\ Feed!KIND_ORDER[r.kind] \in Nat
        /\ c.kind = r.kind <=> Feed!KIND_ORDER[c.kind] = Feed!KIND_ORDER[r.kind]
        /\ r.kind = "diary" => Feed!KIND_ORDER[r.kind] = 0
        /\ c.kind = "diary" <=> Feed!KIND_ORDER[c.kind] = 0
    BY <1>1, RanksAre
  <1>3. CASE r.kind # "diary"
    <2>1. Feed!At(r) = r.time
      BY <1>3, RowIs
    <2> QED
      BY <1>1, <1>2, <1>3, <2>1 DEF Feed!afterActivityCursor, Feed!Before
  <1>4. CASE r.kind = "diary"
    <2> DEFINE a == Feed!At(c)
    <2>1. PICK d \in Nat : r.time = 2 * d + 1 /\ Feed!At(r) = 2 * d
      BY <1>4, RowIs
    <2>2. PICK e \in Nat : /\ a = 2 * e \/ a = 2 * e + 1
                           /\ Feed!Midnight(a) = 2 * e /\ Feed!Noon(a) = 2 * e + 1
      BY <1>1, HalfDays
    <2>3. c.kind = "diary" => a = 2 * e
      <3> SUFFICES ASSUME c.kind = "diary" PROVE a = 2 * e
        OBVIOUS
      <3>1. PICK f \in Nat : Feed!At(c) = 2 * f
        BY RowIs
      <3> QED
        BY <2>2, <3>1
    <2> DEFINE after == \/ r.time < 2 * e + 1
                        \/ c.kind = "diary" /\ r.time = 2 * e + 1 /\ r.id > c.id
                        \/ c.kind # "diary" /\ r.time = 2 * e + 1 /\ a > 2 * e
               before == a > 2 * d \/ (a = 2 * d /\ c.kind = "diary" /\ c.id < r.id)
    <2>4. Feed!afterActivityCursor(r.kind, c, r) <=> after
      BY <1>4, <2>2 DEF Feed!afterActivityCursor
    <2>5. Feed!Before(c, r) <=> before
      BY <1>1, <1>2, <1>4, <2>1 DEF Feed!Before
    <2>6. after <=> before
      <3> HIDE DEF a
      <3> QED
        BY <1>1, <2>1, <2>2, <2>3
    <2> QED
      BY <2>4, <2>5, <2>6
  <1> QED
    BY <1>3, <1>4

-----------------------------------------------------------------------------
\* Rows of the tables, each once.
Tidy(S) ==
  /\ IsFiniteSet(S)
  /\ \A r \in S : Valid(r)
  /\ \A r, q \in S : Feed!Key(r) = Feed!Key(q) => r = q

LEMMA FeedCount == ASSUME NEW S PROVE Feed!Cardinality(S) = Cardinality(S)
  BY DEF Feed!Cardinality, Cardinality

LEMMA TidyPart ==
  ASSUME NEW S, Tidy(S), NEW T \in SUBSET S
  PROVE  Tidy(T) /\ Cardinality(T) \in Nat
  <1>1. IsFiniteSet(T)
    BY FS_Subset DEF Tidy
  <1> QED
    BY <1>1, FS_CardinalityType DEF Tidy

FeedOrder(S) == {p \in S \X S : Feed!Before(p[1], p[2])}

LEMMA TidyOrders ==
  ASSUME NEW S, Tidy(S)
  PROVE  /\ Orders(FeedOrder(S), S)
         /\ \A x, y \in S : <<x, y>> \in FeedOrder(S) <=> Feed!Before(x, y)
  <1>1. \A x, y \in S : <<x, y>> \in FeedOrder(S) <=> Feed!Before(x, y)
    BY DEF FeedOrder
  <1>2. /\ \A x, y \in S : Feed!Before(x, y) => ~Feed!Before(y, x)
        /\ \A x, y, z \in S : Feed!Before(x, y) /\ Feed!Before(y, z) => Feed!Before(x, z)
        /\ \A x, y \in S : x # y => Feed!Before(x, y) \/ Feed!Before(y, x)
    BY BeforeOrders DEF Tidy
  <1> QED
    BY <1>1, <1>2 DEF Orders, Tidy

\* The newest rows of a set: all others come after them, they are as many as
\* asked for unless they are all, and fewer come before one of them.
LEMMA NewestRows ==
  ASSUME NEW S, Tidy(S), NEW n \in Nat \ {0}
  PROVE  /\ Feed!Newest(S, n) \subseteq S
         /\ S # {} => Feed!Newest(S, n) # {}
         /\ \A x \in S \ Feed!Newest(S, n), y \in Feed!Newest(S, n) : Feed!Before(y, x)
         /\ Feed!Newest(S, n) # S => Cardinality(Feed!Newest(S, n)) >= n
         /\ \A x \in Feed!Newest(S, n) : \A A \in SUBSET S :
              (\A y \in A : Feed!Before(y, x)) => Cardinality(A) < n
  <1> DEFINE R == FeedOrder(S)
             N == {x \in S : Place(R, S, x) < n}
  <1>1. /\ Orders(R, S) /\ \A x, y \in S : <<x, y>> \in R <=> Feed!Before(x, y)
    BY TidyOrders
  <1> HIDE DEF R
  <1>2. \A x \in S : Place(R, S, x) = Feed!Cardinality({y \in S : Feed!Before(y, x)})
    <2> SUFFICES ASSUME NEW x \in S
                 PROVE  Place(R, S, x) = Feed!Cardinality({y \in S : Feed!Before(y, x)})
      OBVIOUS
    <2>1. {y \in S : <<y, x>> \in R} = {y \in S : Feed!Before(y, x)}
      BY <1>1
    <2> QED
      BY <2>1, FeedCount DEF Place, Earlier
  <1>3. Feed!Newest(S, n) = N
    BY <1>2 DEF Feed!Newest
  <1>4. /\ IsFiniteSet(N) /\ Cardinality(N) \in Nat
        /\ S # {} => N # {}
        /\ \A x \in S \ N, y \in N : <<y, x>> \in R
        /\ N # S => Cardinality(N) >= n
        /\ \A x \in N : \A A \in SUBSET S :
             (\A y \in A : <<y, x>> \in R) => IsFiniteSet(A) /\ Cardinality(A) < n
    BY <1>1, FirstsAre
  <1>5. N \subseteq S
    OBVIOUS
  <1> HIDE DEF N
  <1>6. \A x \in S \ N, y \in N : Feed!Before(y, x)
    BY <1>1, <1>4, <1>5
  <1>7. ASSUME NEW x \in N, NEW A \in SUBSET S, \A y \in A : Feed!Before(y, x)
        PROVE  Cardinality(A) < n
    <2>1. \A y \in A : <<y, x>> \in R
      BY <1>1, <1>5, <1>7
    <2> QED
      BY <1>4, <2>1
  <1> QED
    BY <1>3, <1>4, <1>5, <1>6, <1>7

LEMMA OrderedRows ==
  ASSUME NEW S, Tidy(S)
  PROVE  /\ Feed!Ordered(S) \in Seq(S) /\ Len(Feed!Ordered(S)) = Cardinality(S) /\ Cardinality(S) \in Nat
         /\ \A i, j \in 1..Len(Feed!Ordered(S)) :
              i < j => Feed!Before(Feed!Ordered(S)[i], Feed!Ordered(S)[j])
         /\ \A x \in S : \E i \in 1..Len(Feed!Ordered(S)) : Feed!Ordered(S)[i] = x
  <1> DEFINE R == FeedOrder(S)
             q == Feed!Ordered(S)
  <1>1. /\ Orders(R, S) /\ \A x, y \in S : <<x, y>> \in R <=> Feed!Before(x, y)
    BY TidyOrders
  <1> HIDE DEF R
  <1>2. PICK p \in [1..Cardinality(S) -> S] : \A i, j \in DOMAIN p : i < j => <<p[i], p[j]>> \in R
    BY <1>1, ListedIs
  <1>3. \A o \in [1..Cardinality(S) -> S] :
          (\A i, j \in DOMAIN o : i < j => <<o[i], o[j]>> \in R) =>
            /\ o \in Seq(S) /\ Len(o) = Cardinality(S) /\ DOMAIN o = 1..Len(o)
            /\ \A x \in S : \E i \in 1..Len(o) : o[i] = x
    BY <1>1, ListedIs
  <1>4. \A i \in DOMAIN p : p[i] \in S
    BY <1>2
  <1>5. \A i, j \in DOMAIN p : i < j => Feed!Before(p[i], p[j])
    BY <1>1, <1>2, <1>4
  <1>6. Feed!Ordered(S) = CHOOSE o \in [1..Cardinality(S) -> S] : \A i, j \in DOMAIN o : i < j => Feed!Before(o[i], o[j])
    BY FeedCount DEF Feed!Ordered
  <1>7. q \in [1..Cardinality(S) -> S] /\ \A i, j \in DOMAIN q : i < j => Feed!Before(q[i], q[j])
    BY <1>2, <1>5, <1>6
  <1>8. Cardinality(S) \in Nat
    BY <1>1, ListedIs
  <1> HIDE DEF q
  <1>8a. \A i, j \in DOMAIN q : i < j => <<q[i], q[j]>> \in R
    <2>1. \A i \in DOMAIN q : q[i] \in S
      BY <1>7
    <2> QED
      BY <1>1, <1>7, <2>1
  <1>9. q \in Seq(S) /\ Len(q) = Cardinality(S) /\ DOMAIN q = 1..Len(q)
        /\ \A x \in S : \E i \in 1..Len(q) : q[i] = x
    BY <1>3, <1>7, <1>8a
  <1> QED
    BY <1>7, <1>8, <1>9 DEF q

-----------------------------------------------------------------------------
(* The activity feed: its pages. *)

InRange(r, t) == r.time <= (IF r.kind = "diary" THEN Feed!Noon(t) ELSE t)

\* The pages are in the order, and the cursor is the last of them.
ActivityShown ==
  /\ v4 \in Seq(ActivityRow) /\ \A i \in 1..Len(v4) : Valid(v4[i])
  /\ \A i, j \in 1..Len(v4) : i < j => Feed!Before(v4[i], v4[j])
  /\ v3 = IF v4 = <<>> THEN {} ELSE {v4[Len(v4)]}

ActivityStates ==
  /\ v2 \in FeedTimes \cup {-1} /\ v5 \in BOOLEAN /\ v7 \in BOOLEAN
  /\ v6 \subseteq Feed!Kinds \X Nat /\ IsFiniteSet(v6)
  /\ v2 = -1 => v4 = <<>> /\ v5

\* A row that is not shown yet comes after the cursor.
ActivityWaits ==
  \A r \in v1 : InRange(r, v2) /\ r.of = 0 /\ Feed!Key(r) \notin v6 /\ ~v7 =>
    \/ \E i \in 1..Len(v4) : v4[i] = r
    \/ v5 /\ \A c \in v3 : Feed!Before(c, r)

ActivityInv == Tidy(v1) /\ ActivityStates /\ ActivityShown /\ ActivityWaits

LEMMA KeysAre ==
  ASSUME NEW S, IsFiniteSet(S)
  PROVE  IsFiniteSet({Feed!Key(r) : r \in S})
  <1> DEFINE f == [r \in S |-> Feed!Key(r)]
             T == {Feed!Key(r) : r \in S}
  <1>1. IsFiniteSet(DOMAIN f) /\ T = {f[r] : r \in DOMAIN f}
    OBVIOUS
  <1> HIDE DEF f, T
  <1>2. IsFiniteSet(T)
    BY <1>1, ImagesAre
  <1> QED
    BY <1>2 DEF T

\* What is written leaves what is not touched where it was.
LEMMA FeedWritten ==
  ASSUME ActivityInv, NEW gone \in SUBSET v1, NEW new, Tidy(new),
         \A n \in new : Feed!Key(n) \in {Feed!Key(g) : g \in gone}
                          \/ \A r \in v1 : Feed!Key(r) # Feed!Key(n),
         Feed!Write(gone, new)
  PROVE  ActivityInv'
  <1>1. /\ v2 # -1 /\ v1' = (v1 \ gone) \cup new
        /\ v6' = v6 \cup {Feed!Key(r) : r \in gone \cup new}
        /\ UNCHANGED <<v2, v3, v4, v5, v7>>
    BY DEF Feed!Write
  <1>2. Tidy(v1')
    <2>1. IsFiniteSet(v1 \ gone) /\ IsFiniteSet(new)
      BY FS_Difference DEF ActivityInv, Tidy
    <2>2. IsFiniteSet(v1')
      BY <1>1, <2>1, FS_Union
    <2>3. \A r \in v1' : Valid(r)
      BY <1>1 DEF ActivityInv, Tidy
    <2>4. ASSUME NEW r \in v1 \ gone, NEW n \in new PROVE Feed!Key(r) # Feed!Key(n)
      BY <2>4 DEF ActivityInv, Tidy
    <2>5. \A r, q \in v1' : Feed!Key(r) = Feed!Key(q) => r = q
      BY <1>1, <2>4 DEF ActivityInv, Tidy
    <2> QED
      BY <2>2, <2>3, <2>5 DEF Tidy
  <1>3. ActivityStates'
    <2>1. IsFiniteSet(gone) /\ IsFiniteSet(new)
      BY FS_Subset DEF ActivityInv, Tidy
    <2>2. IsFiniteSet(gone \cup new)
      BY <2>1, FS_Union
    <2>3. IsFiniteSet({Feed!Key(r) : r \in gone \cup new})
      BY <2>2, KeysAre
    <2>4. IsFiniteSet(v6')
      BY <1>1, <2>3, FS_Union DEF ActivityInv, ActivityStates
    <2>5. \A r \in gone \cup new : r.kind \in Feed!Kinds /\ r.id \in Nat
      BY RowIs DEF ActivityInv, Tidy
    <2>6. v6' \subseteq Feed!Kinds \X Nat
      BY <1>1, <2>5 DEF ActivityInv, ActivityStates, Feed!Key
    <2> QED
      BY <1>1, <2>4, <2>6 DEF ActivityInv, ActivityStates
  <1>4. ActivityShown'
    BY <1>1 DEF ActivityInv, ActivityShown
  <1>5. ActivityWaits'
    <2> SUFFICES ASSUME NEW r \in v1', InRange(r, v2), r.of = 0, Feed!Key(r) \notin v6', ~v7
                 PROVE  \/ \E i \in 1..Len(v4) : v4[i] = r
                        \/ v5 /\ \A c \in v3 : Feed!Before(c, r)
      BY <1>1 DEF ActivityWaits, InRange
    <2>1. r \in v1 /\ Feed!Key(r) \notin v6
      BY <1>1
    <2> QED
      BY <2>1 DEF ActivityInv, ActivityWaits
  <1> QED
    BY <1>2, <1>3, <1>4, <1>5 DEF ActivityInv

\* A new row has a number no row had.
LEMMA NewRow ==
  ASSUME ActivityInv, NEW k \in Feed!Kinds, NEW t \in Nat, NEW d \in Nat,
         k = "diary" => t = Feed!Noon(t)
  PROVE  /\ Valid(Feed!New(k, t, d)) /\ Feed!New(k, t, d).kind = k
         /\ \A r \in v1 : Feed!Key(r) # Feed!Key(Feed!New(k, t, d))
  <1> DEFINE K == {Feed!Key(r) : r \in v1} \cup v6
             E == {e \in K : e[1] = k}
             I == {e[2] : e \in E}
             J == I \cup {0}
             n == Feed!New(k, t, d)
  <1>1. IsFiniteSet(K) /\ K \subseteq Feed!Kinds \X Nat
    <2>1. IsFiniteSet({Feed!Key(r) : r \in v1})
      BY KeysAre DEF ActivityInv, Tidy
    <2>2. \A r \in v1 : Feed!Key(r) \in Feed!Kinds \X Nat
      BY RowIs DEF ActivityInv, Tidy, Feed!Key
    <2> QED
      BY <2>1, <2>2, FS_Union DEF ActivityInv, ActivityStates
  <1>2. IsFiniteSet(E)
    BY <1>1, FS_Subset
  <1>3. \A e \in E : e[2] \in Nat
    BY <1>1
  <1>4. \A r \in v1 : r.kind = k => r.id \in I
    <2> SUFFICES ASSUME NEW r \in v1, r.kind = k PROVE r.id \in I
      OBVIOUS
    <2>1. Feed!Key(r) \in E /\ Feed!Key(r)[2] = r.id
      BY DEF Feed!Key
    <2> QED
      BY <2>1
  <1>5. Feed!Ids(k) = I
    BY DEF Feed!Ids
  <1> HIDE DEF E, K
  <1>6. IsFiniteSet(I) /\ I \subseteq Nat
    <2> DEFINE f == [e \in E |-> e[2]]
    <2>1. IsFiniteSet(DOMAIN f) /\ I = {f[e] : e \in DOMAIN f}
      BY <1>2
    <2> HIDE DEF f, I
    <2>2. IsFiniteSet(I)
      BY <2>1, ImagesAre
    <2> QED
      BY <1>3, <2>2 DEF I
  <1> HIDE DEF I
  <1>7. IsFiniteSet(J) /\ J \subseteq Nat /\ J # {}
    BY <1>6, FS_AddElement
  <1>8. Feed!Max(J) = CHOOSE x \in J : \A y \in J : x >= y
    BY DEF Feed!Max
  <1>9. n = [kind |-> k, id |-> Feed!Max(J) + 1, time |-> t, of |-> d]
    BY <1>5 DEF Feed!New
  <1> HIDE DEF J, n
  <1>10. \E x \in J : \A y \in J : x >= y
    BY <1>7, GreatestIs
  <1>11. Feed!Max(J) \in J /\ \A y \in J : Feed!Max(J) >= y
    BY <1>8, <1>10
  <1>12. Feed!Max(J) \in Nat
    BY <1>7, <1>11
  <1>13. n.kind = k /\ n.id = Feed!Max(J) + 1 /\ n.id \in Nat \ {0} /\ n \in ActivityRow /\ n.time = t
    BY <1>9, <1>12 DEF ActivityRow
  <1>14. Valid(n)
    BY <1>13 DEF Valid
  <1>15. ASSUME NEW r \in v1, Feed!Key(r) = Feed!Key(n) PROVE FALSE
    <2>1. r.kind = k /\ r.id = n.id
      BY <1>13, <1>15 DEF Feed!Key
    <2>2. r.id \in J
      BY <1>4, <2>1 DEF J
    <2> QED
      BY <1>11, <1>12, <1>13, <2>1, <2>2
  <1> QED
    BY <1>13, <1>14, <1>15 DEF n

LEMMA OneTidy ==
  ASSUME NEW n, Valid(n)
  PROVE  Tidy({n})
  BY FS_Singleton DEF Tidy

LEMMA NoonStays ==
  ASSUME NEW t \in Nat
  PROVE  Feed!Noon(t) \in Nat /\ Feed!Noon(Feed!Noon(t)) = Feed!Noon(t)
  <1>1. PICK d \in Nat : Feed!Noon(t) = 2 * d + 1
    BY HalfDays
  <1>2. 2 * d + 1 \in Nat
    OBVIOUS
  <1>3. PICK e \in Nat : (2 * d + 1 = 2 * e \/ 2 * d + 1 = 2 * e + 1) /\ Feed!Noon(2 * d + 1) = 2 * e + 1
    BY <1>2, HalfDays
  <1> QED
    BY <1>1, <1>2, <1>3

\* A row is added, or one takes the place of another of its number.
LEMMA RowAdded ==
  ASSUME ActivityInv, NEW k \in Feed!Kinds, NEW t \in Nat, NEW d \in Nat,
         k = "diary" => t = Feed!Noon(t), Feed!Write({}, {Feed!New(k, t, d)})
  PROVE  ActivityInv'
  <1> DEFINE n == Feed!New(k, t, d)
  <1>1. Valid(n) /\ \A r \in v1 : Feed!Key(r) # Feed!Key(n)
    BY NewRow
  <1>2. Tidy({n})
    BY <1>1, OneTidy
  <1>3. Feed!Write({}, {n})
    OBVIOUS
  <1>4. {} \in SUBSET v1
    OBVIOUS
  <1> HIDE DEF n
  <1> QED
    BY <1>1, <1>2, <1>3, <1>4, FeedWritten

LEMMA RowChanged ==
  ASSUME ActivityInv, NEW r \in v1, NEW n, Valid(n), Feed!Key(n) = Feed!Key(r),
         Feed!Write({r}, {n})
  PROVE  ActivityInv'
  <1>1. Tidy({n})
    BY OneTidy
  <1>2. {r} \in SUBSET v1 /\ Feed!Key(n) \in {Feed!Key(g) : g \in {r}}
    OBVIOUS
  <1> QED
    BY <1>1, <1>2, FeedWritten

LEMMA Rewritten ==
  ASSUME NEW r, Valid(r), NEW t \in Nat, NEW of \in Nat
  PROVE  /\ r.kind = "diary" /\ t = Feed!Noon(t) => Valid([r EXCEPT !.time = t])
         /\ r.kind # "diary" => Valid([r EXCEPT !.time = t]) /\ Valid([r EXCEPT !.time = t, !.of = of])
         /\ Valid([r EXCEPT !.of = of])
         /\ Feed!Key([r EXCEPT !.time = t]) = Feed!Key(r)
         /\ Feed!Key([r EXCEPT !.time = t, !.of = of]) = Feed!Key(r)
         /\ Feed!Key([r EXCEPT !.of = of]) = Feed!Key(r)
  BY DEF Valid, ActivityRow, Feed!Key

LEMMA SaveDiaryKeeps ==
  ASSUME ActivityInv, NEW t \in FeedTimes, Feed!SaveDiary(t)
  PROVE  ActivityInv'
  <1>1. Feed!Noon(t) \in Nat /\ Feed!Noon(Feed!Noon(t)) = Feed!Noon(t) /\ "diary" \in Feed!Kinds /\ 0 \in Nat
    BY NoonStays, KindsAre, ListsAssumption
  <1>2. CASE Feed!Write({}, {Feed!New("diary", Feed!Noon(t), 0)})
    BY <1>1, <1>2, RowAdded
  <1>3. CASE \E d \in Feed!Rows("diary") : Feed!Write({d}, {[d EXCEPT !.time = Feed!Noon(t)]})
    <2>1. PICK d \in Feed!Rows("diary") : Feed!Write({d}, {[d EXCEPT !.time = Feed!Noon(t)]})
      BY <1>3
    <2>2. d \in v1 /\ d.kind = "diary" /\ Valid(d)
      BY DEF Feed!Rows, ActivityInv, Tidy
    <2>3. /\ Valid([d EXCEPT !.time = Feed!Noon(t)])
          /\ Feed!Key([d EXCEPT !.time = Feed!Noon(t)]) = Feed!Key(d)
      BY <1>1, <2>2, Rewritten
    <2> QED
      BY <2>1, <2>2, <2>3, RowChanged
  <1> QED
    BY <1>2, <1>3 DEF Feed!SaveDiary

LEMMA SaveThesisKeeps ==
  ASSUME ActivityInv, NEW t \in FeedTimes, Feed!SaveThesis(t)
  PROVE  ActivityInv'
  <1>1. t \in Nat /\ "thesis" \in Feed!Kinds /\ 0 \in Nat
    BY KindsAre, ListsAssumption
  <1>2. CASE Feed!Write({}, {Feed!New("thesis", t, 0)})
    BY <1>1, <1>2, RowAdded
  <1>3. CASE \E r \in Feed!Rows("thesis") : Feed!Write({r}, {[r EXCEPT !.time = t]})
    <2>1. PICK r \in Feed!Rows("thesis") : Feed!Write({r}, {[r EXCEPT !.time = t]})
      BY <1>3
    <2>2. r \in v1 /\ r.kind # "diary" /\ Valid(r)
      BY DEF Feed!Rows, ActivityInv, Tidy
    <2>3. Valid([r EXCEPT !.time = t]) /\ Feed!Key([r EXCEPT !.time = t]) = Feed!Key(r)
      BY <1>1, <2>2, Rewritten
    <2> QED
      BY <2>1, <2>2, <2>3, RowChanged
  <1> QED
    BY <1>2, <1>3 DEF Feed!SaveThesis

LEMMA UpsertKeeps ==
  ASSUME ActivityInv, NEW t \in FeedTimes, NEW of \in Nat, Feed!UpsertRecord(t, of)
  PROVE  ActivityInv'
  <1>1. t \in Nat /\ "stock_timeline" \in Feed!Kinds
    BY KindsAre, ListsAssumption
  <1>2. CASE Feed!Write({}, {Feed!New("stock_timeline", t, of)})
    BY <1>1, <1>2, RowAdded
  <1>3. CASE \E r \in Feed!Rows("stock_timeline") : Feed!Write({r}, {[r EXCEPT !.time = t, !.of = of]})
    <2>1. PICK r \in Feed!Rows("stock_timeline") : Feed!Write({r}, {[r EXCEPT !.time = t, !.of = of]})
      BY <1>3
    <2>2. r \in v1 /\ r.kind # "diary" /\ Valid(r)
      BY DEF Feed!Rows, ActivityInv, Tidy
    <2>3. /\ Valid([r EXCEPT !.time = t, !.of = of])
          /\ Feed!Key([r EXCEPT !.time = t, !.of = of]) = Feed!Key(r)
      BY <1>1, <2>2, Rewritten
    <2> QED
      BY <2>1, <2>2, <2>3, RowChanged
  <1> QED
    BY <1>2, <1>3 DEF Feed!UpsertRecord

LEMMA ReviewWritten ==
  ASSUME ActivityInv, NEW t \in FeedTimes, Feed!CompleteReview(t)
  PROVE  ActivityInv'
  <1>1. PICK r \in Feed!Rows("thesis") :
           Feed!Write({r}, {[r EXCEPT !.time = t], Feed!New("thesis_review", t, 0)})
    BY DEF Feed!CompleteReview
  <1> DEFINE m == [r EXCEPT !.time = t]
             n == Feed!New("thesis_review", t, 0)
  <1>2. t \in Nat /\ "thesis_review" \in Feed!Kinds /\ 0 \in Nat
    BY KindsAre, ListsAssumption
  <1>3. r \in v1 /\ r.kind = "thesis" /\ Valid(r)
    BY DEF Feed!Rows, ActivityInv, Tidy
  <1>4. Valid(m) /\ Feed!Key(m) = Feed!Key(r)
    BY <1>2, <1>3, Rewritten
  <1>5. Valid(n) /\ n.kind = "thesis_review" /\ \A q \in v1 : Feed!Key(q) # Feed!Key(n)
    BY <1>2, NewRow
  <1>6. Feed!Write({r}, {m, n})
    BY <1>1
  <1> HIDE DEF m, n
  <1>7. Tidy({m, n})
    <2>1. IsFiniteSet({m, n})
      <3>1. IsFiniteSet({m}) /\ IsFiniteSet({n})
        BY FS_Singleton
      <3>2. IsFiniteSet({m} \cup {n})
        BY <3>1, FS_Union
      <3>3. {m, n} = {m} \cup {n}
        OBVIOUS
      <3> QED
        BY <3>2, <3>3
    <2>2. Feed!Key(m) # Feed!Key(n)
      BY <1>3, <1>4, <1>5
    <2> QED
      BY <1>4, <1>5, <2>1, <2>2 DEF Tidy
  <1>8. {r} \in SUBSET v1 /\ Feed!Key(m) \in {Feed!Key(g) : g \in {r}}
    BY <1>3, <1>4
  <1> QED
    BY <1>5, <1>6, <1>7, <1>8, FeedWritten

LEMMA DeleteDiaryKeeps ==
  ASSUME ActivityInv, NEW d \in Feed!Rows("diary"), Feed!DeleteDiary(d)
  PROVE  ActivityInv'
  <1> DEFINE its == {r \in v1 : r.of = d.id}
             f == [r \in its |-> [r EXCEPT !.of = 0]]
             new == {[r EXCEPT !.of = 0] : r \in its}
             gone == {d} \cup its
  <1>1. Feed!Write(gone, new)
    BY DEF Feed!DeleteDiary
  <1>2. d \in v1 /\ its \in SUBSET v1 /\ gone \in SUBSET v1
    BY DEF Feed!Rows
  <1>3. IsFiniteSet(its)
    BY <1>2, FS_Subset DEF ActivityInv, Tidy
  <1>4. IsFiniteSet(DOMAIN f) /\ new = {f[r] : r \in DOMAIN f}
    BY <1>3
  <1>5. \A n \in new : \E r \in its : n = [r EXCEPT !.of = 0]
    OBVIOUS
  <1>6. its \subseteq gone
    OBVIOUS
  <1> HIDE DEF its, f, new, gone
  <1>7. IsFiniteSet(new)
    BY <1>4, ImagesAre
  <1>8. \A r \in its : Valid([r EXCEPT !.of = 0]) /\ Feed!Key([r EXCEPT !.of = 0]) = Feed!Key(r)
    <2> SUFFICES ASSUME NEW r \in its
                 PROVE  Valid([r EXCEPT !.of = 0]) /\ Feed!Key([r EXCEPT !.of = 0]) = Feed!Key(r)
      OBVIOUS
    <2>1. Valid(r) /\ 0 \in Nat
      BY <1>2 DEF ActivityInv, Tidy
    <2> QED
      BY <2>1, Rewritten
  <1>9. \A n \in new : \E r \in its : Valid(n) /\ Feed!Key(n) = Feed!Key(r) /\ n = [r EXCEPT !.of = 0]
    BY <1>5, <1>8
  <1>10. Tidy(new)
    <2>1. ASSUME NEW m \in new, NEW n \in new, Feed!Key(m) = Feed!Key(n) PROVE m = n
      <3>1. PICK q \in its : Feed!Key(m) = Feed!Key(q) /\ m = [q EXCEPT !.of = 0]
        BY <1>9
      <3>2. PICK r \in its : Feed!Key(n) = Feed!Key(r) /\ n = [r EXCEPT !.of = 0]
        BY <1>9
      <3>3. q = r
        BY <1>2, <2>1, <3>1, <3>2 DEF ActivityInv, Tidy
      <3> QED
        BY <3>1, <3>2, <3>3
    <2> QED
      BY <1>7, <1>9, <2>1 DEF Tidy
  <1>11. \A n \in new : Feed!Key(n) \in {Feed!Key(g) : g \in gone}
    BY <1>6, <1>9
  <1> QED
    BY <1>1, <1>2, <1>10, <1>11, FeedWritten

-----------------------------------------------------------------------------
\* What the queries of a page find.
LEMMA FoundIs ==
  ASSUME ActivityInv, NEW t \in Nat, NEW k \in Feed!Kinds
  PROVE  /\ Feed!Found(k, t) \in SUBSET v1 /\ Tidy(Feed!Found(k, t))
         /\ Feed!Window(k, t) \in SUBSET v1 /\ Feed!Window(k, t) \subseteq Feed!Found(k, t)
         /\ Tidy(Feed!Window(k, t)) /\ Cardinality(Feed!Window(k, t)) \in Nat
         /\ \A r \in Feed!Found(k, t) : r.kind = k /\ \A c \in v3 : Feed!Before(c, r)
         /\ \A r \in v1 : r.kind = k /\ InRange(r, t) /\ (\A c \in v3 : Feed!Before(c, r))
              => r \in Feed!Found(k, t)
         /\ Feed!truncated(k, t) <=> Feed!Window(k, t) # Feed!Found(k, t)
         /\ Feed!Window(k, t) = Feed!Newest(Feed!Found(k, t), FeedSource)
  <1>1. Feed!Found(k, t) \in SUBSET v1 /\ \A r \in Feed!Found(k, t) : r.kind = k
    BY DEF Feed!Found, Feed!Rows
  <1>2. Tidy(Feed!Found(k, t))
    BY <1>1, TidyPart DEF ActivityInv
  <1>3. \A c \in v3 : Valid(c)
    <2>1. v4 # <<>> => Len(v4) \in 1..Len(v4)
      BY DEF ActivityInv, ActivityShown
    <2> QED
      BY <2>1 DEF ActivityInv, ActivityShown
  <1>4. \A r \in v1 : Valid(r)
    BY DEF ActivityInv, Tidy
  <1>5. \A r \in v1, c \in v3 : Feed!afterActivityCursor(r.kind, c, r) <=> Feed!Before(c, r)
    BY <1>3, <1>4, CursorGoesOn
  <1>6. \A r \in Feed!Found(k, t) : \A c \in v3 : Feed!Before(c, r)
    BY <1>1, <1>5 DEF Feed!Found
  <1>7. \A r \in v1 : r.kind = k /\ InRange(r, t) /\ (\A c \in v3 : Feed!Before(c, r))
              => r \in Feed!Found(k, t)
    BY <1>5 DEF Feed!Found, Feed!Rows, InRange
  <1>8. Feed!Window(k, t) = Feed!Newest(Feed!Found(k, t), FeedSource)
    BY DEF Feed!Window
  <1>9. Feed!Window(k, t) \subseteq Feed!Found(k, t)
    BY <1>8 DEF Feed!Newest
  <1>10. Feed!Window(k, t) \in SUBSET v1
    BY <1>1, <1>9
  <1>11. Tidy(Feed!Window(k, t)) /\ Cardinality(Feed!Window(k, t)) \in Nat
    BY <1>10, TidyPart DEF ActivityInv
  <1> QED
    BY <1>1, <1>2, <1>6, <1>7, <1>8, <1>9, <1>10, <1>11 DEF Feed!truncated

LEMMA ItemsAre ==
  ASSUME ActivityInv, NEW t \in Nat
  PROVE  /\ Feed!FeedItems(t) \in SUBSET v1 /\ Tidy(Feed!FeedItems(t)) /\ Cardinality(Feed!FeedItems(t)) \in Nat
         /\ \A r \in Feed!FeedItems(t) : \A c \in v3 : Feed!Before(c, r)
         /\ \A k \in Feed!Kinds : k # "stock_timeline" => Feed!Window(k, t) \subseteq Feed!FeedItems(t)
         /\ Feed!Window("stock_timeline", t) \ Feed!Dropped(t) \subseteq Feed!FeedItems(t)
         /\ Feed!Dropped(t) \in SUBSET Feed!Window("stock_timeline", t)
         /\ \A r \in Feed!Dropped(t) : r.of # 0
         /\ Cardinality(Feed!Dropped(t)) \in Nat /\ IsFiniteSet(Feed!Dropped(t))
  <1>1. \A k \in Feed!Kinds : /\ Feed!Window(k, t) \in SUBSET v1
                              /\ \A r \in Feed!Window(k, t) : r.kind = k /\ \A c \in v3 : Feed!Before(c, r)
    BY FoundIs
  <1>2. "stock_timeline" \in Feed!Kinds /\ "diary" \in Feed!Kinds
    BY KindsAre
  <1>3. Feed!Dropped(t) \in SUBSET Feed!Window("stock_timeline", t)
    BY DEF Feed!Dropped
  <1>4. \A r \in Feed!Dropped(t) : r.of # 0
    <2>1. \A d \in Feed!Window("diary", t) : d.id # 0
      BY <1>1, <1>2, RowIs DEF ActivityInv, Tidy
    <2> QED
      BY <2>1 DEF Feed!Dropped
  <1>5. IsFiniteSet(Feed!Dropped(t)) /\ Cardinality(Feed!Dropped(t)) \in Nat
    <2>1. Feed!Dropped(t) \in SUBSET v1
      BY <1>1, <1>2, <1>3
    <2> QED
      BY <2>1, TidyPart DEF ActivityInv, Tidy
  <1>6. \A r : r \in Feed!FeedItems(t) <=> r \notin Feed!Dropped(t) /\ \E k \in Feed!Kinds : r \in Feed!Window(k, t)
    BY <1>1 DEF Feed!FeedItems
  <1>7. Feed!FeedItems(t) \in SUBSET v1
    BY <1>1, <1>6
  <1>8. Tidy(Feed!FeedItems(t)) /\ Cardinality(Feed!FeedItems(t)) \in Nat
    BY <1>7, TidyPart DEF ActivityInv
  <1>9. \A r \in Feed!FeedItems(t) : \A c \in v3 : Feed!Before(c, r)
    BY <1>1, <1>6
  <1>10. \A k \in Feed!Kinds : k # "stock_timeline" => Feed!Window(k, t) \subseteq Feed!FeedItems(t)
    <2> SUFFICES ASSUME NEW k \in Feed!Kinds, k # "stock_timeline", NEW r \in Feed!Window(k, t)
                 PROVE  r \in Feed!FeedItems(t)
      OBVIOUS
    <2>1. r.kind = k
      BY <1>1
    <2>2. r \notin Feed!Dropped(t)
      BY <1>1, <1>2, <1>3, <2>1
    <2> QED
      BY <1>6, <2>2
  <1>11. Feed!Window("stock_timeline", t) \ Feed!Dropped(t) \subseteq Feed!FeedItems(t)
    BY <1>2, <1>6
  <1> QED
    BY <1>3, <1>4, <1>5, <1>7, <1>8, <1>9, <1>10, <1>11

\* A row a query found and did not take has a page of items before it, unless
\* more of the window was dropped than it exceeds a page by.
LEMMA LeftOut ==
  ASSUME ActivityInv, NEW t \in Nat, NEW k \in Feed!Kinds, NEW r \in Feed!Found(k, t),
         r \notin Feed!Window(k, t),
         ~(Feed!truncated("stock_timeline", t) /\ Cardinality(Feed!Dropped(t)) > FeedSource - FeedPage)
  PROVE  /\ Feed!truncated(k, t)
         /\ \E A \in SUBSET Feed!FeedItems(t) : /\ Cardinality(A) \in Nat /\ Cardinality(A) >= FeedPage
                                            /\ \A y \in A : Feed!Before(y, r)
  <1> DEFINE W == Feed!Window(k, t)
  <1>1. FeedSource \in Nat \ {0} /\ FeedPage \in Nat \ {0} /\ FeedPage <= FeedSource
    BY ListsAssumption
  <1>2. Tidy(Feed!Found(k, t)) /\ W = Feed!Newest(Feed!Found(k, t), FeedSource)
        /\ Cardinality(W) \in Nat /\ Tidy(W)
    BY FoundIs
  <1>3. Feed!truncated(k, t)
    BY FoundIs
  <1>4. (\A y \in W : Feed!Before(y, r)) /\ Cardinality(W) >= FeedSource
    BY <1>1, <1>2, NewestRows
  <1>5. CASE k # "stock_timeline"
    <2>1. W \in SUBSET Feed!FeedItems(t)
      BY <1>5, ItemsAre
    <2>2. Cardinality(W) >= FeedPage
      BY <1>1, <1>2, <1>4
    <2> QED
      BY <1>2, <1>3, <1>4, <2>1, <2>2
  <1>6. CASE k = "stock_timeline"
    <2> DEFINE D == Feed!Dropped(t)
               A == W \ D
    <2>1. A \in SUBSET Feed!FeedItems(t) /\ D \in SUBSET W /\ Cardinality(D) \in Nat
      BY <1>6, ItemsAre
    <2>2. Cardinality(D) <= FeedSource - FeedPage
      BY <1>1, <1>3, <1>6, <2>1
    <2>3. W \cap D = D
      BY <2>1
    <2>4. Cardinality(A) = Cardinality(W) - Cardinality(D)
      <3>1. IsFiniteSet(W)
        BY <1>2 DEF Tidy
      <3>2. Cardinality(W \ D) = Cardinality(W) - Cardinality(W \cap D)
        BY <3>1, FS_Difference
      <3> QED
        BY <2>3, <3>2
    <2>5. Cardinality(A) \in Nat
      <3>1. A \in SUBSET W
        OBVIOUS
      <3> QED
        BY <1>2, <3>1, TidyPart
    <2>6. \A y \in A : Feed!Before(y, r)
      BY <1>4
    <2> HIDE DEF A, D, W
    <2>7. Cardinality(A) >= FeedPage
      BY <1>1, <1>2, <1>4, <2>1, <2>2, <2>4, <2>5
    <2> QED
      BY <1>3, <2>1, <2>5, <2>6, <2>7
  <1> QED
    BY <1>5, <1>6

LEMMA PageKeeps ==
  ASSUME ActivityInv, Feed!ReadPage
  PROVE  ActivityInv'
  <1>1. PICK t \in (IF v2 = -1 THEN FeedTimes ELSE {v2}) :
          LET P == Feed!Ordered(Feed!Newest(Feed!FeedItems(t), FeedPage))
          IN /\ v2' = t
             /\ v4' = v4 \o P
             /\ v3' = IF P = <<>> THEN v3 ELSE {P[Len(P)]}
             /\ v5' = (P # <<>> /\ \/ Len(P) < Feed!Cardinality(Feed!FeedItems(t))
                                   \/ \E k \in Feed!Kinds : Feed!truncated(k, t))
             /\ v7' = (v7 \/ (/\ Feed!truncated("stock_timeline", t)
                              /\ Feed!Cardinality(Feed!Dropped(t)) > FeedSource - FeedPage))
    BY DEF Feed!ReadPage
  <1>2. v5 /\ UNCHANGED <<v1, v6>>
    BY DEF Feed!ReadPage
  <1> DEFINE I == Feed!FeedItems(t)
             N == Feed!Newest(I, FeedPage)
             P == Feed!Ordered(N)
             over == /\ Feed!truncated("stock_timeline", t)
                     /\ Cardinality(Feed!Dropped(t)) > FeedSource - FeedPage
  <1>3. t \in FeedTimes /\ t \in Nat /\ (v2 # -1 => v2 = t)
    BY ListsAssumption DEF ActivityInv, ActivityStates
  <1>4. /\ v2' = t /\ v4' = v4 \o P
        /\ v3' = (IF P = <<>> THEN v3 ELSE {P[Len(P)]})
        /\ v5' = (P # <<>> /\ (Len(P) < Cardinality(I) \/ \E k \in Feed!Kinds : Feed!truncated(k, t)))
        /\ v7' = (v7 \/ over)
    BY <1>1, FeedCount
  <1>5. over \in BOOLEAN
    OBVIOUS
  <1> HIDE DEF over
  <1>6. FeedPage \in Nat \ {0} /\ FeedPage <= FeedSource
    BY ListsAssumption
  <1>7. /\ I \in SUBSET v1 /\ Tidy(I) /\ Cardinality(I) \in Nat
        /\ \A r \in I : \A c \in v3 : Feed!Before(c, r)
    BY <1>3, ItemsAre
  <1>8. /\ N \subseteq I /\ (I # {} => N # {})
        /\ \A x \in I \ N, y \in N : Feed!Before(y, x)
        /\ \A x \in N : \A A \in SUBSET I : (\A y \in A : Feed!Before(y, x)) => Cardinality(A) < FeedPage
    BY <1>6, <1>7, NewestRows
  <1>9. Tidy(N) /\ N \in SUBSET v1 /\ Cardinality(N) \in Nat
    BY <1>7, <1>8, TidyPart
  <1> HIDE DEF N
  <1>10. /\ P \in Seq(N) /\ Len(P) = Cardinality(N)
         /\ \A i, j \in 1..Len(P) : i < j => Feed!Before(P[i], P[j])
         /\ \A x \in N : \E i \in 1..Len(P) : P[i] = x
    BY <1>9, OrderedRows
  <1> HIDE DEF P, I
  <1>11. Len(P) \in Nat /\ (\A i \in 1..Len(P) : P[i] \in N) /\ (P # <<>> => Len(P) \in 1..Len(P))
    BY <1>10
  <1>12. \A r \in v1 : Valid(r) /\ r \in ActivityRow
    BY DEF ActivityInv, Tidy, Valid
  <1>13. P \in Seq(ActivityRow) /\ v4 \in Seq(ActivityRow) /\ Len(v4) \in Nat
    <2>1. N \subseteq ActivityRow
      BY <1>9, <1>12
    <2> QED
      BY <1>10, <2>1, SeqMonotonic DEF ActivityInv, ActivityShown
  <1>14. /\ v4' \in Seq(ActivityRow) /\ Len(v4') = Len(v4) + Len(P)
         /\ \A i \in 1..(Len(v4) + Len(P)) : v4'[i] = IF i <= Len(v4) THEN v4[i] ELSE P[i - Len(v4)]
    BY <1>4, <1>13, ConcatProperties
  <1>15. \A i \in 1..Len(v4') : \/ i \in 1..Len(v4) /\ v4'[i] = v4[i]
                               \/ /\ i > Len(v4) /\ i - Len(v4) \in 1..Len(P)
                                  /\ v4'[i] = P[i - Len(v4)]
    BY <1>11, <1>13, <1>14
  <1>16. /\ \A i \in 1..Len(v4) : i \in 1..Len(v4') /\ v4'[i] = v4[i]
         /\ \A i \in 1..Len(P) : Len(v4) + i \in 1..Len(v4') /\ v4'[Len(v4) + i] = P[i]
    <2>1. \A i \in 1..Len(v4) : i \in 1..(Len(v4) + Len(P)) /\ i <= Len(v4)
      BY <1>11, <1>13
    <2>2. \A i \in 1..Len(P) : /\ Len(v4) + i \in 1..(Len(v4) + Len(P)) /\ ~(Len(v4) + i <= Len(v4))
                             /\ (Len(v4) + i) - Len(v4) = i
      BY <1>11, <1>13
    <2> QED
      BY <1>14, <2>1, <2>2
  <1>17. \A i \in 1..Len(v4') : Valid(v4'[i])
    BY <1>9, <1>11, <1>12, <1>15 DEF ActivityInv, ActivityShown
  <1>18. \A i \in 1..Len(v4), j \in 1..Len(P) : Feed!Before(v4[i], P[j])
    <2> SUFFICES ASSUME NEW i \in 1..Len(v4), NEW j \in 1..Len(P) PROVE Feed!Before(v4[i], P[j])
      OBVIOUS
    <2>1. v4 # <<>> /\ Len(v4) \in 1..Len(v4)
      BY <1>13
    <2>2. v3 = {v4[Len(v4)]}
      BY <2>1 DEF ActivityInv, ActivityShown
    <2>3. Feed!Before(v4[Len(v4)], P[j])
      BY <1>7, <1>8, <1>11, <2>2
    <2>4. i = Len(v4) \/ Feed!Before(v4[i], v4[Len(v4)])
      BY <1>13, <2>1 DEF ActivityInv, ActivityShown
    <2>5. Valid(v4[i]) /\ Valid(v4[Len(v4)]) /\ Valid(P[j])
      BY <1>9, <1>11, <1>12, <2>1 DEF ActivityInv, ActivityShown
    <2> QED
      BY <2>3, <2>4, <2>5, BeforeOrders
  <1>19. ASSUME NEW i \in 1..Len(v4'), NEW j \in 1..Len(v4'), i < j
         PROVE  Feed!Before(v4'[i], v4'[j])
    <2>1. CASE j \in 1..Len(v4)
      <3>1. i \in 1..Len(v4)
        BY <1>13, <1>19, <2>1
      <3> QED
        BY <1>16, <1>19, <2>1, <3>1 DEF ActivityInv, ActivityShown
    <2>2. CASE j \notin 1..Len(v4)
      <3>1. j > Len(v4) /\ j - Len(v4) \in 1..Len(P) /\ v4'[j] = P[j - Len(v4)]
        BY <1>15, <2>2
      <3>2. CASE i \in 1..Len(v4)
        BY <1>16, <1>18, <3>1, <3>2
      <3>3. CASE i \notin 1..Len(v4)
        <4>1. i > Len(v4) /\ i - Len(v4) \in 1..Len(P) /\ v4'[i] = P[i - Len(v4)]
          BY <1>15, <3>3
        <4>2. i - Len(v4) < j - Len(v4)
          BY <1>13, <1>14, <1>19
        <4> QED
          BY <1>10, <3>1, <4>1, <4>2
      <3> QED
        BY <3>2, <3>3
    <2> QED
      BY <2>1, <2>2
  <1>20. v3' = IF v4' = <<>> THEN {} ELSE {v4'[Len(v4')]}
    <2>1. CASE P = <<>>
      <3>1. v4' = v4 /\ v3' = v3
        BY <1>4, <1>13, <2>1, ConcatEmptySeq
      <3> QED
        BY <3>1 DEF ActivityInv, ActivityShown
    <2>2. CASE P # <<>>
      <3>1. Len(P) \in 1..Len(P) /\ Len(v4') = Len(v4) + Len(P) /\ v4'[Len(v4) + Len(P)] = P[Len(P)]
        BY <1>11, <1>14, <1>16, <2>2
      <3>2. v4' # <<>>
        BY <1>11, <1>13, <3>1
      <3> QED
        BY <1>4, <2>2, <3>1, <3>2
    <2> QED
      BY <2>1, <2>2
  <1>21. ActivityShown'
    BY <1>14, <1>17, <1>19, <1>20 DEF ActivityShown
  <1>22. ActivityStates'
    BY <1>2, <1>3, <1>4, <1>5, ListsAssumption DEF ActivityInv, ActivityStates
  <1>23. ActivityWaits'
    <2> SUFFICES ASSUME NEW r \in v1, InRange(r, t), r.of = 0, Feed!Key(r) \notin v6, ~v7, ~over,
                        \A i \in 1..Len(v4') : v4'[i] # r
                 PROVE  v5' /\ \A c \in v3' : Feed!Before(c, r)
      BY <1>2, <1>4, <1>5 DEF ActivityWaits, InRange
    <2> DEFINE k == r.kind
    <2>1. k \in Feed!Kinds /\ Valid(r)
      BY <1>12, RowIs
    <2>2. \A i \in 1..Len(v4) : v4[i] # r
      BY <1>16
    <2>3. \A c \in v3 : Feed!Before(c, r)
      <3>1. CASE v2 = -1
        <4>1. v3 = {}
          BY <3>1 DEF ActivityInv, ActivityStates, ActivityShown
        <4> QED
          BY <4>1
      <3>2. CASE v2 # -1
        BY <1>3, <2>2, <3>2 DEF ActivityInv, ActivityWaits
      <3> QED
        BY <3>1, <3>2
    <2>4. r \in Feed!Found(k, t)
      BY <1>3, <2>1, <2>3, FoundIs
    <2>5. r \notin N
      <3> SUFFICES ASSUME r \in N PROVE FALSE
        OBVIOUS
      <3>1. PICK i \in 1..Len(P) : P[i] = r
        BY <1>10
      <3> QED
        BY <1>16, <3>1
    <2>6. CASE r \in I
      <3>1. N # {}
        BY <1>8, <2>6
      <3>2. N # I /\ IsFiniteSet(I) /\ N \in SUBSET I
        BY <1>7, <1>8, <2>5, <2>6 DEF Tidy
      <3>3. Cardinality(N) < Cardinality(I)
        BY <1>7, <1>9, <3>2, FS_Subset
      <3>4. P # <<>>
        BY <1>10, <3>1
      <3>5. P[Len(P)] \in N
        BY <1>11, <3>4
      <3>6. Feed!Before(P[Len(P)], r)
        BY <1>8, <2>5, <2>6, <3>5
      <3> QED
        BY <1>4, <1>10, <3>3, <3>4, <3>6
    <2>7. CASE r \notin I
      <3>1. r \notin Feed!Window(k, t)
        <4> SUFFICES ASSUME r \in Feed!Window(k, t) PROVE FALSE
          OBVIOUS
        <4>1. k = "stock_timeline" /\ r \in Feed!Dropped(t)
          BY <1>3, <2>1, <2>7, ItemsAre DEF I
        <4> QED
          BY <1>3, <4>1, ItemsAre
      <3>2. ~(Feed!truncated("stock_timeline", t) /\ Cardinality(Feed!Dropped(t)) > FeedSource - FeedPage)
        BY DEF over
      <3>3. /\ Feed!truncated(k, t)
            /\ \E A \in SUBSET Feed!FeedItems(t) : /\ Cardinality(A) \in Nat /\ Cardinality(A) >= FeedPage
                                               /\ \A y \in A : Feed!Before(y, r)
        BY <1>3, <2>1, <2>4, <3>1, <3>2, LeftOut
      <3>4. PICK A \in SUBSET I : /\ Cardinality(A) \in Nat /\ Cardinality(A) >= FeedPage
                                  /\ \A y \in A : Feed!Before(y, r)
        BY <3>3 DEF I
      <3>5. A # {}
        <4> SUFFICES ASSUME A = {} PROVE FALSE
          OBVIOUS
        <4>1. Cardinality(A) = 0
          BY FS_EmptySet
        <4> QED
          BY <1>6, <3>4, <4>1
      <3>6. N # {}
        BY <1>8, <3>5
      <3>7. P # <<>>
        BY <1>10, <3>6
      <3>8. P[Len(P)] \in N /\ P[Len(P)] \in I
        BY <1>8, <1>11, <3>7
      <3>9. Feed!Before(P[Len(P)], r)
        <4> DEFINE p == P[Len(P)]
        <4> SUFFICES ASSUME ~Feed!Before(p, r) PROVE FALSE
          OBVIOUS
        <4>1. p \in v1 /\ p # r /\ Valid(p)
          BY <1>7, <1>12, <2>7, <3>8
        <4> HIDE DEF p
        <4>2. Feed!Before(r, p)
          BY <2>1, <4>1, BeforeOrders DEF ActivityInv, Tidy
        <4>3. \A y \in A : Valid(y)
          BY <1>7, <1>12
        <4>4. \A y \in A : Feed!Before(y, p)
          BY <2>1, <3>4, <4>1, <4>2, <4>3, BeforeOrders
        <4>5. Cardinality(A) < FeedPage
          BY <1>8, <3>8, <4>4 DEF p
        <4> QED
          BY <1>6, <3>4, <4>5
      <3> QED
        BY <1>4, <2>1, <3>3, <3>7, <3>9
    <2> QED
      BY <2>6, <2>7
  <1> QED
    BY <1>2, <1>21, <1>22, <1>23 DEF ActivityInv

\* The rows there are at first: of each table the first few numbers.
LEMMA NumberedRows ==
  ASSUME NEW k \in Feed!Kinds, NEW n \in Nat, NEW times \in [1..n -> Nat], NEW of,
         \A i \in 1..n : of[i] \in Nat, k = "diary" => \A i \in 1..n : times[i] = Feed!Noon(times[i])
  PROVE  Tidy(Feed!Numbered(k, times, of)) /\ \A r \in Feed!Numbered(k, times, of) : r.kind = k
  <1> DEFINE row(i) == [kind |-> k, id |-> i, time |-> times[i], of |-> of[i]]
             f == [i \in 1..n |-> row(i)]
             T == {row(i) : i \in 1..n}
  <1>1. Feed!Numbered(k, times, of) = T
    BY DEF Feed!Numbered
  <1>2. IsFiniteSet(1..n)
    BY FS_Interval
  <1>3. IsFiniteSet(DOMAIN f) /\ T = {f[i] : i \in DOMAIN f}
    BY <1>2
  <1>4. \A i \in 1..n : Valid(row(i)) /\ row(i).kind = k /\ row(i).id = i
    BY DEF Valid, ActivityRow
  <1>5. \A r \in T : \E i \in 1..n : r = row(i)
    OBVIOUS
  <1> HIDE DEF f, T, row
  <1>6. IsFiniteSet(T)
    BY <1>3, ImagesAre
  <1>7. \A r, q \in T : Feed!Key(r) = Feed!Key(q) => r = q
    BY <1>4, <1>5 DEF Feed!Key
  <1> QED
    BY <1>1, <1>4, <1>5, <1>6, <1>7 DEF Tidy

LEMMA TidyJoin ==
  ASSUME NEW S, NEW T, Tidy(S), Tidy(T), \A r \in S, q \in T : r.kind # q.kind
  PROVE  Tidy(S \cup T)
  <1>1. IsFiniteSet(S \cup T)
    BY FS_Union DEF Tidy
  <1>2. \A r \in S, q \in T : Feed!Key(r) # Feed!Key(q)
    BY DEF Feed!Key
  <1> QED
    BY <1>1, <1>2 DEF Tidy

LEMMA ActivityStarts == Feed!Init => ActivityInv
  <1> SUFFICES ASSUME Feed!Init PROVE ActivityInv
    OBVIOUS
  <1>1. /\ v2 = -1 /\ v3 = {} /\ v4 = <<>> /\ v5 = TRUE /\ v6 = {} /\ v7 = FALSE
    BY DEF Feed!Init
  <1>2. PICK d \in Feed!Column(Feed!Noons, MaxFeedRows) :
        \E v \in Feed!Column(FeedTimes, MaxFeedRows - Len(d)) :
        \E s \in Feed!Column(FeedTimes, MaxFeedRows - Len(d) - Len(v)) :
        \E t \in Feed!Column(FeedTimes, MaxFeedRows - Len(d) - Len(v) - Len(s)) :
        \E of \in [DOMAIN s -> {0} \cup DOMAIN d] :
          v1 = Feed!Numbered("diary", d, Feed!Alone(d)) \cup Feed!Numbered("thesis_review", v, Feed!Alone(v))
                 \cup Feed!Numbered("stock_timeline", s, of) \cup Feed!Numbered("thesis", t, Feed!Alone(t))
    BY DEF Feed!Init
  <1>3. PICK v \in Feed!Column(FeedTimes, MaxFeedRows - Len(d)) :
        \E s \in Feed!Column(FeedTimes, MaxFeedRows - Len(d) - Len(v)) :
        \E t \in Feed!Column(FeedTimes, MaxFeedRows - Len(d) - Len(v) - Len(s)) :
        \E of \in [DOMAIN s -> {0} \cup DOMAIN d] :
          v1 = Feed!Numbered("diary", d, Feed!Alone(d)) \cup Feed!Numbered("thesis_review", v, Feed!Alone(v))
                 \cup Feed!Numbered("stock_timeline", s, of) \cup Feed!Numbered("thesis", t, Feed!Alone(t))
    BY <1>2
  <1>4. PICK s \in Feed!Column(FeedTimes, MaxFeedRows - Len(d) - Len(v)) :
        \E t \in Feed!Column(FeedTimes, MaxFeedRows - Len(d) - Len(v) - Len(s)) :
        \E of \in [DOMAIN s -> {0} \cup DOMAIN d] :
          v1 = Feed!Numbered("diary", d, Feed!Alone(d)) \cup Feed!Numbered("thesis_review", v, Feed!Alone(v))
                 \cup Feed!Numbered("stock_timeline", s, of) \cup Feed!Numbered("thesis", t, Feed!Alone(t))
    BY <1>3
  <1>5. PICK t \in Feed!Column(FeedTimes, MaxFeedRows - Len(d) - Len(v) - Len(s)),
             of \in [DOMAIN s -> {0} \cup DOMAIN d] :
          v1 = Feed!Numbered("diary", d, Feed!Alone(d)) \cup Feed!Numbered("thesis_review", v, Feed!Alone(v))
                 \cup Feed!Numbered("stock_timeline", s, of) \cup Feed!Numbered("thesis", t, Feed!Alone(t))
    BY <1>4
  <1> DEFINE A == Feed!Numbered("diary", d, Feed!Alone(d))
             B == Feed!Numbered("thesis_review", v, Feed!Alone(v))
             C == Feed!Numbered("stock_timeline", s, of)
             D == Feed!Numbered("thesis", t, Feed!Alone(t))
  <1>6. v1 = ((A \cup B) \cup C) \cup D
    BY <1>5
  <1>7. \A S, n : \A q \in Feed!Column(S, n) : \E m \in 0..n : q \in [1..m -> S]
    BY DEF Feed!Column
  <1>8. PICK m \in 0..MaxFeedRows : d \in [1..m -> Feed!Noons]
    BY <1>7
  <1>9. m \in Nat /\ d \in [1..m -> Nat] /\ \A i \in 1..m : d[i] = Feed!Noon(d[i])
    <2>1. \A n \in Feed!Noons : n \in Nat /\ n = Feed!Noon(n)
      BY ListsAssumption DEF Feed!Noons
    <2>2. \A i \in 1..m : d[i] \in Feed!Noons
      BY <1>8
    <2>3. d \in [1..m -> Nat]
      BY <1>8, <2>1, <2>2
    <2> QED
      BY <1>8, <2>1, <2>2, <2>3
  <1>10. PICK vm \in 0..(MaxFeedRows - Len(d)) : v \in [1..vm -> FeedTimes]
    BY <1>7
  <1>11. PICK sm \in 0..(MaxFeedRows - Len(d) - Len(v)) : s \in [1..sm -> FeedTimes]
    BY <1>7
  <1>12. PICK tm \in 0..(MaxFeedRows - Len(d) - Len(v) - Len(s)) : t \in [1..tm -> FeedTimes]
    BY <1>7
  <1>13. vm \in Nat /\ sm \in Nat /\ tm \in Nat
    OBVIOUS
  <1>14. v \in [1..vm -> Nat] /\ s \in [1..sm -> Nat] /\ t \in [1..tm -> Nat]
    BY <1>10, <1>11, <1>12, ListsAssumption
  <1>15. \A n \in Nat : \A q \in [1..n -> Nat] : \A i \in 1..n : Feed!Alone(q)[i] \in Nat
    BY DEF Feed!Alone
  <1>16. \A i \in 1..sm : of[i] \in Nat
    <2>1. DOMAIN s = 1..sm /\ DOMAIN d = 1..m
      BY <1>8, <1>11
    <2>2. \A i \in 1..sm : of[i] \in {0} \cup 1..m
      BY <2>1
    <2> QED
      BY <1>9, <2>2
  <1>16a. {"diary", "thesis_review", "stock_timeline", "thesis"} \subseteq Feed!Kinds
    BY KindsAre
  <1>17. Tidy(A) /\ \A r \in A : r.kind = "diary"
    <2>1. \A i \in 1..m : Feed!Alone(d)[i] \in Nat
      BY <1>9, <1>15
    <2> QED
      BY <1>9, <1>16a, <2>1, NumberedRows
  <1>18. Tidy(B) /\ \A r \in B : r.kind = "thesis_review"
    <2>1. \A i \in 1..vm : Feed!Alone(v)[i] \in Nat
      BY <1>13, <1>14, <1>15
    <2> QED
      BY <1>13, <1>14, <1>16a, <2>1, NumberedRows
  <1>19. Tidy(C) /\ \A r \in C : r.kind = "stock_timeline"
    BY <1>13, <1>14, <1>16, <1>16a, NumberedRows
  <1>20. Tidy(D) /\ \A r \in D : r.kind = "thesis"
    <2>1. \A i \in 1..tm : Feed!Alone(t)[i] \in Nat
      BY <1>13, <1>14, <1>15
    <2> QED
      BY <1>13, <1>14, <1>16a, <2>1, NumberedRows
  <1> HIDE DEF A, B, C, D
  <1>21. Tidy(A \cup B)
    BY <1>17, <1>18, TidyJoin
  <1>22. Tidy((A \cup B) \cup C)
    BY <1>17, <1>18, <1>19, <1>21, TidyJoin
  <1>23. Tidy(v1)
    BY <1>6, <1>17, <1>18, <1>19, <1>20, <1>22, TidyJoin
  <1>24. ActivityStates
    BY <1>1, FS_EmptySet DEF ActivityStates
  <1>25. ActivityShown
    BY <1>1 DEF ActivityShown
  <1>26. ActivityWaits
    BY <1>1 DEF ActivityWaits
  <1> QED
    BY <1>23, <1>24, <1>25, <1>26 DEF ActivityInv

LEMMA ActivityKept == ActivityInv /\ [Feed!Next]_(Feed!vars) => ActivityInv'
  <1> SUFFICES ASSUME ActivityInv, [Feed!Next]_(Feed!vars) PROVE ActivityInv'
    OBVIOUS
  <1>1. CASE UNCHANGED Feed!vars
    BY <1>1 DEF Feed!vars, ActivityInv, ActivityStates, ActivityShown, ActivityWaits, InRange
  <1>2. CASE Feed!Next
    <2>1. \A of \in {0} \cup Feed!Ids("diary") : of \in Nat
      <3>1. \A e \in v6 : e[2] \in Nat
        BY DEF ActivityInv, ActivityStates
      <3>2. \A r \in v1 : Feed!Key(r)[2] \in Nat
        BY RowIs DEF ActivityInv, Tidy, Feed!Key
      <3> QED
        BY <3>1, <3>2 DEF Feed!Ids
    <2> QED
      BY <1>2, <2>1, PageKeeps, SaveDiaryKeeps, SaveThesisKeeps, ReviewWritten, UpsertKeeps,
         DeleteDiaryKeeps DEF Feed!Next
  <1> QED
    BY <1>1, <1>2

LEMMA ActivityHolds == ActivityInv => Feed!FeedIsWhole
  <1> SUFFICES ASSUME ActivityInv PROVE Feed!FeedIsWhole
    OBVIOUS
  <1>1. DOMAIN v4 = 1..Len(v4)
    BY DEF ActivityInv, ActivityShown
  <1>2. Feed!Range(v4) = {v4[i] : i \in 1..Len(v4)}
    BY <1>1 DEF Feed!Range
  <1> QED
    BY <1>1, <1>2 DEF ActivityInv, ActivityShown, ActivityStates, ActivityWaits, InRange, Feed!FeedIsWhole

-----------------------------------------------------------------------------
(* What the audit rows count. *)

\* A set of numbers has a least one.
LEMMA LeastNat ==
  ASSUME NEW S, S \subseteq Nat, S # {}
  PROVE  \E x \in S : \A y \in S : x <= y
  <1>1. PICK x \in S : \A y \in S : <<y, x>> \notin OpToRel(<, Nat)
    BY NatLessThanWellFounded, WFMin
  <1>2. \A y \in S : ~(y < x)
    BY <1>1 DEF OpToRel
  <1> QED
    BY <1>2

(* Folds over the subsets of a finite set: what they fold first is the     *)
(* element that take gives.                                                *)

Takes(take, S) == \A s \in SUBSET S : s # {} => take[s] \in s

IsFold(g, S, base, take, step) ==
  g = [s \in SUBSET S |-> IF s = {} THEN base ELSE step[<<take[s], g[s \ {take[s]}]>>]]

\* There is one: it is built up by the number of elements.
LEMMA FoldExists ==
  ASSUME NEW S, IsFiniteSet(S), NEW V, NEW base \in V, NEW take, Takes(take, S),
         NEW step \in [S \X V -> V]
  PROVE  \E g \in [SUBSET S -> V] : IsFold(g, S, base, take, step)
  <1> DEFINE Upto(n) == {s \in SUBSET S : Cardinality(s) <= n}
             Good(n, g) ==
               /\ g \in [SUBSET S -> V]
               /\ \A s \in Upto(n) :
                    g[s] = IF s = {} THEN base ELSE step[<<take[s], g[s \ {take[s]}]>>]
             Bad == {n \in Nat : ~\E g : Good(n, g)}
  <1>1. ASSUME NEW s \in SUBSET S
        PROVE  /\ IsFiniteSet(s) /\ Cardinality(s) \in Nat /\ Cardinality(s) <= Cardinality(S)
               /\ Cardinality(s) = 0 <=> s = {}
               /\ s # {} => /\ take[s] \in S /\ s \ {take[s]} \in SUBSET S
                            /\ Cardinality(s \ {take[s]}) = Cardinality(s) - 1
    <2>1. IsFiniteSet(s) /\ Cardinality(s) <= Cardinality(S)
      BY FS_Subset
    <2>2. Cardinality(s) \in Nat /\ (Cardinality(s) = 0 <=> s = {})
      BY <2>1, FS_CardinalityType, FS_EmptySet
    <2>3. s # {} => take[s] \in s
      BY DEF Takes
    <2>4. s # {} => Cardinality(s \ {take[s]}) = Cardinality(s) - 1
      BY <2>1, <2>3, FS_RemoveElement
    <2> QED
      BY <2>1, <2>2, <2>3, <2>4
  <1>2. \E g : Good(0, g)
    <2> DEFINE g == [s \in SUBSET S |-> base]
    <2>1. ASSUME NEW s \in Upto(0)
          PROVE  s = {}
      <3>1. s \in SUBSET S /\ Cardinality(s) <= 0
        OBVIOUS
      <3>2. Cardinality(s) \in Nat /\ (Cardinality(s) = 0 <=> s = {})
        BY <1>1, <3>1
      <3> QED
        BY <1>1, <3>1, <3>2
    <2>2. Good(0, g)
      BY <2>1
    <2> QED
      BY <2>2
  <1>3. ASSUME NEW n \in Nat, NEW g, Good(n, g)
        PROVE  \E h : Good(n + 1, h)
    <2> DEFINE h == [s \in SUBSET S |->
                       IF s \in Upto(n) THEN g[s] ELSE step[<<take[s], g[s \ {take[s]}]>>]]
    <2>1. ASSUME NEW s \in SUBSET S
          PROVE  h[s] \in V
      <3>1. CASE s \in Upto(n)
        BY <1>3, <3>1
      <3>2. CASE s \notin Upto(n)
        <4>1. s # {}
          BY <1>1, <3>2
        <4>2. <<take[s], g[s \ {take[s]}]>> \in S \X V
          BY <1>1, <1>3, <4>1
        <4> QED
          BY <3>2, <4>2
      <3> QED
        BY <3>1, <3>2
    <2>2. h \in [SUBSET S -> V]
      BY <2>1
    <2>3. ASSUME NEW s \in Upto(n + 1)
          PROVE  h[s] = IF s = {} THEN base ELSE step[<<take[s], h[s \ {take[s]}]>>]
      <3>1. s \in SUBSET S /\ Cardinality(s) <= n + 1
        OBVIOUS
      <3>2. CASE s = {}
        <4>1. Cardinality(s) = 0
          BY <1>1, <3>1, <3>2
        <4>2. s \in Upto(n)
          BY <1>3, <3>1, <4>1
        <4> QED
          BY <1>3, <3>2, <4>2
      <3>3. CASE s # {}
        <4> DEFINE t == s \ {take[s]}
        <4>1. t \in SUBSET S /\ Cardinality(t) = Cardinality(s) - 1 /\ Cardinality(s) \in Nat
          BY <1>1, <3>1, <3>3
        <4>2. t \in Upto(n)
          BY <3>1, <4>1
        <4>3. h[t] = g[t]
          BY <4>2
        <4>4. h[s] = step[<<take[s], g[t]>>]
          <5>1. CASE s \in Upto(n)
            BY <1>3, <3>3, <5>1
          <5>2. CASE s \notin Upto(n)
            BY <3>1, <5>2
          <5> QED
            BY <5>1, <5>2
        <4> QED
          BY <3>3, <4>3, <4>4
      <3> QED
        BY <3>2, <3>3
    <2>4. Good(n + 1, h)
      BY <2>2, <2>3
    <2> QED
      BY <2>4
  <1>4. Bad = {}
    <2> SUFFICES ASSUME Bad # {}
                 PROVE  FALSE
      OBVIOUS
    <2>1. PICK n \in Bad : \A k \in Bad : n <= k
      <3>1. Bad \subseteq Nat
        OBVIOUS
      <3> QED
        BY <3>1, LeastNat
    <2> HIDE DEF Good
    <2>2. n # 0
      <3>1. ~\E g : Good(n, g)
        OBVIOUS
      <3> HIDE DEF Bad
      <3> QED
        BY <1>2, <3>1
    <2> HIDE DEF Bad
    <2>3. n - 1 \in Nat /\ n - 1 \notin Bad
      <3>1. n \in Nat /\ n - 1 < n
        BY DEF Bad
      <3>2. ASSUME n - 1 \in Bad PROVE FALSE
        <4>1. n <= n - 1
          BY <2>1, <3>2
        <4> QED
          BY <3>1, <4>1
      <3> QED
        BY <2>2, <3>1, <3>2
    <2>4. PICK g : Good(n - 1, g)
      BY <2>3 DEF Bad
    <2>5. \E h : Good((n - 1) + 1, h)
      BY <1>3, <2>3, <2>4
    <2>6. (n - 1) + 1 = n /\ n \in Nat
      BY <2>3 DEF Bad
    <2> QED
      BY <2>1, <2>5, <2>6 DEF Bad
  <1>5. Cardinality(S) \in Nat
    BY FS_CardinalityType
  <1>6. PICK g : Good(Cardinality(S), g)
    BY <1>4, <1>5
  <1>7. Upto(Cardinality(S)) = SUBSET S
    BY <1>1
  <1>8. \A s \in SUBSET S :
          g[s] = IF s = {} THEN base ELSE step[<<take[s], g[s \ {take[s]}]>>]
    BY <1>6, <1>7
  <1>9. g \in [SUBSET S -> V]
    BY <1>6
  <1> HIDE DEF Good, Upto, Bad
  <1> QED
    BY <1>8, <1>9 DEF IsFold

\* Of the sets of a family one has the fewest elements.
LEMMA FewestElements ==
  ASSUME NEW D, IsFiniteSet(D), NEW F, F \subseteq SUBSET D, F # {}
  PROVE  \E s \in F : /\ IsFiniteSet(s) /\ s \subseteq D
                      /\ \A x \in s : s \ {x} \notin F
  <1> DEFINE C == {Cardinality(s) : s \in F}
  <1>1. \A s \in F : IsFiniteSet(s) /\ Cardinality(s) \in Nat
    BY FS_Subset, FS_CardinalityType
  <1>2. C \subseteq Nat /\ C # {}
    BY <1>1
  <1>3. PICK c \in C : \A d \in C : c <= d
    BY <1>2, LeastNat
  <1>4. PICK s \in F : c = Cardinality(s)
    OBVIOUS
  <1>5. ASSUME NEW x \in s, s \ {x} \in F
        PROVE  FALSE
    <2>1. Cardinality(s \ {x}) = Cardinality(s) - 1
      BY <1>1, FS_RemoveElement
    <2>2. Cardinality(s) <= Cardinality(s \ {x})
      BY <1>3, <1>4, <1>5
    <2> QED
      BY <1>1, <2>1, <2>2
  <1> QED
    BY <1>1, <1>5

Some(s) == CHOOSE x \in s : TRUE

\* Audit rows that can be counted, as any of them can.
AreCounted(S) == IsFiniteSet(S) /\ \A a \in S : a.children \in Nat

LEMMA CountedPart ==
  ASSUME NEW S, AreCounted(S), NEW s \in SUBSET S
  PROVE  AreCounted(s)
  BY FS_Subset DEF AreCounted

IsSum(it, S) ==
  it = [s \in SUBSET S |->
          IF s = {} THEN 0 ELSE Some(s).children + it[s \ {Some(s)}]]

\* The sum that Counted takes: over each of its subsets it has a value.
LEMMA SumExists ==
  ASSUME NEW S, AreCounted(S)
  PROVE  \E it : IsSum(it, S) /\ Merge!Counted(S) = it[S]
  <1> DEFINE take == [s \in SUBSET S |-> Some(s)]
             step == [p \in S \X Nat |-> p[1].children + p[2]]
             iter == CHOOSE it : IsSum(it, S)
  <1>1. IsFiniteSet(S)
    BY DEF AreCounted
  <1>2. \A s \in SUBSET S : s # {} => Some(s) \in s
    BY DEF Some
  <1>3. step \in [S \X Nat -> Nat]
    BY DEF AreCounted
  <1>4. Takes(take, S)
    BY <1>2 DEF Takes
  <1>5. PICK g \in [SUBSET S -> Nat] : IsFold(g, S, 0, take, step)
    <2> HIDE DEF take, step
    <2> QED
      BY <1>1, <1>3, <1>4, FoldExists
  <1>6. IsSum(g, S)
    <2>1. ASSUME NEW s \in SUBSET S, s # {}
          PROVE  step[<<take[s], g[s \ {take[s]}]>>] = Some(s).children + g[s \ {Some(s)}]
      <3>1. take[s] = Some(s) /\ Some(s) \in S /\ g[s \ {Some(s)}] \in Nat
        BY <1>2, <2>1
      <3> HIDE DEF take
      <3> QED
        BY <3>1
    <2>2. \A s \in SUBSET S : (IF s = {} THEN 0 ELSE step[<<take[s], g[s \ {take[s]}]>>])
                            = (IF s = {} THEN 0 ELSE Some(s).children + g[s \ {Some(s)}])
      <3> HIDE DEF step, take
      <3> QED
        BY <2>1
    <2> HIDE DEF step, take
    <2> QED
      BY <1>5, <2>2 DEF IsFold, IsSum
  <1>7. IsSum(iter, S)
    BY <1>6
  <1>8. Merge!Counted(S) = iter[S]
    BY DEF Merge!Counted, Merge!MapThenSumSet, Merge!MapThenFoldSet, IsSum, Some
  <1> QED
    BY <1>7, <1>8

\* Counted takes one of the elements, and then the others.
LEMMA CountedStep ==
  ASSUME NEW S, AreCounted(S)
  PROVE  /\ S = {} => Merge!Counted(S) = 0
         /\ S # {} => Some(S) \in S /\ Merge!Counted(S) = Some(S).children + Merge!Counted(S \ {Some(S)})
  <1>1. PICK it : IsSum(it, S) /\ Merge!Counted(S) = it[S]
    BY SumExists
  <1>2. CASE S = {}
    BY <1>1, <1>2 DEF IsSum
  <1>3. CASE S # {}
    <2> DEFINE T == S \ {Some(S)}
    <2>1. Some(S) \in S
      BY <1>3 DEF Some
    <2>2. PICK jt : IsSum(jt, T) /\ Merge!Counted(T) = jt[T]
      <3>1. AreCounted(T)
        BY CountedPart
      <3> HIDE DEF T
      <3> QED
        BY <3>1, SumExists
    <2> DEFINE F == {s \in SUBSET T : it[s] # jt[s]}
    <2>3. F = {}
      <3> SUFFICES ASSUME F # {}
                   PROVE  FALSE
        OBVIOUS
      <3>1. F \subseteq SUBSET T /\ IsFiniteSet(T) /\ F # {}
        BY FS_Subset DEF AreCounted
      <3> HIDE DEF F, T
      <3>a. \E s \in F : /\ IsFiniteSet(s) /\ s \subseteq T
                          /\ \A x \in s : s \ {x} \notin F
        BY <3>1, FewestElements
      <3>2. PICK s \in F : s \subseteq T /\ \A x \in s : s \ {x} \notin F
        BY <3>a
      <3>3. s \in SUBSET T /\ s \in SUBSET S
        BY <3>2 DEF T
      <3>4. CASE s = {}
        <4>1. it[s] = 0 /\ jt[s] = 0
          BY <1>1, <2>2, <3>3, <3>4 DEF IsSum
        <4> QED
          BY <4>1 DEF F
      <3>5. CASE s # {}
        <4>1. Some(s) \in s
          BY <3>5 DEF Some
        <4>2. it[s \ {Some(s)}] = jt[s \ {Some(s)}]
          BY <3>2, <3>3, <4>1 DEF F
        <4>3. it[s] = Some(s).children + it[s \ {Some(s)}]
          BY <1>1, <3>3, <3>5 DEF IsSum
        <4>4. jt[s] = Some(s).children + jt[s \ {Some(s)}]
          BY <2>2, <3>3, <3>5 DEF IsSum
        <4> QED
          BY <4>2, <4>3, <4>4 DEF F
      <3> QED
        BY <3>4, <3>5
    <2>4. it[T] = jt[T]
      BY <2>3
    <2>5. it[S] = Some(S).children + it[T]
      BY <1>1, <1>3 DEF IsSum
    <2> QED
      BY <1>1, <1>3, <2>1, <2>2, <2>4, <2>5
  <1> QED
    BY <1>2, <1>3

LEMMA CountedType ==
  ASSUME NEW S, AreCounted(S)
  PROVE  Merge!Counted(S) \in Nat
  <1> DEFINE F == {s \in SUBSET S : Merge!Counted(s) \notin Nat}
  <1>1. F = {}
    <2> SUFFICES ASSUME F # {}
                 PROVE  FALSE
      OBVIOUS
    <2>1. F \subseteq SUBSET S /\ IsFiniteSet(S)
      BY DEF AreCounted
    <2> HIDE DEF F
    <2>2. PICK s \in F : s \subseteq S /\ \A x \in s : s \ {x} \notin F
      BY <2>1, FewestElements
    <2>3. CASE s = {}
      <3>1. Merge!Counted(s) = 0
        BY <2>2, <2>3, CountedPart, CountedStep
      <3> QED
        BY <3>1 DEF F
    <2>4. CASE s # {}
      <3>1. Some(s) \in s /\ Merge!Counted(s) = Some(s).children + Merge!Counted(s \ {Some(s)})
        BY <2>2, <2>4, CountedPart, CountedStep
      <3>2. Merge!Counted(s \ {Some(s)}) \in Nat
        BY <2>2, <3>1 DEF F
      <3>3. Some(s).children \in Nat
        BY <2>2, <3>1 DEF AreCounted
      <3> QED
        BY <3>1, <3>2, <3>3 DEF F
    <2> QED
      BY <2>3, <2>4
  <1> QED
    BY <1>1

\* Whatever it takes first, an element adds what it has.
LEMMA CountedRemoves ==
  ASSUME NEW S, AreCounted(S), NEW i \in S
  PROVE  Merge!Counted(S) = Merge!Counted(S \ {i}) + i.children
  <1> DEFINE F == {s \in SUBSET S : \E y \in s : Merge!Counted(s) # Merge!Counted(s \ {y}) + y.children}
  <1>1. F = {}
    <2> SUFFICES ASSUME F # {}
                 PROVE  FALSE
      OBVIOUS
    <2>1. F \subseteq SUBSET S /\ IsFiniteSet(S)
      BY DEF AreCounted
    <2> HIDE DEF F
    <2>2. PICK s \in F : s \subseteq S /\ \A x \in s : s \ {x} \notin F
      BY <2>1, FewestElements
    <2>3. PICK y \in s : Merge!Counted(s) # Merge!Counted(s \ {y}) + y.children
      BY DEF F
    <2> DEFINE x == Some(s)
    <2>4. x \in s /\ Merge!Counted(s) = x.children + Merge!Counted(s \ {x})
      BY <2>2, <2>3, CountedPart, CountedStep
    <2> HIDE DEF x
    <2>5. \A t \in SUBSET S : Merge!Counted(t) \in Nat
      BY CountedPart, CountedType
    <2>6. x.children \in Nat /\ y.children \in Nat
      BY <2>2, <2>3, <2>4 DEF AreCounted
    <2>7. x # y
      <3>1. Merge!Counted(s \ {x}) \in Nat /\ Merge!Counted(s \ {y}) \in Nat
        BY <2>2, <2>5
      <3>2. x = y => Merge!Counted(s) = Merge!Counted(s \ {y}) + y.children
        BY <2>4, <2>6, <3>1
      <3> QED
        BY <2>3, <3>2
    <2>8. Merge!Counted(s \ {x}) = Merge!Counted((s \ {x}) \ {y}) + y.children
      <3>1. s \ {x} \in SUBSET S /\ s \ {x} \notin F /\ y \in s \ {x}
        BY <2>2, <2>3, <2>4, <2>7
      <3> QED
        BY <3>1 DEF F
    <2>9. Merge!Counted(s \ {y}) = Merge!Counted((s \ {y}) \ {x}) + x.children
      <3>1. s \ {y} \in SUBSET S /\ s \ {y} \notin F /\ x \in s \ {y}
        BY <2>2, <2>3, <2>4, <2>7
      <3> QED
        BY <3>1 DEF F
    <2>10. (s \ {x}) \ {y} = (s \ {y}) \ {x} /\ (s \ {x}) \ {y} \in SUBSET S
      BY <2>2
    <2>11. Merge!Counted((s \ {x}) \ {y}) \in Nat
      BY <2>5, <2>10
    <2>12. \A a, b, n \in Nat : a + (n + b) = (n + a) + b
      OBVIOUS
    <2>13. Merge!Counted(s) = x.children + (Merge!Counted((s \ {x}) \ {y}) + y.children)
      BY <2>4, <2>8
    <2>14. Merge!Counted(s \ {y}) + y.children = (Merge!Counted((s \ {x}) \ {y}) + x.children) + y.children
      BY <2>9, <2>10
    <2> QED
      BY <2>3, <2>6, <2>11, <2>12, <2>13, <2>14
  <1> QED
    BY <1>1


-----------------------------------------------------------------------------
(* The reconciliation of duplicate diaries. *)

LEMMA MergeCardinality == ASSUME NEW S PROVE Merge!Cardinality(S) = Cardinality(S)
  BY DEF Merge!Cardinality, Cardinality

AuditRow == [day : MergeDays, canonical : MergeIds, merged : MergeIds, children : Nat]

\* What is in a diary, and of whom.
DiariesHold ==
  /\ v1 = [i \in DOMAIN v1 |-> v1[i]] /\ DOMAIN v1 \subseteq MergeIds
  /\ \A i \in DOMAIN v1 :
       /\ v1[i] \in Merge!Diary /\ i \in v1[i].texts
       /\ v1[i].texts = v1[i].children
       /\ v1[i].stocks = UNION {v8[j] : j \in v1[i].texts}
  /\ \A i, j \in DOMAIN v1 : i # j => v1[i].texts \cap v1[j].texts = {}
  /\ v8 \in [MergeIds -> SUBSET MergeStocks]
  /\ \A i \in MergeIds \ Merge!Known : v8[i] = {}

\* A text that nobody deleted is in some diary, and no other is.
TextsKnown == \A i \in MergeIds : i \in Merge!Known \ v5 <=> \E j \in DOMAIN v1 : i \in v1[j].texts

GivenTo(i) == {a \in v2 : a.canonical = i}

\* The audit rows of a diary count what it was given.
AuditsHold ==
  /\ IsFiniteSet(v2) /\ v2 \subseteq AuditRow /\ v5 \subseteq MergeIds
  /\ \A a \in v2 : a.merged \notin DOMAIN v1 /\ a.canonical \in Merge!Known
  /\ \A a, b \in v2 : a.merged = b.merged => a = b
  /\ \A i \in DOMAIN v1 :
       /\ Cardinality(v1[i].children) = 1 + Merge!Counted(GivenTo(i))
       /\ \A a \in GivenTo(i) : a.day = v1[i].day

\* Two diaries of one day that were there when the run loaded are in a group
\* that is still to be merged.
GroupsHold ==
  /\ \A g \in v3 : g \subseteq MergeIds /\ g # {}
  /\ v7 \in BOOLEAN /\ (v7 => v3 = {})
  /\ v3 # {} \/ v7 =>
       \A i, j \in DOMAIN v1 : i # j /\ v1[i].day = v1[j].day =>
         \/ i \in v6 \/ j \in v6
         \/ \E g \in v3 : i \in g /\ j \in g

MergeInv == DiariesHold /\ TextsKnown /\ AuditsHold /\ GroupsHold

-----------------------------------------------------------------------------
LEMMA KnownIs ==
  \A i : i \in Merge!Known <=> i \in DOMAIN v1 \/ i \in v5 \/ \E a \in v2 : a.merged = i
  BY DEF Merge!Known

LEMMA KnownThen ==
  \A i : i \in (Merge!Known)' <=> i \in DOMAIN v1' \/ i \in v5' \/ \E a \in v2' : a.merged = i
  BY DEF Merge!Known

LEMMA FreshIs ==
  ASSUME NEW i \in MergeIds, NEW d \in MergeDays, NEW c \in 1..2, NEW n \in SUBSET MergeStocks
  PROVE  /\ Merge!Fresh(i, d, c, n) \in Merge!Diary
         /\ Merge!Fresh(i, d, c, n).day = d /\ Merge!Fresh(i, d, c, n).created = c
         /\ Merge!Fresh(i, d, c, n).texts = {i} /\ Merge!Fresh(i, d, c, n).children = {i}
         /\ Merge!Fresh(i, d, c, n).stocks = n
  BY DEF Merge!Fresh, Merge!Diary

LEMMA DiaryIs ==
  ASSUME NEW x \in Merge!Diary
  PROVE  /\ x.day \in MergeDays /\ x.created \in 1..2 /\ x.texts \in SUBSET MergeIds
         /\ x.children \in SUBSET MergeIds /\ x.stocks \in SUBSET MergeStocks
         /\ IsFiniteSet(x.texts) /\ IsFiniteSet(x.children) /\ Cardinality(x.children) \in Nat
  <1>1. /\ x.day \in MergeDays /\ x.created \in 1..2 /\ x.texts \in SUBSET MergeIds
        /\ x.children \in SUBSET MergeIds /\ x.stocks \in SUBSET MergeStocks
    BY DEF Merge!Diary
  <1> QED
    BY <1>1, ListsAssumption, FS_Subset, FS_CardinalityType

LEMMA NothingCounts == AreCounted({}) /\ Merge!Counted({}) = 0
  <1>1. AreCounted({})
    BY FS_EmptySet DEF AreCounted
  <1> QED
    BY <1>1, CountedStep

LEMMA GivenCounted ==
  ASSUME AuditsHold, NEW i
  PROVE  AreCounted(GivenTo(i)) /\ Merge!Counted(GivenTo(i)) \in Nat
  <1>1. GivenTo(i) \subseteq v2
    BY DEF GivenTo
  <1>2. AreCounted(GivenTo(i))
    BY <1>1, FS_Subset DEF AuditsHold, AuditRow, AreCounted
  <1> QED
    BY <1>2, CountedType

LEMMA MergeStarts == Merge!Init => MergeInv
  <1> SUFFICES ASSUME Merge!Init PROVE MergeInv
    OBVIOUS
  <1>1. v2 = {} /\ v3 = {} /\ v5 = {} /\ v7 = FALSE
    BY DEF Merge!Init
  <1>2. PICK there \in SUBSET MergeIds :
          /\ v8 \in {f \in [MergeIds -> SUBSET MergeStocks] : \A i \in MergeIds \ there : f[i] = {}}
          /\ \E day \in [there -> MergeDays], created \in [there -> 1..2] :
               v1 = [i \in there |-> Merge!Fresh(i, day[i], created[i], v8[i])]
    BY DEF Merge!Init
  <1>3. PICK day \in [there -> MergeDays], created \in [there -> 1..2] :
          v1 = [i \in there |-> Merge!Fresh(i, day[i], created[i], v8[i])]
    BY <1>2
  <1>4. DOMAIN v1 = there /\ v1 = [i \in DOMAIN v1 |-> v1[i]]
    BY <1>3
  <1>5. \A i : i \in Merge!Known <=> i \in there
    BY <1>1, <1>4, KnownIs
  <1>6. v8 \in [MergeIds -> SUBSET MergeStocks] /\ \A i \in MergeIds \ there : v8[i] = {}
    BY <1>2
  <1>7. ASSUME NEW i \in there
        PROVE  /\ v1[i] \in Merge!Diary /\ v1[i].texts = {i} /\ v1[i].children = {i}
               /\ v1[i].stocks = v8[i]
    <2>1. v1[i] = Merge!Fresh(i, day[i], created[i], v8[i])
      BY <1>3
    <2>2. i \in MergeIds /\ day[i] \in MergeDays /\ created[i] \in 1..2 /\ v8[i] \in SUBSET MergeStocks
      BY <1>6
    <2> QED
      BY <2>1, <2>2, FreshIs
  <1>8. DiariesHold
    <2>1. \A i \in there : v1[i].stocks = UNION {v8[j] : j \in v1[i].texts}
      BY <1>7
    <2>2. \A i, j \in DOMAIN v1 : i # j => v1[i].texts \cap v1[j].texts = {}
      BY <1>4, <1>7
    <2>3. \A i \in MergeIds \ Merge!Known : v8[i] = {}
      BY <1>5, <1>6
    <2>4. \A i \in DOMAIN v1 :
            /\ v1[i] \in Merge!Diary /\ i \in v1[i].texts
            /\ v1[i].texts = v1[i].children
      BY <1>4, <1>7
    <2>4a. \A i \in DOMAIN v1 : v1[i].stocks = UNION {v8[j] : j \in v1[i].texts}
      BY <1>4, <2>1
    <2>5. v8 \in [MergeIds -> SUBSET MergeStocks] /\ DOMAIN v1 \subseteq MergeIds
      BY <1>4, <1>6
    <2> QED
      BY <1>4, <2>2, <2>3, <2>4, <2>4a, <2>5 DEF DiariesHold
  <1>9. TextsKnown
    BY <1>1, <1>4, <1>5, <1>7 DEF TextsKnown
  <1>10. AuditsHold
    <2>1. \A i : GivenTo(i) = {}
      BY <1>1 DEF GivenTo
    <2>2. \A i : Cardinality({i}) = 1
      BY FS_Singleton
    <2>3. \A i \in DOMAIN v1 : Cardinality(v1[i].children) = 1 + Merge!Counted(GivenTo(i))
      <3> TAKE i \in DOMAIN v1
      <3>1. v1[i].children = {i}
        BY <1>4, <1>7
      <3>2. Merge!Counted(GivenTo(i)) = 0
        BY <2>1, NothingCounts
      <3>3. Cardinality(v1[i].children) = 1
        BY <2>2, <3>1
      <3> QED
        BY <3>2, <3>3
    <2>4. IsFiniteSet(v2)
      BY <1>1, FS_EmptySet
    <2> QED
      BY <1>1, <2>1, <2>3, <2>4 DEF AuditsHold
  <1>11. GroupsHold
    BY <1>1 DEF GroupsHold
  <1> QED
    BY <1>8, <1>9, <1>10, <1>11 DEF MergeInv

\* What is not touched by a step.
LEMMA DiariesSame ==
  ASSUME MergeInv, UNCHANGED <<v1, v2, v5, v8>>
  PROVE  DiariesHold' /\ TextsKnown' /\ AuditsHold' /\ (Merge!Known)' = Merge!Known
  <1>1. (Merge!Known)' = Merge!Known
    BY DEF Merge!Known
  <1>2. \A i : (GivenTo(i))' = GivenTo(i)
    BY DEF GivenTo
  <1>3. DiariesHold'
    BY <1>1 DEF MergeInv, DiariesHold
  <1>4. TextsKnown'
    BY <1>1 DEF MergeInv, TextsKnown
  <1>5. AuditsHold'
    BY <1>1, <1>2 DEF MergeInv, AuditsHold
  <1> QED
    BY <1>1, <1>3, <1>4, <1>5

LEMMA LoadKeeps == MergeInv /\ Merge!Load => MergeInv'
  <1> SUFFICES ASSUME MergeInv, Merge!Load PROVE MergeInv'
    OBVIOUS
  <1>1. /\ UNCHANGED <<v1, v2, v5, v8>> /\ v3' = Merge!DuplicateGroups /\ v6' = {} /\ v7' = FALSE
    BY DEF Merge!Load
  <1>2. DiariesHold' /\ TextsKnown' /\ AuditsHold'
    BY <1>1, DiariesSame
  <1>3. DOMAIN v1 \subseteq MergeIds
    BY DEF MergeInv, DiariesHold
  <1>4. ASSUME NEW i \in DOMAIN v1, NEW j \in DOMAIN v1, i # j, v1[i].day = v1[j].day
        PROVE  \E g \in Merge!DuplicateGroups : i \in g /\ j \in g
    <2> DEFINE g == {k \in DOMAIN v1 : v1[k].day = v1[i].day}
    <2>1. i \in g /\ j \in g /\ g \subseteq MergeIds /\ g \in SUBSET DOMAIN v1
      BY <1>3, <1>4
    <2>2. IsFiniteSet(g) /\ Cardinality(g) \in Nat
      BY <2>1, ListsAssumption, FS_Subset, FS_CardinalityType
    <2> HIDE DEF g
    <2>3a. IsFiniteSet({i}) /\ Cardinality({i}) = 1
      BY FS_Singleton
    <2>3b. Cardinality({i} \cup {j}) = 2
      <3>1. j \notin {i}
        BY <1>4
      <3>2. Cardinality({i} \cup {j}) = Cardinality({i}) + 1
        BY <2>3a, <3>1, FS_AddElement
      <3> QED
        BY <2>3a, <3>2
    <2>3. 2 <= Cardinality(g)
      BY <2>1, <2>2, <2>3b, FS_Subset
    <2>4. Merge!Cardinality(g) > 1
      BY <2>2, <2>3, MergeCardinality
    <2> QED
      BY <1>4, <2>1, <2>4 DEF Merge!DuplicateGroups, g
  <1>5. \A g \in Merge!DuplicateGroups : g \subseteq MergeIds /\ g # {}
    BY <1>3 DEF Merge!DuplicateGroups
  <1>6. GroupsHold'
    BY <1>1, <1>4, <1>5 DEF GroupsHold
  <1> QED
    BY <1>2, <1>6 DEF MergeInv

LEMMA StopKeeps == MergeInv /\ Merge!Stop => MergeInv'
  <1> SUFFICES ASSUME MergeInv, Merge!Stop PROVE MergeInv'
    OBVIOUS
  <1>1. /\ UNCHANGED <<v1, v2, v5, v8>> /\ v3 # {} /\ v3' = {} /\ v6' = v6 /\ v7' = v7
    BY DEF Merge!Stop
  <1>2. DiariesHold' /\ TextsKnown' /\ AuditsHold'
    BY <1>1, DiariesSame
  <1>3. GroupsHold'
    BY <1>1 DEF MergeInv, GroupsHold
  <1> QED
    BY <1>2, <1>3 DEF MergeInv

LEMMA CreateKeeps ==
  ASSUME MergeInv, NEW i \in MergeIds, Merge!Create(i)
  PROVE  MergeInv'
  <1>1. /\ i \notin Merge!Known /\ UNCHANGED <<v2, v3, v5, v7, v8>> /\ v6' = v6 \cup {i}
    BY DEF Merge!Create
  <1>2. PICK day \in MergeDays : v1' = [j \in DOMAIN v1 \cup {i} |->
          IF j = i THEN Merge!Fresh(i, day, 2, {}) ELSE v1[j]]
    BY DEF Merge!Create
  <1> DEFINE new == Merge!Fresh(i, day, 2, {})
  <1>3. /\ new \in Merge!Diary /\ new.day = day /\ new.texts = {i} /\ new.children = {i} /\ new.stocks = {}
    BY FreshIs
  <1> HIDE DEF new
  <1>4. /\ DOMAIN v1' = DOMAIN v1 \cup {i} /\ v1'[i] = new /\ v1' = [j \in DOMAIN v1' |-> v1'[j]]
        /\ \A j \in DOMAIN v1 : j # i => v1'[j] = v1[j]
    BY <1>2 DEF new
  <1>5. i \notin DOMAIN v1 /\ i \notin v5 /\ \A a \in v2 : a.merged # i /\ a.canonical # i
    BY <1>1, KnownIs DEF MergeInv, AuditsHold
  <1>6. \A j : j \in (Merge!Known)' <=> j \in Merge!Known \/ j = i
    BY <1>1, <1>4, KnownIs, KnownThen
  <1>7. \A j \in DOMAIN v1 : i \notin v1[j].texts /\ v1'[j] = v1[j]
    BY <1>1, <1>4, <1>5 DEF MergeInv, TextsKnown
  <1>8. DiariesHold'
    <2>1. new.stocks = UNION {v8[j] : j \in new.texts}
      BY <1>1, <1>3 DEF MergeInv, DiariesHold
    <2>2. \A j \in DOMAIN v1' :
            /\ v1'[j] \in Merge!Diary /\ j \in v1'[j].texts
            /\ v1'[j].texts = v1'[j].children
            /\ v1'[j].stocks = UNION {v8[k] : k \in v1'[j].texts}
      <3> SUFFICES ASSUME NEW j \in DOMAIN v1'
                   PROVE  /\ v1'[j] \in Merge!Diary /\ j \in v1'[j].texts
                          /\ v1'[j].texts = v1'[j].children
                          /\ v1'[j].stocks = UNION {v8[k] : k \in v1'[j].texts}
        OBVIOUS
      <3>1. CASE j = i
        BY <1>3, <1>4, <2>1, <3>1
      <3>2. CASE j \in DOMAIN v1
        BY <1>7, <3>2 DEF MergeInv, DiariesHold
      <3> QED
        BY <1>4, <3>1, <3>2
    <2>3. \A j, k \in DOMAIN v1' : j # k => v1'[j].texts \cap v1'[k].texts = {}
      BY <1>3, <1>4, <1>7 DEF MergeInv, DiariesHold
    <2>4. DOMAIN v1' \subseteq MergeIds /\ \A j \in MergeIds : j \notin (Merge!Known)' => v8[j] = {}
      BY <1>4, <1>6 DEF MergeInv, DiariesHold
    <2> QED
      BY <1>1, <1>4, <2>2, <2>3, <2>4 DEF MergeInv, DiariesHold
  <1>9. TextsKnown'
    <2>1. \A j : (\E k \in DOMAIN v1' : j \in v1'[k].texts) <=> j = i \/ \E k \in DOMAIN v1 : j \in v1[k].texts
      BY <1>3, <1>4, <1>7
    <2> QED
      BY <1>1, <1>5, <1>6, <2>1 DEF MergeInv, TextsKnown
  <1>10. AuditsHold'
    <2>1. \A j : (GivenTo(j))' = GivenTo(j)
      BY <1>1 DEF GivenTo
    <2>2. GivenTo(i) = {}
      BY <1>5 DEF GivenTo
    <2>3. Cardinality(v1'[i].children) = 1 + Merge!Counted(GivenTo(i))
      <3>1. Merge!Counted(GivenTo(i)) = 0 /\ v1'[i].children = {i}
        BY <1>3, <1>4, <2>2, NothingCounts
      <3>2. Cardinality({i}) = 1
        BY FS_Singleton
      <3> QED
        BY <3>1, <3>2
    <2>4. \A j \in DOMAIN v1' :
            /\ Cardinality(v1'[j].children) = 1 + Merge!Counted(GivenTo(j))
            /\ \A a \in GivenTo(j) : a.day = v1'[j].day
      BY <1>4, <1>7, <2>2, <2>3 DEF MergeInv, AuditsHold
    <2>5. \A a \in v2 : a.merged \notin DOMAIN v1' /\ a.canonical \in (Merge!Known)'
      BY <1>4, <1>5, <1>6 DEF MergeInv, AuditsHold
    <2> QED
      BY <1>1, <2>1, <2>4, <2>5 DEF MergeInv, AuditsHold
  <1>11. GroupsHold'
    BY <1>1, <1>4 DEF MergeInv, GroupsHold
  <1> QED
    BY <1>8, <1>9, <1>10, <1>11 DEF MergeInv

LEMMA DeleteKeeps ==
  ASSUME MergeInv, NEW i \in MergeIds, Merge!Delete(i)
  PROVE  MergeInv'
  <1>1. /\ i \in DOMAIN v1 /\ UNCHANGED <<v2, v3, v6, v7, v8>> /\ v5' = v5 \cup v1[i].texts
        /\ v1' = [j \in DOMAIN v1 \ {i} |-> v1[j]]
    BY DEF Merge!Delete
  <1>2. /\ DOMAIN v1' = DOMAIN v1 \ {i} /\ v1' = [j \in DOMAIN v1' |-> v1'[j]]
        /\ \A j \in DOMAIN v1' : v1'[j] = v1[j]
    BY <1>1
  <1>3. /\ i \in v1[i].texts /\ v1[i].texts \subseteq MergeIds
        /\ \A j \in DOMAIN v1' : v1[i].texts \cap v1[j].texts = {}
    BY <1>1, <1>2, DiaryIs DEF MergeInv, DiariesHold
  <1>4. \A j \in MergeIds : j \in (Merge!Known)' <=> j \in Merge!Known
    <2>1. \A j \in v1[i].texts : j \in Merge!Known
      BY <1>1, <1>3 DEF MergeInv, TextsKnown
    <2> QED
      BY <1>1, <1>2, <1>3, <2>1, KnownIs, KnownThen
  <1>5. DiariesHold'
    <2>1. DOMAIN v1' \subseteq MergeIds /\ \A j \in MergeIds : j \notin (Merge!Known)' => v8[j] = {}
      BY <1>2, <1>4 DEF MergeInv, DiariesHold
    <2>2. \A j \in DOMAIN v1' :
            /\ v1'[j] \in Merge!Diary /\ j \in v1'[j].texts
            /\ v1'[j].texts = v1'[j].children
            /\ v1'[j].stocks = UNION {v8[k] : k \in v1'[j].texts}
      BY <1>2 DEF MergeInv, DiariesHold
    <2>3. \A j, k \in DOMAIN v1' : j # k => v1'[j].texts \cap v1'[k].texts = {}
      BY <1>2 DEF MergeInv, DiariesHold
    <2> QED
      BY <1>1, <1>2, <2>1, <2>2, <2>3 DEF MergeInv, DiariesHold
  <1>6. TextsKnown'
    <2>1. \A j : (\E k \in DOMAIN v1' : j \in v1'[k].texts)
                 <=> j \notin v1[i].texts /\ \E k \in DOMAIN v1 : j \in v1[k].texts
      BY <1>1, <1>2, <1>3
    <2> QED
      BY <1>1, <1>4, <2>1 DEF MergeInv, TextsKnown
  <1>7. AuditsHold'
    <2>1. \A j : (GivenTo(j))' = GivenTo(j)
      BY <1>1 DEF GivenTo
    <2>2. \A a \in v2 : a.canonical \in MergeIds
      BY DEF MergeInv, AuditsHold, AuditRow
    <2>3. \A a \in v2 : a.merged \notin DOMAIN v1' /\ a.canonical \in (Merge!Known)'
      BY <1>2, <1>4, <2>2 DEF MergeInv, AuditsHold
    <2>4. v5' \subseteq MergeIds
      BY <1>1, <1>3 DEF MergeInv, AuditsHold
    <2>5. \A j \in DOMAIN v1' :
            /\ Cardinality(v1'[j].children) = 1 + Merge!Counted(GivenTo(j))
            /\ \A a \in GivenTo(j) : a.day = v1'[j].day
      BY <1>2 DEF MergeInv, AuditsHold
    <2> QED
      BY <1>1, <2>1, <2>3, <2>4, <2>5 DEF MergeInv, AuditsHold
  <1>8. GroupsHold'
    BY <1>1, <1>2 DEF MergeInv, GroupsHold
  <1> QED
    BY <1>5, <1>6, <1>7, <1>8 DEF MergeInv

LEMMA NameKeeps ==
  ASSUME MergeInv, NEW i \in MergeIds, NEW n \in MergeStocks, Merge!Name(i, n)
  PROVE  MergeInv'
  <1>1. /\ i \in DOMAIN v1 /\ UNCHANGED <<v2, v3, v5, v6, v7>>
        /\ v1' = [v1 EXCEPT ![i].stocks = @ \cup {n}]
        /\ v8' = [v8 EXCEPT ![i] = @ \cup {n}]
    BY DEF Merge!Name
  <1>2. v1[i] \in Merge!Diary /\ v8 \in [MergeIds -> SUBSET MergeStocks] /\ v1 = [j \in DOMAIN v1 |-> v1[j]]
    BY <1>1 DEF MergeInv, DiariesHold
  <1>3. /\ DOMAIN v1' = DOMAIN v1 /\ v1' = [j \in DOMAIN v1' |-> v1'[j]]
        /\ v1'[i] = [v1[i] EXCEPT !.stocks = @ \cup {n}]
        /\ \A j \in DOMAIN v1 : j # i => v1'[j] = v1[j]
    BY <1>1, <1>2
  <1>4. /\ v1'[i] \in Merge!Diary /\ v1'[i].day = v1[i].day /\ v1'[i].texts = v1[i].texts
        /\ v1'[i].children = v1[i].children /\ v1'[i].stocks = v1[i].stocks \cup {n}
    BY <1>2, <1>3 DEF Merge!Diary
  <1>5. /\ v8' \in [MergeIds -> SUBSET MergeStocks] /\ v8'[i] = v8[i] \cup {n}
        /\ \A j \in MergeIds : j # i => v8'[j] = v8[j]
    BY <1>1, <1>2
  <1>6. \A j \in DOMAIN v1 : /\ v1'[j].day = v1[j].day /\ v1'[j].texts = v1[j].texts
                             /\ v1'[j].children = v1[j].children
    BY <1>3, <1>4
  <1>7. \A j : j \in (Merge!Known)' <=> j \in Merge!Known
    BY <1>1, <1>3, KnownIs, KnownThen
  <1>8. DiariesHold'
    <2>1. ASSUME NEW j \in DOMAIN v1
          PROVE  v1'[j].stocks = UNION {v8'[k] : k \in v1'[j].texts}
      <3>1. v1[j].stocks = UNION {v8[k] : k \in v1[j].texts} /\ v1[j].texts \subseteq MergeIds
        BY DiaryIs DEF MergeInv, DiariesHold
      <3>2. CASE j = i
        <4>1. i \in v1[i].texts
          BY <1>1 DEF MergeInv, DiariesHold
        <4>2. \A k \in v1[j].texts : v8'[k] = IF k = i THEN v8[k] \cup {n} ELSE v8[k]
          BY <1>5, <3>1
        <4>3. \A x : (\E k \in v1[j].texts : x \in v8'[k])
                     <=> x = n \/ \E k \in v1[j].texts : x \in v8[k]
          BY <3>2, <4>1, <4>2
        <4>4. \A x : x \in UNION {v8'[k] : k \in v1[j].texts} <=> x \in v1[j].stocks \cup {n}
          BY <3>1, <4>3
        <4> QED
          BY <1>4, <3>2, <4>4
      <3>3. CASE j # i
        <4>1. i \notin v1[j].texts
          BY <1>1, <3>3 DEF MergeInv, DiariesHold
        <4>2. \A k \in v1[j].texts : v8'[k] = v8[k]
          BY <1>5, <3>1, <4>1
        <4> QED
          BY <1>3, <3>1, <3>3, <4>2
      <3> QED
        BY <3>2, <3>3
    <2>2. \A j \in DOMAIN v1' :
            /\ v1'[j] \in Merge!Diary /\ j \in v1'[j].texts
            /\ v1'[j].texts = v1'[j].children
            /\ v1'[j].stocks = UNION {v8'[k] : k \in v1'[j].texts}
      BY <1>3, <1>4, <1>6, <2>1 DEF MergeInv, DiariesHold
    <2>3. \A j, k \in DOMAIN v1' : j # k => v1'[j].texts \cap v1'[k].texts = {}
      BY <1>3, <1>6 DEF MergeInv, DiariesHold
    <2>4. i \in Merge!Known
      BY <1>1, KnownIs
    <2>5. DOMAIN v1' \subseteq MergeIds /\ \A j \in MergeIds : j \notin (Merge!Known)' => v8'[j] = {}
      BY <1>3, <1>5, <1>7, <2>4 DEF MergeInv, DiariesHold
    <2> QED
      BY <1>3, <1>5, <2>2, <2>3, <2>5 DEF MergeInv, DiariesHold
  <1>9. TextsKnown'
    BY <1>1, <1>3, <1>6, <1>7 DEF MergeInv, TextsKnown
  <1>10. AuditsHold'
    <2>1. \A j : (GivenTo(j))' = GivenTo(j)
      BY <1>1 DEF GivenTo
    <2>2. \A a \in v2 : a.merged \notin DOMAIN v1' /\ a.canonical \in (Merge!Known)'
      BY <1>3, <1>7 DEF MergeInv, AuditsHold
    <2>3. \A j \in DOMAIN v1' :
            /\ Cardinality(v1'[j].children) = 1 + Merge!Counted(GivenTo(j))
            /\ \A a \in GivenTo(j) : a.day = v1'[j].day
      BY <1>3, <1>6 DEF MergeInv, AuditsHold
    <2> QED
      BY <1>1, <2>1, <2>2, <2>3 DEF MergeInv, AuditsHold
  <1>11. GroupsHold'
    BY <1>1, <1>3, <1>6 DEF MergeInv, GroupsHold
  <1> QED
    BY <1>8, <1>9, <1>10, <1>11 DEF MergeInv

-----------------------------------------------------------------------------
(* The transaction of a group. *)

LEMMA CanonicalIs ==
  ASSUME MergeInv, NEW g, g \subseteq DOMAIN v1, g # {}
  PROVE  Merge!Canonical(g) \in g
  <1> DEFINE First(i) == \A j \in g \ {i} :
               \/ v1[i].created < v1[j].created
               \/ v1[i].created = v1[j].created /\ i < j
  <1>1. g \subseteq Nat /\ \A j \in g : v1[j].created \in Nat
    BY ListsAssumption, DiaryIs DEF MergeInv, DiariesHold
  <1> DEFINE C == {v1[j].created : j \in g}
  <1>2. C \subseteq Nat /\ C # {}
    BY <1>1
  <1>3. PICK c \in C : \A d \in C : c <= d
    BY <1>2, LeastNat
  <1> DEFINE F == {j \in g : v1[j].created = c}
  <1>4. F \subseteq Nat /\ F # {}
    BY <1>1
  <1>5. PICK i \in F : \A j \in F : i <= j
    BY <1>4, LeastNat
  <1>6. \A j \in g : c <= v1[j].created
    BY <1>3
  <1>7. i \in g /\ v1[i].created = c /\ c \in Nat /\ i \in Nat
    BY <1>1, <1>2
  <1>8. First(i)
    BY <1>1, <1>5, <1>6, <1>7
  <1>9. \E h \in g : First(h)
    BY <1>7, <1>8
  <1>10. Merge!Canonical(g) = CHOOSE h \in g : First(h)
    BY DEF Merge!Canonical
  <1> HIDE DEF First
  <1> QED
    BY <1>9, <1>10

\* The audit row of a diary that was merged.
RowOf(i, j) ==
  [day |-> v1[i].day, canonical |-> i, merged |-> j, children |-> Cardinality(v1[j].children)]
RowsFor(i, S) == {RowOf(i, j) : j \in S}

LEMMA RowsAre ==
  ASSUME MergeInv, NEW i \in DOMAIN v1, NEW S, S \subseteq DOMAIN v1
  PROVE  /\ IsFiniteSet(S) /\ IsFiniteSet(RowsFor(i, S)) /\ RowsFor(i, S) \subseteq AuditRow
         /\ \A a : a \in RowsFor(i, S) <=> \E j \in S : a = RowOf(i, j)
         /\ \A j \in S : /\ RowOf(i, j).day = v1[i].day /\ RowOf(i, j).canonical = i
                         /\ RowOf(i, j).merged = j /\ RowOf(i, j).children = Cardinality(v1[j].children)
  <1>1. IsFiniteSet(S) /\ S \subseteq MergeIds /\ i \in MergeIds
    BY ListsAssumption, FS_Subset DEF MergeInv, DiariesHold
  <1>2. \A j \in S : /\ RowOf(i, j).day = v1[i].day /\ RowOf(i, j).canonical = i
                     /\ RowOf(i, j).merged = j /\ RowOf(i, j).children = Cardinality(v1[j].children)
    BY DEF RowOf
  <1>3. \A j \in S : RowOf(i, j) \in AuditRow
    <2> TAKE j \in S
    <2>1. v1[i].day \in MergeDays /\ Cardinality(v1[j].children) \in Nat
      BY DiaryIs DEF MergeInv, DiariesHold
    <2> QED
      BY <1>1, <2>1 DEF RowOf, AuditRow
  <1>4. IsFiniteSet(RowsFor(i, S))
    <2> DEFINE f == [j \in S |-> RowOf(i, j)]
    <2>1. DOMAIN f = S /\ RowsFor(i, S) = {f[j] : j \in DOMAIN f}
      BY DEF RowsFor
    <2> HIDE DEF f
    <2> QED
      BY <1>1, <2>1, ImagesAre
  <1> QED
    BY <1>1, <1>2, <1>3, <1>4 DEF RowsFor

\* What a diary is given is counted by the rows of the diaries it came from.
LEMMA GivenCounts ==
  ASSUME MergeInv, NEW i \in DOMAIN v1, NEW S, S \subseteq DOMAIN v1 \ {i}
  PROVE  LET all == v1[i].children \cup UNION {v1[j].children : j \in S}
         IN  Cardinality(all) = 1 + Merge!Counted(GivenTo(i) \cup RowsFor(i, S))
  <1> DEFINE All(T) == v1[i].children \cup UNION {v1[j].children : j \in T}
             B(T) == GivenTo(i) \cup RowsFor(i, T)
             F == {T \in SUBSET S : Cardinality(All(T)) # 1 + Merge!Counted(B(T))}
  <1>1. F = {}
    <2> SUFFICES ASSUME F # {} PROVE FALSE
      OBVIOUS
    <2>1. F \subseteq SUBSET S /\ IsFiniteSet(S)
      BY RowsAre
    <2> HIDE DEF F
    <2>2a. \E T \in F : /\ IsFiniteSet(T) /\ T \subseteq S
                        /\ \A x \in T : T \ {x} \notin F
      BY <2>1, FewestElements
    <2>2. PICK T \in F : T \subseteq S /\ \A x \in T : T \ {x} \notin F
      BY <2>2a
    <2>3. CASE T = {}
      <3>1. All(T) = v1[i].children /\ B(T) = GivenTo(i)
        BY <2>3 DEF RowsFor
      <3>2. Cardinality(v1[i].children) = 1 + Merge!Counted(GivenTo(i))
        BY DEF MergeInv, AuditsHold
      <3> QED
        BY <3>1, <3>2 DEF F
    <2>4. ASSUME NEW x \in T PROVE FALSE
      <3> DEFINE U == T \ {x}
                 a == RowOf(i, x)
      <3>1. Cardinality(All(U)) = 1 + Merge!Counted(B(U))
        BY <2>2, <2>4 DEF F
      <3>2. All(T) = All(U) \cup v1[x].children
        OBVIOUS
      <3>3. B(T) \ {a} = B(U) /\ a \in B(T) /\ a.children = Cardinality(v1[x].children)
        <4>1. a \in RowsFor(i, T) /\ a.merged = x /\ a.children = Cardinality(v1[x].children)
          BY <2>2, <2>4, RowsAre
        <4>2. a \notin GivenTo(i)
          BY <2>2, <2>4, <4>1 DEF MergeInv, AuditsHold, GivenTo
        <4>3. RowsFor(i, T) \ {a} = RowsFor(i, U)
          <5>1. \A j \in T : RowOf(i, j).merged = j
            BY <2>2, RowsAre
          <5> QED
            BY <5>1 DEF RowsFor
        <4> QED
          BY <4>1, <4>2, <4>3
      <3>4. AreCounted(B(T)) /\ Merge!Counted(B(U)) \in Nat
        <4>1. /\ IsFiniteSet(RowsFor(i, T)) /\ RowsFor(i, T) \subseteq AuditRow
          BY <2>2, RowsAre
        <4>2. \A r \in RowsFor(i, T) : r.children \in Nat
          BY <4>1 DEF AuditRow
        <4>3. AreCounted(GivenTo(i))
          BY GivenCounted DEF MergeInv
        <4>4. AreCounted(B(T))
          BY <4>1, <4>2, <4>3, FS_Union DEF AreCounted
        <4>5. AreCounted(B(U))
          BY <3>3, <4>4, CountedPart
        <4> QED
          BY <4>4, <4>5, CountedType
      <3>5. Merge!Counted(B(T)) = Merge!Counted(B(U)) + Cardinality(v1[x].children)
        BY <3>3, <3>4, CountedRemoves
      <3>6. Cardinality(All(T)) = Cardinality(All(U)) + Cardinality(v1[x].children)
        <4>1. \A j \in DOMAIN v1 : v1[j].children \subseteq MergeIds
          BY DiaryIs DEF MergeInv, DiariesHold
        <4>2. All(U) \subseteq MergeIds /\ v1[x].children \subseteq MergeIds
          BY <2>2, <2>4, <4>1
        <4>3. All(U) \cap v1[x].children = {}
          <5>1. \A j \in DOMAIN v1 : j # x => v1[j].children \cap v1[x].children = {}
            BY <2>2, <2>4 DEF MergeInv, DiariesHold
          <5> QED
            BY <2>2, <2>4, <5>1
        <4> HIDE DEF All
        <4>4. /\ IsFiniteSet(All(U)) /\ IsFiniteSet(v1[x].children)
              /\ Cardinality(All(U)) \in Nat /\ Cardinality(v1[x].children) \in Nat
          BY <4>2, ListsAssumption, FS_Subset, FS_CardinalityType
        <4>5. Cardinality(All(U) \cup v1[x].children) = Cardinality(All(U)) + Cardinality(v1[x].children)
                - Cardinality(All(U) \cap v1[x].children)
          BY <4>4, FS_Union
        <4>6. Cardinality(All(U) \cap v1[x].children) = 0
          BY <4>3, FS_EmptySet
        <4>7. Cardinality(All(U) \cup v1[x].children) = Cardinality(All(U)) + Cardinality(v1[x].children)
          BY <4>4, <4>5, <4>6
        <4> QED
          BY <3>2, <4>7
      <3>7. Cardinality(v1[x].children) \in Nat
        BY <2>2, <2>4, DiaryIs DEF MergeInv, DiariesHold
      <3> HIDE DEF All, B, U
      <3> QED
        BY <2>2, <3>1, <3>4, <3>5, <3>6, <3>7 DEF F
    <2> QED
      BY <2>3, <2>4
  <1> QED
    BY <1>1

\* The diary m has what those of the group have, and the day of i.
HasAll(m, g, i) ==
  /\ m \in Merge!Diary /\ m.day = v1[i].day
  /\ \A k : k \in m.texts <=> \E j \in g : k \in v1[j].texts
  /\ m.texts = m.children
  /\ m.children = v1[i].children \cup UNION {v1[j].children : j \in g \ {i}}
  /\ m.stocks = UNION {v8[k] : k \in m.texts}

LEMMA MergedIs ==
  ASSUME MergeInv, NEW g, g \subseteq DOMAIN v1, NEW i \in g
  PROVE  HasAll(Merge!Merged(g, i), g, i)
  <1> DEFINE m == Merge!Merged(g, i)
             t == UNION {v1[j].texts : j \in g}
             c == UNION {v1[j].children : j \in g}
             n == UNION {v1[j].stocks : j \in g}
  <1>1. m = [v1[i] EXCEPT !.texts = t, !.children = c, !.stocks = n]
    BY DEF Merge!Merged
  <1>2. \A j \in g : /\ v1[j] \in Merge!Diary /\ v1[j].texts = v1[j].children
                     /\ v1[j].texts \in SUBSET MergeIds /\ v1[j].children \in SUBSET MergeIds
                     /\ v1[j].stocks \in SUBSET MergeStocks
                     /\ v1[j].stocks = UNION {v8[k] : k \in v1[j].texts}
    BY DiaryIs DEF MergeInv, DiariesHold
  <1>3. t \in SUBSET MergeIds /\ c \in SUBSET MergeIds /\ n \in SUBSET MergeStocks
    BY <1>2
  <1>4. \A k : k \in t <=> \E j \in g : k \in v1[j].texts
    OBVIOUS
  <1>5. \A k : k \in c <=> \E j \in g : k \in v1[j].children
    OBVIOUS
  <1>6. \A x : x \in n <=> \E j \in g : x \in v1[j].stocks
    OBVIOUS
  <1>7. c = v1[i].children \cup UNION {v1[j].children : j \in g \ {i}}
    OBVIOUS
  <1> HIDE DEF t, c, n
  <1>8. t = c
    BY <1>2, <1>4, <1>5
  <1>9. n = UNION {v8[k] : k \in t}
    <2>1. ASSUME NEW x PROVE x \in n <=> \E k \in t : x \in v8[k]
      <3>1. \A j \in g : x \in v1[j].stocks <=> \E k \in v1[j].texts : x \in v8[k]
        BY <1>2
      <3> QED
        BY <1>4, <1>6, <3>1
    <2> QED
      BY <2>1
  <1>10. m \in Merge!Diary /\ m.day = v1[i].day /\ m.texts = t /\ m.children = c /\ m.stocks = n
    BY <1>1, <1>2, <1>3 DEF Merge!Diary
  <1> HIDE DEF m
  <1>11. HasAll(m, g, i)
    BY <1>4, <1>7, <1>8, <1>9, <1>10 DEF HasAll
  <1> QED
    BY <1>11 DEF m

LEMMA GroupKeeps ==
  ASSUME MergeInv, NEW g \in v3, Merge!reconcileGroup(g)
  PROVE  MergeInv'
  <1> DEFINE i == Merge!Canonical(g)
             m == Merge!Merged(g, i)
             S == g \ {i}
  <1>1. /\ g \subseteq DOMAIN v1 /\ UNCHANGED <<v5, v6, v8>>
        /\ v1' = [j \in (DOMAIN v1 \ g) \cup {i} |-> IF j = i THEN m ELSE v1[j]]
        /\ v3' = v3 \ {g} /\ v7' = (v3 = {g})
    BY DEF Merge!reconcileGroup
  <1>2. v2' = v2 \cup RowsFor(i, S)
    <2>1. v2' = v2 \cup {[day |-> v1[i].day, canonical |-> i, merged |-> j,
                          children |-> Merge!Cardinality(v1[j].children)] : j \in S}
      BY DEF Merge!reconcileGroup
    <2> QED
      BY <2>1, MergeCardinality DEF RowsFor, RowOf
  <1>3. g # {} /\ g \subseteq MergeIds
    BY DEF MergeInv, GroupsHold
  <1>4. i \in g
    BY <1>1, <1>3, CanonicalIs
  <1> HIDE DEF i
  <1>5. /\ m \in Merge!Diary /\ m.day = v1[i].day
        /\ \A k : k \in m.texts <=> \E j \in g : k \in v1[j].texts
        /\ m.texts = m.children
        /\ m.children = v1[i].children \cup UNION {v1[j].children : j \in S}
        /\ m.stocks = UNION {v8[k] : k \in m.texts}
    <2>1. g \subseteq DOMAIN v1
      BY <1>1
    <2>2. HasAll(m, g, i)
      BY <1>4, <2>1, MergedIs
    <2> HIDE DEF m
    <2> QED
      BY <2>2 DEF HasAll
  <1> HIDE DEF m
  <1>6. /\ DOMAIN v1' = (DOMAIN v1 \ g) \cup {i} /\ v1'[i] = m /\ v1' = [j \in DOMAIN v1' |-> v1'[j]]
        /\ \A j \in DOMAIN v1' : j # i => j \in DOMAIN v1 \ g /\ v1'[j] = v1[j]
    BY <1>1
  <1>7. i \in DOMAIN v1 /\ S \subseteq DOMAIN v1 \ {i}
    BY <1>1, <1>4
  <1>8. /\ IsFiniteSet(RowsFor(i, S)) /\ RowsFor(i, S) \subseteq AuditRow
        /\ \A a : a \in RowsFor(i, S) <=> \E j \in S : a = RowOf(i, j)
        /\ \A j \in S : /\ RowOf(i, j).day = v1[i].day /\ RowOf(i, j).canonical = i
                        /\ RowOf(i, j).merged = j
    BY <1>7, RowsAre
  <1> HIDE DEF S
  <1>9. \A j : j \in g <=> j = i \/ j \in S
    BY <1>4 DEF S
  <1>10. \A k : k \in (Merge!Known)' <=> k \in Merge!Known
    <2>1. \A k : (\E a \in v2' : a.merged = k) <=> k \in S \/ \E a \in v2 : a.merged = k
      BY <1>2, <1>8
    <2> QED
      BY <1>1, <1>6, <1>7, <1>9, <2>1, KnownIs, KnownThen
  <1>11. DiariesHold'
    <2>1. DOMAIN v1' \subseteq MergeIds /\ \A k \in MergeIds : k \notin (Merge!Known)' => v8[k] = {}
      BY <1>6, <1>7, <1>10 DEF MergeInv, DiariesHold
    <2>2. i \in m.texts
      BY <1>4, <1>5, <1>7 DEF MergeInv, DiariesHold
    <2>3. ASSUME NEW j \in DOMAIN v1'
          PROVE  /\ v1'[j] \in Merge!Diary /\ j \in v1'[j].texts
                 /\ v1'[j].texts = v1'[j].children
                 /\ v1'[j].stocks = UNION {v8[k] : k \in v1'[j].texts}
      <3>1. CASE j = i
        BY <1>5, <1>6, <2>2, <3>1
      <3>2. CASE j # i
        <4>1. j \in DOMAIN v1 /\ v1'[j] = v1[j]
          BY <1>6, <3>2
        <4> QED
          BY <4>1 DEF MergeInv, DiariesHold
      <3> QED
        BY <3>1, <3>2
    <2>4. \A j \in DOMAIN v1 \ g : m.texts \cap v1[j].texts = {}
      BY <1>1, <1>5 DEF MergeInv, DiariesHold
    <2>5. \A j, k \in DOMAIN v1' : j # k => v1'[j].texts \cap v1'[k].texts = {}
      BY <1>6, <2>4 DEF MergeInv, DiariesHold
    <2>6. v8' = v8 /\ v8 \in [MergeIds -> SUBSET MergeStocks]
      BY <1>1 DEF MergeInv, DiariesHold
    <2> QED
      BY <1>6, <2>1, <2>3, <2>5, <2>6 DEF DiariesHold
  <1>12. TextsKnown'
    <2>1. \A k : (\E j \in DOMAIN v1' : k \in v1'[j].texts) <=> \E j \in DOMAIN v1 : k \in v1[j].texts
      <3>1. \A j \in DOMAIN v1 : j \in g \/ (j \in DOMAIN v1' /\ v1'[j] = v1[j])
        BY <1>4, <1>6
      <3> QED
        BY <1>1, <1>5, <1>6, <3>1
    <2> QED
      BY <1>1, <1>10, <2>1 DEF MergeInv, TextsKnown
  <1>13. AuditsHold'
    <2>1. IsFiniteSet(v2') /\ v2' \subseteq AuditRow /\ v5' \subseteq MergeIds
      BY <1>1, <1>2, <1>8, FS_Union DEF MergeInv, AuditsHold
    <2>2. \A a \in v2' : a.merged \notin DOMAIN v1' /\ a.canonical \in (Merge!Known)'
      <3>1. \A a \in v2 : a.merged \notin DOMAIN v1' /\ a.canonical \in (Merge!Known)'
        BY <1>6, <1>7, <1>10 DEF MergeInv, AuditsHold
      <3>2. i \in Merge!Known /\ \A j \in S : j \notin DOMAIN v1'
        BY <1>6, <1>7, <1>9, KnownIs
      <3> QED
        BY <1>2, <1>8, <1>10, <3>1, <3>2
    <2>3. \A a, b \in v2' : a.merged = b.merged => a = b
      <3>1. \A a, b \in v2 : a.merged = b.merged => a = b
        BY DEF MergeInv, AuditsHold
      <3>2. \A a \in v2 : a.merged \notin S
        BY <1>7 DEF MergeInv, AuditsHold
      <3>3. \A a \in RowsFor(i, S) : a.merged \in S /\ a = RowOf(i, a.merged)
        BY <1>8
      <3> QED
        BY <1>2, <3>1, <3>2, <3>3
    <2>4. ASSUME NEW k \in DOMAIN v1'
          PROVE  /\ Cardinality(v1'[k].children) = 1 + Merge!Counted((GivenTo(k))')
                 /\ \A a \in (GivenTo(k))' : a.day = v1'[k].day
      <3>1. CASE k = i
        <4>1. (GivenTo(k))' = GivenTo(i) \cup RowsFor(i, S)
          BY <1>2, <1>8, <3>1 DEF GivenTo
        <4>2. Cardinality(m.children) = 1 + Merge!Counted(GivenTo(i) \cup RowsFor(i, S))
          BY <1>5, <1>7, GivenCounts
        <4>3. \A a \in GivenTo(i) \cup RowsFor(i, S) : a.day = v1[i].day
          BY <1>7, <1>8 DEF MergeInv, AuditsHold
        <4> QED
          BY <1>5, <1>6, <3>1, <4>1, <4>2, <4>3
      <3>2. CASE k # i
        <4>1. (GivenTo(k))' = GivenTo(k)
          BY <1>2, <1>8, <3>2 DEF GivenTo
        <4>2. k \in DOMAIN v1 /\ v1'[k] = v1[k]
          BY <1>6, <3>2
        <4> QED
          BY <4>1, <4>2 DEF MergeInv, AuditsHold
      <3> QED
        BY <3>1, <3>2
    <2> QED
      BY <2>1, <2>2, <2>3, <2>4 DEF AuditsHold
  <1>14. GroupsHold'
    <2>1. \A j \in DOMAIN v1' : j \in DOMAIN v1 /\ v1'[j].day = v1[j].day
      BY <1>5, <1>6, <1>7
    <2>2. ASSUME NEW j \in DOMAIN v1', NEW k \in DOMAIN v1', j # k, v1'[j].day = v1'[k].day
          PROVE  j \in v6 \/ k \in v6 \/ \E h \in v3' : j \in h /\ k \in h
      <3>1. j \in DOMAIN v1 /\ k \in DOMAIN v1 /\ v1[j].day = v1[k].day
        BY <2>1, <2>2
      <3>2. v3 # {}
        OBVIOUS
      <3>3. j \in v6 \/ k \in v6 \/ \E h \in v3 : j \in h /\ k \in h
        BY <2>2, <3>1, <3>2 DEF MergeInv, GroupsHold
      <3>4. ~(j \in g /\ k \in g)
        BY <1>6, <2>2
      <3> QED
        BY <1>1, <3>3, <3>4
    <2>3. \A h \in v3' : h \subseteq MergeIds /\ h # {}
      BY <1>1 DEF MergeInv, GroupsHold
    <2>4. v7' \in BOOLEAN /\ (v7' => v3' = {})
      BY <1>1
    <2> QED
      BY <1>1, <2>2, <2>3, <2>4 DEF GroupsHold
  <1> QED
    BY <1>11, <1>12, <1>13, <1>14 DEF MergeInv

LEMMA MergeKept == MergeInv /\ [Merge!Next]_(Merge!vars) => MergeInv'
  <1> SUFFICES ASSUME MergeInv, [Merge!Next]_(Merge!vars) PROVE MergeInv'
    OBVIOUS
  <1>1. CASE UNCHANGED Merge!vars
    <2>1. DiariesHold' /\ TextsKnown' /\ AuditsHold'
      BY <1>1, DiariesSame DEF Merge!vars
    <2>2. GroupsHold'
      BY <1>1 DEF Merge!vars, MergeInv, GroupsHold
    <2> QED
      BY <2>1, <2>2 DEF MergeInv
  <1>2. CASE Merge!Next
    BY <1>2, LoadKeeps, StopKeeps, GroupKeeps, CreateKeeps, DeleteKeeps, NameKeeps DEF Merge!Next
  <1> QED
    BY <1>1, <1>2

LEMMA MergeHolds == MergeInv => Merge!NothingIsLost
  <1> SUFFICES ASSUME MergeInv PROVE Merge!NothingIsLost
    OBVIOUS
  <1>1. \A x : Cardinality({x}) = 1
    BY FS_Singleton
  <1>2. ASSUME NEW i \in Merge!Known \ v5
        PROVE  Merge!Cardinality({j \in DOMAIN v1 : i \in v1[j].texts}) = 1
    <2>1. i \in MergeIds
      BY KnownIs DEF MergeInv, DiariesHold, AuditsHold, AuditRow
    <2>2. PICK j \in DOMAIN v1 : i \in v1[j].texts
      BY <1>2, <2>1 DEF MergeInv, TextsKnown
    <2>3. {k \in DOMAIN v1 : i \in v1[k].texts} = {j}
      BY <2>2 DEF MergeInv, DiariesHold
    <2> QED
      BY <1>1, <2>3, MergeCardinality
  <1>3. ASSUME NEW i \in Merge!Known \ (v5 \cup DOMAIN v1)
        PROVE  Merge!Cardinality({a \in v2 : a.merged = i}) = 1
    <2>1. PICK a \in v2 : a.merged = i
      BY <1>3, KnownIs
    <2>2. {b \in v2 : b.merged = i} = {a}
      BY <2>1 DEF MergeInv, AuditsHold
    <2> QED
      BY <1>1, <2>2, MergeCardinality
  <1>4. ASSUME NEW i \in DOMAIN v1
        PROVE  /\ v1[i].texts = v1[i].children
               /\ v1[i].stocks = UNION {v8[j] : j \in v1[i].texts}
               /\ Merge!Cardinality(v1[i].children) = 1 + Merge!Counted({a \in v2 : a.canonical = i})
               /\ \A a \in {b \in v2 : b.canonical = i} : a.day = v1[i].day
    BY MergeCardinality DEF MergeInv, DiariesHold, AuditsHold, GivenTo
  <1>5. ASSUME v7 = TRUE, NEW g \in Merge!DuplicateGroups
        PROVE  g \cap v6 # {}
    <2>1. PICK i \in g : g = {j \in DOMAIN v1 : v1[j].day = v1[i].day}
      BY DEF Merge!DuplicateGroups
    <2>2. Cardinality(g) > 1
      BY MergeCardinality DEF Merge!DuplicateGroups
    <2>3. g # {i}
      <3>1. Cardinality({i}) = 1
        BY FS_Singleton
      <3> QED
        BY <2>2, <3>1
    <2>4. PICK j \in g : j # i
      BY <2>3
    <2>5. i \in DOMAIN v1 /\ j \in DOMAIN v1 /\ v1[i].day = v1[j].day
      BY <2>1
    <2>6. v3 = {}
      BY <1>5 DEF MergeInv, GroupsHold
    <2> QED
      BY <1>5, <2>4, <2>5, <2>6 DEF MergeInv, GroupsHold
  <1>6. v7 \in BOOLEAN
    BY DEF MergeInv, GroupsHold
  <1> QED
    BY <1>2, <1>3, <1>4, <1>5, <1>6 DEF Merge!NothingIsLost

-----------------------------------------------------------------------------
(* The four together. *)

ListsInv ==
  /\ which \in {"diary lists", "articles", "activity", "reconciliation"}
  /\ which = "diary lists" => FeedInv
  /\ which = "articles" => ArticleInv
  /\ which = "activity" => ActivityInv
  /\ which = "reconciliation" => MergeInv

LEMMA ListsStart == ListsInit => ListsInv
  BY FeedStarts, ArticlesStart, ActivityStarts, MergeStarts DEF ListsInit, ListsInv

\* A step of the four is one of the component that runs, or changes nothing of it.
LEMMA StepOfList ==
  ASSUME [ListsNext]_listVars
  PROVE  /\ which' = which
         /\ which = "diary lists" => [DiaryList!Next]_(DiaryList!vars)
         /\ which = "articles" => [ArticleList!Next]_(ArticleList!vars)
         /\ which = "activity" => [Feed!Next]_(Feed!vars)
         /\ which = "reconciliation" => [Merge!Next]_(Merge!vars)
  <1>1. CASE ListsNext
    BY <1>1 DEF ListsNext
  <1>2. CASE UNCHANGED listVars
    <2>1. /\ UNCHANGED <<which, v1, v2, v3, v4, v5, v6, v7>>
          /\ UNCHANGED <<v8, v9, v10, v11, v12, v13, v14>>
      BY <1>2 DEF listVars, more7, more8, more13
    <2>2. UNCHANGED DiaryList!vars /\ UNCHANGED ArticleList!vars
      BY <2>1 DEF DiaryList!vars, ArticleList!vars
    <2>3. UNCHANGED Feed!vars /\ UNCHANGED Merge!vars
      BY <2>1 DEF Feed!vars, Merge!vars
    <2> QED
      BY <2>1, <2>2, <2>3
  <1> QED
    BY <1>1, <1>2

LEMMA ListsKept == ListsInv /\ [ListsNext]_listVars => ListsInv'
  <1> SUFFICES ASSUME ListsInv, [ListsNext]_listVars
               PROVE  ListsInv'
    OBVIOUS
  <1>1. CASE which = "diary lists"
    BY <1>1, StepOfList, FeedKept DEF ListsInv
  <1>2. CASE which = "articles"
    BY <1>2, StepOfList, ArticlesKept DEF ListsInv
  <1>3. CASE which = "activity"
    BY <1>3, StepOfList, ActivityKept DEF ListsInv
  <1>4. CASE which = "reconciliation"
    BY <1>4, StepOfList, MergeKept DEF ListsInv
  <1> QED
    BY <1>1, <1>2, <1>3, <1>4 DEF ListsInv

\* No row is shown twice or skipped, whatever is written between two pages and
\* whatever answer is late, and a merged diary has the texts and the rows of all
\* that it replaced.
THEOREM ListsStayWhole == ListsSpec => []ListsAreWhole
  <1>1. ListsInv => ListsAreWhole
    BY FeedHolds, ArticlesHold, ActivityHolds, MergeHolds DEF ListsInv, ListsAreWhole
  <1> QED
    BY <1>1, ListsStart, ListsKept, PTL DEF ListsSpec
=============================================================================
