--------------------------- MODULE Reconciliation ---------------------------
(***************************************************************************)
(* The one-off merge of diaries of one user and day                        *)
(* (scripts/diary-reconcile-duplicates.ts), before the unique key on user  *)
(* and date can be created.  The script loads every diary, groups them by  *)
(* user and UTC day, and merges group after group, each in a transaction   *)
(* that reads its rows again.  It stops at the first error and is run      *)
(* again with the same migration id (docs/operations/DEPLOYMENT.md,        *)
(* "Reconciliation").                                                      *)
(*                                                                         *)
(* A writer that maintenance did not keep out may write between two        *)
(* transactions.  Two kinds of writes are assumed away: of a day, which    *)
(* the script would not notice; and any to the diaries of a group while    *)
(* its transaction runs.  That transaction reads without locks, so that    *)
(* it would overwrite such a text, and delete a child or a stock that came *)
(* after it was moved on; here it is one step.                             *)
(***************************************************************************)
EXTENDS Integers, FiniteSets, FiniteSetsExt

CONSTANTS
  Ids,         \* positive numbers
  Days,        \* pairs of user and day
  Stocks,
  MaxTexts,    \* of one content: TEXT_MAX_BYTES
  MaxWrites    \* bound on the writes of others

VARIABLES
  diaries,     \* by id, of those there are: [day, created, texts, children, stocks]
  audits,      \* diary_reconciliation_audits: [day, canonical, merged, children]
  groups,      \* the duplicate groups still to be merged
  writes,      \* of others, so far
  dropped,     \* history: the ids others deleted
  arrived,     \* history: diaries written since the last load
  finished,    \* history: the last run came to its end
  named        \* history: the stocks that were named in a diary

vars == <<diaries, audits, groups, writes, dropped, arrived, finished, named>>

(* What is written in a diary, and its transactions, alerts, trade plans   *)
(* and records, go by the id of the diary they were first written for.     *)
Diary == [day : Days, created : 1..2, texts : SUBSET Ids, children : SUBSET Ids,
          stocks : SUBSET Stocks]

TypeOK ==
  /\ DOMAIN diaries \subseteq Ids
  /\ \A i \in DOMAIN diaries : diaries[i] \in Diary
  /\ \A a \in audits : a.day \in Days /\ a.canonical \in Ids /\ a.merged \in Ids /\ a.children \in Nat
  /\ \A g \in groups : g \subseteq Ids /\ Cardinality(g) > 1
  /\ writes \in 0..MaxWrites /\ dropped \subseteq Ids /\ arrived \subseteq Ids
  /\ finished \in BOOLEAN /\ named \in [Ids -> SUBSET Stocks]

Fresh(i, day, created, stocks) ==
  [day |-> day, created |-> created, texts |-> {i}, children |-> {i}, stocks |-> stocks]

(* One child for every diary; the creation times may be equal.             *)
Init ==
  /\ \E there \in SUBSET Ids :
       /\ named \in {f \in [Ids -> SUBSET Stocks] : \A i \in Ids \ there : f[i] = {}}
       /\ \E day \in [there -> Days], created \in [there -> 1..2] :
            diaries = [i \in there |-> Fresh(i, day[i], created[i], named[i])]
  /\ audits = {} /\ groups = {} /\ writes = 0 /\ dropped = {} /\ arrived = {} /\ finished = FALSE

Known == DOMAIN diaries \cup dropped \cup {a.merged : a \in audits}

-----------------------------------------------------------------------------
DuplicateGroups ==
  {g \in SUBSET DOMAIN diaries :
     Cardinality(g) > 1 /\ \E i \in g : g = {j \in DOMAIN diaries : diaries[j].day = diaries[i].day}}

(* loadDiaries, and a map by user and day.  A preview ends here.           *)
Load ==
  /\ groups = {} /\ DuplicateGroups # {}
  /\ groups' = DuplicateGroups /\ arrived' = {} /\ finished' = FALSE
  /\ UNCHANGED <<diaries, audits, writes, dropped, named>>

(* The first created, and of those the lowest id. *)
Canonical(g) ==
  CHOOSE i \in g : \A j \in g \ {i} :
    \/ diaries[i].created < diaries[j].created
    \/ diaries[i].created = diaries[j].created /\ i < j

(* A slip: what the diaries deleted point to is not taken along, and the   *)
(* foreign keys cascade.                                                   *)
MergedAlone(g, i) ==
  [diaries[i] EXCEPT !.texts = UNION {diaries[j].texts : j \in g},
                     !.stocks = UNION {diaries[j].stocks : j \in g}]

(* A slip: the companies stay behind. *)
MergedUnnamed(g, i) ==
  [diaries[i] EXCEPT !.texts = UNION {diaries[j].texts : j \in g},
                     !.children = UNION {diaries[j].children : j \in g}]

(* buildMergedContent, one after the other; skipDuplicates.                *)
Merged(g, i) ==
  [diaries[i] EXCEPT !.texts = UNION {diaries[j].texts : j \in g},
                     !.children = UNION {diaries[j].children : j \in g},
                     !.stocks = UNION {diaries[j].stocks : j \in g}]

(* The transaction of a group.                                             *)
reconcileGroup(g) ==
  /\ g \in groups /\ g \subseteq DOMAIN diaries
  /\ LET i == Canonical(g) IN
       /\ Cardinality(Merged(g, i).texts) <= MaxTexts
       /\ diaries' = [j \in (DOMAIN diaries \ g) \cup {i} |-> IF j = i THEN Merged(g, i) ELSE diaries[j]]
       /\ audits' = audits \cup {[day |-> diaries[i].day, canonical |-> i, merged |-> j,
                                  children |-> Cardinality(diaries[j].children)] : j \in g \ {i}}
  /\ groups' = groups \ {g} /\ finished' = (groups = {g})
  /\ UNCHANGED <<writes, dropped, arrived, named>>

(* A group that changed, content that is too long, an error of the         *)
(* database, or the end of the process: the transaction is rolled back,    *)
(* and no other group is tried.                                            *)
Stop ==
  /\ groups # {}
  /\ groups' = {}
  /\ UNCHANGED <<diaries, audits, writes, dropped, arrived, finished, named>>

-----------------------------------------------------------------------------
(* A writer that was let in. *)

Create(i) ==
  /\ writes < MaxWrites /\ writes' = writes + 1
  /\ i \in Ids \ Known /\ \A j \in Known : j < i
  /\ \E day \in Days : diaries' = [j \in DOMAIN diaries \cup {i} |->
       IF j = i THEN Fresh(i, day, 2, {}) ELSE diaries[j]]
  /\ arrived' = arrived \cup {i}
  /\ UNCHANGED <<audits, groups, dropped, finished, named>>

Delete(i) ==
  /\ writes < MaxWrites /\ writes' = writes + 1
  /\ i \in DOMAIN diaries
  /\ diaries' = [j \in DOMAIN diaries \ {i} |-> diaries[j]]
  /\ dropped' = dropped \cup diaries[i].texts
  /\ UNCHANGED <<audits, groups, arrived, finished, named>>

(* A company is named in the diary. *)
Name(i, s) ==
  /\ writes < MaxWrites /\ writes' = writes + 1
  /\ i \in DOMAIN diaries
  /\ diaries' = [diaries EXCEPT ![i].stocks = @ \cup {s}]
  /\ named' = [named EXCEPT ![i] = @ \cup {s}]
  /\ UNCHANGED <<audits, groups, dropped, arrived, finished>>

Next ==
  \/ Load \/ Stop
  \/ \E g \in groups : reconcileGroup(g)
  \/ \E i \in Ids : Create(i) \/ Delete(i) \/ \E s \in Stocks : Name(i, s)

Spec == Init /\ [][Next]_vars

-----------------------------------------------------------------------------
Counted(rows) == MapThenSumSet(LAMBDA a : a.children, rows)

(* Wherever a run stops, and however often it is repeated: every text is   *)
(* in one diary, with what belongs to it; a diary that is gone and that    *)
(* nobody deleted has one audit row, of its own day, and the audit rows of *)
(* a diary count what it was given.  A run that merged its last group has  *)
(* left no duplicates but those that came after it had loaded.             *)
NothingIsLost ==
  /\ \A i \in Known \ dropped : Cardinality({j \in DOMAIN diaries : i \in diaries[j].texts}) = 1
  /\ \A i \in Known \ (dropped \cup DOMAIN diaries) : Cardinality({a \in audits : a.merged = i}) = 1
  /\ \A i \in DOMAIN diaries :
       LET given == {a \in audits : a.canonical = i} IN
       /\ diaries[i].texts = diaries[i].children
       /\ diaries[i].stocks = UNION {named[j] : j \in diaries[i].texts}
       /\ Cardinality(diaries[i].children) = 1 + Counted(given)
       /\ \A a \in given : a.day = diaries[i].day
  /\ finished => \A g \in DuplicateGroups : g \cap arrived # {}
=============================================================================
