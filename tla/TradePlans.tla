----------------------------- MODULE TradePlans -----------------------------
(***************************************************************************)
(* Trade plans (server/api/trade-plans, server/utils/trade-plan-queries.ts,*)
(* lib/contracts/trade-plan) and the diaries they link to.  A write reads  *)
(* the plan and the diary it names, each by a query, and updates by id;    *)
(* the body is judged by itself.  What keeps the rows sound between those  *)
(* queries are the triggers and the CHECK of migration                     *)
(* 20260902110000_backend_v1_integrity, and a foreign key.                 *)
(***************************************************************************)
EXTENDS Naturals, FiniteSets

CONSTANTS
  Users,
  OwnerOf,    \* of every diary that there is at first
  Plans,      \* ids that plans may get
  Prices,     \* positive numbers
  MaxCalls    \* bound on the writes under way

VARIABLES
  diaries,   \* ids of the diaries there are
  plans,     \* [id, user, diary, low, high]; 0 is null
  deleted,   \* ids of plans deleted again
  calls      \* writes under way: [user, op, plan, body, step]

vars == <<diaries, plans, deleted, calls>>

Diaries == DOMAIN OwnerOf
Null == 0
Unset == 100   \* not in the body

(* validateEntryZoneOrder, of the values in the body alone *)
Body == {b \in [diary : Diaries \cup {Null, Unset}, low : Prices \cup {Null, Unset},
                high : Prices \cup {Null, Unset}] :
           b.low \in Prices /\ b.high \in Prices => b.low <= b.high}
Empty == [diary |-> Unset, low |-> Unset, high |-> Unset]

TypeOK ==
  /\ diaries \subseteq Diaries
  /\ \A p \in plans : /\ p.id \in Plans \ deleted /\ p.user \in Users /\ p.diary \in Diaries \cup {Null}
                      /\ p.low \in Prices \cup {Null} /\ p.high \in Prices \cup {Null}
  /\ \A p, q \in plans : p.id = q.id => p = q
  /\ Cardinality(calls) <= MaxCalls
  /\ \A c \in calls : /\ c.user \in Users /\ c.op \in {"post", "put", "delete"} /\ c.plan \in Plans
                      /\ c.body \in Body /\ c.step \in {"diary", "write"}

Init ==
  /\ diaries = Diaries /\ plans = {} /\ deleted = {} /\ calls = {}

Set(value, old) == IF value = Unset THEN old ELSE value
Merged(p, b) == [p EXCEPT !.diary = Set(b.diary, @), !.low = Set(b.low, @), !.high = Set(b.high, @)]
NewPlan(id, user) == [id |-> id, user |-> user, diary |-> Null, low |-> Null, high |-> Null]

Owned(id, user) == {p \in plans : p.id = id /\ p.user = user}

-----------------------------------------------------------------------------
(* assertDiaryBelongsToUser looks nowhere when no diary is named.          *)
AfterPlan(c) == [c EXCEPT !.step = IF c.body.diary \in Diaries THEN "diary" ELSE "write"]

Ask(c) ==
  /\ Cardinality(calls) < MaxCalls
  /\ calls' = calls \cup {AfterPlan(c)}
  /\ UNCHANGED <<diaries, plans, deleted>>

Post(user, body) ==
  \E id \in Plans \ deleted :
    /\ {p \in plans : p.id = id} = {} /\ \A c \in calls : ~(c.op = "post" /\ c.plan = id)
    /\ Ask([user |-> user, op |-> "post", plan |-> id, body |-> body, step |-> "diary"])

(* A put without a field is refused. *)
Put(user, id, body) ==
  /\ Owned(id, user) # {} /\ body # Empty
  /\ Ask([user |-> user, op |-> "put", plan |-> id, body |-> body, step |-> "diary"])

Delete(user, id) ==
  /\ Owned(id, user) # {}
  /\ Ask([user |-> user, op |-> "delete", plan |-> id, body |-> Empty, step |-> "diary"])

AssertDiary(c) ==
  /\ c.step = "diary"
  /\ calls' = IF c.body.diary \in diaries /\ OwnerOf[c.body.diary] = c.user
              THEN (calls \ {c}) \cup {[c EXCEPT !.step = "write"]} ELSE calls \ {c}
  /\ UNCHANGED <<diaries, plans, deleted>>

(* A slip: the constraints of the table without the diary. *)
ZoneOnly(p) == p.low \in Prices /\ p.high \in Prices => p.low <= p.high

(* A slip: without the entry zone. *)
LinkOnly(p) == p.diary \in Diaries => p.diary \in diaries /\ OwnerOf[p.diary] = p.user

(* The triggers trade_plans_diary_owner_..., trade_plans_zone_order_v1     *)
(* and the foreign key.                                                    *)
Allowed(p) ==
  /\ p.diary \in Diaries => p.diary \in diaries /\ OwnerOf[p.diary] = p.user
  /\ p.low \in Prices /\ p.high \in Prices => p.low <= p.high

(* A row that is not there, or not allowed, fails the query. *)
Write(c) ==
  LET found == {p \in plans : p.id = c.plan}
      fresh == IF c.op = "post" THEN {NewPlan(c.plan, c.user)} ELSE found
      rows == {Merged(p, c.body) : p \in fresh} IN
  /\ c.step = "write"
  /\ calls' = calls \ {c}
  /\ \/ c.op \in {"post", "put"} /\ rows # {} /\ (\A p \in rows : Allowed(p))
        /\ plans' = (plans \ found) \cup rows /\ UNCHANGED deleted
     \/ c.op \in {"post", "put"} /\ (rows = {} \/ \E p \in rows : ~Allowed(p))
        /\ UNCHANGED <<plans, deleted>>
     \/ c.op = "delete" /\ plans' = plans \ found
        /\ deleted' = deleted \cup {p.id : p \in found}
  /\ UNCHANGED diaries

(* deleteDiaryForUser; the foreign key sets null. *)
DeleteDiary(d) ==
  /\ d \in diaries
  /\ diaries' = diaries \ {d}
  /\ plans' = {[p EXCEPT !.diary = IF @ = d THEN Null ELSE @] : p \in plans}
  /\ UNCHANGED <<deleted, calls>>

Next ==
  \/ \E user \in Users, body \in Body :
       \/ Post(user, body)
       \/ \E id \in Plans : Put(user, id, body)
  \/ \E user \in Users, id \in Plans : Delete(user, id)
  \/ \E c \in calls : AssertDiary(c) \/ Write(c)
  \/ \E d \in Diaries : DeleteDiary(d)

Spec == Init /\ [][Next]_vars

-----------------------------------------------------------------------------
(* A plan links to a diary that there is and that its owner wrote, and its *)
(* entry zone is in order, though a put names one bound and was judged     *)
(* without the other, and a diary may go after it was looked for.          *)
PlansHold ==
  /\ \A p \in plans : /\ p.diary # Null => p.diary \in diaries /\ OwnerOf[p.diary] = p.user
                      /\ p.low # Null /\ p.high # Null => p.low <= p.high
=============================================================================
