------------------------------ MODULE Accounts ------------------------------
(***************************************************************************)
(* The rows of the users (server/utils/user-queries.ts, the register       *)
(* handler, the admin guard and the handlers behind it): registration,     *)
(* which looks for the address, hashes and inserts; a change of the        *)
(* password, which reads, compares, hashes and updates; the admins, whose  *)
(* role is read before the handler starts and who then change the role of  *)
(* a user or delete it by id.  Between any two queries of one call the     *)
(* other calls run; a call starts with its first query.                    *)
(***************************************************************************)
EXTENDS Naturals, FiniteSets

CONSTANTS
  Ids,        \* bound on the ids given to the registered
  Emails,     \* the addresses people register
  Passwords,  \* their passwords
  MaxCalls    \* bound on the calls under way

VARIABLES
  users,   \* [id, email, password, role]
  next,    \* the next id of the table
  calls,   \* under way: [kind, phase, actor, target, email, given, new]
  raced,   \* ghost: two changes of one password were under way at once
  lapsed   \* ghost: an admin acted whose role was gone when its write committed

vars == <<users, next, calls, raced, lapsed>>

Roles == {"USER", "ADMIN"}
Kinds == {"register", "password", "USER", "ADMIN", "delete"}

TypeOK ==
  /\ \A u \in users : u.id \in 1..(next - 1) /\ u.email \in Emails
                      /\ u.password \in Passwords /\ u.role \in Roles
  /\ \A u, v \in users : u.id = v.id \/ u.email = v.email => u = v
  /\ next \in Nat
  /\ \A c \in calls : c.kind \in Kinds /\ c.phase \in {"authorised", "read"}
  /\ Cardinality(calls) <= MaxCalls
  /\ raced \in BOOLEAN /\ lapsed \in BOOLEAN

Account(id) == CHOOSE u \in users : u.id = id
Exists(id) == \E u \in users : u.id = id
Taken(email) == \E u \in users : u.email = email

(* The seed: one administrator and one user, of the same password.         *)
Init ==
  /\ LET e == CHOOSE e \in Emails : TRUE
         f == CHOOSE f \in Emails : f # e
         p == CHOOSE p \in Passwords : TRUE
     IN  users = {[id |-> 1, email |-> e, password |-> p, role |-> "ADMIN"],
                  [id |-> 2, email |-> f, password |-> p, role |-> "USER"]}
  /\ next = 3
  /\ calls = {}
  /\ raced = FALSE /\ lapsed = FALSE

(* Two calls under way that are alike in everything count as one.          *)
Start(call) ==
  /\ Cardinality(calls) < MaxCalls
  /\ call \notin calls
  /\ calls' = calls \union {call}
At(c, kinds, phase) == c.kind \in kinds /\ c.phase = phase
End(c) == calls' = calls \ {c}
Put(u, changed) == users' = (users \ {u}) \union {changed}

----------------------------------------------------------------------------
(* Registration.  Whoever finds the address is refused; of two that both   *)
(* did not find it the second meets the unique index and is refused alike. *)
findUserByEmail ==
  /\ \E e \in Emails, p \in Passwords :
       /\ ~Taken(e)
       /\ Start([kind |-> "register", phase |-> "read", email |-> e, new |-> p])
  /\ UNCHANGED <<users, next, raced, lapsed>>

Insert(c) ==
  /\ next \in Ids
  /\ users' = users \union {[id |-> next, email |-> c.email,
                             password |-> c.new, role |-> "USER"]}
  /\ next' = next + 1

(* A slip: the row of the address is rewritten where there is one.         *)
UpsertUser(c) ==
  /\ At(c, {"register"}, "read")
  /\ IF Taken(c.email)
     THEN LET u == CHOOSE v \in users : v.email = c.email
          IN  Put(u, [u EXCEPT !.password = c.new]) /\ UNCHANGED next
     ELSE Insert(c)
  /\ End(c)
  /\ UNCHANGED <<raced, lapsed>>
createUserForRegistration(c) ==
  /\ At(c, {"register"}, "read")
  /\ IF Taken(c.email) THEN UNCHANGED <<users, next>> ELSE Insert(c)
  /\ End(c)
  /\ UNCHANGED <<raced, lapsed>>

----------------------------------------------------------------------------
(* The password.  What the user gives as the old one is compared with what *)
(* was read; the new one is stored, its hash ready, whatever the row has   *)
(* become.  The update of an account that is gone fails.                   *)
\* A slip: any password is let through.
AnyPassword(given, stored) == given \in Passwords
Matches(given, stored) == given = stored

compareCurrent ==
  /\ \E u \in users, given, new \in Passwords :
       /\ Matches(given, u.password)
       /\ Start([kind |-> "password", phase |-> "read", target |-> u.id,
                    given |-> given, new |-> new])
       /\ raced' = (raced \/ \E d \in calls : d.kind = "password" /\ d.target = u.id)
  /\ UNCHANGED <<users, next, lapsed>>

changeUserPassword(c) ==
  /\ At(c, {"password"}, "read")
  /\ IF Exists(c.target)
     THEN LET u == Account(c.target) IN Put(u, [u EXCEPT !.password = c.new])
     ELSE UNCHANGED users
  /\ End(c)
  /\ UNCHANGED <<next, raced, lapsed>>

----------------------------------------------------------------------------
(* The admin calls: a new role for a user, or its deletion.  The session   *)
(* is resolved to the row of its user, whose role the guard looks at; then *)
(* the handler refuses its own caller, looks for the target, and writes.   *)
AdminKinds == Roles \union {"delete"}

IsAdmin(id) == Exists(id) /\ Account(id).role = "ADMIN"

adminGuard ==
  /\ \E u \in users, target \in 1..(next - 1), kind \in AdminKinds :
       /\ IsAdmin(u.id)
       /\ Start([kind |-> kind, phase |-> "authorised", actor |-> u.id, target |-> target])
  /\ UNCHANGED <<users, next, raced, lapsed>>

(* A slip: only the deletion refuses its own caller.                       *)
OwnRoleAllowed(c) == c.kind = "delete" => c.target # c.actor
NotOneself(c) == c.target # c.actor

findTarget(c) ==
  /\ At(c, AdminKinds, "authorised")
  /\ IF NotOneself(c) /\ Exists(c.target)
     THEN calls' = (calls \ {c}) \union {[c EXCEPT !.phase = "read"]}
     ELSE End(c)
  /\ UNCHANGED <<users, next, raced, lapsed>>

writeTarget(c) ==
  /\ At(c, AdminKinds, "read")
  /\ IF Exists(c.target)
     THEN LET u == Account(c.target)
          IN  /\ IF c.kind = "delete" THEN users' = users \ {u}
                 ELSE Put(u, [u EXCEPT !.role = c.kind])
              /\ lapsed' = (lapsed \/ ~IsAdmin(c.actor))
     ELSE UNCHANGED <<users, lapsed>>
  /\ End(c)
  /\ UNCHANGED <<next, raced>>

Next ==
  \/ findUserByEmail \/ compareCurrent \/ adminGuard
  \/ \E c \in calls : \/ createUserForRegistration(c) \/ changeUserPassword(c)
                      \/ findTarget(c) \/ writeTarget(c)

Spec == Init /\ [][Next]_vars

----------------------------------------------------------------------------
(* Somebody can administer: an admin is left, whatever roles are changed   *)
(* and accounts deleted, unless a write committed for an admin that had    *)
(* lost its own role meanwhile.                                            *)
AdminRemains == lapsed \/ \E u \in users : u.role = "ADMIN"

(* The password of an account is only ever replaced by a call that was     *)
(* given the one it replaces, unless two such calls overlapped; no         *)
(* registration of its address, overlapped or not, does it.                *)
PasswordHeld ==
  \A u \in users : \A v \in users' :
    u.id = v.id /\ u.password # v.password =>
      \E c \in calls : /\ c.kind = "password" /\ c.target = u.id
                       /\ raced \/ c.given = u.password
KeepsPasswords == [][PasswordHeld]_vars
=============================================================================
