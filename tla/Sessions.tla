------------------------------ MODULE Sessions ------------------------------
(***************************************************************************)
(* The refresh sessions of one account: native login, rotation, replay     *)
(* detection and logout (server/utils/native-auth-session.ts), web login   *)
(* and logout, logout of all sessions, change of the password and deletion *)
(* of the account (server/utils/user-queries.ts, server/api/auth).         *)
(*                                                                         *)
(* Handlers interleave at every await: the read of a row, the bcrypt       *)
(* comparison, and the write that follows are steps of their own.  Every   *)
(* single statement and every Prisma transaction is atomic.  Clients may   *)
(* present any refresh token ever issued, at any time and any number of    *)
(* times: that covers lost responses, retries and copies.                  *)
(***************************************************************************)
EXTENDS Integers, FiniteSets, TLC

CONSTANTS Requests    \* the requests of a behaviour, each served once

VARIABLES
  user,        \* the users row
  token,       \* the refresh_tokens table: a function from ids to rows
  nextToken,   \* its AUTO_INCREMENT counter
  req          \* the requests being served

vars == <<user, token, nextToken, req>>
tables == <<user, token, nextToken>>

ClientType == {"WEB", "NATIVE"}

\* revocationReason; none is a row whose revokedAt is null.
Reason == {"none", "ROTATED", "LOGOUT", "LOGOUT_ALL", "REUSE_DETECTED", "EXPIRED"}

\* version is the tokenVersion signed into the JWT; password is the password
\* that the login at the root of the family has proved (not stored by the
\* code); parent and replacement are 0 for NULL; a WEB row, whose familyId is
\* NULL, has its own id for a family.
Token == [client : ClientType, family : Nat, version : Nat, password : Nat,
          reason : Reason, expired : BOOLEAN, parent : Nat, replacement : Nat]

\* What a handler has read when it waits for its next statement.
Request == [pc : {"idle", "create", "claim", "expire", "revoke", "change",
                  "done", "failed"},
            client : ClientType, tok : Nat, family : Nat,
            version : Nat, password : Nat, reason : Reason]

NoRequest == [pc |-> "idle", client |-> "NATIVE", tok |-> 0, family |-> 0,
              version |-> 0, password |-> 0, reason |-> "none"]

TypeOK ==
  /\ user \in [exists : BOOLEAN, version : Nat, password : Nat]
  /\ nextToken \in Nat \ {0}
  /\ DOMAIN token \subseteq 1 .. (nextToken - 1)
  /\ token \in [DOMAIN token -> Token]
  /\ req \in [Requests -> Request]

Init ==
  /\ user = [exists |-> TRUE, version |-> 0, password |-> 0]
  /\ token = <<>>
  /\ nextToken = 1
  /\ req = [r \in Requests |-> NoRequest]

-----------------------------------------------------------------------------
Answer(r, pc) == req' = [req EXCEPT ![r] = [NoRequest EXCEPT !.pc = pc]]
Refuse(r) == Answer(r, "failed") /\ UNCHANGED tables
Wait(r, q) == req' = [req EXCEPT ![r] = q] /\ UNCHANGED tables

Live(t) == t \in DOMAIN token /\ token[t].reason = "none"

\* Mutant of FamilyOf: the filter of updateMany forgets the familyId.
FamilyOfAny(f) == {t \in DOMAIN token : token[t].client = "NATIVE"}

FamilyOf(f) == {t \in DOMAIN token : token[t].client = "NATIVE" /\ token[t].family = f}

\* updateMany of the live rows in S: they are revoked for the given reason.
Revoke(S, reason) ==
  [t \in DOMAIN token |->
     IF t \in S /\ token[t].reason = "none"
       THEN [token[t] EXCEPT !.reason = reason] ELSE token[t]]

\* Deleted rows disappear from parentId and replacementId (ON DELETE SET NULL).
Delete(S) ==
  [t \in DOMAIN token \ S |->
     [token[t] EXCEPT !.parent = IF @ \in S THEN 0 ELSE @,
                      !.replacement = IF @ \in S THEN 0 ELSE @]]

\* Mutant of Insert: the id is not the one of the counter.
InsertNext(table, row) ==
  [t \in DOMAIN table \cup {nextToken + 1} |-> IF t = nextToken + 1 THEN row ELSE table[t]]

Insert(table, row) ==
  [t \in DOMAIN table \cup {nextToken} |-> IF t = nextToken THEN row ELSE table[t]]

-----------------------------------------------------------------------------
(* Login *)

\* The user row is read; bcrypt then compares the password with the one read.
LoginRead(r, client, password) ==
  /\ req[r].pc = "idle"
  /\ IF user.exists /\ password = user.password
       THEN Wait(r, [NoRequest EXCEPT !.pc = "create", !.client = client,
                                      !.version = user.version,
                                      !.password = password])
       ELSE Refuse(r)

\* A new session is a family of its own.  The foreign key refuses the row of
\* an account deleted in the meantime.
LoginCreate(r) ==
  /\ req[r].pc = "create"
  /\ IF ~user.exists
       THEN Refuse(r)
       ELSE /\ token' = Insert(token,
                          [client |-> req[r].client, family |-> nextToken,
                           version |-> req[r].version, password |-> req[r].password,
                           reason |-> "none", expired |-> FALSE,
                           parent |-> 0, replacement |-> 0])
            /\ nextToken' = nextToken + 1
            /\ Answer(r, "done")
            /\ UNCHANGED user

-----------------------------------------------------------------------------
(* Native rotation *)

WaitFor(r, t, pc, reason) ==
  Wait(r, [NoRequest EXCEPT !.pc = pc, !.tok = t, !.family = token[t].family,
                            !.version = user.version,
                            !.password = token[t].password, !.reason = reason])

\* Mutant of Current: the version signed into the token is not looked at.
CurrentAlways(t) == TRUE

\* The version signed into the token is that of the user.
Current(t) == token[t].version = user.version

\* The row and its user are read together.  The JWT of an expired token is
\* usually refused before; its own clock may still pass it.
RotateRead(r, t) ==
  /\ req[r].pc = "idle"
  /\ \/ (t \in DOMAIN token => token[t].client # "NATIVE" \/ token[t].expired) /\ Refuse(r)
     \/ /\ t \in DOMAIN token /\ token[t].client = "NATIVE"
        /\ \/ token[t].reason # "none" /\ WaitFor(r, t, "revoke", "REUSE_DETECTED")
           \/ /\ token[t].reason = "none"
              /\ token[t].expired /\ WaitFor(r, t, "expire", "EXPIRED")
           \/ /\ token[t].reason = "none" /\ ~token[t].expired
              /\ IF Current(t)
                   THEN WaitFor(r, t, "claim", "ROTATED")
                   ELSE Refuse(r)

\* Mutant of Claims: the claim does not depend on revokedAt being null.
ClaimsAnyway(q) == q.tok \in DOMAIN token

Claims(q) == Live(q.tok)

\* The transaction of rotateNativeRefreshToken: claim the row while it is
\* live, insert the replacement, link the two.  A lost claim is a replay.
RotateClaim(r) ==
  LET q == req[r] IN
  /\ q.pc = "claim"
  /\ IF Claims(q)
       THEN /\ token' = Insert([token EXCEPT ![q.tok].reason = "ROTATED",
                                             ![q.tok].replacement = nextToken],
                          [client |-> "NATIVE", family |-> q.family,
                           version |-> q.version, password |-> q.password,
                           reason |-> "none", expired |-> FALSE,
                           parent |-> q.tok, replacement |-> 0])
            /\ nextToken' = nextToken + 1
            /\ Answer(r, "done")
            /\ UNCHANGED user
       ELSE Wait(r, [q EXCEPT !.pc = "revoke", !.reason = "REUSE_DETECTED"])

\* update by id: it throws when the row is gone and asks for nothing else.
MarkExpired(r) ==
  /\ req[r].pc = "expire"
  /\ IF req[r].tok \notin DOMAIN token
       THEN Refuse(r)
       ELSE /\ token' = [token EXCEPT ![req[r].tok].reason = "EXPIRED"]
            /\ Answer(r, "failed")
            /\ UNCHANGED <<user, nextToken>>

\* revokeFamily, for a replay or a logout.
RevokeFamily(r) ==
  /\ req[r].pc = "revoke"
  /\ token' = Revoke(FamilyOf(req[r].family), req[r].reason)
  /\ Answer(r, IF req[r].reason = "LOGOUT" THEN "done" ELSE "failed")
  /\ UNCHANGED <<user, nextToken>>

-----------------------------------------------------------------------------
(* Logout *)

NativeLogoutRead(r, t) ==
  /\ req[r].pc = "idle"
  /\ IF t \in DOMAIN token /\ token[t].client = "NATIVE"
       THEN WaitFor(r, t, "revoke", "LOGOUT")
       ELSE Refuse(r)

\* deleteMany by token.  Without a cookie session, or when the delete fails,
\* nothing changes and the request is as good as refused.
WebLogout(r, t) ==
  /\ req[r].pc = "idle"
  /\ token' = Delete({t})
  /\ Answer(r, "done")
  /\ UNCHANGED <<user, nextToken>>

LogoutAll(r) ==
  /\ req[r].pc = "idle"
  /\ IF ~user.exists
       THEN Refuse(r)
       ELSE /\ user' = [user EXCEPT !.version = @ + 1]
            /\ token' = Revoke(DOMAIN token, "LOGOUT_ALL")
            /\ Answer(r, "done")
            /\ UNCHANGED nextToken

-----------------------------------------------------------------------------
(* Account *)

ChangePasswordRead(r, password) ==
  /\ req[r].pc = "idle"
  /\ IF user.exists /\ password = user.password
       THEN Wait(r, [NoRequest EXCEPT !.pc = "change"])
       ELSE Refuse(r)

\* Mutant of ChangePasswordCommit: the rows are deleted, the version is kept.
ChangePasswordSameVersion(r) ==
  /\ req[r].pc = "change" /\ user.exists
  /\ user' = [user EXCEPT !.password = @ + 1]
  /\ token' = Delete(DOMAIN token)
  /\ Answer(r, "done")
  /\ UNCHANGED nextToken

\* Passwords are numbered in the order they are set.
ChangePasswordCommit(r) ==
  /\ req[r].pc = "change"
  /\ IF ~user.exists
       THEN Refuse(r)
       ELSE /\ user' = [exists |-> TRUE, version |-> user.version + 1,
                         password |-> user.password + 1]
            /\ token' = Delete(DOMAIN token)
            /\ Answer(r, "done")
            /\ UNCHANGED nextToken

DeleteUser(r) ==
  /\ req[r].pc = "idle"
  /\ IF ~user.exists
       THEN Refuse(r)
       ELSE /\ user' = [user EXCEPT !.exists = FALSE]
            /\ token' = Delete(DOMAIN token)
            /\ Answer(r, "done")
            /\ UNCHANGED nextToken

-----------------------------------------------------------------------------
(* Environment *)

\* expiresAt of a row passes.
Expire(t) ==
  /\ ~token[t].expired
  /\ token' = [token EXCEPT ![t].expired = TRUE]
  /\ UNCHANGED <<user, nextToken, req>>

\* A database error or a restart of the process between two statements.
Abort(r) == req[r].pc \notin {"idle", "done", "failed"} /\ Refuse(r)

AllAnswered ==
  /\ \A r \in Requests : req[r].pc \in {"done", "failed"}
  /\ UNCHANGED vars

Next ==
  \/ \E r \in Requests :
       \/ \E password \in 0 .. user.password :
            \/ \E client \in ClientType : LoginRead(r, client, password)
            \/ ChangePasswordRead(r, password)
       \/ \E t \in 1 .. (nextToken - 1) :
            RotateRead(r, t) \/ NativeLogoutRead(r, t) \/ WebLogout(r, t)
       \/ LoginCreate(r) \/ RotateClaim(r) \/ MarkExpired(r) \/ RevokeFamily(r)
       \/ LogoutAll(r) \/ ChangePasswordCommit(r) \/ DeleteUser(r)
       \/ Abort(r)
  \/ \E t \in DOMAIN token : Expire(t)
  \/ AllAnswered

Spec == Init /\ [][Next]_vars

-----------------------------------------------------------------------------
(* Properties *)

\* A device holds one live refresh token: rotations of the same token that
\* race, and retries of a rotation whose response was lost, never leave two.
OneLiveTokenPerFamily ==
  \A t, u \in DOMAIN token :
    Live(t) /\ Live(u) /\ token[t].family = token[u].family => t = u

\* A family all of whose tokens are revoked (replay, logout, logout of all)
\* never gets a live token again, whatever rotations were under way.
FamilyDead(f) == FamilyOf(f) # {} /\ \A t \in FamilyOf(f) : ~Live(t)

DeadFamiliesStayDead ==
  [][\A f \in 1 .. (nextToken - 1) :
        FamilyDead(f) => \A t \in FamilyOf(f)' : ~Live(t)']_vars

\* Whoever can still use a refresh token has proved the present password: a
\* login that compared the old password and inserts its row after the change
\* holds a token that is refused.
Usable(t) == user.exists /\ Live(t) /\ Current(t)

UsableTokenKnowsPassword ==
  \A t \in DOMAIN token : Usable(t) => token[t].password = user.password

\* A rotation claims only a token of the present token version, although the
\* version was checked in an earlier read: every bump revokes or deletes all
\* rows in its own transaction.
OnlyCurrentTokensRotate ==
  [][\A t \in DOMAIN token \cap DOMAIN token' :
        token[t].reason = "none" /\ token'[t].reason = "ROTATED"
          => token[t].version = user.version]_vars

\* A replay revokes its own device only (ADR 0008: other device families
\* remain valid).
ReplayRevokesOneFamily ==
  [][\A t, u \in DOMAIN token \cap DOMAIN token' :
        /\ token[t].reason = "none" /\ token'[t].reason = "REUSE_DETECTED"
        /\ token[u].reason = "none" /\ token'[u].reason # "none"
        => token[u].family = token[t].family]_vars

\* Rotation never forks: two rows are never the replacement of one row.
RotationIsAChain ==
  \A t, u \in DOMAIN token :
    token[t].parent # 0 /\ token[t].parent = token[u].parent => t = u

(***************************************************************************)
(* The rows and handlers implement the devices of SessionDevices: every    *)
(* step is a sign-in, a rotation of a device that still holds the token,   *)
(* the sign-out of one device or of all, or changes no device.             *)
(***************************************************************************)
Holds == {[device |-> token[t].family, token |-> t] : t \in {u \in DOMAIN token : Live(u)}}

Devices == INSTANCE SessionDevices WITH issued <- nextToken - 1, holds <- Holds

ImplementsDevices == Devices!Spec

(* For model checking: no request is told from another.                    *)
RequestSymmetry == Permutations(Requests)
=============================================================================
