--------------------------- MODULE SessionsProofs ---------------------------
(***************************************************************************)
(* Theorems about Sessions, for any set of requests.                       *)
(***************************************************************************)
EXTENDS Sessions, TLAPS

-----------------------------------------------------------------------------
(* The tables after an insert, a revocation and a deletion *)

LEMMA InsertIsTable ==
  ASSUME NEW table, nextToken \in Nat \ {0},
         DOMAIN table \subseteq 1 .. (nextToken - 1),
         table \in [DOMAIN table -> Token], NEW row \in Token
  PROVE  /\ DOMAIN Insert(table, row) = DOMAIN table \cup {nextToken}
         /\ DOMAIN Insert(table, row) \subseteq 1 .. nextToken
         /\ Insert(table, row) \in [DOMAIN Insert(table, row) -> Token]
         /\ Insert(table, row)[nextToken] = row
         /\ \A t \in DOMAIN table : Insert(table, row)[t] = table[t]
  BY DEF Insert

LEMMA RevokeIsTable ==
  ASSUME token \in [DOMAIN token -> Token], NEW S, NEW reason \in Reason
  PROVE  /\ DOMAIN Revoke(S, reason) = DOMAIN token
         /\ Revoke(S, reason) \in [DOMAIN token -> Token]
         /\ \A t \in DOMAIN token :
              Revoke(S, reason)[t] = IF t \in S /\ token[t].reason = "none"
                                       THEN [token[t] EXCEPT !.reason = reason]
                                       ELSE token[t]
  BY DEF Revoke, Token

LEMMA DeleteIsTable ==
  ASSUME token \in [DOMAIN token -> Token], NEW S
  PROVE  /\ DOMAIN Delete(S) = DOMAIN token \ S
         /\ Delete(S) \in [DOMAIN token \ S -> Token]
         /\ \A t \in DOMAIN token \ S :
              Delete(S)[t] = [token[t] EXCEPT !.parent = IF @ \in S THEN 0 ELSE @,
                                              !.replacement = IF @ \in S THEN 0 ELSE @]
  BY DEF Delete, Token

LEMMA AnswerType ==
  ASSUME req \in [Requests -> Request], NEW r \in Requests,
         NEW pc \in {"done", "failed"}, Answer(r, pc)
  PROVE  /\ req' \in [Requests -> Request]
         /\ req'[r].pc = pc
         /\ \A q \in Requests \ {r} : req'[q] = req[q]
  BY DEF Answer, NoRequest, Request, ClientType, Reason

LEMMA WaitForType ==
  ASSUME TypeOK, NEW t \in DOMAIN token,
         NEW pc \in {"claim", "expire", "revoke"}, NEW reason \in Reason
  PROVE  [NoRequest EXCEPT !.pc = pc, !.tok = t, !.family = token[t].family,
                           !.version = user.version,
                           !.password = token[t].password, !.reason = reason]
         \in Request
  <1>1. token[t] \in Token /\ t \in Nat /\ user.version \in Nat
    BY DEF TypeOK
  <1>2. token[t].family \in Nat /\ token[t].password \in Nat
    BY <1>1 DEF Token
  <1> QED
    BY <1>1, <1>2 DEF NoRequest, Request, ClientType

-----------------------------------------------------------------------------
(* Type correctness *)

LEMMA InitType == Init => TypeOK
  BY DEF Init, TypeOK, NoRequest, Request, ClientType, Reason

\* A request that is refused, or that waits, leaves the tables alone.
LEMMA RefuseType ==
  ASSUME TypeOK, NEW r \in Requests, Refuse(r)
  PROVE  TypeOK'
  BY AnswerType DEF Refuse, tables, TypeOK

LEMMA WaitType ==
  ASSUME TypeOK, NEW r \in Requests, NEW q \in Request, Wait(r, q)
  PROVE  TypeOK'
  BY DEF Wait, tables, TypeOK

LEMMA NextType == TypeOK /\ [Next]_vars => TypeOK'
  <1> SUFFICES ASSUME TypeOK, [Next]_vars PROVE TypeOK'
    OBVIOUS
  <1>0. user.version \in Nat /\ user.password \in Nat
    BY DEF TypeOK
  <1>1. ASSUME NEW r \in Requests, NEW password \in 0 .. user.password,
               NEW client \in ClientType, LoginRead(r, client, password)
        PROVE  TypeOK'
    <2>1. [NoRequest EXCEPT !.pc = "create", !.client = client,
                            !.version = user.version, !.password = password] \in Request
      <3>1. password \in Nat
        BY <1>0
      <3> QED
        BY <1>0, <3>1 DEF NoRequest, Request, Reason, ClientType
    <2> QED
      BY <1>1, <2>1, WaitType, RefuseType DEF LoginRead
  <1>2. ASSUME NEW r \in Requests, LoginCreate(r)
        PROVE  TypeOK'
    <2>1. CASE Refuse(r)
      BY <2>1, RefuseType
    <2>2. CASE ~Refuse(r)
      <3> DEFINE row == [client |-> req[r].client, family |-> nextToken,
                         version |-> req[r].version, password |-> req[r].password,
                         reason |-> "none", expired |-> FALSE,
                         parent |-> 0, replacement |-> 0]
      <3>1. row \in Token
        BY DEF TypeOK, Request, Token, Reason
      <3>2. token' = Insert(token, row) /\ nextToken' = nextToken + 1
              /\ Answer(r, "done") /\ UNCHANGED user
        BY <1>2, <2>2 DEF LoginCreate
      <3> HIDE DEF row
      <3>3. DOMAIN token' \subseteq 1 .. nextToken /\ token' \in [DOMAIN token' -> Token]
        BY <3>1, <3>2, InsertIsTable DEF TypeOK
      <3> QED
        BY <3>2, <3>3, AnswerType DEF TypeOK
    <2> QED
      BY <2>1, <2>2
  <1>3. ASSUME NEW r \in Requests, NEW t, RotateRead(r, t)
        PROVE  TypeOK'
    BY <1>3, WaitForType, WaitType, RefuseType DEF RotateRead, WaitFor, Reason
  <1>4. ASSUME NEW r \in Requests, RotateClaim(r)
        PROVE  TypeOK'
    <2>1. req[r] \in Request
      BY DEF TypeOK
    <2>2. CASE Claims(req[r])
      <3> DEFINE claimed == [token EXCEPT ![req[r].tok].reason = "ROTATED",
                                          ![req[r].tok].replacement = nextToken]
                 row == [client |-> "NATIVE", family |-> req[r].family,
                         version |-> req[r].version, password |-> req[r].password,
                         reason |-> "none", expired |-> FALSE,
                         parent |-> req[r].tok, replacement |-> 0]
      <3>1. row \in Token
        BY <2>1 DEF Request, Token, Reason, ClientType
      <3>2. claimed \in [DOMAIN claimed -> Token] /\ DOMAIN claimed = DOMAIN token
        <4>1. token[req[r].tok] \in Token /\ nextToken \in Nat
          BY <2>2 DEF TypeOK, Claims, Live
        <4> QED
          BY <4>1 DEF TypeOK, Token, Reason
      <3>3. token' = Insert(claimed, row) /\ nextToken' = nextToken + 1
              /\ Answer(r, "done") /\ UNCHANGED user
        BY <1>4, <2>2 DEF RotateClaim
      <3> HIDE DEF row, claimed
      <3>4. DOMAIN token' \subseteq 1 .. nextToken /\ token' \in [DOMAIN token' -> Token]
        BY <3>1, <3>2, <3>3, InsertIsTable DEF TypeOK
      <3> QED
        BY <3>3, <3>4, AnswerType DEF TypeOK
    <2>3. CASE ~Claims(req[r])
      <3>1. [req[r] EXCEPT !.pc = "revoke", !.reason = "REUSE_DETECTED"] \in Request
        BY <2>1 DEF Request, Reason
      <3> QED
        BY <1>4, <2>3, <3>1, WaitType DEF RotateClaim
    <2> QED
      BY <2>2, <2>3
  <1>5. ASSUME NEW r \in Requests, MarkExpired(r)
        PROVE  TypeOK'
    <2>1. CASE Refuse(r)
      BY <2>1, RefuseType
    <2>2. CASE ~Refuse(r)
      <3>1. token' = [token EXCEPT ![req[r].tok].reason = "EXPIRED"]
              /\ req[r].tok \in DOMAIN token
              /\ Answer(r, "failed") /\ UNCHANGED <<user, nextToken>>
        BY <1>5, <2>2 DEF MarkExpired
      <3>2. token' \in [DOMAIN token -> Token] /\ DOMAIN token' = DOMAIN token
        BY <3>1 DEF TypeOK, Token, Reason
      <3> QED
        BY <3>1, <3>2, AnswerType DEF TypeOK
    <2> QED
      BY <2>1, <2>2
  <1>6. ASSUME NEW r \in Requests, RevokeFamily(r)
        PROVE  TypeOK'
    <2>1. req[r].reason \in Reason
      BY DEF TypeOK, Request
    <2>2. PICK pc \in {"done", "failed"} : Answer(r, pc)
      BY <1>6 DEF RevokeFamily
    <2> QED
      BY <1>6, <2>1, <2>2, RevokeIsTable, AnswerType DEF RevokeFamily, TypeOK
  <1>7. ASSUME NEW r \in Requests, NEW t, NativeLogoutRead(r, t)
        PROVE  TypeOK'
    BY <1>7, WaitForType, WaitType, RefuseType DEF NativeLogoutRead, WaitFor, Reason
  <1>8. ASSUME NEW r \in Requests, NEW t, WebLogout(r, t)
        PROVE  TypeOK'
    <2>1. token \in [DOMAIN token -> Token]
      BY DEF TypeOK
    <2>2. /\ DOMAIN Delete({t}) = DOMAIN token \ {t}
          /\ Delete({t}) \in [DOMAIN token \ {t} -> Token]
      BY <2>1, DeleteIsTable
    <2>3. token' = Delete({t}) /\ Answer(r, "done") /\ UNCHANGED <<user, nextToken>>
      BY <1>8 DEF WebLogout
    <2> QED
      BY <2>2, <2>3, AnswerType DEF TypeOK
  <1>9. ASSUME NEW r \in Requests, LogoutAll(r)
        PROVE  TypeOK'
    <2>1. CASE Refuse(r)
      BY <2>1, RefuseType
    <2>2. CASE ~Refuse(r)
      <3>1. user' = [user EXCEPT !.version = @ + 1]
              /\ token' = Revoke(DOMAIN token, "LOGOUT_ALL")
              /\ Answer(r, "done") /\ UNCHANGED nextToken
        BY <1>9, <2>2 DEF LogoutAll
      <3>2. user' \in [exists : BOOLEAN, version : Nat, password : Nat]
        BY <1>0, <3>1 DEF TypeOK
      <3>3. token' \in [DOMAIN token -> Token] /\ DOMAIN token' = DOMAIN token
        BY <3>1, RevokeIsTable DEF TypeOK, Reason
      <3> QED
        BY <3>1, <3>2, <3>3, AnswerType DEF TypeOK
    <2> QED
      BY <2>1, <2>2
  <1>10. ASSUME NEW r \in Requests, NEW password, ChangePasswordRead(r, password)
         PROVE  TypeOK'
    <2>1. [NoRequest EXCEPT !.pc = "change"] \in Request
      BY DEF NoRequest, Request, ClientType, Reason
    <2> QED
      BY <1>10, <2>1, WaitType, RefuseType DEF ChangePasswordRead
  <1>11. ASSUME NEW r \in Requests, ChangePasswordCommit(r)
         PROVE  TypeOK'
    <2>1. CASE Refuse(r)
      BY <2>1, RefuseType
    <2>2. CASE ~Refuse(r)
      <3>1. user' = [exists |-> TRUE, version |-> user.version + 1,
                         password |-> user.password + 1]
              /\ token' = Delete(DOMAIN token)
              /\ Answer(r, "done") /\ UNCHANGED nextToken
        BY <1>11, <2>2 DEF ChangePasswordCommit
      <3>2. user' \in [exists : BOOLEAN, version : Nat, password : Nat]
        BY <1>0, <3>1 DEF TypeOK
      <3>3. token' \in [DOMAIN token' -> Token] /\ DOMAIN token' = {}
        <4>1. token \in [DOMAIN token -> Token]
          BY DEF TypeOK
        <4>2. /\ DOMAIN Delete(DOMAIN token) = DOMAIN token \ DOMAIN token
              /\ Delete(DOMAIN token) \in [DOMAIN token \ DOMAIN token -> Token]
          BY <4>1, DeleteIsTable
        <4> QED
          BY <3>1, <4>2
      <3> QED
        BY <3>1, <3>2, <3>3, AnswerType DEF TypeOK
    <2> QED
      BY <2>1, <2>2
  <1>12. ASSUME NEW r \in Requests, DeleteUser(r)
         PROVE  TypeOK'
    <2>1. CASE Refuse(r)
      BY <2>1, RefuseType
    <2>2. CASE ~Refuse(r)
      <3>1. user' = [user EXCEPT !.exists = FALSE]
              /\ token' = Delete(DOMAIN token)
              /\ Answer(r, "done") /\ UNCHANGED nextToken
        BY <1>12, <2>2 DEF DeleteUser
      <3>2. user' \in [exists : BOOLEAN, version : Nat, password : Nat]
        BY <1>0, <3>1 DEF TypeOK
      <3>3. token' \in [DOMAIN token' -> Token] /\ DOMAIN token' = {}
        <4>1. token \in [DOMAIN token -> Token]
          BY DEF TypeOK
        <4>2. /\ DOMAIN Delete(DOMAIN token) = DOMAIN token \ DOMAIN token
              /\ Delete(DOMAIN token) \in [DOMAIN token \ DOMAIN token -> Token]
          BY <4>1, DeleteIsTable
        <4> QED
          BY <3>1, <4>2
      <3> QED
        BY <3>1, <3>2, <3>3, AnswerType DEF TypeOK
    <2> QED
      BY <2>1, <2>2
  <1>13. ASSUME NEW r \in Requests, Abort(r)
         PROVE  TypeOK'
    BY <1>13, RefuseType DEF Abort
  <1>14. ASSUME NEW t \in DOMAIN token, Expire(t)
         PROVE  TypeOK'
    BY <1>14 DEF Expire, TypeOK, Token
  <1>15. CASE UNCHANGED vars
    BY <1>15 DEF vars, TypeOK
  <1> QED
    BY <1>1, <1>2, <1>3, <1>4, <1>5, <1>6, <1>7, <1>8, <1>9, <1>10, <1>11, <1>12,
       <1>13, <1>14, <1>15 DEF Next, AllAnswered

\* The tables keep their shape: ids come from the counter and are not reused.
THEOREM TypeCorrect == Spec => []TypeOK
  BY InitType, NextType, PTL DEF Spec

-----------------------------------------------------------------------------
(* The inductive invariant *)

\* A version not above the present one, and a password no older than that.
KnownPassword(version, password) ==
  version <= user.version /\ (version = user.version => password = user.password)

\* A parent is a revoked row: it was claimed, and rows stay revoked.
TokenFacts ==
  \A t \in DOMAIN token :
    /\ KnownPassword(token[t].version, token[t].password)
    /\ token[t].family < nextToken
    /\ token[t].parent # 0 =>
         token[t].parent \in DOMAIN token /\ token[token[t].parent].reason # "none"

\* What a handler has read is still true of the row, if the row still exists;
\* a live row that was current when it was read is current now.
ClaimFacts(q) ==
  /\ q.tok < nextToken
  /\ q.tok \in DOMAIN token =>
       /\ token[q.tok].client = "NATIVE"
       /\ token[q.tok].family = q.family
       /\ token[q.tok].version = q.version
       /\ token[q.tok].password = q.password
       /\ token[q.tok].reason = "none" => q.version = user.version

RequestFacts(q) ==
  /\ q.pc = "create" => KnownPassword(q.version, q.password)
  /\ q.pc = "claim" => ClaimFacts(q)
  /\ q.pc = "revoke" => q.reason \in {"REUSE_DETECTED", "LOGOUT"}

IInv ==
  /\ TypeOK
  /\ TokenFacts
  /\ \A r \in Requests : RequestFacts(req[r])
  /\ OneLiveTokenPerFamily
  /\ RotationIsAChain


-----------------------------------------------------------------------------
(* Steps that insert no row *)

\* Rows are deleted and revoked, nothing else.
Shrinks ==
  /\ nextToken' = nextToken
  /\ DOMAIN token' \subseteq DOMAIN token
  /\ \A t \in DOMAIN token' :
       /\ token'[t].client = token[t].client
       /\ token'[t].family = token[t].family
       /\ token'[t].version = token[t].version
       /\ token'[t].password = token[t].password
       /\ token'[t].reason = "none" => token[t].reason = "none"
       /\ token'[t].parent # 0 =>
            token'[t].parent = token[t].parent /\ token[t].parent \in DOMAIN token'

\* The version rises only in a step that leaves no row live.
BumpRevokes ==
  \/ user'.version = user.version /\ user'.password = user.password
  \/ /\ user'.version > user.version
     /\ \A t \in DOMAIN token' : token'[t].reason # "none"

LEMMA ShrinksKeepsTokenFacts ==
  ASSUME IInv, TypeOK', Shrinks, BumpRevokes
  PROVE  TokenFacts'
  <1> SUFFICES ASSUME NEW t \in DOMAIN token'
               PROVE  /\ KnownPassword(token[t].version, token[t].password)'
                      /\ (token[t].family < nextToken)'
                      /\ (token[t].parent # 0 =>
                            /\ token[t].parent \in DOMAIN token
                            /\ token[token[t].parent].reason # "none")'
    BY DEF TokenFacts
  <1>1. t \in DOMAIN token /\ token[t] \in Token /\ token'[t] \in Token
    BY DEF IInv, TypeOK, Shrinks
  <1>2. user.version \in Nat /\ user'.version \in Nat
    BY DEF IInv, TypeOK
  <1>3. KnownPassword(token[t].version, token[t].password)'
    BY <1>1, <1>2 DEF IInv, TokenFacts, Shrinks, BumpRevokes, KnownPassword, Token
  <1>4. (token[t].family < nextToken)'
    BY <1>1 DEF IInv, TokenFacts, Shrinks
  <1>5. ASSUME token'[t].parent # 0
        PROVE  token'[t].parent \in DOMAIN token' /\ token'[token'[t].parent].reason # "none"
    BY <1>1, <1>5 DEF IInv, TokenFacts, Shrinks
  <1> QED
    BY <1>3, <1>4, <1>5

LEMMA ShrinksKeepsFamilies ==
  ASSUME IInv, TypeOK', Shrinks
  PROVE  OneLiveTokenPerFamily' /\ RotationIsAChain'
  BY DEF IInv, Shrinks, OneLiveTokenPerFamily, RotationIsAChain, Live

LEMMA ShrinksKeepsRequestFacts ==
  ASSUME IInv, TypeOK', Shrinks, BumpRevokes, NEW r \in Requests, req'[r] = req[r]
  PROVE  RequestFacts(req[r])'
  <1>1. req[r] \in Request /\ user.version \in Nat /\ user'.version \in Nat
    BY DEF IInv, TypeOK
  <1>2. RequestFacts(req[r])
    BY DEF IInv
  <1>3. ASSUME req'[r].pc = "create"
        PROVE  KnownPassword(req[r].version, req[r].password)'
    BY <1>1, <1>2, <1>3 DEF RequestFacts, KnownPassword, BumpRevokes, Request
  <1>4. ASSUME req'[r].pc = "claim"
        PROVE  ClaimFacts(req[r])'
    BY <1>1, <1>2, <1>4 DEF RequestFacts, ClaimFacts, Shrinks, BumpRevokes
  <1> QED
    BY <1>2, <1>3, <1>4 DEF RequestFacts

\* A step of one request that inserts nothing keeps the invariant.
LEMMA ShrinksKeepsIInv ==
  ASSUME IInv, TypeOK', Shrinks, BumpRevokes,
         NEW r, \A q \in Requests \ {r} : req'[q] = req[q],
         r \in Requests => RequestFacts(req[r])'
  PROVE  IInv'
  BY ShrinksKeepsTokenFacts, ShrinksKeepsFamilies, ShrinksKeepsRequestFacts DEF IInv

LEMMA UnchangedTablesShrink ==
  ASSUME IInv, UNCHANGED tables
  PROVE  Shrinks /\ BumpRevokes
  BY DEF IInv, TypeOK, TokenFacts, tables, Shrinks, BumpRevokes

LEMMA RevokeShrinks ==
  ASSUME IInv, NEW S, NEW reason \in Reason,
         token' = Revoke(S, reason), nextToken' = nextToken
  PROVE  Shrinks
  <1>1. token \in [DOMAIN token -> Token]
    BY DEF IInv, TypeOK
  <1>2. DOMAIN token' = DOMAIN token
    BY <1>1, RevokeIsTable
  <1> SUFFICES ASSUME NEW t \in DOMAIN token
               PROVE  /\ token'[t].client = token[t].client
                      /\ token'[t].family = token[t].family
                      /\ token'[t].version = token[t].version
                      /\ token'[t].password = token[t].password
                      /\ token'[t].reason = "none" => token[t].reason = "none"
                      /\ token'[t].parent = token[t].parent
                      /\ token[t].parent # 0 => token[t].parent \in DOMAIN token
    BY <1>2 DEF Shrinks
  <1>3. token'[t] = IF t \in S /\ token[t].reason = "none"
                      THEN [token[t] EXCEPT !.reason = reason] ELSE token[t]
    BY <1>1, RevokeIsTable
  <1>4. token[t] \in Token
    BY <1>1
  <1>5. token[t].parent # 0 => token[t].parent \in DOMAIN token
    BY DEF IInv, TokenFacts
  <1> QED
    BY <1>3, <1>4, <1>5 DEF Token

LEMMA DeleteShrinks ==
  ASSUME IInv, NEW S, token' = Delete(S), nextToken' = nextToken
  PROVE  Shrinks
  <1>1. token \in [DOMAIN token -> Token]
    BY DEF IInv, TypeOK
  <1>2. DOMAIN token' = DOMAIN token \ S
    BY <1>1, DeleteIsTable
  <1> SUFFICES ASSUME NEW t \in DOMAIN token \ S
               PROVE  /\ token'[t].client = token[t].client
                      /\ token'[t].family = token[t].family
                      /\ token'[t].version = token[t].version
                      /\ token'[t].password = token[t].password
                      /\ token'[t].reason = token[t].reason
                      /\ token'[t].parent # 0 =>
                           /\ token'[t].parent = token[t].parent
                           /\ token[t].parent \in DOMAIN token \ S
    BY <1>2 DEF Shrinks
  <1>3. token'[t] = [token[t] EXCEPT !.parent = IF @ \in S THEN 0 ELSE @,
                                     !.replacement = IF @ \in S THEN 0 ELSE @]
    BY <1>1, DeleteIsTable
  <1>4. token[t] \in Token
    BY <1>1
  <1>5. token[t].parent # 0 => token[t].parent \in DOMAIN token
    BY DEF IInv, TokenFacts
  <1> QED
    BY <1>3, <1>4, <1>5 DEF Token


LEMMA RefuseKeepsIInv ==
  ASSUME IInv, NEW r \in Requests, Refuse(r)
  PROVE  IInv'
  <1>1. TypeOK'
    BY RefuseType DEF IInv, Refuse
  <1>2. UNCHANGED tables /\ req'[r].pc = "failed" /\ \A q \in Requests \ {r} : req'[q] = req[q]
    BY AnswerType DEF Refuse, IInv, TypeOK
  <1>3. RequestFacts(req[r])'
    BY <1>2 DEF RequestFacts
  <1> QED
    BY <1>1, <1>2, <1>3, UnchangedTablesShrink, ShrinksKeepsIInv

\* A request that waits with what it has read, when that satisfies the facts.
LEMMA WaitKeepsIInv ==
  ASSUME IInv, NEW r \in Requests, NEW q \in Request, Wait(r, q), RequestFacts(q)
  PROVE  IInv'
  <1>1. TypeOK'
    BY WaitType DEF IInv
  <1>2. UNCHANGED tables /\ req'[r] = q /\ \A p \in Requests \ {r} : req'[p] = req[p]
    BY DEF Wait, IInv, TypeOK
  <1>3. RequestFacts(req[r])'
    BY <1>2 DEF RequestFacts, ClaimFacts, KnownPassword, tables
  <1> QED
    BY <1>1, <1>2, <1>3, UnchangedTablesShrink, ShrinksKeepsIInv

LEMMA AnswerKeepsIInv ==
  ASSUME IInv, TypeOK', NEW r \in Requests, NEW pc \in {"done", "failed"},
         Answer(r, pc), Shrinks, BumpRevokes
  PROVE  IInv'
  <1>1. req'[r].pc = pc /\ \A q \in Requests \ {r} : req'[q] = req[q]
    BY AnswerType DEF IInv, TypeOK
  <1>2. RequestFacts(req[r])'
    BY <1>1 DEF RequestFacts
  <1> QED
    BY <1>1, <1>2, ShrinksKeepsIInv

-----------------------------------------------------------------------------
(* Steps that insert a row *)

LEMMA LoginCreateKeepsIInv ==
  ASSUME IInv, TypeOK', NEW r \in Requests, LoginCreate(r)
  PROVE  IInv'
  <1> DEFINE row == [client |-> req[r].client, family |-> nextToken,
                     version |-> req[r].version, password |-> req[r].password,
                     reason |-> "none", expired |-> FALSE,
                     parent |-> 0, replacement |-> 0]
  <1>1. CASE Refuse(r)
    BY <1>1, RefuseKeepsIInv
  <1>2. CASE ~Refuse(r)
    <2>1. /\ req[r].pc = "create"
          /\ token' = Insert(token, row) /\ nextToken' = nextToken + 1
          /\ Answer(r, "done") /\ UNCHANGED user
      BY <1>2 DEF LoginCreate
    <2>2. req[r] \in Request /\ nextToken \in Nat \ {0} /\ nextToken \notin DOMAIN token
      BY DEF IInv, TypeOK
    <2>3. row \in Token
      BY <2>2 DEF Request, Token, Reason
    <2>4. /\ DOMAIN token' = DOMAIN token \cup {nextToken}
          /\ token'[nextToken] = row
          /\ \A t \in DOMAIN token : token'[t] = token[t]
      BY <2>1, <2>2 DEF Insert
    <2>5. /\ row.client = req[r].client /\ row.family = nextToken
          /\ row.version = req[r].version /\ row.password = req[r].password
          /\ row.reason = "none" /\ row.parent = 0
      OBVIOUS
    <2>6. /\ req'[r].pc = "done"
          /\ \A q \in Requests \ {r} : req'[q] = req[q]
      BY <2>1, AnswerType DEF IInv, TypeOK
    <2>7. \A t \in DOMAIN token : token[t] \in Token /\ token[t].family \in Nat
      BY DEF IInv, TypeOK, Token
    <2> HIDE DEF row
    <2>8. TokenFacts'
      <3>1. KnownPassword(row.version, row.password)
        BY <2>1, <2>5 DEF IInv, RequestFacts
      <3> QED
        BY <2>1, <2>2, <2>4, <2>5, <2>7, <3>1 DEF IInv, TokenFacts, KnownPassword
    <2>9. ASSUME NEW q \in Requests
          PROVE  RequestFacts(req[q])'
      <3>1. CASE q = r
        BY <2>6, <3>1 DEF RequestFacts
      <3>2. CASE q # r
        <4>1. req'[q] = req[q] /\ req[q].tok \in Nat
          BY <2>6, <3>2 DEF IInv, TypeOK, Request
        <4>2. RequestFacts(req[q])
          BY DEF IInv
        <4>3. req[q].tok < nextToken => req[q].tok # nextToken /\ req[q].tok < nextToken + 1
          BY <2>2, <4>1
        <4>4. req[q].pc = "claim" => ClaimFacts(req[q])'
          BY <2>1, <2>4, <4>1, <4>2, <4>3 DEF RequestFacts, ClaimFacts
        <4> QED
          BY <2>1, <4>1, <4>2, <4>4 DEF RequestFacts, KnownPassword
      <3> QED
        BY <3>1, <3>2
    <2>10. OneLiveTokenPerFamily'
      <3>1. \A t \in DOMAIN token : token[t].family # nextToken
        BY <2>2, <2>7 DEF IInv, TokenFacts
      <3> QED
        BY <2>4, <2>5, <3>1 DEF IInv, OneLiveTokenPerFamily, Live
    <2>11. RotationIsAChain'
      BY <2>4, <2>5 DEF IInv, RotationIsAChain
    <2> QED
      BY <2>8, <2>9, <2>10, <2>11 DEF IInv
  <1> QED
    BY <1>1, <1>2

LEMMA RotateClaimKeepsIInv ==
  ASSUME IInv, TypeOK', NEW r \in Requests, RotateClaim(r)
  PROVE  IInv'
  <1> DEFINE tok == req[r].tok
             claimed == [token EXCEPT ![tok].reason = "ROTATED",
                                      ![tok].replacement = nextToken]
             row == [client |-> "NATIVE", family |-> req[r].family,
                     version |-> req[r].version, password |-> req[r].password,
                     reason |-> "none", expired |-> FALSE,
                     parent |-> tok, replacement |-> 0]
  <1>0. req[r] \in Request /\ req[r].pc = "claim"
    BY DEF IInv, TypeOK, RotateClaim
  <1>1. CASE ~Claims(req[r])
    <2> DEFINE q == [req[r] EXCEPT !.pc = "revoke", !.reason = "REUSE_DETECTED"]
    <2>1. q \in Request /\ q.pc = "revoke" /\ q.reason = "REUSE_DETECTED"
      BY <1>0 DEF Request, Reason
    <2>2. Wait(r, q)
      BY <1>1 DEF RotateClaim
    <2> HIDE DEF q
    <2>3. RequestFacts(q)
      BY <2>1 DEF RequestFacts
    <2> QED
      BY <2>1, <2>2, <2>3, WaitKeepsIInv
  <1>2. CASE Claims(req[r])
    <2>1. /\ token' = Insert(claimed, row) /\ nextToken' = nextToken + 1
          /\ Answer(r, "done") /\ UNCHANGED user
      BY <1>2 DEF RotateClaim
    <2>2. /\ tok \in DOMAIN token /\ token[tok].reason = "none"
          /\ token[tok] \in Token
          /\ nextToken \in Nat \ {0} /\ nextToken \notin DOMAIN token
          /\ tok \in Nat /\ tok # 0
      BY <1>2 DEF IInv, TypeOK, Claims, Live
    <2>3. ClaimFacts(req[r])
      BY <1>0 DEF IInv, RequestFacts
    <2>4. /\ DOMAIN claimed = DOMAIN token
          /\ claimed \in [DOMAIN token -> Token]
          /\ \A t \in DOMAIN token \ {tok} : claimed[t] = token[t]
      BY <2>2 DEF IInv, TypeOK, Token, Reason
    <2>5. /\ claimed[tok].reason = "ROTATED"
          /\ claimed[tok].client = token[tok].client
          /\ claimed[tok].family = token[tok].family
          /\ claimed[tok].version = token[tok].version
          /\ claimed[tok].password = token[tok].password
          /\ claimed[tok].parent = token[tok].parent
      BY <2>2 DEF Token
    <2>6. row \in Token
      BY <1>0, <2>2 DEF Request, Token, Reason, ClientType
    <2>7. /\ row.client = "NATIVE" /\ row.family = req[r].family
          /\ row.version = req[r].version /\ row.password = req[r].password
          /\ row.reason = "none" /\ row.parent = tok
      OBVIOUS
    <2> HIDE DEF claimed, row
    <2>8. /\ DOMAIN token' = DOMAIN token \cup {nextToken}
          /\ token'[nextToken] = row
          /\ \A t \in DOMAIN token : token'[t] = claimed[t]
      BY <2>1, <2>2, <2>4 DEF Insert
    <2>9. /\ req'[r].pc = "done"
          /\ \A q \in Requests \ {r} : req'[q] = req[q]
      BY <2>1, AnswerType DEF IInv, TypeOK
    <2>10. \A t \in DOMAIN token : /\ token'[t].client = token[t].client
                                   /\ token'[t].family = token[t].family
                                   /\ token'[t].version = token[t].version
                                   /\ token'[t].password = token[t].password
                                   /\ token'[t].parent = token[t].parent
                                   /\ token'[t].reason = "none" =>
                                        t # tok /\ token[t].reason = "none"
                                   /\ token[t].reason # "none" => token'[t].reason # "none"
      BY <2>4, <2>5, <2>8
    <2>11. token'[tok].reason # "none"
      BY <2>2, <2>5, <2>8
    <2>12. \A t \in DOMAIN token : token[t] \in Token /\ token[t].family \in Nat
      BY DEF IInv, TypeOK, Token
    <2> HIDE DEF tok
    <2>13. TokenFacts'
      <3>1. KnownPassword(row.version, row.password) /\ row.family < nextToken
        BY <2>2, <2>3, <2>7 DEF IInv, TokenFacts, ClaimFacts, tok
      <3>2. row.parent \in DOMAIN token' /\ token'[row.parent].reason # "none"
        BY <2>2, <2>7, <2>8, <2>11
      <3>3. row.family \in Nat
        BY <2>6 DEF Token
      <3> QED
        BY <2>1, <2>2, <2>8, <2>10, <2>12, <3>1, <3>2, <3>3
           DEF IInv, TokenFacts, KnownPassword
    <2>14. ASSUME NEW q \in Requests
           PROVE  RequestFacts(req[q])'
      <3>1. CASE q = r
        BY <2>9, <3>1 DEF RequestFacts
      <3>2. CASE q # r
        <4>1. req'[q] = req[q] /\ req[q].tok \in Nat
          BY <2>9, <3>2 DEF IInv, TypeOK, Request
        <4>2. RequestFacts(req[q])
          BY DEF IInv
        <4>3. req[q].tok < nextToken => req[q].tok # nextToken /\ req[q].tok < nextToken + 1
          BY <2>2, <4>1
        <4>4. req[q].pc = "claim" => ClaimFacts(req[q])'
          BY <2>1, <2>8, <2>10, <4>1, <4>2, <4>3 DEF RequestFacts, ClaimFacts
        <4> QED
          BY <2>1, <4>1, <4>2, <4>4 DEF RequestFacts, KnownPassword
      <3> QED
        BY <3>1, <3>2
    <2>15. OneLiveTokenPerFamily'
      <3>1. \A t \in DOMAIN token :
              token[t].family = row.family /\ token[t].reason = "none" => t = tok
        BY <2>2, <2>3, <2>7 DEF IInv, OneLiveTokenPerFamily, Live, ClaimFacts, tok
      <3> QED
        BY <2>7, <2>8, <2>10, <3>1 DEF IInv, OneLiveTokenPerFamily, Live
    <2>16. RotationIsAChain'
      <3>1. \A t \in DOMAIN token : token[t].parent # tok
        BY <2>2 DEF IInv, TokenFacts
      <3> QED
        BY <2>7, <2>8, <2>10, <3>1 DEF IInv, RotationIsAChain
    <2> QED
      BY <2>13, <2>14, <2>15, <2>16 DEF IInv
  <1> QED
    BY <1>1, <1>2


-----------------------------------------------------------------------------
(* The invariant is inductive *)

LEMMA InitIInv == Init => IInv
  <1> SUFFICES ASSUME Init PROVE IInv
    OBVIOUS
  <1>1. TypeOK
    BY InitType
  <1>2. \A r \in Requests : req[r].pc = "idle"
    BY DEF Init, NoRequest
  <1> QED
    BY <1>1, <1>2 DEF Init, IInv, TokenFacts, RequestFacts, OneLiveTokenPerFamily,
                      RotationIsAChain

\* The rows read for a handler that waits: they satisfy what it relies on.
LEMMA WaitForKeepsIInv ==
  ASSUME IInv, NEW r \in Requests, NEW t \in DOMAIN token,
         NEW pc \in {"claim", "expire", "revoke"}, NEW reason \in Reason,
         WaitFor(r, t, pc, reason),
         pc = "claim" => token[t].client = "NATIVE" /\ Current(t),
         pc = "revoke" => reason \in {"REUSE_DETECTED", "LOGOUT"}
  PROVE  IInv'
  <1> DEFINE q == [NoRequest EXCEPT !.pc = pc, !.tok = t, !.family = token[t].family,
                                    !.version = user.version,
                                    !.password = token[t].password, !.reason = reason]
  <1>1. q \in Request
    BY WaitForType DEF IInv
  <1>2. /\ q.pc = pc /\ q.tok = t /\ q.family = token[t].family
        /\ q.version = user.version /\ q.password = token[t].password
        /\ q.reason = reason
    BY DEF NoRequest
  <1>3. Wait(r, q)
    BY DEF WaitFor
  <1> HIDE DEF q
  <1>4. t < nextToken
    BY DEF IInv, TypeOK
  <1>5. RequestFacts(q)
    BY <1>2, <1>4 DEF RequestFacts, ClaimFacts, Current
  <1> QED
    BY <1>1, <1>3, <1>5, WaitKeepsIInv

LEMMA NextIInv == IInv /\ [Next]_vars => IInv'
  <1> SUFFICES ASSUME IInv, [Next]_vars PROVE IInv'
    OBVIOUS
  <1>0. TypeOK /\ TypeOK' /\ user.version \in Nat /\ user.password \in Nat
    BY NextType DEF IInv, TypeOK
  <1>1. ASSUME NEW r \in Requests, NEW password \in 0 .. user.password,
               NEW client \in ClientType, LoginRead(r, client, password)
        PROVE  IInv'
    <2>1. CASE Refuse(r)
      BY <2>1, RefuseKeepsIInv
    <2>2. CASE ~Refuse(r)
      <3> DEFINE q == [NoRequest EXCEPT !.pc = "create", !.client = client,
                         !.version = user.version, !.password = password]
      <3>1. Wait(r, q) /\ password = user.password
        BY <1>1, <2>2 DEF LoginRead
      <3>2. q \in Request
        BY <1>0, <3>1 DEF NoRequest, Request, Reason, ClientType
      <3>3. q.pc = "create" /\ q.version = user.version /\ q.password = password
        BY DEF NoRequest
      <3> HIDE DEF q
      <3>4. RequestFacts(q)
        BY <1>0, <3>1, <3>3 DEF RequestFacts, KnownPassword
      <3> QED
        BY <3>1, <3>2, <3>4, WaitKeepsIInv
    <2> QED
      BY <2>1, <2>2
  <1>2. ASSUME NEW r \in Requests, LoginCreate(r)
        PROVE  IInv'
    BY <1>0, <1>2, LoginCreateKeepsIInv
  <1>3. ASSUME NEW r \in Requests, NEW t, RotateRead(r, t)
        PROVE  IInv'
    BY <1>3, RefuseKeepsIInv, WaitForKeepsIInv DEF RotateRead, Reason
  <1>4. ASSUME NEW r \in Requests, RotateClaim(r)
        PROVE  IInv'
    BY <1>0, <1>4, RotateClaimKeepsIInv
  <1>5. ASSUME NEW r \in Requests, MarkExpired(r)
        PROVE  IInv'
    <2>1. CASE Refuse(r)
      BY <2>1, RefuseKeepsIInv
    <2>2. CASE ~Refuse(r)
      <3>1. /\ token' = [token EXCEPT ![req[r].tok].reason = "EXPIRED"]
            /\ req[r].tok \in DOMAIN token
            /\ Answer(r, "failed") /\ UNCHANGED <<user, nextToken>>
        BY <1>5, <2>2 DEF MarkExpired
      <3>2. \A t \in DOMAIN token : token[t] \in Token
        BY <1>0 DEF TypeOK
      <3>3. \A t \in DOMAIN token : /\ token'[t].client = token[t].client
                                    /\ token'[t].family = token[t].family
                                    /\ token'[t].version = token[t].version
                                    /\ token'[t].password = token[t].password
                                    /\ token'[t].parent = token[t].parent
                                    /\ token'[t].reason = "none" => token[t].reason = "none"
        BY <3>1, <3>2 DEF Token
      <3>4. Shrinks /\ BumpRevokes
        BY <3>1, <3>3 DEF IInv, TokenFacts, Shrinks, BumpRevokes
      <3> QED
        BY <1>0, <3>1, <3>4, AnswerKeepsIInv
    <2> QED
      BY <2>1, <2>2
  <1>6. ASSUME NEW r \in Requests, RevokeFamily(r)
        PROVE  IInv'
    <2>1. req[r].reason \in Reason
      BY <1>0 DEF TypeOK, Request
    <2>2. PICK pc \in {"done", "failed"} : Answer(r, pc)
      BY <1>6 DEF RevokeFamily
    <2>3. token' = Revoke(FamilyOf(req[r].family), req[r].reason)
            /\ UNCHANGED <<user, nextToken>>
      BY <1>6 DEF RevokeFamily
    <2>4. BumpRevokes
      BY <2>3 DEF BumpRevokes
    <2> QED
      BY <1>0, <2>1, <2>2, <2>3, <2>4, RevokeShrinks, AnswerKeepsIInv
  <1>7. ASSUME NEW r \in Requests, NEW t, NativeLogoutRead(r, t)
        PROVE  IInv'
    BY <1>7, RefuseKeepsIInv, WaitForKeepsIInv DEF NativeLogoutRead, Reason
  <1>8. ASSUME NEW r \in Requests, NEW t, WebLogout(r, t)
        PROVE  IInv'
    <2>1. token' = Delete({t}) /\ Answer(r, "done") /\ UNCHANGED <<user, nextToken>>
      BY <1>8 DEF WebLogout
    <2> QED
      BY <1>0, <2>1, DeleteShrinks, AnswerKeepsIInv DEF BumpRevokes
  <1>9. ASSUME NEW r \in Requests, LogoutAll(r)
        PROVE  IInv'
    <2>1. CASE Refuse(r)
      BY <2>1, RefuseKeepsIInv
    <2>2. CASE ~Refuse(r)
      <3>1. user' = [user EXCEPT !.version = @ + 1]
              /\ token' = Revoke(DOMAIN token, "LOGOUT_ALL")
              /\ Answer(r, "done") /\ UNCHANGED nextToken
        BY <1>9, <2>2 DEF LogoutAll
      <3>2. Shrinks
        BY <3>1, RevokeShrinks DEF Reason
      <3>3. user'.version > user.version
        BY <1>0, <3>1 DEF TypeOK
      <3>4. \A t \in DOMAIN token' : token'[t].reason # "none"
        <4>1. token \in [DOMAIN token -> Token] /\ "LOGOUT_ALL" \in Reason
          BY <1>0 DEF TypeOK, Reason
        <4>2. /\ DOMAIN token' = DOMAIN token
              /\ \A t \in DOMAIN token :
                   token'[t] = IF t \in DOMAIN token /\ token[t].reason = "none"
                                 THEN [token[t] EXCEPT !.reason = "LOGOUT_ALL"]
                                 ELSE token[t]
          BY <3>1, <4>1, RevokeIsTable
        <4>3. \A t \in DOMAIN token : token[t] \in Token
          BY <4>1
        <4> QED
          BY <4>2, <4>3 DEF Token
      <3> QED
        BY <1>0, <3>1, <3>2, <3>3, <3>4, AnswerKeepsIInv DEF BumpRevokes
    <2> QED
      BY <2>1, <2>2
  <1>10. ASSUME NEW r \in Requests, NEW password, ChangePasswordRead(r, password)
         PROVE  IInv'
    <2> DEFINE q == [NoRequest EXCEPT !.pc = "change"]
    <2>1. q \in Request /\ q.pc = "change"
      BY DEF NoRequest, Request, ClientType, Reason
    <2>2. Refuse(r) \/ Wait(r, q)
      BY <1>10 DEF ChangePasswordRead
    <2> HIDE DEF q
    <2>3. RequestFacts(q)
      BY <2>1 DEF RequestFacts
    <2> QED
      BY <2>1, <2>2, <2>3, RefuseKeepsIInv, WaitKeepsIInv
  <1>11. ASSUME NEW r \in Requests, ChangePasswordCommit(r)
         PROVE  IInv'
    <2>1. CASE Refuse(r)
      BY <2>1, RefuseKeepsIInv
    <2>2. CASE ~Refuse(r)
      <3>1. user'.version = user.version + 1
              /\ token' = Delete(DOMAIN token)
              /\ Answer(r, "done") /\ UNCHANGED nextToken
        BY <1>11, <2>2 DEF ChangePasswordCommit
      <3>2. DOMAIN token' = {}
        BY <3>1 DEF Delete
      <3> QED
        BY <1>0, <3>1, <3>2, DeleteShrinks, AnswerKeepsIInv DEF BumpRevokes
    <2> QED
      BY <2>1, <2>2
  <1>12. ASSUME NEW r \in Requests, DeleteUser(r)
         PROVE  IInv'
    <2>1. CASE Refuse(r)
      BY <2>1, RefuseKeepsIInv
    <2>2. CASE ~Refuse(r)
      <3>1. user' = [user EXCEPT !.exists = FALSE]
              /\ token' = Delete(DOMAIN token)
              /\ Answer(r, "done") /\ UNCHANGED nextToken
        BY <1>12, <2>2 DEF DeleteUser
      <3>2. user'.version = user.version /\ user'.password = user.password
        BY <1>0, <3>1 DEF TypeOK
      <3> QED
        BY <1>0, <3>1, <3>2, DeleteShrinks, AnswerKeepsIInv DEF BumpRevokes
    <2> QED
      BY <2>1, <2>2
  <1>13. ASSUME NEW r \in Requests, Abort(r)
         PROVE  IInv'
    BY <1>13, RefuseKeepsIInv DEF Abort
  <1>14. ASSUME NEW t \in DOMAIN token, Expire(t)
         PROVE  IInv'
    <2>1. \A u \in DOMAIN token : token[u] \in Token
      BY <1>0 DEF TypeOK
    <2>2. \A u \in DOMAIN token : /\ token'[u].client = token[u].client
                                  /\ token'[u].family = token[u].family
                                  /\ token'[u].version = token[u].version
                                  /\ token'[u].password = token[u].password
                                  /\ token'[u].parent = token[u].parent
                                  /\ token'[u].reason = token[u].reason
      BY <1>14, <2>1 DEF Expire, Token
    <2>3. Shrinks /\ BumpRevokes
      BY <1>14, <2>2 DEF Expire, IInv, TokenFacts, Shrinks, BumpRevokes
    <2>4. \A q \in Requests : req'[q] = req[q]
      BY <1>14 DEF Expire
    <2> QED
      BY <1>0, <2>3, <2>4, ShrinksKeepsIInv, ShrinksKeepsRequestFacts
  <1>15. CASE UNCHANGED vars
    <2>1. UNCHANGED tables /\ \A q \in Requests : req'[q] = req[q]
      BY <1>15 DEF vars, tables
    <2> QED
      BY <1>0, <2>1, UnchangedTablesShrink, ShrinksKeepsIInv, ShrinksKeepsRequestFacts
  <1> QED
    BY <1>1, <1>2, <1>3, <1>4, <1>5, <1>6, <1>7, <1>8, <1>9, <1>10, <1>11, <1>12,
       <1>13, <1>14, <1>15 DEF Next, AllAnswered

\* What handlers have read, and what is stored, stays consistent.
THEOREM InvariantHolds == Spec => []IInv
  BY InitIInv, NextIInv, PTL DEF Spec


\* A device family holds one live token: no two rotations of one token win.
THEOREM OneLiveToken == Spec => []OneLiveTokenPerFamily
  <1>1. IInv => OneLiveTokenPerFamily
    BY DEF IInv
  <1> QED
    BY <1>1, InvariantHolds, PTL

\* The replacements of a row form a chain.
THEOREM RotationChain == Spec => []RotationIsAChain
  <1>1. IInv => RotationIsAChain
    BY DEF IInv
  <1> QED
    BY <1>1, InvariantHolds, PTL

\* A usable token descends from a login with the present password.
THEOREM UsableTokens == Spec => []UsableTokenKnowsPassword
  <1>1. IInv => UsableTokenKnowsPassword
    BY DEF IInv, TokenFacts, KnownPassword, UsableTokenKnowsPassword, Usable, Current
  <1> QED
    BY <1>1, InvariantHolds, PTL

-----------------------------------------------------------------------------
(* What a step may never do *)


-----------------------------------------------------------------------------
(* What a step may never do *)

\* The rows of S, and no others, are given the reason; only current rows are
\* claimed, and a replay reaches one family.
Relabels(S, reason) ==
  /\ \A t \in DOMAIN token \cap DOMAIN token' :
       /\ token'[t].client = token[t].client
       /\ token'[t].family = token[t].family
       /\ \/ token'[t].reason = token[t].reason
          \/ t \in S /\ token'[t].reason = reason /\ token'[t].reason # "none"
  /\ reason = "ROTATED" => \A t \in S : Current(t)
  /\ reason = "REUSE_DETECTED" =>
       \A t, u \in S : token[t].family = token[u].family

LEMMA QuietRelabels ==
  ASSUME \A t \in DOMAIN token \cap DOMAIN token' :
           /\ token'[t].client = token[t].client
           /\ token'[t].family = token[t].family
           /\ token'[t].reason = token[t].reason
  PROVE  \E S, reason : Relabels(S, reason)
  <1>1. Relabels({}, "none")
    BY DEF Relabels
  <1> QED
    BY <1>1

LEMMA RevokeRelabels ==
  ASSUME IInv, NEW S, NEW reason \in Reason \ {"none", "ROTATED"},
         token' = Revoke(S, reason),
         reason = "REUSE_DETECTED" => \E f : S = FamilyOf(f)
  PROVE  \E T, why : Relabels(T, why)
  <1>1. token \in [DOMAIN token -> Token]
    BY DEF IInv, TypeOK
  <1>2. /\ DOMAIN token' = DOMAIN token
        /\ \A t \in DOMAIN token :
             token'[t] = IF t \in S /\ token[t].reason = "none"
                           THEN [token[t] EXCEPT !.reason = reason] ELSE token[t]
    BY <1>1, RevokeIsTable
  <1>3. \A t \in DOMAIN token : token[t] \in Token
    BY <1>1
  <1>4. \A t \in DOMAIN token : /\ token'[t].client = token[t].client
                                /\ token'[t].family = token[t].family
                                /\ \/ token'[t].reason = token[t].reason
                                   \/ /\ t \in S
                                      /\ token'[t].reason = reason
                                      /\ token'[t].reason # "none"
    BY <1>2, <1>3 DEF Token
  <1>5. Relabels(S, reason)
    BY <1>4 DEF Relabels, FamilyOf
  <1> QED
    BY <1>5

LEMMA DeleteRelabels ==
  ASSUME IInv, NEW S, token' = Delete(S)
  PROVE  \E T, why : Relabels(T, why)
  <1>1. token \in [DOMAIN token -> Token]
    BY DEF IInv, TypeOK
  <1>2. /\ DOMAIN token' = DOMAIN token \ S
        /\ \A t \in DOMAIN token \ S :
             token'[t] = [token[t] EXCEPT !.parent = IF @ \in S THEN 0 ELSE @,
                                          !.replacement = IF @ \in S THEN 0 ELSE @]
    BY <1>1, DeleteIsTable
  <1>3. \A t \in DOMAIN token : token[t] \in Token
    BY <1>1
  <1>4. \A t \in DOMAIN token' : /\ token'[t].client = token[t].client
                                 /\ token'[t].family = token[t].family
                                 /\ token'[t].reason = token[t].reason
    BY <1>2, <1>3 DEF Token
  <1> QED
    BY <1>4, QuietRelabels

LEMMA ClaimRelabels ==
  ASSUME IInv, NEW r \in Requests, RotateClaim(r)
  PROVE  \E T, why : Relabels(T, why)
  <1> DEFINE tok == req[r].tok
             claimed == [token EXCEPT ![tok].reason = "ROTATED",
                                      ![tok].replacement = nextToken]
  <1>1. CASE ~Claims(req[r])
    <2>1. UNCHANGED token
      BY <1>1 DEF RotateClaim, Wait, tables
    <2> QED
      BY <2>1, QuietRelabels
  <1>2. CASE Claims(req[r])
    <2>1. /\ req[r].pc = "claim"
          /\ \E row : token' = Insert(claimed, row)
      BY <1>2 DEF RotateClaim
    <2>2. tok \in DOMAIN token /\ token[tok].reason = "none" /\ token[tok] \in Token
      BY <1>2 DEF IInv, TypeOK, Claims, Live
    <2>3. nextToken \notin DOMAIN token
      BY DEF IInv, TypeOK
    <2>4. /\ DOMAIN claimed = DOMAIN token
          /\ \A t \in DOMAIN token \ {tok} : claimed[t] = token[t]
          /\ claimed[tok].reason = "ROTATED"
          /\ claimed[tok].client = token[tok].client
          /\ claimed[tok].family = token[tok].family
      BY <2>2 DEF IInv, TypeOK, Token
    <2> HIDE DEF claimed
    <2>5. \A t \in DOMAIN token : token'[t] = claimed[t]
      BY <2>1, <2>3, <2>4 DEF Insert
    <2>6. Current(tok)
      BY <2>1, <2>2 DEF IInv, RequestFacts, ClaimFacts, Current
    <2>7. Relabels({tok}, "ROTATED")
      BY <2>2, <2>4, <2>5, <2>6 DEF Relabels
    <2> QED
      BY <2>7
  <1> QED
    BY <1>1, <1>2

LEMMA NextRelabels ==
  ASSUME IInv, [Next]_vars
  PROVE  \E S, reason : Relabels(S, reason)
  <1>0. UNCHANGED token => \E S, reason : Relabels(S, reason)
    BY QuietRelabels
  <1>1. ASSUME NEW r \in Requests, NEW password, NEW client, LoginRead(r, client, password)
        PROVE  UNCHANGED token
    BY <1>1 DEF LoginRead, Wait, Refuse, tables
  <1>2. ASSUME NEW r \in Requests, LoginCreate(r)
        PROVE  \E S, reason : Relabels(S, reason)
    <2>1. CASE UNCHANGED token
      BY <1>0, <2>1
    <2>2. CASE \E row : token' = Insert(token, row)
      <3>1. nextToken \notin DOMAIN token
        BY DEF IInv, TypeOK
      <3>2. \A t \in DOMAIN token : token'[t] = token[t]
        BY <2>2, <3>1 DEF Insert
      <3> QED
        BY <3>2, QuietRelabels
    <2> QED
      BY <1>2, <2>1, <2>2 DEF LoginCreate, Refuse, tables
  <1>3. ASSUME NEW r \in Requests, NEW t, RotateRead(r, t)
        PROVE  UNCHANGED token
    BY <1>3 DEF RotateRead, WaitFor, Wait, Refuse, tables
  <1>4. ASSUME NEW r \in Requests, MarkExpired(r)
        PROVE  \E S, reason : Relabels(S, reason)
    <2>1. CASE UNCHANGED token
      BY <1>0, <2>1
    <2>2. CASE /\ token' = [token EXCEPT ![req[r].tok].reason = "EXPIRED"]
               /\ req[r].tok \in DOMAIN token
      <3>1. \A t \in DOMAIN token : token[t] \in Token
        BY DEF IInv, TypeOK
      <3>2. Relabels({req[r].tok}, "EXPIRED")
        BY <2>2, <3>1 DEF Relabels, Token
      <3> QED
        BY <3>2
    <2> QED
      BY <1>4, <2>1, <2>2 DEF MarkExpired, Refuse, tables
  <1>5. ASSUME NEW r \in Requests, RevokeFamily(r)
        PROVE  \E S, reason : Relabels(S, reason)
    <2>1. req[r].reason \in {"REUSE_DETECTED", "LOGOUT"}
      BY <1>5 DEF RevokeFamily, IInv, RequestFacts
    <2>2. token' = Revoke(FamilyOf(req[r].family), req[r].reason)
      BY <1>5 DEF RevokeFamily
    <2>3. req[r].reason \in Reason \ {"none", "ROTATED"}
      BY <2>1 DEF Reason
    <2> QED
      BY <2>2, <2>3, RevokeRelabels
  <1>6. ASSUME NEW r \in Requests, NEW t, NativeLogoutRead(r, t)
        PROVE  UNCHANGED token
    BY <1>6 DEF NativeLogoutRead, WaitFor, Wait, Refuse, tables
  <1>7. ASSUME NEW r \in Requests, NEW t, WebLogout(r, t)
        PROVE  \E S, reason : Relabels(S, reason)
    BY <1>7, DeleteRelabels DEF WebLogout
  <1>8. ASSUME NEW r \in Requests, LogoutAll(r)
        PROVE  \E S, reason : Relabels(S, reason)
    <2>1. CASE UNCHANGED token
      BY <1>0, <2>1
    <2>2. CASE token' = Revoke(DOMAIN token, "LOGOUT_ALL")
      BY <2>2, RevokeRelabels DEF Reason
    <2> QED
      BY <1>8, <2>1, <2>2 DEF LogoutAll, Refuse, tables
  <1>9. ASSUME NEW r \in Requests, NEW password, ChangePasswordRead(r, password)
        PROVE  UNCHANGED token
    BY <1>9 DEF ChangePasswordRead, Wait, Refuse, tables
  <1>10. ASSUME NEW r \in Requests, ChangePasswordCommit(r) \/ DeleteUser(r)
         PROVE  \E S, reason : Relabels(S, reason)
    BY <1>0, <1>10, DeleteRelabels DEF ChangePasswordCommit, DeleteUser, Refuse, tables
  <1>11. ASSUME NEW r \in Requests, Abort(r)
         PROVE  UNCHANGED token
    BY <1>11 DEF Abort, Refuse, tables
  <1>12. ASSUME NEW t \in DOMAIN token, Expire(t)
         PROVE  \E S, reason : Relabels(S, reason)
    <2>1. \A u \in DOMAIN token : token[u] \in Token
      BY DEF IInv, TypeOK
    <2>2. \A u \in DOMAIN token : /\ token'[u].client = token[u].client
                                  /\ token'[u].family = token[u].family
                                  /\ token'[u].reason = token[u].reason
      BY <1>12, <2>1 DEF Expire, Token
    <2> QED
      BY <2>2, QuietRelabels
  <1>13. CASE UNCHANGED vars
    BY <1>0, <1>13 DEF vars
  <1> QED
    BY <1>0, <1>1, <1>2, <1>3, <1>4, <1>5, <1>6, <1>7, <1>8, <1>9, <1>10, <1>11, <1>12,
       <1>13, ClaimRelabels DEF Next, AllAnswered

\* The version check of a rotation is still true when its claim commits.
THEOREM CurrentRotation == Spec => OnlyCurrentTokensRotate
  <1>1. IInv /\ [Next]_vars =>
          [\A t \in DOMAIN token \cap DOMAIN token' :
             token[t].reason = "none" /\ token'[t].reason = "ROTATED"
               => token[t].version = user.version]_vars
    BY NextRelabels DEF Relabels, Current
  <1> QED
    BY <1>1, InvariantHolds, PTL DEF Spec, OnlyCurrentTokensRotate

\* A detected replay costs one device its session.
THEOREM ReplayIsLocal == Spec => ReplayRevokesOneFamily
  <1>1. IInv /\ [Next]_vars =>
          [\A t, u \in DOMAIN token \cap DOMAIN token' :
             /\ token[t].reason = "none" /\ token'[t].reason = "REUSE_DETECTED"
             /\ token[u].reason = "none" /\ token'[u].reason # "none"
             => token[u].family = token[t].family]_vars
    BY NextRelabels DEF Relabels
  <1> QED
    BY <1>1, InvariantHolds, PTL DEF Spec, ReplayRevokesOneFamily


\* A row is inserted into a new family, or into one that has a live row.
Inserts ==
  \A t \in DOMAIN token' \ DOMAIN token :
    \/ token'[t].family = nextToken
    \/ \E u \in DOMAIN token : /\ token[u].client = "NATIVE"
                               /\ token[u].family = token'[t].family
                               /\ token[u].reason = "none"

LEMMA NextInserts ==
  ASSUME IInv, [Next]_vars
  PROVE  Inserts
  <1>0. DOMAIN token' \subseteq DOMAIN token => Inserts
    BY DEF Inserts
  <1>1. ASSUME NEW r \in Requests, LoginCreate(r)
        PROVE  Inserts
    <2>1. CASE UNCHANGED token
      BY <1>0, <2>1
    <2>2. CASE \E row : token' = Insert(token, row) /\ row.family = nextToken
      <3>1. /\ DOMAIN token' = DOMAIN token \cup {nextToken}
            /\ token'[nextToken].family = nextToken
        BY <2>2 DEF Insert
      <3> QED
        BY <3>1 DEF Inserts
    <2> QED
      BY <1>1, <2>1, <2>2 DEF LoginCreate, Refuse, tables
  <1>2. ASSUME NEW r \in Requests, RotateClaim(r)
        PROVE  Inserts
    <2> DEFINE tok == req[r].tok
               claimed == [token EXCEPT ![tok].reason = "ROTATED",
                                        ![tok].replacement = nextToken]
    <2>1. CASE ~Claims(req[r])
      BY <1>0, <1>2, <2>1 DEF RotateClaim, Wait, tables
    <2>2. CASE Claims(req[r])
      <3>1. /\ req[r].pc = "claim"
            /\ \E row : token' = Insert(claimed, row) /\ row.family = req[r].family
        BY <1>2, <2>2 DEF RotateClaim
      <3>2. tok \in DOMAIN token /\ token[tok].reason = "none"
        BY <2>2 DEF Claims, Live
      <3>3. token[tok].client = "NATIVE" /\ token[tok].family = req[r].family
        BY <3>1, <3>2 DEF IInv, RequestFacts, ClaimFacts
      <3>4. DOMAIN claimed = DOMAIN token
        BY DEF IInv, TypeOK
      <3> HIDE DEF claimed
      <3>5. /\ DOMAIN token' = DOMAIN token \cup {nextToken}
            /\ token'[nextToken].family = req[r].family
        BY <3>1, <3>4 DEF Insert
      <3> QED
        BY <3>2, <3>3, <3>5 DEF Inserts
    <2> QED
      BY <2>1, <2>2
  <1>3. ASSUME NEW r \in Requests, NEW password, NEW client,
               LoginRead(r, client, password) \/ ChangePasswordRead(r, password)
        PROVE  DOMAIN token' \subseteq DOMAIN token
    BY <1>3 DEF LoginRead, ChangePasswordRead, Wait, Refuse, tables
  <1>4. ASSUME NEW r \in Requests, NEW t,
               RotateRead(r, t) \/ NativeLogoutRead(r, t) \/ WebLogout(r, t)
        PROVE  DOMAIN token' \subseteq DOMAIN token
    BY <1>4 DEF RotateRead, NativeLogoutRead, WaitFor, Wait, Refuse, tables, WebLogout, Delete
  <1>5. ASSUME NEW r \in Requests,
               \/ MarkExpired(r) \/ RevokeFamily(r) \/ LogoutAll(r)
               \/ ChangePasswordCommit(r) \/ DeleteUser(r) \/ Abort(r)
        PROVE  DOMAIN token' \subseteq DOMAIN token
    BY <1>5 DEF MarkExpired, RevokeFamily, LogoutAll, ChangePasswordCommit, DeleteUser, Abort,
                Refuse, tables, Revoke, Delete, IInv, TypeOK
  <1>6. ASSUME NEW t \in DOMAIN token, Expire(t)
        PROVE  DOMAIN token' \subseteq DOMAIN token
    BY <1>6 DEF Expire, IInv, TypeOK
  <1>7. CASE UNCHANGED vars
    BY <1>0, <1>7 DEF vars
  <1> QED
    BY <1>0, <1>1, <1>2, <1>3, <1>4, <1>5, <1>6, <1>7 DEF Next, AllAnswered

\* Logout and replay detection are final for the device they end.
THEOREM DeadFamilies == Spec => DeadFamiliesStayDead
  <1>1. ASSUME IInv, [Next]_vars
        PROVE  [\A f \in 1 .. (nextToken - 1) :
                  FamilyDead(f) => \A t \in FamilyOf(f)' : ~Live(t)']_vars
    <2> SUFFICES ASSUME NEW f \in 1 .. (nextToken - 1), FamilyDead(f),
                        NEW t \in DOMAIN token', token'[t].client = "NATIVE",
                        token'[t].family = f, token'[t].reason = "none"
                 PROVE  FALSE
      BY DEF FamilyOf, Live
    <2>1. f # nextToken
      BY DEF IInv, TypeOK
    <2>2. CASE t \in DOMAIN token
      <3>1. /\ token[t].client = "NATIVE" /\ token[t].family = f
            /\ token[t].reason = "none"
        BY <1>1, <2>2, NextRelabels DEF Relabels
      <3> QED
        BY <2>2, <3>1 DEF FamilyDead, FamilyOf, Live
    <2>3. CASE t \notin DOMAIN token
      BY <1>1, <2>1, <2>3, NextInserts DEF Inserts, FamilyDead, FamilyOf, Live
    <2> QED
      BY <2>2, <2>3
  <1> QED
    BY <1>1, InvariantHolds, PTL DEF Spec, DeadFamiliesStayDead

-----------------------------------------------------------------------------
(* The refinement: the refresh sessions implement the devices of           *)
(* SessionDevices, for any set of requests.                                *)

\* The pair a live row stands for.
Held(t) == [device |-> token[t].family, token |-> t]

LEMMA HoldsMembers ==
  ASSUME NEW h
  PROVE  h \in Holds <=> \E t \in DOMAIN token : token[t].reason = "none" /\ h = Held(t)
  BY DEF Holds, Live, Held

\* A pair names its token, so distinct rows are distinct pairs.
LEMMA HeldNamesToken ==
  ASSUME NEW t, NEW u, Held(t) = Held(u)
  PROVE  t = u
  <1>1. Held(t).token = t /\ Held(u).token = u
    BY DEF Held
  <1> QED
    BY <1>1

-----------------------------------------------------------------------------
(* Steps that change no device, sign one out, or sign all out *)

\* The rows keep their families; the rows of S, and no others, stop being live.
Ends(S) ==
  /\ nextToken' = nextToken
  /\ DOMAIN token' \subseteq DOMAIN token
  /\ \A t \in DOMAIN token' : token'[t].family = token[t].family
  /\ \A t \in DOMAIN token \ S :
       token[t].reason = "none" =>
         t \in DOMAIN token' /\ token'[t].reason = "none"
  /\ \A t \in DOMAIN token' :
       token'[t].reason = "none" => t \notin S /\ token[t].reason = "none"

LEMMA EndsRemoves ==
  ASSUME NEW S, Ends(S)
  PROVE  Holds' = Holds \ {Held(t) : t \in S}
  <1>1. ASSUME NEW h \in Holds', h \notin Holds \ {Held(t) : t \in S}
        PROVE  FALSE
    <2>1. PICK t \in DOMAIN token' :
            token'[t].reason = "none" /\ h = [device |-> token'[t].family, token |-> t]
      BY <1>1 DEF Holds, Live
    <2>2. t \in DOMAIN token /\ t \notin S /\ token[t].reason = "none" /\ h = Held(t)
      BY <2>1 DEF Ends, Held
    <2>3. h \in Holds
      BY <2>2, HoldsMembers
    <2>4. \A u \in S : h # Held(u)
      BY <2>2, HeldNamesToken
    <2> QED
      BY <1>1, <2>3, <2>4
  <1>2. ASSUME NEW h \in Holds, h \notin {Held(t) : t \in S}
        PROVE  h \in Holds'
    <2>1. PICK t \in DOMAIN token : token[t].reason = "none" /\ h = Held(t)
      BY HoldsMembers
    <2>2. t \notin S
      BY <1>2, <2>1
    <2>3. t \in DOMAIN token' /\ token'[t].reason = "none" /\ token'[t].family = token[t].family
      BY <2>1, <2>2 DEF Ends
    <2> QED
      BY <2>1, <2>3 DEF Holds, Live, Held
  <1> QED
    BY <1>1, <1>2

LEMMA EndsNone ==
  ASSUME Ends({})
  PROVE  UNCHANGED <<nextToken - 1, Holds>>
  <1>1. Holds' = Holds \ {Held(t) : t \in {}}
    BY EndsRemoves
  <1>2. Holds' = Holds
    BY <1>1
  <1>3. nextToken' = nextToken
    BY DEF Ends
  <1> QED
    BY <1>2, <1>3

\* At most one live row is ended: its device is signed out.
LEMMA EndsOne ==
  ASSUME NEW S, Ends(S),
         \A t, u \in S \cap DOMAIN token :
           token[t].reason = "none" /\ token[u].reason = "none" => t = u
  PROVE  [Devices!Next]_<<nextToken - 1, Holds>>
  <1>1. Holds' = Holds \ {Held(t) : t \in S} /\ nextToken' = nextToken
    BY EndsRemoves DEF Ends
  <1>2. CASE Holds \cap {Held(t) : t \in S} = {}
    BY <1>1, <1>2
  <1>3. CASE Holds \cap {Held(t) : t \in S} # {}
    <2>1. PICK h \in Holds : h \in {Held(t) : t \in S}
      BY <1>3
    <2>2. PICK t \in S : h = Held(t)
      BY <2>1
    <2>3. t \in DOMAIN token /\ token[t].reason = "none"
      BY <2>1, <2>2, HoldsMembers, HeldNamesToken
    <2>4. ASSUME NEW g \in Holds, g \in {Held(u) : u \in S}
          PROVE  g = h
      <3>1. PICK u \in S : g = Held(u)
        BY <2>4
      <3>2. u \in DOMAIN token /\ token[u].reason = "none"
        BY <2>4, <3>1, HoldsMembers, HeldNamesToken
      <3> QED
        BY <2>2, <2>3, <3>1, <3>2
    <2>5. Holds' = Holds \ {h}
      BY <1>1, <2>1, <2>4
    <2>6. Devices!SignOut(h)
      BY <1>1, <2>5 DEF Devices!SignOut
    <2> QED
      BY <2>6 DEF Devices!Next
  <1> QED
    BY <1>2, <1>3

\* No row is live any more: every device is signed out.
LEMMA EndsAll ==
  ASSUME nextToken' = nextToken, \A t \in DOMAIN token' : token'[t].reason # "none"
  PROVE  [Devices!Next]_<<nextToken - 1, Holds>>
  <1>1. Holds' = {}
    BY DEF Holds, Live
  <1>2. Devices!SignOutAll
    BY <1>1 DEF Devices!SignOutAll
  <1> QED
    BY <1>2 DEF Devices!Next

\* Nothing but requests, expiry marks and links changes.
LEMMA QuietEnds ==
  ASSUME nextToken' = nextToken, DOMAIN token' = DOMAIN token,
         \A t \in DOMAIN token : /\ token'[t].family = token[t].family
                                 /\ token'[t].reason = token[t].reason
  PROVE  [Devices!Next]_<<nextToken - 1, Holds>>
  <1>1. Ends({})
    BY DEF Ends
  <1> QED
    BY <1>1, EndsNone

-----------------------------------------------------------------------------
(* The actions *)

LEMMA DeleteEnds ==
  ASSUME IInv, NEW S, token' = Delete(S), nextToken' = nextToken
  PROVE  Ends(S)
  <1>1. token \in [DOMAIN token -> Token]
    BY DEF IInv, TypeOK
  <1>2. /\ DOMAIN token' = DOMAIN token \ S
        /\ \A t \in DOMAIN token \ S :
             token'[t] = [token[t] EXCEPT !.parent = IF @ \in S THEN 0 ELSE @,
                                          !.replacement = IF @ \in S THEN 0 ELSE @]
    BY <1>1, DeleteIsTable
  <1>3. \A t \in DOMAIN token' : /\ token'[t].family = token[t].family
                                 /\ token'[t].reason = token[t].reason
    BY <1>1, <1>2 DEF Token
  <1> QED
    BY <1>2, <1>3 DEF Ends

LEMMA LoginSignsIn ==
  ASSUME IInv, NEW r \in Requests, LoginCreate(r)
  PROVE  [Devices!Next]_<<nextToken - 1, Holds>>
  <1>1. CASE Refuse(r)
    BY <1>1, QuietEnds DEF Refuse, tables
  <1>2. CASE ~Refuse(r)
    <2>1. PICK row : /\ token' = Insert(token, row) /\ nextToken' = nextToken + 1
                     /\ row.family = nextToken /\ row.reason = "none"
      BY <1>2 DEF LoginCreate
    <2>2. nextToken \in Nat /\ nextToken \notin DOMAIN token
      BY DEF IInv, TypeOK
    <2>3. /\ DOMAIN token' = DOMAIN token \cup {nextToken}
          /\ token'[nextToken] = row
          /\ \A t \in DOMAIN token : token'[t] = token[t]
      BY <2>1, <2>2 DEF Insert
    <2>4. Holds' = Holds \cup {[device |-> nextToken, token |-> nextToken]}
      BY <2>1, <2>2, <2>3 DEF Holds, Live
    <2>5. nextToken - 1 + 1 = nextToken /\ nextToken' - 1 = nextToken - 1 + 1
      BY <2>1, <2>2
    <2>6. Devices!SignIn
      BY <2>4, <2>5 DEF Devices!SignIn
    <2> QED
      BY <2>6 DEF Devices!Next
  <1> QED
    BY <1>1, <1>2

LEMMA ClaimRotates ==
  ASSUME IInv, NEW r \in Requests, RotateClaim(r)
  PROVE  [Devices!Next]_<<nextToken - 1, Holds>>
  <1> DEFINE tok == req[r].tok
             claimed == [token EXCEPT ![tok].reason = "ROTATED",
                                      ![tok].replacement = nextToken]
  <1>1. CASE ~Claims(req[r])
    BY <1>1, QuietEnds DEF RotateClaim, Wait, tables
  <1>2. CASE Claims(req[r])
    <2>1. PICK row : /\ token' = Insert(claimed, row) /\ nextToken' = nextToken + 1
                     /\ row.family = req[r].family /\ row.reason = "none"
                     /\ req[r].pc = "claim"
      BY <1>2 DEF RotateClaim
    <2>2. /\ tok \in DOMAIN token /\ token[tok].reason = "none" /\ token[tok] \in Token
          /\ nextToken \in Nat /\ nextToken \notin DOMAIN token
      BY <1>2 DEF IInv, TypeOK, Claims, Live
    <2>3. token[tok].family = req[r].family
      BY <2>1, <2>2 DEF IInv, RequestFacts, ClaimFacts
    <2>4. /\ DOMAIN claimed = DOMAIN token
          /\ claimed[tok].reason = "ROTATED"
          /\ \A t \in DOMAIN token \ {tok} : claimed[t] = token[t]
      BY <2>2 DEF IInv, TypeOK, Token
    <2> HIDE DEF claimed
    <2>5. /\ DOMAIN token' = DOMAIN token \cup {nextToken}
          /\ token'[nextToken] = row
          /\ token'[tok].reason = "ROTATED"
          /\ \A t \in DOMAIN token \ {tok} : token'[t] = token[t]
      BY <2>1, <2>2, <2>4 DEF Insert
    <2> HIDE DEF tok
    <2>6. Held(tok) \in Holds /\ Held(tok).device = token[tok].family
      BY <2>2, HoldsMembers DEF Held
    <2>7. Holds' = (Holds \ {Held(tok)}) \cup {[device |-> token[tok].family, token |-> nextToken]}
      <3>1. ASSUME NEW h \in Holds', h # [device |-> token[tok].family, token |-> nextToken]
            PROVE  h \in Holds \ {Held(tok)}
        <4>1. PICK t \in DOMAIN token' :
                token'[t].reason = "none" /\ h = [device |-> token'[t].family, token |-> t]
          BY DEF Holds, Live
        <4>2. t # nextToken
          BY <2>1, <2>3, <2>5, <3>1, <4>1 DEF tok
        <4>3. t \in DOMAIN token \ {tok}
          BY <2>5, <4>1, <4>2
        <4>4. token[t].reason = "none" /\ h = Held(t)
          BY <2>5, <4>1, <4>3 DEF Held
        <4> QED
          BY <4>3, <4>4, HoldsMembers, HeldNamesToken
      <3>2. ASSUME NEW h \in Holds, h # Held(tok)
            PROVE  h \in Holds'
        <4>1. PICK t \in DOMAIN token : token[t].reason = "none" /\ h = Held(t)
          BY HoldsMembers
        <4>2. t # tok
          BY <3>2, <4>1
        <4>3. t \in DOMAIN token' /\ token'[t] = token[t]
          BY <2>5, <4>1, <4>2
        <4> QED
          BY <4>1, <4>3 DEF Holds, Live, Held
      <3>3. [device |-> token[tok].family, token |-> nextToken] \in Holds'
        BY <2>1, <2>3, <2>5 DEF Holds, Live, tok
      <3> QED
        BY <3>1, <3>2, <3>3
    <2>8. nextToken - 1 + 1 = nextToken /\ nextToken' - 1 = nextToken - 1 + 1
      BY <2>1, <2>2
    <2>9. Devices!Rotate(Held(tok))
      BY <2>6, <2>7, <2>8 DEF Devices!Rotate
    <2> QED
      BY <2>6, <2>9 DEF Devices!Next
  <1> QED
    BY <1>1, <1>2

LEMMA RevokeFamilyEnds ==
  ASSUME IInv, NEW r \in Requests, RevokeFamily(r)
  PROVE  [Devices!Next]_<<nextToken - 1, Holds>>
  <1> DEFINE S == FamilyOf(req[r].family)
  <1>1. /\ token' = Revoke(S, req[r].reason) /\ nextToken' = nextToken
        /\ req[r].reason \in Reason \ {"none"}
    BY DEF RevokeFamily, IInv, RequestFacts, Reason
  <1>2. token \in [DOMAIN token -> Token]
    BY DEF IInv, TypeOK
  <1> HIDE DEF S
  <1>3. /\ DOMAIN token' = DOMAIN token
        /\ \A t \in DOMAIN token :
             token'[t] = IF t \in S /\ token[t].reason = "none"
                           THEN [token[t] EXCEPT !.reason = req[r].reason] ELSE token[t]
    BY <1>1, <1>2, RevokeIsTable
  <1>4. \A t \in DOMAIN token :
          /\ token'[t].family = token[t].family
          /\ t \in S => token'[t].reason # "none"
          /\ t \notin S => token'[t].reason = token[t].reason
          /\ token'[t].reason = "none" => token[t].reason = "none"
    BY <1>1, <1>2, <1>3 DEF Token
  <1>5. Ends(S)
    BY <1>1, <1>3, <1>4 DEF Ends
  <1>6. \A t, u \in S \cap DOMAIN token :
          token[t].reason = "none" /\ token[u].reason = "none" => t = u
    BY DEF S, FamilyOf, IInv, OneLiveTokenPerFamily, Live
  <1> QED
    BY <1>5, <1>6, EndsOne

LEMMA MarkExpiredEnds ==
  ASSUME IInv, NEW r \in Requests, MarkExpired(r)
  PROVE  [Devices!Next]_<<nextToken - 1, Holds>>
  <1>1. CASE Refuse(r)
    BY <1>1, QuietEnds DEF Refuse, tables
  <1>2. CASE ~Refuse(r)
    <2> DEFINE tok == req[r].tok
    <2>1. /\ tok \in DOMAIN token /\ nextToken' = nextToken
          /\ token' = [token EXCEPT ![tok].reason = "EXPIRED"]
      BY <1>2 DEF MarkExpired
    <2>2. \A t \in DOMAIN token : token[t] \in Token
      BY DEF IInv, TypeOK
    <2>3. Ends({tok})
      BY <2>1, <2>2 DEF Ends, Token
    <2> QED
      BY <2>3, EndsOne
  <1> QED
    BY <1>1, <1>2

LEMMA LogoutAllEnds ==
  ASSUME IInv, NEW r \in Requests, LogoutAll(r)
  PROVE  [Devices!Next]_<<nextToken - 1, Holds>>
  <1>1. CASE Refuse(r)
    BY <1>1, QuietEnds DEF Refuse, tables
  <1>2. CASE ~Refuse(r)
    <2>1. token' = Revoke(DOMAIN token, "LOGOUT_ALL") /\ nextToken' = nextToken
      BY <1>2 DEF LogoutAll
    <2>2. token \in [DOMAIN token -> Token] /\ "LOGOUT_ALL" \in Reason
      BY DEF IInv, TypeOK, Reason
    <2>3. /\ DOMAIN token' = DOMAIN token
          /\ \A t \in DOMAIN token :
               token'[t] = IF t \in DOMAIN token /\ token[t].reason = "none"
                             THEN [token[t] EXCEPT !.reason = "LOGOUT_ALL"] ELSE token[t]
      BY <2>1, <2>2, RevokeIsTable
    <2>4. \A t \in DOMAIN token' : token'[t].reason # "none"
      BY <2>2, <2>3 DEF Token
    <2> QED
      BY <2>1, <2>4, EndsAll
  <1> QED
    BY <1>1, <1>2

-----------------------------------------------------------------------------
\* Every step of the sessions is a step of the devices, or changes none.
LEMMA NextRefines ==
  ASSUME IInv, [Next]_vars
  PROVE  [Devices!Next]_<<nextToken - 1, Holds>>
  <1>0. UNCHANGED tables => [Devices!Next]_<<nextToken - 1, Holds>>
    BY QuietEnds DEF tables
  <1>1. ASSUME NEW r \in Requests, NEW password, NEW client,
               LoginRead(r, client, password) \/ ChangePasswordRead(r, password)
        PROVE  UNCHANGED tables
    BY <1>1 DEF LoginRead, ChangePasswordRead, Wait, Refuse
  <1>2. ASSUME NEW r \in Requests, NEW t, RotateRead(r, t) \/ NativeLogoutRead(r, t)
        PROVE  UNCHANGED tables
    BY <1>2 DEF RotateRead, NativeLogoutRead, WaitFor, Wait, Refuse
  <1>3. ASSUME NEW r \in Requests, NEW t, WebLogout(r, t)
        PROVE  [Devices!Next]_<<nextToken - 1, Holds>>
    <2>1. Ends({t})
      BY <1>3, DeleteEnds DEF WebLogout
    <2> QED
      BY <2>1, EndsOne
  <1>4. ASSUME NEW r \in Requests, ChangePasswordCommit(r) \/ DeleteUser(r)
        PROVE  [Devices!Next]_<<nextToken - 1, Holds>>
    <2>1. CASE UNCHANGED tables
      BY <1>0, <2>1
    <2>2. CASE token' = Delete(DOMAIN token) /\ nextToken' = nextToken
      <3>1. DOMAIN token' = {}
        BY <2>2 DEF Delete
      <3> QED
        BY <2>2, <3>1, EndsAll
    <2> QED
      BY <1>4, <2>1, <2>2 DEF ChangePasswordCommit, DeleteUser, Refuse
  <1>5. ASSUME NEW r \in Requests, Abort(r)
        PROVE  UNCHANGED tables
    BY <1>5 DEF Abort, Refuse
  <1>6. ASSUME NEW t \in DOMAIN token, Expire(t)
        PROVE  [Devices!Next]_<<nextToken - 1, Holds>>
    <2>1. \A u \in DOMAIN token : token[u] \in Token
      BY DEF IInv, TypeOK
    <2>2. /\ DOMAIN token' = DOMAIN token /\ nextToken' = nextToken
          /\ \A u \in DOMAIN token : /\ token'[u].family = token[u].family
                                     /\ token'[u].reason = token[u].reason
      BY <1>6, <2>1 DEF Expire, Token
    <2> QED
      BY <2>2, QuietEnds
  <1>7. UNCHANGED vars => UNCHANGED tables
    BY DEF vars, tables
  <1> QED
    BY <1>0, <1>1, <1>2, <1>3, <1>4, <1>5, <1>6, <1>7, LoginSignsIn, ClaimRotates,
       RevokeFamilyEnds, MarkExpiredEnds, LogoutAllEnds DEF Next, AllAnswered

LEMMA InitRefines == Init => Devices!Init
  BY DEF Init, Devices!Init, Holds

\* The handlers keep the promise of SessionDevices, whatever their number and
\* however they interleave.
THEOREM SessionsImplementDevices == Spec => ImplementsDevices
  <1>1. IInv /\ [Next]_vars => [Devices!Next]_<<nextToken - 1, Holds>>
    BY NextRefines
  <1> QED
    BY <1>1, InitRefines, InvariantHolds, PTL DEF Spec, ImplementsDevices, Devices!Spec
=============================================================================
