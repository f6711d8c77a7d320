----------------------------- MODULE WebSession -----------------------------
(***************************************************************************)
(* The session of a browser: two cookies that all tabs share, the          *)
(* middleware that resolves a request from them and renews one from the    *)
(* other (server/middleware/auth.ts), the endpoints that set and clear     *)
(* them (server/api/auth, server/api/user/password.put.ts), and the user   *)
(* each tab shows (composables/useAuth.ts, useAuthRecovery.ts).  Answers   *)
(* come in any order, or not at all.  What the versions and rows of a      *)
(* session are worth among other devices is the subject of Sessions.       *)
(***************************************************************************)
EXTENDS Naturals, Sequences

CONSTANTS
  Users,        \* positive numbers
  Tabs,
  MaxRequests   \* bound on the requests

VARIABLES
  version,    \* users.token_version
  row,        \* refresh_tokens, [user, version, live] by id
  access, refresh,   \* the cookies of the browser: [user, version], and an id
  user,       \* auth:user of each tab, 0 for null
  requests,   \* by number
  sent,       \* requests so far
  stale,      \* history: tabs that show a user and do not know of a sign-in elsewhere
  signedOut,  \* history: the last sign-in or sign-out that was answered is a sign-out
  mixed       \* history: an answer from before a sign-in or sign-out came after it

vars == <<version, row, access, refresh, user, requests, sent, stale, signedOut, mixed>>

NoAccess == [user |-> 0, version |-> 0]
Keep == [user |-> 0, version |-> MaxRequests + 1]   \* no Set-Cookie
KeepRefresh == MaxRequests + 1
Tokens == [user : Users \cup {0}, version : 0..(MaxRequests + 1)]
Operations == {"login", "logout", "password", "me", "api", "refresh"}

\* for: whom a login is for; as: whom the server takes the caller for;
\* setAccess, setRefresh: the Set-Cookie headers of the answer; shown: the
\* user its tab showed, 0 also when the tab did not know better.
Request == [op : Operations \cup {"none"}, tab : Tabs \cup {0}, for : Users \cup {0},
            shown : Users \cup {0}, phase : {"unused", "sent", "resolved", "served", "over"},
            access : Tokens, refresh : 0..MaxRequests, as : Users \cup {0}, ok : BOOLEAN,
            setAccess : Tokens, setRefresh : 0..(MaxRequests + 1), late : BOOLEAN]

Unused == [op |-> "none", tab |-> 0, for |-> 0, shown |-> 0, phase |-> "unused",
           access |-> NoAccess, refresh |-> 0, as |-> 0, ok |-> FALSE,
           setAccess |-> Keep, setRefresh |-> KeepRefresh, late |-> FALSE]

TypeOK ==
  /\ version \in [Users -> 0..MaxRequests]
  /\ row \in Seq([user : Users, version : 0..MaxRequests, live : BOOLEAN])
  /\ access \in Tokens /\ refresh \in {0} \cup DOMAIN row
  /\ user \in [Tabs -> Users \cup {0}]
  /\ requests \in [1..MaxRequests -> Request]
  /\ sent \in 0..MaxRequests
  /\ stale \subseteq Tabs
  /\ signedOut \in BOOLEAN /\ mixed \in BOOLEAN

Init ==
  /\ version = [u \in Users |-> 0]
  /\ row = <<>> /\ access = NoAccess /\ refresh = 0
  /\ user = [t \in Tabs |-> 0]
  /\ requests = [n \in 1..MaxRequests |-> Unused] /\ sent = 0
  /\ stale = {} /\ signedOut = TRUE /\ mixed = FALSE

UnderWay == {n \in 1..MaxRequests : requests[n].phase \in {"sent", "resolved", "served"}}
To(n, phase) == requests[n].phase = phase
Crosses(n) == requests[n].op \in {"login", "logout", "password"}

-----------------------------------------------------------------------------
Ask(t, op, u, rs) ==
  /\ sent < MaxRequests
  /\ sent' = sent + 1
  /\ requests' = [rs EXCEPT ![sent + 1] =
       [Unused EXCEPT !.op = op, !.tab = t, !.for = u, !.phase = "sent",
          !.access = access, !.refresh = refresh,
          !.shown = IF t \in stale \/ mixed THEN 0 ELSE user[t]]]
  /\ UNCHANGED <<version, row, access, refresh, signedOut, mixed>>

(* The login page is for a tab that shows nobody, the menu and the pages    *)
(* behind the route middleware for one that shows a user.                   *)
Send(t) ==
  /\ \/ user[t] = 0 /\ \E u \in Users : Ask(t, "login", u, requests)
     \/ user[t] # 0 /\ \E op \in Operations \ {"login"} : Ask(t, op, 0, requests)
  /\ UNCHANGED <<user, stale>>

(* A page load: plugins/auth.ts.  Nobody waits for the old page's answers. *)
Load(t) ==
  /\ user' = [user EXCEPT ![t] = 0] /\ stale' = stale \ {t}
  /\ Ask(t, "me", 0, [n \in 1..MaxRequests |->
       IF requests[n].tab = t THEN [requests[n] EXCEPT !.tab = 0] ELSE requests[n]])

(* authenticateAccessToken, unless the token has expired by now;           *)
(* authenticateRefreshToken.                                               *)
AccessHolds(a) == a.user # 0 /\ version[a.user] = a.version
RefreshHolds(i) == i # 0 /\ row[i].live /\ version[row[i].user] = row[i].version
Renewed(i) == [user |-> row[i].user, version |-> version[row[i].user]]

(* resolveAuth, and the one of the endpoint that resolves for itself. *)
Resolve(n) ==
  /\ To(n, "sent")
  /\ LET r == requests[n]
         as(u, set) == requests' = [requests EXCEPT ![n].phase = "resolved", ![n].as = u,
                                                    ![n].setAccess = set]
     IN \/ r.op # "refresh" /\ AccessHolds(r.access) /\ as(r.access.user, Keep)
        \/ RefreshHolds(r.refresh) /\ as(row[r.refresh].user, Renewed(r.refresh))
        \/ ~RefreshHolds(r.refresh) /\ as(0, Keep)
  /\ UNCHANGED <<version, row, access, refresh, user, sent, stale, signedOut, mixed>>

Answered(n, ok, a, i) ==
  requests' = [requests EXCEPT ![n].phase = "served", ![n].ok = ok,
                               ![n].setAccess = a, ![n].setRefresh = i]
Refused(n) == Answered(n, FALSE, requests[n].setAccess, KeepRefresh) /\ UNCHANGED <<version, row>>

(* login.post.ts; the wrong password is refused. *)
Login(n) ==
  LET u == requests[n].for
  IN \/ /\ row' = Append(row, [user |-> u, version |-> version[u], live |-> TRUE])
        /\ Answered(n, TRUE, [user |-> u, version |-> version[u]], Len(row'))
        /\ UNCHANGED version
     \/ Refused(n)

(* A slip: the refresh cookie of the former session stays. *)
ClearAccess(n) == Answered(n, TRUE, NoAccess, KeepRefresh)

(* clearAuthCookies *)
Clear(n) == Answered(n, TRUE, NoAccess, 0)

(* logout.post.ts: the row goes if it is the caller's, and unless the      *)
(* database fails; the cookies go in any case.                             *)
Logout(n) ==
  LET i == requests[n].refresh
      mine == i # 0 /\ requests[n].as # 0 /\ row[i].user = requests[n].as
  IN /\ \/ mine /\ row' = [row EXCEPT ![i].live = FALSE]
        \/ UNCHANGED row
     /\ Clear(n) /\ UNCHANGED version

(* password.put.ts, and logout-all.post.ts. *)
EndSessions(n) ==
  LET u == requests[n].as
  IN \/ /\ u # 0
        /\ version' = [version EXCEPT ![u] = @ + 1]
        /\ row' = [i \in DOMAIN row |-> [row[i] EXCEPT !.live = @ /\ row[i].user # u]]
        /\ Clear(n)
     \/ Refused(n)

(* The handlers that require a user, and refresh.post.ts. *)
Plain(n) ==
  /\ Answered(n, requests[n].as # 0, requests[n].setAccess, KeepRefresh)
  /\ UNCHANGED <<version, row>>

Serve(n) ==
  /\ To(n, "resolved")
  /\ \/ requests[n].op = "login" /\ Login(n)
     \/ requests[n].op = "logout" /\ Logout(n)
     \/ requests[n].op = "password" /\ EndSessions(n)
     \/ requests[n].op \in {"me", "api", "refresh"} /\ Plain(n)
  /\ UNCHANGED <<access, refresh, user, sent, stale, signedOut, mixed>>

-----------------------------------------------------------------------------
(* The others under way when a sign-in or sign-out ends are late. *)
Over(n) ==
  requests' = [m \in 1..MaxRequests |->
    IF m = n THEN [Unused EXCEPT !.phase = "over"]
    ELSE IF Crosses(n) /\ m \in UnderWay THEN [requests[m] EXCEPT !.late = TRUE] ELSE requests[m]]

(* What the tab makes of it: login, logout, fetchMe, runWithAuthRecovery.  *)
Shown(r) ==
  IF r.op = "login" /\ r.ok THEN r.for
  ELSE IF r.op = "logout" THEN 0
  ELSE IF r.op = "me" THEN (IF r.ok THEN r.as ELSE 0)
  ELSE IF r.op = "api" /\ ~r.ok THEN 0
  ELSE user[r.tab]

Shows(r) ==
  IF r.tab = 0 THEN UNCHANGED user ELSE user' = [user EXCEPT ![r.tab] = Shown(r)]

Answer(n) ==
  LET r == requests[n]
      sets == r.setAccess # Keep \/ r.setRefresh # KeepRefresh
      signsIn == r.op = "login" /\ r.ok
  IN /\ To(n, "served")
     /\ access' = IF r.setAccess = Keep THEN access ELSE r.setAccess
     /\ refresh' = IF r.setRefresh = KeepRefresh THEN refresh ELSE r.setRefresh
     /\ Shows(r)
     /\ mixed' = (mixed \/ (r.late /\ (sets \/ r.op = "me")))
     /\ signedOut' = ((signedOut \/ (r.ok /\ r.op \in {"logout", "password"})) /\ ~signsIn)
     /\ stale' = IF signsIn THEN {t \in Tabs : user'[t] \notin {0, r.for}}
                 ELSE IF r.op = "me" THEN stale \ {r.tab} ELSE stale
     /\ Over(n)
     /\ UNCHANGED <<version, row, sent>>

(* The request or its answer is lost, and the fetch throws. *)
Lost(n) ==
  /\ requests[n].phase \in {"sent", "served"}
  /\ Shows([requests[n] EXCEPT !.ok = (requests[n].op = "api")])
  /\ Over(n)
  /\ UNCHANGED <<version, row, access, refresh, sent, stale, signedOut, mixed>>

Next ==
  \/ \E t \in Tabs : Send(t) \/ Load(t)
  \/ \E n \in 1..MaxRequests : Resolve(n) \/ Serve(n) \/ Answer(n) \/ Lost(n)

Spec == Init /\ [][Next]_vars

-----------------------------------------------------------------------------
\* As long as no answer of a former session came after the end of it: the two
\* cookies are of one user, the one every tab shows that shows any and did not
\* miss a sign-in of another tab; after a sign-out no cookie is left; and a
\* request is served in the name of the user whom its tab showed, or of none.
OneIdentity ==
  /\ ~mixed =>
       LET held == {access.user, IF refresh = 0 THEN 0 ELSE row[refresh].user} \ {0}
       IN /\ \A u, v \in held : u = v
          /\ \A t \in Tabs \ stale : user[t] # 0 => held \subseteq {user[t]}
          /\ signedOut => held = {}
  /\ \A n \in UnderWay :
       requests[n].shown # 0 => requests[n].as \in {0, requests[n].shown}
=============================================================================
