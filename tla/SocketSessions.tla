--------------------------- MODULE SocketSessions ---------------------------
(***************************************************************************)
(* The WebSockets of one account and the revocation of its sessions        *)
(* (server/websocket/connectionManager.ts, socket-server.ts and            *)
(* alertHandler.ts; the calls of revokeUser in server/utils/user-queries). *)
(*                                                                         *)
(* A socket is admitted by a handshake that reads the users row, waits,    *)
(* and registers later; a revocation commits first and tells the           *)
(* connection manager of its own process later.  Every step below runs     *)
(* between two awaits of the event loop, so it is atomic.                  *)
(***************************************************************************)
EXTENDS Integers

CONSTANTS Sockets,      \* the connections of a behaviour
          MaxVersion    \* bound on users.token_version

ASSUME SocketAssumption == MaxVersion \in Nat

VARIABLES
  user,      \* the users row: does it exist, and its tokenVersion
  pending,   \* committed revocations that still have to call revokeUser
  minimum,   \* minimumTokenVersions of the user, 0 when there is no entry
  early,     \* the handshakes that were under way at the last revokeUser
  socket,    \* the connections
  dismiss    \* the alert:dismiss handler of each connection

vars == <<user, pending, minimum, early, socket, dismiss>>
manager == <<minimum, early>>

\* Number.MAX_SAFE_INTEGER, the minimum of a deleted user.
Deleted == MaxVersion + 1

Versions == 0 .. MaxVersion

\* authenticated: the middleware waits for its read of the user; accepted: it
\* has called next() and the connection event is due.
Phase == {"none", "authenticated", "accepted", "connected", "closed"}

Socket == [phase : Phase, version : Versions, expired : BOOLEAN]

TypeOK ==
  /\ user \in [exists : BOOLEAN, version : Versions]
  /\ pending \subseteq 1 .. Deleted
  /\ minimum \in 0 .. Deleted
  /\ early \subseteq Sockets
  /\ socket \in [Sockets -> Socket]
  /\ dismiss \in [Sockets -> {"none", "authorized", "started"}]

Init ==
  /\ user = [exists |-> TRUE, version |-> 0]
  /\ pending = {}
  /\ minimum = 0
  /\ early = {}
  /\ socket = [s \in Sockets |-> [phase |-> "none", version |-> 0, expired |-> FALSE]]
  /\ dismiss = [s \in Sockets |-> "none"]

-----------------------------------------------------------------------------
Connected == {s \in Sockets : socket[s].phase = "connected"}
Handshakes == {s \in Sockets : socket[s].phase \in {"authenticated", "accepted"}}

\* isActive of an access token: its signed version is that of the user.
Active(version) == user.exists /\ version = user.version

\* isSessionCurrent of the connection manager.
SessionCurrent(s) == socket[s].version >= minimum

Enter(s, phase) == socket' = [socket EXCEPT ![s].phase = phase]

Close(S) ==
  socket' = [s \in Sockets |->
               IF s \in S THEN [socket[s] EXCEPT !.phase = "closed"] ELSE socket[s]]

-----------------------------------------------------------------------------
(* Handshake *)

\* io.use: the token of the handshake, signed under any version so far, is
\* checked against the users row.
Handshake(s, version) ==
  /\ socket[s].phase = "none"
  /\ socket' = [socket EXCEPT ![s].version = version,
                              ![s].phase = IF Active(version) THEN "authenticated"
                                                              ELSE "closed"]
  /\ UNCHANGED <<user, pending, manager, dismiss>>

\* The middleware resumes after its read.
Middleware(s) ==
  /\ socket[s].phase = "authenticated"
  /\ Enter(s, IF SessionCurrent(s) /\ ~socket[s].expired THEN "accepted" ELSE "closed")
  /\ UNCHANGED <<user, pending, manager, dismiss>>

\* Mutant of Connection: register does not ask isSessionCurrent.
ConnectionUnchecked(s) ==
  /\ socket[s].phase = "accepted"
  /\ Enter(s, "connected")
  /\ UNCHANGED <<user, pending, manager, dismiss>>

\* io.on("connection"): register asks again.
Connection(s) ==
  /\ socket[s].phase = "accepted"
  /\ Enter(s, IF SessionCurrent(s) THEN "connected" ELSE "closed")
  /\ UNCHANGED <<user, pending, manager, dismiss>>

\* The client leaves, or the transport fails.
Disconnect(s) ==
  /\ s \in Connected \cup Handshakes
  /\ Close({s})
  /\ UNCHANGED <<user, pending, manager, dismiss>>

-----------------------------------------------------------------------------
(* Revocation *)

\* logoutAllSessions, changeUserPassword: the transaction commits.
CommitRevocation ==
  /\ user.exists /\ user.version < MaxVersion
  /\ user' = [user EXCEPT !.version = @ + 1]
  /\ pending' = pending \cup {user.version + 1}
  /\ UNCHANGED <<manager, socket, dismiss>>

\* deleteUserAdmin: the row is gone.
DeleteUser ==
  /\ user.exists
  /\ user' = [user EXCEPT !.exists = FALSE]
  /\ pending' = pending \cup {Deleted}
  /\ UNCHANGED <<manager, socket, dismiss>>

\* Mutant of Raised: the minimums are added up.
RaisedBySum(v) == minimum + v

Raised(v) == IF v > minimum THEN v ELSE minimum

\* Mutant of RevokeUser: the open connections are left alone.
RevokeUserNoDisconnect(v) ==
  /\ v \in pending
  /\ pending' = pending \ {v}
  /\ minimum' = Raised(v)
  /\ early' = Handshakes
  /\ UNCHANGED <<user, socket, dismiss>>

\* The handler that committed resumes.  Every open connection is closed,
\* whatever its version; the timer of the entry starts anew.
RevokeUser(v) ==
  /\ v \in pending
  /\ pending' = pending \ {v}
  /\ minimum' = Raised(v)
  /\ early' = Handshakes
  /\ Close(Connected)
  /\ UNCHANGED <<user, dismiss>>

\* The timer of the entry fires after ACCESS_TOKEN_MAX_AGE_SECONDS, an hour.
\* Socket.IO gives a handshake 45 seconds (its connectTimeout), so those that
\* were under way when the timer started have ended by then.
Cleanup ==
  /\ minimum # 0
  /\ early \cap Handshakes = {}
  /\ minimum' = 0
  /\ early' = {}
  /\ UNCHANGED <<user, pending, socket, dismiss>>

-----------------------------------------------------------------------------
(* Expiry and events *)

TokenExpires(s) ==
  /\ socket[s].phase # "none" /\ ~socket[s].expired
  /\ socket' = [socket EXCEPT ![s].expired = TRUE]
  /\ UNCHANGED <<user, pending, manager, dismiss>>

\* The timer set by the connection handler.
ExpiryTimer(s) ==
  /\ s \in Connected /\ socket[s].expired
  /\ Close({s})
  /\ UNCHANGED <<user, pending, manager, dismiss>>

\* emitToUser closes the expired connections it meets on its way.
Emit ==
  /\ Connected # {}
  /\ Close({s \in Connected : socket[s].expired})
  /\ UNCHANGED <<user, pending, manager, dismiss>>

\* alert:dismiss authenticates the token of the connection anew ...
DismissRead(s) ==
  /\ s \in Connected /\ dismiss[s] = "none"
  /\ IF Active(socket[s].version) /\ ~socket[s].expired
       THEN dismiss' = [dismiss EXCEPT ![s] = "authorized"] /\ UNCHANGED socket
       ELSE Close({s}) /\ UNCHANGED dismiss
  /\ UNCHANGED <<user, pending, manager>>

\* Mutant of DismissStart: socket.connected is not looked at again.
DismissStartUnchecked(s) ==
  /\ dismiss[s] = "authorized"
  /\ dismiss' = [dismiss EXCEPT ![s] = "started"]
  /\ UNCHANGED <<user, pending, manager, socket>>

\* ... and goes on only if the connection is still there after that wait.
DismissStart(s) ==
  /\ dismiss[s] = "authorized"
  /\ dismiss' = [dismiss EXCEPT ![s] = IF s \in Connected THEN "started" ELSE "none"]
  /\ UNCHANGED <<user, pending, manager, socket>>

DismissEnd(s) ==
  /\ dismiss[s] = "started"
  /\ dismiss' = [dismiss EXCEPT ![s] = "none"]
  /\ UNCHANGED <<user, pending, manager, socket>>

\* The process ends: connections, entries and calls to come are lost.
Restart ==
  /\ pending' = {}
  /\ minimum' = 0
  /\ early' = {}
  /\ Close(Connected \cup Handshakes)
  /\ dismiss' = [s \in Sockets |-> "none"]
  /\ UNCHANGED user

Next ==
  \/ \E s \in Sockets :
       \/ \E v \in 0 .. user.version : Handshake(s, v)
       \/ Middleware(s) \/ Connection(s) \/ Disconnect(s)
       \/ TokenExpires(s) \/ ExpiryTimer(s)
       \/ DismissRead(s) \/ DismissStart(s) \/ DismissEnd(s)
  \/ CommitRevocation \/ DeleteUser
  \/ \E v \in pending : RevokeUser(v)
  \/ Cleanup \/ Emit \/ Restart

\* Handlers resume after their awaits and timers fire while the process runs.
Fairness ==
  /\ \A v \in 1 .. Deleted : WF_vars(RevokeUser(v))
  /\ \A s \in Sockets : /\ WF_vars(Middleware(s)) /\ WF_vars(Connection(s))
                        /\ WF_vars(ExpiryTimer(s))

Spec == Init /\ [][Next]_vars /\ Fairness

-----------------------------------------------------------------------------
(* Properties *)

\* A session revoked in the database, with the call of revokeUser to come.
RevocationPending(version) == \E v \in pending : v > version

Stale(s) == ~Active(socket[s].version)

\* No connection outlives its revocation: once revokeUser has run, no socket
\* of an older session is connected, not even one whose handshake had read the
\* user before the commit and registers after it.
NoStaleSocket ==
  \A s \in Connected : Stale(s) => RevocationPending(socket[s].version)

\* A dismissal starts only while its session is in force: the token is checked
\* before an await, and a revocation may run to its end during it.
DismissalsAuthorized ==
  [][\A s \in Sockets :
        dismiss[s] = "authorized" /\ dismiss'[s] = "started" /\ Stale(s)
          => RevocationPending(socket[s].version)]_vars

\* A connection of a revoked session, or one whose access token has expired,
\* is closed in the end, though no message crosses it.
StaleSocketsClose ==
  \A s \in Sockets : s \in Connected /\ (Stale(s) \/ socket[s].expired) ~> s \notin Connected
=============================================================================
