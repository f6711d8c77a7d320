------------------------- MODULE AlertChannelProofs -------------------------
(***************************************************************************)
(* Safety of the two ends of the alert channel, for any sockets, alerts,   *)
(* polls, users, tabs and requests: the connection manager of the server,  *)
(* then the three machines of a tab, its socket, its alerts and the        *)
(* session of its browser, each with an invariant of its own.              *)
(***************************************************************************)
EXTENDS MCSockets, FiniteSetTheorems, SequenceTheorems, TLAPS

-----------------------------------------------------------------------------
(* The sockets of an account *)

LEMMA CloseType ==
  ASSUME TypeOK, NEW S, Close(S)
  PROVE  /\ socket' \in [Sockets -> Socket]
         /\ \A s \in Sockets :
              /\ socket'[s].version = socket[s].version
              /\ socket'[s].expired = socket[s].expired
              /\ socket'[s].phase = IF s \in S THEN "closed" ELSE socket[s].phase
  BY DEF TypeOK, Close, Socket, Phase

LEMMA EnterType ==
  ASSUME TypeOK, NEW s \in Sockets, NEW phase \in Phase, Enter(s, phase)
  PROVE  /\ socket' \in [Sockets -> Socket]
         /\ socket'[s].version = socket[s].version
         /\ socket'[s].expired = socket[s].expired
         /\ socket'[s].phase = phase
         /\ \A t \in Sockets \ {s} : socket'[t] = socket[t]
  BY DEF TypeOK, Enter, Socket, Phase

-----------------------------------------------------------------------------
(* Type correctness *)

LEMMA InitType == Init => TypeOK
  BY SocketAssumption DEF Init, TypeOK, Socket, Phase, Versions, Deleted

LEMMA NextType == TypeOK /\ [Next]_vars => TypeOK'
  <1> SUFFICES ASSUME TypeOK, [Next]_vars PROVE TypeOK'
    OBVIOUS
  <1> USE SocketAssumption
  <1>1. ASSUME NEW s \in Sockets, NEW v \in 0 .. user.version, Handshake(s, v)
        PROVE  TypeOK'
    <2>1. v \in Versions
      BY DEF TypeOK, Versions
    <2>2. socket' \in [Sockets -> Socket]
      BY <1>1, <2>1 DEF Handshake, TypeOK, Socket, Phase
    <2> QED
      BY <1>1, <2>2 DEF Handshake, TypeOK, manager
  <1>2. ASSUME NEW s \in Sockets, Middleware(s) \/ Connection(s)
        PROVE  TypeOK'
    BY <1>2, EnterType DEF Middleware, Connection, Phase, TypeOK, manager
  <1>3. ASSUME NEW s \in Sockets, Disconnect(s) \/ ExpiryTimer(s)
        PROVE  TypeOK'
    BY <1>3, CloseType DEF Disconnect, ExpiryTimer, TypeOK, manager
  <1>4. ASSUME NEW s \in Sockets, TokenExpires(s)
        PROVE  TypeOK'
    BY <1>4 DEF TokenExpires, TypeOK, Socket, manager
  <1>5. ASSUME NEW s \in Sockets, DismissRead(s)
        PROVE  TypeOK'
    BY <1>5, CloseType DEF DismissRead, TypeOK, manager
  <1>6. ASSUME NEW s \in Sockets, DismissStart(s) \/ DismissEnd(s)
        PROVE  TypeOK'
    BY <1>6 DEF DismissStart, DismissEnd, TypeOK, manager
  <1>7. ASSUME CommitRevocation
        PROVE  TypeOK'
    BY <1>7 DEF CommitRevocation, TypeOK, manager, Versions, Deleted
  <1>8. ASSUME DeleteUser
        PROVE  TypeOK'
    <2>1. user' \in [exists : BOOLEAN, version : Versions]
      BY <1>8 DEF DeleteUser, TypeOK
    <2>2. Deleted \in 1 .. Deleted
      BY DEF Deleted
    <2> QED
      BY <1>8, <2>1, <2>2 DEF DeleteUser, TypeOK, manager
  <1>9. ASSUME NEW v \in pending, RevokeUser(v)
        PROVE  TypeOK'
    <2>1. Raised(v) \in 0 .. Deleted
      BY DEF Raised, TypeOK, Deleted
    <2> QED
      BY <1>9, <2>1, CloseType DEF RevokeUser, TypeOK, Handshakes
  <1>10. ASSUME Cleanup
         PROVE  TypeOK'
    BY <1>10 DEF Cleanup, TypeOK, Deleted
  <1>11. ASSUME Emit
         PROVE  TypeOK'
    BY <1>11, CloseType DEF Emit, TypeOK, manager
  <1>12. ASSUME Restart
         PROVE  TypeOK'
    BY <1>12, CloseType DEF Restart, TypeOK, Deleted
  <1>13. CASE UNCHANGED vars
    BY <1>13 DEF vars, manager, TypeOK
  <1> QED
    BY <1>1, <1>2, <1>3, <1>4, <1>5, <1>6, <1>7, <1>8, <1>9, <1>10, <1>11, <1>12, <1>13
       DEF Next

\* The tables, timers and sockets keep their types for any number of sockets.
THEOREM SocketTypes == Spec => []TypeOK
  BY InitType, NextType, PTL DEF Spec

-----------------------------------------------------------------------------
(* The inductive invariant *)

\* No socket carries a version of the future.
VersionsIssued ==
  \A s \in Connected \cup Handshakes : socket[s].version <= user.version

\* A stale handshake is either still to be told of, or known to the manager:
\* below its minimum, and among those the clean-up timer waits for.
HandshakesCaught ==
  \A s \in Handshakes :
    Stale(s) => \/ RevocationPending(socket[s].version)
                \/ socket[s].version < minimum /\ s \in early

IInv == TypeOK /\ VersionsIssued /\ HandshakesCaught /\ NoStaleSocket

\* A step that leaves the user and the revocations alone and lets no socket
\* into the handshakes or the connections keeps the invariant.
LEMMA FewerSockets ==
  ASSUME IInv, TypeOK', UNCHANGED <<user, pending, manager>>,
         \A s \in Sockets : /\ socket'[s].version = socket[s].version
                            /\ socket'[s].phase \in {socket[s].phase, "closed"}
  PROVE  IInv'
  BY DEF IInv, VersionsIssued, HandshakesCaught, NoStaleSocket, Connected, Handshakes,
         Stale, Active, RevocationPending, manager

LEMMA InitIInv == Init => IInv
  <1>1. Init => Connected = {} /\ Handshakes = {}
    BY DEF Init, Connected, Handshakes
  <1> QED
    BY <1>1, InitType DEF IInv, VersionsIssued, HandshakesCaught, NoStaleSocket

LEMMA NextIInv == IInv /\ [Next]_vars => IInv'
  <1> SUFFICES ASSUME IInv, [Next]_vars PROVE IInv'
    OBVIOUS
  <1>0. TypeOK /\ TypeOK'
    BY NextType DEF IInv
  <1>1. ASSUME NEW s \in Sockets, NEW v \in 0 .. user.version, Handshake(s, v)
        PROVE  IInv'
    <2>1. /\ \A t \in Sockets \ {s} : socket'[t] = socket[t]
          /\ socket'[s].version = v
          /\ socket'[s].phase = IF Active(v) THEN "authenticated" ELSE "closed"
      BY <1>0, <1>1 DEF Handshake, TypeOK, Socket
    <2>2. UNCHANGED <<user, pending, minimum, early>> /\ user.version \in Nat
      BY <1>0, <1>1, SocketAssumption DEF Handshake, manager, TypeOK, Versions
    <2>3. v <= user.version
      BY <2>2
    <2>4. socket'[s].phase = "authenticated" => ~Stale(s)'
      BY <2>1, <2>2 DEF Stale, Active
    <2>5. VersionsIssued'
      BY <2>1, <2>2, <2>3 DEF IInv, VersionsIssued, Connected, Handshakes
    <2>6. HandshakesCaught'
      BY <2>1, <2>2, <2>4 DEF IInv, HandshakesCaught, Handshakes, Stale, Active, RevocationPending
    <2>7. NoStaleSocket'
      BY <2>1, <2>2 DEF IInv, NoStaleSocket, Connected, Stale, Active, RevocationPending
    <2> QED
      BY <1>0, <2>5, <2>6, <2>7 DEF IInv
  <1>2. ASSUME NEW s \in Sockets, Middleware(s)
        PROVE  IInv'
    <2>1. PICK phase \in {"accepted", "closed"} : Enter(s, phase)
      BY <1>2 DEF Middleware
    <2>2. /\ \A t \in Sockets \ {s} : socket'[t] = socket[t]
          /\ socket'[s].version = socket[s].version
          /\ socket'[s].phase \in {"accepted", "closed"}
          /\ socket[s].phase = "authenticated"
      BY <1>0, <1>2, <2>1, EnterType DEF Middleware, Phase
    <2>3. UNCHANGED <<user, pending, minimum, early>>
      BY <1>2 DEF Middleware, manager
    <2> QED
      BY <1>0, <2>2, <2>3 DEF IInv, VersionsIssued, HandshakesCaught, NoStaleSocket,
                             Connected, Handshakes, Stale, Active, RevocationPending
  <1>3. ASSUME NEW s \in Sockets, Connection(s)
        PROVE  IInv'
    <2>1. PICK phase \in {"connected", "closed"} :
            Enter(s, phase) /\ (phase = "connected" => SessionCurrent(s))
      BY <1>3 DEF Connection
    <2>2. /\ \A t \in Sockets \ {s} : socket'[t] = socket[t]
          /\ socket'[s].version = socket[s].version
          /\ socket'[s].phase = phase
          /\ socket[s].phase = "accepted"
      BY <1>0, <1>3, <2>1, EnterType DEF Connection, Phase
    <2>3. UNCHANGED <<user, pending, minimum, early>>
      BY <1>3 DEF Connection, manager
    <2>4. /\ socket[s].version \in Int /\ minimum \in Int
          /\ s \in Handshakes
      BY <1>0, <2>2, SocketAssumption DEF TypeOK, Socket, Versions, Deleted, Handshakes
    <2>5. phase = "connected" /\ Stale(s) => RevocationPending(socket[s].version)
      BY <2>1, <2>4 DEF IInv, HandshakesCaught, SessionCurrent
    <2> QED
      BY <1>0, <2>1, <2>2, <2>3, <2>4, <2>5
         DEF IInv, VersionsIssued, HandshakesCaught, NoStaleSocket,
             Connected, Handshakes, Stale, Active, RevocationPending
  <1>4. ASSUME NEW s \in Sockets, Disconnect(s) \/ ExpiryTimer(s)
        PROVE  IInv'
    <2>1. UNCHANGED <<user, pending, manager>> /\ \E S : Close(S)
      BY <1>4 DEF Disconnect, ExpiryTimer
    <2> QED
      BY <1>0, <2>1, CloseType, FewerSockets
  <1>5. ASSUME NEW s \in Sockets, TokenExpires(s)
        PROVE  IInv'
    <2>1. \A t \in Sockets : /\ socket'[t].version = socket[t].version
                             /\ socket'[t].phase = socket[t].phase
      BY <1>0, <1>5 DEF TokenExpires, TypeOK, Socket
    <2> QED
      BY <1>0, <1>5, <2>1, FewerSockets DEF TokenExpires
  <1>6. ASSUME NEW s \in Sockets, DismissRead(s)
        PROVE  IInv'
    <2>1. UNCHANGED <<user, pending, manager>> /\ (UNCHANGED socket \/ \E S : Close(S))
      BY <1>6 DEF DismissRead
    <2> QED
      BY <1>0, <2>1, CloseType, FewerSockets
  <1>7. ASSUME NEW s \in Sockets, DismissStart(s) \/ DismissEnd(s)
        PROVE  IInv'
    BY <1>0, <1>7, FewerSockets DEF DismissStart, DismissEnd
  <1>8. ASSUME CommitRevocation
        PROVE  IInv'
    <2>1. /\ user' = [user EXCEPT !.version = @ + 1]
          /\ pending' = pending \cup {user.version + 1}
          /\ UNCHANGED <<minimum, early, socket>>
      BY <1>8 DEF CommitRevocation, manager
    <2>2. /\ user.version \in Nat
          /\ \A s \in Sockets : socket[s].version \in Nat
      BY <1>0, SocketAssumption DEF TypeOK, Socket, Versions
    <2>3. user'.version = user.version + 1
      BY <1>0, <2>1 DEF TypeOK
    <2>4. \A s \in Connected \cup Handshakes : user.version + 1 > socket[s].version
      BY <2>2 DEF IInv, VersionsIssued, Connected, Handshakes
    <2>5. \A s \in Connected \cup Handshakes : RevocationPending(socket[s].version)'
      BY <2>1, <2>4 DEF RevocationPending
    <2>6. VersionsIssued'
      BY <2>1, <2>2, <2>3 DEF IInv, VersionsIssued, Connected, Handshakes
    <2> QED
      BY <1>0, <2>1, <2>5, <2>6
         DEF IInv, HandshakesCaught, NoStaleSocket, Connected, Handshakes
  <1>9. ASSUME DeleteUser
        PROVE  IInv'
    <2>1. /\ user' = [user EXCEPT !.exists = FALSE]
          /\ pending' = pending \cup {Deleted}
          /\ UNCHANGED <<minimum, early, socket>>
      BY <1>9 DEF DeleteUser, manager
    <2>2. user'.version = user.version
      BY <1>0, <2>1 DEF TypeOK
    <2>3. \A s \in Sockets : Deleted > socket[s].version
      BY <1>0, SocketAssumption DEF TypeOK, Socket, Versions, Deleted
    <2>4. \A s \in Sockets : RevocationPending(socket[s].version)'
      BY <2>1, <2>3 DEF RevocationPending
    <2> QED
      BY <1>0, <2>1, <2>2, <2>4
         DEF IInv, VersionsIssued, HandshakesCaught, NoStaleSocket, Connected, Handshakes
  <1>10. ASSUME NEW v \in pending, RevokeUser(v)
         PROVE  IInv'
    <2>1. /\ pending' = pending \ {v} /\ minimum' = Raised(v)
          /\ early' = Handshakes /\ UNCHANGED user
      BY <1>10 DEF RevokeUser
    <2>2. \A s \in Sockets :
            /\ socket'[s].version = socket[s].version
            /\ socket'[s].phase = IF s \in Connected THEN "closed" ELSE socket[s].phase
      BY <1>0, <1>10, CloseType DEF RevokeUser
    <2>3. Connected' = {} /\ Handshakes' = Handshakes
      BY <2>2 DEF Connected, Handshakes
    <2>4. /\ minimum \in Int /\ v \in Int
          /\ \A s \in Sockets : socket[s].version \in Int
      BY <1>0, SocketAssumption DEF TypeOK, Socket, Versions, Deleted
    <2>5. minimum' >= minimum /\ minimum' >= v /\ minimum' \in Int
      BY <2>1, <2>4 DEF Raised
    <2>6. ASSUME NEW s \in Handshakes, Stale(s), ~RevocationPending(socket[s].version)'
          PROVE  socket[s].version < minimum'
      <3>1. s \in Sockets
        BY DEF Handshakes
      <3>2. CASE RevocationPending(socket[s].version)
        <4>1. v > socket[s].version
          BY <2>1, <2>2, <2>6, <3>1, <3>2 DEF RevocationPending
        <4> QED
          BY <2>4, <2>5, <3>1, <4>1
      <3>3. CASE socket[s].version < minimum
        BY <2>4, <2>5, <3>1, <3>3
      <3> QED
        BY <2>6, <3>2, <3>3 DEF IInv, HandshakesCaught
    <2>7. \A s \in Sockets : Stale(s)' <=> Stale(s)
      BY <2>1, <2>2 DEF Stale, Active
    <2>8. HandshakesCaught'
      BY <2>1, <2>2, <2>3, <2>6, <2>7 DEF HandshakesCaught, Handshakes
    <2>9. VersionsIssued'
      BY <2>1, <2>2, <2>3 DEF IInv, VersionsIssued, Handshakes
    <2> QED
      BY <1>0, <2>3, <2>8, <2>9 DEF IInv, NoStaleSocket
  <1>11. ASSUME Cleanup
         PROVE  IInv'
    BY <1>0, <1>11 DEF Cleanup, IInv, VersionsIssued, HandshakesCaught, NoStaleSocket,
                       Connected, Handshakes, Stale, Active, RevocationPending
  <1>12. ASSUME Emit
         PROVE  IInv'
    <2>1. UNCHANGED <<user, pending, manager>> /\ \E S : Close(S)
      BY <1>12 DEF Emit
    <2> QED
      BY <1>0, <2>1, CloseType, FewerSockets
  <1>13. ASSUME Restart
         PROVE  IInv'
    <2>1. Connected' = {} /\ Handshakes' = {}
      BY <1>0, <1>13, CloseType DEF Restart, Connected, Handshakes
    <2> QED
      BY <1>0, <2>1 DEF IInv, VersionsIssued, HandshakesCaught, NoStaleSocket
  <1>14. CASE UNCHANGED vars
    BY <1>0, <1>14, FewerSockets DEF vars, manager
  <1> QED
    BY <1>1, <1>2, <1>3, <1>4, <1>5, <1>6, <1>7, <1>8, <1>9, <1>10, <1>11, <1>12, <1>13,
       <1>14 DEF Next

THEOREM SocketInvariant == Spec => []IInv
  BY InitIInv, NextIInv, PTL DEF Spec

\* No connection outlives its revocation.
THEOREM NoSocketOutlives == Spec => []NoStaleSocket
  <1>1. IInv => NoStaleSocket
    BY DEF IInv
  <1> QED
    BY <1>1, SocketInvariant, PTL

-----------------------------------------------------------------------------
\* A dismissal starts only on a connection, so only in a session in force.
THEOREM DismissalsInForce == Spec => DismissalsAuthorized
  <1>1. ASSUME IInv, [Next]_vars, NEW s \in Sockets,
               dismiss[s] = "authorized", dismiss'[s] = "started"
        PROVE  s \in Connected
    <2>1. dismiss \in [Sockets -> {"none", "authorized", "started"}]
      BY <1>1 DEF IInv, TypeOK
    <2>2. \E t \in Sockets : DismissStart(t)
      <3>1. ~UNCHANGED dismiss
        BY <1>1
      <3>2. ASSUME NEW t \in Sockets, DismissRead(t) \/ DismissEnd(t)
            PROVE  FALSE
        BY <1>1, <2>1, <3>2 DEF DismissRead, DismissEnd
      <3>3. ~Restart
        BY <1>1 DEF Restart
      <3> QED
        BY <1>1, <3>1, <3>2, <3>3
           DEF Next, vars, Handshake, Middleware, Connection, Disconnect, TokenExpires,
               ExpiryTimer, CommitRevocation, DeleteUser, RevokeUser, Cleanup, Emit
    <2> QED
      BY <1>1, <2>1, <2>2 DEF DismissStart
  <1>2. IInv /\ [Next]_vars =>
          [\A s \in Sockets :
             dismiss[s] = "authorized" /\ dismiss'[s] = "started" /\ Stale(s)
               => RevocationPending(socket[s].version)]_vars
    BY <1>1 DEF IInv, NoStaleSocket
  <1> QED
    BY <1>2, SocketInvariant, PTL DEF Spec, DismissalsAuthorized

-----------------------------------------------------------------------------
(* The socket of a tab *)

\* A token is renewed for a socket that the server dropped or refused; while
\* that is the current one, it is inactive, and connect() does nothing.
ClientInv ==
  /\ Client!TypeOK
  /\ Client!OneLiveSocket
  /\ tabSocket # 0 => wanted
  /\ \A s \in refreshing :
       /\ link[s] # "unused"
       /\ s = tabSocket => link[s] = "inactive" /\ isConnecting

LEMMA ClientStarts == Client!Init => ClientInv
  BY TabAssumption
  DEF ClientInv, Client!Init, Client!TypeOK, Client!OneLiveSocket, Client!Active,
      Client!None, Client!Link, Client!Status

LEMMA ClientSyncKeeps ==
  ASSUME ClientInv, NEW w \in BOOLEAN, Client!Sync(w)
  PROVE  ClientInv'
  <1> USE DEF ClientInv, Client!TypeOK, Client!OneLiveSocket, Client!Active, Client!None,
              Client!Link, Client!Status
  <1>1. CASE ~w
    BY <1>1, TabAssumption DEF Client!Sync, Client!Destroy
  <1>2. CASE w /\ UNCHANGED <<link, tabSocket, Client!flags>>
    BY <1>2 DEF Client!Sync, Client!flags
  <1>3. CASE w /\ ~isConnecting /\ ~(tabSocket # 0 /\ link[tabSocket] = "open")
               /\ tabSocket # 0 /\ Client!Active(tabSocket)
    BY <1>3 DEF Client!Sync, Client!Connect
  <1>4. CASE w /\ ~isConnecting /\ ~(tabSocket # 0 /\ Client!Active(tabSocket))
    <2>1. PICK s \in ClientSockets :
            /\ link[s] = "unused" /\ link' = [link EXCEPT ![s] = "opening"] /\ tabSocket' = s
      BY <1>4 DEF Client!Sync, Client!Connect
    <2> QED
      BY <1>4, <2>1, TabAssumption DEF Client!Sync, Client!Connect
  <1> QED
    BY <1>1, <1>2, <1>3, <1>4 DEF Client!Sync, Client!Connect

LEMMA ClientEventsKeep ==
  ASSUME ClientInv, NEW s \in ClientSockets,
         \/ Client!Opens(s) \/ Client!Drops(s) \/ Client!ServerDrops(s)
         \/ Client!Unreachable(s) \/ Client!GivesUp(s)
         \/ \E auth \in BOOLEAN : Client!Refused(s, auth)
         \/ \E ok \in BOOLEAN : Client!RefreshEnds(s, ok)
  PROVE  ClientInv'
  <1> USE DEF ClientInv, Client!TypeOK, Client!OneLiveSocket, Client!Active, Client!None,
              Client!Link, Client!Status
  <1>0. s # 0
    BY TabAssumption
  <1>1. CASE Client!Opens(s)
    BY <1>1, <1>0 DEF Client!Opens
  <1>2. CASE Client!Drops(s)
    BY <1>2, <1>0 DEF Client!Drops
  <1>3. CASE Client!ServerDrops(s)
    BY <1>3, <1>0 DEF Client!ServerDrops, Client!StartRefresh
  <1>4. CASE Client!Unreachable(s)
    BY <1>4, <1>0 DEF Client!Unreachable
  <1>5. CASE Client!GivesUp(s)
    BY <1>5, <1>0 DEF Client!GivesUp
  <1>6. ASSUME NEW auth \in BOOLEAN, Client!Refused(s, auth)
        PROVE  ClientInv'
    BY <1>6, <1>0 DEF Client!Refused, Client!StartRefresh
  <1>7. ASSUME NEW ok \in BOOLEAN, Client!RefreshEnds(s, ok)
        PROVE  ClientInv'
    <2>1. CASE ~Client!StillCurrent(s)
      BY <1>7, <2>1 DEF Client!RefreshEnds, Client!flags
    <2>2. CASE Client!StillCurrent(s) /\ ok
      BY <1>7, <1>0, <2>2 DEF Client!RefreshEnds, Client!StillCurrent, Client!flags
    <2>3. CASE Client!StillCurrent(s) /\ ~ok
      <3>1. s = tabSocket /\ tabSocket # 0
        BY <1>0, <2>3 DEF Client!StillCurrent
      <3>2. /\ refreshing' = refreshing \ {s} /\ UNCHANGED <<wanted, refreshTried>>
            /\ link' = [link EXCEPT ![s] = "inactive"] /\ tabSocket' = 0
            /\ isManualDisconnect' = TRUE /\ isConnected' = FALSE /\ isConnecting' = FALSE
            /\ status' = "error"
        BY <1>7, <2>3, <3>1 DEF Client!RefreshEnds, Client!Destroy
      <3> QED
        BY <3>1, <3>2, TabAssumption
    <2> QED
      BY <2>1, <2>2, <2>3
  <1> QED
    BY <1>1, <1>2, <1>3, <1>4, <1>5, <1>6, <1>7

LEMMA ClientKeeps ==
  ASSUME ClientInv, Client!Next \/ UNCHANGED clientVars
  PROVE  ClientInv'
  <1>1. CASE UNCHANGED clientVars
    BY <1>1 DEF clientVars, ClientInv, Client!TypeOK, Client!OneLiveSocket, Client!Active
  <1>2. CASE Client!Next
    BY <1>2, ClientSyncKeeps, ClientEventsKeep DEF Client!Next
  <1> QED
    BY <1>1, <1>2

-----------------------------------------------------------------------------
(* Lists of alerts *)

\* The elements of a finite set of numbers have the ranks from 1 on, each its
\* own.
LEMMA Ranks ==
  ASSUME NEW S, IsFiniteSet(S), S \subseteq Int
  PROVE  /\ \A i \in S : Cardinality({j \in S : j <= i}) \in 1 .. Cardinality(S)
         /\ \A a, b \in S :
              Cardinality({j \in S : j <= a}) = Cardinality({j \in S : j <= b}) => a = b
         /\ \A n \in 1 .. Cardinality(S) : \E i \in S : Cardinality({j \in S : j <= i}) = n
  <1> DEFINE upTo(i) == {j \in S : j <= i}
             rank == [i \in S |-> Cardinality(upTo(i))]
             N == Cardinality(S)
  <1>1. N \in Nat
    BY FS_CardinalityType
  <1>2. ASSUME NEW i
        PROVE  /\ IsFiniteSet(upTo(i)) /\ Cardinality(upTo(i)) \in Nat
               /\ Cardinality(upTo(i)) <= N
    BY FS_Subset, FS_CardinalityType
  <1>3. \A i \in S : Cardinality(upTo(i)) # 0
    <2> SUFFICES ASSUME NEW i \in S PROVE Cardinality(upTo(i)) # 0
      OBVIOUS
    <2>1. i \in upTo(i)
      OBVIOUS
    <2> QED
      BY <1>2, <2>1, FS_EmptySet
  <1>4. rank \in [S -> 1 .. N]
    BY <1>1, <1>2, <1>3
  <1>5. ASSUME NEW a \in S, NEW b \in S, a < b
        PROVE  rank[a] # rank[b]
    <2>1. /\ \A j \in upTo(a) : j \in upTo(b)
          /\ b \in upTo(b) /\ b \notin upTo(a)
      <3>1. \A j \in S : j <= a => j <= b
        BY <1>5
      <3>2. b <= b /\ ~(b <= a)
        BY <1>5
      <3> QED
        BY <3>1, <3>2
    <2>2. Cardinality(upTo(b)) # Cardinality(upTo(a))
      BY <1>2, <2>1, FS_Subset
    <2> QED
      BY <2>2
  <1>6. \A a, b \in S : rank[a] = rank[b] => a = b
    <2> SUFFICES ASSUME NEW a \in S, NEW b \in S, a # b PROVE rank[a] # rank[b]
      OBVIOUS
    <2>1. a < b \/ b < a
      OBVIOUS
    <2> QED
      BY <1>5, <2>1
  <1>7. rank \in Injection(S, 1 .. N)
    BY <1>4, <1>6 DEF Injection, IsInjective
  <1>8. IsFiniteSet(1 .. N) /\ Cardinality(1 .. N) = N
    BY <1>1, FS_Interval
  <1>9. rank \in Surjection(S, 1 .. N)
    BY <1>7, <1>8, FS_Injection
  <1>10. \A n \in 1 .. N : \E i \in S : rank[i] = n
    BY <1>9 DEF Surjection
  <1> QED
    BY <1>4, <1>6, <1>10

\* InOrder lists its set, each alert once.
LEMMA InOrderLists ==
  ASSUME NEW S, S \subseteq Alerts
  PROVE  /\ Inbox!InOrder(S) \in Seq(S)
         /\ \A i, j \in DOMAIN Inbox!InOrder(S) :
              Inbox!InOrder(S)[i] = Inbox!InOrder(S)[j] => i = j
         /\ \A a \in S : \E i \in DOMAIN Inbox!InOrder(S) : Inbox!InOrder(S)[i] = a
  <1> DEFINE N == Cardinality(S)
             rank(a) == Cardinality({b \in S : b <= a})
             at(n) == CHOOSE a \in S : rank(a) = n
             list == [n \in 1 .. N |-> at(n)]
  <1>1. IsFiniteSet(S) /\ S \subseteq Int
    <2>1. IsFiniteSet(Alerts) /\ Alerts \subseteq Int
      BY TabAssumption
    <2> QED
      BY <2>1, FS_Subset
  <1>2. N \in Nat
    BY <1>1, FS_CardinalityType
  <1>3. Inbox!InOrder(S) = list
    BY DEF Inbox!InOrder, Inbox!Cardinality, Cardinality
  <1>4. /\ \A a \in S : rank(a) \in 1 .. N
        /\ \A a, b \in S : rank(a) = rank(b) => a = b
        /\ \A n \in 1 .. N : \E a \in S : rank(a) = n
    BY <1>1, Ranks
  <1> HIDE DEF rank, N
  <1>5. \A n \in 1 .. N : at(n) \in S /\ rank(at(n)) = n
    BY <1>4
  <1>6. \A a \in S : at(rank(a)) = a
    BY <1>4, <1>5
  <1> HIDE DEF at
  <1>7. list \in Seq(S) /\ DOMAIN list = 1 .. N
    BY <1>2, <1>5
  <1>8. \A i, j \in 1 .. N : list[i] = list[j] => i = j
    BY <1>5
  <1>9. \A a \in S : \E i \in 1 .. N : list[i] = a
    BY <1>4, <1>6
  <1> QED
    BY <1>3, <1>7, <1>8, <1>9

\* A list without an alert twice.
Once(q) == q \in Seq(Alerts) /\ \A i, j \in DOMAIN q : q[i] = q[j] => i = j

LEMMA OnceJoined ==
  ASSUME NEW q, Once(q), NEW S, S \subseteq Alerts, \A i \in DOMAIN q : q[i] \notin S
  PROVE  /\ Once(q \o Inbox!InOrder(S))
         /\ Inbox!ToSet(q \o Inbox!InOrder(S)) = Inbox!ToSet(q) \cup S
  <1> DEFINE list == Inbox!InOrder(S)
             r == q \o list
  <1>1. /\ list \in Seq(S) /\ Len(list) \in Nat /\ DOMAIN list = 1 .. Len(list)
        /\ \A i \in 1 .. Len(list) : list[i] \in S
        /\ \A i, j \in 1 .. Len(list) : list[i] = list[j] => i = j
        /\ \A a \in S : \E i \in 1 .. Len(list) : list[i] = a
    BY InOrderLists
  <1>2. /\ q \in Seq(Alerts) /\ Len(q) \in Nat /\ DOMAIN q = 1 .. Len(q)
        /\ \A i \in 1 .. Len(q) : q[i] \in Alerts /\ q[i] \notin S
        /\ \A i, j \in 1 .. Len(q) : q[i] = q[j] => i = j
    BY DEF Once
  <1> HIDE DEF list
  <1>3. list \in Seq(Alerts)
    BY <1>1
  <1>4. /\ r \in Seq(Alerts) /\ Len(r) = Len(q) + Len(list) /\ DOMAIN r = 1 .. Len(r)
        /\ \A i \in 1 .. Len(r) : r[i] = IF i <= Len(q) THEN q[i] ELSE list[i - Len(q)]
    BY <1>1, <1>2, <1>3
  <1> HIDE DEF r
  <1>5. \A i \in 1 .. Len(r) :
           \/ i \in 1 .. Len(q) /\ r[i] = q[i]
           \/ i - Len(q) \in 1 .. Len(list) /\ r[i] = list[i - Len(q)] /\ r[i] \in S
    BY <1>1, <1>2, <1>4
  <1>6. ASSUME NEW i \in 1 .. Len(r), NEW j \in 1 .. Len(r), r[i] = r[j]
        PROVE  i = j
    <2>1. CASE i \in 1 .. Len(q) /\ r[i] = q[i]
      BY <1>2, <1>5, <1>6, <2>1
    <2>2. CASE i - Len(q) \in 1 .. Len(list) /\ r[i] = list[i - Len(q)] /\ r[i] \in S
      <3>1. j - Len(q) \in 1 .. Len(list) /\ r[j] = list[j - Len(q)]
        BY <1>2, <1>5, <1>6, <2>2
      <3>2. i - Len(q) = j - Len(q)
        BY <1>1, <1>6, <2>2, <3>1
      <3> QED
        BY <1>2, <1>4, <3>2
    <2> QED
      BY <1>5, <2>1, <2>2
  <1>7. \A i \in 1 .. Len(q) : \E j \in 1 .. Len(r) : r[j] = q[i]
    BY <1>1, <1>2, <1>4
  <1>8. ASSUME NEW a \in S
        PROVE  \E j \in 1 .. Len(r) : r[j] = a
    <2>1. PICK i \in 1 .. Len(list) : list[i] = a
      BY <1>1
    <2>2. /\ Len(q) + i \in 1 .. Len(r) /\ ~(Len(q) + i <= Len(q))
          /\ (Len(q) + i) - Len(q) = i
      BY <1>1, <1>2, <1>4
    <2> QED
      BY <1>4, <2>1, <2>2
  <1>9. Inbox!ToSet(r) = Inbox!ToSet(q) \cup S
    <2>1. ASSUME NEW a
          PROVE  a \in Inbox!ToSet(r) <=> a \in Inbox!ToSet(q) \cup S
      BY <1>2, <1>4, <1>5, <1>7, <1>8 DEF Inbox!ToSet
    <2> QED
      BY <2>1
  <1>10. Once(r)
    BY <1>4, <1>6 DEF Once
  <1> QED
    BY <1>9, <1>10 DEF r, list

LEMMA OnceSplit ==
  ASSUME NEW q, Once(q), q # <<>>
  PROVE  /\ Once(Tail(q)) /\ Head(q) \in Alerts
         /\ Head(q) \notin Inbox!ToSet(Tail(q))
         /\ Inbox!ToSet(q) = {Head(q)} \cup Inbox!ToSet(Tail(q))
  <1>1. /\ q \in Seq(Alerts) /\ Len(q) \in Nat \ {0} /\ DOMAIN q = 1 .. Len(q)
        /\ Head(q) = q[1] /\ Tail(q) \in Seq(Alerts) /\ Len(Tail(q)) = Len(q) - 1
        /\ DOMAIN Tail(q) = 1 .. (Len(q) - 1)
        /\ \A i \in 1 .. (Len(q) - 1) : Tail(q)[i] = q[i + 1]
    BY DEF Once
  <1>2. \A i, j \in 1 .. Len(q) : q[i] = q[j] => i = j
    BY <1>1 DEF Once
  <1> DEFINE t == Tail(q)
  <1>3. t \in Seq(Alerts) /\ DOMAIN t = 1 .. (Len(q) - 1) /\ \A i \in DOMAIN t : t[i] = q[i + 1]
    BY <1>1
  <1> HIDE DEF t
  <1>4. \A i \in 1 .. (Len(q) - 1) : i + 1 \in 1 .. Len(q) /\ i + 1 # 1
    BY <1>1
  <1>5. ASSUME NEW i \in DOMAIN t, NEW j \in DOMAIN t, t[i] = t[j]
        PROVE  i = j
    <2>1. i + 1 = j + 1
      BY <1>2, <1>3, <1>4, <1>5
    <2> QED
      BY <1>3, <2>1
  <1>6. Head(q) \in Alerts /\ \A i \in DOMAIN t : t[i] # Head(q)
    BY <1>1, <1>2, <1>3, <1>4
  <1>7. ASSUME NEW a
        PROVE  a \in Inbox!ToSet(q) <=> a = Head(q) \/ a \in Inbox!ToSet(t)
    <2>1. ASSUME NEW i \in 1 .. Len(q)
          PROVE  q[i] = Head(q) \/ \E j \in DOMAIN t : q[i] = t[j]
      <3>1. CASE i = 1
        BY <1>1, <3>1
      <3>2. CASE i # 1
        <4>1. i - 1 \in 1 .. (Len(q) - 1) /\ (i - 1) + 1 = i
          BY <1>1, <3>2
        <4> QED
          BY <1>3, <4>1
      <3> QED
        BY <3>1, <3>2
    <2>2. \A j \in DOMAIN t : \E i \in 1 .. Len(q) : t[j] = q[i]
      BY <1>3, <1>4
    <2>3. \E i \in 1 .. Len(q) : q[i] = Head(q)
      BY <1>1
    <2> QED
      BY <1>1, <2>1, <2>2, <2>3 DEF Inbox!ToSet
  <1>8. Once(t)
    BY <1>3, <1>5 DEF Once
  <1>9. Head(q) \notin Inbox!ToSet(t)
    BY <1>6 DEF Inbox!ToSet
  <1> QED
    BY <1>6, <1>7, <1>8, <1>9 DEF t

-----------------------------------------------------------------------------
(* The alerts of a tab *)

\* The queue q and the alert c on the screen hold, once, every alert of p.
AllShown(q, c, p) ==
  /\ p \subseteq Inbox!ToSet(q) \cup {c}
  /\ c \notin Inbox!ToSet(q)
  /\ \A i, j \in DOMAIN q : q[i] = q[j] => i = j

\* What is being dismissed is an alert, the one on the screen unless the user
\* was signed out meanwhile.
InboxInv ==
  /\ Inbox!TypeOK
  /\ ~interrupted => AllShown(queue, current, processed)
  /\ Inbox!PollingGoesOn
  /\ dismissal.phase # "idle" => dismissal.alert \in Alerts
  /\ ~interrupted /\ dismissal.phase # "idle" => dismissal.alert = current

LEMMA EnqueueKeeps ==
  ASSUME Inbox!TypeOK, NEW S, S \subseteq Alerts, Inbox!Enqueue(S)
  PROVE  /\ queue' \in Seq(Alerts) /\ current' \in Alerts \cup {0} /\ processed' \subseteq Alerts
         /\ AllShown(queue, current, processed) => AllShown(queue', current', processed')
         /\ current # 0 => current' = current
  <1> DEFINE new == S \ Inbox!Known(queue, current, processed)
             q == queue \o Inbox!InOrder(new)
  <1>1. /\ queue \in Seq(Alerts) /\ current \in Alerts \cup {0} /\ processed \subseteq Alerts
        /\ 0 \notin Alerts
    BY TabAssumption DEF Inbox!TypeOK, Inbox!None
  <1>2. /\ new \subseteq Alerts /\ new \cap processed = {} /\ current \notin new
        /\ \A i \in DOMAIN queue : queue[i] \notin new
    BY <1>1 DEF Inbox!Known, Inbox!ToSet, Inbox!None
  <1>3. /\ processed' = processed \cup new
        /\ current' = IF current = 0 /\ q # <<>> THEN Head(q) ELSE current
        /\ queue' = IF current = 0 /\ q # <<>> THEN Tail(q) ELSE q
    BY DEF Inbox!Enqueue, Inbox!None
  <1>4. q \in Seq(Alerts)
    BY <1>1, <1>2, InOrderLists
  <1>5. ASSUME Once(queue)
        PROVE  Once(q) /\ Inbox!ToSet(q) = Inbox!ToSet(queue) \cup new
    BY <1>2, <1>5, OnceJoined
  <1> HIDE DEF q, new
  <1>6. queue' \in Seq(Alerts) /\ current' \in Alerts \cup {0}
    BY <1>1, <1>3, <1>4
  <1>7. ASSUME AllShown(queue, current, processed)
        PROVE  AllShown(queue', current', processed')
    <2>1. Once(queue)
      BY <1>1, <1>7 DEF AllShown, Once
    <2>2. Once(q) /\ Inbox!ToSet(q) = Inbox!ToSet(queue) \cup new
      BY <1>5, <2>1
    <2>3. CASE current = 0 /\ q # <<>>
      <3>1. /\ Once(Tail(q)) /\ Head(q) \notin Inbox!ToSet(Tail(q))
            /\ Inbox!ToSet(q) = {Head(q)} \cup Inbox!ToSet(Tail(q))
        BY <2>2, <2>3, OnceSplit
      <3>2. queue' = Tail(q) /\ current' = Head(q) /\ processed' = processed \cup new
        BY <1>3, <2>3
      <3>3. processed \subseteq Inbox!ToSet(queue)
        BY <1>1, <1>7, <2>3 DEF AllShown
      <3> QED
        BY <2>2, <3>1, <3>2, <3>3 DEF AllShown, Once
    <2>4. CASE ~(current = 0 /\ q # <<>>)
      <3>1. queue' = q /\ current' = current /\ processed' = processed \cup new
        BY <1>3, <2>4
      <3>2. current \notin Inbox!ToSet(q)
        BY <1>2, <1>7, <2>2 DEF AllShown
      <3> QED
        BY <1>7, <2>2, <3>1, <3>2 DEF AllShown, Once
    <2> QED
      BY <2>3, <2>4
  <1> QED
    BY <1>1, <1>2, <1>3, <1>6, <1>7

LEMMA AdvanceKeeps ==
  ASSUME InboxInv, dismissal.phase # "idle", Inbox!Advance
  PROVE  /\ queue' \in Seq(Alerts) /\ current' \in Alerts \cup {0} /\ processed' \subseteq Alerts
         /\ ~interrupted => AllShown(queue', current', processed')
         /\ dismissal' = Inbox!NoDismissal
  <1>1. /\ queue \in Seq(Alerts) /\ processed \subseteq Alerts /\ 0 \notin Alerts
        /\ dismissal.alert \in Alerts
        /\ processed' = processed \ {dismissal.alert}
        /\ current' = IF queue = <<>> THEN 0 ELSE Head(queue)
        /\ queue' = IF queue = <<>> THEN <<>> ELSE Tail(queue)
        /\ dismissal' = Inbox!NoDismissal
    BY TabAssumption DEF InboxInv, Inbox!TypeOK, Inbox!Advance, Inbox!None
  <1>2. queue' \in Seq(Alerts) /\ current' \in Alerts \cup {0}
    BY <1>1
  <1>3. ASSUME ~interrupted
        PROVE  AllShown(queue', current', processed')
    <2>1. Once(queue) /\ processed \subseteq Inbox!ToSet(queue) \cup {dismissal.alert}
      BY <1>1, <1>3 DEF InboxInv, AllShown, Once
    <2>2. CASE queue = <<>>
      BY <1>1, <2>1, <2>2 DEF AllShown, Inbox!ToSet
    <2>3. CASE queue # <<>>
      <3>1. /\ Once(Tail(queue)) /\ Head(queue) \notin Inbox!ToSet(Tail(queue))
            /\ Inbox!ToSet(queue) = {Head(queue)} \cup Inbox!ToSet(Tail(queue))
        BY <2>1, <2>3, OnceSplit
      <3>2. queue' = Tail(queue) /\ current' = Head(queue)
        BY <1>1, <2>3
      <3> QED
        BY <1>1, <2>1, <3>1, <3>2 DEF AllShown, Once
    <2> QED
      BY <2>2, <2>3
  <1> QED
    BY <1>1, <1>2, <1>3

LEMMA InboxStarts == Inbox!Init => InboxInv
  <1> SUFFICES ASSUME Inbox!Init PROVE InboxInv
    OBVIOUS
  <1>1. PICK f \in Fetches : \A g \in Fetches : f <= g
    BY TabAssumption
  <1>2. fetch \in [Fetches -> Inbox!Fetch] /\ fetch[f].phase = "asked"
    BY <1>1 DEF Inbox!Init, Inbox!Asking, Inbox!NoFetch, Inbox!Fetch
  <1>3. Inbox!TypeOK
    <2>1. Inbox!NoDismissal \in Inbox!Dismissal
      BY DEF Inbox!NoDismissal, Inbox!Dismissal, Inbox!None
    <2>2. <<>> \in Seq(Alerts)
      OBVIOUS
    <2> QED
      BY <1>2, <2>1, <2>2 DEF Inbox!Init, Inbox!TypeOK, Inbox!None
  <1>4. AllShown(queue, current, processed)
    BY DEF Inbox!Init, AllShown, Inbox!ToSet
  <1> QED
    BY <1>2, <1>3, <1>4 DEF InboxInv, Inbox!Init, Inbox!PollingGoesOn, Inbox!NoDismissal

\* Steps that leave the list and the dismissal alone.
LEMMA InboxQuietKeeps ==
  ASSUME InboxInv,
         \/ \E a \in Alerts : Inbox!Trigger(a) \/ Inbox!Push(a) \/ Inbox!ServeLate(a)
         \/ Inbox!Connect
         \/ UNCHANGED inboxVars
  PROVE  InboxInv'
  <1> USE DEF InboxInv, Inbox!TypeOK, Inbox!PollingGoesOn, AllShown
  <1>1. ASSUME NEW a \in Alerts, Inbox!Trigger(a) PROVE InboxInv'
    BY <1>1 DEF Inbox!Trigger
  <1>2. ASSUME NEW a \in Alerts, Inbox!Push(a) PROVE InboxInv'
    BY <1>2 DEF Inbox!Push
  <1>3. ASSUME NEW a \in Alerts, Inbox!ServeLate(a) PROVE InboxInv'
    BY <1>3 DEF Inbox!ServeLate
  <1>4. CASE Inbox!Connect
    BY <1>4 DEF Inbox!Connect
  <1>5. CASE UNCHANGED inboxVars
    BY <1>5 DEF inboxVars
  <1> QED
    BY <1>1, <1>2, <1>3, <1>4, <1>5

LEMMA InboxFetchKeeps ==
  ASSUME InboxInv,
         \/ \E f \in Fetches : Inbox!Read(f) \/ Inbox!Answer(f)
         \/ Inbox!SignIn \/ Inbox!PollTimer
  PROVE  InboxInv'
  <1>0. /\ fetch \in [Fetches -> Inbox!Fetch]
        /\ Inbox!Asking \in Inbox!Fetch /\ Inbox!Asking.phase = "asked"
        /\ Inbox!NoFetch \in Inbox!Fetch
    BY DEF InboxInv, Inbox!TypeOK, Inbox!Asking, Inbox!NoFetch, Inbox!Fetch
  <1>1. ASSUME NEW f \in Fetches, Inbox!Read(f) PROVE InboxInv'
    <2> DEFINE r == [phase |-> "read", rows |-> Alerts \ dismissed]
    <2>1. r \in Inbox!Fetch /\ r.phase = "read"
      BY DEF Inbox!Fetch
    <2>2. fetch' = [fetch EXCEPT ![f] = r]
      BY <1>1 DEF Inbox!Read
    <2> HIDE DEF r
    <2>3. fetch' \in [Fetches -> Inbox!Fetch] /\ fetch'[f].phase = "read"
      BY <1>0, <2>1, <2>2
    <2> QED
      BY <1>1, <2>3 DEF Inbox!Read, InboxInv, Inbox!TypeOK, Inbox!PollingGoesOn, AllShown
  <1>2. ASSUME NEW f \in Fetches, Inbox!Answer(f) PROVE InboxInv'
    <2>1. fetch' \in [Fetches -> Inbox!Fetch]
      BY <1>0, <1>2 DEF Inbox!Answer
    <2>2. \E S \in SUBSET Alerts : Inbox!Enqueue(S)
      <3>1. fetch[f].rows \cap due \subseteq Alerts
        BY DEF InboxInv, Inbox!TypeOK
      <3> QED
        BY <1>2, <3>1 DEF Inbox!Answer
    <2>3. PICK S \in SUBSET Alerts : Inbox!Enqueue(S)
      BY <2>2
    <2>4. /\ queue' \in Seq(Alerts) /\ current' \in Alerts \cup {0} /\ processed' \subseteq Alerts
          /\ AllShown(queue, current, processed) => AllShown(queue', current', processed')
          /\ current # 0 => current' = current
      BY <2>3, EnqueueKeeps DEF InboxInv
    <2>5. timer' \in BOOLEAN /\ (~connected => timer')
          /\ UNCHANGED <<dismissed, due, authed, connected, wire, dismissal, late, interrupted>>
      BY <1>2 DEF Inbox!Answer, InboxInv, Inbox!TypeOK
    <2>6. 0 \notin Alerts
      BY TabAssumption
    <2>7. Inbox!TypeOK'
      BY <2>1, <2>4, <2>5 DEF InboxInv, Inbox!TypeOK, Inbox!None
    <2> QED
      BY <2>4, <2>5, <2>6, <2>7 DEF InboxInv, Inbox!PollingGoesOn
  <1>3. ASSUME NEW f \in Fetches, Inbox!Open(f)
        PROVE  fetch' \in [Fetches -> Inbox!Fetch] /\ fetch'[f].phase # "idle"
    BY <1>0, <1>3 DEF Inbox!Open
  <1>4. CASE Inbox!SignIn
    <2>1. PICK f \in Fetches : Inbox!Open(f)
      BY <1>4 DEF Inbox!SignIn, Inbox!Idle
    <2>2. fetch' \in [Fetches -> Inbox!Fetch] /\ fetch'[f].phase # "idle"
      BY <1>3, <2>1
    <2> QED
      BY <1>4, <2>2 DEF Inbox!SignIn, InboxInv, Inbox!TypeOK, Inbox!PollingGoesOn, AllShown
  <1>5. CASE Inbox!PollTimer
    <2>1. CASE authed
      <3>1. PICK f \in Fetches : Inbox!Open(f)
        BY <1>5, <2>1 DEF Inbox!PollTimer, Inbox!Idle
      <3>2. fetch' \in [Fetches -> Inbox!Fetch] /\ fetch'[f].phase # "idle"
        BY <1>3, <3>1
      <3> QED
        BY <1>5, <3>2 DEF Inbox!PollTimer, InboxInv, Inbox!TypeOK, Inbox!PollingGoesOn, AllShown
    <2>2. CASE ~authed
      BY <1>5, <2>2 DEF Inbox!PollTimer, InboxInv, Inbox!TypeOK, Inbox!PollingGoesOn, AllShown
    <2> QED
      BY <2>1, <2>2
  <1> QED
    BY <1>1, <1>2, <1>4, <1>5

LEMMA SettledFits ==
  ASSUME InboxInv
  PROVE  /\ Inbox!Settled(dismissal) \in Inbox!Dismissal
         /\ Inbox!Settled(dismissal).alert = dismissal.alert
         /\ Inbox!Settled(dismissal).phase # "idle" => dismissal.phase # "idle"
         /\ Inbox!Unserved \subseteq Alerts
  <1>1. /\ dismissal = [phase |-> dismissal.phase, alert |-> dismissal.alert]
        /\ dismissal.phase \in {"idle", "ws", "acked", "http"}
        /\ dismissal.alert \in Alerts \cup {0}
        /\ dismissal.phase # "idle" => dismissal.alert \in Alerts
    BY DEF InboxInv, Inbox!TypeOK, Inbox!Dismissal, Inbox!None
  <1> QED
    BY <1>1 DEF Inbox!Settled, Inbox!Unserved, Inbox!Dismissal, Inbox!None

LEMMA InboxTransportKeeps ==
  ASSUME InboxInv, Inbox!Disconnect \/ Inbox!SignOut \/ \E a \in Alerts : Inbox!Deliver(a)
  PROVE  InboxInv'
  <1>1. CASE Inbox!Disconnect
    BY <1>1, SettledFits
    DEF Inbox!Disconnect, Inbox!PollAfterDisconnect, InboxInv, Inbox!TypeOK,
        Inbox!PollingGoesOn, AllShown
  <1>2. CASE Inbox!SignOut
    <2>1. <<>> \in Seq(Alerts)
      OBVIOUS
    <2>2. Inbox!TypeOK'
      BY <1>2, <2>1, SettledFits DEF Inbox!SignOut, InboxInv, Inbox!TypeOK, Inbox!None
    <2> QED
      BY <1>2, <2>2, SettledFits DEF Inbox!SignOut, InboxInv, Inbox!PollingGoesOn
  <1>3. ASSUME NEW a \in Alerts, Inbox!Deliver(a)
        PROVE  InboxInv'
    <2>1. /\ queue' \in Seq(Alerts) /\ current' \in Alerts \cup {0} /\ processed' \subseteq Alerts
          /\ AllShown(queue, current, processed) => AllShown(queue', current', processed')
          /\ current # 0 => current' = current
      <3>1. {a} \subseteq Alerts /\ Inbox!Enqueue({a})
        BY <1>3 DEF Inbox!Deliver
      <3>2. ASSUME NEW S, S \subseteq Alerts, Inbox!Enqueue(S)
            PROVE  /\ queue' \in Seq(Alerts) /\ current' \in Alerts \cup {0}
                   /\ processed' \subseteq Alerts
                   /\ AllShown(queue, current, processed)
                        => AllShown(queue', current', processed')
                   /\ current # 0 => current' = current
        BY <3>2, EnqueueKeeps DEF InboxInv
      <3> QED
        BY <3>1, <3>2
    <2>2. 0 \notin Alerts
      BY TabAssumption
    <2>3. Inbox!TypeOK'
      BY <1>3, <2>1 DEF Inbox!Deliver, InboxInv, Inbox!TypeOK, Inbox!None
    <2> QED
      BY <1>3, <2>1, <2>2, <2>3 DEF Inbox!Deliver, InboxInv, Inbox!PollingGoesOn
  <1> QED
    BY <1>1, <1>2, <1>3

LEMMA InboxDismissKeeps ==
  ASSUME InboxInv,
         \/ Inbox!ServeDismiss \/ Inbox!Dismiss \/ Inbox!SocketDismissFails
         \/ Inbox!SocketDismissed \/ Inbox!HttpDismissed \/ Inbox!HttpDismissFails
  PROVE  InboxInv'
  <1>0. /\ dismissal \in Inbox!Dismissal
        /\ dismissal.phase # "idle" => dismissal.alert \in Alerts
        /\ ~interrupted /\ dismissal.phase # "idle" => dismissal.alert = current
        /\ Inbox!NoDismissal \in Inbox!Dismissal /\ Inbox!NoDismissal.phase = "idle"
    BY DEF InboxInv, Inbox!TypeOK, Inbox!Dismissal, Inbox!NoDismissal, Inbox!None
  <1>1. CASE Inbox!ServeDismiss
    <2>1. /\ dismissal'.phase = "acked" /\ dismissal'.alert = dismissal.alert
          /\ dismissal' \in Inbox!Dismissal /\ dismissal.phase = "ws"
      BY <1>0, <1>1 DEF Inbox!ServeDismiss, Inbox!Dismissal
    <2> QED
      BY <1>0, <1>1, <2>1
      DEF Inbox!ServeDismiss, InboxInv, Inbox!TypeOK, Inbox!PollingGoesOn, AllShown
  <1>2. CASE Inbox!Dismiss
    <2>1. current \in Alerts
      BY <1>2 DEF Inbox!Dismiss, InboxInv, Inbox!TypeOK, Inbox!None
    <2>2. dismissal'.alert = current /\ dismissal' \in Inbox!Dismissal
      BY <1>2, <2>1 DEF Inbox!Dismiss, Inbox!Dismissal
    <2> QED
      BY <1>2, <2>1, <2>2
      DEF Inbox!Dismiss, InboxInv, Inbox!TypeOK, Inbox!PollingGoesOn, AllShown
  <1>3. CASE Inbox!SocketDismissFails
    BY <1>3, SettledFits
    DEF Inbox!SocketDismissFails, InboxInv, Inbox!TypeOK, Inbox!PollingGoesOn, AllShown
  <1>4. CASE Inbox!SocketDismissed
    <2>1. /\ queue' \in Seq(Alerts) /\ current' \in Alerts \cup {0} /\ processed' \subseteq Alerts
          /\ ~interrupted => AllShown(queue', current', processed')
          /\ dismissal' = Inbox!NoDismissal
      BY <1>4, AdvanceKeeps DEF Inbox!SocketDismissed
    <2> QED
      BY <1>0, <1>4, <2>1
      DEF Inbox!SocketDismissed, InboxInv, Inbox!TypeOK, Inbox!PollingGoesOn, Inbox!None
  <1>5. CASE Inbox!HttpDismissed
    <2>1. /\ queue' \in Seq(Alerts) /\ current' \in Alerts \cup {0} /\ processed' \subseteq Alerts
          /\ ~interrupted => AllShown(queue', current', processed')
          /\ dismissal' = Inbox!NoDismissal
      BY <1>5, AdvanceKeeps DEF Inbox!HttpDismissed
    <2> QED
      BY <1>0, <1>5, <2>1
      DEF Inbox!HttpDismissed, InboxInv, Inbox!TypeOK, Inbox!PollingGoesOn, Inbox!None
  <1>6. CASE Inbox!HttpDismissFails
    <2>1. /\ dismissal.alert \in Alerts /\ dismissed' \subseteq Alerts
          /\ current' = dismissal.alert /\ processed' = processed \ {dismissal.alert}
          /\ dismissal' = Inbox!NoDismissal /\ (~interrupted => dismissal.alert = current)
          /\ UNCHANGED <<due, authed, connected, wire, timer, fetch, queue, late, interrupted>>
      BY <1>0, <1>6 DEF Inbox!HttpDismissFails, InboxInv, Inbox!TypeOK
    <2>2. Inbox!TypeOK'
      BY <1>0, <2>1 DEF InboxInv, Inbox!TypeOK
    <2> QED
      BY <1>0, <2>1, <2>2 DEF InboxInv, Inbox!PollingGoesOn, AllShown
  <1> QED
    BY <1>1, <1>2, <1>3, <1>4, <1>5, <1>6

LEMMA InboxKeeps ==
  ASSUME InboxInv, Inbox!Next \/ UNCHANGED inboxVars
  PROVE  InboxInv'
  BY InboxQuietKeeps, InboxFetchKeeps, InboxTransportKeeps, InboxDismissKeeps DEF Inbox!Next

-----------------------------------------------------------------------------
(* The session of a browser *)

RowType == [user : Users, version : 0..MaxRequests, live : BOOLEAN]

\* The requests that were served.
Done == {n \in 1..MaxRequests : requests[n].phase \in {"served", "over"}}

\* The users whose cookies the browser has: a user of the access cookie, and
\* the owner of the row of the refresh cookie.
OwnerOf(rows, i) == IF i = 0 THEN 0 ELSE rows[i].user
Holders == {access.user, OwnerOf(row, refresh)} \ {0}

\* A request is served in the name of a cookie that it carries, and what its
\* answer sets is a renewal by the refresh cookie that it carries, the cookies
\* of the user who signs in, or none.
Carries(r, rows) ==
  /\ r.refresh \in {0} \cup DOMAIN rows
  /\ r.setRefresh \in {0, Session!KeepRefresh} \cup DOMAIN rows
  /\ r.op = "login" => r.for \in Users
  /\ r.shown # 0 =>
       /\ r.access.user \in {0, r.shown}
       /\ r.refresh # 0 => rows[r.refresh].user = r.shown
  /\ r.as # 0 =>
       r.as = r.access.user \/ (r.refresh # 0 /\ r.as = rows[r.refresh].user)
  /\ r.phase = "sent" => r.as = 0 /\ r.setAccess = Session!Keep
  /\ r.phase # "served" => r.setRefresh = Session!KeepRefresh /\ ~r.ok
  /\ r.ok /\ r.op = "me" => r.as # 0
  /\ r.setRefresh = Session!KeepRefresh =>
       /\ \/ r.setAccess = Session!Keep
          \/ r.refresh # 0 /\ r.setAccess.user = rows[r.refresh].user
       /\ r.op = "logout" => r.phase # "served"
       /\ r.op \in {"login", "password"} => ~r.ok
  /\ r.setRefresh # Session!KeepRefresh =>
       /\ r.ok
       /\ \/ /\ r.op = "login" /\ r.setRefresh \in DOMAIN rows
             /\ r.setAccess.user = r.for /\ rows[r.setRefresh].user = r.for
          \/ /\ r.op \in {"logout", "password"} /\ r.setRefresh = 0
             /\ r.setAccess = Session!NoAccess

\* A request of which no sign-in or sign-out was answered since it was sent
\* carries the refresh cookie of the browser and no one else's access cookie.
Timely(r) == r.refresh = refresh /\ r.access.user \in {0} \cup Holders

Identity ==
  /\ \A u, v \in Holders : u = v
  /\ \A t \in Tabs \ stale : tabUser[t] # 0 => Holders \subseteq {tabUser[t]}
  /\ signedOut => Holders = {}

SessionInv ==
  /\ Session!TypeOK
  /\ \A u \in Users : version[u] <= Cardinality(Done)
  /\ Len(row) <= Cardinality(Done)
  /\ \A n \in 1..MaxRequests : n > sent => requests[n] = Session!Unused
  /\ \A n \in Session!UnderWay : Carries(requests[n], row)
  /\ ~mixed => \A n \in Session!UnderWay : ~requests[n].late => Timely(requests[n])
  /\ ~mixed => Identity

LEMMA DoneCounted ==
  ASSUME NEW S, S \subseteq 1..MaxRequests
  PROVE  /\ IsFiniteSet(S) /\ Cardinality(S) \in Nat /\ Cardinality(S) <= MaxRequests
         /\ \A n \in (1..MaxRequests) \ S : Cardinality(S \cup {n}) = Cardinality(S) + 1
  <1>1. /\ IsFiniteSet(1..MaxRequests) /\ Cardinality(1..MaxRequests) = MaxRequests
    <2>1. MaxRequests \in Nat
      BY TabAssumption
    <2> QED
      BY <2>1, FS_Interval
  <1>2. IsFiniteSet(S) /\ Cardinality(S) <= MaxRequests
    <2> DEFINE T == 1..MaxRequests
    <2>1. S \subseteq T /\ IsFiniteSet(T) /\ Cardinality(T) = MaxRequests
      BY <1>1
    <2> HIDE DEF T
    <2> QED
      BY <2>1, FS_Subset
  <1> QED
    BY <1>2, FS_CardinalityType, FS_AddElement

LEMMA RowsFit ==
  ASSUME SessionInv
  PROVE  /\ row \in Seq(RowType) /\ Len(row) \in Nat /\ Len(row) <= MaxRequests
         /\ DOMAIN row = 1..Len(row) /\ MaxRequests \in Nat
         /\ \A i \in DOMAIN row : row[i] \in RowType /\ row[i].user \in Users /\ row[i].user # 0
         /\ Session!KeepRefresh \notin DOMAIN row /\ Session!KeepRefresh # 0
         /\ refresh \in {0} \cup DOMAIN row
  <1>1. row \in Seq(RowType) /\ Len(row) \in Nat /\ DOMAIN row = 1..Len(row)
    BY DEF SessionInv, Session!TypeOK, RowType
  <1>2. Done \subseteq 1..MaxRequests /\ Len(row) <= Cardinality(Done)
    BY DEF SessionInv, Done
  <1>3. Len(row) <= MaxRequests
    <2>1. Cardinality(Done) \in Nat /\ Cardinality(Done) <= MaxRequests
      BY <1>2, DoneCounted
    <2> QED
      BY <1>1, <1>2, <2>1, TabAssumption
  <1>4. \A i \in DOMAIN row : row[i] \in RowType /\ row[i].user \in Users
    <2>1. \A i \in DOMAIN row : row[i] \in RowType
      BY <1>1
    <2>2. \A r \in RowType : r.user \in Users
      BY DEF RowType
    <2> QED
      BY <2>1, <2>2
  <1> QED
    BY <1>1, <1>3, <1>4, TabAssumption DEF Session!KeepRefresh, SessionInv, Session!TypeOK

\* The property, in the words of the model.
LEMMA OneIdentityHolds ==
  ASSUME SessionInv
  PROVE  Session!OneIdentity
  <1>1. ASSUME ~mixed
        PROVE  Identity /\ Holders = {access.user, IF refresh = 0 THEN 0 ELSE row[refresh].user} \ {0}
    BY <1>1 DEF SessionInv, Holders, OwnerOf
  <1>2. ASSUME NEW n \in Session!UnderWay, requests[n].shown # 0
        PROVE  requests[n].as \in {0, requests[n].shown}
    BY <1>2 DEF SessionInv, Carries
  <1> QED
    BY <1>1, <1>2 DEF Session!OneIdentity, Identity

LEMMA SessionStarts == Session!Init => SessionInv
  <1> SUFFICES ASSUME Session!Init PROVE SessionInv
    OBVIOUS
  <1> USE TabAssumption
  <1>1. Session!Unused \in Session!Request
    BY DEF Session!Unused, Session!Request, Session!Keep, Session!KeepRefresh, Session!Tokens,
           Session!NoAccess, Session!Operations
  <1>2. Session!TypeOK
    <2>1. <<>> \in Seq([user : Users, version : 0..MaxRequests, live : BOOLEAN])
      OBVIOUS
    <2>2. Session!NoAccess \in Session!Tokens
      BY DEF Session!Tokens, Session!NoAccess
    <2> QED
      <3>1. /\ version \in [Users -> 0..MaxRequests] /\ tabUser \in [Tabs -> Users \cup {0}]
            /\ sent \in 0..MaxRequests
        BY DEF Session!Init
      <3>2. requests \in [1..MaxRequests -> Session!Request]
        BY <1>1 DEF Session!Init
      <3> QED
        BY <2>1, <2>2, <3>1, <3>2 DEF Session!Init, Session!TypeOK
  <1>3. \A n \in 1..MaxRequests : requests[n].phase = "unused"
    BY DEF Session!Init, Session!Unused
  <1>4. Done = {} /\ Session!UnderWay = {}
    BY <1>3 DEF Done, Session!UnderWay
  <1>5. Cardinality(Done) = 0
    BY <1>4, FS_EmptySet
  <1>6. Holders = {}
    BY DEF Session!Init, Session!NoAccess, Holders, OwnerOf
  <1>7. /\ \A u \in Users : version[u] = 0
        /\ Len(row) = 0 /\ \A n \in 1..MaxRequests : requests[n] = Session!Unused
    BY DEF Session!Init
  <1>8. Identity
    BY <1>6 DEF Identity
  <1> QED
    BY <1>2, <1>4, <1>5, <1>7, <1>8 DEF SessionInv

\* Rows are added, and keep their users.
Grown ==
  /\ row' \in Seq(RowType) /\ Len(row') \in {Len(row), Len(row) + 1}
  /\ \A i \in DOMAIN row : row'[i].user = row[i].user

LEMMA CarriesStays ==
  ASSUME SessionInv, Grown, Len(row') <= MaxRequests, NEW r, Carries(r, row)
  PROVE  Carries(r, row')
  <1>1. /\ DOMAIN row \subseteq DOMAIN row'
        /\ \A i \in DOMAIN row : row'[i].user = row[i].user
    BY RowsFit DEF Grown
  <1>2. r.refresh # 0 => r.refresh \in DOMAIN row
    BY DEF Carries
  <1>3. r.setRefresh \in DOMAIN row => row'[r.setRefresh].user = row[r.setRefresh].user
    BY <1>1
  <1>4. r.setRefresh \in {0, Session!KeepRefresh} \cup DOMAIN row'
    BY <1>1 DEF Carries
  <1> QED
    BY <1>1, <1>2, <1>3, <1>4 DEF Carries

\* A step of one request that leaves the browser as it is: the request is
\* resolved, or it is served, with at most one new row and one new version.
LEMMA RequestStepKeeps ==
  ASSUME SessionInv, NEW n \in 1..MaxRequests, requests[n].phase \in {"sent", "resolved"},
         requests' \in [1..MaxRequests -> Session!Request],
         \A m \in 1..MaxRequests : m # n => requests'[m] = requests[m],
         \/ requests'[n].phase = "served"
         \/ requests'[n].phase = "resolved" /\ row' = row /\ version' = version,
         Grown,
         version' \in [Users -> Nat], \A u \in Users : version'[u] <= version[u] + 1,
         requests'[n].late = requests[n].late, requests'[n].refresh = requests[n].refresh,
         requests'[n].access = requests[n].access,
         Len(row') <= MaxRequests => Carries(requests'[n], row'),
         UNCHANGED <<access, refresh, tabUser, sent, stale, signedOut, mixed>>
  PROVE  SessionInv'
  <1> DEFINE C == Cardinality(Done)
             D == Cardinality(Done')
             L == Len(row)
             M == Len(row')
  <1>0. /\ requests \in [1..MaxRequests -> Session!Request]
        /\ L \in Nat /\ M \in Nat /\ DOMAIN row = 1..L /\ DOMAIN row' = 1..M
        /\ M = L \/ M = L + 1
        /\ row' = row => M = L
        /\ version \in [Users -> 0..MaxRequests] /\ MaxRequests \in Nat
        /\ \A u \in Users : version[u] <= C
        /\ L <= C
    <2>1. /\ requests \in [1..MaxRequests -> Session!Request]
          /\ version \in [Users -> 0..MaxRequests]
      BY DEF SessionInv, Session!TypeOK
    <2>2. /\ \A u \in Users : version[u] <= C
          /\ Len(row) <= C
      BY DEF SessionInv
    <2>3. /\ M \in Nat /\ DOMAIN row' = 1..M
          /\ M = L \/ M = L + 1
      BY DEF Grown
    <2>4. L \in Nat /\ DOMAIN row = 1..L /\ MaxRequests \in Nat
      BY RowsFit
    <2>5. row' = row => M = L
      OBVIOUS
    <2> HIDE DEF L, M, C
    <2> QED
      BY <2>1, <2>2, <2>3, <2>4, <2>5
  <1>1. /\ C \in Nat /\ D \in Nat /\ D <= MaxRequests
        /\ \/ D = C + 1
           \/ D = C /\ row' = row /\ version' = version
    <2>1. Done \subseteq 1..MaxRequests /\ Done' \subseteq 1..MaxRequests /\ n \notin Done
      BY DEF Done
    <2>2. CASE requests'[n].phase = "served"
      <3>1. Done' = Done \cup {n}
        BY <2>2 DEF Done
      <3>2. D = C + 1
        BY <2>1, <3>1, DoneCounted
      <3> QED
        BY <2>1, <3>2, DoneCounted
    <2>3. CASE requests'[n].phase = "resolved" /\ row' = row /\ version' = version
      <3>1. Done' = Done
        BY <2>1, <2>3 DEF Done
      <3> QED
        BY <2>1, <2>3, <3>1, DoneCounted
    <2> QED
      BY <2>2, <2>3
  <1> HIDE DEF C, D, L, M
  <1>2. M <= D /\ M <= MaxRequests
    BY <1>0, <1>1
  <1>3. \A u \in Users : version'[u] \in Nat /\ version'[u] <= D /\ version'[u] <= MaxRequests
    BY <1>0, <1>1
  <1>4. version' \in [Users -> 0..MaxRequests]
    BY <1>0, <1>3
  <1>5. refresh \in {0} \cup DOMAIN row /\ DOMAIN row \subseteq DOMAIN row'
    <2>1. L <= M
      BY <1>0
    <2>2. 1..L \subseteq 1..M
      BY <1>0, <2>1
    <2> QED
      BY <1>0, <2>2, RowsFit
  <1>6. Session!TypeOK'
    <2>1. row' \in Seq([user : Users, version : 0..MaxRequests, live : BOOLEAN])
      BY DEF Grown, RowType
    <2>2. refresh' \in {0} \cup DOMAIN row'
      BY <1>5
    <2> QED
      BY <1>4, <2>1, <2>2 DEF SessionInv, Session!TypeOK
  <1>7. ASSUME NEW m \in 1..MaxRequests, m > sent'
        PROVE  requests'[m] = Session!Unused
    <2>1. requests[m] = Session!Unused
      BY <1>7 DEF SessionInv
    <2>2. m # n
      BY <2>1 DEF Session!Unused
    <2> QED
      BY <2>1, <2>2
  <1>8. Session!UnderWay' = Session!UnderWay /\ n \in Session!UnderWay
    <2>1. n \in Session!UnderWay /\ n \in Session!UnderWay'
      BY DEF Session!UnderWay
    <2>2. \A m \in 1..MaxRequests : m # n => (m \in Session!UnderWay <=> m \in Session!UnderWay')
      BY DEF Session!UnderWay
    <2> QED
      BY <2>1, <2>2 DEF Session!UnderWay
  <1>9. ASSUME NEW m \in Session!UnderWay'
        PROVE  Carries(requests'[m], row')
    <2>1. CASE m = n
      BY <1>2, <2>1 DEF M
    <2>2. CASE m # n
      <3>1. m \in 1..MaxRequests /\ requests'[m] = requests[m]
        BY <2>2 DEF Session!UnderWay
      <3>2. Carries(requests[m], row)
        BY <1>8 DEF SessionInv
      <3> QED
        BY <1>2, <3>1, <3>2, CarriesStays DEF M
    <2> QED
      BY <2>1, <2>2
  <1>10. Holders' = Holders
    <2>1. OwnerOf(row', refresh) = OwnerOf(row, refresh)
      BY <1>5 DEF Grown, OwnerOf
    <2> QED
      BY <2>1 DEF Holders
  <1>11. ASSUME ~mixed', NEW m \in Session!UnderWay', ~requests'[m].late
         PROVE  Timely(requests[m])' /\ Timely(requests'[m])
    <2>1. /\ m \in 1..MaxRequests /\ requests'[m].late = requests[m].late
          /\ requests'[m].refresh = requests[m].refresh /\ requests'[m].access = requests[m].access
      BY DEF Session!UnderWay
    <2>2. Timely(requests[m])
      BY <1>8, <1>11, <2>1 DEF SessionInv
    <2> QED
      BY <1>10, <2>1, <2>2 DEF Timely
  <1>12. ~mixed' => Identity'
    BY <1>10 DEF SessionInv, Identity
  <1>13. /\ \A u \in Users : version'[u] <= Cardinality(Done')
         /\ Len(row') <= Cardinality(Done')
    BY <1>2, <1>3 DEF D, M
  <1> QED
    BY <1>6, <1>7, <1>9, <1>11, <1>12, <1>13 DEF SessionInv

LEMMA RequestIs ==
  ASSUME NEW r \in Session!Request
  PROVE  /\ r.op \in Session!Operations \cup {"none"} /\ r.tab \in Tabs \cup {0}
         /\ r.for \in Users \cup {0} /\ r.shown \in Users \cup {0}
         /\ r.access \in Session!Tokens /\ r.access.user \in Users \cup {0}
         /\ r.refresh \in 0..MaxRequests /\ r.as \in Users \cup {0} /\ r.ok \in BOOLEAN
         /\ r.setAccess \in Session!Tokens /\ r.setAccess.user \in Users \cup {0}
         /\ r.setRefresh \in 0..(MaxRequests + 1)
         /\ r.late \in BOOLEAN
  BY DEF Session!Request, Session!Tokens

LEMMA ResolvedIs ==
  ASSUME SessionInv, NEW n \in 1..MaxRequests, NEW u \in Users \cup {0},
         NEW set \in Session!Tokens,
         requests' = [requests EXCEPT ![n].phase = "resolved", ![n].as = u, ![n].setAccess = set]
  PROVE  /\ requests' \in [1..MaxRequests -> Session!Request]
         /\ \A m \in 1..MaxRequests : m # n => requests'[m] = requests[m]
         /\ requests'[n] =
              [requests[n] EXCEPT !.phase = "resolved", !.as = u, !.setAccess = set]
  <1> DEFINE q == [requests[n] EXCEPT !.phase = "resolved", !.as = u, !.setAccess = set]
  <1>1. requests \in [1..MaxRequests -> Session!Request]
    BY DEF SessionInv, Session!TypeOK
  <1>2. q \in Session!Request
    BY <1>1 DEF Session!Request
  <1>3. requests' = [requests EXCEPT ![n] = q]
    BY <1>1
  <1> HIDE DEF q
  <1>4. /\ requests' \in [1..MaxRequests -> Session!Request]
        /\ \A m \in 1..MaxRequests : m # n => requests'[m] = requests[m]
        /\ requests'[n] = q
    BY <1>1, <1>2, <1>3
  <1> QED
    BY <1>4 DEF q

LEMMA ResolveKeeps ==
  ASSUME SessionInv, NEW n \in 1..MaxRequests, Session!Resolve(n)
  PROVE  SessionInv'
  <1> DEFINE r == requests[n]
  <1>1. /\ requests \in [1..MaxRequests -> Session!Request] /\ r \in Session!Request
        /\ r.phase = "sent" /\ UNCHANGED <<version, row>>
        /\ version \in [Users -> 0..MaxRequests]
    BY DEF Session!Resolve, Session!To, SessionInv, Session!TypeOK
  <1>2. Carries(r, row)
    BY <1>1 DEF SessionInv, Session!UnderWay
  <1>3. /\ Session!Keep \in Session!Tokens
        /\ \A i \in DOMAIN row : /\ row[i].user \in Users
                                 /\ Session!Renewed(i) \in Session!Tokens
                                 /\ Session!Renewed(i).user = row[i].user
    <2>1. MaxRequests \in Nat
      BY TabAssumption
    <2>2. \A u \in Users : [user |-> u, version |-> version[u]] \in Session!Tokens
      BY <1>1, <2>1 DEF Session!Tokens
    <2>3. \A i \in DOMAIN row : row[i].user \in Users
      BY RowsFit
    <2>4. Session!Keep \in Session!Tokens
      BY <2>1 DEF Session!Keep, Session!Tokens
    <2> QED
      BY <2>2, <2>3, <2>4 DEF Session!Renewed
  <1>4. \E u \in Users \cup {0}, set \in Session!Tokens :
          /\ requests' = [requests EXCEPT ![n].phase = "resolved", ![n].as = u,
                                          ![n].setAccess = set]
          /\ u # 0 => u = r.access.user \/ (r.refresh # 0 /\ u = row[r.refresh].user)
          /\ set = Session!Keep \/ (r.refresh # 0 /\ set.user = row[r.refresh].user)
    <2>1. r.access.user \in Users \cup {0}
      BY <1>1, RequestIs
    <2>2. r.refresh # 0 => r.refresh \in DOMAIN row
      BY <1>2 DEF Carries
    <2>3. \/ requests' = [requests EXCEPT ![n].phase = "resolved", ![n].as = r.access.user,
                                          ![n].setAccess = Session!Keep]
          \/ /\ r.refresh # 0
             /\ requests' = [requests EXCEPT ![n].phase = "resolved",
                                             ![n].as = row[r.refresh].user,
                                             ![n].setAccess = Session!Renewed(r.refresh)]
          \/ requests' = [requests EXCEPT ![n].phase = "resolved", ![n].as = 0,
                                          ![n].setAccess = Session!Keep]
      BY DEF Session!Resolve, Session!RefreshHolds
    <2> HIDE DEF r
    <2> QED
      BY <1>3, <2>1, <2>2, <2>3
  <1>5. PICK u \in Users \cup {0}, set \in Session!Tokens :
          /\ requests' = [requests EXCEPT ![n].phase = "resolved", ![n].as = u,
                                          ![n].setAccess = set]
          /\ u # 0 => u = r.access.user \/ (r.refresh # 0 /\ u = row[r.refresh].user)
          /\ set = Session!Keep \/ (r.refresh # 0 /\ set.user = row[r.refresh].user)
    BY <1>4
  <1> DEFINE q == requests'[n]
  <1>6. /\ requests' \in [1..MaxRequests -> Session!Request]
        /\ \A m \in 1..MaxRequests : m # n => requests'[m] = requests[m]
        /\ q = [r EXCEPT !.phase = "resolved", !.as = u, !.setAccess = set]
    BY <1>5, ResolvedIs
  <1>7. /\ q.phase = "resolved" /\ q.as = u /\ q.setAccess = set
        /\ q.op = r.op /\ q.for = r.for /\ q.shown = r.shown /\ q.access = r.access
        /\ q.refresh = r.refresh /\ q.ok = r.ok /\ q.setRefresh = r.setRefresh /\ q.late = r.late
    BY <1>1, <1>6 DEF Session!Request
  <1>8. Carries(q, row)
    <2> HIDE DEF q, r
    <2> QED
      BY <1>1, <1>2, <1>5, <1>7 DEF Carries
  <1>9. Grown
    BY <1>1, RowsFit DEF Grown
  <1>10. /\ version' \in [Users -> Nat] /\ \A u1 \in Users : version'[u1] <= version[u1] + 1
    <2>1. \A u1 \in Users : version[u1] \in Nat /\ version[u1] <= version[u1] + 1
      BY <1>1, TabAssumption
    <2> QED
      BY <1>1, <2>1
  <1>11. UNCHANGED <<access, refresh, tabUser, sent, stale, signedOut, mixed>>
    BY DEF Session!Resolve
  <1> QED
    BY <1>1, <1>6, <1>7, <1>8, <1>9, <1>10, <1>11, RequestStepKeeps

LEMMA AnsweredKeeps ==
  ASSUME SessionInv, NEW n \in 1..MaxRequests, requests[n].phase = "resolved",
         NEW ok \in BOOLEAN, NEW a \in Session!Tokens, NEW i \in 0..(MaxRequests + 1),
         Session!Answered(n, ok, a, i),
         Grown, version' \in [Users -> Nat], \A u \in Users : version'[u] <= version[u] + 1,
         UNCHANGED <<access, refresh, tabUser, sent, stale, signedOut, mixed>>,
         \/ /\ i = Session!KeepRefresh /\ a = requests[n].setAccess
            /\ requests[n].op # "logout" /\ (requests[n].op \in {"login", "password"} => ~ok)
            /\ ok => requests[n].as # 0
         \/ /\ ok /\ requests[n].op = "login" /\ i \in DOMAIN row'
            /\ a.user = requests[n].for /\ row'[i].user = requests[n].for
         \/ /\ ok /\ requests[n].op \in {"logout", "password"}
            /\ i = 0 /\ a = Session!NoAccess
  PROVE  SessionInv'
  <1> DEFINE r == requests[n]
             q == [r EXCEPT !.phase = "served", !.ok = ok, !.setAccess = a, !.setRefresh = i]
  <1>1. requests \in [1..MaxRequests -> Session!Request] /\ r \in Session!Request
    BY DEF SessionInv, Session!TypeOK
  <1>2. q \in Session!Request
    BY <1>1 DEF Session!Request
  <1>3. requests' = [requests EXCEPT ![n] = q]
    BY <1>1 DEF Session!Answered
  <1>4. /\ q.phase = "served" /\ q.ok = ok /\ q.setAccess = a /\ q.setRefresh = i
        /\ q.op = r.op /\ q.for = r.for /\ q.shown = r.shown /\ q.access = r.access
        /\ q.refresh = r.refresh /\ q.as = r.as /\ q.late = r.late
    BY <1>1 DEF Session!Request
  <1> HIDE DEF q
  <1>5. /\ requests' \in [1..MaxRequests -> Session!Request]
        /\ \A m \in 1..MaxRequests : m # n => requests'[m] = requests[m]
        /\ requests'[n] = q
    BY <1>1, <1>2, <1>3
  <1>6. Carries(r, row) /\ r.phase = "resolved"
    BY DEF SessionInv, Session!UnderWay
  <1>7. ASSUME Len(row') <= MaxRequests
        PROVE  Carries(q, row')
    <2>1. Carries(r, row')
      BY <1>6, <1>7, CarriesStays
    <2>2. /\ i \in DOMAIN row' => i # Session!KeepRefresh /\ i # 0
          /\ Session!KeepRefresh # 0
      BY <1>7, TabAssumption DEF Grown, Session!KeepRefresh
    <2> HIDE DEF r
    <2>3. CASE /\ i = Session!KeepRefresh /\ a = r.setAccess
               /\ r.op # "logout" /\ (r.op \in {"login", "password"} => ~ok)
               /\ ok => r.as # 0
      BY <1>4, <1>6, <2>1, <2>3 DEF Carries
    <2>4. CASE /\ ok /\ r.op = "login" /\ i \in DOMAIN row'
               /\ a.user = r.for /\ row'[i].user = r.for
      BY <1>4, <1>6, <2>1, <2>2, <2>4 DEF Carries
    <2>5. CASE /\ ok /\ r.op \in {"logout", "password"}
               /\ i = 0 /\ a = Session!NoAccess
      BY <1>4, <1>6, <2>1, <2>2, <2>5 DEF Carries
    <2> QED
      BY <2>3, <2>4, <2>5 DEF r
  <1> QED
    BY <1>4, <1>5, <1>7, RequestStepKeeps

LEMMA ServeKeeps ==
  ASSUME SessionInv, NEW n \in 1..MaxRequests, Session!Serve(n)
  PROVE  SessionInv'
  <1> DEFINE r == requests[n]
  <1>1. /\ r.phase = "resolved" /\ r \in Session!Request
        /\ version \in [Users -> 0..MaxRequests]
        /\ UNCHANGED <<access, refresh, tabUser, sent, stale, signedOut, mixed>>
    BY DEF Session!Serve, Session!To, SessionInv, Session!TypeOK
  <1>2. Carries(r, row) /\ ~r.ok
    <2>1. Carries(r, row)
      BY <1>1 DEF SessionInv, Session!UnderWay
    <2> QED
      BY <1>1, <2>1 DEF Carries
  <1>3. /\ row \in Seq(RowType) /\ Len(row) \in Nat /\ Len(row) <= MaxRequests
        /\ DOMAIN row = 1..Len(row) /\ MaxRequests \in Nat
        /\ \A i \in DOMAIN row : row[i] \in RowType /\ row[i].user \in Users
    BY RowsFit
  <1>4. /\ Session!NoAccess \in Session!Tokens /\ Session!KeepRefresh \in 0..(MaxRequests + 1)
        /\ 0 \in 0..(MaxRequests + 1)
        /\ r.setAccess \in Session!Tokens /\ r.as \in Users \cup {0}
        /\ r.op = "login" => r.for \in Users
        /\ \A u \in Users : version[u] \in 0..MaxRequests /\ version[u] <= version[u] + 1
    <2>1. Session!NoAccess \in Session!Tokens
      BY <1>3 DEF Session!NoAccess, Session!Tokens
    <2>2. Session!KeepRefresh \in 0..(MaxRequests + 1) /\ 0 \in 0..(MaxRequests + 1)
      BY <1>3 DEF Session!KeepRefresh
    <2>3. r.setAccess \in Session!Tokens /\ r.as \in Users \cup {0}
      BY <1>1, RequestIs
    <2>4. r.op = "login" => r.for \in Users
      BY <1>2 DEF Carries
    <2>5. \A u \in Users : version[u] \in 0..MaxRequests /\ version[u] <= version[u] + 1
      BY <1>1, <1>3
    <2> QED
      BY <2>1, <2>2, <2>3, <2>4, <2>5
  <1>5. ASSUME row' = row PROVE Grown
    BY <1>3, <1>5 DEF Grown
  <1>6. ASSUME version' = version
        PROVE  version' \in [Users -> Nat] /\ \A u \in Users : version'[u] <= version[u] + 1
    BY <1>1, <1>3, <1>4, <1>6
  <1>7. ASSUME Session!Refused(n), r.op # "logout" PROVE SessionInv'
    <2>1. /\ Session!Answered(n, FALSE, r.setAccess, Session!KeepRefresh)
          /\ row' = row /\ version' = version
      BY <1>7 DEF Session!Refused
    <2> QED
      BY <1>1, <1>4, <1>5, <1>6, <1>7, <2>1, AnsweredKeeps
  <1>8. CASE r.op = "login" /\ Session!Login(n) /\ ~Session!Refused(n)
    <2> DEFINE u == r.for
               new == [user |-> u, version |-> version[u], live |-> TRUE]
               a == [user |-> u, version |-> version[u]]
    <2>1. u \in Users /\ new \in RowType /\ a \in Session!Tokens /\ a.user = u /\ new.user = u
      BY <1>3, <1>4, <1>8 DEF RowType, Session!Tokens
    <2>2. row' = Append(row, new) /\ Session!Answered(n, TRUE, a, Len(row')) /\ version' = version
      BY <1>8 DEF Session!Login
    <2> HIDE DEF new, a, u
    <2>3. /\ row' \in Seq(RowType) /\ Len(row') = Len(row) + 1
          /\ \A i \in DOMAIN row : row'[i] = row[i]
          /\ row'[Len(row) + 1] = new
      BY <1>3, <2>1, <2>2
    <2>4. Grown /\ Len(row') \in DOMAIN row' /\ row'[Len(row')].user = u
      BY <1>3, <2>1, <2>3 DEF Grown
    <2>5. Len(row') \in 0..(MaxRequests + 1)
      BY <1>3, <2>3
    <2> QED
      BY <1>1, <1>6, <1>8, <2>1, <2>2, <2>4, <2>5, AnsweredKeeps DEF u
  <1>9. ASSUME Session!Clear(n), Grown, r.op \in {"logout", "password"},
               version' \in [Users -> Nat], \A u \in Users : version'[u] <= version[u] + 1
        PROVE  SessionInv'
    <2>1. Session!Answered(n, TRUE, Session!NoAccess, 0)
      BY <1>9 DEF Session!Clear
    <2> QED
      BY <1>1, <1>4, <1>9, <2>1, AnsweredKeeps
  <1>10. CASE r.op = "logout" /\ Session!Logout(n)
    <2>1. /\ \/ r.refresh # 0 /\ row' = [row EXCEPT ![r.refresh].live = FALSE]
             \/ row' = row
          /\ Session!Clear(n) /\ version' = version
      BY <1>10 DEF Session!Logout
    <2>2. CASE r.refresh # 0 /\ row' = [row EXCEPT ![r.refresh].live = FALSE]
      <3>1. r.refresh \in DOMAIN row
        BY <1>2, <2>2 DEF Carries
      <3> DEFINE ended == [row[r.refresh] EXCEPT !.live = FALSE]
      <3>2. ended \in RowType /\ ended.user = row[r.refresh].user
        BY <1>3, <3>1 DEF RowType
      <3>3. row' = [row EXCEPT ![r.refresh] = ended]
        BY <1>3, <2>2, <3>1
      <3> HIDE DEF ended
      <3>4. /\ row' \in Seq(RowType) /\ Len(row') = Len(row)
            /\ \A i \in DOMAIN row : row'[i] = IF i = r.refresh THEN ended ELSE row[i]
        BY <1>3, <3>1, <3>2, <3>3
      <3>5. Grown
        BY <1>3, <3>2, <3>4 DEF Grown
      <3> QED
        BY <1>6, <1>9, <1>10, <2>1, <3>5
    <2> QED
      BY <1>5, <1>6, <1>9, <1>10, <2>1, <2>2
  <1>11. CASE r.op = "password" /\ Session!EndSessions(n) /\ ~Session!Refused(n)
    <2> DEFINE u == r.as
               ended(i) == [row[i] EXCEPT !.live = @ /\ row[i].user # u]
    <2>1. /\ u \in Users /\ version' = [version EXCEPT ![u] = @ + 1]
          /\ row' = [i \in DOMAIN row |-> ended(i)] /\ Session!Clear(n)
      BY <1>4, <1>11 DEF Session!EndSessions
    <2>2. \A i \in DOMAIN row : ended(i) \in RowType /\ ended(i).user = row[i].user
      <3> SUFFICES ASSUME NEW i \in DOMAIN row
                   PROVE  ended(i) \in RowType /\ ended(i).user = row[i].user
        OBVIOUS
      <3>1. row[i] \in RowType
        BY <1>3
      <3> QED
        BY <3>1 DEF RowType
    <2> HIDE DEF ended
    <2>3. /\ row' \in Seq(RowType) /\ Len(row') = Len(row)
          /\ \A i \in DOMAIN row : row'[i] = ended(i)
      BY <1>3, <2>1, <2>2
    <2>4. Grown
      BY <2>2, <2>3 DEF Grown
    <2>5. version' \in [Users -> Nat] /\ \A v \in Users : version'[v] <= version[v] + 1
      <3>1. \A v \in Users : version'[v] = IF v = u THEN version[v] + 1 ELSE version[v]
        BY <1>1, <2>1
      <3>2. \A v \in Users : version'[v] \in Nat /\ version'[v] <= version[v] + 1
        BY <1>3, <1>4, <3>1
      <3>3. DOMAIN version' = Users /\ version' = [v \in Users |-> version'[v]]
        BY <1>1, <2>1
      <3> QED
        BY <3>2, <3>3
    <2> QED
      BY <1>9, <1>11, <2>1, <2>4, <2>5
  <1>12. CASE r.op \in {"me", "api", "refresh"} /\ Session!Plain(n)
    <2>1. /\ Session!Answered(n, r.as # 0, r.setAccess, Session!KeepRefresh)
          /\ row' = row /\ version' = version /\ (r.as # 0) \in BOOLEAN
      BY <1>12 DEF Session!Plain
    <2> QED
      BY <1>1, <1>4, <1>5, <1>6, <1>12, <2>1, AnsweredKeeps
  <1> QED
    BY <1>7, <1>8, <1>10, <1>11, <1>12 DEF Session!Serve

\* A request is sent, and tabs are loaded again: of those that show a user
\* and know of the last sign-in there are no more than before.
LEMMA AskKeeps ==
  ASSUME SessionInv, NEW t \in Tabs, NEW op \in Session!Operations, NEW u \in Users \cup {0},
         op = "login" => u \in Users,
         NEW rs, rs \in [1..MaxRequests -> Session!Request],
         \A m \in 1..MaxRequests :
           rs[m] = requests[m] \/ (rs[m] = [requests[m] EXCEPT !.tab = 0] /\ requests[m].tab # 0),
         Session!Ask(t, op, u, rs),
         tabUser' \in [Tabs -> Users \cup {0}], stale' \subseteq Tabs,
         \A x \in Tabs \ stale' : tabUser'[x] # 0 => x \notin stale /\ tabUser'[x] = tabUser[x]
  PROVE  SessionInv'
  <1> DEFINE n == sent + 1
             q == [Session!Unused EXCEPT !.op = op, !.tab = t, !.for = u, !.phase = "sent",
                    !.access = access, !.refresh = refresh,
                    !.shown = IF t \in stale \/ mixed THEN 0 ELSE tabUser[t]]
  <1>1. /\ requests \in [1..MaxRequests -> Session!Request] /\ sent \in 0..MaxRequests
        /\ MaxRequests \in Nat /\ access \in Session!Tokens /\ refresh \in {0} \cup DOMAIN row
        /\ tabUser \in [Tabs -> Users \cup {0}]
    BY TabAssumption DEF SessionInv, Session!TypeOK
  <1>2. /\ n \in 1..MaxRequests /\ sent' = n /\ n \in Nat
        /\ requests' = [rs EXCEPT ![n] = q]
        /\ UNCHANGED <<version, row, access, refresh, signedOut, mixed>>
    BY <1>1 DEF Session!Ask
  <1>3. /\ q.op = op /\ q.tab = t /\ q.for = u /\ q.phase = "sent" /\ q.access = access
        /\ q.refresh = refresh /\ q.shown = (IF t \in stale \/ mixed THEN 0 ELSE tabUser[t])
        /\ q.as = 0 /\ q.ok = FALSE /\ q.setAccess = Session!Keep
        /\ q.setRefresh = Session!KeepRefresh /\ q.late = FALSE
    BY DEF Session!Unused
  <1>4. q \in Session!Request
    <2>1. refresh \in 0..MaxRequests
      BY <1>1, RowsFit
    <2>2. Session!Unused \in Session!Request
      BY <1>1 DEF Session!Unused, Session!Request, Session!Keep, Session!KeepRefresh,
                  Session!Tokens, Session!NoAccess, Session!Operations
    <2>3. (IF t \in stale \/ mixed THEN 0 ELSE tabUser[t]) \in Users \cup {0}
      BY <1>1
    <2> QED
      BY <1>1, <2>1, <2>2, <2>3 DEF Session!Request
  <1> HIDE DEF q
  <1>5. /\ requests' \in [1..MaxRequests -> Session!Request] /\ requests'[n] = q
        /\ \A m \in 1..MaxRequests : m # n => requests'[m] = rs[m]
    BY <1>2, <1>4
  <1>6. requests[n] = Session!Unused
    BY <1>1, <1>2 DEF SessionInv
  <1>7. \A m \in 1..MaxRequests :
          m # n => /\ requests'[m].phase = requests[m].phase /\ requests'[m].op = requests[m].op
                   /\ requests'[m].for = requests[m].for /\ requests'[m].shown = requests[m].shown
                   /\ requests'[m].access = requests[m].access
                   /\ requests'[m].refresh = requests[m].refresh
                   /\ requests'[m].as = requests[m].as /\ requests'[m].ok = requests[m].ok
                   /\ requests'[m].setAccess = requests[m].setAccess
                   /\ requests'[m].setRefresh = requests[m].setRefresh
                   /\ requests'[m].late = requests[m].late
    <2> SUFFICES ASSUME NEW m \in 1..MaxRequests, m # n
                 PROVE  /\ rs[m].phase = requests[m].phase /\ rs[m].op = requests[m].op
                        /\ rs[m].for = requests[m].for /\ rs[m].shown = requests[m].shown
                        /\ rs[m].access = requests[m].access
                        /\ rs[m].refresh = requests[m].refresh
                        /\ rs[m].as = requests[m].as /\ rs[m].ok = requests[m].ok
                        /\ rs[m].setAccess = requests[m].setAccess
                        /\ rs[m].setRefresh = requests[m].setRefresh
                        /\ rs[m].late = requests[m].late
      BY <1>5
    <2>1. requests[m] \in Session!Request
      BY <1>1
    <2> QED
      BY <2>1 DEF Session!Request
  <1>8. Done' = Done
    <2>1. n \notin Done
      BY <1>6 DEF Done, Session!Unused
    <2>2. n \notin Done'
      BY <1>3, <1>5 DEF Done
    <2>3. \A m \in 1..MaxRequests : m # n => (m \in Done <=> m \in Done')
      BY <1>7 DEF Done
    <2>4. Done \subseteq 1..MaxRequests /\ Done' \subseteq 1..MaxRequests
      BY DEF Done
    <2> QED
      BY <2>1, <2>2, <2>3, <2>4
  <1>9. Session!TypeOK'
    BY <1>2, <1>5 DEF SessionInv, Session!TypeOK
  <1>10. ASSUME NEW m \in 1..MaxRequests, m > sent'
         PROVE  requests'[m] = Session!Unused
    <2>1. m # n /\ m > sent
      BY <1>1, <1>2, <1>10
    <2>2. requests[m] = Session!Unused
      BY <2>1 DEF SessionInv
    <2> QED
      BY <1>5, <2>1, <2>2 DEF Session!Unused
  <1>11. \A m \in Session!UnderWay' : m = n \/ (m \in 1..MaxRequests /\ m # n /\ m \in Session!UnderWay)
    BY <1>7 DEF Session!UnderWay
  <1>12. Holders' = Holders
    BY <1>2 DEF Holders
  <1>13. ~mixed => Identity
    BY DEF SessionInv
  <1>14. Carries(q, row)
    <2>1. ASSUME q.shown # 0
          PROVE  q.access.user \in {0, q.shown} /\ (q.refresh # 0 => row[q.refresh].user = q.shown)
      <3>1. ~mixed /\ t \notin stale /\ q.shown = tabUser[t]
        BY <1>3, <2>1
      <3>2. Holders \subseteq {q.shown}
        BY <1>13, <2>1, <3>1 DEF Identity
      <3>3. refresh # 0 => row[refresh].user # 0
        BY <1>1, RowsFit
      <3> QED
        BY <1>3, <3>2, <3>3 DEF Holders, OwnerOf
    <2> QED
      BY <1>1, <1>3, <2>1 DEF Carries
  <1>15. Timely(q)
    BY <1>3 DEF Timely, Holders
  <1>16. ASSUME NEW m \in Session!UnderWay'
         PROVE  /\ Carries(requests'[m], row')
                /\ ~mixed' /\ ~requests'[m].late => Timely(requests'[m])
    <2>1. CASE m = n
      BY <1>2, <1>5, <1>14, <1>15, <2>1
    <2>2. CASE m \in 1..MaxRequests /\ m # n /\ m \in Session!UnderWay
      <3>1. Carries(requests[m], row)
        BY <2>2 DEF SessionInv
      <3>2. Carries(requests'[m], row)
        BY <1>7, <2>2, <3>1 DEF Carries
      <3>3. ~mixed /\ ~requests[m].late => Timely(requests[m])
        BY <2>2 DEF SessionInv
      <3>4. ~mixed' /\ ~requests'[m].late => Timely(requests'[m])
        BY <1>2, <1>7, <2>2, <3>3 DEF Timely
      <3> QED
        BY <1>2, <3>2, <3>4
    <2> QED
      BY <1>11, <2>1, <2>2
  <1>17. ASSUME ~mixed'
         PROVE  Identity'
    <2>1. Identity
      BY <1>2, <1>13, <1>17
    <2>2. ASSUME NEW x \in Tabs \ stale', tabUser'[x] # 0
          PROVE  Holders \subseteq {tabUser'[x]}
      BY <2>1, <2>2 DEF Identity
    <2> QED
      BY <1>2, <1>12, <2>1, <2>2 DEF Identity
  <1>18. ASSUME ~mixed', NEW m \in Session!UnderWay', ~requests'[m].late
         PROVE  Timely(requests[m])'
    <2>1. Timely(requests'[m])
      BY <1>16, <1>18
    <2> QED
      BY <1>2, <1>12, <2>1 DEF Timely
  <1> QED
    BY <1>2, <1>8, <1>9, <1>10, <1>16, <1>17, <1>18 DEF SessionInv

LEMMA OverIs ==
  ASSUME SessionInv, NEW n \in Session!UnderWay, Session!Over(n)
  PROVE  /\ requests' \in [1..MaxRequests -> Session!Request]
         /\ n \in 1..MaxRequests /\ n \notin Session!UnderWay' /\ n <= sent
         /\ requests'[n].phase = "over"
         /\ \A m \in 1..MaxRequests : m # n =>
              \/ requests'[m] = requests[m] /\ ~(Session!Crosses(n) /\ m \in Session!UnderWay)
              \/ /\ requests'[m] = [requests[m] EXCEPT !.late = TRUE]
                 /\ Session!Crosses(n) /\ m \in Session!UnderWay
         /\ \A m \in Session!UnderWay' : m # n /\ m \in Session!UnderWay
         /\ \A m \in Session!UnderWay' : Carries(requests'[m], row)
         /\ \A m \in Session!UnderWay' :
              ~requests'[m].late =>
                /\ requests'[m] = requests[m] /\ ~requests[m].late /\ ~Session!Crosses(n)
         /\ \A m \in 1..MaxRequests : m > sent => requests'[m] = Session!Unused
         /\ Cardinality(Done) <= Cardinality(Done') /\ Cardinality(Done') \in Nat
         /\ Cardinality(Done) \in Nat
  <1> DEFINE over == [Session!Unused EXCEPT !.phase = "over"]
  <1>1. /\ requests \in [1..MaxRequests -> Session!Request] /\ MaxRequests \in Nat
        /\ n \in 1..MaxRequests /\ requests[n].phase \in {"sent", "resolved", "served"}
        /\ sent \in 0..MaxRequests
    <2>1. requests \in [1..MaxRequests -> Session!Request] /\ sent \in 0..MaxRequests
      BY DEF SessionInv, Session!TypeOK
    <2>2. n \in 1..MaxRequests /\ requests[n].phase \in {"sent", "resolved", "served"}
      BY DEF Session!UnderWay
    <2>3. MaxRequests \in Nat
      BY TabAssumption
    <2> QED
      BY <2>1, <2>2, <2>3
  <1>2. over \in Session!Request /\ over.phase = "over"
    <2>1. Session!Unused \in Session!Request
      BY TabAssumption
      DEF Session!Unused, Session!Request, Session!Keep, Session!KeepRefresh,
          Session!Tokens, Session!NoAccess, Session!Operations
    <2> QED
      BY <2>1 DEF Session!Request
  <1> HIDE DEF over
  <1>3. \A m \in 1..MaxRequests :
           /\ [requests[m] EXCEPT !.late = TRUE] \in Session!Request
           /\ [requests[m] EXCEPT !.late = TRUE].phase = requests[m].phase
           /\ [requests[m] EXCEPT !.late = TRUE].late = TRUE
    <2> SUFFICES ASSUME NEW m \in 1..MaxRequests
                 PROVE  /\ [requests[m] EXCEPT !.late = TRUE] \in Session!Request
                        /\ [requests[m] EXCEPT !.late = TRUE].phase = requests[m].phase
                        /\ [requests[m] EXCEPT !.late = TRUE].late = TRUE
      OBVIOUS
    <2>1. requests[m] \in Session!Request
      BY <1>1
    <2> QED
      BY <2>1 DEF Session!Request
  <1>4. requests' = [m \in 1..MaxRequests |->
          IF m = n THEN over
          ELSE IF Session!Crosses(n) /\ m \in Session!UnderWay
            THEN [requests[m] EXCEPT !.late = TRUE] ELSE requests[m]]
    BY DEF Session!Over, over
  <1>5. requests' \in [1..MaxRequests -> Session!Request] /\ requests'[n].phase = "over"
    BY <1>1, <1>2, <1>3, <1>4
  <1>6. \A m \in 1..MaxRequests : m # n =>
           \/ requests'[m] = requests[m] /\ ~(Session!Crosses(n) /\ m \in Session!UnderWay)
           \/ /\ requests'[m] = [requests[m] EXCEPT !.late = TRUE]
              /\ Session!Crosses(n) /\ m \in Session!UnderWay
    BY <1>4
  <1>7. \A m \in 1..MaxRequests : m # n => requests'[m].phase = requests[m].phase
    BY <1>3, <1>6
  <1>8. n \notin Session!UnderWay' /\ \A m \in Session!UnderWay' : m # n /\ m \in Session!UnderWay
    BY <1>5, <1>7 DEF Session!UnderWay
  <1>9. ASSUME NEW m \in Session!UnderWay'
        PROVE  Carries(requests'[m], row)
    <2>1. m \in 1..MaxRequests /\ m # n /\ m \in Session!UnderWay
      BY <1>8 DEF Session!UnderWay
    <2>2. Carries(requests[m], row) /\ requests[m] \in Session!Request
      BY <1>1, <2>1 DEF SessionInv
    <2> DEFINE q == [requests[m] EXCEPT !.late = TRUE]
    <2>3. /\ q.phase = requests[m].phase /\ q.op = requests[m].op
          /\ q.for = requests[m].for /\ q.shown = requests[m].shown
          /\ q.access = requests[m].access /\ q.refresh = requests[m].refresh
          /\ q.as = requests[m].as /\ q.ok = requests[m].ok
          /\ q.setAccess = requests[m].setAccess /\ q.setRefresh = requests[m].setRefresh
      BY <2>2 DEF Session!Request
    <2>4. requests'[m] = requests[m] \/ requests'[m] = q
      BY <1>6, <2>1
    <2> HIDE DEF q
    <2>5. Carries(q, row)
      BY <2>2, <2>3 DEF Carries
    <2> QED
      BY <2>2, <2>4, <2>5
  <1>10. ASSUME NEW m \in Session!UnderWay', ~requests'[m].late
         PROVE  requests'[m] = requests[m] /\ ~requests[m].late /\ ~Session!Crosses(n)
    <2>1. m \in 1..MaxRequests /\ m # n /\ m \in Session!UnderWay
      BY <1>8 DEF Session!UnderWay
    <2>2. requests'[m] # [requests[m] EXCEPT !.late = TRUE]
      BY <1>3, <1>10, <2>1
    <2> QED
      BY <1>6, <1>10, <2>1, <2>2
  <1>11. n <= sent
    <2>1. requests[n] # Session!Unused
      BY <1>1 DEF Session!Unused
    <2> QED
      BY <1>1, <2>1 DEF SessionInv
  <1>12. ASSUME NEW m \in 1..MaxRequests, m > sent
         PROVE  requests'[m] = Session!Unused
    <2>1. requests[m] = Session!Unused /\ m # n
      BY <1>1, <1>11, <1>12 DEF SessionInv
    <2>2. m \notin Session!UnderWay
      BY <2>1 DEF Session!UnderWay, Session!Unused
    <2> QED
      BY <1>6, <2>1, <2>2
  <1>13. Done \subseteq Done' /\ Done' \subseteq 1..MaxRequests
    BY <1>5, <1>7 DEF Done
  <1>14. /\ Cardinality(Done) <= Cardinality(Done') /\ Cardinality(Done') \in Nat
         /\ Cardinality(Done) \in Nat
    <2>1. IsFiniteSet(Done') /\ Cardinality(Done') \in Nat
      BY <1>13, DoneCounted
    <2>2. Done \subseteq 1..MaxRequests
      BY DEF Done
    <2> QED
      BY <1>13, <2>1, <2>2, DoneCounted, FS_Subset
  <1> QED
    BY <1>1, <1>5, <1>6, <1>8, <1>9, <1>10, <1>11, <1>12, <1>14

\* What is left to show of a step that ends a request.
LEMMA OverKeeps ==
  ASSUME SessionInv, NEW n \in Session!UnderWay, Session!Over(n),
         UNCHANGED <<version, row, sent>>,
         access' \in Session!Tokens, refresh' \in {0} \cup DOMAIN row,
         tabUser' \in [Tabs -> Users \cup {0}], stale' \subseteq Tabs,
         signedOut' \in BOOLEAN, mixed' \in BOOLEAN, mixed => mixed',
         ~mixed' => Identity',
         ~mixed' /\ ~Session!Crosses(n) =>
           /\ refresh' = refresh
           /\ \A u \in Holders : u \in {0} \cup Holders'
  PROVE  SessionInv'
  <1>1. Session!TypeOK'
    BY OverIs DEF SessionInv, Session!TypeOK
  <1>2. /\ \A u \in Users : version'[u] <= Cardinality(Done')
        /\ Len(row') <= Cardinality(Done')
    <2>1. /\ Cardinality(Done) <= Cardinality(Done') /\ Cardinality(Done') \in Nat
          /\ Cardinality(Done) \in Nat
      BY OverIs
    <2>2. /\ \A u \in Users : version[u] \in Int /\ version[u] <= Cardinality(Done)
          /\ Len(row) <= Cardinality(Done) /\ Len(row) \in Int
      <3>1. \A u \in Users : version[u] \in 0..MaxRequests
        BY DEF SessionInv, Session!TypeOK
      <3> QED
        BY <3>1, RowsFit DEF SessionInv
    <2> QED
      BY <2>1, <2>2
  <1>3. \A m \in 1..MaxRequests : m > sent' => requests'[m] = Session!Unused
    BY OverIs
  <1>4. \A m \in Session!UnderWay' : Carries(requests'[m], row')
    BY OverIs
  <1>5. ASSUME ~mixed', NEW m \in Session!UnderWay', ~requests'[m].late
        PROVE  Timely(requests[m])'
    <2>1. /\ requests'[m] = requests[m] /\ ~requests[m].late /\ ~Session!Crosses(n)
          /\ m \in Session!UnderWay
      BY <1>5, OverIs
    <2>2. Timely(requests[m]) /\ ~mixed
      BY <1>5, <2>1 DEF SessionInv
    <2>3. requests'[m].refresh = refresh' /\ requests'[m].access.user \in {0} \cup Holders'
      BY <1>5, <2>1, <2>2 DEF Timely
    <2> QED
      BY <2>3 DEF Timely
  <1> QED
    BY <1>1, <1>2, <1>3, <1>4, <1>5 DEF SessionInv

\* What the tab of a request shows after it.
LEMMA ShowsIs ==
  ASSUME SessionInv, NEW r, r.tab \in Tabs \cup {0}, r.for \in Users \cup {0},
         r.as \in Users \cup {0}, Session!Shows(r)
  PROVE  /\ tabUser' \in [Tabs -> Users \cup {0}]
         /\ \A t \in Tabs : t # r.tab => tabUser'[t] = tabUser[t]
         /\ r.tab # 0 => tabUser'[r.tab] = Session!Shown(r)
  <1>1. tabUser \in [Tabs -> Users \cup {0}] /\ 0 \notin Tabs
    BY TabAssumption DEF SessionInv, Session!TypeOK
  <1>2. CASE r.tab = 0
    BY <1>1, <1>2 DEF Session!Shows
  <1>3. CASE r.tab # 0
    <2>1. Session!Shown(r) \in Users \cup {0}
      BY <1>1, <1>3 DEF Session!Shown
    <2>2. tabUser' = [tabUser EXCEPT ![r.tab] = Session!Shown(r)]
      BY <1>3 DEF Session!Shows
    <2> QED
      BY <1>1, <1>3, <2>1, <2>2
  <1> QED
    BY <1>2, <1>3

LEMMA LostKeeps ==
  ASSUME SessionInv, NEW n \in 1..MaxRequests, Session!Lost(n)
  PROVE  SessionInv'
  <1> DEFINE r == requests[n]
             q == [r EXCEPT !.ok = (r.op = "api")]
  <1>1. /\ r \in Session!Request /\ n \in Session!UnderWay /\ Session!Over(n)
        /\ Session!Shows(q)
        /\ UNCHANGED <<version, row, access, refresh, sent, stale, signedOut, mixed>>
    BY DEF Session!Lost, SessionInv, Session!TypeOK, Session!UnderWay
  <1>2. /\ q.tab = r.tab /\ q.for = r.for /\ q.as = r.as /\ q.op = r.op
        /\ q.ok = (r.op = "api")
    BY <1>1 DEF Session!Request
  <1>3. r.tab \in Tabs \cup {0} /\ r.for \in Users \cup {0} /\ r.as \in Users \cup {0}
    BY <1>1, RequestIs
  <1> HIDE DEF q
  <1>4. /\ tabUser' \in [Tabs -> Users \cup {0}]
        /\ \A t \in Tabs : t # r.tab => tabUser'[t] = tabUser[t]
        /\ r.tab # 0 => tabUser'[r.tab] = Session!Shown(q)
    BY <1>1, <1>2, <1>3, ShowsIs
  <1>5. r.tab # 0 => tabUser'[r.tab] \in {0, tabUser[r.tab]}
    BY <1>2, <1>4 DEF Session!Shown
  <1>6. Holders' = Holders
    BY <1>1 DEF Holders
  <1>10. 0 \notin Tabs
    BY TabAssumption
  <1>7. ~mixed' => Identity'
    <2> SUFFICES ASSUME ~mixed' PROVE Identity'
      OBVIOUS
    <2>1. Identity
      BY <1>1 DEF SessionInv
    <2>2. ASSUME NEW t \in Tabs \ stale', tabUser'[t] # 0
          PROVE  Holders \subseteq {tabUser'[t]}
      <3>1. t \notin stale /\ t \in Tabs
        BY <1>1, <2>2
      <3>2. tabUser'[t] = tabUser[t]
        <4>1. CASE t = r.tab
          BY <1>5, <1>10, <2>2, <3>1, <4>1
        <4>2. CASE t # r.tab
          BY <1>4, <3>1, <4>2
        <4> QED
          BY <4>1, <4>2
      <3>3. Holders \subseteq {tabUser[t]}
        BY <2>1, <2>2, <3>1, <3>2 DEF Identity
      <3> QED
        BY <1>6, <3>2, <3>3
    <2> QED
      BY <1>1, <1>6, <2>1, <2>2 DEF Identity
  <1>8. /\ access \in Session!Tokens /\ refresh \in {0} \cup DOMAIN row /\ stale \subseteq Tabs
        /\ signedOut \in BOOLEAN /\ mixed \in BOOLEAN
    BY DEF SessionInv, Session!TypeOK
  <1> QED
    BY <1>1, <1>4, <1>6, <1>7, <1>8, OverKeeps

LEMMA AnswerKeeps ==
  ASSUME SessionInv, NEW n \in 1..MaxRequests, Session!Answer(n)
  PROVE  SessionInv'
  <1> DEFINE r == requests[n]
             sets == r.setAccess # Session!Keep \/ r.setRefresh # Session!KeepRefresh
             signsIn == r.op = "login" /\ r.ok
  <1>1. /\ r \in Session!Request /\ r.phase = "served" /\ n \in Session!UnderWay
        /\ Session!Over(n) /\ Session!Shows(r) /\ UNCHANGED <<version, row, sent>>
        /\ access' = IF r.setAccess = Session!Keep THEN access ELSE r.setAccess
        /\ refresh' = IF r.setRefresh = Session!KeepRefresh THEN refresh ELSE r.setRefresh
        /\ mixed' = (mixed \/ (r.late /\ (sets \/ r.op = "me")))
        /\ signedOut' = ((signedOut \/ (r.ok /\ r.op \in {"logout", "password"})) /\ ~signsIn)
        /\ stale' = IF signsIn THEN {t \in Tabs : tabUser'[t] \notin {0, r.for}}
                    ELSE IF r.op = "me" THEN stale \ {r.tab} ELSE stale
    BY DEF Session!Answer, Session!To, SessionInv, Session!TypeOK, Session!UnderWay
  <1>2. /\ r.tab \in Tabs \cup {0} /\ r.for \in Users \cup {0} /\ r.as \in Users \cup {0}
        /\ r.setAccess \in Session!Tokens /\ r.late \in BOOLEAN /\ r.ok \in BOOLEAN
    BY <1>1, RequestIs
  <1>3. Carries(r, row)
    BY <1>1 DEF SessionInv
  <1>4. ~mixed /\ ~r.late => Timely(r)
    BY <1>1 DEF SessionInv
  <1>5. /\ access \in Session!Tokens /\ refresh \in {0} \cup DOMAIN row /\ stale \subseteq Tabs
        /\ signedOut \in BOOLEAN /\ mixed \in BOOLEAN
        /\ ~mixed => Identity
    BY DEF SessionInv, Session!TypeOK
  <1>6. /\ tabUser' \in [Tabs -> Users \cup {0}]
        /\ \A t \in Tabs : t # r.tab => tabUser'[t] = tabUser[t]
        /\ r.tab # 0 => tabUser'[r.tab] = Session!Shown(r)
    BY <1>1, <1>2, ShowsIs
  <1>7. 0 \notin Tabs /\ 0 \notin Users /\ (r.op = "login" => r.for \in Users)
    BY <1>3, TabAssumption DEF Carries
  <1>8. Session!Crosses(n) <=> r.op \in {"login", "logout", "password"}
    BY DEF Session!Crosses
  <1>9. \A i \in DOMAIN row : row[i].user # 0
    BY RowsFit
  <1> HIDE DEF r
  <1>10. access' \in Session!Tokens /\ refresh' \in {0} \cup DOMAIN row
    BY <1>1, <1>2, <1>3, <1>5 DEF Carries
  <1>11. stale' \subseteq Tabs /\ signedOut' \in BOOLEAN /\ mixed' \in BOOLEAN /\ (mixed => mixed')
    BY <1>1, <1>2, <1>5
  <1>12. CASE r.setRefresh = Session!KeepRefresh
    <2>1. /\ refresh' = refresh /\ ~signsIn /\ r.op # "logout"
          /\ ~(r.ok /\ r.op = "password")
          /\ r.setAccess = Session!Keep \/
               (r.refresh \in DOMAIN row /\ r.setAccess.user = row[r.refresh].user)
      BY <1>1, <1>3, <1>12 DEF Carries
    <2>2. signedOut' = signedOut
      BY <1>1, <1>5, <2>1
    <2>3. ASSUME ~mixed'
          PROVE  /\ ~mixed /\ (sets \/ r.op = "me" => ~r.late /\ Timely(r))
                 /\ Identity
      BY <1>1, <1>2, <1>4, <1>5, <2>3
    <2>4. ASSUME ~mixed'
          PROVE  Holders' \subseteq Holders /\ \A u \in Holders : u \in Holders'
      <3>1. CASE r.setAccess = Session!Keep
        <4>1. access' = access
          BY <1>1, <3>1
        <4>2. Holders' = Holders
          BY <1>1, <2>1, <4>1 DEF Holders
        <4> QED
          BY <4>2
      <3>2. CASE r.setAccess # Session!Keep
        <4>1. Timely(r) /\ Identity
          BY <2>3, <2>4, <3>2
        <4>2. /\ r.refresh = refresh /\ refresh \in DOMAIN row
              /\ access'.user = row[refresh].user /\ refresh # 0
          BY <1>1, <1>9, <2>1, <3>2, <4>1, RowsFit DEF Timely
        <4>3. Holders' = {row[refresh].user} /\ row[refresh].user \in Holders
          BY <1>1, <1>9, <2>1, <4>2 DEF Holders, OwnerOf
        <4> QED
          BY <4>1, <4>3 DEF Identity
      <3> QED
        BY <3>1, <3>2
    <2>5. ASSUME ~mixed'
          PROVE  Identity'
      <3>1. ASSUME NEW t \in Tabs \ stale', tabUser'[t] # 0
            PROVE  Holders' \subseteq {tabUser'[t]}
        <4>1. CASE t = r.tab /\ r.op = "me"
          <5>1. tabUser'[t] = r.as /\ r.ok /\ r.as # 0
            BY <1>6, <1>7, <3>1, <4>1 DEF Session!Shown
          <5>2. Timely(r) /\ Identity
            BY <2>3, <2>5, <4>1
          <5>3. r.as \in Holders
            <6>1. CASE r.as = r.access.user
              BY <5>1, <5>2, <6>1 DEF Timely
            <6>2. CASE r.refresh # 0 /\ r.as = row[r.refresh].user
              BY <5>1, <5>2, <6>2 DEF Timely, Holders, OwnerOf
            <6> QED
              BY <1>3, <5>1, <6>1, <6>2 DEF Carries
          <5> QED
            BY <2>4, <2>5, <5>1, <5>2, <5>3 DEF Identity
        <4>2. CASE ~(t = r.tab /\ r.op = "me")
          <5>1. t \notin stale
            BY <1>1, <2>1, <3>1, <4>2
          <5>2. tabUser'[t] = tabUser[t]
            <6>1. CASE t = r.tab
              BY <1>6, <1>7, <2>1, <3>1, <4>2, <6>1 DEF Session!Shown
            <6>2. CASE t # r.tab
              BY <1>6, <6>2
            <6> QED
              BY <6>1, <6>2
          <5> QED
            BY <2>3, <2>4, <2>5, <3>1, <5>1, <5>2 DEF Identity
        <4> QED
          BY <4>1, <4>2
      <3> QED
        BY <2>2, <2>3, <2>4, <2>5, <3>1 DEF Identity
    <2> QED
      BY <1>1, <1>6, <1>10, <1>11, <2>1, <2>4, <2>5, OverKeeps
  <1>13. CASE r.setRefresh # Session!KeepRefresh
    <2>1. /\ r.ok /\ r.op \in {"login", "logout", "password"} /\ refresh' = r.setRefresh
          /\ Session!Crosses(n)
      BY <1>1, <1>3, <1>8, <1>13 DEF Carries
    <2>2. CASE r.op = "login"
      <3>1. /\ r.setRefresh \in DOMAIN row /\ r.setAccess.user = r.for
            /\ row[r.setRefresh].user = r.for /\ r.for \in Users /\ r.for # 0
        BY <1>3, <1>7, <1>13, <2>2 DEF Carries
      <3>2. r.setAccess # Session!Keep
        BY <3>1 DEF Session!Keep
      <3>3. r.setRefresh # 0
        BY <3>1, RowsFit
      <3>4. Holders' = {r.for}
        BY <1>1, <2>1, <3>1, <3>2, <3>3 DEF Holders, OwnerOf
      <3>5. ~signedOut' /\ stale' = {t \in Tabs : tabUser'[t] \notin {0, r.for}}
        BY <1>1, <2>1, <2>2
      <3>6. Identity'
        BY <3>4, <3>5 DEF Identity
      <3> QED
        BY <1>1, <1>6, <1>10, <1>11, <2>1, <3>6, OverKeeps
    <2>3. CASE r.op # "login"
      <3>1. r.setRefresh = 0 /\ r.setAccess = Session!NoAccess
        BY <1>3, <1>13, <2>3 DEF Carries
      <3>2. Session!NoAccess # Session!Keep /\ Session!NoAccess.user = 0
        BY TabAssumption DEF Session!NoAccess, Session!Keep
      <3>3. access' = Session!NoAccess /\ refresh' = 0
        BY <1>1, <2>1, <3>1, <3>2
      <3>4. Holders' = {}
        BY <3>2, <3>3 DEF Holders, OwnerOf
      <3>5. Identity'
        BY <3>4 DEF Identity
      <3> QED
        BY <1>1, <1>6, <1>10, <1>11, <2>1, <3>5, OverKeeps
    <2> QED
      BY <2>2, <2>3
  <1> QED
    BY <1>12, <1>13

LEMMA SendKeeps ==
  ASSUME SessionInv, NEW t \in Tabs, Session!Send(t)
  PROVE  SessionInv'
  <1>1. UNCHANGED <<tabUser, stale>>
    BY DEF Session!Send
  <1>2. /\ tabUser \in [Tabs -> Users \cup {0}] /\ stale \subseteq Tabs
        /\ requests \in [1..MaxRequests -> Session!Request]
    BY DEF SessionInv, Session!TypeOK
  <1>3. /\ tabUser' \in [Tabs -> Users \cup {0}] /\ stale' \subseteq Tabs
        /\ \A x \in Tabs \ stale' : tabUser'[x] # 0 => x \notin stale /\ tabUser'[x] = tabUser[x]
    BY <1>1, <1>2
  <1>4. ASSUME NEW u \in Users, Session!Ask(t, "login", u, requests)
        PROVE  SessionInv'
    <2>1. "login" \in Session!Operations /\ u \in Users \cup {0}
      BY DEF Session!Operations
    <2> QED
      BY <1>2, <1>3, <1>4, <2>1, AskKeeps
  <1>5. ASSUME NEW op \in Session!Operations \ {"login"}, Session!Ask(t, op, 0, requests)
        PROVE  SessionInv'
    BY <1>2, <1>3, <1>5, AskKeeps
  <1> QED
    BY <1>4, <1>5 DEF Session!Send

LEMMA LoadKeeps ==
  ASSUME SessionInv, NEW t \in Tabs, Session!Load(t)
  PROVE  SessionInv'
  <1> DEFINE rs == [n \in 1..MaxRequests |->
               IF requests[n].tab = t THEN [requests[n] EXCEPT !.tab = 0] ELSE requests[n]]
  <1>1. /\ tabUser' = [tabUser EXCEPT ![t] = 0] /\ stale' = stale \ {t}
        /\ Session!Ask(t, "me", 0, rs)
    BY DEF Session!Load
  <1>2. /\ tabUser \in [Tabs -> Users \cup {0}] /\ stale \subseteq Tabs
        /\ requests \in [1..MaxRequests -> Session!Request]
    BY DEF SessionInv, Session!TypeOK
  <1>3. /\ tabUser' \in [Tabs -> Users \cup {0}] /\ stale' \subseteq Tabs
        /\ \A x \in Tabs \ stale' : tabUser'[x] # 0 => x \notin stale /\ tabUser'[x] = tabUser[x]
    BY <1>1, <1>2
  <1>4. rs \in [1..MaxRequests -> Session!Request]
    <2> SUFFICES ASSUME NEW n \in 1..MaxRequests PROVE rs[n] \in Session!Request
      OBVIOUS
    <2>1. requests[n] \in Session!Request
      BY <1>2
    <2>2. [requests[n] EXCEPT !.tab = 0] \in Session!Request
      BY <2>1 DEF Session!Request
    <2> QED
      BY <2>1, <2>2
  <1>5. \A m \in 1..MaxRequests :
          rs[m] = requests[m] \/ (rs[m] = [requests[m] EXCEPT !.tab = 0] /\ requests[m].tab # 0)
    BY TabAssumption
  <1>6. "me" \in Session!Operations
    BY DEF Session!Operations
  <1> HIDE DEF rs
  <1> QED
    BY <1>1, <1>3, <1>4, <1>5, <1>6, AskKeeps

LEMMA SessionKeeps ==
  ASSUME SessionInv, Session!Next \/ UNCHANGED sessionVars
  PROVE  SessionInv'
  <1>1. ASSUME UNCHANGED sessionVars
        PROVE  SessionInv'
    <2>1. UNCHANGED <<version, row, access, refresh, tabUser, requests, sent, stale,
                      signedOut, mixed>>
      BY <1>1 DEF sessionVars
    <2>2. Session!TypeOK'
      BY <2>1 DEF SessionInv, Session!TypeOK
    <2>3. Done' = Done /\ Session!UnderWay' = Session!UnderWay /\ Holders' = Holders
      BY <2>1 DEF Done, Session!UnderWay, Holders
    <2>4. \A n \in Session!UnderWay' : Carries(requests'[n], row')
      BY <2>1, <2>3 DEF SessionInv
    <2>5. ~mixed' => \A n \in Session!UnderWay' : ~requests'[n].late => Timely(requests[n])'
      BY <2>1, <2>3 DEF SessionInv, Timely
    <2>6. ~mixed' => Identity'
      BY <2>1, <2>3 DEF SessionInv, Identity
    <2> QED
      BY <2>1, <2>2, <2>3, <2>4, <2>5, <2>6 DEF SessionInv
  <1> QED
    BY <1>1, SendKeeps, LoadKeeps, ResolveKeeps, ServeKeeps, AnswerKeeps, LostKeeps
    DEF Session!Next

-----------------------------------------------------------------------------
\* What the run on sockets checks of the tab, for any number of sockets,
\* alerts, polls, tabs, users and requests: the machines of the tab keep their
\* types, at most one socket lives, every alert with a marker is on the screen
\* or waits for it, polling goes on, and the cookies, the tabs and the requests
\* of a browser are of one identity.
THEOREM TabStaysWhole == SpecAll => []TabHolds
  <1> DEFINE All == ClientInv /\ InboxInv /\ SessionInv
  <1>1. InitAll => All
    BY ClientStarts, InboxStarts, SessionStarts DEF InitAll
  <1>2. All /\ [NextAll]_allVars => All'
    <2> SUFFICES ASSUME All, [NextAll]_allVars PROVE All'
      OBVIOUS
    <2>1. /\ Client!Next \/ UNCHANGED clientVars
          /\ Inbox!Next \/ UNCHANGED inboxVars
          /\ Session!Next \/ UNCHANGED sessionVars
      BY DEF NextAll, ServerSteps, ClientSteps, InboxSteps, SessionSteps, Rests, allVars, tabVars
    <2> QED
      BY <2>1, ClientKeeps, InboxKeeps, SessionKeeps
  <1>3. All => TabHolds
    <2> SUFFICES ASSUME All PROVE TabHolds
      OBVIOUS
    <2>1. Client!TypeOK /\ Client!OneLiveSocket
      BY DEF ClientInv
    <2>2. Inbox!TypeOK /\ Inbox!MarkedAlertsAreShown /\ Inbox!PollingGoesOn
      BY DEF InboxInv, AllShown, Inbox!MarkedAlertsAreShown
    <2>3. Session!TypeOK /\ Session!OneIdentity
      BY OneIdentityHolds DEF SessionInv
    <2> QED
      BY <2>1, <2>2, <2>3 DEF TabHolds
  <1> QED
    BY <1>1, <1>2, <1>3, PTL DEF SpecAll
=============================================================================
