---------------------------- MODULE ClientSocket ----------------------------
(***************************************************************************)
(* The socket of one tab (plugins/websocket.client.ts): created when a     *)
(* signed-in user is on a page that needs it, destroyed otherwise, renewed *)
(* once with a token refresh when the server refuses or drops it.  What    *)
(* socket.io does by itself (retries of an active socket, its events) is   *)
(* modelled from how the plugin uses it.                                   *)
(***************************************************************************)
EXTENDS Naturals, FiniteSets

CONSTANT Sockets   \* bound on the socket objects the tab creates

VARIABLES
  wanted,          \* a user, and not a public route
  link,            \* of every socket object: what socket.io is doing with it
  socket,          \* the current one; 0 is null
  isConnected, isConnecting, refreshTried, isManualDisconnect,
  status,          \* connectionStatus
  refreshing       \* sockets whose refreshAndReconnect awaits the new token

vars == <<wanted, link, socket, isConnected, isConnecting, refreshTried,
          isManualDisconnect, status, refreshing>>

flags == <<isConnected, isConnecting, refreshTried, isManualDisconnect, status>>

None == 0

(* "inactive": created, refused, dropped by the server, or destroyed;      *)
(* "opening": trying, or waiting to try again; "open": connected.          *)
Link == {"unused", "inactive", "opening", "open"}
Status == {"disconnected", "connecting", "connected", "reconnecting", "error"}

TypeOK ==
  /\ wanted \in BOOLEAN
  /\ link \in [Sockets -> Link]
  /\ socket \in Sockets \cup {None}
  /\ isConnected \in BOOLEAN /\ isConnecting \in BOOLEAN /\ refreshTried \in BOOLEAN
  /\ isManualDisconnect \in BOOLEAN
  /\ status \in Status
  /\ refreshing \subseteq Sockets

Init ==
  /\ wanted = FALSE
  /\ link = [s \in Sockets |-> "unused"]
  /\ socket = None
  /\ isConnected = FALSE /\ isConnecting = FALSE /\ refreshTried = FALSE
  /\ isManualDisconnect = FALSE
  /\ status = "disconnected"
  /\ refreshing = {}

Active(s) == link[s] \in {"opening", "open"}

(* destroySocket *)
Destroy(next) ==
  /\ isManualDisconnect' = TRUE
  /\ link' = IF socket = None THEN link ELSE [link EXCEPT ![socket] = "inactive"]
  /\ socket' = None
  /\ isConnected' = FALSE /\ isConnecting' = FALSE
  /\ status' = next
  /\ UNCHANGED refreshTried

(* connect(): nothing while connected or connecting; an active socket is   *)
(* told to try now; otherwise a new one takes its place.                   *)
Connect ==
  IF (socket # None /\ link[socket] = "open") \/ isConnecting
    THEN UNCHANGED <<link, socket, flags>>
    ELSE /\ isManualDisconnect' = FALSE
         /\ UNCHANGED isConnected
         /\ IF socket # None /\ Active(socket)
              THEN /\ status' = "reconnecting"
                   /\ UNCHANGED <<link, socket, isConnecting, refreshTried>>
              ELSE /\ \E s \in Sockets :
                        /\ link[s] = "unused" /\ \A r \in Sockets : link[r] = "unused" => s <= r
                        /\ link' = [link EXCEPT ![s] = "opening"]
                        /\ socket' = s
                   /\ isConnecting' = TRUE
                   /\ status' = "connecting"
                   /\ refreshTried' = FALSE

(* syncConnection, run when the user or the route changes and after every  *)
(* navigation.                                                             *)
Sync(w) ==
  /\ wanted' = w
  /\ IF w THEN Connect ELSE Destroy("disconnected")
  /\ UNCHANGED refreshing

(* 'connect': listeners are removed from a socket when it is destroyed, so *)
(* events are those of a socket the plugin has not destroyed.              *)
Opens(s) ==
  /\ link[s] = "opening"
  /\ link' = [link EXCEPT ![s] = "open"]
  /\ isManualDisconnect' = FALSE
  /\ isConnecting' = FALSE
  /\ isConnected' = TRUE
  /\ status' = "connected"
  /\ refreshTried' = FALSE
  /\ UNCHANGED <<wanted, socket, refreshing>>

(* 'disconnect' with a transport error: socket.io tries again; the         *)
(* reconnect attempts set the flags as here.                               *)
Drops(s) ==
  /\ link[s] = "open"
  /\ link' = [link EXCEPT ![s] = "opening"]
  /\ isConnected' = FALSE
  /\ isConnecting' = FALSE
  /\ status' = IF isManualDisconnect THEN "disconnected" ELSE "reconnecting"
  /\ UNCHANGED <<wanted, socket, refreshTried, isManualDisconnect, refreshing>>

(* refreshAndReconnect up to its await, or its early return *)
StartRefresh(s) ==
  IF refreshTried \/ isManualDisconnect \/ s # socket
    THEN UNCHANGED <<refreshTried, isConnecting, status, refreshing>>
    ELSE /\ refreshTried' = TRUE
         /\ isConnecting' = TRUE
         /\ status' = "reconnecting"
         /\ refreshing' = refreshing \cup {s}

(* 'disconnect' by the server, which ends socket.io's own attempts: a      *)
(* refresh, once per connection.                                           *)
ServerDrops(s) ==
  /\ link[s] = "open"
  /\ link' = [link EXCEPT ![s] = "inactive"]
  /\ isConnected' = FALSE
  /\ IF refreshTried \/ isManualDisconnect \/ s # socket
       THEN /\ isConnecting' = FALSE
            /\ status' = IF isManualDisconnect THEN "disconnected" ELSE status
            /\ UNCHANGED <<refreshTried, refreshing>>
       ELSE StartRefresh(s)
  /\ UNCHANGED <<wanted, socket, isManualDisconnect>>

(* 'connect_error' by the handshake: a refresh when the message is about   *)
(* the token (isAuthConnectError), else the end.                           *)
Refused(s, auth) ==
  /\ link[s] = "opening"
  /\ link' = [link EXCEPT ![s] = "inactive"]
  /\ isConnected' = FALSE
  /\ IF auth /\ ~refreshTried /\ ~isManualDisconnect /\ s = socket
       THEN StartRefresh(s)
       ELSE /\ isConnecting' = FALSE
            /\ status' = IF refreshTried \/ ~auth THEN "error" ELSE status
            /\ UNCHANGED <<refreshTried, refreshing>>
  /\ UNCHANGED <<wanted, socket, isManualDisconnect>>

(* 'connect_error' by the transport: the socket stays active. *)
Unreachable(s) ==
  /\ link[s] = "opening"
  /\ isConnected' = FALSE /\ isConnecting' = FALSE
  /\ status' = "reconnecting"
  /\ UNCHANGED <<wanted, link, socket, refreshTried, isManualDisconnect, refreshing>>

(* 'reconnect_failed': socket.io gives up after its attempts. *)
GivesUp(s) ==
  /\ link[s] = "opening"
  /\ isConnecting' = FALSE
  /\ status' = "error"
  /\ UNCHANGED <<wanted, link, socket, isConnected, refreshTried, isManualDisconnect, refreshing>>

(* A plausible mistake: the socket may have been replaced meanwhile. *)
StillCurrentAssumed(s) == ~isManualDisconnect

(* The test after the await: neither destroyed nor replaced. *)
StillCurrent(s) == s = socket /\ ~isManualDisconnect

(* The rest of refreshAndReconnect. *)
RefreshEnds(s, ok) ==
  /\ s \in refreshing
  /\ refreshing' = refreshing \ {s}
  /\ UNCHANGED wanted
  /\ IF ~StillCurrent(s)
       THEN UNCHANGED <<link, socket, flags>>
       ELSE IF ok
         THEN /\ link' = [link EXCEPT ![s] = "opening"]
              /\ UNCHANGED <<socket, flags>>
         ELSE Destroy("error")

Next ==
  \/ \E w \in BOOLEAN : Sync(w)
  \/ \E s \in Sockets :
       \/ Opens(s) \/ Drops(s) \/ ServerDrops(s) \/ Unreachable(s) \/ GivesUp(s)
       \/ \E auth \in BOOLEAN : Refused(s, auth)
       \/ \E ok \in BOOLEAN : RefreshEnds(s, ok)

(* A connection attempt ends; the refresh is answered. *)
Progress == \E s \in Sockets :
  \/ Opens(s) \/ Refused(s, TRUE) \/ Refused(s, FALSE) \/ Unreachable(s)
  \/ RefreshEnds(s, TRUE) \/ RefreshEnds(s, FALSE)

Fairness == WF_vars(Progress)

Spec == Init /\ [][Next]_vars /\ Fairness

-----------------------------------------------------------------------------
(* Sign-outs, navigations and refreshes that end late never leave a second *)
(* socket, whose alerts would arrive twice or belong to the former user:   *)
(* only the current socket is active, and only while it is wanted; and     *)
(* isConnected, which stops the polling of the alerts, is true of it only. *)
OneLiveSocket ==
  /\ \A s \in Sockets : Active(s) => s = socket /\ wanted
  /\ isConnected => socket # None /\ link[socket] = "open"

(* isConnecting, which makes connect() do nothing, does not stay set. *)
ConnectingEnds == isConnecting ~> ~isConnecting
=============================================================================
