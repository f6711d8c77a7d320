----------------------------- MODULE MCSockets -----------------------------
(***************************************************************************)
(* The two ends of the alert channel: the connection manager of the server *)
(* (SocketSessions), the socket of a tab (ClientSocket), the alerts the    *)
(* tab shows (AlertInbox), and the session of the browser (WebSession).    *)
(* They share no variable: each is checked alone, in its own part of the   *)
(* state graph, and the others stay as they began.                         *)
(***************************************************************************)
EXTENDS SocketSessions, Sequences, FiniteSets

CONSTANTS ClientSockets, Alerts, Fetches, Users, Tabs, MaxRequests

\* 0 is null, or nobody.
ASSUME TabAssumption ==
  /\ ClientSockets \subseteq Nat \ {0}
  /\ IsFiniteSet(Alerts) /\ Alerts \subseteq Nat \ {0}
  /\ Fetches \subseteq Nat /\ \E f \in Fetches : \A g \in Fetches : f <= g
  /\ 0 \notin Users \cup Tabs
  /\ MaxRequests \in Nat

VARIABLES
  part,   \* the machine that runs
  wanted, link, tabSocket, isConnected, isConnecting, refreshTried,
  isManualDisconnect, status, refreshing,
  dismissed, due, authed, connected, wire, timer, fetch, queue, current,
  processed, dismissal, late, interrupted,
  version, row, access, refresh, tabUser, requests, sent, stale, signedOut, mixed

clientVars == <<wanted, link, tabSocket, isConnected, isConnecting, refreshTried,
                isManualDisconnect, status, refreshing>>
inboxVars == <<dismissed, due, authed, connected, wire, timer, fetch, queue, current,
               processed, dismissal, late, interrupted>>
sessionVars == <<version, row, access, refresh, tabUser, requests, sent, stale, signedOut,
                 mixed>>
tabVars == <<clientVars, inboxVars, sessionVars>>
allVars == <<part, vars, tabVars>>

Client == INSTANCE ClientSocket WITH Sockets <- ClientSockets, socket <- tabSocket
Inbox == INSTANCE AlertInbox
Session == INSTANCE WebSession WITH user <- tabUser

InitAll ==
  /\ part \in {"server", "socket", "inbox", "session"}
  /\ Init /\ Client!Init /\ Inbox!Init /\ Session!Init

ServerSteps == part = "server" /\ Next /\ UNCHANGED <<part, tabVars>>
ClientSteps == part = "socket" /\ Client!Next /\ UNCHANGED <<part, vars, inboxVars, sessionVars>>
InboxSteps == part = "inbox" /\ Inbox!Next /\ UNCHANGED <<part, vars, clientVars, sessionVars>>

SessionSteps ==
  part = "session" /\ Session!Next /\ UNCHANGED <<part, vars, clientVars, inboxVars>>

\* A tab may rest for ever, the model of the server never stops.
Rests == part # "server" /\ UNCHANGED allVars

NextAll == ServerSteps \/ ClientSteps \/ InboxSteps \/ SessionSteps \/ Rests

ClientProgress == part = "socket" /\ Client!Progress /\ UNCHANGED <<part, vars, inboxVars, sessionVars>>
InboxSettles == part = "inbox" /\ Inbox!Settles /\ UNCHANGED <<part, vars, clientVars, sessionVars>>

SpecAll ==
  /\ InitAll /\ [][NextAll]_allVars
  /\ Fairness /\ WF_allVars(ClientProgress) /\ WF_allVars(InboxSettles)

-----------------------------------------------------------------------------
\* The types of the machines of the tab, one live socket, no alert with a
\* marker that is neither on the screen nor waiting for it, and one identity
\* of the browser and of what its tabs show.
TabHolds ==
  /\ Client!TypeOK /\ Inbox!TypeOK /\ Session!TypeOK
  /\ Client!OneLiveSocket
  /\ Inbox!MarkedAlertsAreShown
  /\ Inbox!PollingGoesOn
  /\ Session!OneIdentity

\* Nothing in the tab hangs: connecting ends, and so does every dismissal.
TabSettles == Client!ConnectingEnds /\ Inbox!DismissalsEnd
=============================================================================
