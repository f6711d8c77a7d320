----------------------------- MODULE AlertInbox -----------------------------
(***************************************************************************)
(* The alerts of one open tab (composables/useAlerts.ts): pushes over the  *)
(* socket (plugins/websocket.client.ts), the HTTP list that is polled      *)
(* while the socket is down, the queue of the modal, and dismissals, tried *)
(* over the socket first and over HTTP when that is not confirmed.         *)
(* Intervals are abstracted to timers that fire at some time; the scheduler *)
(* is AlertPusher, of which this module keeps that an undismissed alert    *)
(* may be pushed at any time.                                              *)
(***************************************************************************)
EXTENDS Naturals, Sequences, SequencesExt, FiniteSets

CONSTANTS
  Alerts,    \* ids, in the order of their trigger time
  Fetches    \* slots that bound the lists asked for at the same time

VARIABLES
  dismissed,    \* alerts whose row is dismissed
  due,          \* alerts whose trigger time has come
  authed,       \* isAuthenticated
  connected,    \* isConnected
  wire,         \* alert:triggered events on their way
  timer,        \* pollTimer is armed
  fetch,        \* GET /api/alerts under way
  queue,        \* alertQueue
  current,      \* currentAlert; 0 is null
  processed,    \* keys of processedAlerts
  dismissal,    \* dismissCurrentAlert under way
  late,         \* alert:dismiss events the tab no longer waits for
  interrupted   \* history: the user was signed out since the tab was opened

vars == <<dismissed, due, authed, connected, wire, timer, fetch, queue, current,
          processed, dismissal, late, interrupted>>

None == 0

(* A list is asked for, read by the server, and answered. *)
Fetch == [phase : {"idle", "asked", "read"}, rows : SUBSET Alerts]
NoFetch == [phase |-> "idle", rows |-> {}]

(* Phases of dismissCurrentAlert: over the socket, acknowledged by the     *)
(* server, over HTTP.                                                      *)
Dismissal == [phase : {"idle", "ws", "acked", "http"}, alert : Alerts \cup {None}]
NoDismissal == [phase |-> "idle", alert |-> None]

TypeOK ==
  /\ dismissed \subseteq Alerts /\ due \subseteq Alerts
  /\ authed \in BOOLEAN /\ connected \in BOOLEAN /\ timer \in BOOLEAN /\ interrupted \in BOOLEAN
  /\ wire \subseteq Alerts /\ late \subseteq Alerts
  /\ fetch \in [Fetches -> Fetch]
  /\ queue \in Seq(Alerts)
  /\ current \in Alerts \cup {None}
  /\ processed \subseteq Alerts
  /\ dismissal \in Dismissal

Asking == [phase |-> "asked", rows |-> {}]

(* onMounted: syncAlertTransport asks for the list. *)
Init ==
  /\ dismissed = {} /\ due = {}
  /\ authed = TRUE /\ connected = FALSE
  /\ wire = {} /\ timer = FALSE
  /\ fetch = [f \in Fetches |-> IF \A g \in Fetches : f <= g THEN Asking ELSE NoFetch]
  /\ queue = <<>> /\ current = None /\ processed = {}
  /\ dismissal = NoDismissal /\ late = {}
  /\ interrupted = FALSE

Known(q, c, p) == p \cup ToSet(q) \cup ({c} \ {None})

(* A list has its alerts in the order of their trigger times. *)
InOrder(S) ==
  [n \in 1..Cardinality(S) |-> CHOOSE a \in S : Cardinality({b \in S : b <= a}) = n]

(* A plausible mistake: whatever comes is shown at once. *)
EnqueueShowing(S) ==
  LET new == S \ Known(queue, current, processed)
      q == queue \o InOrder(new)
  IN /\ processed' = processed \cup new
     /\ current' = IF q # <<>> THEN Head(q) ELSE current
     /\ queue' = IF q # <<>> THEN Tail(q) ELSE q

(* enqueueAlerts and enqueueSingleAlert: alerts that are not known get a   *)
(* marker and join the queue; showNextAlert if nothing is shown.           *)
Enqueue(S) ==
  LET new == S \ Known(queue, current, processed)
      q == queue \o InOrder(new)
  IN /\ processed' = processed \cup new
     /\ current' = IF current = None /\ q # <<>> THEN Head(q) ELSE current
     /\ queue' = IF current = None /\ q # <<>> THEN Tail(q) ELSE q

-----------------------------------------------------------------------------
(* The server.                                                             *)

Trigger(a) ==
  /\ a \notin due
  /\ due' = due \cup {a}
  /\ UNCHANGED <<dismissed, authed, connected, wire, timer, fetch, queue, current,
                 processed, dismissal, late, interrupted>>

(* A tick of AlertPusher, up to CHECK_INTERVAL + BUFFER_WINDOW ahead. *)
Push(a) ==
  /\ connected /\ a \notin dismissed
  /\ wire' = wire \cup {a}
  /\ UNCHANGED <<dismissed, due, authed, connected, timer, fetch, queue, current,
                 processed, dismissal, late, interrupted>>

(* listActiveAlerts *)
Read(f) ==
  /\ fetch[f].phase = "asked"
  /\ fetch' = [fetch EXCEPT ![f] = [phase |-> "read", rows |-> Alerts \ dismissed]]
  /\ UNCHANGED <<dismissed, due, authed, connected, wire, timer, queue, current,
                 processed, dismissal, late, interrupted>>

(* alert:dismiss is served; the acknowledgement is for the waiting call.   *)
ServeDismiss ==
  /\ dismissal.phase = "ws"
  /\ dismissed' = dismissed \cup {dismissal.alert}
  /\ dismissal' = [dismissal EXCEPT !.phase = "acked"]
  /\ UNCHANGED <<due, authed, connected, wire, timer, fetch, queue, current,
                 processed, late, interrupted>>

(* ... or it is served after the five seconds. *)
ServeLate(a) ==
  /\ a \in late
  /\ late' = late \ {a}
  /\ \/ dismissed' = dismissed \cup {a}
     \/ UNCHANGED dismissed              \* lost with the connection
  /\ UNCHANGED <<due, authed, connected, wire, timer, fetch, queue, current,
                 processed, dismissal, interrupted>>

-----------------------------------------------------------------------------
(* The transport.                                                          *)

(* A plausible mistake: only the answer settles the call. *)
SettledNever(d) == d

(* The settlers of a dead socket: an unanswered alert:dismiss counts as    *)
(* not persisted, and the call goes on over HTTP.                          *)
Settled(d) == IF d.phase \in {"ws", "acked"} THEN [d EXCEPT !.phase = "http"] ELSE d

Unserved == IF dismissal.phase = "ws" THEN {dismissal.alert} ELSE {}

Connect ==
  /\ authed /\ ~connected
  /\ connected' = TRUE
  /\ timer' = FALSE
  /\ UNCHANGED <<dismissed, due, authed, wire, fetch, queue, current, processed,
                 dismissal, late, interrupted>>

(* A plausible mistake: the list is polled again after a reload only. *)
PollAfterReload == FALSE

(* The watcher of isConnected: scheduleNextPoll. *)
PollAfterDisconnect == TRUE

Disconnect ==
  /\ connected
  /\ connected' = FALSE
  /\ timer' = PollAfterDisconnect
  /\ wire' = {}
  /\ late' = late \cup Unserved
  /\ dismissal' = Settled(dismissal)
  /\ UNCHANGED <<dismissed, due, authed, fetch, queue, current, processed, interrupted>>

Deliver(a) ==
  /\ a \in wire
  /\ wire' = wire \ {a}
  /\ Enqueue({a})
  /\ UNCHANGED <<dismissed, due, authed, connected, timer, fetch, dismissal, late, interrupted>>

(* user becomes null: the socket is destroyed, polling stops and           *)
(* clearAlertState empties the modal.  processedAlerts stays.              *)
SignOut ==
  /\ authed
  /\ authed' = FALSE /\ connected' = FALSE /\ timer' = FALSE
  /\ wire' = {}
  /\ queue' = <<>> /\ current' = None
  /\ late' = late \cup Unserved
  /\ dismissal' = Settled(dismissal)
  /\ interrupted' = TRUE
  /\ UNCHANGED <<dismissed, due, fetch, processed>>

Idle == {f \in Fetches : fetch[f].phase = "idle"}
Open(f) == fetch' = [fetch EXCEPT ![f] = Asking]

(* user is set again: syncAlertTransport *)
SignIn ==
  /\ ~authed
  /\ authed' = TRUE
  /\ \E f \in Idle : Open(f)
  /\ UNCHANGED <<dismissed, due, connected, wire, timer, queue, current, processed,
                 dismissal, late, interrupted>>

(* startPolling: nothing to do when signed out. *)
PollTimer ==
  /\ timer
  /\ timer' = FALSE
  /\ IF authed THEN \E f \in Idle : Open(f) ELSE UNCHANGED fetch
  /\ UNCHANGED <<dismissed, due, authed, connected, wire, queue, current, processed,
                 dismissal, late, interrupted>>

(* The list arrives, or fails and counts as empty; what is due is queued,  *)
(* and unless the socket is up the next poll is scheduled (both by         *)
(* startPolling and by syncAlertTransport).                                *)
Answer(f) ==
  /\ fetch[f].phase = "read"
  /\ fetch' = [fetch EXCEPT ![f] = NoFetch]
  /\ Enqueue(fetch[f].rows \cap due) \/ Enqueue({})
  /\ timer' = (timer \/ ~connected)
  /\ UNCHANGED <<dismissed, due, authed, connected, wire, dismissal, late, interrupted>>

-----------------------------------------------------------------------------
(* dismissCurrentAlert.                                                    *)

Dismiss ==
  /\ current # None /\ dismissal = NoDismissal
  /\ dismissal' = [phase |-> IF connected THEN "ws" ELSE "http", alert |-> current]
  /\ UNCHANGED <<dismissed, due, authed, connected, wire, timer, fetch, queue, current,
                 processed, late, interrupted>>

(* alert:error, or DISMISS_TIMEOUT_MS *)
SocketDismissFails ==
  /\ dismissal.phase \in {"ws", "acked"}
  /\ dismissal' = Settled(dismissal)
  /\ late' = late \cup Unserved
  /\ UNCHANGED <<dismissed, due, authed, connected, wire, timer, fetch, queue, current,
                 processed, interrupted>>

(* The marker goes and the queue advances. *)
Advance ==
  /\ processed' = processed \ {dismissal.alert}
  /\ current' = IF queue = <<>> THEN None ELSE Head(queue)
  /\ queue' = IF queue = <<>> THEN <<>> ELSE Tail(queue)
  /\ dismissal' = NoDismissal

SocketDismissed ==
  /\ dismissal.phase = "acked"
  /\ Advance
  /\ UNCHANGED <<dismissed, due, authed, connected, wire, timer, fetch, late, interrupted>>

HttpDismissed ==
  /\ dismissal.phase = "http"
  /\ dismissed' = dismissed \cup {dismissal.alert}
  /\ Advance
  /\ UNCHANGED <<due, authed, connected, wire, timer, fetch, late, interrupted>>

(* The request fails, before or after the server served it: the alert is   *)
(* shown again and its marker removed.                                     *)
HttpDismissFails ==
  /\ dismissal.phase = "http"
  /\ \/ dismissed' = dismissed \cup {dismissal.alert}
     \/ UNCHANGED dismissed
  /\ current' = dismissal.alert
  /\ processed' = processed \ {dismissal.alert}
  /\ dismissal' = NoDismissal
  /\ UNCHANGED <<due, authed, connected, wire, timer, fetch, queue, late, interrupted>>

Next ==
  \/ \E a \in Alerts : Trigger(a) \/ Push(a) \/ Deliver(a) \/ ServeLate(a)
  \/ \E f \in Fetches : Read(f) \/ Answer(f)
  \/ ServeDismiss \/ Connect \/ Disconnect \/ SignOut \/ SignIn \/ PollTimer
  \/ Dismiss \/ SocketDismissFails \/ SocketDismissed \/ HttpDismissed \/ HttpDismissFails

(* The timeout of the socket fires; a fetch ends, with an answer or not. *)
Settles == SocketDismissFails \/ SocketDismissed \/ HttpDismissed \/ HttpDismissFails

Fairness == WF_vars(Settles)

Spec == Init /\ [][Next]_vars /\ Fairness

-----------------------------------------------------------------------------
(* In a tab that was not signed out, every alert with a marker is on the   *)
(* screen or waiting for it, and waits once: a marker without an alert     *)
(* would keep it off the screen for a day.                                 *)
MarkedAlertsAreShown ==
  ~interrupted =>
    /\ processed \subseteq ToSet(queue) \cup {current}
    /\ current \notin ToSet(queue)
    /\ \A i, j \in DOMAIN queue : queue[i] = queue[j] => i = j

(* While the user is signed in and the socket is down, a poll is scheduled *)
(* or a list is on its way: no order of connects, disconnects, answers and *)
(* sign-ins ends the polling.                                              *)
PollingGoesOn ==
  authed /\ ~connected => timer \/ \E f \in Fetches : fetch[f].phase # "idle"

(* Every dismissal ends, whatever happens to the socket, and the modal can *)
(* be used again.                                                          *)
DismissalsEnd == dismissal.phase # "idle" ~> dismissal.phase = "idle"
=============================================================================
