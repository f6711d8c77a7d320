---------------------------- MODULE AlertPusher ----------------------------
(***************************************************************************)
(* The scheduler that looks for alerts about to trigger                    *)
(* (server/schedulers/alert-pusher.ts), the rows it reads, written by      *)
(* persistAlert and dismissAlert, and the recurring series those two keep  *)
(* together.  Time is counted in units of which CheckInterval and          *)
(* BufferWindow are multiples.  A timer fires when it is due or up to      *)
(* BufferWindow late (the event loop is busy); the query of a tick is      *)
(* answered some time after the tick took its clock.                       *)
(***************************************************************************)
EXTENDS Integers, FiniteSets

CONSTANTS
  CheckInterval,   \* CHECK_INTERVAL: 60 s
  BufferWindow,    \* BUFFER_WINDOW: 5 s
  Ids,             \* ids of the alert rows, given out in order
  MaxNow           \* bound on the clock

VARIABLES
  now,       \* the clock of the server
  nextTick,  \* when the interval timer is due
  ticks,     \* clocks of the ticks whose query has not been answered
  row,       \* the alert rows
  owed,      \* history: ids some tick no later than their time began after
  seen,      \* history: ids some tick has tried to push
  outage     \* a tick failed, or the process was down

vars == <<now, nextTick, ticks, row, owed, seen, outage>>

Times == 0..MaxNow

(* A row of alerts, or an id that is not used yet or no longer. *)
AlertRow == [status : {"unused", "stored", "gone"}, triggerAt : Times, parentId : Ids \cup {0},
             instanceNumber : {0, 1, 2}, recurring : BOOLEAN, isDismissed : BOOLEAN]

NoRow(status) == [status |-> status, triggerAt |-> 0, parentId |-> 0, instanceNumber |-> 0,
                  recurring |-> FALSE, isDismissed |-> FALSE]

TypeOK ==
  /\ now \in Times
  /\ nextTick \in 0..(MaxNow + CheckInterval + BufferWindow)
  /\ ticks \subseteq Times
  /\ row \in [Ids -> AlertRow]
  /\ owed \subseteq Ids
  /\ seen \subseteq Ids
  /\ outage \in BOOLEAN

(* start(): the first check runs at once. *)
Init ==
  /\ now = 0
  /\ nextTick = 0
  /\ ticks = {}
  /\ row = [i \in Ids |-> NoRow("unused")]
  /\ owed = {} /\ seen = {}
  /\ outage = FALSE

Stored(i) == row[i].status = "stored"

(* Autoincrement: the lowest n ids that were never used. *)
Fresh(n) ==
  LET unused == {i \in Ids : row[i].status = "unused"}
  IN {i \in unused : Cardinality({j \in unused : j < i}) < n}

FirstOf(S) == CHOOSE i \in S : \A j \in S : i <= j

New(at, parent, number, recurring) ==
  [status |-> "stored", triggerAt |-> at, parentId |-> parent, instanceNumber |-> number,
   recurring |-> recurring, isDismissed |-> FALSE]

(* persistAlert without a recurringMode *)
PersistSingle(at) ==
  /\ Fresh(1) # {}
  /\ row' = [row EXCEPT ![FirstOf(Fresh(1))] = New(at, 0, 0, FALSE)]
  /\ UNCHANGED <<now, nextTick, ticks, owed, seen, outage>>

(* persistAlert with one: the root is created, updated to be its own       *)
(* parent, and its children are inserted, all in one transaction.  Two     *)
(* instances, the child triggering later than the root.                    *)
PersistSeries(at, later) ==
  /\ Cardinality(Fresh(2)) = 2
  /\ at < later
  /\ LET root == FirstOf(Fresh(2))
         child == FirstOf(Fresh(2) \ {root})
     IN row' = [row EXCEPT ![root] = New(at, root, 1, TRUE), ![child] = New(later, root, 2, TRUE)]
  /\ UNCHANGED <<now, nextTick, ticks, owed, seen, outage>>

(* A plausible mistake: the self reference of a root is forgotten. *)
IsRecurringRootByNull(i) ==
  row[i].recurring /\ row[i].instanceNumber = 1 /\ row[i].parentId = 0

IsRecurringRoot(i) ==
  row[i].recurring /\ row[i].instanceNumber = 1 /\ row[i].parentId \in {0, i}

Series(i) == {j \in Ids : Stored(j) /\ (j = i \/ row[j].parentId = i)}

DismissAlert(i) ==
  /\ Stored(i)
  /\ LET hit == IF IsRecurringRoot(i) THEN Series(i) ELSE {i}
     IN row' = [j \in Ids |-> IF j \in hit THEN [row[j] EXCEPT !.isDismissed = TRUE] ELSE row[j]]
  /\ UNCHANGED <<now, nextTick, ticks, owed, seen, outage>>

(* replaceAlerts of a diary edit, or the deletion of the diary: every row  *)
(* of the diary goes.                                                      *)
DeleteAlerts ==
  /\ \E i \in Ids : Stored(i)
  /\ row' = [i \in Ids |-> IF Stored(i) THEN NoRow("gone") ELSE row[i]]
  /\ UNCHANGED <<now, nextTick, ticks, owed, seen, outage>>

(* The predicate of the tick and of listActiveAlerts. *)
Active(i) ==
  /\ Stored(i)
  /\ ~row[i].isDismissed
  /\ row[i].parentId = 0 \/ ~row[row[i].parentId].isDismissed

(* A plausible mistake: no buffer. *)
WindowBare(clock) == clock..(clock + CheckInterval - 1)

Window(clock) == clock..(clock + CheckInterval + BufferWindow - 1)

(* checkAndPushAlerts, up to its await; setInterval counts from when the   *)
(* timer ran.                                                              *)
Tick ==
  /\ now >= nextTick
  /\ ticks' = ticks \cup {now}
  /\ owed' = owed \cup {i \in Ids : Stored(i) /\ now <= row[i].triggerAt}
  /\ nextTick' = now + CheckInterval
  /\ UNCHANGED <<now, row, seen, outage>>

(* The answer of the query, and the loop over it: emitToUser is            *)
(* synchronous and a failure of one alert does not stop the others.        *)
Push(clock) ==
  /\ clock \in ticks
  /\ ticks' = ticks \ {clock}
  /\ seen' = seen \cup {i \in Ids : Active(i) /\ row[i].triggerAt \in Window(clock)}
  /\ UNCHANGED <<now, nextTick, row, owed, outage>>

(* The query throws: the tick is logged and lost. *)
TickFails(clock) ==
  /\ clock \in ticks
  /\ ticks' = ticks \ {clock}
  /\ outage' = TRUE
  /\ UNCHANGED <<now, nextTick, row, owed, seen>>

Advance ==
  /\ now < MaxNow
  /\ now < nextTick + BufferWindow
  /\ now' = now + 1
  /\ UNCHANGED <<nextTick, ticks, row, owed, seen, outage>>

Next ==
  \/ \E at \in Times : at >= now /\ PersistSingle(at)
  \/ \E at, later \in Times : at >= now /\ PersistSeries(at, later)
  \/ \E i \in Ids : DismissAlert(i)
  \/ DeleteAlerts
  \/ Tick
  \/ \E clock \in ticks : Push(clock) \/ TickFails(clock)
  \/ Advance

Spec == Init /\ [][Next]_vars

-----------------------------------------------------------------------------
(* Unless a tick failed, an alert that was stored before some tick no      *)
(* later than its time has been pushed (or found offline) by its time:     *)
(* timers that fire late, and queries answered late, leave no gap between  *)
(* one window and the next.                                                *)
NoAlertSkipped ==
  ~outage => \A i \in owed :
    ( /\ Active(i)
      /\ row[i].triggerAt < now
      /\ \A clock \in ticks : clock > row[i].triggerAt )
    => i \in seen

(* A dismissed root has no undismissed instance, however the dismissal of  *)
(* the root, of an instance and an edit of the diary were interleaved.     *)
SeriesDismissedWhole ==
  \A i, j \in Ids :
    (Stored(i) /\ Stored(j) /\ row[j].parentId = i /\ row[i].isDismissed) => row[j].isDismissed
=============================================================================
