------------------------------ MODULE Calendar ------------------------------
(***************************************************************************)
(* The calendar page (composables/useCalendar.ts, pages/calendar.vue): the *)
(* days that have a diary, loaded by range and merged, and the holidays of *)
(* three years, loaded one after the other while the user goes on to other *)
(* months.  A month stands for its days and for its year, so that every    *)
(* change of month is a change of year: loadHolidays and loadMonthActivity *)
(* run at each.                                                            *)
(***************************************************************************)
EXTENDS Naturals, FiniteSets

CONSTANTS
  Months,      \* a range of numbers
  Today,       \* the month of today
  MaxLoads     \* bound on the changes of month, and on the writes

VARIABLES
  month,            \* currentMonth and currentYear
  diaries, gone,    \* months that have a diary; history: that had one
  activity,         \* months shown with a diary
  loads,            \* GET /api/diaries/activity: [id, from, to, rest, phase, rows]
  holidayDateSet,   \* the years in it
  holidayLoadToken, loadingHolidays,
  holidayLoads,     \* runs of loadHolidays: [token, year, done]
  excludeHolidaysInStats,
  steps,            \* changes of month and writes so far
  unseen,           \* history: written elsewhere, and not read since
  loaded,           \* history: months some answer covered
  failed            \* history: a load failed

vars == <<month, diaries, gone, activity, loads, holidayDateSet, holidayLoadToken, loadingHolidays,
          holidayLoads, excludeHolidaysInStats, steps, unseen, loaded, failed>>
holidayVars == <<holidayDateSet, holidayLoadToken, loadingHolidays, holidayLoads>>

Window(y) == {y, y + 1, y + 2}   \* of years shifted by one, so that none is negative
Whole == 0..Today                \* 371 days back from today

TypeOK ==
  /\ month \in Months
  /\ diaries \subseteq Months /\ gone \subseteq Months /\ activity \subseteq Months
  /\ \A l \in loads : l.phase \in {"asked", "read"} /\ l.rows \subseteq Months /\ l.rest \in BOOLEAN
  /\ \A h \in holidayLoads : h.token \in 1..holidayLoadToken /\ h.done \in 0..2
  /\ loadingHolidays \in BOOLEAN /\ excludeHolidaysInStats \in BOOLEAN
  /\ loaded \subseteq Months

-----------------------------------------------------------------------------
(* loadActivityRange; rest: the current month follows, as in fetchActivity. *)
Load(from, to, rest) == [id |-> steps + 1, from |-> from, to |-> to, rest |-> rest,
                         phase |-> "asked", rows |-> {}]
MonthLoad(m) == Load(m, m, FALSE)
fetchActivity == Load(0, Today, TRUE)

loadHolidays(year) ==
  IF excludeHolidaysInStats
  THEN /\ holidayLoadToken' = holidayLoadToken + 1 /\ loadingHolidays' = TRUE
       /\ holidayLoads' = holidayLoads \cup {[token |-> holidayLoadToken + 1, year |-> year, done |-> 0]}
       /\ UNCHANGED holidayDateSet
  ELSE /\ holidayDateSet' = {}
       /\ UNCHANGED <<holidayLoadToken, loadingHolidays, holidayLoads>>

(* onMounted has run: fetchActivity and loadHolidays are under way.        *)
Init ==
  /\ month = Today
  /\ diaries \in SUBSET Months /\ gone = {} /\ activity = {}
  /\ steps = 0 /\ unseen = {} /\ loaded = {} /\ failed = FALSE
  /\ excludeHolidaysInStats \in BOOLEAN
  /\ loads = {[id |-> 0, from |-> 0, to |-> Today, rest |-> TRUE, phase |-> "asked", rows |-> {}]}
  /\ holidayDateSet = {}
  /\ loadingHolidays = excludeHolidaysInStats
  /\ holidayLoadToken = IF excludeHolidaysInStats THEN 1 ELSE 0
  /\ holidayLoads = IF excludeHolidaysInStats THEN {[token |-> 1, year |-> Today, done |-> 0]} ELSE {}

(* previousMonth, nextMonth, goToToday, and the watcher. *)
GoTo(m) ==
  /\ steps < MaxLoads /\ steps' = steps + 1
  /\ m # month /\ (m = month + 1 \/ m + 1 = month \/ m = Today)
  /\ month' = m
  /\ loads' = loads \cup {MonthLoad(m)}
  /\ loadHolidays(m)
  /\ UNCHANGED <<diaries, gone, activity, excludeHolidaysInStats, unseen, loaded, failed>>

(* onDiaryMutation: a diary was written or added to in this tab. *)
Write(m) ==
  /\ steps < MaxLoads /\ steps' = steps + 1
  /\ diaries' = diaries \cup {m}
  /\ loads' = loads \cup {fetchActivity}
  /\ unseen' = unseen \ {m}
  /\ UNCHANGED <<month, gone, activity, holidayVars, excludeHolidaysInStats, loaded, failed>>

WriteElsewhere(m) ==
  /\ steps < MaxLoads /\ steps' = steps + 1
  /\ \/ m \notin diaries /\ diaries' = diaries \cup {m} /\ unseen' = unseen \cup {m} /\ UNCHANGED gone
     \/ m \in diaries /\ diaries' = diaries \ {m} /\ gone' = gone \cup {m} /\ UNCHANGED unseen
  /\ UNCHANGED <<month, activity, loads, holidayVars, excludeHolidaysInStats, loaded, failed>>

Read(l) ==
  /\ l.phase = "asked"
  /\ loads' = (loads \ {l}) \cup {[l EXCEPT !.phase = "read", !.rows = diaries \cap (l.from..l.to)]}
  /\ unseen' = unseen \ (l.from..l.to)
  /\ UNCHANGED <<month, diaries, gone, activity, holidayVars, excludeHolidaysInStats, steps, loaded, failed>>

(* A slip: the range that was asked for is replaced. *)
Replaced(l) == (activity \ (l.from..l.to)) \cup l.rows

mergeActivity(l) == activity \cup l.rows

Answered(l) ==
  /\ l.phase = "read"
  /\ activity' = mergeActivity(l)
  /\ loaded' = loaded \cup ((l.from..l.to) \cap Months)
  /\ loads' = (loads \ {l}) \cup (IF l.rest THEN {[MonthLoad(month) EXCEPT !.id = l.id]} ELSE {})
  /\ UNCHANGED <<month, diaries, gone, holidayVars, excludeHolidaysInStats, steps, unseen, failed>>

LoadFailed(l) ==
  /\ loads' = loads \ {l} /\ failed' = TRUE
  /\ UNCHANGED <<month, diaries, gone, activity, holidayVars, excludeHolidaysInStats, steps, unseen, loaded>>

-----------------------------------------------------------------------------
(* A slip: no check of the token. *)
CurrentAlways(h) == TRUE

Current(h) == h.token = holidayLoadToken

(* The holidays of one of the three years are there, from the cache or the *)
(* server.                                                                 *)
YearLoaded(h) ==
  /\ holidayLoads' = (holidayLoads \ {h}) \cup
       (IF Current(h) /\ h.done < 2 THEN {[h EXCEPT !.done = @ + 1]} ELSE {})
  /\ IF Current(h) /\ h.done = 2
     THEN holidayDateSet' = Window(h.year) /\ loadingHolidays' = FALSE
     ELSE UNCHANGED <<holidayDateSet, loadingHolidays>>
  /\ UNCHANGED <<month, diaries, gone, activity, loads, holidayLoadToken, excludeHolidaysInStats,
                 steps, unseen, loaded, failed>>

YearFailed(h) ==
  /\ holidayLoads' = holidayLoads \ {h}
  /\ IF Current(h) THEN holidayDateSet' = {} /\ loadingHolidays' = FALSE
     ELSE UNCHANGED <<holidayDateSet, loadingHolidays>>
  /\ UNCHANGED <<month, diaries, gone, activity, loads, holidayLoadToken, excludeHolidaysInStats,
                 steps, unseen, loaded, failed>>

Next ==
  \/ \E m \in Months : GoTo(m) \/ Write(m) \/ WriteElsewhere(m)
  \/ \E l \in loads : Read(l) \/ Answered(l) \/ LoadFailed(l)
  \/ \E h \in holidayLoads : YearLoaded(h) \/ YearFailed(h)

Spec == Init /\ [][Next]_vars

-----------------------------------------------------------------------------
(* However fast the user moves on, the holidays that are marked are those  *)
(* around the month that is shown, or none (last-wins, useCalendar.ts:167).*)
HolidaysFollow ==
  /\ loadingHolidays <=> \E h \in holidayLoads : Current(h)
  /\ ~loadingHolidays => holidayDateSet \in {{}, Window(month)}
  /\ ~excludeHolidaysInStats => holidayDateSet = {}

(* When the loads have ended, a diary of this tab, or one that was there   *)
(* when its month was read, is shown, in whatever order the answers came,  *)
(* if it lies in the year up to today or in the month on the page; and     *)
(* nothing is shown that was no diary.                                     *)
RecordedDaysShow ==
  /\ activity \subseteq diaries \cup gone
  /\ loads = {} /\ ~failed =>
       /\ month \in loaded
       /\ (diaries \ unseen) \cap loaded \cap (Whole \cup {month}) \subseteq activity

CalendarHolds == HolidaysFollow /\ RecordedDaysShow
=============================================================================
