------------------------------ MODULE UserDays ------------------------------
(***************************************************************************)
(* The days of a user in a time zone with summer time                      *)
(* (lib/dates/user-tz.ts), the range of instants of today that the review  *)
(* page asks for, and the dates of a recurring alert                       *)
(* (lib/recurring-alerts.ts).  An instant and an offset are a number of    *)
(* hours; a zone changes its offset once, by one hour.  A day may have     *)
(* fewer hours than 24, which changes nothing in the arithmetic.           *)
(***************************************************************************)
EXTENDS Integers

CONSTANTS
  Hours,        \* of a day
  LastDay,      \* bound on the clock
  Offsets,      \* of zones, before they change
  Changes,      \* instants at which a zone may change
  TriggerHour,  \* 9
  MonthEnds     \* the last days of months, beyond LastDay the last of them

VARIABLES
  zone,   \* [before, after, change]
  now

vars == <<zone, now>>

TypeOK ==
  /\ zone.before \in Offsets /\ zone.after \in {zone.before - 1, zone.before + 1}
  /\ zone.change \in Changes
  /\ now \in Hours..(LastDay * Hours)

Init ==
  /\ \E b \in Offsets, a \in {-1, 1}, c \in Changes :
       zone = [before |-> b, after |-> b + a, change |-> c]
  /\ now = Hours

-----------------------------------------------------------------------------
(* user-tz.ts *)

getZonedOffset(t) == IF t < zone.change THEN zone.before ELSE zone.after

(* The clock on the wall, in hours since day 0, and its day: getZonedParts. *)
Wall(t) == t + getZonedOffset(t)
DayOf(t) == Wall(t) \div Hours

(* A slip: the offset is not looked up again. *)
zonedPartsToUtcAtOnce(wall) == wall - getZonedOffset(wall)

zonedPartsToUtc(wall) == wall - getZonedOffset(wall - getZonedOffset(wall))

getUserYmdDayRange(day) ==
  [start |-> zonedPartsToUtc(day * Hours), end |-> zonedPartsToUtc((day + 1) * Hours)]
getUserDayRange(t) == getUserYmdDayRange(DayOf(t))

-----------------------------------------------------------------------------
(* recurring-alerts.ts; day 0 is a Sunday. *)

Weekday(day) == day % 7
isWeekdayDay(day) == Weekday(day) \in 1..5

calculateEndDay(day, mode) ==
  IF mode = "WEEK"
  THEN IF Weekday(day) <= 5 THEN day + 5 - Weekday(day) ELSE day + 5 + 7 - Weekday(day)
  ELSE CHOOSE e \in MonthEnds : day <= e /\ \A m \in MonthEnds : m < e => m < day

calculateRecurringAlertDates(t, mode) ==
  {zonedPartsToUtc(day * Hours + TriggerHour) :
     day \in {d \in DayOf(t)..calculateEndDay(DayOf(t), mode) : isWeekdayDay(d)}}

-----------------------------------------------------------------------------
Tick == now < LastDay * Hours /\ now' = now + 1 /\ UNCHANGED zone

Next == Tick

Spec == Init /\ [][Next]_vars

-----------------------------------------------------------------------------
Instants(wall) == {t \in (wall - Hours)..(wall + Hours) : Wall(t) = wall}
Once(wall) == \E t \in Instants(wall) : Instants(wall) = {t}

(* West of UTC a midnight that the clock skips is taken for the hour       *)
(* before, and east of it one that comes twice for the second.             *)
Known(wall) ==
  \/ Once(wall)
  \/ Instants(wall) = {} /\ zone.before >= 0
  \/ Instants(wall) # {} /\ zone.after < 0

(* The range of today is today's instants, on the days of a change too     *)
(* (user-tz.ts: "DST-safe", no millisecond is missed), between midnights   *)
(* that are known.                                                         *)
TodayIsWhole ==
  LET d == DayOf(now)
      r == getUserDayRange(now) IN
  Known(d * Hours) /\ Known((d + 1) * Hours) =>
    \A t \in (now - 2 * Hours)..(now + 2 * Hours) : (r.start <= t /\ t < r.end) <=> DayOf(t) = d

(* A recurring alert goes off once on every weekday from today to the      *)
(* first Friday, or the first end of a month, at the hour on the user's    *)
(* clock, on whichever side of the change, if that hour is there once.     *)
AlertsAtTheHour ==
  \A mode \in {"WEEK", "MONTH"} :
    LET series == calculateRecurringAlertDates(now, mode)
        ends == IF mode = "WEEK" THEN {d \in DayOf(now)..(DayOf(now) + 7) : Weekday(d) = 5} ELSE MonthEnds
        days == {d \in DayOf(now)..(DayOf(now) + 7 * LastDay) :
                   isWeekdayDay(d) /\ \A e \in ends : DayOf(now) <= e => d <= e}
        atHour == {d \in days : Once(d * Hours + TriggerHour)}
    IN  /\ \A d \in atHour : \E t \in series : Wall(t) = d * Hours + TriggerHour
        /\ \A t \in series : DayOf(t) \in days
        /\ days = atHour => \A t, u \in series : DayOf(t) = DayOf(u) => t = u

DaysHold == TodayIsWhole /\ AlertsAtTheHour
=============================================================================
