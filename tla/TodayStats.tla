----------------------------- MODULE TodayStats -----------------------------
(***************************************************************************)
(* The "today" counters of DomainFronter (src/src/domain_fronter.rs): a    *)
(* day key in Pacific Time, by which Apps Script resets its quota, and a   *)
(* counter that record_today and snapshot_stats reset when the key has     *)
(* changed.  The key is computed before the lock is taken and the count is *)
(* added after it is released.  Time is counted in hours since 1970 UTC:   *)
(* every boundary the code knows falls on a full hour.  The byte counter   *)
(* moves with the call counter and is left out.                            *)
(***************************************************************************)
EXTENDS Integers, FiniteSets, Functions

CONSTANTS
  Recorders,  \* relay calls that end at about the same time
  DayYears,   \* years whose critical days are looked at
  DayHours    \* bound: hours the clock runs

\* The clock starts in 1970; a window ends before the clocks change in the next year.
ASSUME DayAssumption == (\A y \in DayYears : y \in Nat /\ y >= 1970) /\ DayHours \in 0..1200

-----------------------------------------------------------------------------
(* The calendar of the code *)

\* unix_to_ymd_utc: Hinnant's civil_from_days.
unix_to_ymd_utc(h) ==
  LET z == h \div 24 + 719468
      era == z \div 146097
      doe == z - era * 146097
      yoe == (doe - doe \div 1460 + doe \div 36524 - doe \div 146096) \div 365
      doy == doe - (365 * yoe + yoe \div 4 - yoe \div 100)
      mp == (5 * doy + 2) \div 153
      m == IF mp < 10 THEN mp + 3 ELSE mp - 9
      y == yoe + era * 400 IN
  <<IF m <= 2 THEN y + 1 ELSE y, m, doy - (153 * mp + 2) \div 5 + 1>>

\* Sakamoto's table and day of the week of the first of the month.
MonthShift == <<0, 3, 2, 5, 0, 3, 5, 1, 4, 6, 2, 4>>

nth_sunday_of_month(year, month, nth) ==
  LET y == IF month < 3 THEN year - 1 ELSE year
      dow == (y + y \div 4 - y \div 100 + y \div 400 + MonthShift[month] + 1) % 7 IN
  (IF dow = 0 THEN 1 ELSE 8 - dow) + (nth - 1) * 7

pacific_is_dst(year, month, day) ==
  \/ month \in 4..10
  \/ month = 3 /\ day >= nth_sunday_of_month(year, 3, 2)
  \/ month = 11 /\ day < nth_sunday_of_month(year, 11, 1)

AlwaysStandardTime(h) == h - 8

\* unix_to_pt_seconds: whether DST is on is read off the date in standard time.
unix_to_pt_hours(h) ==
  LET guess == unix_to_ymd_utc(h - 8) IN
  h - (IF pacific_is_dst(guess[1], guess[2], guess[3]) THEN 7 ELSE 8)

current_pt_day_key(h) == unix_to_ymd_utc(unix_to_pt_hours(h))

\* seconds_until_pacific_midnight.
hours_until_pacific_midnight(h) == 24 - (unix_to_pt_hours(h) % 24)

-----------------------------------------------------------------------------
(* Reference calendar: year lengths, month lengths, clocks changed at 02:00 *)

Leap(y) == y % 4 = 0 /\ (y % 100 # 0 \/ y % 400 = 0)
YearDay(y) == 365 * (y - 1970) + Cardinality({k \in 1970..(y - 1) : Leap(k)})
MonthLength(y, m) == IF m = 2 THEN (IF Leap(y) THEN 29 ELSE 28) ELSE IF m \in {4, 6, 9, 11} THEN 30 ELSE 31
MonthLengths(y) == [m \in 1..12 |-> MonthLength(y, m)]
DaysBefore(y, m) == SumFunctionOnSet(MonthLengths(y), 1..(m - 1))
DayNumber(y, m, d) == YearDay(y) + DaysBefore(y, m) + d - 1
\* 1970-01-01 was a Thursday.
IsSunday(day) == (day + 4) % 7 = 0

\* The n-th Sunday of a month as a day number: it falls in the month's n-th week.
Sunday(y, m, n) ==
  LET first == DayNumber(y, m, 1) IN
  CHOOSE day \in (first + 7 * (n - 1))..(first + 7 * n - 1) : IsSunday(day)

\* 02:00 PST is 10:00 UTC, 02:00 PDT is 09:00 UTC.
TrueOffset(y, h) == IF h >= 24 * Sunday(y, 3, 2) + 10 /\ h < 24 * Sunday(y, 11, 1) + 9 THEN 7 ELSE 8
TrueDay(y, h) == (h - TrueOffset(y, h)) \div 24

\* The key is a date of the calendar and names this day.
Names(key, day) == key[3] <= MonthLength(key[1], key[2]) /\ DayNumber(key[1], key[2], key[3]) = day

\* Days on which something changes: the clocks, the month of February, the year.
CriticalDays(y) == {Sunday(y, 3, 2), Sunday(y, 11, 1), DayNumber(y, 2, 28), DayNumber(y, 2, MonthLength(y, 2)), DayNumber(y, 12, 31)}

-----------------------------------------------------------------------------
VARIABLES
  yearOf,     \* the year of the window that is looked at
  openedAt,   \* first hour of the window
  utc,        \* the clock
  todayKey,   \* today_key
  todayCalls, \* today_calls
  recStep,    \* per caller, and for the window that takes snapshots: its step
  recKey,     \* the key it computed
  dayAdds     \* calls added since the Pacific day began

dayvars == <<yearOf, openedAt, utc, todayKey, todayCalls, recStep, recKey, dayAdds>>

Snapshot == "snapshot"
Actors == Recorders \cup {Snapshot}
KeyShape == Nat \X (1..12) \X (1..31)

DayTypeOK ==
  /\ yearOf \in DayYears /\ utc \in openedAt..(openedAt + DayHours)
  /\ todayKey \in KeyShape /\ todayCalls \in Nat /\ dayAdds \in Nat
  /\ recStep \in [Actors -> {"idle", "keyed", "rolled", "over"}]
  /\ \A a \in Actors : recKey[a] \in KeyShape

\* The window opens at 00:00 UTC, the afternoon before in California.
DayInit ==
  /\ yearOf \in DayYears /\ \E day \in CriticalDays(yearOf) : openedAt = 24 * day
  /\ utc = openedAt /\ todayKey = current_pt_day_key(openedAt) /\ todayCalls = 0
  /\ recStep = [a \in Actors |-> "idle"] /\ recKey = [a \in Actors |-> todayKey]
  /\ dayAdds = 0

HourPasses ==
  /\ utc < openedAt + DayHours /\ utc' = utc + 1
  /\ dayAdds' = IF TrueDay(yearOf, utc + 1) = TrueDay(yearOf, utc) THEN dayAdds ELSE 0
  /\ UNCHANGED <<yearOf, openedAt, todayKey, todayCalls, recStep, recKey>>

ReadKey(a) ==
  /\ recStep[a] = "idle" /\ recStep' = [recStep EXCEPT ![a] = "keyed"]
  /\ recKey' = [recKey EXCEPT ![a] = current_pt_day_key(utc)]
  /\ UNCHANGED <<yearOf, openedAt, utc, todayKey, todayCalls, dayAdds>>

\* Under the lock: another key than the stored one replaces it and resets,
\* be it newer or older.
RollOver(a) ==
  /\ recStep[a] = "keyed"
  /\ todayKey' = recKey[a]
  /\ todayCalls' = IF recKey[a] # todayKey THEN 0 ELSE todayCalls
  /\ recStep' = [recStep EXCEPT ![a] = IF a = Snapshot THEN "idle" ELSE "rolled"]
  /\ UNCHANGED <<yearOf, openedAt, utc, recKey, dayAdds>>

\* fetch_add, after the lock was released.
CountCall(a) ==
  /\ recStep[a] = "rolled" /\ recStep' = [recStep EXCEPT ![a] = "over"]
  /\ todayCalls' = todayCalls + 1 /\ dayAdds' = dayAdds + 1
  /\ UNCHANGED <<yearOf, openedAt, utc, todayKey, recKey>>

DayNext == HourPasses \/ \E a \in Actors : ReadKey(a) \/ RollOver(a) \/ CountCall(a)

DaySpec == DayInit /\ [][DayNext]_dayvars

-----------------------------------------------------------------------------
(* Properties *)

Dist(x, y) == IF x < y THEN y - x ELSE x - y

\* The next midnight, with the offset that holds then.
UntilTrueMidnight(y, h) ==
  LET midnight == 24 * (TrueDay(y, h) + 1) IN midnight + TrueOffset(y, midnight + 8) - h

\* The day key is the Pacific date at every hour, on the days the clocks
\* change, at the ends of February and of the year alike, although DST is
\* read off a guessed date; the countdown is off by an hour at most; and calls
\* of yesterday are never shown under today's key: the counter is at most the
\* number of calls since midnight, also when a caller that computed its key
\* before midnight rolls the counter back.  (The comments at the counter's fields
\* and at its call, and the message of a relay timeout, say that it resets at
\* 00:00 UTC; the code, and the comments at its functions, use Pacific Time.)
TodayIsQuotaDay ==
  /\ Names(current_pt_day_key(utc), TrueDay(yearOf, utc))
  /\ Dist(hours_until_pacific_midnight(utc), UntilTrueMidnight(yearOf, utc)) <= 1
  /\ Names(todayKey, TrueDay(yearOf, utc)) => todayCalls <= dayAdds
=============================================================================
