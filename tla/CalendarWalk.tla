---------------------------- MODULE CalendarWalk ----------------------------
(***************************************************************************)
(* The conversions against the Gregorian calendar, walked day by day from  *)
(* 1 January 1970, a Thursday.                                             *)
(***************************************************************************)
EXTENDS Calendar

CONSTANT LastYear      (* after this year the walk starts again *)

(* The year of date_time_t is a uint16_t; before it wraps around no number *)
(* of the conversions does.                                                *)
WalkAssumption == LastYear \in 1970 .. 65535

VARIABLES days, date, weekday

vars == <<days, date, weekday>>

Leap(y) == y % 4 = 0 /\ (y % 100 # 0 \/ y % 400 = 0)
MonthLength(y, m) ==
  IF m = 2 THEN (IF Leap(y) THEN 29 ELSE 28) ELSE IF m \in {4, 6, 9, 11} THEN 30 ELSE 31

DayAfter(d) ==
  IF d.day < MonthLength(d.year, d.month) THEN [d EXCEPT !.day = @ + 1]
  ELSE IF d.month < 12 THEN [year |-> d.year, month |-> d.month + 1, day |-> 1]
  ELSE [year |-> d.year + 1, month |-> 1, day |-> 1]

Epoch == [year |-> 1970, month |-> 1, day |-> 1]

Init == days = 0 /\ date = Epoch /\ weekday = 4

NextDay ==
  IF DayAfter(date).year <= LastYear
  THEN days' = days + 1 /\ date' = DayAfter(date) /\ weekday' = (weekday % 7) + 1
  ELSE days' = 0 /\ date' = Epoch /\ weekday' = 4

Spec == Init /\ [][NextDay]_vars

(* Mid_RTCConvertUnixToDate gives the Gregorian date of every day, through *)
(* leap years and through 2000 and 2100.                                   *)
DateIsGregorian == Mid_RTCConvertUnixToDate(days) = date

(* The weekday by which triggers are selected is that of the date.         *)
WeekdayFollows ==
  LET d == Mid_RTCConvertUnixToDate(days)
  IN Mid_RTCComputeDayOfWeek(d.year, d.month, d.day) = weekday

(* Mid_RTCConvertDateToUnixTime is the inverse, although it keeps the year *)
(* in eight bits, for the 48 years after 1999.                             *)
InverseSince2000 ==
  date.year \in 2000 .. 2047 => Mid_RTCConvertDateToUnixTime(date) = days

(* All three conversions of Mid_RTC.c agree with the calendar.             *)
CalendarIsGregorian == DateIsGregorian /\ WeekdayFollows /\ InverseSince2000
=============================================================================
