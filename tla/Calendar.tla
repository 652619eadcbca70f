------------------------------ MODULE Calendar ------------------------------
(***************************************************************************)
(* The conversions of Mid_RTC.c between Unix time and calendar dates, in   *)
(* whole days: the time of day is Unix time modulo 86400 and takes no part *)
(* in them.  A division truncates; the numbers are never negative.         *)
(***************************************************************************)
EXTENDS Integers

(* January and February are counted as months 13 and 14 of the year before. *)
ShiftedMonth(m) == IF m <= 2 THEN m + 12 ELSE m
ShiftedYear(y, m) == IF m <= 2 THEN y - 1 ELSE y

(* 1 is Monday, 7 is Sunday. *)
Mid_RTCComputeDayOfWeek(year, month, day) ==
  LET y == ShiftedYear(year, month)
      j == y \div 100
      k == y % 100
      h == day + (26 * (ShiftedMonth(month) + 1)) \div 10 + k + k \div 4 + 5 * j + j \div 4
  IN ((h + 5) % 7) + 1

(* The date of a day counted from 1 January 1970. *)
Mid_RTCConvertUnixToDate_Julian(days) ==
  LET b == days + 2442113 + 12
      c == (20 * b - 2442) \div 7305
      d == b - 365 * c - c \div 4
      e == (d * 1000) \div 30601
      early == e <= 13
  IN [year  |-> IF early THEN c - 4716 ELSE c - 4715,
      month |-> IF early THEN e - 1 ELSE e - 13,
      day   |-> d - e * 30 - (e * 601) \div 1000]

Mid_RTCConvertUnixToDate(days) ==
  LET a == (4 * days + 102032) \div 146097 + 15
      b == days + 2442113 + a - a \div 4
      c == (20 * b - 2442) \div 7305
      d == b - 365 * c - c \div 4
      e == (d * 1000) \div 30601
      early == e <= 13
  IN [year  |-> IF early THEN c - 4716 ELSE c - 4715,
      month |-> IF early THEN e - 1 ELSE e - 13,
      day   |-> d - e * 30 - (e * 601) \div 1000]

(* Days from 1 January 1970 to a date; the year is kept in eight bits. *)
UINT8 == 256

Mid_RTCConvertDateToUnixTime(date) ==
  LET m == ShiftedMonth(date.month)
      y == ShiftedYear(date.year, date.month) % UINT8
  IN 365 * y + y \div 4 - y \div 100 + y \div 400
       + 30 * m + (3 * (m + 1)) \div 5 + (date.day + 1) - 65047
=============================================================================
