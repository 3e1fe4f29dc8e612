------------------------------ MODULE Calendar ------------------------------
(***************************************************************************)
(* The clock: what time ntp::init assumes until a server answers, and the  *)
(* date ntp_set_system_time computes for the real-time clock from the      *)
(* seconds since 1970 that the server sends.                               *)
(*                                                                         *)
(* Seconds since 1970 are a u32 in the code and do not fit TLC's integers: *)
(* they are kept as days and seconds of the day, which is how the code     *)
(* splits them.  The time assumed at first is kept in ten-thousandths of a *)
(* day, in which 365.2425 days are a whole number.                         *)
(***************************************************************************)
EXTENDS Naturals, FiniteSets

CONSTANTS
  BuildYears,  \* the values of CURRENT_YEAR considered
  LastDay,     \* bound: the last day a server sends
  Sods         \* the seconds of the day considered

ASSUME CalendarAssumption ==
  /\ \A y \in BuildYears : y \in Nat /\ 1970 <= y /\ y <= 2037
  /\ \A sod \in Sods : sod \in Nat /\ sod <= 86399
  /\ LastDay \in Nat /\ LastDay <= 49710

VARIABLES
  buildYear,  \* CURRENT_YEAR, 0 before ntp::init
  assumed,    \* the time assumed in ntp::init, in ten-thousandths of a day
  heard,      \* what the server sent, or Unset
  rtc         \* the real-time clock's registers, or Unset

calendarVars == <<buildYear, assumed, heard, rtc>>

Unset == [unset |-> TRUE]

CalendarInit == buildYear = 0 /\ assumed = 0 /\ heard = Unset /\ rtc = Unset

-----------------------------------------------------------------------------
AssumedEpoch(y) == (y - 1970) * 3652425

InitClock(y) ==
  /\ buildYear = 0
  /\ buildYear' = y /\ assumed' = AssumedEpoch(y)
  /\ UNCHANGED <<heard, rtc>>

(* Days are counted from the 1st of March of the year 0 in eras of 400      *)
(* years, each of which ends with its leap day, if any.                     *)
YearOfEraCenturiesLeap(doe) == (doe - doe \div 1460) \div 365  \* broken: no rule for centuries
YearOfEra(doe) == (doe - doe \div 1460 + doe \div 36524 - doe \div 146096) \div 365
DayOfYear(doe, yoe) == doe - (365 * yoe + yoe \div 4 - yoe \div 100)

DateOf(days) ==
  LET era == (days + 719468) \div 146097
      doe == (days + 719468) % 146097
      yoe == YearOfEra(doe)
      doy == DayOfYear(doe, yoe)
      mp  == (5 * doy + 2) \div 153
  IN [year  |-> yoe + era * 400,
      month |-> IF mp < 10 THEN mp + 3 ELSE mp - 9,
      day   |-> doy - (153 * mp + 2) \div 5 + 1]

TimeOf(sod) ==
  [hour |-> sod \div 3600, min |-> (sod % 3600) \div 60, sec |-> (sod % 3600) % 60]

(* The seconds since 1970 that a u32 can hold end in the middle of a day. *)
FitsU32(days, sod) == days < 49710 \/ (days = 49710 /\ sod <= 23295)

(* sntp's answer.  Which date the next one brings does not depend on this   *)
(* one: nothing is modelled after the first.                                *)
SetSystemTime ==
  /\ buildYear # 0 /\ rtc = Unset
  /\ \E days \in 0..LastDay, sod \in Sods :
       /\ FitsU32(days, sod)
       /\ heard' = [days |-> days, sod |-> sod]
       /\ rtc' = [date |-> DateOf(days), time |-> TimeOf(sod)]
  /\ UNCHANGED <<buildYear, assumed>>

CalendarNext == SetSystemTime \/ \E y \in BuildYears : InitClock(y)

CalendarSpec == CalendarInit /\ [][CalendarNext]_calendarVars

-----------------------------------------------------------------------------
(* The calendar as one learns it. *)
LeapYear(y) == y % 4 = 0 /\ (y % 100 = 0 => y % 400 = 0)
MonthLength(y, m) ==
  IF m = 2 THEN (IF LeapYear(y) THEN 29 ELSE 28) ELSE IF m \in {4, 6, 9, 11} THEN 30 ELSE 31

LeapYearsBefore == [y \in 1970..2110 |-> Cardinality({z \in 1970..(y - 1) : LeapYear(z)})]
NewYear(y) == 365 * (y - 1970) + LeapYearsBefore[y]
DaysBeforeMonth == <<0, 31, 59, 90, 120, 151, 181, 212, 243, 273, 304, 334>>
DaysBefore(y, m) == DaysBeforeMonth[m] + (IF m > 2 /\ LeapYear(y) THEN 1 ELSE 0)

(* Month, day and time of day are those of the time the server sent, on     *)
(* every day 32 bits can name.  The year is the true one from March on; in  *)
(* January and February it is the one before, because the conversion leaves *)
(* out the correction for years that begin in March.                        *)
CalendarAgrees ==
  rtc # Unset =>
    LET year == rtc.date.year + (IF rtc.date.month <= 2 THEN 1 ELSE 0)
    IN /\ rtc.date.month \in 1..12 /\ rtc.date.day \in 1..MonthLength(year, rtc.date.month)
       /\ NewYear(year) + DaysBefore(year, rtc.date.month) + rtc.date.day - 1 = heard.days
       /\ rtc.time.min \in 0..59 /\ rtc.time.sec \in 0..59
       /\ 3600 * rtc.time.hour + 60 * rtc.time.min + rtc.time.sec = heard.sod

(* "Assume it is 1.1.CURRENT_YEAR at 0:00" (ntp.cpp:57): at least the day   *)
(* should be the 1st of January.                                            *)
StartsOnNewYearsDay == buildYear # 0 => assumed \div 10000 = NewYear(buildYear)
=============================================================================
