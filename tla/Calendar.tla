------------------------------ MODULE Calendar ------------------------------
(***************************************************************************)
(* The civil calendar of the runtime (aster-runtime machine.rs): instants  *)
(* are texts YYYY-MM-DDTHH:MM:SSZ, and add_seconds goes through the days   *)
(* since 1970 and back.  An instant is the tuple of its six numbers.       *)
(***************************************************************************)
EXTENDS Integers, Sequences

SecondsPerDay == 86400
DaysPerEra == 146097
DaysBeforeEpoch == 719468

LeapYear(year) == year % 4 = 0 /\ (year % 100 # 0 \/ year % 400 = 0)

\* 0 for a month there is not.
DaysInMonth(year, month) ==
  CASE month \in {1, 3, 5, 7, 8, 10, 12} -> 31
    [] month \in {4, 6, 9, 11} -> 30
    [] month = 2 /\ LeapYear(year) -> 29
    [] month = 2 /\ ~LeapYear(year) -> 28
    [] OTHER -> 0

\* validate_instant, of a text with the layout of an instant.
ValidInstant(t) ==
  /\ t[1] > 0 /\ t[3] \in 1..DaysInMonth(t[1], t[2])
  /\ t[4] <= 23 /\ t[5] <= 59 /\ t[6] <= 59

\* Years begin in March, so that the leap day is the last one, and months are
\* counted from it; an era is 400 years.
YearStart(yearOfEra) == yearOfEra * 365 + yearOfEra \div 4 - yearOfEra \div 100
MonthStart(shiftedMonth) == (153 * shiftedMonth + 2) \div 5

DaysFromCivil(year, month, day) ==
  LET adjustedYear == IF month <= 2 THEN year - 1 ELSE year
      era          == adjustedYear \div 400
      shiftedMonth == IF month > 2 THEN month - 3 ELSE month + 9
      dayOfYear    == MonthStart(shiftedMonth) + day - 1
  IN  era * DaysPerEra + YearStart(adjustedYear - era * 400) + dayOfYear - DaysBeforeEpoch

\* Faulty variant: the last day of an era is the first one of a year.
YearOfEraWithoutLastDay(dayOfEra) == (dayOfEra - dayOfEra \div 1460 + dayOfEra \div 36524) \div 365

YearOfEra(dayOfEra) ==
  (dayOfEra - dayOfEra \div 1460 + dayOfEra \div 36524 - dayOfEra \div 146096) \div 365

CivilOfEra(era, yearOfEra, dayOfYear) ==
  LET monthPrime == (5 * dayOfYear + 2) \div 153
      day        == dayOfYear - MonthStart(monthPrime) + 1
      month      == IF monthPrime < 10 THEN monthPrime + 3 ELSE monthPrime - 9
      year       == yearOfEra + era * 400
  IN  <<IF month <= 2 THEN year + 1 ELSE year, month, day>>

CivilFromDays(days) ==
  LET zeroBased == days + DaysBeforeEpoch
      era       == zeroBased \div DaysPerEra
      dayOfEra  == zeroBased - era * DaysPerEra
      yearOfEra == YearOfEra(dayOfEra)
  IN  CivilOfEra(era, yearOfEra, dayOfEra - YearStart(yearOfEra))

SecondOfDay(t) == t[4] * 3600 + t[5] * 60 + t[6]

AtSecond(date, second) ==
  <<date[1], date[2], date[3], second \div 3600, (second % 3600) \div 60, second % 60>>

LastYear == 9999

\* No instant is after the last year; <<>> is an error.
InstantAt(date, second) == IF date[1] \in 1..LastYear THEN AtSecond(date, second) ELSE <<>>

\* add_seconds.  The days and the seconds of the total are kept apart, which is
\* where its division by 86 400 puts them.
AddSeconds(t, seconds) ==
  LET total == SecondOfDay(t) + seconds
  IN  InstantAt(CivilFromDays(DaysFromCivil(t[1], t[2], t[3]) + total \div SecondsPerDay),
                total % SecondsPerDay)
=============================================================================
