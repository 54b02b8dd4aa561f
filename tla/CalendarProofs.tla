--------------------------- MODULE CalendarProofs ---------------------------
(***************************************************************************)
(* The calendar of the runtime, for every day and every instant: going     *)
(* from a day to its date and back changes nothing, and add_seconds moves  *)
(* an instant by the seconds it is given.                                  *)
(***************************************************************************)
EXTENDS Calendar, TLAPS

\* Years of an era begin on the first of March; the last day of some is a leap day.
LeapEnd(y) == y % 4 = 3 /\ (y % 100 # 99 \/ y = 399)

\* The year found for a day of an era begins on or before the day, and the day
\* is one of its 365 days or its leap day (civil_from_days).
LEMMA DayHasYear ==
  ASSUME NEW d \in Int, 0 <= d, d <= 146096
  PROVE  /\ YearOfEra(d) \in 0..399
         /\ d - YearStart(YearOfEra(d)) \in 0..365
         /\ d - YearStart(YearOfEra(d)) = 365 => LeapEnd(YearOfEra(d))
<1>1. PICK q1 \in Int : q1 = d \div 1460 BY SMTT(30)
<1>2. PICK q2 \in Int : q2 = d \div 36524 BY SMTT(30)
<1>3. PICK q3 \in Int : q3 = d \div 146096 BY SMTT(30)
<1>4. PICK y \in Int : y = (d - q1 + q2 - q3) \div 365 BY SMTT(30)
<1>5. PICK y4 \in Int : y4 = y \div 4 BY SMTT(30)
<1>6. PICK y100 \in Int : y100 = y \div 100 BY SMTT(30)
<1>7. YearOfEra(d) = y BY <1>1, <1>2, <1>3, <1>4 DEF YearOfEra
<1>8. YearStart(y) = 365 * y + y4 - y100 BY <1>5, <1>6 DEF YearStart
<1>9. y % 4 = y - 4 * y4 /\ y % 100 = y - 100 * y100 BY <1>5, <1>6, SMTT(30)
<1>10. 1460 * q1 <= d /\ d < 1460 * q1 + 1460 BY <1>1, SMTT(30)
<1>11. 36524 * q2 <= d /\ d < 36524 * q2 + 36524 BY <1>2, SMTT(30)
<1>12. 146096 * q3 <= d /\ d < 146096 * q3 + 146096 BY <1>3, SMTT(30)
<1>13. 365 * y <= d - q1 + q2 - q3 /\ d - q1 + q2 - q3 < 365 * y + 365 BY <1>4, SMTT(30)
<1>14. 4 * y4 <= y /\ y < 4 * y4 + 4 BY <1>5, SMTT(30)
<1>15. 100 * y100 <= y /\ y < 100 * y100 + 100 BY <1>6, SMTT(30)
<1>16. 0 <= y /\ y <= 399 BY <1>10, <1>11, <1>12, <1>13, SMTT(60)
<1>17. 0 <= d - (365 * y + y4 - y100) BY <1>10, <1>11, <1>12, <1>13, <1>14, <1>15, SMTT(60)
<1>18. d - (365 * y + y4 - y100) <= 365 BY <1>10, <1>11, <1>12, <1>13, <1>14, <1>15, SMTT(60)
<1>19. d - (365 * y + y4 - y100) = 365 => y - 4 * y4 = 3
  BY <1>10, <1>11, <1>12, <1>13, <1>14, <1>15, SMTT(60)
<1>20. d - (365 * y + y4 - y100) = 365 => y - 100 * y100 # 99 \/ y = 399
  BY <1>10, <1>11, <1>12, <1>13, <1>14, <1>15, SMTT(60)
<1>21. QED BY <1>7, <1>8, <1>9, <1>16, <1>17, <1>18, <1>19, <1>20 DEF LeapEnd

\* The first days of the months of a year that begins in March; the one after
\* February is never reached.
LEMMA MonthStarts ==
  /\ MonthStart(0) = 0 /\ MonthStart(1) = 31 /\ MonthStart(2) = 61 /\ MonthStart(3) = 92
  /\ MonthStart(4) = 122 /\ MonthStart(5) = 153 /\ MonthStart(6) = 184 /\ MonthStart(7) = 214
  /\ MonthStart(8) = 245 /\ MonthStart(9) = 275 /\ MonthStart(10) = 306 /\ MonthStart(11) = 337
  /\ MonthStart(12) = 367
BY SMTT(30) DEF MonthStart

\* The month found for a day of the year begins on or before it, and the next
\* month after it.
LEMMA DayHasMonth ==
  ASSUME NEW d \in 0..365
  PROVE  LET m == (5 * d + 2) \div 153
         IN  m \in 0..11 /\ MonthStart(m) <= d /\ d < MonthStart(m + 1)
BY SMTT(60) DEF MonthStart

\* A day within a month is found to be of that month.
LEMMA MonthOfDay ==
  ASSUME NEW m \in 0..11, NEW d \in Int, MonthStart(m) <= d, d < MonthStart(m + 1)
  PROVE  (5 * d + 2) \div 153 = m
BY SMTT(60) DEF MonthStart

\* A day within a year of an era is in the era, and found to be of that year
\* (the days of days_from_civil).
LEMMA YearHasDay ==
  ASSUME NEW y \in Int, 0 <= y, y <= 399, NEW d \in Int, NEW doy \in Int, 0 <= doy
  PROVE  d = YearStart(y) + doy /\ (doy <= 364 \/ (doy = 365 /\ LeapEnd(y)))
           => 0 <= d /\ d <= 146096 /\ YearOfEra(d) = y
<1>0. SUFFICES ASSUME d = YearStart(y) + doy, doy <= 364 \/ (doy = 365 /\ LeapEnd(y))
               PROVE  0 <= d /\ d <= 146096 /\ YearOfEra(d) = y
  OBVIOUS
<1>1. PICK y4 \in Int : y4 = y \div 4 BY SMTT(30)
<1>2. PICK y100 \in Int : y100 = y \div 100 BY SMTT(30)
<1>3. d = 365 * y + y4 - y100 + doy BY <1>0, <1>1, <1>2 DEF YearStart
<1>5. 4 * y4 <= y /\ y < 4 * y4 + 4 BY <1>1, SMTT(30)
<1>6. 100 * y100 <= y /\ y < 100 * y100 + 100 BY <1>2, SMTT(30)
<1>7. y % 4 = y - 4 * y4 /\ y % 100 = y - 100 * y100 BY <1>1, <1>2, SMTT(30)
<1>8. doy <= 364 \/ (doy = 365 /\ y - 4 * y4 = 3 /\ (y - 100 * y100 # 99 \/ y = 399))
  BY <1>0, <1>7 DEF LeapEnd
<1>9. 0 <= d /\ d <= 146096 BY <1>3, <1>5, <1>6, <1>8, SMTT(60)
<1>10. PICK q1 \in Int : q1 = d \div 1460 BY SMTT(30)
<1>11. PICK q2 \in Int : q2 = d \div 36524 BY SMTT(30)
<1>12. PICK q3 \in Int : q3 = d \div 146096 BY SMTT(30)
<1>13. 1460 * q1 <= d /\ d < 1460 * q1 + 1460 BY <1>10, SMTT(30)
<1>14. 36524 * q2 <= d /\ d < 36524 * q2 + 36524 BY <1>11, SMTT(30)
<1>15. 146096 * q3 <= d /\ d < 146096 * q3 + 146096 BY <1>12, SMTT(30)
<1>16. 365 * y <= d - q1 + q2 - q3
  BY <1>3, <1>5, <1>6, <1>8, <1>13, <1>14, <1>15, SMTT(60)
<1>17. d - q1 + q2 - q3 < 365 * y + 365
  BY <1>3, <1>5, <1>6, <1>8, <1>13, <1>14, <1>15, SMTT(60)
<1>18. (d - q1 + q2 - q3) \div 365 = y BY <1>16, <1>17, SMTT(30)
<1>19. YearOfEra(d) = y BY <1>10, <1>11, <1>12, <1>18 DEF YearOfEra
<1>20. QED BY <1>9, <1>19

\* A year that begins in March ends with a leap day exactly when the calendar
\* year it ends in is a leap year.
LEMMA LeapDays ==
  ASSUME NEW year \in Int, NEW era \in Int, NEW y \in Int, 0 <= y, y <= 399, year = y + 400 * era
  PROVE  LeapEnd(y) <=> LeapYear(year + 1)
<1>1. PICK y4 \in Int : y4 = y \div 4 BY SMTT(30)
<1>2. PICK y100 \in Int : y100 = y \div 100 BY SMTT(30)
<1>3. y % 4 = y - 4 * y4 /\ y % 100 = y - 100 * y100 BY <1>1, <1>2, SMTT(30)
<1>4. 4 * y4 <= y /\ y < 4 * y4 + 4 /\ 100 * y100 <= y /\ y < 100 * y100 + 100 BY <1>1, <1>2, SMTT(30)
<1>5. y - 4 * y4 = 3 <=> (year + 1) % 4 = 0 BY <1>4, SMTT(60)
<1>6. y - 100 * y100 = 99 <=> (year + 1) % 100 = 0 BY <1>4, SMTT(60)
<1>7. y = 399 <=> (year + 1) % 400 = 0 BY SMTT(60)
<1>8. QED BY <1>3, <1>5, <1>6, <1>7 DEF LeapEnd, LeapYear

\* What a shifted month has to do with the month of the year.
MonthOf(m) == IF m < 10 THEN m + 3 ELSE m - 9

\* The months follow each other by their lengths; the last one is February.
LEMMA MonthLengths ==
  ASSUME NEW m \in 0..11, NEW year \in Int
  PROVE  /\ m # 11 => MonthStart(m + 1) = MonthStart(m) + DaysInMonth(year, MonthOf(m))
         /\ m = 11 => DaysInMonth(year, MonthOf(m)) = IF LeapYear(year) THEN 29 ELSE 28
<1>1. m \in {0, 1, 2, 3, 4, 5, 6, 7, 8, 9, 10, 11} OBVIOUS
<1>2. CASE m = 11 BY <1>2 DEF MonthOf, DaysInMonth
<1>3. CASE m # 11 BY <1>1, <1>3, MonthStarts DEF MonthOf, DaysInMonth
<1>4. QED BY <1>2, <1>3

YearOf(era, y, m) == IF m < 10 THEN y + 400 * era ELSE y + 400 * era + 1

\* The starts of years and months are integers.
LEMMA StartTypes ==
  /\ \A y \in Int : YearStart(y) \in Int
  /\ \A m \in Int : MonthStart(m) \in Int
BY SMTT(60) DEF YearStart, MonthStart

\* The days of days_from_civil, of a date given by era, year of the era and
\* month from March.
LEMMA DaysOfDate ==
  ASSUME NEW era \in Int, NEW y \in Int, 0 <= y, y <= 399, NEW m \in Int, 0 <= m, m <= 11, NEW day \in Int
  PROVE  DaysFromCivil(YearOf(era, y, m), MonthOf(m), day)
           = era * DaysPerEra + YearStart(y) + (MonthStart(m) + day - 1) - DaysBeforeEpoch
<1>1. PICK year \in Int : year = YearOf(era, y, m) BY DEF YearOf
<1>2. PICK month \in Int : month = MonthOf(m) BY DEF MonthOf
<1>3. PICK adjusted \in Int : adjusted = IF month <= 2 THEN year - 1 ELSE year OBVIOUS
<1>4. adjusted = y + 400 * era BY <1>1, <1>2, <1>3, SMTT(30) DEF YearOf, MonthOf
<1>5. adjusted \div 400 = era BY <1>4, SMTT(30)
<1>6. (IF month > 2 THEN month - 3 ELSE month + 9) = m BY <1>2, SMTT(30) DEF MonthOf
<1>7. adjusted - era * 400 = y BY <1>4, SMTT(30)
<1>8. DaysFromCivil(year, month, day)
        = (adjusted \div 400) * DaysPerEra + YearStart(adjusted - (adjusted \div 400) * 400)
            + (MonthStart(IF month > 2 THEN month - 3 ELSE month + 9) + day - 1) - DaysBeforeEpoch
  BY <1>3, SMTT(60) DEF DaysFromCivil
<1>9. QED BY <1>1, <1>2, <1>5, <1>6, <1>7, <1>8, SMTT(60)

\* civil_from_days divides a day into its era and a day of the era.
LEMMA DateOfDays ==
  ASSUME NEW era \in Int, NEW d \in Int, 0 <= d, d <= 146096, NEW days \in Int, days = era * DaysPerEra + d - DaysBeforeEpoch
  PROVE  CivilFromDays(days) = CivilOfEra(era, YearOfEra(d), d - YearStart(YearOfEra(d)))
<1>1. PICK zero \in Int : zero = days + DaysBeforeEpoch BY SMTT(30) DEF DaysBeforeEpoch
<1>2. zero = era * DaysPerEra + d BY <1>1, SMTT(30) DEF DaysBeforeEpoch, DaysPerEra
<1>3. zero \div DaysPerEra = era BY <1>2, SMTT(30) DEF DaysPerEra
<1>4. zero - era * DaysPerEra = d BY <1>2, SMTT(30) DEF DaysPerEra
<1>5. CivilFromDays(days)
       = CivilOfEra(zero \div DaysPerEra, YearOfEra(zero - (zero \div DaysPerEra) * DaysPerEra),
                    (zero - (zero \div DaysPerEra) * DaysPerEra)
                      - YearStart(YearOfEra(zero - (zero \div DaysPerEra) * DaysPerEra)))
  BY <1>1, SMTT(60) DEF CivilFromDays
<1>6. QED BY <1>3, <1>4, <1>5, SMTT(60)

\* The date of a day of a year of an era.
LEMMA DateInEra ==
  ASSUME NEW era \in Int, NEW y \in Int, NEW doy \in Int, NEW m \in Int, 0 <= m, m <= 11,
         NEW start \in Int, start = MonthStart(m), NEW year \in Int, year = YearOf(era, y, m),
         (5 * doy + 2) \div 153 = m
  PROVE  CivilOfEra(era, y, doy) = <<year, MonthOf(m), doy - start + 1>>
<1>1. CivilOfEra(era, y, doy)
       = <<IF MonthOf(m) <= 2 THEN (y + era * 400) + 1 ELSE y + era * 400, MonthOf(m), doy - MonthStart(m) + 1>>
  BY SMTT(60) DEF CivilOfEra, MonthOf
<1>2. (IF MonthOf(m) <= 2 THEN (y + era * 400) + 1 ELSE y + era * 400) = YearOf(era, y, m)
  BY SMTT(30) DEF YearOf, MonthOf
<1>3. QED BY <1>1, <1>2, SMTT(60)

\* m is the month, y the year and doy the day of a year that begins in March.
InYear(y, m, doy) ==
  /\ y \in Int /\ 0 <= y /\ y <= 399
  /\ m \in 0..11 /\ doy \in Int
  /\ MonthStart(m) <= doy /\ doy < MonthStart(m + 1)
  /\ doy <= 364 \/ (doy = 365 /\ LeapEnd(y))

\* The days that are within a month of a year are those from 1 to the length of
\* the month (days_in_month).
LEMMA DaysOfMonth ==
  ASSUME NEW era \in Int, NEW y \in Int, 0 <= y, y <= 399, NEW m \in 0..11, NEW doy \in Int
  PROVE  InYear(y, m, doy)
           <=> /\ 1 <= doy - MonthStart(m) + 1
               /\ doy - MonthStart(m) + 1 <= DaysInMonth(YearOf(era, y, m), MonthOf(m))
<1>1. PICK start \in Int : start = MonthStart(m) BY StartTypes
<1>2. PICK next \in Int : next = MonthStart(m + 1) BY StartTypes, m + 1 \in Int
<1>3. PICK year \in Int : year = YearOf(era, y, m) BY DEF YearOf
<1>4. CASE m = 11
  <2>1. start = 337 /\ next = 367 BY <1>1, <1>2, <1>4, MonthStarts, SMTT(60)
  <2>2. year = (y + 400 * era) + 1 BY <1>3, <1>4 DEF YearOf
  <2>3. LeapEnd(y) <=> LeapYear(year) BY <2>2, LeapDays
  <2>4. DaysInMonth(year, MonthOf(m)) = IF LeapYear(year) THEN 29 ELSE 28 BY <1>4, MonthLengths
  <2>5. InYear(y, m, doy) <=> start <= doy /\ doy < next /\ (doy <= 364 \/ (doy = 365 /\ LeapEnd(y)))
    BY <1>1, <1>2 DEF InYear
  <2>6. QED BY <1>1, <1>3, <2>1, <2>3, <2>4, <2>5
<1>5. CASE m # 11
  <2>1. next <= 337 BY <1>2, <1>5, MonthStarts, m \in {0, 1, 2, 3, 4, 5, 6, 7, 8, 9, 10}
  <2>2. PICK length \in Int : length = DaysInMonth(year, MonthOf(m)) BY SMTT(30) DEF DaysInMonth
  <2>3. next = start + length BY <1>1, <1>2, <1>5, <2>2, MonthLengths
  <2>4. InYear(y, m, doy) <=> start <= doy /\ doy < next /\ (doy <= 364 \/ (doy = 365 /\ LeapEnd(y)))
    BY <1>1, <1>2 DEF InYear
  <2>5. QED BY <1>1, <1>3, <2>1, <2>2, <2>3, <2>4
<1>6. QED BY <1>4, <1>5

\* Every day is a day of a month of a year of an era, and civil_from_days finds
\* which.
LEMMA DayIsDate ==
  ASSUME NEW days \in Int
  PROVE  \E era \in Int, y \in Int, m \in 0..11, doy \in Int :
           /\ InYear(y, m, doy)
           /\ days = era * DaysPerEra + YearStart(y) + doy - DaysBeforeEpoch
           /\ CivilFromDays(days) = <<YearOf(era, y, m), MonthOf(m), doy - MonthStart(m) + 1>>
<1>1. PICK era \in Int : era = (days + DaysBeforeEpoch) \div DaysPerEra
  BY SMTT(30) DEF DaysBeforeEpoch, DaysPerEra
<1>2. PICK d \in Int : d = days + DaysBeforeEpoch - era * DaysPerEra
  BY SMTT(30) DEF DaysBeforeEpoch, DaysPerEra
<1>3. 0 <= d /\ d <= 146096 BY <1>1, <1>2, SMTT(30) DEF DaysBeforeEpoch, DaysPerEra
<1>4. days = era * DaysPerEra + d - DaysBeforeEpoch BY <1>2, SMTT(30) DEF DaysBeforeEpoch, DaysPerEra
<1>5. PICK y \in Int : y = YearOfEra(d) BY <1>3, DayHasYear
<1>6. 0 <= y /\ y <= 399 BY <1>3, <1>5, DayHasYear
<1>7. PICK doy \in 0..365 : doy = d - YearStart(y) BY <1>3, <1>5, DayHasYear
<1>8. doy = 365 => LeapEnd(y) BY <1>3, <1>5, <1>7, DayHasYear
<1>9. PICK m \in 0..11 : m = (5 * doy + 2) \div 153 BY DayHasMonth
<1>10. MonthStart(m) <= doy /\ doy < MonthStart(m + 1) BY <1>9, DayHasMonth
<1>11. InYear(y, m, doy) BY <1>6, <1>7, <1>8, <1>10 DEF InYear
<1>12. CivilFromDays(days) = CivilOfEra(era, y, doy) BY <1>3, <1>4, <1>5, <1>7, DateOfDays
<1>13. CivilFromDays(days) = <<YearOf(era, y, m), MonthOf(m), doy - MonthStart(m) + 1>>
  <2>1. PICK start \in Int : start = MonthStart(m) BY StartTypes
  <2>2. PICK year \in Int : year = YearOf(era, y, m) BY DEF YearOf
  <2>3. CivilOfEra(era, y, doy) = <<year, MonthOf(m), doy - start + 1>> BY <1>9, <2>1, <2>2, DateInEra
  <2>4. QED BY <1>12, <2>1, <2>2, <2>3
<1>14. d = YearStart(y) + doy BY <1>6, <1>7, StartTypes
<1>15. days = era * DaysPerEra + YearStart(y) + doy - DaysBeforeEpoch
  BY <1>4, <1>14, StartTypes, SMTT(60) DEF DaysBeforeEpoch, DaysPerEra
<1>16. QED BY <1>11, <1>13, <1>15

\* Every day since or before 1970 is a date of the calendar, and the days of
\* that date are the day: days_from_civil undoes civil_from_days.
THEOREM CivilOfDay ==
  ASSUME NEW days \in Int
  PROVE  \E year \in Int, month \in Int, day \in Int :
           /\ CivilFromDays(days) = <<year, month, day>>
           /\ 1 <= month /\ month <= 12
           /\ 1 <= day /\ day <= DaysInMonth(year, month)
           /\ DaysFromCivil(year, month, day) = days
<1>1. PICK era \in Int, y \in Int, m \in 0..11, doy \in Int :
           /\ InYear(y, m, doy)
           /\ days = era * DaysPerEra + YearStart(y) + doy - DaysBeforeEpoch
           /\ CivilFromDays(days) = <<YearOf(era, y, m), MonthOf(m), doy - MonthStart(m) + 1>>
  BY DayIsDate
<1>2. 0 <= y /\ y <= 399 BY <1>1 DEF InYear
<1>3. PICK year \in Int, month \in Int : year = YearOf(era, y, m) /\ month = MonthOf(m) /\ 1 <= month /\ month <= 12
  <2>1. YearOf(era, y, m) \in Int BY DEF YearOf
  <2>2. MonthOf(m) \in Int /\ 1 <= MonthOf(m) /\ MonthOf(m) <= 12 BY SMTT(30) DEF MonthOf
  <2>3. QED BY <2>1, <2>2
<1>4. PICK day \in Int : day = doy - MonthStart(m) + 1 BY StartTypes
<1>5. 1 <= day /\ day <= DaysInMonth(YearOf(era, y, m), MonthOf(m)) BY <1>1, <1>2, <1>4, DaysOfMonth
<1>6. DaysFromCivil(YearOf(era, y, m), MonthOf(m), day) = days
  <2>1. PICK yearStart \in Int, monthStart \in Int : yearStart = YearStart(y) /\ monthStart = MonthStart(m)
    BY StartTypes
  <2>2. DaysFromCivil(YearOf(era, y, m), MonthOf(m), day)
          = era * DaysPerEra + yearStart + (monthStart + day - 1) - DaysBeforeEpoch
    BY <1>2, <2>1, DaysOfDate, SMTT(60) DEF DaysPerEra, DaysBeforeEpoch
  <2>3. monthStart + day - 1 = doy BY <1>4, <2>1
  <2>4. QED BY <1>1, <2>1, <2>2, <2>3
<1>7. QED BY <1>1, <1>3, <1>4, <1>5, <1>6

\* Every date of the calendar has its own day: civil_from_days undoes
\* days_from_civil.
THEOREM DayOfCivil ==
  ASSUME NEW year \in Int, NEW month \in 1..12, NEW day \in Int, 1 <= day, day <= DaysInMonth(year, month)
  PROVE  /\ DaysFromCivil(year, month, day) \in Int
         /\ CivilFromDays(DaysFromCivil(year, month, day)) = <<year, month, day>>
<1>1. PICK m \in 0..11 : month = MonthOf(m)
  <2>1. CASE month > 2 BY <2>1, month - 3 \in 0..11 DEF MonthOf
  <2>2. CASE month <= 2 BY <2>2, month + 9 \in 0..11 DEF MonthOf
  <2>3. QED BY <2>1, <2>2
<1>2. PICK shifted \in Int : shifted = IF m < 10 THEN year ELSE year - 1 OBVIOUS
<1>3. PICK era \in Int : era = shifted \div 400 BY SMTT(30)
<1>4. PICK y \in Int : y = shifted - 400 * era OBVIOUS
<1>5. 0 <= y /\ y <= 399 BY <1>3, <1>4, SMTT(30)
<1>6. year = YearOf(era, y, m) BY <1>2, <1>4 DEF YearOf
<1>7. PICK doy \in Int : doy = MonthStart(m) + day - 1 BY StartTypes
<1>8. day = doy - MonthStart(m) + 1 BY <1>7, StartTypes
<1>9. InYear(y, m, doy) BY <1>1, <1>5, <1>6, <1>8, DaysOfMonth
<1>10. 0 <= doy /\ doy <= 365 /\ (doy <= 364 \/ (doy = 365 /\ LeapEnd(y)))
  <2>1. MonthStart(m) >= 0 BY SMTT(30) DEF MonthStart
  <2>2. QED BY <1>9, <2>1, StartTypes DEF InYear
<1>11. PICK d \in Int : d = YearStart(y) + doy BY StartTypes
<1>12. 0 <= d /\ d <= 146096 /\ YearOfEra(d) = y BY <1>5, <1>10, <1>11, YearHasDay
<1>13. doy = d - YearStart(y) BY <1>11, StartTypes
<1>14. PICK days \in Int : days = era * DaysPerEra + d - DaysBeforeEpoch BY SMTT(30) DEF DaysBeforeEpoch, DaysPerEra
<1>15. DaysFromCivil(year, month, day) = days
  <2>1. PICK yearStart \in Int, monthStart \in Int : yearStart = YearStart(y) /\ monthStart = MonthStart(m)
    BY StartTypes
  <2>2. DaysFromCivil(year, month, day)
          = era * DaysPerEra + yearStart + (monthStart + day - 1) - DaysBeforeEpoch
    BY <1>1, <1>5, <1>6, <2>1, DaysOfDate, SMTT(60) DEF DaysPerEra, DaysBeforeEpoch
  <2>3. monthStart + day - 1 = doy /\ d = yearStart + doy BY <1>7, <1>11, <2>1
  <2>4. QED BY <1>14, <2>2, <2>3, SMTT(60) DEF DaysPerEra, DaysBeforeEpoch
<1>16. CivilFromDays(days) = CivilOfEra(era, y, doy) BY <1>12, <1>13, <1>14, DateOfDays
<1>17. (5 * doy + 2) \div 153 = m BY <1>9, MonthOfDay DEF InYear
<1>18. PICK start \in Int : start = MonthStart(m) BY StartTypes
<1>19. CivilOfEra(era, y, doy) = <<year, MonthOf(m), doy - start + 1>> BY <1>6, <1>17, <1>18, DateInEra
<1>20. QED BY <1>1, <1>8, <1>15, <1>16, <1>18, <1>19

\* Seconds since 1970.
Since1970(t) == DaysFromCivil(t[1], t[2], t[3]) * SecondsPerDay + SecondOfDay(t)

\* add_seconds writes the second of a day as hours, minutes and seconds.
LEMMA TimeOfSecond ==
  ASSUME NEW date, NEW second \in Int, 0 <= second, second < SecondsPerDay
  PROVE  \E hour \in Int, minute \in Int, last \in Int :
           /\ AtSecond(date, second) = <<date[1], date[2], date[3], hour, minute, last>>
           /\ 0 <= hour /\ hour <= 23 /\ 0 <= minute /\ minute <= 59 /\ 0 <= last /\ last <= 59
           /\ second = hour * 3600 + minute * 60 + last
<1>1. PICK hour \in Int : hour = second \div 3600 BY SMTT(30)
<1>2. PICK rest \in Int : rest = second % 3600 BY SMTT(30)
<1>3. rest = second - 3600 * hour /\ 0 <= rest /\ rest < 3600 BY <1>1, <1>2, SMTT(30)
<1>4. PICK minute \in Int : minute = rest \div 60 BY SMTT(30)
<1>5. PICK last \in Int : last = second % 60 BY SMTT(30)
<1>6. last = rest - 60 * minute /\ 0 <= last /\ last < 60 BY <1>3, <1>4, <1>5, SMTT(60)
<1>7. 0 <= hour /\ hour <= 23 BY <1>1, SMTT(30) DEF SecondsPerDay
<1>8. 0 <= minute /\ minute <= 59 BY <1>3, <1>4, SMTT(30)
<1>9. AtSecond(date, second) = <<date[1], date[2], date[3], hour, minute, last>>
  BY <1>1, <1>2, <1>4, <1>5 DEF AtSecond
<1>10. hour * 3600 + minute * 60 + last = second BY <1>3, <1>6
<1>11. QED BY <1>6, <1>7, <1>8, <1>9, <1>10

\* A time is a second of its day.
LEMMA SecondInDay ==
  ASSUME NEW hour \in Int, NEW minute \in Int, NEW last \in Int,
         0 <= hour, hour <= 23, 0 <= minute, minute <= 59, 0 <= last, last <= 59
  PROVE  0 <= hour * 3600 + minute * 60 + last /\ hour * 3600 + minute * 60 + last < SecondsPerDay
BY SMTT(30) DEF SecondsPerDay

\* The numbers of an instant are a date that has a day, and a second of it.
LEMMA PartsOfInstant ==
  ASSUME NEW t \in [1..6 -> Nat], ValidInstant(t)
  PROVE  \E year \in Int, month \in Int, day \in Int, second \in Int, days \in Int :
           /\ t[1] = year /\ t[2] = month /\ t[3] = day /\ SecondOfDay(t) = second
           /\ 0 <= second /\ second < SecondsPerDay
           /\ DaysFromCivil(year, month, day) = days
           /\ CivilFromDays(days) = <<year, month, day>>
<1>1. PICK year \in Int, month \in Int, day \in Int : t[1] = year /\ t[2] = month /\ t[3] = day OBVIOUS
<1>2. PICK hour \in Int, minute \in Int, last \in Int :
        /\ t[4] = hour /\ t[5] = minute /\ t[6] = last
        /\ 0 <= hour /\ hour <= 23 /\ 0 <= minute /\ minute <= 59 /\ 0 <= last /\ last <= 59
  BY DEF ValidInstant
<1>3. PICK second \in Int : second = hour * 3600 + minute * 60 + last OBVIOUS
<1>4. SecondOfDay(t) = second BY <1>2, <1>3 DEF SecondOfDay
<1>5. 0 <= second /\ second < SecondsPerDay
  <2>1. 0 <= hour * 3600 + minute * 60 + last /\ hour * 3600 + minute * 60 + last < SecondsPerDay
    BY <1>2, SecondInDay, SMTT(30) DEF SecondsPerDay
  <2>2. QED BY <1>3, <2>1, SMTT(30) DEF SecondsPerDay
<1>6. PICK length \in Int : length = DaysInMonth(year, month) BY SMTT(30) DEF DaysInMonth
<1>7. day \in 1..length BY <1>1, <1>6 DEF ValidInstant
<1>8. month \in 1..12
  <2>1. SUFFICES ASSUME month \notin 1..12 PROVE FALSE OBVIOUS
  <2>2. length = 0 BY <1>6, <2>1 DEF DaysInMonth
  <2>3. QED BY <1>7, <2>2
<1>9. 1 <= day /\ day <= DaysInMonth(year, month) BY <1>6, <1>7
<1>10. PICK days \in Int : days = DaysFromCivil(year, month, day) BY <1>8, <1>9, DayOfCivil
<1>11. CivilFromDays(days) = <<year, month, day>> BY <1>8, <1>9, <1>10, DayOfCivil
<1>12. QED BY <1>1, <1>4, <1>5, <1>10, <1>11

\* An addition fails on the years after 9999 only.
LEMMA InstantOfDate ==
  ASSUME NEW year \in Int, NEW month \in Int, NEW day \in Int, NEW second \in Int,
         InstantAt(<<year, month, day>>, second) # <<>>
  PROVE  /\ year \in 1..LastYear
         /\ InstantAt(<<year, month, day>>, second) = AtSecond(<<year, month, day>>, second)
<1>1. year \in 1..LastYear BY DEF InstantAt
<1>2. InstantAt(<<year, month, day>>, second) = AtSecond(<<year, month, day>>, second)
  BY <1>1 DEF InstantAt
<1>3. QED BY <1>1, <1>2

\* Adding seconds to an instant, when it does not fail, gives an instant the
\* calendar has, up to the year 9999, which is as many seconds later, or earlier.
THEOREM AddSecondsMoves ==
  ASSUME NEW t \in [1..6 -> Nat], NEW seconds \in Int
  PROVE  ValidInstant(t) /\ AddSeconds(t, seconds) # <<>>
           => LET sum == AddSeconds(t, seconds)
              IN  /\ sum \in [1..6 -> Nat] /\ ValidInstant(sum) /\ sum[1] <= LastYear
                  /\ Since1970(sum) = Since1970(t) + seconds
<1>0. SUFFICES ASSUME ValidInstant(t), AddSeconds(t, seconds) # <<>>
               PROVE  LET sum == AddSeconds(t, seconds)
                      IN  /\ sum \in [1..6 -> Nat] /\ ValidInstant(sum) /\ sum[1] <= LastYear
                          /\ Since1970(sum) = Since1970(t) + seconds
  OBVIOUS
<1>1. PICK days \in Int, start \in Int : days = DaysFromCivil(t[1], t[2], t[3]) /\ start = SecondOfDay(t)
  BY <1>0, PartsOfInstant
<1>2. PICK total \in Int : total = start + seconds OBVIOUS
<1>3. PICK q \in Int : q = total \div SecondsPerDay BY SMTT(30) DEF SecondsPerDay
<1>4. PICK second \in Int : second = total % SecondsPerDay BY SMTT(30) DEF SecondsPerDay
<1>5. second = total - q * 86400 /\ 0 <= second /\ second < SecondsPerDay
  BY <1>3, <1>4, SMTT(30) DEF SecondsPerDay
<1>6. PICK there \in Int : there = days + q OBVIOUS
<1>7. PICK year \in Int, month \in Int, day \in Int :
        /\ CivilFromDays(there) = <<year, month, day>>
        /\ 1 <= month /\ month <= 12
        /\ 1 <= day /\ day <= DaysInMonth(year, month)
        /\ DaysFromCivil(year, month, day) = there
  BY CivilOfDay, Zenon
<1>8. PICK hour \in Int, minute \in Int, last \in Int :
        /\ AtSecond(CivilFromDays(there), second)
             = <<CivilFromDays(there)[1], CivilFromDays(there)[2], CivilFromDays(there)[3], hour, minute, last>>
        /\ 0 <= hour /\ hour <= 23 /\ 0 <= minute /\ minute <= 59 /\ 0 <= last /\ last <= 59
        /\ second = hour * 3600 + minute * 60 + last
  BY <1>5, TimeOfSecond
<1>9. PICK sum : sum = <<year, month, day, hour, minute, last>> OBVIOUS
<1>10. AtSecond(CivilFromDays(there), second) = sum BY <1>7, <1>8, <1>9
<1>11. CivilFromDays(there)[1] = year BY <1>7
<1>12. AddSeconds(t, seconds) = InstantAt(CivilFromDays(there), second)
  <2>1. AddSeconds(t, seconds)
         = InstantAt(CivilFromDays(days + total \div SecondsPerDay), total % SecondsPerDay)
    BY <1>1, <1>2 DEF AddSeconds
  <2>2. there = days + total \div SecondsPerDay BY <1>3, <1>6
  <2>3. QED BY <1>4, <2>1, <2>2, Zenon
<1>13. 1 <= year /\ year <= LastYear /\ AddSeconds(t, seconds) = sum
  <2>1. AddSeconds(t, seconds) = InstantAt(<<year, month, day>>, second)
    BY <1>7, <1>12, Zenon
  <2>2. AtSecond(<<year, month, day>>, second) = sum BY <1>7, <1>10, Zenon
  <2>3. InstantAt(<<year, month, day>>, second) # <<>> BY <1>0, <2>1, Zenon
  <2>4. /\ year \in 1..LastYear
        /\ InstantAt(<<year, month, day>>, second) = AtSecond(<<year, month, day>>, second)
    BY <2>3, InstantOfDate
  <2>5. AddSeconds(t, seconds) = sum BY <2>1, <2>2, <2>4, Zenon
  <2>6. QED BY <2>4, <2>5 DEF LastYear
<1>14. sum \in [1..6 -> Nat]
  <2>1. year \in Nat /\ month \in Nat /\ day \in Nat /\ hour \in Nat /\ minute \in Nat /\ last \in Nat
    BY <1>7, <1>8, <1>13
  <2>2. QED BY <1>9, <2>1
<1>15. sum[1] = year /\ sum[2] = month /\ sum[3] = day /\ sum[4] = hour /\ sum[5] = minute /\ sum[6] = last BY <1>9
<1>16. SecondOfDay(sum) = second BY <1>8, <1>15 DEF SecondOfDay
<1>17. ValidInstant(sum)
  <2>1. PICK length \in Int : length = DaysInMonth(year, month) BY SMTT(30) DEF DaysInMonth
  <2>2. day \in 1..length BY <1>7, <2>1
  <2>3. QED BY <1>8, <1>13, <1>15, <2>1, <2>2 DEF ValidInstant
<1>18. Since1970(sum) = there * 86400 + second BY <1>7, <1>15, <1>16 DEF Since1970, SecondsPerDay
<1>19. Since1970(t) = days * 86400 + start BY <1>1 DEF Since1970, SecondsPerDay
<1>20. there * 86400 + second = days * 86400 + start + seconds BY <1>2, <1>5, <1>6, SMTT(60)
<1>21. QED BY <1>13, <1>14, <1>15, <1>17, <1>18, <1>19, <1>20
=============================================================================
