--------------------------- MODULE DateTimeProofs ---------------------------
(***************************************************************************)
(* Proofs about dates and times.                                           *)
(*                                                                         *)
(* What is inductive is that a timestamp is made of a day of the calendar, *)
(* a time of the day and a microsecond of the second (IsStamp).  All the   *)
(* rest follows from it state by state, or step by step: a date is a       *)
(* number of days from the beginning of its year (DayNoOfYear), the days   *)
(* of a year are counted by the years before it (NextYear), and the fields *)
(* of a word are digits (DateFields, TimeFields, MilFields, SecondFields). *)
(***************************************************************************)
EXTENDS DateTime, TLAPS

\* What a date and a time are made of.
IsDate(date) ==
  /\ date \in Nat /\ Month(date) \in 1..12
  /\ DayOf(date) \in 1..DaysInMonth(Month(date), IsLeapYear(Year(date)))
IsTime(time) ==
  time \in Nat /\ Hour(time) <= 23 /\ Minute(time) <= 59 /\ Second(time) <= 59

IsStamp(t) ==
  /\ t = Stamp(t.date, t.time, t.mks)
  /\ IsDate(t.date) /\ IsTime(t.time) /\ t.mks \in Nat /\ t.mks < mksInSec

-----------------------------------------------------------------------------
(* The fields.                                                             *)

\* The fields of a date are what it was made of.
LEMMA DateFields ==
  ASSUME NEW y \in Int, NEW m \in 0..15, NEW d \in 0..31
  PROVE  /\ ToDate(y, m, d) \in Int
         /\ Year(ToDate(y, m, d)) = y
         /\ Month(ToDate(y, m, d)) = m
         /\ DayOf(ToDate(y, m, d)) = d
<1> DEFINE date == y * 512 + m * 32 + d
<1>1. date \in Int /\ date = ToDate(y, m, d)
  BY DEF ToDate
<1>2. date \div 512 = y
  OBVIOUS
<1>3. date \div 32 = y * 16 + m
  OBVIOUS
<1>4. (y * 16 + m) % 16 = m
  OBVIOUS
<1>5. date % 32 = d
  OBVIOUS
<1> HIDE DEF date
<1> QED  BY <1>1, <1>2, <1>3, <1>4, <1>5 DEF Year, Month, DayOf

\* A date is made of its fields.
LEMMA DateParts ==
  ASSUME NEW date \in Int
  PROVE  /\ Year(date) \in Int /\ Month(date) \in 0..15 /\ DayOf(date) \in 0..31
         /\ date = Year(date) * 512 + Month(date) * 32 + DayOf(date)
<1> DEFINE q == date \div 32
<1>1. q \in Int /\ date = q * 32 + (date % 32) /\ date % 32 \in 0..31
  OBVIOUS
<1>2. q = (q \div 16) * 16 + (q % 16) /\ q % 16 \in 0..15 /\ q \div 16 \in Int
  BY <1>1
<1>3. date \div 512 = q \div 16
  <2> DEFINE k == q \div 16
             r == (q % 16) * 32 + (date % 32)
  <2>1. k \in Int /\ r \in 0..511 /\ date = k * 512 + r
    BY <1>1, <1>2
  <2> HIDE DEF k, r, q
  <2>2. date \div 512 = k
    BY <2>1
  <2> QED  BY <2>2 DEF k
<1> QED  BY <1>1, <1>2, <1>3 DEF Year, Month, DayOf

\* The fields of a time are what it was made of.
LEMMA TimeFields ==
  ASSUME NEW h \in Int, NEW m \in Nat, m <= 63, NEW s \in Nat, s <= 63
  PROVE  /\ ToTime(h, m, s) \in Int
         /\ Hour(ToTime(h, m, s)) = h
         /\ Minute(ToTime(h, m, s)) = m
         /\ Second(ToTime(h, m, s)) = s
<1> DEFINE time == h * 4096 + m * 64 + s
<1>1. time \in Int /\ time = ToTime(h, m, s)
  BY DEF ToTime
<1>2. time \div 4096 = h
  OBVIOUS
<1>3. time \div 64 = h * 64 + m
  OBVIOUS
<1>4. (h * 64 + m) % 64 = m
  OBVIOUS
<1>5. time % 64 = s
  OBVIOUS
<1> HIDE DEF time
<1>6. Hour(time) = h /\ Minute(time) = m /\ Second(time) = s
  BY <1>2, <1>3, <1>4, <1>5 DEF Hour, Minute, Second
<1> QED  BY <1>1, <1>6

\* A time is made of its fields.
LEMMA TimeParts ==
  ASSUME NEW time \in Int
  PROVE  /\ Hour(time) \in Int /\ Minute(time) \in Nat /\ Second(time) \in Nat
         /\ Minute(time) <= 63 /\ Second(time) <= 63
         /\ time = Hour(time) * 4096 + Minute(time) * 64 + Second(time)
<1> DEFINE q == time \div 64
<1>1. q \in Int /\ time = q * 64 + (time % 64) /\ time % 64 \in Nat /\ time % 64 <= 63
  OBVIOUS
<1>2. q = (q \div 64) * 64 + (q % 64) /\ q % 64 \in Nat /\ q % 64 <= 63 /\ q \div 64 \in Int
  BY <1>1
<1>3. time \div 4096 = q \div 64
  <2> DEFINE k == q \div 64
             r == (q % 64) * 64 + (time % 64)
  <2>1. k \in Int /\ r \in Nat /\ r <= 4095 /\ time = k * 4096 + r
    BY <1>1, <1>2
  <2> HIDE DEF k, r, q
  <2>2. time \div 4096 = k
    BY <2>1
  <2> QED  BY <2>2 DEF k
<1> QED  BY <1>1, <1>2, <1>3 DEF Hour, Minute, Second

-----------------------------------------------------------------------------
(* The calendar.                                                           *)

\* The days before the first of January of a year.
YearStart(y) ==
  365 * (y - 1) + (y - 1) \div 4 - (y - 1) \div 100 + (y - 1) \div 400 + 306

\* The table of the days before each month adds up.
LEMMA MonthTable ==
  ASSUME NEW m \in 1..12, NEW leap \in BOOLEAN
  PROVE  /\ Days(m, leap) \in Nat /\ DaysInMonth(m, leap) \in 28..31
         /\ Days(1, leap) = 0 /\ Days(12, leap) = IF leap THEN 335 ELSE 334
         /\ m < 12 => Days(m + 1, leap) = Days(m, leap) + DaysInMonth(m, leap)
         /\ DaysInMonth(12, leap) = 31
<1> QED  BY DEF Days, DaysInMonth, DaysBefore

\* A month ends before a later one begins.
LEMMA MonthsGrow ==
  ASSUME NEW m \in 1..12, NEW n \in 1..12, m < n, NEW leap \in BOOLEAN
  PROVE  Days(m, leap) + DaysInMonth(m, leap) <= Days(n, leap)
<1> QED  BY DEF Days, DaysInMonth, DaysBefore

\* The days of a year are within its length.
LEMMA YearLength ==
  ASSUME NEW m \in 1..12, NEW leap \in BOOLEAN, NEW d \in 1..DaysInMonth(m, leap)
  PROVE  Days(m, leap) + d <= IF leap THEN 366 ELSE 365
<1>1. Days(m, leap) + DaysInMonth(m, leap) <= IF leap THEN 366 ELSE 365
  BY DEF Days, DaysInMonth, DaysBefore
<1> QED  BY <1>1, MonthTable

\* A year begins as many days after the last one as that one has.
LEMMA NextYear ==
  ASSUME NEW y \in Int
  PROVE  /\ YearStart(y) \in Int
         /\ YearStart(y + 1) = YearStart(y) + IF IsLeapYear(y) THEN 366 ELSE 365
<1>1. /\ y \div 4 = (y - 1) \div 4 + IF y % 4 = 0 THEN 1 ELSE 0
      /\ y \div 100 = (y - 1) \div 100 + IF y % 100 = 0 THEN 1 ELSE 0
      /\ y \div 400 = (y - 1) \div 400 + IF y % 400 = 0 THEN 1 ELSE 0
  OBVIOUS
<1>2. (y % 400 = 0 => y % 100 = 0) /\ (y % 100 = 0 => y % 4 = 0)
  OBVIOUS
<1> QED  BY <1>1, <1>2 DEF YearStart, IsLeapYear

\* A year is leap or not.
LEMMA Leap == \A y : IsLeapYear(y) \in BOOLEAN
  BY DEF IsLeapYear

\* The number of a day, by the table of the months.
LEMMA DayNoOfYear ==
  ASSUME NEW date \in Int, Month(date) \in 1..12
  PROVE  DayNo(date) = YearStart(Year(date)) + Days(Month(date), IsLeapYear(Year(date)))
                       + DayOf(date)
<1> DEFINE y == Year(date)
           m == Month(date)
           leap == IsLeapYear(y)
           march == (m + 9) % 12
<1>1. y \in Int /\ m \in 1..12 /\ DayOf(date) \in Int /\ leap \in BOOLEAN
  BY DateParts, Leap
<1>2. CASE m <= 2
  <2>1. march \div 10 = 1 /\ (march * 306 + 5) \div 10 = 306 + Days(m, leap)
    BY <1>1, <1>2 DEF Days, DaysBefore
  <2>2. DayNo(date) = YearStart(y) + Days(m, leap) + DayOf(date)
    <3> HIDE DEF march, leap
    <3>1. Days(m, leap) \in Int
      BY <1>1, MonthTable
    <3>2. DayNo(date) = 365 * (y - 1) + (y - 1) \div 4 - (y - 1) \div 100 + (y - 1) \div 400
                        + (306 + Days(m, leap)) + DayOf(date)
      BY <2>1 DEF DayNo, march
    <3> HIDE DEF y, m
    <3> QED  BY <1>1, <3>1, <3>2 DEF YearStart
  <2> QED  BY <2>2
<1>3. CASE m > 2
  <2>1. /\ march \div 10 = 0
        /\ (march * 306 + 5) \div 10 + 59 + (IF leap THEN 1 ELSE 0) = Days(m, leap)
    BY <1>1, <1>3 DEF Days, DaysBefore
  <2>2. (march * 306 + 5) \div 10 \in Int
    BY <1>1
  <2>3. YearStart(y + 1) = 365 * y + y \div 4 - y \div 100 + y \div 400 + 306
    <3>1. (y + 1) - 1 = y
      BY <1>1
    <3> QED  BY <3>1 DEF YearStart
  <2>4. YearStart(y + 1) = YearStart(y) + (IF leap THEN 366 ELSE 365) /\ YearStart(y) \in Int
    BY <1>1, NextYear
  <2>5. DayNo(date) = 365 * y + y \div 4 - y \div 100 + y \div 400
                      + (march * 306 + 5) \div 10 + DayOf(date)
    <3>1. y - march \div 10 = y
      BY <1>1, <2>1
    <3> QED  BY <3>1 DEF DayNo
  <2>6. DayNo(date) = YearStart(y) + Days(m, leap) + DayOf(date)
    <3> DEFINE part == (march * 306 + 5) \div 10
               whole == 365 * y + y \div 4 - y \div 100 + y \div 400
    <3>1. whole \in Int /\ part \in Int
      BY <1>1, <2>2
    <3>2. /\ DayNo(date) = whole + part + DayOf(date)
          /\ YearStart(y + 1) = whole + 306
          /\ part + 59 + (IF leap THEN 1 ELSE 0) = Days(m, leap)
      BY <2>1, <2>3, <2>5
    <3> HIDE DEF part, whole, leap, y, m
    <3> QED  BY <1>1, <2>4, <3>1, <3>2
  <2> QED  BY <2>6
<1> QED  BY <1>1, <1>2, <1>3

\* Later dates have greater numbers.
LEMMA YearsGrow ==
  ASSUME NEW y \in Int, NEW z \in Int, y < z
  PROVE  YearStart(y + 1) <= YearStart(z)
<1> DEFINE k == z - (y + 1)
<1>1. k \in Nat /\ z - 1 = y + k
  OBVIOUS
<1>2. /\ (y + k) \div 4 >= y \div 4 /\ (y + k) \div 400 >= y \div 400
      /\ (y + k) \div 100 <= y \div 100 + k
  <2> HIDE DEF k
  <2> QED  BY <1>1
<1>3. /\ y \div 4 \in Int /\ y \div 100 \in Int /\ y \div 400 \in Int
      /\ (y + k) \div 4 \in Int /\ (y + k) \div 100 \in Int /\ (y + k) \div 400 \in Int
  OBVIOUS
<1>4. YearStart(z) = 365 * (y + k) + (y + k) \div 4 - (y + k) \div 100 + (y + k) \div 400 + 306
  BY <1>1 DEF YearStart
<1>5. YearStart(y + 1) = 365 * y + y \div 4 - y \div 100 + y \div 400 + 306
  <2>1. (y + 1) - 1 = y
    OBVIOUS
  <2> QED  BY <2>1 DEF YearStart
<1> HIDE DEF k
<1> QED  BY <1>1, <1>2, <1>3, <1>4, <1>5

\* The words of a well formed timestamp.
LEMMA Dated ==
  ASSUME NEW date, IsDate(date)
  PROVE  LET y == Year(date)
             m == Month(date)
             leap == IsLeapYear(y)
         IN /\ date \in Nat /\ y \in Nat /\ m \in 1..12 /\ leap \in BOOLEAN
            /\ DayOf(date) \in 1..DaysInMonth(m, leap) /\ DaysInMonth(m, leap) \in 28..31
            /\ date = y * 512 + m * 32 + DayOf(date)
            /\ DayNo(date) = YearStart(y) + Days(m, leap) + DayOf(date)
            /\ YearStart(y) \in Int /\ Days(m, leap) \in Nat /\ DayNo(date) \in Int
<1>1. date \in Nat /\ Month(date) \in 1..12
  BY DEF IsDate
<1>2. Year(date) \in Nat
  BY <1>1 DEF Year
<1>3. IsLeapYear(Year(date)) \in BOOLEAN
  BY Leap
<1> DEFINE y == Year(date)
           m == Month(date)
           leap == IsLeapYear(y)
<1>4. /\ DayOf(date) \in 1..DaysInMonth(m, leap) /\ DaysInMonth(m, leap) \in 28..31
      /\ Days(m, leap) \in Nat
  BY <1>1, <1>3, MonthTable DEF IsDate
<1>5. date = y * 512 + m * 32 + DayOf(date)
  BY <1>1, DateParts
<1>6. DayNo(date) = YearStart(y) + Days(m, leap) + DayOf(date) /\ YearStart(y) \in Int
  BY <1>1, <1>2, DayNoOfYear, NextYear
<1> HIDE DEF y, m, leap
<1>7. DayNo(date) \in Int
  BY <1>4, <1>6
<1> QED  BY <1>1, <1>2, <1>3, <1>4, <1>5, <1>6, <1>7 DEF y, m, leap

\* What is made of the fields of a day is a date.
LEMMA MadeDate ==
  ASSUME NEW z \in Nat, NEW n \in 1..12, NEW e \in 1..DaysInMonth(n, IsLeapYear(z))
  PROVE  /\ ToDate(z, n, e) \in Nat /\ Year(ToDate(z, n, e)) = z
         /\ Month(ToDate(z, n, e)) = n /\ DayOf(ToDate(z, n, e)) = e
         /\ IsDate(ToDate(z, n, e))
         /\ DayNo(ToDate(z, n, e)) = YearStart(z) + Days(n, IsLeapYear(z)) + e
<1>1. DaysInMonth(n, IsLeapYear(z)) \in 28..31
  BY Leap, MonthTable
<1>2. z \in Int /\ n \in 0..15 /\ e \in 0..31
  BY <1>1
<1>3. /\ ToDate(z, n, e) \in Int /\ Year(ToDate(z, n, e)) = z
      /\ Month(ToDate(z, n, e)) = n /\ DayOf(ToDate(z, n, e)) = e
  BY <1>2, DateFields
<1>4. ToDate(z, n, e) \in Nat
  BY <1>2 DEF ToDate
<1> QED  BY <1>3, <1>4, DayNoOfYear DEF IsDate

\* The day after, over the end of a month and of a year.
LEMMA NextDate ==
  ASSUME NEW date, IsDate(date)
  PROVE  /\ IsDate(NextDay(date)) /\ DayNo(NextDay(date)) = DayNo(date) + 1
         /\ NextDay(date) > date /\ NextDay(date) < date + 512
<1> DEFINE y == Year(date)
           m == Month(date)
           d == DayOf(date)
           leap == IsLeapYear(y)
<1>1. /\ date \in Nat /\ y \in Nat /\ m \in 1..12 /\ leap \in BOOLEAN
      /\ d \in 1..DaysInMonth(m, leap) /\ DaysInMonth(m, leap) \in 28..31
      /\ date = y * 512 + m * 32 + d
      /\ DayNo(date) = YearStart(y) + Days(m, leap) + d
      /\ YearStart(y) \in Int /\ Days(m, leap) \in Nat
  BY Dated
<1>2. ASSUME NEW z \in Nat, NEW n \in 1..12, NEW e \in 1..DaysInMonth(n, IsLeapYear(z))
      PROVE  /\ IsDate(ToDate(z, n, e))
             /\ DayNo(ToDate(z, n, e)) = YearStart(z) + Days(n, IsLeapYear(z)) + e
  BY MadeDate
<1>3. CASE d < DaysInMonth(m, leap)
  <2>1. NextDay(date) = ToDate(y, m, d + 1)
    BY <1>1, <1>3 DEF NextDay, ToDate
  <2>2. NextDay(date) = date + 1
    BY <1>3 DEF NextDay
  <2>3. d + 1 \in 1..DaysInMonth(m, leap)
    BY <1>1, <1>3
  <2> HIDE DEF y, m, d, leap
  <2> QED  BY <1>1, <1>2, <2>1, <2>2, <2>3 DEF leap
<1>4. CASE d = DaysInMonth(m, leap) /\ m < 12
  <2>1. date \div 32 = y * 16 + m
    BY <1>1 DEF y, m, d
  <2>2. NextDay(date) = (date \div 32 + 1) * 32 + 1
    <3>1. ~(d < DaysInMonth(m, leap))
      BY <1>1, <1>4
    <3> QED  BY <1>4, <3>1 DEF NextDay
  <2>3. NextDay(date) = ToDate(y, m + 1, 1)
    BY <1>1, <2>1, <2>2 DEF ToDate
  <2>4. /\ m + 1 \in 1..12 /\ 1 \in 1..DaysInMonth(m + 1, leap)
        /\ Days(m + 1, leap) = Days(m, leap) + DaysInMonth(m, leap)
    BY <1>1, <1>4, MonthTable
  <2>5. IsDate(ToDate(y, m + 1, 1)) /\ DayNo(ToDate(y, m + 1, 1)) = DayNo(date) + 1
    BY <1>1, <1>2, <1>4, <2>4
  <2> QED  BY <1>1, <1>4, <2>1, <2>2, <2>3, <2>5
<1>5. CASE d = DaysInMonth(m, leap) /\ m = 12
  <2>1. NextDay(date) = ToDate(y + 1, 1, 1)
    <3>1. ~(d < DaysInMonth(m, leap)) /\ ~(m < 12)
      BY <1>1, <1>5
    <3> QED  BY <3>1 DEF NextDay
  <2>2. /\ y + 1 \in Nat /\ 1 \in 1..12 /\ 1 \in 1..DaysInMonth(1, IsLeapYear(y + 1))
        /\ Days(1, IsLeapYear(y + 1)) = 0 /\ d = 31
        /\ Days(12, leap) = IF leap THEN 335 ELSE 334
    BY <1>1, <1>5, MonthTable, Leap
  <2>3. /\ IsDate(ToDate(y + 1, 1, 1))
        /\ DayNo(ToDate(y + 1, 1, 1)) = YearStart(y + 1) + 1
    BY <1>2, <2>2, NextYear
  <2>4. DayNo(ToDate(y + 1, 1, 1)) = DayNo(date) + 1
    BY <1>1, <1>5, <2>2, <2>3, NextYear
  <2> QED  BY <1>1, <1>5, <2>1, <2>2, <2>3, <2>4 DEF ToDate
<1> QED  BY <1>1, <1>3, <1>4, <1>5

\* The first day that a timestamp may be of has none before it.
LEMMA PrevDate ==
  ASSUME NEW date, IsDate(date), date # ToDate(0, 1, 1)
  PROVE  IsDate(PrevDay(date)) /\ DayNo(PrevDay(date)) = DayNo(date) - 1
<1> DEFINE y == Year(date)
           m == Month(date)
           d == DayOf(date)
           leap == IsLeapYear(y)
<1>1. /\ date \in Nat /\ y \in Nat /\ m \in 1..12 /\ leap \in BOOLEAN
      /\ d \in 1..DaysInMonth(m, leap) /\ DaysInMonth(m, leap) \in 28..31
      /\ date = y * 512 + m * 32 + d
      /\ DayNo(date) = YearStart(y) + Days(m, leap) + d
      /\ YearStart(y) \in Int /\ Days(m, leap) \in Nat
  BY Dated
<1>2. CASE d > 1
  <2>1. PrevDay(date) = ToDate(y, m, d - 1)
    BY <1>1, <1>2 DEF PrevDay, ToDate
  <2>2. d - 1 \in 1..DaysInMonth(m, leap)
    BY <1>1, <1>2
  <2>3. IsDate(ToDate(y, m, d - 1)) /\ DayNo(ToDate(y, m, d - 1)) = DayNo(date) - 1
    <3>1. /\ IsDate(ToDate(y, m, d - 1))
          /\ DayNo(ToDate(y, m, d - 1)) = YearStart(y) + Days(m, leap) + (d - 1)
      BY <1>1, <2>2, MadeDate
    <3> HIDE DEF y, m, d, leap
    <3> QED  BY <1>1, <3>1
  <2> QED  BY <2>1, <2>3
<1>3. CASE d = 1 /\ m > 1
  <2> DEFINE last == DaysInMonth(m - 1, leap)
  <2>1. /\ m - 1 \in 1..12 /\ last \in 28..31 /\ last \in 1..last
        /\ Days(m, leap) = Days(m - 1, leap) + last /\ Days(m - 1, leap) \in Nat
    <3>1. m - 1 \in 1..12 /\ m - 1 < 12 /\ (m - 1) + 1 = m
      BY <1>1, <1>3
    <3> QED  BY <1>1, <3>1, MonthTable
  <2>2. date \div 32 = y * 16 + m
    BY <1>1, <1>3
  <2>3. PrevDay(date) = (date \div 32 - 1) * 32 + last
    <3>1. ~(d > 1)
      BY <1>3
    <3> QED  BY <1>3, <3>1 DEF PrevDay
  <2>4. PrevDay(date) = ToDate(y, m - 1, last)
    <3> HIDE DEF y, m, last
    <3> QED  BY <1>1, <2>1, <2>2, <2>3 DEF ToDate
  <2>5. IsDate(ToDate(y, m - 1, last)) /\ DayNo(ToDate(y, m - 1, last)) = DayNo(date) - 1
    <3>1. /\ IsDate(ToDate(y, m - 1, last))
          /\ DayNo(ToDate(y, m - 1, last)) = YearStart(y) + Days(m - 1, leap) + last
      BY <1>1, <2>1, MadeDate
    <3> HIDE DEF y, m, last, leap
    <3> QED  BY <1>1, <1>3, <2>1, <3>1
  <2> QED  BY <2>4, <2>5
<1>4. CASE d = 1 /\ m = 1
  <2>1. PrevDay(date) = ToDate(y - 1, 12, 31)
    <3>1. ~(d > 1) /\ ~(m > 1)
      BY <1>4
    <3> QED  BY <3>1 DEF PrevDay
  <2>2. y - 1 \in Nat
    BY <1>1, <1>4 DEF ToDate
  <2>3. /\ DaysInMonth(12, IsLeapYear(y - 1)) = 31
        /\ Days(12, IsLeapYear(y - 1)) = IF IsLeapYear(y - 1) THEN 335 ELSE 334
        /\ Days(1, leap) = 0
    BY <1>1, Leap, MonthTable
  <2>4. /\ IsDate(ToDate(y - 1, 12, 31))
        /\ DayNo(ToDate(y - 1, 12, 31))
             = YearStart(y - 1) + Days(12, IsLeapYear(y - 1)) + 31
    BY <2>2, <2>3, MadeDate
  <2>5. /\ YearStart(y) = YearStart(y - 1) + IF IsLeapYear(y - 1) THEN 366 ELSE 365
        /\ YearStart(y - 1) \in Int
    <3>1. y - 1 \in Int /\ (y - 1) + 1 = y
      BY <1>1
    <3> HIDE DEF y
    <3> QED  BY <3>1, NextYear
  <2> HIDE DEF y, m, d, leap
  <2>6. DayNo(ToDate(y - 1, 12, 31)) = DayNo(date) - 1
    BY <1>1, <1>4, <2>3, <2>4, <2>5
  <2> QED  BY <2>1, <2>4, <2>6
<1> QED  BY <1>1, <1>2, <1>3, <1>4

\* The order of the words is the order of the days.
LEMMA LaterDate ==
  ASSUME NEW a, IsDate(a), NEW b, IsDate(b), a < b
  PROVE  DayNo(a) < DayNo(b)
<1> DEFINE ya == Year(a)
           ma == Month(a)
           yb == Year(b)
           mb == Month(b)
           la == IsLeapYear(ya)
           lb == IsLeapYear(yb)
<1>1. /\ ya \in Nat /\ ma \in 1..12 /\ la \in BOOLEAN
      /\ DayOf(a) \in 1..DaysInMonth(ma, la) /\ DaysInMonth(ma, la) \in 28..31
      /\ a = ya * 512 + ma * 32 + DayOf(a)
      /\ DayNo(a) = YearStart(ya) + Days(ma, la) + DayOf(a)
      /\ YearStart(ya) \in Int /\ Days(ma, la) \in Nat
  BY Dated
<1>2. /\ yb \in Nat /\ mb \in 1..12 /\ lb \in BOOLEAN
      /\ DayOf(b) \in 1..DaysInMonth(mb, lb) /\ DaysInMonth(mb, lb) \in 28..31
      /\ b = yb * 512 + mb * 32 + DayOf(b)
      /\ DayNo(b) = YearStart(yb) + Days(mb, lb) + DayOf(b)
      /\ YearStart(yb) \in Int /\ Days(mb, lb) \in Nat
  BY Dated
<1>3. ya < yb \/ (ya = yb /\ ma < mb) \/ (ya = yb /\ ma = mb /\ DayOf(a) < DayOf(b))
  <2> HIDE DEF ya, ma, yb, mb, la, lb
  <2>1. DayOf(a) \in 1..31 /\ DayOf(b) \in 1..31
    BY <1>1, <1>2
  <2> QED  BY <1>1, <1>2, <2>1
<1>4. CASE ya < yb
  <2>1. YearStart(ya + 1) <= YearStart(yb)
    BY <1>1, <1>2, <1>4, YearsGrow
  <2>2. YearStart(ya + 1) = YearStart(ya) + IF la THEN 366 ELSE 365
    BY <1>1, NextYear
  <2>3. Days(ma, la) + DayOf(a) <= IF la THEN 366 ELSE 365
    BY <1>1, YearLength
  <2> HIDE DEF ya, ma, yb, mb, la, lb
  <2> QED  BY <1>1, <1>2, <2>1, <2>2, <2>3
<1>5. CASE ya = yb /\ ma < mb
  <2>1. Days(ma, la) + DaysInMonth(ma, la) <= Days(mb, la)
    BY <1>1, <1>2, <1>5, MonthsGrow
  <2> HIDE DEF ya, ma, yb, mb
  <2> QED  BY <1>1, <1>2, <1>5, <2>1
<1>6. CASE ya = yb /\ ma = mb /\ DayOf(a) < DayOf(b)
  <2> HIDE DEF ya, ma, yb, mb
  <2> QED  BY <1>1, <1>2, <1>6
<1> QED  BY <1>3, <1>4, <1>5, <1>6

-----------------------------------------------------------------------------
(* The time of the day.                                                    *)

\* The words of a time of the day.
LEMMA Timed ==
  ASSUME NEW time, IsTime(time)
  PROVE  /\ Hour(time) \in Nat /\ Minute(time) \in Nat /\ Second(time) \in Nat
      /\ Hour(time) <= 23 /\ Minute(time) <= 59 /\ Second(time) <= 59
         /\ time = Hour(time) * 4096 + Minute(time) * 64 + Second(time)
         /\ SecondOfDay(time) \in Nat /\ SecondOfDay(time) < 86400 /\ MinuteOfDay(time) \in Nat
         /\ SecondOfDay(time) = MinuteOfDay(time) * 60 + Second(time)
<1>1. time \in Nat
  BY DEF IsTime
<1>2. Hour(time) >= 0
  BY <1>1 DEF Hour
<1>3. /\ Hour(time) \in Int /\ Minute(time) \in Nat /\ Second(time) \in Nat
      /\ Minute(time) <= 63 /\ Second(time) <= 63
      /\ time = Hour(time) * 4096 + Minute(time) * 64 + Second(time)
  <2>1. time \in Int
    BY <1>1
  <2> QED  BY <2>1, TimeParts
<1>4. Hour(time) <= 23 /\ Minute(time) <= 59 /\ Second(time) <= 59
  BY DEF IsTime
<1>5. Hour(time) \in Nat /\ Minute(time) \in Nat /\ Second(time) \in Nat
      /\ Hour(time) <= 23 /\ Minute(time) <= 59 /\ Second(time) <= 59
  BY <1>2, <1>3, <1>4
<1>6. /\ SecondOfDay(time) = Hour(time) * 3600 + Minute(time) * 60 + Second(time)
      /\ MinuteOfDay(time) = Hour(time) * 60 + Minute(time)
  BY DEF SecondOfDay, MinuteOfDay
<1>7. /\ SecondOfDay(time) \in Nat /\ SecondOfDay(time) < 86400 /\ MinuteOfDay(time) \in Nat
      /\ SecondOfDay(time) = MinuteOfDay(time) * 60 + Second(time)
  BY <1>5, <1>6
<1> QED  BY <1>3, <1>5, <1>7

\* What is made of the fields of a time is a time.
LEMMA MadeTime ==
  ASSUME NEW h \in Nat, h <= 23, NEW m \in Nat, m <= 59, NEW s \in Nat, s <= 59
  PROVE  /\ IsTime(ToTime(h, m, s))
         /\ Hour(ToTime(h, m, s)) = h /\ Minute(ToTime(h, m, s)) = m
         /\ Second(ToTime(h, m, s)) = s
         /\ SecondOfDay(ToTime(h, m, s)) = h * 3600 + m * 60 + s
<1>1. h \in Int /\ m <= 63 /\ s <= 63
  OBVIOUS
<1>2. /\ Hour(ToTime(h, m, s)) = h /\ Minute(ToTime(h, m, s)) = m
      /\ Second(ToTime(h, m, s)) = s
  BY <1>1, TimeFields
<1>3. ToTime(h, m, s) \in Nat
  BY DEF ToTime
<1> QED  BY <1>2, <1>3 DEF IsTime, SecondOfDay

\* A second of the day has one time, and a time one second.
LEMMA SecondFields ==
  ASSUME NEW h \in Nat, h <= 23, NEW m \in Nat, m <= 59, NEW s \in Nat, s <= 59
  PROVE  SecondOfDayToTime(h * 3600 + m * 60 + s) = ToTime(h, m, s)
<1> DEFINE n == h * 3600 + m * 60 + s
<1>1. n \in Int /\ n \div 3600 = h
  OBVIOUS
<1>2. n % 3600 = m * 60 + s
  OBVIOUS
<1>3. (m * 60 + s) \div 60 = m
  OBVIOUS
<1>4. n % 60 = s
  OBVIOUS
<1> HIDE DEF n
<1>5. SecondOfDayToTime(n) = ToTime(h, m, s)
  BY <1>1, <1>2, <1>3, <1>4 DEF SecondOfDayToTime
<1> QED  BY <1>5 DEF n

\* A time is told by its second.
LEMMA SecondTells ==
  ASSUME NEW time, IsTime(time)
  PROVE  SecondOfDayToTime(SecondOfDay(time)) = time
<1>1. /\ Hour(time) \in Nat /\ Minute(time) \in Nat /\ Second(time) \in Nat
      /\ Hour(time) <= 23 /\ Minute(time) <= 59 /\ Second(time) <= 59
      /\ ToTime(Hour(time), Minute(time), Second(time)) = time
  <2>1. /\ Hour(time) \in Nat /\ Minute(time) \in Nat /\ Second(time) \in Nat
      /\ Hour(time) <= 23 /\ Minute(time) <= 59 /\ Second(time) <= 59
        /\ time = Hour(time) * 4096 + Minute(time) * 64 + Second(time)
    BY Timed
  <2> QED  BY <2>1 DEF ToTime
<1>2. SecondOfDay(time) = Hour(time) * 3600 + Minute(time) * 60 + Second(time)
  BY DEF SecondOfDay
<1> QED  BY <1>1, <1>2, SecondFields

\* Every second of the day is the one of a time.
LEMMA SecondGiven ==
  ASSUME NEW n \in Nat, n < 86400
  PROVE  IsTime(SecondOfDayToTime(n)) /\ SecondOfDay(SecondOfDayToTime(n)) = n
<1> DEFINE h == n \div 3600
           m == (n % 3600) \div 60
           s == n % 60
<1>1. h \in Nat /\ m \in Nat /\ s \in Nat /\ h <= 23 /\ m <= 59 /\ s <= 59
  <2>1. n \div 3600 \in Nat /\ n \div 3600 <= 23
    OBVIOUS
  <2>2. n % 60 \in Nat /\ n % 60 <= 59
    OBVIOUS
  <2> DEFINE q == n % 3600
  <2>3. q \in Nat /\ q < 3600
    OBVIOUS
  <2> HIDE DEF q
  <2>4. q \div 60 \in Nat /\ q \div 60 <= 59
    BY <2>3
  <2> QED  BY <2>1, <2>2, <2>4 DEF q
<1>2. n = h * 3600 + m * 60 + s
  <2> DEFINE q == n % 3600
  <2>1. n = h * 3600 + q /\ q \in Nat /\ q < 3600 /\ h \in Int
    OBVIOUS
  <2>2. q = m * 60 + (q % 60) /\ m \in Int /\ q % 60 \in Nat /\ q % 60 <= 59
    BY <2>1
  <2>3. n = (h * 60 + m) * 60 + (q % 60)
    BY <2>1, <2>2
  <2> DEFINE k == h * 60 + m
             r == q % 60
  <2>4. k \in Int /\ r \in Nat /\ r <= 59 /\ n = k * 60 + r
    BY <2>1, <2>2, <2>3
  <2>5. n % 60 = r
    <3> HIDE DEF k, r
    <3>1. (k * 60 + r) % 60 = r
      BY <2>4
    <3> QED  BY <2>4, <3>1
  <2> QED  BY <2>4, <2>5
<1>3. SecondOfDayToTime(n) = ToTime(h, m, s)
  BY DEF SecondOfDayToTime
<1> HIDE DEF h, m, s
<1>4. IsTime(ToTime(h, m, s)) /\ SecondOfDay(ToTime(h, m, s)) = h * 3600 + m * 60 + s
  BY <1>1, MadeTime
<1> QED  BY <1>2, <1>3, <1>4

\* The decimal form of a time has its fields.
LEMMA MilFields ==
  ASSUME NEW h \in Nat, NEW m \in Nat, m <= 99, NEW s \in Nat, s <= 99
  PROVE  LET n == h * 10000 + m * 100 + s
         IN n \in Nat /\ n \div 10000 = h /\ (n % 10000) \div 100 = m /\ n % 100 = s
<1> DEFINE n == h * 10000 + m * 100 + s
<1>1. n \in Nat /\ n \div 10000 = h
  OBVIOUS
<1>2. n % 10000 = m * 100 + s
  OBVIOUS
<1>3. (m * 100 + s) \div 100 = m
  OBVIOUS
<1>4. n % 100 = s
  OBVIOUS
<1> HIDE DEF n
<1>5. n \in Nat /\ n \div 10000 = h /\ (n % 10000) \div 100 = m /\ n % 100 = s
  BY <1>1, <1>2, <1>3, <1>4
<1> QED  BY <1>5 DEF n

\* A number that is a time makes one.
LEMMA FromMil ==
  ASSUME NEW n, n \in Int, IsMilTime(n)
  PROVE  IsTime(FromMilTime(n))
<1> DEFINE h == n \div 10000
           m == (n % 10000) \div 100
           s == n % 100
<1>1. h \in Nat /\ m \in Nat /\ s \in Nat /\ h <= 23 /\ m <= 59 /\ s <= 59
  <2>1. n \in Nat /\ n % 100 <= 59 /\ (n % 10000) \div 100 <= 59 /\ n \div 10000 <= 23
    BY DEF IsMilTime
  <2>2. n \div 10000 \in Nat /\ n % 100 \in Nat /\ (n % 10000) \in Nat
    BY <2>1
  <2>3. (n % 10000) \div 100 \in Nat
    BY <2>2
  <2> QED  BY <2>1, <2>2, <2>3
<1>2. FromMilTime(n) = ToTime(h, m, s)
  BY DEF FromMilTime
<1> HIDE DEF h, m, s
<1> QED  BY <1>1, <1>2, MadeTime

-----------------------------------------------------------------------------
(* The moves of a timestamp and of the count.                              *)

\* The day and the second that a timestamp stands for.
Day(t) == DayNo(t.date)
Sec(t) == SecondOfDay(t.time)

\* What makes a timestamp.
LEMMA Stamped ==
  ASSUME NEW date, IsDate(date), NEW time, IsTime(time), NEW mks \in Nat, mks < mksInSec
  PROVE  /\ IsStamp(Stamp(date, time, mks))
         /\ Stamp(date, time, mks).date = date /\ Stamp(date, time, mks).time = time
         /\ Stamp(date, time, mks).mks = mks
<1>1. /\ Stamp(date, time, mks).date = date /\ Stamp(date, time, mks).time = time
      /\ Stamp(date, time, mks).mks = mks
  BY DEF Stamp
<1> QED  BY <1>1 DEF IsStamp

\* b begins the stretch of len seconds after the one of a.
Starts(a, b, len) ==
  LET s == (Sec(a) \div len + 1) * len
  IN IsStamp(b) /\ Day(b) = Day(a) + s \div 86400 /\ Sec(b) = s % 86400 /\ b.mks = 0

\* There are microseconds in a second.
LEMMA Microseconds == mksInSec \in Nat /\ 0 < mksInSec
  BY SMT DEF mksInSec

\* The day begins at midnight.
LEMMA MidnightIsTime == IsTime(0) /\ SecondOfDay(0) = 0 /\ ToTime(0, 0, 0) = 0
<1>1. ToTime(0, 0, 0) = 0
  BY DEF ToTime
<1>2. IsTime(ToTime(0, 0, 0)) /\ SecondOfDay(ToTime(0, 0, 0)) = 0
  BY MadeTime
<1> QED  BY <1>1, <1>2

\* nextDayStart begins the next day.
LEMMA DayMoves ==
  ASSUME NEW t, IsStamp(t)
  PROVE  /\ Starts(t, NextDayStart(t), 86400)
         /\ NextDayStart(t) = DayStart(NextDay(t.date))
<1>1. IsDate(NextDay(t.date)) /\ DayNo(NextDay(t.date)) = DayNo(t.date) + 1
  BY NextDate DEF IsStamp
<1>2. NextDayStart(t) = Stamp(NextDay(t.date), 0, 0)
  BY DEF NextDayStart, DayStart
<1>3. /\ IsStamp(NextDayStart(t)) /\ Day(NextDayStart(t)) = Day(t) + 1
      /\ Sec(NextDayStart(t)) = 0 /\ NextDayStart(t).mks = 0
  BY <1>1, <1>2, Stamped, MidnightIsTime, Microseconds DEF Day, Sec
<1>4. Sec(t) \in Nat /\ Sec(t) < 86400
  BY Timed DEF IsStamp, Sec
<1>5. Sec(t) \div 86400 = 0
  BY <1>4
<1> QED  BY <1>3, <1>5 DEF Starts, NextDayStart

\* nextHourStart begins the next hour, over midnight too.
LEMMA HourMoves ==
  ASSUME NEW t, IsStamp(t)
  PROVE  Starts(t, NextHourStart(t), 3600)
<1> DEFINE h == Hour(t.time)
           m == Minute(t.time)
           n == Second(t.time)
           b == NextHourStart(t)
<1>1. /\ h \in Nat /\ m \in Nat /\ n \in Nat /\ h <= 23 /\ m <= 59 /\ n <= 59
      /\ Sec(t) = h * 3600 + m * 60 + n
  BY Timed DEF IsStamp, Sec, SecondOfDay
<1>2. Sec(t) \div 3600 = h
  <2> HIDE DEF h, m, n
  <2> DEFINE r == m * 60 + n
  <2>1. r \in Nat /\ r < 3600 /\ Sec(t) = h * 3600 + r
    BY <1>1
  <2> HIDE DEF r
  <2> QED  BY <1>1, <2>1
<1>3. CASE h < 23
  <2>1. b = Stamp(t.date, ToTime(h + 1, 0, 0), 0)
    BY <1>3 DEF NextHourStart
  <2>2. IsTime(ToTime(h + 1, 0, 0)) /\ SecondOfDay(ToTime(h + 1, 0, 0)) = (h + 1) * 3600
    <3>1. h + 1 \in Nat /\ h + 1 <= 23
      BY <1>1, <1>3
    <3> HIDE DEF h
    <3> QED  BY <3>1, MadeTime
  <2>3. IsStamp(b) /\ Day(b) = Day(t) /\ Sec(b) = (h + 1) * 3600 /\ b.mks = 0
    <3>1. IsDate(t.date)
      BY DEF IsStamp
    <3> HIDE DEF b, h
    <3>2. IsStamp(b) /\ b.date = t.date /\ b.mks = 0 /\ b.time = ToTime(h + 1, 0, 0)
      BY <2>1, <2>2, <3>1, Stamped, Microseconds
    <3> QED  BY <2>2, <3>2 DEF Day, Sec
  <2>4. ((h + 1) * 3600) \div 86400 = 0 /\ ((h + 1) * 3600) % 86400 = (h + 1) * 3600
    <3> HIDE DEF h
    <3>1. (h + 1) * 3600 \in Nat /\ (h + 1) * 3600 < 86400
      BY <1>1, <1>3
    <3> QED  BY <3>1
  <2>5. Day(t) \in Int
    BY Dated DEF IsStamp, Day
  <2> HIDE DEF b
  <2> QED  BY <1>2, <2>3, <2>4, <2>5 DEF Starts, b
<1>4. CASE h = 23
  <2>1. b = NextDayStart(t)
    BY <1>4 DEF NextHourStart
  <2>2. (Sec(t) \div 3600 + 1) * 3600 = 86400
    BY <1>2, <1>4
  <2>3. (Sec(t) \div 86400 + 1) * 86400 = 86400
    <3>1. Sec(t) \in Nat /\ Sec(t) < 86400
      BY Timed DEF IsStamp, Sec
    <3>2. Sec(t) \div 86400 = 0
      BY <3>1
    <3> QED  BY <3>2
  <2>4. Starts(t, NextDayStart(t), 86400)
    BY DayMoves
  <2> QED  BY <2>1, <2>2, <2>3, <2>4 DEF Starts
<1> QED  BY <1>1, <1>3, <1>4

\* nextMinuteStart begins the next minute, over the hour and midnight too.
LEMMA MinuteMoves ==
  ASSUME NEW t, IsStamp(t)
  PROVE  Starts(t, NextMinuteStart(t), 60)
<1> DEFINE h == Hour(t.time)
           m == Minute(t.time)
           n == Second(t.time)
           b == NextMinuteStart(t)
<1>1. /\ h \in Nat /\ m \in Nat /\ n \in Nat /\ h <= 23 /\ m <= 59 /\ n <= 59
      /\ Sec(t) = h * 3600 + m * 60 + n
  BY Timed DEF IsStamp, Sec, SecondOfDay
<1>2. Sec(t) \div 60 = h * 60 + m
  <2> HIDE DEF h, m, n
  <2> DEFINE q == h * 60 + m
  <2>1. q \in Nat /\ Sec(t) = q * 60 + n
    BY <1>1
  <2> HIDE DEF q
  <2>2. Sec(t) \div 60 = q
    BY <1>1, <2>1
  <2> QED  BY <2>2 DEF q
<1>3. CASE m < 59
  <2>1. b = Stamp(t.date, ToTime(h, m + 1, 0), 0)
    BY <1>3 DEF NextMinuteStart
  <2>2. /\ IsTime(ToTime(h, m + 1, 0))
        /\ SecondOfDay(ToTime(h, m + 1, 0)) = (h * 60 + m + 1) * 60
    <3>1. m + 1 \in Nat /\ m + 1 <= 59
      BY <1>1, <1>3
    <3> HIDE DEF h, m
    <3>2. /\ IsTime(ToTime(h, m + 1, 0))
          /\ SecondOfDay(ToTime(h, m + 1, 0)) = h * 3600 + (m + 1) * 60 + 0
      BY <1>1, <3>1, MadeTime
    <3> QED  BY <1>1, <3>2
  <2>3. IsStamp(b) /\ Day(b) = Day(t) /\ Sec(b) = (h * 60 + m + 1) * 60 /\ b.mks = 0
    <3>1. IsDate(t.date)
      BY DEF IsStamp
    <3> HIDE DEF b, h, m
    <3>2. IsStamp(b) /\ b.date = t.date /\ b.mks = 0 /\ b.time = ToTime(h, m + 1, 0)
      BY <2>1, <2>2, <3>1, Stamped, Microseconds
    <3> QED  BY <2>2, <3>2 DEF Day, Sec
  <2> DEFINE s == (h * 60 + m + 1) * 60
  <2>4. s \div 86400 = 0 /\ s % 86400 = s
    <3> HIDE DEF h, m
    <3>1. s \in Nat /\ s < 86400
      BY <1>1, <1>3
    <3> HIDE DEF s
    <3> QED  BY <3>1
  <2>5. Day(t) \in Int
    BY Dated DEF IsStamp, Day
  <2>6. (Sec(t) \div 60 + 1) * 60 = s
    BY <1>2
  <2> HIDE DEF b, s
  <2>7. Starts(t, b, 60)
    BY <2>3, <2>4, <2>5, <2>6 DEF Starts, s
  <2> QED  BY <2>7 DEF b
<1>4. CASE m = 59
  <2>1. b = NextHourStart(t)
    BY <1>4 DEF NextMinuteStart
  <2>2. Starts(t, NextHourStart(t), 3600)
    BY HourMoves
  <2>3. Sec(t) \div 3600 = h
    <3> HIDE DEF h, m, n
    <3> DEFINE r == m * 60 + n
    <3>1. r \in Nat /\ r < 3600 /\ Sec(t) = h * 3600 + r
      BY <1>1
    <3> HIDE DEF r
    <3> QED  BY <1>1, <3>1
  <2>4. (Sec(t) \div 60 + 1) * 60 = (Sec(t) \div 3600 + 1) * 3600
    <3> HIDE DEF h, m, n
    <3> QED  BY <1>1, <1>2, <1>4, <2>3
  <2> QED  BY <2>1, <2>2, <2>4 DEF Starts
<1> QED  BY <1>1, <1>3, <1>4

\* next is the next microsecond, with all the carries.
LEMMA MomentMoves ==
  ASSUME NEW t, IsStamp(t)
  PROVE  \/ /\ t.mks < mksInSec - 1 /\ IsStamp(NextMoment(t))
            /\ Day(NextMoment(t)) = Day(t) /\ Sec(NextMoment(t)) = Sec(t)
            /\ NextMoment(t).mks = t.mks + 1
         \/ t.mks = mksInSec - 1 /\ Starts(t, NextMoment(t), 1)
<1> DEFINE b == NextMoment(t)
           n == Second(t.time)
<1>1. /\ t = Stamp(t.date, t.time, t.mks) /\ IsDate(t.date) /\ IsTime(t.time)
      /\ t.mks \in Nat /\ t.mks < mksInSec
  BY DEF IsStamp
<1>2. mksInSec \in Nat /\ 0 < mksInSec
  BY Microseconds
<1>3. CASE t.mks < mksInSec - 1
  <2>1. b = Stamp(t.date, t.time, t.mks + 1)
    BY <1>1, <1>3 DEF NextMoment, Stamp
  <2>2. t.mks + 1 \in Nat /\ t.mks + 1 < mksInSec
    BY <1>1, <1>2, <1>3
  <2> HIDE DEF b
  <2>3. IsStamp(b) /\ b.date = t.date /\ b.time = t.time /\ b.mks = t.mks + 1
    BY <1>1, <2>1, <2>2, Stamped
  <2>4. Day(b) = Day(t) /\ Sec(b) = Sec(t)
    BY <2>3 DEF Day, Sec
  <2> QED  BY <1>3, <2>3, <2>4 DEF b
<1>4. /\ Sec(t) \in Nat /\ Sec(t) < 86400 /\ n \in Nat /\ n <= 59
      /\ Sec(t) = MinuteOfDay(t.time) * 60 + n /\ MinuteOfDay(t.time) \in Nat
  BY <1>1, Timed DEF Sec
<1>5. CASE ~(t.mks < mksInSec - 1) /\ n < 59
  <2> DEFINE h == Hour(t.time)
             m == Minute(t.time)
  <2>1. b = Stamp(t.date, t.time + 1, 0)
    BY <1>5 DEF NextMoment
  <2>2. /\ h \in Nat /\ h <= 23 /\ m \in Nat /\ m <= 59
        /\ t.time = h * 4096 + m * 64 + n /\ Sec(t) = h * 3600 + m * 60 + n
    BY <1>1, Timed DEF Sec, SecondOfDay
  <2>3. t.time + 1 = ToTime(h, m, n + 1)
    BY <1>4, <2>2 DEF ToTime
  <2>4. /\ IsTime(ToTime(h, m, n + 1))
        /\ SecondOfDay(ToTime(h, m, n + 1)) = h * 3600 + m * 60 + (n + 1)
    <3>1. n + 1 \in Nat /\ n + 1 <= 59
      BY <1>4, <1>5
    <3> HIDE DEF h, m, n
    <3> QED  BY <2>2, <3>1, MadeTime
  <2> HIDE DEF b, h, m, n
  <2>5. IsStamp(b) /\ b.date = t.date /\ b.time = t.time + 1 /\ b.mks = 0
    BY <1>1, <1>2, <2>1, <2>3, <2>4, Stamped
  <2>6. Day(b) = Day(t) /\ Sec(b) = Sec(t) + 1 /\ Day(t) \in Int
    <3>1. DayNo(t.date) \in Int
      BY <1>1, Dated
    <3> QED  BY <1>4, <2>2, <2>3, <2>4, <2>5, <3>1 DEF Day, Sec
  <2>7. Sec(t) + 1 < 86400
    BY <1>4, <1>5, <2>2
  <2>8. /\ (Sec(t) \div 1 + 1) * 1 = Sec(t) + 1
        /\ (Sec(t) + 1) \div 86400 = 0 /\ (Sec(t) + 1) % 86400 = Sec(t) + 1
    BY <1>4, <2>7
  <2>9. Starts(t, b, 1)
    BY <2>5, <2>6, <2>8 DEF Starts
  <2> QED  BY <1>1, <1>2, <1>5, <2>9 DEF b
<1>6. CASE ~(t.mks < mksInSec - 1) /\ n = 59
  <2>1. b = NextMinuteStart(t)
    BY <1>6 DEF NextMoment
  <2>2. Starts(t, NextMinuteStart(t), 60)
    BY MinuteMoves
  <2>3. (Sec(t) \div 60 + 1) * 60 = (Sec(t) \div 1 + 1) * 1
    <3> DEFINE q == MinuteOfDay(t.time)
    <3> HIDE DEF q, n
    <3>1. Sec(t) = q * 60 + 59 /\ q \in Nat
      BY <1>4, <1>6 DEF q
    <3>2. Sec(t) \div 60 = q
      BY <3>1
    <3> QED  BY <1>4, <3>1, <3>2
  <2>4. Starts(t, b, 1)
    BY <2>1, <2>2, <2>3 DEF Starts
  <2> QED  BY <1>1, <1>2, <1>6, <2>4
<1> QED  BY <1>3, <1>4, <1>5, <1>6

-----------------------------------------------------------------------------
(* The machine.                                                            *)

\* The day before the first one is not visited.
LEMMA NoDayBefore == MilDate(PrevDay(ToDate(0, 1, 1))) \notin Dates
<1> DEFINE first == ToDate(0, 1, 1)
           last == ToDate(-1, 12, 31)
<1>1. Year(first) = 0 /\ Month(first) = 1 /\ DayOf(first) = 1
  <2>1. 1 \in 0..15 /\ 1 \in 0..31 /\ 0 \in Int
    OBVIOUS
  <2> QED  BY <2>1, DateFields
<1>2. PrevDay(first) = last
  <2>1. 0 - 1 = -1 /\ ~(1 > 1)
    OBVIOUS
  <2> HIDE DEF first
  <2> QED  BY <1>1, <2>1 DEF PrevDay, last
<1>3. Year(last) = -1 /\ Month(last) = 12 /\ DayOf(last) = 31
  <2>1. 12 \in 0..15 /\ 31 \in 0..31 /\ -1 \in Int
    OBVIOUS
  <2> QED  BY <2>1, DateFields
<1>4. MilDate(last) \notin Nat
  <2> HIDE DEF last
  <2>1. MilDate(last) = (-1) * 10000 + 12 * 100 + 31
    BY <1>3 DEF MilDate
  <2> QED  BY <2>1
<1> QED  BY <1>2, <1>4, DateAssumption DEF IsMilDate

\* A number that is a day makes a date.
LEMMA FromMilDay ==
  ASSUME NEW n, IsMilDate(n)
  PROVE  IsDate(FromMilDate(n))
<1> DEFINE y == n \div 10000
           m == (n % 10000) \div 100
           d == n % 100
<1>1. n \in Nat /\ m \in 1..12 /\ d \in 1..DaysInMonth(m, IsLeapYear(y))
  BY DEF IsMilDate
<1>2. y \in Nat
  BY <1>1
<1>3. FromMilDate(n) = ToDate(y, m, d)
  BY DEF FromMilDate
<1> HIDE DEF y, m, d
<1> QED  BY <1>1, <1>2, <1>3, MadeDate

\* The times that are set are times.
LEMMA TimesSet ==
  ASSUME NEW n \in Times \cup {0}
  PROVE  IsTime(FromMilTime(n))
<1>1. IsMilTime(0)
  BY DEF IsMilTime
<1> QED  BY <1>1, FromMil, TimeAssumption

\* The microseconds that are set are in the second.
LEMMA MksSet == \A u \in Mks : u \in Nat /\ u < mksInSec
  BY TimeAssumption

\* The beginning of a stretch of seconds is the one of the count.
LEMMA StartsCounts ==
  ASSUME NEW len, Starts(ts, ts', len)
  PROVE  Counter!NextStart(len)
<1>1. Counter!SecondsInDay = 86400
  BY DEF Counter!SecondsInDay
<1> QED  BY <1>1 DEF Starts, Day, Sec, Counter!NextStart

\* The count has as many microseconds in a second.
LEMMA Microsecond == Counter!MksInSecond = mksInSec
  BY DEF Counter!MksInSecond, mksInSec

\* The seconds of a time are in the day of the count.
LEMMA SecondIn ==
  ASSUME NEW time, IsTime(time)
  PROVE  SecondOfDay(time) \in 0..(Counter!SecondsInDay - 1)
<1>1. SecondOfDay(time) \in Nat /\ SecondOfDay(time) < 86400
  BY Timed
<1>2. Counter!SecondsInDay \in Nat /\ SecondOfDay(time) < Counter!SecondsInDay
  BY <1>1 DEF Counter!SecondsInDay
<1> QED  BY <1>1, <1>2

\* The microseconds are in the second of the count.
LEMMA MksIn ==
  ASSUME NEW u \in Nat, u < mksInSec
  PROVE  u \in 0..(Counter!MksInSecond - 1)
<1>1. Counter!MksInSecond = mksInSec /\ mksInSec \in Nat
  BY Microsecond, Microseconds
<1> QED  BY <1>1

\* Every action keeps the timestamp well formed and moves the count.
LEMMA Step ==
  ASSUME IsStamp(ts), Next
  PROVE  IsStamp(ts') /\ (Counter!Next \/ UNCHANGED ts)
<1>1. /\ ts = Stamp(ts.date, ts.time, ts.mks) /\ IsDate(ts.date) /\ IsTime(ts.time)
      /\ ts.mks \in Nat /\ ts.mks < mksInSec
  BY DEF IsStamp
<1>2. CASE Moment
  <2>1. ts' = NextMoment(ts)
    BY <1>2 DEF Moment, MoveTo
  <2>2. CASE /\ ts.mks < mksInSec - 1 /\ IsStamp(NextMoment(ts))
             /\ Day(NextMoment(ts)) = Day(ts) /\ Sec(NextMoment(ts)) = Sec(ts)
             /\ NextMoment(ts).mks = ts.mks + 1
    <3>1. Counter!NextMicrosecond
      BY <2>1, <2>2, Microsecond DEF Counter!NextMicrosecond, Day, Sec
    <3> QED  BY <2>1, <2>2, <3>1 DEF Counter!Next
  <2>3. CASE ts.mks = mksInSec - 1 /\ Starts(ts, NextMoment(ts), 1)
    <3>1. Counter!NextStart(1)
      BY <2>1, <2>3, StartsCounts
    <3>2. Counter!NextMicrosecond
      BY <2>3, <3>1, Microsecond DEF Counter!NextMicrosecond
    <3> QED  BY <2>1, <2>3, <3>2 DEF Starts, Counter!Next
  <2> QED  BY <2>2, <2>3, MomentMoves
<1>3. ASSUME NEW len \in {60, 3600, 86400}, Starts(ts, ts', len)
      PROVE  IsStamp(ts') /\ Counter!Next
  <2>1. Counter!NextStart(len)
    BY <1>3, StartsCounts
  <2>2. len \in {60, 60 * 60, Counter!SecondsInDay}
    BY DEF Counter!SecondsInDay
  <2>3. Counter!Next
    BY <2>1, <2>2 DEF Counter!Next
  <2> QED  BY <1>3, <2>3 DEF Starts
<1>4. CASE MinuteStart
  <2>1. ts' = NextMinuteStart(ts)
    BY <1>4 DEF MinuteStart, MoveTo
  <2> QED  BY <1>3, <2>1, MinuteMoves
<1>5. CASE HourStart
  <2>1. ts' = NextHourStart(ts)
    BY <1>5 DEF HourStart, MoveTo
  <2> QED  BY <1>3, <2>1, HourMoves
<1>6. ASSUME NEW time, IsTime(time), NEW u \in Nat, u < mksInSec,
             ts' = Stamp(ts.date, time, u)
      PROVE  IsStamp(ts') /\ Counter!Next
  <2>1. IsStamp(ts') /\ ts'.date = ts.date /\ ts'.time = time /\ ts'.mks = u
    BY <1>1, <1>6, Stamped
  <2>2. /\ SecondOfDay(time) \in 0..(Counter!SecondsInDay - 1)
        /\ u \in 0..(Counter!MksInSecond - 1)
    BY <1>6, SecondIn, MksIn
  <2>3. Counter!SetTime
    BY <2>1, <2>2 DEF Counter!SetTime
  <2> QED  BY <2>1, <2>3 DEF Counter!Next
<1>7. ASSUME NEW time, IsTime(time), ts' = Stamp(PrevDay(ts.date), time, 0),
             MilDate(ts'.date) \in Dates
      PROVE  IsStamp(ts') /\ Counter!PrevAt
  <2>1. ts'.date = PrevDay(ts.date) /\ ts'.time = time /\ ts'.mks = 0
    BY <1>7 DEF Stamp
  <2>2. ts.date # ToDate(0, 1, 1)
    BY <1>7, <2>1, NoDayBefore
  <2>3. IsDate(PrevDay(ts.date)) /\ DayNo(PrevDay(ts.date)) = DayNo(ts.date) - 1
    BY <1>1, <2>2, PrevDate
  <2>4. IsStamp(ts')
    BY <1>7, <2>3, Stamped, Microseconds
  <2>5. SecondOfDay(time) \in 0..(Counter!SecondsInDay - 1)
    BY <1>7, SecondIn
  <2>6. Counter!PrevAt
    BY <2>1, <2>3, <2>5 DEF Counter!PrevAt
  <2> QED  BY <2>4, <2>6
<1>8. CASE DayStarts
  <2>1. CASE MoveTo(NextDayStart(ts))
    <3>1. ts' = NextDayStart(ts)
      BY <2>1 DEF MoveTo
    <3> QED  BY <1>3, <3>1, DayMoves
  <2>2. CASE MoveTo(PrevDayStart(ts))
    <3>1. ts' = Stamp(PrevDay(ts.date), 0, 0) /\ MilDate(ts'.date) \in Dates
      BY <2>2 DEF MoveTo, Visited, PrevDayStart, DayStart
    <3>2. IsStamp(ts') /\ Counter!PrevAt
      BY <1>7, <3>1, MidnightIsTime
    <3> QED  BY <3>2 DEF Counter!Next
  <2> QED  BY <1>8, <2>1, <2>2 DEF DayStarts
<1>9. CASE SetTime
  <2>1. PICK n \in Times \cup {0}, u \in Mks : ts' = Stamp(ts.date, FromMilTime(n), u)
    BY <1>9 DEF SetTime, MoveTo
  <2> QED  BY <1>6, <2>1, TimesSet, MksSet
<1>10. CASE ScanTime
  <2>1. PICK n \in Numbers, u \in Mks : ts' = ReadTime(ts, <<n, u>>)
    BY <1>10 DEF ScanTime, MoveTo
  <2>2. CASE IsMilTime(n)
    <3>1. ts' = Stamp(ts.date, FromMilTime(n), u)
      BY <2>1, <2>2 DEF ReadTime
    <3>2. IsTime(FromMilTime(n)) /\ u \in Nat /\ u < mksInSec
      BY <2>2, FromMil, MksSet, TimeAssumption
    <3> QED  BY <1>6, <3>1, <3>2
  <2>3. CASE ~IsMilTime(n)
    <3>1. ts' = ts
      BY <2>1, <2>3 DEF ReadTime
    <3> QED  BY <3>1
  <2> QED  BY <2>2, <2>3
<1>11. CASE PrevDayAt
  <2>1. PICK n \in Times : /\ ts' = Stamp(PrevDay(ts.date), FromMilTime(n), 0)
                           /\ MilDate(ts'.date) \in Dates
    BY <1>11 DEF PrevDayAt, MoveTo, Visited
  <2>2. IsStamp(ts') /\ Counter!PrevAt
    BY <1>7, <2>1, TimesSet
  <2> QED  BY <2>2 DEF Counter!Next
<1> QED  BY <1>2, <1>4, <1>5, <1>8, <1>9, <1>10, <1>11 DEF Next

\* Where a timestamp may begin.
LEMMA Begin ==
  ASSUME Init
  PROVE  IsStamp(ts) /\ Counter!Init
<1>1. PICK d \in Dates, n \in Times, u \in Mks :
        ts = Stamp(FromMilDate(d), FromMilTime(n), u)
  BY DEF Init
<1>2. IsDate(FromMilDate(d)) /\ IsTime(FromMilTime(n)) /\ u \in Nat /\ u < mksInSec
  BY DateAssumption, FromMilDay, TimesSet, MksSet
<1>3. /\ IsStamp(ts) /\ ts.date = FromMilDate(d) /\ ts.time = FromMilTime(n)
      /\ ts.mks = u
  BY <1>1, <1>2, Stamped
<1>4. /\ DayNo(ts.date) \in Int /\ SecondOfDay(ts.time) \in 0..(Counter!SecondsInDay - 1)
      /\ ts.mks \in 0..(Counter!MksInSecond - 1)
  BY <1>2, <1>3, Dated, SecondIn, MksIn
<1> QED  BY <1>3, <1>4 DEF Counter!Init

\* A timestamp is always well formed: its date is one of the calendar, its time one of
\* the day and its microsecond one of the second (_dt_impl.h:163-205, 222-337).
THEOREM StampInvariant == Spec => []IsStamp(ts)
<1>1. Init => IsStamp(ts)
  BY Begin
<1>2. IsStamp(ts) /\ [Next]_ts => IsStamp(ts)'
  <2> SUFFICES ASSUME IsStamp(ts), [Next]_ts PROVE IsStamp(ts')
    BY DEF IsStamp
  <2>1. CASE Next
    BY <2>1, Step
  <2>2. CASE UNCHANGED ts
    BY <2>2
  <2> QED  BY <2>1, <2>2
<1> QED  BY <1>1, <1>2, PTL DEF Spec

\* The count that a timestamp stands for moves as a clock does, whatever carries,
\* months, leap years and backward steps there are on the way (_dt_impl.h:222-337).
THEOREM TimestampImplementsCount == Spec => ImplementsCount
<1>1. Init => Counter!Init
  BY Begin
<1>2. ASSUME IsStamp(ts), [Next]_ts
      PROVE  [Counter!Next]_<<DayNo(ts.date), SecondOfDay(ts.time), ts.mks>>
  <2>1. CASE Next
    BY <1>2, <2>1, Step
  <2>2. CASE UNCHANGED ts
    BY <2>2
  <2> QED  BY <1>2, <2>1, <2>2
<1> QED  BY <1>1, <1>2, StampInvariant, PTL DEF Spec, ImplementsCount, Counter!Spec

-----------------------------------------------------------------------------
(* The periods of the timeframes.                                          *)

\* The minutes up to a timestamp.
Minutes(t) == DayNo(t.date) * 1440 + MinuteOfDay(t.time)

\* From low to up is the period of t.
PeriodOf(tf, t, low, up) ==
  /\ ~Before(t, low) /\ Before(t, up) /\ Before(up, PlusYear(t))
  /\ Second(low.time) = 0 /\ low.mks = 0 /\ Second(up.time) = 0 /\ up.mks = 0
  /\ MinuteOfDay(low.time) % tf = 0
  /\ Minutes(up) = Minutes(low) + tf

\* What begins and ends at a minute, no later than the day does.
LEMMA Period ==
  ASSUME NEW t, IsStamp(t), NEW tf \in Nat, 0 < tf,
         NEW h \in Nat, h <= 23, NEW m \in Nat, m <= 59,
         (h * 60 + m) % tf = 0, h * 60 + m <= MinuteOfDay(t.time),
         MinuteOfDay(t.time) < h * 60 + m + tf,
         NEW up,
         \/ /\ h * 60 + m + tf = 1440
            /\ up = Stamp(NextDay(t.date), ToTime(0, 0, 0), 0)
         \/ \E k \in Nat, n \in Nat :
              /\ k <= 23 /\ n <= 59 /\ k * 60 + n = h * 60 + m + tf
              /\ up = Stamp(t.date, ToTime(k, n, 0), 0)
  PROVE  PeriodOf(tf, t, Stamp(t.date, ToTime(h, m, 0), 0), up)
<1> DEFINE low == Stamp(t.date, ToTime(h, m, 0), 0)
           ht == Hour(t.time)
           mt == Minute(t.time)
           st == Second(t.time)
           date == t.date
<1>1. /\ IsDate(date) /\ IsTime(t.time) /\ t.mks \in Nat /\ t.mks < mksInSec
      /\ t = Stamp(date, t.time, t.mks)
  BY DEF IsStamp
<1>2. /\ ht \in Nat /\ ht <= 23 /\ mt \in Nat /\ mt <= 59 /\ st \in Nat /\ st <= 59
      /\ t.time = ht * 4096 + mt * 64 + st /\ MinuteOfDay(t.time) = ht * 60 + mt
  BY <1>1, Timed DEF MinuteOfDay
<1>3. /\ IsDate(NextDay(date)) /\ DayNo(NextDay(date)) = DayNo(date) + 1
      /\ NextDay(date) > date /\ NextDay(date) < date + 512
      /\ date \in Nat /\ NextDay(date) \in Nat /\ DayNo(date) \in Int
  BY <1>1, NextDate, Dated
<1>4. PlusYear(t).date = date + 512
  BY <1>1 DEF PlusYear, Stamp
<1>5. ASSUME NEW k \in Nat, k <= 23, NEW n \in Nat, n <= 59
      PROVE  /\ ToTime(k, n, 0) = k * 4096 + n * 64
             /\ MinuteOfDay(ToTime(k, n, 0)) = k * 60 + n /\ Second(ToTime(k, n, 0)) = 0
  <2>1. ToTime(k, n, 0) = k * 4096 + n * 64
    BY DEF ToTime
  <2>2. /\ Hour(ToTime(k, n, 0)) = k /\ Minute(ToTime(k, n, 0)) = n
        /\ Second(ToTime(k, n, 0)) = 0
    BY <1>5, MadeTime
  <2> QED  BY <2>1, <2>2 DEF MinuteOfDay
<1>6. low.date = date /\ low.time = ToTime(h, m, 0) /\ low.mks = 0
  BY DEF Stamp
<1> HIDE DEF low, ht, mt, st, date
<1>7. /\ low.time = h * 4096 + m * 64 /\ MinuteOfDay(low.time) = h * 60 + m
      /\ Second(low.time) = 0
  BY <1>5, <1>6
<1>8. ~Before(t, low)
  <2>1. ~(t.time < low.time)
    BY <1>2, <1>7
  <2>2. ~(date < date) /\ ~(t.mks < 0)
    BY <1>1, <1>3
  <2> QED  BY <1>6, <2>1, <2>2 DEF Before, date
<1>9. CASE /\ h * 60 + m + tf = 1440
           /\ up = Stamp(NextDay(date), ToTime(0, 0, 0), 0)
  <2>1. up.date = NextDay(date) /\ up.time = ToTime(0, 0, 0) /\ up.mks = 0
    BY <1>9 DEF Stamp
  <2>2. MinuteOfDay(up.time) = 0 /\ Second(up.time) = 0
    BY <1>5, <2>1
  <2>3. Before(t, up) /\ Before(up, PlusYear(t))
    BY <1>3, <1>4, <2>1 DEF Before, date
  <2>4. Minutes(up) = Minutes(low) + tf
    BY <1>3, <1>6, <1>7, <1>9, <2>1, <2>2 DEF Minutes
  <2> QED  BY <1>6, <1>7, <1>8, <2>1, <2>2, <2>3, <2>4 DEF PeriodOf, low, date
<1>10. ASSUME NEW k \in Nat, NEW n \in Nat, k <= 23, n <= 59,
              k * 60 + n = h * 60 + m + tf, up = Stamp(date, ToTime(k, n, 0), 0)
       PROVE  PeriodOf(tf, t, low, up)
  <2>1. up.date = date /\ up.time = ToTime(k, n, 0) /\ up.mks = 0
    BY <1>10 DEF Stamp
  <2>2. /\ up.time = k * 4096 + n * 64 /\ MinuteOfDay(up.time) = k * 60 + n
        /\ Second(up.time) = 0
    BY <1>5, <1>10, <2>1
  <2>3. ht * 60 + mt < k * 60 + n
    BY <1>2, <1>10
  <2>4. ht * 4096 + mt * 64 + st < k * 4096 + n * 64
    BY <1>2, <1>10, <2>3
  <2>5. Before(t, up)
    BY <1>2, <2>1, <2>2, <2>4 DEF Before, date
  <2>6. Before(up, PlusYear(t))
    BY <1>3, <1>4, <2>1 DEF Before
  <2>7. Minutes(up) = Minutes(low) + tf
    BY <1>3, <1>6, <1>7, <1>10, <2>1, <2>2 DEF Minutes
  <2> QED  BY <1>6, <1>7, <1>8, <2>1, <2>2, <2>5, <2>6, <2>7 DEF PeriodOf, low, date
<1> QED  BY <1>9, <1>10 DEF low, date

\* The timeframes that divide the hour, and those of whole hours.
MinuteFrames == {1, 2, 3, 4, 5, 6, 10, 12, 15, 20, 30}
HourFrames == {60, 120, 180, 240, 360, 480, 1440}

\* What divides the hour or the day cuts it into whole parts.
LEMMA CutHour ==
  ASSUME NEW tf \in MinuteFrames,
         NEW h \in Nat, h <= 23, NEW m \in Nat, m <= 59
  PROVE  LET mm == m - (m % tf)
         IN /\ mm \in Nat /\ mm <= m /\ m < mm + tf /\ mm + tf <= 60
            /\ (h * 60 + mm) % tf = 0
  BY DEF MinuteFrames

\* The same of the hours of a day.
LEMMA CutDay ==
  ASSUME NEW tf \in HourFrames,
         NEW h \in Nat, h <= 23, NEW m \in Nat, m <= 59
  PROVE  LET k == tf \div 60
             hh == h - (h % k)
         IN /\ k \in Nat /\ tf = 60 * k /\ 0 < k
            /\ hh \in Nat /\ hh <= h /\ h < hh + k /\ hh + k <= 24
            /\ (hh * 60) % tf = 0
  BY DEF HourFrames

\* The periods of the timeframes under an hour.
LEMMA MinutePeriods ==
  ASSUME NEW t, IsStamp(t), NEW tf \in MinuteFrames
  PROVE  PeriodOf(tf, t, LowerBoundary(tf, t), UpperBoundary(tf, t))
<1> DEFINE h == Hour(t.time)
           m == Minute(t.time)
           mm == m - (m % tf)
           low == LowerBoundary(tf, t)
           up == UpperBoundary(tf, t)
           hour == IF mm + tf >= 60 THEN NextHourStart(low) ELSE low
<1>1. IsDate(t.date) /\ h \in Nat /\ h <= 23 /\ m \in Nat /\ m <= 59
      /\ MinuteOfDay(t.time) = h * 60 + m
  BY Timed DEF IsStamp, MinuteOfDay
<1>2. tf \in Nat /\ 0 < tf /\ tf < 60
  BY DEF MinuteFrames
<1>3. /\ mm \in Nat /\ mm <= m /\ m < mm + tf /\ mm + tf <= 60
      /\ (h * 60 + mm) % tf = 0
  BY <1>1, CutHour
<1>4. low = Stamp(t.date, ToTime(h, mm, 0), 0)
  BY <1>2 DEF LowerBoundary
<1> HIDE DEF h, m, mm, low
<1>5. Hour(low.time) = h /\ Minute(low.time) = mm /\ low.date = t.date
  <2>1. low.time = ToTime(h, mm, 0) /\ low.date = t.date
    BY <1>4 DEF Stamp
  <2>2. mm <= 59
    BY <1>1, <1>3
  <2> QED  BY <1>1, <1>3, <2>1, <2>2, MadeTime
<1>6. up = Stamp(hour.date, ToTime(Hour(hour.time), (mm + tf) % 60, 0), 0)
  BY <1>2, <1>5 DEF UpperBoundary, low
<1> HIDE DEF up
<1>7. \/ /\ h * 60 + mm + tf = 1440
         /\ up = Stamp(NextDay(t.date), ToTime(0, 0, 0), 0)
      \/ \E k \in Nat, n \in Nat :
           /\ k <= 23 /\ n <= 59 /\ k * 60 + n = h * 60 + mm + tf
           /\ up = Stamp(t.date, ToTime(k, n, 0), 0)
  <2>1. CASE mm + tf < 60
    <3>1. hour = low
      BY <1>2, <1>3, <2>1
    <3>2. (mm + tf) % 60 = mm + tf /\ mm + tf \in Nat /\ mm + tf <= 59
      BY <1>2, <1>3, <2>1
    <3>3. up = Stamp(t.date, ToTime(h, mm + tf, 0), 0)
      <4> HIDE DEF hour
      <4> QED  BY <1>5, <1>6, <3>1, <3>2
    <3>4. h * 60 + (mm + tf) = h * 60 + mm + tf
      BY <1>1, <1>2, <1>3
    <3> QED  BY <1>1, <3>2, <3>3, <3>4
  <2>2. CASE mm + tf = 60
    <3>1. hour = NextHourStart(low) /\ (mm + tf) % 60 = 0
      BY <2>2
    <3> HIDE DEF hour
    <3>2. CASE h < 23
      <4>1. NextHourStart(low) = Stamp(t.date, ToTime(h + 1, 0, 0), 0)
        BY <1>5, <3>2 DEF NextHourStart
      <4>2. h + 1 \in Nat /\ h + 1 <= 23 /\ (h + 1) * 60 + 0 = h * 60 + mm + tf
        BY <1>1, <1>2, <1>3, <2>2, <3>2
      <4>3. hour.date = t.date /\ hour.time = ToTime(h + 1, 0, 0)
        BY <3>1, <4>1 DEF Stamp
      <4>4. Hour(hour.time) = h + 1
        BY <4>2, <4>3, MadeTime
      <4>5. up = Stamp(t.date, ToTime(h + 1, 0, 0), 0)
        BY <1>6, <3>1, <4>3, <4>4
      <4> QED  BY <4>2, <4>5
    <3>3. CASE h = 23
      <4>1. NextHourStart(low) = Stamp(NextDay(t.date), 0, 0)
        BY <1>5, <3>3 DEF NextHourStart, NextDayStart, DayStart
      <4>2. hour.date = NextDay(t.date) /\ hour.time = 0
        BY <3>1, <4>1 DEF Stamp
      <4>3. Hour(0) = 0
        BY DEF Hour
      <4>4. up = Stamp(NextDay(t.date), ToTime(0, 0, 0), 0)
        BY <1>6, <3>1, <4>2, <4>3
      <4>5. h * 60 + mm + tf = 1440
        BY <1>2, <1>3, <2>2, <3>3
      <4> QED  BY <4>4, <4>5
    <3> QED  BY <1>1, <3>2, <3>3
  <2> QED  BY <1>2, <1>3, <2>1, <2>2
<1>8. mm <= 59 /\ h * 60 + mm <= MinuteOfDay(t.time) /\ MinuteOfDay(t.time) < h * 60 + mm + tf
  BY <1>1, <1>2, <1>3
<1>9. PeriodOf(tf, t, Stamp(t.date, ToTime(h, mm, 0), 0), up)
  BY <1>1, <1>2, <1>3, <1>7, <1>8, Period
<1> QED  BY <1>4, <1>9 DEF low, up

\* The periods of the timeframes of whole hours.
LEMMA HourPeriods ==
  ASSUME NEW t, IsStamp(t), NEW tf \in HourFrames
  PROVE  PeriodOf(tf, t, LowerBoundary(tf, t), UpperBoundary(tf, t))
<1> DEFINE h == Hour(t.time)
           m == Minute(t.time)
           k == tf \div 60
           hh == h - (h % k)
           low == LowerBoundary(tf, t)
           up == UpperBoundary(tf, t)
           date == IF hh + k >= 24 THEN NextDay(low.date) ELSE low.date
<1>1. IsDate(t.date) /\ h \in Nat /\ h <= 23 /\ m \in Nat /\ m <= 59
      /\ MinuteOfDay(t.time) = h * 60 + m
  BY Timed DEF IsStamp, MinuteOfDay
<1>2. tf \in Nat /\ 0 < tf /\ ~(tf < 60)
  BY DEF HourFrames
<1>3. /\ k \in Nat /\ tf = 60 * k /\ 0 < k
      /\ hh \in Nat /\ hh <= h /\ h < hh + k /\ hh + k <= 24
      /\ (hh * 60) % tf = 0
  BY <1>1, CutDay
<1>4. low = Stamp(t.date, ToTime(hh, 0, 0), 0)
  BY <1>2 DEF LowerBoundary
<1> HIDE DEF h, m, hh, low
<1>5. Hour(low.time) = hh /\ low.date = t.date
  <2>1. low.time = ToTime(hh, 0, 0) /\ low.date = t.date
    BY <1>4 DEF Stamp
  <2>2. hh <= 23
    BY <1>1, <1>3
  <2> QED  BY <1>3, <2>1, <2>2, MadeTime
<1>6. up = Stamp(date, ToTime((hh + k) % 24, 0, 0), 0)
  BY <1>2, <1>5 DEF UpperBoundary, low
<1> HIDE DEF up, k
<1>7. \/ /\ hh * 60 + 0 + tf = 1440
         /\ up = Stamp(NextDay(t.date), ToTime(0, 0, 0), 0)
      \/ \E i \in Nat, n \in Nat :
           /\ i <= 23 /\ n <= 59 /\ i * 60 + n = hh * 60 + 0 + tf
           /\ up = Stamp(t.date, ToTime(i, n, 0), 0)
  <2>1. CASE hh + k < 24
    <3>1. date = t.date
      BY <1>3, <1>5, <2>1
    <3>2. (hh + k) % 24 = hh + k /\ hh + k \in Nat /\ hh + k <= 23
      BY <1>3, <2>1
    <3>3. up = Stamp(t.date, ToTime(hh + k, 0, 0), 0)
      <4> HIDE DEF date
      <4> QED  BY <1>6, <3>1, <3>2
    <3>4. (hh + k) * 60 + 0 = hh * 60 + 0 + tf
      BY <1>3
    <3> QED  BY <3>2, <3>3, <3>4
  <2>2. CASE hh + k = 24
    <3>1. date = NextDay(t.date) /\ (hh + k) % 24 = 0
      BY <1>5, <2>2
    <3>2. up = Stamp(NextDay(t.date), ToTime(0, 0, 0), 0)
      <4> HIDE DEF date
      <4> QED  BY <1>6, <3>1
    <3>3. hh * 60 + 0 + tf = 1440
      BY <1>3, <2>2
    <3> QED  BY <3>2, <3>3
  <2> QED  BY <1>3, <2>1, <2>2
<1>8. /\ hh <= 23 /\ hh * 60 + 0 <= MinuteOfDay(t.time)
      /\ MinuteOfDay(t.time) < hh * 60 + 0 + tf /\ hh * 60 + 0 = hh * 60
  BY <1>1, <1>3
<1>9. PeriodOf(tf, t, Stamp(t.date, ToTime(hh, 0, 0), 0), up)
  <2> DEFINE z == 0
  <2>1. /\ z \in Nat /\ z <= 59 /\ (hh * 60 + z) % tf = 0 /\ hh \in Nat /\ hh <= 23
        /\ hh * 60 + z <= MinuteOfDay(t.time) /\ MinuteOfDay(t.time) < hh * 60 + z + tf
    BY <1>3, <1>8
  <2>2. \/ /\ hh * 60 + z + tf = 1440
           /\ up = Stamp(NextDay(t.date), ToTime(0, 0, 0), 0)
        \/ \E i \in Nat, n \in Nat :
             /\ i <= 23 /\ n <= 59 /\ i * 60 + n = hh * 60 + z + tf
             /\ up = Stamp(t.date, ToTime(i, n, 0), 0)
    BY <1>7
  <2> HIDE DEF z
  <2>3. PeriodOf(tf, t, Stamp(t.date, ToTime(hh, z, 0), 0), up)
    BY <1>2, <2>1, <2>2, Period
  <2> QED  BY <2>3 DEF z
<1> QED  BY <1>4, <1>9 DEF low, up

\* A supported timeframe, up to a day, cuts time without a gap: the period of a
\* timestamp contains it, begins at a whole number of timeframes in the day, has the
\* length of the timeframe and is over a year later (_dt_impl.h:358-440).
THEOREM TimestampPeriods == Spec => []PeriodsHold
<1>1. IsStamp(ts) => PeriodsHold
  <2> SUFFICES ASSUME IsStamp(ts), NEW tf \in SupportedTFMinutes
               PROVE  PeriodOf(tf, ts, LowerBoundary(tf, ts), UpperBoundary(tf, ts))
    BY DEF PeriodsHold, PeriodOf, Minutes
  <2>1. \/ tf \in MinuteFrames
        \/ tf \in HourFrames
    BY DEF SupportedTFMinutes, MinuteFrames, HourFrames
  <2> QED  BY <2>1, MinutePeriods, HourPeriods
<1> QED  BY <1>1, StampInvariant, PTL

-----------------------------------------------------------------------------
(* Differences and order.                                                  *)

\* The order of the words of two times is the order of their seconds.
LEMMA TimeOrder ==
  ASSUME NEW a, IsTime(a), NEW b, IsTime(b)
  PROVE  a < b <=> SecondOfDay(a) < SecondOfDay(b)
<1> DEFINE ha == Hour(a)
           ma == Minute(a)
           sa == Second(a)
           hb == Hour(b)
           mb == Minute(b)
           sb == Second(b)
<1>1. /\ ha \in Nat /\ ma \in Nat /\ sa \in Nat /\ ma <= 59 /\ sa <= 59
      /\ a = ha * 4096 + ma * 64 + sa /\ SecondOfDay(a) = ha * 3600 + ma * 60 + sa
  BY Timed DEF SecondOfDay
<1>2. /\ hb \in Nat /\ mb \in Nat /\ sb \in Nat /\ mb <= 59 /\ sb <= 59
      /\ b = hb * 4096 + mb * 64 + sb /\ SecondOfDay(b) = hb * 3600 + mb * 60 + sb
  BY Timed DEF SecondOfDay
<1> HIDE DEF ha, ma, sa, hb, mb, sb
<1>3. CASE ha < hb
  BY <1>1, <1>2, <1>3
<1>4. CASE hb < ha
  BY <1>1, <1>2, <1>4
<1>5. CASE ha = hb /\ ma < mb
  BY <1>1, <1>2, <1>5
<1>6. CASE ha = hb /\ mb < ma
  BY <1>1, <1>2, <1>6
<1>7. CASE ha = hb /\ ma = mb
  BY <1>1, <1>2, <1>7
<1> QED  BY <1>1, <1>2, <1>3, <1>4, <1>5, <1>6, <1>7

\* The seconds from b to a.
Between(a, b) == (Day(a) - Day(b)) * 86400 + Sec(a) - Sec(b)

\* The words of a timestamp.
LEMMA StampParts ==
  ASSUME NEW t, IsStamp(t)
  PROVE  /\ t.date \in Nat /\ t.time \in Nat /\ t.mks \in Nat
         /\ Day(t) \in Int /\ Sec(t) \in Nat /\ Sec(t) < 86400
<1>1. IsDate(t.date) /\ IsTime(t.time) /\ t.mks \in Nat
  BY DEF IsStamp
<1>2. t.time \in Nat
  BY <1>1 DEF IsTime
<1> QED  BY <1>1, <1>2, Dated, Timed DEF Day, Sec

\* The order of timestamps is the order of what lies between them.
LEMMA StampOrder ==
  ASSUME NEW a, IsStamp(a), NEW b, IsStamp(b)
  PROVE  Before(a, b) <=> Between(a, b) < 0 \/ (Between(a, b) = 0 /\ a.mks < b.mks)
<1>1. IsDate(a.date) /\ IsDate(b.date) /\ IsTime(a.time) /\ IsTime(b.time)
  BY DEF IsStamp
<1>2. /\ a.date \in Nat /\ b.date \in Nat /\ a.time \in Nat /\ b.time \in Nat
      /\ a.mks \in Nat /\ b.mks \in Nat
      /\ Day(a) \in Int /\ Day(b) \in Int /\ Sec(a) \in Nat /\ Sec(b) \in Nat
      /\ Sec(a) < 86400 /\ Sec(b) < 86400
  BY StampParts
<1>3. CASE a.date < b.date
  <2>1. Day(a) < Day(b)
    BY <1>1, <1>3, LaterDate DEF Day
  <2>2. Between(a, b) < 0
    BY <1>2, <2>1 DEF Between
  <2> QED  BY <1>3, <2>2 DEF Before
<1>4. CASE b.date < a.date
  <2>1. Day(b) < Day(a)
    BY <1>1, <1>4, LaterDate DEF Day
  <2>2. Between(a, b) > 0
    BY <1>2, <2>1 DEF Between
  <2>3. ~Before(a, b)
    BY <1>2, <1>4 DEF Before
  <2> QED  BY <1>2, <2>2, <2>3 DEF Between
<1>5. CASE a.date = b.date
  <2>1. Between(a, b) = Sec(a) - Sec(b)
    BY <1>2, <1>5 DEF Between, Day
  <2>2. /\ a.time < b.time <=> Sec(a) < Sec(b)
        /\ b.time < a.time <=> Sec(b) < Sec(a)
    BY <1>1, TimeOrder DEF Sec
  <2>3. Before(a, b) <=> a.time < b.time \/ (a.time = b.time /\ a.mks < b.mks)
    BY <1>2, <1>5 DEF Before
  <2> QED  BY <1>2, <2>1, <2>2, <2>3
<1> QED  BY <1>2, <1>3, <1>4, <1>5

\* The later of two timestamps is not before the earlier.
LEMMA Ordered ==
  ASSUME NEW a, IsStamp(a), NEW b, IsStamp(b)
  PROVE  ~Before(Latest(a, b), Earliest(a, b))
<1>1. /\ a.date \in Nat /\ b.date \in Nat /\ a.time \in Nat /\ b.time \in Nat
      /\ a.mks \in Nat /\ b.mks \in Nat
  BY StampParts
<1>2. ~Before(a, a) /\ ~Before(b, b)
  BY <1>1 DEF Before
<1>3. Before(a, b) => ~Before(b, a)
  BY <1>1 DEF Before
<1> QED  BY <1>2, <1>3 DEF Latest, Earliest

\* What uglyDiffMks counts within a year, against the count of days.
LEMMA YearTimes ==
  ASSUME NEW t, IsStamp(t)
  PROVE  /\ YearTime(t, IsLeapYear(Year(t.date)))
              = (Day(t) - YearStart(Year(t.date))) * 86400 + Sec(t)
         /\ Year(t.date) \in Nat /\ YearStart(Year(t.date)) \in Int
<1> DEFINE y == Year(t.date)
           part == Days(Month(t.date), IsLeapYear(y))
           d == DayOf(t.date)
<1>1. IsDate(t.date)
  BY DEF IsStamp
<1>2. /\ y \in Nat /\ part \in Nat /\ YearStart(y) \in Int
      /\ Day(t) = YearStart(y) + part + d /\ d \in Nat
  BY <1>1, Dated DEF Day
<1>3. YearTime(t, IsLeapYear(y)) = (part + d) * 86400 + Sec(t)
  BY DEF YearTime, Sec
<1> HIDE DEF y, part, d
<1>4. part + d = Day(t) - YearStart(y)
  BY <1>2
<1> QED  BY <1>2, <1>3, <1>4 DEF y

\* uglyDiffMks adds the length of the earlier of two neighbouring years.
LEMMA Difference ==
  ASSUME NEW a, IsStamp(a), NEW b, IsStamp(b)
  PROVE  UglyDiff(a, b) =
           IF Year(a.date) - Year(b.date) \in -1..1
           THEN <<Between(a, b), a.mks - b.mks>> ELSE <<>>
<1> DEFINE ya == Year(a.date)
           yb == Year(b.date)
           ta == YearTime(a, IsLeapYear(ya))
           tb == YearTime(b, IsLeapYear(yb))
           years == IF ya > yb THEN IF IsLeapYear(yb) THEN 366 ELSE 365
                    ELSE IF ya < yb THEN IF IsLeapYear(ya) THEN -366 ELSE -365 ELSE 0
<1>1. /\ ta = (Day(a) - YearStart(ya)) * 86400 + Sec(a)
      /\ tb = (Day(b) - YearStart(yb)) * 86400 + Sec(b)
      /\ ya \in Nat /\ yb \in Nat /\ YearStart(ya) \in Int /\ YearStart(yb) \in Int
  BY YearTimes
<1>2. UglyDiff(a, b) = IF ya - yb \notin -1..1 THEN <<>>
                       ELSE <<ta - tb + years * 86400, a.mks - b.mks>>
  BY DEF UglyDiff
<1>3. Day(a) \in Int /\ Day(b) \in Int /\ Sec(a) \in Nat /\ Sec(b) \in Nat
  BY StampParts
<1>4. ASSUME ya - yb \in -1..1
      PROVE  ta - tb + years * 86400 = Between(a, b)
  <2> HIDE DEF ya, yb, ta, tb
  <2>1. years = YearStart(ya) - YearStart(yb)
    <3>1. CASE ya = yb
      BY <1>1, <3>1
    <3>2. CASE ya = yb + 1
      <4>1. YearStart(yb + 1) = YearStart(yb) + IF IsLeapYear(yb) THEN 366 ELSE 365
        BY <1>1, NextYear
      <4> QED  BY <1>1, <3>2, <4>1
    <3>3. CASE yb = ya + 1
      <4>1. YearStart(ya + 1) = YearStart(ya) + IF IsLeapYear(ya) THEN 366 ELSE 365
        BY <1>1, NextYear
      <4> QED  BY <1>1, <3>3, <4>1
    <3> QED  BY <1>1, <1>4, <3>1, <3>2, <3>3
  <2> HIDE DEF years
  <2> QED  BY <1>1, <1>3, <2>1 DEF Between
<1> HIDE DEF ya, yb, ta, tb, years
<1>5. UglyDiff(a, b) = IF ya - yb \in -1..1 THEN <<Between(a, b), a.mks - b.mks>> ELSE <<>>
  BY <1>2, <1>4
<1> QED  BY <1>5 DEF ya, yb

\* The difference of two timestamps of neighbouring years is what lies between them, and
\* the order of their words is the order of time (_dt_impl.h:121-151).
THEOREM TimestampDifferences == Spec => []DifferencesHold
<1>1. IsStamp(ts) => DifferencesHold
  <2> SUFFICES ASSUME IsStamp(ts) PROVE DifferencesHold
    OBVIOUS
  <2> USE DEF DifferencesHold
  <2> TAKE d \in Marks, n \in Times
  <2> DEFINE mark == Stamp(FromMilDate(d), FromMilTime(n), 1)
  <2>1. IsDate(FromMilDate(d)) /\ IsTime(FromMilTime(n))
    BY DateAssumption, FromMilDay, TimesSet
  <2>2. IsStamp(mark) /\ mark.mks = 1
    <3>1. 1 \in Nat /\ 1 < mksInSec
      BY SMT DEF mksInSec
    <3> QED  BY <2>1, <3>1, Stamped
  <2> HIDE DEF mark
  <2>3. UglyDiff(ts, mark) = IF Year(ts.date) - Year(mark.date) \in -1..1
                             THEN <<Between(ts, mark), ts.mks - 1>> ELSE <<>>
    BY <2>2, Difference
  <2>4. /\ Before(ts, mark) <=>
             Between(ts, mark) < 0 \/ (Between(ts, mark) = 0 /\ ts.mks < 1)
        /\ ~Before(Latest(ts, mark), Earliest(ts, mark))
    BY <2>2, StampOrder, Ordered
  <2> QED  BY <2>3, <2>4 DEF mark, Between, Day, Sec
<1> QED  BY <1>1, StampInvariant, PTL

-----------------------------------------------------------------------------
(* The decimal forms.                                                      *)

\* A date reads back from its decimal form.
LEMMA DayReadsBack ==
  ASSUME NEW date, IsDate(date)
  PROVE  FromMilDate(MilDate(date)) = date
<1> DEFINE y == Year(date)
           m == Month(date)
           d == DayOf(date)
           n == y * 10000 + m * 100 + d
<1>1. /\ y \in Nat /\ m \in 1..12 /\ d \in Nat /\ d <= 31
      /\ date = y * 512 + m * 32 + d
  BY Dated
<1>2. m \in Nat /\ m <= 99 /\ d <= 99
  BY <1>1
<1>3. MilDate(date) = n
  BY DEF MilDate
<1> HIDE DEF y, m, d
<1>4. n \div 10000 = y /\ (n % 10000) \div 100 = m /\ n % 100 = d
  BY <1>1, <1>2, MilFields
<1> HIDE DEF n
<1> QED  BY <1>1, <1>3, <1>4 DEF FromMilDate, ToDate

\* The number of a date is its decimal form from 1900.
LEMMA DayNumber ==
  ASSUME NEW date, IsDate(date)
  PROVE  DateNum(date) = MilDate(date) - 19000000
<1> DEFINE y == Year(date)
           m == Month(date)
           d == DayOf(date)
<1>1. y \in Int /\ m \in Int /\ d \in Int
  BY Dated
<1>2. /\ DateNum(date) = (y - 1900) * 10000 + m * 100 + d
      /\ MilDate(date) = y * 10000 + m * 100 + d
  BY DEF DateNum, MilDate
<1> HIDE DEF y, m, d
<1> QED  BY <1>1, <1>2, SMT

\* A time reads back from its decimal form.
LEMMA TimeReadsBack ==
  ASSUME NEW time, IsTime(time)
  PROVE  FromMilTime(MilTime(time)) = time /\ IsMilTime(MilTime(time))
<1> DEFINE h == Hour(time)
           m == Minute(time)
           s == Second(time)
           n == h * 10000 + m * 100 + s
<1>1. /\ h \in Nat /\ m \in Nat /\ s \in Nat /\ h <= 23 /\ m <= 59 /\ s <= 59
      /\ time = h * 4096 + m * 64 + s
  BY Timed
<1>2. m <= 99 /\ s <= 99
  BY <1>1
<1>3. MilTime(time) = n
  BY DEF MilTime
<1> HIDE DEF h, m, s
<1>4. n \in Nat /\ n \div 10000 = h /\ (n % 10000) \div 100 = m /\ n % 100 = s
  BY <1>1, <1>2, MilFields
<1> HIDE DEF n
<1>5. FromMilTime(n) = time
  BY <1>1, <1>4 DEF FromMilTime, ToTime
<1>6. IsMilTime(n)
  BY <1>1, <1>4 DEF IsMilTime
<1> QED  BY <1>3, <1>5, <1>6

\* What is taken from a time and added again gives the time.
LEMMA TimesAddUp ==
  ASSUME NEW a, IsTime(a), NEW b, IsTime(b), SecondOfDay(b) <= SecondOfDay(a)
  PROVE  PlusTime(MinusTime(a, b), b) = a
<1> DEFINE n == SecondOfDay(a) - SecondOfDay(b)
<1>1. SecondOfDay(a) \in Nat /\ SecondOfDay(b) \in Nat /\ SecondOfDay(a) < 86400
  BY Timed
<1>2. n \in Nat /\ n < 86400 /\ n + SecondOfDay(b) = SecondOfDay(a)
  BY <1>1
<1>3. MinusTime(a, b) = SecondOfDayToTime(n)
  BY DEF MinusTime
<1> HIDE DEF n
<1>4. SecondOfDay(SecondOfDayToTime(n)) = n
  BY <1>2, SecondGiven
<1>5. PlusTime(MinusTime(a, b), b) = SecondOfDayToTime(SecondOfDay(a))
  BY <1>2, <1>3, <1>4 DEF PlusTime
<1> QED  BY <1>5, SecondTells

\* The numbers that are times.
LEMMA TakenForTime ==
  ASSUME NEW n \in Int
  PROVE  LET t == FromMilTime(n) IN
         IsMilTime(n) <=>
           /\ 0 <= SecondOfDay(t) /\ SecondOfDay(t) < 86400
           /\ SecondOfDayToTime(SecondOfDay(t)) = t /\ MilTime(t) = n
<1> DEFINE t == FromMilTime(n)
<1>1. ASSUME IsMilTime(n)
      PROVE  /\ 0 <= SecondOfDay(t) /\ SecondOfDay(t) < 86400
             /\ SecondOfDayToTime(SecondOfDay(t)) = t /\ MilTime(t) = n
  <2>1. IsTime(t)
    BY <1>1, FromMil
  <2>2. /\ SecondOfDay(t) \in Nat /\ SecondOfDay(t) < 86400
        /\ SecondOfDayToTime(SecondOfDay(t)) = t
    BY <2>1, Timed, SecondTells
  <2> DEFINE h == n \div 10000
             m == (n % 10000) \div 100
             s == n % 100
  <2>3. /\ n \in Nat /\ h \in Nat /\ h <= 23 /\ m \in Nat /\ m <= 59 /\ s \in Nat /\ s <= 59
    <3>1. n \in Nat /\ s <= 59 /\ m <= 59 /\ h <= 23
      BY <1>1 DEF IsMilTime
    <3>2. h \in Nat /\ s \in Nat /\ (n % 10000) \in Nat
      BY <3>1
    <3>3. m \in Nat
      BY <3>2
    <3> QED  BY <3>1, <3>2, <3>3
  <2>4. n = h * 10000 + m * 100 + s
    <3> DEFINE q == n \div 100
    <3>1. n = q * 100 + s /\ q \in Nat
      BY <2>3
    <3>2. n % 10000 = (q % 100) * 100 + s /\ n \div 10000 = q \div 100
      BY <2>3
    <3>3. q % 100 \in Nat /\ q = (q \div 100) * 100 + (q % 100)
      <4> HIDE DEF q
      <4> QED  BY <3>1
    <3>4. m = q % 100
      <4> DEFINE r == q % 100
      <4> HIDE DEF r, s
      <4>1. (r * 100 + s) \div 100 = r
        BY <2>3, <3>3 DEF r
      <4> QED  BY <3>2, <4>1 DEF r
    <3> HIDE DEF s, m, h
    <3>5. h = q \div 100
      BY <3>2 DEF h
    <3> HIDE DEF q
    <3> QED  BY <2>3, <3>1, <3>3, <3>4, <3>5
  <2>5. t = ToTime(h, m, s)
    BY DEF FromMilTime
  <2> HIDE DEF h, m, s, t
  <2>6. Hour(t) = h /\ Minute(t) = m /\ Second(t) = s
    BY <2>3, <2>5, MadeTime
  <2>7. MilTime(t) = n
    BY <2>4, <2>6 DEF MilTime
  <2> QED  BY <2>2, <2>7
<1>2. ASSUME 0 <= SecondOfDay(t), SecondOfDay(t) < 86400,
             SecondOfDayToTime(SecondOfDay(t)) = t, MilTime(t) = n
      PROVE  IsMilTime(n)
  <2> DEFINE k == SecondOfDay(t)
  <2>1. k \in Int
    <3>1. t \in Int
      BY DEF FromMilTime, ToTime
    <3> HIDE DEF t
    <3>2. Hour(t) \in Int /\ Minute(t) \in Int /\ Second(t) \in Int
      BY <3>1 DEF Hour, Minute, Second
    <3> QED  BY <3>2 DEF SecondOfDay
  <2>2. k \in Nat /\ k < 86400
    BY <1>2, <2>1
  <2> HIDE DEF k
  <2>3. IsTime(SecondOfDayToTime(k))
    BY <2>2, SecondGiven
  <2> HIDE DEF t
  <2>4. IsTime(t)
    BY <1>2, <2>3 DEF k
  <2> QED  BY <1>2, <2>4, TimeReadsBack
<1> HIDE DEF t
<1>3. IsMilTime(n) <=>
        /\ 0 <= SecondOfDay(t) /\ SecondOfDay(t) < 86400
        /\ SecondOfDayToTime(SecondOfDay(t)) = t /\ MilTime(t) = n
  BY <1>1, <1>2
<1> QED  BY <1>3 DEF t

\* The decimal forms of a date and a time read back as what they were made of, exactly
\* the numbers that are times are taken for one, and times add up within a day
\* (date.h:41-51, time.h:42-71, timestamp.h:264-278).
THEOREM TimestampReadsBack == Spec => []ReadsBack
<1>1. IsStamp(ts) => ReadsBack
  <2> SUFFICES ASSUME IsStamp(ts) PROVE ReadsBack
    OBVIOUS
  <2>1. /\ ts = Stamp(ts.date, ts.time, ts.mks) /\ IsDate(ts.date) /\ IsTime(ts.time)
    BY DEF IsStamp
  <2>2. FromMilDate(MilDate(ts.date)) = ts.date
    BY <2>1, DayReadsBack
  <2>3. DateNum(ts.date) = MilDate(ts.date) - 19000000
    BY <2>1, DayNumber, SMT
  <2>4. FromMilTime(MilTime(ts.time)) = ts.time /\ IsMilTime(MilTime(ts.time))
    BY <2>1, TimeReadsBack
  <2>5. \A n \in Times : ReadTime(Stamp(ts.date, FromMilTime(n), 0), TimeText(ts)) = ts
    <3> TAKE n \in Times
    <3>1. Stamp(ts.date, FromMilTime(n), 0).date = ts.date
      BY DEF Stamp
    <3>2. TimeText(ts)[1] = MilTime(ts.time) /\ TimeText(ts)[2] = ts.mks
      BY DEF TimeText
    <3> QED  BY <2>1, <2>4, <3>1, <3>2 DEF ReadTime
  <2>6. SecondOfDayToTime(SecondOfDay(ts.time)) = ts.time
    BY <2>1, SecondTells
  <2>7. \A n \in Times : LET t == FromMilTime(n) IN
          SecondOfDay(t) <= SecondOfDay(ts.time) => PlusTime(MinusTime(ts.time, t), t) = ts.time
    BY <2>1, TimesSet, TimesAddUp
  <2>8. \A n \in Numbers : LET t == FromMilTime(n) IN
          IsMilTime(n) <=>
            /\ 0 <= SecondOfDay(t) /\ SecondOfDay(t) < 86400
            /\ SecondOfDayToTime(SecondOfDay(t)) = t /\ MilTime(t) = n
    <3>1. \A n \in Numbers : n \in Int
      BY TimeAssumption
    <3> QED  BY <3>1, TakenForTime
  <2> QED  BY <2>2, <2>3, <2>4, <2>5, <2>6, <2>7, <2>8, SMT DEF ReadsBack
<1> QED  BY <1>1, StampInvariant, PTL

=============================================================================
