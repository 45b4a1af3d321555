------------------------------ MODULE DateTime ------------------------------
(***************************************************************************)
(* Dates and times (_date_time): a timestamp is one integer whose bit      *)
(* fields hold the year, month, day, hour, minute, second and microsecond. *)
(* Here it is kept as three words of that integer, the date, the time of   *)
(* day and the microsecond, compared in this order.                        *)
(*                                                                         *)
(* The state is one timestamp; the actions are the operations that make    *)
(* another of it.  Timeframe boundaries, differences and the decimal       *)
(* ("mil") forms are functions of it.                                      *)
(***************************************************************************)
EXTENDS Integers, FiniteSets

CONSTANTS
  Dates,   \* the dates that are visited, as yyyymmdd
  Times,   \* the times that are set, as hhmmss
  Mks,     \* the microseconds that are set or reached
  Marks,   \* the dates of the timestamps to compare with, as yyyymmdd
  Numbers  \* numbers that may be taken for a time

VARIABLE ts

-----------------------------------------------------------------------------
(* The calendar (_uglyTime.h)                                              *)

IsLeapYear(y) == (y % 4 = 0 /\ y % 100 # 0) \/ y % 400 = 0

\* The days of the year before each month.
DaysBefore == <<0, 31, 59, 90, 120, 151, 181, 212, 243, 273, 304, 334>>
Days(m, leap) == DaysBefore[m] + IF leap /\ m > 2 THEN 1 ELSE 0

mksInSec == 1000 * 1000

DaysInMonth(m, leap) == IF m > 11 THEN 31 ELSE Days(m + 1, leap) - Days(m, leap)

-----------------------------------------------------------------------------
(* The fields of the words                                                 *)

ToDate(y, m, d) == y * 512 + m * 32 + d
Year(date) == date \div 512
Month(date) == (date \div 32) % 16
DayOf(date) == date % 32

ToTime(h, mn, s) == h * 4096 + mn * 64 + s
Hour(time) == time \div 4096
Minute(time) == (time \div 64) % 64
Second(time) == time % 64

Stamp(date, time, mks) == [date |-> date, time |-> time, mks |-> mks]

\* The order of the integers.
Before(a, b) ==
  \/ a.date < b.date
  \/ a.date = b.date /\ a.time < b.time
  \/ a.date = b.date /\ a.time = b.time /\ a.mks < b.mks
Latest(a, b) == IF Before(b, a) THEN a ELSE b
Earliest(a, b) == IF Before(a, b) THEN a ELSE b

SecondOfDay(time) == Hour(time) * 3600 + Minute(time) * 60 + Second(time)
MinuteOfDay(time) == Hour(time) * 60 + Minute(time)
SecondOfDayToTime(sod) == ToTime(sod \div 3600, (sod % 3600) \div 60, sod % 60)

\* operator+ and operator- of mxTime; the result must stay in the day.
PlusTime(a, b) == SecondOfDayToTime(SecondOfDay(a) + SecondOfDay(b))
MinusTime(a, b) == SecondOfDayToTime(SecondOfDay(a) - SecondOfDay(b))

-----------------------------------------------------------------------------
(* The decimal forms                                                       *)

MilDate(date) == Year(date) * 10000 + Month(date) * 100 + DayOf(date)
FromMilDate(n) == ToDate(n \div 10000, (n % 10000) \div 100, n % 100)
DateNum(date) == (Year(date) - 1900) * 10000 + Month(date) * 100 + DayOf(date)
MilTime(time) == Hour(time) * 10000 + Minute(time) * 100 + Second(time)

FromMilTime_Short(n) == ToTime(n \div 10000, (n \div 100) % 60, n % 100)
FromMilTime(n) == ToTime(n \div 10000, (n % 10000) \div 100, n % 100)

\* untie_miltime_s: the fields of a number that may be no time.
IsMilTime(n) ==
  n >= 0 /\ n % 100 <= 59 /\ (n % 10000) \div 100 <= 59 /\ n \div 10000 <= 23

\* sprintf_time and sscanf_time: the text is the decimal time and the microsecond; a
\* text whose time is none leaves the timestamp alone.
TimeText(t) == <<MilTime(t.time), t.mks>>
ReadTime(t, text) ==
  IF IsMilTime(text[1]) THEN Stamp(t.date, FromMilTime(text[1]), text[2]) ELSE t

-----------------------------------------------------------------------------
(* What the constants may be                                               *)

\* yyyymmdd is a day of the calendar.
IsMilDate(n) ==
  LET month == (n % 10000) \div 100
  IN /\ n \in Nat /\ month \in 1..12
     /\ n % 100 \in 1..DaysInMonth(month, IsLeapYear(n \div 10000))

ASSUME DateAssumption == \A n \in Dates \cup Marks : IsMilDate(n)
ASSUME TimeAssumption ==
  /\ Numbers \subseteq Int /\ Times \subseteq Int /\ \A n \in Times : IsMilTime(n)
  /\ \A u \in Mks : u \in Nat /\ u < mksInSec

-----------------------------------------------------------------------------
(* Moves                                                                   *)

DayStart(date) == Stamp(date, 0, 0)

NextDay_NoLeapYears(date) ==
  IF DayOf(date) < DaysInMonth(Month(date), FALSE) THEN date + 1
  ELSE IF Month(date) < 12 THEN (date \div 32 + 1) * 32 + 1
  ELSE ToDate(Year(date) + 1, 1, 1)

\* _nextDay
NextDay(date) ==
  IF DayOf(date) < DaysInMonth(Month(date), IsLeapYear(Year(date))) THEN date + 1
  ELSE IF Month(date) < 12 THEN (date \div 32 + 1) * 32 + 1
  ELSE ToDate(Year(date) + 1, 1, 1)

\* _prevDay
PrevDay(date) ==
  IF DayOf(date) > 1 THEN date - 1
  ELSE IF Month(date) > 1
       THEN LET last == DaysInMonth(Month(date) - 1, IsLeapYear(Year(date)))
            IN (date \div 32 - 1) * 32 + last
  ELSE ToDate(Year(date) - 1, 12, 31)

NextDayStart(t) == DayStart(NextDay(t.date))
PrevDayStart(t) == DayStart(PrevDay(t.date))

NextHourStart(t) ==
  IF Hour(t.time) < 23 THEN Stamp(t.date, ToTime(Hour(t.time) + 1, 0, 0), 0)
  ELSE NextDayStart(t)

NextMinuteStart(t) ==
  IF Minute(t.time) < 59
  THEN Stamp(t.date, ToTime(Hour(t.time), Minute(t.time) + 1, 0), 0)
  ELSE NextHourStart(t)

NextMoment(t) ==
  IF t.mks < mksInSec - 1 THEN [t EXCEPT !.mks = @ + 1]
  ELSE IF Second(t.time) < 59 THEN Stamp(t.date, t.time + 1, 0)
  ELSE NextMinuteStart(t)

\* plusYear: the same fields a year later; a 29th of February stays one.
PlusYear(t) == [t EXCEPT !.date = @ + 512]

-----------------------------------------------------------------------------
(* Timeframes                                                              *)

SupportedTFMinutes ==
  {1, 2, 3, 4, 5, 6, 10, 12, 15, 20, 30, 60, 120, 180, 240, 360, 480, 1440}

\* TFLowerBoundary, and what TFBoundaries returns.
LowerBoundary(tf, t) ==
  LET h == Hour(t.time)
      m == Minute(t.time)
  IN Stamp(t.date, IF tf < 60 THEN ToTime(h, m - (m % tf), 0)
                   ELSE ToTime(h - (h % (tf \div 60)), 0, 0), 0)

UpperBoundary_SameDay(tf, t) ==
  LET low == LowerBoundary(tf, t)
      m == Minute(low.time) + tf
      h == Hour(low.time) + tf \div 60
  IN IF tf < 60
     THEN LET hour == IF m >= 60 THEN NextHourStart(low) ELSE low
          IN Stamp(hour.date, ToTime(Hour(hour.time), m % 60, 0), 0)
     ELSE Stamp(low.date, ToTime(h % 24, 0, 0), 0)

\* TFBoundaries: where the period of t ends.
UpperBoundary(tf, t) ==
  LET low == LowerBoundary(tf, t)
      m == Minute(low.time) + tf
      h == Hour(low.time) + tf \div 60
  IN IF tf < 60
     THEN LET hour == IF m >= 60 THEN NextHourStart(low) ELSE low
          IN Stamp(hour.date, ToTime(Hour(hour.time), m % 60, 0), 0)
     ELSE LET date == IF h >= 24 THEN NextDay(low.date) ELSE low.date
          IN Stamp(date, ToTime(h % 24, 0, 0), 0)

-----------------------------------------------------------------------------
(* Differences: pairs of seconds and microseconds                          *)

\* _yearTime, since the year began
YearTime(t, leap) ==
  (Days(Month(t.date), leap) + DayOf(t.date)) * 86400 + SecondOfDay(t.time)

UglyDiff_OwnYear(a, b) ==
  LET ya == Year(a.date)
      yb == Year(b.date)
      years == IF ya > yb THEN IF IsLeapYear(ya) THEN 366 ELSE 365
               ELSE IF ya < yb THEN IF IsLeapYear(ya) THEN -366 ELSE -365 ELSE 0
  IN IF ya - yb \notin -1..1 THEN <<>>
     ELSE <<YearTime(a, IsLeapYear(ya)) - YearTime(b, IsLeapYear(yb)) + years * 86400,
            a.mks - b.mks>>

\* uglyDiffMks: it throws when the years are not neighbours.
UglyDiff(a, b) ==
  LET ya == Year(a.date)
      yb == Year(b.date)
      years == IF ya > yb THEN IF IsLeapYear(yb) THEN 366 ELSE 365
               ELSE IF ya < yb THEN IF IsLeapYear(ya) THEN -366 ELSE -365 ELSE 0
  IN IF ya - yb \notin -1..1 THEN <<>>
     ELSE <<YearTime(a, IsLeapYear(ya)) - YearTime(b, IsLeapYear(yb)) + years * 86400,
            a.mks - b.mks>>

-----------------------------------------------------------------------------
(* The machine                                                             *)

\* The bound on what is visited.
Visited(t) == MilDate(t.date) \in Dates /\ t.mks \in Mks

Init == \E d \in Dates, n \in Times, u \in Mks :
          ts = Stamp(FromMilDate(d), FromMilTime(n), u)

MoveTo(t) == Visited(t) /\ ts' = t

Moment == MoveTo(NextMoment(ts))
MinuteStart == MoveTo(NextMinuteStart(ts))
HourStart == MoveTo(NextHourStart(ts))
DayStarts == MoveTo(NextDayStart(ts)) \/ MoveTo(PrevDayStart(ts))

\* set_time, set_StartOfDay, sscanf_time and prevDayAt
SetTime == \E n \in Times \cup {0}, u \in Mks :
  MoveTo(Stamp(ts.date, FromMilTime(n), u))
ScanTime == \E n \in Numbers, u \in Mks : MoveTo(ReadTime(ts, <<n, u>>))
PrevDayAt == \E n \in Times : MoveTo(Stamp(PrevDay(ts.date), FromMilTime(n), 0))

Next == Moment \/ MinuteStart \/ HourStart \/ DayStarts \/ SetTime \/ ScanTime \/ PrevDayAt

Spec == Init /\ [][Next]_ts

-----------------------------------------------------------------------------
(* What the packed form must be good for                                   *)

\* Days counted without a table, from a year that begins in March.
DayNo(date) ==
  LET m == (Month(date) + 9) % 12
      y == Year(date) - m \div 10
  IN 365 * y + y \div 4 - y \div 100 + y \div 400 + (m * 306 + 5) \div 10 + DayOf(date)

Counter == INSTANCE Count WITH
             day <- DayNo(ts.date), sec <- SecondOfDay(ts.time), mks <- ts.mks

\* Every move of a timestamp is the move of a clock that counts days, seconds and
\* microseconds: carries into the hour, the day, the month and the year, leap years and
\* backward steps included (_dt_impl.h:222-337).
ImplementsCount == Counter!Spec

\* For every supported timeframe the period of a timestamp contains it, begins at a
\* whole number of timeframes in the day, is one timeframe long and is over a year
\* later, which is what the last notification of a feeder relies on
\* (_dt_impl.h:406, memory.h:133).
PeriodsHold == \A tf \in SupportedTFMinutes :
  LET low == LowerBoundary(tf, ts)
      up == UpperBoundary(tf, ts)
      Minutes(t) == DayNo(t.date) * 1440 + MinuteOfDay(t.time)
  IN /\ ~Before(ts, low) /\ Before(ts, up) /\ Before(up, PlusYear(ts))
     /\ Second(low.time) = 0 /\ low.mks = 0 /\ Second(up.time) = 0 /\ up.mks = 0
     /\ MinuteOfDay(low.time) % tf = 0
     /\ Minutes(up) = Minutes(low) + tf

\* The difference of two timestamps of neighbouring years is what lies between them,
\* and the order of the integers is the order of time (_dt_impl.h:135-151).
DifferencesHold == \A d \in Marks, n \in Times :
  LET mark == Stamp(FromMilDate(d), FromMilTime(n), 1)
      s == (DayNo(ts.date) - DayNo(mark.date)) * 86400
           + SecondOfDay(ts.time) - SecondOfDay(mark.time)
  IN /\ UglyDiff(ts, mark) =
          IF Year(ts.date) - Year(mark.date) \in -1..1 THEN <<s, ts.mks - 1>> ELSE <<>>
     /\ Before(ts, mark) <=> (s < 0 \/ (s = 0 /\ ts.mks < 1))
     /\ ~Before(Latest(ts, mark), Earliest(ts, mark))

\* The decimal forms read back as what they were made of, only the numbers that are
\* times are taken for one, and times add up within a day (time.h:42-71, 139-148).
ReadsBack ==
  /\ FromMilDate(MilDate(ts.date)) = ts.date
  /\ DateNum(ts.date) = MilDate(ts.date) - 19000000
  /\ FromMilTime(MilTime(ts.time)) = ts.time
  /\ \A n \in Times : ReadTime(Stamp(ts.date, FromMilTime(n), 0), TimeText(ts)) = ts
  /\ SecondOfDayToTime(SecondOfDay(ts.time)) = ts.time
  /\ \A n \in Times : LET t == FromMilTime(n) IN
       SecondOfDay(t) <= SecondOfDay(ts.time) => PlusTime(MinusTime(ts.time, t), t) = ts.time
  /\ \A n \in Numbers : LET t == FromMilTime(n) IN
       IsMilTime(n) <=>
         /\ 0 <= SecondOfDay(t) /\ SecondOfDay(t) < 86400
         /\ SecondOfDayToTime(SecondOfDay(t)) = t /\ MilTime(t) = n
=============================================================================
