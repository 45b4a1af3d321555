------------------------------- MODULE Count --------------------------------
(***************************************************************************)
(* What a timestamp stands for: a count of days, of seconds in the day and *)
(* of microseconds in the second.  The moves of a timestamp are moves of   *)
(* the count; none of them knows of months.                                *)
(***************************************************************************)
EXTENDS Integers

VARIABLES day, sec, mks

SecondsInDay == 24 * 60 * 60
MksInSecond == 1000 * 1000

\* The beginning of the next stretch of `len` seconds of the day.
NextStart(len) ==
  LET s == (sec \div len + 1) * len
  IN /\ day' = day + s \div SecondsInDay /\ sec' = s % SecondsInDay
     /\ mks' = 0

NextMicrosecond ==
  \/ mks < MksInSecond - 1 /\ mks' = mks + 1 /\ UNCHANGED <<day, sec>>
  \/ mks = MksInSecond - 1 /\ NextStart(1)

PrevStart == day' = day - 1 /\ sec' = 0 /\ mks' = 0

SetTime ==
  /\ sec' \in 0..(SecondsInDay - 1) /\ mks' \in 0..(MksInSecond - 1)
  /\ UNCHANGED day

PrevAt == day' = day - 1 /\ sec' \in 0..(SecondsInDay - 1) /\ mks' = 0

Init == day \in Int /\ sec \in 0..(SecondsInDay - 1) /\ mks \in 0..(MksInSecond - 1)

Next ==
  \/ NextMicrosecond \/ \E len \in {60, 60 * 60, SecondsInDay} : NextStart(len)
  \/ PrevStart \/ PrevAt \/ SetTime

Spec == Init /\ [][Next]_<<day, sec, mks>>
=============================================================================
