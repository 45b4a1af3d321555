----------------------------- MODULE Timeframe ------------------------------
(***************************************************************************)
(* One timeframe of a ticker (timeseries::Timeframe over timeframeStor and *)
(* the converter tfConverter::dailyhm): incoming data, ticks or finer      *)
(* bars, is grouped into bars that span a period, the last bars are kept,  *)
(* newest first.  The operators say what each call does to the value of a  *)
(* timeframe; Ticker.tla drives several of them.                           *)
(*                                                                         *)
(* A datum is a bar [ts, o, h, l, c, v]: a tick has one price and a volume,*)
(* a bar that opens has one price and no volume yet.  Times count from 0   *)
(* and a day is Day long; a timeframe is named by the length of its period.*)
(***************************************************************************)
EXTENDS Integers, Sequences, FiniteSetsExt

CONSTANTS
  Day,        \* the length of a day, a multiple of every period
  History,    \* how many bars are kept
  Filtered,   \* the timeframes that have a time filter
  From, Till  \* the filter: the times of the day that are let through

ASSUME DayAssumption == Day \in Nat \ {0} /\ History \in Nat \ {0}
ASSUME FilterAssumption == {From, Till} \subseteq 0..Day

EmptyBar == [ts |-> 0, o |-> 0, h |-> 0, l |-> 0, c |-> 0, v |-> 0]

\* upper = 0: the period boundary is not initialized.
NewTimeframe ==
  [ closed |-> TRUE, hasData |-> FALSE,   \* the flags of the converter
    bar |-> EmptyBar, upper |-> 0,        \* its last bar and period boundary
    store |-> <<>>, total |-> 0,
    curBar |-> FALSE,                     \* m_pCurBar is set
    reject |-> FALSE ]                    \* m_lastTimeFilterReject

ShouldReject(p, ts) ==
  p \in Filtered /\ (ts % Day < From \/ ts % Day >= Till)

LowerBound(p, ts) == ts - ((ts % Day) % p)
UpperBound(p, ts) == LowerBound(p, ts) + p

BelongsToNewBar_Late(f, ts) == f.upper = 0 \/ f.upper < ts
BelongsToNewBar(f, ts) == f.upper = 0 \/ f.upper <= ts

\* _checkTS: the time may not be before the last bar, or not in its start.
Recent(f, ts, allowSame) ==
  f.store # <<>> =>
    IF allowSame THEN f.store[1].ts <= ts ELSE f.store[1].ts < ts

\* shouldCloseCurBar: the bar is over; closing it needs data in it.
Due(f, ts) == ~f.closed /\ BelongsToNewBar(f, ts)
DoClose_KeepsOpen(f) == [f EXCEPT !.hasData = FALSE]
DoClose(f) == [f EXCEPT !.closed = TRUE, !.hasData = FALSE]

\* storeBar: the newest bar goes first, the oldest is dropped.
StoreBar(f, bar) ==
  [f EXCEPT !.store = SubSeq(<<bar>> \o @, 1, Min({History, Len(@) + 1})),
            !.total = @ + 1]

\* isReallyNewBarOpen of a datum of a new period, and its bar stored; a tick
\* brings data at once.
OpenBar(p, f, d) ==
  LET bar == [d EXCEPT !.ts = LowerBound(p, d.ts)]
  IN StoreBar([f EXCEPT !.bar = bar, !.upper = UpperBound(p, d.ts),
                        !.closed = FALSE, !.hasData = d.v > 0,
                        !.curBar = TRUE],
              bar)

\* tsohlcv::aggregate
Merged(bar, d) ==
  [bar EXCEPT !.h = IF d.h > @ THEN d.h ELSE @,
              !.l = IF d.l < @ THEN d.l ELSE @,
              !.c = d.c, !.v = @ + d.v]

\* aggregate verifies that the bar is open and that the datum is not past it.
CanAggregate(f, d) == ~f.closed /\ ~BelongsToNewBar(f, d.ts)

\* The converter's bar and the newest stored bar follow the datum.
Aggregate_StoreLags(f, d) ==
  [f EXCEPT !.bar = Merged(f.bar, d), !.hasData = TRUE]
Aggregate(f, d) ==
  [f EXCEPT !.bar = Merged(f.bar, d), !.hasData = TRUE,
            !.store = [@ EXCEPT ![1] = Merged(f.bar, d)]]
=============================================================================
