------------------------------ MODULE Schedule ------------------------------
(***************************************************************************)
(* The callbacks a strategy asks for with                                  *)
(* scheduleTimedCallbackIfOpenedTrades: once every trading day, at about a *)
(* given time, if there are open trades.  The backtester decides at every  *)
(* opening of a bar, before the ticker takes it, and at every notification *)
(* (_doScheduledTimedCallbacksIfOpenTrades).                               *)
(***************************************************************************)
EXTENDS Integers

CONSTANT Day   \* the length of a day

ASSUME DayAssumption == Day \in Nat \ {0}

NoDate == -1

\* The time 0 of a ticker that has no quote yet is the time -1 here.
DateOf(ts) == ts \div Day
TimeOf(ts) == ts % Day

\* openedTradesCBInfo: the required ticker (0 when any will do) and the time to call;
\* the last day on which the ticker traded, and the date of the last call.
NewCallback(ticker, time) ==
  [ticker |-> ticker, time |-> time, trading |-> NoDate, called |-> NoDate]

Serves(cb, t) == cb.ticker \in {0, t}

Due_TodayOnly(cb, t, ts) ==
  cb.time <= TimeOf(ts) /\ (cb.trading = DateOf(ts) \/ Serves(cb, t))

\* It is time to call, and the ticker is trading or was trading today; or the day on
\* which it traded last has passed without a call.
Due(cb, t, ts) ==
  \/ cb.time <= TimeOf(ts) /\ (cb.trading = DateOf(ts) \/ Serves(cb, t))
  \/ cb.trading # NoDate /\ cb.trading < DateOf(ts) /\ cb.called # cb.trading

IsCalled(cb, t, ts, opened) ==
  /\ cb.called # DateOf(ts)
  /\ Due(cb, t, ts)
  /\ cb.ticker = 0 \/ cb.ticker \in opened

\* On the first data of a day the callback is told that it is still the time of the
\* last quote of the ticker.
ToldTime(ts, last) == IF DateOf(last) # DateOf(ts) THEN last ELSE ts

AfterEvent_NotMarked(cb, t, ts, last, opened) ==
  IF cb.called = DateOf(ts) THEN cb
  ELSE [cb EXCEPT !.trading = IF Serves(cb, t) THEN DateOf(ts) ELSE @]

\* The callback after an event of ticker t at ts; `last` is the time of its last quote.
AfterEvent(cb, t, ts, last, opened) ==
  IF cb.called = DateOf(ts) THEN cb
  ELSE [cb EXCEPT
         !.called = IF IsCalled(cb, t, ts, opened) THEN DateOf(ToldTime(ts, last)) ELSE @,
         !.trading = IF Serves(cb, t) THEN DateOf(ts) ELSE @]
=============================================================================
