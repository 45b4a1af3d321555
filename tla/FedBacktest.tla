----------------------------- MODULE FedBacktest -----------------------------
(***************************************************************************)
(* backtester::run: a feeder drives the tickers, and each bar that opens,  *)
(* each tick and each notification may be the time for a scheduled         *)
(* callback of the strategy.  The trades of the strategy are kept as the   *)
(* set of tickers that have open ones; it may change whenever the strategy *)
(* is called.                                                              *)
(***************************************************************************)
EXTENDS Feeder, Schedule

CONSTANTS
  CallTimes,    \* the times of day at which a callback may be asked for
  Required      \* the tickers it may require, 0 for none

\* The files hold times in whole seconds, so that the close of a bar, a tick later, is of
\* the same day.

ASSUME ScheduleAssumption ==
  /\ CallTimes \subseteq 0..(Day - 1) /\ Required \subseteq 0..MaxTickers
  /\ \A ts \in Times : DateOf(ts + 1) = DateOf(ts)

VARIABLES
  setup,     \* how the strategy has set the backtester up
  opened,    \* the tickers with open trades
  cb,        \* the scheduled callbacks: none or one
  calls,     \* history: the calls made
  watched    \* history: the days on which the callback was considered with trades
             \* it is about, since such trades have been open without a break

vars == <<feedVars, setup, opened, cb, calls, watched>>

\* A call: the time it is told, that of the event which caused it, the time of day that
\* was asked for, and whether the callback had not been considered for these trades yet.
Call(told, ts, old) ==
  [told |-> told, now |-> ts, due |-> old.time, fresh |-> watched = {}]

RunInit ==
  /\ Init
  /\ setup \in {"good", "reused", "callbacks"}
  /\ opened = {} /\ calls = <<>> /\ watched = {}
  /\ cb \in {<<>>} \cup {<<NewCallback(r, c)>> : r \in Required, c \in CallTimes}
  /\ setup # "good" => cb = <<>>

\* run() refuses an object that was used, a setup without tickers and tickers on which
\* callbacks are registered already.  Then it registers its own and feeds.
Run ==
  /\ pc = "run"
  /\ IF setup # "good" \/ count = 0 THEN Throw ELSE Goto("start", 1)
  /\ UNCHANGED <<inputs, read, ahead, reading, lastSeen, best, fed, setup, opened, cb,
                 calls, watched>>

\* The trades a callback that requires ticker r is about.
About(r, trades) == IF r = 0 THEN trades ELSE trades \cap {r}

\* The strategy acts: it needs a best price to open a trade.
Strategy ==
  /\ opened' \in SUBSET {t \in Tickers : best'[t] # NoQuote}
  /\ UNCHANGED setup

Watch(days) ==
  watched' = IF cb = <<>> THEN {}
             ELSE IF About(cb[1].ticker, opened') = {} THEN {} ELSE days

\* _doScheduledTimedCallbacksIfOpenTrades for ticker t at time ts.
TimedCallbacks(t, ts) ==
  IF opened = {} \/ cb = <<>> THEN UNCHANGED <<cb, calls>> /\ Watch(watched)
  ELSE LET told == ToldTime(ts, lastSeen[t])
       IN /\ cb' = <<AfterEvent(cb[1], t, ts, lastSeen[t], opened)>>
          /\ calls' = IF IsCalled(cb[1], t, ts, opened)
                      THEN Append(calls, Call(told, ts, cb[1])) ELSE calls
          /\ Watch(IF Serves(cb[1], t) /\ About(cb[1].ticker, opened) # {}
                   THEN watched \cup {DateOf(ts)} ELSE watched)

\* A bar opens or a tick comes: _handleNewBarOpen runs before the ticker takes it.
OpenEvent ==
  /\ Open
  /\ IF pc' = "terminated" THEN UNCHANGED <<setup, opened, cb, calls, watched>>
     ELSE Strategy /\ TimedCallbacks(at, ahead[at])

AggregateEvent == Aggregate /\ Strategy /\ Watch(watched) /\ UNCHANGED <<cb, calls>>

\* _handleNotifyDateTime.
NotifyEvent == Notify /\ Strategy /\ TimedCallbacks(at, LastTime)

\* The strategy drops its registration (_deregister).
Deregister ==
  /\ cb # <<>> /\ pc = "taken" /\ cb' = <<>> /\ watched' = {}
  /\ UNCHANGED <<feedVars, setup, opened, calls>>

Feeding ==
  /\ OpenFile \/ Select \/ Replace \/ StartSingle \/ ReadSingle \/ StartMemory \/ FeedMemory
  /\ UNCHANGED <<setup, opened, cb, calls, watched>>

Terminated == Ended /\ UNCHANGED vars

Next ==
  \/ Run \/ Feeding \/ OpenEvent \/ AggregateEvent \/ NotifyEvent
  \/ Deregister \/ Terminated

Spec == RunInit /\ [][Next]_vars

-----------------------------------------------------------------------------
(* What a run of the backtester is told.                                   *)

Sorted(t) == \A i, j \in 1..Len(files[t]) : i < j =>
  IF t \in BarTickers THEN files[t][i] < files[t][j] ELSE files[t][i] <= files[t][j]

\* How many of the first n records that were fed are those of ticker t.
FedTo(t, n) == Cardinality({i \in 1..n : fed[i].t = t})
AllFedTo(t) == FedTo(t, Len(fed))

\* Whatever the files hold, the market takes the records in the order of their times
\* over all tickers, and each ticker its own from the first on, none twice and none
\* left out (multiFile.h:256-282, and the check of tickerServer).
FedInOrder ==
  /\ \A i, j \in 1..Len(fed) : i < j => fed[i].ts <= fed[j].ts
  /\ \A i \in 1..Len(fed) : LET e == fed[i] IN
       e.row = FedTo(e.t, i) /\ e.row <= Len(files[e.t]) /\ e.ts = files[e.t][e.row]

\* A run that ends well has fed every record of files that are whole and sorted; one
\* that does not has found what is wrong with them, or with the setup.
EndsAsTheFilesSay ==
  /\ pc = "done" => \A t \in Tickers :
       ending[t] = "eof" /\ Sorted(t) /\ AllFedTo(t) = Len(files[t])
  /\ pc = "terminated" => ~Sorted(at)
  /\ pc = "failed" =>
       \/ setup # "good" \/ count = 0 \/ (source = "single" /\ count > 1)
       \/ \E t \in Tickers : ending[t] # "eof" \/ files[t] = <<>>

\* Between two records the best price of every ticker that has data left is that of
\* its next record, never one of the past: "more realistic trade entry points should
\* we trade using different tickers" (multiFile.h:139-141).
BestIsNext ==
  source = "multi" /\ pc = "select" =>
    \A t \in Tickers : read[t] > AllFedTo(t) =>
      /\ best[t] = Quote(files[t][read[t]], read[t])
      /\ Sorted(t) => \A i \in 1..Len(fed) : fed[i].ts <= best[t].ts

-----------------------------------------------------------------------------
(* What the strategy is called for.                                        *)

Told(d) == \E i \in 1..Len(calls) : DateOf(calls[i].told) = d

\* With one ticker no day is missed: when a day that was considered with trades open is
\* over, and some trade has been open since, there has been a call that was told a
\* time of that day (backtester.h:467-475).
NoDayMissed ==
  count = 1 => \A d \in watched : d = Max(watched) \/ Told(d)

\* With one ticker a call of the day itself comes at or after its time, unless it is the
\* first event since its trades were opened: a day on which earlier trades were open is
\* then taken for one that was missed.  And no day has two calls that are told the same
\* date (backtester.h:471-479).
CallsKeepTheDay ==
  count = 1 => \A i \in 1..Len(calls) : LET c == calls[i] IN
    /\ DateOf(c.told) = DateOf(c.now) => TimeOf(c.now) >= c.due \/ c.fresh
    /\ \A j \in 1..(i - 1) : DateOf(c.told) = DateOf(calls[j].told) =>
                               DateOf(c.now) # DateOf(calls[j].now)
=============================================================================
