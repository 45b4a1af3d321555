------------------------------- MODULE Ticker -------------------------------
(***************************************************************************)
(* A ticker and its timeframes (tickerServer over Timeframe): every event  *)
(* of the market passes all timeframes in three phases, so that all bars   *)
(* that are over are closed before any timeframe takes the new data, and   *)
(* every timeframe has the data before any bar is announced.  Within a     *)
(* phase the order of the timeframes is undefined (forEachTF folds a map). *)
(*                                                                         *)
(* The feed is chosen at the start: ticks, or bars of the base period that *)
(* are opened and aggregated; for backtesting, where data from the past    *)
(* terminates the program, or live, where it is ignored with a log entry.  *)
(***************************************************************************)
EXTENDS Timeframe, SequencesExt

CONSTANTS
  Periods,     \* the timeframes
  Base,        \* the period of the bars that are fed
  MaxTime,     \* bound on the times of the market
  MaxPrice,    \* bound on its prices
  MaxData,     \* bound on the number of data that are taken
  Feeds,       \* what may be fed: a subset of {"tick", "bar"}
  StaleKinds   \* the kinds of events that may come from the past

ASSUME PeriodAssumption ==
  /\ Periods \subseteq Nat \ {0} /\ Base \in Periods
  /\ \A p \in Periods : Day % p = 0
ASSUME BoundAssumption == {MaxTime, MaxPrice, MaxData} \subseteq Nat
ASSUME FeedAssumption ==
  /\ Feeds \subseteq {"tick", "bar"} /\ Feeds # {}
  /\ StaleKinds \subseteq {"tick", "open", "bar", "notify"}

VARIABLES
  feed,         \* "tick" or "bar"
  backtesting,  \* the template parameter isBacktesting
  lastSeen,     \* the time of m_lastSeenQuote, -1 before the first
  tf,           \* the timeframes
  call,         \* the event in progress: its kind, datum, phase and the
                \* timeframes that have still to pass the phase
  fault,        \* why the process has terminated, or "none"
  taken,        \* the data the ticker has taken so far
  heard,        \* what each timeframe has announced: openings and closings
  pending,      \* the bar that has been opened and not been aggregated yet
  clock         \* the latest time the market has told

vars == <<feed, backtesting, lastSeen, tf, call, fault, taken, heard, pending,
          clock>>

Times == 0..MaxTime
Prices == 1..MaxPrice

Datum(ts, o, h, l, c, v) == [ts |-> ts, o |-> o, h |-> h, l |-> l, c |-> c, v |-> v]
Idle == [kind |-> "none", d |-> EmptyBar, phase |-> "idle", todo |-> {}]
NoBar == <<>>

Init ==
  /\ feed \in Feeds /\ backtesting \in BOOLEAN
  /\ lastSeen = -1 /\ clock = -1
  /\ tf = [p \in Periods |-> NewTimeframe]
  /\ call = Idle /\ fault = "none"
  /\ taken = <<>> /\ heard = [p \in Periods |-> <<>>] /\ pending = NoBar

Fail(why) ==
  fault' = why /\ UNCHANGED <<feed, backtesting, lastSeen, tf, call, taken, heard,
                              pending, clock>>

In(phase) == fault = "none" /\ call.phase = phase

-----------------------------------------------------------------------------
(* The events of the market, as tickerServer sees them first.              *)

\* A bar that opens must be later than the last quote, other data not earlier.
Stale(kind, ts) == IF kind = "open" THEN lastSeen >= ts ELSE lastSeen > ts

Event(kind, d, phase) ==
  [kind |-> kind, d |-> d, phase |-> phase, todo |-> Periods]

\* Stale data does not reach the main function; _post runs all the same.
Begin(kind, d) ==
  \/ /\ Stale(kind, d.ts) /\ backtesting
     /\ fault' = "fromThePast" /\ call' = Event(kind, d, "idle")
     /\ UNCHANGED <<lastSeen, tf, taken, heard, pending, clock>>
  \/ /\ Stale(kind, d.ts) /\ ~backtesting
     /\ call' = IF kind \in {"tick", "open"} THEN Event(kind, d, "post") ELSE Idle
     /\ UNCHANGED <<lastSeen, tf, fault, taken, heard, pending, clock>>
  \/ /\ ~Stale(kind, d.ts)
     /\ call' = Event(kind, d, IF kind = "bar" THEN "main" ELSE "pre")
     /\ lastSeen' = IF kind = "notify" THEN lastSeen
                    ELSE IF kind = "bar" THEN d.ts + 1 ELSE d.ts
     /\ taken' = IF kind = "notify" THEN taken ELSE Append(taken, d)
     /\ pending' = IF kind = "open" THEN <<d>> ELSE IF kind = "bar" THEN NoBar ELSE pending
     /\ clock' = IF d.ts > clock THEN d.ts ELSE clock
     /\ UNCHANGED <<tf, fault, heard>>

MayCome(kind, ts) ==
  /\ In("idle")
  /\ Stale(kind, ts) => kind \in StaleKinds
  /\ ~Stale(kind, ts) /\ kind # "notify" => Len(taken) < MaxData

NewTick(ts, q) ==
  /\ feed = "tick" /\ MayCome("tick", ts)
  /\ Begin("tick", Datum(ts, q, q, q, q, 1))
  /\ UNCHANGED <<feed, backtesting>>

\* A new bar is opened when the one before has been aggregated.
NewBarOpen(ts, q) ==
  /\ feed = "bar" /\ ts % Base = 0 /\ MayCome("open", ts)
  /\ pending = NoBar \/ Stale("open", ts)
  /\ Begin("open", Datum(ts, q, q, q, q, 0))
  /\ UNCHANGED <<feed, backtesting>>

NewBarAggregate(d) ==
  /\ feed = "bar" /\ MayCome("bar", d.ts)
  /\ \/ pending # NoBar /\ d.ts = pending[1].ts /\ d.o = pending[1].o
     \/ Stale("bar", d.ts)
  /\ Begin("bar", d)
  /\ UNCHANGED <<feed, backtesting>>

\* The time may be told at any time; late data may follow.
NotifyDateTime(ts) ==
  /\ MayCome("notify", ts)
  /\ Begin("notify", Datum(ts, 0, 0, 0, 0, 0))
  /\ UNCHANGED <<feed, backtesting>>

-----------------------------------------------------------------------------
(* The phases.                                                             *)

Pass(p, f) ==
  /\ call' = [call EXCEPT !.todo = @ \ {p}]
  /\ tf' = [tf EXCEPT ![p] = f]
  /\ UNCHANGED <<feed, backtesting, lastSeen, fault, taken, pending, clock>>

Announce(p, what, bar) == heard' = [heard EXCEPT ![p] = Append(@, <<what, bar>>)]

\* _newTick_pre, _newBarOpen_pre and _notifyDateTime of one timeframe: a bar that
\* is over is closed.  The time filter is asked except by a notification.
ClosePhase(p) ==
  /\ In("pre") /\ p \in call.todo
  /\ LET ts == call.d.ts
         f == IF call.kind = "notify" THEN tf[p]
              ELSE [tf[p] EXCEPT !.reject = ShouldReject(p, ts)]
         filtered == call.kind # "notify" /\ f.reject
         recent == Recent(f, ts, call.kind = "tick")
     IN \/ filtered /\ Pass(p, f) /\ UNCHANGED heard
        \/ ~filtered /\ ~recent /\ Fail("notRecent")
        \/ ~filtered /\ recent /\ ~Due(f, ts) /\ Pass(p, f) /\ UNCHANGED heard
        \/ ~filtered /\ recent /\ Due(f, ts) /\ ~f.hasData /\ Fail("noData")
        \/ /\ ~filtered /\ recent /\ Due(f, ts) /\ f.hasData
           /\ Pass(p, DoClose(f)) /\ Announce(p, "close", f.bar)

\* _newTick, _newBarOpen and _newBarAggregate of one timeframe: a new period
\* opens a bar, other data is merged into the bar; a bar that only opens inside
\* a period brings nothing yet.
DataPhase(p) ==
  /\ In("main") /\ p \in call.todo /\ UNCHANGED heard
  /\ LET f == tf[p]
         opens == call.kind # "bar" /\ BelongsToNewBar(f, call.d.ts)
         merges == call.kind = "bar" \/ (call.kind = "tick" /\ ~opens)
     IN \/ f.reject /\ Pass(p, f)
        \/ ~f.reject /\ opens /\ Pass(p, OpenBar(p, f, call.d))
        \/ ~f.reject /\ ~opens /\ ~merges /\ Pass(p, [f EXCEPT !.curBar = FALSE])
        \/ /\ ~f.reject /\ merges /\ CanAggregate(f, call.d)
           /\ Pass(p, [Aggregate(f, call.d) EXCEPT !.curBar = call.kind = "bar"])
        \/ ~f.reject /\ merges /\ ~CanAggregate(f, call.d) /\ Fail("notOpen")

\* _newBarOpen_post of one timeframe.
Announced_Again(f) == f
Announced(f) == [f EXCEPT !.curBar = FALSE]

AnnouncePhase(p) ==
  /\ In("post") /\ p \in call.todo
  /\ LET f == tf[p]
     IN \/ (f.reject \/ ~f.curBar) /\ Pass(p, f) /\ UNCHANGED heard
        \/ /\ ~f.reject /\ f.curBar
           /\ Pass(p, Announced(f)) /\ Announce(p, "open", f.bar)

PhaseAfter_PostFirst(phase, kind) ==
  IF phase = "pre" THEN IF kind = "notify" THEN "idle" ELSE "post"
  ELSE IF phase = "post" /\ kind # "bar" THEN "main" ELSE "idle"
PhaseAfter(phase, kind) ==
  IF phase = "pre" /\ kind # "notify" THEN "main"
  ELSE IF phase = "main" /\ kind # "bar" THEN "post"
  ELSE "idle"

\* All timeframes have passed the phase.
NextPhase ==
  /\ fault = "none" /\ call.phase # "idle" /\ call.todo = {}
  /\ LET phase == PhaseAfter(call.phase, call.kind)
     IN call' = IF phase = "idle" THEN Idle ELSE Event(call.kind, call.d, phase)
  /\ UNCHANGED <<feed, backtesting, lastSeen, tf, fault, taken, heard, pending,
                 clock>>

-----------------------------------------------------------------------------
Bars ==
  { d \in [ts: Times, o: Prices, h: Prices, l: Prices, c: Prices, v: {1}] :
      /\ d.ts % Base = 0
      /\ d.l <= d.o /\ d.l <= d.c /\ d.o <= d.h /\ d.c <= d.h }

\* The market says no more, or the process is gone.
Terminated == (fault # "none" \/ call.phase = "idle") /\ UNCHANGED vars

Next ==
  \/ \E ts \in Times, q \in Prices : NewTick(ts, q) \/ NewBarOpen(ts, q)
  \/ \E d \in Bars : NewBarAggregate(d)
  \/ \E ts \in Times : NotifyDateTime(ts)
  \/ \E p \in Periods : ClosePhase(p) \/ DataPhase(p) \/ AnnouncePhase(p)
  \/ NextPhase
  \/ Terminated

Spec == Init /\ [][Next]_vars
-----------------------------------------------------------------------------
(* The reference: the data of each period, put together at once.           *)

Taken(p, data) == {i \in DOMAIN data : ~ShouldReject(p, data[i].ts)}
Starts(p, data) == {LowerBound(p, data[i].ts) : i \in Taken(p, data)}
Group(p, data, start) == {i \in Taken(p, data) : LowerBound(p, data[i].ts) = start}

\* Prices count when they are traded, and when they open the group.
Counted(data, group) == {i \in group : data[i].v > 0 \/ i = Min(group)}

GroupBar(p, data, start) ==
  LET group == Group(p, data, start)
      counted == Counted(data, group)
  IN Datum(start, data[Min(group)].o,
           Max({data[i].h : i \in counted}), Min({data[i].l : i \in counted}),
           data[Max(counted)].c,
           FoldLeft(+, 0, [i \in DOMAIN data |-> IF i \in counted THEN data[i].v ELSE 0]))

\* The timeframe shows the bars that the data make up, newest first, as many of them
\* as it keeps: behind i - 1 later ones, the i-th.
Shows(p, data) ==
  LET store == tf[p].store
      starts == Starts(p, data)
  IN /\ tf[p].total = Cardinality(starts)
     /\ Len(store) = Min({History, Cardinality(starts)})
     /\ \A i \in DOMAIN store :
          /\ store[i].ts \in starts /\ store[i] = GroupBar(p, data, store[i].ts)
          /\ Cardinality({s \in starts : s > store[i].ts}) = i - 1

-----------------------------------------------------------------------------

\* Between the events every timeframe shows the bars that the data make up,
\* however they were cut into calls, filtered and interrupted by notifications:
\* each datum is in one bar of its period, and bars do not overlap.
BarsAreGroups ==
  In("idle") => \A p \in Periods : Shows(p, taken)

\* "current bar must already be the same as pBtc": the bar the converter works
\* on, which closings and openings are announced with, is the newest bar stored.
StoredIsCurrent ==
  \A p \in Periods : tf[p].store # <<>> => tf[p].store[1] = tf[p].bar

\* A timeframe announces the opening and then the closing of one bar at a time,
\* later bars later, and the closing with the price the opening announced.
OpenThenClose ==
  \A p \in Periods : \A i \in DOMAIN heard[p] :
    LET what == heard[p][i][1]
        bar == heard[p][i][2]
    IN IF i % 2 = 1
       THEN what = "open" /\ (i > 1 => bar.ts > heard[p][i - 1][2].ts)
       ELSE /\ what = "close"
            /\ <<bar.ts, bar.o>> = <<heard[p][i - 1][2].ts, heard[p][i - 1][2].o>>

\* "all callbacks in different timeframes are called in the correct order":
\* while closings are announced no timeframe shows the new datum, and when an
\* opening is announced all show it.
CallbacksInOrder ==
  [][\A p \in Periods :
       heard'[p] # heard[p] =>
         LET shown == IF Last(heard'[p])[1] = "open" \/ call.kind = "notify"
                      THEN taken ELSE Front(taken)
         IN \A q \in Periods : Shows(q, shown)]_vars

\* When an opening is announced, every timeframe that takes the datum has a bar
\* that reaches past it, open unless a later time was told before.
OpenedTogether ==
  [][\A p \in Periods :
       heard'[p] # heard[p] /\ Last(heard'[p])[1] = "open" =>
         \A q \in Periods :
           ~ShouldReject(q, call.d.ts) =>
             /\ tf[q].upper > call.d.ts
             /\ tf[q].closed => call.d.ts < clock]_vars

\* Nothing terminates the program but data from the past in backtesting, a
\* notification of the very start of a bar or between opening and aggregation,
\* and data that comes after a later time was told.
FaultsExplained ==
  /\ fault = "fromThePast" => backtesting /\ call.d.ts <= lastSeen
  /\ fault = "notRecent" =>
       /\ call.kind = "notify"
       /\ \E p \in call.todo : tf[p].store # <<>> /\ call.d.ts = tf[p].store[1].ts
  /\ fault = "noData" => call.kind = "notify" /\ pending # NoBar
  /\ fault = "notOpen" => call.d.ts < clock
=============================================================================
