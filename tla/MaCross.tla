----------------------------- MODULE MaCross ------------------------------
(***************************************************************************)
(* The example strategies ts::MaCross and ts::MaCrossO (src/t18/ts): two   *)
(* moving averages of daily bars, one order when the fast one rises over   *)
(* the slow one.  MaCross decides late in the day, on the opening of any   *)
(* base bar, from the daily bar that is still open; MaCrossO decides once  *)
(* a day, on the opening of the daily bar, from the opening prices.        *)
(*                                                                         *)
(* The market reaches a strategy as the timeframes tell it (Ticker.tla): a *)
(* daily bar that is over is closed first, then the new data is taken,     *)
(* then the opening is announced.  The opening of a base bar makes a new   *)
(* daily bar or leaves the daily bar as it is; its aggregation moves the   *)
(* close of the daily bar.  Series have the newest bar first.              *)
(***************************************************************************)
EXTENDS Algs

CONSTANTS
    Strategies,     \* a subset of {"MaCross", "MaCrossO"}
    Slow, Fast,     \* the lengths of the averages
    Prices,         \* in price units
    LastDay,        \* bound: days
    LastTime,       \* bound: the times of a day are 0 .. LastTime
    EarliestDecisionMoment

ASSUME LengthsArePositive == Slow \in Nat \ {0} /\ Fast \in Nat \ {0}
ASSUME StrategiesAreKnown == Strategies \subseteq {"MaCross", "MaCrossO"}
ASSUME PricesAreIntegers == Prices \subseteq Int /\ Unit \in Int
ASSUME MomentIsATime == EarliestDecisionMoment \in Int
\* Unit is divisible by the lengths: averages are exact, as those of reals are.
ASSUME UnitIsDivided == \A n \in {Slow, Fast} : \E k \in 0 .. Unit : Unit = n * k

VARIABLES
    strategy,
    opens, closes,  \* daily bars so far, with the one of today; the averages see
                    \* the newest m_minBars of them, TotalBars() counts them all
    date, time,     \* of the last base bar, zero before the first day
    barOpen,        \* a base bar is open
    dayOpen,        \* the daily bar of date is open
    m_tsCont,       \* the averages: the newest two bars
    stored,         \* how many bars m_tsCont has been given
    m_dayBarAdded,  \* the date of the last bar added while its day was open
    m_bTradedThisDay,
    orders          \* the orders placed, oldest first

vars == <<strategy, opens, closes, date, time, barOpen, dayOpen, m_tsCont, stored,
          m_dayBarAdded, m_bTradedThisDay, orders>>

strat == <<m_tsCont, stored, m_dayBarAdded, m_bTradedThisDay, orders>>

\* minBarsRequired: the source holds no more (MaCrossSetup::_do_setup).
m_minBars == IF Slow > Fast THEN Slow ELSE Fast
TotalBars(daily) == Len(daily)
Held(daily) == SubSeq(daily, 1, IF Len(daily) < m_minBars THEN Len(daily) ELSE m_minBars)

Init ==
    /\ strategy \in Strategies
    /\ opens = <<>> /\ closes = <<>>
    /\ date = 0 /\ time = 0 /\ barOpen = FALSE /\ dayOpen = FALSE
    /\ m_tsCont = <<>> /\ stored = 0
    /\ m_dayBarAdded = 0 /\ m_bTradedThisDay = FALSE
    /\ orders = <<>>

----------------------------------------------------------------------------
\* storeBar of a placeholder into a container of two bars.
StoreBar(cont) == SubSeq(<<[s |-> 0, f |-> 0]>> \o cont, 1, IF cont = <<>> THEN 1 ELSE 2)

\* updateTimeseries: both averages into the newest bar.
Updated(cont, daily) ==
    [cont EXCEPT ![1] = [s |-> MA(Held(daily), Slow), f |-> MA(Held(daily), Fast)]]

\* makeTradeDecisions.
Buys(cont) == /\ cont[2].s < cont[1].s
              /\ cont[1].f > cont[1].s
              /\ cont[2].f < cont[2].s

Decide(cont, on, at) ==
    orders' = IF Buys(cont) THEN Append(orders, [date |-> on, time |-> at]) ELSE orders

\* onBaseTFOpen, after the timeframes have the new bar.
OnBaseTFOpen(daily, on, at) ==
    IF m_minBars > TotalBars(daily) \/ at < EarliestDecisionMoment \/ m_bTradedThisDay
    THEN UNCHANGED strat
    ELSE LET new  == m_dayBarAdded # on
             cont == IF new THEN StoreBar(m_tsCont) ELSE m_tsCont
         IN  /\ m_tsCont' = Updated(cont, daily)
             /\ stored' = IF new THEN stored + 1 ELSE stored
             /\ m_dayBarAdded' = on
             /\ IF Len(cont) < 2 THEN UNCHANGED <<orders, m_bTradedThisDay>>
                ELSE /\ Decide(m_tsCont', on, at)
                     /\ m_bTradedThisDay' = Buys(m_tsCont')

\* onMainTFClose, while the timeframe still has the bar that is over.
X_OnMainTFClose_AlwaysAdds(daily, on) ==    \* mutant: a late bar is not looked for
    IF m_minBars > TotalBars(daily) THEN UNCHANGED strat
    ELSE /\ m_tsCont' = Updated(StoreBar(m_tsCont), daily)
         /\ stored' = stored + 1
         /\ m_bTradedThisDay' = FALSE
         /\ UNCHANGED <<m_dayBarAdded, orders>>
X_OnMainTFClose_KeepsTraded(daily, on) ==   \* mutant: the day is not reset
    IF m_minBars > TotalBars(daily) THEN UNCHANGED strat
    ELSE LET new == m_dayBarAdded # on
         IN  /\ m_tsCont' = Updated(IF new THEN StoreBar(m_tsCont) ELSE m_tsCont, daily)
             /\ stored' = IF new THEN stored + 1 ELSE stored
             /\ UNCHANGED <<m_bTradedThisDay, m_dayBarAdded, orders>>
OnMainTFClose(daily, on) ==
    IF m_minBars > TotalBars(daily) THEN UNCHANGED strat
    ELSE LET new == m_dayBarAdded # on
         IN  /\ m_tsCont' = Updated(IF new THEN StoreBar(m_tsCont) ELSE m_tsCont, daily)
             /\ stored' = IF new THEN stored + 1 ELSE stored
             /\ m_bTradedThisDay' = FALSE
             /\ UNCHANGED <<m_dayBarAdded, orders>>

\* onMainTFOpen of MaCrossO: a bar is added whatever the history is.
OnMainTFOpen(daily, on, at) ==
    /\ m_tsCont' = Updated(StoreBar(m_tsCont), daily)
    /\ stored' = stored + 1
    /\ IF TotalBars(daily) >= 2 + m_minBars THEN Decide(m_tsCont', on, at)
       ELSE UNCHANGED orders
    /\ UNCHANGED <<m_dayBarAdded, m_bTradedThisDay>>

----------------------------------------------------------------------------
(* The market.                                                             *)

\* The daily bar is over (the data of the next day, or a notification, comes).
CloseDay ==
    /\ dayOpen /\ ~barOpen
    /\ dayOpen' = FALSE
    /\ IF strategy = "MaCross" THEN OnMainTFClose(closes, date) ELSE UNCHANGED strat
    /\ UNCHANGED <<strategy, opens, closes, date, time, barOpen>>

\* The first base bar of a day.
OpenDay ==
    /\ ~dayOpen /\ date < LastDay
    /\ date' = date + 1
    /\ time' \in 0 .. LastTime
    /\ \E q \in Prices : /\ opens' = <<q * Unit>> \o opens
                         /\ closes' = <<q * Unit>> \o closes
    /\ barOpen' = TRUE /\ dayOpen' = TRUE
    /\ IF strategy = "MaCross" THEN OnBaseTFOpen(closes', date', time')
                               ELSE OnMainTFOpen(opens', date', time')
    /\ UNCHANGED strategy

\* A further base bar of the day.
OpenBar ==
    /\ dayOpen /\ ~barOpen
    /\ time' \in time + 1 .. LastTime
    /\ barOpen' = TRUE
    /\ IF strategy = "MaCross" THEN OnBaseTFOpen(closes, date, time') ELSE UNCHANGED strat
    /\ UNCHANGED <<strategy, opens, closes, date, dayOpen>>

\* The base bar is over and goes into the daily bar.
AggregateBar ==
    /\ barOpen
    /\ \E q \in Prices : closes' = [closes EXCEPT ![1] = q * Unit]
    /\ barOpen' = FALSE
    /\ UNCHANGED <<strategy, opens, date, time, dayOpen, strat>>

Next == CloseDay \/ OpenDay \/ OpenBar \/ AggregateBar

Spec == Init /\ [][Next]_vars

----------------------------------------------------------------------------
\* The average of the last n of a series, times n * Slow * Fast / n: comparable
\* between the two lengths without division.
Total(daily, from, n) == FoldLeft(+, 0, SubSeq(daily, from, from + n - 1))
SlowTotal(daily, from) == Total(daily, from, Slow) * Fast
FastTotal(daily, from) == Total(daily, from, Fast) * Slow

\* The fast average, below the slow one yesterday, is above it today, and the slow
\* one has risen: told over the whole history of daily bars.
Crosses(daily) ==
    /\ SlowTotal(daily, 2) < SlowTotal(daily, 1)
    /\ FastTotal(daily, 2) < SlowTotal(daily, 2)
    /\ FastTotal(daily, 1) > SlowTotal(daily, 1)

Traded(on) == \E i \in DOMAIN orders : orders[i].date = on

\* A moment at which the strategy decides, of the step that opens a base bar.
Decides ==
    /\ barOpen' /\ ~barOpen
    /\ IF strategy = "MaCross"
       THEN /\ Len(closes') > m_minBars /\ time' >= EarliestDecisionMoment
            /\ ~Traded(date')
       ELSE date' # date /\ Len(opens') >= 2 + m_minBars

\* An order is placed exactly at a deciding moment at which the averages cross,
\* each computed from every finished day and the day that is open, whether or not
\* the days before had base bars late enough to act on.  In particular a day has
\* one order at most, and MaCross places none early in the day.
OrdersAreCrossings ==
    [][ LET daily == IF strategy = "MaCross" THEN closes' ELSE opens'
        IN  orders' = IF Decides /\ Crosses(daily)
                      THEN Append(orders, [date |-> date', time |-> time'])
                      ELSE orders ]_vars

\* Between two days the container has one bar for each day with enough history
\* before it (the assertion at ts/MaCross.h:230), or for every day (MaCrossO).
OneBarADay ==
    ~dayOpen => stored = IF strategy = "MaCrossO" THEN Len(opens)
                         ELSE IF Len(closes) < m_minBars THEN 0
                         ELSE Len(closes) - m_minBars + 1
============================================================================
