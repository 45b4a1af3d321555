-------------------------- MODULE MaCrossProofs ---------------------------
(***************************************************************************)
(* The example strategies keep one bar a day, place one order a day at     *)
(* most, and place one exactly when the averages of the whole history      *)
(* cross, for any lengths of the averages, prices, days and times of day.  *)
(***************************************************************************)
EXTENDS MaCross, SequenceTheorems, WellFoundedInduction, TLAPS

\* The bars there must be of the first n days.
BarsOf(n) == IF n < m_minBars THEN 0 ELSE n - m_minBars + 1

DaysOK ==
    /\ strategy \in {"MaCross", "MaCrossO"}
    /\ opens \in Seq(Int) /\ closes \in Seq(Int)
    /\ date \in Nat /\ Len(opens) = date /\ Len(closes) = date
    /\ dayOpen \in BOOLEAN /\ barOpen \in BOOLEAN /\ m_bTradedThisDay \in BOOLEAN
    /\ dayOpen \/ barOpen => date > 0
    /\ m_dayBarAdded \in Nat /\ m_dayBarAdded <= date

\* How many bars the container has been given: MaCross may have added the bar of
\* the open day, and has if and only if m_dayBarAdded says so.
StoredOK ==
    /\ stored \in Nat
    /\ strategy = "MaCrossO" => stored = date
    /\ strategy = "MaCross" =>
          stored = IF ~dayOpen THEN BarsOf(date)
                   ELSE IF m_dayBarAdded = date THEN BarsOf(date - 1) + 1
                   ELSE BarsOf(date - 1)
    /\ strategy = "MaCross" /\ dayOpen /\ m_dayBarAdded = date => date >= m_minBars

\* Orders are of different days, and none is of the open day unless
\* m_bTradedThisDay says so.
OneOrderADay ==
    \A i, j \in DOMAIN orders : i < j => orders[i].date < orders[j].date

OrdersOK ==
    /\ orders \in Seq([date : Int, time : Int])
    /\ time \in Int
    /\ OneOrderADay
    /\ \A i \in DOMAIN orders : orders[i].date <= date
    /\ strategy = "MaCross" /\ dayOpen /\ ~m_bTradedThisDay =>
          \A i \in DOMAIN orders : orders[i].date < date

BarsInv == DaysOK /\ StoredOK

LEMMA MinBars == m_minBars \in Nat \ {0}
  BY LengthsArePositive DEF m_minBars

LEMMA BarsInit == Init => BarsInv
<1> SUFFICES ASSUME Init PROVE BarsInv
  OBVIOUS
<1>1. DaysOK
  <2>1. strategy \in {"MaCross", "MaCrossO"}
    BY StrategiesAreKnown DEF Init
  <2>2. <<>> \in Seq(Int) /\ Len(<<>>) = 0
    OBVIOUS
  <2>3. ~dayOpen /\ ~barOpen
    BY DEF Init
  <2>4. dayOpen \in BOOLEAN /\ barOpen \in BOOLEAN /\ m_bTradedThisDay \in BOOLEAN
    BY DEF Init
  <2>5. opens \in Seq(Int) /\ closes \in Seq(Int) /\ Len(opens) = date /\ Len(closes) = date
    BY <2>2 DEF Init
  <2>6. date \in Nat /\ m_dayBarAdded \in Nat /\ m_dayBarAdded <= date
    BY DEF Init
  <2> QED  BY <2>1, <2>3, <2>4, <2>5, <2>6 DEF DaysOK
<1>2. StoredOK
  BY MinBars DEF Init, StoredOK, BarsOf
<1> QED  BY <1>1, <1>2 DEF BarsInv

\* Opening a base bar of the day `on`, the last of the days in daily.
LEMMA BaseOpenStores ==
  ASSUME NEW daily, NEW on \in Nat, NEW at, Len(daily) = on,
         m_dayBarAdded \in Nat, stored \in Nat, m_bTradedThisDay \in BOOLEAN,
         OnBaseTFOpen(daily, on, at)
  PROVE  /\ m_bTradedThisDay' \in BOOLEAN
         /\ \/ m_dayBarAdded' = m_dayBarAdded /\ stored' = stored
            \/ /\ on >= m_minBars /\ m_dayBarAdded' = on
               /\ stored' = IF m_dayBarAdded = on THEN stored ELSE stored + 1
<1>1. CASE m_minBars > TotalBars(daily) \/ at < EarliestDecisionMoment \/ m_bTradedThisDay
  BY <1>1 DEF OnBaseTFOpen, strat
<1>2. CASE ~(m_minBars > TotalBars(daily) \/ at < EarliestDecisionMoment \/ m_bTradedThisDay)
  <2>1. on >= m_minBars
    BY <1>2, MinBars DEF TotalBars
  <2>2. m_dayBarAdded' = on /\ stored' = IF m_dayBarAdded = on THEN stored ELSE stored + 1
    BY <1>2 DEF OnBaseTFOpen
  <2>3. m_bTradedThisDay' \in BOOLEAN
    BY <1>2 DEF OnBaseTFOpen, Buys
  <2> QED  BY <2>1, <2>2, <2>3
<1> QED  BY <1>1, <1>2

LEMMA BarsStep == BarsInv /\ [Next]_vars => BarsInv'
<1> SUFFICES ASSUME BarsInv, [Next]_vars PROVE BarsInv'
  OBVIOUS
<1> USE MinBars
<1>1. CASE CloseDay
  <2>1. /\ dayOpen' = FALSE /\ UNCHANGED <<strategy, opens, closes, date, time, barOpen>>
        /\ dayOpen
    BY <1>1 DEF CloseDay
  <2>2. CASE strategy = "MaCross" /\ m_minBars <= date
    <3>1. /\ stored' = IF m_dayBarAdded # date THEN stored + 1 ELSE stored
          /\ m_bTradedThisDay' = FALSE /\ m_dayBarAdded' = m_dayBarAdded
      BY <1>1, <2>2 DEF CloseDay, OnMainTFClose, TotalBars, BarsInv, DaysOK
    <3>7. DaysOK'
      BY <2>1, <2>2, <3>1 DEF BarsInv, DaysOK, StoredOK
    <3>8. StoredOK'
      BY <2>1, <2>2, <3>1 DEF BarsInv, DaysOK, StoredOK, BarsOf
    <3> QED  BY <3>7, <3>8 DEF BarsInv
  <2>3. CASE strategy = "MaCross" /\ m_minBars > date
    <3>1. UNCHANGED strat
      BY <1>1, <2>3 DEF CloseDay, OnMainTFClose, TotalBars, BarsInv, DaysOK
    <3>7. DaysOK'
      BY <2>1, <2>3, <3>1 DEF strat, BarsInv, DaysOK, StoredOK
    <3>8. StoredOK'
      BY <2>1, <2>3, <3>1 DEF strat, BarsInv, DaysOK, StoredOK, BarsOf
    <3> QED  BY <3>7, <3>8 DEF BarsInv
  <2>4. CASE strategy # "MaCross"
    <3>1. UNCHANGED strat
      BY <1>1, <2>4 DEF CloseDay
    <3>7. DaysOK'
      BY <2>1, <2>4, <3>1 DEF strat, BarsInv, DaysOK, StoredOK
    <3>8. StoredOK'
      BY <2>1, <2>4, <3>1 DEF strat, BarsInv, DaysOK, StoredOK
    <3> QED  BY <3>7, <3>8 DEF BarsInv
  <2> QED  BY <2>2, <2>3, <2>4 DEF BarsInv, DaysOK
<1>2. CASE OpenDay
  <2>1. /\ ~dayOpen /\ date' = date + 1 /\ barOpen' = TRUE /\ dayOpen' = TRUE
        /\ strategy' = strategy
    BY <1>2 DEF OpenDay
  <2>2. /\ opens' \in Seq(Int) /\ Len(opens') = date'
        /\ closes' \in Seq(Int) /\ Len(closes') = date'
    <3>1. PICK q \in Prices : opens' = <<q * Unit>> \o opens /\ closes' = <<q * Unit>> \o closes
      BY <1>2 DEF OpenDay
    <3>2. q * Unit \in Int
      BY PricesAreIntegers
    <3> QED  BY <2>1, <3>1, <3>2 DEF BarsInv, DaysOK
  <2>3. CASE strategy = "MaCross"
    <3>1. OnBaseTFOpen(closes', date', time')
      BY <1>2, <2>3 DEF OpenDay
    <3>2. /\ m_bTradedThisDay' \in BOOLEAN
          /\ \/ m_dayBarAdded' = m_dayBarAdded /\ stored' = stored
             \/ /\ date' >= m_minBars /\ m_dayBarAdded' = date'
                /\ stored' = IF m_dayBarAdded = date' THEN stored ELSE stored + 1
      BY <2>1, <2>2, <3>1, BaseOpenStores DEF BarsInv, DaysOK, StoredOK
    <3>7. DaysOK'
      BY <2>1, <2>2, <2>3, <3>2 DEF BarsInv, DaysOK, StoredOK
    <3>3. date \in Nat /\ date' - 1 = date /\ m_dayBarAdded # date' /\ m_dayBarAdded \in Nat
      BY <2>1 DEF BarsInv, DaysOK
    <3>4. stored \in Nat /\ stored = BarsOf(date)
      BY <2>1, <2>3 DEF BarsInv, StoredOK
    <3>5. stored' \in Nat /\ (m_dayBarAdded' = date' => date' >= m_minBars)
      BY <3>2, <3>3, <3>4
    <3>6. stored' = IF m_dayBarAdded' = date' THEN BarsOf(date' - 1) + 1 ELSE BarsOf(date' - 1)
      BY <3>2, <3>3, <3>4
    <3>8. StoredOK'
      BY <2>1, <2>3, <3>5, <3>6 DEF StoredOK, BarsOf
    <3> QED  BY <3>7, <3>8 DEF BarsInv
  <2>4. CASE strategy # "MaCross"
    <3>1. stored' = stored + 1 /\ UNCHANGED <<m_dayBarAdded, m_bTradedThisDay>>
      BY <1>2, <2>4 DEF OpenDay, OnMainTFOpen
    <3>7. DaysOK'
      BY <2>1, <2>2, <2>4, <3>1 DEF BarsInv, DaysOK, StoredOK
    <3>8. StoredOK'
      BY <2>1, <2>2, <2>4, <3>1 DEF BarsInv, DaysOK, StoredOK
    <3> QED  BY <3>7, <3>8 DEF BarsInv
  <2> QED  BY <2>3, <2>4
<1>3. CASE OpenBar
  <2>1. /\ dayOpen /\ UNCHANGED <<strategy, opens, closes, date, dayOpen>>
        /\ barOpen' = TRUE
    BY <1>3 DEF OpenBar
  <2>2. CASE strategy = "MaCross"
    <3>1. OnBaseTFOpen(closes, date, time')
      BY <1>3, <2>2 DEF OpenBar
    <3>2. /\ m_bTradedThisDay' \in BOOLEAN
          /\ \/ m_dayBarAdded' = m_dayBarAdded /\ stored' = stored
             \/ /\ date >= m_minBars /\ m_dayBarAdded' = date
                /\ stored' = IF m_dayBarAdded = date THEN stored ELSE stored + 1
      BY <3>1, BaseOpenStores DEF BarsInv, DaysOK, StoredOK
    <3>7. DaysOK'
      BY <2>1, <2>2, <3>2 DEF BarsInv, DaysOK, StoredOK
    <3>8. StoredOK'
      BY <2>1, <2>2, <3>2 DEF BarsInv, DaysOK, StoredOK, BarsOf
    <3> QED  BY <3>7, <3>8 DEF BarsInv
  <2>3. CASE strategy # "MaCross"
    <3>1. UNCHANGED strat
      BY <1>3, <2>3 DEF OpenBar
    <3>7. DaysOK'
      BY <2>1, <2>3, <3>1 DEF strat, BarsInv, DaysOK, StoredOK
    <3>8. StoredOK'
      BY <2>1, <2>3, <3>1 DEF strat, BarsInv, DaysOK, StoredOK
    <3> QED  BY <3>7, <3>8 DEF BarsInv
  <2> QED  BY <2>2, <2>3
<1>4. CASE AggregateBar
  <2>1. /\ barOpen /\ barOpen' = FALSE
        /\ UNCHANGED <<strategy, opens, date, time, dayOpen, strat>>
    BY <1>4 DEF AggregateBar
  <2>2. closes' \in Seq(Int) /\ Len(closes') = Len(closes)
    <3>1. PICK q \in Prices : closes' = [closes EXCEPT ![1] = q * Unit]
      BY <1>4 DEF AggregateBar
    <3>2. q * Unit \in Int
      BY PricesAreIntegers
    <3>3. closes \in Seq(Int) /\ 1 \in 1 .. Len(closes)
      BY <2>1 DEF BarsInv, DaysOK
    <3> QED  BY <3>1, <3>2, <3>3, ExceptSeq
  <2>7. DaysOK'
    BY <2>1, <2>2 DEF strat, BarsInv, DaysOK, StoredOK
  <2>8. StoredOK'
    BY <2>1, <2>2 DEF strat, BarsInv, DaysOK, StoredOK
  <2> QED  BY <2>7, <2>8 DEF BarsInv
<1>5. CASE UNCHANGED vars
  BY <1>5 DEF vars, BarsInv, DaysOK, StoredOK
<1> QED  BY <1>1, <1>2, <1>3, <1>4, <1>5 DEF Next

\* Between two days the container has exactly one bar for each day that counts,
\* whichever of the callbacks of the day has added it.
THEOREM OneBarForEveryDay == Spec => []OneBarADay
<1>1. BarsInv => OneBarADay
  BY MinBars DEF BarsInv, DaysOK, StoredOK, BarsOf, OneBarADay
<1> QED  BY BarsInit, BarsStep, <1>1, PTL DEF Spec

----------------------------------------------------------------------------
(* The orders.                                                             *)

OrdersInv == BarsInv /\ OrdersOK

LEMMA OrdersInit == Init => OrdersInv
<1> SUFFICES ASSUME Init PROVE OrdersOK
  BY BarsInit DEF OrdersInv
<1>1. <<>> \in Seq([date : Int, time : Int]) /\ DOMAIN <<>> = {}
  OBVIOUS
<1> QED  BY <1>1 DEF Init, OrdersOK, OneOrderADay

LEMMA OrderDates ==
  ASSUME orders \in Seq([date : Int, time : Int])
  PROVE  /\ DOMAIN orders = 1 .. Len(orders)
         /\ \A i \in DOMAIN orders : orders[i].date \in Int
<1>1. \A i \in 1 .. Len(orders) : orders[i] \in [date : Int, time : Int]
  BY ElementOfSeq
<1>3. DOMAIN orders = 1 .. Len(orders)
  OBVIOUS
<1>2. \A r \in [date : Int, time : Int] : r.date \in Int
  OBVIOUS
<1> QED  BY <1>1, <1>2, <1>3

LEMMA OrderAppended ==
  ASSUME OrdersOK, NEW on \in Int, NEW at \in Int,
         \A i \in DOMAIN orders : orders[i].date < on,
         orders' = Append(orders, [date |-> on, time |-> at])
  PROVE  /\ orders' \in Seq([date : Int, time : Int])
         /\ OneOrderADay'
         /\ \A i \in DOMAIN orders' : orders'[i].date <= on
<1> DEFINE new == [date |-> on, time |-> at]
<1>1. orders \in Seq([date : Int, time : Int]) /\ new \in [date : Int, time : Int]
  BY DEF OrdersOK
<1>2. /\ orders' \in Seq([date : Int, time : Int])
      /\ DOMAIN orders' = 1 .. Len(orders) + 1 /\ DOMAIN orders = 1 .. Len(orders)
      /\ \A i \in 1 .. Len(orders) : orders'[i] = orders[i]
      /\ orders'[Len(orders) + 1] = new
  BY <1>1
<1>3. \A i \in 1 .. Len(orders) : orders[i].date \in Int /\ orders[i].date < on
  BY <1>1, OrderDates
<1>4. new.date = on /\ Len(orders) \in Nat
  BY <1>1
<1>5. OneOrderADay'
  BY <1>2, <1>3, <1>4 DEF OrdersOK, OneOrderADay
<1>6. \A i \in DOMAIN orders' : orders'[i].date <= on
  BY <1>2, <1>3, <1>4
<1> QED  BY <1>2, <1>5, <1>6

\* The opening of a base bar places no order, or the first since the day was reset.
LEMMA BaseOpenOrders ==
  ASSUME NEW daily, NEW on, NEW at, OnBaseTFOpen(daily, on, at),
         m_bTradedThisDay \in BOOLEAN
  PROVE  \/ orders' = orders /\ m_bTradedThisDay' = m_bTradedThisDay
         \/ /\ ~m_bTradedThisDay /\ m_bTradedThisDay'
            /\ orders' = Append(orders, [date |-> on, time |-> at])
<1>1. CASE m_minBars > TotalBars(daily) \/ at < EarliestDecisionMoment \/ m_bTradedThisDay
  BY <1>1 DEF OnBaseTFOpen, strat
<1>2. CASE ~(m_minBars > TotalBars(daily) \/ at < EarliestDecisionMoment \/ m_bTradedThisDay)
  <2>1. \/ UNCHANGED <<orders, m_bTradedThisDay>>
        \/ Decide(m_tsCont', on, at) /\ m_bTradedThisDay' = Buys(m_tsCont')
    BY <1>2 DEF OnBaseTFOpen
  <2>2. CASE Decide(m_tsCont', on, at) /\ m_bTradedThisDay' = Buys(m_tsCont')
    <3>1. CASE Buys(m_tsCont')
      BY <1>2, <2>2, <3>1 DEF Decide
    <3>2. CASE ~Buys(m_tsCont')
      <4>1. orders' = orders
        BY <2>2, <3>2 DEF Decide
      <4>2. m_bTradedThisDay = FALSE
        BY <1>2
      <4>3. Buys(m_tsCont') = FALSE
        BY <3>2 DEF Buys
      <4> QED  BY <2>2, <4>1, <4>2, <4>3
    <3> QED  BY <3>1, <3>2
  <2> QED  BY <2>1, <2>2
<1> QED  BY <1>1, <1>2

LEMMA OrdersStep == OrdersInv /\ [Next]_vars => OrdersOK'
<1> SUFFICES ASSUME OrdersInv, [Next]_vars PROVE OrdersOK'
  OBVIOUS
<1>1. /\ date \in Nat /\ time \in Int /\ m_bTradedThisDay \in BOOLEAN
      /\ orders \in Seq([date : Int, time : Int])
      /\ OneOrderADay /\ \A i \in DOMAIN orders : orders[i].date <= date
  BY DEF OrdersInv, BarsInv, DaysOK, OrdersOK
<1>2. \A i \in DOMAIN orders : orders[i].date \in Int
  BY <1>1, OrderDates
<1>3. CASE CloseDay
  <2>1. /\ orders' = orders /\ UNCHANGED <<date, time>> /\ dayOpen' = FALSE
    BY <1>3 DEF CloseDay, OnMainTFClose, strat
  <2> QED  BY <1>1, <2>1 DEF OrdersOK, OneOrderADay
<1>4. CASE OpenDay
  <2>1. date' = date + 1 /\ time' \in Int /\ strategy' = strategy /\ date' \in Int
    BY <1>1, <1>4 DEF OpenDay
  <2>2. \A i \in DOMAIN orders : orders[i].date < date'
    BY <1>1, <1>2, <2>1
  <2>3. \/ orders' = orders
        \/ /\ orders' = Append(orders, [date |-> date', time |-> time'])
           /\ strategy = "MaCross" => m_bTradedThisDay'
    <3>1. CASE strategy = "MaCross"
      <4>1. OnBaseTFOpen(closes', date', time')
        BY <1>4, <3>1 DEF OpenDay
      <4> QED  BY <1>1, <4>1, BaseOpenOrders
    <3>2. CASE strategy # "MaCross"
      <4>1. OnMainTFOpen(opens', date', time')
        BY <1>4, <3>2 DEF OpenDay
      <4> QED  BY <3>2, <4>1 DEF OnMainTFOpen, Decide
    <3> QED  BY <3>1, <3>2
  <2>4. CASE orders' = orders
    BY <1>1, <1>2, <2>1, <2>2, <2>4 DEF OrdersOK, OneOrderADay
  <2>5. CASE /\ orders' = Append(orders, [date |-> date', time |-> time'])
             /\ strategy = "MaCross" => m_bTradedThisDay'
    <3>1. /\ orders' \in Seq([date : Int, time : Int]) /\ OneOrderADay'
          /\ \A i \in DOMAIN orders' : orders'[i].date <= date'
      BY <2>1, <2>2, <2>5, OrderAppended DEF OrdersInv
    <3> QED  BY <2>1, <2>5, <3>1 DEF OrdersOK
  <2> QED  BY <2>3, <2>4, <2>5
<1>5. CASE OpenBar
  <2>1. /\ UNCHANGED <<date, strategy, dayOpen>> /\ dayOpen /\ time' \in Int
    BY <1>1, <1>5 DEF OpenBar
  <2>2. CASE strategy = "MaCross"
    <3>1. OnBaseTFOpen(closes, date, time')
      BY <1>5, <2>2 DEF OpenBar
    <3>2. CASE orders' = orders /\ m_bTradedThisDay' = m_bTradedThisDay
      BY <1>1, <2>1, <3>2 DEF OrdersInv, OrdersOK, OneOrderADay
    <3>3. CASE /\ ~m_bTradedThisDay /\ m_bTradedThisDay'
               /\ orders' = Append(orders, [date |-> date, time |-> time'])
      <4>1. \A i \in DOMAIN orders : orders[i].date < date
        BY <2>1, <2>2, <3>3 DEF OrdersInv, OrdersOK
      <4>2. /\ orders' \in Seq([date : Int, time : Int]) /\ OneOrderADay'
            /\ \A i \in DOMAIN orders' : orders'[i].date <= date
        BY <1>1, <2>1, <3>3, <4>1, OrderAppended DEF OrdersInv
      <4> QED  BY <2>1, <3>3, <4>2 DEF OrdersOK
    <3> QED  BY <1>1, <3>1, <3>2, <3>3, BaseOpenOrders
  <2>3. CASE strategy # "MaCross"
    <3>1. UNCHANGED strat
      BY <1>5, <2>3 DEF OpenBar
    <3> QED  BY <1>1, <2>1, <2>3, <3>1 DEF strat, OrdersOK, OneOrderADay
  <2> QED  BY <2>2, <2>3
<1>6. CASE AggregateBar
  BY <1>6 DEF AggregateBar, strat, OrdersInv, OrdersOK, OneOrderADay
<1>7. CASE UNCHANGED vars
  BY <1>7 DEF vars, OrdersInv, OrdersOK, OneOrderADay
<1> QED  BY <1>3, <1>4, <1>5, <1>6, <1>7 DEF Next

\* However many base bars the moment for decisions is followed by, and however often
\* the averages cross, a day has one order at most, and orders are in order of days.
THEOREM OrdersAreOfDifferentDays == Spec => []OneOrderADay
<1>1. OrdersInv /\ [Next]_vars => OrdersInv'
  BY BarsStep, OrdersStep DEF OrdersInv
<1>2. OrdersInv => OneOrderADay
  BY DEF OrdersInv, OrdersOK
<1> QED  BY OrdersInit, <1>1, <1>2, PTL DEF Spec
----------------------------------------------------------------------------
(* Sums of sequences.                                                      *)

\* A set of numbers that is not empty has a least one.
LEMMA Least ==
  ASSUME NEW S \in SUBSET Nat, S # {}
  PROVE  \E m \in S : \A n \in S : m <= n
<1> DEFINE R == OpToRel(<, Nat)
<1>1. IsWellFoundedOn(R, Nat)
  BY NatLessThanWellFounded
<1>2. ASSUME NEW i \in Nat, NEW j \in Nat, i < j PROVE <<i, j>> \in R
  BY <1>2 DEF OpToRel
<1> HIDE DEF R
<1>3. PICK m \in S : \A n \in S : ~(<<n, m>> \in R)
  BY <1>1, WFMin
<1>4. ASSUME NEW n \in S PROVE m <= n
  <2>1. ~(n < m)
    BY <1>2, <1>3
  <2> QED  BY <2>1
<1> QED  BY <1>4

\* Induction over a set of numbers that contains 0 and with each number the next.
LEMMA Inductive ==
  ASSUME NEW S \in SUBSET Nat, 0 \in S, \A n \in S : n + 1 \in S
  PROVE  S = Nat
<1> SUFFICES ASSUME Nat \ S # {} PROVE FALSE
  OBVIOUS
<1>1. PICK m \in Nat \ S : \A n \in Nat \ S : m <= n
  BY Least
<1>2. m - 1 \in Nat /\ m - 1 \notin Nat \ S
  BY <1>1
<1> QED  BY <1>1, <1>2

\* The last place of a set of places.
LEMMA LastPlace ==
  ASSUME NEW n \in Nat, NEW T \in SUBSET (1 .. n), T # {}
  PROVE  Max(T) \in T /\ \A x \in T : x <= Max(T)
<1> DEFINE D == {n - x : x \in T}
<1>1. D \in SUBSET Nat /\ D # {}
  <2>1. ASSUME NEW x \in T PROVE n - x \in Nat
    OBVIOUS
  <2>2. PICK x \in T : TRUE
    OBVIOUS
  <2> QED  BY <2>1, <2>2
<1>2. PICK m \in D : \A d \in D : m <= d
  BY <1>1, Least
<1>3. PICK y \in T : m = n - y
  OBVIOUS
<1>4. ASSUME NEW x \in T PROVE y >= x
  <2>1. m <= n - x
    BY <1>2
  <2> QED  BY <1>3, <2>1
<1>5. \E z \in T : \A x \in T : z >= x
  BY <1>4
<1>6. Max(T) \in T /\ \A x \in T : Max(T) >= x
  BY <1>5 DEF Max
<1> QED  BY <1>6

\* The equation of a sum from the left: all but the last place, and the last.
Rest(T) == T \ {Max(T)}
Summed(g, s, S) == g = [T \in SUBSET S |-> IF T = {} THEN 0 ELSE g[Rest(T)] + s[Max(T)]]

LEMMA SumIs ==
  ASSUME NEW s
  PROVE  FoldLeft(+, 0, s) = (CHOOSE g : Summed(g, s, DOMAIN s))[DOMAIN s]
  BY DEF FoldLeft, MapThenFoldSet, Summed, Rest

LEMMA RestBefore ==
  ASSUME NEW n \in Nat, NEW T \in SUBSET (1 .. n + 1), T # {}
  PROVE  Rest(T) \in SUBSET (1 .. n)
<1>1. n + 1 \in Nat
  OBVIOUS
<1>2. Max(T) \in T /\ \A x \in T : x <= Max(T)
  BY <1>1, LastPlace
<1>3. ASSUME NEW x \in T, x # Max(T) PROVE x \in 1 .. n
  <2>1. x \in 1 .. n + 1 /\ Max(T) \in 1 .. n + 1 /\ x <= Max(T)
    BY <1>2
  <2> DEFINE m == Max(T)
  <2> HIDE DEF m
  <2>2. x \in 1 .. n + 1 /\ m \in 1 .. n + 1 /\ x <= m /\ x # m
    BY <1>3, <2>1 DEF m
  <2> QED  BY <2>2
<1> QED  BY <1>3 DEF Rest

\* There is such a sum over any places: those up to n give those up to n + 1.
LEMMA SumExists ==
  ASSUME NEW s, NEW len \in Nat
  PROVE  \E g : Summed(g, s, 1 .. len)
<1> DEFINE Rhs(g, T) == IF T = {} THEN 0 ELSE g[Rest(T)] + s[Max(T)]
           UpTo(n) == \E g : \A T \in SUBSET (1 .. n) : g[T] = Rhs(g, T)
           N == {n \in Nat : UpTo(n)}
<1>1. 0 \in N
  <2> DEFINE g == [T \in SUBSET (1 .. 0) |-> 0]
  <2>1. \A T \in SUBSET (1 .. 0) : g[T] = Rhs(g, T)
    OBVIOUS
  <2> QED  BY <2>1
<1>2. ASSUME NEW n \in N PROVE n + 1 \in N
  <2>1. PICK g : \A T \in SUBSET (1 .. n) : g[T] = Rhs(g, T)
    OBVIOUS
  <2> DEFINE h == [T \in SUBSET (1 .. n + 1) |-> Rhs(g, T)]
  <2>2. ASSUME NEW T \in SUBSET (1 .. n + 1) PROVE h[T] = Rhs(h, T)
    <3>1. CASE T = {}
      BY <3>1
    <3>2. CASE T # {}
      <4> DEFINE r == Rest(T)
      <4>1. r \in SUBSET (1 .. n)
        BY <3>2, RestBefore
      <4>2. r \in SUBSET (1 .. n + 1)
        BY <4>1
      <4> HIDE DEF r
      <4>3. h[r] = g[r]
        BY <2>1, <4>1, <4>2
      <4>4. h[T] = g[r] + s[Max(T)] /\ Rhs(h, T) = h[r] + s[Max(T)]
        BY <3>2 DEF r
      <4> QED  BY <4>3, <4>4
    <3> QED  BY <3>1, <3>2
  <2> HIDE DEF h
  <2>3. UpTo(n + 1)
    BY <2>2
  <2> HIDE DEF UpTo
  <2> QED  BY <2>3
<1> HIDE DEF N
<1>3. N = Nat
  BY <1>1, <1>2, Inductive DEF N
<1>4. PICK g : \A T \in SUBSET (1 .. len) : g[T] = Rhs(g, T)
  BY <1>3 DEF N
<1> DEFINE h == [T \in SUBSET (1 .. len) |-> g[T]]
<1>5. ASSUME NEW T \in SUBSET (1 .. len) PROVE h[T] = Rhs(h, T)
  <2>1. Rest(T) \in SUBSET (1 .. len)
    BY DEF Rest
  <2> QED  BY <1>4, <2>1
<1>6. h = [T \in SUBSET (1 .. len) |-> Rhs(h, T)]
  BY <1>5
<1> HIDE DEF h
<1> QED  BY <1>6 DEF Summed

\* A sum of members of a set that is closed under addition is a member of it.
LEMMA SumIn ==
  ASSUME NEW M, 0 \in M, \A x, y \in M : x + y \in M, NEW s \in Seq(M)
  PROVE  FoldLeft(+, 0, s) \in M
<1> DEFINE places == 1 .. Len(s)
           g == CHOOSE h : Summed(h, s, places)
           N == {n \in Nat : \A T \in SUBSET ((1 .. n) \cap places) : g[T] \in M}
<1>1. /\ DOMAIN s = places /\ Len(s) \in Nat /\ \A i \in places : s[i] \in M
  OBVIOUS
<1>2. Summed(g, s, places)
  BY <1>1, SumExists
<1> HIDE DEF g, places
<1>3. \A T \in SUBSET places : g[T] = IF T = {} THEN 0 ELSE g[Rest(T)] + s[Max(T)]
  BY <1>2 DEF Summed
<1>4. 0 \in N
  <2>1. ASSUME NEW T \in SUBSET ((1 .. 0) \cap places) PROVE T = {}
    OBVIOUS
  <2>2. g[{}] = 0
    BY <1>3
  <2> QED  BY <2>1, <2>2
<1>5. ASSUME NEW n \in N PROVE n + 1 \in N
  <2>1. ASSUME NEW T \in SUBSET ((1 .. n + 1) \cap places) PROVE g[T] \in M
    <3>1. CASE T = {}
      BY <1>3, <3>1
    <3>2. CASE T # {}
      <4>1. n + 1 \in Nat /\ T \in SUBSET (1 .. n + 1)
        OBVIOUS
      <4>2. Max(T) \in T /\ Rest(T) \in SUBSET (1 .. n)
        BY <3>2, <4>1, LastPlace, RestBefore
      <4>3. Rest(T) \in SUBSET ((1 .. n) \cap places)
        BY <4>2 DEF Rest
      <4>4. g[Rest(T)] \in M /\ s[Max(T)] \in M
        BY <1>1, <4>2, <4>3
      <4> QED  BY <1>3, <3>2, <4>4
    <3> QED  BY <3>1, <3>2
  <2> QED  BY <2>1
<1> HIDE DEF N
<1>6. N = Nat
  BY <1>4, <1>5, Inductive DEF N
<1>7. g[places] \in M
  <2>1. Len(s) \in N
    BY <1>1, <1>6
  <2>2. (1 .. Len(s)) \cap places = places
    BY DEF places
  <2> QED  BY <2>1, <2>2 DEF N
<1> QED  BY <1>1, <1>7, SumIs DEF g
----------------------------------------------------------------------------
(* Averages.                                                               *)

Multiples(d) == {d * k : k \in Int}
Value == Int \cup {NaN}
Averages == [s : Value, f : Value]

\* Both averages over the newest bars.
Avg(daily) == [s |-> MA(Held(daily), Slow), f |-> MA(Held(daily), Fast)]

LEMMA Scaled ==
  ASSUME NEW d \in Nat \ {0}, NEW a \in Int, NEW b \in Int
  PROVE  d * a \in Int /\ (a < b <=> d * a < d * b)
<1>1. d * a \in Int /\ d * b \in Int /\ d * (b - a) = d * b - d * a
  OBVIOUS
<1>2. CASE a < b
  <2>1. b - a >= 1
    BY <1>2
  <2>2. d * (b - a) >= d
    BY <2>1
  <2> QED  BY <1>1, <1>2, <2>2
<1>3. CASE ~(a < b)
  <2>1. a - b >= 0
    BY <1>3
  <2>2. d * (a - b) >= 0 /\ d * (a - b) = d * a - d * b
    BY <2>1
  <2> QED  BY <1>1, <1>3, <2>2
<1> QED  BY <1>2, <1>3

LEMMA Quotient ==
  ASSUME NEW d \in Nat \ {0}, NEW k \in Int
  PROVE  (d * k) \div d = k
<1> DEFINE n == d * k
           q == n \div d
<1>1. n \in Int /\ q \in Int /\ n = d * q + (n % d) /\ 0 <= n % d /\ n % d < d
  OBVIOUS
<1> HIDE DEF n, q
<1>2. q + 1 \in Int /\ d * (q + 1) = d * q + d
  BY <1>1
<1>3. d * k < d * (q + 1) /\ ~(d * k < d * q)
  BY <1>1, <1>2 DEF n
<1>4. k < q + 1 /\ ~(k < q)
  BY <1>1, <1>2, <1>3, Scaled
<1> QED  BY <1>1, <1>4 DEF n, q

LEMMA Lengths ==
  /\ Slow \in Nat \ {0} /\ Fast \in Nat \ {0}
  /\ m_minBars \in Nat \ {0} /\ Slow <= m_minBars /\ Fast <= m_minBars
  BY LengthsArePositive DEF m_minBars

\* Multiples add up to multiples, and prices are multiples of the lengths.
LEMMA MultiplesAdd ==
  ASSUME NEW d \in Int
  PROVE  /\ 0 \in Multiples(d) /\ Multiples(d) \subseteq Int
         /\ \A x, y \in Multiples(d) : x + y \in Multiples(d)
<1>1. d * 0 = 0
  OBVIOUS
<1>2. ASSUME NEW x \in Multiples(d), NEW y \in Multiples(d) PROVE x + y \in Multiples(d)
  <2>1. PICK j \in Int, k \in Int : x = d * j /\ y = d * k
    BY DEF Multiples
  <2>2. d * (j + k) = d * j + d * k
    OBVIOUS
  <2> QED  BY <2>1, <2>2 DEF Multiples
<1> QED  BY <1>1, <1>2 DEF Multiples

LEMMA PricesDivided ==
  ASSUME NEW n \in {Slow, Fast}
  PROVE  Multiples(Unit) \subseteq Multiples(n)
<1> SUFFICES ASSUME NEW x \in Multiples(Unit) PROVE x \in Multiples(n)
  OBVIOUS
<1>1. PICK j \in Int : x = Unit * j
  BY DEF Multiples
<1>2. PICK k \in 0 .. Unit : Unit = n * k
  BY UnitIsDivided
<1>3. n \in Int /\ k \in Int
  BY Lengths, PricesAreIntegers
<1>4. (n * k) * j = n * (k * j) /\ k * j \in Int
  BY <1>3
<1> QED  BY <1>1, <1>2, <1>4 DEF Multiples

LEMMA WindowSum ==
  ASSUME NEW daily \in Seq(Multiples(Unit)), NEW n \in {Slow, Fast},
         NEW from \in Nat \ {0}, from + n - 1 <= Len(daily)
  PROVE  \E a \in Int : Total(daily, from, n) = n * a
<1> DEFINE s == SubSeq(daily, from, from + n - 1)
<1>1. n \in Nat \ {0}
  BY Lengths
<1>2. s \in Seq(Multiples(Unit))
  BY <1>1
<1>3. s \in Seq(Multiples(n))
  BY <1>2, PricesDivided, SeqDef
<1>4. FoldLeft(+, 0, s) \in Multiples(n)
  <2> DEFINE M == Multiples(n)
  <2>1. n \in Int
    BY <1>1
  <2>2. 0 \in M /\ \A x, y \in M : x + y \in M
    BY <2>1, MultiplesAdd
  <2> HIDE DEF s, M
  <2> QED  BY <1>3, <2>2, SumIn DEF M
<1> QED  BY <1>4 DEF Total, Multiples

LEMMA HeldWindow ==
  ASSUME NEW daily \in Seq(Int), NEW n \in Nat \ {0}, n <= m_minBars, m_minBars <= Len(daily)
  PROVE  n <= Len(Held(daily)) /\ SubSeq(Held(daily), 1, n) = SubSeq(daily, 1, n)
<1>1. m_minBars \in Nat \ {0}
  BY Lengths
<1>2. Held(daily) = SubSeq(daily, 1, m_minBars)
  BY <1>1 DEF Held
<1> QED  BY <1>1, <1>2

LEMMA Average ==
  ASSUME NEW daily \in Seq(Multiples(Unit)), m_minBars <= Len(daily), NEW n \in {Slow, Fast}
  PROVE  /\ MA(Held(daily), n) \in Int
         /\ Total(daily, 1, n) = n * MA(Held(daily), n)
<1>1. n \in Nat \ {0} /\ n <= m_minBars /\ m_minBars \in Nat
  BY Lengths
<1>2. daily \in Seq(Int)
  BY PricesAreIntegers, MultiplesAdd, SeqDef
<1>3. n <= Len(Held(daily)) /\ SubSeq(Held(daily), 1, n) = SubSeq(daily, 1, n)
  BY <1>1, <1>2, HeldWindow
<1>4. PICK a \in Int : Total(daily, 1, n) = n * a
  <2>1. 1 \in Nat \ {0} /\ 1 + n - 1 <= Len(daily)
    BY <1>1
  <2> QED  BY <2>1, WindowSum
<1>5. Total(daily, 1, n) = FoldLeft(+, 0, SubSeq(daily, 1, n))
  <2>1. 1 + n - 1 = n
    BY <1>1
  <2> QED  BY <2>1 DEF Total
<1>6. MA(Held(daily), n) = (n * a) \div n
  <2>1. ~(Len(Held(daily)) < n)
    BY <1>1, <1>3 DEF Held
  <2> QED  BY <1>3, <1>4, <1>5, <2>1 DEF MA
<1> QED  BY <1>1, <1>4, <1>6, Quotient

\* The window that begins one bar earlier.
LEMMA EarlierWindow ==
  ASSUME NEW daily \in Seq(Int), NEW n \in Nat \ {0}, n < Len(daily)
  PROVE  Total(Tail(daily), 1, n) = Total(daily, 2, n)
<1>1. SubSeq(Tail(daily), 1, 1 + n - 1) = SubSeq(daily, 2, 2 + n - 1)
  OBVIOUS
<1> QED  BY <1>1 DEF Total

\* What the strategy tests is what a crossing is.
LEMMA BuysAtCrossings ==
  ASSUME NEW daily \in Seq(Multiples(Unit)), m_minBars < Len(daily),
         NEW cont, cont[1] = Avg(daily), cont[2] = Avg(Tail(daily))
  PROVE  Buys(cont) <=> Crosses(daily)
<1> DEFINE s1 == MA(Held(daily), Slow)
           f1 == MA(Held(daily), Fast)
           s2 == MA(Held(Tail(daily)), Slow)
           f2 == MA(Held(Tail(daily)), Fast)
<1>1. /\ Slow \in Nat \ {0} /\ Fast \in Nat \ {0}
      /\ m_minBars \in Nat \ {0} /\ Slow <= m_minBars /\ Fast <= m_minBars
  BY Lengths
<1>2. daily \in Seq(Int) /\ daily # <<>>
  BY <1>1, PricesAreIntegers, MultiplesAdd, SeqDef
<1>3. Tail(daily) \in Seq(Multiples(Unit)) /\ Len(Tail(daily)) = Len(daily) - 1
  BY <1>2
<1>4. m_minBars <= Len(daily) /\ m_minBars <= Len(Tail(daily))
  BY <1>1, <1>3
<1>5. /\ s1 \in Int /\ f1 \in Int /\ s2 \in Int /\ f2 \in Int
      /\ Total(daily, 1, Slow) = Slow * s1 /\ Total(daily, 1, Fast) = Fast * f1
      /\ Total(Tail(daily), 1, Slow) = Slow * s2 /\ Total(Tail(daily), 1, Fast) = Fast * f2
  BY <1>3, <1>4, Average
<1>6. Total(daily, 2, Slow) = Slow * s2 /\ Total(daily, 2, Fast) = Fast * f2
  <2>1. Slow < Len(daily) /\ Fast < Len(daily)
    BY <1>1
  <2>2. Total(Tail(daily), 1, Slow) = Total(daily, 2, Slow)
    BY <1>1, <1>2, <2>1, EarlierWindow
  <2>3. Total(Tail(daily), 1, Fast) = Total(daily, 2, Fast)
    BY <1>1, <1>2, <2>1, EarlierWindow
  <2> HIDE DEF s1, f1, s2, f2
  <2> QED  BY <1>5, <2>2, <2>3
<1>7. cont[1].s = s1 /\ cont[1].f = f1 /\ cont[2].s = s2 /\ cont[2].f = f2
  BY DEF Avg
<1> HIDE DEF s1, f1, s2, f2
<1> DEFINE p == Slow * Fast
<1>8. /\ p \in Nat \ {0}
      /\ (Slow * s1) * Fast = p * s1 /\ (Slow * s2) * Fast = p * s2
      /\ (Fast * f1) * Slow = p * f1 /\ (Fast * f2) * Slow = p * f2
  BY <1>1, <1>5
<1> HIDE DEF p
<1>9. Crosses(daily) <=> p * s2 < p * s1 /\ p * f2 < p * s2 /\ p * f1 > p * s1
  BY <1>5, <1>6, <1>8 DEF Crosses, SlowTotal, FastTotal
<1>10. /\ s2 < s1 <=> p * s2 < p * s1
       /\ f2 < s2 <=> p * f2 < p * s2
       /\ s1 < f1 <=> p * s1 < p * f1
  BY <1>5, <1>8, Scaled
<1>11. p * s1 \in Int /\ p * f1 \in Int
  BY <1>5, <1>8, Scaled
<1>12. Buys(cont) <=> s2 < s1 /\ f1 > s1 /\ f2 < s2
  BY <1>7 DEF Buys
<1> QED  BY <1>5, <1>9, <1>10, <1>11, <1>12
----------------------------------------------------------------------------
(* The container of averages.                                              *)

\* The newest bar of the container is of the averages up to the newest finished day, and
\* once the bar of the open day is there, the one behind it is.
AveragesOK ==
  /\ opens \in Seq(Multiples(Unit)) /\ closes \in Seq(Multiples(Unit))
  /\ m_tsCont \in Seq(Averages) /\ Len(m_tsCont) = IF stored < 2 THEN stored ELSE 2
  /\ barOpen => dayOpen
  /\ strategy = "MaCrossO" => (stored >= 1 => m_tsCont[1] = Avg(opens))
  /\ strategy = "MaCross" /\ ~dayOpen =>
       ~m_bTradedThisDay /\ (stored >= 1 => m_tsCont[1] = Avg(closes))
  /\ strategy = "MaCross" /\ dayOpen =>
       /\ m_bTradedThisDay => Traded(date) /\ date >= m_minBars
       /\ m_dayBarAdded # date /\ stored >= 1 => m_tsCont[1] = Avg(Tail(closes))
       /\ m_dayBarAdded = date /\ stored >= 2 => m_tsCont[2] = Avg(Tail(closes))

LEMMA AverageIsValue ==
  ASSUME NEW daily \in Seq(Multiples(Unit))
  PROVE  Avg(daily) \in Averages
<1>1. daily \in Seq(Int)
  BY PricesAreIntegers, MultiplesAdd, SeqDef
<1>2. Held(daily) \in Seq(Int)
  <2>1. m_minBars \in Nat \ {0}
    BY Lengths
  <2> QED  BY <1>1, <2>1 DEF Held
<1>3. ASSUME NEW n \in {Slow, Fast} PROVE MA(Held(daily), n) \in Value
  <2>1. n \in Nat \ {0}
    BY Lengths
  <2>2. CASE Len(Held(daily)) < n
    BY <2>2 DEF MA, Value
  <2>3. CASE ~(Len(Held(daily)) < n)
    <3> DEFINE w == SubSeq(Held(daily), 1, n)
    <3>1. w \in Seq(Int)
      BY <1>2, <2>1, <2>3
    <3> HIDE DEF w
    <3>2. FoldLeft(+, 0, w) \in Int
      <4> DEFINE M == Int
      <4>1. 0 \in M /\ (\A x, y \in M : x + y \in M) /\ w \in Seq(M)
        BY <3>1
      <4> HIDE DEF M
      <4>2. FoldLeft(+, 0, w) \in M
        BY <4>1, SumIn
      <4> QED  BY <4>2 DEF M
    <3>3. FoldLeft(+, 0, w) \div n \in Int
      <4> DEFINE x == FoldLeft(+, 0, w)
      <4>1. x \in Int
        BY <3>2
      <4> HIDE DEF x
      <4>2. x \div n \in Int
        BY <2>1, <4>1
      <4> QED  BY <4>2 DEF x
    <3> QED  BY <2>3, <3>3 DEF MA, Value, w
  <2> QED  BY <2>2, <2>3
<1> QED  BY <1>3 DEF Avg, Averages

\* What a placeholder and the averages into it make of the container.
LEMMA Stores ==
  ASSUME NEW cont \in Seq(Averages), NEW daily \in Seq(Multiples(Unit))
  PROVE  /\ Updated(StoreBar(cont), daily) \in Seq(Averages)
         /\ Len(StoreBar(cont)) = IF Len(cont) = 0 THEN 1 ELSE 2
         /\ Len(Updated(StoreBar(cont), daily)) = IF Len(cont) = 0 THEN 1 ELSE 2
         /\ Updated(StoreBar(cont), daily)[1] = Avg(daily)
         /\ Len(cont) >= 1 => Updated(StoreBar(cont), daily)[2] = cont[1]
<1> DEFINE ph == [s |-> 0, f |-> 0]
           c == StoreBar(cont)
<1>1. ph \in Averages /\ Avg(daily) \in Averages
  BY AverageIsValue DEF Averages, Value
<1>2. /\ c \in Seq(Averages) /\ Len(c) = IF Len(cont) = 0 THEN 1 ELSE 2
      /\ Len(cont) >= 1 => c[2] = cont[1]
  <2>1. <<ph>> \o cont \in Seq(Averages) /\ Len(<<ph>> \o cont) = 1 + Len(cont)
    BY <1>1
  <2>2. cont # <<>> => (<<ph>> \o cont)[2] = cont[1]
    BY <1>1
  <2> DEFINE all == <<ph>> \o cont
  <2>3. c = SubSeq(all, 1, IF cont = <<>> THEN 1 ELSE 2)
    BY DEF StoreBar
  <2> HIDE DEF c, ph, all
  <2> QED  BY <2>1, <2>2, <2>3 DEF all
<1> HIDE DEF c, ph
<1>3. Updated(c, daily) = [c EXCEPT ![1] = Avg(daily)]
  BY DEF Updated, Avg
<1>4. 1 \in 1 .. Len(c) /\ Len(c) \in Nat
  BY <1>2
<1>5. /\ Updated(c, daily) \in Seq(Averages) /\ Len(Updated(c, daily)) = Len(c)
      /\ Updated(c, daily)[1] = Avg(daily)
      /\ Len(c) >= 2 => Updated(c, daily)[2] = c[2]
  BY <1>1, <1>2, <1>3, <1>4, ExceptSeq
<1> QED  BY <1>2, <1>5 DEF c

LEMMA Updates ==
  ASSUME NEW cont \in Seq(Averages), Len(cont) >= 1, NEW daily \in Seq(Multiples(Unit))
  PROVE  /\ Updated(cont, daily) \in Seq(Averages) /\ Len(Updated(cont, daily)) = Len(cont)
         /\ Updated(cont, daily)[1] = Avg(daily)
         /\ Len(cont) >= 2 => Updated(cont, daily)[2] = cont[2]
<1>1. Avg(daily) \in Averages
  BY AverageIsValue
<1>2. Updated(cont, daily) = [cont EXCEPT ![1] = Avg(daily)]
  BY DEF Updated, Avg
<1>3. 1 \in 1 .. Len(cont)
  OBVIOUS
<1> QED  BY <1>1, <1>2, <1>3, ExceptSeq

\* The opening of a base bar with the daily bars `daily' on the day `on'.
BaseOpened(daily, on, at) ==
  /\ m_tsCont' \in Seq(Averages) /\ Len(m_tsCont') = IF stored' < 2 THEN stored' ELSE 2
  /\ m_dayBarAdded' # on /\ stored' >= 1 => m_tsCont'[1] = Avg(Tail(daily))
  /\ m_dayBarAdded' = on /\ stored' >= 2 => m_tsCont'[2] = Avg(Tail(daily))
  /\ m_minBars <= Len(daily) /\ at >= EarliestDecisionMoment /\ ~m_bTradedThisDay =>
       m_dayBarAdded' = on
  /\ IF /\ m_minBars <= Len(daily) /\ at >= EarliestDecisionMoment
        /\ ~m_bTradedThisDay /\ stored' >= 2
     THEN /\ m_tsCont'[1] = Avg(daily) /\ m_tsCont'[2] = Avg(Tail(daily))
          /\ Decide(m_tsCont', on, at) /\ m_bTradedThisDay' = Buys(m_tsCont')
     ELSE UNCHANGED <<orders, m_bTradedThisDay>>

LEMMA BaseOpenAverages ==
  ASSUME NEW daily \in Seq(Multiples(Unit)), NEW on, NEW at \in Int,
         m_tsCont \in Seq(Averages), stored \in Nat,
         Len(m_tsCont) = IF stored < 2 THEN stored ELSE 2,
         m_dayBarAdded # on /\ stored >= 1 => m_tsCont[1] = Avg(Tail(daily)),
         m_dayBarAdded = on /\ stored >= 2 => m_tsCont[2] = Avg(Tail(daily)),
         m_dayBarAdded = on => stored >= 1,
         OnBaseTFOpen(daily, on, at)
  PROVE  BaseOpened(daily, on, at)
<1>1. m_minBars \in Nat /\ EarliestDecisionMoment \in Int
  BY Lengths, MomentIsATime
<1>2. CASE m_minBars > TotalBars(daily) \/ at < EarliestDecisionMoment \/ m_bTradedThisDay
  <2>1. UNCHANGED strat
    BY <1>2 DEF OnBaseTFOpen
  <2>2. ~(/\ m_minBars <= Len(daily) /\ at >= EarliestDecisionMoment
          /\ ~m_bTradedThisDay)
    BY <1>1, <1>2 DEF TotalBars
  <2> QED  BY <2>1, <2>2 DEF strat, BaseOpened
<1>3. CASE ~(m_minBars > TotalBars(daily) \/ at < EarliestDecisionMoment \/ m_bTradedThisDay)
  <2> DEFINE new == m_dayBarAdded # on
             cont == IF new THEN StoreBar(m_tsCont) ELSE m_tsCont
  <2>1. /\ m_tsCont' = Updated(cont, daily)
        /\ stored' = IF new THEN stored + 1 ELSE stored
        /\ m_dayBarAdded' = on
        /\ IF Len(cont) < 2 THEN UNCHANGED <<orders, m_bTradedThisDay>>
           ELSE Decide(m_tsCont', on, at) /\ m_bTradedThisDay' = Buys(m_tsCont')
    BY <1>3 DEF OnBaseTFOpen
  <2>2. /\ m_tsCont' \in Seq(Averages) /\ Len(m_tsCont') = Len(cont)
        /\ Len(cont) = (IF stored' < 2 THEN stored' ELSE 2) /\ stored' \in Nat
        /\ m_tsCont'[1] = Avg(daily)
        /\ stored' >= 2 => m_tsCont'[2] = Avg(Tail(daily))
    <3>1. CASE new
      <4>1. cont = StoreBar(m_tsCont) /\ stored' = stored + 1
        BY <2>1, <3>1
      <4> HIDE DEF cont, new
      <4>2. /\ m_tsCont' \in Seq(Averages) /\ Len(cont) = IF Len(m_tsCont) = 0 THEN 1 ELSE 2
            /\ Len(m_tsCont') = Len(cont) /\ m_tsCont'[1] = Avg(daily)
            /\ Len(m_tsCont) >= 1 => m_tsCont'[2] = m_tsCont[1]
        BY <2>1, <4>1, Stores
      <4> QED  BY <3>1, <4>1, <4>2 DEF new
    <3>2. CASE ~new
      <4>1. cont = m_tsCont /\ stored' = stored /\ stored >= 1
        BY <2>1, <3>2
      <4>2. Len(m_tsCont) >= 1
        BY <4>1
      <4> HIDE DEF cont, new
      <4>3. /\ m_tsCont' \in Seq(Averages) /\ Len(m_tsCont') = Len(m_tsCont)
            /\ m_tsCont'[1] = Avg(daily)
            /\ Len(m_tsCont) >= 2 => m_tsCont'[2] = m_tsCont[2]
        BY <2>1, <4>1, <4>2, Updates
      <4> QED  BY <3>2, <4>1, <4>3 DEF new
    <3> QED  BY <3>1, <3>2
  <2>3. /\ m_minBars <= Len(daily) /\ at >= EarliestDecisionMoment /\ ~m_bTradedThisDay
    BY <1>1, <1>3 DEF TotalBars
  <2> HIDE DEF cont, new
  <2>4. Len(cont) < 2 <=> ~(stored' >= 2)
    BY <2>2
  <2> QED  BY <2>1, <2>2, <2>3, <2>4 DEF BaseOpened
<1> QED  BY <1>2, <1>3

\* Dates of orders are before the open day unless the strategy has traded in it.
LEMMA TradedToday ==
  ASSUME OrdersInv, AveragesOK, strategy = "MaCross", dayOpen
  PROVE  m_bTradedThisDay <=> Traded(date)
<1>1. \A i \in DOMAIN orders : orders[i].date \in Int
  BY OrderDates DEF OrdersInv, OrdersOK
<1>2. date \in Int
  BY DEF OrdersInv, BarsInv, DaysOK
<1>3. ~m_bTradedThisDay => \A i \in DOMAIN orders : orders[i].date < date
  BY DEF OrdersInv, OrdersOK
<1>4. ~m_bTradedThisDay => \A i \in DOMAIN orders : orders[i].date # date
  BY <1>1, <1>2, <1>3
<1> QED  BY <1>4 DEF AveragesOK, Traded

\* An order of the day on is among the orders once it is appended.
LEMMA AppendedIsTraded ==
  ASSUME orders \in Seq([date : Int, time : Int]), NEW on \in Int, NEW at \in Int,
         orders' = Append(orders, [date |-> on, time |-> at])
  PROVE  \E i \in DOMAIN orders' : orders'[i].date = on
<1> DEFINE new == [date |-> on, time |-> at]
<1>1. new \in [date : Int, time : Int] /\ new.date = on
  OBVIOUS
<1> HIDE DEF new
<1>2. orders' = Append(orders, new)
  BY DEF new
<1>3. Len(orders) + 1 \in DOMAIN orders' /\ orders'[Len(orders) + 1] = new
  BY <1>1, <1>2
<1> QED  BY <1>1, <1>3

\* The averages after the opening of a base bar.
LEMMA BaseOpenedKeeps ==
  ASSUME OrdersInv, NEW daily \in Seq(Multiples(Unit)), NEW on \in Int, NEW at \in Int,
         BaseOpened(daily, on, at), Len(daily) = on,
         m_bTradedThisDay => Traded(on) /\ on >= m_minBars
  PROVE  m_bTradedThisDay' =>
           on >= m_minBars /\ \E i \in DOMAIN orders' : orders'[i].date = on
<1> DEFINE deciding == /\ m_minBars <= Len(daily) /\ at >= EarliestDecisionMoment
                       /\ ~m_bTradedThisDay /\ stored' >= 2
<1>1. orders \in Seq([date : Int, time : Int]) /\ m_minBars \in Int
  BY MinBars DEF OrdersInv, OrdersOK
<1>2. CASE deciding
  <2>1. Decide(m_tsCont', on, at) /\ m_bTradedThisDay' = Buys(m_tsCont') /\ on >= m_minBars
    BY <1>1, <1>2 DEF BaseOpened
  <2>2. CASE Buys(m_tsCont')
    <3>1. orders' = Append(orders, [date |-> on, time |-> at])
      BY <2>1, <2>2 DEF Decide
    <3> QED  BY <1>1, <2>1, <3>1, AppendedIsTraded
  <2> QED  BY <2>1, <2>2
<1>3. CASE ~deciding
  BY <1>3 DEF BaseOpened, Traded
<1> QED  BY <1>2, <1>3

LEMMA NewDay ==
  ASSUME NEW q \in Prices, NEW s \in Seq(Multiples(Unit))
  PROVE  /\ <<q * Unit>> \o s \in Seq(Multiples(Unit)) /\ Tail(<<q * Unit>> \o s) = s
         /\ Len(<<q * Unit>> \o s) = 1 + Len(s)
<1>1. q * Unit \in Multiples(Unit)
  <2>1. q \in Int /\ Unit \in Int /\ q * Unit = Unit * q
    BY PricesAreIntegers
  <2> QED  BY <2>1 DEF Multiples
<1> DEFINE x == q * Unit
<1> HIDE DEF x
<1>2. x \in Multiples(Unit)
  BY <1>1 DEF x
<1>3. <<x>> \o s \in Seq(Multiples(Unit)) /\ Tail(<<x>> \o s) = s /\ Len(<<x>> \o s) = 1 + Len(s)
  BY <1>2
<1> QED  BY <1>3 DEF x

\* The last price of the day moves its close.
LEMMA NewClose ==
  ASSUME NEW q \in Prices, NEW s \in Seq(Multiples(Unit)), Len(s) > 0
  PROVE  /\ [s EXCEPT ![1] = q * Unit] \in Seq(Multiples(Unit))
         /\ Tail([s EXCEPT ![1] = q * Unit]) = Tail(s)
<1> DEFINE x == q * Unit
           t == [s EXCEPT ![1] = x]
<1>1. x \in Multiples(Unit)
  <2>1. q \in Int /\ Unit \in Int /\ q * Unit = Unit * q
    BY PricesAreIntegers
  <2> QED  BY <2>1 DEF Multiples
<1> HIDE DEF x
<1>2. 1 \in 1 .. Len(s)
  OBVIOUS
<1>3. /\ t \in Seq(Multiples(Unit)) /\ Len(t) = Len(s)
      /\ \A i \in 1 .. Len(s) : i # 1 => t[i] = s[i]
  BY <1>1, <1>2, ExceptSeq
<1> HIDE DEF t
<1>4. Tail(t) = Tail(s)
  <2>1. /\ Tail(t) \in Seq(Multiples(Unit)) /\ Tail(s) \in Seq(Multiples(Unit))
        /\ Len(Tail(t)) = Len(s) - 1 /\ Len(Tail(s)) = Len(s) - 1
        /\ \A i \in 1 .. Len(s) - 1 : Tail(t)[i] = t[i + 1] /\ Tail(s)[i] = s[i + 1]
    BY <1>3
  <2>2. \A i \in 1 .. Len(s) - 1 : Tail(t)[i] = Tail(s)[i]
    BY <1>3, <2>1
  <2> QED  BY <2>1, <2>2, SeqEqual
<1> QED  BY <1>3, <1>4 DEF t, x

AveragesInv == OrdersInv /\ AveragesOK

LEMMA AveragesInit == Init => AveragesOK
<1> SUFFICES ASSUME Init PROVE AveragesOK
  OBVIOUS
<1>1. <<>> \in Seq(Multiples(Unit)) /\ <<>> \in Seq(Averages) /\ Len(<<>>) = 0
  OBVIOUS
<1>2. opens = <<>> /\ closes = <<>> /\ m_tsCont = <<>> /\ stored = 0
  BY DEF Init
<1>3. ~barOpen /\ ~dayOpen /\ ~m_bTradedThisDay
  BY DEF Init
<1> QED  BY <1>1, <1>2, <1>3 DEF AveragesOK

LEMMA CloseDayAverages == AveragesInv /\ CloseDay => AveragesOK'
<1> SUFFICES ASSUME AveragesInv, CloseDay PROVE AveragesOK'
  OBVIOUS
<1>1. /\ dayOpen /\ ~barOpen /\ ~dayOpen' /\ ~barOpen'
      /\ UNCHANGED <<strategy, opens, closes, date>>
  BY DEF CloseDay
<1>2. /\ opens \in Seq(Multiples(Unit)) /\ closes \in Seq(Multiples(Unit))
      /\ m_tsCont \in Seq(Averages) /\ Len(m_tsCont) = IF stored < 2 THEN stored ELSE 2
      /\ strategy = "MaCrossO" => (stored >= 1 => m_tsCont[1] = Avg(opens))
  BY DEF AveragesInv, AveragesOK
<1>3. /\ date \in Nat /\ Len(closes) = date /\ stored \in Nat /\ m_minBars \in Nat \ {0}
      /\ strategy \in {"MaCross", "MaCrossO"}
  BY MinBars DEF AveragesInv, OrdersInv, BarsInv, DaysOK, StoredOK
<1>4. CASE strategy = "MaCross" /\ m_minBars > date
  <2>1. UNCHANGED strat
    BY <1>3, <1>4 DEF CloseDay, OnMainTFClose, TotalBars
  <2>2. ~m_bTradedThisDay
    BY <1>1, <1>3, <1>4 DEF AveragesInv, AveragesOK
  <2>3. stored = 0
    BY <1>1, <1>3, <1>4 DEF AveragesInv, OrdersInv, BarsInv, StoredOK, BarsOf
  <2> QED  BY <1>1, <1>2, <1>4, <2>1, <2>2, <2>3 DEF AveragesOK, strat
<1>5. CASE strategy = "MaCross" /\ ~(m_minBars > date)
  <2> DEFINE new == m_dayBarAdded # date
  <2>1. /\ m_tsCont' = Updated(IF new THEN StoreBar(m_tsCont) ELSE m_tsCont, closes)
        /\ stored' = IF new THEN stored + 1 ELSE stored
        /\ m_bTradedThisDay' = FALSE
    BY <1>3, <1>5 DEF CloseDay, OnMainTFClose, TotalBars
  <2>2. /\ m_tsCont' \in Seq(Averages) /\ Len(m_tsCont') = IF stored' < 2 THEN stored' ELSE 2
        /\ m_tsCont'[1] = Avg(closes)
    <3>1. CASE new
      <4>1. m_tsCont' = Updated(StoreBar(m_tsCont), closes) /\ stored' = stored + 1
        BY <2>1, <3>1
      <4>2. /\ m_tsCont' \in Seq(Averages) /\ m_tsCont'[1] = Avg(closes)
            /\ Len(m_tsCont') = IF Len(m_tsCont) = 0 THEN 1 ELSE 2
        BY <1>2, <4>1, Stores
      <4> QED  BY <1>2, <1>3, <4>1, <4>2
    <3>2. CASE ~new
      <4>1. m_tsCont' = Updated(m_tsCont, closes) /\ stored' = stored
        BY <2>1, <3>2
      <4>2. stored >= 1
        BY <1>1, <1>3, <1>5, <3>2 DEF AveragesInv, OrdersInv, BarsInv, StoredOK, BarsOf
      <4>3. Len(m_tsCont) >= 1
        BY <1>2, <1>3, <4>2
      <4> QED  BY <1>2, <4>1, <4>3, Updates
    <3> QED  BY <3>1, <3>2
  <2> QED  BY <1>1, <1>2, <1>5, <2>1, <2>2 DEF AveragesOK
<1>6. CASE strategy = "MaCrossO"
  <2>1. UNCHANGED strat
    BY <1>6 DEF CloseDay
  <2> QED  BY <1>1, <1>2, <1>6, <2>1 DEF AveragesOK, strat
<1> QED  BY <1>3, <1>4, <1>5, <1>6

\* The new day of MaCross, with the averages as the opening of its base bar leaves them.
LEMMA OpenDayMaCross ==
  ASSUME AveragesInv, OpenDay, strategy = "MaCross"
  PROVE  /\ opens' \in Seq(Multiples(Unit)) /\ closes' \in Seq(Multiples(Unit))
         /\ date' = date + 1 /\ Len(closes') = date' /\ Tail(closes') = closes
         /\ time' \in Int /\ BaseOpened(closes', date', time')
<1>1. PICK q \in Prices : opens' = <<q * Unit>> \o opens /\ closes' = <<q * Unit>> \o closes
  BY DEF OpenDay
<1>2. /\ opens \in Seq(Multiples(Unit)) /\ closes \in Seq(Multiples(Unit))
      /\ m_tsCont \in Seq(Averages) /\ Len(m_tsCont) = IF stored < 2 THEN stored ELSE 2
      /\ ~dayOpen => (stored >= 1 => m_tsCont[1] = Avg(closes))
  BY DEF AveragesInv, AveragesOK
<1>3. date \in Nat /\ Len(closes) = date /\ stored \in Nat /\ m_dayBarAdded \in Nat
      /\ m_dayBarAdded <= date
  BY DEF AveragesInv, OrdersInv, BarsInv, DaysOK, StoredOK
<1>4. /\ opens' \in Seq(Multiples(Unit)) /\ closes' \in Seq(Multiples(Unit))
      /\ Tail(closes') = closes /\ Len(closes') = 1 + Len(closes)
  BY <1>1, <1>2, NewDay
<1>5. /\ ~dayOpen /\ date' = date + 1 /\ time' \in Int
      /\ OnBaseTFOpen(closes', date', time')
  BY DEF OpenDay
<1>6. m_dayBarAdded # date'
  BY <1>3, <1>5
<1>7. BaseOpened(closes', date', time')
  BY <1>2, <1>3, <1>4, <1>5, <1>6, BaseOpenAverages
<1> QED  BY <1>3, <1>4, <1>5, <1>7

\* A new day of MaCrossO.
LEMMA OpenDayMaCrossO ==
  ASSUME AveragesInv, OpenDay, strategy = "MaCrossO"
  PROVE  /\ opens' \in Seq(Multiples(Unit)) /\ closes' \in Seq(Multiples(Unit))
         /\ date' = date + 1 /\ Len(opens') = date' /\ Tail(opens') = opens
         /\ m_tsCont' \in Seq(Averages)
         /\ Len(m_tsCont') = IF Len(m_tsCont) = 0 THEN 1 ELSE 2
         /\ m_tsCont'[1] = Avg(opens')
         /\ stored >= 1 => m_tsCont'[2] = Avg(opens)
<1>1. PICK q \in Prices : opens' = <<q * Unit>> \o opens /\ closes' = <<q * Unit>> \o closes
  BY DEF OpenDay
<1>2. /\ opens \in Seq(Multiples(Unit)) /\ closes \in Seq(Multiples(Unit))
      /\ m_tsCont \in Seq(Averages) /\ Len(m_tsCont) = IF stored < 2 THEN stored ELSE 2
      /\ stored >= 1 => m_tsCont[1] = Avg(opens)
  BY DEF AveragesInv, AveragesOK
<1>3. date \in Nat /\ Len(opens) = date /\ stored \in Nat
  BY DEF AveragesInv, OrdersInv, BarsInv, DaysOK, StoredOK
<1>4. /\ opens' \in Seq(Multiples(Unit)) /\ closes' \in Seq(Multiples(Unit))
      /\ Tail(opens') = opens /\ Len(opens') = 1 + Len(opens)
  BY <1>1, <1>2, NewDay
<1>5. date' = date + 1 /\ m_tsCont' = Updated(StoreBar(m_tsCont), opens')
  BY DEF OpenDay, OnMainTFOpen
<1>6. /\ m_tsCont' \in Seq(Averages) /\ Len(m_tsCont') = IF Len(m_tsCont) = 0 THEN 1 ELSE 2
      /\ m_tsCont'[1] = Avg(opens')
      /\ Len(m_tsCont) >= 1 => m_tsCont'[2] = m_tsCont[1]
  BY <1>2, <1>4, <1>5, Stores
<1>7. stored >= 1 => Len(m_tsCont) >= 1
  BY <1>2, <1>3
<1> QED  BY <1>2, <1>3, <1>4, <1>5, <1>6, <1>7

\* A further base bar of the day of MaCross.
LEMMA OpenBarMaCross ==
  ASSUME AveragesInv, OpenBar, strategy = "MaCross"
  PROVE  closes \in Seq(Multiples(Unit)) /\ time' \in Int /\ BaseOpened(closes, date, time')
<1>1. /\ dayOpen /\ time' \in Int /\ OnBaseTFOpen(closes, date, time')
  <2>1. time \in Int
    BY DEF AveragesInv, OrdersInv, OrdersOK
  <2> QED  BY <2>1 DEF OpenBar
<1>2. /\ closes \in Seq(Multiples(Unit)) /\ m_tsCont \in Seq(Averages)
      /\ Len(m_tsCont) = IF stored < 2 THEN stored ELSE 2
      /\ m_dayBarAdded # date /\ stored >= 1 => m_tsCont[1] = Avg(Tail(closes))
      /\ m_dayBarAdded = date /\ stored >= 2 => m_tsCont[2] = Avg(Tail(closes))
  BY <1>1 DEF AveragesInv, AveragesOK
<1>3. stored \in Nat /\ (m_dayBarAdded = date => stored >= 1)
  BY <1>1, MinBars DEF AveragesInv, OrdersInv, BarsInv, DaysOK, StoredOK, BarsOf
<1> QED  BY <1>1, <1>2, <1>3, BaseOpenAverages

LEMMA AveragesStep == AveragesInv /\ [Next]_vars => AveragesOK'
<1> SUFFICES ASSUME AveragesInv, [Next]_vars PROVE AveragesOK'
  OBVIOUS
<1>1. /\ date \in Nat /\ Len(closes) = date /\ stored \in Nat /\ m_minBars \in Nat \ {0}
      /\ m_dayBarAdded \in Nat /\ m_dayBarAdded <= date
      /\ strategy \in {"MaCross", "MaCrossO"} /\ OrdersInv
  BY MinBars DEF AveragesInv, OrdersInv, BarsInv, DaysOK, StoredOK
<1>2. CASE CloseDay
  BY <1>2, CloseDayAverages
<1>3. CASE OpenDay
  <2>1. ~dayOpen /\ dayOpen' /\ strategy' = strategy
    BY <1>3 DEF OpenDay
  <2>2. CASE strategy = "MaCross"
    <3>1. /\ opens' \in Seq(Multiples(Unit)) /\ closes' \in Seq(Multiples(Unit))
          /\ date' = date + 1 /\ Len(closes') = date' /\ Tail(closes') = closes
          /\ time' \in Int /\ BaseOpened(closes', date', time')
      BY <1>3, <2>2, OpenDayMaCross
    <3>2. ~m_bTradedThisDay
      BY <2>1, <2>2 DEF AveragesInv, AveragesOK
    <3>3. m_bTradedThisDay' =>
            date' >= m_minBars /\ \E i \in DOMAIN orders' : orders'[i].date = date'
      <4>1. date' \in Int
        BY <1>1, <3>1
      <4>2. m_bTradedThisDay => Traded(date') /\ date' >= m_minBars
        BY <3>2
      <4> QED  BY <1>1, <3>1, <4>1, <4>2, BaseOpenedKeeps
    <3> QED  BY <2>1, <2>2, <3>1, <3>3 DEF AveragesOK, BaseOpened, Traded
  <2>3. CASE strategy = "MaCrossO"
    <3>1. /\ opens' \in Seq(Multiples(Unit)) /\ closes' \in Seq(Multiples(Unit))
          /\ m_tsCont' \in Seq(Averages) /\ m_tsCont'[1] = Avg(opens')
          /\ Len(m_tsCont') = IF Len(m_tsCont) = 0 THEN 1 ELSE 2
      BY <1>3, <2>3, OpenDayMaCrossO
    <3>2. stored' = stored + 1
      BY <1>3, <2>3 DEF OpenDay, OnMainTFOpen
    <3>3. Len(m_tsCont) = IF stored < 2 THEN stored ELSE 2
      BY DEF AveragesInv, AveragesOK
    <3>4. Len(m_tsCont') = IF stored' < 2 THEN stored' ELSE 2
      BY <1>1, <3>1, <3>2, <3>3
    <3> QED  BY <2>1, <2>3, <3>1, <3>4 DEF AveragesOK
  <2> QED  BY <1>1, <2>2, <2>3
<1>4. CASE OpenBar
  <2>1. /\ dayOpen /\ dayOpen' /\ UNCHANGED <<strategy, opens, closes, date>>
    BY <1>4 DEF OpenBar
  <2>2. opens \in Seq(Multiples(Unit)) /\ closes \in Seq(Multiples(Unit))
    BY DEF AveragesInv, AveragesOK
  <2>3. CASE strategy = "MaCross"
    <3>1. time' \in Int /\ BaseOpened(closes, date, time')
      BY <1>4, <2>3, OpenBarMaCross
    <3>2. m_bTradedThisDay => Traded(date) /\ date >= m_minBars
      BY <2>1, <2>3 DEF AveragesInv, AveragesOK
    <3>3. m_bTradedThisDay' =>
            date >= m_minBars /\ \E i \in DOMAIN orders' : orders'[i].date = date
      BY <1>1, <2>2, <3>1, <3>2, BaseOpenedKeeps
    <3> QED  BY <2>1, <2>2, <2>3, <3>1, <3>3 DEF AveragesOK, BaseOpened, Traded
  <2>4. CASE strategy = "MaCrossO"
    <3>1. UNCHANGED strat
      BY <1>4, <2>4 DEF OpenBar
    <3> QED  BY <2>1, <2>4, <3>1 DEF AveragesInv, AveragesOK, strat
  <2> QED  BY <1>1, <2>3, <2>4
<1>5. CASE AggregateBar
  <2>1. /\ barOpen /\ ~barOpen' /\ UNCHANGED <<strategy, opens, date, dayOpen, strat>>
    BY <1>5 DEF AggregateBar
  <2>2. closes' \in Seq(Multiples(Unit)) /\ Tail(closes') = Tail(closes) /\ dayOpen
    <3>1. PICK q \in Prices : closes' = [closes EXCEPT ![1] = q * Unit]
      BY <1>5 DEF AggregateBar
    <3>2. closes \in Seq(Multiples(Unit)) /\ dayOpen
      BY <2>1 DEF AveragesInv, AveragesOK
    <3>3. Len(closes) > 0
      BY <1>1, <3>2 DEF AveragesInv, OrdersInv, BarsInv, DaysOK
    <3> QED  BY <3>1, <3>2, <3>3, NewClose
  <2> QED  BY <2>1, <2>2 DEF AveragesInv, AveragesOK, Traded, strat
<1>6. CASE UNCHANGED vars
  BY <1>6 DEF vars, AveragesInv, AveragesOK, Traded
<1> QED  BY <1>2, <1>3, <1>4, <1>5, <1>6 DEF Next

----------------------------------------------------------------------------
(* Orders and crossings.                                                   *)

\* The order that a step may place, and places at a deciding moment at which the
\* averages of `daily' cross.
Placed(daily, on, at, deciding) ==
  orders' = IF deciding /\ Crosses(daily) THEN Append(orders, [date |-> on, time |-> at])
            ELSE orders

\* The opening of a base bar places an order exactly if the averages cross.
LEMMA BaseOpenedPlaces ==
  ASSUME NEW daily \in Seq(Multiples(Unit)), NEW on \in Nat, NEW at \in Int,
         Len(daily) = on, BaseOpened(daily, on, at),
         stored' = IF m_dayBarAdded' = on THEN BarsOf(on - 1) + 1 ELSE BarsOf(on - 1),
         m_bTradedThisDay <=> Traded(on)
  PROVE  Placed(daily, on, at,
                Len(daily) > m_minBars /\ at >= EarliestDecisionMoment /\ ~Traded(on))
<1>1. m_minBars \in Nat \ {0} /\ EarliestDecisionMoment \in Int
  BY MinBars, MomentIsATime
<1> DEFINE acts == /\ m_minBars <= Len(daily) /\ at >= EarliestDecisionMoment
                   /\ ~m_bTradedThisDay
<1>2. acts => (stored' >= 2 <=> Len(daily) > m_minBars)
  <2>1. acts => m_dayBarAdded' = on
    BY DEF BaseOpened
  <2>2. acts => stored' = BarsOf(on - 1) + 1
    BY <2>1
  <2>3. BarsOf(on - 1) \in Nat /\ (BarsOf(on - 1) >= 1 <=> on > m_minBars)
    BY <1>1 DEF BarsOf
  <2> QED  BY <2>2, <2>3
<1>3. CASE acts /\ stored' >= 2
  <2>1. /\ m_tsCont'[1] = Avg(daily) /\ m_tsCont'[2] = Avg(Tail(daily))
        /\ Decide(m_tsCont', on, at)
    BY <1>3 DEF BaseOpened
  <2>2. m_minBars < Len(daily)
    BY <1>1, <1>2, <1>3
  <2>3. Buys(m_tsCont') <=> Crosses(daily)
    BY <2>1, <2>2, BuysAtCrossings
  <2> QED  BY <1>1, <1>3, <2>1, <2>2, <2>3 DEF Decide, Placed
<1>4. CASE ~(acts /\ stored' >= 2)
  <2>1. orders' = orders
    BY <1>4 DEF BaseOpened
  <2>2. ~(Len(daily) > m_minBars /\ at >= EarliestDecisionMoment /\ ~Traded(on))
    BY <1>1, <1>2, <1>4
  <2> QED  BY <2>1, <2>2 DEF Placed
<1> QED  BY <1>3, <1>4

LEMMA CrossingsStep ==
  AveragesInv /\ AveragesInv' /\ [Next]_vars =>
    LET daily == IF strategy = "MaCross" THEN closes' ELSE opens'
    IN  orders' = IF Decides /\ Crosses(daily)
                  THEN Append(orders, [date |-> date', time |-> time'])
                  ELSE orders
<1> DEFINE daily == IF strategy = "MaCross" THEN closes' ELSE opens'
<1> SUFFICES ASSUME AveragesInv, AveragesInv', [Next]_vars
             PROVE  Placed(daily, date', time', Decides)
  BY DEF Placed
<1>1. /\ date \in Nat /\ stored \in Nat /\ m_minBars \in Nat \ {0}
      /\ strategy \in {"MaCross", "MaCrossO"}
  BY MinBars DEF AveragesInv, OrdersInv, BarsInv, DaysOK, StoredOK
<1>2. ASSUME ~(barOpen' /\ ~barOpen), orders' = orders PROVE Placed(daily, date', time', Decides)
  BY <1>2 DEF Placed, Decides
<1>3. CASE CloseDay
  <2>1. barOpen' = barOpen /\ orders' = orders
    BY <1>3 DEF CloseDay, OnMainTFClose, strat
  <2> QED  BY <1>2, <2>1
<1>4. CASE OpenDay
  <2>1. ~barOpen /\ barOpen' /\ ~dayOpen /\ dayOpen' /\ strategy' = strategy
    BY <1>4 DEF OpenDay, AveragesInv, AveragesOK
  <2>2. CASE strategy = "MaCross"
    <3>1. /\ closes' \in Seq(Multiples(Unit)) /\ date' = date + 1 /\ Len(closes') = date'
          /\ time' \in Int /\ BaseOpened(closes', date', time')
      BY <1>4, <2>2, OpenDayMaCross
    <3>2. stored' = IF m_dayBarAdded' = date' THEN BarsOf(date' - 1) + 1 ELSE BarsOf(date' - 1)
      BY <2>1, <2>2 DEF AveragesInv, OrdersInv, BarsInv, StoredOK, BarsOf
    <3>3. ~m_bTradedThisDay /\ ~Traded(date')
      <4>1. \A i \in DOMAIN orders : orders[i].date \in Int /\ orders[i].date <= date
        BY OrderDates DEF AveragesInv, OrdersInv, OrdersOK
      <4>2. \A i \in DOMAIN orders : orders[i].date # date'
        BY <1>1, <3>1, <4>1
      <4> QED  BY <2>1, <2>2, <4>2 DEF AveragesInv, AveragesOK, Traded
    <3>4. date' \in Nat
      BY <1>1, <3>1
    <3>5. Placed(closes', date', time',
                 Len(closes') > m_minBars /\ time' >= EarliestDecisionMoment /\ ~Traded(date'))
      BY <3>1, <3>2, <3>3, <3>4, BaseOpenedPlaces
    <3> QED  BY <2>1, <2>2, <3>5 DEF Placed, Decides
  <2>3. CASE strategy = "MaCrossO"
    <3>1. /\ opens' \in Seq(Multiples(Unit)) /\ date' = date + 1 /\ Len(opens') = date'
          /\ Tail(opens') = opens /\ m_tsCont'[1] = Avg(opens')
          /\ stored >= 1 => m_tsCont'[2] = Avg(opens)
      BY <1>4, <2>3, OpenDayMaCrossO
    <3>2. IF Len(opens') >= 2 + m_minBars THEN Decide(m_tsCont', date', time')
          ELSE UNCHANGED orders
      BY <1>4, <2>3 DEF OpenDay, OnMainTFOpen, TotalBars
    <3>3. Decides <=> Len(opens') >= 2 + m_minBars
      BY <1>1, <2>1, <2>3, <3>1 DEF Decides
    <3>4. CASE Len(opens') >= 2 + m_minBars
      <4>1. stored = date
        BY <2>3 DEF AveragesInv, OrdersInv, BarsInv, StoredOK
      <4>2. m_minBars < Len(opens') /\ stored >= 1
        BY <1>1, <3>1, <3>4, <4>1
      <4>3. Buys(m_tsCont') <=> Crosses(opens')
        BY <3>1, <4>2, BuysAtCrossings
      <4> QED  BY <2>3, <3>2, <3>3, <3>4, <4>3 DEF Decide, Placed
    <3>5. CASE ~(Len(opens') >= 2 + m_minBars)
      BY <3>2, <3>3, <3>5 DEF Placed
    <3> QED  BY <3>4, <3>5
  <2> QED  BY <1>1, <2>2, <2>3
<1>5. CASE OpenBar
  <2>1. ~barOpen /\ barOpen' /\ dayOpen /\ dayOpen' /\ UNCHANGED <<strategy, closes, date>>
    BY <1>5 DEF OpenBar
  <2>2. CASE strategy = "MaCross"
    <3>1. /\ closes \in Seq(Multiples(Unit)) /\ time' \in Int
          /\ BaseOpened(closes, date, time')
      BY <1>5, <2>2, OpenBarMaCross
    <3>2. stored' = IF m_dayBarAdded' = date THEN BarsOf(date - 1) + 1 ELSE BarsOf(date - 1)
      BY <2>1, <2>2 DEF AveragesInv, OrdersInv, BarsInv, StoredOK, BarsOf
    <3>3. m_bTradedThisDay <=> Traded(date)
      BY <2>1, <2>2, TradedToday DEF AveragesInv
    <3>4. Len(closes) = date
      BY DEF AveragesInv, OrdersInv, BarsInv, DaysOK
    <3>5. Placed(closes, date, time',
                 Len(closes) > m_minBars /\ time' >= EarliestDecisionMoment /\ ~Traded(date))
      BY <1>1, <3>1, <3>2, <3>3, <3>4, BaseOpenedPlaces
    <3> QED  BY <2>1, <2>2, <3>5 DEF Placed, Decides
  <2>3. CASE strategy = "MaCrossO"
    <3>1. orders' = orders
      BY <1>5, <2>3 DEF OpenBar, strat
    <3>2. ~Decides
      BY <2>1, <2>3 DEF Decides
    <3> QED  BY <3>1, <3>2 DEF Placed
  <2> QED  BY <1>1, <2>2, <2>3
<1>6. CASE AggregateBar
  BY <1>2, <1>6 DEF AggregateBar, strat
<1>7. CASE UNCHANGED vars
  BY <1>2, <1>7 DEF vars
<1> QED  BY <1>3, <1>4, <1>5, <1>6, <1>7 DEF Next

\* The strategy places an order exactly at a deciding moment at which the fast average
\* has crossed the slow one, each taken over the whole history of daily bars: whichever
\* callbacks have added and rewritten the two bars of its container, they are the
\* averages of the open day and of the day before it when a decision is made.
THEOREM OrdersFollowCrossings == Spec => OrdersAreCrossings
<1>1. Init => AveragesInv
  BY OrdersInit, AveragesInit DEF AveragesInv
<1>2. AveragesInv /\ [Next]_vars => AveragesInv'
  BY BarsStep, OrdersStep, AveragesStep DEF AveragesInv, OrdersInv
<1>3. AveragesInv /\ AveragesInv' /\ [Next]_vars =>
        [ LET daily == IF strategy = "MaCross" THEN closes' ELSE opens'
          IN  orders' = IF Decides /\ Crosses(daily)
                        THEN Append(orders, [date |-> date', time |-> time'])
                        ELSE orders ]_vars
  BY CrossingsStep
<1> QED  BY <1>1, <1>2, <1>3, PTL DEF Spec, OrdersAreCrossings
============================================================================
