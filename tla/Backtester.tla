----------------------------- MODULE Backtester -----------------------------
(***************************************************************************)
(* The backtester: class backtester (exec/backtester.h) over               *)
(* tradingInterface (exec/tradingInterface.h), with the trades of          *)
(* TradeRecord and the stop orders of OrdersStop, for one ticker.          *)
(*                                                                         *)
(* The program is sequential and reentrant: while the backtester walks the *)
(* open trades or the waiting orders of a bar, every trade it opens or     *)
(* closes calls the strategy back, and the strategy may call in again.     *)
(* The pending calls are an explicit stack of frames, top first, so that   *)
(* every order of these calls is a behaviour.                              *)
(*                                                                         *)
(* A price of 0 stands for a level that is not set.  The minimal price     *)
(* step and the lot size are 1.                                            *)
(***************************************************************************)
EXTENDS TradeRecord, OrdersStop, SequencesExt

CONSTANTS
  MaxPrice,     \* bound on the prices of the market
  MaxShares,    \* bound on the volume of a trade
  MaxTrades,    \* bound on the number of trades ever opened
  MaxOrders,    \* bound on the number of stop orders ever placed
  MaxOpened,    \* setMaxOpenedPositions
  Sides,        \* the sides the strategy trades: a subset of BOOLEAN
  Times,        \* the times of the day that order filters tell apart
  TakeProfits,  \* the take profit levels the strategy uses: 0 and prices
  OpsInTrades,  \* what the strategy does when called back from the trades loop,
  OpsInOrders,  \* from the orders loop,
  OpsElsewhere  \* and at any other time: subsets of Ops

Ops == {"open", "close", "move", "stop", "drop"}
Prices == 1..MaxPrice
Levels == 0..MaxPrice

ASSUME PriceAssumption == MaxPrice \in Nat \ {0} /\ MaxShares \in Nat \ {0}
ASSUME CountAssumption == {MaxTrades, MaxOrders} \subseteq Nat
ASSUME OpenedAssumption == MaxOpened \in Nat \ {0}
ASSUME SideAssumption == Sides \subseteq BOOLEAN /\ TakeProfits \subseteq Levels
ASSUME OpsAssumption ==
  /\ OpsInTrades \subseteq Ops \ {"open"}
  /\ OpsInOrders \subseteq Ops \ {"open"}
  /\ OpsElsewhere \subseteq Ops

VARIABLES
  trades,    \* m_trades: [rec, sl, tp, openQ, closeQ, order] for each trade id
  opened,    \* m_OpenedTrades: ids of the trades that are not over
  orders,    \* m_ordersStop
  cash,      \* m_curPortfolioAmount, relative to the initial deposit
  bid, ask,  \* the best prices of the ticker
  quote,     \* the last quote of the ticker
  barOpen,   \* the open price of the bar in progress, 0 between bars
  stack,     \* the pending calls
  fault,     \* why the process has terminated, or "none"
  issued,    \* the number of stop orders placed so far
  dropped,   \* ids of the orders removed on request
  refused    \* ids of the orders executed while MaxOpened was reached

vars == <<trades, opened, orders, cash, bid, ask, quote, barOpen, stack, fault,
          issued, dropped, refused>>
book == <<trades, opened, cash>>
market == <<bid, ask, quote, barOpen>>
fates == <<issued, dropped, refused>>

\* A bar event: a bar that opens has one price, a bar that closes has four.
BarOpenEvent(q, time) ==
  [kind |-> "open", o |-> q, l |-> q, h |-> q, c |-> q, time |-> time]

BarCloseEvents ==
  { e \in [kind: {"close"}, o: {barOpen}, l: Prices, h: Prices, c: Prices,
           time: Times] :
      e.l <= e.o /\ e.l <= e.c /\ e.o <= e.h /\ e.c <= e.h }

Orders ==
  [long: Sides, lvl: Prices, sl: Levels, tp: TakeProfits, shares: 1..MaxShares,
   times: SUBSET Times, id: 1..MaxOrders]

\* A slot with no ticker is no order.
ASSUME CleanAssumption == Clean \notin Orders

Callback(id) == [at |-> "callback", id |-> id]

Where == IF stack = <<>> THEN "idle" ELSE Head(stack).at
Top(where) == fault = "none" /\ Where = where
Ev == Head(stack).ev
Rest == Tail(stack)

Fail(why) ==
  fault' = why /\ UNCHANGED <<book, market, orders, stack, fates>>

Init ==
  /\ trades = <<>> /\ opened = <<>> /\ orders = EmptyStore /\ cash = 0
  /\ bid = 0 /\ ask = 0 /\ quote = 0 /\ barOpen = 0
  /\ stack = <<>> /\ fault = "none"
  /\ issued = 0 /\ dropped = {} /\ refused = {}

-----------------------------------------------------------------------------
(* Opening and closing a trade, up to the callbacks they end with.         *)

\* The levels a trade on this side may have at this price (trade::trade).
StopsFit(long, q, sl, tp) ==
  /\ sl # 0 => IF long THEN q > sl ELSE q < sl
  /\ tp # 0 => IF long THEN q < tp ELSE q > tp

\* newMarketTrade: refused without a trace at the limit; a level that does not
\* fit throws out of the noexcept constructor; the executor reports the fill,
\* and a trade the fill has failed is removed and reported while it still has
\* its executor, and once more when the call comes back (AfterAbort).
SendOpen(long, shares, sl, tp, order, rest) ==
  LET q == IF long THEN ask ELSE bid
      id == Len(trades) + 1
      new == NewTrade(long, shares)
      deal == [isLong |-> long, vol |-> shares]
      verdict == DealVerdict(new, deal)
      Entry(rec) == [rec |-> rec, sl |-> sl, tp |-> tp, openQ |-> q,
                     closeQ |-> 0, order |-> order]
  IN
  \/ /\ Len(opened) >= MaxOpened
     /\ refused' = IF order = 0 THEN refused ELSE refused \cup {order}
     /\ stack' = rest
     /\ UNCHANGED <<book, market, orders, fault, issued, dropped>>
  \/ /\ Len(opened) < MaxOpened /\ ~StopsFit(long, q, sl, tp)
     /\ Fail("invalidStops")
  \/ /\ Len(opened) < MaxOpened /\ StopsFit(long, q, sl, tp)
     /\ verdict = "NoFailure"
     /\ trades' = Append(trades, Entry(AfterDealDone(new, deal)))
     /\ opened' = Append(opened, id)
     /\ cash' = cash - q * shares
     /\ stack' = <<Callback(id)>> \o rest
     /\ UNCHANGED <<market, orders, fault, fates>>
  \/ /\ Len(opened) < MaxOpened /\ StopsFit(long, q, sl, tp)
     /\ verdict # "NoFailure"
     /\ trades' = Append(trades, Entry(MarkFailed(Booked(new, deal), verdict)))
     /\ stack' = <<Callback(id), [at |-> "aborted", id |-> id]>> \o rest
     /\ UNCHANGED <<opened, cash, market, orders, fault, fates>>

\* The rest of _failed() and of _execTradeOpen for a trade its fill has failed.
AfterAbort ==
  /\ Top("aborted")
  /\ LET id == Head(stack).id
         t == trades[id]
     IN /\ trades' = [trades EXCEPT ![id].rec = Detach(@)]
        /\ cash' = cash - t.openQ * t.rec.planned
        /\ stack' = <<Callback(id)>> \o Rest
  /\ UNCHANGED <<opened, market, orders, fault, fates>>

\* tradeProfit
Profit(t, closeQ) ==
  (IF t.rec.isLong THEN closeQ - t.openQ ELSE t.openQ - closeQ) * t.rec.planned

\* What a closing deal brings back to the portfolio (_execTradeClose).
Proceeds_ProfitOnly(t, q) == Profit(t, q)
Proceeds(t, q) == Profit(t, q) + t.openQ * t.rec.inMarket

\* _removeTradeFromOpenedList: find and erase
Erase(list, id) ==
  LET found == {i \in DOMAIN list : list[i] = id}
  IN IF found = {} THEN list ELSE RemoveAt(list, Min(found))
WithoutTrade_Keeps(id) == opened
WithoutTrade(id) == Erase(opened, id)

\* closeByMarket of a trade with something in the market: filled at once.
SendClose(id, reason, rest) ==
  LET t == trades[id]
      q == IF t.rec.isLong THEN bid ELSE ask
      deal == [isLong |-> ~t.rec.isLong, vol |-> t.rec.inMarket]
  IN /\ trades' = [trades EXCEPT
           ![id].rec = AfterDealDone(AfterCloseRequest(@, reason), deal),
           ![id].closeQ = q]
     /\ cash' = cash + Proceeds(t, q)
     /\ opened' = WithoutTrade(id)
     /\ stack' = <<Callback(id)>> \o rest
     /\ UNCHANGED <<market, orders, fault, fates>>

-----------------------------------------------------------------------------
(* A bar event: scheduled callbacks, then the open trades, then the stop   *)
(* orders, then the ticker takes the new quote.                            *)

\* With no open trade nothing is checked before the orders.  The last frame
\* remembers which trades the bar has found (for the property StopsHonoured).
Handle(ev, before) ==
  stack' = (IF opened = <<>> THEN <<>>
            ELSE before \o <<[at |-> "enter", ev |-> ev]>>)
           \o <<[at |-> "scan", ev |-> ev],
                [at |-> "finish", ev |-> ev, found |-> Len(trades)]>>

OpenBar(q, time) ==
  /\ Top("idle") /\ barOpen = 0
  /\ LET ev == BarOpenEvent(q, time) IN Handle(ev, <<[at |-> "timed", ev |-> ev]>>)
  /\ UNCHANGED <<book, market, orders, fault, fates>>

CloseBar(ev) ==
  /\ Top("idle") /\ barOpen # 0
  /\ Handle(ev, <<>>)
  /\ UNCHANGED <<book, market, orders, fault, fates>>

\* _handleNotifyDateTime: the time alone makes the scheduled callbacks due.
NotifyDateTime(time) ==
  /\ Top("idle") /\ opened # <<>>
  /\ stack' = <<[at |-> "timed", ev |-> BarOpenEvent(quote, time)]>>
  /\ UNCHANGED <<book, market, orders, fault, fates>>

\* The spread of an event: the whole bar, at least one price step.
Spread(ev) == <<ev.l, IF ev.h = ev.l THEN ev.h + 1 ELSE ev.h>>

SetBidAsk(ev) ==
  /\ bid' = Spread(ev)[1] /\ ask' = Spread(ev)[2]
  /\ UNCHANGED <<quote, barOpen>>

\* A callback scheduled for a time of the day is due now, or was missed on an
\* earlier day and is made up for at the last quote, or it is not due.
TimedCallback ==
  /\ Top("timed")
  /\ \/ SetBidAsk(Ev) /\ stack' = <<Callback(0)>> \o Rest
     \/ SetBidAsk(BarOpenEvent(quote, Ev.time)) /\ stack' = <<Callback(0)>> \o Rest
     \/ stack' = Rest /\ UNCHANGED market
  /\ UNCHANGED <<book, orders, fault, fates>>

\* The walk is over the trades open now: later changes do not touch it.
EnterTrades ==
  /\ Top("enter")
  /\ SetBidAsk(Ev)
  /\ stack' = <<[at |-> "trades", ev |-> Ev, todo |-> opened]>> \o Rest
  /\ UNCHANGED <<book, orders, fault, fates>>

SlHit_OnlyBeyond(t, ev) ==
  t.sl # 0 /\ IF t.rec.isLong THEN ev.l < t.sl ELSE ev.h > t.sl
SlHit(t, ev) == t.sl # 0 /\ IF t.rec.isLong THEN ev.l <= t.sl ELSE ev.h >= t.sl
TpHit(t, ev) == t.tp # 0 /\ IF t.rec.isLong THEN ev.h >= t.tp ELSE ev.l <= t.tp

\* Both levels inside one bar: nobody knows which came first.
Unresolvable(t, ev) ==
  ev.kind = "close" /\ t.sl \in ev.l..ev.h /\ t.tp \in ev.l..ev.h

Remaining == <<[Head(stack) EXCEPT !.todo = Tail(@)]>> \o Rest

\* The next trade of the walk is left alone, or its bar is refused, or it is
\* closed by its stop loss or else its take profit; a trade that can no longer
\* be closed throws out of the noexcept closeByMarket.
CheckTrade ==
  /\ Top("trades") /\ Head(stack).todo # <<>>
  /\ LET id == Head(Head(stack).todo)
         t == trades[id]
         hit == SlHit(t, Ev) \/ TpHit(t, Ev)
     IN \/ /\ Unresolvable(t, Ev) /\ Fail("unresolvable")
        \/ /\ ~Unresolvable(t, Ev) /\ ~hit
           /\ stack' = Remaining
           /\ UNCHANGED <<book, market, orders, fault, fates>>
        \/ /\ ~Unresolvable(t, Ev) /\ hit /\ ~SomethingInMarket(t.rec)
           /\ Fail("closeFinished")
        \/ /\ ~Unresolvable(t, Ev) /\ hit /\ SomethingInMarket(t.rec)
           /\ SendClose(id, IF SlHit(t, Ev) THEN "StopLoss" ELSE "TakeProfit",
                        Remaining)

LeaveTrades ==
  /\ Top("trades") /\ Head(stack).todo = <<>>
  /\ stack' = Rest
  /\ UNCHANGED <<book, market, orders, fault, fates>>

-----------------------------------------------------------------------------
(* The walk over the slots of the waiting orders.                          *)

\* An opening bar sets the spread before the walk, a closing one in it.
EnterOrders ==
  /\ Top("scan")
  /\ \/ /\ orders.total = 0
        /\ stack' = Rest
        /\ UNCHANGED market
     \/ /\ orders.total > 0
        /\ stack' = <<[at |-> "orders", ev |-> Ev, i |-> 1]>> \o Rest
        /\ IF Ev.kind = "open" THEN SetBidAsk(Ev) ELSE UNCHANGED market
  /\ UNCHANGED <<book, orders, fault, fates>>

Triggered_AtLevel(od, ev) ==
  od # Clean /\ ev.time \in od.times
  /\ IF od.long THEN ev.h >= od.lvl ELSE ev.l <= od.lvl
Triggered(od, ev) ==
  /\ od # Clean
  /\ ev.time \in od.times
  /\ IF od.long THEN ev.h > od.lvl ELSE ev.l < od.lvl

\* A closing bar that also reaches a level of the order is refused.
SameBarStop(od, ev) ==
  /\ ev.kind = "close"
  /\ \/ od.sl # 0 /\ IF od.long THEN od.sl > ev.l ELSE od.sl < ev.h
     \/ od.tp # 0 /\ IF od.long THEN od.tp < ev.h ELSE od.tp > ev.l

NextSlot_Same(frame) == [at |-> "orders", ev |-> frame.ev, i |-> frame.i]
NextSlot(frame) == [at |-> "orders", ev |-> frame.ev, i |-> frame.i + 1]

PassOrder ==
  /\ Top("orders") /\ Head(stack).i \in DOMAIN orders.slots
  /\ LET od == orders.slots[Head(stack).i]
     IN \/ /\ ~Triggered(od, Ev)
           /\ stack' = <<NextSlot(Head(stack))>> \o Rest
           /\ UNCHANGED <<book, market, orders, fault, fates>>
        \/ /\ Triggered(od, Ev) /\ SameBarStop(od, Ev)
           /\ Fail("unresolvable")

\* The first order of a closing bar sets its spread, if no trade has, and is
\* sent in the step after it.
ExecuteOrder ==
  /\ Top("orders") /\ Head(stack).i \in DOMAIN orders.slots
  /\ LET od == orders.slots[Head(stack).i]
     IN /\ Triggered(od, Ev) /\ ~SameBarStop(od, Ev)
        /\ \/ /\ <<bid, ask>> # Spread(Ev)
              /\ SetBidAsk(Ev)
              /\ UNCHANGED <<book, orders, stack, fault, fates>>
           \/ /\ <<bid, ask>> = Spread(Ev)
              /\ SendOpen(od.long, od.shares, od.sl, od.tp, od.id,
                          <<[Head(stack) EXCEPT !.at = "executed"]>> \o Rest)

\* makeMarketTrade has come back, whatever it has done: the slot is cleaned.
CleanOrder ==
  /\ Top("executed")
  /\ IF CanDrop(orders, Head(stack).i)
     THEN /\ orders' = DropIdx(orders, Head(stack).i)
          /\ stack' = <<NextSlot(Head(stack))>> \o Rest
          /\ UNCHANGED <<book, market, fault, fates>>
     ELSE Fail("invalidIndex")

LeaveOrders ==
  /\ Top("orders") /\ Head(stack).i \notin DOMAIN orders.slots
  /\ stack' = Rest
  /\ UNCHANGED <<book, market, orders, fault, fates>>

\* The ticker takes the quote after the handlers (_newBarOpen, _newBarAggregate).
FinishBar ==
  /\ Top("finish")
  /\ quote' = Ev.c
  /\ bid' = Ev.c /\ ask' = Ev.c + 1
  /\ barOpen' = IF Ev.kind = "open" THEN Ev.o ELSE 0
  /\ stack' = Rest
  /\ UNCHANGED <<book, orders, fault, fates>>

-----------------------------------------------------------------------------
(* The strategy: it acts when it is called back, and between the events.   *)

InLoop(where) == \E i \in DOMAIN stack : stack[i].at = where

MayDo(op) ==
  /\ fault = "none" /\ Where \in {"idle", "callback"}
  /\ op \in IF InLoop("trades") THEN OpsInTrades
            ELSE IF InLoop("executed") THEN OpsInOrders ELSE OpsElsewhere

\* It asks for levels that fit the price it gets, and not from a callback about
\* a trade: m_trades may move, and the callers hold references into it.
OpenNow(long, shares, sl, tp) ==
  /\ MayDo("open") /\ quote # 0 /\ Len(trades) < MaxTrades
  /\ Where = "callback" => Head(stack).id = 0
  /\ StopsFit(long, IF long THEN ask ELSE bid, sl, tp)
  /\ SendOpen(long, shares, sl, tp, 0, stack)

\* It closes a trade only after it has asked whether it may.
CloseNow(id) ==
  /\ MayDo("close")
  /\ SomethingInMarket(trades[id].rec) /\ ~IsFailed(trades[id].rec)
  /\ SendClose(id, "Normal", stack)

\* setStopLoss, setTakeProfit
MoveStops(id, sl, tp) ==
  /\ MayDo("move")
  /\ SomethingInMarket(trades[id].rec) /\ ~IsFailed(trades[id].rec)
  /\ \/ /\ tp = trades[id].tp
        /\ sl # 0 => IF trades[id].rec.isLong THEN bid > sl ELSE ask < sl
     \/ /\ sl = trades[id].sl
        /\ tp # 0 => IF trades[id].rec.isLong THEN bid < tp ELSE ask > tp
  /\ trades' = [trades EXCEPT ![id].sl = sl, ![id].tp = tp]
  /\ UNCHANGED <<opened, cash, market, orders, stack, fault, fates>>

\* newOrderStop.  A push_back while the orders loop runs leaves its range
\* behind: the loop walks a vector that may have moved.
PlaceOrder(od) ==
  /\ MayDo("stop") /\ quote # 0 /\ issued < MaxOrders
  /\ od.id = issued + 1
  /\ IF od.long THEN quote < od.lvl ELSE quote > od.lvl
  /\ StopsFit(od.long, od.lvl, od.sl, od.tp)
  /\ IF InLoop("executed") /\ orders.total = Len(orders.slots)
     THEN Fail("invalidatedLoop")
     ELSE /\ orders' = AddNew(orders, od)
          /\ issued' = issued + 1
          /\ UNCHANGED <<book, market, stack, fault, dropped, refused>>

\* orderStopDropAll
DropOrders ==
  /\ MayDo("drop")
  /\ orders' = DropAll(orders)
  /\ dropped' = IF orders.total = 0 THEN dropped
                ELSE dropped \cup {orders.slots[i].id : i \in Taken(orders)}
  /\ UNCHANGED <<book, market, stack, fault, issued, refused>>

Return ==
  /\ Top("callback")
  /\ stack' = Rest
  /\ UNCHANGED <<book, market, orders, fault, fates>>

-----------------------------------------------------------------------------

Step ==
  \/ AfterAbort \/ TimedCallback
  \/ EnterTrades \/ CheckTrade \/ LeaveTrades
  \/ EnterOrders \/ PassOrder \/ ExecuteOrder \/ CleanOrder \/ LeaveOrders
  \/ FinishBar \/ Return

Strategy ==
  \/ \E long \in Sides, shares \in 1..MaxShares, sl \in Levels, tp \in TakeProfits :
       OpenNow(long, shares, sl, tp)
  \/ \E id \in DOMAIN trades : CloseNow(id)
  \/ \E id \in DOMAIN trades, sl \in Levels, tp \in TakeProfits :
       MoveStops(id, sl, tp)
  \/ \E od \in Orders : PlaceOrder(od)
  \/ DropOrders

Market ==
  \/ \E q \in Prices, time \in Times : OpenBar(q, time)
  \/ \E ev \in BarCloseEvents : CloseBar(ev)
  \/ \E time \in Times : NotifyDateTime(time)

\* The process is gone.
Terminated == fault # "none" /\ UNCHANGED vars

Next == Step \/ Strategy \/ Market \/ Terminated

Spec == Init /\ [][Next]_vars

\* The program goes on with a bar it has begun; the strategy returns from its
\* callbacks; nobody has to trade, and no bar has to come.
FairSpec == Spec /\ WF_vars(Step)
-----------------------------------------------------------------------------

Frames ==
  {"callback", "aborted", "timed", "enter", "trades", "scan", "orders",
   "executed", "finish"}

Faults ==
  {"none", "unresolvable", "invalidStops", "closeFinished", "invalidIndex",
   "invalidatedLoop"}

\* Type correctness of the book, the store, the market and the stack.
TypeOK ==
  /\ \A id \in DOMAIN trades :
       /\ trades[id].rec \in TradeRecords
       /\ trades[id].openQ \in 1..MaxPrice + 1
       /\ trades[id].closeQ \in 0..MaxPrice + 1
       /\ trades[id].order \in 0..MaxOrders
  /\ \A i \in DOMAIN opened : opened[i] \in DOMAIN trades
  /\ \A i \in Taken(orders) : orders.slots[i] \in Orders
  /\ orders.total \in Nat /\ cash \in Int
  /\ bid \in Levels /\ ask \in 0..MaxPrice + 1 /\ quote \in Levels
  /\ barOpen \in Levels
  /\ \A i \in DOMAIN stack : stack[i].at \in Frames
  /\ fault \in Faults /\ issued \in 0..MaxOrders
  /\ dropped \subseteq 1..MaxOrders /\ refused \subseteq 1..MaxOrders

OpenIds == {opened[i] : i \in DOMAIN opened}
ClosedIds == {id \in DOMAIN trades : trades[id].rec.state = "Closed"}

\* m_OpenedTrades names the trades that are still in the market and no other,
\* each once and in the order of their opening, also in the middle of every
\* callback: the walks over the open trades and the limit on them rely on it.
OpenedListExact ==
  /\ OpenIds = {id \in DOMAIN trades : SomethingInMarket(trades[id].rec)
                                       /\ ~IsFailed(trades[id].rec)}
  /\ \A i, j \in DOMAIN opened : i < j => opened[i] < opened[j]

\* The money that has left the portfolio is in the open trades, and closed
\* trades have changed it by their results and by nothing else.
CashBalanced ==
  cash = SumFunctionOnSet([id \in DOMAIN trades |-> Profit(trades[id], trades[id].closeQ)],
                          ClosedIds)
         - SumFunctionOnSet([id \in DOMAIN trades |->
                               trades[id].openQ * trades[id].rec.inMarket], OpenIds)

\* The order a pending call is executing: it is still in its slot.
Executing ==
  {orders.slots[stack[i].i].id : i \in
     {n \in DOMAIN stack : stack[n].at = "executed"
                           /\ orders.slots[stack[n].i] # Clean}}
Waiting == {orders.slots[i].id : i \in Taken(orders)} \ Executing
FilledBy(order) == {id \in DOMAIN trades : trades[id].order = order}

\* A stop order is executed at most once, and never after it was removed; it
\* does not get lost: it waits until it is executed, removed, or refused
\* because of the limit on open trades.
OrdersAccounted ==
  \A order \in 1..issued :
    LET filled == Cardinality(FilledBy(order))
    IN filled + (IF order \in refused THEN 1 ELSE 0)
              + (IF order \in dropped THEN 1 ELSE 0)
              + (IF order \in Waiting THEN 1 ELSE 0) = 1

\* Under the usual discipline nothing but a bar that cannot be resolved stops
\* the program.
NoFault == fault \in {"none", "unresolvable"}

\* The bar has kept away from the levels of the trade.
Untouched(t, ev) ==
  IF t.rec.isLong THEN t.sl < ev.l /\ (t.tp = 0 \/ ev.h < t.tp)
                  ELSE t.tp < ev.l /\ (t.sl = 0 \/ ev.h < t.sl)

\* When the handler of a bar is done, no trade that was open when it began is
\* still open although the bar has reached one of its levels.
StopsHonoured ==
  Top("finish") =>
    \A id \in OpenIds : id <= Head(stack).found => Untouched(trades[id], Ev)

\* What the backtester makes of a stop is never better than the stop: a stop
\* order enters beyond its level, a stop loss leaves at its level or beyond.
FilledBeyond(t) ==
  \E i \in Taken(orders) :
    LET od == orders.slots[i]
    IN /\ od.id = t.order
       /\ IF od.long THEN t.openQ > od.lvl ELSE t.openQ < od.lvl
StoppedBeyond(t) == IF t.rec.isLong THEN t.closeQ <= t.sl ELSE t.closeQ >= t.sl
Pessimistic ==
  \A id \in DOMAIN trades' :
    LET t == trades'[id]
    IN /\ id \notin DOMAIN trades /\ t.order \notin dropped \cup {0} => FilledBeyond(t)
       /\ id \in OpenIds /\ t.rec.reason = "StopLoss" => StoppedBeyond(t)
PessimisticFills == [][Pessimistic]_vars

\* The account behind the book: bought once, sold once, for what was recorded.
A == INSTANCE Account
       WITH money <- cash,
            held <- [id \in OpenIds |-> trades[id].openQ * trades[id].rec.inMarket],
            bought <- Len(trades)

\* The backtester implements the account, whatever calls back in the middle.
ImplementsAccount == A!Spec

\* No callback of a bar runs for ever: its handler comes to an end.
HandlersEnd == stack # <<>> ~> (stack = <<>> \/ fault # "none")

=============================================================================
