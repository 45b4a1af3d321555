-------------------------- MODULE BacktesterProofs --------------------------
(***************************************************************************)
(* The list of open trades of the backtester is exact in the middle of     *)
(* every callback, for any prices, volumes, sides, limits and numbers of   *)
(* trades and orders, and whatever the strategy does when it is called.    *)
(* While it trades on the long side its cash is accounted for, to the last *)
(* trade.                                                                  *)
(*                                                                         *)
(* The second half is about what the walks of the backtester do with the   *)
(* trades and the orders they find: stops are honoured, orders are         *)
(* executed once and never lost, and nothing stops the program, under what *)
(* discipline of the strategy each of these holds.                         *)
(***************************************************************************)
EXTENDS Backtester, SequenceTheorems, FiniteSetTheorems, WellFoundedInduction, TLAPS

-----------------------------------------------------------------------------
(* Sequences.                                                              *)

Increasing(s) == \A i, j \in 1 .. Len(s) : i < j => s[i] < s[j]
In(s, e) == \E i \in 1 .. Len(s) : s[i] = e

\* What find and erase make of a sequence that names everything once.
LEMMA Erased ==
  ASSUME NEW s \in Seq(Nat), Increasing(s), NEW e
  PROVE  /\ Erase(s, e) \in Seq(Nat) /\ Increasing(Erase(s, e))
         /\ \A x : In(Erase(s, e), x) <=> In(s, x) /\ x # e
<1> DEFINE found == {i \in DOMAIN s : s[i] = e}
<1>1. CASE found = {}
  BY <1>1 DEF Erase, In
<1>2. CASE found # {}
  <2>1. PICK k \in 1 .. Len(s) : s[k] = e
    BY <1>2
  <2>2. \A i \in 1 .. Len(s) : s[i] \in Nat
    BY ElementOfSeq
  <2>3. \A i \in 1 .. Len(s) : s[i] = e <=> i = k
    BY <2>1, <2>2 DEF Increasing
  <2>4. found = {k}
    BY <2>3
  <2>5. Erase(s, e) = SubSeq(s, 1, k - 1) \o SubSeq(s, k + 1, Len(s))
    <3>1. Min({k}) = k
      BY DEF Min
    <3> QED  BY <1>2, <2>4, <3>1 DEF Erase, RemoveAt
  <2> DEFINE r == Erase(s, e)
  <2> DEFINE before == SubSeq(s, 1, k - 1)
             after  == SubSeq(s, k + 1, Len(s))
  <2>6. /\ before \in Seq(Nat) /\ Len(before) = k - 1
        /\ \A i \in 1 .. k - 1 : before[i] = s[i]
    <3>1. 1 \in Int /\ k - 1 \in Int /\ \A i \in 1 .. k - 1 : s[i] \in Nat
      BY <2>2
    <3>2. /\ before \in Seq(Nat)
          /\ Len(before) = IF 1 <= k - 1 THEN k - 1 - 1 + 1 ELSE 0
          /\ \A i \in 1 .. k - 1 - 1 + 1 : before[i] = s[1 + i - 1]
      BY <3>1, SubSeqProperties
    <3> QED  BY <3>2
  <2>7. /\ after \in Seq(Nat) /\ Len(after) = Len(s) - k
        /\ \A i \in 1 .. Len(s) - k : after[i] = s[k + i]
    <3>1. /\ Len(s) \in Nat /\ k + 1 \in Int /\ Len(s) \in Int
          /\ \A i \in k + 1 .. Len(s) : s[i] \in Nat
      BY <2>2
    <3>2. /\ after \in Seq(Nat)
          /\ Len(after) = IF k + 1 <= Len(s) THEN Len(s) - (k + 1) + 1 ELSE 0
          /\ \A i \in 1 .. Len(s) - (k + 1) + 1 : after[i] = s[(k + 1) + i - 1]
      BY <3>1, SubSeqProperties
    <3> QED  BY <3>1, <3>2
  <2> HIDE DEF before, after
  <2>r. r = before \o after
    BY <2>5 DEF before, after
  <2> HIDE DEF r
  <2>8. /\ r \in Seq(Nat) /\ Len(r) = Len(before) + Len(after)
        /\ \A i \in 1 .. Len(before) + Len(after) :
             r[i] = IF i <= Len(before) THEN before[i] ELSE after[i - Len(before)]
    BY <2>r, <2>6, <2>7, ConcatProperties
  <2>9. Len(s) \in Nat /\ Len(r) = Len(s) - 1
    BY <2>6, <2>7, <2>8
  <2>10. ASSUME NEW i \in 1 .. Len(r)
         PROVE  /\ i < k => r[i] = s[i]
                /\ ~(i < k) => r[i] = s[i + 1]
    <3>0. /\ k \in Nat /\ i \in Nat /\ 1 <= i /\ i <= Len(s) - 1
          /\ i \in 1 .. Len(before) + Len(after)
      BY <2>6, <2>7, <2>9
    <3>1. CASE i < k
      <4>1. i \in 1 .. k - 1 /\ i <= Len(before)
        BY <2>6, <3>0, <3>1
      <4>2. r[i] = before[i]
        BY <2>8, <3>0, <4>1
      <4> QED  BY <2>6, <3>1, <4>1, <4>2
    <3>2. CASE ~(i < k)
      <4>1. ~(i <= Len(before)) /\ i - (k - 1) \in 1 .. Len(s) - k
        BY <2>6, <2>9, <3>0, <3>2
      <4>2. r[i] = after[i - (k - 1)]
        BY <2>6, <2>8, <3>0, <4>1
      <4>3. k + (i - (k - 1)) = i + 1
        BY <3>0
      <4>4. after[i - (k - 1)] = s[i + 1]
        BY <2>7, <4>1, <4>3
      <4> QED  BY <3>2, <4>2, <4>4
    <3> QED  BY <3>1, <3>2
  <2>11. ASSUME NEW i \in 1 .. Len(r), NEW j \in 1 .. Len(r), i < j PROVE r[i] < r[j]
    <3>0. /\ i \in 1 .. Len(s) /\ j \in 1 .. Len(s)
          /\ i + 1 \in 1 .. Len(s) /\ j + 1 \in 1 .. Len(s)
          /\ i < j + 1 /\ i + 1 < j + 1
      BY <2>9, <2>11
    <3>1. CASE j < k
      <4>1. i < k
        BY <2>11, <3>1
      <4>2. r[i] = s[i] /\ r[j] = s[j]
        BY <2>10, <3>1, <4>1
      <4>3. s[i] < s[j]
        BY <2>11, <3>0 DEF Increasing
      <4> QED  BY <4>2, <4>3
    <3>2. CASE i < k /\ ~(j < k)
      <4>1. r[i] = s[i] /\ r[j] = s[j + 1]
        BY <2>10, <3>2
      <4>2. s[i] < s[j + 1]
        BY <3>0 DEF Increasing
      <4> QED  BY <4>1, <4>2
    <3>3. CASE ~(i < k)
      <4>1. ~(j < k)
        BY <2>11, <3>3
      <4>2. r[i] = s[i + 1] /\ r[j] = s[j + 1]
        BY <2>10, <3>3, <4>1
      <4>3. s[i + 1] < s[j + 1]
        BY <3>0 DEF Increasing
      <4> QED  BY <4>2, <4>3
    <3> QED  BY <3>1, <3>2, <3>3
  <2>12. ASSUME NEW x, In(r, x) PROVE In(s, x) /\ x # e
    <3>1. PICK i \in 1 .. Len(r) : r[i] = x
      BY <2>12 DEF In
    <3>2. CASE i < k
      BY <2>3, <2>9, <2>10, <3>1, <3>2 DEF In
    <3>3. CASE ~(i < k)
      <4>1. i + 1 \in 1 .. Len(s) /\ i + 1 # k /\ s[i + 1] = x
        BY <2>9, <2>10, <3>1, <3>3
      <4> QED  BY <2>3, <4>1 DEF In
    <3> QED  BY <3>2, <3>3
  <2>13. ASSUME NEW x, In(s, x), x # e PROVE In(r, x)
    <3>1. PICK j \in 1 .. Len(s) : s[j] = x
      BY <2>13 DEF In
    <3>2. j # k
      BY <2>1, <2>13, <3>1
    <3>3. CASE j < k
      <4>1. j \in 1 .. Len(r) /\ r[j] = s[j]
        BY <2>9, <2>10, <3>3
      <4> QED  BY <3>1, <4>1 DEF In
    <3>4. CASE j > k
      <4>1. j - 1 \in 1 .. Len(r) /\ ~(j - 1 < k) /\ (j - 1) + 1 = j
        BY <2>9, <3>4
      <4>2. r[j - 1] = s[j]
        BY <2>10, <4>1
      <4> QED  BY <3>1, <4>1, <4>2 DEF In
    <3> QED  BY <3>2, <3>3, <3>4
  <2>14. r \in Seq(Nat) /\ Increasing(r)
    BY <2>8, <2>11 DEF Increasing
  <2> QED  BY <2>12, <2>13, <2>14 DEF r
<1> QED  BY <1>1, <1>2

\* A new trade comes after all others.
LEMMA Appended ==
  ASSUME NEW s \in Seq(Nat), Increasing(s), NEW e \in Nat,
         \A x : In(s, x) => x < e
  PROVE  /\ Append(s, e) \in Seq(Nat) /\ Increasing(Append(s, e))
         /\ \A x : In(Append(s, e), x) <=> In(s, x) \/ x = e
<1> DEFINE r == Append(s, e)
<1>1. /\ r \in Seq(Nat) /\ Len(r) = Len(s) + 1
      /\ \A i \in 1 .. Len(s) : r[i] = s[i]
      /\ r[Len(s) + 1] = e
  OBVIOUS
<1> HIDE DEF r
<1>2. \A i \in 1 .. Len(s) : s[i] < e
  BY DEF In
<1>3. ASSUME NEW i \in 1 .. Len(r), NEW j \in 1 .. Len(r), i < j PROVE r[i] < r[j]
  <2>1. i \in 1 .. Len(s)
    BY <1>1, <1>3
  <2>2. CASE j = Len(s) + 1
    BY <1>1, <1>2, <2>1, <2>2
  <2>3. CASE j # Len(s) + 1
    <3>1. j \in 1 .. Len(s)
      BY <1>1, <2>3
    <3>2. r[i] = s[i] /\ r[j] = s[j]
      BY <1>1, <2>1, <3>1
    <3>3. s[i] < s[j]
      BY <1>3, <2>1, <3>1 DEF Increasing
    <3> QED  BY <3>2, <3>3
  <2> QED  BY <2>2, <2>3
<1>4. ASSUME NEW x PROVE In(r, x) <=> In(s, x) \/ x = e
  <2>1. In(r, x) => In(s, x) \/ x = e
    BY <1>1 DEF In
  <2>2. In(s, x) => In(r, x)
    BY <1>1 DEF In
  <2>3. x = e => In(r, x)
    BY <1>1 DEF In
  <2> QED  BY <2>1, <2>2, <2>3
<1> QED  BY <1>1, <1>3, <1>4 DEF r, Increasing

-----------------------------------------------------------------------------
(* The invariant.                                                          *)

Positive == Nat \ {0}

Event ==
  [kind: {"open", "close"}, o: Positive, l: Positive, h: Positive, c: Positive,
   time: Times]

Pending ==
  [at: {"callback", "aborted"}, id: Nat] \cup
  [at: {"timed", "enter", "scan"}, ev: Event] \cup
  [at: {"trades"}, ev: Event, todo: Seq(Nat)] \cup
  [at: {"orders", "executed"}, ev: Event, i: Nat] \cup
  [at: {"finish"}, ev: Event, found: Nat]

TradeEntries ==
  [rec: TradeRecords, sl: Int, tp: Int, openQ: Positive, closeQ: Nat, order: Nat]

\* There are no orders and no trades before the first quote.
PricesOK ==
  /\ bid \in Nat /\ ask \in Nat /\ quote \in Nat /\ barOpen \in Nat
  /\ quote # 0 => bid # 0 /\ ask # 0

DataOK ==
  /\ orders.slots \in Seq(Orders \cup {Clean})
  /\ PricesOK
  /\ quote = 0 => Len(orders.slots) = 0 /\ Len(trades) = 0

\* A trade that is in the list is long, attached and in the market; one that is not
\* has been let go or, on the short side, has failed and waits to be.
Live(rec) ==
  /\ rec.attached /\ rec.state = "inMarket" /\ rec.failure = "NoFailure"
  /\ rec.isLong /\ rec.inMarket = rec.planned /\ rec.planned # 0
Over(rec) == ~rec.attached \/ (FALSE \in Sides /\ rec.failure # "NoFailure")

BookOK ==
  /\ trades \in Seq(TradeEntries)
  /\ opened \in Seq(Nat) /\ Increasing(opened)
  /\ \A id : In(opened, id) => id \in 1 .. Len(trades) /\ Live(trades[id].rec)
  /\ \A id \in 1 .. Len(trades) : ~In(opened, id) => Over(trades[id].rec)

\* The trade an unfinished _failed() will let go is short and not in the list;
\* callbacks are scheduled only when there are trades; a walk visits those there are.
FrameOK(f, n, list) ==
  /\ f.at = "aborted" => f.id \in 1 .. n /\ ~In(list, f.id) /\ FALSE \in Sides
  /\ f.at = "timed" => n > 0
  /\ f.at = "trades" => \A k \in 1 .. Len(f.todo) : f.todo[k] \in 1 .. n

StackOK(s, n, list) ==
  /\ s \in Seq(Pending)
  /\ \A i \in 1 .. Len(s) : FrameOK(s[i], n, list)

Inv == DataOK /\ BookOK /\ StackOK(stack, Len(trades), opened)

-----------------------------------------------------------------------------
(* Frames are pushed and popped, trades added and removed from the list.   *)

LEMMA Pushed ==
  ASSUME NEW s, NEW n, NEW list, StackOK(s, n, list),
         NEW f \in Pending, FrameOK(f, n, list)
  PROVE  StackOK(<<f>> \o s, n, list)
<1>1. s \in Seq(Pending) /\ <<f>> \in Seq(Pending) /\ Len(<<f>>) = 1 /\ <<f>>[1] = f
  BY DEF StackOK
<1> DEFINE r == <<f>> \o s
<1>2. /\ r \in Seq(Pending) /\ Len(r) = 1 + Len(s)
      /\ \A i \in 1 .. 1 + Len(s) : r[i] = IF i <= 1 THEN f ELSE s[i - 1]
  BY <1>1, ConcatProperties
<1> HIDE DEF r
<1>3. ASSUME NEW i \in 1 .. Len(r) PROVE FrameOK(r[i], n, list)
  <2>1. CASE i = 1
    BY <1>2, <2>1
  <2>2. CASE i # 1
    <3>1. i - 1 \in 1 .. Len(s) /\ r[i] = s[i - 1]
      BY <1>1, <1>2, <2>2
    <3> QED  BY <3>1 DEF StackOK
  <2> QED  BY <2>1, <2>2
<1> QED  BY <1>2, <1>3 DEF StackOK, r

LEMMA TwoFrames ==
  ASSUME NEW f, NEW g
  PROVE  <<f>> \o <<g>> = <<f, g>>
<1> DEFINE S == {f, g}
<1>1. /\ <<f>> \in Seq(S) /\ Len(<<f>>) = 1 /\ <<f>>[1] = f
      /\ <<g>> \in Seq(S) /\ Len(<<g>>) = 1 /\ <<g>>[1] = g
      /\ <<f, g>> \in Seq(S) /\ Len(<<f, g>>) = 2
      /\ <<f, g>>[1] = f /\ <<f, g>>[2] = g
  OBVIOUS
<1> HIDE DEF S
<1>2. /\ <<f>> \o <<g>> \in Seq(S) /\ Len(<<f>> \o <<g>>) = 1 + 1
      /\ \A i \in 1 .. 1 + 1 : (<<f>> \o <<g>>)[i] = IF i <= 1 THEN <<f>>[i]
                                                  ELSE <<g>>[i - 1]
  BY <1>1, ConcatProperties
<1> DEFINE r == <<f>> \o <<g>>
           t == <<f, g>>
<1>3. r[1] = f /\ r[2] = g /\ Len(r) = 2 /\ r \in Seq(S)
  BY <1>1, <1>2
<1>4. t[1] = f /\ t[2] = g /\ Len(t) = 2 /\ t \in Seq(S)
  BY <1>1
<1> HIDE DEF r, t
<1>5. \A i \in 1 .. Len(r) : r[i] = t[i]
  BY <1>3, <1>4
<1>6. r = t
  BY <1>3, <1>4, <1>5, SeqEqual
<1> QED  BY <1>6 DEF r, t

LEMMA Popped ==
  ASSUME NEW s, NEW n, NEW list, StackOK(s, n, list), s # <<>>
  PROVE  /\ StackOK(Tail(s), n, list)
         /\ Head(s) \in Pending /\ FrameOK(Head(s), n, list)
<1>1. s \in Seq(Pending)
  BY DEF StackOK
<1>2. /\ Head(s) \in Pending /\ Tail(s) \in Seq(Pending) /\ Len(Tail(s)) = Len(s) - 1
      /\ \A i \in 1 .. Len(Tail(s)) : Tail(s)[i] = s[i + 1]
  BY <1>1, HeadTailProperties
<1>3. Len(s) \in Nat \ {0} /\ Head(s) = s[1]
  BY <1>1, EmptySeq
<1>4. ASSUME NEW i \in 1 .. Len(Tail(s)) PROVE FrameOK(Tail(s)[i], n, list)
  BY <1>2, <1>3 DEF StackOK
<1>5. FrameOK(Head(s), n, list)
  BY <1>3 DEF StackOK
<1> QED  BY <1>2, <1>4, <1>5 DEF StackOK

LEMMA StackKept ==
  ASSUME NEW s, NEW n \in Nat, NEW list, StackOK(s, n, list),
         NEW m \in Nat, NEW new, n <= m,
         \A id \in 1 .. n : In(new, id) => In(list, id)
  PROVE  StackOK(s, m, new)
<1>1. 1 .. n \subseteq 1 .. m /\ (n > 0 => m > 0)
  OBVIOUS
<1>2. ASSUME NEW f, FrameOK(f, n, list) PROVE FrameOK(f, m, new)
  BY <1>1, <1>2 DEF FrameOK
<1> QED  BY <1>2 DEF StackOK

-----------------------------------------------------------------------------
(* What a fill makes of a trade.                                           *)

LEMMA LetGo ==
  ASSUME NEW rec \in TradeRecords
  PROVE  Detach(rec) \in TradeRecords /\ Over(Detach(rec))
  BY DEF TradeRecords, Detach, Over

LEMMA MarkedFailed ==
  ASSUME NEW rec \in TradeRecords, NEW code \in FailureCodes \ {"NoFailure"}
  PROVE  /\ MarkFailed(rec, code) \in TradeRecords
         /\ FALSE \in Sides => Over(MarkFailed(rec, code))
  BY DEF TradeRecords, MarkFailed, Over

LEMMA DealBooked ==
  ASSUME NEW rec \in TradeRecords, NEW deal \in [isLong: BOOLEAN, vol: Nat],
         ~WrongDirection(rec, deal)
  PROVE  LET done == BookDeal(rec, deal)
         IN /\ done \in TradeRecords
            /\ done.isLong = rec.isLong /\ done.failure = rec.failure
            /\ done.inMarket = VolumeAfter(rec, deal) /\ done.planned = rec.planned
            /\ done.attached <=> ~ClosesFully(rec, deal)
            /\ OpensFully(rec, deal) /\ ~ClosesFully(rec, deal) =>
                 done.state = "inMarket"
            /\ ClosesFully(rec, deal) => done.state = "Closed"
<1> DEFINE open_ == IF DuringOpening(rec) THEN rec.dealsOpen + deal.vol ELSE rec.dealsOpen
           close_ == IF DuringOpening(rec) THEN rec.dealsClose
                     ELSE rec.dealsClose + deal.vol
           vol_ == VolumeAfter(rec, deal)
           state_ == IF ClosesFully(rec, deal) THEN "Closed"
                     ELSE IF OpensFully(rec, deal) THEN "inMarket"
                     ELSE IF DuringOpening(rec) THEN "Opening" ELSE "Closing"
           att_ == ~ClosesFully(rec, deal)
<1>1. /\ open_ \in Nat /\ close_ \in Nat /\ vol_ \in Int
      /\ state_ \in TradeStates /\ att_ \in BOOLEAN
  BY DEF TradeRecords, TradeStates, VolumeAfter
<1>2. BookDeal(rec, deal) = [rec EXCEPT !.dealsOpen = open_, !.dealsClose = close_,
                                        !.inMarket = vol_, !.state = state_,
                                        !.attached = att_]
  BY DEF BookDeal
<1>3. /\ OpensFully(rec, deal) /\ ~ClosesFully(rec, deal) => state_ = "inMarket"
      /\ ClosesFully(rec, deal) => state_ = "Closed"
      /\ att_ <=> ~ClosesFully(rec, deal)
      /\ vol_ = VolumeAfter(rec, deal)
  OBVIOUS
<1> HIDE DEF open_, close_, vol_, state_, att_
<1> DEFINE done_ == BookDeal(rec, deal)
<1>4. /\ done_ \in TradeRecords
      /\ done_.isLong = rec.isLong /\ done_.failure = rec.failure
      /\ done_.planned = rec.planned
  <2>1. done_ \in TradeRecords
    BY <1>1, <1>2 DEF TradeRecords
  <2>2. done_.isLong = rec.isLong /\ done_.failure = rec.failure
    BY <1>2 DEF TradeRecords
  <2>3. done_.planned = rec.planned
    BY <1>2 DEF TradeRecords
  <2> QED  BY <2>1, <2>2, <2>3
<1>5. done_.inMarket = vol_ /\ done_.attached = att_ /\ done_.state = state_
  BY <1>1, <1>2 DEF TradeRecords
<1> HIDE DEF done_
<1>6. /\ done_.inMarket = VolumeAfter(rec, deal)
      /\ done_.attached <=> ~ClosesFully(rec, deal)
      /\ OpensFully(rec, deal) /\ ~ClosesFully(rec, deal) => done_.state = "inMarket"
      /\ ClosesFully(rec, deal) => done_.state = "Closed"
  BY <1>3, <1>5
<1> QED  BY <1>4, <1>6 DEF done_

LEMMA NewFilled ==
  ASSUME NEW long \in Sides, NEW shares \in Positive
  PROVE  LET new == NewTrade(long, shares)
             deal == [isLong |-> long, vol |-> shares]
             verdict == DealVerdict(new, deal)
         IN /\ verdict = "NoFailure" =>
                 /\ AfterDealDone(new, deal) \in TradeRecords
                 /\ Live(AfterDealDone(new, deal))
                 /\ AfterDealDone(new, deal).inMarket = shares
            /\ verdict # "NoFailure" =>
                 /\ MarkFailed(Booked(new, deal), verdict) \in TradeRecords
                 /\ Over(MarkFailed(Booked(new, deal), verdict))
                 /\ ~long
<1> DEFINE new == NewTrade(long, shares)
           deal == [isLong |-> long, vol |-> shares]
<1>0. long \in BOOLEAN /\ shares \in Nat /\ shares # 0 /\ (~long => FALSE \in Sides)
  BY SideAssumption DEF Positive
<1>1. /\ Expecting(new) /\ DuringOpening(new) /\ ~DuringClosing(new)
      /\ ~WrongDirection(new, deal)
  BY DEF NewTrade, Expecting, DuringOpening, DuringClosing, Finished, IsFailed,
         WrongDirection
<1>2. DealVerdict(new, deal) = VolumeVerdict(new, VolumeAfter(new, deal))
  BY <1>1 DEF DealVerdict
<1>3. /\ new \in TradeRecords /\ new.isLong = long /\ new.planned = shares
      /\ new.inMarket = 0 /\ new.failure = "NoFailure"
  BY <1>0 DEF NewTrade, TradeRecords, TradeStates, FailureCodes
<1>4. deal \in [isLong: BOOLEAN, vol: Nat] /\ deal.isLong = long /\ deal.vol = shares
  BY <1>0
<1>5. Booked(new, deal) = BookDeal(new, deal)
  BY <1>1 DEF Booked
<1> HIDE DEF new, deal
<1>6. CASE long
  <2>1. VolumeAfter(new, deal) = shares
    BY <1>0, <1>3, <1>4, <1>6 DEF VolumeAfter
  <2>2. DealVerdict(new, deal) = "NoFailure"
    BY <1>0, <1>1, <1>2, <1>3, <2>1 DEF VolumeVerdict
  <2>3. AfterDealDone(new, deal) = BookDeal(new, deal)
    BY <1>5, <2>2 DEF AfterDealDone
  <2>4. OpensFully(new, deal) /\ ~ClosesFully(new, deal)
    BY <1>0, <1>1, <1>3, <2>1 DEF OpensFully, ClosesFully
  <2>5. /\ BookDeal(new, deal) \in TradeRecords /\ Live(BookDeal(new, deal))
        /\ BookDeal(new, deal).inMarket = shares
    BY <1>0, <1>1, <1>3, <1>4, <1>6, <2>1, <2>4, DealBooked DEF Live
  <2> QED  BY <2>2, <2>3, <2>5 DEF new, deal
<1>7. CASE ~long
  <2>1. VolumeAfter(new, deal) = -shares
    BY <1>0, <1>3, <1>4, <1>7 DEF VolumeAfter
  <2>2. DealVerdict(new, deal) = "totalVolumeLessZero"
    BY <1>0, <1>1, <1>2, <1>3, <2>1 DEF VolumeVerdict
  <2>3. BookDeal(new, deal) \in TradeRecords
    BY <1>1, <1>3, <1>4, DealBooked
  <2> QED  BY <1>0, <1>5, <1>7, <2>2, <2>3, MarkedFailed DEF new, deal, FailureCodes
<1> QED  BY <1>6, <1>7

\* A trade that has nothing in the market by mistake ends, too.
LEMMA CloseFilled ==
  ASSUME NEW rec \in TradeRecords, Live(rec) \/ Over(rec), SomethingInMarket(rec),
         NEW reason \in CloseReasons
  PROVE  LET asked == AfterCloseRequest(rec, reason)
             deal == [isLong |-> ~rec.isLong, vol |-> rec.inMarket]
         IN /\ AfterDealDone(asked, deal) \in TradeRecords
            /\ Over(AfterDealDone(asked, deal))
            /\ Live(rec) => /\ AfterDealDone(asked, deal).state = "Closed"
                            /\ AfterDealDone(asked, deal).isLong
                            /\ AfterDealDone(asked, deal).planned = rec.planned
<1> DEFINE asked == AfterCloseRequest(rec, reason)
           deal == [isLong |-> ~rec.isLong, vol |-> rec.inMarket]
<1>1. asked \in TradeRecords /\ asked.state = "PendingClose" /\ rec.attached
  BY DEF AfterCloseRequest, TradeRecords, TradeStates, SomethingInMarket, Finished
<1>2. CASE rec.failure # "NoFailure"
  <2>1. ~Expecting(asked)
    BY <1>2 DEF Expecting, IsFailed, AfterCloseRequest, TradeRecords
  <2>2. AfterDealDone(asked, deal) = Detach(MarkFailed(asked, "unexpectedDeal"))
    BY <2>1 DEF AfterDealDone, DealVerdict, Booked
  <2>3. ~Live(rec)
    BY <1>2 DEF Live
  <2> QED  BY <1>1, <2>2, <2>3, LetGo, MarkedFailed DEF FailureCodes
<1>3. CASE rec.failure = "NoFailure"
  <2>1. Live(rec)
    BY <1>1, <1>3 DEF Over
  <2>2. /\ asked.attached /\ asked.isLong /\ asked.failure = "NoFailure"
        /\ asked.inMarket = rec.inMarket /\ asked.planned = rec.planned
    BY <2>1 DEF Live, AfterCloseRequest, TradeRecords
  <2>3. /\ Expecting(asked) /\ ~DuringOpening(asked) /\ DuringClosing(asked)
    BY <1>1, <2>2 DEF Expecting, DuringOpening, DuringClosing, Finished, IsFailed
  <2>4. ~WrongDirection(asked, deal)
    BY <2>1, <2>2, <2>3 DEF WrongDirection, Live
  <2>5. rec.inMarket \in Nat /\ deal \in [isLong: BOOLEAN, vol: Nat]
    BY <2>1 DEF Live, TradeRecords
  <2>6. VolumeAfter(asked, deal) = 0
    <3>1. ~deal.isLong /\ deal.vol = rec.inMarket
      BY <2>1 DEF Live
    <3> QED  BY <2>2, <2>5, <3>1 DEF VolumeAfter
  <2>7. DealVerdict(asked, deal) = "NoFailure"
    BY <2>3, <2>4, <2>6 DEF DealVerdict, VolumeVerdict
  <2>8. ClosesFully(asked, deal)
    BY <2>3, <2>4, <2>6 DEF ClosesFully
  <2>9. AfterDealDone(asked, deal) = BookDeal(asked, deal)
    BY <2>3, <2>7 DEF AfterDealDone, Booked
  <2>10. /\ BookDeal(asked, deal) \in TradeRecords /\ ~BookDeal(asked, deal).attached
         /\ BookDeal(asked, deal).state = "Closed"
         /\ BookDeal(asked, deal).isLong = asked.isLong
         /\ BookDeal(asked, deal).planned = asked.planned
    BY <1>1, <2>4, <2>5, <2>8, DealBooked
  <2> QED  BY <2>2, <2>9, <2>10 DEF Over
<1> QED  BY <1>2, <1>3

-----------------------------------------------------------------------------
(* Changes of the book.                                                    *)

LEMMA TradeAdded ==
  ASSUME BookOK, NEW e \in TradeEntries, trades' = Append(trades, e),
         \/ Live(e.rec) /\ opened' = Append(opened, Len(trades) + 1)
         \/ Over(e.rec) /\ opened' = opened
  PROVE  /\ BookOK' /\ Len(trades') = Len(trades) + 1 /\ Len(trades) \in Nat
         /\ \A id \in 1 .. Len(trades) : In(opened', id) => In(opened, id)
         /\ Over(e.rec) /\ opened' = opened => ~In(opened, Len(trades) + 1)
<1>1. trades \in Seq(TradeEntries) /\ Len(trades) \in Nat
  BY DEF BookOK
<1>2. /\ trades' \in Seq(TradeEntries) /\ Len(trades') = Len(trades) + 1
      /\ \A id \in 1 .. Len(trades) : trades'[id] = trades[id]
      /\ trades'[Len(trades) + 1] = e
  BY <1>1
<1>3. ~In(opened, Len(trades) + 1)
  BY <1>1 DEF BookOK
<1>4. CASE Live(e.rec) /\ opened' = Append(opened, Len(trades) + 1)
  <2>1. \A id : In(opened, id) => id < Len(trades) + 1
    BY <1>1 DEF BookOK
  <2>2. /\ opened' \in Seq(Nat) /\ Increasing(opened')
        /\ \A id : In(opened', id) <=> In(opened, id) \/ id = Len(trades) + 1
    BY <1>1, <1>4, <2>1, Appended DEF BookOK
  <2>3. ASSUME NEW id, In(opened', id)
        PROVE  id \in 1 .. Len(trades') /\ Live(trades'[id].rec)
    <3>1. CASE In(opened, id)
      BY <1>1, <1>2, <3>1 DEF BookOK
    <3>2. CASE id = Len(trades) + 1
      BY <1>1, <1>2, <1>4, <3>2
    <3> QED  BY <2>2, <2>3, <3>1, <3>2
  <2>4. ASSUME NEW id \in 1 .. Len(trades'), ~In(opened', id)
        PROVE  Over(trades'[id].rec)
    <3>1. id \in 1 .. Len(trades) /\ ~In(opened, id)
      BY <1>1, <1>2, <2>2, <2>4
    <3> QED  BY <1>2, <3>1 DEF BookOK
  <2>5. BookOK'
    BY <1>2, <2>2, <2>3, <2>4 DEF BookOK
  <2>6. \A id \in 1 .. Len(trades) : In(opened', id) => In(opened, id)
    BY <1>1, <2>2
  <2> QED  BY <1>1, <1>2, <1>3, <2>5, <2>6
<1>5. CASE Over(e.rec) /\ opened' = opened
  <2>1. ASSUME NEW id, In(opened', id)
        PROVE  id \in 1 .. Len(trades') /\ Live(trades'[id].rec)
    BY <1>1, <1>2, <1>5, <2>1 DEF BookOK
  <2>2. ASSUME NEW id \in 1 .. Len(trades'), ~In(opened', id)
        PROVE  Over(trades'[id].rec)
    <3>1. CASE id = Len(trades) + 1
      BY <1>2, <1>5, <3>1
    <3>2. CASE id # Len(trades) + 1
      <4>1. id \in 1 .. Len(trades) /\ ~In(opened, id)
        BY <1>1, <1>2, <1>5, <2>2, <3>2
      <4> QED  BY <1>2, <4>1 DEF BookOK
    <3> QED  BY <3>1, <3>2
  <2>3. BookOK'
    BY <1>2, <1>5, <2>1, <2>2 DEF BookOK
  <2> QED  BY <1>1, <1>2, <1>3, <1>5, <2>3
<1> QED  BY <1>4, <1>5

LEMMA TradeChanged ==
  ASSUME BookOK, NEW id \in 1 .. Len(trades), NEW e \in TradeEntries,
         trades' = [trades EXCEPT ![id] = e],
         \/ Over(e.rec) /\ opened' = WithoutTrade(id)
         \/ Over(e.rec) /\ opened' = opened /\ ~In(opened, id)
         \/ e.rec = trades[id].rec /\ opened' = opened
  PROVE  /\ BookOK' /\ Len(trades') = Len(trades) /\ Len(trades) \in Nat
         /\ \A n : In(opened', n) => In(opened, n)
<1>1. trades \in Seq(TradeEntries) /\ Len(trades) \in Nat
  BY DEF BookOK
<1>2. /\ trades' \in Seq(TradeEntries) /\ Len(trades') = Len(trades)
      /\ \A n \in 1 .. Len(trades) : trades'[n] = IF n = id THEN e ELSE trades[n]
  BY <1>1, ExceptSeq
<1>3. CASE Over(e.rec) /\ opened' = WithoutTrade(id)
  <2>1. /\ opened' \in Seq(Nat) /\ Increasing(opened')
        /\ \A n : In(opened', n) <=> In(opened, n) /\ n # id
    BY <1>3, Erased DEF BookOK, WithoutTrade
  <2>2. ASSUME NEW n, In(opened', n)
        PROVE  n \in 1 .. Len(trades') /\ Live(trades'[n].rec)
    BY <1>2, <2>1, <2>2 DEF BookOK
  <2>3. ASSUME NEW n \in 1 .. Len(trades'), ~In(opened', n)
        PROVE  Over(trades'[n].rec)
    BY <1>2, <1>3, <2>1, <2>3 DEF BookOK
  <2>4. BookOK'
    BY <1>2, <2>1, <2>2, <2>3 DEF BookOK
  <2> QED  BY <1>1, <1>2, <2>1, <2>4
<1>4. CASE Over(e.rec) /\ opened' = opened /\ ~In(opened, id)
  <2>1. ASSUME NEW n, In(opened, n)
        PROVE  n \in 1 .. Len(trades') /\ Live(trades'[n].rec)
    BY <1>2, <1>4, <2>1 DEF BookOK
  <2>2. ASSUME NEW n \in 1 .. Len(trades'), ~In(opened, n)
        PROVE  Over(trades'[n].rec)
    BY <1>2, <1>4, <2>2 DEF BookOK
  <2>3. BookOK'
    BY <1>2, <1>4, <2>1, <2>2 DEF BookOK
  <2> QED  BY <1>1, <1>2, <1>4, <2>3
<1>5. CASE e.rec = trades[id].rec /\ opened' = opened
  <2>1. \A n \in 1 .. Len(trades) : trades'[n].rec = trades[n].rec
    BY <1>2, <1>5
  <2>2. BookOK'
    BY <1>2, <1>5, <2>1 DEF BookOK
  <2> QED  BY <1>1, <1>2, <1>5, <2>2
<1> QED  BY <1>3, <1>4, <1>5

-----------------------------------------------------------------------------
(* Steps that leave the book alone, and those that open or close a trade.  *)

LEMMA BookUntouched ==
  ASSUME BookOK, UNCHANGED <<trades, opened>>, DataOK',
         StackOK(stack', Len(trades), opened)
  PROVE  Inv'
  BY DEF Inv, BookOK

LEMMA Called ==
  ASSUME NEW s, NEW n, NEW list, StackOK(s, n, list), NEW id \in Nat
  PROVE  StackOK(<<Callback(id)>> \o s, n, list)
<1>1. Callback(id) \in Pending /\ FrameOK(Callback(id), n, list)
  BY DEF Callback, Pending, FrameOK
<1> QED  BY <1>1, Pushed

Plain(n) == {f \in Pending : f.at \notin {"aborted", "trades"} /\ (f.at = "timed" => n > 0)}

LEMMA PlainStack ==
  ASSUME NEW n, NEW s \in Seq(Plain(n)), NEW list
  PROVE  StackOK(s, n, list)
<1>1. s \in Seq(Pending)
  <2>1. Plain(n) \subseteq Pending
    BY DEF Plain
  <2> QED  BY <2>1, SeqMonotonic
<1>2. \A i \in 1 .. Len(s) : s[i] \in Plain(n)
  BY ElementOfSeq
<1>3. \A f \in Plain(n) : FrameOK(f, n, list)
  BY DEF Plain, FrameOK
<1> QED  BY <1>1, <1>2, <1>3 DEF StackOK

LEMMA Opens ==
  ASSUME Inv, quote # 0, NEW long \in Sides, NEW shares \in Positive, NEW sl \in Int,
         NEW tp \in Int, NEW order \in Nat, NEW rest,
         StackOK(rest, Len(trades), opened),
         SendOpen(long, shares, sl, tp, order, rest)
  PROVE  Inv'
<1> DEFINE q == IF long THEN ask ELSE bid
           new == NewTrade(long, shares)
           deal == [isLong |-> long, vol |-> shares]
           verdict == DealVerdict(new, deal)
           E(rec) == [rec |-> rec, sl |-> sl, tp |-> tp, openQ |-> q,
                      closeQ |-> 0, order |-> order]
           id == Len(trades) + 1
<1>1. q \in Positive /\ Len(trades) \in Nat /\ (~long => FALSE \in Sides)
  <2>1. ~long => FALSE \in Sides
    BY SideAssumption
  <2>2. q \in Nat /\ q # 0
    BY DEF Inv, DataOK, PricesOK
  <2>3. Len(trades) \in Nat
    BY DEF Inv, BookOK
  <2>4. q \in Positive
    BY <2>2 DEF Positive
  <2> QED  BY <2>1, <2>3, <2>4
<1>2. \A rec \in TradeRecords : E(rec) \in TradeEntries /\ E(rec).rec = rec
  BY <1>1 DEF TradeEntries
<1>3. CASE UNCHANGED <<trades, opened, bid, ask, quote, barOpen, orders>> /\ stack' = rest
  BY <1>3, BookUntouched DEF Inv, DataOK, PricesOK
<1>4. CASE UNCHANGED <<trades, opened, bid, ask, quote, barOpen, orders, stack>>
  BY <1>4, BookUntouched DEF Inv, DataOK, PricesOK
<1>5. CASE /\ verdict = "NoFailure"
           /\ trades' = Append(trades, E(AfterDealDone(new, deal)))
           /\ opened' = Append(opened, id)
           /\ stack' = <<Callback(id)>> \o rest
           /\ UNCHANGED <<bid, ask, quote, barOpen, orders>>
  <2>1. AfterDealDone(new, deal) \in TradeRecords /\ Live(AfterDealDone(new, deal))
    BY <1>5, NewFilled
  <2>2. /\ BookOK' /\ Len(trades') = Len(trades) + 1
        /\ \A n \in 1 .. Len(trades) : In(opened', n) => In(opened, n)
    BY <1>2, <1>5, <2>1, TradeAdded DEF Inv
  <2>3. StackOK(rest, Len(trades'), opened')
    BY <1>1, <2>2, StackKept
  <2>4. StackOK(stack', Len(trades'), opened')
    BY <1>1, <1>5, <2>3, Called
  <2> QED  BY <1>5, <2>2, <2>4 DEF Inv, DataOK, PricesOK
<1>6. CASE /\ verdict # "NoFailure"
           /\ trades' = Append(trades, E(MarkFailed(Booked(new, deal), verdict)))
           /\ opened' = opened
           /\ stack' = <<Callback(id), [at |-> "aborted", id |-> id]>> \o rest
           /\ UNCHANGED <<bid, ask, quote, barOpen, orders>>
  <2> DEFINE rec == MarkFailed(Booked(new, deal), verdict)
             frame == [at |-> "aborted", id |-> id]
  <2>1. rec \in TradeRecords /\ Over(rec) /\ ~long
    BY <1>6, NewFilled
  <2>2. /\ BookOK' /\ Len(trades') = Len(trades) + 1 /\ ~In(opened, id)
        /\ \A n \in 1 .. Len(trades) : In(opened', n) => In(opened, n)
    BY <1>2, <1>6, <2>1, TradeAdded DEF Inv
  <2>3. StackOK(rest, Len(trades'), opened')
    BY <1>1, <2>2, StackKept
  <2>4. frame \in Pending /\ FrameOK(frame, Len(trades'), opened')
    <3>1. id \in Nat /\ id \in 1 .. Len(trades') /\ ~In(opened', id) /\ FALSE \in Sides
      <4>1. id \in Nat /\ id \in 1 .. Len(trades')
        BY <1>1, <2>2
      <4>2. ~In(opened', id)
        BY <1>6, <2>2
      <4>3. FALSE \in Sides
        BY <1>1, <2>1
      <4> QED  BY <4>1, <4>2, <4>3
    <3>2. frame.at = "aborted" /\ frame.id = id /\ frame \in Pending
      BY <3>1 DEF Pending
    <3> QED  BY <3>1, <3>2 DEF FrameOK
  <2>5. StackOK(<<frame>> \o rest, Len(trades'), opened')
    BY <2>3, <2>4, Pushed
  <2>6. StackOK(<<Callback(id)>> \o (<<frame>> \o rest), Len(trades'), opened')
    BY <1>1, <2>5, Called
  <2>7. <<Callback(id)>> \o (<<frame>> \o rest) = <<Callback(id), frame>> \o rest
    <3>1. /\ <<Callback(id)>> \in Seq(Pending) /\ <<frame>> \in Seq(Pending)
          /\ rest \in Seq(Pending)
      BY <1>1, <2>3, <2>4 DEF StackOK, Callback, Pending
    <3>2. (<<Callback(id)>> \o <<frame>>) \o rest = <<Callback(id)>> \o (<<frame>> \o rest)
      BY <3>1, ConcatAssociative
    <3>3. <<Callback(id)>> \o <<frame>> = <<Callback(id), frame>>
      BY <2>4, TwoFrames DEF Callback, Pending
    <3> QED  BY <3>2, <3>3
  <2> QED  BY <1>6, <2>2, <2>6, <2>7 DEF Inv, DataOK, PricesOK
<1> QED  BY <1>3, <1>4, <1>5, <1>6 DEF SendOpen, Fail, book, market

LEMMA Closes ==
  ASSUME Inv, NEW id \in 1 .. Len(trades), SomethingInMarket(trades[id].rec),
         NEW reason \in CloseReasons, NEW rest,
         StackOK(rest, Len(trades), opened), SendClose(id, reason, rest)
  PROVE  Inv'
<1> DEFINE t == trades[id]
           q == IF t.rec.isLong THEN bid ELSE ask
           deal == [isLong |-> ~t.rec.isLong, vol |-> t.rec.inMarket]
           rec == AfterDealDone(AfterCloseRequest(t.rec, reason), deal)
           e == [t EXCEPT !.rec = rec, !.closeQ = q]
<1>1. t \in TradeEntries /\ q \in Nat
  BY ElementOfSeq DEF Inv, DataOK, PricesOK, BookOK
<1>2. t.rec \in TradeRecords /\ (Live(t.rec) \/ Over(t.rec))
  BY <1>1 DEF Inv, BookOK, TradeEntries
<1>3. rec \in TradeRecords /\ Over(rec)
  BY <1>2, CloseFilled
<1>4. e \in TradeEntries /\ e.rec = rec
  BY <1>1, <1>3 DEF TradeEntries
<1>5. trades' = [trades EXCEPT ![id] = e]
  BY DEF SendClose
<1>6. opened' = WithoutTrade(id) /\ stack' = <<Callback(id)>> \o rest
      /\ UNCHANGED <<bid, ask, quote, barOpen, orders>>
  BY DEF SendClose, market
<1>7. /\ BookOK' /\ Len(trades') = Len(trades) /\ Len(trades) \in Nat
      /\ \A n : In(opened', n) => In(opened, n)
  BY <1>3, <1>4, <1>5, <1>6, TradeChanged DEF Inv
<1>8. StackOK(rest, Len(trades'), opened')
  BY <1>7, StackKept
<1>9. StackOK(stack', Len(trades'), opened')
  BY <1>6, <1>8, Called
<1> QED  BY <1>6, <1>7, <1>9 DEF Inv, DataOK, PricesOK

-----------------------------------------------------------------------------
(* The steps of the program.                                               *)

\* What is known when the frame on top is of this kind.
LEMMA OnTop ==
  ASSUME Inv, NEW where, where # "idle", Top(where)
  PROVE  /\ Head(stack) \in Pending /\ Head(stack).at = where
         /\ FrameOK(Head(stack), Len(trades), opened)
         /\ StackOK(Rest, Len(trades), opened)
         /\ where \notin {"callback", "aborted"} => Ev \in Event
<1>1. stack # <<>> /\ Head(stack).at = where
  BY DEF Top, Where
<1>2. /\ Head(stack) \in Pending /\ FrameOK(Head(stack), Len(trades), opened)
      /\ StackOK(Rest, Len(trades), opened)
  BY <1>1, Popped DEF Inv, Rest
<1>3. Head(stack).at \notin {"callback", "aborted"} => Head(stack).ev \in Event
  BY <1>2 DEF Pending
<1> QED  BY <1>1, <1>2, <1>3 DEF Ev

LEMMA Spreads ==
  ASSUME Inv, NEW ev \in Event, SetBidAsk(ev)
  PROVE  PricesOK' /\ quote' = quote
  BY DEF Inv, DataOK, PricesOK, PricesOK, SetBidAsk, Spread, Event, Positive

LEMMA AfterAbortKeeps == Inv /\ AfterAbort => Inv'
<1> SUFFICES ASSUME Inv, AfterAbort PROVE Inv'
  OBVIOUS
<1> DEFINE id == Head(stack).id
           t == trades[id]
           e == [t EXCEPT !.rec = Detach(@)]
<1>1. id \in 1 .. Len(trades) /\ ~In(opened, id) /\ StackOK(Rest, Len(trades), opened)
  BY OnTop DEF AfterAbort, FrameOK
<1>2. t \in TradeEntries
  BY <1>1, ElementOfSeq DEF Inv, BookOK
<1>3. e \in TradeEntries /\ Over(e.rec)
  BY <1>2, LetGo DEF TradeEntries
<1>4. /\ trades' = [trades EXCEPT ![id] = e] /\ opened' = opened
      /\ stack' = <<Callback(id)>> \o Rest /\ UNCHANGED <<bid, ask, quote, barOpen, orders>>
  BY DEF AfterAbort, market
<1>5. BookOK' /\ Len(trades') = Len(trades)
  BY <1>1, <1>3, <1>4, TradeChanged DEF Inv
<1>6. StackOK(stack', Len(trades'), opened')
  BY <1>1, <1>4, <1>5, Called DEF Inv, BookOK
<1> QED  BY <1>4, <1>5, <1>6 DEF Inv, DataOK, PricesOK

LEMMA WalkTrades ==
  ASSUME Inv, EnterTrades \/ CheckTrade \/ LeaveTrades PROVE Inv'
<1>1. CASE EnterTrades
  <2> DEFINE f == [at |-> "trades", ev |-> Ev, todo |-> opened]
  <2>1. Ev \in Event /\ StackOK(Rest, Len(trades), opened)
    BY <1>1, OnTop DEF EnterTrades
  <2>2. f \in Pending
    BY <2>1 DEF Pending, Inv, BookOK
  <2>3. FrameOK(f, Len(trades), opened)
    BY DEF FrameOK, Inv, BookOK, In
  <2>4. StackOK(stack', Len(trades), opened)
    BY <1>1, <2>1, <2>2, <2>3, Pushed DEF EnterTrades
  <2>5. DataOK'
    BY <1>1, <2>1, Spreads DEF EnterTrades, DataOK, Inv, book
  <2> QED  BY <1>1, <2>4, <2>5, BookUntouched DEF EnterTrades, book, Inv
<1>2. CASE CheckTrade
  <2> DEFINE id == Head(Head(stack).todo)
             f == [Head(stack) EXCEPT !.todo = Tail(@)]
  <2>1. /\ Head(stack) \in [at: {"trades"}, ev: Event, todo: Seq(Nat)]
        /\ FrameOK(Head(stack), Len(trades), opened)
        /\ StackOK(Rest, Len(trades), opened)
    BY <1>2, OnTop DEF CheckTrade, Pending
  <2>2. /\ Head(stack).todo \in Seq(Nat) /\ Head(stack).todo # <<>>
        /\ \A k \in 1 .. Len(Head(stack).todo) : Head(stack).todo[k] \in 1 .. Len(trades)
    BY <1>2, <2>1 DEF CheckTrade, FrameOK
  <2>3. id \in 1 .. Len(trades)
    BY <2>2, EmptySeq
  <2>4. /\ Tail(Head(stack).todo) \in Seq(Nat)
        /\ \A k \in 1 .. Len(Tail(Head(stack).todo)) :
             Tail(Head(stack).todo)[k] \in 1 .. Len(trades)
    BY <2>2, HeadTailProperties
  <2>5. f \in Pending /\ FrameOK(f, Len(trades), opened)
    BY <2>1, <2>4 DEF Pending, FrameOK
  <2>6. StackOK(Remaining, Len(trades), opened)
    BY <2>1, <2>5, Pushed DEF Remaining
  <2>7. CASE UNCHANGED <<trades, opened, bid, ask, quote, barOpen, orders, stack>>
    BY <2>7, BookUntouched DEF Inv, DataOK, PricesOK
  <2>8. CASE stack' = Remaining /\ UNCHANGED <<trades, opened, bid, ask, quote, barOpen, orders>>
    BY <2>6, <2>8, BookUntouched DEF Inv, DataOK, PricesOK
  <2>9. ASSUME NEW reason \in {"StopLoss", "TakeProfit"}, SomethingInMarket(trades[id].rec),
               SendClose(id, reason, Remaining)
        PROVE  Inv'
    BY <2>3, <2>6, <2>9, Closes DEF CloseReasons
  <2> QED  BY <1>2, <2>7, <2>8, <2>9 DEF CheckTrade, Fail, book, market
<1>3. CASE LeaveTrades
  <2>1. StackOK(Rest, Len(trades), opened)
    BY <1>3, OnTop DEF LeaveTrades
  <2> QED  BY <1>3, <2>1, BookUntouched DEF LeaveTrades, book, market, Inv, DataOK, PricesOK
<1> QED  BY <1>1, <1>2, <1>3

LEMMA OrderTypes ==
  ASSUME NEW od \in Orders
  PROVE  /\ od.long \in Sides /\ od.shares \in Positive
         /\ od.sl \in Int /\ od.tp \in Int /\ od.id \in Nat
<1>1. MaxPrice \in Nat /\ MaxShares \in Nat /\ MaxOrders \in Nat
  BY PriceAssumption, CountAssumption
<1>2. od.long \in Sides /\ od.sl \in Levels /\ od.tp \in TakeProfits
  BY DEF Orders
<1>3. od.shares \in 1 .. MaxShares /\ od.id \in 1 .. MaxOrders
  BY DEF Orders
<1>4. \A x \in Levels : x \in Int
  BY <1>1 DEF Levels
<1>5. od.tp \in Levels
  BY <1>2, SideAssumption
<1>6. od.shares \in Positive /\ od.id \in Nat
  BY <1>1, <1>3 DEF Positive
<1> QED  BY <1>2, <1>4, <1>5, <1>6

LEMMA WalkOrders ==
  ASSUME Inv, EnterOrders \/ PassOrder \/ ExecuteOrder \/ CleanOrder \/ LeaveOrders
  PROVE  Inv'
<1>1. CASE EnterOrders
  <2> DEFINE f == [at |-> "orders", ev |-> Ev, i |-> 1]
  <2>1. Ev \in Event /\ StackOK(Rest, Len(trades), opened)
    BY <1>1, OnTop DEF EnterOrders
  <2>2. f \in Pending /\ FrameOK(f, Len(trades), opened)
    BY <2>1 DEF Pending, FrameOK
  <2>3. StackOK(stack', Len(trades), opened)
    BY <1>1, <2>1, <2>2, Pushed DEF EnterOrders
  <2>4. PricesOK' /\ (quote # 0 => quote' # 0)
    BY <1>1, <2>1, Spreads DEF EnterOrders, market, Inv, DataOK, PricesOK
  <2> QED  BY <1>1, <2>3, <2>4, BookUntouched DEF EnterOrders, book, Inv, DataOK, PricesOK
<1>2. CASE PassOrder
  <2>1. /\ Head(stack) \in [at: {"orders"}, ev: Event, i: Nat]
        /\ StackOK(Rest, Len(trades), opened)
    BY <1>2, OnTop DEF PassOrder, Pending
  <2>2. NextSlot(Head(stack)) \in Pending /\ FrameOK(NextSlot(Head(stack)), Len(trades), opened)
    BY <2>1 DEF NextSlot, Pending, FrameOK
  <2>3. StackOK(<<NextSlot(Head(stack))>> \o Rest, Len(trades), opened)
    BY <2>1, <2>2, Pushed
  <2>4. StackOK(stack', Len(trades), opened)
    BY <1>2, <2>3 DEF PassOrder, Fail, Inv
  <2> QED  BY <1>2, <2>4, BookUntouched DEF PassOrder, Fail, book, market, Inv, DataOK, PricesOK
<1>3. CASE ExecuteOrder
  <2> DEFINE od == orders.slots[Head(stack).i]
             f == [Head(stack) EXCEPT !.at = "executed"]
  <2>1. /\ Head(stack) \in [at: {"orders"}, ev: Event, i: Nat] /\ Ev \in Event
        /\ StackOK(Rest, Len(trades), opened)
    BY <1>3, OnTop DEF ExecuteOrder, Pending
  <2>2. od \in Orders
    <3>1. Head(stack).i \in 1 .. Len(orders.slots)
      BY <1>3 DEF ExecuteOrder, Inv, DataOK, PricesOK
    <3>2. od \in Orders \cup {Clean}
      BY <3>1, ElementOfSeq DEF Inv, DataOK, PricesOK
    <3> QED  BY <1>3, <3>2 DEF ExecuteOrder, Triggered
  <2>3. f \in Pending /\ FrameOK(f, Len(trades), opened)
    BY <2>1 DEF Pending, FrameOK
  <2>4. StackOK(<<f>> \o Rest, Len(trades), opened)
    BY <2>1, <2>3, Pushed
  <2>5. CASE SetBidAsk(Ev) /\ UNCHANGED <<book, orders, stack, fault, fates>>
    <3>1. DataOK'
      BY <2>1, <2>5, Spreads DEF Inv, DataOK, book
    <3> QED  BY <2>5, <3>1, BookUntouched DEF book, Inv
  <2>6. CASE SendOpen(od.long, od.shares, od.sl, od.tp, od.id, <<f>> \o Rest)
    <3>1. quote # 0
      <4>1. Head(stack).i \in 1 .. Len(orders.slots)
        BY <1>3 DEF ExecuteOrder, Inv, DataOK
      <4> QED  BY <4>1 DEF Inv, DataOK
    <3> QED  BY <2>2, <2>4, <2>6, <3>1, OrderTypes, Opens
  <2> QED  BY <1>3, <2>5, <2>6 DEF ExecuteOrder
<1>4. CASE CleanOrder
  <2>1. /\ Head(stack) \in [at: {"executed"}, ev: Event, i: Nat]
        /\ StackOK(Rest, Len(trades), opened)
    BY <1>4, OnTop DEF CleanOrder, Pending
  <2>2. NextSlot(Head(stack)) \in Pending /\ FrameOK(NextSlot(Head(stack)), Len(trades), opened)
    BY <2>1 DEF NextSlot, Pending, FrameOK
  <2>3. StackOK(<<NextSlot(Head(stack))>> \o Rest, Len(trades), opened)
    BY <2>1, <2>2, Pushed
  <2>4. StackOK(stack', Len(trades), opened)
    BY <1>4, <2>3 DEF CleanOrder, Fail, Inv
  <2>5. orders'.slots \in Seq(Orders \cup {Clean}) /\ Len(orders'.slots) = Len(orders.slots)
    <3>1. CASE CanDrop(orders, Head(stack).i)
      <4>1. Head(stack).i \in 1 .. Len(orders.slots)
        BY <3>1 DEF CanDrop, Inv, DataOK, PricesOK
      <4>2. orders'.slots = [orders.slots EXCEPT ![Head(stack).i] = Clean]
        BY <1>4, <3>1 DEF CleanOrder, DropIdx
      <4> QED  BY <4>1, <4>2, ExceptSeq DEF Inv, DataOK
    <3>2. CASE ~CanDrop(orders, Head(stack).i)
      BY <1>4, <3>2 DEF CleanOrder, Fail, Inv, DataOK, PricesOK
    <3> QED  BY <3>1, <3>2
  <2>6. UNCHANGED <<trades, opened, bid, ask, quote, barOpen>>
    BY <1>4 DEF CleanOrder, Fail, book, market
  <2> QED  BY <2>4, <2>5, <2>6, BookUntouched DEF Inv, DataOK, PricesOK
<1>5. CASE LeaveOrders
  <2>1. StackOK(Rest, Len(trades), opened)
    BY <1>5, OnTop DEF LeaveOrders
  <2> QED  BY <1>5, <2>1, BookUntouched DEF LeaveOrders, book, market, Inv, DataOK, PricesOK
<1> QED  BY <1>1, <1>2, <1>3, <1>4, <1>5

LEMMA StepKeeps == Inv /\ Step => Inv'
<1> SUFFICES ASSUME Inv, Step PROVE Inv'
  OBVIOUS
<1>1. CASE TimedCallback
  <2>1. Ev \in Event /\ StackOK(Rest, Len(trades), opened)
    BY <1>1, OnTop DEF TimedCallback
  <2>2. StackOK(stack', Len(trades), opened)
    <3>1. StackOK(<<Callback(0)>> \o Rest, Len(trades), opened)
      BY <2>1, Called
    <3> QED  BY <1>1, <2>1, <3>1 DEF TimedCallback
  <2>3. BarOpenEvent(quote, Ev.time) \in Event
    <3>1. Len(trades) > 0 /\ Len(trades) \in Nat
      <4>1. Head(stack).at = "timed" /\ FrameOK(Head(stack), Len(trades), opened)
        BY <1>1, OnTop DEF TimedCallback
      <4> QED  BY <4>1 DEF FrameOK, Inv, BookOK
    <3>2. quote \in Positive
      BY <3>1 DEF Inv, DataOK, PricesOK, Positive
    <3> QED  BY <2>1, <3>2 DEF BarOpenEvent, Event
  <2>4. PricesOK' /\ (quote # 0 => quote' # 0)
    BY <1>1, <2>1, <2>3, Spreads DEF TimedCallback, market, Inv, DataOK, PricesOK
  <2> QED  BY <1>1, <2>2, <2>4, BookUntouched DEF TimedCallback, book, Inv, DataOK, PricesOK
<1>2. CASE FinishBar
  <2>1. Ev \in Event /\ StackOK(Rest, Len(trades), opened)
    BY <1>2, OnTop DEF FinishBar
  <2>2. PricesOK' /\ (quote # 0 => quote' # 0)
    BY <1>2, <2>1 DEF FinishBar, Event, Positive, PricesOK
  <2> QED  BY <1>2, <2>1, <2>2, BookUntouched DEF FinishBar, book, Inv, DataOK, PricesOK
<1>3. CASE Return
  <2>1. StackOK(Rest, Len(trades), opened)
    BY <1>3, OnTop DEF Return
  <2> QED  BY <1>3, <2>1, BookUntouched DEF Return, book, market, Inv, DataOK, PricesOK
<1> QED  BY <1>1, <1>2, <1>3, AfterAbortKeeps, WalkTrades, WalkOrders DEF Step

-----------------------------------------------------------------------------
(* The steps of the strategy and of the market.                            *)

LEMMA StrategyKeeps == Inv /\ Strategy => Inv'
<1> SUFFICES ASSUME Inv, Strategy PROVE Inv'
  OBVIOUS
<1>1. \A x \in Levels \cup TakeProfits : x \in Int
  BY PriceAssumption, SideAssumption DEF Levels
<1>2. ASSUME NEW long \in Sides, NEW shares \in 1 .. MaxShares, NEW sl \in Levels,
             NEW tp \in TakeProfits, OpenNow(long, shares, sl, tp)
      PROVE  Inv'
  <2>1. shares \in Positive /\ sl \in Int /\ tp \in Int
    BY <1>1, PriceAssumption DEF Positive
  <2>2. quote # 0 /\ SendOpen(long, shares, sl, tp, 0, stack) /\ StackOK(stack, Len(trades), opened)
    BY <1>2 DEF OpenNow, Inv
  <2> QED  BY <2>1, <2>2, Opens
<1>3. ASSUME NEW id \in DOMAIN trades, CloseNow(id) PROVE Inv'
  <2>1. id \in 1 .. Len(trades) /\ StackOK(stack, Len(trades), opened)
    BY DEF Inv, BookOK
  <2> QED  BY <1>3, <2>1, Closes DEF CloseNow, CloseReasons
<1>4. ASSUME NEW id \in DOMAIN trades, NEW sl \in Levels, NEW tp \in TakeProfits,
             MoveStops(id, sl, tp)
      PROVE  Inv'
  <2> DEFINE e == [trades[id] EXCEPT !.sl = sl, !.tp = tp]
  <2>1. id \in 1 .. Len(trades) /\ trades[id] \in TradeEntries
    BY ElementOfSeq DEF Inv, BookOK
  <2>2. e \in TradeEntries /\ e.rec = trades[id].rec
    BY <1>1, <2>1 DEF TradeEntries
  <2>3. /\ trades' = [trades EXCEPT ![id] = e] /\ opened' = opened
        /\ UNCHANGED <<bid, ask, quote, barOpen, orders, stack>>
    BY <1>4 DEF MoveStops, market
  <2>4. BookOK' /\ Len(trades') = Len(trades)
    BY <2>1, <2>2, <2>3, TradeChanged DEF Inv
  <2> QED  BY <2>3, <2>4 DEF Inv, DataOK, PricesOK
<1>5. ASSUME NEW od \in Orders, PlaceOrder(od) PROVE Inv'
  <2>1. orders'.slots \in Seq(Orders \cup {Clean})
    <3>1. CASE orders' = orders
      BY <3>1 DEF Inv, DataOK, PricesOK
    <3>2. CASE orders' = AddNew(orders, od)
      <4> DEFINE Slot == Orders \cup {Clean}
      <4>1. orders.slots \in Seq(Slot) /\ od \in Slot
        BY DEF Inv, DataOK, PricesOK
      <4> HIDE DEF Slot
      <4>2. Append(orders.slots, od) \in Seq(Slot)
        BY <4>1
      <4>3. ASSUME NEW i PROVE [orders.slots EXCEPT ![i] = od] \in Seq(Slot)
        <5>1. CASE i \in 1 .. Len(orders.slots)
          BY <4>1, <5>1, ExceptSeq
        <5>2. CASE i \notin 1 .. Len(orders.slots)
          <6>1. [orders.slots EXCEPT ![i] = od] = orders.slots
            BY <4>1, <5>2
          <6> QED  BY <4>1, <6>1
        <5> QED  BY <5>1, <5>2
      <4> QED  BY <3>2, <4>1, <4>2, <4>3 DEF AddNew, Slot
    <3> QED  BY <1>5, <3>1, <3>2 DEF PlaceOrder, Fail
  <2>2. UNCHANGED <<trades, opened, bid, ask, quote, barOpen, stack>>
    BY <1>5 DEF PlaceOrder, Fail, book, market
  <2>3. quote # 0
    BY <1>5 DEF PlaceOrder
  <2> QED  BY <2>1, <2>2, <2>3, BookUntouched DEF Inv, DataOK, PricesOK
<1>6. CASE DropOrders
  <2>1. orders'.slots \in Seq(Orders \cup {Clean}) /\ Len(orders'.slots) = Len(orders.slots)
    <3> DEFINE Slot == Orders \cup {Clean}
    <3>1. orders.slots \in Seq(Slot) /\ Clean \in Slot
      BY DEF Inv, DataOK, PricesOK
    <3> HIDE DEF Slot
    <3>2. LET clean == [i \in DOMAIN orders.slots |-> Clean]
          IN clean \in Seq(Slot) /\ Len(clean) = Len(orders.slots)
      BY <3>1
    <3> QED  BY <1>6, <3>1, <3>2 DEF DropOrders, DropAll, Slot
  <2>2. UNCHANGED <<trades, opened, bid, ask, quote, barOpen, stack>>
    BY <1>6 DEF DropOrders, book, market
  <2> QED  BY <2>1, <2>2, BookUntouched DEF Inv, DataOK, PricesOK
<1> QED  BY <1>2, <1>3, <1>4, <1>5, <1>6 DEF Strategy

\* An event finds no call pending; its frames are neither walks nor aborts.
LEMMA EventKeeps ==
  ASSUME Inv, NEW ev \in Event, NEW before,
         opened # <<>> => before \in Seq(Plain(Len(trades))), Handle(ev, before),
         UNCHANGED <<trades, opened, bid, ask, quote, barOpen, orders>>
  PROVE  Inv'
<1> DEFINE enter == [at |-> "enter", ev |-> ev]
           scan == [at |-> "scan", ev |-> ev]
           finish == [at |-> "finish", ev |-> ev, found |-> Len(trades)]
           first == IF opened = <<>> THEN <<>> ELSE before \o <<enter>>
<1> DEFINE n == Len(trades)
<1>1. enter \in Plain(n) /\ scan \in Plain(n)
  BY DEF Plain, Pending
<1>2. finish \in Plain(n)
  BY DEF Plain, Pending, Inv, BookOK
<1> HIDE DEF enter, scan, finish
<1>3. /\ <<enter>> \in Seq(Plain(n)) /\ <<>> \in Seq(Plain(n)) /\ <<scan, finish>> \in Seq(Plain(n))
  BY <1>1, <1>2
<1>4. first \in Seq(Plain(n))
  BY <1>3, ConcatProperties
<1>5. first \o <<scan, finish>> \in Seq(Plain(n))
  BY <1>3, <1>4, ConcatProperties
<1>6. stack' = first \o <<scan, finish>>
  BY DEF Handle, enter, scan, finish
<1>7. StackOK(stack', Len(trades), opened)
  BY <1>5, <1>6, PlainStack
<1> QED  BY <1>7, BookUntouched DEF Inv, DataOK, PricesOK

\* An open trade is a trade.
LEMMA AnyOpened ==
  ASSUME Inv, opened # <<>> PROVE Len(trades) > 0
<1>1. Len(opened) \in Nat \ {0}
  BY EmptySeq DEF Inv, BookOK
<1>2. In(opened, opened[1])
  BY <1>1 DEF In
<1> QED  BY <1>2 DEF Inv, BookOK

LEMMA MarketKeeps == Inv /\ Market => Inv'
<1> SUFFICES ASSUME Inv, Market PROVE Inv'
  OBVIOUS
<1>1. ASSUME NEW q \in Prices, NEW time \in Times, OpenBar(q, time) PROVE Inv'
  <2> DEFINE ev == BarOpenEvent(q, time)
             f == [at |-> "timed", ev |-> ev]
  <2>1. ev \in Event
    BY PriceAssumption DEF BarOpenEvent, Event, Prices, Positive
  <2>2. ASSUME opened # <<>> PROVE f \in Plain(Len(trades))
    BY <2>1, <2>2, AnyOpened DEF Plain, Pending
  <2> HIDE DEF ev
  <2>3. opened # <<>> => <<f>> \in Seq(Plain(Len(trades)))
    BY <2>2
  <2>4. /\ Handle(ev, <<f>>)
        /\ UNCHANGED <<trades, opened, bid, ask, quote, barOpen, orders>>
    BY <1>1 DEF OpenBar, book, market, ev
  <2> QED  BY <2>1, <2>3, <2>4, EventKeeps
<1>2. ASSUME NEW ev \in BarCloseEvents, CloseBar(ev) PROVE Inv'
  <2>1. ev \in Event
    BY <1>2, PriceAssumption
    DEF BarCloseEvents, CloseBar, Event, Prices, Positive, Inv, DataOK, PricesOK
  <2>2. <<>> \in Seq(Plain(Len(trades)))
    OBVIOUS
  <2>3. /\ Handle(ev, <<>>)
        /\ UNCHANGED <<trades, opened, bid, ask, quote, barOpen, orders>>
    BY <1>2 DEF CloseBar, book, market
  <2> QED  BY <2>1, <2>2, <2>3, EventKeeps
<1>3. ASSUME NEW time \in Times, NotifyDateTime(time) PROVE Inv'
  <2> DEFINE ev == BarOpenEvent(quote, time)
             f == [at |-> "timed", ev |-> ev]
  <2>0. Len(trades) > 0
    BY <1>3, AnyOpened DEF NotifyDateTime
  <2>1. ev \in Event
    BY <1>3, <2>0 DEF NotifyDateTime, BarOpenEvent, Event, Positive, Inv, DataOK, PricesOK
  <2>2. f \in Plain(Len(trades))
    BY <2>0, <2>1 DEF Plain, Pending
  <2> HIDE DEF ev
  <2>3. <<f>> \in Seq(Plain(Len(trades)))
    BY <2>2
  <2>4. /\ stack' = <<f>>
        /\ UNCHANGED <<trades, opened, bid, ask, quote, barOpen, orders>>
    BY <1>3 DEF NotifyDateTime, book, market, ev
  <2>5. StackOK(stack', Len(trades), opened)
    BY <2>3, <2>4, PlainStack
  <2> QED  BY <2>4, <2>5, BookUntouched DEF Inv, DataOK, PricesOK
<1> QED  BY <1>1, <1>2, <1>3 DEF Market

LEMMA InvInit == Init => Inv
<1> SUFFICES ASSUME Init PROVE Inv
  OBVIOUS
<1>1. /\ trades = <<>> /\ opened = <<>> /\ stack = <<>> /\ orders.slots = <<>>
      /\ bid = 0 /\ ask = 0 /\ quote = 0 /\ barOpen = 0
  BY DEF Init, EmptyStore
<1>2. \A S : <<>> \in Seq(S)
  OBVIOUS
<1>3. Len(<<>>) = 0
  OBVIOUS
<1>4. DataOK
  BY <1>1, <1>2, <1>3 DEF DataOK, PricesOK
<1>5. BookOK
  BY <1>1, <1>2, <1>3 DEF BookOK, In, Increasing
<1>6. StackOK(stack, Len(trades), opened)
  BY <1>1, <1>2, <1>3 DEF StackOK
<1> QED  BY <1>4, <1>5, <1>6 DEF Inv

LEMMA NextKeeps == Inv /\ [Next]_vars => Inv'
<1> SUFFICES ASSUME Inv, [Next]_vars PROVE Inv'
  OBVIOUS
<1>1. CASE UNCHANGED vars
  BY <1>1, BookUntouched DEF vars, book, market, Inv, DataOK, PricesOK
<1> QED  BY <1>1, StepKeeps, StrategyKeeps, MarketKeeps DEF Next, Terminated

\* The invariant of the book, the prices and the pending calls.
THEOREM BookInvariant == Spec => []Inv
  BY InvInit, NextKeeps, PTL DEF Spec

\* m_OpenedTrades names the trades that are in the market and no other, each once
\* and in the order of their opening, also in the middle of every callback.
THEOREM ListIsExact == Spec => []OpenedListExact
<1>1. Inv => OpenedListExact
  <2> SUFFICES ASSUME Inv PROVE OpenedListExact
    OBVIOUS
  <2>1. /\ DOMAIN opened = 1 .. Len(opened) /\ DOMAIN trades = 1 .. Len(trades)
    BY DEF Inv, BookOK
  <2>2. \A id : id \in OpenIds <=> In(opened, id)
    BY <2>1 DEF OpenIds, In
  <2>3. ASSUME NEW id, In(opened, id)
        PROVE  /\ id \in DOMAIN trades
               /\ SomethingInMarket(trades[id].rec) /\ ~IsFailed(trades[id].rec)
    BY <2>1, <2>3 DEF Inv, BookOK, Live, SomethingInMarket, Finished, IsFailed
  <2>4. ASSUME NEW id \in DOMAIN trades, ~In(opened, id)
        PROVE  ~(SomethingInMarket(trades[id].rec) /\ ~IsFailed(trades[id].rec))
    BY <2>1, <2>4 DEF Inv, BookOK, Over, SomethingInMarket, Finished, IsFailed
  <2>5. OpenIds = {id \in DOMAIN trades : SomethingInMarket(trades[id].rec)
                                          /\ ~IsFailed(trades[id].rec)}
    BY <2>2, <2>3, <2>4
  <2> QED  BY <2>1, <2>5 DEF OpenedListExact, Inv, BookOK, Increasing
<1> QED  BY <1>1, BookInvariant, PTL

-----------------------------------------------------------------------------
(* Sums over finite sets.                                                  *)

LEMMA Least ==
  ASSUME NEW S \in SUBSET Nat, S # {}
  PROVE  \E m \in S : \A n \in S : m <= n
<1> DEFINE R == OpToRel(<, Nat)
<1>1. IsWellFoundedOn(R, Nat)
  BY NatLessThanWellFounded
<1>2. ASSUME NEW i \in Nat, NEW j \in Nat, i < j PROVE <<i, j>> \in R
  BY <1>2 DEF OpToRel
<1> HIDE DEF R
<1>3. \E m \in S : \A n \in S : ~(<<n, m>> \in R)
  BY <1>1, WFMin
<1>4. PICK m \in S : \A n \in S : ~(<<n, m>> \in R)
  BY <1>3
<1>5. ASSUME NEW n \in S PROVE m <= n
  <2>1. ~(n < m)
    BY <1>2, <1>4
  <2> QED  BY <2>1
<1> QED  BY <1>5

\* Induction over a set of numbers that contains 0 and with each number the next.
LEMMA Inductive ==
  ASSUME NEW S \in SUBSET Nat, 0 \in S, \A n \in S : n + 1 \in S
  PROVE  S = Nat
<1> SUFFICES ASSUME Nat \ S # {} PROVE FALSE
  OBVIOUS
<1>1. PICK m \in Nat \ S : \A n \in Nat \ S : m <= n
  BY Least
<1>2. m - 1 \in Nat /\ m - 1 \notin Nat \ S
  BY <1>1
<1> QED  BY <1>1, <1>2

\* An element of a set, the same for every use of the set.
Some(S) == CHOOSE x \in S : TRUE

\* The equation that the sums of f over the subsets of S satisfy, as a fold has it.
Summed(g, f, S) ==
  g = [s \in SUBSET S |-> IF s = {} THEN 0 ELSE f[Some(s)] + g[s \ {Some(s)}]]

LEMMA SumIs ==
  ASSUME NEW f, NEW S
  PROVE  SumFunctionOnSet(f, S) = (CHOOSE g : Summed(g, f, S))[S]
  BY DEF SumFunctionOnSet, FoldFunctionOnSet, MapThenFoldSet, Summed, Some

LEMMA SetWithout ==
  ASSUME NEW T, IsFiniteSet(T), NEW x \in T
  PROVE  /\ IsFiniteSet(T \ {x}) /\ Cardinality(T) \in Nat
         /\ Cardinality(T \ {x}) \in Nat /\ Cardinality(T) = Cardinality(T \ {x}) + 1
<1>1. Cardinality(T) \in Nat
  BY FS_CardinalityType
<1>2. IsFiniteSet(T \ {x}) /\ Cardinality(T \ {x}) = Cardinality(T) - 1
  BY FS_RemoveElement
<1>3. Cardinality(T \ {x}) \in Nat
  BY <1>2, FS_CardinalityType
<1> QED  BY <1>1, <1>2, <1>3

\* There are such sums over a finite set: those of the sets with up to n elements
\* give those of the sets with one element more.
LEMMA SumExists ==
  ASSUME NEW f, NEW S, IsFiniteSet(S)
  PROVE  \E g : Summed(g, f, S)
<1> DEFINE Rhs(g, s) == IF s = {} THEN 0 ELSE f[Some(s)] + g[s \ {Some(s)}]
           UpTo(n) == \E g : \A s \in SUBSET S : Cardinality(s) <= n => g[s] = Rhs(g, s)
           N == {n \in Nat : UpTo(n)}
<1>1. \A s \in SUBSET S : IsFiniteSet(s) /\ Cardinality(s) \in Nat
  BY FS_Subset, FS_CardinalityType
<1>2. 0 \in N
  <2> DEFINE g == [s \in SUBSET S |-> 0]
  <2>1. ASSUME NEW s \in SUBSET S, Cardinality(s) <= 0 PROVE g[s] = Rhs(g, s)
    <3>1. s = {}
      BY <1>1, <2>1, FS_EmptySet
    <3> QED  BY <3>1
  <2> QED  BY <2>1
<1>3. ASSUME NEW n \in N PROVE n + 1 \in N
  <2>1. PICK g : \A s \in SUBSET S : Cardinality(s) <= n => g[s] = Rhs(g, s)
    OBVIOUS
  <2> DEFINE h == [s \in SUBSET S |-> Rhs(g, s)]
  <2>2. ASSUME NEW s \in SUBSET S, Cardinality(s) <= n + 1 PROVE h[s] = Rhs(h, s)
    <3>1. CASE s = {}
      BY <3>1
    <3>2. CASE s # {}
      <4> DEFINE x == Some(s)
                 r == s \ {x}
      <4>1. x \in s
        BY <3>2 DEF Some
      <4> HIDE DEF x
      <4>2. r \in SUBSET S /\ Cardinality(r) <= n
        BY <1>1, <2>2, <4>1, SetWithout
      <4> HIDE DEF r
      <4>3. g[r] = h[r]
        BY <2>1, <4>2
      <4>4. h[s] = f[x] + g[r] /\ Rhs(h, s) = f[x] + h[r]
        BY <3>2 DEF x, r
      <4> QED  BY <4>3, <4>4
    <3> QED  BY <3>1, <3>2
  <2> HIDE DEF h
  <2>3. UpTo(n + 1)
    BY <2>2
  <2> HIDE DEF UpTo
  <2>4. n + 1 \in Nat
    OBVIOUS
  <2> QED  BY <2>3, <2>4
<1> HIDE DEF N
<1>4. N = Nat
  BY <1>2, <1>3, Inductive DEF N
<1>5. PICK g : \A s \in SUBSET S : Cardinality(s) <= Cardinality(S) => g[s] = Rhs(g, s)
  BY <1>1, <1>4 DEF N
<1> DEFINE h == [s \in SUBSET S |-> g[s]]
<1>6. ASSUME NEW s \in SUBSET S PROVE h[s] = Rhs(h, s)
  <2>1. g[s] = Rhs(g, s)
    BY <1>1, <1>5, FS_Subset
  <2>2. s \ {Some(s)} \in SUBSET S
    OBVIOUS
  <2> QED  BY <2>1, <2>2
<1>7. h = [s \in SUBSET S |-> Rhs(h, s)]
  BY <1>6
<1> HIDE DEF h
<1> QED  BY <1>7 DEF Summed

\* The order in which the elements are added does not matter.
LEMMA SumTakes ==
  ASSUME NEW f, NEW S, IsFiniteSet(S), \A x \in S : f[x] \in Int,
         NEW g, Summed(g, f, S)
  PROVE  /\ \A T \in SUBSET S : g[T] \in Int
         /\ \A x \in S : g[S] = f[x] + g[S \ {x}]
<1> DEFINE Good(T) == g[T] \in Int /\ \A x \in T : g[T] = f[x] + g[T \ {x}]
           N == {n \in Nat : \A T \in SUBSET S : Cardinality(T) <= n => Good(T)}
<1>1. \A s \in SUBSET S : IsFiniteSet(s) /\ Cardinality(s) \in Nat
  BY FS_Subset, FS_CardinalityType
<1>2. g[{}] = 0 /\ \A s \in SUBSET S :
        s # {} => Some(s) \in s /\ g[s] = f[Some(s)] + g[s \ {Some(s)}]
  <2>1. \A s \in SUBSET S :
          g[s] = IF s = {} THEN 0 ELSE f[Some(s)] + g[s \ {Some(s)}]
    BY DEF Summed
  <2> QED  BY <2>1 DEF Some
<1>3. 0 \in N
  <2>1. ASSUME NEW T \in SUBSET S, Cardinality(T) <= 0 PROVE T = {}
    BY <1>1, <2>1, FS_EmptySet
  <2>2. Good({})
    BY <1>2
  <2> QED  BY <2>1, <2>2
<1>4. ASSUME NEW n \in N PROVE n + 1 \in N
  <2>1. ASSUME NEW T \in SUBSET S, Cardinality(T) <= n + 1 PROVE Good(T)
    <3>1. CASE T = {}
      BY <1>2, <3>1
    <3>2. CASE T # {}
      <4>1. PICK c \in T : g[T] = f[c] + g[T \ {c}]
        BY <1>2, <3>2
      <4>2. \A x \in T : T \ {x} \in SUBSET S /\ Good(T \ {x})
        <5>1. ASSUME NEW x \in T PROVE T \ {x} \in SUBSET S /\ Cardinality(T \ {x}) <= n
          BY <1>1, <2>1, SetWithout
        <5> QED  BY <5>1
      <4>3. g[T] \in Int
        BY <4>1, <4>2
      <4>4. ASSUME NEW x \in T PROVE g[T] = f[x] + g[T \ {x}]
        <5>1. CASE x = c
          BY <4>1, <5>1
        <5>2. CASE x # c
          <6> DEFINE r == T \ {x, c}
          <6>1. r = (T \ {c}) \ {x} /\ r = (T \ {x}) \ {c}
            OBVIOUS
          <6>2. g[T \ {c}] = f[x] + g[r] /\ g[T \ {x}] = f[c] + g[r]
            <7>1. Good(T \ {c}) /\ Good(T \ {x}) /\ x \in T \ {c} /\ c \in T \ {x}
              BY <4>2, <5>2
            <7> HIDE DEF r
            <7>2. g[T \ {c}] = f[x] + g[(T \ {c}) \ {x}]
              BY <7>1
            <7>3. g[T \ {x}] = f[c] + g[(T \ {x}) \ {c}]
              BY <7>1
            <7> QED  BY <6>1, <7>2, <7>3
          <6>3. g[r] \in Int
            <7>1. r \in SUBSET S /\ Cardinality(r) <= n
              <8>1. Cardinality(T \ {c}) <= n /\ IsFiniteSet(T \ {c}) /\ x \in T \ {c}
                BY <1>1, <2>1, <5>2, SetWithout
              <8>2. Cardinality(T \ {c}) = Cardinality(r) + 1 /\ Cardinality(r) \in Nat
                BY <6>1, <8>1, SetWithout
              <8> QED  BY <8>1, <8>2
            <7> QED  BY <7>1
          <6> HIDE DEF r
          <6>4. f[x] \in Int /\ f[c] \in Int
            OBVIOUS
          <6> QED  BY <4>1, <6>2, <6>3, <6>4
        <5> QED  BY <5>1, <5>2
      <4> QED  BY <4>3, <4>4
    <3> QED  BY <3>1, <3>2
  <2> QED  BY <2>1
<1> HIDE DEF N
<1>5. N = Nat
  BY <1>3, <1>4, Inductive DEF N
<1>6. \A T \in SUBSET S : Good(T)
  BY <1>1, <1>5 DEF N
<1>7. Good(S)
  BY <1>6
<1> QED  BY <1>6, <1>7

\* The sums over a set depend on the values in it only.
LEMMA SumsAgree ==
  ASSUME NEW f, NEW g, NEW S, IsFiniteSet(S), NEW h, Summed(h, g, S),
         NEW R \in SUBSET S, NEW k, Summed(k, f, R), \A x \in R : f[x] = g[x]
  PROVE  \A T \in SUBSET R : h[T] = k[T]
<1> DEFINE N == {n \in Nat : \A T \in SUBSET R : Cardinality(T) <= n => h[T] = k[T]}
<1>1. \A s \in SUBSET S : IsFiniteSet(s) /\ Cardinality(s) \in Nat
  BY FS_Subset, FS_CardinalityType
<1>2. /\ \A s \in SUBSET S : h[s] = IF s = {} THEN 0 ELSE g[Some(s)] + h[s \ {Some(s)}]
      /\ \A s \in SUBSET R : k[s] = IF s = {} THEN 0 ELSE f[Some(s)] + k[s \ {Some(s)}]
  BY DEF Summed
<1>3. 0 \in N
  <2>1. ASSUME NEW T \in SUBSET R, Cardinality(T) <= 0 PROVE T = {}
    BY <1>1, <2>1, FS_EmptySet
  <2> QED  BY <1>2, <2>1
<1>4. ASSUME NEW n \in N PROVE n + 1 \in N
  <2>1. ASSUME NEW T \in SUBSET R, Cardinality(T) <= n + 1 PROVE h[T] = k[T]
    <3>1. CASE T = {}
      BY <1>2, <3>1
    <3>2. CASE T # {}
      <4>1. Some(T) \in T
        BY <3>2 DEF Some
      <4>2. T \ {Some(T)} \in SUBSET R /\ Cardinality(T \ {Some(T)}) <= n
        BY <1>1, <2>1, <4>1, SetWithout
      <4>3. h[T \ {Some(T)}] = k[T \ {Some(T)}] /\ f[Some(T)] = g[Some(T)]
        BY <4>1, <4>2
      <4> QED  BY <1>2, <3>2, <4>3
    <3> QED  BY <3>1, <3>2
  <2> QED  BY <2>1
<1> HIDE DEF N
<1>5. N = Nat
  BY <1>3, <1>4, Inductive DEF N
<1> QED  BY <1>1, <1>5 DEF N

\* A sum is taken from any of its values, and depends on them only.
LEMMA SumWithout ==
  ASSUME NEW f, NEW S, IsFiniteSet(S), \A x \in S : f[x] \in Int
  PROVE  /\ SumFunctionOnSet(f, S) \in Int
         /\ S = {} => SumFunctionOnSet(f, S) = 0
         /\ \A x \in S : SumFunctionOnSet(f, S) = f[x] + SumFunctionOnSet(f, S \ {x})
<1>1. PICK h : Summed(h, f, S) /\ SumFunctionOnSet(f, S) = h[S]
  <2>1. Summed(CHOOSE g : Summed(g, f, S), f, S)
    BY SumExists
  <2> QED  BY <2>1, SumIs
<1>2. h[S] \in Int /\ \A x \in S : h[S] = f[x] + h[S \ {x}]
  BY <1>1, SumTakes
<1>3. S = {} => h[S] = 0
  BY <1>1 DEF Summed
<1>4. ASSUME NEW x \in S PROVE SumFunctionOnSet(f, S \ {x}) = h[S \ {x}]
  <2>1. IsFiniteSet(S \ {x}) /\ S \ {x} \in SUBSET S
    BY SetWithout
  <2>2. PICK k : Summed(k, f, S \ {x}) /\ SumFunctionOnSet(f, S \ {x}) = k[S \ {x}]
    <3>1. Summed(CHOOSE g : Summed(g, f, S \ {x}), f, S \ {x})
      BY <2>1, SumExists
    <3> QED  BY <3>1, SumIs
  <2>3. \A T \in SUBSET (S \ {x}) : h[T] = k[T]
    <3> DEFINE R == S \ {x}
    <3>1. /\ R \in SUBSET S /\ Summed(h, f, S) /\ Summed(k, f, R)
          /\ \A y \in R : f[y] = f[y]
      BY <1>1, <2>1, <2>2
    <3> HIDE DEF R
    <3>2. \A T \in SUBSET R : h[T] = k[T]
      BY <3>1, SumsAgree
    <3> QED  BY <3>2 DEF R
  <2> QED  BY <2>2, <2>3
<1>5. ASSUME NEW x \in S
      PROVE  SumFunctionOnSet(f, S) = f[x] + SumFunctionOnSet(f, S \ {x})
  <2>1. SumFunctionOnSet(f, S \ {x}) = h[S \ {x}] /\ h[S] = f[x] + h[S \ {x}]
    BY <1>2, <1>4
  <2> QED  BY <1>1, <2>1
<1> QED  BY <1>1, <1>2, <1>3, <1>5

LEMMA SumSame ==
  ASSUME NEW f, NEW g, NEW S, IsFiniteSet(S), \A x \in S : f[x] = g[x]
  PROVE  SumFunctionOnSet(f, S) = SumFunctionOnSet(g, S)
<1>1. PICK h : Summed(h, g, S) /\ SumFunctionOnSet(g, S) = h[S]
  <2>1. Summed(CHOOSE k : Summed(k, g, S), g, S)
    BY SumExists
  <2> QED  BY <2>1, SumIs
<1>2. PICK k : Summed(k, f, S) /\ SumFunctionOnSet(f, S) = k[S]
  <2>1. Summed(CHOOSE k : Summed(k, f, S), f, S)
    BY SumExists
  <2> QED  BY <2>1, SumIs
<1>3. S \in SUBSET S
  OBVIOUS
<1>4. h[S] = k[S]
  BY <1>1, <1>2, <1>3, SumsAgree
<1> QED  BY <1>1, <1>2, <1>4

\* Another value, while the others stay what they are.
LEMMA SumAdded ==
  ASSUME NEW f, NEW g, NEW S, IsFiniteSet(S), NEW x, x \notin S,
         \A y \in S : f[y] \in Int /\ g[y] = f[y], g[x] \in Int
  PROVE  SumFunctionOnSet(g, S \cup {x}) = SumFunctionOnSet(f, S) + g[x]
<1> DEFINE T == S \cup {x}
<1>1. IsFiniteSet(T) /\ x \in T /\ T \ {x} = S /\ \A y \in T : g[y] \in Int
  BY FS_AddElement
<1> HIDE DEF T
<1>2. SumFunctionOnSet(g, T) = g[x] + SumFunctionOnSet(g, S)
  BY <1>1, SumWithout
<1>3. SumFunctionOnSet(g, S) = SumFunctionOnSet(f, S)
  BY SumSame
<1>4. SumFunctionOnSet(f, S) \in Int
  BY SumWithout
<1> QED  BY <1>2, <1>3, <1>4 DEF T

-----------------------------------------------------------------------------
(* The account, for a strategy that trades on the long side.               *)

Held == [id \in OpenIds |-> trades[id].openQ * trades[id].rec.inMarket]

LEMMA ListedIds == Inv => \A id : id \in OpenIds <=> In(opened, id)
<1> SUFFICES ASSUME Inv PROVE \A id : id \in OpenIds <=> In(opened, id)
  OBVIOUS
<1>1. DOMAIN opened = 1 .. Len(opened)
  BY DEF Inv, BookOK
<1> QED  BY <1>1 DEF OpenIds, In

\* Multiplication is beyond the first backend in larger steps.
LEMMA Products ==
  ASSUME NEW q \in Positive, NEW o \in Nat, NEW n \in Positive
  PROVE  /\ q * n \in Positive /\ (q - o) * n \in Int /\ o * n \in Int
         /\ (q - o) * n + o * n = q * n
<1>1. q \in Nat /\ n \in Nat /\ q # 0 /\ n # 0
  BY DEF Positive
<1>2. q * n \in Nat /\ q * n # 0
  BY <1>1, Z3
<1>3. (q - o) * n \in Int /\ o * n \in Int /\ (q - o) * n + o * n = q * n
  BY <1>1, Z3
<1> QED  BY <1>2, <1>3 DEF Positive

\* What every trade has cost, and its result.
Cost == [id \in DOMAIN trades |-> trades[id].openQ * trades[id].rec.inMarket]
Result == [id \in DOMAIN trades |-> Profit(trades[id], trades[id].closeQ)]

\* A step that the account allows, and that keeps the balance.
AccountKept ==
  /\ cash' \in Int /\ [A!Next]_(A!vars)
  /\ CashBalanced => CashBalanced'

LEMMA Amounts ==
  ASSUME Inv
  PROVE  /\ DOMAIN trades = 1 .. Len(trades) /\ Len(trades) \in Nat
         /\ OpenIds \subseteq DOMAIN trades /\ ClosedIds \subseteq DOMAIN trades
         /\ IsFiniteSet(OpenIds) /\ IsFiniteSet(ClosedIds)
         /\ \A id \in DOMAIN trades : Cost[id] \in Int /\ Result[id] \in Int
<1>1. /\ DOMAIN trades = 1 .. Len(trades) /\ Len(trades) \in Nat
      /\ \A id \in DOMAIN trades : trades[id] \in TradeEntries
  BY ElementOfSeq DEF Inv, BookOK
<1>2. OpenIds \subseteq DOMAIN trades /\ ClosedIds \subseteq DOMAIN trades
  BY <1>1, ListedIds DEF ClosedIds, Inv, BookOK
<1>3. IsFiniteSet(1 .. Len(trades))
  BY <1>1, FS_Interval
<1>4. IsFiniteSet(OpenIds) /\ IsFiniteSet(ClosedIds)
  BY <1>1, <1>2, <1>3, FS_Subset
<1>5. ASSUME NEW id \in DOMAIN trades PROVE Cost[id] \in Int /\ Result[id] \in Int
  <2> DEFINE t == trades[id]
  <2>1. /\ t.openQ \in Int /\ t.closeQ \in Int /\ t.rec.planned \in Int
        /\ t.rec.inMarket \in Int
    BY <1>1 DEF TradeEntries, TradeRecords, Positive
  <2> HIDE DEF t
  <2>2. \A a, b \in Int : a * b \in Int /\ a - b \in Int
    BY Z3
  <2>3. t.openQ * t.rec.inMarket \in Int /\ Profit(t, t.closeQ) \in Int
    BY <2>1, <2>2 DEF Profit
  <2> QED  BY <2>3 DEF t, Cost, Result
<1> QED  BY <1>1, <1>2, <1>4, <1>5

\* The balance, in terms of these and of their sums.
LEMMA Balances ==
  ASSUME Inv
  PROVE  /\ SumFunctionOnSet(Result, ClosedIds) \in Int
         /\ SumFunctionOnSet(Cost, OpenIds) \in Int
         /\ CashBalanced <=>
              cash = SumFunctionOnSet(Result, ClosedIds) - SumFunctionOnSet(Cost, OpenIds)
         /\ CashBalanced' <=>
              cash' = SumFunctionOnSet(Result', ClosedIds')
                      - SumFunctionOnSet(Cost', OpenIds')
<1>1. /\ SumFunctionOnSet(Result, ClosedIds) \in Int
      /\ SumFunctionOnSet(Cost, OpenIds) \in Int
  BY Amounts, SumWithout
<1>2. CashBalanced <=>
        cash = SumFunctionOnSet(Result, ClosedIds) - SumFunctionOnSet(Cost, OpenIds)
  BY DEF CashBalanced, Cost, Result
<1>3. CashBalanced' <=>
        cash' = SumFunctionOnSet(Result', ClosedIds') - SumFunctionOnSet(Cost', OpenIds')
  BY DEF CashBalanced, Cost, Result
<1> QED  BY <1>1, <1>2, <1>3

\* Nothing of the account changes.
LEMMA AccountRests ==
  ASSUME Inv, cash \in Int, opened' = opened, cash' = cash,
         DOMAIN trades' = DOMAIN trades, Len(trades') = Len(trades),
         \A id \in 1 .. Len(trades) : /\ trades'[id].openQ = trades[id].openQ
                                      /\ trades'[id].closeQ = trades[id].closeQ
                                      /\ trades'[id].rec = trades[id].rec
  PROVE  AccountKept
<1>1. OpenIds' = OpenIds
  BY DEF OpenIds
<1>2. \A id \in OpenIds : id \in 1 .. Len(trades)
  BY ListedIds DEF Inv, BookOK
<1>3. Held' = Held
  BY <1>1, <1>2 DEF Held
<1>4. UNCHANGED A!vars
  BY <1>3 DEF A!vars, Held
<1>5. ClosedIds' = ClosedIds /\ Cost' = Cost /\ Result' = Result
  BY Amounts DEF ClosedIds, Cost, Result, Profit
<1>6. CashBalanced => CashBalanced'
  BY <1>1, <1>5 DEF CashBalanced, Cost, Result
<1> QED  BY <1>4, <1>6 DEF AccountKept

LEMMA AccountBuys ==
  ASSUME Sides \subseteq {TRUE}, Inv, cash \in Int, quote # 0,
         NEW long \in Sides, NEW shares \in Positive, NEW sl \in Int, NEW tp \in Int,
         NEW order \in Nat, NEW rest, SendOpen(long, shares, sl, tp, order, rest),
         BookOK'
  PROVE  AccountKept
<1> DEFINE q == IF long THEN ask ELSE bid
           new == NewTrade(long, shares)
           deal == [isLong |-> long, vol |-> shares]
           verdict == DealVerdict(new, deal)
           rec == AfterDealDone(new, deal)
           e == [rec |-> rec, sl |-> sl, tp |-> tp, openQ |-> q,
                 closeQ |-> 0, order |-> order]
           id == Len(trades) + 1
<1>1. long = TRUE
  OBVIOUS
<1>2. verdict = "NoFailure"
  BY <1>1, NewFilled
<1>3. CASE UNCHANGED book
  BY <1>3, AccountRests DEF book
<1>4. CASE /\ trades' = Append(trades, e) /\ opened' = Append(opened, id)
           /\ cash' = cash - q * shares
  <2>1. trades \in Seq(TradeEntries) /\ Len(trades) \in Nat
    BY DEF Inv, BookOK
  <2>2. /\ Len(trades') = id /\ trades'[id] = e
        /\ \A n \in 1 .. Len(trades) : trades'[n] = trades[n]
    BY <1>4, <2>1
  <2>3. q \in Positive
    BY DEF Inv, DataOK, PricesOK, Positive
  <2>4. q * shares \in Positive
    BY <2>3, Products DEF Positive
  <2>5. rec.inMarket = shares
    BY <1>2, NewFilled
  <2>6. \A n : In(opened', n) <=> In(opened, n) \/ n = id
    <3>1. \A n : In(opened, n) => n < id
      BY <2>1 DEF Inv, BookOK
    <3> QED  BY <1>4, <2>1, <3>1, Appended DEF Inv, BookOK
  <2>7. OpenIds' = OpenIds \cup {id}
    <3>1. \A n : n \in OpenIds' <=> In(opened', n)
      BY DEF OpenIds, In, BookOK
    <3> QED  BY <2>6, <3>1, ListedIds
  <2>8. \A n \in OpenIds : n \in 1 .. Len(trades)
    BY ListedIds DEF Inv, BookOK
  <2>9. \A n \in OpenIds : Held'[n] = Held[n]
    BY <2>2, <2>7, <2>8 DEF Held
  <2>10. Held'[id] = q * shares
    BY <2>2, <2>5, <2>7 DEF Held
  <2>11. DOMAIN Held = OpenIds /\ DOMAIN Held' = OpenIds'
    BY DEF Held
  <2>12. Held'[id] > 0 /\ cash' = cash - Held'[id] /\ cash' \in Int
    BY <1>4, <2>4, <2>10 DEF Positive
  <2>13. A!Buy
    BY <2>2, <2>7, <2>9, <2>11, <2>12 DEF A!Buy, Held
  <2>14. /\ DOMAIN trades = 1 .. Len(trades) /\ DOMAIN trades' = 1 .. id
         /\ e.rec.state # "Closed" /\ id \notin 1 .. Len(trades)
    <3>1. e.rec.state # "Closed"
      BY <1>2, NewFilled DEF Live
    <3> QED  BY <2>1, <2>2, <3>1, Amounts
  <2>15. ClosedIds' = ClosedIds
    BY <2>2, <2>14 DEF ClosedIds
  <2>16. /\ \A n \in OpenIds : Cost'[n] = Cost[n]
         /\ \A n \in ClosedIds : Result'[n] = Result[n]
    <3>1. \A n \in 1 .. Len(trades) : n \in 1 .. id /\ trades'[n] = trades[n]
      BY <2>1, <2>2
    <3>2. \A n \in 1 .. Len(trades) : Cost'[n] = Cost[n] /\ Result'[n] = Result[n]
      BY <2>14, <3>1 DEF Cost, Result, Profit
    <3> QED  BY <2>14, <3>2, Amounts
  <2>17. Cost'[id] = q * shares
    BY <2>1, <2>2, <2>5, <2>14 DEF Cost
  <2>18. SumFunctionOnSet(Cost', OpenIds') = SumFunctionOnSet(Cost, OpenIds) + q * shares
    <3>1. id \notin OpenIds /\ Cost'[id] \in Int
      BY <2>4, <2>14, <2>17, Amounts DEF Positive
    <3>2. IsFiniteSet(OpenIds) /\ \A n \in OpenIds : Cost[n] \in Int /\ Cost'[n] = Cost[n]
      BY <2>16, Amounts
    <3>3. SumFunctionOnSet(Cost', OpenIds \cup {id})
            = SumFunctionOnSet(Cost, OpenIds) + Cost'[id]
      BY <3>1, <3>2, SumAdded
    <3> QED  BY <2>7, <2>17, <3>3
  <2>19. SumFunctionOnSet(Result', ClosedIds') = SumFunctionOnSet(Result, ClosedIds)
    <3>1. IsFiniteSet(ClosedIds) /\ \A n \in ClosedIds : Result'[n] = Result[n]
      BY <2>16, Amounts
    <3>2. SumFunctionOnSet(Result', ClosedIds) = SumFunctionOnSet(Result, ClosedIds)
      BY <3>1, SumSame
    <3> QED  BY <2>15, <3>2
  <2>20. CashBalanced => CashBalanced'
    <3>1. cash' = cash - q * shares /\ q * shares \in Int
      BY <1>4, <2>4 DEF Positive
    <3> HIDE DEF q
    <3> QED  BY <2>18, <2>19, <3>1, Balances
  <2> QED  BY <2>12, <2>13, <2>20 DEF A!Next, AccountKept
<1> QED  BY <1>2, <1>3, <1>4 DEF SendOpen, Fail, book

LEMMA AccountSells ==
  ASSUME Sides \subseteq {TRUE}, Inv, cash \in Int,
         NEW id \in 1 .. Len(trades), SomethingInMarket(trades[id].rec),
         NEW reason \in CloseReasons, NEW rest, SendClose(id, reason, rest)
  PROVE  AccountKept
<1> DEFINE t == trades[id]
           q == IF t.rec.isLong THEN bid ELSE ask
<1>1. t \in TradeEntries /\ trades \in Seq(TradeEntries) /\ Len(trades) \in Nat
  BY ElementOfSeq DEF Inv, BookOK
<1>2. In(opened, id)
  BY DEF Inv, BookOK, Over, SomethingInMarket, Finished
<1>3. Live(t.rec)
  BY <1>2 DEF Inv, BookOK
<1>4. q \in Positive /\ q = bid /\ t.rec.isLong
  BY <1>1, <1>3 DEF Live, Inv, DataOK, PricesOK, Positive
<1>5. t.openQ \in Nat /\ t.rec.planned \in Positive /\ t.rec.inMarket = t.rec.planned
  BY <1>1, <1>3 DEF Live, TradeEntries, TradeRecords, Positive
<1>6. cash' = cash + ((q - t.openQ) * t.rec.planned + t.openQ * t.rec.planned)
  BY <1>4, <1>5 DEF SendClose, Proceeds, Profit
<1>7. cash' \in Int /\ cash' > cash
  <2>1. /\ q * t.rec.planned \in Positive
        /\ (q - t.openQ) * t.rec.planned + t.openQ * t.rec.planned = q * t.rec.planned
    BY <1>4, <1>5, Products
  <2> QED  BY <1>6, <2>1 DEF Positive
<1>8. /\ Len(trades') = Len(trades)
      /\ \A n \in 1 .. Len(trades) : n # id => trades'[n] = trades[n]
  BY <1>1 DEF SendClose
<1>9. \A n : In(opened', n) <=> In(opened, n) /\ n # id
  BY Erased DEF SendClose, WithoutTrade, Inv, BookOK
<1>10. OpenIds' = OpenIds \ {id}
  <2>1. opened' \in Seq(Nat)
    BY Erased DEF SendClose, WithoutTrade, Inv, BookOK
  <2>2. \A n : n \in OpenIds' <=> In(opened', n)
    BY <2>1 DEF OpenIds, In
  <2> QED  BY <1>9, <2>2, ListedIds
<1>11. \A n \in OpenIds : n \in 1 .. Len(trades)
  BY ListedIds DEF Inv, BookOK
<1>12. Held' = [other \in OpenIds \ {id} |-> Held[other]]
  BY <1>8, <1>10, <1>11 DEF Held
<1>13. DOMAIN Held = OpenIds /\ id \in OpenIds
  BY <1>2, ListedIds DEF Held
<1>14. A!Sell
  BY <1>7, <1>8, <1>12, <1>13 DEF A!Sell, Held
<1>15. /\ trades'[id].rec.state = "Closed" /\ trades'[id].rec.isLong
       /\ trades'[id].rec.planned = t.rec.planned
       /\ trades'[id].openQ = t.openQ /\ trades'[id].closeQ = q
  <2> DEFINE deal == [isLong |-> ~t.rec.isLong, vol |-> t.rec.inMarket]
             rec == AfterDealDone(AfterCloseRequest(t.rec, reason), deal)
             e == [t EXCEPT !.rec = rec, !.closeQ = q]
  <2>1. t.rec \in TradeRecords
    BY <1>1 DEF TradeEntries
  <2>2. /\ rec.state = "Closed" /\ rec.planned = t.rec.planned
        /\ rec.isLong
    BY <1>3, <2>1, CloseFilled
  <2>3. trades' = [trades EXCEPT ![id] = e]
    BY DEF SendClose
  <2> HIDE DEF rec, q
  <2>4. e.rec = rec /\ e.openQ = t.openQ /\ e.closeQ = q
    BY <1>1 DEF TradeEntries
  <2>5. trades'[id] = e
    <3>1. id \in DOMAIN trades
      BY <1>1
    <3> QED  BY <2>3, <3>1
  <2> QED  BY <2>2, <2>4, <2>5
<1>16. /\ DOMAIN trades = 1 .. Len(trades) /\ DOMAIN trades' = DOMAIN trades
       /\ id \notin ClosedIds
  BY <1>1, <1>3 DEF SendClose, ClosedIds, Live
<1>17. ClosedIds' = ClosedIds \cup {id}
  BY <1>8, <1>15, <1>16 DEF ClosedIds
<1>18. \A n \in DOMAIN trades : n # id => Cost'[n] = Cost[n] /\ Result'[n] = Result[n]
  BY <1>8, <1>16 DEF Cost, Result, Profit
<1>19. /\ Cost[id] = t.openQ * t.rec.planned
       /\ Result'[id] = (q - t.openQ) * t.rec.planned
  BY <1>5, <1>15, <1>16 DEF Cost, Result, Profit
<1>20. SumFunctionOnSet(Result', ClosedIds') = SumFunctionOnSet(Result, ClosedIds) + Result'[id]
  <2>1. /\ IsFiniteSet(ClosedIds)
        /\ \A n \in ClosedIds : Result[n] \in Int /\ Result'[n] = Result[n]
    BY <1>16, <1>18, Amounts
  <2>2. Result'[id] \in Int
    <3>1. (q - t.openQ) * t.rec.planned \in Int
      BY <1>4, <1>5, Products
    <3> QED  BY <1>19, <3>1, Zenon
  <2>3. SumFunctionOnSet(Result', ClosedIds \cup {id})
          = SumFunctionOnSet(Result, ClosedIds) + Result'[id]
    BY <1>16, <2>1, <2>2, SumAdded
  <2> QED  BY <1>17, <2>3
<1>21. /\ SumFunctionOnSet(Cost, OpenIds) = SumFunctionOnSet(Cost', OpenIds') + Cost[id]
       /\ SumFunctionOnSet(Cost', OpenIds') \in Int
  <2>1. /\ IsFiniteSet(OpenIds') /\ id \notin OpenIds' /\ OpenIds = OpenIds' \cup {id}
    BY <1>10, <1>13, Amounts, FS_Subset
  <2>2. \A n \in OpenIds' : Cost'[n] \in Int /\ Cost[n] = Cost'[n]
    BY <1>10, <1>18, Amounts
  <2>3. Cost[id] \in Int
    BY <1>13, Amounts
  <2>4. SumFunctionOnSet(Cost, OpenIds' \cup {id})
          = SumFunctionOnSet(Cost', OpenIds') + Cost[id]
    BY <2>1, <2>2, <2>3, SumAdded
  <2>5. SumFunctionOnSet(Cost', OpenIds') \in Int
    BY <2>1, <2>2, SumWithout
  <2> QED  BY <2>1, <2>4, <2>5
<1>22. CashBalanced => CashBalanced'
  <2>1. /\ cash' = cash + (Result'[id] + Cost[id])
        /\ Result'[id] \in Int /\ Cost[id] \in Int
    <3>1. /\ t.openQ * t.rec.planned \in Int
          /\ (q - t.openQ) * t.rec.planned \in Int
      BY <1>4, <1>5, Products
    <3> DEFINE cost == t.openQ * t.rec.planned
               result == (q - t.openQ) * t.rec.planned
    <3>2. /\ cash' = cash + (result + cost) /\ result \in Int /\ cost \in Int
      BY <1>6, <3>1, Zenon
    <3>3. Cost[id] = cost /\ Result'[id] = result
      BY <1>19, Zenon
    <3> HIDE DEF cost, result
    <3> QED  BY <3>2, <3>3
  <2> DEFINE gains == SumFunctionOnSet(Result, ClosedIds)
             costs == SumFunctionOnSet(Cost', OpenIds')
             gain  == Result'[id]
             cost  == Cost[id]
  <2>2. gains \in Int /\ costs \in Int /\ gain \in Int /\ cost \in Int
    BY <1>21, <2>1, Balances
  <2>3. /\ SumFunctionOnSet(Result', ClosedIds') = gains + gain
        /\ SumFunctionOnSet(Cost, OpenIds) = costs + cost
        /\ cash' = cash + (gain + cost)
    BY <1>20, <1>21, <2>1, Zenon
  <2>4. /\ CashBalanced => cash = gains - (costs + cost)
        /\ cash' = (gains + gain) - costs => CashBalanced'
    BY <2>3, Balances, Zenon
  <2> HIDE DEF t, q, gains, costs, gain, cost
  <2>5. (gains - (costs + cost)) + (gain + cost) = (gains + gain) - costs
    BY <2>2
  <2> QED  BY <2>3, <2>4, <2>5, Zenon
<1> QED  BY <1>7, <1>14, <1>22 DEF A!Next, AccountKept

\* Every step leaves the account alone, buys or sells.
LEMMA AccountStep ==
  ASSUME Sides \subseteq {TRUE}, Inv, Inv', cash \in Int, [Next]_vars
  PROVE  AccountKept
<1>1. CASE UNCHANGED book
  BY <1>1, AccountRests DEF book
<1>2. CASE AfterAbort
  <2>1. FALSE \in Sides
    BY <1>2, OnTop DEF AfterAbort, FrameOK
  <2> QED  BY <2>1
<1>3. CASE CheckTrade
  <2> DEFINE id == Head(Head(stack).todo)
  <2>1. /\ Head(stack) \in [at: {"trades"}, ev: Event, todo: Seq(Nat)]
        /\ FrameOK(Head(stack), Len(trades), opened)
    BY <1>3, OnTop DEF CheckTrade, Pending
  <2>2. Head(stack).todo \in Seq(Nat) /\ Head(stack).todo # <<>>
    BY <1>3, <2>1 DEF CheckTrade
  <2>3. id \in 1 .. Len(trades)
    <3>1. 1 \in 1 .. Len(Head(stack).todo) /\ id = Head(stack).todo[1]
      BY <2>2, EmptySeq
    <3> QED  BY <2>1, <3>1 DEF FrameOK
  <2>4. ASSUME NEW reason \in {"StopLoss", "TakeProfit"}, SomethingInMarket(trades[id].rec),
               SendClose(id, reason, Remaining)
        PROVE  AccountKept
    BY <2>3, <2>4, AccountSells DEF CloseReasons
  <2> QED  BY <1>1, <1>3, <2>4 DEF CheckTrade, Fail
<1>4. CASE ExecuteOrder
  <2> DEFINE od == orders.slots[Head(stack).i]
             f == [Head(stack) EXCEPT !.at = "executed"]
  <2>1. Head(stack).i \in 1 .. Len(orders.slots)
    BY <1>4 DEF ExecuteOrder, Inv, DataOK
  <2>2. quote # 0
    BY <2>1 DEF Inv, DataOK
  <2>3. od \in Orders
    <3>1. od \in Orders \cup {Clean}
      BY <2>1, ElementOfSeq DEF Inv, DataOK
    <3> QED  BY <1>4, <3>1 DEF ExecuteOrder, Triggered
  <2>4. CASE SendOpen(od.long, od.shares, od.sl, od.tp, od.id, <<f>> \o Rest)
    BY <2>2, <2>3, <2>4, OrderTypes, AccountBuys DEF Inv
  <2> QED  BY <1>1, <1>4, <2>4 DEF ExecuteOrder
<1>5. ASSUME NEW long \in Sides, NEW shares \in 1 .. MaxShares, NEW sl \in Levels,
             NEW tp \in TakeProfits, OpenNow(long, shares, sl, tp)
      PROVE  AccountKept
  <2>1. shares \in Positive /\ sl \in Int /\ tp \in Int
    BY PriceAssumption, SideAssumption DEF Positive, Levels
  <2>2. quote # 0 /\ SendOpen(long, shares, sl, tp, 0, stack)
    BY <1>5 DEF OpenNow
  <2> QED  BY <2>1, <2>2, AccountBuys DEF Inv
<1>6. ASSUME NEW id \in DOMAIN trades, CloseNow(id)
      PROVE  AccountKept
  <2>1. id \in 1 .. Len(trades)
    BY DEF Inv, BookOK
  <2> QED  BY <1>6, <2>1, AccountSells DEF CloseNow, CloseReasons
<1>7. ASSUME NEW id \in DOMAIN trades, NEW sl \in Levels, NEW tp \in TakeProfits,
             MoveStops(id, sl, tp)
      PROVE  AccountKept
  <2> DEFINE e == [trades[id] EXCEPT !.sl = sl, !.tp = tp]
  <2>1. id \in 1 .. Len(trades) /\ trades \in Seq(TradeEntries) /\ trades[id] \in TradeEntries
    BY ElementOfSeq DEF Inv, BookOK
  <2>2. /\ e.openQ = trades[id].openQ /\ e.closeQ = trades[id].closeQ
        /\ e.rec = trades[id].rec
    BY <2>1 DEF TradeEntries
  <2>3. trades' = [trades EXCEPT ![id] = e] /\ opened' = opened /\ cash' = cash
    BY <1>7 DEF MoveStops
  <2>4. /\ Len(trades') = Len(trades) /\ DOMAIN trades' = DOMAIN trades
        /\ \A n \in 1 .. Len(trades) : trades'[n] = IF n = id THEN e ELSE trades[n]
    BY <2>1, <2>3
  <2>5. \A n \in 1 .. Len(trades) : /\ trades'[n].openQ = trades[n].openQ
                                    /\ trades'[n].closeQ = trades[n].closeQ
                                    /\ trades'[n].rec = trades[n].rec
    BY <2>2, <2>4
  <2> QED  BY <2>3, <2>4, <2>5, AccountRests
<1>8. CASE \/ EnterTrades \/ LeaveTrades \/ EnterOrders \/ PassOrder \/ CleanOrder
           \/ LeaveOrders
  BY <1>1, <1>8 DEF EnterTrades, LeaveTrades, EnterOrders, PassOrder, CleanOrder,
                    LeaveOrders, Fail
<1>9. CASE TimedCallback \/ FinishBar \/ Return
  BY <1>1, <1>9 DEF TimedCallback, FinishBar, Return
<1>10. CASE DropOrders \/ \E od \in Orders : PlaceOrder(od)
  BY <1>1, <1>10 DEF DropOrders, PlaceOrder, Fail
<1>11. CASE Market
  BY <1>1, <1>11 DEF Market, OpenBar, CloseBar, NotifyDateTime
<1>12. CASE UNCHANGED vars
  BY <1>1, <1>12 DEF vars, book
<1> QED
  BY <1>2, <1>3, <1>4, <1>5, <1>6, <1>7, <1>8, <1>9, <1>10, <1>11, <1>12
  DEF Next, Step, Strategy, Terminated

\* A book whose trades are all long, with the strategy's money a number.
LongBook == Sides \subseteq {TRUE} /\ Inv /\ cash \in Int

LEMMA LongBookInit == Sides \subseteq {TRUE} /\ Init => LongBook /\ A!Init
<1> SUFFICES ASSUME Sides \subseteq {TRUE}, Init PROVE LongBook /\ A!Init
  OBVIOUS
<1>1. Inv
  BY InvInit
<1>2. trades = <<>> /\ opened = <<>> /\ cash = 0
  BY DEF Init
<1>3. OpenIds = {}
  BY <1>2, EmptySeq DEF OpenIds
<1>4. Held = <<>>
  <2>1. Held = [n \in {} |-> trades[n].openQ * trades[n].rec.inMarket]
    BY <1>3 DEF Held
  <2>2. [n \in {} |-> trades[n].openQ * trades[n].rec.inMarket] = <<>>
    OBVIOUS
  <2> QED  BY <2>1, <2>2
<1>5. Len(trades) = 0
  BY <1>2, EmptySeq
<1>6. cash \in Int
  BY <1>2
<1>7. LongBook
  BY <1>1, <1>6 DEF LongBook
<1> QED  BY <1>2, <1>4, <1>5, <1>7 DEF A!Init, Held

LEMMA LongBookNext == LongBook /\ [Next]_vars => LongBook' /\ [A!Next]_(A!vars)
<1> SUFFICES ASSUME LongBook, [Next]_vars
             PROVE  LongBook' /\ [A!Next]_(A!vars)
  OBVIOUS
<1>1. Inv'
  BY NextKeeps DEF LongBook
<1>2. AccountKept
  BY <1>1, AccountStep DEF LongBook
<1> QED  BY <1>1, <1>2 DEF LongBook, AccountKept

\* Whatever calls back in the middle, money leaves the portfolio only for a trade
\* that is then held, and comes back once, when that trade is sold.
THEOREM LongBookIsAnAccount ==
  Sides \subseteq {TRUE} => (Spec => ImplementsAccount)
  BY LongBookInit, LongBookNext, PTL DEF Spec, A!Spec, ImplementsAccount

\* The balance, while the trades are long.
LEMMA BalancedInit == Sides \subseteq {TRUE} /\ Init => CashBalanced
<1> SUFFICES ASSUME Sides \subseteq {TRUE}, Init PROVE CashBalanced
  OBVIOUS
<1>1. Inv /\ trades = <<>> /\ opened = <<>> /\ cash = 0
  BY InvInit DEF Init
<1>2. OpenIds = {} /\ ClosedIds = {}
  BY <1>1, EmptySeq DEF OpenIds, ClosedIds
<1>3. SumFunctionOnSet(Result, {}) = 0 /\ SumFunctionOnSet(Cost, {}) = 0
  BY FS_EmptySet, SumWithout
<1> QED  BY <1>1, <1>2, <1>3, Balances

LEMMA BalancedNext ==
  LongBook /\ CashBalanced /\ [Next]_vars => (LongBook /\ CashBalanced)'
<1> SUFFICES ASSUME LongBook, CashBalanced, [Next]_vars PROVE (LongBook /\ CashBalanced)'
  OBVIOUS
<1>1. AccountKept
  BY NextKeeps, AccountStep DEF LongBook
<1> QED  BY <1>1, LongBookNext DEF AccountKept

\* The money that has left the portfolio is in the open trades, and closed trades
\* have changed it by their results, whatever calls back in the middle.
THEOREM LongCashIsBalanced == Sides \subseteq {TRUE} => (Spec => []CashBalanced)
<1>1. Sides \subseteq {TRUE} /\ Init => LongBook /\ CashBalanced
  BY LongBookInit, BalancedInit
<1> QED  BY <1>1, BalancedNext, PTL DEF Spec

-----------------------------------------------------------------------------
(* What the strategy must not do in a callback, for each of the results.   *)

\* Stop orders are not removed while they are walked over.
NoDrops == "drop" \notin OpsInOrders

\* Levels are not moved while they are looked at.
NoMoves == "move" \notin OpsInTrades \cup OpsInOrders

\* Neither container is changed while it is walked over, and stop orders, which may
\* be filled at any price beyond their level, have no take profit to be beyond.
Disciplined ==
  /\ "close" \notin OpsInTrades
  /\ {"drop", "stop"} \cap OpsInOrders = {}
  /\ TakeProfits \subseteq {0} \/ MaxOrders = 0

-----------------------------------------------------------------------------
(* The pending calls.                                                      *)

Calls(s) == {s[k] : k \in 1 .. Len(s)}
Returns == {"callback", "aborted"}
IsWalk(f) == f.at \notin Returns
Walks(s) == {f \in Calls(s) : IsWalk(f)}

\* How far down the parts of a handler may stand: what is begun is on top of what
\* is to come, and one thing is done at a time.
Coming == {"enter", "scan", "finish"}
Depth(f) ==
  IF f.at = "enter" THEN 2 ELSE IF f.at = "scan" THEN 3 ELSE IF f.at = "finish" THEN 4 ELSE 1

Above(f, g) == IsWalk(g) /\ Depth(f) < Depth(g) /\ g.ev = f.ev

\* Below the calls of the strategy is one handler of one event.
Nested(s) == \A i, j \in 1 .. Len(s) : i < j /\ IsWalk(s[i]) => Above(s[i], s[j])

\* Nobody is called in the handler of a bar but from these.
Calling == {"enter", "trades", "executed"}
Standing(s) ==
  (\E f \in Walks(s) : f.at = "finish") => \E f \in Walks(s) : f.at \in Calling
CalledFrom(s) == (\E f \in Calls(s) : f.at \in Returns \cup {"timed"}) => Standing(s)

ShapeOK == Nested(stack) /\ CalledFrom(stack)

-----------------------------------------------------------------------------
(* The walk over the trades.                                               *)

\* A trade in the list has no reason to be closed yet, and the walk is at the
\* prices of its event.
UnaskedOK ==
  \A id \in 1 .. Len(trades) : In(opened, id) => trades[id].rec.reason = "UNDEFINED"
AtPricesOK == \A f \in Walks(stack) : f.at = "trades" => bid = f.ev.l
PricedOK == UnaskedOK /\ AtPricesOK

InTodo(id) == \E f \in Walks(stack) : f.at = "trades" /\ In(f.todo, id)

\* Until the walk begins nothing is known; from then on, each trade that the bar has
\* found and is still open has been left untouched, or is to come.
HonouredOK ==
  \A f \in Walks(stack) : f.at = "finish" =>
    /\ f.found \in 0 .. Len(trades)
    /\ (\A g \in Walks(stack) : g.at # "enter") =>
         \A id \in 1 .. Len(trades) :
           In(opened, id) /\ id <= f.found => Untouched(trades[id], f.ev) \/ InTodo(id)

\* What the walk has still to look at is open.
TodoOK ==
  \A f \in Walks(stack) : f.at = "trades" =>
    Increasing(f.todo) /\ \A k \in 1 .. Len(f.todo) : In(opened, f.todo[k])

-----------------------------------------------------------------------------
(* The store of orders.                                                    *)

Filled(order) == \E id \in 1 .. Len(trades) : trades[id].order = order

\* It is in a slot that is not being executed.
Waits(order) ==
  \E i \in Taken(orders) :
    /\ orders.slots[i].id = order
    /\ \A f \in Walks(stack) : f.at = "executed" => f.i # i

StoreOK ==
  /\ CountExact(orders)
  /\ \A i \in Taken(orders) : orders.slots[i].id \in 1 .. issued
  /\ \A i, j \in Taken(orders) : orders.slots[i].id = orders.slots[j].id => i = j

\* A slot that is being executed keeps its order until the call comes back.
ExecutedOK ==
  \A f \in Walks(stack) : f.at = "executed" =>
    /\ f.i \in Taken(orders)
    /\ Filled(orders.slots[f.i].id) \/ orders.slots[f.i].id \in refused

\* An order has one fate, and has it when it no longer waits.
FatesOK ==
  /\ issued \in Nat /\ dropped \subseteq 1 .. issued /\ refused \subseteq 1 .. issued
  /\ \A id \in 1 .. Len(trades) : trades[id].order \in 0 .. issued
  /\ \A m, n \in 1 .. Len(trades) :
       trades[m].order = trades[n].order /\ trades[m].order # 0 => m = n
  /\ \A order \in 1 .. issued :
       /\ ~(Filled(order) /\ order \in refused \cup dropped)
       /\ ~(order \in refused /\ order \in dropped)
       /\ (Filled(order) \/ order \in refused \cup dropped) <=> ~Waits(order)

OrdersOK == StoreOK /\ ExecutedOK /\ FatesOK

\* An order is placed with stops that fit its level.
PlacedOK ==
  \A i \in Taken(orders) : LET od == orders.slots[i] IN
    StopsFit(od.long, od.lvl, od.sl, od.tp)

WalksInv ==
  /\ ShapeOK /\ PricedOK
  /\ NoMoves => HonouredOK
  /\ NoDrops => OrdersOK
  /\ Disciplined => TodoOK /\ PlacedOK /\ NoFault
-----------------------------------------------------------------------------
(* Calls that are made and come back.                                      *)

LEMMA CallsOn ==
  ASSUME NEW s \in Seq(Pending), NEW f \in Pending
  PROVE  LET r == <<f>> \o s
         IN /\ r \in Seq(Pending) /\ r # <<>> /\ Head(r) = f /\ Tail(r) = s
            /\ Calls(r) = {f} \cup Calls(s)
            /\ Walks(r) = (IF IsWalk(f) THEN {f} ELSE {}) \cup Walks(s)
            /\ Nested(s) /\ (IsWalk(f) => \A g \in Calls(s) : Above(f, g)) => Nested(r)
<1> DEFINE r == <<f>> \o s
<1>1. <<f>> \in Seq(Pending) /\ Len(<<f>>) = 1 /\ <<f>>[1] = f
  OBVIOUS
<1>2. /\ r \in Seq(Pending) /\ Len(r) = 1 + Len(s) /\ Len(s) \in Nat
      /\ \A i \in 1 .. 1 + Len(s) : r[i] = IF i <= 1 THEN f ELSE s[i - 1]
  BY <1>1, ConcatProperties
<1> HIDE DEF r
<1>3. r # <<>> /\ r[1] = f /\ \A i \in 1 .. Len(s) : r[i + 1] = s[i]
  <2>1. r # <<>>
    BY <1>2, EmptySeq
  <2>2. r[1] = f
    BY <1>2
  <2>3. \A i \in 1 .. Len(s) : i + 1 \in 1 .. 1 + Len(s) /\ ~(i + 1 <= 1) /\ (i + 1) - 1 = i
    BY <1>2
  <2> QED  BY <1>2, <2>1, <2>2, <2>3
<1>4. Head(r) = f /\ Tail(r) = s
  <2>1. /\ Head(r) = r[1] /\ Tail(r) \in Seq(Pending) /\ Len(Tail(r)) = Len(r) - 1
        /\ \A i \in 1 .. Len(Tail(r)) : Tail(r)[i] = r[i + 1]
    BY <1>2, <1>3, HeadTailProperties
  <2>2. Len(Tail(r)) = Len(s) /\ \A i \in 1 .. Len(Tail(r)) : Tail(r)[i] = s[i]
    BY <1>2, <1>3, <2>1
  <2>3. Tail(r) = s
    BY <2>1, <2>2, SeqEqual
  <2> QED  BY <1>3, <2>1, <2>3
<1>5. \A i \in 1 .. Len(r) : i = 1 \/ (i - 1 \in 1 .. Len(s) /\ r[i] = s[i - 1])
  BY <1>2
<1>6. Calls(r) = {f} \cup Calls(s)
  <2>1. ASSUME NEW g \in Calls(r) PROVE g \in {f} \cup Calls(s)
    <3>1. PICK i \in 1 .. Len(r) : g = r[i]
      BY DEF Calls
    <3>2. CASE i = 1
      BY <1>3, <3>1, <3>2
    <3>3. CASE i - 1 \in 1 .. Len(s) /\ r[i] = s[i - 1]
      BY <3>1, <3>3 DEF Calls
    <3> QED  BY <1>5, <3>2, <3>3
  <2>2. f \in Calls(r)
    BY <1>2, <1>3 DEF Calls
  <2>3. \A i \in 1 .. Len(s) : i + 1 \in 1 .. Len(r)
    BY <1>2
  <2>4. \A g \in Calls(s) : g \in Calls(r)
    BY <1>3, <2>3 DEF Calls
  <2> QED  BY <2>1, <2>2, <2>4
<1>7. Walks(r) = (IF IsWalk(f) THEN {f} ELSE {}) \cup Walks(s)
  BY <1>6 DEF Walks
<1>8. ASSUME Nested(s), IsWalk(f) => \A g \in Calls(s) : Above(f, g)
      PROVE  Nested(r)
  <2> SUFFICES ASSUME NEW i \in 1 .. Len(r), NEW j \in 1 .. Len(r), i < j, IsWalk(r[i])
               PROVE  Above(r[i], r[j])
    BY DEF Nested
  <2>1. j - 1 \in 1 .. Len(s) /\ r[j] = s[j - 1]
    BY <1>2
  <2>2. CASE i = 1
    BY <1>3, <1>8, <2>1, <2>2 DEF Calls
  <2>3. CASE i # 1
    <3>1. i - 1 \in 1 .. Len(s) /\ r[i] = s[i - 1] /\ i - 1 < j - 1
      BY <1>2, <2>3
    <3> QED  BY <1>8, <2>1, <3>1 DEF Nested
  <2> QED  BY <2>2, <2>3
<1> QED  BY <1>2, <1>3, <1>4, <1>6, <1>7, <1>8 DEF r

LEMMA CallsBack ==
  ASSUME NEW s \in Seq(Pending), s # <<>>
  PROVE  /\ Head(s) \in Pending /\ Tail(s) \in Seq(Pending) /\ s = <<Head(s)>> \o Tail(s)
         /\ Calls(s) = {Head(s)} \cup Calls(Tail(s))
         /\ Walks(s) = (IF IsWalk(Head(s)) THEN {Head(s)} ELSE {}) \cup Walks(Tail(s))
         /\ Nested(s) => Nested(Tail(s))
         /\ Nested(s) /\ IsWalk(Head(s)) => \A g \in Calls(Tail(s)) : Above(Head(s), g)
<1>1. /\ Head(s) \in Pending /\ Tail(s) \in Seq(Pending) /\ Len(Tail(s)) = Len(s) - 1
      /\ Head(s) = s[1] /\ Len(s) \in Nat \ {0}
      /\ \A i \in 1 .. Len(Tail(s)) : Tail(s)[i] = s[i + 1]
  BY HeadTailProperties, EmptySeq
<1>2. s = <<Head(s)>> \o Tail(s)
  <2> DEFINE f == Head(s)
             t == Tail(s)
             r == <<f>> \o t
  <2>1. <<f>> \in Seq(Pending) /\ Len(<<f>>) = 1 /\ <<f>>[1] = f
    BY <1>1
  <2>2. f = s[1] /\ Len(t) = Len(s) - 1 /\ t \in Seq(Pending)
        /\ \A i \in 1 .. Len(t) : t[i] = s[i + 1]
    BY <1>1
  <2> HIDE DEF f, t
  <2>3. /\ r \in Seq(Pending) /\ Len(r) = 1 + Len(t)
        /\ \A i \in 1 .. 1 + Len(t) : r[i] = IF i <= 1 THEN f ELSE t[i - 1]
    BY <2>1, <2>2, ConcatProperties
  <2> HIDE DEF r
  <2>4. Len(r) = Len(s) /\ \A i \in 1 .. Len(r) : r[i] = s[i]
    <3>1. Len(r) = Len(s)
      BY <1>1, <2>2, <2>3
    <3>2. ASSUME NEW i \in 1 .. Len(r), i # 1 PROVE r[i] = s[i]
      <4>1. i - 1 \in 1 .. Len(t) /\ r[i] = t[i - 1] /\ (i - 1) + 1 = i
        BY <1>1, <2>2, <2>3, <3>2
      <4> QED  BY <2>2, <4>1
    <3> QED  BY <1>1, <2>2, <2>3, <3>1, <3>2
  <2>5. r = s
    BY <2>3, <2>4, SeqEqual
  <2> QED  BY <2>5 DEF r, f, t
<1>3. /\ Calls(s) = {Head(s)} \cup Calls(Tail(s))
      /\ Walks(s) = (IF IsWalk(Head(s)) THEN {Head(s)} ELSE {}) \cup Walks(Tail(s))
  BY <1>1, <1>2, CallsOn
<1>4. \A i \in 1 .. Len(Tail(s)) : i + 1 \in 1 .. Len(s) /\ 1 < i + 1 /\ 1 \in 1 .. Len(s)
  BY <1>1
<1>5. ASSUME Nested(s) PROVE Nested(Tail(s))
  <2> SUFFICES ASSUME NEW i \in 1 .. Len(Tail(s)), NEW j \in 1 .. Len(Tail(s)), i < j,
                      IsWalk(Tail(s)[i])
               PROVE  Above(Tail(s)[i], Tail(s)[j])
    BY DEF Nested
  <2>1. i + 1 < j + 1 /\ Tail(s)[i] = s[i + 1] /\ Tail(s)[j] = s[j + 1]
    BY <1>1
  <2> QED  BY <1>4, <1>5, <2>1 DEF Nested
<1>6. ASSUME Nested(s), IsWalk(Head(s)), NEW g \in Calls(Tail(s)) PROVE Above(Head(s), g)
  <2>1. PICK i \in 1 .. Len(Tail(s)) : g = Tail(s)[i]
    BY DEF Calls
  <2> QED  BY <1>1, <1>4, <1>6, <2>1 DEF Nested
<1> QED  BY <1>1, <1>2, <1>3, <1>5, <1>6

\* The answers of the strategy and the rest of an abort are no part of a walk.
LEMMA NoCalls ==
  Calls(<<>>) = {} /\ Walks(<<>>) = {} /\ Nested(<<>>)
  BY EmptySeq DEF Calls, Walks, Nested
LEMMA Tops ==
  ASSUME Inv, ShapeOK, NEW where, where # "idle", Top(where)
  PROVE  /\ stack \in Seq(Pending) /\ stack # <<>> /\ Head(stack).at = where
         /\ Head(stack) \in Pending /\ Rest \in Seq(Pending) /\ Nested(Rest)
         /\ Calls(stack) = {Head(stack)} \cup Calls(Rest)
         /\ Walks(stack) = (IF where \in Returns THEN {} ELSE {Head(stack)}) \cup Walks(Rest)
         /\ where \notin Returns =>
              /\ IsWalk(Head(stack)) /\ Ev \in Event
              /\ \A g \in Calls(Rest) : Above(Head(stack), g)
              /\ \A g \in Calls(Rest) : g.at \in Coming /\ g.ev = Ev
         /\ fault = "none"
<1>1. /\ stack # <<>> /\ Head(stack).at = where /\ stack \in Seq(Pending) /\ fault = "none"
  BY DEF Top, Where, Inv, StackOK
<1>2. IsWalk(Head(stack)) <=> where \notin Returns
  BY <1>1 DEF IsWalk
<1>3. /\ Head(stack) \in Pending /\ Rest \in Seq(Pending) /\ Nested(Rest)
      /\ Calls(stack) = {Head(stack)} \cup Calls(Rest)
      /\ Walks(stack) = (IF where \in Returns THEN {} ELSE {Head(stack)}) \cup Walks(Rest)
      /\ where \notin Returns => \A g \in Calls(Rest) : Above(Head(stack), g)
  BY <1>1, <1>2, CallsBack DEF ShapeOK, Rest
<1>4. ASSUME where \notin Returns, NEW g \in Calls(Rest)
      PROVE  g.at \in Coming /\ g.ev = Ev
  <2>1. Depth(Head(stack)) < Depth(g) /\ g.ev = Ev
    BY <1>3, <1>4 DEF Above, Ev
  <2> QED  BY <2>1 DEF Depth, Coming
<1>5. where \notin Returns => Ev \in Event
  BY OnTop DEF Returns
<1> QED  BY <1>1, <1>2, <1>3, <1>4, <1>5

\* A part of a handler is left, or goes over into another of the same depth; nobody
\* is being called.
LEMMA Left ==
  ASSUME Inv, ShapeOK, NEW where, where # "idle", Top(where), where \notin Returns,
         stack' = Rest
  PROVE  ShapeOK' /\ Walks(stack') = Walks(Rest)
  BY Tops DEF ShapeOK, CalledFrom, Coming, Returns

LEMMA GoneOver ==
  ASSUME Inv, ShapeOK, NEW where, where # "idle", Top(where), where \notin Returns,
         NEW f \in Pending, IsWalk(f), f.at # "timed", f.ev = Head(stack).ev,
         Depth(f) <= Depth(Head(stack))
  PROVE  LET s == <<f>> \o Rest
         IN /\ s \in Seq(Pending) /\ Nested(s) /\ Walks(s) = {f} \cup Walks(Rest)
            /\ CalledFrom(s)
            /\ f.at \in Calling => Standing(s)
<1>1. \A g \in Calls(Rest) : Above(f, g)
  BY Tops DEF Above, Depth
<1> DEFINE s == <<f>> \o Rest
<1>2. s \in Seq(Pending) /\ Nested(s) /\ Calls(s) = {f} \cup Calls(Rest)
      /\ Walks(s) = {f} \cup Walks(Rest)
  BY <1>1, Tops, CallsOn
<1> HIDE DEF s
<1>3. \A g \in Calls(s) : g.at \notin Returns \cup {"timed"}
  BY <1>2, Tops DEF IsWalk, Coming, Returns
<1>4. f.at \in Calling => Standing(s)
  BY <1>2 DEF Standing
<1> QED  BY <1>2, <1>3, <1>4 DEF CalledFrom, s

\* The strategy is called, and may be called from here.
LEMMA CalledOn ==
  ASSUME NEW s \in Seq(Pending), Nested(s), Standing(s), NEW id \in Nat,
         NEW f \in {Callback(id), [at |-> "aborted", id |-> id]}
  PROVE  LET r == <<f>> \o s
         IN r \in Seq(Pending) /\ Nested(r) /\ Standing(r) /\ Walks(r) = Walks(s)
<1>1. f \in Pending /\ ~IsWalk(f)
  BY DEF Pending, Callback, IsWalk, Returns
<1> DEFINE r == <<f>> \o s
<1>2. r \in Seq(Pending) /\ Nested(r) /\ Walks(r) = Walks(s)
  BY <1>1, CallsOn
<1> HIDE DEF r
<1> QED  BY <1>2 DEF Standing, r

LEMMA OpensShape ==
  ASSUME Inv, ShapeOK, NEW rest \in Seq(Pending), Nested(rest), Standing(rest),
         NEW long, NEW shares, NEW sl, NEW tp, NEW order,
         SendOpen(long, shares, sl, tp, order, rest)
  PROVE  /\ ShapeOK'
         /\ \/ Walks(stack') = Walks(rest)
            \/ stack' = stack /\ UNCHANGED <<book, market, orders, fates>>
<1> DEFINE id == Len(trades) + 1
           frame == [at |-> "aborted", id |-> id]
<1>0. id \in Nat
  BY DEF Inv, BookOK
<1>1. CASE stack' = stack /\ UNCHANGED <<book, market, orders, fates>>
  BY <1>1 DEF ShapeOK
<1>2. CASE stack' = rest
  BY <1>2 DEF ShapeOK, CalledFrom
<1>3. CASE stack' = <<Callback(id)>> \o rest
  BY <1>0, <1>3, CalledOn DEF ShapeOK, CalledFrom
<1>4. CASE stack' = <<Callback(id), frame>> \o rest
  <2>1. <<Callback(id), frame>> \o rest = <<Callback(id)>> \o (<<frame>> \o rest)
    <3>1. Callback(id) \in Pending /\ frame \in Pending
      BY <1>0 DEF Pending, Callback
    <3>2. <<Callback(id)>> \in Seq(Pending) /\ <<frame>> \in Seq(Pending)
      BY <3>1
    <3>3. (<<Callback(id)>> \o <<frame>>) \o rest = <<Callback(id)>> \o (<<frame>> \o rest)
      BY <3>2, ConcatAssociative
    <3>4. <<Callback(id)>> \o <<frame>> = <<Callback(id), frame>>
      BY TwoFrames
    <3> QED  BY <3>3, <3>4
  <2> DEFINE s == <<frame>> \o rest
  <2>2. s \in Seq(Pending) /\ Nested(s) /\ Standing(s) /\ Walks(s) = Walks(rest)
    BY <1>0, CalledOn
  <2> HIDE DEF s
  <2>3. stack' = <<Callback(id)>> \o s
    BY <1>4, <2>1 DEF s
  <2>4. Nested(stack') /\ Standing(stack') /\ Walks(stack') = Walks(s)
    BY <1>0, <2>2, <2>3, CalledOn
  <2> QED  BY <2>2, <2>4 DEF ShapeOK, CalledFrom
<1> QED  BY <1>1, <1>2, <1>3, <1>4 DEF SendOpen, Fail

LEMMA ClosesShape ==
  ASSUME NEW rest \in Seq(Pending), Nested(rest), Standing(rest),
         NEW id \in Nat, NEW reason, SendClose(id, reason, rest)
  PROVE  ShapeOK' /\ Walks(stack') = Walks(rest)
<1>1. stack' = <<Callback(id)>> \o rest
  BY DEF SendClose
<1> QED  BY <1>1, CalledOn DEF ShapeOK, CalledFrom
\* One part of a handler at a time is at work.
LEMMA OneAtWork ==
  ASSUME NEW s \in Seq(Pending), Nested(s), NEW f \in Walks(s), NEW g \in Walks(s),
         Depth(f) = Depth(g)
  PROVE  f = g
<1>1. PICK i \in 1 .. Len(s) : s[i] = f
  BY DEF Walks, Calls
<1>2. PICK j \in 1 .. Len(s) : s[j] = g
  BY DEF Walks, Calls
<1>3. IsWalk(f) /\ IsWalk(g)
  BY DEF Walks
<1>4. ~(Depth(f) < Depth(g)) /\ ~(Depth(g) < Depth(f))
  BY DEF Depth
<1>5. ~(i < j) /\ ~(j < i)
  BY <1>1, <1>2, <1>3, <1>4 DEF Nested, Above
<1>6. i = j
  BY <1>5
<1> QED  BY <1>1, <1>2, <1>6

-----------------------------------------------------------------------------
(* What each step makes of the pending calls.                              *)

LEMMA StrategyStands ==
  ASSUME Inv, ShapeOK, Where \in {"idle", "callback"}
  PROVE  stack \in Seq(Pending) /\ Nested(stack) /\ Standing(stack)
<1>1. stack \in Seq(Pending) /\ Nested(stack)
  BY DEF Inv, StackOK, ShapeOK
<1>2. CASE stack = <<>>
  BY <1>2, NoCalls DEF Standing
<1>3. CASE stack # <<>>
  <2>1. Head(stack) \in Calls(stack) /\ Head(stack).at \in {"idle", "callback"}
    BY <1>1, <1>3, CallsBack DEF Where
  <2>2. Head(stack).at # "idle"
    <3>1. Head(stack) \in Pending
      BY <1>1, <1>3, CallsBack
    <3> QED  BY <3>1 DEF Pending
  <2>3. Head(stack).at \in Returns
    BY <2>1, <2>2 DEF Returns
  <2> QED  BY <1>1, <2>1, <2>3 DEF ShapeOK, CalledFrom
<1> QED  BY <1>1, <1>2, <1>3

LEMMA ReturnShape ==
  ASSUME Inv, ShapeOK, AfterAbort \/ Return
  PROVE  ShapeOK' /\ Walks(stack') = Walks(stack)
<1>1. CASE AfterAbort
  <2>1. /\ Rest \in Seq(Pending) /\ Nested(Rest) /\ Walks(Rest) = Walks(stack)
        /\ Head(stack) \in Calls(stack) /\ Head(stack).at \in Returns
        /\ Head(stack) \in Pending
    BY <1>1, Tops DEF AfterAbort, Returns
  <2>2. Standing(Rest)
    BY <2>1 DEF ShapeOK, CalledFrom, Standing
  <2>3. Head(stack).id \in Nat
    BY <2>1 DEF Pending, Returns
  <2>4. stack' = <<Callback(Head(stack).id)>> \o Rest
    BY <1>1 DEF AfterAbort
  <2> QED  BY <2>1, <2>2, <2>3, <2>4, CalledOn DEF ShapeOK, CalledFrom
<1>2. CASE Return
  <2>1. /\ Rest \in Seq(Pending) /\ Nested(Rest) /\ Walks(Rest) = Walks(stack)
        /\ Head(stack) \in Calls(stack) /\ Head(stack).at \in Returns
    BY <1>2, Tops DEF Return, Returns
  <2>2. Standing(Rest) /\ stack' = Rest
    BY <1>2, <2>1 DEF ShapeOK, CalledFrom, Standing, Return
  <2> QED  BY <2>1, <2>2 DEF ShapeOK, CalledFrom
<1> QED  BY <1>1, <1>2

LEMMA TimedShape ==
  ASSUME Inv, ShapeOK, TimedCallback
  PROVE  /\ ShapeOK' /\ Walks(stack') = Walks(Rest)
         /\ \A g \in Walks(Rest) : g.at \in Coming
<1>1. /\ Rest \in Seq(Pending) /\ Nested(Rest) /\ Calls(stack) = {Head(stack)} \cup Calls(Rest)
      /\ Walks(stack) = {Head(stack)} \cup Walks(Rest) /\ Head(stack).at = "timed"
      /\ \A g \in Calls(Rest) : g.at \in Coming
  BY Tops DEF TimedCallback, Returns
<1>2. Standing(Rest)
  BY <1>1 DEF ShapeOK, CalledFrom, Standing, Calling
<1>3. stack' \in {Rest, <<Callback(0)>> \o Rest}
  BY DEF TimedCallback
<1>4. ShapeOK' /\ Walks(stack') = Walks(Rest)
  BY <1>1, <1>2, <1>3, CalledOn DEF ShapeOK, CalledFrom
<1> QED  BY <1>1, <1>4 DEF Walks

LEMMA PopShape ==
  ASSUME Inv, ShapeOK, LeaveTrades \/ LeaveOrders \/ FinishBar \/ (EnterOrders /\ stack' = Rest)
  PROVE  ShapeOK' /\ Walks(stack') = Walks(Rest)
  BY Left DEF LeaveTrades, LeaveOrders, FinishBar, EnterOrders, Returns

\* One frame goes over into another, and the handler goes on.
LEMMA SwapShape ==
  ASSUME Inv, ShapeOK, NEW where, where \notin Returns \cup {"idle", "timed"}, Top(where),
         NEW f \in Pending, IsWalk(f), f.at # "timed", f.ev = Ev,
         Depth(f) <= Depth(Head(stack)), stack' = <<f>> \o Rest
  PROVE  ShapeOK' /\ Walks(stack') = {f} \cup Walks(Rest)
<1>1. where # "idle" /\ where \notin Returns /\ f.ev = Head(stack).ev
  BY DEF Ev
<1> QED  BY <1>1, GoneOver DEF ShapeOK

LEMMA EnterTradesShape ==
  ASSUME Inv, ShapeOK, EnterTrades
  PROVE  LET f == [at |-> "trades", ev |-> Ev, todo |-> opened]
         IN ShapeOK' /\ Walks(stack') = {f} \cup Walks(Rest) /\ f \in Pending
<1> DEFINE f == [at |-> "trades", ev |-> Ev, todo |-> opened]
<1>1. Top("enter") /\ Ev \in Event /\ Head(stack).at = "enter" /\ stack' = <<f>> \o Rest
  BY Tops DEF EnterTrades, Returns
<1>2. f \in Pending /\ f.at = "trades" /\ f.ev = Ev
  BY <1>1 DEF Pending, Inv, BookOK
<1> HIDE DEF f
<1>3. IsWalk(f) /\ Depth(f) <= Depth(Head(stack)) /\ "enter" \notin Returns \cup {"idle", "timed"}
  BY <1>1, <1>2 DEF IsWalk, Returns, Depth
<1>4. ShapeOK' /\ Walks(stack') = {f} \cup Walks(Rest)
  BY <1>1, <1>2, <1>3, SwapShape
<1> QED  BY <1>2, <1>4 DEF f

\* The walk over the trades with its first trade looked at.
Looked == [Head(stack) EXCEPT !.todo = Tail(@)]

LEMMA LookedAt ==
  ASSUME Inv, ShapeOK, CheckTrade
  PROVE  /\ Looked \in Pending /\ Looked.at = "trades" /\ Looked.ev = Ev /\ Ev \in Event
         /\ Looked.todo = Tail(Head(stack).todo)
         /\ Head(stack).todo \in Seq(Nat) /\ Head(stack).todo # <<>>
         /\ Head(Head(stack).todo) \in 1 .. Len(trades)
         /\ Remaining \in Seq(Pending) /\ Nested(Remaining) /\ Standing(Remaining)
         /\ CalledFrom(Remaining)
         /\ Walks(Remaining) = {Looked} \cup Walks(Rest)
         /\ Walks(stack) = {Head(stack)} \cup Walks(Rest) /\ Head(stack).at = "trades"
<1>1. /\ Top("trades") /\ Head(stack) \in Pending /\ Head(stack).at = "trades"
      /\ Walks(stack) = {Head(stack)} \cup Walks(Rest) /\ Ev \in Event
      /\ Head(stack).todo # <<>>
      /\ FrameOK(Head(stack), Len(trades), opened)
  BY Tops, OnTop DEF CheckTrade, Returns
<1>2. Head(stack) \in [at: {"trades"}, ev: Event, todo: Seq(Nat)]
  BY <1>1 DEF Pending
<1>3. /\ Head(stack).todo \in Seq(Nat) /\ Tail(Head(stack).todo) \in Seq(Nat)
      /\ Head(Head(stack).todo) \in 1 .. Len(trades)
  <2>1. Head(stack).todo \in Seq(Nat)
    BY <1>2
  <2>2. Tail(Head(stack).todo) \in Seq(Nat) /\ Head(Head(stack).todo) = Head(stack).todo[1]
        /\ 1 \in 1 .. Len(Head(stack).todo)
    BY <1>1, <2>1, HeadTailProperties, EmptySeq
  <2> QED  BY <1>1, <2>1, <2>2 DEF FrameOK
<1>4. /\ Looked \in Pending /\ Looked.at = "trades" /\ Looked.ev = Ev
      /\ Looked.todo = Tail(Head(stack).todo)
  BY <1>2, <1>3 DEF Looked, Pending, Ev
<1>5. /\ IsWalk(Looked) /\ Depth(Looked) <= Depth(Head(stack)) /\ Looked.at \in Calling
      /\ "trades" # "idle" /\ "trades" \notin Returns /\ Looked.ev = Head(stack).ev
  BY <1>1, <1>4 DEF IsWalk, Returns, Depth, Calling, Ev
<1>6. /\ Remaining \in Seq(Pending) /\ Nested(Remaining) /\ Standing(Remaining)
      /\ CalledFrom(Remaining) /\ Walks(Remaining) = {Looked} \cup Walks(Rest)
  <2> DEFINE s == <<Looked>> \o Rest
  <2>1. /\ s \in Seq(Pending) /\ Nested(s) /\ Standing(s)
        /\ CalledFrom(s) /\ Walks(s) = {Looked} \cup Walks(Rest)
    BY <1>1, <1>4, <1>5, GoneOver
  <2>2. Remaining = s
    BY DEF Remaining, Looked
  <2> QED  BY <2>1, <2>2
<1> QED  BY <1>1, <1>3, <1>4, <1>6

LEMMA CheckTradeShape ==
  ASSUME Inv, ShapeOK, CheckTrade
  PROVE  /\ ShapeOK'
         /\ Walks(stack') = Walks(stack) \/ Walks(stack') = {Looked} \cup Walks(Rest)
<1> DEFINE id == Head(Head(stack).todo)
<1>1. CASE stack' = stack
  BY <1>1 DEF ShapeOK
<1>2. CASE stack' = Remaining
  BY <1>2, LookedAt DEF ShapeOK
<1>3. ASSUME NEW reason, SendClose(id, reason, Remaining)
      PROVE  ShapeOK' /\ Walks(stack') = {Looked} \cup Walks(Rest)
  BY <1>3, LookedAt, ClosesShape
<1> QED  BY <1>1, <1>2, <1>3 DEF CheckTrade, Fail

\* The walk over the orders when its order is being executed.
Sent == [Head(stack) EXCEPT !.at = "executed"]

LEMMA OrdersWalk ==
  ASSUME Inv, ShapeOK, NEW where \in {"orders", "executed"}, Top(where)
  PROVE  /\ Head(stack) \in [at: {where}, ev: Event, i: Nat] /\ Ev \in Event
         /\ Walks(stack) = {Head(stack)} \cup Walks(Rest)
         /\ NextSlot(Head(stack)) \in Pending /\ NextSlot(Head(stack)).at = "orders"
         /\ LET s == <<NextSlot(Head(stack))>> \o Rest
            IN /\ s \in Seq(Pending) /\ Nested(s) /\ CalledFrom(s)
               /\ Walks(s) = {NextSlot(Head(stack))} \cup Walks(Rest)
         /\ \A f \in Walks(Rest) : f.at \in Coming
<1>1. /\ Head(stack) \in Pending /\ Head(stack).at = where /\ Ev \in Event
      /\ Walks(stack) = {Head(stack)} \cup Walks(Rest)
      /\ \A f \in Calls(Rest) : f.at \in Coming
  BY Tops DEF Returns
<1>2. Head(stack) \in [at: {where}, ev: Event, i: Nat]
  BY <1>1 DEF Pending
<1> DEFINE f == NextSlot(Head(stack))
<1>3. f \in Pending /\ f.at = "orders" /\ f.ev = Head(stack).ev
  BY <1>2 DEF NextSlot, Pending
<1> HIDE DEF f
<1>4. /\ IsWalk(f) /\ Depth(f) <= Depth(Head(stack)) /\ f.at # "timed"
      /\ where # "idle" /\ where \notin Returns
  BY <1>1, <1>3 DEF IsWalk, Returns, Depth
<1> DEFINE s == <<f>> \o Rest
<1>5. s \in Seq(Pending) /\ Nested(s) /\ CalledFrom(s) /\ Walks(s) = {f} \cup Walks(Rest)
  BY <1>3, <1>4, GoneOver
<1> QED  BY <1>1, <1>2, <1>3, <1>5 DEF f, Walks

LEMMA SentOrder ==
  ASSUME Inv, ShapeOK, ExecuteOrder
  PROVE  /\ Sent \in Pending /\ Sent.at = "executed" /\ Sent.ev = Ev
         /\ Sent.i = Head(stack).i
         /\ LET s == <<Sent>> \o Rest
            IN /\ s \in Seq(Pending) /\ Nested(s) /\ Standing(s)
               /\ Walks(s) = {Sent} \cup Walks(Rest)
<1>1. Top("orders") /\ Head(stack) \in [at: {"orders"}, ev: Event, i: Nat]
  BY OrdersWalk DEF ExecuteOrder
<1>2. /\ Sent \in Pending /\ Sent.at = "executed" /\ Sent.ev = Head(stack).ev
      /\ Sent.i = Head(stack).i
  BY <1>1 DEF Sent, Pending
<1>3. /\ IsWalk(Sent) /\ Depth(Sent) <= Depth(Head(stack)) /\ Sent.at # "timed"
      /\ "orders" # "idle" /\ "orders" \notin Returns /\ Sent.at \in Calling
  BY <1>1, <1>2 DEF IsWalk, Returns, Depth, Calling
<1> DEFINE s == <<Sent>> \o Rest
<1>4. s \in Seq(Pending) /\ Nested(s) /\ Standing(s) /\ Walks(s) = {Sent} \cup Walks(Rest)
  BY <1>1, <1>2, <1>3, GoneOver
<1> QED  BY <1>2, <1>4 DEF Ev

LEMMA OrdersShape ==
  ASSUME Inv, ShapeOK, EnterOrders \/ PassOrder \/ ExecuteOrder \/ CleanOrder \/ LeaveOrders
  PROVE  /\ ShapeOK'
         /\ \/ Walks(stack') \in {Walks(stack), Walks(Rest)}
            \/ \E f \in Pending : /\ f.at = "orders" \/ (f.at = "executed" /\ ExecuteOrder)
                                  /\ Walks(stack') = {f} \cup Walks(Rest)
<1>1. CASE EnterOrders
  <2> DEFINE f == [at |-> "orders", ev |-> Ev, i |-> 1]
  <2>1. CASE stack' = Rest
    BY <1>1, <2>1, PopShape
  <2>2. CASE stack' = <<f>> \o Rest
    <3>1. Top("scan") /\ Ev \in Event /\ Head(stack).at = "scan"
      BY <1>1, Tops DEF EnterOrders, Returns
    <3>2. f \in Pending /\ f.at = "orders" /\ f.ev = Ev
      BY <3>1 DEF Pending
    <3> HIDE DEF f
    <3>3. IsWalk(f) /\ Depth(f) <= Depth(Head(stack))
          /\ "scan" \notin Returns \cup {"idle", "timed"}
      BY <3>1, <3>2 DEF IsWalk, Returns, Depth
    <3>4. ShapeOK' /\ Walks(stack') = {f} \cup Walks(Rest)
      BY <2>2, <3>1, <3>2, <3>3, SwapShape
    <3> QED  BY <3>2, <3>4
  <2> QED  BY <1>1, <2>1, <2>2 DEF EnterOrders
<1>2. CASE PassOrder
  <2>1. CASE stack' = stack
    BY <2>1 DEF ShapeOK
  <2>2. CASE stack' = <<NextSlot(Head(stack))>> \o Rest
    BY <1>2, <2>2, OrdersWalk DEF ShapeOK, PassOrder
  <2> QED  BY <1>2, <2>1, <2>2 DEF PassOrder, Fail
<1>3. CASE ExecuteOrder
  <2>1. CASE stack' = stack
    BY <2>1 DEF ShapeOK
  <2>2. ASSUME NEW long, NEW shares, NEW sl, NEW tp, NEW order,
               SendOpen(long, shares, sl, tp, order, <<Sent>> \o Rest)
        PROVE  /\ ShapeOK'
               /\ Walks(stack') \in {Walks(stack), {Sent} \cup Walks(Rest)}
    BY <1>3, <2>2, SentOrder, OpensShape
  <2>3. Sent \in Pending /\ Sent.at = "executed"
    BY <1>3, SentOrder
  <2> QED  BY <1>3, <2>1, <2>2, <2>3 DEF ExecuteOrder, Sent
<1>4. CASE CleanOrder
  <2>1. CASE stack' = stack
    BY <2>1 DEF ShapeOK
  <2>2. CASE stack' = <<NextSlot(Head(stack))>> \o Rest
    BY <1>4, <2>2, OrdersWalk DEF ShapeOK, CleanOrder
  <2> QED  BY <1>4, <2>1, <2>2 DEF CleanOrder, Fail
<1>5. CASE LeaveOrders
  BY <1>5, PopShape
<1> QED  BY <1>1, <1>2, <1>3, <1>4, <1>5

LEMMA HandlerShape ==
  ASSUME Inv, NEW ev \in Event, NEW before, Handle(ev, before),
         before = <<>> \/ before = <<[at |-> "timed", ev |-> ev]>>
  PROVE  /\ ShapeOK'
         /\ \A f \in Walks(stack') :
              f.at \in {"timed"} \cup Coming /\ (f.at = "finish" => f.found = Len(trades))
         /\ opened # <<>> => \E f \in Walks(stack') : f.at = "enter"
<1> DEFINE finish == [at |-> "finish", ev |-> ev, found |-> Len(trades)]
           scan == [at |-> "scan", ev |-> ev]
           enter == [at |-> "enter", ev |-> ev]
           timed == [at |-> "timed", ev |-> ev]
           s == <<scan, finish>>
           t == <<enter>> \o s
           u == <<timed>> \o t
<1>0. /\ finish \in Pending /\ finish.at = "finish" /\ finish.ev = ev
      /\ finish.found = Len(trades)
      /\ scan \in Pending /\ scan.at = "scan" /\ scan.ev = ev
      /\ enter \in Pending /\ enter.at = "enter" /\ enter.ev = ev
      /\ timed \in Pending /\ timed.at = "timed" /\ timed.ev = ev
  BY DEF Pending, Inv, BookOK
<1>00. /\ (opened = <<>> => stack' = <<>> \o s)
       /\ (opened # <<>> => stack' = (before \o <<enter>>) \o s)
       /\ before = <<>> \/ before = <<timed>>
  BY DEF Handle
<1> HIDE DEF finish, scan, enter, timed
<1>1. s \in Seq(Pending) /\ Len(s) = 2 /\ s[1] = scan /\ s[2] = finish
  BY <1>0
<1> HIDE DEF s
<1>2. /\ IsWalk(finish) /\ IsWalk(scan) /\ IsWalk(enter) /\ IsWalk(timed)
      /\ Depth(finish) = 4 /\ Depth(scan) = 3 /\ Depth(enter) = 2 /\ Depth(timed) = 1
  BY <1>0 DEF IsWalk, Returns, Depth
<1>3. Calls(s) = {scan, finish} /\ Walks(s) = {scan, finish} /\ Nested(s)
  <2>1. Calls(s) = {scan, finish}
    BY <1>1 DEF Calls
  <2>2. Nested(s)
    BY <1>0, <1>1, <1>2 DEF Nested, Above
  <2> QED  BY <1>2, <2>1, <2>2 DEF Walks
<1>4. /\ t \in Seq(Pending) /\ Calls(t) = {enter, scan, finish}
      /\ Walks(t) = {enter, scan, finish} /\ Nested(t)
  <2>1. \A g \in Calls(s) : Above(enter, g)
    BY <1>0, <1>2, <1>3 DEF Above
  <2> QED  BY <1>0, <1>1, <1>2, <1>3, <2>1, CallsOn
<1> HIDE DEF t
<1>5. /\ u \in Seq(Pending) /\ Calls(u) = {timed, enter, scan, finish}
      /\ Walks(u) = {timed, enter, scan, finish} /\ Nested(u)
  <2>1. \A g \in Calls(t) : Above(timed, g)
    BY <1>0, <1>2, <1>4 DEF Above
  <2> QED  BY <1>0, <1>2, <1>4, <2>1, CallsOn
<1> HIDE DEF u
<1>6. opened = <<>> => stack' = s
  BY <1>00, <1>1, ConcatEmptySeq
<1>7. opened # <<>> => stack' = t \/ stack' = u
  <2>0. <<timed>> \in Seq(Pending) /\ <<enter>> \in Seq(Pending)
    BY <1>0
  <2>1. <<>> \o <<enter>> = <<enter>>
    BY <2>0, ConcatEmptySeq
  <2>2. (<<timed>> \o <<enter>>) \o s = u
    BY <1>1, <2>0, ConcatAssociative DEF t, u
  <2> QED  BY <1>00, <2>1, <2>2 DEF t
<1>8. CASE opened = <<>>
  <2>1. stack' = s
    BY <1>6, <1>8
  <2>2. CalledFrom(s)
    BY <1>0, <1>3 DEF CalledFrom, Returns
  <2> QED  BY <1>0, <1>3, <1>8, <2>1, <2>2 DEF ShapeOK, Coming
<1>9. CASE opened # <<>>
  <2>1. Standing(t) /\ Standing(u)
    BY <1>0, <1>4, <1>5 DEF Standing, Calling
  <2> QED  BY <1>0, <1>4, <1>5, <1>7, <1>9, <2>1 DEF ShapeOK, CalledFrom, Coming
<1> QED  BY <1>8, <1>9

LEMMA MarketShape ==
  ASSUME Inv, ShapeOK, Market
  PROVE  /\ ShapeOK'
         /\ \A f \in Walks(stack') :
              f.at \in {"timed"} \cup Coming /\ (f.at = "finish" => f.found = Len(trades))
         /\ opened # <<>> => (\E f \in Walks(stack') : f.at = "enter")
                             \/ \A f \in Walks(stack') : f.at # "finish"
<1>1. ASSUME NEW q \in Prices, NEW time \in Times, OpenBar(q, time)
      PROVE  \E ev \in Event : Handle(ev, <<[at |-> "timed", ev |-> ev]>>)
  <2> DEFINE ev == BarOpenEvent(q, time)
  <2>1. ev \in Event
    BY PriceAssumption DEF BarOpenEvent, Event, Prices, Positive
  <2> QED  BY <1>1, <2>1 DEF OpenBar
<1>2. ASSUME NEW ev \in BarCloseEvents, CloseBar(ev)
      PROVE  ev \in Event /\ Handle(ev, <<>>)
  BY <1>2, PriceAssumption
  DEF BarCloseEvents, CloseBar, Event, Prices, Positive, Inv, DataOK, PricesOK
<1>3. ASSUME NEW time \in Times, NotifyDateTime(time)
      PROVE  ShapeOK' /\ \A f \in Walks(stack') : f.at = "timed"
  <2> DEFINE ev == BarOpenEvent(quote, time)
             f == [at |-> "timed", ev |-> ev]
  <2>0. Len(trades) > 0
    BY <1>3, AnyOpened DEF NotifyDateTime
  <2>1. ev \in Event
    BY <1>3, <2>0 DEF NotifyDateTime, BarOpenEvent, Event, Positive, Inv, DataOK, PricesOK
  <2>2. stack' = <<f>>
    BY <1>3 DEF NotifyDateTime
  <2>3. f \in Pending /\ f.at = "timed"
    BY <2>1 DEF Pending
  <2> HIDE DEF f
  <2>4. stack' \in Seq(Pending) /\ Len(stack') = 1 /\ stack'[1] = f
    BY <2>2, <2>3
  <2>5. Calls(stack') = {f}
    BY <2>4 DEF Calls
  <2>6. Nested(stack')
    BY <2>4 DEF Nested
  <2>7. \A g \in Walks(stack') : g.at = "timed"
    BY <2>3, <2>5 DEF Walks
  <2>8. Standing(stack')
    BY <2>7 DEF Standing
  <2> QED  BY <2>6, <2>7, <2>8 DEF ShapeOK, CalledFrom
<1>4. CASE \E ev \in Event : Handle(ev, <<[at |-> "timed", ev |-> ev]>>) \/ Handle(ev, <<>>)
  BY <1>4, HandlerShape
<1> QED  BY <1>1, <1>2, <1>3, <1>4 DEF Market, Coming

LEMMA StrategyShape ==
  ASSUME Inv, ShapeOK, Strategy
  PROVE  ShapeOK' /\ Walks(stack') = Walks(stack)
<1>1. CASE stack' = stack
  BY <1>1 DEF ShapeOK
<1>2. ASSUME NEW long, NEW shares, NEW sl, NEW tp, OpenNow(long, shares, sl, tp)
      PROVE  ShapeOK' /\ Walks(stack') = Walks(stack)
  BY <1>2, StrategyStands, OpensShape DEF OpenNow, MayDo
<1>3. ASSUME NEW id \in DOMAIN trades, CloseNow(id)
      PROVE  ShapeOK' /\ Walks(stack') = Walks(stack)
  <2>1. id \in Nat
    BY DEF Inv, BookOK
  <2> QED  BY <1>3, <2>1, StrategyStands, ClosesShape DEF CloseNow, MayDo
<1> QED  BY <1>1, <1>2, <1>3 DEF Strategy, MoveStops, PlaceOrder, DropOrders, Fail

LEMMA ShapeKept == Inv /\ ShapeOK /\ [Next]_vars => ShapeOK'
<1> SUFFICES ASSUME Inv, ShapeOK, [Next]_vars PROVE ShapeOK'
  OBVIOUS
<1>1. CASE UNCHANGED vars
  BY <1>1 DEF vars, ShapeOK
<1>2. CASE Step
  BY <1>2, ReturnShape, TimedShape, EnterTradesShape, CheckTradeShape, PopShape, OrdersShape
  DEF Step
<1> QED  BY <1>1, <1>2, StrategyShape, MarketShape DEF Next, Terminated

-----------------------------------------------------------------------------
(* Trades bought and sold.                                                 *)

\* A new trade is added, which the list has if it has not failed.
Buys(long, order) ==
  /\ Len(trades') = Len(trades) + 1 /\ Len(trades) \in Nat
  /\ \A id \in 1 .. Len(trades) : trades'[id] = trades[id]
  /\ trades'[Len(trades) + 1].order = order
  /\ trades'[Len(trades) + 1].openQ = IF long THEN ask ELSE bid
  /\ \/ opened' = opened
     \/ /\ \A n : In(opened', n) <=> In(opened, n) \/ n = Len(trades) + 1
        /\ trades'[Len(trades) + 1].rec.reason = "UNDEFINED"

\* A trade of the list is closed, or one that has failed and is not in it.
Sells(id, reason) ==
  /\ Len(trades') = Len(trades)
  /\ \A n \in 1 .. Len(trades) : n # id => trades'[n] = trades[n]
  /\ \A n : In(opened', n) <=> In(opened, n) /\ n # id
  /\ trades'[id].order = trades[id].order /\ trades'[id].sl = trades[id].sl
  /\ In(opened, id) =>
       /\ trades'[id].closeQ = bid /\ trades'[id].rec.isLong
       /\ trades'[id].rec.reason = reason

\* A trade that has failed is let go, or the levels of a trade are moved.
Alters(id) ==
  /\ Len(trades') = Len(trades) /\ opened' = opened
  /\ \A n \in 1 .. Len(trades) : n # id => trades'[n] = trades[n]
  /\ trades'[id].order = trades[id].order
  /\ In(opened, id) => trades'[id].rec = trades[id].rec

LEMMA NewReason ==
  ASSUME NEW long \in Sides, NEW shares \in Positive
  PROVE  LET new == NewTrade(long, shares)
             deal == [isLong |-> long, vol |-> shares]
         IN DealVerdict(new, deal) = "NoFailure" =>
              AfterDealDone(new, deal).reason = "UNDEFINED"
<1> DEFINE new == NewTrade(long, shares)
           deal == [isLong |-> long, vol |-> shares]
<1>1. new \in TradeRecords /\ new.reason = "UNDEFINED" /\ Expecting(new)
  <2>1. long \in BOOLEAN /\ shares \in Nat
    BY SideAssumption DEF Positive
  <2> QED  BY <2>1 DEF NewTrade, TradeRecords, TradeStates, FailureCodes, Expecting,
                       DuringOpening, Finished, IsFailed
<1> HIDE DEF new, deal
<1>2. BookDeal(new, deal).reason = "UNDEFINED"
  BY <1>1 DEF BookDeal, TradeRecords
<1> QED  BY <1>1, <1>2 DEF AfterDealDone, Booked, new, deal

\* A trade that is sold has been closed for the reason its executor was given.
LEMMA ReasonGiven ==
  ASSUME NEW rec \in TradeRecords, Live(rec), NEW reason \in CloseReasons
  PROVE  LET asked == AfterCloseRequest(rec, reason)
             deal == [isLong |-> ~rec.isLong, vol |-> rec.inMarket]
         IN AfterDealDone(asked, deal).reason = reason /\ AfterDealDone(asked, deal).isLong
<1> DEFINE asked == AfterCloseRequest(rec, reason)
           deal == [isLong |-> ~rec.isLong, vol |-> rec.inMarket]
<1>1. /\ asked \in TradeRecords /\ asked.reason = reason /\ asked.isLong
      /\ asked.state = "PendingClose" /\ asked.attached /\ asked.failure = "NoFailure"
      /\ asked.inMarket = rec.inMarket /\ rec.inMarket \in Nat /\ rec.isLong
  BY DEF AfterCloseRequest, TradeRecords, TradeStates, Live
<1>2. ~deal.isLong /\ deal.vol = rec.inMarket
  BY <1>1
<1> HIDE DEF asked, deal
<1>3. Expecting(asked) /\ ~DuringOpening(asked) /\ DuringClosing(asked)
  BY <1>1 DEF Expecting, DuringOpening, DuringClosing, Finished, IsFailed
<1>4. ~WrongDirection(asked, deal)
  BY <1>1, <1>2, <1>3 DEF WrongDirection
<1>5. VolumeAfter(asked, deal) = 0
  BY <1>1, <1>2 DEF VolumeAfter
<1>6. DealVerdict(asked, deal) = "NoFailure"
  BY <1>3, <1>4, <1>5 DEF DealVerdict, VolumeVerdict
<1>7. BookDeal(asked, deal).reason = reason /\ BookDeal(asked, deal).isLong
  BY <1>1 DEF BookDeal, TradeRecords
<1> QED  BY <1>3, <1>6, <1>7 DEF AfterDealDone, Booked, asked, deal

LEMMA Bought ==
  ASSUME Inv, NEW long \in Sides, NEW shares \in Positive, NEW sl, NEW tp, NEW order,
         NEW rest, SendOpen(long, shares, sl, tp, order, rest)
  PROVE  /\ UNCHANGED <<market, orders>>
         /\ UNCHANGED <<trades, opened>> \/ Buys(long, order)
<1> DEFINE new == NewTrade(long, shares)
           deal == [isLong |-> long, vol |-> shares]
           q == IF long THEN ask ELSE bid
           E(rec) == [rec |-> rec, sl |-> sl, tp |-> tp, openQ |-> q,
                      closeQ |-> 0, order |-> order]
<1>1. trades \in Seq(TradeEntries) /\ Len(trades) \in Nat
  BY DEF Inv, BookOK
<1>0. ASSUME opened' = Append(opened, Len(trades) + 1)
      PROVE  \A n : In(opened', n) <=> In(opened, n) \/ n = Len(trades) + 1
  <2>1. \A n : In(opened, n) => n < Len(trades) + 1
    BY <1>1 DEF Inv, BookOK
  <2> QED  BY <1>0, <1>1, <2>1, Appended DEF Inv, BookOK
<1>2. ASSUME NEW e, trades' = Append(trades, e)
      PROVE  /\ Len(trades') = Len(trades) + 1 /\ trades'[Len(trades) + 1] = e
             /\ \A id \in 1 .. Len(trades) : trades'[id] = trades[id]
  BY <1>1, <1>2
<1>3. CASE /\ DealVerdict(new, deal) = "NoFailure"
           /\ trades' = Append(trades, E(AfterDealDone(new, deal)))
           /\ opened' = Append(opened, Len(trades) + 1)
           /\ UNCHANGED <<market, orders>>
  <2>1. AfterDealDone(new, deal).reason = "UNDEFINED"
    BY <1>3, NewReason
  <2> QED  BY <1>0, <1>1, <1>2, <1>3, <2>1 DEF Buys
<1>4. CASE /\ trades' = Append(trades, E(MarkFailed(Booked(new, deal), DealVerdict(new, deal))))
           /\ UNCHANGED <<opened, market, orders>>
  BY <1>1, <1>2, <1>4 DEF Buys
<1> QED  BY <1>3, <1>4 DEF SendOpen, Fail, book

LEMMA Sold ==
  ASSUME Inv, NEW id \in 1 .. Len(trades), NEW reason \in CloseReasons, NEW rest,
         SendClose(id, reason, rest)
  PROVE  UNCHANGED <<market, orders, fault, fates>> /\ Sells(id, reason)
<1> DEFINE t == trades[id]
           q == IF t.rec.isLong THEN bid ELSE ask
           deal == [isLong |-> ~t.rec.isLong, vol |-> t.rec.inMarket]
           rec == AfterDealDone(AfterCloseRequest(t.rec, reason), deal)
           e == [t EXCEPT !.rec = rec, !.closeQ = q]
<1>1. t \in TradeEntries /\ trades \in Seq(TradeEntries)
  BY ElementOfSeq DEF Inv, BookOK
<1>2. /\ trades' = [trades EXCEPT ![id] = e] /\ opened' = WithoutTrade(id)
      /\ UNCHANGED <<market, orders, fault, fates>>
  BY DEF SendClose
<1>3. e.rec = rec /\ e.closeQ = q /\ e.order = t.order /\ e.sl = t.sl
  BY <1>1 DEF TradeEntries
<1>4. In(opened, id) => t.rec \in TradeRecords /\ Live(t.rec)
  BY <1>1 DEF Inv, BookOK, TradeEntries
<1>5. In(opened, id) => q = bid /\ rec.isLong /\ rec.reason = reason
  BY <1>4, ReasonGiven DEF Live
<1>6. \A n : In(opened', n) <=> In(opened, n) /\ n # id
  BY <1>2, Erased DEF WithoutTrade, Inv, BookOK
<1> HIDE DEF e
<1>7. /\ Len(trades') = Len(trades) /\ trades'[id] = e
      /\ \A n \in 1 .. Len(trades) : n # id => trades'[n] = trades[n]
  BY <1>1, <1>2
<1> QED  BY <1>2, <1>3, <1>5, <1>6, <1>7 DEF Sells

LEMMA AbortAlters ==
  ASSUME Inv, AfterAbort
  PROVE  LET id == Head(stack).id
         IN id \in 1 .. Len(trades) /\ ~In(opened, id) /\ Alters(id)
<1> DEFINE id == Head(stack).id
           e == [trades[id] EXCEPT !.rec = Detach(@)]
<1>1. id \in 1 .. Len(trades) /\ ~In(opened, id)
  BY OnTop DEF AfterAbort, FrameOK
<1>2. trades \in Seq(TradeEntries) /\ trades[id] \in TradeEntries
  BY <1>1, ElementOfSeq DEF Inv, BookOK
<1>3. e.order = trades[id].order
  BY <1>2 DEF TradeEntries
<1>4. trades' = [trades EXCEPT ![id] = e] /\ opened' = opened
  BY DEF AfterAbort
<1> HIDE DEF e
<1>5. Len(trades') = Len(trades) /\ trades'[id] = e
      /\ \A n \in 1 .. Len(trades) : n # id => trades'[n] = trades[n]
  BY <1>1, <1>2, <1>4
<1> QED  BY <1>1, <1>3, <1>4, <1>5 DEF Alters

LEMMA MoveAlters ==
  ASSUME Inv, NEW id \in DOMAIN trades, NEW sl, NEW tp, MoveStops(id, sl, tp)
  PROVE  Alters(id)
<1> DEFINE e == [trades[id] EXCEPT !.sl = sl, !.tp = tp]
<1>1. id \in 1 .. Len(trades) /\ trades \in Seq(TradeEntries) /\ trades[id] \in TradeEntries
  BY ElementOfSeq DEF Inv, BookOK
<1>2. e.order = trades[id].order /\ e.rec = trades[id].rec
  BY <1>1 DEF TradeEntries
<1>3. trades' = [trades EXCEPT ![id] = e] /\ opened' = opened
  BY DEF MoveStops
<1> HIDE DEF e
<1>4. Len(trades') = Len(trades) /\ trades'[id] = e
      /\ \A n \in 1 .. Len(trades) : n # id => trades'[n] = trades[n]
  BY <1>1, <1>3
<1> QED  BY <1>2, <1>3, <1>4 DEF Alters

\* The walk over the trades closes the trade it looks at, or no trade.
LEMMA CheckSells ==
  ASSUME Inv, ShapeOK, CheckTrade
  PROVE  LET id == Head(Head(stack).todo)
             reason == IF SlHit(trades[id], Ev) THEN "StopLoss" ELSE "TakeProfit"
         IN \/ UNCHANGED <<trades, opened, market, orders, fates>>
            \/ /\ UNCHANGED <<market, orders, fault, fates>> /\ stack' = <<Callback(id)>> \o Remaining
               /\ id \in 1 .. Len(trades) /\ Sells(id, reason)
<1> DEFINE id == Head(Head(stack).todo)
           reason == IF SlHit(trades[id], Ev) THEN "StopLoss" ELSE "TakeProfit"
<1>1. id \in 1 .. Len(trades) /\ reason \in CloseReasons
  BY LookedAt DEF CloseReasons
<1>2. CASE SendClose(id, reason, Remaining)
  <2>1. stack' = <<Callback(id)>> \o Remaining
    BY <1>2 DEF SendClose
  <2> HIDE DEF reason
  <2>2. Sells(id, reason) /\ UNCHANGED <<market, orders, fault, fates>>
    BY <1>1, <1>2, Sold
  <2> QED  BY <1>1, <2>1, <2>2 DEF reason
<1>3. CASE UNCHANGED <<book, market, orders, fates>>
  BY <1>3 DEF book
<1> QED  BY <1>2, <1>3 DEF CheckTrade, Fail

LEMMA CloseSells ==
  ASSUME Inv, NEW id \in DOMAIN trades, CloseNow(id)
  PROVE  id \in 1 .. Len(trades) /\ Sells(id, "Normal")
         /\ UNCHANGED <<market, orders, fault, fates>>
<1>1. id \in 1 .. Len(trades) /\ "Normal" \in CloseReasons
  BY DEF Inv, BookOK, CloseReasons
<1> QED  BY <1>1, Sold DEF CloseNow

\* The walk over the orders opens a trade beyond the level of the order, or none.
LEMMA OrderAt ==
  ASSUME Inv, NEW where, Top(where), where # "idle", Head(stack).i \in DOMAIN orders.slots,
         orders.slots[Head(stack).i] # Clean
  PROVE  /\ Head(stack).i \in Taken(orders) /\ orders.slots[Head(stack).i] \in Orders
         /\ quote # 0
<1>1. Head(stack).i \in 1 .. Len(orders.slots)
  BY DEF Inv, DataOK
<1>2. quote # 0
  BY <1>1 DEF Inv, DataOK
<1>3. orders.slots[Head(stack).i] \in Orders \cup {Clean}
  BY <1>1, ElementOfSeq DEF Inv, DataOK
<1> QED  BY <1>2, <1>3 DEF Taken

LEMMA ExecuteBuys ==
  ASSUME Inv, ShapeOK, ExecuteOrder
  PROVE  LET od == orders.slots[Head(stack).i]
         IN /\ Head(stack).i \in Taken(orders) /\ od \in Orders
            /\ \/ UNCHANGED <<trades, opened>>
               \/ /\ Buys(od.long, od.id)
                  /\ IF od.long THEN ask > od.lvl ELSE bid < od.lvl
<1> DEFINE od == orders.slots[Head(stack).i]
<1>1. /\ Head(stack).i \in Taken(orders) /\ od \in Orders /\ Ev \in Event
      /\ Triggered(od, Ev)
  BY OrderAt, OrdersWalk DEF ExecuteOrder, Triggered
<1>2. CASE UNCHANGED book
  BY <1>1, <1>2 DEF book
<1>3. CASE /\ <<bid, ask>> = Spread(Ev)
           /\ SendOpen(od.long, od.shares, od.sl, od.tp, od.id, <<Sent>> \o Rest)
  <2>1. UNCHANGED <<trades, opened>> \/ Buys(od.long, od.id)
    BY <1>1, <1>3, OrderTypes, Bought
  <2>2. bid = Ev.l /\ ask = IF Ev.h = Ev.l THEN Ev.h + 1 ELSE Ev.h
    BY <1>3 DEF Spread
  <2>3. Ev.l \in Nat /\ Ev.h \in Nat /\ od.lvl \in Nat
    BY <1>1, PriceAssumption DEF Event, Positive, Orders, Prices
  <2>4. IF od.long THEN ask > od.lvl ELSE bid < od.lvl
    BY <1>1, <2>2, <2>3 DEF Triggered
  <2> QED  BY <1>1, <2>1, <2>4
<1> QED  BY <1>2, <1>3 DEF ExecuteOrder, Sent

LEMMA OpenBuys ==
  ASSUME Inv, NEW long \in Sides, NEW shares \in 1 .. MaxShares, NEW sl \in Levels,
         NEW tp \in TakeProfits, OpenNow(long, shares, sl, tp)
  PROVE  /\ UNCHANGED <<market, orders>>
         /\ UNCHANGED <<trades, opened>> \/ Buys(long, 0)
<1>1. shares \in Positive
  BY PriceAssumption DEF Positive
<1> QED  BY <1>1, Bought DEF OpenNow

\* What happens in the walk over the orders is nothing to the walk over the trades.
LEMMA OrdersOnly ==
  ASSUME Inv, ShapeOK, EnterOrders \/ PassOrder \/ ExecuteOrder \/ CleanOrder \/ LeaveOrders
  PROVE  /\ \A f : f.at \in {"enter", "trades", "finish"} =>
                     (f \in Walks(stack') <=> f \in Walks(stack))
         /\ \A f \in Walks(stack) : f.at # "trades"
<1> DEFINE on == {"scan", "orders", "executed"}
<1>1. /\ Walks(stack) = {Head(stack)} \cup Walks(Rest) /\ Head(stack).at \in on
      /\ \A f \in Calls(Rest) : f.at \in Coming
  BY Tops DEF EnterOrders, PassOrder, ExecuteOrder, CleanOrder, LeaveOrders, Returns
<1>2. \A f \in Walks(Rest) : f.at \in Coming
  BY <1>1 DEF Walks
<1> QED  BY <1>1, <1>2, OrdersShape DEF Coming

-----------------------------------------------------------------------------
(* Prices and reasons.                                                     *)

LEMMA UnaskedKept ==
  ASSUME Inv, ShapeOK, UnaskedOK, [Next]_vars PROVE UnaskedOK'
<1>1. CASE UNCHANGED <<trades, opened>>
  BY <1>1 DEF UnaskedOK
<1>2. ASSUME NEW long, NEW order, Buys(long, order) PROVE UnaskedOK'
  <2> SUFFICES ASSUME NEW id \in 1 .. Len(trades'), In(opened', id)
               PROVE  trades'[id].rec.reason = "UNDEFINED"
    BY DEF UnaskedOK
  <2>1. CASE id = Len(trades) + 1
    <3>1. ~In(opened, id)
      BY <1>2, <2>1 DEF Inv, BookOK, Buys
    <3> QED  BY <1>2, <2>1, <3>1 DEF Buys
  <2>2. CASE id # Len(trades) + 1
    <3>1. id \in 1 .. Len(trades) /\ In(opened, id)
      BY <1>2, <2>2 DEF Buys
    <3> QED  BY <1>2, <3>1 DEF Buys, UnaskedOK
  <2> QED  BY <2>1, <2>2
<1>3. ASSUME NEW id, NEW reason, Sells(id, reason) PROVE UnaskedOK'
  BY <1>3 DEF Sells, UnaskedOK
<1>4. ASSUME NEW id, Alters(id) PROVE UnaskedOK'
  BY <1>4 DEF Alters, UnaskedOK
<1>5. CASE AfterAbort \/ CheckTrade \/ ExecuteOrder
  BY <1>1, <1>2, <1>3, <1>4, <1>5, AbortAlters, CheckSells, ExecuteBuys
<1>6. CASE Step /\ ~(AfterAbort \/ CheckTrade \/ ExecuteOrder)
  BY <1>1, <1>6 DEF Step, TimedCallback, EnterTrades, LeaveTrades, EnterOrders, PassOrder,
                    CleanOrder, LeaveOrders, FinishBar, Return, Fail, book
<1>7. CASE Strategy
  <2>1. CASE \E id \in DOMAIN trades, sl \in Levels, tp \in TakeProfits : MoveStops(id, sl, tp)
    BY <1>4, <2>1, MoveAlters
  <2>2. CASE \E id \in DOMAIN trades : CloseNow(id)
    BY <1>3, <2>2, CloseSells
  <2>3. CASE \E long \in Sides, shares \in 1..MaxShares, sl \in Levels, tp \in TakeProfits :
               OpenNow(long, shares, sl, tp)
    BY <1>1, <1>2, <2>3, OpenBuys
  <2> QED  BY <1>1, <1>7, <2>1, <2>2, <2>3 DEF Strategy, PlaceOrder, DropOrders, Fail, book
<1>8. CASE Market \/ UNCHANGED vars
  BY <1>1, <1>8 DEF Market, OpenBar, CloseBar, NotifyDateTime, book, vars
<1> QED  BY <1>5, <1>6, <1>7, <1>8 DEF Next, Terminated

LEMMA AtPricesKept ==
  ASSUME Inv, ShapeOK, AtPricesOK, [Next]_vars PROVE AtPricesOK'
<1>0. ASSUME Walks(stack') = Walks(stack), bid' = bid PROVE AtPricesOK'
  BY <1>0 DEF AtPricesOK
<1>1. CASE AfterAbort \/ Return
  BY <1>0, <1>1, ReturnShape DEF AfterAbort, Return, market
<1>2. CASE TimedCallback
  BY <1>2, TimedShape DEF AtPricesOK, Coming
<1>3. CASE EnterTrades
  <2> DEFINE f == [at |-> "trades", ev |-> Ev, todo |-> opened]
  <2>1. \A g \in Calls(Rest) : g.at \in Coming
    BY <1>3, Tops DEF EnterTrades, Returns
  <2>2. Walks(stack') = {f} \cup Walks(Rest) /\ \A g \in Walks(Rest) : g.at # "trades"
    BY <1>3, <2>1, EnterTradesShape DEF Walks, Coming
  <2>3. bid' = Ev.l /\ f.ev = Ev
    BY <1>3 DEF EnterTrades, SetBidAsk, Spread
  <2> QED  BY <2>2, <2>3 DEF AtPricesOK
<1>4. CASE CheckTrade
  <2>1. bid' = bid
    BY <1>4, CheckSells DEF market
  <2>2. Looked.ev = Head(stack).ev /\ Head(stack).at = "trades"
        /\ Walks(stack) = {Head(stack)} \cup Walks(Rest)
    BY <1>4, LookedAt DEF Ev
  <2>3. \A f \in Walks(stack') : f.at = "trades" => \E g \in Walks(stack) : g.at = "trades" /\ g.ev = f.ev
    BY <1>4, <2>2, CheckTradeShape
  <2> QED  BY <2>1, <2>3 DEF AtPricesOK
<1>5. CASE LeaveTrades
  <2>1. bid' = bid /\ Walks(stack') = Walks(Rest)
    BY <1>5, PopShape DEF LeaveTrades, market
  <2>2. Walks(stack) = {Head(stack)} \cup Walks(Rest)
    BY <1>5, Tops DEF LeaveTrades, Returns
  <2> QED  BY <2>1, <2>2 DEF AtPricesOK
<1>6. CASE EnterOrders \/ PassOrder \/ ExecuteOrder \/ CleanOrder \/ LeaveOrders
  BY <1>6, OrdersOnly DEF AtPricesOK
<1>7. CASE FinishBar
  <2>1. \A g \in Calls(Rest) : g.at \in Coming
    BY <1>7, Tops DEF FinishBar, Returns
  <2> QED  BY <1>7, <2>1, PopShape DEF AtPricesOK, Walks, Coming
<1>8. CASE Strategy
  <2>1. bid' = bid
    BY <1>8, OpenBuys, CloseSells
    DEF Strategy, MoveStops, PlaceOrder, DropOrders, Fail, market
  <2> QED  BY <1>0, <1>8, <2>1, StrategyShape
<1>9. CASE Market
  BY <1>9, MarketShape DEF AtPricesOK, Coming
<1>10. CASE UNCHANGED vars
  BY <1>0, <1>10 DEF vars
<1> QED
  BY <1>1, <1>2, <1>3, <1>4, <1>5, <1>6, <1>7, <1>8, <1>9, <1>10 DEF Next, Step, Terminated

LEMMA FillsStep ==
  ASSUME Inv, Inv', ShapeOK, UnaskedOK, AtPricesOK, [Next]_vars
  PROVE  Pessimistic
<1> SUFFICES ASSUME NEW id \in DOMAIN trades'
             PROVE  LET t == trades'[id]
                    IN /\ id \notin DOMAIN trades /\ t.order \notin dropped \cup {0} =>
                            FilledBeyond(t)
                       /\ id \in OpenIds /\ t.rec.reason = "StopLoss" => StoppedBeyond(t)
  BY DEF Pessimistic
<1> DEFINE t == trades'[id]
           New == id \notin DOMAIN trades /\ t.order \notin dropped \cup {0} => FilledBeyond(t)
           Stopped == id \in OpenIds /\ t.rec.reason = "StopLoss" => StoppedBeyond(t)
<1>0. /\ DOMAIN trades = 1 .. Len(trades) /\ id \in 1 .. Len(trades') /\ Len(trades) \in Nat
      /\ id \in OpenIds <=> In(opened, id)
      /\ In(opened, id) => /\ id \in 1 .. Len(trades) /\ trades[id].rec.isLong
                           /\ trades[id].rec.reason = "UNDEFINED"
  <2>1. /\ DOMAIN trades = 1 .. Len(trades) /\ id \in 1 .. Len(trades') /\ Len(trades) \in Nat
    BY DEF Inv, BookOK
  <2>2. id \in OpenIds <=> In(opened, id)
    BY ListedIds
  <2>3. In(opened, id) => id \in 1 .. Len(trades) /\ trades[id].rec.isLong
    BY DEF Inv, BookOK, Live
  <2> QED  BY <2>1, <2>2, <2>3 DEF UnaskedOK
<1> HIDE DEF t
<1>1. CASE UNCHANGED <<trades, opened>>
  BY <1>0, <1>1 DEF t
<1>2. ASSUME NEW long, NEW order, Buys(long, order)
      PROVE  /\ Stopped
             /\ id \notin DOMAIN trades => t.order = order /\ t.openQ = IF long THEN ask ELSE bid
  BY <1>0, <1>2 DEF Buys, t
<1>3. ASSUME NEW n, NEW reason, Sells(n, reason)
      PROVE  /\ id \in DOMAIN trades
             /\ n # id \/ reason # "StopLoss" => Stopped
             /\ In(opened, id) /\ n = id =>
                  t.rec.isLong /\ t.closeQ = bid /\ t.sl = trades[id].sl
  BY <1>0, <1>3 DEF Sells, t
<1>4. ASSUME NEW n, Alters(n) PROVE id \in DOMAIN trades /\ Stopped
  BY <1>0, <1>4 DEF Alters, t
<1>5. CASE ExecuteOrder
  <2> DEFINE od == orders.slots[Head(stack).i]
  <2>1. CASE Buys(od.long, od.id) /\ IF od.long THEN ask > od.lvl ELSE bid < od.lvl
    <3>1. Head(stack).i \in Taken(orders)
      BY <1>5, ExecuteBuys
    <3>2. t.order = od.id /\ t.openQ = (IF od.long THEN ask ELSE bid) => FilledBeyond(t)
      BY <2>1, <3>1 DEF FilledBeyond
    <3> HIDE DEF od
    <3>3. id \notin DOMAIN trades => FilledBeyond(t)
      BY <1>2, <2>1, <3>2
    <3>4. Stopped
      BY <1>2, <2>1
    <3> QED  BY <3>3, <3>4 DEF t
  <2> QED  BY <1>1, <1>5, <2>1, ExecuteBuys
<1>6. CASE CheckTrade
  <2> DEFINE n == Head(Head(stack).todo)
             reason == IF SlHit(trades[n], Ev) THEN "StopLoss" ELSE "TakeProfit"
  <2>1. CASE Sells(n, reason) /\ n \in 1 .. Len(trades)
    <3>1. CASE n # id \/ reason # "StopLoss"
      BY <1>3, <2>1, <3>1 DEF t
    <3>2. CASE n = id /\ SlHit(trades[id], Ev)
      <4>1. bid = Ev.l
        BY <1>6, LookedAt DEF AtPricesOK, Ev
      <4>2. In(opened, id) => bid <= trades[id].sl
        BY <1>0, <3>2, <4>1 DEF SlHit
      <4>3. In(opened, id) => StoppedBeyond(t)
        BY <1>3, <2>1, <3>2, <4>2 DEF StoppedBeyond
      <4> QED  BY <1>0, <1>3, <2>1, <4>3 DEF t
    <3> QED  BY <3>1, <3>2
  <2> QED  BY <1>1, <1>6, <2>1, CheckSells
<1>7. CASE AfterAbort
  BY <1>4, <1>7, AbortAlters DEF t
<1>8. CASE Step /\ ~(AfterAbort \/ CheckTrade \/ ExecuteOrder)
  BY <1>1, <1>8 DEF Step, TimedCallback, EnterTrades, LeaveTrades, EnterOrders, PassOrder,
                    CleanOrder, LeaveOrders, FinishBar, Return, Fail, book
<1>9. CASE Strategy
  <2>1. CASE \E n \in DOMAIN trades, sl \in Levels, tp \in TakeProfits : MoveStops(n, sl, tp)
    BY <1>4, <2>1, MoveAlters DEF t
  <2>2. CASE \E n \in DOMAIN trades : CloseNow(n)
    BY <1>3, <2>2, CloseSells DEF t
  <2>3. CASE \E long \in Sides, shares \in 1..MaxShares, sl \in Levels, tp \in TakeProfits :
               OpenNow(long, shares, sl, tp)
    BY <1>1, <1>2, <2>3, OpenBuys DEF t
  <2> QED  BY <1>1, <1>9, <2>1, <2>2, <2>3 DEF Strategy, PlaceOrder, DropOrders, Fail, book
<1>10. CASE Market \/ UNCHANGED vars
  BY <1>1, <1>10 DEF Market, OpenBar, CloseBar, NotifyDateTime, book, vars
<1> QED  BY <1>5, <1>6, <1>7, <1>8, <1>9, <1>10 DEF Next, Terminated

-----------------------------------------------------------------------------
(* Stops are honoured.                                                     *)

LEMMA Loops ==
  ASSUME Inv, NEW where, where \notin Returns
  PROVE  InLoop(where) <=> \E f \in Walks(stack) : f.at = where
<1>1. DOMAIN stack = 1 .. Len(stack)
  BY DEF Inv, StackOK
<1> QED  BY <1>1 DEF InLoop, Walks, Calls, IsWalk

\* What is known of a trade stays known when neither it nor the walk is touched.
LEMMA HonouredOn ==
  ASSUME HonouredOK, Len(trades) \in Nat, Len(trades') \in Nat, Len(trades) <= Len(trades'),
         \A f : f.at = "finish" /\ f \in Walks(stack') => f \in Walks(stack),
         \A f : f.at \in {"enter", "trades"} /\ f \in Walks(stack) => f \in Walks(stack'),
         \A id \in 1 .. Len(trades) :
           In(opened', id) => In(opened, id) /\ trades'[id] = trades[id]
  PROVE  HonouredOK'
<1> SUFFICES ASSUME NEW f \in Walks(stack'), f.at = "finish"
             PROVE  /\ f.found \in 0 .. Len(trades')
                    /\ (\A g \in Walks(stack') : g.at # "enter") =>
                         \A id \in 1 .. Len(trades') :
                           In(opened', id) /\ id <= f.found =>
                             Untouched(trades'[id], f.ev) \/ InTodo(id)'
  BY DEF HonouredOK
<1>1. f \in Walks(stack) /\ f.found \in 0 .. Len(trades)
  BY DEF HonouredOK
<1>2. f.found \in 0 .. Len(trades')
  BY <1>1
<1>3. ASSUME \A g \in Walks(stack') : g.at # "enter", NEW id \in 1 .. Len(trades'),
             In(opened', id), id <= f.found
      PROVE  Untouched(trades'[id], f.ev) \/ InTodo(id)'
  <2>1. id \in 1 .. Len(trades)
    BY <1>1, <1>3
  <2>2. \A g \in Walks(stack) : g.at # "enter"
    BY <1>3
  <2>3. In(opened, id) /\ trades'[id] = trades[id]
    BY <1>3, <2>1
  <2>4. Untouched(trades[id], f.ev) \/ InTodo(id)
    BY <1>1, <1>3, <2>1, <2>2, <2>3 DEF HonouredOK
  <2>5. InTodo(id) => InTodo(id)'
    BY DEF InTodo
  <2> QED  BY <2>3, <2>4, <2>5
<1> QED  BY <1>2, <1>3

LEMMA TradeLookedAt ==
  ASSUME Inv, ShapeOK, HonouredOK, CheckTrade PROVE HonouredOK'
<1> DEFINE n == Head(Head(stack).todo)
           reason == IF SlHit(trades[n], Ev) THEN "StopLoss" ELSE "TakeProfit"
<1>0. /\ Walks(stack) = {Head(stack)} \cup Walks(Rest) /\ Head(stack).at = "trades"
      /\ \A g \in Walks(Rest) : g.at \in Coming /\ g.ev = Ev
      /\ n \in 1 .. Len(trades) /\ Looked.at = "trades"
      /\ Ev \in Event
  <2>1. /\ Walks(stack) = {Head(stack)} \cup Walks(Rest) /\ Head(stack).at = "trades"
        /\ n \in 1 .. Len(trades) /\ Looked.at = "trades" /\ Ev \in Event
    BY LookedAt
  <2>2. \A g \in Calls(Rest) : g.at \in Coming /\ g.ev = Ev
    BY Tops DEF CheckTrade, Returns
  <2> QED  BY <2>1, <2>2 DEF Walks
<1>1. CASE UNCHANGED <<trades, opened, stack>>
  BY <1>1 DEF HonouredOK, InTodo
<1>2. \A id : In(Head(stack).todo, id) => id = n \/ In(Looked.todo, id)
  <2>1. /\ Head(stack).todo \in Seq(Nat) /\ Head(stack).todo # <<>>
        /\ Looked.todo = Tail(Head(stack).todo)
    BY LookedAt
  <2> DEFINE s == Head(stack).todo
  <2>2. /\ Head(s) = s[1] /\ Len(Tail(s)) = Len(s) - 1 /\ Len(s) \in Nat \ {0}
        /\ \A k \in 1 .. Len(Tail(s)) : Tail(s)[k] = s[k + 1]
    BY <2>1, HeadTailProperties, EmptySeq
  <2> HIDE DEF s
  <2>3. ASSUME NEW k \in 1 .. Len(s), k # 1 PROVE In(Tail(s), s[k])
    <3>1. k - 1 \in 1 .. Len(Tail(s)) /\ Tail(s)[k - 1] = s[k]
      BY <2>2, <2>3
    <3> QED  BY <3>1 DEF In
  <2> QED  BY <2>1, <2>2, <2>3 DEF In, s
\* All but the trade looked at are still to come.
<1>3. ASSUME Walks(stack') = {Looked} \cup Walks(Rest), Len(trades') = Len(trades),
             \A id : In(opened', id) => In(opened, id),
             \A id \in 1 .. Len(trades) : id # n => trades'[id] = trades[id],
             In(opened', n) => Untouched(trades'[n], Ev)
      PROVE  HonouredOK'
  <2> SUFFICES ASSUME NEW f \in Walks(stack'), f.at = "finish"
               PROVE  /\ f.found \in 0 .. Len(trades')
                      /\ (\A g \in Walks(stack') : g.at # "enter") =>
                           \A id \in 1 .. Len(trades') :
                             In(opened', id) /\ id <= f.found =>
                               Untouched(trades'[id], f.ev) \/ InTodo(id)'
    BY DEF HonouredOK
  <2>1. f \in Walks(stack) /\ f.ev = Ev /\ f.found \in 0 .. Len(trades)
    BY <1>0, <1>3 DEF HonouredOK
  <2>2. ASSUME \A g \in Walks(stack') : g.at # "enter", NEW id \in 1 .. Len(trades),
               In(opened', id), id <= f.found, id # n
        PROVE  Untouched(trades'[id], f.ev) \/ InTodo(id)'
    <3>1. \A g \in Walks(stack) : g.at # "enter"
      BY <1>0, <1>3, <2>2
    <3>2. Untouched(trades[id], f.ev) \/ InTodo(id)
      BY <1>3, <2>1, <2>2, <3>1 DEF HonouredOK
    <3>3. InTodo(id) => In(Head(stack).todo, id)
      BY <1>0 DEF InTodo, Coming
    <3>4. In(Looked.todo, id) => InTodo(id)'
      BY <1>0, <1>3 DEF InTodo
    <3> QED  BY <1>2, <1>3, <2>2, <3>2, <3>3, <3>4
  <2> QED  BY <1>3, <2>1, <2>2
<1>4. CASE /\ ~Unresolvable(trades[n], Ev) /\ ~(SlHit(trades[n], Ev) \/ TpHit(trades[n], Ev))
           /\ stack' = Remaining /\ UNCHANGED <<trades, opened>>
  <2>1. trades[n] \in TradeEntries
    BY <1>0, ElementOfSeq DEF Inv, BookOK
  <2>2. trades[n].sl \in Int /\ trades[n].tp \in Int /\ Ev.l \in Positive /\ Ev.h \in Positive
    BY <1>0, <2>1 DEF TradeEntries, Event
  <2>3. In(opened, n) => trades[n].rec.isLong
    BY DEF Inv, BookOK, Live
  <2>4. In(opened, n) => Untouched(trades[n], Ev)
    BY <1>4, <2>2, <2>3 DEF Untouched, SlHit, TpHit, Positive
  <2>5. Walks(stack') = {Looked} \cup Walks(Rest)
    BY <1>4, LookedAt
  <2> HIDE DEF n
  <2> QED  BY <1>3, <1>4, <2>4, <2>5
<1>5. CASE Sells(n, reason) /\ stack' = <<Callback(n)>> \o Remaining
  <2>1. Walks(stack') = {Looked} \cup Walks(Rest)
    <3>1. n \in Nat
      BY <1>0
    <3> QED  BY <1>5, <3>1, LookedAt, CalledOn
  <2> HIDE DEF n, reason
  <2> QED  BY <1>3, <1>5, <2>1 DEF Sells
<1> QED
  <2>1. CASE SendClose(n, reason, Remaining)
    <3>1. stack' = <<Callback(n)>> \o Remaining /\ reason \in CloseReasons
      BY <2>1 DEF SendClose, CloseReasons
    <3> HIDE DEF n, reason
    <3> QED  BY <1>0, <1>5, <2>1, <3>1, Sold
  <2> QED  BY <1>1, <1>4, <2>1 DEF CheckTrade, Fail, book

LEMMA HonouredKept ==
  ASSUME NoMoves, Inv, Inv', ShapeOK, HonouredOK, [Next]_vars PROVE HonouredOK'
<1> DEFINE Kept == \A id \in 1 .. Len(trades) :
                     In(opened', id) => In(opened, id) /\ trades'[id] = trades[id]
           Longer == /\ Len(trades) \in Nat /\ Len(trades') \in Nat
                     /\ Len(trades) <= Len(trades')
<1>0. Len(trades) \in Nat /\ Len(trades') \in Nat
  BY DEF Inv, BookOK
<1>1. UNCHANGED <<trades, opened>> => Kept /\ Longer
  BY <1>0
<1>2. ASSUME NEW long, NEW order, Buys(long, order) PROVE Kept /\ Longer
  BY <1>0, <1>2 DEF Buys
<1>3. ASSUME NEW n, NEW reason, Sells(n, reason) PROVE Kept /\ Longer
  BY <1>0, <1>3 DEF Sells
<1> HIDE DEF Kept, Longer
<1>4. ASSUME Walks(stack') = Walks(stack), Kept, Longer PROVE HonouredOK'
  BY <1>4, HonouredOn DEF Kept, Longer
<1>5. CASE AfterAbort
  <2>1. Kept /\ Longer
    BY <1>0, <1>5, AbortAlters DEF Alters, Kept, Longer
  <2> QED  BY <1>4, <1>5, <2>1, ReturnShape
<1>6. CASE Return
  BY <1>1, <1>4, <1>6, ReturnShape DEF Return, book
<1>7. CASE TimedCallback
  <2>1. Walks(stack) = {Head(stack)} \cup Walks(Rest) /\ Head(stack).at = "timed"
    <3>1. Top("timed") /\ "timed" # "idle" /\ "timed" \notin Returns
      BY <1>7 DEF TimedCallback, Returns
    <3> QED  BY <3>1, Tops
  <2>2. Walks(stack') = Walks(Rest)
    BY <1>7, TimedShape
  <2>3. Kept /\ Longer
    BY <1>1, <1>7 DEF TimedCallback, book
  <2>4. \A f : f.at = "finish" /\ f \in Walks(stack') => f \in Walks(stack)
    BY <2>1, <2>2
  <2>5. \A f : f.at \in {"enter", "trades"} /\ f \in Walks(stack) => f \in Walks(stack')
    BY <2>1, <2>2
  <2> QED  BY <2>3, <2>4, <2>5, HonouredOn DEF Kept, Longer
<1>8. CASE EnterTrades
  <2> DEFINE f == [at |-> "trades", ev |-> Ev, todo |-> opened]
  <2>1. Walks(stack') = {f} \cup Walks(Rest) /\ f.at = "trades" /\ f.todo = opened
    BY <1>8, EnterTradesShape
  <2>2. Walks(stack) = {Head(stack)} \cup Walks(Rest)
    BY <1>8, Tops DEF EnterTrades, Returns
  <2> HIDE DEF f
  <2>3. UNCHANGED <<trades, opened>>
    BY <1>8 DEF EnterTrades, book
  <2>4. \A id : In(opened', id) => InTodo(id)'
    BY <2>1, <2>3 DEF InTodo
  <2>5. \A g \in Walks(stack') : g.at = "finish" => g.found \in 0 .. Len(trades')
    BY <2>1, <2>2, <2>3 DEF HonouredOK
  <2> QED  BY <2>4, <2>5 DEF HonouredOK
<1>9. CASE CheckTrade
  BY <1>9, TradeLookedAt
<1>10. CASE LeaveTrades
  <2>1. /\ Walks(stack) = {Head(stack)} \cup Walks(Rest) /\ Head(stack).at = "trades"
        /\ \A g \in Calls(Rest) : g.at \in Coming
    BY <1>10, Tops DEF LeaveTrades, Returns
  <2>2. Walks(stack') = Walks(Rest) /\ UNCHANGED <<trades, opened>>
    BY <1>10, PopShape DEF LeaveTrades, book
  <2>3. \A id : ~InTodo(id)
    <3>1. \A g \in Walks(Rest) : g.at # "trades"
      BY <2>1 DEF Walks, Coming
    <3>2. \A id : ~In(Head(stack).todo, id)
      BY <1>10, EmptySeq DEF LeaveTrades, In
    <3> QED  BY <2>1, <3>1, <3>2 DEF InTodo
  <2>4. \A f \in Walks(stack') : f \in Walks(stack)
    BY <2>1, <2>2
  <2>5. \A g : g \in Walks(stack) /\ g.at = "enter" => g \in Walks(stack')
    BY <2>1, <2>2
  <2> QED  BY <2>2, <2>3, <2>4, <2>5 DEF HonouredOK
<1>11. CASE EnterOrders \/ PassOrder \/ ExecuteOrder \/ CleanOrder \/ LeaveOrders
  <2>1. ExecuteOrder => Kept /\ Longer
    BY <1>1, <1>2, ExecuteBuys
  <2>2. EnterOrders \/ PassOrder \/ CleanOrder \/ LeaveOrders => Kept /\ Longer
    BY <1>1 DEF EnterOrders, PassOrder, CleanOrder, LeaveOrders, Fail, book
  <2>3. Kept /\ Longer
    BY <1>11, <2>1, <2>2
  <2> QED  BY <1>11, <2>3, OrdersOnly, HonouredOn DEF Kept, Longer
<1>12. CASE FinishBar
  <2>1. /\ Walks(stack) = {Head(stack)} \cup Walks(Rest) /\ Head(stack).at = "finish"
    BY <1>12, Tops DEF FinishBar, Returns
  <2>2. Walks(stack') = Walks(Rest)
    BY <1>12, PopShape
  <2>3. Kept /\ Longer
    BY <1>1, <1>12 DEF FinishBar, book
  <2> QED  BY <2>1, <2>2, <2>3, HonouredOn DEF Kept, Longer
<1>13. CASE Strategy
  <2>1. ASSUME NEW n \in DOMAIN trades, NEW sl \in Levels, NEW tp \in TakeProfits,
               MoveStops(n, sl, tp)
        PROVE  HonouredOK'
    <3>1. ~InLoop("trades") /\ ~InLoop("executed") /\ Where \in {"idle", "callback"}
      BY <2>1 DEF MoveStops, MayDo, NoMoves
    <3>2. \A f \in Walks(stack) : f.at \notin {"trades", "executed"}
      BY <3>1, Loops DEF Returns
    <3>3. \A f \in Walks(stack) : f.at = "finish" => \E g \in Walks(stack) : g.at = "enter"
      BY <3>1, <3>2, StrategyStands DEF Standing, Calling
    <3>4. Walks(stack') = Walks(stack)
      BY <2>1 DEF MoveStops
    <3>5. Len(trades') = Len(trades)
      BY <2>1, MoveAlters DEF Alters
    <3> QED  BY <3>3, <3>4, <3>5 DEF HonouredOK
  <2>2. CASE \E n \in DOMAIN trades : CloseNow(n)
    BY <1>3, <1>4, <1>13, <2>2, CloseSells, StrategyShape
  <2>3. CASE \E long \in Sides, shares \in 1..MaxShares, sl \in Levels, tp \in TakeProfits :
               OpenNow(long, shares, sl, tp)
    BY <1>1, <1>2, <1>4, <1>13, <2>3, OpenBuys, StrategyShape
  <2>4. CASE DropOrders \/ \E od \in Orders : PlaceOrder(od)
    <3>1. UNCHANGED <<trades, opened>>
      BY <2>4 DEF PlaceOrder, DropOrders, Fail, book
    <3> QED  BY <1>1, <1>4, <1>13, <3>1, StrategyShape
  <2> QED  BY <1>13, <2>1, <2>2, <2>3, <2>4 DEF Strategy
<1>14. CASE Market
  <2>1. UNCHANGED <<trades, opened>>
    BY <1>14 DEF Market, OpenBar, CloseBar, NotifyDateTime, book
  <2>2. opened = <<>> => \A id : ~In(opened, id)
    BY EmptySeq DEF In
  <2>3. Len(trades) \in 0 .. Len(trades)
    BY <1>0
  <2> QED  BY <1>14, <2>1, <2>2, <2>3, MarketShape DEF HonouredOK
<1>15. CASE UNCHANGED vars
  BY <1>1, <1>4, <1>15 DEF vars
<1> QED
  BY <1>5, <1>6, <1>7, <1>8, <1>9, <1>10, <1>11, <1>12, <1>13, <1>14, <1>15
  DEF Next, Step, Terminated

LEMMA HonouredFinish ==
  ASSUME Inv, ShapeOK, HonouredOK PROVE StopsHonoured
<1> SUFFICES ASSUME Top("finish"), NEW id \in OpenIds, id <= Head(stack).found
             PROVE  Untouched(trades[id], Ev)
  BY DEF StopsHonoured
<1>1. /\ Walks(stack) = {Head(stack)} \cup Walks(Rest) /\ Head(stack).at = "finish"
      /\ \A g \in Calls(Rest) : Above(Head(stack), g)
  BY Tops DEF Returns
<1>2. Walks(Rest) = {}
  BY <1>1 DEF Walks, Above, Depth
<1>3. In(opened, id) /\ id \in 1 .. Len(trades)
  BY ListedIds DEF Inv, BookOK
<1> QED  BY <1>1, <1>2, <1>3 DEF HonouredOK, InTodo, Ev

-----------------------------------------------------------------------------
(* The store of orders.                                                    *)

Slots == Seq(Orders \cup {Clean})

LEMMA TakenFinite ==
  ASSUME NEW store, store.slots \in Slots
  PROVE  /\ Taken(store) \subseteq 1 .. Len(store.slots) /\ Len(store.slots) \in Nat
         /\ DOMAIN store.slots = 1 .. Len(store.slots)
         /\ IsFiniteSet(Taken(store)) /\ Cardinality(Taken(store)) \in Nat
         /\ Cardinality(Taken(store)) = Len(store.slots) =>
              Taken(store) = 1 .. Len(store.slots)
         /\ Cardinality(1 .. Len(store.slots)) = Len(store.slots)
<1>1. \A n \in Nat : IsFiniteSet(1 .. n) /\ Cardinality(1 .. n) = n
  <2> SUFFICES ASSUME NEW n \in Nat PROVE IsFiniteSet(1 .. n) /\ Cardinality(1 .. n) = n
    OBVIOUS
  <2> QED  BY FS_Interval
<1>2. /\ Taken(store) \subseteq 1 .. Len(store.slots) /\ Len(store.slots) \in Nat
      /\ DOMAIN store.slots = 1 .. Len(store.slots)
  BY DEF Taken, Slots
<1>3. /\ IsFiniteSet(Taken(store))
      /\ Cardinality(1 .. Len(store.slots)) = Cardinality(Taken(store)) =>
           1 .. Len(store.slots) = Taken(store)
  BY <1>1, <1>2, FS_Subset
<1>4. Cardinality(Taken(store)) \in Nat
  BY <1>3, FS_CardinalityType
<1> QED  BY <1>1, <1>2, <1>3, <1>4

\* As long as the count is exact, it grows by the order that is added, which takes
\* one slot that was free.
LEMMA AddedTo ==
  ASSUME NEW store, store.slots \in Slots, CountExact(store), NEW od \in Orders
  PROVE  LET new == AddNew(store, od)
         IN /\ CountExact(new)
            /\ \E k \in Nat :
                 /\ k \notin Taken(store) /\ Taken(new) = Taken(store) \cup {k}
                 /\ new.slots[k] = od
                 /\ \A i \in Taken(store) : new.slots[i] = store.slots[i]
<1> DEFINE n == Len(store.slots)
           new == AddNew(store, od)
           slots == new.slots
           s == store.slots
           T == Taken(store)
<1>1. s \in Seq(Orders \cup {Clean}) /\ n \in Nat /\ DOMAIN s = 1 .. n
  BY DEF Slots
<1>2. T \subseteq 1 .. n /\ IsFiniteSet(T) /\ Cardinality(T) \in Nat
      /\ (T = 1 .. n <=> store.total = n)
  BY TakenFinite DEF CountExact
<1>3. new.total = store.total + 1
  BY DEF AddNew
<1>4. od # Clean
  BY CleanAssumption
<1>5. \E k \in Nat :
        /\ k \notin T /\ slots[k] = od /\ DOMAIN slots = DOMAIN s \cup {k}
        /\ \A i \in DOMAIN s : i # k => slots[i] = s[i]
  <2>1. CASE store.total = n
    <3>1. slots = Append(s, od)
      BY <2>1 DEF AddNew
    <3>2. n + 1 \notin T /\ n + 1 \in Nat
      BY <1>1, <1>2
    <3>3. /\ DOMAIN slots = 1 .. n + 1 /\ slots[n + 1] = od
          /\ \A i \in 1 .. n : slots[i] = s[i]
      BY <1>1, <3>1
    <3>4. 1 .. n + 1 = 1 .. n \cup {n + 1}
      BY <1>1
    <3> QED  BY <1>1, <3>2, <3>3, <3>4
  <2>2. CASE store.total # n
    <3> DEFINE free == DOMAIN s \ T
               k == FirstClean(store)
    <3>0. \E i \in 1 .. n : i \notin T
      <4> HIDE DEF T, n
      <4> QED  BY <1>2, <2>2
    <3>1. free # {} /\ free \subseteq Nat
      BY <1>1, <3>0
    <3>2. \E m \in free : \A j \in free : m <= j
      BY <3>1, Least
    <3>3. k \in free
      BY <3>2 DEF FirstClean
    <3>4. slots = [s EXCEPT ![k] = od]
      BY <1>1, <1>2, <2>2 DEF AddNew
    <3> HIDE DEF k
    <3>5. /\ DOMAIN slots = DOMAIN s /\ slots[k] = od
          /\ \A i \in DOMAIN s : i # k => slots[i] = s[i]
      BY <1>1, <3>3, <3>4
    <3>6. k \in Nat /\ k \notin T /\ DOMAIN s = DOMAIN s \cup {k}
      BY <1>1, <3>3
    <3> QED  BY <3>5, <3>6
  <2> QED  BY <2>1, <2>2
<1>6. PICK k \in Nat :
        /\ k \notin T /\ slots[k] = od /\ DOMAIN slots = DOMAIN s \cup {k}
        /\ \A i \in DOMAIN s : i # k => slots[i] = s[i]
  BY <1>5
<1> HIDE DEF new
<1>7. Taken(new) = T \cup {k}
  BY <1>4, <1>6 DEF Taken
<1>8. Cardinality(Taken(new)) = Cardinality(T) + 1
  BY <1>2, <1>6, <1>7, FS_AddElement
<1>9. CountExact(new)
  BY <1>3, <1>8 DEF CountExact
<1>10. \A i \in T : slots[i] = s[i]
  BY <1>6 DEF Taken
<1> QED  BY <1>6, <1>7, <1>9, <1>10 DEF new

LEMMA DroppedFrom ==
  ASSUME NEW store, store.slots \in Slots, CountExact(store), NEW i \in Taken(store)
  PROVE  LET new == DropIdx(store, i)
         IN /\ CanDrop(store, i)
            /\ CountExact(new) /\ Taken(new) = Taken(store) \ {i}
            /\ \A j \in Taken(store) : j # i => new.slots[j] = store.slots[j]
<1> DEFINE n == Len(store.slots)
           new == DropIdx(store, i)
           s == store.slots
           T == Taken(store)
<1>1. s \in Seq(Orders \cup {Clean}) /\ n \in Nat /\ DOMAIN s = 1 .. n
  BY DEF Slots
<1>2. IsFiniteSet(T) /\ Cardinality(T) \in Nat /\ T \subseteq DOMAIN s
  BY TakenFinite
<1>3. new.slots = [s EXCEPT ![i] = Clean] /\ new.total = store.total - 1
  BY DEF DropIdx
<1> HIDE DEF new
<1>4. /\ DOMAIN new.slots = DOMAIN s /\ new.slots[i] = Clean
      /\ \A j \in DOMAIN s : j # i => new.slots[j] = s[j]
  BY <1>1, <1>2, <1>3
<1>5. Taken(new) = T \ {i}
  BY <1>4 DEF Taken
<1>6. Cardinality(Taken(new)) = Cardinality(T) - 1
  BY <1>2, <1>5, FS_RemoveElement
<1>7. CountExact(new)
  BY <1>3, <1>6 DEF CountExact
<1>8. store.total > 0
  BY <1>2, FS_EmptySet DEF CountExact
<1>9. CanDrop(store, i)
  BY <1>2, <1>8 DEF CanDrop
<1>10. \A j \in T : j # i => new.slots[j] = s[j]
  BY <1>2, <1>4
<1> QED  BY <1>5, <1>7, <1>9, <1>10 DEF new

LEMMA DroppedAll ==
  ASSUME NEW store, store.slots \in Slots, CountExact(store)
  PROVE  CountExact(DropAll(store)) /\ Taken(DropAll(store)) = {}
<1> DEFINE n == Len(store.slots)
           s == store.slots
           T == Taken(store)
<1>1. CASE store.total = 0
  <2>3. T = {}
    BY <1>1, TakenFinite, FS_EmptySet DEF CountExact
  <2> QED  BY <1>1, <2>3 DEF DropAll
<1>2. CASE store.total # 0
  <2> DEFINE new == DropAll(store)
  <2>1. new.slots = [i \in DOMAIN s |-> Clean] /\ new.total = 0
    BY <1>2 DEF DropAll
  <2>2. Taken(new) = {}
    BY <2>1 DEF Taken
  <2> HIDE DEF new
  <2>3. CountExact(new)
    BY <2>1, <2>2, FS_EmptySet DEF CountExact
  <2> QED  BY <2>2, <2>3 DEF new
<1> QED  BY <1>1, <1>2

-----------------------------------------------------------------------------
(* The fates of the orders.                                                *)

\* The trades come from the orders they came from.
SameOrders ==
  /\ UNCHANGED <<orders, fates>>
  /\ \A f : f.at = "executed" => (f \in Walks(stack') <=> f \in Walks(stack))
  /\ \/ /\ Len(trades') = Len(trades)
        /\ \A id \in 1 .. Len(trades) : trades'[id].order = trades[id].order
     \/ \E long : Buys(long, 0)

LEMMA NothingExecuted ==
  ASSUME OrdersOK, SameOrders, Len(trades) \in Nat
  PROVE  OrdersOK'
<1>1. /\ orders' = orders /\ issued' = issued /\ dropped' = dropped /\ refused' = refused
  BY DEF SameOrders, fates
<1>2. \A order : Waits(order)' <=> Waits(order)
  BY <1>1 DEF Waits, SameOrders
<1>3. /\ \A order : order # 0 => (Filled(order)' <=> Filled(order))
      /\ \A id \in 1 .. Len(trades') :
           trades'[id].order # 0 => /\ id \in 1 .. Len(trades)
                                    /\ trades'[id].order = trades[id].order
      /\ \A id \in 1 .. Len(trades') : trades'[id].order \in 0 .. issued
  <2>0. issued \in Nat /\ \A id \in 1 .. Len(trades) : trades[id].order \in 0 .. issued
    BY DEF OrdersOK, FatesOK
  <2>1. CASE /\ Len(trades') = Len(trades)
             /\ \A id \in 1 .. Len(trades) : trades'[id].order = trades[id].order
    BY <2>0, <2>1 DEF Filled
  <2>2. ASSUME NEW long, Buys(long, 0)
        PROVE  /\ \A order : order # 0 => (Filled(order)' <=> Filled(order))
               /\ \A id \in 1 .. Len(trades') :
                    trades'[id].order # 0 => /\ id \in 1 .. Len(trades)
                                             /\ trades'[id].order = trades[id].order
               /\ \A id \in 1 .. Len(trades') : trades'[id].order \in 0 .. issued
    <3>1. /\ Len(trades') = Len(trades) + 1 /\ trades'[Len(trades) + 1].order = 0
          /\ \A id \in 1 .. Len(trades) : trades'[id] = trades[id]
      BY <2>2 DEF Buys
    <3>2. \A id \in 1 .. Len(trades') : id \in 1 .. Len(trades) \/ id = Len(trades) + 1
      BY <3>1
    <3>3. \A id \in 1 .. Len(trades) : id \in 1 .. Len(trades')
      BY <3>1
    <3> QED  BY <2>0, <3>1, <3>2, <3>3 DEF Filled
  <2> QED  BY <2>1, <2>2 DEF SameOrders
<1>4. StoreOK'
  BY <1>1 DEF OrdersOK, StoreOK
<1>5. ExecutedOK'
  <2> SUFFICES ASSUME NEW f \in Walks(stack'), f.at = "executed"
               PROVE  /\ f.i \in Taken(orders)
                      /\ Filled(orders.slots[f.i].id)' \/ orders.slots[f.i].id \in refused
    BY <1>1 DEF ExecutedOK
  <2>1. f \in Walks(stack)
    BY DEF SameOrders
  <2>2. /\ f.i \in Taken(orders) /\ orders.slots[f.i].id \in 1 .. issued
        /\ Filled(orders.slots[f.i].id) \/ orders.slots[f.i].id \in refused
    BY <2>1 DEF OrdersOK, StoreOK, ExecutedOK
  <2>3. orders.slots[f.i].id # 0
    BY <2>2
  <2>4. Filled(orders.slots[f.i].id)' <=> Filled(orders.slots[f.i].id)
    BY <1>1, <1>3, <2>3
  <2> QED  BY <2>2, <2>4
<1>6. FatesOK'
  <2>1. /\ issued' \in Nat /\ dropped' \subseteq 1 .. issued' /\ refused' \subseteq 1 .. issued'
        /\ \A id \in 1 .. Len(trades') : trades'[id].order \in 0 .. issued'
    BY <1>1, <1>3 DEF OrdersOK, FatesOK
  <2>2. \A m, n \in 1 .. Len(trades') :
          trades'[m].order = trades'[n].order /\ trades'[m].order # 0 => m = n
    BY <1>3 DEF OrdersOK, FatesOK
  <2>3. ASSUME NEW order \in 1 .. issued'
        PROVE  /\ ~(Filled(order)' /\ order \in refused' \cup dropped')
               /\ ~(order \in refused' /\ order \in dropped')
               /\ (Filled(order)' \/ order \in refused' \cup dropped') <=> ~Waits(order)'
    <3>1. order # 0 /\ order \in 1 .. issued
      BY <1>1
    <3> QED  BY <1>1, <1>2, <1>3, <3>1 DEF OrdersOK, FatesOK
  <2> QED  BY <2>1, <2>2, <2>3 DEF FatesOK
<1> QED  BY <1>4, <1>5, <1>6 DEF OrdersOK

LEMMA OrderExecuted ==
  ASSUME Inv, ShapeOK, OrdersOK, ExecuteOrder PROVE OrdersOK'
<1> DEFINE i == Head(stack).i
           od == orders.slots[i]
           o == od.id
           n == Len(trades)
<1>1. /\ i \in Taken(orders) /\ od \in Orders /\ o \in 1 .. issued /\ n \in Nat
      /\ issued \in Nat /\ od.long \in Sides /\ od.shares \in Positive /\ o # 0
  <2>1. i \in Taken(orders) /\ od \in Orders /\ n \in Nat
    BY ExecuteBuys DEF Inv, BookOK
  <2>2. o \in 1 .. issued /\ issued \in Nat
    BY <2>1 DEF OrdersOK, StoreOK, FatesOK
  <2> QED  BY <2>1, <2>2, OrderTypes
<1>2. /\ Walks(stack) = {Head(stack)} \cup Walks(Rest) /\ Head(stack).at = "orders"
      /\ \A f \in Walks(Rest) : f.at # "executed"
  BY OrdersWalk DEF ExecuteOrder, Coming
<1>3. \A f \in Walks(stack) : f.at # "executed"
  BY <1>2
<1>4. Waits(o) /\ ~Filled(o) /\ o \notin refused \cup dropped
  <2>1. Waits(o)
    BY <1>1, <1>3 DEF Waits
  <2> QED  BY <1>1, <2>1 DEF OrdersOK, FatesOK
\* The order is being executed now, and no other.
<1>5. ASSUME Walks(stack') = {Sent} \cup Walks(Rest), UNCHANGED <<orders, issued, dropped>>
      PROVE  /\ \A f \in Walks(stack') : f.at = "executed" => f.i = i
             /\ \A x : Waits(x)' <=> Waits(x) /\ x # o
  <2>1. Sent \in Walks(stack') /\ Sent.at = "executed" /\ Sent.i = i
    BY <1>5, SentOrder
  <2>2. \A f \in Walks(stack') : f.at = "executed" => f.i = i
    BY <1>2, <1>5, <2>1
  <2>3. \A x : Waits(x) <=> \E k \in Taken(orders) : orders.slots[k].id = x
    BY <1>3 DEF Waits
  <2>4. \A x : Waits(x)' <=> \E k \in Taken(orders) : orders.slots[k].id = x /\ k # i
    BY <1>5, <2>1, <2>2 DEF Waits
  <2>5. \A k \in Taken(orders) : k # i <=> orders.slots[k].id # o
    BY <1>1 DEF OrdersOK, StoreOK
  <2> QED  BY <2>2, <2>3, <2>4, <2>5
<1>6. CASE stack' = stack /\ UNCHANGED <<book, orders, fates>>
  <2>1. SameOrders
    BY <1>6 DEF SameOrders, book
  <2> QED  BY <1>1, <2>1, NothingExecuted
<1> HIDE DEF o
<1>7. CASE /\ Walks(stack') = {Sent} \cup Walks(Rest)
           /\ UNCHANGED <<book, orders, issued, dropped>> /\ refused' = refused \cup {o}
  <2>1. \A x : Filled(x)' <=> Filled(x)
    BY <1>7 DEF Filled, book
  <2>2. StoreOK'
    BY <1>7 DEF OrdersOK, StoreOK
  <2>3. ExecutedOK'
    BY <1>1, <1>5, <1>7 DEF ExecutedOK, o
  <2>4. FatesOK'
    <3>1. /\ \A id \in 1 .. Len(trades') : trades'[id].order \in 0 .. issued'
          /\ \A k, m \in 1 .. Len(trades') :
               trades'[k].order = trades'[m].order /\ trades'[k].order # 0 => k = m
          /\ dropped' \subseteq 1 .. issued' /\ issued' \in Nat
          /\ refused' \subseteq 1 .. issued'
      BY <1>1, <1>7 DEF OrdersOK, FatesOK, book
    <3>2. ASSUME NEW x \in 1 .. issued'
          PROVE  /\ ~(Filled(x)' /\ x \in refused' \cup dropped')
                 /\ ~(x \in refused' /\ x \in dropped')
                 /\ (Filled(x)' \/ x \in refused' \cup dropped') <=> ~Waits(x)'
      <4>1. /\ ~(Filled(x) /\ x \in refused \cup dropped)
            /\ ~(x \in refused /\ x \in dropped)
            /\ (Filled(x) \/ x \in refused \cup dropped) <=> ~Waits(x)
        BY <1>7, <3>2 DEF OrdersOK, FatesOK
      <4> QED  BY <1>4, <1>5, <1>7, <2>1, <4>1
    <3> QED  BY <3>1, <3>2 DEF FatesOK
  <2> QED  BY <2>2, <2>3, <2>4 DEF OrdersOK
<1>8. CASE /\ Walks(stack') = {Sent} \cup Walks(Rest)
           /\ UNCHANGED <<orders, fates>> /\ Buys(od.long, o)
  <2>1. /\ Len(trades') = n + 1 /\ trades'[n + 1].order = o
        /\ \A id \in 1 .. n : trades'[id] = trades[id]
    BY <1>8 DEF Buys
  <2>2. \A id \in 1 .. Len(trades') : id \in 1 .. n \/ id = n + 1
    BY <1>1, <2>1
  <2>3. \A id \in 1 .. n : id \in 1 .. Len(trades')
    BY <1>1, <2>1
  <2>4. \A x : Filled(x)' <=> Filled(x) \/ x = o
    <3>1. n + 1 \in 1 .. Len(trades')
      BY <1>1, <2>1
    <3> QED  BY <2>1, <2>2, <2>3, <3>1 DEF Filled
  <2>5. StoreOK'
    BY <1>8 DEF OrdersOK, StoreOK, fates
  <2>6. ExecutedOK'
    BY <1>1, <1>5, <1>8, <2>4 DEF ExecutedOK, o, fates
  <2>7. FatesOK'
    <3>1. \A id \in 1 .. Len(trades') : trades'[id].order \in 0 .. issued'
      BY <1>1, <1>8, <2>1, <2>2 DEF OrdersOK, FatesOK, fates
    <3>2. ASSUME NEW k \in 1 .. Len(trades'), NEW m \in 1 .. Len(trades'),
                 trades'[k].order = trades'[m].order, trades'[k].order # 0
          PROVE  k = m
      <4>1. \A id \in 1 .. n : trades'[id].order # o
        BY <1>4, <2>1 DEF Filled
      <4>2. CASE k \in 1 .. n /\ m \in 1 .. n
        BY <2>1, <3>2, <4>2 DEF OrdersOK, FatesOK
      <4> QED  BY <2>1, <2>2, <3>2, <4>1, <4>2
    <3>3. issued' \in Nat /\ dropped' \subseteq 1 .. issued' /\ refused' \subseteq 1 .. issued'
      BY <1>8 DEF OrdersOK, FatesOK, fates
    <3>4. ASSUME NEW x \in 1 .. issued'
          PROVE  /\ ~(Filled(x)' /\ x \in refused' \cup dropped')
                 /\ ~(x \in refused' /\ x \in dropped')
                 /\ (Filled(x)' \/ x \in refused' \cup dropped') <=> ~Waits(x)'
      <4>1. /\ ~(Filled(x) /\ x \in refused \cup dropped)
            /\ ~(x \in refused /\ x \in dropped)
            /\ (Filled(x) \/ x \in refused \cup dropped) <=> ~Waits(x)
        BY <1>8, <3>4 DEF OrdersOK, FatesOK, fates
      <4>2. refused' = refused /\ dropped' = dropped /\ \A y : Waits(y)' <=> Waits(y) /\ y # o
        BY <1>5, <1>8 DEF fates
      <4> QED  BY <1>4, <2>4, <4>1, <4>2
    <3> QED  BY <3>1, <3>2, <3>3, <3>4 DEF FatesOK
  <2> QED  BY <2>5, <2>6, <2>7 DEF OrdersOK
<1>9. CASE SendOpen(od.long, od.shares, od.sl, od.tp, o, <<Sent>> \o Rest)
  <2> DEFINE rest == <<Sent>> \o Rest
  <2>1. rest \in Seq(Pending) /\ Nested(rest) /\ Standing(rest)
        /\ Walks(rest) = {Sent} \cup Walks(Rest)
    BY SentOrder
  <2> HIDE DEF rest, od
  <2>2. SendOpen(od.long, od.shares, od.sl, od.tp, o, rest)
    BY <1>9 DEF rest
  <2>3. \/ Walks(stack') = {Sent} \cup Walks(Rest)
        \/ stack' = stack /\ UNCHANGED <<book, market, orders, fates>>
    BY <2>1, <2>2, OpensShape
  <2>4. orders' = orders /\ (UNCHANGED <<trades, opened>> \/ Buys(od.long, o))
    BY <1>1, <2>2, Bought
  <2>5. \/ refused' = refused \cup {o} /\ UNCHANGED <<book, issued, dropped>>
        \/ UNCHANGED <<stack, book, fates>>
        \/ UNCHANGED fates /\ trades' # trades
    <3>1. \A e : Append(trades, e) # trades
      BY <1>1 DEF Inv, BookOK
    <3> QED  BY <1>1, <2>2, <3>1 DEF SendOpen, Fail
  <2>6. CASE UNCHANGED fates /\ trades' # trades
    BY <1>8, <2>3, <2>4, <2>6 DEF book
  <2>7. CASE refused' = refused \cup {o} /\ UNCHANGED <<book, issued, dropped>>
    BY <1>6, <1>7, <2>3, <2>4, <2>7
  <2>8. CASE UNCHANGED <<stack, book, fates>>
    BY <1>6, <2>4, <2>8
  <2> QED  BY <2>5, <2>6, <2>7, <2>8
<1> QED  BY <1>6, <1>9 DEF ExecuteOrder, Sent, o

LEMMA OrderCleaned ==
  ASSUME Inv, ShapeOK, OrdersOK, CleanOrder PROVE OrdersOK' /\ fault' = "none"
<1> DEFINE i == Head(stack).i
           o == orders.slots[i].id
<1>1. /\ Walks(stack) = {Head(stack)} \cup Walks(Rest) /\ Head(stack).at = "executed"
      /\ \A f \in Walks(Rest) : f.at # "executed"
      /\ NextSlot(Head(stack)).at = "orders"
      /\ LET s == <<NextSlot(Head(stack))>> \o Rest
         IN Walks(s) = {NextSlot(Head(stack))} \cup Walks(Rest)
  BY OrdersWalk DEF CleanOrder, Coming
<1>2. i \in Taken(orders) /\ (Filled(o) \/ o \in refused)
  BY <1>1 DEF OrdersOK, ExecutedOK
<1>3. orders.slots \in Slots
  BY DEF Inv, DataOK, Slots
<1>4. /\ CanDrop(orders, i) /\ CountExact(DropIdx(orders, i))
      /\ Taken(DropIdx(orders, i)) = Taken(orders) \ {i}
      /\ \A j \in Taken(orders) : j # i => DropIdx(orders, i).slots[j] = orders.slots[j]
  BY <1>2, <1>3, DroppedFrom DEF OrdersOK, StoreOK
<1>5. /\ orders' = DropIdx(orders, i) /\ stack' = <<NextSlot(Head(stack))>> \o Rest
      /\ UNCHANGED <<trades, issued, dropped, refused, fault>>
  BY <1>4 DEF CleanOrder, book, fates
<1>6. \A f \in Walks(stack') : f.at # "executed"
  BY <1>1, <1>5
<1>7. CountExact(orders') /\ Taken(orders') = Taken(orders) \ {i}
      /\ \A j \in Taken(orders') : orders'.slots[j] = orders.slots[j]
  BY <1>4, <1>5
<1>8. \A x : Waits(x)' <=> Waits(x)
  <2>1. \A j : (\A f \in Walks(stack) : f.at = "executed" => f.i # j) <=> j # i
    <3>1. \A f \in Walks(stack) : f.at = "executed" <=> f = Head(stack)
      BY <1>1
    <3>2. Head(stack) \in Walks(stack) /\ Head(stack).i = i
      BY <1>1
    <3> HIDE DEF i
    <3> QED  BY <3>1, <3>2, <1>1
  <2> HIDE DEF i
  <2>2. \A x : Waits(x)' <=> \E j \in Taken(orders) \ {i} : orders.slots[j].id = x
    BY <1>6, <1>7 DEF Waits
  <2>3. \A x : Waits(x) <=> \E j \in Taken(orders) \ {i} : orders.slots[j].id = x
    BY <2>1 DEF Waits
  <2> QED  BY <2>2, <2>3
<1>9. \A x : Filled(x)' <=> Filled(x)
  BY <1>5 DEF Filled
<1>10. StoreOK'
  BY <1>5, <1>7 DEF OrdersOK, StoreOK
<1>11. ExecutedOK'
  BY <1>6 DEF ExecutedOK
<1>12. FatesOK'
  <2>1. /\ issued' \in Nat /\ dropped' \subseteq 1 .. issued' /\ refused' \subseteq 1 .. issued'
        /\ \A id \in 1 .. Len(trades') : trades'[id].order \in 0 .. issued'
        /\ \A m, n \in 1 .. Len(trades') :
             trades'[m].order = trades'[n].order /\ trades'[m].order # 0 => m = n
    BY <1>5 DEF OrdersOK, FatesOK
  <2>2. ASSUME NEW order \in 1 .. issued'
        PROVE  /\ ~(Filled(order)' /\ order \in refused' \cup dropped')
               /\ ~(order \in refused' /\ order \in dropped')
               /\ (Filled(order)' \/ order \in refused' \cup dropped') <=> ~Waits(order)'
    BY <1>5, <1>8, <1>9, <2>2 DEF OrdersOK, FatesOK
  <2> QED  BY <2>1, <2>2 DEF FatesOK
<1>13. fault' = "none"
  BY <1>5 DEF CleanOrder, Top
<1> QED  BY <1>10, <1>11, <1>12, <1>13 DEF OrdersOK

LEMMA OrderPlaced ==
  ASSUME Inv, OrdersOK, NEW od \in Orders, PlaceOrder(od) PROVE OrdersOK'
<1>0. Len(trades) \in Nat
  BY DEF Inv, BookOK
<1>1. CASE UNCHANGED <<book, orders, stack, fates>>
  <2>1. SameOrders
    BY <1>1 DEF SameOrders, book
  <2> QED  BY <1>0, <2>1, NothingExecuted
<1>2. CASE /\ orders' = AddNew(orders, od) /\ issued' = issued + 1 /\ od.id = issued + 1
           /\ UNCHANGED <<trades, stack, dropped, refused>>
  <2> DEFINE o == issued + 1
  <2>0. issued \in Nat
    BY DEF OrdersOK, FatesOK
  <2>1. orders.slots \in Slots
    BY DEF Inv, DataOK, Slots
  <2>2. PICK k \in Nat :
          /\ k \notin Taken(orders) /\ Taken(orders') = Taken(orders) \cup {k}
          /\ orders'.slots[k] = od
          /\ \A i \in Taken(orders) : orders'.slots[i] = orders.slots[i]
    BY <1>2, <2>1, AddedTo DEF OrdersOK, StoreOK
  <2>3. CountExact(orders')
    BY <1>2, <2>1, AddedTo DEF OrdersOK, StoreOK
  <2>4. \A i \in Taken(orders) : orders.slots[i].id \in 1 .. issued /\ orders.slots[i].id # o
    BY <2>0 DEF OrdersOK, StoreOK
  <2>5. \A f \in Walks(stack) : f.at = "executed" => f.i \in Taken(orders) /\ f.i # k
    BY <2>2 DEF OrdersOK, ExecutedOK
  <2>6. \A x : Waits(x)' <=> Waits(x) \/ x = o
    <3>1. \A x : x = o => Waits(x)'
      BY <1>2, <2>2, <2>5 DEF Waits
    <3>2. \A x : Waits(x) => Waits(x)'
      BY <1>2, <2>2 DEF Waits
    <3>3. \A x : Waits(x)' => Waits(x) \/ x = o
      BY <1>2, <2>2 DEF Waits
    <3> QED  BY <3>1, <3>2, <3>3
  <2>7. \A x : Filled(x)' <=> Filled(x)
    BY <1>2 DEF Filled
  <2>8. ~Filled(o) /\ o \notin refused \cup dropped
    <3>1. \A id \in 1 .. Len(trades) : trades[id].order # o
      BY <2>0 DEF OrdersOK, FatesOK
    <3>2. o \notin 1 .. issued
      BY <2>0
    <3>3. refused \subseteq 1 .. issued /\ dropped \subseteq 1 .. issued
      BY DEF OrdersOK, FatesOK
    <3> QED  BY <3>1, <3>2, <3>3 DEF Filled
  <2>9. 1 .. issued' = 1 .. issued \cup {o} /\ issued' \in Nat
        /\ 0 .. issued \subseteq 0 .. issued' /\ 1 .. issued \subseteq 1 .. issued'
    BY <1>2, <2>0
  <2> HIDE DEF o
  <2>10. StoreOK'
    <3>1. \A i \in Taken(orders') : orders'.slots[i].id \in 1 .. issued'
      BY <1>2, <2>2, <2>4, <2>9 DEF o
    <3>2. ASSUME NEW i \in Taken(orders'), NEW j \in Taken(orders'),
                 orders'.slots[i].id = orders'.slots[j].id
          PROVE  i = j
      <4>1. CASE i \in Taken(orders) /\ j \in Taken(orders)
        BY <2>2, <3>2, <4>1 DEF OrdersOK, StoreOK
      <4>2. orders'.slots[k].id = o
        BY <1>2, <2>2 DEF o
      <4> QED  BY <2>2, <2>4, <3>2, <4>1, <4>2
    <3> QED  BY <2>3, <3>1, <3>2 DEF StoreOK
  <2>11. ExecutedOK'
    <3> SUFFICES ASSUME NEW f \in Walks(stack), f.at = "executed"
                 PROVE  /\ f.i \in Taken(orders')
                        /\ (Filled(orders.slots[f.i].id) \/ orders.slots[f.i].id \in refused)'
      BY <1>2 DEF ExecutedOK
    <3>1. /\ f.i \in Taken(orders)
          /\ Filled(orders.slots[f.i].id) \/ orders.slots[f.i].id \in refused
      BY DEF OrdersOK, ExecutedOK
    <3>2. orders'.slots[f.i].id = orders.slots[f.i].id /\ f.i \in Taken(orders')
      BY <2>2, <3>1
    <3> QED  BY <1>2, <3>1, <3>2 DEF Filled
  <2>12. FatesOK'
    <3>1. /\ dropped' \subseteq 1 .. issued' /\ refused' \subseteq 1 .. issued'
          /\ \A id \in 1 .. Len(trades') : trades'[id].order \in 0 .. issued'
          /\ \A m, n \in 1 .. Len(trades') :
               trades'[m].order = trades'[n].order /\ trades'[m].order # 0 => m = n
      BY <1>2, <2>9 DEF OrdersOK, FatesOK
    <3>2. ASSUME NEW order \in 1 .. issued'
          PROVE  /\ ~(Filled(order)' /\ order \in refused' \cup dropped')
                 /\ ~(order \in refused' /\ order \in dropped')
                 /\ (Filled(order)' \/ order \in refused' \cup dropped') <=> ~Waits(order)'
      <4>1. CASE order = o
        BY <1>2, <2>6, <2>7, <2>8, <4>1
      <4>2. CASE order # o
        <5>1. order \in 1 .. issued
          BY <2>9, <3>2, <4>2
        <5> QED  BY <1>2, <2>6, <2>7, <4>2, <5>1 DEF OrdersOK, FatesOK
      <4> QED  BY <4>1, <4>2
    <3> QED  BY <2>9, <3>1, <3>2 DEF FatesOK
  <2> QED  BY <2>10, <2>11, <2>12 DEF OrdersOK
<1> QED  BY <1>1, <1>2 DEF PlaceOrder, Fail, book

\* Whoever may do what is done in the walk over the orders does not do it in that
\* over the trades.
LEMMA OneLoop ==
  ASSUME Inv, ShapeOK, InLoop("executed") PROVE ~InLoop("trades")
<1>1. stack \in Seq(Pending) /\ Nested(stack)
  BY DEF Inv, StackOK, ShapeOK
<1>2. PICK f \in Walks(stack) : f.at = "executed"
  BY Loops DEF Returns
<1>3. ASSUME NEW g \in Walks(stack), g.at = "trades" PROVE FALSE
  <2>1. Depth(f) = Depth(g)
    BY <1>2, <1>3 DEF Depth
  <2> QED  BY <1>1, <1>2, <1>3, <2>1, OneAtWork
<1> QED  BY <1>3, Loops DEF Returns

LEMMA OrdersDropped ==
  ASSUME NoDrops, Inv, ShapeOK, OrdersOK, DropOrders PROVE OrdersOK'
<1>1. ~InLoop("executed")
  BY OneLoop DEF DropOrders, MayDo, NoDrops
<1>2. \A f \in Walks(stack) : f.at # "executed"
  BY <1>1, Loops DEF Returns
<1>3. orders.slots \in Slots
  BY DEF Inv, DataOK, Slots
<1>4. CountExact(orders') /\ Taken(orders') = {} /\ UNCHANGED <<trades, stack, issued, refused>>
  BY <1>3, DroppedAll DEF OrdersOK, StoreOK, DropOrders, book
<1>5. dropped' = dropped \cup {orders.slots[i].id : i \in Taken(orders)}
  <2>1. CASE orders.total = 0
    <3>1. Taken(orders) = {}
      BY <1>3, <2>1, TakenFinite, FS_EmptySet DEF OrdersOK, StoreOK, CountExact
    <3> QED  BY <2>1, <3>1 DEF DropOrders
  <2> QED  BY <2>1 DEF DropOrders
<1>6. \A x : Waits(x) <=> x \in {orders.slots[i].id : i \in Taken(orders)}
  BY <1>2 DEF Waits
<1>7. \A x : ~Waits(x)'
  BY <1>4 DEF Waits
<1>8. \A x : Filled(x)' <=> Filled(x)
  BY <1>4 DEF Filled
<1>9. StoreOK' /\ ExecutedOK'
  BY <1>2, <1>4 DEF StoreOK, ExecutedOK
<1>10. FatesOK'
  <2>1. \A i \in Taken(orders) : orders.slots[i].id \in 1 .. issued
    BY DEF OrdersOK, StoreOK
  <2>2. /\ issued' \in Nat /\ dropped' \subseteq 1 .. issued' /\ refused' \subseteq 1 .. issued'
        /\ \A id \in 1 .. Len(trades') : trades'[id].order \in 0 .. issued'
        /\ \A m, n \in 1 .. Len(trades') :
             trades'[m].order = trades'[n].order /\ trades'[m].order # 0 => m = n
    BY <1>4, <1>5, <2>1 DEF OrdersOK, FatesOK
  <2>3. ASSUME NEW order \in 1 .. issued'
        PROVE  /\ ~(Filled(order)' /\ order \in refused' \cup dropped')
               /\ ~(order \in refused' /\ order \in dropped')
               /\ (Filled(order)' \/ order \in refused' \cup dropped') <=> ~Waits(order)'
    <3>1. /\ ~(Filled(order) /\ order \in refused \cup dropped)
          /\ ~(order \in refused /\ order \in dropped)
          /\ (Filled(order) \/ order \in refused \cup dropped) <=> ~Waits(order)
      BY <1>4, <2>3 DEF OrdersOK, FatesOK
    <3>2. order \in dropped' <=> order \in dropped \/ Waits(order)
      BY <1>5, <1>6
    <3> QED  BY <1>4, <1>7, <1>8, <3>1, <3>2
  <2> QED  BY <2>2, <2>3 DEF FatesOK
<1> QED  BY <1>9, <1>10 DEF OrdersOK

LEMMA OrdersKept ==
  ASSUME NoDrops, Inv, ShapeOK, OrdersOK, [Next]_vars PROVE OrdersOK'
<1> DEFINE SameCalls == \A f : f.at = "executed" => (f \in Walks(stack') <=> f \in Walks(stack))
           SameTrades == /\ Len(trades') = Len(trades)
                         /\ \A id \in 1 .. Len(trades) : trades'[id].order = trades[id].order
<1>0. Len(trades) \in Nat
  BY DEF Inv, BookOK
<1>1. trades' = trades => SameTrades
  OBVIOUS
<1>2. ASSUME SameCalls, SameTrades, UNCHANGED <<orders, fates>> PROVE OrdersOK'
  <2>1. SameOrders
    BY <1>2 DEF SameOrders
  <2> QED  BY <1>0, <2>1, NothingExecuted
<1>3. ASSUME NEW id \in 1 .. Len(trades), NEW reason, Sells(id, reason) PROVE SameTrades
  BY <1>3 DEF Sells
<1>4. ASSUME NEW id \in 1 .. Len(trades), Alters(id) PROVE SameTrades
  BY <1>4 DEF Alters
<1> HIDE DEF SameTrades
<1>5. CASE AfterAbort \/ Return
  <2>1. SameCalls
    BY <1>5, ReturnShape
  <2>2. SameTrades
    BY <1>1, <1>4, <1>5, AbortAlters DEF Return, book
  <2>3. UNCHANGED <<orders, fates>>
    BY <1>5 DEF AfterAbort, Return
  <2> QED  BY <1>2, <2>1, <2>2, <2>3
<1>6. CASE TimedCallback
  <2>1. Walks(stack) = {Head(stack)} \cup Walks(Rest) /\ Head(stack).at = "timed"
    BY <1>6, Tops DEF TimedCallback, Returns
  <2>2. SameCalls
    BY <1>6, <2>1, TimedShape
  <2> QED  BY <1>1, <1>2, <1>6, <2>2 DEF TimedCallback, book
<1>7. CASE EnterTrades
  <2>1. Walks(stack) = {Head(stack)} \cup Walks(Rest) /\ Head(stack).at = "enter"
    BY <1>7, Tops DEF EnterTrades, Returns
  <2>2. SameCalls
    BY <1>7, <2>1, EnterTradesShape
  <2> QED  BY <1>1, <1>2, <1>7, <2>2 DEF EnterTrades, book
<1>8. CASE CheckTrade
  <2>1. SameCalls
    BY <1>8, CheckTradeShape, LookedAt
  <2>2. SameTrades /\ UNCHANGED <<orders, fates>>
    BY <1>1, <1>3, <1>8, CheckSells
  <2> QED  BY <1>2, <2>1, <2>2
<1>9. CASE LeaveTrades \/ LeaveOrders \/ FinishBar
  <2>1. /\ Walks(stack) = {Head(stack)} \cup Walks(Rest)
        /\ Head(stack).at \in {"trades", "orders", "finish"}
    BY <1>9, Tops DEF LeaveTrades, LeaveOrders, FinishBar, Returns
  <2>2. SameCalls
    BY <1>9, <2>1, PopShape
  <2> QED  BY <1>1, <1>2, <1>9, <2>2 DEF LeaveTrades, LeaveOrders, FinishBar, book
<1>10. CASE (EnterOrders \/ PassOrder) /\ ~ExecuteOrder
  <2>1. /\ Walks(stack) = {Head(stack)} \cup Walks(Rest) /\ Head(stack).at \in {"scan", "orders"}
    BY <1>10, Tops DEF EnterOrders, PassOrder, Returns
  <2>2. SameCalls
    BY <1>10, <2>1, OrdersShape
  <2> QED  BY <1>1, <1>2, <1>10, <2>2 DEF EnterOrders, PassOrder, Fail, book
<1>11. CASE ExecuteOrder
  BY <1>11, OrderExecuted
<1>12. CASE CleanOrder
  BY <1>12, OrderCleaned
<1>13. CASE Strategy
  <2>0. SameCalls
    BY <1>13, StrategyShape
  <2>1. CASE \E n \in DOMAIN trades, sl \in Levels, tp \in TakeProfits : MoveStops(n, sl, tp)
    <3>1. DOMAIN trades = 1 .. Len(trades)
      BY DEF Inv, BookOK
    <3>2. UNCHANGED <<orders, fates>>
      BY <2>1 DEF MoveStops
    <3> QED  BY <1>2, <1>4, <2>0, <2>1, <3>1, <3>2, MoveAlters
  <2>2. CASE \E n \in DOMAIN trades : CloseNow(n)
    BY <1>2, <1>3, <2>0, <2>2, CloseSells
  <2>3. ASSUME NEW long \in Sides, NEW shares \in 1..MaxShares, NEW sl \in Levels,
               NEW tp \in TakeProfits, OpenNow(long, shares, sl, tp)
        PROVE  OrdersOK'
    <3>1. UNCHANGED <<orders, fates>>
      BY <2>3 DEF OpenNow, SendOpen, Fail, fates
    <3>2. SameTrades \/ Buys(long, 0)
      BY <1>1, <2>3, OpenBuys
    <3>3. CASE Buys(long, 0)
      <4>1. SameOrders
        BY <2>0, <3>1, <3>3 DEF SameOrders
      <4> QED  BY <1>0, <4>1, NothingExecuted
    <3> QED  BY <1>2, <2>0, <3>1, <3>2, <3>3
  <2>4. CASE DropOrders
    BY <2>4, OrdersDropped
  <2>5. CASE \E od \in Orders : PlaceOrder(od)
    BY <2>5, OrderPlaced
  <2> QED  BY <1>13, <2>1, <2>2, <2>3, <2>4, <2>5 DEF Strategy
<1>14. CASE Market
  <2>1. stack = <<>>
    <3>1. Where = "idle"
      BY <1>14 DEF Market, OpenBar, CloseBar, NotifyDateTime, Top
    <3>2. stack # <<>> => Head(stack).at # "idle"
      BY CallsBack DEF Inv, StackOK, Pending
    <3> QED  BY <3>1, <3>2 DEF Where
  <2>2. SameCalls
    BY <1>14, <2>1, NoCalls, MarketShape DEF Coming
  <2> QED  BY <1>1, <1>2, <1>14, <2>2 DEF Market, OpenBar, CloseBar, NotifyDateTime, book
<1>15. CASE UNCHANGED vars
  <2>1. SameCalls
    BY <1>15 DEF vars
  <2> QED  BY <1>1, <1>2, <1>15, <2>1 DEF vars, fates
<1> QED
  BY <1>5, <1>6, <1>7, <1>8, <1>9, <1>10, <1>11, <1>12, <1>13, <1>14, <1>15
  DEF Next, Step, Terminated

LEMMA Accounted ==
  ASSUME Inv, OrdersOK PROVE OrdersAccounted
<1> SUFFICES ASSUME NEW order \in 1 .. issued
             PROVE  LET filled == Cardinality(FilledBy(order))
                    IN filled + (IF order \in refused THEN 1 ELSE 0)
                              + (IF order \in dropped THEN 1 ELSE 0)
                              + (IF order \in Waiting THEN 1 ELSE 0) = 1
  BY DEF OrdersAccounted
<1>0. order # 0 /\ DOMAIN trades = 1 .. Len(trades) /\ DOMAIN stack = 1 .. Len(stack)
  BY DEF Inv, BookOK, StackOK
<1>1. order \in Waiting <=> Waits(order)
  <2> DEFINE on == {n \in DOMAIN stack : stack[n].at = "executed"
                                         /\ orders.slots[stack[n].i] # Clean}
  <2>1. \A f \in Walks(stack) : f.at = "executed" =>
          f.i \in Taken(orders) /\ orders.slots[f.i] # Clean
    BY DEF OrdersOK, ExecutedOK, Taken
  <2>2. \A n \in DOMAIN stack : stack[n].at = "executed" => stack[n] \in Walks(stack)
    BY <1>0 DEF Walks, Calls, IsWalk, Returns
  <2>3. \A f \in Walks(stack) : f.at = "executed" => \E n \in on : stack[n] = f
    BY <1>0, <2>1 DEF Walks, Calls
  <2>4. Executing = {orders.slots[stack[n].i].id : n \in on}
    BY DEF Executing
  <2>5. \A x : x \in Executing <=>
               \E f \in Walks(stack) : f.at = "executed" /\ x = orders.slots[f.i].id
    BY <2>1, <2>2, <2>3, <2>4
  <2>6. \A i \in Taken(orders), f \in Walks(stack) :
          f.at = "executed" => (orders.slots[f.i].id = orders.slots[i].id <=> f.i = i)
    BY <2>1 DEF OrdersOK, StoreOK
  <2>7. order \in Waiting <=> \E i \in Taken(orders) :
                                orders.slots[i].id = order /\ order \notin Executing
    BY DEF Waiting
  <2> QED  BY <2>5, <2>6, <2>7 DEF Waits
<1>2. IF Filled(order) THEN Cardinality(FilledBy(order)) = 1
                       ELSE Cardinality(FilledBy(order)) = 0
  <2>1. CASE Filled(order)
    <3>1. PICK id \in 1 .. Len(trades) : trades[id].order = order
      BY <2>1 DEF Filled
    <3>2. FilledBy(order) = {id}
      BY <1>0, <3>1 DEF FilledBy, OrdersOK, FatesOK
    <3> QED  BY <2>1, <3>2, FS_Singleton
  <2>2. CASE ~Filled(order)
    <3>1. FilledBy(order) = {}
      BY <1>0, <2>2 DEF FilledBy, Filled
    <3> QED  BY <2>2, <3>1, FS_EmptySet
  <2> QED  BY <2>1, <2>2
<1>3. /\ ~(Filled(order) /\ order \in refused \cup dropped)
      /\ ~(order \in refused /\ order \in dropped)
      /\ (Filled(order) \/ order \in refused \cup dropped) <=> ~Waits(order)
  BY DEF OrdersOK, FatesOK
<1> QED  BY <1>1, <1>2, <1>3

-----------------------------------------------------------------------------
(* Nothing stops the program.                                              *)

LEMMA TodoKept ==
  ASSUME Disciplined, Inv, Inv', ShapeOK, TodoOK, [Next]_vars PROVE TodoOK'
<1>1. ASSUME \A f : f.at = "trades" /\ f \in Walks(stack') => f \in Walks(stack),
             \A id : In(opened, id) => In(opened', id)
      PROVE  TodoOK'
  BY <1>1 DEF TodoOK
<1>2. (\A f \in Walks(stack') : f.at # "trades") => TodoOK'
  BY DEF TodoOK
<1>3. CASE AfterAbort \/ Return
  <2>1. opened' = opened
    BY <1>3, AbortAlters DEF Alters, Return, book
  <2> QED  BY <1>1, <1>3, <2>1, ReturnShape
<1>4. CASE TimedCallback
  BY <1>2, <1>4, TimedShape DEF Coming
<1>5. ASSUME NEW where \in {"enter", "trades", "finish"}, Top(where)
      PROVE  /\ \A g \in Walks(Rest) : g.at # "trades"
             /\ Walks(stack) = {Head(stack)} \cup Walks(Rest)
  <2>1. /\ Walks(stack) = {Head(stack)} \cup Walks(Rest)
        /\ \A g \in Calls(Rest) : g.at \in Coming
    BY <1>5, Tops DEF Returns
  <2> QED  BY <2>1 DEF Walks, Coming
<1>6. CASE EnterTrades
  <2> DEFINE f == [at |-> "trades", ev |-> Ev, todo |-> opened]
  <2>1. Walks(stack') = {f} \cup Walks(Rest) /\ f.todo = opened /\ opened' = opened
    BY <1>6, EnterTradesShape DEF EnterTrades, book
  <2> HIDE DEF f
  <2>2. Increasing(opened)
    BY DEF Inv, BookOK
  <2>3. \A g \in Walks(Rest) : g.at # "trades"
    BY <1>5, <1>6 DEF EnterTrades
  <2>4. \A k \in 1 .. Len(opened) : In(opened, opened[k])
    BY DEF In
  <2> QED  BY <2>1, <2>2, <2>3, <2>4 DEF TodoOK
<1>7. CASE CheckTrade
  <2> DEFINE s == Head(stack).todo
             n == Head(s)
             t == Tail(s)
  <2>1. /\ \A g \in Walks(Rest) : g.at # "trades"
        /\ Head(stack) \in Walks(stack) /\ Head(stack).at = "trades"
    BY <1>5, <1>7, LookedAt DEF CheckTrade
  <2>2. /\ s \in Seq(Nat) /\ s # <<>> /\ Looked.todo = t
    BY <1>7, LookedAt
  <2>3. Increasing(s) /\ \A k \in 1 .. Len(s) : In(opened, s[k])
    BY <2>1 DEF TodoOK
  <2>4. /\ n = s[1] /\ Len(t) = Len(s) - 1 /\ Len(s) \in Nat \ {0}
        /\ \A k \in 1 .. Len(t) : t[k] = s[k + 1]
    BY <2>2, HeadTailProperties, EmptySeq
  <2>5. \A k \in 1 .. Len(s) : s[k] \in Nat
    BY <2>2, ElementOfSeq
  <2>6. CASE UNCHANGED opened /\ Walks(stack') = Walks(stack)
    BY <1>1, <2>6
  <2> HIDE DEF s, n, t
  <2>7. \A k \in 1 .. Len(t) : k + 1 \in 1 .. Len(s) /\ 1 \in 1 .. Len(s) /\ 1 < k + 1
    BY <2>4
  <2>8. Increasing(t)
    <3> SUFFICES ASSUME NEW i \in 1 .. Len(t), NEW j \in 1 .. Len(t), i < j PROVE t[i] < t[j]
      BY DEF Increasing
    <3>1. i + 1 < j + 1
      OBVIOUS
    <3> QED  BY <2>3, <2>4, <2>7, <3>1 DEF Increasing
  <2>9. \A k \in 1 .. Len(t) : In(opened, t[k]) /\ t[k] # n
    <3> SUFFICES ASSUME NEW k \in 1 .. Len(t) PROVE In(opened, t[k]) /\ t[k] # n
      OBVIOUS
    <3>1. s[1] < s[k + 1] /\ In(opened, s[k + 1])
      BY <2>3, <2>7 DEF Increasing
    <3> QED  BY <2>4, <2>5, <2>7, <3>1
  <2>10. ASSUME Walks(stack') = {Looked} \cup Walks(Rest),
                \A id : In(opened, id) /\ id # n => In(opened', id)
         PROVE  TodoOK'
    BY <2>1, <2>2, <2>8, <2>9, <2>10 DEF TodoOK
  <2>11. ASSUME NEW reason, Sells(n, reason)
         PROVE  \A id : In(opened, id) /\ id # n => In(opened', id)
    BY <2>11 DEF Sells
  <2>12. \A id : In(opened, id) /\ id # n => In(opened', id)
    BY <1>7, <2>11, CheckSells DEF s, n
  <2>13. UNCHANGED opened \/ Walks(stack') = {Looked} \cup Walks(Rest)
    <3>1. n \in Nat
      BY <2>4, <2>5, <2>7
    <3> QED  BY <1>7, <3>1, CheckSells, LookedAt, CalledOn DEF s, n
  <2> QED  BY <1>7, <2>6, <2>10, <2>12, <2>13, CheckTradeShape
<1>8. CASE LeaveTrades \/ FinishBar
  BY <1>2, <1>5, <1>8, PopShape DEF LeaveTrades, FinishBar
<1>9. CASE EnterOrders \/ PassOrder \/ ExecuteOrder \/ CleanOrder \/ LeaveOrders
  BY <1>2, <1>9, OrdersOnly
<1>10. CASE Strategy
  <2>1. Walks(stack') = Walks(stack)
    BY <1>10, StrategyShape
  <2>2. CASE \E n \in DOMAIN trades : CloseNow(n)
    <3>1. ~InLoop("trades")
      BY <2>2 DEF CloseNow, MayDo, Disciplined
    <3> QED  BY <1>2, <2>1, <3>1, Loops DEF Returns
  <2>3. ASSUME NEW long, NEW order, Buys(long, order)
        PROVE  \A id : In(opened, id) => In(opened', id)
    BY <2>3 DEF Buys
  <2>4. CASE \E long \in Sides, shares \in 1..MaxShares, sl \in Levels, tp \in TakeProfits :
               OpenNow(long, shares, sl, tp)
    BY <1>1, <2>1, <2>3, <2>4, OpenBuys
  <2>5. CASE UNCHANGED opened
    BY <1>1, <2>1, <2>5
  <2> QED
    BY <1>10, <2>2, <2>4, <2>5 DEF Strategy, MoveStops, PlaceOrder, DropOrders, Fail, book
<1>11. CASE Market
  BY <1>2, <1>11, MarketShape DEF Coming
<1>12. CASE UNCHANGED vars
  BY <1>1, <1>12 DEF vars
<1> QED
  BY <1>3, <1>4, <1>6, <1>7, <1>8, <1>9, <1>10, <1>11, <1>12 DEF Next, Step, Terminated

\* The orders have no take profits.
LEMMA NoTakeProfits ==
  ASSUME Disciplined, NEW od \in Orders
  PROVE  od.tp = 0 /\ od.sl \in Nat /\ od.lvl \in Nat /\ od.long \in BOOLEAN
<1>1. od.id \in 1 .. MaxOrders /\ od.tp \in TakeProfits
  BY DEF Orders
<1>2. MaxOrders # 0
  BY <1>1
<1>3. od.tp = 0
  BY <1>1, <1>2 DEF Disciplined
<1>4. od.sl \in Levels /\ od.lvl \in Prices /\ od.long \in Sides
  BY DEF Orders
<1>5. MaxPrice \in Nat /\ Sides \subseteq BOOLEAN
  BY PriceAssumption, SideAssumption
<1> QED  BY <1>3, <1>4, <1>5 DEF Levels, Prices

LEMMA PlacedKept ==
  ASSUME Disciplined, Inv, ShapeOK, OrdersOK, PlacedOK, [Next]_vars PROVE PlacedOK'
<1>0. orders.slots \in Slots /\ CountExact(orders)
  BY DEF Inv, DataOK, Slots, OrdersOK, StoreOK
<1>1. ASSUME \A i \in Taken(orders') :
               i \in Taken(orders) /\ orders'.slots[i] = orders.slots[i]
      PROVE  PlacedOK'
  BY <1>1 DEF PlacedOK
<1>2. CASE UNCHANGED orders
  BY <1>1, <1>2
<1>3. CASE CleanOrder
  <2> DEFINE i == Head(stack).i
  <2>1. /\ Walks(stack) = {Head(stack)} \cup Walks(Rest) /\ Head(stack).at = "executed"
    BY <1>3, OrdersWalk DEF CleanOrder
  <2>2. i \in Taken(orders)
    BY <2>1 DEF OrdersOK, ExecutedOK
  <2>3. orders' = DropIdx(orders, i) \/ UNCHANGED orders
    BY <1>3 DEF CleanOrder, Fail
  <2> HIDE DEF i
  <2>4. \A j \in Taken(DropIdx(orders, i)) :
          j \in Taken(orders) /\ DropIdx(orders, i).slots[j] = orders.slots[j]
    BY <1>0, <2>2, DroppedFrom
  <2> QED  BY <1>1, <1>2, <2>3, <2>4
<1>4. CASE DropOrders
  BY <1>0, <1>1, <1>4, DroppedAll DEF DropOrders
<1>5. ASSUME NEW od \in Orders, PlaceOrder(od) PROVE PlacedOK'
  <2>1. CASE orders' = AddNew(orders, od)
    <3>1. PICK k \in Nat :
            /\ k \notin Taken(orders) /\ Taken(orders') = Taken(orders) \cup {k}
            /\ orders'.slots[k] = od
            /\ \A i \in Taken(orders) : orders'.slots[i] = orders.slots[i]
      BY <1>0, <2>1, AddedTo
    <3>2. StopsFit(od.long, od.lvl, od.sl, od.tp)
      BY <1>5 DEF PlaceOrder
    <3> QED  BY <3>1, <3>2 DEF PlacedOK
  <2> QED  BY <1>2, <1>5, <2>1 DEF PlaceOrder, Fail
<1>6. CASE AfterAbort \/ CheckTrade \/ ExecuteOrder
  <2>1. AfterAbort \/ CheckTrade => UNCHANGED orders
    BY CheckSells DEF AfterAbort
  <2>2. ExecuteOrder => UNCHANGED orders
    BY DEF ExecuteOrder, SendOpen, Fail
  <2> QED  BY <1>2, <1>6, <2>1, <2>2
<1>7. CASE Step /\ ~(AfterAbort \/ CheckTrade \/ ExecuteOrder \/ CleanOrder)
  BY <1>2, <1>7 DEF Step, TimedCallback, EnterTrades, LeaveTrades, EnterOrders, PassOrder,
                    LeaveOrders, FinishBar, Return, Fail
<1>8. CASE Strategy
  BY <1>2, <1>4, <1>5, <1>8, OpenBuys, CloseSells DEF Strategy, MoveStops
<1>9. CASE Market \/ UNCHANGED vars
  BY <1>2, <1>9 DEF Market, OpenBar, CloseBar, NotifyDateTime, vars
<1> QED  BY <1>3, <1>6, <1>7, <1>8, <1>9 DEF Next, Terminated

LEMMA NoFaultKept ==
  ASSUME Disciplined, Inv, ShapeOK, OrdersOK, TodoOK, PlacedOK, NoFault, [Next]_vars
  PROVE  NoFault'
<1>1. CASE UNCHANGED fault
  BY <1>1 DEF NoFault
<1>2. ASSUME NEW long, NEW shares, NEW sl, NEW tp, NEW order, NEW rest,
             SendOpen(long, shares, sl, tp, order, rest),
             StopsFit(long, IF long THEN ask ELSE bid, sl, tp)
      PROVE  NoFault'
  BY <1>1, <1>2 DEF SendOpen
<1>3. CASE CheckTrade
  <2> DEFINE s == Head(stack).todo
             n == Head(s)
  <2>1. /\ s \in Seq(Nat) /\ s # <<>> /\ Head(stack) \in Walks(stack)
        /\ Head(stack).at = "trades"
    BY <1>3, LookedAt
  <2>2. n = s[1] /\ 1 \in 1 .. Len(s)
    BY <2>1, HeadTailProperties, EmptySeq
  <2> HIDE DEF n
  <2>3. In(opened, n)
    BY <2>1, <2>2 DEF TodoOK
  <2>4. SomethingInMarket(trades[n].rec)
    BY <2>3 DEF Inv, BookOK, Live, SomethingInMarket, Finished
  <2> QED  BY <1>1, <1>3, <2>4 DEF CheckTrade, SendClose, Fail, NoFault, n
<1>4. CASE PassOrder
  BY <1>1, <1>4 DEF PassOrder, Fail, NoFault
<1>5. CASE ExecuteOrder
  <2> DEFINE od == orders.slots[Head(stack).i]
  <2>1. od \in Orders /\ Head(stack).i \in Taken(orders) /\ Ev \in Event /\ Triggered(od, Ev)
    BY <1>5, ExecuteBuys, OrdersWalk DEF ExecuteOrder
  <2>2. StopsFit(od.long, od.lvl, od.sl, od.tp)
    BY <2>1 DEF PlacedOK
  <2>3. Ev.l \in Nat /\ Ev.h \in Nat
    BY <2>1 DEF Event, Positive
  <2>4. od.tp = 0 /\ od.sl \in Nat /\ od.lvl \in Nat /\ od.long \in BOOLEAN
    BY <2>1, NoTakeProfits
  <2> HIDE DEF od
  <2>5. ASSUME <<bid, ask>> = Spread(Ev)
        PROVE  StopsFit(od.long, IF od.long THEN ask ELSE bid, od.sl, od.tp)
    <3>1. bid = Ev.l /\ ask = IF Ev.h = Ev.l THEN Ev.h + 1 ELSE Ev.h
      BY <2>5 DEF Spread
    <3>2. IF od.long THEN ask > od.lvl ELSE bid < od.lvl
      BY <2>1, <2>3, <2>4, <3>1 DEF Triggered
    <3>3. ask \in Nat /\ bid \in Nat
      BY <2>3, <3>1
    <3> QED  BY <2>2, <2>4, <3>2, <3>3 DEF StopsFit
  <2>6. \/ UNCHANGED fault
        \/ /\ <<bid, ask>> = Spread(Ev)
           /\ SendOpen(od.long, od.shares, od.sl, od.tp, od.id, <<Sent>> \o Rest)
    BY <1>5 DEF ExecuteOrder, Sent, od
  <2> QED  BY <1>1, <1>2, <2>5, <2>6
<1>6. CASE CleanOrder
  BY <1>6, OrderCleaned DEF NoFault
<1>7. CASE Step /\ ~(CheckTrade \/ PassOrder \/ ExecuteOrder \/ CleanOrder)
  BY <1>1, <1>7 DEF Step, AfterAbort, TimedCallback, EnterTrades, LeaveTrades, EnterOrders,
                    LeaveOrders, FinishBar, Return
<1>8. CASE Strategy
  <2>1. ASSUME NEW od \in Orders, PlaceOrder(od) PROVE UNCHANGED fault
    <3>1. ~InLoop("executed")
      BY <2>1, OneLoop DEF PlaceOrder, MayDo, Disciplined
    <3> QED  BY <2>1, <3>1 DEF PlaceOrder
  <2>2. CASE \E long \in Sides, shares \in 1..MaxShares, sl \in Levels, tp \in TakeProfits :
               OpenNow(long, shares, sl, tp)
    BY <1>2, <2>2 DEF OpenNow
  <2>3. CASE \E n \in DOMAIN trades : CloseNow(n)
    BY <1>1, <2>3, CloseSells
  <2> QED  BY <1>1, <1>8, <2>1, <2>2, <2>3 DEF Strategy, MoveStops, DropOrders
<1>9. CASE Market \/ UNCHANGED vars
  BY <1>1, <1>9 DEF Market, OpenBar, CloseBar, NotifyDateTime, vars
<1> QED  BY <1>3, <1>4, <1>5, <1>6, <1>7, <1>8, <1>9 DEF Next, Terminated

-----------------------------------------------------------------------------
(* The results.                                                            *)

LEMMA WalksInit == Init => WalksInv
<1> SUFFICES ASSUME Init PROVE WalksInv
  OBVIOUS
<1>1. /\ trades = <<>> /\ opened = <<>> /\ stack = <<>> /\ orders.slots = <<>>
      /\ orders.total = 0 /\ issued = 0 /\ dropped = {} /\ refused = {} /\ fault = "none"
  BY DEF Init, EmptyStore
<1>2. Len(trades) = 0 /\ Len(opened) = 0 /\ Calls(stack) = {} /\ Walks(stack) = {} /\ Nested(stack)
  BY <1>1, NoCalls, EmptySeq
<1>3. ShapeOK
  BY <1>2 DEF ShapeOK, CalledFrom
<1>4. PricedOK /\ HonouredOK /\ TodoOK
  BY <1>2 DEF PricedOK, UnaskedOK, AtPricesOK, HonouredOK, TodoOK
<1>5. Taken(orders) = {}
  BY <1>1 DEF Taken
<1>6. PlacedOK /\ NoFault
  BY <1>1, <1>5 DEF PlacedOK, NoFault
<1>7. OrdersOK
  <2>1. StoreOK
    BY <1>1, <1>5, FS_EmptySet DEF StoreOK, CountExact
  <2>2. ExecutedOK
    BY <1>2 DEF ExecutedOK
  <2>3. FatesOK
    <3>1. 1 .. issued = {}
      BY <1>1
    <3> QED  BY <1>1, <1>2, <3>1 DEF FatesOK
  <2> QED  BY <2>1, <2>2, <2>3 DEF OrdersOK
<1> QED  BY <1>3, <1>4, <1>6, <1>7 DEF WalksInv

LEMMA WalksKept == Inv /\ Inv' /\ WalksInv /\ [Next]_vars => WalksInv'
<1> SUFFICES ASSUME Inv, Inv', WalksInv, [Next]_vars PROVE WalksInv'
  OBVIOUS
<1>1. ShapeOK /\ PricedOK
  BY DEF WalksInv
<1>2. ShapeOK' /\ PricedOK'
  BY <1>1, ShapeKept, UnaskedKept, AtPricesKept DEF PricedOK
<1>3. NoMoves => HonouredOK'
  BY <1>1, HonouredKept DEF WalksInv
<1>4. NoDrops => OrdersOK'
  BY <1>1, OrdersKept DEF WalksInv
<1>5. Disciplined => NoDrops
  BY DEF Disciplined, NoDrops
<1>6. Disciplined => TodoOK' /\ PlacedOK' /\ NoFault'
  BY <1>1, <1>5, TodoKept, PlacedKept, NoFaultKept DEF WalksInv
<1> QED  BY <1>2, <1>3, <1>4, <1>6 DEF WalksInv

\* The pending calls are one handler of one event with the calls of the strategy on
\* top, and what is known of the trades, the orders and the faults in the middle of
\* them, under what discipline of the strategy.
THEOREM WalksInvariant == Spec => [](Inv /\ WalksInv)
<1>1. Init => Inv /\ WalksInv
  BY InvInit, WalksInit
<1>2. (Inv /\ WalksInv) /\ [Next]_vars => (Inv /\ WalksInv)'
  BY NextKeeps, WalksKept
<1> QED  BY <1>1, <1>2, PTL DEF Spec

\* A stop order enters beyond its level and a stop loss leaves at its level or beyond,
\* whatever the strategy does in its callbacks.
THEOREM FillsArePessimistic == Spec => PessimisticFills
<1>1. (Inv /\ WalksInv) /\ [Next]_vars => [Pessimistic]_vars
  BY NextKeeps, FillsStep DEF WalksInv, PricedOK
<1> QED  BY <1>1, WalksInvariant, PTL DEF Spec, PessimisticFills

\* If levels are not moved in the callbacks of the loops, no trade that a bar has
\* found open survives it although the bar has reached one of its levels.
THEOREM StopsAreHonoured == ASSUME NoMoves PROVE Spec => []StopsHonoured
<1>1. Inv /\ WalksInv => StopsHonoured
  BY NoMoves, HonouredFinish DEF WalksInv
<1> QED  BY <1>1, WalksInvariant, PTL

\* If stop orders are not removed from inside the loop over them, every order that
\* was ever placed waits, or has exactly one fate: it has made one trade, was removed
\* or was refused.
THEOREM OrdersAreAccounted == ASSUME NoDrops PROVE Spec => []OrdersAccounted
<1>1. Inv /\ WalksInv => OrdersAccounted
  BY NoDrops, Accounted DEF WalksInv
<1> QED  BY <1>1, WalksInvariant, PTL

\* Under the discipline nothing but a bar that cannot be resolved stops the program.
THEOREM NothingStopsIt == ASSUME Disciplined PROVE Spec => []NoFault
<1>1. Inv /\ WalksInv => NoFault
  BY Disciplined DEF WalksInv
<1> QED  BY <1>1, WalksInvariant, PTL
=============================================================================
