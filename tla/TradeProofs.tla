---------------------------- MODULE TradeProofs ----------------------------
(***************************************************************************)
(* Proofs about Trade for every bound on the volumes and both sides: type  *)
(* correctness, the safety invariants and the step property, all from one  *)
(* inductive invariant, and the refinement of Position.                    *)
(***************************************************************************)
EXTENDS Trade, TLAPS

\* A new trade satisfies the invariant.
LEMMA InitIInv == Init => IInv
  BY SharesAssumption, SidesAssumption
  DEF Init, IInv, TypeOK, VolumeBalance, ClosedIsFlat, AttachedUntilFinished,
      AbortOnce, StateShape, NewTrade, TradeRecords, TradeStates,
      FailureCodes, CloseReasons, IsFailed

\* The verdict on a deal is one of the failure codes.
LEMMA VerdictType ==
  ASSUME NEW t, NEW d PROVE DealVerdict(t, d) \in FailureCodes
  BY DEF DealVerdict, VolumeVerdict, FailureCodes

\* Booking keeps a trade a trade.
LEMMA BookedType ==
  ASSUME NEW t \in TradeRecords, NEW d \in Deals
  PROVE  Booked(t, d) \in TradeRecords
<1>1. d.isLong \in BOOLEAN /\ d.vol \in Nat
  BY SharesAssumption DEF Deals
<1>2. VolumeAfter(t, d) \in Int
  BY <1>1 DEF VolumeAfter, TradeRecords
<1> DEFINE open_ == IF DuringOpening(t) THEN t.dealsOpen + d.vol ELSE t.dealsOpen
           close_ == IF DuringOpening(t) THEN t.dealsClose ELSE t.dealsClose + d.vol
           vol_ == IF WrongDirection(t, d) THEN t.inMarket ELSE VolumeAfter(t, d)
           state_ == IF ClosesFully(t, d) THEN "Closed"
                     ELSE IF OpensFully(t, d) THEN "inMarket"
                     ELSE IF DuringOpening(t) THEN "Opening" ELSE "Closing"
           att_ == ~ClosesFully(t, d)
<1>3. /\ open_ \in Nat /\ close_ \in Nat /\ vol_ \in Int
      /\ state_ \in TradeStates /\ att_ \in BOOLEAN
  BY <1>1, <1>2 DEF TradeRecords, TradeStates
<1>4. BookDeal(t, d) = [t EXCEPT !.dealsOpen = open_, !.dealsClose = close_,
                                 !.inMarket = vol_, !.state = state_,
                                 !.attached = att_]
  BY DEF BookDeal
<1> HIDE DEF open_, close_, vol_, state_, att_
<1>5. BookDeal(t, d) \in TradeRecords
  BY <1>3, <1>4 DEF TradeRecords
<1> QED
  BY <1>5 DEF Booked

\* Marking a failure keeps a trade a trade.
LEMMA MarkFailedType ==
  ASSUME NEW t \in TradeRecords, NEW c \in FailureCodes
  PROVE  /\ MarkFailed(t, c) \in TradeRecords
         /\ Detach(MarkFailed(t, c)) \in TradeRecords
  BY DEF MarkFailed, Detach, TradeRecords

\* What a failure leaves of a trade, field by field.
LEMMA FailedFields ==
  ASSUME NEW t \in TradeRecords, NEW c \in FailureCodes
  PROVE  LET r == Detach(MarkFailed(t, c)) IN
         /\ r.state = t.state /\ r.isLong = t.isLong
         /\ r.planned = t.planned /\ r.inMarket = t.inMarket
         /\ r.dealsOpen = t.dealsOpen /\ r.dealsClose = t.dealsClose
         /\ r.failure = (IF t.failure = "NoFailure" THEN c ELSE t.failure)
         /\ r.reason = (IF t.reason = "UNDEFINED" THEN "ABORTED" ELSE t.reason)
         /\ r.attached = FALSE
  BY DEF Detach, MarkFailed, TradeRecords

\* What a booked deal leaves of a trade, field by field.
LEMMA BookedFields ==
  ASSUME NEW t \in TradeRecords, NEW d \in Deals, Expecting(t),
         NEW r, r = Booked(t, d)
  PROVE  /\ r.isLong = t.isLong /\ r.planned = t.planned
         /\ r.failure = t.failure /\ r.reason = t.reason
         /\ r.dealsOpen = IF DuringOpening(t) THEN t.dealsOpen + d.vol
                                              ELSE t.dealsOpen
         /\ r.dealsClose = IF DuringOpening(t) THEN t.dealsClose
                                               ELSE t.dealsClose + d.vol
         /\ r.inMarket = IF WrongDirection(t, d) THEN t.inMarket
                                                 ELSE VolumeAfter(t, d)
         /\ r.state = IF ClosesFully(t, d) THEN "Closed"
                      ELSE IF OpensFully(t, d) THEN "inMarket"
                      ELSE IF DuringOpening(t) THEN "Opening" ELSE "Closing"
         /\ r.attached <=> ~ClosesFully(t, d)
  BY DEF Booked, BookDeal, TradeRecords

-----------------------------------------------------------------------------
(* Each action preserves the inductive invariant.                          *)

\* Whatever way a trade fails: b is the trade as the failing callback leaves
\* it before _failed() marks it, and a closed trade is left as it was.
LEMMA FailingStep ==
  ASSUME IInv,
         NEW b \in TradeRecords, NEW c \in FailureCodes \ {"NoFailure"},
         trd' = Detach(MarkFailed(b, c)),
         aborts' = IF trd.attached THEN aborts + 1 ELSE aborts,
         b.state = "Closed" <=> trd.state = "Closed",
         trd.state = "Closed" => b = trd,
         b.planned = trd.planned, b.failure = trd.failure
  PROVE  IInv'
<1>1. trd' \in TradeRecords
  BY MarkFailedType
<1>2. /\ trd'.state = b.state /\ trd'.planned = b.planned
      /\ trd'.inMarket = b.inMarket /\ trd'.dealsOpen = b.dealsOpen
      /\ trd'.dealsClose = b.dealsClose /\ trd'.attached = FALSE
      /\ trd'.failure = IF b.failure = "NoFailure" THEN c ELSE b.failure
      /\ trd'.reason = IF b.reason = "UNDEFINED" THEN "ABORTED" ELSE b.reason
  <2>1. c \in FailureCodes
    OBVIOUS
  <2> QED
    BY <2>1, FailedFields
<1>3. trd'.failure # "NoFailure" /\ ~trd'.attached
  BY <1>2
<1>5. VolumeBalance' /\ StateShape'
  BY <1>2, <1>3 DEF IInv, VolumeBalance, StateShape, IsFailed
<1>6. ClosedIsFlat'
  BY <1>2 DEF IInv, ClosedIsFlat, CloseReasons
<1>7. AttachedUntilFinished'
  BY <1>3 DEF AttachedUntilFinished, IsFailed
<1>8. AbortOnce'
  <2>1. CASE trd.state = "Closed"
    <3>1. ~trd.attached /\ aborts = 0 /\ trd'.state = "Closed"
      BY <1>2, <2>1 DEF IInv, AttachedUntilFinished, AbortOnce
    <3> QED BY <3>1 DEF AbortOnce
  <2>2. CASE trd.state # "Closed" /\ IsFailed(trd)
    <3>1. ~trd.attached /\ aborts = 1 /\ trd'.state # "Closed"
      BY <1>2, <2>2 DEF IInv, AttachedUntilFinished, AbortOnce
    <3> QED BY <1>3, <3>1 DEF AbortOnce, IsFailed
  <2>3. CASE trd.state # "Closed" /\ ~IsFailed(trd)
    <3>1. trd.attached /\ aborts = 0 /\ trd'.state # "Closed"
      BY <1>2, <2>3 DEF IInv, AttachedUntilFinished, AbortOnce
    <3> QED BY <1>3, <3>1 DEF AbortOnce, IsFailed
  <2> QED BY <2>1, <2>2, <2>3
<1>9. TypeOK'
  BY <1>1, <1>8 DEF TypeOK, AbortOnce
<1> QED
  BY <1>5, <1>6, <1>7, <1>8, <1>9 DEF IInv

\* A deal nobody waits for only fails the trade.
LEMMA UnexpectedDealStep ==
  ASSUME IInv, NEW d \in Deals, DealDone(d), ~Expecting(trd) PROVE IInv'
<1>1. DealVerdict(trd, d) = "unexpectedDeal"
  BY DEF DealVerdict
<1>2. trd' = Detach(MarkFailed(trd, "unexpectedDeal"))
  BY <1>1 DEF DealDone, AfterDealDone, Booked
<1>3. aborts' = IF trd.attached THEN aborts + 1 ELSE aborts
  BY <1>1 DEF DealDone, AbortsAfter
<1>4. trd \in TradeRecords /\ "unexpectedDeal" \in FailureCodes \ {"NoFailure"}
  BY DEF IInv, TypeOK, FailureCodes
<1> QED
  BY <1>2, <1>3, <1>4, FailingStep

\* A deal the trade waits for and finds nothing wrong with: a fill that stays
\* between nothing and the planned volume, or hits the end of its phase.
LEMMA AcceptedDealStep ==
  ASSUME IInv, NEW d \in Deals, DealDone(d), Expecting(trd),
         DealVerdict(trd, d) = "NoFailure"
  PROVE  IInv'
<1> DEFINE v == VolumeAfter(trd, d)
<1>1. trd' = Booked(trd, d) /\ aborts' = aborts
  BY DEF DealDone, AfterDealDone, AbortsAfter
<1>2. d.isLong \in BOOLEAN /\ d.vol \in Nat \ {0}
  BY SharesAssumption DEF Deals
<1>3. trd \in TradeRecords
  BY DEF IInv, TypeOK
<1>4. trd' \in TradeRecords
  BY <1>1, <1>3, BookedType
<1>5a. ~WrongDirection(trd, d) /\ ~IsFailed(trd) /\ trd.attached
  BY DEF DealVerdict, Expecting, DuringOpening, DuringClosing, Finished
<1>5b. v \in Int
  BY <1>2, <1>3 DEF VolumeAfter, TradeRecords
<1>5c. /\ v = 0 => DuringClosing(trd)
       /\ v # 0 /\ v = trd.planned => DuringOpening(trd)
       /\ v # 0 /\ v # trd.planned => ~(v < 0) /\ ~(v > trd.planned)
  BY <1>5a DEF DealVerdict, VolumeVerdict
<1>5. v \in 0..trd.planned
  BY <1>3, <1>5b, <1>5c DEF TradeRecords
<1>6. CASE DuringOpening(trd)
  <2>1. trd.isLong = d.isLong /\ trd.dealsClose = 0
        /\ trd.state \in {"PendingOpen", "Opening"} /\ ~DuringClosing(trd)
    BY <1>2, <1>3, <1>5a, <1>6 DEF WrongDirection, DuringOpening, DuringClosing,
                            IInv, StateShape, TradeRecords
  <2>2. trd.isLong /\ v = trd.inMarket + d.vol
    <3>1. trd.state = "PendingOpen" => trd.inMarket = 0
      BY <1>3, <1>5a, <2>1
      DEF IInv, VolumeBalance, StateShape, TradeRecords
    <3>2. trd.state = "Opening" => trd.isLong
      BY <1>5a DEF IInv, StateShape
    <3>3. v = trd.inMarket + (IF d.isLong THEN d.vol ELSE -d.vol)
      BY DEF VolumeAfter
    <3> QED
      BY <1>2, <1>5, <2>1, <3>1, <3>2, <3>3
  <2>3. /\ trd'.isLong = trd.isLong /\ trd'.planned = trd.planned
        /\ trd'.failure = trd.failure /\ trd'.inMarket = v
        /\ trd'.dealsOpen = trd.dealsOpen + d.vol
        /\ trd'.dealsClose = trd.dealsClose /\ trd'.attached
        /\ trd'.state = IF v = trd.planned THEN "inMarket" ELSE "Opening"
    BY <1>1, <1>3, <1>5a, <1>6, BookedFields DEF ClosesFully, OpensFully
  <2>4. /\ trd.inMarket = trd.dealsOpen /\ trd.inMarket \in 0..trd.planned
        /\ trd.planned \in Nat /\ trd.dealsOpen \in Nat /\ aborts = 0
    BY <1>3, <1>5a, <2>1
    DEF IInv, VolumeBalance, TradeRecords, AbortOnce, IsFailed
  <2>5. TypeOK' /\ AttachedUntilFinished' /\ AbortOnce' /\ ClosedIsFlat'
    BY <1>1, <1>4, <1>5a, <2>3, <2>4
    DEF TypeOK, AttachedUntilFinished, AbortOnce, ClosedIsFlat, IsFailed
  <2>6. VolumeBalance'
    BY <1>2, <1>5, <2>1, <2>2, <2>3, <2>4 DEF VolumeBalance
  <2>7. StateShape'
    BY <1>2, <1>5, <1>5a, <2>1, <2>2, <2>3, <2>4 DEF IInv, StateShape, IsFailed
  <2> QED
    BY <2>5, <2>6, <2>7 DEF IInv
<1>7. CASE ~DuringOpening(trd)
  <2>1. DuringClosing(trd) /\ trd.state \in {"PendingClose", "Closing"}
    BY <1>7 DEF Expecting, DuringClosing
  <2>2. trd.isLong /\ ~d.isLong /\ v = trd.inMarket - d.vol
    BY <1>2, <1>3, <1>5a, <2>1
    DEF WrongDirection, VolumeAfter, IInv, StateShape, TradeRecords
  <2>3. /\ trd'.isLong = trd.isLong /\ trd'.planned = trd.planned
        /\ trd'.failure = trd.failure /\ trd'.inMarket = v
        /\ trd'.reason = trd.reason /\ trd'.dealsOpen = trd.dealsOpen
        /\ trd'.dealsClose = trd.dealsClose + d.vol
        /\ trd'.attached <=> v # 0
        /\ trd'.state = IF v = 0 THEN "Closed" ELSE "Closing"
    BY <1>1, <1>3, <1>5a, <1>7, BookedFields DEF ClosesFully, OpensFully
  <2>4. /\ trd.inMarket = trd.dealsOpen - trd.dealsClose
        /\ trd.inMarket \in 1..trd.planned /\ trd.reason \in CloseReasons
        /\ trd.planned \in Nat /\ trd.dealsOpen \in Nat
        /\ trd.dealsClose \in Nat /\ aborts = 0
    BY <1>3, <1>5a, <2>1
    DEF IInv, VolumeBalance, StateShape, TradeRecords, AbortOnce, IsFailed
  <2>5. TypeOK' /\ AttachedUntilFinished' /\ AbortOnce'
    BY <1>1, <1>4, <1>5a, <2>3, <2>4
    DEF TypeOK, AttachedUntilFinished, AbortOnce, IsFailed
  <2>6. VolumeBalance' /\ ClosedIsFlat'
    BY <1>2, <1>5, <2>2, <2>3, <2>4 DEF VolumeBalance, ClosedIsFlat
  <2>7. StateShape'
    BY <1>2, <1>5, <1>5a, <2>1, <2>2, <2>3, <2>4 DEF IInv, StateShape, IsFailed
  <2> QED
    BY <2>5, <2>6, <2>7 DEF IInv
<1> QED
  BY <1>6, <1>7

\* A deal the trade waits for and rejects: it is booked, and the trade fails.
LEMMA RejectedDealStep ==
  ASSUME IInv, NEW d \in Deals, DealDone(d), Expecting(trd),
         DealVerdict(trd, d) # "NoFailure"
  PROVE  IInv'
<1> DEFINE b == Booked(trd, d)
           c == DealVerdict(trd, d)
<1>1. trd' = Detach(MarkFailed(b, c))
      /\ aborts' = IF trd.attached THEN aborts + 1 ELSE aborts
  BY DEF DealDone, AfterDealDone, AbortsAfter
<1>2. trd \in TradeRecords /\ b \in TradeRecords
      /\ c \in FailureCodes \ {"NoFailure"}
  BY BookedType, VerdictType DEF IInv, TypeOK
<1>3. ~ClosesFully(trd, d)
  BY DEF DealVerdict, VolumeVerdict, Expecting, ClosesFully
<1>4. b.state # "Closed" /\ b.planned = trd.planned /\ b.failure = trd.failure
  BY <1>2, <1>3, BookedFields
<1>5. trd.state # "Closed"
  BY DEF Expecting, DuringOpening, DuringClosing
<1> HIDE DEF b, c
<1> QED
  BY <1>1, <1>2, <1>4, <1>5, FailingStep

LEMMA DealDoneStep ==
  ASSUME IInv, NEW d \in Deals, DealDone(d) PROVE IInv'
  BY UnexpectedDealStep, AcceptedDealStep, RejectedDealStep

\* A failed deal fails the trade, in the state of its phase.
LEMMA DealFailedStep ==
  ASSUME IInv, DealFailed PROVE IInv'
<1>1. trd \in TradeRecords
  BY DEF IInv, TypeOK
<1>2. aborts' = IF trd.attached THEN aborts + 1 ELSE aborts
  BY DEF DealFailed, AbortsAfter
<1>3. CASE DuringOpening(trd) \/ DuringClosing(trd)
  <2>1. PICK s \in {"OpenFailed", "CloseFailed"} :
          trd' = Detach(MarkFailed([trd EXCEPT !.state = s], "dealFailed"))
    BY <1>3 DEF DealFailed, AfterDealFailed
  <2> DEFINE b == [trd EXCEPT !.state = s]
  <2>2. /\ b \in TradeRecords /\ b.state = s /\ b.planned = trd.planned
        /\ b.failure = trd.failure
    BY <1>1 DEF TradeRecords, TradeStates
  <2>3. trd.state # "Closed" /\ "dealFailed" \in FailureCodes \ {"NoFailure"}
    BY <1>3 DEF DuringOpening, DuringClosing, FailureCodes
  <2>4. trd' = Detach(MarkFailed(b, "dealFailed"))
    BY <2>1
  <2> HIDE DEF b
  <2> QED
    BY <1>2, <2>2, <2>3, <2>4, FailingStep
<1>4. CASE ~DuringOpening(trd) /\ ~DuringClosing(trd)
  <2>1. trd' = Detach(MarkFailed(trd, "unexpectedDeal"))
    BY <1>4 DEF DealFailed, AfterDealFailed
  <2>2. "unexpectedDeal" \in FailureCodes \ {"NoFailure"}
    BY DEF FailureCodes
  <2> QED
    BY <1>1, <1>2, <2>1, <2>2, FailingStep
<1> QED
  BY <1>3, <1>4

\* A close request is only made of a trade that holds shares.
LEMMA CloseByMarketStep ==
  ASSUME IInv, NEW r \in CloseReasons, CloseByMarket(r) PROVE IInv'
<1>1. trd \in TradeRecords /\ trd.attached
      /\ trd.state \in {"inMarket", "Opening", "Closing"}
  BY DEF CloseByMarket, SomethingInMarket, Finished, IInv, TypeOK
<1>2. /\ trd' \in TradeRecords /\ trd'.state = "PendingClose"
      /\ trd'.reason = r /\ trd'.planned = trd.planned
      /\ trd'.inMarket = trd.inMarket /\ trd'.failure = trd.failure
      /\ trd'.attached = trd.attached /\ trd'.isLong = trd.isLong
      /\ trd'.dealsOpen = trd.dealsOpen /\ trd'.dealsClose = trd.dealsClose
  BY <1>1 DEF CloseByMarket, AfterCloseRequest, TradeRecords, TradeStates
<1>3. aborts' = aborts
  BY DEF CloseByMarket
<1>4. ~IsFailed(trd) /\ aborts = 0
  BY <1>1 DEF IInv, AttachedUntilFinished, AbortOnce
<1>5. /\ trd.isLong /\ trd.inMarket > 0 /\ trd.planned > 0
      /\ trd.inMarket = trd.dealsOpen - trd.dealsClose
      /\ trd.inMarket \in 0..trd.planned
  BY <1>1, <1>4 DEF IInv, StateShape, VolumeBalance, TradeRecords
<1>6. TypeOK' /\ VolumeBalance' /\ ClosedIsFlat'
  BY <1>2, <1>3, <1>5 DEF IInv, TypeOK, VolumeBalance, ClosedIsFlat
<1>7. AttachedUntilFinished' /\ AbortOnce'
  BY <1>1, <1>2, <1>3, <1>4 DEF AttachedUntilFinished, AbortOnce, IsFailed
<1>8. StateShape'
  BY <1>2, <1>4, <1>5 DEF StateShape, IsFailed
<1> QED
  BY <1>6, <1>7, <1>8 DEF IInv

\* IInv is inductive.
LEMMA IInvStep == IInv /\ [Next]_vars => IInv'
<1> SUFFICES ASSUME IInv, [Next]_vars PROVE IInv'
  OBVIOUS
<1>1. CASE \E d \in Deals : DealDone(d)
  BY <1>1, DealDoneStep
<1>2. CASE DealFailed
  BY <1>2, DealFailedStep
<1>3. CASE \E r \in CloseReasons : CloseByMarket(r)
  BY <1>3, CloseByMarketStep
<1>4. CASE UNCHANGED vars
  BY <1>4 DEF vars, IInv, TypeOK, VolumeBalance, ClosedIsFlat,
              AttachedUntilFinished, AbortOnce, StateShape
<1> QED
  BY <1>1, <1>2, <1>3, <1>4 DEF Next

-----------------------------------------------------------------------------
(* The theorems.                                                           *)

\* The invariant holds in every reachable state, for every bound on the
\* volumes and either side, under any executor.
THEOREM Invariant == Spec => []IInv
<1>1. Init => IInv
  BY InitIInv
<1>2. IInv /\ [Next]_vars => IInv'
  BY IInvStep
<1> QED
  BY <1>1, <1>2, PTL DEF Spec

\* The record of a trade keeps its type: volumes stay whole, the state and the
\* failure code stay among those of _tradeEnums.h.
THEOREM TypeCorrect == Spec => []TypeOK
<1>1. IInv => TypeOK
  BY DEF IInv
<1> QED
  BY <1>1, Invariant, PTL

\* The volume in the market is what the booked deals add up to.
THEOREM VolumesBalance == Spec => []VolumeBalance
<1>1. IInv => VolumeBalance
  BY DEF IInv
<1> QED
  BY <1>1, Invariant, PTL

\* A closed trade is flat, whatever the executor reports afterwards.
THEOREM ClosedTradesAreFlat == Spec => []ClosedIsFlat
<1>1. IInv => ClosedIsFlat
  BY DEF IInv
<1> QED
  BY <1>1, Invariant, PTL

\* A failed trade has asked for the clean-up exactly once.
THEOREM AbortedOnce == Spec => []AbortOnce
<1>1. IInv => AbortOnce
  BY DEF IInv
<1> QED
  BY <1>1, Invariant, PTL

\* closeByMarket always has something to sell.
THEOREM CloseableTradesHoldShares == Spec => []CloseableHoldsShares
<1>1. IInv => CloseableHoldsShares
  <2> SUFFICES ASSUME IInv, SomethingInMarket(trd) PROVE trd.inMarket > 0
    BY DEF CloseableHoldsShares
  <2>1. trd.attached /\ trd.state \in {"inMarket", "Opening", "Closing"}
    BY DEF SomethingInMarket, Finished
  <2>2. ~IsFailed(trd)
    BY <2>1 DEF IInv, AttachedUntilFinished
  <2>3. trd.planned \in Nat
    BY DEF IInv, TypeOK, TradeRecords
  <2> QED
    BY <2>1, <2>2, <2>3 DEF IInv, StateShape
<1> QED
  BY <1>1, Invariant, PTL

\* A trade keeps its executor exactly until it is closed or has failed.
THEOREM ExecutorsAreKept == Spec => []AttachedUntilFinished
<1>1. IInv => AttachedUntilFinished
  BY DEF IInv
<1> QED
  BY <1>1, Invariant, PTL

-----------------------------------------------------------------------------
(* The steps of a finished trade.                                          *)

\* Once a trade has no executor, reports only mark it, once, and there is
\* nothing to close.
LEMMA FinishedStep ==
  ASSUME IInv, Next, Finished(trd)
  PROVE  trd' = Detach(MarkFailed(trd, "unexpectedDeal")) /\ UNCHANGED aborts
<1>1. ~DuringOpening(trd) /\ ~DuringClosing(trd) /\ ~SomethingInMarket(trd)
      /\ ~trd.attached
  BY DEF DuringOpening, DuringClosing, SomethingInMarket, Finished
<1>2. ASSUME NEW d \in Deals, DealDone(d)
      PROVE  trd' = Detach(MarkFailed(trd, "unexpectedDeal")) /\ UNCHANGED aborts
  BY <1>1, <1>2 DEF DealDone, AfterDealDone, DealVerdict, Booked, Expecting,
                    AbortsAfter
<1>3. CASE DealFailed
  BY <1>1, <1>3 DEF DealFailed, AfterDealFailed, AbortsAfter
<1> QED
  BY <1>1, <1>2, <1>3 DEF Next, CloseByMarket

\* Whatever is reported of a finished trade, only its failure code and reason
\* may still be set, and a failed trade does not change at all.
THEOREM FinishedTradesAreFinal == Spec => FinishedIsFinal
<1> DEFINE A == /\ Finished(trd) =>
                     /\ trd' = [trd EXCEPT !.failure = trd'.failure,
                                           !.reason = trd'.reason]
                     /\ UNCHANGED aborts
                /\ IsFailed(trd) => UNCHANGED trd
<1>1. ASSUME IInv, [Next]_vars PROVE [A]_vars
  <2> SUFFICES ASSUME Next PROVE A
    BY <1>1
  <2>1. trd \in TradeRecords /\ (IsFailed(trd) => Finished(trd))
    BY <1>1 DEF IInv, TypeOK, AttachedUntilFinished, Finished, TradeRecords
  <2>2. CASE ~Finished(trd)
    BY <2>1, <2>2
  <2>3. CASE Finished(trd)
    <3>1. trd' = Detach(MarkFailed(trd, "unexpectedDeal")) /\ UNCHANGED aborts
      BY <1>1, <2>3, FinishedStep
    <3>2. trd.attached = FALSE
      BY <2>1, <2>3 DEF Finished, TradeRecords
    <3>3. trd' = [trd EXCEPT !.failure = trd'.failure, !.reason = trd'.reason]
      BY <2>1, <3>1, <3>2 DEF Detach, MarkFailed, TradeRecords
    <3>4. IsFailed(trd) => trd' = trd
      BY <1>1, <2>1, <3>1, <3>2
      DEF IInv, StateShape, IsFailed, Detach, MarkFailed, TradeRecords
    <3> QED
      BY <3>1, <3>3, <3>4
  <2> QED
    BY <2>2, <2>3
<1> QED
  BY <1>1, Invariant, PTL DEF Spec, FinishedIsFinal

-----------------------------------------------------------------------------
(* The fills of a long trade.                                              *)

\* Whatever fills a long trade is given in pieces, none that keeps within its
\* planned volume fails it.
THEOREM LongTradesAcceptFills == Spec => LongFillsAccepted
<1> DEFINE A == \A d \in Deals :
                  DealDone(d) /\ AskedFor(d) /\ trd.isLong => ~IsFailed(trd')
<1>1. ASSUME IInv PROVE A
  <2> SUFFICES ASSUME NEW d \in Deals, DealDone(d), AskedFor(d), trd.isLong
               PROVE  ~IsFailed(trd')
    OBVIOUS
  <2>1. /\ DuringOpening(trd) /\ ~DuringClosing(trd)
        /\ d.isLong /\ d.vol \in Nat \ {0}
        /\ trd.dealsOpen + d.vol <= trd.planned
    BY SharesAssumption
    DEF AskedFor, DuringOpening, DuringClosing, Deals
  <2>2. trd \in TradeRecords /\ ~IsFailed(trd)
    BY <1>1, <2>1
    DEF IInv, TypeOK, AttachedUntilFinished, DuringOpening, Finished
  <2>3. trd.inMarket = trd.dealsOpen /\ trd.dealsOpen \in Nat
    BY <1>1, <2>1, <2>2
    DEF IInv, VolumeBalance, StateShape, DuringOpening, TradeRecords
  <2>4. /\ VolumeAfter(trd, d) = trd.dealsOpen + d.vol
        /\ VolumeAfter(trd, d) > 0 /\ trd.planned \in Nat
    BY <2>1, <2>2, <2>3 DEF VolumeAfter, TradeRecords
  <2>5. VolumeVerdict(trd, VolumeAfter(trd, d)) = "NoFailure"
    BY <2>1, <2>3, <2>4 DEF VolumeVerdict
  <2>6. Expecting(trd) /\ ~WrongDirection(trd, d)
    <3>1. trd.isLong = TRUE /\ d.isLong = TRUE
      BY <2>1, <2>2 DEF TradeRecords, Deals
    <3> QED
      BY <2>1, <2>2, <3>1
      DEF Expecting, WrongDirection, DuringOpening, DuringClosing
  <2>7. trd' = Booked(trd, d)
    BY <2>5, <2>6 DEF DealDone, AfterDealDone, DealVerdict
  <2>8. trd'.failure = trd.failure
    BY <2>2, <2>6, <2>7, BookedFields
  <2> QED
    BY <2>2, <2>8 DEF IsFailed
<1>2. ASSUME IInv PROVE [A]_vars
  BY <1>1, <1>2
<1> QED
  BY <1>2, Invariant, PTL DEF LongFillsAccepted

-----------------------------------------------------------------------------
(* A trade implements the position it stands for.                          *)

\* Every way to fail breaks the position, or leaves it broken or out.
LEMMA FailingRefines ==
  ASSUME IInv,
         NEW b \in TradeRecords, NEW c \in FailureCodes \ {"NoFailure"},
         trd' = Detach(MarkFailed(b, c)),
         b.state = "Closed" <=> trd.state = "Closed",
         trd.state = "Closed" \/ IsFailed(trd) => b.inMarket = trd.inMarket,
         b.planned = trd.planned, b.failure = trd.failure
  PROVE  [P!Next]_(P!vars)
<1>1. c \in FailureCodes
  OBVIOUS
<1>2. /\ trd'.state = b.state /\ trd'.planned = b.planned
      /\ trd'.inMarket = b.inMarket /\ trd'.inMarket \in Int
      /\ trd'.failure = IF b.failure = "NoFailure" THEN c ELSE b.failure
  BY <1>1, FailedFields DEF TradeRecords
<1>3. IsFailed(trd')
  BY <1>2 DEF IsFailed
<1>4. CASE trd.state = "Closed" \/ IsFailed(trd)
  <2>1. PhaseOf(trd') = PhaseOf(trd) /\ trd'.inMarket = trd.inMarket
    BY <1>2, <1>3, <1>4 DEF PhaseOf
  <2> QED
    BY <1>2, <2>1 DEF P!vars
<1>5. CASE trd.state # "Closed" /\ ~IsFailed(trd)
  <2>1. PhaseOf(trd') = "broken" /\ PhaseOf(trd) \in {"entering", "in", "leaving"}
    BY <1>2, <1>3, <1>5 DEF PhaseOf
  <2> QED
    BY <1>2, <2>1 DEF P!Next, P!Break
<1> QED
  BY <1>4, <1>5

\* A deal that is accepted enters or leaves the position.
LEMMA AcceptedDealRefines ==
  ASSUME IInv, NEW d \in Deals, DealDone(d), Expecting(trd),
         DealVerdict(trd, d) = "NoFailure"
  PROVE  [P!Next]_(P!vars)
<1>1. IInv'
  BY AcceptedDealStep
<1>2. trd' = Booked(trd, d)
  BY DEF DealDone, AfterDealDone
<1>3. /\ trd \in TradeRecords /\ trd' \in TradeRecords
      /\ d.isLong \in BOOLEAN /\ d.vol \in Nat \ {0}
  BY <1>1, SharesAssumption DEF IInv, TypeOK, Deals
<1>4. /\ ~WrongDirection(trd, d) /\ ~IsFailed(trd)
      /\ (DuringOpening(trd) \/ DuringClosing(trd))
  BY DEF DealVerdict, Expecting
<1>5. /\ trd'.planned = trd.planned /\ trd'.failure = trd.failure
      /\ trd'.isLong = trd.isLong
      /\ trd'.inMarket = VolumeAfter(trd, d)
      /\ trd'.state = IF ClosesFully(trd, d) THEN "Closed"
                      ELSE IF OpensFully(trd, d) THEN "inMarket"
                      ELSE IF DuringOpening(trd) THEN "Opening" ELSE "Closing"
  BY <1>2, <1>3, <1>4, BookedFields
<1>6. ~IsFailed(trd') /\ trd'.inMarket \in 0..trd.planned
      /\ trd.inMarket \in 0..trd.planned /\ trd.planned \in Nat
  BY <1>1, <1>3, <1>4, <1>5 DEF IInv, VolumeBalance, IsFailed, TradeRecords
<1>7. CASE DuringOpening(trd)
  <2>1. ~DuringClosing(trd) /\ trd.state \in {"PendingOpen", "Opening"}
    BY <1>7 DEF DuringOpening, DuringClosing
  <2>2. trd'.state = IF trd'.inMarket = trd.planned THEN "inMarket" ELSE "Opening"
    BY <1>4, <1>5, <1>7 DEF ClosesFully, OpensFully
  <2>3. trd'.isLong
    BY <1>1, <1>6, <2>2 DEF IInv, StateShape
  <2>4. trd'.inMarket = trd.inMarket + d.vol
    BY <1>3, <1>4, <1>5, <2>1, <2>3 DEF WrongDirection, VolumeAfter
  <2>5. PhaseOf(trd) = "entering"
        /\ PhaseOf(trd') = IF trd'.inMarket = trd.planned THEN "in" ELSE "entering"
    BY <1>4, <1>6, <2>1, <2>2 DEF PhaseOf
  <2>6. P!Enter
    BY <1>3, <1>5, <1>6, <2>4, <2>5 DEF P!Enter
  <2> QED
    BY <2>6 DEF P!Next
<1>8. CASE DuringClosing(trd) /\ ~DuringOpening(trd)
  <2>1. trd.state \in {"PendingClose", "Closing"}
    BY <1>8 DEF DuringClosing
  <2>2. trd'.state = IF trd'.inMarket = 0 THEN "Closed" ELSE "Closing"
    BY <1>4, <1>5, <1>8 DEF ClosesFully, OpensFully
  <2>3. trd.isLong
    BY <1>4, <2>1 DEF IInv, StateShape
  <2>4. trd'.inMarket = trd.inMarket - d.vol
    BY <1>3, <1>4, <1>5, <1>8, <2>3 DEF WrongDirection, VolumeAfter
  <2>5. PhaseOf(trd) = "leaving"
        /\ PhaseOf(trd') = IF trd'.inMarket = 0 THEN "out" ELSE "leaving"
    BY <1>4, <1>6, <2>1, <2>2 DEF PhaseOf
  <2>6. P!Leave
    BY <1>3, <1>5, <1>6, <2>4, <2>5 DEF P!Leave
  <2> QED
    BY <2>6 DEF P!Next
<1> QED
  BY <1>4, <1>7, <1>8

LEMMA DealDoneRefines ==
  ASSUME IInv, NEW d \in Deals, DealDone(d) PROVE [P!Next]_(P!vars)
<1> DEFINE b == Booked(trd, d)
           c == DealVerdict(trd, d)
<1>1. CASE Expecting(trd) /\ c = "NoFailure"
  BY <1>1, AcceptedDealRefines
<1>2. CASE c # "NoFailure"
  <2>1. trd' = Detach(MarkFailed(b, c))
    BY <1>2 DEF DealDone, AfterDealDone
  <2>2. /\ trd \in TradeRecords /\ b \in TradeRecords
        /\ c \in FailureCodes \ {"NoFailure"}
    BY <1>2, BookedType, VerdictType DEF IInv, TypeOK
  <2>3. CASE ~Expecting(trd)
    <3>1. b = trd
      BY <2>3 DEF Booked
    <3> HIDE DEF b, c
    <3> QED
      BY <2>1, <2>2, <3>1, FailingRefines
  <2>4. CASE Expecting(trd)
    <3>1. ~ClosesFully(trd, d) /\ ~IsFailed(trd)
      BY <1>2, <2>4 DEF DealVerdict, VolumeVerdict, Expecting, ClosesFully
    <3>2. b.state # "Closed" /\ b.planned = trd.planned /\ b.failure = trd.failure
      BY <2>2, <2>4, <3>1, BookedFields
    <3>3. trd.state # "Closed"
      BY <2>4 DEF Expecting, DuringOpening, DuringClosing
    <3> HIDE DEF b, c
    <3> QED
      BY <2>1, <2>2, <3>1, <3>2, <3>3, FailingRefines
  <2> QED
    BY <2>3, <2>4
<1>3. ~Expecting(trd) => c = "unexpectedDeal"
  BY DEF DealVerdict
<1> QED
  BY <1>1, <1>2, <1>3

LEMMA DealFailedRefines ==
  ASSUME IInv, DealFailed PROVE [P!Next]_(P!vars)
<1>1. trd \in TradeRecords
  BY DEF IInv, TypeOK
<1>2. CASE DuringOpening(trd) \/ DuringClosing(trd)
  <2>1. PICK s \in {"OpenFailed", "CloseFailed"} :
          trd' = Detach(MarkFailed([trd EXCEPT !.state = s], "dealFailed"))
    BY <1>2 DEF DealFailed, AfterDealFailed
  <2> DEFINE b == [trd EXCEPT !.state = s]
  <2>2. /\ b \in TradeRecords /\ b.state = s /\ b.planned = trd.planned
        /\ b.failure = trd.failure /\ b.inMarket = trd.inMarket
    BY <1>1 DEF TradeRecords, TradeStates
  <2>3. trd.state # "Closed" /\ "dealFailed" \in FailureCodes \ {"NoFailure"}
    BY <1>2 DEF DuringOpening, DuringClosing, FailureCodes
  <2>4. trd' = Detach(MarkFailed(b, "dealFailed"))
    BY <2>1
  <2> HIDE DEF b
  <2> QED
    BY <2>2, <2>3, <2>4, FailingRefines
<1>3. CASE ~DuringOpening(trd) /\ ~DuringClosing(trd)
  <2>1. trd' = Detach(MarkFailed(trd, "unexpectedDeal"))
    BY <1>3 DEF DealFailed, AfterDealFailed
  <2>2. "unexpectedDeal" \in FailureCodes \ {"NoFailure"}
    BY DEF FailureCodes
  <2> QED
    BY <1>1, <2>1, <2>2, FailingRefines
<1> QED
  BY <1>2, <1>3

\* A close request asks to leave, also when it comes again.
LEMMA CloseByMarketRefines ==
  ASSUME IInv, NEW r \in CloseReasons, CloseByMarket(r)
  PROVE  [P!Next]_(P!vars)
<1>1. trd \in TradeRecords /\ trd.attached
      /\ trd.state \in {"inMarket", "Opening", "Closing"}
  BY DEF CloseByMarket, SomethingInMarket, Finished, IInv, TypeOK
<1>2. /\ trd'.state = "PendingClose" /\ trd'.planned = trd.planned
      /\ trd'.inMarket = trd.inMarket /\ trd'.failure = trd.failure
  BY <1>1 DEF CloseByMarket, AfterCloseRequest, TradeRecords
<1>3. ~IsFailed(trd)
  BY <1>1 DEF IInv, AttachedUntilFinished
<1>4. trd.inMarket > 0
  BY <1>1, <1>3 DEF IInv, StateShape, TradeRecords
<1>5. /\ PhaseOf(trd') = "leaving"
      /\ PhaseOf(trd) \in {"entering", "in", "leaving"}
  BY <1>1, <1>2, <1>3 DEF PhaseOf, IsFailed
<1>6. P!AskToLeave
  BY <1>2, <1>4, <1>5 DEF P!AskToLeave
<1> QED
  BY <1>6 DEF P!Next

\* A trade, under any executor, behaves as a position: it is built up to its
\* size, left on request, and out only when everything is sold.
THEOREM TradesImplementPositions == Spec => ImplementsPosition
<1>1. Init => P!Init
  BY SharesAssumption
  DEF Init, P!Init, NewTrade, PhaseOf, IsFailed
<1>2. ASSUME IInv, [Next]_vars PROVE [P!Next]_(P!vars)
  <2>1. CASE \E d \in Deals : DealDone(d)
    BY <1>2, <2>1, DealDoneRefines
  <2>2. CASE DealFailed
    BY <1>2, <2>2, DealFailedRefines
  <2>3. CASE \E r \in CloseReasons : CloseByMarket(r)
    BY <1>2, <2>3, CloseByMarketRefines
  <2>4. CASE UNCHANGED vars
    BY <2>4 DEF vars, P!vars, PhaseOf
  <2> QED
    BY <1>2, <2>1, <2>2, <2>3, <2>4 DEF Next
<1> QED
  BY <1>1, <1>2, Invariant, PTL DEF Spec, P!Spec, ImplementsPosition
=============================================================================
