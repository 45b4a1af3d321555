---------------------------- MODULE TradeRecord ----------------------------
(***************************************************************************)
(* The value of one trade object (class trade of exec/trade.h) and what    *)
(* its executor callbacks and its close request do to that value.  The     *)
(* operators are pure: Trade.tla drives one such record with an arbitrary  *)
(* executor, Backtester.tla keeps a vector of them.                        *)
(*                                                                         *)
(* Volumes are whole numbers of shares; the code's comparison up to        *)
(* _volZeroThreshold is equality of whole numbers.  The lists m_dealsOpen  *)
(* and m_dealsClose are kept as the total volumes booked in them.          *)
(***************************************************************************)
EXTENDS Integers

TradeStates == {"PendingOpen", "Opening", "OpenFailed", "inMarket",
                "PendingClose", "Closing", "CloseFailed", "Closed"}

FailureCodes == {"NoFailure", "unexpectedDeal",
                 "invalidDealDirectionDuringOpening",
                 "invalidDealDirectionDuringClosing",
                 "invalidVolumeOnOpening", "invalidVolumeOnClosing",
                 "totalVolumeLessZero", "exceededVolume", "dealFailed"}

CloseReasons == {"Normal", "StopLoss", "TakeProfit"}

TradeRecords ==
  [ state: TradeStates, isLong: BOOLEAN, planned: Nat, inMarket: Int,
    failure: FailureCodes, reason: CloseReasons \cup {"UNDEFINED", "ABORTED"},
    attached: BOOLEAN,        \* m_pExec is not null
    closePlanned: BOOLEAN,    \* m_tsqPlannedClose is valid
    dealsOpen: Nat, dealsClose: Nat ]

\* A market order just constructed; the executor has not seen it yet.
NewTrade(long, shares) ==
  [ state |-> "PendingOpen", isLong |-> long, planned |-> shares,
    inMarket |-> 0, failure |-> "NoFailure", reason |-> "UNDEFINED",
    attached |-> TRUE, closePlanned |-> FALSE,
    dealsOpen |-> 0, dealsClose |-> 0 ]

-----------------------------------------------------------------------------
(* The predicates the code decides by.                                     *)

Finished(t) == ~t.attached
IsFailed(t) == t.failure # "NoFailure"

DuringOpening(t) == ~Finished(t) /\ t.state \in {"PendingOpen", "Opening"}
DuringClosing_EvenFinished(t) == t.state \in {"PendingClose", "Closing"}
DuringClosing(t) == ~Finished(t) /\ t.state \in {"PendingClose", "Closing"}

SomethingInMarket(t) ==
  ~Finished(t) /\ t.state \in {"inMarket", "Opening", "Closing"}

-----------------------------------------------------------------------------
(* The executor reports a deal: a side and a positive volume.              *)

\* Deals are booked only while the trade waits for them.
Expecting(t) == (DuringOpening(t) \/ DuringClosing(t)) /\ ~IsFailed(t)

WrongDirection(t, d) == DuringClosing(t) # (t.isLong # d.isLong)

\* Bought volume counts as positive, whichever side the trade is on.
VolumeAfter_AlwaysBuys(t, d) == t.inMarket + d.vol
VolumeAfter(t, d) == t.inMarket + (IF d.isLong THEN d.vol ELSE -d.vol)

\* What a new volume that was moved in the right direction is found guilty of.
VolumeVerdict_FullIsTooMuch(t, v) ==
  IF v = 0 THEN IF DuringClosing(t) THEN "NoFailure" ELSE "invalidVolumeOnOpening"
  ELSE IF v < 0 THEN "totalVolumeLessZero"
  ELSE IF v >= t.planned THEN "exceededVolume" ELSE "NoFailure"
VolumeVerdict(t, v) ==
  IF v = 0 THEN
    IF DuringClosing(t) THEN "NoFailure" ELSE "invalidVolumeOnOpening"
  ELSE IF v = t.planned THEN
    IF DuringOpening(t) THEN "NoFailure" ELSE "invalidVolumeOnClosing"
  ELSE IF v < 0 THEN "totalVolumeLessZero"
  ELSE IF v > t.planned THEN "exceededVolume"
  ELSE "NoFailure"

\* What the deal is found guilty of; the first match wins, as in the code.
DealVerdict(t, d) ==
  IF ~Expecting(t) THEN "unexpectedDeal"
  ELSE IF ~WrongDirection(t, d) THEN VolumeVerdict(t, VolumeAfter(t, d))
  ELSE IF DuringOpening(t) THEN "invalidDealDirectionDuringOpening"
  ELSE "invalidDealDirectionDuringClosing"

\* A deal in the right direction that hits the target of its phase ends it.
OpensFully_Never(t, d) == FALSE
OpensFully(t, d) ==
  ~WrongDirection(t, d) /\ DuringOpening(t) /\ VolumeAfter(t, d) = t.planned

ClosesFully(t, d) ==
  ~WrongDirection(t, d) /\ ~DuringOpening(t) /\ VolumeAfter(t, d) = 0

\* The deal goes to the list of its phase, whatever its side; the volume
\* follows the deal only if the side is right.
BookDeal(t, d) ==
  LET opening == DuringOpening(t) IN
  [t EXCEPT
     !.dealsOpen  = IF opening THEN @ + d.vol ELSE @,
     !.dealsClose = IF opening THEN @ ELSE @ + d.vol,
     !.inMarket   = IF WrongDirection(t, d) THEN @ ELSE VolumeAfter(t, d),
     !.state      = IF ClosesFully(t, d) THEN "Closed"
                    ELSE IF OpensFully(t, d) THEN "inMarket"
                    ELSE IF opening THEN "Opening" ELSE "Closing",
     !.attached   = ~ClosesFully(t, d)]

\* _failed() up to the abort request: the first code and reason are kept.
MarkFailed(t, code) ==
  [t EXCEPT !.failure = IF @ = "NoFailure" THEN code ELSE @,
            !.reason  = IF @ = "UNDEFINED" THEN "ABORTED" ELSE @]

\* The end of _failed(): the executor is let go.
Detach_Keeps(t) == t
Detach(t) == [t EXCEPT !.attached = FALSE]

\* Everything _cb_dealDone does before the abort request it may end with.
Booked(t, d) == IF Expecting(t) THEN BookDeal(t, d) ELSE t

AfterDealDone(t, d) ==
  LET code == DealVerdict(t, d) IN
  IF code = "NoFailure" THEN Booked(t, d)
                        ELSE Detach(MarkFailed(Booked(t, d), code))

-----------------------------------------------------------------------------
(* The executor reports that a deal failed.                                *)

AfterDealFailed(t) ==
  IF DuringOpening(t)
  THEN Detach(MarkFailed([t EXCEPT !.state = "OpenFailed"], "dealFailed"))
  ELSE IF DuringClosing(t)
  THEN Detach(MarkFailed([t EXCEPT !.state = "CloseFailed"], "dealFailed"))
  ELSE Detach(MarkFailed(t, "unexpectedDeal"))

-----------------------------------------------------------------------------
(* closeByMarket: the close price is taken from the ticker and the trade   *)
(* waits for closing deals.  The caller must have checked                  *)
(* SomethingInMarket: otherwise the call throws out of a noexcept function.*)

AfterCloseRequest(t, reason) ==
  [t EXCEPT !.state = "PendingClose", !.reason = reason,
            !.closePlanned = TRUE]
=============================================================================
