------------------------------- MODULE Trade -------------------------------
(***************************************************************************)
(* One trade and everything its two neighbours may do to it, in any order: *)
(* the executor reports deals of any side and volume and failed deals, at  *)
(* any time, also after the trade is over; the strategy (or a stop loss)   *)
(* asks to close it whenever the code lets it.                             *)
(*                                                                         *)
(* aborts counts the _execTradeAbort requests the trade has issued.        *)
(***************************************************************************)
EXTENDS TradeRecord

CONSTANTS
  MaxShares,   \* bound on the volume of an order and of a deal
  Sides        \* the sides trades are opened on: a subset of BOOLEAN

ASSUME SharesAssumption == MaxShares \in Nat \ {0}
ASSUME SidesAssumption == Sides \subseteq BOOLEAN

VARIABLES trd, aborts

vars == <<trd, aborts>>

\* A deal may be larger than any order: the executor is not trusted.
Deals == [isLong: BOOLEAN, vol: 1..MaxShares + 1]

Init ==
  /\ \E long \in Sides, shares \in 1..MaxShares : trd = NewTrade(long, shares)
  /\ aborts = 0

\* _failed() asks for an abort only while it still has an executor.
AbortsAfter_Always(code, t) ==
  IF code # "NoFailure" THEN aborts + 1 ELSE aborts
AbortsAfter(code, t) ==
  IF code # "NoFailure" /\ t.attached THEN aborts + 1 ELSE aborts

DealDone(d) ==
  /\ trd' = AfterDealDone(trd, d)
  /\ aborts' = AbortsAfter(DealVerdict(trd, d), trd)

DealFailed ==
  /\ trd' = AfterDealFailed(trd)
  /\ aborts' = AbortsAfter("dealFailed", trd)

CloseByMarket(reason) ==
  /\ SomethingInMarket(trd)
  /\ trd' = AfterCloseRequest(trd, reason)
  /\ UNCHANGED aborts

Next ==
  \/ \E d \in Deals : DealDone(d)
  \/ DealFailed
  \/ \E reason \in CloseReasons : CloseByMarket(reason)

Spec == Init /\ [][Next]_vars

-----------------------------------------------------------------------------

\* Type correctness: the fields of the trade, and at most one abort request.
TypeOK ==
  /\ trd \in TradeRecords
  /\ aborts \in 0..1

\* m_volInMarket, which closing orders are sized by, is what the booked deals
\* add up to (bought minus sold) for as long as the trade has not failed, and
\* never leaves the range from nothing to the planned volume.
VolumeBalance ==
  ~IsFailed(trd) =>
    /\ trd.inMarket = trd.dealsOpen - trd.dealsClose
    /\ trd.inMarket \in 0..trd.planned

\* A trade that may be closed holds something: closeByMarket would otherwise
\* send a closing order of volume zero (assertion of is_SomethingInMarket).
CloseableHoldsShares == SomethingInMarket(trd) => trd.inMarket > 0

\* A closed trade is flat: what its profit is computed from was bought and
\* sold in equal volume, for a reason somebody gave, whatever late deals the
\* executor reports afterwards.
ClosedIsFlat ==
  trd.state = "Closed" =>
    /\ trd.inMarket = 0
    /\ trd.dealsOpen = trd.dealsClose
    /\ trd.dealsOpen > 0
    /\ trd.reason \in CloseReasons

\* A trade keeps its executor exactly until it is closed or has failed: the
\* assertion of is_TradeFinished, seen from outside the callbacks.
AttachedUntilFinished ==
  trd.attached <=> trd.state # "Closed" /\ ~IsFailed(trd)

\* A failure that leaves shares or orders behind asks the executor to clean
\* up once, and only then: never twice, and never for a closed trade.
AbortOnce == aborts = IF IsFailed(trd) /\ trd.state # "Closed" THEN 1 ELSE 0

\* Whatever happens to a finished trade, only its failure code may still be
\* set, and a failure code once set is the first one for good.
FinishedIsFinal ==
  [][/\ Finished(trd) => /\ trd' = [trd EXCEPT !.failure = trd'.failure,
                                               !.reason = trd'.reason]
                         /\ UNCHANGED aborts
     /\ IsFailed(trd) => UNCHANGED trd]_vars

\* What each state of a healthy trade says of its volumes; the part of the
\* inductive invariant that explains why closing deals can only meet a trade
\* that holds shares: a short trade is never healthy after its first deal.
StateShape ==
  /\ trd.planned > 0
  /\ IsFailed(trd) => trd.reason # "UNDEFINED"
  /\ ~IsFailed(trd) =>
       /\ trd.state \notin {"OpenFailed", "CloseFailed"}
       /\ trd.state = "PendingOpen" => trd.dealsOpen = 0 /\ trd.dealsClose = 0
       /\ trd.state = "Opening" => trd.inMarket \in 1..trd.planned - 1
       /\ trd.state = "inMarket" => trd.inMarket = trd.planned
       /\ trd.state \in {"Opening", "inMarket"} => trd.dealsClose = 0
       /\ trd.state \in {"PendingClose", "Closing"} =>
            trd.inMarket > 0 /\ trd.reason \in CloseReasons
       /\ trd.state # "PendingOpen" => trd.isLong

\* The inductive invariant of Spec.
IInv ==
  /\ TypeOK /\ VolumeBalance /\ ClosedIsFlat
  /\ AttachedUntilFinished /\ AbortOnce /\ StateShape

\* The fills the executor was asked for: in the direction of the trade and
\* within its planned volume.
AskedFor(d) ==
  DuringOpening(trd) /\ d.isLong = trd.isLong /\ trd.dealsOpen + d.vol <= trd.planned

\* A long trade accepts every fill it was opened for, in any split of its volume.
LongFillsAccepted ==
  [][\A d \in Deals : DealDone(d) /\ AskedFor(d) /\ trd.isLong => ~IsFailed(trd')]_vars

\* The same of trades on either side.
GoodFillsAccepted ==
  [][\A d \in Deals : DealDone(d) /\ AskedFor(d) => ~IsFailed(trd')]_vars

-----------------------------------------------------------------------------
(* The trade as the strategy may think of it.                              *)

PhaseOf(t) ==
  IF t.state = "Closed" THEN "out"
  ELSE IF IsFailed(t) THEN "broken"
  ELSE IF t.state \in {"PendingOpen", "Opening"} THEN "entering"
  ELSE IF t.state = "inMarket" THEN "in"
  ELSE "leaving"

P == INSTANCE Position
       WITH phase <- PhaseOf(trd), size <- trd.planned, held <- trd.inMarket

\* A trade implements the position it stands for.
ImplementsPosition == P!Spec
=============================================================================
