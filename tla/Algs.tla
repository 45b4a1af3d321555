------------------------------- MODULE Algs -------------------------------
(***************************************************************************)
(* The indicators of src/t18/algs: the code of each (algs/code), which     *)
(* reads a source series and the indicator's previous value, and the       *)
(* making of its parameters (the *_meta structures).                       *)
(*                                                                         *)
(* A series is a sequence with the NEWEST bar first: src[0] of the code is *)
(* src[1] here.  Reals are integers counted in 1/Unit, with Unit divisible *)
(* by every denominator the instance meets, so that the arithmetic is      *)
(* exact; a weight or a fraction is a pair <<numerator, denominator>>.     *)
(***************************************************************************)
EXTENDS Integers, SequencesExt

CONSTANTS
    NaN,    \* what an indicator gives while it has not seen enough bars
    Unit    \* the number of integer steps in one price unit

Moving  == {"MA", "MovMin", "MovMax", "PercentRank"}   \* take a length only
Chained == {"DEMA", "TEMA"}                            \* keep a state
Ranked  == {"Elementile", "Percentile", "LTFPercentile"}
Kinds   == Moving \cup {"EMA", "EMAsi"} \cup Chained \cup Ranked

----------------------------------------------------------------------------
(* The code of the indicators.                                             *)

MA(src, len) ==
    IF Len(src) < len THEN NaN
    ELSE FoldLeft(+, 0, SubSeq(src, 1, len)) \div len

\* boostAcc with the tags min and max.
MovMin(src, len) == IF Len(src) < len THEN NaN ELSE Min(ToSet(SubSeq(src, 1, len)))
MovMax(src, len) == IF Len(src) < len THEN NaN ELSE Max(ToSet(SubSeq(src, 1, len)))

\* The share of the len bars before the newest one that lie below it.
PercentRank(src, len) ==
    IF Len(src) <= len THEN NaN
    ELSE Cardinality({i \in 2 .. len + 1 : src[1] > src[i]}) * 100 * (Unit \div len)

\* gamma * x + omgamma * y.
Blend(gamma, x, y) == (gamma[1] * x + (gamma[2] - gamma[1]) * y) \div gamma[2]

\* The size of the source tells whether the previous value was initialized:
\* with exactly `needed' bars the indicator starts from `first'.
EMA(src, previous, needed, first, gamma) ==
    CASE Len(src) < needed -> NaN
      [] Len(src) = needed -> first
      [] OTHER             -> Blend(gamma, src[1], previous)

\* The state of DEMA and TEMA after the newest bar: averages of averages.
Step(src, gamma, state) ==
    LET from == IF Len(src) = 1 THEN [i \in DOMAIN state |-> src[1]] ELSE state
        r[i \in 0 .. Len(state)] ==
            IF i = 0 THEN src[1] ELSE Blend(gamma, r[i - 1], from[i])
    IN  [i \in DOMAIN state |-> r[i]]

\* What DEMA and TEMA give out of that state.
Combined(r) == IF Len(r) = 2 THEN 2 * r[1] - r[2] ELSE 3 * r[1] - 3 * r[2] + r[3]

\* nth_element, or the sort of elementiles(), over the newest len bars.
Elementile(src, len, rank) ==
    IF Len(src) < len THEN NaN ELSE SortSeq(SubSeq(src, 1, len), <)[rank + 1]

\* std::round of a / b for a >= 0.
Round(a, b) == (2 * a + b) \div (2 * b)

\* The fraction p of the newest len bars; an elementile is taken for exact
\* when the place is within a thousandth of it.
Percentile(src, len, p) ==
    LET place == p[1] * (len - 1)                    \* in 1/p[2]
        lower == place \div p[2]
        below == Elementile(src, len, lower)
        above == Elementile(src, len, lower + 1)
        exact == Round(place, p[2])
    IN  IF Len(src) < len THEN NaN
        ELSE IF Round(1000 * place, p[2]) = 1000 * exact
             THEN Elementile(src, len, exact)
             ELSE below + ((above - below) * (place - lower * p[2])) \div p[2]

----------------------------------------------------------------------------
(* Parameters.  A request is what the caller passes: a length, a weight or *)
(* NoGamma, a rank, a fraction with the way it is passed (as), and the     *)
(* optional bInvPercV.  What an indicator keeps is made out of it once.    *)

NoGamma  == <<0, 0>>
Rejected == [kind |-> "rejected"]

MakeGamma(len)   == <<2, len + 1>>
GammaIsValid(g)  == g[1] > 0 /\ g[1] <= g[2]
GammaOf(request) == IF request.gamma = NoGamma THEN MakeGamma(request.len)
                                              ELSE request.gamma

\* Numbers above one are taken for percents.
AsFraction(p) == IF p[1] > p[2] THEN <<p[1], 100 * p[2]>> ELSE p

\* PrmPercV: of an int, of a real, or the value put into the map as it is.
PrmPercV(request) == CASE request.as = "int"  -> <<request.p[1], 100>>
                       [] request.as = "real" -> AsFraction(request.p)
                       [] request.as = "raw"  -> request.p

FractionOf(request) ==
    LET p == AsFraction(PrmPercV(request))
    IN  IF request.inv THEN <<p[2] - p[1], p[2]>> ELSE p

\* validatePrms of the kinds.  (A fraction is tested before it is inverted; it is
\* within 0 .. 1 exactly when the inverted one is.)
LengthIsValid(request)   == request.len >= 1
EMAIsValid(request)      == LengthIsValid(request) /\ GammaIsValid(GammaOf(request))
EMAsiIsValid(request)    == GammaIsValid(GammaOf(request))
RankIsValid(request)     == LengthIsValid(request) /\ request.rank < request.len
FractionIsValid(request) ==
    LengthIsValid(request) /\ 0 <= FractionOf(request)[1]
                           /\ FractionOf(request)[1] <= FractionOf(request)[2]

Valid(request) ==
    CASE request.kind \in Moving                -> LengthIsValid(request)
      [] request.kind = "EMA"                   -> EMAIsValid(request)
      [] request.kind \in Chained \cup {"EMAsi"} -> EMAsiIsValid(request)
      [] request.kind = "Elementile"            -> RankIsValid(request)
      [] OTHER                                  -> FractionIsValid(request)

Made(request) ==
    IF ~Valid(request) THEN Rejected
    ELSE [ kind  |-> request.kind,
           len   |-> request.len,
           gamma |-> GammaOf(request),
           rank  |-> request.rank,
           p     |-> FractionOf(request) ]

\* How many bars the source must be able to hold.
MinSrcHist(alg) ==
    CASE alg.kind \in Chained \cup {"EMAsi"}   -> 2
      [] alg.kind \in {"EMA", "PercentRank"}   -> alg.len + 1
      [] OTHER                                 -> alg.len

\* The value of an indicator that keeps nothing between two bars.
Stateless(alg, src) ==
    CASE alg.kind = "MA"          -> MA(src, alg.len)
      [] alg.kind = "MovMin"      -> MovMin(src, alg.len)
      [] alg.kind = "MovMax"      -> MovMax(src, alg.len)
      [] alg.kind = "PercentRank" -> PercentRank(src, alg.len)
      [] alg.kind = "Elementile"  -> Elementile(src, alg.len, alg.rank)
      [] alg.kind = "Percentile"  -> Percentile(src, alg.len, alg.p)
============================================================================
