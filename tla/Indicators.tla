---------------------------- MODULE Indicators ----------------------------
(***************************************************************************)
(* One indicator (tAlg2ts_c of algs/_base.h) over one source series: the   *)
(* bars of the source are opened, change, and the indicator is called any  *)
(* number of times on a bar and exactly once with bClose (the rule stated  *)
(* at algs/_base.h:506).  LTFPercentile (algs/inspectLowerTF.h) reads a    *)
(* lower timeframe: several bars of the source for one of its own.         *)
(***************************************************************************)
EXTENDS Algs, FiniteSets

CONSTANTS
    Requests,   \* what indicators are asked for
    Values,     \* prices, in price units
    MaxBars,    \* bound: bars of the indicator
    MaxLower,   \* bound: bars of the lower timeframe in one of those
    Slacks      \* how much more than MinSrcHist the source may hold

VARIABLES
    asked,      \* the request
    alg,        \* what was made of it
    cap,        \* how many bars the source holds
    bars,       \* every source bar so far, newest first: its value now and the
                \* number of the indicator's bar it belongs to
    dest,       \* the indicator's own series, newest first
    state,      \* algState of DEMA and TEMA
    marks,      \* m_srcBars of tInspectLowerTF: TotalBars at the last closings
    called,     \* has the newest value of the source been seen by a call?
    closed      \* has the newest bar of the indicator had its closing call?

vars == <<asked, alg, cap, bars, dest, state, marks, called, closed>>

ASSUME SizesAreNat == MaxBars \in Nat /\ MaxLower \in Nat /\ Slacks \subseteq Nat

Newest(s, n) == SubSeq(s, 1, IF Len(s) < n THEN Len(s) ELSE n)
Src   == Newest([i \in DOMAIN bars |-> bars[i].v], cap)
Now   == IF bars = <<>> THEN 0 ELSE bars[1].up
Lower == alg.kind = "LTFPercentile"

NaNState(kind) == CASE kind = "DEMA" -> <<NaN, NaN>>
                    [] kind = "TEMA" -> <<NaN, NaN, NaN>>
                    [] OTHER         -> <<>>

----------------------------------------------------------------------------
Init ==
    /\ asked \in Requests
    /\ alg = [kind |-> "none"]
    /\ cap = 0
    /\ bars = <<>> /\ dest = <<>> /\ state = <<>> /\ marks = <<>>
    /\ called = TRUE /\ closed = TRUE

\* The constructors: parameters are made and validated, the state is NaN, the
\* marks of LTFPercentile start with a zero.
Make ==
    /\ alg.kind = "none"
    /\ alg' = Made(asked)
    /\ IF alg' = Rejected
       THEN UNCHANGED <<cap, marks, state>>
       ELSE /\ \E slack \in Slacks : cap' = MinSrcHist(alg') + slack
            /\ marks' = IF alg'.kind = "LTFPercentile" THEN <<0>> ELSE <<>>
            /\ state' = NaNState(alg'.kind)
    /\ UNCHANGED <<asked, bars, dest, called, closed>>

\* A bar opens: the source gets it and notifyNewBarOpened() adds an undefined
\* value to the indicator's own series.
OpenBar ==
    /\ alg.kind \in Kinds /\ closed /\ Now < MaxBars
    /\ \E v \in Values : bars' = <<[v |-> v * Unit, up |-> Now + 1]>> \o bars
    /\ dest' = Newest(<<NaN>> \o dest, 2)
    /\ closed' = FALSE /\ called' = FALSE
    /\ UNCHANGED <<asked, alg, cap, state, marks>>

\* A further bar of the lower timeframe within the indicator's bar.
LowerBar ==
    /\ alg.kind \in Kinds /\ Lower /\ ~closed
    /\ Cardinality({i \in DOMAIN bars : bars[i].up = Now}) < MaxLower
    /\ \E v \in Values : bars' = <<[v |-> v * Unit, up |-> Now]>> \o bars
    /\ called' = FALSE
    /\ UNCHANGED <<asked, alg, cap, dest, state, marks, closed>>

\* The newest bar of the source gets another value.
Change ==
    /\ alg.kind \in Kinds /\ ~closed
    /\ \E v \in Values : bars' = [bars EXCEPT ![1].v = v * Unit]
    /\ called' = FALSE
    /\ bars' # bars
    /\ UNCHANGED <<asked, alg, cap, dest, state, marks, closed>>

\* getNumOfUnseenBars.
Unseen == IF Len(marks) = alg.len THEN Len(bars) - marks[Len(marks)] ELSE 0

\* The value the call stores into dest[0].
Result ==
    CASE alg.kind \in Chained ->
             Combined(Step(Src, alg.gamma, state))
      [] alg.kind = "EMA" ->
             EMA(Src, dest[2], MinSrcHist(alg) - 1, MA(Src, alg.len), alg.gamma)
      [] alg.kind = "EMAsi" ->
             EMA(Src, dest[2], 1, Src[1], alg.gamma)
      [] Lower ->
             IF Unseen > 0 THEN Percentile(Src, Unseen, alg.p) ELSE dest[1]
      [] OTHER -> Stateless(alg, Src)

\* m_srcBars.push_front(TotalBars) of a buffer of minSrcHist() = len numbers.
Marked == Newest(<<Len(bars)>> \o marks, alg.len)

\* operator()(bClose): the value always, the state and the marks on the closing
\* call only, the mark after the value.
X_Call_KeepsStep(bClose) ==           \* mutant: the state kept on every call
    /\ alg.kind \in Kinds /\ ~closed
    /\ dest' = [dest EXCEPT ![1] = Result]
    /\ state' = IF alg.kind \in Chained THEN Step(Src, alg.gamma, state) ELSE state
    /\ marks' = IF bClose /\ Lower THEN Marked ELSE marks
    /\ called' = TRUE /\ closed' = bClose
    /\ UNCHANGED <<asked, alg, cap, bars>>
Call(bClose) ==
    /\ alg.kind \in Kinds /\ ~closed
    /\ dest' = [dest EXCEPT ![1] = Result]
    /\ state' = IF bClose /\ alg.kind \in Chained
                THEN Step(Src, alg.gamma, state) ELSE state
    /\ marks' = IF bClose /\ Lower THEN Marked ELSE marks
    /\ called' = TRUE /\ closed' = bClose
    /\ UNCHANGED <<asked, alg, cap, bars>>

Next == Make \/ OpenBar \/ LowerBar \/ Change \/ \E bClose \in BOOLEAN : Call(bClose)

Spec == Init /\ [][Next]_vars

----------------------------------------------------------------------------
(* What an indicator is, told over the whole history and from the request  *)
(* alone.  h is a series with the oldest bar first.                        *)

History == Reverse([i \in DOMAIN bars |-> bars[i].v])
Tail_(h, n) == SubSeq(h, Len(h) - n + 1, Len(h))

\* The exponential average of a series: the weight of each bar is gamma of what
\* the newer ones have left.  It is undefined before bar n, where it is `first'.
Average(h, n, first, g) ==
    LET e[i \in 0 .. Len(h)] ==
            CASE i < n -> NaN
              [] i = n -> first
              [] OTHER -> (g[1] * h[i] + (g[2] - g[1]) * e[i - 1]) \div g[2]
    IN  [i \in DOMAIN h |-> e[i]]

AskedGamma == IF asked.gamma = NoGamma THEN <<2, asked.len + 1>> ELSE asked.gamma

\* The fraction that was asked for, as a caller means it: a number above one, and
\* any integer given to PrmPercV, counts percents.
AskedFraction ==
    LET p == asked.p
        q == IF asked.as = "int" \/ p[1] > p[2] THEN <<p[1], 100 * p[2]>> ELSE p
    IN  IF asked.inv THEN <<q[2] - q[1], q[2]>> ELSE q

\* x is the value with exactly rank others of the window before it in order.
IsOfRank(x, w, rank) ==
    /\ x \in ToSet(w)
    /\ Cardinality({i \in DOMAIN w : w[i] < x}) <= rank
    /\ rank < Cardinality({i \in DOMAIN w : w[i] <= x})
OfRank(w, rank) == CHOOSE x \in ToSet(w) : IsOfRank(x, w, rank)

\* Between the two values next to the place p * (n - 1), in proportion.
IsFraction(x, w, p) ==
    LET place == p[1] * (Len(w) - 1)
        k     == place \div p[2]
        part  == place - k * p[2]
    IN  x = IF part = 0 THEN OfRank(w, k)
            ELSE OfRank(w, k) + ((OfRank(w, k + 1) - OfRank(w, k)) * part) \div p[2]

\* The bars of the lower timeframe within the last len bars of the indicator.
LowerWindow ==
    LET in == {i \in DOMAIN bars : bars[i].up > Now - asked.len}
    IN  Tail_(History, Cardinality(in))

Definition(x) ==
    LET h == History
        n == asked.len
        E(s) == Average(s, 1, s[1], AskedGamma)
    IN CASE asked.kind = "EMA" ->
                x = Average(h, n, IF Len(h) < n THEN NaN
                                  ELSE FoldLeft(+, 0, SubSeq(h, 1, n)) \div n,
                            AskedGamma)[Len(h)]
         [] asked.kind = "EMAsi" -> x = E(h)[Len(h)]
         [] asked.kind = "DEMA" -> x = 2 * E(h)[Len(h)] - E(E(h))[Len(h)]
         [] asked.kind = "TEMA" ->
                x = 3 * E(h)[Len(h)] - 3 * E(E(h))[Len(h)] + E(E(E(h)))[Len(h)]
         [] asked.kind = "LTFPercentile" ->
                IF Now < n THEN x = NaN ELSE IsFraction(x, LowerWindow, AskedFraction)
         [] asked.kind = "PercentRank" ->
                IF Len(h) <= n THEN x = NaN
                ELSE x * n = 100 * Unit *
                         Cardinality({i \in 1 .. n : h[Len(h) - i] < h[Len(h)]})
         [] OTHER ->
                IF Len(h) < n THEN x = NaN
                ELSE LET w == Tail_(h, n)
                     IN CASE asked.kind = "MA"     -> x * n = FoldLeft(+, 0, w)
                          [] asked.kind = "MovMin" -> IsOfRank(x, w, 0)
                          [] asked.kind = "MovMax" -> IsOfRank(x, w, n - 1)
                          [] asked.kind = "Elementile" -> IsOfRank(x, w, asked.rank)
                          [] asked.kind = "Percentile" ->
                                 IsFraction(x, w, AskedFraction)

\* Once called, the indicator shows what it was asked for, by its definition over
\* the whole history: however many calls a bar had, whatever its value was on the
\* way, and with a source that only holds MinSrcHist bars.  (LTFPercentile is
\* excepted when the window is longer than the source: it then gives NaN.)
ValuesAreRight ==
    alg.kind \in Kinds /\ called /\ bars # <<>>
      => \/ Definition(dest[1])
         \/ Lower /\ Len(LowerWindow) > cap /\ dest[1] = NaN
============================================================================
