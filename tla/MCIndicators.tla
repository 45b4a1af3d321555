--------------------------- MODULE MCIndicators ---------------------------
(* The indicators, lengths, weights and fractions of the instance.          *)
EXTENDS Indicators

MCUnit == 6 * 6 * 6 * 6 * 6 * 6      \* enough for four bars of TEMA by thirds

Request(kind) == [kind |-> kind, len |-> 1, gamma |-> NoGamma, rank |-> 0,
                  p |-> <<0, 1>>, as |-> "raw", inv |-> FALSE]

OfLength  == {[Request(k) EXCEPT !.len = n] : k \in Moving, n \in 0 .. 3}
ByLength  == {[Request(k) EXCEPT !.len = n] :
                 k \in {"EMA", "EMAsi"} \cup Chained, n \in {0, 2, 3}}
ByWeight  == {[Request(k) EXCEPT !.len = 2, !.gamma = g] :
                 k \in {"EMA", "EMAsi", "DEMA"}, g \in {<<1, 2>>, <<1, 1>>, <<3, 2>>}}
ByRank    == {[Request("Elementile") EXCEPT !.len = 3, !.rank = r] : r \in 0 .. 3}
Fractions == {[Request("Percentile") EXCEPT !.p = p, !.as = as, !.inv = i] :
                 p \in {<<1, 4>>, <<1, 1>>, <<75, 1>>, <<150, 1>>},
                 as \in {"real", "raw"}, i \in BOOLEAN}
             \cup {[Request("Percentile") EXCEPT !.p = <<25, 1>>, !.as = "int"]}
OfFraction == {[f EXCEPT !.len = n] : f \in {f \in Fractions :
                 ~(f.p = <<150, 1>> /\ f.as = "real")}, n \in 2 .. 3}
OfLower   == {[Request("LTFPercentile") EXCEPT !.len = n, !.p = p] :
                 n \in 1 .. 2, p \in {<<1, 4>>, <<1, 1>>}}

MCRequests == OfLength \cup ByLength \cup ByWeight \cup ByRank
                       \cup OfFraction \cup OfLower
============================================================================
