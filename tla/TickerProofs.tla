---------------------------- MODULE TickerProofs ----------------------------
(***************************************************************************)
(* What the timeframes of a ticker show and announce, and what can end the *)
(* program, for any set of timeframes, any prices and times, any time      *)
(* filter, any number of bars that are kept, ticks or bars, backtesting or *)
(* live.                                                                   *)
(***************************************************************************)
EXTENDS Ticker, SequenceTheorems, FiniteSetTheorems, WellFoundedInduction, TLAPS

-----------------------------------------------------------------------------
(* The invariant.                                                          *)

BarType == [ts: Int, o: Int, h: Int, l: Int, c: Int, v: Int]
TfType == [closed: BOOLEAN, hasData: BOOLEAN, bar: BarType, upper: Int,
           store: Seq(BarType), total: Int, curBar: BOOLEAN, reject: BOOLEAN]
CallType == [kind: {"none", "tick", "open", "bar", "notify"}, d: BarType,
             phase: {"idle", "pre", "main", "post"}, todo: SUBSET Periods]
Announcements == {"open", "close"} \X BarType

TypesOK ==
  /\ feed \in {"tick", "bar"} /\ backtesting \in BOOLEAN
  /\ lastSeen \in Int /\ clock \in Int
  /\ tf \in [Periods -> TfType]
  /\ call \in CallType
  /\ heard \in [Periods -> Seq(Announcements)]
  /\ pending \in {NoBar} \cup {<<d>> : d \in BarType}

\* The event brings data of a new moment.
Brings == call.kind \in {"tick", "open"}

\* Which events pass which phases, and when they are.
CallOK ==
  /\ call.phase = "pre" => Brings \/ call.kind = "notify"
  /\ call.phase = "main" => Brings \/ call.kind = "bar"
  /\ call.phase = "post" => Brings
  /\ call.kind = "tick" => feed = "tick" /\ call.d.v > 0
  /\ call.kind \in {"open", "bar"} => feed = "bar"
  /\ pending # NoBar => feed = "bar"
  /\ call.phase # "idle" => 0 <= call.d.ts
  /\ call.phase \in {"pre", "main"} =>
       /\ call.d.ts <= clock
       /\ Brings => lastSeen = call.d.ts
       /\ call.kind = "notify" => lastSeen <= call.d.ts
       /\ call.kind = "open" => pending # NoBar /\ pending[1].ts = call.d.ts

\* The event has not reached the timeframe yet.
Ahead(p) == call.phase = "pre" \/ (call.phase = "main" /\ p \in call.todo)

\* The newest bar stored is the converter's; a bar that is closed is over.
BarOK(p) ==
  LET f == tf[p] IN
  /\ f.store = <<>> <=> f.upper = 0
  /\ f.store # <<>> => f.store[1] = f.bar
  /\ f.upper = 0 => f.closed
  /\ f.upper # 0 => /\ f.upper = f.bar.ts + p /\ f.bar.ts <= lastSeen
                    /\ f.closed => f.upper <= clock
                    /\ call.kind = "open" /\ call.phase = "pre" => f.bar.ts < call.d.ts

\* A bar is without data only between its opening and its aggregation, which
\* reaches every timeframe that has opened it.
DataOK(p) ==
  LET f == tf[p] IN
  /\ ~f.closed /\ ~f.hasData =>
       /\ ~f.reject /\ ~(Brings /\ call.phase = "pre")
       /\ \/ pending # NoBar
          \/ call.kind = "bar" /\ call.phase = "main" /\ p \in call.todo
  /\ pending # NoBar /\ ~f.reject /\ ~(call.kind = "open" /\ Ahead(p)) =>
       f.upper > pending[1].ts
  /\ call.kind = "bar" /\ call.phase = "main" /\ p \in call.todo /\ ~f.reject =>
       f.upper > call.d.ts

\* New data finds no bar open that is over, and leaves no timeframe behind.
CurrentOK(p) ==
  LET f == tf[p] IN
  Brings /\ lastSeen = call.d.ts =>
    /\ \/ call.phase \in {"main", "post"}
       \/ call.phase = "pre" /\ p \notin call.todo
       => (f.reject <=> ShouldReject(p, call.d.ts))
    /\ \/ call.phase = "pre" /\ p \notin call.todo
       \/ call.phase = "main" /\ p \in call.todo
       => f.reject \/ f.closed \/ ~BelongsToNewBar(f, call.d.ts)
    /\ \/ call.phase = "main" /\ p \notin call.todo
       \/ call.phase = "post"
       => f.reject \/ f.upper > call.d.ts

\* The event has been taken by the timeframe and is still to be announced.
ToAnnounce(p) ==
  /\ Brings /\ ~tf[p].reject
  /\ \/ call.phase = "main" /\ p \notin call.todo
     \/ call.phase = "post" /\ p \in call.todo

IsOdd(n) == n % 2 = 1

\* Openings and closings take turns, a closing is that of the bar opened last, and
\* a bar that opens is later than the one before.
Alternates(s) ==
  \A i \in 1 .. Len(s) :
    LET what == s[i][1]
        bar == s[i][2]
    IN IF IsOdd(i)
       THEN what = "open" /\ (i > 1 => bar.ts > s[i - 1][2].ts)
       ELSE what = "close" /\ bar.ts = s[i - 1][2].ts /\ bar.o = s[i - 1][2].o

\* The last announcement is that of the current bar: it has opened, or closed, or
\* its opening is the next.
HeardOK(p) ==
  LET f == tf[p]
      n == Len(heard[p])
      last == heard[p][n][2]
  IN /\ Alternates(heard[p])
     /\ IsOdd(n) => ~f.closed /\ last.ts = f.bar.ts /\ last.o = f.bar.o
     /\ ~IsOdd(n) /\ ~f.closed => ToAnnounce(p) /\ f.curBar
     /\ ~IsOdd(n) /\ n > 0 =>
          /\ f.upper # 0
          /\ IF f.closed THEN last.ts = f.bar.ts ELSE last.ts < f.bar.ts
     /\ ToAnnounce(p) /\ f.curBar => ~f.closed /\ ~IsOdd(n) /\ lastSeen = call.d.ts
     /\ feed = "tick" /\ f.curBar => ToAnnounce(p)

\* A bar that opens from the past announces the current bar once more, live.
NoStaleOpenings == "open" \notin StaleKinds

TfOK(p) == BarOK(p) /\ DataOK(p) /\ (NoStaleOpenings => CurrentOK(p) /\ HeardOK(p))

Inv == TypesOK /\ CallOK /\ FaultsExplained /\ \A p \in Periods : TfOK(p)

-----------------------------------------------------------------------------
(* Times, bars and timeframes.                                             *)

LEMMA Bounds ==
  ASSUME NEW p \in Periods, NEW ts \in Int
  PROVE  /\ p \in Nat \ {0} /\ LowerBound(p, ts) \in Int
         /\ LowerBound(p, ts) <= ts /\ ts < LowerBound(p, ts) + p
         /\ UpperBound(p, ts) = LowerBound(p, ts) + p
<1>1. p \in Nat \ {0} /\ Day \in Nat \ {0}
  BY PeriodAssumption, DayAssumption
<1>2. \A a \in Int : \A b \in Nat \ {0} : a % b \in 0 .. b - 1
  OBVIOUS
<1>3. ts % Day \in Int
  BY <1>1, <1>2
<1>4. (ts % Day) % p \in 0 .. p - 1
  BY <1>1, <1>2, <1>3
<1> QED  BY <1>1, <1>4 DEF LowerBound, UpperBound

LEMMA Stored ==
  ASSUME NEW s \in Seq(BarType), NEW bar \in BarType
  PROVE  LET kept == SubSeq(<<bar>> \o s, 1, Min({History, Len(s) + 1}))
         IN kept \in Seq(BarType) /\ kept # <<>> /\ kept[1] = bar
<1> DEFINE all == <<bar>> \o s
           n == Min({History, Len(s) + 1})
           kept == SubSeq(all, 1, n)
<1>1. History \in Nat \ {0} /\ Len(s) \in Nat
  BY DayAssumption
<1>2. \A a, b \in Nat \ {0} : Min({a, b}) \in Nat \ {0} /\ Min({a, b}) <= b
  <2> TAKE a, b \in Nat \ {0}
  <2>1. \E x \in {a, b} : \A y \in {a, b} : x <= y
    <3>1. CASE a <= b
      BY <3>1
    <3>2. CASE b <= a
      BY <3>2
    <3> QED  BY <3>1, <3>2
  <2> QED  BY <2>1 DEF Min
<1>3. n \in Nat \ {0} /\ n <= Len(s) + 1
  BY <1>1, <1>2
<1>4. all \in Seq(BarType) /\ Len(all) = 1 + Len(s) /\ all[1] = bar
  BY ConcatProperties
<1> HIDE DEF n, all
<1>5. /\ kept \in Seq(BarType) /\ Len(kept) = n
      /\ \A i \in 1 .. n : kept[i] = all[i]
  BY <1>1, <1>3, <1>4, SubSeqProperties
<1>6. kept # <<>> /\ kept[1] = bar
  BY <1>3, <1>4, <1>5, EmptySeq
<1> QED  BY <1>5, <1>6 DEF n, all

\* What the operations change of a timeframe.
LEMMA Opened ==
  ASSUME NEW p \in Periods, NEW f \in TfType, NEW d \in BarType
  PROVE  LET g == OpenBar(p, f, d)
         IN /\ g \in TfType /\ g.store # <<>> /\ g.store[1] = g.bar
            /\ g.bar.ts = LowerBound(p, d.ts) /\ g.upper = LowerBound(p, d.ts) + p
            /\ ~g.closed /\ (g.hasData <=> d.v > 0) /\ g.curBar /\ (g.reject <=> f.reject)
<1> DEFINE bar == [d EXCEPT !.ts = LowerBound(p, d.ts)]
           kept == SubSeq(<<bar>> \o f.store, 1, Min({History, Len(f.store) + 1}))
           g == OpenBar(p, f, d)
<1>1. d.ts \in Int /\ d.v \in Int
  BY DEF BarType
<1>2. /\ p \in Nat \ {0} /\ LowerBound(p, d.ts) \in Int
      /\ UpperBound(p, d.ts) = LowerBound(p, d.ts) + p
  BY <1>1, Bounds
<1>3. bar \in BarType /\ bar.ts = LowerBound(p, d.ts)
  BY <1>2 DEF BarType
<1>4. kept \in Seq(BarType) /\ kept # <<>> /\ kept[1] = bar
  BY <1>3, Stored DEF TfType
<1> DEFINE up == UpperBound(p, d.ts)
           some == d.v > 0
           h == [f EXCEPT !.bar = bar, !.upper = up, !.closed = FALSE, !.hasData = some,
                          !.curBar = TRUE]
           n == f.total + 1
<1>5. up = LowerBound(p, d.ts) + p /\ up \in Int /\ some \in BOOLEAN /\ n \in Int
  BY <1>1, <1>2 DEF TfType
<1>6. g = StoreBar(h, bar)
  BY DEF OpenBar
<1>7. StoreBar(h, bar) = [h EXCEPT !.store = kept, !.total = n]
  BY DEF StoreBar, TfType
<1> HIDE DEF kept, bar, g, up, n
<1>8. /\ h \in TfType /\ h.bar = bar /\ h.upper = up /\ ~h.closed
      /\ (h.hasData <=> some) /\ h.curBar /\ (h.reject <=> f.reject)
  BY <1>3, <1>5 DEF TfType
<1> HIDE DEF h, some
<1>9. /\ g \in TfType /\ g.store = kept /\ g.bar = bar /\ g.upper = up /\ ~g.closed
      /\ (g.hasData <=> some) /\ g.curBar /\ (g.reject <=> f.reject)
  <2> DEFINE h2 == [h EXCEPT !.store = kept]
  <2>1. /\ h2 \in TfType /\ h2.store = kept /\ h2.bar = bar /\ h2.upper = up
        /\ ~h2.closed /\ (h2.hasData <=> some) /\ h2.curBar /\ (h2.reject <=> f.reject)
    BY <1>4, <1>8 DEF TfType
  <2>2. g = [h2 EXCEPT !.total = n]
    BY <1>6, <1>7
  <2> HIDE DEF h2
  <2> QED  BY <1>5, <2>1, <2>2 DEF TfType
<1> QED  BY <1>3, <1>4, <1>5, <1>9 DEF g, some

LEMMA Closed ==
  ASSUME NEW f \in TfType
  PROVE  LET g == DoClose(f)
         IN /\ g \in TfType /\ g.store = f.store /\ g.bar = f.bar /\ g.upper = f.upper
            /\ g.closed /\ (g.curBar <=> f.curBar) /\ (g.reject <=> f.reject)
  BY DEF DoClose, TfType

LEMMA Flagged ==
  ASSUME NEW f \in TfType, NEW b \in BOOLEAN
  PROVE  LET g == [f EXCEPT !.curBar = b]
         IN /\ g \in TfType /\ g.store = f.store /\ g.bar = f.bar /\ g.upper = f.upper
            /\ (g.closed <=> f.closed) /\ (g.hasData <=> f.hasData)
            /\ (g.curBar <=> b) /\ (g.reject <=> f.reject)
  BY DEF TfType

LEMMA Filters ==
  ASSUME NEW f \in TfType, NEW b \in BOOLEAN, NEW g, g = [f EXCEPT !.reject = b]
  PROVE  /\ g \in TfType /\ g.store = f.store /\ g.bar = f.bar /\ g.upper = f.upper
         /\ (g.closed <=> f.closed) /\ (g.hasData <=> f.hasData)
         /\ (g.curBar <=> f.curBar) /\ (g.reject <=> b)
  BY DEF TfType

LEMMA Merges ==
  ASSUME NEW f \in TfType, NEW d \in BarType, NEW b \in BOOLEAN,
         f.store # <<>>
  PROVE  LET g == [Aggregate(f, d) EXCEPT !.curBar = b]
         IN /\ g \in TfType /\ g.store # <<>> /\ g.store[1] = g.bar
            /\ g.bar.ts = f.bar.ts /\ g.bar.o = f.bar.o /\ g.upper = f.upper
            /\ (g.closed <=> f.closed) /\ g.hasData
            /\ (g.curBar <=> b) /\ (g.reject <=> f.reject)
<1> DEFINE bar == Merged(f.bar, d)
           kept == [f.store EXCEPT ![1] = bar]
           g == [Aggregate(f, d) EXCEPT !.curBar = b]
<1>1. bar \in BarType /\ bar.ts = f.bar.ts /\ bar.o = f.bar.o
  <2>1. /\ f.bar = [ts |-> f.bar.ts, o |-> f.bar.o, h |-> f.bar.h, l |-> f.bar.l,
                    c |-> f.bar.c, v |-> f.bar.v]
        /\ {f.bar.ts, f.bar.o, f.bar.h, f.bar.l, f.bar.c, f.bar.v} \subseteq Int
    BY DEF TfType, BarType
  <2>2. {d.h, d.l, d.c, d.v} \subseteq Int
    BY DEF BarType
  <2> DEFINE hi == IF d.h > f.bar.h THEN d.h ELSE f.bar.h
             lo == IF d.l < f.bar.l THEN d.l ELSE f.bar.l
  <2>3. hi \in Int /\ lo \in Int /\ f.bar.v + d.v \in Int
    BY <2>1, <2>2
  <2>4. bar = [f.bar EXCEPT !.h = hi, !.l = lo, !.c = d.c, !.v = f.bar.v + d.v]
    BY <2>1 DEF Merged
  <2> HIDE DEF hi, lo
  <2> QED  BY <2>1, <2>2, <2>3, <2>4 DEF BarType
<1>2. f.store \in Seq(BarType) /\ 1 \in 1 .. Len(f.store)
  BY EmptySeq DEF TfType
<1>3. kept \in Seq(BarType) /\ kept # <<>> /\ kept[1] = bar
  BY <1>1, <1>2, ExceptSeq, EmptySeq
<1> DEFINE h == [f EXCEPT !.bar = bar, !.hasData = TRUE, !.store = kept]
<1>4. g = [h EXCEPT !.curBar = b]
  BY DEF Aggregate
<1> HIDE DEF bar, kept, g
<1>5. /\ h \in TfType /\ h.store = kept /\ h.bar = bar /\ h.upper = f.upper
      /\ (h.closed <=> f.closed) /\ h.hasData /\ (h.reject <=> f.reject)
  BY <1>1, <1>3 DEF TfType
<1> HIDE DEF h
<1>6. /\ g \in TfType /\ g.store = kept /\ g.bar = bar /\ g.upper = f.upper
      /\ (g.closed <=> f.closed) /\ g.hasData /\ (g.curBar <=> b) /\ (g.reject <=> f.reject)
  BY <1>4, <1>5 DEF TfType
<1> QED  BY <1>1, <1>3, <1>6 DEF g

-----------------------------------------------------------------------------
(* Announcements.                                                          *)

LEMMA AlternatesOn ==
  ASSUME NEW s \in Seq(Announcements), NEW what \in {"open", "close"}, NEW bar \in BarType,
         Alternates(s),
         IsOdd(Len(s)) => /\ what = "close"
                          /\ bar.ts = s[Len(s)][2].ts /\ bar.o = s[Len(s)][2].o,
         ~IsOdd(Len(s)) => what = "open" /\ (Len(s) > 0 => bar.ts > s[Len(s)][2].ts)
  PROVE  LET t == Append(s, <<what, bar>>)
         IN /\ t \in Seq(Announcements) /\ Alternates(t)
            /\ Len(t) = Len(s) + 1 /\ t[Len(t)][2] = bar /\ Len(t) > 0
            /\ IsOdd(Len(t)) <=> ~IsOdd(Len(s))
<1> DEFINE t == Append(s, <<what, bar>>)
           n == Len(s)
<1>1. /\ t \in Seq(Announcements) /\ Len(t) = n + 1 /\ n \in Nat
      /\ t[n + 1] = <<what, bar>>
      /\ \A i \in 1 .. n : t[i] = s[i]
  BY AppendProperties DEF Announcements
<1>2. IsOdd(n + 1) <=> ~IsOdd(n)
  BY <1>1 DEF IsOdd
<1>3. ASSUME NEW i \in 1 .. n + 1
      PROVE  IF IsOdd(i) THEN t[i][1] = "open" /\ (i > 1 => t[i][2].ts > t[i - 1][2].ts)
             ELSE /\ t[i][1] = "close"
                  /\ t[i][2].ts = t[i - 1][2].ts /\ t[i][2].o = t[i - 1][2].o
  <2>1. CASE i \in 1 .. n
    <3>1. t[i] = s[i] /\ (i > 1 => t[i - 1] = s[i - 1])
      BY <1>1, <2>1
    <3>2. ~IsOdd(i) => i > 1
      BY <1>3, <1>1 DEF IsOdd
    <3> QED  BY <2>1, <3>1, <3>2 DEF Alternates
  <2>2. CASE i = n + 1
    <3>1. t[i][1] = what /\ t[i][2] = bar
      BY <1>1, <2>2
    <3>2. i - 1 = n /\ (i > 1 <=> n > 0)
      BY <1>1, <2>2
    <3>3. n > 0 => t[i - 1] = s[n]
      BY <1>1, <3>2
    <3>4. IsOdd(n) => n > 0
      BY <1>1 DEF IsOdd
    <3>5. IsOdd(i) <=> ~IsOdd(n)
      BY <1>2, <2>2
    <3> HIDE DEF t, n
    <3>6. CASE IsOdd(n)
      <4>1. t[i - 1] = s[n] /\ what = "close" /\ bar.ts = s[n][2].ts /\ bar.o = s[n][2].o
        BY <3>3, <3>4, <3>6 DEF n
      <4> QED  BY <3>1, <3>5, <3>6, <4>1
    <3>7. CASE ~IsOdd(n)
      <4>1. what = "open" /\ (n > 0 => bar.ts > s[n][2].ts)
        BY <3>7 DEF n
      <4> QED  BY <3>1, <3>2, <3>3, <3>5, <3>7, <4>1
    <3> QED  BY <3>6, <3>7
  <2>3. i \in 1 .. n \/ i = n + 1
    BY <1>1, <1>3
  <2> QED  BY <2>1, <2>2, <2>3
<1>4. Alternates(t)
  BY <1>1, <1>3 DEF Alternates
<1>5. t[Len(t)][2] = bar /\ Len(t) > 0
  BY <1>1
<1> QED  BY <1>1, <1>2, <1>4, <1>5

-----------------------------------------------------------------------------
(* A timeframe passes a phase.                                             *)

\* What the timeframes that do not pass now see of it: nothing.
LEMMA OthersKeep ==
  ASSUME Inv, NEW p \in Periods, NEW f, Pass(p, f),
         NEW q \in Periods \ {p}, heard'[q] = heard[q]
  PROVE  TfOK(q)'
<1>1. /\ call \in CallType /\ tf \in [Periods -> TfType] /\ TfOK(q)
  BY DEF Inv, TypesOK
<1>2. /\ call'.kind = call.kind /\ call'.d = call.d /\ call'.phase = call.phase
      /\ call'.todo = call.todo \ {p}
  BY <1>1 DEF Pass, CallType
<1>3. q \in call'.todo <=> q \in call.todo
  BY <1>2
<1>4. tf'[q] = tf[q] /\ UNCHANGED <<feed, lastSeen, pending, clock>>
  BY <1>1 DEF Pass
<1>5. BarOK(q)'
  BY <1>1, <1>2, <1>4 DEF TfOK, BarOK
<1>6. DataOK(q)'
  BY <1>1, <1>2, <1>3, <1>4 DEF TfOK, DataOK, Brings, Ahead
<1>7. NoStaleOpenings => CurrentOK(q)'
  BY <1>1, <1>2, <1>3, <1>4 DEF TfOK, CurrentOK, Brings
<1>8. NoStaleOpenings => HeardOK(q)'
  <2>1. ToAnnounce(q)' <=> ToAnnounce(q)
    BY <1>2, <1>3, <1>4 DEF ToAnnounce, Brings
  <2> QED  BY <1>1, <1>2, <1>4, <2>1 DEF TfOK, HeardOK
<1> QED  BY <1>5, <1>6, <1>7, <1>8 DEF TfOK

\* It is enough to look at the timeframe that passes.
LEMMA PassKeeps ==
  ASSUME Inv, fault = "none", NEW p \in Periods, NEW f \in TfType, Pass(p, f),
         heard' \in [Periods -> Seq(Announcements)],
         \A q \in Periods \ {p} : heard'[q] = heard[q],
         TfOK(p)'
  PROVE  Inv'
<1>1. TypesOK /\ CallOK
  BY DEF Inv
<1>2. call' = [call EXCEPT !.todo = @ \ {p}]
  BY DEF Pass
<1>3. /\ call' \in CallType
      /\ call'.kind = call.kind /\ call'.d = call.d /\ call'.phase = call.phase
  BY <1>1, <1>2 DEF TypesOK, CallType
<1>4. tf' \in [Periods -> TfType]
  BY <1>1 DEF Pass, TypesOK
<1>5. UNCHANGED <<feed, backtesting, lastSeen, fault, pending, clock>>
  BY DEF Pass
<1>6. TypesOK'
  BY <1>1, <1>3, <1>4, <1>5 DEF TypesOK
<1>7. CallOK'
  BY <1>1, <1>3, <1>5 DEF CallOK, Brings
<1>8. FaultsExplained'
  BY <1>5 DEF FaultsExplained
<1>9. \A q \in Periods : TfOK(q)'
  BY OthersKeep
<1> QED  BY <1>6, <1>7, <1>8, <1>9 DEF Inv

\* A timeframe throws; nothing has been changed.
LEMMA FailKeeps ==
  ASSUME Inv, NEW why, Fail(why), FaultsExplained'
  PROVE  Inv'
<1>1. UNCHANGED <<feed, backtesting, lastSeen, tf, call, heard, pending, clock>>
  BY DEF Fail
<1>2. TypesOK'
  BY <1>1 DEF Inv, TypesOK
<1>3. CallOK'
  BY <1>1 DEF Inv, CallOK, Brings
<1>4. ASSUME NEW p \in Periods PROVE TfOK(p)'
  BY <1>1 DEF Inv, TfOK, BarOK, DataOK, CurrentOK, HeardOK, ToAnnounce, Ahead, Brings
<1> QED  BY <1>2, <1>3, <1>4 DEF Inv


\* _newTick_pre, _newBarOpen_pre, _notifyDateTime: the first phase.
LEMMA ClosePhaseKeeps == ASSUME Inv, NEW p \in Periods, ClosePhase(p) PROVE Inv'
<1> DEFINE ts == call.d.ts
           f == IF call.kind = "notify" THEN tf[p]
                ELSE [tf[p] EXCEPT !.reject = ShouldReject(p, ts)]
           filtered == call.kind # "notify" /\ f.reject
           recent == Recent(f, ts, call.kind = "tick")
<1>1. TypesOK /\ CallOK /\ FaultsExplained /\ TfOK(p) /\ BarOK(p) /\ DataOK(p)
  BY DEF Inv, TfOK
<1>2. /\ fault = "none" /\ call.phase = "pre" /\ p \in call.todo
  BY DEF ClosePhase, In
<1>3. /\ tf[p] \in TfType /\ call \in CallType /\ ts \in Int /\ lastSeen \in Int
      /\ clock \in Int /\ heard \in [Periods -> Seq(Announcements)] /\ p \in Nat \ {0}
  BY <1>1, PeriodAssumption DEF TypesOK, CallType, BarType
<1>4. /\ f \in TfType /\ f.store = tf[p].store /\ f.bar = tf[p].bar
      /\ f.upper = tf[p].upper /\ (f.closed <=> tf[p].closed)
      /\ (f.hasData <=> tf[p].hasData) /\ (f.curBar <=> tf[p].curBar)
      /\ call.kind # "notify" => (f.reject <=> ShouldReject(p, ts))
      /\ call.kind = "notify" => (f.reject <=> tf[p].reject)
  <2>1. ShouldReject(p, ts) \in BOOLEAN
    BY DEF ShouldReject
  <2>2. CASE call.kind = "notify"
    BY <1>3, <2>2
  <2>3. CASE call.kind # "notify"
    <3>1. f = [tf[p] EXCEPT !.reject = ShouldReject(p, ts)]
      BY <2>3
    <3> HIDE DEF f
    <3> QED  BY <1>3, <2>1, <2>3, <3>1, Filters
  <2> QED  BY <2>2, <2>3
<1>5. f.upper \in Int /\ f.bar.ts \in Int
  BY <1>3, <1>4 DEF TfType, BarType
<1>6. /\ call.kind = "tick" \/ call.kind = "open" \/ call.kind = "notify"
      /\ 0 <= ts /\ ts <= clock
      /\ call.kind # "notify" => lastSeen = ts /\ Brings
      /\ call.kind = "notify" => lastSeen <= ts
  BY <1>1, <1>2 DEF CallOK, Brings
<1>7. /\ filtered /\ Pass(p, f) /\ UNCHANGED heard
      \/ /\ ~filtered /\ ~recent /\ Fail("notRecent")
      \/ /\ ~filtered /\ recent /\ ~Due(f, ts) /\ Pass(p, f) /\ UNCHANGED heard
      \/ /\ ~filtered /\ recent /\ Due(f, ts) /\ ~f.hasData /\ Fail("noData")
      \/ /\ ~filtered /\ recent /\ Due(f, ts) /\ f.hasData
         /\ Pass(p, DoClose(f)) /\ Announce(p, "close", f.bar)
  BY DEF ClosePhase
<1> HIDE DEF f
<1>8. ASSUME NEW g, Pass(p, g)
      PROVE  /\ tf'[p] = g /\ call'.kind = call.kind /\ call'.d = call.d
             /\ call'.phase = "pre" /\ p \notin call'.todo
             /\ UNCHANGED <<feed, lastSeen, pending, clock>>
  BY <1>2, <1>3, <1>8 DEF Pass, CallType, TypesOK, Inv
<1>9. CASE Pass(p, f) /\ UNCHANGED heard /\ (filtered \/ ~Due(f, ts))
  <2>1. BarOK(p)'
    BY <1>1, <1>2, <1>4, <1>8, <1>9 DEF BarOK
  <2>2. DataOK(p)'
    BY <1>1, <1>2, <1>4, <1>6, <1>8, <1>9 DEF DataOK, CallOK, Brings, Ahead
  <2>3. CurrentOK(p)'
    <3>1. f.reject \/ f.closed \/ ~BelongsToNewBar(f, ts)
      BY <1>9 DEF Due
    <3> QED  BY <1>4, <1>8, <1>9, <3>1 DEF CurrentOK, Brings
  <2>4. NoStaleOpenings => HeardOK(p)'
    <3>1. ~ToAnnounce(p) /\ ~ToAnnounce(p)'
      BY <1>2, <1>8, <1>9 DEF ToAnnounce
    <3> QED  BY <1>1, <1>4, <1>8, <1>9, <3>1 DEF TfOK, HeardOK
  <2>5. TfOK(p)'
    BY <2>1, <2>2, <2>3, <2>4 DEF TfOK
  <2> QED  BY <1>2, <1>3, <1>4, <1>9, <2>5, PassKeeps
<1>10. CASE ~filtered /\ Due(f, ts) /\ f.hasData /\ Pass(p, DoClose(f)) /\ Announce(p, "close", f.bar)
  <2> DEFINE g == DoClose(f)
             t == Append(heard[p], <<"close", f.bar>>)
  <2>1. /\ g \in TfType /\ g.store = f.store /\ g.bar = f.bar /\ g.upper = f.upper
        /\ g.closed /\ (g.curBar <=> f.curBar) /\ (g.reject <=> f.reject)
    BY <1>4, Closed
  <2>2. tf'[p] = g /\ heard'[p] = t /\ (\A q \in Periods \ {p} : heard'[q] = heard[q])
    BY <1>3, <1>8, <1>10 DEF Announce
  <2>11. /\ call'.kind = call.kind /\ call'.d = call.d
         /\ call'.phase = "pre" /\ p \notin call'.todo
         /\ UNCHANGED <<feed, lastSeen, pending, clock>>
    BY <1>8, <1>10
  <2>3. ~tf[p].closed /\ tf[p].upper # 0 /\ tf[p].upper <= ts
    BY <1>1, <1>4, <1>10 DEF Due, BelongsToNewBar, BarOK
  <2> HIDE DEF g, t
  <2>4. BarOK(p)'
    <3>1. /\ f.store = <<>> <=> f.upper = 0
          /\ f.store # <<>> => f.store[1] = f.bar
          /\ f.upper # 0 => f.upper = f.bar.ts + p /\ f.bar.ts <= lastSeen
          /\ call.kind = "open" /\ f.upper # 0 => f.bar.ts < call.d.ts
      BY <1>1, <1>2, <1>4, <2>3 DEF BarOK
    <3>2. f.upper # 0 /\ f.upper <= clock
      BY <1>3, <1>4, <1>5, <1>6, <2>3
    <3> HIDE DEF f
    <3> QED  BY <1>3, <1>5, <1>6, <2>1, <2>2, <2>11, <3>1, <3>2 DEF BarOK
  <2>5. DataOK(p)'
    BY <1>1, <1>2, <1>4, <1>6, <2>11, <2>1, <2>2 DEF DataOK, CallOK, Brings, Ahead
  <2>6. CurrentOK(p)'
    BY <1>4, <1>10, <2>11, <2>1, <2>2 DEF CurrentOK, Brings
  <2>7. t \in Seq(Announcements)
    BY <1>3, <1>4, AppendProperties DEF t, Announcements, TfType
  <2>8. NoStaleOpenings => HeardOK(p)'
    <3> SUFFICES ASSUME NoStaleOpenings PROVE HeardOK(p)'
      OBVIOUS
    <3> DEFINE n == Len(heard[p])
    <3>1. ~ToAnnounce(p) /\ ~ToAnnounce(p)'
      BY <1>2, <2>11 DEF ToAnnounce
    <3>2. HeardOK(p)
      BY <1>1 DEF TfOK
    <3>3. /\ Alternates(heard[p]) /\ IsOdd(n)
          /\ heard[p][n][2].ts = f.bar.ts /\ heard[p][n][2].o = f.bar.o
          /\ ~(feed = "tick" /\ f.curBar)
      BY <1>4, <2>3, <3>1, <3>2 DEF HeardOK
    <3>4. /\ Alternates(t) /\ ~IsOdd(Len(t)) /\ t[Len(t)][2] = f.bar
      BY <1>3, <1>4, <3>3, AlternatesOn DEF t, TfType
    <3> HIDE DEF n
    <3> QED  BY <1>4, <2>11, <2>1, <2>2, <2>3, <3>1, <3>3, <3>4 DEF HeardOK
  <2>9. heard' \in [Periods -> Seq(Announcements)]
    BY <1>3, <1>10, <2>7 DEF Announce, t
  <2>10. TfOK(p)'
    BY <2>4, <2>5, <2>6, <2>8 DEF TfOK
  <2> QED  BY <1>2, <1>10, <2>1, <2>2, <2>9, <2>10, PassKeeps DEF g
<1>11. CASE ~filtered /\ ~recent /\ Fail("notRecent")
  <2>1. f.store # <<>> /\ f.store[1] = f.bar /\ f.upper # 0 /\ f.bar.ts <= lastSeen
        /\ (call.kind = "open" => f.bar.ts < ts)
    BY <1>1, <1>2, <1>4, <1>11 DEF Recent, BarOK
  <2>2. CASE call.kind = "tick"
    BY <1>3, <1>5, <1>6, <1>11, <2>1, <2>2 DEF Recent
  <2>3. CASE call.kind = "open"
    BY <1>3, <1>5, <1>6, <1>11, <2>1, <2>3 DEF Recent
  <2>4. CASE call.kind = "notify"
    <3>1. ~(f.bar.ts < ts)
      BY <1>11, <2>1, <2>4 DEF Recent
    <3>2. ts = f.bar.ts
      BY <1>3, <1>5, <1>6, <2>1, <2>4, <3>1
    <3>3. FaultsExplained'
      BY <1>2, <1>4, <1>11, <2>1, <2>4, <3>2 DEF FaultsExplained, Fail
    <3> QED  BY <1>11, <3>3, FailKeeps
  <2> QED  BY <1>6, <2>2, <2>3, <2>4
<1>12. CASE ~filtered /\ Due(f, ts) /\ ~f.hasData /\ Fail("noData")
  <2>1. ~tf[p].closed /\ ~tf[p].hasData
    BY <1>4, <1>12 DEF Due
  <2>2. call.kind = "notify" /\ pending # NoBar
    BY <1>1, <1>2, <1>6, <2>1 DEF DataOK
  <2>3. FaultsExplained'
    BY <1>12, <2>2 DEF FaultsExplained, Fail
  <2> QED  BY <1>12, <2>3, FailKeeps
<1> QED  BY <1>7, <1>9, <1>10, <1>11, <1>12


\* _newTick, _newBarOpen, _newBarAggregate: the phase in which the data is taken.
LEMMA DataPhaseKeeps == ASSUME Inv, NEW p \in Periods, DataPhase(p) PROVE Inv'
<1> DEFINE f == tf[p]
           d == call.d
           opens == call.kind # "bar" /\ BelongsToNewBar(f, d.ts)
           merges == call.kind = "bar" \/ (call.kind = "tick" /\ ~opens)
           isBar == call.kind = "bar"
           passive == [f EXCEPT !.curBar = FALSE]
           merged == [Aggregate(f, d) EXCEPT !.curBar = isBar]
<1>1. TypesOK /\ CallOK /\ FaultsExplained /\ TfOK(p) /\ BarOK(p) /\ DataOK(p)
  BY DEF Inv, TfOK
<1>2. fault = "none" /\ call.phase = "main" /\ p \in call.todo /\ UNCHANGED heard
  BY DEF DataPhase, In
<1>3. /\ f \in TfType /\ call \in CallType /\ d \in BarType /\ d.ts \in Int
      /\ lastSeen \in Int /\ clock \in Int /\ p \in Nat \ {0}
      /\ heard \in [Periods -> Seq(Announcements)]
  BY <1>1, PeriodAssumption DEF TypesOK, CallType, BarType
<1>4. f.upper \in Int /\ f.bar.ts \in Int
  BY <1>3 DEF TfType, BarType
<1>5. /\ call.kind = "tick" \/ call.kind = "open" \/ call.kind = "bar"
      /\ 0 <= d.ts /\ d.ts <= clock
      /\ call.kind # "bar" => lastSeen = d.ts /\ Brings
      /\ call.kind = "tick" => feed = "tick" /\ d.v > 0 /\ pending = NoBar
      /\ call.kind = "open" => feed = "bar" /\ pending # NoBar /\ pending[1].ts = d.ts
  BY <1>1, <1>2 DEF CallOK, Brings
<1>6. \/ f.reject /\ Pass(p, f)
      \/ ~f.reject /\ opens /\ Pass(p, OpenBar(p, f, d))
      \/ ~f.reject /\ ~opens /\ ~merges /\ Pass(p, passive)
      \/ ~f.reject /\ merges /\ CanAggregate(f, d) /\ Pass(p, merged)
      \/ ~f.reject /\ merges /\ ~CanAggregate(f, d) /\ Fail("notOpen")
  BY DEF DataPhase
<1>7. ASSUME NEW g, Pass(p, g)
      PROVE  /\ tf'[p] = g /\ call'.kind = call.kind /\ call'.d = call.d
             /\ call'.phase = "main" /\ p \notin call'.todo
             /\ UNCHANGED <<feed, lastSeen, pending, clock>>
  BY <1>1, <1>2, <1>3, <1>7 DEF Pass, CallType, TypesOK
<1>8. ~ToAnnounce(p)
  BY <1>2 DEF ToAnnounce
<1>9. ASSUME NEW g \in TfType, Pass(p, g), BarOK(p)', DataOK(p)',
             NoStaleOpenings => CurrentOK(p)' /\ HeardOK(p)'
      PROVE  Inv'
  BY <1>2, <1>3, <1>9, PassKeeps DEF TfOK
<1> HIDE DEF f, d
<1>10. CASE f.reject /\ Pass(p, f)
  <2>1. /\ tf'[p] = f /\ call'.kind = call.kind /\ call'.d = call.d
        /\ call'.phase = "main" /\ p \notin call'.todo
        /\ UNCHANGED <<feed, lastSeen, pending, clock>>
    BY <1>7, <1>10
  <2>2. BarOK(p)'
    BY <1>1, <1>2, <2>1 DEF BarOK, f
  <2>3. DataOK(p)'
    BY <1>1, <1>2, <1>10, <2>1 DEF DataOK, Brings, Ahead, f
  <2>4. CurrentOK(p)' \/ ~NoStaleOpenings
    BY <1>1, <1>2, <1>10, <2>1 DEF CurrentOK, Brings, f, TfOK
  <2>5. NoStaleOpenings => HeardOK(p)'
    <3>1. ~ToAnnounce(p)'
      BY <1>10, <2>1 DEF ToAnnounce
    <3> QED  BY <1>1, <1>2, <1>8, <2>1, <3>1 DEF TfOK, HeardOK, f
  <2> QED  BY <1>3, <1>9, <1>10, <2>2, <2>3, <2>4, <2>5
<1>11. CASE ~f.reject /\ opens /\ Pass(p, OpenBar(p, f, d))
  <2> DEFINE g == OpenBar(p, f, d)
             lower == LowerBound(p, d.ts)
  <2>1. /\ tf'[p] = g /\ call'.kind = call.kind /\ call'.d = call.d
        /\ call'.phase = "main" /\ p \notin call'.todo
        /\ UNCHANGED <<feed, lastSeen, pending, clock>>
    BY <1>7, <1>11
  <2>2. /\ g \in TfType /\ g.store # <<>> /\ g.store[1] = g.bar
        /\ g.bar.ts = lower /\ g.upper = lower + p
        /\ ~g.closed /\ (g.hasData <=> d.v > 0) /\ g.curBar /\ (g.reject <=> f.reject)
    BY <1>3, Opened
  <2>3. lower \in Int /\ lower <= d.ts /\ d.ts < lower + p
    BY <1>3, Bounds
  <2>4. Pass(p, g) /\ (call.kind = "tick" \/ call.kind = "open")
    BY <1>5, <1>11
  <2> HIDE DEF g, lower
  <2>5. BarOK(p)'
    BY <1>2, <1>3, <1>5, <2>1, <2>2, <2>3, <2>4 DEF BarOK
  <2>6. DataOK(p)'
    BY <1>2, <1>5, <1>11, <2>1, <2>2, <2>3, <2>4 DEF DataOK, Brings, Ahead, d
  <2>7. NoStaleOpenings => CurrentOK(p)'
    BY <1>1, <1>2, <1>11, <2>1, <2>2, <2>3, <2>4 DEF CurrentOK, Brings, f, d, TfOK
  <2>8. NoStaleOpenings => HeardOK(p)'
    <3> SUFFICES ASSUME NoStaleOpenings PROVE HeardOK(p)'
      OBVIOUS
    <3>1. ToAnnounce(p)'
      BY <1>11, <2>1, <2>2, <2>4 DEF ToAnnounce, Brings
    <3>2. HeardOK(p) /\ CurrentOK(p)
      BY <1>1 DEF TfOK
    <3>3. f.closed /\ (f.upper = 0 \/ f.upper <= d.ts)
      BY <1>2, <1>5, <1>11, <3>2 DEF CurrentOK, BelongsToNewBar, f, d
    <3> DEFINE n == Len(heard[p])
               last == heard[p][n][2]
    <3>4. /\ Alternates(heard[p]) /\ ~IsOdd(n)
          /\ n > 0 => f.upper # 0 /\ last.ts = f.bar.ts
      BY <3>2, <3>3 DEF HeardOK, f
    <3>5. n > 0 => last.ts < lower
      <4>1. n > 0 => f.upper = f.bar.ts + p
        BY <1>1, <3>4 DEF BarOK, f
      <4> QED  BY <1>3, <1>4, <2>3, <3>3, <3>4, <4>1
    <3>6. g.upper # 0
      BY <1>3, <1>5, <2>2, <2>3
    <3>7. heard'[p] = heard[p]
      BY <1>2
    <3>8. lastSeen' = call'.d.ts
      BY <1>5, <2>1, <2>4 DEF d
    <3> HIDE DEF n, last
    <3> QED  BY <2>1, <2>2, <3>1, <3>4, <3>5, <3>6, <3>7, <3>8 DEF HeardOK, n, last
  <2> QED  BY <1>9, <2>2, <2>4, <2>5, <2>6, <2>7, <2>8
<1>12. CASE ~f.reject /\ ~opens /\ ~merges /\ Pass(p, passive)
  <2>1. /\ tf'[p] = passive /\ call'.kind = call.kind /\ call'.d = call.d
        /\ call'.phase = "main" /\ p \notin call'.todo
        /\ UNCHANGED <<feed, lastSeen, pending, clock>>
    BY <1>7, <1>12
  <2>2. /\ passive \in TfType /\ passive.store = f.store /\ passive.bar = f.bar
        /\ passive.upper = f.upper /\ (passive.closed <=> f.closed)
        /\ (passive.hasData <=> f.hasData) /\ ~passive.curBar
        /\ (passive.reject <=> f.reject)
    BY <1>3, Flagged
  <2>3. call.kind = "open" /\ f.upper # 0 /\ f.upper > d.ts
    BY <1>3, <1>4, <1>5, <1>12 DEF BelongsToNewBar
  <2> HIDE DEF passive
  <2>4. BarOK(p)'
    BY <1>1, <1>2, <2>1, <2>2 DEF BarOK, f
  <2>5. DataOK(p)'
    BY <1>1, <1>2, <1>5, <1>12, <2>1, <2>2, <2>3 DEF DataOK, Brings, Ahead, f, d
  <2>6. NoStaleOpenings => CurrentOK(p)'
    BY <1>1, <1>2, <2>1, <2>2, <2>3 DEF CurrentOK, Brings, f, d, TfOK
  <2>7. NoStaleOpenings => HeardOK(p)'
    BY <1>1, <1>2, <1>8, <2>1, <2>2 DEF HeardOK, f, TfOK
  <2> QED  BY <1>9, <1>12, <2>2, <2>4, <2>5, <2>6, <2>7
<1>13. CASE ~f.reject /\ merges /\ CanAggregate(f, d) /\ Pass(p, merged)
  <2>1. /\ tf'[p] = merged /\ call'.kind = call.kind /\ call'.d = call.d
        /\ call'.phase = "main" /\ p \notin call'.todo
        /\ UNCHANGED <<feed, lastSeen, pending, clock>>
    BY <1>7, <1>13
  <2>4. (isBar <=> call.kind = "bar") /\ isBar \in BOOLEAN
    OBVIOUS
  <2> HIDE DEF isBar
  <2>2. ~f.closed /\ f.upper # 0 /\ f.store # <<>> /\ f.upper > d.ts
    BY <1>1, <1>3, <1>4, <1>13 DEF CanAggregate, BelongsToNewBar, BarOK, f
  <2>3. /\ merged \in TfType /\ merged.store # <<>> /\ merged.store[1] = merged.bar
        /\ merged.bar.ts = f.bar.ts /\ merged.bar.o = f.bar.o /\ merged.upper = f.upper
        /\ (merged.closed <=> f.closed) /\ merged.hasData
        /\ (merged.curBar <=> isBar) /\ (merged.reject <=> f.reject)
    BY <1>3, <2>2, <2>4, Merges
  <2>5. call.kind = "bar" \/ call.kind = "tick"
    BY <1>13
  <2> HIDE DEF merged
  <2>6. BarOK(p)'
    BY <1>1, <1>2, <2>1, <2>2, <2>3 DEF BarOK, f
  <2>7. DataOK(p)'
    BY <1>1, <1>2, <1>5, <2>1, <2>2, <2>3, <2>5 DEF DataOK, Brings, Ahead, f, d
  <2>8. NoStaleOpenings => CurrentOK(p)'
    BY <1>1, <1>2, <2>1, <2>2, <2>3 DEF CurrentOK, Brings, f, d, TfOK
  <2>9. NoStaleOpenings => HeardOK(p)'
    <3> SUFFICES ASSUME NoStaleOpenings PROVE HeardOK(p)'
      OBVIOUS
    <3>1. HeardOK(p)
      BY <1>1 DEF TfOK
    <3> DEFINE n == Len(heard[p])
    <3>2. /\ Alternates(heard[p]) /\ IsOdd(n)
          /\ heard[p][n][2].ts = f.bar.ts /\ heard[p][n][2].o = f.bar.o
      BY <1>8, <2>2, <3>1 DEF HeardOK, f
    <3>3. ~(ToAnnounce(p)' /\ merged.curBar)
      BY <2>1, <2>3, <2>4 DEF ToAnnounce, Brings
    <3>4. feed = "tick" => ~merged.curBar
      BY <1>1, <2>3, <2>4, <1>5 DEF CallOK, TypesOK, CallType
    <3>5. heard'[p] = heard[p]
      BY <1>2
    <3> HIDE DEF n
    <3> QED  BY <2>1, <2>2, <2>3, <3>2, <3>3, <3>4, <3>5 DEF HeardOK, n
  <2> QED  BY <1>9, <1>13, <2>3, <2>6, <2>7, <2>8, <2>9
<1>14. CASE ~f.reject /\ merges /\ ~CanAggregate(f, d) /\ Fail("notOpen")
  <2>1. f.upper # 0 /\ f.upper > d.ts
    <3>1. CASE call.kind = "bar"
      BY <1>1, <1>2, <1>3, <1>4, <1>5, <1>14, <3>1 DEF DataOK, f, d
    <3>2. CASE call.kind = "tick"
      BY <1>3, <1>4, <1>14, <3>2 DEF BelongsToNewBar
    <3> QED  BY <1>14, <3>1, <3>2
  <2>2. f.closed /\ f.upper <= clock
    BY <1>1, <1>3, <1>4, <1>14, <2>1 DEF CanAggregate, BelongsToNewBar, BarOK, f
  <2>3. d.ts < clock
    BY <1>3, <1>4, <2>1, <2>2
  <2>4. FaultsExplained'
    BY <1>14, <2>3 DEF FaultsExplained, Fail, d
  <2> QED  BY <1>14, <2>4, FailKeeps
<1> QED  BY <1>6, <1>10, <1>11, <1>12, <1>13, <1>14

\* _newBarOpen_post: the phase in which openings are announced.
LEMMA AnnouncePhaseKeeps == ASSUME Inv, NEW p \in Periods, AnnouncePhase(p) PROVE Inv'
<1> DEFINE f == tf[p]
           g == Announced(f)
           t == Append(heard[p], <<"open", f.bar>>)
<1>1. TypesOK /\ CallOK /\ FaultsExplained /\ TfOK(p) /\ BarOK(p) /\ DataOK(p)
  BY DEF Inv, TfOK
<1>2. fault = "none" /\ call.phase = "post" /\ p \in call.todo /\ Brings
  BY <1>1 DEF AnnouncePhase, In, CallOK
<1>3. /\ f \in TfType /\ call \in CallType
      /\ heard \in [Periods -> Seq(Announcements)] /\ f.bar \in BarType
  BY <1>1 DEF TypesOK, TfType
<1>4. \/ (f.reject \/ ~f.curBar) /\ Pass(p, f) /\ UNCHANGED heard
      \/ ~f.reject /\ f.curBar /\ Pass(p, g) /\ Announce(p, "open", f.bar)
  BY DEF AnnouncePhase
<1>5. ASSUME NEW h, Pass(p, h)
      PROVE  /\ tf'[p] = h /\ call'.kind = call.kind /\ call'.d = call.d
             /\ call'.phase = "post" /\ p \notin call'.todo
             /\ UNCHANGED <<feed, lastSeen, pending, clock>>
  BY <1>1, <1>2, <1>3, <1>5 DEF Pass, CallType, TypesOK
<1>6. ToAnnounce(p) <=> ~f.reject
  BY <1>2 DEF ToAnnounce
<1> HIDE DEF f
<1>7. CASE (f.reject \/ ~f.curBar) /\ Pass(p, f) /\ UNCHANGED heard
  <2>1. /\ tf'[p] = f /\ call'.kind = call.kind /\ call'.d = call.d
        /\ call'.phase = "post" /\ p \notin call'.todo
        /\ UNCHANGED <<feed, lastSeen, pending, clock>>
    BY <1>5, <1>7
  <2>2. BarOK(p)'
    BY <1>1, <1>2, <2>1 DEF BarOK, f
  <2>3. DataOK(p)'
    BY <1>1, <1>2, <2>1 DEF DataOK, Brings, Ahead, f
  <2>4. NoStaleOpenings => CurrentOK(p)'
    BY <1>1, <1>2, <2>1 DEF CurrentOK, Brings, f, TfOK
  <2>5. NoStaleOpenings => HeardOK(p)'
    <3>1. ~ToAnnounce(p)'
      BY <2>1 DEF ToAnnounce
    <3>2. ~(ToAnnounce(p) /\ f.curBar)
      BY <1>6, <1>7
    <3> QED  BY <1>1, <1>7, <2>1, <3>1, <3>2 DEF TfOK, HeardOK, f
  <2> QED  BY <1>2, <1>3, <1>7, <2>2, <2>3, <2>4, <2>5, PassKeeps DEF TfOK
<1>8. CASE ~f.reject /\ f.curBar /\ Pass(p, g) /\ Announce(p, "open", f.bar)
  <2>1. /\ g \in TfType /\ g.store = f.store /\ g.bar = f.bar /\ g.upper = f.upper
        /\ (g.closed <=> f.closed) /\ (g.hasData <=> f.hasData)
        /\ ~g.curBar /\ (g.reject <=> f.reject)
    BY <1>3, Flagged DEF Announced
  <2>2. /\ tf'[p] = g /\ call'.kind = call.kind /\ call'.d = call.d
        /\ call'.phase = "post" /\ p \notin call'.todo
        /\ UNCHANGED <<feed, lastSeen, pending, clock>>
    BY <1>5, <1>8
  <2>3. heard'[p] = t /\ \A q \in Periods \ {p} : heard'[q] = heard[q]
    BY <1>3, <1>8 DEF Announce
  <2> HIDE DEF g, t
  <2>4. BarOK(p)'
    BY <1>1, <1>2, <2>1, <2>2 DEF BarOK, f
  <2>5. DataOK(p)'
    BY <1>1, <1>2, <2>1, <2>2 DEF DataOK, Brings, Ahead, f
  <2>6. NoStaleOpenings => CurrentOK(p)'
    BY <1>1, <1>2, <2>1, <2>2 DEF CurrentOK, Brings, f, TfOK
  <2>7. NoStaleOpenings => HeardOK(p)'
    <3> SUFFICES ASSUME NoStaleOpenings PROVE HeardOK(p)'
      OBVIOUS
    <3> DEFINE n == Len(heard[p])
    <3>1. HeardOK(p) /\ ToAnnounce(p)
      BY <1>1, <1>6, <1>8 DEF TfOK
    <3>2. /\ Alternates(heard[p]) /\ ~f.closed /\ ~IsOdd(n)
          /\ n > 0 => f.bar.ts > heard[p][n][2].ts
      <4>1. Alternates(heard[p]) /\ ~f.closed /\ ~IsOdd(n)
        BY <1>8, <3>1 DEF HeardOK, f
      <4>2. n > 0 => heard[p][n][2].ts < f.bar.ts
        BY <3>1, <4>1 DEF HeardOK, f
      <4>3. ASSUME n > 0 PROVE heard[p][n][2].ts \in Int /\ f.bar.ts \in Int
        <5>1. heard[p][n] \in Announcements
          BY <1>3, <4>3
        <5>2. heard[p][n][2] \in BarType
          BY <5>1 DEF Announcements
        <5> QED  BY <1>3, <5>2 DEF BarType
      <4> QED  BY <4>1, <4>2, <4>3
    <3>3. Alternates(t) /\ IsOdd(Len(t)) /\ t[Len(t)][2] = f.bar
      BY <1>3, <3>2, AlternatesOn DEF t
    <3>4. ~ToAnnounce(p)'
      BY <2>2 DEF ToAnnounce
    <3> HIDE DEF n
    <3> QED  BY <2>1, <2>2, <2>3, <3>2, <3>3, <3>4 DEF HeardOK
  <2>8. t \in Seq(Announcements)
    BY <1>3, AppendProperties DEF t, Announcements
  <2>9. heard' \in [Periods -> Seq(Announcements)]
    BY <1>3, <1>8, <2>8 DEF Announce, t
  <2>10. TfOK(p)'
    BY <2>4, <2>5, <2>6, <2>7 DEF TfOK
  <2> QED  BY <1>2, <1>8, <2>1, <2>3, <2>9, <2>10, PassKeeps
<1> QED  BY <1>4, <1>7, <1>8

\* The next phase begins, or the event is over.
LEMMA NextPhaseKeeps == ASSUME Inv, NextPhase PROVE Inv'
<1> DEFINE phase == PhaseAfter(call.phase, call.kind)
<1>1. TypesOK /\ CallOK /\ FaultsExplained
  BY DEF Inv
<1>2. /\ fault = "none" /\ call.phase # "idle" /\ call.todo = {}
      /\ call' = IF phase = "idle" THEN Idle ELSE Event(call.kind, call.d, phase)
      /\ UNCHANGED <<feed, backtesting, lastSeen, tf, fault, taken, heard, pending, clock>>
  BY DEF NextPhase
<1>3. call \in CallType
  BY <1>1 DEF TypesOK
<1>4. /\ Idle \in CallType
      /\ Idle.kind = "none" /\ Idle.phase = "idle" /\ Idle.todo = {}
  BY DEF Idle, CallType, BarType, EmptyBar
<1>5. ASSUME NEW r \in {"main", "post"}
      PROVE  LET e == Event(call.kind, call.d, r)
             IN /\ e \in CallType /\ e.kind = call.kind /\ e.d = call.d
                /\ e.phase = r /\ e.todo = Periods
  BY <1>3 DEF Event, CallType
<1>6. \/ call.phase = "pre" /\ Brings /\ phase = "main"
      \/ call.phase = "main" /\ Brings /\ phase = "post"
      \/ phase = "idle"
  BY <1>1, <1>2, <1>3 DEF PhaseAfter, CallOK, Brings, CallType
<1>7. FaultsExplained'
  BY <1>2 DEF FaultsExplained
<1> HIDE DEF phase
<1>8. CASE call.phase = "pre" /\ Brings /\ phase = "main"
  <2>1. /\ call' \in CallType /\ call'.kind = call.kind /\ call'.d = call.d
        /\ call'.phase = "main" /\ call'.todo = Periods
    BY <1>2, <1>5, <1>8
  <2>2. TypesOK' /\ CallOK'
    BY <1>1, <1>2, <1>8, <2>1 DEF TypesOK, CallOK, Brings
  <2>3. ASSUME NEW p \in Periods PROVE TfOK(p)'
    <3>1. TfOK(p) /\ BarOK(p) /\ DataOK(p)
      BY DEF Inv, TfOK
    <3>2. BarOK(p)'
      BY <1>2, <1>8, <2>1, <3>1 DEF BarOK
    <3>3. DataOK(p)'
      BY <1>2, <1>8, <2>1, <3>1 DEF DataOK, Brings, Ahead
    <3>4. NoStaleOpenings => CurrentOK(p)'
      BY <1>2, <1>8, <2>1, <3>1 DEF TfOK, CurrentOK, Brings
    <3>5. NoStaleOpenings => HeardOK(p)'
      <4>1. ~ToAnnounce(p) /\ ~ToAnnounce(p)'
        BY <1>8, <2>1 DEF ToAnnounce
      <4> QED  BY <1>2, <2>1, <3>1, <4>1 DEF TfOK, HeardOK
    <3> QED  BY <3>2, <3>3, <3>4, <3>5 DEF TfOK
  <2> QED  BY <1>7, <2>2, <2>3 DEF Inv
<1>9. CASE call.phase = "main" /\ Brings /\ phase = "post"
  <2>1. /\ call' \in CallType /\ call'.kind = call.kind /\ call'.d = call.d
        /\ call'.phase = "post" /\ call'.todo = Periods
    BY <1>2, <1>5, <1>9
  <2>2. TypesOK' /\ CallOK'
    BY <1>1, <1>2, <1>9, <2>1 DEF TypesOK, CallOK, Brings
  <2>3. ASSUME NEW p \in Periods PROVE TfOK(p)'
    <3>1. TfOK(p) /\ BarOK(p) /\ DataOK(p)
      BY DEF Inv, TfOK
    <3>2. BarOK(p)'
      BY <1>2, <1>9, <2>1, <3>1 DEF BarOK
    <3>3. DataOK(p)'
      BY <1>2, <1>9, <2>1, <3>1 DEF DataOK, Brings, Ahead
    <3>4. NoStaleOpenings => CurrentOK(p)'
      BY <1>2, <1>9, <2>1, <3>1 DEF TfOK, CurrentOK, Brings
    <3>5. NoStaleOpenings => HeardOK(p)'
      <4>1. ToAnnounce(p) <=> ToAnnounce(p)'
        BY <1>2, <1>9, <2>1 DEF ToAnnounce, Brings
      <4> QED  BY <1>2, <2>1, <3>1, <4>1 DEF TfOK, HeardOK
    <3> QED  BY <3>2, <3>3, <3>4, <3>5 DEF TfOK
  <2> QED  BY <1>7, <2>2, <2>3 DEF Inv
<1>10. CASE phase = "idle"
  <2>1. call' \in CallType /\ call'.kind = "none" /\ call'.phase = "idle" /\ call'.todo = {}
    BY <1>2, <1>4, <1>10
  <2>4. ~(call.kind = "open" /\ call.phase = "pre")
    BY <1>10 DEF phase, PhaseAfter
  <2>2. TypesOK' /\ CallOK'
    BY <1>1, <1>2, <2>1 DEF TypesOK, CallOK, Brings
  <2>3. ASSUME NEW p \in Periods PROVE TfOK(p)'
    <3>1. TfOK(p) /\ BarOK(p) /\ DataOK(p)
      BY DEF Inv, TfOK
    <3>2. BarOK(p)'
      BY <1>2, <2>1, <3>1 DEF BarOK
    <3>3. DataOK(p)'
      BY <1>2, <2>1, <2>4, <3>1 DEF DataOK, Brings, Ahead
    <3>4. CurrentOK(p)'
      BY <2>1 DEF CurrentOK, Brings
    <3>5. NoStaleOpenings => HeardOK(p)'
      <4>1. ~ToAnnounce(p) /\ ~ToAnnounce(p)'
        BY <1>2, <1>10, <2>1, <1>1, <1>3 DEF ToAnnounce, Brings, phase, PhaseAfter, CallOK, CallType
      <4> QED  BY <1>2, <2>1, <3>1, <4>1 DEF TfOK, HeardOK
    <3> QED  BY <3>2, <3>3, <3>4, <3>5 DEF TfOK
  <2> QED  BY <1>7, <2>2, <2>3 DEF Inv
<1> QED  BY <1>6, <1>8, <1>9, <1>10

\* An event begins, or is refused because it comes from the past.
LEMMA BeginKeeps ==
  ASSUME Inv, NEW kind \in {"tick", "open", "bar", "notify"}, NEW d \in BarType,
         0 <= d.ts, MayCome(kind, d.ts), Begin(kind, d), UNCHANGED <<feed, backtesting>>,
         kind = "tick" => feed = "tick" /\ d.v > 0,
         kind = "open" => feed = "bar" /\ (pending = NoBar \/ Stale(kind, d.ts)),
         kind = "bar" => /\ feed = "bar"
                         /\ \/ pending # NoBar /\ d.ts = pending[1].ts
                            \/ Stale(kind, d.ts)
  PROVE  Inv'
<1>1. TypesOK /\ CallOK /\ FaultsExplained
  BY DEF Inv
<1>2. /\ fault = "none" /\ call.phase = "idle"
      /\ Stale(kind, d.ts) => kind \in StaleKinds
  BY DEF MayCome, In
<1>3. /\ d.ts \in Int /\ lastSeen \in Int /\ clock \in Int
      /\ feed \in {"tick", "bar"} /\ call \in CallType
      /\ tf \in [Periods -> TfType] /\ heard \in [Periods -> Seq(Announcements)]
      /\ pending \in {NoBar} \cup {<<b>> : b \in BarType} /\ backtesting \in BOOLEAN
  BY <1>1 DEF TypesOK, BarType
<1>4. /\ Idle \in CallType
      /\ Idle.kind = "none" /\ Idle.phase = "idle" /\ Idle.todo = {}
  BY DEF Idle, CallType, BarType, EmptyBar
<1>5. ASSUME NEW r \in {"idle", "pre", "main", "post"}
      PROVE  LET e == Event(kind, d, r)
             IN e \in CallType /\ e.kind = kind /\ e.d = d /\ e.phase = r /\ e.todo = Periods
  BY DEF Event, CallType
<1>6. ASSUME NEW p \in Periods
      PROVE  TfOK(p) /\ BarOK(p) /\ DataOK(p) /\ ~ToAnnounce(p) /\ ~Ahead(p)
  BY <1>2 DEF Inv, TfOK, ToAnnounce, Ahead
<1>7. CASE /\ Stale(kind, d.ts)
           /\ call'.phase \in {"idle", "post"}
           /\ \/ call' = Idle
              \/ call' = Event(kind, d, "idle")
              \/ call' = Event(kind, d, "post") /\ kind \in {"tick", "open"}
           /\ fault' = fault \/ (fault' = "fromThePast" /\ backtesting /\ call'.d = d)
           /\ UNCHANGED <<lastSeen, tf, heard, pending, clock>>
  <2>1. /\ call' \in CallType /\ call'.phase \in {"idle", "post"}
        /\ call'.phase = "post" => Brings'
        /\ call'.kind \in {"none", kind}
        /\ call'.kind = kind => call'.d = d
        /\ call'.phase = "post" => call'.kind = kind /\ call'.d = d
    BY <1>4, <1>5, <1>7 DEF Brings
  <2>2. TypesOK'
    BY <1>1, <1>7, <2>1 DEF TypesOK
  <2>3. CallOK'
    BY <1>1, <1>3, <1>7, <2>1 DEF CallOK, Brings
  <2>4. lastSeen >= d.ts
    BY <1>3, <1>7 DEF Stale
  <2>5. FaultsExplained'
    BY <1>2, <1>3, <1>7, <2>4 DEF FaultsExplained
  <2>6. ASSUME NEW p \in Periods PROVE TfOK(p)'
    <3>1. BarOK(p)'
      BY <1>6, <1>7, <2>1 DEF BarOK
    <3>2. DataOK(p)'
      BY <1>2, <1>6, <1>7, <2>1 DEF DataOK, Brings, Ahead
    <3>3. NoStaleOpenings => CurrentOK(p)'
      <4>1. CASE kind = "open"
        BY <1>2, <1>7, <4>1 DEF NoStaleOpenings
      <4>2. CASE kind # "open" /\ call'.phase = "post"
        <5>1. lastSeen > d.ts /\ call'.d = d
          BY <1>3, <1>7, <2>1, <4>2 DEF Stale
        <5> QED  BY <1>3, <1>7, <5>1 DEF CurrentOK
      <4>3. CASE call'.phase = "idle"
        BY <4>3 DEF CurrentOK
      <4> QED  BY <2>1, <4>1, <4>2, <4>3
    <3>4. NoStaleOpenings => HeardOK(p)'
      <4> SUFFICES ASSUME NoStaleOpenings PROVE HeardOK(p)'
        OBVIOUS
      <4>1. kind # "open"
        BY <1>2, <1>7 DEF NoStaleOpenings
      <4>2. ToAnnounce(p)' => ~tf[p].curBar
        <5>1. ToAnnounce(p)' => feed = "tick"
          BY <2>1, <4>1 DEF ToAnnounce, Brings
        <5> QED  BY <1>6, <5>1 DEF TfOK, HeardOK
      <4>3. tf' = tf /\ heard' = heard /\ feed' = feed
        BY <1>7
      <4> QED  BY <1>6, <4>2, <4>3 DEF TfOK, HeardOK
    <3> QED  BY <3>1, <3>2, <3>3, <3>4 DEF TfOK
  <2> QED  BY <2>2, <2>3, <2>5, <2>6 DEF Inv
<1>8. CASE /\ ~Stale(kind, d.ts)
           /\ call' = Event(kind, d, IF kind = "bar" THEN "main" ELSE "pre")
           /\ lastSeen' = IF kind = "notify" THEN lastSeen
                          ELSE IF kind = "bar" THEN d.ts + 1 ELSE d.ts
           /\ pending' = IF kind = "open" THEN <<d>>
                         ELSE IF kind = "bar" THEN NoBar ELSE pending
           /\ clock' = IF d.ts > clock THEN d.ts ELSE clock
           /\ UNCHANGED <<tf, fault, heard>>
  <2>1. /\ call' \in CallType /\ call'.kind = kind /\ call'.d = d /\ call'.todo = Periods
        /\ call'.phase = IF kind = "bar" THEN "main" ELSE "pre"
    BY <1>5, <1>8
  <2>2. /\ lastSeen' \in Int /\ lastSeen <= lastSeen'
        /\ kind = "open" => lastSeen < d.ts
        /\ kind # "open" => lastSeen <= d.ts
        /\ kind \in {"tick", "open"} => lastSeen' = d.ts
        /\ kind = "notify" => lastSeen' = lastSeen
    BY <1>3, <1>8 DEF Stale
  <2>3. clock' \in Int /\ clock <= clock' /\ d.ts <= clock'
    BY <1>3, <1>8
  <2>4. /\ pending' \in {NoBar} \cup {<<b>> : b \in BarType}
        /\ kind = "open" => pending' # NoBar /\ pending'[1].ts = d.ts
        /\ kind = "bar" => pending' = NoBar
        /\ kind \in {"tick", "notify"} => pending' = pending
    BY <1>3, <1>8 DEF NoBar
  <2>5. TypesOK'
    BY <1>1, <1>8, <2>1, <2>2, <2>3, <2>4 DEF TypesOK
  <2>6. CallOK'
    BY <1>1, <1>3, <1>8, <2>1, <2>2, <2>3, <2>4 DEF CallOK, Brings
  <2>7. FaultsExplained'
    BY <1>2, <1>8 DEF FaultsExplained
  <2>8. ASSUME NEW p \in Periods PROVE TfOK(p)'
    <3>1. tf' = tf /\ heard' = heard /\ feed' = feed
      BY <1>8
    <3>2. tf[p].bar.ts \in Int /\ tf[p].upper \in Int
      BY <1>3 DEF TfType, BarType
    <3>3. BarOK(p)'
      BY <1>3, <1>6, <2>1, <2>2, <2>3, <3>1, <3>2 DEF BarOK
    <3>4. DataOK(p)'
      BY <1>1, <1>2, <1>3, <1>6, <1>8, <2>1, <2>4, <3>1 DEF DataOK, CallOK, Brings, Ahead
    <3>5. CurrentOK(p)'
      BY <2>1 DEF CurrentOK, Brings
    <3>6. NoStaleOpenings => HeardOK(p)'
      <4>1. ~ToAnnounce(p)'
        BY <2>1 DEF ToAnnounce, Brings
      <4> QED  BY <1>6, <3>1, <4>1 DEF TfOK, HeardOK
    <3> QED  BY <3>3, <3>4, <3>5, <3>6 DEF TfOK
  <2> QED  BY <2>5, <2>6, <2>7, <2>8 DEF Inv
<1> QED
  <2>1. CASE /\ Stale(kind, d.ts) /\ backtesting
             /\ fault' = "fromThePast" /\ call' = Event(kind, d, "idle")
             /\ UNCHANGED <<lastSeen, tf, taken, heard, pending, clock>>
    BY <1>5, <1>7, <2>1
  <2>2. CASE /\ Stale(kind, d.ts) /\ ~backtesting
             /\ call' = IF kind \in {"tick", "open"} THEN Event(kind, d, "post") ELSE Idle
             /\ UNCHANGED <<lastSeen, tf, fault, taken, heard, pending, clock>>
    BY <1>4, <1>5, <1>7, <2>2
  <2>3. CASE ~Stale(kind, d.ts)
    BY <1>8, <2>3 DEF Begin
  <2> QED  BY <2>1, <2>2, <2>3 DEF Begin

-----------------------------------------------------------------------------
(* The steps of the ticker.                                                *)

LEMMA InvInit == ASSUME Init PROVE Inv
<1>1. NewTimeframe \in TfType
  <2>1. EmptyBar \in BarType
    BY DEF EmptyBar, BarType
  <2>2. <<>> \in Seq(BarType)
    OBVIOUS
  <2> QED  BY <2>1, <2>2 DEF NewTimeframe, TfType
<1>2. Idle \in CallType /\ Idle.kind = "none" /\ Idle.phase = "idle" /\ Idle.todo = {}
  BY DEF Idle, CallType, BarType, EmptyBar
<1>3. <<>> \in Seq(Announcements)
  OBVIOUS
<1>4. /\ feed \in {"tick", "bar"} /\ backtesting \in BOOLEAN /\ lastSeen = -1 /\ clock = -1
      /\ tf = [p \in Periods |-> NewTimeframe] /\ call = Idle /\ fault = "none"
      /\ heard = [p \in Periods |-> <<>>] /\ pending = NoBar
  BY FeedAssumption DEF Init
<1>5. TypesOK
  <2>1. tf \in [Periods -> TfType]
    BY <1>1, <1>4
  <2>2. heard \in [Periods -> Seq(Announcements)]
    BY <1>3, <1>4
  <2>3. lastSeen \in Int /\ clock \in Int
    BY <1>4
  <2> QED  BY <1>2, <1>4, <2>1, <2>2, <2>3 DEF TypesOK
<1>6. CallOK /\ FaultsExplained
  BY <1>2, <1>4 DEF CallOK, Brings, FaultsExplained
<1>7. ASSUME NEW p \in Periods PROVE TfOK(p)
  <2>1. tf[p] = NewTimeframe /\ heard[p] = <<>>
    BY <1>4
  <2>2. BarOK(p) /\ DataOK(p)
    BY <1>2, <1>4, <2>1 DEF NewTimeframe, BarOK, DataOK
  <2>3. CurrentOK(p)
    BY <1>2, <1>4 DEF CurrentOK, Brings
  <2>4. HeardOK(p)
    <3>1. Len(heard[p]) = 0 /\ ~IsOdd(0)
      BY <2>1 DEF IsOdd
    <3> QED  BY <2>1, <3>1, <1>2, <1>4 DEF NewTimeframe, HeardOK, Alternates, ToAnnounce, Brings
  <2> QED  BY <2>2, <2>3, <2>4 DEF TfOK
<1> QED  BY <1>5, <1>6, <1>7 DEF Inv

LEMMA NextKeeps == ASSUME Inv, [Next]_vars PROVE Inv'
<1>1. /\ \A ts \in Times : ts \in Int /\ 0 <= ts
      /\ \A q \in Prices : q \in Int
  BY BoundAssumption DEF Times, Prices
<1>2. ASSUME NEW ts \in Int, NEW q \in Int, NEW v \in Int
      PROVE  LET d == Datum(ts, q, q, q, q, v)
             IN d \in BarType /\ d.ts = ts /\ d.v = v
  BY DEF Datum, BarType
<1>3. ASSUME NEW ts \in Times, NEW q \in Prices, NewTick(ts, q)
      PROVE  Inv'
  <2> DEFINE d == Datum(ts, q, q, q, q, 1)
  <2>1. d \in BarType /\ d.ts = ts /\ d.v = 1
    BY <1>1, <1>2
  <2>2. /\ feed = "tick" /\ MayCome("tick", ts) /\ Begin("tick", d)
        /\ UNCHANGED <<feed, backtesting>>
    BY <1>3 DEF NewTick
  <2> HIDE DEF d
  <2> QED  BY <1>1, <2>1, <2>2, BeginKeeps
<1>4. ASSUME NEW ts \in Times, NEW q \in Prices, NewBarOpen(ts, q)
      PROVE  Inv'
  <2> DEFINE d == Datum(ts, q, q, q, q, 0)
  <2>1. d \in BarType /\ d.ts = ts
    BY <1>1, <1>2
  <2>2. /\ feed = "bar" /\ MayCome("open", ts) /\ Begin("open", d)
        /\ pending = NoBar \/ Stale("open", ts)
        /\ UNCHANGED <<feed, backtesting>>
    BY <1>4 DEF NewBarOpen
  <2> HIDE DEF d
  <2> QED  BY <1>1, <2>1, <2>2, BeginKeeps
<1>5. ASSUME NEW d \in Bars, NewBarAggregate(d)
      PROVE  Inv'
  <2>1. d \in BarType /\ d.ts \in Times
    BY <1>1 DEF Bars, BarType
  <2>2. /\ feed = "bar" /\ MayCome("bar", d.ts) /\ Begin("bar", d)
        /\ (pending # NoBar /\ d.ts = pending[1].ts) \/ Stale("bar", d.ts)
        /\ UNCHANGED <<feed, backtesting>>
    BY <1>5 DEF NewBarAggregate
  <2> QED  BY <1>1, <2>1, <2>2, BeginKeeps
<1>6. ASSUME NEW ts \in Times, NotifyDateTime(ts)
      PROVE  Inv'
  <2> DEFINE d == Datum(ts, 0, 0, 0, 0, 0)
  <2>1. d \in BarType /\ d.ts = ts
    BY <1>1, <1>2
  <2>2. /\ MayCome("notify", ts) /\ Begin("notify", d) /\ UNCHANGED <<feed, backtesting>>
    BY <1>6 DEF NotifyDateTime
  <2> HIDE DEF d
  <2> QED  BY <1>1, <2>1, <2>2, BeginKeeps
<1>7. ASSUME NEW p \in Periods, ClosePhase(p) \/ DataPhase(p) \/ AnnouncePhase(p)
      PROVE  Inv'
  BY <1>7, ClosePhaseKeeps, DataPhaseKeeps, AnnouncePhaseKeeps
<1>8. CASE NextPhase
  BY <1>8, NextPhaseKeeps
<1>9. CASE Terminated \/ UNCHANGED vars
  <2>1. UNCHANGED <<feed, backtesting, lastSeen, tf, call, fault, heard, pending, clock>>
    BY <1>9 DEF Terminated, vars
  <2>2. ASSUME NEW p \in Periods PROVE TfOK(p)'
    BY <2>1 DEF Inv, TfOK, BarOK, DataOK, CurrentOK, HeardOK, ToAnnounce, Ahead, Brings
  <2> QED  BY <2>1, <2>2 DEF Inv, TypesOK, CallOK, FaultsExplained, Brings
<1> QED  BY <1>3, <1>4, <1>5, <1>6, <1>7, <1>8, <1>9 DEF Next

-----------------------------------------------------------------------------

\* Whatever ticks, bars and notifications come, and in whatever order the timeframes
\* are taken in a phase, the invariant holds: in particular a bar that opens finds
\* the bar before closed, and every timeframe has the data before any announces it.
THEOREM TickerInvariant == Spec => []Inv
<1>1. Init => Inv
  BY InvInit
<1>2. Inv /\ [Next]_vars => Inv'
  BY NextKeeps
<1> QED  BY <1>1, <1>2, PTL DEF Spec

\* The comment "current bar must already be the same as pBtc" is right: the bar the
\* converter works on is the newest one stored, in every state of every timeframe.
THEOREM NewestIsCurrent == Spec => []StoredIsCurrent
<1>1. Inv => StoredIsCurrent
  BY DEF Inv, TfOK, BarOK, StoredIsCurrent
<1> QED  BY <1>1, TickerInvariant, PTL

\* Only three things terminate the program: data from the past in backtesting, a
\* notification of the very start of a bar or between opening and aggregation, and
\* data that comes after a later time was told.
THEOREM FaultsAreExplained == Spec => []FaultsExplained
<1>1. Inv => FaultsExplained
  BY DEF Inv
<1> QED  BY <1>1, TickerInvariant, PTL

\* When no bar is opened from the past, every timeframe announces openings and
\* closings in turns, the closing of the bar opened last and later bars later.
THEOREM OpeningsAlternate == ASSUME NoStaleOpenings PROVE Spec => []OpenThenClose
<1>1. Inv => OpenThenClose
  <2> SUFFICES ASSUME Inv, NEW p \in Periods, NEW i \in DOMAIN heard[p]
               PROVE  LET what == heard[p][i][1]
                          bar == heard[p][i][2]
                      IN IF i % 2 = 1
                         THEN what = "open" /\ (i > 1 => bar.ts > heard[p][i - 1][2].ts)
                         ELSE /\ what = "close"
                              /\ <<bar.ts, bar.o>>
                                   = <<heard[p][i - 1][2].ts, heard[p][i - 1][2].o>>
    BY DEF OpenThenClose
  <2>1. Alternates(heard[p]) /\ heard[p] \in Seq(Announcements)
    BY NoStaleOpenings DEF Inv, TypesOK, TfOK, HeardOK
  <2>2. i \in 1 .. Len(heard[p])
    BY <2>1
  <2> QED  BY <2>1, <2>2 DEF Alternates, IsOdd
<1> QED  BY <1>1, TickerInvariant, PTL

\* The last announcement of a sequence of them.
LEMMA LastAnnounced ==
  ASSUME NEW s \in Seq(Announcements), NEW e \in Announcements
  PROVE  Last(Append(s, e)) = e
  BY DEF Last

\* The first phase announces closings, and the last one openings.
LEMMA Announces ==
  ASSUME Inv, Next, NEW p \in Periods, heard'[p] # heard[p]
  PROVE  \/ AnnouncePhase(p) /\ ~tf[p].reject /\ tf[p].curBar /\ Last(heard'[p])[1] = "open"
         \/ ClosePhase(p) /\ Last(heard'[p])[1] = "close"
<1>1. heard \in [Periods -> Seq(Announcements)] /\ tf \in [Periods -> TfType]
  BY DEF Inv, TypesOK
<1>2. PICK r \in Periods : ClosePhase(r) \/ AnnouncePhase(r)
  <2>1. \A kind, d : Begin(kind, d) => heard' = heard
    BY DEF Begin
  <2>2. \A ts, q : NewTick(ts, q) \/ NewBarOpen(ts, q) => heard' = heard
    BY <2>1 DEF NewTick, NewBarOpen
  <2>3. \A d : NewBarAggregate(d) => heard' = heard
    BY <2>1 DEF NewBarAggregate
  <2>4. \A ts : NotifyDateTime(ts) => heard' = heard
    BY <2>1 DEF NotifyDateTime
  <2>5. \A r \in Periods : DataPhase(r) => heard' = heard
    BY DEF DataPhase
  <2>6. NextPhase \/ Terminated => heard' = heard
    BY DEF NextPhase, Terminated, vars
  <2> QED  BY <2>2, <2>3, <2>4, <2>5, <2>6 DEF Next
<1>3. ASSUME NEW what \in {"open", "close"}, NEW bar \in BarType, Announce(r, what, bar)
      PROVE  r = p /\ Last(heard'[p])[1] = what
  <2>1. r = p
    BY <1>1, <1>3 DEF Announce
  <2>2. heard'[p] = Append(heard[p], <<what, bar>>)
    BY <1>1, <1>3, <2>1 DEF Announce
  <2>3. <<what, bar>> \in Announcements /\ heard[p] \in Seq(Announcements)
    BY <1>1 DEF Announcements
  <2>4. Last(heard'[p]) = <<what, bar>>
    BY <2>2, <2>3, LastAnnounced
  <2> QED  BY <2>1, <2>4
<1>4. tf[r].bar \in BarType
  BY <1>1 DEF TfType
<1>5. CASE ClosePhase(r)
  <2>1. PICK f : Announce(r, "close", f.bar) /\ f.bar = tf[r].bar
    BY <1>1, <1>5 DEF ClosePhase, Fail, TfType
  <2> QED  BY <1>3, <1>4, <1>5, <2>1
<1>6. CASE AnnouncePhase(r)
  <2>1. ~tf[r].reject /\ tf[r].curBar /\ Announce(r, "open", tf[r].bar)
    BY <1>6 DEF AnnouncePhase
  <2> QED  BY <1>3, <1>4, <1>6, <2>1
<1> QED  BY <1>2, <1>5, <1>6

\* When no bar is opened from the past, every timeframe that takes the data of an
\* opening has it when any timeframe announces the opening: a callback never finds
\* another timeframe behind.
THEOREM NoneIsBehind == ASSUME NoStaleOpenings PROVE Spec => OpenedTogether
<1>1. Inv /\ [Next]_vars =>
        [\A p \in Periods :
           heard'[p] # heard[p] /\ Last(heard'[p])[1] = "open" =>
             \A q \in Periods :
               ~ShouldReject(q, call.d.ts) =>
                 /\ tf[q].upper > call.d.ts
                 /\ tf[q].closed => call.d.ts < clock]_vars
  <2> SUFFICES ASSUME Inv, Next, NEW p \in Periods,
                      heard'[p] # heard[p], Last(heard'[p])[1] = "open",
                      NEW q \in Periods, ~ShouldReject(q, call.d.ts)
               PROVE  /\ tf[q].upper > call.d.ts
                      /\ tf[q].closed => call.d.ts < clock
    BY DEF vars
  <2>1. AnnouncePhase(p) /\ ~tf[p].reject /\ tf[p].curBar
    BY Announces
  <2>2. call.phase = "post" /\ p \in call.todo /\ Brings
    BY <2>1 DEF AnnouncePhase, In, Inv, CallOK
  <2>3. lastSeen = call.d.ts
    <3>1. ToAnnounce(p)
      BY <2>1, <2>2 DEF ToAnnounce
    <3> QED  BY NoStaleOpenings, <2>1, <3>1 DEF Inv, TfOK, HeardOK
  <2>4. BarOK(q) /\ CurrentOK(q)
    BY NoStaleOpenings DEF Inv, TfOK
  <2>5. tf[q].upper > call.d.ts
    <3>1. tf[q].reject <=> ShouldReject(q, call.d.ts)
      BY <2>2, <2>3, <2>4 DEF CurrentOK
    <3> QED  BY <2>2, <2>3, <2>4, <3>1 DEF CurrentOK
  <2>6. call.d.ts \in Int /\ tf[q].upper \in Int /\ clock \in Int /\ 0 <= call.d.ts
    <3>1. call \in CallType /\ tf[q] \in TfType /\ clock \in Int /\ CallOK
      BY DEF Inv, TypesOK
    <3> QED  BY <2>2, <3>1 DEF CallOK, CallType, BarType, TfType
  <2>7. tf[q].closed => tf[q].upper <= clock
    BY <2>4, <2>5, <2>6 DEF BarOK
  <2> QED  BY <2>5, <2>6, <2>7
<1> QED  BY <1>1, TickerInvariant, PTL DEF Spec, OpenedTogether

-----------------------------------------------------------------------------
(* Sums and extremes.                                                      *)

\* A set of numbers that is not empty has a least one.
LEMMA Least ==
  ASSUME NEW S \in SUBSET Nat, S # {}
  PROVE  \E m \in S : \A n \in S : m <= n
<1> DEFINE R == OpToRel(<, Nat)
<1>1. IsWellFoundedOn(R, Nat)
  BY NatLessThanWellFounded
<1>2. ASSUME NEW i \in Nat, NEW j \in Nat, i < j PROVE <<i, j>> \in R
  BY <1>2 DEF OpToRel
<1> HIDE DEF R
<1>3. PICK m \in S : \A n \in S : ~(<<n, m>> \in R)
  BY <1>1, WFMin
<1>4. ASSUME NEW n \in S PROVE m <= n
  <2>1. ~(n < m)
    BY <1>2, <1>3
  <2> QED  BY <2>1
<1> QED  BY <1>4

\* Induction over a set of numbers that contains 0 and with each number the next.
LEMMA Inductive ==
  ASSUME NEW S \in SUBSET Nat, 0 \in S, \A n \in S : n + 1 \in S
  PROVE  S = Nat
<1> SUFFICES ASSUME Nat \ S # {} PROVE FALSE
  OBVIOUS
<1>1. PICK m \in Nat \ S : \A n \in Nat \ S : m <= n
  BY Least
<1>2. m - 1 \in Nat /\ m - 1 \notin Nat \ S
  BY <1>1
<1> QED  BY <1>1, <1>2

\* The last place of a set of places.
LEMMA LastPlace ==
  ASSUME NEW n \in Nat, NEW T \in SUBSET (1 .. n), T # {}
  PROVE  Max(T) \in T /\ \A x \in T : x <= Max(T)
<1> DEFINE D == {n - x : x \in T}
<1>1. D \in SUBSET Nat /\ D # {}
  <2>1. ASSUME NEW x \in T PROVE n - x \in Nat
    OBVIOUS
  <2>2. PICK x \in T : TRUE
    OBVIOUS
  <2> QED  BY <2>1, <2>2
<1>2. PICK m \in D : \A d \in D : m <= d
  BY <1>1, Least
<1>3. PICK y \in T : m = n - y
  OBVIOUS
<1>4. ASSUME NEW x \in T PROVE y >= x
  <2>1. m <= n - x
    BY <1>2
  <2> QED  BY <1>3, <2>1
<1>5. \E z \in T : \A x \in T : z >= x
  BY <1>4
<1>6. Max(T) \in T /\ \A x \in T : Max(T) >= x
  BY <1>5 DEF Max
<1> QED  BY <1>6

\* The equation of a sum from the left: all but the last place, and the last.
Rest(T) == T \ {Max(T)}
Summed(g, s, S) == g = [T \in SUBSET S |-> IF T = {} THEN 0 ELSE g[Rest(T)] + s[Max(T)]]

Total(s) == FoldLeft(+, 0, s)

LEMMA SumIs ==
  ASSUME NEW s
  PROVE  Total(s) = (CHOOSE g : Summed(g, s, DOMAIN s))[DOMAIN s]
  BY DEF Total, FoldLeft, MapThenFoldSet, Summed, Rest

LEMMA RestBefore ==
  ASSUME NEW n \in Nat, NEW T \in SUBSET (1 .. n + 1), T # {}
  PROVE  Rest(T) \in SUBSET (1 .. n)
<1>1. n + 1 \in Nat
  OBVIOUS
<1>2. Max(T) \in T /\ \A x \in T : x <= Max(T)
  BY <1>1, LastPlace
<1>3. ASSUME NEW x \in T, x # Max(T) PROVE x \in 1 .. n
  <2>1. x \in 1 .. n + 1 /\ Max(T) \in 1 .. n + 1 /\ x <= Max(T)
    BY <1>2
  <2> DEFINE m == Max(T)
  <2> HIDE DEF m
  <2>2. x \in 1 .. n + 1 /\ m \in 1 .. n + 1 /\ x <= m /\ x # m
    BY <1>3, <2>1 DEF m
  <2> QED  BY <2>2
<1> QED  BY <1>3 DEF Rest

\* There is such a sum over any places: those up to n give those up to n + 1.
LEMMA SumExists ==
  ASSUME NEW s, NEW len \in Nat
  PROVE  \E g : Summed(g, s, 1 .. len)
<1> DEFINE Rhs(g, T) == IF T = {} THEN 0 ELSE g[Rest(T)] + s[Max(T)]
           UpTo(n) == \E g : \A T \in SUBSET (1 .. n) : g[T] = Rhs(g, T)
           N == {n \in Nat : UpTo(n)}
<1>1. 0 \in N
  <2> DEFINE g == [T \in SUBSET (1 .. 0) |-> 0]
  <2>1. \A T \in SUBSET (1 .. 0) : g[T] = Rhs(g, T)
    OBVIOUS
  <2> QED  BY <2>1
<1>2. ASSUME NEW n \in N PROVE n + 1 \in N
  <2>1. PICK g : \A T \in SUBSET (1 .. n) : g[T] = Rhs(g, T)
    OBVIOUS
  <2> DEFINE h == [T \in SUBSET (1 .. n + 1) |-> Rhs(g, T)]
  <2>2. ASSUME NEW T \in SUBSET (1 .. n + 1) PROVE h[T] = Rhs(h, T)
    <3>1. CASE T = {}
      BY <3>1
    <3>2. CASE T # {}
      <4> DEFINE r == Rest(T)
      <4>1. r \in SUBSET (1 .. n)
        BY <3>2, RestBefore
      <4>2. r \in SUBSET (1 .. n + 1)
        BY <4>1
      <4> HIDE DEF r
      <4>3. h[r] = g[r]
        BY <2>1, <4>1, <4>2
      <4>4. h[T] = g[r] + s[Max(T)] /\ Rhs(h, T) = h[r] + s[Max(T)]
        BY <3>2 DEF r
      <4> QED  BY <4>3, <4>4
    <3> QED  BY <3>1, <3>2
  <2> HIDE DEF h
  <2>3. UpTo(n + 1)
    BY <2>2
  <2> HIDE DEF UpTo
  <2> QED  BY <2>3
<1> HIDE DEF N
<1>3. N = Nat
  BY <1>1, <1>2, Inductive DEF N
<1>4. PICK g : \A T \in SUBSET (1 .. len) : g[T] = Rhs(g, T)
  BY <1>3 DEF N
<1> DEFINE h == [T \in SUBSET (1 .. len) |-> g[T]]
<1>5. ASSUME NEW T \in SUBSET (1 .. len) PROVE h[T] = Rhs(h, T)
  <2>1. Rest(T) \in SUBSET (1 .. len)
    BY DEF Rest
  <2> QED  BY <1>4, <2>1
<1>6. h = [T \in SUBSET (1 .. len) |-> Rhs(h, T)]
  BY <1>5
<1> HIDE DEF h
<1> QED  BY <1>6 DEF Summed

\* The sum of a sequence grows by what is appended.
LEMMA SumAppend ==
  ASSUME NEW s \in Seq(Int), NEW x \in Int
  PROVE  /\ Total(s) \in Int
         /\ Total(Append(s, x)) = Total(s) + x
<1> DEFINE t == Append(s, x)
           n == Len(s)
           g == CHOOSE k : Summed(k, s, 1 .. n)
           h == CHOOSE k : Summed(k, t, 1 .. n + 1)
           Agree(m) == \A T \in SUBSET ((1 .. m) \cap (1 .. n)) : g[T] \in Int /\ h[T] = g[T]
           N == {m \in Nat : Agree(m)}
<1>1. /\ n \in Nat /\ n + 1 \in Nat /\ DOMAIN s = 1 .. n /\ DOMAIN t = 1 .. n + 1
      /\ t[n + 1] = x /\ \A i \in 1 .. n : s[i] \in Int /\ t[i] = s[i]
  OBVIOUS
<1>2. Summed(g, s, 1 .. n) /\ Summed(h, t, 1 .. n + 1)
  BY <1>1, SumExists
<1> HIDE DEF t, g, h, n
<1>3. /\ \A T \in SUBSET (1 .. n) : g[T] = IF T = {} THEN 0 ELSE g[Rest(T)] + s[Max(T)]
      /\ \A T \in SUBSET (1 .. n + 1) : h[T] = IF T = {} THEN 0 ELSE h[Rest(T)] + t[Max(T)]
  BY <1>2 DEF Summed
<1>4. 1 .. n \subseteq 1 .. n + 1
  BY <1>1
<1>5. 0 \in N
  <2>1. (1 .. 0) \cap (1 .. n) = {}
    OBVIOUS
  <2>2. g[{}] = 0 /\ h[{}] = 0
    BY <1>3
  <2> DEFINE places == (1 .. 0) \cap (1 .. n)
  <2> HIDE DEF places
  <2>3. \A T \in SUBSET places : g[T] \in Int /\ h[T] = g[T]
    <3> SUFFICES ASSUME NEW T \in SUBSET places PROVE g[T] \in Int /\ h[T] = g[T]
      OBVIOUS
    <3>1. T = {}
      BY <2>1 DEF places
    <3>2. g[T] = 0 /\ h[T] = 0
      BY <2>2, <3>1, Zenon
    <3> QED  BY <3>2
  <2>4. Agree(0)
    BY <2>3 DEF places
  <2> HIDE DEF Agree
  <2> QED  BY <2>4
<1>6. ASSUME NEW m \in N PROVE m + 1 \in N
  <2>1. ASSUME NEW T \in SUBSET ((1 .. m + 1) \cap (1 .. n)) PROVE g[T] \in Int /\ h[T] = g[T]
    <3>1. CASE T = {}
      BY <1>3, <3>1
    <3>2. CASE T # {}
      <4>1. T \in SUBSET (1 .. m + 1) /\ m + 1 \in Nat /\ T \in SUBSET (1 .. n)
        OBVIOUS
      <4>2. Max(T) \in T /\ Rest(T) \in SUBSET (1 .. m)
        BY <3>2, <4>1, LastPlace, RestBefore
      <4>3. Rest(T) \in SUBSET ((1 .. m) \cap (1 .. n))
        BY <4>1, <4>2 DEF Rest
      <4>4. g[Rest(T)] \in Int /\ h[Rest(T)] = g[Rest(T)]
        BY <4>3
      <4> DEFINE a == g[Rest(T)]
                 b == s[Max(T)]
      <4>5. a \in Int /\ h[Rest(T)] = a
        BY <4>4
      <4>6. b \in Int /\ t[Max(T)] = b
        BY <1>1, <4>1, <4>2
      <4>7. g[T] = a + b
        BY <1>3, <3>2, <4>1
      <4>8. T \in SUBSET (1 .. n + 1)
        BY <1>4, <4>1
      <4> HIDE DEF a, b
      <4>9. h[T] = a + b
        BY <1>3, <3>2, <4>5, <4>6, <4>8
      <4> QED  BY <4>5, <4>6, <4>7, <4>9
    <3> QED  BY <3>1, <3>2
  <2> QED  BY <2>1
<1> HIDE DEF N
<1>7. N = Nat
  BY <1>5, <1>6, Inductive DEF N
<1>8. g[1 .. n] \in Int /\ h[1 .. n] = g[1 .. n]
  BY <1>1, <1>7 DEF N
<1>9. h[1 .. n + 1] = h[1 .. n] + x
  <2> DEFINE T == 1 .. n + 1
  <2>1. T \in SUBSET (1 .. n + 1) /\ n + 1 \in T /\ \A i \in T : i <= n + 1
    BY <1>1
  <2>2. Max(T) \in T /\ \A i \in T : i <= Max(T)
    <3>1. T # {}
      BY <2>1
    <3> HIDE DEF T
    <3> QED  BY <1>1, <2>1, <3>1, LastPlace
  <2> DEFINE m == Max(T)
  <2>3. m \in Int /\ m <= n + 1 /\ n + 1 <= m
    BY <1>1, <2>1, <2>2
  <2>4. m = n + 1
    <3> HIDE DEF m, T
    <3> QED  BY <1>1, <2>3
  <2>5. Rest(T) = 1 .. n
    <3>1. Rest(T) = (1 .. n + 1) \ {n + 1}
      BY <2>4 DEF Rest
    <3>2. ASSUME NEW i \in Int PROVE i \in (1 .. n + 1) \ {n + 1} <=> i \in 1 .. n
      BY <1>1
    <3>3. (1 .. n + 1) \ {n + 1} = 1 .. n
      BY <1>1, <3>2
    <3> QED  BY <3>1, <3>3
  <2>6. h[T] = h[Rest(T)] + t[Max(T)]
    BY <1>3, <2>1
  <2> QED  BY <1>1, <2>4, <2>5, <2>6
<1>10. Total(s) = g[1 .. n] /\ Total(t) = h[1 .. n + 1]
  BY <1>1, SumIs DEF g, h
<1> QED  BY <1>8, <1>9, <1>10 DEF t

\* Among finitely many numbers there are a greatest and a least one.
LEMMA Extremes ==
  ASSUME NEW n \in Nat, NEW f, NEW T \in SUBSET (1 .. n), T # {}, \A i \in T : f[i] \in Int
  PROVE  /\ \E i \in T : \A j \in T : f[j] <= f[i]
         /\ \E i \in T : \A j \in T : f[i] <= f[j]
<1> DEFINE Good(S) == S # {} => /\ \E i \in S : \A j \in S : f[j] <= f[i]
                               /\ \E i \in S : \A j \in S : f[i] <= f[j]
           N == {m \in Nat : \A S \in SUBSET T : S \subseteq 1 .. m => Good(S)}
<1>1. 0 \in N
  <2>1. ASSUME NEW S \in SUBSET T, S \subseteq 1 .. 0 PROVE S = {}
    BY <2>1
  <2> QED  BY <2>1
<1>2. ASSUME NEW m \in N PROVE m + 1 \in N
  <2>1. ASSUME NEW S \in SUBSET T, S \subseteq 1 .. m + 1, S # {} PROVE Good(S)
    <3> DEFINE R == S \ {m + 1}
    <3>1. R \in SUBSET T /\ R \subseteq 1 .. m
      BY <2>1
    <3>2. Good(R)
      BY <3>1
    <3>3. \A i \in S : f[i] \in Int
      OBVIOUS
    <3>4. CASE m + 1 \notin S
      <4>1. R = S
        BY <3>4
      <4> QED  BY <3>2, <4>1
    <3>5. CASE m + 1 \in S /\ R = {}
      <4>1. S = {m + 1}
        BY <3>5
      <4>2. f[m + 1] \in Int
        BY <3>3, <3>5
      <4> QED  BY <4>1, <4>2
    <3>6. CASE m + 1 \in S /\ R # {}
      <4>1. PICK a \in R : \A j \in R : f[j] <= f[a]
        BY <3>2, <3>6
      <4>2. PICK b \in R : \A j \in R : f[b] <= f[j]
        BY <3>2, <3>6
      <4>3. a \in S /\ b \in S /\ \A j \in S : j \in R \/ j = m + 1
        OBVIOUS
      <4> HIDE DEF R
      <4>4. \E i \in S : \A j \in S : f[j] <= f[i]
        <5>1. CASE f[m + 1] <= f[a]
          BY <4>1, <4>3, <5>1
        <5>2. CASE f[a] <= f[m + 1]
          <6>1. ASSUME NEW j \in S PROVE f[j] <= f[m + 1]
            <7>1. f[j] \in Int /\ f[a] \in Int /\ f[m + 1] \in Int
              BY <3>3, <3>6, <4>3
            <7>2. f[j] <= f[a] \/ j = m + 1
              BY <4>1, <4>3
            <7> QED  BY <5>2, <7>1, <7>2
          <6> QED  BY <3>6, <6>1
        <5> QED  BY <3>3, <3>6, <4>3, <5>1, <5>2
      <4>5. \E i \in S : \A j \in S : f[i] <= f[j]
        <5>1. CASE f[b] <= f[m + 1]
          BY <4>2, <4>3, <5>1
        <5>2. CASE f[m + 1] <= f[b]
          <6>1. ASSUME NEW j \in S PROVE f[m + 1] <= f[j]
            <7>1. f[j] \in Int /\ f[b] \in Int /\ f[m + 1] \in Int
              BY <3>3, <3>6, <4>3
            <7>2. f[b] <= f[j] \/ j = m + 1
              BY <4>2, <4>3
            <7> QED  BY <5>2, <7>1, <7>2
          <6> QED  BY <3>6, <6>1
        <5> QED  BY <3>3, <3>6, <4>3, <5>1, <5>2
      <4> QED  BY <4>4, <4>5
    <3> HIDE DEF Good, R
    <3> QED  BY <3>4, <3>5, <3>6
  <2>2. ASSUME NEW S \in SUBSET T, S \subseteq 1 .. m + 1 PROVE Good(S)
    BY <2>1, <2>2
  <2> HIDE DEF Good
  <2> QED  BY <2>2
<1> HIDE DEF N
<1>3. N = Nat
  BY <1>1, <1>2, Inductive DEF N
<1>4. Good(T)
  BY <1>3 DEF N
<1> QED  BY <1>4

LEMMA MaxIs ==
  ASSUME NEW S, S \subseteq Int, NEW m \in S, \A x \in S : x <= m
  PROVE  Max(S) = m
<1>1. \E y \in S : \A x \in S : y >= x
  OBVIOUS
<1>2. Max(S) \in S /\ \A x \in S : Max(S) >= x
  BY <1>1 DEF Max
<1> DEFINE k == Max(S)
<1>3. k \in Int /\ m \in Int /\ k <= m /\ m <= k
  BY <1>2
<1> HIDE DEF k
<1>4. k = m
  BY <1>3
<1> QED  BY <1>4 DEF k

LEMMA MinIs ==
  ASSUME NEW S, S \subseteq Int, NEW m \in S, \A x \in S : m <= x
  PROVE  Min(S) = m
<1>1. \E y \in S : \A x \in S : y <= x
  OBVIOUS
<1>2. Min(S) \in S /\ \A x \in S : Min(S) <= x
  BY <1>1 DEF Min
<1> DEFINE k == Min(S)
<1>3. k \in Int /\ m \in Int /\ k <= m /\ m <= k
  BY <1>2
<1> HIDE DEF k
<1>4. k = m
  BY <1>3
<1> QED  BY <1>4 DEF k

-----------------------------------------------------------------------------
(* What one more datum makes of the reference.                             *)

LEMMA AppendedData ==
  ASSUME NEW data \in Seq(BarType), NEW d \in BarType
  PROVE  LET e == Append(data, d)
             k == Len(data) + 1
         IN /\ e \in Seq(BarType) /\ Len(data) \in Nat /\ k \in Nat
            /\ DOMAIN data = 1 .. Len(data) /\ DOMAIN e = DOMAIN data \cup {k}
            /\ k \notin DOMAIN data /\ e[k] = d
            /\ \A i \in DOMAIN data : e[i] = data[i] /\ data[i] \in BarType /\ i \in Int /\ i < k
  OBVIOUS

LEMMA TakenAppended ==
  ASSUME NEW p, NEW data \in Seq(BarType), NEW d \in BarType
  PROVE  Taken(p, Append(data, d)) =
           IF ShouldReject(p, d.ts) THEN Taken(p, data)
           ELSE Taken(p, data) \cup {Len(data) + 1}
<1> DEFINE e == Append(data, d)
           k == Len(data) + 1
<1>1. /\ DOMAIN e = DOMAIN data \cup {k} /\ k \notin DOMAIN data /\ e[k] = d
      /\ \A i \in DOMAIN data : e[i] = data[i]
  BY AppendedData
<1> HIDE DEF e, k
<1>2. Taken(p, e) = IF ShouldReject(p, d.ts) THEN Taken(p, data) ELSE Taken(p, data) \cup {k}
  BY <1>1 DEF Taken
<1> QED  BY <1>2 DEF e, k

LEMMA StartsAppended ==
  ASSUME NEW p, NEW data \in Seq(BarType), NEW d \in BarType
  PROVE  Starts(p, Append(data, d)) =
           IF ShouldReject(p, d.ts) THEN Starts(p, data)
           ELSE Starts(p, data) \cup {LowerBound(p, d.ts)}
<1> DEFINE e == Append(data, d)
           k == Len(data) + 1
<1>1. /\ DOMAIN e = DOMAIN data \cup {k} /\ k \notin DOMAIN data /\ e[k] = d
      /\ \A i \in DOMAIN data : e[i] = data[i]
  BY AppendedData
<1>2. Taken(p, e) = IF ShouldReject(p, d.ts) THEN Taken(p, data) ELSE Taken(p, data) \cup {k}
  BY TakenAppended
<1> HIDE DEF e, k
<1>3. \A i \in Taken(p, data) : e[i] = data[i]
  BY <1>1 DEF Taken
<1>4. Starts(p, e) = IF ShouldReject(p, d.ts) THEN Starts(p, data)
                     ELSE Starts(p, data) \cup {LowerBound(p, d.ts)}
  BY <1>1, <1>2, <1>3 DEF Starts
<1> QED  BY <1>4 DEF e

LEMMA GroupAppended ==
  ASSUME NEW p, NEW data \in Seq(BarType), NEW d \in BarType, NEW start
  PROVE  Group(p, Append(data, d), start) =
           IF ~ShouldReject(p, d.ts) /\ LowerBound(p, d.ts) = start
           THEN Group(p, data, start) \cup {Len(data) + 1}
           ELSE Group(p, data, start)
<1> DEFINE e == Append(data, d)
           k == Len(data) + 1
<1>1. /\ DOMAIN e = DOMAIN data \cup {k} /\ k \notin DOMAIN data /\ e[k] = d
      /\ \A i \in DOMAIN data : e[i] = data[i]
  BY AppendedData
<1>2. Taken(p, e) = IF ShouldReject(p, d.ts) THEN Taken(p, data) ELSE Taken(p, data) \cup {k}
  BY TakenAppended
<1> HIDE DEF e, k
<1>3. \A i \in Taken(p, data) : e[i] = data[i]
  BY <1>1 DEF Taken
<1>4. Group(p, e, start) = IF ~ShouldReject(p, d.ts) /\ LowerBound(p, d.ts) = start
                           THEN Group(p, data, start) \cup {k} ELSE Group(p, data, start)
  BY <1>1, <1>2, <1>3 DEF Group
<1> QED  BY <1>4 DEF e, k

\* A group that has a start is not empty.
LEMMA GroupOfStart ==
  ASSUME NEW p, NEW data, NEW start \in Starts(p, data)
  PROVE  Group(p, data, start) # {} /\ Group(p, data, start) \subseteq DOMAIN data
  BY DEF Starts, Group, Taken

\* The volumes that are counted.
Volumes(data, counted) == [i \in DOMAIN data |-> IF i \in counted THEN data[i].v ELSE 0]

LEMMA VolumesAppended ==
  ASSUME NEW data \in Seq(BarType), NEW d \in BarType, NEW old \in SUBSET DOMAIN data,
         NEW new, new = old \/ new = old \cup {Len(data) + 1}
  PROVE  /\ Total(Volumes(data, old)) \in Int
         /\ Total(Volumes(Append(data, d), new)) =
              Total(Volumes(data, old)) + IF new = old THEN 0 ELSE d.v
<1> DEFINE e == Append(data, d)
           n == Len(data)
           x == IF new = old THEN 0 ELSE d.v
           s == Volumes(data, old)
           t == Volumes(e, new)
<1>1. /\ e \in Seq(BarType) /\ n \in Nat /\ DOMAIN data = 1 .. n /\ DOMAIN e = DOMAIN data \cup {n + 1}
      /\ n + 1 \notin DOMAIN data /\ e[n + 1] = d /\ Len(e) = n + 1
      /\ \A i \in DOMAIN data : e[i] = data[i] /\ data[i] \in BarType
  BY AppendedData
<1>2. x \in Int
  BY DEF BarType
<1>3. s \in Seq(Int) /\ Len(s) = n /\ \A i \in 1 .. n : s[i] = IF i \in old THEN data[i].v ELSE 0
  <2>1. s = [i \in 1 .. n |-> IF i \in old THEN data[i].v ELSE 0]
    BY <1>1 DEF Volumes
  <2>2. \A i \in 1 .. n : (IF i \in old THEN data[i].v ELSE 0) \in Int
    BY <1>1 DEF BarType
  <2> HIDE DEF s, n
  <2> QED  BY <1>1, <2>1, <2>2, SeqDef
<1>4. t = Append(s, x)
  <2> DEFINE u == Append(s, x)
  <2>1. /\ u \in Seq(Int) /\ Len(u) = n + 1
        /\ \A i \in 1 .. n + 1 : u[i] = IF i = n + 1 THEN x ELSE s[i]
    <3> HIDE DEF s, x, n
    <3> QED  BY <1>1, <1>2, <1>3
  <2>2. t = [i \in 1 .. n + 1 |-> IF i \in new THEN e[i].v ELSE 0]
    <3>1. DOMAIN e = 1 .. n + 1
      BY <1>1
    <3> QED  BY <3>1 DEF Volumes
  <2>3. ASSUME NEW i \in 1 .. n + 1
        PROVE  (IF i \in new THEN e[i].v ELSE 0) = u[i]
    <3>1. CASE i = n + 1
      <4>1. n + 1 \in new <=> new # old
        BY <1>1
      <4>2. u[i] = x
        BY <2>1, <3>1
      <4> HIDE DEF u
      <4> QED  BY <1>1, <3>1, <4>1, <4>2
    <3>2. CASE i # n + 1
      <4>1. i \in 1 .. n /\ (i \in new <=> i \in old)
        BY <1>1, <3>2
      <4>2. e[i] = data[i]
        BY <1>1, <4>1
      <4>3. u[i] = s[i]
        BY <2>1, <3>2
      <4> HIDE DEF s, u
      <4> QED  BY <1>3, <4>1, <4>2, <4>3
    <3> QED  BY <3>1, <3>2
  <2> HIDE DEF t, s, x, n, e, u
  <2>4. u \in Seq(Int) /\ DOMAIN u = 1 .. n + 1
    BY <1>1, <2>1
  <2>5. \A i \in 1 .. n + 1 : u[i] \in Int
    BY <1>1, <2>1
  <2>6. t \in Seq(Int) /\ Len(t) = n + 1 /\ \A i \in 1 .. n + 1 : t[i] = u[i]
    <3>1. \A i \in 1 .. n + 1 : t[i] = u[i]
      BY <2>2, <2>3
    <3>2. t \in [1 .. n + 1 -> Int]
      BY <2>2, <2>5, <3>1
    <3> QED  BY <1>1, <3>1, <3>2, SeqDef
  <2>7. t = u
    BY <2>1, <2>4, <2>6, SeqEqual
  <2> QED  BY <2>7 DEF u
<1> HIDE DEF s, x
<1>5. Total(s) \in Int /\ Total(Append(s, x)) = Total(s) + x
  BY <1>2, <1>3, SumAppend
<1> QED  BY <1>4, <1>5 DEF s, x

\* Nothing counted has no volume.
NoVolume(data) == Total(Volumes(data, {})) = 0

LEMMA NoData == NoVolume(<<>>)
<1> DEFINE s == Volumes(<<>>, {})
           g == CHOOSE k : Summed(k, s, 1 .. 0)
<1>1. DOMAIN s = 1 .. 0
  BY DEF Volumes
<1>2. Summed(g, s, 1 .. 0)
  <2>1. 0 \in Nat
    OBVIOUS
  <2> QED  BY <2>1, SumExists
<1> HIDE DEF g, s
<1>3. {} \in SUBSET (1 .. 0) /\ 1 .. 0 = {}
  OBVIOUS
<1>4. g[{}] = 0
  BY <1>2, <1>3 DEF Summed
<1>5. Total(s) = g[1 .. 0]
  BY <1>1, SumIs DEF g
<1>6. Total(s) = 0
  BY <1>3, <1>4, <1>5, Zenon
<1> QED  BY <1>6 DEF s, NoVolume

\* The bar of a group of data.
BarOf(data, group, start) ==
  LET counted == Counted(data, group)
  IN Datum(start, data[Min(group)].o,
           Max({data[i].h : i \in counted}), Min({data[i].l : i \in counted}),
           data[Max(counted)].c, Total(Volumes(data, counted)))

LEMMA GroupBarIs ==
  ASSUME NEW p, NEW data, NEW start
  PROVE  GroupBar(p, data, start) = BarOf(data, Group(p, data, start), start)
  BY DEF GroupBar, BarOf, Volumes, Total

Highs(data, counted) == {data[i].h : i \in counted}
Lows(data, counted) == {data[i].l : i \in counted}

LEMMA GroupFacts ==
  ASSUME NEW data \in Seq(BarType), NEW group \in SUBSET DOMAIN data, group # {}
  PROVE  LET c == Counted(data, group)
             m == Min(group)
         IN /\ m \in group /\ \A i \in group : m <= i
            /\ m \in c /\ c \subseteq group
            /\ Max(c) \in c /\ \A i \in c : i <= Max(c)
            /\ Highs(data, c) \subseteq Int /\ Lows(data, c) \subseteq Int
            /\ Max(Highs(data, c)) \in Highs(data, c)
            /\ \A x \in Highs(data, c) : x <= Max(Highs(data, c))
            /\ Min(Lows(data, c)) \in Lows(data, c)
            /\ \A x \in Lows(data, c) : Min(Lows(data, c)) <= x
<1> DEFINE c == Counted(data, group)
           m == Min(group)
           hs == Highs(data, c)
           ls == Lows(data, c)
<1>1. /\ DOMAIN data = 1 .. Len(data) /\ Len(data) \in Nat
      /\ \A i \in DOMAIN data : data[i].h \in Int /\ data[i].l \in Int
  <2>1. \A b \in BarType : b.h \in Int /\ b.l \in Int
    BY DEF BarType
  <2>2. \A i \in DOMAIN data : data[i] \in BarType
    OBVIOUS
  <2> QED  BY <2>1, <2>2
<1>2. m \in group /\ \A i \in group : m <= i
  <2>1. group \in SUBSET Nat
    BY <1>1
  <2>2. PICK k \in group : \A i \in group : k <= i
    BY <2>1, Least
  <2>3. Min(group) = k
    BY <2>1, <2>2, MinIs
  <2> QED  BY <2>2, <2>3
<1>3. m \in c /\ c \subseteq group
  BY <1>2 DEF Counted
<1>4. c \in SUBSET (1 .. Len(data)) /\ c # {}
  BY <1>1, <1>3
<1> HIDE DEF c, m
<1>5. Max(c) \in c /\ \A i \in c : i <= Max(c)
  BY <1>1, <1>4, LastPlace
<1>6. hs \subseteq Int /\ ls \subseteq Int
  BY <1>1, <1>4 DEF Highs, Lows
<1>7. Max(hs) \in hs /\ \A x \in hs : x <= Max(hs)
  <2> DEFINE f == [i \in c |-> data[i].h]
  <2>1. \A i \in c : f[i] \in Int /\ f[i] = data[i].h
    BY <1>1, <1>4
  <2> HIDE DEF f
  <2>2. PICK i \in c : \A j \in c : f[j] <= f[i]
    BY <1>1, <1>4, <2>1, Extremes
  <2>3. data[i].h \in hs /\ \A x \in hs : x <= data[i].h
    BY <2>1, <2>2 DEF Highs
  <2> HIDE DEF hs
  <2>4. Max(hs) = data[i].h
    BY <1>6, <2>3, MaxIs
  <2> QED  BY <2>3, <2>4
<1>8. Min(ls) \in ls /\ \A x \in ls : Min(ls) <= x
  <2> DEFINE f == [i \in c |-> data[i].l]
  <2>1. \A i \in c : f[i] \in Int /\ f[i] = data[i].l
    BY <1>1, <1>4
  <2> HIDE DEF f
  <2>2. PICK i \in c : \A j \in c : f[i] <= f[j]
    BY <1>1, <1>4, <2>1, Extremes
  <2>3. data[i].l \in ls /\ \A x \in ls : data[i].l <= x
    BY <2>1, <2>2 DEF Lows
  <2> HIDE DEF ls
  <2>4. Min(ls) = data[i].l
    BY <1>6, <2>3, MinIs
  <2> QED  BY <2>3, <2>4
<1> QED  BY <1>2, <1>3, <1>5, <1>6, <1>7, <1>8 DEF c, m

\* One more number in a set.
LEMMA MaxAppended ==
  ASSUME NEW S, S \subseteq Int, NEW y \in Int, Max(S) \in S, \A x \in S : x <= Max(S)
  PROVE  Max(S \cup {y}) = IF y > Max(S) THEN y ELSE Max(S)
<1> DEFINE T == S \cup {y}
           k == Max(S)
           m == IF y > k THEN y ELSE k
<1>1. k \in S /\ k \in Int /\ \A x \in S : x <= k
  OBVIOUS
<1> HIDE DEF k
<1>2. T \subseteq Int /\ m \in T /\ \A x \in T : x <= m
  BY <1>1
<1> HIDE DEF T, m
<1>3. Max(T) = m
  BY <1>2, MaxIs
<1> QED  BY <1>3 DEF T, m, k

LEMMA MinAppended ==
  ASSUME NEW S, S \subseteq Int, NEW y \in Int, Min(S) \in S, \A x \in S : Min(S) <= x
  PROVE  Min(S \cup {y}) = IF y < Min(S) THEN y ELSE Min(S)
<1> DEFINE T == S \cup {y}
           k == Min(S)
           m == IF y < k THEN y ELSE k
<1>1. k \in S /\ k \in Int /\ \A x \in S : k <= x
  OBVIOUS
<1> HIDE DEF k
<1>2. T \subseteq Int /\ m \in T /\ \A x \in T : m <= x
  BY <1>1
<1> HIDE DEF T, m
<1>3. Min(T) = m
  BY <1>2, MinIs
<1> QED  BY <1>3 DEF T, m, k

\* A datum of a group that has begun: it is merged into the bar if it counts.
LEMMA BarAppended ==
  ASSUME NEW data \in Seq(BarType), NEW d \in BarType, NEW start,
         NEW old \in SUBSET DOMAIN data, old # {},
         NEW grown, grown = old \/ grown = old \cup {Len(data) + 1}
  PROVE  BarOf(Append(data, d), grown, start) =
           IF grown # old /\ d.v > 0 THEN Merged(BarOf(data, old, start), d)
           ELSE BarOf(data, old, start)
<1> DEFINE e == Append(data, d)
           k == Len(data) + 1
           m == Min(old)
           c == Counted(data, old)
           x == Max(c)
           hs == Highs(data, c)
           ls == Lows(data, c)
           sum == Total(Volumes(data, c))
           counts == grown # old /\ d.v > 0
           more == IF counts THEN c \cup {k} ELSE c
<1>1. /\ e \in Seq(BarType) /\ k \in Nat /\ k \notin DOMAIN data /\ e[k] = d
      /\ \A i \in DOMAIN data : e[i] = data[i] /\ i \in Int /\ i < k
  BY AppendedData
<1>2. /\ m \in old /\ \A i \in old : m <= i
      /\ m \in c /\ c \subseteq old /\ x \in c /\ \A i \in c : i <= x
      /\ hs \subseteq Int /\ ls \subseteq Int
      /\ Max(hs) \in hs /\ \A y \in hs : y <= Max(hs)
      /\ Min(ls) \in ls /\ \A y \in ls : Min(ls) <= y
  BY GroupFacts
<1>3. d.h \in Int /\ d.l \in Int /\ d.v \in Int
  BY DEF BarType
<1>4. BarOf(data, old, start) = Datum(start, data[m].o, Max(hs), Min(ls), data[x].c, sum)
  BY DEF BarOf, Highs, Lows
<1>5. old \subseteq DOMAIN data
  OBVIOUS
<1>6. BarOf(e, grown, start) =
        Datum(start, e[Min(grown)].o, Max(Highs(e, Counted(e, grown))),
              Min(Lows(e, Counted(e, grown))), e[Max(Counted(e, grown))].c,
              Total(Volumes(e, Counted(e, grown))))
  BY DEF BarOf, Highs, Lows
<1>7. sum \in Int /\ Total(Volumes(e, more)) = sum + IF counts THEN d.v ELSE 0
  <2>1. c \in SUBSET DOMAIN data /\ k \notin c
    BY <1>1, <1>2
  <2>2. (more = c \/ more = c \cup {k}) /\ (more = c <=> ~counts)
    BY <2>1
  <2> HIDE DEF c, more, counts
  <2>3. /\ Total(Volumes(data, c)) \in Int
        /\ Total(Volumes(Append(data, d), more)) =
             Total(Volumes(data, c)) + IF more = c THEN 0 ELSE d.v
    BY <2>1, <2>2, VolumesAppended
  <2>4. (IF more = c THEN 0 ELSE d.v) = IF counts THEN d.v ELSE 0
    BY <2>2
  <2> HIDE DEF e
  <2> QED  BY <2>3, <2>4 DEF e
<1> HIDE DEF e, k, m, c, x, hs, ls, sum
<1>8. grown = old \/ grown = old \cup {k}
  BY DEF k
<1>9. Min(grown) = m
  <2>1. grown \subseteq Int /\ m \in grown /\ \A i \in grown : m <= i
    BY <1>1, <1>2, <1>5, <1>8
  <2> QED  BY <2>1, MinIs
<1>10. Counted(e, grown) = more
  <2>1. \A i \in old : e[i] = data[i]
    BY <1>1, <1>5
  <2>2. k \notin old /\ m # k
    BY <1>1, <1>2, <1>5
  <2>3. c = {i \in old : data[i].v > 0 \/ i = m}
    BY DEF c, m, Counted
  <2>4. Counted(e, grown) = {i \in grown : e[i].v > 0 \/ i = m}
    BY <1>9 DEF Counted
  <2>5. CASE grown = old
    <3>1. Counted(e, grown) = c
      BY <2>1, <2>3, <2>4, <2>5
    <3> QED  BY <2>5, <3>1
  <2>6. CASE grown # old
    <3>1. grown = old \cup {k}
      BY <1>8, <2>6
    <3>2. Counted(e, grown) = IF d.v > 0 THEN c \cup {k} ELSE c
      BY <1>1, <2>1, <2>2, <2>3, <2>4, <3>1
    <3> QED  BY <2>6, <3>2
  <2> QED  BY <2>5, <2>6
<1>11. e[m] = data[m] /\ e[x] = data[x]
  BY <1>1, <1>2, <1>5
<1>12. Highs(e, c) = hs /\ Lows(e, c) = ls
  <2>1. \A i \in c : e[i] = data[i]
    BY <1>1, <1>2, <1>5
  <2> QED  BY <2>1 DEF Highs, Lows, hs, ls
<1>13. CASE ~counts
  <2>1. BarOf(e, grown, start) = Datum(start, e[m].o, Max(hs), Min(ls), e[x].c, sum)
    <3>1. more = c
      BY <1>13
    <3>2. Total(Volumes(e, c)) = sum
      BY <1>7, <1>13, <3>1
    <3> HIDE DEF more
    <3> QED  BY <1>6, <1>9, <1>10, <1>12, <3>1, <3>2 DEF x
  <2> QED  BY <1>4, <1>11, <1>13, <2>1 DEF e
<1>14. CASE counts
  <2> DEFINE hi == Max(hs)
             lo == Min(ls)
  <2>1. more = c \cup {k} /\ Total(Volumes(e, more)) = sum + d.v
    BY <1>7, <1>14
  <2>2. Highs(e, more) = hs \cup {d.h} /\ Lows(e, more) = ls \cup {d.l}
    BY <1>1, <1>12, <2>1 DEF Highs, Lows
  <2>3. Max(more) = k
    <3>1. \A i \in c : i \in Int /\ i <= k
      BY <1>1, <1>2, <1>5
    <3>2. more \subseteq Int /\ k \in more /\ \A i \in more : i <= k
      <4> HIDE DEF more
      <4> QED  BY <1>1, <2>1, <3>1
    <3> HIDE DEF more
    <3> QED  BY <3>2, MaxIs
  <2>4. Max(hs \cup {d.h}) = IF d.h > hi THEN d.h ELSE hi
    BY <1>2, <1>3, MaxAppended
  <2>5. Min(ls \cup {d.l}) = IF d.l < lo THEN d.l ELSE lo
    BY <1>2, <1>3, MinAppended
  <2> HIDE DEF more, hi, lo
  <2>6. BarOf(e, grown, start) =
          Datum(start, data[m].o, IF d.h > hi THEN d.h ELSE hi, IF d.l < lo THEN d.l ELSE lo,
                d.c, sum + d.v)
    BY <1>1, <1>6, <1>9, <1>10, <1>11, <2>1, <2>2, <2>3, <2>4, <2>5
  <2>7. BarOf(data, old, start) = Datum(start, data[m].o, hi, lo, data[x].c, sum)
    BY <1>4 DEF hi, lo
  <2>8. Merged(Datum(start, data[m].o, hi, lo, data[x].c, sum), d) =
          Datum(start, data[m].o, IF d.h > hi THEN d.h ELSE hi, IF d.l < lo THEN d.l ELSE lo,
                d.c, sum + d.v)
    <3> DEFINE b == Datum(start, data[m].o, hi, lo, data[x].c, sum)
               up == IF d.h > hi THEN d.h ELSE hi
               down == IF d.l < lo THEN d.l ELSE lo
               v == sum + d.v
    <3>1. b = [ts |-> start, o |-> data[m].o, h |-> hi, l |-> lo, c |-> data[x].c, v |-> sum]
      BY DEF Datum
    <3> HIDE DEF b
    <3>2. Merged(b, d) = [b EXCEPT !.h = up, !.l = down, !.c = d.c, !.v = v]
      BY <3>1 DEF Merged
    <3> HIDE DEF up, down, v
    <3>3. Merged(b, d) = Datum(start, data[m].o, up, down, d.c, v)
      BY <3>1, <3>2 DEF Datum
    <3> QED  BY <3>3 DEF b, up, down, v
  <2>9. BarOf(e, grown, start) = Merged(BarOf(data, old, start), d)
    BY <2>6, <2>7, <2>8
  <2> QED  BY <1>14, <2>9 DEF e
<1> QED  BY <1>13, <1>14

\* The first datum of a group is its bar, counted or not.
LEMMA BarFirst ==
  ASSUME NEW data \in Seq(BarType), NEW d \in BarType, NEW start, NoVolume(data)
  PROVE  BarOf(Append(data, d), {Len(data) + 1}, start) = [d EXCEPT !.ts = start]
<1> DEFINE e == Append(data, d)
           k == Len(data) + 1
<1>1. e[k] = d /\ k \in Nat
  BY AppendedData
<1>2. d.h \in Int /\ d.l \in Int /\ d.v \in Int
  BY DEF BarType
<1>3. Total(Volumes(e, {k})) = d.v
  <2> DEFINE none == {}
             one == {k}
  <2>1. none \in SUBSET DOMAIN data /\ one = none \cup {k} /\ one # none
    OBVIOUS
  <2>2. Total(Volumes(data, none)) = 0
    BY DEF NoVolume
  <2> HIDE DEF none, one
  <2>3. Total(Volumes(e, one)) =
          Total(Volumes(data, none)) + IF one = none THEN 0 ELSE d.v
    BY <2>1, VolumesAppended
  <2>4. Total(Volumes(e, one)) = d.v
    BY <1>2, <2>1, <2>2, <2>3
  <2> QED  BY <2>4 DEF one
<1> HIDE DEF e, k
<1>4. Min({k}) = k /\ Max({k}) = k
  <2>1. {k} \subseteq Int /\ k \in {k} /\ \A i \in {k} : i <= k /\ k <= i
    BY <1>1
  <2> QED  BY <2>1, MaxIs, MinIs
<1>5. Counted(e, {k}) = {k}
  BY <1>4 DEF Counted
<1>6. {e[i].h : i \in {k}} = {d.h} /\ {e[i].l : i \in {k}} = {d.l}
  BY <1>1
<1>7. Max({d.h}) = d.h /\ Min({d.l}) = d.l
  <2>1. \A y \in Int : Max({y}) = y /\ Min({y}) = y
    <3> TAKE y \in Int
    <3> DEFINE S == {y}
    <3>1. S \subseteq Int /\ y \in S /\ \A x \in S : x <= y /\ y <= x
      OBVIOUS
    <3> HIDE DEF S
    <3>2. Max(S) = y
      BY <3>1, MaxIs
    <3>3. Min(S) = y
      BY <3>1, MinIs
    <3> QED  BY <3>2, <3>3 DEF S
  <2> QED  BY <1>2, <2>1
<1>8. BarOf(e, {k}, start) = Datum(start, d.o, d.h, d.l, d.c, d.v)
  BY <1>1, <1>3, <1>4, <1>5, <1>6, <1>7 DEF BarOf
<1>9. [d EXCEPT !.ts = start] = Datum(start, d.o, d.h, d.l, d.c, d.v)
  <2>1. d = [ts |-> d.ts, o |-> d.o, h |-> d.h, l |-> d.l, c |-> d.c, v |-> d.v]
    BY DEF BarType
  <2>2. [d EXCEPT !.ts = start] =
          [ts |-> start, o |-> d.o, h |-> d.h, l |-> d.l, c |-> d.c, v |-> d.v]
    BY <2>1
  <2> QED  BY <2>2 DEF Datum
<1> QED  BY <1>8, <1>9 DEF e, k

-----------------------------------------------------------------------------
(* Periods.                                                                *)

LEMMA Divides ==
  ASSUME NEW a \in Int, NEW b \in Nat \ {0}
  PROVE  a % b \in Int /\ \E j \in Int : a = b * j + (a % b)
<1> DEFINE q == a \div b
           r == a % b
<1>1. q \in Int /\ r \in Int /\ a = b * q + r
  OBVIOUS
<1> HIDE DEF q, r
<1>2. r \in Int /\ \E j \in Int : a = b * j + r
  BY <1>1
<1> QED  BY <1>2 DEF r

\* Every period begins at a multiple of its length: a day is one of them.
LEMMA PeriodsBegin ==
  ASSUME NEW p \in Periods, NEW ts \in Int
  PROVE  \E j \in Int : LowerBound(p, ts) = p * j
<1>1. p \in Nat \ {0} /\ Day \in Nat \ {0} /\ Day % p = 0
  BY PeriodAssumption, DayAssumption
<1>2. PICK a \in Int : ts = Day * a + (ts % Day) /\ ts % Day \in Int
  BY <1>1, Divides
<1>3. PICK b \in Int : Day = p * b + 0
  <2> DEFINE r == Day % p
  <2>1. Day \in Int /\ p \in Nat \ {0} /\ r = 0
    BY <1>1
  <2>2. \E j \in Int : Day = p * j + r
    BY <2>1, Divides
  <2> HIDE DEF r
  <2> QED  BY <2>1, <2>2
<1> DEFINE r == ts % Day
           q == r % p
<1>4. PICK c \in Int : r = p * c + q /\ q \in Int
  BY <1>1, <1>2, Divides
<1>5. LowerBound(p, ts) = ts - q
  BY DEF LowerBound
<1> HIDE DEF r, q
<1>6. ts = Day * a + r
  BY <1>2 DEF r
<1>7. Day * a = p * (b * a)
  BY <1>1, <1>3
<1>8. b * a \in Int /\ p * (b * a + c) = p * (b * a) + p * c
  BY <1>1
<1>9. ts - q = p * (b * a + c)
  <2> DEFINE x == p * (b * a)
             y == p * c
  <2>1. ts = x + r /\ r = y + q /\ x \in Int /\ y \in Int /\ p * (b * a + c) = x + y
    BY <1>1, <1>4, <1>6, <1>7, <1>8
  <2> HIDE DEF x, y
  <2> QED  BY <1>4, <2>1
<1> QED  BY <1>5, <1>8, <1>9

\* Later data is of the same period until the period is over.
LEMMA SamePeriod ==
  ASSUME NEW p \in Periods, NEW t \in Int, NEW ts \in Int,
         t <= ts, ts < LowerBound(p, t) + p
  PROVE  LowerBound(p, ts) = LowerBound(p, t)
<1>1. p \in Nat \ {0} /\ LowerBound(p, t) \in Int /\ LowerBound(p, ts) \in Int
      /\ LowerBound(p, t) <= t /\ LowerBound(p, ts) <= ts /\ ts < LowerBound(p, ts) + p
  BY Bounds
<1>2. PICK i \in Int : LowerBound(p, t) = p * i
  BY PeriodsBegin
<1>3. PICK j \in Int : LowerBound(p, ts) = p * j
  BY PeriodsBegin
<1> DEFINE x == p * i
           y == p * j
<1>4. x \in Int /\ y \in Int /\ x <= ts /\ ts < x + p /\ y <= ts /\ ts < y + p
  BY <1>1, <1>2, <1>3
<1>5. p * (i + 1) = x + p /\ p * (j + 1) = y + p
  BY <1>1
<1>6. ~(i < j)
  <2> SUFFICES ASSUME i + 1 <= j PROVE FALSE
    OBVIOUS
  <2>1. p * (i + 1) <= p * j
    BY <1>1
  <2> HIDE DEF x, y
  <2> QED  BY <1>1, <1>4, <1>5, <2>1 DEF y
<1>7. ~(j < i)
  <2> SUFFICES ASSUME j + 1 <= i PROVE FALSE
    OBVIOUS
  <2>1. p * (j + 1) <= p * i
    BY <1>1
  <2> HIDE DEF x, y
  <2> QED  BY <1>1, <1>4, <1>5, <2>1 DEF x
<1>8. i = j
  BY <1>6, <1>7
<1> QED  BY <1>2, <1>3, <1>8

-----------------------------------------------------------------------------
(* What a timeframe shows.                                                 *)

\* Shows of a value of a timeframe; the data has finitely many periods.
ShownBy(p, f, data) ==
  /\ IsFiniteSet(Starts(p, data))
  /\ f.total = Cardinality(Starts(p, data))
  /\ Len(f.store) = Min({History, Cardinality(Starts(p, data))})
  /\ \A i \in DOMAIN f.store :
       /\ f.store[i].ts \in Starts(p, data)
       /\ f.store[i] = GroupBar(p, data, f.store[i].ts)
       /\ Cardinality({s \in Starts(p, data) : s > f.store[i].ts}) = i - 1

LEMMA ShownSame ==
  ASSUME NEW p, NEW f, NEW data, ShownBy(p, f, data),
         NEW g, g.store = f.store, g.total = f.total,
         NEW e, Starts(p, e) = Starts(p, data),
         \A s \in Starts(p, data) : GroupBar(p, e, s) = GroupBar(p, data, s)
  PROVE  ShownBy(p, g, e)
  BY DEF ShownBy

LEMMA StartsAreTimes ==
  ASSUME NEW p \in Periods, NEW data \in Seq(BarType)
  PROVE  Starts(p, data) \subseteq Int
<1>1. \A i \in Taken(p, data) : data[i].ts \in Int
  <2>1. \A b \in BarType : b.ts \in Int
    BY DEF BarType
  <2> QED  BY <2>1 DEF Taken
<1> QED  BY <1>1, Bounds DEF Starts

LEMMA MinOfTwo ==
  ASSUME NEW a \in Int, NEW b \in Int
  PROVE  Min({a, b}) = IF a <= b THEN a ELSE b
<1> DEFINE S == {a, b}
           m == IF a <= b THEN a ELSE b
<1>1. S \subseteq Int /\ m \in S /\ \A x \in S : m <= x
  OBVIOUS
<1> HIDE DEF S, m
<1>2. Min(S) = m
  BY <1>1, MinIs
<1> QED  BY <1>2 DEF S, m

\* The newest bar is of the latest period.
LEMMA NewestShown ==
  ASSUME NEW p \in Periods, NEW f \in TfType, NEW data \in Seq(BarType), ShownBy(p, f, data)
  PROVE  /\ f.store = <<>> <=> Starts(p, data) = {}
         /\ f.store # <<>> => /\ f.store[1].ts \in Starts(p, data)
                              /\ \A s \in Starts(p, data) : s <= f.store[1].ts
<1> DEFINE starts == Starts(p, data)
           n == Cardinality(starts)
           store == f.store
<1>1. /\ IsFiniteSet(starts) /\ Len(store) = Min({History, n})
      /\ \A i \in DOMAIN store :
           store[i].ts \in starts /\ Cardinality({s \in starts : s > store[i].ts}) = i - 1
  BY DEF ShownBy
<1>2. starts \subseteq Int /\ store \in Seq(BarType) /\ History \in Nat \ {0}
  BY StartsAreTimes, DayAssumption DEF TfType
<1> HIDE DEF starts, n, store
<1>3. n \in Nat /\ (n = 0 <=> starts = {})
  <2>1. n \in Nat
    BY <1>1, FS_CardinalityType DEF n
  <2>2. n = 0 <=> starts = {}
    BY <1>1, FS_EmptySet DEF n
  <2> QED  BY <2>1, <2>2
<1>4. Len(store) = IF History <= n THEN History ELSE n
  <2>1. History \in Int /\ n \in Int
    BY <1>2, <1>3
  <2> QED  BY <1>1, <2>1, MinOfTwo
<1>5. store = <<>> <=> starts = {}
  BY <1>2, <1>3, <1>4, EmptySeq
<1>6. ASSUME store # <<>> PROVE store[1].ts \in starts /\ \A s \in starts : s <= store[1].ts
  <2>1. 1 \in DOMAIN store
    BY <1>2, <1>6
  <2> DEFINE later == {s \in starts : s > store[1].ts}
  <2>2. Cardinality(later) = 0 /\ store[1].ts \in starts
    <3>1. Cardinality({s \in starts : s > store[1].ts}) = 1 - 1 /\ store[1].ts \in starts
      BY <1>1, <2>1
    <3> HIDE DEF later
    <3>2. 1 - 1 = 0
      OBVIOUS
    <3> QED  BY <3>1, <3>2 DEF later
  <2>3. later \in SUBSET starts
    OBVIOUS
  <2>4. later = {}
    <3> HIDE DEF later
    <3> QED  BY <1>1, <2>2, <2>3, FS_Subset, FS_EmptySet
  <2>5. store[1].ts \in Int
    BY <1>2, <2>2
  <2> QED  BY <1>2, <2>2, <2>4, <2>5
<1> QED  BY <1>5, <1>6 DEF starts, store

LEMMA NoVolumeAppended ==
  ASSUME NEW data \in Seq(BarType), NEW d \in BarType, NoVolume(data)
  PROVE  NoVolume(Append(data, d))
<1> DEFINE none == {}
<1>1. none \in SUBSET DOMAIN data /\ Total(Volumes(data, none)) = 0
  BY DEF NoVolume
<1> HIDE DEF none
<1>2. Total(Volumes(Append(data, d), none)) =
        Total(Volumes(data, none)) + IF none = none THEN 0 ELSE d.v
  BY <1>1, VolumesAppended
<1>3. Total(Volumes(Append(data, d), none)) = 0
  BY <1>1, <1>2
<1> QED  BY <1>3 DEF none, NoVolume

\* The bar of a period that has begun changes by what is traded in it.
LEMMA GroupBarAppended ==
  ASSUME NEW p, NEW data \in Seq(BarType), NEW d \in BarType, NEW start \in Starts(p, data)
  PROVE  GroupBar(p, Append(data, d), start) =
           IF ~ShouldReject(p, d.ts) /\ LowerBound(p, d.ts) = start /\ d.v > 0
           THEN Merged(GroupBar(p, data, start), d)
           ELSE GroupBar(p, data, start)
<1> DEFINE old == Group(p, data, start)
           joins == ~ShouldReject(p, d.ts) /\ LowerBound(p, d.ts) = start
           grown == IF joins THEN old \cup {Len(data) + 1} ELSE old
<1>1. old \in SUBSET DOMAIN data /\ old # {}
  BY GroupOfStart
<1>2. grown # old <=> joins
  BY <1>1, AppendedData
<1>3. Group(p, Append(data, d), start) = grown
  BY GroupAppended
<1>4. grown = old \/ grown = old \cup {Len(data) + 1}
  OBVIOUS
<1> HIDE DEF old, grown
<1>5. BarOf(Append(data, d), grown, start) =
        IF grown # old /\ d.v > 0 THEN Merged(BarOf(data, old, start), d)
        ELSE BarOf(data, old, start)
  BY <1>1, <1>4, BarAppended
<1>6. /\ GroupBar(p, Append(data, d), start) = BarOf(Append(data, d), grown, start)
      /\ GroupBar(p, data, start) = BarOf(data, old, start)
  BY <1>3, GroupBarIs DEF old
<1> QED  BY <1>2, <1>5, <1>6

\* The bar of a period that begins is its first datum.
LEMMA GroupBarBegun ==
  ASSUME NEW p, NEW data \in Seq(BarType), NEW d \in BarType, NoVolume(data),
         ~ShouldReject(p, d.ts), LowerBound(p, d.ts) \notin Starts(p, data)
  PROVE  GroupBar(p, Append(data, d), LowerBound(p, d.ts)) =
           [d EXCEPT !.ts = LowerBound(p, d.ts)]
<1> DEFINE start == LowerBound(p, d.ts)
<1>1. Group(p, data, start) = {}
  BY DEF Group, Starts
<1> HIDE DEF start
<1>2. Group(p, Append(data, d), start) = {Len(data) + 1}
  BY <1>1, GroupAppended DEF start
<1>3. GroupBar(p, Append(data, d), start) = [d EXCEPT !.ts = start]
  <2>1. GroupBar(p, Append(data, d), start) = BarOf(Append(data, d), {Len(data) + 1}, start)
    BY <1>2, GroupBarIs
  <2>2. BarOf(Append(data, d), {Len(data) + 1}, start) = [d EXCEPT !.ts = start]
    BY BarFirst
  <2> QED  BY <2>1, <2>2
<1> QED  BY <1>3 DEF start

\* A datum that is rejected, or that brings no volume into a period that has begun,
\* changes nothing.
LEMMA ShownUnmoved ==
  ASSUME NEW p, NEW f, NEW data \in Seq(BarType), NEW d \in BarType, ShownBy(p, f, data),
         \/ ShouldReject(p, d.ts)
         \/ LowerBound(p, d.ts) \in Starts(p, data) /\ ~(d.v > 0),
         NEW g, g.store = f.store, g.total = f.total
  PROVE  ShownBy(p, g, Append(data, d))
<1>1. Starts(p, Append(data, d)) = Starts(p, data)
  <2> DEFINE starts == Starts(p, data)
             start == LowerBound(p, d.ts)
  <2>1. Starts(p, Append(data, d)) = IF ShouldReject(p, d.ts) THEN starts ELSE starts \cup {start}
    BY StartsAppended
  <2>2. ShouldReject(p, d.ts) \/ start \in starts
    OBVIOUS
  <2> HIDE DEF starts, start
  <2>3. Starts(p, Append(data, d)) = starts
    BY <2>1, <2>2
  <2> QED  BY <2>3 DEF starts
<1>2. \A s \in Starts(p, data) : GroupBar(p, Append(data, d), s) = GroupBar(p, data, s)
  BY GroupBarAppended
<1> QED  BY <1>1, <1>2, ShownSame

\* A datum of the newest period is merged into the newest bar.
LEMMA ShownMerged ==
  ASSUME NEW p \in Periods, NEW f \in TfType, NEW data \in Seq(BarType), NEW d \in BarType,
         ShownBy(p, f, data), ~ShouldReject(p, d.ts), d.v > 0,
         f.store # <<>>, f.store[1].ts = LowerBound(p, d.ts),
         NEW g, g.store = [f.store EXCEPT ![1] = Merged(f.store[1], d)], g.total = f.total
  PROVE  ShownBy(p, g, Append(data, d))
<1> DEFINE starts == Starts(p, data)
           start == LowerBound(p, d.ts)
           e == Append(data, d)
           Later(t) == Cardinality({s \in starts : s > t})
<1>1. /\ IsFiniteSet(starts) /\ f.total = Cardinality(starts)
      /\ Len(f.store) = Min({History, Cardinality(starts)})
      /\ \A i \in DOMAIN f.store :
           /\ f.store[i].ts \in starts /\ f.store[i] = GroupBar(p, data, f.store[i].ts)
           /\ Later(f.store[i].ts) = i - 1
  BY DEF ShownBy
<1>2. f.store \in Seq(BarType) /\ 1 \in DOMAIN f.store /\ Len(g.store) = Len(f.store)
      /\ DOMAIN g.store = DOMAIN f.store
  <2>1. f.store \in Seq(BarType) /\ 1 \in DOMAIN f.store
    BY EmptySeq DEF TfType
  <2> QED  BY <2>1
<1>3. Starts(p, e) = starts
  <2>1. Starts(p, e) = starts \cup {start}
    BY StartsAppended
  <2>2. start \in starts
    BY <1>1, <1>2
  <2> HIDE DEF e, starts, start
  <2> QED  BY <2>1, <2>2
<1>4. Merged(f.store[1], d).ts = start
  <2>1. f.store[1] \in BarType
    BY <1>2
  <2>2. \A b \in BarType : Merged(b, d).ts = b.ts
    BY DEF Merged, BarType
  <2> QED  BY <2>1, <2>2
<1> HIDE DEF starts, e, Later
<1>5. ASSUME NEW i \in DOMAIN g.store
      PROVE  /\ g.store[i].ts \in starts /\ g.store[i] = GroupBar(p, e, g.store[i].ts)
             /\ Later(g.store[i].ts) = i - 1
  <2>1. CASE i = 1
    <3>1. g.store[i] = Merged(f.store[1], d) /\ g.store[i].ts = start
      BY <1>2, <1>4, <2>1
    <3>2. start \in starts /\ f.store[1] = GroupBar(p, data, start) /\ Later(start) = 1 - 1
      BY <1>1, <1>2
    <3>3. GroupBar(p, e, start) = Merged(GroupBar(p, data, start), d)
      BY <3>2, GroupBarAppended DEF e, starts
    <3> QED  BY <2>1, <3>1, <3>2, <3>3
  <2>2. CASE i # 1
    <3>1. g.store[i] = f.store[i] /\ i \in DOMAIN f.store
      BY <1>2, <2>2
    <3>2. /\ f.store[i].ts \in starts /\ f.store[i] = GroupBar(p, data, f.store[i].ts)
          /\ Later(f.store[i].ts) = i - 1 /\ Later(start) = 1 - 1
      BY <1>1, <1>2, <3>1
    <3>3. f.store[i].ts # start
      <4>1. i \in Int /\ i - 1 # 1 - 1
        BY <1>2, <2>2
      <4> QED  BY <3>2, <4>1
    <3>4. GroupBar(p, e, f.store[i].ts) = GroupBar(p, data, f.store[i].ts)
      BY <3>2, <3>3, GroupBarAppended DEF e, starts
    <3> QED  BY <3>1, <3>2, <3>4
  <2> QED  BY <2>1, <2>2
<1> QED  BY <1>1, <1>2, <1>3, <1>5 DEF ShownBy, e, starts, Later

\* A datum of a later period opens a bar.
LEMMA ShownOpened ==
  ASSUME NEW p \in Periods, NEW f \in TfType, NEW data \in Seq(BarType), NEW d \in BarType,
         ShownBy(p, f, data), ~ShouldReject(p, d.ts), NoVolume(data),
         \A s \in Starts(p, data) : s < LowerBound(p, d.ts),
         NEW g,
         g.store = SubSeq(<<[d EXCEPT !.ts = LowerBound(p, d.ts)]>> \o f.store, 1,
                          Min({History, Len(f.store) + 1})),
         g.total = f.total + 1
  PROVE  ShownBy(p, g, Append(data, d))
<1> DEFINE starts == Starts(p, data)
           start == LowerBound(p, d.ts)
           bar == [d EXCEPT !.ts = start]
           e == Append(data, d)
           all == starts \cup {start}
           n == Cardinality(starts)
           len == Len(f.store)
<1>1. /\ IsFiniteSet(starts) /\ f.total = n /\ len = Min({History, n})
      /\ \A i \in DOMAIN f.store :
           /\ f.store[i].ts \in starts /\ f.store[i] = GroupBar(p, data, f.store[i].ts)
           /\ Cardinality({s \in starts : s > f.store[i].ts}) = i - 1
  BY DEF ShownBy
<1>2. /\ f.store \in Seq(BarType) /\ starts \subseteq Int /\ start \in Int
      /\ History \in Nat \ {0} /\ start \notin starts /\ bar \in BarType /\ bar.ts = start
  <2>1. d.ts \in Int
    BY DEF BarType
  <2>2. start \in Int
    BY <2>1, Bounds
  <2>3. bar \in BarType /\ bar.ts = start
    BY <2>2 DEF BarType
  <2>4. starts \subseteq Int /\ start \notin starts
    BY <2>2, StartsAreTimes
  <2> QED  BY <2>2, <2>3, <2>4, DayAssumption DEF TfType
<1>3. Starts(p, e) = all
  BY StartsAppended
<1>4. GroupBar(p, e, start) = bar
  BY <1>2, GroupBarBegun
<1>5. \A s \in starts : GroupBar(p, e, s) = GroupBar(p, data, s)
  BY <1>2, GroupBarAppended
<1>6. \A s \in starts : s < start
  OBVIOUS
<1> HIDE DEF starts, start, bar, e, all, n
<1>7. n \in Nat /\ IsFiniteSet(all) /\ Cardinality(all) = n + 1
  <2>1. n \in Nat
    BY <1>1, FS_CardinalityType DEF n
  <2> QED  BY <1>1, <1>2, <2>1, FS_AddElement DEF all, n
<1>8. /\ len = IF History <= n THEN History ELSE n
      /\ Min({History, len + 1}) = IF History <= n + 1 THEN History ELSE n + 1
      /\ Min({History, n + 1}) = IF History <= n + 1 THEN History ELSE n + 1
  <2>1. History \in Int /\ n \in Int /\ n + 1 \in Int
    BY <1>2, <1>7
  <2>2. len = IF History <= n THEN History ELSE n
    BY <1>1, <2>1, MinOfTwo
  <2> HIDE DEF len
  <2>3. len + 1 \in Int
    BY <2>1, <2>2
  <2>4. Min({History, len + 1}) = IF History <= len + 1 THEN History ELSE len + 1
    BY <2>1, <2>3, MinOfTwo
  <2>5. Min({History, n + 1}) = IF History <= n + 1 THEN History ELSE n + 1
    BY <2>1, MinOfTwo
  <2> QED  BY <2>1, <2>2, <2>4, <2>5
<1> DEFINE m == IF History <= n + 1 THEN History ELSE n + 1
           both == <<bar>> \o f.store
<1>9. m \in Nat \ {0} /\ m <= len + 1 /\ len \in Nat
  BY <1>2, <1>7, <1>8
<1>10. g.store = SubSeq(both, 1, m)
  BY <1>8 DEF bar, start
<1>11. /\ both \in Seq(BarType) /\ Len(both) = len + 1 /\ both[1] = bar
       /\ \A i \in 2 .. len + 1 : both[i] = f.store[i - 1]
  <2>1. <<bar>> \in Seq(BarType) /\ Len(<<bar>>) = 1 /\ <<bar>>[1] = bar
    BY <1>2
  <2> QED  BY <1>2, <2>1, ConcatProperties
<1> HIDE DEF m, both, len
<1>12. /\ Len(g.store) = m /\ DOMAIN g.store = 1 .. m
       /\ g.store[1] = bar
       /\ \A i \in 2 .. m : g.store[i] = f.store[i - 1] /\ i - 1 \in 1 .. len
  <2>1. Len(g.store) = m /\ g.store \in Seq(BarType) /\ \A i \in 1 .. m : g.store[i] = both[i]
    <3>1. 1 \in Int /\ m \in Int /\ 1 <= m /\ m <= Len(both) /\ m - 1 + 1 = m
      BY <1>9, <1>11
    <3> DEFINE cut == SubSeq(both, 1, m)
    <3>2. cut \in Seq(BarType) /\ Len(cut) = m /\ \A i \in 1 .. m : cut[i] = both[i]
      BY <1>11, <3>1, SubSeqProperties
    <3> HIDE DEF cut
    <3>3. g.store = cut
      BY <1>10 DEF cut
    <3> QED  BY <3>2, <3>3
  <2>2. \A i \in 2 .. m : i \in 1 .. m /\ i \in 2 .. len + 1 /\ i - 1 \in 1 .. len
    BY <1>9
  <2>3. DOMAIN g.store = 1 .. m /\ 1 \in 1 .. m
    <3>1. \A st \in Seq(BarType) : DOMAIN st = 1 .. Len(st)
      OBVIOUS
    <3>2. DOMAIN g.store = 1 .. m
      BY <2>1, <3>1
    <3>3. 1 \in 1 .. m
      BY <1>9
    <3> QED  BY <3>2, <3>3
  <2> QED  BY <1>11, <2>1, <2>2, <2>3
<1>13. ASSUME NEW i \in 1 .. m
       PROVE  /\ g.store[i].ts \in all /\ g.store[i] = GroupBar(p, e, g.store[i].ts)
              /\ Cardinality({s \in all : s > g.store[i].ts}) = i - 1
  <2>1. CASE i = 1
    <3>1. {s \in all : s > start} = {}
      <4>1. ASSUME NEW s \in all PROVE ~(s > start)
        BY <1>2, <1>6 DEF all
      <4> QED  BY <4>1
    <3>2. Cardinality({s \in all : s > start}) = i - 1
      <4>1. i - 1 = 0
        BY <2>1
      <4>2. Cardinality({}) = 0
        BY FS_EmptySet
      <4> QED  BY <3>1, <4>1, <4>2
    <3> QED  BY <1>2, <1>4, <1>12, <2>1, <3>2 DEF all
  <2>2. CASE i # 1
    <3> DEFINE j == i - 1
               t == f.store[j].ts
               later == {s \in starts : s > t}
    <3>1. i \in 2 .. m /\ j \in DOMAIN f.store /\ j \in Nat
      BY <1>2, <1>9, <1>12, <2>2 DEF len
    <3>2. g.store[i] = f.store[j]
      BY <1>12, <3>1
    <3>3. t \in starts /\ f.store[j] = GroupBar(p, data, t) /\ Cardinality(later) = j - 1
      BY <1>1, <3>1
    <3> HIDE DEF j, t
    <3>4. {s \in all : s > t} = later \cup {start}
      BY <1>2, <1>6, <3>3 DEF all
    <3>5. later \in SUBSET starts /\ start \notin later
      BY <1>2
    <3> HIDE DEF later
    <3>6. IsFiniteSet(later)
      BY <1>1, <3>5, FS_Subset
    <3>7. Cardinality(later \cup {start}) = Cardinality(later) + 1
      BY <3>5, <3>6, FS_AddElement
    <3>8. (j - 1) + 1 = i - 1
      BY <3>1 DEF j
    <3>9. Cardinality({s \in all : s > t}) = i - 1
      BY <3>3, <3>4, <3>7, <3>8
    <3>10. g.store[i].ts = t
      BY <3>2 DEF t
    <3> QED  BY <1>5, <3>2, <3>3, <3>9, <3>10 DEF all
  <2> QED  BY <2>1, <2>2
<1>14. g.total = Cardinality(all) /\ Len(g.store) = Min({History, Cardinality(all)})
  BY <1>1, <1>7, <1>8, <1>12 DEF m
<1> QED  BY <1>3, <1>7, <1>12, <1>13, <1>14 DEF ShownBy, e

\* Where nothing is counted there is no volume, however much data there is.
LEMMA NothingCounted ==
  ASSUME NEW data \in Seq(BarType)
  PROVE  NoVolume(data)
<1> DEFINE N == {n \in Nat : \A s \in Seq(BarType) : Len(s) = n => NoVolume(s)}
<1>1. 0 \in N
  <2>1. \A s \in Seq(BarType) : Len(s) = 0 => s = <<>>
    BY EmptySeq
  <2> QED  BY <2>1, NoData
<1>2. ASSUME NEW n \in N PROVE n + 1 \in N
  <2>1. ASSUME NEW s \in Seq(BarType), Len(s) = n + 1 PROVE NoVolume(s)
    <3> DEFINE t == SubSeq(s, 1, n)
               b == s[n + 1]
    <3>1. t \in Seq(BarType) /\ Len(t) = n /\ b \in BarType /\ s = Append(t, b)
      BY <2>1
    <3> HIDE DEF t, b
    <3>2. NoVolume(t)
      BY <3>1
    <3> QED  BY <3>1, <3>2, NoVolumeAppended
  <2> QED  BY <2>1
<1> HIDE DEF N
<1>3. N = Nat
  BY <1>1, <1>2, Inductive DEF N
<1>4. Len(data) \in N
  BY <1>3
<1> QED  BY <1>4 DEF N

\* A sequence that is not empty, and what it was before its last element.
LEMMA LastAppended ==
  ASSUME NEW data \in Seq(BarType), data # <<>>
  PROVE  /\ Front(data) \in Seq(BarType) /\ Last(data) \in BarType
         /\ data = Append(Front(data), Last(data))
         /\ \A i \in DOMAIN Front(data) : i \in DOMAIN data /\ data[i] = Front(data)[i]
<1>1. Front(data) = SubSeq(data, 1, Len(data) - 1) /\ Last(data) = data[Len(data)]
  BY DEF Front, Last
<1>2. Len(data) \in Nat \ {0}
  BY EmptySeq
<1> QED  BY <1>1, <1>2

LEMMA FrontAppended ==
  ASSUME NEW data \in Seq(BarType), NEW d \in BarType
  PROVE  LET e == Append(data, d)
         IN e \in Seq(BarType) /\ e # <<>> /\ Front(e) = data /\ Last(e) = d
<1> DEFINE e == Append(data, d)
<1>1. e \in Seq(BarType) /\ Len(e) = Len(data) + 1 /\ e # <<>>
  <2>1. e \in Seq(BarType) /\ Len(e) = Len(data) + 1 /\ Len(e) # 0
    OBVIOUS
  <2> QED  BY <2>1, EmptySeq
<1>2. Front(e) = SubSeq(e, 1, Len(e) - 1) /\ Last(e) = e[Len(e)]
  BY DEF Front, Last
<1>3. SubSeq(e, 1, Len(e) - 1) = data /\ e[Len(e)] = d
  OBVIOUS
<1> QED  BY <1>1, <1>2, <1>3

-----------------------------------------------------------------------------
(* What the timeframes have been given.                                    *)

\* The event has brought a datum that has not reached the timeframe yet.
Behind(p) == call.kind # "notify" /\ Ahead(p)
Given(p) == IF Behind(p) THEN Front(taken) ELSE taken

\* No datum taken is later than the last one, which is that of the event.
TakenOK ==
  /\ taken \in Seq(BarType)
  /\ \A i \in DOMAIN taken : taken[i].ts <= lastSeen
  /\ pending # NoBar => lastSeen = pending[1].ts
  /\ call.phase \in {"pre", "main"} /\ call.kind # "notify" =>
       /\ taken # <<>> /\ Last(taken) = call.d
       /\ \A i \in DOMAIN taken : taken[i].ts <= call.d.ts
       /\ call.kind = "open" => call.d.v = 0
       /\ call.kind = "bar" => call.d.v > 0

\* The filter has been asked about the datum the timeframe is to be given, and
\* its answer about the opening of a bar is kept for the aggregation.
RejectOK(p) ==
  /\ \/ call.phase = "main" /\ call.kind # "notify"
     \/ call.phase = "pre" /\ p \notin call.todo /\ Brings
     => (tf[p].reject <=> ShouldReject(p, call.d.ts))
  /\ pending # NoBar /\ ~(call.kind = "open" /\ call.phase = "pre" /\ p \in call.todo) =>
       (tf[p].reject <=> ShouldReject(p, pending[1].ts))

SeenOK(p) == ShownBy(p, tf[p], Given(p))

SeenInv == TakenOK /\ \A p \in Periods : RejectOK(p) /\ SeenOK(p)

\* What a timeframe shows is kept with its bars and what it has been given.
LEMMA SeenKept ==
  ASSUME NEW p, SeenOK(p), Given(p)' = Given(p),
         tf'[p].store = tf[p].store, tf'[p].total = tf[p].total
  PROVE  SeenOK(p)'
<1> DEFINE data == Given(p)
<1>1. ShownBy(p, tf[p], data)
  BY DEF SeenOK
<1> HIDE DEF data
<1>2. ShownBy(p, tf'[p], data)
  BY <1>1, ShownSame
<1> QED  BY <1>2 DEF SeenOK, data

\* It is enough to look at the timeframe that passes.
LEMMA PassSeen ==
  ASSUME Inv, SeenInv, NEW p \in Periods, NEW f, Pass(p, f), RejectOK(p)', SeenOK(p)'
  PROVE  SeenInv'
<1>1. call \in CallType /\ tf \in [Periods -> TfType]
  BY DEF Inv, TypesOK
<1>2. /\ call'.kind = call.kind /\ call'.d = call.d /\ call'.phase = call.phase
      /\ call'.todo = call.todo \ {p}
      /\ UNCHANGED <<lastSeen, taken, pending>>
  BY <1>1 DEF Pass, CallType
<1>3. TakenOK'
  BY <1>2 DEF SeenInv, TakenOK
<1>4. ASSUME NEW q \in Periods \ {p} PROVE RejectOK(q)' /\ SeenOK(q)'
  <2>1. tf'[q] = tf[q] /\ (q \in call'.todo <=> q \in call.todo)
    BY <1>1, <1>2 DEF Pass
  <2>2. RejectOK(q)'
    BY <1>2, <2>1 DEF SeenInv, RejectOK, Brings
  <2>3. Given(q)' = Given(q)
    BY <1>2, <2>1 DEF Given, Behind, Ahead
  <2> QED  BY <2>1, <2>2, <2>3, SeenKept DEF SeenInv
<1> QED  BY <1>3, <1>4 DEF SeenInv

LEMMA FailSeen ==
  ASSUME SeenInv, NEW why, Fail(why)
  PROVE  SeenInv'
  BY DEF Fail, SeenInv, TakenOK, RejectOK, SeenOK, Given, Behind, Ahead, Brings

LEMMA ClosePhaseSeen == ASSUME Inv, SeenInv, NEW p \in Periods, ClosePhase(p) PROVE SeenInv'
<1> DEFINE ts == call.d.ts
           f == IF call.kind = "notify" THEN tf[p]
                ELSE [tf[p] EXCEPT !.reject = ShouldReject(p, ts)]
<1>1. call.phase = "pre" /\ p \in call.todo /\ CallOK /\ RejectOK(p) /\ SeenOK(p)
  BY DEF ClosePhase, In, Inv, SeenInv
<1>2. tf[p] \in TfType /\ tf \in [Periods -> TfType] /\ call \in CallType
  BY DEF Inv, TypesOK
<1>3. /\ f \in TfType /\ f.store = tf[p].store /\ f.total = tf[p].total
      /\ call.kind # "notify" => (f.reject <=> ShouldReject(p, ts))
      /\ call.kind = "notify" => (f.reject <=> tf[p].reject)
  <2>1. ShouldReject(p, ts) \in BOOLEAN
    BY DEF ShouldReject
  <2> DEFINE r == ShouldReject(p, ts)
  <2> HIDE DEF r
  <2>2. [tf[p] EXCEPT !.reject = r] \in TfType
    BY <1>2, <2>1 DEF TfType, r
  <2>3. /\ [tf[p] EXCEPT !.reject = r].store = tf[p].store
        /\ [tf[p] EXCEPT !.reject = r].total = tf[p].total
        /\ [tf[p] EXCEPT !.reject = r].reject = r
    BY <1>2 DEF TfType
  <2> QED  BY <1>2, <2>2, <2>3 DEF r
<1>4. /\ DoClose(f).store = f.store /\ DoClose(f).total = f.total
      /\ (DoClose(f).reject <=> f.reject)
  <2> HIDE DEF f
  <2> QED  BY <1>3 DEF DoClose, TfType
<1>5. \/ Fail("notRecent") \/ Fail("noData")
      \/ Pass(p, f) \/ Pass(p, DoClose(f))
  BY DEF ClosePhase
<1> HIDE DEF f
<1>6. ASSUME NEW g, Pass(p, g), g.store = f.store, g.total = f.total, g.reject <=> f.reject
      PROVE  SeenInv'
  <2>1. /\ tf'[p] = g /\ call'.kind = call.kind /\ call'.d = call.d
        /\ call'.phase = "pre" /\ p \notin call'.todo
        /\ UNCHANGED <<taken, pending>>
    BY <1>1, <1>2, <1>6 DEF Pass, CallType
  <2>2. Given(p)' = Given(p)
    BY <1>1, <2>1 DEF Given, Behind, Ahead
  <2>3. SeenOK(p)'
    BY <1>1, <1>3, <1>6, <2>1, <2>2, SeenKept
  <2>4. RejectOK(p)'
    <3>1. call.kind # "notify" => (g.reject <=> ShouldReject(p, call.d.ts))
      BY <1>3, <1>6
    <3>2. call.kind = "notify" => (g.reject <=> tf[p].reject)
      BY <1>3, <1>6
    <3>3. call.kind = "open" => pending # NoBar /\ pending[1].ts = call.d.ts
      BY <1>1 DEF CallOK
    <3>4. call.kind = "tick" => pending = NoBar
      BY <1>1 DEF CallOK
    <3>5. call.kind = "tick" \/ call.kind = "open" \/ call.kind = "notify"
      BY <1>1 DEF CallOK, Brings
    <3> QED  BY <1>1, <2>1, <3>1, <3>2, <3>3, <3>4, <3>5 DEF RejectOK, Brings
  <2> QED  BY <1>6, <2>3, <2>4, PassSeen
<1> QED  BY <1>4, <1>5, <1>6, FailSeen

LEMMA AnnouncePhaseSeen == ASSUME Inv, SeenInv, NEW p \in Periods, AnnouncePhase(p) PROVE SeenInv'
<1>1. call.phase = "post" /\ RejectOK(p) /\ SeenOK(p)
  BY DEF AnnouncePhase, In, SeenInv
<1>2. tf[p] \in TfType /\ tf \in [Periods -> TfType] /\ call \in CallType
  BY DEF Inv, TypesOK
<1>3. PICK g : /\ Pass(p, g) /\ g.store = tf[p].store /\ g.total = tf[p].total
               /\ (g.reject <=> tf[p].reject)
  <2>1. LET g == Announced(tf[p])
        IN g.store = tf[p].store /\ g.total = tf[p].total /\ (g.reject <=> tf[p].reject)
    BY <1>2 DEF Announced, TfType
  <2>2. Pass(p, tf[p]) \/ Pass(p, Announced(tf[p]))
    BY DEF AnnouncePhase
  <2> QED  BY <2>1, <2>2
<1>4. /\ tf'[p] = g /\ call'.kind = call.kind /\ call'.d = call.d
      /\ call'.phase = "post" /\ UNCHANGED <<taken, pending>>
  BY <1>1, <1>2, <1>3 DEF Pass, CallType
<1>5. Given(p)' = Given(p)
  BY <1>1, <1>4 DEF Given, Behind, Ahead
<1>6. SeenOK(p)'
  BY <1>1, <1>3, <1>4, <1>5, SeenKept
<1>7. RejectOK(p)'
  BY <1>1, <1>3, <1>4 DEF RejectOK, Brings
<1> QED  BY <1>3, <1>6, <1>7, PassSeen

\* The data reaches the timeframe: its bars become those of one more datum.
LEMMA DataPhaseSeen == ASSUME Inv, SeenInv, NEW p \in Periods, DataPhase(p) PROVE SeenInv'
<1> DEFINE f == tf[p]
           d == call.d
           data == Front(taken)
           isBar == call.kind = "bar"
           opens == call.kind # "bar" /\ BelongsToNewBar(f, d.ts)
           merges == call.kind = "bar" \/ (call.kind = "tick" /\ ~opens)
           passive == [f EXCEPT !.curBar = FALSE]
           merged == [Aggregate(f, d) EXCEPT !.curBar = isBar]
<1>1. call.phase = "main" /\ p \in call.todo /\ CallOK /\ BarOK(p)
  BY DEF DataPhase, In, Inv, TfOK
<1>2. /\ f \in TfType /\ tf \in [Periods -> TfType] /\ call \in CallType
      /\ d \in BarType /\ d.ts \in Int /\ lastSeen \in Int
  BY DEF Inv, TypesOK, CallType, BarType
<1>3. call.kind \in {"tick", "open", "bar"}
  BY <1>1 DEF CallOK, Brings
<1>4. /\ taken = Append(data, d) /\ data \in Seq(BarType)
      /\ \A i \in DOMAIN data : data[i].ts <= d.ts
      /\ call.kind = "open" => d.v = 0
      /\ call.kind # "open" => d.v > 0
      /\ f.reject <=> ShouldReject(p, d.ts)
      /\ ShownBy(p, f, data)
  <2>1. /\ taken \in Seq(BarType) /\ taken # <<>> /\ Last(taken) = d
        /\ \A i \in DOMAIN taken : taken[i].ts <= d.ts
        /\ call.kind = "open" => d.v = 0
        /\ call.kind = "bar" => d.v > 0
    BY <1>1, <1>3 DEF SeenInv, TakenOK
  <2>2. call.kind = "tick" => d.v > 0
    BY <1>1 DEF CallOK
  <2>3. f.reject <=> ShouldReject(p, d.ts)
    BY <1>1, <1>3 DEF SeenInv, RejectOK
  <2>4. Given(p) = data
    BY <1>1, <1>3 DEF Given, Behind, Ahead
  <2>5. ShownBy(p, f, data)
    BY <2>4 DEF SeenInv, SeenOK
  <2> QED  BY <1>3, <2>1, <2>2, <2>3, <2>5, LastAppended
<1>5. NoVolume(data)
  BY <1>4, NothingCounted
<1>6. \/ f.reject /\ Pass(p, f)
      \/ ~f.reject /\ opens /\ Pass(p, OpenBar(p, f, d))
      \/ ~f.reject /\ ~opens /\ ~merges /\ Pass(p, passive)
      \/ ~f.reject /\ merges /\ CanAggregate(f, d) /\ Pass(p, merged)
      \/ Fail("notOpen")
  BY DEF DataPhase
<1>7. ASSUME NEW g, Pass(p, g), g.reject <=> f.reject, ShownBy(p, g, Append(data, d))
      PROVE  SeenInv'
  <2>1. /\ tf'[p] = g /\ call'.kind = call.kind /\ call'.d = call.d
        /\ call'.phase = "main" /\ p \notin call'.todo /\ UNCHANGED <<taken, pending>>
    BY <1>1, <1>2, <1>7 DEF Pass, CallType
  <2>2. Given(p)' = taken
    BY <2>1 DEF Given, Behind, Ahead
  <2>3. SeenOK(p)'
    BY <1>4, <1>7, <2>1, <2>2 DEF SeenOK
  <2>4. RejectOK(p)'
    BY <1>1, <1>7, <2>1 DEF RejectOK, SeenInv, Brings
  <2> QED  BY <1>7, <2>3, <2>4, PassSeen
<1> HIDE DEF f, d, data
\* The newest bar is that of the latest data.
<1>8. /\ f.store = <<>> <=> Starts(p, data) = {}
      /\ f.store # <<>> => /\ f.store[1].ts \in Starts(p, data)
                           /\ \A s \in Starts(p, data) : s <= f.store[1].ts
  BY <1>2, <1>4, NewestShown
<1>9. /\ f.store = <<>> <=> f.upper = 0
      /\ f.store # <<>> => f.store[1] = f.bar
      /\ f.upper # 0 => f.upper = f.bar.ts + p
      /\ f.upper \in Int /\ f.bar.ts \in Int /\ p \in Nat \ {0}
  <2>1. f.upper \in Int /\ f.bar.ts \in Int
    BY <1>2 DEF TfType, BarType
  <2> QED  BY <1>1, <2>1, PeriodAssumption DEF BarOK, f
<1>10. ASSUME ~BelongsToNewBar(f, d.ts)
       PROVE  f.store # <<>> /\ f.store[1].ts = LowerBound(p, d.ts)
  <2>1. f.store # <<>> /\ d.ts < f.bar.ts + p /\ f.store[1] = f.bar
    BY <1>2, <1>9, <1>10 DEF BelongsToNewBar
  <2>2. PICK i \in Taken(p, data) : f.bar.ts = LowerBound(p, data[i].ts)
    BY <1>8, <2>1 DEF Starts
  <2>3. data[i].ts \in Int /\ data[i].ts <= d.ts
    <3>1. i \in DOMAIN data
      BY DEF Taken
    <3>2. data[i] \in BarType
      BY <1>4, <3>1
    <3> QED  BY <1>4, <3>1, <3>2 DEF BarType
  <2>4. LowerBound(p, d.ts) = LowerBound(p, data[i].ts)
    BY <1>2, <2>1, <2>2, <2>3, SamePeriod
  <2> QED  BY <2>1, <2>2, <2>4
<1>11. CASE f.reject /\ Pass(p, f)
  <2>1. ShownBy(p, f, Append(data, d))
    BY <1>2, <1>4, <1>11, ShownUnmoved
  <2> QED  BY <1>7, <1>11, <2>1
<1>12. CASE ~f.reject /\ opens /\ Pass(p, OpenBar(p, f, d))
  <2> DEFINE g == OpenBar(p, f, d)
             start == LowerBound(p, d.ts)
             bar == [d EXCEPT !.ts = start]
  <2>1. /\ g.store = SubSeq(<<bar>> \o f.store, 1, Min({History, Len(f.store) + 1}))
        /\ g.total = f.total + 1 /\ (g.reject <=> f.reject)
    <3> DEFINE kept == SubSeq(<<bar>> \o f.store, 1, Min({History, Len(f.store) + 1}))
               up == UpperBound(p, d.ts)
               some == d.v > 0
               h == [f EXCEPT !.bar = bar, !.upper = up, !.closed = FALSE,
                              !.hasData = some, !.curBar = TRUE]
               n == f.total + 1
    <3>1. g = StoreBar(h, bar)
      BY DEF OpenBar
    <3>2. StoreBar(h, bar) = [h EXCEPT !.store = kept, !.total = n]
      BY <1>2 DEF StoreBar, TfType
    <3> HIDE DEF kept, bar, up, some, g, n
    <3>3. g.store = kept /\ g.total = n /\ (g.reject <=> f.reject)
      BY <1>2, <3>1, <3>2 DEF TfType
    <3> QED  BY <3>3 DEF kept, n
  <2>2. \A s \in Starts(p, data) : s < start
    <3> SUFFICES ASSUME NEW s \in Starts(p, data) PROVE s < start
      OBVIOUS
    <3>1. f.store # <<>> /\ s <= f.bar.ts /\ f.upper = f.bar.ts + p
      BY <1>8, <1>9
    <3>2. f.upper <= d.ts
      BY <1>9, <1>12, <3>1 DEF BelongsToNewBar
    <3>3. start \in Int /\ d.ts < start + p
      BY <1>2, Bounds
    <3>4. s \in Int
      BY <1>4, StartsAreTimes
    <3> HIDE DEF start
    <3> QED  BY <1>2, <1>9, <3>1, <3>2, <3>3, <3>4
  <2> HIDE DEF g
  <2>3. ShownBy(p, g, Append(data, d))
    BY <1>2, <1>4, <1>5, <1>12, <2>1, <2>2, ShownOpened
  <2> QED  BY <1>7, <1>12, <2>1, <2>3 DEF g
<1>13. CASE ~f.reject /\ ~opens /\ ~merges /\ Pass(p, passive)
  <2>1. passive.store = f.store /\ passive.total = f.total /\ (passive.reject <=> f.reject)
    BY <1>2 DEF TfType
  <2>2. call.kind = "open" /\ ~BelongsToNewBar(f, d.ts)
    BY <1>3, <1>13
  <2> HIDE DEF passive
  <2>3. LowerBound(p, d.ts) \in Starts(p, data) /\ ~(d.v > 0)
    BY <1>4, <1>8, <1>10, <2>2
  <2>4. ShownBy(p, passive, Append(data, d))
    BY <1>2, <1>4, <2>1, <2>3, ShownUnmoved
  <2> QED  BY <1>7, <1>13, <2>1, <2>4
<1>14. CASE ~f.reject /\ merges /\ CanAggregate(f, d) /\ Pass(p, merged)
  <2>1. f.store # <<>> /\ f.store[1].ts = LowerBound(p, d.ts) /\ f.store[1] = f.bar
    BY <1>9, <1>10, <1>14 DEF CanAggregate
  <2>2. /\ merged.store = [f.store EXCEPT ![1] = Merged(f.store[1], d)]
        /\ merged.total = f.total /\ (merged.reject <=> f.reject)
    <3> DEFINE bar == Merged(f.bar, d)
               kept == [f.store EXCEPT ![1] = bar]
               h == [f EXCEPT !.bar = bar, !.hasData = TRUE, !.store = kept]
    <3>1. merged = [h EXCEPT !.curBar = isBar]
      BY DEF Aggregate
    <3> HIDE DEF bar, kept, merged, isBar
    <3>2. merged.store = kept /\ merged.total = f.total /\ (merged.reject <=> f.reject)
      BY <1>2, <3>1 DEF TfType
    <3> QED  BY <2>1, <3>2 DEF kept, bar
  <2> HIDE DEF merged
  <2>3. d.v > 0
    BY <1>4, <1>14
  <2>4. ShownBy(p, merged, Append(data, d))
    BY <1>2, <1>4, <1>14, <2>1, <2>2, <2>3, ShownMerged
  <2> QED  BY <1>7, <1>14, <2>2, <2>4
<1> QED  BY <1>6, <1>11, <1>12, <1>13, <1>14, FailSeen

\* The next phase begins, or the event is over.
LEMMA NextPhaseSeen == ASSUME Inv, SeenInv, NextPhase PROVE SeenInv'
<1> DEFINE phase == PhaseAfter(call.phase, call.kind)
<1>1. CallOK /\ call \in CallType
  BY DEF Inv, TypesOK
<1>2. /\ call.phase # "idle" /\ call.todo = {}
      /\ call' = IF phase = "idle" THEN Idle ELSE Event(call.kind, call.d, phase)
      /\ UNCHANGED <<lastSeen, tf, taken, pending>>
  BY DEF NextPhase
<1>3. \/ /\ call.phase = "pre" /\ Brings
         /\ call'.phase = "main" /\ call'.kind = call.kind /\ call'.d = call.d
      \/ /\ call.phase = "main" /\ Brings
         /\ call'.phase = "post" /\ call'.kind = call.kind /\ call'.d = call.d
      \/ /\ ~(call.phase = "pre" /\ call.kind # "notify")
         /\ call'.phase = "idle" /\ call'.kind = "none"
  BY <1>1, <1>2 DEF PhaseAfter, CallOK, Brings, CallType, Event, Idle
<1>4. TakenOK'
  BY <1>2, <1>3 DEF SeenInv, TakenOK, Brings
<1>5. ASSUME NEW p \in Periods PROVE RejectOK(p)' /\ SeenOK(p)'
  <2>1. RejectOK(p)'
    BY <1>1, <1>2, <1>3 DEF SeenInv, RejectOK, Brings, CallOK
  <2>2. Given(p)' = Given(p)
    <3>1. call.phase = "pre" /\ call'.phase = "main" => call'.todo = Periods
      BY <1>2 DEF Event, Idle
    <3> QED  BY <1>1, <1>2, <1>3, <3>1 DEF Given, Behind, Ahead, Brings
  <2> QED  BY <1>2, <2>1, <2>2, SeenKept DEF SeenInv
<1> QED  BY <1>4, <1>5 DEF SeenInv

\* An event begins, or is refused because it comes from the past.
LEMMA BeginSeen ==
  ASSUME Inv, SeenInv, NEW kind \in {"tick", "open", "bar", "notify"}, NEW d \in BarType,
         MayCome(kind, d.ts), Begin(kind, d), UNCHANGED <<feed, backtesting>>,
         kind = "tick" => feed = "tick",
         kind = "open" => d.v = 0,
         kind = "bar" => /\ d.v > 0
                         /\ \/ pending # NoBar /\ d.ts = pending[1].ts
                            \/ Stale(kind, d.ts)
  PROVE  SeenInv'
<1>1. CallOK /\ call.phase = "idle" /\ TakenOK
  BY DEF Inv, SeenInv, MayCome, In
<1>2. d.ts \in Int /\ lastSeen \in Int /\ call \in CallType /\ taken \in Seq(BarType)
      /\ pending \in {NoBar} \cup {<<b>> : b \in BarType}
  BY <1>1 DEF Inv, TypesOK, TakenOK, BarType
<1>3. ASSUME NEW p \in Periods PROVE RejectOK(p) /\ SeenOK(p) /\ Given(p) = taken
  BY <1>1 DEF SeenInv, Given, Behind, Ahead
<1>4. CASE Stale(kind, d.ts)
  <2>1. /\ call'.phase \in {"idle", "post"}
        /\ UNCHANGED <<lastSeen, tf, taken, pending>>
    BY <1>4 DEF Begin, Event, Idle
  <2>2. TakenOK'
    BY <1>1, <2>1 DEF TakenOK
  <2>3. ASSUME NEW p \in Periods PROVE RejectOK(p)' /\ SeenOK(p)'
    <3>1. RejectOK(p)'
      BY <1>1, <1>3, <2>1 DEF RejectOK
    <3>2. Given(p)' = taken
      BY <2>1 DEF Given, Behind, Ahead
    <3> QED  BY <1>3, <2>1, <3>1, <3>2, SeenKept
  <2> QED  BY <2>2, <2>3 DEF SeenInv
<1>5. CASE ~Stale(kind, d.ts)
  <2>1. /\ call'.kind = kind /\ call'.d = d /\ call'.todo = Periods
        /\ call'.phase = IF kind = "bar" THEN "main" ELSE "pre"
        /\ lastSeen' = IF kind = "notify" THEN lastSeen ELSE IF kind = "bar" THEN d.ts + 1 ELSE d.ts
        /\ taken' = IF kind = "notify" THEN taken ELSE Append(taken, d)
        /\ pending' = IF kind = "open" THEN <<d>> ELSE IF kind = "bar" THEN NoBar ELSE pending
        /\ tf' = tf
    BY <1>5 DEF Begin, Event
  <2>2. lastSeen <= d.ts
    BY <1>2, <1>5 DEF Stale
  <2>3. CASE kind = "notify"
    <3>1. TakenOK'
      BY <1>1, <2>1, <2>3 DEF TakenOK
    <3>2. ASSUME NEW p \in Periods PROVE RejectOK(p)' /\ SeenOK(p)'
      <4>1. RejectOK(p)'
        BY <1>1, <1>3, <2>1, <2>3 DEF RejectOK, Brings
      <4>2. Given(p)' = taken
        BY <2>1, <2>3 DEF Given, Behind
      <4> QED  BY <1>3, <2>1, <4>1, <4>2, SeenKept
    <3> QED  BY <3>1, <3>2 DEF SeenInv
  <2>4. CASE kind # "notify"
    <3> DEFINE e == Append(taken, d)
    <3>1. taken' = e /\ e \in Seq(BarType) /\ e # <<>> /\ Front(e) = taken /\ Last(e) = d
      BY <1>2, <2>1, <2>4, FrontAppended
    <3>2. ASSUME NEW i \in DOMAIN e PROVE e[i].ts <= d.ts /\ e[i].ts \in Int
      <4>1. CASE i \in DOMAIN taken
        <5>1. e[i] = taken[i] /\ taken[i] \in BarType /\ taken[i].ts <= lastSeen
          BY <1>1, <1>2, <4>1 DEF TakenOK
        <5>2. taken[i].ts \in Int
          BY <5>1 DEF BarType
        <5> QED  BY <1>2, <2>2, <5>1, <5>2
      <4>2. CASE i \notin DOMAIN taken
        <5>1. e[i] = d
          BY <1>2, <4>2
        <5> QED  BY <1>2, <5>1
      <4> QED  BY <4>1, <4>2
    <3>3. lastSeen' \in Int /\ d.ts <= lastSeen'
      BY <1>2, <2>1, <2>4
    <3> HIDE DEF e
    <3>4. TakenOK'
      <4>1. \A i \in DOMAIN e : e[i].ts <= lastSeen'
        BY <1>2, <3>2, <3>3
      <4>2. pending' # NoBar => lastSeen' = pending'[1].ts
        <5>1. CASE kind = "open"
          BY <2>1, <5>1
        <5>2. CASE kind = "bar"
          BY <2>1, <5>2
        <5>3. CASE kind = "tick"
          BY <1>1, <2>1, <5>3 DEF CallOK
        <5> QED  BY <2>4, <5>1, <5>2, <5>3
      <4> QED  BY <2>1, <3>1, <3>2, <4>1, <4>2 DEF TakenOK
    <3>5. ASSUME NEW p \in Periods PROVE RejectOK(p)' /\ SeenOK(p)'
      <4>1. RejectOK(p)'
        <5>1. CASE kind = "open"
          BY <2>1, <5>1 DEF RejectOK
        <5>2. CASE kind = "bar"
          <6>1. pending # NoBar /\ d.ts = pending[1].ts
            BY <1>5, <5>2
          <6>2. tf[p].reject <=> ShouldReject(p, d.ts)
            BY <1>1, <1>3, <6>1 DEF RejectOK
          <6> QED  BY <2>1, <5>2, <6>2 DEF RejectOK
        <5>3. CASE kind = "tick"
          BY <1>1, <2>1, <5>3 DEF RejectOK, CallOK
        <5> QED  BY <2>4, <5>1, <5>2, <5>3
      <4>2. Given(p)' = taken
        BY <2>1, <2>4, <3>1 DEF Given, Behind, Ahead
      <4> QED  BY <1>3, <2>1, <4>1, <4>2, SeenKept
    <3> QED  BY <3>4, <3>5 DEF SeenInv
  <2> QED  BY <2>3, <2>4
<1> QED  BY <1>4, <1>5

LEMMA SeenInit == ASSUME Init PROVE SeenInv
<1>1. /\ lastSeen = -1 /\ tf = [p \in Periods |-> NewTimeframe] /\ call = Idle
      /\ taken = <<>> /\ pending = NoBar
  BY DEF Init
<1>2. Idle.kind = "none" /\ Idle.phase = "idle"
  BY DEF Idle
<1>3. TakenOK
  BY <1>1, <1>2 DEF TakenOK
<1>4. ASSUME NEW p \in Periods PROVE RejectOK(p) /\ SeenOK(p)
  <2>1. RejectOK(p)
    BY <1>1, <1>2 DEF RejectOK
  <2>2. tf[p] = NewTimeframe /\ Given(p) = <<>>
    BY <1>1, <1>2 DEF Given, Behind, Ahead
  <2>3. Starts(p, <<>>) = {}
    BY DEF Starts, Taken
  <2>4. IsFiniteSet({}) /\ Cardinality({}) = 0
    BY FS_EmptySet
  <2>5. Min({History, 0}) = 0
    <3>1. History \in Int /\ 0 \in Int /\ ~(History <= 0)
      BY DayAssumption
    <3> QED  BY <3>1, MinOfTwo
  <2>6. NewTimeframe.store = <<>> /\ NewTimeframe.total = 0 /\ Len(<<>>) = 0 /\ DOMAIN <<>> = {}
    BY DEF NewTimeframe
  <2>7. ShownBy(p, NewTimeframe, <<>>)
    BY <2>3, <2>4, <2>5, <2>6 DEF ShownBy
  <2> QED  BY <2>1, <2>2, <2>7 DEF SeenOK
<1> QED  BY <1>3, <1>4 DEF SeenInv

LEMMA NextSeen == ASSUME Inv, SeenInv, [Next]_vars PROVE SeenInv'
<1>1. \A ts \in Times : ts \in Int
  BY BoundAssumption DEF Times
<1>2. \A q \in Prices : q \in Int
  BY BoundAssumption DEF Prices
<1>3. ASSUME NEW ts \in Int, NEW q \in Int, NEW v \in Int
      PROVE  LET d == Datum(ts, q, q, q, q, v)
             IN d \in BarType /\ d.ts = ts /\ d.v = v
  BY DEF Datum, BarType
<1>4. ASSUME NEW ts \in Times, NEW q \in Prices, NewTick(ts, q)
      PROVE  SeenInv'
  <2> DEFINE d == Datum(ts, q, q, q, q, 1)
  <2>1. d \in BarType /\ d.ts = ts
    BY <1>1, <1>2, <1>3
  <2>2. /\ feed = "tick" /\ MayCome("tick", ts) /\ Begin("tick", d)
        /\ UNCHANGED <<feed, backtesting>>
    BY <1>4 DEF NewTick
  <2> HIDE DEF d
  <2> QED  BY <2>1, <2>2, BeginSeen
<1>5. ASSUME NEW ts \in Times, NEW q \in Prices, NewBarOpen(ts, q)
      PROVE  SeenInv'
  <2> DEFINE d == Datum(ts, q, q, q, q, 0)
  <2>1. d \in BarType /\ d.ts = ts /\ d.v = 0
    BY <1>1, <1>2, <1>3
  <2>2. MayCome("open", ts) /\ Begin("open", d) /\ UNCHANGED <<feed, backtesting>>
    BY <1>5 DEF NewBarOpen
  <2> HIDE DEF d
  <2> QED  BY <2>1, <2>2, BeginSeen
<1>6. ASSUME NEW d \in Bars, NewBarAggregate(d)
      PROVE  SeenInv'
  <2>1. d \in BarType /\ d.v > 0
    BY <1>1, <1>2 DEF Bars, BarType
  <2>2. /\ MayCome("bar", d.ts) /\ Begin("bar", d)
        /\ (pending # NoBar /\ d.ts = pending[1].ts) \/ Stale("bar", d.ts)
        /\ UNCHANGED <<feed, backtesting>>
    BY <1>6 DEF NewBarAggregate
  <2> QED  BY <2>1, <2>2, BeginSeen
<1>7. ASSUME NEW ts \in Times, NotifyDateTime(ts)
      PROVE  SeenInv'
  <2> DEFINE d == Datum(ts, 0, 0, 0, 0, 0)
  <2>1. d \in BarType /\ d.ts = ts
    BY <1>1, <1>3
  <2>2. MayCome("notify", ts) /\ Begin("notify", d) /\ UNCHANGED <<feed, backtesting>>
    BY <1>7 DEF NotifyDateTime
  <2> HIDE DEF d
  <2> QED  BY <2>1, <2>2, BeginSeen
<1>8. ASSUME NEW p \in Periods, ClosePhase(p) \/ DataPhase(p) \/ AnnouncePhase(p)
      PROVE  SeenInv'
  BY <1>8, ClosePhaseSeen, DataPhaseSeen, AnnouncePhaseSeen
<1>9. CASE NextPhase
  BY <1>9, NextPhaseSeen
<1>10. CASE Terminated \/ UNCHANGED vars
  BY <1>10 DEF Terminated, vars, SeenInv, TakenOK, RejectOK, SeenOK, Given, Behind, Ahead, Brings
<1> QED  BY <1>4, <1>5, <1>6, <1>7, <1>8, <1>9, <1>10 DEF Next

LEMMA SeenInvariant == Spec => [](Inv /\ SeenInv)
<1>1. Init => Inv /\ SeenInv
  BY InvInit, SeenInit
<1>2. (Inv /\ SeenInv) /\ [Next]_vars => (Inv /\ SeenInv)'
  BY NextKeeps, NextSeen
<1> QED  BY <1>1, <1>2, PTL DEF Spec

\* Between the events every timeframe shows the bars that the data taken make up, as
\* many of them as it keeps: however the data was cut into calls, rejected by the
\* filters and interrupted by notifications, each datum that counts is in the one
\* bar of its period, with its volume and its prices.
THEOREM BarsAreTheGroups == Spec => []BarsAreGroups
<1>1. Inv /\ SeenInv => BarsAreGroups
  <2> SUFFICES ASSUME SeenInv, In("idle"), NEW p \in Periods PROVE Shows(p, taken)
    BY DEF BarsAreGroups
  <2>1. Given(p) = taken
    BY DEF In, Given, Behind, Ahead
  <2> QED  BY <2>1 DEF SeenInv, SeenOK, ShownBy, Shows
<1> QED  BY <1>1, SeenInvariant, PTL

\* "All callbacks in different timeframes are called in the correct order": while the
\* closings of one event are announced no timeframe shows its datum, and when the
\* openings are announced all of them show it.
THEOREM CallbacksAreInOrder == Spec => CallbacksInOrder
<1>1. (Inv /\ SeenInv) /\ [Next]_vars =>
        [\A p \in Periods :
           heard'[p] # heard[p] =>
             LET shown == IF Last(heard'[p])[1] = "open" \/ call.kind = "notify"
                          THEN taken ELSE Front(taken)
             IN \A q \in Periods : Shows(q, shown)]_vars
  <2> SUFFICES ASSUME Inv, SeenInv, Next, NEW p \in Periods, heard'[p] # heard[p],
                      NEW q \in Periods
               PROVE  Shows(q, IF Last(heard'[p])[1] = "open" \/ call.kind = "notify"
                               THEN taken ELSE Front(taken))
    BY DEF vars
  <2>1. Shows(q, Given(q))
    BY DEF SeenInv, SeenOK, ShownBy, Shows
  <2>2. CASE AnnouncePhase(p) /\ Last(heard'[p])[1] = "open"
    <3>1. Given(q) = taken
      BY <2>2 DEF AnnouncePhase, In, Given, Behind, Ahead
    <3> QED  BY <2>1, <2>2, <3>1
  <2>3. CASE ClosePhase(p) /\ Last(heard'[p])[1] = "close"
    <3>1. Given(q) = IF call.kind = "notify" THEN taken ELSE Front(taken)
      BY <2>3 DEF ClosePhase, In, Given, Behind, Ahead
    <3> QED  BY <2>1, <2>3, <3>1
  <2> QED  BY <2>2, <2>3, Announces
<1> QED  BY <1>1, SeenInvariant, PTL DEF Spec, CallbacksInOrder
=============================================================================
