------------------------- MODULE FedBacktestProofs -------------------------
(***************************************************************************)
(* The order in which the feeders feed, what a run that ends has fed, the   *)
(* best prices between the records and the scheduled callbacks of one       *)
(* ticker, for any files, any number of tickers and any callback.           *)
(***************************************************************************)
EXTENDS FedBacktest, FiniteSetTheorems, WellFoundedInduction, TLAPS

-----------------------------------------------------------------------------
(* The invariant of the feeder.                                            *)

Steps == {"run", "start", "select", "open", "aggregate", "taken", "last", "done",
          "failed", "terminated"}
Records == [t : Tickers, ts : Times, row : Nat]

TypesOK ==
  /\ source \in {"multi", "single", "memory"} /\ count \in Nat
  /\ files \in [Tickers -> Seq(Times)]
  /\ ending \in [Tickers -> {"eof", "broken", "absent"}]
  /\ read \in [Tickers -> Nat] /\ \A t \in Tickers : read[t] <= Len(files[t])
  /\ ahead \in [Tickers -> Times \cup {Never}]
  /\ reading \in [ts : Times \cup {Never}, t : Nat]
  /\ lastSeen \in [Tickers -> Int]
  /\ best \in [Tickers -> [ts : Int, row : Nat]]
  /\ fed \in Seq(Records)
  /\ pc \in Steps

\* The feeder is at a ticker, and only multiFile has more than one.
PlaceOK ==
  /\ pc \notin {"run", "failed"} => setup = "good" /\ at \in Tickers
  /\ source = "memory" => count = 1
  /\ source # "multi" /\ pc \notin {"run", "start", "failed"} => count = 1 /\ pc # "select"
  /\ pc = "aggregate" => at \in BarTickers

\* A record of ticker t has been read that the market has not taken.
Waits(t) ==
  IF source = "multi"
  THEN ahead[t] # Never /\ ~(t = at /\ pc \in {"aggregate", "taken", "failed"})
  ELSE pc \in {"open", "terminated"}

\* What is ahead is the last record read; before a file is opened nothing is.
ReadOK ==
  /\ \A t \in Tickers : ahead[t] # Never => read[t] > 0 /\ ahead[t] = files[t][read[t]]
  /\ \A t \in Tickers :
       pc = "run" \/ (pc = "start" /\ (source = "multi" => t >= at)) =>
         read[t] = 0 /\ ahead[t] = Never
  /\ pc \in {"open", "aggregate"} => ahead[at] # Never

\* A file of which nothing waits when all have been opened is at its end.
EndOK ==
  /\ source = "multi" => \A t \in Tickers :
       IF pc = "start" THEN t < at => ahead[t] # Never
       ELSE pc \notin {"run", "failed"} /\ ahead[t] = Never =>
              read[t] = Len(files[t]) /\ ending[t] = "eof"
  /\ source # "multi" /\ pc \in {"last", "done"} =>
       read[1] = Len(files[1]) /\ ending[1] = "eof"
  /\ source = "memory" /\ pc \notin {"run", "start", "failed"} => ending[1] = "eof"

\* readingCtx is the earliest of what is ahead, and that is what is fed.
EarliestOK ==
  source = "multi" =>
    /\ \A t \in Tickers : reading.ts <= ahead[t]
    /\ reading.ts # Never => reading.t \in Tickers /\ ahead[reading.t] = reading.ts
    /\ pc \in {"open", "aggregate", "taken", "terminated"} =>
         at = reading.t /\ reading.ts # Never
    /\ pc \in {"last", "done"} => reading.ts = Never

\* The market has taken every record read but the one that waits.
TakenOK ==
  \A t \in Tickers : AllFedTo(t) = IF Waits(t) THEN read[t] - 1 ELSE read[t]

\* The last quote of a ticker is its last record, a tick later when that is a bar.
SeenOK ==
  \A t \in Tickers :
    lastSeen[t] = IF AllFedTo(t) = 0 THEN -1
                  ELSE IF t \in BarTickers /\ ~(pc = "aggregate" /\ t = at)
                       THEN files[t][AllFedTo(t)] + 1 ELSE files[t][AllFedTo(t)]

\* What has been taken was in order.
InOrder(t, i, j) ==
  IF t \in BarTickers THEN files[t][i] < files[t][j] ELSE files[t][i] <= files[t][j]
SortedOK ==
  \A t \in Tickers : \A i, j \in 1 .. AllFedTo(t) : i < j => InOrder(t, i, j)

\* No other ticker's record is earlier than the last one that was fed.
LatestOK ==
  /\ fed # <<>> => LET e == fed[Len(fed)] IN
       \A t \in Tickers : Waits(t) /\ t # e.t => e.ts <= ahead[t]
  /\ source = "multi" /\ pc \in {"aggregate", "taken"} =>
       fed # <<>> /\ fed[Len(fed)].t = at
  /\ pc \in {"run", "start"} => fed = <<>>

BestOK ==
  source = "multi" => \A t \in Tickers : Waits(t) => best[t] = Quote(ahead[t], read[t])

FeedInv ==
  /\ TypesOK /\ PlaceOK /\ ReadOK /\ EndOK /\ EarliestOK /\ TakenOK /\ SeenOK
  /\ SortedOK /\ LatestOK /\ BestOK /\ FedInOrder
  /\ pc \in {"failed", "terminated"} => EndsAsTheFilesSay

-----------------------------------------------------------------------------
(* The invariant of the scheduled callbacks, with one ticker.              *)

\* The day of the last quote.
Today == DateOf(lastSeen[1])

Callbacks == [ticker : Nat, time : Int, trading : Int, called : Int]
CallRecords == [told : Int, now : Int, due : Int, fresh : BOOLEAN]

CallTypesOK ==
  /\ opened \subseteq Tickers
  /\ cb = <<>> \/ \E c \in Callbacks : cb = <<c>>
  /\ calls \in Seq(CallRecords)
  /\ watched \subseteq Nat

\* Days are watched while there are trades the callback is about; the date of the last
\* call is one that a call was told.
WatchOK == watched # {} => cb # <<>> /\ About(cb[1].ticker, opened) # {}
CalledOK == cb # <<>> /\ cb[1].called # NoDate => Told(cb[1].called)

\* The day of the last event is the last one that was watched, and it is marked as traded,
\* unless it has had its call; no call is of a later day, and one that was told a time
\* of the day of its event marks that day as called.
DayOK(day) ==
  /\ \A d \in watched : d <= day
  /\ watched # {} => day \in watched /\ day \in {cb[1].trading, cb[1].called}
  /\ cb # <<>> => cb[1].called <= day
  /\ \A i \in 1 .. Len(calls) :
       /\ DateOf(calls[i].now) <= day
       /\ cb # <<>> /\ DateOf(calls[i].now) = day /\ DateOf(calls[i].told) = day =>
            cb[1].called = day

CallsOK ==
  /\ CallTypesOK /\ WatchOK /\ CalledOK /\ NoDayMissed /\ CallsKeepTheDay

CallInv == count = 1 =>
  CallsOK /\ (pc # "done" => \E day \in Int : day = Today /\ DayOK(day))

Inv == FeedInv /\ CallInv
-----------------------------------------------------------------------------
(* Days, and what has been fed.                                            *)

LEMMA DaysInOrder ==
  ASSUME NEW a \in Int, NEW b \in Int, a <= b
  PROVE  DateOf(a) \in Int /\ DateOf(a) <= DateOf(b)
<1>1. Day \in Nat \ {0}
  BY DayAssumption
<1>2. /\ a \div Day \in Int /\ a % Day \in 0 .. Day - 1 /\ a = Day * (a \div Day) + (a % Day)
      /\ b \div Day \in Int /\ b % Day \in 0 .. Day - 1 /\ b = Day * (b \div Day) + (b % Day)
  BY <1>1
<1>3. a \div Day <= b \div Day
  BY <1>1, <1>2
<1> QED  BY <1>2, <1>3 DEF DateOf

\* The day before the first is no day, and a time of the data has one.
LEMMA DayRange ==
  /\ DateOf(-1) = NoDate /\ \A a \in Nat : DateOf(a) \in Nat
  /\ \A a \in Int : DateOf(a) \in Int /\ TimeOf(a) \in Int
<1>1. Day \in Nat \ {0}
  BY DayAssumption
<1>2. (-1) \div Day = -1
  BY <1>1
<1>3. \A a \in Nat : a \div Day \in Nat
  BY <1>1
<1>4. \A a \in Int : a \div Day \in Int /\ a % Day \in Int
  BY <1>1
<1> QED  BY <1>2, <1>3, <1>4 DEF DateOf, TimeOf, NoDate

LEMMA Counted ==
  ASSUME NEW t, NEW n \in Nat
  PROVE  /\ FedTo(t, n) \in Nat /\ FedTo(t, n) <= n
         /\ \A i \in 1 .. n : fed[i].t = t => FedTo(t, n) # 0
<1>1. IsFiniteSet(1 .. n) /\ Cardinality(1 .. n) = n
  BY FS_Interval
<1> DEFINE S == {i \in 1 .. n : fed[i].t = t}
<1>2. S \in SUBSET (1 .. n)
  OBVIOUS
<1>3. IsFiniteSet(S) /\ Cardinality(S) <= n
  BY <1>1, <1>2, FS_Subset
<1>4. Cardinality(S) \in Nat
  BY <1>3, FS_CardinalityType
<1>5. \A i \in 1 .. n : fed[i].t = t => Cardinality(S) # 0
  BY <1>3, FS_EmptySet
<1> QED  BY <1>3, <1>4, <1>5 DEF FedTo

LEMMA FedAppend ==
  ASSUME NEW S, fed \in Seq(S), NEW e \in S, fed' = Append(fed, e)
  PROVE  /\ fed' \in Seq(S) /\ Len(fed) \in Nat /\ Len(fed') = Len(fed) + 1
         /\ fed'[Len(fed')] = e /\ \A i \in 1 .. Len(fed) : fed'[i] = fed[i]
         /\ \A t : \A n \in 1 .. Len(fed) : FedTo(t, n)' = FedTo(t, n)
         /\ \A t : AllFedTo(t)' = AllFedTo(t) + IF t = e.t THEN 1 ELSE 0
<1>1. /\ fed' \in Seq(S) /\ Len(fed) \in Nat /\ Len(fed') = Len(fed) + 1
      /\ fed'[Len(fed')] = e /\ \A i \in 1 .. Len(fed) : fed'[i] = fed[i]
  OBVIOUS
<1>2. ASSUME NEW t, NEW n \in 0 .. Len(fed) PROVE FedTo(t, n)' = FedTo(t, n)
  <2>1. {i \in 1 .. n : fed'[i].t = t} = {i \in 1 .. n : fed[i].t = t}
    BY <1>1
  <2> QED  BY <2>1 DEF FedTo
<1>3. ASSUME NEW t PROVE AllFedTo(t)' = AllFedTo(t) + IF t = e.t THEN 1 ELSE 0
  <2>1. PICK n \in Nat : n = Len(fed) /\ fed'[n + 1] = e
    BY <1>1
  <2> DEFINE Old == {i \in 1 .. n : fed'[i].t = t}
             New == {i \in 1 .. n + 1 : fed'[i].t = t}
  <2>2. IsFiniteSet(1 .. n)
    BY <2>1, FS_Interval
  <2>3. IsFiniteSet(Old)
    BY <2>2, FS_Subset
  <2>4. Cardinality(Old) \in Nat
    BY <2>3, FS_CardinalityType
  <2>5. Cardinality(New) = AllFedTo(t)' /\ Cardinality(Old) = AllFedTo(t)
    <3>1. FedTo(t, n)' = FedTo(t, n)
      BY <1>2, <2>1
    <3> QED  BY <1>1, <2>1, <3>1 DEF AllFedTo, FedTo
  <2>6. CASE t = e.t
    <3>1. New = Old \cup {n + 1} /\ n + 1 \notin Old
      BY <2>1, <2>6
    <3> HIDE DEF Old, New
    <3>2. Cardinality(New) = Cardinality(Old) + 1
      BY <2>3, <3>1, FS_AddElement
    <3> QED  BY <2>5, <2>6, <3>2
  <2>7. CASE t # e.t
    <3>1. New = Old
      BY <2>1, <2>7
    <3> HIDE DEF Old, New
    <3>2. Cardinality(New) = Cardinality(Old)
      BY <3>1
    <3> QED  BY <2>4, <2>5, <2>7, <3>2
  <2> QED  BY <2>6, <2>7
<1> QED  BY <1>1, <1>2, <1>3
-----------------------------------------------------------------------------
(* The feeder keeps its invariant.                                         *)

LEMMA TimesAreNat ==
  /\ Times \subseteq Nat /\ Never \in Nat /\ Year \in Nat \ {0} /\ MaxTickers \in Nat \ {0}
  /\ \A ts \in Times : ts + 1 \notin Times /\ ts + 1 < Never
  /\ \A ts \in Times : ts \in Nat /\ ts < Never
  /\ \A ts \in Times \cup {Never} : ts \in Nat /\ ts <= Never
<1>1. \A ts \in Times : ts \in Nat /\ ts < Never
  BY FeederAssumption
<1> QED  BY <1>1, FeederAssumption

\* What has been fed counts up to what has been read.
LEMMA Fed ==
  ASSUME TypesOK
  PROVE  /\ count \in Nat /\ Tickers = 1 .. count /\ Len(fed) \in Nat
         /\ \A t : AllFedTo(t) \in Nat
         /\ \A t \in Tickers : /\ read[t] \in Nat /\ Len(files[t]) \in Nat
                               /\ read[t] <= Len(files[t])
                               /\ \A i \in 1 .. Len(files[t]) : files[t][i] \in Times
<1>1. Len(fed) \in Nat
  BY DEF TypesOK
<1>2. \A t : AllFedTo(t) \in Nat
  BY <1>1, Counted DEF AllFedTo
<1> QED  BY <1>1, <1>2 DEF TypesOK, Tickers

LEMMA FeedInit == RunInit => FeedInv
<1> SUFFICES ASSUME RunInit PROVE FeedInv
  OBVIOUS
<1>0. /\ source \in Sources /\ count \in 0 .. MaxTickers
      /\ files \in [Tickers -> BoundedSeq(Times, MaxRows)]
      /\ ending \in [Tickers -> Endings]
      /\ source = "memory" => count = 1
      /\ read = [t \in Tickers |-> 0]
      /\ ahead = [t \in Tickers |-> Never]
      /\ reading = [ts |-> Never, t |-> 0]
      /\ lastSeen = [t \in Tickers |-> -1] /\ best = [t \in Tickers |-> NoQuote]
      /\ fed = <<>> /\ pc = "run"
  BY DEF RunInit, Init
<1>1. TypesOK
  <2>1. files \in [Tickers -> Seq(Times)]
    <3>1. BoundedSeq(Times, MaxRows) \subseteq Seq(Times)
      BY FeederAssumption DEF BoundedSeq, SeqOf
    <3> QED  BY <1>0, <3>1
  <2>2. source \in {"multi", "single", "memory"} /\ count \in Nat
    BY <1>0, SourceAssumption, FeederAssumption
  <2>3. ending \in [Tickers -> {"eof", "broken", "absent"}]
    BY <1>0, SourceAssumption
  <2> QED  BY <1>0, <2>1, <2>2, <2>3 DEF TypesOK, Steps, NoQuote
<1>2. \A t : AllFedTo(t) = 0
  <2>1. \A t : {i \in 1 .. 0 : fed[i].t = t} = {}
    OBVIOUS
  <2> QED  BY <1>0, <2>1, FS_EmptySet DEF AllFedTo, FedTo
<1>3. PlaceOK /\ ReadOK /\ EndOK
  BY <1>0, <1>1 DEF PlaceOK, ReadOK, EndOK, TypesOK
<1>4. EarliestOK
  BY <1>0, TimesAreNat DEF EarliestOK
<1>5. TakenOK /\ SeenOK /\ SortedOK /\ LatestOK /\ BestOK /\ FedInOrder
  BY <1>0, <1>2 DEF TakenOK, Waits, SeenOK, SortedOK, LatestOK, BestOK, FedInOrder
<1> QED  BY <1>0, <1>1, <1>3, <1>4, <1>5 DEF FeedInv

\* A step in which the market takes nothing leaves what it has taken as it was.
LEMMA NothingTaken ==
  ASSUME FeedInv, UNCHANGED <<inputs, lastSeen, fed>>, pc # "aggregate", pc' # "aggregate"
  PROVE  /\ UNCHANGED <<source, count, files, ending, Tickers>>
         /\ \A t : AllFedTo(t)' = AllFedTo(t)
         /\ SeenOK' /\ SortedOK' /\ FedInOrder'
<1>1. UNCHANGED <<source, count, files, ending, Tickers>>
  BY DEF inputs, Tickers
<1>2. \A t, n : FedTo(t, n)' = FedTo(t, n)
  BY DEF FedTo
<1>3. \A t : AllFedTo(t)' = AllFedTo(t)
  BY <1>2 DEF AllFedTo
<1>4. SeenOK'
  BY <1>1, <1>3 DEF FeedInv, SeenOK
<1>5. SortedOK'
  BY <1>1, <1>3 DEF FeedInv, SortedOK, InOrder
<1>6. FedInOrder'
  BY <1>1, <1>2 DEF FeedInv, FedInOrder
<1> QED  BY <1>1, <1>3, <1>4, <1>5, <1>6

LEMMA RunKeeps == ASSUME FeedInv, Run PROVE FeedInv'
<1>1. /\ pc = "run" /\ pc' \in {"start", "failed"} /\ UNCHANGED <<inputs, lastSeen, fed>>
      /\ UNCHANGED <<read, ahead, reading, best, setup>>
  BY DEF Run, Goto, Throw
<1>2. /\ UNCHANGED <<source, count, files, ending, Tickers>>
      /\ \A t : AllFedTo(t)' = AllFedTo(t)
      /\ SeenOK' /\ SortedOK' /\ FedInOrder'
  BY <1>1, NothingTaken
<1>3. \A t \in Tickers : read[t] = 0 /\ ahead[t] = Never
  BY <1>1 DEF FeedInv, ReadOK
<1>4. \/ pc' = "start" /\ at' = 1 /\ setup = "good" /\ count # 0
      \/ pc' = "failed" /\ (setup # "good" \/ count = 0)
  BY DEF Run, Goto, Throw
<1>5. TypesOK'
  BY <1>1, <1>2 DEF FeedInv, TypesOK, Steps, Records
<1>6. PlaceOK'
  BY <1>1, <1>2, <1>4, Fed DEF FeedInv, PlaceOK
<1>7. ReadOK' /\ EndOK'
  BY <1>1, <1>2, <1>3, <1>4, Fed DEF FeedInv, ReadOK, EndOK
<1>8. EarliestOK' /\ TakenOK' /\ LatestOK' /\ BestOK'
  BY <1>1, <1>2, <1>3 DEF FeedInv, EarliestOK, TakenOK, Waits, LatestOK, BestOK
<1>9. pc' \in {"failed", "terminated"} => EndsAsTheFilesSay'
  BY <1>1, <1>2, <1>4 DEF EndsAsTheFilesSay
<1> QED  BY <1>2, <1>5, <1>6, <1>7, <1>8, <1>9 DEF FeedInv
LEMMA Least ==
  ASSUME NEW S \in SUBSET Nat, S # {}
  PROVE  \E m \in S : \A n \in S : m <= n
<1> DEFINE R == OpToRel(<, Nat)
<1>1. IsWellFoundedOn(R, Nat)
  BY NatLessThanWellFounded
<1>2. ASSUME NEW i \in Nat, NEW j \in Nat, i < j PROVE <<i, j>> \in R
  BY <1>2 DEF OpToRel
<1> HIDE DEF R
<1>3. \E m \in S : \A n \in S : ~(<<n, m>> \in R)
  BY <1>1, WFMin
<1>4. PICK m \in S : \A n \in S : ~(<<n, m>> \in R)
  BY <1>3
<1>5. ASSUME NEW n \in S PROVE m <= n
  <2>1. ~(n < m)
    BY <1>2, <1>4
  <2> QED  BY <2>1
<1> QED  BY <1>5

\* The earliest of the others is one of them that waits and none is before it.
LEMMA EarliestOfOthers ==
  ASSUME TypesOK, NEW t \in Tickers
  PROVE  LET e == EarliestBut(t) IN
         /\ e \in [ts : Times \cup {Never}, t : Nat]
         /\ e.ts # Never => e.t \in Tickers \ {t} /\ ahead[e.t] = e.ts
         /\ \A u \in Tickers \ {t} : e.ts <= ahead[u]
<1> DEFINE waiting == {u \in Tickers \ {t} : ahead[u] < Never}
           Leads(u) == \A v \in waiting : ahead[u] < ahead[v] \/ (ahead[u] = ahead[v] /\ u <= v)
           first == CHOOSE u \in waiting : Leads(u)
<1>1. \A u \in Tickers : u \in Nat /\ ahead[u] \in Times \cup {Never} /\ ahead[u] \in Nat
                         /\ ahead[u] <= Never
  <2>1. Tickers \subseteq Nat
    BY Fed
  <2>2. \A u \in Tickers : ahead[u] \in Times \cup {Never}
    BY DEF TypesOK
  <2> QED  BY <2>1, <2>2, TimesAreNat
<1>2. reading.t \in Nat
  BY DEF TypesOK
<1>3. EarliestBut(t) = IF waiting = {} THEN [ts |-> Never, t |-> reading.t]
                       ELSE [ts |-> ahead[first], t |-> first]
  BY DEF EarliestBut
<1>4. CASE waiting = {}
  <2>1. EarliestBut(t) = [ts |-> Never, t |-> reading.t]
    BY <1>3, <1>4
  <2>2. \A u \in Tickers \ {t} : Never <= ahead[u]
    BY <1>1, <1>4, TimesAreNat
  <2> QED  BY <1>2, <2>1, <2>2
<1>5. CASE waiting # {}
  <2> DEFINE Stamps == {ahead[u] : u \in waiting}
  <2>1. Stamps \in SUBSET Nat /\ Stamps # {}
    BY <1>1, <1>5
  <2>2. PICK m \in Stamps : \A n \in Stamps : m <= n
    <3> HIDE DEF Stamps
    <3> QED  BY <2>1, Least
  <2> DEFINE Firsts == {u \in waiting : ahead[u] = m}
  <2>3. Firsts \in SUBSET Nat /\ Firsts # {}
    BY <1>1, <2>2
  <2>4. PICK f \in Firsts : \A u \in Firsts : f <= u
    <3> HIDE DEF Firsts
    <3> QED  BY <2>3, Least
  <2>5. f \in waiting /\ Leads(f)
    BY <1>1, <2>1, <2>2, <2>4
  <2> HIDE DEF Leads
  <2>6. first \in waiting /\ Leads(first)
    BY <2>5
  <2>7. ahead[first] \in Times
    BY <1>1, <2>6
  <2>8. ASSUME NEW u \in Tickers \ {t} PROVE ahead[first] <= ahead[u]
    <3> HIDE DEF first
    <3>1. CASE u \in waiting
      BY <1>1, <2>6, <3>1 DEF Leads
    <3>2. CASE u \notin waiting
      <4>1. ahead[u] = Never
        BY <1>1, <3>2, TimesAreNat
      <4> QED  BY <1>1, <2>6, <4>1
    <3> QED  BY <3>1, <3>2
  <2> HIDE DEF first
  <2> QED  BY <1>1, <1>3, <1>5, <2>6, <2>7, <2>8
<1> QED  BY <1>4, <1>5

\* sReadBar of multiFile keeps what the feeder knows, whether a file is opened or the
\* next of its records is read.
LEMMA ReadKeeps ==
  ASSUME FeedInv, source = "multi", pc \in {"start", "taken"}, pc' \in {"start", "select"},
         NEW k \in Tickers, at = k, ~Waits(k), UNCHANGED <<inputs, lastSeen, fed, setup>>,
         NEW earliest \in [ts : Times \cup {Never}, t : Nat], ReadRecord(k, earliest),
         earliest.ts # Never => earliest.t \in Tickers \ {k} /\ ahead[earliest.t] = earliest.ts,
         \A u \in Tickers \ {k} : earliest.ts <= ahead[u],
         pc' = "start" => pc = "start" /\ at' = at + 1 /\ at' \in Tickers,
         pc' = "select" => at' = at /\ (pc = "start" => at = count)
  PROVE  FeedInv'
<1>1. PICK ts \in Times :
        /\ ts = files[k][read[k] + 1] /\ ts \in Nat /\ ts < Never
        /\ read[k] \in Nat /\ read[k] + 1 \in 1 .. Len(files[k])
  <2>1. read[k] \in Nat /\ Len(files[k]) \in Nat /\ read[k] < Len(files[k])
    BY Fed DEF FeedInv, ReadRecord
  <2>2. read[k] + 1 \in 1 .. Len(files[k])
    BY <2>1
  <2>3. files[k][read[k] + 1] \in Times
    BY <2>2, Fed DEF FeedInv
  <2>4. files[k][read[k] + 1] \in Nat /\ files[k][read[k] + 1] < Never
    BY <2>3, TimesAreNat
  <2> QED  BY <2>1, <2>2, <2>3, <2>4
<1>2. /\ read' = [read EXCEPT ![k] = @ + 1] /\ ahead' = [ahead EXCEPT ![k] = ts]
      /\ best' = [best EXCEPT ![k] = Quote(ts, read[k] + 1)]
      /\ reading' = IF ts < earliest.ts THEN [ts |-> ts, t |-> k] ELSE earliest
  BY <1>1 DEF ReadRecord
<1>3. /\ UNCHANGED <<source, count, files, ending, Tickers>>
      /\ \A t : AllFedTo(t)' = AllFedTo(t)
      /\ SeenOK' /\ SortedOK' /\ FedInOrder'
  BY NothingTaken
<1>4. TypesOK'
  <2>1. TypesOK
    BY DEF FeedInv
  <2>2. /\ read' \in [Tickers -> Nat] /\ ahead' \in [Tickers -> Times \cup {Never}]
        /\ \A t \in Tickers : read'[t] <= Len(files[t])
    <3>1. /\ read \in [Tickers -> Nat] /\ ahead \in [Tickers -> Times \cup {Never}]
          /\ \A t \in Tickers : read[t] <= Len(files[t])
      BY <2>1 DEF TypesOK
    <3>2. read' \in [Tickers -> Nat] /\ ahead' \in [Tickers -> Times \cup {Never}]
      BY <1>1, <1>2, <3>1
    <3>3. \A t \in Tickers : read'[t] = IF t = k THEN read[k] + 1 ELSE read[t]
      BY <1>2, <3>1
    <3>4. ASSUME NEW t \in Tickers PROVE read'[t] <= Len(files[t])
      <4>1. CASE t = k
        BY <1>1, <3>3, <4>1
      <4>2. CASE t # k
        BY <3>1, <3>3, <4>2
      <4> QED  BY <4>1, <4>2
    <3> QED  BY <3>2, <3>4
  <2>3. best' \in [Tickers -> [ts : Int, row : Nat]]
    <3>1. best \in [Tickers -> [ts : Int, row : Nat]]
      BY <2>1 DEF TypesOK
    <3>2. Quote(ts, read[k] + 1) \in [ts : Int, row : Nat]
      BY <1>1 DEF Quote
    <3> QED  BY <1>2, <3>1, <3>2
  <2>4. reading' \in [ts : Times \cup {Never}, t : Nat]
    <3>1. k \in Nat
      BY <2>1, Fed
    <3> QED  BY <1>1, <1>2, <3>1
  <2>5. lastSeen' = lastSeen /\ fed' = fed /\ Records' = Records
    BY <1>3 DEF Records
  <2> QED  BY <1>3, <2>1, <2>2, <2>3, <2>4, <2>5 DEF TypesOK, Steps
<1>5. /\ read'[k] = read[k] + 1 /\ ahead'[k] = ts
      /\ best'[k] = Quote(ts, read[k] + 1)
      /\ \A u \in Tickers \ {k} : /\ read'[u] = read[u] /\ ahead'[u] = ahead[u]
                                   /\ best'[u] = best[u]
  BY <1>2 DEF FeedInv, TypesOK
<1>6. \A u \in Tickers : ahead[u] \in Nat
  BY TimesAreNat DEF FeedInv, TypesOK
<1>7. PlaceOK'
  <2>1. at' \in Tickers /\ setup' = setup /\ setup = "good"
    BY DEF FeedInv, PlaceOK
  <2> QED  BY <1>3, <2>1 DEF FeedInv, PlaceOK
<1>8. ReadOK'
  <2>1. \A t \in Tickers :
          ahead'[t] # Never => read'[t] > 0 /\ ahead'[t] = files[t][read'[t]]
    BY <1>1, <1>5 DEF FeedInv, ReadOK
  <2>2. pc' = "start" => \A t \in Tickers : t >= at' => read'[t] = 0 /\ ahead'[t] = Never
    <3>1. \A t \in Tickers : t \in Int
      BY Fed DEF FeedInv
    <3>2. ASSUME pc' = "start", NEW t \in Tickers, t >= at' PROVE t # k /\ t >= at
      BY <3>1, <3>2
    <3>3. pc' = "start" => pc = "start"
      BY DEF FeedInv
    <3> QED  BY <1>5, <3>2, <3>3 DEF FeedInv, ReadOK
  <2> QED  BY <1>3, <2>1, <2>2 DEF ReadOK
<1>9. EndOK'
  <2>1. \A t \in Tickers : t \in 1 .. count
    BY Fed DEF FeedInv
  <2>2. ASSUME pc' = "start", NEW t \in Tickers, t < at' PROVE ahead'[t] # Never
    <3>1. t = k \/ (t # k /\ t < at /\ pc = "start")
      BY <2>1, <2>2
    <3>2. t # k => ahead[t] # Never
      BY <3>1 DEF FeedInv, EndOK
    <3> QED  BY <1>1, <1>5, <3>1, <3>2
  <2>3. ASSUME pc' = "select", NEW t \in Tickers, ahead'[t] = Never
        PROVE  read'[t] = Len(files[t]) /\ ending[t] = "eof"
    <3>1. t # k /\ ahead[t] = Never /\ read'[t] = read[t]
      BY <1>1, <1>5, <2>3
    <3>2. pc # "start"
      BY <2>1, <2>3, <3>1 DEF FeedInv, EndOK
    <3> QED  BY <3>1, <3>2 DEF FeedInv, EndOK
  <2> QED  BY <1>3, <2>2, <2>3 DEF EndOK
<1>10. EarliestOK'
  <2>1. ASSUME NEW t \in Tickers PROVE reading'.ts <= ahead'[t]
    <3>1. ahead'[k] = ts /\ ts \in Nat /\ earliest.ts \in Nat
      BY <1>1, <1>5, TimesAreNat
    <3>2. reading'.ts <= ts /\ reading'.ts <= earliest.ts /\ reading'.ts \in Nat
      BY <1>2, <3>1
    <3>3. CASE t = k
      BY <3>1, <3>2, <3>3
    <3>4. CASE t # k
      <4>1. ahead'[t] = ahead[t] /\ earliest.ts <= ahead[t] /\ ahead[t] \in Nat
        BY <1>5, <1>6, <3>4
      <4> QED  BY <3>1, <3>2, <4>1
    <3> QED  BY <3>3, <3>4
  <2>2. reading'.ts # Never => reading'.t \in Tickers /\ ahead'[reading'.t] = reading'.ts
    BY <1>1, <1>2, <1>5
  <2> QED  BY <1>3, <2>1, <2>2 DEF EarliestOK
<1>11. Waits(k)' /\ \A u \in Tickers \ {k} : Waits(u)' <=> Waits(u)
  BY <1>1, <1>3, <1>5 DEF Waits
<1>12. TakenOK'
  BY <1>1, <1>3, <1>5, <1>11 DEF FeedInv, TakenOK
<1>13. BestOK'
  BY <1>3, <1>5, <1>11 DEF FeedInv, BestOK
<1>14. LatestOK'
  <2>1. fed' = fed
    OBVIOUS
  <2>2. fed # <<>> => pc = "taken" /\ fed[Len(fed)].t = k
    BY DEF FeedInv, LatestOK
  <2>3. (pc' = "start" => pc = "start") /\ pc' \in {"start", "select"}
    OBVIOUS
  <2>4. fed # <<>> => LET e == fed[Len(fed)] IN
          \A t \in Tickers : Waits(t)' /\ t # e.t => e.ts <= ahead'[t]
    BY <1>5, <1>11, <2>2 DEF FeedInv, LatestOK
  <2> QED  BY <1>3, <2>1, <2>2, <2>3, <2>4 DEF LatestOK
<1> QED  BY <1>3, <1>4, <1>7, <1>8, <1>9, <1>10, <1>12, <1>13, <1>14 DEF FeedInv
\* An exception that has a reason in the files.
LEMMA ThrowKeeps ==
  ASSUME FeedInv, pc \in {"start", "taken"}, Throw,
         UNCHANGED <<inputs, read, ahead, reading, lastSeen, best, fed, setup>>,
         \/ source = "single" /\ count > 1
         \/ \E t \in Tickers : ending[t] # "eof" \/ files[t] = <<>>
  PROVE  FeedInv'
<1>1. pc' = "failed" /\ at' = at
  BY DEF Throw, Goto
<1>2. UNCHANGED <<read, ahead, reading, lastSeen, best, fed, setup>>
  OBVIOUS
<1>3. /\ UNCHANGED <<source, count, files, ending, Tickers>>
      /\ \A t : AllFedTo(t)' = AllFedTo(t)
      /\ SeenOK' /\ SortedOK' /\ FedInOrder'
  BY <1>1, NothingTaken
<1>4. TypesOK'
  BY <1>1, <1>2, <1>3 DEF FeedInv, TypesOK, Steps, Records
<1>5. PlaceOK' /\ ReadOK' /\ EndOK' /\ EarliestOK'
  BY <1>1, <1>2, <1>3 DEF FeedInv, PlaceOK, ReadOK, EndOK, EarliestOK
<1>6. \A t \in Tickers : Waits(t)' <=> Waits(t)
  <2>1. source = "multi" /\ pc = "start" /\ at \in Tickers => ahead[at] = Never
    BY Fed DEF FeedInv, ReadOK
  <2> QED  BY <1>1, <1>2, <1>3, <2>1 DEF Waits
<1>7. TakenOK' /\ BestOK' /\ LatestOK'
  BY <1>1, <1>2, <1>3, <1>6 DEF FeedInv, TakenOK, BestOK, LatestOK
<1>8. EndsAsTheFilesSay'
  BY <1>1, <1>3 DEF EndsAsTheFilesSay
<1> QED  BY <1>3, <1>4, <1>5, <1>7, <1>8 DEF FeedInv

LEMMA OpenFileKeeps == ASSUME FeedInv, OpenFile, UNCHANGED setup PROVE FeedInv'
<1>1. PICK k \in Tickers : k = at /\ k \in 1 .. count
  BY Fed DEF FeedInv, PlaceOK, OpenFile
<1>2. source = "multi" /\ pc = "start" /\ UNCHANGED <<inputs, lastSeen, fed>>
  BY DEF OpenFile
<1>3. \A t \in Tickers : t >= at => read[t] = 0 /\ ahead[t] = Never
  BY <1>2 DEF FeedInv, ReadOK
<1>4. read[k] = 0 /\ ahead[k] = Never
  BY <1>1, <1>3
<1>5. CASE /\ ReadRecord(k, reading)
           /\ IF k < count THEN Goto("start", k + 1) ELSE Goto("select", k)
  <2>1. ~Waits(k) /\ reading \in [ts : Times \cup {Never}, t : Nat]
    BY <1>2, <1>4 DEF Waits, FeedInv, TypesOK
  <2>2. /\ reading.ts # Never => reading.t \in Tickers \ {k} /\ ahead[reading.t] = reading.ts
        /\ \A u \in Tickers \ {k} : reading.ts <= ahead[u]
    BY <1>2, <1>4 DEF FeedInv, EarliestOK
  <2>3. \/ pc' = "start" /\ at' = k + 1 /\ k + 1 \in Tickers
        \/ pc' = "select" /\ at' = k /\ k = count
    <3>1. count \in Nat
      BY DEF FeedInv, TypesOK
    <3> QED  BY <1>1, <1>5, <3>1 DEF Goto, Tickers
  <2> QED  BY <1>1, <1>2, <1>5, <2>1, <2>2, <2>3, ReadKeeps
<1>6. CASE /\ ending[k] = "absent" \/ AtEnd(k, "eof") \/ AtEnd(k, "broken")
           /\ Throw /\ UNCHANGED <<read, ahead, best, reading>>
  <2>1. ending[k] # "eof" \/ files[k] = <<>>
    <3>1. read[k] = Len(files[k]) => files[k] = <<>>
      BY <1>4 DEF FeedInv, TypesOK
    <3> QED  BY <1>6, <3>1 DEF AtEnd
  <2> QED  BY <1>2, <1>6, <2>1, ThrowKeeps
<1> QED  BY <1>1, <1>5, <1>6 DEF OpenFile

LEMMA SelectKeeps == ASSUME FeedInv, Select, UNCHANGED setup PROVE FeedInv'
<1>1. /\ pc = "select" /\ UNCHANGED <<inputs, read, ahead, reading, lastSeen, best, fed>>
      /\ source = "multi"
  BY DEF Select, FeedInv, PlaceOK
<1>2. \/ pc' = "open" /\ at' = reading.t /\ reading.ts # Never
      \/ pc' = "last" /\ at' = 1 /\ reading.ts = Never
  BY DEF Select, Goto
<1>3. /\ UNCHANGED <<source, count, files, ending, Tickers>>
      /\ \A t : AllFedTo(t)' = AllFedTo(t)
      /\ SeenOK' /\ SortedOK' /\ FedInOrder'
  BY <1>1, <1>2, NothingTaken
<1>4. TypesOK'
  BY <1>1, <1>2, <1>3 DEF FeedInv, TypesOK, Steps, Records
<1>5. PlaceOK'
  <2>1. 1 \in Tickers
    BY <1>1, Fed DEF FeedInv, PlaceOK
  <2>2. reading.ts # Never => reading.t \in Tickers
    BY <1>1 DEF FeedInv, EarliestOK
  <2> QED  BY <1>1, <1>2, <1>3, <2>1, <2>2 DEF FeedInv, PlaceOK
<1>6. ReadOK' /\ EndOK' /\ EarliestOK'
  BY <1>1, <1>2, <1>3 DEF FeedInv, ReadOK, EndOK, EarliestOK
<1>7. \A t \in Tickers : Waits(t)' <=> Waits(t)
  BY <1>1, <1>2, <1>3 DEF Waits
<1>8. TakenOK' /\ BestOK' /\ LatestOK'
  BY <1>1, <1>2, <1>3, <1>7 DEF FeedInv, TakenOK, BestOK, LatestOK
<1> QED  BY <1>2, <1>3, <1>4, <1>5, <1>6, <1>8 DEF FeedInv

LEMMA ReplaceKeeps == ASSUME FeedInv, Replace, UNCHANGED setup PROVE FeedInv'
<1>1. PICK k \in Tickers : k = at
  BY DEF FeedInv, PlaceOK, Replace
<1>2. source = "multi" /\ pc = "taken" /\ UNCHANGED <<inputs, lastSeen, fed>> /\ ~Waits(k)
  BY <1>1 DEF Replace, Waits
<1>3. PICK e \in [ts : Times \cup {Never}, t : Nat] :
        /\ e = EarliestBut(k)
        /\ e.ts # Never => e.t \in Tickers \ {k} /\ ahead[e.t] = e.ts
        /\ \A u \in Tickers \ {k} : e.ts <= ahead[u]
  BY EarliestOfOthers DEF FeedInv
<1>4. CASE ReadRecord(k, EarliestBut(k)) /\ Goto("select", k)
  BY <1>1, <1>2, <1>3, <1>4, ReadKeeps DEF Goto
<1>5. CASE /\ AtEnd(k, "eof")
           /\ ahead' = [ahead EXCEPT ![k] = Never] /\ reading' = EarliestBut(k)
           /\ Goto("select", k) /\ UNCHANGED <<read, best>>
  <2>1. pc' = "select" /\ at' = k /\ read[k] = Len(files[k]) /\ ending[k] = "eof"
    BY <1>5 DEF Goto, AtEnd
  <2>2. /\ UNCHANGED <<source, count, files, ending, Tickers>>
        /\ \A t : AllFedTo(t)' = AllFedTo(t)
        /\ SeenOK' /\ SortedOK' /\ FedInOrder'
    BY <1>2, <2>1, NothingTaken
  <2>3. ahead'[k] = Never /\ \A u \in Tickers \ {k} : ahead'[u] = ahead[u]
    BY <1>5 DEF FeedInv, TypesOK
  <2>4. TypesOK'
    BY <1>2, <1>3, <1>5, <2>1, <2>2 DEF FeedInv, TypesOK, Steps, Records
  <2>5. PlaceOK' /\ ReadOK' /\ EndOK'
    BY <1>2, <1>5, <2>1, <2>2, <2>3 DEF FeedInv, PlaceOK, ReadOK, EndOK
  <2>6. EarliestOK'
    <3>1. e.ts <= Never
      BY TimesAreNat
    <3> QED  BY <1>3, <1>5, <2>1, <2>2, <2>3, <3>1 DEF EarliestOK
  <2>7. \A t \in Tickers : Waits(t)' <=> Waits(t)
    BY <1>1, <1>2, <2>1, <2>2, <2>3 DEF Waits
  <2>8. TakenOK' /\ BestOK'
    BY <1>2, <1>5, <2>2, <2>3, <2>7 DEF FeedInv, TakenOK, BestOK, Waits
  <2>9. LatestOK'
    BY <1>1, <1>2, <2>1, <2>2, <2>3, <2>7 DEF FeedInv, LatestOK
  <2> QED  BY <2>1, <2>2, <2>4, <2>5, <2>6, <2>8, <2>9 DEF FeedInv
<1>6. CASE AtEnd(k, "broken") /\ Throw /\ UNCHANGED <<read, ahead, best, reading>>
  BY <1>2, <1>6, ThrowKeeps DEF AtEnd
<1> QED  BY <1>1, <1>4, <1>5, <1>6 DEF Replace
\* The last record fed is one.
LEMMA LastFed ==
  ASSUME TypesOK, fed # <<>>
  PROVE  /\ Len(fed) \in Nat \ {0} /\ Len(fed) \in 1 .. Len(fed)
         /\ fed[Len(fed)] \in Records /\ fed[Len(fed)].t \in Tickers
         /\ \A i \in 1 .. Len(fed) : fed[i] \in Records
<1>1. fed \in Seq(Records)
  BY DEF TypesOK
<1>2. Len(fed) \in Nat \ {0} /\ \A i \in 1 .. Len(fed) : fed[i] \in Records
  BY <1>1
<1> QED  BY <1>2 DEF Records
\* singleFile and memory begin with a file that is there.
LEMMA StartKeeps ==
  ASSUME FeedInv, source # "multi", pc = "start", Goto("taken", 1), setup' = setup,
         UNCHANGED <<inputs, read, ahead, reading, lastSeen, best, fed>>,
         count = 1, source = "memory" => ending[1] = "eof"
  PROVE  FeedInv'
<1>1. pc' = "taken" /\ at' = 1 /\ UNCHANGED <<inputs, read, ahead, reading, lastSeen, best, fed>>
  BY DEF Goto
<1>2. /\ UNCHANGED <<source, count, files, ending, Tickers>>
      /\ \A t : AllFedTo(t)' = AllFedTo(t)
      /\ SeenOK' /\ SortedOK' /\ FedInOrder'
  BY <1>1, NothingTaken
<1>3. TypesOK'
  BY <1>1, <1>2 DEF FeedInv, TypesOK, Steps, Records
<1>4. PlaceOK' /\ ReadOK' /\ EndOK' /\ EarliestOK' /\ BestOK'
  BY <1>1, <1>2 DEF FeedInv, PlaceOK, ReadOK, EndOK, EarliestOK, BestOK, Tickers
<1>5. \A t \in Tickers : ~Waits(t) /\ ~Waits(t)'
  BY <1>1, <1>2 DEF Waits
<1>6. TakenOK' /\ LatestOK'
  BY <1>1, <1>2, <1>5 DEF FeedInv, TakenOK, LatestOK
<1> QED  BY <1>1, <1>2, <1>3, <1>4, <1>6 DEF FeedInv

\* The next record of the only file, or its end.
LEMMA NextKeeps ==
  ASSUME FeedInv, source # "multi", pc = "taken", setup' = setup,
         UNCHANGED <<inputs, reading, lastSeen, best, fed>>,
         \/ /\ read[1] < Len(files[1])
            /\ read' = [read EXCEPT ![1] = @ + 1]
            /\ ahead' = [ahead EXCEPT ![1] = files[1][read[1] + 1]]
            /\ Goto("open", 1)
         \/ /\ read[1] = Len(files[1]) /\ ending[1] = "eof"
            /\ Goto("last", 1) /\ UNCHANGED <<read, ahead>>
  PROVE  FeedInv'
<1>1. count = 1 /\ Tickers = {1} /\ at = 1
  BY DEF FeedInv, PlaceOK, Tickers
<1>2. pc' \in {"open", "last"} /\ at' = 1
  BY DEF Goto
<1>3. /\ UNCHANGED <<source, count, files, ending, Tickers>>
      /\ \A t : AllFedTo(t)' = AllFedTo(t)
      /\ SeenOK' /\ SortedOK' /\ FedInOrder'
  BY <1>2, NothingTaken
<1>4. read[1] \in Nat /\ Len(files[1]) \in Nat /\ AllFedTo(1) = read[1]
  BY <1>1, Fed DEF FeedInv, TakenOK, Waits
<1>5. \/ /\ pc' = "open" /\ read[1] + 1 \in 1 .. Len(files[1]) /\ read'[1] = read[1] + 1
         /\ files[1][read[1] + 1] \in Times /\ ahead'[1] = files[1][read[1] + 1]
      \/ /\ pc' = "last" /\ UNCHANGED <<read, ahead>>
         /\ read[1] = Len(files[1]) /\ ending[1] = "eof"
  <2>1. CASE /\ read[1] < Len(files[1])
             /\ read' = [read EXCEPT ![1] = @ + 1]
             /\ ahead' = [ahead EXCEPT ![1] = files[1][read[1] + 1]]
             /\ Goto("open", 1)
    <3>1. read[1] + 1 \in 1 .. Len(files[1])
      BY <1>4, <2>1
    <3>2. files[1][read[1] + 1] \in Times
      BY <1>1, <3>1, Fed DEF FeedInv
    <3> QED  BY <1>1, <2>1, <3>1, <3>2 DEF Goto, FeedInv, TypesOK
  <2>2. CASE /\ read[1] = Len(files[1]) /\ ending[1] = "eof"
             /\ Goto("last", 1) /\ UNCHANGED <<read, ahead>>
    BY <2>2 DEF Goto
  <2> QED  BY <2>1, <2>2
<1>6. TypesOK'
  <2>1. /\ read' \in [Tickers -> Nat] /\ ahead' \in [Tickers -> Times \cup {Never}]
        /\ read'[1] <= Len(files[1])
    BY <1>1, <1>4, <1>5 DEF FeedInv, TypesOK
  <2> QED  BY <1>1, <1>2, <1>3, <2>1 DEF FeedInv, TypesOK, Steps, Records
<1>7. PlaceOK' /\ EarliestOK' /\ BestOK'
  BY <1>1, <1>2, <1>3 DEF FeedInv, PlaceOK, EarliestOK, BestOK
<1>8. ReadOK'
  BY <1>1, <1>2, <1>3, <1>4, <1>5, TimesAreNat DEF FeedInv, ReadOK
<1>9. EndOK'
  BY <1>1, <1>2, <1>3, <1>5 DEF FeedInv, EndOK
<1>10. TakenOK'
  BY <1>1, <1>2, <1>3, <1>4, <1>5 DEF TakenOK, Waits
<1>11. LatestOK'
  <2>1. fed # <<>> => fed[Len(fed)].t = 1
    BY <1>1, LastFed DEF FeedInv
  <2> QED  BY <1>1, <1>2, <1>3, <2>1 DEF LatestOK
<1> QED  BY <1>2, <1>3, <1>6, <1>7, <1>8, <1>9, <1>10, <1>11 DEF FeedInv

LEMMA SingleKeeps ==
  ASSUME FeedInv, UNCHANGED setup, StartSingle \/ ReadSingle \/ StartMemory \/ FeedMemory
  PROVE  FeedInv'
<1>1. CASE StartSingle
  <2>1. count \in Nat \ {0} /\ Tickers = 1 .. count
    BY <1>1, Fed DEF FeedInv, PlaceOK, StartSingle
  <2>2. CASE count = 1 /\ ending[1] # "absent"
    BY <1>1, <2>2, StartKeeps DEF StartSingle
  <2>3. CASE ~(count = 1 /\ ending[1] # "absent")
    <3>1. count > 1 \/ \E t \in Tickers : ending[t] # "eof"
      BY <2>1, <2>3
    <3> QED  BY <1>1, <2>3, <3>1, ThrowKeeps DEF StartSingle
  <2> QED  BY <2>2, <2>3
<1>2. CASE ReadSingle
  <2>1. 1 \in Tickers
    BY <1>2 DEF FeedInv, PlaceOK, ReadSingle, Tickers
  <2>2. CASE AtEnd(1, "broken") /\ Throw /\ UNCHANGED <<read, ahead>>
    BY <1>2, <2>1, <2>2, ThrowKeeps DEF ReadSingle, AtEnd
  <2> QED  BY <1>2, <2>2, NextKeeps DEF ReadSingle, AtEnd
<1>3. CASE StartMemory
  <2>1. count = 1 /\ 1 \in Tickers
    BY <1>3 DEF FeedInv, PlaceOK, StartMemory, Tickers
  <2>2. CASE ending[1] = "eof"
    BY <1>3, <2>1, <2>2, StartKeeps DEF StartMemory
  <2>3. CASE ending[1] # "eof"
    BY <1>3, <2>1, <2>3, ThrowKeeps DEF StartMemory
  <2> QED  BY <2>2, <2>3
<1>4. CASE FeedMemory
  BY <1>4, NextKeeps DEF FeedMemory, FeedInv, EndOK
<1> QED  BY <1>1, <1>2, <1>3, <1>4

LEMMA NotifyKeeps == ASSUME FeedInv, Notify, UNCHANGED setup PROVE FeedInv'
<1>1. /\ pc = "last" /\ UNCHANGED <<inputs, read, ahead, reading, lastSeen, best, fed>>
      /\ pc' \in {"last", "done"} /\ at' \in Tickers /\ Tickers = 1 .. count
  BY Fed DEF Notify, Goto, FeedInv, PlaceOK
<1>2. /\ UNCHANGED <<source, count, files, ending, Tickers>>
      /\ \A t : AllFedTo(t)' = AllFedTo(t)
      /\ SeenOK' /\ SortedOK' /\ FedInOrder'
  BY <1>1, NothingTaken
<1>3. TypesOK'
  BY <1>1, <1>2 DEF FeedInv, TypesOK, Steps, Records
<1>4. PlaceOK' /\ ReadOK' /\ EndOK' /\ EarliestOK'
  BY <1>1, <1>2 DEF FeedInv, PlaceOK, ReadOK, EndOK, EarliestOK
<1>5. \A t \in Tickers : Waits(t)' <=> Waits(t)
  BY <1>1, <1>2 DEF Waits
<1>6. TakenOK' /\ BestOK' /\ LatestOK'
  BY <1>1, <1>2, <1>5 DEF FeedInv, TakenOK, BestOK, LatestOK
<1> QED  BY <1>1, <1>2, <1>3, <1>4, <1>6 DEF FeedInv
\* What is about to be fed is the next record of its ticker.
LEMMA AboutToOpen ==
  ASSUME FeedInv, pc = "open"
  PROVE  /\ at \in Tickers /\ Waits(at) /\ read[at] \in Nat \ {0}
         /\ read[at] \in 1 .. Len(files[at]) /\ AllFedTo(at) = read[at] - 1
         /\ ahead[at] \in Times /\ ahead[at] = files[at][read[at]]
         /\ lastSeen[at] = IF read[at] = 1 THEN -1
                           ELSE IF at \in BarTickers THEN files[at][read[at] - 1] + 1
                           ELSE files[at][read[at] - 1]
<1>1. at \in Tickers /\ ahead[at] # Never /\ Waits(at)
  BY DEF FeedInv, PlaceOK, ReadOK, Waits
<1>2. read[at] \in Nat \ {0} /\ ahead[at] = files[at][read[at]] /\ ahead[at] \in Times
  BY <1>1, Fed DEF FeedInv, ReadOK, TypesOK
<1>3. AllFedTo(at) = read[at] - 1
  BY <1>1 DEF FeedInv, TakenOK
<1>4. read[at] \in 1 .. Len(files[at])
  BY <1>1, <1>2, Fed DEF FeedInv
<1> QED  BY <1>1, <1>2, <1>3, <1>4 DEF FeedInv, SeenOK

\* Data from the past is only found in a file that is not sorted.
LEMMA TerminateKeeps ==
  ASSUME FeedInv, pc = "open", FromThePast(at, ahead[at]), Goto("terminated", at),
         UNCHANGED <<inputs, read, ahead, reading, lastSeen, best, fed, setup>>
  PROVE  FeedInv'
<1>1. pc' = "terminated" /\ at' = at
      /\ UNCHANGED <<read, ahead, reading, lastSeen, best, fed, setup>>
  BY DEF Goto
<1>2. /\ UNCHANGED <<source, count, files, ending, Tickers>>
      /\ \A t : AllFedTo(t)' = AllFedTo(t)
      /\ SeenOK' /\ SortedOK' /\ FedInOrder'
  BY <1>1, NothingTaken
<1>3. TypesOK'
  BY <1>1, <1>2 DEF FeedInv, TypesOK, Steps, Records
<1>4. PlaceOK' /\ ReadOK' /\ EndOK' /\ EarliestOK'
  BY <1>1, <1>2 DEF FeedInv, PlaceOK, ReadOK, EndOK, EarliestOK
<1>5. \A t \in Tickers : Waits(t)' <=> Waits(t)
  BY <1>1, <1>2 DEF Waits
<1>6. TakenOK' /\ BestOK' /\ LatestOK'
  BY <1>1, <1>2, <1>5 DEF FeedInv, TakenOK, BestOK, LatestOK
<1>7. ~Sorted(at)
  <2> DEFINE k == read[at]
  <2>1. /\ k \in Nat \ {0} /\ k \in 1 .. Len(files[at]) /\ ahead[at] \in Times
        /\ ahead[at] = files[at][k] /\ ahead[at] \in Nat /\ at \in Tickers
        /\ lastSeen[at] = IF k = 1 THEN -1
                          ELSE IF at \in BarTickers THEN files[at][k - 1] + 1
                          ELSE files[at][k - 1]
    BY AboutToOpen, TimesAreNat
  <2> HIDE DEF k
  <2>2. k # 1
    BY <2>1 DEF FromThePast
  <2>3. k - 1 \in 1 .. Len(files[at]) /\ k - 1 < k
    BY <2>1, <2>2, Fed DEF FeedInv
  <2>4. files[at][k - 1] \in Times
    BY <2>1, <2>3, Fed DEF FeedInv
  <2>5. files[at][k - 1] \in Nat /\ files[at][k - 1] + 1 # files[at][k]
    BY <2>1, <2>4, TimesAreNat
  <2>6. IF at \in BarTickers THEN ~(files[at][k - 1] < files[at][k])
                             ELSE ~(files[at][k - 1] <= files[at][k])
    BY <2>1, <2>2, <2>5 DEF FromThePast
  <2> QED  BY <2>1, <2>3, <2>6 DEF Sorted
<1>8. EndsAsTheFilesSay'
  <2>1. Sorted(at)' <=> Sorted(at)
    BY <1>1, <1>2 DEF Sorted
  <2> QED  BY <1>1, <1>7, <2>1 DEF EndsAsTheFilesSay
<1> QED  BY <1>2, <1>3, <1>4, <1>6, <1>8 DEF FeedInv

\* The market takes the earliest record.
LEMMA TakeKeeps ==
  ASSUME FeedInv, pc = "open", Open, pc' # "terminated", UNCHANGED setup
  PROVE  FeedInv'
<1>1. PICK k \in Tickers : k = at
  BY AboutToOpen
<1> DEFINE n == read[k]
           e == [t |-> k, ts |-> ahead[k], row |-> n]
<1>2. /\ Waits(k) /\ n \in Nat \ {0} /\ n \in 1 .. Len(files[k]) /\ AllFedTo(k) = n - 1
      /\ ahead[k] \in Times /\ ahead[k] = files[k][n] /\ ahead[k] \in Nat
      /\ lastSeen[k] = IF n = 1 THEN -1
                       ELSE IF k \in BarTickers THEN files[k][n - 1] + 1
                       ELSE files[k][n - 1]
  BY <1>1, AboutToOpen, TimesAreNat
<1>3. /\ ~FromThePast(k, ahead[k]) /\ fed' = Append(fed, e)
      /\ lastSeen' = [lastSeen EXCEPT ![k] = ahead[k]]
      /\ best' = [best EXCEPT ![k] = Quote(ahead[k], n)]
      /\ pc' = (IF k \in BarTickers THEN "aggregate" ELSE "taken") /\ at' = k
      /\ UNCHANGED <<inputs, read, ahead, reading, setup>>
  BY <1>1 DEF Open, Goto
<1> HIDE DEF n
<1>4. UNCHANGED <<source, count, files, ending, Tickers, Records, read, ahead, reading, setup>>
  BY <1>3 DEF inputs, Tickers, Records
<1>5. e \in Records /\ fed \in Seq(Records)
  BY <1>2 DEF Records, FeedInv, TypesOK
<1>6. /\ fed' \in Seq(Records) /\ Len(fed) \in Nat /\ Len(fed') = Len(fed) + 1
      /\ fed'[Len(fed')] = e /\ \A i \in 1 .. Len(fed) : fed'[i] = fed[i]
      /\ \A t : \A i \in 1 .. Len(fed) : FedTo(t, i)' = FedTo(t, i)
      /\ \A t : AllFedTo(t)' = AllFedTo(t) + IF t = k THEN 1 ELSE 0
  BY <1>3, <1>5, FedAppend
<1> HIDE DEF e
<1>7. TypesOK'
  <2>1. lastSeen' \in [Tickers -> Int] /\ best' \in [Tickers -> [ts : Int, row : Nat]]
    BY <1>2, <1>3 DEF FeedInv, TypesOK, Quote
  <2>2. pc' \in Steps
    BY <1>3 DEF Steps
  <2> QED  BY <1>4, <1>6, <2>1, <2>2 DEF FeedInv, TypesOK
<1>8. PlaceOK' /\ ReadOK' /\ EndOK' /\ EarliestOK'
  BY <1>1, <1>3, <1>4 DEF FeedInv, PlaceOK, ReadOK, EndOK, EarliestOK
<1>9. ~Waits(k)' /\ \A t \in Tickers \ {k} : Waits(t)' <=> Waits(t)
  <2>1. pc' \in {"aggregate", "taken"} /\ at' = k /\ pc = "open" /\ at = k
    BY <1>1, <1>3
  <2>2. ~Waits(k)'
    BY <2>1 DEF Waits
  <2>3. source # "multi" => Tickers \ {k} = {}
    BY <1>1, Fed DEF FeedInv, PlaceOK
  <2> QED  BY <1>4, <2>1, <2>2, <2>3 DEF Waits
<1>10. AllFedTo(k)' = n /\ \A t \in Tickers \ {k} : AllFedTo(t)' = AllFedTo(t)
  BY <1>2, <1>6, Fed DEF FeedInv
<1>11. TakenOK'
  BY <1>4, <1>9, <1>10 DEF FeedInv, TakenOK, n
<1>12. SeenOK'
  <2>1. lastSeen'[k] = files[k][n] /\ \A t \in Tickers \ {k} : lastSeen'[t] = lastSeen[t]
    BY <1>2, <1>3 DEF FeedInv, TypesOK
  <2>2. (pc' = "aggregate" /\ at' = k) \/ (pc' # "aggregate" /\ k \notin BarTickers)
    BY <1>3
  <2>3. pc # "aggregate"
    OBVIOUS
  <2>4. ASSUME NEW t \in Tickers
        PROVE  lastSeen'[t] = IF AllFedTo(t)' = 0 THEN -1
                 ELSE IF t \in BarTickers /\ ~(pc' = "aggregate" /\ t = at')
                      THEN files[t][AllFedTo(t)'] + 1 ELSE files[t][AllFedTo(t)']
    <3>1. CASE t = k
      BY <1>2, <1>10, <2>1, <2>2, <3>1
    <3>2. CASE t # k
      <4>1. t \in BarTickers /\ ~(pc' = "aggregate" /\ t = at') <=> t \in BarTickers
        BY <1>3, <3>2
      <4> QED  BY <1>10, <2>1, <2>3, <3>2, <4>1 DEF FeedInv, SeenOK
    <3> QED  BY <3>1, <3>2
  <2> QED  BY <1>4, <2>4 DEF SeenOK
<1>13. BestOK'
  BY <1>3, <1>4, <1>9 DEF FeedInv, BestOK, TypesOK
<1>14. ASSUME NEW i \in 1 .. Len(fed) PROVE fed[i].ts <= ahead[k] /\ fed[i] \in Records
  <2> DEFINE l == fed[Len(fed)]
  <2>1. /\ l \in Records /\ fed[i] \in Records /\ Len(fed) \in 1 .. Len(fed)
        /\ fed[i].ts \in Nat /\ l.ts \in Nat
    <3>1. fed # <<>>
      BY <1>6
    <3>2. /\ l \in Records /\ fed[i] \in Records /\ Len(fed) \in 1 .. Len(fed)
      BY <3>1, LastFed DEF FeedInv
    <3>3. \A r \in Records : r.ts \in Nat
      BY TimesAreNat DEF Records
    <3> QED  BY <3>2, <3>3
  <2>2. fed[i].ts <= l.ts
    <3>1. i = Len(fed) \/ i < Len(fed)
      BY <1>6
    <3> QED  BY <2>1, <3>1 DEF FeedInv, FedInOrder
  <2>3. l.ts <= ahead[k]
    <3>1. CASE l.t # k
      BY <1>2, <1>6, <2>1, <3>1 DEF FeedInv, LatestOK
    <3>2. CASE l.t = k
      <4>1. l.row = n - 1 /\ l.ts = files[k][n - 1]
        BY <1>2, <2>1, <3>2 DEF FeedInv, FedInOrder, AllFedTo
      <4>2. n # 1
        <5>1. AllFedTo(k) # 0
          BY <1>6, <2>1, <3>2, Counted DEF AllFedTo
        <5> QED  BY <1>2, <5>1
      <4> HIDE DEF l
      <4> QED  BY <1>2, <1>3, <2>1, <4>1, <4>2 DEF FromThePast
    <3> QED  BY <3>1, <3>2
  <2> HIDE DEF l
  <2> QED  BY <1>2, <2>1, <2>2, <2>3
<1>15. LatestOK'
  <2>1. e.t = k /\ e.ts = ahead[k]
    BY DEF e
  <2>2. ASSUME NEW t \in Tickers, t # k PROVE ahead[k] <= ahead[t]
    <3>1. source = "multi"
      BY <1>1, <2>2 DEF FeedInv, PlaceOK, Tickers
    <3> QED  BY <1>1, <3>1 DEF FeedInv, EarliestOK
  <2> QED  BY <1>3, <1>4, <1>6, <2>1, <2>2 DEF LatestOK
<1>16. SortedOK'
  <2>1. ASSUME NEW i \in 1 .. n - 1 PROVE InOrder(k, i, n)
    <3>1. /\ n - 1 \in 1 .. Len(files[k]) /\ i \in 1 .. Len(files[k])
          /\ i = n - 1 \/ (i < n - 1 /\ InOrder(k, i, n - 1))
      <4>1. i \in 1 .. n - 1 /\ n - 1 \in 1 .. n - 1
        BY <1>2
      <4>2. i < n - 1 => InOrder(k, i, n - 1)
        BY <1>2, <4>1 DEF FeedInv, SortedOK
      <4>3. i \in 1 .. Len(files[k]) /\ n - 1 \in 1 .. Len(files[k])
        BY <1>2, <4>1, Fed DEF FeedInv
      <4>4. i = n - 1 \/ i < n - 1
        BY <1>2, <4>1
      <4> QED  BY <4>2, <4>3, <4>4
    <3>2. files[k][n - 1] \in Nat /\ files[k][i] \in Nat /\ files[k][n] \in Nat
      BY <1>2, <3>1, Fed, TimesAreNat DEF FeedInv
    <3>3. n # 1 /\ (k \in BarTickers => lastSeen[k] = files[k][n - 1] + 1)
                /\ (k \notin BarTickers => lastSeen[k] = files[k][n - 1])
      BY <1>2
    <3>4. InOrder(k, n - 1, n)
      <4>1. k \in BarTickers => ~(lastSeen[k] >= files[k][n])
        BY <1>2, <1>3 DEF FromThePast
      <4>2. k \notin BarTickers => ~(lastSeen[k] > files[k][n])
        BY <1>2, <1>3 DEF FromThePast
      <4> QED  BY <3>2, <3>3, <4>1, <4>2 DEF InOrder
    <3> QED  BY <3>1, <3>2, <3>4 DEF InOrder
  <2>2. \A i, j \in 1 .. n : i < j => InOrder(k, i, j)
    BY <1>2, <2>1 DEF FeedInv, SortedOK
  <2> QED  BY <1>4, <1>10, <2>2 DEF FeedInv, SortedOK, InOrder
<1>17. FedInOrder'
  <2>1. e.t = k /\ e.ts = ahead[k] /\ e.row = n
    BY DEF e
  <2>2. \A i, j \in 1 .. Len(fed') : i < j => fed'[i].ts <= fed'[j].ts
    <3>1. ASSUME NEW i \in 1 .. Len(fed'), NEW j \in 1 .. Len(fed'), i < j
          PROVE  fed'[i].ts <= fed'[j].ts
      <4>1. i \in 1 .. Len(fed) /\ (j \in 1 .. Len(fed) \/ j = Len(fed'))
        BY <1>6, <3>1
      <4>2. j \in 1 .. Len(fed) => fed[i].ts <= fed[j].ts
        BY <3>1, <4>1 DEF FeedInv, FedInOrder
      <4> QED  BY <1>6, <1>14, <2>1, <4>1, <4>2
    <3> QED  BY <3>1
  <2>3. ASSUME NEW i \in 1 .. Len(fed'), NEW r \in Records, r = fed'[i]
        PROVE  r.row = FedTo(r.t, i)' /\ r.row <= Len(files[r.t]) /\ r.ts = files[r.t][r.row]
    <3>1. CASE i \in 1 .. Len(fed)
      <4>1. r = fed[i] /\ FedTo(r.t, i)' = FedTo(r.t, i)
        BY <1>6, <2>3, <3>1
      <4> QED  BY <3>1, <4>1 DEF FeedInv, FedInOrder
    <3>2. CASE i = Len(fed')
      <4>1. r = e /\ AllFedTo(k)' = FedTo(k, i)'
        BY <1>6, <2>3, <3>2 DEF AllFedTo
      <4> QED  BY <1>2, <1>10, <2>1, <4>1
    <3> QED  BY <1>6, <3>1, <3>2
  <2>4. \A i \in 1 .. Len(fed') : fed'[i] \in Records
    BY <1>6
  <2> QED  BY <1>4, <2>2, <2>3, <2>4 DEF FedInOrder
<1> QED  BY <1>3, <1>7, <1>8, <1>11, <1>12, <1>13, <1>15, <1>16, <1>17 DEF FeedInv
LEMMA OpenKeeps == ASSUME FeedInv, Open, UNCHANGED setup PROVE FeedInv'
<1>1. CASE pc' = "terminated"
  <2>1. pc = "open" /\ UNCHANGED <<inputs, read, ahead, reading>>
    BY DEF Open
  <2>2. FromThePast(at, ahead[at]) /\ Goto("terminated", at) /\ UNCHANGED <<lastSeen, best, fed>>
    BY <1>1 DEF Open, Goto
  <2> QED  BY <2>1, <2>2, TerminateKeeps
<1>2. CASE pc' # "terminated"
  BY <1>2, TakeKeeps DEF Open
<1> QED  BY <1>1, <1>2

\* The close of a bar changes the last quote of its ticker.
LEMMA AggregateKeeps == ASSUME FeedInv, Aggregate, UNCHANGED setup PROVE FeedInv'
<1>1. PICK k \in Tickers : k = at /\ k \in BarTickers
  BY DEF Aggregate, FeedInv, PlaceOK
<1>2. /\ pc = "aggregate" /\ pc' = "taken" /\ at' = k
      /\ UNCHANGED <<inputs, read, ahead, reading, fed, setup>>
      /\ lastSeen' = [lastSeen EXCEPT ![k] = ahead[k] + 1]
      /\ best' = [best EXCEPT ![k] = Quote(ahead[k] + 1, read[k])]
  BY <1>1 DEF Aggregate, Goto
<1>3. UNCHANGED <<source, count, files, ending, Tickers, Records, read, ahead, reading, fed, setup>>
  BY <1>2 DEF inputs, Tickers, Records
<1>4. \A t, n : FedTo(t, n)' = FedTo(t, n)
  BY <1>3 DEF FedTo
<1>5. \A t : AllFedTo(t)' = AllFedTo(t)
  BY <1>3, <1>4 DEF AllFedTo
<1>6. /\ ~Waits(k) /\ AllFedTo(k) = read[k] /\ ahead[k] # Never /\ read[k] \in Nat \ {0}
      /\ ahead[k] = files[k][read[k]] /\ ahead[k] \in Nat
  <2>1. ~Waits(k) /\ AllFedTo(k) = read[k] /\ ahead[k] # Never
    BY <1>1, <1>2 DEF Waits, FeedInv, TakenOK, ReadOK
  <2>2. read[k] \in Nat \ {0} /\ ahead[k] = files[k][read[k]]
    BY <2>1, Fed DEF FeedInv, ReadOK
  <2>3. ahead[k] \in Nat
    BY TimesAreNat DEF FeedInv, TypesOK
  <2> QED  BY <2>1, <2>2, <2>3
<1>7. TypesOK'
  <2>1. lastSeen' \in [Tickers -> Int] /\ best' \in [Tickers -> [ts : Int, row : Nat]]
    BY <1>2, <1>6 DEF FeedInv, TypesOK, Quote
  <2> QED  BY <1>2, <1>3, <2>1 DEF FeedInv, TypesOK, Steps
<1>8. PlaceOK' /\ ReadOK' /\ EndOK' /\ EarliestOK'
  BY <1>1, <1>2, <1>3 DEF FeedInv, PlaceOK, ReadOK, EndOK, EarliestOK
<1>9. \A t \in Tickers : Waits(t)' <=> Waits(t)
  BY <1>1, <1>2, <1>3 DEF Waits
<1>10. TakenOK'
  BY <1>3, <1>5, <1>9 DEF FeedInv, TakenOK
<1>11. SeenOK'
  BY <1>1, <1>2, <1>3, <1>5, <1>6 DEF FeedInv, SeenOK, TypesOK
<1>12. SortedOK'
  BY <1>3, <1>5 DEF FeedInv, SortedOK, InOrder
<1>13. LatestOK'
  BY <1>1, <1>2, <1>3, <1>9 DEF FeedInv, LatestOK
<1>14. BestOK'
  BY <1>2, <1>3, <1>6, <1>9 DEF FeedInv, BestOK, TypesOK
<1>15. FedInOrder'
  BY <1>3, <1>4 DEF FeedInv, FedInOrder
<1> QED  BY <1>2, <1>7, <1>8, <1>10, <1>11, <1>12, <1>13, <1>14, <1>15 DEF FeedInv

LEMMA FeedStep == ASSUME FeedInv, [Next]_vars PROVE FeedInv'
<1>1. CASE Run
  BY <1>1, RunKeeps
<1>2. CASE Feeding
  BY <1>2, OpenFileKeeps, SelectKeeps, ReplaceKeeps, SingleKeeps DEF Feeding
<1>3. CASE OpenEvent
  <2>1. UNCHANGED setup
    BY <1>3 DEF OpenEvent, Strategy
  <2> QED  BY <1>3, <2>1, OpenKeeps DEF OpenEvent
<1>4. CASE AggregateEvent
  BY <1>4, AggregateKeeps DEF AggregateEvent, Strategy
<1>5. CASE NotifyEvent
  BY <1>5, NotifyKeeps DEF NotifyEvent, Strategy
<1>6. CASE UNCHANGED <<feedVars, setup>>
  <2>1. UNCHANGED <<source, count, files, ending, read, ahead, reading, lastSeen, best, fed, pc,
                    at, setup>>
    BY <1>6 DEF feedVars
  <2>2. UNCHANGED Tickers /\ \A t, n : FedTo(t, n)' = FedTo(t, n)
    BY <2>1 DEF Tickers, FedTo
  <2>3. UNCHANGED Records /\ \A t : AllFedTo(t)' = AllFedTo(t) /\ Waits(t)' = Waits(t)
    BY <2>1, <2>2 DEF Records, AllFedTo, Waits
  <2>4. TypesOK' /\ PlaceOK' /\ ReadOK' /\ EndOK' /\ EarliestOK'
    <3>1. TypesOK' /\ PlaceOK'
      BY <2>1, <2>2, <2>3 DEF FeedInv, TypesOK, PlaceOK
    <3>2. ReadOK' /\ EndOK' /\ EarliestOK'
      BY <2>1, <2>2 DEF FeedInv, ReadOK, EndOK, EarliestOK
    <3> QED  BY <3>1, <3>2
  <2>5. TakenOK' /\ SeenOK' /\ SortedOK' /\ LatestOK' /\ BestOK' /\ FedInOrder'
    BY <2>1, <2>2, <2>3
    DEF FeedInv, TakenOK, SeenOK, SortedOK, InOrder, LatestOK, BestOK, FedInOrder
  <2>6. EndsAsTheFilesSay => EndsAsTheFilesSay'
    BY <2>1, <2>2, <2>3 DEF EndsAsTheFilesSay, Sorted
  <2> QED  BY <2>1, <2>4, <2>5, <2>6 DEF FeedInv
<1>7. CASE Deregister
  BY <1>6, <1>7 DEF Deregister
<1>8. CASE Terminated \/ UNCHANGED vars
  BY <1>6, <1>8 DEF Terminated, vars
<1> QED  BY <1>1, <1>2, <1>3, <1>4, <1>5, <1>7, <1>8 DEF Next
-----------------------------------------------------------------------------
(* What the invariant of the feeder says.                                  *)

LEMMA FeedInvEnds == ASSUME FeedInv PROVE EndsAsTheFilesSay
<1>1. CASE pc = "done"
  <2>1. ASSUME NEW t \in Tickers
        PROVE  ending[t] = "eof" /\ Sorted(t) /\ AllFedTo(t) = Len(files[t])
    <3>1. ~Waits(t) /\ read[t] = Len(files[t]) /\ ending[t] = "eof"
      <4>1. CASE source = "multi"
        <5>1. reading.ts = Never /\ reading.ts <= ahead[t]
          BY <1>1, <4>1 DEF FeedInv, EarliestOK
        <5>2. ahead[t] = Never
          <6>1. ahead[t] \in Times \cup {Never}
            BY DEF FeedInv, TypesOK
          <6>2. ahead[t] \in Nat /\ ahead[t] <= Never /\ Never \in Nat
            BY <6>1, TimesAreNat
          <6> QED  BY <5>1, <6>2
        <5> QED  BY <1>1, <4>1, <5>2 DEF FeedInv, EndOK, Waits
      <4>2. CASE source # "multi"
        <5>1. t = 1
          BY <1>1, <4>2 DEF FeedInv, PlaceOK, Tickers
        <5> QED  BY <1>1, <4>2, <5>1 DEF FeedInv, EndOK, Waits
      <4> QED  BY <4>1, <4>2
    <3>2. AllFedTo(t) = Len(files[t])
      BY <3>1 DEF FeedInv, TakenOK
    <3> QED  BY <3>1, <3>2 DEF FeedInv, SortedOK, Sorted, InOrder
  <2> QED  BY <1>1, <2>1 DEF EndsAsTheFilesSay
<1>2. CASE pc \in {"failed", "terminated"}
  BY <1>2 DEF FeedInv
<1>3. CASE pc \notin {"done", "failed", "terminated"}
  BY <1>3 DEF EndsAsTheFilesSay
<1> QED  BY <1>1, <1>2, <1>3

LEMMA FeedInvBest == ASSUME FeedInv PROVE BestIsNext
<1> SUFFICES ASSUME source = "multi", pc = "select", NEW t \in Tickers, read[t] > AllFedTo(t)
             PROVE  /\ best[t] = Quote(files[t][read[t]], read[t])
                    /\ Sorted(t) => \A i \in 1 .. Len(fed) : fed[i].ts <= best[t].ts
  BY DEF BestIsNext
<1>1. Waits(t) /\ AllFedTo(t) = read[t] - 1 /\ read[t] \in Nat /\ AllFedTo(t) \in Nat
  BY Fed DEF FeedInv, TakenOK
<1>2. /\ ahead[t] = files[t][read[t]] /\ ahead[t] \in Nat /\ read[t] \in 1 .. Len(files[t])
      /\ read[t] - 1 = 0 \/ read[t] - 1 \in 1 .. Len(files[t])
  <2>1. ahead[t] # Never /\ ahead[t] = files[t][read[t]] /\ read[t] > 0
    BY <1>1 DEF Waits, FeedInv, ReadOK
  <2>2. ahead[t] \in Nat
    BY TimesAreNat DEF FeedInv, TypesOK
  <2>3. read[t] <= Len(files[t]) /\ Len(files[t]) \in Nat
    BY Fed DEF FeedInv
  <2> QED  BY <1>1, <2>1, <2>2, <2>3
<1>3. best[t] = Quote(files[t][read[t]], read[t]) /\ best[t].ts = ahead[t]
  BY <1>1, <1>2 DEF FeedInv, BestOK, Quote
<1>4. ASSUME Sorted(t), NEW i \in 1 .. Len(fed) PROVE fed[i].ts <= ahead[t]
  <2> DEFINE l == fed[Len(fed)]
  <2>1. /\ fed # <<>> /\ l \in Records /\ fed[i] \in Records /\ Len(fed) \in 1 .. Len(fed)
        /\ Len(fed) \in Nat
    <3>1. fed # <<>>
      BY <1>4
    <3> QED  BY <3>1, LastFed DEF FeedInv
  <2>2. fed[i].ts \in Nat /\ l.ts \in Nat
    BY <2>1, TimesAreNat DEF Records
  <2>3. fed[i].ts <= l.ts
    <3>1. i = Len(fed) \/ i < Len(fed)
      BY <2>1
    <3> QED  BY <2>1, <2>2, <3>1 DEF FeedInv, FedInOrder
  <2>4. l.ts <= ahead[t]
    <3>1. CASE l.t # t
      BY <1>1, <2>1, <3>1 DEF FeedInv, LatestOK
    <3>2. CASE l.t = t
      <4>1. l.row = read[t] - 1 /\ l.ts = files[t][read[t] - 1]
        BY <1>1, <2>1, <3>2 DEF FeedInv, FedInOrder, AllFedTo
      <4>2. read[t] - 1 # 0
        BY <1>1, <2>1, <3>2, Counted DEF AllFedTo
      <4>3. read[t] - 1 \in 1 .. Len(files[t]) /\ read[t] - 1 < read[t]
        BY <1>1, <1>2, <4>2
      <4>4. files[t][read[t] - 1] < files[t][read[t]] \/ files[t][read[t] - 1] <= files[t][read[t]]
        BY <1>2, <1>4, <4>3 DEF Sorted
      <4> HIDE DEF l
      <4> QED  BY <1>2, <2>2, <4>1, <4>4
    <3> QED  BY <3>1, <3>2
  <2> HIDE DEF l
  <2> QED  BY <1>2, <2>2, <2>3, <2>4
<1> QED  BY <1>3, <1>4

\* The invariant of the feeder: where a record of every file is, what it is compared
\* with and which are fed, after every step of a run (multiFile.h:187-282).
THEOREM FeedInvariant == Spec => []FeedInv
<1>1. RunInit => FeedInv
  BY FeedInit
<1>2. FeedInv /\ [Next]_vars => FeedInv'
  BY FeedStep
<1> QED  BY <1>1, <1>2, PTL DEF Spec

\* The market takes the records in the order of their times over all the tickers, each
\* ticker its own, from the first on, none twice and none left out.
THEOREM MergedInOrder == Spec => []FedInOrder
<1>1. FeedInv => FedInOrder
  BY DEF FeedInv
<1> QED  BY <1>1, FeedInvariant, PTL

\* A run that ends well has fed whole and sorted files, a failed one has a reason.
THEOREM EndsHaveReasons == Spec => []EndsAsTheFilesSay
<1>1. FeedInv => EndsAsTheFilesSay
  BY FeedInvEnds
<1> QED  BY <1>1, FeedInvariant, PTL

\* The best price of every ticker with data left is that of its next record.
THEOREM BestIsAhead == Spec => []BestIsNext
<1>1. FeedInv => BestIsNext
  BY FeedInvBest
<1> QED  BY <1>1, FeedInvariant, PTL
-----------------------------------------------------------------------------
(* The scheduled callbacks.                                                *)

LEMMA MaxIs ==
  ASSUME NEW S \in SUBSET Int, NEW d \in S, \A x \in S : x <= d PROVE Max(S) = d
<1>1. d \in S /\ \A y \in S : d >= y
  OBVIOUS
<1>2. Max(S) \in S /\ \A y \in S : Max(S) >= y
  BY <1>1 DEF Max
<1>3. Max(S) >= d /\ Max(S) <= d /\ Max(S) \in Int
  BY <1>2
<1> QED  BY <1>3

\* A callback with trades it is about serves the only ticker.
LEMMA CallTypes ==
  ASSUME CallTypesOK
  PROVE  /\ Len(calls) \in Nat
         /\ \A i \in 1 .. Len(calls) :
              /\ calls[i] \in CallRecords
              /\ DateOf(calls[i].now) \in Int /\ DateOf(calls[i].told) \in Int
<1>1. calls \in Seq(CallRecords)
  BY DEF CallTypesOK
<1>2. Len(calls) \in Nat /\ \A i \in 1 .. Len(calls) : calls[i] \in CallRecords
  BY <1>1
<1>3. \A c \in CallRecords : c.now \in Int /\ c.told \in Int
  BY DEF CallRecords
<1> QED  BY <1>2, <1>3, DayRange

LEMMA AboutServed ==
  ASSUME count = 1, opened \subseteq Tickers, NEW c \in Callbacks,
         About(c.ticker, opened) # {}
  PROVE  Serves(c, 1) /\ (c.ticker = 0 \/ c.ticker \in opened)
<1>1. Tickers = {1}
  BY DEF Tickers
<1>2. CASE c.ticker = 0
  BY <1>2 DEF Serves
<1>3. CASE c.ticker # 0
  <2>1. opened \cap {c.ticker} # {}
    BY <1>3 DEF About
  <2>2. c.ticker \in opened /\ c.ticker = 1
    BY <1>1, <2>1
  <2> QED  BY <2>2 DEF Serves
<1> QED  BY <1>2, <1>3

\* A callback after an event: a call is told a time of the day of the last quote, and
\* the callback keeps that day.
LEMMA CallbackAfter ==
  ASSUME NEW c \in Callbacks, NEW ts \in Nat, NEW last \in Int, last <= ts, NEW trades
  PROVE  LET n == AfterEvent(c, 1, ts, last, trades)
             isCalled == IsCalled(c, 1, ts, trades)
         IN /\ n \in Callbacks /\ n.ticker = c.ticker /\ n.time = c.time
            /\ DateOf(ToldTime(ts, last)) = DateOf(last) /\ ToldTime(ts, last) \in Int
            /\ isCalled => c.called # DateOf(ts) /\ n.called = DateOf(last)
            /\ ~isCalled => n.called = c.called
            /\ Serves(c, 1) => DateOf(ts) \in {n.trading, n.called}
<1>1. DateOf(ts) \in Int /\ DateOf(last) \in Int
  BY DaysInOrder
<1>2. DateOf(ToldTime(ts, last)) = DateOf(last) /\ ToldTime(ts, last) \in Int
  BY DEF ToldTime
<1>3. CASE c.called = DateOf(ts)
  <2>1. AfterEvent(c, 1, ts, last, trades) = c /\ ~IsCalled(c, 1, ts, trades)
    BY <1>3 DEF AfterEvent, IsCalled
  <2> QED  BY <1>2, <1>3, <2>1
<1>4. CASE c.called # DateOf(ts)
  <2> DEFINE called == IF IsCalled(c, 1, ts, trades) THEN DateOf(ToldTime(ts, last))
                       ELSE c.called
             trading == IF Serves(c, 1) THEN DateOf(ts) ELSE c.trading
             n == AfterEvent(c, 1, ts, last, trades)
  <2>1. n = [c EXCEPT !.called = called, !.trading = trading]
    BY <1>4 DEF AfterEvent
  <2>2. called \in Int /\ trading \in Int
    BY <1>1, <1>2 DEF Callbacks
  <2>3. /\ n \in Callbacks /\ n.ticker = c.ticker /\ n.time = c.time
        /\ n.called = called /\ n.trading = trading
    <3> HIDE DEF called, trading, n
    <3> QED  BY <2>1, <2>2 DEF Callbacks
  <2> QED  BY <1>2, <1>4, <2>3
<1> QED  BY <1>3, <1>4

\* An event of a day that is not before that of the last quote.
LEMMA EventKeeps ==
  ASSUME count = 1, CallsOK, opened' \subseteq Tickers, Tickers' = Tickers, count' = count,
         lastSeen[1] \in Int, NEW ts \in Nat, lastSeen[1] <= ts,
         NEW last \in Int, last = Today, DayOK(last),
         TimedCallbacks(1, ts), NEW day \in Int, day = DateOf(ts)
  PROVE  CallsOK' /\ DayOK(day)'
<1>1. day \in Nat /\ last <= day /\ last = DateOf(lastSeen[1])
  BY DaysInOrder, DayRange DEF Today
<1>2. CASE opened = {} \/ cb = <<>>
  <2>1. UNCHANGED <<cb, calls>> /\ Watch(watched)
    BY <1>2 DEF TimedCallbacks
  <2>2. watched = {}
    BY <1>2 DEF CallsOK, WatchOK, About
  <2>3. watched' = {}
    BY <2>1, <2>2 DEF Watch
  <2>4. CallTypesOK' /\ WatchOK' /\ CalledOK'
    BY <2>1, <2>3 DEF CallsOK, CallTypesOK, WatchOK, CalledOK, Told
  <2>5. NoDayMissed' /\ CallsKeepTheDay'
    <3>1. CallsKeepTheDay'
      BY <2>1 DEF CallsOK, CallsKeepTheDay
    <3> QED  BY <2>3, <3>1 DEF NoDayMissed
  <2>6. \A i \in 1 .. Len(calls) : DateOf(calls[i].now) \in Int
    BY CallTypes DEF CallsOK
  <2>7. cb = <<>> \/ cb[1].called \in Int
    BY DEF CallsOK, CallTypesOK, Callbacks
  <2>8. DayOK(day)'
    BY <1>1, <2>1, <2>3, <2>6, <2>7 DEF DayOK
  <2> QED  BY <2>4, <2>5, <2>8 DEF CallsOK
<1>3. CASE opened # {} /\ cb # <<>>
  <2>1. PICK c \in Callbacks : cb = <<c>>
    BY <1>3 DEF CallsOK, CallTypesOK
  <2>2. PICK n : n = AfterEvent(c, 1, ts, lastSeen[1], opened)
    OBVIOUS
  <2>3. PICK isCalled \in BOOLEAN : isCalled = IsCalled(c, 1, ts, opened)
    BY DEF IsCalled
  <2>4. PICK told : told = ToldTime(ts, lastSeen[1])
    OBVIOUS
  <2>5. /\ n \in Callbacks /\ n.ticker = c.ticker /\ n.time = c.time
        /\ DateOf(told) = last /\ told \in Int
        /\ isCalled => c.called # day /\ n.called = last
        /\ ~isCalled => n.called = c.called
        /\ Serves(c, 1) => day \in {n.trading, n.called}
    BY <1>1, <2>2, <2>3, <2>4, CallbackAfter
  <2> DEFINE call == Call(told, ts, c)
             looked == IF Serves(c, 1) /\ About(c.ticker, opened) # {}
                       THEN watched \cup {day} ELSE watched
  <2>6. /\ cb' = <<n>> /\ calls' = IF isCalled THEN Append(calls, call) ELSE calls
        /\ Watch(looked)
    BY <1>3, <2>1, <2>2, <2>3, <2>4 DEF TimedCallbacks
  <2>7. /\ call.told = told /\ call.now = ts /\ call.due = c.time /\ call.fresh = (watched = {})
        /\ call \in CallRecords
    BY <2>1, <2>5 DEF Call, Callbacks, CallRecords
  <2>8. /\ Len(calls) \in Nat /\ \A i \in 1 .. Len(calls) : calls'[i] = calls[i]
        /\ calls' \in Seq(CallRecords)
        /\ isCalled => Len(calls') = Len(calls) + 1 /\ calls'[Len(calls) + 1] = call
        /\ ~isCalled => Len(calls') = Len(calls)
    <3>1. calls \in Seq(CallRecords) /\ call \in CallRecords
      BY <2>7 DEF CallsOK, CallTypesOK
    <3> HIDE DEF call
    <3>2. CASE isCalled
      BY <2>6, <3>1, <3>2
    <3>3. CASE ~isCalled
      BY <2>6, <3>1, <3>3
    <3> QED  BY <3>2, <3>3
  <2>9. \A i \in 1 .. Len(calls) : /\ DateOf(calls[i].now) \in Int /\ DateOf(calls[i].told) \in Int
                                   /\ DateOf(calls[i].now) <= last
                                   /\ DateOf(calls[i].now) = last /\ DateOf(calls[i].told) = last =>
                                        c.called = last
    BY <2>1, CallTypes DEF CallsOK, DayOK
  <2>10. watched # {} => /\ Serves(c, 1) /\ (c.ticker = 0 \/ c.ticker \in opened)
                         /\ About(c.ticker, opened) # {}
    BY <2>1, AboutServed DEF CallsOK, CallTypesOK, WatchOK
  <2>11. /\ c.called \in Int /\ c.called <= last /\ watched \subseteq Nat
         /\ \A d \in watched : d <= last
         /\ watched # {} => last \in watched /\ last \in {c.trading, c.called}
    BY <2>1 DEF DayOK, CallsOK, CallTypesOK, Callbacks
  <2> HIDE DEF call, looked
  <2>12. /\ looked \subseteq Nat /\ \A d \in looked : d <= day
         /\ looked # {} => Serves(c, 1) /\ day \in looked
         /\ \A d \in looked : d = day \/ d \in watched
    <3>1. CASE Serves(c, 1) /\ About(c.ticker, opened) # {}
      <4>1. looked = watched \cup {day}
        BY <3>1 DEF looked
      <4>2. \A d \in watched : d \in Nat /\ d <= last
        BY <2>11
      <4>3. \A d \in looked : d \in Nat /\ d <= day
        BY <1>1, <4>1, <4>2
      <4> QED  BY <3>1, <4>1, <4>3
    <3>2. CASE ~(Serves(c, 1) /\ About(c.ticker, opened) # {})
      <4>1. looked = watched /\ watched = {}
        BY <2>10, <3>2 DEF looked
      <4> QED  BY <4>1
    <3> QED  BY <3>1, <3>2
  <2>13. watched' \in {{}, looked} /\ (watched' # {} => About(n.ticker, opened') # {})
    <3>1. cb # <<>> /\ cb[1] = c
      BY <2>1
    <3> QED  BY <2>5, <2>6, <3>1 DEF Watch
  <2>14. \A d : Told(d) => Told(d)'
    BY <2>8 DEF Told
  <2>15. isCalled => Told(last)'
    BY <2>5, <2>7, <2>8 DEF Told
  <2>16. CallTypesOK'
    BY <2>5, <2>6, <2>8, <2>12, <2>13 DEF CallTypesOK
  <2>17. WatchOK'
    BY <2>6, <2>13 DEF WatchOK
  <2>18. CalledOK'
    BY <2>1, <2>5, <2>6, <2>14, <2>15 DEF CallsOK, CalledOK
  <2>19. NoDayMissed'
    <3>1. ASSUME NEW d \in watched' PROVE d = Max(watched') \/ Told(d)'
      <4>1. day \in watched' /\ watched' \in SUBSET Int /\ \A x \in watched' : x <= day
        <5>1. watched' = looked /\ looked # {}
          BY <2>13, <3>1
        <5> QED  BY <2>12, <5>1
      <4>2. Max(watched') = day
        BY <4>1, MaxIs
      <4>3. ASSUME d # day PROVE Told(d)'
        <5>1. d \in watched /\ last \in watched /\ last \in {c.trading, c.called} /\ last \in Nat
          BY <2>11, <2>12, <2>13, <3>1, <4>3
        <5>2. watched \in SUBSET Int /\ last \in watched /\ \A x \in watched : x <= last
          BY <2>11, <5>1
        <5>3. Max(watched) = last
          BY <5>2, MaxIs
        <5>4. d = last \/ Told(d)
          BY <5>1, <5>3 DEF CallsOK, NoDayMissed
        <5>5. CASE d = last
          <6>1. last < day
            BY <1>1, <4>3, <5>5
          <6>2. CASE c.called = last
            <7>1. cb # <<>> /\ cb[1].called = last /\ last # NoDate
              BY <2>1, <5>1, <6>2 DEF NoDate
            <7> QED  BY <2>14, <5>5, <7>1 DEF CallsOK, CalledOK
          <6>3. CASE c.called # last
            <7>1. c.trading = last /\ last # NoDate /\ c.called # day
              BY <2>11, <5>1, <6>1, <6>3 DEF NoDate
            <7>2. Due(c, 1, ts)
              BY <6>1, <6>3, <7>1 DEF Due
            <7>3. isCalled
              BY <2>3, <2>10, <5>1, <7>1, <7>2 DEF IsCalled
            <7> QED  BY <2>15, <5>5, <7>3
          <6> QED  BY <6>2, <6>3
        <5> QED  BY <2>14, <5>4, <5>5
      <4> QED  BY <4>2, <4>3
    <3> QED  BY <3>1 DEF NoDayMissed
  <2>20. CallsKeepTheDay'
    <3>1. ASSUME isCalled, last = day PROVE TimeOf(ts) >= c.time \/ watched = {}
      <4>1. c.called # day /\ Due(c, 1, ts)
        BY <2>3, <2>5, <3>1 DEF IsCalled
      <4>2. watched # {} => c.trading = day
        BY <2>11, <3>1, <4>1
      <4>3. c.time <= TimeOf(ts) \/ c.trading < day
        BY <4>1 DEF Due
      <4>4. c.time \in Int /\ TimeOf(ts) \in Int
        BY DayRange DEF Callbacks
      <4> QED  BY <1>1, <4>2, <4>3, <4>4
    <3>2. ASSUME isCalled, NEW j \in 1 .. Len(calls), DateOf(calls[j].told) = last
          PROVE  DateOf(calls[j].now) # day
      BY <1>1, <2>5, <2>9, <3>2
    <3>3. ASSUME NEW i \in 1 .. Len(calls')
          PROVE  LET k == calls'[i] IN
                 /\ DateOf(k.told) = DateOf(k.now) => TimeOf(k.now) >= k.due \/ k.fresh
                 /\ \A j \in 1 .. (i - 1) : DateOf(k.told) = DateOf(calls'[j].told) =>
                                              DateOf(k.now) # DateOf(calls'[j].now)
      <4>1. CASE i \in 1 .. Len(calls)
        <5>1. calls'[i] = calls[i] /\ \A j \in 1 .. (i - 1) : calls'[j] = calls[j]
          BY <2>8, <4>1
        <5> QED  BY <4>1, <5>1 DEF CallsOK, CallsKeepTheDay
      <4>2. CASE isCalled /\ i = Len(calls) + 1
        <5>1. /\ calls'[i] = call /\ \A j \in 1 .. (i - 1) : j \in 1 .. Len(calls)
              /\ \A j \in 1 .. (i - 1) : calls'[j] = calls[j]
          BY <2>8, <4>2
        <5>2. DateOf(call.told) = last /\ DateOf(call.now) = day
          BY <2>5, <2>7
        <5>3. last = day => TimeOf(call.now) >= call.due \/ call.fresh
          BY <2>7, <3>1, <4>2
        <5>4. ASSUME NEW j \in 1 .. (i - 1), last = DateOf(calls'[j].told)
              PROVE  day # DateOf(calls'[j].now)
          BY <3>2, <4>2, <5>1, <5>4
        <5> QED  BY <5>1, <5>2, <5>3, <5>4
      <4> QED  BY <2>8, <4>1, <4>2
    <3> QED  BY <3>3 DEF CallsKeepTheDay
  <2>21. DayOK(day)'
    <3>1. \A d \in watched' : d <= day
      BY <2>12, <2>13
    <3>2. cb' # <<>> /\ cb'[1] = n
      BY <2>6
    <3>3. watched' # {} => day \in watched' /\ day \in {n.trading, n.called}
      BY <2>5, <2>12, <2>13
    <3>4. n.called <= day
      BY <1>1, <2>5, <2>11
    <3>5. ASSUME NEW i \in 1 .. Len(calls')
          PROVE  /\ DateOf(calls'[i].now) <= day
                 /\ DateOf(calls'[i].now) = day /\ DateOf(calls'[i].told) = day => n.called = day
      <4>1. CASE i \in 1 .. Len(calls)
        <5>1. calls'[i] = calls[i]
          BY <2>8, <4>1
        <5>2. /\ DateOf(calls[i].now) \in Int /\ DateOf(calls[i].now) <= last
              /\ DateOf(calls[i].now) = last /\ DateOf(calls[i].told) = last => c.called = last
          BY <2>9, <4>1
        <5>3. DateOf(calls[i].now) <= day /\ (DateOf(calls[i].now) = day => last = day)
          BY <1>1, <5>2
        <5> QED  BY <2>5, <5>1, <5>2, <5>3
      <4>2. CASE isCalled /\ i = Len(calls) + 1
        BY <1>1, <2>5, <2>7, <2>8, <4>2
      <4> QED  BY <2>8, <4>1, <4>2
    <3> QED  BY <3>1, <3>2, <3>3, <3>4, <3>5 DEF DayOK
  <2> QED  BY <2>16, <2>17, <2>18, <2>19, <2>20, <2>21 DEF CallsOK
<1> QED  BY <1>2, <1>3
LEMMA OnlyTicker ==
  ASSUME FeedInv, count = 1
  PROVE  /\ Tickers = {1} /\ lastSeen[1] \in Int /\ ahead[1] \in Nat
         /\ pc \in {"open", "aggregate", "last"} => at = 1
         /\ lastSeen[1] <= Never
         /\ ahead[1] # Never /\ ~Waits(1) => lastSeen[1] <= ahead[1] + 1
         /\ pc = "aggregate" => lastSeen[1] = ahead[1] /\ ahead[1] \in Times
<1>1. Tickers = {1}
  BY DEF Tickers
<1>2. lastSeen[1] \in Int /\ ahead[1] \in Times \cup {Never}
  BY <1>1 DEF FeedInv, TypesOK
<1>3. ahead[1] \in Nat /\ ahead[1] <= Never
  BY <1>2, TimesAreNat
<1>4. pc \in {"open", "aggregate", "last"} => at = 1
  BY <1>1 DEF FeedInv, PlaceOK
<1>5. lastSeen[1] <= Never
  <2>1. CASE AllFedTo(1) = 0
    BY <1>1, <2>1, TimesAreNat DEF FeedInv, SeenOK
  <2>2. CASE AllFedTo(1) # 0
    <3>1. AllFedTo(1) \in 1 .. Len(files[1])
      <4>1. AllFedTo(1) \in Nat /\ read[1] \in Nat /\ read[1] <= Len(files[1])
            /\ Len(files[1]) \in Nat /\ AllFedTo(1) <= read[1]
        BY <1>1, Fed DEF FeedInv, TakenOK
      <4> QED  BY <2>2, <4>1
    <3>2. files[1][AllFedTo(1)] \in Times
      BY <1>1, <3>1, Fed DEF FeedInv
    <3>3. files[1][AllFedTo(1)] + 1 < Never /\ files[1][AllFedTo(1)] \in Nat
      BY <3>2, TimesAreNat
    <3> QED  BY <1>1, <2>2, <3>3, TimesAreNat DEF FeedInv, SeenOK
  <2> QED  BY <2>1, <2>2
<1>6. ahead[1] # Never /\ ~Waits(1) =>
        lastSeen[1] = ahead[1] \/ (lastSeen[1] = ahead[1] + 1 /\ pc # "aggregate")
  <2>1. SUFFICES ASSUME ahead[1] # Never, ~Waits(1)
                 PROVE  lastSeen[1] = ahead[1] \/ (lastSeen[1] = ahead[1] + 1 /\ pc # "aggregate")
    OBVIOUS
  <2>2. AllFedTo(1) = read[1] /\ read[1] > 0 /\ read[1] \in Nat /\ ahead[1] = files[1][read[1]]
    BY <1>1, <2>1, Fed DEF FeedInv, TakenOK, ReadOK
  <2>3. pc = "aggregate" => at = 1
    BY <1>4
  <2> QED  BY <1>1, <2>2, <2>3 DEF FeedInv, SeenOK
<1>7. pc = "aggregate" => ahead[1] # Never /\ ~Waits(1)
  BY <1>1, <1>4 DEF FeedInv, ReadOK, Waits
<1> QED  BY <1>1, <1>2, <1>3, <1>4, <1>5, <1>6, <1>7

LEMMA CallInit == RunInit => CallInv
<1> SUFFICES ASSUME RunInit, count = 1 PROVE CallInv
  BY DEF CallInv
<1>1. /\ opened = {} /\ calls = <<>> /\ watched = {}
      /\ cb \in {<<>>} \cup {<<NewCallback(r, c)>> : r \in Required, c \in CallTimes}
  BY DEF RunInit
<1>2. cb = <<>> \/ \E c \in Callbacks : cb = <<c>> /\ c.called = NoDate
  <2>1. Required \subseteq Nat /\ CallTimes \subseteq Int
    BY ScheduleAssumption, DayAssumption, FeederAssumption
  <2>2. \A r \in Required, c \in CallTimes :
          NewCallback(r, c) \in Callbacks /\ NewCallback(r, c).called = NoDate
    BY <2>1 DEF NewCallback, Callbacks, NoDate
  <2> QED  BY <1>1, <2>2
<1>3. Today = NoDate
  <2>1. lastSeen[1] = -1
    BY DEF RunInit, Init, Tickers
  <2> QED  BY <2>1, DayRange DEF Today
<1>4. CallTypesOK /\ WatchOK /\ CalledOK
  BY <1>1, <1>2 DEF CallTypesOK, WatchOK, CalledOK
<1>5. NoDayMissed /\ CallsKeepTheDay
  BY <1>1 DEF NoDayMissed, CallsKeepTheDay
<1>6. DayOK(NoDate) /\ NoDate \in Int
  BY <1>1, <1>2 DEF DayOK, NoDate
<1> QED  BY <1>3, <1>4, <1>5, <1>6 DEF CallInv, CallsOK

\* A step that does not concern the callbacks.
LEMMA CallsKept ==
  ASSUME CallInv, count' = count, lastSeen' = lastSeen, pc' # "done" => pc # "done",
         UNCHANGED <<opened, cb, calls, watched>>
  PROVE  CallInv'
<1> SUFFICES ASSUME count = 1 PROVE CallInv'
  BY DEF CallInv
<1>1. Tickers' = Tickers /\ Today' = Today
  BY DEF Tickers, Today
<1>2. CallTypesOK' /\ WatchOK' /\ CalledOK'
  BY <1>1 DEF CallInv, CallsOK, CallTypesOK, WatchOK, CalledOK, Told
<1>3. NoDayMissed' /\ CallsKeepTheDay'
  BY DEF CallInv, CallsOK, NoDayMissed, CallsKeepTheDay, Told
<1>4. \A day : DayOK(day) => DayOK(day)'
  BY DEF DayOK
<1> QED  BY <1>1, <1>2, <1>3, <1>4 DEF CallInv, CallsOK

LEMMA CallStep == ASSUME FeedInv, CallInv, [Next]_vars PROVE CallInv'
<1>1. count' = count
  BY DEF Next, Run, Feeding, OpenFile, Select, Replace, StartSingle, ReadSingle, StartMemory,
         FeedMemory, OpenEvent, Open, AggregateEvent, Aggregate, NotifyEvent, Notify,
         Deregister, Terminated, vars, feedVars, inputs
<1> SUFFICES ASSUME count = 1 PROVE CallInv'
  BY <1>1 DEF CallInv
<1>2. Tickers' = Tickers /\ Tickers = {1}
  BY <1>1 DEF Tickers
<1>3. CASE Run
  BY <1>1, <1>3, CallsKept DEF Run
<1>4. CASE Feeding
  <2>1. lastSeen' = lastSeen /\ pc # "done"
    BY <1>4 DEF Feeding, OpenFile, Select, Replace, StartSingle, ReadSingle, StartMemory, FeedMemory
  <2> QED  BY <1>1, <1>4, <2>1, CallsKept DEF Feeding
<1>5. CASE OpenEvent
  <2>1. CASE pc' = "terminated"
    <3>1. lastSeen' = lastSeen /\ pc # "done"
      BY <1>5, <2>1 DEF OpenEvent, Open, Goto
    <3> QED  BY <1>1, <1>5, <2>1, <3>1, CallsKept DEF OpenEvent
  <2>2. CASE pc' # "terminated"
    <3>1. /\ pc = "open" /\ at = 1 /\ ~FromThePast(1, ahead[1]) /\ pc' # "done"
          /\ lastSeen' = [lastSeen EXCEPT ![1] = ahead[1]]
      BY <1>5, <2>2, OnlyTicker DEF OpenEvent, Open, Goto
    <3>2. lastSeen[1] <= ahead[1] /\ lastSeen'[1] = ahead[1] /\ ahead[1] \in Nat
          /\ lastSeen[1] \in Int
      BY <1>2, <3>1, OnlyTicker DEF FromThePast, FeedInv, TypesOK
    <3>3. TimedCallbacks(1, ahead[1]) /\ opened' \subseteq Tickers
      BY <1>2, <1>5, <2>2, <3>1 DEF OpenEvent, Strategy
    <3>4. PICK ts \in Nat : ts = ahead[1]
      BY <3>2
    <3>5. PICK day \in Int : day = DateOf(ts) /\ day = Today'
      BY <3>2, <3>4, DayRange DEF Today
    <3>6. PICK last \in Int : last = Today /\ DayOK(last)
      BY <3>1 DEF CallInv
    <3>7. CallsOK' /\ DayOK(day)'
      BY <1>1, <1>2, <3>2, <3>3, <3>4, <3>5, <3>6, EventKeeps DEF CallInv
    <3> QED  BY <3>5, <3>7 DEF CallInv
  <2> QED  BY <2>1, <2>2
<1>6. CASE AggregateEvent
  <2>1. /\ pc = "aggregate" /\ pc' = "taken" /\ at = 1 /\ UNCHANGED <<cb, calls>>
        /\ lastSeen' = [lastSeen EXCEPT ![1] = ahead[1] + 1]
        /\ Watch(watched) /\ opened' \subseteq Tickers
    BY <1>2, <1>6, OnlyTicker DEF AggregateEvent, Aggregate, Goto, Strategy
  <2>2. lastSeen'[1] = ahead[1] + 1 /\ lastSeen[1] = ahead[1] /\ ahead[1] \in Times
    BY <1>2, <2>1, OnlyTicker DEF FeedInv, TypesOK
  <2>3. Today' = Today
    BY <2>2, ScheduleAssumption DEF Today
  <2>4. /\ watched' \in {{}, watched}
        /\ watched' # {} => cb # <<>> /\ About(cb[1].ticker, opened') # {}
    BY <2>1 DEF Watch
  <2>5. CallTypesOK' /\ WatchOK' /\ CalledOK'
    BY <1>2, <2>1, <2>4 DEF CallInv, CallsOK, CallTypesOK, WatchOK, CalledOK, Told
  <2>6. NoDayMissed'
    BY <1>1, <2>1, <2>4 DEF CallInv, CallsOK, NoDayMissed, Told
  <2>7. CallsKeepTheDay'
    BY <1>1, <2>1 DEF CallInv, CallsOK, CallsKeepTheDay
  <2>8. PICK day \in Int : day = Today /\ DayOK(day)
    BY <2>1 DEF CallInv
  <2>9. DayOK(day)'
    BY <2>1, <2>4, <2>8 DEF DayOK
  <2> QED  BY <2>3, <2>5, <2>6, <2>7, <2>8, <2>9 DEF CallInv, CallsOK
<1>7. CASE NotifyEvent
  <2>1. pc = "last" /\ at = 1 /\ pc' = "done"
    BY <1>7, OnlyTicker DEF NotifyEvent, Notify, Goto
  <2>2. LastTime \in Nat /\ lastSeen[1] <= LastTime /\ lastSeen[1] \in Int
    <3>1. source # "multi" => ~Waits(1)
      BY <2>1 DEF Waits
    <3> QED  BY <3>1, OnlyTicker, TimesAreNat DEF LastTime
  <2>3. TimedCallbacks(1, LastTime) /\ opened' \subseteq Tickers
    BY <1>2, <1>7, <2>1 DEF NotifyEvent, Strategy
  <2>4. PICK ts \in Nat : ts = LastTime
    BY <2>2
  <2>5. PICK day \in Int : day = DateOf(ts)
    BY DayRange
  <2>6. PICK last \in Int : last = Today /\ DayOK(last)
    BY <2>1 DEF CallInv
  <2>7. CallsOK'
    BY <1>1, <1>2, <2>2, <2>3, <2>4, <2>5, <2>6, EventKeeps DEF CallInv
  <2> QED  BY <2>1, <2>7 DEF CallInv
<1>8. CASE Deregister
  <2>1. /\ pc = "taken" /\ cb' = <<>> /\ watched' = {} /\ pc' = pc
        /\ UNCHANGED <<lastSeen, opened, calls>>
    BY <1>8 DEF Deregister, feedVars
  <2>2. Today' = Today
    BY <2>1 DEF Today
  <2>3. CallTypesOK' /\ WatchOK' /\ CalledOK'
    BY <1>2, <2>1 DEF CallInv, CallsOK, CallTypesOK, WatchOK, CalledOK
  <2>4. NoDayMissed'
    BY <2>1 DEF NoDayMissed
  <2>5. CallsKeepTheDay'
    BY <1>1, <2>1 DEF CallInv, CallsOK, CallsKeepTheDay
  <2>6. PICK day \in Int : day = Today /\ DayOK(day)
    BY <2>1 DEF CallInv
  <2>7. DayOK(day)'
    BY <2>1, <2>6 DEF DayOK
  <2> QED  BY <2>2, <2>3, <2>4, <2>5, <2>6, <2>7 DEF CallInv, CallsOK
<1>9. CASE Terminated \/ UNCHANGED vars
  BY <1>1, <1>9, CallsKept DEF Terminated, vars, feedVars
<1> QED  BY <1>3, <1>4, <1>5, <1>6, <1>7, <1>8, <1>9 DEF Next

\* The invariant of the feeder and, with one ticker, of the scheduled callbacks.
THEOREM RunInvariant == Spec => []Inv
<1>1. RunInit => Inv
  BY FeedInit, CallInit DEF Inv
<1>2. Inv /\ [Next]_vars => Inv'
  BY FeedStep, CallStep DEF Inv
<1> QED  BY <1>1, <1>2, PTL DEF Spec

\* With one ticker no day is missed on which the callback was considered with trades
\* that are still open (backtester.h:467-475).
THEOREM EveryDayIsTold == Spec => []NoDayMissed
<1>1. Inv => NoDayMissed
  BY DEF Inv, CallInv, CallsOK, NoDayMissed
<1> QED  BY <1>1, RunInvariant, PTL

\* With one ticker a call of the day itself is not early, unless it is the first event
\* since its trades were opened, and no day has two calls that are told the same date.
THEOREM CallsAreOfTheirDay == Spec => []CallsKeepTheDay
<1>1. Inv => CallsKeepTheDay
  BY DEF Inv, CallInv, CallsOK, CallsKeepTheDay
<1> QED  BY <1>1, RunInvariant, PTL
=============================================================================
