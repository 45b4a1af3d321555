------------------------------- MODULE Feeder -------------------------------
(***************************************************************************)
(* The feeders of the backtester: multiFile merges the files of several    *)
(* tickers by time, singleFile and memory feed one ticker.  A record of a  *)
(* file is its timestamp; a price is known by the number of the record it  *)
(* comes from.  All of it runs on one thread, inside backtester::run; the  *)
(* steps below lie between the moments at which the tickers call back.     *)
(*                                                                         *)
(* multiFile reads ahead: while the market is told of one record, the next *)
(* record of every other file has been read, and its opening price is      *)
(* already the best price of its ticker.                                   *)
(***************************************************************************)
EXTENDS Integers, SequencesExt, FiniteSetsExt

CONSTANTS
  MaxTickers,  \* bound on the number of tickers
  BarTickers,  \* the tickers whose files hold bars; the others hold ticks
  Times,       \* the timestamps of records
  MaxRows,     \* bound on the number of records in all the files
  Never,       \* mxTimestamp::max()
  Year,        \* what plusYear adds
  Sources,     \* the feeders: a subset of {"multi", "single", "memory"}
  Endings      \* how files end: a subset of {"eof", "broken", "absent"}

ASSUME FeederAssumption ==
  /\ MaxTickers \in Nat \ {0} /\ MaxRows \in Nat /\ Year \in Nat \ {0}
  /\ BarTickers \subseteq 1..MaxTickers
  /\ Times \subseteq Nat /\ Never \in Nat
  /\ \A ts \in Times : ts + 1 \notin Times /\ ts + 1 < Never
ASSUME SourceAssumption ==
  /\ Sources \subseteq {"multi", "single", "memory"} /\ Sources # {}
  /\ Endings \subseteq {"eof", "broken", "absent"} /\ "eof" \in Endings

VARIABLES
  source,    \* the feeder
  count,     \* the number of tickers
  files,     \* the records of each ticker's file
  ending,    \* how each file ends
  read,      \* how many records of each file have been read
  ahead,     \* tickerCtx::bar: the record read and not fed, Never when none
  reading,   \* readingCtx: the earliest of them, and whose it is
  lastSeen,  \* the timestamp of each ticker's last quote, -1 before the first
  best,      \* its best price: the time and the record it comes from
  fed,       \* history: the records the market has taken
  pc, at     \* what happens next, and with which ticker

feedVars == <<source, count, files, ending, read, ahead, reading, lastSeen, best,
              fed, pc, at>>
inputs == <<source, count, files, ending>>

Tickers == 1..count
NoQuote == [ts |-> -1, row |-> 0]
Quote(ts, row) == [ts |-> ts, row |-> row]

\* The records in all the files together.
Rows == FoldFunction(LAMBDA f, n : Len(f) + n, 0, files)

Init ==
  /\ source \in Sources /\ count \in 0..MaxTickers
  /\ files \in [Tickers -> BoundedSeq(Times, MaxRows)]
  /\ Rows <= MaxRows
  /\ ending \in [Tickers -> Endings]
  /\ Cardinality({t \in Tickers : ending[t] # "eof"}) <= 1
  /\ source = "memory" => count = 1 /\ 1 \in BarTickers /\ files[1] # <<>>
  /\ read = [t \in Tickers |-> 0]
  /\ ahead = [t \in Tickers |-> Never]
  /\ reading = [ts |-> Never, t |-> 0]
  /\ lastSeen = [t \in Tickers |-> -1] /\ best = [t \in Tickers |-> NoQuote]
  /\ fed = <<>>
  /\ pc = "run" /\ at = 1

Goto(step, t) == pc' = step /\ at' = t
Throw == Goto("failed", at)

-----------------------------------------------------------------------------
(* multiFile                                                               *)

ReadRecord_NoPrice(t, earliest) ==
  LET ts == files[t][read[t] + 1] IN
  /\ read[t] < Len(files[t])
  /\ read' = [read EXCEPT ![t] = @ + 1]
  /\ ahead' = [ahead EXCEPT ![t] = ts]
  /\ reading' = IF ts < earliest.ts THEN [ts |-> ts, t |-> t] ELSE earliest
  /\ UNCHANGED best

\* sReadBar: the next record of the file of t, to compare with what is the
\* earliest now; a record sets the best price of its ticker in advance.
ReadRecord(t, earliest) ==
  LET ts == files[t][read[t] + 1] IN
  /\ read[t] < Len(files[t])
  /\ read' = [read EXCEPT ![t] = @ + 1]
  /\ ahead' = [ahead EXCEPT ![t] = ts]
  /\ best' = [best EXCEPT ![t] = Quote(ts, read[t] + 1)]
  /\ reading' = IF ts < earliest.ts THEN [ts |-> ts, t |-> t] ELSE earliest

AtEnd(t, how) == read[t] = Len(files[t]) /\ ending[t] = how

\* _sInitCtxs for the ticker `at`: no file, no first record, or a broken one.
OpenFile ==
  /\ source = "multi" /\ pc = "start"
  /\ \/ /\ ending[at] # "absent" /\ ReadRecord(at, reading)
        /\ IF at < count THEN Goto("start", at + 1) ELSE Goto("select", at)
     \/ /\ ending[at] = "absent" \/ AtEnd(at, "eof") \/ AtEnd(at, "broken")
        /\ Throw /\ UNCHANGED <<read, ahead, best, reading>>
  /\ UNCHANGED <<inputs, lastSeen, fed>>

\* The loop of operator(): the earliest record is fed to its ticker.
Select ==
  /\ pc = "select"
  /\ IF reading.ts # Never THEN Goto("open", reading.t) ELSE Goto("last", 1)
  /\ UNCHANGED <<inputs, read, ahead, reading, lastSeen, best, fed>>

EarliestBut_Fed(t) ==
  LET waiting == {u \in Tickers : ahead[u] < Never}
      first == CHOOSE u \in waiting : \A v \in waiting :
                 ahead[u] < ahead[v] \/ (ahead[u] = ahead[v] /\ u <= v)
  IN IF waiting = {} THEN [ts |-> Never, t |-> reading.t]
     ELSE [ts |-> ahead[first], t |-> first]

\* The earliest of the records that wait when that of t has gone: of equal ones
\* the first ticker's.  When none waits the ticker of the last one stays.
EarliestBut(t) ==
  LET waiting == {u \in Tickers \ {t} : ahead[u] < Never}
      first == CHOOSE u \in waiting : \A v \in waiting :
                 ahead[u] < ahead[v] \/ (ahead[u] = ahead[v] /\ u <= v)
  IN IF waiting = {} THEN [ts |-> Never, t |-> reading.t]
     ELSE [ts |-> ahead[first], t |-> first]

\* After the market has taken the record: the earliest of the others, and then
\* the next record of the same file, which must be earlier still to be the next.
Replace ==
  /\ source = "multi" /\ pc = "taken"
  /\ \/ ReadRecord(at, EarliestBut(at)) /\ Goto("select", at)
     \/ /\ AtEnd(at, "eof")
        /\ ahead' = [ahead EXCEPT ![at] = Never] /\ reading' = EarliestBut(at)
        /\ Goto("select", at) /\ UNCHANGED <<read, best>>
     \/ AtEnd(at, "broken") /\ Throw /\ UNCHANGED <<read, ahead, best, reading>>
  /\ UNCHANGED <<inputs, lastSeen, fed>>

-----------------------------------------------------------------------------
(* singleFile and memory                                                   *)

\* singleFile::operator() refuses to feed several tickers.
StartSingle ==
  /\ source = "single" /\ pc = "start"
  /\ IF count = 1 /\ ending[1] # "absent" THEN Goto("taken", 1) ELSE Throw
  /\ UNCHANGED <<inputs, read, ahead, reading, lastSeen, best, fed>>

\* processFile: read and feed, until the file ends.
ReadSingle ==
  /\ source = "single" /\ pc = "taken"
  /\ \/ /\ read[1] < Len(files[1])
        /\ read' = [read EXCEPT ![1] = @ + 1]
        /\ ahead' = [ahead EXCEPT ![1] = files[1][read[1] + 1]]
        /\ Goto("open", 1)
     \/ AtEnd(1, "eof") /\ Goto("last", 1) /\ UNCHANGED <<read, ahead>>
     \/ AtEnd(1, "broken") /\ Throw /\ UNCHANGED <<read, ahead>>
  /\ UNCHANGED <<inputs, reading, lastSeen, best, fed>>

\* memory::populateFrom has read the file when feed begins, or has thrown.
StartMemory ==
  /\ source = "memory" /\ pc = "start"
  /\ IF ending[1] = "eof" THEN Goto("taken", 1) ELSE Throw
  /\ UNCHANGED <<inputs, read, ahead, reading, lastSeen, best, fed>>

FeedMemory ==
  /\ source = "memory" /\ pc = "taken"
  /\ \/ /\ read[1] < Len(files[1])
        /\ read' = [read EXCEPT ![1] = @ + 1]
        /\ ahead' = [ahead EXCEPT ![1] = files[1][read[1] + 1]]
        /\ Goto("open", 1)
     \/ read[1] = Len(files[1]) /\ Goto("last", 1) /\ UNCHANGED <<read, ahead>>
  /\ UNCHANGED <<inputs, reading, lastSeen, best, fed>>

-----------------------------------------------------------------------------
(* The market (MarketDataStorServ, tickerServer): updateMkt of the adapters *)
(* opens a bar and aggregates it, or gives a tick.                         *)

FromThePast_NotStrict(t, ts) == lastSeen[t] > ts + 1
FromThePast(t, ts) == IF t \in BarTickers THEN lastSeen[t] >= ts ELSE lastSeen[t] > ts

\* newBarOpen and newTick; data from the past end the program.
Open ==
  /\ pc = "open"
  /\ \/ /\ FromThePast(at, ahead[at])
        /\ Goto("terminated", at) /\ UNCHANGED <<lastSeen, best, fed>>
     \/ /\ ~FromThePast(at, ahead[at])
        /\ lastSeen' = [lastSeen EXCEPT ![at] = ahead[at]]
        /\ best' = [best EXCEPT ![at] = Quote(ahead[at], read[at])]
        /\ fed' = Append(fed, [t |-> at, ts |-> ahead[at], row |-> read[at]])
        /\ Goto(IF at \in BarTickers THEN "aggregate" ELSE "taken", at)
  /\ UNCHANGED <<inputs, read, ahead, reading>>

\* newBarAggregate: the last quote is the close of the bar, one tick later.
Aggregate ==
  /\ pc = "aggregate"
  /\ lastSeen' = [lastSeen EXCEPT ![at] = ahead[at] + 1]
  /\ best' = [best EXCEPT ![at] = Quote(ahead[at] + 1, read[at])]
  /\ Goto("taken", at)
  /\ UNCHANGED <<inputs, read, ahead, reading, fed>>

\* The time of the last notification.  Without a record processFile adds a year to
\* the empty timestamp, whose high bit makes it later than any other, as Never is.
LastTime ==
  IF source = "multi" THEN Never
  ELSE IF ahead[1] = Never THEN Never ELSE ahead[1] + Year

\* notifyDateTime, for every ticker in its turn.
Notify ==
  /\ pc = "last"
  /\ IF at < count THEN Goto("last", at + 1) ELSE Goto("done", at)
  /\ UNCHANGED <<inputs, read, ahead, reading, lastSeen, best, fed>>

Ended == pc \in {"done", "failed", "terminated"}

FeederNext ==
  \/ OpenFile \/ Select \/ Replace
  \/ StartSingle \/ ReadSingle \/ StartMemory \/ FeedMemory
  \/ Open \/ Aggregate \/ Notify
=============================================================================
