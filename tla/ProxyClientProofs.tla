-------------------------- MODULE ProxyClientProofs -------------------------
(***************************************************************************)
(* For any number of packets and endpoints, any timeouts, with one thread  *)
(* and with two: the packets of the client leave in their order, each once *)
(* and one at a time; and, below, its deadlines and what it reports of its *)
(* connection.                                                             *)
(***************************************************************************)
EXTENDS ProxyClient, SequenceTheorems, TLAPS

-----------------------------------------------------------------------------
(* The invariant.                                                          *)

WriteOps == [kind: Nat, res: {"pending", "ok", "error"}, age: Int]

Steps == {"connect", "connected", "not_connected", "hnd", "quik_state",
          "read_header", "read_body", "deliver", "send_packet", "written",
          "not_written", "check_read", "check_write", "check_heartbeat",
          "reset_heartbeat", "wait_heartbeat", "stop", "shut", "join", "done"}

\* Steps with which a handler begins, and which nothing else leads to.
Firsts == {"written", "not_written", "send_packet"}
Quiet(steps) == \A i \in 1 .. Len(steps) : steps[i] \notin Firsts

TypesOK ==
  /\ sock \in {"closed", "opening", "up"}
  /\ m_stopped \in BOOLEAN /\ m_bWriteInProgress \in BOOLEAN
  /\ given \in Nat /\ posts \in Seq(Nat \ {0}) /\ wire \in Seq(Nat)
  /\ m_writeQueue \in Seq(Nat)
  /\ writes \in Seq(WriteOps) /\ Len(writes) <= 1
  /\ prog \in [Threads -> Seq(Steps)]

\* How many packets have entered the queue so far.
Entered == given - Len(posts)

\* Packets stand in line by their numbers; a heartbeat is at the front or nowhere.
LineOK ==
  /\ \A i \in 1 .. Len(posts) : posts[i] = Entered + i
  /\ \A i \in 1 .. Len(m_writeQueue) :
       /\ m_writeQueue[i] # Heartbeat =>
            m_writeQueue[i] = Entered - Len(m_writeQueue) + i
       /\ i > 1 => m_writeQueue[i] # Heartbeat

\* The write that is outstanding is that of the front; while it may still put
\* something on the wire, that is the next packet, and the client runs.
WriteOK ==
  writes # <<>> =>
    /\ m_bWriteInProgress
    /\ m_writeQueue # <<>> /\ writes[1].kind = m_writeQueue[1]
    /\ writes[1].res = "pending" =>
         /\ ~m_stopped
         /\ writes[1].kind # Heartbeat => writes[1].kind = Len(wire) + 1

WorkerAt(step) == prog["worker"] # <<>> /\ prog["worker"][1] = step

HandlersOK ==
  /\ \A i \in 1 .. Len(prog["worker"]) : i > 1 => prog["worker"][i] \notin Firsts
  /\ WorkerAt("send_packet") => m_writeQueue # <<>>
  /\ WorkerAt("written") \/ WorkerAt("not_written") =>
       writes = <<>> /\ m_writeQueue # <<>>

\* The client is stopping: no write will be started any more.
Ending ==
  m_stopped \/ WorkerAt("not_written") \/ WorkerAt("stop") \/ WorkerAt("shut")

\* Whether the front of the queue is a packet that has left, but is still there.
FrontHasLeft ==
  /\ m_writeQueue # <<>> /\ m_writeQueue[1] # Heartbeat
  /\ (writes # <<>> /\ writes[1].res = "ok") \/ WorkerAt("written")

Waiting ==
  Len(m_writeQueue)
  - (IF m_writeQueue # <<>> /\ m_writeQueue[1] = Heartbeat THEN 1 ELSE 0)
  - (IF FrontHasLeft THEN 1 ELSE 0)

\* What has left and what waits is what has entered.
CountOK == ~Ending => Len(wire) + Waiting = Entered

LinesInv == TypesOK /\ LineOK /\ WriteOK /\ HandlersOK /\ CountOK

\* An answer to a read is one to the header or the body of a packet.
ReadOps == [kind: {"none", "header", "body"},
            res: {"none", "pending", "ok", "heartbeat", "error"}, age: Int]
ReadOK == read \in ReadOps /\ (read.res # "none" => read.kind # "none")

Inv == LinesInv /\ ReadOK

-----------------------------------------------------------------------------
(* Programs of steps.                                                      *)

\* The worker leaves a step for others, none of which begins a handler.
LEMMA Goes ==
  ASSUME TypesOK, HandlersOK, prog["worker"] # <<>>,
         NEW steps \in Seq(Steps), Quiet(steps), Goto("worker", steps)
  PROVE  /\ prog' \in [Threads -> Seq(Steps)]
         /\ Quiet(prog'["worker"])
         /\ steps # <<>> => prog'["worker"] # <<>> /\ prog'["worker"][1] = steps[1]
<1> DEFINE old == prog["worker"]
           r == steps \o Tail(old)
<1>1. old \in Seq(Steps)
  BY DEF TypesOK, Threads
<1>2. prog' = [prog EXCEPT !["worker"] = r]
  BY DEF Goto
<1>3. /\ Tail(old) \in Seq(Steps) /\ Len(Tail(old)) = Len(old) - 1
      /\ \A i \in 1 .. Len(Tail(old)) : Tail(old)[i] = old[i + 1]
  BY <1>1, HeadTailProperties
<1>4. /\ r \in Seq(Steps) /\ Len(r) = Len(steps) + Len(Tail(old))
      /\ \A i \in 1 .. Len(steps) + Len(Tail(old)) :
           r[i] = IF i <= Len(steps) THEN steps[i] ELSE Tail(old)[i - Len(steps)]
  BY <1>3, ConcatProperties
<1>5. Len(old) \in Nat /\ Len(steps) \in Nat
  BY <1>1
<1> HIDE DEF r
<1>6. ASSUME NEW i \in 1 .. Len(r) PROVE r[i] \notin Firsts
  <2>1. CASE i <= Len(steps)
    <3>1. r[i] = steps[i] /\ i \in 1 .. Len(steps)
      BY <1>3, <1>4, <1>5, <2>1
    <3> QED  BY <3>1 DEF Quiet
  <2>2. CASE ~(i <= Len(steps))
    <3> DEFINE j == i - Len(steps)
    <3>1. j \in 1 .. Len(Tail(old)) /\ j + 1 \in 1 .. Len(old) /\ j + 1 > 1
      BY <1>3, <1>4, <1>5, <2>2
    <3>2. r[i] = Tail(old)[j] /\ Tail(old)[j] = old[j + 1]
      BY <1>3, <1>4, <2>2, <3>1
    <3> QED  BY <3>1, <3>2 DEF HandlersOK
  <2> QED  BY <2>1, <2>2
<1>7. ASSUME steps # <<>> PROVE r # <<>> /\ r[1] = steps[1]
  <2>1. Len(steps) \in Nat \ {0}
    BY <1>7, EmptySeq
  <2>2. Len(r) # 0 /\ r[1] = steps[1]
    BY <1>3, <1>4, <1>5, <2>1
  <2> QED  BY <2>2, EmptySeq
<1>8. prog' \in [Threads -> Seq(Steps)] /\ prog'["worker"] = r
  BY <1>2, <1>4 DEF TypesOK, Threads
<1> QED  BY <1>6, <1>7, <1>8 DEF Quiet

\* The steps the handlers are made of.
LEMMA Single ==
  ASSUME NEW step \in Steps
  PROVE  /\ <<step>> \in Seq(Steps) /\ <<step>> # <<>> /\ <<step>>[1] = step
         /\ Len(<<step>>) = 1
         /\ step \notin Firsts => Quiet(<<step>>)
<1> DEFINE s == <<step>>
<1>1. s \in Seq(Steps) /\ Len(s) = 1 /\ s[1] = step
  OBVIOUS
<1>2. s # <<>>
  BY <1>1, EmptySeq
<1> HIDE DEF s
<1>3. step \notin Firsts => Quiet(s)
  BY <1>1 DEF Quiet
<1> QED  BY <1>1, <1>2, <1>3 DEF s

LEMMA Nothing == <<>> \in Seq(Steps) /\ Quiet(<<>>)
  BY EmptySeq DEF Quiet

\* At and WorkerAt speak of the same step.
LEMMA Here ==
  ASSUME TypesOK, NEW step
  PROVE  At("worker", step) <=> WorkerAt(step)
<1>1. prog["worker"] \in Seq(Steps)
  BY DEF TypesOK, Threads
<1>2. prog["worker"] # <<>> => Head(prog["worker"]) = prog["worker"][1]
  BY <1>1
<1> QED  BY <1>2 DEF At, WorkerAt

-----------------------------------------------------------------------------
(* Lengths and sequences.                                                  *)

LEMMA MinusZero == \A k \in Nat : k - 0 = k
  OBVIOUS

LEMMA NoSecond == \A n \in {0, 1} : \A k \in 1 .. n : ~(k > 1)
  OBVIOUS

LEMMA HeadIsFirst ==
  ASSUME NEW S, NEW s \in Seq(S), s # <<>>
  PROVE  Head(s) = s[1]
  OBVIOUS

LEMMA Appended ==
  ASSUME NEW S, NEW s \in Seq(S), NEW e \in S
  PROVE  /\ Append(s, e) \in Seq(S) /\ Len(Append(s, e)) = Len(s) + 1
         /\ \A i \in 1 .. Len(s) : Append(s, e)[i] = s[i]
         /\ Append(s, e)[Len(s) + 1] = e
  OBVIOUS

-----------------------------------------------------------------------------
(* Steps that leave the queue and the wire alone.                          *)

\* No write begins or ends; one that waits may fail.
SameWrites ==
  /\ writes' \in Seq(WriteOps) /\ Len(writes') = Len(writes)
  /\ writes # <<>> =>
       /\ writes'[1].kind = writes[1].kind
       /\ \/ writes'[1].res = writes[1].res
          \/ writes[1].res = "pending" /\ writes'[1].res = "error"

LEMMA WritesKept == TypesOK /\ writes' = writes => SameWrites
  BY DEF TypesOK, SameWrites

\* There is one write, or none.
LEMMA OneWrite ==
  ASSUME TypesOK
  PROVE  /\ writes = <<>> => DOMAIN writes = {}
         /\ writes # <<>> => DOMAIN writes = {1} /\ Len(writes) = 1 /\ writes[1] \in WriteOps
<1>1. writes \in Seq(WriteOps) /\ Len(writes) <= 1
  BY DEF TypesOK
<1>2. ASSUME writes # <<>> PROVE Len(writes) = 1
  <2> DEFINE n == Len(writes)
  <2>1. n \in Nat \ {0} /\ n <= 1
    BY <1>1, <1>2, EmptySeq
  <2> HIDE DEF n
  <2>2. n = 1
    BY <2>1
  <2> QED  BY <2>2 DEF n
<1>3. DOMAIN writes = 1 .. Len(writes)
  BY <1>1
<1>4. writes # <<>> => DOMAIN writes = {1} /\ writes[1] \in WriteOps
  BY <1>1, <1>2, <1>3, ElementOfSeq
<1> QED  BY <1>2, <1>4, EmptySeq

\* close() fails what waits, and nothing waits then.
LEMMA Aborted ==
  ASSUME TypesOK, writes' = [i \in DOMAIN writes |-> Abort(writes[i])]
  PROVE  SameWrites /\ (writes' # <<>> => writes'[1].res # "pending")
<1>1. \A op \in WriteOps : /\ Abort(op) \in WriteOps /\ Abort(op).kind = op.kind
                           /\ Abort(op).res # "pending"
                           /\ Abort(op).res # op.res => op.res = "pending" /\ Abort(op).res = "error"
  BY DEF Abort, WriteOps
<1>2. writes \in Seq(WriteOps)
  BY DEF TypesOK
<1>3. \A i \in 1 .. Len(writes) : writes[i] \in WriteOps
  BY <1>2, ElementOfSeq
<1>4. writes' = [i \in 1 .. Len(writes) |-> Abort(writes[i])] /\ Len(writes) \in Nat
  BY <1>2
<1>5. writes' \in Seq(WriteOps) /\ Len(writes') = Len(writes)
  BY <1>1, <1>3, <1>4
<1>6. writes # <<>> => writes'[1] = Abort(writes[1]) /\ writes[1] \in WriteOps
  BY <1>4, OneWrite
<1>7. writes' # <<>> => writes # <<>>
  BY <1>2, <1>5, EmptySeq
<1> QED  BY <1>1, <1>5, <1>6, <1>7 DEF SameWrites

\* Time changes nothing but the age.
LEMMA Aged ==
  ASSUME TypesOK, writes' = [i \in DOMAIN writes |-> Older(writes[i], WriteTimeout)]
  PROVE  SameWrites
<1>1. \A op \in WriteOps : /\ Older(op, WriteTimeout) \in WriteOps
                           /\ Older(op, WriteTimeout).kind = op.kind
                           /\ Older(op, WriteTimeout).res = op.res
  BY DEF Older, WriteOps
<1>2. writes \in Seq(WriteOps)
  BY DEF TypesOK
<1>3. \A i \in 1 .. Len(writes) : writes[i] \in WriteOps
  BY <1>2, ElementOfSeq
<1>4. /\ writes' = [i \in 1 .. Len(writes) |-> Older(writes[i], WriteTimeout)]
      /\ Len(writes) \in Nat
  BY <1>2
<1>5. writes' \in Seq(WriteOps) /\ Len(writes') = Len(writes)
  BY <1>1, <1>3, <1>4
<1>6. writes # <<>> => writes'[1] = Older(writes[1], WriteTimeout) /\ writes[1] \in WriteOps
  BY <1>4, OneWrite
<1> QED  BY <1>1, <1>5, <1>6 DEF SameWrites

\* The invariant does not notice a step that starts no write and begins no handler.
LEMMA Rests ==
  ASSUME LinesInv, SameWrites, UNCHANGED <<out, posts, given, wire>>,
         sock' \in {"closed", "opening", "up"}, m_stopped' \in BOOLEAN,
         m_stopped => m_stopped',
         m_stopped' /\ ~m_stopped /\ writes' # <<>> => writes'[1].res # "pending",
         prog' \in [Threads -> Seq(Steps)],
         \/ prog'["worker"] = prog["worker"]
         \/ Quiet(prog'["worker"]) /\ ~WorkerAt("written") /\ (Ending => Ending')
  PROVE  LinesInv'
<1>1. /\ m_writeQueue' = m_writeQueue /\ m_bWriteInProgress' = m_bWriteInProgress
      /\ posts' = posts /\ given' = given /\ wire' = wire
  BY DEF out
<1>2. writes' # <<>> <=> writes # <<>>
  <2>1. writes \in Seq(WriteOps) /\ writes' \in Seq(WriteOps) /\ Len(writes') = Len(writes)
    BY DEF LinesInv, TypesOK, SameWrites
  <2>2. \A w \in Seq(WriteOps) : w # <<>> <=> Len(w) # 0
    BY EmptySeq
  <2> QED  BY <2>1, <2>2
<1>3. TypesOK'
  BY <1>1 DEF LinesInv, TypesOK, SameWrites
<1>4. LineOK'
  BY <1>1 DEF LinesInv, LineOK, Entered
<1>5. WriteOK'
  <2>1. ASSUME writes' # <<>>
        PROVE  /\ m_bWriteInProgress /\ m_writeQueue # <<>>
               /\ writes'[1].kind = m_writeQueue[1]
    BY <1>2, <2>1 DEF LinesInv, WriteOK, SameWrites
  <2>2. ASSUME writes' # <<>>, writes'[1].res = "pending"
        PROVE  /\ ~m_stopped'
               /\ writes'[1].kind # Heartbeat => writes'[1].kind = Len(wire) + 1
    <3>1. writes # <<>> /\ writes[1].res = "pending" /\ writes'[1].kind = writes[1].kind
      BY <1>2, <2>2 DEF SameWrites
    <3>2. ~m_stopped
      BY <3>1 DEF LinesInv, WriteOK
    <3> QED  BY <2>2, <3>1, <3>2 DEF LinesInv, WriteOK, TypesOK
  <2> QED  BY <1>1, <2>1, <2>2 DEF WriteOK
<1>6. Quiet(prog'["worker"]) =>
        \A step \in Firsts : ~WorkerAt(step)'
  <2>1. prog'["worker"] \in Seq(Steps)
    BY DEF Threads
  <2>2. prog'["worker"] # <<>> => 1 \in 1 .. Len(prog'["worker"])
    BY <2>1, EmptySeq
  <2> QED  BY <2>2 DEF Quiet, WorkerAt
<1>7. HandlersOK'
  <2>1. CASE prog'["worker"] = prog["worker"]
    BY <1>1, <1>2, <2>1 DEF LinesInv, HandlersOK, WorkerAt
  <2>2. CASE Quiet(prog'["worker"])
    BY <1>6, <2>2 DEF HandlersOK, Quiet, Firsts
  <2> QED  BY <2>1, <2>2
<1>8. FrontHasLeft' <=> FrontHasLeft
  <2>1. writes' # <<>> => (writes'[1].res = "ok" <=> writes[1].res = "ok")
    BY <1>2 DEF SameWrites
  <2>2. WorkerAt("written")' <=> WorkerAt("written")
    <3>1. CASE prog'["worker"] = prog["worker"]
      BY <3>1 DEF WorkerAt
    <3>2. CASE Quiet(prog'["worker"]) /\ ~WorkerAt("written")
      BY <1>6, <3>2 DEF Firsts
    <3> QED  BY <3>1, <3>2
  <2> QED  BY <1>1, <1>2, <2>1, <2>2 DEF FrontHasLeft
<1>9. Ending => Ending'
  <2>1. CASE prog'["worker"] = prog["worker"]
    BY <2>1 DEF Ending, WorkerAt
  <2> QED  BY <2>1
<1>10. CountOK'
  BY <1>1, <1>8, <1>9 DEF LinesInv, CountOK, Waiting, Entered
<1> QED  BY <1>3, <1>4, <1>5, <1>7, <1>10 DEF LinesInv

-----------------------------------------------------------------------------
(* The worker's steps and handlers that leave the queue and the wire alone. *)

LEMMA Unchanged_ ==
  ASSUME LinesInv, SameWrites, UNCHANGED <<out, posts, given, wire, m_stopped>>,
         sock' \in {"closed", "opening", "up"},
         prog' \in [Threads -> Seq(Steps)], prog'["worker"] = prog["worker"]
  PROVE  LinesInv'
  BY Rests DEF LinesInv, TypesOK

\* A step of the worker, when the client does not stop with it.
LEMMA WorkerStep ==
  ASSUME LinesInv, SameWrites, UNCHANGED <<out, posts, given, wire, m_stopped>>,
         sock' \in {"closed", "opening", "up"},
         NEW step, At("worker", step),
         step \notin {"written", "not_written", "stop", "shut"},
         NEW steps \in Seq(Steps), Quiet(steps), Goto("worker", steps)
  PROVE  LinesInv'
<1>1. prog["worker"] # <<>>
  BY DEF At
<1>2. prog' \in [Threads -> Seq(Steps)] /\ Quiet(prog'["worker"])
  BY <1>1, Goes DEF LinesInv
<1>3. WorkerAt(step)
  BY Here DEF LinesInv
<1>4. /\ ~WorkerAt("written") /\ ~WorkerAt("not_written")
      /\ ~WorkerAt("stop") /\ ~WorkerAt("shut")
  BY <1>3 DEF WorkerAt
<1>5. Ending => Ending'
  BY <1>4 DEF Ending
<1>6. m_stopped \in BOOLEAN
  BY DEF LinesInv, TypesOK
<1>7. UNCHANGED <<out, posts, given, wire>> /\ m_stopped' = m_stopped
  OBVIOUS
<1>8. (m_stopped => m_stopped') /\ (m_stopped' => m_stopped)
  BY <1>6
<1>9. m_stopped' \in BOOLEAN
  BY <1>6
<1> QED  BY <1>2, <1>4, <1>5, <1>7, <1>8, <1>9, Rests

\* The event loop runs a handler that neither writes nor has written.
LEMMA HandlerStep ==
  ASSUME LinesInv, SameWrites, UNCHANGED <<out, posts, given, wire, m_stopped>>,
         sock' = sock, prog["worker"] = <<>>,
         NEW steps \in Seq(Steps), Quiet(steps), prog' = [prog EXCEPT !["worker"] = steps]
  PROVE  LinesInv'
<1>1. prog' \in [Threads -> Seq(Steps)] /\ prog'["worker"] = steps
  BY DEF LinesInv, TypesOK, Threads
<1>2. ~WorkerAt("written") /\ (Ending => Ending')
  BY DEF WorkerAt, Ending
<1>3. m_stopped' = m_stopped /\ m_stopped \in BOOLEAN /\ sock' \in {"closed", "opening", "up"}
  BY DEF LinesInv, TypesOK
<1> QED  BY <1>1, <1>2, <1>3, Rests

\* Programs of several steps.
LEMMA Programs ==
  LET P == { <<>>, <<"stop">>, <<"connect">>, <<"connected">>, <<"not_connected">>,
             <<"shut">>, <<"reset_heartbeat">>, <<"check_read">>, <<"check_write">>,
             <<"wait_heartbeat">>, <<"quik_state", "read_header">>,
             <<"quik_state", "read_body">>, <<"deliver", "read_header">>,
             <<"check_heartbeat", "wait_heartbeat">>,
             <<"hnd", "read_header", "reset_heartbeat", "wait_heartbeat">> }
  IN \A p \in P : p \in Seq(Steps) /\ Quiet(p)
<1>1. ASSUME NEW a \in Steps \ Firsts
      PROVE  <<a>> \in Seq(Steps) /\ Quiet(<<a>>)
  BY Single
<1>2. ASSUME NEW a \in Steps \ Firsts, NEW b \in Steps \ Firsts
      PROVE  <<a, b>> \in Seq(Steps) /\ Quiet(<<a, b>>)
  <2> DEFINE s == <<a, b>>
  <2>1. s \in Seq(Steps) /\ Len(s) = 2 /\ s[1] = a /\ s[2] = b
    OBVIOUS
  <2> HIDE DEF s
  <2>2. Quiet(s)
    BY <2>1 DEF Quiet
  <2> QED  BY <2>1, <2>2 DEF s
<1>3. LET s == <<"hnd", "read_header", "reset_heartbeat", "wait_heartbeat">>
      IN s \in Seq(Steps) /\ Quiet(s)
  <2> DEFINE s == <<"hnd", "read_header", "reset_heartbeat", "wait_heartbeat">>
  <2>1. /\ s \in Seq(Steps) /\ Len(s) = 4 /\ s[1] = "hnd" /\ s[2] = "read_header"
        /\ s[3] = "reset_heartbeat" /\ s[4] = "wait_heartbeat"
    BY DEF Steps
  <2> HIDE DEF s
  <2>2. \A i \in 1 .. 4 : i = 1 \/ i = 2 \/ i = 3 \/ i = 4
    OBVIOUS
  <2>3. \A i \in 1 .. Len(s) :
          s[i] \in {"hnd", "read_header", "reset_heartbeat", "wait_heartbeat"}
    BY <2>1, <2>2
  <2>4. Quiet(s)
    BY <2>3 DEF Quiet, Firsts
  <2> QED  BY <2>1, <2>4 DEF s
<1>4. /\ {"stop", "connect", "connected", "not_connected", "shut", "reset_heartbeat",
          "check_read", "check_write", "wait_heartbeat", "quik_state", "read_header",
          "read_body", "deliver", "check_heartbeat"} \subseteq Steps \ Firsts
  BY DEF Steps, Firsts
<1>5. /\ <<>> \in Seq(Steps) /\ Quiet(<<>>)
      /\ <<"stop">> \in Seq(Steps) /\ Quiet(<<"stop">>)
      /\ <<"connect">> \in Seq(Steps) /\ Quiet(<<"connect">>)
      /\ <<"connected">> \in Seq(Steps) /\ Quiet(<<"connected">>)
      /\ <<"not_connected">> \in Seq(Steps) /\ Quiet(<<"not_connected">>)
      /\ <<"shut">> \in Seq(Steps) /\ Quiet(<<"shut">>)
  BY <1>1, <1>4, Nothing
<1>6. /\ <<"reset_heartbeat">> \in Seq(Steps) /\ Quiet(<<"reset_heartbeat">>)
      /\ <<"check_read">> \in Seq(Steps) /\ Quiet(<<"check_read">>)
      /\ <<"check_write">> \in Seq(Steps) /\ Quiet(<<"check_write">>)
      /\ <<"wait_heartbeat">> \in Seq(Steps) /\ Quiet(<<"wait_heartbeat">>)
  BY <1>1, <1>4
<1>7. LET Pairs == { <<"quik_state", "read_header">>, <<"quik_state", "read_body">>,
                     <<"deliver", "read_header">>, <<"check_heartbeat", "wait_heartbeat">> }
      IN \A p \in Pairs : p \in Seq(Steps) /\ Quiet(p)
  <2>1. {"read_header", "read_body"} \subseteq Steps \ Firsts
    BY DEF Steps, Firsts
  <2> QED  BY <1>2, <1>4, <2>1
<1> QED  BY <1>3, <1>5, <1>6, <1>7, Zenon

-----------------------------------------------------------------------------
(* The queue.                                                              *)

\* What Quiet programs are not at.
LEMMA QuietNext ==
  ASSUME prog' \in [Threads -> Seq(Steps)], Quiet(prog'["worker"])
  PROVE  /\ ~WorkerAt("written")' /\ ~WorkerAt("not_written")'
         /\ ~WorkerAt("send_packet")'
         /\ \A i \in 1 .. Len(prog'["worker"]) : prog'["worker"][i] \notin Firsts
<1>1. prog'["worker"] \in Seq(Steps)
  BY DEF Threads
<1>2. prog'["worker"] # <<>> => 1 \in 1 .. Len(prog'["worker"])
  BY <1>1, EmptySeq
<1> QED  BY <1>2 DEF Quiet, WorkerAt, Firsts

\* A write begins, or there is a reason why not.
LEMMA Starts ==
  ASSUME TypesOK, NEW q \in Seq(Nat), q # <<>>, NEW busy \in BOOLEAN, NEW s,
         _write_request(q, busy, s), ~busy => writes = <<>>
  PROVE  /\ m_writeQueue' = q /\ m_bWriteInProgress' \in BOOLEAN
         /\ busy => m_bWriteInProgress'
         /\ \/ writes' = writes
            \/ /\ ~m_stopped /\ ~busy /\ m_bWriteInProgress' = TRUE
               /\ writes' \in Seq(WriteOps) /\ Len(writes') = 1 /\ writes' # <<>>
               /\ writes'[1].kind = q[1] /\ writes'[1].res \in {"pending", "error"}
<1>1. m_writeQueue' = q /\ m_bWriteInProgress' = (busy \/ ~m_stopped)
  BY DEF _write_request
<1>2. m_bWriteInProgress' \in BOOLEAN /\ (busy => m_bWriteInProgress')
  BY <1>1 DEF TypesOK
<1>3. CASE busy \/ m_stopped
  BY <1>1, <1>2, <1>3 DEF _write_request
<1>4. CASE ~(busy \/ m_stopped)
  <2>1. PICK r \in Started : writes' = Append(writes, Op(Head(q), r))
    BY <1>4 DEF _write_request
  <2>2. r \in {"pending", "error"}
    BY DEF TypesOK, Started
  <2>3. q[1] \in Nat /\ Head(q) = q[1]
    BY HeadTailProperties
  <2> DEFINE op == Op(Head(q), r)
  <2>4. op \in WriteOps /\ op.kind = q[1] /\ op.res = r
    BY <2>2, <2>3 DEF Op, WriteOps
  <2> HIDE DEF op
  <2>5. writes' = Append(<<>>, op)
    BY <1>4, <2>1 DEF op
  <2>6. Append(<<>>, op) = <<op>>
    OBVIOUS
  <2>7. <<op>> \in Seq(WriteOps) /\ Len(<<op>>) = 1 /\ <<op>>[1] = op /\ <<op>> # <<>>
    BY <2>4
  <2>8. m_bWriteInProgress' = TRUE
    BY <1>1, <1>4 DEF TypesOK
  <2> QED  BY <1>1, <1>4, <2>2, <2>4, <2>5, <2>6, <2>7, <2>8
<1> QED  BY <1>3, <1>4

\* How many packets of a queue with the front q1 have not left.
Rest_(n, front, left) == n - (IF front = Heartbeat \/ left THEN 1 ELSE 0)

\* The queue is q from now on, and its front is written unless a write is in progress.
LEMMA QueueStep ==
  ASSUME LinesInv, UNCHANGED <<posts, given, wire, m_stopped, sock>>,
         NEW q \in Seq(Nat), q # <<>>, NEW busy \in BOOLEAN, NEW s,
         _write_request(q, busy, s), ~busy => writes = <<>>,
         writes # <<>> => q[1] = m_writeQueue[1],
         prog' \in [Threads -> Seq(Steps)], Quiet(prog'["worker"]),
         \A i \in 1 .. Len(q) : /\ q[i] # Heartbeat => q[i] = Entered - Len(q) + i
                                /\ i > 1 => q[i] # Heartbeat,
         busy => m_bWriteInProgress,
         ~m_stopped =>
           Len(wire) + Rest_(Len(q), q[1], writes # <<>> /\ writes[1].res = "ok") = Entered
  PROVE  LinesInv'
<1>1. /\ posts' = posts /\ given' = given /\ wire' = wire /\ m_stopped' = m_stopped
      /\ sock' = sock /\ Entered' = Entered
  BY DEF Entered
<1>2. TypesOK /\ WriteOK
  BY DEF LinesInv
<1>3. /\ m_writeQueue' = q /\ m_bWriteInProgress' \in BOOLEAN
      /\ busy => m_bWriteInProgress'
      /\ \/ writes' = writes
         \/ /\ ~m_stopped /\ ~busy /\ m_bWriteInProgress' = TRUE
            /\ writes' \in Seq(WriteOps) /\ Len(writes') = 1 /\ writes' # <<>>
            /\ writes'[1].kind = q[1] /\ writes'[1].res \in {"pending", "error"}
  BY <1>2, Starts
<1>4. Len(q) \in Nat \ {0} /\ q[1] \in Nat
  BY EmptySeq, HeadTailProperties
<1>5. /\ ~WorkerAt("written")' /\ ~WorkerAt("not_written")' /\ ~WorkerAt("send_packet")'
      /\ \A i \in 1 .. Len(prog'["worker"]) : prog'["worker"][i] \notin Firsts
  BY QuietNext
<1>6. LineOK'
  BY <1>1, <1>3 DEF LineOK, LinesInv
<1>7. HandlersOK'
  BY <1>5 DEF HandlersOK
<1>8. CASE writes' = writes
  <2>1. TypesOK'
    BY <1>1, <1>2, <1>3, <1>8 DEF TypesOK
  <2>2. WriteOK'
    <3>1. ASSUME writes # <<>> PROVE busy
      BY <3>1
    <3>2. writes # <<>> => writes[1].kind = m_writeQueue[1] /\ q[1] = m_writeQueue[1]
      BY <1>2 DEF WriteOK
    <3> QED  BY <1>1, <1>2, <1>3, <1>8, <3>1, <3>2 DEF WriteOK
  <2>3. CountOK'
    <3>1. FrontHasLeft' <=> q[1] # Heartbeat /\ writes # <<>> /\ writes[1].res = "ok"
      BY <1>3, <1>5, <1>8 DEF FrontHasLeft
    <3> DEFINE left == writes # <<>> /\ writes[1].res = "ok"
    <3>2. Waiting' = Rest_(Len(q), q[1], left)
      <4>1. Waiting' = Len(q) - (IF q[1] = Heartbeat THEN 1 ELSE 0)
                              - (IF FrontHasLeft' THEN 1 ELSE 0)
        BY <1>3 DEF Waiting
      <4>2. FrontHasLeft' <=> q[1] # Heartbeat /\ left
        BY <3>1
      <4> HIDE DEF left
      <4>3. CASE q[1] = Heartbeat
        BY <1>4, <4>1, <4>2, <4>3 DEF Rest_
      <4>4. CASE q[1] # Heartbeat /\ left
        BY <1>4, <4>1, <4>2, <4>4 DEF Rest_
      <4>5. CASE q[1] # Heartbeat /\ ~left
        BY <1>4, <4>1, <4>2, <4>5 DEF Rest_
      <4> QED  BY <4>3, <4>4, <4>5
    <3>3. ASSUME ~Ending' PROVE ~m_stopped
      <4>1. ~m_stopped'
        BY <3>3 DEF Ending
      <4>2. m_stopped \in BOOLEAN /\ m_stopped' = m_stopped
        BY <1>1, <1>2 DEF TypesOK
      <4> QED  BY <4>1, <4>2
    <3>4. ~m_stopped => Len(wire) + Rest_(Len(q), q[1], left) = Entered
      OBVIOUS
    <3> HIDE DEF left
    <3> QED  BY <1>1, <3>2, <3>3, <3>4 DEF CountOK
  <2> QED  BY <1>6, <1>7, <2>1, <2>2, <2>3 DEF LinesInv
<1>9. CASE writes' # writes
  <2>1. /\ ~m_stopped /\ m_bWriteInProgress' = TRUE /\ writes = <<>>
        /\ writes' \in Seq(WriteOps) /\ Len(writes') = 1
        /\ writes'[1].kind = q[1] /\ writes'[1].res \in {"pending", "error"}
    BY <1>3, <1>9
  <2>2. TypesOK'
    BY <1>1, <1>2, <1>3, <2>1 DEF TypesOK
  <2>3. Len(wire) + Rest_(Len(q), q[1], FALSE) = Entered
    BY <2>1
  <2>4. Len(wire) \in Nat /\ Entered \in Int /\ 1 \in 1 .. Len(q)
    BY <1>2, <1>4 DEF TypesOK, Entered
  <2>5. q[1] # Heartbeat => q[1] = Len(wire) + 1
    BY <1>4, <2>3, <2>4 DEF Rest_
  <2>6. WriteOK'
    BY <1>1, <1>3, <2>1, <2>5 DEF WriteOK
  <2>7. CountOK'
    <3>1. ~FrontHasLeft'
      BY <1>5, <2>1 DEF FrontHasLeft
    <3>2. Waiting' = Rest_(Len(q), q[1], FALSE)
      BY <1>3, <1>4, <3>1 DEF Waiting, Rest_
    <3> QED  BY <1>1, <2>3, <3>2 DEF CountOK
  <2> QED  BY <1>6, <1>7, <2>2, <2>6, <2>7 DEF LinesInv
<1> QED  BY <1>8, <1>9

LEMMA SendPacketStep == ASSUME LinesInv, SendPacket PROVE LinesInv'
<1> DEFINE q == m_writeQueue
<1>1. TypesOK /\ LineOK /\ WriteOK /\ HandlersOK /\ CountOK
  BY DEF LinesInv
<1>2. WorkerAt("send_packet")
  BY <1>1, Here DEF SendPacket
<1>3. q \in Seq(Nat) /\ q # <<>> /\ m_bWriteInProgress \in BOOLEAN
  BY <1>1, <1>2 DEF TypesOK, HandlersOK
<1>4. prog["worker"] # <<>> /\ Goto("worker", <<>>)
  BY <1>2 DEF SendPacket, Return, WorkerAt
<1>5. prog' \in [Threads -> Seq(Steps)] /\ Quiet(prog'["worker"])
  BY <1>1, <1>4, Nothing, Goes
<1>6. ASSUME ~m_bWriteInProgress PROVE writes = <<>>
  BY <1>1, <1>6 DEF WriteOK
<1>7. ASSUME ~m_stopped
      PROVE  Len(wire) + Rest_(Len(q), q[1], writes # <<>> /\ writes[1].res = "ok") = Entered
  <2> DEFINE left == writes # <<>> /\ writes[1].res = "ok"
  <2>1. ~Ending /\ ~WorkerAt("written")
    BY <1>2, <1>7 DEF Ending, WorkerAt
  <2>2. FrontHasLeft <=> q[1] # Heartbeat /\ left
    BY <1>3, <2>1 DEF FrontHasLeft
  <2>3. Waiting = Len(q) - (IF q[1] = Heartbeat THEN 1 ELSE 0)
                         - (IF FrontHasLeft THEN 1 ELSE 0)
    BY <1>3 DEF Waiting
  <2>4. Len(wire) + Waiting = Entered
    BY <1>1, <2>1 DEF CountOK
  <2>5. Len(q) \in Nat
    BY <1>3
  <2> HIDE DEF left, q
  <2>6. Waiting = Rest_(Len(q), q[1], left)
    <3>1. CASE q[1] = Heartbeat
      BY <2>2, <2>3, <2>5, <3>1 DEF Rest_
    <3>2. CASE q[1] # Heartbeat /\ left
      BY <2>2, <2>3, <2>5, <3>2 DEF Rest_
    <3>3. CASE q[1] # Heartbeat /\ ~left
      BY <2>2, <2>3, <2>5, <3>3 DEF Rest_
    <3> QED  BY <3>1, <3>2, <3>3
  <2> QED  BY <2>4, <2>6 DEF left
<1>8. \A i \in 1 .. Len(q) : /\ q[i] # Heartbeat => q[i] = Entered - Len(q) + i
                             /\ i > 1 => q[i] # Heartbeat
  BY <1>1 DEF LineOK
<1>9. /\ UNCHANGED <<posts, given, wire, m_stopped, sock>>
      /\ _write_request(q, m_bWriteInProgress, tmr)
  BY DEF SendPacket
<1> QED  BY <1>3, <1>5, <1>6, <1>7, <1>8, <1>9, QueueStep

LEMMA WrittenStep == ASSUME LinesInv, Written PROVE LinesInv'
<1> DEFINE q == Tail(m_writeQueue)
           n == Len(m_writeQueue)
<1>1. TypesOK /\ LineOK /\ WriteOK /\ HandlersOK /\ CountOK
  BY DEF LinesInv
<1>2. WorkerAt("written") /\ prog["worker"] # <<>>
  BY <1>1, Here DEF Written, At
<1>3. writes = <<>> /\ m_writeQueue # <<>> /\ m_writeQueue \in Seq(Nat)
  BY <1>1, <1>2 DEF TypesOK, HandlersOK
<1>4. /\ q \in Seq(Nat) /\ Len(q) = n - 1 /\ n \in Nat \ {0} /\ Len(q) \in Nat
      /\ \A i \in 1 .. Len(q) : q[i] = m_writeQueue[i + 1]
  BY <1>3, HeadTailProperties, EmptySeq
<1>5. Entered \in Int /\ Len(wire) \in Nat
  BY <1>1 DEF TypesOK, Entered
<1>6. ASSUME NEW i \in 1 .. Len(q)
      PROVE  q[i] # Heartbeat /\ q[i] = Entered - Len(q) + i
  <2>1. i + 1 \in 1 .. n /\ i + 1 > 1 /\ q[i] = m_writeQueue[i + 1]
    BY <1>4
  <2>2. q[i] # Heartbeat /\ q[i] = Entered - n + (i + 1)
    BY <1>1, <2>1 DEF LineOK
  <2> QED  BY <1>4, <1>5, <2>2
<1>7. ASSUME ~m_stopped PROVE Len(wire) + Len(q) = Entered
  <2>1. ~Ending
    BY <1>2, <1>7 DEF Ending, WorkerAt
  <2>2. FrontHasLeft <=> m_writeQueue[1] # Heartbeat
    BY <1>2, <1>3 DEF FrontHasLeft
  <2>3. Waiting = n - (IF m_writeQueue[1] = Heartbeat THEN 1 ELSE 0)
                    - (IF m_writeQueue[1] # Heartbeat THEN 1 ELSE 0)
    BY <1>3, <2>2 DEF Waiting
  <2>4. Waiting = n - 1
    <3> HIDE DEF n
    <3>1. CASE m_writeQueue[1] = Heartbeat
      BY <1>4, <2>3, <3>1
    <3>2. CASE m_writeQueue[1] # Heartbeat
      BY <1>4, <2>3, <3>2
    <3> QED  BY <3>1, <3>2
  <2> QED  BY <1>1, <1>4, <2>1, <2>4 DEF CountOK
<1>8. UNCHANGED <<posts, given, wire, m_stopped, sock>>
  BY DEF Written
<1>9. CASE q # <<>>
  <2>1. _write_request(q, FALSE, tmr) /\ Goto("worker", <<>>)
    BY <1>9 DEF Written, Return
  <2>2. prog' \in [Threads -> Seq(Steps)] /\ Quiet(prog'["worker"])
    BY <1>1, <1>2, <2>1, Nothing, Goes
  <2>3. 1 \in 1 .. Len(q)
    BY <1>4, <1>9, EmptySeq
  <2>4. Rest_(Len(q), q[1], FALSE) = Len(q)
    <3>1. q[1] # Heartbeat
      BY <1>6, <2>3
    <3>2. Rest_(Len(q), q[1], FALSE) = Len(q) - 0
      BY <3>1 DEF Rest_
    <3>3. Len(q) - 0 = Len(q)
      BY <1>4, MinusZero
    <3> QED  BY <3>2, <3>3
  <2>5. (writes # <<>> /\ writes[1].res = "ok") = FALSE
    BY <1>3
  <2>6. ~m_stopped =>
          Len(wire) + Rest_(Len(q), q[1], writes # <<>> /\ writes[1].res = "ok") = Entered
    BY <1>7, <2>4, <2>5
  <2>7. /\ \A i \in 1 .. Len(q) : /\ q[i] # Heartbeat => q[i] = Entered - Len(q) + i
                                  /\ i > 1 => q[i] # Heartbeat
        /\ FALSE \in BOOLEAN /\ (~FALSE => writes = <<>>) /\ (FALSE => m_bWriteInProgress)
        /\ writes # <<>> => q[1] = m_writeQueue[1]
    BY <1>3, <1>6
  <2> HIDE DEF q
  <2> QED  BY <1>4, <1>8, <1>9, <2>1, <2>2, <2>6, <2>7, QueueStep
<1>10. CASE q = <<>>
  <2>1. /\ m_writeQueue' = <<>> /\ m_bWriteInProgress' = FALSE /\ writes' = writes
        /\ Goto("worker", <<"reset_heartbeat">>)
    BY <1>10 DEF Written
  <2>2. prog' \in [Threads -> Seq(Steps)] /\ Quiet(prog'["worker"])
    BY <1>1, <1>2, <2>1, Programs, Goes
  <2>3. /\ ~WorkerAt("written")' /\ ~WorkerAt("not_written")' /\ ~WorkerAt("send_packet")'
        /\ \A i \in 1 .. Len(prog'["worker"]) : prog'["worker"][i] \notin Firsts
    BY <2>2, QuietNext
  <2>4. TypesOK'
    BY <1>1, <1>8, <2>1, <2>2, EmptySeq DEF TypesOK
  <2>5. Len(m_writeQueue') = 0 /\ Len(q) = 0
    BY <1>10, <2>1, EmptySeq
  <2>6. LineOK'
    BY <1>1, <1>8, <2>5 DEF LineOK, Entered
  <2>7. WriteOK' /\ HandlersOK'
    BY <1>3, <2>1, <2>3 DEF WriteOK, HandlersOK
  <2>8. CountOK'
    <3>0. ~FrontHasLeft'
      BY <2>1 DEF FrontHasLeft
    <3>1. Waiting' = 0
      <4>1. Waiting' = Len(m_writeQueue') - 0 - 0
        BY <2>1, <3>0 DEF Waiting
      <4> QED  BY <2>5, <4>1
    <3>2. ASSUME ~Ending' PROVE ~m_stopped
      <4>1. ~m_stopped'
        BY <3>2 DEF Ending
      <4>2. m_stopped \in BOOLEAN /\ m_stopped' = m_stopped
        BY <1>1, <1>8 DEF TypesOK
      <4> QED  BY <4>1, <4>2
    <3>3. ASSUME ~m_stopped PROVE Len(wire) = Entered
      <4>1. Len(wire) + Len(q) = Entered
        BY <1>7, <3>3
      <4> HIDE DEF q
      <4> QED  BY <1>5, <2>5, <4>1
    <3>4. Entered' = Entered /\ wire' = wire
      BY <1>8 DEF Entered
    <3> QED  BY <1>5, <3>1, <3>2, <3>3, <3>4 DEF CountOK
  <2> QED  BY <2>4, <2>6, <2>7, <2>8 DEF LinesInv
<1> QED  BY <1>9, <1>10

LEMMA HeartbeatStep == ASSUME LinesInv, _check_heartbeat PROVE LinesInv'
<1>1. TypesOK /\ LineOK /\ WriteOK /\ HandlersOK /\ CountOK
  BY DEF LinesInv
<1>2. At("worker", "check_heartbeat") /\ Goto("worker", <<>>)
  BY DEF _check_heartbeat, Return
<1>3. WorkerAt("check_heartbeat") /\ prog["worker"] # <<>>
  BY <1>1, <1>2, Here DEF At
<1>4. UNCHANGED <<posts, given, wire, m_stopped, sock>>
  BY DEF _check_heartbeat
<1>5. sock' \in {"closed", "opening", "up"}
  BY <1>1, <1>4 DEF TypesOK
<1>6. CASE UNCHANGED <<out, writes>>
  <2>1. SameWrites /\ UNCHANGED <<out, posts, given, wire, m_stopped>>
    BY <1>1, <1>4, <1>6, WritesKept
  <2> QED  BY <1>2, <1>5, <2>1, Nothing, WorkerStep
<1>7. ASSUME m_writeQueue = <<>>, NEW s,
             _write_request(<<Heartbeat>>, m_bWriteInProgress, s)
      PROVE  LinesInv'
  <2> DEFINE q == <<Heartbeat>>
  <2>1. writes = <<>>
    BY <1>1, <1>7 DEF WriteOK
  <2>2. q \in Seq(Nat) /\ Len(q) = 1 /\ q[1] = Heartbeat /\ q # <<>>
    BY DEF Heartbeat
  <2>3. prog' \in [Threads -> Seq(Steps)] /\ Quiet(prog'["worker"])
    BY <1>1, <1>2, <1>3, Nothing, Goes
  <2>4. ASSUME ~m_stopped PROVE Len(wire) = Entered
    <3>1. ~Ending
      BY <1>3, <2>4 DEF Ending, WorkerAt
    <3>2. Waiting = 0
      BY <1>7, EmptySeq DEF Waiting, FrontHasLeft
    <3>3. Len(wire) \in Nat
      BY <1>1 DEF TypesOK
    <3> QED  BY <1>1, <3>1, <3>2, <3>3 DEF CountOK
  <2>5. Rest_(Len(q), q[1], writes # <<>> /\ writes[1].res = "ok") = 0
    BY <2>2 DEF Rest_
  <2>6. Len(wire) \in Nat /\ m_bWriteInProgress \in BOOLEAN
    BY <1>1 DEF TypesOK
  <2>7. ~m_stopped =>
          Len(wire) + Rest_(Len(q), q[1], writes # <<>> /\ writes[1].res = "ok") = Entered
    BY <2>4, <2>5, <2>6
  <2>8. \A i \in 1 .. Len(q) : /\ q[i] # Heartbeat => q[i] = Entered - Len(q) + i
                               /\ i > 1 => q[i] # Heartbeat
    BY <2>2
  <2>9. _write_request(q, m_bWriteInProgress, s)
    BY <1>7
  <2> HIDE DEF q
  <2> QED  BY <1>4, <2>1, <2>2, <2>3, <2>6, <2>7, <2>8, <2>9, QueueStep
<1> QED  BY <1>6, <1>7 DEF _check_heartbeat

-----------------------------------------------------------------------------
(* Handlers and reports that touch the queue or the wire.                  *)

\* The answer to a write: the packet is popped in the next step, or never again sent.
LEMMA RunWriteStep ==
  ASSUME LinesInv, NEW i \in DOMAIN writes, RunWrite(i) PROVE LinesInv'
<1>1. TypesOK /\ LineOK /\ WriteOK /\ HandlersOK /\ CountOK
  BY DEF LinesInv
<1>2. i = 1 /\ writes # <<>> /\ writes \in Seq(WriteOps) /\ Len(writes) = 1
  BY <1>1, OneWrite DEF TypesOK
<1>3. writes' = <<>>
  <2>1. SubSeq(writes, 1, 0) = <<>> /\ SubSeq(writes, 2, 1) = <<>>
    BY SubSeqEmpty
  <2>2. RemoveAt(writes, i) = SubSeq(writes, 1, 0) \o SubSeq(writes, 2, 1)
    BY <1>2 DEF RemoveAt
  <2>3. <<>> \o <<>> = <<>>
    BY EmptySeq, ConcatEmptySeq
  <2> QED  BY <2>1, <2>2, <2>3 DEF RunWrite
<1>4. /\ UNCHANGED <<posts, given, wire, m_stopped, sock>>
      /\ m_writeQueue' = m_writeQueue /\ m_bWriteInProgress' = m_bWriteInProgress
  BY DEF RunWrite, Run, out
<1>5. prog["worker"] = <<>>
  BY DEF RunWrite, Run, CanRun
<1> DEFINE p == IF m_stopped THEN <<>>
                ELSE <<IF writes[1].res = "ok" THEN "written" ELSE "not_written">>
<1>6. prog' = [prog EXCEPT !["worker"] = p]
  BY <1>2 DEF RunWrite, Run
<1>7. /\ p \in Seq(Steps) /\ Len(p) \in {0, 1}
      /\ m_stopped => p = <<>>
      /\ ~m_stopped => p # <<>> /\ p[1] = IF writes[1].res = "ok" THEN "written" ELSE "not_written"
  <2>1. "written" \in Steps /\ "not_written" \in Steps
    BY DEF Steps
  <2>2. CASE m_stopped
    <3>1. p = <<>> /\ Len(<<>>) = 0
      BY <2>2, EmptySeq
    <3> QED  BY <2>2, <3>1, Nothing
  <2>3. CASE ~m_stopped /\ writes[1].res = "ok"
    <3>1. p = <<"written">>
      BY <2>3
    <3>2. /\ <<"written">> \in Seq(Steps) /\ <<"written">> # <<>>
          /\ <<"written">>[1] = "written" /\ Len(<<"written">>) = 1
      BY <2>1, Single
    <3> HIDE DEF p
    <3> QED  BY <2>3, <3>1, <3>2
  <2>4. CASE ~m_stopped /\ writes[1].res # "ok"
    <3>1. p = <<"not_written">>
      BY <2>4
    <3>2. /\ <<"not_written">> \in Seq(Steps) /\ <<"not_written">> # <<>>
          /\ <<"not_written">>[1] = "not_written" /\ Len(<<"not_written">>) = 1
      BY <2>1, Single
    <3> HIDE DEF p
    <3> QED  BY <2>4, <3>1, <3>2
  <2> QED  BY <2>2, <2>3, <2>4
<1>8. prog' \in [Threads -> Seq(Steps)] /\ prog'["worker"] = p
  BY <1>1, <1>6, <1>7 DEF TypesOK, Threads
<1> HIDE DEF p
<1>9. TypesOK'
  BY <1>1, <1>3, <1>4, <1>8, EmptySeq DEF TypesOK
<1>10. LineOK'
  BY <1>1, <1>4 DEF LineOK, Entered
<1>11. WriteOK'
  BY <1>3 DEF WriteOK
<1>12. m_writeQueue # <<>>
  BY <1>1, <1>2 DEF WriteOK
<1>13. HandlersOK'
  <2>1. ~WorkerAt("send_packet")'
    BY <1>7, <1>8 DEF WorkerAt
  <2>2. \A k \in 1 .. Len(p) : ~(k > 1)
    BY <1>7, NoSecond
  <2> QED  BY <1>3, <1>4, <1>8, <1>12, <2>1, <2>2 DEF HandlersOK
<1>14. CountOK'
  <2>1. ASSUME ~Ending'
        PROVE  ~m_stopped /\ writes[1].res = "ok" /\ WorkerAt("written")'
    <3>1. ~m_stopped'
      BY <2>1 DEF Ending
    <3>2. m_stopped \in BOOLEAN /\ m_stopped' = m_stopped
      BY <1>1, <1>4 DEF TypesOK
    <3>3. ~m_stopped
      BY <3>1, <3>2
    <3>4. p[1] # "not_written" /\ p # <<>>
      BY <1>7, <1>8, <2>1, <3>3 DEF Ending, WorkerAt
    <3> QED  BY <1>7, <1>8, <3>3, <3>4 DEF WorkerAt
  <2>2. ASSUME ~Ending' PROVE ~Ending /\ (FrontHasLeft' <=> FrontHasLeft)
    <3>1. ~Ending
      BY <1>5, <2>1, <2>2 DEF Ending, WorkerAt
    <3>2. FrontHasLeft' <=> m_writeQueue[1] # Heartbeat
      BY <1>4, <1>12, <2>1, <2>2 DEF FrontHasLeft
    <3>3. FrontHasLeft <=> m_writeQueue[1] # Heartbeat
      BY <1>2, <1>12, <2>1, <2>2 DEF FrontHasLeft
    <3> QED  BY <3>1, <3>2, <3>3
  <2> QED  BY <1>1, <1>4, <2>2 DEF CountOK, Waiting, Entered
<1> QED  BY <1>9, <1>10, <1>11, <1>13, <1>14 DEF LinesInv

\* A posted packet joins the queue.
LEMMA RunPostStep == ASSUME LinesInv, RunPost PROVE LinesInv'
<1> DEFINE Q == m_writeQueue
           n == Len(m_writeQueue)
<1>1. TypesOK /\ LineOK /\ WriteOK /\ HandlersOK /\ CountOK
  BY DEF LinesInv
<1>2. /\ prog["worker"] = <<>> /\ prog' = [prog EXCEPT !["worker"] = <<"send_packet">>]
      /\ posts # <<>> /\ posts' = Tail(posts) /\ Q' = Append(Q, Head(posts))
      /\ UNCHANGED <<given, wire, m_stopped, sock, writes, m_bWriteInProgress>>
  BY DEF RunPost, CanRun, net
<1>3. /\ posts \in Seq(Nat \ {0}) /\ Q \in Seq(Nat) /\ given \in Nat /\ n \in Nat
      /\ Len(wire) \in Nat
  BY <1>1 DEF TypesOK
<1>4. /\ Head(posts) = posts[1] /\ Head(posts) \in Nat \ {0}
      /\ posts' \in Seq(Nat \ {0}) /\ Len(posts') = Len(posts) - 1
      /\ \A j \in 1 .. Len(posts') : posts'[j] = posts[j + 1]
      /\ Len(posts) \in Nat \ {0}
  <2>1. Head(posts) = posts[1]
    BY <1>2, <1>3, HeadIsFirst
  <2>2. /\ Head(posts) \in Nat \ {0} /\ Tail(posts) \in Seq(Nat \ {0})
        /\ Len(Tail(posts)) = Len(posts) - 1
        /\ \A j \in 1 .. Len(Tail(posts)) : Tail(posts)[j] = posts[j + 1]
    BY <1>2, <1>3, HeadTailProperties
  <2>3. Len(posts) \in Nat \ {0}
    BY <1>2, <1>3, EmptySeq
  <2> QED  BY <1>2, <2>1, <2>2, <2>3
<1>5. /\ Q' \in Seq(Nat) /\ Len(Q') = n + 1
      /\ \A j \in 1 .. n : Q'[j] = Q[j]
      /\ Q'[n + 1] = posts[1]
  <2>1. Q' = Append(Q, posts[1]) /\ posts[1] \in Nat
    BY <1>2, <1>4
  <2> QED  BY <1>3, <2>1, Appended
<1>6. Entered' = Entered + 1 /\ Entered \in Int
  <2> DEFINE k == Len(posts)
  <2>1. Entered' = given - (k - 1) /\ Entered = given - k /\ k \in Nat /\ given \in Nat
    BY <1>2, <1>3, <1>4 DEF Entered
  <2> HIDE DEF k
  <2> QED  BY <2>1
<1>7. posts[1] = Entered + 1 /\ posts[1] # Heartbeat
  BY <1>1, <1>4 DEF LineOK, Heartbeat
<1> DEFINE p == <<"send_packet">>
<1>8. p \in Seq(Steps) /\ Len(p) = 1 /\ p[1] = "send_packet" /\ p # <<>>
  <2>1. "send_packet" \in Steps
    BY DEF Steps
  <2> QED  BY <2>1, Single
<1> HIDE DEF p
<1>9. prog' \in [Threads -> Seq(Steps)] /\ prog'["worker"] = p
  BY <1>1, <1>2, <1>8 DEF TypesOK, Threads, p
<1>10. TypesOK'
  BY <1>1, <1>2, <1>4, <1>5, <1>9 DEF TypesOK
<1>11. LineOK'
  <2>1. \A j \in 1 .. Len(posts') : posts'[j] = Entered' + j
    <3> TAKE j \in 1 .. Len(posts')
    <3>1. j + 1 \in 1 .. Len(posts) /\ posts'[j] = posts[j + 1]
      BY <1>4
    <3>2. posts[j + 1] = Entered + (j + 1)
      BY <1>1, <3>1 DEF LineOK
    <3> QED  BY <1>6, <3>1, <3>2
  <2>2. ASSUME NEW j \in 1 .. n + 1
        PROVE  /\ Q'[j] # Heartbeat => Q'[j] = Entered' - (n + 1) + j
               /\ j > 1 => Q'[j] # Heartbeat
    <3>1. CASE j = n + 1
      BY <1>3, <1>5, <1>6, <1>7, <3>1
    <3>2. CASE j # n + 1
      <4>1. j \in 1 .. n /\ Q'[j] = Q[j]
        <5>1. n \in Nat /\ j \in 1 .. n + 1
          BY <1>3
        <5> HIDE DEF n
        <5>2. j \in 1 .. n
          BY <3>2, <5>1
        <5> QED  BY <1>5, <5>2
      <4>2. /\ Q[j] # Heartbeat => Q[j] = Entered - n + j
            /\ j > 1 => Q[j] # Heartbeat
        BY <1>1, <4>1 DEF LineOK
      <4> HIDE DEF Q, n
      <4> QED  BY <1>3, <1>6, <4>1, <4>2
    <3> QED  BY <3>1, <3>2
  <2> QED  BY <1>5, <2>1, <2>2 DEF LineOK
<1>12. Q' # <<>> /\ (Q # <<>> => Q'[1] = Q[1]) /\ (Q = <<>> => Q'[1] # Heartbeat)
  <2>1. Len(Q') # 0
    BY <1>3, <1>5
  <2>2. Q # <<>> => 1 \in 1 .. n
    BY <1>3, EmptySeq
  <2>3. Q = <<>> => n + 1 = 1
    BY EmptySeq
  <2> QED  BY <1>5, <1>7, <2>1, <2>2, <2>3, EmptySeq
<1>13. WriteOK'
  BY <1>1, <1>2, <1>12 DEF WriteOK, TypesOK
<1>14. HandlersOK'
  <2>1. \A k \in 1 .. Len(p) : ~(k > 1)
    BY <1>8, NoSecond
  <2>2. ~WorkerAt("written")' /\ ~WorkerAt("not_written")'
    BY <1>8, <1>9 DEF WorkerAt
  <2> QED  BY <1>9, <1>12, <2>1, <2>2 DEF HandlersOK
<1>15. CountOK'
  <2>1. FrontHasLeft' <=> FrontHasLeft
    <3>1. ~WorkerAt("written")' /\ ~WorkerAt("written")
      BY <1>2, <1>8, <1>9 DEF WorkerAt
    <3>2. Q = <<>> => writes = <<>>
      BY <1>1 DEF WriteOK
    <3> QED  BY <1>2, <1>12, <3>1, <3>2 DEF FrontHasLeft
  <2>2. Waiting' = Waiting + 1
    <3>1. Waiting' = (n + 1) - (IF Q'[1] = Heartbeat THEN 1 ELSE 0)
                             - (IF FrontHasLeft THEN 1 ELSE 0)
      BY <1>5, <1>12, <2>1 DEF Waiting
    <3>2. Waiting = n - (IF Q # <<>> /\ Q'[1] = Heartbeat THEN 1 ELSE 0)
                      - (IF FrontHasLeft THEN 1 ELSE 0)
      BY <1>12 DEF Waiting
    <3>3. Q # <<>> /\ Q'[1] = Heartbeat <=> Q'[1] = Heartbeat
      BY <1>12
    <3> HIDE DEF n, Q
    <3> DEFINE a == IF Q'[1] = Heartbeat THEN 1 ELSE 0
               b == IF FrontHasLeft THEN 1 ELSE 0
    <3>4. a \in Int /\ b \in Int /\ Waiting' = (n + 1) - a - b /\ Waiting = n - a - b
      BY <3>1, <3>2, <3>3
    <3> HIDE DEF a, b
    <3> QED  BY <1>3, <3>4
  <2>3. Waiting \in Int
    BY <1>3 DEF Waiting
  <2>4. ASSUME ~Ending' PROVE ~Ending
    <3>1. ~m_stopped'
      BY <2>4 DEF Ending
    <3>2. m_stopped \in BOOLEAN /\ m_stopped' = m_stopped
      BY <1>1, <1>2 DEF TypesOK
    <3>3. ~m_stopped
      BY <3>1, <3>2
    <3> QED  BY <1>2, <3>3 DEF Ending, WorkerAt
  <2>5. Len(wire') = Len(wire)
    BY <1>2
  <2> QED  BY <1>1, <1>3, <1>6, <2>2, <2>3, <2>4, <2>5 DEF CountOK
<1> QED  BY <1>10, <1>11, <1>13, <1>14, <1>15 DEF LinesInv

\* A write that has failed: the packet stays in the queue, but the client stops.
LEMMA NotWrittenStep == ASSUME LinesInv, NotWritten PROVE LinesInv'
<1>1. TypesOK /\ LineOK /\ WriteOK /\ HandlersOK /\ CountOK
  BY DEF LinesInv
<1>2. WorkerAt("not_written") /\ prog["worker"] # <<>> /\ Goto("worker", <<"stop">>)
  BY <1>1, Here DEF NotWritten, At
<1>3. writes = <<>>
  BY <1>1, <1>2 DEF HandlersOK
<1>4. /\ UNCHANGED <<posts, given, wire, m_stopped, sock, writes, m_writeQueue>>
      /\ m_bWriteInProgress' = FALSE
  BY DEF NotWritten, net
<1>5. /\ prog' \in [Threads -> Seq(Steps)] /\ Quiet(prog'["worker"])
      /\ prog'["worker"] # <<>> /\ prog'["worker"][1] = "stop"
  <2>1. <<"stop">> \in Seq(Steps) /\ Quiet(<<"stop">>)
    BY Programs
  <2>2. "stop" \in Steps
    BY DEF Steps
  <2>3. <<"stop">> # <<>> /\ <<"stop">>[1] = "stop"
    BY <2>2, Single
  <2> QED  BY <1>1, <1>2, <2>1, <2>3, Goes
<1>6. TypesOK'
  BY <1>1, <1>4, <1>5 DEF TypesOK
<1>7. LineOK'
  BY <1>1, <1>4 DEF LineOK, Entered
<1>8. WriteOK'
  BY <1>3, <1>4 DEF WriteOK
<1>9. HandlersOK'
  BY <1>5, QuietNext DEF HandlersOK
<1>10. CountOK'
  BY <1>5 DEF CountOK, Ending, WorkerAt
<1> QED  BY <1>6, <1>7, <1>8, <1>9, <1>10 DEF LinesInv

\* The system answers a write; a packet has left the client then, the next in line.
LEMMA WriteDoneStep ==
  ASSUME LinesInv, NEW i \in DOMAIN writes, WriteDone(i)
  PROVE  /\ LinesInv'
         /\ \/ wire' = wire
            \/ /\ ~m_stopped /\ Len(wire) < given
               /\ wire' = Append(wire, Len(wire) + 1)
<1>1. TypesOK /\ LineOK /\ WriteOK /\ HandlersOK /\ CountOK
  BY DEF LinesInv
<1>2. /\ i = 1 /\ writes # <<>> /\ writes \in Seq(WriteOps) /\ Len(writes) = 1
      /\ writes[1] \in WriteOps
  BY <1>1, OneWrite DEF TypesOK
<1>3. /\ UNCHANGED <<posts, given, m_stopped, sock, prog>>
      /\ m_writeQueue' = m_writeQueue /\ m_bWriteInProgress' = m_bWriteInProgress
  BY DEF WriteDone, out
<1>4. writes[1].res = "pending"
  BY <1>2 DEF WriteDone
<1>5. PICK r \in {"ok", "error"} :
        /\ writes' = [writes EXCEPT ![1].res = r]
        /\ wire' = IF r = "ok" /\ writes[1].kind # Heartbeat
                   THEN Append(wire, writes[1].kind) ELSE wire
  BY <1>2 DEF WriteDone
<1> DEFINE op == [writes[1] EXCEPT !.res = r]
<1>6. op \in WriteOps /\ op.kind = writes[1].kind /\ op.res = r
  BY <1>2 DEF WriteOps
<1>7. writes' = [writes EXCEPT ![1] = op]
  BY <1>5
<1> HIDE DEF op
<1>8. /\ writes' \in Seq(WriteOps) /\ Len(writes') = 1 /\ writes' # <<>>
      /\ writes'[1].kind = writes[1].kind /\ writes'[1].res = r
  <2>1. 1 \in 1 .. Len(writes)
    BY <1>2
  <2>2. writes' \in Seq(WriteOps) /\ Len(writes') = Len(writes) /\ writes'[1] = op
    BY <1>2, <1>6, <1>7, <2>1, ExceptSeq
  <2>3. writes' # <<>>
    BY <1>2, <2>2, EmptySeq
  <2> QED  BY <1>2, <1>6, <2>2, <2>3
<1>9. /\ m_bWriteInProgress /\ m_writeQueue # <<>> /\ writes[1].kind = m_writeQueue[1]
      /\ ~m_stopped
      /\ writes[1].kind # Heartbeat => writes[1].kind = Len(wire) + 1
  BY <1>1, <1>2, <1>4 DEF WriteOK
<1>10. ~WorkerAt("written") /\ ~WorkerAt("not_written")
  BY <1>1, <1>2 DEF HandlersOK
<1>11. writes[1].kind \in Nat /\ wire \in Seq(Nat) /\ Len(wire) \in Nat
  BY <1>1, <1>2 DEF TypesOK, WriteOps
<1>12. CASE r = "ok" /\ writes[1].kind # Heartbeat
  <2>1. wire' = Append(wire, Len(wire) + 1) /\ Len(wire) + 1 \in Nat
    BY <1>5, <1>9, <1>11, <1>12
  <2>2. wire' \in Seq(Nat) /\ Len(wire') = Len(wire) + 1
    BY <1>11, <2>1, Appended
  <2>3. Len(wire) < given
    <3> DEFINE n == Len(m_writeQueue)
               k == Len(posts)
               w == Len(wire)
    <3>1. n \in Nat \ {0} /\ k \in Nat /\ given \in Nat /\ w \in Nat
      BY <1>1, <1>9, EmptySeq DEF TypesOK
    <3>2. 1 \in 1 .. n
      BY <3>1
    <3>3. m_writeQueue[1] = (given - k) - n + 1
      BY <1>1, <1>9, <1>12, <3>2 DEF LineOK, Entered
    <3>4. w + 1 = (given - k) - n + 1
      BY <1>9, <1>12, <3>3
    <3> HIDE DEF n, k, w
    <3>5. w < given
      BY <3>1, <3>4
    <3> QED  BY <3>5 DEF w
  <2>4. TypesOK'
    BY <1>1, <1>3, <1>8, <2>2 DEF TypesOK
  <2>5. LineOK'
    BY <1>1, <1>3 DEF LineOK, Entered
  <2>6. WriteOK'
    BY <1>3, <1>8, <1>9, <1>12 DEF WriteOK
  <2>7. HandlersOK'
    BY <1>1, <1>3, <1>10 DEF HandlersOK, WorkerAt
  <2>8. CountOK'
    <3>1. FrontHasLeft' /\ ~FrontHasLeft
      BY <1>3, <1>4, <1>8, <1>9, <1>10, <1>12 DEF FrontHasLeft
    <3>2. Waiting' = Len(m_writeQueue) - 0 - 1 /\ Waiting = Len(m_writeQueue) - 0 - 0
      BY <1>3, <1>9, <1>12, <3>1 DEF Waiting
    <3>3. Ending' = Ending /\ Entered' = Entered
      BY <1>3 DEF Ending, WorkerAt, Entered
    <3>4. Len(m_writeQueue) \in Nat /\ Entered \in Int
      BY <1>1 DEF TypesOK, Entered
    <3> DEFINE n == Len(m_writeQueue)
               w == Len(wire)
    <3>5. /\ Waiting' = n - 0 - 1 /\ Waiting = n - 0 - 0 /\ n \in Nat /\ w \in Nat
          /\ Len(wire') = w + 1
      BY <1>11, <2>2, <3>2, <3>4
    <3>6. ~Ending => w + Waiting = Entered
      BY <1>1 DEF CountOK
    <3> HIDE DEF n, w
    <3>7. ~Ending => (w + 1) + Waiting' = Entered
      BY <3>4, <3>5, <3>6
    <3> QED  BY <3>3, <3>5, <3>7 DEF CountOK
  <2> QED  BY <1>9, <2>1, <2>3, <2>4, <2>5, <2>6, <2>7, <2>8 DEF LinesInv
<1>13. CASE ~(r = "ok" /\ writes[1].kind # Heartbeat)
  <2>1. wire' = wire
    BY <1>5, <1>13
  <2>2. TypesOK'
    BY <1>1, <1>3, <1>8, <2>1 DEF TypesOK
  <2>3. LineOK'
    BY <1>1, <1>3 DEF LineOK, Entered
  <2>4. WriteOK'
    BY <1>3, <1>8, <1>9 DEF WriteOK
  <2>5. HandlersOK'
    BY <1>1, <1>3, <1>10 DEF HandlersOK, WorkerAt
  <2>6. CountOK'
    <3>1. ~FrontHasLeft' /\ ~FrontHasLeft
      BY <1>3, <1>4, <1>8, <1>9, <1>10, <1>13 DEF FrontHasLeft, WorkerAt
    <3>2. Waiting' = Waiting /\ Entered' = Entered /\ Ending' = Ending
      BY <1>3, <3>1 DEF Waiting, Entered, Ending, WorkerAt
    <3> QED  BY <1>1, <2>1, <3>2 DEF CountOK
  <2> QED  BY <2>1, <2>2, <2>3, <2>4, <2>5, <2>6 DEF LinesInv
<1> QED  BY <1>12, <1>13

\* The user gives a packet away.
LEMMA PostStep == ASSUME LinesInv, post_packet PROVE LinesInv'
<1>1. TypesOK /\ LineOK /\ WriteOK /\ HandlersOK /\ CountOK
  BY DEF LinesInv
<1>2. /\ given' = given + 1 /\ posts' = Append(posts, given + 1)
      /\ UNCHANGED <<wire, m_stopped, sock, writes, prog>>
      /\ m_writeQueue' = m_writeQueue /\ m_bWriteInProgress' = m_bWriteInProgress
  BY DEF post_packet, net, out
<1>3. posts \in Seq(Nat \ {0}) /\ given \in Nat /\ Len(posts) \in Nat
  BY <1>1 DEF TypesOK
<1>4. /\ posts' \in Seq(Nat \ {0}) /\ Len(posts') = Len(posts) + 1
      /\ \A j \in 1 .. Len(posts) : posts'[j] = posts[j]
      /\ posts'[Len(posts) + 1] = given + 1
  <2>1. given + 1 \in Nat \ {0}
    BY <1>3
  <2> QED  BY <1>2, <1>3, <2>1, Appended
<1>5. Entered' = Entered /\ given = Entered + Len(posts)
  <2> DEFINE k == Len(posts)
  <2>1. Entered' = (given + 1) - (k + 1) /\ Entered = given - k /\ k \in Nat
    BY <1>2, <1>3, <1>4 DEF Entered
  <2> HIDE DEF k
  <2>2. Entered' = Entered /\ given = Entered + k
    BY <1>3, <2>1
  <2> QED  BY <2>2 DEF k
<1>6. TypesOK'
  BY <1>1, <1>2, <1>3, <1>4 DEF TypesOK
<1>7. LineOK'
  <2>1. ASSUME NEW j \in 1 .. Len(posts') PROVE posts'[j] = Entered' + j
    <3>1. CASE j \in 1 .. Len(posts)
      BY <1>1, <1>4, <1>5, <3>1 DEF LineOK
    <3>2. CASE j \notin 1 .. Len(posts)
      <4> DEFINE k == Len(posts)
      <4>1. j \in 1 .. k + 1 /\ j \notin 1 .. k /\ k \in Nat
        BY <1>3, <1>4, <3>2
      <4>2. /\ Entered' = Entered /\ given = Entered + k /\ posts'[k + 1] = given + 1
            /\ Entered \in Int
        BY <1>3, <1>4, <1>5 DEF Entered
      <4> HIDE DEF k
      <4>3. j = k + 1
        BY <4>1
      <4> QED  BY <4>1, <4>2, <4>3
    <3> QED  BY <3>1, <3>2
  <2> QED  BY <1>1, <1>2, <1>5, <2>1 DEF LineOK
<1>8. WriteOK' /\ HandlersOK'
  BY <1>1, <1>2 DEF WriteOK, HandlersOK, WorkerAt
<1>9. CountOK'
  BY <1>1, <1>2, <1>5 DEF CountOK, Ending, Waiting, FrontHasLeft, WorkerAt
<1> QED  BY <1>6, <1>7, <1>8, <1>9 DEF LinesInv

-----------------------------------------------------------------------------
(* All steps.                                                              *)

\* The system and the user, while the worker does nothing.
LEMMA OthersStep ==
  ASSUME LinesInv,
         \/ ConnectDone \/ ReadDone \/ Tick \/ UserStop \/ run_from_stop
         \/ ReadStopped("user") \/ Join
  PROVE  LinesInv'
<1>1. TypesOK
  BY DEF LinesInv
<1>2. /\ UNCHANGED <<out, posts, given, wire, m_stopped>>
      /\ sock' \in {"closed", "opening", "up"}
  BY <1>1 DEF ConnectDone, ReadDone, Tick, UserStop, run_from_stop, ReadStopped, Join,
              net, TypesOK
<1>3. SameWrites
  <2>1. CASE Tick
    BY <1>1, <2>1, Aged DEF Tick
  <2>2. CASE ~Tick
    <3>1. writes' = writes
      BY <2>2 DEF ConnectDone, ReadDone, UserStop, run_from_stop, ReadStopped, Join, net
    <3> QED  BY <1>1, <3>1, WritesKept
  <2> QED  BY <2>1, <2>2
<1>4. prog \in [Threads -> Seq(Steps)] /\ "user" \in Threads /\ "worker" \in Threads
  BY <1>1 DEF TypesOK, Threads
<1>5. prog' \in [Threads -> Seq(Steps)] /\ prog'["worker"] = prog["worker"]
  <2>1. CASE ConnectDone \/ ReadDone \/ Tick \/ run_from_stop
    BY <1>4, <2>1 DEF ConnectDone, ReadDone, Tick, run_from_stop
  <2>2. CASE UserStop
    <3>1. <<"stop", "join">> \in Seq(Steps)
      BY DEF Steps
    <3> QED  BY <1>4, <2>2, <3>1 DEF UserStop
  <2>3. ASSUME NEW s \in Seq(Steps), Goto("user", s), prog["user"] # <<>>
        PROVE  prog' \in [Threads -> Seq(Steps)] /\ prog'["worker"] = prog["worker"]
    <3>1. prog["user"] \in Seq(Steps)
      BY <1>4
    <3>2. Tail(prog["user"]) \in Seq(Steps)
      BY <2>3, <3>1, HeadTailProperties
    <3>3. s \o Tail(prog["user"]) \in Seq(Steps)
      BY <3>2, ConcatProperties
    <3> QED  BY <1>4, <2>3, <3>3 DEF Goto
  <2>4. CASE ReadStopped("user")
    <3>1. prog["user"] # <<>> /\ Goto("user", IF m_stopped THEN <<>> ELSE <<"shut">>)
      BY <2>4 DEF ReadStopped, At
    <3>2. (IF m_stopped THEN <<>> ELSE <<"shut">>) \in Seq(Steps)
      BY Programs
    <3> QED  BY <2>3, <3>1, <3>2
  <2>5. CASE Join
    <3>1. prog["user"] # <<>> /\ Goto("user", <<"done">>)
      BY <2>5 DEF Join, At
    <3>2. <<"done">> \in Seq(Steps)
      BY DEF Steps
    <3> QED  BY <2>3, <3>1, <3>2
  <2> QED  BY <2>1, <2>2, <2>4, <2>5
<1> QED  BY <1>2, <1>3, <1>5, Unchanged_

\* The event loop runs a handler that is not about a write.
LEMMA RunStep ==
  ASSUME LinesInv, ReadOK, RunConnect \/ RunRead \/ \E t \in Timers : RunTimer(t)
  PROVE  LinesInv'
<1>1. TypesOK
  BY DEF LinesInv
<1>2. ASSUME NEW p \in Seq(Steps), Quiet(p), Run(p), writes' = writes, posts' = posts
      PROVE  LinesInv'
  <2> DEFINE steps == IF m_stopped THEN <<>> ELSE p
  <2>1. steps \in Seq(Steps) /\ Quiet(steps)
    BY <1>2, Nothing
  <2>2. prog' = [prog EXCEPT !["worker"] = steps] /\ prog["worker"] = <<>>
    BY <1>2 DEF Run, CanRun
  <2>3. UNCHANGED <<out, posts, given, wire, m_stopped>> /\ sock' = sock /\ SameWrites
    BY <1>1, <1>2, WritesKept DEF Run
  <2> HIDE DEF steps
  <2> QED  BY <2>1, <2>2, <2>3, HandlerStep
<1>3. CASE RunConnect
  <2>1. PICK p \in {<<"connected">>, <<"not_connected">>} : Run(p)
    BY <1>3 DEF RunConnect
  <2> QED  BY <1>2, <1>3, <2>1, Programs DEF RunConnect
<1>4. CASE RunRead
  <2>1. read.res = "ok" => read.kind = "header" \/ read.kind = "body"
    BY DEF ReadOK, ReadOps
  <2>2. PICK p \in {<<"stop">>, <<"quik_state", "read_header">>,
                    <<"quik_state", "read_body">>, <<"deliver", "read_header">>} : Run(p)
    <3>1. CASE read.res = "error"
      BY <1>4, <3>1 DEF RunRead
    <3>2. CASE read.res = "heartbeat"
      BY <1>4, <3>2 DEF RunRead
    <3>3. CASE read.res = "ok" /\ read.kind = "header"
      BY <1>4, <3>3 DEF RunRead
    <3>4. CASE read.res = "ok" /\ read.kind = "body"
      BY <1>4, <3>4 DEF RunRead
    <3> QED  BY <1>4, <2>1, <3>1, <3>2, <3>3, <3>4 DEF RunRead
  <2> QED  BY <1>2, <1>4, <2>2, Programs DEF RunRead
<1>5. ASSUME NEW t \in Timers, RunTimer(t) PROVE LinesInv'
  <2>1. PICK p \in {<<"check_read">>, <<"check_write">>, <<"wait_heartbeat">>,
                    <<"check_heartbeat", "wait_heartbeat">>} : Run(p)
    BY <1>5 DEF RunTimer, Timers
  <2> QED  BY <1>2, <1>5, <2>1, Programs DEF RunTimer
<1> QED  BY <1>3, <1>4, <1>5

\* A step of the worker that is not about a write.
LEMMA WorkerKeeps ==
  ASSUME LinesInv,
         \/ _start_connect \/ NotConnected \/ Connected \/ Notify \/ _read_responce
         \/ _deliver \/ _check_deadline("read") \/ _check_deadline("write")
         \/ HeartbeatTimer
  PROVE  LinesInv'
<1>1. TypesOK /\ sock \in {"closed", "opening", "up"}
  BY DEF LinesInv, TypesOK
<1>2. ASSUME NEW step, At("worker", step),
             step \notin {"written", "not_written", "stop", "shut"},
             NEW p \in {<<>>, <<"stop">>, <<"connect">>,
                        <<"hnd", "read_header", "reset_heartbeat", "wait_heartbeat">>},
             Goto("worker", p), SameWrites,
             UNCHANGED <<out, posts, given, wire, m_stopped>>,
             sock' \in {"closed", "opening", "up"}
      PROVE  LinesInv'
  <2>1. p \in Seq(Steps) /\ Quiet(p)
    BY <1>2, Programs
  <2> QED  BY <1>2, <2>1, WorkerStep
<1>3. CASE _start_connect
  <2>1. /\ At("worker", "connect") /\ UNCHANGED <<out, posts, given, wire, m_stopped>>
        /\ writes' = writes /\ (sock' = "opening" \/ sock' = sock)
        /\ Goto("worker", <<>>) \/ Goto("worker", <<"stop">>)
    BY <1>3 DEF _start_connect, Return
  <2>2. SameWrites /\ sock' \in {"closed", "opening", "up"}
    BY <1>1, <2>1, WritesKept
  <2> QED  BY <1>2, <2>1, <2>2
<1>4. CASE NotConnected
  <2>1. /\ At("worker", "not_connected") \/ At("worker", "connected")
        /\ UNCHANGED <<out, posts, given, wire, m_stopped>>
        /\ Goto("worker", <<"connect">>)
    BY <1>4 DEF NotConnected
  <2>2. SameWrites /\ sock' \in {"closed", "opening", "up"}
    <3>1. CASE UNCHANGED net
      <4>1. writes' = writes /\ sock' = sock
        BY <3>1 DEF net
      <4> QED  BY <1>1, <4>1, WritesKept
    <3>2. CASE Close
      BY <1>1, <3>2, Aborted DEF Close
    <3> QED  BY <1>4, <3>1, <3>2 DEF NotConnected
  <2> QED  BY <1>2, <2>1, <2>2
<1>5. CASE Connected
  <2>1. /\ At("worker", "connected") /\ UNCHANGED <<out, posts, given, wire, m_stopped>>
        /\ writes' = writes /\ sock' = sock
        /\ Goto("worker", <<"hnd", "read_header", "reset_heartbeat", "wait_heartbeat">>)
    BY <1>5 DEF Connected, net
  <2>2. SameWrites
    BY <1>1, <2>1, WritesKept
  <2> QED  BY <1>1, <1>2, <2>1, <2>2
<1>6. CASE Notify \/ _deliver
  <2>1. /\ At("worker", "hnd") \/ At("worker", "quik_state") \/ At("worker", "deliver")
        /\ UNCHANGED <<out, posts, given, wire, m_stopped>>
        /\ writes' = writes /\ sock' = sock
        /\ Goto("worker", <<>>) \/ Goto("worker", <<"stop">>)
    BY <1>6 DEF Notify, _deliver, Callback, Return, net
  <2>2. SameWrites
    BY <1>1, <2>1, WritesKept
  <2> QED  BY <1>1, <1>2, <2>1, <2>2
<1>7. CASE _read_responce
  <2>1. /\ At("worker", "read_header") \/ At("worker", "read_body")
        /\ UNCHANGED <<out, posts, given, wire, m_stopped>>
        /\ writes' = writes /\ sock' = sock /\ Goto("worker", <<>>)
    BY <1>7 DEF _read_responce, Return
  <2>2. SameWrites
    BY <1>1, <2>1, WritesKept
  <2> QED  BY <1>1, <1>2, <2>1, <2>2
<1>8. ASSUME NEW t \in {"read", "write"}, _check_deadline(t) PROVE LinesInv'
  <2>1. /\ At("worker", "check_read") \/ At("worker", "check_write")
        /\ UNCHANGED <<out, posts, given, wire, m_stopped>>
        /\ writes' = writes /\ sock' = sock
        /\ Goto("worker", <<>>) \/ Goto("worker", <<"stop">>)
    BY <1>8 DEF _check_deadline, Return, net
  <2>2. SameWrites
    BY <1>1, <2>1, WritesKept
  <2> QED  BY <1>1, <1>2, <2>1, <2>2
<1>9. CASE HeartbeatTimer
  <2>1. /\ At("worker", "reset_heartbeat") \/ At("worker", "wait_heartbeat")
        /\ UNCHANGED <<out, posts, given, wire, m_stopped>>
        /\ writes' = writes /\ sock' = sock /\ Goto("worker", <<>>)
    BY <1>9 DEF HeartbeatTimer, Return, net
  <2>2. SameWrites
    BY <1>1, <2>1, WritesKept
  <2> QED  BY <1>1, <1>2, <2>1, <2>2
<1> QED  BY <1>3, <1>4, <1>5, <1>6, <1>7, <1>8, <1>9

\* stop() tests m_stopped and then sets it and shuts everything.
LEMMA StopKeeps ==
  ASSUME LinesInv, ReadStopped("worker") \/ \E th \in Threads : Shut(th)
  PROVE  LinesInv'
<1>1. TypesOK /\ HandlersOK
  BY DEF LinesInv
<1>2. CASE ReadStopped("worker")
  <2>1. /\ At("worker", "stop") /\ Goto("worker", IF m_stopped THEN <<>> ELSE <<"shut">>)
        /\ UNCHANGED <<out, posts, given, wire>> /\ m_stopped' = m_stopped
        /\ writes' = writes /\ sock' = sock
    BY <1>2 DEF ReadStopped, net
  <2>2. WorkerAt("stop") /\ prog["worker"] # <<>>
    BY <1>1, <2>1, Here DEF At
  <2>3. PICK p \in {<<>>, <<"shut">>} : /\ p = IF m_stopped THEN <<>> ELSE <<"shut">>
                                        /\ Goto("worker", p)
    BY <2>1
  <2>4. /\ prog' \in [Threads -> Seq(Steps)] /\ Quiet(prog'["worker"])
        /\ p # <<>> => prog'["worker"] # <<>> /\ prog'["worker"][1] = p[1]
    <3>1. p \in Seq(Steps) /\ Quiet(p)
      BY <2>3, Programs
    <3> QED  BY <1>1, <2>2, <2>3, <3>1, Goes
  <2>5. m_stopped \in BOOLEAN
    BY <1>1 DEF TypesOK
  <2>6. Ending'
    <3>1. CASE m_stopped
      BY <2>1, <2>5, <3>1 DEF Ending
    <3>2. CASE ~m_stopped
      <4>1. p = <<"shut">> /\ "shut" \in Steps
        BY <2>3, <3>2 DEF Steps
      <4>2. p # <<>> /\ p[1] = "shut"
        BY <4>1, Single
      <4> QED  BY <2>4, <4>2 DEF Ending, WorkerAt
    <3> QED  BY <3>1, <3>2
  <2>7. ~WorkerAt("written")
    BY <2>2 DEF WorkerAt
  <2>8. SameWrites /\ sock' \in {"closed", "opening", "up"}
    BY <1>1, <2>1, WritesKept DEF TypesOK
  <2>9. (m_stopped => m_stopped') /\ (m_stopped' => m_stopped) /\ m_stopped' \in BOOLEAN
    BY <2>1, <2>5
  <2> QED  BY <2>1, <2>4, <2>6, <2>7, <2>8, <2>9, Rests
<1>3. ASSUME NEW th \in Threads, Shut(th) PROVE LinesInv'
  <2>1. /\ At(th, "shut") /\ Goto(th, <<>>)
        /\ UNCHANGED <<out, posts, given, wire>> /\ m_stopped' = TRUE
        /\ sock' = "closed" /\ writes' = [i \in DOMAIN writes |-> Abort(writes[i])]
    BY <1>3 DEF Shut, Close
  <2>2. SameWrites /\ (writes' # <<>> => writes'[1].res # "pending")
    BY <1>1, <2>1, Aborted
  <2>3. Ending'
    BY <2>1 DEF Ending
  <2>4. /\ prog' \in [Threads -> Seq(Steps)]
        /\ \/ prog'["worker"] = prog["worker"]
           \/ Quiet(prog'["worker"]) /\ ~WorkerAt("written")
    <3>1. CASE th = "worker"
      <4>1. WorkerAt("shut") /\ prog["worker"] # <<>>
        BY <1>1, <2>1, <3>1, Here DEF At
      <4>2. ~WorkerAt("written")
        BY <4>1 DEF WorkerAt
      <4> QED  BY <1>1, <2>1, <3>1, <4>1, <4>2, Nothing, Goes
    <3>2. CASE th = "user"
      <4>1. prog["user"] \in Seq(Steps) /\ prog["user"] # <<>>
        BY <1>1, <2>1, <3>2 DEF TypesOK, Threads, At
      <4>2. <<>> \o Tail(prog["user"]) \in Seq(Steps)
        BY <4>1, HeadTailProperties, ConcatProperties, EmptySeq
      <4> QED  BY <1>1, <2>1, <3>2, <4>2 DEF Goto, TypesOK, Threads
    <3> QED  BY <3>1, <3>2 DEF Threads
  <2> QED  BY <2>1, <2>2, <2>3, <2>4, Rests
<1> QED  BY <1>2, <1>3

\* The answers to the reads keep their kinds.
LEMMA ReadStep == ASSUME TypesOK, ReadOK, [Next]_vars PROVE ReadOK'
<1> DEFINE R(op) == op \in ReadOps /\ (op.res # "none" => op.kind # "none")
<1>1. R(read) /\ sock \in {"closed", "opening", "up"}
  BY DEF ReadOK, TypesOK
<1>2. R(NoOp)
  BY DEF NoOp, Op, ReadOps
<1>3. R(Abort(read))
  BY <1>1 DEF Abort, ReadOps
<1>4. R(Older(read, ReadTimeout))
  BY <1>1 DEF Older, ReadOps
<1>5. ASSUME NEW r \in {"ok", "error", "heartbeat"}, read.res = "pending"
      PROVE  R([read EXCEPT !.res = r])
  BY <1>1, <1>5 DEF ReadOps
<1>6. ASSUME NEW r \in Started, NEW k \in {"header", "body"} PROVE R(Op(k, r))
  <2>1. r \in {"pending", "error"}
    BY <1>1, <1>6 DEF Started
  <2> QED  BY <2>1, <1>6 DEF Op, ReadOps
<1> HIDE DEF R
<1>7. R(read')
  <2>1. CASE ReadDone
    <3>1. PICK r \in {"ok", "error", "heartbeat"} : read' = [read EXCEPT !.res = r]
      BY <2>1 DEF ReadDone
    <3> QED  BY <1>5, <2>1, <3>1 DEF ReadDone
  <2>2. CASE Tick
    BY <1>4, <2>2 DEF Tick
  <2>3. CASE Handlers
    <3>1. read' = read \/ read' = NoOp
      BY <2>3 DEF Handlers, RunConnect, RunRead, RunPost, RunWrite, RunTimer, net
    <3> QED  BY <1>1, <1>2, <3>1
  <2>4. CASE Worker
    <3>1. CASE _read_responce
      <4>1. PICK r \in Started :
              read' = Op(IF At("worker", "read_body") THEN "body" ELSE "header", r)
        BY <3>1 DEF _read_responce
      <4> QED  BY <1>6, <4>1
    <3>2. CASE NotConnected \/ Shut("worker")
      <4>1. read' = read \/ read' = Abort(read)
        BY <3>2 DEF NotConnected, Shut, Close, net
      <4> QED  BY <1>1, <1>3, <4>1
    <3>3. CASE \/ _start_connect \/ Connected \/ Notify \/ _deliver \/ SendPacket
               \/ Written \/ NotWritten \/ _check_deadline("read")
               \/ _check_deadline("write") \/ _check_heartbeat \/ HeartbeatTimer
               \/ ReadStopped("worker")
      <4>1. read' = read
        BY <3>3 DEF _start_connect, Connected, Notify, _deliver, SendPacket, Written,
                    NotWritten, _check_deadline, _check_heartbeat, HeartbeatTimer,
                    ReadStopped, net
      <4> QED  BY <1>1, <4>1
    <3> QED  BY <2>4, <3>1, <3>2, <3>3 DEF Worker
  <2>5. CASE User
    <3>1. read' = read \/ read' = Abort(read)
      BY <2>5 DEF User, ReadStopped, Shut, Join, Close, net
    <3> QED  BY <1>1, <1>3, <3>1
  <2>6. CASE \/ ConnectDone \/ (\E i \in DOMAIN writes : WriteDone(i)) \/ UserStop
             \/ post_packet \/ run_from_stop \/ UNCHANGED vars
    <3>1. read' = read
      BY <2>6 DEF ConnectDone, WriteDone, UserStop, post_packet, run_from_stop, net, vars
    <3> QED  BY <1>1, <3>1
  <2> QED  BY <2>1, <2>2, <2>3, <2>4, <2>5, <2>6 DEF Next
<1> QED  BY <1>7 DEF R, ReadOK

LEMMA InvInit == Init => Inv
<1> SUFFICES ASSUME Init PROVE Inv
  OBVIOUS
<1>1. /\ m_stopped = FALSE /\ sock = "opening" /\ read = NoOp /\ writes = <<>>
      /\ m_writeQueue = <<>> /\ m_bWriteInProgress = FALSE
      /\ posts = <<>> /\ given = 0 /\ wire = <<>> /\ prog = [th \in Threads |-> <<>>]
  BY DEF Init
<1>2. \A S : <<>> \in Seq(S) /\ Len(<<>>) = 0
  BY EmptySeq
<1>3. prog["worker"] = <<>>
  BY <1>1 DEF Threads
<1>4. TypesOK
  <2>1. /\ posts \in Seq(Nat \ {0}) /\ wire \in Seq(Nat) /\ m_writeQueue \in Seq(Nat)
        /\ writes \in Seq(WriteOps) /\ Len(writes) <= 1
    BY <1>1, <1>2
  <2>2. prog \in [Threads -> Seq(Steps)]
    BY <1>1, <1>2
  <2> QED  BY <1>1, <2>1, <2>2 DEF TypesOK
<1>5. LineOK
  BY <1>1, <1>2 DEF LineOK
<1>6. WriteOK
  BY <1>1 DEF WriteOK
<1>7. HandlersOK
  BY <1>2, <1>3 DEF HandlersOK, WorkerAt
<1>8. CountOK
  <2>1. Len(posts) = 0 /\ Len(m_writeQueue) = 0 /\ Len(wire) = 0
    BY <1>1, <1>2
  <2>2. Waiting = 0 - 0 - 0
    BY <1>1, <2>1 DEF Waiting, FrontHasLeft
  <2>3. Entered = 0 - 0
    BY <1>1, <2>1 DEF Entered
  <2> QED  BY <2>1, <2>2, <2>3 DEF CountOK
<1>9. ReadOK
  BY <1>1 DEF ReadOK, ReadOps, NoOp, Op
<1> QED  BY <1>4, <1>5, <1>6, <1>7, <1>8, <1>9 DEF Inv, LinesInv

LEMMA NextKeeps == Inv /\ [Next]_vars => Inv'
<1> SUFFICES ASSUME Inv, [Next]_vars PROVE Inv'
  OBVIOUS
<1>1. LinesInv /\ ReadOK /\ TypesOK
  BY DEF Inv, LinesInv
<1>2. CASE Handlers
  BY <1>1, <1>2, RunStep, RunPostStep, RunWriteStep, ReadStep DEF Handlers, Inv
<1>3. CASE Worker
  <2>1. CASE SendPacket \/ Written \/ NotWritten \/ _check_heartbeat
    BY <1>1, <2>1, SendPacketStep, WrittenStep, NotWrittenStep, HeartbeatStep, ReadStep
       DEF Inv
  <2>2. CASE ReadStopped("worker") \/ Shut("worker")
    BY <1>1, <2>2, StopKeeps, ReadStep DEF Inv, Threads
  <2>3. CASE ~(\/ SendPacket \/ Written \/ NotWritten \/ _check_heartbeat
               \/ ReadStopped("worker") \/ Shut("worker"))
    BY <1>1, <1>3, <2>3, WorkerKeeps, ReadStep DEF Worker, Inv
  <2> QED  BY <2>1, <2>2, <2>3
<1>4. CASE User
  BY <1>1, <1>4, OthersStep, StopKeeps, ReadStep DEF User, Inv, Threads
<1>5. CASE ConnectDone \/ ReadDone \/ Tick \/ UserStop \/ run_from_stop
  BY <1>1, <1>5, OthersStep, ReadStep DEF Inv
<1>6. CASE post_packet
  BY <1>1, <1>6, PostStep, ReadStep DEF Inv
<1>7. CASE \E i \in DOMAIN writes : WriteDone(i)
  BY <1>1, <1>7, WriteDoneStep, ReadStep DEF Inv
<1>8. CASE UNCHANGED vars
  <2>1. /\ UNCHANGED <<out, posts, given, wire, m_stopped>> /\ writes' = writes
        /\ sock' = sock /\ prog' = prog
    BY <1>8 DEF vars, net
  <2>2. SameWrites
    BY <1>1, <2>1, WritesKept
  <2>3. /\ sock' \in {"closed", "opening", "up"} /\ prog' \in [Threads -> Seq(Steps)]
        /\ prog'["worker"] = prog["worker"]
    BY <1>1, <2>1 DEF TypesOK
  <2>4. LinesInv'
    BY <1>1, <2>1, <2>2, <2>3, Unchanged_
  <2> QED  BY <1>1, <2>4, ReadStep DEF Inv
<1> QED  BY <1>2, <1>3, <1>4, <1>5, <1>6, <1>7, <1>8 DEF Next

-----------------------------------------------------------------------------
(* The theorems.                                                           *)

\* In every state the client can be in, packets stand in line by their numbers,
\* a heartbeat only at the front, what waits for the system is the front of the
\* queue, and until the client stops nothing that was posted is missing.
THEOREM LinesInvariant == Spec => []Inv
  BY InvInit, NextKeeps, PTL DEF Spec

\* No two writes of the client are outstanding, and the buffer of the one that
\* is stays at the front of the queue: see _write_request and the handler of
\* async_write.
THEOREM WritesOneAtATime == Spec => []OneWriteAtATime
<1>1. Inv => OneWriteAtATime
  <2> SUFFICES ASSUME Inv PROVE OneWriteAtATime
    OBVIOUS
  <2>1. Len(writes) <= 1 /\ m_writeQueue \in Seq(Nat)
    BY DEF Inv, LinesInv, TypesOK
  <2>2. ASSUME writes # <<>>
        PROVE  m_writeQueue # <<>> /\ writes[1].kind = m_writeQueue[1]
    BY <2>2 DEF Inv, LinesInv, WriteOK
  <2>3. m_writeQueue # <<>> => Head(m_writeQueue) = m_writeQueue[1]
    BY <2>1, HeadIsFirst
  <2> QED  BY <2>1, <2>2, <2>3 DEF OneWriteAtATime
<1> QED  BY <1>1, LinesInvariant, PTL

\* What the system writes is the next packet, and the client has not stopped.
LEMMA WriteIsSend ==
  ASSUME Inv, \E i \in DOMAIN writes : WriteDone(i)
  PROVE  Promise!Send \/ UNCHANGED Promise!vars
<1>1. PICK i \in DOMAIN writes : WriteDone(i)
  OBVIOUS
<1>2. \/ wire' = wire
      \/ ~m_stopped /\ Len(wire) < given /\ wire' = Append(wire, Len(wire) + 1)
  BY <1>1, WriteDoneStep DEF Inv
<1>3. UNCHANGED <<given, m_stopped>>
  BY <1>1 DEF WriteDone
<1> QED  BY <1>2, <1>3 DEF Promise!Send, Promise!vars

\* Every step of the client is one of the outbox, or none.
LEMMA StepIsPromised == Inv /\ [Next]_vars => [Promise!Next]_(Promise!vars)
<1> SUFFICES ASSUME Inv, [Next]_vars PROVE Promise!Next \/ UNCHANGED Promise!vars
  OBVIOUS
<1>1. CASE Handlers
  BY <1>1 DEF Handlers, RunConnect, RunRead, RunPost, RunWrite, RunTimer, Run, Promise!vars
<1>2. CASE post_packet
  BY <1>2 DEF post_packet, Promise!Next, Promise!Give
<1>3. CASE \E i \in DOMAIN writes : WriteDone(i)
  BY <1>3, WriteIsSend DEF Promise!Next
<1>4. CASE \E th \in Threads : Shut(th)
  BY <1>4 DEF Shut, Promise!Next, Promise!Shut
<1>5. CASE Worker /\ ~Shut("worker")
  BY <1>5 DEF Worker, _start_connect, NotConnected, Connected, Notify, _read_responce,
              _deliver, SendPacket, Written, NotWritten, _check_deadline,
              _check_heartbeat, HeartbeatTimer, ReadStopped, Promise!vars
<1>6. CASE User /\ ~Shut("user")
  BY <1>6 DEF User, ReadStopped, Join, Promise!vars
<1>7. CASE ConnectDone \/ ReadDone \/ Tick \/ UserStop \/ run_from_stop \/ UNCHANGED vars
  BY <1>7 DEF ConnectDone, ReadDone, Tick, UserStop, run_from_stop, vars, Promise!vars
<1> QED  BY <1>1, <1>2, <1>3, <1>4, <1>5, <1>6, <1>7 DEF Next, Threads

\* The client implements the outbox: packets leave once each and in the order
\* they were posted, and none leaves when stop() has set m_stopped.
THEOREM ClientImplementsOutbox == Spec => ImplementsOutbox
<1>1. Init => Promise!Init
  BY DEF Init, Promise!Init
<1> QED  BY <1>1, LinesInvariant, StepIsPromised, PTL DEF Spec, ImplementsOutbox, Promise!Spec

-----------------------------------------------------------------------------
(* The deadlines of the client and what it reports of its connection, for  *)
(* any endpoints, packets and timeouts, with one thread and with two.      *)

(* The invariant.                                                          *)

Greeting == <<"hnd", "read_header", "reset_heartbeat", "wait_heartbeat">>
Begun == <<"read_header", "reset_heartbeat", "wait_heartbeat">>
Rearm == <<"reset_heartbeat", "wait_heartbeat">>

\* What a handler may have still to do when the client stops inside of it.
Leftovers == {<<>>, Begun, <<"read_header">>, <<"read_body">>}

Singles == {"connected", "not_connected", "connect", "wait_heartbeat", "reset_heartbeat",
            "read_header", "read_body", "send_packet", "written", "not_written",
            "check_read", "check_write"}

\* The programs of the worker, and those of the user.
Singly == {<<step>> : step \in Singles}
Stops == {<<s>> \o r : s \in {"stop", "shut"}, r \in Leftovers}
WorkerPrograms ==
  Singly \cup Stops \cup {<<>>, Greeting, Begun, Rearm, <<"quik_state", "read_header">>,
        <<"quik_state", "read_body">>, <<"deliver", "read_header">>,
        <<"check_heartbeat", "wait_heartbeat">>}
UserPrograms == {<<>>, <<"stop", "join">>, <<"shut", "join">>, <<"join">>, <<"done">>}

\* The step the worker takes next.
Now == IF prog["worker"] = <<>> THEN "idle" ELSE prog["worker"][1]

\* Steps between the completion of an operation and the start of the next.
Between == {"connected", "not_connected", "connect", "hnd", "quik_state", "deliver",
            "read_header", "read_body"}
\* Steps that are left of a handler when its callback has stopped the client.
Remains == {"idle", "read_header", "read_body", "reset_heartbeat", "wait_heartbeat",
            "send_packet"}

Connects == [kind: {"connect"}, res: {"pending", "ok", "error"}, age: 0 .. ConnectTimeout]
Reads == [kind: {"header", "body"}, res: {"pending", "ok", "heartbeat", "error"},
          age: 0 .. ReadTimeout]
Waits == {"none", "waiting", "expired", "aborted"}

TmrType == [Timers -> [left: Int, wait: Waits]]

TimersTyped ==
  /\ tmr \in TmrType
  /\ connect \in Connects \cup {NoOp} /\ read \in Reads \cup {NoOp}
  /\ prog["worker"] \in WorkerPrograms /\ prog["user"] \in UserPrograms

Left(t) == tmr[t].left
Armed(t) == tmr[t].wait # "none"

\* A connection is being made, or an answer awaited, and the read timer has as much
\* left as the operation lacks of its timeout.
ReadingOK ==
  IF Now \in Between THEN connect = NoOp /\ read = NoOp
  ELSE \/ connect # NoOp /\ read = NoOp /\ Left("read") = ConnectTimeout - connect.age
       \/ read # NoOp /\ connect = NoOp /\ Left("read") = ReadTimeout - read.age

\* So it is with writes, but there may be none.
WritingOK ==
  Now \notin {"written", "not_written"} =>
    IF writes = <<>> THEN Left("write") = Off /\ ~m_bWriteInProgress
    ELSE writes[1].age \in 0 .. WriteTimeout /\ Left("write") = WriteTimeout - writes[1].age

\* Deadlines are watched, but for the moment in which their handlers run.
WatchOK ==
  /\ Now # "check_read" => Armed("read")
  /\ Now # "check_write" => Armed("write")

\* Once there is a connection, a write is outstanding or a heartbeat scheduled, and
\* the handler of the heartbeat is waiting, or about to wait.
HeartOK ==
  (told # <<>> /\ Now # "hnd" /\ prog["worker"] # Begun) =>
    /\ \/ Armed("heartbeat") \/ Now \in {"check_heartbeat", "wait_heartbeat"}
       \/ prog["worker"] = Rearm
    /\ \/ writes # <<>> \/ Left("heartbeat") # Off
       \/ Now \in {"written", "not_written", "reset_heartbeat"}

\* The connection is reported when it is there, and once.
ToldOK ==
  told # <<>> =>
    /\ told = <<TRUE>> /\ connect = NoOp
    /\ Now \notin {"connected", "not_connected", "connect"}

RunningOK ==
  ~m_stopped =>
    /\ ToldOK
    /\ Now \notin {"stop", "shut"} => ReadingOK /\ WritingOK /\ WatchOK /\ HeartOK

\* With one thread the user and the worker take turns, so that nothing stops the
\* client while one of them is stopping it.
OneThreadOK ==
  ~threaded =>
    /\ prog["worker"] = <<>> \/ prog["user"] \in {<<>>, <<"done">>}
    /\ m_stopped => /\ Now \in Remains /\ prog["user"] # <<"shut", "join">>
                    /\ told \in {<<FALSE>>, <<TRUE, FALSE>>}

TimersInv == TimersTyped /\ RunningOK /\ OneThreadOK

-----------------------------------------------------------------------------
(* The programs.                                                           *)

LEMMA One ==
  ASSUME NEW a
  PROVE  <<a>> # <<>> /\ Head(<<a>>) = a /\ <<a>>[1] = a /\ Tail(<<a>>) = <<>> /\ Len(<<a>>) = 1
  OBVIOUS

LEMMA Two ==
  ASSUME NEW a, NEW b
  PROVE  /\ <<a, b>> # <<>> /\ Head(<<a, b>>) = a /\ <<a, b>>[1] = a
         /\ Tail(<<a, b>>) = <<b>> /\ Len(<<a, b>>) = 2
  OBVIOUS

LEMMA Four ==
  ASSUME NEW a, NEW b, NEW c, NEW d
  PROVE  Tail(<<a, b, c, d>>) = <<b, c, d>>
  OBVIOUS

LEMMA More ==
  /\ Greeting # <<>> /\ Head(Greeting) = "hnd" /\ Greeting[1] = "hnd" /\ Tail(Greeting) = Begun
  /\ Begun # <<>> /\ Head(Begun) = "read_header" /\ Begun[1] = "read_header"
  /\ Tail(Begun) = Rearm /\ Len(Begun) = 3 /\ Len(Greeting) = 4
  /\ Rearm # <<>> /\ Head(Rearm) = "reset_heartbeat" /\ Rearm[1] = "reset_heartbeat"
  /\ Tail(Rearm) = <<"wait_heartbeat">> /\ Len(Rearm) = 2
<1>1. ASSUME NEW a, NEW b, NEW c
      PROVE  /\ <<a, b, c>> # <<>> /\ Head(<<a, b, c>>) = a /\ <<a, b, c>>[1] = a
             /\ Tail(<<a, b, c>>) = <<b, c>> /\ Len(<<a, b, c>>) = 3
  OBVIOUS
<1>2. ASSUME NEW a, NEW b, NEW c, NEW d
      PROVE  /\ <<a, b, c, d>> # <<>> /\ Head(<<a, b, c, d>>) = a /\ <<a, b, c, d>>[1] = a
             /\ Tail(<<a, b, c, d>>) = <<b, c, d>> /\ Len(<<a, b, c, d>>) = 4
  OBVIOUS
<1>3. /\ Greeting # <<>> /\ Head(Greeting) = "hnd" /\ Greeting[1] = "hnd"
      /\ Tail(Greeting) = Begun /\ Len(Greeting) = 4
  <2> DEFINE g == <<"hnd", "read_header", "reset_heartbeat", "wait_heartbeat">>
  <2>1. g # <<>> /\ Head(g) = "hnd" /\ g[1] = "hnd" /\ Len(g) = 4
    BY <1>2
  <2>2. Tail(g) = <<"read_header", "reset_heartbeat", "wait_heartbeat">>
    BY Four, Zenon
  <2> QED  BY <2>1, <2>2 DEF Greeting, Begun
<1>4. /\ Begun # <<>> /\ Head(Begun) = "read_header" /\ Begun[1] = "read_header"
      /\ Tail(Begun) = Rearm /\ Len(Begun) = 3
  BY <1>1 DEF Begun, Rearm
<1>5. /\ Rearm # <<>> /\ Head(Rearm) = "reset_heartbeat" /\ Rearm[1] = "reset_heartbeat"
      /\ Tail(Rearm) = <<"wait_heartbeat">> /\ Len(Rearm) = 2
  BY Two DEF Rearm
<1> QED  BY <1>3, <1>4, <1>5

LEMMA Put ==
  ASSUME NEW S, NEW a \in S, NEW r \in Seq(S)
  PROVE  LET w == <<a>> \o r
         IN /\ w \in Seq(S) /\ w # <<>> /\ Head(w) = a /\ w[1] = a /\ Tail(w) = r
            /\ Len(w) = Len(r) + 1
<1> DEFINE w == <<a>> \o r
<1>1. /\ w \in Seq(S) /\ Len(w) = Len(r) + 1 /\ w[1] = a
      /\ \A i \in 1 .. Len(r) : w[i + 1] = r[i]
  OBVIOUS
<1>2. w # <<>>
  BY <1>1
<1> HIDE DEF w
<1>3. Head(w) = a
  BY <1>1, <1>2
<1>4. Tail(w) = r
  <2>1. /\ Tail(w) \in Seq(S) /\ Len(Tail(w)) = Len(r)
        /\ \A i \in 1 .. Len(r) : Tail(w)[i] = r[i]
    BY <1>1, <1>2, HeadTailProperties
  <2> QED  BY <2>1, SeqEqual
<1> QED  BY <1>1, <1>2, <1>3, <1>4 DEF w

LEMMA LeftoversTyped == Leftovers \subseteq Seq(Steps)
<1>1. ASSUME NEW S, NEW a \in S, NEW b \in S, NEW c \in S
      PROVE  <<a, b, c>> \in Seq(S)
  OBVIOUS
<1>2. {"read_header", "read_body", "reset_heartbeat", "wait_heartbeat"} \subseteq Steps
  BY DEF Steps
<1>3. Begun \in Seq(Steps)
  BY <1>1, <1>2 DEF Begun
<1>4. \A a \in Steps : <<a>> \in Seq(Steps)
  BY Single
<1>5. <<>> \in Seq(Steps)
  OBVIOUS
<1>6. <<"read_header">> \in Seq(Steps) /\ <<"read_body">> \in Seq(Steps)
  BY <1>2, <1>4
<1> QED  BY <1>3, <1>5, <1>6 DEF Leftovers

\* What is left of a program when its first step is done.
Tails(step) ==
  CASE step \in {"stop", "shut"} -> Leftovers
    [] step = "hnd" -> {Begun}
    [] step = "quik_state" -> {<<"read_header">>, <<"read_body">>}
    [] step = "deliver" -> {<<"read_header">>}
    [] step = "read_header" -> {<<>>, Rearm}
    [] step \in {"reset_heartbeat"} -> {<<>>, <<"wait_heartbeat">>}
    [] step = "check_heartbeat" -> {<<"wait_heartbeat">>}
    [] OTHER -> {<<>>}

LEMMA Table ==
  ASSUME NEW w \in WorkerPrograms, w # <<>>
  PROVE  /\ Head(w) = w[1] /\ Tail(w) \in Tails(w[1])
         /\ w[1] = "read_header" /\ w # Begun => Tail(w) = <<>>
         /\ w[1] = "reset_heartbeat" /\ w # Rearm => Tail(w) = <<>>
<1>1. CASE w \in Singly
  <2>1. PICK step \in Singles : w = <<step>>
    BY <1>1 DEF Singly
  <2>2. w[1] = step /\ Head(w) = step /\ Tail(w) = <<>>
    BY <2>1, One
  <2> QED  BY <2>2 DEF Tails, Singles
<1>2. CASE w \in Stops
  <2>1. PICK s \in {"stop", "shut"}, r \in Leftovers : w = <<s>> \o r
    BY <1>2 DEF Stops
  <2>2. s \in Steps /\ r \in Seq(Steps)
    BY <2>1, LeftoversTyped DEF Steps
  <2>3. w[1] = s /\ Head(w) = s /\ Tail(w) = r
    BY <2>1, <2>2, Put
  <2> QED  BY <2>3 DEF Tails
<1>3. CASE w \in {Greeting, Begun, Rearm}
  BY <1>3, More DEF Tails
<1>4. CASE w \in {<<"quik_state", "read_header">>, <<"quik_state", "read_body">>}
  <2>1. w[1] = "quik_state" /\ Head(w) = "quik_state"
        /\ Tail(w) \in {<<"read_header">>, <<"read_body">>}
    <3>1. ASSUME NEW b, w = <<"quik_state", b>>
          PROVE  w[1] = "quik_state" /\ Head(w) = "quik_state" /\ Tail(w) = <<b>>
      BY <3>1, Two
    <3> QED  BY <1>4, <3>1
  <2> QED  BY <2>1 DEF Tails
<1>5. CASE w \in {<<"deliver", "read_header">>, <<"check_heartbeat", "wait_heartbeat">>}
  <2>1. CASE w = <<"deliver", "read_header">>
    <3>1. w[1] = "deliver" /\ Head(w) = "deliver" /\ Tail(w) = <<"read_header">>
      BY <2>1, Two
    <3> QED  BY <3>1 DEF Tails
  <2>2. CASE w = <<"check_heartbeat", "wait_heartbeat">>
    <3>1. w[1] = "check_heartbeat" /\ Head(w) = w[1] /\ Tail(w) = <<"wait_heartbeat">>
      BY <2>2, Two
    <3> QED  BY <3>1 DEF Tails
  <2> QED  BY <1>5, <2>1, <2>2, Zenon
<1>6. \/ w \in Singly \/ w \in Stops \/ w \in {Greeting, Begun, Rearm}
      \/ w \in {<<"quik_state", "read_header">>, <<"quik_state", "read_body">>}
      \/ w \in {<<"deliver", "read_header">>, <<"check_heartbeat", "wait_heartbeat">>}
  BY Zenon DEF WorkerPrograms
<1> QED  BY <1>1, <1>2, <1>3, <1>4, <1>5, <1>6

\* How a program goes on.
LEMMA NowIs ==
  ASSUME NEW w, prog'["worker"] = w
  PROVE  /\ w = <<>> => Now' = "idle"
         /\ w # <<>> => Now' = w[1]
         /\ w = Greeting => Now' = "hnd"
         /\ w = Begun => Now' = "read_header"
         /\ w = Rearm => Now' = "reset_heartbeat"
         /\ \A a : w = <<a>> => Now' = a
         /\ \A a, b : w = <<a, b>> => Now' = a
<1>1. (w = <<>> => Now' = "idle") /\ (w # <<>> => Now' = w[1])
  BY DEF Now
<1>2. w \in {Greeting, Begun, Rearm} => w # <<>> /\ Now' = w[1]
  BY <1>1, More
<1>3. /\ w = Greeting => Now' = "hnd"
      /\ w = Begun => Now' = "read_header"
      /\ w = Rearm => Now' = "reset_heartbeat"
  BY <1>2, More
<1>4. \A a : w = <<a>> => Now' = a
  BY <1>1, One
<1>5. \A a, b : w = <<a, b>> => Now' = a
  BY <1>1, Two
<1> QED  BY <1>1, <1>3, <1>4, <1>5

\* The worker has done a step of its program.
LEMMA StepDone ==
  ASSUME TypesOK, TimersTyped, NEW step, At("worker", step)
  PROVE  /\ prog["worker"] # <<>> /\ Now = step
         /\ Tail(prog["worker"]) \in Tails(step) /\ Tail(prog["worker"]) \in Seq(Steps)
         /\ step = "read_header" /\ prog["worker"] # Begun => Tail(prog["worker"]) = <<>>
         /\ step = "reset_heartbeat" /\ prog["worker"] # Rearm => Tail(prog["worker"]) = <<>>
         /\ step = "hnd" => Tail(prog["worker"]) = Begun
         /\ Return => /\ prog'["worker"] = Tail(prog["worker"])
                      /\ prog'["user"] = prog["user"]
         /\ \A a \in Steps : Goto("worker", <<a>>) =>
              /\ prog'["worker"] = <<a>> \o Tail(prog["worker"])
              /\ prog'["user"] = prog["user"]
<1> DEFINE w == prog["worker"]
<1>1. w \in Seq(Steps) /\ prog \in [Threads -> Seq(Steps)] /\ w \in WorkerPrograms
  BY DEF TypesOK, Threads, TimersTyped
<1>2. w # <<>> /\ Head(w) = step
  BY DEF At
<1>3. /\ w[1] = step /\ Tail(w) \in Tails(step)
      /\ step = "read_header" /\ w # Begun => Tail(w) = <<>>
      /\ step = "reset_heartbeat" /\ w # Rearm => Tail(w) = <<>>
  BY <1>1, <1>2, Table
<1>4. Tail(w) \in Seq(Steps) /\ <<>> \o Tail(w) = Tail(w)
  <2>1. Tail(w) \in Seq(Steps)
    BY <1>1, <1>2, HeadTailProperties
  <2> QED  BY <2>1
<1>5. Return => prog'["worker"] = Tail(w) /\ prog'["user"] = prog["user"]
  BY <1>1, <1>4 DEF Return, Goto, Threads
<1>6. \A a \in Steps : Goto("worker", <<a>>) =>
        prog'["worker"] = <<a>> \o Tail(w) /\ prog'["user"] = prog["user"]
  BY <1>1 DEF Goto, Threads
<1>7. step = "hnd" => Tail(w) = Begun
  BY <1>3 DEF Tails
<1> QED  BY <1>2, <1>3, <1>4, <1>5, <1>6, <1>7 DEF Now

LEMMA Alone ==
  ASSUME NEW a \in Steps
  PROVE  <<a>> \o <<>> = <<a>>
<1>1. <<a>> \in Seq(Steps)
  BY Single
<1> QED  BY <1>1

\* The programs steps lead to.
LEMMA Known ==
  /\ {<<>>, Greeting, Begun, Rearm, <<"quik_state", "read_header">>,
      <<"quik_state", "read_body">>, <<"deliver", "read_header">>,
      <<"check_heartbeat", "wait_heartbeat">>} \subseteq WorkerPrograms
  /\ \A a \in Singles : <<a>> \in WorkerPrograms
  /\ Leftovers \subseteq WorkerPrograms
  /\ \A r \in Leftovers : <<"stop">> \o r \in WorkerPrograms /\ <<"shut">> \o r \in WorkerPrograms
  /\ <<"stop">> \in WorkerPrograms
<1>1. \A a \in Singles : <<a>> \in WorkerPrograms
  BY DEF WorkerPrograms, Singly
<1>2. \A r \in Leftovers : <<"stop">> \o r \in WorkerPrograms /\ <<"shut">> \o r \in WorkerPrograms
  <2>1. ASSUME NEW r \in Leftovers, NEW s \in {"stop", "shut"} PROVE <<s>> \o r \in Stops
    BY DEF Stops
  <2> QED  BY <2>1 DEF WorkerPrograms
<1>3. Leftovers \subseteq WorkerPrograms
  BY <1>1 DEF Leftovers, WorkerPrograms, Singles
<1>4. <<"stop">> \in WorkerPrograms
  <2>1. <<"stop">> \o <<>> = <<"stop">>
    BY Alone DEF Steps
  <2>2. <<>> \in Leftovers
    BY DEF Leftovers
  <2> QED  BY <1>2, <2>1, <2>2
<1>5. {<<>>, Greeting, Begun, Rearm, <<"quik_state", "read_header">>,
       <<"quik_state", "read_body">>, <<"deliver", "read_header">>,
       <<"check_heartbeat", "wait_heartbeat">>} \subseteq WorkerPrograms
  BY DEF WorkerPrograms
<1> QED  BY <1>1, <1>2, <1>3, <1>4, <1>5

-----------------------------------------------------------------------------
(* The timers and the operations.                                          *)

\* The expiry is moved; the wait is cancelled or goes on.
LEMMA Timer ==
  ASSUME NEW s \in TmrType, NEW t \in Timers, NEW left \in Int
  PROVE  /\ Expires(s, t, left) \in TmrType
         /\ Expires(s, t, left)[t].left = left
         /\ Expires(s, t, left)[t].wait = "none" <=> s[t].wait = "none"
         /\ \A u \in Timers : u # t => Expires(s, t, left)[u] = s[u]
<1> DEFINE e == Expires(s, t, left)
<1>1. s[t] \in [left: Int, wait: Waits]
  BY DEF TmrType
<1>2. /\ e[t].left = left
      /\ e[t].wait = IF s[t].wait = "waiting" THEN "aborted" ELSE s[t].wait
      /\ e[t] \in [left: Int, wait: Waits]
  BY <1>1 DEF Expires, TmrType, Waits
<1>3. e \in TmrType /\ \A u \in Timers : u # t => e[u] = s[u]
  BY <1>2 DEF Expires, TmrType
<1> QED  BY <1>2, <1>3

\* A wait begins.
LEMMA Awaited ==
  ASSUME NEW s \in TmrType, NEW t \in Timers
  PROVE  /\ AsyncWait(s, t) \in TmrType
         /\ AsyncWait(s, t)[t].left = s[t].left /\ AsyncWait(s, t)[t].wait # "none"
         /\ \A u \in Timers : u # t => AsyncWait(s, t)[u] = s[u]
<1> DEFINE e == AsyncWait(s, t)
<1>1. s[t] \in [left: Int, wait: Waits]
  BY DEF TmrType
<1>2. /\ e[t].left = s[t].left
      /\ e[t].wait = IF s[t].left = 0 THEN "expired" ELSE "waiting"
      /\ e[t] \in [left: Int, wait: Waits]
  BY <1>1 DEF AsyncWait, TmrType, Waits
<1>3. e \in TmrType /\ \A u \in Timers : u # t => e[u] = s[u]
  BY <1>2 DEF AsyncWait, TmrType
<1> QED  BY <1>2, <1>3

LEMMA Timeouts ==
  /\ ConnectTimeout \in Int /\ ConnectTimeout > 0 /\ ReadTimeout \in Int /\ ReadTimeout > 0
  /\ WriteTimeout \in Int /\ WriteTimeout > 0 /\ HeartbeatPeriod \in Int /\ HeartbeatPeriod > 0
  BY TimeoutAssumption

LEMMA Operations ==
  /\ NoOp.res = "none" /\ NoOp.kind = "none"
  /\ \A op \in Connects : op # NoOp /\ op.res # "none" /\ op.age \in Int
                          /\ 0 <= op.age /\ op.age <= ConnectTimeout
  /\ \A op \in Reads : op # NoOp /\ op.res # "none" /\ op.age \in Int
                       /\ 0 <= op.age /\ op.age <= ReadTimeout
  /\ Abort(NoOp) = NoOp
<1>2. NoOp.res = "none" /\ NoOp.kind = "none" /\ Abort(NoOp) = NoOp
  BY DEF NoOp, Op, Abort
<1> QED  BY <1>2, Timeouts DEF Connects, Reads

\* What the worker has to do is enough to keep the turns of the two.
LEMMA TurnsKept ==
  ASSUME OneThreadOK, prog["worker"] # <<>>, UNCHANGED <<threaded, m_stopped, told>>,
         prog'["user"] = prog["user"], ~threaded /\ m_stopped => Now' \in Remains
  PROVE  OneThreadOK'
  BY DEF OneThreadOK

-----------------------------------------------------------------------------
(* The event loop takes a handler.                                         *)

LEMMA Taken ==
  ASSUME TypesOK, TimersTyped, OneThreadOK, NEW steps \in WorkerPrograms, Run(steps)
  PROVE  /\ prog["worker"] = <<>> /\ Now = "idle"
         /\ prog'["worker"] = (IF m_stopped THEN <<>> ELSE steps)
         /\ prog'["worker"] \in WorkerPrograms /\ prog'["user"] = prog["user"]
         /\ UNCHANGED <<threaded, m_stopped, out, told>>
         /\ OneThreadOK'
<1>1. /\ prog["worker"] = <<>> /\ (threaded \/ prog["user"] \in {<<>>, <<"done">>})
      /\ UNCHANGED <<threaded, m_stopped, out, told>>
      /\ prog' = [prog EXCEPT !["worker"] = IF m_stopped THEN <<>> ELSE steps]
  BY DEF Run, CanRun
<1>2. /\ prog'["worker"] = (IF m_stopped THEN <<>> ELSE steps)
      /\ prog'["user"] = prog["user"]
  BY <1>1 DEF TypesOK, Threads
<1>3. m_stopped => Now' = "idle"
  BY <1>2 DEF Now
<1>4. OneThreadOK'
  BY <1>1, <1>2, <1>3 DEF OneThreadOK, Remains
<1> QED  BY <1>1, <1>2, <1>4, Known DEF Now

LEMMA RunConnectTimes == ASSUME Inv, TimersInv, RunConnect PROVE TimersInv'
<1>1. TypesOK /\ TimersTyped /\ OneThreadOK /\ (~m_stopped => RunningOK)
  BY DEF Inv, LinesInv, TimersInv
<1> DEFINE w == <<IF connect.res = "ok" THEN "connected" ELSE "not_connected">>
<1>2. /\ connect.res \in {"ok", "error"} /\ connect' = NoOp /\ Run(w)
      /\ UNCHANGED <<read, writes, tmr, posts>>
  BY DEF RunConnect
<1>3. w \in WorkerPrograms /\ w # <<>> /\ w \in {<<"connected">>, <<"not_connected">>}
  BY Known, One DEF Singles
<1> HIDE DEF w
<1>4. /\ prog["worker"] = <<>> /\ Now = "idle"
      /\ prog'["worker"] = (IF m_stopped THEN <<>> ELSE w)
      /\ prog'["worker"] \in WorkerPrograms /\ prog'["user"] = prog["user"]
      /\ UNCHANGED <<threaded, m_stopped, out, told>>
      /\ OneThreadOK'
  BY <1>1, <1>2, <1>3, Taken
<1>5. TimersTyped'
  BY <1>1, <1>2, <1>4 DEF TimersTyped
<1>6. ASSUME ~m_stopped PROVE RunningOK'
  <2>1. Now' \in {"connected", "not_connected"}
    BY <1>3, <1>4, <1>6, NowIs
  <2>2. connect # NoOp /\ ToldOK /\ ReadingOK /\ WritingOK /\ WatchOK
    BY <1>1, <1>2, <1>4, <1>6, Operations DEF RunningOK
  <2>3. told = <<>> /\ read = NoOp
    BY <1>4, <2>2 DEF ToldOK, ReadingOK, Between
  <2>4. told' = <<>> /\ connect' = NoOp /\ read' = NoOp
    BY <1>2, <1>4, <2>3
  <2>5. ToldOK' /\ HeartOK' /\ ReadingOK'
    BY <2>1, <2>4 DEF ToldOK, HeartOK, ReadingOK, Between
  <2>6. WritingOK' /\ WatchOK'
    BY <1>2, <1>4, <2>1, <2>2 DEF WritingOK, WatchOK, out, Left, Armed
  <2> QED  BY <2>5, <2>6 DEF RunningOK
<1> QED  BY <1>4, <1>5, <1>6 DEF TimersInv, RunningOK

LEMMA RunReadTimes == ASSUME Inv, TimersInv, RunRead PROVE TimersInv'
<1>1. TypesOK /\ TimersTyped /\ OneThreadOK /\ ReadOK
  BY DEF Inv, LinesInv, TimersInv
<1>2. PICK w \in {<<"stop">>, <<"quik_state", "read_header">>,
                  <<"quik_state", "read_body">>, <<"deliver", "read_header">>} :
        read.res \in {"ok", "heartbeat", "error"} /\ read' = NoOp /\ Run(w)
        /\ UNCHANGED <<connect, writes, tmr, posts>>
  <2>1. read.kind \in {"header", "body"} \/ read.res = "none"
    BY <1>1 DEF ReadOK, ReadOps
  <2> QED  BY <2>1, Zenon DEF RunRead
<1>3. w \in WorkerPrograms
  BY Known
<1>4. /\ prog["worker"] = <<>> /\ Now = "idle"
      /\ prog'["worker"] = (IF m_stopped THEN <<>> ELSE w)
      /\ prog'["worker"] \in WorkerPrograms /\ prog'["user"] = prog["user"]
      /\ UNCHANGED <<threaded, m_stopped, out, told>>
      /\ OneThreadOK'
  BY <1>1, <1>2, <1>3, Taken
<1>5. TimersTyped'
  BY <1>1, <1>2, <1>4 DEF TimersTyped
<1>6. ASSUME ~m_stopped PROVE RunningOK'
  <2>1. Now' \in {"stop", "quik_state", "deliver"}
    BY <1>2, <1>4, <1>6, NowIs
  <2>2. read # NoOp /\ ToldOK /\ ReadingOK /\ WritingOK /\ WatchOK /\ HeartOK
    BY <1>2, <1>4, <1>6, Operations DEF RunningOK, TimersInv
  <2>3. connect' = NoOp /\ read' = NoOp
    BY <1>2, <1>4, <2>2 DEF ReadingOK, Between
  <2>4. ToldOK'
    BY <1>4, <2>1, <2>2, <2>3 DEF ToldOK
  <2>5. Now' \notin {"stop", "shut"} => ReadingOK'
    BY <2>1, <2>3 DEF ReadingOK, Between
  <2>6. WritingOK' /\ WatchOK'
    BY <1>2, <1>4, <2>1, <2>2 DEF WritingOK, WatchOK, out, Left, Armed
  <2>7. HeartOK'
    <3>1. told # <<>> => /\ Armed("heartbeat")
                         /\ writes # <<>> \/ Left("heartbeat") # Off
      BY <1>4, <2>2, More DEF HeartOK
    <3> QED  BY <1>2, <1>4, <3>1 DEF HeartOK, Left, Armed
  <2> QED  BY <2>4, <2>5, <2>6, <2>7 DEF RunningOK
<1> QED  BY <1>4, <1>5, <1>6 DEF TimersInv, RunningOK

LEMMA RunWriteTimes ==
  ASSUME Inv, TimersInv, NEW i \in DOMAIN writes, RunWrite(i) PROVE TimersInv'
<1>1. TypesOK /\ TimersTyped /\ OneThreadOK
  BY DEF Inv, LinesInv, TimersInv
<1> DEFINE w == <<IF writes[i].res = "ok" THEN "written" ELSE "not_written">>
<1>2. /\ writes' = RemoveAt(writes, i) /\ Run(w)
      /\ UNCHANGED <<connect, read, tmr, posts>>
  BY DEF RunWrite
<1>3. w \in WorkerPrograms /\ w \in {<<"written">>, <<"not_written">>}
  BY Known DEF Singles
<1> HIDE DEF w
<1>4. /\ prog["worker"] = <<>> /\ Now = "idle"
      /\ prog'["worker"] = (IF m_stopped THEN <<>> ELSE w)
      /\ prog'["worker"] \in WorkerPrograms /\ prog'["user"] = prog["user"]
      /\ UNCHANGED <<threaded, m_stopped, out, told>>
      /\ OneThreadOK'
  BY <1>1, <1>2, <1>3, Taken
<1>5. TimersTyped'
  BY <1>1, <1>2, <1>4 DEF TimersTyped
<1>6. ASSUME ~m_stopped PROVE RunningOK'
  <2>1. Now' \in {"written", "not_written"}
    BY <1>3, <1>4, <1>6, NowIs
  <2>2. ToldOK /\ ReadingOK /\ WatchOK /\ HeartOK
    BY <1>4, <1>6 DEF RunningOK, TimersInv
  <2>3. ToldOK' /\ WritingOK'
    BY <1>2, <1>4, <2>1, <2>2 DEF ToldOK, WritingOK
  <2>4. ReadingOK' /\ WatchOK'
    BY <1>2, <1>4, <2>1, <2>2 DEF ReadingOK, WatchOK, Between, Left, Armed
  <2>5. HeartOK'
    <3>1. told # <<>> => Armed("heartbeat")
      BY <1>4, <2>2, More DEF HeartOK
    <3> QED  BY <1>2, <1>4, <2>1, <3>1 DEF HeartOK, Left, Armed
  <2> QED  BY <2>3, <2>4, <2>5 DEF RunningOK
<1> QED  BY <1>4, <1>5, <1>6 DEF TimersInv, RunningOK

LEMMA RunTimerTimes ==
  ASSUME Inv, TimersInv, NEW t \in Timers, RunTimer(t) PROVE TimersInv'
<1>1. TypesOK /\ TimersTyped /\ OneThreadOK
  BY DEF Inv, LinesInv, TimersInv
<1>2. PICK w \in {<<"check_read">>, <<"check_write">>, <<"wait_heartbeat">>,
                  <<"check_heartbeat", "wait_heartbeat">>} :
        /\ tmr' = [tmr EXCEPT ![t].wait = "none"] /\ Run(w)
        /\ UNCHANGED <<connect, read, writes, posts>>
        /\ t = "read" => w = <<"check_read">>
        /\ t = "write" => w = <<"check_write">>
        /\ t = "heartbeat" => w \in {<<"wait_heartbeat">>,
                                     <<"check_heartbeat", "wait_heartbeat">>}
  <2>1. CASE t = "read"
    BY <2>1 DEF RunTimer
  <2>2. CASE t = "write"
    BY <2>2 DEF RunTimer
  <2>3. CASE t = "heartbeat"
    BY <2>3 DEF RunTimer
  <2> QED  BY <2>1, <2>2, <2>3 DEF Timers
<1>3. w \in WorkerPrograms
  BY Known DEF Singles
<1>4. /\ prog["worker"] = <<>> /\ Now = "idle"
      /\ prog'["worker"] = (IF m_stopped THEN <<>> ELSE w)
      /\ prog'["worker"] \in WorkerPrograms /\ prog'["user"] = prog["user"]
      /\ UNCHANGED <<threaded, m_stopped, out, told>>
      /\ OneThreadOK'
  BY <1>1, <1>2, <1>3, Taken
<1>5. /\ tmr' \in TmrType
      /\ \A u \in Timers : Left(u)' = Left(u) /\ (u # t => Armed(u)' = Armed(u))
  <2>1. tmr \in TmrType
    BY <1>1 DEF TimersTyped
  <2> QED  BY <1>2, <2>1 DEF TmrType, Waits, Left, Armed
<1>6. TimersTyped'
  BY <1>1, <1>2, <1>4, <1>5 DEF TimersTyped
<1>7. ASSUME ~m_stopped PROVE RunningOK'
  <2>1. /\ t = "read" => Now' = "check_read"
        /\ t = "write" => Now' = "check_write"
        /\ t = "heartbeat" => Now' \in {"wait_heartbeat", "check_heartbeat"}
    BY <1>2, <1>4, <1>7, NowIs
  <2>2. ToldOK /\ ReadingOK /\ WritingOK /\ WatchOK /\ HeartOK
    BY <1>4, <1>7 DEF RunningOK, TimersInv
  <2>3. t = "read" \/ t = "write" \/ t = "heartbeat"
    BY DEF Timers
  <2>4. ToldOK' /\ ReadingOK'
    BY <1>2, <1>4, <1>5, <2>1, <2>2, <2>3 DEF ToldOK, ReadingOK, Between, Timers
  <2>5. WritingOK' /\ WatchOK'
    BY <1>2, <1>4, <1>5, <2>1, <2>2, <2>3 DEF WritingOK, WatchOK, Timers, out
  <2>6. HeartOK'
    <3>1. told # <<>> => /\ Armed("heartbeat")
                         /\ writes # <<>> \/ Left("heartbeat") # Off
      BY <1>4, <2>2, More DEF HeartOK
    <3> QED  BY <1>2, <1>4, <1>5, <2>1, <2>3, <3>1 DEF HeartOK, Timers
  <2> QED  BY <2>4, <2>5, <2>6 DEF RunningOK
<1> QED  BY <1>4, <1>6, <1>7 DEF TimersInv, RunningOK

LEMMA RunPostTimes == ASSUME Inv, TimersInv, RunPost PROVE TimersInv'
<1>1. TypesOK /\ TimersTyped /\ OneThreadOK
  BY DEF Inv, LinesInv, TimersInv
<1>2. /\ prog["worker"] = <<>> /\ (threaded \/ prog["user"] \in {<<>>, <<"done">>})
      /\ prog' = [prog EXCEPT !["worker"] = <<"send_packet">>]
      /\ UNCHANGED <<threaded, m_stopped, connect, read, writes, tmr, m_bWriteInProgress, told>>
  BY DEF RunPost, CanRun, net
<1>3. prog'["worker"] = <<"send_packet">> /\ prog'["user"] = prog["user"]
  BY <1>1, <1>2 DEF TypesOK, Threads
<1>4. Now = "idle" /\ Now' = "send_packet" /\ <<"send_packet">> \in WorkerPrograms
  BY <1>2, <1>3, NowIs, Known DEF Now, Singles
<1>5. TimersTyped'
  BY <1>1, <1>2, <1>3, <1>4 DEF TimersTyped
<1>6. OneThreadOK'
  BY <1>1, <1>2, <1>3, <1>4 DEF OneThreadOK, Remains
<1>7. ASSUME ~m_stopped PROVE RunningOK'
  <2>1. ToldOK /\ ReadingOK /\ WritingOK /\ WatchOK /\ HeartOK
    BY <1>4, <1>7 DEF RunningOK, TimersInv
  <2>2. ToldOK' /\ ReadingOK' /\ WritingOK' /\ WatchOK'
    BY <1>2, <1>4, <2>1 DEF ToldOK, ReadingOK, WritingOK, WatchOK, Between, Left, Armed
  <2>3. HeartOK'
    <3>1. told # <<>> => /\ Armed("heartbeat")
                         /\ writes # <<>> \/ Left("heartbeat") # Off
      BY <1>2, <1>4, <2>1, More DEF HeartOK
    <3> QED  BY <1>2, <1>4, <3>1 DEF HeartOK, Left, Armed
  <2> QED  BY <2>2, <2>3 DEF RunningOK
<1> QED  BY <1>2, <1>5, <1>6, <1>7 DEF TimersInv, RunningOK

-----------------------------------------------------------------------------
(* The handlers connect and read.                                          *)

LEMMA StartConnectTimes == ASSUME Inv, TimersInv, _start_connect PROVE TimersInv'
<1>1. TypesOK /\ TimersTyped /\ OneThreadOK
  BY DEF Inv, LinesInv, TimersInv
<1>2. /\ At("worker", "connect")
      /\ UNCHANGED <<threaded, m_stopped, read, writes, out, told>>
      /\ \/ /\ tmr' = Expires(tmr, "read", ConnectTimeout)
            /\ connect' = Op("connect", "pending") /\ Return
         \/ Goto("worker", <<"stop">>) /\ UNCHANGED <<tmr, connect>>
  BY DEF _start_connect
<1>3. /\ prog["worker"] # <<>> /\ Now = "connect" /\ Tail(prog["worker"]) = <<>>
      /\ Return => prog'["worker"] = <<>> /\ prog'["user"] = prog["user"]
      /\ Goto("worker", <<"stop">>) => /\ prog'["worker"] = <<"stop">>
                                       /\ prog'["user"] = prog["user"]
  <2>1. /\ prog["worker"] # <<>> /\ Now = "connect" /\ Tail(prog["worker"]) \in Tails("connect")
        /\ Return => /\ prog'["worker"] = Tail(prog["worker"]) /\ prog'["user"] = prog["user"]
        /\ "stop" \in Steps
        /\ \A a \in Steps : Goto("worker", <<a>>) =>
             prog'["worker"] = <<a>> \o Tail(prog["worker"]) /\ prog'["user"] = prog["user"]
    BY <1>1, <1>2, StepDone DEF Steps
  <2>2. Tail(prog["worker"]) = <<>>
    BY <2>1 DEF Tails
  <2> QED  BY <2>1, <2>2, Alone
<1>4. /\ prog'["worker"] \in {<<>>, <<"stop">>} /\ prog'["user"] = prog["user"]
      /\ prog'["worker"] \in WorkerPrograms
      /\ Now' \in {"idle", "stop"}
  BY <1>2, <1>3, NowIs, Known
<1>5. /\ Op("connect", "pending") \in Connects
      /\ Op("connect", "pending").age = 0 /\ Op("connect", "pending") # NoOp
  BY Operations, Timeouts DEF Op, Connects
<1> DEFINE e == Expires(tmr, "read", ConnectTimeout)
<1>6. /\ e \in TmrType /\ e["read"].left = ConnectTimeout
      /\ e["read"].wait = "none" <=> tmr["read"].wait = "none"
      /\ e["write"] = tmr["write"] /\ e["heartbeat"] = tmr["heartbeat"]
  <2>1. ConnectTimeout \in Int /\ tmr \in TmrType /\ Timers = {"read", "write", "heartbeat"} /\ "read" \in Timers
    BY <1>1, Timeouts DEF TimersTyped, Timers
  <2>2. /\ e \in TmrType /\ e["read"].left = ConnectTimeout
        /\ e["read"].wait = "none" <=> tmr["read"].wait = "none"
        /\ \A u \in Timers : u # "read" => e[u] = tmr[u]
    BY <2>1, Timer
  <2> QED  BY <2>1, <2>2
<1>7. TimersTyped'
  BY <1>1, <1>2, <1>4, <1>5, <1>6 DEF TimersTyped
<1>8. OneThreadOK'
  BY <1>1, <1>2, <1>3, <1>4, TurnsKept DEF OneThreadOK, Remains
<1>9. ASSUME ~m_stopped PROVE RunningOK'
  <2>1. ToldOK /\ ReadingOK /\ WritingOK /\ WatchOK /\ HeartOK
    BY <1>3, <1>9 DEF RunningOK, TimersInv
  <2>2. told = <<>> /\ told' = <<>>
    BY <1>2, <1>3, <2>1 DEF ToldOK
  <2>3. ToldOK' /\ HeartOK'
    BY <2>2 DEF ToldOK, HeartOK
  <2>4. CASE Now' = "stop"
    BY <2>3, <2>4 DEF RunningOK
  <2>5. CASE Now' = "idle"
    <3>1. tmr' = Expires(tmr, "read", ConnectTimeout) /\ connect' = Op("connect", "pending")
      BY <1>2, <1>3, <2>5, NowIs
    <3>2. ReadingOK'
      BY <1>2, <1>3, <1>5, <1>6, <2>1, <2>5, <3>1, Operations, Timeouts DEF ReadingOK, Between, Left
    <3>3. WritingOK' /\ WatchOK'
      BY <1>2, <1>3, <1>6, <2>1, <2>5, <3>1 DEF WritingOK, WatchOK, Left, Armed, out
    <3> QED  BY <2>3, <3>2, <3>3 DEF RunningOK
  <2> QED  BY <1>4, <2>4, <2>5
<1> QED  BY <1>2, <1>7, <1>8, <1>9 DEF TimersInv, RunningOK

LEMMA NotConnectedTimes == ASSUME Inv, TimersInv, NotConnected PROVE TimersInv'
<1>1. TypesOK /\ TimersTyped /\ OneThreadOK
  BY DEF Inv, LinesInv, TimersInv
<1>2. PICK step \in {"connected", "not_connected"} :
        /\ At("worker", step) /\ Goto("worker", <<"connect">>)
        /\ UNCHANGED net \/ Close
        /\ UNCHANGED <<threaded, m_stopped, tmr, out, told>>
  BY DEF NotConnected
<1>3. /\ prog["worker"] # <<>> /\ Now = step /\ Tail(prog["worker"]) = <<>>
      /\ prog'["worker"] = <<"connect">> /\ prog'["user"] = prog["user"]
  BY <1>1, <1>2, StepDone, Alone DEF Tails, Steps
<1>4. Now' = "connect" /\ <<"connect">> \in WorkerPrograms
  BY <1>3, NowIs, Known DEF Singles
<1>5. /\ connect' \in Connects \cup {NoOp} /\ read' \in Reads \cup {NoOp}
      /\ connect = NoOp => connect' = NoOp
      /\ read = NoOp => read' = NoOp
  <2>1. CASE UNCHANGED net
    BY <1>1, <2>1 DEF TimersTyped, net
  <2>2. CASE Close
    <3>1. \A op \in Connects : Abort(op) \in Connects
      BY DEF Abort, Connects
    <3>2. \A op \in Reads : Abort(op) \in Reads
      BY DEF Abort, Reads
    <3> QED  BY <1>1, <2>2, <3>1, <3>2, Operations DEF TimersTyped, Close
  <2> QED  BY <1>2, <2>1, <2>2
<1>6. SameWrites /\ \A i \in DOMAIN writes : writes'[i].age = writes[i].age
  <2>1. CASE UNCHANGED net
    BY <1>1, <2>1, WritesKept DEF net
  <2>2. CASE Close
    <3>1. writes' = [i \in DOMAIN writes |-> Abort(writes[i])]
      BY <2>2 DEF Close
    <3>2. \A op \in WriteOps : Abort(op).age = op.age
      BY DEF Abort, WriteOps
    <3>3. \A i \in DOMAIN writes : writes[i] \in WriteOps
      BY <1>1, OneWrite
    <3> QED  BY <1>1, <3>1, <3>2, <3>3, Aborted
  <2> QED  BY <1>2, <2>1, <2>2
<1>7. TimersTyped'
  BY <1>1, <1>2, <1>3, <1>4, <1>5 DEF TimersTyped
<1>8. OneThreadOK'
  BY <1>1, <1>2, <1>3, TurnsKept DEF OneThreadOK, Remains
<1>9. ASSUME ~m_stopped PROVE RunningOK'
  <2>1. ToldOK /\ ReadingOK /\ WritingOK /\ WatchOK
    BY <1>3, <1>9 DEF RunningOK, TimersInv
  <2>2. told = <<>> /\ told' = <<>>
    BY <1>2, <1>3, <2>1 DEF ToldOK
  <2>3. ToldOK' /\ HeartOK'
    BY <2>2 DEF ToldOK, HeartOK
  <2>4. ReadingOK' /\ WatchOK'
    BY <1>2, <1>3, <1>4, <1>5, <2>1 DEF ReadingOK, WatchOK, Between, Armed
  <2>5. WritingOK'
    <3>1. writes # <<>> => writes'[1].age = writes[1].age
      BY <1>1, <1>6, OneWrite
    <3>2. writes = <<>> <=> writes' = <<>>
      BY <1>1, <1>6, EmptySeq DEF SameWrites, TypesOK
    <3> QED
      BY <1>2, <1>3, <2>1, <3>1, <3>2 DEF WritingOK, Left, out
  <2> QED  BY <2>3, <2>4, <2>5 DEF RunningOK
<1> QED  BY <1>2, <1>7, <1>8, <1>9 DEF TimersInv, RunningOK

LEMMA ConnectedTimes == ASSUME Inv, TimersInv, Connected PROVE TimersInv'
<1>1. TypesOK /\ TimersTyped /\ OneThreadOK
  BY DEF Inv, LinesInv, TimersInv
<1>2. /\ At("worker", "connected") /\ told' = Append(told, TRUE)
      /\ Goto("worker", Greeting)
      /\ UNCHANGED <<threaded, m_stopped, connect, read, writes, tmr, out>>
  BY DEF Connected, Greeting, net
<1>3. prog["worker"] # <<>> /\ Now = "connected" /\ Tail(prog["worker"]) = <<>>
  <2>1. prog["worker"] # <<>> /\ Now = "connected" /\ Tail(prog["worker"]) \in Tails("connected")
    BY <1>1, <1>2, StepDone
  <2> QED  BY <2>1 DEF Tails
<1>4. prog'["worker"] = Greeting /\ prog'["user"] = prog["user"]
  <2>1. Greeting \in Seq(Steps)
    BY Programs DEF Greeting
  <2>2. Greeting \o <<>> = Greeting
    BY <2>1
  <2> QED  BY <1>1, <1>2, <1>3, <2>2 DEF Goto, TypesOK, Threads
<1>5. Now' = "hnd"
  BY <1>4, NowIs
<1>6. TimersTyped'
  BY <1>1, <1>2, <1>4, Known DEF TimersTyped
<1>7. OneThreadOK'
  BY <1>1, <1>2, <1>3, <1>4 DEF OneThreadOK, Remains
<1>8. ASSUME ~m_stopped PROVE RunningOK'
  <2>1. ToldOK /\ ReadingOK /\ WritingOK /\ WatchOK
    BY <1>3, <1>8 DEF RunningOK, TimersInv
  <2>2. told = <<>> /\ connect = NoOp /\ read = NoOp
    BY <1>3, <2>1 DEF ToldOK, ReadingOK, Between
  <2>3. told' = <<TRUE>>
    BY <1>2, <2>2
  <2>4. ToldOK' /\ ReadingOK' /\ HeartOK'
    BY <1>2, <1>5, <2>2, <2>3 DEF ToldOK, ReadingOK, HeartOK, Between
  <2>5. WritingOK' /\ WatchOK'
    BY <1>2, <1>3, <1>5, <2>1 DEF WritingOK, WatchOK, Left, Armed, out
  <2> QED  BY <2>4, <2>5 DEF RunningOK
<1> QED  BY <1>2, <1>6, <1>7, <1>8 DEF TimersInv, RunningOK

\* A callback returns, or with one thread stops the client first.
LEMMA CallbackGoes ==
  ASSUME TypesOK, TimersTyped, NEW step \in {"hnd", "quik_state", "deliver"},
         At("worker", step), Callback
  PROVE  /\ prog["worker"] # <<>> /\ Now = step /\ prog'["user"] = prog["user"]
         /\ prog'["worker"] \in WorkerPrograms
         /\ \/ /\ prog'["worker"] = Tail(prog["worker"])
               /\ prog'["worker"] = IF step = "hnd" THEN Begun
                                    ELSE IF step = "deliver" THEN <<"read_header">>
                                    ELSE prog'["worker"]
               /\ Now' \in {"read_header", "read_body"}
               /\ step # "hnd" => prog'["worker"] # Begun
            \/ ~threaded /\ ~m_stopped /\ Now' = "stop"
<1> DEFINE r == Tail(prog["worker"])
<1>1. /\ prog["worker"] # <<>> /\ Now = step /\ r \in Tails(step) /\ r \in Seq(Steps)
      /\ Return => prog'["worker"] = r /\ prog'["user"] = prog["user"]
      /\ Goto("worker", <<"stop">>) =>
           prog'["worker"] = <<"stop">> \o r /\ prog'["user"] = prog["user"]
  BY StepDone DEF Steps
<1>2. /\ r \in Leftovers /\ r \in {Begun, <<"read_header">>, <<"read_body">>}
      /\ step = "hnd" => r = Begun
      /\ step = "deliver" => r = <<"read_header">>
      /\ step # "hnd" => r \in {<<"read_header">>, <<"read_body">>}
  BY <1>1 DEF Tails, Leftovers
<1>3. Begun # <<"read_header">> /\ Begun # <<"read_body">>
  BY More, One
<1> HIDE DEF r
<1>4. CASE Return
  <2>1. prog'["worker"] = r /\ prog'["user"] = prog["user"]
    BY <1>1, <1>4
  <2>2. Now' \in {"read_header", "read_body"}
    BY <1>2, <2>1, NowIs
  <2>3. step # "hnd" => r # Begun
    BY <1>2, <1>3
  <2> QED  BY <1>1, <1>2, <2>1, <2>2, <2>3, Known DEF r
<1>5. CASE Goto("worker", <<"stop">>) /\ ~threaded /\ ~m_stopped
  <2>1. prog'["worker"] = <<"stop">> \o r /\ prog'["user"] = prog["user"]
    BY <1>1, <1>5
  <2>2. /\ <<"stop">> \o r \in WorkerPrograms
        /\ <<"stop">> \o r # <<>> /\ (<<"stop">> \o r)[1] = "stop"
    <3>1. "stop" \in Steps
      BY DEF Steps
    <3>2. <<"stop">> \o r \in WorkerPrograms
      BY <1>2, Known
    <3>3. r \in Seq(Steps)
      BY <1>1
    <3> QED  BY <3>1, <3>2, <3>3, Put
  <2>3. Now' = "stop"
    BY <2>1, <2>2, NowIs
  <2> QED  BY <1>1, <1>5, <2>1, <2>2, <2>3
<1> QED  BY <1>4, <1>5 DEF Callback

\* Programs that the step to come tells apart.
LEMMA NotRearming == Now # "reset_heartbeat" => prog["worker"] # Rearm
  BY More DEF Now
LEMMA NotBegun == Now # "read_header" => prog["worker"] # Begun
  BY More DEF Now

LEMMA NotifyTimes == ASSUME Inv, TimersInv, Notify PROVE TimersInv'
<1>1. TypesOK /\ TimersTyped /\ OneThreadOK
  BY DEF Inv, LinesInv, TimersInv
<1>2. PICK step \in {"hnd", "quik_state"} :
        /\ At("worker", step) /\ Callback
        /\ UNCHANGED <<threaded, m_stopped, connect, read, writes, tmr, out, told>>
  BY DEF Notify, net
<1>3. /\ prog["worker"] # <<>> /\ Now = step /\ prog'["user"] = prog["user"]
      /\ prog'["worker"] \in WorkerPrograms
      /\ \/ /\ Now' \in {"read_header", "read_body"}
            /\ step = "hnd" => prog'["worker"] = Begun
            /\ step # "hnd" => prog'["worker"] # Begun
         \/ ~threaded /\ ~m_stopped /\ Now' = "stop"
  BY <1>1, <1>2, CallbackGoes
<1>4. TimersTyped'
  BY <1>1, <1>2, <1>3 DEF TimersTyped
<1>5. OneThreadOK'
  BY <1>1, <1>2, <1>3, TurnsKept DEF OneThreadOK, Remains
<1>6. ASSUME ~m_stopped PROVE RunningOK'
  <2>1. ToldOK /\ ReadingOK /\ WritingOK /\ WatchOK /\ HeartOK
    BY <1>3, <1>6 DEF RunningOK, TimersInv
  <2>2. ToldOK'
    BY <1>2, <1>3, <2>1 DEF ToldOK
  <2>3. ASSUME Now' # "stop" PROVE ReadingOK' /\ WritingOK' /\ WatchOK' /\ HeartOK'
    <3>1. Now' \in {"read_header", "read_body"}
      BY <1>3, <2>3
    <3>2. ReadingOK' /\ WritingOK' /\ WatchOK'
      BY <1>2, <1>3, <2>1, <3>1 DEF ReadingOK, WritingOK, WatchOK, Between, Left, Armed, out
    <3>3. HeartOK'
      <4>1. CASE step = "hnd"
        BY <1>3, <2>3, <4>1 DEF HeartOK
      <4>2. CASE step # "hnd"
        BY <1>2, <1>3, <2>1, <3>1, <4>2, NotRearming, NotBegun DEF HeartOK, Left, Armed
      <4> QED  BY <4>1, <4>2
    <3> QED  BY <3>2, <3>3
  <2> QED  BY <2>2, <2>3 DEF RunningOK
<1> QED  BY <1>2, <1>4, <1>5, <1>6 DEF TimersInv, RunningOK

LEMMA ReadResponceTimes == ASSUME Inv, TimersInv, _read_responce PROVE TimersInv'
<1>1. TypesOK /\ TimersTyped /\ OneThreadOK
  BY DEF Inv, LinesInv, TimersInv
<1>2. PICK step \in {"read_header", "read_body"}, op \in Reads :
        /\ At("worker", step) /\ Return /\ tmr' = Expires(tmr, "read", ReadTimeout)
        /\ op.age = 0 /\ read' = op
        /\ UNCHANGED <<threaded, m_stopped, connect, writes, out, told>>
  <2>1. PICK step \in {"read_header", "read_body"} : At("worker", step)
    BY DEF _read_responce
  <2>2. PICK r \in Started :
          read' = Op(IF At("worker", "read_body") THEN "body" ELSE "header", r)
    BY DEF _read_responce
  <2>3. r \in {"pending", "error"}
    BY <1>1, <2>2 DEF Started, TypesOK
  <2>4. read' \in Reads /\ read'.age = 0
    <3> DEFINE kind == IF At("worker", "read_body") THEN "body" ELSE "header"
    <3>0. 0 \in 0 .. ReadTimeout
      BY Timeouts
    <3>1. kind \in {"body", "header"}
      OBVIOUS
    <3> HIDE DEF kind
    <3>2. Op(kind, r) \in Reads /\ Op(kind, r).age = 0
      BY <2>3, <3>0, <3>1 DEF Op, Reads
    <3> QED  BY <2>2, <3>2 DEF kind
  <2> QED  BY <2>1, <2>4 DEF _read_responce
<1>3. /\ prog["worker"] # <<>> /\ Now = step
      /\ prog'["worker"] \in {<<>>, Rearm} /\ prog'["user"] = prog["user"]
      /\ prog["worker"] # Begun => prog'["worker"] = <<>>
  <2>1. /\ prog["worker"] # <<>> /\ Now = step /\ Tail(prog["worker"]) \in Tails(step)
        /\ step = "read_header" /\ prog["worker"] # Begun => Tail(prog["worker"]) = <<>>
        /\ prog'["worker"] = Tail(prog["worker"]) /\ prog'["user"] = prog["user"]
    BY <1>1, <1>2, StepDone
  <2> QED  BY <2>1 DEF Tails
<1>4. Now' \in {"idle", "reset_heartbeat"} /\ prog'["worker"] \in WorkerPrograms
  BY <1>3, NowIs, Known
<1>5. /\ tmr' \in TmrType /\ Left("read")' = ReadTimeout
      /\ Armed("read") => Armed("read")'
      /\ tmr'["write"] = tmr["write"] /\ tmr'["heartbeat"] = tmr["heartbeat"]
  <2>1. ReadTimeout \in Int /\ tmr \in TmrType /\ Timers = {"read", "write", "heartbeat"} /\ "read" \in Timers
    BY <1>1, Timeouts DEF TimersTyped, Timers
  <2> DEFINE e == Expires(tmr, "read", ReadTimeout)
  <2>2. /\ e \in TmrType /\ e["read"].left = ReadTimeout
        /\ e["read"].wait = "none" <=> tmr["read"].wait = "none"
        /\ \A u \in Timers : u # "read" => e[u] = tmr[u]
    BY <2>1, Timer
  <2>3. tmr' = e
    BY <1>2
  <2> HIDE DEF e
  <2> QED  BY <2>1, <2>2, <2>3 DEF Left, Armed
<1>6. TimersTyped'
  BY <1>1, <1>2, <1>3, <1>4, <1>5 DEF TimersTyped
<1>7. OneThreadOK'
  BY <1>1, <1>2, <1>3, <1>4, TurnsKept DEF Remains
<1>8. ASSUME ~m_stopped PROVE RunningOK'
  <2>1. ToldOK /\ ReadingOK /\ WritingOK /\ WatchOK /\ HeartOK
    BY <1>3, <1>8 DEF RunningOK, TimersInv
  <2>2. ToldOK'
    BY <1>2, <1>4, <2>1 DEF ToldOK
  <2>3. connect = NoOp
    BY <1>3, <2>1 DEF ReadingOK, Between
  <2>4. ReadingOK'
    <3>1. Now' \notin Between /\ connect' = NoOp
      BY <1>2, <1>4, <2>3 DEF Between
    <3>2. read' # NoOp /\ Left("read")' = ReadTimeout - read'.age
      <4>1. ReadTimeout \in Int
        BY Timeouts
      <4> QED  BY <1>2, <1>5, <4>1, Operations
    <3> QED  BY <3>1, <3>2 DEF ReadingOK
  <2>5. WritingOK' /\ WatchOK'
    BY <1>2, <1>3, <1>4, <1>5, <2>1 DEF WritingOK, WatchOK, Left, Armed, out
  <2>6. HeartOK'
    <3>1. CASE prog["worker"] = Begun
      <4>1. prog'["worker"] = Rearm \/ prog'["worker"] = <<>>
        BY <1>3
      <4>2. prog'["worker"] = Rearm
        <5>1. prog'["worker"] = Tail(Begun)
          BY <1>1, <1>2, <3>1, StepDone
        <5> QED  BY <5>1, More
      <4>3. Now' = "reset_heartbeat"
        BY <4>2, NowIs
      <4> QED  BY <4>2, <4>3 DEF HeartOK
    <3>2. CASE prog["worker"] # Begun
      BY <1>2, <1>3, <1>4, <1>5, <2>1, <3>2, NotRearming DEF HeartOK, Left, Armed
    <3> QED  BY <3>1, <3>2
  <2> QED  BY <2>2, <2>4, <2>5, <2>6 DEF RunningOK
<1> QED  BY <1>2, <1>6, <1>7, <1>8 DEF TimersInv, RunningOK

LEMMA DeliverTimes == ASSUME Inv, TimersInv, _deliver PROVE TimersInv'
<1>1. TypesOK /\ TimersTyped /\ OneThreadOK
  BY DEF Inv, LinesInv, TimersInv
<1>2. /\ At("worker", "deliver") /\ Callback /\ tmr' = Expires(tmr, "read", Off)
      /\ UNCHANGED <<threaded, m_stopped, connect, read, writes, out, told>>
  BY DEF _deliver, _deactivateTimer, net
<1>3. /\ prog["worker"] # <<>> /\ Now = "deliver" /\ prog'["user"] = prog["user"]
      /\ prog'["worker"] \in WorkerPrograms
      /\ \/ Now' \in {"read_header", "read_body"} /\ prog'["worker"] # Begun
         \/ ~threaded /\ ~m_stopped /\ Now' = "stop"
  BY <1>1, <1>2, CallbackGoes
<1>4. /\ tmr' \in TmrType
      /\ Armed("read") => Armed("read")'
      /\ tmr'["write"] = tmr["write"] /\ tmr'["heartbeat"] = tmr["heartbeat"]
  <2>1. Off \in Int /\ tmr \in TmrType /\ Timers = {"read", "write", "heartbeat"} /\ "read" \in Timers
    BY <1>1 DEF TimersTyped, Timers, Off
  <2>2. /\ tmr' \in TmrType
        /\ tmr'["read"].wait = "none" <=> tmr["read"].wait = "none"
        /\ \A u \in Timers : u # "read" => tmr'[u] = tmr[u]
    BY <1>2, <2>1, Timer
  <2> QED  BY <2>1, <2>2 DEF Armed
<1>5. TimersTyped'
  BY <1>1, <1>2, <1>3, <1>4 DEF TimersTyped
<1>6. OneThreadOK'
  BY <1>1, <1>2, <1>3, TurnsKept DEF OneThreadOK, Remains
<1>7. ASSUME ~m_stopped PROVE RunningOK'
  <2>1. ToldOK /\ ReadingOK /\ WritingOK /\ WatchOK /\ HeartOK
    BY <1>3, <1>7 DEF RunningOK, TimersInv
  <2>2. ToldOK'
    BY <1>2, <1>3, <2>1 DEF ToldOK
  <2>3. ASSUME Now' # "stop" PROVE ReadingOK' /\ WritingOK' /\ WatchOK' /\ HeartOK'
    <3>1. Now' \in {"read_header", "read_body"} /\ prog'["worker"] # Begun
      BY <1>3, <2>3
    <3>2. ReadingOK' /\ WritingOK' /\ WatchOK'
      BY <1>2, <1>3, <1>4, <2>1, <3>1 DEF ReadingOK, WritingOK, WatchOK, Between, Left, Armed, out
    <3>3. HeartOK'
      BY <1>2, <1>3, <1>4, <2>1, <3>1, NotRearming, NotBegun DEF HeartOK, Left, Armed
    <3> QED  BY <3>2, <3>3
  <2> QED  BY <2>2, <2>3 DEF RunningOK
<1> QED  BY <1>2, <1>5, <1>6, <1>7 DEF TimersInv, RunningOK

-----------------------------------------------------------------------------
(* The handlers write and watch the deadlines.                             *)

\* A write that begins is new, and so is its deadline.
LEMMA WriteBegins ==
  ASSUME TypesOK, NEW q \in Seq(Nat), q # <<>>, NEW busy \in BOOLEAN, NEW s \in TmrType,
         _write_request(q, busy, s), ~busy => writes = <<>>
  PROVE  /\ tmr' \in TmrType
         /\ tmr'["read"] = s["read"] /\ tmr'["heartbeat"] = s["heartbeat"]
         /\ s["write"].wait # "none" => tmr'["write"].wait # "none"
         /\ m_bWriteInProgress' = (busy \/ ~m_stopped)
         /\ busy \/ m_stopped => tmr' = s /\ writes' = writes
         /\ ~busy /\ ~m_stopped => /\ writes' # <<>> /\ writes'[1].age = 0
                                   /\ tmr'["write"].left = WriteTimeout
<1>1. m_bWriteInProgress' = (busy \/ ~m_stopped)
  BY DEF _write_request
<1>2. CASE busy \/ m_stopped
  BY <1>1, <1>2 DEF _write_request
<1>3. CASE ~busy /\ ~m_stopped
  <2>1. tmr' = Expires(s, "write", WriteTimeout)
    BY <1>3 DEF _write_request
  <2>2. PICK r \in Started : writes' = Append(<<>>, Op(Head(q), r))
    BY <1>3 DEF _write_request
  <2>3. writes' # <<>> /\ writes'[1] = Op(Head(q), r)
    BY <2>2
  <2>4. writes'[1].age = 0
    BY <2>3 DEF Op
  <2>5. WriteTimeout \in Int /\ Timers = {"read", "write", "heartbeat"} /\ "write" \in Timers
    BY Timeouts DEF Timers
  <2>6. /\ tmr' \in TmrType /\ tmr'["write"].left = WriteTimeout
        /\ tmr'["write"].wait = "none" <=> s["write"].wait = "none"
        /\ \A u \in Timers : u # "write" => tmr'[u] = s[u]
    BY <2>1, <2>5, Timer
  <2>7. tmr'["read"] = s["read"] /\ tmr'["heartbeat"] = s["heartbeat"]
    BY <2>5, <2>6
  <2> QED  BY <1>1, <1>3, <2>3, <2>4, <2>6, <2>7
<1> QED  BY <1>2, <1>3

LEMMA SendPacketTimes == ASSUME Inv, TimersInv, SendPacket PROVE TimersInv'
<1>1. TypesOK /\ TimersTyped /\ OneThreadOK /\ WriteOK /\ HandlersOK
  BY DEF Inv, LinesInv, TimersInv
<1>2. /\ At("worker", "send_packet") /\ Return
      /\ _write_request(m_writeQueue, m_bWriteInProgress, tmr)
      /\ UNCHANGED <<threaded, m_stopped, connect, read, told>>
  BY DEF SendPacket
<1>3. /\ prog["worker"] # <<>> /\ Now = "send_packet" /\ WorkerAt("send_packet")
      /\ prog'["worker"] = <<>> /\ prog'["user"] = prog["user"]
  <2>1. /\ prog["worker"] # <<>> /\ Now = "send_packet" /\ WorkerAt("send_packet")
        /\ Tail(prog["worker"]) \in Tails("send_packet")
        /\ prog'["worker"] = Tail(prog["worker"]) /\ prog'["user"] = prog["user"]
    BY <1>1, <1>2, StepDone, Here
  <2> QED  BY <2>1 DEF Tails
<1>4. Now' = "idle" /\ prog'["worker"] \in WorkerPrograms
  BY <1>3, NowIs, Known
<1>5. /\ tmr' \in TmrType
      /\ tmr'["read"] = tmr["read"] /\ tmr'["heartbeat"] = tmr["heartbeat"]
      /\ tmr["write"].wait # "none" => tmr'["write"].wait # "none"
      /\ m_bWriteInProgress' = (m_bWriteInProgress \/ ~m_stopped)
      /\ m_bWriteInProgress \/ m_stopped => tmr' = tmr /\ writes' = writes
      /\ ~m_bWriteInProgress /\ ~m_stopped =>
           /\ writes' # <<>> /\ writes'[1].age = 0 /\ tmr'["write"].left = WriteTimeout
  <2>1. m_writeQueue \in Seq(Nat) /\ m_writeQueue # <<>> /\ m_bWriteInProgress \in BOOLEAN
    BY <1>1, <1>3 DEF TypesOK, HandlersOK
  <2>2. ~m_bWriteInProgress => writes = <<>>
    BY <1>1 DEF WriteOK
  <2> QED  BY <1>1, <1>2, <2>1, <2>2, WriteBegins DEF TimersTyped
<1>6. TimersTyped'
  BY <1>1, <1>2, <1>3, <1>4, <1>5 DEF TimersTyped
<1>7. OneThreadOK'
  BY <1>1, <1>2, <1>3, <1>4, TurnsKept DEF Remains
<1>8. ASSUME ~m_stopped PROVE RunningOK'
  <2>1. ToldOK /\ ReadingOK /\ WritingOK /\ WatchOK /\ HeartOK
    BY <1>3, <1>8 DEF RunningOK, TimersInv
  <2>2. ToldOK' /\ ReadingOK' /\ WatchOK'
    BY <1>2, <1>3, <1>4, <1>5, <2>1 DEF ToldOK, ReadingOK, WatchOK, Between, Left, Armed
  <2>3. WritingOK' /\ writes' # <<>>
    <3>1. CASE m_bWriteInProgress
      BY <1>3, <1>4, <1>5, <2>1, <3>1 DEF WritingOK, Left
    <3>2. CASE ~m_bWriteInProgress
      BY <1>4, <1>5, <1>8, <3>2, Timeouts DEF WritingOK, Left
    <3> QED  BY <3>1, <3>2
  <2>4. HeartOK'
    BY <1>2, <1>3, <1>4, <1>5, <2>1, <2>3, NotRearming, NotBegun DEF HeartOK, Armed
  <2> QED  BY <2>2, <2>3, <2>4 DEF RunningOK
<1> QED  BY <1>2, <1>6, <1>7, <1>8 DEF TimersInv, RunningOK

LEMMA NotWrittenTimes == ASSUME Inv, TimersInv, NotWritten PROVE TimersInv'
<1>1. TypesOK /\ TimersTyped /\ OneThreadOK
  BY DEF Inv, LinesInv, TimersInv
<1>2. /\ At("worker", "not_written") /\ Goto("worker", <<"stop">>)
      /\ UNCHANGED <<threaded, m_stopped, connect, read, tmr, told>>
  BY DEF NotWritten, net
<1>3. /\ prog["worker"] # <<>> /\ Now = "not_written" /\ Tail(prog["worker"]) = <<>>
      /\ prog'["worker"] = <<"stop">> /\ prog'["user"] = prog["user"]
  BY <1>1, <1>2, StepDone, Alone DEF Tails, Steps
<1>4. Now' = "stop" /\ <<"stop">> \in WorkerPrograms
  BY <1>3, NowIs, Known
<1>5. TimersTyped'
  BY <1>1, <1>2, <1>3, <1>4 DEF TimersTyped
<1>6. OneThreadOK'
  BY <1>1, <1>2, <1>3, TurnsKept DEF OneThreadOK, Remains
<1>7. ASSUME ~m_stopped PROVE RunningOK'
  <2>1. ToldOK
    BY <1>7 DEF RunningOK, TimersInv
  <2>2. ToldOK'
    BY <1>2, <1>4, <2>1 DEF ToldOK
  <2> QED  BY <1>4, <2>2 DEF RunningOK
<1> QED  BY <1>2, <1>5, <1>6, <1>7 DEF TimersInv, RunningOK

LEMMA WrittenTimes == ASSUME Inv, TimersInv, Written PROVE TimersInv'
<1> DEFINE rest == Tail(m_writeQueue)
<1>1. TypesOK /\ TimersTyped /\ OneThreadOK /\ WriteOK /\ HandlersOK
  BY DEF Inv, LinesInv, TimersInv
<1>2. /\ At("worker", "written")
      /\ \/ rest # <<>> /\ _write_request(rest, FALSE, tmr) /\ Return
         \/ /\ tmr' = Expires(tmr, "write", Off) /\ m_bWriteInProgress' = FALSE
            /\ Goto("worker", <<"reset_heartbeat">>) /\ UNCHANGED writes
      /\ UNCHANGED <<threaded, m_stopped, connect, read, told>>
  BY DEF Written, _deactivateTimer
<1>3. /\ prog["worker"] # <<>> /\ Now = "written" /\ WorkerAt("written")
      /\ Tail(prog["worker"]) = <<>>
      /\ Return => prog'["worker"] = <<>> /\ prog'["user"] = prog["user"]
      /\ Goto("worker", <<"reset_heartbeat">>) =>
           prog'["worker"] = <<"reset_heartbeat">> /\ prog'["user"] = prog["user"]
  <2>1. /\ prog["worker"] # <<>> /\ Now = "written" /\ Tail(prog["worker"]) \in Tails("written")
        /\ Return => /\ prog'["worker"] = Tail(prog["worker"]) /\ prog'["user"] = prog["user"]
        /\ "reset_heartbeat" \in Steps
        /\ \A a \in Steps : Goto("worker", <<a>>) =>
             prog'["worker"] = <<a>> \o Tail(prog["worker"]) /\ prog'["user"] = prog["user"]
    BY <1>1, <1>2, StepDone DEF Steps
  <2>2. Tail(prog["worker"]) = <<>>
    BY <2>1 DEF Tails
  <2>3. WorkerAt("written")
    BY <1>1, <1>2, Here
  <2> QED  BY <2>1, <2>2, <2>3, Alone
<1>4. writes = <<>> /\ rest \in Seq(Nat)
  <2>1. m_writeQueue # <<>> /\ m_writeQueue \in Seq(Nat) /\ writes = <<>>
    BY <1>1, <1>3 DEF HandlersOK, TypesOK
  <2> QED  BY <2>1, HeadTailProperties
<1> HIDE DEF rest
<1>5. /\ prog'["worker"] \in {<<>>, <<"reset_heartbeat">>} /\ prog'["user"] = prog["user"]
      /\ Now' \in {"idle", "reset_heartbeat"} /\ prog'["worker"] \in WorkerPrograms
  <2>1. prog'["worker"] \in {<<>>, <<"reset_heartbeat">>} /\ prog'["user"] = prog["user"]
    BY <1>2, <1>3
  <2> QED  BY <2>1, NowIs, Known DEF Singles
<1>6. /\ tmr' \in TmrType
      /\ tmr'["read"] = tmr["read"] /\ tmr'["heartbeat"] = tmr["heartbeat"]
      /\ tmr["write"].wait # "none" => tmr'["write"].wait # "none"
      /\ ~m_stopped =>
           \/ writes' # <<>> /\ writes'[1].age = 0 /\ tmr'["write"].left = WriteTimeout
           \/ /\ writes' = <<>> /\ ~m_bWriteInProgress' /\ tmr'["write"].left = Off
              /\ Now' = "reset_heartbeat"
  <2>0. tmr \in TmrType
    BY <1>1 DEF TimersTyped
  <2>1. CASE rest # <<>> /\ _write_request(rest, FALSE, tmr)
    BY <1>1, <1>4, <2>0, <2>1, WriteBegins
  <2>2. CASE /\ tmr' = Expires(tmr, "write", Off) /\ m_bWriteInProgress' = FALSE
             /\ Goto("worker", <<"reset_heartbeat">>) /\ UNCHANGED writes
    <3>1. Off \in Int /\ Timers = {"read", "write", "heartbeat"} /\ "write" \in Timers
      BY DEF Off, Timers
    <3> DEFINE e == Expires(tmr, "write", Off)
    <3>2. /\ e \in TmrType /\ e["write"].left = Off
          /\ e["write"].wait = "none" <=> tmr["write"].wait = "none"
          /\ \A u \in Timers : u # "write" => e[u] = tmr[u]
      BY <2>0, <3>1, Timer
    <3>3. tmr' = e /\ e["read"] = tmr["read"] /\ e["heartbeat"] = tmr["heartbeat"]
      BY <2>2, <3>1, <3>2
    <3> HIDE DEF e
    <3>4. Now' = "reset_heartbeat"
      BY <1>3, <2>2, NowIs
    <3> QED  BY <1>4, <2>2, <3>2, <3>3, <3>4
  <2> QED  BY <1>2, <2>1, <2>2
<1>7. TimersTyped'
  BY <1>1, <1>2, <1>5, <1>6 DEF TimersTyped
<1>8. OneThreadOK'
  BY <1>1, <1>2, <1>3, <1>5, TurnsKept DEF Remains
<1>9. ASSUME ~m_stopped PROVE RunningOK'
  <2>1. ToldOK /\ ReadingOK /\ WritingOK /\ WatchOK /\ HeartOK
    BY <1>3, <1>9 DEF RunningOK, TimersInv
  <2>2. ToldOK' /\ ReadingOK' /\ WatchOK'
    BY <1>2, <1>3, <1>5, <1>6, <2>1 DEF ToldOK, ReadingOK, WatchOK, Between, Left, Armed
  <2>3. WritingOK'
    BY <1>5, <1>6, <1>9, Timeouts DEF WritingOK, Left
  <2>4. HeartOK'
    BY <1>2, <1>3, <1>5, <1>6, <1>9, <2>1, NotRearming, NotBegun DEF HeartOK, Armed
  <2> QED  BY <2>2, <2>3, <2>4 DEF RunningOK
<1> QED  BY <1>2, <1>7, <1>8, <1>9 DEF TimersInv, RunningOK

LEMMA CheckDeadlineTimes ==
  ASSUME Inv, TimersInv, NEW t \in {"read", "write"}, _check_deadline(t) PROVE TimersInv'
<1> DEFINE step == IF t = "read" THEN "check_read" ELSE "check_write"
<1>1. TypesOK /\ TimersTyped /\ OneThreadOK
  BY DEF Inv, LinesInv, TimersInv
<1>2. /\ At("worker", step)
      /\ \/ Goto("worker", <<"stop">>) /\ tmr' = tmr
         \/ Return /\ tmr' = AsyncWait(tmr, t)
      /\ UNCHANGED <<threaded, m_stopped, connect, read, writes, out, told>>
  BY DEF _check_deadline, net
<1>3. step \in {"check_read", "check_write"} /\ (t = "read" <=> step = "check_read")
  OBVIOUS
<1> HIDE DEF step
<1>4. /\ prog["worker"] # <<>> /\ Now = step /\ Tail(prog["worker"]) = <<>>
      /\ Return => prog'["worker"] = <<>> /\ prog'["user"] = prog["user"]
      /\ Goto("worker", <<"stop">>) => prog'["worker"] = <<"stop">> /\ prog'["user"] = prog["user"]
  BY <1>1, <1>2, <1>3, StepDone, Alone DEF Tails, Steps
<1>5. /\ prog'["worker"] \in {<<>>, <<"stop">>} /\ prog'["user"] = prog["user"]
      /\ Now' \in {"idle", "stop"} /\ prog'["worker"] \in WorkerPrograms
  <2>1. prog'["worker"] \in {<<>>, <<"stop">>} /\ prog'["user"] = prog["user"]
    BY <1>2, <1>4
  <2> QED  BY <2>1, NowIs, Known
<1>6. /\ tmr' \in TmrType
      /\ Now' # "stop" => /\ \A u \in Timers : Left(u)' = Left(u) /\ (Armed(u) => Armed(u)')
                          /\ Armed(t)'
  <2>0. tmr \in TmrType /\ t \in Timers
    BY <1>1 DEF TimersTyped, Timers
  <2>1. CASE tmr' = AsyncWait(tmr, t)
    <3>1. /\ tmr' \in TmrType /\ tmr'[t].left = tmr[t].left /\ tmr'[t].wait # "none"
          /\ \A u \in Timers : u # t => tmr'[u] = tmr[u]
      BY <2>0, <2>1, Awaited
    <3> QED  BY <3>1 DEF Left, Armed
  <2>2. CASE Goto("worker", <<"stop">>) /\ tmr' = tmr
    <3>1. Now' = "stop"
      BY <1>4, <2>2, NowIs
    <3> QED  BY <2>0, <2>2, <3>1
  <2> QED  BY <1>2, <2>1, <2>2
<1>7. TimersTyped'
  BY <1>1, <1>2, <1>5, <1>6 DEF TimersTyped
<1>8. OneThreadOK'
  BY <1>1, <1>2, <1>3, <1>4, <1>5, TurnsKept DEF Remains, OneThreadOK
<1>9. ASSUME ~m_stopped PROVE RunningOK'
  <2>1. ToldOK /\ ReadingOK /\ WritingOK /\ WatchOK /\ HeartOK
    BY <1>3, <1>4, <1>9 DEF RunningOK, TimersInv
  <2>2. ToldOK'
    BY <1>2, <1>5, <2>1 DEF ToldOK
  <2>3. ASSUME Now' # "stop" PROVE ReadingOK' /\ WritingOK' /\ WatchOK' /\ HeartOK'
    <3>1. Now' = "idle" /\ "read" \in Timers /\ "write" \in Timers /\ "heartbeat" \in Timers
      BY <1>5, <2>3 DEF Timers
    <3>2. ReadingOK' /\ WritingOK' /\ WatchOK'
      BY <1>2, <1>3, <1>4, <1>6, <2>1, <2>3, <3>1
         DEF ReadingOK, WritingOK, WatchOK, Between, out
    <3>3. HeartOK'
      BY <1>2, <1>3, <1>4, <1>6, <2>1, <2>3, <3>1, NotRearming, NotBegun DEF HeartOK
    <3> QED  BY <3>2, <3>3
  <2> QED  BY <2>2, <2>3 DEF RunningOK
<1> QED  BY <1>2, <1>7, <1>8, <1>9 DEF TimersInv, RunningOK

LEMMA CheckHeartbeatTimes == ASSUME Inv, TimersInv, _check_heartbeat PROVE TimersInv'
<1>1. TypesOK /\ TimersTyped /\ OneThreadOK /\ tmr \in TmrType
      /\ "heartbeat" \in Timers /\ Timers = {"read", "write", "heartbeat"} /\ "read" \in Timers
  BY DEF Inv, LinesInv, TimersInv, TimersTyped, Timers
<1> DEFINE off == Expires(tmr, "heartbeat", Off)
<1>2. /\ At("worker", "check_heartbeat") /\ Return
      /\ \/ tmr' = Expires(tmr, "heartbeat", HeartbeatPeriod) /\ UNCHANGED <<out, writes>>
         \/ /\ Left("write") = Off
            /\ _write_request(<<Heartbeat>>, m_bWriteInProgress, off)
      /\ UNCHANGED <<threaded, m_stopped, connect, read, told>>
  BY DEF _check_heartbeat, _reset_heartbeat, _deactivateTimer, _isTimerActive, Left
<1>3. /\ prog["worker"] # <<>> /\ Now = "check_heartbeat"
      /\ prog'["worker"] = <<"wait_heartbeat">> /\ prog'["user"] = prog["user"]
  BY <1>1, <1>2, StepDone DEF Tails, Steps
<1>4. Now' = "wait_heartbeat" /\ prog'["worker"] \in WorkerPrograms
  BY <1>3, NowIs, Known DEF Singles
<1>5. /\ off \in TmrType
      /\ off["read"] = tmr["read"] /\ off["write"] = tmr["write"]
  <2>1. Off \in Int
    BY DEF Off
  <2>2. off \in TmrType /\ \A u \in Timers : u # "heartbeat" => off[u] = tmr[u]
    BY <1>1, <2>1, Timer
  <2> QED  BY <1>1, <2>2, Zenon
<1> HIDE DEF off
\* A write has a deadline.
<1>6. ASSUME ~m_stopped, Left("write") = Off PROVE writes = <<>> /\ ~m_bWriteInProgress
  <2>1. WritingOK
    BY <1>3, <1>6 DEF RunningOK, TimersInv
  <2> QED  BY <1>3, <1>6, <2>1, Timeouts DEF WritingOK, Off
<1>7. /\ tmr' \in TmrType
      /\ tmr'["read"] = tmr["read"] /\ (Armed("write") => Armed("write")')
      /\ ~m_stopped =>
           \/ UNCHANGED <<out, writes>> /\ Left("heartbeat")' # Off /\ tmr'["write"] = tmr["write"]
           \/ writes' # <<>> /\ writes'[1].age = 0 /\ Left("write")' = WriteTimeout
  <2>1. CASE tmr' = Expires(tmr, "heartbeat", HeartbeatPeriod) /\ UNCHANGED <<out, writes>>
    <3>1. HeartbeatPeriod \in Int /\ HeartbeatPeriod # Off
      BY Timeouts DEF Off
    <3>2. /\ tmr' \in TmrType /\ \A u \in Timers : u # "heartbeat" => tmr'[u] = tmr[u]
          /\ tmr'["heartbeat"].left = HeartbeatPeriod
      BY <1>1, <2>1, <3>1, Timer
    <3> QED  BY <1>1, <2>1, <3>1, <3>2 DEF Left, Armed
  <2>2. CASE Left("write") = Off /\ _write_request(<<Heartbeat>>, m_bWriteInProgress, off)
    <3>1. <<Heartbeat>> \in Seq(Nat) /\ <<Heartbeat>> # <<>>
      BY DEF Heartbeat
    <3>2. m_bWriteInProgress \in BOOLEAN /\ (~m_bWriteInProgress => writes = <<>>)
      BY DEF Inv, LinesInv, TypesOK, WriteOK
    <3>3. /\ tmr' \in TmrType /\ tmr'["read"] = off["read"]
          /\ off["write"].wait # "none" => tmr'["write"].wait # "none"
          /\ ~m_bWriteInProgress /\ ~m_stopped =>
               /\ writes' # <<>> /\ writes'[1].age = 0
               /\ tmr'["write"].left = WriteTimeout
      BY <1>1, <1>5, <2>2, <3>1, <3>2, WriteBegins
    <3> QED  BY <1>5, <1>6, <2>2, <3>3 DEF Left, Armed
  <2> QED  BY <1>2, <2>1, <2>2
<1>8. TimersTyped'
  BY <1>1, <1>2, <1>3, <1>4, <1>7 DEF TimersTyped
<1>9. OneThreadOK'
  BY <1>1, <1>2, <1>3, <1>4, TurnsKept DEF Remains
<1>10. ASSUME ~m_stopped PROVE RunningOK'
  <2>1. ToldOK /\ ReadingOK /\ WritingOK /\ WatchOK
    BY <1>3, <1>10 DEF RunningOK, TimersInv
  <2>2. ToldOK' /\ ReadingOK' /\ WatchOK'
    BY <1>2, <1>3, <1>4, <1>7, <2>1 DEF ToldOK, ReadingOK, WatchOK, Between, Left, Armed
  <2>3. WritingOK'
    BY <1>3, <1>4, <1>7, <1>10, <2>1, Timeouts DEF WritingOK, Left, out
  <2>4. HeartOK'
    BY <1>4, <1>7, <1>10 DEF HeartOK
  <2> QED  BY <2>2, <2>3, <2>4 DEF RunningOK
<1> QED  BY <1>2, <1>8, <1>9, <1>10 DEF TimersInv, RunningOK

LEMMA HeartbeatTimerTimes == ASSUME Inv, TimersInv, HeartbeatTimer PROVE TimersInv'
<1>1. TypesOK /\ TimersTyped /\ OneThreadOK /\ tmr \in TmrType
      /\ "heartbeat" \in Timers /\ Timers = {"read", "write", "heartbeat"} /\ "read" \in Timers
  BY DEF Inv, LinesInv, TimersInv, TimersTyped, Timers
<1>2. PICK step \in {"reset_heartbeat", "wait_heartbeat"} :
        /\ At("worker", step) /\ Return
        /\ step = "reset_heartbeat" => tmr' = Expires(tmr, "heartbeat", HeartbeatPeriod)
        /\ step = "wait_heartbeat" => tmr' = AsyncWait(tmr, "heartbeat")
        /\ UNCHANGED <<threaded, m_stopped, connect, read, writes, out, told>>
  BY DEF HeartbeatTimer, _reset_heartbeat, net
<1>3. /\ prog["worker"] # <<>> /\ Now = step /\ prog'["user"] = prog["user"]
      /\ prog'["worker"] \in {<<>>, <<"wait_heartbeat">>}
      /\ prog["worker"] # Rearm => prog'["worker"] = <<>>
      /\ prog["worker"] = Rearm => prog'["worker"] = <<"wait_heartbeat">>
  <2>1. /\ prog["worker"] # <<>> /\ Now = step /\ prog'["user"] = prog["user"]
        /\ prog'["worker"] = Tail(prog["worker"]) /\ Tail(prog["worker"]) \in Tails(step)
        /\ step = "reset_heartbeat" /\ prog["worker"] # Rearm => Tail(prog["worker"]) = <<>>
    BY <1>1, <1>2, StepDone
  <2>2. prog["worker"] = Rearm => Now = "reset_heartbeat"
    BY NotRearming
  <2> QED  BY <2>1, <2>2, More DEF Tails
<1>4. /\ Now' \in {"idle", "wait_heartbeat"} /\ prog'["worker"] \in WorkerPrograms
      /\ prog'["worker"] = <<"wait_heartbeat">> => Now' = "wait_heartbeat"
  BY <1>3, NowIs, Known DEF Singles
<1>5. /\ tmr' \in TmrType
      /\ tmr'["read"] = tmr["read"] /\ tmr'["write"] = tmr["write"]
      /\ step = "reset_heartbeat" => /\ Left("heartbeat")' # Off
                                     /\ Armed("heartbeat") => Armed("heartbeat")'
      /\ step = "wait_heartbeat" => /\ Left("heartbeat")' = Left("heartbeat")
                                    /\ Armed("heartbeat")'
  <2>1. HeartbeatPeriod \in Int /\ HeartbeatPeriod # Off
    BY Timeouts DEF Off
  <2>2. CASE step = "reset_heartbeat"
    <3>1. /\ tmr' \in TmrType /\ \A u \in Timers : u # "heartbeat" => tmr'[u] = tmr[u]
          /\ tmr'["heartbeat"].left = HeartbeatPeriod
          /\ tmr'["heartbeat"].wait = "none" <=> tmr["heartbeat"].wait = "none"
      BY <1>1, <1>2, <2>1, <2>2, Timer
    <3> QED  BY <1>1, <2>1, <2>2, <3>1 DEF Left, Armed
  <2>3. CASE step = "wait_heartbeat"
    <3>1. /\ tmr' \in TmrType /\ \A u \in Timers : u # "heartbeat" => tmr'[u] = tmr[u]
          /\ tmr'["heartbeat"].left = tmr["heartbeat"].left
          /\ tmr'["heartbeat"].wait # "none"
      BY <1>1, <1>2, <2>3, Awaited
    <3> QED  BY <1>1, <2>3, <3>1 DEF Left, Armed
  <2> QED  BY <1>2, <2>2, <2>3
<1>6. TimersTyped'
  BY <1>1, <1>2, <1>3, <1>4, <1>5 DEF TimersTyped
<1>7. OneThreadOK'
  BY <1>1, <1>2, <1>3, <1>4, TurnsKept DEF Remains
<1>8. ASSUME ~m_stopped PROVE RunningOK'
  <2>1. ToldOK /\ ReadingOK /\ WritingOK /\ WatchOK /\ HeartOK
    BY <1>2, <1>3, <1>8 DEF RunningOK, TimersInv
  <2>2. ToldOK' /\ ReadingOK' /\ WatchOK' /\ WritingOK'
    BY <1>2, <1>3, <1>4, <1>5, <2>1
       DEF ToldOK, ReadingOK, WritingOK, WatchOK, Between, Left, Armed, out
  <2>3. HeartOK'
    BY <1>2, <1>3, <1>4, <1>5, <2>1, NotBegun, NotRearming DEF HeartOK
  <2> QED  BY <2>2, <2>3 DEF RunningOK
<1> QED  BY <1>2, <1>6, <1>7, <1>8 DEF TimersInv, RunningOK

-----------------------------------------------------------------------------
(* The client stops.                                                       *)

\* The programs of the user.
LEMMA UserStep ==
  ASSUME TypesOK, TimersTyped, NEW step, At("user", step)
  PROVE  LET u == prog["user"]
         IN /\ u # <<>> /\ Tail(u) \in {<<>>, <<"join">>}
            /\ step \in {"stop", "shut"} => Tail(u) = <<"join">>
            /\ step = "join" => Tail(u) = <<>>
            /\ u = <<"stop", "join">> <=> step = "stop"
            /\ u = <<"shut", "join">> <=> step = "shut"
            /\ u = <<"join">> <=> step = "join"
            /\ step \in {"stop", "shut", "join"} => u \notin {<<>>, <<"done">>}
            /\ Goto("user", <<>>) => prog'["user"] = Tail(u) /\ prog'["worker"] = prog["worker"]
            /\ step = "stop" /\ Goto("user", <<"shut">>) =>
                 prog'["user"] = <<"shut", "join">> /\ prog'["worker"] = prog["worker"]
            /\ step = "join" /\ Goto("user", <<"done">>) =>
                 prog'["user"] = <<"done">> /\ prog'["worker"] = prog["worker"]
<1> DEFINE u == prog["user"]
<1>1. u \in UserPrograms /\ u # <<>> /\ Head(u) = step /\ prog \in [Threads -> Seq(Steps)]
  BY DEF TimersTyped, At, TypesOK
<1>2. ASSUME NEW a, NEW b, u = <<a, b>> PROVE step = a /\ Tail(u) = <<b>> /\ Len(u) = 2
  BY <1>1, <1>2, Two
<1>3. ASSUME NEW a, u = <<a>> PROVE step = a /\ Tail(u) = <<>> /\ Len(u) = 1
  BY <1>1, <1>3, One
<1>4. u \in {<<"stop", "join">>, <<"shut", "join">>, <<"join">>, <<"done">>}
  BY <1>1 DEF UserPrograms
<1>5. /\ Tail(u) \in {<<>>, <<"join">>}
      /\ step \in {"stop", "shut"} => Tail(u) = <<"join">>
      /\ step = "join" => Tail(u) = <<>>
      /\ u = <<"stop", "join">> <=> step = "stop"
      /\ u = <<"shut", "join">> <=> step = "shut"
      /\ u = <<"join">> <=> step = "join"
      /\ step \in {"stop", "shut", "join"} => u \notin {<<>>, <<"done">>}
  BY <1>1, <1>2, <1>3, <1>4
<1> DEFINE r == Tail(u)
<1>6. r \in {<<>>, <<"join">>} /\ r \in Seq(Steps)
  <2>1. <<"join">> \in Seq(Steps) /\ <<>> \in Seq(Steps)
    BY Single DEF Steps
  <2> QED  BY <1>5, <2>1, Zenon
<1> HIDE DEF u, r
<1>7. \A p \in Seq(Steps) : Goto("user", p) =>
        prog'["user"] = p \o r /\ prog'["worker"] = prog["worker"]
  BY <1>1 DEF Goto, Threads, r, u
<1>8. <<>> \o r = r /\ <<>> \in Seq(Steps)
  BY <1>6
<1>9. <<"done">> \in Seq(Steps) /\ <<"shut">> \in Seq(Steps) /\ <<"done">> \o <<>> = <<"done">>
  BY Single, Alone DEF Steps
<1>10. <<"shut">> \o <<"join">> = <<"shut", "join">>
  <2> DEFINE w == <<"shut">> \o <<"join">>
  <2>1. <<"join">> \in Seq(Steps) /\ "shut" \in Steps /\ "join" \in Steps /\ Len(<<"join">>) = 1
    BY Single DEF Steps
  <2>2. w \in Seq(Steps) /\ w[1] = "shut" /\ Len(w) = 2 /\ w[2] = "join"
    BY <2>1
  <2> HIDE DEF w
  <2>3. /\ <<"shut", "join">> \in Seq(Steps) /\ Len(<<"shut", "join">>) = 2
        /\ <<"shut", "join">>[1] = "shut" /\ <<"shut", "join">>[2] = "join"
    BY <2>1
  <2>4. w = <<"shut", "join">>
    BY <2>2, <2>3, SeqEqual
  <2> QED  BY <2>4 DEF w
<1> QED  BY <1>1, <1>5, <1>7, <1>8, <1>9, <1>10 DEF r, u

LEMMA ReadStoppedTimes ==
  ASSUME Inv, TimersInv, NEW th \in Threads, ReadStopped(th) PROVE TimersInv'
<1>1. TypesOK /\ TimersTyped /\ OneThreadOK
  BY DEF Inv, LinesInv, TimersInv
<1>2. /\ At(th, "stop") /\ Goto(th, IF m_stopped THEN <<>> ELSE <<"shut">>)
      /\ UNCHANGED <<threaded, m_stopped, connect, read, writes, tmr, out, told>>
  BY DEF ReadStopped, net
<1>3. CASE th = "worker"
  <2> DEFINE r == Tail(prog["worker"])
  <2>1. /\ prog["worker"] # <<>> /\ Now = "stop" /\ r \in Tails("stop") /\ r \in Seq(Steps)
        /\ Return => prog'["worker"] = r /\ prog'["user"] = prog["user"]
        /\ Goto("worker", <<"shut">>) =>
             prog'["worker"] = <<"shut">> \o r /\ prog'["user"] = prog["user"]
    BY <1>1, <1>2, <1>3, StepDone DEF Steps
  <2>2. r \in Leftovers
    BY <2>1 DEF Tails
  <2> HIDE DEF r
  <2>3. /\ prog'["user"] = prog["user"]
        /\ prog'["worker"] = (IF m_stopped THEN r ELSE <<"shut">> \o r)
    BY <1>2, <1>3, <2>1 DEF Return
  <2>4. prog'["worker"] \in WorkerPrograms
    BY <2>2, <2>3, Known
  <2>5. ~m_stopped => Now' = "shut"
    <3>1. <<"shut">> \o r # <<>> /\ (<<"shut">> \o r)[1] = "shut"
      BY <2>1, Put DEF Steps
    <3> QED  BY <2>3, <3>1, NowIs
  <2>6. TimersTyped'
    BY <1>1, <1>2, <2>3, <2>4 DEF TimersTyped
  <2>7. OneThreadOK'
    BY <1>1, <1>2, <2>1, <2>3, TurnsKept DEF OneThreadOK, Remains
  <2>8. ASSUME ~m_stopped PROVE RunningOK'
    <3>1. ToldOK
      BY <2>8 DEF RunningOK, TimersInv
    <3>2. ToldOK'
      BY <1>2, <2>5, <2>8, <3>1 DEF ToldOK
    <3> QED  BY <2>5, <2>8, <3>2 DEF RunningOK
  <2> QED  BY <1>2, <2>6, <2>7, <2>8 DEF TimersInv, RunningOK
<1>4. CASE th = "user"
  <2>1. /\ prog["user"] # <<>> /\ prog["user"] \notin {<<>>, <<"done">>}
        /\ prog'["worker"] = prog["worker"]
        /\ prog'["user"] = IF m_stopped THEN <<"join">> ELSE <<"shut", "join">>
    BY <1>1, <1>2, <1>4, UserStep
  <2>2. Now' = Now /\ prog'["user"] \in UserPrograms
    BY <2>1 DEF Now, UserPrograms
  <2>3. TimersTyped'
    BY <1>1, <1>2, <2>1, <2>2 DEF TimersTyped
  <2>4. <<"join">> # <<"shut", "join">>
    BY One, Two
  <2>5. OneThreadOK'
    BY <1>1, <1>2, <2>1, <2>2, <2>4 DEF OneThreadOK
  <2>6. RunningOK'
    BY <1>2, <2>1, <2>2 DEF TimersInv, RunningOK, ToldOK, ReadingOK, WritingOK, WatchOK,
                            HeartOK, Left, Armed, out
  <2> QED  BY <2>3, <2>5, <2>6 DEF TimersInv
<1> QED  BY <1>3, <1>4 DEF Threads

\* What the user hears at the end.
LEMMA Goodbye ==
  ASSUME ToldOK, told' = Append(told, FALSE)
  PROVE  told' \in {<<FALSE>>, <<TRUE, FALSE>>}
<1>1. told \in {<<>>, <<TRUE>>}
  BY DEF ToldOK
<1>2. ASSUME NEW a, NEW b PROVE Append(<<>>, b) = <<b>> /\ Append(<<a>>, b) = <<a, b>>
  <2> DEFINE w == Append(<<a>>, b)
  <2>1. /\ <<a>> \in Seq({a, b}) /\ Len(<<a>>) = 1 /\ <<a>>[1] = a
        /\ <<a, b>> \in Seq({a, b}) /\ Len(<<a, b>>) = 2 /\ <<a, b>>[1] = a /\ <<a, b>>[2] = b
    OBVIOUS
  <2>2. w \in Seq({a, b}) /\ Len(w) = 2 /\ w[1] = a /\ w[2] = b
    BY <2>1
  <2> HIDE DEF w
  <2>3. w = <<a, b>>
    BY <2>1, <2>2, SeqEqual
  <2>4. Append(<<>>, b) = <<b>>
    OBVIOUS
  <2> QED  BY <2>3, <2>4 DEF w
<1>3. Append(<<>>, FALSE) = <<FALSE>> /\ Append(<<TRUE>>, FALSE) = <<TRUE, FALSE>>
  BY <1>2, Zenon
<1> QED  BY <1>1, <1>3, Zenon

LEMMA ShutTimes == ASSUME Inv, TimersInv, NEW th \in Threads, Shut(th) PROVE TimersInv'
<1>1. TypesOK /\ TimersTyped /\ OneThreadOK
  BY DEF Inv, LinesInv, TimersInv
<1>2. /\ At(th, "shut") /\ Goto(th, <<>>) /\ m_stopped' = TRUE /\ threaded' = threaded
      /\ told' = Append(told, FALSE) /\ Close /\ tmr' = CancelAll(tmr)
  BY DEF Shut
<1>3. /\ connect' \in Connects \cup {NoOp} /\ read' \in Reads \cup {NoOp}
      /\ tmr' \in TmrType
  <2>1. \A op \in Connects : Abort(op) \in Connects
    BY DEF Abort, Connects
  <2>2. \A op \in Reads : Abort(op) \in Reads
    BY DEF Abort, Reads
  <2>3. ASSUME NEW t \in Timers PROVE CancelAll(tmr)[t] \in [left: Int, wait: Waits]
    <3>1. tmr[t].left \in Int /\ tmr \in TmrType
      BY <1>1 DEF TimersTyped, TmrType
    <3> DEFINE e == Expires(tmr, t, tmr[t].left)
    <3>2. e \in TmrType
      BY <3>1, Timer
    <3>3. CancelAll(tmr)[t] = e[t]
      BY DEF CancelAll
    <3> QED  BY <3>2, <3>3 DEF TmrType
  <2>4. CancelAll(tmr) \in TmrType
    BY <2>3 DEF CancelAll, TmrType
  <2> QED  BY <1>1, <1>2, <2>1, <2>2, <2>4, Operations DEF TimersTyped, Close
<1>4. ~m_stopped => told' \in {<<FALSE>>, <<TRUE, FALSE>>}
  BY <1>2, Goodbye DEF TimersInv, RunningOK
<1>5. CASE th = "worker"
  <2>1. /\ prog["worker"] # <<>> /\ Now = "shut" /\ Tail(prog["worker"]) \in Leftovers
        /\ prog'["worker"] = Tail(prog["worker"]) /\ prog'["user"] = prog["user"]
    BY <1>1, <1>2, <1>5, StepDone DEF Tails, Return
  <2>2. Now' \in Remains /\ prog'["worker"] \in WorkerPrograms
    <3>1. prog'["worker"] \in {<<>>, Begun, <<"read_header">>, <<"read_body">>}
      BY <2>1 DEF Leftovers
    <3> QED  BY <2>1, <3>1, NowIs, Known DEF Remains
  <2>3. TimersTyped'
    BY <1>1, <1>3, <2>1, <2>2 DEF TimersTyped
  <2>4. OneThreadOK'
    <3>1. ASSUME ~threaded
          PROVE ~m_stopped /\ prog["user"] \in {<<>>, <<"done">>} /\ prog["user"] # <<"shut", "join">>
      <4>1. ~m_stopped /\ prog["user"] \in {<<>>, <<"done">>}
        BY <1>1, <2>1, <3>1 DEF OneThreadOK, Remains
      <4>2. Len(<<"done">>) = 1 /\ Len(<<"shut", "join">>) = 2 /\ <<"shut", "join">> # <<>>
        OBVIOUS
      <4> QED  BY <4>1, <4>2
    <3> QED  BY <1>2, <1>4, <2>1, <2>2, <3>1 DEF OneThreadOK
  <2> QED  BY <1>2, <2>3, <2>4 DEF TimersInv, RunningOK
<1>6. CASE th = "user"
  <2>1. /\ prog["user"] = <<"shut", "join">> /\ prog["user"] \notin {<<>>, <<"done">>}
        /\ prog'["worker"] = prog["worker"] /\ prog'["user"] = <<"join">>
    BY <1>1, <1>2, <1>6, UserStep
  <2>2. Now' = Now /\ prog'["user"] \in UserPrograms
    BY <2>1 DEF Now, UserPrograms
  <2>3. TimersTyped'
    BY <1>1, <1>3, <2>1, <2>2 DEF TimersTyped
  <2>4. OneThreadOK'
    <3>1. ASSUME ~threaded PROVE ~m_stopped /\ prog["worker"] = <<>> /\ Now' \in Remains
      BY <1>1, <2>1, <2>2, <3>1 DEF OneThreadOK, Remains, Now
    <3>2. <<"join">> # <<"shut", "join">>
      BY One, Two
    <3> QED  BY <1>2, <1>4, <2>1, <3>1, <3>2 DEF OneThreadOK
  <2> QED  BY <1>2, <2>3, <2>4 DEF TimersInv, RunningOK
<1> QED  BY <1>5, <1>6 DEF Threads

-----------------------------------------------------------------------------
(* The user, the system and the time.                                      *)

\* The worker stays where it is, and what it relies on stays true.
LEMMA WorldTimes ==
  ASSUME TimersInv, prog'["worker"] = prog["worker"], prog'["user"] \in UserPrograms,
         UNCHANGED <<threaded, m_stopped, told>>, OneThreadOK',
         tmr' \in TmrType, connect' \in Connects \cup {NoOp}, read' \in Reads \cup {NoOp},
         \A t \in Timers : Armed(t)' <=> Armed(t),
         connect = NoOp => connect' = NoOp,
         writes = <<>> <=> writes' = <<>>,
         Left("heartbeat") # Off => Left("heartbeat")' # Off,
         ~m_stopped /\ ReadingOK => ReadingOK',
         ~m_stopped /\ WritingOK => WritingOK'
  PROVE  TimersInv'
<1>1. Now' = Now
  BY DEF Now
<1>2. TimersTyped'
  BY DEF TimersInv, TimersTyped
<1>3. ASSUME ~m_stopped PROVE RunningOK'
  <2>1. ToldOK'
    BY <1>1, <1>3 DEF TimersInv, RunningOK, ToldOK
  <2>2. ASSUME Now \notin {"stop", "shut"} PROVE ReadingOK' /\ WritingOK' /\ WatchOK' /\ HeartOK'
    <3>1. ReadingOK /\ WritingOK /\ WatchOK /\ HeartOK
      BY <1>3, <2>2 DEF TimersInv, RunningOK
    <3>2. WatchOK' /\ HeartOK'
      BY <1>1, <3>1 DEF WatchOK, HeartOK, Timers
    <3> QED  BY <1>3, <3>1, <3>2
  <2> QED  BY <1>1, <2>1, <2>2 DEF RunningOK
<1> QED  BY <1>2, <1>3 DEF TimersInv, RunningOK

LEMMA UserTimes ==
  ASSUME Inv, TimersInv, Join \/ UserStop \/ post_packet \/ run_from_stop
  PROVE  TimersInv'
<1>1. TypesOK /\ TimersTyped /\ OneThreadOK
  BY DEF Inv, LinesInv, TimersInv
<1>2. UNCHANGED <<threaded, m_stopped, told, tmr, connect, read, writes, out>>
  BY DEF Join, UserStop, post_packet, run_from_stop, net
<1>3. /\ prog'["worker"] = prog["worker"] /\ prog'["user"] \in UserPrograms
      /\ \/ prog'["user"] \in {prog["user"], <<"done">>}
         \/ prog'["user"] = <<"stop", "join">> /\ (threaded \/ prog["worker"] = <<>>)
  <2>1. CASE Join
    BY <1>1, <2>1, UserStep DEF Join, UserPrograms
  <2>2. CASE UserStop
    BY <1>1, <2>2 DEF UserStop, UserPrograms, TypesOK, Threads
  <2>3. CASE post_packet \/ run_from_stop
    BY <1>1, <2>3 DEF post_packet, run_from_stop, TimersTyped
  <2> QED  BY <2>1, <2>2, <2>3
<1>4. OneThreadOK'
  <2>1. <<"done">> # <<"shut", "join">> /\ <<"stop", "join">> # <<"shut", "join">>
    <3>1. Len(<<"done">>) = 1 /\ Len(<<"shut", "join">>) = 2
      OBVIOUS
    <3>2. Head(<<"stop", "join">>) = "stop" /\ Head(<<"shut", "join">>) = "shut"
      OBVIOUS
    <3> QED  BY <3>1, <3>2
  <2>2. Now' = Now
    BY <1>3 DEF Now
  <2> QED  BY <1>1, <1>2, <1>3, <2>1, <2>2 DEF OneThreadOK
<1>5. /\ tmr' \in TmrType /\ connect' \in Connects \cup {NoOp} /\ read' \in Reads \cup {NoOp}
      /\ \A t \in Timers : (Armed(t)' <=> Armed(t)) /\ Left(t)' = Left(t)
  BY <1>1, <1>2 DEF TimersTyped, Armed, Left
<1>6. (ReadingOK => ReadingOK') /\ (WritingOK => WritingOK')
  BY <1>2, <1>3 DEF ReadingOK, WritingOK, Left, Now, out
<1>7. Left("heartbeat")' = Left("heartbeat")
  BY <1>2 DEF Left
<1> QED  BY <1>2, <1>3, <1>4, <1>5, <1>6, <1>7, WorldTimes

LEMMA DoneTimes ==
  ASSUME Inv, TimersInv, ConnectDone \/ ReadDone \/ \E i \in DOMAIN writes : WriteDone(i)
  PROVE  TimersInv'
<1>1. TypesOK /\ TimersTyped /\ OneThreadOK
  BY DEF Inv, LinesInv, TimersInv
<1>2. UNCHANGED <<threaded, m_stopped, told, tmr, prog, out>>
  BY DEF ConnectDone, ReadDone, WriteDone
<1>3. /\ connect' \in Connects \cup {NoOp} /\ connect'.age = connect.age
      /\ connect = NoOp <=> connect' = NoOp
  <2>1. CASE ConnectDone
    <3>1. /\ connect.res = "pending"
          /\ \/ connect' = [connect EXCEPT !.res = "ok"]
             \/ connect' = [connect EXCEPT !.res = "error"]
      BY <2>1 DEF ConnectDone
    <3>2. connect \in Connects
      BY <1>1, <3>1, Operations DEF TimersTyped
    <3>3. connect' \in Connects /\ connect'.age = connect.age
      BY <3>1, <3>2 DEF Connects
    <3> QED  BY <3>2, <3>3, Operations
  <2>2. CASE UNCHANGED connect
    BY <1>1, <2>2 DEF TimersTyped
  <2> QED  BY <2>1, <2>2 DEF ReadDone, WriteDone
<1>4. /\ read' \in Reads \cup {NoOp} /\ read'.age = read.age
      /\ read = NoOp <=> read' = NoOp
  <2>1. CASE ReadDone
    <3>1. PICK r \in {"ok", "error", "heartbeat"} :
            read.res = "pending" /\ read' = [read EXCEPT !.res = r]
      BY <2>1 DEF ReadDone
    <3>2. read \in Reads
      BY <1>1, <3>1, Operations DEF TimersTyped
    <3>3. read' \in Reads /\ read'.age = read.age
      BY <3>1, <3>2 DEF Reads
    <3> QED  BY <3>2, <3>3, Operations
  <2>2. CASE UNCHANGED read
    BY <1>1, <2>2 DEF TimersTyped
  <2> QED  BY <2>1, <2>2 DEF ConnectDone, WriteDone
<1>5. /\ writes = <<>> <=> writes' = <<>>
      /\ writes # <<>> => writes'[1].age = writes[1].age
  <2>1. ASSUME NEW i \in DOMAIN writes, WriteDone(i)
        PROVE  (writes = <<>> <=> writes' = <<>>) /\ writes'[1].age = writes[1].age
    <3>1. PICK r \in {"ok", "error"} : writes' = [writes EXCEPT ![i].res = r]
      BY <2>1 DEF WriteDone
    <3>2. writes # <<>> /\ i = 1 /\ DOMAIN writes = {1} /\ writes[1] \in WriteOps
      BY <1>1, <2>1, OneWrite
    <3>3. writes' # <<>> /\ writes'[1] = [writes[1] EXCEPT !.res = r]
      BY <3>1, <3>2
    <3> QED  BY <3>2, <3>3 DEF WriteOps
  <2>2. CASE UNCHANGED writes
    BY <2>2
  <2> QED  BY <2>1, <2>2 DEF ConnectDone, ReadDone
<1>6. OneThreadOK'
  BY <1>1, <1>2 DEF OneThreadOK, Now
<1>7. /\ tmr' \in TmrType /\ Left("heartbeat")' = Left("heartbeat")
      /\ \A t \in Timers : (Armed(t)' <=> Armed(t))
      /\ prog'["user"] \in UserPrograms
  BY <1>1, <1>2 DEF TimersTyped, Armed, Left
<1>8. ReadingOK => ReadingOK'
  BY <1>2, <1>3, <1>4 DEF ReadingOK, Left, Now
<1>9. WritingOK => WritingOK'
  BY <1>2, <1>5 DEF WritingOK, Left, Now, out
<1> QED  BY <1>2, <1>3, <1>4, <1>5, <1>6, <1>7, <1>8, <1>9, WorldTimes

LEMMA TickTimes == ASSUME Inv, TimersInv, Tick PROVE TimersInv'
<1>1. TypesOK /\ TimersTyped /\ OneThreadOK /\ tmr \in TmrType
  BY DEF Inv, LinesInv, TimersInv, TimersTyped
<1>2. UNCHANGED <<threaded, m_stopped, told, prog, out>>
  BY DEF Tick
<1>3. /\ tmr' \in TmrType
      /\ \A t \in Timers : /\ Armed(t)' <=> Armed(t)
                           /\ Left(t)' = IF Left(t) <= 0 THEN Left(t) ELSE Left(t) - 1
  <2> DEFINE f(t) == IF tmr[t].left <= 0 THEN tmr[t]
                     ELSE [left |-> tmr[t].left - 1,
                           wait |-> IF tmr[t].left = 1 /\ tmr[t].wait = "waiting"
                                    THEN "expired" ELSE tmr[t].wait]
  <2>1. tmr' = [t \in Timers |-> f(t)]
    BY DEF Tick
  <2>2. ASSUME NEW t \in Timers
        PROVE  /\ f(t) \in [left: Int, wait: Waits]
               /\ f(t).wait = "none" <=> tmr[t].wait = "none"
               /\ f(t).left = IF tmr[t].left <= 0 THEN tmr[t].left ELSE tmr[t].left - 1
    <3>1. tmr[t] \in [left: Int, wait: Waits]
      BY <1>1 DEF TmrType
    <3> QED  BY <3>1 DEF Waits
  <2> HIDE DEF f
  <2>3. tmr' \in TmrType /\ \A t \in Timers : tmr'[t] = f(t)
    BY <2>1, <2>2 DEF TmrType
  <2> QED  BY <2>2, <2>3 DEF Armed, Left
<1>4. Timers = {"read", "write", "heartbeat"} /\ \A t \in Timers : Left(t) \in Int
  BY <1>1 DEF Timers, Left, TmrType
<1>5. /\ connect' = Older(connect, ConnectTimeout) /\ read' = Older(read, ReadTimeout)
      /\ writes' = [i \in DOMAIN writes |-> Older(writes[i], WriteTimeout)]
  BY DEF Tick
\* An operation grows older until it has had all of its time.
<1>6. /\ connect' \in Connects \cup {NoOp} /\ (connect = NoOp <=> connect' = NoOp)
      /\ ~m_stopped /\ connect # NoOp =>
           connect'.age = IF connect.age = ConnectTimeout THEN connect.age ELSE connect.age + 1
  <2>1. CASE connect = NoOp
    BY <1>5, <2>1, Operations DEF Older
  <2>2. CASE connect \in Connects
    BY <1>5, <2>2, Operations, Timeouts DEF Older, Connects
  <2> QED  BY <1>1, <2>1, <2>2 DEF TimersTyped
<1>7. /\ read' \in Reads \cup {NoOp} /\ (read = NoOp <=> read' = NoOp)
      /\ ~m_stopped /\ read # NoOp =>
           read'.age = IF read.age = ReadTimeout THEN read.age ELSE read.age + 1
  <2>1. CASE read = NoOp
    BY <1>5, <2>1, Operations DEF Older
  <2>2. CASE read \in Reads
    BY <1>5, <2>2, Operations, Timeouts DEF Older, Reads
  <2> QED  BY <1>1, <2>1, <2>2 DEF TimersTyped
<1>8. /\ writes = <<>> <=> writes' = <<>>
      /\ ~m_stopped /\ writes # <<>> =>
           writes'[1].age = IF writes[1].age = WriteTimeout THEN writes[1].age
                            ELSE writes[1].age + 1
  <2>1. writes = <<>> <=> writes' = <<>>
    BY <1>1, <1>5, Aged, EmptySeq DEF SameWrites, TypesOK
  <2>2. ASSUME writes # <<>>, ~m_stopped
        PROVE  writes'[1].age = IF writes[1].age = WriteTimeout THEN writes[1].age
                                ELSE writes[1].age + 1
    <3>1. DOMAIN writes = {1} /\ writes[1] \in WriteOps
      BY <1>1, <2>2, OneWrite
    <3>2. writes'[1] = Older(writes[1], WriteTimeout)
      BY <1>5, <3>1
    <3> QED  BY <2>2, <3>1, <3>2 DEF Older, WriteOps
  <2> QED  BY <2>1, <2>2
<1>9. ASSUME ~m_stopped, ReadingOK PROVE ReadingOK'
  <2>1. CASE connect # NoOp /\ read = NoOp /\ Left("read") = ConnectTimeout - connect.age
             /\ Now \notin Between
    <3>1. connect.age \in Int /\ 0 <= connect.age /\ connect.age <= ConnectTimeout
      BY <1>1, <2>1, Operations DEF TimersTyped
    <3>2. Left("read")' = ConnectTimeout - connect'.age
      BY <1>3, <1>4, <1>6, <1>9, <2>1, <3>1, Timeouts
    <3> QED  BY <1>2, <1>6, <1>7, <2>1, <3>2 DEF ReadingOK, Now
  <2>2. CASE read # NoOp /\ connect = NoOp /\ Left("read") = ReadTimeout - read.age
             /\ Now \notin Between
    <3>1. read.age \in Int /\ 0 <= read.age /\ read.age <= ReadTimeout
      BY <1>1, <2>2, Operations DEF TimersTyped
    <3>2. Left("read")' = ReadTimeout - read'.age
      BY <1>3, <1>4, <1>7, <1>9, <2>2, <3>1, Timeouts
    <3> QED  BY <1>2, <1>6, <1>7, <2>2, <3>2 DEF ReadingOK, Now
  <2>3. CASE Now \in Between /\ connect = NoOp /\ read = NoOp
    BY <1>2, <1>6, <1>7, <2>3 DEF ReadingOK, Now
  <2> QED  BY <1>9, <2>1, <2>2, <2>3 DEF ReadingOK
<1>10. ASSUME ~m_stopped, WritingOK PROVE WritingOK'
  <2>1. ASSUME Now \notin {"written", "not_written"}, writes = <<>>
        PROVE  Left("write")' = Off /\ ~m_bWriteInProgress'
    BY <1>2, <1>3, <1>4, <1>10, <2>1 DEF WritingOK, out, Off
  <2>2. ASSUME Now \notin {"written", "not_written"}, writes # <<>>
        PROVE  writes'[1].age \in 0 .. WriteTimeout
               /\ Left("write")' = WriteTimeout - writes'[1].age
    <3>1. writes[1].age \in 0 .. WriteTimeout /\ Left("write") = WriteTimeout - writes[1].age
      BY <1>10, <2>2 DEF WritingOK
    <3> DEFINE a == writes[1].age
    <3>2. /\ a \in Int /\ 0 <= a /\ a <= WriteTimeout
          /\ writes'[1].age = IF a = WriteTimeout THEN a ELSE a + 1
      BY <1>8, <1>10, <2>2, <3>1, Timeouts
    <3>3. Left("write")' = IF Left("write") <= 0 THEN Left("write") ELSE Left("write") - 1
      BY <1>3, <1>4
    <3> HIDE DEF a
    <3>4. Left("write") = WriteTimeout - a
      BY <3>1 DEF a
    <3> QED  BY <3>2, <3>3, <3>4, Timeouts
  <2>3. Now' = Now
    BY <1>2 DEF Now
  <2> QED  BY <1>8, <2>1, <2>2, <2>3 DEF WritingOK
<1>11. Left("heartbeat") # Off => Left("heartbeat")' # Off
  BY <1>3, <1>4 DEF Off
<1>12. OneThreadOK'
  BY <1>1, <1>2 DEF OneThreadOK, Now
<1>13. prog'["worker"] = prog["worker"] /\ prog'["user"] \in UserPrograms
  BY <1>1, <1>2 DEF TimersTyped
<1> QED
  BY <1>2, <1>3, <1>6, <1>7, <1>8, <1>9, <1>10, <1>11, <1>12, <1>13, WorldTimes

-----------------------------------------------------------------------------
(* The client keeps the invariant.                                         *)

LEMMA TimersInit == Init => TimersInv
<1> SUFFICES ASSUME Init PROVE TimersInv
  OBVIOUS
<1>1. /\ m_stopped = FALSE /\ connect = Op("connect", "pending") /\ read = NoOp
      /\ writes = <<>> /\ m_bWriteInProgress = FALSE /\ told = <<>>
      /\ prog = [th \in Threads |-> <<>>]
      /\ tmr = [t \in Timers |->
                 [left |-> IF t = "read" THEN ConnectTimeout ELSE Off,
                  wait |-> CASE t = "read" -> "aborted" [] t = "write" -> "waiting"
                             [] t = "heartbeat" -> "none"]]
  BY DEF Init
<1>2. prog["worker"] = <<>> /\ prog["user"] = <<>> /\ Now = "idle"
  BY <1>1 DEF Threads, Now
<1>3. connect \in Connects /\ connect # NoOp /\ connect.age = 0
  BY <1>1, Operations, Timeouts DEF Op, Connects
<1>4. /\ tmr["read"] = [left |-> ConnectTimeout, wait |-> "aborted"]
      /\ tmr["write"] = [left |-> Off, wait |-> "waiting"]
      /\ tmr["heartbeat"] = [left |-> Off, wait |-> "none"]
      /\ Timers = {"read", "write", "heartbeat"} /\ "read" \in Timers
  BY <1>1 DEF Timers
<1>5. tmr \in TmrType
  <2>1. \A t \in Timers : tmr[t] \in [left: Int, wait: Waits]
    BY <1>4, Timeouts DEF Off, Waits
  <2>2. tmr = [t \in Timers |-> tmr[t]]
    BY <1>1
  <2> QED  BY <2>1, <2>2 DEF TmrType
<1>6. TimersTyped
  BY <1>1, <1>2, <1>3, <1>5, Known DEF TimersTyped, UserPrograms
<1>7. ToldOK /\ HeartOK
  BY <1>1 DEF ToldOK, HeartOK
<1>8. ReadingOK /\ WritingOK /\ WatchOK
  BY <1>1, <1>2, <1>3, <1>4, Timeouts DEF ReadingOK, WritingOK, WatchOK, Between, Left, Armed
<1> QED  BY <1>1, <1>2, <1>6, <1>7, <1>8 DEF TimersInv, RunningOK, OneThreadOK

LEMMA TimersKept == Inv /\ TimersInv /\ [Next]_vars => TimersInv'
<1> SUFFICES ASSUME Inv, TimersInv, [Next]_vars PROVE TimersInv'
  OBVIOUS
<1>1. CASE Handlers
  BY <1>1, RunConnectTimes, RunReadTimes, RunPostTimes, RunWriteTimes, RunTimerTimes
     DEF Handlers
<1>2. CASE Worker
  BY <1>2, StartConnectTimes, NotConnectedTimes, ConnectedTimes, NotifyTimes,
     ReadResponceTimes, DeliverTimes, SendPacketTimes, WrittenTimes, NotWrittenTimes,
     CheckDeadlineTimes, CheckHeartbeatTimes, HeartbeatTimerTimes, ReadStoppedTimes,
     ShutTimes DEF Worker, Threads
<1>3. CASE User
  BY <1>3, ReadStoppedTimes, ShutTimes, UserTimes DEF User, Threads
<1>4. CASE UserStop \/ post_packet \/ run_from_stop
  BY <1>4, UserTimes
<1>5. CASE ConnectDone \/ ReadDone \/ \E i \in DOMAIN writes : WriteDone(i)
  BY <1>5, DoneTimes
<1>6. CASE Tick
  BY <1>6, TickTimes
<1>7. CASE UNCHANGED vars
  <2>1. UNCHANGED <<prog, threaded, m_stopped, told, tmr, connect, read, writes, out>>
    BY <1>7 DEF vars, net
  <2>2. TimersTyped' /\ OneThreadOK'
    BY <2>1 DEF TimersInv, TimersTyped, OneThreadOK, Now
  <2>3. (ReadingOK' <=> ReadingOK) /\ (WritingOK' <=> WritingOK)
    BY <2>1 DEF ReadingOK, WritingOK, Left, Now, out
  <2>4. (ToldOK' <=> ToldOK) /\ (WatchOK' <=> WatchOK) /\ (HeartOK' <=> HeartOK) /\ Now' = Now
    BY <2>1 DEF ToldOK, WatchOK, HeartOK, Left, Armed, Now
  <2> QED  BY <2>1, <2>2, <2>3, <2>4 DEF TimersInv, RunningOK
<1> QED  BY <1>1, <1>2, <1>3, <1>4, <1>5, <1>6, <1>7 DEF Next

\* Each operation of a running client has a deadline that has as much left as the
\* operation lacks of its timeout, and its handlers leave the deadlines watched.
THEOREM TimersInvariant == Spec => []TimersInv
  BY TimersInit, TimersKept, LinesInvariant, PTL DEF Spec

-----------------------------------------------------------------------------
(* What the client promises.                                               *)

\* Between two handlers of a client that runs, every operation has its deadline
\* and an idle connection its heartbeat, so that a silent server is noticed: see
\* _start_check_deadline, _check_heartbeat and the completion handlers.
THEOREM AlwaysGuarded == Spec => []NothingHangs
<1>1. TimersInv => NothingHangs
  <2> SUFFICES ASSUME TimersInv, prog["worker"] = <<>>, ~m_stopped
      PROVE  /\ tmr["read"].wait # "none" /\ tmr["write"].wait # "none"
             /\ connect # NoOp \/ read # NoOp
             /\ _isTimerActive("read")
             /\ writes # <<>> <=> _isTimerActive("write")
             /\ told # <<>> => /\ tmr["heartbeat"].wait # "none"
                               /\ writes # <<>> \/ _isTimerActive("heartbeat")
    BY DEF NothingHangs
  <2>1. Now = "idle" /\ prog["worker"] # Begun /\ prog["worker"] # Rearm
    BY More DEF Now
  <2>2. ToldOK /\ ReadingOK /\ WritingOK /\ WatchOK /\ HeartOK /\ TimersTyped
    BY <2>1 DEF TimersInv, RunningOK
  <2>3. (connect # NoOp \/ read # NoOp) /\ _isTimerActive("read")
    BY <2>1, <2>2, Operations, Timeouts
       DEF TimersTyped, ReadingOK, Between, Left, Off, _isTimerActive
  <2>4. writes # <<>> <=> _isTimerActive("write")
    BY <2>1, <2>2, Timeouts DEF WritingOK, Left, Off, _isTimerActive
  <2>5. tmr["read"].wait # "none" /\ tmr["write"].wait # "none"
    BY <2>1, <2>2 DEF WatchOK, Armed
  <2>6. told # <<>> => /\ tmr["heartbeat"].wait # "none"
                       /\ writes # <<>> \/ _isTimerActive("heartbeat")
    BY <2>1, <2>2 DEF HeartOK, Left, Armed, _isTimerActive
  <2> QED  BY <2>3, <2>4, <2>5, <2>6
<1> QED  BY <1>1, TimersInvariant, PTL

\* With one thread hndConnectionState reports the connection at most once, and the
\* end of the client once and last: see QCli::stop and client::stop.
THEOREM EndReportedOnce == Spec => []ReportsPaired
<1>1. TimersInv => ReportsPaired
  BY DEF TimersInv, OneThreadOK, RunningOK, ToldOK, ReportsPaired
<1> QED  BY <1>1, TimersInvariant, PTL

\* With one thread, no packet is delivered and nothing is reported after the stop,
\* although a callback may stop the client inside of a handler that goes on.
THEOREM QuietAfterStop == Spec => SilentWhenStopped
<1>1. Inv /\ TimersInv /\ [Next]_vars =>
        [~threaded /\ m_stopped => ~At("worker", "deliver") /\ told' = told]_vars
  <2> SUFFICES ASSUME Inv, TimersInv, Next, ~threaded, m_stopped
      PROVE  ~At("worker", "deliver") /\ told' = told
    OBVIOUS
  <2>1. TypesOK /\ TimersTyped /\ Now \in Remains /\ prog["user"] # <<"shut", "join">>
    BY DEF Inv, LinesInv, TimersInv, OneThreadOK
  <2>2. \A step : At("worker", step) => step \in Remains
    BY <2>1, StepDone
  <2>3. ~At("worker", "deliver") /\ ~At("worker", "connected") /\ ~At("worker", "shut")
    BY <2>2 DEF Remains
  <2>4. ~At("user", "shut")
    BY <2>1, UserStep
  <2>5. ~Connected /\ \A th \in Threads : ~Shut(th)
    BY <2>3, <2>4 DEF Connected, Shut, Threads
  <2>6. ASSUME Handlers PROVE told' = told
    BY <2>6 DEF Handlers, RunConnect, RunRead, RunPost, RunWrite, RunTimer, Run
  <2>7. ASSUME Worker PROVE told' = told
    BY <2>5, <2>7 DEF Worker, Threads, _start_connect, NotConnected, Notify, _read_responce,
       _deliver, SendPacket, Written, NotWritten, _check_deadline, _check_heartbeat,
       HeartbeatTimer, ReadStopped
  <2>8. ASSUME User PROVE told' = told
    BY <2>5, <2>8 DEF User, Threads, ReadStopped, Join
  <2>9. ASSUME \/ ConnectDone \/ ReadDone \/ (\E i \in DOMAIN writes : WriteDone(i)) \/ Tick
               \/ UserStop \/ post_packet \/ run_from_stop
        PROVE  told' = told
    BY <2>9 DEF ConnectDone, ReadDone, WriteDone, Tick, UserStop, post_packet, run_from_stop
  <2> QED  BY <2>3, <2>6, <2>7, <2>8, <2>9 DEF Next
<1> QED  BY <1>1, LinesInvariant, TimersInvariant, PTL DEF Spec, SilentWhenStopped

\* A deadline that stops the client guards an operation that has had all of its
\* time: an expiry left over from an operation before never does, see _check_deadline.
THEOREM NoneIsCutShort == Spec => DeadlinesFair
<1>1. ASSUME Inv, TimersInv, NEW t \in {"read", "write"}, _check_deadline(t),
             At("worker", "stop")', ~m_stopped
      PROVE  \/ At("worker", "check_read")
                /\ (connect.age = ConnectTimeout \/ read.age = ReadTimeout)
             \/ At("worker", "check_write")
                /\ \E i \in DOMAIN writes : writes[i].age = WriteTimeout
  <2> DEFINE step == IF t = "read" THEN "check_read" ELSE "check_write"
  <2>1. TypesOK /\ TimersTyped
    BY <1>1 DEF Inv, LinesInv, TimersInv
  <2>2. /\ At("worker", step)
        /\ IF Left(t) = 0 THEN Goto("worker", <<"stop">>) ELSE Return
    BY <1>1 DEF _check_deadline, Left
  <2>3. step \in {"check_read", "check_write"} /\ (t = "read" <=> step = "check_read")
    OBVIOUS
  <2> HIDE DEF step
  <2>4. Now = step /\ (Return => prog'["worker"] = <<>>)
    BY <2>1, <2>2, <2>3, StepDone DEF Tails
  <2>5. Left(t) = 0
    BY <1>1, <2>2, <2>4 DEF At
  <2>6. ReadingOK /\ WritingOK
    BY <1>1, <2>3, <2>4 DEF TimersInv, RunningOK
  <2>7. CASE t = "read"
    <3>1. \/ connect # NoOp /\ ConnectTimeout - connect.age = 0
          \/ read # NoOp /\ ReadTimeout - read.age = 0
      BY <2>3, <2>4, <2>5, <2>6, <2>7 DEF ReadingOK, Between
    <3>2. connect.age = ConnectTimeout \/ read.age = ReadTimeout
      BY <2>1, <3>1, Operations, Timeouts DEF TimersTyped
    <3> QED  BY <2>2, <2>3, <2>7, <3>2
  <2>8. CASE t = "write"
    <3>1. writes # <<>> /\ writes[1].age \in 0 .. WriteTimeout /\ WriteTimeout - writes[1].age = 0
      BY <2>3, <2>4, <2>5, <2>6, <2>8 DEF WritingOK, Off
    <3>2. 1 \in DOMAIN writes /\ writes[1].age = WriteTimeout
      BY <2>1, <3>1, OneWrite, Timeouts
    <3> QED  BY <2>2, <2>3, <2>8, <3>2
  <2> QED  BY <2>7, <2>8
<1>2. Inv /\ TimersInv /\ [Next]_vars =>
        [(\E t \in {"read", "write"} : _check_deadline(t)) /\ At("worker", "stop")' =>
           \/ m_stopped
           \/ At("worker", "check_read")
              /\ (connect.age = ConnectTimeout \/ read.age = ReadTimeout)
           \/ At("worker", "check_write")
              /\ \E i \in DOMAIN writes : writes[i].age = WriteTimeout]_vars
  BY <1>1
<1> QED  BY <1>2, LinesInvariant, TimersInvariant, PTL DEF Spec, DeadlinesFair
=============================================================================
