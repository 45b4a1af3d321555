---------------------------- MODULE ProxyClient ----------------------------
(***************************************************************************)
(* The client of the quote server: actors that connect, read, write, watch *)
(* deadlines and send heartbeats, all of them completion handlers of one   *)
(* asio::io_context.  A handler is run by the worker; it starts by reading *)
(* m_stopped, and what it does then is a program of steps, because stop()  *)
(* may be called by another thread (QCliWThread) between any two of them.  *)
(* With QCli there is one thread, and stop() is called between handlers or *)
(* by a callback inside of one.                                            *)
(*                                                                         *)
(* Asynchronous operations, timers and the event loop are those of asio:   *)
(* an operation has a result when it is complete, and then its handler may *)
(* be run; a cancelled wait completes with an error, a wait that has       *)
(* expired already is not cancelled any more; closing the socket fails     *)
(* everything outstanding on it.                                           *)
(***************************************************************************)
EXTENDS Integers, SequencesExt

CONSTANTS
  Endpoints,       \* how many endpoints the host name has resolved to
  MaxPackets,      \* bound on the packets the user posts
  ConnectTimeout, ReadTimeout, WriteTimeout, HeartbeatPeriod,
  Modes            \* subset of BOOLEAN: may the user have a thread of its own

ASSUME EndpointAssumption == Endpoints \in Nat \ {0} /\ MaxPackets \in Nat
ASSUME TimeoutAssumption ==
  {ConnectTimeout, ReadTimeout, WriteTimeout, HeartbeatPeriod} \subseteq Nat \ {0}
ASSUME ModeAssumption == Modes \subseteq BOOLEAN /\ Modes # {}

VARIABLES
  threaded,            \* QCliWThread or QCli
  m_stopped,
  sock,                \* m_socket: "closed", "opening" or "up"
  endpoint,            \* the endpoint tried last
  connect,             \* the outstanding async_connect, or NoOp
  read,                \* the outstanding async_read, or NoOp
  writes,              \* the outstanding async_writes
  tmr,                 \* the three timers, each with its asynchronous wait
  m_writeQueue, m_bWriteInProgress,
  posts,               \* packets whose asio::post has not been run yet
  given,               \* how many packets the user has posted
  wire,                \* the packets that have left, without heartbeats
  told,                \* the arguments of hndConnectionState so far
  prog,                \* what each thread is about to do
  contextStopped       \* io_context::stopped()

net == <<sock, connect, read, writes>>
out == <<m_writeQueue, m_bWriteInProgress>>
vars == <<threaded, m_stopped, net, endpoint, tmr, out, posts, given, wire, told,
          prog, contextStopped>>

Timers == {"read", "write", "heartbeat"}
Threads == {"worker", "user"}
Heartbeat == 0
Packets == 1..MaxPackets
Off == -1                        \* time_point::max()

Op(kind, res) == [kind |-> kind, res |-> res, age |-> 0]
NoOp == Op("none", "none")

-----------------------------------------------------------------------------
(* Timers, as functions of the three of them.                              *)

\* expires_after, expires_at: a wait that has not expired is cancelled.
Expires(s, t, left) ==
  [s EXCEPT ![t] = [left |-> left,
                    wait |-> IF @.wait = "waiting" THEN "aborted" ELSE @.wait]]
_deactivateTimer(s, t) == Expires(s, t, Off)
_isTimerActive(t) == tmr[t].left # Off
AsyncWait(s, t) ==
  [s EXCEPT ![t].wait = IF s[t].left = 0 THEN "expired" ELSE "waiting"]
CancelAll_Not(s) == s
CancelAll(s) == [t \in Timers |-> Expires(s, t, s[t].left)[t]]
_reset_heartbeat(s) == Expires(s, "heartbeat", HeartbeatPeriod)

-----------------------------------------------------------------------------
(* The socket.                                                             *)

\* What an operation started now may have for a result at once.
Started == CASE sock = "closed" -> {"error"}
             [] sock = "opening" -> {"pending", "error"}
             [] sock = "up" -> {"pending"}

Abort(op) == IF op.res = "pending" THEN [op EXCEPT !.res = "error"] ELSE op

Close ==
  /\ sock' = "closed"
  /\ connect' = Abort(connect) /\ read' = Abort(read)
  /\ writes' = [i \in DOMAIN writes |-> Abort(writes[i])]

\* The system completes an operation; the connection may break at any time.
\* While the event loop is stopped nobody sees it: it may as well happen later.
ConnectDone ==
  /\ connect.res = "pending" /\ ~contextStopped
  /\ \/ connect' = [connect EXCEPT !.res = "ok"] /\ sock' = "up"
     \/ connect' = [connect EXCEPT !.res = "error"] /\ UNCHANGED sock
  /\ UNCHANGED <<threaded, m_stopped, read, writes, endpoint, tmr, out, posts, given,
                 wire, told, prog, contextStopped>>

ReadDone ==
  /\ read.res = "pending" /\ sock = "up" /\ ~contextStopped
  /\ \E r \in {"ok", "error"} \cup (IF read.kind = "header" THEN {"heartbeat"} ELSE {}) :
       read' = [read EXCEPT !.res = r]
  /\ UNCHANGED <<threaded, m_stopped, sock, connect, writes, endpoint, tmr, out, posts,
                 given, wire, told, prog, contextStopped>>

WriteDone(i) ==
  /\ writes[i].res = "pending" /\ sock = "up" /\ ~contextStopped
  /\ \E r \in {"ok", "error"} :
       /\ writes' = [writes EXCEPT ![i].res = r]
       /\ wire' = IF r = "ok" /\ writes[i].kind # Heartbeat
                  THEN Append(wire, writes[i].kind) ELSE wire
  /\ UNCHANGED <<threaded, m_stopped, sock, connect, read, endpoint, tmr, out, posts,
                 given, told, prog, contextStopped>>

\* Time passes between handlers, as long as an actor looks at it.  An operation
\* knows its age up to its timeout.
Older(op, timeout) ==
  IF op.res = "none" \/ m_stopped \/ op.age = timeout THEN op
  ELSE [op EXCEPT !.age = @ + 1]

Tick ==
  /\ prog["worker"] = <<>> /\ ~contextStopped
  /\ \E t \in Timers : tmr[t].left > 0 /\ (m_stopped => tmr[t].wait = "waiting")
  /\ tmr' = [t \in Timers |->
               IF tmr[t].left <= 0 THEN tmr[t]
               ELSE [left |-> tmr[t].left - 1,
                     wait |-> IF tmr[t].left = 1 /\ tmr[t].wait = "waiting"
                              THEN "expired" ELSE tmr[t].wait]]
  /\ connect' = Older(connect, ConnectTimeout) /\ read' = Older(read, ReadTimeout)
  /\ writes' = [i \in DOMAIN writes |-> Older(writes[i], WriteTimeout)]
  /\ UNCHANGED <<threaded, m_stopped, sock, endpoint, out, posts, given, wire, told,
                 prog, contextStopped>>

-----------------------------------------------------------------------------
(* The event loop.  A complete operation, an expired or cancelled wait and *)
(* a posted packet are handlers the worker may run next.                   *)

CanRun ==
  /\ prog["worker"] = <<>> /\ ~contextStopped
  /\ threaded \/ prog["user"] \in {<<>>, <<"done">>}

Run_Always(steps) ==
  /\ CanRun
  /\ prog' = [prog EXCEPT !["worker"] = steps]
  /\ UNCHANGED <<threaded, m_stopped, sock, endpoint, out, given, wire, told,
                 contextStopped>>

\* The worker takes a handler; it returns at once if the client has stopped.
Run(steps) ==
  /\ CanRun
  /\ prog' = [prog EXCEPT !["worker"] = IF m_stopped THEN <<>> ELSE steps]
  /\ UNCHANGED <<threaded, m_stopped, sock, endpoint, out, given, wire, told,
                 contextStopped>>

RunConnect ==
  /\ connect.res \in {"ok", "error"}
  /\ connect' = NoOp
  /\ Run(<<IF connect.res = "ok" THEN "connected" ELSE "not_connected">>)
  /\ UNCHANGED <<read, writes, tmr, posts>>

\* A header of a heartbeat, a header that announces a body, a body.
RunRead ==
  /\ read.res \in {"ok", "heartbeat", "error"}
  /\ read' = NoOp
  /\ Run(CASE read.res = "error" -> <<"stop">>
            [] read.res = "heartbeat" -> <<"quik_state", "read_header">>
            [] read.res = "ok" /\ read.kind = "header" -> <<"quik_state", "read_body">>
            [] read.res = "ok" /\ read.kind = "body" -> <<"deliver", "read_header">>)
  /\ UNCHANGED <<connect, writes, tmr, posts>>

RunWrite(i) ==
  /\ writes[i].res \in {"ok", "error"}
  /\ writes' = RemoveAt(writes, i)
  /\ Run(<<IF writes[i].res = "ok" THEN "written" ELSE "not_written">>)
  /\ UNCHANGED <<connect, read, tmr, posts>>

RunTimer(t) ==
  /\ tmr[t].wait \in {"expired", "aborted"}
  /\ tmr' = [tmr EXCEPT ![t].wait = "none"]
  /\ Run(CASE t = "read" -> <<"check_read">>
            [] t = "write" -> <<"check_write">>
            [] t = "heartbeat" /\ tmr[t].wait = "aborted" -> <<"wait_heartbeat">>
            [] t = "heartbeat" /\ tmr[t].wait = "expired" ->
                 <<"check_heartbeat", "wait_heartbeat">>)
  /\ UNCHANGED <<connect, read, writes, posts>>

\* The lambda of post_packet does not look at m_stopped.
RunPost ==
  /\ posts # <<>> /\ CanRun
  /\ posts' = Tail(posts)
  /\ prog' = [prog EXCEPT !["worker"] = <<"send_packet">>]
  /\ m_writeQueue' = Append(m_writeQueue, Head(posts))
  /\ UNCHANGED <<threaded, m_stopped, net, endpoint, tmr, m_bWriteInProgress, given,
                 wire, told, contextStopped>>

-----------------------------------------------------------------------------
(* The steps of the handlers.                                              *)

At(th, step) == prog[th] # <<>> /\ Head(prog[th]) = step
Goto(th, steps) == prog' = [prog EXCEPT ![th] = steps \o Tail(@)]
Return == Goto("worker", <<>>)

\* A callback of the user's handler returns, or calls QCli::stop() first.
Callback ==
  \/ Return /\ UNCHANGED contextStopped
  \/ /\ ~threaded /\ ~m_stopped
     /\ contextStopped' = TRUE /\ Goto("worker", <<"stop">>)

_start_connect ==
  /\ At("worker", "connect")
  /\ \/ /\ endpoint < Endpoints
        /\ endpoint' = endpoint + 1
        /\ tmr' = Expires(tmr, "read", ConnectTimeout)
        /\ sock' = "opening" /\ connect' = Op("connect", "pending")
        /\ Return
     \/ /\ endpoint = Endpoints
        /\ Goto("worker", <<"stop">>)
        /\ UNCHANGED <<endpoint, tmr, sock, connect>>
  /\ UNCHANGED <<threaded, m_stopped, read, writes, out, posts, given, wire, told,
                 contextStopped>>

\* The socket is closed here only if another thread has called stop().
NotConnected ==
  /\ At("worker", "not_connected") \/ (At("worker", "connected") /\ sock = "closed")
  /\ IF sock = "closed" THEN UNCHANGED net ELSE Close
  /\ Goto("worker", <<"connect">>)
  /\ UNCHANGED <<threaded, m_stopped, endpoint, tmr, out, posts, given, wire, told,
                 contextStopped>>

Connected ==
  /\ At("worker", "connected") /\ sock # "closed"
  /\ told' = Append(told, TRUE)
  /\ Goto("worker", <<"hnd", "read_header", "reset_heartbeat", "wait_heartbeat">>)
  /\ UNCHANGED <<threaded, m_stopped, net, endpoint, tmr, out, posts, given, wire,
                 contextStopped>>

\* hndConnectionState(true), as Connected calls it, and hndQuikConnectionState
Notify ==
  /\ At("worker", "hnd") \/ At("worker", "quik_state")
  /\ Callback
  /\ UNCHANGED <<threaded, m_stopped, net, endpoint, tmr, out, posts, given, wire, told>>

_read_responce ==
  /\ At("worker", "read_header") \/ At("worker", "read_body")
  /\ tmr' = Expires(tmr, "read", ReadTimeout)
  /\ \E r \in Started :
       read' = Op(IF At("worker", "read_body") THEN "body" ELSE "header", r)
  /\ Return
  /\ UNCHANGED <<threaded, m_stopped, sock, connect, writes, endpoint, out, posts, given,
                 wire, told, contextStopped>>

\* The read deadline is off while the user's handler processes the packet.
_deliver ==
  /\ At("worker", "deliver")
  /\ tmr' = _deactivateTimer(tmr, "read")
  /\ Callback
  /\ UNCHANGED <<threaded, m_stopped, net, endpoint, out, posts, given, wire, told>>

_write_request_Always(queue, inProgress, s) ==
  /\ m_writeQueue' = queue
  /\ m_bWriteInProgress' = TRUE
  /\ tmr' = Expires(s, "write", WriteTimeout)
  /\ \E r \in Started : writes' = Append(writes, Op(Head(queue), r))

\* async_write of the front of the queue, unless a write is in progress; the
\* timers are s when it is called.
_write_request(queue, inProgress, s) ==
  /\ m_writeQueue' = queue
  /\ m_bWriteInProgress' = (inProgress \/ ~m_stopped)
  /\ IF inProgress \/ m_stopped THEN tmr' = s /\ UNCHANGED writes
     ELSE /\ tmr' = Expires(s, "write", WriteTimeout)
          /\ \E r \in Started : writes' = Append(writes, Op(Head(queue), r))

SendPacket ==
  /\ At("worker", "send_packet")
  /\ _write_request(m_writeQueue, m_bWriteInProgress, tmr)
  /\ Return
  /\ UNCHANGED <<threaded, m_stopped, sock, connect, read, endpoint, posts, given, wire,
                 told, contextStopped>>

Written_NoPop ==
  /\ At("worker", "written")
  /\ _write_request(m_writeQueue, FALSE, tmr) /\ Return
  /\ UNCHANGED <<threaded, m_stopped, sock, connect, read, endpoint, posts, given, wire,
                 told, contextStopped>>

Written ==
  /\ At("worker", "written")
  /\ LET rest == Tail(m_writeQueue)
     IN IF rest # <<>> THEN _write_request(rest, FALSE, tmr) /\ Return
        ELSE /\ m_writeQueue' = rest /\ m_bWriteInProgress' = FALSE
             /\ tmr' = _deactivateTimer(tmr, "write")
             /\ Goto("worker", <<"reset_heartbeat">>)
             /\ UNCHANGED writes
  /\ UNCHANGED <<threaded, m_stopped, sock, connect, read, endpoint, posts, given, wire,
                 told, contextStopped>>

NotWritten ==
  /\ At("worker", "not_written")
  /\ m_bWriteInProgress' = FALSE
  /\ Goto("worker", <<"stop">>)
  /\ UNCHANGED <<threaded, m_stopped, net, endpoint, tmr, m_writeQueue, posts, given,
                 wire, told, contextStopped>>

_check_deadline_Moved(t) ==
  /\ At("worker", IF t = "read" THEN "check_read" ELSE "check_write")
  /\ Goto("worker", <<"stop">>)
  /\ UNCHANGED <<threaded, m_stopped, net, endpoint, tmr, out, posts, given, wire, told,
                 contextStopped>>

\* The handler of a deadline: the expiry may have been moved since.
_check_deadline(t) ==
  /\ At("worker", IF t = "read" THEN "check_read" ELSE "check_write")
  /\ IF tmr[t].left = 0 THEN Goto("worker", <<"stop">>) /\ UNCHANGED tmr
     ELSE Return /\ tmr' = AsyncWait(tmr, t)
  /\ UNCHANGED <<threaded, m_stopped, net, endpoint, out, posts, given, wire, told,
                 contextStopped>>

\* The wait of the heartbeat has expired.
_check_heartbeat ==
  /\ At("worker", "check_heartbeat")
  /\ IF \/ tmr["heartbeat"].left # 0
        \/ _isTimerActive("write") \/ m_writeQueue # <<>>      \* _skip_heartbeat
     THEN tmr' = _reset_heartbeat(tmr) /\ UNCHANGED <<out, writes>>
     ELSE _write_request(<<Heartbeat>>, m_bWriteInProgress,      \* send_heartbeat
                         _deactivateTimer(tmr, "heartbeat"))
  /\ Return
  /\ UNCHANGED <<threaded, m_stopped, sock, connect, read, endpoint, posts, given, wire,
                 told, contextStopped>>

HeartbeatTimer_NoReset ==
  /\ \/ At("worker", "reset_heartbeat") /\ UNCHANGED tmr
     \/ At("worker", "wait_heartbeat") /\ tmr' = AsyncWait(tmr, "heartbeat")
  /\ Return
  /\ UNCHANGED <<threaded, m_stopped, net, endpoint, out, posts, given, wire, told,
                 contextStopped>>

HeartbeatTimer ==
  /\ \/ At("worker", "reset_heartbeat") /\ tmr' = _reset_heartbeat(tmr)
     \/ At("worker", "wait_heartbeat") /\ tmr' = AsyncWait(tmr, "heartbeat")
  /\ Return
  /\ UNCHANGED <<threaded, m_stopped, net, endpoint, out, posts, given, wire, told,
                 contextStopped>>

-----------------------------------------------------------------------------
(* client::stop, by either thread, and what the user does.                 *)

ReadStopped_Not(th) ==
  /\ At(th, "stop")
  /\ Goto(th, <<"shut">>)
  /\ UNCHANGED <<threaded, m_stopped, net, endpoint, tmr, out, posts, given, wire, told,
                 contextStopped>>

ReadStopped(th) ==
  /\ At(th, "stop")
  /\ Goto(th, IF m_stopped THEN <<>> ELSE <<"shut">>)
  /\ UNCHANGED <<threaded, m_stopped, net, endpoint, tmr, out, posts, given, wire, told,
                 contextStopped>>

Shut(th) ==
  /\ At(th, "shut")
  /\ m_stopped' = TRUE /\ told' = Append(told, FALSE)
  /\ Close /\ tmr' = CancelAll(tmr)
  /\ Goto(th, <<>>)
  /\ UNCHANGED <<threaded, endpoint, out, posts, given, wire, contextStopped>>

\* The thread may be joined when run() has returned.
Join ==
  /\ At("user", "join")
  /\ threaded => prog["worker"] = <<>>
  /\ Goto("user", <<"done">>)
  /\ UNCHANGED <<threaded, m_stopped, net, endpoint, tmr, out, posts, given, wire, told,
                 contextStopped>>

\* QCli::stop stops the event loop first.
UserStop ==
  /\ prog["user"] = <<>>
  /\ threaded \/ prog["worker"] = <<>>
  /\ contextStopped' = TRUE
  /\ prog' = [prog EXCEPT !["user"] = <<"stop", "join">>]
  /\ UNCHANGED <<threaded, m_stopped, net, endpoint, tmr, out, posts, given, wire, told>>

post_packet ==
  /\ given < MaxPackets /\ prog["user"] = <<>>
  /\ given' = given + 1 /\ posts' = Append(posts, given + 1)
  /\ UNCHANGED <<threaded, m_stopped, net, endpoint, tmr, out, wire, told, prog,
                 contextStopped>>

run_from_stop ==
  /\ ~threaded /\ contextStopped
  /\ prog["worker"] = <<>> /\ prog["user"] \in {<<>>, <<"done">>}
  /\ contextStopped' = FALSE
  /\ UNCHANGED <<threaded, m_stopped, net, endpoint, tmr, out, posts, given, wire, told,
                 prog>>

-----------------------------------------------------------------------------
(* The constructors have begun to connect to the first endpoint.           *)
Init ==
  /\ threaded \in Modes /\ m_stopped = FALSE /\ contextStopped = FALSE
  /\ endpoint = 1 /\ sock = "opening"
  /\ connect = Op("connect", "pending") /\ read = NoOp /\ writes = <<>>
  /\ tmr = [t \in Timers |->
              [left |-> IF t = "read" THEN ConnectTimeout ELSE Off,
               wait |-> CASE t = "read" -> "aborted" [] t = "write" -> "waiting"
                          [] t = "heartbeat" -> "none"]]
  /\ m_writeQueue = <<>> /\ m_bWriteInProgress = FALSE
  /\ posts = <<>> /\ given = 0 /\ wire = <<>> /\ told = <<>>
  /\ prog = [th \in Threads |-> <<>>]

Worker ==
  \/ _start_connect \/ NotConnected \/ Connected \/ Notify
  \/ _read_responce \/ _deliver \/ SendPacket \/ Written \/ NotWritten
  \/ _check_deadline("read") \/ _check_deadline("write")
  \/ _check_heartbeat \/ HeartbeatTimer
  \/ ReadStopped("worker") \/ Shut("worker")

User == ReadStopped("user") \/ Shut("user") \/ Join

\* The event loop runs one of the handlers that are ready.
Handlers ==
  \/ RunConnect \/ RunRead \/ RunPost
  \/ (\E i \in DOMAIN writes : RunWrite(i)) \/ (\E t \in Timers : RunTimer(t))

Next ==
  \/ ConnectDone \/ ReadDone \/ (\E i \in DOMAIN writes : WriteDone(i)) \/ Tick
  \/ Handlers \/ Worker \/ User \/ UserStop \/ post_packet \/ run_from_stop

Spec == Init /\ [][Next]_vars

\* The event loop goes on while something is ready, a thread goes on with what
\* it has begun, and time passes.  Nothing makes an operation complete, the
\* server answer or the user act.
Fairness == WF_vars(Handlers \/ Worker) /\ WF_vars(User) /\ WF_vars(Tick)

FairSpec == Spec /\ Fairness

-----------------------------------------------------------------------------
(* Properties.                                                             *)

\* The buffer of a write is the front of the queue and stays there as long as
\* the system uses it, and no two writes are outstanding: asio would mix them.
OneWriteAtATime ==
  /\ Len(writes) <= 1
  /\ writes # <<>> => m_writeQueue # <<>> /\ Head(m_writeQueue) = writes[1].kind

\* While the client runs, no operation is outstanding without a deadline that
\* is watched, and an idle connection has its heartbeat scheduled: the client
\* notices a server that has gone.
NothingHangs ==
  (prog["worker"] = <<>> /\ ~m_stopped) =>
    /\ tmr["read"].wait # "none" /\ tmr["write"].wait # "none"
    /\ connect # NoOp \/ read # NoOp
    /\ _isTimerActive("read")
    /\ writes # <<>> <=> _isTimerActive("write")
    /\ told # <<>> => /\ tmr["heartbeat"].wait # "none"
                      /\ writes # <<>> \/ _isTimerActive("heartbeat")

\* One thread: the user hears of the connection once, of its end once, of the
\* end only when the client has stopped, and always then.
ReportsPaired ==
  ~threaded => told \in (IF m_stopped THEN {<<FALSE>>, <<TRUE, FALSE>>}
                         ELSE {<<>>, <<TRUE>>})

\* One thread: a stopped client delivers no packets and reports nothing.
SilentWhenStopped ==
  [][~threaded /\ m_stopped => ~At("worker", "deliver") /\ told' = told]_vars

\* A deadline stops the client only if an operation it guards has taken all of
\* its time: a timer that is left over from an operation before does not.
DeadlinesFair ==
  [][(\E t \in {"read", "write"} : _check_deadline(t)) /\ At("worker", "stop")' =>
       \/ m_stopped
       \/ At("worker", "check_read")
          /\ (connect.age = ConnectTimeout \/ read.age = ReadTimeout)
       \/ At("worker", "check_write")
          /\ \E i \in DOMAIN writes : writes[i].age = WriteTimeout]_vars

\* When the client has stopped by itself, every actor ends and run() returns.
RunReturns ==
  m_stopped ~> (\/ contextStopped
                \/ /\ prog["worker"] = <<>> /\ posts = <<>> /\ writes = <<>>
                   /\ connect = NoOp /\ read = NoOp
                   /\ \A t \in Timers : tmr[t].wait = "none")

\* The client implements an outbox: packets leave once and in
\* their order, none after the stop.
Promise == INSTANCE Outbox WITH sent <- wire, shut <- m_stopped
ImplementsOutbox == Promise!Spec
=============================================================================
