----------------------------- MODULE IncSession ------------------------------
(* One iINCContext with one iINCStream, the IO thread of its connection, and   *)
(* the server it talks to.  The program's thread owns context and stream: it   *)
(* runs the program's calls, the timers and the calls other threads have posted*)
(* to it (`mail`).  The IO thread lives from doConnect() to doClose(), which   *)
(* waits for its end.  A handler of either thread, and of the server, is one   *)
(* step.  Channels carry no data here and the shared memory of a connection is *)
(* left out.  Each connection has its own sequence numbers, and channel ids of *)
(* different connections never meet: both start again with a connection.       *)
EXTENDS Integers, Sequences

CONSTANTS AutoReconnect,    \* iINCContextConfig::autoReconnect()
          MaxTries,         \* maxReconnectAttempts(), of the context and the stream
          HasRouter,        \* connectTo() is given a router URL
          Patient,          \* the program does not call detach() or close() between
                            \* the answer to an attach() and the posted call that
                            \* tells the stream, nor connectTo() before the calls of
                            \* the connection before have run
          MaxCalls, MaxFaults, MaxTimeouts  \* bounds: calls of the program, broken
                            \* links and sockets that cannot be made, timeouts

ASSUME BoundsAssumption == {MaxTries, MaxCalls, MaxFaults, MaxTimeouts} \subseteq Nat

VARIABLES app,      \* what the program's thread owns, see AppType
          mail,     \* calls posted to it: the state of a setState() or doClose()
          net,      \* the connection: its two directions and both ends' state
          closed,   \* the last call of connectTo() or close() was close()
          unshaken, \* the last connection ended in its handshake: the client did
                    \* not accept the answer, or had none in all its attempts
          recalled, \* detach() was called before the last attach() had its answer
          aborted,  \* an IX_ASSERT has failed
          calls, faults, timeouts       \* the bounded ones so far

vars == <<app, mail, net, closed, unshaken, recalled, aborted, calls, faults, timeouts>>

Ended == {"failed", "terminated"}
None == [what |-> "none", seq |-> 0]
Offline == [link |-> "none", up |-> <<>>, down |-> <<>>, seq |-> 0,
            hs |-> "none", registered |-> {}, told |-> FALSE,   \* the client's end
            served |-> "new", open |-> {}, ids |-> 0]           \* the server's end
Call(what, state) == [what |-> what, state |-> state]
Message(what, seq, ch) == [what |-> what, seq |-> seq, ch |-> ch]

AppType ==
    [state : {"ready", "connecting", "connected"} \cup Ended,   \* m_state
     shown : {"ready", "connecting", "connected"} \cup Ended,   \* m_customState
     tries : 0..(MaxTries + 1), timer : BOOLEAN,  \* m_reconnectAttempts, m_reconnectTimerId # 0
     route : {"direct", "router"}, solid : BOOLEAN,             \* m_connectMode
     conn : BOOLEAN,                \* m_connection # null
     hello : Nat,                   \* the handshake's operation, 0 if not pending
     stream : {"detached", "attaching", "attached", "detaching"},   \* the stream's
     seen : {"detached", "attaching", "attached", "detaching"},     \* m_customState
     wanted : BOOLEAN, ch : Nat,    \* m_mode & MODE_READWRITE, m_channelId
     stries : 0..MaxTries, stimer : BOOLEAN,
     op : [what : {"none", "open", "close"}, seq : Nat]]        \* m_pendingOps

Init ==
    /\ app = [state |-> "ready", shown |-> "ready", tries |-> 0, timer |-> FALSE,
              route |-> "direct", solid |-> FALSE, conn |-> FALSE, hello |-> 0,
              stream |-> "detached", seen |-> "detached", wanted |-> FALSE, ch |-> 0,
              stries |-> 0, stimer |-> FALSE, op |-> None]
    /\ mail = <<>> /\ net = Offline /\ closed = TRUE /\ unshaken = FALSE
    /\ recalled = FALSE /\ aborted = FALSE /\ calls = 0 /\ faults = 0 /\ timeouts = 0
------------------------------------------------------------------------------
(* iINCContext::state() and scheduleReconnect() look at the same conditions. *)
Reconnects(a) ==
    \/ HasRouter /\ a.route = "direct" /\ ~a.solid
    \/ AutoReconnect /\ a.tries < MaxTries
Reported(a) == IF a.state \in Ended /\ Reconnects(a) THEN "connecting" ELSE a.state
ScheduleReconnect(a) == [a EXCEPT !.timer = Reconnects(a)]

(* iINCStream::state(), scheduleReconnect(), setState(). *)
Reattaches(a) == a.wanted /\ a.stries < MaxTries /\ Reported(a) \notin Ended
StreamReported(a) ==
    IF a.stream \in {"detached", "detaching"} /\ Reattaches(a) THEN "attaching" ELSE a.stream
StreamSchedules(a) == [a EXCEPT !.stimer = Reattaches(a)]
StreamSetState(a, new) ==
    LET b == [a EXCEPT !.stream = new] IN
    IF StreamReported(b) = a.seen THEN b
    ELSE [b EXCEPT !.seen = StreamReported(b), !.stries = IF new = "attached" THEN 0 ELSE @]

(* iINCStream::onContextStateChanged(). *)
ContextChangedWhenEnded(a) ==   \* mutant: a context that reconnects keeps the stream
    LET c == StreamSetState([a EXCEPT !.op = None], "detached") IN
    IF a.shown \in Ended THEN [StreamSchedules(c) EXCEPT !.ch = 0]
    ELSE IF a.shown = "connected" THEN StreamSchedules(a) ELSE a

ContextChangedStays(a) ==       \* mutant: the stream waits for a call of attach()
    [StreamSetState([a EXCEPT !.op = None], "detached") EXCEPT !.ch = 0]

ContextChanged(a) ==
    LET b == IF a.shown \in Ended THEN StreamSchedules(a) ELSE a
        c == StreamSetState([b EXCEPT !.op = None], "detached")
    IN  IF a.shown = "connected" THEN StreamSchedules(a) ELSE [c EXCEPT !.ch = 0]

(* iINCContext::setState(), with the slot of the stream. *)
SetState(a, new) ==
    LET b == [a EXCEPT !.state = new]
        c == [b EXCEPT !.shown = Reported(b), !.tries = IF new = "connected" THEN 0 ELSE @]
    IN  IF Reported(b) = a.shown THEN b ELSE ContextChanged(c)

(* onChannelAllocated() and onChannelReleased() of an operation that has       *)
(* failed or timed out.                                                        *)
OpenFailed(a) == StreamSchedules(StreamSetState([a EXCEPT !.op = None], "detached"))
Released(a) == [a EXCEPT !.op = None, !.wanted = FALSE, !.ch = 0]
CloseFailed(a) == StreamSetState(Released(a), "detached")
OpFailed(a) ==
    CASE a.op.what = "none" -> a
      [] a.op.what = "open" -> OpenFailed(a)
      [] a.op.what = "close" -> CloseFailed(a)

(* doClose(): the timer, the IO thread, the pending handshake, the operations  *)
(* of the connection, and the state.                                           *)
DoClose(a, new) ==
    LET b == [a EXCEPT !.timer = FALSE, !.hello = 0] IN
    IF a.state = "ready" \/ a.state \in Ended THEN a
    ELSE SetState([OpFailed(b) EXCEPT !.conn = FALSE], new)

(* doConnect(): refused while a connection is there, and failing at once where *)
(* the transport cannot be created (ok).                                       *)
Busy(a) == a.state \in {"connecting", "connected"}
DoConnectOnce(a, ok) ==         \* mutant: leaves the retry to the caller
    LET b == SetState(a, "connecting") IN
    IF Busy(a) THEN a
    ELSE IF ok THEN [b EXCEPT !.conn = TRUE, !.hello = 1]
    ELSE SetState(b, "failed")

DoConnect(a, ok) ==
    LET b == SetState(a, "connecting") IN
    IF Busy(a) THEN a
    ELSE IF ok THEN [b EXCEPT !.conn = TRUE, !.hello = 1]
    ELSE ScheduleReconnect(SetState(b, "failed"))

(* What becomes of the connection when the program's thread goes on with a. *)
Fresh == [Offline EXCEPT !.link = "up", !.seq = 1, !.hs = "sending",
                         !.up = <<Message("hello", 1, 0)>>]
App(a) ==
    /\ app' = a
    /\ net' = IF ~a.conn THEN Offline ELSE IF ~app.conn THEN Fresh ELSE net
Sends(what, ch) ==
    net' = [net EXCEPT !.seq = @ + 1, !.up = IF net.link = "broken" THEN @
                                             ELSE Append(@, Message(what, net.seq + 1, ch))]
------------------------------------------------------------------------------
(* The calls of the program. *)
Calls == calls < MaxCalls /\ calls' = calls + 1
Fault(ok) == faults' = faults + (IF ok THEN 0 ELSE 1) /\ faults' <= MaxFaults

(* The answer to an attach() has come; the posted call has not run. *)
AnswerWaits == app.stream = "attaching" /\ app.op = None

ConnectTo(ok) ==
    /\ Calls /\ Fault(ok) /\ ~Busy(app) /\ (Patient => mail = <<>>)
    /\ App(DoConnect([app EXCEPT !.route = "direct", !.solid = FALSE], ok))
    /\ closed' = FALSE /\ unshaken' = FALSE
    /\ UNCHANGED <<mail, recalled, aborted, timeouts>>

Close ==
    /\ Calls /\ (Patient => ~AnswerWaits)
    /\ App(DoClose(app, "terminated"))
    /\ closed' = TRUE
    /\ UNCHANGED <<mail, unshaken, recalled, aborted, faults, timeouts>>

(* attach(): the request where the context is connected; requestChannel() is   *)
(* refused where it only seems so, and the timer (again) then starts anew.     *)
Attach(a, again) ==
    LET b == StreamSetState([a EXCEPT !.wanted = TRUE, !.op = None], "attaching") IN
    /\ a.stream = "detached" /\ Reported(a) = "connected"
    /\ recalled' = FALSE
    /\ IF a.conn
       THEN Sends("open", 0) /\ app' = [b EXCEPT !.op = [what |-> "open", seq |-> net.seq + 1]]
       ELSE /\ UNCHANGED net
            /\ LET c == StreamSetState(b, "detached") IN
               app' = IF again THEN StreamSchedules(c) ELSE c

ProgramAttaches ==
    /\ Calls /\ Attach(app, FALSE)
    /\ UNCHANGED <<mail, closed, unshaken, aborted, faults, timeouts>>

(* detach(): of a stream that is attaching, without a channel, and attached. *)
DetachUnmarked ==               \* mutant: no setState(STATE_DETACHING)
    LET a == [app EXCEPT !.op = None] IN
    /\ Calls /\ app.stream \in {"attaching", "attached"}
    /\ (Patient => ~AnswerWaits)
    /\ recalled' = (app.stream = "attaching")
    /\ IF app.stream = "attached" /\ app.ch # 0 /\ app.state = "connected" /\ app.conn
       THEN /\ Sends("close", app.ch)
            /\ app' = [a EXCEPT !.op = [what |-> "close", seq |-> net.seq + 1]]
       ELSE /\ app' = StreamSetState([a EXCEPT !.ch = 0], "detached")
            /\ UNCHANGED net
    /\ UNCHANGED <<mail, closed, unshaken, aborted, faults, timeouts>>

Detach ==
    LET a == [app EXCEPT !.op = None] IN
    /\ Calls /\ app.stream \in {"attaching", "attached"}
    /\ (Patient => ~AnswerWaits)
    /\ recalled' = (app.stream = "attaching")
    /\ IF app.stream = "attached" /\ app.ch # 0 /\ app.state = "connected" /\ app.conn
       THEN /\ Sends("close", app.ch)
            /\ app' = [StreamSetState(a, "detaching") EXCEPT
                          !.op = [what |-> "close", seq |-> net.seq + 1]]
       ELSE /\ app' = StreamSetState([a EXCEPT !.ch = 0], "detached")
            /\ UNCHANGED net
    /\ UNCHANGED <<mail, closed, unshaken, aborted, faults, timeouts>>
------------------------------------------------------------------------------
(* The program's thread: timers and posted calls.                              *)
(* event(): the reconnect timer takes the other route until one is solid.  The *)
(* dispatcher runs posted calls before timers, and posts end with the IO thread.*)
ReconnectTimer(ok) ==
    LET a == [app EXCEPT !.timer = FALSE, !.tries = @ + 1,
                         !.route = IF app.solid \/ ~HasRouter THEN @
                                   ELSE IF @ = "direct" THEN "router" ELSE "direct"]
        b == DoConnect(a, ok)
    IN  /\ app.timer /\ (app.conn \/ mail = <<>>) /\ Fault(ok \/ Busy(a))
        /\ App(IF Busy(a) \/ ~ok THEN ScheduleReconnect(b) ELSE b)
        /\ unshaken' = FALSE
        /\ UNCHANGED <<mail, closed, recalled, aborted, calls, timeouts>>

StreamTimer ==
    LET a == [app EXCEPT !.stimer = FALSE, !.stries = @ + 1] IN
    /\ app.stimer
    /\ \/ Attach(a, TRUE)
       \/ /\ ~(a.stream = "detached" /\ Reported(a) = "connected")
          /\ app' = StreamSchedules(a) /\ UNCHANGED <<net, recalled>>
    /\ UNCHANGED <<mail, closed, unshaken, aborted, calls, faults, timeouts>>

Times == timeouts < MaxTimeouts /\ timeouts' = timeouts + 1

(* onHandshakeTimeout(): the handshake once more, up to the same limit.        *)
HandshakeTimeout ==
    LET a == [app EXCEPT !.hello = 0] IN
    /\ app.hello # 0 /\ Times
    /\ IF ~AutoReconnect \/ net.hs # "sending" THEN App(a)
       ELSE IF app.tries >= MaxTries THEN App(DoClose(a, "failed"))
       ELSE Sends("hello", 0) /\ app' = [a EXCEPT !.tries = @ + 1, !.hello = net.seq + 1]
    /\ unshaken' = (unshaken \/ (AutoReconnect /\ net.hs = "sending" /\ app.tries >= MaxTries))
    /\ UNCHANGED <<mail, closed, recalled, aborted, calls, faults>>

StreamTimeout ==
    /\ app.op # None /\ Times
    /\ app' = OpFailed(app)
    /\ net' = IF app.op.what = "open" THEN net ELSE [net EXCEPT !.registered = @ \ {app.ch}]
    /\ aborted' = (app.op.what = "close" /\ app.stream # "detaching")
    /\ UNCHANGED <<mail, closed, unshaken, recalled, calls, faults>>

PostedCallTimerFirst ==         \* mutant: onErrorOccurred() schedules before it closes
    LET m == Head(mail) IN
    /\ mail # <<>> /\ mail' = Tail(mail)
    /\ App(CASE m.what = "setState" -> SetState(app, m.state)
             [] m.what = "onError" -> DoClose(ScheduleReconnect(app), "failed")
             [] m.what = "doClose" -> DoClose(app, m.state)
             [] m.what = "stream" -> StreamSetState(app, m.state))
    /\ unshaken' = IF Busy(app) /\ m.state = "failed" THEN m.what = "doClose" ELSE unshaken
    /\ UNCHANGED <<closed, recalled, aborted, calls, faults, timeouts>>

PostedCall ==
    LET m == Head(mail) IN
    /\ mail # <<>> /\ mail' = Tail(mail)
    /\ App(CASE m.what = "setState" -> SetState(app, m.state)
             [] m.what = "onError" -> ScheduleReconnect(DoClose(app, m.state))
             [] m.what = "doClose" -> DoClose(app, m.state)
             [] m.what = "stream" -> StreamSetState(app, m.state))
    /\ unshaken' = IF Busy(app) /\ m.state = "failed" THEN m.what = "doClose" ELSE unshaken
    /\ UNCHANGED <<closed, recalled, aborted, calls, faults, timeouts>>
------------------------------------------------------------------------------
(* The IO thread.  An answer completes the operation of its number, if that is *)
(* still pending, before the context or the stream sees it.                    *)
Answer(what) == net.down # <<>> /\ Head(net.down).what = what
Read == [net EXCEPT !.down = Tail(@)]
Posts(c) == mail' = Append(mail, c)

(* An answer the client cannot read or accept has the context closed, by a     *)
(* posted call.  scheduleReconnect() then runs here, in the IO thread, where   *)
(* startTimer() refuses and returns 0: no timer is left.                       *)
HandshakeAck ==
    LET m == Head(net.down)
        a == [app EXCEPT !.hello = IF m.seq = @ THEN 0 ELSE @]
    IN  /\ Answer("welcome") \/ Answer("empty") \/ Answer("foreign")
        /\ IF net.hs # "sending"
           THEN net' = Read /\ app' = a /\ UNCHANGED mail
           ELSE IF m.what = "welcome"
           THEN /\ net' = [Read EXCEPT !.hs = "completed"]
                /\ app' = [a EXCEPT !.solid = TRUE]
                /\ Posts(Call("setState", "connected"))
           ELSE /\ net' = [Read EXCEPT !.hs = "none"]
                /\ app' = [a EXCEPT !.timer = FALSE]
                /\ Posts(Call("doClose", "failed"))
        /\ UNCHANGED <<closed, unshaken, recalled, aborted, calls, faults, timeouts>>

(* onChannelAllocated() of an operation that is done.  The server writes both   *)
(* fields of its answer, so the answer is read.                                *)
Opened ==
    LET m == Head(net.down) IN
    /\ Answer("opened")
    /\ IF app.op # [what |-> "open", seq |-> m.seq]
       THEN net' = Read /\ UNCHANGED <<app, mail, aborted>>
       ELSE /\ aborted' = ~(app.stream = "attaching" /\ app.state = "connected")
            /\ app' = [app EXCEPT !.op = None, !.ch = m.ch]
            /\ net' = [Read EXCEPT !.registered = @ \cup {m.ch}]
            /\ Posts(Call("stream", "attached"))
    /\ UNCHANGED <<closed, unshaken, recalled, calls, faults, timeouts>>

(* onChannelReleased() of an operation that is done. *)
Closed ==
    LET m == Head(net.down) IN
    /\ Answer("closed")
    /\ IF app.op # [what |-> "close", seq |-> m.seq]
       THEN net' = Read /\ UNCHANGED <<app, mail, aborted>>
       ELSE /\ aborted' = ~(app.stream = "detaching" /\ app.state = "connected")
            /\ app' = Released(app)
            /\ net' = [Read EXCEPT !.registered = @ \ {app.ch}]
            /\ Posts(Call("stream", "detached"))
    /\ UNCHANGED <<closed, unshaken, recalled, calls, faults, timeouts>>

(* The device reports the end of the link, once.                               *)
LinkError ==
    /\ net.link = "broken" /\ ~net.told
    /\ net' = [net EXCEPT !.told = TRUE, !.down = <<>>]
    /\ Posts(Call("onError", "failed"))
    /\ UNCHANGED <<app, closed, unshaken, recalled, aborted, calls, faults, timeouts>>
------------------------------------------------------------------------------
(* The server's end (iINCServer), one message at a time.  A handshake that is   *)
(* sent again finds the first one completed, and gets an empty answer.  A      *)
(* server of another make may answer with a handshake the client cannot accept. *)
Reply(what, m, ch) == Append(net.down, Message(what, m.seq, ch))
Serve(m, first) ==
    CASE m.what = "hello" ->
            [net EXCEPT !.served = "completed", !.down =
                Reply(IF net.served = "new" THEN first ELSE "empty", m, 0)]
      [] m.what = "open" ->
            [net EXCEPT !.ids = @ + 1, !.open = @ \cup {net.ids + 1},
                        !.down = Reply("opened", m, net.ids + 1)]
      [] m.what = "close" ->
            [net EXCEPT !.open = @ \ {m.ch}, !.down = Reply("closed", m, m.ch)]
Server ==
    /\ net.up # <<>>
    /\ \E first \in {"welcome", "foreign"} :
          net' = [Serve(Head(net.up), first) EXCEPT !.up = Tail(@)]
    /\ UNCHANGED <<app, mail, closed, unshaken, recalled, aborted, calls, faults, timeouts>>

(* The link breaks, or the server closes it: it forgets the channels (iINC-     *)
(* Server::onClientDisconnected()), answers on their way may still arrive.      *)
Break ==
    /\ net.link = "up" /\ Fault(FALSE)
    /\ net' = [net EXCEPT !.link = "broken", !.up = <<>>, !.open = {}]
    /\ UNCHANGED <<app, mail, closed, unshaken, recalled, aborted, calls, timeouts>>
------------------------------------------------------------------------------
Program == Close \/ ProgramAttaches \/ Detach \/ \E ok \in BOOLEAN : ConnectTo(ok)
Timers == StreamTimer \/ \E ok \in BOOLEAN : ReconnectTimer(ok)
Expiry == HandshakeTimeout \/ StreamTimeout
IoThread == HandshakeAck \/ Opened \/ Closed \/ LinkError

Next ==
    /\ ~aborted
    /\ Program \/ Timers \/ Expiry \/ PostedCall \/ IoThread \/ Server \/ Break

(* Both threads and the server go on, and timers fire.  Nothing makes the      *)
(* program call, the link break or a timeout come before its answer.           *)
Fairness ==
    /\ WF_vars(~aborted /\ PostedCall) /\ WF_vars(~aborted /\ IoThread)
    /\ WF_vars(~aborted /\ Server)
    /\ WF_vars(~aborted /\ StreamTimer)
    /\ WF_vars(~aborted /\ \E ok \in BOOLEAN : ReconnectTimer(ok))

Spec == Init /\ [][Next]_vars /\ Fairness
------------------------------------------------------------------------------
TypeOK == app \in AppType

(* An attached stream has a channel, registered with its connection, that the  *)
(* server has open: the two ends agree, until the link breaks, after which the *)
(* client is about to learn of it.                                             *)
AttachedIsOpen ==
    app.stream = "attached" =>
        /\ app.ch \in net.registered
        /\ net.link = "up" => app.ch \in net.open

(* A context that has lost its connection and says it is connecting has its    *)
(* timer running, or a call still to run that will see to it; unless the       *)
(* connection ended in its handshake, where the code leaves it without one.    *)
FailedIsRetried ==
    app.state = "failed" /\ Reported(app) = "connecting" /\ ~unshaken
        => app.timer \/ mail # <<>>

(* No assertion of context and stream fails: requests end in the state they    *)
(* were made in, whatever thread their answers come in.                        *)
AssertionsHold == ~aborted

(* close() is the last word: the context does not connect again by itself. *)
CloseIsFinal == closed => app.state # "connected"

(* A context that was told to connect gets there, or gives up, or is closed,   *)
(* or its handshake has failed.                                                *)
Settles == []<>(closed \/ unshaken \/ app.state = "connected" \/ Reported(app) \in Ended)

(* A stream whose context goes on is attached or detached again and again: it   *)
(* does not say for ever that it is attaching, or wait for a detach() that is   *)
(* not answered.  Two cases are left out, in which the code has it say so:      *)
(* detach() before the answer leaves m_mode as it is, and a context whose       *)
(* handshake has failed never tells it that it has ended.                       *)
StreamSettles ==
    []<>(closed \/ unshaken \/ recalled \/ StreamReported(app) \in {"attached", "detached"})
==============================================================================
