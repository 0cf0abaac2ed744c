--------------------------- MODULE IncSessionProofs ---------------------------
(* Proofs about context, stream and server for any number of calls, attempts,  *)
(* broken links and timeouts: a context that failed is tried again, no         *)
(* assertion fails, and an attached stream has its channel open at both ends.  *)
EXTENDS IncSession, SequenceTheorems, TLAPS

(* What the variables hold. *)
States == {"ready", "connecting", "connected"} \cup Ended
StreamStates == {"detached", "attaching", "attached", "detaching"}
Op == {None} \cup [what : {"open", "close"}, seq : Nat]
AppRec ==
    [state : States, shown : States, tries : Nat, timer : BOOLEAN,
     route : {"direct", "router"}, solid : BOOLEAN, conn : BOOLEAN, hello : Nat,
     stream : StreamStates, seen : StreamStates, wanted : BOOLEAN, ch : Nat,
     stries : Nat, stimer : BOOLEAN, op : Op]
Request == [what : {"hello", "open", "close"}, seq : Nat, ch : Nat]
Reaction ==
    [what : {"welcome", "foreign", "empty", "opened", "closed"}, seq : Nat, ch : Nat]
NetRec ==
    [link : {"none", "up", "broken"}, up : Seq(Request), down : Seq(Reaction),
     seq : Nat, hs : {"none", "sending", "completed"}, registered : SUBSET Nat,
     told : BOOLEAN, served : {"new", "completed"}, open : SUBSET Nat, ids : Nat]
SetCall == Call("setState", "connected")
ErrCall == Call("onError", "failed")
EndCall == Call("doClose", "failed")
StreamCall(s) == Call("stream", s)
Posted == {SetCall, ErrCall, EndCall, StreamCall("attached"), StreamCall("detached")}

Typed == app \in AppRec /\ net \in NetRec /\ mail \in Seq(Posted)

(* A context that has failed and may try again has its timer, unless its       *)
(* connection has ended in the handshake.                                      *)
Tried(a) == a.state = "failed" /\ Reconnects(a) => a.timer
Retries == ~unshaken => Tried(app)

(* Only a context that is connecting or connected has a connection, and nothing *)
(* is on its way without one.                                                  *)
Quiet(n) == n.up = <<>> /\ n.down = <<>> /\ n.hs = "none"
Wired == (app.conn => Busy(app)) /\ (~app.conn => Quiet(net))

------------------------------------------------------------------------------
(* What the operations of context and stream change, and what they keep.       *)
KeepsContext(a, b) ==
    /\ b.state = a.state /\ b.shown = a.shown /\ b.tries = a.tries
    /\ b.timer = a.timer /\ b.route = a.route /\ b.solid = a.solid
    /\ b.conn = a.conn /\ b.hello = a.hello
KeepsStream(a, b) ==
    b.stream = a.stream /\ b.seen = a.seen /\ b.ch = a.ch /\ b.op = a.op
Idle(a) == a.stream = "detached" /\ a.op = None

LEMMA ReportedIs ==
  ASSUME NEW a \in AppRec
  PROVE  /\ Reported(a) \in States /\ Reconnects(a) \in BOOLEAN
         /\ a.state \notin Ended => Reported(a) = a.state
         /\ a.state \in Ended => Reported(a) \in Ended \cup {"connecting"}
         /\ Reattaches(a) \in BOOLEAN /\ StreamReported(a) \in StreamStates
         /\ a.stream \in {"attaching", "attached"} => StreamReported(a) = a.stream
  BY DEF Reported, Reconnects, AppRec, States, Ended, Reattaches, StreamReported,
         StreamStates

LEMMA StreamSchedulesIs ==
  ASSUME NEW a \in AppRec
  PROVE  /\ StreamSchedules(a) \in AppRec
         /\ KeepsContext(a, StreamSchedules(a)) /\ KeepsStream(a, StreamSchedules(a))
<1>1. Reattaches(a) \in BOOLEAN  BY ReportedIs
<1> QED BY <1>1 DEF StreamSchedules, AppRec, KeepsContext, KeepsStream

LEMMA StreamSetStateIs ==
  ASSUME NEW a \in AppRec, NEW new \in StreamStates
  PROVE  LET b == StreamSetState(a, new) IN
         /\ b \in AppRec /\ KeepsContext(a, b)
         /\ b.stream = new /\ b.ch = a.ch /\ b.op = a.op
         /\ new \in {"attaching", "attached"} => b.seen = new
<1> DEFINE b == [a EXCEPT !.stream = new]
<1>1. b \in AppRec /\ b.stream = new /\ b.seen = a.seen  BY DEF AppRec
<1>2. StreamReported(b) \in StreamStates
  BY <1>1, ReportedIs
<1>3. new \in {"attaching", "attached"} => StreamReported(b) = new
  BY <1>1, ReportedIs
<1>4. CASE StreamReported(b) = a.seen
  <2>1. StreamSetState(a, new) = b  BY <1>4 DEF StreamSetState
  <2> QED BY <1>1, <1>3, <1>4, <2>1 DEF AppRec, KeepsContext
<1>5. CASE StreamReported(b) # a.seen
  <2>1. StreamSetState(a, new)
          = [b EXCEPT !.seen = StreamReported(b),
                      !.stries = IF new = "attached" THEN 0 ELSE @]
    BY <1>5 DEF StreamSetState
  <2>2. b.ch = a.ch /\ b.op = a.op /\ KeepsContext(a, b)
    BY DEF AppRec, KeepsContext
  <2> DEFINE seen == StreamReported(b)
  <2> HIDE DEF b, seen
  <2>3. seen \in StreamStates /\ (new \in {"attaching", "attached"} => seen = new)
    BY <1>2, <1>3 DEF seen
  <2>4. StreamSetState(a, new)
          = [b EXCEPT !.seen = seen, !.stries = IF new = "attached" THEN 0 ELSE @]
    BY <2>1 DEF seen
  <2> DEFINE c == [b EXCEPT !.seen = seen]
             stries == IF new = "attached" THEN 0 ELSE c.stries
  <2>5. /\ c \in AppRec /\ KeepsContext(a, c) /\ c.seen = seen
        /\ c.stream = new /\ c.ch = a.ch /\ c.op = a.op
    BY <1>1, <2>2, <2>3 DEF AppRec, KeepsContext
  <2>6. stries \in Nat  BY <2>5 DEF AppRec
  <2>7. StreamSetState(a, new) = [c EXCEPT !.stries = stries]
    BY <2>4
  <2> HIDE DEF c, stries
  <2> QED BY <2>3, <2>5, <2>6, <2>7 DEF AppRec, KeepsContext
<1> QED BY <1>4, <1>5

(* The slot of the stream: a context that is not connected detaches it. *)
LEMMA ContextChangedIs ==
  ASSUME NEW a \in AppRec
  PROVE  LET b == ContextChanged(a) IN
         /\ b \in AppRec /\ KeepsContext(a, b)
         /\ a.shown = "connected" => KeepsStream(a, b)
         /\ a.shown # "connected" => Idle(b)
<1>1. CASE a.shown = "connected"
  BY <1>1, StreamSchedulesIs DEF ContextChanged
<1>2. CASE a.shown # "connected"
  <2> DEFINE b == IF a.shown \in Ended THEN StreamSchedules(a) ELSE a
             c == StreamSetState([b EXCEPT !.op = None], "detached")
  <2>1. b \in AppRec /\ KeepsContext(a, b)
    BY StreamSchedulesIs DEF KeepsContext
  <2>2. /\ [b EXCEPT !.op = None] \in AppRec /\ [b EXCEPT !.op = None].op = None
        /\ KeepsContext(a, [b EXCEPT !.op = None])
    BY <2>1 DEF AppRec, Op, KeepsContext
  <2> HIDE DEF b
  <2>3. c \in AppRec /\ KeepsContext(a, c) /\ c.op = None /\ c.stream = "detached"
    BY <2>2, StreamSetStateIs DEF KeepsContext, StreamStates
  <2>4. ContextChanged(a) = [c EXCEPT !.ch = 0]
    BY <1>2 DEF ContextChanged, b
  <2> HIDE DEF c
  <2> QED BY <1>2, <2>3, <2>4 DEF AppRec, KeepsContext, Idle
<1> QED BY <1>1, <1>2

(* setState(): the stream keeps what it has, or is detached, and is detached    *)
(* where a connection ends.                                                    *)
LEMMA SetStateIs ==
  ASSUME NEW a \in AppRec, NEW new \in States
  PROVE  LET b == SetState(a, new) IN
         /\ b \in AppRec /\ b.state = new
         /\ b.timer = a.timer /\ b.route = a.route /\ b.solid = a.solid
         /\ b.conn = a.conn /\ b.hello = a.hello
         /\ new # "connected" => b.tries = a.tries
         /\ new \notin Ended => b.shown = new
         /\ Idle(b) \/ KeepsStream(a, b)
         /\ new = "connected" => KeepsStream(a, b)
         /\ new # "connected" /\ a.shown = "connected" => Idle(b)
<1> DEFINE b == [a EXCEPT !.state = new]
           c == [b EXCEPT !.shown = Reported(b),
                          !.tries = IF new = "connected" THEN 0 ELSE @]
<1>1. b \in AppRec /\ b.state = new /\ b.shown = a.shown  BY DEF AppRec
<1>2. /\ Reported(b) \in States
      /\ new \notin Ended => Reported(b) = new
      /\ new \in Ended => Reported(b) # "connected"
  BY <1>1, ReportedIs DEF Ended
<1>3. /\ c \in AppRec /\ c.state = new /\ c.shown = Reported(b) /\ KeepsStream(a, c)
      /\ c.timer = a.timer /\ c.route = a.route /\ c.solid = a.solid
      /\ c.conn = a.conn /\ c.hello = a.hello
      /\ new # "connected" => c.tries = a.tries
  <2>1. /\ b.timer = a.timer /\ b.route = a.route /\ b.solid = a.solid
        /\ b.conn = a.conn /\ b.hello = a.hello /\ b.tries = a.tries
        /\ KeepsStream(a, b)
    BY DEF AppRec, KeepsStream
  <2> DEFINE shown == Reported(b)
  <2> HIDE DEF b, shown
  <2>2. shown \in States /\ shown = Reported(b)  BY <1>2 DEF shown
  <2> DEFINE d == [b EXCEPT !.shown = shown]
             tries == IF new = "connected" THEN 0 ELSE d.tries
  <2>3. /\ d \in AppRec /\ d.state = new /\ d.shown = shown /\ KeepsStream(a, d)
        /\ d.timer = a.timer /\ d.route = a.route /\ d.solid = a.solid
        /\ d.conn = a.conn /\ d.hello = a.hello /\ d.tries = a.tries
    BY <1>1, <2>1, <2>2 DEF AppRec, KeepsStream
  <2>4. tries \in Nat /\ (new # "connected" => tries = a.tries)
    BY <2>3 DEF AppRec
  <2>5. c = [d EXCEPT !.tries = tries]  BY DEF shown
  <2> HIDE DEF c, d, tries
  <2> QED BY <2>2, <2>3, <2>4, <2>5 DEF AppRec, KeepsStream
<1>4. CASE Reported(b) = a.shown
  <2>1. SetState(a, new) = b  BY <1>4 DEF SetState
  <2>2. /\ b.timer = a.timer /\ b.route = a.route /\ b.solid = a.solid
        /\ b.conn = a.conn /\ b.hello = a.hello /\ b.tries = a.tries
        /\ KeepsStream(a, b)
    BY DEF AppRec, KeepsStream
  <2> HIDE DEF b
  <2>3. new # "connected" => a.shown # "connected"
    BY <1>2, <1>4 DEF Ended, States
  <2>4. new \notin Ended => b.shown = new
    BY <1>1, <1>2, <1>4
  <2> QED BY <1>1, <2>1, <2>2, <2>3, <2>4
<1>5. CASE Reported(b) # a.shown
  <2>1. SetState(a, new) = ContextChanged(c)  BY <1>5 DEF SetState
  <2> HIDE DEF b, c
  <2>2. Reported(b) = "connected" <=> new = "connected"
    BY <1>2 DEF Ended, States
  <2>3. /\ ContextChanged(c) \in AppRec /\ KeepsContext(c, ContextChanged(c))
        /\ new = "connected" => KeepsStream(c, ContextChanged(c))
        /\ new # "connected" => Idle(ContextChanged(c))
    BY <1>3, <2>2, ContextChangedIs
  <2> QED BY <1>2, <1>3, <2>1, <2>3 DEF KeepsContext, KeepsStream
<1> QED BY <1>4, <1>5

(* scheduleReconnect() sets the timer and nothing else. *)
LEMMA ScheduleReconnectIs ==
  ASSUME NEW a \in AppRec
  PROVE  LET b == ScheduleReconnect(a) IN
         /\ b \in AppRec /\ KeepsStream(a, b) /\ b.timer = Reconnects(b)
         /\ b.state = a.state /\ b.shown = a.shown /\ b.tries = a.tries
         /\ b.solid = a.solid /\ b.conn = a.conn /\ b.hello = a.hello
<1> DEFINE b == ScheduleReconnect(a)
<1>1. Reconnects(a) \in BOOLEAN  BY ReportedIs
<1>2. b = [a EXCEPT !.timer = Reconnects(a)]  BY DEF ScheduleReconnect
<1>3. /\ b \in AppRec /\ KeepsStream(a, b) /\ b.timer = Reconnects(a)
      /\ b.state = a.state /\ b.shown = a.shown /\ b.tries = a.tries
      /\ b.route = a.route /\ b.solid = a.solid /\ b.conn = a.conn /\ b.hello = a.hello
  BY <1>1, <1>2 DEF AppRec, KeepsStream
<1> HIDE DEF b
<1>4. Reconnects(b) = Reconnects(a)  BY <1>3 DEF Reconnects
<1> QED BY <1>3, <1>4 DEF b

(* A request that has failed leaves a detached stream without a request. *)
LEMMA OpFailedIs ==
  ASSUME NEW a \in AppRec
  PROVE  LET b == OpFailed(a) IN
         /\ b \in AppRec /\ KeepsContext(a, b) /\ b.op = None
         /\ a.op = None => b = a
         /\ a.op # None \/ a.stream = "detached" => b.stream = "detached"
<1>1. CASE a.op.what = "none"
  <2>1. a.op = None  BY <1>1 DEF AppRec, Op
  <2> QED BY <1>1, <2>1 DEF OpFailed, KeepsContext
<1>2. CASE a.op.what = "open"
  <2> DEFINE b == [a EXCEPT !.op = None]
             c == StreamSetState(b, "detached")
  <2>1. b \in AppRec /\ KeepsContext(a, b) /\ b.op = None
    BY DEF AppRec, Op, KeepsContext
  <2> HIDE DEF b
  <2>2. c \in AppRec /\ KeepsContext(b, c) /\ c.op = None /\ c.stream = "detached"
    BY <2>1, StreamSetStateIs DEF StreamStates
  <2> HIDE DEF c
  <2>3. /\ StreamSchedules(c) \in AppRec /\ KeepsContext(c, StreamSchedules(c))
        /\ KeepsStream(c, StreamSchedules(c))
    BY <2>2, StreamSchedulesIs
  <2>4. OpFailed(a) = StreamSchedules(c)  BY <1>2 DEF OpFailed, OpenFailed, b, c
  <2>5. a.op # None  BY <1>2 DEF None
  <2> QED BY <2>1, <2>2, <2>3, <2>4, <2>5 DEF KeepsContext, KeepsStream
<1>3. CASE a.op.what = "close"
  <2>1. Released(a) \in AppRec /\ KeepsContext(a, Released(a)) /\ Released(a).op = None
    BY DEF AppRec, Op, KeepsContext, Released
  <2>2. LET c == StreamSetState(Released(a), "detached") IN
        c \in AppRec /\ KeepsContext(Released(a), c) /\ c.op = None /\ c.stream = "detached"
    BY <2>1, StreamSetStateIs DEF StreamStates
  <2>3. OpFailed(a) = StreamSetState(Released(a), "detached")
    BY <1>3 DEF OpFailed, CloseFailed
  <2>4. a.op # None  BY <1>3 DEF None
  <2> QED BY <2>1, <2>2, <2>3, <2>4 DEF KeepsContext
<1> QED BY <1>1, <1>2, <1>3 DEF AppRec, Op, None

(* doClose() ends the connection with its timer, its handshake, and the        *)
(* request of the stream; of a context that has none it changes nothing.       *)
LEMMA DoCloseIs ==
  ASSUME NEW a \in AppRec, NEW new \in Ended
  PROVE  LET b == DoClose(a, new) IN
         /\ ~Busy(a) => b = a
         /\ Busy(a) =>
               /\ b \in AppRec /\ b.state = new /\ ~b.conn /\ ~b.timer /\ b.hello = 0
               /\ b.tries = a.tries /\ b.op = None
               /\ a.shown = "connected" \/ a.stream = "detached" => b.stream = "detached"
<1>1. CASE ~Busy(a)
  BY <1>1 DEF DoClose, Busy, AppRec, States, Ended
<1>2. CASE Busy(a)
  <2> DEFINE b == [a EXCEPT !.timer = FALSE, !.hello = 0]
             c == OpFailed(b)
             d == [c EXCEPT !.conn = FALSE]
  <2>1. /\ b \in AppRec /\ ~b.timer /\ b.hello = 0 /\ b.tries = a.tries
        /\ b.shown = a.shown /\ b.stream = a.stream
    BY DEF AppRec
  <2>2. DoClose(a, new) = SetState(d, new)
    BY <1>2 DEF DoClose, Busy, Ended
  <2> HIDE DEF b
  <2>3. /\ c \in AppRec /\ KeepsContext(b, c) /\ c.op = None
        /\ b.stream = "detached" => c.stream = "detached"
    BY <2>1, OpFailedIs
  <2> HIDE DEF c
  <2>4. /\ d \in AppRec /\ ~d.timer /\ d.hello = 0 /\ d.tries = a.tries /\ ~d.conn
        /\ d.shown = a.shown /\ d.op = None
        /\ a.stream = "detached" => d.stream = "detached"
    BY <2>1, <2>3 DEF AppRec, KeepsContext
  <2> HIDE DEF d
  <2>5. new \in States /\ new # "connected"  BY DEF States, Ended
  <2>6. LET e == SetState(d, new) IN
        /\ e \in AppRec /\ e.state = new /\ e.timer = d.timer /\ e.conn = d.conn
        /\ e.hello = d.hello /\ e.tries = d.tries
        /\ Idle(e) \/ KeepsStream(d, e)
        /\ d.shown = "connected" => Idle(e)
    BY <2>4, <2>5, SetStateIs
  <2> QED BY <1>2, <2>2, <2>4, <2>6 DEF Idle, KeepsStream
<1> QED BY <1>1, <1>2

(* doConnect() connects, or fails and may try again later. *)
LEMMA DoConnectIs ==
  ASSUME NEW a \in AppRec, NEW ok \in BOOLEAN
  PROVE  LET b == DoConnect(a, ok) IN
         /\ Busy(a) => b = a
         /\ ~Busy(a) =>
               /\ b \in AppRec /\ b.tries = a.tries /\ (Idle(a) => Idle(b))
               /\ ok => b.state = "connecting" /\ b.shown = "connecting" /\ b.conn
               /\ ~ok => /\ b.state = "failed" /\ b.conn = a.conn
                         /\ b.timer = Reconnects(b)
<1>1. CASE Busy(a)  BY <1>1 DEF DoConnect
<1>2. CASE ~Busy(a)
  <2> DEFINE b == SetState(a, "connecting")
             c == SetState(b, "failed")
             d == [b EXCEPT !.conn = TRUE, !.hello = 1]
  <2>1. /\ b \in AppRec /\ b.state = "connecting" /\ b.shown = "connecting"
        /\ b.conn = a.conn /\ b.tries = a.tries
        /\ Idle(b) \/ KeepsStream(a, b)
    BY SetStateIs DEF States, Ended
  <2>2. Idle(a) => Idle(b)  BY <2>1 DEF Idle, KeepsStream
  <2>3. DoConnect(a, ok) = IF ok THEN d ELSE ScheduleReconnect(c)
    BY <1>2 DEF DoConnect
  <2> HIDE DEF b
  <2>4. /\ d \in AppRec /\ d.state = "connecting" /\ d.shown = "connecting"
        /\ d.conn /\ d.tries = a.tries /\ (Idle(a) => Idle(d))
    BY <2>1, <2>2 DEF AppRec, Idle
  <2>5. /\ c \in AppRec /\ c.state = "failed" /\ c.conn = a.conn /\ c.tries = a.tries
        /\ Idle(c) \/ KeepsStream(b, c)
    BY <2>1, SetStateIs DEF States, Ended
  <2>6. Idle(a) => Idle(c)  BY <2>2, <2>5 DEF Idle, KeepsStream
  <2> HIDE DEF c, d
  <2>7. LET e == ScheduleReconnect(c) IN
        /\ e \in AppRec /\ e.state = "failed" /\ e.conn = a.conn /\ e.tries = a.tries
        /\ e.timer = Reconnects(e) /\ (Idle(a) => Idle(e))
    BY <2>5, <2>6, ScheduleReconnectIs DEF Idle, KeepsStream
  <2> QED BY <1>2, <2>3, <2>4, <2>7
<1> QED BY <1>1, <1>2

------------------------------------------------------------------------------
(* What the connection is when it is made and when it is gone. *)
LEMMA NetIs ==
  /\ Offline \in NetRec /\ Fresh \in NetRec
  /\ Offline.link = "none" /\ Offline.up = <<>> /\ Offline.down = <<>> /\ ~Offline.told
  /\ Offline.hs = "none"
  /\ Fresh.link = "up" /\ Fresh.hs = "sending" /\ Fresh.up = <<Message("hello", 1, 0)>>
  /\ Fresh.down = <<>> /\ Fresh.seq = 1 /\ Fresh.ids = 0 /\ ~Fresh.told
<1>1. Message("hello", 1, 0) \in Request  BY DEF Message, Request
<1>2. Offline \in NetRec /\ Offline.told = FALSE  BY DEF Offline, NetRec
<1>3. <<Message("hello", 1, 0)>> \in Seq(Request)  BY <1>1
<1>4. /\ Offline.link = "none" /\ Offline.up = <<>> /\ Offline.down = <<>>
      /\ Offline.ids = 0 /\ Offline.hs = "none"
  BY DEF Offline
<1> DEFINE hello == <<Message("hello", 1, 0)>>
<1>5. Fresh = [Offline EXCEPT !.link = "up", !.seq = 1, !.hs = "sending", !.up = hello]
  BY DEF Fresh
<1> HIDE DEF hello
<1>6. /\ Fresh \in NetRec /\ Fresh.up = hello /\ Fresh.link = "up" /\ Fresh.seq = 1
      /\ Fresh.hs = "sending" /\ Fresh.told = FALSE /\ Fresh.down = <<>> /\ Fresh.ids = 0
  BY <1>2, <1>3, <1>4, <1>5 DEF NetRec, hello
<1> QED BY <1>2, <1>4, <1>6 DEF hello

LEMMA AppIs ==
  ASSUME NEW a \in AppRec, net \in NetRec, App(a)
  PROVE  app' \in AppRec /\ net' \in NetRec /\ app' = a
  BY NetIs DEF App

(* What a request takes with it: the next number, and a place behind the others. *)
LEMMA SendsIs ==
  ASSUME NEW what \in {"hello", "open", "close"}, NEW ch \in Nat, net \in NetRec,
         Sends(what, ch)
  PROVE  /\ net' \in NetRec /\ net'.seq = net.seq + 1
         /\ net'.up = IF net.link = "broken" THEN net.up
                      ELSE Append(net.up, Message(what, net.seq + 1, ch))
         /\ net'.link = net.link /\ net'.down = net.down /\ net'.hs = net.hs
         /\ net'.registered = net.registered /\ net'.told = net.told
         /\ net'.open = net.open /\ net'.ids = net.ids
<1> DEFINE up == IF net.link = "broken" THEN net.up
                 ELSE Append(net.up, Message(what, net.seq + 1, ch))
<1>1. net.up \in Seq(Request) /\ net.seq \in Nat  BY DEF NetRec
<1>2. Message(what, net.seq + 1, ch) \in Request  BY <1>1 DEF Message, Request
<1>3. up \in Seq(Request)  BY <1>1, <1>2
<1>4. net' = [net EXCEPT !.seq = @ + 1, !.up = up]  BY DEF Sends
<1> DEFINE seq == net.seq + 1
<1>5. net' = [net EXCEPT !.seq = seq, !.up = up] /\ seq \in Nat  BY <1>1, <1>4
<1> HIDE DEF up, seq
<1>6. /\ net' \in NetRec /\ net'.seq = seq /\ net'.up = up
      /\ net'.link = net.link /\ net'.down = net.down /\ net'.hs = net.hs
      /\ net'.registered = net.registered /\ net'.told = net.told
      /\ net'.open = net.open /\ net'.ids = net.ids
  BY <1>1, <1>3, <1>5 DEF NetRec
<1> QED BY <1>6 DEF up, seq

(* attach() leaves the context alone. *)
LEMMA AttachIs ==
  ASSUME NEW a \in AppRec, NEW again \in BOOLEAN, net \in NetRec, Attach(a, again)
  PROVE  /\ a.stream = "detached" /\ Reported(a) = "connected" /\ a.state = "connected"
         /\ app' \in AppRec /\ net' \in NetRec /\ KeepsContext(a, app')
         /\ a.conn => /\ Sends("open", 0) /\ app'.stream = "attaching"
                      /\ app'.seen = "attaching"
                      /\ app'.op = [what |-> "open", seq |-> net.seq + 1]
         /\ ~a.conn => net' = net /\ Idle(app')
<1> DEFINE w == [a EXCEPT !.wanted = TRUE, !.op = None]
           b == StreamSetState(w, "attaching")
           c == StreamSetState(b, "detached")
           request == [what |-> "open", seq |-> net.seq + 1]
<1>1. a.stream = "detached" /\ Reported(a) = "connected"  BY DEF Attach
<1>2. a.state = "connected"  BY <1>1, ReportedIs DEF Ended
<1>3. w \in AppRec /\ KeepsContext(a, w) /\ w.op = None
  BY DEF AppRec, Op, KeepsContext
<1>4. IF a.conn THEN Sends("open", 0) /\ app' = [b EXCEPT !.op = request]
      ELSE net' = net /\ app' = IF again THEN StreamSchedules(c) ELSE c
  BY DEF Attach
<1> HIDE DEF w
<1>5. /\ b \in AppRec /\ KeepsContext(w, b) /\ b.stream = "attaching"
      /\ b.seen = "attaching" /\ b.op = None
  BY <1>3, StreamSetStateIs DEF StreamStates
<1> HIDE DEF b
<1>6. c \in AppRec /\ KeepsContext(b, c) /\ c.stream = "detached" /\ c.op = None
  BY <1>5, StreamSetStateIs DEF StreamStates
<1> HIDE DEF c
<1>7. CASE a.conn
  <2>1. Sends("open", 0) /\ app' = [b EXCEPT !.op = request]  BY <1>4, <1>7
  <2>2. net' \in NetRec  BY <2>1, SendsIs
  <2>3. request \in Op  BY DEF NetRec, Op
  <2>4. Sends("open", 0) /\ request = [what |-> "open", seq |-> net.seq + 1]
    BY <2>1
  <2> HIDE DEF request
  <2>5. /\ app' \in AppRec /\ KeepsContext(b, app') /\ app'.stream = "attaching"
        /\ app'.seen = "attaching" /\ app'.op = request
    BY <1>5, <2>1, <2>3 DEF AppRec, KeepsContext
  <2>6. KeepsContext(a, app')  BY <1>3, <1>5, <2>5 DEF KeepsContext
  <2> QED BY <1>1, <1>2, <1>7, <2>2, <2>4, <2>5, <2>6
<1>8. CASE ~a.conn
  <2>1. net' = net /\ app' = IF again THEN StreamSchedules(c) ELSE c  BY <1>4, <1>8
  <2>2. app' \in AppRec /\ KeepsContext(c, app') /\ KeepsStream(c, app')
    BY <1>6, <2>1, StreamSchedulesIs DEF KeepsContext, KeepsStream
  <2>3. KeepsContext(a, app')  BY <1>3, <1>5, <1>6, <2>2 DEF KeepsContext
  <2>4. Idle(app')  BY <1>6, <2>2 DEF KeepsStream, Idle
  <2> QED BY <1>1, <1>2, <1>8, <2>1, <2>2, <2>3, <2>4
<1> QED BY <1>7, <1>8 DEF AppRec

------------------------------------------------------------------------------
(* Types, and the timer of a context that failed, action by action.            *)
LEMMA KeepsTried ==
  ASSUME NEW a \in AppRec, NEW b \in AppRec, KeepsContext(a, b), Tried(a)
  PROVE  Tried(b)
  BY DEF KeepsContext, Tried, Reconnects

LEMMA PostsTyped ==
  ASSUME mail \in Seq(Posted), NEW c \in Posted, Posts(c)
  PROVE  mail' \in Seq(Posted)
  BY DEF Posts

LEMMA ReadTyped ==
  ASSUME net \in NetRec, net.down # <<>>
  PROVE  /\ Read \in NetRec /\ Head(net.down) \in Reaction
         /\ Read.down = Tail(net.down) /\ Read.up = net.up /\ Read.seq = net.seq
         /\ Read.link = net.link /\ Read.hs = net.hs /\ Read.told = net.told
         /\ Read.registered = net.registered /\ Read.open = net.open
         /\ Read.ids = net.ids
<1>1. net.down \in Seq(Reaction)  BY DEF NetRec
<1>2. Head(net.down) \in Reaction /\ Tail(net.down) \in Seq(Reaction)  BY <1>1
<1> QED BY <1>2 DEF Read, NetRec

LEMMA InitTyped == Init => Typed /\ Wired /\ Retries
<1> SUFFICES ASSUME Init PROVE Typed /\ Wired /\ Retries  OBVIOUS
<1>1. app \in AppRec /\ app.state = "ready" /\ ~app.conn
  BY DEF Init, AppRec, States, StreamStates, Op
<1>2. net \in NetRec /\ mail \in Seq(Posted)  BY NetIs DEF Init
<1>3. Quiet(net)  BY NetIs DEF Init, Quiet
<1> QED BY <1>1, <1>2, <1>3 DEF Typed, Wired, Retries, Tried

(* connectTo() finds no connection, and makes one or fails. *)
LEMMA ConnectToIs ==
  ASSUME Typed, NEW ok \in BOOLEAN, ConnectTo(ok)
  PROVE  /\ Typed' /\ Tried(app') /\ App(app') /\ mail' = mail
         /\ ~Busy(app) /\ (Patient => mail = <<>>)
         /\ Idle(app) => Idle(app')
         /\ ok => app'.state = "connecting" /\ app'.shown = "connecting" /\ app'.conn
         /\ ~ok => app'.state = "failed" /\ app'.conn = app.conn
<1> DEFINE a == [app EXCEPT !.route = "direct", !.solid = FALSE]
<1>1. /\ a \in AppRec /\ a.state = app.state /\ a.conn = app.conn
      /\ KeepsStream(app, a)
  BY DEF Typed, AppRec, KeepsStream
<1>2. ~Busy(app) /\ ~Busy(a)  BY <1>1 DEF ConnectTo, Busy
<1>3. App(DoConnect(a, ok)) /\ mail' = mail /\ (Patient => mail = <<>>)
  BY DEF ConnectTo
<1> HIDE DEF a
<1>4. LET b == DoConnect(a, ok) IN
      /\ b \in AppRec /\ (Idle(a) => Idle(b))
      /\ ok => b.state = "connecting" /\ b.shown = "connecting" /\ b.conn
      /\ ~ok => b.state = "failed" /\ b.conn = a.conn /\ b.timer = Reconnects(b)
  BY <1>1, <1>2, DoConnectIs
<1>5. app' = DoConnect(a, ok) /\ Typed'
  BY <1>3, <1>4, AppIs DEF Typed
<1>6. Tried(app')  BY <1>4, <1>5 DEF Tried
<1>7. Idle(app) => Idle(a)  BY <1>1 DEF Idle, KeepsStream
<1> QED BY <1>1, <1>2, <1>3, <1>4, <1>5, <1>6, <1>7

LEMMA CloseIs ==
  ASSUME Typed, Close
  PROVE  /\ Typed' /\ (Tried(app) => Tried(app')) /\ App(app') /\ mail' = mail
         /\ Patient => ~AnswerWaits
         /\ ~Busy(app) => app' = app
         /\ Busy(app) => /\ app'.state = "terminated" /\ ~app'.conn /\ app'.op = None
                         /\ app.shown = "connected" \/ app.stream = "detached"
                              => app'.stream = "detached"
<1>1. /\ App(DoClose(app, "terminated")) /\ mail' = mail
      /\ Patient => ~AnswerWaits
  BY DEF Close
<1>2. LET b == DoClose(app, "terminated") IN
      /\ ~Busy(app) => b = app
      /\ Busy(app) => /\ b \in AppRec /\ b.state = "terminated" /\ ~b.conn
                      /\ b.op = None
                      /\ app.shown = "connected" \/ app.stream = "detached"
                           => b.stream = "detached"
  BY DoCloseIs DEF Typed, Ended
<1>3. app' = DoClose(app, "terminated") /\ Typed'
  BY <1>1, <1>2, AppIs DEF Typed
<1>4. Tried(app) => Tried(app')  BY <1>2, <1>3 DEF Tried
<1> QED BY <1>1, <1>2, <1>3, <1>4

LEMMA ProgramAttachesIs ==
  ASSUME Typed, ProgramAttaches
  PROVE  /\ Typed' /\ KeepsContext(app, app') /\ mail' = mail
         /\ app.stream = "detached"
         /\ \/ /\ app.state = "connected" /\ app.conn
               /\ Sends("open", 0) /\ app'.stream = "attaching"
               /\ app'.seen = "attaching"
               /\ app'.op = [what |-> "open", seq |-> net.seq + 1]
            \/ Idle(app') /\ net' = net
<1>1. Attach(app, FALSE) /\ mail' = mail  BY DEF ProgramAttaches
<1> QED BY <1>1, AttachIs DEF Typed

(* detach() of a stream with a channel, and without. *)
LEMMA DetachIs ==
  ASSUME Typed, Detach
  PROVE  /\ Typed' /\ KeepsContext(app, app') /\ mail' = mail
         /\ app.stream \in {"attaching", "attached"}
         /\ Patient => ~AnswerWaits
         /\ \/ /\ app.stream = "attached" /\ app.state = "connected" /\ app.conn
               /\ Sends("close", app.ch) /\ app'.stream = "detaching"
               /\ app'.op = [what |-> "close", seq |-> net.seq + 1]
            \/ Idle(app') /\ net' = net
<1> DEFINE a == [app EXCEPT !.op = None]
           b == StreamSetState(a, "detaching")
           request == [what |-> "close", seq |-> net.seq + 1]
           z == [a EXCEPT !.ch = 0]
<1>1. a \in AppRec /\ KeepsContext(app, a) /\ a.op = None
  BY DEF Typed, AppRec, Op, KeepsContext
<1>2. request \in Op /\ app.ch \in Nat  BY DEF Typed, NetRec, AppRec, Op
<1>3. /\ mail' = mail /\ app.stream \in {"attaching", "attached"}
      /\ Patient => ~AnswerWaits
  BY DEF Detach
<1>4. CASE app.stream = "attached" /\ app.ch # 0 /\ app.state = "connected" /\ app.conn
  <2>1. Sends("close", app.ch) /\ app' = [b EXCEPT !.op = request]
    BY <1>4 DEF Detach
  <2>2. net' \in NetRec  BY <1>2, <2>1, SendsIs DEF Typed
  <2>3. Sends("close", app.ch) /\ request = [what |-> "close", seq |-> net.seq + 1]
    BY <2>1
  <2> HIDE DEF a, request
  <2>4. b \in AppRec /\ KeepsContext(a, b) /\ b.stream = "detaching"
    BY <1>1, StreamSetStateIs DEF StreamStates
  <2> HIDE DEF b
  <2>5. /\ app' \in AppRec /\ KeepsContext(b, app') /\ app'.stream = "detaching"
        /\ app'.op = request
    BY <1>2, <2>1, <2>4 DEF AppRec, KeepsContext
  <2>6. KeepsContext(app, app')  BY <1>1, <2>4, <2>5 DEF KeepsContext
  <2> QED BY <1>3, <1>4, <2>2, <2>3, <2>5, <2>6 DEF Typed
<1>5. CASE ~(app.stream = "attached" /\ app.ch # 0 /\ app.state = "connected" /\ app.conn)
  <2>1. app' = StreamSetState(z, "detached") /\ net' = net  BY <1>5 DEF Detach
  <2> HIDE DEF a
  <2>2. z \in AppRec /\ KeepsContext(a, z) /\ z.op = None
    BY <1>1 DEF AppRec, KeepsContext
  <2> HIDE DEF z
  <2>3. /\ app' \in AppRec /\ KeepsContext(z, app') /\ app'.stream = "detached"
        /\ app'.op = None
    BY <2>1, <2>2, StreamSetStateIs DEF StreamStates
  <2>4. KeepsContext(app, app')  BY <1>1, <2>2, <2>3 DEF KeepsContext
  <2> QED BY <1>3, <2>1, <2>3, <2>4 DEF Typed, Idle
<1> QED BY <1>4, <1>5

(* The reconnect timer: a connection that is there stays, else there is a new   *)
(* one, or none and the timer again.                                           *)
LEMMA ReconnectTimerIs ==
  ASSUME Typed, NEW ok \in BOOLEAN, ReconnectTimer(ok)
  PROVE  /\ Typed' /\ Tried(app') /\ mail' = mail
         /\ app'.conn => app.conn \/ mail = <<>>
         /\ Busy(app) => /\ KeepsStream(app, app') /\ app'.state = app.state
                         /\ app'.shown = app.shown /\ app'.conn = app.conn
                         /\ app'.hello = app.hello
         /\ ~Busy(app) => /\ Idle(app) => Idle(app')
                          /\ ok => app'.state = "connecting" /\ app'.conn
                                   /\ app'.shown = "connecting"
                          /\ ~ok => app'.state = "failed" /\ app'.conn = app.conn
         /\ App(app')
<1> DEFINE route == IF app.solid \/ ~HasRouter THEN app.route
                    ELSE IF app.route = "direct" THEN "router" ELSE "direct"
           a == [app EXCEPT !.timer = FALSE, !.tries = @ + 1, !.route = route]
           b == DoConnect(a, ok)
           c == IF Busy(a) \/ ~ok THEN ScheduleReconnect(b) ELSE b
<1>1. app \in AppRec /\ app.tries + 1 \in Nat /\ route \in {"direct", "router"}
  BY DEF Typed, AppRec
<1>2. App(c) /\ mail' = mail /\ (app.conn \/ mail = <<>>)
  BY DEF ReconnectTimer
<1> HIDE DEF route
<1>3. /\ a \in AppRec /\ KeepsStream(app, a) /\ a.state = app.state
      /\ a.shown = app.shown /\ a.conn = app.conn /\ a.hello = app.hello
  BY <1>1 DEF AppRec, KeepsStream
<1> HIDE DEF a
<1>4. CASE Busy(app)
  <2>1. Busy(a)  BY <1>3, <1>4 DEF Busy
  <2>2. b = a  BY <1>3, <2>1, DoConnectIs
  <2>3. c = ScheduleReconnect(a)  BY <2>1, <2>2
  <2>4. /\ c \in AppRec /\ KeepsStream(a, c) /\ c.timer = Reconnects(c)
        /\ c.state = a.state /\ c.shown = a.shown /\ c.conn = a.conn
        /\ c.hello = a.hello
    BY <1>3, <2>3, ScheduleReconnectIs
  <2> HIDE DEF b, c
  <2>5. app' = c /\ Typed'  BY <1>2, <2>4, AppIs DEF Typed
  <2>6. Tried(app')  BY <2>4, <2>5 DEF Tried
  <2> QED BY <1>2, <1>3, <1>4, <2>4, <2>5, <2>6 DEF KeepsStream
<1>5. CASE ~Busy(app)
  <2>1. ~Busy(a)  BY <1>3, <1>5 DEF Busy
  <2>2. /\ b \in AppRec /\ (Idle(a) => Idle(b))
        /\ ok => b.state = "connecting" /\ b.shown = "connecting" /\ b.conn
        /\ ~ok => b.state = "failed" /\ b.conn = a.conn
    BY <1>3, <2>1, DoConnectIs
  <2> HIDE DEF b
  <2>3. LET e == ScheduleReconnect(b) IN
        /\ e \in AppRec /\ KeepsStream(b, e) /\ e.timer = Reconnects(e)
        /\ e.state = b.state /\ e.conn = b.conn
    BY <2>2, ScheduleReconnectIs
  <2>4. c = IF ok THEN b ELSE ScheduleReconnect(b)  BY <2>1
  <2> HIDE DEF c
  <2>5. /\ c \in AppRec /\ (Idle(a) => Idle(c))
        /\ ok => c.state = "connecting" /\ c.shown = "connecting" /\ c.conn
        /\ ~ok => c.state = "failed" /\ c.conn = a.conn /\ c.timer = Reconnects(c)
    BY <2>2, <2>3, <2>4 DEF KeepsStream, Idle
  <2>6. app' = c /\ Typed'  BY <1>2, <2>5, AppIs DEF Typed
  <2>7. Tried(app')  BY <2>5, <2>6 DEF Tried
  <2>8. Idle(app) => Idle(a)  BY <1>3 DEF Idle, KeepsStream
  <2> QED BY <1>2, <1>3, <1>5, <2>5, <2>6, <2>7, <2>8
<1> QED BY <1>4, <1>5

(* The stream's timer: attach() once more, or the timer again. *)
LEMMA StreamTimerIs ==
  ASSUME Typed, StreamTimer
  PROVE  /\ Typed' /\ KeepsContext(app, app') /\ mail' = mail
         /\ \/ /\ app.stream = "detached" /\ app.state = "connected" /\ app.conn
               /\ Sends("open", 0) /\ app'.stream = "attaching"
               /\ app'.seen = "attaching"
               /\ app'.op = [what |-> "open", seq |-> net.seq + 1]
            \/ app.stream = "detached" /\ Idle(app') /\ net' = net
            \/ KeepsStream(app, app') /\ net' = net
<1> DEFINE a == [app EXCEPT !.stimer = FALSE, !.stries = @ + 1]
<1>1. app.stries + 1 \in Nat  BY DEF Typed, AppRec
<1>2. a \in AppRec /\ KeepsContext(app, a) /\ KeepsStream(app, a)
  BY <1>1 DEF Typed, AppRec, KeepsContext, KeepsStream
<1>3. mail' = mail /\ (Attach(a, TRUE) \/ (app' = StreamSchedules(a) /\ net' = net))
  BY DEF StreamTimer
<1> HIDE DEF a
<1>4. CASE Attach(a, TRUE)
  <2>1. /\ a.stream = "detached" /\ a.state = "connected"
        /\ app' \in AppRec /\ net' \in NetRec /\ KeepsContext(a, app')
        /\ a.conn => /\ Sends("open", 0) /\ app'.stream = "attaching"
                     /\ app'.seen = "attaching"
                     /\ app'.op = [what |-> "open", seq |-> net.seq + 1]
        /\ ~a.conn => net' = net /\ Idle(app')
    BY <1>2, <1>4, AttachIs DEF Typed
  <2>2. KeepsContext(app, app')  BY <1>2, <2>1 DEF KeepsContext
  <2>3. app.stream = "detached" /\ app.state = "connected" /\ app.conn = a.conn
    BY <1>2, <2>1 DEF KeepsContext, KeepsStream
  <2> QED BY <1>3, <2>1, <2>2, <2>3 DEF Typed
<1>5. CASE app' = StreamSchedules(a) /\ net' = net
  <2>1. app' \in AppRec /\ KeepsContext(a, app') /\ KeepsStream(a, app')
    BY <1>2, <1>5, StreamSchedulesIs
  <2>2. KeepsContext(app, app') /\ KeepsStream(app, app')
    BY <1>2, <2>1 DEF KeepsContext, KeepsStream
  <2> QED BY <1>3, <1>5, <2>1, <2>2 DEF Typed
<1> QED BY <1>3, <1>4, <1>5

(* The handshake's timeout gives up, closes, or says hello once more. *)
LEMMA HandshakeTimeoutIs ==
  ASSUME Typed, HandshakeTimeout
  PROVE  /\ Typed' /\ mail' = mail /\ (Retries => Retries')
         /\ \/ /\ KeepsStream(app, app') /\ app'.state = app.state
               /\ app'.shown = app.shown /\ app'.conn = app.conn
               /\ App(app') \/ (net.hs = "sending" /\ Sends("hello", 0))
            \/ /\ net.hs = "sending" /\ Busy(app) /\ App(app')
               /\ app'.state = "failed" /\ ~app'.conn /\ app'.op = None
               /\ app.shown = "connected" \/ app.stream = "detached"
                    => app'.stream = "detached"
<1> DEFINE a == [app EXCEPT !.hello = 0]
<1>1. /\ a \in AppRec /\ KeepsStream(app, a) /\ a.state = app.state
      /\ a.shown = app.shown /\ a.conn = app.conn /\ a.tries = app.tries
      /\ a.timer = app.timer /\ a.route = app.route /\ a.solid = app.solid
  BY DEF Typed, AppRec, KeepsStream
<1>2. /\ mail' = mail
      /\ IF ~AutoReconnect \/ net.hs # "sending" THEN App(a)
         ELSE IF app.tries >= MaxTries THEN App(DoClose(a, "failed"))
         ELSE Sends("hello", 0) /\ app' = [a EXCEPT !.tries = @ + 1, !.hello = net.seq + 1]
      /\ unshaken' = (unshaken \/ (AutoReconnect /\ net.hs = "sending"
                                   /\ app.tries >= MaxTries))
  BY DEF HandshakeTimeout
<1>3. app.tries \in Nat /\ MaxTries \in Nat /\ app.tries + 1 \in Nat
  BY BoundsAssumption DEF Typed, AppRec
<1>4. CASE App(a)
  <2>1. app' = a /\ Typed'  BY <1>1, <1>2, <1>4, AppIs DEF Typed
  <2>2. Tried(app) => Tried(app')  BY <1>1, <2>1 DEF Tried, Reconnects
  <2>3. Retries => Retries'  BY <1>2, <2>2 DEF Retries
  <2> QED BY <1>1, <1>2, <1>4, <2>1, <2>3
<1>5. CASE /\ app.tries >= MaxTries /\ AutoReconnect /\ net.hs = "sending"
           /\ App(DoClose(a, "failed"))
  <2> DEFINE b == DoClose(a, "failed")
  <2> HIDE DEF a
  <2>1. /\ ~Busy(app) => b = a
        /\ Busy(app) =>
              /\ b \in AppRec /\ b.state = "failed" /\ ~b.conn /\ b.tries = a.tries
              /\ b.op = None
              /\ a.shown = "connected" \/ a.stream = "detached" => b.stream = "detached"
    BY <1>1, DoCloseIs DEF Ended, Busy
  <2>2. app' = b /\ Typed'  BY <1>1, <1>2, <1>5, <2>1, AppIs DEF Typed
  <2>3. unshaken' = TRUE  BY <1>2, <1>5
  <2>4. Retries'  BY <2>3 DEF Retries
  <2> QED BY <1>1, <1>2, <1>5, <2>1, <2>2, <2>4 DEF KeepsStream
<1>6. CASE /\ ~(app.tries >= MaxTries) /\ AutoReconnect /\ Sends("hello", 0)
           /\ net.hs = "sending"
           /\ app' = [a EXCEPT !.tries = @ + 1, !.hello = net.seq + 1]
  <2> DEFINE tries == app.tries + 1
             hello == net.seq + 1
  <2>1. tries \in Nat /\ hello \in Nat  BY <1>3 DEF Typed, NetRec
  <2>2. app' = [a EXCEPT !.tries = tries, !.hello = hello]  BY <1>1, <1>6
  <2>3. net' \in NetRec  BY <1>6, SendsIs DEF Typed, AppRec
  <2> HIDE DEF a, tries, hello
  <2>4. /\ app' \in AppRec /\ KeepsStream(a, app') /\ app'.state = a.state
        /\ app'.shown = a.shown /\ app'.conn = a.conn /\ app'.tries = tries
        /\ app'.timer = a.timer /\ app'.route = a.route /\ app'.solid = a.solid
    BY <1>1, <2>1, <2>2 DEF AppRec, KeepsStream
  <2>5. Reconnects(app') => Reconnects(app)
    BY <1>1, <1>3, <1>6, <2>4 DEF Reconnects, tries
  <2>6. Tried(app) => Tried(app')  BY <1>1, <2>4, <2>5 DEF Tried
  <2>7. Retries => Retries'  BY <1>2, <2>6 DEF Retries
  <2> QED BY <1>1, <1>2, <1>6, <2>3, <2>4, <2>7 DEF Typed, KeepsStream
<1> QED BY <1>2, <1>4, <1>5, <1>6

(* The timeout of a request leaves the stream detached. *)
LEMMA StreamTimeoutIs ==
  ASSUME Typed, StreamTimeout
  PROVE  /\ Typed' /\ KeepsContext(app, app') /\ mail' = mail /\ Idle(app')
         /\ app.op # None
         /\ net'.link = net.link /\ net'.up = net.up /\ net'.down = net.down
         /\ net'.hs = net.hs /\ net'.told = net.told /\ net'.seq = net.seq
         /\ net'.open = net.open /\ net'.ids = net.ids
         /\ app.op.what = "open" => net' = net
         /\ aborted' = (app.op.what = "close" /\ app.stream # "detaching")
<1> DEFINE registered == net.registered \ {app.ch}
           other == [net EXCEPT !.registered = registered]
<1>1. /\ app' = OpFailed(app) /\ mail' = mail /\ app.op # None
      /\ net' = IF app.op.what = "open" THEN net ELSE other
      /\ aborted' = (app.op.what = "close" /\ app.stream # "detaching")
  BY DEF StreamTimeout
<1>2. app' \in AppRec /\ KeepsContext(app, app') /\ Idle(app')
  BY <1>1, OpFailedIs DEF Typed, Idle
<1>3. registered \in SUBSET Nat  BY DEF Typed, NetRec
<1> HIDE DEF registered
<1>4. /\ other \in NetRec
      /\ other.link = net.link /\ other.up = net.up /\ other.down = net.down
      /\ other.hs = net.hs /\ other.told = net.told /\ other.seq = net.seq
      /\ other.open = net.open /\ other.ids = net.ids
  BY <1>3 DEF Typed, NetRec
<1> HIDE DEF other
<1> QED BY <1>1, <1>2, <1>4 DEF Typed

(* What each posted call does. *)
LEMMA PostedCallIs ==
  ASSUME Typed, PostedCall
  PROVE  /\ Typed' /\ (Retries => Retries') /\ App(app')
         /\ mail # <<>> /\ mail' = Tail(mail)
         /\ \/ /\ Head(mail) = SetCall /\ KeepsStream(app, app')
               /\ app'.state = "connected" /\ app'.shown = "connected"
               /\ app'.conn = app.conn
            \/ /\ Head(mail) \in {ErrCall, EndCall} /\ ~Busy(app)
               /\ KeepsStream(app, app')
               /\ app'.state = app.state /\ app'.shown = app.shown
               /\ app'.conn = app.conn
            \/ /\ Head(mail) \in {ErrCall, EndCall} /\ Busy(app) /\ app'.state = "failed"
               /\ ~app'.conn /\ app'.op = None
               /\ app.shown = "connected" \/ app.stream = "detached"
                    => app'.stream = "detached"
            \/ \E s \in {"attached", "detached"} :
                  /\ Head(mail) = StreamCall(s) /\ KeepsContext(app, app')
                  /\ app'.stream = s /\ app'.ch = app.ch /\ app'.op = app.op
                  /\ s = "attached" => app'.seen = s
<1> DEFINE m == Head(mail)
           b == DoClose(app, "failed")
<1>1. mail # <<>> /\ mail' = Tail(mail)  BY DEF PostedCall
<1>2. m \in Posted /\ mail' \in Seq(Posted)  BY <1>1 DEF Typed
<1>3. /\ App(CASE m.what = "setState" -> SetState(app, m.state)
              [] m.what = "onError" -> ScheduleReconnect(DoClose(app, m.state))
              [] m.what = "doClose" -> DoClose(app, m.state)
              [] m.what = "stream" -> StreamSetState(app, m.state))
      /\ unshaken' = IF Busy(app) /\ m.state = "failed" THEN m.what = "doClose"
                     ELSE unshaken
  BY DEF PostedCall
<1>3a. /\ ~Busy(app) => b = app
       /\ Busy(app) => /\ b \in AppRec /\ b.state = "failed" /\ ~b.conn /\ b.op = None
                       /\ app.shown = "connected" \/ app.stream = "detached"
                            => b.stream = "detached"
  BY DoCloseIs DEF Typed, Ended
<1> HIDE DEF m, b
<1>4. CASE m = SetCall
  <2>1. App(SetState(app, "connected"))  BY <1>3, <1>4 DEF SetCall, Call
  <2>2. LET c == SetState(app, "connected") IN
        /\ c \in AppRec /\ c.state = "connected" /\ c.shown = "connected"
        /\ c.conn = app.conn /\ KeepsStream(app, c)
    BY SetStateIs DEF Typed, States, Ended
  <2>3. app' = SetState(app, "connected") /\ Typed'
    BY <1>2, <2>1, <2>2, AppIs DEF Typed
  <2>4. Tried(app')  BY <2>2, <2>3 DEF Tried
  <2> QED BY <1>1, <1>4, <2>1, <2>2, <2>3, <2>4 DEF m, Retries
<1>5. CASE m = ErrCall
  <2>1. App(ScheduleReconnect(b))  BY <1>3, <1>5 DEF ErrCall, Call, b
  <2>2. /\ ~Busy(app) => b = app
        /\ Busy(app) => /\ b \in AppRec /\ b.state = "failed" /\ ~b.conn /\ b.op = None
                        /\ app.shown = "connected" \/ app.stream = "detached"
                             => b.stream = "detached"
    BY <1>3a
  <2>3. LET c == ScheduleReconnect(b) IN
        /\ c \in AppRec /\ KeepsStream(b, c) /\ c.timer = Reconnects(c)
        /\ c.state = b.state /\ c.shown = b.shown /\ c.conn = b.conn
    BY <2>2, ScheduleReconnectIs DEF Typed
  <2>4. app' = ScheduleReconnect(b) /\ Typed'
    BY <1>2, <2>1, <2>3, AppIs DEF Typed
  <2>5. Tried(app')  BY <2>3, <2>4 DEF Tried
  <2> QED BY <1>1, <1>5, <2>1, <2>2, <2>3, <2>4, <2>5 DEF m, KeepsStream, Retries
<1>5a. CASE m = EndCall
  <2>1. App(b) /\ (Busy(app) => unshaken' = TRUE) /\ (~Busy(app) => unshaken' = unshaken)
    BY <1>3, <1>5a DEF EndCall, Call, b
  <2>2. app' = b /\ Typed'
    BY <1>2, <1>3a, <2>1, AppIs DEF Typed
  <2>3. Retries => Retries'  BY <1>3a, <2>1, <2>2 DEF Retries
  <2> QED BY <1>1, <1>3a, <1>5a, <2>1, <2>2, <2>3 DEF m, KeepsStream
<1>6. ASSUME NEW s \in {"attached", "detached"}, m = StreamCall(s)
      PROVE  /\ Typed' /\ (Retries => Retries') /\ App(app')
             /\ KeepsContext(app, app')
             /\ app'.stream = s /\ app'.ch = app.ch /\ app'.op = app.op
             /\ s = "attached" => app'.seen = s
  <2>1. App(StreamSetState(app, s))  BY <1>3, <1>6 DEF StreamCall, Call
  <2>2. LET c == StreamSetState(app, s) IN
        /\ c \in AppRec /\ KeepsContext(app, c)
        /\ c.stream = s /\ c.ch = app.ch /\ c.op = app.op
        /\ s = "attached" => c.seen = s
    BY StreamSetStateIs DEF Typed, StreamStates
  <2>3. app' = StreamSetState(app, s) /\ Typed'
    BY <1>2, <2>1, <2>2, AppIs DEF Typed
  <2>4. Tried(app) => Tried(app')  BY <2>2, <2>3, KeepsTried DEF Typed
  <2>5. unshaken' = unshaken  BY <1>3, <1>6 DEF StreamCall, Call
  <2>6. Retries => Retries'  BY <2>4, <2>5 DEF Retries
  <2> QED BY <2>1, <2>2, <2>3, <2>6
<1>7. \/ m \in {SetCall, ErrCall, EndCall}
      \/ \E s \in {"attached", "detached"} : m = StreamCall(s)
  BY <1>2 DEF Posted
<1> QED BY <1>1, <1>4, <1>5, <1>5a, <1>6, <1>7 DEF m

(* What the IO thread does with an answer. *)
LEMMA HandshakeAckIs ==
  ASSUME Typed, Wired, HandshakeAck
  PROVE  /\ Typed' /\ (Tried(app) => Tried(app')) /\ net.down # <<>>
         /\ unshaken' = unshaken
         /\ KeepsStream(app, app') /\ app'.state = app.state /\ app'.shown = app.shown
         /\ app'.conn = app.conn
         /\ \/ net' = Read /\ mail' = mail
            \/ /\ net.hs = "sending" /\ Posts(SetCall)
               /\ net' = [Read EXCEPT !.hs = "completed"]
            \/ /\ net.hs = "sending" /\ Posts(EndCall)
               /\ net' = [Read EXCEPT !.hs = "none"]
<1> DEFINE hello == IF Head(net.down).seq = app.hello THEN 0 ELSE app.hello
           a == [app EXCEPT !.hello = hello]
           b == [a EXCEPT !.solid = TRUE]
           c == [a EXCEPT !.timer = FALSE]
<1>1. net.down # <<>> /\ unshaken' = unshaken  BY DEF HandshakeAck, Answer
<1>2. \/ net' = Read /\ app' = a /\ mail' = mail
      \/ /\ net.hs = "sending" /\ net' = [Read EXCEPT !.hs = "completed"]
         /\ app' = b /\ Posts(SetCall)
      \/ /\ net.hs = "sending" /\ net' = [Read EXCEPT !.hs = "none"]
         /\ app' = c /\ Posts(EndCall)
  BY DEF HandshakeAck, SetCall, EndCall
<1>3. app \in AppRec /\ hello \in Nat  BY DEF Typed, AppRec
<1> HIDE DEF hello
<1>4. /\ a \in AppRec /\ KeepsStream(app, a) /\ a.state = app.state
      /\ a.shown = app.shown /\ a.conn = app.conn /\ a.tries = app.tries
      /\ a.timer = app.timer /\ a.route = app.route /\ a.solid = app.solid
  BY <1>3 DEF AppRec, KeepsStream
<1> HIDE DEF a
<1>5. /\ b \in AppRec /\ KeepsStream(a, b) /\ b.state = a.state
      /\ b.shown = a.shown /\ b.conn = a.conn /\ b.tries = a.tries
      /\ b.timer = a.timer /\ b.route = a.route /\ b.solid
      /\ c \in AppRec /\ KeepsStream(a, c) /\ c.state = a.state
      /\ c.shown = a.shown /\ c.conn = a.conn
  BY <1>4 DEF AppRec, KeepsStream
<1> HIDE DEF b, c
<1>6. /\ Read \in NetRec /\ [Read EXCEPT !.hs = "completed"] \in NetRec
      /\ [Read EXCEPT !.hs = "none"] \in NetRec
  <2>1. Read \in NetRec  BY <1>1, ReadTyped DEF Typed
  <2> DEFINE r == Read
  <2> HIDE DEF r
  <2>2. r \in NetRec => /\ [r EXCEPT !.hs = "completed"] \in NetRec
                        /\ [r EXCEPT !.hs = "none"] \in NetRec
    BY DEF NetRec
  <2> QED BY <2>1, <2>2 DEF r
<1>7. Tried(app) => Tried(app')
  <2>1. CASE app' = a \/ app' = b
    BY <1>4, <1>5, <2>1 DEF Tried, Reconnects
  <2>2. CASE app' = c
    <3>1. Busy(app)  BY <1>1 DEF Wired, Quiet
    <3> QED BY <1>4, <1>5, <2>2, <3>1 DEF Tried, Busy
  <2> QED BY <1>2, <2>1, <2>2
<1>8. Typed'
  <2>1. Posts(SetCall) \/ Posts(EndCall) => mail' \in Seq(Posted)
    BY PostsTyped DEF Typed, Posted
  <2> QED BY <1>2, <1>4, <1>5, <1>6, <2>1 DEF Typed
<1>9. /\ KeepsStream(app, app') /\ app'.state = app.state
      /\ app'.shown = app.shown /\ app'.conn = app.conn
  BY <1>2, <1>4, <1>5 DEF KeepsStream
<1> QED BY <1>1, <1>2, <1>7, <1>8, <1>9

LEMMA OpenedIs ==
  ASSUME Typed, Opened
  PROVE  /\ Typed' /\ KeepsContext(app, app') /\ net.down # <<>>
         /\ \/ net' = Read /\ app' = app /\ mail' = mail /\ aborted' = aborted
            \/ LET m == Head(net.down) IN
               /\ m.what = "opened" /\ app.op = [what |-> "open", seq |-> m.seq]
               /\ aborted' = ~(app.stream = "attaching" /\ app.state = "connected")
               /\ app'.op = None /\ app'.ch = m.ch
               /\ app'.stream = app.stream /\ app'.seen = app.seen
               /\ net' = [Read EXCEPT !.registered = @ \cup {m.ch}]
               /\ Posts(StreamCall("attached"))
<1> DEFINE m == Head(net.down)
           a == [app EXCEPT !.op = None, !.ch = m.ch]
           registered == Read.registered \cup {m.ch}
           other == [Read EXCEPT !.registered = registered]
<1>1. net.down # <<>> /\ m.what = "opened"  BY DEF Opened, Answer
<1>2. IF app.op # [what |-> "open", seq |-> m.seq]
      THEN net' = Read /\ app' = app /\ mail' = mail /\ aborted' = aborted
      ELSE /\ aborted' = ~(app.stream = "attaching" /\ app.state = "connected")
           /\ app' = a /\ net' = other /\ Posts(StreamCall("attached"))
  BY DEF Opened, StreamCall
<1>3. Read \in NetRec /\ m \in Reaction  BY <1>1, ReadTyped DEF Typed
<1>4. other \in NetRec
  <2> DEFINE r == Read
  <2>1. r \in NetRec /\ registered \in SUBSET Nat  BY <1>3 DEF NetRec, Reaction
  <2> HIDE DEF r, registered
  <2>2. [r EXCEPT !.registered = registered] \in NetRec  BY <2>1 DEF NetRec
  <2> QED BY <2>2 DEF r
<1>5. m.ch \in Nat  BY <1>3 DEF Reaction
<1>6. other = [Read EXCEPT !.registered = @ \cup {m.ch}]  OBVIOUS
<1> HIDE DEF m, other
<1>7. /\ a \in AppRec /\ KeepsContext(app, a) /\ a.op = None /\ a.ch = m.ch
      /\ a.stream = app.stream /\ a.seen = app.seen
  BY <1>5 DEF Typed, AppRec, Op, KeepsContext
<1> HIDE DEF a
<1>8. Typed'
  <2>1. Posts(StreamCall("attached")) => mail' \in Seq(Posted)
    BY PostsTyped DEF Typed, Posted
  <2> QED BY <1>2, <1>3, <1>4, <1>7, <2>1 DEF Typed
<1>9. KeepsContext(app, app')  BY <1>2, <1>7 DEF KeepsContext
<1> QED BY <1>1, <1>2, <1>6, <1>7, <1>8, <1>9 DEF m

LEMMA ClosedIs ==
  ASSUME Typed, Closed
  PROVE  /\ Typed' /\ KeepsContext(app, app') /\ net.down # <<>>
         /\ \/ net' = Read /\ app' = app /\ mail' = mail /\ aborted' = aborted
            \/ /\ app.op.what = "close"
               /\ aborted' = ~(app.stream = "detaching" /\ app.state = "connected")
               /\ app'.op = None /\ app'.stream = app.stream /\ app'.seen = app.seen
               /\ net' = [Read EXCEPT !.registered = @ \ {app.ch}]
               /\ Posts(StreamCall("detached"))
<1> DEFINE m == Head(net.down)
           a == Released(app)
           registered == Read.registered \ {app.ch}
           other == [Read EXCEPT !.registered = registered]
<1>1. net.down # <<>>  BY DEF Closed, Answer
<1>2. IF app.op # [what |-> "close", seq |-> m.seq]
      THEN net' = Read /\ app' = app /\ mail' = mail /\ aborted' = aborted
      ELSE /\ aborted' = ~(app.stream = "detaching" /\ app.state = "connected")
           /\ app' = a /\ net' = other /\ Posts(StreamCall("detached"))
  BY DEF Closed, StreamCall
<1>3. Read \in NetRec  BY <1>1, ReadTyped DEF Typed
<1>4. other \in NetRec
  <2> DEFINE r == Read
  <2>1. r \in NetRec /\ registered \in SUBSET Nat  BY <1>3 DEF NetRec
  <2> HIDE DEF r, registered
  <2>2. [r EXCEPT !.registered = registered] \in NetRec  BY <2>1 DEF NetRec
  <2> QED BY <2>2 DEF r
<1>5. other = [Read EXCEPT !.registered = @ \ {app.ch}]  OBVIOUS
<1>6. app.op = [what |-> "close", seq |-> m.seq] => app.op.what = "close"  OBVIOUS
<1> HIDE DEF m, other
<1>7. /\ a \in AppRec /\ KeepsContext(app, a) /\ a.op = None
      /\ a.stream = app.stream /\ a.seen = app.seen
  BY DEF Typed, AppRec, Op, KeepsContext, Released
<1> HIDE DEF a
<1>8. Typed'
  <2>1. Posts(StreamCall("detached")) => mail' \in Seq(Posted)
    BY PostsTyped DEF Typed, Posted
  <2> QED BY <1>2, <1>3, <1>4, <1>7, <2>1 DEF Typed
<1>9. KeepsContext(app, app')  BY <1>2, <1>7 DEF KeepsContext
<1> QED BY <1>1, <1>2, <1>5, <1>6, <1>7, <1>8, <1>9

LEMMA LinkErrorIs ==
  ASSUME Typed, LinkError
  PROVE  /\ Typed' /\ app' = app /\ Posts(ErrCall)
         /\ net.link = "broken" /\ ~net.told
         /\ net' = [net EXCEPT !.told = TRUE, !.down = <<>>]
<1>1. /\ app' = app /\ Posts(ErrCall) /\ net.link = "broken" /\ ~net.told
      /\ net' = [net EXCEPT !.told = TRUE, !.down = <<>>]
  BY DEF LinkError, ErrCall
<1>2. net' \in NetRec
  <2>1. <<>> \in Seq(Reaction)  OBVIOUS
  <2> DEFINE empty == <<>>
  <2> HIDE DEF empty
  <2>2. net' = [net EXCEPT !.told = TRUE, !.down = empty] /\ empty \in Seq(Reaction)
    BY <1>1, <2>1 DEF empty
  <2> QED BY <2>2 DEF Typed, NetRec
<1>3. mail' \in Seq(Posted)  BY <1>1, PostsTyped DEF Typed, Posted
<1> QED BY <1>1, <1>2, <1>3 DEF Typed

LEMMA BreakIs ==
  ASSUME Typed, Break
  PROVE  /\ Typed' /\ app' = app /\ mail' = mail /\ net.link = "up"
         /\ net' = [net EXCEPT !.link = "broken", !.up = <<>>, !.open = {}]
<1>1. /\ app' = app /\ mail' = mail /\ net.link = "up"
      /\ net' = [net EXCEPT !.link = "broken", !.up = <<>>, !.open = {}]
  BY DEF Break
<1>2. net' \in NetRec
  <2>1. <<>> \in Seq(Request)  OBVIOUS
  <2> DEFINE empty == <<>>
  <2> HIDE DEF empty
  <2>2. /\ net' = [net EXCEPT !.link = "broken", !.up = empty, !.open = {}]
        /\ empty \in Seq(Request)
    BY <1>1, <2>1 DEF empty
  <2> QED BY <2>2 DEF Typed, NetRec
<1> QED BY <1>1, <1>2 DEF Typed

(* What the server makes of a message: it opens the next channel, or closes one. *)
LEMMA ServerIs ==
  ASSUME Typed, Server
  PROVE  LET m == Head(net.up) IN
         /\ Typed' /\ app' = app /\ mail' = mail
         /\ net.up # <<>> /\ net'.up = Tail(net.up)
         /\ net'.link = net.link /\ net'.seq = net.seq /\ net'.hs = net.hs
         /\ net'.registered = net.registered /\ net'.told = net.told
         /\ \/ /\ m.what = "hello" /\ net'.open = net.open /\ net'.ids = net.ids
               /\ \E what \in {"welcome", "foreign", "empty"} :
                     net'.down = Append(net.down, Message(what, m.seq, 0))
            \/ /\ m.what = "open" /\ net'.ids = net.ids + 1
               /\ net'.open = net.open \cup {net.ids + 1}
               /\ net'.down = Append(net.down, Message("opened", m.seq, net.ids + 1))
            \/ /\ m.what = "close" /\ net'.ids = net.ids
               /\ net'.open = net.open \ {m.ch}
               /\ net'.down = Append(net.down, Message("closed", m.seq, m.ch))
<1>0. PICK first \in {"welcome", "foreign"} :
         net' = [Serve(Head(net.up), first) EXCEPT !.up = Tail(@)]
  BY DEF Server
<1> DEFINE m == Head(net.up)
           up == Tail(net.up)
           ids == net.ids + 1
           more == net.open \cup {ids}
           less == net.open \ {m.ch}
           what == IF net.served = "new" THEN first ELSE "empty"
           down(w, ch) == Append(net.down, Message(w, m.seq, ch))
<1>1. /\ app' = app /\ mail' = mail /\ net.up # <<>>
      /\ net' = [Serve(m, first) EXCEPT !.up = Tail(@)]
  BY <1>0 DEF Server
<1>2. /\ net \in NetRec /\ net.up \in Seq(Request) /\ net.down \in Seq(Reaction)
      /\ net.ids \in Nat /\ net.open \in SUBSET Nat
  BY DEF Typed, NetRec
<1>3. m \in Request /\ up \in Seq(Request)  BY <1>1, <1>2
<1>4. ids \in Nat /\ more \in SUBSET Nat /\ less \in SUBSET Nat  BY <1>2
<1>5. what \in {"welcome", "foreign", "empty"}  BY <1>0
<1> HIDE DEF what
<1>6. \A w \in {"welcome", "foreign", "empty", "opened", "closed"}, ch \in Nat :
         down(w, ch) \in Seq(Reaction)
  BY <1>2, <1>3 DEF Message, Reaction, Request
<1>7. m.what \in {"hello", "open", "close"} /\ m.ch \in Nat
  BY <1>3 DEF Request
<1>8. CASE m.what = "hello"
  <2> DEFINE d == down(what, 0)
  <2>1. d \in Seq(Reaction) /\ d = Append(net.down, Message(what, m.seq, 0))
    BY <1>5, <1>6
  <2>2. Serve(m, first) = [net EXCEPT !.served = "completed", !.down = d]
    BY <1>8 DEF Serve, Reply, what
  <2> HIDE DEF d, m, up
  <2> DEFINE n == [net EXCEPT !.served = "completed", !.down = d]
  <2>3. /\ n \in NetRec /\ n.up = net.up /\ n.down = d /\ n.link = net.link
        /\ n.seq = net.seq /\ n.hs = net.hs /\ n.registered = net.registered /\ n.told = net.told
        /\ n.open = net.open /\ n.ids = net.ids
    BY <1>2, <2>1 DEF NetRec
  <2> HIDE DEF n
  <2>4. net' = [n EXCEPT !.up = up]  BY <1>1, <2>2, <2>3 DEF n, up
  <2>5. /\ net' \in NetRec /\ net'.up = up /\ net'.down = d /\ net'.link = net.link
        /\ net'.seq = net.seq /\ net'.hs = net.hs /\ net'.registered = net.registered
        /\ net'.told = net.told /\ net'.open = net.open /\ net'.ids = net.ids
    BY <1>3, <2>3, <2>4 DEF NetRec
  <2> QED BY <1>1, <1>5, <1>8, <2>1, <2>5 DEF Typed, m, up
<1>9. CASE m.what = "open"
  <2> DEFINE d == down("opened", ids)
  <2>1. /\ d \in Seq(Reaction)
        /\ d = Append(net.down, Message("opened", m.seq, net.ids + 1))
        /\ ids = net.ids + 1 /\ more = net.open \cup {net.ids + 1}
    BY <1>4, <1>6
  <2>2. Serve(m, first) = [net EXCEPT !.ids = ids, !.open = more, !.down = d]
    BY <1>9 DEF Serve, Reply
  <2> HIDE DEF d, m, up, ids, more
  <2> DEFINE n == [net EXCEPT !.ids = ids, !.open = more, !.down = d]
  <2>3. /\ n \in NetRec /\ n.up = net.up /\ n.down = d /\ n.link = net.link
        /\ n.seq = net.seq /\ n.hs = net.hs /\ n.registered = net.registered /\ n.told = net.told
        /\ n.open = more /\ n.ids = ids
    BY <1>2, <1>4, <2>1 DEF NetRec
  <2> HIDE DEF n
  <2>4. net' = [n EXCEPT !.up = up]  BY <1>1, <2>2, <2>3 DEF n, up
  <2>5. /\ net' \in NetRec /\ net'.up = up /\ net'.down = d /\ net'.link = net.link
        /\ net'.seq = net.seq /\ net'.hs = net.hs /\ net'.registered = net.registered
        /\ net'.told = net.told /\ net'.open = more /\ net'.ids = ids
    BY <1>3, <2>3, <2>4 DEF NetRec
  <2> QED BY <1>1, <1>9, <2>1, <2>5 DEF Typed, m, up
<1>10. CASE m.what = "close"
  <2> DEFINE d == down("closed", m.ch)
  <2>1. /\ d \in Seq(Reaction) /\ d = Append(net.down, Message("closed", m.seq, m.ch))
        /\ less = net.open \ {m.ch}
    BY <1>6, <1>7
  <2>2. Serve(m, first) = [net EXCEPT !.open = less, !.down = d]
    BY <1>10 DEF Serve, Reply
  <2> HIDE DEF d, m, up, less
  <2> DEFINE n == [net EXCEPT !.open = less, !.down = d]
  <2>3. /\ n \in NetRec /\ n.up = net.up /\ n.down = d /\ n.link = net.link
        /\ n.seq = net.seq /\ n.hs = net.hs /\ n.registered = net.registered /\ n.told = net.told
        /\ n.open = less /\ n.ids = net.ids
    BY <1>2, <1>4, <2>1 DEF NetRec
  <2> HIDE DEF n
  <2>4. net' = [n EXCEPT !.up = up]  BY <1>1, <2>2, <2>3 DEF n, up
  <2>5. /\ net' \in NetRec /\ net'.up = up /\ net'.down = d /\ net'.link = net.link
        /\ net'.seq = net.seq /\ net'.hs = net.hs /\ net'.registered = net.registered
        /\ net'.told = net.told /\ net'.open = less /\ net'.ids = net.ids
    BY <1>3, <2>3, <2>4 DEF NetRec
  <2> QED BY <1>1, <1>10, <2>1, <2>5 DEF Typed, m, up
<1> QED BY <1>7, <1>8, <1>9, <1>10

------------------------------------------------------------------------------
(* A connection that is there, made, or gone. *)
LEMMA AppWired ==
  ASSUME Wired, App(app'), app'.conn => Busy(app')
  PROVE  Wired'
<1>1. CASE ~app'.conn
  <2>1. net' = Offline  BY <1>1 DEF App
  <2> QED BY <1>1, <2>1, NetIs DEF Wired, Quiet
<1> QED BY <1>1 DEF Wired

LEMMA KeptWired ==
  ASSUME Wired, app'.conn = app.conn, app'.state = app.state,
         ~app.conn => Quiet(net')
  PROVE  Wired'
  BY DEF Wired, Busy

(* What is read was on its way, so there is a connection. *)
LEMMA ReadWired ==
  ASSUME Wired, app'.conn = app.conn, app'.state = app.state, net.down # <<>>
  PROVE  Wired'
  BY KeptWired DEF Wired, Quiet

LEMMA StepTyped ==
  ASSUME Typed, Wired, [Next]_vars
  PROVE  Typed' /\ Wired' /\ (Retries => Retries')
<1>1. CASE UNCHANGED vars
  BY <1>1 DEF vars, Typed, Wired, Busy, Quiet, Retries, Tried, Reconnects
<1>2. CASE Close
  <2>1. /\ Typed' /\ App(app') /\ (Tried(app) => Tried(app'))
        /\ ~Busy(app) => app' = app
        /\ Busy(app) => ~app'.conn
    BY <1>2, CloseIs
  <2>2. unshaken' = unshaken  BY <1>2 DEF Close
  <2>3. Wired'  BY <2>1, AppWired DEF Wired
  <2> QED BY <2>1, <2>2, <2>3 DEF Retries
<1>3. ASSUME \/ ProgramAttaches \/ Detach \/ StreamTimer \/ StreamTimeout
             \/ Opened \/ Closed
      PROVE  Typed' /\ Wired' /\ (Retries => Retries')
  <2>1. Typed' /\ KeepsContext(app, app')
    BY <1>3, ProgramAttachesIs, DetachIs, StreamTimerIs, StreamTimeoutIs, OpenedIs,
       ClosedIs
  <2>2. unshaken' = unshaken
    BY <1>3 DEF ProgramAttaches, Detach, StreamTimer, StreamTimeout, Opened, Closed
  <2>3. Tried(app) => Tried(app')  BY <2>1, KeepsTried DEF Typed
  <2>4. app'.conn = app.conn /\ app'.state = app.state  BY <2>1 DEF KeepsContext
  <2>5. ~app.conn => Quiet(net')
    <3> SUFFICES ASSUME ~app.conn PROVE Quiet(net')  OBVIOUS
    <3>1. Quiet(net)  BY DEF Wired
    <3>2. CASE ProgramAttaches \/ Detach \/ StreamTimer
      <4>1. net' = net  BY <3>2, ProgramAttachesIs, DetachIs, StreamTimerIs
      <4> QED BY <3>1, <4>1 DEF Quiet
    <3>3. CASE StreamTimeout
      <4>1. net'.up = net.up /\ net'.down = net.down /\ net'.hs = net.hs
        BY <3>3, StreamTimeoutIs
      <4> QED BY <3>1, <4>1 DEF Quiet
    <3>4. CASE Opened \/ Closed
      <4>1. net.down # <<>>  BY <3>4, OpenedIs, ClosedIs
      <4> QED BY <3>1, <4>1 DEF Quiet
    <3> QED BY <1>3, <3>2, <3>3, <3>4
  <2>6. Wired'  BY <2>4, <2>5, KeptWired
  <2> QED BY <2>1, <2>2, <2>3, <2>6 DEF Retries
<1>4. ASSUME NEW ok \in BOOLEAN, ConnectTo(ok) \/ ReconnectTimer(ok)
      PROVE  Typed' /\ Wired' /\ Retries'
  <2>1. /\ Typed' /\ Tried(app') /\ App(app')
        /\ Busy(app) => app'.state = app.state /\ app'.conn = app.conn
        /\ ~Busy(app) => /\ ok => app'.state = "connecting"
                         /\ ~ok => app'.conn = app.conn
    BY <1>4, ConnectToIs, ReconnectTimerIs
  <2>2. app'.conn => Busy(app')  BY <2>1 DEF Wired, Busy
  <2> QED BY <2>1, <2>2, AppWired DEF Retries
<1>5. CASE HandshakeTimeout
  <2>1. /\ Typed' /\ (Retries => Retries')
        /\ \/ /\ app'.state = app.state /\ app'.conn = app.conn
              /\ App(app') \/ net.hs = "sending"
           \/ App(app') /\ ~app'.conn
    BY <1>5, HandshakeTimeoutIs
  <2>2. CASE App(app')
    BY <2>1, <2>2, AppWired DEF Wired, Busy
  <2>3. CASE net.hs = "sending" /\ app'.state = app.state /\ app'.conn = app.conn
    <3>1. app.conn  BY <2>3 DEF Wired, Quiet
    <3> QED BY <2>1, <2>3, <3>1, KeptWired
  <2> QED BY <2>1, <2>2, <2>3
<1>6. CASE PostedCall
  <2>1. /\ Typed' /\ (Retries => Retries') /\ App(app')
        /\ \/ app'.state = "connected"
           \/ app'.state = app.state /\ app'.conn = app.conn
           \/ ~app'.conn
    BY <1>6, PostedCallIs DEF KeepsContext
  <2>2. app'.conn => Busy(app')  BY <2>1 DEF Wired, Busy
  <2> QED BY <2>1, <2>2, AppWired
<1>7. CASE HandshakeAck
  <2>1. /\ Typed' /\ (Tried(app) => Tried(app')) /\ net.down # <<>>
        /\ unshaken' = unshaken /\ app'.state = app.state /\ app'.conn = app.conn
    BY <1>7, HandshakeAckIs
  <2> QED BY <2>1, ReadWired DEF Retries
<1>8. CASE LinkError \/ Server \/ Break
  <2>1. Typed' /\ app' = app  BY <1>8, LinkErrorIs, ServerIs, BreakIs
  <2>2. unshaken' = unshaken  BY <1>8 DEF LinkError, Server, Break
  <2>3. Retries => Retries'  BY <2>1, <2>2 DEF Retries
  <2>4. ~app.conn => Quiet(net')
    <3> SUFFICES ASSUME ~app.conn PROVE Quiet(net')  OBVIOUS
    <3>1. Quiet(net)  BY DEF Wired
    <3>2. CASE LinkError
      <4>1. net' = [net EXCEPT !.told = TRUE, !.down = <<>>] /\ net \in NetRec
        BY <3>2, LinkErrorIs DEF Typed
      <4>2. net'.up = net.up /\ net'.down = <<>> /\ net'.hs = net.hs
        BY <4>1 DEF NetRec
      <4> QED BY <3>1, <4>2 DEF Quiet
    <3>3. CASE Server  BY <3>1, <3>3 DEF Quiet, Server
    <3>4. CASE Break
      <4>1. /\ net' = [net EXCEPT !.link = "broken", !.up = <<>>, !.open = {}]
            /\ net \in NetRec
        BY <3>4, BreakIs DEF Typed
      <4>2. net'.up = <<>> /\ net'.down = net.down /\ net'.hs = net.hs
        BY <4>1 DEF NetRec
      <4> QED BY <3>1, <4>2 DEF Quiet
    <3> QED BY <1>8, <3>2, <3>3, <3>4
  <2> QED BY <2>1, <2>3, <2>4, KeptWired
<1> QED BY <1>1, <1>2, <1>3, <1>4, <1>5, <1>6, <1>7, <1>8
        DEF Next, Program, Timers, Expiry, IoThread

(* A context that lost its connection and says that it is connecting has its    *)
(* timer running, or a call still to run (FailedIsRetried), however many calls, *)
(* faults and timeouts there are, unless the connection ended in its handshake. *)
THEOREM IncSessionRetries == Spec => []FailedIsRetried
<1>1. Init => Typed /\ Wired /\ Retries  BY InitTyped
<1>2. Typed /\ Wired /\ Retries /\ [Next]_vars => (Typed /\ Wired /\ Retries)'
  BY StepTyped
<1>3. Typed /\ Wired /\ Retries => FailedIsRetried
  <2> SUFFICES ASSUME Typed, Retries, app.state = "failed", ~unshaken,
                      Reported(app) = "connecting"
               PROVE  app.timer
    BY DEF FailedIsRetried
  <2>1. Reconnects(app)  BY DEF Reported
  <2> QED BY <2>1 DEF Retries, Tried
<1> QED BY <1>1, <1>2, <1>3, PTL DEF Spec

------------------------------------------------------------------------------
(* The calls that wait to be run: of one connection only, its end the last.     *)
Shapes == {<<>>, <<SetCall>>, <<SetCall, ErrCall>>, <<EndCall>>, <<EndCall, ErrCall>>,
           <<ErrCall>>}
          \cup {<<StreamCall(s)>> : s \in {"attached", "detached"}}
          \cup {<<StreamCall(s), ErrCall>> : s \in {"attached", "detached"}}
Waiting(c) == mail # <<>> /\ Head(mail) = c
ErrIn(s) == s # <<>> /\ s[Len(s)] = ErrCall
Erring == ErrIn(mail)

(* The context, its connection and the stream. *)
Linked ==
    /\ app.conn => Busy(app) /\ net.link # "none"
    /\ ~app.conn => net = Offline
    /\ Busy(app) => app.shown = app.state
    /\ app.stream # "detached" => app.conn /\ app.state = "connected"
    /\ app.stream \in {"attaching", "attached"} => app.seen = app.stream
    /\ app.op.what = "open" => app.stream = "attaching"
    /\ app.op.what = "close" => app.stream = "detaching"
    /\ app.conn /\ app.state = "connected" => net.hs = "completed"

(* The posted calls and the connection that made them. *)
Mailed ==
    /\ mail \in Shapes
    /\ net.link = "broken" => net.up = <<>>
    /\ net.told => net.link = "broken" /\ net.down = <<>>
    /\ app.conn => (net.told <=> Erring)
    /\ app.conn /\ net.hs = "sending" => mail \in {<<>>, <<ErrCall>>}
    /\ app.conn => (net.hs = "none" <=> Waiting(EndCall))
    /\ app.conn /\ Waiting(SetCall) => app.state = "connecting"
    /\ Waiting(StreamCall("attached")) => app.stream = "attaching" /\ app.op = None
    /\ app.conn /\ Waiting(StreamCall("detached"))
         => app.stream = "detaching" /\ app.op = None

(* A channel the server has open and no request on its way will close. *)
Live(n, c) ==
    /\ c <= n.ids
    /\ n.link = "up" => c \in n.open
    /\ \A i \in DOMAIN n.up : n.up[i].what = "close" => n.up[i].ch # c

(* The two ends' view of the channels, and the messages on their way. *)
Channels ==
    /\ \A i \in DOMAIN net.up : net.up[i].seq <= net.seq /\ net.up[i].ch <= net.ids
    /\ \A i \in DOMAIN net.down : net.down[i].seq <= net.seq
    /\ \A i \in DOMAIN net.down :
          net.down[i].what = "opened" /\ app.op = [what |-> "open", seq |-> net.down[i].seq]
             => Live(net, net.down[i].ch)
    /\ app.stream = "attached" \/ Waiting(StreamCall("attached"))
          => app.ch \in net.registered /\ Live(net, app.ch)

SInv == Typed /\ Linked /\ Mailed /\ Channels

LEMMA CallsDiffer ==
  /\ SetCall # ErrCall /\ EndCall # ErrCall /\ EndCall # SetCall
  /\ \A s \in {"attached", "detached"} :
        StreamCall(s) # SetCall /\ StreamCall(s) # ErrCall /\ StreamCall(s) # EndCall
  /\ StreamCall("attached") # StreamCall("detached")
  BY DEF SetCall, ErrCall, EndCall, StreamCall, Call

LEMMA ShapesAre ==
  ASSUME NEW s \in Shapes, s # <<>>
  PROVE  \/ s = <<ErrCall>>
         \/ \E c \in Posted \ {ErrCall} : s = <<c>> \/ s = <<c, ErrCall>>
  BY CallsDiffer DEF Shapes, Posted

LEMMA Singles ==
  ASSUME NEW c
  PROVE  /\ Head(<<c>>) = c /\ Tail(<<c>>) = <<>> /\ Head(<<c, ErrCall>>) = c
         /\ Tail(<<c, ErrCall>>) = <<ErrCall>> /\ Append(<<c>>, ErrCall) = <<c, ErrCall>>
         /\ Append(<<>>, c) = <<c>> /\ <<c>> # <<>> /\ <<c, ErrCall>> # <<>>
         /\ ErrIn(<<c>>) <=> c = ErrCall
         /\ ErrIn(<<c, ErrCall>>)
<1> DEFINE e == ErrCall
<1> HIDE DEF e
<1>1. /\ Head(<<c>>) = c /\ Tail(<<c>>) = <<>> /\ Head(<<c, e>>) = c
      /\ <<c>> # <<>> /\ <<c, e>> # <<>>
  OBVIOUS
<1>2. Tail(<<c, e>>) = <<e>>  OBVIOUS
<1>3. Append(<<c>>, e) = <<c, e>>
  <2> DEFINE S == {c, e}
             s == <<c>>
             t == <<c, e>>
  <2>1. /\ e \in S /\ s \in Seq(S) /\ t \in Seq(S)
        /\ Len(s) = 1 /\ Len(t) = 2 /\ s[1] = c /\ t[1] = c /\ t[2] = e
    OBVIOUS
  <2> HIDE DEF S, s, t
  <2>2. /\ Append(s, e) \in Seq(S) /\ Len(Append(s, e)) = Len(s) + 1
        /\ \A i \in 1..Len(s) : Append(s, e)[i] = s[i]
        /\ Append(s, e)[Len(s) + 1] = e
    <3>1. e \in S /\ s \in Seq(S)  BY <2>1
    <3> QED BY ONLY <3>1, AppendProperties
  <2>3. Len(Append(s, e)) = Len(t) /\ \A i \in 1..Len(t) : Append(s, e)[i] = t[i]
    BY <2>1, <2>2
  <2>4. Append(s, e) = t  BY <2>1, <2>2, <2>3, SeqEqual
  <2> QED BY <2>4 DEF s, t
<1>4. Append(<<>>, c) = <<c>>  OBVIOUS
<1>5. Len(<<c>>) = 1 /\ <<c>>[1] = c /\ Len(<<c, e>>) = 2 /\ <<c, e>>[2] = e  OBVIOUS
<1> QED BY <1>1, <1>2, <1>3, <1>4, <1>5 DEF e, ErrIn

(* A call is taken from the front. *)
LEMMA PopShape ==
  ASSUME NEW s \in Shapes, s # <<>>
  PROVE  /\ Tail(s) \in {<<>>, <<ErrCall>>} /\ Tail(s) \in Shapes
         /\ Head(s) = ErrCall => Tail(s) = <<>>
         /\ Head(s) # ErrCall => (ErrIn(s) <=> ErrIn(Tail(s)))
         /\ Tail(s) # <<>> => Head(Tail(s)) = ErrCall
<1>1. CASE s = <<ErrCall>>
  <2>1. /\ Head(s) = ErrCall /\ Tail(s) = <<>>
        /\ <<>> \in Shapes
    BY <1>1, Singles DEF Shapes
  <2> QED BY <2>1
<1>2. ASSUME NEW c \in Posted \ {ErrCall}, s = <<c>> \/ s = <<c, ErrCall>>
      PROVE  /\ Tail(s) \in {<<>>, <<ErrCall>>} /\ Tail(s) \in Shapes
             /\ Head(s) # ErrCall /\ (ErrIn(s) <=> ErrIn(Tail(s)))
             /\ Tail(s) # <<>> => Head(Tail(s)) = ErrCall
  <2>1. ~ErrIn(<<>>) /\ ErrIn(<<ErrCall>>)  BY Singles DEF ErrIn
  <2>2. <<>> \in Shapes /\ <<ErrCall>> \in Shapes /\ c # ErrCall  BY DEF Shapes
  <2>3. CASE s = <<c>>
    <3>1. Head(s) = c /\ Tail(s) = <<>> /\ ~ErrIn(s)  BY <2>2, <2>3, Singles
    <3> QED BY <2>1, <2>2, <3>1
  <2>4. CASE s = <<c, ErrCall>>
    <3>1. Head(s) = c /\ Tail(s) = <<ErrCall>> /\ ErrIn(s)  BY <2>4, Singles
    <3>2. Head(<<ErrCall>>) = ErrCall  BY Singles
    <3> QED BY <2>1, <2>2, <3>1, <3>2
  <2> QED BY <1>2, <2>3, <2>4
<1> QED BY <1>1, <1>2, ShapesAre

(* The end of the connection is posted behind what is there. *)
LEMMA PushErr ==
  ASSUME NEW s \in Shapes, ~ErrIn(s)
  PROVE  /\ Append(s, ErrCall) \in Shapes /\ ErrIn(Append(s, ErrCall))
         /\ Append(s, ErrCall) # <<>>
         /\ s # <<>> => Head(Append(s, ErrCall)) = Head(s)
         /\ s = <<>> => Append(s, ErrCall) = <<ErrCall>>
<1>1. CASE s = <<>>  BY <1>1, Singles DEF Shapes
<1>2. ASSUME NEW c \in Posted \ {ErrCall}, s = <<c>>
      PROVE  /\ Append(s, ErrCall) \in Shapes /\ ErrIn(Append(s, ErrCall))
             /\ Append(s, ErrCall) # <<>> /\ Head(Append(s, ErrCall)) = Head(s)
  <2>1. <<c, ErrCall>> \in Shapes  BY DEF Shapes, Posted
  <2> QED BY <1>2, <2>1, Singles
<1> QED BY <1>1, <1>2, ShapesAre, Singles

(* Another call is the first one. *)
LEMMA PushFirst ==
  ASSUME NEW c \in Posted \ {ErrCall}
  PROVE  /\ Append(<<>>, c) \in Shapes /\ ~ErrIn(Append(<<>>, c))
         /\ Append(<<>>, c) # <<>> /\ Head(Append(<<>>, c)) = c
<1>1. <<c>> \in Shapes  BY DEF Shapes, Posted
<1> QED BY <1>1, Singles

------------------------------------------------------------------------------
(* A step that leaves no connection, one that makes it, and one that keeps      *)
(* everything the invariant looks at.                                          *)
LEMMA GoneInv ==
  ASSUME Typed', net' = Offline, ~app'.conn, Idle(app'),
         Busy(app') => app'.shown = app'.state,
         mail' \in Shapes, ~Waiting(StreamCall("attached"))'
  PROVE  SInv'
<1>1. Linked'  BY NetIs DEF Linked, Idle, None
<1>2. Mailed'  BY NetIs DEF Mailed
<1>3. Channels'
  <2>1. net'.up = <<>> /\ net'.down = <<>>  BY NetIs
  <2> QED BY <2>1 DEF Channels, Idle
<1> QED BY <1>1, <1>2, <1>3 DEF SInv

LEMMA MadeInv ==
  ASSUME Typed', net' = Fresh, app'.conn, app'.state = "connecting",
         app'.shown = "connecting", Idle(app'), mail' = <<>>
  PROVE  SInv'
<1>1. Linked'  BY NetIs DEF Linked, Idle, None, Busy
<1>2. Mailed'
  <2>1. ~ErrIn(<<>>) /\ <<>> \in Shapes  BY DEF ErrIn, Shapes
  <2> QED BY <2>1, NetIs DEF Mailed, Erring, Waiting
<1>3. Channels'
  <2>1. /\ net'.up = <<Message("hello", 1, 0)>> /\ net'.down = <<>>
        /\ net'.seq = 1 /\ net'.ids = 0
    BY NetIs
  <2>2. \A i \in DOMAIN net'.up : net'.up[i].seq = 1 /\ net'.up[i].ch = 0
    BY <2>1 DEF Message
  <2>3. DOMAIN net'.down = {}  BY <2>1
  <2> QED BY <2>1, <2>2, <2>3 DEF Channels, Idle, Waiting
<1> QED BY <1>1, <1>2, <1>3 DEF SInv

LEMMA SameInv ==
  ASSUME SInv, Typed', KeepsStream(app, app'), app'.state = app.state,
         app'.shown = app.shown, app'.conn = app.conn, net' = net, mail' = mail
  PROVE  SInv'
<1>1. Linked'  BY DEF SInv, Linked, KeepsStream, Busy
<1>2. Mailed'  BY DEF SInv, Mailed, KeepsStream, Waiting, Erring
<1>3. Channels'  BY DEF SInv, Channels, KeepsStream, Waiting
<1> QED BY <1>1, <1>2, <1>3 DEF SInv

(* A stream without a request and a connection, in the words of Linked. *)
LEMMA Offstream ==
  ASSUME SInv, ~app.conn
  PROVE  Idle(app) /\ net = Offline /\ mail \in Shapes
         /\ ~Waiting(StreamCall("attached"))
<1>1. app.stream = "detached" /\ app.op.what \notin {"open", "close"}
  BY DEF SInv, Linked
<1>2. app.op = None  BY <1>1 DEF SInv, Typed, AppRec, Op
<1> QED BY <1>1, <1>2 DEF SInv, Linked, Mailed, Idle

(* A request adds itself to what is on its way: nothing else changes. *)
LEMMA SendsChannels ==
  ASSUME SInv, app.conn, NEW what \in {"hello", "open", "close"}, NEW ch \in Nat,
         Sends(what, ch), ch <= net.ids, mail' = mail
  PROVE  /\ \A i \in DOMAIN net'.up : net'.up[i].seq <= net'.seq
                                      /\ net'.up[i].ch <= net'.ids
         /\ \A i \in DOMAIN net'.down : net'.down[i].seq < net'.seq
         /\ \A c \in Nat : Live(net, c) /\ (what = "close" => c # ch) => Live(net', c)
         /\ net'.down = net.down /\ net'.registered = net.registered
         /\ net'.link = net.link /\ net'.hs = net.hs /\ net'.told = net.told
         /\ net.link = "broken" => net'.up = net.up
<1> DEFINE m == Message(what, net.seq + 1, ch)
<1>1. /\ net' \in NetRec /\ net'.seq = net.seq + 1
      /\ net'.up = IF net.link = "broken" THEN net.up ELSE Append(net.up, m)
      /\ net'.link = net.link /\ net'.down = net.down /\ net'.hs = net.hs
      /\ net'.registered = net.registered /\ net'.told = net.told
      /\ net'.open = net.open /\ net'.ids = net.ids
  BY SendsIs DEF SInv, Typed
<1>2. /\ net.up \in Seq(Request) /\ net.down \in Seq(Reaction) /\ net.seq \in Nat
      /\ net.ids \in Nat
  BY DEF SInv, Typed, NetRec
<1>3. m \in Request /\ m.what = what /\ m.ch = ch /\ m.seq = net.seq + 1
  BY <1>2 DEF Message, Request
<1> HIDE DEF m
<1>4. \A i \in DOMAIN net'.up : (i \in DOMAIN net.up /\ net'.up[i] = net.up[i])
                                \/ net'.up[i] = m
  <2>1. \A i \in DOMAIN Append(net.up, m) :
           (i \in DOMAIN net.up /\ Append(net.up, m)[i] = net.up[i])
           \/ Append(net.up, m)[i] = m
    <3>1. DOMAIN Append(net.up, m) = 1..Len(net.up)+1 /\ DOMAIN net.up = 1..Len(net.up)
          /\ Len(net.up) \in Nat
      BY <1>2, <1>3
    <3>2. \A i \in 1..Len(net.up) : Append(net.up, m)[i] = net.up[i]  BY <1>2, <1>3
    <3>3. Append(net.up, m)[Len(net.up)+1] = m  BY <1>2, <1>3
    <3> QED BY <3>1, <3>2, <3>3
  <2> QED BY <1>1, <2>1
<1>5. /\ \A i \in DOMAIN net.up : /\ net.up[i].seq <= net.seq /\ net.up[i].ch <= net.ids
                                  /\ net.up[i].seq \in Nat
      /\ \A i \in DOMAIN net.down : /\ net.down[i].seq <= net.seq
                                    /\ net.down[i].seq \in Nat
  <2>1. \A i \in DOMAIN net.up : net.up[i] \in Request  BY <1>2
  <2>2. \A i \in DOMAIN net.down : net.down[i] \in Reaction  BY <1>2
  <2> QED BY <2>1, <2>2 DEF SInv, Channels, Request, Reaction
<1>6. \A i \in DOMAIN net'.up : net'.up[i].seq <= net'.seq /\ net'.up[i].ch <= net'.ids
  <2> SUFFICES ASSUME NEW i \in DOMAIN net'.up
               PROVE  net'.up[i].seq <= net'.seq /\ net'.up[i].ch <= net'.ids
    OBVIOUS
  <2>1. net'.seq = net.seq + 1 /\ net'.ids = net.ids  BY <1>1
  <2>2. CASE i \in DOMAIN net.up /\ net'.up[i] = net.up[i]
    <3>1. net.up[i].seq <= net.seq /\ net.up[i].ch <= net.ids /\ net.up[i].seq \in Nat
      BY <1>5, <2>2
    <3>2. net'.up[i].seq = net.up[i].seq /\ net'.up[i].ch = net.up[i].ch  BY <2>2
    <3> QED BY <1>2, <2>1, <3>1, <3>2
  <2>3. CASE net'.up[i] = m
    <3>1. net'.up[i].seq = net.seq + 1 /\ net'.up[i].ch = ch  BY <1>3, <2>3
    <3> QED BY <1>2, <2>1, <3>1
  <2> QED BY <1>4, <2>2, <2>3
<1>7. \A i \in DOMAIN net'.down : net'.down[i].seq < net'.seq
  BY <1>1, <1>2, <1>5
<1>8. ASSUME NEW c \in Nat, Live(net, c), what = "close" => c # ch
      PROVE  Live(net', c)
  <2>1. \A i \in DOMAIN net'.up : net'.up[i].what = "close" => net'.up[i].ch # c
    BY <1>3, <1>4, <1>8 DEF Live
  <2> QED BY <1>1, <1>8, <2>1 DEF Live
<1> QED BY <1>1, <1>6, <1>7, <1>8

LEMMA SendHelloInv ==
  ASSUME SInv, Typed', KeepsStream(app, app'), app'.state = app.state,
         app'.shown = app.shown, app'.conn = app.conn, app.conn,
         Sends("hello", 0), mail' = mail
  PROVE  SInv'
<1>1. /\ \A i \in DOMAIN net'.up : net'.up[i].seq <= net'.seq
                                   /\ net'.up[i].ch <= net'.ids
      /\ \A i \in DOMAIN net'.down : net'.down[i].seq < net'.seq
      /\ \A c \in Nat : Live(net, c) => Live(net', c)
      /\ net'.down = net.down /\ net'.registered = net.registered
      /\ net'.link = net.link /\ net'.hs = net.hs /\ net'.told = net.told
      /\ net.link = "broken" => net'.up = net.up
  <2>1. 0 <= net.ids  BY DEF SInv, Typed, NetRec
  <2> QED BY <2>1, SendsChannels
<1>2. Linked'  BY <1>1 DEF SInv, Linked, KeepsStream, Busy
<1>3. Mailed'  BY <1>1 DEF SInv, Mailed, KeepsStream, Waiting, Erring
<1>4. Channels'
  <2>1. \A i \in DOMAIN net.down : net.down[i].ch \in Nat /\ net.down[i].seq \in Nat
    <3>1. net.down \in Seq(Reaction)  BY DEF SInv, Typed, NetRec
    <3>2. \A i \in DOMAIN net.down : net.down[i] \in Reaction  BY <3>1
    <3> QED BY <3>2 DEF Reaction
  <2>2. app.ch \in Nat /\ net'.seq \in Nat  BY DEF SInv, Typed, AppRec, NetRec
  <2>3. \A i \in DOMAIN net'.down : net'.down[i].seq <= net'.seq  BY <1>1, <2>1, <2>2
  <2>4. app'.ch = app.ch /\ app'.op = app.op /\ app'.stream = app.stream
    BY DEF KeepsStream
  <2> QED BY <1>1, <2>1, <2>2, <2>3, <2>4 DEF SInv, Channels, Waiting
<1> QED BY <1>2, <1>3, <1>4 DEF SInv

LEMMA SendOpenInv ==
  ASSUME SInv, Typed', KeepsContext(app, app'), mail' = mail,
         app.stream = "detached", app.state = "connected", app.conn,
         Sends("open", 0), app'.stream = "attaching", app'.seen = "attaching",
         app'.op = [what |-> "open", seq |-> net.seq + 1]
  PROVE  SInv'
<1>1. /\ \A i \in DOMAIN net'.up : net'.up[i].seq <= net'.seq
                                   /\ net'.up[i].ch <= net'.ids
      /\ \A i \in DOMAIN net'.down : net'.down[i].seq < net'.seq
      /\ net'.down = net.down /\ net'.link = net.link /\ net'.hs = net.hs
      /\ net'.told = net.told
      /\ net.link = "broken" => net'.up = net.up
  <2>1. 0 <= net.ids  BY DEF SInv, Typed, NetRec
  <2> QED BY <2>1, SendsChannels
<1>2. net'.seq = net.seq + 1 /\ net.seq \in Nat  BY SendsIs DEF SInv, Typed, NetRec
<1>3. ~Waiting(StreamCall("attached")) /\ ~Waiting(StreamCall("detached"))
  BY DEF SInv, Mailed
<1>4. Linked'  BY <1>1 DEF SInv, Linked, KeepsContext, Busy
<1>5. Mailed'  BY <1>1, <1>3 DEF SInv, Mailed, KeepsContext, Waiting, Erring
<1>6. Channels'
  <2>1. \A i \in DOMAIN net'.down : net'.down[i].seq \in Nat
    <3>1. net.down \in Seq(Reaction)  BY DEF SInv, Typed, NetRec
    <3>2. \A i \in DOMAIN net.down : net.down[i] \in Reaction  BY <3>1
    <3> QED BY <1>1, <3>2 DEF Reaction
  <2>2. \A i \in DOMAIN net'.down : net'.down[i].seq <= net'.seq  BY <1>1, <1>2, <2>1
  <2>3. \A i \in DOMAIN net'.down :
           app'.op # [what |-> "open", seq |-> net'.down[i].seq]
    BY <1>1, <1>2, <2>1
  <2> QED BY <1>1, <1>3, <2>2, <2>3 DEF Channels, Waiting
<1> QED BY <1>4, <1>5, <1>6 DEF SInv

LEMMA SendCloseInv ==
  ASSUME SInv, Typed', KeepsContext(app, app'), mail' = mail,
         app.stream = "attached", app.state = "connected", app.conn,
         Sends("close", app.ch), app'.stream = "detaching",
         app'.op = [what |-> "close", seq |-> net.seq + 1]
  PROVE  SInv'
<1>1. /\ \A i \in DOMAIN net'.up : net'.up[i].seq <= net'.seq
                                   /\ net'.up[i].ch <= net'.ids
      /\ \A i \in DOMAIN net'.down : net'.down[i].seq < net'.seq
      /\ net'.down = net.down /\ net'.link = net.link /\ net'.hs = net.hs
      /\ net'.told = net.told
      /\ net.link = "broken" => net'.up = net.up
  <2>1. app.ch \in Nat  BY DEF SInv, Typed, AppRec
  <2>2. app.ch <= net.ids  BY DEF SInv, Channels, Live
  <2> QED BY <2>1, <2>2, SendsChannels
<1>2. ~Waiting(StreamCall("attached")) /\ ~Waiting(StreamCall("detached"))
  BY DEF SInv, Mailed
<1>3. Linked'  BY <1>1 DEF SInv, Linked, KeepsContext, Busy
<1>4. Mailed'  BY <1>1, <1>2 DEF SInv, Mailed, KeepsContext, Waiting, Erring
<1>5. Channels'
  <2>1. \A i \in DOMAIN net'.down : net'.down[i].seq <= net'.seq
    <3>1. net.down \in Seq(Reaction) /\ net'.seq \in Nat  BY DEF SInv, Typed, NetRec
    <3>2. \A i \in DOMAIN net.down : net.down[i] \in Reaction  BY <3>1
    <3> QED BY <1>1, <3>1, <3>2 DEF Reaction
  <2>2. \A i \in DOMAIN net'.down :
           app'.op # [what |-> "open", seq |-> net'.down[i].seq]
    OBVIOUS
  <2> QED BY <1>1, <1>2, <2>1, <2>2 DEF Channels, Waiting
<1> QED BY <1>3, <1>4, <1>5 DEF SInv

(* The stream goes back to detached while the connection stays. *)
LEMMA IdleInv ==
  ASSUME SInv, Typed', KeepsContext(app, app'), Idle(app'), mail' = mail, app.conn,
         net'.link = net.link, net'.up = net.up, net'.down = net.down,
         net'.hs = net.hs, net'.told = net.told, net'.seq = net.seq,
         net'.open = net.open, net'.ids = net.ids,
         ~Waiting(StreamCall("attached")), ~Waiting(StreamCall("detached"))
  PROVE  SInv'
<1>1. Linked'  BY DEF SInv, Linked, KeepsContext, Idle, Busy, None
<1>2. Mailed'  BY DEF SInv, Mailed, KeepsContext, Idle, Waiting, Erring
<1>3. Channels'
  <2>1. \A n : app'.op # [what |-> "open", seq |-> n]  BY DEF Idle, None
  <2> QED BY <2>1 DEF SInv, Channels, Idle, Waiting
<1> QED BY <1>1, <1>2, <1>3 DEF SInv

(* Without the first message, the others are as they were. *)
LEMMA TailIs ==
  ASSUME NEW S, NEW s \in Seq(S), s # <<>>
  PROVE  /\ 1 \in DOMAIN s /\ Head(s) = s[1]
         /\ \A i \in DOMAIN Tail(s) : i + 1 \in DOMAIN s /\ Tail(s)[i] = s[i + 1]
<1>1. Tail(s) \in Seq(S) /\ Len(Tail(s)) = Len(s) - 1  BY HeadTailProperties
<1>2. Len(s) \in Nat \ {0} /\ DOMAIN s = 1..Len(s) /\ DOMAIN Tail(s) = 1..Len(s)-1
  BY <1>1, EmptySeq, LenProperties
<1>3. \A i \in 1..Len(s)-1 : Tail(s)[i] = s[i+1]  BY <1>1, HeadTailProperties
<1>4. Head(s) = s[1]  OBVIOUS
<1> QED BY <1>2, <1>3, <1>4

(* Where there is an answer there is a connection, whose end nobody has heard of. *)
LEMMA AnswerIs ==
  ASSUME SInv, net.down # <<>>
  PROVE  /\ app.conn /\ ~net.told /\ ~ErrIn(mail)
         /\ Head(net.down) \in Reaction /\ 1 \in DOMAIN net.down
         /\ Head(net.down) = net.down[1]
         /\ \A i \in DOMAIN Read.down : /\ i + 1 \in DOMAIN net.down
                                        /\ Read.down[i] = net.down[i + 1]
         /\ Read.up = net.up /\ Read.seq = net.seq /\ Read.link = net.link
         /\ Read.hs = net.hs /\ Read.told = net.told
         /\ Read.registered = net.registered /\ Read.open = net.open
         /\ Read.ids = net.ids
<1>1. net.down \in Seq(Reaction)  BY DEF SInv, Typed, NetRec
<1>2. app.conn  BY NetIs DEF SInv, Linked
<1>3. ~net.told /\ ~ErrIn(mail)  BY <1>2 DEF SInv, Mailed, Erring
<1> QED BY <1>1, <1>2, <1>3, TailIs, ReadTyped DEF SInv, Typed

(* What an answer leaves of the view of the channels, where the request of the  *)
(* stream is the one it was or none.                                           *)
LEMMA ReadChannels ==
  ASSUME SInv, net.down # <<>>, app'.op = app.op \/ app'.op = None,
         net'.up = net.up, net'.down = Read.down, net'.seq = net.seq,
         net'.link = net.link, net'.open = net.open, net'.ids = net.ids
  PROVE  /\ \A i \in DOMAIN net'.up : net'.up[i].seq <= net'.seq
                                      /\ net'.up[i].ch <= net'.ids
         /\ \A i \in DOMAIN net'.down : net'.down[i].seq <= net'.seq
         /\ \A i \in DOMAIN net'.down :
               /\ net'.down[i].what = "opened"
               /\ app'.op = [what |-> "open", seq |-> net'.down[i].seq]
               => Live(net', net'.down[i].ch)
         /\ \A c : Live(net, c) => Live(net', c)
<1>1. \A c : Live(net, c) => Live(net', c)  BY DEF Live
<1>2. \A i \in DOMAIN net'.down : /\ i + 1 \in DOMAIN net.down
                                  /\ net'.down[i] = net.down[i + 1]
  BY AnswerIs
<1>3. \A n : None # [what |-> "open", seq |-> n]  BY DEF None
<1> QED BY <1>1, <1>2, <1>3 DEF SInv, Channels

LEMMA SessionWired == SInv => Wired
<1>1. Quiet(Offline)  BY NetIs DEF Quiet
<1> QED BY <1>1 DEF SInv, Linked, Wired

LEMMA HandshakeAckInv ==
  ASSUME SInv, HandshakeAck
  PROVE  SInv'
<1>1. /\ Typed' /\ net.down # <<>> /\ KeepsStream(app, app')
      /\ app'.state = app.state /\ app'.shown = app.shown /\ app'.conn = app.conn
      /\ \/ net' = Read /\ mail' = mail
         \/ /\ net.hs = "sending" /\ Posts(SetCall)
            /\ net' = [Read EXCEPT !.hs = "completed"]
         \/ /\ net.hs = "sending" /\ Posts(EndCall)
            /\ net' = [Read EXCEPT !.hs = "none"]
  BY SessionWired, HandshakeAckIs DEF SInv
<1>2. /\ app.conn /\ ~net.told /\ ~ErrIn(mail)
      /\ Read.up = net.up /\ Read.seq = net.seq /\ Read.link = net.link
      /\ Read.hs = net.hs /\ Read.told = net.told
      /\ Read.registered = net.registered /\ Read.open = net.open
      /\ Read.ids = net.ids /\ Read \in NetRec
  BY <1>1, AnswerIs, ReadTyped DEF SInv, Typed
<1>3. /\ net'.up = net.up /\ net'.down = Read.down /\ net'.seq = net.seq
      /\ net'.link = net.link /\ net'.open = net.open /\ net'.ids = net.ids
      /\ net'.registered = net.registered /\ net'.told = net.told
      /\ \/ mail' = mail /\ net'.hs = net.hs
         \/ net.hs = "sending" /\ Posts(SetCall) /\ net'.hs = "completed"
         \/ net.hs = "sending" /\ Posts(EndCall) /\ net'.hs = "none"
  <2> DEFINE r == Read
  <2> HIDE DEF r
  <2>1. ASSUME NEW hs, r \in NetRec
        PROVE  LET n == [r EXCEPT !.hs = hs] IN
           /\ n.up = r.up /\ n.down = r.down /\ n.seq = r.seq /\ n.link = r.link
           /\ n.open = r.open /\ n.ids = r.ids /\ n.registered = r.registered
           /\ n.told = r.told /\ n.hs = hs
    BY <2>1 DEF NetRec
  <2>2. CASE net' = Read /\ mail' = mail  BY <1>2, <2>2 DEF r
  <2>3. CASE /\ net.hs = "sending" /\ Posts(SetCall)
             /\ net' = [Read EXCEPT !.hs = "completed"]
    BY <1>2, <2>1, <2>3 DEF r
  <2>4. CASE /\ net.hs = "sending" /\ Posts(EndCall)
             /\ net' = [Read EXCEPT !.hs = "none"]
    BY <1>2, <2>1, <2>4 DEF r
  <2> QED BY <1>1, <2>2, <2>3, <2>4
<1>4. app'.op = app.op /\ app'.stream = app.stream /\ app'.ch = app.ch
      /\ app'.seen = app.seen
  BY <1>1 DEF KeepsStream
<1>4a. net.hs = "sending" => app.state = "connecting"
  BY <1>2 DEF SInv, Linked, Busy
<1>5. Linked'  BY <1>1, <1>2, <1>3, <1>4, <1>4a DEF SInv, Linked, Busy
<1>6. CASE mail' = mail /\ net'.hs = net.hs
  <2>1. Mailed'  BY <1>1, <1>2, <1>3, <1>4, <1>6 DEF SInv, Mailed, Waiting, Erring
  <2>2. Channels'
    BY <1>1, <1>3, <1>4, <1>6, ReadChannels DEF SInv, Channels, Waiting
  <2> QED BY <1>1, <1>5, <2>1, <2>2 DEF SInv
<1>7. ASSUME NEW c \in {SetCall, EndCall}, Posts(c), net.hs = "sending",
             c = SetCall => net'.hs = "completed", c = EndCall => net'.hs = "none"
      PROVE  SInv'
  <2>1. mail = <<>>
    <3>1. mail \in {<<>>, <<ErrCall>>}  BY <1>2, <1>7 DEF SInv, Mailed
    <3>2. ErrIn(<<ErrCall>>)  BY Singles
    <3> QED BY <1>2, <3>1, <3>2
  <2>2. mail' = Append(<<>>, c)  BY <1>7, <2>1 DEF Posts
  <2>3. c \in Posted \ {ErrCall}  BY CallsDiffer DEF Posted
  <2>4. mail' \in Shapes /\ ~ErrIn(mail') /\ mail' # <<>> /\ Head(mail') = c
    BY <2>2, <2>3, PushFirst
  <2>5. /\ ~Waiting(StreamCall("attached"))' /\ ~Waiting(StreamCall("detached"))'
        /\ Waiting(EndCall)' <=> c = EndCall
    BY <2>4, CallsDiffer DEF Waiting
  <2>6. app.state = "connecting"  BY <1>4a, <1>7
  <2>7. net'.hs # "sending" /\ (net'.hs = "none" <=> c = EndCall)
    BY <1>7, CallsDiffer
  <2>8. Mailed'
    BY <1>1, <1>2, <1>3, <1>4, <2>4, <2>5, <2>6, <2>7 DEF SInv, Mailed, Erring
  <2>9. Channels'
    <3>1. app.stream = "attached" => app.ch \in net.registered /\ Live(net, app.ch)
      BY DEF SInv, Channels
    <3> QED BY <1>1, <1>3, <1>4, <2>5, <3>1, ReadChannels DEF Channels
  <2> QED BY <1>1, <1>5, <2>8, <2>9 DEF SInv
<1> QED BY <1>3, <1>6, <1>7, CallsDiffer

(* A stream that hears of its own request waits for nothing else. *)
LEMMA AskerIs ==
  ASSUME SInv, net.down # <<>>, app.op.what \in {"open", "close"}
  PROVE  /\ mail = <<>> /\ app.conn /\ app.state = "connected"
         /\ app.op.what = "open" => app.stream = "attaching"
         /\ app.op.what = "close" => app.stream = "detaching"
<1>1. app.conn /\ ~ErrIn(mail)  BY AnswerIs
<1>2. /\ app.state = "connected" /\ app.op # None
      /\ app.op.what = "open" => app.stream = "attaching"
      /\ app.op.what = "close" => app.stream = "detaching"
  BY DEF SInv, Linked, None
<1>3. ASSUME mail # <<>> PROVE FALSE
  <2>1. mail \in Shapes  BY DEF SInv, Mailed
  <2>2. PICK c \in Posted \ {ErrCall} : mail = <<c>> \/ mail = <<c, ErrCall>>
    <3>1. \/ mail = <<ErrCall>>
          \/ \E c \in Posted \ {ErrCall} : mail = <<c>> \/ mail = <<c, ErrCall>>
      BY <1>3, <2>1, ShapesAre
    <3>2. ErrIn(<<ErrCall>>)  BY Singles
    <3> QED BY <1>1, <3>1, <3>2
  <2>3. Head(mail) = c  BY <2>2, Singles
  <2>4. CASE c = SetCall
    BY <1>1, <1>2, <1>3, <2>3, <2>4 DEF SInv, Mailed, Waiting
  <2>4a. CASE c = EndCall
    BY <1>1, <1>2, <1>3, <2>3, <2>4a DEF SInv, Linked, Mailed, Waiting
  <2>5. CASE c = StreamCall("attached")
    BY <1>1, <1>2, <1>3, <2>3, <2>5 DEF SInv, Mailed, Waiting
  <2>6. CASE c = StreamCall("detached")
    BY <1>1, <1>2, <1>3, <2>3, <2>6 DEF SInv, Mailed, Waiting
  <2> QED BY <2>4, <2>4a, <2>5, <2>6 DEF Posted
<1> QED BY <1>1, <1>2, <1>3

LEMMA OpenedInv ==
  ASSUME SInv, Opened, ~aborted
  PROVE  SInv' /\ ~aborted'
<1> DEFINE m == Head(net.down)
<1>1. Typed' /\ KeepsContext(app, app') /\ net.down # <<>>
  BY OpenedIs DEF SInv
<1>2. /\ app.conn /\ ~net.told /\ ~ErrIn(mail) /\ m \in Reaction
      /\ 1 \in DOMAIN net.down /\ m = net.down[1]
      /\ Read.up = net.up /\ Read.seq = net.seq /\ Read.link = net.link
      /\ Read.hs = net.hs /\ Read.told = net.told
      /\ Read.registered = net.registered /\ Read.open = net.open
      /\ Read.ids = net.ids /\ Read \in NetRec
  BY <1>1, AnswerIs, ReadTyped DEF SInv, Typed
<1>3. CASE net' = Read /\ app' = app /\ mail' = mail /\ aborted' = aborted
  <2>1. Linked'  BY <1>1, <1>2, <1>3 DEF SInv, Linked, Busy
  <2>2. Mailed'  BY <1>1, <1>2, <1>3 DEF SInv, Mailed, Waiting, Erring
  <2>3. Channels'
    BY <1>1, <1>2, <1>3, ReadChannels DEF SInv, Channels, Waiting
  <2> QED BY <1>1, <1>3, <2>1, <2>2, <2>3 DEF SInv
<1>4. CASE /\ m.what = "opened" /\ app.op = [what |-> "open", seq |-> m.seq]
           /\ aborted' = ~(app.stream = "attaching" /\ app.state = "connected")
           /\ app'.op = None /\ app'.ch = m.ch
           /\ app'.stream = app.stream /\ app'.seen = app.seen
           /\ net' = [Read EXCEPT !.registered = @ \cup {m.ch}]
           /\ Posts(StreamCall("attached"))
  <2>1. app.op.what = "open"  BY <1>4
  <2>2. mail = <<>> /\ app.state = "connected" /\ app.stream = "attaching"
    BY <1>1, <2>1, AskerIs
  <2>3. ~aborted'  BY <1>4, <2>2
  <2>4. /\ net'.up = net.up /\ net'.down = Read.down /\ net'.seq = net.seq
        /\ net'.link = net.link /\ net'.open = net.open /\ net'.ids = net.ids
        /\ net'.registered = net.registered \cup {m.ch} /\ net'.told = net.told
        /\ net'.hs = net.hs
    <3> DEFINE r == Read
               registered == r.registered \cup {m.ch}
    <3>1. net' = [r EXCEPT !.registered = registered]  BY <1>4
    <3>2. registered = net.registered \cup {m.ch}  BY <1>2
    <3> HIDE DEF r, registered
    <3>3. r \in NetRec => LET n == [r EXCEPT !.registered = registered] IN
             /\ n.up = r.up /\ n.down = r.down /\ n.seq = r.seq /\ n.link = r.link
             /\ n.open = r.open /\ n.ids = r.ids /\ n.hs = r.hs
             /\ n.told = r.told /\ n.registered = registered
      BY DEF NetRec
    <3> QED BY <1>2, <3>1, <3>2, <3>3 DEF r
  <2>5. mail' = Append(<<>>, StreamCall("attached"))  BY <1>4, <2>2 DEF Posts
  <2>6. StreamCall("attached") \in Posted \ {ErrCall}  BY CallsDiffer DEF Posted
  <2>7. mail' \in Shapes /\ ~ErrIn(mail') /\ Head(mail') = StreamCall("attached")
    BY <2>5, <2>6, PushFirst
  <2>8. ~Waiting(SetCall)' /\ ~Waiting(StreamCall("detached"))' /\ ~Waiting(EndCall)'
    BY <2>7, CallsDiffer DEF Waiting
  <2>9. net.hs = "completed"  BY <1>2, <2>2 DEF SInv, Linked
  <2>10. Linked'
    BY <1>1, <1>2, <1>4, <2>2, <2>4 DEF SInv, Linked, KeepsContext, Busy, None
  <2>11. Mailed'
    BY <1>1, <1>2, <1>4, <2>2, <2>4, <2>7, <2>8, <2>9
    DEF SInv, Mailed, Erring
  <2>12. Channels'
    <3>1. Live(net, m.ch)  BY <1>2, <1>4 DEF SInv, Channels
    <3>2. app'.ch \in net'.registered  BY <1>4, <2>4
    <3> QED BY <1>1, <1>4, <2>4, <3>1, <3>2, ReadChannels DEF Channels
  <2> QED BY <1>1, <2>3, <2>10, <2>11, <2>12 DEF SInv
<1> HIDE DEF m
<1> QED BY <1>3, <1>4, OpenedIs DEF m, SInv

LEMMA ClosedInv ==
  ASSUME SInv, Closed, ~aborted
  PROVE  SInv' /\ ~aborted'
<1>1. Typed' /\ KeepsContext(app, app') /\ net.down # <<>>
  BY ClosedIs DEF SInv
<1>2. /\ app.conn /\ ~net.told /\ ~ErrIn(mail)
      /\ Read.up = net.up /\ Read.seq = net.seq /\ Read.link = net.link
      /\ Read.hs = net.hs /\ Read.told = net.told
      /\ Read.registered = net.registered /\ Read.open = net.open
      /\ Read.ids = net.ids /\ Read \in NetRec
  BY <1>1, AnswerIs, ReadTyped DEF SInv, Typed
<1>3. CASE net' = Read /\ app' = app /\ mail' = mail /\ aborted' = aborted
  <2>1. Linked'  BY <1>1, <1>2, <1>3 DEF SInv, Linked, Busy
  <2>2. Mailed'  BY <1>1, <1>2, <1>3 DEF SInv, Mailed, Waiting, Erring
  <2>3. Channels'
    BY <1>1, <1>2, <1>3, ReadChannels DEF SInv, Channels, Waiting
  <2> QED BY <1>1, <1>3, <2>1, <2>2, <2>3 DEF SInv
<1>4. CASE /\ app.op.what = "close"
           /\ aborted' = ~(app.stream = "detaching" /\ app.state = "connected")
           /\ app'.op = None /\ app'.stream = app.stream /\ app'.seen = app.seen
           /\ net' = [Read EXCEPT !.registered = @ \ {app.ch}]
           /\ Posts(StreamCall("detached"))
  <2>1. mail = <<>> /\ app.state = "connected" /\ app.stream = "detaching"
    BY <1>1, <1>4, AskerIs
  <2>2. ~aborted'  BY <1>4, <2>1
  <2>3. /\ net'.up = net.up /\ net'.down = Read.down /\ net'.seq = net.seq
        /\ net'.link = net.link /\ net'.open = net.open /\ net'.ids = net.ids
        /\ net'.told = net.told /\ net'.hs = net.hs
    <3> DEFINE r == Read
               registered == r.registered \ {app.ch}
    <3>1. net' = [r EXCEPT !.registered = registered]  BY <1>4
    <3> HIDE DEF r, registered
    <3>2. r \in NetRec => LET n == [r EXCEPT !.registered = registered] IN
             /\ n.up = r.up /\ n.down = r.down /\ n.seq = r.seq /\ n.link = r.link
             /\ n.open = r.open /\ n.ids = r.ids /\ n.hs = r.hs /\ n.told = r.told
      BY DEF NetRec
    <3> QED BY <1>2, <3>1, <3>2 DEF r
  <2>4. mail' = Append(<<>>, StreamCall("detached"))  BY <1>4, <2>1 DEF Posts
  <2>5. StreamCall("detached") \in Posted \ {ErrCall}  BY CallsDiffer DEF Posted
  <2>6. mail' \in Shapes /\ ~ErrIn(mail') /\ Head(mail') = StreamCall("detached")
    BY <2>4, <2>5, PushFirst
  <2>7. ~Waiting(SetCall)' /\ ~Waiting(StreamCall("attached"))' /\ ~Waiting(EndCall)'
    BY <2>6, CallsDiffer DEF Waiting
  <2>8. net.hs = "completed"  BY <1>2, <2>1 DEF SInv, Linked
  <2>9. Linked'
    BY <1>1, <1>2, <1>4, <2>1, <2>3 DEF SInv, Linked, KeepsContext, Busy, None
  <2>10. Mailed'
    BY <1>1, <1>2, <1>4, <2>1, <2>3, <2>6, <2>7, <2>8
    DEF SInv, Mailed, Erring
  <2>11. Channels'
    BY <1>1, <1>4, <2>1, <2>3, <2>7, ReadChannels DEF Channels
  <2> QED BY <1>1, <2>2, <2>9, <2>10, <2>11 DEF SInv
<1> QED BY <1>3, <1>4, ClosedIs DEF SInv

LEMMA LinkErrorInv ==
  ASSUME SInv, LinkError
  PROVE  SInv'
<1>1. /\ Typed' /\ app' = app /\ mail' = Append(mail, ErrCall)
      /\ net.link = "broken" /\ ~net.told
      /\ net' = [net EXCEPT !.told = TRUE, !.down = <<>>]
  BY LinkErrorIs DEF SInv, Posts
<1>2. /\ net'.told /\ net'.down = <<>> /\ net'.link = net.link /\ net'.up = net.up
      /\ net'.hs = net.hs /\ net'.seq = net.seq /\ net'.open = net.open
      /\ net'.ids = net.ids /\ net'.registered = net.registered
  <2> DEFINE empty == <<>>
  <2>1. net' = [net EXCEPT !.told = TRUE, !.down = empty]  BY <1>1
  <2> HIDE DEF empty
  <2>2. /\ net'.told = TRUE /\ net'.down = empty /\ net'.link = net.link
        /\ net'.up = net.up /\ net'.hs = net.hs /\ net'.seq = net.seq
        /\ net'.open = net.open /\ net'.ids = net.ids
        /\ net'.registered = net.registered
    BY <2>1 DEF SInv, Typed, NetRec
  <2> QED BY <2>2 DEF empty
<1>3. app.conn  BY <1>1, NetIs DEF SInv, Linked
<1>4. mail \in Shapes /\ ~ErrIn(mail)  BY <1>1, <1>3 DEF SInv, Mailed, Erring
<1>5. /\ mail' \in Shapes /\ ErrIn(mail') /\ mail' # <<>>
      /\ mail # <<>> => Head(mail') = Head(mail)
      /\ mail = <<>> => mail' = <<ErrCall>>
  BY <1>1, <1>4, PushErr
<1>6. \A c : c # ErrCall => (Waiting(c)' <=> Waiting(c))
  BY <1>5, Singles DEF Waiting
<1>7. Linked'  BY <1>1, <1>2, <1>3 DEF SInv, Linked, Busy
<1>8. Mailed'
  <2>1. net'.hs = "sending" => mail' \in {<<>>, <<ErrCall>>}
    <3>1. net.hs = "sending" => mail \in {<<>>, <<ErrCall>>}
      BY <1>3 DEF SInv, Mailed
    <3>2. ErrIn(<<ErrCall>>)  BY Singles
    <3> QED BY <1>2, <1>4, <1>5, <3>1, <3>2
  <2>2. /\ Waiting(SetCall)' => Waiting(SetCall)
        /\ Waiting(StreamCall("attached"))' => Waiting(StreamCall("attached"))
        /\ Waiting(StreamCall("detached"))' => Waiting(StreamCall("detached"))
        /\ Waiting(EndCall)' <=> Waiting(EndCall)
    BY <1>6, CallsDiffer
  <2> HIDE DEF Waiting
  <2> QED BY <1>1, <1>2, <1>5, <2>1, <2>2 DEF SInv, Mailed, Erring
<1>9. Channels'
  <2>1. Waiting(StreamCall("attached"))' => Waiting(StreamCall("attached"))
    BY <1>6, CallsDiffer
  <2>2. \A c : Live(net, c) => Live(net', c)  BY <1>2 DEF Live
  <2>3. DOMAIN net'.down = {}  BY <1>2
  <2> QED BY <1>1, <1>2, <2>1, <2>2, <2>3 DEF SInv, Channels
<1> QED BY <1>1, <1>7, <1>8, <1>9 DEF SInv

LEMMA BreakInv ==
  ASSUME SInv, Break
  PROVE  SInv'
<1>1. /\ Typed' /\ app' = app /\ mail' = mail /\ net.link = "up"
      /\ net' = [net EXCEPT !.link = "broken", !.up = <<>>, !.open = {}]
  BY BreakIs DEF SInv
<1>2. /\ net'.told = net.told /\ net'.down = net.down /\ net'.link = "broken"
      /\ net'.up = <<>> /\ net'.hs = net.hs /\ net'.seq = net.seq
      /\ net'.ids = net.ids /\ net'.registered = net.registered
  <2> DEFINE empty == <<>>
  <2>1. net' = [net EXCEPT !.link = "broken", !.up = empty, !.open = {}]  BY <1>1
  <2> HIDE DEF empty
  <2>2. /\ net'.told = net.told /\ net'.down = net.down /\ net'.link = "broken"
        /\ net'.up = empty /\ net'.hs = net.hs /\ net'.seq = net.seq
        /\ net'.ids = net.ids /\ net'.registered = net.registered
    BY <2>1 DEF SInv, Typed, NetRec
  <2> QED BY <2>2 DEF empty
<1>3. app.conn  BY <1>1, NetIs DEF SInv, Linked
<1>4. Linked'  BY <1>1, <1>2, <1>3 DEF SInv, Linked, Busy
<1>5. Mailed'  BY <1>1, <1>2 DEF SInv, Mailed, Waiting, Erring
<1>6. Channels'
  <2>1. DOMAIN net'.up = {}  BY <1>2
  <2>2. \A c : Live(net, c) => Live(net', c)  BY <1>2, <2>1 DEF Live
  <2> QED BY <1>1, <1>2, <2>1, <2>2 DEF SInv, Channels, Waiting
<1> QED BY <1>1, <1>4, <1>5, <1>6 DEF SInv

(* The server opens a channel nobody has named yet, and closes none that an     *)
(* attached stream uses.                                                       *)
LEMMA ServerInv ==
  ASSUME SInv, Server
  PROVE  SInv'
<1> DEFINE m == Head(net.up)
<1>1. /\ Typed' /\ app' = app /\ mail' = mail /\ net.up # <<>>
      /\ net'.up = Tail(net.up) /\ net'.link = net.link /\ net'.seq = net.seq
      /\ net'.hs = net.hs /\ net'.registered = net.registered /\ net'.told = net.told
  BY ServerIs DEF SInv
<1>2. /\ net.up \in Seq(Request) /\ net.down \in Seq(Reaction) /\ net.ids \in Nat
      /\ net.seq \in Nat
  BY DEF SInv, Typed, NetRec
<1>3. /\ 1 \in DOMAIN net.up /\ m = net.up[1] /\ m \in Request
      /\ \A i \in DOMAIN net'.up : /\ i + 1 \in DOMAIN net.up
                                   /\ net'.up[i] = net.up[i + 1]
  BY <1>1, <1>2, TailIs
<1>4. m.seq \in Nat /\ m.ch \in Nat /\ m.seq <= net.seq /\ m.ch <= net.ids
  BY <1>3 DEF SInv, Channels, Request
<1>5. \E r \in Reaction :
         /\ net'.down = Append(net.down, r) /\ r.seq = m.seq
         /\ \/ m.what = "hello" /\ r.what # "opened" /\ net'.open = net.open
               /\ net'.ids = net.ids
            \/ m.what = "open" /\ r.what = "opened" /\ r.ch = net.ids + 1
               /\ net'.ids = net.ids + 1 /\ net'.open = net.open \cup {net.ids + 1}
            \/ m.what = "close" /\ r.what # "opened" /\ net'.ids = net.ids
               /\ net'.open = net.open \ {m.ch}
  <2>1. /\ \A w \in {"welcome", "foreign", "empty"} :
              /\ Message(w, m.seq, 0) \in Reaction /\ Message(w, m.seq, 0).seq = m.seq
              /\ Message(w, m.seq, 0).what # "opened"
        /\ Message("opened", m.seq, net.ids + 1) \in Reaction
        /\ Message("opened", m.seq, net.ids + 1).seq = m.seq
        /\ Message("opened", m.seq, net.ids + 1).what = "opened"
        /\ Message("opened", m.seq, net.ids + 1).ch = net.ids + 1
        /\ Message("closed", m.seq, m.ch) \in Reaction
        /\ Message("closed", m.seq, m.ch).seq = m.seq
        /\ Message("closed", m.seq, m.ch).what # "opened"
    BY <1>2, <1>4 DEF Message, Reaction
  <2>2. \/ /\ m.what = "hello" /\ net'.open = net.open /\ net'.ids = net.ids
           /\ \E w \in {"welcome", "foreign", "empty"} :
                 net'.down = Append(net.down, Message(w, m.seq, 0))
        \/ /\ m.what = "open" /\ net'.ids = net.ids + 1
           /\ net'.open = net.open \cup {net.ids + 1}
           /\ net'.down = Append(net.down, Message("opened", m.seq, net.ids + 1))
        \/ /\ m.what = "close" /\ net'.ids = net.ids
           /\ net'.open = net.open \ {m.ch}
           /\ net'.down = Append(net.down, Message("closed", m.seq, m.ch))
    BY ServerIs DEF SInv
  <2> HIDE DEF m
  <2> QED BY <2>1, <2>2
<1> HIDE DEF m
<1>6. PICK r \in Reaction :
         /\ net'.down = Append(net.down, r) /\ r.seq = m.seq
         /\ \/ m.what = "hello" /\ r.what # "opened" /\ net'.open = net.open
               /\ net'.ids = net.ids
            \/ m.what = "open" /\ r.what = "opened" /\ r.ch = net.ids + 1
               /\ net'.ids = net.ids + 1 /\ net'.open = net.open \cup {net.ids + 1}
            \/ m.what = "close" /\ r.what # "opened" /\ net'.ids = net.ids
               /\ net'.open = net.open \ {m.ch}
  BY <1>5
<1>7. \A i \in DOMAIN net'.down : (i \in DOMAIN net.down /\ net'.down[i] = net.down[i])
                                  \/ net'.down[i] = r
  <2>1. DOMAIN net'.down = 1..Len(net.down)+1 /\ DOMAIN net.down = 1..Len(net.down)
        /\ Len(net.down) \in Nat
    BY <1>2, <1>6
  <2>2. \A i \in 1..Len(net.down) : net'.down[i] = net.down[i]  BY <1>2, <1>6
  <2>3. net'.down[Len(net.down)+1] = r  BY <1>2, <1>6
  <2> QED BY <2>1, <2>2, <2>3
<1>8. \A i \in DOMAIN net.up : net.up[i].seq <= net.seq /\ net.up[i].ch <= net.ids
                               /\ net.up[i].ch \in Nat
  <2>1. \A i \in DOMAIN net.up : net.up[i] \in Request  BY <1>2
  <2> QED BY <2>1 DEF SInv, Channels, Request
<1>9. \A i \in DOMAIN net'.up : net'.up[i].seq <= net'.seq /\ net'.up[i].ch <= net'.ids
  BY <1>1, <1>2, <1>3, <1>6, <1>8
<1>10. \A c \in Nat : Live(net, c) => Live(net', c)
  BY <1>1, <1>2, <1>3, <1>6 DEF Live
<1>11. r.what = "opened" => Live(net', r.ch)
  <2> SUFFICES ASSUME r.what = "opened" PROVE Live(net', r.ch)  OBVIOUS
  <2>1. /\ r.ch = net.ids + 1 /\ net'.ids = net.ids + 1
        /\ net'.open = net.open \cup {net.ids + 1}
    BY <1>6
  <2>2. \A i \in DOMAIN net'.up : net'.up[i].ch # r.ch
    BY <1>2, <1>3, <1>8, <2>1
  <2> QED BY <1>2, <2>1, <2>2 DEF Live
<1>12. Linked'
  <2>1. net = Offline => net.up = <<>>  BY NetIs
  <2> QED BY <1>1, <2>1 DEF SInv, Linked, Busy
<1>13. Mailed'
  <2>1. net.up # <<>> /\ app.conn  BY <1>1, NetIs DEF SInv, Linked
  <2>2. ~net.told  
    BY <1>1, <2>1 DEF SInv, Mailed
  <2> QED BY <1>1, <2>2 DEF SInv, Mailed, Waiting, Erring
<1>14. Channels'
  <2>1. \A i \in DOMAIN net.down : net.down[i].seq <= net.seq /\ net.down[i].ch \in Nat
    <3>1. \A i \in DOMAIN net.down : net.down[i] \in Reaction  BY <1>2
    <3> QED BY <3>1 DEF SInv, Channels, Reaction
  <2>2. \A i \in DOMAIN net'.down : net'.down[i].seq <= net'.seq
    BY <1>1, <1>4, <1>6, <1>7, <2>1
  <2>3. \A i \in DOMAIN net'.down :
           /\ net'.down[i].what = "opened"
           /\ app'.op = [what |-> "open", seq |-> net'.down[i].seq]
           => Live(net', net'.down[i].ch)
    BY <1>1, <1>7, <1>10, <1>11, <2>1 DEF SInv, Channels
  <2>4. app.ch \in Nat  BY DEF SInv, Typed, AppRec
  <2> QED BY <1>1, <1>9, <1>10, <2>2, <2>3, <2>4 DEF SInv, Channels, Waiting
<1> QED BY <1>1, <1>12, <1>13, <1>14 DEF SInv

(* doClose() leaves a stream that is detached, whatever it was before. *)
LEMMA EndedIsIdle ==
  ASSUME SInv, Busy(app), app'.op = None,
         app.shown = "connected" \/ app.stream = "detached" => app'.stream = "detached"
  PROVE  Idle(app')
  BY DEF SInv, Linked, Idle

LEMMA PostedCallInv ==
  ASSUME SInv, PostedCall
  PROVE  SInv'
<1> DEFINE m == Head(mail)
<1>1. Typed' /\ App(app') /\ mail # <<>> /\ mail' = Tail(mail)
  BY PostedCallIs DEF SInv
<1>2. mail \in Shapes  BY DEF SInv, Mailed
<1>3. /\ mail' \in {<<>>, <<ErrCall>>} /\ mail' \in Shapes
      /\ m # ErrCall => (ErrIn(mail) <=> ErrIn(mail'))
      /\ mail' # <<>> => Head(mail') = ErrCall
  BY <1>1, <1>2, PopShape
<1>4. /\ ~Waiting(SetCall)' /\ ~Waiting(StreamCall("attached"))'
      /\ ~Waiting(StreamCall("detached"))' /\ ~Waiting(EndCall)'
  BY <1>3, CallsDiffer DEF Waiting
<1>5. Waiting(m)  BY <1>1 DEF Waiting
<1> HIDE DEF m
<1>6. CASE m = SetCall
  <2>1. /\ KeepsStream(app, app') /\ app'.state = "connected"
        /\ app'.shown = "connected" /\ app'.conn = app.conn
    BY <1>6, CallsDiffer, PostedCallIs DEF SInv, m
  <2>2. CASE ~app.conn
    <3>1. Idle(app')  BY <2>1, <2>2, Offstream DEF Idle, KeepsStream
    <3>2. net' = Offline  BY <1>1, <2>1, <2>2 DEF App
    <3> QED BY <1>1, <1>3, <1>4, <2>1, <2>2, <3>1, <3>2, GoneInv
  <2>3. CASE app.conn
    <3>1. net' = net  BY <1>1, <2>1, <2>3 DEF App
    <3>2. app.state = "connecting"  BY <1>5, <1>6, <2>3 DEF SInv, Mailed
    <3>3. app.stream = "detached"  BY <3>2 DEF SInv, Linked
    <3>4. net.hs = "completed"
      <4>1. net.hs # "sending"
        <5>1. mail \notin {<<>>, <<ErrCall>>}
          BY <1>1, <1>6, CallsDiffer, Singles DEF m
        <5> QED BY <2>3, <5>1 DEF SInv, Mailed
      <4>2. net.hs # "none"
        BY <1>5, <1>6, <2>3, CallsDiffer DEF SInv, Mailed, Waiting
      <4> QED BY <4>1, <4>2 DEF SInv, Typed, NetRec
    <3>5. Linked'
      BY <2>1, <2>3, <3>1, <3>3, <3>4 DEF SInv, Linked, KeepsStream, Busy
    <3>6. Mailed'
      BY <1>3, <1>4, <1>6, <2>1, <2>3, <3>1, <3>4, CallsDiffer DEF SInv, Mailed, Erring
    <3>7. Channels'
      BY <1>4, <2>1, <3>1, <3>3 DEF SInv, Channels, KeepsStream
    <3> QED BY <1>1, <3>5, <3>6, <3>7 DEF SInv
  <2> QED BY <2>2, <2>3
<1>7. CASE m \in {ErrCall, EndCall}
  <2>1. CASE Busy(app)
    <3>1. /\ app'.state = "failed" /\ ~app'.conn /\ app'.op = None
          /\ app.shown = "connected" \/ app.stream = "detached"
               => app'.stream = "detached"
      BY <1>7, <2>1, CallsDiffer, PostedCallIs DEF SInv, m
    <3>2. Idle(app')  BY <2>1, <3>1, EndedIsIdle
    <3>3. net' = Offline /\ ~Busy(app')  BY <1>1, <3>1 DEF App, Busy
    <3> QED BY <1>1, <1>3, <1>4, <3>1, <3>2, <3>3, GoneInv
  <2>2. CASE ~Busy(app)
    <3>1. KeepsStream(app, app') /\ app'.state = app.state /\ app'.conn = app.conn
      BY <1>7, <2>2, CallsDiffer, PostedCallIs DEF SInv, m
    <3>2. ~app.conn  BY <2>2 DEF SInv, Linked
    <3>3. Idle(app')  BY <3>1, <3>2, Offstream DEF Idle, KeepsStream
    <3>4. net' = Offline /\ ~Busy(app')  BY <1>1, <2>2, <3>1, <3>2 DEF App, Busy
    <3> QED BY <1>1, <1>3, <1>4, <3>1, <3>2, <3>3, <3>4, GoneInv
  <2> QED BY <2>1, <2>2
<1>8. ASSUME NEW s \in {"attached", "detached"}, m = StreamCall(s),
             KeepsContext(app, app'), app'.stream = s, app'.ch = app.ch,
             app'.op = app.op, s = "attached" => app'.seen = s
      PROVE  SInv'
  <2>1. app'.conn = app.conn /\ app'.state = app.state /\ app'.shown = app.shown
    BY <1>8 DEF KeepsContext
  <2>2. CASE ~app.conn
    <3>1. s = "detached"  BY <1>5, <1>8, <2>2, Offstream
    <3>2. Idle(app')  BY <1>8, <2>2, <3>1, Offstream DEF Idle
    <3>3. net' = Offline  BY <1>1, <2>1, <2>2 DEF App
    <3>4. Busy(app') => app'.shown = app'.state  BY <2>1 DEF SInv, Linked, Busy
    <3> QED BY <1>1, <1>3, <1>4, <2>1, <2>2, <3>2, <3>3, <3>4, GoneInv
  <2>3. CASE app.conn
    <3>1. net' = net  BY <1>1, <2>1, <2>3 DEF App
    <3>2. app.op = None /\ app.stream \in {"attaching", "detaching"}
      BY <1>5, <1>8, <2>3 DEF SInv, Mailed
    <3>3. app.state = "connected"  BY <3>2 DEF SInv, Linked
    <3>4. net.hs = "completed"  BY <2>3, <3>3 DEF SInv, Linked
    <3>5. Linked'
      BY <1>8, <2>1, <2>3, <3>1, <3>2, <3>3 DEF SInv, Linked, Busy, None
    <3>6. Mailed'
      BY <1>3, <1>4, <1>8, <2>1, <2>3, <3>1, <3>4, CallsDiffer DEF SInv, Mailed, Erring
    <3>7. s = "attached" => app.ch \in net.registered /\ Live(net, app.ch)
      BY <1>5, <1>8 DEF SInv, Channels
    <3>8. \A n : None # [what |-> "open", seq |-> n]  BY DEF None
    <3>9. Channels'
      BY <1>4, <1>8, <3>1, <3>2, <3>7, <3>8 DEF SInv, Channels
    <3> QED BY <1>1, <3>5, <3>6, <3>9 DEF SInv
  <2> QED BY <2>2, <2>3
<1> QED BY <1>6, <1>7, <1>8, PostedCallIs DEF SInv, m

(* A detached stream stays so, with or without a connection. *)
LEMMA StaysIdleInv ==
  ASSUME SInv, Typed', KeepsContext(app, app'), Idle(app'), net' = net, mail' = mail,
         app.stream \in {"detached", "attached"}
  PROVE  SInv'
<1>1. CASE app.conn
  <2>1. ~Waiting(StreamCall("attached")) /\ ~Waiting(StreamCall("detached"))
    BY <1>1 DEF SInv, Mailed
  <2> QED BY <1>1, <2>1, IdleInv
<1>2. CASE ~app.conn
  <2>1. /\ net' = Offline /\ mail' \in Shapes
        /\ ~Waiting(StreamCall("attached"))' /\ ~app'.conn
    BY <1>2, Offstream DEF Waiting, KeepsContext
  <2>2. Busy(app') => app'.shown = app'.state
    BY DEF SInv, Linked, KeepsContext, Busy
  <2> QED BY <2>1, <2>2, GoneInv
<1> QED BY <1>1, <1>2

LEMMA ConnectToInv ==
  ASSUME Patient, SInv, NEW ok \in BOOLEAN, ConnectTo(ok)
  PROVE  SInv'
<1>1. /\ Typed' /\ App(app') /\ mail' = mail /\ ~Busy(app) /\ mail = <<>>
      /\ Idle(app) => Idle(app')
      /\ ok => app'.state = "connecting" /\ app'.shown = "connecting" /\ app'.conn
      /\ ~ok => app'.state = "failed" /\ app'.conn = app.conn
  BY ConnectToIs DEF SInv
<1>2. ~app.conn  BY <1>1 DEF SInv, Linked
<1>3. Idle(app') /\ mail \in Shapes  BY <1>1, <1>2, Offstream
<1>4. CASE ok
  <2>1. net' = Fresh  BY <1>1, <1>2, <1>4 DEF App
  <2> QED BY <1>1, <1>3, <1>4, <2>1, MadeInv
<1>5. CASE ~ok
  <2>1. net' = Offline /\ ~Busy(app')  BY <1>1, <1>2, <1>5 DEF App, Busy
  <2>2. ~Waiting(StreamCall("attached"))'  BY <1>1 DEF Waiting
  <2> QED BY <1>1, <1>2, <1>3, <1>5, <2>1, <2>2, GoneInv
<1> QED BY <1>4, <1>5

LEMMA CloseInv ==
  ASSUME Patient, SInv, Close
  PROVE  SInv'
<1>1. /\ Typed' /\ App(app') /\ mail' = mail /\ ~AnswerWaits
      /\ ~Busy(app) => app' = app
      /\ Busy(app) => /\ app'.state = "terminated" /\ ~app'.conn /\ app'.op = None
                      /\ app.shown = "connected" \/ app.stream = "detached"
                           => app'.stream = "detached"
  BY CloseIs DEF SInv
<1>2. mail' \in Shapes  BY <1>1 DEF SInv, Mailed
<1>3. ~Waiting(StreamCall("attached"))'
  BY <1>1 DEF SInv, Mailed, AnswerWaits, Waiting
<1>4. CASE Busy(app)
  <2>1. Idle(app')  BY <1>1, <1>4, EndedIsIdle
  <2>2. net' = Offline /\ ~Busy(app')  BY <1>1, <1>4 DEF App, Busy
  <2> QED BY <1>1, <1>2, <1>3, <1>4, <2>1, <2>2, GoneInv
<1>5. CASE ~Busy(app)
  <2>1. ~app.conn  BY <1>5 DEF SInv, Linked
  <2>2. Idle(app)  BY <2>1, Offstream
  <2>3. net' = Offline  BY <1>1, <1>5, <2>1 DEF App
  <2> QED BY <1>1, <1>2, <1>3, <1>5, <2>1, <2>2, <2>3, GoneInv
<1> QED BY <1>4, <1>5

LEMMA DetachInv ==
  ASSUME Patient, SInv, Detach
  PROVE  SInv'
<1>1. /\ Typed' /\ KeepsContext(app, app') /\ mail' = mail
      /\ app.stream \in {"attaching", "attached"} /\ ~AnswerWaits
      /\ \/ /\ app.stream = "attached" /\ app.state = "connected" /\ app.conn
            /\ Sends("close", app.ch) /\ app'.stream = "detaching"
            /\ app'.op = [what |-> "close", seq |-> net.seq + 1]
         \/ Idle(app') /\ net' = net
  BY DetachIs DEF SInv
<1>2. CASE app.stream = "attached"  BY <1>1, <1>2, SendCloseInv, StaysIdleInv
<1>3. CASE app.stream = "attaching" /\ Idle(app') /\ net' = net
  <2>1. app.conn  BY <1>3 DEF SInv, Linked
  <2>2. ~Waiting(StreamCall("attached")) /\ ~Waiting(StreamCall("detached"))
    BY <1>1, <1>3, <2>1 DEF SInv, Mailed, AnswerWaits
  <2> QED BY <1>1, <1>3, <2>1, <2>2, IdleInv
<1> QED BY <1>1, <1>2, <1>3

LEMMA ReconnectTimerInv ==
  ASSUME SInv, NEW ok \in BOOLEAN, ReconnectTimer(ok)
  PROVE  SInv'
<1>1. /\ Typed' /\ mail' = mail /\ App(app')
      /\ app'.conn => app.conn \/ mail = <<>>
      /\ Busy(app) => /\ KeepsStream(app, app') /\ app'.state = app.state
                      /\ app'.shown = app.shown /\ app'.conn = app.conn
      /\ ~Busy(app) => /\ Idle(app) => Idle(app')
                       /\ ok => app'.state = "connecting" /\ app'.conn
                                /\ app'.shown = "connecting"
                       /\ ~ok => app'.state = "failed" /\ app'.conn = app.conn
  BY ReconnectTimerIs DEF SInv
<1>2. CASE Busy(app)
  <2>1. net' = net  BY <1>1, <1>2 DEF App, SInv, Linked
  <2> QED BY <1>1, <1>2, <2>1, SameInv
<1>3. CASE ~Busy(app)
  <2>1. ~app.conn  BY <1>3 DEF SInv, Linked
  <2>2. Idle(app') /\ mail' \in Shapes /\ ~Waiting(StreamCall("attached"))'
    BY <1>1, <1>3, <2>1, Offstream DEF Waiting
  <2>3. CASE ok
    <3>1. net' = Fresh  BY <1>1, <1>3, <2>1, <2>3 DEF App
    <3> QED BY <1>1, <1>3, <2>1, <2>2, <2>3, <3>1, MadeInv
  <2>4. CASE ~ok
    <3>1. net' = Offline /\ ~Busy(app')  BY <1>1, <1>3, <2>1, <2>4 DEF App, Busy
    <3> QED BY <1>1, <1>3, <2>1, <2>2, <2>4, <3>1, GoneInv
  <2> QED BY <2>3, <2>4
<1> QED BY <1>2, <1>3

LEMMA HandshakeTimeoutInv ==
  ASSUME SInv, HandshakeTimeout
  PROVE  SInv'
<1>1. Typed' /\ mail' = mail  BY HandshakeTimeoutIs DEF SInv
<1>2. CASE /\ KeepsStream(app, app') /\ app'.state = app.state
           /\ app'.shown = app.shown /\ app'.conn = app.conn
           /\ App(app') \/ (net.hs = "sending" /\ Sends("hello", 0))
  <2>1. CASE App(app')
    <3>1. net' = net  BY <1>2, <2>1 DEF App, SInv, Linked
    <3> QED BY <1>1, <1>2, <3>1, SameInv
  <2>2. CASE net.hs = "sending" /\ Sends("hello", 0)
    <3>1. app.conn  BY <2>2 DEF SInv, Linked, Offline
    <3> QED BY <1>1, <1>2, <2>2, <3>1, SendHelloInv
  <2> QED BY <1>2, <2>1, <2>2
<1>3. CASE /\ net.hs = "sending" /\ Busy(app) /\ App(app')
           /\ app'.state = "failed" /\ ~app'.conn /\ app'.op = None
           /\ app.shown = "connected" \/ app.stream = "detached"
                => app'.stream = "detached"
  <2>1. Idle(app')  BY <1>3, EndedIsIdle
  <2>2. net' = Offline /\ ~Busy(app')  BY <1>3 DEF App, Busy
  <2>3. app.conn  BY <1>3 DEF SInv, Linked, Offline
  <2>4. mail \in {<<>>, <<ErrCall>>} /\ mail \in Shapes
    BY <1>3, <2>3 DEF SInv, Mailed
  <2>5. ~Waiting(StreamCall("attached"))'
    BY <1>1, <2>4, CallsDiffer, Singles DEF Waiting
  <2> QED BY <1>1, <1>3, <2>1, <2>2, <2>4, <2>5, GoneInv
<1> QED BY <1>2, <1>3, HandshakeTimeoutIs DEF SInv

LEMMA StreamTimeoutInv ==
  ASSUME SInv, StreamTimeout
  PROVE  SInv' /\ ~aborted'
<1>1. /\ Typed' /\ KeepsContext(app, app') /\ mail' = mail /\ Idle(app')
      /\ app.op # None
      /\ net'.link = net.link /\ net'.up = net.up /\ net'.down = net.down
      /\ net'.hs = net.hs /\ net'.told = net.told /\ net'.seq = net.seq
      /\ net'.open = net.open /\ net'.ids = net.ids
      /\ aborted' = (app.op.what = "close" /\ app.stream # "detaching")
  BY StreamTimeoutIs DEF SInv
<1>2. app.op.what \in {"open", "close"}  BY <1>1 DEF SInv, Typed, AppRec, Op
<1>3. app.conn  BY <1>2 DEF SInv, Linked
<1>4. ~Waiting(StreamCall("attached")) /\ ~Waiting(StreamCall("detached"))
  BY <1>1, <1>3 DEF SInv, Mailed
<1>5. ~aborted'  BY <1>1 DEF SInv, Linked
<1> QED BY <1>1, <1>3, <1>4, <1>5, IdleInv

LEMMA InitSession == Init => SInv /\ ~aborted
<1> SUFFICES ASSUME Init PROVE SInv /\ ~aborted  OBVIOUS
<1>1. Typed /\ ~aborted  BY InitTyped DEF Init
<1>2. /\ app.state = "ready" /\ app.shown = "ready" /\ ~app.conn
      /\ app.stream = "detached" /\ app.op = None /\ net = Offline /\ mail = <<>>
  BY DEF Init
<1>3. Linked  BY <1>2 DEF Linked, Busy, None
<1>4. Mailed
  <2>1. ~ErrIn(<<>>) /\ <<>> \in Shapes  BY DEF ErrIn, Shapes
  <2> QED BY <1>2, <2>1, NetIs DEF Mailed, Waiting
<1>5. Channels  BY <1>2, NetIs DEF Channels, Waiting
<1> QED BY <1>1, <1>3, <1>4, <1>5 DEF SInv

(* The steps that cannot fail an assertion do not touch the flag. *)
LEMMA OthersKeepFlag ==
  ASSUME \/ Program \/ Timers \/ HandshakeTimeout \/ PostedCall \/ HandshakeAck
         \/ LinkError \/ Server \/ Break
  PROVE  aborted' = aborted
  BY DEF Program, Close, ProgramAttaches, Detach, ConnectTo, Timers, StreamTimer,
         ReconnectTimer, HandshakeTimeout, PostedCall, HandshakeAck, LinkError,
         Server, Break

LEMMA SessionStep ==
  ASSUME Patient, SInv, ~aborted, [Next]_vars
  PROVE  SInv' /\ ~aborted'
<1>1. CASE UNCHANGED vars
  <2>1. Typed'  BY <1>1 DEF SInv, Typed, vars
  <2>2. /\ app' = app /\ net' = net /\ mail' = mail /\ aborted' = aborted
        /\ KeepsStream(app, app')
    BY <1>1 DEF vars, KeepsStream
  <2> QED BY <2>1, <2>2, SameInv
<1>2. CASE Close  BY <1>2, CloseInv, OthersKeepFlag DEF Program
<1>3. CASE ProgramAttaches
  <2>1. /\ Typed' /\ KeepsContext(app, app') /\ mail' = mail
        /\ app.stream = "detached"
        /\ \/ /\ app.state = "connected" /\ app.conn
              /\ Sends("open", 0) /\ app'.stream = "attaching"
              /\ app'.seen = "attaching"
              /\ app'.op = [what |-> "open", seq |-> net.seq + 1]
           \/ Idle(app') /\ net' = net
    BY <1>3, ProgramAttachesIs DEF SInv
  <2> QED BY <1>3, <2>1, SendOpenInv, StaysIdleInv, OthersKeepFlag DEF Program
<1>4. CASE Detach  BY <1>4, DetachInv, OthersKeepFlag DEF Program
<1>5. ASSUME NEW ok \in BOOLEAN, ConnectTo(ok) PROVE SInv' /\ ~aborted'
  BY <1>5, ConnectToInv, OthersKeepFlag DEF Program
<1>6. CASE StreamTimer
  <2>1. /\ Typed' /\ KeepsContext(app, app') /\ mail' = mail
        /\ \/ /\ app.stream = "detached" /\ app.state = "connected" /\ app.conn
              /\ Sends("open", 0) /\ app'.stream = "attaching"
              /\ app'.seen = "attaching"
              /\ app'.op = [what |-> "open", seq |-> net.seq + 1]
           \/ app.stream = "detached" /\ Idle(app') /\ net' = net
           \/ KeepsStream(app, app') /\ net' = net
    BY <1>6, StreamTimerIs DEF SInv
  <2>2. /\ app'.state = app.state /\ app'.shown = app.shown /\ app'.conn = app.conn
    BY <2>1 DEF KeepsContext
  <2>3. ~aborted'  BY <1>6, OthersKeepFlag DEF Timers
  <2> QED BY <2>1, <2>2, <2>3, SendOpenInv, StaysIdleInv, SameInv
<1>7. ASSUME NEW ok \in BOOLEAN, ReconnectTimer(ok) PROVE SInv' /\ ~aborted'
  BY <1>7, ReconnectTimerInv, OthersKeepFlag DEF Timers
<1>8. CASE HandshakeTimeout  BY <1>8, HandshakeTimeoutInv, OthersKeepFlag
<1>9. CASE StreamTimeout  BY <1>9, StreamTimeoutInv
<1>10. CASE PostedCall  BY <1>10, PostedCallInv, OthersKeepFlag
<1>11. CASE HandshakeAck  BY <1>11, HandshakeAckInv, OthersKeepFlag
<1>12. CASE Opened  BY <1>12, OpenedInv
<1>13. CASE Closed  BY <1>13, ClosedInv
<1>14. CASE LinkError  BY <1>14, LinkErrorInv, OthersKeepFlag
<1>15. CASE Server  BY <1>15, ServerInv, OthersKeepFlag
<1>16. CASE Break  BY <1>16, BreakInv, OthersKeepFlag
<1> QED BY <1>1, <1>2, <1>3, <1>4, <1>5, <1>6, <1>7, <1>8, <1>9, <1>10, <1>11,
           <1>12, <1>13, <1>14, <1>15, <1>16 DEF Next, Program, Timers, Expiry, IoThread

(* No assertion of context and stream fails (AssertionsHold) under a program    *)
(* that does not detach or close, or connect anew, while a call posted by the   *)
(* IO thread still waits to tell the stream or the context of an answer.       *)
(* Without this the assertion of iincstream.cpp:249 fails.                     *)
THEOREM IncSessionAssertions ==
  ASSUME Patient
  PROVE  Spec => []AssertionsHold
<1>1. Init => SInv /\ ~aborted  BY InitSession
<1>2. SInv /\ ~aborted /\ [Next]_vars => (SInv /\ ~aborted)'  BY SessionStep
<1>3. SInv /\ ~aborted => AssertionsHold  BY DEF AssertionsHold
<1> QED BY <1>1, <1>2, <1>3, PTL DEF Spec

(* The same program's attached stream has a channel that its connection knows   *)
(* and the server has open while the link is up (AttachedIsOpen).              *)
THEOREM IncSessionAttached ==
  ASSUME Patient
  PROVE  Spec => []AttachedIsOpen
<1>1. Init => SInv /\ ~aborted  BY InitSession
<1>2. SInv /\ ~aborted /\ [Next]_vars => (SInv /\ ~aborted)'  BY SessionStep
<1>3. SInv /\ ~aborted => AttachedIsOpen
  BY DEF SInv, Channels, Live, AttachedIsOpen
<1> QED BY <1>1, <1>2, <1>3, PTL DEF Spec
==============================================================================
