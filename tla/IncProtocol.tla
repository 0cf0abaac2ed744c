----------------------------- MODULE IncProtocol -----------------------------
(* iINCProtocol: the operations a connection tracks, its send queue, and the   *)
(* shared-memory slots its binary frames hold, as the client uses it: the      *)
(* protocol lives in the IO thread, the caller of sendMessage() in another,    *)
(* and iINCContext::doClose() stops the IO thread before it closes.            *)
(*                                                                             *)
(* A message is its sequence number.  Its kind: "note" asks for no answer (an  *)
(* odd type or the NOACK flag), "big" is refused by isValid(), "copy" is       *)
(* tracked, "shm" is tracked and holds a slot of iMemExport.  A handler of the *)
(* IO thread is one step; the caller's sendBinaryData() is two.                *)
EXTENDS Integers, Sequences

CONSTANTS Kinds,        \* the kinds of message that are sent
          GiveUps,      \* how an operation may end early: "timeout", "cancelled"
          MaxMessages,  \* bound: messages sent in a behaviour
          MaxSendQueue, \* INC_MAX_SEND_QUEUE
          BaseIdx       \* m_baseIdx: the id of the export's first slot

ASSUME KindsAssumption == Kinds \subseteq {"note", "big", "copy", "shm"}
ASSUME GiveUpsAssumption == GiveUps \subseteq {"timeout", "cancelled"}
ASSUME SizesAssumption == MaxMessages \in Nat /\ MaxSendQueue \in Nat \ {0}
ASSUME BaseIdxAssumption == BaseIdx \in Nat

VARIABLES next,     \* m_seqCounter
          by,       \* the thread that sent a message: "app" or "io"
          kind,
          st,       \* iINCOperation::m_state; "none" where there is no operation
          refs,     \* the reference count of the operation
          held,     \* the operations whose sender still has its pointer
          mail,     \* sendMessageImpl() calls posted to the IO thread
          binding,  \* the frame whose m_blockID the caller has still to store
          ops,      \* m_operations
          sendQ,    \* m_sendQueue
          wire,     \* the messages the device took, in order
          slot,     \* the slot of a frame: "none", "held", "released"
          bound,    \* the operations with m_blockID # 0
          dev       \* "connecting", "open", "closed"; "gone": protocol deleted

callerVars == <<next, by, kind>>
opVars == <<st, refs, held>>
slotVars == <<slot, bound>>
vars == <<callerVars, opVars, mail, binding, ops, sendQ, wire, slotVars, dev>>

Messages == 1..MaxMessages
None == 0
Finished == {"done", "failed", "timeout", "cancelled"}
Up == dev \in {"connecting", "open"}
Tracks(m) == kind[m] \in {"copy", "shm"}
In(m, s) == \E i \in DOMAIN s : s[i] = m

IPTypeOK ==
    /\ next \in 1 .. MaxMessages + 1
    /\ by \in [Messages -> {"none", "app", "io"}]
    /\ kind \in [Messages -> Kinds \cup {"none"}]
    /\ st \in [Messages -> {"none", "running"} \cup Finished]
    /\ refs \in [Messages -> Nat]
    /\ held \subseteq Messages /\ ops \subseteq Messages /\ bound \subseteq Messages
    /\ mail \in Seq(Messages) /\ sendQ \in Seq(Messages) /\ wire \in Seq(Messages)
    /\ binding \in Messages \cup {None}
    /\ slot \in [Messages -> {"none", "held", "released"}]
    /\ dev \in {"connecting", "open", "closed", "gone"}
    /\ Len(sendQ) <= MaxSendQueue

IPInit ==
    /\ next = 1
    /\ by = [m \in Messages |-> "none"] /\ kind = [m \in Messages |-> "none"]
    /\ st = [m \in Messages |-> "none"] /\ refs = [m \in Messages |-> 0]
    /\ held = {} /\ ops = {} /\ bound = {}
    /\ mail = <<>> /\ sendQ = <<>> /\ wire = <<>>
    /\ binding = None
    /\ slot = [m \in Messages |-> "none"]
    /\ dev = "connecting"
------------------------------------------------------------------------------
(* setResult()/setState(): only the first change of a running operation counts. *)
Ended(s, state) == IF s = "running" THEN state ELSE s

(* onReadyWrite() on queue q: the device takes messages from its front until   *)
(* the queue is empty, a write is partial, or a write fails and the message is *)
(* dropped.                                                                    *)
DrainedRequeues(q) ==       \* mutant: a message that failed goes to the back
    IF dev # "open" THEN wire' = wire /\ sendQ' = q
    ELSE \E n \in 0 .. Len(q) :
            /\ wire' = wire \o SubSeq(q, 1, n)
            /\ \/ sendQ' = SubSeq(q, n + 1, Len(q))
               \/ n < Len(q) /\ sendQ' = Append(SubSeq(q, n + 2, Len(q)), q[n + 1])

Drained(q) ==
    IF dev # "open" THEN wire' = wire /\ sendQ' = q
    ELSE \E n \in 0 .. Len(q) :
            /\ wire' = wire \o SubSeq(q, 1, n)
            /\ \/ sendQ' = SubSeq(q, n + 1, Len(q))
               \/ n < Len(q) /\ sendQ' = SubSeq(q, n + 2, Len(q))

(* sendMessageImpl() of m, from the operation states s and counts r.           *)
AcceptedUntracked(m, tracked, s, r) ==   \* mutant: the refused operation is not failed
    /\ IF Len(sendQ) >= MaxSendQueue
       THEN /\ st' = s
            /\ refs' = [r EXCEPT ![m] = IF tracked THEN @ - 1 ELSE @]
            /\ UNCHANGED <<ops, sendQ, wire>>
       ELSE /\ ops' = IF tracked THEN ops \cup {m} ELSE ops
            /\ Drained(Append(sendQ, m))
            /\ st' = s /\ refs' = r

Accepted(m, tracked, s, r) ==
    /\ IF Len(sendQ) >= MaxSendQueue
       THEN /\ st' = [s EXCEPT ![m] = Ended(@, "failed")]
            /\ refs' = [r EXCEPT ![m] = IF tracked THEN @ - 1 ELSE @]
            /\ UNCHANGED <<ops, sendQ, wire>>
       ELSE /\ ops' = IF tracked THEN ops \cup {m} ELSE ops
            /\ Drained(Append(sendQ, m))
            /\ st' = s /\ refs' = r
------------------------------------------------------------------------------
(* What nextSequence(), sendBinaryData() and sendMessage() do in the thread t  *)
(* of their caller: k is the kind of the message.                              *)
Create(t, k) ==
    /\ next \in Messages /\ Up
    /\ next' = next + 1
    /\ by' = [by EXCEPT ![next] = t]
    /\ kind' = [kind EXCEPT ![next] = k]
    /\ slot' = [slot EXCEPT ![next] = IF k = "shm" THEN "held" ELSE "none"]
    /\ held' = IF k = "note" THEN held ELSE held \cup {next}

NewState(k) ==
    [st EXCEPT ![next] = IF k = "note" THEN "none" ELSE IF k = "big" THEN "failed" ELSE "running"]
NewRefs(k) == [refs EXCEPT ![next] = IF k = "note" THEN 0 ELSE IF k = "big" THEN 1 ELSE 2]

(* m_blockID is the id of the slot, and 0 stands for none.  The first export of *)
(* a process numbers its slots from 0: the frame that gets the first of them   *)
(* passes for one without a slot, and keeps it.                                *)
IdIsZero(m) == BaseIdx = 0 /\ \A n \in Messages : n < m => slot[n] = "none"

AppSend(k) ==       \* from another thread: sendMessageImpl() is posted
    /\ binding = None
    /\ Create("app", k)
    /\ st' = NewState(k) /\ refs' = NewRefs(k)
    /\ mail' = IF k = "big" THEN mail ELSE Append(mail, next)
    /\ binding' = IF k = "shm" THEN next ELSE None
    /\ UNCHANGED <<ops, sendQ, wire, bound, dev>>

AppBind ==          \* ... and only then op->m_blockID = blockId
    /\ binding # None
    /\ bound' = IF IdIsZero(binding) THEN bound ELSE bound \cup {binding}
    /\ binding' = None
    /\ UNCHANGED <<callerVars, opVars, mail, ops, sendQ, wire, slot, dev>>

IoSend(k) ==        \* from the IO thread: sendMessageImpl() runs at once
    /\ Create("io", k)
    /\ IF k = "big" THEN /\ st' = NewState(k) /\ refs' = NewRefs(k)
                         /\ UNCHANGED <<ops, sendQ, wire>>
                    ELSE Accepted(next, k # "note", NewState(k), NewRefs(k))
    /\ bound' = IF k = "shm" /\ ~IdIsZero(next) THEN bound \cup {next} ELSE bound
    /\ UNCHANGED <<mail, binding, dev>>

SendImpl ==
    /\ mail # <<>> /\ dev # "gone"
    /\ mail' = Tail(mail)
    /\ Accepted(Head(mail), Tracks(Head(mail)), st, refs)
    /\ UNCHANGED <<callerVars, held, binding, slotVars, dev>>

Drop(m) ==          \* the sender's iSharedDataPointer goes
    /\ m \in held /\ binding # m
    /\ held' = held \ {m}
    /\ refs' = [refs EXCEPT ![m] = @ - 1]
    /\ UNCHANGED <<callerVars, st, mail, binding, ops, sendQ, wire, slotVars, dev>>

GiveUp(m, state) == \* the operation's timer, or cancel()
    /\ st[m] = "running" /\ refs[m] > 0
    /\ st' = [st EXCEPT ![m] = state]
    /\ UNCHANGED <<callerVars, refs, held, mail, binding, ops, sendQ, wire, slotVars, dev>>
------------------------------------------------------------------------------
ReadyWrite ==       \* bytesWritten() or connected() of the device
    /\ Up
    /\ dev' = "open"
    /\ IF dev = "open" THEN Drained(sendQ) ELSE UNCHANGED <<sendQ, wire>>
    /\ UNCHANGED <<callerVars, opVars, mail, binding, ops, slotVars>>

(* processRelease() of the slots of the operations of s that know their slot.  *)
Released(s) == [m \in Messages |-> IF m \in s /\ m \in bound /\ slot[m] = "held"
                                   THEN "released" ELSE slot[m]]

(* onMessageReceived(): the peer answers m.  An answer that finds no operation *)
(* changes nothing here.                                                       *)
ReplyKeepsRef(m) ==     \* mutant: erased from the map without deref()
    /\ dev = "open" /\ m \in ops /\ In(m, wire)
    /\ ops' = ops \ {m}
    /\ slot' = Released({m})
    /\ st' = [st EXCEPT ![m] = Ended(@, "done")]
    /\ UNCHANGED <<callerVars, refs, held, mail, binding, sendQ, wire, bound, dev>>

Reply(m) ==
    /\ dev = "open" /\ m \in ops /\ In(m, wire)
    /\ ops' = ops \ {m}
    /\ slot' = Released({m})
    /\ st' = [st EXCEPT ![m] = Ended(@, "done")]
    /\ refs' = [refs EXCEPT ![m] = @ - 1]
    /\ UNCHANGED <<callerVars, held, mail, binding, sendQ, wire, bound, dev>>

(* releaseOperation(), "called when operation is cancelled or timed out by the *)
(* user", who still has the operation.                                         *)
ReleaseKeepsSlot(m) ==  \* mutant: the slot stays in the export
    /\ dev # "gone" /\ m \in ops /\ m \in held
    /\ st[m] \in {"cancelled", "timeout"}
    /\ ops' = ops \ {m}
    /\ refs' = [refs EXCEPT ![m] = @ - 1]
    /\ UNCHANGED <<callerVars, st, held, mail, binding, sendQ, wire, slotVars, dev>>

ReleaseOperation(m) ==
    /\ dev # "gone" /\ m \in ops /\ m \in held
    /\ st[m] \in {"cancelled", "timeout"}
    /\ ops' = ops \ {m}
    /\ slot' = Released({m}) /\ bound' = bound \ {m}
    /\ refs' = [refs EXCEPT ![m] = @ - 1]
    /\ UNCHANGED <<callerVars, st, held, mail, binding, sendQ, wire, dev>>

(* iINCConnection::close() in the thread that called sendMessage(), once the   *)
(* IO thread has ended: cancelAllOperations(), then the device.                *)
Close ==
    /\ Up /\ binding = None
    /\ st' = [m \in Messages |-> IF m \in ops THEN Ended(st[m], "failed") ELSE st[m]]
    /\ refs' = [m \in Messages |-> IF m \in ops THEN refs[m] - 1 ELSE refs[m]]
    /\ slot' = Released(ops) /\ bound' = bound \ ops
    /\ ops' = {}
    /\ dev' = "closed"
    /\ UNCHANGED <<callerVars, held, mail, binding, sendQ, wire>>

(* The deleteLater() that follows close() was posted behind the calls of mail: *)
(* ~iINCProtocol cancels what they registered; the export frees its slots.     *)
DestroyNoCancel ==      \* mutant: ~iINCProtocol only drops the references
    /\ dev = "closed" /\ mail = <<>>
    /\ refs' = [m \in Messages |-> IF m \in ops THEN refs[m] - 1 ELSE refs[m]]
    /\ slot' = [m \in Messages |-> IF slot[m] = "held" THEN "released" ELSE slot[m]]
    /\ ops' = {}
    /\ dev' = "gone"
    /\ UNCHANGED <<callerVars, st, held, mail, binding, sendQ, wire, bound>>

Destroy ==
    /\ dev = "closed" /\ mail = <<>>
    /\ st' = [m \in Messages |-> IF m \in ops THEN Ended(st[m], "cancelled") ELSE st[m]]
    /\ refs' = [m \in Messages |-> IF m \in ops THEN refs[m] - 1 ELSE refs[m]]
    /\ slot' = [m \in Messages |-> IF slot[m] = "held" THEN "released" ELSE slot[m]]
    /\ ops' = {}
    /\ dev' = "gone"
    /\ UNCHANGED <<callerVars, held, mail, binding, sendQ, wire, bound>>

IPNext ==
    \/ \E k \in Kinds : AppSend(k) \/ IoSend(k)
    \/ AppBind \/ SendImpl \/ ReadyWrite \/ Close \/ Destroy
    \/ \E m \in Messages : Drop(m) \/ Reply(m) \/ ReleaseOperation(m)
    \/ \E m \in Messages, state \in GiveUps : GiveUp(m, state)

(* The caller finishes its call, the event loop runs what is posted to it.     *)
IPFairness == WF_vars(AppBind) /\ WF_vars(SendImpl \/ Destroy)

IPSafe == IPInit /\ [][IPNext]_vars
IPSpec == IPSafe /\ IPFairness
------------------------------------------------------------------------------
(* An operation's references are those of its sender, of the posted call that  *)
(* carries it and of m_operations: it is neither freed early nor leaked.       *)
One(p) == IF p THEN 1 ELSE 0
RefsExact ==
    \A m \in Messages :
        refs[m] = One(m \in held) + One(Tracks(m) /\ In(m, mail)) + One(m \in ops)

(* An operation that is still running can be reached by an answer, by close()  *)
(* or by the destructor: nobody waits for what nobody will complete.           *)
RunningIsReachable ==
    \A m \in Messages : st[m] = "running" => In(m, mail) \/ m \in ops

(* The messages of one thread reach the wire in the order they were sent,      *)
(* through the posted calls, the queue and its failures.                       *)
SendOrder ==
    LET line == wire \o sendQ \o mail IN
    \A i, j \in DOMAIN line : i < j /\ by[line[i]] = by[line[j]] => line[i] < line[j]

(* A frame sent from the IO thread and not refused gives its slot back: it is  *)
(* held only while the operation is tracked, unless it is the one with id 0.   *)
SlotFreed ==
    \A m \in Messages :
        by[m] = "io" /\ slot[m] = "held" /\ ~IdIsZero(m) => m \in ops \/ st[m] = "failed"

(* Once the connection closes, every operation ends and its callback runs:     *)
(* "so callers are not left waiting forever".                                  *)
CallersAnswered == (dev = "closed") ~> (\A m \in Messages : st[m] # "running")

(* iincprotocol.cpp:335 "Special handling for BINARY_DATA_ACK: release shared  *)
(* memory slot": once the answer to a frame was taken and its sender's call    *)
(* has returned, the slot is released.                                         *)
AckReleasesSlot ==
    \A m \in Messages :
        kind[m] = "shm" /\ st[m] = "done" /\ binding # m => slot[m] = "released"
==============================================================================
