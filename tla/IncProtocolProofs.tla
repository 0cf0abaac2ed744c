-------------------------- MODULE IncProtocolProofs --------------------------
(* Proofs about iINCProtocol for every number of messages and every queue      *)
(* limit: references, reachability of running operations, answers, the order   *)
(* of sending, and the slots that are given back.                              *)
EXTENDS IncProtocol, SequenceTheorems, TLAPS

(* A number that was not given out yet belongs to nothing. *)
Fresh ==
    \A m \in Messages : m >= next =>
        st[m] = "none" /\ refs[m] = 0 /\ m \notin held /\ m \notin ops /\ ~In(m, mail)

(* A message is posted at most once, and registered only when it is taken.     *)
MailOnce ==
    /\ \A i, j \in DOMAIN mail : i < j => mail[i] # mail[j]
    /\ \A m \in Messages : In(m, mail) => m \notin ops

(* Only an operation has a state other than "none". *)
RunningTracks == \A m \in Messages : st[m] = "running" => Tracks(m)
OpsTrack == \A m \in ops : Tracks(m)

IPIInv == /\ IPTypeOK /\ Fresh /\ MailOnce /\ RunningTracks /\ OpsTrack
          /\ RefsExact /\ RunningIsReachable

(* Appending one message adds that message; taking the head of a sequence      *)
(* without repetitions removes it.                                             *)
LEMMA AppendAdds ==
  ASSUME NEW S, NEW s \in Seq(S), NEW x \in S
  PROVE  /\ Append(s, x) \in Seq(S)
         /\ Len(Append(s, x)) = Len(s) + 1
         /\ \A m : In(m, Append(s, x)) <=> In(m, s) \/ m = x
<1>1. Append(s, x) \in Seq(S) /\ Len(Append(s, x)) = Len(s) + 1  OBVIOUS
<1>2. DOMAIN s = 1..Len(s) /\ DOMAIN Append(s, x) = 1..Len(s)+1  OBVIOUS
<1>3. \A i \in 1..Len(s) : Append(s, x)[i] = s[i]  OBVIOUS
<1>4. Append(s, x)[Len(s)+1] = x  OBVIOUS
<1>5. Len(s) \in Nat  OBVIOUS
<1>6. ASSUME NEW m, In(m, Append(s, x)) PROVE In(m, s) \/ m = x
  BY <1>2, <1>3, <1>4, <1>5, <1>6 DEF In
<1>7. ASSUME NEW m, In(m, s) \/ m = x PROVE In(m, Append(s, x))
  BY <1>2, <1>3, <1>4, <1>5, <1>7 DEF In
<1> QED BY <1>1, <1>6, <1>7

LEMMA TailTakes ==
  ASSUME NEW S, NEW s \in Seq(S), s # <<>>,
         \A i, j \in DOMAIN s : i < j => s[i] # s[j]
  PROVE  /\ Head(s) \in S /\ In(Head(s), s)
         /\ Tail(s) \in Seq(S)
         /\ \A i, j \in DOMAIN Tail(s) : i < j => Tail(s)[i] # Tail(s)[j]
         /\ \A m : In(m, Tail(s)) <=> In(m, s) /\ m # Head(s)
<1>1. Head(s) \in S /\ Tail(s) \in Seq(S) /\ Len(Tail(s)) = Len(s) - 1
  BY HeadTailProperties
<1>2. Len(s) \in Nat \ {0} /\ DOMAIN s = 1..Len(s) /\ DOMAIN Tail(s) = 1..Len(s)-1
  BY <1>1, EmptySeq, LenProperties
<1>3. \A i \in 1..Len(s)-1 : Tail(s)[i] = s[i+1]  BY <1>1, HeadTailProperties
<1>4. Head(s) = s[1]  OBVIOUS
<1>5. In(Head(s), s)  BY <1>2, <1>4 DEF In
<1>6. \A i, j \in DOMAIN Tail(s) : i < j => Tail(s)[i] # Tail(s)[j]
  BY <1>2, <1>3
<1>7. ASSUME NEW m, In(m, Tail(s)) PROVE In(m, s) /\ m # Head(s)
  <2>1. PICK i \in 1..Len(s)-1 : Tail(s)[i] = m  BY <1>2, <1>7 DEF In
  <2>2. s[i+1] = m /\ i+1 \in 1..Len(s) /\ 1 < i+1 /\ 1 \in 1..Len(s)
    BY <2>1, <1>2, <1>3
  <2> QED BY <2>2, <1>2, <1>4 DEF In
<1>8. ASSUME NEW m, In(m, s), m # Head(s) PROVE In(m, Tail(s))
  <2>1. PICK i \in 1..Len(s) : s[i] = m  BY <1>2, <1>8 DEF In
  <2>2. i # 1  BY <2>1, <1>4, <1>8
  <2>3. i-1 \in 1..Len(s)-1 /\ Tail(s)[i-1] = s[i]  BY <2>1, <2>2, <1>2, <1>3
  <2> QED BY <2>1, <2>3, <1>2 DEF In
<1> QED BY <1>1, <1>5, <1>6, <1>7, <1>8

(* onReadyWrite() keeps the queue within its limit and only adds to the wire.  *)
LEMMA DrainedFacts ==
  ASSUME NEW q \in Seq(Messages), Len(q) <= MaxSendQueue, wire \in Seq(Messages), Drained(q)
  PROVE  /\ wire' \in Seq(Messages)
         /\ sendQ' \in Seq(Messages) /\ Len(sendQ') <= MaxSendQueue
         /\ \A m : In(m, wire) => In(m, wire')
<1>1. CASE dev # "open"  BY <1>1 DEF Drained
<1>2. CASE dev = "open"
  <2>1. PICK n \in 0 .. Len(q) :
            /\ wire' = wire \o SubSeq(q, 1, n)
            /\ \/ sendQ' = SubSeq(q, n + 1, Len(q))
               \/ n < Len(q) /\ sendQ' = SubSeq(q, n + 2, Len(q))
    BY <1>2 DEF Drained
  <2>2. Len(q) \in Nat /\ n \in Nat /\ \A i \in 1..Len(q) : q[i] \in Messages
    BY LenProperties, ElementOfSeq
  <2>3. SubSeq(q, 1, n) \in Seq(Messages)  BY <2>2, SubSeqProperties
  <2>4. /\ SubSeq(q, n+1, Len(q)) \in Seq(Messages)
        /\ Len(SubSeq(q, n+1, Len(q))) <= Len(q)
    BY <2>2, SubSeqProperties
  <2>5. /\ SubSeq(q, n+2, Len(q)) \in Seq(Messages)
        /\ Len(SubSeq(q, n+2, Len(q))) <= Len(q)
    BY <2>2, SubSeqProperties
  <2>6. wire' \in Seq(Messages) /\ Len(wire') = Len(wire) + Len(SubSeq(q, 1, n))
    BY <2>1, <2>3, ConcatProperties
  <2>7. \A i \in 1 .. Len(wire) : wire'[i] = wire[i]
    BY <2>1, <2>3, ConcatProperties, LenProperties
  <2>8. /\ DOMAIN wire = 1..Len(wire) /\ DOMAIN wire' = 1..Len(wire')
        /\ Len(wire) \in Nat /\ Len(SubSeq(q, 1, n)) \in Nat
    BY <2>3, <2>6, LenProperties
  <2>9. \A m : In(m, wire) => In(m, wire')
    BY <2>6, <2>7, <2>8 DEF In
  <2>10. sendQ' \in Seq(Messages) /\ Len(sendQ') <= MaxSendQueue
    <3>1. Len(sendQ') \in Nat /\ sendQ' \in Seq(Messages) /\ Len(sendQ') <= Len(q)
      BY <2>1, <2>4, <2>5, LenProperties
    <3> QED BY <3>1, <2>2, SizesAssumption
  <2> QED BY <2>6, <2>9, <2>10
<1> QED BY <1>1, <1>2

(* sendMessageImpl() either refuses the message or registers and queues it.    *)
LEMMA AcceptedFacts ==
  ASSUME IPTypeOK, NEW m \in Messages, NEW tracked, NEW s, NEW r, Accepted(m, tracked, s, r)
  PROVE  /\ wire' \in Seq(Messages)
         /\ sendQ' \in Seq(Messages) /\ Len(sendQ') <= MaxSendQueue
         /\ \A x : In(x, wire) => In(x, wire')
         /\ \/ /\ ops' = ops
               /\ st' = [s EXCEPT ![m] = Ended(@, "failed")]
               /\ refs' = [r EXCEPT ![m] = IF tracked THEN @ - 1 ELSE @]
            \/ /\ ops' = IF tracked THEN ops \cup {m} ELSE ops
               /\ st' = s /\ refs' = r
<1> USE DEF IPTypeOK
<1>1. CASE Len(sendQ) >= MaxSendQueue
  <2>1. wire' = wire /\ sendQ' = sendQ  BY <1>1 DEF Accepted
  <2> QED BY <1>1, <2>1 DEF Accepted
<1>2. CASE ~(Len(sendQ) >= MaxSendQueue)
  <2>1. /\ Append(sendQ, m) \in Seq(Messages)
        /\ Len(Append(sendQ, m)) = Len(sendQ) + 1
    BY AppendAdds
  <2>2. Len(sendQ) + 1 <= MaxSendQueue  BY <1>2, SizesAssumption, LenProperties
  <2>3. Drained(Append(sendQ, m))  BY <1>2 DEF Accepted
  <2>4. /\ wire' \in Seq(Messages)
        /\ sendQ' \in Seq(Messages) /\ Len(sendQ') <= MaxSendQueue
        /\ \A x : In(x, wire) => In(x, wire')
    BY <2>1, <2>2, <2>3, DrainedFacts
  <2> QED BY <1>2, <2>4 DEF Accepted
<1> QED BY <1>1, <1>2

LEMMA InitIInv == IPInit => IPIInv
<1> SUFFICES ASSUME IPInit PROVE IPIInv  OBVIOUS
<1>1. \A m : ~In(m, mail) /\ ~In(m, wire)  BY DEF IPInit, In
<1>2. IPTypeOK
  <2>1. 1 \in 1 .. MaxMessages + 1 /\ 0 <= MaxSendQueue  BY SizesAssumption
  <2> QED BY <2>1, EmptySeq DEF IPInit, IPTypeOK, None
<1>3. Fresh /\ MailOnce /\ RunningTracks /\ OpsTrack
  BY <1>1 DEF IPInit, Fresh, MailOnce, RunningTracks, OpsTrack
<1>4. RefsExact
  BY <1>1 DEF IPInit, RefsExact, One
<1>5. RunningIsReachable  BY DEF IPInit, RunningIsReachable
<1> QED BY <1>2, <1>3, <1>4, <1>5 DEF IPIInv

(* A message sent from another thread. *)
LEMMA StepAppSend ==
  ASSUME IPIInv, NEW k \in Kinds, AppSend(k)
  PROVE  IPIInv'
<1> USE DEF IPIInv, Messages
<1>0. next \in Messages /\ next + 1 \in 1 .. MaxMessages + 1 /\ dev' = dev
      /\ k \in {"note", "big", "copy", "shm"}
  BY KindsAssumption, SizesAssumption DEF AppSend, Create
<1>1. /\ \/ k = "big" /\ mail' = mail
         \/ k # "big" /\ mail' = Append(mail, next)
      /\ ops' = ops /\ sendQ' = sendQ /\ wire' = wire /\ bound' = bound
  BY DEF AppSend
<1>2. mail' \in Seq(Messages) /\ \A m : In(m, mail') <=> In(m, mail) \/ (m = next /\ k # "big")
  <2>1. CASE k = "big"  BY <1>1, <2>1 DEF IPTypeOK
  <2>2. CASE k # "big"
    <3>1. mail' = Append(mail, next) /\ mail \in Seq(Messages)
      BY <1>1, <2>2 DEF IPTypeOK
    <3>2. Append(mail, next) \in Seq(Messages)
          /\ \A m : In(m, Append(mail, next)) <=> In(m, mail) \/ m = next
      BY <1>0, <3>1, AppendAdds
    <3> QED BY <2>2, <3>1, <3>2
  <2> QED BY <2>1, <2>2
<1>3. /\ next' = next + 1
      /\ by' = [by EXCEPT ![next] = "app"] /\ kind' = [kind EXCEPT ![next] = k]
      /\ slot' = [slot EXCEPT ![next] = IF k = "shm" THEN "held" ELSE "none"]
      /\ held' = IF k = "note" THEN held ELSE held \cup {next}
      /\ binding' = IF k = "shm" THEN next ELSE None
  BY DEF AppSend, Create
<1>4. /\ st' = [st EXCEPT ![next] = IF k = "note" THEN "none"
                                      ELSE IF k = "big" THEN "failed" ELSE "running"]
      /\ refs' = [refs EXCEPT ![next] = IF k = "note" THEN 0 ELSE IF k = "big" THEN 1 ELSE 2]
  BY DEF AppSend, NewState, NewRefs
<1>5. st[next] = "none" /\ next \notin held /\ next \notin ops /\ ~In(next, mail)
  BY <1>0 DEF Fresh, IPTypeOK
<1>6. IPTypeOK'
  BY <1>0, <1>1, <1>2, <1>3, <1>4 DEF IPTypeOK, Finished
<1>7. Fresh'
  BY <1>0, <1>1, <1>2, <1>3, <1>4 DEF IPTypeOK, Fresh
<1>8. MailOnce'
  <2>1. \A i, j \in DOMAIN mail' : i < j => mail'[i] # mail'[j]
    <3>1. CASE k = "big"  BY <1>1, <3>1 DEF MailOnce
    <3>2. CASE k # "big"
      <4>1. mail' = Append(mail, next) /\ mail \in Seq(Messages)
        BY <1>1, <3>2 DEF IPTypeOK
      <4>2. DOMAIN mail = 1..Len(mail) /\ DOMAIN mail' = 1..Len(mail)+1 /\ Len(mail) \in Nat
        BY <4>1, <1>0
      <4>3. \A i \in 1..Len(mail) : mail'[i] = mail[i] /\ mail[i] # next
        BY <4>1, <4>2, <1>5 DEF In
      <4>4. mail'[Len(mail)+1] = next  BY <4>1
      <4> QED BY <4>2, <4>3, <4>4 DEF MailOnce
    <3> QED BY <3>1, <3>2
  <2> QED BY <2>1, <1>1, <1>2, <1>5 DEF MailOnce
<1>9. RunningTracks' /\ OpsTrack'
  BY <1>0, <1>1, <1>3, <1>4, <1>5 DEF RunningTracks, OpsTrack, Tracks, IPTypeOK
<1>10. RefsExact'
  <2> SUFFICES ASSUME NEW m \in Messages
               PROVE refs'[m] = One(m \in held') + One(Tracks(m)' /\ In(m, mail')) + One(m \in ops')
    BY DEF RefsExact
  <2>1. CASE m = next
    BY <2>1, <1>0, <1>1, <1>2, <1>3, <1>4, <1>5 DEF One, Tracks, IPTypeOK
  <2>2. CASE m # next
    <3>1. /\ refs'[m] = refs[m] /\ (m \in held' <=> m \in held)
          /\ (Tracks(m)' <=> Tracks(m)) /\ (In(m, mail') <=> In(m, mail))
      BY <2>2, <1>0, <1>2, <1>3, <1>4 DEF Tracks, IPTypeOK
    <3> QED BY <3>1, <1>1 DEF RefsExact, One
  <2> QED BY <2>1, <2>2
<1>11. RunningIsReachable'
  BY <1>0, <1>1, <1>2, <1>4 DEF RunningIsReachable, IPTypeOK
<1> QED BY <1>6, <1>7, <1>8, <1>9, <1>10, <1>11

(* A posted sendMessageImpl(): the message leaves the mail and, when it is not *)
(* refused, its reference passes to m_operations.                              *)
LEMMA StepSendImpl ==
  ASSUME IPIInv, SendImpl
  PROVE  IPIInv'
<1> USE DEF IPIInv
<1> DEFINE m == Head(mail)
<1>1. mail \in Seq(Messages) /\ mail # <<>> /\ mail' = Tail(mail)
  BY DEF SendImpl, IPTypeOK
<1>2. /\ m \in Messages /\ In(m, mail) /\ mail' \in Seq(Messages)
      /\ \A i, j \in DOMAIN mail' : i < j => mail'[i] # mail'[j]
      /\ \A x : In(x, mail') <=> In(x, mail) /\ x # m
  BY <1>1, TailTakes DEF MailOnce
<1>3. /\ wire' \in Seq(Messages)
      /\ sendQ' \in Seq(Messages) /\ Len(sendQ') <= MaxSendQueue
      /\ \A x : In(x, wire) => In(x, wire')
      /\ \/ /\ ops' = ops
            /\ st' = [st EXCEPT ![m] = Ended(@, "failed")]
            /\ refs' = [refs EXCEPT ![m] = IF Tracks(m) THEN @ - 1 ELSE @]
         \/ /\ ops' = IF Tracks(m) THEN ops \cup {m} ELSE ops
            /\ st' = st /\ refs' = refs
  <2>1. Accepted(m, Tracks(m), st, refs)  BY DEF SendImpl
  <2> QED BY <1>2, <2>1, AcceptedFacts
<1>4. UNCHANGED <<next, by, kind, held, binding, slot, bound, dev>>
  BY DEF SendImpl, callerVars, slotVars
<1>5. m \notin ops /\ m < next /\ next \in 1..MaxMessages+1
  BY <1>2, SizesAssumption DEF MailOnce, Fresh, IPTypeOK, Messages
<1>6. \A x : Tracks(x)' <=> Tracks(x)  BY <1>4 DEF Tracks
<1>7. refs[m] \in Nat /\ (Tracks(m) => refs[m] - 1 \in Nat)
  <2>1. refs[m] = One(m \in held) + One(Tracks(m) /\ In(m, mail)) + One(m \in ops)
    BY <1>2 DEF RefsExact
  <2> QED BY <2>1, <1>2 DEF One, IPTypeOK
<1> HIDE DEF m
<1>8. IPTypeOK'
  <2>1. st' \in [Messages -> {"none", "running"} \cup Finished]
    <3>1. "failed" \in {"none", "running"} \cup Finished  BY DEF Finished
    <3>2. Ended(st[m], "failed") \in {"none", "running"} \cup Finished
      BY <1>2, <3>1 DEF IPTypeOK, Ended
    <3> QED BY <1>2, <1>3, <3>2 DEF IPTypeOK
  <2>2. refs' \in [Messages -> Nat]  BY <1>2, <1>3, <1>7 DEF IPTypeOK
  <2>3. ops' \subseteq Messages  BY <1>2, <1>3 DEF IPTypeOK
  <2> QED BY <2>1, <2>2, <2>3, <1>2, <1>3, <1>4 DEF IPTypeOK
<1>9. Fresh'
  <2> SUFFICES ASSUME NEW x \in Messages, x >= next
               PROVE /\ st'[x] = "none" /\ refs'[x] = 0 /\ x \notin held
                     /\ x \notin ops' /\ ~In(x, mail')
    BY <1>4 DEF Fresh
  <2>1. x # m  BY <1>5, <1>2 DEF Messages
  <2>2. st[x] = "none" /\ refs[x] = 0 /\ x \notin held /\ x \notin ops /\ ~In(x, mail)
    BY DEF Fresh
  <2> QED BY <2>1, <2>2, <1>2, <1>3 DEF IPTypeOK
<1>10. MailOnce'
  BY <1>2, <1>3 DEF MailOnce
<1>11. RunningTracks' /\ OpsTrack'
  BY <1>2, <1>3, <1>6 DEF RunningTracks, OpsTrack, Ended, IPTypeOK
<1>12. RefsExact'
  <2> SUFFICES ASSUME NEW x \in Messages
               PROVE refs'[x] = One(x \in held') + One(Tracks(x)' /\ In(x, mail')) + One(x \in ops')
    BY DEF RefsExact
  <2>1. refs[x] = One(x \in held) + One(Tracks(x) /\ In(x, mail)) + One(x \in ops)
    BY DEF RefsExact
  <2>2. CASE x = m
    BY <2>1, <2>2, <1>2, <1>3, <1>4, <1>5, <1>6, <1>7 DEF One, IPTypeOK
  <2>3. CASE x # m
    BY <2>1, <2>3, <1>2, <1>3, <1>4, <1>6 DEF One, IPTypeOK
  <2> QED BY <2>2, <2>3
<1>13. RunningIsReachable'
  BY <1>2, <1>3 DEF RunningIsReachable, RunningTracks, Ended, IPTypeOK
<1> QED BY <1>8, <1>9, <1>10, <1>11, <1>12, <1>13

(* A message sent from the IO thread itself: created and taken in one step.    *)
LEMMA StepIoSend ==
  ASSUME IPIInv, NEW k \in Kinds, IoSend(k)
  PROVE  IPIInv'
<1> USE DEF IPIInv
<1> DEFINE s == NewState(k)
           r == NewRefs(k)
<1>0. /\ next \in Messages /\ next + 1 \in 1 .. MaxMessages + 1
      /\ k \in {"note", "big", "copy", "shm"}
  BY KindsAssumption, SizesAssumption DEF IoSend, Create, Messages
<1>1. /\ next' = next + 1
      /\ by' = [by EXCEPT ![next] = "io"] /\ kind' = [kind EXCEPT ![next] = k]
      /\ slot' = [slot EXCEPT ![next] = IF k = "shm" THEN "held" ELSE "none"]
      /\ held' = IF k = "note" THEN held ELSE held \cup {next}
      /\ bound' = IF k = "shm" /\ ~IdIsZero(next) THEN bound \cup {next} ELSE bound
      /\ mail' = mail /\ binding' = binding /\ dev' = dev
  BY DEF IoSend, Create
<1>2. st[next] = "none" /\ next \notin held /\ next \notin ops /\ ~In(next, mail)
  BY <1>0 DEF Fresh, IPTypeOK, Messages
<1>3. /\ s \in [Messages -> {"none", "running", "failed"} \cup Finished]
      /\ s[next] = IF k = "note" THEN "none" ELSE IF k = "big" THEN "failed" ELSE "running"
      /\ \A m \in Messages : m # next => s[m] = st[m]
      /\ r \in [Messages -> Nat]
      /\ r[next] = IF k = "note" THEN 0 ELSE IF k = "big" THEN 1 ELSE 2
      /\ \A m \in Messages : m # next => r[m] = refs[m]
  BY <1>0 DEF NewState, NewRefs, IPTypeOK
<1>4. /\ wire' \in Seq(Messages)
      /\ sendQ' \in Seq(Messages) /\ Len(sendQ') <= MaxSendQueue
      /\ \A x : In(x, wire) => In(x, wire')
      /\ \/ /\ ops' = ops
            /\ st' = [s EXCEPT ![next] = IF k = "big" THEN @ ELSE Ended(@, "failed")]
            /\ refs' = [r EXCEPT ![next] = IF k \in {"copy", "shm"} THEN @ - 1 ELSE @]
         \/ /\ ops' = IF k \in {"copy", "shm"} THEN ops \cup {next} ELSE ops
            /\ st' = s /\ refs' = r
            /\ k # "big"
  <2>1. CASE k = "big"
    <3>1. UNCHANGED <<ops, sendQ, wire>> /\ st' = s /\ refs' = r  BY <2>1 DEF IoSend
    <3>2. s = [s EXCEPT ![next] = s[next]] /\ r = [r EXCEPT ![next] = r[next]]
      BY <1>3
    <3> HIDE DEF s, r
    <3>3. st' = [s EXCEPT ![next] = IF k = "big" THEN @ ELSE Ended(@, "failed")]
      BY <2>1, <3>1, <3>2
    <3>4. k \notin {"copy", "shm"}  BY <2>1
    <3>5. refs' = [r EXCEPT ![next] = IF k \in {"copy", "shm"} THEN @ - 1 ELSE @]
      BY <3>1, <3>2, <3>4
    <3>6. wire' = wire /\ sendQ' = sendQ /\ ops' = ops  BY <3>1
    <3>7. wire' \in Seq(Messages) /\ sendQ' \in Seq(Messages) /\ Len(sendQ') <= MaxSendQueue
      BY <3>6 DEF IPTypeOK
    <3>8. \A x : In(x, wire) => In(x, wire')  BY <3>6
    <3> QED BY <3>3, <3>5, <3>6, <3>7, <3>8
  <2>2. CASE k # "big"
    <3> DEFINE asks == k # "note"
    <3>1. Accepted(next, asks, s, r)  BY <2>2 DEF IoSend
    <3>2. asks <=> k \in {"copy", "shm"}  BY <2>2, <1>0
    <3> HIDE DEF s, r, asks
    <3>3. /\ wire' \in Seq(Messages)
          /\ sendQ' \in Seq(Messages) /\ Len(sendQ') <= MaxSendQueue
          /\ \A x : In(x, wire) => In(x, wire')
          /\ \/ /\ ops' = ops
                /\ st' = [s EXCEPT ![next] = Ended(@, "failed")]
                /\ refs' = [r EXCEPT ![next] = IF asks THEN @ - 1 ELSE @]
             \/ /\ ops' = IF asks THEN ops \cup {next} ELSE ops
                /\ st' = s /\ refs' = r
      BY <1>0, <3>1, AcceptedFacts
    <3> QED BY <2>2, <3>2, <3>3
  <2> QED BY <2>1, <2>2
<1> HIDE DEF s, r
<1>5. /\ \A m \in Messages : m # next =>
            st'[m] = st[m] /\ refs'[m] = refs[m] /\ (m \in ops' <=> m \in ops)
      /\ ops' \subseteq ops \cup {next}
  BY <1>3, <1>4 DEF IPTypeOK
<1>6. \/ /\ next \notin ops' /\ st'[next] # "running"
         /\ refs'[next] = IF k = "note" THEN 0 ELSE 1
      \/ /\ next \in ops' /\ k \in {"copy", "shm"} /\ st'[next] = "running"
         /\ refs'[next] = 2
  BY <1>0, <1>2, <1>3, <1>4 DEF Ended
<1>7. IPTypeOK'
  <2>1. st' \in [Messages -> {"none", "running"} \cup Finished]
    <3>1. {"none", "running", "failed"} \cup Finished = {"none", "running"} \cup Finished
      BY DEF Finished
    <3> QED BY <3>1, <1>0, <1>3, <1>4 DEF Ended
  <2>2. refs' \in [Messages -> Nat]  BY <1>0, <1>3, <1>4
  <2>3. ops' \subseteq Messages /\ held' \subseteq Messages /\ bound' \subseteq Messages
    BY <1>0, <1>1, <1>5 DEF IPTypeOK
  <2>4. /\ by' \in [Messages -> {"none", "app", "io"}]
        /\ kind' \in [Messages -> Kinds \cup {"none"}]
        /\ slot' \in [Messages -> {"none", "held", "released"}]
    BY <1>1 DEF IPTypeOK
  <2> QED BY <2>1, <2>2, <2>3, <2>4, <1>0, <1>1, <1>4 DEF IPTypeOK
<1>8. Fresh'
  <2> SUFFICES ASSUME NEW x \in Messages, x >= next + 1
               PROVE /\ st'[x] = "none" /\ refs'[x] = 0 /\ x \notin held'
                     /\ x \notin ops' /\ ~In(x, mail)
    BY <1>1 DEF Fresh
  <2>1. x # next /\ x >= next  BY <1>0 DEF Messages
  <2>2. st[x] = "none" /\ refs[x] = 0 /\ x \notin held /\ x \notin ops /\ ~In(x, mail)
    BY <2>1 DEF Fresh
  <2> QED BY <2>1, <2>2, <1>1, <1>5
<1>9. MailOnce'
  BY <1>1, <1>2, <1>5 DEF MailOnce
<1>10. \A m \in Messages : m # next => (Tracks(m)' <=> Tracks(m))
  BY <1>1 DEF Tracks, IPTypeOK
<1>12. kind'[next] = k  BY <1>0, <1>1 DEF IPTypeOK
<1>13. RunningTracks'
  <2> SUFFICES ASSUME NEW m \in Messages, st'[m] = "running"
               PROVE  kind'[m] \in {"copy", "shm"}
    BY DEF RunningTracks, Tracks
  <2>1. CASE m = next  BY <2>1, <1>6, <1>12
  <2>2. CASE m # next  BY <2>2, <1>5, <1>10 DEF RunningTracks, Tracks
  <2> QED BY <2>1, <2>2
<1>14. OpsTrack'
  <2> SUFFICES ASSUME NEW m \in ops' PROVE kind'[m] \in {"copy", "shm"}
    BY DEF OpsTrack, Tracks
  <2>1. CASE m = next  BY <2>1, <1>6, <1>12
  <2>2. CASE m # next  BY <2>2, <1>5, <1>10 DEF OpsTrack, Tracks, IPTypeOK
  <2> QED BY <2>1, <2>2
<1>15. RefsExact'
  <2> SUFFICES ASSUME NEW m \in Messages
               PROVE refs'[m] = One(m \in held') + One(Tracks(m)' /\ In(m, mail')) + One(m \in ops')
    BY DEF RefsExact
  <2>1. CASE m = next
    <3>1. ~In(m, mail') /\ (m \in held' <=> k # "note")  BY <2>1, <1>1, <1>2
    <3> QED BY <2>1, <3>1, <1>6 DEF One
  <2>2. CASE m # next
    <3>1. refs[m] = One(m \in held) + One(Tracks(m) /\ In(m, mail)) + One(m \in ops)
      BY DEF RefsExact
    <3>2. (m \in held' <=> m \in held) /\ mail' = mail  BY <2>2, <1>1
    <3> QED BY <2>2, <3>1, <3>2, <1>5, <1>10 DEF One
  <2> QED BY <2>1, <2>2
<1>16. RunningIsReachable'
  BY <1>1, <1>5, <1>6 DEF RunningIsReachable
<1> QED BY <1>7, <1>8, <1>9, <1>13, <1>14, <1>15, <1>16

(* Operations leave m_operations in a set c, ended by that if they still ran:  *)
(* an answer, releaseOperation(), close() and the destructor.                  *)
LEMMA StepLeave ==
  ASSUME IPIInv, NEW c \in SUBSET ops,
         UNCHANGED <<callerVars, held, mail, binding>>,
         ops' = ops \ c,
         refs' = [m \in Messages |-> IF m \in c THEN refs[m] - 1 ELSE refs[m]],
         st' \in [Messages -> {"none", "running"} \cup Finished],
         \A m \in Messages : st'[m] # st[m] => st[m] = "running" /\ st'[m] \in Finished,
         \A m \in c : st'[m] # "running",
         sendQ' \in Seq(Messages), wire' \in Seq(Messages), Len(sendQ') <= MaxSendQueue,
         slot' \in [Messages -> {"none", "held", "released"}], bound' \subseteq Messages,
         dev' \in {"connecting", "open", "closed", "gone"}
  PROVE  IPIInv'
<1> USE DEF IPIInv
<1>1. UNCHANGED <<next, by, kind, held, mail, binding>>  BY DEF callerVars
<1>2. \A m : Tracks(m)' <=> Tracks(m)  BY <1>1 DEF Tracks
<1>3. \A m \in c : m \in Messages /\ refs[m] - 1 \in Nat
  <2> SUFFICES ASSUME NEW m \in c PROVE m \in Messages /\ refs[m] - 1 \in Nat  OBVIOUS
  <2>1. m \in Messages /\ m \in ops  BY DEF IPTypeOK
  <2>2. refs[m] = One(m \in held) + One(Tracks(m) /\ In(m, mail)) + 1
    BY <2>1 DEF RefsExact, One
  <2> QED BY <2>1, <2>2 DEF One
<1>4. IPTypeOK'
  <2>1. refs' \in [Messages -> Nat]  BY <1>3 DEF IPTypeOK
  <2> QED BY <2>1, <1>1 DEF IPTypeOK
<1>5. Fresh'
  <2> SUFFICES ASSUME NEW m \in Messages, m >= next
               PROVE /\ st'[m] = "none" /\ refs'[m] = 0 /\ m \notin held
                     /\ m \notin ops' /\ ~In(m, mail)
    BY <1>1 DEF Fresh
  <2>1. st[m] = "none" /\ refs[m] = 0 /\ m \notin held /\ m \notin ops /\ ~In(m, mail)
    BY DEF Fresh
  <2> QED BY <2>1
<1>6. MailOnce'  BY <1>1 DEF MailOnce
<1>7. RunningTracks'  BY <1>2 DEF RunningTracks, Finished
<1>8. OpsTrack'  BY <1>2 DEF OpsTrack
<1>9. RefsExact'
  <2> SUFFICES ASSUME NEW m \in Messages
               PROVE refs'[m] = One(m \in held) + One(Tracks(m) /\ In(m, mail)) + One(m \in ops')
    BY <1>1, <1>2 DEF RefsExact
  <2>1. refs[m] = One(m \in held) + One(Tracks(m) /\ In(m, mail)) + One(m \in ops)
    BY DEF RefsExact
  <2>2. refs[m] \in Int  BY DEF IPTypeOK
  <2>3. CASE m \in c  BY <2>1, <2>2, <2>3, <1>3 DEF One
  <2>4. CASE m \notin c  BY <2>1, <2>4 DEF One
  <2> QED BY <2>3, <2>4
<1>10. RunningIsReachable'
  <2> SUFFICES ASSUME NEW m \in Messages, st'[m] = "running"
               PROVE  In(m, mail) \/ m \in ops'
    BY <1>1 DEF RunningIsReachable
  <2>1. m \notin c  OBVIOUS
  <2>2. st[m] = "running"  BY DEF Finished
  <2> QED BY <2>1, <2>2 DEF RunningIsReachable
<1> QED BY <1>4, <1>5, <1>6, <1>7, <1>8, <1>9, <1>10

LEMMA EndedTypes ==
  ASSUME NEW s, s \in {"none", "running"} \cup Finished, NEW f \in Finished
  PROVE  /\ Ended(s, f) \in {"none", "running"} \cup Finished
         /\ Ended(s, f) # "running"
         /\ Ended(s, f) # s => s = "running" /\ Ended(s, f) = f
BY DEF Ended, Finished

LEMMA StepReply ==
  ASSUME IPIInv, NEW m \in Messages, Reply(m) \/ ReleaseOperation(m)
  PROVE  IPIInv'
<1> USE DEF IPIInv
<1>1. m \in ops /\ ops' = ops \ {m} /\ {m} \in SUBSET ops
  BY DEF Reply, ReleaseOperation
<1>2. refs' = [x \in Messages |-> IF x \in {m} THEN refs[x] - 1 ELSE refs[x]]
  BY DEF Reply, ReleaseOperation, IPTypeOK
<1>3. UNCHANGED <<callerVars, held, mail, binding, sendQ, wire, dev>>
  BY DEF Reply, ReleaseOperation
<1>4. slot' \in [Messages -> {"none", "held", "released"}] /\ bound' \subseteq Messages
  BY DEF Reply, ReleaseOperation, Released, IPTypeOK
<1>5. /\ st' \in [Messages -> {"none", "running"} \cup Finished]
      /\ \A x \in Messages : st'[x] # st[x] => st[x] = "running" /\ st'[x] \in Finished
      /\ st'[m] # "running"
  <2>1. CASE Reply(m)
    <3>1. st' = [st EXCEPT ![m] = Ended(@, "done")]  BY <2>1 DEF Reply
    <3>2. /\ Ended(st[m], "done") \in {"none", "running"} \cup Finished
          /\ Ended(st[m], "done") # "running"
          /\ Ended(st[m], "done") # st[m] => st[m] = "running" /\ Ended(st[m], "done") = "done"
      BY EndedTypes DEF IPTypeOK, Finished
    <3>3. "done" \in Finished  BY DEF Finished
    <3> QED BY <3>1, <3>2, <3>3 DEF IPTypeOK
  <2>2. CASE ReleaseOperation(m)
    <3>1. st' = st /\ st[m] # "running"  BY <2>2 DEF ReleaseOperation
    <3> QED BY <3>1 DEF IPTypeOK
  <2> QED BY <2>1, <2>2
<1>6. /\ sendQ' \in Seq(Messages) /\ wire' \in Seq(Messages) /\ Len(sendQ') <= MaxSendQueue
      /\ dev' \in {"connecting", "open", "closed", "gone"}
  BY <1>3 DEF IPTypeOK
<1>8. UNCHANGED <<callerVars, held, mail, binding>>  BY <1>3
<1>9. \A x \in {m} : st'[x] # "running"  BY <1>5
<1> HIDE DEF IPIInv
<1> QED BY <1>1, <1>2, <1>4, <1>5, <1>6, <1>8, <1>9, StepLeave

LEMMA StepClose ==
  ASSUME IPIInv, Close \/ Destroy
  PROVE  IPIInv'
<1> USE DEF IPIInv
<1>1. PICK f \in {"failed", "cancelled"} :
         st' = [m \in Messages |-> IF m \in ops THEN Ended(st[m], f) ELSE st[m]]
  BY DEF Close, Destroy
<1>2. /\ ops' = {} /\ UNCHANGED <<callerVars, held, mail, binding, sendQ, wire>>
      /\ refs' = [m \in Messages |-> IF m \in ops THEN refs[m] - 1 ELSE refs[m]]
      /\ dev' \in {"closed", "gone"}
  BY DEF Close, Destroy
<1>3. slot' \in [Messages -> {"none", "held", "released"}] /\ bound' \subseteq Messages
  BY DEF Close, Destroy, Released, IPTypeOK
<1>4. \A m \in Messages : /\ Ended(st[m], f) \in {"none", "running"} \cup Finished
                          /\ Ended(st[m], f) # "running"
                          /\ Ended(st[m], f) # st[m] => st[m] = "running" /\ Ended(st[m], f) = f
  BY EndedTypes DEF IPTypeOK, Finished
<1>5. f \in Finished  BY DEF Finished
<1>6. /\ st' \in [Messages -> {"none", "running"} \cup Finished]
      /\ \A m \in Messages : st'[m] # st[m] => st[m] = "running" /\ st'[m] \in Finished
      /\ \A m \in ops : st'[m] # "running"
  BY <1>1, <1>4, <1>5 DEF IPTypeOK
<1>8. /\ sendQ' \in Seq(Messages) /\ wire' \in Seq(Messages) /\ Len(sendQ') <= MaxSendQueue
      /\ dev' \in {"connecting", "open", "closed", "gone"}
      /\ ops' = ops \ ops /\ ops \in SUBSET ops
  BY <1>2 DEF IPTypeOK
<1>9. UNCHANGED <<callerVars, held, mail, binding>>  BY <1>2
<1> HIDE DEF IPIInv
<1> QED BY <1>2, <1>3, <1>6, <1>8, <1>9, StepLeave

(* The steps that take nothing out of m_operations. *)
LEMMA StepOther ==
  ASSUME IPIInv,
         \/ AppBind \/ ReadyWrite \/ UNCHANGED vars
         \/ \E m \in Messages : Drop(m)
         \/ \E m \in Messages, state \in GiveUps : GiveUp(m, state)
  PROVE  IPIInv'
<1> USE DEF IPIInv
<1>1. ASSUME NEW m \in Messages, Drop(m) PROVE IPIInv'
  <2>1. UNCHANGED <<next, by, kind, st, mail, binding, ops, sendQ, wire, slot, bound, dev>>
    BY <1>1 DEF Drop, callerVars, slotVars
  <2>2. m \in held /\ held' = held \ {m} /\ refs' = [refs EXCEPT ![m] = @ - 1]
    BY <1>1 DEF Drop
  <2>3. \A x : Tracks(x)' <=> Tracks(x)  BY <2>1 DEF Tracks
  <2>4. refs[m] - 1 \in Nat
    <3>1. refs[m] = 1 + One(Tracks(m) /\ In(m, mail)) + One(m \in ops)
      BY <2>2 DEF RefsExact, One
    <3> QED BY <3>1 DEF One
  <2>5. RefsExact'
    <3> SUFFICES ASSUME NEW x \in Messages
                 PROVE refs'[x] = One(x \in held') + One(Tracks(x) /\ In(x, mail)) + One(x \in ops)
      BY <2>1, <2>3 DEF RefsExact
    <3>1. refs[x] = One(x \in held) + One(Tracks(x) /\ In(x, mail)) + One(x \in ops)
      BY DEF RefsExact
    <3>2. CASE x = m  BY <3>1, <3>2, <2>2, <2>4 DEF One, IPTypeOK
    <3>3. CASE x # m  BY <3>1, <3>3, <2>2 DEF One, IPTypeOK
    <3> QED BY <3>2, <3>3
  <2>6. IPTypeOK'  BY <2>1, <2>2, <2>4 DEF IPTypeOK
  <2>7. Fresh'  BY <2>1, <2>2 DEF Fresh, IPTypeOK
  <2>8. MailOnce' /\ RunningIsReachable'
    BY <2>1 DEF MailOnce, RunningIsReachable
  <2>9. RunningTracks' /\ OpsTrack'  BY <2>1, <2>3 DEF RunningTracks, OpsTrack
  <2> QED BY <2>5, <2>6, <2>7, <2>8, <2>9
<1>2. ASSUME NEW m \in Messages, NEW state \in GiveUps, GiveUp(m, state)
      PROVE IPIInv'
  <2>1. UNCHANGED <<next, by, kind, refs, held, mail, binding, ops, sendQ, wire, slot, bound, dev>>
    BY <1>2 DEF GiveUp, callerVars, slotVars
  <2>2. /\ st[m] = "running" /\ st' = [st EXCEPT ![m] = state]
        /\ state \in {"timeout", "cancelled"}
    BY <1>2, GiveUpsAssumption DEF GiveUp
  <2>3. \A x : Tracks(x)' <=> Tracks(x)  BY <2>1 DEF Tracks
  <2>4. IPTypeOK'  BY <2>1, <2>2 DEF IPTypeOK, Finished
  <2>5. Fresh' /\ RunningTracks' /\ RunningIsReachable'
    BY <2>1, <2>2, <2>3 DEF Fresh, RunningTracks, RunningIsReachable, IPTypeOK
  <2>6. RefsExact'  BY <2>1, <2>3 DEF RefsExact
  <2>7. MailOnce' /\ OpsTrack'  BY <2>1, <2>3 DEF MailOnce, OpsTrack
  <2> QED BY <2>4, <2>5, <2>6, <2>7
<1>3. CASE AppBind \/ ReadyWrite \/ UNCHANGED vars
  <2>1. UNCHANGED <<next, by, kind, st, refs, held, mail, ops, slot>>
    BY <1>3 DEF AppBind, ReadyWrite, vars, callerVars, opVars, slotVars
  <2>2. /\ wire' \in Seq(Messages)
        /\ sendQ' \in Seq(Messages) /\ Len(sendQ') <= MaxSendQueue
        /\ \A x : In(x, wire) => In(x, wire')
    <3>1. CASE ReadyWrite /\ dev = "open"
      <4>1. Drained(sendQ)  BY <3>1 DEF ReadyWrite
      <4> QED BY <4>1, DrainedFacts DEF IPTypeOK
    <3>2. CASE ~(ReadyWrite /\ dev = "open")
      <4>1. wire' = wire /\ sendQ' = sendQ
        BY <3>2, <1>3 DEF AppBind, ReadyWrite, vars
      <4>2. \A x : In(x, wire) => In(x, wire')  BY <4>1
      <4> QED BY <4>1, <4>2 DEF IPTypeOK
    <3> QED BY <3>1, <3>2
  <2>3. /\ bound' \subseteq Messages /\ binding' \in Messages \cup {None}
        /\ dev' \in {"connecting", "open", "closed", "gone"}
    BY <1>3 DEF AppBind, ReadyWrite, vars, slotVars, IPTypeOK
  <2>4. \A x : Tracks(x)' <=> Tracks(x)  BY <2>1 DEF Tracks
  <2>5. IPTypeOK'  BY <2>1, <2>2, <2>3 DEF IPTypeOK
  <2>6. Fresh' /\ MailOnce' /\ RunningIsReachable'
    BY <2>1 DEF Fresh, MailOnce, RunningIsReachable
  <2>7. RunningTracks' /\ OpsTrack' /\ RefsExact'
    BY <2>1, <2>4 DEF RunningTracks, OpsTrack, RefsExact
  <2> QED BY <2>5, <2>6, <2>7
<1> QED BY <1>1, <1>2, <1>3

(* The inductive invariant of the protocol layer.                              *)
THEOREM IncProtocolInvariant == IPSafe => []IPIInv
<1>1. IPIInv /\ [IPNext]_vars => IPIInv'
  <2> SUFFICES ASSUME IPIInv, [IPNext]_vars PROVE IPIInv'  OBVIOUS
  <2>1. ASSUME NEW k \in Kinds, AppSend(k) PROVE IPIInv'  BY <2>1, StepAppSend
  <2>2. ASSUME NEW k \in Kinds, IoSend(k) PROVE IPIInv'  BY <2>2, StepIoSend
  <2>3. CASE SendImpl  BY <2>3, StepSendImpl
  <2>4. CASE Close \/ Destroy  BY <2>4, StepClose
  <2>5. ASSUME NEW m \in Messages, Reply(m) \/ ReleaseOperation(m) PROVE IPIInv'
    BY <2>5, StepReply
  <2>6. CASE \/ AppBind \/ ReadyWrite \/ UNCHANGED vars
             \/ \E m \in Messages : Drop(m)
             \/ \E m \in Messages, state \in GiveUps : GiveUp(m, state)
    BY <2>6, StepOther
  <2> QED BY <2>1, <2>2, <2>3, <2>4, <2>5, <2>6 DEF IPNext
<1> QED BY <1>1, InitIInv, PTL DEF IPSafe

(* Every variable of the protocol layer keeps its type; m_sendQueue its limit. *)
THEOREM IncProtocolTypeCorrect == IPSafe => []IPTypeOK
<1>1. IPIInv => IPTypeOK  BY DEF IPIInv
<1> QED BY <1>1, IncProtocolInvariant, PTL

(* An operation is freed when, and only when, its sender, the posted call and  *)
(* m_operations have all let it go.                                            *)
THEOREM IncProtocolRefsExact == IPSafe => []RefsExact
<1>1. IPIInv => RefsExact  BY DEF IPIInv
<1> QED BY <1>1, IncProtocolInvariant, PTL

(* Nobody waits for an operation that nothing can complete.                    *)
THEOREM IncProtocolReachable == IPSafe => []RunningIsReachable
<1>1. IPIInv => RunningIsReachable  BY DEF IPIInv
<1> QED BY <1>1, IncProtocolInvariant, PTL
------------------------------------------------------------------------------
(* The order of sending.  Ascends(b, s): the messages of s that one thread      *)
(* sent, by b, are in the order of their numbers; Precedes(b, s, t): those of   *)
(* s come before those of t.                                                    *)
Ascends(b, s) == \A i, j \in DOMAIN s : i < j /\ b[s[i]] = b[s[j]] => s[i] < s[j]
Precedes(b, s, t) ==
    \A x, y \in Messages : In(x, s) /\ In(y, t) /\ b[x] = b[y] => x < y

(* The three places a message passes through, and that those posted come from   *)
(* another thread than those the IO thread puts into the queue itself.          *)
InOrder ==
    /\ \A x \in Messages : In(x, wire) \/ In(x, sendQ) \/ In(x, mail) => x < next
    /\ \A x \in Messages : In(x, mail) => by[x] = "app"
    /\ Ascends(by, wire) /\ Ascends(by, sendQ) /\ Ascends(by, mail)
    /\ Precedes(by, wire, sendQ) /\ Precedes(by, wire, mail) /\ Precedes(by, sendQ, mail)

(* A frame of the IO thread that was not refused knows its slot as long as it   *)
(* is tracked, so that whoever takes it from m_operations can release it.       *)
SlotKnown ==
    \A m \in Messages :
        /\ m >= next => by[m] = "none"
        /\ by[m] = "io" /\ slot[m] = "held" /\ ~IdIsZero(m)
              => (m \in ops /\ m \in bound) \/ st[m] = "failed"

(* What sequences put together, cut and extended contain, and in what order.    *)
LEMMA InConcat ==
  ASSUME NEW s \in Seq(Messages), NEW t \in Seq(Messages)
  PROVE  /\ s \o t \in Seq(Messages)
         /\ \A x : In(x, s \o t) <=> In(x, s) \/ In(x, t)
<1>1. /\ s \o t \in Seq(Messages) /\ Len(s \o t) = Len(s) + Len(t)
      /\ \A i \in 1..Len(s) + Len(t) :
            (s \o t)[i] = IF i <= Len(s) THEN s[i] ELSE t[i - Len(s)]
  BY ConcatProperties
<1>2. /\ Len(s) \in Nat /\ Len(t) \in Nat /\ DOMAIN s = 1..Len(s) /\ DOMAIN t = 1..Len(t)
      /\ DOMAIN (s \o t) = 1..Len(s) + Len(t)
  BY <1>1, LenProperties
<1>3. ASSUME NEW x, In(x, s \o t) PROVE In(x, s) \/ In(x, t)
  <2>1. PICK i \in 1..Len(s) + Len(t) : (s \o t)[i] = x  BY <1>2, <1>3 DEF In
  <2>2. CASE i <= Len(s)  BY <2>1, <2>2, <1>1, <1>2 DEF In
  <2>3. CASE i > Len(s)
    <3>1. i - Len(s) \in 1..Len(t) /\ t[i - Len(s)] = x  BY <2>1, <2>3, <1>1, <1>2
    <3> QED BY <3>1, <1>2 DEF In
  <2> QED BY <2>1, <2>2, <2>3, <1>2
<1>4. ASSUME NEW x, In(x, s) PROVE In(x, s \o t)
  <2>1. PICK i \in 1..Len(s) : s[i] = x  BY <1>2, <1>4 DEF In
  <2>2. i \in 1..Len(s) + Len(t) /\ (s \o t)[i] = x  BY <2>1, <1>1, <1>2
  <2> QED BY <2>2, <1>2 DEF In
<1>5. ASSUME NEW x, In(x, t) PROVE In(x, s \o t)
  <2>1. PICK i \in 1..Len(t) : t[i] = x  BY <1>2, <1>5 DEF In
  <2>2. Len(s) + i \in 1..Len(s) + Len(t) /\ ~(Len(s) + i <= Len(s)) /\ Len(s) + i - Len(s) = i
    BY <2>1, <1>2
  <2>3. (s \o t)[Len(s) + i] = x  BY <2>1, <2>2, <1>1
  <2> QED BY <2>2, <2>3, <1>2 DEF In
<1> QED BY <1>1, <1>3, <1>4, <1>5

LEMMA AscendsConcat ==
  ASSUME NEW b, NEW s \in Seq(Messages), NEW t \in Seq(Messages),
         Ascends(b, s), Ascends(b, t), Precedes(b, s, t)
  PROVE  Ascends(b, s \o t)
<1>1. /\ Len(s \o t) = Len(s) + Len(t)
      /\ \A i \in 1..Len(s) + Len(t) :
            (s \o t)[i] = IF i <= Len(s) THEN s[i] ELSE t[i - Len(s)]
      /\ s \o t \in Seq(Messages)
  BY ConcatProperties
<1>2. /\ Len(s) \in Nat /\ Len(t) \in Nat /\ DOMAIN s = 1..Len(s) /\ DOMAIN t = 1..Len(t)
      /\ DOMAIN (s \o t) = 1..Len(s) + Len(t)
  BY <1>1, LenProperties
<1>3. /\ \A i \in 1..Len(s) : s[i] \in Messages /\ In(s[i], s)
      /\ \A i \in 1..Len(t) : t[i] \in Messages /\ In(t[i], t)
  BY <1>2, ElementOfSeq DEF In
<1> SUFFICES ASSUME NEW i \in 1..Len(s) + Len(t), NEW j \in 1..Len(s) + Len(t),
                    i < j, b[(s \o t)[i]] = b[(s \o t)[j]]
             PROVE  (s \o t)[i] < (s \o t)[j]
  BY <1>2 DEF Ascends
<1>4. CASE j <= Len(s)
  <2>1. i \in 1..Len(s) /\ j \in 1..Len(s) /\ (s \o t)[i] = s[i] /\ (s \o t)[j] = s[j]
    BY <1>4, <1>1, <1>2
  <2> QED BY <2>1, <1>2 DEF Ascends
<1>5. CASE i <= Len(s) /\ j > Len(s)
  <2>1. /\ i \in 1..Len(s) /\ j - Len(s) \in 1..Len(t)
        /\ (s \o t)[i] = s[i] /\ (s \o t)[j] = t[j - Len(s)]
    BY <1>5, <1>1, <1>2
  <2> QED BY <2>1, <1>3 DEF Precedes
<1>6. CASE i > Len(s)
  <2>1. /\ i - Len(s) \in 1..Len(t) /\ j - Len(s) \in 1..Len(t) /\ i - Len(s) < j - Len(s)
        /\ (s \o t)[i] = t[i - Len(s)] /\ (s \o t)[j] = t[j - Len(s)]
    BY <1>6, <1>1, <1>2
  <2> QED BY <2>1, <1>2 DEF Ascends
<1> QED BY <1>4, <1>5, <1>6, <1>2

(* A part of a sequence, and two parts of one, the first before the second.     *)
LEMMA SubSeqOrder ==
  ASSUME NEW b, NEW q \in Seq(Messages), Ascends(b, q),
         NEW n \in 0..Len(q), NEW k \in n+1 .. Len(q)+1
  PROVE  /\ SubSeq(q, 1, n) \in Seq(Messages) /\ SubSeq(q, k, Len(q)) \in Seq(Messages)
         /\ \A x : In(x, SubSeq(q, 1, n)) \/ In(x, SubSeq(q, k, Len(q))) => In(x, q)
         /\ Ascends(b, SubSeq(q, 1, n)) /\ Ascends(b, SubSeq(q, k, Len(q)))
         /\ Precedes(b, SubSeq(q, 1, n), SubSeq(q, k, Len(q)))
<1> DEFINE u == SubSeq(q, 1, n)
           v == SubSeq(q, k, Len(q))
<1>1. Len(q) \in Nat /\ n \in Nat /\ k \in Nat \ {0} /\ DOMAIN q = 1..Len(q)
      /\ \A i \in 1..Len(q) : q[i] \in Messages
  BY LenProperties, ElementOfSeq
<1>2. /\ u \in Seq(Messages) /\ Len(u) = n /\ \A i \in 1..n : u[i] = q[i]
  <2>1. /\ u \in Seq(Messages) /\ Len(u) = (IF 1 <= n THEN n - 1 + 1 ELSE 0)
        /\ \A i \in 1..n - 1 + 1 : u[i] = q[1 + i - 1]
    BY <1>1, SubSeqProperties
  <2>2. \A i \in 1..n : 1 + i - 1 = i /\ n - 1 + 1 = n  BY <1>1
  <2> QED BY <1>1, <2>1, <2>2
<1>3. /\ v \in Seq(Messages) /\ Len(v) = Len(q) - k + 1
      /\ \A i \in 1..Len(q) - k + 1 : v[i] = q[k + i - 1]
  <2>1. k \in 1..Len(q)+1 /\ Len(q) \in k-1..Len(q)  BY <1>1
  <2> QED BY <1>1, <2>1, SubSeqProperties
<1>4. DOMAIN u = 1..n /\ DOMAIN v = 1..Len(q) - k + 1  BY <1>2, <1>3, LenProperties
<1> HIDE DEF u, v
<1>5. \A i \in DOMAIN u : i \in 1..Len(q) /\ u[i] = q[i] /\ i < k  BY <1>1, <1>2, <1>4
<1>6. \A i \in DOMAIN v : k + i - 1 \in 1..Len(q) /\ v[i] = q[k + i - 1] /\ k + i - 1 >= k
  <2> SUFFICES ASSUME NEW i \in DOMAIN v
               PROVE  k + i - 1 \in 1..Len(q) /\ v[i] = q[k + i - 1] /\ k + i - 1 >= k
    OBVIOUS
  <2>1. i \in 1..Len(q) - k + 1  BY <1>4
  <2>2. k + i - 1 \in 1..Len(q) /\ k + i - 1 >= k
    <3> DEFINE e == Len(q)
    <3>1. e \in Nat /\ k \in Nat \ {0} /\ i \in 1..e - k + 1  BY <1>1, <2>1
    <3> HIDE DEF e
    <3>2. k + i - 1 \in 1..e /\ k + i - 1 >= k  BY ONLY <3>1
    <3> QED BY <3>2 DEF e
  <2> QED BY <1>3, <2>1, <2>2
<1>7. \A x : In(x, u) \/ In(x, v) => In(x, q)  BY <1>1, <1>5, <1>6 DEF In
<1>8. Ascends(b, u)  BY <1>1, <1>5 DEF Ascends
<1>9. Ascends(b, v)
  <2> SUFFICES ASSUME NEW i \in DOMAIN v, NEW j \in DOMAIN v, i < j, b[v[i]] = b[v[j]]
               PROVE  v[i] < v[j]
    BY DEF Ascends
  <2>1. k + i - 1 < k + j - 1  BY <1>1, <1>4
  <2> QED BY <2>1, <1>1, <1>6 DEF Ascends
<1>10. Precedes(b, u, v)
  <2> SUFFICES ASSUME NEW i \in DOMAIN u, NEW j \in DOMAIN v, b[u[i]] = b[v[j]]
               PROVE  u[i] < v[j]
    BY DEF Precedes, In
  <2>1. i < k + j - 1  BY <1>1, <1>4, <1>5, <1>6
  <2> QED BY <2>1, <1>1, <1>5, <1>6 DEF Ascends
<1> QED BY <1>2, <1>3, <1>7, <1>8, <1>9, <1>10 DEF u, v

LEMMA AppendOrder ==
  ASSUME NEW b, NEW s \in Seq(Messages), NEW m \in Messages, Ascends(b, s),
         \A x \in Messages : In(x, s) /\ b[x] = b[m] => x < m
  PROVE  Ascends(b, Append(s, m))
<1>1. /\ Append(s, m) \in Seq(Messages) /\ DOMAIN s = 1..Len(s) /\ Len(s) \in Nat
      /\ DOMAIN Append(s, m) = 1..Len(s) + 1
  OBVIOUS
<1>2. /\ \A i \in 1..Len(s) : Append(s, m)[i] = s[i] /\ s[i] \in Messages /\ In(s[i], s)
      /\ Append(s, m)[Len(s) + 1] = m
  BY <1>1, ElementOfSeq DEF In
<1> SUFFICES ASSUME NEW i \in 1..Len(s) + 1, NEW j \in 1..Len(s) + 1,
                    i < j, b[Append(s, m)[i]] = b[Append(s, m)[j]]
             PROVE  Append(s, m)[i] < Append(s, m)[j]
  BY <1>1 DEF Ascends
<1>3. i \in 1..Len(s)  BY <1>1
<1>4. CASE j = Len(s) + 1  BY <1>2, <1>3, <1>4
<1>5. CASE j # Len(s) + 1
  <2>1. j \in 1..Len(s)  BY <1>1, <1>5
  <2> QED BY <2>1, <1>1, <1>2, <1>3 DEF Ascends
<1> QED BY <1>4, <1>5

LEMMA TailOrder ==
  ASSUME NEW b, NEW s \in Seq(Messages), s # <<>>, Ascends(b, s)
  PROVE  /\ Head(s) \in Messages /\ Tail(s) \in Seq(Messages) /\ In(Head(s), s)
         /\ \A x : In(x, Tail(s)) => In(x, s)
         /\ Ascends(b, Tail(s))
         /\ \A x \in Messages : In(x, Tail(s)) /\ b[x] = b[Head(s)] => Head(s) < x
<1>1. Len(s) \in Nat \ {0} /\ DOMAIN s = 1..Len(s)  BY EmptySeq, LenProperties
<1>2. /\ Head(s) \in Messages /\ Tail(s) \in Seq(Messages) /\ Len(Tail(s)) = Len(s) - 1
      /\ \A i \in 1..Len(s) - 1 : Tail(s)[i] = s[i+1]
  BY HeadTailProperties
<1>3. DOMAIN Tail(s) = 1..Len(s) - 1  BY <1>1, <1>2, LenProperties
<1>4. Head(s) = s[1] /\ In(Head(s), s)  BY <1>1 DEF In
<1>5. \A i \in DOMAIN Tail(s) : i + 1 \in 1..Len(s) /\ Tail(s)[i] = s[i+1] /\ 1 < i + 1
  BY <1>1, <1>2, <1>3
<1>6. \A x : In(x, Tail(s)) => In(x, s)  BY <1>1, <1>5 DEF In
<1>7. Ascends(b, Tail(s))
  <2> SUFFICES ASSUME NEW i \in DOMAIN Tail(s), NEW j \in DOMAIN Tail(s), i < j,
                      b[Tail(s)[i]] = b[Tail(s)[j]]
               PROVE  Tail(s)[i] < Tail(s)[j]
    BY DEF Ascends
  <2>1. i + 1 < j + 1  BY <1>3
  <2> QED BY <2>1, <1>1, <1>5 DEF Ascends
<1>8. \A x \in Messages : In(x, Tail(s)) /\ b[x] = b[Head(s)] => Head(s) < x
  <2> SUFFICES ASSUME NEW i \in DOMAIN Tail(s), b[Tail(s)[i]] = b[Head(s)]
               PROVE  Head(s) < Tail(s)[i]
    BY DEF In
  <2> QED BY <1>1, <1>4, <1>5 DEF Ascends
<1> QED BY <1>2, <1>4, <1>6, <1>7, <1>8
(* onReadyWrite() moves messages from the queue to the wire in their order, and *)
(* may drop the one that could not be written.                                  *)
LEMMA DrainedOrder ==
  ASSUME NEW b, NEW q \in Seq(Messages), wire \in Seq(Messages), Drained(q),
         Ascends(b, wire), Ascends(b, q), Precedes(b, wire, q)
  PROVE  /\ Ascends(b, wire') /\ Ascends(b, sendQ') /\ Precedes(b, wire', sendQ')
         /\ \A x : In(x, wire') \/ In(x, sendQ') => In(x, wire) \/ In(x, q)
<1>1. CASE dev # "open"
  <2>1. wire' = wire /\ sendQ' = q  BY <1>1 DEF Drained
  <2> QED BY <2>1
<1>2. CASE dev = "open"
  <2>1. PICK n \in 0 .. Len(q) :
            /\ wire' = wire \o SubSeq(q, 1, n)
            /\ \/ sendQ' = SubSeq(q, n + 1, Len(q))
               \/ n < Len(q) /\ sendQ' = SubSeq(q, n + 2, Len(q))
    BY <1>2 DEF Drained
  <2>2. PICK k \in n+1 .. Len(q)+1 : sendQ' = SubSeq(q, k, Len(q))
    <3>1. Len(q) \in Nat /\ n \in Nat /\ n <= Len(q)  BY LenProperties
    <3>2. n + 1 \in n+1 .. Len(q)+1 /\ (n < Len(q) => n + 2 \in n+1 .. Len(q)+1)  BY <3>1
    <3> QED BY <2>1, <3>2
  <2> DEFINE u == SubSeq(q, 1, n)
             v == SubSeq(q, k, Len(q))
  <2>3. /\ u \in Seq(Messages) /\ v \in Seq(Messages)
        /\ \A x : In(x, u) \/ In(x, v) => In(x, q)
        /\ Ascends(b, u) /\ Ascends(b, v) /\ Precedes(b, u, v)
    BY SubSeqOrder
  <2>4. wire' = wire \o u /\ sendQ' = v  BY <2>1, <2>2
  <2> HIDE DEF u, v
  <2>5. Precedes(b, wire, u) /\ Precedes(b, wire, v)  BY <2>3 DEF Precedes
  <2>6. Ascends(b, wire')  BY <2>3, <2>4, <2>5, AscendsConcat
  <2>7. \A x : In(x, wire') <=> In(x, wire) \/ In(x, u)  BY <2>3, <2>4, InConcat
  <2>8. Precedes(b, wire', sendQ')  BY <2>3, <2>4, <2>5, <2>7 DEF Precedes
  <2> QED BY <2>3, <2>4, <2>6, <2>7, <2>8
<1> QED BY <1>1, <1>2

(* sendMessageImpl() of a message newer than those of its thread before it.     *)
LEMMA AcceptedOrder ==
  ASSUME NEW b, NEW m \in Messages, NEW tracked, NEW s, NEW r, Accepted(m, tracked, s, r),
         wire \in Seq(Messages), sendQ \in Seq(Messages),
         Ascends(b, wire), Ascends(b, sendQ), Precedes(b, wire, sendQ),
         \A x \in Messages : (In(x, wire) \/ In(x, sendQ)) /\ b[x] = b[m] => x < m
  PROVE  /\ Ascends(b, wire') /\ Ascends(b, sendQ') /\ Precedes(b, wire', sendQ')
         /\ \A x : In(x, wire') \/ In(x, sendQ') => In(x, wire) \/ In(x, sendQ) \/ x = m
<1>1. CASE Len(sendQ) >= MaxSendQueue
  <2>1. wire' = wire /\ sendQ' = sendQ  BY <1>1 DEF Accepted
  <2> QED BY <2>1
<1>2. CASE ~(Len(sendQ) >= MaxSendQueue)
  <2> DEFINE q == Append(sendQ, m)
  <2>1. Drained(q)  BY <1>2 DEF Accepted
  <2>2. q \in Seq(Messages) /\ \A x : In(x, q) <=> In(x, sendQ) \/ x = m  BY AppendAdds
  <2>3. Ascends(b, q)  BY AppendOrder
  <2> HIDE DEF q
  <2>4. Precedes(b, wire, q)  BY <2>2 DEF Precedes
  <2> QED BY <2>1, <2>2, <2>3, <2>4, DrainedOrder
<1> QED BY <1>1, <1>2

LEMMA OrderIsLocal ==
  ASSUME NEW b, NEW c, NEW s \in Seq(Messages), NEW t \in Seq(Messages),
         \A x \in Messages : In(x, s) \/ In(x, t) => b[x] = c[x]
  PROVE  /\ Ascends(b, s) => Ascends(c, s)
         /\ Precedes(b, s, t) => Precedes(c, s, t)
<1>1. \A i \in DOMAIN s : s[i] \in Messages /\ In(s[i], s)
  BY ElementOfSeq, LenProperties DEF In
<1>2. Ascends(b, s) => Ascends(c, s)  BY <1>1 DEF Ascends
<1>3. Precedes(b, s, t) => Precedes(c, s, t)  BY DEF Precedes
<1> QED BY <1>2, <1>3

LEMMA InitOrder == IPInit => InOrder /\ SlotKnown
<1> SUFFICES ASSUME IPInit PROVE InOrder /\ SlotKnown  OBVIOUS
<1>1. wire = <<>> /\ sendQ = <<>> /\ mail = <<>> /\ by = [m \in Messages |-> "none"]
  BY DEF IPInit
<1>2. \A x : ~In(x, wire) /\ ~In(x, sendQ) /\ ~In(x, mail)  BY <1>1 DEF In
<1>3. InOrder  BY <1>1, <1>2 DEF InOrder, Ascends, Precedes
<1>4. SlotKnown  BY <1>1 DEF SlotKnown
<1> QED BY <1>3, <1>4

(* The number of a new message is larger than every number in use; a message of *)
(* the IO thread passes those that are still posted, which are not its own.     *)
LEMMA AppSendOrder ==
  ASSUME IPTypeOK, InOrder, SlotKnown, NEW k \in Kinds, AppSend(k)
  PROVE  InOrder'
<1>0. next \in Messages /\ next \in Nat /\ next' = next + 1 /\ by' = [by EXCEPT ![next] = "app"]
      /\ wire' = wire /\ sendQ' = sendQ
  BY DEF AppSend, Create, Messages
<1>1. \A x \in Messages : x < next => by'[x] = by[x]  BY <1>0 DEF IPTypeOK, Messages
<1>2. by'[next] = "app"  BY <1>0 DEF IPTypeOK
<1>3. wire \in Seq(Messages) /\ sendQ \in Seq(Messages) /\ mail \in Seq(Messages)  BY DEF IPTypeOK
<1>4. /\ \A x : In(x, mail') => In(x, mail) \/ x = next
      /\ Ascends(by', mail')
  <2>1. Ascends(by', mail)  BY <1>1, <1>3, OrderIsLocal DEF InOrder
  <2>2. CASE k = "big"  BY <2>1, <2>2 DEF AppSend
  <2>3. CASE k # "big"
    <3>1. mail' = Append(mail, next)  BY <2>3 DEF AppSend
    <3>2. \A x \in Messages : In(x, mail) => x < next  BY DEF InOrder
    <3> QED BY <1>0, <1>3, <2>1, <3>1, <3>2, AppendAdds, AppendOrder
  <2> QED BY <2>2, <2>3
<1>5. Ascends(by', wire) /\ Ascends(by', sendQ) /\ Precedes(by', wire, sendQ)
  BY <1>1, <1>3, OrderIsLocal DEF InOrder
<1>6. Precedes(by', wire, mail') /\ Precedes(by', sendQ, mail')
  BY <1>0, <1>1, <1>4 DEF InOrder, Precedes
<1>7. \A x \in Messages : In(x, wire) \/ In(x, sendQ) \/ In(x, mail') => x < next + 1
  BY <1>0, <1>4 DEF InOrder, Messages
<1>8. \A x \in Messages : In(x, mail') => by'[x] = "app"
  BY <1>0, <1>1, <1>2, <1>4 DEF InOrder
<1> QED BY <1>0, <1>4, <1>5, <1>6, <1>7, <1>8 DEF InOrder

LEMMA IoSendOrder ==
  ASSUME IPTypeOK, InOrder, SlotKnown, NEW k \in Kinds, IoSend(k)
  PROVE  InOrder'
<1>0. next \in Messages /\ next \in Nat /\ next' = next + 1 /\ by' = [by EXCEPT ![next] = "io"]
      /\ mail' = mail
  BY DEF IoSend, Create, Messages
<1>1. \A x \in Messages : x < next => by'[x] = by[x]  BY <1>0 DEF IPTypeOK, Messages
<1>2. by'[next] = "io"  BY <1>0 DEF IPTypeOK
<1>3. wire \in Seq(Messages) /\ sendQ \in Seq(Messages) /\ mail \in Seq(Messages)  BY DEF IPTypeOK
<1>4. /\ Ascends(by', wire) /\ Ascends(by', sendQ) /\ Precedes(by', wire, sendQ)
      /\ Ascends(by', mail)
  BY <1>1, <1>3, OrderIsLocal DEF InOrder
<1>5. /\ Ascends(by', wire') /\ Ascends(by', sendQ') /\ Precedes(by', wire', sendQ')
      /\ \A x : In(x, wire') \/ In(x, sendQ') => In(x, wire) \/ In(x, sendQ) \/ x = next
  <2>1. CASE k = "big"
    <3>1. wire' = wire /\ sendQ' = sendQ  BY <2>1 DEF IoSend
    <3> QED BY <1>4, <3>1
  <2>2. CASE k # "big"
    <3> DEFINE s == NewState(k)
               r == NewRefs(k)
               asks == k # "note"
               b == by'
    <3>1. Accepted(next, asks, s, r)  BY <2>2 DEF IoSend
    <3>2. \A x \in Messages : (In(x, wire) \/ In(x, sendQ)) /\ b[x] = b[next] => x < next
      BY DEF InOrder
    <3>3. Ascends(b, wire) /\ Ascends(b, sendQ) /\ Precedes(b, wire, sendQ)  BY <1>4
    <3> HIDE DEF s, r, asks, b
    <3>4. /\ Ascends(b, wire') /\ Ascends(b, sendQ') /\ Precedes(b, wire', sendQ')
          /\ \A x : In(x, wire') \/ In(x, sendQ') => In(x, wire) \/ In(x, sendQ) \/ x = next
      BY <1>0, <1>3, <3>1, <3>2, <3>3, AcceptedOrder
    <3> QED BY <3>4 DEF b
  <2> QED BY <2>1, <2>2
<1>6. \A x \in Messages : In(x, mail) => by'[x] = "app"  BY <1>1 DEF InOrder
<1>7. Precedes(by', wire', mail) /\ Precedes(by', sendQ', mail)
  BY <1>1, <1>2, <1>5, <1>6 DEF InOrder, Precedes
<1>8. \A x \in Messages : In(x, wire') \/ In(x, sendQ') \/ In(x, mail) => x < next + 1
  BY <1>0, <1>5 DEF InOrder, Messages
<1> QED BY <1>0, <1>4, <1>5, <1>6, <1>7, <1>8 DEF InOrder

LEMMA SendImplOrder ==
  ASSUME IPTypeOK, InOrder, SendImpl
  PROVE  InOrder'
<1> DEFINE m == Head(mail)
<1>0. mail # <<>> /\ mail' = Tail(mail) /\ UNCHANGED <<next, by>>
  BY DEF SendImpl, callerVars
<1>1. wire \in Seq(Messages) /\ sendQ \in Seq(Messages) /\ mail \in Seq(Messages)  BY DEF IPTypeOK
<1>2. /\ m \in Messages /\ In(m, mail) /\ Ascends(by, mail')
      /\ \A x : In(x, mail') => In(x, mail)
      /\ \A x \in Messages : In(x, mail') /\ by[x] = by[m] => m < x
  BY <1>0, <1>1, TailOrder DEF InOrder
<1>3. Accepted(m, Tracks(m), st, refs)  BY DEF SendImpl
<1> HIDE DEF m
<1>4. \A x \in Messages : (In(x, wire) \/ In(x, sendQ)) /\ by[x] = by[m] => x < m
  BY <1>2 DEF InOrder, Precedes
<1>5. /\ Ascends(by, wire') /\ Ascends(by, sendQ') /\ Precedes(by, wire', sendQ')
      /\ \A x : In(x, wire') \/ In(x, sendQ') => In(x, wire) \/ In(x, sendQ) \/ x = m
  BY <1>1, <1>2, <1>3, <1>4, AcceptedOrder DEF InOrder
<1>6. Precedes(by, wire', mail') /\ Precedes(by, sendQ', mail')
  BY <1>2, <1>5 DEF InOrder, Precedes
<1>7. \A x \in Messages : In(x, wire') \/ In(x, sendQ') \/ In(x, mail') => x < next
  BY <1>2, <1>5 DEF InOrder
<1> QED BY <1>0, <1>2, <1>5, <1>6, <1>7 DEF InOrder

LEMMA ReadyWriteOrder ==
  ASSUME IPTypeOK, InOrder, ReadyWrite
  PROVE  InOrder'
<1>0. UNCHANGED <<next, by, mail>>  BY DEF ReadyWrite, callerVars
<1>1. wire \in Seq(Messages) /\ sendQ \in Seq(Messages)  BY DEF IPTypeOK
<1>2. /\ Ascends(by, wire') /\ Ascends(by, sendQ') /\ Precedes(by, wire', sendQ')
      /\ \A x : In(x, wire') \/ In(x, sendQ') => In(x, wire) \/ In(x, sendQ)
  <2>1. CASE dev = "open"
    <3>1. Drained(sendQ)  BY <2>1 DEF ReadyWrite
    <3> QED BY <1>1, <3>1, DrainedOrder DEF InOrder
  <2>2. CASE dev # "open"
    <3>1. wire' = wire /\ sendQ' = sendQ  BY <2>2 DEF ReadyWrite
    <3> QED BY <3>1 DEF InOrder
  <2> QED BY <2>1, <2>2
<1> QED BY <1>0, <1>2 DEF InOrder, Precedes
LEMMA StepOrder == IPTypeOK /\ InOrder /\ SlotKnown /\ [IPNext]_vars => InOrder'
<1> SUFFICES ASSUME IPTypeOK, InOrder, SlotKnown, [IPNext]_vars PROVE InOrder'  OBVIOUS
<1>1. ASSUME UNCHANGED <<next, by, wire, sendQ, mail>> PROVE InOrder'  BY <1>1 DEF InOrder
<1>2. ASSUME NEW k \in Kinds, AppSend(k) PROVE InOrder'  BY <1>2, AppSendOrder
<1>3. ASSUME NEW k \in Kinds, IoSend(k) PROVE InOrder'  BY <1>3, IoSendOrder
<1>4. CASE SendImpl  BY <1>4, SendImplOrder
<1>5. CASE ReadyWrite  BY <1>5, ReadyWriteOrder
<1>6. CASE AppBind \/ Close \/ Destroy \/ UNCHANGED vars
  BY <1>1, <1>6 DEF AppBind, Close, Destroy, vars, callerVars
<1>7. ASSUME NEW m \in Messages, Drop(m) \/ Reply(m) \/ ReleaseOperation(m) PROVE InOrder'
  BY <1>1, <1>7 DEF Drop, Reply, ReleaseOperation, callerVars
<1>8. ASSUME NEW m \in Messages, NEW state \in GiveUps, GiveUp(m, state) PROVE InOrder'
  BY <1>1, <1>8 DEF GiveUp, callerVars
<1> QED BY <1>2, <1>3, <1>4, <1>5, <1>6, <1>7, <1>8 DEF IPNext

(* Whether a frame got the slot with id 0 is settled when it is sent.           *)
LEMMA IdIsZeroStays ==
  ASSUME IPTypeOK, NEW m \in Messages, m < next,
         \A x \in Messages : x < next => (slot'[x] = "none" <=> slot[x] = "none")
  PROVE  IdIsZero(m)' <=> IdIsZero(m)
BY DEF IdIsZero, Messages, IPTypeOK

(* A step that sends nothing, releases what it takes from m_operations, and     *)
(* leaves a refused frame refused.                                              *)
LEMMA KeepsSlots ==
  ASSUME IPTypeOK, SlotKnown, UNCHANGED <<next, by>>,
         \A x \in Messages : slot'[x] = slot[x] \/ (slot[x] = "held" /\ slot'[x] = "released"),
         \A x \in Messages : x \in ops /\ x \in bound =>
             slot'[x] # "held" \/ (x \in ops' /\ x \in bound'),
         \A x \in Messages : st[x] = "failed" => st'[x] = "failed"
  PROVE  SlotKnown'
<1> SUFFICES ASSUME NEW m \in Messages
             PROVE  /\ m >= next => by[m] = "none"
                    /\ by[m] = "io" /\ slot'[m] = "held" /\ ~IdIsZero(m)'
                          => (m \in ops' /\ m \in bound') \/ st'[m] = "failed"
  BY DEF SlotKnown
<1>1. m >= next => by[m] = "none"  BY DEF SlotKnown
<1>2. ASSUME by[m] = "io", slot'[m] = "held", ~IdIsZero(m)'
      PROVE  (m \in ops' /\ m \in bound') \/ st'[m] = "failed"
  <2>1. m < next  BY <1>1, <1>2 DEF Messages, IPTypeOK
  <2>2. IdIsZero(m)' <=> IdIsZero(m)  BY <2>1, IdIsZeroStays
  <2>3. slot[m] = "held"  BY <1>2
  <2>4. (m \in ops /\ m \in bound) \/ st[m] = "failed"  BY <1>2, <2>2, <2>3 DEF SlotKnown
  <2> QED BY <1>2, <2>4
<1> QED BY <1>1, <1>2

(* A step that creates message next: the slots of the others stay as they are.  *)
LEMMA SendSlots ==
  ASSUME IPTypeOK, SlotKnown, NEW t \in {"app", "io"}, NEW k \in Kinds, Create(t, k),
         \A x \in Messages : x # next =>
             /\ x \in ops => x \in ops'
             /\ x \in bound => x \in bound'
             /\ st'[x] = st[x],
         t = "io" /\ k = "shm" /\ ~IdIsZero(next) =>
             (next \in ops' /\ next \in bound') \/ st'[next] = "failed"
  PROVE  SlotKnown'
<1>0. next \in Messages /\ next \in Nat /\ next' = next + 1
  BY DEF Create, Messages
<1>1. by' = [by EXCEPT ![next] = t]
      /\ slot' = [slot EXCEPT ![next] = IF k = "shm" THEN "held" ELSE "none"]
  BY DEF Create
<1> SUFFICES ASSUME NEW m \in Messages
             PROVE  /\ m >= next' => by'[m] = "none"
                    /\ by'[m] = "io" /\ slot'[m] = "held" /\ ~IdIsZero(m)'
                          => (m \in ops' /\ m \in bound') \/ st'[m] = "failed"
  BY DEF SlotKnown
<1>2. m >= next' => by'[m] = "none"  BY <1>0, <1>1 DEF SlotKnown, IPTypeOK, Messages
<1>3. ASSUME by'[m] = "io", slot'[m] = "held", ~IdIsZero(m)'
      PROVE  (m \in ops' /\ m \in bound') \/ st'[m] = "failed"
  <2>1. CASE m = next
    <3>1. \A n \in Messages : n < next => slot'[n] = slot[n]  BY <1>0, <1>1 DEF IPTypeOK, Messages
    <3>3. IdIsZero(next) => IdIsZero(m)'  BY <2>1, <3>1 DEF IdIsZero
    <3>4. t = "io" /\ k = "shm"  BY <1>0, <1>1, <1>3, <2>1 DEF IPTypeOK
    <3> QED BY <1>3, <2>1, <3>3, <3>4
  <2>2. CASE m # next
    <3>1. by[m] = "io" /\ slot[m] = "held"  BY <1>1, <1>3, <2>2 DEF IPTypeOK
    <3>2. m < next  BY <1>0, <3>1 DEF SlotKnown, Messages
    <3>3. IdIsZero(m)' <=> IdIsZero(m)
      <4>1. \A x \in Messages : x < next => slot'[x] = slot[x]  BY <1>0, <1>1 DEF IPTypeOK, Messages
      <4> QED BY <3>2, <4>1, IdIsZeroStays
    <3>4. (m \in ops /\ m \in bound) \/ st[m] = "failed"  BY <1>3, <3>1, <3>3 DEF SlotKnown
    <3> QED BY <2>2, <3>4
  <2> QED BY <2>1, <2>2
<1> QED BY <1>2, <1>3
LEMMA StepSlots == IPTypeOK /\ SlotKnown /\ [IPNext]_vars => SlotKnown'
<1> SUFFICES ASSUME IPTypeOK, SlotKnown, [IPNext]_vars PROVE SlotKnown'  OBVIOUS
<1>1. ASSUME NEW k \in Kinds, AppSend(k) PROVE SlotKnown'
  <2>1. Create("app", k) /\ ops' = ops /\ bound' = bound  BY <1>1 DEF AppSend
  <2>2. \A x \in Messages : x # next => st'[x] = st[x]
    BY <1>1 DEF AppSend, NewState, IPTypeOK
  <2> QED BY <2>1, <2>2, SendSlots
<1>2. ASSUME NEW k \in Kinds, IoSend(k) PROVE SlotKnown'
  <2>1. Create("io", k) /\ next \in Messages
        /\ bound' = IF k = "shm" /\ ~IdIsZero(next) THEN bound \cup {next} ELSE bound
    BY <1>2 DEF IoSend, Create
  <2>2. /\ \A x \in Messages : x # next => (x \in ops => x \in ops') /\ st'[x] = st[x]
        /\ k = "shm" => next \in ops' \/ st'[next] = "failed"
    <3>1. CASE k = "big"
      BY <1>2, <2>1, <3>1 DEF IoSend, NewState, IPTypeOK
    <3>2. CASE k # "big" /\ Len(sendQ) >= MaxSendQueue
      <4>1. ops' = ops /\ st' = [NewState(k) EXCEPT ![next] = Ended(@, "failed")]
        BY <1>2, <3>2 DEF IoSend, Accepted
      <4> QED BY <2>1, <3>2, <4>1 DEF NewState, Ended, IPTypeOK
    <3>3. CASE k # "big" /\ ~(Len(sendQ) >= MaxSendQueue)
      <4>1. ops' = (IF k # "note" THEN ops \cup {next} ELSE ops) /\ st' = NewState(k)
        BY <1>2, <3>3 DEF IoSend, Accepted
      <4> QED BY <2>1, <3>3, <4>1 DEF NewState, IPTypeOK
    <3> QED BY <3>1, <3>2, <3>3
  <2> QED BY <2>1, <2>2, SendSlots
<1>3. CASE SendImpl
  <2>1. UNCHANGED <<next, by, slot, bound>>  BY <1>3 DEF SendImpl, callerVars, slotVars
  <2>2. (\A x \in ops : x \in ops') /\ \A x \in Messages : st[x] = "failed" => st'[x] = "failed"
    <3>1. CASE Len(sendQ) >= MaxSendQueue
      <4>1. ops' = ops /\ st' = [st EXCEPT ![Head(mail)] = Ended(@, "failed")]
        BY <1>3, <3>1 DEF SendImpl, Accepted
      <4> QED BY <4>1 DEF Ended, IPTypeOK
    <3>2. CASE ~(Len(sendQ) >= MaxSendQueue)
      <4>1. ops' = (IF Tracks(Head(mail)) THEN ops \cup {Head(mail)} ELSE ops) /\ st' = st
        BY <1>3, <3>2 DEF SendImpl, Accepted
      <4> QED BY <4>1
    <3> QED BY <3>1, <3>2
  <2> QED BY <2>1, <2>2, KeepsSlots
<1>4. ASSUME UNCHANGED <<next, by, slot, ops, st>>, \A x \in bound : x \in bound' PROVE SlotKnown'
  BY <1>4, KeepsSlots
<1>5. CASE AppBind \/ ReadyWrite \/ UNCHANGED vars
  BY <1>4, <1>5 DEF AppBind, ReadyWrite, vars, callerVars, opVars, slotVars
<1>6. ASSUME NEW m \in Messages, Drop(m) PROVE SlotKnown'
  BY <1>4, <1>6 DEF Drop, callerVars, slotVars
<1>7. ASSUME NEW m \in Messages, NEW state \in GiveUps, GiveUp(m, state) PROVE SlotKnown'
  <2>1. UNCHANGED <<next, by, slot, ops, bound>>  BY <1>7 DEF GiveUp, callerVars, slotVars
  <2>2. \A x \in Messages : st[x] = "failed" => st'[x] = "failed"
    BY <1>7 DEF GiveUp, IPTypeOK
  <2> QED BY <2>1, <2>2, KeepsSlots
<1>8. ASSUME NEW m \in Messages, Reply(m) PROVE SlotKnown'
  <2>1. UNCHANGED <<next, by, bound>> /\ ops' = ops \ {m} /\ slot' = Released({m})
    BY <1>8 DEF Reply, callerVars
  <2>2. \A x \in Messages : st[x] = "failed" => st'[x] = "failed"
    BY <1>8 DEF Reply, Ended, IPTypeOK
  <2> QED BY <2>1, <2>2, KeepsSlots DEF Released
<1>9. ASSUME NEW m \in Messages, ReleaseOperation(m) PROVE SlotKnown'
  <2>1. UNCHANGED <<next, by, st>> /\ bound' = bound \ {m} /\ ops' = ops \ {m}
        /\ slot' = Released({m})
    BY <1>9 DEF ReleaseOperation, callerVars
  <2> QED BY <2>1, KeepsSlots DEF Released
<1>10. CASE Close
  <2>1. UNCHANGED <<next, by>> /\ slot' = Released(ops) BY <1>10 DEF Close, callerVars
  <2>2. \A x \in Messages : st[x] = "failed" => st'[x] = "failed"
    BY <1>10 DEF Close, Ended
  <2> QED BY <2>1, <2>2, KeepsSlots DEF Released
<1>11. CASE Destroy
  <2>1. UNCHANGED <<next, by>>
        /\ slot' = [m \in Messages |-> IF slot[m] = "held" THEN "released" ELSE slot[m]]
    BY <1>11 DEF Destroy, callerVars
  <2>2. \A x \in Messages : st[x] = "failed" => st'[x] = "failed"
    BY <1>11 DEF Destroy, Ended
  <2> QED BY <2>1, <2>2, KeepsSlots
<1> QED BY <1>1, <1>2, <1>3, <1>5, <1>6, <1>7, <1>8, <1>9, <1>10, <1>11 DEF IPNext

LEMMA OrderInvariant == IPSafe => [](IPTypeOK /\ InOrder /\ SlotKnown)
<1>1. InOrder /\ SlotKnown /\ IPTypeOK /\ [IPNext]_vars => (InOrder /\ SlotKnown)'
  BY StepOrder, StepSlots
<1> QED BY IncProtocolTypeCorrect, InitOrder, <1>1, PTL DEF IPSafe

(* The messages a thread sends reach the device in the order of their sequence  *)
(* numbers, whether they are posted or put into m_sendQueue at once, and        *)
(* whatever is refused or dropped on the way.                                   *)
THEOREM IncProtocolSendOrder == IPSafe => []SendOrder
<1>1. IPTypeOK /\ InOrder => SendOrder
  <2> SUFFICES ASSUME IPTypeOK, InOrder PROVE SendOrder  OBVIOUS
  <2>1. wire \in Seq(Messages) /\ sendQ \in Seq(Messages) /\ mail \in Seq(Messages)
    BY DEF IPTypeOK
  <2> DEFINE w == wire \o sendQ
             line == w \o mail
  <2>2. w \in Seq(Messages) /\ \A x : In(x, w) <=> In(x, wire) \/ In(x, sendQ)
    BY <2>1, InConcat
  <2>3. Ascends(by, w)  BY <2>1, AscendsConcat DEF InOrder
  <2> HIDE DEF w
  <2>4. Precedes(by, w, mail)  BY <2>2 DEF InOrder, Precedes
  <2>5. Ascends(by, mail)  BY DEF InOrder
  <2>6. Ascends(by, w \o mail)  BY <2>1, <2>2, <2>3, <2>4, <2>5, AscendsConcat
  <2> QED BY <2>6 DEF w, SendOrder, Ascends
<1> QED BY OrderInvariant, <1>1, PTL

(* A slot that a frame of the IO thread holds is one that an answer, a          *)
(* releaseOperation() or the close gives back, except after a refused frame.    *)
THEOREM IncProtocolSlotFreed == IPSafe => []SlotFreed
<1>1. SlotKnown => SlotFreed  BY DEF SlotKnown, SlotFreed
<1> QED BY OrderInvariant, <1>1, PTL
==============================================================================
