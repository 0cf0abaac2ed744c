-------------------------- MODULE IncOperationProofs --------------------------
(* Proofs about iINCOperation for every timeout and any number of calls: the   *)
(* result goes with the state, and only the last holder frees.                 *)
EXTENDS IncOperation, SequenceTheorems, TLAPS

Posted(call) == \E i \in DOMAIN posted : posted[i] = call

(* What a thread that is about to change m_state wants it to be. *)
OutcomeOf == [done |-> "ok", failed |-> "failed"]
AppGoal == pc["app"] = "cas" => goal["app"] \in {"cancelled", "timeout"}
IoFills == pc["io"] = "fill" => goal["io"] \in DOMAIN OutcomeOf
IoGoal ==
    pc["io"] = "cas" =>
        \/ goal["io"] = "cancelled"
        \/ goal["io"] \in DOMAIN OutcomeOf /\ error = OutcomeOf[goal["io"]]

(* A result is written by io alone, and io does not write a second one. *)
IoIsPast ==
    state \in DOMAIN OutcomeOf =>
        /\ pc["io"] \in {"timer", "callback", "deref", "free", "over"}
        /\ error = OutcomeOf[state]

(* Who still has a reference, and who is on the way to the delete. *)
IoHolds == holds["io"] <=> pc["io"] \notin {"free", "over"}
IoFreesLast == pc["io"] = "free" => ~holds["app"]
DeleteIsLast ==
    (Posted("toggleDeleter") \/ pc["app"] = "toggleDeleter") =>
        ~holds["app"] /\ ~holds["io"]

(* While an ended operation has an alarm, or is about to get one, its stop() is *)
(* still to come.                                                              *)
StopComes ==
    (state # "running" /\ (alarm # Off \/ (pc["app"] = "arm" /\ ~destroyed))) =>
        pc["io"] = "timer" \/ Posted("stop") \/ pc["app"] \in {"stop", "timer"}

(* The delete takes the timers with it. *)
NoneWhenGone == destroyed => alarm = Off

OpIInv == /\ OpTypeOK /\ AppGoal /\ IoFills /\ IoGoal /\ IoIsPast
          /\ IoHolds /\ IoFreesLast /\ DeleteIsLast /\ FreedByLast
          /\ StopComes /\ NoneWhenGone

(* Appending a call to the queue brings in that call and no other, and keeps   *)
(* the others.                                                                 *)
LEMMA AppendPosts ==
  ASSUME NEW S, NEW s \in Seq(S), NEW c \in S
  PROVE  /\ Append(s, c) \in Seq(S)
         /\ \A i \in DOMAIN Append(s, c) :
                Append(s, c)[i] = c \/ \E j \in DOMAIN s : s[j] = Append(s, c)[i]
         /\ \E i \in DOMAIN Append(s, c) : Append(s, c)[i] = c
         /\ \A j \in DOMAIN s : \E i \in DOMAIN Append(s, c) : Append(s, c)[i] = s[j]
<1>1. Append(s, c) \in Seq(S) /\ Len(Append(s, c)) = Len(s) + 1 /\ Len(s) \in Nat  OBVIOUS
<1>2. DOMAIN s = 1..Len(s) /\ DOMAIN Append(s, c) = 1..Len(s)+1  BY <1>1
<1>3. \A i \in 1..Len(s) : Append(s, c)[i] = s[i]  OBVIOUS
<1>4. Append(s, c)[Len(s)+1] = c  OBVIOUS
<1> QED BY <1>1, <1>2, <1>3, <1>4

(* Taking the head of the queue brings in none and leaves the others. *)
LEMMA TailPosts ==
  ASSUME NEW S, NEW s \in Seq(S), s # <<>>
  PROVE  /\ Tail(s) \in Seq(S) /\ Head(s) \in S
         /\ \E j \in DOMAIN s : s[j] = Head(s)
         /\ \A i \in DOMAIN Tail(s) : \E j \in DOMAIN s : s[j] = Tail(s)[i]
         /\ \A j \in DOMAIN s :
                s[j] = Head(s) \/ \E i \in DOMAIN Tail(s) : Tail(s)[i] = s[j]
<1>1. Head(s) \in S /\ Tail(s) \in Seq(S) /\ Len(Tail(s)) = Len(s) - 1
  BY HeadTailProperties
<1>2. Len(s) \in Nat \ {0} /\ DOMAIN s = 1..Len(s) /\ DOMAIN Tail(s) = 1..Len(s)-1
  BY <1>1, EmptySeq, LenProperties
<1>3. \A i \in 1..Len(s)-1 : Tail(s)[i] = s[i+1]  BY <1>1, HeadTailProperties
<1>4. Head(s) = s[1]  OBVIOUS
<1>5. ASSUME NEW j \in DOMAIN s, s[j] # Head(s)
      PROVE  \E i \in DOMAIN Tail(s) : Tail(s)[i] = s[j]
  <2>1. j-1 \in 1..Len(s)-1 /\ Tail(s)[j-1] = s[j]  BY <1>2, <1>3, <1>4, <1>5
  <2> QED BY <1>2, <2>1
<1> QED BY <1>1, <1>2, <1>3, <1>4, <1>5

(* The empty queue is one, and has no call in it. *)
LEMMA EmptyPosts ==
  ASSUME NEW S
  PROVE  <<>> \in Seq(S) /\ ~ \E i \in DOMAIN <<>> : TRUE
<1>1. <<>> \in Seq(S) /\ Len(<<>>) = 0  BY EmptySeq
<1>2. DOMAIN <<>> = 1..0  BY <1>1, LenProperties
<1> QED BY <1>1, <1>2

PostedCalls == {"stop", "toggleDeleter"}

(* Posting a call to m_timer keeps every other posted call. *)
LEMMA Posting ==
  ASSUME posted \in Seq(PostedCalls), NEW c \in PostedCalls, posted' = Append(posted, c)
  PROVE  /\ posted' \in Seq(PostedCalls) /\ Posted(c)'
         /\ \A d \in PostedCalls : Posted(d) => Posted(d)'
         /\ \A d \in PostedCalls : Posted(d)' => d = c \/ Posted(d)
<1> DEFINE new == Append(posted, c)
<1>1. new \in Seq(PostedCalls)  BY AppendPosts
<1>2. \A i \in DOMAIN new : new[i] = c \/ \E j \in DOMAIN posted : posted[j] = new[i]
  BY AppendPosts
<1>3. \E i \in DOMAIN new : new[i] = c  BY AppendPosts
<1>4. \A j \in DOMAIN posted : \E i \in DOMAIN new : new[i] = posted[j]
  BY AppendPosts
<1>5. posted' = new  OBVIOUS
<1> HIDE DEF new
<1> QED BY <1>1, <1>2, <1>3, <1>4, <1>5 DEF Posted

(* A new operation satisfies the invariant: both threads have a reference. *)
LEMMA OpInitHolds == OpInit => OpIInv
<1>1. OpInit => OpTypeOK
  BY EmptyPosts DEF OpInit, OpTypeOK, Threads, Off, NotSet, States, AppPlaces, IoPlaces
<1>2. OpInit => AppGoal /\ IoFills /\ IoGoal /\ IoIsPast
  BY DEF OpInit, AppGoal, IoFills, IoGoal, IoIsPast, OutcomeOf, Threads
<1>3. OpInit => IoHolds /\ IoFreesLast /\ DeleteIsLast /\ FreedByLast /\ StopComes
         /\ NoneWhenGone
  BY DEF OpInit, IoHolds, IoFreesLast, DeleteIsLast, FreedByLast, StopComes, NoneWhenGone,
         Posted, Threads
<1> QED BY <1>1, <1>2, <1>3 DEF OpIInv

(* Every action keeps the invariant. *)
LEMMA OpStep == OpIInv /\ [OpNext]_opVars => OpIInv'
<1> SUFFICES ASSUME OpIInv, [OpNext]_opVars PROVE OpIInv'
  OBVIOUS
<1> USE DEF OpIInv, OpTypeOK, AppGoal, IoFills, IoGoal, IoIsPast, IoHolds, IoFreesLast,
            DeleteIsLast, FreedByLast, StopComes, NoneWhenGone, Posted, OutcomeOf,
            result, notify, timer, threads, Threads, States, AppPlaces, IoPlaces, NotSet,
            Off, At, Goto
<1>1. CASE CasLoses("app")
  BY <1>1 DEF CasLoses, Return
<1>2. CASE CasWins("app")
  BY <1>2 DEF CasWins
<1>3. CASE StopTimer("app")
  BY <1>3 DEF StopTimer
<1>4. CASE CallBack("app")
  BY <1>4 DEF CallBack, Return
<1>5. CASE CasLoses("io")
  BY <1>5 DEF CasLoses, Return
<1>6. CASE CasWins("io")
  BY <1>6 DEF CasWins
<1>7. CASE StopTimer("io")
  <2> HIDE DEF Posted
  <2>1. /\ posted' = Append(posted, "stop")
        /\ UNCHANGED <<alarm, fired, deleter, goal, holds, destroyed, state, error, callback,
                      userData>>
        /\ pc["io"] = "timer" /\ pc' = [pc EXCEPT !["io"] = "callback"]
    BY <1>7 DEF StopTimer
  <2>2. /\ posted' \in Seq(PostedCalls) /\ Posted("stop")'
        /\ Posted("toggleDeleter")' => Posted("toggleDeleter")
    BY <2>1, Posting DEF PostedCalls
  <2> QED BY <2>1, <2>2 DEF PostedCalls
<1>8. CASE CallBack("io")
  BY <1>8 DEF CallBack, Return
<1>9. CASE Cancel
  BY <1>9 DEF Cancel, Calls, SetState
<1>10. CASE SetFinishedCallback
  BY <1>10 DEF SetFinishedCallback, Calls
<1>11. CASE AppDrop
  <2>1. CASE holds["io"]  BY <1>11, <2>1 DEF AppDrop
  <2>2. CASE ~holds["io"]
    <3>1. /\ posted' = <<>> /\ alarm' = Off /\ deleter' = FALSE /\ destroyed' = TRUE
          /\ fired' = fired /\ pc["app"] = "idle" /\ holds' = [holds EXCEPT !["app"] = FALSE]
          /\ UNCHANGED <<pc, goal, state, error, callback, userData>>
      BY <1>11, <2>2 DEF AppDrop, Delete
    <3>2. posted' \in Seq(PostedCalls) /\ ~Posted("stop")' /\ ~Posted("toggleDeleter")'
      BY <3>1, EmptyPosts DEF Posted
    <3> HIDE DEF Posted
    <3> QED BY <2>2, <3>1, <3>2 DEF PostedCalls
  <2> QED BY <2>1, <2>2
<1>12. CASE ToggleAlarm
  BY <1>12 DEF ToggleAlarm
<1>13. CASE SetUserData
  BY <1>13 DEF SetUserData
<1>14. CASE Look
  BY <1>14 DEF Look
<1>15. CASE Stop
  BY <1>15 DEF Stop
<1>16. CASE ToggleDeleter
  BY <1>16 DEF ToggleDeleter
<1>17. CASE TouchFreed
  BY <1>17 DEF TouchFreed
<1>18. CASE RunPosted
  BY TailPosts, <1>18 DEF RunPosted
<1>19. CASE AlarmFires
  BY <1>19 DEF AlarmFires, SetState
<1>20. CASE DeleterFires
  BY EmptyPosts, <1>20 DEF DeleterFires, Delete
<1>21. CASE IoCancel
  BY <1>21 DEF IoCancel, SetState
<1>22. CASE Fill
  BY <1>22 DEF Fill
<1>23. CASE IoDeref
  BY <1>23 DEF IoDeref
<1>24. CASE IoFree
  <2> HIDE DEF Posted
  <2>1. /\ ~holds["app"] /\ ~holds["io"] /\ holds' = holds
        /\ UNCHANGED <<state, error, callback, userData, goal, fired>>
        /\ pc["io"] = "free" /\ pc' = [pc EXCEPT !["io"] = "over"]
    BY <1>24 DEF IoFree, Delete
  <2>2. CASE alarm # Off
    <3>1. posted' = Append(posted, "toggleDeleter") /\ UNCHANGED <<alarm, deleter, destroyed>>
      BY <1>24, <2>2 DEF IoFree
    <3>2. posted' \in Seq(PostedCalls) /\ (Posted("stop") => Posted("stop")')
      BY <3>1, Posting DEF PostedCalls
    <3> QED BY <2>1, <3>1, <3>2 DEF PostedCalls
  <2>3. CASE alarm = Off
    <3>1. posted' = <<>> /\ alarm' = Off /\ deleter' = FALSE /\ destroyed' = TRUE
      BY <1>24, <2>3 DEF IoFree, Delete
    <3>2. posted' \in Seq(PostedCalls) /\ ~Posted("stop")' /\ ~Posted("toggleDeleter")'
      BY <3>1, EmptyPosts DEF Posted
    <3>3. /\ pc' \in [Threads -> AppPlaces \cup IoPlaces]
          /\ pc'["io"] = "over" /\ pc'["app"] = pc["app"]
      BY <2>1
    <3>4. AppGoal' /\ IoFills' /\ IoGoal' /\ IoIsPast'
      BY <2>1, <3>3
    <3>5. OpTypeOK'
      BY <2>1, <3>1, <3>2, <3>3 DEF PostedCalls
    <3>6. IoHolds' /\ IoFreesLast' /\ DeleteIsLast' /\ FreedByLast' /\ StopComes' /\ NoneWhenGone'
      BY <2>1, <3>1, <3>2, <3>3
    <3> QED BY <3>4, <3>5, <3>6
  <2> QED BY <2>2, <2>3
<1>25. ASSUME NEW ms \in Timeouts, SetTimeout(ms) PROVE OpIInv'
  BY <1>25 DEF SetTimeout, Calls
<1>26. ASSUME NEW outcome \in {"ok", "failed"}, IoResult(outcome) PROVE OpIInv'
  BY <1>26 DEF IoResult
<1>27. CASE UNCHANGED opVars
  BY <1>27 DEF opVars
<1> QED
  BY <1>1, <1>2, <1>3, <1>4, <1>5, <1>6, <1>7, <1>8, <1>9, <1>10, <1>11, <1>12, <1>13, <1>14, <1>15, <1>16, <1>17, <1>18, <1>19, <1>20, <1>21, <1>22, <1>23, <1>24, <1>25, <1>26, <1>27
     DEF OpNext, EitherThread, AppCalls, AppGoesOn, AppLoop, IoStarts, IoGoesOn

(* The inductive invariant holds of every run, fair or not. *)
THEOREM OpIInvariant == OpSafe => []OpIInv
<1>1. OpInit => OpIInv  BY OpInitHolds
<1>2. OpIInv /\ [OpNext]_opVars => OpIInv'  BY OpStep
<1> QED BY <1>1, <1>2, PTL DEF OpSafe

(* Every variable keeps its type, for all timeouts given to setTimeout().      *)
THEOREM OpTypes == OpSafe => []OpTypeOK
<1>1. OpIInv => OpTypeOK  BY DEF OpIInv
<1> QED BY <1>1, OpIInvariant, PTL

(* setResult() fills the result before the compare-and-set publishes the       *)
(* state: nobody finds the operation done or failed without its result.        *)
THEOREM ResultGoesWithState == OpSafe => []ResultMatchesState
<1>1. OpIInv => ResultMatchesState
  BY DEF OpIInv, IoIsPast, OutcomeOf, ResultMatchesState
<1> QED BY <1>1, OpIInvariant, PTL

(* doFree() runs, or is handed to the timer's thread, only when app and io     *)
(* have both given up their references.                                        *)
THEOREM LastHolderFrees == OpSafe => []FreedByLast
<1>1. OpIInv => FreedByLast  BY DEF OpIInv
<1> QED BY <1>1, OpIInvariant, PTL

(* Whatever setTimeout() and the two setState() did to the timer, an operation *)
(* that has ended has no alarm once the calls under way and the posted stop()  *)
(* are done.                                                                   *)
THEOREM EndedHasNoAlarm == OpSafe => []AlarmIsStopped
<1>1. OpIInv => AlarmIsStopped
  BY DEF OpIInv, StopComes, Posted, AlarmIsStopped
<1> QED BY <1>1, OpIInvariant, PTL
==============================================================================
