----------------------------- MODULE IncOperation -----------------------------
(* One iINCOperation between the two threads that reach it: "app" called       *)
(* sendMessage() and owns m_timer, "io" runs the protocol that completes the   *)
(* operation.  Both may change m_state, and either may drop the last           *)
(* reference.  invokeMethod(&m_timer, ...) is a direct call in app and a       *)
(* posted call from io.                                                        *)
EXTENDS Integers, Sequences

CONSTANTS Timeouts,     \* the values given to setTimeout(), in milliseconds
          MaxCalls      \* bound: calls app makes on the operation

ASSUME ParametersAssumption == Timeouts \subseteq Nat /\ MaxCalls \in Nat

VARIABLES state,        \* m_state
          error,        \* m_errorCode and m_resultData: "unset", "ok", "failed"
          callback, userData,   \* m_finishedCallback, m_finishedUserData: set or not
          called,       \* the calls of the callback: state and userData they saw
          alarm,        \* the timer of m_alarmId: its timeout, or Off
          fired,        \* the timeout of the alarm that fired, or Off
          deleter,      \* m_deleterId # 0
          posted,       \* calls posted to m_timer
          pc, goal,     \* a thread: where it is, and the state it wants to set
          holds,        \* a thread: has a reference
          made,         \* calls app made so far
          destroyed

result == <<state, error>>
notify == <<callback, userData, called>>
timer == <<alarm, fired, deleter, posted>>
threads == <<pc, goal>>
opVars == <<result, notify, timer, threads, holds, made, destroyed>>

Threads == {"app", "io"}
Off == -1               \* no timer
NotSet == "none"

States == {"running", "done", "failed", "timeout", "cancelled"}
AppPlaces == {"idle", "arm", "userData", "look", "cas", "stop", "toggleDeleter", "timer",
              "callback", "freed"}
IoPlaces == {"idle", "fill", "cas", "timer", "callback", "deref", "free", "over"}

OpTypeOK ==
    /\ state \in States /\ error \in {"unset", "ok", "failed"}
    /\ callback \in BOOLEAN /\ userData \in BOOLEAN
    /\ {alarm, fired} \subseteq Timeouts \cup {Off} /\ deleter \in BOOLEAN
    /\ posted \in Seq({"stop", "toggleDeleter"})
    /\ pc \in [Threads -> AppPlaces \cup IoPlaces]
    /\ pc["app"] \in AppPlaces /\ pc["io"] \in IoPlaces
    /\ goal \in [Threads -> States \cup {NotSet}]
    /\ holds \in [Threads -> BOOLEAN] /\ destroyed \in BOOLEAN

OpInit ==
    /\ state = "running" /\ error = "unset"
    /\ callback = FALSE /\ userData = FALSE /\ called = {}
    /\ alarm = Off /\ fired = Off /\ deleter = FALSE /\ posted = <<>>
    /\ pc = [t \in Threads |-> "idle"] /\ goal = [t \in Threads |-> NotSet]
    /\ holds = [t \in Threads |-> TRUE]
    /\ made = 0 /\ destroyed = FALSE

At(t, where) == pc[t] = where /\ ~destroyed
Goto(t, where) == pc' = [pc EXCEPT ![t] = where]
(* Where a thread goes on to when setState() returns. *)
Return(t) == IF t = "app" THEN "idle" ELSE "deref"
------------------------------------------------------------------------------
(* setState(): the compare-and-set, the timer, the callback.                   *)
SetState(t, to) ==
    /\ Goto(t, "cas") /\ goal' = [goal EXCEPT ![t] = to]

CasLoses(t) ==
    /\ At(t, "cas") /\ state # "running"
    /\ Goto(t, Return(t))
    /\ UNCHANGED <<result, notify, timer, goal, holds, made, destroyed>>

CasWins(t) ==
    /\ At(t, "cas") /\ state = "running"
    /\ state' = goal[t]
    /\ Goto(t, "timer")
    /\ UNCHANGED <<error, notify, timer, goal, holds, made, destroyed>>

StopForgotten(t) ==     \* mutant: setState() leaves the alarm running
    /\ At(t, "timer")
    /\ Goto(t, "callback")
    /\ UNCHANGED <<result, notify, timer, goal, holds, made, destroyed>>

StopTimer(t) ==
    /\ At(t, "timer")
    /\ IF t = "app" THEN alarm' = Off /\ posted' = posted
                    ELSE posted' = Append(posted, "stop") /\ alarm' = alarm
    /\ Goto(t, "callback")
    /\ UNCHANGED <<result, notify, fired, deleter, goal, holds, made, destroyed>>

(* The callback runs with what m_finishedUserData holds at that moment. *)
Seen == [state |-> state, error |-> error, userData |-> userData]

CallBack(t) ==
    /\ At(t, "callback")
    /\ called' = IF callback THEN called \cup {Seen} ELSE called
    /\ Goto(t, Return(t))
    /\ UNCHANGED <<result, callback, userData, timer, goal, holds, made, destroyed>>
------------------------------------------------------------------------------
(* Calls of app; each is made with a pointer in hand.                          *)
Calls == pc["app"] = "idle" /\ holds["app"] /\ made < MaxCalls /\ made' = made + 1

Cancel ==
    /\ Calls
    /\ SetState("app", "cancelled")
    /\ UNCHANGED <<result, notify, timer, holds, destroyed>>

SetTimeout(ms) ==       \* a finished operation takes no timeout
    /\ Calls /\ state = "running"
    /\ Goto("app", "arm") /\ fired' = ms
    /\ UNCHANGED <<result, notify, alarm, deleter, posted, goal, holds, destroyed>>

ToggleAlarm ==
    /\ At("app", "arm")
    /\ alarm' = fired /\ fired' = Off
    /\ Goto("app", "idle")
    /\ UNCHANGED <<result, notify, deleter, posted, goal, holds, made, destroyed>>

SetFinishedCallback ==
    /\ Calls
    /\ callback' = TRUE
    /\ Goto("app", "userData")
    /\ UNCHANGED <<result, userData, called, timer, goal, holds, destroyed>>

SetUserData ==
    /\ At("app", "userData")
    /\ userData' = TRUE
    /\ Goto("app", "look")
    /\ UNCHANGED <<result, callback, called, timer, goal, holds, made, destroyed>>

LookIgnores ==          \* mutant: an operation that has finished is not called back
    /\ At("app", "look")
    /\ Goto("app", "idle")
    /\ UNCHANGED <<result, notify, timer, goal, holds, made, destroyed>>

Look ==                 \* too late for setState() to call it?
    /\ At("app", "look")
    /\ called' = IF state # "running" THEN called \cup {Seen} ELSE called
    /\ Goto("app", "idle")
    /\ UNCHANGED <<result, callback, userData, timer, goal, holds, made, destroyed>>

(* m_timer goes with the operation: its timers and the calls posted to it.     *)
Delete ==
    /\ destroyed' = TRUE /\ alarm' = Off /\ deleter' = FALSE /\ posted' = <<>>
    /\ UNCHANGED fired

(* The pointer goes; the last one frees, in the timer's own thread.            *)
AppDrop ==
    /\ pc["app"] = "idle" /\ holds["app"]
    /\ holds' = [holds EXCEPT !["app"] = FALSE]
    /\ IF holds["io"] THEN UNCHANGED <<timer, destroyed>> ELSE Delete
    /\ UNCHANGED <<result, notify, threads, made>>
------------------------------------------------------------------------------
(* The event loop of app: posted calls and the two timers of m_timer.          *)
RunPosted ==
    /\ At("app", "idle") /\ posted # <<>>
    /\ Goto("app", Head(posted))
    /\ posted' = Tail(posted)
    /\ UNCHANGED <<result, notify, alarm, fired, deleter, goal, holds, made, destroyed>>

Stop ==
    /\ At("app", "stop")
    /\ alarm' = Off
    /\ Goto("app", "idle")
    /\ UNCHANGED <<result, notify, fired, deleter, posted, goal, holds, made, destroyed>>

ToggleDeleterOff ==     \* mutant: stops the alarm and starts nothing
    /\ At("app", "toggleDeleter")
    /\ alarm' = Off
    /\ Goto("app", "idle")
    /\ UNCHANGED <<result, notify, fired, deleter, posted, goal, holds, made, destroyed>>

ToggleDeleter ==
    /\ At("app", "toggleDeleter")
    /\ alarm' = Off /\ deleter' = TRUE
    /\ Goto("app", "idle")
    /\ UNCHANGED <<result, notify, fired, posted, goal, holds, made, destroyed>>

AlarmFires ==
    /\ At("app", "idle") /\ alarm # Off
    /\ fired' = alarm /\ alarm' = Off
    /\ SetState("app", "timeout")
    /\ UNCHANGED <<result, notify, deleter, posted, holds, made, destroyed>>

DeleterFires ==
    /\ At("app", "idle") /\ deleter
    /\ Delete
    /\ UNCHANGED <<result, notify, threads, holds, made>>

(* The operation was destroyed under app: what follows is not defined.         *)
TouchFreed ==
    /\ destroyed /\ pc["app"] \notin {"idle", "freed"}
    /\ Goto("app", "freed")
    /\ UNCHANGED <<result, notify, timer, goal, holds, made, destroyed>>
------------------------------------------------------------------------------
(* The protocol: setResult() for an answer or an error, cancel() in its        *)
(* destructor; then deref().                                                   *)
IoResult(outcome) ==
    /\ At("io", "idle")
    /\ IF state = "running"
       THEN /\ Goto("io", "fill")
            /\ goal' = [goal EXCEPT !["io"] = IF outcome = "ok" THEN "done" ELSE "failed"]
       ELSE Goto("io", "deref") /\ goal' = goal
    /\ UNCHANGED <<result, notify, timer, holds, made, destroyed>>

FillUnchecked ==        \* mutant: the error code stays as it was
    /\ At("io", "fill")
    /\ Goto("io", "cas")
    /\ UNCHANGED <<result, notify, timer, goal, holds, made, destroyed>>

Fill ==
    /\ At("io", "fill")
    /\ error' = IF goal["io"] = "done" THEN "ok" ELSE "failed"
    /\ Goto("io", "cas")
    /\ UNCHANGED <<state, notify, timer, goal, holds, made, destroyed>>

IoCancel ==
    /\ At("io", "idle")
    /\ SetState("io", "cancelled")
    /\ UNCHANGED <<result, notify, timer, holds, made, destroyed>>

IoFreeAlways ==         \* mutant: frees also while app has a pointer
    /\ At("io", "deref")
    /\ holds' = [holds EXCEPT !["io"] = FALSE]
    /\ Goto("io", "free")
    /\ UNCHANGED <<result, notify, timer, goal, made, destroyed>>

IoDeref ==
    /\ At("io", "deref")
    /\ holds' = [holds EXCEPT !["io"] = FALSE]
    /\ Goto("io", IF holds["app"] THEN "over" ELSE "free")
    /\ UNCHANGED <<result, notify, timer, goal, made, destroyed>>

(* doFree(): an armed timer hands the delete to its own thread.                *)
IoFree ==
    /\ At("io", "free")
    /\ Goto("io", "over")
    /\ IF alarm # Off
       THEN /\ posted' = Append(posted, "toggleDeleter")
            /\ UNCHANGED <<alarm, fired, deleter, destroyed>>
       ELSE Delete
    /\ UNCHANGED <<result, notify, goal, holds, made>>

EitherThread(t) == CasLoses(t) \/ CasWins(t) \/ StopTimer(t) \/ CallBack(t)
AppCalls ==
    \/ Cancel \/ SetFinishedCallback \/ AppDrop
    \/ \E ms \in Timeouts : SetTimeout(ms)
AppGoesOn == ToggleAlarm \/ SetUserData \/ Look \/ Stop \/ ToggleDeleter \/ TouchFreed
AppLoop == RunPosted \/ AlarmFires \/ DeleterFires
IoStarts == IoCancel \/ \E outcome \in {"ok", "failed"} : IoResult(outcome)
IoGoesOn == Fill \/ IoDeref \/ IoFree

OpNext ==
    \/ \E t \in Threads : EitherThread(t)
    \/ AppCalls \/ AppGoesOn \/ AppLoop \/ IoStarts \/ IoGoesOn

(* A thread inside a call goes on; app's event loop runs posted calls and      *)
(* expired timers.  Nothing makes app call or io complete.                     *)
OpFairness ==
    /\ WF_opVars(EitherThread("app") \/ AppGoesOn)
    /\ WF_opVars(EitherThread("io") \/ IoGoesOn)
    /\ WF_opVars(RunPosted) /\ WF_opVars(DeleterFires)

OpSafe == OpInit /\ [][OpNext]_opVars
OpSpec == OpSafe /\ OpFairness
------------------------------------------------------------------------------
(* Whoever sees the operation done or failed sees the result that goes with    *)
(* it, also when a timeout or a cancel raced the answer.                       *)
ResultMatchesState ==
    /\ state = "done" => error = "ok"
    /\ state = "failed" => error = "failed"

(* The race between setFinishedCallback() and setState(): one of them sees the *)
(* other, so a callback that was set is called once the operation is done,     *)
(* failed or timed out.  (Of cancel() iincoperation.h says "callback won't be  *)
(* called"; setState() calls it there too, and nothing is stated of that end.) *)
CallbackIsCalled ==
    (callback /\ state \notin {"running", "cancelled"}) ~> (called # {} \/ destroyed)

(* No alarm outlives the operation's end: once setState() has stopped it, here *)
(* or by a posted stop(), neither a setTimeout() that was under way nor one    *)
(* that comes later leaves a timer behind.                                     *)
AlarmIsStopped ==
    (/\ state # "running" /\ pc["io"] # "timer" /\ pc["app"] = "idle"
     /\ \A i \in DOMAIN posted : posted[i] # "stop") => alarm = Off

(* The operation is destroyed only when both threads have let it go ...        *)
FreedByLast == destroyed \/ deleter => ~holds["app"] /\ ~holds["io"]

(* ... and then it is, also when the delete goes through the timer's thread.   *)
LastFrees == (~holds["app"] /\ ~holds["io"]) ~> destroyed

(* iincoperation.h:49 "iSharedDataPointer<iINCOperation> for automatic         *)
(* lifecycle management": it is not destroyed while a thread is inside it.     *)
NotFreedInUse == destroyed => pc["app"] = "idle"
==============================================================================
