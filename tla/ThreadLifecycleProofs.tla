------------------------ MODULE ThreadLifecycleProofs ------------------------
(* Proofs about iThread for every set of callers and any number of runs.        *)
EXTENDS ThreadLifecycle, TLAPS

Flags == [running : BOOLEAN, finished : BOOLEAN, inFinish : BOOLEAN,
          exited : BOOLEAN, quitNow : BOOLEAN]

(* m_running is set for as long as there is a worker, m_isInFinish for as long  *)
(* as it finishes; it gives m_mutex up only to close the dispatcher.            *)
Together ==
    /\ thread \in Flags
    /\ thread.running <=> worker # "none"
    /\ thread.inFinish <=> worker \in {"deletes", "closes"}
    /\ mutex <=> worker = "deletes"
    /\ mutex \in BOOLEAN
    /\ deleted \in BOOLEAN
    /\ deleted => worker = "none"

LEMMA InitTogether == Init => Together
<1> SUFFICES ASSUME Init PROVE Together  OBVIOUS
<1>1. thread \in Flags /\ thread.running = FALSE /\ thread.inFinish = FALSE
  <2> DEFINE t == [running |-> FALSE, finished |-> FALSE, inFinish |-> FALSE,
                   exited |-> FALSE, quitNow |-> FALSE]
  <2>1. thread = t  BY DEF Init
  <2>2. t \in Flags /\ t.running = FALSE /\ t.inFinish = FALSE  BY DEF Flags
  <2> QED BY <2>1, <2>2
<1>2. mutex = FALSE /\ worker = "none" /\ deleted = FALSE  BY DEF Init
<1> QED BY <1>1, <1>2 DEF Together

(* Only start() makes a worker, of an object that is not deleted. *)
LEMMA CallerKeeps ==
    ASSUME Together, NEW c \in Callers,
           Start(c) \/ Exit(c) \/ Wait(c) \/ Destroy(c) \/ GoesOn(c)
    PROVE  Together'
<1> USE DEF Together, Flags
<1>1. CASE Start(c)  BY <1>1 DEF Start
<1>2. CASE Exit(c)  BY <1>2 DEF Exit, Calls
<1>3. CASE Wait(c)  BY <1>3 DEF Wait
<1>4. CASE Destroy(c)
  <2>1. UNCHANGED <<thread, mutex, worker>>  BY <1>4 DEF Destroy
  <2>2. ~thread.inFinish => worker = "none"  BY <1>4, Zenon DEF Destroy
  <2>3. thread.inFinish => deleted' = deleted  BY <1>4, Zenon DEF Destroy
  <2>4. deleted' \in BOOLEAN  BY <1>4, Zenon DEF Destroy
  <2> QED BY <2>1, <2>2, <2>3, <2>4
<1>5. ASSUME Free, Creates(c) PROVE Together'
  <2>1. CASE thread.running  BY <1>5, <2>1 DEF Creates, Free
  <2>2. CASE ~thread.running
    <3>1. PICK ok \in BOOLEAN :
            /\ thread' = [thread EXCEPT !.running = ok, !.finished = FALSE, !.exited = FALSE]
            /\ worker' = IF ok THEN "born" ELSE "none"
      BY <1>5, <2>2 DEF Creates
    <3> QED BY <1>5, <2>2, <3>1 DEF Creates, Free
  <2> QED BY <2>1, <2>2
<1>6. CASE Starts(c)
  <2>1. CASE thread.inFinish  BY <1>6, <2>1 DEF Starts
  <2> QED BY <1>5, <1>6, <2>1 DEF Starts
<1>7. CASE StartGoesOn(c)  BY <1>5, <1>7 DEF StartGoesOn
<1>8. CASE WaitGoesOn(c)  BY <1>8 DEF WaitGoesOn
<1>9. CASE DestroyGoesOn(c)  BY <1>9 DEF DestroyGoesOn
<1> QED BY <1>1, <1>2, <1>3, <1>4, <1>6, <1>7, <1>8, <1>9 DEF GoesOn

(* The worker clears m_running in its last section under the mutex. *)
LEMMA WorkerKeeps == Together /\ Work => Together'
<1> SUFFICES ASSUME Together, Work PROVE Together'  OBVIOUS
<1> USE DEF Together, Flags, Step
<1>1. CASE RunBegins  BY <1>1 DEF RunBegins
<1>2. CASE ExecLooks  BY <1>2 DEF ExecLooks
<1>3. CASE LoopBegins  BY <1>3 DEF LoopBegins
<1>4. CASE LoopEnds  BY <1>4 DEF LoopEnds
<1>5. CASE ExecEnds  BY <1>5 DEF ExecEnds
<1>6. CASE Finish  BY <1>6 DEF Finish
<1>7. CASE Unlock  BY <1>7 DEF Unlock
<1>8. CASE Finished  BY <1>8 DEF Finished
<1> QED BY <1>1, <1>2, <1>3, <1>4, <1>5, <1>6, <1>7, <1>8 DEF Work

(* Spec => []WorkerOwnsThread: internalThreadFunc() never touches a destroyed   *)
(* iThread, and no start() creates a second worker beside it.                   *)
THEOREM WorkerOwnsTheThread == Spec => []WorkerOwnsThread
<1>1. Together /\ [Next]_vars => Together'
  <2> SUFFICES ASSUME Together, [Next]_vars PROVE Together'  OBVIOUS
  <2>1. CASE UNCHANGED vars  BY <2>1 DEF vars, Together
  <2> QED BY <2>1, CallerKeeps, WorkerKeeps DEF Next
<1>2. Together => WorkerOwnsThread
  BY DEF Together, WorkerOwnsThread
<1> QED BY InitTogether, <1>1, <1>2, PTL DEF Spec
Record == {Idle} \cup [at : {"starts", "starting"}, woken : BOOLEAN, after : Nat]
                 \cup [at : {"waiting", "deleting"}, woken : BOOLEAN]

(* What a start() under way remembers: the runs there were when it was called,  *)
(* and, once a broadcast has woken it, that the worker it waited for is gone:   *)
(* one that is there now was created since.                                     *)
Starting ==
    /\ runs \in Nat
    /\ call \in [Callers -> Record]
    /\ \A c \in Callers :
          /\ In(c, {"starts", "starting"}) => call[c].after <= runs
          /\ In(c, {"starts"}) => ~call[c].woken
          /\ In(c, {"starting"}) /\ call[c].woken => worker = "none" \/ runs > call[c].after

LEMMA InitStarting == Init => Starting
BY DEF Init, Starting, In, Idle, Record

(* A call that begins, goes on or ends leaves the others what they remember.    *)
LEMMA OneCall ==
    ASSUME Starting, NEW c \in Callers, NEW r \in Record, Begins(c, r),
           (runs' = runs /\ worker' = worker) \/ runs' = runs + 1,
           r.at = "starts" => r.after <= runs /\ ~r.woken,
           r.at = "starting" => r.after <= runs /\ ~r.woken
    PROVE  Starting'
<1> USE DEF Starting, In
<1>1. call' = [call EXCEPT ![c] = r]  BY DEF Begins
<1>2. call' \in [Callers -> Record] /\ call'[c] = r /\ \A d \in Callers \ {c} : call'[d] = call[d]
  BY <1>1
<1>3. ASSUME NEW d \in Callers, call[d].at \in {"starts", "starting"} PROVE call[d].after \in Nat
  BY <1>3 DEF Record, Idle
<1>4. r.at \in {"starts", "starting"} => r.after \in Nat  BY DEF Record, Idle
<1> QED BY <1>2, <1>3, <1>4

LEMMA CallerKeepsStarting ==
    ASSUME Together, Starting, NEW c \in Callers,
           Start(c) \/ Exit(c) \/ Wait(c) \/ Destroy(c) \/ GoesOn(c)
    PROVE  Starting'
<1>1. CASE Start(c)
  <2>1. runs \in Nat /\ UNCHANGED <<runs, worker>>  BY <1>1 DEF Start, Starting
  <2>2. Begins(c, [at |-> "starts", woken |-> FALSE, after |-> runs])  BY <1>1 DEF Start
  <2>3. [at |-> "starts", woken |-> FALSE, after |-> runs] \in Record  BY <2>1 DEF Record
  <2> QED BY <2>1, <2>2, <2>3, OneCall
<1>2. ASSUME UNCHANGED <<call, runs, worker>> PROVE Starting'  BY <1>2 DEF Starting, In
<1>3. CASE Exit(c)  BY <1>2, <1>3 DEF Exit
<1>4. CASE Wait(c)
  <2>1. UNCHANGED <<runs, worker>> /\ Begins(c, [at |-> "waiting", woken |-> FALSE])
    BY <1>4 DEF Wait
  <2>2. [at |-> "waiting", woken |-> FALSE] \in Record  BY DEF Record
  <2> QED BY <2>1, <2>2, OneCall
<1>5. CASE Destroy(c)
  <2>1. UNCHANGED <<runs, worker>>  BY <1>5 DEF Destroy
  <2>2. [at |-> "deleting", woken |-> FALSE] \in Record  BY DEF Record
  <2>3. Begins(c, [at |-> "deleting", woken |-> FALSE]) \/ call' = call
    BY <1>5, Zenon DEF Destroy
  <2> QED BY <1>2, <2>1, <2>2, <2>3, OneCall
<1>6. ASSUME Creates(c) PROVE Starting'
  <2>1. Begins(c, Idle)  BY <1>6 DEF Creates
  <2>2. (runs' = runs /\ worker' = worker) \/ runs' = runs + 1  BY <1>6, Zenon DEF Creates
  <2>3. Idle \in Record /\ Idle.at = "idle"  BY DEF Record, Idle
  <2> QED BY <2>1, <2>2, <2>3, OneCall
<1>7. CASE Starts(c)
  <2>1. CASE thread.inFinish
    <3>1. /\ Begins(c, [call[c] EXCEPT !.at = "starting"])
          /\ UNCHANGED <<worker, runs>> /\ call[c].at = "starts"
      BY <1>7, <2>1 DEF Starts, In
    <3>2. call[c] \in [at : {"starts", "starting"}, woken : BOOLEAN, after : Nat]
      BY <3>1 DEF Starting, Record, Idle
    <3>3. call[c].after <= runs /\ ~call[c].woken  BY <3>1 DEF Starting, In
    <3> DEFINE r == [call[c] EXCEPT !.at = "starting"]
    <3>4. r \in Record /\ r.after = call[c].after /\ r.woken = call[c].woken /\ r.at = "starting"
      BY <3>2 DEF Record
    <3> QED BY <3>1, <3>3, <3>4, OneCall
  <2> QED BY <1>6, <1>7, <2>1 DEF Starts
<1>8. CASE StartGoesOn(c)  BY <1>6, <1>8 DEF StartGoesOn
<1>9. CASE WaitGoesOn(c)
  <2>1. UNCHANGED <<worker, runs>> /\ call[c].at = "waiting"  BY <1>9 DEF WaitGoesOn, In
  <2>2. call[c] \in [at : {"waiting", "deleting"}, woken : BOOLEAN]
    BY <2>1 DEF Starting, Record, Idle
  <2> DEFINE r == [call[c] EXCEPT !.woken = FALSE]
  <2>3. r \in Record /\ r.at = "waiting"  BY <2>1, <2>2 DEF Record
  <2>4. Idle \in Record /\ Idle.at = "idle"  BY DEF Record, Idle
  <2>5. Begins(c, r) \/ Begins(c, Idle)  BY <1>9, Zenon DEF WaitGoesOn
  <2> QED BY <2>1, <2>3, <2>4, <2>5, OneCall
<1>10. CASE DestroyGoesOn(c)
  <2>1. UNCHANGED <<worker, runs>> /\ Begins(c, Idle)  BY <1>10 DEF DestroyGoesOn
  <2>2. Idle \in Record /\ Idle.at = "idle"  BY DEF Record, Idle
  <2> QED BY <2>1, <2>2, OneCall
<1> QED BY <1>1, <1>3, <1>4, <1>5, <1>7, <1>8, <1>9, <1>10 DEF GoesOn

(* The worker broadcasts when it is gone, and creates no other. *)
LEMMA WorkerKeepsStarting ==
    ASSUME Together, Starting, Work PROVE Starting'
<1>1. ASSUME UNCHANGED <<call, runs>>, worker # "none" PROVE Starting'
  BY <1>1 DEF Starting, In
<1>2. CASE Finished
  <2>1. call' = Woken /\ runs' = runs /\ worker' = "none"  BY <1>2 DEF Finished, Step
  <2>2. ASSUME NEW c \in Callers
        PROVE  /\ call'[c] \in Record /\ call'[c].at = call[c].at
               /\ call[c].at \in {"starts", "starting"} => call'[c].after = call[c].after
               /\ call[c].at = "starts" => call'[c].woken = call[c].woken
    <3>1. call[c] \in Record  BY DEF Starting
    <3>2. CASE Sleeps(c)
      <4> DEFINE r == [call[c] EXCEPT !.woken = TRUE]
      <4>1. call'[c] = r /\ call[c].at \in {"starting", "waiting", "deleting"}
        BY <2>1, <3>2 DEF Woken, Sleeps, In
      <4>2. CASE call[c] \in [at : {"starts", "starting"}, woken : BOOLEAN, after : Nat]
        <5>1. r \in Record /\ r.at = call[c].at /\ r.after = call[c].after
          BY <4>2 DEF Record
        <5> QED BY <4>1, <5>1
      <4>3. CASE call[c] \in [at : {"waiting", "deleting"}, woken : BOOLEAN]
        <5>1. r \in Record /\ r.at = call[c].at  BY <4>3 DEF Record
        <5>2. call[c].at \notin {"starts", "starting"}  BY <4>3
        <5> QED BY <4>1, <5>1, <5>2
      <4> QED BY <3>1, <4>1, <4>2, <4>3 DEF Record, Idle
    <3>3. CASE ~Sleeps(c)  BY <2>1, <3>1, <3>3 DEF Woken
    <3> QED BY <3>2, <3>3
  <2>3. call' = [c \in Callers |-> call'[c]]  BY <2>1 DEF Woken
  <2>4. call' \in [Callers -> Record]  BY <2>2, <2>3
  <2> QED BY <2>1, <2>2, <2>4 DEF Starting, In
<1> QED BY <1>1, <1>2
    DEF Work, RunBegins, ExecLooks, LoopBegins, LoopEnds, ExecEnds, Finish, Unlock, Step

LEMMA StartingInvariant == Spec => [](Together /\ Starting)
<1>1. Together /\ Starting /\ [Next]_vars => (Together /\ Starting)'
  <2> SUFFICES ASSUME Together, Starting, [Next]_vars PROVE (Together /\ Starting)'  OBVIOUS
  <2>1. CASE UNCHANGED vars  BY <2>1 DEF vars, Together, Starting, In
  <2> QED BY <2>1, CallerKeeps, WorkerKeeps, CallerKeepsStarting, WorkerKeepsStarting DEF Next
<1> QED BY InitTogether, InitStarting, <1>1, PTL DEF Spec

(* A start() that meets a finish does not come back before a later run was      *)
(* created, unless its wait returned without a broadcast: what it is told is    *)
(* enough, also when another start() has the mutex first.                       *)
THEOREM StartIsNotLost == Spec => StartRestarts
<1>1. ASSUME Together, Starting, [Next]_vars, NEW c \in Callers,
             In(c, {"starts", "starting"}), call'[c].at = "idle", ~LostSpuriously(c)
      PROVE  worker' \notin {"deletes", "closes"} \/ runs' > call[c].after
  <2>1. CASE Starts(c) /\ ~thread.inFinish
    <3>1. Creates(c)  BY <2>1 DEF Starts
    <3> QED BY <1>1, <2>1, <3>1 DEF Creates, Together
  <2>2. CASE StartGoesOn(c)
    <3>1. Creates(c) /\ call[c].woken /\ call[c].at = "starting"
      BY <1>1, <2>2 DEF StartGoesOn, LostSpuriously, In
    <3>2. CASE thread.running
      <4>1. worker # "none" /\ UNCHANGED <<worker, runs>>
        BY <1>1, <3>1, <3>2 DEF Creates, Together
      <4> QED BY <1>1, <3>1, <4>1 DEF Starting, In
    <3>3. CASE ~thread.running  BY <3>1, <3>3 DEF Creates
    <3> QED BY <3>2, <3>3
  <2>3. ASSUME ~(Starts(c) /\ ~thread.inFinish), ~StartGoesOn(c) PROVE FALSE
    <3>1. call[c].at \in {"starts", "starting"} /\ call[c] \in Record /\ call \in [Callers -> Record]
      BY <1>1 DEF In, Starting
    <3>2. call # call'  BY <1>1, <3>1
    <3>3. CASE Work
      <4>1. call' = Woken
        BY <3>2, <3>3 DEF Work, RunBegins, ExecLooks, LoopBegins, LoopEnds, ExecEnds,
                          Finish, Unlock, Finished
      <4>2. call[c] \in [at : {"starts", "starting"}, woken : BOOLEAN, after : Nat]
        BY <3>1 DEF Record, Idle
      <4>3. [call[c] EXCEPT !.woken = TRUE].at = call[c].at  BY <4>2
      <4>4. call'[c].at = call[c].at  BY <4>1, <4>3 DEF Woken
      <4> QED BY <1>1, <3>1, <4>4
    <3>4. ASSUME NEW d \in Callers, Start(d) \/ Exit(d) \/ Wait(d) \/ Destroy(d) \/ GoesOn(d)
          PROVE  FALSE
      <4>1. call' = call \/ \E r : Begins(d, r)
        BY <3>4, Zenon DEF Start, Exit, Wait, Destroy, GoesOn, Starts, StartGoesOn, WaitGoesOn,
                           DestroyGoesOn, Creates
      <4>2. \A x \in Callers : x # d => call'[x] = call[x]  BY <3>1, <4>1 DEF Begins
      <4>3. d = c  BY <1>1, <3>1, <4>2
      <4>4. call[c].at \notin {"idle", "waiting", "deleting"}  BY <3>1
      <4>5. ~Start(c) /\ ~Wait(c) /\ ~Destroy(c) /\ ~WaitGoesOn(c) /\ ~DestroyGoesOn(c)
        BY <4>4 DEF Start, Wait, Destroy, WaitGoesOn, DestroyGoesOn, Calls, In
      <4>6. ~Exit(c)  BY <3>2 DEF Exit
      <4>7. Starts(c) /\ thread.inFinish
        BY <2>3, <3>4, <4>3, <4>5, <4>6 DEF GoesOn
      <4>8. call' = [call EXCEPT ![c] = [call[c] EXCEPT !.at = "starting"]]
        BY <4>7 DEF Starts, Begins
      <4>9. call[c] \in [at : {"starts", "starting"}, woken : BOOLEAN, after : Nat]
        BY <3>1 DEF Record, Idle
      <4>10. call'[c].at = "starting"  BY <3>1, <4>8, <4>9
      <4> QED BY <1>1, <4>10
    <3> QED BY <1>1, <3>2, <3>3, <3>4 DEF Next, vars
  <2> QED BY <2>1, <2>2, <2>3
<1>2. Together /\ Starting /\ [Next]_vars =>
        [\A c \in Callers : In(c, {"starts", "starting"}) /\ call'[c].at = "idle" =>
            \/ worker' \notin {"deletes", "closes"} \/ runs' > call[c].after
            \/ LostSpuriously(c)]_vars
  BY <1>1
<1> QED BY StartingInvariant, <1>2, PTL DEF Spec, StartRestarts
==============================================================================
