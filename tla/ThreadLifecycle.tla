--------------------------- MODULE ThreadLifecycle ---------------------------
(* One iThread object, the callers that start, stop, await and destroy it, and  *)
(* the system thread ("the worker") that a start() creates and that runs exec().*)
(* A section under m_mutex is one step when nothing is done inside it that can  *)
(* wait; the worker's end holds the mutex while it runs deferred deletes, gives  *)
(* it up to close the dispatcher, and takes it again.  The list of event loops   *)
(* and quitNow have the mutex of the posted events, taken inside the other.      *)
EXTENDS Integers

CONSTANTS Callers,
          MaxRuns       \* bound: starts that create a worker

ASSUME ThreadAssumption == MaxRuns \in Nat

VARIABLES thread,   \* m_running, m_finished, m_isInFinish, m_exited, quitNow
          mutex,    \* the worker holds m_mutex
          worker,   \* how far the worker is, "none" without one
          loop,     \* the event loop of exec(): "none", "runs" or "exits"
          call,     \* [caller -> what it is inside]
          runs,     \* workers created so far
          told,     \* the last run that exit() was called for
          deleted   \* the object has been destroyed

vars == <<thread, mutex, worker, loop, call, runs, told, deleted>>

Idle == [at |-> "idle"]
In(c, places) == call[c].at \in places
Init ==
    /\ thread = [running |-> FALSE, finished |-> FALSE, inFinish |-> FALSE,
                 exited |-> FALSE, quitNow |-> FALSE]
    /\ mutex = FALSE /\ worker = "none" /\ loop = "none" /\ deleted = FALSE
    /\ call = [c \in Callers |-> Idle] /\ runs = 0 /\ told = 0
------------------------------------------------------------------------------
(* Callers.  The program destroys the object when it has seen it finished or in *)
(* its finish and no other call is under way, and begins none after that.       *)
(* A wait on the condition may return without a broadcast (pthread_cond_wait()  *)
(* does): what goes on after one does not need `woken`, only Fairness does.     *)
Free == ~mutex /\ ~deleted
Others(c, places) == \A d \in Callers \ {c} : In(d, places)
Calls(c) == ~deleted /\ In(c, {"idle"}) /\ Others(c, {"idle", "starts", "starting", "waiting"})
Begins(c, f) == call' = [call EXCEPT ![c] = f]

(* start(), from the test of m_running on. *)
Creates(c) ==
    /\ Begins(c, Idle)
    /\ IF thread.running THEN UNCHANGED <<thread, worker, runs>>
       ELSE /\ runs < MaxRuns /\ runs' = runs + 1
            /\ \E ok \in BOOLEAN :
                  /\ thread' = [thread EXCEPT !.running = ok, !.finished = FALSE, !.exited = FALSE]
                  /\ worker' = IF ok THEN "born" ELSE "none"
    /\ UNCHANGED <<mutex, loop, told, deleted>>

Start(c) ==
    /\ Calls(c)
    /\ Begins(c, [at |-> "starts", woken |-> FALSE, after |-> runs])
    /\ UNCHANGED <<thread, mutex, worker, loop, runs, told, deleted>>
StartsAtOnce(c) ==              \* mutant: does not wait for a finish under way
    Free /\ In(c, {"starts"}) /\ Creates(c)
Starts(c) ==
    /\ Free /\ In(c, {"starts"})
    /\ IF thread.inFinish
       THEN /\ Begins(c, [call[c] EXCEPT !.at = "starting"])
            /\ UNCHANGED <<thread, mutex, worker, loop, runs, told, deleted>>
       ELSE Creates(c)
StartGoesOn(c) == Free /\ In(c, {"starting"}) /\ Creates(c)

(* exit(): m_exited for an exec() still to come, quitNow for its loop. *)
Exit(c) ==
    /\ Calls(c) /\ ~mutex
    /\ thread' = [thread EXCEPT !.exited = TRUE, !.quitNow = TRUE]
    /\ loop' = IF loop = "none" THEN "none" ELSE "exits"
    /\ told' = IF thread.running THEN runs ELSE told
    /\ UNCHANGED <<mutex, worker, call, runs, deleted>>

(* wait(), without a time limit. *)
Wait(c) ==
    /\ Calls(c) /\ ~mutex /\ thread.running
    /\ Begins(c, [at |-> "waiting", woken |-> FALSE])
    /\ UNCHANGED <<thread, mutex, worker, loop, runs, told, deleted>>
WaitGoesOn(c) ==
    /\ Free /\ In(c, {"waiting"})
    /\ Begins(c, IF thread.running THEN [call[c] EXCEPT !.woken = FALSE] ELSE Idle)
    /\ UNCHANGED <<thread, mutex, worker, loop, runs, told, deleted>>

(* ~iThread(): waits for a finish under way, and goes. *)
Destroy(c) ==
    /\ Free /\ In(c, {"idle"}) /\ Others(c, {"idle"}) /\ (~thread.running \/ thread.inFinish)
    /\ IF thread.inFinish THEN Begins(c, [at |-> "deleting", woken |-> FALSE]) /\ UNCHANGED deleted
       ELSE deleted' = TRUE /\ UNCHANGED call
    /\ UNCHANGED <<thread, mutex, worker, loop, runs, told>>
DestroyGoesOn(c) ==
    /\ Free /\ In(c, {"deleting"}) /\ ~thread.running
    /\ deleted' = TRUE /\ Begins(c, Idle)
    /\ UNCHANGED <<thread, mutex, worker, loop, runs, told>>
------------------------------------------------------------------------------
(* The worker: internalThreadFunc(), exec(). *)
Step(from, to) == worker = from /\ worker' = to
RunBegins ==
    /\ ~mutex /\ Step("born", "entering")
    /\ UNCHANGED <<thread, mutex, loop, call, runs, told, deleted>>

(* exec() looks at m_exited, which forgets quitNow ... *)
ExecLooksNot ==                 \* mutant: exec() relies on quitNow alone
    /\ ~mutex /\ worker = "entering"
    /\ thread' = [thread EXCEPT !.quitNow = FALSE] /\ worker' = "looking"
    /\ UNCHANGED <<mutex, loop, call, runs, told, deleted>>
ExecLooks ==
    /\ ~mutex /\ worker = "entering"
    /\ thread' = [thread EXCEPT !.quitNow = FALSE, !.exited = FALSE]
    /\ worker' = IF thread.exited THEN "leaving" ELSE "looking"
    /\ UNCHANGED <<mutex, loop, call, runs, told, deleted>>

(* ... and the loop looks at quitNow under the mutex of the events, as exit().  *)
LoopBegins ==
    /\ worker = "looking"
    /\ IF thread.quitNow THEN worker' = "ending" /\ UNCHANGED loop
       ELSE worker' = "looping" /\ loop' = "runs"
    /\ UNCHANGED <<thread, mutex, call, runs, told, deleted>>
LoopEnds ==
    /\ loop = "exits" /\ Step("looping", "ending") /\ loop' = "none"
    /\ UNCHANGED <<thread, mutex, call, runs, told, deleted>>
ExecEnds ==
    /\ ~mutex /\ Step("ending", "leaving")
    /\ thread' = [thread EXCEPT !.exited = FALSE]
    /\ UNCHANGED <<mutex, loop, call, runs, told, deleted>>

(* The end of the worker, in three parts. *)
Sleeps(c) == In(c, {"starting", "waiting", "deleting"})
Woken == [c \in Callers |-> IF Sleeps(c) THEN [call[c] EXCEPT !.woken = TRUE] ELSE call[c]]
Finish ==
    /\ ~mutex /\ Step("leaving", "deletes") /\ mutex' = TRUE
    /\ thread' = [thread EXCEPT !.inFinish = TRUE]
    /\ UNCHANGED <<loop, call, runs, told, deleted>>
FinishedTwice ==                \* mutant: not running before the dispatcher is closed
    /\ Step("deletes", "closes") /\ mutex' = FALSE
    /\ thread' = [thread EXCEPT !.running = FALSE, !.finished = TRUE]
    /\ UNCHANGED <<loop, call, runs, told, deleted>>
Unlock ==
    /\ Step("deletes", "closes") /\ mutex' = FALSE
    /\ UNCHANGED <<thread, loop, call, runs, told, deleted>>
FinishedUnheard ==              \* mutant: wakes one of the waiting
    /\ ~mutex /\ Step("closes", "none")
    /\ thread' = [thread EXCEPT !.running = FALSE, !.finished = TRUE, !.inFinish = FALSE]
    /\ \/ call' = call /\ \A c \in Callers : ~Sleeps(c)
       \/ \E c \in Callers : call' = [call EXCEPT ![c] = Woken[c]] /\ Sleeps(c)
    /\ UNCHANGED <<mutex, loop, runs, told, deleted>>
Finished ==
    /\ ~mutex /\ Step("closes", "none")
    /\ thread' = [thread EXCEPT !.running = FALSE, !.finished = TRUE, !.inFinish = FALSE]
    /\ call' = Woken
    /\ UNCHANGED <<mutex, loop, runs, told, deleted>>
------------------------------------------------------------------------------
GoesOn(c) == Starts(c) \/ StartGoesOn(c) \/ WaitGoesOn(c) \/ DestroyGoesOn(c)
Work == RunBegins \/ ExecLooks \/ LoopBegins \/ LoopEnds \/ ExecEnds \/ Finish \/ Unlock \/ Finished
Next ==
    \/ \E c \in Callers : Start(c) \/ Exit(c) \/ Wait(c) \/ Destroy(c) \/ GoesOn(c)
    \/ Work

(* The worker goes on when it can.  A caller that can go on again and again gets *)
(* the mutex in turn, whoever else takes it, but a sleeping one only when it was *)
(* woken.  Nobody has to call exit().                                            *)
Heard(c) == Sleeps(c) => call[c].woken
Fairness ==
    /\ WF_vars(Work) /\ \A c \in Callers : SF_vars(Heard(c) /\ GoesOn(c))
Spec == Init /\ [][Next]_vars /\ Fairness
------------------------------------------------------------------------------
TLTypeOK ==
    /\ thread \in [{"running", "finished", "inFinish", "exited", "quitNow"} -> BOOLEAN]
    /\ mutex \in BOOLEAN /\ deleted \in BOOLEAN /\ runs \in 0..MaxRuns /\ told \in 0..MaxRuns
    /\ worker \in {"none", "born", "entering", "looking", "looping", "ending", "leaving",
                   "deletes", "closes"}
    /\ loop \in {"none", "runs", "exits"}

(* Nobody can start a second worker, or destroy the object, before the worker   *)
(* has made its last access to it.                                              *)
WorkerOwnsThread == worker # "none" => thread.running /\ ~deleted

(* start() does not return on a worker that had begun to finish when it was     *)
(* called: it has seen one created since.  Or its wait, made once and not in a  *)
(* loop, came back without a broadcast: there is no other way to lose a start().*)
LostSpuriously(c) == In(c, {"starting"}) /\ ~call[c].woken
StartRestarts ==
    [][\A c \in Callers : In(c, {"starts", "starting"}) /\ call'[c].at = "idle" =>
          \/ worker' \notin {"deletes", "closes"} \/ runs' > call[c].after
          \/ LostSpuriously(c)]_vars

(* A run that exit() was called for ends, at whatever point exit() came. *)
ExitEndsRun == \A r \in 1..MaxRuns : told = r ~> (worker = "none" \/ runs > r)

(* A wait() for a run told to end returns. *)
WaitReturns ==
    \A c \in Callers : (In(c, {"waiting"}) /\ told = runs) ~> (~In(c, {"waiting"}) \/ told < runs)
==============================================================================
