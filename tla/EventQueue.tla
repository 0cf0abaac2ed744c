------------------------------ MODULE EventQueue ------------------------------
(* The posted-event queue of one thread and the loop that drains it:           *)
(* iCoreApplication::postEvent/sendPostedEvents/removePostedEvents, the move   *)
(* of an object to another thread, iPostEventSource, the iterate loop of       *)
(* iEventDispatcher_generic, iWakeup and iEventLoop::exec/exit.                *)
(*                                                                             *)
(* The owner of the queue is one thread; `stack` holds its running iEventLoops,*)
(* outermost first, each with the sendPostedEvents() pass it is in.  Posters   *)
(* are the other threads.  postEventList.mutex is held by the owner exactly    *)
(* while its top loop is in "scan".  iPostEventSource::serialNumber is only    *)
(* compared with lastSerialNumber: `news` is that comparison.                  *)
EXTENDS Integers, SequencesExt

CONSTANTS Objects,      \* the receivers that live in the thread at the start
          Posters,      \* the other threads
          Exiters,      \* those of them that may call exit()
          Priorities,   \* the event priorities used (a set of integers)
          Movable,      \* the receivers a handler may move to another thread
          MaxEvents,    \* bound: events posted in a behaviour
          MaxDepth,     \* bound: event loops nested in each other
          MaxNests      \* bound: nested loops started in a behaviour

ASSUME MovableAssumption == Movable \subseteq Objects
ASSUME PrioritiesAssumption == Priorities \subseteq Int
ASSUME BoundsAssumption == MaxEvents \in Nat /\ MaxDepth \in Nat \ {0} /\ MaxNests \in Nat

VARIABLES queue,            \* postEventList, null entries included
          startOffset, insertionOffset, recursion,
          canWait, news,    \* iThreadData::canWait, serialNumber # lastSerialNumber
          signaled, fd,     \* iWakeup: m_signaled, and whether the descriptor is readable
          stack,            \* the running event loops of the owner
          ppc,              \* a poster: where it is in wakeUp()
          fate,             \* an event: not yet posted, in the list, or out of it
          posted, doomed,   \* an object: m_postedEvents, m_deleteLaterCalled
          home,             \* an object: "here", "moved" to another thread, "gone"
          nests             \* nested loops started so far

list == <<queue, startOffset, insertionOffset>>
wake == <<news, signaled, fd>>
objs == <<fate, posted, doomed, home>>
vars == <<list, recursion, canWait, wake, stack, ppc, objs, nests>>

Events == 1..MaxEvents          \* numbered in the order they are posted
NullEvent == 0
NormalEventPriority == 0        \* what deleteLater() posts with
DanglingIt == -1                \* an iterator whose list node was erased
EndIt == 0                      \* list::end()

Depth == Len(stack)
Top == stack[Depth]
Live(e) == e.ev # NullEvent
Pending == {i \in startOffset+1 .. Len(queue) : Live(queue[i])}
(* loopLevel + scopeLevel: the loops of the stack, and the handlers running.   *)
Level == Depth + Cardinality({k \in 1..Depth : stack[k].pc \in {"handler", "delete"}})

Loop(pc) == [pc |-> pc, ready |-> FALSE, exit |-> FALSE, it |-> EndIt, obj |-> "none"]

TypeOK ==
    /\ \A i \in 1..Len(queue) :
          /\ queue[i].ev \in Events \cup {NullEvent} /\ queue[i].obj \in Objects
          /\ queue[i].kind \in {"plain", "delete"} /\ queue[i].level \in 0..2*MaxDepth
    /\ startOffset \in 0..Len(queue) /\ insertionOffset \in Nat
    /\ recursion \in 0..MaxDepth
    /\ canWait \in BOOLEAN /\ news \in BOOLEAN /\ signaled \in BOOLEAN /\ fd \in BOOLEAN
    /\ \A k \in 1..Depth :
          /\ stack[k].pc \in {"prepare", "poll", "drained", "check", "dispatch", "scan",
                              "handler", "delete", "test", "freed"}
          /\ stack[k].it \in -1..Len(queue)
    /\ Depth \in 0..MaxDepth
    /\ ppc \in [Posters -> {"idle", "serial", "signal", "write"}]
    /\ fate \in [Events -> {"unposted", "queued", "out"}]
    /\ posted \in [Objects -> 0..MaxEvents]
    /\ home \in [Objects -> {"here", "moved", "gone"}]

Init ==
    /\ queue = <<>> /\ startOffset = 0 /\ insertionOffset = 0 /\ recursion = 0
    /\ canWait = TRUE /\ news = TRUE        \* serialNumber(1), lastSerialNumber(0)
    /\ signaled = FALSE /\ fd = FALSE
    /\ stack = <<Loop("test")>>
    /\ ppc = [p \in Posters |-> "idle"]
    /\ fate = [e \in Events |-> "unposted"]
    /\ posted = [o \in Objects |-> 0] /\ doomed = [o \in Objects |-> FALSE]
    /\ home = [o \in Objects |-> "here"]
    /\ nests = 0

At(pc) == Depth > 0 /\ Top.pc = pc
Goto(pc) == stack' = [stack EXCEPT ![Depth].pc = pc]
Locked == At("scan")

(* What inserting at, or erasing, positions of the list does to the iterators  *)
(* the passes hold: std::list nodes keep their place, end() stays end().       *)
Inserted(st, pos) ==
    [k \in DOMAIN st |-> IF st[k].it >= pos THEN [st[k] EXCEPT !.it = @ + 1] ELSE st[k]]
Erased(st, first, last) ==
    [k \in DOMAIN st |->
        [st[k] EXCEPT !.it = IF @ < first THEN @
                             ELSE IF @ <= last THEN DanglingIt ELSE @ - (last - first + 1)]]

(* iPostEventList::addEvent(): append, or the upper bound after insertionOffset. *)
AddAtEnd(q, pr) == Len(q) + 1       \* mutant: always appends
AddAtLowerBound(q, pr) ==           \* mutant: before the entries of equal priority
    IF q = <<>> \/ Last(q).prio >= pr \/ insertionOffset >= Len(q) THEN Len(q) + 1
    ELSE CHOOSE i \in insertionOffset+1 .. Len(q) :
            /\ q[i].prio <= pr
            /\ \A j \in insertionOffset+1 .. i-1 : q[j].prio > pr

AddAt(q, pr) ==
    IF q = <<>> \/ Last(q).prio >= pr \/ insertionOffset >= Len(q) THEN Len(q) + 1
    ELSE CHOOSE i \in insertionOffset+1 .. Len(q) :
            /\ q[i].prio < pr
            /\ \A j \in insertionOffset+1 .. i-1 : q[j].prio >= pr

(* wakeUp() by the owner itself, which is the only one to drain the descriptor. *)
OwnWake == news' = TRUE /\ signaled' = TRUE /\ fd' = (fd \/ ~signaled)

NextEvent == 1 + Cardinality({e \in Events : fate[e] # "unposted"})

(* postEvent() under the mutex; `wakes` says whether wakeUp() follows.  Only a *)
(* DeferredDelete event remembers the level it was posted at.                  *)
PostWakesNever(o, kind, pr, level, wakes) == \* mutant: needWake read after addEvent()
    LET e == NextEvent
        pos == AddAt(queue, pr)
        entry == [ev |-> e, obj |-> o, kind |-> kind, prio |-> pr,
                  level |-> IF kind = "delete" THEN level ELSE 0]
    IN
    /\ e \in Events /\ home[o] = "here" /\ ~Locked /\ wakes = FALSE
    /\ queue' = InsertAt(queue, pos, entry) /\ stack' = Inserted(stack, pos)
    /\ canWait' = FALSE
    /\ fate' = [fate EXCEPT ![e] = "queued"]
    /\ posted' = [posted EXCEPT ![o] = @ + 1]
    /\ doomed' = [doomed EXCEPT ![o] = @ \/ kind = "delete"]
    /\ UNCHANGED <<startOffset, insertionOffset, recursion, home, nests>>

PostLocked(o, kind, pr, level, wakes) ==
    LET e == NextEvent
        pos == AddAt(queue, pr)
        entry == [ev |-> e, obj |-> o, kind |-> kind, prio |-> pr,
                  level |-> IF kind = "delete" THEN level ELSE 0]
    IN
    /\ e \in Events /\ home[o] = "here" /\ ~Locked
    /\ IF kind = "delete" /\ posted[o] > 0 /\ doomed[o]
       THEN /\ wakes = FALSE
            /\ fate' = [fate EXCEPT ![e] = "out"]
            /\ UNCHANGED <<queue, canWait, posted, doomed, stack>>
       ELSE /\ wakes = (queue = <<>>)
            /\ queue' = InsertAt(queue, pos, entry)
            /\ stack' = Inserted(stack, pos)
            /\ canWait' = FALSE
            /\ fate' = [fate EXCEPT ![e] = "queued"]
            /\ posted' = [posted EXCEPT ![o] = @ + 1]
            /\ doomed' = [doomed EXCEPT ![o] = @ \/ kind = "delete"]
    /\ UNCHANGED <<startOffset, insertionOffset, recursion, home, nests>>

(* removePostedEvents(o, None) from ~iObject while a pass is running: the      *)
(* entries are emptied and stay in the list.                                   *)
EmptiedNot(o) == queue              \* mutant: ~iObject leaves its events in the list
Emptied(o) == [i \in DOMAIN queue |->
                  IF queue[i].obj = o THEN [queue[i] EXCEPT !.ev = NullEvent] ELSE queue[i]]
Destroy(o) ==
    /\ queue' = Emptied(o)
    /\ fate' = [e \in Events |-> IF \E i \in DOMAIN queue : queue[i].obj = o /\ queue[i].ev = e
                                 THEN "out" ELSE fate[e]]
    /\ posted' = [posted EXCEPT ![o] = 0]
    /\ home' = [home EXCEPT ![o] = "gone"]
    /\ UNCHANGED <<startOffset, insertionOffset, recursion, canWait, wake, ppc, doomed, nests>>
------------------------------------------------------------------------------
(* The dispatcher of the owner: eventPrepare(), the poll, eventCheck(),        *)
(* eventDispatch(), with the post-event source as its only source.             *)
SourceReadyBySize == ~canWait       \* mutant: does not look at the serial number
SourceReady == ~canWait \/ news

TestExit ==     \* while (0 == m_exit) processEvents(); ~LoopReference
    /\ At("test")
    /\ stack' = IF Top.exit THEN Front(stack) ELSE [stack EXCEPT ![Depth].pc = "prepare"]
    /\ UNCHANGED <<list, recursion, canWait, wake, ppc, objs, nests>>

Prepare ==
    /\ At("prepare")
    /\ stack' = [stack EXCEPT ![Depth].pc = "poll", ![Depth].ready = SourceReady]
    /\ UNCHANGED <<list, recursion, canWait, wake, ppc, objs, nests>>

(* The poll ends at once when a source is ready, else when the descriptor is   *)
(* readable; acknowledge() empties it ...                                      *)
Poll ==
    /\ At("poll") /\ (Top.ready \/ fd)
    /\ fd' = FALSE
    /\ Goto(IF fd THEN "drained" ELSE "check")
    /\ UNCHANGED <<list, recursion, canWait, news, signaled, ppc, objs, nests>>

(* ... and then, as a second step, clears m_signaled. *)
AcknowledgedOnce ==     \* mutant: m_signaled stays set
    /\ At("drained")
    /\ Goto("check")
    /\ UNCHANGED <<list, recursion, canWait, wake, ppc, objs, nests>>

Acknowledged ==
    /\ At("drained")
    /\ signaled' = FALSE
    /\ Goto("check")
    /\ UNCHANGED <<list, recursion, canWait, news, fd, ppc, objs, nests>>

Check ==        \* not ready: processEvents() iterates again
    /\ At("check")
    /\ Goto(IF Top.ready \/ SourceReady THEN "dispatch" ELSE "prepare")
    /\ UNCHANGED <<list, recursion, canWait, wake, ppc, objs, nests>>

(* iPostEventSource::dispatch() and the head of sendPostedEvents(). *)
Dispatch ==
    LET scans == queue # <<>> IN
    /\ At("dispatch")
    /\ news' = FALSE /\ canWait' = TRUE
    /\ recursion' = IF scans THEN recursion + 1 ELSE recursion
    /\ insertionOffset' = IF scans THEN Len(queue) ELSE insertionOffset
    /\ stack' = [stack EXCEPT ![Depth].ready = FALSE,
                              ![Depth].pc = IF scans THEN "scan" ELSE "test",
                              ![Depth].it = IF startOffset < Len(queue) THEN startOffset + 1
                                            ELSE EndIt]
    /\ UNCHANGED <<queue, startOffset, signaled, fd, ppc, objs, nests>>
------------------------------------------------------------------------------
(* The loop of sendPostedEvents().                                             *)
More == startOffset < Len(queue) /\ Top.it # EndIt /\ startOffset < insertionOffset
Current == queue[Top.it]
NextIt == IF Top.it = Len(queue) THEN EndIt ELSE Top.it + 1

Allowed(e) == e.kind = "plain" \/ e.level > Level \/ e.level = 0

Skip ==
    /\ Locked /\ More /\ Top.it # DanglingIt /\ ~Live(Current)
    /\ startOffset' = startOffset + 1
    /\ stack' = [stack EXCEPT ![Depth].it = NextIt]
    /\ UNCHANGED <<queue, insertionOffset, recursion, canWait, wake, ppc, objs, nests>>

DeferTwice ==           \* mutant: posts the copy and keeps the original
    LET pos == AddAt(queue, Current.prio) IN
    /\ Locked /\ More /\ Top.it # DanglingIt /\ Live(Current) /\ ~Allowed(Current)
    /\ startOffset' = startOffset
    /\ queue' = InsertAt(queue, pos, Current)
    /\ stack' = Inserted([stack EXCEPT ![Depth].it = NextIt], pos)
    /\ UNCHANGED <<insertionOffset, recursion, canWait, wake, ppc, objs, nests>>

DeferCounts ==          \* mutant: re-posts through postEvent(), which counts it again
    LET emptied == [queue EXCEPT ![Top.it].ev = NullEvent]
        pos == AddAt(emptied, Current.prio)
    IN
    /\ Locked /\ More /\ Top.it # DanglingIt /\ Live(Current) /\ ~Allowed(Current)
    /\ startOffset' = startOffset + 1
    /\ queue' = InsertAt(emptied, pos, Current)
    /\ posted' = [posted EXCEPT ![Current.obj] = @ + 1]
    /\ stack' = Inserted([stack EXCEPT ![Depth].it = NextIt], pos)
    /\ UNCHANGED <<insertionOffset, recursion, canWait, wake, ppc, fate, doomed, home, nests>>

Defer ==        \* a DeferredDelete of an outer loop is posted again
    LET emptied == [queue EXCEPT ![Top.it].ev = NullEvent]
        pos == AddAt(emptied, Current.prio)
        added == InsertAt(emptied, pos, Current)
    IN
    /\ Locked /\ More /\ Top.it # DanglingIt /\ Live(Current) /\ ~Allowed(Current)
    /\ startOffset' = startOffset + 1
    /\ queue' = added
    /\ stack' = Inserted([stack EXCEPT ![Depth].it = NextIt], pos)
    /\ UNCHANGED <<insertionOffset, recursion, canWait, wake, ppc, objs, nests>>

Deliver ==
    /\ Locked /\ More /\ Top.it # DanglingIt /\ Live(Current) /\ Allowed(Current)
    /\ startOffset' = startOffset + 1
    /\ queue' = [queue EXCEPT ![Top.it].ev = NullEvent]
    /\ posted' = [posted EXCEPT ![Current.obj] = @ - 1]
    /\ fate' = [fate EXCEPT ![Current.ev] = "out"]
    /\ stack' = [stack EXCEPT ![Depth].it = NextIt, ![Depth].obj = Current.obj,
                              ![Depth].pc = IF Current.kind = "delete" THEN "delete"
                                            ELSE "handler"]
    /\ UNCHANGED <<insertionOffset, recursion, canWait, wake, ppc, doomed, home, nests>>

(* An iterator to an erased node is read: what follows is not defined, and the *)
(* model goes no further.                                                      *)
ReadFreed ==
    /\ Locked /\ More /\ Top.it = DanglingIt
    /\ Goto("freed")
    /\ UNCHANGED <<list, recursion, canWait, wake, ppc, objs, nests>>

CleanUp ==
    /\ Locked /\ ~More
    /\ recursion' = recursion - 1
    /\ IF recursion = 1 /\ ~canWait THEN OwnWake ELSE UNCHANGED wake
    /\ queue' = SubSeq(queue, startOffset + 1, Len(queue))
    /\ insertionOffset' = insertionOffset - startOffset
    /\ startOffset' = 0
    /\ stack' = Erased([stack EXCEPT ![Depth].pc = "test", ![Depth].it = EndIt], 1, startOffset)
    /\ UNCHANGED <<canWait, ppc, objs, nests>>
------------------------------------------------------------------------------
(* What a handler may do before it returns.                                    *)
HandlerPosts(o, kind, pr) ==
    \E wakes \in BOOLEAN :
        /\ At("handler") /\ (kind = "delete" => pr = NormalEventPriority)
        /\ PostLocked(o, kind, pr, Level, wakes)
        /\ IF wakes THEN OwnWake ELSE UNCHANGED wake
        /\ UNCHANGED ppc

HandlerNests ==
    /\ At("handler") /\ Depth < MaxDepth /\ nests < MaxNests
    /\ stack' = Append(stack, Loop("test"))
    /\ nests' = nests + 1
    /\ UNCHANGED <<list, recursion, canWait, wake, ppc, objs>>

HandlerExits ==
    /\ At("handler") /\ ~Top.exit
    /\ stack' = [stack EXCEPT ![Depth].exit = TRUE]
    /\ OwnWake
    /\ UNCHANGED <<list, recursion, canWait, ppc, objs, nests>>

(* What is left of the list when the nodes at `gone` are erased, and where the  *)
(* node that was at i then is.                                                 *)
Rank(gone, i) == 1 + Cardinality({k \in DOMAIN queue \ gone : k < i})
Without(gone) ==
    LET kept == DOMAIN queue \ gone
    IN  [i \in 1..Cardinality(kept) |-> queue[CHOOSE k \in kept : Rank(gone, k) = i]]
Unlinked(st, gone) ==
    [k \in DOMAIN st |->
        [st[k] EXCEPT !.it = IF @ \in gone THEN DanglingIt
                             ELSE IF @ > 0 THEN Rank(gone, @) ELSE @]]

HandlerDeletesErasing(o) == \* mutant: removePostedEvents() erases whatever recursion is
    LET gone == {i \in DOMAIN queue : queue[i].obj = o /\ Live(queue[i])} IN
    /\ At("handler") /\ home[o] = "here"
    /\ \A k \in 1..Depth : stack[k].obj # o
    /\ queue' = Without(gone) /\ stack' = Unlinked(stack, gone)
    /\ fate' = [e \in Events |-> IF \E i \in gone : queue[i].ev = e THEN "out" ELSE fate[e]]
    /\ posted' = [posted EXCEPT ![o] = 0]
    /\ home' = [home EXCEPT ![o] = "gone"]
    /\ UNCHANGED <<startOffset, insertionOffset, recursion, canWait, wake, ppc, doomed, nests>>

HandlerDeletes(o) ==
    /\ At("handler") /\ home[o] = "here"
    /\ \A k \in 1..Depth : stack[k].obj # o
    /\ Destroy(o)
    /\ UNCHANGED stack

(* moveToThread(): the queued events of o are erased from this list.           *)
HandlerMoves(o) ==
    LET gone == {i \in DOMAIN queue : queue[i].obj = o /\ Live(queue[i])} IN
    /\ At("handler") /\ o \in Movable /\ home[o] = "here"
    /\ home' = [home EXCEPT ![o] = "moved"]
    /\ queue' = Without(gone) /\ stack' = Unlinked(stack, gone)
    /\ fate' = [e \in Events |-> IF \E i \in gone : queue[i].ev = e THEN "out" ELSE fate[e]]
    /\ UNCHANGED <<startOffset, insertionOffset, recursion, canWait, wake, ppc, posted,
                   doomed, nests>>

HandlerReturns ==       \* relocks the mutex
    /\ At("handler")
    /\ stack' = [stack EXCEPT ![Depth].pc = "scan", ![Depth].obj = "none"]
    /\ UNCHANGED <<list, recursion, canWait, wake, ppc, objs, nests>>

DeleteReceiver ==       \* the handler of DeferredDelete: delete this
    /\ At("delete")
    /\ Destroy(Top.obj)
    /\ stack' = [stack EXCEPT ![Depth].pc = "scan", ![Depth].obj = "none"]
------------------------------------------------------------------------------
(* Another thread posts an event, or ends a loop; wakeUp() in its three steps. *)
PosterPosts(p, o, kind, pr) ==
    \E wakes \in BOOLEAN :
        /\ ppc[p] = "idle" /\ (kind = "delete" => pr = NormalEventPriority)
        /\ PostLocked(o, kind, pr, 0, wakes)
        /\ ppc' = [ppc EXCEPT ![p] = IF wakes THEN "serial" ELSE "idle"]
        /\ UNCHANGED wake

PosterExits(p, k) ==
    /\ ppc[p] = "idle" /\ k \in 1..Depth /\ ~stack[k].exit
    /\ stack' = [stack EXCEPT ![k].exit = TRUE]
    /\ ppc' = [ppc EXCEPT ![p] = "serial"]
    /\ UNCHANGED <<list, recursion, canWait, wake, objs, nests>>

Serial(p) ==
    /\ ppc[p] = "serial"
    /\ news' = TRUE
    /\ ppc' = [ppc EXCEPT ![p] = "signal"]
    /\ UNCHANGED <<list, recursion, canWait, signaled, fd, stack, objs, nests>>

Signal(p) ==
    /\ ppc[p] = "signal"
    /\ signaled' = TRUE
    /\ ppc' = [ppc EXCEPT ![p] = IF signaled THEN "idle" ELSE "write"]
    /\ UNCHANGED <<list, recursion, canWait, news, fd, stack, objs, nests>>

Write(p) ==
    /\ ppc[p] = "write"
    /\ fd' = TRUE
    /\ ppc' = [ppc EXCEPT ![p] = "idle"]
    /\ UNCHANGED <<list, recursion, canWait, news, signaled, stack, objs, nests>>

Dispatcher == TestExit \/ Prepare \/ Poll \/ Acknowledged \/ Check \/ Dispatch
Pass == Skip \/ Defer \/ Deliver \/ ReadFreed \/ CleanUp
Handler ==
    \/ HandlerNests \/ HandlerExits \/ HandlerReturns \/ DeleteReceiver
    \/ \E o \in Objects : HandlerDeletes(o) \/ HandlerMoves(o)
    \/ \E o \in Objects, kind \in {"plain", "delete"}, pr \in Priorities :
          HandlerPosts(o, kind, pr)
Waking(p) == Serial(p) \/ Signal(p) \/ Write(p)
Poster(p) ==
    \/ Waking(p)
    \/ \E o \in Objects, kind \in {"plain", "delete"}, pr \in Priorities :
          PosterPosts(p, o, kind, pr)
    \/ p \in Exiters /\ \E k \in 1..MaxDepth : PosterExits(p, k)

Next == Dispatcher \/ Pass \/ Handler \/ \E p \in Posters : Poster(p)

(* The owner's thread and a thread inside wakeUp() are scheduled, and a        *)
(* handler returns.  Nothing makes a thread post or exit.                      *)
Fairness ==
    /\ WF_vars(Dispatcher \/ Pass \/ Handler)
    /\ \A p \in Posters : WF_vars(Waking(p))

Spec == Init /\ [][Next]_vars /\ Fairness
------------------------------------------------------------------------------
(* m_postedEvents of an object is the number of its entries still in a list,   *)
(* through deliveries, deferrals, destructors and moves.                       *)
CountsMatch ==
    \A o \in Objects : home[o] = "here" =>
        posted[o] = Cardinality({i \in DOMAIN queue : queue[i].obj = o /\ Live(queue[i])})

(* No posted event is lost or kept twice: it is in the list exactly while it   *)
(* was neither delivered, dropped nor moved, and where a pass will look.       *)
QueuedOnce ==
    \A e \in Events :
        Cardinality({i \in Pending : queue[i].ev = e}) = (IF fate[e] = "queued" THEN 1 ELSE 0)

(* A delivery never reaches an object that is gone or lives elsewhere.         *)
ReceiverAlive == \A i \in Pending : home[queue[i].obj] = "here"

(* Plain events of one priority are delivered in the order they were posted,   *)
(* also through nested loops and moves of other objects.                       *)
Fifo ==
    \A i, j \in Pending :
        /\ i < j /\ queue[i].prio = queue[j].prio
        /\ queue[i].kind = "plain" /\ queue[j].kind = "plain"
        => queue[i].ev < queue[j].ev

(* ithread_p.h: "The list has to be kept sorted by priority": before any loop   *)
(* is nested, and as long as no handler has moved an object away, the part the  *)
(* pass works on and the part posted since are sorted, each by itself.  (A      *)
(* nested pass takes both parts together as it finds them.)                    *)
Sorted ==
    nests = 0 /\ (\A o \in Objects : home[o] # "moved") =>
        \A i, j \in Pending :
            i < j /\ (i > insertionOffset \/ j <= insertionOffset)
                => queue[i].prio >= queue[j].prio

(* The list node a pass is about to read was not erased under it, as long as   *)
(* no handler has moved an object away: removePostedEvents() and the end of a  *)
(* nested pass leave the nodes alone that an outer pass has still to read.     *)
IteratorValid ==
    Locked /\ More /\ (\A o \in Objects : home[o] # "moved") => Top.it # DanglingIt

(* icoreapplication.cpp:327 "the iObject destructor calls this function        *)
(* directly. this can happen while the event loop is in the middle of posting  *)
(* events": so can moveToThread(), whatever has moved.                         *)
PassSurvivesMove == Locked /\ More => Top.it # DanglingIt

(* The owner never sleeps while something it could deliver is in the list and  *)
(* nobody is on the way to wake it up.                                         *)
NoLostWakeUp ==
    At("poll") /\ ~Top.ready /\ (\E i \in Pending : Allowed(queue[i]))
        => fd \/ \E p \in Posters : ppc[p] # "idle"

(* Before a loop is nested it does not: see the run events_sleeps for after.    *)
WakesAlone == nests = 0 => NoLostWakeUp

(* Every event that is posted is delivered, dropped with its receiver, moved,  *)
(* or left behind by a loop that was told to end: again and again none is left,*)
(* while no loop was nested, and no erased node was read after a move.         *)
PostedIsDelivered ==
    []<>((\A e \in Events : fate[e] # "queued") \/ stack = <<>> \/ nests > 0 \/ At("freed"))

(* exit() ends the innermost loop, nested or not, also when it comes between   *)
(* the last look at m_exit and the poll.                                       *)
ExitEnds == []<>(Depth = 0 \/ ~Top.exit \/ At("freed"))
==============================================================================
