# Verification of iShell / iMediaPlayer

This directory models the concurrent core of the repository in TLA+. TLC checks
the models on small instances; TLAPS proves the main safety results for every
value of the constants. `PROJECT.json` lists the parts of the system, the runs,
the source lines every definition stands for, the hazards and the theorems.
Paths below are relative to the repository.

The repository is a C++ framework in the style of Qt: threads with event loops
and posted events, objects with signals and slots, memory blocks shared between
processes, an inter-node communication layer (INC) on top, and a thin multimedia
layer over gstreamer. Its README promises "thread-safe cross-thread signal
delivery" and a "lock-free event loop with priority-based scheduling".

## 1. The system's parts

| part | state | operations | what makes it correct |
|---|---|---|---|
| `iAUpdate` (thread/iaupdate.cpp) | a counter of readers with the index of the current copy in its top bit, a writer's mutex, a semaphore | readBegin, readEnd, writeBegin, writeSwap, writeEnd | readers never see the copy being written; writers do not wait for ever |
| `iMemTrap` (io/imemtrap.cpp) | two copies of a doubly linked list under an `iAUpdate` | construct, update, destroy; the SIGBUS handler | the handler finds only live traps and whole ranges |
| posted events (kernel/icoreapplication.cpp, thread/ithread_p.h) | a list sorted by priority, `startOffset`, `insertionOffset`, `recursion`, `canWait` | postEvent, sendPostedEvents, removePostedEvents | each event delivered once and in order, never to a destroyed receiver |
| event loop (kernel/ieventloop.cpp, thread/ieventdispatcher_generic.cpp, thread/iwakeup.cpp) | the loops running in a thread, ready flags, a wake-up descriptor | exec, exit, prepare, poll, check, dispatch, wakeUp | no lost wake-up; exit ends the loop |
| objects and signals (kernel/iobject.cpp) | thread, children; a list of connections for each signal, one of each receiver, orphans, reference counts | connect, emit, disconnect, moveToThread, destroy | connections are walked while both ends may go away |
| timers (kernel/itimerinfo.cpp) | a sorted list of timers | register, unregister, activate | a slot may remove timers while the list is activated |
| threads (thread/ithread*.cpp) | running, finished, exited, return code | start, exec, exit, wait, finish | wait and exit against start and finish |
| free list (utils/ifreelist.h) | two lock-free lists of indices with serial numbers | next, release, push, pop | no element handed out twice |
| memory blocks (io/imemblock.cpp, isharemem.cpp) | pools of slots, references, import and export tables | acquire, release, import, export, revoke | a slot is reused only when nobody refers to it |
| block queue (io/imemblockq.cpp) | chunks at byte indices, read and write index | push, peek, drop, seek, rewind | it behaves like a sequence of bytes |
| INC protocol (inc/iincprotocol.cpp) | send queue, map of operations, exported slots | sendMessage, sendBinaryData, answers, releaseOperation, close | every operation ends once, its references are exact |
| INC operation (inc/iincoperation.cpp) | state, result, callback, timer, reference count | cancel, setTimeout, setFinishedCallback, setState, free | callers are told once; it is freed once |
| INC context (inc/iinccontext.cpp) | READY, CONNECTING, AUTHORIZING, CONNECTED, FAILED, TERMINATED; connection, IO thread, reconnect timer | connectTo, close, handshake, reconnect | state and connection agree; a closed context stays closed |
| INC stream and server channels (inc/iincstream.cpp, iincserver.cpp, iincconnection.cpp) | DETACHED, ATTACHING, ATTACHED, DETACHING; a channel table | attach, detach, write, read | both sides agree on the channels that are open |
| INC router (inc/iincrouter.cpp) | one bridge for each client, handshake phase, pending forwards | handshake, forward, acknowledge, remove | an acknowledgement reaches the client whose frame it is for |
| transports, messages (inc/i*device.cpp, iincmessage.cpp, iinctagstruct.cpp) | sockets, partial reads and writes | read, write, encode | sequential |
| text, containers, dates, URLs, log (utils/, io/iurl*.cpp, ilog.cpp, iiodevice.cpp) | values | pure functions | sequential |
| multimedia (src/multimedia) | the state of a gstreamer pipeline | play, pause, seek | external |

How they interact. An object lives in a thread; `postEvent()` from any thread
puts an event in that thread's list and calls `wakeUp()` of its dispatcher; the
thread's loop drains the list and runs handlers with the list's mutex released.
`iObject::invokeMethod()` is a direct call in the object's own thread and a posted
call otherwise: this is how INC crosses threads. A context owns a connection,
the connection owns the protocol and its device, and these live in the IO
thread; the application calls `sendMessage()` in its own thread, gets an
operation, and the protocol completes it in the IO thread, while the operation's
timer belongs to the caller's thread. Large payloads travel as numbers of
exported memory blocks, each held until the answer, a release or the close.

The hard behaviours are therefore: steps of two threads around a posted call;
handlers that post, nest, destroy or move while a pass over the list has the
mutex released; timeouts that race answers; closing with calls in flight; and
the lock-free pieces.

## 2. Plan

Order, most important first. The first eight are done.

1. `AUpdate`, then `MemTrap` on top of it: a lock-free protocol and its use from
   a signal handler. Theorems: exclusion, alternation; `MemTrap`
   implements `AUpdate`; its two lists agree and its handler meets living traps only.
2. `EventQueue`: the list, the dispatcher, wake-up and nested loops. Theorems: every
   event in one place, exact counts, order, valid iterators; until a loop is nested,
   the sorted list and no lost wake-up.
3. `IncProtocol`: one module for the caller's and the IO thread. Theorems: exact
   references, reachability of running operations, order of sending, slots given back.
4. `IncOperation`: the races inside one operation. Theorems: result and state, freed
   by the last, no alarm left.
5. `IncSession`: a context, its stream, the IO thread between them and the server:
   handshake, reconnection, channels. They are one module because what matters
   is what the calls posted by one find of the other. Theorems: a failed context is
   tried again, no assertion fails, an attached stream's channel is open.
6. `FreeList`, which implements the abstract `SlotPool`. Theorems: it does, and a slot is
   in one place.
7. `ThreadLifecycle`. Theorems: the worker owns the thread object, a `start()` is lost only
   to a spurious wake-up.
8. `SignalSlot`. Theorems: no call stands at a freed connection, emissions are complete,
   reference counts are exact.
9. `MemExportImport` and `MemBlock`: slots against references, revocation.
10. `IncRouter`: bridges and deferred acknowledgements, composed with the
    protocol's promise (`RefsExact`, one end for each operation).
11. `Timers`: the sorted list, activation while slots register and unregister.
12. `MemBlockQueue`: pure operators against a reference sequence of bytes.

Items 1 to 8 are modelled and their theorems proved; 9 to 12 are what is left.

## 3. The modules

### AUpdate
One atomic access to shared memory for each action. `count` and `which` are the
two fields of `m_readLock`; `sem` is the semaphore; `writeLock` is `m_writeLock`.
Read sections are the constant `Sections` (a thread that is interrupted by a
signal has one section more); each goes in, reads, decrements, posts, as
`readBegin()` and `readEnd()` do, once: a thread that reads again is one more section.
Writers take the lock, change their copy, swap (`Load`, then `Acquire` or one of `CasFails`
and `CasSwaps`) and unlock. `readEnd()` asserts COUNTER(n) > 0 of the counter after its
decrement (iaupdate.cpp:48), and `IX_ASSERT` aborts in every build, so the section that
leaves last ends the process before its post (`Aborted`): after it nothing happens any
more. A post is therefore made only by a section that leaves while another is open. The
constant `Asserts` is TRUE in the run, as in the code; the theorems hold for FALSE too,
the lock as it would be without that line. The 31-bit counter does not overflow: it counts
threads. The lock is checked under its only user, in run memtrap, where
two writers would not differ from one that comes again: the mutex keeps them apart.

### MemTrap
EXTENDS `AUpdate` and gives its sections and writers their work: `op[w].todo` is
the list of steps of a constructor, `update()` or destructor, taken from the
code; `head`, `next` and `prev` are the two copies of the list, and a section is a
signal handler that walks the copy it was given, one node for each step. Faults
come at any address range of the instance.

### EventQueue
The list of one thread (its owner) and the loops that drain it. `stack` holds
the running loops, each with the pass of `sendPostedEvents()` it is in and its
list iterator; the mutex is held by the owner exactly in "scan". A list
iterator is modelled by a position that insertions and erasures move as
`std::list` does, with a value for a node that was erased. Handlers post, exit,
start a loop, destroy an object or move it away, any number of times. Posters
are other threads, whose `wakeUp()` takes three steps; `acknowledge()` takes two.
Two deferred deletes of one object are compressed as `compressEvent()` does; they have
the priority `deleteLater()` gives them, `NormalEventPriority`.
`nests` counts the loops that handlers have started: what the code promises only while
there is one loop is stated under `nests = 0` or with `nests > 0` as an exception
(`Sorted`, `WakesAlone`, `PostedIsDelivered`), so that one run checks it together with
what holds through nested loops.
The passes filtered by receiver or type are not modelled.

### IncProtocol
One client connection and its two threads. A message has a kind: "note" (no
operation), "big" (refused as too large), "copy" and "shm" (an operation; a
shared-memory slot). `mail` holds the posted `sendMessageImpl()` calls, `sendq`
the queue, `ops` the map, `refs` the reference counts, `slot` the slots, `wire` what was written.
The sender's assignment of `m_blockID` is a step of its own, and `BaseIdx` is 0 in the
run: the first frame's id is then taken for none. The device may be
unconnected, writable, partly written, failing, or closed. `Close` and `Destroy`
follow `iINCContext::doClose()`: the IO thread has ended, and the protocol is
deleted behind the calls still posted to it.

### IncOperation
One operation, its caller "app", which owns the timer, and the protocol "io".
`setState()` is four steps: the compare-and-set, the timer's `stop()` (direct or
posted), and the callback. The state seen by each callback is recorded in
`called`. When the operation is destroyed while app is inside it the model goes
no further (`TouchFreed`).

### IncSession
The program's thread owns `app`: the context's and the stream's fields. It runs the
program's calls, the timers, and the calls in `mail`. The IO thread handles the answers
in `net.down` (`HandshakeAck`, `Opened`, `Closed`, `LinkError`); the server handles the requests in
`net.up` (`Server`, by `Serve`). A handler is one step: what
crosses the threads are the posted calls, and these are what the properties are about.
`Reported` is `iINCContext::state()`, which says CONNECTING for a failed context that will
try again, and `shown` is what it said last; the stream has the same pair (`seen`). The link
may break, a timeout may come before an answer, the transport may be refused, and a
repeated handshake is answered again: the code has no other loss, since the link is a
stream. Sequence numbers are those of one connection; channel numbers are not reused.
The answer to an open request is always read whole, as the server writes it
(iincstream.cpp:239-246 is the other case).

A server may refuse the handshake (iinccontext.cpp:392-399). The repository's own never
does: it sends no answer to what it does not accept, and its versions are equal in the bits
that are compared; another implementation may. Then `handleHandshakeAck()` forgets the
handshake, posts `doClose(FAILED)`, and calls `scheduleReconnect()` in the IO thread, where
`startTimer()` is refused and the timer's id becomes 0. When the posted call has run, the
context says CONNECTING with no timer and stays so. A handshake that times out beyond the
limit of attempts ends alike when a router is there to try. `unshaken` marks both, from that end to the next
connection; `FailedIsRetried`, `Settles` and `StreamSettles` except it, and so promise a
retry to a connection that was lost after it stood, or could not be made.

The constant `Patient` is about the program: it does not call `detach()` or `close()` between an
`attach()` and its answer (`AnswerWaits`), and does not connect again before the posted calls
of the last connection have run. The code does not ask for it, and iincstream.cpp:135-142
supports `detach()` there. Past it two properties fail. An answer that is
being handled while `detach()` runs finds a stream that is DETACHED, and the
assertion of iincstream.cpp:249 aborts: run session_hurried. And a `setState(ATTACHED)` that the
answer has posted may run after `detach()` has zeroed `m_channelId`: the stream is
ATTACHED to channel 0, and `AttachedIsOpen` does not hold. So `AssertionsHold` and
`AttachedIsOpen` are claims about `Patient` programs only, in the run session and in the
theorems; `FailedIsRetried` is proved without it. `recalled` marks a `detach()` that went
before the answer through a timeout or a break: it leaves `m_mode` set, and the stream goes on to say ATTACHING
(`StreamSettles` excepts it).

### SlotPool and FreeList
`SlotPool` is what `iFreeList` promises: spare slots, a stack of saved ones, a slot in the
hand of each thread, and those given out. `FreeList` is the code: `next4list()` and
`release4list()` as loads, a read of `_next` and a compare-and-set on a word of index and
serial number, blocks that are made when first reached, and `next`, `release`, `push` and `pop`
built of them. `Pool` is the refinement mapping. The serial number wraps in the model
(2 values; 2^19 in the code); what is assumed is `Unwrapped`: while a thread is between its read
of a word and its compare-and-set, fewer releases pass than there are serial numbers.
`limit` is the `_maxIndex` the list was made with, which may depend on the use (`Limits`):
the run freelist keeps lists of values in the first block, where the tests and most
users keep them, and freelist_blocks does not. There `push()` and `pop()` go wrong: they
call `blockfor(id)` to find the payload, which leaves the index in the block in `id`, and
release that (`Carry`). A memory pool of more than 128 free slots is such a list: two
owners may get one slot.

### ThreadLifecycle
One `iThread` object, callers inside `start()`, `wait()`, `exit()` and the destructor, and the
worker of the current run. `thread` holds `m_running`, `m_finished`, `m_isInFinish`, `m_exited` and
`quitNow`; `mutex` says that the worker holds `m_mutex` over several steps; `loop` is the loop of
`exec()`. Sections under the mutex that cannot wait are one step. The worker's end is
three: it holds the mutex while deferred deletes run, lets it go to close the
dispatcher, and takes it again. A wait on the condition may come back without a
broadcast at any time, as that of pthreads may; `wait()` and the destructor look again, but
`start()` waits once (ithread.cpp:239-240) and may then find the old run still `m_running`
and return without a new one. `StartRestarts` says that this is the only way to lose a
`start()`. The program
destroys the object when it is finished or finishing and nobody else is in a call.

### SignalSlot
One signal of one sender. `node` holds the connections with their links, receiver and
reference count, `lists` the sender's list with its own count and its orphans, `stack` the
calls each thread is in, and `mail` the posted ones. The walk of `emitImpl()` is a step for
each node and for what it does there, without a lock; in a slot the program may do
anything again. `disconnect()` goes node by node, since it may let the sender's lock go to
take the receiver's. One thread (`Owner`) connects, disconnects and destroys the sender; a
receiver is destroyed in its own thread, and only while no other thread is inside a call of
the signal (`Waits`). For emissions that is needed: a
queued emission posts to a receiver it has read without a lock and nothing in the code
keeps that receiver alive. Disconnections of other threads are excluded with them, so the
ordering of the two locks between a disconnect and a destructor (iobject.cpp:268-321) is not checked. `Crowded` allows the sender to be destroyed inside nested
emissions, which the run signals leaves to signals_nested.

## 4. The runs

| run | expects | bounds | what it shows |
|---|---|---|---|
| memtrap | pass | 2 traps, 1 writer, 2 handlers, 1 update | the handler sees live traps and whole ranges and comes to the end of its list, the copies agree between operations, the writer never changes the copy that is read (`Exclusion`) and its calls return, unless the last handler has aborted the process |
| events | pass | 2 objects (one movable), 1 thread that posts and calls `exit()`, 3 events, 2 priorities, 1 nested loop | no duplicate, no overtaking, exact counts, iterators valid while nothing moved, no delivery to a destroyed receiver; until a loop is nested a sorted list, no lost wake-up and every event delivered; `exit()` ends a loop |
| events_sleeps | violation | 1 object, 3 events | a loop started by a handler finds `canWait` set to 1 by the pass it interrupts and sleeps over the rest of its events |
| protocol | pass | 3 messages of kinds note, big and shm, a queue of 2, timeouts (`cancel()` leaves the protocol the same work) | exact references, running operations are reachable, send order, slots are given back, a closed connection answers every caller |
| operation | pass | 4 calls, one timeout | result and state agree, the alarm is stopped, the callback is called when the operation is done, failed or timed out, the last reference frees |
| session | pass | a router, a `Patient` program of 4 calls, 2 faults, 2 timeouts, 2 attempts | both ends agree on an attached stream's channel, a lost connection is tried again, the assertions hold, context and stream settle |
| session_hurried | violation | the same, not `Patient` | `detach()` while the answer to `attach()` is handled: the assertion of iincstream.cpp:249 fails, which the comment at 135-136 does not expect |
| freelist | pass | 2 threads, 2 blocks of 2 and 1 elements, 2 serial numbers; values in the first block only | every behaviour is one of `SlotPool`; of any set of calls one returns |
| freelist_blocks | violation | 1 thread; values in both blocks | `push()` into the second block saves another element than the one it took |
| signals | pass | 2 threads, a receiver in each, 3 connections, emissions and disconnections 2 deep | no freed connection is reached, emissions are complete, reference counts are exact |
| signals_nested | violation | 1 thread, 1 receiver | the sender destroyed inside a nested emission: the inner one locks the destroyed sender (iobject.cpp:902-904 expects its count to reach 0) |
| threads | pass | 3 callers, 3 runs | the worker never outlives the object, `start()` is lost to a finishing run only by a spurious wake-up, `exit()` ends the run wherever it comes, `wait()` returns |

No run checks deadlock: every one of these systems may come to its end (every message
answered, every loop exited, every trap gone, every bounded call made). Waiting for
ever is excluded by the liveness properties instead.

Why the bounds are enough: the counters bounded are the number of events,
messages, calls and loops; each hazard in `PROJECT.json` needs at most three
events, three messages, a nested loop or two broken links, and every property is broken in its
run by a plausible change of the code (the mutants named in the modules).

The largest runs are events (1.4 million states), signals (1.2 million) and protocol
(half a million). Where the calls of a behaviour are bounded, "each of
them returns" is stated as `[]<>` of "none is under way", which is the same and cheaper to
check than a property per call.

Seen while modelling and not given a run of its own (a definition in brackets states what
fails, or has the case in the model):

- iaupdate.cpp:47-48: the assertion of `readEnd()`, "Make sure the counter was valid", is on
  the counter after the decrement, so it aborts when the last section leaves, with nothing
  wrong [`AUpdate!ReadEnd`, in run memtrap].
- ithread.cpp:239-240: a spurious wake-up loses a `start()` [`ThreadLifecycle!LostSpuriously`,
  in run threads].
- Once a loop was nested, a deferred delete that the nested pass put off may be left in the
  list with `canWait` set, and the owner sleeps over it also after the nested loop has ended
  (beside run events_sleeps).
- iinccontext.cpp:392-399 and 463-489: a refused handshake, and with a router one that times
  out beyond the limit of attempts, leave a context that says CONNECTING without a timer
  [`IncSession!unshaken`].
- iincstream.cpp:138-142: `detach()` before the answer leaves `m_mode`, so that `state()` goes
  on to say ATTACHING [`IncSession!recalled`].
- `moveToThread()` in a handler erases the list node the pass reads next, where
  `removePostedEvents()` takes care not to [`EventQueue!PassSurvivesMove`]; it also leaves
  `insertionOffset` too large, and later events of that pass are inserted out of order.
- iincprotocol.cpp:233: the answer can be handled before `m_blockID` is stored; the slot
  then stays taken until the close [`IncProtocol!AckReleasesSlot`]. A frame refused by a full
  send queue keeps its slot as long (`SlotFreed` leaves refused frames to the close).
- iincprotocol.cpp:263, 336, 378: 0 stands for no slot, and is the id of the first slot of
  a process' first export (imemblock.cpp:1132): its frame keeps it until the close
  [`IncProtocol!IdIsZero`, which `SlotFreed` excepts].
- imemblock.cpp:1046: `get()` of a number that is still mapped returns the old block, with
  its old offset, and the exporter uses numbers again as soon as they are acknowledged; a
  receiver that acknowledges before it lets the array go can read the wrong block. A late
  push to `m_pendingReleases` can erase the entry of the number's next block. The importer
  is not modelled.
- iincoperation.cpp:108: the last `deref()` in the IO thread deletes the operation while
  the timer's thread may be inside it [`IncOperation!NotFreedInUse`].
- `cancel()` calls the callback, which iincoperation.h:70 says is not called
  (`CallbackIsCalled` says nothing of cancelled operations);
  `setTimeout(0)` times out at once, which iincoperation.h:86 calls "no timeout";
  `setFinishedCallback()` stores the callback before its user data, so that a callback
  called from the IO thread in between gets a null pointer.
- A posted `setState(STATE_CONNECTED)` or `onErrorOccurred()` may run after `close()` has
  ended the connection, and the context then says it is connected, or connects again
  [`IncSession!CloseIsFinal`]. `connectTo()` while FAILED leaves the reconnect timer running.
- exit() between `exec()`'s look at `m_exited` and `loop.exec()` ends the run, but `exec()`
  returns -1 and not the code given. A `wait()` whose run is followed at once by another
  waits for that one too. Deferred deletes at the end of a thread run under `m_mutex`.
- `postEvent()` loads the dispatcher twice while a finishing thread may clear it
  (icoreapplication.cpp:318-319).
- ifreelist.h:59-60 speaks of 16777216 elements and 8 bits of serial number; the constants
  give 4096 and 19 bits.
- `disconnectHelper()` releases the sender's lock to order it with the receiver's without
  holding a reference to the node it goes on from. An emission in one thread may end
  on the lock of a sender that another thread has destroyed.

## 5. Fairness

- `AUFairness`, `MTFairness`: a thread inside a call goes on while the process lives, one
  weak fairness condition for each thread. A section may never open and a writer may
  never begin. The swap's return needs more: the compare-and-set may lose against
  sections that open and close for ever, and sections that are open must leave
  (a signal handler does return).
- `Fairness` of `EventQueue`: the owner goes on when it can, so that handlers
  return and a sleep ends when the descriptor is readable; posters finish
  `wakeUp()`. Nobody is obliged to post, nest or exit.
- `IPFairness`: the two threads go on, and once the device is closed the protocol
  is destroyed (`deleteLater()` is posted). The peer owes nothing.
- `IncSession`: posted calls run, the IO thread and the server handle what has come, and
  armed timers fire. Nothing makes a link break or a timeout come early. Nothing is
  asked of the program.
- `FreeList`: a thread inside a call is scheduled. That a single call returns is not promised
  by a lock-free list, and not claimed.
- `ThreadLifecycle`: the worker goes on; a caller that can go on again and again gets the
  mutex in turn (strong fairness), whoever else takes it; a sleeping one only once a
  broadcast has woken it (`Heard`): nothing promises a spurious wake-up.
- `OpFairness`: calls go on, posted calls run, the deleter's 0 ms timer fires. The
  alarm need not fire and the protocol need not answer.

## 6. The proofs

TLAPS proves, for all values of the constants allowed by the ASSUMEs:

- `MemTrapProofs`, the lock: `AUIInv` is inductive for `AUSafe`. `Exclusion` alone is not: the
  step that breaks it is the swap, so the invariant says that the counter
  counts the open sections (`CountIsOpen`) and which copy a writer that is inside
  may hold (`WriterInside`). From it follow `AUTypeOK`, `Exclusion`
  and the action property `SwapAlternates`. All of it holds with and without the assertion
  of `readEnd()` (`Asserts`).
- `MemTrapProofs`, the list: `MemTrapImplementsAUpdate` shows that every step of `MemTrap` is a step
  of `AUpdate` or leaves its variables alone, so `Exclusion` carries over to the trap
  list (`MemTrapExclusion`). The list properties follow from `MTInv`, inductive for any
  finite set of traps and any writers and handlers. It reads off what the call under way
  has left to do which of the two copies its trap is in (`Edited`): the copies differ by
  that trap at most, and a swap exchanges the two answers as it flips the bit. `Lists`
  says that each copy links exactly its `Members` in both directions, and that some rank
  falls along `_next` (`Ranked`): without the rank a ring apart from the list would be
  as well linked, and `unlink()` of a trap that points to itself would not take it out.
  `WalkAll` turns this into what a walk from the head passes, by a least counterexample
  where one would use induction. From `MTInv` follow `HandlerSeesLive`, `CopiesAgree` and
  the action property `RangeChangesUnseen`.
- `IncProtocolProofs`: `IPIInv` is inductive for `IPSafe`. `RefsExact` needs to know
  that a message is in one posted call at most (`MailOnce`), that numbers not
  used yet occur nowhere (`Fresh`), and that the map and the states agree
  (`RunningTracks`, `OpsTrack`). From it follow `IPTypeOK`, `RefsExact` and
  `RunningIsReachable`. Two more invariants rest on it. `SendOrder` is
  about what was written: it needs the order inside each of the three places a message
  passes through (`Ascends`) and between them (`Precedes`), and that a posted message is
  not one the IO thread queues itself (`InOrder`). `SlotFreed` needs that a frame of the
  IO thread that was not refused stays in the map, its slot known, until it ends
  (`SlotKnown`).
- `IncOperationProofs`: `OpIInv` is inductive for `OpSafe`. `ResultMatchesState` needs
  what each thread is about to set (`AppGoal`, `IoGoal`, `IoFills`: app never sets done
  or failed) and that io is past its one result (`IoIsPast`); `FreedByLast` needs who
  still has a reference (`IoHolds`, `IoFreesLast`) and that a posted delete is the last
  holder's (`DeleteIsLast`); `AlarmIsStopped` needs that an ended operation with an
  alarm, or about to get one, has its `stop()` still to come (`StopComes`).
- `FreeListProofs`: `FreeListImplementsPool`, for any threads, block sizes and number of
  serial numbers: each step of the code is one step of the pool or leaves it alone. So an
  element is never given to two callers (`FreeListOnePlace`, and `PoolOnePlace` for any
  pool). The invariant is `FLInv`. `Chains` says that each list is finite and holds each
  element once; `WalkIs` that `Walk` then returns just that sequence, by a least
  counterexample. `Apart` says that an element is in one list, in one hand or out. `Calls`
  is what a thread may trust of what it has read (`ReadGood`): while no release has
  passed, its element is still first of the list, with the `_next` it read, or was
  taken. The word's serial number is the one read plus the releases that passed, so a
  compare-and-set that succeeds passed none: there `Unwrapped` (section 3) is used.
  The theorems about the code suppose `FirstBlockOnly`, that lists of values stay in the
  first block. Past it they are false, as the run freelist_blocks shows; lists of ids
  may grow over any number of blocks.
- `ThreadLifecycleProofs`: `WorkerOwnsThread` for any callers and number of runs, through
  spurious wake-ups. It needs that a run under way is `running` and a finish is
  marked by `inFinish`, so that neither `start()` nor the destructor gets past it.
  The invariant of `StartRestarts`, `Starting`, is what a waiting
  `start()` remembers: the runs there were when it began, and that a wake-up means that
  run's end.
- `IncSessionProofs`: `FailedIsRetried` for every program, with and without a router, by
  `Retries`: a failed context that may try again and was not left in its handshake has its
  timer. `AssertionsHold` and `AttachedIsOpen` for a `Patient` program, from one
  inductive invariant `SInv`; without that hypothesis both are false (section 3, run session_hurried).
  Its parts: `Linked` says which states of context, stream and connection go together,
  so that a call finds the state it asserts; `Mailed` says which posted calls may wait,
  in which order, and the state their senders left, since the assertions are about calls
  that arrive late; `Channels` says that requests and answers on their way are not newer
  than the connection, and that an answered or attached channel is one the server has
  open and no request on its way will close.
- `EventQueueProofs`: `EQInv` is inductive for any number of receivers, threads, events,
  priorities and nested loops. `Books` keeps account of each event: it is in the list
  once, for one receiver, exactly while its fate is "queued" (`QueuedOnce`,
  `ReceiverAlive`), and the counts are those of the list (`CountsMatch`). `Ordered` says
  that plain events of one priority ascend (`Fifo`); for `addEvent()` to keep that, the
  part of the list it searches must be sorted, dead entries included (`TailSorted`).
  `Placed` says where the innermost pass is: nothing behind `startOffset` was overlooked
  (`Places`), and its iterator is that place, unless an object was moved or nothing is
  left to read (`Stays`); `IteratorValid` follows. It must speak of the pass that would
  go on if the inner loop ended now, because an inner pass consumes what the outer one
  had before it.
  `Sorted` and `WakesAlone` are about the time before a handler nests a loop (`nests = 0`):
  after it both are false (run events_sleeps; a nested pass takes two sorted parts together).
  `Sorted` also excepts lists from which a receiver was moved, since a move shortens the part
  that `insertionOffset` counts. `OneInv` carries, while `nests` is 0, the two parts they
  rest on. `PassInv` says that a list nobody posted to since a
  pass began ends where the pass does (`Drains`), and that the part a pass works on
  stays sorted (`Heads`); `WakeInv` says that `m_signaled` stands for a byte written or
  about to be (`Signals`), and that an owner that began to poll before something was
  posted has a readable descriptor or a thread inside `wakeUp()` (`Wakes`).
- `SignalSlotProofs`: `SSIInv` is inductive for any threads, receivers, ids and depth of
  nested calls, and `NoDangling`, `EmissionComplete` and `RefsExact` follow from it. All
  suppose `~Crowded`: the sender is destroyed only while at most one emission of its signal
  is under way. The code needs that (run signals_nested, end of section 4). The parts of `SSIInv`:
  `InOrder` says that the list holds the living connections by their ids, in both
  directions; `OrphansLead` that a node taken out still leads on to a later node that is
  kept, past no living one, which is why `Splice` must leave its `next` alone. `WalkGood`
  is what an emission relies on: the nodes it can still come to are kept and reach every
  living connection up to `high` (`OnTrack`), and what lies behind it was called. `OnTrack`
  names that set of nodes instead of following `next`, so that no induction over the walk
  is needed. `Lives` says that connections are those of living ends, `Calls` that only the
  innermost call of a thread is not in a slot, and `Counted` is `RefsExact`, where a step
  must be followed through the holders it adds and drops: `CountMoves` and its like count
  a set that changes in one place. `RemoveAll` (every connection of one end) is a recursive
  function, about which the proof takes the least step that breaks the invariant. An orphan
  is freed only when nobody but the one who cleans is on the list, which is where `ref` and
  `WalkGood` meet.

Type correctness of `AUpdate`, `IncProtocol`, `IncOperation` and `SignalSlot`, and `SwapAlternates`, are theorems
and are not checked again by a run.

Only model-checked: what must come about under fairness, which is out of the prover's
reach (`LastFrees` of `IncOperation` and `CallbackIsCalled` are of that kind).

## 7. Not modelled

The parts marked so in `PROJECT.json`, with their reasons: those of the plan above,
and the sequential ones (text, containers, encoding, URLs, dates), system calls,
the glib dispatcher, Windows threads and the multimedia layer. Memory is
sequentially consistent in every model: `iAtomicCounter` uses the strongest order.
