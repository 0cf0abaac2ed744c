----------------------------- MODULE SignalSlot ------------------------------
(* One signal of one object (the sender) and the connections from it to its     *)
(* receivers.  connect() and the destructors change the lists under the locks   *)
(* of both ends; emitImpl() walks them with no lock, keeping what it may still   *)
(* reach from being freed by a count on the list (`lists.ref`), one per emission *)
(* and one of the sender.  A slot in the emitting thread is called at once, one  *)
(* of another thread is posted; in a slot the program may do anything again.    *)
(* The steps of disconnect() are apart because it may let go of the sender's     *)
(* lock to take a receiver's.  A connection is named by its id.                  *)
EXTENDS Integers, Sequences, FiniteSets

CONSTANTS Threads, Receivers, None,
          Home,             \* the thread each receiver lives in
          Owner,            \* the thread that may change connections and destroy
          MaxConns,         \* bound: connections ever made
          MaxDepth,         \* bound: calls inside one another in a thread
          MaxPosts,         \* bound: posted calls of a thread when one emits
          Crowded           \* the sender may be destroyed while two emissions of
                            \* its signal, nested or in other threads, are under way

ASSUME ConstantsAssumption ==
    /\ IsFiniteSet(Threads) /\ Owner \in Threads /\ Home \in [Receivers -> Threads]
    /\ {MaxConns, MaxDepth, MaxPosts} \subseteq Nat /\ None \notin Nat \cup Receivers
    /\ Crowded \in BOOLEAN

VARIABLES node,     \* [id -> its links, receiver and reference count], 0 for freed
          lists,    \* _iObjectConnectionList, with the one signal's first and last
          sender,   \* the sender has not been destroyed
          alive,    \* the receivers that have not
          stack,    \* [thread -> its calls of this module, the innermost last]
          mail      \* [thread -> the connections of its posted calls]

vars == <<node, lists, sender, alive, stack, mail>>

Conns == 1..MaxConns
Link == Conns \cup {None}
Node == [next : Link, prev : Link, rcv : Receivers \cup {None}, refs : Nat]
Lists == [ref : Nat, cur : 0..MaxConns, first : Link, last : Link, orphans : SUBSET Conns]
Frame == [at : {"check", "post", "slot", "next", "end", "lock"}, conn : Conns,
          high : Conns, called : SUBSET Conns, rcv : Receivers \cup {None}]
         \cup [at : {"disconnect"}, conn : Link, rcv : Receivers]

Init ==
    /\ node = [c \in Conns |-> [next |-> None, prev |-> None, rcv |-> None, refs |-> 0]]
    /\ lists = [ref |-> 1, cur |-> 0, first |-> None, last |-> None, orphans |-> {}]
    /\ sender = TRUE /\ alive = Receivers
    /\ stack = [t \in Threads |-> <<>>] /\ mail = [t \in Threads |-> <<>>]
------------------------------------------------------------------------------
Top(t) == stack[t][Len(stack[t])]
At(t, place) == stack[t] # <<>> /\ Top(t).at = place
Push(t, f) == stack' = [stack EXCEPT ![t] = Append(@, f)]
Pop(t) == stack' = [stack EXCEPT ![t] = SubSeq(@, 1, Len(@) - 1)]
Goes(t, f) == stack' = [stack EXCEPT ![t][Len(stack[t])] = f]
Moves(t, place) == Goes(t, [Top(t) EXCEPT !.at = place])

(* The program's own code runs in t, outside any call or in a slot. *)
Runs(t) == stack[t] = <<>> \/ At(t, "slot")
(* It may make a call that takes several steps. *)
Nests(t) == Runs(t) /\ Len(stack[t]) < MaxDepth

Ref(n, c) == [n EXCEPT ![c].refs = @ + 1]
Deref(n, c) == [n EXCEPT ![c].refs = @ - 1]

(* removeConnectionFromLists(), and the same in the receiver's destructor: c    *)
(* leaves both lists for the orphans, and keeps its own next.                   *)
SpliceClears(n, c) ==           \* mutant: c forgets its successor
    LET p == n[c].prev
        s == n[c].next
    IN  [x \in Conns |->
            CASE x = c -> [next |-> None, prev |-> None, rcv |-> None, refs |-> n[c].refs - 1]
              [] x # c -> [n[x] EXCEPT !.next = IF x = p THEN s ELSE @,
                                       !.prev = IF x = s THEN p ELSE @]]

Splice(n, c) ==
    LET p == n[c].prev
        s == n[c].next
    IN  [x \in Conns |->
            CASE x = c -> [n[c] EXCEPT !.prev = None, !.rcv = None, !.refs = @ - 1]
              [] x # c -> [n[x] EXCEPT !.next = IF x = p THEN s ELSE @,
                                       !.prev = IF x = s THEN p ELSE @]]
Remove(w, c) ==     \* w holds the nodes and the lists
    IF w.node[c].rcv = None THEN w
    ELSE [node |-> Splice(w.node, c),
          lists |-> [w.lists EXCEPT !.first = IF @ = c THEN w.node[c].next ELSE @,
                                    !.last = IF @ = c THEN w.node[c].prev ELSE @,
                                    !.orphans = @ \cup {c}]]
RemoveAll(w, set) ==        \* the oldest first
    LET after[n \in 0..MaxConns] ==
            IF n = 0 THEN w
            ELSE IF n \in set THEN Remove(after[n-1], n) ELSE after[n-1]
    IN  after[MaxConns]
Now == [node |-> node, lists |-> lists]
Linked(r) == {c \in Conns : node[c].rcv = r}

(* drainOrphaned() drops the last reference of every orphan; cleanConnection-   *)
(* Lists() and the end of an emission do it when nobody else walks the list.    *)
Drained(w) ==
    [node |-> [c \in Conns |-> IF c \in w.lists.orphans THEN [w.node[c] EXCEPT !.refs = @ - 1]
                               ELSE w.node[c]],
     lists |-> [w.lists EXCEPT !.orphans = {}]]
CleanedAlways(w) == Drained(w)  \* mutant: does not look at the count

Cleaned(w) == IF w.lists.ref = 1 THEN Drained(w) ELSE w
Becomes(w) == node' = w.node /\ lists' = w.lists
------------------------------------------------------------------------------
(* connectImpl(): at the end of the list, with the next id. *)
Connect(t, r) ==
    LET c == lists.cur + 1 IN
    /\ Runs(t) /\ t = Owner /\ sender /\ r \in alive /\ c \in Conns
    /\ node' = [x \in Conns |->
                  CASE x = c -> [next |-> None, prev |-> lists.last, rcv |-> r, refs |-> 2]
                    [] x # c -> [node[x] EXCEPT !.next = IF x = lists.last THEN c ELSE @]]
    /\ lists' = [lists EXCEPT !.cur = c, !.last = c, !.first = IF @ = None THEN c ELSE @]
    /\ UNCHANGED <<sender, alive, stack, mail>>

(* disconnectImpl() and disconnectHelper(): node by node, then the orphans. *)
Disconnect(t, r) ==
    /\ Nests(t) /\ t = Owner /\ sender /\ r \in alive
    /\ Push(t, [at |-> "disconnect", conn |-> lists.first, rcv |-> r])
    /\ UNCHANGED <<node, lists, sender, alive, mail>>
DisconnectNode(t) ==
    LET f == Top(t) IN
    /\ At(t, "disconnect") /\ f.conn # None
    /\ IF node[f.conn].rcv = f.rcv THEN Becomes(Remove(Now, f.conn)) ELSE UNCHANGED <<node, lists>>
    /\ Goes(t, [f EXCEPT !.conn = node[f.conn].next])
    /\ UNCHANGED <<sender, alive, mail>>
DisconnectEnds(t) ==
    /\ At(t, "disconnect") /\ Top(t).conn = None
    /\ Becomes(Cleaned(Now)) /\ Pop(t)
    /\ UNCHANGED <<sender, alive, mail>>

(* ~iObject() of a receiver, whose posted calls are removed.  A receiver that   *)
(* another thread may be about to post to must not be destroyed, nor a node that *)
(* a disconnect which let the sender's lock go stands at: the program waits     *)
(* until no other thread is inside a call of this signal, of whatever kind.     *)
Without(posted, r) ==
    LET kept[n \in 0..Len(posted)] ==
            IF n = 0 THEN <<>>
            ELSE IF posted[n][2] # r THEN Append(kept[n-1], posted[n]) ELSE kept[n-1]
    IN  kept[Len(posted)]
Waits(t) == \A u \in Threads \ {t} : stack[u] = <<>>
DestroyReceiver(t, r) ==
    LET posts == [c \in Conns |-> Cardinality({i \in DOMAIN mail[t] : mail[t][i] = <<c, r>>})]
        w == RemoveAll(Now, Linked(r))
    IN  /\ Runs(t) /\ Home[r] = t /\ r \in alive /\ Waits(t)
        /\ node' = [c \in Conns |-> [w.node[c] EXCEPT !.refs = @ - posts[c]]]
        /\ lists' = w.lists
        /\ mail' = [mail EXCEPT ![t] = Without(@, r)]
        /\ alive' = alive \ {r}
        /\ UNCHANGED <<sender, stack>>

(* ~iObject() of the sender: emissions on their way stop at the id 0. *)
DestroySender(t) ==
    LET w == RemoveAll(Now, Conns)
        v == [w EXCEPT !.lists.cur = 0, !.lists.ref = @ - 1]
    IN  /\ Runs(t) /\ t = Owner /\ sender /\ (Crowded \/ (lists.ref <= 2 /\ Waits(t)))
        /\ Becomes(IF v.lists.ref = 0 THEN Drained(v) ELSE v)
        /\ sender' = FALSE
        /\ UNCHANGED <<alive, stack, mail>>
------------------------------------------------------------------------------
(* emitImpl(): the first node, the highest id and the count, under the lock. *)
Emit(t) ==
    /\ Nests(t) /\ sender /\ lists.first # None
    /\ \A u \in Threads : Len(mail[u]) <= MaxPosts
    /\ Push(t, [at |-> "check", conn |-> lists.first, high |-> lists.cur, called |-> {},
                  rcv |-> None])
    /\ lists' = [lists EXCEPT !.ref = @ + 1]
    /\ UNCHANGED <<node, sender, alive, mail>>

(* One turn of the walk: the end, a connection without receiver, a slot to call *)
(* or one to post to.                                                           *)
Check(t) ==
    LET f == Top(t)
        r == node[f.conn].rcv
    IN  /\ At(t, "check")
        /\ IF lists.cur = 0 \/ f.conn > f.high THEN Moves(t, "end") /\ UNCHANGED node
           ELSE IF r = None THEN Moves(t, "next") /\ UNCHANGED node
           ELSE IF Home[r] # t THEN Goes(t, [f EXCEPT !.at = "post", !.rcv = r]) /\ UNCHANGED node
           ELSE /\ Goes(t, [f EXCEPT !.at = "slot", !.called = @ \cup {f.conn}])
                /\ node' = Ref(node, f.conn)
        /\ UNCHANGED <<lists, sender, alive, mail>>
Post(t) ==
    LET f == Top(t) IN
    /\ At(t, "post")
    /\ Goes(t, [f EXCEPT !.at = "next", !.called = @ \cup {f.conn}])
    /\ node' = Ref(node, f.conn)
    /\ mail' = [mail EXCEPT ![Home[f.rcv]] = Append(@, <<f.conn, f.rcv>>)]
    /\ UNCHANGED <<lists, sender, alive>>
SlotReturns(t) ==
    /\ At(t, "slot") /\ Moves(t, "next") /\ node' = Deref(node, Top(t).conn)
    /\ UNCHANGED <<lists, sender, alive, mail>>
Advance(t) ==
    LET f == Top(t)
        n == node[f.conn].next
    IN  /\ At(t, "next")
        /\ Goes(t, IF n = None THEN [f EXCEPT !.at = "end"] ELSE [f EXCEPT !.at = "check", !.conn = n])
        /\ UNCHANGED <<node, lists, sender, alive, mail>>
EmitEndsLeaks(t) ==             \* mutant: leaves the orphans of a dead sender
    LET w == [Now EXCEPT !.lists.ref = @ - 1] IN
    /\ At(t, "end") /\ Becomes(w)
    /\ IF w.lists.ref = 0 \/ lists.orphans = {} THEN Pop(t) ELSE Moves(t, "lock")
    /\ UNCHANGED <<sender, alive, mail>>

EmitEnds(t) ==
    LET w == [Now EXCEPT !.lists.ref = @ - 1] IN
    /\ At(t, "end")
    /\ IF w.lists.ref = 0 THEN Becomes(Drained(w)) /\ Pop(t)
       ELSE Becomes(w) /\ IF lists.orphans = {} THEN Pop(t) ELSE Moves(t, "lock")
    /\ UNCHANGED <<sender, alive, mail>>
EmitCleans(t) ==
    /\ At(t, "lock")
    /\ Becomes(Cleaned(Now)) /\ Pop(t)
    /\ UNCHANGED <<sender, alive, mail>>

(* A posted call reaches its receiver, disconnected or not. *)
Deliver(t) ==
    /\ stack[t] = <<>> /\ mail[t] # <<>>
    /\ node' = Deref(node, Head(mail[t])[1])
    /\ mail' = [mail EXCEPT ![t] = Tail(@)]
    /\ UNCHANGED <<lists, sender, alive, stack>>
------------------------------------------------------------------------------
Program(t) ==
    \/ DestroySender(t) \/ Emit(t)
    \/ \E r \in Receivers : Connect(t, r) \/ Disconnect(t, r) \/ DestroyReceiver(t, r)
Library(t) ==
    \/ DisconnectNode(t) \/ DisconnectEnds(t) \/ Check(t) \/ Post(t) \/ Advance(t)
    \/ SlotReturns(t) \/ EmitEnds(t) \/ EmitCleans(t) \/ Deliver(t)
Next == \E t \in Threads : Program(t) \/ Library(t)

Spec == Init /\ [][Next]_vars
------------------------------------------------------------------------------
Frames == {x \in Threads \X (1..MaxDepth) : x[2] \in DOMAIN stack[x[1]]}
Walking == {"check", "post", "slot", "next", "end"}

TypeOK ==
    /\ node \in [Conns -> Node] /\ lists \in Lists
    /\ \A x \in Frames : stack[x[1]][x[2]] \in Frame

(* A thread keeps no pointer to what has been freed: the connection it goes on  *)
(* from, the list that its emission pins, the sender whose lock it takes.       *)
NoDangling ==
    \A x \in Frames : LET f == stack[x[1]][x[2]] IN
        /\ f.at \in Walking => node[f.conn].refs > 0 /\ lists.ref > 0
        /\ f.at = "disconnect" /\ f.conn # None => node[f.conn].refs > 0
        /\ f.at \in {"lock", "disconnect"} => sender
        /\ f.at = "post" => f.rcv \in alive

(* An emission that was not stopped reaches every connection that was there     *)
(* when it began and still is, and none made since.                             *)
EmissionComplete ==
    \A x \in Frames : LET f == stack[x[1]][x[2]] IN
        f.at = "end" /\ sender =>
            f.called \subseteq 1..f.high /\ {c \in 1..f.high : node[c].rcv # None} \subseteq f.called

(* A reference is held by each of the two lists, the orphans, a call under way  *)
(* and a posted one; the list's count is the sender and the emissions, and when *)
(* it is 0 the orphans are gone too.                                            *)
Mails == UNION {{t} \X DOMAIN mail[t] : t \in Threads}
Posted(c) == {x \in Mails : mail[x[1]][x[2]][1] = c}
RefsExact ==
    /\ \A c \in Conns : node[c].refs =
          (IF node[c].rcv # None THEN 2 ELSE 0) + (IF c \in lists.orphans THEN 1 ELSE 0)
          + Cardinality({x \in Frames : LET f == stack[x[1]][x[2]] IN f.at = "slot" /\ f.conn = c})
          + Cardinality(Posted(c))
    /\ lists.ref = (IF sender THEN 1 ELSE 0)
                   + Cardinality({x \in Frames : stack[x[1]][x[2]].at \in Walking})
    /\ lists.ref = 0 => lists.orphans = {}

(* The end of an emission cleans up under the lock of a sender that is alive.   *)
CleanedByLivingOwner == \A x \in Frames : stack[x[1]][x[2]].at = "lock" => sender
==============================================================================
