------------------------------- MODULE MemTrap -------------------------------
(* iMemTrap (src/src/core/io/imemtrap.cpp) on top of iAUpdate: the registry of *)
(* trapped memory regions as two doubly linked lists, walked by the SIGBUS     *)
(* handler without a lock while constructors, destructors and update() edit    *)
(* the copy the handler is not given.                                          *)
(* An address range is a model value; a fault is an address of one range.      *)
EXTENDS AUpdate, Sequences

CONSTANTS Traps,        \* the iMemTrap objects of a behaviour
          Ranges,       \* the page ranges they can cover
          Null,         \* the null pointer
          MaxUpdates    \* bound: update() calls per behaviour

ASSUME TrapsAssumption == IsFiniteSet(Traps) /\ Null \notin Traps

VARIABLES head, next, prev,     \* s_memtraps[], _next[] and _prev[] of each trap
          start, bad,           \* m_start (with its m_size) and m_bad of each trap
          life,                 \* "unborn", "busy" (in a call), "live", "freed"
          op,                   \* a writer: the trap it edits, what is left to do
          fault, cursor,        \* a handler: the faulting range, the trap it looks at
          updates               \* update() calls so far

lists == <<head, next, prev>>
trapVars == <<lists, start, bad, life, op, fault, cursor, updates>>
mtVars == <<auVars, trapVars>>

Idle == [trap |-> Null, range |-> Null, todo |-> <<>>]

(* The traps a walk of copy c starting at t passes. *)
Walk(c, t) ==
    LET at[n \in 0..Cardinality(Traps)] ==
            IF n = 0 THEN t ELSE IF at[n-1] = Null THEN Null ELSE next[c][at[n-1]]
    IN  {at[n] : n \in 0..Cardinality(Traps)} \ {Null}
Listed(c) == Walk(c, head[c])

MTTypeOK ==
    /\ AUTypeOK
    /\ head \in [Copies -> Traps \cup {Null}]
    /\ next \in [Copies -> [Traps -> Traps \cup {Null}]]
    /\ prev \in [Copies -> [Traps -> Traps \cup {Null}]]
    /\ start \in [Traps -> Ranges \cup {Null}] /\ bad \in [Traps -> BOOLEAN]
    /\ life \in [Traps -> {"unborn", "busy", "live", "freed"}]
    /\ \A w \in Writers : op[w].trap \in Traps \cup {Null}
    /\ fault \in [Sections -> Ranges \cup {Null}]
    /\ cursor \in [Sections -> Traps \cup {Null}]
    /\ updates \in 0..MaxUpdates

MTInit ==
    /\ AUInit
    /\ head = [c \in Copies |-> Null]
    /\ next = [c \in Copies |-> [t \in Traps |-> Null]]
    /\ prev = [c \in Copies |-> [t \in Traps |-> Null]]
    /\ start = [t \in Traps |-> Null] /\ bad = [t \in Traps |-> FALSE]
    /\ life = [t \in Traps |-> "unborn"]
    /\ op = [w \in Writers |-> Idle]
    /\ fault = [s \in Sections |-> Null]
    /\ cursor = [s \in Sections |-> Null]
    /\ updates = 0

(* writeBegin() of a constructor, a destructor, or an update() to range r.     *)
(* The owner makes one call at a time on a trap: life is "busy" during a call. *)
Enter(w, t, from, r, todo) ==
    /\ op[w] = Idle /\ life[t] = from
    /\ WriteBegin(w)
    /\ life' = [life EXCEPT ![t] = "busy"]
    /\ op' = [op EXCEPT ![w] = [trap |-> t, range |-> r, todo |-> todo]]
    /\ UNCHANGED <<lists, bad, fault, cursor>>

Construct(w, t, r) ==
    /\ Enter(w, t, "unborn", r, <<"link", "swap", "link", "live">>)
    /\ start' = [start EXCEPT ![t] = r]
    /\ UNCHANGED updates

DestroyOneCopy(w, t) == \* mutant: the destructor leaves the second list alone
    /\ Enter(w, t, "live", Null, <<"unlink", "swap", "freed">>)
    /\ UNCHANGED <<start, updates>>

Destroy(w, t) ==
    /\ Enter(w, t, "live", Null, <<"unlink", "swap", "unlink", "freed">>)
    /\ UNCHANGED <<start, updates>>

UpdateWithoutUnlink(w, t, r) == \* mutant: links a trap that is still linked
    /\ updates < MaxUpdates /\ updates' = updates + 1
    /\ Enter(w, t, "live", r, <<"swap", "assign", "swap", "link", "live">>)
    /\ UNCHANGED start

UpdateAssignsEarly(w, t, r) ==  \* mutant: new range before the handlers have moved over
    /\ updates < MaxUpdates /\ updates' = updates + 1
    /\ Enter(w, t, "live", r,
             IF start[t] = r THEN <<"live">>
             ELSE <<"unlink", "assign", "swap", "swap", "link", "live">>)
    /\ UNCHANGED start

Update(w, t, r) ==
    /\ updates < MaxUpdates /\ updates' = updates + 1
    /\ Enter(w, t, "live", r,
             IF start[t] = r THEN <<"live">>
             ELSE <<"unlink", "swap", "assign", "swap", "link", "live">>)
    /\ UNCHANGED start

Doing(w, what) == wpc[w] = "write" /\ op[w].todo # <<>> /\ Head(op[w].todo) = what
Advance(w) == op' = [op EXCEPT ![w].todo = Tail(op[w].todo)]

(* link(j): push this trap on the front of list j. *)
Link(w) ==
    LET t == op[w].trap  c == wcopy[w]  h == head[c] IN
    /\ Doing(w, "link") /\ Advance(w)
    /\ next' = [next EXCEPT ![c][t] = h]
    /\ prev' = [prev EXCEPT ![c] = [x \in Traps |-> IF x = t THEN Null
                                                    ELSE IF x = h THEN t ELSE prev[c][x]]]
    /\ head' = [head EXCEPT ![c] = t]
    /\ UNCHANGED <<auVars, start, bad, life, fault, cursor, updates>>

UnlinkKeepsHead(w) ==   \* mutant: unlink() forgets that the first trap has no _prev
    LET t == op[w].trap  c == wcopy[w]  n == next[c][t]  p == prev[c][t] IN
    /\ Doing(w, "unlink") /\ Advance(w)
    /\ prev' = IF n # Null THEN [prev EXCEPT ![c][n] = p] ELSE prev
    /\ next' = IF p # Null THEN [next EXCEPT ![c][p] = n] ELSE next
    /\ UNCHANGED <<head, auVars, start, bad, life, fault, cursor, updates>>

(* unlink(j): take it out; its own pointers stay as they are. *)
Unlink(w) ==
    LET t == op[w].trap  c == wcopy[w]  n == next[c][t]  p == prev[c][t] IN
    /\ Doing(w, "unlink") /\ Advance(w)
    /\ prev' = IF n # Null THEN [prev EXCEPT ![c][n] = p] ELSE prev
    /\ next' = IF p # Null THEN [next EXCEPT ![c][p] = n] ELSE next
    /\ head' = IF p = Null THEN [head EXCEPT ![c] = n] ELSE head
    /\ UNCHANGED <<auVars, start, bad, life, fault, cursor, updates>>

(* m_start = start; m_size = size; m_bad = 0 between the two swaps of update(). *)
Assign(w) ==
    /\ Doing(w, "assign") /\ Advance(w)
    /\ start' = [start EXCEPT ![op[w].trap] = op[w].range]
    /\ bad' = [bad EXCEPT ![op[w].trap] = FALSE]
    /\ UNCHANGED <<auVars, lists, life, fault, cursor, updates>>

Swap(w) ==
    /\ Doing(w, "swap") /\ Advance(w)
    /\ WriteSwap(w)
    /\ UNCHANGED <<lists, start, bad, life, fault, cursor, updates>>

(* writeEnd(): at once after a swap, through a swap of its own otherwise. *)
End(w) ==
    /\ wpc[w] = "write" /\ Len(op[w].todo) = 1
    /\ IF swapped
       THEN /\ WriteEnd(w)
            /\ life' = [life EXCEPT ![op[w].trap] = Head(op[w].todo)]
            /\ op' = [op EXCEPT ![w] = Idle]
       ELSE WriteEndSwaps(w) /\ UNCHANGED <<life, op>>
    /\ UNCHANGED <<lists, start, bad, fault, cursor, updates>>

Loop(w) ==
    /\ SwapLoop(w)
    /\ IF wpc'[w] = "idle"
       THEN /\ life' = [life EXCEPT ![op[w].trap] = Head(op[w].todo)]
            /\ op' = [op EXCEPT ![w] = Idle]
       ELSE UNCHANGED <<life, op>>
    /\ UNCHANGED <<lists, start, bad, fault, cursor, updates>>

(* signalHandler(): readBegin() and the load of the list head ... *)
Handle(s, r) ==
    /\ ReadBegin(s)
    /\ fault' = [fault EXCEPT ![s] = r]
    /\ cursor' = [cursor EXCEPT ![s] = head[which]]
    /\ UNCHANGED <<lists, start, bad, life, op, updates>>

(* ... one turn of the walk ... *)
Pass(s) ==
    LET t == cursor[s] IN
    /\ spc[s] = "in" /\ t # Null /\ start[t] # fault[s]
    /\ cursor' = [cursor EXCEPT ![s] = next[copy[s]][t]]
    /\ UNCHANGED <<auVars, lists, start, bad, life, op, fault, updates>>

(* ... m_bad = 1 and the anonymous mapping when the trap is found, and         *)
(* readEnd() in either case.                                                   *)
Leave(s) ==
    LET t == cursor[s] IN
    /\ IF t = Null THEN TRUE ELSE start[t] = fault[s]
    /\ ReadEnd(s)
    /\ bad' = IF t = Null THEN bad ELSE [bad EXCEPT ![t] = TRUE]
    /\ cursor' = [cursor EXCEPT ![s] = Null]
    /\ fault' = [fault EXCEPT ![s] = Null]
    /\ UNCHANGED <<lists, start, life, op, updates>>

Posted(s) == Post(s) /\ UNCHANGED trapVars

MTNext ==
    /\ ~Aborted
    /\ \/ \E w \in Writers :
          \/ \E t \in Traps : Destroy(w, t)
          \/ \E t \in Traps, r \in Ranges : Construct(w, t, r) \/ Update(w, t, r)
          \/ Link(w) \/ Unlink(w) \/ Assign(w) \/ Swap(w) \/ End(w) \/ Loop(w)
       \/ \E s \in Sections, r \in Ranges : Handle(s, r)
       \/ \E s \in Sections : Pass(s) \/ Leave(s) \/ Posted(s)

(* The threads inside a call are scheduled while the process lives. *)
MTFairness ==
    /\ \A w \in Writers : WF_mtVars(~Aborted /\ (Link(w) \/ Unlink(w) \/ Assign(w)
                                               \/ Swap(w) \/ End(w) \/ Loop(w)))
    /\ \A s \in Sections : WF_mtVars(~Aborted /\ (Pass(s) \/ Leave(s) \/ Posted(s)))

MTSpec == MTInit /\ [][MTNext]_mtVars /\ MTFairness
------------------------------------------------------------------------------
(* The handler never holds a trap whose constructor has not linked it yet or   *)
(* whose destructor has returned.                                              *)
HandlerSeesLive ==
    \A s \in Open : cursor[s] # Null => life[cursor[s]] \in {"busy", "live"}

(* update() rewrites m_start and m_size only while no running handler can      *)
(* still come to the trap on the copy it walks.                                *)
RangeChangesUnseen ==
    [][\A t \in Traps : start'[t] # start[t] =>
          \A s \in Open : t \notin Walk(copy[s], cursor[s])]_mtVars

(* A trap no call is at work on is in both lists, and only such traps are:     *)
(* between two edits the copies agree, and both directions are linked.         *)
CopiesAgree ==
    (writeLock = Nobody) => \A c \in Copies :
        /\ Listed(c) = {t \in Traps : life[t] = "live"}
        /\ \A t \in Listed(c) : prev[c][t] = Null <=> head[c] = t
        /\ \A t \in Listed(c) : next[c][t] # Null => prev[c][next[c][t]] = t

(* A handler walks to the end of its list, however often the thread that edits *)
(* the registry relinks it; that thread goes on after the handlers, unless the  *)
(* one that left last has aborted the process.  (The calls of a behaviour are   *)
(* bounded: when each of them returns, none is left under way.)                 *)
CallsReturn ==
    []<>(/\ \A s \in Sections : spc[s] # "in"
         /\ Aborted \/ \A w \in Writers : op[w] = Idle)
==============================================================================
