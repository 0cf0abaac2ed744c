------------------------------ MODULE SlotPool -------------------------------
(* What iFreeList promises its callers, with every operation indivisible where *)
(* it takes effect: a set of spare slots, a stack of slots with saved values,  *)
(* and slots that are in the hand of one thread or out in the program.  Only   *)
(* the thread that carries a slot touches its payload, so that a value goes    *)
(* where its slot goes.                                                        *)
EXTENDS Integers, Sequences

CONSTANTS Slots,    \* the ids of the list
          Threads,
          None      \* no slot: not one of Slots

VARIABLES spare,    \* the slots next() and push() can take
          saved,    \* the slots push() has filled, the last one first
          hand,     \* the slot a thread carries through a call
          out       \* the slots next() has returned and release() has not got back

poolVars == <<spare, saved, hand, out>>

PoolInit ==
    /\ spare = Slots /\ saved = <<>> /\ out = {}
    /\ hand = [t \in Threads |-> None]

(* push() takes a slot and fills it ... *)
PoolFill(t, s) ==
    /\ s \in spare /\ hand[t] = None
    /\ spare' = spare \ {s}
    /\ hand' = [hand EXCEPT ![t] = s]
    /\ UNCHANGED <<saved, out>>

(* ... and puts it on top.                                                     *)
PoolSave(t) ==
    /\ hand[t] # None
    /\ saved' = <<hand[t]>> \o saved
    /\ hand' = [hand EXCEPT ![t] = None]
    /\ UNCHANGED <<spare, out>>

(* pop() takes the slot on top ...                                             *)
PoolTop(t) ==
    /\ saved # <<>> /\ hand[t] = None
    /\ hand' = [hand EXCEPT ![t] = Head(saved)]
    /\ saved' = Tail(saved)
    /\ UNCHANGED <<spare, out>>

(* ... and gives it back.                                                      *)
PoolSpare(t) ==
    /\ hand[t] # None
    /\ spare' = spare \cup {hand[t]}
    /\ hand' = [hand EXCEPT ![t] = None]
    /\ UNCHANGED <<saved, out>>

PoolNext(s) ==      \* next()
    /\ s \in spare
    /\ spare' = spare \ {s} /\ out' = out \cup {s}
    /\ UNCHANGED <<saved, hand>>

PoolClaim(t, s) ==  \* release(s) begins ...
    /\ s \in out /\ hand[t] = None
    /\ out' = out \ {s}
    /\ hand' = [hand EXCEPT ![t] = s]
    /\ UNCHANGED <<spare, saved>>
                    \* ... and ends as pop() does, with PoolSpare

PoolStep ==
    \/ \E t \in Threads :
        \/ PoolSave(t) \/ PoolTop(t) \/ PoolSpare(t)
        \/ \E s \in Slots : PoolClaim(t, s) \/ PoolFill(t, s)
    \/ \E s \in Slots : PoolNext(s)

PoolSpec == PoolInit /\ [][PoolStep]_poolVars
------------------------------------------------------------------------------
SavedSlots == {saved[i] : i \in DOMAIN saved}

(* A slot is in one place: spare, saved once, in one thread's hand, or out.    *)
OnePlace ==
    /\ \A i, j \in DOMAIN saved : saved[i] = saved[j] => i = j
    /\ \A t, u \in Threads : hand[t] = hand[u] /\ hand[t] # None => t = u
    /\ \A t \in Threads : hand[t] \notin spare \cup out \cup SavedSlots
    /\ spare \cap out = {} /\ spare \cap SavedSlots = {} /\ out \cap SavedSlots = {}
==============================================================================
