------------------------------ MODULE FreeList -------------------------------
(* iFreeList (src/include/core/utils/ifreelist.h): two lock-free lists threaded *)
(* through the same elements, `empty` of the free ones and `stored` of the ones *)
(* push() has filled.  A list is one word: the index of its first element and a *)
(* serial number.  Every read and every compare-and-set of a shared word is a   *)
(* step of its own.  The payload of an element is touched only by the thread    *)
(* that holds it and is left out.                                               *)
EXTENDS Integers, Sequences

CONSTANTS Threads,
          MaxIndex,     \* ConstantsType::MaxIndex; an index that high ends a list
          Limits,       \* for each use of a list, the _maxIndex it may be made with
          Sizes,        \* ConstantsType::Sizes, the elements of each block
          Serials,      \* serial numbers before they wrap: 2^19 in the code
          None          \* no element

ASSUME SizesAssumption == MaxIndex \in Nat /\ Sizes \in Seq(Nat \ {0})
ASSUME SerialsAssumption == Serials \in Nat \ {0}

Modes == {"ids", "values"}      \* next() and release(), or push() and pop()
ASSUME LimitsAssumption == Limits \in [Modes -> SUBSET (1..MaxIndex)]
ASSUME NoneAssumption == None \notin 0..MaxIndex

VARIABLES mode,     \* what the list is used for
          limit,    \* _maxIndex: this index and the ones above are not taken
          head,     \* the words _empty and _stored
          next,     \* _next of each element
          blocks,   \* the blocks _v[] holds
          out,      \* the ids next() has returned and release() has not got back
          call      \* the call a thread is in: its name, where it is (pc), the
                    \* element it holds or looks at, the list word and the _next it
                    \* has read, the releases that passed since it read the word

vars == <<mode, limit, head, next, blocks, out, call>>

Elements == 0 .. MaxIndex - 1
Lists == {"empty", "stored"}
Blank == [at |-> MaxIndex, serial |-> 0]
Idle == [name |-> "none", pc |-> "idle", at |-> MaxIndex, word |-> Blank,
         link |-> 0, passed |-> 0]

(* blockfor(): the block of an index; an index past the last one has none.  It *)
(* leaves the index in that block in its argument.                             *)
End[b \in 0..Len(Sizes)] == IF b = 0 THEN 0 ELSE End[b-1] + Sizes[b]
BlockFor ==
    [x \in {y \in Elements : y < End[Len(Sizes)]} |->
        CHOOSE b \in 1..Len(Sizes) : End[b-1] <= x /\ x < End[b]]
IndexInBlock(x) == x - End[BlockFor[x] - 1]

Slots == DOMAIN BlockFor

Init ==
    /\ mode \in Modes /\ limit \in Limits[mode]
    /\ head = [l \in Lists |-> IF l = "empty" THEN [Blank EXCEPT !.at = 0] ELSE Blank]
    /\ next = [x \in Elements |-> 0]
    /\ blocks = {} /\ out = {}
    /\ call = [t \in Threads |-> Idle]

(* The list a call takes its element from, and the one it gives it to. *)
From(c) == IF c.name = "pop" THEN "stored" ELSE "empty"
To(c) == IF c.name = "push" THEN "stored" ELSE "empty"

Goto(t, pc) == call' = [call EXCEPT ![t].pc = pc]
Return(t) == call' = [call EXCEPT ![t] = Idle]

Enter(t, name) ==
    /\ call[t] = Idle
    /\ call' = [call EXCEPT ![t].name = name, ![t].pc = "load"]
    /\ UNCHANGED <<mode, limit, head, next, blocks, out>>

Push(t) == mode = "values" /\ Enter(t, "push")
Pop(t) == mode = "values" /\ Enter(t, "pop")
NextId(t) == mode = "ids" /\ Enter(t, "next")

Release(t, x) ==
    /\ mode = "ids" /\ call[t] = Idle /\ x \in out
    /\ out' = out \ {x}
    /\ call' = [call EXCEPT ![t].name = "release", ![t].pc = "top", ![t].at = x]
    /\ UNCHANGED <<mode, limit, head, next, blocks>>

(* next4list(): id = list.value(), the early returns, _v[block].load() ... *)
Load(t) ==
    LET w == head[From(call[t])] IN
    /\ call[t].pc = "load"
    /\ \/ /\ w.at >= limit \/ w.at \notin Slots
          /\ Return(t)
       \/ /\ w.at < limit /\ w.at \in Slots
          /\ call' = [call EXCEPT ![t].word = w, ![t].at = w.at,
                        ![t].pc = IF BlockFor[w.at] \in blocks THEN "next" ELSE "grow"]
    /\ UNCHANGED <<mode, limit, head, next, blocks, out>>

Linked(b) == [x \in Elements |-> IF x \in Slots /\ BlockFor[x] = b THEN x + 1 ELSE next[x]]

(* ... a block of its own where there was none, unless another thread was      *)
(* faster; an element of `stored` has been taken from `empty` before, so that  *)
(* pop(), which does not expand, finds the block ...                           *)
Grow(t) ==
    LET b == BlockFor[call[t].at] IN
    /\ call[t].pc = "grow"
    /\ blocks' = blocks \cup {b}
    /\ next' = IF b \in blocks THEN next ELSE Linked(b)
    /\ Goto(t, "next")
    /\ UNCHANGED <<mode, limit, head, out>>

(* ... newid = v[at]._next under the serial number of id ... *)
ReadNext(t) ==
    /\ call[t].pc = "next"
    /\ call' = [call EXCEPT ![t].link = next[call[t].at], ![t].pc = "take"]
    /\ UNCHANGED <<mode, limit, head, next, blocks, out>>

(* push() fills the element it has taken, and pop() copies its payload.  To    *)
(* find it they call blockfor() on the id itself, and what they go on to give  *)
(* to the other list is the index in the block: another element, unless the    *)
(* block is the first.                                                         *)
Carry(t) ==
    call' = [call EXCEPT ![t].at = IndexInBlock(@), ![t].pc = "top"]

TakeUncompared(t) ==    \* mutant: compares the index and not the serial number
    LET c == call[t]  l == From(c) IN
    /\ c.pc = "take" /\ head[l].at = c.word.at
    /\ head' = [head EXCEPT ![l].at = c.link]
    /\ IF c.name = "next" THEN Return(t) /\ out' = out \cup {c.at}
                          ELSE Carry(t) /\ UNCHANGED out
    /\ UNCHANGED <<mode, limit, next, blocks>>

(* ... and the compare-and-set.  The winner has the element to itself: next()  *)
(* returns it, push() and pop() carry it to the other list ...                 *)
Take(t) ==
    LET c == call[t]  l == From(c) IN
    /\ c.pc = "take" /\ head[l] = c.word
    /\ head' = [head EXCEPT ![l].at = c.link]
    /\ IF c.name = "next" THEN Return(t) /\ out' = out \cup {c.at}
                          ELSE Carry(t) /\ UNCHANGED out
    /\ UNCHANGED <<mode, limit, next, blocks>>

(* ... or the loop, again from the start. *)
TakeFails(t) ==
    /\ call[t].pc = "take" /\ head[From(call[t])] # call[t].word
    /\ call' = [call EXCEPT ![t] = [Idle EXCEPT !.name = call[t].name, !.pc = "load"]]
    /\ UNCHANGED <<mode, limit, head, next, blocks, out>>

(* release4list(): x = list.value() ... *)
ReadTop(t) ==
    /\ call[t].pc = "top"
    /\ call' = [call EXCEPT ![t].word = head[To(call[t])], ![t].pc = "hook"]
    /\ UNCHANGED <<mode, limit, head, next, blocks, out>>

(* ... v[at]._next = x ... *)
Hook(t) ==
    /\ call[t].pc = "hook"
    /\ next' = [next EXCEPT ![call[t].at] = call[t].word.at]
    /\ Goto(t, "give")
    /\ UNCHANGED <<mode, limit, head, blocks, out>>

IncrementSerial(s) == (s + 1) % Serials

(* The threads between their read of list l and their compare-and-set.  The    *)
(* serial number tells two words apart while fewer than Serials releases pass  *)
(* such a thread: the model's only assumption about scheduling.                *)
Between(l) == {u \in Threads : call[u].pc \in {"grow", "next", "take"} /\ From(call[u]) = l}
Unwrapped(l) == \A u \in Between(l) : call[u].passed < Serials - 1

(* ... and the compare-and-set of the element and the next serial number ... *)
Give(t) ==
    LET c == call[t]  l == To(c) IN
    /\ c.pc = "give" /\ head[l] = c.word /\ Unwrapped(l)
    /\ head' = [head EXCEPT ![l] = [at |-> c.at, serial |-> IncrementSerial(@.serial)]]
    /\ call' = [u \in Threads |->
                    IF u = t THEN Idle
                    ELSE IF u \in Between(l) THEN [call[u] EXCEPT !.passed = @ + 1]
                    ELSE call[u]]
    /\ UNCHANGED <<mode, limit, next, blocks, out>>

GiveRetriesOldWord(t) ==    \* mutant: loops without reading the list word again
    /\ call[t].pc = "give" /\ head[To(call[t])] # call[t].word
    /\ Goto(t, "hook")
    /\ UNCHANGED <<mode, limit, head, next, blocks, out>>

(* ... or the loop. *)
GiveFails(t) ==
    /\ call[t].pc = "give" /\ head[To(call[t])] # call[t].word
    /\ Goto(t, "top")
    /\ UNCHANGED <<mode, limit, head, next, blocks, out>>

Step(t) ==
    \/ Load(t) \/ Grow(t) \/ ReadNext(t) \/ Take(t) \/ TakeFails(t)
    \/ ReadTop(t) \/ Hook(t) \/ Give(t) \/ GiveFails(t)

Next == \E t \in Threads :
    \/ Step(t) \/ Push(t) \/ Pop(t) \/ NextId(t)
    \/ \E x \in Elements : Release(t, x)

(* A thread inside a call is scheduled; nobody has to make a call. *)
Spec == Init /\ [][Next]_vars /\ \A t \in Threads : WF_vars(Step(t))
------------------------------------------------------------------------------
(* The slots of a list in order.  The elements of a block that is not there    *)
(* yet follow one another, as allocate() will link them.                       *)
Links == [x \in Slots |-> IF BlockFor[x] \in blocks THEN next[x] ELSE x + 1]
WalkFrom(h, links) ==
    LET first[n \in 0..MaxIndex] ==
            IF n = 0 THEN <<>>
            ELSE LET p == first[n-1]
                     x == IF p = <<>> THEN h ELSE links[p[Len(p)]]
                 IN  IF x \in Slots THEN Append(p, x) ELSE p
    IN  first[MaxIndex]
Walk(l) == WalkFrom(head[l].at, Links)
Carried(t) == IF call[t].pc \in {"top", "hook", "give"} THEN call[t].at ELSE None

(* iFreeList behaves like the pool it stands for: next() and push() never take *)
(* an element that is in use, pop() takes what push() saved, each once and the *)
(* last one first, and no element gets lost, whatever other threads do between *)
(* a thread's read of a list word and its compare-and-set.  So it does as long *)
(* as Limits keeps lists of values in the first block.                         *)
Pool == INSTANCE SlotPool WITH
    spare <- {Walk("empty")[i] : i \in DOMAIN Walk("empty")},
    saved <- Walk("stored"),
    hand <- [t \in Threads |-> Carried(t)]
BehavesAsPool == Pool!PoolSpec

(* The lists are lock-free: threads inside calls do not keep each other there  *)
(* for ever.  Unless a further thread makes a call, one of them gets out.      *)
Busy == {t \in Threads : call[t] # Idle}
SomeCallReturns == \A S \in SUBSET Threads \ {{}} : (Busy = S) ~> (Busy # S)
==============================================================================
