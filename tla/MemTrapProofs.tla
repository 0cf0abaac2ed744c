---------------------------- MODULE MemTrapProofs ----------------------------
(* Proofs about iAUpdate for every finite set of read sections and every set   *)
(* of writers, then about iMemTrap for every finite set of traps and any       *)
(* ranges, handlers, writers and updates: it uses iAUpdate by its rules, its   *)
(* handler finds living traps only, and its two lists agree between the calls. *)
EXTENDS MemTrap, FiniteSetTheorems, WellFoundedInduction, TLAPS

------------------------------------------------------------------------------
(* The lock, iAUpdate.                                                         *)

(* The count in m_readLock is the number of open sections ... *)
CountIsOpen == count = Cardinality(Open)

(* ... m_writeLock is held by exactly the writer that is inside, and the copy  *)
(* that writer modifies is the one the top bit does not name.                  *)
WriterInside ==
    \A w \in Writers : /\ wpc[w] # "idle" <=> writeLock = w
                       /\ wpc[w] # "idle" => wcopy[w] = Other(which)

AUIInv == AUTypeOK /\ CountIsOpen /\ OpenReadCurrent /\ WriterInside

(* What counting the open sections does when one of them opens or leaves. *)
LEMMA OpenFinite == IsFiniteSet(Open) /\ Cardinality(Open) \in Nat
  BY SectionsAssumption, FS_Subset, FS_CardinalityType DEF Open

LEMMA InitIInv == AUInit => AUIInv
<1> SUFFICES ASSUME AUInit PROVE AUIInv  OBVIOUS
<1>1. Open = {}  BY DEF AUInit, Open
<1>2. Cardinality(Open) = 0  BY <1>1, FS_EmptySet
<1>3. AUTypeOK  BY DEF AUInit, AUTypeOK, Copies
<1>4. CountIsOpen  BY <1>2 DEF AUInit, CountIsOpen
<1>5. OpenReadCurrent  BY <1>1 DEF OpenReadCurrent
<1>6. WriterInside  BY WritersAssumption DEF AUInit, WriterInside
<1> QED BY <1>3, <1>4, <1>5, <1>6 DEF AUIInv

(* No step breaks the type invariant; only readEnd() needs more than the types:  *)
(* an open section is counted, so the count it decrements is not zero.         *)
LEMMA StepType == AUIInv /\ [AUNext]_auVars => AUTypeOK'
<1> SUFFICES ASSUME AUIInv, [AUNext]_auVars PROVE AUTypeOK'  OBVIOUS
<1> USE DEF AUIInv, AUTypeOK, Copies, Other, shared, readers, writers
<1>1. ASSUME NEW s \in Sections, ReadEnd(s) PROVE AUTypeOK'
  <2>1. s \in Open  BY <1>1 DEF ReadEnd, Open
  <2>2. Cardinality(Open) # 0  BY <2>1, OpenFinite, FS_EmptySet
  <2>3. count - 1 \in Nat  BY <2>2 DEF CountIsOpen
  <2> QED BY <1>1, <2>3 DEF ReadEnd
<1>2. ASSUME NEW s \in Sections, ReadBegin(s) \/ Post(s) PROVE AUTypeOK'
  BY <1>2 DEF ReadBegin, Post
<1>3. ASSUME NEW w \in Writers, WriteBegin(w) \/ WriteSwap(w) PROVE AUTypeOK'
  <2>1. CASE WriteBegin(w)
    <3>1. Other(which) \in Copies  OBVIOUS
    <3> QED BY <2>1, <3>1 DEF WriteBegin
  <2>2. CASE WriteSwap(w)  BY <2>2 DEF WriteSwap
  <2> QED BY <1>3, <2>1, <2>2
<1>4. ASSUME NEW w \in Writers, Load(w) \/ Acquire(w) \/ CasFails(w) PROVE AUTypeOK'
  BY <1>4 DEF Load, Acquire, CasFails
<1>5. ASSUME NEW w \in Writers, CasSwaps(w) PROVE AUTypeOK'
  BY <1>5 DEF CasSwaps
<1>6. ASSUME NEW w \in Writers, WriteEnd(w) \/ WriteEndSwaps(w) PROVE AUTypeOK'
  BY <1>6 DEF WriteEnd, WriteEndSwaps
<1>7. CASE UNCHANGED auVars  BY <1>7 DEF auVars
<1> QED BY <1>1, <1>2, <1>3, <1>4, <1>5, <1>6, <1>7
       DEF AUNext, SectionStep, WriterStep, SwapLoop

(* A section step changes the count and the set of open sections alike. *)
LEMMA StepCount == AUIInv /\ [AUNext]_auVars => CountIsOpen'
<1> SUFFICES ASSUME AUIInv, [AUNext]_auVars PROVE CountIsOpen'  OBVIOUS
<1> USE DEF AUIInv, AUTypeOK, CountIsOpen, shared, readers, writers
<1>1. ASSUME NEW s \in Sections, ReadBegin(s) PROVE CountIsOpen'
  <2>1. Open' = Open \cup {s} /\ s \notin Open  BY <1>1 DEF ReadBegin, Open
  <2>2. Cardinality(Open') = Cardinality(Open) + 1
    BY <2>1, OpenFinite, FS_AddElement
  <2> QED BY <1>1, <2>2 DEF ReadBegin
<1>2. ASSUME NEW s \in Sections, ReadEnd(s) PROVE CountIsOpen'
  <2>1. Open' = Open \ {s} /\ s \in Open  BY <1>2 DEF ReadEnd, Open
  <2>2. Cardinality(Open') = Cardinality(Open) - 1
    BY <2>1, OpenFinite, FS_RemoveElement
  <2> QED BY <1>2, <2>2 DEF ReadEnd
<1>3. ASSUME UNCHANGED count, Open' = Open PROVE CountIsOpen'
  BY <1>3
<1>4. ASSUME NEW s \in Sections, Post(s) PROVE CountIsOpen'
  BY <1>3, <1>4 DEF Post, Open
<1>5. ASSUME NEW w \in Writers, WriterStep(w) PROVE CountIsOpen'
  BY <1>3, <1>5 DEF WriterStep, SwapLoop, WriteBegin, WriteSwap, Load, Acquire,
                    CasFails, CasSwaps, WriteEnd, WriteEndSwaps, Open
<1>6. CASE UNCHANGED auVars  BY <1>3, <1>6 DEF auVars, Open
<1> QED BY <1>1, <1>2, <1>4, <1>5, <1>6 DEF AUNext, SectionStep

(* The top bit is flipped only when the count, and so the set of open          *)
(* sections, is empty: the sections that are open keep reading the same copy.  *)
LEMMA StepCurrent == AUIInv /\ [AUNext]_auVars => OpenReadCurrent'
<1> SUFFICES ASSUME AUIInv, [AUNext]_auVars PROVE OpenReadCurrent'  OBVIOUS
<1> USE DEF AUIInv, AUTypeOK, OpenReadCurrent, Open, shared, readers, writers
<1>1. ASSUME NEW s \in Sections, SectionStep(s) PROVE OpenReadCurrent'
  BY <1>1 DEF SectionStep, ReadBegin, ReadEnd, Post
<1>2. ASSUME NEW w \in Writers, CasSwaps(w) PROVE OpenReadCurrent'
  <2>1. Open = {}
    BY <1>2, OpenFinite, FS_EmptySet DEF CasSwaps, CountIsOpen
  <2> QED BY <1>2, <2>1 DEF CasSwaps
<1>3. ASSUME UNCHANGED <<spc, copy, which>> PROVE OpenReadCurrent'
  BY <1>3
<1>4. ASSUME NEW w \in Writers, WriterStep(w), ~CasSwaps(w) PROVE OpenReadCurrent'
  BY <1>3, <1>4 DEF WriterStep, SwapLoop, WriteBegin, WriteSwap, Load, Acquire,
                    CasFails, WriteEnd, WriteEndSwaps
<1>5. CASE UNCHANGED auVars  BY <1>3, <1>5 DEF auVars
<1> QED BY <1>1, <1>2, <1>4, <1>5 DEF AUNext

(* m_writeLock serialises the writers, so only its owner moves or flips. *)
LEMMA StepWriter == AUIInv /\ [AUNext]_auVars => WriterInside'
<1> SUFFICES ASSUME AUIInv, [AUNext]_auVars PROVE WriterInside'  OBVIOUS
<1> USE WritersAssumption
    DEF AUIInv, AUTypeOK, WriterInside, Other, Copies, shared, readers, writers
<1>1. ASSUME NEW s \in Sections, SectionStep(s) PROVE WriterInside'
  BY <1>1 DEF SectionStep, ReadBegin, ReadEnd, Post
<1>2. ASSUME NEW w \in Writers, WriteBegin(w) \/ WriteSwap(w) PROVE WriterInside'
  BY <1>2 DEF WriteBegin, WriteSwap
<1>3. ASSUME NEW w \in Writers, Load(w) \/ Acquire(w) \/ CasFails(w)
      PROVE WriterInside'
  BY <1>3 DEF Load, Acquire, CasFails
<1>4. ASSUME NEW w \in Writers, CasSwaps(w) PROVE WriterInside'
  BY <1>4 DEF CasSwaps
<1>5. ASSUME NEW w \in Writers, WriteEnd(w) \/ WriteEndSwaps(w) PROVE WriterInside'
  BY <1>5 DEF WriteEnd, WriteEndSwaps
<1>6. CASE UNCHANGED auVars  BY <1>6 DEF auVars
<1> QED BY <1>1, <1>2, <1>3, <1>4, <1>5, <1>6 DEF AUNext, WriterStep, SwapLoop

(* The inductive invariant of iAUpdate. *)
THEOREM AUpdateInvariant == AUSafe => []AUIInv
<1>1. AUInit => AUIInv  BY InitIInv
<1>2. AUIInv /\ [AUNext]_auVars => AUIInv'
  BY StepType, StepCount, StepCurrent, StepWriter DEF AUIInv
<1> QED BY <1>1, <1>2, PTL DEF AUSafe

(* Every field keeps its type; in particular the reader count never wraps      *)
(* below zero into the bit that names the copy.                                *)
THEOREM AUpdateTypeCorrect == AUSpec => []AUTypeOK
<1>1. AUIInv => AUTypeOK  BY DEF AUIInv
<1> QED BY <1>1, AUpdateInvariant, PTL DEF AUSpec

LEMMA IInvExcludes == AUIInv => Exclusion
  BY DEF AUIInv, AUTypeOK, Exclusion, OpenReadCurrent, WriterInside, Open, Other, Copies

(* No reader looks at the copy a writer modifies. *)
THEOREM AUpdateExclusion == AUSpec => []Exclusion
<1> QED BY IInvExcludes, AUpdateInvariant, PTL DEF AUSpec

(* writeSwap() returns the opposite of the previous copy. *)
THEOREM AUpdateSwapAlternates == AUSpec => SwapAlternates
<1>1. AUIInv /\ [AUNext]_auVars => [SwapReturnsOpposite]_auVars
  <2> SUFFICES ASSUME AUIInv, AUNext, NEW w \in Writers,
                      wpc[w] \notin {"idle", "write"}, wpc'[w] = "write"
               PROVE wcopy'[w] = Other(wcopy[w])
    BY DEF SwapReturnsOpposite
  <2>1. CasSwaps(w)
    BY DEF AUIInv, AUTypeOK, AUNext, SectionStep, ReadBegin, ReadEnd, Post, WriterStep,
           SwapLoop, WriteBegin, WriteSwap, Load, Acquire, CasFails, CasSwaps, WriteEnd,
           WriteEndSwaps, shared, readers, writers
  <2> QED BY <2>1 DEF CasSwaps, AUIInv, AUTypeOK, WriterInside, Other, Copies
<1> QED BY <1>1, AUpdateInvariant, PTL DEF AUSpec, AUSafe, SwapAlternates

------------------------------------------------------------------------------
(* The list of the traps, iMemTrap.                                            *)

(* Each step of iMemTrap is one step of iAUpdate or leaves it alone. *)
LEMMA AUStep == [MTNext]_mtVars => [AUNext]_auVars
<1> SUFFICES ASSUME [MTNext]_mtVars PROVE [AUNext]_auVars  OBVIOUS
<1>1. ASSUME NEW w \in Writers, NEW t \in Traps, NEW r \in Ranges,
             ~Aborted, Construct(w, t, r) \/ Update(w, t, r)
      PROVE AUNext
  <2>1. WriteBegin(w)  BY <1>1 DEF Construct, Update, Enter
  <2> QED BY <1>1, <2>1 DEF AUNext, WriterStep
<1>2. ASSUME NEW w \in Writers, NEW t \in Traps, ~Aborted, Destroy(w, t)
      PROVE AUNext
  <2>1. WriteBegin(w)  BY <1>2 DEF Destroy, Enter
  <2> QED BY <1>2, <2>1 DEF AUNext, WriterStep
<1>3. ASSUME NEW w \in Writers, Link(w) \/ Unlink(w) \/ Assign(w)
      PROVE UNCHANGED auVars
  BY <1>3 DEF Link, Unlink, Assign
<1>4. ASSUME NEW w \in Writers, ~Aborted, Swap(w) \/ End(w) \/ Loop(w)
      PROVE AUNext
  <2>1. WriteSwap(w) \/ WriteEnd(w) \/ WriteEndSwaps(w) \/ SwapLoop(w)
    BY <1>4 DEF Swap, End, Loop
  <2> QED BY <1>4, <2>1 DEF AUNext, WriterStep
<1>5. ASSUME NEW s \in Sections, NEW r \in Ranges, ~Aborted, Handle(s, r)
      PROVE AUNext
  BY <1>5 DEF Handle, AUNext, SectionStep
<1>6. ASSUME NEW s \in Sections, Pass(s) PROVE UNCHANGED auVars
  BY <1>6 DEF Pass
<1>7. ASSUME NEW s \in Sections, ~Aborted, Leave(s) \/ Posted(s) PROVE AUNext
  BY <1>7 DEF Leave, Posted, AUNext, SectionStep
<1>8. CASE UNCHANGED mtVars  BY <1>8 DEF mtVars
<1> QED BY <1>1, <1>2, <1>3, <1>4, <1>5, <1>6, <1>7, <1>8 DEF MTNext

(* iMemTrap calls iAUpdate by its rules, so what is proved of iAUpdate holds    *)
(* in it.                                                                      *)
THEOREM MemTrapImplementsAUpdate == MTSpec => AUSafe
<1>1. MTInit => AUInit  BY DEF MTInit
<1> QED BY <1>1, AUStep, PTL DEF MTSpec, AUSafe

(* The handler never walks the list a constructor, a destructor or update()    *)
(* is editing.                                                                 *)
THEOREM MemTrapExclusion == MTSpec => []Exclusion
<1> QED BY IInvExcludes, MemTrapImplementsAUpdate, AUpdateInvariant, PTL

------------------------------------------------------------------------------
(* The walk of a list.                                                         *)

Nexts == [Traps -> Traps \cup {Null}]
Far == Cardinality(Traps)
Part(n, t, m, f) ==
    f = [i \in 0..m |-> IF i = 0 THEN t ELSE IF f[i-1] = Null THEN Null ELSE n[f[i-1]]]
Steps(n, t, f) == Part(n, t, Far, f)

LEMMA FarIs == Far \in Nat
  BY TrapsAssumption, FS_CardinalityType DEF Far

(* Some element of a set of numbers is the least. *)
LEMMA Least ==
  ASSUME NEW T, T \subseteq Nat, T # {}
  PROVE  \E x \in T : \A y \in T : x <= y
<1>1. PICK x \in T : \A y \in T : ~(<<y, x>> \in OpToRel(<, Nat))
  BY NatLessThanWellFounded, WFMin
<1>2. ASSUME NEW y \in T PROVE x <= y
  <2>1. ~(y < x)  BY <1>1 DEF OpToRel
  <2> QED BY <2>1
<1> QED BY <1>2

(* A walk of any length is defined, by as many steps. *)
LEMMA WalkExists == ASSUME NEW n, NEW t PROVE \E f : Steps(n, t, f)
<1> DEFINE T == {m \in Nat : ~\E f : Part(n, t, m, f)}
<1> SUFFICES ASSUME T # {} PROVE FALSE  BY FarIs DEF Steps
<1>1. PICK x \in T : \A y \in T : x <= y
  <2>1. T \subseteq Nat  OBVIOUS
  <2> HIDE DEF T
  <2> QED BY <2>1, Least
<1>2. CASE x = 0
  <2> DEFINE f == [i \in 0..0 |-> t]
  <2>1. Part(n, t, 0, f)  BY DEF Part
  <2> QED BY <1>2, <2>1
<1>3. CASE x # 0
  <2>1. x - 1 \in Nat /\ ~(x <= x - 1)  BY <1>3
  <2>2. PICK f : Part(n, t, x-1, f)  BY <1>1, <2>1
  <2> DEFINE last == IF f[x-1] = Null THEN Null ELSE n[f[x-1]]
             g == [i \in 0..x |-> IF i = x THEN last ELSE f[i]]
             h == [i \in 0..x |-> IF i = 0 THEN t ELSE IF g[i-1] = Null THEN Null
                                                         ELSE n[g[i-1]]]
  <2>3. ASSUME NEW i \in 0..x PROVE g[i] = h[i]
    <3>1. CASE i = x
      <4>1. g[i-1] = f[x-1] /\ i # 0  BY <1>3, <3>1
      <4> QED BY <3>1, <4>1
    <3>2. CASE i # x
      <4>1. i \in 0..x-1 /\ g[i] = f[i]  BY <3>2
      <4>2. f[i] = IF i = 0 THEN t ELSE IF f[i-1] = Null THEN Null ELSE n[f[i-1]]
        BY <2>2, <4>1 DEF Part
      <4>3. CASE i = 0  BY <4>1, <4>2, <4>3
      <4>4. CASE i # 0
        <5>1. i-1 \in 0..x /\ i-1 # x /\ g[i-1] = f[i-1]  BY <4>1, <4>4
        <5> QED BY <4>1, <4>2, <4>4, <5>1
      <4> QED BY <4>3, <4>4
    <3> QED BY <3>1, <3>2
  <2>4. g = h
    <3> HIDE DEF last
    <3> QED BY <2>3
  <2>5. Part(n, t, x, g)  BY <2>4 DEF Part
  <2> QED BY <2>5
<1> QED BY <1>2, <1>3

LEMMA WalkIs ==
  ASSUME NEW c, NEW t
  PROVE  \E f : /\ f[0] = t
                /\ \A i \in 1..Far : f[i] = IF f[i-1] = Null THEN Null ELSE next[c][f[i-1]]
                /\ Walk(c, t) = {f[i] : i \in 0..Far} \ {Null}
<1> DEFINE g == CHOOSE f : Steps(next[c], t, f)
<1>1. Steps(next[c], t, g)  BY WalkExists
<1>2. Walk(c, t) = {g[i] : i \in 0..Far} \ {Null}
  BY Zenon DEF Walk, Steps, Part, Far
<1> HIDE DEF g
<1>3. g[0] = t  BY <1>1, FarIs DEF Steps, Part
<1>4. ASSUME NEW i \in 1..Far PROVE g[i] = IF g[i-1] = Null THEN Null ELSE next[c][g[i-1]]
  <2>1. i \in 0..Far /\ i # 0  BY FarIs
  <2> QED BY <1>1, <2>1 DEF Steps, Part
<1> QED BY <1>2, <1>3, <1>4

(* A walk that begins inside a set closed under _next stays in it. *)
LEMMA WalkInside ==
  ASSUME NEW c, NEW M, NEW t \in M \cup {Null},
         \A u \in M : next[c][u] \in M \cup {Null}
  PROVE  Walk(c, t) \subseteq M
<1>1. PICK f : /\ f[0] = t
               /\ \A i \in 1..Far : f[i] = IF f[i-1] = Null THEN Null ELSE next[c][f[i-1]]
               /\ Walk(c, t) = {f[i] : i \in 0..Far} \ {Null}
  BY WalkIs
<1> DEFINE T == {i \in 0..Far : f[i] \notin M \cup {Null}}
<1>2. T = {}
  <2> SUFFICES ASSUME T # {} PROVE FALSE  OBVIOUS
  <2>1. PICK x \in T : \A y \in T : x <= y
    <3>1. T \subseteq Nat  BY FarIs
    <3> HIDE DEF T
    <3> QED BY <3>1, Least
  <2>2. x # 0 /\ x \in 1..Far  BY <1>1, FarIs
  <2>3. x-1 \in 0..Far /\ ~(x <= x-1)  BY <2>2, FarIs
  <2>4. f[x-1] \in M \cup {Null}  BY <2>1, <2>3
  <2> QED BY <1>1, <2>2, <2>4
<1> QED BY <1>1, <1>2

------------------------------------------------------------------------------
(* One list: h is its head, n and p the two pointers, M the traps in it.        *)
(* ord falls along the list, which therefore has no cycle apart from it.       *)
Chained(h, n, p, M) ==
    /\ h \in M \cup {Null}
    /\ \A t \in M : /\ n[t] \in M \cup {Null} /\ p[t] \in M \cup {Null}
                    /\ p[t] = Null <=> h = t
                    /\ n[t] # Null => p[n[t]] = t
                    /\ p[t] # Null => n[p[t]] = t
Falls(n, M, ord, top) ==
    /\ ord \in [Traps -> Nat] /\ top \in Nat
    /\ \A t \in M : ord[t] <= top /\ (n[t] # Null => ord[n[t]] < ord[t])
Ranked(n, M) == \E ord, top : Falls(n, M, ord, top)

LEMMA LinkChains ==
  ASSUME NEW M, M \subseteq Traps, NEW h, NEW n, NEW p, Chained(h, n, p, M), Ranked(n, M),
         n \in Nexts, NEW t \in Traps \ M,
         NEW n1, n1 = [n EXCEPT ![t] = h],
         NEW p1, p1 = [x \in Traps |-> IF x = t THEN Null ELSE IF x = h THEN t ELSE p[x]]
  PROVE  Chained(t, n1, p1, M \cup {t}) /\ Ranked(n1, M \cup {t})
<1>1. Chained(t, n1, p1, M \cup {t})
  <2>1. n1[t] = h /\ \A u \in M : n1[u] = n[u]  BY DEF Nexts
  <2>2. p1[t] = Null /\ \A u \in M : p1[u] = IF u = h THEN t ELSE p[u]  OBVIOUS
  <2>3. Null \notin Traps /\ h # t  BY TrapsAssumption DEF Chained
  <2>4. \A u \in M : n[u] # h \/ h = Null  BY <2>3 DEF Chained
  <2> QED BY <2>1, <2>2, <2>3, <2>4 DEF Chained
<1>2. Ranked(n1, M \cup {t})
  <2>1. PICK ord, top : Falls(n, M, ord, top)  BY DEF Ranked
  <2> DEFINE ord1 == [ord EXCEPT ![t] = top + 1]
  <2>2. ord1 \in [Traps -> Nat] /\ top + 1 \in Nat /\ ord1[t] = top + 1  BY <2>1 DEF Falls
  <2>3. \A u \in M : ord1[u] = ord[u] /\ n1[u] = n[u] /\ ord[u] \in Nat
    BY <2>1 DEF Nexts, Falls
  <2>4. n1[t] = h /\ (h # Null => h \in M)  BY DEF Nexts, Chained
  <2>5. \A u \in M : n[u] # Null => n[u] \in M  BY DEF Chained
  <2> HIDE DEF ord1
  <2>6. Falls(n1, M \cup {t}, ord1, top + 1)
    BY <2>1, <2>2, <2>3, <2>4, <2>5 DEF Falls
  <2> QED BY <2>6 DEF Ranked
<1> QED BY <1>1, <1>2

LEMMA UnlinkChains ==
  ASSUME NEW M, M \subseteq Traps, NEW h, NEW n, NEW p, Chained(h, n, p, M), Ranked(n, M),
         n \in Nexts, p \in Nexts, NEW t \in M,
         NEW n1, n1 = IF p[t] # Null THEN [n EXCEPT ![p[t]] = n[t]] ELSE n,
         NEW p1, p1 = IF n[t] # Null THEN [p EXCEPT ![n[t]] = p[t]] ELSE p,
         NEW h1, h1 = IF p[t] = Null THEN n[t] ELSE h
  PROVE  Chained(h1, n1, p1, M \ {t}) /\ Ranked(n1, M \ {t})
<1>0. /\ Null \notin Traps /\ n[t] \in M \cup {Null} /\ p[t] \in M \cup {Null}
      /\ p[t] = Null <=> h = t
  BY TrapsAssumption DEF Chained
<1>1. n[t] # t /\ p[t] # t
  <2>1. PICK ord, top : Falls(n, M, ord, top)  BY DEF Ranked
  <2>2. \A u \in M : n[u] # u  BY <1>0, <2>1 DEF Falls
  <2> QED BY <1>0, <2>2 DEF Chained
<1>2. \A u \in M : n1[u] = IF u = p[t] THEN n[t] ELSE n[u]  BY <1>0 DEF Nexts
<1>3. \A u \in M : p1[u] = IF u = n[t] THEN p[t] ELSE p[u]  BY <1>0 DEF Nexts
<1>4. \A u \in M : n[u] = t <=> u = p[t]  BY <1>0 DEF Chained
<1>5. \A u \in M : p[u] = t <=> u = n[t]  BY <1>0 DEF Chained
<1>6. \A u \in M : n[u] = n[t] /\ u # t => n[u] = Null  BY <1>0 DEF Chained
<1>7. \A u \in M : p[u] = p[t] /\ u # t => p[u] = Null  BY <1>0 DEF Chained
<1>8. Chained(h1, n1, p1, M \ {t})
  BY <1>0, <1>1, <1>2, <1>3, <1>4, <1>5, <1>6, <1>7 DEF Chained
<1>9. Ranked(n1, M \ {t})
  <2>1. PICK ord, top : Falls(n, M, ord, top)  BY DEF Ranked
  <2>2. ASSUME NEW u \in M \ {t} PROVE ord[u] <= top /\ (n1[u] # Null => ord[n1[u]] < ord[u])
    <3>1. CASE u = p[t]
      <4>1. n1[u] = n[t] /\ n[u] = t  BY <1>2, <1>4, <3>1
      <4>2. ord[t] < ord[u] /\ ord[u] <= top  BY <1>0, <2>1, <4>1 DEF Falls
      <4>3. n[t] # Null => ord[n[t]] < ord[t]  BY <2>1 DEF Falls
      <4>4. ord[t] \in Nat /\ ord[u] \in Nat /\ (n[t] # Null => ord[n[t]] \in Nat)
        BY <1>0, <2>1 DEF Falls
      <4> QED BY <4>1, <4>2, <4>3, <4>4
    <3>2. CASE u # p[t]  BY <1>2, <2>1, <3>2 DEF Falls
    <3> QED BY <3>1, <3>2
  <2>3. Falls(n1, M \ {t}, ord, top)  BY <2>1, <2>2 DEF Falls
  <2> QED BY <2>3 DEF Ranked
<1> QED BY <1>8, <1>9

(* A walk from the head passes every trap of the list: one that it misses, of   *)
(* the highest rank, would have a predecessor that is not missed.              *)
LEMMA WalkAll ==
  ASSUME NEW c, NEW M, M \subseteq Traps, Chained(head[c], next[c], prev[c], M),
         Ranked(next[c], M)
  PROVE  Listed(c) = M
<1>0. Null \notin M /\ Far \in Nat  BY TrapsAssumption, FarIs
<1>1. PICK f : /\ f[0] = head[c]
               /\ \A i \in 1..Far : f[i] = IF f[i-1] = Null THEN Null ELSE next[c][f[i-1]]
               /\ Walk(c, head[c]) = {f[i] : i \in 0..Far} \ {Null}
  BY WalkIs
<1>2. Walk(c, head[c]) \subseteq M  BY WalkInside DEF Chained
<1>3. PICK ord, top : Falls(next[c], M, ord, top)  BY DEF Ranked
<1>4. \A i \in 0..Far : f[i] # Null => f[i] \in M  BY <1>1, <1>2
<1> DEFINE Bad(j) == f[j] # Null /\ \E i \in 0..j-1 : f[i] = Null \/ ~(ord[f[j]] < ord[f[i]])
           T == {j \in 0..Far : Bad(j)}
<1>5. T = {}
  <2> SUFFICES ASSUME T # {} PROVE FALSE  OBVIOUS
  <2>1. T \subseteq Nat  BY <1>0
  <2>2. PICK j \in T : \A y \in T : j <= y
    <3> HIDE DEF T
    <3> QED BY <2>1, Least
  <2>3. PICK i \in 0..j-1 : f[i] = Null \/ ~(ord[f[j]] < ord[f[i]])  BY <2>2
  <2>4. j \in 1..Far /\ j-1 \in 0..Far /\ j \in Nat /\ ~(j <= j-1) /\ i \in 0..Far
    BY <1>0, <2>1, <2>3
  <2>5. f[j] # Null /\ f[j] = IF f[j-1] = Null THEN Null ELSE next[c][f[j-1]]
    BY <1>1, <2>2, <2>4
  <2>6. f[j-1] # Null /\ f[j-1] \in M /\ f[j] = next[c][f[j-1]]  BY <1>4, <2>4, <2>5
  <2>7. ord[f[j]] < ord[f[j-1]]  BY <1>3, <2>5, <2>6 DEF Falls
  <2>8. i # j-1  BY <2>3, <2>6, <2>7
  <2>9. i \in 0..j-2  BY <2>3, <2>4, <2>8
  <2>10. j-1 \notin T  BY <2>2, <2>4
  <2>11. f[i] # Null /\ ord[f[j-1]] < ord[f[i]]  BY <2>4, <2>6, <2>9, <2>10
  <2>12. /\ ord[f[j]] \in Nat /\ ord[f[j-1]] \in Nat /\ ord[f[i]] \in Nat
    BY <1>3, <1>4, <2>4, <2>5, <2>6, <2>11 DEF Falls
  <2> QED BY <2>3, <2>7, <2>11, <2>12
<1>6. f[Far] = Null
  <2> SUFFICES ASSUME f[Far] # Null PROVE FALSE  OBVIOUS
  <2>1. Far \in 0..Far /\ ~Bad(Far)  BY <1>0, <1>5
  <2>2. \A i \in 0..Far : f[i] # Null  BY <1>0, <2>1
  <2>3. \A i, j \in 0..Far : i < j => f[i] # f[j]
    <3> SUFFICES ASSUME NEW i \in 0..Far, NEW j \in 0..Far, i < j, f[i] = f[j] PROVE FALSE
      OBVIOUS
    <3>1. i \in 0..j-1 /\ ~Bad(j)  BY <1>0, <1>5
    <3>2. ord[f[j]] < ord[f[i]]  BY <2>2, <3>1
    <3>3. ord[f[j]] \in Nat  BY <1>3, <1>4, <2>2 DEF Falls
    <3> QED BY <3>2, <3>3
  <2> DEFINE g == [i \in 0..Far |-> f[i]]
  <2>4. g \in Injection(0..Far, Traps)
    <3>1. \A i \in 0..Far : f[i] \in Traps  BY <1>4, <2>2
    <3>2. \A i, j \in 0..Far : i # j => f[i] # f[j]  BY <1>0, <2>3
    <3> QED BY <3>1, <3>2 DEF Injection, IsInjective
  <2>5. Cardinality(0..Far) <= Far
    <3> HIDE DEF g
    <3> QED BY <2>4, FS_Injection, TrapsAssumption DEF Far, ExistsInjection
  <2>6. Cardinality(0..Far) = Far + 1  BY <1>0, FS_Interval
  <2> QED BY <1>0, <2>5, <2>6
<1>7. ASSUME NEW u \in M, u \notin Walk(c, head[c]) PROVE FALSE
  <2> DEFINE U == {top - ord[x] : x \in {y \in M : y \notin Walk(c, head[c])}}
  <2>1. U \subseteq Nat /\ U # {}
    <3>1. \A x \in M : ord[x] \in Nat /\ top \in Nat /\ ord[x] <= top  BY <1>3 DEF Falls
    <3> QED BY <1>7, <3>1
  <2>2. PICK m \in U : \A y \in U : m <= y
    <3> HIDE DEF U
    <3> QED BY <2>1, Least
  <2>3. PICK x \in M : x \notin Walk(c, head[c]) /\ m = top - ord[x]  BY <2>2
  <2>4. x # head[c]
    <3>1. 0 \in 0..Far  BY <1>0
    <3> QED BY <1>0, <1>1, <2>3, <3>1
  <2>5. prev[c][x] # Null /\ prev[c][x] \in M /\ next[c][prev[c][x]] = x
    BY <2>4 DEF Chained
  <2> DEFINE y == prev[c][x]
  <2>6. ord[x] < ord[y] /\ ord[x] \in Nat /\ ord[y] \in Nat /\ top \in Nat
    BY <1>0, <1>3, <2>3, <2>5 DEF Falls
  <2>7. y \in Walk(c, head[c])
    <3> SUFFICES ASSUME y \notin Walk(c, head[c]) PROVE FALSE  OBVIOUS
    <3>1. top - ord[y] \in U  BY <2>5
    <3> HIDE DEF y
    <3> QED BY <2>2, <2>3, <2>6, <3>1
  <2>8. PICK k \in 0..Far : f[k] = y  BY <1>1, <2>7
  <2>9. k + 1 \in 1..Far /\ k + 1 - 1 = k /\ k + 1 \in 0..Far  BY <1>0, <1>6, <2>5, <2>8
  <2>10. f[k+1] = x  BY <1>1, <2>5, <2>8, <2>9
  <2> QED BY <1>0, <1>1, <2>3, <2>9, <2>10
<1> QED BY <1>2, <1>7 DEF Listed

------------------------------------------------------------------------------
(* What a call has left to do: New.. are the rests of a constructor's list,     *)
(* Gone.. of the destructor's, Move.. of update()'s, which ends as New1 does.   *)
New   == <<"link", "swap", "link", "live">>
New1  == <<"swap", "link", "live">>
New2  == <<"link", "live">>
Gone  == <<"unlink", "swap", "unlink", "freed">>
Gone1 == <<"swap", "unlink", "freed">>
Gone2 == <<"unlink", "freed">>
Move  == <<"unlink", "swap", "assign", "swap", "link", "live">>
Move1 == <<"swap", "assign", "swap", "link", "live">>
Move2 == <<"assign", "swap", "link", "live">>
Born  == <<"live">>
Dead  == <<"freed">>
Todos == {New, New1, New2, Gone, Gone1, Gone2, Move, Move1, Move2, Born, Dead}

LEMMA Rests ==
  /\ Head(New) = "link" /\ Tail(New) = New1
  /\ Head(New1) = "swap" /\ Tail(New1) = New2
  /\ Head(New2) = "link" /\ Tail(New2) = Born
  /\ Head(Gone) = "unlink" /\ Tail(Gone) = Gone1
  /\ Head(Gone1) = "swap" /\ Tail(Gone1) = Gone2
  /\ Head(Gone2) = "unlink" /\ Tail(Gone2) = Dead
  /\ Head(Move) = "unlink" /\ Tail(Move) = Move1
  /\ Head(Move1) = "swap" /\ Tail(Move1) = Move2
  /\ Head(Move2) = "assign" /\ Tail(Move2) = New1
  /\ Head(Born) = "live" /\ Head(Dead) = "freed"
BY DEF New, New1, New2, Gone, Gone1, Gone2, Move, Move1, Move2, Born, Dead

LEMMA Lengths ==
  /\ Len(New) = 4 /\ Len(New1) = 3 /\ Len(New2) = 2
  /\ Len(Gone) = 4 /\ Len(Gone1) = 3 /\ Len(Gone2) = 2
  /\ Len(Move) = 6 /\ Len(Move1) = 5 /\ Len(Move2) = 4
  /\ Len(Born) = 1 /\ Len(Dead) = 1
BY DEF New, New1, New2, Gone, Gone1, Gone2, Move, Move1, Move2, Born, Dead

(* A swap of the call itself is under way; the end of a call may need one more. *)
Inside(w) == wpc[w] # "idle"
Flipping(w) == wpc[w] \in {"load", "acquire", "cas"} /\ ~ending[w]

(* What the trap of a call has left to do says which copies it is in: the one   *)
(* the call edits, and the one the handlers walk.                              *)
InMine(w) ==
    \/ op[w].todo \in {New1, Gone, Move, Born}
    \/ op[w].todo = New2 /\ Flipping(w)
    \/ op[w].todo \in {Gone2, Move2} /\ ~Flipping(w)
InTheirs(w) ==
    \/ op[w].todo \in {Gone, Gone1, Move, Move1, Born}
    \/ op[w].todo = New2 /\ ~Flipping(w)
    \/ op[w].todo \in {Gone2, Move2} /\ Flipping(w)
Edited(w, c) == IF c = which THEN InTheirs(w) ELSE InMine(w)

LEMMA Places ==
  ASSUME NEW w
  PROVE  /\ op[w].todo = New => ~InMine(w) /\ ~InTheirs(w)
         /\ op[w].todo = New1 => InMine(w) /\ ~InTheirs(w)
         /\ op[w].todo = New2 => (InMine(w) <=> Flipping(w)) /\ (InTheirs(w) <=> ~Flipping(w))
         /\ op[w].todo \in {Gone, Move, Born} => InMine(w) /\ InTheirs(w)
         /\ op[w].todo \in {Gone1, Move1} => ~InMine(w) /\ InTheirs(w)
         /\ op[w].todo \in {Gone2, Move2}
              => (InMine(w) <=> ~Flipping(w)) /\ (InTheirs(w) <=> Flipping(w))
         /\ op[w].todo = Dead => ~InMine(w) /\ ~InTheirs(w)
BY Rests, Lengths, SMTT(30) DEF InMine, InTheirs

LEMMA PlacesNext ==
  ASSUME NEW w
  PROVE  /\ op'[w].todo = New => ~InMine(w)' /\ ~InTheirs(w)'
         /\ op'[w].todo = New1 => InMine(w)' /\ ~InTheirs(w)'
         /\ op'[w].todo = New2
              => (InMine(w)' <=> Flipping(w)') /\ (InTheirs(w)' <=> ~Flipping(w)')
         /\ op'[w].todo \in {Gone, Move, Born} => InMine(w)' /\ InTheirs(w)'
         /\ op'[w].todo \in {Gone1, Move1} => ~InMine(w)' /\ InTheirs(w)'
         /\ op'[w].todo \in {Gone2, Move2}
              => (InMine(w)' <=> ~Flipping(w)') /\ (InTheirs(w)' <=> Flipping(w)')
         /\ op'[w].todo = Dead => ~InMine(w)' /\ ~InTheirs(w)'
BY Rests, Lengths, SMTT(30) DEF InMine, InTheirs

(* The traps that are in copy c. *)
Members(c) ==
    {t \in Traps : \/ life[t] = "live"
                   \/ \E w \in Writers : Inside(w) /\ op[w].trap = t /\ Edited(w, c)}

Calls == [trap : Traps \cup {Null}, range : Ranges \cup {Null}, todo : Todos \cup {<<>>}]
Fields ==
    /\ head \in [Copies -> Traps \cup {Null}]
    /\ next \in [Copies -> Nexts] /\ prev \in [Copies -> Nexts]
    /\ start \in [Traps -> Ranges \cup {Null}]
    /\ life \in [Traps -> {"unborn", "busy", "live", "freed"}]
    /\ op \in [Writers -> Calls]
    /\ cursor \in [Sections -> Traps \cup {Null}]
Shaped(w) ==
    IF Inside(w)
    THEN /\ op[w].trap \in Traps /\ op[w].todo \in Todos /\ life[op[w].trap] = "busy"
         /\ ending[w] => wpc[w] # "write" /\ op[w].todo \in {Born, Dead}
         /\ Flipping(w) => op[w].todo \in {New2, Gone2, Move2}
    ELSE op[w] = Idle /\ ~ending[w]
Shape == \A w \in Writers : Shaped(w)
Lists ==
    \A c \in Copies : /\ Chained(head[c], next[c], prev[c], Members(c))
                      /\ Ranked(next[c], Members(c))
Cursors == \A s \in Open : cursor[s] \in Members(which) \cup {Null}
MTInv == AUIInv /\ Fields /\ Shape /\ Lists /\ Cursors

(* With one writer inside, or none, the members are those. *)
Sole(w) == Inside(w) /\ \A v \in Writers : Inside(v) => v = w
Living == {t \in Traps : life[t] = "live"}

LEMMA SoleIs ==
  ASSUME AUIInv, NEW w \in Writers, Inside(w)
  PROVE  Sole(w) /\ writeLock = w /\ wcopy[w] = Other(which)
BY DEF AUIInv, WriterInside, Sole, Inside

LEMMA SoleMembers ==
  ASSUME NEW w \in Writers, Sole(w), op[w].trap \in Traps
  PROVE  \A c : Members(c) = Living \cup {t \in {op[w].trap} : Edited(w, c)}
BY DEF Members, Sole, Living

LEMMA SoleMembersNext ==
  ASSUME NEW w \in Writers, Sole(w)', op'[w].trap \in Traps
  PROVE  \A c : Members(c)' = Living' \cup {t \in {op'[w].trap} : Edited(w, c)'}
BY DEF Members, Sole, Living

LEMMA FreeMembers ==
  ASSUME \A v \in Writers : ~Inside(v)
  PROVE  \A c : Members(c) = Living
BY DEF Members, Living

LEMMA FreeMembersNext ==
  ASSUME \A v \in Writers : ~Inside(v)'
  PROVE  \A c : Members(c)' = Living'
BY DEF Members, Living

(* A step that leaves both lists and their members alone. *)
LEMMA SameLists ==
  ASSUME Lists, UNCHANGED lists, \A c \in Copies : Members(c)' = Members(c)
  PROVE  Lists'
BY DEF Lists, lists

LEMMA SameCursors ==
  ASSUME AUIInv, Cursors, UNCHANGED <<spc, which, cursor>>, Members(which)' = Members(which)
  PROVE  Cursors'
BY DEF Cursors, Open

LEMMA AUKeeps == AUIInv /\ [MTNext]_mtVars => AUIInv'
  BY AUStep, StepType, StepCount, StepCurrent, StepWriter DEF AUIInv

LEMMA SoleNext ==
  ASSUME AUIInv', NEW w \in Writers, Inside(w)'
  PROVE  Sole(w)' /\ writeLock' = w /\ wcopy'[w] = Other(which')
BY DEF AUIInv, WriterInside, Sole, Inside

LEMMA InitMT == MTInit => MTInv
<1> SUFFICES ASSUME MTInit PROVE MTInv  OBVIOUS
<1>1. AUIInv /\ AUInit  BY InitIInv DEF MTInit
<1>2. \A v \in Writers : ~Inside(v)  BY <1>1 DEF AUInit, Inside
<1>3. \A c : Members(c) = {}  BY <1>2, FreeMembers DEF Living, MTInit
<1>4. Fields
  BY DEF MTInit, Fields, Nexts, Calls, Idle
<1>5. Shape  BY <1>1, <1>2 DEF Shape, Shaped, MTInit, AUInit
<1>6. Lists
  <2>1. ASSUME NEW c \in Copies PROVE Chained(head[c], next[c], prev[c], {})
    BY <2>1 DEF MTInit, Chained
  <2>2. ASSUME NEW n PROVE Ranked(n, {})
    <3>1. Falls(n, {}, [t \in Traps |-> 0], 0)  BY DEF Falls
    <3> QED BY <3>1 DEF Ranked
  <2> QED BY <1>3, <2>1, <2>2 DEF Lists
<1>7. Cursors  BY DEF MTInit, Cursors, Open
<1> QED BY <1>1, <1>4, <1>5, <1>6, <1>7 DEF MTInv

(* What is left of a call that takes a step. *)
LEMMA Advances ==
  ASSUME Fields, NEW w \in Writers, Advance(w), Tail(op[w].todo) \in Todos
  PROVE  /\ op' \in [Writers -> Calls]
         /\ op'[w].trap = op[w].trap /\ op'[w].todo = Tail(op[w].todo)
         /\ \A v \in Writers \ {w} : op'[v] = op[v]
<1>1. op \in [Writers -> Calls] /\ op[w] \in Calls  BY DEF Fields
<1> DEFINE rest == Tail(op[w].todo)
           call == [op[w] EXCEPT !.todo = rest]
<1>2. op' = [op EXCEPT ![w] = call]  BY DEF Advance
<1>3. rest \in Todos  OBVIOUS
<1> HIDE DEF rest
<1>4. call \in Calls /\ call.trap = op[w].trap /\ call.todo = rest  BY <1>1, <1>3 DEF Calls
<1> HIDE DEF call
<1>5. op' \in [Writers -> Calls] /\ op'[w] = call /\ \A v \in Writers \ {w} : op'[v] = op[v]
  BY <1>1, <1>2, <1>4
<1> QED BY <1>4, <1>5 DEF rest

(* A step of no call: what is written, and for whom, stays. *)
LEMMA NoCall ==
  ASSUME MTInv, UNCHANGED <<lists, start, life, op, writers, which>>
  PROVE  Shape' /\ Lists' /\ \A c : Members(c)' = Members(c)
<1>1. UNCHANGED <<op, life, wpc, wcopy, ending, which, lists>>  BY DEF writers
<1>2. \A v : (Inside(v)' <=> Inside(v)) /\ (Flipping(v)' <=> Flipping(v))
  BY <1>1 DEF Inside, Flipping
<1>3. \A v : (InMine(v)' <=> InMine(v)) /\ (InTheirs(v)' <=> InTheirs(v))
  BY <1>1, <1>2 DEF InMine, InTheirs
<1>4. \A v, c : Edited(v, c)' <=> Edited(v, c)  BY <1>1, <1>3 DEF Edited
<1>5. \A c : Members(c)' = Members(c)  BY <1>1, <1>2, <1>4 DEF Members
<1>6. Shape'
  <2>1. \A v : Shaped(v)' <=> Shaped(v)  BY <1>1, <1>2 DEF Shaped
  <2> QED BY <2>1 DEF Shape, MTInv
<1> QED BY <1>1, <1>5, <1>6, SameLists DEF MTInv

LEMMA HandlerKeeps ==
  ASSUME MTInv, AUIInv', NEW s \in Sections,
         (\E r \in Ranges : Handle(s, r)) \/ Pass(s) \/ Leave(s) \/ Posted(s)
  PROVE  MTInv'
<1>1. UNCHANGED <<lists, start, life, op, writers, which>>
  BY DEF Handle, Pass, Leave, Posted, ReadBegin, ReadEnd, Post, auVars, shared, trapVars,
         lists
<1>2. Shape' /\ Lists' /\ \A c : Members(c)' = Members(c)  BY <1>1, NoCall
<1>3. /\ cursor \in [Sections -> Traps \cup {Null}] /\ AUTypeOK /\ which \in Copies
      /\ which' = which /\ Chained(head[which], next[which], prev[which], Members(which))
      /\ OpenReadCurrent
  BY <1>1 DEF MTInv, AUIInv, AUTypeOK, Fields, Lists
<1>4. Members(which) \subseteq Traps  BY DEF Members
<1>5. cursor' \in [Sections -> Traps \cup {Null}] /\ Cursors'
  <2>1. CASE \E r \in Ranges : Handle(s, r)
    <3>1. /\ cursor' = [cursor EXCEPT ![s] = head[which]]
          /\ spc' = [spc EXCEPT ![s] = "in"]
      BY <2>1 DEF Handle, ReadBegin
    <3>2. head[which] \in Members(which) \cup {Null}  BY <1>3 DEF Chained
    <3> QED BY <1>2, <1>3, <1>4, <3>1, <3>2 DEF Cursors, Open, MTInv, AUTypeOK
  <2>2. CASE Pass(s)
    <3>1. /\ cursor' = [cursor EXCEPT ![s] = next[copy[s]][cursor[s]]]
          /\ spc' = spc /\ spc[s] = "in" /\ cursor[s] # Null
      BY <2>2 DEF Pass, auVars, readers
    <3>2. copy[s] = which /\ cursor[s] \in Members(which)
      BY <1>3, <3>1 DEF OpenReadCurrent, Open, MTInv, Cursors
    <3>3. next[copy[s]][cursor[s]] \in Members(which) \cup {Null}
      BY <1>3, <3>2 DEF Chained
    <3> QED BY <1>2, <1>3, <1>4, <3>1, <3>3 DEF Cursors, Open, MTInv, AUTypeOK
  <2>3. CASE Leave(s)
    <3>1. /\ cursor' = [cursor EXCEPT ![s] = Null]
          /\ spc' = [spc EXCEPT ![s] = "abort"] \/ spc' = [spc EXCEPT ![s] = "post"]
      BY <2>3 DEF Leave, ReadEnd
    <3> QED BY <1>2, <1>3, <3>1 DEF Cursors, Open, MTInv, AUTypeOK
  <2>4. CASE Posted(s)
    <3>1. cursor' = cursor /\ spc' = [spc EXCEPT ![s] = "done"]
      BY <2>4 DEF Posted, Post, trapVars
    <3> QED BY <1>2, <1>3, <3>1 DEF Cursors, Open, MTInv, AUTypeOK
  <2> QED BY <2>1, <2>2, <2>3, <2>4
<1>6. Fields'  BY <1>1, <1>5 DEF Fields, MTInv, lists
<1> QED BY <1>2, <1>5, <1>6 DEF MTInv

(* writeBegin() of a call: the trap of a new one is in neither list yet, that   *)
(* of any other in both still.                                                 *)
LEMMA EnterKeeps ==
  ASSUME MTInv, AUIInv', NEW w \in Writers, NEW t \in Traps, NEW r \in Ranges \cup {Null},
         NEW from, NEW todo, Enter(w, t, from, r, todo),
         \/ from = "unborn" /\ todo = New
         \/ from = "live" /\ todo \in {Gone, Move, Born},
         start' \in [Traps -> Ranges \cup {Null}]
  PROVE  MTInv'
<1> DEFINE call == [trap |-> t, range |-> r, todo |-> todo]
<1>1. /\ WriteBegin(w) /\ life[t] = from /\ life' = [life EXCEPT ![t] = "busy"]
      /\ op' = [op EXCEPT ![w] = call] /\ UNCHANGED <<lists, cursor>>
  BY DEF Enter
<1>2. /\ writeLock = Nobody /\ wpc' = [wpc EXCEPT ![w] = "write"]
      /\ UNCHANGED <<which, ending, spc>>
  BY <1>1 DEF WriteBegin, readers
<1>3. AUTypeOK /\ WriterInside  BY DEF MTInv, AUIInv
<1>4. /\ life \in [Traps -> {"unborn", "busy", "live", "freed"}]
      /\ op \in [Writers -> Calls] /\ wpc[w] = "idle" /\ \A v \in Writers : wpc[v] = "idle"
  BY <1>1, <1>2, <1>3, WritersAssumption DEF MTInv, Fields, WriterInside
<1>5. todo \in Todos /\ call \in Calls /\ call.trap = t /\ call.todo = todo
  BY DEF Calls, Todos
<1> HIDE DEF call
<1>6. /\ op' \in [Writers -> Calls] /\ op'[w] = call
      /\ \A v \in Writers \ {w} : op'[v] = op[v]
  BY <1>1, <1>4, <1>5
<1>7. /\ life' \in [Traps -> {"unborn", "busy", "live", "freed"}] /\ life'[t] = "busy"
      /\ \A u \in Traps \ {t} : life'[u] = life[u]
  BY <1>1, <1>4
<1>8. /\ wpc'[w] = "write" /\ \A v \in Writers \ {w} : wpc'[v] = "idle"
  BY <1>2, <1>3, <1>4 DEF AUTypeOK
<1>9. \A v \in Writers : ~Inside(v)  BY <1>4 DEF Inside
<1>10. Inside(w)' /\ ~Flipping(w)' /\ \A v \in Writers \ {w} : ~Inside(v)'
  BY <1>8 DEF Inside, Flipping
<1>11. Fields'
  BY <1>1, <1>6, <1>7 DEF MTInv, Fields, lists
<1>12. Shape'
  <2>1. \A v \in Writers : op[v] = Idle /\ ~ending[v]  BY <1>9 DEF MTInv, Shape, Shaped
  <2>2. Shaped(w)'
    BY <1>2, <1>5, <1>6, <1>7, <1>10, <2>1 DEF Shaped
  <2>3. \A v \in Writers \ {w} : Shaped(v)'
    BY <1>2, <1>6, <1>10, <2>1 DEF Shaped
  <2> QED BY <2>2, <2>3 DEF Shape
<1>13. \A c : Members(c)' = Members(c)
  <2>1. \A c : Members(c) = Living  BY <1>9, FreeMembers
  <2>2. Sole(w)' /\ op'[w].trap = t  BY <1>5, <1>6, <1>10 DEF Sole
  <2>3. \A c : Members(c)' = Living' \cup {u \in {t} : Edited(w, c)'}
    BY <2>2, SoleMembersNext
  <2>4. CASE from = "unborn"
    <3>1. \A c : ~Edited(w, c)'  BY <1>5, <1>6, <2>4, PlacesNext DEF Edited
    <3>2. Living' = Living  BY <1>1, <1>7, <2>4 DEF Living
    <3> QED BY <2>1, <2>3, <3>1, <3>2
  <2>5. CASE from = "live"
    <3>1. op'[w].todo \in {Gone, Move, Born}  BY <1>5, <1>6, <2>5
    <3>2. \A c : Edited(w, c)'  BY <3>1, PlacesNext DEF Edited
    <3>3. Living = Living' \cup {t}  BY <1>1, <1>7, <2>5 DEF Living
    <3> QED BY <2>1, <2>3, <3>2, <3>3
  <2> QED BY <2>4, <2>5
<1>14. Lists'  BY <1>1, <1>13, SameLists DEF MTInv
<1>15. Cursors'
  <2>1. UNCHANGED <<spc, which, cursor>>  BY <1>1, <1>2
  <2>2. Members(which)' = Members(which)  BY <1>2, <1>13
  <2> QED BY <2>1, <2>2, SameCursors DEF MTInv
<1> QED BY <1>11, <1>12, <1>14, <1>15 DEF MTInv

(* A writer between two calls of iAUpdate. *)
LEMMA DoingIs ==
  ASSUME MTInv, NEW w \in Writers, wpc[w] = "write"
  PROVE  /\ Inside(w) /\ ~Flipping(w) /\ ~ending[w] /\ Sole(w)
         /\ op[w].trap \in Traps /\ op[w].todo \in Todos /\ life[op[w].trap] = "busy"
         /\ op[w].trap \notin Living
         /\ which \in Copies /\ wcopy[w] = Other(which) /\ wcopy[w] \in Copies
         /\ Copies = {which, wcopy[w]} /\ which # wcopy[w]
         /\ Members(which) = Living \cup {t \in {op[w].trap} : InTheirs(w)}
         /\ Members(wcopy[w]) = Living \cup {t \in {op[w].trap} : InMine(w)}
<1>1. Inside(w) /\ ~Flipping(w)  BY DEF Inside, Flipping
<1>2. Sole(w) /\ wcopy[w] = Other(which)  BY <1>1, SoleIs DEF MTInv
<1>3. Shaped(w)  BY DEF MTInv, Shape
<1>4. which \in Copies  BY DEF MTInv, AUIInv, AUTypeOK
<1>5. op[w].trap \in Traps /\ op[w].todo \in Todos /\ life[op[w].trap] = "busy" /\ ~ending[w]
  BY <1>1, <1>3 DEF Shaped
<1>6. /\ wcopy[w] \in Copies /\ Copies = {which, wcopy[w]} /\ which # wcopy[w]
  BY <1>2, <1>4 DEF Other, Copies
<1>7. \A c : Members(c) = Living \cup {t \in {op[w].trap} : Edited(w, c)}
  BY <1>2, <1>5, SoleMembers
<1>8. (Edited(w, which) <=> InTheirs(w)) /\ (Edited(w, wcopy[w]) <=> InMine(w))
  BY <1>6 DEF Edited
<1>9. op[w].trap \notin Living  BY <1>5 DEF Living
<1>10. /\ Members(which) = Living \cup {t \in {op[w].trap} : InTheirs(w)}
       /\ Members(wcopy[w]) = Living \cup {t \in {op[w].trap} : InMine(w)}
  BY <1>7, <1>8
<1> QED BY <1>1, <1>2, <1>4, <1>5, <1>6, <1>9, <1>10

(* A step of a call that leaves iAUpdate alone: an edit or an assignment. *)
LEMMA Between ==
  ASSUME MTInv, NEW w \in Writers, wpc[w] = "write", Advance(w),
         Tail(op[w].todo) \in Todos, UNCHANGED <<auVars, life, cursor>>
  PROVE  /\ Shape' /\ op' \in [Writers -> Calls]
         /\ op'[w].todo = Tail(op[w].todo) /\ ~Flipping(w)' /\ which' = which
         /\ Members(which)' = Living \cup {t \in {op[w].trap} : InTheirs(w)'}
         /\ Members(wcopy[w])' = Living \cup {t \in {op[w].trap} : InMine(w)'}
         /\ UNCHANGED <<spc, wcopy>>
<1>1. /\ op' \in [Writers -> Calls] /\ op'[w].trap = op[w].trap
      /\ op'[w].todo = Tail(op[w].todo) /\ \A v \in Writers \ {w} : op'[v] = op[v]
  BY Advances DEF MTInv
<1>2. UNCHANGED <<which, wpc, wcopy, ending, life, spc>>
  BY DEF auVars, shared, writers, readers
<1>3. /\ Inside(w) /\ ~Flipping(w) /\ ~ending[w] /\ Sole(w) /\ op[w].trap \in Traps
      /\ life[op[w].trap] = "busy" /\ which # wcopy[w]
  BY DoingIs
<1>4. \A v : (Inside(v)' <=> Inside(v)) /\ (Flipping(v)' <=> Flipping(v))
  BY <1>2 DEF Inside, Flipping
<1>5. Shape'
  <2>1. Shaped(w)'  BY <1>1, <1>2, <1>3, <1>4 DEF Shaped
  <2>2. \A v \in Writers \ {w} : Shaped(v)'
    BY <1>1, <1>2, <1>3, <1>4 DEF Shaped, MTInv, Shape, Sole
  <2> QED BY <2>1, <2>2 DEF Shape
<1>6. Sole(w)'  BY <1>3, <1>4 DEF Sole
<1>7. \A c : Members(c)' = Living' \cup {t \in {op'[w].trap} : Edited(w, c)'}
  BY <1>1, <1>3, <1>6, SoleMembersNext
<1>8. Living' = Living  BY <1>2 DEF Living
<1>9. (Edited(w, which)' <=> InTheirs(w)') /\ (Edited(w, wcopy[w])' <=> InMine(w)')
  BY <1>2, <1>3 DEF Edited
<1>10. /\ Members(which)' = Living \cup {t \in {op[w].trap} : InTheirs(w)'}
       /\ Members(wcopy[w])' = Living \cup {t \in {op[w].trap} : InMine(w)'}
  BY <1>1, <1>2, <1>7, <1>8, <1>9
<1> QED BY <1>1, <1>2, <1>3, <1>4, <1>5, <1>10

(* The rest of a call tells what its step can be. *)
LEMMA RestIs ==
  ASSUME MTInv, NEW w \in Writers, wpc[w] = "write"
  PROVE  /\ Doing(w, "link") => op[w].todo \in {New, New2}
         /\ Doing(w, "unlink") => op[w].todo \in {Gone, Gone2, Move}
         /\ Doing(w, "assign") => op[w].todo = Move2
         /\ Doing(w, "swap") => op[w].todo \in {New1, Gone1, Move1}
         /\ Len(op[w].todo) = 1 => op[w].todo \in {Born, Dead}
<1>1. op[w].todo \in Todos  BY DoingIs
<1> DEFINE d == op[w].todo
<1>2. d \in Todos  BY <1>1
<1>3. \A what : Doing(w, what) => Head(d) = what  BY DEF Doing
<1> HIDE DEF d
<1>4. Head(d) = "link" => d \in {New, New2}  BY <1>2, Rests DEF Todos
<1>5. Head(d) = "unlink" => d \in {Gone, Gone2, Move}  BY <1>2, Rests DEF Todos
<1>6. Head(d) = "assign" => d = Move2  BY <1>2, Rests DEF Todos
<1>7. Head(d) = "swap" => d \in {New1, Gone1, Move1}  BY <1>2, Rests DEF Todos
<1>8. Len(d) = 1 => d \in {Born, Dead}  BY <1>2, Lengths DEF Todos
<1> QED BY <1>3, <1>4, <1>5, <1>6, <1>7, <1>8 DEF d

(* An edit of the copy that the handlers are not given. *)
LEMMA EditKeeps ==
  ASSUME MTInv, AUIInv', NEW w \in Writers, wpc[w] = "write", Advance(w),
         Tail(op[w].todo) \in Todos, UNCHANGED <<auVars, life, start, cursor>>,
         InTheirs(w)' <=> InTheirs(w),
         NEW h \in Traps \cup {Null}, NEW n \in Nexts, NEW p \in Nexts,
         head' = [head EXCEPT ![wcopy[w]] = h], next' = [next EXCEPT ![wcopy[w]] = n],
         prev' = [prev EXCEPT ![wcopy[w]] = p],
         Chained(h, n, p, Members(wcopy[w])'), Ranked(n, Members(wcopy[w])')
  PROVE  MTInv'
<1>1. /\ Shape' /\ op' \in [Writers -> Calls] /\ which' = which
      /\ Members(which)' = Living \cup {t \in {op[w].trap} : InTheirs(w)'}
      /\ UNCHANGED <<spc, wcopy>>
  BY Between
<1>2. /\ wcopy[w] \in Copies /\ which \in Copies /\ Copies = {which, wcopy[w]}
      /\ which # wcopy[w]
      /\ Members(which) = Living \cup {t \in {op[w].trap} : InTheirs(w)}
  BY DoingIs
<1>3. Members(which)' = Members(which)  BY <1>1, <1>2
<1>4. /\ head \in [Copies -> Traps \cup {Null}] /\ next \in [Copies -> Nexts]
      /\ prev \in [Copies -> Nexts]
  BY DEF MTInv, Fields
<1>5. /\ head' \in [Copies -> Traps \cup {Null}] /\ next' \in [Copies -> Nexts]
      /\ prev' \in [Copies -> Nexts]
      /\ head'[wcopy[w]] = h /\ next'[wcopy[w]] = n /\ prev'[wcopy[w]] = p
      /\ head'[which] = head[which] /\ next'[which] = next[which] /\ prev'[which] = prev[which]
  BY <1>2, <1>4
<1>6. Fields'  BY <1>1, <1>5 DEF MTInv, Fields
<1>7. /\ Chained(head[which], next[which], prev[which], Members(which))
      /\ Ranked(next[which], Members(which))
  BY <1>2 DEF MTInv, Lists
<1>8. \A c \in Copies : /\ Chained(head'[c], next'[c], prev'[c], Members(c)')
                        /\ Ranked(next'[c], Members(c)')
  <2>1. ASSUME NEW c \in Copies, c = which
        PROVE /\ Chained(head'[c], next'[c], prev'[c], Members(c)')
              /\ Ranked(next'[c], Members(c)')
    BY <1>1, <1>3, <1>5, <1>7, <2>1
  <2>2. ASSUME NEW c \in Copies, c = wcopy[w]
        PROVE /\ Chained(head'[c], next'[c], prev'[c], Members(c)')
              /\ Ranked(next'[c], Members(c)')
    BY <1>1, <1>5, <2>2
  <2> QED BY <1>2, <2>1, <2>2
<1>9. Lists'  BY <1>8 DEF Lists, Chained, Ranked, Falls
<1>10. Cursors'  BY <1>1, <1>3, SameCursors DEF MTInv
<1> QED BY <1>1, <1>6, <1>9, <1>10 DEF MTInv

LEMMA LinkKeeps ==
  ASSUME MTInv, AUIInv', NEW w \in Writers, Link(w)
  PROVE  MTInv'
<1> DEFINE t == op[w].trap
           c == wcopy[w]
           n == [next[c] EXCEPT ![t] = head[c]]
           p == [x \in Traps |-> IF x = t THEN Null ELSE IF x = head[c] THEN t ELSE prev[c][x]]
<1>1. /\ Doing(w, "link") /\ wpc[w] = "write" /\ Advance(w)
      /\ next' = [next EXCEPT ![c] = n] /\ prev' = [prev EXCEPT ![c] = p]
      /\ head' = [head EXCEPT ![c] = t] /\ UNCHANGED <<auVars, life, start, cursor>>
  BY DEF Link, Doing
<1>2. op[w].todo \in {New, New2} /\ Tail(op[w].todo) \in Todos
  BY <1>1, RestIs, Rests DEF Todos
<1>3. /\ t \in Traps /\ t \notin Living /\ ~Flipping(w) /\ c \in Copies
      /\ Members(c) = Living \cup {x \in {t} : InMine(w)}
  BY <1>1, DoingIs
<1>4. /\ op'[w].todo = Tail(op[w].todo) /\ ~Flipping(w)'
      /\ Members(c)' = Living \cup {x \in {t} : InMine(w)'}
  BY <1>1, <1>2, Between
<1>5. ~InMine(w) /\ InMine(w)' /\ (InTheirs(w)' <=> InTheirs(w))
  <2>1. CASE op[w].todo = New
    <3>1. op'[w].todo = New1  BY <1>4, <2>1, Rests
    <3> QED BY <2>1, <3>1, Places, PlacesNext
  <2>2. CASE op[w].todo = New2
    <3>1. op'[w].todo = Born  BY <1>4, <2>2, Rests
    <3> QED BY <1>3, <2>2, <3>1, Places, PlacesNext
  <2> QED BY <1>2, <2>1, <2>2
<1>6. Members(c) = Living /\ Members(c)' = Living \cup {t}  BY <1>3, <1>4, <1>5
<1>7. /\ Chained(head[c], next[c], prev[c], Living) /\ Ranked(next[c], Living)
      /\ next[c] \in Nexts /\ prev[c] \in Nexts /\ head[c] \in Traps \cup {Null}
  BY <1>3, <1>6 DEF MTInv, Lists, Fields
<1>8. Living \subseteq Traps /\ t \in Traps \ Living  BY <1>3 DEF Living
<1>9. n \in Nexts /\ p \in Nexts
  BY <1>7, <1>8 DEF Nexts
<1> HIDE DEF t, c
<1>10. Chained(t, n, p, Living \cup {t}) /\ Ranked(n, Living \cup {t})
  BY ONLY <1>7, <1>8, LinkChains
<1> HIDE DEF n, p
<1>11. Chained(t, n, p, Members(c)') /\ Ranked(n, Members(c)')  BY <1>6, <1>10
<1> USE DEF c
<1> QED BY <1>1, <1>2, <1>5, <1>8, <1>9, <1>11, EditKeeps

LEMMA UnlinkKeeps ==
  ASSUME MTInv, AUIInv', NEW w \in Writers, Unlink(w)
  PROVE  MTInv'
<1> DEFINE t == op[w].trap
           c == wcopy[w]
           n == IF prev[c][t] # Null THEN [next[c] EXCEPT ![prev[c][t]] = next[c][t]]
                ELSE next[c]
           p == IF next[c][t] # Null THEN [prev[c] EXCEPT ![next[c][t]] = prev[c][t]]
                ELSE prev[c]
           h == IF prev[c][t] = Null THEN next[c][t] ELSE head[c]
<1>1. /\ Doing(w, "unlink") /\ wpc[w] = "write" /\ Advance(w)
      /\ UNCHANGED <<auVars, life, start, cursor>>
  BY DEF Unlink, Doing
<1>2. op[w].todo \in {Gone, Gone2, Move} /\ Tail(op[w].todo) \in Todos
  BY <1>1, RestIs, Rests DEF Todos
<1>3. /\ t \in Traps /\ t \notin Living /\ ~Flipping(w) /\ c \in Copies
      /\ Members(c) = Living \cup {x \in {t} : InMine(w)}
  BY <1>1, DoingIs
<1>4. /\ op'[w].todo = Tail(op[w].todo) /\ ~Flipping(w)'
      /\ Members(c)' = Living \cup {x \in {t} : InMine(w)'}
  BY <1>1, <1>2, Between
<1>5. InMine(w) /\ ~InMine(w)' /\ (InTheirs(w)' <=> InTheirs(w))
  <2>1. CASE op[w].todo = Gone
    <3>1. op'[w].todo = Gone1  BY <1>4, <2>1, Rests
    <3> QED BY <2>1, <3>1, Places, PlacesNext
  <2>2. CASE op[w].todo = Gone2
    <3>1. op'[w].todo = Dead  BY <1>4, <2>2, Rests
    <3> QED BY <1>3, <2>2, <3>1, Places, PlacesNext
  <2>3. CASE op[w].todo = Move
    <3>1. op'[w].todo = Move1  BY <1>4, <2>3, Rests
    <3> QED BY <2>3, <3>1, Places, PlacesNext
  <2> QED BY <1>2, <2>1, <2>2, <2>3
<1> DEFINE M == Living \cup {t}
<1>6. Members(c) = M /\ Members(c)' = M \ {t}  BY <1>3, <1>4, <1>5
<1>7. /\ Chained(head[c], next[c], prev[c], M) /\ Ranked(next[c], M)
      /\ next[c] \in Nexts /\ prev[c] \in Nexts /\ head[c] \in Traps \cup {Null}
      /\ head \in [Copies -> Traps \cup {Null}] /\ next \in [Copies -> Nexts]
      /\ prev \in [Copies -> Nexts]
  BY <1>3, <1>6 DEF MTInv, Lists, Fields
<1>8. M \subseteq Traps /\ t \in M  BY <1>3 DEF Living
<1>9. /\ head' = [head EXCEPT ![c] = h] /\ next' = [next EXCEPT ![c] = n]
      /\ prev' = [prev EXCEPT ![c] = p]
  <2>1. head' = [head EXCEPT ![c] = h]
    BY <1>3, <1>7 DEF Unlink
  <2>2. next' = [next EXCEPT ![c] = n]
    BY <1>3, <1>7 DEF Unlink
  <2>3. prev' = [prev EXCEPT ![c] = p]
    BY <1>3, <1>7 DEF Unlink
  <2> QED BY <2>1, <2>2, <2>3
<1>10. next[c][t] \in Traps \cup {Null} /\ prev[c][t] \in Traps \cup {Null}
  BY <1>3, <1>7 DEF Nexts
<1>11. n \in Nexts /\ p \in Nexts /\ h \in Traps \cup {Null}
  BY <1>7, <1>8, <1>10 DEF Nexts
<1> HIDE DEF t, c, M
<1> DEFINE hc == head[c]  nc == next[c]  pc == prev[c]
<1>12. Chained(h, n, p, M \ {t}) /\ Ranked(n, M \ {t})
  <2>1. /\ n = IF pc[t] # Null THEN [nc EXCEPT ![pc[t]] = nc[t]] ELSE nc
        /\ p = IF nc[t] # Null THEN [pc EXCEPT ![nc[t]] = pc[t]] ELSE pc
        /\ h = IF pc[t] = Null THEN nc[t] ELSE hc
    OBVIOUS
  <2>2. /\ Chained(hc, nc, pc, M) /\ Ranked(nc, M) /\ nc \in Nexts /\ pc \in Nexts
        /\ M \subseteq Traps /\ t \in M
    BY <1>7, <1>8
  <2> HIDE DEF n, p, h, hc, nc, pc
  <2> QED BY ONLY <2>1, <2>2, UnlinkChains
<1> HIDE DEF n, p, h
<1>13. Chained(h, n, p, Members(c)') /\ Ranked(n, Members(c)')  BY <1>6, <1>12
<1> USE DEF c
<1> QED BY <1>1, <1>2, <1>5, <1>9, <1>11, <1>13, EditKeeps

(* A step that edits no list, and after which each copy has the traps it had. *)
LEMMA QuietKeeps ==
  ASSUME MTInv, AUIInv', Shape', UNCHANGED <<lists, cursor>>, op' \in [Writers -> Calls],
         life' \in [Traps -> {"unborn", "busy", "live", "freed"}],
         start' \in [Traps -> Ranges \cup {Null}],
         \A c \in Copies : Members(c)' = Members(c),
         UNCHANGED <<spc, which>> \/ Open' = {}
  PROVE  MTInv'
<1>1. Fields'  BY DEF MTInv, Fields, lists
<1>2. Lists'  BY SameLists DEF MTInv
<1>3. Cursors'
  <2>1. CASE UNCHANGED <<spc, which>>
    <3>1. which \in Copies /\ which' = which  BY <2>1 DEF MTInv, AUIInv, AUTypeOK
    <3>2. Members(which)' = Members(which)  BY <3>1
    <3> QED BY <2>1, <3>2, SameCursors DEF MTInv
  <2>2. CASE Open' = {}  BY <2>2 DEF Cursors
  <2> QED BY <2>1, <2>2
<1> QED BY <1>1, <1>2, <1>3 DEF MTInv

LEMMA AssignKeeps ==
  ASSUME MTInv, AUIInv', NEW w \in Writers, Assign(w)
  PROVE  MTInv'
<1>1. /\ Doing(w, "assign") /\ wpc[w] = "write" /\ Advance(w)
      /\ UNCHANGED <<auVars, lists, life, cursor>>
      /\ start' = [start EXCEPT ![op[w].trap] = op[w].range]
  BY DEF Assign, Doing
<1>2. op[w].todo = Move2 /\ Tail(op[w].todo) = New1 /\ New1 \in Todos
  BY <1>1, RestIs, Rests DEF Todos
<1>3. /\ op[w].trap \in Traps /\ ~Flipping(w) /\ Copies = {which, wcopy[w]}
      /\ Members(which) = Living \cup {t \in {op[w].trap} : InTheirs(w)}
      /\ Members(wcopy[w]) = Living \cup {t \in {op[w].trap} : InMine(w)}
  BY <1>1, DoingIs
<1>4. /\ Shape' /\ op' \in [Writers -> Calls] /\ op'[w].todo = New1 /\ ~Flipping(w)'
      /\ Members(which)' = Living \cup {t \in {op[w].trap} : InTheirs(w)'}
      /\ Members(wcopy[w])' = Living \cup {t \in {op[w].trap} : InMine(w)'}
      /\ UNCHANGED <<spc, which, wcopy>>
  BY <1>1, <1>2, Between
<1>5. (InMine(w)' <=> InMine(w)) /\ (InTheirs(w)' <=> InTheirs(w))
  BY <1>2, <1>3, <1>4, Places, PlacesNext
<1>6. Members(which)' = Members(which) /\ Members(wcopy[w])' = Members(wcopy[w])
  BY <1>3, <1>4, <1>5
<1>7. \A c \in Copies : Members(c)' = Members(c)
  <2>1. ASSUME NEW c \in Copies PROVE Members(c)' = Members(c)
    BY <1>3, <1>4, <1>6
  <2> QED BY <2>1
<1>8. op[w].range \in Ranges \cup {Null}  BY DEF MTInv, Fields, Calls
<1>9. start' \in [Traps -> Ranges \cup {Null}]  BY <1>1, <1>3, <1>8 DEF MTInv, Fields
<1>10. life' \in [Traps -> {"unborn", "busy", "live", "freed"}]  BY <1>1 DEF MTInv, Fields
<1> QED BY <1>1, <1>4, <1>7, <1>9, <1>10, QuietKeeps

LEMMA SwapKeeps ==
  ASSUME MTInv, AUIInv', NEW w \in Writers, Swap(w)
  PROVE  MTInv'
<1>1. /\ Doing(w, "swap") /\ wpc[w] = "write" /\ Advance(w)
      /\ wpc' = [wpc EXCEPT ![w] = "load"]
      /\ UNCHANGED <<lists, life, start, cursor, spc, which, ending>>
  BY DEF Swap, Doing, WriteSwap, readers, shared
<1>2. /\ op[w].todo \in {New1, Gone1, Move1}
      /\ Tail(op[w].todo) \in {New2, Gone2, Move2} /\ Tail(op[w].todo) \in Todos
  BY <1>1, RestIs, Rests DEF Todos
<1>3. /\ op[w].trap \in Traps /\ ~Flipping(w) /\ Sole(w) /\ ~ending[w] /\ Inside(w)
      /\ life[op[w].trap] = "busy"
  BY <1>1, DoingIs
<1>4. /\ op' \in [Writers -> Calls] /\ op'[w].trap = op[w].trap
      /\ op'[w].todo = Tail(op[w].todo) /\ \A v \in Writers \ {w} : op'[v] = op[v]
  BY <1>1, <1>2, Advances DEF MTInv
<1>5. wpc'[w] = "load" /\ \A v \in Writers \ {w} : wpc'[v] = wpc[v]
  BY <1>1 DEF MTInv, AUIInv, AUTypeOK
<1>6. Inside(w)' /\ Flipping(w)' /\ \A v \in Writers \ {w} : Inside(v)' <=> Inside(v)
  BY <1>1, <1>3, <1>5 DEF Inside, Flipping
<1>7. Sole(w)'  BY <1>3, <1>6 DEF Sole
<1>8. Shape'
  <2>1. Shaped(w)'  BY <1>1, <1>2, <1>3, <1>4, <1>6 DEF Shaped
  <2>2. \A v \in Writers \ {w} : Shaped(v)'
    BY <1>1, <1>3, <1>4, <1>6 DEF Shaped, MTInv, Shape, Sole
  <2> QED BY <2>1, <2>2 DEF Shape
<1>9. (InMine(w)' <=> InMine(w)) /\ (InTheirs(w)' <=> InTheirs(w))
  <2>1. CASE op[w].todo = New1
    <3>1. op'[w].todo = New2  BY <1>4, <2>1, Rests
    <3> QED BY <1>6, <2>1, <3>1, Places, PlacesNext
  <2>2. CASE op[w].todo = Gone1
    <3>1. op'[w].todo = Gone2  BY <1>4, <2>2, Rests
    <3> QED BY <1>6, <2>2, <3>1, Places, PlacesNext
  <2>3. CASE op[w].todo = Move1
    <3>1. op'[w].todo = Move2  BY <1>4, <2>3, Rests
    <3> QED BY <1>6, <2>3, <3>1, Places, PlacesNext
  <2> QED BY <1>2, <2>1, <2>2, <2>3
<1>10. \A c \in Copies : Members(c)' = Members(c)
  <2>1. \A c : Members(c) = Living \cup {t \in {op[w].trap} : Edited(w, c)}
    BY <1>3, SoleMembers
  <2>2. \A c : Members(c)' = Living' \cup {t \in {op'[w].trap} : Edited(w, c)'}
    BY <1>3, <1>4, <1>7, SoleMembersNext
  <2>3. \A c : Edited(w, c)' <=> Edited(w, c)  BY <1>1, <1>9 DEF Edited
  <2>4. Living' = Living  BY <1>1 DEF Living
  <2> QED BY <1>4, <2>1, <2>2, <2>3, <2>4
<1> QED BY <1>1, <1>4, <1>8, <1>10, QuietKeeps DEF MTInv, Fields

(* A step of the loop of writeSwap(), or into it from writeEnd(), that does not *)
(* end the call.                                                               *)
LEMMA LoopsOn ==
  ASSUME MTInv, NEW w \in Writers, Inside(w), Inside(w)', UNCHANGED <<op, life>>,
         \A v \in Writers \ {w} : wpc'[v] = wpc[v] /\ ending'[v] = ending[v],
         ending'[w] => wpc'[w] # "write" /\ op[w].todo \in {Born, Dead},
         Flipping(w)' => Flipping(w),
         \/ which' = which /\ (Flipping(w)' <=> Flipping(w))
         \/ Flipping(w) /\ ~Flipping(w)' /\ which' = Other(which)
  PROVE  Shape' /\ \A c \in Copies : Members(c)' = Members(c)
<1>1. Sole(w) /\ which \in Copies  BY SoleIs DEF MTInv, AUIInv, AUTypeOK
<1>2. Shaped(w)  BY DEF MTInv, Shape
<1>3. op[w].trap \in Traps /\ op[w].todo \in Todos /\ life[op[w].trap] = "busy"
      /\ (Flipping(w) => op[w].todo \in {New2, Gone2, Move2})
  BY <1>2 DEF Shaped
<1>4. \A v \in Writers \ {w} : Inside(v)' <=> Inside(v)  BY DEF Inside
<1>5. Shape'
  <2>1. Shaped(w)'  BY <1>3 DEF Shaped
  <2>2. \A v \in Writers \ {w} : Shaped(v)'
    BY <1>1, <1>4 DEF Shaped, MTInv, Shape, Sole
  <2> QED BY <2>1, <2>2 DEF Shape
<1>6. Sole(w)'  BY <1>1, <1>4 DEF Sole
<1>7. \A c \in Copies : Edited(w, c)' <=> Edited(w, c)
  <2>1. op'[w].todo = op[w].todo  OBVIOUS
  <2>2. CASE which' = which /\ (Flipping(w)' <=> Flipping(w))
    <3>1. (InMine(w)' <=> InMine(w)) /\ (InTheirs(w)' <=> InTheirs(w))
      BY <2>1, <2>2 DEF InMine, InTheirs
    <3> QED BY <2>2, <3>1 DEF Edited
  <2>3. CASE Flipping(w) /\ ~Flipping(w)' /\ which' = Other(which)
    <3>1. (InMine(w)' <=> InTheirs(w)) /\ (InTheirs(w)' <=> InMine(w))
      <4>1. CASE op[w].todo = New2
        BY <2>1, <2>3, <4>1, Places, PlacesNext
      <4>2. CASE op[w].todo \in {Gone2, Move2}
        BY <2>1, <2>3, <4>2, Places, PlacesNext
      <4> QED BY <1>3, <2>3, <4>1, <4>2
    <3>2. \A c \in Copies : c = which' <=> c # which
      BY <1>1, <2>3 DEF Copies, Other
    <3> QED BY <3>1, <3>2 DEF Edited
  <2> QED BY <2>2, <2>3
<1>8. \A c \in Copies : Members(c)' = Members(c)
  <2>1. \A c : Members(c) = Living \cup {t \in {op[w].trap} : Edited(w, c)}
    BY <1>1, <1>3, SoleMembers
  <2>2. op'[w].trap \in Traps  BY <1>3
  <2>3. \A c : Members(c)' = Living' \cup {t \in {op'[w].trap} : Edited(w, c)'}
    BY <1>6, <2>2, SoleMembersNext
  <2>4. Living' = Living  BY DEF Living
  <2> QED BY <1>7, <2>1, <2>3, <2>4
<1> QED BY <1>5, <1>8

(* A step that ends the call: its trap is in both copies, and live, or in none. *)
LEMMA Finishes ==
  ASSUME MTInv, NEW w \in Writers, Inside(w), op[w].todo \in {Born, Dead}, wpc'[w] = "idle",
         ~ending'[w], \A v \in Writers \ {w} : wpc'[v] = wpc[v] /\ ending'[v] = ending[v],
         life' = [life EXCEPT ![op[w].trap] = Head(op[w].todo)],
         op' = [op EXCEPT ![w] = Idle]
  PROVE  /\ Shape' /\ op' \in [Writers -> Calls]
         /\ life' \in [Traps -> {"unborn", "busy", "live", "freed"}]
         /\ \A c : Members(c)' = Members(c)
<1>1. Sole(w) /\ Shaped(w)  BY SoleIs DEF MTInv, Shape
<1>2. op[w].trap \in Traps /\ life[op[w].trap] = "busy"  BY <1>1 DEF Shaped
<1>3. /\ op \in [Writers -> Calls] /\ life \in [Traps -> {"unborn", "busy", "live", "freed"}]
      /\ Idle \in Calls
  BY DEF MTInv, Fields, Idle, Calls
<1>4. /\ op' \in [Writers -> Calls] /\ op'[w] = Idle
      /\ \A v \in Writers \ {w} : op'[v] = op[v]
  BY <1>3
<1>5. Head(op[w].todo) \in {"live", "freed"}  BY Rests
<1>6. /\ life' \in [Traps -> {"unborn", "busy", "live", "freed"}]
      /\ life'[op[w].trap] = Head(op[w].todo)
      /\ \A t \in Traps \ {op[w].trap} : life'[t] = life[t]
  BY <1>2, <1>3, <1>5
<1>7. \A v \in Writers : ~Inside(v)'
  BY <1>1 DEF Inside, Sole
<1>8. Shape'
  <2>1. \A v \in Writers : op'[v] = Idle /\ ~ending'[v]
    BY <1>1, <1>4 DEF Sole, MTInv, Shape, Shaped
  <2> QED BY <1>7, <2>1 DEF Shape, Shaped
<1>9. \A c : Members(c)' = Members(c)
  <2>1. \A c : Members(c) = Living \cup {t \in {op[w].trap} : Edited(w, c)}
    BY <1>1, <1>2, SoleMembers
  <2>2. \A c : Members(c)' = Living'  BY <1>7, FreeMembersNext
  <2>3. CASE op[w].todo = Born
    <3>1. \A c : Edited(w, c)  BY <2>3, Places DEF Edited
    <3>2. Living' = Living \cup {op[w].trap}  BY <1>2, <1>6, <2>3, Rests DEF Living
    <3> QED BY <2>1, <2>2, <3>1, <3>2
  <2>4. CASE op[w].todo = Dead
    <3>1. \A c : ~Edited(w, c)  BY <2>4, Places DEF Edited
    <3>2. Living' = Living  BY <1>2, <1>6, <2>4, Rests DEF Living
    <3> QED BY <2>1, <2>2, <3>1, <3>2
  <2> QED BY <2>3, <2>4
<1> QED BY <1>4, <1>6, <1>8, <1>9

LEMMA EndKeeps ==
  ASSUME MTInv, AUIInv', NEW w \in Writers, End(w)
  PROVE  MTInv'
<1>1. /\ wpc[w] = "write" /\ Len(op[w].todo) = 1
      /\ UNCHANGED <<lists, start, cursor>>
  BY DEF End
<1>2. op[w].todo \in {Born, Dead}  BY <1>1, RestIs
<1>3. Inside(w) /\ ~Flipping(w) /\ ~ending[w]  BY <1>1, DoingIs
<1>4. wpc \in [Writers -> {"idle", "write", "load", "acquire", "cas"}]
      /\ ending \in [Writers -> BOOLEAN]
  BY DEF MTInv, AUIInv, AUTypeOK
<1>5. CASE swapped
  <2>1. /\ wpc' = [wpc EXCEPT ![w] = "idle"] /\ UNCHANGED <<which, ending, spc>>
        /\ life' = [life EXCEPT ![op[w].trap] = Head(op[w].todo)]
        /\ op' = [op EXCEPT ![w] = Idle]
    BY <1>5 DEF End, WriteEnd, readers
  <2>2. /\ wpc'[w] = "idle" /\ ~ending'[w]
        /\ \A v \in Writers \ {w} : wpc'[v] = wpc[v] /\ ending'[v] = ending[v]
    BY <1>3, <1>4, <2>1
  <2>3. /\ Shape' /\ op' \in [Writers -> Calls]
        /\ life' \in [Traps -> {"unborn", "busy", "live", "freed"}]
        /\ \A c : Members(c)' = Members(c)
    BY <1>2, <1>3, <2>1, <2>2, Finishes
  <2> QED BY <1>1, <2>1, <2>3, QuietKeeps DEF MTInv, Fields
<1>6. CASE ~swapped
  <2>1. /\ wpc' = [wpc EXCEPT ![w] = "load"] /\ ending' = [ending EXCEPT ![w] = TRUE]
        /\ UNCHANGED <<which, spc, op, life>>
    BY <1>6 DEF End, WriteEndSwaps, readers, shared
  <2>2. /\ wpc'[w] = "load" /\ ending'[w]
        /\ \A v \in Writers \ {w} : wpc'[v] = wpc[v] /\ ending'[v] = ending[v]
    BY <1>4, <2>1
  <2>3. Inside(w)' /\ ~Flipping(w)'  BY <2>2 DEF Inside, Flipping
  <2>4. Shape' /\ \A c \in Copies : Members(c)' = Members(c)
    BY <1>2, <1>3, <2>1, <2>2, <2>3, LoopsOn
  <2> QED BY <1>1, <2>1, <2>4, QuietKeeps DEF MTInv, Fields
<1> QED BY <1>5, <1>6

(* The bit is flipped with no section open: no handler has a trap in hand. *)
LEMMA LoopKeeps ==
  ASSUME MTInv, AUIInv', NEW w \in Writers, Loop(w)
  PROVE  MTInv'
<1>1. /\ SwapLoop(w) /\ UNCHANGED <<lists, start, cursor>>
      /\ IF wpc'[w] = "idle"
         THEN /\ life' = [life EXCEPT ![op[w].trap] = Head(op[w].todo)]
              /\ op' = [op EXCEPT ![w] = Idle]
         ELSE UNCHANGED <<life, op>>
  BY DEF Loop
<1>2. /\ wpc \in [Writers -> {"idle", "write", "load", "acquire", "cas"}]
      /\ ending \in [Writers -> BOOLEAN]
  BY DEF MTInv, AUIInv, AUTypeOK
<1>3. wpc[w] \in {"load", "acquire", "cas"}
  BY <1>1 DEF SwapLoop, Load, Acquire, CasFails, CasSwaps
<1>4. Inside(w) /\ Shaped(w)  BY <1>3 DEF Inside, MTInv, Shape
<1>5. CASE Load(w) \/ Acquire(w) \/ CasFails(w)
  <2>1. wpc'[w] \in {"load", "acquire", "cas"} /\ \A v \in Writers \ {w} : wpc'[v] = wpc[v]
    BY <1>2, <1>5 DEF Load, Acquire, CasFails
  <2>2. UNCHANGED <<which, ending, spc>>
    BY <1>5 DEF Load, Acquire, CasFails, readers, shared
  <2>3. Inside(w)' /\ (Flipping(w)' <=> Flipping(w)) /\ UNCHANGED <<op, life>>
    BY <1>1, <1>3, <2>1, <2>2 DEF Inside, Flipping
  <2>4. ending'[w] => wpc'[w] # "write" /\ op[w].todo \in {Born, Dead}
    BY <1>4, <2>1, <2>2 DEF Shaped
  <2>5. Shape' /\ \A c \in Copies : Members(c)' = Members(c)
    BY <1>4, <2>1, <2>2, <2>3, <2>4, LoopsOn
  <2> QED BY <1>1, <2>2, <2>3, <2>5, QuietKeeps DEF MTInv, Fields
<1>6. CASE CasSwaps(w)
  <2>1. /\ count = 0 /\ which' = Other(which) /\ spc' = spc
        /\ wpc' = [wpc EXCEPT ![w] = IF ending[w] THEN "idle" ELSE "write"]
        /\ ending' = [ending EXCEPT ![w] = FALSE] /\ wpc[w] = "cas"
    BY <1>6 DEF CasSwaps, readers
  <2>2. Open' = {}
    <3>1. Open = {}
      BY <2>1, OpenFinite, FS_EmptySet DEF MTInv, AUIInv, CountIsOpen
    <3> QED BY <2>1, <3>1 DEF Open
  <2>3. /\ wpc'[w] = (IF ending[w] THEN "idle" ELSE "write") /\ ~ending'[w]
        /\ \A v \in Writers \ {w} : wpc'[v] = wpc[v] /\ ending'[v] = ending[v]
    BY <1>2, <2>1
  <2>4. CASE ending[w]
    <3>1. op[w].todo \in {Born, Dead} /\ wpc'[w] = "idle"  BY <1>4, <2>3, <2>4 DEF Shaped
    <3>2. /\ Shape' /\ op' \in [Writers -> Calls]
          /\ life' \in [Traps -> {"unborn", "busy", "live", "freed"}]
          /\ \A c : Members(c)' = Members(c)
      BY <1>1, <1>4, <2>3, <3>1, Finishes
    <3> QED BY <1>1, <2>2, <3>2, QuietKeeps DEF MTInv, Fields
  <2>5. CASE ~ending[w]
    <3>1. /\ wpc'[w] = "write" /\ UNCHANGED <<op, life>>  BY <1>1, <2>3, <2>5
    <3>2. Inside(w)' /\ Flipping(w) /\ ~Flipping(w)'  BY <2>1, <2>5, <3>1 DEF Inside, Flipping
    <3>3. Shape' /\ \A c \in Copies : Members(c)' = Members(c)
      BY <1>4, <2>1, <2>3, <3>1, <3>2, LoopsOn
    <3> QED BY <1>1, <2>2, <3>1, <3>3, QuietKeeps DEF MTInv, Fields
  <2> QED BY <2>4, <2>5
<1> QED BY <1>1, <1>5, <1>6 DEF SwapLoop

LEMMA StepMT == MTInv /\ [MTNext]_mtVars => MTInv'
<1> SUFFICES ASSUME MTInv, [MTNext]_mtVars PROVE MTInv'  OBVIOUS
<1>0. AUIInv'  BY AUKeeps DEF MTInv
<1>1. start \in [Traps -> Ranges \cup {Null}]  BY DEF MTInv, Fields
<1>2. ASSUME NEW w \in Writers, NEW t \in Traps, Destroy(w, t) PROVE MTInv'
  <2>1. Enter(w, t, "live", Null, Gone) /\ start' \in [Traps -> Ranges \cup {Null}]
    BY <1>1, <1>2 DEF Destroy, Gone
  <2> QED BY <1>0, <2>1, EnterKeeps
<1>3. ASSUME NEW w \in Writers, NEW t \in Traps, NEW r \in Ranges, Construct(w, t, r)
      PROVE MTInv'
  <2>1. Enter(w, t, "unborn", r, New) /\ start' \in [Traps -> Ranges \cup {Null}]
    BY <1>1, <1>3 DEF Construct, New
  <2> QED BY <1>0, <2>1, EnterKeeps
<1>4. ASSUME NEW w \in Writers, NEW t \in Traps, NEW r \in Ranges, Update(w, t, r)
      PROVE MTInv'
  <2>1. start' \in [Traps -> Ranges \cup {Null}]  BY <1>1, <1>4 DEF Update
  <2>2. CASE start[t] = r
    <3>1. Enter(w, t, "live", r, Born)  BY <1>4, <2>2 DEF Update, Born
    <3> QED BY <1>0, <2>1, <3>1, EnterKeeps
  <2>3. CASE start[t] # r
    <3>1. Enter(w, t, "live", r, Move)  BY <1>4, <2>3 DEF Update, Move
    <3> QED BY <1>0, <2>1, <3>1, EnterKeeps
  <2> QED BY <2>2, <2>3
<1>5. ASSUME NEW w \in Writers,
             Link(w) \/ Unlink(w) \/ Assign(w) \/ Swap(w) \/ End(w) \/ Loop(w)
      PROVE MTInv'
  BY <1>0, <1>5, LinkKeeps, UnlinkKeeps, AssignKeeps, SwapKeeps, EndKeeps, LoopKeeps
<1>6. ASSUME NEW s \in Sections,
             (\E r \in Ranges : Handle(s, r)) \/ Pass(s) \/ Leave(s) \/ Posted(s)
      PROVE MTInv'
  BY <1>0, <1>6, HandlerKeeps
<1>7. CASE UNCHANGED mtVars
  <2>1. UNCHANGED <<lists, start, life, op, writers, which, spc, cursor>>
    BY <1>7 DEF mtVars, auVars, trapVars, shared, readers
  <2>2. Shape' /\ Lists' /\ \A c : Members(c)' = Members(c)  BY <2>1, NoCall
  <2>3. Fields'  BY <2>1 DEF MTInv, Fields, lists
  <2>4. Cursors'
    <3>1. Members(which)' = Members(which)  BY <2>1, <2>2
    <3> QED BY <2>1, <3>1, SameCursors DEF MTInv
  <2> QED BY <1>0, <2>2, <2>3, <2>4 DEF MTInv
<1> QED BY <1>2, <1>3, <1>4, <1>5, <1>6, <1>7 DEF MTNext

(* The inductive invariant of iMemTrap. *)
THEOREM MemTrapInvariant == MTSpec => []MTInv
<1> QED BY InitMT, StepMT, PTL DEF MTSpec

LEMMA MembersAlive ==
  ASSUME MTInv, NEW c, NEW t \in Members(c)
  PROVE  life[t] \in {"busy", "live"}
BY DEF Members, MTInv, Shape, Shaped

(* The SIGBUS handler never holds a trap that is not built yet or is gone. *)
THEOREM MemTrapSeesLive == MTSpec => []HandlerSeesLive
<1>1. MTInv => HandlerSeesLive
  <2> SUFFICES ASSUME MTInv, NEW s \in Open, cursor[s] # Null
               PROVE life[cursor[s]] \in {"busy", "live"}
    BY DEF HandlerSeesLive
  <2>1. cursor[s] \in Members(which)  BY DEF MTInv, Cursors
  <2> QED BY <2>1, MembersAlive
<1> QED BY <1>1, MemTrapInvariant, PTL

(* Between the calls both copies hold exactly the living traps, linked in both  *)
(* directions.                                                                 *)
THEOREM MemTrapCopiesAgree == MTSpec => []CopiesAgree
<1>1. MTInv => CopiesAgree
  <2> SUFFICES ASSUME MTInv, writeLock = Nobody, NEW c \in Copies
               PROVE /\ Listed(c) = Living
                     /\ \A t \in Listed(c) : prev[c][t] = Null <=> head[c] = t
                     /\ \A t \in Listed(c) : next[c][t] # Null => prev[c][next[c][t]] = t
    BY DEF CopiesAgree, Living
  <2>1. \A v \in Writers : ~Inside(v)
    BY WritersAssumption DEF MTInv, AUIInv, WriterInside, Inside
  <2>2. Members(c) = Living /\ Members(c) \subseteq Traps  BY <2>1, FreeMembers DEF Members
  <2>3. Chained(head[c], next[c], prev[c], Living) /\ Ranked(next[c], Living)
    BY <2>2 DEF MTInv, Lists
  <2>4. Listed(c) = Living  BY <2>2, <2>3, WalkAll
  <2> QED BY <2>3, <2>4 DEF Chained
<1> QED BY <1>1, MemTrapInvariant, PTL

(* update() changes the range of a trap that no running handler can come to. *)
THEOREM MemTrapRangeUnseen == MTSpec => RangeChangesUnseen
<1> DEFINE Unseen == \A t \in Traps : start'[t] # start[t] =>
                        \A s \in Open : t \notin Walk(copy[s], cursor[s])
<1>1. MTInv /\ [MTNext]_mtVars => [Unseen]_mtVars
  <2> SUFFICES ASSUME MTInv, MTNext, NEW t \in Traps, start'[t] # start[t], NEW s \in Open
               PROVE t \notin Walk(copy[s], cursor[s])
    OBVIOUS
  <2>1. start \in [Traps -> Ranges \cup {Null}]  BY DEF MTInv, Fields
  <2>2. Walk(copy[s], cursor[s]) \subseteq Members(which)
    <3>1. copy[s] = which /\ which \in Copies /\ cursor[s] \in Members(which) \cup {Null}
      BY DEF MTInv, AUIInv, AUTypeOK, OpenReadCurrent, Cursors
    <3>2. \A u \in Members(which) : next[which][u] \in Members(which) \cup {Null}
      BY <3>1 DEF MTInv, Lists, Chained
    <3> QED BY <3>1, <3>2, WalkInside
  <2>3. t \notin Members(which)
    <3>1. CASE \E w \in Writers, r \in Ranges : Construct(w, t, r)
      <4>1. life[t] = "unborn"  BY <3>1 DEF Construct, Enter
      <4> QED BY <4>1, MembersAlive
    <3>2. CASE \E w \in Writers : Assign(w) /\ op[w].trap = t
      <4>1. PICK w \in Writers : Assign(w) /\ op[w].trap = t  BY <3>2
      <4>2. Doing(w, "assign") /\ wpc[w] = "write"  BY <4>1 DEF Assign, Doing
      <4>3. op[w].todo = Move2 /\ ~Flipping(w)  BY <4>2, RestIs, DoingIs
      <4>4. ~InTheirs(w)  BY <4>3, Places
      <4> QED BY <4>1, <4>2, <4>4, DoingIs
    <3>3. \/ \E w \in Writers, r \in Ranges : Construct(w, t, r)
          \/ \E w \in Writers : Assign(w) /\ op[w].trap = t
      <4>1. ASSUME NEW w \in Writers, NEW u \in Traps, NEW r \in Ranges,
                   Construct(w, u, r) PROVE u = t
        BY <2>1, <4>1 DEF Construct
      <4>2. ASSUME NEW w \in Writers, Assign(w) PROVE op[w].trap = t
        BY <2>1, <4>2 DEF Assign
      <4>3. ASSUME NEW w \in Writers, NEW u \in Traps, NEW r \in Ranges PROVE ~Update(w, u, r)
        BY DEF Update
      <4>4. ASSUME NEW w \in Writers, NEW u \in Traps PROVE ~Destroy(w, u)
        BY DEF Destroy
      <4>5. ASSUME NEW w \in Writers
            PROVE ~(Link(w) \/ Unlink(w) \/ Swap(w) \/ End(w) \/ Loop(w))
        BY DEF Link, Unlink, Swap, End, Loop
      <4>6. ASSUME NEW v \in Sections PROVE ~(Pass(v) \/ Leave(v) \/ Posted(v))
        BY DEF Pass, Leave, Posted, trapVars
      <4>7. ASSUME NEW v \in Sections, NEW r \in Ranges PROVE ~Handle(v, r)
        BY DEF Handle
      <4> QED BY <4>1, <4>2, <4>3, <4>4, <4>5, <4>6, <4>7 DEF MTNext
    <3> QED BY <3>1, <3>2, <3>3
  <2> QED BY <2>2, <2>3
<1> QED BY <1>1, MemTrapInvariant, PTL DEF MTSpec, RangeChangesUnseen
==============================================================================
