-------------------------- MODULE SignalSlotProofs --------------------------
(* Proofs about the signals of one object, for any threads, receivers and      *)
(* bounds: an emission never follows a connection that was freed, misses no    *)
(* connection it must reach, and every reference that is counted is held.      *)
EXTENDS SignalSlot, FiniteSetTheorems, SequenceTheorems, WellFoundedInduction, TLAPS

------------------------------------------------------------------------------
(* The nodes and the lists, as the pair w that Remove() takes.                 *)

LooseNode == [next : Link, prev : Link, rcv : Receivers \cup {None}, refs : Int]
LooseLists == [ref : Int, cur : 0..MaxConns, first : Link, last : Link, orphans : SUBSET Conns]
Worlds == [node : [Conns -> LooseNode], lists : LooseLists]

LiveIn(w) == {c \in Conns : w.node[c].rcv # None}
Kept(w) == LiveIn(w) \cup w.lists.orphans

(* n is the first of set after c, or None where there is none; or the last     *)
(* before it.                                                                  *)
Succeeds(n, c, set) ==
    IF n = None THEN \A d \in set : d <= c
    ELSE n \in set /\ c < n /\ \A d \in set : d <= c \/ n <= d
Precedes(n, c, set) ==
    IF n = None THEN \A d \in set : c <= d
    ELSE n \in set /\ n < c /\ \A d \in set : c <= d \/ d <= n

(* The list holds the living connections in the order of their ids.            *)
InOrder(w) ==
    /\ \A c \in LiveIn(w) : /\ Succeeds(w.node[c].next, c, LiveIn(w))
                            /\ Precedes(w.node[c].prev, c, LiveIn(w))
    /\ Succeeds(w.lists.first, 0, LiveIn(w))
    /\ Precedes(w.lists.last, MaxConns + 1, LiveIn(w))

(* An orphan leads on to a later node that is kept too, past no living one.    *)
OrphansLead(w) ==
    \A c \in w.lists.orphans : LET n == w.node[c].next IN
        /\ c \notin LiveIn(w)
        /\ n # None => n \in Kept(w) /\ c < n /\ \A d \in LiveIn(w) : d <= c \/ n <= d

Sound(w) == w \in Worlds /\ InOrder(w) /\ OrphansLead(w)

(* S is what a walk that is at c can still come to: nodes that are kept, up to *)
(* the last of the living ones the walk is about.                              *)
Ahead(w, high, S) ==
    /\ S \subseteq Kept(w)
    /\ \A c \in S : IF w.node[c].next = None THEN \A d \in LiveIn(w) : d <= c \/ high < d
                    ELSE w.node[c].next \in S
OnTrack(w, c, high) == \E S \in SUBSET Conns : c \in S /\ Ahead(w, high, S)

------------------------------------------------------------------------------
(* The inductive invariant, about any world w, sender s, receivers l, stacks st *)
(* and mails m, so that a step is a fact about two of each.                    *)
Typed(s, l, st, m) ==
    /\ s \in BOOLEAN /\ l \in SUBSET Receivers
    /\ st \in [Threads -> Seq(Frame)] /\ \A t \in Threads : Len(st[t]) <= MaxDepth
    /\ m \in [Threads -> Seq(Conns \X Receivers)]

(* The living connections lead to living receivers, from a living sender, an   *)
(* id not given yet is free, and a dead sender has left at most one emission.  *)
Lives(w, s, l) ==
    /\ \A c \in LiveIn(w) : s /\ w.node[c].rcv \in l
    /\ s => \A c \in Conns : w.lists.cur < c => w.node[c].refs = 0
    /\ ~s => w.lists.ref <= 1

(* A disconnect is at a living connection of a living sender; the walk of an   *)
(* emission has called what lies behind it and can come to the rest.           *)
WalkGood(f, w, s) ==
    /\ OnTrack(w, f.conn, f.high)
    /\ f.called \subseteq 1..f.high
    /\ f.at \in {"post", "slot"} => f.conn <= f.high
    /\ s => f.high <= w.lists.cur
    /\ s => \A c \in LiveIn(w) : c <= f.high =>
                /\ f.at \in {"check", "post"} => c \in f.called \/ f.conn <= c
                /\ f.at \in {"slot", "next"} => c \in f.called \/ f.conn < c
                /\ f.at = "end" => c \in f.called
CallGood(t, f, w, s, l) ==
    /\ f.at = "disconnect" => t = Owner /\ s /\ (f.conn # None => f.conn \in LiveIn(w))
    /\ f.at = "lock" => s
    /\ f.at = "post" => f.rcv \in l
    /\ f.at \in Walking => WalkGood(f, w, s)

(* What is not the innermost call of its thread is in a slot.                  *)
Calls(w, s, l, st) ==
    \A t \in Threads : \A i \in DOMAIN st[t] :
        /\ i < Len(st[t]) => st[t][i].at = "slot"
        /\ CallGood(t, st[t][i], w, s, l)

(* RefsExact, of any world, sender, stacks and mails.                          *)
Places == Threads \X (1..MaxDepth)
InSlot(st, c) ==
    {x \in Places : x[2] \in DOMAIN st[x[1]] /\ st[x[1]][x[2]].at = "slot"
                                           /\ st[x[1]][x[2]].conn = c}
OnWalk(st) == {x \in Places : x[2] \in DOMAIN st[x[1]] /\ st[x[1]][x[2]].at \in Walking}
MailsOf(m) == UNION {{t} \X DOMAIN m[t] : t \in Threads}
PostedIn(m, c) == {x \in MailsOf(m) : m[x[1]][x[2]][1] = c}

Counted(w, s, st, m) ==
    /\ \A c \in Conns : w.node[c].refs =
          (IF w.node[c].rcv # None THEN 2 ELSE 0) + (IF c \in w.lists.orphans THEN 1 ELSE 0)
          + Cardinality(InSlot(st, c)) + Cardinality(PostedIn(m, c))
    /\ w.lists.ref = (IF s THEN 1 ELSE 0) + Cardinality(OnWalk(st))

Held(w, s, l, st, m) ==
    Typed(s, l, st, m) /\ Sound(w) /\ Lives(w, s, l) /\ Calls(w, s, l, st) /\ Counted(w, s, st, m)

Safe(w, s, l, st, m) == Held(w, s, l, st, m) /\ (w.lists.ref = 0 => w.lists.orphans = {})

SSIInv == Safe(Now, sender, alive, stack, mail)

------------------------------------------------------------------------------
(* What removing connections does to the lists.                                *)

LEMMA Constants ==
    /\ MaxConns \in Nat /\ MaxDepth \in Nat /\ None \notin Conns /\ None \notin Receivers
    /\ None \notin Nat /\ Conns \subseteq Nat /\ IsFiniteSet(Conns) /\ 0 \notin Conns
<1>1. MaxConns \in Nat /\ MaxDepth \in Nat /\ None \notin Nat /\ None \notin Receivers
  BY ConstantsAssumption
<1>2. IsFiniteSet(Conns)  BY <1>1, FS_Interval DEF Conns
<1> QED BY <1>1, <1>2 DEF Conns

(* The neighbours of one node in a set of ids, read from either side.          *)
LEMMA Neighbours ==
  ASSUME NEW L \in SUBSET Conns, NEW c \in L, NEW p \in Link, Precedes(p, c, L), p # None
  PROVE  p \in L /\ Succeeds(c, p, L)
BY Constants DEF Precedes, Succeeds, Link

LEMMA NeighboursBack ==
  ASSUME NEW L \in SUBSET Conns, NEW c \in L, NEW s \in Link, Succeeds(s, c, L), s # None
  PROVE  s \in L /\ Precedes(c, s, L)
BY Constants DEF Precedes, Succeeds, Link

LEMMA OneSuccessor ==
  ASSUME NEW L \in SUBSET Conns, NEW e \in Int, NEW c \in Link, NEW d \in Link,
         Succeeds(c, e, L), Succeeds(d, e, L)
  PROVE  c = d
BY Constants DEF Succeeds, Link

LEMMA OnePredecessor ==
  ASSUME NEW L \in SUBSET Conns, NEW e \in Int, NEW c \in Link, NEW d \in Link,
         Precedes(c, e, L), Precedes(d, e, L)
  PROVE  c = d
BY Constants DEF Precedes, Link

(* What stood before c stands before its successor when c is gone, and a       *)
(* neighbour other than c stays one.                                           *)
LEMMA SuccessorSkips ==
  ASSUME NEW L \in SUBSET Conns, NEW e \in Int, NEW c \in L, NEW s \in Link,
         Succeeds(c, e, L), Succeeds(s, c, L)
  PROVE  Succeeds(s, e, L \ {c})
BY Constants DEF Succeeds, Link

LEMMA PredecessorSkips ==
  ASSUME NEW L \in SUBSET Conns, NEW e \in Int, NEW c \in L, NEW p \in Link,
         Precedes(c, e, L), Precedes(p, c, L)
  PROVE  Precedes(p, e, L \ {c})
BY Constants DEF Precedes, Link

LEMMA NeighboursStay ==
  ASSUME NEW L \in SUBSET Conns, NEW e \in Int, NEW c \in L, NEW n \in Link, n # c
  PROVE  /\ Succeeds(n, e, L) => Succeeds(n, e, L \ {c})
         /\ Precedes(n, e, L) => Precedes(n, e, L \ {c})
BY Constants DEF Precedes, Succeeds, Link

(* What Remove() does to each node and to the ends of the list.                *)
Spliced(w, v, c) ==
    LET p == w.node[c].prev
        s == w.node[c].next
    IN  /\ v \in Worlds
        /\ v.node[c].next = s /\ v.node[c].rcv = None /\ v.node[c].refs = w.node[c].refs - 1
        /\ \A x \in Conns \ {c} :
              /\ v.node[x].next = IF x = p THEN s ELSE w.node[x].next
              /\ v.node[x].prev = IF x = s THEN p ELSE w.node[x].prev
              /\ v.node[x].rcv = w.node[x].rcv /\ v.node[x].refs = w.node[x].refs
        /\ v.lists.first = (IF w.lists.first = c THEN s ELSE w.lists.first)
        /\ v.lists.last = (IF w.lists.last = c THEN p ELSE w.lists.last)
        /\ v.lists.orphans = w.lists.orphans \cup {c}
        /\ v.lists.ref = w.lists.ref /\ v.lists.cur = w.lists.cur

LEMMA WorldIs ==
  ASSUME NEW w \in Worlds
  PROVE  /\ w.node \in [Conns -> LooseNode] /\ w.lists \in LooseLists
         /\ w.lists.ref \in Int /\ w.lists.cur \in 0..MaxConns /\ w.lists.first \in Link
         /\ w.lists.last \in Link /\ w.lists.orphans \in SUBSET Conns
         /\ \A c \in Conns : /\ w.node[c] \in LooseNode /\ w.node[c].next \in Link
                             /\ w.node[c].prev \in Link
                             /\ w.node[c].rcv \in Receivers \cup {None}
                             /\ w.node[c].refs \in Int
<1>1. w.node \in [Conns -> LooseNode] /\ w.lists \in LooseLists  BY DEF Worlds
<1>2. \A c \in Conns : w.node[c] \in LooseNode  BY <1>1
<1> QED BY <1>1, <1>2 DEF LooseNode, LooseLists

LEMMA RemoveSplices ==
  ASSUME NEW w \in Worlds, NEW c \in Conns, w.node[c].rcv # None
  PROVE  Spliced(w, Remove(w, c), c)
<1> DEFINE p == w.node[c].prev
           s == w.node[c].next
           v == Remove(w, c)
           m == [w.lists EXCEPT !.first = IF @ = c THEN w.node[c].next ELSE @,
                                !.last = IF @ = c THEN w.node[c].prev ELSE @,
                                !.orphans = @ \cup {c}]
<1>1. v = [node |-> Splice(w.node, c), lists |-> m]  BY DEF Remove
<1>2. v.node = Splice(w.node, c) /\ v.lists = m  BY <1>1
<1>3. /\ m \in LooseLists /\ m.first = (IF w.lists.first = c THEN s ELSE w.lists.first)
      /\ m.last = (IF w.lists.last = c THEN p ELSE w.lists.last)
      /\ m.orphans = w.lists.orphans \cup {c} /\ m.ref = w.lists.ref /\ m.cur = w.lists.cur
  BY WorldIs DEF LooseLists
<1>4. /\ v.node[c] = [w.node[c] EXCEPT !.prev = None, !.rcv = None, !.refs = @ - 1]
      /\ \A x \in Conns \ {c} :
            v.node[x] = [w.node[x] EXCEPT !.next = IF x = p THEN s ELSE @,
                                          !.prev = IF x = s THEN p ELSE @]
  BY <1>2 DEF Splice
<1>5. /\ v.node[c] \in LooseNode /\ v.node[c].next = s
      /\ v.node[c].rcv = None /\ v.node[c].refs = w.node[c].refs - 1
  <2>1. w.node[c] \in LooseNode  BY WorldIs
  <2>2. ASSUME NEW a \in LooseNode
        PROVE  LET b == [a EXCEPT !.prev = None, !.rcv = None, !.refs = @ - 1]
               IN  /\ b \in LooseNode /\ b.next = a.next
                   /\ b.rcv = None /\ b.refs = a.refs - 1
    <3> DEFINE b1 == [a EXCEPT !.prev = None]
               b2 == [b1 EXCEPT !.rcv = None]
               b3 == [b2 EXCEPT !.refs = a.refs - 1]
    <3>1. b1 \in LooseNode /\ b1.next = a.next /\ b1.refs = a.refs  BY DEF LooseNode, Link
    <3>2. b2 \in LooseNode /\ b2.next = a.next /\ b2.rcv = None
      <4> HIDE DEF b1
      <4> QED BY <3>1 DEF LooseNode
    <3>3. b3 \in LooseNode /\ b3.next = a.next /\ b3.rcv = None /\ b3.refs = a.refs - 1
      <4>1. a.refs \in Int  BY DEF LooseNode
      <4> HIDE DEF b2
      <4> QED BY <3>2, <4>1 DEF LooseNode
    <3>4. b3 = [a EXCEPT !.prev = None, !.rcv = None, !.refs = @ - 1]  OBVIOUS
    <3> HIDE DEF b3
    <3> QED BY <3>3, <3>4
  <2> QED BY <2>1, <2>2, <1>4
<1>6. ASSUME NEW x \in Conns \ {c}
      PROVE  /\ v.node[x] \in LooseNode
             /\ v.node[x].next = IF x = p THEN s ELSE w.node[x].next
             /\ v.node[x].prev = IF x = s THEN p ELSE w.node[x].prev
             /\ v.node[x].rcv = w.node[x].rcv /\ v.node[x].refs = w.node[x].refs
  <2>1. w.node[x] \in LooseNode /\ p \in Link /\ s \in Link  BY WorldIs
  <2> HIDE DEF p, s, v
  <2>2. v.node[x] = [w.node[x] EXCEPT !.next = IF x = p THEN s ELSE @,
                                      !.prev = IF x = s THEN p ELSE @]
    BY <1>4
  <2> QED BY <2>1, <2>2 DEF LooseNode
<1>7. v.node = [x \in Conns |-> v.node[x]]  BY <1>2 DEF Splice
<1>8. v \in Worlds
  <2> HIDE DEF m
  <2>1. v.node \in [Conns -> LooseNode]
    <3> HIDE DEF v
    <3>1. \A x \in Conns : v.node[x] \in LooseNode  BY <1>5, <1>6
    <3> QED BY <3>1, <1>7
  <2>2. v = [node |-> v.node, lists |-> v.lists]  BY <1>1
  <2> HIDE DEF v
  <2> QED BY <2>1, <2>2, <1>2, <1>3 DEF Worlds
<1>9. /\ v.lists.first = (IF w.lists.first = c THEN s ELSE w.lists.first)
      /\ v.lists.last = (IF w.lists.last = c THEN p ELSE w.lists.last)
      /\ v.lists.orphans = w.lists.orphans \cup {c}
      /\ v.lists.ref = w.lists.ref /\ v.lists.cur = w.lists.cur
  <2> HIDE DEF m, v
  <2> QED BY <1>2, <1>3
<1> QED BY <1>5, <1>6, <1>8, <1>9, Zenon DEF Spliced
(* The facts about w that its removal of c needs, in one place.                *)
LEMMA SplicedAround ==
  ASSUME NEW w, Sound(w), NEW c \in LiveIn(w), NEW v, Spliced(w, v, c)
  PROVE  LET p == w.node[c].prev
             s == w.node[c].next
             L == LiveIn(w)
         IN  /\ L \in SUBSET Conns /\ c \in L /\ p \in Link /\ s \in Link /\ p # c /\ s # c
             /\ Succeeds(s, c, L) /\ Precedes(p, c, L)
             /\ p # None => p \in L /\ Succeeds(c, p, L) /\ w.node[p].next = c
             /\ s # None => s \in L /\ Precedes(c, s, L) /\ w.node[s].prev = c
             /\ LiveIn(v) = L \ {c} /\ Kept(v) = Kept(w)
<1> DEFINE p == w.node[c].prev
           s == w.node[c].next
           L == LiveIn(w)
<1>1. w \in Worlds /\ InOrder(w)  BY DEF Sound
<1>2. /\ L \in SUBSET Conns /\ c \in L /\ c \in Conns /\ p \in Link /\ s \in Link
  BY <1>1, WorldIs DEF LiveIn
<1>3. Succeeds(s, c, L) /\ Precedes(p, c, L)  BY <1>1, <1>2 DEF InOrder
<1>4. p # c /\ s # c  BY <1>2, <1>3, Constants DEF Succeeds, Precedes
<1>5. ASSUME p # None PROVE p \in L /\ Succeeds(c, p, L) /\ w.node[p].next = c
  <2>1. p \in L /\ Succeeds(c, p, L)
    <3> HIDE DEF p, s, L
    <3> QED BY <1>2, <1>3, <1>5, Neighbours
  <2>2. Succeeds(w.node[p].next, p, L) /\ w.node[p].next \in Link
    BY <1>1, <2>1, WorldIs DEF InOrder, LiveIn
  <2>3. p \in Int /\ c \in Link  BY <2>1, <1>2, Constants DEF Link
  <2> HIDE DEF p, s, L
  <2> QED BY <1>2, <2>1, <2>2, <2>3, OneSuccessor
<1>6. ASSUME s # None PROVE s \in L /\ Precedes(c, s, L) /\ w.node[s].prev = c
  <2>1. s \in L /\ Precedes(c, s, L)
    <3> HIDE DEF p, s, L
    <3> QED BY <1>2, <1>3, <1>6, NeighboursBack
  <2>2. Precedes(w.node[s].prev, s, L) /\ w.node[s].prev \in Link
    BY <1>1, <2>1, WorldIs DEF InOrder, LiveIn
  <2>3. s \in Int /\ c \in Link  BY <2>1, <1>2, Constants DEF Link
  <2> HIDE DEF p, s, L
  <2> QED BY <1>2, <2>1, <2>2, <2>3, OnePredecessor
<1>7. LiveIn(v) = L \ {c}  BY <1>2 DEF Spliced, LiveIn
<1>8. Kept(v) = Kept(w)
  <2>1. v.lists.orphans = w.lists.orphans \cup {c}  BY DEF Spliced
  <2> HIDE DEF L
  <2>2. L = LiveIn(w)  BY DEF L
  <2> QED BY <2>1, <2>2, <1>2, <1>7 DEF Kept
<1> QED BY <1>2, <1>3, <1>4, <1>5, <1>6, <1>7, <1>8

LEMMA SplicedInOrder ==
  ASSUME NEW w, Sound(w), NEW c \in LiveIn(w), NEW v, Spliced(w, v, c)
  PROVE  InOrder(v)
<1> DEFINE p == w.node[c].prev
           s == w.node[c].next
           L == LiveIn(w)
<1>1. /\ L \in SUBSET Conns /\ c \in L /\ p \in Link /\ s \in Link /\ p # c /\ s # c
      /\ Succeeds(s, c, L) /\ Precedes(p, c, L)
      /\ p # None => p \in L /\ Succeeds(c, p, L) /\ w.node[p].next = c
      /\ s # None => s \in L /\ Precedes(c, s, L) /\ w.node[s].prev = c
      /\ LiveIn(v) = L \ {c}
  BY SplicedAround
<1>2. /\ \A x \in Conns \ {c} :
              /\ v.node[x].next = IF x = p THEN s ELSE w.node[x].next
              /\ v.node[x].prev = IF x = s THEN p ELSE w.node[x].prev
      /\ v.lists.first = (IF w.lists.first = c THEN s ELSE w.lists.first)
      /\ v.lists.last = (IF w.lists.last = c THEN p ELSE w.lists.last)
  BY DEF Spliced
<1>3. /\ \A d \in L : /\ Succeeds(w.node[d].next, d, L) /\ w.node[d].next \in Link
                      /\ Precedes(w.node[d].prev, d, L) /\ w.node[d].prev \in Link
      /\ Succeeds(w.lists.first, 0, L) /\ w.lists.first \in Link
      /\ Precedes(w.lists.last, MaxConns + 1, L) /\ w.lists.last \in Link
  <2>1. w \in Worlds /\ InOrder(w)  BY DEF Sound
  <2> QED BY <2>1, <1>1, WorldIs DEF InOrder
<1> HIDE DEF p, s, L
<1>4. \A d \in L : d \in Int /\ d \in Conns  BY <1>1, Constants
<1>5. ASSUME NEW d \in L \ {c}
      PROVE  Succeeds(v.node[d].next, d, L \ {c}) /\ Precedes(v.node[d].prev, d, L \ {c})
  <2>1. Succeeds(v.node[d].next, d, L \ {c})
    <3>1. CASE d = p
      <4>1. Succeeds(s, p, L \ {c})
        BY <1>1, <1>4, <1>5, <3>1, SuccessorSkips, Constants
      <4> QED BY <4>1, <3>1, <1>2, <1>4
    <3>2. CASE d # p
      <4>1. w.node[d].next # c
        <5> SUFFICES ASSUME w.node[d].next = c PROVE FALSE  OBVIOUS
        <5>1. c \in Link /\ c # None  BY <1>1, Constants DEF Link
        <5>2. Precedes(d, c, L)  BY <5>1, <1>1, <1>3, <1>5, NeighboursBack
        <5>3. d \in Link /\ c \in Int  BY <1>4, <1>1, <1>5 DEF Link
        <5> QED BY <5>2, <5>3, <1>1, <3>2, OnePredecessor
      <4>2. Succeeds(w.node[d].next, d, L \ {c})
        BY <4>1, <1>1, <1>3, <1>4, NeighboursStay
      <4> QED BY <4>2, <3>2, <1>2, <1>4
    <3> QED BY <3>1, <3>2
  <2>2. Precedes(v.node[d].prev, d, L \ {c})
    <3>1. CASE d = s
      <4>1. Precedes(p, s, L \ {c})
        BY <1>1, <1>4, <1>5, <3>1, PredecessorSkips, Constants
      <4> QED BY <4>1, <3>1, <1>2, <1>4
    <3>2. CASE d # s
      <4>1. w.node[d].prev # c
        <5> SUFFICES ASSUME w.node[d].prev = c PROVE FALSE  OBVIOUS
        <5>1. c \in Link /\ c # None  BY <1>1, Constants DEF Link
        <5>2. Succeeds(d, c, L)  BY <5>1, <1>1, <1>3, <1>5, Neighbours
        <5>3. d \in Link /\ c \in Int  BY <1>4, <1>1, <1>5 DEF Link
        <5> QED BY <5>2, <5>3, <1>1, <3>2, OneSuccessor
      <4>2. Precedes(w.node[d].prev, d, L \ {c})
        BY <4>1, <1>1, <1>3, <1>4, NeighboursStay
      <4> QED BY <4>2, <3>2, <1>2, <1>4
    <3> QED BY <3>1, <3>2
  <2> QED BY <2>1, <2>2
<1>6. Succeeds(v.lists.first, 0, L \ {c})
  <2>1. CASE w.lists.first = c
    BY <2>1, <1>1, <1>2, <1>3, SuccessorSkips
  <2>2. CASE w.lists.first # c
    BY <2>2, <1>1, <1>2, <1>3, NeighboursStay
  <2> QED BY <2>1, <2>2
<1>7. Precedes(v.lists.last, MaxConns + 1, L \ {c})
  <2>0. MaxConns + 1 \in Int  BY Constants
  <2>1. CASE w.lists.last = c
    BY <2>0, <2>1, <1>1, <1>2, <1>3, PredecessorSkips
  <2>2. CASE w.lists.last # c
    BY <2>0, <2>2, <1>1, <1>2, <1>3, NeighboursStay
  <2> QED BY <2>1, <2>2
<1> QED BY <1>1, <1>5, <1>6, <1>7 DEF InOrder

LEMMA SplicedLeads ==
  ASSUME NEW w, Sound(w), NEW c \in LiveIn(w), NEW v, Spliced(w, v, c)
  PROVE  OrphansLead(v)
<1> DEFINE p == w.node[c].prev
           s == w.node[c].next
           L == LiveIn(w)
           K == Kept(w)
<1>1. /\ L \in SUBSET Conns /\ c \in L /\ s \in Link
      /\ Succeeds(s, c, L) /\ (p # None => p \in L)
      /\ LiveIn(v) = L \ {c} /\ Kept(v) = K /\ L \subseteq K
  BY SplicedAround DEF Kept
<1>2. /\ \A x \in Conns \ {c} : v.node[x].next = IF x = p THEN s ELSE w.node[x].next
      /\ v.node[c].next = s /\ v.lists.orphans = w.lists.orphans \cup {c}
  BY DEF Spliced
<1>3. /\ w.lists.orphans \in SUBSET Conns
      /\ \A o \in w.lists.orphans : LET n == w.node[o].next IN
             /\ o \notin L
             /\ n # None => n \in K /\ o < n /\ \A d \in L : d <= o \/ n <= d
  <2>1. w \in Worlds /\ OrphansLead(w)  BY DEF Sound
  <2>2. w.lists.orphans \in SUBSET Conns  BY <2>1, WorldIs
  <2> QED BY <2>1, <2>2 DEF OrphansLead
<1> HIDE DEF p, s, L, K
<1> SUFFICES ASSUME NEW o \in w.lists.orphans \cup {c}
             PROVE  LET n == v.node[o].next IN
                       /\ o \notin LiveIn(v)
                       /\ n # None => n \in Kept(v) /\ o < n
                                      /\ \A d \in LiveIn(v) : d <= o \/ n <= d
  BY <1>2 DEF OrphansLead
<1>4. CASE o = c
  BY <1>1, <1>2, <1>4 DEF Succeeds
<1>5. CASE o # c
  <2>1. o \in w.lists.orphans /\ o \notin L  BY <1>3, <1>5
  <2>2. o # p  BY <2>1, <1>1, <1>3, Constants
  <2>3. v.node[o].next = w.node[o].next  BY <1>2, <1>3, <1>5, <2>1, <2>2
  <2> QED BY <2>1, <2>3, <1>1, <1>3
<1> QED BY <1>4, <1>5

LEMMA SplicedAhead ==
  ASSUME NEW w, Sound(w), NEW c \in LiveIn(w), NEW v, Spliced(w, v, c),
         NEW high, NEW S, Ahead(w, high, S)
  PROVE  Ahead(v, high, S)
<1> DEFINE p == w.node[c].prev
           s == w.node[c].next
           L == LiveIn(w)
           K == Kept(w)
<1>1. /\ L \in SUBSET Conns /\ c \in L /\ s \in Link /\ K \subseteq Conns
      /\ Succeeds(s, c, L) /\ Precedes(p, c, L) /\ (p # None => w.node[p].next = c)
      /\ LiveIn(v) = L \ {c} /\ Kept(v) = K
  <2>1. w \in Worlds  BY DEF Sound
  <2> QED BY <2>1, SplicedAround, WorldIs DEF Kept
<1>2. /\ \A x \in Conns \ {c} : v.node[x].next = IF x = p THEN s ELSE w.node[x].next
      /\ v.node[c].next = s
  BY DEF Spliced
<1>3. /\ S \subseteq K
      /\ \A x \in S : IF w.node[x].next = None THEN \A d \in L : d <= x \/ high < d
                      ELSE w.node[x].next \in S
  BY DEF Ahead
<1>4. w.node[c].next = s  OBVIOUS
<1> HIDE DEF p, s, L, K
<1> SUFFICES ASSUME NEW x \in S
             PROVE  IF v.node[x].next = None THEN \A d \in L \ {c} : d <= x \/ high < d
                    ELSE v.node[x].next \in S
  BY <1>1, <1>3 DEF Ahead
<1>5. CASE x = p
  <2>1. x # None /\ x \in Conns  BY <1>1, <1>3, Constants
  <2>2. c \in S /\ v.node[x].next = s
    <3>1. w.node[x].next = c  BY <1>5, <2>1, <1>1
    <3>2. c # None  BY <1>1, Constants
    <3>3. c \in S  BY <3>1, <3>2, <1>3
    <3>4. x # c  BY <1>5, <2>1, <1>1, Constants DEF Precedes
    <3> QED BY <3>3, <3>4, <1>5, <2>1, <1>2
  <2>3. IF s = None THEN \A d \in L : d <= c \/ high < d ELSE s \in S
    BY <2>2, <1>3, <1>4
  <2>4. \A d \in L \ {c} : d <= c => d <= x
    BY <1>1, <1>5, <2>1, Constants DEF Precedes
  <2> QED BY <2>2, <2>3, <2>4
<1>6. CASE x # p
  <2>1. v.node[x].next = w.node[x].next  BY <1>6, <1>1, <1>2, <1>3, <1>4
  <2> QED BY <2>1, <1>3
<1> QED BY <1>5, <1>6
------------------------------------------------------------------------------
(* Removing several, one after the other.                                      *)

(* Some element of a set of numbers is the least. *)
LEMMA Least ==
  ASSUME NEW T, T \subseteq Nat, T # {}
  PROVE  \E x \in T : \A y \in T : x <= y
<1>1. PICK x \in T : \A y \in T : ~(<<y, x>> \in OpToRel(<, Nat))
  BY NatLessThanWellFounded, WFMin
<1>2. ASSUME NEW y \in T PROVE x <= y
  <2>1. ~(y < x)  BY <1>1 DEF OpToRel
  <2> QED BY <2>1
<1> QED BY <1>2

(* A function is defined by its value at 0 and what each step makes of the     *)
(* value before.                                                               *)
Follows(f, a, m, G) == f[0] = a /\ \A i \in 1..m : f[i] = G[i][f[i-1]]

LEMMA Recursion ==
  ASSUME NEW D, NEW a \in D, NEW m \in Nat, NEW G \in [1..m -> [D -> D]]
  PROVE  \E f \in [0..m -> D] : Follows(f, a, m, G)
<1> DEFINE T == {k \in 0..m : ~\E f \in [0..k -> D] : Follows(f, a, k, G)}
<1> SUFFICES ASSUME T # {} PROVE FALSE  OBVIOUS
<1>1. PICK x \in T : \A y \in T : x <= y
  <2>1. T \subseteq Nat  OBVIOUS
  <2> HIDE DEF T
  <2> QED BY <2>1, Least
<1>2. CASE x = 0
  <2> DEFINE f == [i \in 0..0 |-> a]
  <2>1. f \in [0..0 -> D] /\ Follows(f, a, 0, G)  BY DEF Follows
  <2> QED BY <1>2, <2>1
<1>3. CASE x # 0
  <2>1. x \in Nat /\ x - 1 \in 0..m /\ x \in 1..m /\ ~(x <= x - 1)  BY <1>3
  <2>2. PICK f \in [0..x-1 -> D] : Follows(f, a, x-1, G)  BY <1>1, <2>1
  <2> DEFINE g == [i \in 0..x |-> IF i = x THEN G[x][f[x-1]] ELSE f[i]]
  <2>3. f[x-1] \in D /\ G[x] \in [D -> D]  BY <2>1, <2>2
  <2>4. G[x][f[x-1]] \in D  BY <2>3
  <2>5. g \in [0..x -> D]
    <3>1. ASSUME NEW i \in 0..x PROVE g[i] \in D
      <4>1. CASE i = x  BY <4>1, <2>4
      <4>2. CASE i # x
        <5>1. i \in 0..x-1  BY <4>2, <2>1
        <5> QED BY <4>2, <5>1, <2>2
      <4> QED BY <4>1, <4>2
    <3> QED BY <3>1
  <2>6. g[0] = a
    <3>1. 0 \in 0..x /\ 0 # x  BY <1>3, <2>1
    <3>2. g[0] = f[0]  BY <3>1
    <3> QED BY <3>2, <2>2 DEF Follows
  <2>7. ASSUME NEW i \in 1..x PROVE g[i] = G[i][g[i-1]]
    <3>1. i \in 0..x /\ i - 1 \in 0..x /\ i - 1 # x  BY <2>1
    <3>2. g[i-1] = f[i-1]  BY <3>1
    <3>3. CASE i = x  BY <3>1, <3>2, <3>3
    <3>4. CASE i # x
      <4>1. i \in 1..x-1  BY <3>4, <2>1
      <4>2. f[i] = G[i][f[i-1]]  BY <4>1, <2>2 DEF Follows
      <4> QED BY <3>1, <3>2, <3>4, <4>2
    <3> QED BY <3>3, <3>4
  <2> HIDE DEF g
  <2>8. Follows(g, a, x, G)  BY <2>6, <2>7 DEF Follows
  <2> QED BY <2>5, <2>8
<1> QED BY <1>2, <1>3

(* v is w without the connections of set.                                      *)
Removes(w, v, set) ==
    /\ Sound(v) /\ LiveIn(v) = LiveIn(w) \ set /\ Kept(v) = Kept(w)
    /\ \A x \in Conns :
          /\ v.node[x].rcv = (IF x \in set THEN None ELSE w.node[x].rcv)
          /\ v.node[x].refs =
                w.node[x].refs - (IF x \in LiveIn(w) /\ x \in set THEN 1 ELSE 0)
    /\ v.lists.ref = w.lists.ref /\ v.lists.cur = w.lists.cur
    /\ v.lists.orphans = w.lists.orphans \cup (LiveIn(w) \cap set)
    /\ \A high \in Conns, S \in SUBSET Conns : Ahead(w, high, S) => Ahead(v, high, S)

LEMMA RemovesNone == ASSUME NEW w, Sound(w) PROVE Removes(w, w, {})
<1>1. \A x \in Conns : w.node[x].refs \in Int  BY WorldIs DEF Sound
<1> QED BY <1>1 DEF Removes

LEMMA RemovesOne ==
  ASSUME NEW w, Sound(w), NEW c \in Conns PROVE Removes(w, Remove(w, c), {c})
<1> DEFINE v == Remove(w, c)
<1> SUFFICES Removes(w, v, {c})  OBVIOUS
<1>1. w \in Worlds  BY DEF Sound
<1>2. \A x \in Conns : w.node[x].refs \in Int  BY <1>1, WorldIs
<1>3. CASE w.node[c].rcv = None
  <2>1. v = w  BY <1>3 DEF Remove
  <2>2. c \notin LiveIn(w)  BY <1>3 DEF LiveIn
  <2> HIDE DEF v
  <2> QED BY <1>2, <1>3, <2>1, <2>2 DEF Removes
<1>4. CASE w.node[c].rcv # None
  <2>1. Spliced(w, v, c) /\ c \in LiveIn(w)  BY <1>1, <1>4, RemoveSplices DEF LiveIn
  <2> HIDE DEF v
  <2>2. Sound(v)
    <3>1. v \in Worlds  BY <2>1 DEF Spliced
    <3> QED BY <3>1, <2>1, SplicedInOrder, SplicedLeads DEF Sound
  <2>3. LiveIn(v) = LiveIn(w) \ {c} /\ Kept(v) = Kept(w)  BY <2>1, SplicedAround
  <2>4. \A high \in Conns, S \in SUBSET Conns : Ahead(w, high, S) => Ahead(v, high, S)
    BY <2>1, SplicedAhead
  <2>5. ASSUME NEW x \in Conns
        PROVE  /\ v.node[x].rcv = (IF x \in {c} THEN None ELSE w.node[x].rcv)
               /\ v.node[x].refs =
                     w.node[x].refs - (IF x \in LiveIn(w) /\ x \in {c} THEN 1 ELSE 0)
    BY <1>2, <2>1 DEF Spliced
  <2>6. /\ v.lists.ref = w.lists.ref /\ v.lists.cur = w.lists.cur
        /\ v.lists.orphans = w.lists.orphans \cup (LiveIn(w) \cap {c})
    BY <2>1 DEF Spliced
  <2> QED BY <2>2, <2>3, <2>4, <2>5, <2>6 DEF Removes
<1> QED BY <1>3, <1>4

LEMMA RemovesBoth ==
  ASSUME NEW w, Sound(w), NEW v, NEW u, NEW A, NEW B, Removes(w, v, A), Removes(v, u, B)
  PROVE  Removes(w, u, A \cup B)
<1>1. \A x \in Conns : w.node[x].refs \in Int  BY WorldIs DEF Sound
<1>2. ASSUME NEW x \in Conns
      PROVE  /\ u.node[x].rcv = (IF x \in A \cup B THEN None ELSE w.node[x].rcv)
             /\ u.node[x].refs =
                   w.node[x].refs - (IF x \in LiveIn(w) /\ x \in A \cup B THEN 1 ELSE 0)
  BY <1>1 DEF Removes
<1>3. /\ LiveIn(u) = LiveIn(w) \ (A \cup B) /\ Kept(u) = Kept(w) /\ Sound(u)
      /\ u.lists.ref = w.lists.ref /\ u.lists.cur = w.lists.cur
      /\ u.lists.orphans = w.lists.orphans \cup (LiveIn(w) \cap (A \cup B))
  BY DEF Removes
<1>4. \A high \in Conns, S \in SUBSET Conns : Ahead(w, high, S) => Ahead(u, high, S)
  BY DEF Removes
<1> QED BY <1>2, <1>3, <1>4 DEF Removes

LEMMA RemovesAll ==
  ASSUME NEW w, Sound(w), NEW set \in SUBSET Conns
  PROVE  Removes(w, RemoveAll(w, set), set)
<1> DEFINE D == {x \in Worlds : Sound(x)}
           G == [n \in Conns |-> [x \in D |-> IF n \in set THEN Remove(x, n) ELSE x]]
           H(g) == [n \in 0..MaxConns |->
                       IF n = 0 THEN w
                       ELSE IF n \in set THEN Remove(g[n-1], n) ELSE g[n-1]]
           f == CHOOSE g : g = H(g)
<1>1. w \in D /\ MaxConns \in Nat  BY Constants DEF Sound
<1>2. G \in [1..MaxConns -> [D -> D]]
  <2>1. ASSUME NEW n \in Conns, NEW x \in D
        PROVE  (IF n \in set THEN Remove(x, n) ELSE x) \in D
    <3>1. Removes(x, Remove(x, n), {n})  BY RemovesOne
    <3>2. Remove(x, n) \in D  BY <3>1 DEF Removes, Sound
    <3> QED BY <3>2
  <2> HIDE DEF D
  <2> QED BY <2>1 DEF Conns
<1>3. \E g : g = H(g)
  <2> HIDE DEF D, G
  <2>1. PICK g \in [0..MaxConns -> D] : Follows(g, w, MaxConns, G)
    BY <1>1, <1>2, Recursion
  <2>2. ASSUME NEW n \in 0..MaxConns
        PROVE  g[n] = IF n = 0 THEN w
                      ELSE IF n \in set THEN Remove(g[n-1], n) ELSE g[n-1]
    <3>1. CASE n = 0  BY <3>1, <2>1 DEF Follows
    <3>2. CASE n # 0
      <4>1. n \in Conns /\ n \in 1..MaxConns /\ n - 1 \in 0..MaxConns
        BY <3>2, <1>1 DEF Conns
      <4>2. g[n] = G[n][g[n-1]] /\ g[n-1] \in D  BY <2>1, <4>1 DEF Follows
      <4>3. G[n] = [x \in D |-> IF n \in set THEN Remove(x, n) ELSE x]  BY <4>1 DEF G
      <4> QED BY <3>2, <4>2, <4>3
    <3> QED BY <3>1, <3>2
  <2>3. g = H(g)  BY <2>1, <2>2
  <2> QED BY <2>3
<1>4. f = H(f)  BY <1>3, Zenon
<1>5. RemoveAll(w, set) = f[MaxConns]  BY Zenon DEF RemoveAll
<1> HIDE DEF f
<1>6. f[0] = w /\ \A n \in 1..MaxConns : f[n] = IF n \in set THEN Remove(f[n-1], n) ELSE f[n-1]
  <2>1. 0 \in 0..MaxConns  BY <1>1
  <2>2. f[0] = w  BY <1>4, <2>1
  <2>3. ASSUME NEW n \in 1..MaxConns
        PROVE  f[n] = IF n \in set THEN Remove(f[n-1], n) ELSE f[n-1]
    <3>1. n \in 0..MaxConns /\ n # 0  BY <1>1
    <3> QED BY <1>4, <3>1
  <2> QED BY <2>2, <2>3
<1> DEFINE T == {n \in 0..MaxConns : ~Removes(w, f[n], set \cap (1..n))}
<1>7. T = {}
  <2> SUFFICES ASSUME T # {} PROVE FALSE  OBVIOUS
  <2>1. PICK n \in T : \A y \in T : n <= y
    <3>1. T \subseteq Nat  BY <1>1
    <3> HIDE DEF T
    <3> QED BY <3>1, Least
  <2>2. CASE n = 0
    <3>1. set \cap (1..n) = {}  BY <2>2
    <3> QED BY <2>1, <2>2, <3>1, <1>6, RemovesNone
  <2>3. CASE n # 0
    <3>1. n \in 1..MaxConns /\ n - 1 \in 0..MaxConns /\ ~(n <= n - 1) /\ n \in Conns
      BY <2>1, <2>3, <1>1 DEF Conns
    <3>2. Removes(w, f[n-1], set \cap (1..n-1))  BY <2>1, <3>1
    <3>3. CASE n \in set
      <4>1. f[n] = Remove(f[n-1], n)  BY <3>1, <3>3, <1>6
      <4>2. Sound(f[n-1])  BY <3>2 DEF Removes
      <4>3. Removes(f[n-1], f[n], {n})  BY <4>1, <4>2, <3>1, RemovesOne
      <4>4. (set \cap (1..n-1)) \cup {n} = set \cap (1..n)  BY <3>1, <3>3
      <4>5. Removes(w, f[n], (set \cap (1..n-1)) \cup {n})  BY <3>2, <4>3, RemovesBoth
      <4> QED BY <4>4, <4>5, <2>1
    <3>4. CASE n \notin set
      <4>1. f[n] = f[n-1]  BY <3>1, <3>4, <1>6
      <4>2. set \cap (1..n-1) = set \cap (1..n)  BY <3>1, <3>4
      <4> QED BY <4>1, <4>2, <3>2, <2>1
    <3> QED BY <3>3, <3>4
  <2> QED BY <2>2, <2>3
<1>8. Removes(w, f[MaxConns], set \cap (1..MaxConns))  BY <1>1, <1>7
<1>9. set \cap (1..MaxConns) = set  BY DEF Conns
<1> QED BY <1>5, <1>8, <1>9
------------------------------------------------------------------------------
(* The stacks.                                                                 *)

Stacks == {st \in [Threads -> Seq(Frame)] : \A t \in Threads : Len(st[t]) <= MaxDepth}

Pushed(st, t, f) == [st EXCEPT ![t] = Append(@, f)]
Popped(st, t) == [st EXCEPT ![t] = SubSeq(@, 1, Len(@) - 1)]
Gone(st, t, f) == [st EXCEPT ![t][Len(st[t])] = f]

LEMMA FrameIs ==
  ASSUME NEW f \in Frame
  PROVE  /\ f.at # "disconnect" =>
              /\ f.at \in {"check", "post", "slot", "next", "end", "lock"}
              /\ f.conn \in Conns /\ f.high \in Conns /\ f.called \in SUBSET Conns
              /\ f.rcv \in Receivers \cup {None}
         /\ f.at = "disconnect" => f.conn \in Link /\ f.rcv \in Receivers
BY DEF Frame

LEMMA StackIs ==
  ASSUME NEW st \in Stacks, NEW t \in Threads
  PROVE  /\ st[t] \in Seq(Frame) /\ Len(st[t]) \in Nat /\ Len(st[t]) <= MaxDepth
         /\ DOMAIN st[t] = 1..Len(st[t]) /\ \A i \in DOMAIN st[t] : st[t][i] \in Frame
BY DEF Stacks

LEMMA PushedIs ==
  ASSUME NEW st \in Stacks, NEW t \in Threads, NEW f \in Frame, Len(st[t]) < MaxDepth,
         NEW st2, st2 = Pushed(st, t, f)
  PROVE  /\ st2 \in Stacks /\ Len(st2[t]) = Len(st[t]) + 1 /\ st2[t][Len(st[t]) + 1] = f
         /\ \A i \in 1..Len(st[t]) : st2[t][i] = st[t][i]
         /\ \A u \in Threads \ {t} : st2[u] = st[u]
<1> DEFINE q == st[t]
           q2 == Append(q, f)
<1>1. q \in Seq(Frame)  BY DEF Stacks
<1>2. /\ q2 \in Seq(Frame) /\ Len(q2) = Len(q) + 1 /\ q2[Len(q) + 1] = f
      /\ \A i \in 1..Len(q) : q2[i] = q[i]
  <2> HIDE DEF q
  <2> QED BY <1>1
<1>3. st2[t] = q2 /\ (\A u \in Threads \ {t} : st2[u] = st[u]) /\ DOMAIN st2 = Threads
      /\ st2 = [u \in Threads |-> st2[u]]
  BY DEF Stacks, Pushed
<1> HIDE DEF q2
<1>4. Len(q2) <= MaxDepth
  <2>1. Len(q) \in Nat /\ MaxDepth \in Nat  BY <1>1, Constants
  <2> HIDE DEF q
  <2>2. Len(q) < MaxDepth  BY DEF q
  <2> QED BY <2>1, <2>2, <1>2
<1>5. st2 \in Stacks
  <2>1. \A u \in Threads : st2[u] \in Seq(Frame) /\ Len(st2[u]) <= MaxDepth
    BY <1>2, <1>3, <1>4 DEF Stacks
  <2> QED BY <2>1, <1>3 DEF Stacks
<1> QED BY <1>2, <1>3, <1>5

LEMMA PoppedIs ==
  ASSUME NEW st \in Stacks, NEW t \in Threads, st[t] # <<>>, NEW st2, st2 = Popped(st, t)
  PROVE  /\ st2 \in Stacks /\ Len(st2[t]) = Len(st[t]) - 1 /\ Len(st[t]) \in 1..MaxDepth
         /\ \A i \in 1..Len(st[t]) - 1 : st2[t][i] = st[t][i]
         /\ \A u \in Threads \ {t} : st2[u] = st[u]
<1> DEFINE q == st[t]
           q2 == SubSeq(q, 1, Len(q) - 1)
<1>1. q \in Seq(Frame) /\ q # <<>> /\ Len(q) <= MaxDepth  BY DEF Stacks
<1>2. /\ q2 \in Seq(Frame) /\ Len(q2) = Len(q) - 1 /\ Len(q) \in 1..MaxDepth
      /\ \A i \in 1..Len(q) - 1 : q2[i] = q[i]
  <2>1. Len(q) \in Nat /\ MaxDepth \in Nat /\ Len(q) # 0
    <3> HIDE DEF q
    <3> QED BY <1>1, Constants
  <2>2. \A i \in 1..Len(q) : q[i] \in Frame  BY <1>1
  <2> HIDE DEF q
  <2>3. /\ 1 \in Int /\ Len(q) - 1 \in Nat /\ Len(q) - 1 - 1 + 1 = Len(q) - 1
        /\ \A i \in 1..Len(q) - 1 : q[i] \in Frame /\ 1 + i - 1 = i
    BY <2>1, <2>2
  <2>4. /\ q2 \in Seq(Frame) /\ Len(q2) = (IF 1 <= Len(q) - 1 THEN Len(q) - 1 - 1 + 1 ELSE 0)
        /\ \A i \in 1..Len(q) - 1 - 1 + 1 : q2[i] = q[1 + i - 1]
    BY <2>3, SubSeqProperties
  <2> HIDE DEF q2
  <2>5. Len(q2) = Len(q) - 1
    <3>1. \A n \in Nat : n # 0 => (IF 1 <= n - 1 THEN n - 1 - 1 + 1 ELSE 0) = n - 1  OBVIOUS
    <3>2. (IF 1 <= Len(q) - 1 THEN Len(q) - 1 - 1 + 1 ELSE 0) = Len(q) - 1
      BY ONLY <3>1, <2>1
    <3> QED BY ONLY <3>2, <2>4
  <2>6. \A i \in 1..Len(q) - 1 : q2[i] = q[i]  BY <2>3, <2>4
  <2>7. Len(q) <= MaxDepth  BY <1>1
  <2> QED BY <2>1, <2>4, <2>5, <2>6, <2>7
<1>3. st2[t] = q2 /\ (\A u \in Threads \ {t} : st2[u] = st[u]) /\ st2 = [u \in Threads |-> st2[u]]
  BY DEF Stacks, Popped
<1>4. Len(q2) <= MaxDepth
  <2> HIDE DEF q, q2
  <2> QED BY <1>2, Constants
<1> HIDE DEF q2
<1>5. st2 \in Stacks
  <2>1. \A u \in Threads : st2[u] \in Seq(Frame) /\ Len(st2[u]) <= MaxDepth
    BY <1>2, <1>3, <1>4 DEF Stacks
  <2> QED BY <2>1, <1>3 DEF Stacks
<1> QED BY <1>2, <1>3, <1>5

LEMMA GoneIs ==
  ASSUME NEW st \in Stacks, NEW t \in Threads, st[t] # <<>>, NEW f \in Frame,
         NEW st2, st2 = Gone(st, t, f)
  PROVE  /\ st2 \in Stacks /\ Len(st2[t]) = Len(st[t]) /\ Len(st[t]) \in 1..MaxDepth
         /\ st2[t][Len(st[t])] = f
         /\ \A i \in 1..Len(st[t]) - 1 : st2[t][i] = st[t][i]
         /\ \A u \in Threads \ {t} : st2[u] = st[u]
<1> DEFINE q == st[t]
           q2 == [q EXCEPT ![Len(q)] = f]
<1>1. q \in Seq(Frame) /\ q # <<>> /\ Len(q) <= MaxDepth  BY DEF Stacks
<1>2. Len(q) \in 1..MaxDepth /\ DOMAIN q = 1..Len(q)
  <2> HIDE DEF q
  <2> QED BY <1>1, Constants
<1>3. /\ q2 \in Seq(Frame) /\ Len(q2) = Len(q) /\ q2[Len(q)] = f
      /\ \A i \in 1..Len(q) - 1 : q2[i] = q[i]
  <2> HIDE DEF q
  <2>1. q2 \in Seq(Frame) /\ Len(q2) = Len(q)  BY <1>1, <1>2
  <2>2. q2[Len(q)] = f  BY <1>2
  <2>3. ASSUME NEW i \in 1..Len(q) - 1 PROVE q2[i] = q[i]
    <3>1. i \in 1..Len(q) /\ i # Len(q)  BY <1>2
    <3> QED BY <3>1, <1>2
  <2> QED BY <2>1, <2>2, <2>3
<1>4. st2[t] = q2 /\ (\A u \in Threads \ {t} : st2[u] = st[u]) /\ st2 = [u \in Threads |-> st2[u]]
  BY DEF Stacks, Gone
<1> HIDE DEF q2
<1>5. st2 \in Stacks
  <2>1. \A u \in Threads : st2[u] \in Seq(Frame) /\ Len(st2[u]) <= MaxDepth
    BY <1>1, <1>3, <1>4 DEF Stacks
  <2> QED BY <2>1, <1>4 DEF Stacks
<1> QED BY <1>2, <1>3, <1>4, <1>5
------------------------------------------------------------------------------
(* The counts.                                                                 *)

Ind(P) == IF P THEN 1 ELSE 0

LEMMA CountMoves ==
  ASSUME NEW A, IsFiniteSet(A), NEW B, NEW x, A \ {x} = B \ {x}
  PROVE  /\ IsFiniteSet(B) /\ Cardinality(A) \in Nat /\ Cardinality(B) \in Nat
         /\ Cardinality(B) = Cardinality(A) - Ind(x \in A) + Ind(x \in B)
<1>1. /\ IsFiniteSet(A \ {x}) /\ Cardinality(A) \in Nat
      /\ Cardinality(A \ {x}) = IF x \in A THEN Cardinality(A) - 1 ELSE Cardinality(A)
  BY FS_RemoveElement, FS_CardinalityType
<1>2. CASE x \in B
  <2>1. B = (A \ {x}) \cup {x} /\ x \notin A \ {x}  BY <1>2
  <2>2. IsFiniteSet(B) /\ Cardinality(B) = Cardinality(A \ {x}) + 1
    BY <2>1, <1>1, FS_AddElement
  <2>3. Cardinality(B) \in Nat  BY <2>2, FS_CardinalityType
  <2> QED BY <1>1, <1>2, <2>2, <2>3 DEF Ind
<1>3. CASE x \notin B
  <2>1. B = A \ {x}  BY <1>3
  <2>2. Cardinality(B) \in Nat  BY <2>1, <1>1, FS_CardinalityType
  <2> QED BY <1>1, <1>3, <2>1, <2>2 DEF Ind
<1> QED BY <1>2, <1>3

LEMMA PlacesFinite == IsFiniteSet(Places)
<1>1. IsFiniteSet(Threads) /\ IsFiniteSet(1..MaxDepth)
  BY ConstantsAssumption, Constants, FS_Interval
<1> QED BY <1>1, FS_Product DEF Places

LEMMA CountsFinite ==
  ASSUME NEW st, NEW c
  PROVE  /\ IsFiniteSet(InSlot(st, c)) /\ Cardinality(InSlot(st, c)) \in Nat
         /\ IsFiniteSet(OnWalk(st)) /\ Cardinality(OnWalk(st)) \in Nat
<1>1. InSlot(st, c) \in SUBSET Places /\ OnWalk(st) \in SUBSET Places  BY DEF InSlot, OnWalk
<1>2. IsFiniteSet(InSlot(st, c)) /\ IsFiniteSet(OnWalk(st))
  BY <1>1, PlacesFinite, FS_Subset
<1> QED BY <1>2, FS_CardinalityType

(* The two stacks differ in one place at most. *)
OneCall(st, st2, t, k) ==
    \A x \in Places : x # <<t, k>> =>
        /\ x[2] \in DOMAIN st[x[1]] <=> x[2] \in DOMAIN st2[x[1]]
        /\ x[2] \in DOMAIN st[x[1]] => st2[x[1]][x[2]] = st[x[1]][x[2]]

(* ... and count that one. *)
Recounted(st, st2, t, k) ==
    /\ \A c : Cardinality(InSlot(st2, c)) =
                Cardinality(InSlot(st, c))
                - Ind(k \in DOMAIN st[t] /\ st[t][k].at = "slot" /\ st[t][k].conn = c)
                + Ind(k \in DOMAIN st2[t] /\ st2[t][k].at = "slot" /\ st2[t][k].conn = c)
    /\ Cardinality(OnWalk(st2)) =
                Cardinality(OnWalk(st)) - Ind(k \in DOMAIN st[t] /\ st[t][k].at \in Walking)
                + Ind(k \in DOMAIN st2[t] /\ st2[t][k].at \in Walking)

LEMMA OneCallCounts ==
  ASSUME NEW st, NEW st2, NEW t \in Threads, NEW k \in 1..MaxDepth, OneCall(st, st2, t, k)
  PROVE  Recounted(st, st2, t, k)
<1>1. <<t, k>> \in Places  BY DEF Places
<1>2. ASSUME NEW c
      PROVE  /\ InSlot(st, c) \ {<<t, k>>} = InSlot(st2, c) \ {<<t, k>>}
             /\ OnWalk(st) \ {<<t, k>>} = OnWalk(st2) \ {<<t, k>>}
  BY DEF OneCall, InSlot, OnWalk
<1>3. ASSUME NEW c
      PROVE  /\ Cardinality(InSlot(st2, c)) = Cardinality(InSlot(st, c))
                  - Ind(<<t, k>> \in InSlot(st, c)) + Ind(<<t, k>> \in InSlot(st2, c))
             /\ Cardinality(OnWalk(st2)) = Cardinality(OnWalk(st))
                  - Ind(<<t, k>> \in OnWalk(st)) + Ind(<<t, k>> \in OnWalk(st2))
  BY <1>2, CountMoves, CountsFinite
<1>4. ASSUME NEW c
      PROVE  /\ (<<t, k>> \in InSlot(st, c)) =
                   (k \in DOMAIN st[t] /\ st[t][k].at = "slot" /\ st[t][k].conn = c)
             /\ (<<t, k>> \in InSlot(st2, c)) =
                   (k \in DOMAIN st2[t] /\ st2[t][k].at = "slot" /\ st2[t][k].conn = c)
             /\ (<<t, k>> \in OnWalk(st)) = (k \in DOMAIN st[t] /\ st[t][k].at \in Walking)
             /\ (<<t, k>> \in OnWalk(st2)) = (k \in DOMAIN st2[t] /\ st2[t][k].at \in Walking)
  BY <1>1 DEF InSlot, OnWalk
<1> QED BY <1>3, <1>4 DEF Recounted

LEMMA PushedCounts ==
  ASSUME NEW st \in Stacks, NEW t \in Threads, NEW f \in Frame, Len(st[t]) < MaxDepth,
         NEW st2, st2 = Pushed(st, t, f)
  PROVE  /\ \A c : Cardinality(InSlot(st2, c)) =
                Cardinality(InSlot(st, c)) + Ind(f.at = "slot" /\ f.conn = c)
         /\ Cardinality(OnWalk(st2)) = Cardinality(OnWalk(st)) + Ind(f.at \in Walking)
<1> DEFINE k == Len(st[t]) + 1
<1>1. /\ st2 \in Stacks /\ Len(st2[t]) = k /\ st2[t][k] = f /\ Len(st[t]) = k - 1
      /\ \A i \in 1..k - 1 : st2[t][i] = st[t][i]
      /\ \A u \in Threads \ {t} : st2[u] = st[u]
  BY PushedIs, StackIs
<1>2. k \in 1..MaxDepth  BY StackIs, Constants
<1>3. DOMAIN st[t] = 1..k - 1 /\ DOMAIN st2[t] = 1..k  BY <1>1, StackIs
<1> HIDE DEF k
<1>4. OneCall(st, st2, t, k)
  <2> SUFFICES ASSUME NEW u \in Threads, NEW i \in 1..MaxDepth, <<u, i>> # <<t, k>>
               PROVE  /\ i \in DOMAIN st[u] <=> i \in DOMAIN st2[u]
                      /\ i \in DOMAIN st[u] => st2[u][i] = st[u][i]
    BY DEF OneCall, Places
  <2>1. CASE u = t  BY <2>1, <1>1, <1>2, <1>3
  <2>2. CASE u # t  BY <2>2, <1>1
  <2> QED BY <2>1, <2>2
<1>5. k \notin DOMAIN st[t] /\ k \in DOMAIN st2[t]  BY <1>2, <1>3
<1>6. Recounted(st, st2, t, k)
  BY <1>2, <1>4, OneCallCounts
<1>7. ASSUME NEW c
      PROVE  Cardinality(InSlot(st2, c)) =
                Cardinality(InSlot(st, c)) + Ind(f.at = "slot" /\ f.conn = c)
  BY <1>1, <1>5, <1>6, CountsFinite DEF Ind, Recounted
<1>8. Cardinality(OnWalk(st2)) = Cardinality(OnWalk(st)) + Ind(f.at \in Walking)
  BY <1>1, <1>5, <1>6, CountsFinite DEF Ind, Recounted
<1> QED BY <1>7, <1>8

LEMMA PoppedCounts ==
  ASSUME NEW st \in Stacks, NEW t \in Threads, st[t] # <<>>, NEW st2, st2 = Popped(st, t),
         NEW f, f = st[t][Len(st[t])]
  PROVE  /\ \A c : Cardinality(InSlot(st2, c)) =
                Cardinality(InSlot(st, c)) - Ind(f.at = "slot" /\ f.conn = c)
         /\ Cardinality(OnWalk(st2)) = Cardinality(OnWalk(st)) - Ind(f.at \in Walking)
<1> DEFINE k == Len(st[t])
<1>1. /\ st2 \in Stacks /\ Len(st2[t]) = k - 1 /\ st[t][k] = f /\ k \in 1..MaxDepth
      /\ \A i \in 1..k - 1 : st2[t][i] = st[t][i]
      /\ \A u \in Threads \ {t} : st2[u] = st[u]
  BY PoppedIs
<1>2. DOMAIN st[t] = 1..k /\ DOMAIN st2[t] = 1..k - 1  BY <1>1, StackIs
<1> HIDE DEF k
<1>3. OneCall(st, st2, t, k)
  <2> SUFFICES ASSUME NEW u \in Threads, NEW i \in 1..MaxDepth, <<u, i>> # <<t, k>>
               PROVE  /\ i \in DOMAIN st[u] <=> i \in DOMAIN st2[u]
                      /\ i \in DOMAIN st[u] => st2[u][i] = st[u][i]
    BY DEF OneCall, Places
  <2>1. CASE u = t  BY <2>1, <1>1, <1>2
  <2>2. CASE u # t  BY <2>2, <1>1
  <2> QED BY <2>1, <2>2
<1>4. k \in DOMAIN st[t] /\ k \notin DOMAIN st2[t]  BY <1>1, <1>2
<1>5. Recounted(st, st2, t, k)
  <2>1. k \in 1..MaxDepth  BY <1>1
  <2> QED BY <2>1, <1>3, OneCallCounts
<1>6. ASSUME NEW c
      PROVE  Cardinality(InSlot(st2, c)) =
                Cardinality(InSlot(st, c)) - Ind(f.at = "slot" /\ f.conn = c)
  BY <1>1, <1>4, <1>5, CountsFinite DEF Ind, Recounted
<1>7. Cardinality(OnWalk(st2)) = Cardinality(OnWalk(st)) - Ind(f.at \in Walking)
  BY <1>1, <1>4, <1>5, CountsFinite DEF Ind, Recounted
<1> QED BY <1>6, <1>7

LEMMA GoneCounts ==
  ASSUME NEW st \in Stacks, NEW t \in Threads, st[t] # <<>>, NEW g \in Frame,
         NEW st2, st2 = Gone(st, t, g), NEW f, f = st[t][Len(st[t])]
  PROVE  /\ \A c : Cardinality(InSlot(st2, c)) =
                Cardinality(InSlot(st, c)) - Ind(f.at = "slot" /\ f.conn = c)
                                           + Ind(g.at = "slot" /\ g.conn = c)
         /\ Cardinality(OnWalk(st2)) =
                Cardinality(OnWalk(st)) - Ind(f.at \in Walking) + Ind(g.at \in Walking)
<1> DEFINE k == Len(st[t])
<1>1. /\ st2 \in Stacks /\ Len(st2[t]) = k /\ st[t][k] = f /\ k \in 1..MaxDepth
      /\ st2[t][k] = g
      /\ \A i \in 1..k - 1 : st2[t][i] = st[t][i]
      /\ \A u \in Threads \ {t} : st2[u] = st[u]
  BY GoneIs
<1>2. DOMAIN st[t] = 1..k /\ DOMAIN st2[t] = 1..k  BY <1>1, StackIs
<1> HIDE DEF k
<1>3. OneCall(st, st2, t, k)
  <2> SUFFICES ASSUME NEW u \in Threads, NEW i \in 1..MaxDepth, <<u, i>> # <<t, k>>
               PROVE  /\ i \in DOMAIN st[u] <=> i \in DOMAIN st2[u]
                      /\ i \in DOMAIN st[u] => st2[u][i] = st[u][i]
    BY DEF OneCall, Places
  <2>1. CASE u = t  BY <2>1, <1>1, <1>2
  <2>2. CASE u # t  BY <2>2, <1>1
  <2> QED BY <2>1, <2>2
<1>4. k \in DOMAIN st[t] /\ k \in DOMAIN st2[t]  BY <1>1, <1>2
<1>5. Recounted(st, st2, t, k)
  <2>1. k \in 1..MaxDepth  BY <1>1
  <2> QED BY <2>1, <1>3, OneCallCounts
<1>6. ASSUME NEW c
      PROVE  Cardinality(InSlot(st2, c)) =
                Cardinality(InSlot(st, c)) - Ind(f.at = "slot" /\ f.conn = c)
                                           + Ind(g.at = "slot" /\ g.conn = c)
  BY <1>1, <1>4, <1>5, CountsFinite DEF Ind, Recounted
<1>7. Cardinality(OnWalk(st2)) =
          Cardinality(OnWalk(st)) - Ind(f.at \in Walking) + Ind(g.at \in Walking)
  BY <1>1, <1>4, <1>5, CountsFinite DEF Ind, Recounted
<1> QED BY <1>6, <1>7
------------------------------------------------------------------------------
(* The posted calls.                                                           *)

Posts == Seq(Conns \X Receivers)
MailTypes == [Threads -> Posts]
Of(q, c) == {i \in DOMAIN q : q[i][1] = c}

LEMMA OfFinite ==
  ASSUME NEW q \in Posts, NEW c
  PROVE  /\ DOMAIN q = 1..Len(q) /\ Len(q) \in Nat /\ IsFiniteSet(DOMAIN q)
         /\ IsFiniteSet(Of(q, c)) /\ Cardinality(Of(q, c)) \in Nat
<1>1. DOMAIN q = 1..Len(q) /\ Len(q) \in Nat  BY DEF Posts
<1>2. IsFiniteSet(DOMAIN q)  BY <1>1, FS_Interval
<1>3. Of(q, c) \in SUBSET DOMAIN q  BY DEF Of
<1>4. IsFiniteSet(Of(q, c))  BY <1>2, <1>3, FS_Subset
<1> QED BY <1>1, <1>2, <1>4, FS_CardinalityType

LEMMA PostedFinite ==
  ASSUME NEW m \in MailTypes, NEW c
  PROVE  IsFiniteSet(PostedIn(m, c)) /\ Cardinality(PostedIn(m, c)) \in Nat
<1> DEFINE R == {{t} \X DOMAIN m[t] : t \in Threads}
           f == [t \in Threads |-> {t} \X DOMAIN m[t]]
<1>1. f \in Surjection(Threads, R)  BY DEF Surjection
<1>2. IsFiniteSet(R)
  <2> HIDE DEF f, R
  <2> QED BY <1>1, FS_Surjection, ConstantsAssumption
<1>3. \A S \in R : IsFiniteSet(S)
  <2> SUFFICES ASSUME NEW t \in Threads PROVE IsFiniteSet({t} \X DOMAIN m[t])  OBVIOUS
  <2>1. m[t] \in Posts  BY DEF MailTypes
  <2>2. IsFiniteSet(DOMAIN m[t]) /\ IsFiniteSet({t})  BY <2>1, OfFinite, FS_Singleton
  <2> QED BY <2>2, FS_Product
<1>4. IsFiniteSet(UNION R)
  <2> HIDE DEF R
  <2> QED BY <1>2, <1>3, FS_UNION
<1>5. PostedIn(m, c) \in SUBSET UNION R  BY DEF PostedIn, MailsOf
<1>6. IsFiniteSet(PostedIn(m, c))
  <2> HIDE DEF R
  <2> QED BY <1>4, <1>5, FS_Subset
<1> QED BY <1>6, FS_CardinalityType

LEMMA PostedSplits ==
  ASSUME NEW m \in MailTypes, NEW t \in Threads, NEW c
  PROVE  LET rest == {x \in PostedIn(m, c) : x[1] # t}
         IN  /\ Cardinality(rest) \in Nat
             /\ Cardinality(PostedIn(m, c)) = Cardinality(rest) + Cardinality(Of(m[t], c))
<1> DEFINE rest == {x \in PostedIn(m, c) : x[1] # t}
           here == {t} \X Of(m[t], c)
<1>1. rest \cap here = {} /\ PostedIn(m, c) = rest \cup here
  <2>1. \A x \in MailsOf(m) : /\ x = <<x[1], x[2]>> /\ x[1] \in Threads
                              /\ x[2] \in DOMAIN m[x[1]]
    BY DEF MailsOf
  <2>2. ASSUME NEW i \in Of(m[t], c) PROVE <<t, i>> \in PostedIn(m, c)
    <3>1. <<t, i>> \in {t} \X DOMAIN m[t] /\ m[t][i][1] = c  BY DEF Of
    <3>2. <<t, i>> \in MailsOf(m)  BY <3>1 DEF MailsOf
    <3> QED BY <3>1, <3>2 DEF PostedIn
  <2>3. ASSUME NEW x \in PostedIn(m, c), x[1] = t PROVE x \in here
    <3>1. /\ x \in MailsOf(m) /\ m[x[1]][x[2]][1] = c  BY DEF PostedIn
    <3>2. x = <<t, x[2]>> /\ x[2] \in Of(m[t], c)  BY <2>1, <2>3, <3>1 DEF Of
    <3> QED BY <3>2
  <2>4. PostedIn(m, c) \subseteq rest \cup here  BY <2>3
  <2>5. here \subseteq PostedIn(m, c)  BY <2>2
  <2>6. rest \cap here = {}  OBVIOUS
  <2> HIDE DEF here
  <2> QED BY <2>4, <2>5, <2>6
<1>2. IsFiniteSet(rest) /\ Cardinality(rest) \in Nat
  <2>1. rest \in SUBSET PostedIn(m, c)  OBVIOUS
  <2> HIDE DEF rest
  <2> QED BY <2>1, PostedFinite, FS_Subset, FS_CardinalityType
<1>3. m[t] \in Posts  BY DEF MailTypes
<1>4. IsFiniteSet(here) /\ Cardinality(here) = Cardinality(Of(m[t], c))
  <2>1. IsFiniteSet({t}) /\ Cardinality({t}) = 1  BY FS_Singleton
  <2>2. IsFiniteSet(Of(m[t], c)) /\ Cardinality(Of(m[t], c)) \in Nat  BY <1>3, OfFinite
  <2>3. IsFiniteSet(here) /\ Cardinality(here) = 1 * Cardinality(Of(m[t], c))
    BY <2>1, <2>2, FS_Product
  <2> HIDE DEF here
  <2> QED BY <2>2, <2>3
<1>5. Cardinality(rest \cap here) = 0
  <2> HIDE DEF rest, here
  <2> QED BY <1>1, FS_EmptySet
<1> HIDE DEF rest, here
<1>6. Cardinality(rest \cup here) = Cardinality(rest) + Cardinality(here) - Cardinality(rest \cap here)
  BY <1>2, <1>4, FS_Union
<1>7. Cardinality(PostedIn(m, c)) = Cardinality(rest) + Cardinality(Of(m[t], c))
  <2>1. Cardinality(Of(m[t], c)) \in Nat  BY <1>3, OfFinite
  <2> QED BY <2>1, <1>1, <1>2, <1>4, <1>5, <1>6
<1> QED BY <1>2, <1>7 DEF rest

Mailed(m, t, q) == [m EXCEPT ![t] = q]

LEMMA PostedMoves ==
  ASSUME NEW m \in MailTypes, NEW t \in Threads, NEW q \in Posts, NEW m2, m2 = Mailed(m, t, q),
         NEW c
  PROVE  /\ m2 \in MailTypes
         /\ Cardinality(PostedIn(m2, c)) =
               Cardinality(PostedIn(m, c)) - Cardinality(Of(m[t], c)) + Cardinality(Of(q, c))
<1>1. m2 \in MailTypes /\ m2[t] = q /\ \A u \in Threads \ {t} : m2[u] = m[u]
  BY DEF MailTypes, Mailed
<1> DEFINE A == {x \in PostedIn(m, c) : x[1] # t}
           B == {x \in PostedIn(m2, c) : x[1] # t}
<1>2. A = B
  <2>1. ASSUME NEW n, NEW n2, NEW x \in PostedIn(n, c), x[1] # t,
               \A u \in Threads \ {t} : n2[u] = n[u]
        PROVE  x \in PostedIn(n2, c)
    <3>1. x \in MailsOf(n) /\ n[x[1]][x[2]][1] = c  BY DEF PostedIn
    <3>2. PICK u \in Threads : x \in {u} \X DOMAIN n[u]  BY <3>1 DEF MailsOf
    <3>3. x[1] = u /\ n2[u] = n[u]  BY <2>1, <3>2
    <3>4. x \in {u} \X DOMAIN n2[u]  BY <3>2, <3>3
    <3>5. x \in MailsOf(n2)  BY <3>4 DEF MailsOf
    <3> QED BY <3>1, <3>3, <3>5 DEF PostedIn
  <2>2. A \subseteq B  BY <2>1, <1>1
  <2>3. B \subseteq A  BY <2>1, <1>1
  <2> QED BY <2>2, <2>3
<1>3. /\ Cardinality(A) \in Nat
      /\ Cardinality(PostedIn(m, c)) = Cardinality(A) + Cardinality(Of(m[t], c))
  BY PostedSplits
<1>4. Cardinality(PostedIn(m2, c)) = Cardinality(B) + Cardinality(Of(q, c))
  <2>1. Cardinality(PostedIn(m2, c)) = Cardinality(B) + Cardinality(Of(m2[t], c))
    BY <1>1, PostedSplits
  <2> QED BY <2>1, <1>1
<1>5. m[t] \in Posts  BY DEF MailTypes
<1> HIDE DEF A, B
<1> QED BY <1>1, <1>2, <1>3, <1>4, <1>5, OfFinite

LEMMA AppendCounts ==
  ASSUME NEW q \in Posts, NEW p \in Conns \X Receivers, NEW c
  PROVE  /\ Append(q, p) \in Posts
         /\ Cardinality(Of(Append(q, p), c)) = Cardinality(Of(q, c)) + Ind(p[1] = c)
<1> DEFINE n == Len(q) + 1
           q2 == Append(q, p)
<1>1. /\ q2 \in Posts /\ Len(q2) = n /\ q2[n] = p /\ \A i \in 1..Len(q) : q2[i] = q[i]
  BY DEF Posts
<1>2. DOMAIN q = 1..Len(q) /\ DOMAIN q2 = 1..n /\ Len(q) \in Nat  BY <1>1, OfFinite
<1> HIDE DEF q2
<1>3. Of(q, c) \ {n} = Of(q2, c) \ {n}  BY <1>1, <1>2 DEF Of
<1>4. n \notin Of(q, c) /\ (n \in Of(q2, c)) = (p[1] = c)  BY <1>1, <1>2 DEF Of
<1> HIDE DEF n
<1>5. /\ Cardinality(Of(q, c)) \in Nat
      /\ Cardinality(Of(q2, c)) =
            Cardinality(Of(q, c)) - Ind(n \in Of(q, c)) + Ind(n \in Of(q2, c))
  BY <1>3, CountMoves, OfFinite
<1>6. Cardinality(Of(q2, c)) = Cardinality(Of(q, c)) + Ind(p[1] = c)
  BY <1>4, <1>5 DEF Ind
<1> QED BY <1>1, <1>6 DEF q2

LEMMA TailCounts ==
  ASSUME NEW q \in Posts, q # <<>>, NEW c
  PROVE  /\ Head(q) \in Conns \X Receivers /\ Tail(q) \in Posts
         /\ Cardinality(Of(q, c)) \in Nat /\ Cardinality(Of(Tail(q), c)) \in Nat
         /\ Cardinality(Of(Tail(q), c)) = Cardinality(Of(q, c)) - Ind(Head(q)[1] = c)
<1> DEFINE q2 == Tail(q)
           f == [i \in Of(q2, c) |-> i + 1]
<1>1. /\ Head(q) = q[1] /\ Head(q) \in Conns \X Receivers /\ q2 \in Posts /\ Len(q2) = Len(q) - 1
      /\ \A i \in 1..Len(q2) : q2[i] = q[i+1]
  BY HeadTailProperties DEF Posts
<1>2. /\ DOMAIN q = 1..Len(q) /\ Len(q) \in Nat /\ Len(q) # 0
      /\ DOMAIN q2 = 1..Len(q) - 1
  BY <1>1, OfFinite DEF Posts
<1> HIDE DEF q2
<1> DEFINE A == Of(q2, c)
           B == Of(q, c) \ {1}
<1>3. f \in Bijection(A, B)
  <2>1. \A i \in A : i \in 1..Len(q) - 1 /\ q[i+1][1] = c  BY <1>1, <1>2 DEF Of
  <2>2. \A i \in A : i + 1 \in B  BY <2>1, <1>2 DEF Of
  <2>3. \A j \in B : j - 1 \in A /\ j = (j - 1) + 1  BY <1>1, <1>2 DEF Of
  <2>4. \A i, j \in A : i + 1 = j + 1 => i = j  BY <2>1, <1>2
  <2> HIDE DEF A, B
  <2>5. f \in [A -> B]  BY <2>2 DEF A
  <2>6. f \in Injection(A, B)  BY <2>5, <2>4 DEF Injection, IsInjective, A
  <2>7. f \in Surjection(A, B)
    <3>1. ASSUME NEW j \in B PROVE \E i \in A : f[i] = j
      <4>1. f[j-1] = j  BY <2>3 DEF A
      <4> QED BY <4>1, <2>3
    <3> QED BY <3>1, <2>5 DEF Surjection
  <2> QED BY <2>6, <2>7 DEF Bijection
<1>4. Cardinality(A) = Cardinality(B)
  <2>1. IsFiniteSet(A)  BY <1>1, OfFinite
  <2> HIDE DEF A, B, f
  <2>2. ExistsBijection(A, B)  BY <1>3 DEF ExistsBijection
  <2> QED BY <2>1, <2>2, FS_Bijection
<1>5. Cardinality(B) = Cardinality(Of(q, c)) - Ind(1 \in Of(q, c))
  <2>1. IsFiniteSet(Of(q, c)) /\ Cardinality(Of(q, c)) \in Nat  BY OfFinite
  <2>2. Cardinality(B) = IF 1 \in Of(q, c) THEN Cardinality(Of(q, c)) - 1
                         ELSE Cardinality(Of(q, c))
    BY <2>1, FS_RemoveElement
  <2> HIDE DEF B
  <2> QED BY <2>1, <2>2 DEF Ind
<1>6. (1 \in Of(q, c)) = (Head(q)[1] = c)  BY <1>1, <1>2 DEF Of
<1>7. Cardinality(A) = Cardinality(Of(q, c)) - Ind(Head(q)[1] = c)  BY <1>4, <1>5, <1>6
<1>8. Cardinality(A) \in Nat /\ Cardinality(Of(q, c)) \in Nat  BY <1>1, OfFinite
<1> QED BY <1>1, <1>7, <1>8 DEF q2

LEMMA WithoutCounts ==
  ASSUME NEW q \in Posts, NEW r \in Receivers
  PROVE  /\ Without(q, r) \in Posts
         /\ \A c \in Conns : Cardinality(Of(Without(q, r), c)) =
               Cardinality(Of(q, c)) - Cardinality({i \in DOMAIN q : q[i] = <<c, r>>})
<1> DEFINE G == [n \in 1..Len(q) |->
                   [x \in Posts |-> IF q[n][2] # r THEN Append(x, q[n]) ELSE x]]
           H(g) == [n \in 0..Len(q) |->
                       IF n = 0 THEN <<>>
                       ELSE IF q[n][2] # r THEN Append(g[n-1], q[n]) ELSE g[n-1]]
           f == CHOOSE g : g = H(g)
<1>1. Len(q) \in Nat /\ DOMAIN q = 1..Len(q) /\ <<>> \in Posts  BY OfFinite DEF Posts
<1>2. \A n \in 1..Len(q) : q[n] \in Conns \X Receivers  BY DEF Posts
<1>3. G \in [1..Len(q) -> [Posts -> Posts]]  BY <1>2, AppendCounts
<1>4. \E g : g \in [0..Len(q) -> Posts] /\ g = H(g)
  <2> HIDE DEF G
  <2>1. PICK g \in [0..Len(q) -> Posts] : Follows(g, <<>>, Len(q), G)
    BY <1>1, <1>3, Recursion
  <2>2. ASSUME NEW n \in 0..Len(q)
        PROVE  g[n] = IF n = 0 THEN <<>>
                      ELSE IF q[n][2] # r THEN Append(g[n-1], q[n]) ELSE g[n-1]
    <3>1. CASE n = 0  BY <3>1, <2>1 DEF Follows
    <3>2. CASE n # 0
      <4>1. n \in 1..Len(q) /\ n - 1 \in 0..Len(q)  BY <3>2, <1>1
      <4>2. g[n] = G[n][g[n-1]] /\ g[n-1] \in Posts  BY <2>1, <4>1 DEF Follows
      <4>3. G[n] = [x \in Posts |-> IF q[n][2] # r THEN Append(x, q[n]) ELSE x]
        BY <4>1 DEF G
      <4> QED BY <3>2, <4>2, <4>3
    <3> QED BY <3>1, <3>2
  <2>3. g = H(g)  BY <2>1, <2>2
  <2> QED BY <2>1, <2>3
<1>5. f = H(f)  BY <1>4, Zenon
<1>6. Without(q, r) = f[Len(q)]  BY Zenon DEF Without
<1> HIDE DEF f, G
<1>7. f[0] = <<>> /\ \A n \in 1..Len(q) : f[n] = IF q[n][2] # r THEN Append(f[n-1], q[n])
                                               ELSE f[n-1]
  <2>1. 0 \in 0..Len(q)  BY <1>1
  <2>2. f[0] = <<>>  BY <1>5, <2>1
  <2>3. ASSUME NEW n \in 1..Len(q)
        PROVE  f[n] = IF q[n][2] # r THEN Append(f[n-1], q[n]) ELSE f[n-1]
    <3>1. n \in 0..Len(q) /\ n # 0  BY <1>1
    <3> QED BY <1>5, <3>1
  <2> QED BY <2>2, <2>3
<1> HIDE DEF H
<1> DEFINE A(c, n) == {i \in 1..n : q[i][1] = c}
           B(c, n) == {i \in 1..n : q[i] = <<c, r>>}
           Right(n) == f[n] \in Posts /\ \A c \in Conns :
                           Cardinality(Of(f[n], c)) = Cardinality(A(c, n)) - Cardinality(B(c, n))
           T == {n \in 0..Len(q) : ~Right(n)}
<1>8. ASSUME NEW c, NEW n \in 0..Len(q)
      PROVE  IsFiniteSet(A(c, n)) /\ IsFiniteSet(B(c, n))
  <2>1. IsFiniteSet(1..n)  BY <1>1, FS_Interval
  <2>2. A(c, n) \in SUBSET (1..n) /\ B(c, n) \in SUBSET (1..n)  OBVIOUS
  <2> HIDE DEF A, B
  <2> QED BY <2>1, <2>2, FS_Subset
<1>9. T = {}
  <2> SUFFICES ASSUME T # {} PROVE FALSE  OBVIOUS
  <2>1. PICK n \in T : \A y \in T : n <= y
    <3>1. T \subseteq Nat  BY <1>1
    <3> HIDE DEF T
    <3> QED BY <3>1, Least
  <2>2. CASE n = 0
    <3>1. ASSUME NEW c PROVE A(c, 0) = {} /\ B(c, 0) = {} /\ Of(<<>>, c) = {}  BY DEF Of
    <3>2. Right(0)
      <4>1. Cardinality({}) = 0  BY FS_EmptySet
      <4> HIDE DEF A, B
      <4>2. \A c : Cardinality(Of(f[0], c)) = Cardinality(A(c, 0)) - Cardinality(B(c, 0))
        <5> SUFFICES ASSUME NEW c
                     PROVE  Cardinality(Of(f[0], c)) = Cardinality(A(c, 0)) - Cardinality(B(c, 0))
          OBVIOUS
        <5>1. A(c, 0) = {} /\ B(c, 0) = {} /\ Of(f[0], c) = {}  BY <3>1, <1>7
        <5>2. Cardinality(A(c, 0)) = 0 /\ Cardinality(B(c, 0)) = 0 /\ Cardinality(Of(f[0], c)) = 0
          BY <5>1, <4>1, Zenon
        <5> QED BY <5>2
      <4>3. f[0] \in Posts  BY <1>1, <1>7
      <4> QED BY <4>2, <4>3
    <3> QED BY <3>2, <2>1, <2>2
  <2>3. CASE n # 0
    <3>1. n \in 1..Len(q) /\ n - 1 \in 0..Len(q) /\ ~(n <= n - 1)  BY <2>1, <2>3, <1>1
    <3>2. Right(n - 1)  BY <2>1, <3>1
    <3>3. f[n-1] \in Posts /\ q[n] \in Conns \X Receivers  BY <3>1, <3>2, <1>2
    <3>4. ASSUME NEW c \in Conns
          PROVE  /\ Cardinality(A(c, n-1)) \in Nat /\ Cardinality(B(c, n-1)) \in Nat
                 /\ Cardinality(A(c, n)) = Cardinality(A(c, n-1)) + Ind(q[n][1] = c)
                 /\ Cardinality(B(c, n)) = Cardinality(B(c, n-1)) + Ind(q[n] = <<c, r>>)
      <4>1. /\ A(c, n-1) \ {n} = A(c, n) \ {n} /\ n \notin A(c, n-1)
            /\ B(c, n-1) \ {n} = B(c, n) \ {n} /\ n \notin B(c, n-1)
            /\ (n \in A(c, n)) = (q[n][1] = c) /\ (n \in B(c, n)) = (q[n] = <<c, r>>)
        BY <3>1, <1>1
      <4>2. IsFiniteSet(A(c, n-1)) /\ IsFiniteSet(B(c, n-1))  BY <1>8, <3>1
      <4> HIDE DEF A, B
      <4>3. /\ Cardinality(A(c, n-1)) \in Nat
            /\ Cardinality(A(c, n)) =
                  Cardinality(A(c, n-1)) - Ind(n \in A(c, n-1)) + Ind(n \in A(c, n))
        BY <4>1, <4>2, CountMoves
      <4>4. /\ Cardinality(B(c, n-1)) \in Nat
            /\ Cardinality(B(c, n)) =
                  Cardinality(B(c, n-1)) - Ind(n \in B(c, n-1)) + Ind(n \in B(c, n))
        BY <4>1, <4>2, CountMoves
      <4> QED BY <4>1, <4>3, <4>4 DEF Ind
    <3> HIDE DEF A, B
    <3>5. CASE q[n][2] # r
      <4>1. f[n] = Append(f[n-1], q[n])  BY <3>1, <3>5, <1>7
      <4>2. f[n] \in Posts  BY <4>1, <3>3, AppendCounts
      <4>3. ASSUME NEW c \in Conns
            PROVE  Cardinality(Of(f[n], c)) = Cardinality(A(c, n)) - Cardinality(B(c, n))
        <5>1. Cardinality(Of(f[n], c)) = Cardinality(Of(f[n-1], c)) + Ind(q[n][1] = c)
          BY <4>1, <3>3, AppendCounts
        <5>2. Cardinality(Of(f[n-1], c)) = Cardinality(A(c, n-1)) - Cardinality(B(c, n-1))
          BY <3>2
        <5>3. q[n] # <<c, r>>  BY <3>5
        <5> QED BY <5>1, <5>2, <5>3, <3>4 DEF Ind
      <4> QED BY <4>2, <4>3, <2>1
    <3>6. CASE q[n][2] = r
      <4>1. f[n] = f[n-1]  BY <3>1, <3>6, <1>7
      <4>2. ASSUME NEW c \in Conns
            PROVE  Cardinality(Of(f[n], c)) = Cardinality(A(c, n)) - Cardinality(B(c, n))
        <5>1. Cardinality(Of(f[n-1], c)) = Cardinality(A(c, n-1)) - Cardinality(B(c, n-1))
          BY <3>2
        <5>2. (q[n] = <<c, r>>) = (q[n][1] = c)  BY <3>3, <3>6
        <5> QED BY <5>1, <5>2, <4>1, <3>4 DEF Ind
      <4> QED BY <4>1, <4>2, <3>3, <2>1
    <3> QED BY <3>5, <3>6
  <2> QED BY <2>2, <2>3
<1>10. Right(Len(q))
  <2>1. Len(q) \in 0..Len(q)  BY <1>1
  <2> HIDE DEF Right
  <2> QED BY <2>1, <1>9
<1>11. ASSUME NEW c \in Conns
       PROVE  A(c, Len(q)) = Of(q, c) /\ B(c, Len(q)) = {i \in DOMAIN q : q[i] = <<c, r>>}
  BY <1>1 DEF Of
<1> HIDE DEF A, B
<1> QED BY <1>6, <1>10, <1>11
------------------------------------------------------------------------------
(* The other changes of the nodes and the lists.                               *)

(* The same links; the counts and the highest id may differ. *)
Alike(w, v) ==
    /\ v \in Worlds /\ v.lists.first = w.lists.first /\ v.lists.last = w.lists.last
    /\ v.lists.orphans = w.lists.orphans
    /\ \A x \in Conns : /\ v.node[x].next = w.node[x].next /\ v.node[x].prev = w.node[x].prev
                        /\ v.node[x].rcv = w.node[x].rcv

LEMMA AlikeIs ==
  ASSUME NEW w, Sound(w), NEW v, Alike(w, v)
  PROVE  /\ Sound(v) /\ LiveIn(v) = LiveIn(w) /\ Kept(v) = Kept(w)
         /\ \A c, high : OnTrack(w, c, high) => OnTrack(v, c, high)
<1>1. w \in Worlds /\ InOrder(w) /\ OrphansLead(w)  BY DEF Sound
<1>2. LiveIn(v) = LiveIn(w) /\ Kept(v) = Kept(w)  BY DEF Alike, LiveIn, Kept
<1>3. LiveIn(w) \in SUBSET Conns /\ w.lists.orphans \in SUBSET Conns /\ Kept(w) \in SUBSET Conns
  BY <1>1, WorldIs DEF LiveIn, Kept
<1>4. InOrder(v)
  <2>1. \A x \in LiveIn(w) : v.node[x].next = w.node[x].next /\ v.node[x].prev = w.node[x].prev
    BY <1>3 DEF Alike
  <2> QED BY <2>1, <1>1, <1>2 DEF InOrder, Alike
<1>5. OrphansLead(v)
  <2>1. /\ \A x \in w.lists.orphans : v.node[x].next = w.node[x].next
        /\ v.lists.orphans = w.lists.orphans
    BY <1>3 DEF Alike
  <2> QED BY <2>1, <1>1, <1>2 DEF OrphansLead
<1>6. ASSUME NEW high, NEW S, Ahead(w, high, S) PROVE Ahead(v, high, S)
  <2>1. \A x \in S : v.node[x].next = w.node[x].next  BY <1>3, <1>6 DEF Ahead, Alike
  <2> QED BY <2>1, <1>2, <1>6 DEF Ahead
<1>7. v \in Worlds  BY DEF Alike
<1> QED BY <1>2, <1>4, <1>5, <1>6, <1>7 DEF Sound, OnTrack

LEMMA DrainedIs ==
  ASSUME NEW w, Sound(w), NEW v, v = Drained(w)
  PROVE  /\ Sound(v) /\ LiveIn(v) = LiveIn(w) /\ v.lists.orphans = {}
         /\ v.lists.ref = w.lists.ref /\ v.lists.cur = w.lists.cur
         /\ \A c \in Conns : /\ v.node[c].rcv = w.node[c].rcv
                             /\ v.node[c].refs = w.node[c].refs - Ind(c \in w.lists.orphans)
<1>1. w \in Worlds /\ InOrder(w)  BY DEF Sound
<1>2. /\ v = [node |-> v.node, lists |-> v.lists] /\ v.lists = [w.lists EXCEPT !.orphans = {}]
      /\ v.node = [c \in Conns |-> IF c \in w.lists.orphans
                                   THEN [w.node[c] EXCEPT !.refs = @ - 1] ELSE w.node[c]]
  BY DEF Drained
<1>3. ASSUME NEW c \in Conns
      PROVE  /\ v.node[c] \in LooseNode /\ v.node[c].next = w.node[c].next
             /\ v.node[c].prev = w.node[c].prev /\ v.node[c].rcv = w.node[c].rcv
             /\ v.node[c].refs = w.node[c].refs - Ind(c \in w.lists.orphans)
  <2>1. w.node[c] \in LooseNode  BY <1>1, WorldIs
  <2>2. v.node[c] = IF c \in w.lists.orphans THEN [w.node[c] EXCEPT !.refs = @ - 1]
                    ELSE w.node[c]
    BY <1>2
  <2> QED BY <2>1, <2>2 DEF LooseNode, Ind
<1>4. /\ v.lists \in LooseLists /\ v.lists.orphans = {} /\ v.lists.first = w.lists.first
      /\ v.lists.last = w.lists.last /\ v.lists.ref = w.lists.ref /\ v.lists.cur = w.lists.cur
  BY <1>1, <1>2, WorldIs DEF LooseLists
<1>5. v \in Worlds
  <2>1. v.node \in [Conns -> LooseNode]  BY <1>2, <1>3
  <2> QED BY <2>1, <1>2, <1>4 DEF Worlds
<1>6. LiveIn(v) = LiveIn(w)  BY <1>3 DEF LiveIn
<1>7. InOrder(v)
  <2>1. \A x \in LiveIn(w) : v.node[x].next = w.node[x].next /\ v.node[x].prev = w.node[x].prev
    BY <1>3 DEF LiveIn
  <2> QED BY <2>1, <1>1, <1>4, <1>6 DEF InOrder
<1>8. OrphansLead(v)  BY <1>4 DEF OrphansLead
<1> QED BY <1>3, <1>4, <1>5, <1>6, <1>7, <1>8 DEF Sound

(* The node c of a new connection, at the end of the list. *)
Appended(w, v, c) ==
    /\ v \in Worlds /\ v.node[c].next = None /\ v.node[c].prev = w.lists.last
    /\ v.node[c].rcv # None
    /\ \A x \in Conns \ {c} :
          /\ v.node[x].next = (IF x = w.lists.last THEN c ELSE w.node[x].next)
          /\ v.node[x].prev = w.node[x].prev /\ v.node[x].rcv = w.node[x].rcv
    /\ v.lists.first = (IF w.lists.first = None THEN c ELSE w.lists.first)
    /\ v.lists.last = c /\ v.lists.orphans = w.lists.orphans

LEMMA OrderAppends ==
  ASSUME NEW L \in SUBSET Conns, NEW c \in Conns, \A d \in L : d < c,
         NEW e \in Int, e < c, NEW n \in Link
  PROVE  /\ Succeeds(n, e, L) => Succeeds(IF n = None THEN c ELSE n, e, L \cup {c})
         /\ Precedes(n, e, L) => Precedes(n, e, L \cup {c})
<1>1. c \in Nat /\ c # None /\ \A d \in L : d \in Nat  BY Constants
<1>2. CASE n = None
  BY <1>1, <1>2 DEF Succeeds, Precedes
<1>3. CASE n # None
  <2>1. ASSUME Succeeds(n, e, L) PROVE Succeeds(n, e, L \cup {c})
    <3>1. n \in L /\ e < n /\ \A d \in L : d <= e \/ n <= d  BY <1>3, <2>1 DEF Succeeds
    <3>2. n <= c  BY <3>1, <1>1
    <3> QED BY <3>1, <3>2, <1>3 DEF Succeeds
  <2>2. ASSUME Precedes(n, e, L) PROVE Precedes(n, e, L \cup {c})
    <3>1. n \in L /\ n < e /\ \A d \in L : e <= d \/ d <= n  BY <1>3, <2>2 DEF Precedes
    <3>2. e <= c  BY <1>1
    <3> QED BY <3>1, <3>2, <1>3 DEF Precedes
  <2> QED BY <1>3, <2>1, <2>2
<1> QED BY <1>2, <1>3

LEMMA LastAppends ==
  ASSUME NEW L \in SUBSET Conns, NEW c \in Conns, \A d \in L : d < c,
         NEW last \in Link, Precedes(last, MaxConns + 1, L)
  PROVE  /\ Succeeds(None, c, L \cup {c}) /\ Precedes(last, c, L \cup {c})
         /\ Precedes(c, MaxConns + 1, L \cup {c})
         /\ \A d \in L : last # None /\ last \in L /\ d <= last
<1>1. /\ c \in Nat /\ c # None /\ c < MaxConns + 1 /\ MaxConns \in Nat
      /\ \A d \in L : d \in Nat /\ d < MaxConns + 1 /\ d <= c
  BY Constants DEF Conns
<1>2. Succeeds(None, c, L \cup {c})  BY <1>1 DEF Succeeds
<1>3. Precedes(c, MaxConns + 1, L \cup {c})  BY <1>1 DEF Precedes
<1>4. \A d \in L : last # None /\ last \in L /\ d <= last  BY <1>1 DEF Precedes
<1>5. Precedes(last, c, L \cup {c})
  <2>1. CASE last = None
    <3>1. L = {}  BY <1>4, <2>1
    <3> QED BY <3>1, <2>1, <1>1 DEF Precedes
  <2>2. CASE last # None
    <3>1. last \in L  BY <2>2 DEF Precedes
    <3> QED BY <3>1, <2>2, <1>1, <1>4 DEF Precedes
  <2> QED BY <2>1, <2>2
<1> QED BY <1>2, <1>3, <1>4, <1>5

LEMMA AppendedIs ==
  ASSUME NEW w, Sound(w), NEW c \in Conns, \A x \in Kept(w) : x < c, NEW v, Appended(w, v, c)
  PROVE  /\ Sound(v) /\ LiveIn(v) = LiveIn(w) \cup {c} /\ Kept(v) = Kept(w) \cup {c}
         /\ \A x, high \in Conns : high < c /\ OnTrack(w, x, high) => OnTrack(v, x, high)
<1> DEFINE L == LiveIn(w)
           K == Kept(w)
           last == w.lists.last
<1>1. w \in Worlds /\ InOrder(w) /\ OrphansLead(w)  BY DEF Sound
<1>2. /\ L \in SUBSET Conns /\ w.lists.orphans \in SUBSET K /\ K \in SUBSET Conns
      /\ last \in Link /\ w.lists.first \in Link /\ L \subseteq K
      /\ \A x \in Conns : w.node[x].next \in Link /\ w.node[x].prev \in Link
  BY <1>1, WorldIs DEF LiveIn, Kept
<1>3. c \notin K /\ c \notin L  BY <1>2, Constants
<1>4. LiveIn(v) = L \cup {c}
  BY <1>3 DEF Appended, LiveIn
<1>5. Kept(v) = K \cup {c}
  <2>1. v.lists.orphans = w.lists.orphans  BY DEF Appended
  <2> QED BY <2>1, <1>4 DEF Kept
<1>6. /\ \A d \in L : Succeeds(w.node[d].next, d, L) /\ Precedes(w.node[d].prev, d, L)
      /\ Succeeds(w.lists.first, 0, L) /\ Precedes(last, MaxConns + 1, L)
  BY <1>1 DEF InOrder
<1>7. /\ v.node[c].next = None /\ v.node[c].prev = last
      /\ \A x \in Conns \ {c} : /\ v.node[x].next = (IF x = last THEN c ELSE w.node[x].next)
                                /\ v.node[x].prev = w.node[x].prev
      /\ v.lists.first = (IF w.lists.first = None THEN c ELSE w.lists.first)
      /\ v.lists.last = c /\ v.lists.orphans = w.lists.orphans
  BY DEF Appended
<1>8. \A d \in L : d \in Conns \ {c} /\ d < c /\ d \in Nat  BY <1>2, <1>3, Constants
<1> HIDE DEF L, K, last
<1>9. /\ Succeeds(None, c, L \cup {c}) /\ Precedes(last, c, L \cup {c})
      /\ Precedes(c, MaxConns + 1, L \cup {c})
      /\ \A d \in L : last # None /\ last \in L /\ d <= last
  BY <1>2, <1>6, <1>8, LastAppends
<1>10. ASSUME NEW d \in L PROVE Succeeds(v.node[d].next, d, L \cup {c})
  <2>1. /\ Succeeds(w.node[d].next, d, L) /\ w.node[d].next \in Link /\ d \in Int /\ d < c
        /\ d \in Conns \ {c}
    BY <1>2, <1>6, <1>8
  <2>2. Succeeds(IF w.node[d].next = None THEN c ELSE w.node[d].next, d, L \cup {c})
    BY <2>1, <1>2, <1>8, OrderAppends
  <2>3. w.node[d].next = None <=> d = last
    <3>1. CASE d = last
      <4> DEFINE n == w.node[d].next
      <4>1. n # None => n \in L /\ d < n  BY <2>1 DEF Succeeds
      <4>2. \A x \in L : ~(d < x)  BY <3>1, <1>8, <1>9
      <4> QED BY <3>1, <4>1, <4>2
    <3>2. CASE d # last
      <4>1. last \in L /\ d < last  BY <1>8, <1>9, <3>2
      <4> QED BY <4>1, <3>2, <2>1, <1>8 DEF Succeeds
    <3> QED BY <3>1, <3>2
  <2> QED BY <2>1, <2>2, <2>3, <1>7
<1>11. ASSUME NEW d \in L PROVE Precedes(v.node[d].prev, d, L \cup {c})
  <2>1. v.node[d].prev = w.node[d].prev  BY <1>7, <1>8
  <2>2. /\ Precedes(w.node[d].prev, d, L) /\ w.node[d].prev \in Link /\ d \in Int /\ d < c
    BY <1>2, <1>6, <1>8
  <2> QED BY <2>1, <2>2, <1>2, <1>8, OrderAppends
<1>12. Succeeds(v.node[c].next, c, L \cup {c}) /\ Precedes(v.node[c].prev, c, L \cup {c})
  BY <1>7, <1>9
<1>13. Succeeds(v.lists.first, 0, L \cup {c})
  <2>1. 0 < c /\ 0 \in Int  BY Constants
  <2>2. Succeeds(IF w.lists.first = None THEN c ELSE w.lists.first, 0, L \cup {c})
    BY <2>1, <1>2, <1>6, <1>8, OrderAppends
  <2> QED BY <2>2, <1>7
<1>14. Precedes(v.lists.last, MaxConns + 1, L \cup {c})  BY <1>7, <1>9
<1>15. InOrder(v)  BY <1>4, <1>10, <1>11, <1>12, <1>13, <1>14 DEF InOrder
<1>16. ASSUME NEW o \in w.lists.orphans
       PROVE  o # c /\ o # last /\ o \in Conns /\ v.node[o].next = w.node[o].next
  <2>1. o \in K /\ o \notin L /\ o \in Conns  BY <1>1, <1>2 DEF OrphansLead, L
  <2>2. o # last
    <3> SUFFICES ASSUME o = last PROVE FALSE  OBVIOUS
    <3>1. last \in Conns /\ last # None  BY <2>1, Constants
    <3>2. last \in L  BY <3>1, <1>6 DEF Precedes
    <3> QED BY <3>2, <2>1
  <2> QED BY <2>1, <2>2, <1>3, <1>7
<1>17. OrphansLead(v)
  <2> SUFFICES ASSUME NEW o \in w.lists.orphans
               PROVE  LET n == v.node[o].next IN
                        /\ o \notin L \cup {c}
                        /\ n # None => n \in K \cup {c} /\ o < n
                                       /\ \A d \in L \cup {c} : d <= o \/ n <= d
    BY <1>4, <1>5, <1>7 DEF OrphansLead
  <2>1. /\ o \notin L
        /\ w.node[o].next # None => w.node[o].next \in K /\ o < w.node[o].next
                                    /\ \A d \in L : d <= o \/ w.node[o].next <= d
    BY <1>1 DEF OrphansLead, L, K
  <2>2. \A x \in K : x < c  BY DEF K
  <2>3. \A x \in K : x <= c  BY <2>2, <1>2, Constants
  <2> QED BY <2>1, <2>3, <1>16
<1>18. Sound(v)
  <2>1. v \in Worlds  BY DEF Appended
  <2> QED BY <2>1, <1>15, <1>17 DEF Sound
<1>19. ASSUME NEW x \in Conns, NEW high \in Conns, high < c, OnTrack(w, x, high)
       PROVE  OnTrack(v, x, high)
  <2>1. PICK S \in SUBSET Conns : x \in S /\ Ahead(w, high, S)  BY <1>19 DEF OnTrack
  <2> DEFINE S2 == S \cup {c}
  <2>2. /\ S \subseteq K
        /\ \A y \in S : IF w.node[y].next = None THEN \A d \in L : d <= y \/ high < d
                        ELSE w.node[y].next \in S
    BY <2>1 DEF Ahead, L, K
  <2>3. ASSUME NEW y \in S2
        PROVE  IF v.node[y].next = None THEN \A d \in L \cup {c} : d <= y \/ high < d
               ELSE v.node[y].next \in S2
    <3>1. CASE y = c
      BY <3>1, <1>7, <1>8, Constants
    <3>2. CASE y # c /\ y = last
      <4>1. v.node[y].next = c  BY <3>2, <2>1, <1>7
      <4> QED BY <4>1, Constants
    <3>3. CASE y # c /\ y # last
      <4>1. y \in S /\ v.node[y].next = w.node[y].next  BY <3>3, <2>1, <1>7
      <4> QED BY <4>1, <2>2, <1>19
    <3> QED BY <3>1, <3>2, <3>3
  <2>4. Ahead(v, high, S2)  BY <2>2, <2>3, <1>4, <1>5 DEF Ahead
  <2> QED BY <2>1, <2>4 DEF OnTrack
<1> QED BY <1>4, <1>5, <1>18, <1>19 DEF L, K
------------------------------------------------------------------------------
(* What a change of the lists leaves right about a call, and a change of the   *)
(* stacks about all of them.                                                   *)

LEMMA CallAlike ==
  ASSUME NEW w, Sound(w), NEW v, Alike(w, v), v.lists.cur = w.lists.cur,
         NEW t, NEW f, NEW s, NEW l, CallGood(t, f, w, s, l)
  PROVE  CallGood(t, f, v, s, l)
<1>1. LiveIn(v) = LiveIn(w)  BY AlikeIs
<1>2. ASSUME WalkGood(f, w, s) PROVE WalkGood(f, v, s)
  <2>1. OnTrack(v, f.conn, f.high)  BY <1>2, AlikeIs DEF WalkGood
  <2> QED BY <2>1, <1>1, <1>2 DEF WalkGood
<1> QED BY <1>1, <1>2 DEF CallGood

LEMMA CallRemoves ==
  ASSUME NEW w, Sound(w), NEW v, NEW set, Removes(w, v, set),
         NEW t, NEW f \in Frame, NEW s, NEW l, NEW l2, CallGood(t, f, w, s, l),
         f.at = "disconnect" /\ f.conn # None => f.conn \notin set,
         f.at = "post" => f.rcv \in l2
  PROVE  CallGood(t, f, v, s, l2)
<1>1. LiveIn(v) = LiveIn(w) \ set /\ v.lists.cur = w.lists.cur  BY DEF Removes
<1>2. ASSUME WalkGood(f, w, s), f.high \in Conns PROVE WalkGood(f, v, s)
  <2>1. PICK S \in SUBSET Conns : f.conn \in S /\ Ahead(w, f.high, S)
    BY <1>2 DEF WalkGood, OnTrack
  <2>2. Ahead(v, f.high, S)  BY <2>1, <1>2 DEF Removes
  <2>3. OnTrack(v, f.conn, f.high)  BY <2>1, <2>2 DEF OnTrack
  <2> QED BY <2>3, <1>1, <1>2 DEF WalkGood
<1>3. f.at \in Walking => f.high \in Conns  BY FrameIs DEF Walking
<1> QED BY <1>1, <1>2, <1>3 DEF CallGood

LEMMA CallAppends ==
  ASSUME NEW w, Sound(w), NEW c \in Conns, \A x \in Kept(w) : x < c, NEW v, Appended(w, v, c),
         w.lists.cur < c, w.lists.cur <= v.lists.cur, v.lists.cur \in Nat,
         NEW t, NEW f \in Frame, NEW l, CallGood(t, f, w, TRUE, l)
  PROVE  CallGood(t, f, v, TRUE, l)
<1>1. /\ LiveIn(v) = LiveIn(w) \cup {c}
      /\ \A x, high \in Conns : high < c /\ OnTrack(w, x, high) => OnTrack(v, x, high)
  BY AppendedIs
<1>2. w.lists.cur \in Nat  BY WorldIs, Constants DEF Sound
<1>3. ASSUME WalkGood(f, w, TRUE), f.at \in Walking PROVE WalkGood(f, v, TRUE)
  <2>1. f.conn \in Conns /\ f.high \in Conns  BY <1>3, FrameIs DEF Walking
  <2>2. f.high <= w.lists.cur /\ OnTrack(w, f.conn, f.high)  BY <1>3 DEF WalkGood
  <2> DEFINE high == f.high
             cur == w.lists.cur
             more == v.lists.cur
  <2>a. /\ high \in Nat /\ cur \in Nat /\ more \in Nat /\ c \in Nat
        /\ high <= cur /\ cur < c /\ cur <= more
    BY <2>1, <2>2, <1>2, Constants
  <2>b. high < c /\ ~(c <= high) /\ high <= more
    <3> HIDE DEF high, cur, more
    <3> QED BY <2>a
  <2>3. f.high < c /\ ~(c <= f.high)  BY <2>b
  <2>4. OnTrack(v, f.conn, f.high)  BY <2>1, <2>2, <2>3, <1>1
  <2>5. f.high <= v.lists.cur  BY <2>b
  <2> QED BY <2>3, <2>4, <2>5, <1>1, <1>3 DEF WalkGood
<1>4. f.at \in Walking => WalkGood(f, v, TRUE)  BY <1>3 DEF CallGood
<1> QED BY <1>1, <1>4 DEF CallGood

(* The sender is gone: its connections are, and nobody disconnects any more. *)
LEMMA CallOutlives ==
  ASSUME NEW w, Sound(w), NEW v, Removes(w, v, Conns), NEW u, Alike(v, u),
         NEW t, NEW f \in Frame, NEW s, NEW l, CallGood(t, f, w, s, l),
         f.at \notin {"disconnect", "lock"}
  PROVE  CallGood(t, f, u, FALSE, l)
<1>1. Sound(v)  BY DEF Removes
<1>2. ASSUME f.at \in Walking PROVE WalkGood(f, u, FALSE)
  <2>1. WalkGood(f, w, s) /\ f.high \in Conns  BY <1>2, FrameIs DEF CallGood, Walking
  <2>2. PICK S \in SUBSET Conns : f.conn \in S /\ Ahead(w, f.high, S)
    BY <2>1 DEF WalkGood, OnTrack
  <2>3. Ahead(v, f.high, S)  BY <2>1, <2>2 DEF Removes
  <2>4. OnTrack(v, f.conn, f.high)  BY <2>2, <2>3 DEF OnTrack
  <2>5. OnTrack(u, f.conn, f.high)  BY <2>4, <1>1, AlikeIs
  <2> QED BY <2>1, <2>5 DEF WalkGood
<1> QED BY <1>2 DEF CallGood

LEMMA CallDrains ==
  ASSUME NEW w, NEW v, LiveIn(v) = LiveIn(w), NEW t, NEW f, NEW s, NEW l,
         CallGood(t, f, w, s, l), f.at \notin Walking
  PROVE  CallGood(t, f, v, s, l)
BY DEF CallGood

(* The top of a stack; only it is not in a slot. *)
Inner(st, t) == st[t][Len(st[t])]

LEMMA InnerIs ==
  ASSUME NEW w, NEW s, NEW l, NEW st \in Stacks, Calls(w, s, l, st), NEW t \in Threads,
         st[t] # <<>>
  PROVE  /\ Len(st[t]) \in DOMAIN st[t] /\ Inner(st, t) \in Frame
         /\ CallGood(t, Inner(st, t), w, s, l)
         /\ \A i \in DOMAIN st[t] : i # Len(st[t]) => i \in 1..Len(st[t]) - 1 /\ st[t][i].at = "slot"
<1>1. st[t] \in Seq(Frame) /\ Len(st[t]) \in Nat /\ DOMAIN st[t] = 1..Len(st[t])  BY StackIs
<1>2. Len(st[t]) \in DOMAIN st[t]  BY <1>1
<1> QED BY <1>1, <1>2, StackIs DEF Calls, Inner

LEMMA CallsPush ==
  ASSUME NEW w, NEW s, NEW l, NEW st \in Stacks, Calls(w, s, l, st),
         NEW t \in Threads, st[t] # <<>> => Inner(st, t).at = "slot", Len(st[t]) < MaxDepth,
         NEW f \in Frame, CallGood(t, f, w, s, l), NEW st2, st2 = Pushed(st, t, f)
  PROVE  Calls(w, s, l, st2)
<1>1. /\ st2 \in Stacks /\ Len(st2[t]) = Len(st[t]) + 1 /\ st2[t][Len(st[t]) + 1] = f
      /\ \A i \in 1..Len(st[t]) : st2[t][i] = st[t][i]
      /\ \A u \in Threads \ {t} : st2[u] = st[u]
  BY PushedIs
<1>2. /\ DOMAIN st[t] = 1..Len(st[t]) /\ Len(st[t]) \in Nat
      /\ DOMAIN st2[t] = 1..Len(st[t]) + 1
  BY <1>1, StackIs
<1>3. \A i \in 1..Len(st[t]) : st[t][i].at = "slot"
  <2> SUFFICES ASSUME NEW i \in 1..Len(st[t]) PROVE st[t][i].at = "slot"  OBVIOUS
  <2>1. CASE i < Len(st[t])  BY <2>1, <1>2 DEF Calls
  <2>2. CASE i = Len(st[t])
    <3>1. st[t] # <<>>  BY <2>2, <1>2
    <3> QED BY <3>1, <2>2 DEF Inner
  <2> QED BY <2>1, <2>2, <1>2
<1>4. ASSUME NEW i \in DOMAIN st2[t]
      PROVE  (i < Len(st2[t]) => st2[t][i].at = "slot") /\ CallGood(t, st2[t][i], w, s, l)
  <2>1. CASE i = Len(st[t]) + 1  BY <2>1, <1>1, <1>2
  <2>2. CASE i # Len(st[t]) + 1
    <3>1. i \in 1..Len(st[t])  BY <2>2, <1>2
    <3> QED BY <3>1, <1>1, <1>2, <1>3 DEF Calls
  <2> QED BY <2>1, <2>2
<1> QED BY <1>1, <1>4 DEF Calls

LEMMA CallsPop ==
  ASSUME NEW w, NEW s, NEW l, NEW st \in Stacks, Calls(w, s, l, st),
         NEW t \in Threads, st[t] # <<>>, NEW st2, st2 = Popped(st, t)
  PROVE  Calls(w, s, l, st2)
<1>1. /\ st2 \in Stacks /\ Len(st2[t]) = Len(st[t]) - 1
      /\ \A i \in 1..Len(st[t]) - 1 : st2[t][i] = st[t][i]
      /\ \A u \in Threads \ {t} : st2[u] = st[u]
  BY PoppedIs
<1>2. /\ DOMAIN st[t] = 1..Len(st[t]) /\ Len(st[t]) \in Nat
      /\ DOMAIN st2[t] = 1..Len(st[t]) - 1
  BY <1>1, StackIs
<1>3. ASSUME NEW i \in DOMAIN st2[t]
      PROVE  (i < Len(st2[t]) => st2[t][i].at = "slot") /\ CallGood(t, st2[t][i], w, s, l)
  BY <1>1, <1>2 DEF Calls
<1> QED BY <1>1, <1>3 DEF Calls

LEMMA CallsGo ==
  ASSUME NEW w, NEW s, NEW l, NEW st \in Stacks, Calls(w, s, l, st),
         NEW t \in Threads, st[t] # <<>>, NEW f \in Frame, CallGood(t, f, w, s, l),
         NEW st2, st2 = Gone(st, t, f)
  PROVE  Calls(w, s, l, st2)
<1>1. /\ st2 \in Stacks /\ Len(st2[t]) = Len(st[t]) /\ st2[t][Len(st[t])] = f
      /\ \A i \in 1..Len(st[t]) - 1 : st2[t][i] = st[t][i]
      /\ \A u \in Threads \ {t} : st2[u] = st[u]
  BY GoneIs
<1>2. /\ DOMAIN st[t] = 1..Len(st[t]) /\ Len(st[t]) \in Nat
      /\ DOMAIN st2[t] = 1..Len(st[t])
  BY <1>1, StackIs
<1>3. ASSUME NEW i \in DOMAIN st2[t]
      PROVE  (i < Len(st2[t]) => st2[t][i].at = "slot") /\ CallGood(t, st2[t][i], w, s, l)
  <2>1. CASE i = Len(st[t])  BY <2>1, <1>1, <1>2
  <2>2. CASE i # Len(st[t])  BY <2>2, <1>1, <1>2 DEF Calls
  <2> QED BY <2>1, <2>2
<1> QED BY <1>1, <1>3 DEF Calls

(* A change of the lists that leaves each call right leaves them all right.    *)
LEMMA CallsStay ==
  ASSUME NEW w, NEW v, NEW s, NEW s2, NEW l, NEW l2, NEW st \in Stacks, Calls(w, s, l, st),
         \A t \in Threads : \A i \in DOMAIN st[t] :
            st[t][i] \in Frame /\ CallGood(t, st[t][i], w, s, l) => CallGood(t, st[t][i], v, s2, l2)
  PROVE  Calls(v, s2, l2, st)
<1>1. \A t \in Threads : \A i \in DOMAIN st[t] : st[t][i] \in Frame  BY StackIs
<1> QED BY <1>1 DEF Calls

(* A node that is kept has references. *)
LEMMA KeptCounted ==
  ASSUME NEW w, Sound(w), NEW s, NEW st, NEW m \in MailTypes, Counted(w, s, st, m),
         NEW c \in Kept(w)
  PROVE  c \in Conns /\ w.node[c].refs > 0
<1>1. w \in Worlds  BY DEF Sound
<1>2. c \in Conns /\ (w.node[c].rcv # None \/ c \in w.lists.orphans)
  BY <1>1, WorldIs DEF Kept, LiveIn
<1>3. Cardinality(InSlot(st, c)) \in Nat /\ Cardinality(PostedIn(m, c)) \in Nat
  BY CountsFinite, PostedFinite
<1>4. w.node[c].refs =
          (IF w.node[c].rcv # None THEN 2 ELSE 0) + (IF c \in w.lists.orphans THEN 1 ELSE 0)
          + Cardinality(InSlot(st, c)) + Cardinality(PostedIn(m, c))
  BY <1>2 DEF Counted
<1> QED BY <1>2, <1>3, <1>4

(* The sender alive, what is kept has been given its id. *)
LEMMA KeptGiven ==
  ASSUME NEW w, Sound(w), NEW s, NEW st, NEW l, NEW m \in MailTypes, Counted(w, s, st, m),
         Lives(w, s, l), s, NEW c \in Kept(w)
  PROVE  c <= w.lists.cur
<1>1. c \in Conns /\ w.node[c].refs > 0  BY KeptCounted
<1>2. w.lists.cur \in Nat /\ w.node[c].refs \in Int  BY <1>1, WorldIs, Constants DEF Sound
<1>3. ~(w.lists.cur < c)  BY <1>1, <1>2 DEF Lives
<1> QED BY <1>1, <1>2, <1>3, Constants

(* Where the count of the lists is that of the sender, nobody walks them. *)
LEMMA NobodyWalks ==
  ASSUME NEW w, NEW s \in BOOLEAN, NEW m, NEW st \in Stacks, Counted(w, s, st, m),
         w.lists.ref = Ind(s), NEW t \in Threads, NEW i \in DOMAIN st[t]
  PROVE  st[t][i].at \notin Walking
<1>1. IsFiniteSet(OnWalk(st)) /\ Cardinality(OnWalk(st)) \in Nat  BY CountsFinite
<1>2. Cardinality(OnWalk(st)) = 0  BY <1>1 DEF Counted, Ind
<1>3. OnWalk(st) = {}  BY <1>1, <1>2, FS_EmptySet
<1>4. <<t, i>> \in Places
  <2>1. i \in 1..Len(st[t]) /\ Len(st[t]) \in Nat /\ Len(st[t]) <= MaxDepth  BY StackIs
  <2>2. i \in 1..MaxDepth  BY <2>1, Constants
  <2> QED BY <2>2 DEF Places
<1> QED BY <1>3, <1>4 DEF OnWalk
------------------------------------------------------------------------------
(* What a step leaves right of the whole, by the kind of change it makes.      *)

LEMMA HeldIs ==
  ASSUME NEW w, NEW s, NEW l, NEW st, NEW m, Held(w, s, l, st, m)
  PROVE  /\ w \in Worlds /\ st \in Stacks /\ m \in MailTypes /\ s \in BOOLEAN
         /\ l \in SUBSET Receivers /\ LiveIn(w) \in SUBSET Conns /\ Kept(w) \in SUBSET Conns
         /\ w.lists.ref \in Nat /\ Ind(s) \in Nat /\ w.lists.ref = Ind(s) + Cardinality(OnWalk(st))
         /\ \A c \in Conns : w.node[c].refs \in Nat
<1>1. w \in Worlds /\ st \in Stacks /\ m \in MailTypes /\ s \in BOOLEAN /\ l \in SUBSET Receivers
  BY DEF Held, Typed, Sound, Stacks, MailTypes, Posts
<1>2. LiveIn(w) \in SUBSET Conns /\ Kept(w) \in SUBSET Conns  BY <1>1, WorldIs DEF LiveIn, Kept
<1>3. Ind(s) \in Nat  BY DEF Ind
<1>4. w.lists.ref = Ind(s) + Cardinality(OnWalk(st))  BY DEF Held, Counted, Ind
<1>5. w.lists.ref \in Nat  BY <1>3, <1>4, CountsFinite
<1>6. ASSUME NEW c \in Conns PROVE w.node[c].refs \in Nat
  <2>1. Cardinality(InSlot(st, c)) \in Nat /\ Cardinality(PostedIn(m, c)) \in Nat
    BY <1>1, CountsFinite, PostedFinite
  <2>2. w.node[c].refs =
          (IF w.node[c].rcv # None THEN 2 ELSE 0) + (IF c \in w.lists.orphans THEN 1 ELSE 0)
          + Cardinality(InSlot(st, c)) + Cardinality(PostedIn(m, c))
    BY DEF Held, Counted
  <2> QED BY <2>1, <2>2
<1> QED BY <1>1, <1>2, <1>3, <1>4, <1>5, <1>6

LEMMA HeldAlike ==
  ASSUME NEW w, NEW s, NEW l, NEW st, NEW m, Held(w, s, l, st, m),
         NEW v, Alike(w, v), v.lists.cur = w.lists.cur,
         NEW st2 \in Stacks, Calls(w, s, l, st2), NEW m2 \in MailTypes, Counted(v, s, st2, m2),
         \A c \in Conns : w.node[c].refs = 0 => v.node[c].refs = 0,
         ~s => v.lists.ref <= 1
  PROVE  Held(v, s, l, st2, m2)
<1>1. Typed(s, l, st2, m2)
  BY DEF Held, Typed, Stacks, MailTypes, Posts
<1>2. Sound(w) /\ Sound(v) /\ LiveIn(v) = LiveIn(w)  BY AlikeIs DEF Held
<1>3. Lives(v, s, l)
  <2>1. \A c \in LiveIn(w) : v.node[c].rcv = w.node[c].rcv  BY DEF LiveIn, Alike
  <2>2. Lives(w, s, l)  BY DEF Held
  <2> QED BY <2>1, <2>2, <1>2 DEF Lives
<1>4. Calls(v, s, l, st2)
  <2>1. \A t \in Threads : \A i \in DOMAIN st2[t] :
           CallGood(t, st2[t][i], w, s, l) => CallGood(t, st2[t][i], v, s, l)
    BY <1>2, CallAlike
  <2> QED BY <2>1, CallsStay
<1> QED BY <1>1, <1>2, <1>3, <1>4 DEF Held

(* No disconnect is at a connection of set, no post is to one that is not in l. *)
Clear(st, set, l) ==
    \A t \in Threads : \A i \in DOMAIN st[t] :
        /\ st[t][i].at = "disconnect" /\ st[t][i].conn # None => st[t][i].conn \notin set
        /\ st[t][i].at = "post" => st[t][i].rcv \in l

LEMMA HeldRemoves ==
  ASSUME NEW w, NEW s, NEW l, NEW st, NEW m, Held(w, s, l, st, m),
         NEW v, NEW set, Removes(w, v, set), NEW l2 \in SUBSET Receivers,
         \A c \in LiveIn(v) : v.node[c].rcv \in l2, Clear(st, set, l2)
  PROVE  Held(v, s, l2, st, m) /\ (v.lists.ref = 0 => v.lists.orphans = w.lists.orphans)
<1>1. st \in Stacks /\ w \in Worlds /\ m \in MailTypes /\ LiveIn(w) \in SUBSET Conns  BY HeldIs
<1>2. Typed(s, l2, st, m)  BY DEF Held, Typed
<1>3. Sound(w) /\ Lives(w, s, l) /\ Counted(w, s, st, m) /\ Calls(w, s, l, st)  BY DEF Held
<1>4. /\ LiveIn(v) = LiveIn(w) \ set /\ Sound(v)
      /\ \A x \in Conns :
            /\ v.node[x].rcv = (IF x \in set THEN None ELSE w.node[x].rcv)
            /\ v.node[x].refs =
                  w.node[x].refs - (IF x \in LiveIn(w) /\ x \in set THEN 1 ELSE 0)
      /\ v.lists.ref = w.lists.ref /\ v.lists.cur = w.lists.cur
      /\ v.lists.orphans = w.lists.orphans \cup (LiveIn(w) \cap set)
  BY DEF Removes
<1>5. w.lists.cur \in Nat /\ MaxConns \in Nat  BY <1>1, WorldIs, Constants
<1>6. \A c \in LiveIn(w) : c <= w.lists.cur
  <2> SUFFICES ASSUME NEW c \in LiveIn(w) PROVE c <= w.lists.cur  OBVIOUS
  <2>1. s /\ c \in Kept(w)  BY <1>3 DEF Lives, Kept
  <2> QED BY <2>1, <1>1, <1>3, KeptGiven
<1>7. Lives(v, s, l2)
  <2>1. ASSUME s, NEW c \in Conns, v.lists.cur < c PROVE v.node[c].refs = 0
    <3>1. w.node[c].refs = 0  BY <2>1, <1>3, <1>4 DEF Lives
    <3>2. c \notin LiveIn(w)
      <4>1. c \in Nat /\ w.lists.cur < c  BY <2>1, <1>4, Constants
      <4> QED BY <4>1, <1>5, <1>6
    <3> QED BY <3>1, <3>2, <1>4
  <2> QED BY <2>1, <1>3, <1>4 DEF Lives
<1>8. Calls(v, s, l2, st)
  <2> SUFFICES ASSUME NEW t \in Threads, NEW i \in DOMAIN st[t], st[t][i] \in Frame,
                      CallGood(t, st[t][i], w, s, l)
               PROVE  CallGood(t, st[t][i], v, s, l2)
    BY <1>1, <1>3, CallsStay
  <2>1. /\ st[t][i].at = "disconnect" /\ st[t][i].conn # None => st[t][i].conn \notin set
        /\ st[t][i].at = "post" => st[t][i].rcv \in l2
    BY DEF Clear
  <2> QED BY <2>1, <1>3, CallRemoves
<1>9. Counted(v, s, st, m)
  <2>1. ASSUME NEW c \in Conns
        PROVE  v.node[c].refs =
                 (IF v.node[c].rcv # None THEN 2 ELSE 0) + (IF c \in v.lists.orphans THEN 1 ELSE 0)
                 + Cardinality(InSlot(st, c)) + Cardinality(PostedIn(m, c))
    <3>1. Cardinality(InSlot(st, c)) \in Nat /\ Cardinality(PostedIn(m, c)) \in Nat
      BY <1>1, CountsFinite, PostedFinite
    <3>2. w.node[c].refs =
            (IF w.node[c].rcv # None THEN 2 ELSE 0) + (IF c \in w.lists.orphans THEN 1 ELSE 0)
            + Cardinality(InSlot(st, c)) + Cardinality(PostedIn(m, c))
      BY <1>3 DEF Counted
    <3>3. CASE c \in LiveIn(w) /\ c \in set
      <4>1. c \notin w.lists.orphans /\ w.node[c].rcv # None
        BY <3>3, <1>3 DEF Sound, OrphansLead, LiveIn
      <4>2. c \in v.lists.orphans /\ v.node[c].rcv = None /\ v.node[c].refs = w.node[c].refs - 1
        BY <3>3, <1>4
      <4> QED BY <3>1, <3>2, <4>1, <4>2
    <3>4. CASE ~(c \in LiveIn(w) /\ c \in set)
      <4>0. w.node[c].refs \in Int  BY <1>1, WorldIs
      <4>1. (c \in v.lists.orphans <=> c \in w.lists.orphans) /\ v.node[c].refs = w.node[c].refs
        BY <3>4, <4>0, <1>4
      <4>2. v.node[c].rcv # None <=> w.node[c].rcv # None  BY <3>4, <1>4 DEF LiveIn
      <4> QED BY <3>1, <3>2, <4>1, <4>2
    <3> QED BY <3>3, <3>4
  <2>2. v.lists.ref = (IF s THEN 1 ELSE 0) + Cardinality(OnWalk(st))  BY <1>3, <1>4 DEF Counted
  <2> QED BY <2>1, <2>2 DEF Counted
<1>10. ASSUME v.lists.ref = 0 PROVE v.lists.orphans = w.lists.orphans
  <2>1. ~s
    <3>1. w.lists.ref = 0 /\ w.lists.ref = (IF s THEN 1 ELSE 0) + Cardinality(OnWalk(st))
          /\ Cardinality(OnWalk(st)) \in Nat
      BY <1>3, <1>4, <1>10, CountsFinite DEF Counted
    <3> QED BY <3>1
  <2>2. LiveIn(w) = {}  BY <2>1, <1>3 DEF Lives
  <2> QED BY <2>2, <1>4
<1> QED BY <1>2, <1>4, <1>7, <1>8, <1>9, <1>10 DEF Held

LEMMA SafeDrains ==
  ASSUME NEW w, NEW s, NEW l, NEW st, NEW m, Held(w, s, l, st, m), w.lists.ref = Ind(s),
         NEW v, v = Drained(w)
  PROVE  Safe(v, s, l, st, m)
<1>1. st \in Stacks /\ w \in Worlds /\ m \in MailTypes /\ s \in BOOLEAN  BY HeldIs
<1>2. Sound(w) /\ Lives(w, s, l) /\ Counted(w, s, st, m) /\ Calls(w, s, l, st) /\ Typed(s, l, st, m)
  BY DEF Held
<1>3. /\ Sound(v) /\ LiveIn(v) = LiveIn(w) /\ v.lists.orphans = {}
      /\ v.lists.ref = w.lists.ref /\ v.lists.cur = w.lists.cur
      /\ \A c \in Conns : /\ v.node[c].rcv = w.node[c].rcv
                          /\ v.node[c].refs = w.node[c].refs - Ind(c \in w.lists.orphans)
  BY <1>2, DrainedIs
<1>4. ASSUME NEW c \in Conns
      PROVE  /\ v.node[c].refs =
                 (IF v.node[c].rcv # None THEN 2 ELSE 0) + (IF c \in v.lists.orphans THEN 1 ELSE 0)
                 + Cardinality(InSlot(st, c)) + Cardinality(PostedIn(m, c))
             /\ w.node[c].refs = 0 => v.node[c].refs = 0
  <2>1. Cardinality(InSlot(st, c)) \in Nat /\ Cardinality(PostedIn(m, c)) \in Nat
    BY <1>1, CountsFinite, PostedFinite
  <2>2. w.node[c].refs =
          (IF w.node[c].rcv # None THEN 2 ELSE 0) + (IF c \in w.lists.orphans THEN 1 ELSE 0)
          + Cardinality(InSlot(st, c)) + Cardinality(PostedIn(m, c))
    BY <1>2 DEF Counted
  <2>3. w.node[c].refs \in Int  BY <1>1, WorldIs
  <2>4. c \notin v.lists.orphans  BY <1>3
  <2>5. v.node[c].rcv = w.node[c].rcv  BY <1>3
  <2>6. CASE c \in w.lists.orphans
    <3>1. v.node[c].refs = w.node[c].refs - 1  BY <2>6, <1>3 DEF Ind
    <3> QED BY <3>1, <2>1, <2>2, <2>3, <2>4, <2>5, <2>6
  <2>7. CASE c \notin w.lists.orphans
    <3>1. v.node[c].refs = w.node[c].refs  BY <2>3, <2>7, <1>3 DEF Ind
    <3> QED BY <3>1, <2>1, <2>2, <2>3, <2>4, <2>5, <2>7
  <2> QED BY <2>6, <2>7
<1>5. Counted(v, s, st, m)  BY <1>2, <1>3, <1>4 DEF Counted
<1>6. Lives(v, s, l)
  <2>1. \A c \in LiveIn(w) : c \in Conns  BY <1>1, WorldIs DEF LiveIn
  <2> QED BY <2>1, <1>2, <1>3, <1>4 DEF Lives
<1>7. Calls(v, s, l, st)
  <2>1. ASSUME NEW t \in Threads, NEW i \in DOMAIN st[t], CallGood(t, st[t][i], w, s, l)
        PROVE  CallGood(t, st[t][i], v, s, l)
    <3>1. st[t][i].at \notin Walking  BY <1>1, <1>2, NobodyWalks
    <3> QED BY <3>1, <2>1, <1>3, CallDrains
  <2> QED BY <2>1, <1>1, <1>2, CallsStay
<1> QED BY <1>2, <1>3, <1>5, <1>6, <1>7 DEF Held, Safe

(* The counts follow the calls and the posts. *)
Keeps(w, v, st, st2, m, m2) ==
    /\ \A c \in Conns : v.node[c].refs =
            w.node[c].refs + (Cardinality(InSlot(st2, c)) - Cardinality(InSlot(st, c)))
                           + (Cardinality(PostedIn(m2, c)) - Cardinality(PostedIn(m, c)))
    /\ v.lists.ref = w.lists.ref + (Cardinality(OnWalk(st2)) - Cardinality(OnWalk(st)))

LEMMA CountedMoves ==
  ASSUME NEW w, NEW s, NEW l, NEW st, NEW m, Held(w, s, l, st, m),
         NEW v, Alike(w, v), NEW st2, NEW m2 \in MailTypes, Keeps(w, v, st, st2, m, m2)
  PROVE  Counted(v, s, st2, m2)
<1>1. st \in Stacks /\ w \in Worlds /\ m \in MailTypes /\ Counted(w, s, st, m)
  BY HeldIs DEF Held
<1>2. ASSUME NEW c \in Conns
      PROVE  v.node[c].refs =
                 (IF v.node[c].rcv # None THEN 2 ELSE 0) + (IF c \in v.lists.orphans THEN 1 ELSE 0)
                 + Cardinality(InSlot(st2, c)) + Cardinality(PostedIn(m2, c))
  <2>1. /\ Cardinality(InSlot(st, c)) \in Nat /\ Cardinality(PostedIn(m, c)) \in Nat
        /\ Cardinality(InSlot(st2, c)) \in Nat /\ Cardinality(PostedIn(m2, c)) \in Nat
    BY <1>1, CountsFinite, PostedFinite
  <2>2. w.node[c].refs =
          (IF w.node[c].rcv # None THEN 2 ELSE 0) + (IF c \in w.lists.orphans THEN 1 ELSE 0)
          + Cardinality(InSlot(st, c)) + Cardinality(PostedIn(m, c))
    BY <1>1 DEF Counted
  <2>3. v.node[c].rcv = w.node[c].rcv /\ v.lists.orphans = w.lists.orphans  BY DEF Alike
  <2>4. v.node[c].refs =
            w.node[c].refs + (Cardinality(InSlot(st2, c)) - Cardinality(InSlot(st, c)))
                           + (Cardinality(PostedIn(m2, c)) - Cardinality(PostedIn(m, c)))
    BY DEF Keeps
  <2> QED BY <2>1, <2>2, <2>3, <2>4
<1>3. v.lists.ref = (IF s THEN 1 ELSE 0) + Cardinality(OnWalk(st2))
  <2>1. Cardinality(OnWalk(st)) \in Nat /\ Cardinality(OnWalk(st2)) \in Nat
    BY CountsFinite
  <2>2. w.lists.ref = (IF s THEN 1 ELSE 0) + Cardinality(OnWalk(st))  BY <1>1 DEF Counted
  <2>3. v.lists.ref = w.lists.ref + (Cardinality(OnWalk(st2)) - Cardinality(OnWalk(st)))
    BY DEF Keeps
  <2> QED BY <2>1, <2>2, <2>3
<1> QED BY <1>2, <1>3 DEF Counted

(* The reference of c that a call has or a post. *)
Steps(w, v, f, g, m, m2, c) ==
    /\ v.node[c].refs = w.node[c].refs
            - Ind(f.at = "slot" /\ f.conn = c) + Ind(g.at = "slot" /\ g.conn = c)
            + (Cardinality(PostedIn(m2, c)) - Cardinality(PostedIn(m, c)))
    /\ w.node[c].refs = 0 => v.node[c].refs = 0

LEMMA HeldGoes ==
  ASSUME NEW w, NEW s, NEW l, NEW st, NEW m, Held(w, s, l, st, m),
         NEW t \in Threads, st[t] # <<>>, NEW f, f = Inner(st, t),
         NEW g \in Frame, CallGood(t, g, w, s, l), NEW st2, st2 = Gone(st, t, g),
         NEW v, Alike(w, v), v.lists.cur = w.lists.cur, NEW m2 \in MailTypes,
         \A c \in Conns : Steps(w, v, f, g, m, m2, c),
         v.lists.ref = w.lists.ref - Ind(f.at \in Walking) + Ind(g.at \in Walking),
         ~s => v.lists.ref <= 1
  PROVE  Held(v, s, l, st2, m2)
<1>1. st \in Stacks /\ w \in Worlds /\ m \in MailTypes /\ Calls(w, s, l, st)
      /\ \A c \in Conns : w.node[c].refs \in Nat
  BY HeldIs DEF Held
<1>2. st2 \in Stacks /\ Calls(w, s, l, st2)  BY <1>1, CallsGo, GoneIs
<1>3. /\ \A c : Cardinality(InSlot(st2, c)) = Cardinality(InSlot(st, c))
                - Ind(f.at = "slot" /\ f.conn = c) + Ind(g.at = "slot" /\ g.conn = c)
      /\ Cardinality(OnWalk(st2)) =
                Cardinality(OnWalk(st)) - Ind(f.at \in Walking) + Ind(g.at \in Walking)
  BY <1>1, GoneCounts DEF Inner
<1>4. Counted(v, s, st2, m2)
  <2>1. ASSUME NEW c \in Conns
        PROVE  v.node[c].refs =
            w.node[c].refs + (Cardinality(InSlot(st2, c)) - Cardinality(InSlot(st, c)))
                           + (Cardinality(PostedIn(m2, c)) - Cardinality(PostedIn(m, c)))
    <3>1. /\ Cardinality(InSlot(st, c)) \in Nat /\ Cardinality(InSlot(st2, c)) \in Nat
          /\ Cardinality(PostedIn(m, c)) \in Nat /\ Cardinality(PostedIn(m2, c)) \in Nat
          /\ Ind(f.at = "slot" /\ f.conn = c) \in Nat /\ Ind(g.at = "slot" /\ g.conn = c) \in Nat
      BY <1>1, CountsFinite, PostedFinite DEF Ind
    <3>2. Cardinality(InSlot(st2, c)) = Cardinality(InSlot(st, c))
                - Ind(f.at = "slot" /\ f.conn = c) + Ind(g.at = "slot" /\ g.conn = c)
      BY <1>3
    <3>3. w.node[c].refs \in Nat  BY <1>1
    <3>4. v.node[c].refs = w.node[c].refs
                    - Ind(f.at = "slot" /\ f.conn = c) + Ind(g.at = "slot" /\ g.conn = c)
                    + (Cardinality(PostedIn(m2, c)) - Cardinality(PostedIn(m, c)))
      BY DEF Steps
    <3> QED BY <3>1, <3>2, <3>3, <3>4
  <2>2. v.lists.ref = w.lists.ref + (Cardinality(OnWalk(st2)) - Cardinality(OnWalk(st)))
    <3>1. /\ Cardinality(OnWalk(st)) \in Nat /\ Cardinality(OnWalk(st2)) \in Nat
          /\ Ind(f.at \in Walking) \in Nat /\ Ind(g.at \in Walking) \in Nat
          /\ w.lists.ref \in Int
      BY <1>1, CountsFinite, WorldIs DEF Ind
    <3> QED BY <3>1, <1>3
  <2>3. Keeps(w, v, st, st2, m, m2)  BY <2>1, <2>2 DEF Keeps
  <2> QED BY <2>3, CountedMoves
<1>5. \A c \in Conns : w.node[c].refs = 0 => v.node[c].refs = 0  BY DEF Steps
<1> QED BY <1>2, <1>4, <1>5, HeldAlike

LEMMA HeldPops ==
  ASSUME NEW w, NEW s, NEW l, NEW st, NEW m, Held(w, s, l, st, m),
         NEW t \in Threads, st[t] # <<>>, NEW f, f = Inner(st, t), f.at # "slot",
         NEW st2, st2 = Popped(st, t),
         NEW v, Alike(w, v), v.lists.cur = w.lists.cur,
         \A c \in Conns : v.node[c].refs = w.node[c].refs,
         v.lists.ref = w.lists.ref - Ind(f.at \in Walking), ~s => v.lists.ref <= 1
  PROVE  Held(v, s, l, st2, m)
<1>1. st \in Stacks /\ w \in Worlds /\ m \in MailTypes /\ Calls(w, s, l, st)
      /\ \A c \in Conns : w.node[c].refs \in Nat
  BY HeldIs DEF Held
<1>2. st2 \in Stacks /\ Calls(w, s, l, st2)  BY <1>1, CallsPop, PoppedIs
<1>3. /\ \A c : Cardinality(InSlot(st2, c)) =
                Cardinality(InSlot(st, c)) - Ind(f.at = "slot" /\ f.conn = c)
      /\ Cardinality(OnWalk(st2)) = Cardinality(OnWalk(st)) - Ind(f.at \in Walking)
  BY <1>1, PoppedCounts DEF Inner
<1>4. Counted(v, s, st2, m)
  <2>1. ASSUME NEW c \in Conns
        PROVE  v.node[c].refs =
            w.node[c].refs + (Cardinality(InSlot(st2, c)) - Cardinality(InSlot(st, c)))
                           + (Cardinality(PostedIn(m, c)) - Cardinality(PostedIn(m, c)))
    <3>1. /\ Cardinality(InSlot(st, c)) \in Nat /\ Cardinality(InSlot(st2, c)) \in Nat
          /\ Cardinality(PostedIn(m, c)) \in Nat
      BY <1>1, CountsFinite, PostedFinite
    <3>2. Ind(f.at = "slot" /\ f.conn = c) = 0  BY DEF Ind
    <3>3. Cardinality(InSlot(st2, c)) = Cardinality(InSlot(st, c))  BY <3>1, <3>2, <1>3
    <3>4. w.node[c].refs \in Nat  BY <1>1
    <3> QED BY <3>1, <3>3, <3>4
  <2>2. v.lists.ref = w.lists.ref + (Cardinality(OnWalk(st2)) - Cardinality(OnWalk(st)))
    <3>1. /\ Cardinality(OnWalk(st)) \in Nat /\ Cardinality(OnWalk(st2)) \in Nat
          /\ Ind(f.at \in Walking) \in Nat /\ w.lists.ref \in Int
      BY <1>1, CountsFinite, WorldIs DEF Ind
    <3> QED BY <3>1, <1>3
  <2>3. Keeps(w, v, st, st2, m, m)  BY <2>1, <2>2 DEF Keeps
  <2> QED BY <1>1, <2>3, CountedMoves
<1> QED BY <1>1, <1>2, <1>4, HeldAlike

LEMMA HeldPushes ==
  ASSUME NEW w, NEW s, NEW l, NEW st, NEW m, Held(w, s, l, st, m),
         NEW t \in Threads, st[t] # <<>> => Inner(st, t).at = "slot", Len(st[t]) < MaxDepth,
         NEW g \in Frame, g.at # "slot", CallGood(t, g, w, s, l), NEW st2, st2 = Pushed(st, t, g),
         NEW v, Alike(w, v), v.lists.cur = w.lists.cur,
         \A c \in Conns : v.node[c].refs = w.node[c].refs,
         v.lists.ref = w.lists.ref + Ind(g.at \in Walking), s
  PROVE  Held(v, s, l, st2, m)
<1>1. st \in Stacks /\ w \in Worlds /\ m \in MailTypes /\ Calls(w, s, l, st)
      /\ \A c \in Conns : w.node[c].refs \in Nat
  BY HeldIs DEF Held
<1>2. st2 \in Stacks /\ Calls(w, s, l, st2)  BY <1>1, CallsPush, PushedIs
<1>3. /\ \A c : Cardinality(InSlot(st2, c)) =
                Cardinality(InSlot(st, c)) + Ind(g.at = "slot" /\ g.conn = c)
      /\ Cardinality(OnWalk(st2)) = Cardinality(OnWalk(st)) + Ind(g.at \in Walking)
  BY <1>1, PushedCounts
<1>4. Counted(v, s, st2, m)
  <2>1. ASSUME NEW c \in Conns
        PROVE  v.node[c].refs =
            w.node[c].refs + (Cardinality(InSlot(st2, c)) - Cardinality(InSlot(st, c)))
                           + (Cardinality(PostedIn(m, c)) - Cardinality(PostedIn(m, c)))
    <3>1. /\ Cardinality(InSlot(st, c)) \in Nat /\ Cardinality(InSlot(st2, c)) \in Nat
          /\ Cardinality(PostedIn(m, c)) \in Nat
      BY <1>1, CountsFinite, PostedFinite
    <3>2. Ind(g.at = "slot" /\ g.conn = c) = 0  BY DEF Ind
    <3>3. Cardinality(InSlot(st2, c)) = Cardinality(InSlot(st, c))  BY <3>1, <3>2, <1>3
    <3>4. w.node[c].refs \in Nat  BY <1>1
    <3> QED BY <3>1, <3>3, <3>4
  <2>2. v.lists.ref = w.lists.ref + (Cardinality(OnWalk(st2)) - Cardinality(OnWalk(st)))
    <3>1. /\ Cardinality(OnWalk(st)) \in Nat /\ Cardinality(OnWalk(st2)) \in Nat
          /\ Ind(g.at \in Walking) \in Nat /\ w.lists.ref \in Int
      BY <1>1, CountsFinite, WorldIs DEF Ind
    <3> QED BY <3>1, <1>3
  <2>3. Keeps(w, v, st, st2, m, m)  BY <2>1, <2>2 DEF Keeps
  <2> QED BY <1>1, <2>3, CountedMoves
<1> QED BY <1>1, <1>2, <1>4, HeldAlike
------------------------------------------------------------------------------
(* The changes of a frame, and of one count.                                   *)

Strides == [at : {"check", "post", "slot", "next", "end", "lock"}, conn : Conns,
            high : Conns, called : SUBSET Conns, rcv : Receivers \cup {None}]

Turned(f, p) == [f EXCEPT !.at = p]
TurnedTo(f, p, r) == [f EXCEPT !.at = p, !.rcv = r]
TurnedCalled(f, p) == [f EXCEPT !.at = p, !.called = @ \cup {f.conn}]
TurnedOn(f, p, c) == [f EXCEPT !.at = p, !.conn = c]

LEMMA FrameChanges ==
  ASSUME NEW f \in Frame, f.at # "disconnect",
         NEW p \in {"check", "post", "slot", "next", "end", "lock"}
  PROVE  /\ \A g : g = Turned(f, p) =>
              /\ g \in Frame /\ g.at = p /\ g.conn = f.conn /\ g.high = f.high
              /\ g.called = f.called /\ g.rcv = f.rcv
         /\ \A r \in Receivers : \A g : g = TurnedTo(f, p, r) =>
              /\ g \in Frame /\ g.at = p /\ g.conn = f.conn /\ g.high = f.high
              /\ g.called = f.called /\ g.rcv = r
         /\ \A g : g = TurnedCalled(f, p) =>
              /\ g \in Frame /\ g.at = p /\ g.conn = f.conn /\ g.high = f.high
              /\ g.called = f.called \cup {f.conn} /\ g.rcv = f.rcv
         /\ \A c \in Conns : \A g : g = TurnedOn(f, p, c) =>
              /\ g \in Frame /\ g.at = p /\ g.conn = c /\ g.high = f.high
              /\ g.called = f.called /\ g.rcv = f.rcv
<1> DEFINE h == [f EXCEPT !.at = p]
<1>1. f \in Strides  BY DEF Frame, Strides
<1>2. /\ h \in Strides /\ h.at = p /\ h.conn = f.conn /\ h.high = f.high
      /\ h.called = f.called /\ h.rcv = f.rcv
  BY <1>1 DEF Strides
<1>3. Strides \subseteq Frame  BY DEF Strides, Frame
<1>4. ASSUME NEW r \in Receivers, NEW g, g = TurnedTo(f, p, r)
      PROVE  /\ g \in Strides /\ g.at = p /\ g.conn = f.conn /\ g.high = f.high
             /\ g.called = f.called /\ g.rcv = r
  <2>1. g = [h EXCEPT !.rcv = r]  BY <1>4 DEF TurnedTo
  <2> HIDE DEF h
  <2> QED BY <2>1, <1>2 DEF Strides
<1>5. ASSUME NEW g, g = TurnedCalled(f, p)
      PROVE  /\ g \in Strides /\ g.at = p /\ g.conn = f.conn /\ g.high = f.high
             /\ g.called = f.called \cup {f.conn} /\ g.rcv = f.rcv
  <2> DEFINE a == f.called \cup {f.conn}
  <2>1. g = [h EXCEPT !.called = a]  BY <1>5 DEF TurnedCalled
  <2>2. a \in SUBSET Conns  BY <1>1 DEF Strides
  <2> SUFFICES /\ g \in Strides /\ g.at = p /\ g.conn = f.conn /\ g.high = f.high
               /\ g.called = a /\ g.rcv = f.rcv
    OBVIOUS
  <2> HIDE DEF h, a
  <2> QED BY <2>1, <2>2, <1>2 DEF Strides
<1>6. ASSUME NEW c \in Conns, NEW g, g = TurnedOn(f, p, c)
      PROVE  /\ g \in Strides /\ g.at = p /\ g.conn = c /\ g.high = f.high
             /\ g.called = f.called /\ g.rcv = f.rcv
  <2>1. g = [h EXCEPT !.conn = c]  BY <1>6 DEF TurnedOn
  <2> HIDE DEF h
  <2> QED BY <2>1, <1>2 DEF Strides
<1>7. h = Turned(f, p)  BY DEF Turned
<1> HIDE DEF h
<1> QED BY <1>2, <1>3, <1>4, <1>5, <1>6, <1>7

LEMMA FrameLedOn ==
  ASSUME NEW f \in Frame, f.at # "disconnect", NEW c \in Conns,
         NEW g, g = TurnedOn(f, "check", c)
  PROVE  /\ g \in Frame /\ g.at = "check" /\ g.conn = c /\ g.high = f.high
         /\ g.called = f.called /\ g.rcv = f.rcv
<1>1. \A d \in Conns : \A h : h = TurnedOn(f, "check", d) =>
              /\ h \in Frame /\ h.at = "check" /\ h.conn = d /\ h.high = f.high
              /\ h.called = f.called /\ h.rcv = f.rcv
  BY FrameChanges
<1> QED BY <1>1

LEMMA FramePosts ==
  ASSUME NEW f \in Frame, f.at # "disconnect", NEW r \in Receivers,
         NEW g, g = TurnedTo(f, "post", r)
  PROVE  /\ g \in Frame /\ g.at = "post" /\ g.conn = f.conn /\ g.high = f.high
         /\ g.called = f.called /\ g.rcv = r
<1>1. \A d \in Receivers : \A h : h = TurnedTo(f, "post", d) =>
              /\ h \in Frame /\ h.at = "post" /\ h.conn = f.conn /\ h.high = f.high
              /\ h.called = f.called /\ h.rcv = d
  BY FrameChanges
<1> QED BY <1>1

LEMMA RefsChange ==
  ASSUME NEW w \in Worlds, NEW c \in Conns, NEW k \in Int,
         NEW v, v = [node |-> [w.node EXCEPT ![c].refs = k], lists |-> w.lists]
  PROVE  /\ Alike(w, v) /\ v.lists = w.lists /\ v.node[c].refs = k
         /\ \A x \in Conns \ {c} : v.node[x].refs = w.node[x].refs
<1> DEFINE n == [w.node EXCEPT ![c].refs = k]
<1>1. w.node \in [Conns -> LooseNode] /\ w.lists \in LooseLists  BY WorldIs
<1>2. /\ n \in [Conns -> LooseNode] /\ n[c].refs = k
      /\ \A x \in Conns : /\ n[x].next = w.node[x].next /\ n[x].prev = w.node[x].prev
                          /\ n[x].rcv = w.node[x].rcv
      /\ \A x \in Conns \ {c} : n[x].refs = w.node[x].refs
  <2>1. w.node[c] \in LooseNode  BY <1>1
  <2> DEFINE d == [w.node[c] EXCEPT !.refs = k]
  <2>2. /\ d \in LooseNode /\ d.refs = k /\ d.next = w.node[c].next /\ d.prev = w.node[c].prev
        /\ d.rcv = w.node[c].rcv
    BY <2>1 DEF LooseNode
  <2>3. n = [w.node EXCEPT ![c] = d]  OBVIOUS
  <2> HIDE DEF d, n
  <2>4. n[c] = d /\ \A x \in Conns \ {c} : n[x] = w.node[x]  BY <2>3, <1>1
  <2>5. n \in [Conns -> LooseNode]  BY <2>2, <2>3, <1>1
  <2> QED BY <2>2, <2>4, <2>5
<1> HIDE DEF n
<1>3. v = [node |-> n, lists |-> w.lists]  BY DEF n
<1>4. v.node = n /\ v.lists = w.lists /\ v \in Worlds  BY <1>1, <1>2, <1>3 DEF Worlds
<1> QED BY <1>2, <1>4 DEF Alike

(* The lists change their count. *)
LEMMA ListsChange ==
  ASSUME NEW w \in Worlds, NEW k \in Int,
         NEW v, v = [node |-> w.node, lists |-> [w.lists EXCEPT !.ref = k]]
  PROVE  /\ Alike(w, v) /\ v.node = w.node /\ v.lists.ref = k /\ v.lists.cur = w.lists.cur
         /\ v.lists.orphans = w.lists.orphans
<1> DEFINE n == [w.lists EXCEPT !.ref = k]
<1>1. w.node \in [Conns -> LooseNode] /\ w.lists \in LooseLists  BY WorldIs
<1>2. /\ n \in LooseLists /\ n.ref = k /\ n.cur = w.lists.cur /\ n.orphans = w.lists.orphans
      /\ n.first = w.lists.first /\ n.last = w.lists.last
  BY <1>1 DEF LooseLists
<1> HIDE DEF n
<1>3. v = [node |-> w.node, lists |-> n]  BY DEF n
<1>4. v.node = w.node /\ v.lists = n /\ v \in Worlds  BY <1>1, <1>2, <1>3 DEF Worlds
<1> QED BY <1>2, <1>4 DEF Alike

(* What a walk is at is kept, has references and has been given its id. *)
LEMMA WalkIs ==
  ASSUME NEW w, NEW s, NEW l, NEW st, NEW m, Held(w, s, l, st, m),
         NEW t, NEW f \in Frame, CallGood(t, f, w, s, l), f.at \in Walking
  PROVE  /\ WalkGood(f, w, s) /\ f.conn \in Conns /\ f.high \in Conns
         /\ f.conn \in Nat /\ f.high \in Nat /\ f.called \in SUBSET Conns
         /\ f.conn \in Kept(w) /\ w.node[f.conn].refs > 0
<1>1. WalkGood(f, w, s)  BY DEF CallGood
<1>2. f.conn \in Conns /\ f.high \in Conns /\ f.called \in SUBSET Conns
  BY FrameIs DEF Walking
<1>3. f.conn \in Kept(w)  BY <1>1 DEF WalkGood, OnTrack, Ahead
<1>4. w.node[f.conn].refs > 0
  <2>1. Sound(w) /\ Counted(w, s, st, m) /\ m \in MailTypes  BY HeldIs DEF Held
  <2> QED BY <2>1, <1>3, KeptCounted
<1> QED BY <1>1, <1>2, <1>3, <1>4, Constants

(* The innermost call of a thread. *)
LEMMA TopIs ==
  ASSUME NEW w, NEW s, NEW l, NEW st, NEW m, Held(w, s, l, st, m),
         NEW t \in Threads, st[t] # <<>>, NEW f, f = Inner(st, t)
  PROVE  f \in Frame /\ CallGood(t, f, w, s, l)
<1>1. st \in Stacks /\ Calls(w, s, l, st)  BY HeldIs DEF Held
<1> QED BY <1>1, InnerIs
------------------------------------------------------------------------------
(* The steps of an emission.                                                   *)

(* The walk goes on to g: the lists keep all but the references. *)
LEMMA SlotReturnsHeld ==
  ASSUME NEW w, NEW s, NEW l, NEW st, NEW m, Safe(w, s, l, st, m),
         NEW t \in Threads, st[t] # <<>>, NEW f, f = Inner(st, t), f.at = "slot",
         NEW g, g = Turned(f, "next"), NEW st2, st2 = Gone(st, t, g),
         NEW v, v = [node |-> Deref(w.node, f.conn), lists |-> w.lists]
  PROVE  Safe(v, s, l, st2, m)
<1>1. Held(w, s, l, st, m) /\ w \in Worlds /\ m \in MailTypes /\ w.lists.ref \in Nat
  BY HeldIs DEF Safe
<1>2. f \in Frame /\ CallGood(t, f, w, s, l)  BY <1>1, TopIs
<1>3. /\ WalkGood(f, w, s) /\ f.conn \in Conns /\ f.high \in Conns
      /\ f.conn \in Nat /\ f.high \in Nat /\ f.called \in SUBSET Conns
      /\ f.conn \in Kept(w) /\ w.node[f.conn].refs > 0
  BY <1>1, <1>2, WalkIs DEF Walking
<1>4. /\ g \in Frame /\ g.at = "next" /\ g.conn = f.conn /\ g.high = f.high
      /\ g.called = f.called /\ g.rcv = f.rcv
  BY <1>2, FrameChanges
<1>5. CallGood(t, g, w, s, l)
  BY <1>3, <1>4 DEF CallGood, WalkGood
<1>6. /\ Alike(w, v) /\ v.lists = w.lists /\ v.node[f.conn].refs = w.node[f.conn].refs - 1
      /\ \A x \in Conns \ {f.conn} : v.node[x].refs = w.node[x].refs
  <2>1. v = [node |-> [w.node EXCEPT ![f.conn].refs = w.node[f.conn].refs - 1],
             lists |-> w.lists]
    BY DEF Deref
  <2>2. w.node[f.conn].refs - 1 \in Int  BY <1>1, <1>3, WorldIs
  <2> QED BY <2>1, <2>2, <1>1, <1>3, RefsChange
<1>7. ASSUME NEW c \in Conns PROVE Steps(w, v, f, g, m, m, c)
  <2>1. w.node[c].refs \in Int /\ Cardinality(PostedIn(m, c)) \in Nat
    BY <1>1, WorldIs, PostedFinite
  <2>2. Ind(g.at = "slot" /\ g.conn = c) = 0  BY <1>4 DEF Ind
  <2>3. CASE c = f.conn
    <3>1. Ind(f.at = "slot" /\ f.conn = c) = 1  BY <2>3 DEF Ind
    <3> QED BY <2>1, <2>2, <2>3, <3>1, <1>3, <1>6 DEF Steps
  <2>4. CASE c # f.conn
    <3>1. Ind(f.at = "slot" /\ f.conn = c) = 0  BY <2>4 DEF Ind
    <3> QED BY <2>1, <2>2, <2>4, <3>1, <1>6 DEF Steps
  <2> QED BY <2>3, <2>4
<1>8. v.lists.ref = w.lists.ref - Ind(f.at \in Walking) + Ind(g.at \in Walking)
  <2>1. Ind(f.at \in Walking) = 1 /\ Ind(g.at \in Walking) = 1  BY <1>4 DEF Ind, Walking
  <2> QED BY <2>1, <1>1, <1>6
<1>9. ~s => v.lists.ref <= 1  BY <1>1, <1>6 DEF Held, Lives
<1>10. Held(v, s, l, st2, m)
  BY <1>1, <1>4, <1>5, <1>6, <1>7, <1>8, <1>9, HeldGoes
<1> QED BY <1>6, <1>10 DEF Safe, Alike

(* A step of the walk that changes nothing else. *)
LEMMA WalkGoesHeld ==
  ASSUME NEW w, NEW s, NEW l, NEW st, NEW m, Safe(w, s, l, st, m),
         NEW t \in Threads, st[t] # <<>>, NEW f, f = Inner(st, t), f.at # "slot",
         NEW g \in Frame, g.at # "slot", CallGood(t, g, w, s, l), NEW st2, st2 = Gone(st, t, g),
         f.at \in Walking <=> g.at \in Walking
  PROVE  Safe(w, s, l, st2, m)
<1>1. Held(w, s, l, st, m) /\ w \in Worlds /\ m \in MailTypes /\ w.lists.ref \in Nat
  BY HeldIs DEF Safe
<1>2. Alike(w, w)  BY <1>1 DEF Alike
<1>3. ASSUME NEW c \in Conns PROVE Steps(w, w, f, g, m, m, c)
  <2>1. w.node[c].refs \in Int /\ Cardinality(PostedIn(m, c)) \in Nat
    BY <1>1, WorldIs, PostedFinite
  <2>2. Ind(g.at = "slot" /\ g.conn = c) = 0 /\ Ind(f.at = "slot" /\ f.conn = c) = 0  BY DEF Ind
  <2> QED BY <2>1, <2>2 DEF Steps
<1>4. w.lists.ref = w.lists.ref - Ind(f.at \in Walking) + Ind(g.at \in Walking)
  BY <1>1 DEF Ind
<1>5. ~s => w.lists.ref <= 1  BY <1>1 DEF Held, Lives
<1>6. Held(w, s, l, st2, m)  BY <1>1, <1>2, <1>3, <1>4, <1>5, HeldGoes
<1> QED BY <1>6 DEF Safe

LEMMA CheckHeld ==
  ASSUME NEW w, NEW s, NEW l, NEW st, NEW m, Safe(w, s, l, st, m),
         NEW t \in Threads, st[t] # <<>>, NEW f, f = Inner(st, t), f.at = "check",
         NEW st2
  PROVE  /\ \A g : /\ w.lists.cur = 0 \/ f.conn > f.high
                   /\ g = Turned(f, "end") /\ st2 = Gone(st, t, g)
                   => Safe(w, s, l, st2, m)
         /\ \A g : /\ w.node[f.conn].rcv = None
                   /\ g = Turned(f, "next") /\ st2 = Gone(st, t, g)
                   => Safe(w, s, l, st2, m)
         /\ \A g : /\ ~(w.lists.cur = 0 \/ f.conn > f.high) /\ w.node[f.conn].rcv # None
                   /\ g = TurnedTo(f, "post", w.node[f.conn].rcv)
                   /\ st2 = Gone(st, t, g)
                   => Safe(w, s, l, st2, m)
<1>1. Held(w, s, l, st, m) /\ w \in Worlds /\ m \in MailTypes /\ w.lists.ref \in Nat
  BY HeldIs DEF Safe
<1>2. f \in Frame /\ CallGood(t, f, w, s, l)  BY <1>1, TopIs
<1>3. /\ WalkGood(f, w, s) /\ f.conn \in Conns /\ f.high \in Conns
      /\ f.conn \in Nat /\ f.high \in Nat /\ f.called \in SUBSET Conns
      /\ f.conn \in Kept(w) /\ w.node[f.conn].refs > 0
  BY <1>1, <1>2, WalkIs DEF Walking
<1>4. s => \A c \in LiveIn(w) : c <= f.high => c \in f.called \/ f.conn <= c
  BY <1>3 DEF WalkGood
<1>5. \A c \in LiveIn(w) : c \in Nat  BY Constants DEF LiveIn
<1>6. w.lists.cur \in Nat  BY <1>1, WorldIs, Constants
<1>7. ASSUME NEW g, w.lists.cur = 0 \/ f.conn > f.high,
             g = Turned(f, "end"), st2 = Gone(st, t, g)
      PROVE  Safe(w, s, l, st2, m)
  <2>1. /\ g \in Frame /\ g.at = "end" /\ g.conn = f.conn /\ g.high = f.high
        /\ g.called = f.called /\ g.rcv = f.rcv
    BY <1>2, <1>7, FrameChanges
  <2>2. ASSUME s, NEW c \in LiveIn(w), c <= f.high PROVE c \in f.called
    <3>1. f.high <= w.lists.cur /\ f.high # 0  BY <2>2, <1>3, Constants DEF WalkGood
    <3>2. f.conn > f.high  BY <3>1, <1>3, <1>6, <1>7
    <3> QED BY <3>2, <2>2, <1>3, <1>4, <1>5
  <2>3. CallGood(t, g, w, s, l)  BY <2>1, <2>2, <1>3 DEF CallGood, WalkGood
  <2> QED BY <2>1, <2>3, <1>7, WalkGoesHeld DEF Walking
<1>8. ASSUME NEW g, w.node[f.conn].rcv = None,
             g = Turned(f, "next"), st2 = Gone(st, t, g)
      PROVE  Safe(w, s, l, st2, m)
  <2>1. /\ g \in Frame /\ g.at = "next" /\ g.conn = f.conn /\ g.high = f.high
        /\ g.called = f.called /\ g.rcv = f.rcv
    BY <1>2, <1>8, FrameChanges
  <2>2. ASSUME s, NEW c \in LiveIn(w), c <= f.high PROVE c \in f.called \/ f.conn < c
    <3>1. c # f.conn  BY <1>8 DEF LiveIn
    <3> QED BY <3>1, <2>2, <1>3, <1>4, <1>5
  <2>3. CallGood(t, g, w, s, l)  BY <2>1, <2>2, <1>3 DEF CallGood, WalkGood
  <2> QED BY <2>1, <2>3, <1>8, WalkGoesHeld DEF Walking
<1>9. ASSUME NEW g, ~(w.lists.cur = 0 \/ f.conn > f.high), w.node[f.conn].rcv # None,
             g = TurnedTo(f, "post", w.node[f.conn].rcv), st2 = Gone(st, t, g)
      PROVE  Safe(w, s, l, st2, m)
  <2>0. f.conn \in LiveIn(w) /\ w.node[f.conn].rcv \in l /\ w.node[f.conn].rcv \in Receivers
    <3>1. f.conn \in LiveIn(w)  BY <1>3, <1>9 DEF LiveIn
    <3> QED BY <3>1, <1>1, <1>3, <1>9, WorldIs DEF Held, Lives
  <2>1. /\ g \in Frame /\ g.at = "post" /\ g.conn = f.conn /\ g.high = f.high
        /\ g.called = f.called /\ g.rcv = w.node[f.conn].rcv
    <3> DEFINE r == w.node[f.conn].rcv
    <3>1. r \in Receivers /\ g = TurnedTo(f, "post", r)  BY <2>0, <1>9
    <3> HIDE DEF r
    <3>2. /\ g \in Frame /\ g.at = "post" /\ g.conn = f.conn /\ g.high = f.high
          /\ g.called = f.called /\ g.rcv = r
      BY <3>1, <1>2, FramePosts
    <3> QED BY <3>2 DEF r
  <2>2. f.conn <= f.high  BY <1>3, <1>9
  <2>3. CallGood(t, g, w, s, l)  BY <2>0, <2>1, <2>2, <1>3, <1>4 DEF CallGood, WalkGood
  <2> QED BY <2>1, <2>3, <1>9, WalkGoesHeld DEF Walking
<1> QED BY <1>7, <1>8, <1>9

(* A slot is called, or posted to: the connection is held meanwhile. *)
LEMMA RefTaken ==
  ASSUME NEW w, NEW s, NEW l, NEW st, NEW m, Safe(w, s, l, st, m),
         NEW f \in Frame, NEW t, CallGood(t, f, w, s, l), f.at \in Walking,
         NEW v, v = [node |-> Ref(w.node, f.conn), lists |-> w.lists]
  PROVE  /\ Alike(w, v) /\ v.lists = w.lists /\ v.node[f.conn].refs = w.node[f.conn].refs + 1
         /\ \A x \in Conns \ {f.conn} : v.node[x].refs = w.node[x].refs
<1>1. Held(w, s, l, st, m) /\ w \in Worlds  BY HeldIs DEF Safe
<1>2. f.conn \in Conns  BY <1>1, WalkIs
<1>3. v = [node |-> [w.node EXCEPT ![f.conn].refs = w.node[f.conn].refs + 1], lists |-> w.lists]
  BY DEF Ref
<1>4. w.node[f.conn].refs + 1 \in Int  BY <1>1, <1>2, WorldIs
<1> QED BY <1>1, <1>2, <1>3, <1>4, RefsChange

LEMMA CheckCallsHeld ==
  ASSUME NEW w, NEW s, NEW l, NEW st, NEW m, Safe(w, s, l, st, m),
         NEW t \in Threads, st[t] # <<>>, NEW f, f = Inner(st, t), f.at = "check",
         ~(w.lists.cur = 0 \/ f.conn > f.high),
         NEW g, g = TurnedCalled(f, "slot"), NEW st2, st2 = Gone(st, t, g),
         NEW v, v = [node |-> Ref(w.node, f.conn), lists |-> w.lists]
  PROVE  Safe(v, s, l, st2, m)
<1>1. Held(w, s, l, st, m) /\ w \in Worlds /\ m \in MailTypes /\ w.lists.ref \in Nat
  BY HeldIs DEF Safe
<1>2. f \in Frame /\ CallGood(t, f, w, s, l)  BY <1>1, TopIs
<1>3. /\ WalkGood(f, w, s) /\ f.conn \in Conns /\ f.high \in Conns
      /\ f.conn \in Nat /\ f.high \in Nat /\ f.called \in SUBSET Conns
      /\ f.conn \in Kept(w) /\ w.node[f.conn].refs > 0
  BY <1>1, <1>2, WalkIs DEF Walking
<1>4. /\ g \in Frame /\ g.at = "slot" /\ g.conn = f.conn /\ g.high = f.high
      /\ g.called = f.called \cup {f.conn} /\ g.rcv = f.rcv
  BY <1>2, FrameChanges
<1>5. CallGood(t, g, w, s, l)
  <2>1. s => \A c \in LiveIn(w) : c <= f.high => c \in f.called \/ f.conn <= c
    BY <1>3 DEF WalkGood
  <2>2. \A c \in LiveIn(w) : c \in Nat  BY Constants DEF LiveIn
  <2>3. s => \A c \in LiveIn(w) : c <= f.high => c \in f.called \cup {f.conn} \/ f.conn < c
    BY <2>1, <2>2, <1>3
  <2>4. f.conn <= f.high /\ f.conn \in 1..f.high
    <3>1. f.conn # 0  BY <1>3, Constants
    <3> QED BY <3>1, <1>3
  <2> QED BY <2>3, <2>4, <1>3, <1>4 DEF CallGood, WalkGood
<1>6. /\ Alike(w, v) /\ v.lists = w.lists /\ v.node[f.conn].refs = w.node[f.conn].refs + 1
      /\ \A x \in Conns \ {f.conn} : v.node[x].refs = w.node[x].refs
  BY <1>2, RefTaken DEF Walking
<1>7. ASSUME NEW c \in Conns PROVE Steps(w, v, f, g, m, m, c)
  <2>1. w.node[c].refs \in Int /\ Cardinality(PostedIn(m, c)) \in Nat
    BY <1>1, WorldIs, PostedFinite
  <2>2. Ind(f.at = "slot" /\ f.conn = c) = 0  BY DEF Ind
  <2>3. CASE c = f.conn
    <3>1. Ind(g.at = "slot" /\ g.conn = c) = 1  BY <2>3, <1>4 DEF Ind
    <3> QED BY <2>1, <2>2, <2>3, <3>1, <1>3, <1>6 DEF Steps
  <2>4. CASE c # f.conn
    <3>1. Ind(g.at = "slot" /\ g.conn = c) = 0  BY <2>4, <1>4 DEF Ind
    <3> QED BY <2>1, <2>2, <2>4, <3>1, <1>6 DEF Steps
  <2> QED BY <2>3, <2>4
<1>8. v.lists.ref = w.lists.ref - Ind(f.at \in Walking) + Ind(g.at \in Walking)
  <2>1. Ind(f.at \in Walking) = 1 /\ Ind(g.at \in Walking) = 1  BY <1>4 DEF Ind, Walking
  <2> QED BY <2>1, <1>1, <1>6
<1>9. ~s => v.lists.ref <= 1  BY <1>1, <1>6 DEF Held, Lives
<1>10. Held(v, s, l, st2, m)
  BY <1>1, <1>4, <1>5, <1>6, <1>7, <1>8, <1>9, HeldGoes
<1> QED BY <1>6, <1>10 DEF Safe, Alike

LEMMA PostHeld ==
  ASSUME NEW w, NEW s, NEW l, NEW st, NEW m, Safe(w, s, l, st, m),
         NEW t \in Threads, st[t] # <<>>, NEW f, f = Inner(st, t), f.at = "post",
         NEW g, g = TurnedCalled(f, "next"), NEW st2, st2 = Gone(st, t, g),
         NEW v, v = [node |-> Ref(w.node, f.conn), lists |-> w.lists],
         NEW m2, 
         m2 = Mailed(m, Home[f.rcv], Append(m[Home[f.rcv]], <<f.conn, f.rcv>>))
  PROVE  Safe(v, s, l, st2, m2)
<1>1. Held(w, s, l, st, m) /\ w \in Worlds /\ m \in MailTypes /\ w.lists.ref \in Nat
      /\ l \in SUBSET Receivers
  BY HeldIs DEF Safe
<1>2. f \in Frame /\ CallGood(t, f, w, s, l)  BY <1>1, TopIs
<1>3. /\ WalkGood(f, w, s) /\ f.conn \in Conns /\ f.high \in Conns
      /\ f.conn \in Nat /\ f.high \in Nat /\ f.called \in SUBSET Conns
      /\ f.conn \in Kept(w) /\ w.node[f.conn].refs > 0
  BY <1>1, <1>2, WalkIs DEF Walking
<1>4. /\ g \in Frame /\ g.at = "next" /\ g.conn = f.conn /\ g.high = f.high
      /\ g.called = f.called \cup {f.conn} /\ g.rcv = f.rcv
  BY <1>2, FrameChanges
<1>5. CallGood(t, g, w, s, l)
  <2>1. s => \A c \in LiveIn(w) : c <= f.high => c \in f.called \/ f.conn <= c
    BY <1>3 DEF WalkGood
  <2>2. \A c \in LiveIn(w) : c \in Nat  BY Constants DEF LiveIn
  <2>3. s => \A c \in LiveIn(w) : c <= f.high => c \in f.called \cup {f.conn} \/ f.conn < c
    BY <2>1, <2>2, <1>3
  <2>4. f.conn <= f.high /\ f.conn \in 1..f.high
    <3>1. f.conn # 0  BY <1>3, Constants
    <3>2. f.conn <= f.high  BY <1>3 DEF WalkGood
    <3> QED BY <3>1, <3>2, <1>3
  <2> QED BY <2>3, <2>4, <1>3, <1>4 DEF CallGood, WalkGood
<1>6. /\ Alike(w, v) /\ v.lists = w.lists /\ v.node[f.conn].refs = w.node[f.conn].refs + 1
      /\ \A x \in Conns \ {f.conn} : v.node[x].refs = w.node[x].refs
  BY <1>2, RefTaken DEF Walking
<1>7. /\ m2 \in MailTypes
      /\ \A c \in Conns : Cardinality(PostedIn(m2, c)) =
                            Cardinality(PostedIn(m, c)) + Ind(f.conn = c)
  <2> DEFINE h == Home[f.rcv]
             p == <<f.conn, f.rcv>>
             q == Append(m[h], p)
  <2>1. f.rcv \in l  BY <1>2 DEF CallGood
  <2>2. h \in Threads /\ p \in Conns \X Receivers  BY <2>1, <1>1, <1>3, ConstantsAssumption
  <2>3. m2 = Mailed(m, h, q) /\ p[1] = f.conn  OBVIOUS
  <2>4. m[h] \in Posts  BY <2>2, <1>1 DEF MailTypes
  <2> HIDE DEF p, h
  <2>5. q \in Posts /\ \A c : Cardinality(Of(q, c)) = Cardinality(Of(m[h], c)) + Ind(f.conn = c)
    BY <2>2, <2>3, <2>4, AppendCounts
  <2> HIDE DEF q
  <2>6. \A c : /\ m2 \in MailTypes
               /\ Cardinality(PostedIn(m2, c)) = Cardinality(PostedIn(m, c))
                    - Cardinality(Of(m[h], c)) + Cardinality(Of(q, c))
    BY ONLY <2>2, <2>3, <2>5, <1>1, PostedMoves
  <2>7. ASSUME NEW c \in Conns
        PROVE  Cardinality(PostedIn(m2, c)) = Cardinality(PostedIn(m, c)) + Ind(f.conn = c)
    <3>1. /\ Cardinality(PostedIn(m, c)) \in Nat /\ Cardinality(Of(m[h], c)) \in Nat
          /\ Ind(f.conn = c) \in Nat
      BY <2>4, <1>1, PostedFinite, OfFinite DEF Ind
    <3>2. Cardinality(Of(q, c)) = Cardinality(Of(m[h], c)) + Ind(f.conn = c)  BY <2>5
    <3>3. Cardinality(PostedIn(m2, c)) = Cardinality(PostedIn(m, c))
                    - Cardinality(Of(m[h], c)) + Cardinality(Of(q, c))
      BY <2>6
    <3> QED BY <3>1, <3>2, <3>3
  <2> QED BY <2>6, <2>7
<1>8. ASSUME NEW c \in Conns PROVE Steps(w, v, f, g, m, m2, c)
  <2>1. /\ w.node[c].refs \in Int /\ Cardinality(PostedIn(m, c)) \in Nat
        /\ Cardinality(PostedIn(m2, c)) = Cardinality(PostedIn(m, c)) + Ind(f.conn = c)
    BY <1>1, <1>7, WorldIs, PostedFinite
  <2>2. Ind(f.at = "slot" /\ f.conn = c) = 0  BY DEF Ind
  <2>3. Ind(g.at = "slot" /\ g.conn = c) = 0  BY <1>4 DEF Ind
  <2>4. CASE c = f.conn
    <3>1. Ind(f.conn = c) = 1  BY <2>4 DEF Ind
    <3> QED BY <2>1, <2>2, <2>3, <2>4, <3>1, <1>3, <1>6 DEF Steps
  <2>5. CASE c # f.conn
    <3>1. Ind(f.conn = c) = 0  BY <2>5 DEF Ind
    <3> QED BY <2>1, <2>2, <2>3, <2>5, <3>1, <1>6 DEF Steps
  <2> QED BY <2>4, <2>5
<1>9. v.lists.ref = w.lists.ref - Ind(f.at \in Walking) + Ind(g.at \in Walking)
  <2>1. Ind(f.at \in Walking) = 1 /\ Ind(g.at \in Walking) = 1  BY <1>4 DEF Ind, Walking
  <2> QED BY <2>1, <1>1, <1>6
<1>10. ~s => v.lists.ref <= 1  BY <1>1, <1>6 DEF Held, Lives
<1>0. t \in Threads /\ st[t] # <<>> /\ f = Inner(st, t) /\ st2 = Gone(st, t, g)
  OBVIOUS
<1>11. Held(v, s, l, st2, m2)
  BY ONLY <1>0, <1>1, <1>4, <1>5, <1>6, <1>7, <1>8, <1>9, <1>10, HeldGoes
<1> QED BY <1>6, <1>11 DEF Safe, Alike

LEMMA AdvanceHeld ==
  ASSUME NEW w, NEW s, NEW l, NEW st, NEW m, Safe(w, s, l, st, m),
         NEW t \in Threads, st[t] # <<>>, NEW f, f = Inner(st, t), f.at = "next",
         NEW n, n = w.node[f.conn].next,
         NEW g, g = (IF n = None THEN Turned(f, "end") ELSE TurnedOn(f, "check", n)),
         NEW st2, st2 = Gone(st, t, g)
  PROVE  Safe(w, s, l, st2, m)
<1>1. Held(w, s, l, st, m) /\ w \in Worlds /\ m \in MailTypes /\ w.lists.ref \in Nat
      /\ LiveIn(w) \in SUBSET Conns /\ Sound(w)
  BY HeldIs DEF Safe, Held
<1>2. f \in Frame /\ CallGood(t, f, w, s, l)  BY <1>1, TopIs
<1>3. /\ WalkGood(f, w, s) /\ f.conn \in Conns /\ f.high \in Conns
      /\ f.conn \in Nat /\ f.high \in Nat /\ f.called \in SUBSET Conns
      /\ f.conn \in Kept(w) /\ w.node[f.conn].refs > 0
  BY <1>1, <1>2, WalkIs DEF Walking
<1>4. s => \A c \in LiveIn(w) : c <= f.high => c \in f.called \/ f.conn < c
  BY <1>3 DEF WalkGood
<1>5. PICK S \in SUBSET Conns : f.conn \in S /\ Ahead(w, f.high, S)
  BY <1>3 DEF WalkGood, OnTrack
<1>6. \A c \in LiveIn(w) : c \in Nat  BY <1>1, Constants
<1>7. CASE n = None
  <2>1. g = Turned(f, "end")  BY <1>7
  <2>2. /\ g \in Frame /\ g.at = "end" /\ g.conn = f.conn /\ g.high = f.high
        /\ g.called = f.called /\ g.rcv = f.rcv
    BY <2>1, <1>2, FrameChanges
  <2>3. \A d \in LiveIn(w) : d <= f.conn \/ f.high < d  BY <1>5, <1>7 DEF Ahead
  <2>4. s => \A c \in LiveIn(w) : c <= f.high => c \in f.called  BY <2>3, <1>3, <1>4, <1>6
  <2>5. CallGood(t, g, w, s, l)  BY <2>2, <2>4, <1>3 DEF CallGood, WalkGood
  <2> QED BY <2>2, <2>5, WalkGoesHeld DEF Walking
<1>8. CASE n # None
  <2>1. n \in Conns /\ n \in S /\ n \in Nat
    <3>1. n \in S  BY <1>5, <1>8 DEF Ahead
    <3> QED BY <3>1, Constants
  <2>2. g = TurnedOn(f, "check", n)  BY <1>8
  <2>3. /\ g \in Frame /\ g.at = "check" /\ g.conn = n /\ g.high = f.high
        /\ g.called = f.called /\ g.rcv = f.rcv
    <3> HIDE DEF TurnedOn
    <3>1. f.at # "disconnect"  OBVIOUS
    <3> QED BY ONLY <3>1, <2>1, <2>2, <1>2, FrameLedOn
  <2>4. \A d \in LiveIn(w) : d <= f.conn \/ n <= d
    <3>1. CASE f.conn \in LiveIn(w)
      <4>1. Succeeds(n, f.conn, LiveIn(w))  BY <3>1, <1>1 DEF Sound, InOrder
      <4> QED BY <4>1, <1>8 DEF Succeeds
    <3>2. CASE f.conn \notin LiveIn(w)
      <4>1. f.conn \in w.lists.orphans  BY <3>2, <1>3 DEF Kept
      <4> QED BY <4>1, <1>1, <1>8 DEF Sound, OrphansLead
    <3> QED BY <3>1, <3>2
  <2>5. s => \A c \in LiveIn(w) : c <= f.high => c \in f.called \/ n <= c
    BY <2>4, <1>3, <1>4, <1>6
  <2>6. OnTrack(w, n, f.high)  BY <2>1, <1>5 DEF OnTrack
  <2>7. CallGood(t, g, w, s, l)  BY <2>3, <2>5, <2>6, <1>3 DEF CallGood, WalkGood
  <2> QED BY <2>3, <2>7, WalkGoesHeld DEF Walking
<1> QED BY <1>7, <1>8

LEMMA EmitHeld ==
  ASSUME NEW w, NEW l, NEW st, NEW m, Safe(w, TRUE, l, st, m),
         NEW t \in Threads, st[t] # <<>> => Inner(st, t).at = "slot", Len(st[t]) < MaxDepth,
         w.lists.first # None,
         NEW g, g = [at |-> "check", conn |-> w.lists.first, high |-> w.lists.cur,
                     called |-> {}, rcv |-> None],
         NEW st2, st2 = Pushed(st, t, g),
         NEW v, v = [node |-> w.node, lists |-> [w.lists EXCEPT !.ref = @ + 1]]
  PROVE  Safe(v, TRUE, l, st2, m)
<1>1. Held(w, TRUE, l, st, m) /\ w \in Worlds /\ m \in MailTypes /\ w.lists.ref \in Nat
      /\ LiveIn(w) \in SUBSET Conns /\ Sound(w) /\ Counted(w, TRUE, st, m) /\ Lives(w, TRUE, l)
  BY HeldIs DEF Safe, Held
<1>2. /\ w.lists.first \in Conns /\ w.lists.first \in LiveIn(w) /\ w.lists.cur \in 0..MaxConns
      /\ \A d \in LiveIn(w) : w.lists.first <= d
  <2>1. Succeeds(w.lists.first, 0, LiveIn(w))  BY <1>1 DEF Sound, InOrder
  <2>2. \A d \in LiveIn(w) : d \in Nat /\ ~(d <= 0)  BY <1>1, Constants DEF Conns
  <2> QED BY <2>1, <2>2, <1>1, WorldIs DEF Succeeds
<1>3. w.lists.cur \in Conns
  <2>1. w.lists.first \in Kept(w)  BY <1>2 DEF Kept
  <2>2. w.lists.first <= w.lists.cur  BY <2>1, <1>1, KeptGiven
  <2> QED BY <2>2, <1>2, Constants DEF Conns
<1>4. /\ g.at = "check" /\ g.conn = w.lists.first /\ g.high = w.lists.cur /\ g.called = {}
      /\ g \in Frame
  BY <1>2, <1>3 DEF Frame
<1>5. OnTrack(w, g.conn, g.high)
  <2>1. Ahead(w, w.lists.cur, LiveIn(w))
    <3>1. \A c \in LiveIn(w) : Succeeds(w.node[c].next, c, LiveIn(w))
      BY <1>1 DEF Sound, InOrder
    <3> QED BY <3>1 DEF Ahead, Kept, Succeeds
  <2> QED BY <2>1, <1>1, <1>2, <1>4 DEF OnTrack
<1>6. CallGood(t, g, w, TRUE, l)
  <2>1. g.high <= w.lists.cur  BY <1>4, <1>2, Constants
  <2> QED BY <2>1, <1>2, <1>4, <1>5 DEF CallGood, WalkGood
<1>7. /\ Alike(w, v) /\ v.node = w.node /\ v.lists.ref = w.lists.ref + 1
      /\ v.lists.cur = w.lists.cur /\ v.lists.orphans = w.lists.orphans
  <2>1. v = [node |-> w.node, lists |-> [w.lists EXCEPT !.ref = w.lists.ref + 1]]  OBVIOUS
  <2>2. w.lists.ref + 1 \in Int  BY <1>1
  <2> QED BY ONLY <2>1, <2>2, <1>1, ListsChange
<1>8. \A c \in Conns : v.node[c].refs = w.node[c].refs  BY <1>7
<1>9. v.lists.ref = w.lists.ref + Ind(g.at \in Walking)
  BY <1>4, <1>7 DEF Ind, Walking
<1>10. /\ t \in Threads /\ (st[t] # <<>> => Inner(st, t).at = "slot") /\ Len(st[t]) < MaxDepth
       /\ g.at # "slot" /\ st2 = Pushed(st, t, g)
  BY <1>4
<1>11. Held(v, TRUE, l, st2, m)
  BY ONLY <1>1, <1>4, <1>6, <1>7, <1>8, <1>9, <1>10, HeldPushes
<1>12. v.lists.ref # 0  BY ONLY <1>1, <1>7
<1> QED BY <1>11, <1>12 DEF Safe

(* drainOrphaned() under the lock of the sender, at the end of a call. *)
LEMMA CleansHeld ==
  ASSUME NEW w, NEW l, NEW st, NEW m, Safe(w, TRUE, l, st, m),
         NEW t \in Threads, st[t] # <<>>, NEW f, f = Inner(st, t), f.at \in {"lock", "disconnect"},
         NEW st2, st2 = Popped(st, t), NEW v, v = Cleaned(w)
  PROVE  Safe(v, TRUE, l, st2, m)
<1>1. Held(w, TRUE, l, st, m) /\ w \in Worlds /\ m \in MailTypes /\ w.lists.ref \in Nat
  BY HeldIs DEF Safe
<1>2. Alike(w, w)  BY <1>1 DEF Alike
<1>3. w.lists.ref = w.lists.ref - Ind(f.at \in Walking)  BY <1>1 DEF Ind, Walking
<1>4. Held(w, TRUE, l, st2, m)  BY <1>1, <1>2, <1>3, HeldPops
<1>5. CASE w.lists.ref = 1
  <2>1. w.lists.ref = Ind(TRUE) /\ v = Drained(w)  BY <1>5 DEF Ind, Cleaned
  <2> QED BY ONLY <2>1, <1>4, SafeDrains
<1>6. CASE w.lists.ref # 1
  <2>1. v = w  BY <1>6 DEF Cleaned
  <2> QED BY <2>1, <1>4 DEF Safe
<1> QED BY <1>5, <1>6

LEMMA EmitEndsHeld ==
  ASSUME NEW w, NEW s, NEW l, NEW st, NEW m, Safe(w, s, l, st, m),
         NEW t \in Threads, st[t] # <<>>, NEW f, f = Inner(st, t), f.at = "end",
         NEW v, v = [node |-> w.node, lists |-> [w.lists EXCEPT !.ref = @ - 1]]
  PROVE  /\ \A st2 : v.lists.ref = 0 /\ st2 = Popped(st, t) => Safe(Drained(v), s, l, st2, m)
         /\ \A st2 : v.lists.ref # 0 /\ st2 = Popped(st, t) => Safe(v, s, l, st2, m)
         /\ \A st2 : v.lists.ref # 0 /\ st2 = Gone(st, t, Turned(f, "lock")) => Safe(v, s, l, st2, m)
<1>1. /\ Held(w, s, l, st, m) /\ w \in Worlds /\ m \in MailTypes /\ w.lists.ref \in Nat
      /\ st \in Stacks /\ s \in BOOLEAN
      /\ w.lists.ref = Ind(s) + Cardinality(OnWalk(st)) /\ Ind(s) \in Nat
  BY HeldIs DEF Safe
<1>2. f \in Frame /\ CallGood(t, f, w, s, l) /\ f.at \in Walking  BY <1>1, TopIs DEF Walking
<1>3. /\ Alike(w, v) /\ v.node = w.node /\ v.lists.ref = w.lists.ref - 1
      /\ v.lists.cur = w.lists.cur /\ v.lists.orphans = w.lists.orphans
  <2>1. v = [node |-> w.node, lists |-> [w.lists EXCEPT !.ref = w.lists.ref - 1]]  OBVIOUS
  <2>2. w.lists.ref - 1 \in Int  BY <1>1
  <2> QED BY ONLY <2>1, <2>2, <1>1, ListsChange
<1>4. Cardinality(OnWalk(st)) >= 1
  <2>1. <<t, Len(st[t])>> \in OnWalk(st)
    <3>1. Len(st[t]) \in DOMAIN st[t] /\ Len(st[t]) <= MaxDepth /\ Len(st[t]) \in Nat
      BY <1>1, InnerIs, StackIs DEF Held
    <3>2. Len(st[t]) \in 1..MaxDepth
      <4>1. DOMAIN st[t] = 1..Len(st[t])  BY <1>1, StackIs
      <4> QED BY <3>1, <4>1, Constants
    <3> QED BY <3>1, <3>2, <1>2 DEF OnWalk, Places, Inner
  <2>2. Cardinality(OnWalk(st)) \in Nat /\ IsFiniteSet(OnWalk(st))  BY CountsFinite
  <2>3. Cardinality(OnWalk(st)) # 0  BY <2>1, <2>2, FS_EmptySet
  <2> QED BY <2>2, <2>3
<1>5. Cardinality(OnWalk(st)) \in Nat  BY CountsFinite
<1>6. ~s => v.lists.ref <= 1 /\ v.lists.ref = 0
  <2>1. ~s => w.lists.ref <= 1  BY <1>1 DEF Held, Lives
  <2>2. w.lists.ref \in Nat /\ v.lists.ref = w.lists.ref - 1 /\ w.lists.ref >= 1
    BY ONLY <1>1, <1>3, <1>4, <1>5
  <2>3. CASE ~s
    <3>1. w.lists.ref <= 1  BY <2>1, <2>3
    <3>2. v.lists.ref <= 1 /\ v.lists.ref = 0  BY ONLY <2>2, <3>1
    <3> QED BY <3>2
  <2> QED BY <2>3
<1>7. v.lists.ref = w.lists.ref - Ind(f.at \in Walking)
  <2>1. Ind(f.at \in Walking) = 1  BY <1>2 DEF Ind
  <2> QED BY <2>1, <1>3
<1>8. ASSUME NEW st2, st2 = Popped(st, t) PROVE Held(v, s, l, st2, m)
  <2>1. /\ t \in Threads /\ st[t] # <<>> /\ f = Inner(st, t) /\ f.at # "slot"
        /\ \A c \in Conns : v.node[c].refs = w.node[c].refs
    BY <1>3
  <2> QED BY ONLY <2>1, <1>8, <1>1, <1>3, <1>6, <1>7, HeldPops
<1>9. ASSUME NEW st2, v.lists.ref = 0, st2 = Popped(st, t)
      PROVE  Safe(Drained(v), s, l, st2, m)
  <2>1. Held(v, s, l, st2, m)  BY <1>8, <1>9
  <2>2. v.lists.ref = Ind(s)  BY <1>1, <1>3, <1>4, <1>5, <1>9
  <2> QED BY ONLY <2>1, <2>2, SafeDrains
<1>10. ASSUME NEW st2, v.lists.ref # 0, st2 = Popped(st, t) PROVE Safe(v, s, l, st2, m)
  BY <1>8, <1>10 DEF Safe
<1>11. ASSUME NEW st2, v.lists.ref # 0, st2 = Gone(st, t, Turned(f, "lock"))
       PROVE  Safe(v, s, l, st2, m)
  <2> DEFINE g == Turned(f, "lock")
  <2>1. g \in Frame /\ g.at = "lock"  BY <1>2, FrameChanges
  <2>2. st2 = Gone(st, t, g)  BY <1>11
  <2> HIDE DEF g
  <2>3. s  BY <1>1, <1>6, <1>11
  <2>4. CallGood(t, g, w, s, l)  BY <2>1, <2>3 DEF CallGood, Walking
  <2>5. ASSUME NEW c \in Conns PROVE Steps(w, v, f, g, m, m, c)
    <3>1. w.node[c].refs \in Int /\ Cardinality(PostedIn(m, c)) \in Nat
      BY <1>1, WorldIs, PostedFinite
    <3>2. Ind(f.at = "slot" /\ f.conn = c) = 0  BY DEF Ind
    <3>3. Ind(g.at = "slot" /\ g.conn = c) = 0  BY <2>1 DEF Ind
    <3> QED BY <3>1, <3>2, <3>3, <1>3 DEF Steps
  <2>6. v.lists.ref = w.lists.ref - Ind(f.at \in Walking) + Ind(g.at \in Walking)
    <3>1. Ind(g.at \in Walking) = 0 /\ Ind(f.at \in Walking) = 1
      BY <2>1, <1>2 DEF Ind, Walking
    <3> QED BY <3>1, <1>1, <1>3
  <2>7. t \in Threads /\ st[t] # <<>> /\ f = Inner(st, t)  OBVIOUS
  <2>8. Held(v, s, l, st2, m)
    BY ONLY <2>1, <2>2, <2>3, <2>4, <2>5, <2>6, <2>7, <1>1, <1>3, HeldGoes
  <2> QED BY <2>8, <1>11 DEF Safe
<1> QED BY <1>9, <1>10, <1>11
------------------------------------------------------------------------------
(* The steps that change the connections.                                      *)

LEMMA DisconnectHeld ==
  ASSUME NEW w, NEW l, NEW st, NEW m, Safe(w, TRUE, l, st, m),
         st[Owner] # <<>> => Inner(st, Owner).at = "slot", Len(st[Owner]) < MaxDepth,
         NEW r \in Receivers,
         NEW g, g = [at |-> "disconnect", conn |-> w.lists.first, rcv |-> r],
         NEW st2, st2 = Pushed(st, Owner, g)
  PROVE  Safe(w, TRUE, l, st2, m)
<1>1. Held(w, TRUE, l, st, m) /\ w \in Worlds /\ m \in MailTypes /\ w.lists.ref \in Nat
      /\ Sound(w) /\ Owner \in Threads
  BY HeldIs, ConstantsAssumption DEF Safe, Held
<1>2. w.lists.first \in Link /\ (w.lists.first # None => w.lists.first \in LiveIn(w))
  <2>1. Succeeds(w.lists.first, 0, LiveIn(w))  BY <1>1 DEF Sound, InOrder
  <2> QED BY <2>1, <1>1, WorldIs DEF Succeeds
<1>3. /\ g \in Frame /\ g.at = "disconnect" /\ g.conn = w.lists.first /\ g.at # "slot"
  BY <1>2 DEF Frame
<1>4. CallGood(Owner, g, w, TRUE, l)  BY <1>2, <1>3 DEF CallGood, Walking
<1>5. Alike(w, w)  BY <1>1 DEF Alike
<1>6. w.lists.ref = w.lists.ref + Ind(g.at \in Walking)  BY <1>1, <1>3 DEF Ind, Walking
<1>7. Held(w, TRUE, l, st2, m)
  <2>1. /\ st[Owner] # <<>> => Inner(st, Owner).at = "slot"
        /\ Len(st[Owner]) < MaxDepth /\ st2 = Pushed(st, Owner, g)
    OBVIOUS
  <2> QED BY ONLY <2>1, <1>1, <1>3, <1>4, <1>5, <1>6, HeldPushes
<1> QED BY <1>7 DEF Safe

LEMMA DisconnectNodeHeld ==
  ASSUME NEW w, NEW l, NEW st, NEW m, NEW s, Safe(w, s, l, st, m),
         NEW t \in Threads, st[t] # <<>>, NEW f, f = Inner(st, t), f.at = "disconnect",
         f.conn # None,
         NEW g, g = [f EXCEPT !.conn = w.node[f.conn].next], NEW st2, st2 = Gone(st, t, g)
  PROVE  Safe(w, s, l, st2, m) /\ Safe(Remove(w, f.conn), s, l, st2, m)
<1>1. /\ Held(w, s, l, st, m) /\ w \in Worlds /\ m \in MailTypes /\ w.lists.ref \in Nat
      /\ Sound(w) /\ LiveIn(w) \in SUBSET Conns /\ l \in SUBSET Receivers /\ st \in Stacks
      /\ Calls(w, s, l, st) /\ Lives(w, s, l)
  BY HeldIs DEF Safe, Held
<1>2. f \in Frame /\ CallGood(t, f, w, s, l)  BY <1>1, TopIs
<1>3. t = Owner /\ s /\ f.conn \in LiveIn(w) /\ f.conn \in Conns  BY <1>1, <1>2 DEF CallGood
<1> DEFINE n == w.node[f.conn].next
<1>4. n \in Link /\ n # f.conn /\ (n # None => n \in LiveIn(w))
  <2>1. Succeeds(n, f.conn, LiveIn(w))  BY <1>1, <1>3 DEF Sound, InOrder
  <2> QED BY <2>1, <1>1, <1>3, WorldIs, Constants DEF Succeeds
<1>5. g \in Frame /\ g.at = "disconnect" /\ g.conn = n
  <2>1. f \in [at : {"disconnect"}, conn : Link, rcv : Receivers]  BY <1>2 DEF Frame
  <2>2. g = [f EXCEPT !.conn = n]  OBVIOUS
  <2> HIDE DEF n
  <2> QED BY <2>1, <2>2, <1>4 DEF Frame
<1> HIDE DEF n
<1>6. CallGood(t, g, w, s, l)  BY <1>3, <1>4, <1>5 DEF CallGood, Walking
<1>7. Safe(w, s, l, st2, m)
  <2>1. /\ t \in Threads /\ st[t] # <<>> /\ f = Inner(st, t) /\ f.at # "slot" /\ g.at # "slot"
        /\ st2 = Gone(st, t, g) /\ (f.at \in Walking <=> g.at \in Walking)
        /\ Safe(w, s, l, st, m)
    BY <1>5
  <2> QED BY ONLY <2>1, <1>5, <1>6, WalkGoesHeld
<1>8. Safe(Remove(w, f.conn), s, l, st2, m)
  <2> DEFINE v == Remove(w, f.conn)
  <2>1. Removes(w, v, {f.conn})  BY <1>1, <1>3, RemovesOne
  <2> HIDE DEF v
  <2>2. \A c \in LiveIn(v) : v.node[c].rcv \in l
    <3>1. LiveIn(v) = LiveIn(w) \ {f.conn}  BY <2>1 DEF Removes
    <3>2. \A c \in LiveIn(v) : c \in Conns /\ c \in LiveIn(w) /\ v.node[c].rcv = w.node[c].rcv
      BY <3>1, <2>1, <1>1 DEF Removes
    <3> QED BY <3>2, <1>1 DEF Lives
  <2>3. Held(w, s, l, st2, m) /\ Calls(w, s, l, st2) /\ st2 \in Stacks
    BY <1>7, HeldIs DEF Safe, Held
  <2>4. st2[t][Len(st2[t])] = g /\ st2[t] # <<>>
    <3>1. Len(st2[t]) = Len(st[t]) /\ Len(st[t]) \in 1..MaxDepth /\ st2[t][Len(st[t])] = g
      BY <1>1, <1>5, GoneIs
    <3>2. Len(st2[t]) # 0  BY <3>1
    <3>3. Len(<<>>) = 0  OBVIOUS
    <3> QED BY <3>1, <3>2, <3>3
  <2>5. ASSUME NEW u \in Threads, NEW i \in DOMAIN st2[u]
        PROVE  /\ st2[u][i].at = "disconnect" /\ st2[u][i].conn # None
                    => st2[u][i].conn \notin {f.conn}
               /\ st2[u][i].at = "post" => st2[u][i].rcv \in l
    <3>1. CallGood(u, st2[u][i], w, s, l)  BY <2>3 DEF Calls
    <3>2. st2[u][i].at = "post" => st2[u][i].rcv \in l  BY <3>1 DEF CallGood
    <3>3. ASSUME st2[u][i].at = "disconnect" PROVE st2[u][i].conn = n
      <4>1. u = t  BY <3>1, <3>3, <1>3 DEF CallGood
      <4>2. i = Len(st2[t])
        <5>1. i \in 1..Len(st2[t]) /\ Len(st2[t]) \in Nat  BY <4>1, <2>3, StackIs
        <5>2. ~(i < Len(st2[t]))  BY <2>3, <3>3, <4>1 DEF Calls
        <5> QED BY <5>1, <5>2
      <4> QED BY <4>1, <4>2, <2>4, <1>5
    <3> QED BY <3>2, <3>3, <1>4
  <2>8. Clear(st2, {f.conn}, l)  BY <2>5 DEF Clear
  <2>6. Held(v, s, l, st2, m) /\ (v.lists.ref = 0 => v.lists.orphans = w.lists.orphans)
    BY ONLY <2>1, <2>2, <2>3, <2>8, <1>1, HeldRemoves
  <2>7. v.lists.ref = w.lists.ref  BY <2>1 DEF Removes
  <2> QED BY <2>6, <2>7 DEF Safe, v
<1> QED BY <1>7, <1>8

Joined(w, c, r) ==
    [node |-> [x \in Conns |->
         CASE x = c -> [next |-> None, prev |-> w.lists.last, rcv |-> r, refs |-> 2]
           [] x # c -> [w.node[x] EXCEPT !.next = IF x = w.lists.last THEN c ELSE @]],
     lists |-> [w.lists EXCEPT !.cur = c, !.last = c, !.first = IF @ = None THEN c ELSE @]]

LEMMA ConnectHeld ==
  ASSUME NEW w, NEW l, NEW st, NEW m, Safe(w, TRUE, l, st, m),
         NEW r \in l, NEW c \in Conns, c = w.lists.cur + 1,
         NEW v, v = Joined(w, c, r)
  PROVE  Safe(v, TRUE, l, st, m)
<1>1. /\ Held(w, TRUE, l, st, m) /\ w \in Worlds /\ m \in MailTypes /\ w.lists.ref \in Nat
      /\ Sound(w) /\ Kept(w) \in SUBSET Conns /\ l \in SUBSET Receivers /\ st \in Stacks
      /\ Calls(w, TRUE, l, st) /\ Lives(w, TRUE, l) /\ Counted(w, TRUE, st, m)
      /\ Typed(TRUE, l, st, m) /\ LiveIn(w) \in SUBSET Conns
  BY HeldIs DEF Safe, Held
<1>2. w.lists.cur \in Nat /\ c \in Nat /\ w.lists.cur < c /\ c \in 0..MaxConns /\ c # None
  BY <1>1, WorldIs, Constants DEF Conns
<1>3. \A x \in Kept(w) : x < c
  <2>1. \A x \in Kept(w) : x <= w.lists.cur /\ x \in Nat  BY <1>1, KeptGiven, Constants
  <2> QED BY <2>1, <1>2
<1> DEFINE last == w.lists.last
           k == [w.lists EXCEPT !.cur = c, !.last = c, !.first = IF @ = None THEN c ELSE @]
<1>4. /\ k \in LooseLists /\ k.ref = w.lists.ref /\ k.cur = c /\ k.last = c
      /\ k.orphans = w.lists.orphans
      /\ k.first = (IF w.lists.first = None THEN c ELSE w.lists.first)
  <2> DEFINE k1 == [w.lists EXCEPT !.cur = c]
             k2 == [k1 EXCEPT !.last = c]
             first == IF w.lists.first = None THEN c ELSE w.lists.first
             k3 == [k2 EXCEPT !.first = first]
  <2>1. /\ k1 \in LooseLists /\ k1.ref = w.lists.ref /\ k1.cur = c
        /\ k1.orphans = w.lists.orphans /\ k1.first = w.lists.first
    BY <1>1, <1>2, WorldIs DEF LooseLists
  <2>2. /\ k2 \in LooseLists /\ k2.ref = w.lists.ref /\ k2.cur = c /\ k2.last = c
        /\ k2.orphans = w.lists.orphans
    <3> HIDE DEF k1
    <3> QED BY <2>1 DEF LooseLists, Link
  <2>3. first \in Link  BY <1>1, WorldIs DEF Link
  <2>4. /\ k3 \in LooseLists /\ k3.ref = w.lists.ref /\ k3.cur = c /\ k3.last = c
        /\ k3.orphans = w.lists.orphans /\ k3.first = first
    <3> HIDE DEF k2, first
    <3> QED BY <2>2, <2>3 DEF LooseLists
  <2>5. k = k3  OBVIOUS
  <2> HIDE DEF k3, k
  <2> QED BY <2>4, <2>5
<1>5. /\ v.lists = k
      /\ v.node[c] = [next |-> None, prev |-> last, rcv |-> r, refs |-> 2]
      /\ \A x \in Conns \ {c} :
            v.node[x] = [w.node[x] EXCEPT !.next = IF x = last THEN c ELSE @]
      /\ v.node = [x \in Conns |-> v.node[x]]
      /\ v = [node |-> v.node, lists |-> v.lists]
  BY DEF Joined
<1> HIDE DEF k
<1>6. /\ v.node[c] \in LooseNode /\ v.node[c].next = None /\ v.node[c].prev = last
      /\ v.node[c].rcv = r /\ v.node[c].refs = 2
  <2>1. last \in Link /\ r \in Receivers /\ None \in Link  BY <1>1, WorldIs DEF Link
  <2> QED BY ONLY <2>1, <1>5 DEF LooseNode
<1>7. ASSUME NEW x \in Conns \ {c}
      PROVE  /\ v.node[x] \in LooseNode /\ v.node[x].next = (IF x = last THEN c ELSE w.node[x].next)
             /\ v.node[x].prev = w.node[x].prev /\ v.node[x].rcv = w.node[x].rcv
             /\ v.node[x].refs = w.node[x].refs
  <2> DEFINE n == IF x = last THEN c ELSE w.node[x].next
  <2>1. w.node[x] \in LooseNode /\ n \in Link  BY <1>1, WorldIs DEF Link
  <2>2. v.node[x] = [w.node[x] EXCEPT !.next = n]  BY <1>5
  <2> SUFFICES /\ v.node[x] \in LooseNode /\ v.node[x].next = n
               /\ v.node[x].prev = w.node[x].prev /\ v.node[x].rcv = w.node[x].rcv
               /\ v.node[x].refs = w.node[x].refs
    OBVIOUS
  <2> HIDE DEF n
  <2> QED BY ONLY <2>1, <2>2 DEF LooseNode
<1>8. v \in Worlds
  <2>1. \A x \in Conns : v.node[x] \in LooseNode  BY ONLY <1>6, <1>7
  <2>2. v.node \in [Conns -> LooseNode]  BY ONLY <2>1, <1>5
  <2> QED BY ONLY <2>2, <1>4, <1>5 DEF Worlds
<1>9. Appended(w, v, c)
  <2>1. r # None  BY <1>1, Constants
  <2> QED BY ONLY <2>1, <1>4, <1>5, <1>6, <1>7, <1>8 DEF Appended
<1>10. c \in Conns /\ r \in l  OBVIOUS
<1>11. /\ Sound(v) /\ LiveIn(v) = LiveIn(w) \cup {c} /\ Kept(v) = Kept(w) \cup {c}
  BY ONLY <1>1, <1>3, <1>9, <1>10, AppendedIs
<1>12. c \notin Kept(w)
  <2>1. ~(c < c)  BY <1>2
  <2> QED BY <2>1, <1>3
<1>13. w.node[c].refs = 0  BY <1>1, <1>2 DEF Lives
<1>14. Lives(v, TRUE, l)
  <2>1. \A x \in LiveIn(v) : v.node[x].rcv \in l
    <3> SUFFICES ASSUME NEW x \in LiveIn(v) PROVE v.node[x].rcv \in l  OBVIOUS
    <3>1. CASE x = c  BY ONLY <3>1, <1>6, <1>10
    <3>2. CASE x # c
      <4>1. x \in LiveIn(w) /\ x \in Conns \ {c}  BY <3>2, <1>1, <1>11
      <4> QED BY ONLY <4>1, <1>1, <1>7 DEF Lives
    <3> QED BY <3>1, <3>2
  <2>2. \A x \in Conns : v.lists.cur < x => v.node[x].refs = 0
    <3> SUFFICES ASSUME NEW x \in Conns, v.lists.cur < x PROVE v.node[x].refs = 0  OBVIOUS
    <3>1. v.lists.cur = c /\ x \in Nat  BY <1>4, <1>5, Constants
    <3>2. x # c /\ w.lists.cur < x  BY <3>1, <1>2
    <3> QED BY <3>2, <1>1, <1>7 DEF Lives
  <2> QED BY <2>1, <2>2 DEF Lives
<1>15. Calls(v, TRUE, l, st)
  <2>1. v.lists.cur = c  BY <1>4, <1>5
  <2>2. v.lists.cur \in Nat /\ w.lists.cur <= v.lists.cur  BY ONLY <2>1, <1>2
  <2>3. ASSUME NEW t \in Threads, NEW i \in DOMAIN st[t], st[t][i] \in Frame,
               CallGood(t, st[t][i], w, TRUE, l)
        PROVE  CallGood(t, st[t][i], v, TRUE, l)
    BY ONLY <2>2, <2>3, <1>1, <1>2, <1>3, <1>9, <1>10, CallAppends
  <2> QED BY ONLY <2>3, <1>1, CallsStay
<1>16. Counted(v, TRUE, st, m)
  <2>1. ASSUME NEW x \in Conns
        PROVE  v.node[x].refs =
                 (IF v.node[x].rcv # None THEN 2 ELSE 0) + (IF x \in v.lists.orphans THEN 1 ELSE 0)
                 + Cardinality(InSlot(st, x)) + Cardinality(PostedIn(m, x))
    <3>1. Cardinality(InSlot(st, x)) \in Nat /\ Cardinality(PostedIn(m, x)) \in Nat
      BY <1>1, CountsFinite, PostedFinite
    <3>2. w.node[x].refs =
            (IF w.node[x].rcv # None THEN 2 ELSE 0) + (IF x \in w.lists.orphans THEN 1 ELSE 0)
            + Cardinality(InSlot(st, x)) + Cardinality(PostedIn(m, x))
      BY <1>1 DEF Counted
    <3>3. v.lists.orphans = w.lists.orphans  BY <1>4, <1>5
    <3>4. CASE x = c
      <4>1. x \notin w.lists.orphans  BY <3>4, <1>12 DEF Kept
      <4>2. Cardinality(InSlot(st, x)) = 0 /\ Cardinality(PostedIn(m, x)) = 0
        <5>1. w.node[x].refs = 0  BY <3>4, <1>13
        <5> QED BY ONLY <5>1, <3>1, <3>2
      <4>3. v.node[x].refs = 2 /\ v.node[x].rcv # None  BY <3>4, <1>1, <1>6, Constants
      <4> QED BY ONLY <4>1, <4>2, <4>3, <3>3
    <3>5. CASE x # c
      <4>1. v.node[x].refs = w.node[x].refs /\ v.node[x].rcv = w.node[x].rcv  BY <3>5, <1>7
      <4> QED BY ONLY <4>1, <3>1, <3>2, <3>3
    <3> QED BY <3>4, <3>5
  <2>2. v.lists.ref = w.lists.ref  BY <1>4, <1>5
  <2>3. v.lists.ref = (IF TRUE THEN 1 ELSE 0) + Cardinality(OnWalk(st))
    BY <2>2, <1>1 DEF Counted
  <2> QED BY ONLY <2>1, <2>3 DEF Counted
<1>17. v.lists.ref = 0 => v.lists.orphans = {}  BY <1>4, <1>5 DEF Safe
<1> QED BY ONLY <1>1, <1>11, <1>14, <1>15, <1>16, <1>17 DEF Safe, Held

(* The thread that destroys runs the program's code, and the others no call. *)
LEMMA OnlySlots ==
  ASSUME NEW w, NEW s, NEW l, NEW st \in Stacks, Calls(w, s, l, st),
         NEW t \in Threads, st[t] # <<>> => Inner(st, t).at = "slot",
         \A u \in Threads \ {t} : st[u] = <<>>, NEW u \in Threads, NEW i \in DOMAIN st[u]
  PROVE  st[u][i].at = "slot"
<1>1. i \in 1..Len(st[u]) /\ Len(st[u]) \in Nat  BY StackIs
<1>2. st[u] # <<>>
  <2>1. Len(<<>>) = 0  OBVIOUS
  <2> QED BY <2>1, <1>1
<1>3. u = t  BY <1>2
<1>4. CASE i = Len(st[u])  BY <1>2, <1>3, <1>4 DEF Inner
<1>5. CASE i # Len(st[u])
  <2>1. i < Len(st[u])  BY <1>1, <1>5
  <2> QED BY <2>1 DEF Calls
<1> QED BY <1>4, <1>5

Unposted(u, m, t, r) ==
    [node |-> [c \in Conns |->
                  [u.node[c] EXCEPT !.refs = @ -
                                  Cardinality({i \in DOMAIN m[t] : m[t][i] = <<c, r>>})]],
     lists |-> u.lists]

LEMMA DestroyReceiverHeld ==
  ASSUME NEW w, NEW s, NEW l, NEW st, NEW m, Safe(w, s, l, st, m),
         NEW t \in Threads, st[t] # <<>> => Inner(st, t).at = "slot",
         \A u \in Threads \ {t} : st[u] = <<>>, NEW r \in l,
         NEW set, set = {c \in Conns : w.node[c].rcv = r},
         NEW u, u = RemoveAll(w, set),
         NEW v, v = Unposted(u, m, t, r), NEW m2, m2 = Mailed(m, t, Without(m[t], r))
  PROVE  Safe(v, s, l \ {r}, st, m2)
<1>1. /\ Held(w, s, l, st, m) /\ w \in Worlds /\ m \in MailTypes /\ w.lists.ref \in Nat
      /\ Sound(w) /\ LiveIn(w) \in SUBSET Conns /\ l \in SUBSET Receivers /\ st \in Stacks
      /\ Calls(w, s, l, st) /\ Lives(w, s, l)
  BY HeldIs DEF Safe, Held
<1>2. set \in SUBSET Conns /\ r \in Receivers /\ l \ {r} \in SUBSET Receivers /\ r \in l
  BY <1>1
<1>3. Removes(w, u, set)  BY ONLY <1>1, <1>2, RemovesAll, u = RemoveAll(w, set)
<1>4. ASSUME NEW a \in Threads, NEW i \in DOMAIN st[a] PROVE st[a][i].at = "slot"
  BY <1>1, OnlySlots
<1>5. Clear(st, set, l \ {r})  BY <1>4 DEF Clear
<1>6. \A c \in LiveIn(u) : u.node[c].rcv \in l \ {r}
  <2> SUFFICES ASSUME NEW c \in LiveIn(u) PROVE u.node[c].rcv \in l \ {r}  OBVIOUS
  <2>1. LiveIn(u) = LiveIn(w) \ set  BY <1>3 DEF Removes
  <2>2. c \in Conns /\ c \in LiveIn(w) /\ c \notin set  BY <2>1, <1>1
  <2>3. u.node[c].rcv = w.node[c].rcv  BY <2>2, <1>3 DEF Removes
  <2>4. w.node[c].rcv # r  BY <2>2
  <2> QED BY ONLY <2>2, <2>3, <2>4, <1>1 DEF Lives
<1>7. Held(u, s, l \ {r}, st, m) /\ (u.lists.ref = 0 => u.lists.orphans = w.lists.orphans)
  BY ONLY <1>1, <1>2, <1>3, <1>5, <1>6, HeldRemoves
<1>8. u \in Worlds /\ u.lists.ref = w.lists.ref /\ Calls(u, s, l \ {r}, st)
  BY <1>3, <1>7 DEF Removes, Sound, Held
<1> DEFINE q == m[t]
           kept == Without(q, r)
           p(c) == Cardinality({i \in DOMAIN q : q[i] = <<c, r>>})
<1>9. q \in Posts  BY <1>1 DEF MailTypes
<1>10. /\ kept \in Posts
       /\ \A c \in Conns : Cardinality(Of(kept, c)) = Cardinality(Of(q, c)) - p(c)
  BY ONLY <1>2, <1>9, WithoutCounts
<1>11. m2 = Mailed(m, t, kept)  OBVIOUS
<1>12. \A c \in Conns : p(c) \in Nat
  <2> SUFFICES ASSUME NEW c \in Conns PROVE p(c) \in Nat  OBVIOUS
  <2>1. IsFiniteSet(DOMAIN q)  BY <1>9, OfFinite
  <2>2. {i \in DOMAIN q : q[i] = <<c, r>>} \in SUBSET (DOMAIN q)  OBVIOUS
  <2> QED BY ONLY <2>1, <2>2, FS_Subset, FS_CardinalityType
<1>13. /\ v.lists = u.lists /\ v = [node |-> v.node, lists |-> v.lists]
       /\ v.node = [c \in Conns |-> [u.node[c] EXCEPT !.refs = @ - p(c)]]
  BY DEF Unposted
<1>14. t \in Threads  OBVIOUS
<1> HIDE DEF q, kept, p
<1>15. ASSUME NEW c \in Conns
       PROVE  /\ v.node[c] \in LooseNode /\ v.node[c].refs = u.node[c].refs - p(c)
              /\ v.node[c].next = u.node[c].next /\ v.node[c].prev = u.node[c].prev
              /\ v.node[c].rcv = u.node[c].rcv
  <2>1. u.node[c] \in LooseNode /\ p(c) \in Nat  BY ONLY <1>8, <1>12, <1>15, WorldIs
  <2>2. v.node[c] = [u.node[c] EXCEPT !.refs = @ - p(c)]  BY ONLY <1>13, <1>15
  <2> QED BY ONLY <2>1, <2>2 DEF LooseNode
<1>16. Alike(u, v)
  <2>1. v.node \in [Conns -> LooseNode]  BY ONLY <1>13, <1>15
  <2>2. v.lists \in LooseLists  BY ONLY <1>8, <1>13, WorldIs
  <2>3. v \in Worlds  BY ONLY <2>1, <2>2, <1>13 DEF Worlds
  <2> QED BY ONLY <2>3, <1>13, <1>15 DEF Alike
<1>17. /\ m2 \in MailTypes
       /\ \A c \in Conns : Cardinality(PostedIn(m2, c)) = Cardinality(PostedIn(m, c)) - p(c)
  <2>1. \A c : /\ m2 \in MailTypes
               /\ Cardinality(PostedIn(m2, c)) = Cardinality(PostedIn(m, c))
                    - Cardinality(Of(m[t], c)) + Cardinality(Of(kept, c))
    BY ONLY <1>1, <1>10, <1>11, <1>14, PostedMoves
  <2>2. ASSUME NEW c \in Conns
        PROVE  Cardinality(PostedIn(m2, c)) = Cardinality(PostedIn(m, c)) - p(c)
    <3>1. /\ Cardinality(PostedIn(m, c)) \in Nat /\ Cardinality(Of(q, c)) \in Nat
          /\ p(c) \in Nat
      BY ONLY <2>2, <1>1, <1>9, <1>12, PostedFinite, OfFinite
    <3>2. Cardinality(Of(kept, c)) = Cardinality(Of(q, c)) - p(c)  BY ONLY <2>2, <1>10
    <3>3. Cardinality(PostedIn(m2, c)) = Cardinality(PostedIn(m, c))
                    - Cardinality(Of(q, c)) + Cardinality(Of(kept, c))
      BY ONLY <2>1 DEF q
    <3> QED BY ONLY <3>1, <3>2, <3>3
  <2> QED BY ONLY <2>1, <2>2
<1>18. Keeps(u, v, st, st, m, m2)
  <2>1. ASSUME NEW c \in Conns
        PROVE  v.node[c].refs =
            u.node[c].refs + (Cardinality(InSlot(st, c)) - Cardinality(InSlot(st, c)))
                           + (Cardinality(PostedIn(m2, c)) - Cardinality(PostedIn(m, c)))
    <3>1. /\ Cardinality(PostedIn(m, c)) \in Nat /\ Cardinality(InSlot(st, c)) \in Nat
          /\ p(c) \in Nat /\ u.node[c].refs \in Int
      BY ONLY <2>1, <1>1, <1>8, <1>12, PostedFinite, CountsFinite, WorldIs
    <3>2. Cardinality(PostedIn(m2, c)) = Cardinality(PostedIn(m, c)) - p(c)
          /\ v.node[c].refs = u.node[c].refs - p(c)
      BY ONLY <2>1, <1>15, <1>17
    <3> QED BY ONLY <3>1, <3>2
  <2>2. v.lists.ref = u.lists.ref + (Cardinality(OnWalk(st)) - Cardinality(OnWalk(st)))
    <3>1. Cardinality(OnWalk(st)) \in Nat /\ u.lists.ref \in Nat /\ v.lists.ref = u.lists.ref
      BY ONLY <1>1, <1>8, <1>13, CountsFinite
    <3> QED BY ONLY <3>1
  <2> QED BY ONLY <2>1, <2>2 DEF Keeps
<1>19. Counted(v, s, st, m2)  BY ONLY <1>7, <1>16, <1>17, <1>18, CountedMoves
<1>20. \A c \in Conns : u.node[c].refs = 0 => v.node[c].refs = 0
  <2> SUFFICES ASSUME NEW c \in Conns, u.node[c].refs = 0 PROVE v.node[c].refs = 0  OBVIOUS
  <2>1. Counted(u, s, st, m)  BY <1>7 DEF Held
  <2>2. u.node[c].refs =
            (IF u.node[c].rcv # None THEN 2 ELSE 0) + (IF c \in u.lists.orphans THEN 1 ELSE 0)
            + Cardinality(InSlot(st, c)) + Cardinality(PostedIn(m, c))
    BY <2>1 DEF Counted
  <2>3. /\ Cardinality(PostedIn(m, c)) \in Nat /\ Cardinality(InSlot(st, c)) \in Nat
        /\ Cardinality(PostedIn(m2, c)) \in Nat /\ p(c) \in Nat
    <3>1. c \in Conns  OBVIOUS
    <3> QED BY ONLY <3>1, <1>1, <1>12, <1>17, PostedFinite, CountsFinite
  <2>4. u.node[c].refs = 0  OBVIOUS
  <2>5. Cardinality(PostedIn(m, c)) = 0  BY ONLY <2>2, <2>3, <2>4
  <2>6. Cardinality(PostedIn(m2, c)) = Cardinality(PostedIn(m, c)) - p(c)  BY <1>17
  <2>7. p(c) = 0  BY ONLY <2>3, <2>5, <2>6
  <2>8. v.node[c].refs = u.node[c].refs - p(c)  BY <1>15
  <2> QED BY ONLY <2>4, <2>7, <2>8
<1>21. ~s => v.lists.ref <= 1  BY <1>1, <1>8, <1>13 DEF Lives
<1>22. Held(v, s, l \ {r}, st, m2)
  BY ONLY <1>1, <1>7, <1>8, <1>13, <1>16, <1>17, <1>19, <1>20, <1>21, HeldAlike
<1>23. v.lists.ref = 0 => v.lists.orphans = {}
  BY <1>7, <1>8, <1>13 DEF Safe
<1> QED BY <1>22, <1>23 DEF Safe

LEMMA DeliverHeld ==
  ASSUME NEW w, NEW s, NEW l, NEW st, NEW m, Safe(w, s, l, st, m),
         NEW t \in Threads, m[t] # <<>>,
         NEW v, v = [node |-> Deref(w.node, Head(m[t])[1]), lists |-> w.lists],
         NEW m2, m2 = Mailed(m, t, Tail(m[t]))
  PROVE  Safe(v, s, l, st, m2)
<1>1. /\ Held(w, s, l, st, m) /\ w \in Worlds /\ m \in MailTypes /\ w.lists.ref \in Nat
      /\ st \in Stacks /\ Calls(w, s, l, st) /\ Lives(w, s, l) /\ Counted(w, s, st, m)
      /\ \A c \in Conns : w.node[c].refs \in Nat
  BY HeldIs DEF Safe, Held
<1> DEFINE q == m[t]
           rest == Tail(q)
           d == Head(q)[1]
<1>2. q \in Posts /\ q # <<>> /\ t \in Threads  BY <1>1 DEF MailTypes
<1>3. /\ Head(q) \in Conns \X Receivers /\ rest \in Posts
      /\ \A c : /\ Cardinality(Of(q, c)) \in Nat /\ Cardinality(Of(rest, c)) \in Nat
                /\ Cardinality(Of(rest, c)) = Cardinality(Of(q, c)) - Ind(d = c)
  BY ONLY <1>2, TailCounts
<1>4. d \in Conns  BY <1>3
<1>5. m2 = Mailed(m, t, rest)  OBVIOUS
<1>6. v = [node |-> [w.node EXCEPT ![d].refs = w.node[d].refs - 1], lists |-> w.lists]
  BY DEF Deref
<1> HIDE DEF q, rest, d
<1>7. /\ Alike(w, v) /\ v.lists = w.lists /\ v.node[d].refs = w.node[d].refs - 1
      /\ \A x \in Conns \ {d} : v.node[x].refs = w.node[x].refs
  <2>1. w.node[d].refs - 1 \in Int  BY ONLY <1>1, <1>4
  <2> QED BY ONLY <2>1, <1>1, <1>4, <1>6, RefsChange
<1>8. /\ m2 \in MailTypes
      /\ \A c \in Conns : Cardinality(PostedIn(m2, c)) = Cardinality(PostedIn(m, c)) - Ind(d = c)
  <2>1. \A c : /\ m2 \in MailTypes
               /\ Cardinality(PostedIn(m2, c)) = Cardinality(PostedIn(m, c))
                    - Cardinality(Of(m[t], c)) + Cardinality(Of(rest, c))
    BY ONLY <1>1, <1>2, <1>3, <1>5, PostedMoves
  <2>2. ASSUME NEW c \in Conns
        PROVE  Cardinality(PostedIn(m2, c)) = Cardinality(PostedIn(m, c)) - Ind(d = c)
    <3>1. /\ Cardinality(PostedIn(m, c)) \in Nat /\ Cardinality(Of(q, c)) \in Nat
          /\ Ind(d = c) \in Nat
      BY ONLY <2>2, <1>1, <1>2, PostedFinite, OfFinite DEF Ind
    <3>2. Cardinality(Of(rest, c)) = Cardinality(Of(q, c)) - Ind(d = c)  BY ONLY <1>3
    <3>3. Cardinality(PostedIn(m2, c)) = Cardinality(PostedIn(m, c))
                    - Cardinality(Of(q, c)) + Cardinality(Of(rest, c))
      BY ONLY <2>1 DEF q
    <3> QED BY ONLY <3>1, <3>2, <3>3
  <2> QED BY ONLY <2>1, <2>2
<1>9. ASSUME NEW c \in Conns
      PROVE  v.node[c].refs = w.node[c].refs - Ind(d = c)
  <2>1. w.node[c].refs \in Nat  BY <1>1
  <2>2. CASE c = d
    <3>1. Ind(d = c) = 1  BY <2>2 DEF Ind
    <3> QED BY ONLY <3>1, <2>2, <1>7
  <2>3. CASE c # d
    <3>1. Ind(d = c) = 0 /\ c \in Conns \ {d}  BY <2>3 DEF Ind
    <3> QED BY ONLY <3>1, <2>1, <1>7
  <2> QED BY <2>2, <2>3
<1>10. Keeps(w, v, st, st, m, m2)
  <2>1. ASSUME NEW c \in Conns
        PROVE  v.node[c].refs =
            w.node[c].refs + (Cardinality(InSlot(st, c)) - Cardinality(InSlot(st, c)))
                           + (Cardinality(PostedIn(m2, c)) - Cardinality(PostedIn(m, c)))
    <3>1. /\ Cardinality(PostedIn(m, c)) \in Nat /\ Cardinality(InSlot(st, c)) \in Nat
          /\ Ind(d = c) \in Nat /\ w.node[c].refs \in Nat
      BY ONLY <2>1, <1>1, PostedFinite, CountsFinite DEF Ind
    <3>2. Cardinality(PostedIn(m2, c)) = Cardinality(PostedIn(m, c)) - Ind(d = c)
          /\ v.node[c].refs = w.node[c].refs - Ind(d = c)
      BY ONLY <2>1, <1>8, <1>9
    <3> QED BY ONLY <3>1, <3>2
  <2>2. v.lists.ref = w.lists.ref + (Cardinality(OnWalk(st)) - Cardinality(OnWalk(st)))
    <3>1. Cardinality(OnWalk(st)) \in Nat /\ v.lists.ref = w.lists.ref
      BY ONLY <1>7, CountsFinite
    <3> QED BY ONLY <3>1, <1>1
  <2> QED BY ONLY <2>1, <2>2 DEF Keeps
<1>11. Counted(v, s, st, m2)  BY ONLY <1>1, <1>7, <1>8, <1>10, CountedMoves
<1>12. \A c \in Conns : w.node[c].refs = 0 => v.node[c].refs = 0
  <2> SUFFICES ASSUME NEW c \in Conns, w.node[c].refs = 0 PROVE v.node[c].refs = 0  OBVIOUS
  <2>1. w.node[c].refs =
            (IF w.node[c].rcv # None THEN 2 ELSE 0) + (IF c \in w.lists.orphans THEN 1 ELSE 0)
            + Cardinality(InSlot(st, c)) + Cardinality(PostedIn(m, c))
    BY <1>1 DEF Counted
  <2>2. c \in Conns /\ w.node[c].refs = 0  OBVIOUS
  <2>3. /\ Cardinality(PostedIn(m, c)) \in Nat /\ Cardinality(InSlot(st, c)) \in Nat
        /\ Cardinality(PostedIn(m2, c)) \in Nat /\ Ind(d = c) \in Nat
    BY ONLY <2>2, <1>1, <1>8, PostedFinite, CountsFinite DEF Ind
  <2>4. Cardinality(PostedIn(m, c)) = 0  BY ONLY <2>1, <2>2, <2>3
  <2>5. Cardinality(PostedIn(m2, c)) = Cardinality(PostedIn(m, c)) - Ind(d = c)  BY <1>8
  <2>6. Ind(d = c) = 0  BY ONLY <2>3, <2>4, <2>5
  <2>7. v.node[c].refs = w.node[c].refs - Ind(d = c)  BY <1>9
  <2> QED BY ONLY <2>2, <2>6, <2>7
<1>13. ~s => v.lists.ref <= 1  BY <1>1, <1>7 DEF Lives
<1>14. Held(v, s, l, st, m2)
  BY ONLY <1>1, <1>7, <1>8, <1>11, <1>12, <1>13, HeldAlike
<1> QED BY <1>7, <1>14 DEF Safe

LEMMA SenderGone ==
  ASSUME NEW u \in Worlds,
         NEW v, v = [u EXCEPT !.lists.cur = 0, !.lists.ref = @ - 1]
  PROVE  /\ Alike(u, v) /\ v.lists.ref = u.lists.ref - 1 /\ v.node = u.node
         /\ v.lists.orphans = u.lists.orphans
<1> DEFINE k1 == [u.lists EXCEPT !.cur = 0]
           k2 == [k1 EXCEPT !.ref = u.lists.ref - 1]
<1>1. /\ u.lists \in LooseLists /\ u.lists.ref \in Int /\ 0 \in 0..MaxConns
      /\ u.node \in [Conns -> LooseNode]
  BY WorldIs, Constants
<1>2. /\ k1 \in LooseLists /\ k1.first = u.lists.first /\ k1.last = u.lists.last
      /\ k1.orphans = u.lists.orphans /\ k1.ref = u.lists.ref
  BY ONLY <1>1 DEF LooseLists
<1>3. /\ k2 \in LooseLists /\ k2.first = u.lists.first /\ k2.last = u.lists.last
      /\ k2.orphans = u.lists.orphans /\ k2.ref = u.lists.ref - 1
  <2> HIDE DEF k1
  <2> QED BY ONLY <1>1, <1>2 DEF LooseLists
<1>4. v = [node |-> u.node, lists |-> k2]
  <2>1. u = [node |-> u.node, lists |-> u.lists]  BY DEF Worlds
  <2> DEFINE y == [u EXCEPT !.lists.cur = 0]
  <2>2. v = [y EXCEPT !.lists.ref = y.lists.ref - 1]  OBVIOUS
  <2>3. y = [node |-> u.node, lists |-> k1]  BY <2>1
  <2> HIDE DEF y, k1
  <2>4. y.lists = k1 /\ y.node = u.node  BY ONLY <2>3
  <2>5. [y EXCEPT !.lists.ref = y.lists.ref - 1]
          = [node |-> u.node, lists |-> [k1 EXCEPT !.ref = k1.ref - 1]]
    BY ONLY <2>3, <2>4
  <2>6. k2 = [k1 EXCEPT !.ref = k1.ref - 1]  BY ONLY <1>2 DEF k2
  <2> QED BY ONLY <2>2, <2>5, <2>6
<1> HIDE DEF k2
<1>5. v.node = u.node /\ v.lists = k2 /\ v \in Worlds  BY ONLY <1>1, <1>3, <1>4 DEF Worlds
<1> QED BY ONLY <1>3, <1>5 DEF Alike

LEMMA DestroySenderHeld ==
  ASSUME NEW w, NEW l, NEW st, NEW m, Safe(w, TRUE, l, st, m), w.lists.ref <= 2,
         NEW t \in Threads, st[t] # <<>> => Inner(st, t).at = "slot",
         \A u \in Threads \ {t} : st[u] = <<>>,
         NEW u, u = RemoveAll(w, Conns),
         NEW v, v = [u EXCEPT !.lists.cur = 0, !.lists.ref = @ - 1]
  PROVE  Safe(IF v.lists.ref = 0 THEN Drained(v) ELSE v, FALSE, l, st, m)
<1>1. /\ Held(w, TRUE, l, st, m) /\ w \in Worlds /\ m \in MailTypes /\ w.lists.ref \in Nat
      /\ Sound(w) /\ LiveIn(w) \in SUBSET Conns /\ l \in SUBSET Receivers /\ st \in Stacks
      /\ Calls(w, TRUE, l, st) /\ Lives(w, TRUE, l) /\ Counted(w, TRUE, st, m)
      /\ Typed(TRUE, l, st, m)
  BY HeldIs DEF Safe, Held
<1>2. ASSUME NEW a \in Threads, NEW i \in DOMAIN st[a] PROVE st[a][i].at = "slot"
  BY <1>1, OnlySlots
<1>3. w.lists.ref <= 2 /\ u = RemoveAll(w, Conns) /\ Conns \in SUBSET Conns
      /\ v = [u EXCEPT !.lists.cur = 0, !.lists.ref = @ - 1]
  OBVIOUS
<1>4. Removes(w, u, Conns)  BY ONLY <1>1, <1>3, RemovesAll
<1>5. u \in Worlds /\ Sound(u)  BY <1>4 DEF Removes, Sound
<1>6. /\ Alike(u, v) /\ v.lists.ref = u.lists.ref - 1 /\ v.node = u.node
      /\ v.lists.orphans = u.lists.orphans
  BY ONLY <1>3, <1>5, SenderGone
<1>7. Sound(v) /\ LiveIn(v) = {}
  <2>1. Sound(v) /\ LiveIn(v) = LiveIn(u)  BY ONLY <1>5, <1>6, AlikeIs
  <2>2. LiveIn(u) = {}  BY ONLY <1>1, <1>4 DEF Removes
  <2> QED BY ONLY <2>1, <2>2
<1>8. v.lists.ref = w.lists.ref - 1 /\ v.lists.ref <= 1
  <2>1. u.lists.ref = w.lists.ref  BY ONLY <1>4 DEF Removes
  <2> QED BY ONLY <2>1, <1>1, <1>3, <1>6
<1>9. Lives(v, FALSE, l)  BY ONLY <1>7, <1>8 DEF Lives
<1>10. Calls(v, FALSE, l, st)
  <2>1. ASSUME NEW a \in Threads, NEW i \in DOMAIN st[a], st[a][i] \in Frame,
               CallGood(a, st[a][i], w, TRUE, l)
        PROVE  CallGood(a, st[a][i], v, FALSE, l)
    <3>1. st[a][i].at \notin {"disconnect", "lock"}  BY <1>2
    <3> QED BY ONLY <3>1, <2>1, <1>1, <1>4, <1>6, CallOutlives
  <2> QED BY ONLY <2>1, <1>1, CallsStay
<1>11. Counted(v, FALSE, st, m)
  <2>1. ASSUME NEW c \in Conns
        PROVE  v.node[c].refs =
                 (IF v.node[c].rcv # None THEN 2 ELSE 0) + (IF c \in v.lists.orphans THEN 1 ELSE 0)
                 + Cardinality(InSlot(st, c)) + Cardinality(PostedIn(m, c))
    <3>1. Cardinality(InSlot(st, c)) \in Nat /\ Cardinality(PostedIn(m, c)) \in Nat
          /\ w.node[c].refs \in Int
      BY <1>1, CountsFinite, PostedFinite, WorldIs
    <3>2. w.node[c].refs =
            (IF w.node[c].rcv # None THEN 2 ELSE 0) + (IF c \in w.lists.orphans THEN 1 ELSE 0)
            + Cardinality(InSlot(st, c)) + Cardinality(PostedIn(m, c))
      BY <1>1 DEF Counted
    <3>3. /\ v.node[c].rcv = None
          /\ v.node[c].refs = w.node[c].refs - (IF c \in LiveIn(w) THEN 1 ELSE 0)
          /\ v.lists.orphans = w.lists.orphans \cup LiveIn(w)
      <4>1. v.node[c] = u.node[c]  BY ONLY <1>6
      <4>2. /\ u.node[c].rcv = (IF c \in Conns THEN None ELSE w.node[c].rcv)
            /\ u.node[c].refs =
                  w.node[c].refs - (IF c \in LiveIn(w) /\ c \in Conns THEN 1 ELSE 0)
            /\ u.lists.orphans = w.lists.orphans \cup (LiveIn(w) \cap Conns)
        BY ONLY <1>4, <2>1 DEF Removes
      <4>3. LiveIn(w) \cap Conns = LiveIn(w)  BY ONLY <1>1
      <4> QED BY ONLY <4>1, <4>2, <4>3, <1>6, <2>1
    <3>4. CASE c \in LiveIn(w)
      <4>1. c \notin w.lists.orphans /\ w.node[c].rcv # None
        BY <3>4, <1>1 DEF Sound, OrphansLead, LiveIn
      <4> QED BY ONLY <4>1, <3>1, <3>2, <3>3, <3>4
    <3>5. CASE c \notin LiveIn(w)
      <4>1. w.node[c].rcv = None  BY <3>5 DEF LiveIn
      <4>2. c \in v.lists.orphans <=> c \in w.lists.orphans  BY ONLY <3>3, <3>5
      <4> QED BY ONLY <4>1, <4>2, <3>1, <3>2, <3>3, <3>5
    <3> QED BY <3>4, <3>5
  <2>2. v.lists.ref = (IF FALSE THEN 1 ELSE 0) + Cardinality(OnWalk(st))
    <3>1. w.lists.ref = (IF TRUE THEN 1 ELSE 0) + Cardinality(OnWalk(st))
      BY ONLY <1>1 DEF Counted
    <3>2. Cardinality(OnWalk(st)) \in Nat  BY CountsFinite
    <3> QED BY ONLY <3>1, <3>2, <1>8
  <2> QED BY ONLY <2>1, <2>2 DEF Counted
<1>12. Held(v, FALSE, l, st, m)
  <2>1. Typed(FALSE, l, st, m)  BY ONLY <1>1 DEF Typed
  <2> QED BY ONLY <2>1, <1>7, <1>9, <1>10, <1>11 DEF Held
<1>13. CASE v.lists.ref = 0
  <2>1. v.lists.ref = Ind(FALSE)  BY <1>13 DEF Ind
  <2>2. Safe(Drained(v), FALSE, l, st, m)  BY ONLY <2>1, <1>12, SafeDrains
  <2> QED BY ONLY <2>2, <1>13
<1>14. CASE v.lists.ref # 0
  <2>1. Safe(v, FALSE, l, st, m)  BY ONLY <1>12, <1>14 DEF Safe
  <2> QED BY ONLY <2>1, <1>14
<1> QED BY <1>13, <1>14
------------------------------------------------------------------------------
(* The invariant holds at the start and through every step.                    *)

LEMMA NowIs == Now.node = node /\ Now.lists = lists
BY DEF Now

LEMMA InitSafe == ASSUME Init PROVE SSIInv
<1>1. /\ node = [c \in Conns |-> [next |-> None, prev |-> None, rcv |-> None, refs |-> 0]]
      /\ lists = [ref |-> 1, cur |-> 0, first |-> None, last |-> None, orphans |-> {}]
      /\ sender = TRUE /\ alive = Receivers
      /\ stack = [t \in Threads |-> <<>>] /\ mail = [t \in Threads |-> <<>>]
  BY DEF Init
<1> DEFINE w == Now
<1>2. /\ w.node = node /\ w.lists = lists /\ w = [node |-> w.node, lists |-> w.lists]
  BY DEF Now
<1> HIDE DEF w
<1>3. /\ \A c \in Conns : /\ w.node[c] \in LooseNode /\ w.node[c].rcv = None
                          /\ w.node[c].refs = 0
      /\ w.node \in [Conns -> LooseNode]
  BY ONLY <1>1, <1>2 DEF LooseNode, Link
<1>4. /\ w.lists \in LooseLists /\ w.lists.ref = 1 /\ w.lists.first = None /\ w.lists.last = None
      /\ w.lists.orphans = {}
  BY ONLY <1>1, <1>2, Constants DEF LooseLists, Link
<1>5. w \in Worlds  BY ONLY <1>2, <1>3, <1>4 DEF Worlds
<1>6. LiveIn(w) = {}  BY ONLY <1>3 DEF LiveIn
<1>7. Sound(w)
  BY ONLY <1>4, <1>5, <1>6 DEF Sound, InOrder, OrphansLead, Succeeds, Precedes
<1>8. Lives(w, sender, alive)  BY ONLY <1>1, <1>3, <1>6 DEF Lives
<1>9. \A t \in Threads : stack[t] = <<>> /\ mail[t] = <<>> /\ DOMAIN stack[t] = {} /\ DOMAIN mail[t] = {}
  BY <1>1
<1>10. Typed(sender, alive, stack, mail)
  <2>1. MaxDepth \in Nat  BY Constants
  <2>2. \A t \in Threads : Len(stack[t]) <= MaxDepth  BY <1>9, <2>1
  <2>3. stack \in [Threads -> Seq(Frame)] /\ mail \in [Threads -> Seq(Conns \X Receivers)]
    BY <1>1
  <2> QED BY <1>1, <2>2, <2>3 DEF Typed
<1>11. Calls(w, sender, alive, stack)  BY ONLY <1>9 DEF Calls
<1>12. OnWalk(stack) = {} /\ \A c : InSlot(stack, c) = {}
  BY ONLY <1>9 DEF OnWalk, InSlot, Places
<1>13. \A c : PostedIn(mail, c) = {}
  BY ONLY <1>9 DEF PostedIn, MailsOf
<1>14. Cardinality({}) = 0  BY FS_EmptySet
<1>15. Counted(w, sender, stack, mail)
  <2>1. ASSUME NEW c \in Conns
        PROVE  w.node[c].refs =
                 (IF w.node[c].rcv # None THEN 2 ELSE 0) + (IF c \in w.lists.orphans THEN 1 ELSE 0)
                 + Cardinality(InSlot(stack, c)) + Cardinality(PostedIn(mail, c))
    <3>1. Cardinality(InSlot(stack, c)) = 0 /\ Cardinality(PostedIn(mail, c)) = 0
      BY <1>12, <1>13, <1>14, Zenon
    <3> QED BY ONLY <2>1, <3>1, <1>3, <1>4
  <2>2. Cardinality(OnWalk(stack)) = 0  BY <1>12, <1>14, Zenon
  <2> QED BY ONLY <2>1, <2>2, <1>1, <1>4 DEF Counted
<1>16. Safe(w, sender, alive, stack, mail)
  BY ONLY <1>4, <1>7, <1>8, <1>10, <1>11, <1>15 DEF Safe, Held
<1> QED BY ONLY <1>16 DEF SSIInv, w

(* The program's code runs in a thread. *)
LEMMA RunsIs ==
  ASSUME NEW t, Runs(t)
  PROVE  stack[t] # <<>> => Inner(stack, t).at = "slot"
BY DEF Runs, At, Top, Inner

LEMMA SenderLives ==
  ASSUME SSIInv, sender
  PROVE  sender = TRUE /\ Safe(Now, TRUE, alive, stack, mail)
<1>1. sender \in BOOLEAN  BY HeldIs DEF SSIInv, Safe
<1>2. sender = TRUE  BY <1>1
<1> QED BY <1>2 DEF SSIInv

LEMMA ConnectKeeps ==
  ASSUME SSIInv, NEW t \in Threads, NEW r \in Receivers, Connect(t, r)
  PROVE  SSIInv'
<1> DEFINE c == lists.cur + 1
           v == Joined(Now, c, r)
<1>1. /\ sender /\ r \in alive /\ c \in Conns /\ v = [node |-> node', lists |-> lists']
      /\ sender' = sender /\ alive' = alive /\ stack' = stack /\ mail' = mail
  BY DEF Connect, Now, Joined
<1>2. sender = TRUE /\ Safe(Now, TRUE, alive, stack, mail)  BY <1>1, SenderLives
<1>3. v = Joined(Now, c, r) /\ c = Now.lists.cur + 1  BY DEF Now
<1> HIDE DEF v, c
<1>4. Safe(v, TRUE, alive, stack, mail)  BY ONLY <1>1, <1>2, <1>3, ConnectHeld
<1>5. sender' = TRUE /\ v = Now'  BY ONLY <1>1, <1>2 DEF Now
<1> QED BY ONLY <1>1, <1>4, <1>5 DEF SSIInv

LEMMA SlotReturnsKeeps ==
  ASSUME SSIInv, NEW t \in Threads, SlotReturns(t)
  PROVE  SSIInv'
<1> DEFINE f == Inner(stack, t)
           g == Turned(f, "next")
           v == [node |-> Deref(Now.node, f.conn), lists |-> Now.lists]
<1>1. /\ stack[t] # <<>> /\ f.at = "slot" /\ stack' = Gone(stack, t, g)
      /\ sender' = sender /\ alive' = alive /\ mail' = mail
  BY DEF SlotReturns, At, Moves, Goes, Turned, Gone, Top, Inner
<1>2. v = Now'  BY DEF SlotReturns, Top, Inner, Now
<1>3. t \in Threads /\ f = Inner(stack, t) /\ g = Turned(f, "next")
      /\ v = [node |-> Deref(Now.node, f.conn), lists |-> Now.lists]
  OBVIOUS
<1>4. Safe(Now, sender, alive, stack, mail)  BY DEF SSIInv
<1> HIDE DEF f, g, v
<1>5. Safe(v, sender, alive, stack', mail)  BY ONLY <1>1, <1>3, <1>4, SlotReturnsHeld
<1> QED BY ONLY <1>1, <1>2, <1>5 DEF SSIInv

LEMMA CheckKeeps ==
  ASSUME SSIInv, NEW t \in Threads, Check(t)
  PROVE  SSIInv'
<1> DEFINE f == Inner(stack, t)
           r == Now.node[f.conn].rcv
           stops == Now.lists.cur = 0 \/ f.conn > f.high
<1>1. /\ stack[t] # <<>> /\ f.at = "check" /\ sender' = sender /\ alive' = alive /\ mail' = mail
      /\ lists' = lists
  BY DEF Check, At, Top, Inner
<1>2. \/ stops /\ stack' = Gone(stack, t, Turned(f, "end")) /\ node' = node
      \/ r = None /\ stack' = Gone(stack, t, Turned(f, "next")) /\ node' = node
      \/ /\ ~stops /\ r # None /\ stack' = Gone(stack, t, TurnedTo(f, "post", r))
         /\ node' = node
      \/ /\ ~stops /\ stack' = Gone(stack, t, TurnedCalled(f, "slot"))
         /\ node' = Ref(node, f.conn)
  BY NowIs DEF Check, Moves, Goes, Turned, TurnedTo, TurnedCalled, Gone, Top, Inner
<1>3. Safe(Now, sender, alive, stack, mail) /\ t \in Threads /\ f = Inner(stack, t)  BY DEF SSIInv
<1> HIDE DEF f
<1>4. \A st2 :
        /\ \A g : stops /\ g = Turned(f, "end") /\ st2 = Gone(stack, t, g)
                  => Safe(Now, sender, alive, st2, mail)
        /\ \A g : r = None /\ g = Turned(f, "next") /\ st2 = Gone(stack, t, g)
                  => Safe(Now, sender, alive, st2, mail)
        /\ \A g : ~stops /\ r # None /\ g = TurnedTo(f, "post", r) /\ st2 = Gone(stack, t, g)
                  => Safe(Now, sender, alive, st2, mail)
  BY ONLY <1>1, <1>3, CheckHeld
<1>5. CASE node' = node /\ Safe(Now, sender, alive, stack', mail)
  <2>1. Now' = Now  BY <1>1, <1>5 DEF Now
  <2> QED BY ONLY <2>1, <1>1, <1>5 DEF SSIInv
<1>6. CASE /\ ~stops /\ stack' = Gone(stack, t, TurnedCalled(f, "slot"))
           /\ node' = Ref(node, f.conn)
  <2> DEFINE v == [node |-> Ref(Now.node, f.conn), lists |-> Now.lists]
             g == TurnedCalled(f, "slot")
  <2>1. v = Now'  BY ONLY <1>1, <1>6 DEF Now
  <2>2. /\ v = [node |-> Ref(Now.node, f.conn), lists |-> Now.lists] /\ g = TurnedCalled(f, "slot")
        /\ stack' = Gone(stack, t, g) /\ ~(Now.lists.cur = 0 \/ f.conn > f.high)
    BY <1>6
  <2> HIDE DEF v, g
  <2>3. Safe(v, sender, alive, stack', mail)  BY ONLY <2>2, <1>1, <1>3, CheckCallsHeld
  <2> QED BY ONLY <2>1, <2>3, <1>1 DEF SSIInv
<1> HIDE DEF stops, r
<1> QED BY ONLY <1>2, <1>4, <1>5, <1>6

LEMMA PostKeeps ==
  ASSUME SSIInv, NEW t \in Threads, Post(t)
  PROVE  SSIInv'
<1> DEFINE f == Inner(stack, t)
           g == TurnedCalled(f, "next")
           v == [node |-> Ref(Now.node, f.conn), lists |-> Now.lists]
<1>1. /\ stack[t] # <<>> /\ f.at = "post" /\ stack' = Gone(stack, t, g)
      /\ sender' = sender /\ alive' = alive
      /\ mail' = Mailed(mail, Home[f.rcv], Append(mail[Home[f.rcv]], <<f.conn, f.rcv>>))
  BY DEF Post, At, Goes, TurnedCalled, Gone, Top, Inner, Mailed
<1>2. v = Now'  BY DEF Post, Top, Inner, Now
<1>3. t \in Threads /\ f = Inner(stack, t) /\ g = TurnedCalled(f, "next")
      /\ v = [node |-> Ref(Now.node, f.conn), lists |-> Now.lists]
  OBVIOUS
<1>4. Safe(Now, sender, alive, stack, mail)  BY DEF SSIInv
<1> HIDE DEF f, g, v
<1>5. Safe(v, sender, alive, stack', mail')  BY ONLY <1>1, <1>3, <1>4, PostHeld
<1> QED BY ONLY <1>1, <1>2, <1>5 DEF SSIInv

LEMMA AdvanceKeeps ==
  ASSUME SSIInv, NEW t \in Threads, Advance(t)
  PROVE  SSIInv'
<1> DEFINE f == Inner(stack, t)
           n == Now.node[f.conn].next
           g == IF n = None THEN Turned(f, "end") ELSE TurnedOn(f, "check", n)
<1>1. /\ stack[t] # <<>> /\ f.at = "next" /\ stack' = Gone(stack, t, g)
      /\ sender' = sender /\ alive' = alive /\ mail' = mail /\ node' = node /\ lists' = lists
  BY NowIs DEF Advance, At, Goes, Turned, TurnedOn, Gone, Top, Inner
<1>2. Now' = Now  BY <1>1 DEF Now
<1>3. t \in Threads /\ f = Inner(stack, t) /\ n = Now.node[f.conn].next
      /\ g = (IF n = None THEN Turned(f, "end") ELSE TurnedOn(f, "check", n))
  OBVIOUS
<1>4. Safe(Now, sender, alive, stack, mail)  BY DEF SSIInv
<1> HIDE DEF f, g, n
<1>5. Safe(Now, sender, alive, stack', mail)  BY ONLY <1>1, <1>3, <1>4, AdvanceHeld
<1> QED BY ONLY <1>1, <1>2, <1>5 DEF SSIInv

LEMMA EmitKeeps ==
  ASSUME SSIInv, NEW t \in Threads, Emit(t)
  PROVE  SSIInv'
<1> DEFINE g == [at |-> "check", conn |-> Now.lists.first, high |-> Now.lists.cur,
                 called |-> {}, rcv |-> None]
           v == [node |-> Now.node, lists |-> [Now.lists EXCEPT !.ref = @ + 1]]
<1>1. /\ sender /\ Len(stack[t]) < MaxDepth /\ Now.lists.first # None
      /\ stack' = Pushed(stack, t, g) /\ sender' = sender /\ alive' = alive /\ mail' = mail
      /\ Runs(t)
  BY NowIs DEF Emit, Nests, Push, Pushed
<1>2. stack[t] # <<>> => Inner(stack, t).at = "slot"  BY <1>1, RunsIs
<1>3. v = Now'  BY DEF Emit, Now
<1>4. /\ t \in Threads
      /\ g = [at |-> "check", conn |-> Now.lists.first, high |-> Now.lists.cur,
              called |-> {}, rcv |-> None]
      /\ v = [node |-> Now.node, lists |-> [Now.lists EXCEPT !.ref = @ + 1]]
  OBVIOUS
<1>5. sender = TRUE /\ Safe(Now, TRUE, alive, stack, mail)  BY <1>1, SenderLives
<1> HIDE DEF g, v
<1>6. Safe(v, TRUE, alive, stack', mail)  BY ONLY <1>1, <1>2, <1>4, <1>5, EmitHeld
<1> QED BY ONLY <1>1, <1>3, <1>5, <1>6 DEF SSIInv

LEMMA EmitEndsKeeps ==
  ASSUME SSIInv, NEW t \in Threads, EmitEnds(t)
  PROVE  SSIInv'
<1> DEFINE f == Inner(stack, t)
           v == [node |-> Now.node, lists |-> [Now.lists EXCEPT !.ref = @ - 1]]
<1>1. v = [Now EXCEPT !.lists.ref = @ - 1]  BY DEF Now
<1>2. /\ stack[t] # <<>> /\ f.at = "end" /\ sender' = sender /\ alive' = alive /\ mail' = mail
  BY DEF EmitEnds, At, Top, Inner
<1> DEFINE u == [Now EXCEPT !.lists.ref = @ - 1]
<1>3. \/ u.lists.ref = 0 /\ Becomes(Drained(u)) /\ stack' = Popped(stack, t)
      \/ u.lists.ref # 0 /\ Becomes(u) /\ stack' = Popped(stack, t)
      \/ u.lists.ref # 0 /\ Becomes(u) /\ stack' = Gone(stack, t, Turned(f, "lock"))
  BY DEF EmitEnds, Pop, Moves, Goes, Popped, Gone, Turned, Top, Inner
<1>4. u = v  BY <1>1
<1> HIDE DEF u
<1>5. t \in Threads /\ f = Inner(stack, t)
      /\ v = [node |-> Now.node, lists |-> [Now.lists EXCEPT !.ref = @ - 1]]
      /\ v = [node |-> v.node, lists |-> v.lists]
  OBVIOUS
<1>6. Safe(Now, sender, alive, stack, mail)  BY DEF SSIInv
<1> HIDE DEF f, v
<1>7. /\ \A st2 : v.lists.ref = 0 /\ st2 = Popped(stack, t)
                  => Safe(Drained(v), sender, alive, st2, mail)
      /\ \A st2 : v.lists.ref # 0 /\ st2 = Popped(stack, t) => Safe(v, sender, alive, st2, mail)
      /\ \A st2 : v.lists.ref # 0 /\ st2 = Gone(stack, t, Turned(f, "lock"))
                  => Safe(v, sender, alive, st2, mail)
  BY ONLY <1>2, <1>5, <1>6, EmitEndsHeld
<1>8. \/ Becomes(Drained(v)) /\ Safe(Drained(v), sender, alive, stack', mail)
      \/ Becomes(v) /\ Safe(v, sender, alive, stack', mail)
  BY ONLY <1>3, <1>4, <1>7
<1>9. ASSUME Becomes(v) PROVE Now' = v
  BY ONLY <1>5, <1>9 DEF Becomes, Now
<1>10. ASSUME Becomes(Drained(v)) PROVE Now' = Drained(v)
  BY ONLY <1>10 DEF Becomes, Now, Drained
<1> QED BY ONLY <1>2, <1>8, <1>9, <1>10 DEF SSIInv

LEMMA CleanedIs ==
  ASSUME Becomes(Cleaned(Now))
  PROVE  Now' = Cleaned(Now)
<1>1. CASE Now.lists.ref = 1
  <2>1. Cleaned(Now) = Drained(Now)  BY <1>1 DEF Cleaned
  <2>2. Drained(Now) = [node |-> Drained(Now).node, lists |-> Drained(Now).lists]
    BY ONLY TRUE DEF Drained
  <2> QED BY ONLY <2>1, <2>2, Becomes(Cleaned(Now)) DEF Becomes, Now
<1>2. CASE Now.lists.ref # 1
  <2>1. Cleaned(Now) = Now  BY <1>2 DEF Cleaned
  <2> QED BY ONLY <2>1, Becomes(Cleaned(Now)) DEF Becomes, Now
<1> QED BY <1>1, <1>2

LEMMA EmitCleansKeeps ==
  ASSUME SSIInv, NEW t \in Threads, EmitCleans(t) \/ DisconnectEnds(t)
  PROVE  SSIInv'
<1> DEFINE f == Inner(stack, t)
<1>1. /\ stack[t] # <<>> /\ f.at \in {"lock", "disconnect"} /\ Becomes(Cleaned(Now))
      /\ stack' = Popped(stack, t) /\ sender' = sender /\ alive' = alive /\ mail' = mail
  BY DEF EmitCleans, DisconnectEnds, At, Top, Inner, Pop, Popped
<1>2. Now' = Cleaned(Now)  BY <1>1, CleanedIs
<1>3. sender
  <2>1. CallGood(t, f, Now, sender, alive)  BY <1>1, TopIs DEF SSIInv, Safe
  <2> QED BY ONLY <2>1, <1>1 DEF CallGood
<1>4. sender = TRUE /\ Safe(Now, TRUE, alive, stack, mail)  BY <1>3, SenderLives
<1>5. t \in Threads /\ f = Inner(stack, t)  OBVIOUS
<1> HIDE DEF f
<1>6. \A v : v = Cleaned(Now) => Safe(v, TRUE, alive, stack', mail)
  BY ONLY <1>1, <1>4, <1>5, CleansHeld
<1> QED BY ONLY <1>1, <1>2, <1>4, <1>6 DEF SSIInv

LEMMA DeliverKeeps ==
  ASSUME SSIInv, NEW t \in Threads, Deliver(t)
  PROVE  SSIInv'
<1> DEFINE v == [node |-> Deref(Now.node, Head(mail[t])[1]), lists |-> Now.lists]
<1>1. /\ mail[t] # <<>> /\ mail' = Mailed(mail, t, Tail(mail[t])) /\ stack' = stack
      /\ sender' = sender /\ alive' = alive
  BY DEF Deliver, Mailed
<1>2. v = Now'  BY DEF Deliver, Now
<1>3. /\ v = [node |-> Deref(Now.node, Head(mail[t])[1]), lists |-> Now.lists]
      /\ t \in Threads
  OBVIOUS
<1>4. Safe(Now, sender, alive, stack, mail)  BY DEF SSIInv
<1> HIDE DEF v
<1>5. Safe(v, sender, alive, stack, mail')  BY ONLY <1>1, <1>3, <1>4, DeliverHeld
<1> QED BY ONLY <1>1, <1>2, <1>5 DEF SSIInv

LEMMA DisconnectKeeps ==
  ASSUME SSIInv, NEW t \in Threads, NEW r \in Receivers, Disconnect(t, r)
  PROVE  SSIInv'
<1> DEFINE g == [at |-> "disconnect", conn |-> Now.lists.first, rcv |-> r]
<1>1. /\ sender /\ t = Owner /\ Len(stack[t]) < MaxDepth /\ Runs(t)
      /\ stack' = Pushed(stack, Owner, g) /\ sender' = sender /\ alive' = alive /\ mail' = mail
      /\ node' = node /\ lists' = lists
  BY NowIs DEF Disconnect, Nests, Push, Pushed
<1>2. stack[Owner] # <<>> => Inner(stack, Owner).at = "slot"  BY <1>1, RunsIs
<1>3. r \in Receivers /\ g = [at |-> "disconnect", conn |-> Now.lists.first, rcv |-> r]
  OBVIOUS
<1>4. sender = TRUE /\ Safe(Now, TRUE, alive, stack, mail)  BY <1>1, SenderLives
<1>5. Now' = Now  BY <1>1 DEF Now
<1> HIDE DEF g
<1>6. Safe(Now, TRUE, alive, stack', mail)  BY ONLY <1>1, <1>2, <1>3, <1>4, DisconnectHeld
<1> QED BY ONLY <1>1, <1>4, <1>5, <1>6 DEF SSIInv

LEMMA DisconnectNodeKeeps ==
  ASSUME SSIInv, NEW t \in Threads, DisconnectNode(t)
  PROVE  SSIInv'
<1> DEFINE f == Inner(stack, t)
           g == [f EXCEPT !.conn = Now.node[f.conn].next]
<1>1. /\ stack[t] # <<>> /\ f.at = "disconnect" /\ f.conn # None
      /\ stack' = Gone(stack, t, g) /\ sender' = sender /\ alive' = alive /\ mail' = mail
      /\ Becomes(Remove(Now, f.conn)) \/ (node' = node /\ lists' = lists)
  BY NowIs DEF DisconnectNode, At, Goes, Gone, Top, Inner
<1>2. t \in Threads /\ f = Inner(stack, t) /\ g = [f EXCEPT !.conn = Now.node[f.conn].next]
  OBVIOUS
<1>3. Safe(Now, sender, alive, stack, mail)  BY DEF SSIInv
<1> HIDE DEF f, g
<1>4. /\ Safe(Now, sender, alive, stack', mail)
      /\ Safe(Remove(Now, f.conn), sender, alive, stack', mail)
  BY ONLY <1>1, <1>2, <1>3, DisconnectNodeHeld
<1>5. CASE Becomes(Remove(Now, f.conn))
  <2>1. Remove(Now, f.conn) = [node |-> Remove(Now, f.conn).node,
                               lists |-> Remove(Now, f.conn).lists]
    BY ONLY TRUE DEF Remove, Now
  <2>2. Now' = Remove(Now, f.conn)  BY ONLY <2>1, <1>5 DEF Becomes, Now
  <2> QED BY ONLY <2>2, <1>1, <1>4 DEF SSIInv
<1>6. CASE node' = node /\ lists' = lists
  <2>1. Now' = Now  BY <1>6 DEF Now
  <2> QED BY ONLY <2>1, <1>1, <1>4 DEF SSIInv
<1> QED BY ONLY <1>1, <1>5, <1>6

LEMMA DestroyReceiverKeeps ==
  ASSUME SSIInv, NEW t \in Threads, NEW r \in Receivers, DestroyReceiver(t, r)
  PROVE  SSIInv'
<1> DEFINE set == {c \in Conns : Now.node[c].rcv = r}
           u == RemoveAll(Now, set)
           v == Unposted(u, mail, t, r)
<1>1. set = Linked(r)  BY NowIs DEF Linked
<1>2. /\ r \in alive /\ Runs(t) /\ (\A a \in Threads \ {t} : stack[a] = <<>>)
      /\ mail' = Mailed(mail, t, Without(mail[t], r)) /\ alive' = alive \ {r}
      /\ sender' = sender /\ stack' = stack
  BY DEF DestroyReceiver, Waits, Mailed
<1>3. /\ node' = [c \in Conns |->
                     [u.node[c] EXCEPT !.refs = @ -
                                  Cardinality({i \in DOMAIN mail[t] : mail[t][i] = <<c, r>>})]]
      /\ lists' = u.lists
  <2> HIDE DEF set
  <2> QED BY <1>1 DEF DestroyReceiver
<1>4. set = {c \in Conns : Now.node[c].rcv = r} /\ u = RemoveAll(Now, set)
      /\ v = Unposted(u, mail, t, r) /\ t \in Threads
  OBVIOUS
<1> HIDE DEF set, u, v
<1>5. v = Now'  BY ONLY <1>3, <1>4 DEF Now, Unposted
<1>6. stack[t] # <<>> => Inner(stack, t).at = "slot"  BY <1>2, RunsIs
<1>7. Safe(Now, sender, alive, stack, mail)  BY DEF SSIInv
<1>8. Safe(v, sender, alive \ {r}, stack, mail')
  BY ONLY <1>2, <1>4, <1>6, <1>7, DestroyReceiverHeld
<1> QED BY ONLY <1>2, <1>5, <1>8 DEF SSIInv

LEMMA DestroySenderKeeps ==
  ASSUME SSIInv, ~Crowded, NEW t \in Threads, DestroySender(t)
  PROVE  SSIInv'
<1> DEFINE u == RemoveAll(Now, Conns)
           v == [u EXCEPT !.lists.cur = 0, !.lists.ref = @ - 1]
           x == IF v.lists.ref = 0 THEN Drained(v) ELSE v
<1>1. /\ sender /\ Runs(t) /\ Now.lists.ref <= 2 /\ (\A a \in Threads \ {t} : stack[a] = <<>>)
      /\ Becomes(x) /\ sender' = FALSE /\ alive' = alive /\ stack' = stack /\ mail' = mail
  BY NowIs DEF DestroySender, Waits
<1>2. /\ u = RemoveAll(Now, Conns) /\ v = [u EXCEPT !.lists.cur = 0, !.lists.ref = @ - 1]
      /\ t \in Threads
  OBVIOUS
<1>3. stack[t] # <<>> => Inner(stack, t).at = "slot"  BY <1>1, RunsIs
<1>4. sender = TRUE /\ Safe(Now, TRUE, alive, stack, mail)  BY <1>1, SenderLives
<1> HIDE DEF u, v
<1>5. Safe(x, FALSE, alive, stack, mail)  BY ONLY <1>1, <1>2, <1>3, <1>4, DestroySenderHeld
<1>6. x \in Worlds  BY ONLY <1>5, HeldIs DEF Safe
<1>7. Now' = x
  <2> HIDE DEF x
  <2>1. x = [node |-> x.node, lists |-> x.lists]  BY ONLY <1>6 DEF Worlds
  <2> QED BY ONLY <2>1, <1>1 DEF Becomes, Now
<1> HIDE DEF x
<1> QED BY ONLY <1>1, <1>5, <1>7 DEF SSIInv

(* Every step, where the sender is not destroyed under two emissions. *)
LEMMA StepKeeps ==
  ASSUME SSIInv, ~Crowded, [Next]_vars
  PROVE  SSIInv'
<1>1. CASE UNCHANGED vars
  <2>1. /\ Now' = Now /\ sender' = sender /\ alive' = alive /\ stack' = stack /\ mail' = mail
    BY <1>1 DEF vars, Now
  <2> QED BY <2>1 DEF SSIInv
<1>2. ASSUME NEW t \in Threads, Program(t) PROVE SSIInv'
  <2>1. CASE DestroySender(t)  BY <2>1, DestroySenderKeeps
  <2>2. CASE Emit(t)  BY <2>2, EmitKeeps
  <2>3. CASE \E r \in Receivers : Connect(t, r)  BY <2>3, ConnectKeeps
  <2>4. CASE \E r \in Receivers : Disconnect(t, r)  BY <2>4, DisconnectKeeps
  <2>5. CASE \E r \in Receivers : DestroyReceiver(t, r)  BY <2>5, DestroyReceiverKeeps
  <2> QED BY <1>2, <2>1, <2>2, <2>3, <2>4, <2>5 DEF Program
<1>3. ASSUME NEW t \in Threads, Library(t) PROVE SSIInv'
  <2>1. CASE DisconnectNode(t)  BY <2>1, DisconnectNodeKeeps
  <2>2. CASE DisconnectEnds(t) \/ EmitCleans(t)  BY <2>2, EmitCleansKeeps
  <2>3. CASE Check(t)  BY <2>3, CheckKeeps
  <2>4. CASE Post(t)  BY <2>4, PostKeeps
  <2>5. CASE Advance(t)  BY <2>5, AdvanceKeeps
  <2>6. CASE SlotReturns(t)  BY <2>6, SlotReturnsKeeps
  <2>7. CASE EmitEnds(t)  BY <2>7, EmitEndsKeeps
  <2>8. CASE Deliver(t)  BY <2>8, DeliverKeeps
  <2> QED BY <1>3, <2>1, <2>2, <2>3, <2>4, <2>5, <2>6, <2>7, <2>8 DEF Library
<1> QED BY <1>1, <1>2, <1>3 DEF Next
------------------------------------------------------------------------------
(* What the invariant says of the properties.                                  *)

LEMMA FramesAre ==
  ASSUME SSIInv, NEW x \in Frames
  PROVE  LET f == stack[x[1]][x[2]] IN
         /\ x[1] \in Threads /\ x[2] \in DOMAIN stack[x[1]] /\ x \in Places
         /\ f \in Frame /\ CallGood(x[1], f, Now, sender, alive)
<1>1. x[1] \in Threads /\ x[2] \in DOMAIN stack[x[1]] /\ x \in Places  BY DEF Frames, Places
<1>2. stack \in Stacks /\ Calls(Now, sender, alive, stack)  BY HeldIs DEF SSIInv, Safe, Held
<1> QED BY <1>1, <1>2, StackIs DEF Calls

LEMMA SSIInvTypeOK == ASSUME SSIInv PROVE TypeOK
<1>1. /\ Now \in Worlds /\ Now.lists.ref \in Nat /\ \A c \in Conns : Now.node[c].refs \in Nat
  BY HeldIs DEF SSIInv, Safe
<1>2. node \in [Conns -> LooseNode] /\ lists \in LooseLists  BY ONLY <1>1, WorldIs, NowIs
<1>3. node \in [Conns -> Node]
  <2>1. ASSUME NEW c \in Conns PROVE node[c] \in Node
    <3>1. node[c] \in LooseNode /\ node[c].refs \in Nat  BY ONLY <2>1, <1>1, <1>2, NowIs
    <3> QED BY ONLY <3>1 DEF LooseNode, Node
  <2> QED BY ONLY <2>1, <1>2
<1>4. lists \in Lists  BY ONLY <1>1, <1>2, NowIs DEF LooseLists, Lists
<1>5. \A x \in Frames : stack[x[1]][x[2]] \in Frame  BY FramesAre
<1> QED BY <1>3, <1>4, <1>5 DEF TypeOK

LEMMA SSIInvNoDangling == ASSUME SSIInv PROVE NoDangling
<1> SUFFICES ASSUME NEW x \in Frames
             PROVE  LET f == stack[x[1]][x[2]] IN
                    /\ f.at \in Walking => node[f.conn].refs > 0 /\ lists.ref > 0
                    /\ f.at = "disconnect" /\ f.conn # None => node[f.conn].refs > 0
                    /\ f.at \in {"lock", "disconnect"} => sender
                    /\ f.at = "post" => f.rcv \in alive
  BY DEF NoDangling
<1> DEFINE f == stack[x[1]][x[2]]
<1>1. /\ x[1] \in Threads /\ x[2] \in DOMAIN stack[x[1]] /\ x \in Places
      /\ f \in Frame /\ CallGood(x[1], f, Now, sender, alive)
  BY FramesAre
<1>2. /\ Held(Now, sender, alive, stack, mail) /\ Now.lists.ref \in Nat /\ Ind(sender) \in Nat
      /\ Now.lists.ref = Ind(sender) + Cardinality(OnWalk(stack))
  BY HeldIs DEF SSIInv, Safe
<1>3. ASSUME f.at \in Walking PROVE node[f.conn].refs > 0 /\ lists.ref > 0
  <2>1. x \in OnWalk(stack)  BY <1>1, <1>3 DEF OnWalk
  <2>2. IsFiniteSet(OnWalk(stack)) /\ Cardinality(OnWalk(stack)) \in Nat  BY CountsFinite
  <2>3. Cardinality(OnWalk(stack)) # 0  BY ONLY <2>1, <2>2, FS_EmptySet
  <2>4. lists.ref > 0  BY ONLY <1>2, <2>2, <2>3, NowIs
  <2>5. Now.node[f.conn].refs > 0
    <3> HIDE DEF f
    <3> QED BY ONLY <1>1, <1>2, <1>3, WalkIs
  <2> QED BY <2>4, <2>5, NowIs
<1>4. ASSUME f.at = "disconnect", f.conn # None PROVE node[f.conn].refs > 0
  <2> HIDE DEF f
  <2>1. f.conn \in Kept(Now)  BY ONLY <1>1, <1>4 DEF CallGood, Kept
  <2>2. Sound(Now) /\ Counted(Now, sender, stack, mail) /\ mail \in MailTypes
    BY ONLY <1>2, HeldIs DEF Held
  <2>3. Now.node[f.conn].refs > 0  BY ONLY <2>1, <2>2, KeptCounted
  <2> QED BY ONLY <2>3, NowIs
<1>5. (f.at \in {"lock", "disconnect"} => sender) /\ (f.at = "post" => f.rcv \in alive)
  BY ONLY <1>1 DEF CallGood
<1> QED BY <1>3, <1>4, <1>5

LEMMA SSIInvEmissionComplete == ASSUME SSIInv PROVE EmissionComplete
<1> SUFFICES ASSUME NEW x \in Frames, stack[x[1]][x[2]].at = "end", sender
             PROVE  LET f == stack[x[1]][x[2]] IN
                    /\ f.called \subseteq 1..f.high
                    /\ {c \in 1..f.high : node[c].rcv # None} \subseteq f.called
  BY DEF EmissionComplete
<1> DEFINE f == stack[x[1]][x[2]]
<1>1. f \in Frame /\ CallGood(x[1], f, Now, sender, alive)  BY FramesAre
<1>2. f.at = "end" /\ sender  OBVIOUS
<1> HIDE DEF f
<1>3. WalkGood(f, Now, sender)  BY ONLY <1>1, <1>2 DEF CallGood, Walking
<1>4. f.called \subseteq 1..f.high /\ \A c \in LiveIn(Now) : c <= f.high => c \in f.called
  BY ONLY <1>2, <1>3 DEF WalkGood
<1>5. f.high \in Conns  BY ONLY <1>1, <1>2, FrameIs
<1>6. \A c \in 1..f.high : node[c].rcv # None => c \in LiveIn(Now) /\ c <= f.high
  <2>1. f.high \in Nat /\ f.high <= MaxConns /\ MaxConns \in Nat
    BY ONLY <1>5, Constants DEF Conns
  <2>2. \A c \in 1..f.high : c \in Conns /\ c <= f.high  BY ONLY <2>1 DEF Conns
  <2> QED BY ONLY <2>2, NowIs DEF LiveIn
<1>7. {c \in 1..f.high : node[c].rcv # None} \subseteq f.called  BY ONLY <1>4, <1>6
<1> QED BY <1>4, <1>7 DEF f

LEMMA SSIInvRefsExact == ASSUME SSIInv PROVE RefsExact
<1>1. Counted(Now, sender, stack, mail) /\ (Now.lists.ref = 0 => Now.lists.orphans = {})
  BY DEF SSIInv, Safe, Held
<1>2. ASSUME NEW c
      PROVE  {x \in Frames : LET f == stack[x[1]][x[2]] IN f.at = "slot" /\ f.conn = c}
               = InSlot(stack, c)
  BY DEF Frames, InSlot, Places
<1>3. {x \in Frames : stack[x[1]][x[2]].at \in Walking} = OnWalk(stack)
  BY DEF Frames, OnWalk, Places
<1>4. ASSUME NEW c PROVE Posted(c) = PostedIn(mail, c)
  BY DEF Posted, PostedIn, Mails, MailsOf
<1> QED BY <1>1, <1>2, <1>3, <1>4, NowIs DEF RefsExact, Counted
------------------------------------------------------------------------------
(* The invariant, of every behaviour in which nobody destroys the sender under *)
(* two emissions of its signal (Crowded says what happens where somebody does).*)
THEOREM SignalSlotInvariant == ASSUME ~Crowded PROVE Spec => []SSIInv
<1>1. Init => SSIInv  BY InitSafe
<1>2. SSIInv /\ [Next]_vars => SSIInv'  BY StepKeeps
<1> QED BY <1>1, <1>2, PTL DEF Spec

(* Nodes, lists and calls keep their types; no count is ever negative.         *)
THEOREM SignalSlotTypes == ASSUME ~Crowded PROVE Spec => []TypeOK
<1>1. SSIInv => TypeOK  BY SSIInvTypeOK
<1> QED BY <1>1, SignalSlotInvariant, PTL

(* emitImpl() walks the list with no lock, while slots connect, disconnect and *)
(* destroy: the node it goes on from, the list it pinned, the sender whose     *)
(* lock it takes and the receiver it posts to are there.                       *)
THEOREM SignalSlotNoDangling == ASSUME ~Crowded PROVE Spec => []NoDangling
<1>1. SSIInv => NoDangling  BY SSIInvNoDangling
<1> QED BY <1>1, SignalSlotInvariant, PTL

(* An emission that ends has called every connection that was there when it    *)
(* began and still is, whatever was removed under it, and none made since.     *)
THEOREM SignalSlotEmissionComplete == ASSUME ~Crowded PROVE Spec => []EmissionComplete
<1>1. SSIInv => EmissionComplete  BY SSIInvEmissionComplete
<1> QED BY <1>1, SignalSlotInvariant, PTL

(* The count of a connection is its two lists or the orphans, the calls in its *)
(* slot and the posted ones; the count of the lists is the sender and the      *)
(* emissions, and at 0 no orphan is left.                                      *)
THEOREM SignalSlotRefsExact == ASSUME ~Crowded PROVE Spec => []RefsExact
<1>1. SSIInv => RefsExact  BY SSIInvRefsExact
<1> QED BY <1>1, SignalSlotInvariant, PTL
==============================================================================
