-------------------------- MODULE EventQueueProofs --------------------------
(* Proofs about the posted events of one thread, for any number of receivers,  *)
(* threads, events, priorities and nested loops: no event is lost or kept      *)
(* twice, the counts of the receivers are exact, equal priorities keep their   *)
(* order, and a pass reads no erased node unless an object was moved.  Until a *)
(* loop is nested, the list is sorted and the owner sleeps over no event.      *)
EXTENDS EventQueue, FiniteSetTheorems, SequenceTheorems, WellFoundedInduction, TLAPS

(* What the variables hold. *)
Entry == [ev : Events \cup {NullEvent}, obj : Objects, kind : {"plain", "delete"},
          prio : Priorities, level : Nat]
Frame == [pc : {"prepare", "poll", "drained", "check", "dispatch", "scan", "handler",
                "delete", "test", "freed"},
          ready : BOOLEAN, exit : BOOLEAN, it : Int, obj : Objects \cup {"none"}]
Typed ==
    /\ queue \in Seq(Entry) /\ startOffset \in Nat /\ insertionOffset \in Nat
    /\ stack \in Seq(Frame)
    /\ fate \in [Events -> {"unposted", "queued", "out"}]
    /\ posted \in [Objects -> Int]
    /\ home \in [Objects -> {"here", "moved", "gone"}]

------------------------------------------------------------------------------
(* The operators on lists.                                                     *)

(* Inserting moves what is at or after the place by one. *)
Puts(r, q, pos, x) ==
    /\ pos \in 1..Len(q)+1 /\ Len(r) = Len(q) + 1
    /\ \A i \in 1..Len(q)+1 :
          r[i] = IF i < pos THEN q[i] ELSE IF i = pos THEN x ELSE q[i-1]

LEMMA InsertAtIs ==
  ASSUME NEW S, NEW q \in Seq(S), NEW pos \in 1..Len(q)+1, NEW x \in S
  PROVE  InsertAt(q, pos, x) \in Seq(S) /\ Puts(InsertAt(q, pos, x), q, pos, x)
<1> DEFINE a == SubSeq(q, 1, pos-1)
           b == SubSeq(q, pos, Len(q))
<1>0. Len(q) \in Nat /\ pos \in Int /\ \A i \in 1..Len(q) : q[i] \in S  OBVIOUS
<1>1. /\ a \in Seq(S) /\ Len(a) = pos - 1
      /\ \A i \in 1..pos-1 : a[i] = q[i]
  <2>1. \A i \in 1..pos-1 : q[i] \in S  BY <1>0
  <2>2. /\ a \in Seq(S) /\ Len(a) = IF 1 <= pos-1 THEN pos-1-1+1 ELSE 0
        /\ \A i \in 1..pos-1-1+1 : a[i] = q[1+i-1]
    BY ONLY <1>0, <2>1, SubSeqProperties, pos-1 \in Int
  <2> QED BY <1>0, <2>2
<1>2. /\ b \in Seq(S) /\ Len(b) = Len(q) - pos + 1
      /\ \A i \in 1..Len(q)-pos+1 : b[i] = q[pos+i-1]
  <2>1. \A i \in pos..Len(q) : q[i] \in S  BY <1>0
  <2>2. /\ b \in Seq(S) /\ Len(b) = IF pos <= Len(q) THEN Len(q)-pos+1 ELSE 0
        /\ \A i \in 1..Len(q)-pos+1 : b[i] = q[pos+i-1]
    BY ONLY <1>0, <2>1, SubSeqProperties, Len(q) \in Int
  <2> QED BY <1>0, <2>2
<1> DEFINE c == a \o <<x>>
<1>3. /\ c \in Seq(S) /\ Len(c) = pos
      /\ \A i \in 1..pos : c[i] = IF i <= pos-1 THEN a[i] ELSE x
  <2>1. <<x>> \in Seq(S) /\ Len(<<x>>) = 1 /\ <<x>>[1] = x  OBVIOUS
  <2> DEFINE u == <<x>>
  <2> HIDE DEF a, u
  <2>2. /\ a \o u \in Seq(S) /\ Len(a \o u) = Len(a) + Len(u)
        /\ \A i \in 1..Len(a)+Len(u) : (a \o u)[i] = IF i <= Len(a) THEN a[i] ELSE u[i-Len(a)]
    BY <1>1, <2>1, ConcatProperties DEF u
  <2> QED BY <1>0, <1>1, <2>1, <2>2 DEF u
<1> HIDE DEF a, b, c
<1>4. /\ c \o b \in Seq(S) /\ Len(c \o b) = Len(c) + Len(b)
      /\ \A i \in 1..Len(c)+Len(b) : (c \o b)[i] = IF i <= Len(c) THEN c[i] ELSE b[i-Len(c)]
  BY <1>2, <1>3, ConcatProperties
<1>5. InsertAt(q, pos, x) = c \o b  BY DEF InsertAt, a, b, c
<1>6. ASSUME NEW i \in 1..Len(q)+1
      PROVE  (c \o b)[i] = IF i < pos THEN q[i] ELSE IF i = pos THEN x ELSE q[i-1]
  <2>1. CASE i <= pos  BY <1>0, <1>1, <1>2, <1>3, <1>4, <2>1
  <2>2. CASE i > pos
    <3>1. i - pos \in 1..Len(q)-pos+1 /\ pos + (i-pos) - 1 = i - 1  BY <1>0, <2>2
    <3> QED BY <1>0, <1>2, <1>3, <1>4, <2>2, <3>1
  <2>3. i <= pos \/ i > pos  BY <1>0
  <2> QED BY <2>1, <2>2, <2>3, Zenon
<1> QED BY <1>0, <1>2, <1>3, <1>4, <1>5, <1>6 DEF Puts

(* Some element of a set of numbers is the least. *)
LEMMA LeastOf ==
  ASSUME NEW T, T \subseteq Nat, T # {}
  PROVE  \E x \in T : \A y \in T : x <= y
<1>1. \E x \in T : \A y \in T : ~(<<y, x>> \in OpToRel(<, Nat))
  BY NatLessThanWellFounded, WFMin
<1>2. PICK x \in T : \A y \in T : ~(<<y, x>> \in OpToRel(<, Nat))  BY <1>1
<1>3. ASSUME NEW y \in T PROVE x <= y
  <2>1. ~(y < x)  BY <1>2 DEF OpToRel
  <2> QED BY <2>1
<1> QED BY <1>3

(* What was inserted since a pass began, dead entries included, is sorted by    *)
(* priority, because addEvent() looks for its place among all of them.         *)
TailSorted(q, ins) == \A i, j \in ins+1 .. Len(q) : i < j => q[i].prio >= q[j].prio

(* addEvent() finds the place behind all entries of at least that priority.    *)
LEMMA AddAtIs ==
  ASSUME NEW q \in Seq(Entry), insertionOffset \in Nat, TailSorted(q, insertionOffset),
         NEW pr \in Priorities
  PROVE  LET pos == AddAt(q, pr) IN
         /\ pos \in 1..Len(q)+1 /\ (pos > insertionOffset \/ pos = Len(q) + 1)
         /\ \A j \in pos..Len(q) : j > insertionOffset /\ q[j].prio < pr
         /\ \A j \in insertionOffset+1 .. pos-1 : q[j].prio >= pr
<1> DEFINE ins == insertionOffset
<1>0. /\ Len(q) \in Nat /\ ins \in Nat /\ pr \in Int
      /\ \A i \in 1..Len(q) : q[i].prio \in Int
  <2>1. \A i \in 1..Len(q) : q[i] \in Entry  BY ElementOfSeq
  <2> QED BY <2>1, PrioritiesAssumption DEF Entry
<1>1. CASE q = <<>> \/ Last(q).prio >= pr \/ ins >= Len(q)
  <2>1. AddAt(q, pr) = Len(q) + 1  BY <1>1 DEF AddAt
  <2>2. ASSUME NEW j \in ins+1 .. Len(q) PROVE q[j].prio >= pr
    <3>1. Len(q) > 0 /\ ~(ins >= Len(q)) /\ q # <<>>  BY <1>0, <2>2
    <3>2. q[Len(q)].prio >= pr  BY <1>1, <3>1 DEF Last
    <3>3. q[j].prio >= q[Len(q)].prio
      <4>1. CASE j = Len(q)  BY <1>0, <4>1
      <4>2. CASE j < Len(q)  BY <1>0, <4>2 DEF TailSorted
      <4> QED BY <1>0, <4>1, <4>2
    <3>4. j \in 1..Len(q)  BY <1>0
    <3> QED BY <1>0, <3>1, <3>2, <3>3, <3>4
  <2>3. Len(q) + 1 - 1 = Len(q) /\ ~(\E j : j \in Len(q)+1 .. Len(q))  BY <1>0
  <2> QED BY <1>0, <2>1, <2>2, <2>3
<1>2. CASE ~(q = <<>> \/ Last(q).prio >= pr \/ ins >= Len(q))
  <2> DEFINE low == {i \in ins+1 .. Len(q) : q[i].prio < pr}
             Is(i) == /\ q[i].prio < pr
                      /\ \A j \in ins+1 .. i-1 : q[j].prio >= pr
             pos == CHOOSE i \in ins+1 .. Len(q) : Is(i)
  <2>1. Len(q) \in ins+1 .. Len(q)  BY <1>0, <1>2
  <2>2. q[Len(q)].prio < pr
    <3>1. ~(q[Len(q)].prio >= pr)  BY <1>2 DEF Last
    <3>2. Len(q) \in 1..Len(q)  BY <1>0, <2>1
    <3>3. q[Len(q)].prio \in Int  BY <1>0, <3>2
    <3> QED BY <1>0, <3>1, <3>3
  <2>3. low \subseteq Nat /\ low # {}  BY <1>0, <2>1, <2>2
  <2>4. PICK x \in low : \A y \in low : x <= y
    <3> HIDE DEF low
    <3> QED BY <2>3, LeastOf
  <2>5. \A j \in ins+1 .. x-1 : q[j].prio >= pr
    <3> SUFFICES ASSUME NEW j \in ins+1 .. x-1, ~(q[j].prio >= pr) PROVE FALSE  OBVIOUS
    <3>1. x \in ins+1 .. Len(q)  OBVIOUS
    <3>2. j \in ins+1 .. Len(q) /\ j \in 1..Len(q) /\ ~(x <= j)  BY <1>0, <3>1
    <3>3. q[j].prio < pr  BY <1>0, <3>2
    <3>4. j \in low  BY <3>2, <3>3
    <3> QED BY <2>4, <3>2, <3>4
  <2>6. \E i \in ins+1 .. Len(q) : Is(i)  BY <2>4, <2>5
  <2>7. pos \in ins+1 .. Len(q) /\ Is(pos)
    <3> HIDE DEF Is
    <3> QED BY <2>6
  <2>8. AddAt(q, pr) = pos  BY <1>2 DEF AddAt
  <2> HIDE DEF pos
  <2>9. ASSUME NEW j \in pos..Len(q) PROVE j > ins /\ q[j].prio < pr
    <3>1. q[pos].prio >= q[j].prio
      <4>1. CASE pos = j
        <5>1. j \in 1..Len(q)  BY <1>0, <2>7
        <5> QED BY <1>0, <4>1, <5>1
      <4>2. CASE pos < j  BY <1>0, <2>7, <4>2 DEF TailSorted
      <4> QED BY <1>0, <2>7, <4>1, <4>2
    <3>2. j \in 1..Len(q) /\ pos \in 1..Len(q)  BY <1>0, <2>7
    <3> QED BY <1>0, <2>7, <3>1, <3>2
  <2> QED BY <1>0, <2>7, <2>8, <2>9
<1> QED BY <1>1, <1>2

(* Dropping the first s entries. *)
LEMMA CutIs ==
  ASSUME NEW S, NEW q \in Seq(S), NEW s \in 0..Len(q)
  PROVE  LET r == SubSeq(q, s+1, Len(q)) IN
         /\ r \in Seq(S) /\ Len(r) = Len(q) - s
         /\ \A i \in 1..Len(q)-s : r[i] = q[s+i]
<1>0. Len(q) \in Nat /\ s \in Nat /\ s <= Len(q) /\ \A i \in 1..Len(q) : q[i] \in S  OBVIOUS
<1>1. \A i \in s+1..Len(q) : q[i] \in S  BY <1>0
<1> DEFINE r == SubSeq(q, s+1, Len(q))
<1>2. /\ r \in Seq(S) /\ Len(r) = IF s+1 <= Len(q) THEN Len(q)-(s+1)+1 ELSE 0
      /\ \A i \in 1..Len(q)-(s+1)+1 : r[i] = q[s+1+i-1]
  BY ONLY <1>0, <1>1, SubSeqProperties, s+1 \in Int, Len(q) \in Int
<1> QED BY <1>0, <1>2

------------------------------------------------------------------------------
(* Erasing nodes: what is kept keeps its order.                                *)
LEMMA UpTo ==
  ASSUME NEW n \in Nat
  PROVE  IsFiniteSet(1..n) /\ Cardinality(1..n) = n
<1>1. /\ IsFiniteSet(1..n)
      /\ Cardinality(1..n) = IF 1 > n THEN 0 ELSE n-1+1
  BY ONLY FS_Interval, 1 \in Int, n \in Int
<1> QED BY <1>1

LEMMA RankIs ==
  ASSUME NEW S, queue \in Seq(S), NEW gone \in SUBSET (DOMAIN queue)
  PROVE  LET kept == DOMAIN queue \ gone IN
         /\ IsFiniteSet(kept) /\ Cardinality(kept) \in Nat /\ Cardinality(kept) <= Len(queue)
         /\ \A k \in kept : Rank(gone, k) \in 1..Cardinality(kept) /\ Rank(gone, k) <= k
         /\ \A j, k \in kept : j < k => Rank(gone, j) < Rank(gone, k)
         /\ \A k \in 1..Len(queue) :
               (\A g \in gone : g >= k) => Rank(gone, k) = k
<1> DEFINE kept == DOMAIN queue \ gone
           below(i) == {k \in kept : k < i}
<1>0. DOMAIN queue = 1..Len(queue) /\ Len(queue) \in Nat /\ kept \subseteq 1..Len(queue)
  BY LenProperties
<1>1. /\ IsFiniteSet(1..Len(queue)) /\ Cardinality(1..Len(queue)) = Len(queue)
  BY <1>0, UpTo
<1>2. /\ IsFiniteSet(kept) /\ Cardinality(kept) \in Nat /\ Cardinality(kept) <= Len(queue)
  <2> DEFINE all == 1..Len(queue)
  <2>1. kept \in SUBSET all /\ IsFiniteSet(all) /\ Cardinality(all) = Len(queue)  BY <1>0, <1>1
  <2> HIDE DEF kept, all
  <2> QED BY <2>1, FS_Subset, FS_CardinalityType
<1>3. \A i : IsFiniteSet(below(i)) /\ Cardinality(below(i)) \in Nat
  <2> TAKE i
  <2>1. below(i) \in SUBSET kept  OBVIOUS
  <2> HIDE DEF below, kept
  <2> QED BY <1>2, <2>1, FS_Subset, FS_CardinalityType
<1>4. \A i : Rank(gone, i) = 1 + Cardinality(below(i))  BY DEF Rank
<1>5. ASSUME NEW j \in kept, NEW k \in kept, j < k
      PROVE  Cardinality(below(j)) + 1 <= Cardinality(below(k))
  <2>1. j \notin below(j) /\ below(j) \cup {j} \in SUBSET below(k)  BY <1>0, <1>5
  <2> DEFINE b == below(j)
             c == below(k)
  <2>2. IsFiniteSet(b) /\ IsFiniteSet(c)  BY <1>3
  <2> HIDE DEF b, c
  <2>3. Cardinality(b \cup {j}) = Cardinality(b) + 1
    BY <2>1, <2>2, FS_AddElement DEF b
  <2>4. Cardinality(b \cup {j}) <= Cardinality(c)
    BY <2>1, <2>2, FS_Subset DEF b, c
  <2> QED BY <2>3, <2>4 DEF b, c
<1>6. ASSUME NEW k \in kept PROVE Rank(gone, k) \in 1..Cardinality(kept) /\ Rank(gone, k) <= k
  <2>1. below(k) \in SUBSET (kept \ {k}) /\ below(k) \in SUBSET (1..k-1)  BY <1>0
  <2> DEFINE b == below(k)
  <2>2. Cardinality(b) \in Nat  BY <1>3
  <2> HIDE DEF b, kept
  <2>3. IsFiniteSet(kept \ {k}) /\ Cardinality(kept \ {k}) = Cardinality(kept) - 1
    BY <1>2, FS_RemoveElement
  <2>4. Cardinality(b) <= Cardinality(kept) - 1
    BY <2>1, <2>3, FS_Subset DEF b
  <2>5. k \in Nat /\ k >= 1  BY <1>0
  <2>6. IsFiniteSet(1..k-1) /\ Cardinality(1..k-1) = k - 1
    BY <2>5, UpTo
  <2>7. Cardinality(b) <= k - 1
    <3> DEFINE front == 1..k-1
    <3>1. b \in SUBSET front /\ IsFiniteSet(front) /\ Cardinality(front) = k - 1
      BY <2>1, <2>6 DEF b
    <3> HIDE DEF front
    <3> QED BY <3>1, FS_Subset
  <2> QED BY <1>2, <1>4, <2>2, <2>4, <2>5, <2>7 DEF b
<1>7. ASSUME NEW k \in 1..Len(queue), \A g \in gone : g >= k
      PROVE  Rank(gone, k) = k
  <2>1. below(k) = 1..k-1  BY <1>0, <1>7
  <2>2. Cardinality(1..k-1) = k - 1  BY <1>0, UpTo
  <2> QED BY <1>0, <1>4, <2>1, <2>2
<1>8. \A j, k \in kept : j < k => Rank(gone, j) < Rank(gone, k)
  <2> SUFFICES ASSUME NEW j \in kept, NEW k \in kept, j < k
               PROVE  Rank(gone, j) < Rank(gone, k)
    OBVIOUS
  <2>1. Cardinality(below(j)) + 1 <= Cardinality(below(k))  BY <1>5
  <2>2. Cardinality(below(j)) \in Nat /\ Cardinality(below(k)) \in Nat  BY <1>3
  <2>3. Rank(gone, j) = 1 + Cardinality(below(j)) /\ Rank(gone, k) = 1 + Cardinality(below(k))
    BY <1>4
  <2> HIDE DEF below, kept
  <2> QED BY <2>1, <2>2, <2>3
<1> QED BY <1>2, <1>6, <1>7, <1>8

LEMMA WithoutIs ==
  ASSUME NEW S, queue \in Seq(S), NEW gone \in SUBSET (DOMAIN queue)
  PROVE  LET kept == DOMAIN queue \ gone
             r    == Without(gone)
         IN  /\ r \in Seq(S) /\ Len(r) = Cardinality(kept) /\ Len(r) <= Len(queue)
             /\ \A k \in kept : Rank(gone, k) \in 1..Len(r) /\ r[Rank(gone, k)] = queue[k]
             /\ \A i \in 1..Len(r) : \E k \in kept : Rank(gone, k) = i /\ r[i] = queue[k]
<1> DEFINE kept == DOMAIN queue \ gone
           n == Cardinality(kept)
           rank == [k \in kept |-> Rank(gone, k)]
<1>0. kept \subseteq Nat  BY LenProperties
<1>1. /\ IsFiniteSet(kept) /\ n \in Nat /\ n <= Len(queue)
      /\ \A k \in kept : Rank(gone, k) \in 1..n
      /\ \A j, k \in kept : j < k => Rank(gone, j) < Rank(gone, k)
  BY RankIs
<1>2. \A j, k \in kept : Rank(gone, j) = Rank(gone, k) => j = k
  <2> HIDE DEF kept
  <2>1. \A j, k \in kept : j < k \/ k < j \/ j = k  BY <1>0
  <2>2. \A k \in kept : Rank(gone, k) \in Int  BY <1>1
  <2> HIDE DEF n
  <2> QED BY <1>1, <2>1, <2>2
<1>3. rank \in Injection(kept, 1..n)
  <2>1. rank \in [kept -> 1..n]  BY <1>1
  <2>2. \A j, k \in kept : rank[j] = rank[k] => j = k  BY <1>2
  <2> HIDE DEF kept, rank, n
  <2> QED BY <2>1, <2>2 DEF Injection, IsInjective
<1>4. IsFiniteSet(1..n) /\ Cardinality(1..n) = n
  <2> HIDE DEF n
  <2> QED BY <1>1, UpTo
<1>5. rank \in Surjection(kept, 1..n)
  <2> HIDE DEF rank, kept
  <2>1. Cardinality(kept) = Cardinality(1..n)  BY <1>4
  <2> HIDE DEF n
  <2> QED BY <1>3, <1>4, <2>1, FS_Injection
<1>6. \A i \in 1..n : \E k \in kept : Rank(gone, k) = i
  <2>1. \A i \in 1..n : \E k \in kept : rank[k] = i
    <3> HIDE DEF rank, kept, n
    <3> QED BY <1>5 DEF Surjection
  <2> QED BY <2>1
<1> DEFINE at(i) == CHOOSE k \in kept : Rank(gone, k) = i
<1>7. \A i \in 1..n : at(i) \in kept /\ Rank(gone, at(i)) = i
  <2> HIDE DEF kept
  <2> QED BY <1>6
<1>8. Without(gone) = [i \in 1..n |-> queue[at(i)]]  BY DEF Without
<1>9. \A k \in kept : at(Rank(gone, k)) = k
  <2> HIDE DEF at, kept, n
  <2> QED BY <1>1, <1>2, <1>7
<1>10. \A k \in kept : queue[k] \in S  BY LenProperties
<1> HIDE DEF at, kept, n, rank
<1>11. [i \in 1..n |-> queue[at(i)]] \in Seq(S) /\ Len([i \in 1..n |-> queue[at(i)]]) = n
  <2>1. \A i \in 1..n : queue[at(i)] \in S  BY <1>7, <1>10
  <2> DEFINE f == [i \in 1..n |-> queue[at(i)]]
  <2>2. f \in [1..n -> S]  BY <2>1
  <2>3. f \in Seq(S)  BY <1>1, <2>2, SeqDef
  <2>4. DOMAIN f = 1..n  OBVIOUS
  <2> HIDE DEF f
  <2>5. Len(f) = n  BY <1>1, <2>3, <2>4, LenProperties
  <2> QED BY <2>3, <2>5 DEF f
<1>12. ASSUME NEW k \in kept
       PROVE  Rank(gone, k) \in 1..n /\ Without(gone)[Rank(gone, k)] = queue[k]
  BY <1>1, <1>8, <1>9
<1>13. ASSUME NEW i \in 1..n
       PROVE  \E k \in kept : Rank(gone, k) = i /\ Without(gone)[i] = queue[k]
  BY <1>7, <1>8
<1> QED BY <1>1, <1>8, <1>11, <1>12, <1>13 DEF kept, n

------------------------------------------------------------------------------
(* The events of a list: that it holds e for o, that it holds each once, and   *)
(* that plain events of one priority are in the order of their numbers.        *)
Has(q, e, o) == \E i \in DOMAIN q : q[i].ev = e /\ q[i].obj = o
Of(q, o) == {e \in Events : Has(q, e, o)}
Unique(q) == \A i, j \in DOMAIN q : q[i].ev = q[j].ev /\ Live(q[i]) => i = j
InOrder(q) ==
    \A i, j \in DOMAIN q :
        /\ i < j /\ Live(q[i]) /\ Live(q[j]) /\ q[i].prio = q[j].prio
        /\ q[i].kind = "plain" /\ q[j].kind = "plain"
        => q[i].ev < q[j].ev

(* r is what is left of q when nodes are erased and entries emptied: the entry  *)
(* at i was at f[i], and r keeps the order of q.                               *)
Same(x, y) == x.obj = y.obj /\ x.kind = y.kind /\ x.prio = y.prio /\ x.level = y.level
Left(r, q, f) ==
    /\ f \in [DOMAIN r -> DOMAIN q]
    /\ \A i, j \in DOMAIN r : i < j => f[i] < f[j]
    /\ \A i \in DOMAIN r : Same(r[i], q[f[i]]) /\ (Live(r[i]) => r[i].ev = q[f[i]].ev)

LEMMA LeftKeeps ==
  ASSUME NEW q \in Seq(Entry), NEW r \in Seq(Entry), NEW f, Left(r, q, f)
  PROVE  /\ Unique(q) => Unique(r)
         /\ InOrder(q) => InOrder(r)
         /\ \A a \in Nat, b \in Nat :
               TailSorted(q, a) /\ (\A i \in DOMAIN r : i > b => f[i] > a) => TailSorted(r, b)
<1>0. /\ DOMAIN q = 1..Len(q) /\ DOMAIN r = 1..Len(r) /\ Len(q) \in Nat /\ Len(r) \in Nat
  BY LenProperties
<1>1. /\ \A i \in DOMAIN r : f[i] \in DOMAIN q
      /\ \A i, j \in DOMAIN r : i < j => f[i] < f[j]
      /\ \A i \in DOMAIN r : Same(r[i], q[f[i]]) /\ (Live(r[i]) => r[i].ev = q[f[i]].ev)
  BY DEF Left
<1>2. ASSUME Unique(q) PROVE Unique(r)
  <2> SUFFICES ASSUME NEW i \in DOMAIN r, NEW j \in DOMAIN r, r[i].ev = r[j].ev, Live(r[i])
               PROVE  i = j
    BY DEF Unique
  <2>1. Live(r[j]) /\ q[f[i]].ev = q[f[j]].ev /\ Live(q[f[i]])  BY <1>1 DEF Live
  <2>2. f[i] = f[j]  BY <1>1, <1>2, <2>1 DEF Unique
  <2>3. ~(i < j) /\ ~(j < i)  BY <1>0, <1>1, <2>2
  <2> QED BY <1>0, <2>3
<1>3. ASSUME InOrder(q) PROVE InOrder(r)
  <2> SUFFICES ASSUME NEW i \in DOMAIN r, NEW j \in DOMAIN r, i < j, Live(r[i]), Live(r[j]),
                      r[i].prio = r[j].prio, r[i].kind = "plain", r[j].kind = "plain"
               PROVE  r[i].ev < r[j].ev
    BY DEF InOrder
  <2>1. /\ f[i] \in DOMAIN q /\ f[j] \in DOMAIN q /\ f[i] < f[j]
        /\ Live(q[f[i]]) /\ Live(q[f[j]]) /\ q[f[i]].prio = q[f[j]].prio
        /\ q[f[i]].kind = "plain" /\ q[f[j]].kind = "plain"
        /\ r[i].ev = q[f[i]].ev /\ r[j].ev = q[f[j]].ev
    BY <1>1 DEF Same, Live
  <2> QED BY <1>3, <2>1 DEF InOrder
<1>4. ASSUME NEW a \in Nat, NEW b \in Nat, TailSorted(q, a),
             \A i \in DOMAIN r : i > b => f[i] > a
      PROVE  TailSorted(r, b)
  <2> SUFFICES ASSUME NEW i \in b+1 .. Len(r), NEW j \in b+1 .. Len(r), i < j
               PROVE  r[i].prio >= r[j].prio
    BY DEF TailSorted
  <2>1. i \in DOMAIN r /\ j \in DOMAIN r /\ i > b /\ j > b  BY <1>0
  <2>2. f[i] \in a+1 .. Len(q) /\ f[j] \in a+1 .. Len(q) /\ f[i] < f[j]
    BY <1>0, <1>1, <1>4, <2>1
  <2>3. q[f[i]].prio >= q[f[j]].prio  BY <1>4, <2>2 DEF TailSorted
  <2> QED BY <1>1, <2>1, <2>3 DEF Same
<1> QED BY <1>2, <1>3, <1>4

(* Emptied entries.                                                            *)
Stayed(r, q) == Left(r, q, [i \in DOMAIN q |-> i])
Empties(q, dead) == [i \in DOMAIN q |-> IF i \in dead THEN [q[i] EXCEPT !.ev = NullEvent] ELSE q[i]]

LEMMA EmptiesIs ==
  ASSUME NEW q \in Seq(Entry), NEW dead, NEW r, r = Empties(q, dead)
  PROVE  /\ r \in Seq(Entry) /\ Len(r) = Len(q) /\ DOMAIN r = DOMAIN q
         /\ \A i \in DOMAIN q :
               Same(r[i], q[i]) /\ r[i].ev = IF i \in dead THEN NullEvent ELSE q[i].ev
         /\ Stayed(r, q)
         /\ \A e \in Events, o \in Objects :
               Has(r, e, o) <=> \E i \in DOMAIN q \ dead : q[i].ev = e /\ q[i].obj = o
<1>0. DOMAIN q = 1..Len(q) /\ Len(q) \in Nat /\ \A i \in DOMAIN q : q[i] \in Entry
  BY LenProperties
<1>1. DOMAIN r = DOMAIN q  BY DEF Empties
<1>2. ASSUME NEW i \in DOMAIN q
      PROVE  /\ r[i] \in Entry /\ Same(r[i], q[i])
             /\ r[i].ev = IF i \in dead THEN NullEvent ELSE q[i].ev
  <2> DEFINE x == q[i]
  <2>0. x \in Entry /\ r[i] = IF i \in dead THEN [x EXCEPT !.ev = NullEvent] ELSE x
    BY <1>0 DEF Empties
  <2> HIDE DEF x
  <2>1. /\ [x EXCEPT !.ev = NullEvent] \in Entry /\ Same([x EXCEPT !.ev = NullEvent], x)
        /\ [x EXCEPT !.ev = NullEvent].ev = NullEvent
    BY <2>0 DEF Entry, Same
  <2>2. Same(x, x)  BY DEF Same
  <2>3. r[i] \in Entry /\ Same(r[i], x) /\ r[i].ev = IF i \in dead THEN NullEvent ELSE x.ev
    BY <2>0, <2>1, <2>2
  <2> QED BY <2>3 DEF x
<1>3. r \in Seq(Entry) /\ Len(r) = Len(q)
  <2>1. r \in [1..Len(q) -> Entry]
    <3>1. r = [i \in 1..Len(q) |-> r[i]]  BY <1>0, <1>1 DEF Empties
    <3>2. \A i \in 1..Len(q) : r[i] \in Entry  BY <1>0, <1>2
    <3> QED BY <3>1, <3>2
  <2>2. r \in Seq(Entry)  BY <1>0, <2>1, SeqDef
  <2> QED BY <1>0, <1>1, <2>2, LenProperties
<1>4. Stayed(r, q)  BY <1>0, <1>1, <1>2 DEF Stayed, Left, Live
<1>5. ASSUME NEW e \in Events, NEW o \in Objects
      PROVE  Has(r, e, o) <=> \E i \in DOMAIN q \ dead : q[i].ev = e /\ q[i].obj = o
  <2>1. e # NullEvent  BY BoundsAssumption DEF Events, NullEvent
  <2> QED BY <1>1, <1>2, <2>1 DEF Has, Same
<1> QED BY <1>1, <1>2, <1>3, <1>4, <1>5

(* An entry put into a list. *)
LEMMA InsertKeeps ==
  ASSUME NEW q \in Seq(Entry), NEW r \in Seq(Entry), NEW pos, NEW x \in Entry,
         Puts(r, q, pos, x), x.ev \in Events, \A i \in DOMAIN q : q[i].ev # x.ev
  PROVE  /\ \A e \in Events, o \in Objects :
               Has(r, e, o) <=> Has(q, e, o) \/ (e = x.ev /\ o = x.obj)
         /\ Unique(q) => Unique(r)
         /\ (/\ InOrder(q) /\ \A j \in pos..Len(q) : q[j].prio < x.prio
             /\ x.kind = "plain" => \A i \in DOMAIN q : Live(q[i]) => q[i].ev < x.ev)
            => InOrder(r)
         /\ \A a \in Nat :
               (/\ TailSorted(q, a) /\ (pos > a \/ pos = Len(q) + 1)
                /\ \A j \in pos..Len(q) : q[j].prio < x.prio
                /\ \A j \in a+1 .. pos-1 : q[j].prio >= x.prio)
               => TailSorted(r, a)
<1>0. /\ DOMAIN q = 1..Len(q) /\ Len(q) \in Nat /\ pos \in 1..Len(q)+1
      /\ \A i \in 1..Len(q) : q[i].prio \in Int /\ q[i].ev \in Int
      /\ x.prio \in Int /\ x.ev \in Int /\ Live(x)
  <2>1. \A i \in 1..Len(q) : q[i] \in Entry  BY ElementOfSeq
  <2>2. ASSUME NEW y \in Entry PROVE y.prio \in Int /\ y.ev \in Int
    <3>1. y.prio \in Priorities /\ y.ev \in Events \cup {NullEvent}  BY DEF Entry
    <3>2. Events \subseteq Int /\ NullEvent \in Int  BY BoundsAssumption DEF Events, NullEvent
    <3> QED BY <3>1, <3>2, PrioritiesAssumption
  <2>3. x.ev # NullEvent  BY BoundsAssumption DEF Events, NullEvent
  <2> QED BY <2>1, <2>2, <2>3, LenProperties DEF Live, Puts
<1>1. /\ r \in Seq(Entry) /\ Len(r) = Len(q) + 1 /\ DOMAIN r = 1..Len(q)+1
      /\ \A i \in 1..Len(q)+1 : r[i] = IF i < pos THEN q[i] ELSE IF i = pos THEN x ELSE q[i-1]
  BY LenProperties DEF Puts
<1> DEFINE from(i) == IF i < pos THEN i ELSE i-1
<1>2. /\ pos \in 1..Len(q)+1 /\ r[pos] = x
      /\ \A i \in 1..Len(q)+1 : i # pos => from(i) \in 1..Len(q) /\ r[i] = q[from(i)]
      /\ \A i \in 1..Len(q) : \E j \in 1..Len(q)+1 : j # pos /\ from(j) = i
  <2>1. ASSUME NEW i \in 1..Len(q)+1, i # pos
        PROVE  from(i) \in 1..Len(q) /\ r[i] = q[from(i)]
    <3>1. CASE i < pos  BY <1>0, <1>1, <2>1, <3>1
    <3>2. CASE ~(i < pos)
      <4>1. from(i) = i - 1 /\ i - 1 \in 1..Len(q)  BY <1>0, <1>1, <2>1, <3>2
      <4>2. r[i] = q[i-1]  BY <1>1, <2>1, <3>2
      <4> QED BY <4>1, <4>2
    <3> QED BY <3>1, <3>2
  <2>2. ASSUME NEW i \in 1..Len(q) PROVE \E j \in 1..Len(q)+1 : j # pos /\ from(j) = i
    <3>1. CASE i < pos  BY <1>0, <3>1
    <3>2. CASE ~(i < pos)
      <4>1. i+1 \in 1..Len(q)+1 /\ i+1 # pos /\ from(i+1) = i  BY <1>0, <3>2
      <4> QED BY <4>1
    <3> QED BY <3>1, <3>2
  <2> QED BY <1>0, <1>1, <2>1, <2>2
<1>3. \A i, j \in 1..Len(q)+1 : i < j /\ i # pos /\ j # pos => from(i) < from(j)
  BY <1>0
<1>4. ASSUME NEW e \in Events, NEW o \in Objects
      PROVE  Has(r, e, o) <=> Has(q, e, o) \/ (e = x.ev /\ o = x.obj)
  <2>1. ASSUME Has(r, e, o) PROVE Has(q, e, o) \/ (e = x.ev /\ o = x.obj)
    <3>1. PICK i \in 1..Len(q)+1 : r[i].ev = e /\ r[i].obj = o  BY <1>1, <2>1 DEF Has
    <3> HIDE DEF from
    <3> QED BY <1>0, <1>2, <3>1 DEF Has
  <2>2. ASSUME Has(q, e, o) PROVE Has(r, e, o)
    <3>1. PICK i \in 1..Len(q) : q[i].ev = e /\ q[i].obj = o  BY <1>0, <2>2 DEF Has
    <3>2. PICK j \in 1..Len(q)+1 : j # pos /\ from(j) = i  BY <1>2
    <3>3. r[j] = q[i]  BY <1>2, <3>2
    <3> QED BY <1>1, <3>1, <3>3 DEF Has
  <2>3. ASSUME e = x.ev, o = x.obj PROVE Has(r, e, o)
    BY <1>1, <1>2, <2>3 DEF Has
  <2> QED BY <2>1, <2>2, <2>3
<1>5. ASSUME Unique(q) PROVE Unique(r)
  <2> SUFFICES ASSUME NEW i \in 1..Len(q)+1, NEW j \in 1..Len(q)+1,
                      r[i].ev = r[j].ev, Live(r[i])
               PROVE  i = j
    BY <1>1 DEF Unique
  <2>1. CASE i = pos  
    <3>1. ASSUME j # pos PROVE FALSE
      <4> HIDE DEF from
      <4> QED BY <1>0, <1>2, <2>1, <3>1
    <3> QED BY <2>1, <3>1
  <2>2. CASE i # pos /\ j = pos
    <3> HIDE DEF from
    <3> QED BY <1>0, <1>2, <2>2
  <2>3. CASE i # pos /\ j # pos
    <3>1. from(i) = from(j)
      <4> HIDE DEF from
      <4> QED BY <1>0, <1>2, <1>5, <2>3 DEF Unique
    <3> QED BY <1>0, <2>3, <3>1
  <2> QED BY <2>1, <2>2, <2>3
<1>6. ASSUME InOrder(q), \A j \in pos..Len(q) : q[j].prio < x.prio,
             x.kind = "plain" => \A i \in DOMAIN q : Live(q[i]) => q[i].ev < x.ev
      PROVE  InOrder(r)
  <2> SUFFICES ASSUME NEW i \in 1..Len(q)+1, NEW j \in 1..Len(q)+1, i < j,
                      Live(r[i]), Live(r[j]), r[i].prio = r[j].prio,
                      r[i].kind = "plain", r[j].kind = "plain"
               PROVE  r[i].ev < r[j].ev
    BY <1>1 DEF InOrder
  <2>1. CASE i = pos
    <3>1. j # pos /\ from(j) \in pos..Len(q)  BY <1>0, <2>1
    <3>2. q[from(j)].prio < x.prio  BY <1>6, <3>1
    <3>3. r[j] = q[from(j)] /\ r[i] = x /\ from(j) \in 1..Len(q)  BY <1>2, <2>1, <3>1
    <3> HIDE DEF from
    <3> QED BY <1>0, <3>2, <3>3
  <2>2. CASE j = pos
    <3>1. i # pos  BY <1>0, <2>2
    <3> HIDE DEF from
    <3> QED BY <1>0, <1>2, <1>6, <2>2, <3>1
  <2>3. CASE i # pos /\ j # pos
    <3>1. from(i) < from(j)  BY <1>3, <2>3
    <3>2. /\ from(i) \in 1..Len(q) /\ r[i] = q[from(i)]
          /\ from(j) \in 1..Len(q) /\ r[j] = q[from(j)]
      BY <1>2, <2>3
    <3> HIDE DEF from
    <3> QED BY <1>0, <1>6, <3>1, <3>2 DEF InOrder
  <2> QED BY <2>1, <2>2, <2>3
<1>7. ASSUME NEW a \in Nat, TailSorted(q, a), pos > a \/ pos = Len(q) + 1,
             \A j \in pos..Len(q) : q[j].prio < x.prio,
             \A j \in a+1 .. pos-1 : q[j].prio >= x.prio
      PROVE  TailSorted(r, a)
  <2> SUFFICES ASSUME NEW i \in a+1 .. Len(q)+1, NEW j \in a+1 .. Len(q)+1, i < j
               PROVE  r[i].prio >= r[j].prio
    BY <1>1 DEF TailSorted
  <2>0. i \in 1..Len(q)+1 /\ j \in 1..Len(q)+1  BY <1>0
  <2>1. CASE i = pos
    <3>1. j # pos /\ from(j) \in pos..Len(q)  BY <1>0, <2>1
    <3>2. q[from(j)].prio < x.prio  BY <1>7, <3>1
    <3>3. r[j] = q[from(j)] /\ r[i] = x /\ from(j) \in 1..Len(q)  BY <1>2, <2>0, <2>1, <3>1
    <3> HIDE DEF from
    <3> QED BY <1>0, <3>2, <3>3
  <2>2. CASE j = pos
    <3>1. i # pos /\ from(i) = i /\ i \in a+1 .. pos-1  BY <1>0, <2>2
    <3>2. r[i] = q[i] /\ i \in 1..Len(q) /\ r[j] = x  BY <1>2, <2>0, <2>2, <3>1
    <3> QED BY <1>7, <3>1, <3>2
  <2>3. CASE i # pos /\ j # pos
    <3>1. from(i) < from(j)  BY <1>3, <2>0, <2>3
    <3>2. from(i) \in a+1 .. Len(q) /\ from(j) \in a+1 .. Len(q)
      BY <1>0, <1>7, <2>0, <2>3
    <3>3. r[i] = q[from(i)] /\ r[j] = q[from(j)]  BY <1>2, <2>0, <2>3
    <3> HIDE DEF from
    <3>4. q[from(i)].prio >= q[from(j)].prio  BY <1>7, <3>1, <3>2 DEF TailSorted
    <3> QED BY <3>3, <3>4
  <2> QED BY <2>1, <2>2, <2>3
<1> QED BY <1>4, <1>5, <1>6, <1>7

------------------------------------------------------------------------------
(* Who has which event: an event is queued exactly while it is in the list of   *)
(* a receiver that is there, the receivers count theirs, and the numbers given *)
(* out so far are the first ones.                                              *)
Known == \A e \in Events : fate[e] = "queued" <=> \E o \in Objects : Has(queue, e, o)
Here == \A e \in Events, o \in Objects : Has(queue, e, o) => home[o] = "here"
Counted == \A o \in Objects : home[o] = "here" => posted[o] = Cardinality(Of(queue, o))
Numbered == \A e, f \in Events : f < e /\ fate[e] # "unposted" => fate[f] # "unposted"
Books == Unique(queue) /\ Known /\ Here /\ Counted /\ Numbered

LEMMA NextIsNew ==
  ASSUME Numbered, NextEvent \in Events
  PROVE  /\ fate[NextEvent] = "unposted"
         /\ \A f \in Events : f < NextEvent <=> fate[f] # "unposted"
<1> DEFINE given == {e \in Events : fate[e] # "unposted"}
           c == Cardinality(given)
<1>1. /\ IsFiniteSet(given) /\ c \in Nat /\ NextEvent = 1 + c
      /\ Events = 1..MaxEvents /\ MaxEvents \in Nat
  <2>1. MaxEvents \in Nat /\ Events = 1..MaxEvents  BY BoundsAssumption DEF Events
  <2>2. IsFiniteSet(Events)  BY <2>1, UpTo
  <2>3. given \in SUBSET Events  OBVIOUS
  <2>4. NextEvent = 1 + c  BY DEF NextEvent
  <2> HIDE DEF given
  <2> QED BY <2>1, <2>2, <2>3, <2>4, FS_Subset, FS_CardinalityType
<1>2. ASSUME NEW f \in Events, f <= c PROVE f \in given
  <2> SUFFICES ASSUME f \notin given PROVE FALSE  OBVIOUS
  <2>1. f \in Nat /\ f >= 1 /\ f - 1 \in Nat  BY <1>1
  <2>2. given \in SUBSET (1..f-1)
    <3>1. ASSUME NEW g \in given PROVE g \in 1..f-1
      <4>1. ~(f < g) /\ g # f  BY DEF Numbered
      <4> QED BY <1>1, <2>1, <4>1
    <3> QED BY <3>1
  <2> DEFINE front == 1..f-1
  <2>3. IsFiniteSet(front) /\ Cardinality(front) = f - 1 /\ given \in SUBSET front
    BY <2>1, <2>2, UpTo
  <2> HIDE DEF given, front
  <2>4. c <= f - 1  BY <2>3, FS_Subset
  <2> HIDE DEF c
  <2> QED BY <1>1, <1>2, <2>1, <2>4
<1>3. c + 1 \notin given
  <2> SUFFICES ASSUME c + 1 \in given PROVE FALSE  OBVIOUS
  <2>1. 1..c+1 \in SUBSET given
    <3>1. ASSUME NEW g \in 1..c+1 PROVE g \in given
      <4>1. g \in Events  BY <1>1
      <4>2. CASE g = c + 1  BY <4>2
      <4>3. CASE g < c + 1  BY <4>1, <4>3 DEF Numbered
      <4> HIDE DEF given, c
      <4> QED BY <1>1, <4>2, <4>3
    <3> QED BY <3>1
  <2> HIDE DEF given
  <2>2. Cardinality(1..c+1) = c + 1
    <3> HIDE DEF c
    <3>1. c + 1 \in Nat  BY <1>1
    <3> QED BY <3>1, UpTo
  <2>3. c + 1 <= c
    <3> DEFINE front == 1..c+1
    <3>1. front \in SUBSET given /\ Cardinality(front) = c + 1  BY <2>1, <2>2
    <3> HIDE DEF front
    <3> QED BY <1>1, <3>1, FS_Subset
  <2> HIDE DEF c
  <2> QED BY <1>1, <2>3
<1>4. ASSUME NEW f \in Events PROVE f < NextEvent <=> fate[f] # "unposted"
  <2>1. ASSUME f < NextEvent PROVE fate[f] # "unposted"
    <3>1. f <= c
      <4> HIDE DEF c
      <4> QED BY <1>1, <2>1
    <3> QED BY <1>2, <3>1
  <2>2. ASSUME ~(f < NextEvent), fate[f] # "unposted" PROVE FALSE
    <3>1. CASE f = NextEvent
      <4>1. c + 1 = f
        <5> HIDE DEF c
        <5> QED BY <1>1, <3>1
      <4> QED BY <1>3, <2>2, <4>1
    <3>2. CASE f # NextEvent
      <4>1. NextEvent < f  BY <1>1, <2>2, <3>2
      <4>2. fate[NextEvent] # "unposted"  BY <2>2, <4>1 DEF Numbered
      <4>3. c + 1 = NextEvent
        <5> HIDE DEF c
        <5> QED BY <1>1
      <4> QED BY <1>3, <4>2, <4>3
    <3> QED BY <3>1, <3>2
  <2> QED BY <2>1, <2>2
<1>5. ~(NextEvent < NextEvent)
  <2> HIDE DEF c
  <2> QED BY <1>1
<1> QED BY <1>4, <1>5

(* A receiver's events are finitely many, and one event has one receiver.      *)
LEMMA OfIs ==
  ASSUME NEW q, NEW o
  PROVE  IsFiniteSet(Of(q, o)) /\ Cardinality(Of(q, o)) \in Nat
<1>1. IsFiniteSet(Events)  BY BoundsAssumption, UpTo DEF Events
<1>2. Of(q, o) \in SUBSET Events  BY DEF Of
<1> HIDE DEF Events
<1> QED BY <1>1, <1>2, FS_Subset, FS_CardinalityType

LEMMA OneReceiver ==
  ASSUME NEW q, Unique(q), NEW e \in Events, NEW o, NEW p, Has(q, e, o), Has(q, e, p)
  PROVE  o = p
<1>1. e # NullEvent  BY BoundsAssumption DEF Events, NullEvent
<1>2. PICK i \in DOMAIN q : q[i].ev = e /\ q[i].obj = o  BY DEF Has
<1>3. PICK j \in DOMAIN q : q[j].ev = e /\ q[j].obj = p  BY DEF Has
<1>4. i = j  BY <1>1, <1>2, <1>3 DEF Unique, Live
<1> QED BY <1>2, <1>3, <1>4

(* The list is arranged otherwise, or only forgets dead entries.               *)
LEMMA BooksKept ==
  ASSUME Books, Unique(queue'), UNCHANGED <<fate, posted, home>>,
         \A e \in Events, o \in Objects : Has(queue', e, o) <=> Has(queue, e, o)
  PROVE  Books'
<1>1. \A o \in Objects : Of(queue', o) = Of(queue, o)  BY DEF Of
<1> QED BY <1>1 DEF Books, Known, Here, Counted, Numbered

(* A new event: queued, or dropped as a second request to delete the receiver. *)
LEMMA BooksPost ==
  ASSUME Books, Typed, NextEvent \in Events, NEW o \in Objects, home[o] = "here",
         Unique(queue'), home' = home,
         fate' = [fate EXCEPT ![NextEvent] = "queued"],
         posted' = [posted EXCEPT ![o] = @ + 1],
         \A e \in Events, p \in Objects :
            Has(queue', e, p) <=> Has(queue, e, p) \/ (e = NextEvent /\ p = o)
  PROVE  Books'
<1> DEFINE n == NextEvent
<1>1. fate[n] = "unposted" /\ \A f \in Events : f < n <=> fate[f] # "unposted"
  BY NextIsNew DEF Books
<1>2. \A p \in Objects : ~Has(queue, n, p)  BY <1>1 DEF Books, Known
<1>3. Events \subseteq Int  BY BoundsAssumption DEF Events
<1> HIDE DEF n
<1>4. n \in Events /\ fate' = [fate EXCEPT ![n] = "queued"]  BY DEF n
<1>5. Known'
  <2> SUFFICES ASSUME NEW e \in Events
               PROVE  fate'[e] = "queued" <=> \E p \in Objects : Has(queue', e, p)
    BY DEF Known
  <2>1. CASE e = n  BY <1>4, <2>1 DEF Typed, n
  <2>2. CASE e # n  BY <1>4, <2>2 DEF Typed, n, Books, Known
  <2> QED BY <2>1, <2>2
<1>6. Here'  BY DEF Books, Here
<1>7. Counted'
  <2> SUFFICES ASSUME NEW p \in Objects, home[p] = "here"
               PROVE  posted'[p] = Cardinality(Of(queue', p))
    BY DEF Counted
  <2>1. posted[p] = Cardinality(Of(queue, p))  BY DEF Books, Counted
  <2>2. CASE p = o
    <3>1. Of(queue', p) = Of(queue, p) \cup {n} /\ n \notin Of(queue, p)
      BY <1>2, <1>4, <2>2 DEF Of, n
    <3>2. Cardinality(Of(queue, p) \cup {n}) = Cardinality(Of(queue, p)) + 1
      BY <3>1, OfIs, FS_AddElement
    <3>3. posted'[p] = posted[p] + 1  BY <2>2 DEF Typed
    <3> QED BY <2>1, <3>1, <3>2, <3>3
  <2>3. CASE p # o
    <3>1. Of(queue', p) = Of(queue, p)  BY <2>3 DEF Of
    <3> QED BY <2>1, <2>3, <3>1 DEF Typed
  <2> QED BY <2>2, <2>3
<1>8. Numbered'
  <2> SUFFICES ASSUME NEW e \in Events, NEW f \in Events, f < e, fate'[e] # "unposted"
               PROVE  fate'[f] # "unposted"
    BY DEF Numbered
  <2>1. CASE f = n  BY <1>4, <2>1 DEF Typed
  <2>2. CASE f # n
    <3>1. fate'[f] = fate[f]  BY <1>4, <2>2 DEF Typed
    <3>2. CASE e = n  BY <1>1, <3>1, <3>2
    <3>3. CASE e # n
      <4>1. fate'[e] = fate[e]  BY <1>4, <3>3 DEF Typed
      <4> QED BY <3>1, <4>1 DEF Books, Numbered
    <3> QED BY <3>2, <3>3
  <2> QED BY <2>1, <2>2
<1> QED BY <1>5, <1>6, <1>7, <1>8 DEF Books

LEMMA BooksDrop ==
  ASSUME Books, Typed, NextEvent \in Events, UNCHANGED <<queue, posted, home>>,
         fate' = [fate EXCEPT ![NextEvent] = "out"]
  PROVE  Books'
<1> DEFINE n == NextEvent
<1>1. fate[n] = "unposted" /\ \A f \in Events : f < n <=> fate[f] # "unposted"
  BY NextIsNew DEF Books
<1> HIDE DEF n
<1>2. n \in Events /\ fate' = [fate EXCEPT ![n] = "out"]  BY DEF n
<1>3. \A e \in Events : fate'[e] = IF e = n THEN "out" ELSE fate[e]  BY <1>2 DEF Typed
<1>4. Known'  BY <1>1, <1>2, <1>3 DEF Books, Known
<1>5. Numbered'
  <2> SUFFICES ASSUME NEW e \in Events, NEW f \in Events, f < e, fate'[e] # "unposted"
               PROVE  fate'[f] # "unposted"
    BY DEF Numbered
  <2>1. CASE f = n  BY <1>3, <2>1
  <2>2. CASE f # n /\ e = n  BY <1>1, <1>3, <2>2
  <2>3. CASE f # n /\ e # n  BY <1>3, <2>3 DEF Books, Numbered
  <2> QED BY <2>1, <2>2, <2>3
<1> QED BY <1>4, <1>5 DEF Books, Here, Counted

(* A delivery takes the event out of the list.                                 *)
LEMMA BooksSent ==
  ASSUME Books, Typed, NEW e \in Events, NEW o \in Objects, Has(queue, e, o),
         Unique(queue'), home' = home,
         fate' = [fate EXCEPT ![e] = "out"], posted' = [posted EXCEPT ![o] = @ - 1],
         \A f \in Events, p \in Objects : Has(queue', f, p) <=> Has(queue, f, p) /\ f # e
  PROVE  Books'
<1>1. \A f \in Events : fate'[f] = IF f = e THEN "out" ELSE fate[f]  BY DEF Typed
<1>2. Known'  BY <1>1 DEF Books, Known
<1>3. Here'  BY DEF Books, Here
<1>4. Counted'
  <2> SUFFICES ASSUME NEW p \in Objects, home[p] = "here"
               PROVE  posted'[p] = Cardinality(Of(queue', p))
    BY DEF Counted
  <2>1. posted[p] = Cardinality(Of(queue, p))  BY DEF Books, Counted
  <2>2. CASE p = o
    <3>1. Of(queue', p) = Of(queue, p) \ {e} /\ e \in Of(queue, p)  BY <2>2 DEF Of
    <3>2. Cardinality(Of(queue, p) \ {e}) = Cardinality(Of(queue, p)) - 1
      BY <3>1, OfIs, FS_RemoveElement
    <3>3. posted'[p] = posted[p] - 1  BY <2>2 DEF Typed
    <3> QED BY <2>1, <3>1, <3>2, <3>3
  <2>3. CASE p # o
    <3>1. ~Has(queue, e, p)  BY <2>3, OneReceiver DEF Books
    <3>2. Of(queue', p) = Of(queue, p)  BY <3>1 DEF Of
    <3> QED BY <2>1, <2>3, <3>2 DEF Typed
  <2> QED BY <2>2, <2>3
<1>5. Numbered'
  <2>1. fate[e] = "queued"  BY DEF Books, Known
  <2>2. \A f \in Events : fate'[f] # "unposted" <=> fate[f] # "unposted"  BY <1>1, <2>1
  <2> QED BY <2>2 DEF Books, Numbered
<1> QED BY <1>2, <1>3, <1>4, <1>5 DEF Books

(* A receiver that goes takes its events along.                                *)
LEMMA BooksGone ==
  ASSUME Books, Typed, NEW o \in Objects,
         Unique(queue'), home'[o] # "here", \A p \in Objects \ {o} : home'[p] = home[p],
         \A e \in Events : fate'[e] = IF Has(queue, e, o) THEN "out" ELSE fate[e],
         \A p \in Objects \ {o} : posted'[p] = posted[p],
         \A e \in Events, p \in Objects : Has(queue', e, p) <=> Has(queue, e, p) /\ p # o
  PROVE  Books'
<1>1. Known'
  <2> SUFFICES ASSUME NEW e \in Events
               PROVE  fate'[e] = "queued" <=> \E p \in Objects : Has(queue', e, p)
    BY DEF Known
  <2>1. CASE Has(queue, e, o)
    <3>1. \A p \in Objects : Has(queue, e, p) => p = o  BY <2>1, OneReceiver DEF Books
    <3> QED BY <2>1, <3>1
  <2>2. CASE ~Has(queue, e, o)  BY <2>2 DEF Books, Known
  <2> QED BY <2>1, <2>2
<1>2. Here'  BY DEF Books, Here
<1>3. Counted'
  <2> SUFFICES ASSUME NEW p \in Objects, home'[p] = "here"
               PROVE  posted'[p] = Cardinality(Of(queue', p))
    BY DEF Counted
  <2>1. p # o /\ home[p] = "here"  OBVIOUS
  <2>2. Of(queue', p) = Of(queue, p)  BY <2>1 DEF Of
  <2> QED BY <2>1, <2>2 DEF Books, Counted
<1>4. Numbered'
  <2>1. \A e \in Events : Has(queue, e, o) => fate[e] = "queued"  BY DEF Books, Known
  <2>2. \A e \in Events : fate'[e] # "unposted" <=> fate[e] # "unposted"  BY <2>1
  <2> QED BY <2>2 DEF Books, Numbered
<1> QED BY <1>1, <1>2, <1>3, <1>4 DEF Books

------------------------------------------------------------------------------
(* Where a pass is.  Its iterator is at the first entry behind startOffset, was *)
(* erased, or does not matter: there is nothing more to look at.  When an inner *)
(* pass ends, the outer one goes on from its own iterator, so that must hold    *)
(* of the innermost pass at any time; that the inner pass leaves nothing to the *)
(* outer one (s = ins), or has seen the end of the list, gives it back.        *)
InPass(l) == l.pc \in {"scan", "handler", "delete", "freed"}
Innermost(st) == IF Len(st) > 0 /\ InPass(st[Len(st)]) THEN Len(st) ELSE Len(st) - 1
Places(q, s, ins, st) ==
    /\ s <= Len(q) /\ s <= ins
    /\ \A i \in 1..s : ~Live(q[i])
    /\ \A k \in 1..Len(st) : st[k].it \in -1..Len(q)
    /\ \A k \in 1..Len(st)-1 : st[k].pc = "handler"
    /\ LET d == Innermost(st) IN d > 0 =>
          /\ st[d].it \in {DanglingIt, EndIt, s+1} \/ s = ins
          /\ st[d].it = EndIt => s = ins \/ \A k \in 1..Len(st) : st[k].it <= s
(* With nothing moved away the iterator is never lost. *)
Stays(q, s, ins, st) ==
    /\ ins <= Len(q)
    /\ LET d == Innermost(st) IN d > 0 => st[d].it = s+1 \/ s = ins

(* Nothing moves: the list keeps its length, the frames keep their iterators.   *)
LEMMA StillPlaces ==
  ASSUME NEW q, NEW r, NEW s, NEW ins, NEW st, NEW tt, Len(st) \in Nat,
         Places(q, s, ins, st), Len(r) = Len(q), \A i \in 1..s : ~Live(r[i]),
         Len(tt) = Len(st), \A k \in 1..Len(st) : tt[k].it = st[k].it,
         \A k \in 1..Len(st)-1 : tt[k].pc = "handler",
         Len(st) > 0 => (InPass(tt[Len(st)]) <=> InPass(st[Len(st)]))
  PROVE  Places(r, s, ins, tt) /\ (Stays(q, s, ins, st) => Stays(r, s, ins, tt))
<1>1. Innermost(tt) = Innermost(st)  BY DEF Innermost
<1>2. Innermost(st) > 0 => Innermost(st) \in 1..Len(st)  BY DEF Innermost
<1> HIDE DEF Innermost
<1> QED BY <1>1, <1>2 DEF Places, Stays

(* A loop begins in a handler, and ends. *)
LEMMA PushPlaces ==
  ASSUME NEW q, NEW s \in Nat, NEW ins \in Nat, NEW st, NEW tt, Len(st) \in Nat, Len(q) \in Nat,
         Places(q, s, ins, st), Len(tt) = Len(st) + 1,
         \A k \in 1..Len(st) : tt[k] = st[k], tt[Len(st)+1].it = EndIt,
         ~InPass(tt[Len(st)+1]), Len(st) > 0, st[Len(st)].pc = "handler"
  PROVE  Places(q, s, ins, tt) /\ (Stays(q, s, ins, st) => Stays(q, s, ins, tt))
<1>1. Innermost(tt) = Len(st) /\ Innermost(st) = Len(st)  BY DEF Innermost, InPass
<1>2. ASSUME NEW k \in 1..Len(tt) PROVE (k \in 1..Len(st) /\ tt[k] = st[k]) \/ (k = Len(st)+1 /\ tt[k].it = EndIt)
  BY <1>2
<1> DEFINE n == Len(st)
<1>3. n \in 1..n /\ Len(tt) - 1 = n /\ tt[n] = st[n]  OBVIOUS
<1>4. \A k \in 1..Len(tt) : tt[k].it \in -1..Len(q)  BY <1>2 DEF Places, EndIt
<1>5. \A k \in 1..Len(tt)-1 : tt[k].pc = "handler"
  <2> SUFFICES ASSUME NEW k \in 1..n PROVE tt[k].pc = "handler"  BY <1>3
  <2>1. k \in 1..n-1 \/ k = n  OBVIOUS
  <2> QED BY <2>1 DEF Places
<1>6. (\A k \in 1..n : st[k].it <= s) => \A k \in 1..Len(tt) : tt[k].it <= s
  BY <1>2 DEF EndIt
<1> QED BY <1>1, <1>3, <1>4, <1>5, <1>6 DEF Places, Stays

LEMMA PopPlaces ==
  ASSUME NEW q, NEW s \in Nat, NEW ins \in Nat, NEW st, NEW tt, Len(st) \in Nat, Len(q) \in Nat,
         Places(q, s, ins, st), Len(st) > 0, Len(tt) = Len(st) - 1,
         \A k \in 1..Len(st)-1 : tt[k] = st[k], ~InPass(st[Len(st)])
  PROVE  Places(q, s, ins, tt) /\ (Stays(q, s, ins, st) => Stays(q, s, ins, tt))
<1>1. Innermost(st) = Len(st) - 1  BY DEF Innermost
<1>2. Len(st) - 1 > 0 => Innermost(tt) = Len(st) - 1
  <2> SUFFICES ASSUME Len(st) - 1 > 0 PROVE Innermost(tt) = Len(st) - 1  OBVIOUS
  <2>1. Len(st) - 1 \in 1..Len(st)-1  OBVIOUS
  <2>2. st[Len(st)-1].pc = "handler" /\ tt[Len(st)-1] = st[Len(st)-1]  BY <2>1 DEF Places
  <2>3. InPass(tt[Len(tt)]) /\ Len(tt) > 0  BY <2>2 DEF InPass
  <2>4. Innermost(tt) = Len(tt)  BY <2>3, Zenon DEF Innermost
  <2> QED BY <2>4
<1>3. Len(st) - 1 = 0 => ~(Innermost(tt) > 0)
  <2> SUFFICES ASSUME Len(st) - 1 = 0 PROVE ~(Innermost(tt) > 0)  OBVIOUS
  <2>1. Len(tt) = 0  OBVIOUS
  <2>2. ~(Len(tt) > 0)  BY ONLY <2>1
  <2>3. Innermost(tt) = Len(tt) - 1  BY <2>2, Zenon DEF Innermost
  <2> QED BY <2>1, <2>3
<1>4. \A k \in 1..Len(tt) : k \in 1..Len(st) /\ tt[k] = st[k]  OBVIOUS
<1>5. \A k \in 1..Len(tt)-1 : k \in 1..Len(st)-1  OBVIOUS
<1>6. /\ \A k \in 1..Len(tt) : tt[k].it \in -1..Len(q)
      /\ \A k \in 1..Len(tt)-1 : tt[k].pc = "handler"
      /\ (\A k \in 1..Len(st) : st[k].it <= s) => \A k \in 1..Len(tt) : tt[k].it <= s
  BY <1>4, <1>5 DEF Places
<1> DEFINE d == Len(st) - 1
<1>7. ASSUME Innermost(tt) > 0
      PROVE  Innermost(tt) = d /\ Innermost(st) = d /\ d > 0 /\ tt[d] = st[d]
  <2>1. d # 0  BY <1>3, <1>7
  <2>2. d > 0 /\ d \in 1..Len(st)-1  BY <2>1
  <2> QED BY <1>1, <1>2, <2>2
<1> HIDE DEF d
<1>8. Places(q, s, ins, tt)
  <2>1. /\ s <= Len(q) /\ s <= ins /\ \A i \in 1..s : ~Live(q[i])  BY DEF Places
  <2>2. ASSUME Innermost(tt) > 0
        PROVE  /\ tt[Innermost(tt)].it \in {DanglingIt, EndIt, s+1} \/ s = ins
               /\ tt[Innermost(tt)].it = EndIt
                    => s = ins \/ \A k \in 1..Len(tt) : tt[k].it <= s
    BY <1>6, <1>7, <2>2 DEF Places
  <2> QED BY <1>6, <2>1, <2>2 DEF Places
<1>9. Stays(q, s, ins, st) => Stays(q, s, ins, tt)  BY <1>7 DEF Stays
<1> QED BY <1>8, <1>9

(* A pass begins. *)
LEMMA BeginPlaces ==
  ASSUME NEW q, NEW s \in Nat, NEW ins \in Nat, NEW st, NEW tt, Len(st) \in Nat, Len(q) \in Nat,
         Places(q, s, ins, st), Len(st) > 0, Len(tt) = Len(st),
         \A k \in 1..Len(st)-1 : tt[k] = st[k], InPass(tt[Len(st)]),
         tt[Len(st)].it = IF s < Len(q) THEN s + 1 ELSE EndIt
  PROVE  Places(q, s, Len(q), tt) /\ Stays(q, s, Len(q), tt)
<1>1. Innermost(tt) = Len(st)  BY DEF Innermost
<1>2. ASSUME NEW k \in 1..Len(st) PROVE (k \in 1..Len(st)-1 /\ tt[k] = st[k]) \/ k = Len(st)
  BY <1>2
<1>3. s <= Len(q)  BY DEF Places
<1>4. \A k \in 1..Len(st) : tt[k].it \in -1..Len(q)
  BY <1>2, <1>3 DEF Places, EndIt
<1>5. \A k \in 1..Len(st)-1 : tt[k].pc = "handler"  BY DEF Places
<1>6. s < Len(q) \/ s = Len(q)  BY <1>3
<1> QED BY <1>1, <1>3, <1>4, <1>5, <1>6 DEF Places, Stays, EndIt

(* A pass goes on to the next entry. *)
LEMMA NextPlaces ==
  ASSUME NEW q, NEW r, NEW s \in Nat, NEW ins \in Nat, NEW st, NEW tt,
         Len(st) \in Nat, Len(q) \in Nat,
         Places(q, s, ins, st), Len(st) > 0, InPass(st[Len(st)]),
         s < Len(q), s < ins, st[Len(st)].it \notin {DanglingIt, EndIt},
         Len(r) = Len(q), \A i \in 1..s+1 : ~Live(r[i]),
         Len(tt) = Len(st), \A k \in 1..Len(st)-1 : tt[k] = st[k], InPass(tt[Len(st)]),
         tt[Len(st)].it = IF s + 1 = Len(q) THEN EndIt ELSE s + 2
  PROVE  Places(r, s+1, ins, tt) /\ (Stays(q, s, ins, st) => Stays(r, s+1, ins, tt))
<1>1. Innermost(st) = Len(st) /\ Innermost(tt) = Len(st)  BY DEF Innermost
<1>2. ASSUME NEW k \in 1..Len(st) PROVE (k \in 1..Len(st)-1 /\ tt[k] = st[k]) \/ k = Len(st)
  BY <1>2
<1>3. \A k \in 1..Len(st) : tt[k].it \in -1..Len(q)
  BY <1>2 DEF Places, EndIt
<1>4. \A k \in 1..Len(st)-1 : tt[k].pc = "handler"  BY DEF Places
<1> QED BY <1>1, <1>3, <1>4 DEF Places, Stays, EndIt

(* An entry is put behind all that the pass still looks at. *)
LEMMA PutPlaces ==
  ASSUME NEW q, NEW r, NEW s \in Nat, NEW ins \in Nat, NEW st, NEW tt, NEW pos, NEW x,
         Len(st) \in Nat, Len(q) \in Nat, Places(q, s, ins, st), Puts(r, q, pos, x),
         pos > ins \/ pos = Len(q) + 1, Len(tt) = Len(st),
         \A k \in 1..Len(st) : /\ tt[k].pc = st[k].pc
                               /\ tt[k].it = IF st[k].it >= pos THEN st[k].it + 1 ELSE st[k].it
  PROVE  Places(r, s, ins, tt) /\ (Stays(q, s, ins, st) => Stays(r, s, ins, tt))
<1>0. pos \in 1..Len(q)+1 /\ Len(r) = Len(q) + 1 /\ s <= Len(q) /\ s <= ins /\ pos > s
  BY DEF Puts, Places
<1>1. Innermost(tt) = Innermost(st)  BY DEF Innermost, InPass
<1>2. Innermost(st) > 0 => Innermost(st) \in 1..Len(st)  BY DEF Innermost
<1>3. \A i \in 1..s : ~Live(r[i])
  <2> SUFFICES ASSUME NEW i \in 1..s PROVE ~Live(r[i])  OBVIOUS
  <2>1. r[i] = q[i]  BY <1>0 DEF Puts
  <2> QED BY <2>1 DEF Places
<1>4. \A k \in 1..Len(st) : tt[k].it \in -1..Len(r) /\ (st[k].it <= s => tt[k].it = st[k].it)
  BY <1>0 DEF Places
<1>5. \A k \in 1..Len(st)-1 : tt[k].pc = "handler"  BY DEF Places
<1> DEFINE d == Innermost(st)
<1>6. ASSUME d > 0
      PROVE  /\ st[d].it = EndIt <=> tt[d].it = EndIt
             /\ st[d].it = DanglingIt <=> tt[d].it = DanglingIt
             /\ st[d].it = s+1 => tt[d].it = s+1 \/ s = ins
  <2>1. d \in 1..Len(st) /\ st[d].it \in -1..Len(q)  BY <1>2, <1>6 DEF Places
  <2> HIDE DEF d
  <2>2. tt[d].it = IF st[d].it >= pos THEN st[d].it + 1 ELSE st[d].it  BY <2>1
  <2> QED BY <1>0, <2>1, <2>2 DEF EndIt, DanglingIt
<1> HIDE DEF d
<1>7. ASSUME d > 0
      PROVE  /\ tt[d].it \in {DanglingIt, EndIt, s+1} \/ s = ins
             /\ tt[d].it = EndIt => s = ins \/ \A k \in 1..Len(st) : tt[k].it <= s
  <2>1. /\ st[d].it \in {DanglingIt, EndIt, s+1} \/ s = ins
        /\ st[d].it = EndIt => s = ins \/ \A k \in 1..Len(st) : st[k].it <= s
    BY <1>7 DEF Places, d
  <2>2. CASE s = ins  BY <2>2
  <2>3. CASE s # ins
    <3>1. tt[d].it \in {DanglingIt, EndIt, s+1}  BY <1>6, <1>7, <2>1, <2>3
    <3>2. ASSUME tt[d].it = EndIt PROVE \A k \in 1..Len(st) : tt[k].it <= s
      <4>1. \A k \in 1..Len(st) : st[k].it <= s  BY <1>6, <1>7, <2>1, <2>3, <3>2
      <4> QED BY <1>4, <4>1
    <3> QED BY <3>1, <3>2
  <2> QED BY <2>2, <2>3
<1>8. Places(r, s, ins, tt)
  <2>1. s <= Len(r)  BY <1>0
  <2> QED BY <1>0, <1>1, <1>3, <1>4, <1>5, <1>7, <2>1 DEF Places, d
<1>9. ASSUME Stays(q, s, ins, st) PROVE Stays(r, s, ins, tt)
  <2>1. ins <= Len(r)  BY <1>0, <1>9 DEF Stays
  <2>2. d > 0 => tt[d].it = s+1 \/ s = ins  BY <1>6, <1>9 DEF Stays, d
  <2> QED BY <1>1, <2>1, <2>2 DEF Stays, d
<1> QED BY <1>8, <1>9

(* A pass ends: what it has looked at is erased.                               *)
LEMMA EndPlaces ==
  ASSUME NEW q, NEW r, NEW s \in Nat, NEW ins \in Nat, NEW st, NEW tt,
         Len(st) \in Nat, Len(q) \in Nat, Places(q, s, ins, st), Len(st) > 0,
         InPass(st[Len(st)]), ~(s < Len(q) /\ st[Len(st)].it # EndIt /\ s < ins),
         Len(r) = Len(q) - s, Len(tt) = Len(st),
         ~InPass(tt[Len(st)]), tt[Len(st)].it = EndIt,
         \A k \in 1..Len(st)-1 :
            /\ tt[k].pc = st[k].pc
            /\ tt[k].it = IF st[k].it < 1 THEN st[k].it
                          ELSE IF st[k].it <= s THEN DanglingIt ELSE st[k].it - s
  PROVE  Places(r, 0, ins-s, tt) /\ (Stays(q, s, ins, st) => Stays(r, 0, ins-s, tt))
<1>0. s <= Len(q) /\ s <= ins /\ Innermost(st) = Len(st) /\ Innermost(tt) = Len(st) - 1
  BY DEF Places, Innermost
<1>1. ASSUME NEW k \in 1..Len(st)-1
      PROVE  /\ st[k].it \in -1..Len(q) /\ tt[k].it \in -1..Len(r)
             /\ st[k].it <= s => tt[k].it \in {DanglingIt, EndIt}
  <2>1. st[k].it \in -1..Len(q)  BY DEF Places
  <2>2. tt[k].it = IF st[k].it < 1 THEN st[k].it
                   ELSE IF st[k].it <= s THEN DanglingIt ELSE st[k].it - s
    OBVIOUS
  <2>3. tt[k].it \in -1..Len(r) /\ (st[k].it <= s => tt[k].it \in {DanglingIt, EndIt})
    <3> DEFINE a == st[k].it  b == tt[k].it  n == Len(q)  m == Len(r)
    <3>1. /\ a \in -1..n /\ n \in Nat /\ s \in Nat /\ s <= n /\ m = n - s
          /\ b = IF a < 1 THEN a ELSE IF a <= s THEN DanglingIt ELSE a - s
      BY <1>0, <2>1, <2>2
    <3> HIDE DEF a, b, n, m
    <3>2. a < 1 => b \in -1..m /\ (a <= s => b \in {DanglingIt, EndIt})
      BY ONLY <3>1 DEF DanglingIt, EndIt
    <3>3. ~(a < 1) /\ a <= s => b \in -1..m /\ b = DanglingIt
      BY ONLY <3>1 DEF DanglingIt
    <3>4. ~(a < 1) /\ ~(a <= s) => b \in -1..m
      BY ONLY <3>1
    <3>5. b \in -1..m /\ (a <= s => b \in {DanglingIt, EndIt})
      BY ONLY <3>2, <3>3, <3>4
    <3> QED BY <3>5 DEF a, b, m
  <2> QED BY <2>1, <2>3
<1>2. s = ins \/ \A k \in 1..Len(st)-1 : tt[k].it \in {DanglingIt, EndIt}
  <2> SUFFICES ASSUME s # ins, NEW k \in 1..Len(st)-1 PROVE st[k].it <= s
    BY <1>1
  <2>1. CASE s = Len(q)  BY <1>0, <1>1, <2>1
  <2>2. CASE s # Len(q)
    <3>1. st[Len(st)].it = EndIt  BY <1>0, <2>2
    <3>2. \A j \in 1..Len(st) : st[j].it <= s  BY <1>0, <3>1 DEF Places
    <3> QED BY <3>2
  <2> QED BY <2>1, <2>2
<1>3. \A k \in 1..Len(st) : tt[k].it \in -1..Len(r)
  <2> SUFFICES ASSUME NEW k \in 1..Len(st) PROVE tt[k].it \in -1..Len(r)  OBVIOUS
  <2>1. k \in 1..Len(st)-1 \/ k = Len(st)  OBVIOUS
  <2>2. EndIt \in -1..Len(r)  BY <1>0 DEF EndIt
  <2> QED BY <1>1, <2>1, <2>2
<1>4. \A k \in 1..Len(st)-1 : tt[k].pc = "handler"  BY DEF Places
<1>5. Len(st) - 1 > 0 => Len(st) - 1 \in 1..Len(st)-1  OBVIOUS
<1>6. s = ins => ins - s = 0  OBVIOUS
<1>7. \A k \in 1..Len(st) : s # ins => tt[k].it <= 0
  <2> SUFFICES ASSUME NEW k \in 1..Len(st), s # ins PROVE tt[k].it <= 0  OBVIOUS
  <2>1. k \in 1..Len(st)-1 \/ k = Len(st)  OBVIOUS
  <2> QED BY <1>2, <2>1 DEF DanglingIt, EndIt
<1>8. Places(r, 0, ins-s, tt)
  <2>1. 0 <= Len(r) /\ 0 <= ins - s /\ \A i \in 1..0 : ~Live(r[i])  BY <1>0
  <2>2. ASSUME Len(st) - 1 > 0
        PROVE  /\ tt[Len(st)-1].it \in {DanglingIt, EndIt, 0+1} \/ 0 = ins - s
               /\ tt[Len(st)-1].it = EndIt => 0 = ins - s \/ \A k \in 1..Len(st) : tt[k].it <= 0
    BY <1>2, <1>5, <1>6, <1>7, <2>2
  <2> QED BY <1>0, <1>3, <1>4, <2>1, <2>2 DEF Places
<1>9. ASSUME Stays(q, s, ins, st) PROVE Stays(r, 0, ins-s, tt)
  <2>1. ins <= Len(q) /\ (st[Len(st)].it = s+1 \/ s = ins)  BY <1>0, <1>9 DEF Stays
  <2>2. s = ins  BY <1>0, <2>1 DEF EndIt
  <2> QED BY <1>0, <2>1, <2>2 DEF Stays
<1> QED BY <1>8, <1>9

(* Erased nodes: the list keeps its order, and the iterators their entries.    *)
LEMMA WithoutKeeps ==
  ASSUME queue \in Seq(Entry), NEW gone \in SUBSET (DOMAIN queue)
  PROVE  LET r == Without(gone) IN
         /\ r \in Seq(Entry)
         /\ \E f : Left(r, queue, f) /\ \A i \in DOMAIN r : f[i] >= i
         /\ \A e \in Events, o \in Objects :
               Has(r, e, o) <=> \E k \in DOMAIN queue \ gone : queue[k].ev = e /\ queue[k].obj = o
<1> DEFINE r == Without(gone)
           kept == DOMAIN queue \ gone
           f == [i \in DOMAIN r |-> CHOOSE k \in kept : Rank(gone, k) = i /\ r[i] = queue[k]]
<1>1. /\ r \in Seq(Entry) /\ DOMAIN r = 1..Len(r)
      /\ \A k \in kept : Rank(gone, k) \in 1..Len(r) /\ r[Rank(gone, k)] = queue[k]
      /\ \A i \in 1..Len(r) : \E k \in kept : Rank(gone, k) = i /\ r[i] = queue[k]
  BY WithoutIs, LenProperties
<1>2. /\ \A k \in kept : Rank(gone, k) <= k
      /\ \A j, k \in kept : j < k => Rank(gone, j) < Rank(gone, k)
  BY RankIs
<1>3. /\ \A k \in kept : k \in Nat /\ k \in DOMAIN queue
      /\ \A i \in DOMAIN r : i \in Nat
  <2>1. DOMAIN queue \subseteq Nat  BY LenProperties
  <2>2. \A i \in 1..Len(r) : i \in Nat  OBVIOUS
  <2> HIDE DEF r
  <2> QED BY <1>1, <2>1, <2>2
<1> HIDE DEF r, kept
<1>4. \A i \in DOMAIN r : f[i] \in kept /\ Rank(gone, f[i]) = i /\ r[i] = queue[f[i]]
  BY <1>1
<1>5. f \in [DOMAIN r -> DOMAIN queue]  BY <1>3, <1>4
<1> HIDE DEF f
<1>6. ASSUME NEW i \in DOMAIN r, NEW j \in DOMAIN r, i < j PROVE f[i] < f[j]
  <2>1. f[i] \in Nat /\ f[j] \in Nat /\ i \in Nat /\ j \in Nat  BY <1>1, <1>3, <1>4
  <2>2. f[i] # f[j]  BY <1>4, <1>6, <2>1
  <2>3. ~(f[j] < f[i])
    <3> SUFFICES ASSUME f[j] < f[i] PROVE FALSE  OBVIOUS
    <3>1. j < i  BY <1>2, <1>4
    <3> QED BY <1>6, <2>1, <3>1
  <2> QED BY <2>1, <2>2, <2>3
<1>7. \A i \in DOMAIN r : Same(r[i], queue[f[i]]) /\ r[i].ev = queue[f[i]].ev
  BY <1>4 DEF Same
<1>8. Left(r, queue, f)  BY <1>5, <1>6, <1>7 DEF Left
<1>9. ASSUME NEW i \in DOMAIN r PROVE f[i] >= i
  <2>1. f[i] \in Nat /\ i \in Nat  BY <1>1, <1>3, <1>4
  <2>2. Rank(gone, f[i]) = i /\ Rank(gone, f[i]) <= f[i]  BY <1>2, <1>4
  <2> QED BY <2>1, <2>2
<1>10. ASSUME NEW e \in Events, NEW o \in Objects
       PROVE  Has(r, e, o) <=> \E k \in kept : queue[k].ev = e /\ queue[k].obj = o
  BY <1>1 DEF Has
<1> QED BY <1>1, <1>8, <1>9, <1>10 DEF r, kept

LEMMA ErasePlaces ==
  ASSUME queue \in Seq(Entry), NEW gone \in SUBSET (DOMAIN queue), \A g \in gone : Live(queue[g]),
         NEW s \in Nat, NEW ins \in Nat, NEW st, NEW tt, Len(st) \in Nat,
         Places(queue, s, ins, st), Len(tt) = Len(st),
         \A k \in 1..Len(st) :
            /\ tt[k].pc = st[k].pc
            /\ tt[k].it = IF st[k].it \in gone THEN DanglingIt
                          ELSE IF st[k].it > 0 THEN Rank(gone, st[k].it) ELSE st[k].it
  PROVE  Places(Without(gone), s, ins, tt)
<1> DEFINE r == Without(gone)
           kept == DOMAIN queue \ gone
<1>1. /\ r \in Seq(Entry) /\ Len(r) \in Nat /\ Len(r) <= Len(queue)
      /\ \A k \in kept : Rank(gone, k) \in 1..Len(r) /\ r[Rank(gone, k)] = queue[k]
  BY WithoutIs, LenProperties
<1>2. \A k \in 1..Len(queue) : (\A g \in gone : g >= k) => Rank(gone, k) = k
  BY RankIs
<1>3. /\ DOMAIN queue = 1..Len(queue) /\ Len(queue) \in Nat
      /\ s <= Len(queue) /\ s <= ins /\ \A i \in 1..s : ~Live(queue[i])
  BY LenProperties DEF Places
<1>4. \A g \in gone : g > s  BY <1>3
<1>5. ASSUME NEW i \in 1..s PROVE i \in kept /\ Rank(gone, i) = i
  <2>1. i \in 1..Len(queue) /\ i \notin gone  BY <1>3
  <2>2. \A g \in gone : g >= i  BY <1>3, <1>4
  <2> QED BY <1>2, <1>3, <2>1, <2>2
<1> HIDE DEF r, kept
<1>6. s <= Len(r)
  <2>1. CASE s = 0  BY <1>1, <2>1
  <2>2. CASE s # 0
    <3>1. s \in 1..s  BY <2>2
    <3> QED BY <1>1, <1>5, <3>1
  <2> QED BY <2>1, <2>2
<1>7. \A i \in 1..s : ~Live(r[i])  BY <1>1, <1>3, <1>5
<1>8. ASSUME NEW k \in 1..Len(st)
      PROVE  /\ tt[k].it \in -1..Len(r) /\ (tt[k].it = EndIt => st[k].it = EndIt)
             /\ st[k].it = DanglingIt => tt[k].it = DanglingIt
             /\ st[k].it = EndIt => tt[k].it = EndIt
             /\ st[k].it = s+1 => tt[k].it \in {DanglingIt, s+1}
             /\ st[k].it <= s => tt[k].it <= s
  <2>1. st[k].it \in -1..Len(queue)  BY DEF Places
  <2>2. CASE st[k].it \in gone
    <3>1. tt[k].it = DanglingIt /\ st[k].it > s /\ st[k].it \in 1..Len(queue)
      BY <1>3, <1>4, <2>2
    <3> QED BY <1>1, <1>3, <3>1 DEF DanglingIt, EndIt
  <2>3. CASE st[k].it \notin gone /\ st[k].it > 0
    <3>1. st[k].it \in kept /\ tt[k].it = Rank(gone, st[k].it)
      BY <1>3, <2>1, <2>3 DEF kept
    <3>2. tt[k].it \in 1..Len(r)  BY <1>1, <3>1
    <3>3. st[k].it <= s => tt[k].it = st[k].it  BY <1>5, <2>1, <2>3, <3>1
    <3>4. st[k].it = s+1 => tt[k].it = s+1
      <4> SUFFICES ASSUME st[k].it = s+1 PROVE Rank(gone, s+1) = s+1  BY <3>1
      <4>1. s+1 \in 1..Len(queue)  BY <2>1, <2>3
      <4>2. \A g \in gone : g >= s+1  BY <1>3, <1>4
      <4> QED BY <1>2, <4>1, <4>2
    <3> QED BY <1>1, <2>1, <2>3, <3>2, <3>3, <3>4 DEF DanglingIt, EndIt
  <2>4. CASE st[k].it \notin gone /\ ~(st[k].it > 0)
    <3>1. tt[k].it = st[k].it /\ st[k].it \in {-1, 0}  BY <2>1, <2>4
    <3> QED BY <1>1, <3>1 DEF DanglingIt, EndIt
  <2> QED BY <2>2, <2>3, <2>4
<1>9. Innermost(tt) = Innermost(st)  BY DEF Innermost, InPass
<1>10. Innermost(st) > 0 => Innermost(st) \in 1..Len(st)  BY DEF Innermost
<1>11. \A k \in 1..Len(st)-1 : tt[k].pc = "handler"
  <2> SUFFICES ASSUME NEW k \in 1..Len(st)-1 PROVE tt[k].pc = "handler"  OBVIOUS
  <2>1. k \in 1..Len(st) /\ st[k].pc = "handler"  BY DEF Places
  <2> QED BY <2>1
<1> DEFINE d == Innermost(st)
<1> HIDE DEF d
<1>12. ASSUME d > 0
       PROVE  /\ tt[d].it \in {DanglingIt, EndIt, s+1} \/ s = ins
              /\ tt[d].it = EndIt => s = ins \/ \A k \in 1..Len(st) : tt[k].it <= s
  <2>1. /\ d \in 1..Len(st)
        /\ st[d].it \in {DanglingIt, EndIt, s+1} \/ s = ins
        /\ st[d].it = EndIt => s = ins \/ \A k \in 1..Len(st) : st[k].it <= s
    BY <1>10, <1>12 DEF Places, d
  <2> QED BY <1>8, <2>1
<1>13. Places(r, s, ins, tt)  
  BY <1>3, <1>6, <1>7, <1>8, <1>9, <1>11, <1>12 DEF Places, d
<1> QED BY <1>13 DEF r

------------------------------------------------------------------------------
(* Frames.                                                                     *)
TopBecomes(l) ==
    /\ stack' \in Seq(Frame) /\ Len(stack') = Depth /\ stack'[Depth] = l
    /\ \A k \in 1..Depth-1 : stack'[k] = stack[k]

LEMMA TopIs ==
  ASSUME Typed, Depth > 0
  PROVE  /\ Depth \in 1..Len(stack) /\ Depth \in Nat /\ Top \in Frame
         /\ DOMAIN stack = 1..Depth
  BY LenProperties DEF Typed, Depth, Top

WithTop(l) == [stack EXCEPT ![Depth] = l]

LEMMA TopSetIs ==
  ASSUME Typed, Depth > 0, NEW l \in Frame, NEW tt, tt = WithTop(l)
  PROVE  /\ tt \in Seq(Frame) /\ Len(tt) = Depth /\ tt[Depth] = l
         /\ \A k \in 1..Depth-1 : tt[k] = stack[k]
<1>1. stack \in Seq(Frame) /\ Depth \in 1..Len(stack) /\ Depth \in Nat  BY TopIs DEF Typed
<1> DEFINE S == Frame
<1>2. stack \in Seq(S) /\ l \in S  BY <1>1
<1> HIDE DEF S
<1>3. /\ [stack EXCEPT ![Depth] = l] \in Seq(S)
      /\ Len([stack EXCEPT ![Depth] = l]) = Len(stack)
      /\ \A j \in 1..Len(stack) :
            [stack EXCEPT ![Depth] = l][j] = IF j = Depth THEN l ELSE stack[j]
  BY <1>1, <1>2, ExceptSeq
<1>4. \A k \in 1..Depth-1 : k \in 1..Len(stack) /\ k # Depth  BY <1>1 DEF Depth
<1>5. tt \in Seq(S) /\ Len(tt) = Depth /\ tt[Depth] = l /\ \A k \in 1..Depth-1 : tt[k] = stack[k]
  BY <1>1, <1>3, <1>4 DEF Depth, WithTop
<1> QED BY <1>5 DEF S

LEMMA TopBecomesIs ==
  ASSUME Typed, Depth > 0, NEW l \in Frame, stack' = [stack EXCEPT ![Depth] = l]
  PROVE  TopBecomes(l)
<1>1. stack' = WithTop(l)  BY DEF WithTop
<1> DEFINE tt == stack'
<1>2. tt = WithTop(l)  BY <1>1
<1> HIDE DEF tt
<1>3. /\ tt \in Seq(Frame) /\ Len(tt) = Depth /\ tt[Depth] = l
      /\ \A k \in 1..Depth-1 : tt[k] = stack[k]
  BY <1>2, TopSetIs
<1> QED BY <1>3 DEF TopBecomes, tt

LEMMA GotoIs ==
  ASSUME Typed, Depth > 0, NEW v, v \in {"prepare", "poll", "drained", "check", "dispatch",
                                        "scan", "handler", "delete", "test", "freed"}, Goto(v)
  PROVE  TopBecomes([Top EXCEPT !.pc = v])
<1>1. stack' = [stack EXCEPT ![Depth] = [Top EXCEPT !.pc = v]]  BY DEF Goto, Top
<1>2. [Top EXCEPT !.pc = v] \in Frame  BY TopIs DEF Frame
<1> QED BY <1>1, <1>2, TopBecomesIs

------------------------------------------------------------------------------
(* The invariant of the list and of the passes over it. *)
Unmoved == \A o \in Objects : home[o] # "moved"
Doing == At("delete") => Top.obj \in Objects /\ home[Top.obj] # "moved"
Ordered == InOrder(queue) /\ TailSorted(queue, insertionOffset)
Placed ==
    /\ Places(queue, startOffset, insertionOffset, stack)
    /\ Unmoved => Stays(queue, startOffset, insertionOffset, stack)
EQInv == Typed /\ Books /\ Ordered /\ Placed /\ Doing

LEMMA InitEQ == Init => EQInv
<1> SUFFICES ASSUME Init PROVE EQInv  OBVIOUS
<1>1. /\ queue = <<>> /\ Len(queue) = 0 /\ DOMAIN queue = 1..0 /\ startOffset = 0
      /\ insertionOffset = 0 /\ queue \in Seq(Entry)
  BY DEF Init
<1>2. /\ stack = <<Loop("test")>> /\ Len(stack) = 1 /\ stack[1] = Loop("test")
      /\ Loop("test") \in Frame /\ stack \in Seq(Frame)
  <2>1. stack = <<Loop("test")>>  BY DEF Init
  <2>2. Loop("test") \in Frame  BY DEF Loop, Frame, EndIt
  <2> DEFINE l == Loop("test")
             S == Frame
  <2>3. stack = <<l>> /\ l \in S  BY <2>1, <2>2
  <2> HIDE DEF l, S
  <2>4. Len(stack) = 1 /\ stack[1] = l /\ stack \in Seq(S)  BY <2>3
  <2> QED BY <2>1, <2>2, <2>4 DEF l, S
<1>3. Typed  BY <1>1, <1>2 DEF Init, Typed
<1>4. \A e, o : ~Has(queue, e, o)  BY <1>1 DEF Has
<1>5. Books
  <2>1. \A o : Of(queue, o) = {}  BY <1>4 DEF Of
  <2>2. Cardinality({}) = 0  BY FS_EmptySet
  <2>3. Unique(queue)  BY <1>1 DEF Unique
  <2>4. Known /\ Here /\ Numbered  BY <1>4 DEF Known, Here, Numbered, Init
  <2>5. Counted  BY <2>1, <2>2 DEF Counted, Init
  <2> QED BY <2>3, <2>4, <2>5 DEF Books
<1>6. Ordered  BY <1>1 DEF Ordered, InOrder, TailSorted
<1>7. Innermost(stack) = 0
  <2>1. ~InPass(stack[Len(stack)])  BY <1>2 DEF InPass, Loop
  <2>2. Innermost(stack) = Len(stack) - 1  BY <2>1, Zenon DEF Innermost
  <2> QED BY <1>2, <2>2
<1>8. Placed
  <2>1. \A k \in 1..1 : stack[k].it \in -1..0  BY <1>2 DEF Loop, EndIt
  <2>2. \A k \in 1..1-1 : stack[k].pc = "handler"  OBVIOUS
  <2>3. \A i \in 1..0 : ~Live(queue[i])  OBVIOUS
  <2>4. ~(Innermost(stack) > 0)  BY ONLY <1>7
  <2>5. Places(queue, 0, 0, stack)  BY <1>1, <1>2, <2>1, <2>2, <2>3, <2>4 DEF Places
  <2>6. Stays(queue, 0, 0, stack)  BY <1>1, <2>4 DEF Stays
  <2> QED BY <1>1, <2>5, <2>6 DEF Placed
<1>9. Doing
  <2>1. Top.pc = "test"  BY <1>2 DEF Top, Depth, Loop
  <2> QED BY <2>1 DEF Doing, At
<1> QED BY <1>3, <1>5, <1>6, <1>8, <1>9 DEF EQInv

(* Steps that leave list and objects alone.                                    *)
LEMMA SameList ==
  ASSUME EQInv, UNCHANGED <<list, objs>>
  PROVE  Books' /\ Ordered' /\ (Unmoved' <=> Unmoved)
  BY DEF EQInv, list, objs, Books, Known, Here, Counted, Numbered, Ordered, Unmoved

(* The top loop is elsewhere in its pass, or elsewhere outside of it.          *)
LEMMA QuietTop ==
  ASSUME EQInv, Depth > 0, NEW l, TopBecomes(l), l.it = Top.it, l.pc # "delete",
         InPass(l) <=> InPass(Top), UNCHANGED <<list, objs>>
  PROVE  EQInv'
<1>1. Typed'  BY DEF EQInv, Typed, TopBecomes, list, objs
<1>2. Books' /\ Ordered' /\ (Unmoved' <=> Unmoved)  BY SameList
<1>3. Depth \in Nat /\ Depth = Len(stack) /\ Top = stack[Depth]
  BY TopIs DEF EQInv, Depth, Top
<1>4. /\ Len(stack') = Len(stack) /\ \A k \in 1..Len(stack) : stack'[k].it = stack[k].it
      /\ \A k \in 1..Len(stack)-1 : stack'[k].pc = "handler"
      /\ InPass(stack'[Len(stack)]) <=> InPass(stack[Len(stack)])
  <2>1. /\ Len(stack') = Depth /\ stack'[Depth] = l /\ \A k \in 1..Depth-1 : stack'[k] = stack[k]
    BY DEF TopBecomes
  <2>2. \A k \in 1..Depth : k \in 1..Depth-1 \/ k = Depth  BY <1>3
  <2>3. \A k \in 1..Depth-1 : stack[k].pc = "handler"  BY <1>3 DEF EQInv, Placed, Places
  <2> QED BY <1>3, <2>1, <2>2, <2>3
<1>5. UNCHANGED <<queue, startOffset, insertionOffset>>  BY DEF list
<1>6. \A i \in 1..startOffset : ~Live(queue[i])  BY DEF EQInv, Placed, Places
<1>7. /\ Places(queue, startOffset, insertionOffset, stack')
      /\ Stays(queue, startOffset, insertionOffset, stack)
           => Stays(queue, startOffset, insertionOffset, stack')
  <2>1. Places(queue, startOffset, insertionOffset, stack) /\ Len(stack) \in Nat
    BY <1>3 DEF EQInv, Placed
  <2> QED BY <1>3, <1>4, <1>6, <2>1, StillPlaces
<1>8. Placed'  BY <1>2, <1>5, <1>7 DEF EQInv, Placed
<1>9. Doing'
  <2>1. stack'[Len(stack')] = l  BY <1>3 DEF TopBecomes
  <2> QED BY <2>1 DEF Doing, At, Top, Depth
<1> QED BY <1>1, <1>2, <1>8, <1>9 DEF EQInv

LEMMA QuietGoto ==
  ASSUME EQInv, Depth > 0, UNCHANGED <<list, objs>>, NEW v,
         v \in {"prepare", "poll", "drained", "check", "dispatch", "scan", "handler", "test",
                "freed"},
         Goto(v), v \in {"scan", "handler", "freed"} <=> InPass(Top)
  PROVE  EQInv'
<1> DEFINE l == [Top EXCEPT !.pc = v]
<1>1. TopBecomes(l)  BY GotoIs DEF EQInv
<1>2. l.pc = v /\ l.it = Top.it  BY TopIs DEF EQInv, Frame
<1> HIDE DEF l
<1>3. InPass(l) <=> InPass(Top)  BY <1>2 DEF InPass
<1>4. l.pc # "delete"  BY <1>2
<1> QED BY <1>1, <1>2, <1>3, <1>4, QuietTop

LEMMA StepTestExit == ASSUME EQInv, TestExit PROVE EQInv'
<1>0. Depth > 0 /\ Top.pc = "test" /\ UNCHANGED <<list, objs>> /\ ~InPass(Top)
  BY DEF TestExit, At, InPass
<1>1. CASE ~Top.exit
  <2>1. Goto("prepare")  BY <1>1 DEF TestExit, Goto
  <2> QED BY <1>0, <2>1, QuietGoto
<1>2. CASE Top.exit
  <2>0. stack \in Seq(Frame) /\ Depth \in 1..Len(stack) /\ Depth \in Nat /\ Depth = Len(stack)
    BY <1>0, TopIs DEF EQInv, Typed, Depth
  <2>1. /\ stack' \in Seq(Frame) /\ Len(stack') = Len(stack) - 1
        /\ \A k \in 1..Len(stack)-1 : stack'[k] = stack[k]
    <3> DEFINE n == Len(stack) - 1
               S == Frame
    <3>1. stack' = SubSeq(stack, 1, n)  BY <1>2 DEF TestExit, Front
    <3>2. n \in Int /\ n >= 0 /\ \A i \in 1..n : stack[i] \in S  BY <2>0
    <3> HIDE DEF n, S
    <3>3. /\ SubSeq(stack, 1, n) \in Seq(S) /\ Len(SubSeq(stack, 1, n)) = IF 1 <= n THEN n-1+1 ELSE 0
          /\ \A i \in 1..n-1+1 : SubSeq(stack, 1, n)[i] = stack[1+i-1]
      BY ONLY <3>2, SubSeqProperties, 1 \in Int
    <3>4. /\ SubSeq(stack, 1, n) \in Seq(S) /\ Len(SubSeq(stack, 1, n)) = n
          /\ \A i \in 1..n : SubSeq(stack, 1, n)[i] = stack[i]
      BY <3>2, <3>3
    <3> QED BY <3>1, <3>4 DEF n, S
  <2>2. Books' /\ Ordered' /\ (Unmoved' <=> Unmoved)  BY <1>0, SameList
  <2>3. Typed'  BY <1>0, <2>1 DEF EQInv, Typed, list, objs
  <2>4. /\ Places(queue, startOffset, insertionOffset, stack')
        /\ Stays(queue, startOffset, insertionOffset, stack)
             => Stays(queue, startOffset, insertionOffset, stack')
    <3>1. /\ Places(queue, startOffset, insertionOffset, stack) /\ Len(stack) > 0
          /\ startOffset \in Nat /\ insertionOffset \in Nat /\ Len(queue) \in Nat
          /\ Len(stack) \in Nat /\ ~InPass(stack[Len(stack)])
      BY <1>0, <2>0, LenProperties DEF EQInv, Placed, Typed, Depth, Top
    <3> QED BY <2>1, <3>1, PopPlaces
  <2>5. Placed'  BY <1>0, <2>2, <2>4 DEF EQInv, Placed, list
  <2>6. Doing'
    <3> SUFFICES ASSUME Len(stack') > 0 PROVE stack'[Len(stack')].pc # "delete"
      BY DEF Doing, At, Top, Depth
    <3>1. Len(stack') \in 1..Len(stack)-1  BY <2>0, <2>1
    <3>2. stack[Len(stack')].pc = "handler"  BY <3>1 DEF EQInv, Placed, Places
    <3> QED BY <2>1, <3>1, <3>2
  <2> QED BY <2>2, <2>3, <2>5, <2>6 DEF EQInv
<1> QED BY <1>1, <1>2

LEMMA StepPrepare == ASSUME EQInv, Prepare PROVE EQInv'
<1>0. Depth > 0 /\ Top.pc = "prepare" /\ UNCHANGED <<list, objs>> /\ ~InPass(Top)
  BY DEF Prepare, At, InPass
<1>1. Top \in Frame  BY <1>0, TopIs DEF EQInv
<1> DEFINE b == SourceReady
           l == [[Top EXCEPT !.pc = "poll"] EXCEPT !.ready = b]
<1>2. stack' = [stack EXCEPT ![Depth].pc = "poll", ![Depth].ready = b]  BY DEF Prepare
<1>3. stack' = [stack EXCEPT ![Depth] = l]
  BY <1>2, TopIs, <1>0 DEF EQInv, Top
<1>4. b \in BOOLEAN  BY DEF SourceReady
<1> HIDE DEF b
<1>5. l \in Frame /\ l.pc = "poll" /\ l.it = Top.it  BY <1>1, <1>4 DEF Frame
<1> HIDE DEF l
<1>6. TopBecomes(l)  BY <1>0, <1>3, <1>5, TopBecomesIs DEF EQInv
<1>7. ~InPass(l) /\ l.pc # "delete"  BY <1>5 DEF InPass
<1> QED BY <1>0, <1>5, <1>6, <1>7, QuietTop

LEMMA StepPoll == ASSUME EQInv, Poll PROVE EQInv'
<1>1. /\ Depth > 0 /\ UNCHANGED <<list, objs>> /\ ~InPass(Top)
      /\ (Goto("drained") \/ Goto("check"))
  BY DEF Poll, At, InPass
<1> QED BY <1>1, QuietGoto

LEMMA StepAcknowledged == ASSUME EQInv, Acknowledged PROVE EQInv'
<1>1. Depth > 0 /\ UNCHANGED <<list, objs>> /\ ~InPass(Top) /\ Goto("check")
  BY DEF Acknowledged, At, InPass
<1> QED BY <1>1, QuietGoto

LEMMA StepCheck == ASSUME EQInv, Check PROVE EQInv'
<1>1. /\ Depth > 0 /\ UNCHANGED <<list, objs>> /\ ~InPass(Top)
      /\ (Goto("dispatch") \/ Goto("prepare"))
  BY DEF Check, At, InPass
<1> QED BY <1>1, QuietGoto

LEMMA StepReadFreed == ASSUME EQInv, ReadFreed PROVE EQInv'
<1>1. Depth > 0 /\ UNCHANGED <<list, objs>> /\ InPass(Top) /\ Goto("freed")
  BY DEF ReadFreed, Locked, At, InPass
<1> QED BY <1>1, QuietGoto

LEMMA StepHandlerExits == ASSUME EQInv, HandlerExits PROVE EQInv'
<1>0. Depth > 0 /\ Top.pc = "handler" /\ UNCHANGED <<list, objs>> /\ InPass(Top)
  BY DEF HandlerExits, At, InPass
<1> DEFINE l == [Top EXCEPT !.exit = TRUE]
<1>1. stack' = [stack EXCEPT ![Depth] = l]  BY DEF HandlerExits, Top
<1>2. l \in Frame /\ l.pc = "handler" /\ l.it = Top.it  BY <1>0, TopIs DEF EQInv, Frame
<1> HIDE DEF l
<1>3. TopBecomes(l)  BY <1>0, <1>1, <1>2, TopBecomesIs DEF EQInv
<1>4. InPass(l) /\ l.pc # "delete"  BY <1>2 DEF InPass
<1> QED BY <1>0, <1>2, <1>3, <1>4, QuietTop

(* The top of the stack when a handler has returned. *)
LEMMA ReturnIs ==
  ASSUME Typed, Depth > 0,
         stack' = [stack EXCEPT ![Depth].pc = "scan", ![Depth].obj = "none"]
  PROVE  \E l \in Frame : TopBecomes(l) /\ l.pc = "scan" /\ l.it = Top.it
<1>1. Top \in Frame /\ Depth \in DOMAIN stack  BY TopIs
<1> DEFINE l == [[Top EXCEPT !.pc = "scan"] EXCEPT !.obj = "none"]
<1>2. stack' = [stack EXCEPT ![Depth] = l]  BY <1>1 DEF Top
<1>3. l \in Frame /\ l.pc = "scan" /\ l.it = Top.it  BY <1>1 DEF Frame
<1> HIDE DEF l
<1> QED BY <1>2, <1>3, TopBecomesIs

LEMMA StepHandlerReturns == ASSUME EQInv, HandlerReturns PROVE EQInv'
<1>0. Depth > 0 /\ UNCHANGED <<list, objs>> /\ InPass(Top)
  BY DEF HandlerReturns, At, InPass
<1>1. PICK l \in Frame : TopBecomes(l) /\ l.pc = "scan" /\ l.it = Top.it
  BY <1>0, ReturnIs DEF HandlerReturns, EQInv
<1>2. InPass(l) /\ l.pc # "delete"  BY <1>1 DEF InPass
<1> QED BY <1>0, <1>1, <1>2, QuietTop

LEMMA StepHandlerNests == ASSUME EQInv, HandlerNests PROVE EQInv'
<1>0. /\ Depth > 0 /\ Top.pc = "handler" /\ UNCHANGED <<list, objs>>
      /\ stack' = Append(stack, Loop("test"))
  BY DEF HandlerNests, At, objs
<1> DEFINE l == Loop("test")
           S == Frame
<1>1. l \in S /\ l.it = EndIt /\ l.pc = "test"  BY DEF Loop, Frame, EndIt
<1>2. stack \in Seq(S) /\ Depth = Len(stack) /\ Len(stack) \in Nat
  BY <1>0, TopIs DEF EQInv, Typed, Depth
<1>3. stack' = Append(stack, l)  BY <1>0
<1> HIDE DEF l, S
<1>4. /\ stack' \in Seq(S) /\ Len(stack') = Len(stack) + 1 /\ stack'[Len(stack)+1] = l
      /\ \A k \in 1..Len(stack) : stack'[k] = stack[k]
  BY ONLY <1>1, <1>2, <1>3, AppendProperties
<1>5. Books' /\ Ordered' /\ (Unmoved' <=> Unmoved)  BY <1>0, SameList
<1>6. Typed'  BY <1>0, <1>4 DEF EQInv, Typed, list, objs, S
<1>7. /\ Places(queue, startOffset, insertionOffset, stack')
      /\ Stays(queue, startOffset, insertionOffset, stack)
           => Stays(queue, startOffset, insertionOffset, stack')
  <2>1. /\ Places(queue, startOffset, insertionOffset, stack) /\ Len(stack) > 0
        /\ startOffset \in Nat /\ insertionOffset \in Nat /\ Len(queue) \in Nat
        /\ stack[Len(stack)].pc = "handler"
    BY <1>0, <1>2, LenProperties DEF EQInv, Placed, Typed, Top
  <2>2. ~InPass(stack'[Len(stack)+1]) /\ stack'[Len(stack)+1].it = EndIt
    BY <1>1, <1>4 DEF InPass
  <2> QED BY <1>2, <1>4, <2>1, <2>2, PushPlaces
<1>8. Placed'  BY <1>0, <1>5, <1>7 DEF EQInv, Placed, list
<1>9. Doing'
  <2>1. stack'[Len(stack')] = l  BY <1>4
  <2> QED BY <1>1, <2>1 DEF Doing, At, Top, Depth
<1> QED BY <1>5, <1>6, <1>8, <1>9 DEF EQInv

LEMMA StepPosterExits ==
  ASSUME EQInv, NEW p \in Posters, NEW k, PosterExits(p, k)
  PROVE  EQInv'
<1>0. /\ k \in 1..Len(stack) /\ UNCHANGED <<list, objs>> /\ Len(stack) \in Nat
      /\ stack' = [stack EXCEPT ![k].exit = TRUE] /\ stack \in Seq(Frame)
  BY LenProperties DEF PosterExits, Depth, objs, EQInv, Typed
<1> DEFINE l == [stack[k] EXCEPT !.exit = TRUE]
           S == Frame
<1>1. l \in S /\ l.pc = stack[k].pc /\ l.it = stack[k].it /\ l.obj = stack[k].obj
  <2>1. stack[k] \in Frame  BY <1>0, ElementOfSeq
  <2> QED BY <2>1 DEF Frame
<1>2. stack' = [stack EXCEPT ![k] = l]  BY <1>0
<1>3. stack \in Seq(S)  BY <1>0
<1> HIDE DEF l, S
<1>4. /\ stack' \in Seq(S) /\ Len(stack') = Len(stack)
      /\ \A j \in 1..Len(stack) : stack'[j] = IF j = k THEN l ELSE stack[j]
  <2>1. k \in 1..Len(stack) /\ l \in S  BY <1>0, <1>1
  <2>2. /\ [stack EXCEPT ![k] = l] \in Seq(S) /\ Len([stack EXCEPT ![k] = l]) = Len(stack)
        /\ \A j \in 1..Len(stack) : [stack EXCEPT ![k] = l][j] = IF j = k THEN l ELSE stack[j]
    BY <2>1, <1>3, ExceptSeq
  <2> QED BY <1>2, <2>2
<1>5. \A j \in 1..Len(stack) :
         stack'[j].pc = stack[j].pc /\ stack'[j].it = stack[j].it /\ stack'[j].obj = stack[j].obj
  BY <1>1, <1>4
<1>6. Books' /\ Ordered' /\ (Unmoved' <=> Unmoved)  BY <1>0, SameList
<1>7. Typed'  BY <1>0, <1>4 DEF EQInv, Typed, list, objs, S
<1>8. /\ Places(queue, startOffset, insertionOffset, stack')
      /\ Stays(queue, startOffset, insertionOffset, stack)
           => Stays(queue, startOffset, insertionOffset, stack')
  <2>1. /\ Places(queue, startOffset, insertionOffset, stack)
        /\ \A i \in 1..startOffset : ~Live(queue[i])
    BY DEF EQInv, Placed, Places
  <2>2. \A j \in 1..Len(stack)-1 : j \in 1..Len(stack) /\ stack[j].pc = "handler"
    BY <1>0, <2>1 DEF Places
  <2>3. Len(stack) > 0 => Len(stack) \in 1..Len(stack)  BY <1>0
  <2>4. Len(stack) > 0 => (InPass(stack'[Len(stack)]) <=> InPass(stack[Len(stack)]))
    BY <1>5, <2>3 DEF InPass
  <2>5. /\ \A j \in 1..Len(stack) : stack'[j].it = stack[j].it
        /\ \A j \in 1..Len(stack)-1 : stack'[j].pc = "handler"
    BY <1>5, <2>2
  <2>6. Len(stack') = Len(stack) /\ Len(stack) \in Nat  BY <1>0, <1>4
  <2> QED BY <2>1, <2>4, <2>5, <2>6, StillPlaces
<1>9. Placed'  BY <1>0, <1>6, <1>8 DEF EQInv, Placed, list
<1>10. Doing'
  <2> SUFFICES ASSUME Len(stack') > 0, stack'[Len(stack')].pc = "delete"
               PROVE  /\ stack'[Len(stack')].obj \in Objects
                      /\ home'[stack'[Len(stack')].obj] # "moved"
    BY DEF Doing, At, Top, Depth
  <2>1. Len(stack) \in 1..Len(stack)  BY <1>0, <1>4
  <2>2. stack[Len(stack)].pc = "delete" /\ stack[Len(stack)].obj = stack'[Len(stack')].obj
    BY <1>4, <1>5, <2>1
  <2>3. stack[Len(stack)].obj \in Objects /\ home[stack[Len(stack)].obj] # "moved"
    BY <1>4, <2>2 DEF EQInv, Doing, At, Top, Depth
  <2> QED BY <1>0, <2>2, <2>3 DEF objs
<1> QED BY <1>6, <1>7, <1>9, <1>10 DEF EQInv

(* The list after startOffset was looked at to the end, or a pass begins on it. *)
LEMMA StepDispatch == ASSUME EQInv, Dispatch PROVE EQInv'
<1>0. /\ Depth > 0 /\ Top.pc = "dispatch" /\ ~InPass(Top)
      /\ UNCHANGED <<queue, startOffset, objs>>
  BY DEF Dispatch, At, InPass, objs
<1> DEFINE scans == queue # <<>>
           pc == IF scans THEN "scan" ELSE "test"
           it == IF startOffset < Len(queue) THEN startOffset + 1 ELSE EndIt
           l == [[[Top EXCEPT !.ready = FALSE] EXCEPT !.pc = pc] EXCEPT !.it = it]
<1>1. /\ Top \in Frame /\ Depth \in DOMAIN stack /\ Depth \in Nat /\ Depth = Len(stack)
      /\ queue \in Seq(Entry) /\ Len(queue) \in Nat
      /\ startOffset \in Nat /\ insertionOffset \in Nat
  BY <1>0, TopIs, LenProperties DEF EQInv, Typed, Depth
<1>2. /\ stack' = [stack EXCEPT ![Depth].ready = FALSE, ![Depth].pc = pc, ![Depth].it = it]
      /\ insertionOffset' = IF scans THEN Len(queue) ELSE insertionOffset
  BY DEF Dispatch
<1>3. it \in Int /\ pc \in {"scan", "test"}  BY <1>1 DEF EndIt
<1> HIDE DEF it, pc
<1>4. stack' = [stack EXCEPT ![Depth] = l]  BY <1>1, <1>2 DEF Top
<1>5. l \in Frame /\ l.pc = pc /\ l.it = it  BY <1>1, <1>3 DEF Frame
<1> HIDE DEF l
<1>6. TopBecomes(l)  BY <1>0, <1>4, <1>5, TopBecomesIs DEF EQInv
<1>7. Places(queue, startOffset, insertionOffset, stack)  BY DEF EQInv, Placed
<1>8. CASE ~scans
  <2>1. /\ queue = <<>> /\ Len(queue) = 0 /\ startOffset = 0 /\ it = 0 /\ pc = "test"
        /\ insertionOffset' = insertionOffset
    <3>1. queue = <<>> /\ Len(queue) = 0  BY <1>8
    <3>2. startOffset <= Len(queue)  BY <1>7 DEF Places
    <3> QED BY <1>1, <1>2, <1>8, <3>1, <3>2 DEF it, pc, EndIt
  <2>3. Typed'  BY <1>0, <1>6, <2>1 DEF EQInv, Typed, TopBecomes, objs
  <2>4. Books' /\ Ordered' /\ (Unmoved' <=> Unmoved)
    <3>1. UNCHANGED <<list, objs>>  BY <1>0, <2>1 DEF list
    <3> QED BY <3>1, SameList
  <2>5. Innermost(stack) = Len(stack) - 1 /\ Innermost(stack') = Len(stack) - 1
    <3>1. ~InPass(stack[Len(stack)]) /\ ~InPass(stack'[Len(stack')]) /\ Len(stack') = Len(stack)
      BY <1>0, <1>1, <1>5, <1>6, <2>1 DEF TopBecomes, InPass, Top
    <3> QED BY <3>1, Zenon DEF Innermost
  <2>6. /\ Len(stack') = Len(stack) /\ \A k \in 1..Len(stack)-1 : stack'[k] = stack[k]
        /\ stack'[Len(stack)].it = 0
    BY <1>1, <1>5, <1>6, <2>1 DEF TopBecomes
  <2>7. \A k \in 1..Len(stack) : k \in 1..Len(stack)-1 \/ k = Len(stack)  BY <1>1
  <2>8. \A k \in 1..Len(stack) : stack[k].it \in -1..0  BY <1>7, <2>1 DEF Places
  <2>9. \A k \in 1..Len(stack) : stack'[k].it \in -1..0  BY <2>6, <2>7, <2>8
  <2>10. \A k \in 1..Len(stack)-1 : stack'[k].pc = "handler"  BY <1>7, <2>6 DEF Places
  <2>11. Len(stack) - 1 > 0 => Len(stack) - 1 \in 1..Len(stack)-1  BY <1>1
  <2>12. Places(queue, 0, insertionOffset, stack')
    <3>1. 0 <= Len(queue) /\ 0 <= insertionOffset /\ \A i \in 1..0 : ~Live(queue[i])
      BY <1>1, <2>1
    <3>2. \A k \in 1..Len(stack) : stack'[k].it <= 0  BY <2>9
    <3>3. Len(stack)-1 > 0 => stack'[Len(stack)-1].it \in {DanglingIt, EndIt, 0+1}
      <4>1. ASSUME NEW k \in 1..Len(stack) PROVE stack'[k].it \in {DanglingIt, EndIt, 0+1}
        BY <2>9 DEF DanglingIt, EndIt
      <4>2. Len(stack)-1 > 0 => Len(stack)-1 \in 1..Len(stack)  BY <1>1
      <4> QED BY <4>1, <4>2
    <3> QED BY <2>1, <2>5, <2>6, <2>9, <2>10, <3>1, <3>2, <3>3 DEF Places
  <2>13. Stays(queue, 0, insertionOffset, stack) => Stays(queue, 0, insertionOffset, stack')
    BY <2>5, <2>6, <2>11 DEF Stays
  <2>14. Placed'  BY <1>0, <2>1, <2>4, <2>12, <2>13 DEF EQInv, Placed
  <2>15. Doing'  BY <1>5, <1>6, <2>1 DEF Doing, At, Top, Depth, TopBecomes
  <2> QED BY <2>3, <2>4, <2>14, <2>15 DEF EQInv
<1>9. CASE scans
  <2>1. insertionOffset' = Len(queue) /\ pc = "scan"  BY <1>2, <1>9 DEF pc
  <2>2. Typed'  BY <1>0, <1>1, <1>6, <2>1 DEF EQInv, Typed, TopBecomes, objs
  <2>3. Books' /\ (Unmoved' <=> Unmoved)
    BY <1>0 DEF objs, EQInv, Books, Known, Here, Counted, Numbered, Unmoved
  <2>4. Ordered'
    <3>1. TailSorted(queue, Len(queue))  BY <1>1 DEF TailSorted
    <3> QED BY <1>0, <2>1, <3>1 DEF EQInv, Ordered
  <2>5. /\ Places(queue, startOffset, Len(queue), stack')
        /\ Stays(queue, startOffset, Len(queue), stack')
    <3>1. /\ Len(stack') = Len(stack) /\ \A k \in 1..Len(stack)-1 : stack'[k] = stack[k]
          /\ InPass(stack'[Len(stack)])
          /\ stack'[Len(stack)].it = IF startOffset < Len(queue) THEN startOffset + 1 ELSE EndIt
      BY <1>1, <1>5, <1>6, <2>1 DEF TopBecomes, InPass, it
    <3>2. Len(stack) > 0 /\ Len(stack) \in Nat  BY <1>0, <1>1
    <3> QED BY <1>1, <1>7, <3>1, <3>2, BeginPlaces
  <2>6. Placed'  BY <1>0, <2>1, <2>5 DEF Placed
  <2>7. Doing'  BY <1>5, <1>6, <2>1 DEF Doing, At, Top, Depth, TopBecomes
  <2> QED BY <2>2, <2>3, <2>4, <2>6, <2>7 DEF EQInv
<1> QED BY <1>8, <1>9

------------------------------------------------------------------------------
(* A pass that reads an entry reads the one behind startOffset. *)
LEMMA Reading ==
  ASSUME EQInv, Locked, More, Top.it # DanglingIt
  PROVE  /\ Depth \in Nat /\ Depth > 0 /\ Depth = Len(stack) /\ InPass(Top) /\ Top \in Frame
         /\ Top.pc = "scan" /\ Depth \in DOMAIN stack
         /\ startOffset \in Nat /\ insertionOffset \in Nat /\ queue \in Seq(Entry)
         /\ Len(queue) \in Nat /\ DOMAIN queue = 1..Len(queue)
         /\ startOffset < Len(queue) /\ startOffset < insertionOffset
         /\ Top.it = startOffset + 1 /\ startOffset + 1 \in DOMAIN queue
         /\ Current = queue[startOffset + 1] /\ Current \in Entry
         /\ NextIt = IF startOffset + 1 = Len(queue) THEN EndIt ELSE startOffset + 2
         /\ \A i \in 1..startOffset : ~Live(queue[i])
<1>1. /\ Depth \in Nat /\ Depth > 0 /\ Depth = Len(stack) /\ InPass(Top) /\ Top \in Frame
      /\ Top.pc = "scan" /\ Depth \in DOMAIN stack
  BY TopIs DEF EQInv, Locked, At, InPass, Depth
<1>2. /\ startOffset \in Nat /\ insertionOffset \in Nat /\ queue \in Seq(Entry)
      /\ Len(queue) \in Nat /\ DOMAIN queue = 1..Len(queue)
      /\ startOffset < Len(queue) /\ startOffset < insertionOffset
  BY LenProperties DEF EQInv, Typed, More
<1>3. Places(queue, startOffset, insertionOffset, stack)  BY DEF EQInv, Placed
<1>4. Innermost(stack) = Depth
  BY <1>1, Zenon DEF Innermost, Top, Depth
<1>5. Top.it = startOffset + 1
  <2>1. Top.it \in {DanglingIt, EndIt, startOffset+1} \/ startOffset = insertionOffset
    BY <1>1, <1>3, <1>4 DEF Places, Top
  <2> QED BY <1>2, <2>1 DEF More
<1>6. startOffset + 1 \in DOMAIN queue  BY <1>2
<1>7. Current = queue[startOffset + 1] /\ Current \in Entry
  BY <1>2, <1>5, <1>6, ElementOfSeq DEF Current
<1>8. NextIt = IF startOffset + 1 = Len(queue) THEN EndIt ELSE startOffset + 2
  BY <1>2, <1>5 DEF NextIt
<1> QED BY <1>1, <1>2, <1>3, <1>5, <1>6, <1>7, <1>8 DEF Places

LEMMA Advance ==
  ASSUME EQInv, Locked, More, Top.it # DanglingIt, NEW r, NEW tt,
         Len(r) = Len(queue), \A i \in 1..startOffset+1 : ~Live(r[i]),
         Len(tt) = Len(stack), \A k \in 1..Len(stack)-1 : tt[k] = stack[k],
         InPass(tt[Len(stack)]), tt[Len(stack)].it = NextIt
  PROVE  /\ Places(r, startOffset + 1, insertionOffset, tt)
         /\ Stays(queue, startOffset, insertionOffset, stack)
              => Stays(r, startOffset + 1, insertionOffset, tt)
<1>1. /\ Len(stack) \in Nat /\ Len(stack) > 0 /\ InPass(stack[Len(stack)])
      /\ startOffset \in Nat /\ insertionOffset \in Nat /\ Len(queue) \in Nat
      /\ startOffset < Len(queue) /\ startOffset < insertionOffset
      /\ stack[Len(stack)].it \notin {DanglingIt, EndIt}
  BY Reading DEF Top, Depth, DanglingIt, EndIt
<1>2. tt[Len(stack)].it = IF startOffset + 1 = Len(queue) THEN EndIt ELSE startOffset + 2
  BY Reading
<1>3. Places(queue, startOffset, insertionOffset, stack)  BY DEF EQInv, Placed
<1> QED BY <1>1, <1>2, <1>3, NextPlaces

(* An entry emptied before. *)
LEMMA StepSkip == ASSUME EQInv, Skip PROVE EQInv'
<1>0. /\ Locked /\ More /\ Top.it # DanglingIt /\ ~Live(Current)
      /\ startOffset' = startOffset + 1 /\ stack' = [stack EXCEPT ![Depth].it = NextIt]
      /\ UNCHANGED <<queue, insertionOffset, objs>>
  BY DEF Skip, objs
<1> DEFINE l == [Top EXCEPT !.it = NextIt]
<1>1. NextIt \in Int /\ Depth > 0 /\ Top \in Frame /\ InPass(Top) /\ Top.pc = "scan"
  BY <1>0, Reading DEF EndIt
<1>2. l \in Frame /\ l.pc = "scan" /\ l.it = NextIt  BY <1>1 DEF Frame
<1>3. stack' = [stack EXCEPT ![Depth] = l]  BY <1>0 DEF Top
<1> HIDE DEF l
<1>4. TopBecomes(l)  BY <1>1, <1>2, <1>3, TopBecomesIs DEF EQInv
<1>5. \A i \in 1..startOffset+1 : ~Live(queue[i])
  <2>1. \A i \in 1..startOffset+1 : i \in 1..startOffset \/ i = startOffset + 1
    BY <1>0, Reading
  <2> QED BY <1>0, <2>1, Reading
<1>6. /\ Places(queue, startOffset + 1, insertionOffset, stack')
      /\ Stays(queue, startOffset, insertionOffset, stack)
           => Stays(queue, startOffset + 1, insertionOffset, stack')
  <2>1. Depth = Len(stack)  BY DEF Depth
  <2>2. /\ Len(stack') = Len(stack) /\ \A k \in 1..Len(stack)-1 : stack'[k] = stack[k]
        /\ InPass(stack'[Len(stack)]) /\ stack'[Len(stack)].it = NextIt
    BY <1>2, <1>4, <2>1 DEF TopBecomes, InPass
  <2> QED BY <1>0, <1>5, <2>2, Advance
<1>7. Typed'
  <2>1. startOffset + 1 \in Nat  BY DEF EQInv, Typed
  <2> QED BY <1>0, <1>4, <2>1 DEF EQInv, Typed, TopBecomes, objs
<1>8. Books' /\ (Unmoved' <=> Unmoved)
  BY <1>0 DEF objs, EQInv, Books, Known, Here, Counted, Numbered, Unmoved
<1>9. Ordered'  BY <1>0 DEF EQInv, Ordered
<1>10. Placed'  BY <1>0, <1>6, <1>8 DEF EQInv, Placed
<1>11. Doing'  BY <1>2, <1>4 DEF Doing, At, Top, Depth, TopBecomes
<1> QED BY <1>7, <1>8, <1>9, <1>10, <1>11 DEF EQInv

(* The entry a pass reads, emptied. *)
LEMMA ReadEmptied ==
  ASSUME EQInv, Locked, More, Top.it # DanglingIt, Live(Current),
         NEW r, r = [queue EXCEPT ![Top.it].ev = NullEvent]
  PROVE  /\ r \in Seq(Entry) /\ Len(r) = Len(queue) /\ DOMAIN r = DOMAIN queue
         /\ \A i \in 1..startOffset+1 : ~Live(r[i])
         /\ Stayed(r, queue)
         /\ Current.ev \in Events /\ Current.obj \in Objects
         /\ Has(queue, Current.ev, Current.obj)
         /\ \A i \in DOMAIN r : r[i].ev # Current.ev
         /\ \A i \in DOMAIN r : r[i].ev = queue[i].ev \/ r[i].ev = NullEvent
         /\ \A e \in Events, o \in Objects : Has(r, e, o) <=> Has(queue, e, o) /\ e # Current.ev
<1> DEFINE n == startOffset + 1
<1>0. /\ queue \in Seq(Entry) /\ n \in DOMAIN queue /\ Top.it = n /\ Current = queue[n]
      /\ Current \in Entry /\ \A i \in 1..startOffset : ~Live(queue[i])
      /\ \A i \in 1..n : i \in 1..startOffset \/ i = n
      /\ n \in Nat /\ DOMAIN queue = 1..Len(queue) /\ Unique(queue)
  BY Reading DEF EQInv, Books
<1> HIDE DEF n
<1>1. r = Empties(queue, {n})
  <2>1. r = [i \in DOMAIN queue |->
               IF i = n THEN [queue[i] EXCEPT !.ev = NullEvent] ELSE queue[i]]
    BY <1>0
  <2> QED BY <2>1 DEF Empties
<1>2. /\ r \in Seq(Entry) /\ Len(r) = Len(queue) /\ DOMAIN r = DOMAIN queue
      /\ \A i \in DOMAIN queue : r[i].ev = IF i \in {n} THEN NullEvent ELSE queue[i].ev
      /\ Stayed(r, queue)
      /\ \A e \in Events, o \in Objects :
            Has(r, e, o) <=> \E i \in DOMAIN queue \ {n} : queue[i].ev = e /\ queue[i].obj = o
  <2> DEFINE dead == {n}
  <2>1. queue \in Seq(Entry) /\ r = Empties(queue, dead)  BY <1>0, <1>1
  <2> HIDE DEF dead
  <2>2. /\ r \in Seq(Entry) /\ Len(r) = Len(queue) /\ DOMAIN r = DOMAIN queue
        /\ \A i \in DOMAIN queue :
              Same(r[i], queue[i]) /\ r[i].ev = IF i \in dead THEN NullEvent ELSE queue[i].ev
        /\ Stayed(r, queue)
        /\ \A e \in Events, o \in Objects :
              Has(r, e, o) <=> \E i \in DOMAIN queue \ dead : queue[i].ev = e /\ queue[i].obj = o
    BY ONLY <2>1, EmptiesIs
  <2> QED BY ONLY <2>2 DEF dead
<1>3. Current.ev \in Events /\ Current.obj \in Objects /\ Current.ev # NullEvent
  BY <1>0 DEF Entry, Live
<1>4. ASSUME NEW i \in 1..n PROVE ~Live(r[i])
  <2>1. i \in DOMAIN queue  BY <1>0
  <2>2. r[i].ev = IF i \in {n} THEN NullEvent ELSE queue[i].ev  BY <1>2, <2>1
  <2> QED BY <1>0, <2>2 DEF Live
<1>5. \A i \in DOMAIN r : r[i].ev # Current.ev
  BY <1>0, <1>2, <1>3 DEF Unique, Live
<1>6. ASSUME NEW e \in Events, NEW o \in Objects
      PROVE  Has(r, e, o) <=> Has(queue, e, o) /\ e # Current.ev
  <2>1. e # NullEvent  BY BoundsAssumption DEF Events, NullEvent
  <2>2. \A i \in DOMAIN queue : queue[i].ev = Current.ev => i = n
    BY <1>0 DEF Unique
  <2> QED BY <1>0, <1>2, <2>2 DEF Has
<1>7. Has(queue, Current.ev, Current.obj)  BY <1>0 DEF Has
<1> QED BY <1>2, <1>3, <1>4, <1>5, <1>6, <1>7 DEF n

(* What emptying an entry keeps of the order. *)
LEMMA StillOrdered ==
  ASSUME Ordered, queue \in Seq(Entry), NEW r \in Seq(Entry), insertionOffset \in Nat,
         DOMAIN r = DOMAIN queue, Stayed(r, queue)
  PROVE  InOrder(r) /\ TailSorted(r, insertionOffset) /\ (Unique(queue) => Unique(r))
<1> DEFINE f == [i \in DOMAIN queue |-> i]
<1>1. \A i \in DOMAIN r : i > insertionOffset => f[i] > insertionOffset  OBVIOUS
<1>2. Left(r, queue, f)  BY DEF Stayed
<1> HIDE DEF f
<1> QED BY <1>1, <1>2, LeftKeeps DEF Ordered

LEMMA StepDeliver == ASSUME EQInv, Deliver PROVE EQInv'
<1> DEFINE pc == IF Current.kind = "delete" THEN "delete" ELSE "handler"
           e == Current.ev
           o == Current.obj
           it == NextIt
           l == [[[Top EXCEPT !.it = it] EXCEPT !.obj = o] EXCEPT !.pc = pc]
<1>0. /\ Locked /\ More /\ Top.it # DanglingIt /\ Live(Current)
      /\ startOffset' = startOffset + 1
      /\ queue' = [queue EXCEPT ![Top.it].ev = NullEvent]
      /\ posted' = [posted EXCEPT ![o] = @ - 1] /\ fate' = [fate EXCEPT ![e] = "out"]
      /\ stack' = [stack EXCEPT ![Depth].it = it, ![Depth].obj = o, ![Depth].pc = pc]
      /\ UNCHANGED <<insertionOffset, home>>
  BY DEF Deliver
<1>1. it \in Int /\ Depth > 0 /\ Top \in Frame /\ InPass(Top) /\ Depth \in DOMAIN stack
  BY <1>0, Reading DEF EndIt
<1>2. /\ queue' \in Seq(Entry) /\ Len(queue') = Len(queue) /\ DOMAIN queue' = DOMAIN queue
      /\ \A i \in 1..startOffset+1 : ~Live(queue'[i])
      /\ Stayed(queue', queue)
      /\ e \in Events /\ o \in Objects /\ Has(queue, e, o)
      /\ \A f \in Events, p \in Objects : Has(queue', f, p) <=> Has(queue, f, p) /\ f # e
  BY <1>0, ReadEmptied
<1>3. pc \in {"delete", "handler"}  OBVIOUS
<1> HIDE DEF it, e, o, pc
<1>4. stack' = [stack EXCEPT ![Depth] = l]  BY <1>0, <1>1 DEF Top
<1>5. l \in Frame /\ l.pc = pc /\ l.it = it /\ l.obj = o  BY <1>1, <1>2, <1>3 DEF Frame
<1> HIDE DEF l
<1>6. TopBecomes(l)  BY <1>1, <1>4, <1>5, TopBecomesIs DEF EQInv
<1>7. InOrder(queue') /\ TailSorted(queue', insertionOffset) /\ Unique(queue')
  <2>1. Ordered /\ queue \in Seq(Entry) /\ insertionOffset \in Nat /\ Unique(queue)
    BY DEF EQInv, Typed, Books
  <2> QED BY <1>2, <2>1, StillOrdered
<1>8. Books'  BY <1>0, <1>2, <1>7, BooksSent DEF EQInv
<1>9. /\ Places(queue', startOffset + 1, insertionOffset, stack')
      /\ Stays(queue, startOffset, insertionOffset, stack)
           => Stays(queue', startOffset + 1, insertionOffset, stack')
  <2>1. Depth = Len(stack)  BY DEF Depth
  <2>2. /\ Len(stack') = Len(stack) /\ \A k \in 1..Len(stack)-1 : stack'[k] = stack[k]
        /\ InPass(stack'[Len(stack)]) /\ stack'[Len(stack)].it = NextIt
    BY <1>3, <1>5, <1>6, <2>1 DEF TopBecomes, InPass, it
  <2> QED BY <1>0, <1>2, <2>2, Advance
<1>10. Typed'
  <2>1. startOffset + 1 \in Nat  BY DEF EQInv, Typed
  <2>2. fate' \in [Events -> {"unposted", "queued", "out"}]
    BY <1>0 DEF EQInv, Typed
  <2>3. posted' \in [Objects -> Int]  BY <1>0, <1>2 DEF EQInv, Typed
  <2>4. insertionOffset' \in Nat /\ startOffset' \in Nat /\ queue' \in Seq(Entry)
        /\ home' \in [Objects -> {"here", "moved", "gone"}] /\ stack' \in Seq(Frame)
    BY <1>0, <1>2, <1>6, <2>1 DEF EQInv, Typed, TopBecomes
  <2> QED BY <2>2, <2>3, <2>4 DEF Typed
<1>11. Ordered'  BY <1>0, <1>7 DEF Ordered
<1>12. Placed'  BY <1>0, <1>9 DEF EQInv, Placed, Unmoved
<1>13. Doing'
  <2>1. home[o] = "here"  BY <1>2 DEF EQInv, Books, Here
  <2> QED BY <1>0, <1>2, <1>5, <1>6, <2>1 DEF Doing, At, Top, Depth, TopBecomes
<1> QED BY <1>8, <1>10, <1>11, <1>12, <1>13 DEF EQInv

------------------------------------------------------------------------------
(* An event is put into the list, and the iterators move with their entries.   *)
LEMMA InsertedIs ==
  ASSUME NEW st \in Seq(Frame), NEW pos \in Int, NEW tt, tt = Inserted(st, pos)
  PROVE  /\ tt \in Seq(Frame) /\ Len(tt) = Len(st)
         /\ \A k \in 1..Len(st) :
               /\ tt[k].pc = st[k].pc /\ tt[k].obj = st[k].obj /\ tt[k].ready = st[k].ready
               /\ tt[k].it = IF st[k].it >= pos THEN st[k].it + 1 ELSE st[k].it
<1>0. DOMAIN st = 1..Len(st) /\ Len(st) \in Nat /\ \A k \in 1..Len(st) : st[k] \in Frame
  BY LenProperties
<1>1. ASSUME NEW k \in 1..Len(st)
      PROVE  /\ tt[k] \in Frame /\ tt[k].pc = st[k].pc
             /\ tt[k].obj = st[k].obj /\ tt[k].ready = st[k].ready
             /\ tt[k].it = IF st[k].it >= pos THEN st[k].it + 1 ELSE st[k].it
  <2> DEFINE x == st[k]
             y == [x EXCEPT !.it = @ + 1]
  <2>1. x \in Frame /\ tt[k] = IF x.it >= pos THEN y ELSE x  BY <1>0 DEF Inserted
  <2> HIDE DEF x
  <2>2. y \in Frame /\ y.pc = x.pc /\ y.it = x.it + 1 /\ y.obj = x.obj /\ y.ready = x.ready
    BY <2>1 DEF Frame
  <2> HIDE DEF y
  <2> QED BY <2>1, <2>2 DEF x
<1>2. tt \in [1..Len(st) -> Frame]
  <2>1. tt = [k \in 1..Len(st) |-> tt[k]]  BY <1>0 DEF Inserted
  <2> QED BY <1>1, <2>1
<1>3. tt \in Seq(Frame)  BY <1>0, <1>2, SeqDef
<1>4. Len(tt) = Len(st)  BY <1>0, <1>2, <1>3, LenProperties
<1> QED BY <1>1, <1>3, <1>4

LEMMA PutIs ==
  ASSUME insertionOffset \in Nat, NEW s \in Nat,
         NEW q \in Seq(Entry), InOrder(q), TailSorted(q, insertionOffset), Unique(q),
         NEW st \in Seq(Frame), Places(q, s, insertionOffset, st),
         NEW x \in Entry, x.ev \in Events, \A i \in DOMAIN q : q[i].ev # x.ev,
         x.kind = "plain" => \A i \in DOMAIN q : Live(q[i]) => q[i].ev < x.ev,
         NEW r, r = InsertAt(q, AddAt(q, x.prio), x),
         NEW tt, tt = Inserted(st, AddAt(q, x.prio))
  PROVE  /\ r \in Seq(Entry) /\ InOrder(r) /\ TailSorted(r, insertionOffset) /\ Unique(r)
         /\ \A e \in Events, o \in Objects :
               Has(r, e, o) <=> Has(q, e, o) \/ (e = x.ev /\ o = x.obj)
         /\ tt \in Seq(Frame) /\ Len(tt) = Len(st)
         /\ \A k \in 1..Len(st) : tt[k].pc = st[k].pc /\ tt[k].obj = st[k].obj
         /\ Places(r, s, insertionOffset, tt)
         /\ Stays(q, s, insertionOffset, st) => Stays(r, s, insertionOffset, tt)
<1> DEFINE pos == AddAt(q, x.prio)
<1>0. x.prio \in Priorities /\ Len(q) \in Nat /\ Len(st) \in Nat  BY LenProperties DEF Entry
<1>1. /\ pos \in 1..Len(q)+1 /\ (pos > insertionOffset \/ pos = Len(q) + 1)
      /\ \A j \in pos..Len(q) : j > insertionOffset /\ q[j].prio < x.prio
      /\ \A j \in insertionOffset+1 .. pos-1 : q[j].prio >= x.prio
  BY <1>0, AddAtIs
<1> HIDE DEF pos
<1>2. r = InsertAt(q, pos, x) /\ tt = Inserted(st, pos)  BY DEF pos
<1>3. r \in Seq(Entry) /\ Puts(r, q, pos, x)
  <2> DEFINE S == Entry
  <2>1. q \in Seq(S) /\ x \in S  OBVIOUS
  <2> HIDE DEF S
  <2>2. InsertAt(q, pos, x) \in Seq(S) /\ Puts(InsertAt(q, pos, x), q, pos, x)
    BY <1>1, <2>1, InsertAtIs
  <2> QED BY <1>2, <2>2 DEF S
<1>4. /\ \A e \in Events, o \in Objects :
            Has(r, e, o) <=> Has(q, e, o) \/ (e = x.ev /\ o = x.obj)
      /\ Unique(r) /\ InOrder(r) /\ TailSorted(r, insertionOffset)
  <2>1. \A j \in pos..Len(q) : q[j].prio < x.prio  BY <1>1
  <2>2. /\ \A e \in Events, o \in Objects :
              Has(r, e, o) <=> Has(q, e, o) \/ (e = x.ev /\ o = x.obj)
        /\ Unique(q) => Unique(r)
        /\ (/\ InOrder(q) /\ \A j \in pos..Len(q) : q[j].prio < x.prio
            /\ x.kind = "plain" => \A i \in DOMAIN q : Live(q[i]) => q[i].ev < x.ev)
           => InOrder(r)
        /\ \A a \in Nat :
              (/\ TailSorted(q, a) /\ (pos > a \/ pos = Len(q) + 1)
               /\ \A j \in pos..Len(q) : q[j].prio < x.prio
               /\ \A j \in a+1 .. pos-1 : q[j].prio >= x.prio)
              => TailSorted(r, a)
    BY <1>3, InsertKeeps
  <2> QED BY <1>1, <2>1, <2>2
<1>5. /\ tt \in Seq(Frame) /\ Len(tt) = Len(st)
      /\ \A k \in 1..Len(st) :
            /\ tt[k].pc = st[k].pc /\ tt[k].obj = st[k].obj
            /\ tt[k].it = IF st[k].it >= pos THEN st[k].it + 1 ELSE st[k].it
  <2>1. pos \in Int  BY <1>0, <1>1
  <2> QED BY <1>2, <2>1, InsertedIs
<1>6. /\ Places(r, s, insertionOffset, tt)
      /\ Stays(q, s, insertionOffset, st) => Stays(r, s, insertionOffset, tt)
  <2>1. /\ Puts(r, q, pos, x) /\ (pos > insertionOffset \/ pos = Len(q) + 1)
        /\ Len(tt) = Len(st)
        /\ \A k \in 1..Len(st) :
              /\ tt[k].pc = st[k].pc
              /\ tt[k].it = IF st[k].it >= pos THEN st[k].it + 1 ELSE st[k].it
    BY <1>1, <1>3, <1>5
  <2>2. /\ s \in Nat /\ insertionOffset \in Nat /\ Len(st) \in Nat /\ Len(q) \in Nat
        /\ Places(q, s, insertionOffset, st)
    BY <1>0
  <2> QED BY ONLY <2>1, <2>2, PutPlaces
<1> QED BY <1>3, <1>4, <1>5, <1>6

(* A request to delete that is too deep in nested loops is put behind the      *)
(* others again.                                                               *)
LEMMA StepDefer == ASSUME EQInv, Defer PROVE EQInv'
<1> DEFINE x == Current
           q == [queue EXCEPT ![Top.it].ev = NullEvent]
           l == [Top EXCEPT !.it = NextIt]
           tt == [stack EXCEPT ![Depth] = l]
           s == startOffset + 1
<1>0. /\ Locked /\ More /\ Top.it # DanglingIt /\ Live(Current) /\ ~Allowed(Current)
      /\ startOffset' = s /\ queue' = InsertAt(q, AddAt(q, x.prio), x)
      /\ UNCHANGED <<insertionOffset, objs>>
  BY DEF Defer, objs
<1>1. stack' = Inserted(tt, AddAt(q, x.prio))
  <2>1. tt = [stack EXCEPT ![Depth].it = NextIt]  BY DEF Top
  <2> HIDE DEF tt
  <2> QED BY <2>1 DEF Defer
<1>2. NextIt \in Int /\ Depth > 0 /\ Top \in Frame /\ InPass(Top) /\ Top.pc = "scan"
      /\ x \in Entry /\ s \in Nat
  BY <1>0, Reading DEF EndIt
<1>3. l \in Frame /\ l.pc = "scan" /\ l.it = NextIt  BY <1>2 DEF Frame
<1> HIDE DEF l
<1>4. /\ tt \in Seq(Frame) /\ Len(tt) = Depth /\ tt[Depth] = l
      /\ \A k \in 1..Depth-1 : tt[k] = stack[k]
  <2>1. Typed /\ Depth > 0 /\ l \in Frame /\ tt = WithTop(l)
    BY <1>2, <1>3 DEF EQInv, WithTop
  <2> HIDE DEF tt
  <2> QED BY ONLY <2>1, TopSetIs
<1> HIDE DEF tt
<1>5. /\ q \in Seq(Entry) /\ Len(q) = Len(queue) /\ DOMAIN q = DOMAIN queue
      /\ \A i \in 1..s : ~Live(q[i])
      /\ Stayed(q, queue)
      /\ x.ev \in Events /\ x.obj \in Objects /\ Has(queue, x.ev, x.obj)
      /\ \A i \in DOMAIN q : q[i].ev # x.ev
      /\ \A e \in Events, o \in Objects : Has(q, e, o) <=> Has(queue, e, o) /\ e # x.ev
  BY <1>0, ReadEmptied
<1>6. x.kind # "plain"  BY <1>0 DEF Allowed
<1> HIDE DEF q, x
<1>7. InOrder(q) /\ TailSorted(q, insertionOffset) /\ Unique(q) /\ insertionOffset \in Nat
  <2>1. Ordered /\ queue \in Seq(Entry) /\ insertionOffset \in Nat /\ Unique(queue)
    BY DEF EQInv, Typed, Books
  <2> QED BY <1>5, <2>1, StillOrdered
<1>8. /\ Places(q, s, insertionOffset, tt)
      /\ Stays(queue, startOffset, insertionOffset, stack) => Stays(q, s, insertionOffset, tt)
  <2>1. Depth = Len(stack)  BY DEF Depth
  <2>2. /\ Len(tt) = Len(stack) /\ \A k \in 1..Len(stack)-1 : tt[k] = stack[k]
        /\ InPass(tt[Len(stack)]) /\ tt[Len(stack)].it = NextIt
    BY <1>3, <1>4, <2>1 DEF InPass
  <2> QED BY <1>0, <1>5, <2>2, Advance
<1> HIDE DEF s
<1>9. /\ queue' \in Seq(Entry) /\ InOrder(queue') /\ TailSorted(queue', insertionOffset)
      /\ Unique(queue')
      /\ \A e \in Events, o \in Objects :
            Has(queue', e, o) <=> Has(q, e, o) \/ (e = x.ev /\ o = x.obj)
      /\ stack' \in Seq(Frame) /\ Len(stack') = Len(tt)
      /\ \A k \in 1..Len(tt) : stack'[k].pc = tt[k].pc /\ stack'[k].obj = tt[k].obj
      /\ Places(queue', s, insertionOffset, stack')
      /\ Stays(q, s, insertionOffset, tt) => Stays(queue', s, insertionOffset, stack')
  <2>1. /\ insertionOffset \in Nat /\ s \in Nat /\ q \in Seq(Entry)
        /\ InOrder(q) /\ TailSorted(q, insertionOffset) /\ Unique(q)
        /\ tt \in Seq(Frame) /\ Places(q, s, insertionOffset, tt)
        /\ x \in Entry /\ x.ev \in Events /\ \A i \in DOMAIN q : q[i].ev # x.ev
        /\ queue' = InsertAt(q, AddAt(q, x.prio), x)
        /\ stack' = Inserted(tt, AddAt(q, x.prio))
    BY <1>0, <1>1, <1>2, <1>4, <1>5, <1>7, <1>8
  <2>2. x.kind = "plain" => \A i \in DOMAIN q : Live(q[i]) => q[i].ev < x.ev  BY <1>6
  <2> QED BY ONLY <2>1, <2>2, PutIs
<1>10. Books' /\ (Unmoved' <=> Unmoved)
  <2>1. ASSUME NEW e \in Events, NEW o \in Objects
        PROVE  Has(queue', e, o) <=> Has(queue, e, o)
    <3>1. e = x.ev => (Has(queue, e, o) <=> o = x.obj)
      BY <1>5, OneReceiver DEF EQInv, Books
    <3> QED BY <1>5, <1>9, <3>1
  <2>2. UNCHANGED <<fate, posted, home>>  BY <1>0 DEF objs
  <2> QED BY <1>9, <2>1, <2>2, BooksKept DEF EQInv, Unmoved
<1>11. Typed'
  <2>1. startOffset' \in Nat /\ insertionOffset' \in Nat  BY <1>0, <1>2, <1>7
  <2> QED BY <1>0, <1>9, <2>1 DEF EQInv, Typed, objs
<1>12. Ordered'  BY <1>0, <1>9 DEF Ordered
<1>13. Placed'  BY <1>0, <1>8, <1>9, <1>10 DEF EQInv, Placed
<1>14. Doing'
  <2>1. Len(tt) \in 1..Len(tt) /\ tt[Len(tt)].pc = "scan"  BY <1>2, <1>3, <1>4
  <2>2. stack'[Len(stack')].pc = "scan"  BY <1>9, <2>1
  <2> QED BY <2>2 DEF Doing, At, Top, Depth
<1> QED BY <1>10, <1>11, <1>12, <1>13, <1>14 DEF EQInv

------------------------------------------------------------------------------
(* A pass ends, and erases what it has looked at.                              *)
LEMMA ErasedIs ==
  ASSUME NEW st \in Seq(Frame), NEW s \in Nat, NEW tt, tt = Erased(st, 1, s)
  PROVE  /\ tt \in Seq(Frame) /\ Len(tt) = Len(st)
         /\ \A k \in 1..Len(st) :
               /\ tt[k].pc = st[k].pc /\ tt[k].obj = st[k].obj
               /\ tt[k].it = IF st[k].it < 1 THEN st[k].it
                             ELSE IF st[k].it <= s THEN DanglingIt ELSE st[k].it - s
<1>0. DOMAIN st = 1..Len(st) /\ Len(st) \in Nat /\ \A k \in 1..Len(st) : st[k] \in Frame
  BY LenProperties
<1> DEFINE to(i) == IF i < 1 THEN i ELSE IF i <= s THEN DanglingIt ELSE i - (s - 1 + 1)
<1>1. ASSUME NEW k \in 1..Len(st)
      PROVE  /\ tt[k] \in Frame /\ tt[k].pc = st[k].pc /\ tt[k].obj = st[k].obj
             /\ tt[k].it = to(st[k].it)
  <2> DEFINE x == st[k]
             i == to(x.it)
  <2>1. x \in Frame /\ tt[k] = [x EXCEPT !.it = i]  BY <1>0 DEF Erased
  <2> HIDE DEF x
  <2>2. i \in Int  BY <2>1 DEF Frame, DanglingIt
  <2> HIDE DEF i
  <2>3. /\ [x EXCEPT !.it = i] \in Frame /\ [x EXCEPT !.it = i].pc = x.pc
        /\ [x EXCEPT !.it = i].obj = x.obj /\ [x EXCEPT !.it = i].it = i
    BY <2>1, <2>2 DEF Frame
  <2> QED BY <2>1, <2>3 DEF x, i
<1>2. tt \in [1..Len(st) -> Frame]
  <2>1. tt = [k \in 1..Len(st) |-> tt[k]]  BY <1>0 DEF Erased
  <2> QED BY <1>1, <2>1
<1>3. tt \in Seq(Frame)  BY <1>0, <1>2, SeqDef
<1>4. Len(tt) = Len(st)  BY <1>0, <1>2, <1>3, LenProperties
<1>5. ASSUME NEW k \in 1..Len(st)
      PROVE  to(st[k].it) = IF st[k].it < 1 THEN st[k].it
                            ELSE IF st[k].it <= s THEN DanglingIt ELSE st[k].it - s
  <2>1. st[k].it \in Int  BY <1>0 DEF Frame
  <2> QED BY <2>1
<1> QED BY <1>1, <1>3, <1>4, <1>5

LEMMA StepCleanUp == ASSUME EQInv, CleanUp PROVE EQInv'
<1> DEFINE l == [[Top EXCEPT !.pc = "test"] EXCEPT !.it = EndIt]
           tt == [stack EXCEPT ![Depth] = l]
           s == startOffset
           ins == insertionOffset
<1>0. /\ Locked /\ ~More /\ queue' = SubSeq(queue, s+1, Len(queue)) /\ startOffset' = 0
      /\ insertionOffset' = ins - s /\ UNCHANGED objs
  BY DEF CleanUp
<1>1. /\ Depth > 0 /\ Depth \in Nat /\ Depth = Len(stack) /\ Top \in Frame /\ InPass(Top)
      /\ Depth \in DOMAIN stack
      /\ s \in Nat /\ ins \in Nat /\ Len(queue) \in Nat /\ queue \in Seq(Entry)
      /\ s <= Len(queue) /\ s <= ins /\ \A i \in 1..s : ~Live(queue[i])
  BY <1>0, TopIs, LenProperties
     DEF EQInv, Typed, Placed, Places, Locked, At, InPass, Depth
<1>2. stack' = Erased(tt, 1, s)
  <2>1. tt = [stack EXCEPT ![Depth].pc = "test", ![Depth].it = EndIt]  BY <1>1 DEF Top
  <2> HIDE DEF tt
  <2> QED BY <2>1 DEF CleanUp
<1>3. l \in Frame /\ l.pc = "test" /\ l.it = EndIt
  <2> DEFINE m == [Top EXCEPT !.pc = "test"]
             it == EndIt
  <2>1. Top \in Frame /\ it \in Int  BY <1>1 DEF EndIt
  <2> HIDE DEF it
  <2>2. m \in Frame /\ m.pc = "test"  BY ONLY <2>1 DEF Frame
  <2> HIDE DEF m
  <2>3. /\ [m EXCEPT !.it = it] \in Frame /\ [m EXCEPT !.it = it].pc = m.pc
        /\ [m EXCEPT !.it = it].it = it
    BY ONLY <2>1, <2>2 DEF Frame
  <2> QED BY <2>2, <2>3 DEF m, it
<1> HIDE DEF l
<1>4. /\ tt \in Seq(Frame) /\ Len(tt) = Depth /\ tt[Depth] = l
      /\ \A k \in 1..Depth-1 : tt[k] = stack[k]
  <2>1. Typed /\ Depth > 0 /\ l \in Frame /\ tt = WithTop(l)
    BY <1>1, <1>3 DEF EQInv, WithTop
  <2> HIDE DEF tt
  <2> QED BY ONLY <2>1, TopSetIs
<1> HIDE DEF tt, s, ins
<1>5. /\ stack' \in Seq(Frame) /\ Len(stack') = Len(tt)
      /\ \A k \in 1..Len(tt) :
            /\ stack'[k].pc = tt[k].pc /\ stack'[k].obj = tt[k].obj
            /\ stack'[k].it = IF tt[k].it < 1 THEN tt[k].it
                              ELSE IF tt[k].it <= s THEN DanglingIt ELSE tt[k].it - s
  BY ONLY <1>1, <1>2, <1>4, ErasedIs
<1>6. /\ queue' \in Seq(Entry) /\ Len(queue') = Len(queue) - s
      /\ \A i \in 1..Len(queue)-s : queue'[i] = queue[s+i]
  <2> DEFINE S == Entry
  <2>1. queue \in Seq(S) /\ s \in 0..Len(queue)  BY <1>1
  <2> HIDE DEF S
  <2>2. LET r == SubSeq(queue, s+1, Len(queue)) IN
        /\ r \in Seq(S) /\ Len(r) = Len(queue) - s
        /\ \A i \in 1..Len(queue)-s : r[i] = queue[s+i]
    BY ONLY <2>1, CutIs
  <2> QED BY <1>0, <2>2 DEF S
<1>7. DOMAIN queue = 1..Len(queue) /\ DOMAIN queue' = 1..Len(queue)-s
  BY <1>1, <1>6, LenProperties
<1> DEFINE f == [i \in DOMAIN queue' |-> s+i]
<1>8. Left(queue', queue, f)
  <2>1. \A i \in DOMAIN queue' : s+i \in DOMAIN queue /\ i \in Int /\ queue'[i] = queue[s+i]
    BY <1>1, <1>6, <1>7
  <2> QED BY <1>1, <2>1 DEF Left, Same
<1>9. \A i \in DOMAIN queue' : i > ins - s => f[i] > ins  BY <1>1, <1>7
<1> HIDE DEF f
<1>10. InOrder(queue') /\ TailSorted(queue', ins - s) /\ Unique(queue') /\ ins - s \in Nat
  <2>1. InOrder(queue) /\ TailSorted(queue, ins) /\ Unique(queue)
    BY DEF EQInv, Ordered, Books, ins
  <2>2. ins - s \in Nat  BY <1>1
  <2>3. /\ Unique(queue) => Unique(queue')
        /\ InOrder(queue) => InOrder(queue')
        /\ \A a \in Nat, b \in Nat :
              TailSorted(queue, a) /\ (\A i \in DOMAIN queue' : i > b => f[i] > a)
                => TailSorted(queue', b)
    BY ONLY <1>1, <1>6, <1>8, LeftKeeps
  <2> QED BY <1>1, <1>9, <2>1, <2>2, <2>3
<1>11. Books' /\ (Unmoved' <=> Unmoved)
  <2>1. ASSUME NEW e \in Events, NEW o \in Objects
        PROVE  Has(queue', e, o) <=> Has(queue, e, o)
    <3>1. ASSUME Has(queue', e, o) PROVE Has(queue, e, o)
      <4>1. PICK i \in 1..Len(queue)-s : queue'[i].ev = e /\ queue'[i].obj = o
        BY <1>7, <3>1 DEF Has
      <4>2. s+i \in DOMAIN queue /\ queue[s+i].ev = e /\ queue[s+i].obj = o
        BY <1>1, <1>6, <1>7, <4>1
      <4> QED BY <4>2 DEF Has
    <3>2. ASSUME Has(queue, e, o) PROVE Has(queue', e, o)
      <4>1. PICK i \in 1..Len(queue) : queue[i].ev = e /\ queue[i].obj = o
        BY <1>7, <3>2 DEF Has
      <4>2. e # NullEvent  BY BoundsAssumption DEF Events, NullEvent
      <4>3. i \notin 1..s  BY <1>1, <4>1, <4>2 DEF Live
      <4>4. i-s \in 1..Len(queue)-s /\ s+(i-s) = i  BY <1>1, <4>3
      <4>5. queue'[i-s] = queue[i]  BY <1>6, <4>4
      <4> QED BY <1>7, <4>1, <4>4, <4>5 DEF Has
    <3> QED BY <3>1, <3>2
  <2>2. UNCHANGED <<fate, posted, home>>  BY <1>0 DEF objs
  <2> QED BY <1>10, <2>1, <2>2, BooksKept DEF EQInv, Unmoved
<1>12. Typed'
  <2>1. startOffset' \in Nat /\ insertionOffset' \in Nat  BY <1>0, <1>10 DEF s, ins
  <2> QED BY <1>0, <1>5, <1>6, <2>1 DEF EQInv, Typed, objs
<1>13. Ordered'  BY <1>0, <1>10 DEF Ordered, s, ins
<1>14. /\ Places(queue', 0, ins - s, stack')
       /\ Stays(queue, s, ins, stack) => Stays(queue', 0, ins - s, stack')
  <2>1. Places(queue, s, ins, stack)  BY DEF EQInv, Placed, s, ins
  <2>2. ~(s < Len(queue) /\ stack[Len(stack)].it # EndIt /\ s < ins)
    BY <1>0, <1>1 DEF More, Top, s, ins
  <2>3. Len(tt) \in 1..Len(tt) /\ \A k \in 1..Len(tt)-1 : k \in 1..Len(tt)
    BY <1>1, <1>4
  <2>4. ~InPass(stack'[Len(stack)]) /\ stack'[Len(stack)].it = EndIt
    BY <1>1, <1>3, <1>4, <1>5, <2>3 DEF InPass, EndIt
  <2>5. /\ Len(stack') = Len(stack)
        /\ \A k \in 1..Len(stack)-1 :
              /\ stack'[k].pc = stack[k].pc
              /\ stack'[k].it = IF stack[k].it < 1 THEN stack[k].it
                                ELSE IF stack[k].it <= s THEN DanglingIt ELSE stack[k].it - s
    BY <1>1, <1>4, <1>5, <2>3
  <2>6. InPass(stack[Len(stack)]) /\ Len(stack) > 0 /\ Len(stack) \in Nat  BY <1>1 DEF Top
  <2> QED BY ONLY <1>1, <1>6, <2>1, <2>2, <2>4, <2>5, <2>6, EndPlaces
<1>15. Placed'  BY <1>0, <1>11, <1>14 DEF EQInv, Placed, s, ins
<1>16. Doing'
  <2>1. Len(tt) \in 1..Len(tt) /\ tt[Len(tt)].pc = "test"  BY <1>1, <1>3, <1>4
  <2>2. stack'[Len(stack')].pc = "test"  BY <1>5, <2>1
  <2> QED BY <2>2 DEF Doing, At, Top, Depth
<1> QED BY <1>11, <1>12, <1>13, <1>15, <1>16 DEF EQInv

------------------------------------------------------------------------------
(* postEvent(): the new event is the last of its priority, or a receiver that  *)
(* is to be deleted anyway drops the request.                                  *)
LEMMA StepPost ==
  ASSUME EQInv, NEW o \in Objects, NEW kind \in {"plain", "delete"}, NEW pr \in Priorities,
         NEW level \in Nat, NEW wakes, PostLocked(o, kind, pr, level, wakes)
  PROVE  EQInv'
<1> DEFINE e == NextEvent
           x == [ev |-> e, obj |-> o, kind |-> kind, prio |-> pr,
                 level |-> IF kind = "delete" THEN level ELSE 0]
           again == kind = "delete" /\ posted[o] > 0 /\ doomed[o]
<1>0. /\ e \in Events /\ home[o] = "here"
      /\ UNCHANGED <<startOffset, insertionOffset, home>>
  BY DEF PostLocked
<1>1. CASE again
  <2>1. UNCHANGED <<queue, posted, stack>> /\ fate' = [fate EXCEPT ![e] = "out"]
    BY <1>1 DEF PostLocked
  <2>2. Typed'  BY <1>0, <2>1 DEF EQInv, Typed
  <2>3. Books'  BY <1>0, <2>1, BooksDrop DEF EQInv
  <2> QED BY <1>0, <2>1, <2>2, <2>3
          DEF EQInv, Ordered, Placed, Unmoved, Doing, At, Top, Depth
<1>2. CASE ~again
  <2>1. /\ queue' = InsertAt(queue, AddAt(queue, pr), x)
        /\ stack' = Inserted(stack, AddAt(queue, pr))
        /\ fate' = [fate EXCEPT ![e] = "queued"] /\ posted' = [posted EXCEPT ![o] = @ + 1]
    BY <1>2 DEF PostLocked
  <2>2. x \in Entry /\ x.ev = e /\ x.prio = pr /\ x.kind = kind /\ x.obj = o
    BY <1>0 DEF Entry
  <2>3. \A f \in Events, p \in Objects : Has(queue, f, p) => f < e
    <3>1. \A f \in Events : f < e <=> fate[f] # "unposted"
      BY <1>0, NextIsNew DEF EQInv, Books
    <3> QED BY <3>1 DEF EQInv, Books, Known
  <2>4. e \in Int  BY <1>0, BoundsAssumption DEF Events
  <2> HIDE DEF e, x
  <2>5. \A i \in DOMAIN queue : queue[i].ev # e /\ (Live(queue[i]) => queue[i].ev < e)
    <3> SUFFICES ASSUME NEW i \in DOMAIN queue
                 PROVE  queue[i].ev # e /\ (Live(queue[i]) => queue[i].ev < e)
      OBVIOUS
    <3>1. queue[i] \in Entry  BY LenProperties DEF EQInv, Typed
    <3>2. queue[i].ev \in Events => Has(queue, queue[i].ev, queue[i].obj)  BY DEF Has
    <3>3. queue[i].ev \in Events => queue[i].ev < e  BY <2>3, <3>1, <3>2 DEF Entry
    <3>4. e # NullEvent  BY <1>0, BoundsAssumption DEF Events, NullEvent
    <3> QED BY <2>4, <3>1, <3>3, <3>4 DEF Entry, Live
  <2>6. /\ insertionOffset \in Nat /\ startOffset \in Nat /\ queue \in Seq(Entry)
        /\ InOrder(queue) /\ TailSorted(queue, insertionOffset) /\ Unique(queue)
        /\ stack \in Seq(Frame) /\ Places(queue, startOffset, insertionOffset, stack)
    BY DEF EQInv, Typed, Ordered, Books, Placed
  <2>7. /\ x.ev \in Events /\ \A i \in DOMAIN queue : queue[i].ev # x.ev
        /\ x.kind = "plain" => \A i \in DOMAIN queue : Live(queue[i]) => queue[i].ev < x.ev
        /\ queue' = InsertAt(queue, AddAt(queue, x.prio), x)
        /\ stack' = Inserted(stack, AddAt(queue, x.prio)) /\ x \in Entry
    BY <1>0, <2>1, <2>2, <2>5
  <2>8. /\ queue' \in Seq(Entry) /\ InOrder(queue') /\ TailSorted(queue', insertionOffset)
        /\ Unique(queue')
        /\ \A f \in Events, p \in Objects :
              Has(queue', f, p) <=> Has(queue, f, p) \/ (f = x.ev /\ p = x.obj)
        /\ stack' \in Seq(Frame) /\ Len(stack') = Len(stack)
        /\ \A k \in 1..Len(stack) : stack'[k].pc = stack[k].pc /\ stack'[k].obj = stack[k].obj
        /\ Places(queue', startOffset, insertionOffset, stack')
        /\ Stays(queue, startOffset, insertionOffset, stack)
             => Stays(queue', startOffset, insertionOffset, stack')
    BY ONLY <2>6, <2>7, PutIs
  <2>9. Typed'  BY <1>0, <2>1, <2>8 DEF EQInv, Typed
  <2>10. Books'
    <3>1. \A f \in Events, p \in Objects :
             Has(queue', f, p) <=> Has(queue, f, p) \/ (f = NextEvent /\ p = o)
      BY <2>2, <2>8 DEF e
    <3> QED BY <1>0, <2>1, <2>8, <3>1, BooksPost DEF EQInv, e
  <2>11. Ordered' /\ Placed'  BY <1>0, <2>8 DEF Ordered, EQInv, Placed, Unmoved
  <2>12. Doing'
    <3>1. Len(stack) > 0 => Len(stack) \in 1..Len(stack)  BY <2>6, LenProperties
    <3> QED BY <1>0, <2>8, <3>1 DEF EQInv, Doing, At, Top, Depth
  <2> QED BY <2>9, <2>10, <2>11, <2>12 DEF EQInv
<1> QED BY <1>1, <1>2

LEMMA LevelIs == ASSUME Typed PROVE Level \in Nat
<1> DEFINE busy == {k \in 1..Depth : stack[k].pc \in {"handler", "delete"}}
           all == 1..Depth
<1>1. Depth \in Nat  BY LenProperties DEF Typed, Depth
<1>2. busy \in SUBSET all /\ IsFiniteSet(all)  BY <1>1, UpTo
<1> HIDE DEF busy, all
<1>3. Cardinality(busy) \in Nat  BY <1>2, FS_Subset, FS_CardinalityType
<1>4. Level = Depth + Cardinality(busy)  BY DEF Level, busy
<1> QED BY <1>1, <1>3, <1>4

LEMMA StepHandlerPosts ==
  ASSUME EQInv, NEW o \in Objects, NEW kind \in {"plain", "delete"}, NEW pr \in Priorities,
         HandlerPosts(o, kind, pr)
  PROVE  EQInv'
<1>1. PICK wakes \in BOOLEAN : PostLocked(o, kind, pr, Level, wakes)  BY DEF HandlerPosts
<1>2. Level \in Nat  BY LevelIs DEF EQInv
<1> QED BY <1>1, <1>2, StepPost

LEMMA StepPosterPosts ==
  ASSUME EQInv, NEW p \in Posters, NEW o \in Objects, NEW kind \in {"plain", "delete"},
         NEW pr \in Priorities, PosterPosts(p, o, kind, pr)
  PROVE  EQInv'
<1>1. PICK wakes \in BOOLEAN : PostLocked(o, kind, pr, 0, wakes)  BY DEF PosterPosts
<1> QED BY <1>1, StepPost

------------------------------------------------------------------------------
(* ~iObject: the events of the receiver are emptied.                           *)
LEMMA DestroyIs ==
  ASSUME EQInv, NEW o \in Objects, Destroy(o)
  PROVE  /\ queue' \in Seq(Entry) /\ Len(queue') = Len(queue)
         /\ UNCHANGED <<startOffset, insertionOffset>>
         /\ \A i \in 1..startOffset : ~Live(queue'[i])
         /\ Books' /\ Ordered'
         /\ fate' \in [Events -> {"unposted", "queued", "out"}]
         /\ posted' \in [Objects -> Int] /\ home' \in [Objects -> {"here", "moved", "gone"}]
         /\ home[o] # "moved" /\ Unmoved' => Unmoved
<1> DEFINE dead == {i \in DOMAIN queue : queue[i].obj = o}
<1>0. /\ queue' = Empties(queue, dead) /\ UNCHANGED <<startOffset, insertionOffset>>
      /\ posted' = [posted EXCEPT ![o] = 0] /\ home' = [home EXCEPT ![o] = "gone"]
      /\ fate' = [e \in Events |-> IF \E i \in DOMAIN queue : queue[i].obj = o /\ queue[i].ev = e
                                   THEN "out" ELSE fate[e]]
  <2>1. Emptied(o) = Empties(queue, dead)
    <3>1. \A i \in DOMAIN queue : i \in dead <=> queue[i].obj = o  OBVIOUS
    <3> HIDE DEF dead
    <3> QED BY <3>1 DEF Emptied, Empties
  <2> QED BY <2>1 DEF Destroy
<1>1. \A i \in DOMAIN queue : i \in dead <=> queue[i].obj = o  OBVIOUS
<1> HIDE DEF dead
<1>2. queue \in Seq(Entry)  BY DEF EQInv, Typed
<1>3. /\ queue' \in Seq(Entry) /\ Len(queue') = Len(queue) /\ DOMAIN queue' = DOMAIN queue
      /\ \A i \in DOMAIN queue :
            Same(queue'[i], queue[i]) /\ queue'[i].ev = IF i \in dead THEN NullEvent ELSE queue[i].ev
      /\ Stayed(queue', queue)
      /\ \A e \in Events, p \in Objects :
            Has(queue', e, p) <=> \E i \in DOMAIN queue \ dead : queue[i].ev = e /\ queue[i].obj = p
  BY ONLY <1>0, <1>2, EmptiesIs
<1>4. InOrder(queue') /\ TailSorted(queue', insertionOffset) /\ Unique(queue')
  <2>1. Ordered /\ queue \in Seq(Entry) /\ insertionOffset \in Nat /\ Unique(queue)
    BY DEF EQInv, Typed, Books
  <2> QED BY <1>3, <2>1, StillOrdered
<1>5. \A i \in 1..startOffset : ~Live(queue'[i])
  <2> SUFFICES ASSUME NEW i \in 1..startOffset PROVE ~Live(queue'[i])  OBVIOUS
  <2>1. i \in DOMAIN queue /\ ~Live(queue[i])
    BY <1>2, LenProperties DEF EQInv, Typed, Placed, Places
  <2> QED BY <1>3, <2>1 DEF Live
<1>6. ASSUME NEW e \in Events, NEW p \in Objects
      PROVE  Has(queue', e, p) <=> Has(queue, e, p) /\ p # o
  BY <1>1, <1>3 DEF Has
<1>7. ASSUME NEW e \in Events
      PROVE  fate'[e] = IF Has(queue, e, o) THEN "out" ELSE fate[e]
  BY <1>0 DEF Has
<1>8. fate' \in [Events -> {"unposted", "queued", "out"}]
  BY <1>0 DEF EQInv, Typed
<1>9. /\ posted' \in [Objects -> Int] /\ home' \in [Objects -> {"here", "moved", "gone"}]
      /\ home'[o] = "gone" /\ \A p \in Objects \ {o} : home'[p] = home[p] /\ posted'[p] = posted[p]
  BY <1>0 DEF EQInv, Typed
<1>10. Books'
  <2>1. Books /\ Typed /\ home'[o] # "here"
    BY <1>9 DEF EQInv
  <2> QED BY <1>4, <1>6, <1>7, <1>9, <2>1, BooksGone
<1>11. home[o] # "moved" /\ Unmoved' => Unmoved  BY <1>9 DEF Unmoved
<1> QED BY <1>0, <1>3, <1>4, <1>5, <1>8, <1>9, <1>10, <1>11 DEF Ordered

LEMMA StepHandlerDeletes ==
  ASSUME EQInv, NEW o \in Objects, HandlerDeletes(o)
  PROVE  EQInv'
<1>0. /\ Destroy(o) /\ UNCHANGED stack /\ Depth > 0 /\ Top.pc = "handler"
      /\ home[o] # "moved"
  BY DEF HandlerDeletes, At
<1>1. /\ queue' \in Seq(Entry) /\ Len(queue') = Len(queue)
      /\ UNCHANGED <<startOffset, insertionOffset>>
      /\ \A i \in 1..startOffset : ~Live(queue'[i])
      /\ Books' /\ Ordered'
      /\ fate' \in [Events -> {"unposted", "queued", "out"}]
      /\ posted' \in [Objects -> Int] /\ home' \in [Objects -> {"here", "moved", "gone"}]
      /\ Unmoved' => Unmoved
  BY <1>0, DestroyIs
<1>2. Typed'  BY <1>0, <1>1 DEF EQInv, Typed
<1>3. /\ Places(queue', startOffset, insertionOffset, stack)
      /\ Stays(queue, startOffset, insertionOffset, stack)
           => Stays(queue', startOffset, insertionOffset, stack)
  <2>1. /\ Places(queue, startOffset, insertionOffset, stack) /\ Len(stack) \in Nat
        /\ \A k \in 1..Len(stack)-1 : stack[k].pc = "handler"
    BY LenProperties DEF EQInv, Placed, Places, Typed
  <2> QED BY <1>1, <2>1, StillPlaces
<1>4. Placed'  BY <1>0, <1>1, <1>3 DEF EQInv, Placed
<1>5. Doing'  BY <1>0 DEF Doing, At, Top, Depth
<1> QED BY <1>1, <1>2, <1>4, <1>5 DEF EQInv

LEMMA StepDeleteReceiver == ASSUME EQInv, DeleteReceiver PROVE EQInv'
<1>0. Destroy(Top.obj) /\ Depth > 0 /\ Top.pc = "delete" /\ InPass(Top)
  BY DEF DeleteReceiver, At, InPass
<1>1. Top.obj \in Objects /\ home[Top.obj] # "moved"  BY <1>0 DEF EQInv, Doing, At
<1>2. PICK l \in Frame : TopBecomes(l) /\ l.pc = "scan" /\ l.it = Top.it
  BY <1>0, ReturnIs DEF DeleteReceiver, EQInv
<1>3. /\ queue' \in Seq(Entry) /\ Len(queue') = Len(queue)
      /\ UNCHANGED <<startOffset, insertionOffset>>
      /\ \A i \in 1..startOffset : ~Live(queue'[i])
      /\ Books' /\ Ordered'
      /\ fate' \in [Events -> {"unposted", "queued", "out"}]
      /\ posted' \in [Objects -> Int] /\ home' \in [Objects -> {"here", "moved", "gone"}]
      /\ Unmoved' => Unmoved
  BY <1>0, <1>1, DestroyIs
<1>4. Typed'  BY <1>2, <1>3 DEF EQInv, Typed, TopBecomes
<1>5. Depth \in Nat /\ Depth = Len(stack) /\ Top = stack[Depth] /\ Depth \in 1..Len(stack)
  BY <1>0, TopIs DEF EQInv, Depth, Top
<1>6. /\ Places(queue', startOffset, insertionOffset, stack')
      /\ Stays(queue, startOffset, insertionOffset, stack)
           => Stays(queue', startOffset, insertionOffset, stack')
  <2>1. /\ Places(queue, startOffset, insertionOffset, stack)
        /\ \A k \in 1..Len(stack)-1 : stack[k].pc = "handler"
    BY DEF EQInv, Placed, Places
  <2>2. \A k \in 1..Depth : k \in 1..Depth-1 \/ k = Depth  BY <1>5
  <2>3. /\ Len(stack') = Len(stack) /\ Len(stack) \in Nat
        /\ \A k \in 1..Len(stack) : stack'[k].it = stack[k].it
        /\ \A k \in 1..Len(stack)-1 : stack'[k].pc = "handler"
        /\ InPass(stack'[Len(stack)]) <=> InPass(stack[Len(stack)])
    BY <1>0, <1>2, <1>5, <2>1, <2>2 DEF TopBecomes, InPass
  <2> QED BY <1>3, <2>1, <2>3, StillPlaces
<1>7. Placed'  BY <1>3, <1>6 DEF EQInv, Placed
<1>8. Doing'
  <2>1. stack'[Len(stack')].pc = "scan"  BY <1>2, <1>5 DEF TopBecomes
  <2> QED BY <2>1 DEF Doing, At, Top, Depth
<1> QED BY <1>3, <1>4, <1>7, <1>8 DEF EQInv

------------------------------------------------------------------------------
(* moveToThread(): the events of the receiver leave the list.                  *)
LEMMA UnlinkedIs ==
  ASSUME queue \in Seq(Entry), NEW gone \in SUBSET (DOMAIN queue),
         NEW st \in Seq(Frame), NEW tt, tt = Unlinked(st, gone)
  PROVE  /\ tt \in Seq(Frame) /\ Len(tt) = Len(st)
         /\ \A k \in 1..Len(st) :
               /\ tt[k].pc = st[k].pc /\ tt[k].obj = st[k].obj
               /\ tt[k].it = IF st[k].it \in gone THEN DanglingIt
                             ELSE IF st[k].it > 0 THEN Rank(gone, st[k].it) ELSE st[k].it
<1>0. DOMAIN st = 1..Len(st) /\ Len(st) \in Nat /\ \A k \in 1..Len(st) : st[k] \in Frame
  BY LenProperties
<1>1. \A i : Rank(gone, i) \in Int
  <2> TAKE i
  <2> DEFINE all == DOMAIN queue
             below == {k \in all \ gone : k < i}
  <2>1. IsFiniteSet(all)
    <3>1. all = 1..Len(queue) /\ Len(queue) \in Nat  BY LenProperties
    <3> QED BY <3>1, UpTo
  <2>2. below \in SUBSET all  OBVIOUS
  <2>3. Rank(gone, i) = 1 + Cardinality(below)  BY DEF Rank
  <2> HIDE DEF all, below
  <2>4. Cardinality(below) \in Nat  BY <2>1, <2>2, FS_Subset, FS_CardinalityType
  <2> QED BY <2>3, <2>4
<1> DEFINE to(i) == IF i \in gone THEN DanglingIt ELSE IF i > 0 THEN Rank(gone, i) ELSE i
<1>2. ASSUME NEW k \in 1..Len(st)
      PROVE  /\ tt[k] \in Frame /\ tt[k].pc = st[k].pc /\ tt[k].obj = st[k].obj
             /\ tt[k].it = to(st[k].it)
  <2> DEFINE x == st[k]
             i == to(x.it)
  <2>1. x \in Frame /\ tt[k] = [x EXCEPT !.it = i]  BY <1>0 DEF Unlinked
  <2> HIDE DEF x
  <2>2. i \in Int  BY <1>1, <2>1 DEF Frame, DanglingIt
  <2> HIDE DEF i
  <2>3. /\ [x EXCEPT !.it = i] \in Frame /\ [x EXCEPT !.it = i].pc = x.pc
        /\ [x EXCEPT !.it = i].obj = x.obj /\ [x EXCEPT !.it = i].it = i
    BY <2>1, <2>2 DEF Frame
  <2> QED BY <2>1, <2>3 DEF x, i
<1>3. tt \in [1..Len(st) -> Frame]
  <2>1. tt = [k \in 1..Len(st) |-> tt[k]]  BY <1>0 DEF Unlinked
  <2> QED BY <1>2, <2>1
<1>4. tt \in Seq(Frame)  BY <1>0, <1>3, SeqDef
<1>5. Len(tt) = Len(st)  BY <1>0, <1>3, <1>4, LenProperties
<1> QED BY <1>2, <1>4, <1>5

LEMMA StepHandlerMoves ==
  ASSUME EQInv, NEW o \in Objects, HandlerMoves(o)
  PROVE  EQInv'
<1> DEFINE gone == {i \in DOMAIN queue : queue[i].obj = o /\ Live(queue[i])}
<1>0. /\ Depth > 0 /\ Top.pc = "handler"
      /\ home' = [home EXCEPT ![o] = "moved"]
      /\ queue' = Without(gone) /\ stack' = Unlinked(stack, gone)
      /\ fate' = [e \in Events |-> IF \E i \in gone : queue[i].ev = e THEN "out" ELSE fate[e]]
      /\ UNCHANGED <<startOffset, insertionOffset, posted>>
  BY DEF HandlerMoves, At
<1>1. /\ gone \in SUBSET (DOMAIN queue)
      /\ \A i \in DOMAIN queue : i \in gone <=> queue[i].obj = o /\ Live(queue[i])
  OBVIOUS
<1> HIDE DEF gone
<1>2. /\ queue \in Seq(Entry) /\ stack \in Seq(Frame) /\ insertionOffset \in Nat
      /\ startOffset \in Nat /\ Len(stack) \in Nat
      /\ InOrder(queue) /\ TailSorted(queue, insertionOffset) /\ Unique(queue)
      /\ Places(queue, startOffset, insertionOffset, stack)
  BY LenProperties DEF EQInv, Typed, Ordered, Books, Placed
<1>3. /\ queue' \in Seq(Entry)
      /\ \E f : Left(queue', queue, f) /\ \A i \in DOMAIN queue' : f[i] >= i
      /\ \A e \in Events, p \in Objects :
            Has(queue', e, p) <=> \E k \in DOMAIN queue \ gone : queue[k].ev = e /\ queue[k].obj = p
  <2>1. LET r == Without(gone) IN
        /\ r \in Seq(Entry)
        /\ \E f : Left(r, queue, f) /\ \A i \in DOMAIN r : f[i] >= i
        /\ \A e \in Events, p \in Objects :
              Has(r, e, p) <=> \E k \in DOMAIN queue \ gone : queue[k].ev = e /\ queue[k].obj = p
    BY ONLY <1>1, <1>2, WithoutKeeps
  <2>2. queue' = Without(gone)  BY <1>0
  <2> QED BY ONLY <2>1, <2>2
<1>4. /\ stack' \in Seq(Frame) /\ Len(stack') = Len(stack)
      /\ \A k \in 1..Len(stack) :
            /\ stack'[k].pc = stack[k].pc /\ stack'[k].obj = stack[k].obj
            /\ stack'[k].it = IF stack[k].it \in gone THEN DanglingIt
                              ELSE IF stack[k].it > 0 THEN Rank(gone, stack[k].it)
                              ELSE stack[k].it
  <2>1. stack' = Unlinked(stack, gone)  BY <1>0
  <2> QED BY ONLY <1>1, <1>2, <2>1, UnlinkedIs
<1>5. InOrder(queue') /\ TailSorted(queue', insertionOffset) /\ Unique(queue')
  <2>1. PICK f : Left(queue', queue, f) /\ \A i \in DOMAIN queue' : f[i] >= i  BY <1>3
  <2>2. \A i \in DOMAIN queue' : i > insertionOffset => f[i] > insertionOffset
    <3> SUFFICES ASSUME NEW i \in DOMAIN queue', i > insertionOffset
                 PROVE  f[i] > insertionOffset
      OBVIOUS
    <3>1. DOMAIN queue' = 1..Len(queue') /\ DOMAIN queue = 1..Len(queue)  BY <1>2, <1>3, LenProperties
    <3>2. f[i] \in DOMAIN queue /\ f[i] >= i  BY <2>1 DEF Left
    <3>3. i \in Int /\ f[i] \in Int  BY <3>1, <3>2
    <3> QED BY <1>2, <3>2, <3>3
  <2>3. /\ Unique(queue) => Unique(queue')
        /\ InOrder(queue) => InOrder(queue')
        /\ \A a \in Nat, b \in Nat :
              TailSorted(queue, a) /\ (\A i \in DOMAIN queue' : i > b => f[i] > a)
                => TailSorted(queue', b)
    BY ONLY <1>2, <1>3, <2>1, LeftKeeps
  <2> QED BY <1>2, <2>2, <2>3
<1>6. Places(queue', startOffset, insertionOffset, stack')
  <2>1. \A g \in gone : Live(queue[g])  BY <1>1
  <2>2. Places(Without(gone), startOffset, insertionOffset, stack')
    BY ONLY <1>1, <1>2, <1>4, <2>1, ErasePlaces
  <2>3. queue' = Without(gone)  BY <1>0
  <2> QED BY ONLY <2>2, <2>3
<1>7. ASSUME NEW e \in Events, NEW p \in Objects
      PROVE  Has(queue', e, p) <=> Has(queue, e, p) /\ p # o
  <2>1. e # NullEvent  BY BoundsAssumption DEF Events, NullEvent
  <2> QED BY <1>1, <1>3, <2>1 DEF Has, Live
<1>8. ASSUME NEW e \in Events
      PROVE  fate'[e] = IF Has(queue, e, o) THEN "out" ELSE fate[e]
  <2>1. e # NullEvent  BY BoundsAssumption DEF Events, NullEvent
  <2>2. (\E i \in gone : queue[i].ev = e) <=> Has(queue, e, o)  BY <1>1, <2>1 DEF Has, Live
  <2> QED BY <1>0, <2>2
<1>9. /\ home' \in [Objects -> {"here", "moved", "gone"}] /\ home'[o] = "moved"
      /\ \A p \in Objects \ {o} : home'[p] = home[p] /\ posted'[p] = posted[p]
  BY <1>0 DEF EQInv, Typed
<1>10. Books'
  <2>1. Books /\ Typed /\ home'[o] # "here"
    BY <1>9 DEF EQInv
  <2> QED BY <1>5, <1>7, <1>8, <1>9, <2>1, BooksGone
<1>11. Typed'
  <2>1. fate' \in [Events -> {"unposted", "queued", "out"}]
    BY <1>0 DEF EQInv, Typed
  <2> QED BY <1>0, <1>3, <1>4, <1>9, <2>1 DEF EQInv, Typed
<1>12. Ordered' /\ Placed'  BY <1>0, <1>5, <1>6, <1>9 DEF Ordered, Placed, Unmoved
<1>13. Doing'
  <2>1. Len(stack) \in 1..Len(stack)  BY <1>0, <1>2 DEF Depth
  <2>2. stack'[Len(stack')].pc = "handler"  BY <1>0, <1>4, <2>1 DEF Top, Depth
  <2> QED BY <2>2 DEF Doing, At, Top, Depth
<1> QED BY <1>10, <1>11, <1>12, <1>13 DEF EQInv

------------------------------------------------------------------------------
(* The invariant holds. *)
LEMMA StepIdle ==
  ASSUME EQInv, UNCHANGED <<list, objs, stack>>
  PROVE  EQInv'
<1>1. Books' /\ Ordered' /\ (Unmoved' <=> Unmoved)  BY SameList
<1> QED BY <1>1 DEF EQInv, Typed, Placed, Doing, At, Top, Depth, list, objs

LEMMA StepEQ == ASSUME EQInv, [Next]_vars PROVE EQInv'
<1>1. CASE Dispatcher
  BY <1>1, StepTestExit, StepPrepare, StepPoll, StepAcknowledged, StepCheck, StepDispatch
     DEF Dispatcher
<1>2. CASE Pass
  BY <1>2, StepSkip, StepDefer, StepDeliver, StepReadFreed, StepCleanUp DEF Pass
<1>3. CASE Handler
  BY <1>3, StepHandlerNests, StepHandlerExits, StepHandlerReturns, StepDeleteReceiver,
     StepHandlerDeletes, StepHandlerMoves, StepHandlerPosts DEF Handler
<1>4. ASSUME NEW p \in Posters, Poster(p) PROVE EQInv'
  <2>1. CASE Waking(p)
    <3>1. UNCHANGED <<list, objs, stack>>  BY <2>1 DEF Waking, Serial, Signal, Write, list, objs
    <3> QED BY <3>1, StepIdle
  <2> QED BY <1>4, <2>1, StepPosterPosts, StepPosterExits DEF Poster
<1>5. CASE UNCHANGED vars
  <2>1. UNCHANGED <<list, objs, stack>>  BY <1>5 DEF vars
  <2> QED BY <2>1, StepIdle
<1> QED BY <1>1, <1>2, <1>3, <1>4, <1>5 DEF Next

(* The list, the events in it, the counts of the receivers and the places of   *)
(* the passes fit together, at any depth of nested loops.                      *)
THEOREM EventQueueInvariant == Spec => []EQInv
<1>1. Spec => Init /\ [][Next]_vars  BY DEF Spec
<1> QED BY <1>1, InitEQ, StepEQ, PTL

(* m_postedEvents, compared with the number of entries in the list.            *)
LEMMA OfCounts ==
  ASSUME NEW q \in Seq(Entry), Unique(q), NEW o
  PROVE  Cardinality(Of(q, o)) = Cardinality({i \in DOMAIN q : q[i].obj = o /\ Live(q[i])})
<1> DEFINE P == {i \in DOMAIN q : q[i].obj = o /\ Live(q[i])}
           T == Of(q, o)
           f == [i \in P |-> q[i].ev]
<1>0. DOMAIN q = 1..Len(q) /\ Len(q) \in Nat /\ \A i \in DOMAIN q : q[i] \in Entry
  BY LenProperties
<1>1. IsFiniteSet(P)
  <2> DEFINE all == 1..Len(q)
  <2>1. P \in SUBSET all /\ IsFiniteSet(all)  BY <1>0, UpTo
  <2> HIDE DEF P, all
  <2> QED BY <2>1, FS_Subset
<1>2. \A i \in P : q[i].ev \in T  BY <1>0 DEF Entry, Live, Of, Has
<1>3. ASSUME NEW e \in T PROVE \E i \in P : q[i].ev = e
  <2>1. e \in Events /\ e # NullEvent  BY BoundsAssumption DEF Of, Events, NullEvent
  <2>2. PICK i \in DOMAIN q : q[i].ev = e /\ q[i].obj = o  BY DEF Of, Has
  <2> QED BY <2>1, <2>2 DEF Live
<1>4. \A i, j \in P : q[i].ev = q[j].ev => i = j  BY DEF Unique
<1> HIDE DEF P, T
<1>5. /\ f \in [P -> T] /\ \A e \in T : \E i \in P : f[i] = e
      /\ \A i, j \in P : f[i] = f[j] => i = j
  BY <1>2, <1>3, <1>4
<1> HIDE DEF f
<1>6. f \in Surjection(P, T) /\ f \in Injection(P, T)
  BY <1>5 DEF Surjection, Injection, IsInjective
<1>7. Cardinality(T) = Cardinality(P)  BY <1>1, <1>6, FS_Surjection
<1> QED BY <1>7 DEF P, T

(* Every receiver's m_postedEvents is the number of its entries in the list,   *)
(* whatever was delivered, put off, deleted or moved.                          *)
THEOREM EventQueueCounts == Spec => []CountsMatch
<1>1. EQInv => CountsMatch
  <2> SUFFICES ASSUME EQInv, NEW o \in Objects, home[o] = "here"
               PROVE  posted[o] = Cardinality({i \in DOMAIN queue :
                                                  queue[i].obj = o /\ Live(queue[i])})
    BY DEF CountsMatch
  <2>1. posted[o] = Cardinality(Of(queue, o))  BY DEF EQInv, Books, Counted
  <2>2. queue \in Seq(Entry) /\ Unique(queue)  BY DEF EQInv, Typed, Books
  <2> QED BY <2>1, <2>2, OfCounts
<1> QED BY <1>1, EventQueueInvariant, PTL

(* A posted event is in the list once, behind startOffset, until it is         *)
(* delivered, dropped or moved.                                                *)
THEOREM EventQueueOnce == Spec => []QueuedOnce
<1>1. EQInv => QueuedOnce
  <2> SUFFICES ASSUME EQInv, NEW e \in Events
               PROVE  Cardinality({i \in Pending : queue[i].ev = e})
                        = IF fate[e] = "queued" THEN 1 ELSE 0
    BY DEF QueuedOnce
  <2> DEFINE P == {i \in Pending : queue[i].ev = e}
  <2>0. /\ DOMAIN queue = 1..Len(queue) /\ Len(queue) \in Nat /\ startOffset \in Nat
        /\ \A i \in DOMAIN queue : queue[i] \in Entry
        /\ Unique(queue) /\ (fate[e] = "queued" <=> \E o \in Objects : Has(queue, e, o))
        /\ \A i \in 1..startOffset : ~Live(queue[i])
    BY LenProperties DEF EQInv, Typed, Books, Known, Placed, Places
  <2>1. e # NullEvent  BY BoundsAssumption DEF Events, NullEvent
  <2>2. \A i : i \in P <=> i \in DOMAIN queue /\ queue[i].ev = e
    <3> TAKE i
    <3>1. i \in P => i \in DOMAIN queue /\ queue[i].ev = e  BY <2>0 DEF Pending
    <3>2. ASSUME i \in DOMAIN queue, queue[i].ev = e PROVE i \in P
      <4>1. Live(queue[i])  BY <2>1, <3>2 DEF Live
      <4>2. i \in startOffset+1 .. Len(queue)  BY <2>0, <3>2, <4>1
      <4> QED BY <3>2, <4>1, <4>2 DEF Pending
    <3> QED BY <3>1, <3>2
  <2> HIDE DEF P
  <2>3. CASE fate[e] = "queued"
    <3>1. PICK o \in Objects : Has(queue, e, o)  BY <2>0, <2>3
    <3>2. PICK i \in DOMAIN queue : queue[i].ev = e  BY <3>1 DEF Has
    <3>3. P = {i}  BY <2>0, <2>1, <2>2, <3>2 DEF Unique, Live
    <3>4. Cardinality({i}) = 1  BY FS_Singleton
    <3> QED BY <2>3, <3>3, <3>4 DEF P
  <2>4. CASE fate[e] # "queued"
    <3>1. \A i \in DOMAIN queue : queue[i].ev # e  BY <2>0, <2>4 DEF Has, Entry
    <3>2. P = {}  BY <2>2, <3>1
    <3> QED BY <2>4, <3>2, FS_EmptySet DEF P
  <2> QED BY <2>3, <2>4
<1> QED BY <1>1, EventQueueInvariant, PTL

(* What a pass may still deliver has a receiver that lives in this thread.     *)
THEOREM EventQueueReceivers == Spec => []ReceiverAlive
<1>1. EQInv => ReceiverAlive
  <2> SUFFICES ASSUME EQInv, NEW i \in Pending PROVE home[queue[i].obj] = "here"
    BY DEF ReceiverAlive
  <2>1. i \in DOMAIN queue /\ Live(queue[i]) /\ queue[i] \in Entry
    BY LenProperties DEF EQInv, Typed, Pending
  <2>2. queue[i].ev \in Events /\ queue[i].obj \in Objects  BY <2>1 DEF Entry, Live
  <2>3. Has(queue, queue[i].ev, queue[i].obj)  BY <2>1 DEF Has
  <2> QED BY <2>2, <2>3 DEF EQInv, Books, Here
<1> QED BY <1>1, EventQueueInvariant, PTL

(* Plain events of one priority stay in the order in which they were posted,   *)
(* at any depth of nested loops, and when events of others leave the list.     *)
THEOREM EventQueueFifo == Spec => []Fifo
<1>1. EQInv => Fifo
  <2> SUFFICES ASSUME EQInv PROVE Fifo  OBVIOUS
  <2>1. \A i \in Pending : i \in DOMAIN queue /\ Live(queue[i])
    BY LenProperties DEF EQInv, Typed, Pending
  <2> QED BY <2>1 DEF Fifo, EQInv, Ordered, InOrder
<1> QED BY <1>1, EventQueueInvariant, PTL

(* As long as no receiver was moved away, the entry a pass reads is there,     *)
(* however many loops were nested in its handlers.                             *)
THEOREM EventQueueIterator == Spec => []IteratorValid
<1>1. EQInv => IteratorValid
  <2> SUFFICES ASSUME EQInv, Locked, More, Unmoved PROVE Top.it # DanglingIt
    BY DEF IteratorValid, Unmoved
  <2>1. Depth > 0 /\ InPass(Top) /\ Depth = Len(stack) /\ Top = stack[Depth]
    BY DEF Locked, At, InPass, Depth, Top
  <2>2. Innermost(stack) = Depth  BY <2>1, Zenon DEF Innermost
  <2>3. startOffset \in Nat /\ insertionOffset \in Nat /\ startOffset < insertionOffset
    BY DEF EQInv, Typed, More
  <2>4. Top.it = startOffset + 1 \/ startOffset = insertionOffset
    BY <2>1, <2>2 DEF EQInv, Placed, Stays
  <2> QED BY <2>3, <2>4 DEF DanglingIt
<1> QED BY <1>1, EventQueueInvariant, PTL

------------------------------------------------------------------------------
(* Before a loop is nested. Its passes are not nested, and every request to    *)
(* delete that they find is allowed; when nothing was posted since a pass      *)
(* began the list ends where the pass does, and is empty when it has ended;    *)
(* m_signaled promises a write; and a thread on its way through wakeUp(), or   *)
(* the descriptor, ends a poll that began before an event was posted.          *)
Alone == Depth <= 1 /\ \A i \in DOMAIN queue : queue[i].level \in {0, 2}
Busy == Depth > 0 /\ InPass(Top)
Drains ==
    canWait => IF Busy THEN Len(queue) <= insertionOffset /\ (Top.it = EndIt => startOffset = Len(queue))
               ELSE Len(queue) = 0
Writing == \E p \in Posters : ppc[p] = "write"
Signals == signaled /\ ~At("drained") => fd \/ Writing
Wakes == At("poll") /\ ~Top.ready /\ Len(queue) > 0 => fd \/ \E p \in Posters : ppc[p] # "idle"
(* What a pass works on was sorted when it began, and nothing is put into it.  *)
Heads ==
    Unmoved => /\ Busy \/ insertionOffset = 0
               /\ \A i, j \in DOMAIN queue :
                     i < j /\ j <= insertionOffset => queue[i].prio >= queue[j].prio
Movers == \A o \in Objects : home[o] = "moved" => o \in Movable
PassInv == Alone /\ Drains /\ Heads /\ Movers
WakeInv == ppc \in [Posters -> {"idle", "serial", "signal", "write"}] /\ Signals /\ Wakes

LEMMA TopAfter ==
  ASSUME Typed, NEW l, TopBecomes(l)
  PROVE  Depth' = Depth /\ Top' = l
BY LenProperties DEF TopBecomes, Typed, Depth, Top

(* Steps inside a pass, or outside of it. *)
LEMMA PassStays ==
  ASSUME EQInv, PassInv, Depth > 0, NEW l, TopBecomes(l), InPass(l) <=> InPass(Top),
         Len(queue') = Len(queue), DOMAIN queue' = DOMAIN queue,
         \A i \in DOMAIN queue :
            queue'[i].prio = queue[i].prio /\ queue'[i].level = queue[i].level,
         UNCHANGED <<insertionOffset, canWait>>, Unmoved' => Unmoved, Movers',
         (Top.it = EndIt => startOffset = Len(queue)) => (l.it = EndIt => startOffset' = Len(queue))
  PROVE  PassInv'
<1>1. Depth' = Depth /\ Top' = l  BY TopAfter DEF EQInv
<1>2. Busy' <=> Busy  BY <1>1 DEF Busy
<1>3. Alone'  BY <1>1 DEF PassInv, Alone
<1>4. Drains'  BY <1>1, <1>2 DEF PassInv, Drains
<1>5. Heads'  BY <1>2 DEF PassInv, Heads
<1> QED BY <1>3, <1>4, <1>5 DEF PassInv

(* Steps of the owner that do not end in a poll.                               *)
LEMMA WakeStays ==
  ASSUME WakeInv, ~At("drained"), ~At("poll")', UNCHANGED ppc,
         UNCHANGED <<signaled, fd>> \/ OwnWake
  PROVE  WakeInv'
<1>1. CASE UNCHANGED <<signaled, fd>>  BY <1>1 DEF WakeInv, Signals, Wakes, Writing
<1>2. CASE OwnWake
  <2>1. CASE signaled  BY <1>2, <2>1 DEF OwnWake, WakeInv, Signals, Wakes, Writing
  <2>2. CASE ~signaled  BY <1>2, <2>2 DEF OwnWake, WakeInv, Signals, Wakes
  <2> QED BY <2>1, <2>2
<1> QED BY <1>1, <1>2

LEMMA PassQuiet ==
  ASSUME EQInv, PassInv, Depth > 0, NEW l, TopBecomes(l), InPass(l) <=> InPass(Top),
         l.it = Top.it, UNCHANGED <<list, objs, canWait>>
  PROVE  PassInv'
<1>1. /\ UNCHANGED <<queue, startOffset, insertionOffset, canWait, home>>
  BY DEF list, objs
<1>2. (Unmoved' => Unmoved) /\ Movers'  BY <1>1 DEF Unmoved, Movers, PassInv
<1> QED BY <1>1, <1>2, PassStays

LEMMA GotoTop ==
  ASSUME Typed, Depth > 0, NEW v, v \in {"prepare", "poll", "drained", "check", "dispatch",
                                        "scan", "handler", "delete", "test", "freed"}, Goto(v)
  PROVE  \E l \in Frame : TopBecomes(l) /\ l.pc = v /\ l.it = Top.it
<1> DEFINE l == [Top EXCEPT !.pc = v]
<1>1. TopBecomes(l)  BY GotoIs
<1>2. l \in Frame /\ l.pc = v /\ l.it = Top.it  BY TopIs DEF Frame
<1> HIDE DEF l
<1> QED BY <1>1, <1>2

(* The top goes on to a place that is no poll, and nothing else changes. *)
LEMMA OneGoto ==
  ASSUME EQInv, PassInv, WakeInv, Depth > 0, Top.pc # "drained", NEW v,
         v \in {"prepare", "check", "dispatch", "scan", "handler", "delete", "test", "freed"},
         Goto(v), v \in {"scan", "handler", "delete", "freed"} <=> InPass(Top),
         UNCHANGED <<list, objs, canWait, wake, ppc>>
  PROVE  PassInv' /\ WakeInv'
<1>1. PICK l \in Frame : TopBecomes(l) /\ l.pc = v /\ l.it = Top.it  BY GotoTop DEF EQInv
<1>2. Top' = l  BY <1>1, TopAfter DEF EQInv
<1>3. InPass(l) <=> InPass(Top)  BY <1>1 DEF InPass
<1>4. PassInv'  BY <1>1, <1>3, PassQuiet
<1>5. ~At("drained") /\ ~At("poll")'  BY <1>1, <1>2 DEF At
<1>6. UNCHANGED <<signaled, fd>>  BY DEF wake
<1>7. WakeInv'  BY <1>5, <1>6, WakeStays
<1> QED BY <1>4, <1>7

LEMMA OneTestExit == ASSUME EQInv, PassInv, WakeInv, TestExit PROVE PassInv' /\ WakeInv'
<1>0. /\ Depth > 0 /\ Top.pc = "test" /\ ~InPass(Top) /\ Depth = Len(stack) /\ Depth \in Nat
      /\ UNCHANGED <<list, objs, canWait, wake, ppc>>
  BY TopIs DEF TestExit, At, InPass, Depth, EQInv
<1>1. CASE ~Top.exit
  <2>1. Goto("prepare")  BY <1>1 DEF TestExit, Goto
  <2> QED BY <1>0, <2>1, OneGoto
<1>2. CASE Top.exit
  <2>1. Depth = 1  BY <1>0 DEF PassInv, Alone
  <2>2. Depth' = 0
    <3> DEFINE n == Len(stack) - 1
    <3>1. stack' = SubSeq(stack, 1, n)  BY <1>2 DEF TestExit, Front
    <3>2. n = 0 /\ n \in Int  BY <1>0, <2>1
    <3>3. stack \in Seq(Frame)  BY DEF EQInv, Typed
    <3>4. \A i \in 1..n : stack[i] \in Frame
      <4> HIDE DEF n
      <4>1. ~(\E i : i \in 1..n)  BY ONLY <3>2
      <4> QED BY <4>1
    <3> HIDE DEF n
    <3>5. Len(SubSeq(stack, 1, n)) = IF 1 <= n THEN n-1+1 ELSE 0
      BY ONLY <3>2, <3>4, SubSeqProperties, 1 \in Int
    <3> QED BY <3>1, <3>2, <3>5 DEF Depth
  <2>3. ~Busy /\ ~Busy'  BY <1>0, <2>2 DEF Busy
  <2>4. PassInv'
    BY <1>0, <2>2, <2>3 DEF PassInv, Alone, Drains, Heads, Movers, Unmoved, list, objs
  <2>5. ~At("drained") /\ ~At("poll")'  BY <1>0, <2>2 DEF At
  <2>6. UNCHANGED <<signaled, fd>>  BY <1>0 DEF wake
  <2> QED BY <1>0, <2>4, <2>5, <2>6, WakeStays
<1> QED BY <1>1, <1>2

LEMMA OnePrepare == ASSUME EQInv, PassInv, WakeInv, Prepare PROVE PassInv' /\ WakeInv'
<1>0. /\ Depth > 0 /\ Top.pc = "prepare" /\ ~InPass(Top)
      /\ UNCHANGED <<list, objs, canWait, wake, ppc>>
  BY DEF Prepare, At, InPass
<1> DEFINE b == SourceReady
           m == [Top EXCEPT !.pc = "poll"]
           l == [m EXCEPT !.ready = b]
<1>1. Top \in Frame /\ b \in BOOLEAN /\ Depth \in DOMAIN stack
  BY <1>0, TopIs DEF EQInv, SourceReady
<1>2. stack' = [stack EXCEPT ![Depth] = l]
  <2>1. stack' = [stack EXCEPT ![Depth].pc = "poll", ![Depth].ready = b]  BY DEF Prepare
  <2> HIDE DEF b
  <2> QED BY ONLY <1>1, <2>1 DEF Top
<1> HIDE DEF b
<1>3. m \in Frame /\ m.pc = "poll" /\ m.it = Top.it  BY <1>1 DEF Frame
<1> HIDE DEF m
<1>4. l \in Frame /\ l.pc = "poll" /\ l.it = Top.it /\ l.ready = b  BY <1>1, <1>3 DEF Frame
<1> HIDE DEF l
<1>5. TopBecomes(l)  BY <1>0, <1>2, <1>4, TopBecomesIs DEF EQInv
<1>6. Top' = l /\ Depth' = Depth  BY <1>5, TopAfter DEF EQInv
<1>7. ~InPass(l)  BY <1>4 DEF InPass
<1>8. PassInv'  BY <1>0, <1>4, <1>5, <1>7, PassQuiet
<1>9. Wakes'
  <2>1. ~b => canWait  BY DEF b, SourceReady
  <2>2. ~b => Len(queue) = 0  BY <1>0, <2>1 DEF PassInv, Drains, Busy
  <2> QED BY <1>0, <1>4, <1>6, <2>2 DEF Wakes, list
<1>10. Signals'  BY <1>0 DEF WakeInv, Signals, Writing, At, wake
<1> QED BY <1>0, <1>8, <1>9, <1>10 DEF WakeInv

LEMMA OnePoll == ASSUME EQInv, PassInv, WakeInv, Poll PROVE PassInv' /\ WakeInv'
<1> DEFINE v == IF fd THEN "drained" ELSE "check"
<1>0. /\ Depth > 0 /\ Top.pc = "poll" /\ ~InPass(Top) /\ fd' = FALSE /\ Goto(v)
      /\ UNCHANGED <<list, objs, canWait, signaled, ppc>>
  BY DEF Poll, At, InPass
<1>1. v \in {"drained", "check"}  OBVIOUS
<1>2. fd => v = "drained"  OBVIOUS
<1> HIDE DEF v
<1>3. PICK l \in Frame : TopBecomes(l) /\ l.pc = v /\ l.it = Top.it
  BY <1>0, <1>1, GotoTop DEF EQInv
<1>4. Top' = l /\ Depth' = Depth  BY <1>3, TopAfter DEF EQInv
<1>5. ~InPass(l)  BY <1>1, <1>3 DEF InPass
<1>6. PassInv'  BY <1>0, <1>3, <1>5, PassQuiet
<1>7. Wakes'  BY <1>1, <1>3, <1>4 DEF Wakes, At
<1>8. Signals'
  <2>1. CASE fd  BY <1>0, <1>2, <1>3, <1>4, <2>1 DEF Signals, At
  <2>2. CASE ~fd  BY <1>0, <2>2 DEF WakeInv, Signals, Writing, At
  <2> QED BY <2>1, <2>2
<1> QED BY <1>0, <1>6, <1>7, <1>8 DEF WakeInv

LEMMA OneAcknowledged == ASSUME EQInv, PassInv, WakeInv, Acknowledged PROVE PassInv' /\ WakeInv'
<1>0. /\ Depth > 0 /\ Top.pc = "drained" /\ ~InPass(Top) /\ signaled' = FALSE /\ Goto("check")
      /\ UNCHANGED <<list, objs, canWait, ppc>>
  BY DEF Acknowledged, At, InPass
<1>1. PICK l \in Frame : TopBecomes(l) /\ l.pc = "check" /\ l.it = Top.it
  BY <1>0, GotoTop DEF EQInv
<1>2. Top' = l  BY <1>1, TopAfter DEF EQInv
<1>3. ~InPass(l)  BY <1>1 DEF InPass
<1>4. PassInv'  BY <1>0, <1>1, <1>3, PassQuiet
<1>5. Wakes' /\ Signals'  BY <1>0, <1>1, <1>2 DEF Wakes, Signals, At
<1> QED BY <1>0, <1>4, <1>5 DEF WakeInv

LEMMA OneCheck == ASSUME EQInv, PassInv, WakeInv, Check PROVE PassInv' /\ WakeInv'
<1>1. /\ Depth > 0 /\ UNCHANGED <<list, objs, canWait, wake, ppc>> /\ ~InPass(Top)
      /\ Top.pc # "drained" /\ (Goto("dispatch") \/ Goto("prepare"))
  BY DEF Check, At, InPass
<1> QED BY <1>1, OneGoto

LEMMA OneReadFreed == ASSUME EQInv, PassInv, WakeInv, ReadFreed PROVE PassInv' /\ WakeInv'
<1>1. /\ Depth > 0 /\ UNCHANGED <<list, objs, canWait, wake, ppc>> /\ InPass(Top)
      /\ Top.pc # "drained" /\ Goto("freed")
  BY DEF ReadFreed, Locked, At, InPass
<1> QED BY <1>1, OneGoto

LEMMA OneHandlerExits ==
  ASSUME EQInv, PassInv, WakeInv, HandlerExits
  PROVE  PassInv' /\ WakeInv'
<1>0. /\ Depth > 0 /\ Top.pc = "handler" /\ InPass(Top) /\ OwnWake
      /\ UNCHANGED <<list, objs, canWait, ppc>>
  BY DEF HandlerExits, At, InPass
<1> DEFINE l == [Top EXCEPT !.exit = TRUE]
<1>1. stack' = [stack EXCEPT ![Depth] = l]  BY DEF HandlerExits, Top
<1>2. l \in Frame /\ l.pc = "handler" /\ l.it = Top.it  BY <1>0, TopIs DEF EQInv, Frame
<1> HIDE DEF l
<1>3. TopBecomes(l)  BY <1>0, <1>1, <1>2, TopBecomesIs DEF EQInv
<1>4. Top' = l  BY <1>3, TopAfter DEF EQInv
<1>5. InPass(l)  BY <1>2 DEF InPass
<1>6. PassInv'  BY <1>0, <1>2, <1>3, <1>5, PassQuiet
<1>7. ~At("drained") /\ ~At("poll")'  BY <1>0, <1>2, <1>4 DEF At
<1>8. WakeInv'  BY <1>0, <1>7, WakeStays
<1> QED BY <1>6, <1>8

LEMMA OneHandlerReturns ==
  ASSUME EQInv, PassInv, WakeInv, HandlerReturns
  PROVE  PassInv' /\ WakeInv'
<1>0. /\ Depth > 0 /\ Top.pc = "handler" /\ InPass(Top)
      /\ UNCHANGED <<list, objs, canWait, signaled, fd, ppc>>
  BY DEF HandlerReturns, At, InPass, wake
<1>1. PICK l \in Frame : TopBecomes(l) /\ l.pc = "scan" /\ l.it = Top.it
  BY <1>0, ReturnIs DEF HandlerReturns, EQInv
<1>2. Top' = l  BY <1>1, TopAfter DEF EQInv
<1>3. InPass(l)  BY <1>1 DEF InPass
<1>4. PassInv'  BY <1>0, <1>1, <1>3, PassQuiet
<1>5. ~At("drained") /\ ~At("poll")'  BY <1>0, <1>1, <1>2 DEF At
<1>6. WakeInv'  BY <1>0, <1>5, WakeStays
<1> QED BY <1>4, <1>6

LEMMA OnePosterExits ==
  ASSUME EQInv, PassInv, WakeInv, NEW p \in Posters, NEW k, PosterExits(p, k)
  PROVE  PassInv' /\ WakeInv'
<1>0. /\ k \in 1..Depth /\ Depth = Len(stack) /\ Depth \in Nat /\ ppc[p] = "idle"
      /\ stack' = [stack EXCEPT ![k].exit = TRUE]
      /\ ppc' = [ppc EXCEPT ![p] = "serial"] /\ UNCHANGED <<list, objs, canWait, signaled, fd>>
  BY LenProperties DEF PosterExits, Depth, EQInv, Typed, wake
<1>1. k = Depth /\ Depth > 0  BY <1>0 DEF PassInv, Alone
<1> DEFINE l == [Top EXCEPT !.exit = TRUE]
<1>2. stack' = [stack EXCEPT ![Depth] = l]  BY <1>0, <1>1 DEF Top
<1>3. l \in Frame /\ l.pc = Top.pc /\ l.it = Top.it  BY <1>1, TopIs DEF EQInv, Frame
<1> HIDE DEF l
<1>4. TopBecomes(l)  BY <1>1, <1>2, <1>3, TopBecomesIs DEF EQInv
<1>5. Top' = l /\ Depth' = Depth  BY <1>4, TopAfter DEF EQInv
<1>6. InPass(l) <=> InPass(Top)  BY <1>3 DEF InPass
<1>7. PassInv'  BY <1>0, <1>1, <1>3, <1>4, <1>6, PassQuiet
<1>8. ppc' \in [Posters -> {"idle", "serial", "signal", "write"}] /\ ppc'[p] = "serial"
  BY <1>0 DEF WakeInv
<1>9. Wakes'  BY <1>8 DEF Wakes
<1>10. Signals'
  <2>1. Writing => Writing'  BY <1>0 DEF WakeInv, Writing
  <2> QED BY <1>0, <1>3, <1>5, <2>1 DEF WakeInv, Signals, At
<1> QED BY <1>7, <1>8, <1>9, <1>10 DEF WakeInv

LEMMA OneDispatch == ASSUME EQInv, PassInv, WakeInv, Dispatch PROVE PassInv' /\ WakeInv'
<1>0. /\ Depth > 0 /\ Top.pc = "dispatch" /\ ~Busy /\ canWait' = TRUE
      /\ UNCHANGED <<queue, startOffset, objs, signaled, fd, ppc>>
  BY DEF Dispatch, At, InPass, Busy
<1> DEFINE scans == queue # <<>>
           pc == IF scans THEN "scan" ELSE "test"
           it == IF startOffset < Len(queue) THEN startOffset + 1 ELSE EndIt
           l == [[[Top EXCEPT !.ready = FALSE] EXCEPT !.pc = pc] EXCEPT !.it = it]
<1>1. /\ Top \in Frame /\ Depth \in DOMAIN stack
      /\ queue \in Seq(Entry) /\ Len(queue) \in Nat /\ DOMAIN queue = 1..Len(queue)
      /\ startOffset \in Nat /\ insertionOffset \in Nat /\ startOffset <= Len(queue)
  BY <1>0, TopIs, LenProperties DEF EQInv, Typed, Placed, Places
<1>2. /\ stack' = [stack EXCEPT ![Depth].ready = FALSE, ![Depth].pc = pc, ![Depth].it = it]
      /\ insertionOffset' = IF scans THEN Len(queue) ELSE insertionOffset
  BY DEF Dispatch
<1>3. /\ it \in Int /\ pc \in {"scan", "test"} /\ (it = EndIt => startOffset = Len(queue))
      /\ pc = "scan" <=> scans
  <2>1. it \in Int /\ (it = EndIt => startOffset = Len(queue))
    <3> DEFINE n == Len(queue)
               t == startOffset
    <3>1. n \in Nat /\ t \in Nat /\ t <= n  BY <1>1
    <3>2. it = IF t < n THEN t + 1 ELSE 0  BY DEF EndIt
    <3> HIDE DEF n, t, it
    <3>3. it \in Int /\ (it = 0 => t = n)  BY ONLY <3>1, <3>2
    <3> QED BY <3>3 DEF n, t, EndIt
  <2>2. (scans => pc = "scan") /\ (~scans => pc = "test")  BY Zenon
  <2>3. "scan" # "test"  OBVIOUS
  <2> HIDE DEF it, pc, scans
  <2> QED BY <2>1, <2>2, <2>3
<1>4. scans <=> Len(queue) > 0
  <2>1. queue = <<>> <=> Len(queue) = 0  BY <1>1, EmptySeq
  <2> QED BY <1>1, <2>1
<1> HIDE DEF it, pc, scans
<1>5. stack' = [stack EXCEPT ![Depth] = l]  BY <1>1, <1>2 DEF Top
<1>6. l \in Frame /\ l.pc = pc /\ l.it = it  BY <1>1, <1>3 DEF Frame
<1> HIDE DEF l
<1>7. TopBecomes(l)  BY <1>0, <1>5, <1>6, TopBecomesIs DEF EQInv
<1>8. Top' = l /\ Depth' = Depth  BY <1>7, TopAfter DEF EQInv
<1>9. Busy' <=> scans  BY <1>0, <1>3, <1>6, <1>8 DEF Busy, InPass
<1>10. Alone' /\ Movers'  BY <1>0, <1>8 DEF PassInv, Alone, Movers, objs
<1>11. Drains'
  <2>1. CASE scans  BY <1>0, <1>1, <1>2, <1>3, <1>6, <1>8, <1>9, <2>1 DEF Drains
  <2>2. CASE ~scans
    <3>1. Len(queue) = 0  BY <1>1, <1>4, <2>2
    <3> QED BY <1>0, <1>9, <2>2, <3>1 DEF Drains
  <2> QED BY <2>1, <2>2
<1>12. Heads'
  <2> SUFFICES ASSUME Unmoved PROVE
        /\ Busy' \/ insertionOffset' = 0
        /\ \A i, j \in DOMAIN queue :
              i < j /\ j <= insertionOffset' => queue[i].prio >= queue[j].prio
    BY <1>0 DEF Heads, Unmoved, objs
  <2>1. insertionOffset = 0  BY <1>0 DEF PassInv, Heads
  <2>2. \A i, j \in DOMAIN queue : i < j => queue[i].prio >= queue[j].prio
    <3>1. TailSorted(queue, 0)  BY <2>1 DEF EQInv, Ordered
    <3> QED BY <1>1, <3>1 DEF TailSorted
  <2> QED BY <1>2, <1>9, <2>1, <2>2
<1>13. ~At("drained") /\ ~At("poll")'  BY <1>0, <1>3, <1>6, <1>8 DEF At
<1>14. WakeInv'  BY <1>0, <1>13, WakeStays
<1> QED BY <1>10, <1>11, <1>12, <1>14 DEF PassInv

(* With one loop the level is 1 in the loop and 2 in a handler. *)
LEMMA LevelAlone ==
  ASSUME Typed, Depth = 1
  PROVE  Level = IF Top.pc \in {"handler", "delete"} THEN 2 ELSE 1
<1> DEFINE busy == {k \in 1..Depth : stack[k].pc \in {"handler", "delete"}}
<1>1. \A k : k \in busy <=> k = 1 /\ Top.pc \in {"handler", "delete"}  BY DEF Top
<1>2. Level = 1 + Cardinality(busy)  BY DEF Level
<1> HIDE DEF busy
<1>3. CASE Top.pc \in {"handler", "delete"}
  <2>1. busy = {1}  BY <1>1, <1>3
  <2>2. Cardinality({1}) = 1  BY FS_Singleton
  <2> QED BY <1>2, <1>3, <2>1, <2>2
<1>4. CASE Top.pc \notin {"handler", "delete"}
  <2>1. busy = {}  BY <1>1, <1>4
  <2> QED BY <1>2, <1>4, <2>1, FS_EmptySet
<1> QED BY <1>3, <1>4

LEMMA NoDefer == ASSUME EQInv, PassInv, Defer PROVE FALSE
<1>0. Locked /\ More /\ Top.it # DanglingIt /\ ~Allowed(Current)  BY DEF Defer
<1>1. /\ Depth = 1 /\ Top.pc = "scan" /\ startOffset + 1 \in DOMAIN queue
      /\ Current = queue[startOffset + 1]
  BY <1>0, Reading DEF PassInv, Alone
<1>2. Level = 1  BY <1>1, LevelAlone DEF EQInv
<1>3. Current.level \in {0, 2}  BY <1>1 DEF PassInv, Alone
<1> QED BY <1>0, <1>2, <1>3 DEF Allowed

LEMMA OneSkip == ASSUME EQInv, PassInv, WakeInv, Skip PROVE PassInv' /\ WakeInv'
<1>0. /\ Locked /\ More /\ Top.it # DanglingIt /\ startOffset' = startOffset + 1
      /\ stack' = [stack EXCEPT ![Depth].it = NextIt]
      /\ UNCHANGED <<queue, insertionOffset, canWait, home, signaled, fd, ppc>>
  BY DEF Skip, objs, wake
<1> DEFINE l == [Top EXCEPT !.it = NextIt]
<1>1. /\ NextIt \in Int /\ Depth > 0 /\ Top \in Frame /\ InPass(Top) /\ Top.pc = "scan"
      /\ (NextIt = EndIt => startOffset + 1 = Len(queue))
  BY <1>0, Reading DEF EndIt
<1>2. l \in Frame /\ l.pc = "scan" /\ l.it = NextIt  BY <1>1 DEF Frame
<1>3. stack' = [stack EXCEPT ![Depth] = l]  BY <1>0 DEF Top
<1> HIDE DEF l
<1>4. TopBecomes(l)  BY <1>1, <1>2, <1>3, TopBecomesIs DEF EQInv
<1>5. Top' = l  BY <1>4, TopAfter DEF EQInv
<1>6. InPass(l)  BY <1>2 DEF InPass
<1>7. (Unmoved' => Unmoved) /\ Movers'  BY <1>0 DEF Unmoved, Movers, PassInv
<1>8. PassInv'  BY <1>0, <1>1, <1>2, <1>4, <1>6, <1>7, PassStays
<1>9. ~At("drained") /\ ~At("poll")'  BY <1>1, <1>2, <1>5 DEF At
<1>10. WakeInv'  BY <1>0, <1>9, WakeStays
<1> QED BY <1>8, <1>10

LEMMA OneDeliver == ASSUME EQInv, PassInv, WakeInv, Deliver PROVE PassInv' /\ WakeInv'
<1> DEFINE pc == IF Current.kind = "delete" THEN "delete" ELSE "handler"
           o == Current.obj
           it == NextIt
           n == startOffset + 1
           l == [[[Top EXCEPT !.it = it] EXCEPT !.obj = o] EXCEPT !.pc = pc]
<1>0. /\ Locked /\ More /\ Top.it # DanglingIt /\ Live(Current)
      /\ startOffset' = n /\ queue' = [queue EXCEPT ![Top.it].ev = NullEvent]
      /\ stack' = [stack EXCEPT ![Depth].it = it, ![Depth].obj = o, ![Depth].pc = pc]
      /\ UNCHANGED <<insertionOffset, canWait, home, signaled, fd, ppc>>
  BY DEF Deliver, wake
<1>1. /\ it \in Int /\ Depth > 0 /\ Top \in Frame /\ InPass(Top) /\ Depth \in DOMAIN stack
      /\ Top.pc = "scan" /\ (it = EndIt => n = Len(queue)) /\ Current \in Entry
      /\ Top.it = n /\ queue \in Seq(Entry)
  BY <1>0, Reading DEF EndIt
<1>2. /\ Len(queue') = Len(queue) /\ DOMAIN queue' = DOMAIN queue /\ Stayed(queue', queue)
  BY <1>0, ReadEmptied
<1>3. pc \in {"delete", "handler"} /\ o \in Objects  BY <1>1 DEF Entry
<1> HIDE DEF it, o, pc
<1>4. stack' = [stack EXCEPT ![Depth] = l]  BY <1>0, <1>1 DEF Top
<1>5. l \in Frame /\ l.pc = pc /\ l.it = it  BY <1>1, <1>3 DEF Frame
<1> HIDE DEF l
<1>6. TopBecomes(l)  BY <1>1, <1>4, <1>5, TopBecomesIs DEF EQInv
<1>7. Top' = l  BY <1>6, TopAfter DEF EQInv
<1>8. InPass(l)  BY <1>3, <1>5 DEF InPass
<1>9. \A i \in DOMAIN queue :
         queue'[i].prio = queue[i].prio /\ queue'[i].level = queue[i].level
  BY <1>2 DEF Stayed, Left, Same
<1>10. (Unmoved' => Unmoved) /\ Movers'  BY <1>0 DEF Unmoved, Movers, PassInv
<1>11. PassInv'
  <2>1. l.it = EndIt => startOffset' = Len(queue)  BY <1>0, <1>1, <1>5
  <2> QED BY <1>0, <1>1, <1>2, <1>6, <1>8, <1>9, <1>10, <2>1, PassStays
<1>12. ~At("drained") /\ ~At("poll")'  BY <1>1, <1>3, <1>5, <1>7 DEF At
<1>13. WakeInv'  BY <1>0, <1>12, WakeStays
<1> QED BY <1>11, <1>13

(* ~iObject leaves the entries where they are. *)
LEMMA DestroyStays ==
  ASSUME EQInv, PassInv, NEW o \in Objects, Destroy(o)
  PROVE  /\ Len(queue') = Len(queue) /\ DOMAIN queue' = DOMAIN queue
         /\ \A i \in DOMAIN queue :
               queue'[i].prio = queue[i].prio /\ queue'[i].level = queue[i].level
         /\ UNCHANGED <<startOffset, insertionOffset, canWait, signaled, fd, ppc>>
         /\ (home[o] # "moved" => (Unmoved' => Unmoved)) /\ Movers'
<1>0. /\ queue' = Emptied(o) /\ home' = [home EXCEPT ![o] = "gone"]
      /\ UNCHANGED <<startOffset, insertionOffset, canWait, signaled, fd, ppc>>
      /\ queue \in Seq(Entry) /\ home \in [Objects -> {"here", "moved", "gone"}]
  BY DEF Destroy, wake, EQInv, Typed
<1>1. Len(queue') = Len(queue) /\ (home[o] # "moved" => (Unmoved' => Unmoved))
  BY DestroyIs
<1>2. DOMAIN queue' = DOMAIN queue  BY <1>0 DEF Emptied
<1>3. ASSUME NEW i \in DOMAIN queue
      PROVE  queue'[i].prio = queue[i].prio /\ queue'[i].level = queue[i].level
  <2> DEFINE x == queue[i]
  <2>1. x \in Entry /\ queue'[i] = IF x.obj = o THEN [x EXCEPT !.ev = NullEvent] ELSE x
    BY <1>0, LenProperties DEF Emptied
  <2> HIDE DEF x
  <2>2. [x EXCEPT !.ev = NullEvent].prio = x.prio /\ [x EXCEPT !.ev = NullEvent].level = x.level
    BY <2>1 DEF Entry
  <2> QED BY <2>1, <2>2 DEF x
<1>4. Movers'  BY <1>0 DEF PassInv, Movers
<1> QED BY <1>0, <1>1, <1>2, <1>3, <1>4

LEMMA OneHandlerDeletes ==
  ASSUME EQInv, PassInv, WakeInv, NEW o \in Objects, HandlerDeletes(o)
  PROVE  PassInv' /\ WakeInv'
<1>0. /\ Depth > 0 /\ Top.pc = "handler" /\ Destroy(o) /\ home[o] # "moved" /\ stack' = stack
  BY DEF HandlerDeletes, At
<1>1. Top' = Top /\ TopBecomes(Top)  BY <1>0, TopIs DEF Top, Depth, TopBecomes, EQInv, Typed
<1>2. PassInv'  BY <1>0, <1>1, DestroyStays, PassStays
<1>3. ~At("drained") /\ ~At("poll")'  BY <1>0, <1>1 DEF At
<1>4. WakeInv'  BY <1>0, <1>3, DestroyStays, WakeStays
<1> QED BY <1>2, <1>4

LEMMA OneDeleteReceiver ==
  ASSUME EQInv, PassInv, WakeInv, DeleteReceiver
  PROVE  PassInv' /\ WakeInv'
<1>0. Destroy(Top.obj) /\ Depth > 0 /\ Top.pc = "delete" /\ InPass(Top)
  BY DEF DeleteReceiver, At, InPass
<1>1. Top.obj \in Objects /\ home[Top.obj] # "moved"  BY <1>0 DEF EQInv, Doing, At
<1>2. PICK l \in Frame : TopBecomes(l) /\ l.pc = "scan" /\ l.it = Top.it
  BY <1>0, ReturnIs DEF DeleteReceiver, EQInv
<1>3. Top' = l  BY <1>2, TopAfter DEF EQInv
<1>4. InPass(l)  BY <1>2 DEF InPass
<1>5. PassInv'  BY <1>0, <1>1, <1>2, <1>4, DestroyStays, PassStays
<1>6. ~At("drained") /\ ~At("poll")'  BY <1>0, <1>2, <1>3 DEF At
<1>7. WakeInv'  BY <1>0, <1>1, <1>6, DestroyStays, WakeStays
<1> QED BY <1>5, <1>7

(* The only pass ends when it has seen the whole of its part of the list. *)
LEMMA OneCleanUp == ASSUME EQInv, PassInv, WakeInv, CleanUp PROVE PassInv' /\ WakeInv'
<1> DEFINE s == startOffset
           ins == insertionOffset
           m == [Top EXCEPT !.pc = "test"]
           l == [m EXCEPT !.it = EndIt]
           tt == [stack EXCEPT ![Depth] = l]
<1>0. /\ Locked /\ ~More /\ queue' = SubSeq(queue, s+1, Len(queue))
      /\ insertionOffset' = ins - s /\ UNCHANGED <<canWait, home, ppc>>
      /\ (UNCHANGED <<signaled, fd>> \/ OwnWake)
  BY DEF CleanUp, objs, wake
<1>1. /\ Depth > 0 /\ Depth \in Nat /\ Depth = Len(stack) /\ Top \in Frame /\ InPass(Top)
      /\ Top.pc = "scan" /\ Depth \in DOMAIN stack /\ Top = stack[Len(stack)] /\ Busy
      /\ s \in Nat /\ ins \in Nat /\ Len(queue) \in Nat /\ queue \in Seq(Entry)
      /\ s <= Len(queue) /\ s <= ins
  BY <1>0, TopIs, LenProperties
     DEF EQInv, Typed, Placed, Places, Locked, At, InPass, Depth, Top, Busy
<1>2. /\ Depth' = Depth /\ Top'.pc = "test"
  <2>1. stack' = Erased(tt, 1, s)
    <3>1. tt = [stack EXCEPT ![Depth].pc = "test", ![Depth].it = EndIt]  BY <1>1 DEF Top
    <3> HIDE DEF tt
    <3> QED BY <3>1 DEF CleanUp
  <2>2. l \in Frame /\ l.pc = "test"
    <3>1. m \in Frame /\ m.pc = "test"  BY <1>1 DEF Frame
    <3> HIDE DEF m
    <3> QED BY <3>1 DEF Frame, EndIt
  <2> HIDE DEF l
  <2>3. tt \in Seq(Frame) /\ Len(tt) = Depth /\ tt[Depth] = l
    <3>1. Typed /\ Depth > 0 /\ l \in Frame /\ tt = WithTop(l)
      BY <1>1, <2>2 DEF EQInv, WithTop
    <3> HIDE DEF tt
    <3> QED BY ONLY <3>1, TopSetIs
  <2> HIDE DEF tt
  <2>4. Len(stack') = Len(tt) /\ \A k \in 1..Len(tt) : stack'[k].pc = tt[k].pc
    BY ONLY <1>1, <2>1, <2>3, ErasedIs
  <2> QED BY <1>1, <2>2, <2>3, <2>4 DEF Depth, Top
<1>3. ~Busy'  BY <1>2 DEF Busy, InPass
<1> HIDE DEF s, ins
<1>4. s = Len(queue) \/ Top.it = EndIt \/ s = ins  BY <1>0, <1>1 DEF More, s, ins
<1>5. /\ Len(queue') = Len(queue) - s
      /\ \A i \in DOMAIN queue' : s+i \in DOMAIN queue /\ queue'[i] = queue[s+i]
  <2> DEFINE S == Entry
  <2>1. queue \in Seq(S) /\ s \in 0..Len(queue)  BY <1>1
  <2> HIDE DEF S
  <2>2. LET r == SubSeq(queue, s+1, Len(queue)) IN
        /\ r \in Seq(S) /\ Len(r) = Len(queue) - s
        /\ \A i \in 1..Len(queue)-s : r[i] = queue[s+i]
    BY ONLY <2>1, CutIs
  <2>3. DOMAIN queue = 1..Len(queue) /\ DOMAIN queue' = 1..Len(queue)-s
    BY <1>0, <1>1, <2>2, LenProperties
  <2>4. Len(queue') = Len(queue) - s /\ queue' = SubSeq(queue, s+1, Len(queue))  BY <1>0, <2>2
  <2>5. \A i \in 1..Len(queue)-s : queue'[i] = queue[s+i]  BY <2>2, <2>4
  <2>6. \A i \in 1..Len(queue)-s : s+i \in 1..Len(queue)  BY <1>1
  <2> QED BY ONLY <2>3, <2>4, <2>5, <2>6
<1>6. Alone' /\ Movers'  BY <1>0, <1>2, <1>5 DEF PassInv, Alone, Movers
<1>7. Drains'
  <2> SUFFICES ASSUME canWait PROVE Len(queue') = 0  BY <1>0, <1>3 DEF Drains
  <2>1. Len(queue) <= ins /\ (Top.it = EndIt => s = Len(queue))
    BY <1>1 DEF PassInv, Drains, s, ins
  <2>2. s = Len(queue)  BY <1>1, <1>4, <2>1
  <2> QED BY <1>1, <1>5, <2>2
<1>8. Heads'
  <2> SUFFICES ASSUME Unmoved PROVE
        /\ insertionOffset' = 0
        /\ \A i, j \in DOMAIN queue' :
              i < j /\ j <= insertionOffset' => queue'[i].prio >= queue'[j].prio
    BY <1>0 DEF Heads, Unmoved
  <2>1. ins <= Len(queue) /\ (Top.it = s+1 \/ s = ins)
    <3>1. Innermost(stack) = Len(stack)
      <4>1. Len(stack) > 0 /\ InPass(stack[Len(stack)])  BY <1>1
      <4> QED BY <4>1, Zenon DEF Innermost
    <3> QED BY <1>1, <3>1 DEF EQInv, Placed, Stays, s, ins
  <2>2. s = ins  BY <1>1, <1>4, <2>1 DEF EndIt
  <2>3. insertionOffset' = 0  BY <1>0, <1>1, <2>2
  <2>4. \A j \in DOMAIN queue' : j \in Nat /\ j > 0
    <3>1. queue' \in Seq(Entry)
      <4> DEFINE S == Entry
      <4>1. queue \in Seq(S) /\ s \in 0..Len(queue)  BY <1>1
      <4> HIDE DEF S
      <4>2. SubSeq(queue, s+1, Len(queue)) \in Seq(S)  BY ONLY <4>1, CutIs
      <4> QED BY <1>0, <4>2 DEF S, s
    <3>2. DOMAIN queue' = 1..Len(queue')  BY <3>1, LenProperties
    <3> QED BY <3>2
  <2> QED BY <2>3, <2>4
<1>9. ~At("drained") /\ ~At("poll")'  BY <1>1, <1>2 DEF At
<1>10. WakeInv'  BY <1>0, <1>9, WakeStays
<1> QED BY <1>6, <1>7, <1>8, <1>10 DEF PassInv

LEMMA OneHandlerMoves ==
  ASSUME EQInv, PassInv, WakeInv, NEW o \in Objects, HandlerMoves(o)
  PROVE  PassInv' /\ WakeInv'
<1> DEFINE gone == {i \in DOMAIN queue : queue[i].obj = o /\ Live(queue[i])}
<1>0. /\ Depth > 0 /\ Top.pc = "handler" /\ Depth = Len(stack) /\ Busy /\ o \in Movable
      /\ home' = [home EXCEPT ![o] = "moved"] /\ home \in [Objects -> {"here", "moved", "gone"}]
      /\ queue' = Without(gone) /\ stack' = Unlinked(stack, gone)
      /\ UNCHANGED <<startOffset, insertionOffset, canWait, signaled, fd, ppc>>
      /\ queue \in Seq(Entry) /\ stack \in Seq(Frame)
      /\ Depth \in 1..Len(stack) /\ Len(queue) \in Nat /\ insertionOffset \in Nat
      /\ startOffset \in Nat
  BY TopIs, LenProperties DEF HandlerMoves, At, wake, EQInv, Typed, Busy, InPass, Depth
<1>1. gone \in SUBSET (DOMAIN queue)  OBVIOUS
<1> HIDE DEF gone
<1>2. /\ queue' \in Seq(Entry) /\ Len(queue') <= Len(queue)
      /\ \A i \in 1..Len(queue') : \E k \in DOMAIN queue : queue'[i] = queue[k]
  <2> DEFINE S == Entry
  <2>1. queue \in Seq(S)  BY <1>0
  <2> HIDE DEF S
  <2>2. LET kept == DOMAIN queue \ gone
            r    == Without(gone)
        IN  /\ r \in Seq(S) /\ Len(r) = Cardinality(kept) /\ Len(r) <= Len(queue)
            /\ \A k \in kept : Rank(gone, k) \in 1..Len(r) /\ r[Rank(gone, k)] = queue[k]
            /\ \A i \in 1..Len(r) : \E k \in kept : Rank(gone, k) = i /\ r[i] = queue[k]
    BY ONLY <1>1, <2>1, WithoutIs
  <2> QED BY <1>0, <2>2 DEF S
<1>3. /\ stack' \in Seq(Frame) /\ Len(stack') = Len(stack)
      /\ \A k \in 1..Len(stack) :
            /\ stack'[k].pc = stack[k].pc /\ stack'[k].obj = stack[k].obj
            /\ stack'[k].it = IF stack[k].it \in gone THEN DanglingIt
                              ELSE IF stack[k].it > 0 THEN Rank(gone, stack[k].it)
                              ELSE stack[k].it
  <2>1. stack' = Unlinked(stack, gone)  BY <1>0
  <2>2. queue \in Seq(Entry) /\ stack \in Seq(Frame)  BY <1>0
  <2> DEFINE tt == stack'
  <2>3. tt = Unlinked(stack, gone)  BY <2>1
  <2> HIDE DEF tt
  <2>4. /\ tt \in Seq(Frame) /\ Len(tt) = Len(stack)
        /\ \A k \in 1..Len(stack) :
              /\ tt[k].pc = stack[k].pc /\ tt[k].obj = stack[k].obj
              /\ tt[k].it = IF stack[k].it \in gone THEN DanglingIt
                           ELSE IF stack[k].it > 0 THEN Rank(gone, stack[k].it)
                           ELSE stack[k].it
    BY ONLY <1>1, <2>2, <2>3, UnlinkedIs
  <2> QED BY ONLY <2>4 DEF tt
<1>4. /\ Depth' = Depth /\ Top'.pc = "handler"
      /\ Top'.it = IF Top.it \in gone THEN DanglingIt
                   ELSE IF Top.it > 0 THEN Rank(gone, Top.it) ELSE Top.it
  BY <1>0, <1>3 DEF Depth, Top
<1>5. Busy'  BY <1>0, <1>4 DEF Busy, InPass
<1>6. DOMAIN queue' = 1..Len(queue') /\ Len(queue') \in Nat  BY <1>2, LenProperties
<1>7. Alone'  BY <1>2, <1>4, <1>6 DEF PassInv, Alone
<1>8. Drains'
  <2> SUFFICES ASSUME canWait
               PROVE  Len(queue') <= insertionOffset /\ (Top'.it = EndIt => startOffset = Len(queue'))
    BY <1>0, <1>5 DEF Drains
  <2>1. Len(queue) <= insertionOffset /\ (Top.it = EndIt => startOffset = Len(queue))
    BY <1>0 DEF PassInv, Drains
  <2>2. startOffset <= Len(queue')
    <3>1. EQInv'  BY StepHandlerMoves
    <3> QED BY <1>0, <3>1 DEF EQInv, Placed, Places
  <2>3. Top'.it = EndIt => Top.it = EndIt
    <3>1. Top.it \in -1..Len(queue)  BY <1>0 DEF EQInv, Placed, Places, Top
    <3>2. Top.it > 0 /\ Top.it \notin gone => Rank(gone, Top.it) > 0
      <4> SUFFICES ASSUME Top.it > 0, Top.it \notin gone PROVE Rank(gone, Top.it) > 0  OBVIOUS
      <4> DEFINE S == Entry
      <4>1. queue \in Seq(S)  BY <1>0
      <4>2. Top.it \in DOMAIN queue \ gone  BY <1>0, <3>1, LenProperties
      <4> HIDE DEF S
      <4>3. LET kept == DOMAIN queue \ gone IN
            \A k \in kept : Rank(gone, k) \in 1..Cardinality(kept) /\ Rank(gone, k) <= k
        BY ONLY <1>1, <4>1, RankIs
      <4>4. Rank(gone, Top.it) \in 1..Cardinality(DOMAIN queue \ gone)  BY <4>2, <4>3
      <4> QED BY <4>4
    <3> QED BY <1>4, <3>1, <3>2 DEF DanglingIt, EndIt
  <2>4. /\ startOffset \in Nat /\ Len(queue') \in Nat /\ Len(queue) \in Nat
        /\ insertionOffset \in Nat /\ Len(queue') <= Len(queue)
    BY <1>0, <1>2, <1>6
  <2> QED BY ONLY <2>1, <2>2, <2>3, <2>4
<1>9. Heads' /\ Movers'  BY <1>0 DEF Heads, Unmoved, Movers, PassInv
<1>10. ~At("drained") /\ ~At("poll")'  BY <1>0, <1>4 DEF At
<1>11. WakeInv'  BY <1>0, <1>10, WakeStays
<1> QED BY <1>7, <1>8, <1>9, <1>11 DEF PassInv

(* What postEvent() leaves: nothing new, or one more entry behind those that a  *)
(* pass has to read.                                                           *)
Posted(level, wakes) ==
    \/ wakes = FALSE /\ UNCHANGED <<queue, canWait, stack>>
    \/ /\ wakes = (queue = <<>>) /\ canWait' = FALSE /\ Len(stack') = Len(stack)
       /\ \E pos, x : /\ Puts(queue', queue, pos, x) /\ x.level \in {0, level}
                      /\ pos > insertionOffset \/ pos = Len(queue) + 1
       /\ \A k \in 1..Len(stack) :
             stack'[k].pc = stack[k].pc /\ stack'[k].ready = stack[k].ready

LEMMA PostedIs ==
  ASSUME EQInv, NEW o \in Objects, NEW kind \in {"plain", "delete"}, NEW pr \in Priorities,
         NEW level \in Nat, NEW wakes, PostLocked(o, kind, pr, level, wakes)
  PROVE  Posted(level, wakes) /\ queue' \in Seq(Entry)
<1> DEFINE e == NextEvent
           x == [ev |-> e, obj |-> o, kind |-> kind, prio |-> pr,
                 level |-> IF kind = "delete" THEN level ELSE 0]
           again == kind = "delete" /\ posted[o] > 0 /\ doomed[o]
<1>0. e \in Events  BY DEF PostLocked
<1>1. queue' \in Seq(Entry)
  <2>1. EQInv'  BY StepPost
  <2> QED BY <2>1 DEF EQInv, Typed
<1>2. CASE again
  <2>1. wakes = FALSE /\ UNCHANGED <<queue, canWait, stack>>  BY <1>2 DEF PostLocked
  <2> QED BY <1>1, <2>1 DEF Posted
<1>3. CASE ~again
  <2>1. /\ queue' = InsertAt(queue, AddAt(queue, pr), x)
        /\ stack' = Inserted(stack, AddAt(queue, pr))
        /\ wakes = (queue = <<>>) /\ canWait' = FALSE
    BY <1>3 DEF PostLocked
  <2>2. x \in Entry /\ x.level \in {0, level}  BY <1>0 DEF Entry
  <2> HIDE DEF x
  <2>3. /\ queue \in Seq(Entry) /\ insertionOffset \in Nat /\ stack \in Seq(Frame)
        /\ TailSorted(queue, insertionOffset)
    BY DEF EQInv, Typed, Ordered
  <2> DEFINE pos == AddAt(queue, pr)
  <2>4. /\ pos \in 1..Len(queue)+1 /\ pos \in Int
        /\ pos > insertionOffset \/ pos = Len(queue) + 1
    BY <2>3, AddAtIs, LenProperties
  <2> HIDE DEF pos
  <2>5. Puts(queue', queue, pos, x)
    <3>1. Puts(InsertAt(queue, pos, x), queue, pos, x)
      BY ONLY <2>2, <2>3, <2>4, InsertAtIs
    <3> QED BY <2>1, <3>1 DEF pos
  <2>6. /\ Len(stack') = Len(stack)
        /\ \A k \in 1..Len(stack) :
              stack'[k].pc = stack[k].pc /\ stack'[k].ready = stack[k].ready
    <3>1. stack' = Inserted(stack, pos)  BY <2>1 DEF pos
    <3>2. /\ stack' \in Seq(Frame) /\ Len(stack') = Len(stack)
          /\ \A k \in 1..Len(stack) :
                /\ stack'[k].pc = stack[k].pc /\ stack'[k].obj = stack[k].obj
                /\ stack'[k].ready = stack[k].ready
                /\ stack'[k].it = IF stack[k].it >= pos THEN stack[k].it + 1 ELSE stack[k].it
      BY ONLY <2>3, <2>4, <3>1, InsertedIs
    <3> QED BY ONLY <3>2
  <2> QED BY <1>1, <2>1, <2>2, <2>4, <2>5, <2>6 DEF Posted
<1> QED BY <1>2, <1>3

LEMMA PostedTop ==
  ASSUME Typed, NEW level, NEW wakes, Posted(level, wakes)
  PROVE  /\ Depth' = Depth
         /\ Depth > 0 => Top'.pc = Top.pc /\ Top'.ready = Top.ready
<1>1. Depth \in Nat /\ Depth = Len(stack)  BY LenProperties DEF Typed, Depth
<1>2. Depth > 0 => Depth \in 1..Len(stack)  BY <1>1
<1> QED BY <1>1, <1>2 DEF Posted, Depth, Top

LEMMA PostedStays ==
  ASSUME EQInv, PassInv, NEW level \in {0, 2}, NEW wakes, Posted(level, wakes),
         queue' \in Seq(Entry), UNCHANGED <<startOffset, insertionOffset, home>>
  PROVE  PassInv'
<1>0. /\ Len(queue) \in Nat /\ insertionOffset \in Nat /\ Depth = Len(stack) /\ Depth \in Nat
      /\ DOMAIN queue = 1..Len(queue) /\ DOMAIN queue' = 1..Len(queue') /\ Len(queue') \in Nat
  BY LenProperties DEF EQInv, Typed, Depth
<1>1. Depth' = Depth /\ (Depth > 0 => Top'.pc = Top.pc)  BY PostedTop DEF EQInv
<1>2. Movers'  BY DEF PassInv, Movers
<1>3. CASE UNCHANGED <<queue, canWait, stack>>
  BY <1>2, <1>3 DEF PassInv, Alone, Drains, Heads, Busy, Unmoved, Depth, Top
<1>4. CASE canWait' = FALSE /\ \E pos, x : /\ Puts(queue', queue, pos, x) /\ x.level \in {0, level}
                                           /\ pos > insertionOffset \/ pos = Len(queue) + 1
  <2>1. PICK pos, x : /\ Puts(queue', queue, pos, x) /\ x.level \in {0, level}
                      /\ pos > insertionOffset \/ pos = Len(queue) + 1
    BY <1>4
  <2>2. /\ pos \in 1..Len(queue)+1 /\ Len(queue') = Len(queue) + 1
        /\ \A i \in 1..Len(queue)+1 :
              queue'[i] = IF i < pos THEN queue[i] ELSE IF i = pos THEN x ELSE queue[i-1]
    BY <2>1 DEF Puts
  <2>3. Alone'
    <3>1. ASSUME NEW i \in DOMAIN queue' PROVE queue'[i].level \in {0, 2}
      <4>1. i \in 1..Len(queue)+1 /\ i \in Nat /\ pos \in Nat  BY <1>0, <2>2
      <4>2. CASE i < pos
        <5>1. i \in DOMAIN queue  BY <1>0, <2>2, <4>1, <4>2
        <5> QED BY <2>2, <4>1, <4>2, <5>1 DEF PassInv, Alone
      <4>3. CASE i = pos  BY <2>1, <2>2, <4>1, <4>3
      <4>4. CASE i > pos
        <5>1. i-1 \in DOMAIN queue /\ ~(i < pos) /\ i # pos  BY <1>0, <2>2, <4>1, <4>4
        <5> QED BY <2>2, <4>1, <5>1 DEF PassInv, Alone
      <4> QED BY <4>1, <4>2, <4>3, <4>4
    <3> QED BY <1>1, <3>1 DEF PassInv, Alone
  <2>4. Drains'  BY <1>4 DEF Drains
  <2>5. Busy' <=> Busy  BY <1>1 DEF Busy, InPass
  <2>6. Heads'
    <3> SUFFICES ASSUME Unmoved PROVE
          /\ Busy \/ insertionOffset = 0
          /\ \A i, j \in DOMAIN queue' :
                i < j /\ j <= insertionOffset => queue'[i].prio >= queue'[j].prio
      BY <2>5 DEF Heads, Unmoved
    <3>1. /\ Busy \/ insertionOffset = 0
          /\ \A i, j \in DOMAIN queue :
                i < j /\ j <= insertionOffset => queue[i].prio >= queue[j].prio
      BY DEF PassInv, Heads
    <3>2. insertionOffset <= Len(queue)
      <4>1. CASE insertionOffset = 0  BY <1>0, <4>1
      <4>2. CASE Busy
        <5>1. Len(stack) > 0 /\ InPass(stack[Len(stack)])  BY <1>0, <4>2 DEF Busy, Top
        <5>2. Innermost(stack) = Len(stack)  BY <5>1, Zenon DEF Innermost
        <5> QED BY <1>0, <5>1, <5>2 DEF EQInv, Placed, Stays
      <4> QED BY <3>1, <4>1, <4>2
    <3>3. pos > insertionOffset  BY <1>0, <2>1, <2>2, <3>2
    <3>4. ASSUME NEW i \in DOMAIN queue', i <= insertionOffset
          PROVE  i \in DOMAIN queue /\ queue'[i] = queue[i]
      BY <1>0, <2>2, <3>2, <3>3, <3>4
    <3>5. ASSUME NEW i \in DOMAIN queue', NEW j \in DOMAIN queue', i < j, j <= insertionOffset
          PROVE  queue'[i].prio >= queue'[j].prio
      <4>1. i <= insertionOffset  BY <1>0, <3>5
      <4>2. i \in DOMAIN queue /\ queue'[i] = queue[i]  BY <3>4, <4>1
      <4>3. j \in DOMAIN queue /\ queue'[j] = queue[j]  BY <3>4, <3>5
      <4> QED BY <3>1, <3>5, <4>2, <4>3
    <3> QED BY <3>1, <3>5
  <2> QED BY <1>2, <2>3, <2>4, <2>6 DEF PassInv
<1> QED BY <1>3, <1>4 DEF Posted

LEMMA OneHandlerPosts ==
  ASSUME EQInv, PassInv, WakeInv, NEW o \in Objects, NEW kind \in {"plain", "delete"},
         NEW pr \in Priorities, HandlerPosts(o, kind, pr)
  PROVE  PassInv' /\ WakeInv'
<1>1. PICK wakes \in BOOLEAN :
        /\ At("handler") /\ PostLocked(o, kind, pr, Level, wakes) /\ UNCHANGED ppc
        /\ OwnWake \/ UNCHANGED <<signaled, fd>>
  BY DEF HandlerPosts, wake
<1>2. Depth = 1 /\ Top.pc = "handler"
  <2>1. Depth \in Nat  BY LenProperties DEF EQInv, Typed, Depth
  <2> QED BY <1>1, <2>1 DEF At, PassInv, Alone
<1>3. Level = 2  BY <1>2, LevelAlone DEF EQInv
<1>4. Posted(2, wakes) /\ queue' \in Seq(Entry)  BY <1>1, <1>3, PostedIs
<1>5. UNCHANGED <<startOffset, insertionOffset, home>>  BY <1>1 DEF PostLocked
<1>6. PassInv'  BY <1>4, <1>5, PostedStays
<1>7. Depth' = Depth /\ Top'.pc = "handler"  BY <1>2, <1>4, PostedTop DEF EQInv
<1>8. ~At("drained") /\ ~At("poll")'  BY <1>2, <1>7 DEF At
<1>9. WakeInv'  BY <1>1, <1>8, WakeStays
<1> QED BY <1>6, <1>9

(* The first event of an empty list makes its poster wake the owner up; the    *)
(* poster of a later one relies on an earlier wake-up that is still under way. *)
LEMMA OnePosterPosts ==
  ASSUME EQInv, PassInv, WakeInv, NEW p \in Posters, NEW o \in Objects,
         NEW kind \in {"plain", "delete"}, NEW pr \in Priorities, PosterPosts(p, o, kind, pr)
  PROVE  PassInv' /\ WakeInv'
<1>1. PICK wakes \in BOOLEAN :
        /\ ppc[p] = "idle" /\ PostLocked(o, kind, pr, 0, wakes) /\ UNCHANGED <<signaled, fd>>
        /\ ppc' = [ppc EXCEPT ![p] = IF wakes THEN "serial" ELSE "idle"]
  BY DEF PosterPosts, wake
<1>2. Posted(0, wakes) /\ queue' \in Seq(Entry)  BY <1>1, PostedIs
<1>3. UNCHANGED <<startOffset, insertionOffset, home>>  BY <1>1 DEF PostLocked
<1>4. PassInv'  BY <1>2, <1>3, PostedStays
<1>5. Depth' = Depth /\ (Depth > 0 => Top'.pc = Top.pc /\ Top'.ready = Top.ready)
  BY <1>2, PostedTop DEF EQInv
<1>6. /\ ppc' \in [Posters -> {"idle", "serial", "signal", "write"}]
      /\ \A q \in Posters : q # p => ppc'[q] = ppc[q]
      /\ wakes => ppc'[p] = "serial"
  BY <1>1 DEF WakeInv
<1>7. Signals'
  <2>1. Writing => Writing'  BY <1>1, <1>6 DEF Writing
  <2> QED BY <1>1, <1>5, <2>1 DEF WakeInv, Signals, At
<1>8. Wakes'
  <2> SUFFICES ASSUME At("poll"), ~Top.ready, Len(queue') > 0
               PROVE  fd \/ \E q \in Posters : ppc'[q] # "idle"
    BY <1>1, <1>5 DEF Wakes, At
  <2>1. CASE wakes  BY <1>6, <2>1
  <2>2. CASE ~wakes
    <3>1. Len(queue) > 0
      <4>1. CASE UNCHANGED queue  BY <4>1
      <4>2. CASE wakes = (queue = <<>>)
        <5>1. queue # <<>>  BY <2>2, <4>2
        <5> QED BY <5>1, LenProperties, EmptySeq DEF EQInv, Typed
      <4> QED BY <1>2, <4>1, <4>2 DEF Posted
    <3>2. fd \/ \E q \in Posters : ppc[q] # "idle"  BY <3>1 DEF WakeInv, Wakes
    <3> QED BY <1>1, <1>6, <3>2
  <2> QED BY <2>1, <2>2
<1> QED BY <1>4, <1>6, <1>7, <1>8 DEF WakeInv

LEMMA OneWaking ==
  ASSUME PassInv, WakeInv, NEW p \in Posters, Waking(p)
  PROVE  PassInv' /\ WakeInv'
<1>0. UNCHANGED <<queue, startOffset, insertionOffset, canWait, stack, home>>
  BY DEF Waking, Serial, Signal, Write, list, objs
<1>1. PassInv'
  BY <1>0 DEF PassInv, Alone, Drains, Heads, Movers, Busy, Unmoved, Depth, Top
<1>2. Depth' = Depth /\ Top' = Top  BY <1>0 DEF Depth, Top
<1>3. CASE Serial(p)
  <2>1. /\ ppc' = [ppc EXCEPT ![p] = "signal"] /\ ppc[p] = "serial"
        /\ UNCHANGED <<signaled, fd>>
    BY <1>3 DEF Serial
  <2>2. ppc' \in [Posters -> {"idle", "serial", "signal", "write"}] /\ ppc'[p] = "signal"
    BY <2>1 DEF WakeInv
  <2>3. Writing => Writing'  BY <2>1 DEF WakeInv, Writing
  <2>4. Signals'  BY <1>2, <2>1, <2>3 DEF WakeInv, Signals, At
  <2>5. Wakes'  BY <2>2 DEF Wakes
  <2> QED BY <1>1, <2>2, <2>4, <2>5 DEF WakeInv
<1>4. CASE Signal(p)
  <2>1. /\ ppc' = [ppc EXCEPT ![p] = IF signaled THEN "idle" ELSE "write"]
        /\ ppc[p] = "signal" /\ signaled' = TRUE /\ UNCHANGED fd
    BY <1>4 DEF Signal
  <2>2. /\ ppc' \in [Posters -> {"idle", "serial", "signal", "write"}]
        /\ ~signaled => ppc'[p] = "write"
        /\ \A q \in Posters : ppc[q] = "write" => ppc'[q] = "write"
    BY <2>1 DEF WakeInv
  <2>3. ~At("drained") => fd' \/ Writing'
    BY <2>1, <2>2 DEF WakeInv, Signals, Writing
  <2>4. Signals'  BY <1>2, <2>3 DEF Signals, At
  <2>5. Wakes'
    <3>1. At("poll")' => ~At("drained")  BY <1>2 DEF At
    <3> QED BY <2>3, <3>1 DEF Wakes, Writing
  <2> QED BY <1>1, <2>2, <2>4, <2>5 DEF WakeInv
<1>5. CASE Write(p)
  <2>1. ppc' = [ppc EXCEPT ![p] = "idle"] /\ fd' = TRUE  BY <1>5 DEF Write
  <2> QED BY <1>1, <2>1 DEF WakeInv, Signals, Wakes
<1> QED BY <1>3, <1>4, <1>5 DEF Waking

LEMMA InitOne == Init => PassInv /\ WakeInv
<1> SUFFICES ASSUME Init PROVE PassInv /\ WakeInv  OBVIOUS
<1>1. queue = <<>> /\ insertionOffset = 0 /\ signaled = FALSE /\ stack = <<Loop("test")>>
  BY DEF Init
<1>2. Len(queue) = 0 /\ DOMAIN queue = {} /\ Depth = 1 /\ Top.pc = "test"
  BY <1>1 DEF Depth, Top, Loop
<1>3. Alone /\ Drains  BY <1>2 DEF Alone, Drains, Busy, InPass
<1>4. Heads /\ Movers  BY <1>1, <1>2 DEF Heads, Movers, Init
<1>5. WakeInv  BY <1>1, <1>2 DEF WakeInv, Signals, Wakes, Init
<1> QED BY <1>3, <1>4, <1>5 DEF PassInv

LEMMA StepOne ==
  ASSUME nests \in Nat, nests' = 0, EQInv, PassInv, WakeInv, [Next]_vars
  PROVE  PassInv' /\ WakeInv'
<1>1. CASE Dispatcher
  BY <1>1, OneTestExit, OnePrepare, OnePoll, OneAcknowledged, OneCheck, OneDispatch
     DEF Dispatcher
<1>2. CASE Pass
  BY <1>2, OneSkip, NoDefer, OneDeliver, OneReadFreed, OneCleanUp DEF Pass
<1>3. CASE Handler
  <2>1. CASE HandlerNests
    <3>1. nests' = nests + 1  BY <2>1 DEF HandlerNests
    <3> QED BY <3>1
  <2>2. CASE HandlerExits  BY <2>2, OneHandlerExits
  <2>3. CASE HandlerReturns  BY <2>3, OneHandlerReturns
  <2>4. CASE DeleteReceiver  BY <2>4, OneDeleteReceiver
  <2>5. CASE \E o \in Objects : HandlerDeletes(o) \/ HandlerMoves(o)
    BY <2>5, OneHandlerDeletes, OneHandlerMoves
  <2>6. CASE \E o \in Objects, kind \in {"plain", "delete"}, pr \in Priorities :
                HandlerPosts(o, kind, pr)
    BY <2>6, OneHandlerPosts
  <2> QED BY <1>3, <2>1, <2>2, <2>3, <2>4, <2>5, <2>6 DEF Handler
<1>4. CASE \E p \in Posters : Poster(p)
  BY <1>4, OneWaking, OnePosterPosts, OnePosterExits DEF Poster
<1>5. CASE UNCHANGED vars
  <2>1. UNCHANGED <<queue, startOffset, insertionOffset, canWait, stack, home, signaled, fd, ppc>>
    BY <1>5 DEF vars, list, wake, objs
  <2> QED BY <2>1 DEF PassInv, Alone, Drains, Heads, Movers, Busy, Unmoved, WakeInv, Signals,
                      Wakes, Writing, At, Depth, Top
<1> QED BY <1>1, <1>2, <1>3, <1>4, <1>5 DEF Next

(* Loops are nested, and never taken back. *)
LEMMA NestsGrow ==
  ASSUME nests \in Nat, [Next]_vars
  PROVE  nests' \in Nat /\ (nests' = 0 => nests = 0)
<1>1. CASE Dispatcher
  BY <1>1 DEF Dispatcher, TestExit, Prepare, Poll, Acknowledged, Check, Dispatch
<1>2. CASE Pass
  <2>1. CASE Skip     BY <2>1 DEF Skip
  <2>2. CASE Defer    BY <2>2 DEF Defer
  <2>3. CASE Deliver  BY <2>3 DEF Deliver
  <2>4. CASE ReadFreed  BY <2>4 DEF ReadFreed
  <2>5. CASE CleanUp  BY <2>5 DEF CleanUp
  <2> QED BY <1>2, <2>1, <2>2, <2>3, <2>4, <2>5 DEF Pass
<1>3. CASE Handler
  <2>1. CASE HandlerNests    BY <2>1 DEF HandlerNests
  <2>2. CASE HandlerExits    BY <2>2 DEF HandlerExits
  <2>3. CASE HandlerReturns  BY <2>3 DEF HandlerReturns
  <2>4. CASE DeleteReceiver  BY <2>4 DEF DeleteReceiver, Destroy
  <2> QED
    BY <1>3, <2>1, <2>2, <2>3, <2>4
    DEF Handler, HandlerDeletes, HandlerMoves, HandlerPosts, Destroy, PostLocked
<1>4. CASE \E p \in Posters : Poster(p)
  <2> SUFFICES ASSUME NEW p \in Posters, Poster(p) PROVE nests' = nests
    BY <1>4
  <2>1. CASE Waking(p)  BY <2>1 DEF Waking, Serial, Signal, Write
  <2>2. ASSUME NEW o \in Objects, NEW kind \in {"plain", "delete"}, NEW pr \in Priorities,
               PosterPosts(p, o, kind, pr)
        PROVE nests' = nests
    BY <2>2 DEF PosterPosts, PostLocked
  <2>3. ASSUME NEW k \in 1..MaxDepth, PosterExits(p, k) PROVE nests' = nests
    BY <2>3 DEF PosterExits
  <2> QED BY <2>1, <2>2, <2>3 DEF Poster
<1>5. CASE UNCHANGED vars  BY <1>5 DEF vars
<1> QED BY <1>1, <1>2, <1>3, <1>4, <1>5 DEF Next

OneInv == nests \in Nat /\ (nests = 0 => PassInv /\ WakeInv)

LEMMA OneInvariant == Spec => [](EQInv /\ OneInv)
<1>1. Init => EQInv /\ OneInv
  <2>1. Init => nests \in Nat  BY DEF Init
  <2> QED BY <2>1, InitEQ, InitOne DEF OneInv
<1>2. EQInv /\ OneInv /\ [Next]_vars => (EQInv /\ OneInv)'
  BY StepEQ, StepOne, NestsGrow DEF OneInv
<1> QED BY <1>1, <1>2, PTL DEF Spec

(* ithread_p.h: "The list has to be kept sorted by priority". Before a loop is *)
(* nested, and when no receiver is moved away, it is: addEvent() looks for the *)
(* place only behind the entries the running pass works on, and those were     *)
(* sorted when the pass began.                                                 *)
THEOREM EventQueueSorted == Spec => []Sorted
<1>1. EQInv /\ OneInv => Sorted
  <2> SUFFICES ASSUME EQInv, PassInv, Unmoved, NEW i \in Pending, NEW j \in Pending,
                      i < j, i > insertionOffset \/ j <= insertionOffset
               PROVE  queue[i].prio >= queue[j].prio
    BY DEF Sorted, OneInv, Unmoved
  <2>1. /\ i \in 1..Len(queue) /\ j \in 1..Len(queue) /\ DOMAIN queue = 1..Len(queue)
        /\ insertionOffset \in Nat /\ Len(queue) \in Nat
    BY LenProperties DEF EQInv, Typed, Pending
  <2>2. CASE i > insertionOffset
    <3>1. i \in insertionOffset+1 .. Len(queue) /\ j \in insertionOffset+1 .. Len(queue)
      BY <2>1, <2>2
    <3> QED BY <3>1 DEF EQInv, Ordered, TailSorted
  <2>3. CASE j <= insertionOffset  BY <2>1, <2>3 DEF PassInv, Heads
  <2> QED BY <2>2, <2>3
<1> QED BY <1>1, OneInvariant, PTL

(* Before a loop is nested, the owner never sleeps over an event it could       *)
(* deliver: the poster that found the list empty, or one that is still on its   *)
(* way through wakeUp(), ends the poll.  With nested loops it is not so.        *)
THEOREM EventQueueWakes == Spec => []WakesAlone
<1>1. EQInv /\ OneInv => WakesAlone
  <2> SUFFICES ASSUME EQInv, WakeInv, At("poll"), ~Top.ready, NEW i \in Pending
               PROVE  fd \/ \E p \in Posters : ppc[p] # "idle"
    BY DEF WakesAlone, NoLostWakeUp, OneInv
  <2>1. Len(queue) > 0  BY LenProperties DEF EQInv, Typed, Pending
  <2> QED BY <2>1 DEF WakeInv, Wakes
<1> QED BY <1>1, OneInvariant, PTL
===============================================================================
