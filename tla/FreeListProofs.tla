---------------------------- MODULE FreeListProofs ---------------------------
(* Proofs about iFreeList for any threads, blocks and serial numbers: it        *)
(* implements the pool of SlotPool, as long as values stay in the first block.  *)
EXTENDS FreeList, FiniteSetTheorems, WellFoundedInduction, TLAPS

(* push() and pop() come to no element past the first block. *)
FirstBlockOnly == Sizes # <<>> /\ \A m \in Limits["values"] : m <= Sizes[1]

------------------------------------------------------------------------------
(* The inductive invariant.                                                    *)

Elems(s) == {s[i] : i \in DOMAIN s}

(* s is the list that begins at h and goes on by n; no element comes twice.    *)
Goes(s, h, n, i) == IF i = 0 THEN h ELSE n[s[i]]
Chain(s, h, n) ==
    /\ s \in Seq(Slots)
    /\ \A i, j \in DOMAIN s : s[i] = s[j] => i = j
    /\ \A i \in 0..Len(s) : IF i < Len(s) THEN s[i+1] = Goes(s, h, n, i)
                                          ELSE Goes(s, h, n, i) \notin Slots

Words == [at : 0..MaxIndex, serial : 0..Serials-1]
Reading == {"grow", "next", "take"}
Holding == {"top", "hook", "give"}
CallRecords == [name : {"none", "next", "release", "push", "pop"},
                pc : {"idle", "load"} \cup Reading \cup Holding,
                at : 0..MaxIndex, word : Words, link : 0..MaxIndex, passed : Nat]

Typed ==
    /\ mode \in Modes /\ limit \in Limits[mode]
    /\ head \in [Lists -> Words] /\ next \in [Elements -> 0..MaxIndex]
    /\ out \in SUBSET Slots /\ \A x \in out : BlockFor[x] \in blocks
    /\ call \in [Threads -> CallRecords]

(* The two lists, in order. *)
Order == [l \in Lists |-> Walk(l)]
Chains == \A l \in Lists : Chain(Order[l], head[l].at, Links)

(* A slot is in one place. *)
Held == {t \in Threads : call[t].pc \in Holding}
Apart ==
    /\ \A l \in Lists : /\ Elems(Order[l]) \cap out = {}
                        /\ \A t \in Held : call[t].at \notin Elems(Order[l])
    /\ Elems(Order["empty"]) \cap Elems(Order["stored"]) = {}
    /\ \A t \in Held : call[t].at \notin out
    /\ \A t, u \in Held : call[t].at = call[u].at => t = u

(* What a thread has read of the list with word h and elements S, while the     *)
(* links are n: as long as no release has passed, its element is the first of   *)
(* the list or was taken, and in the first case what it read of _next stands.   *)
ReadGood(c, max, b, n, h, S) ==
    /\ c.name \in {"next", "push", "pop"}
    /\ c.at = c.word.at /\ c.at \in Slots /\ c.at < max
    /\ c.pc # "grow" => BlockFor[c.at] \in b
    /\ c.passed <= Serials - 1 /\ h.serial = (c.word.serial + c.passed) % Serials
    /\ c.passed = 0 /\ c.at \in S => h.at = c.at /\ (c.pc = "take" => c.link = n[c.at])
(* What it holds is in a block that is there, and leads to the top it has read. *)
HoldGood(c, b, v) ==
    /\ c.name \in {"release", "push", "pop"}
    /\ c.at \in Slots /\ BlockFor[c.at] \in b
    /\ c.pc = "give" => v[c.at] = c.word.at
CallGood(c, m, max, b, v, n, h, o) ==
    /\ c.pc = "idle" => c = Idle
    /\ c.name \in (IF m = "ids" THEN {"none", "next", "release"} ELSE {"none", "push", "pop"})
    /\ c.pc = "load" => c.name \in {"next", "push", "pop"} /\ c.passed = 0
    /\ c.pc \in Reading => ReadGood(c, max, b, n, h[From(c)], Elems(o[From(c)]))
    /\ c.pc \in Holding => HoldGood(c, b, v)
Calls == \A t \in Threads : CallGood(call[t], mode, limit, blocks, next, Links, head, Order)

(* What the pool sees of the calls. *)
Hands == [t \in Threads |-> Carried(t)]

FLInv == Typed /\ Chains /\ Apart /\ Calls

------------------------------------------------------------------------------
(* Lists as sequences, for any first element h and any links n.                *)

LEMMA Least ==
  ASSUME NEW T, T \subseteq Nat, T # {}
  PROVE  \E x \in T : \A y \in T : x <= y
<1>1. PICK x \in T : \A y \in T : ~(<<y, x>> \in OpToRel(<, Nat))
  BY NatLessThanWellFounded, WFMin
<1>2. ASSUME NEW y \in T PROVE x <= y
  <2>1. ~(y < x)  BY <1>1 DEF OpToRel
  <2> QED BY <2>1
<1> QED BY <1>2

(* A function is defined by its value at 0 and what each step makes of the     *)
(* value before.                                                               *)
Follows(f, a, m, G) == f[0] = a /\ \A i \in 1..m : f[i] = G[i][f[i-1]]

LEMMA Recursion ==
  ASSUME NEW D, NEW a \in D, NEW m \in Nat, NEW G \in [1..m -> [D -> D]]
  PROVE  \E f \in [0..m -> D] : Follows(f, a, m, G)
<1> DEFINE T == {k \in 0..m : ~\E f \in [0..k -> D] : Follows(f, a, k, G)}
<1> SUFFICES ASSUME T # {} PROVE FALSE  OBVIOUS
<1>1. PICK x \in T : \A y \in T : x <= y
  <2>1. T \subseteq Nat  OBVIOUS
  <2> HIDE DEF T
  <2> QED BY <2>1, Least
<1>2. CASE x = 0
  <2> DEFINE f == [i \in 0..0 |-> a]
  <2>1. f \in [0..0 -> D] /\ Follows(f, a, 0, G)  BY DEF Follows
  <2> QED BY <1>2, <2>1
<1>3. CASE x # 0
  <2>1. x \in Nat /\ x - 1 \in 0..m /\ x \in 1..m /\ ~(x <= x - 1)  BY <1>3
  <2>2. PICK f \in [0..x-1 -> D] : Follows(f, a, x-1, G)  BY <1>1, <2>1
  <2> DEFINE g == [i \in 0..x |-> IF i = x THEN G[x][f[x-1]] ELSE f[i]]
  <2>3. f[x-1] \in D /\ G[x] \in [D -> D]  BY <2>1, <2>2
  <2>4. G[x][f[x-1]] \in D  BY <2>3
  <2>5. g \in [0..x -> D]
    <3>1. ASSUME NEW i \in 0..x PROVE g[i] \in D
      <4>1. CASE i = x  BY <4>1, <2>4
      <4>2. CASE i # x
        <5>1. i \in 0..x-1  BY <4>2, <2>1
        <5> QED BY <4>2, <5>1, <2>2
      <4> QED BY <4>1, <4>2
    <3> QED BY <3>1
  <2>6. g[0] = a
    <3>1. 0 \in 0..x /\ 0 # x  BY <1>3, <2>1
    <3>2. g[0] = f[0]  BY <3>1
    <3> QED BY <3>2, <2>2 DEF Follows
  <2>7. ASSUME NEW i \in 1..x PROVE g[i] = G[i][g[i-1]]
    <3>1. i \in 0..x /\ i - 1 \in 0..x /\ i - 1 # x  BY <2>1
    <3>2. g[i-1] = f[i-1]  BY <3>1
    <3>3. CASE i = x  BY <3>1, <3>2, <3>3
    <3>4. CASE i # x
      <4>1. i \in 1..x-1  BY <3>4, <2>1
      <4>2. f[i] = G[i][f[i-1]]  BY <4>1, <2>2 DEF Follows
      <4> QED BY <3>1, <3>2, <3>4, <4>2
    <3> QED BY <3>3, <3>4
  <2> HIDE DEF g
  <2>8. Follows(g, a, x, G)  BY <2>6, <2>7 DEF Follows
  <2> QED BY <2>5, <2>8
<1> QED BY <1>2, <1>3

(* A list is not longer than there are elements. *)
LEMMA ChainShort ==
  ASSUME NEW s, NEW h, NEW n, Chain(s, h, n)
  PROVE  Len(s) <= MaxIndex
<1>1. s \in Seq(Slots) /\ Len(s) \in Nat /\ DOMAIN s = 1..Len(s)  BY DEF Chain
<1>2. s \in [1..Len(s) -> Slots]  BY <1>1
<1>3. Slots \subseteq Elements  BY DEF Slots, BlockFor
<1>4. MaxIndex \in Nat  BY SizesAssumption
<1>5. IsFiniteSet(Elements) /\ Cardinality(Elements) = MaxIndex
  <2>1. IsFiniteSet(0..MaxIndex-1)
        /\ Cardinality(0..MaxIndex-1) = IF 0 > MaxIndex - 1 THEN 0 ELSE MaxIndex - 1 - 0 + 1
    BY <1>4, FS_Interval
  <2> QED BY <1>4, <2>1 DEF Elements
<1>6. IsFiniteSet(Slots) /\ Cardinality(Slots) <= MaxIndex /\ Cardinality(Slots) \in Nat
  BY <1>3, <1>5, FS_Subset, FS_CardinalityType
<1>7. s \in Injection(1..Len(s), Slots)
  BY <1>1, <1>2 DEF Chain, Injection, IsInjective
<1>8. Cardinality(1..Len(s)) <= Cardinality(Slots)  BY <1>6, <1>7, FS_Injection
<1>9. Cardinality(1..Len(s)) = Len(s)
  <2>1. Cardinality(1..Len(s)) = IF 1 > Len(s) THEN 0 ELSE Len(s) - 1 + 1
    BY <1>1, FS_Interval
  <2> QED BY <1>1, <2>1
<1> QED BY <1>1, <1>4, <1>6, <1>8, <1>9

(* What Walk() collects from h on is the list that begins there. *)
Longer(p, h, n) ==
    LET x == IF p = <<>> THEN h ELSE n[p[Len(p)]] IN IF x \in Slots THEN Append(p, x) ELSE p

LEMMA LongerIs ==
  ASSUME NEW s, NEW h, NEW n, Chain(s, h, n), NEW i \in 0..Len(s)
  PROVE  Longer(SubSeq(s, 1, i), h, n) = IF i < Len(s) THEN SubSeq(s, 1, i+1) ELSE s
<1> DEFINE p == SubSeq(s, 1, i)
           x == IF p = <<>> THEN h ELSE n[p[Len(p)]]
<1>1. s \in Seq(Slots) /\ Len(s) \in Nat /\ DOMAIN s = 1..Len(s) /\ i \in Nat /\ i <= Len(s)
  BY DEF Chain
<1>2. p \in Seq(Slots) /\ Len(p) = i /\ \A j \in 1..i : p[j] = s[j]  BY <1>1
<1>3. p = <<>> <=> i = 0  BY <1>2
<1> HIDE DEF p
<1>4. x = Goes(s, h, n, i)
  <2>1. i # 0 => p[Len(p)] = s[i]  BY <1>1, <1>2
  <2> QED BY <1>3, <2>1 DEF Goes
<1> HIDE DEF x
<1>5. CASE i < Len(s)
  <2>1. x = s[i+1] /\ i + 1 \in DOMAIN s  BY <1>1, <1>4, <1>5 DEF Chain
  <2>2. x \in Slots  BY <1>1, <2>1
  <2>3. Append(p, x) = SubSeq(s, 1, i+1)
    <3>1. Append(p, x) \in Seq(Slots) /\ Len(Append(p, x)) = i + 1  BY <1>2, <2>2
    <3>2. SubSeq(s, 1, i+1) \in Seq(Slots) /\ Len(SubSeq(s, 1, i+1)) = i + 1
      BY <1>1, <1>5
    <3>3. ASSUME NEW j \in 1..i+1 PROVE Append(p, x)[j] = SubSeq(s, 1, i+1)[j]
      <4>1. SubSeq(s, 1, i+1)[j] = s[j]  BY <1>1, <1>5
      <4>2. Append(p, x)[j] = IF j <= i THEN p[j] ELSE x  BY <1>1, <1>2, <2>2
      <4>3. CASE j <= i  BY <1>1, <1>2, <4>1, <4>2, <4>3
      <4>4. CASE ~(j <= i)
        <5>1. j = i + 1  BY <1>1, <4>4
        <5> QED BY <2>1, <4>1, <4>2, <4>4, <5>1
      <4> QED BY <4>3, <4>4
    <3> QED BY <3>1, <3>2, <3>3
  <2> QED BY <1>5, <2>2, <2>3 DEF Longer, x, p
<1>6. CASE ~(i < Len(s))
  <2>1. i = Len(s)
    <3>1. i \in Int /\ Len(s) \in Int /\ i <= Len(s) /\ ~(i < Len(s))  BY <1>1, <1>6
    <3> QED BY ONLY <3>1
  <2>2. x \notin Slots  BY <1>4, <1>6 DEF Chain
  <2>3. p = s  BY <1>1, <2>1 DEF p
  <2> QED BY <1>6, <2>2, <2>3 DEF Longer, x, p
<1> QED BY <1>5, <1>6

LEMMA WalkIs ==
  ASSUME NEW s, NEW h, NEW n, Chain(s, h, n)
  PROVE  WalkFrom(h, n) = s
<1> DEFINE H(f) == [i \in 0..MaxIndex |-> IF i = 0 THEN <<>> ELSE Longer(f[i-1], h, n)]
           f == CHOOSE f : f = H(f)
           upto(i) == SubSeq(s, 1, IF i < Len(s) THEN i ELSE Len(s))
           g == [i \in 0..MaxIndex |-> upto(i)]
<1>1. /\ s \in Seq(Slots) /\ Len(s) \in Nat /\ MaxIndex \in Nat /\ Len(s) <= MaxIndex
  <2>1. s \in Seq(Slots)  BY DEF Chain
  <2>2. Len(s) \in Nat  BY <2>1
  <2>3. Len(s) <= MaxIndex  BY ChainShort
  <2> QED BY <2>1, <2>2, <2>3, SizesAssumption
<1>2. upto(0) = <<>>  BY <1>1
<1>0. \A i \in 0..Len(s) : Longer(SubSeq(s, 1, i), h, n)
                           = IF i < Len(s) THEN SubSeq(s, 1, i+1) ELSE s
  BY LongerIs
<1>3. ASSUME NEW i \in 1..MaxIndex PROVE upto(i) = Longer(upto(i-1), h, n)
  <2>1. CASE i <= Len(s)
    <3>1. i - 1 \in 0..Len(s) /\ i - 1 < Len(s) /\ i - 1 + 1 = i  BY <1>1, <2>1
    <3>2. Longer(SubSeq(s, 1, i-1), h, n)
          = IF i-1 < Len(s) THEN SubSeq(s, 1, i-1+1) ELSE s
      BY ONLY <3>1, <1>0
    <3>3. upto(i-1) = SubSeq(s, 1, i-1)  BY <3>1
    <3>4. upto(i) = SubSeq(s, 1, i)
      <4>1. CASE i < Len(s)  BY <4>1
      <4>2. CASE ~(i < Len(s))
        <5>1. i = Len(s)  BY <1>1, <2>1, <4>2
        <5> QED BY <5>1
      <4> QED BY <4>1, <4>2
    <3> QED BY <3>1, <3>2, <3>3, <3>4
  <2>2. CASE ~(i <= Len(s))
    <3>1. ~(i < Len(s)) /\ ~(i - 1 < Len(s))  BY <1>1, <2>2
    <3>2. upto(i) = SubSeq(s, 1, Len(s)) /\ upto(i-1) = SubSeq(s, 1, Len(s))  BY <3>1
    <3>3. SubSeq(s, 1, Len(s)) = s  BY <1>1
    <3>4. Longer(SubSeq(s, 1, Len(s)), h, n) = s
      <4>1. Len(s) \in 0..Len(s) /\ ~(Len(s) < Len(s))  BY <1>1
      <4> QED BY <4>1, <1>0
    <3> QED BY <3>2, <3>3, <3>4
  <2> QED BY <2>1, <2>2
<1> HIDE DEF upto
<1>4. g = H(g)
  <2>1. ASSUME NEW i \in 0..MaxIndex
        PROVE  g[i] = IF i = 0 THEN <<>> ELSE Longer(g[i-1], h, n)
    <3>1. CASE i = 0  BY <1>2, <3>1
    <3>2. CASE i # 0
      <4>1. i \in 1..MaxIndex /\ i - 1 \in 0..MaxIndex  BY <1>1, <3>2
      <4> QED BY <1>3, <3>2, <4>1
    <3> QED BY <3>1, <3>2
  <2> QED BY <2>1
<1>5. f = H(f)  BY <1>4, Zenon
<1>6. WalkFrom(h, n) = f[MaxIndex]  BY Zenon DEF WalkFrom, Longer
<1>7. /\ f[0] = <<>>
      /\ \A i \in 1..MaxIndex : f[i] = Longer(f[i-1], h, n)
  <2> HIDE DEF f
  <2>1. 0 \in 0..MaxIndex  BY <1>1
  <2>2. ASSUME NEW i \in 1..MaxIndex PROVE f[i] = Longer(f[i-1], h, n)
    <3>1. i \in 0..MaxIndex /\ i # 0  BY <1>1
    <3> QED BY <1>5, <3>1
  <2> QED BY <1>5, <2>1, <2>2
<1> HIDE DEF f
<1> DEFINE T == {i \in 0..MaxIndex : f[i] # upto(i)}
<1>8. T = {}
  <2> SUFFICES ASSUME T # {} PROVE FALSE  OBVIOUS
  <2>1. PICK i \in T : \A j \in T : i <= j
    <3>1. T \subseteq Nat  OBVIOUS
    <3> HIDE DEF T
    <3> QED BY <3>1, Least
  <2>2. i # 0  BY <1>2, <1>7
  <2>3. i \in 1..MaxIndex /\ i - 1 \in 0..MaxIndex /\ ~(i <= i - 1)  BY <1>1, <2>2
  <2>4. f[i-1] = upto(i-1)  BY <2>1, <2>3
  <2> QED BY <1>3, <1>7, <2>1, <2>3, <2>4
<1>9. f[MaxIndex] = upto(MaxIndex)  BY <1>1, <1>8
<1>10. upto(MaxIndex) = s
  <2>1. CASE MaxIndex < Len(s)  BY <1>1, <2>1
  <2>2. CASE ~(MaxIndex < Len(s))  BY <1>1, <2>2 DEF upto
  <2> QED BY <2>1, <2>2
<1> QED BY <1>6, <1>9, <1>10

(* A list that goes on elsewhere only where none of its elements is the same.  *)
LEMMA ChainSame ==
  ASSUME NEW s, NEW h, NEW n, NEW m, Chain(s, h, n), \A x \in Elems(s) : m[x] = n[x]
  PROVE  Chain(s, h, m)
<1>1. s \in Seq(Slots) /\ Len(s) \in Nat /\ DOMAIN s = 1..Len(s)  BY DEF Chain
<1>2. ASSUME NEW i \in 0..Len(s) PROVE Goes(s, h, m, i) = Goes(s, h, n, i)
  <2>1. CASE i = 0  BY <2>1 DEF Goes
  <2>2. CASE i # 0
    <3>1. i \in DOMAIN s  BY <1>1, <2>2
    <3>2. s[i] \in Elems(s)  BY <3>1 DEF Elems
    <3> QED BY <2>2, <3>2 DEF Goes
  <2> QED BY <2>1, <2>2
<1> QED BY <1>2 DEF Chain

(* A list with an element is not empty, and begins with it; the rest is a list. *)
LEMMA ChainTail ==
  ASSUME NEW s, NEW h, NEW n, Chain(s, h, n), h \in Slots
  PROVE  /\ s # <<>> /\ s \in Seq(Slots) /\ Head(s) = h
         /\ Chain(Tail(s), n[h], n)
         /\ Elems(Tail(s)) = Elems(s) \ {h} /\ h \in Elems(s)
<1>1. s \in Seq(Slots) /\ Len(s) \in Nat /\ DOMAIN s = 1..Len(s)  BY DEF Chain
<1>2. Len(s) # 0
  <2> SUFFICES ASSUME Len(s) = 0 PROVE FALSE  OBVIOUS
  <2>1. 0 \in 0..Len(s) /\ ~(0 < Len(s))  BY <1>1
  <2>2. Goes(s, h, n, 0) \notin Slots  BY <2>1 DEF Chain
  <2> QED BY <2>2 DEF Goes
<1>3. s[1] = h /\ 1 \in DOMAIN s
  <2>1. 0 \in 0..Len(s) /\ 0 < Len(s)  BY <1>1, <1>2
  <2>2. s[0+1] = Goes(s, h, n, 0)  BY <2>1 DEF Chain
  <2> QED BY <1>1, <1>2, <2>2 DEF Goes
<1>4. s # <<>> /\ Head(s) = h  BY <1>1, <1>2, <1>3
<1> DEFINE u == Tail(s)
<1>5. u \in Seq(Slots) /\ Len(u) = Len(s) - 1 /\ DOMAIN u = 1..Len(u) /\ Len(u) \in Nat
  BY <1>1, <1>4
<1>6. \A i \in 1..Len(u) : u[i] = s[i+1]  BY <1>1, <1>4
<1> HIDE DEF u
<1>7. \A i \in DOMAIN u : i + 1 \in DOMAIN s /\ i \in Nat  BY <1>1, <1>5
<1>8. ASSUME NEW i \in DOMAIN u, NEW j \in DOMAIN u, u[i] = u[j] PROVE i = j
  <2>1. s[i+1] = s[j+1]  BY <1>5, <1>6, <1>8
  <2>2. i + 1 = j + 1  BY <1>7, <2>1 DEF Chain
  <2> QED BY <1>7, <2>2
<1>9. ASSUME NEW i \in 0..Len(u)
      PROVE  IF i < Len(u) THEN u[i+1] = Goes(u, n[h], n, i) ELSE Goes(u, n[h], n, i) \notin Slots
  <2>1. i \in Nat /\ i + 1 \in 0..Len(s) /\ (i + 1 < Len(s) <=> i < Len(u))  BY <1>1, <1>5
  <2>2. Goes(u, n[h], n, i) = Goes(s, h, n, i+1)
    <3>1. i + 1 # 0  BY <2>1
    <3>2. CASE i = 0  BY <1>3, <3>1, <3>2 DEF Goes
    <3>3. CASE i # 0
      <4>1. i \in 1..Len(u)  BY <2>1, <3>3
      <4>2. u[i] = s[i+1]  BY <4>1, <1>6
      <4> QED BY <3>1, <3>3, <4>2 DEF Goes
    <3> QED BY <3>2, <3>3
  <2>3. IF i + 1 < Len(s) THEN s[i+1+1] = Goes(s, h, n, i+1) ELSE Goes(s, h, n, i+1) \notin Slots
    BY <2>1 DEF Chain
  <2>4. i < Len(u) => i + 1 \in 1..Len(u)  BY <1>5, <2>1
  <2>5. i < Len(u) => u[i+1] = s[i+1+1]  BY <2>4, <1>6
  <2> QED BY <2>1, <2>2, <2>3, <2>5
<1>10. Chain(u, n[h], n)  BY <1>5, <1>8, <1>9 DEF Chain
<1>11. ASSUME NEW x PROVE x \in Elems(u) <=> x \in Elems(s) /\ x # h
  <2>1. ASSUME x \in Elems(u) PROVE x \in Elems(s) /\ x # h
    <3>1. PICK i \in DOMAIN u : x = u[i]  BY <2>1 DEF Elems
    <3>2. x = s[i+1] /\ i + 1 \in DOMAIN s /\ i + 1 # 1  BY <1>5, <1>6, <1>7, <3>1
    <3> QED BY <3>2, <1>3 DEF Elems, Chain
  <2>2. ASSUME x \in Elems(s), x # h PROVE x \in Elems(u)
    <3>1. PICK i \in DOMAIN s : x = s[i]  BY <2>2 DEF Elems
    <3>2. i # 1  BY <1>3, <2>2, <3>1
    <3>3. i - 1 \in DOMAIN u /\ i - 1 + 1 = i  BY <1>1, <1>5, <3>2
    <3>4. u[i-1] = s[i-1+1]  BY <1>5, <1>6, <3>3
    <3> QED BY <3>1, <3>3, <3>4 DEF Elems
  <2> QED BY <2>1, <2>2
<1>12. h \in Elems(s)  BY <1>3 DEF Elems
<1>13. Elems(u) = Elems(s) \ {h}  BY <1>11
<1> QED BY <1>1, <1>4, <1>10, <1>12, <1>13 DEF u

(* An element that leads on to the first one makes a longer list. *)
LEMMA ChainPush ==
  ASSUME NEW s, NEW h, NEW n, Chain(s, h, n), NEW x \in Slots, x \notin Elems(s), n[x] = h
  PROVE  Chain(<<x>> \o s, x, n) /\ Elems(<<x>> \o s) = Elems(s) \cup {x}
<1> DEFINE u == <<x>> \o s
<1>1. s \in Seq(Slots) /\ Len(s) \in Nat /\ DOMAIN s = 1..Len(s)  BY DEF Chain
<1>2. u \in Seq(Slots) /\ Len(u) = Len(s) + 1 /\ DOMAIN u = 1..Len(u) /\ u[1] = x
  BY <1>1
<1>3. \A i \in 1..Len(s) : u[i+1] = s[i]  BY <1>1
<1> HIDE DEF u
<1>4. 1 \in DOMAIN u /\ \A i \in DOMAIN s : i + 1 \in DOMAIN u  BY <1>1, <1>2
<1>5. ASSUME NEW i \in DOMAIN u, i # 1
      PROVE  i - 1 \in DOMAIN s /\ i \in Nat /\ u[i] = s[i-1] /\ u[i] \in Elems(s)
  <2>1. i - 1 \in DOMAIN s /\ i - 1 \in 1..Len(s) /\ i - 1 + 1 = i /\ i \in Nat
    BY <1>1, <1>2, <1>5
  <2>2. u[i-1+1] = s[i-1]  BY <1>3, <2>1
  <2>3. s[i-1] \in Elems(s)  BY <2>1 DEF Elems
  <2> QED BY <2>1, <2>2, <2>3
<1>6. ASSUME NEW i \in DOMAIN u, NEW j \in DOMAIN u, u[i] = u[j] PROVE i = j
  <2>1. CASE i = 1 \/ j = 1  BY <1>2, <1>5, <1>6, <2>1
  <2>2. CASE i # 1 /\ j # 1
    <3>1. s[i-1] = s[j-1] /\ i - 1 \in DOMAIN s /\ j - 1 \in DOMAIN s /\ i \in Nat /\ j \in Nat
      BY <1>5, <1>6, <2>2
    <3>2. i - 1 = j - 1  BY <3>1 DEF Chain
    <3> QED BY <3>1, <3>2
  <2> QED BY <2>1, <2>2
<1>7. ASSUME NEW i \in 0..Len(u)
      PROVE  IF i < Len(u) THEN u[i+1] = Goes(u, x, n, i) ELSE Goes(u, x, n, i) \notin Slots
  <2>1. CASE i = 0  BY <1>1, <1>2, <2>1 DEF Goes
  <2>2. CASE i # 0
    <3>1. /\ i - 1 \in 0..Len(s) /\ (i - 1 < Len(s) <=> i < Len(u)) /\ i - 1 + 1 = i
          /\ i \in DOMAIN u /\ i \in Nat
      BY <1>1, <1>2, <2>2
    <3>2. Goes(u, x, n, i) = Goes(s, h, n, i-1)
      <4>1. CASE i = 1  BY <1>2, <2>2, <4>1 DEF Goes
      <4>2. CASE i # 1
        <5>1. i - 1 # 0  BY <3>1, <4>2
        <5>2. u[i] = s[i-1]  BY <1>5, <3>1, <4>2
        <5> QED BY <2>2, <5>1, <5>2 DEF Goes
      <4> QED BY <4>1, <4>2
    <3>3. IF i-1 < Len(s) THEN s[i-1+1] = Goes(s, h, n, i-1) ELSE Goes(s, h, n, i-1) \notin Slots
      BY <3>1 DEF Chain
    <3>4. i < Len(u) => i \in 1..Len(s)  BY <1>1, <1>2, <3>1, <2>2
    <3>5. i < Len(u) => u[i+1] = s[i]  BY <1>3, <3>4
    <3> QED BY <3>1, <3>2, <3>3, <3>5
  <2> QED BY <2>1, <2>2
<1>8. Chain(u, x, n)  BY <1>2, <1>6, <1>7 DEF Chain
<1>9. ASSUME NEW y PROVE y \in Elems(u) <=> y \in Elems(s) \/ y = x
  <2>1. ASSUME y \in Elems(u) PROVE y \in Elems(s) \/ y = x
    <3>1. PICK i \in DOMAIN u : y = u[i]  BY <2>1 DEF Elems
    <3> QED BY <1>2, <1>5, <3>1
  <2>2. ASSUME y \in Elems(s) PROVE y \in Elems(u)
    <3>1. PICK i \in DOMAIN s : y = s[i]  BY <2>2 DEF Elems
    <3>2. u[i+1] = s[i] /\ i + 1 \in DOMAIN u  BY <1>1, <1>3, <1>4, <3>1
    <3> QED BY <3>1, <3>2 DEF Elems
  <2>3. x \in Elems(u)  BY <1>2, <1>4 DEF Elems
  <2> QED BY <2>1, <2>2, <2>3
<1>10. Elems(u) = Elems(s) \cup {x}  BY <1>9
<1> QED BY <1>8, <1>10 DEF u

------------------------------------------------------------------------------
(* The blocks.                                                                 *)

LEMMA EndIs ==
  /\ End \in [0..Len(Sizes) -> Nat] /\ End[0] = 0
  /\ \A b \in 1..Len(Sizes) : End[b] = End[b-1] + Sizes[b]
<1> DEFINE N == Len(Sizes)
           H(f) == [b \in 0..N |-> IF b = 0 THEN 0 ELSE f[b-1] + Sizes[b]]
           G == [b \in 1..N |-> [x \in Nat |-> x + Sizes[b]]]
<1>1. N \in Nat /\ \A b \in 1..N : Sizes[b] \in Nat
  BY SizesAssumption
<1>2. G \in [1..N -> [Nat -> Nat]]
  <2>1. ASSUME NEW b \in 1..N, NEW x \in Nat PROVE x + Sizes[b] \in Nat  BY <1>1
  <2> QED BY <2>1
<1>3. \E g \in [0..N -> Nat] : g = H(g)
  <2>1. PICK g \in [0..N -> Nat] : Follows(g, 0, N, G)
    <3>1. 0 \in Nat  OBVIOUS
    <3> HIDE DEF G, N
    <3> QED BY <1>1, <1>2, <3>1, Recursion
  <2>2. ASSUME NEW b \in 0..N PROVE g[b] = IF b = 0 THEN 0 ELSE g[b-1] + Sizes[b]
    <3>1. CASE b = 0  BY <3>1, <2>1 DEF Follows
    <3>2. CASE b # 0
      <4>1. b \in 1..N /\ b - 1 \in 0..N  BY <3>2, <1>1
      <4>2. g[b] = G[b][g[b-1]] /\ g[b-1] \in Nat  BY <2>1, <4>1 DEF Follows
      <4>3. G[b] = [x \in Nat |-> x + Sizes[b]]  BY <4>1
      <4> QED BY <3>2, <4>2, <4>3
    <3> QED BY <3>1, <3>2
  <2> HIDE DEF G
  <2>3. g = H(g)  BY <2>1, <2>2
  <2> QED BY <2>3
<1>4. End = H(End)
  <2> DEFINE e == CHOOSE e : e = H(e)
  <2>1. e = H(e)  BY <1>3, Zenon
  <2>2. End = e  BY Zenon DEF End
  <2> QED BY <2>1, <2>2
<1>5. DOMAIN End = 0..N  BY <1>4
<1>6. End[0] = 0
  <2>1. 0 \in 0..N  BY <1>1
  <2> QED BY <1>4, <2>1
<1>7. ASSUME NEW b \in 1..N PROVE End[b] = End[b-1] + Sizes[b]
  <2>1. b \in 0..N /\ b # 0  BY <1>1
  <2> QED BY <1>4, <2>1
<1> DEFINE T == {b \in 0..N : End[b] \notin Nat}
<1>8. T = {}
  <2> SUFFICES ASSUME T # {} PROVE FALSE  OBVIOUS
  <2>1. PICK b \in T : \A y \in T : b <= y
    <3>1. T \subseteq Nat  BY <1>1
    <3> HIDE DEF T
    <3> QED BY <3>1, Least
  <2>2. b # 0  BY <1>6
  <2>3. b \in 1..N /\ b - 1 \in 0..N /\ ~(b <= b - 1)  BY <1>1, <2>2
  <2>4. End[b-1] \in Nat  BY <2>1, <2>3
  <2>5. End[b] \in Nat  BY <1>1, <1>7, <2>3, <2>4
  <2> QED BY <2>5
<1>9. End = [b \in 0..N |-> End[b]]  BY <1>4, <1>5
<1>10. End \in [0..N -> Nat]
  <2>1. \A b \in 0..N : End[b] \in Nat  BY <1>8
  <2> QED BY <1>9, <2>1
<1> QED BY <1>6, <1>7, <1>10

(* The elements below the end of the last block are the slots. *)
LEMMA SlotsAre ==
  \E k \in Nat : /\ k <= MaxIndex /\ Slots = 0..k-1
                 /\ \A x \in 0..MaxIndex : x \in Slots <=> x < k
<1>1. MaxIndex \in Nat /\ Len(Sizes) \in Nat  BY SizesAssumption
<1>2. End[Len(Sizes)] \in Nat
  <2>1. Len(Sizes) \in 0..Len(Sizes)  BY <1>1
  <2> QED BY <2>1, EndIs
<1>3. Slots = {y \in 0..MaxIndex-1 : y < End[Len(Sizes)]}  BY DEF Slots, BlockFor, Elements
<1>4. CASE End[Len(Sizes)] <= MaxIndex
  <2>1. Slots = 0..End[Len(Sizes)]-1  BY <1>1, <1>2, <1>3, <1>4
  <2>2. \A x \in 0..MaxIndex : x \in Slots <=> x < End[Len(Sizes)]  BY <1>1, <1>2, <2>1
  <2> QED BY <1>2, <1>4, <2>1, <2>2
<1>5. CASE ~(End[Len(Sizes)] <= MaxIndex)
  <2>1. Slots = 0..MaxIndex-1  BY <1>1, <1>2, <1>3, <1>5
  <2>2. \A x \in 0..MaxIndex : x \in Slots <=> x < MaxIndex  BY <1>1, <2>1
  <2>3. MaxIndex <= MaxIndex  BY <1>1
  <2> QED BY <1>1, <2>1, <2>2, <2>3
<1> QED BY <1>4, <1>5

LEMMA SlotsIn == Slots \subseteq Elements /\ Slots \subseteq 0..MaxIndex /\ Slots \subseteq Nat
                 /\ MaxIndex \notin Slots /\ None \notin Slots
<1>1. PICK k \in Nat : k <= MaxIndex /\ Slots = 0..k-1  BY SlotsAre
<1>2. MaxIndex \in Nat  BY SizesAssumption
<1>3. Slots \subseteq 0..MaxIndex-1 /\ Slots \subseteq 0..MaxIndex /\ Slots \subseteq Nat
  BY <1>1, <1>2
<1>4. MaxIndex \notin 0..MaxIndex-1  BY <1>2
<1> QED BY <1>3, <1>4, NoneAssumption DEF Elements

(* An element below the size of the first block is in that block. *)
LEMMA FirstBlock ==
  ASSUME Sizes # <<>>, NEW x \in Slots, x < Sizes[1]
  PROVE  BlockFor[x] = 1 /\ IndexInBlock(x) = x
<1> DEFINE N == Len(Sizes)
           P(b) == End[b-1] <= x /\ x < End[b]
<1>1. N \in Nat /\ N # 0 /\ 1 \in 1..N /\ 0 \in 0..N /\ x \in Nat /\ 1 - 1 = 0
      /\ \A b \in 1..N : Sizes[b] \in Nat
  <2>1. N \in Nat /\ N # 0 /\ \A b \in 1..N : Sizes[b] \in Nat  BY SizesAssumption
  <2>2. x \in Nat  BY SlotsIn
  <2> QED BY <2>1, <2>2
<1>2. End[0] = 0 /\ End[1] = Sizes[1]
  <2>1. End[1] = End[1-1] + Sizes[1]  BY <1>1, EndIs
  <2> QED BY <1>1, <2>1, EndIs
<1>3. P(1)  BY <1>1, <1>2
<1>4. ASSUME NEW b \in 1..N, b # 1 PROVE Sizes[1] <= End[b-1]
  <2> DEFINE T == {y \in 1..N : y < b /\ ~(Sizes[1] <= End[y])}
  <2> SUFFICES ASSUME T # {} PROVE FALSE
    <3>1. b - 1 \in 1..N /\ b - 1 < b  BY <1>1, <1>4
    <3> QED BY <3>1
  <2>1. PICK y \in T : \A z \in T : y <= z
    <3>1. T \subseteq Nat  BY <1>1
    <3> HIDE DEF T
    <3> QED BY <3>1, Least
  <2>2. y # 1  BY <1>1, <1>2
  <2>3. y \in 1..N /\ y - 1 \in 1..N /\ y - 1 \in 0..N /\ y - 1 < b /\ ~(y <= y - 1)
    BY <1>1, <1>4, <2>1, <2>2
  <2>4. Sizes[1] <= End[y-1]  BY <2>1, <2>3
  <2>5. End[y] = End[y-1] + Sizes[y] /\ End[y-1] \in Nat  BY <2>3, EndIs
  <2>6. Sizes[1] <= End[y]  BY <1>1, <2>3, <2>4, <2>5
  <2> QED BY <2>6
<1>5. ASSUME NEW b \in 1..N, P(b) PROVE b = 1
  <2> SUFFICES ASSUME b # 1 PROVE FALSE  OBVIOUS
  <2>1. Sizes[1] <= End[b-1]  BY <1>4
  <2>2. b - 1 \in 0..N  BY <1>1
  <2>3. End[b-1] \in Nat  BY <2>2, EndIs
  <2> QED BY <1>1, <1>5, <2>1, <2>3
<1>6. (CHOOSE b \in 1..N : P(b)) = 1
  <2> HIDE DEF P
  <2> QED BY <1>1, <1>3, <1>5
<1>7. x \in {y \in Elements : y < End[N]}  BY DEF Slots, BlockFor
<1>8. BlockFor[x] = CHOOSE b \in 1..N : P(b)  BY <1>7 DEF BlockFor
<1>9. BlockFor[x] = 1  BY <1>6, <1>8
<1>10. IndexInBlock(x) = x - End[1 - 1]  BY <1>9 DEF IndexInBlock
<1>11. x - 0 = x  BY <1>1
<1> QED BY <1>1, <1>2, <1>9, <1>10, <1>11

(* The list that is there at the start: every slot, in order. *)
LEMMA ChainAll ==
  ASSUME NEW n, \A x \in Slots : n[x] = x + 1
  PROVE  \E s : Chain(s, 0, n) /\ Elems(s) = Slots
<1>1. PICK k \in Nat : /\ k <= MaxIndex /\ Slots = 0..k-1
                       /\ \A x \in 0..MaxIndex : x \in Slots <=> x < k
  BY SlotsAre
<1> DEFINE s == [i \in 1..k |-> i - 1]
<1>2. s \in Seq(Slots) /\ Len(s) = k /\ DOMAIN s = 1..k
  <2>1. \A i \in 1..k : i - 1 \in Slots  BY <1>1
  <2> QED BY <2>1
<1>3. \A i \in 1..k : s[i] = i - 1 /\ i - 1 \in Slots /\ i \in Nat  BY <1>1
<1> HIDE DEF s
<1>4. ASSUME NEW i \in DOMAIN s, NEW j \in DOMAIN s, s[i] = s[j] PROVE i = j
  <2>1. i - 1 = j - 1 /\ i \in Nat /\ j \in Nat  BY <1>2, <1>3, <1>4
  <2> QED BY <2>1
<1>5. ASSUME NEW i \in 0..Len(s)
      PROVE  IF i < Len(s) THEN s[i+1] = Goes(s, 0, n, i) ELSE Goes(s, 0, n, i) \notin Slots
  <2>1. i \in Nat /\ i <= k  BY <1>1, <1>2
  <2>2. Goes(s, 0, n, i) = i
    <3>1. CASE i = 0  BY <3>1 DEF Goes
    <3>2. CASE i # 0
      <4>1. i \in 1..k /\ i - 1 + 1 = i  BY <2>1, <3>2
      <4>2. s[i] = i - 1 /\ n[i-1] = i - 1 + 1  BY <1>3, <4>1
      <4> QED BY <3>2, <4>1, <4>2 DEF Goes
    <3> QED BY <3>1, <3>2
  <2>3. CASE i < Len(s)
    <3>1. i + 1 \in 1..k /\ i + 1 - 1 = i  BY <1>2, <2>1, <2>3
    <3> QED BY <1>3, <2>2, <2>3, <3>1
  <2>4. CASE ~(i < Len(s))
    <3>1. ~(i < k)  BY <1>2, <2>4
    <3>2. i \notin 0..k-1  BY <2>1, <3>1
    <3> QED BY <1>1, <2>2, <2>4, <3>2
  <2> QED BY <2>3, <2>4
<1>6. Chain(s, 0, n)  BY <1>2, <1>4, <1>5 DEF Chain
<1>7. ASSUME NEW x PROVE x \in Elems(s) <=> x \in Slots
  <2>1. ASSUME x \in Slots PROVE x \in Elems(s)
    <3>1. x \in Nat /\ x + 1 \in 1..k /\ x + 1 - 1 = x  BY <1>1, <2>1
    <3>2. s[x+1] = x  BY <1>3, <3>1
    <3> QED BY <1>2, <3>1, <3>2 DEF Elems
  <2>2. ASSUME x \in Elems(s) PROVE x \in Slots
    <3>1. PICK i \in DOMAIN s : x = s[i]  BY <2>2 DEF Elems
    <3> QED BY <1>2, <1>3, <3>1
  <2> QED BY <2>1, <2>2
<1> QED BY <1>6, <1>7

------------------------------------------------------------------------------
(* What a step makes of the two lists ...                                      *)

LEMMA OrderBecomes ==
  ASSUME NEW l \in Lists, NEW s, Chain(s, head'[l].at, Links')
  PROVE  Order'[l] = s
<1>1. WalkFrom(head'[l].at, Links') = s  BY WalkIs
<1>2. Order'[l] = WalkFrom(head'[l].at, Links')  BY DEF Order, Walk
<1> QED BY <1>1, <1>2

LEMMA OrderStays ==
  ASSUME Chains, NEW l \in Lists, head'[l].at = head[l].at,
         \A x \in Elems(Order[l]) : Links'[x] = Links[x]
  PROVE  Order'[l] = Order[l] /\ Chain(Order'[l], head'[l].at, Links')
<1>1. Chain(Order[l], head[l].at, Links)  BY DEF Chains
<1>2. Chain(Order[l], head[l].at, Links')  BY ONLY <1>1, ChainSame, \A x \in Elems(Order[l]) : Links'[x] = Links[x]
<1>3. Chain(Order[l], head'[l].at, Links')  BY ONLY <1>2, head'[l].at = head[l].at
<1>4. Order'[l] = Order[l]  BY <1>3, OrderBecomes
<1> QED BY <1>3, <1>4

LEMMA LinksStay ==
  ASSUME UNCHANGED <<next, blocks>>
  PROVE  Links' = Links
BY DEF Links

(* ... and what the pool sees of it.                                           *)
LEMMA PoolIs ==
  /\ Pool!poolVars = <<Elems(Order["empty"]), Order["stored"], Hands, out>>
  /\ Order["empty"] = Walk("empty") /\ Order["stored"] = Walk("stored")
  /\ Elems(Order["empty"]) = {Walk("empty")[i] : i \in DOMAIN Walk("empty")}
<1>1. Order["empty"] = Walk("empty") /\ Order["stored"] = Walk("stored")  BY DEF Order, Lists
<1> QED BY <1>1 DEF Pool!poolVars, Elems, Hands

LEMMA PoolIsPrimed ==
  /\ Order'["empty"] = Walk("empty")' /\ Order'["stored"] = Walk("stored")'
  /\ Elems(Order'["empty"]) = {Walk("empty")[i] : i \in DOMAIN Walk("empty")}'
<1>1. Order'["empty"] = Walk("empty")' /\ Order'["stored"] = Walk("stored")'
  BY DEF Order, Lists
<1> QED BY <1>1 DEF Elems

LEMMA MapsStutter ==
  ASSUME Order' = Order, Hands' = Hands, out' = out
  PROVE  UNCHANGED Pool!poolVars
<1>1. Order["empty"] = Walk("empty") /\ Order["stored"] = Walk("stored")  BY DEF Order, Lists
<1>2. Order'["empty"] = Walk("empty")' /\ Order'["stored"] = Walk("stored")'
  BY DEF Order, Lists
<1> QED BY <1>1, <1>2 DEF Pool!poolVars, Hands

LEMMA MapsFill ==
  ASSUME NEW t \in Threads, NEW s \in Slots, s \in Elems(Order["empty"]), Hands[t] = None,
         Hands' = [Hands EXCEPT ![t] = s],
         Elems(Order'["empty"]) = Elems(Order["empty"]) \ {s},
         Order'["stored"] = Order["stored"], out' = out
  PROVE  Pool!PoolStep
<1>1. Pool!PoolFill(t, s)  BY PoolIs, PoolIsPrimed DEF Pool!PoolFill, Hands
<1> QED BY <1>1 DEF Pool!PoolStep

LEMMA MapsSave ==
  ASSUME NEW t \in Threads, Hands[t] # None, Hands' = [Hands EXCEPT ![t] = None],
         Order'["stored"] = <<Hands[t]>> \o Order["stored"],
         Order'["empty"] = Order["empty"], out' = out
  PROVE  Pool!PoolStep
<1>1. Pool!PoolSave(t)  BY PoolIs, PoolIsPrimed DEF Pool!PoolSave, Hands
<1> QED BY <1>1 DEF Pool!PoolStep

LEMMA MapsTop ==
  ASSUME NEW t \in Threads, Order["stored"] # <<>>, Hands[t] = None,
         Hands' = [Hands EXCEPT ![t] = Head(Order["stored"])],
         Order'["stored"] = Tail(Order["stored"]), Order'["empty"] = Order["empty"],
         out' = out
  PROVE  Pool!PoolStep
<1>1. Pool!PoolTop(t)  BY PoolIs, PoolIsPrimed DEF Pool!PoolTop, Hands
<1> QED BY <1>1 DEF Pool!PoolStep

LEMMA MapsSpare ==
  ASSUME NEW t \in Threads, Hands[t] # None, Hands' = [Hands EXCEPT ![t] = None],
         Elems(Order'["empty"]) = Elems(Order["empty"]) \cup {Hands[t]},
         Order'["stored"] = Order["stored"], out' = out
  PROVE  Pool!PoolStep
<1>1. Pool!PoolSpare(t)  BY PoolIs, PoolIsPrimed DEF Pool!PoolSpare, Hands
<1> QED BY <1>1 DEF Pool!PoolStep

LEMMA MapsNext ==
  ASSUME NEW s \in Slots, s \in Elems(Order["empty"]), Hands' = Hands,
         Elems(Order'["empty"]) = Elems(Order["empty"]) \ {s},
         Order'["stored"] = Order["stored"], out' = out \cup {s}
  PROVE  Pool!PoolStep
<1>1. Pool!PoolNext(s)  BY PoolIs, PoolIsPrimed DEF Pool!PoolNext, Hands
<1> QED BY <1>1 DEF Pool!PoolStep

LEMMA MapsClaim ==
  ASSUME NEW t \in Threads, NEW s \in Slots, s \in out, Hands[t] = None,
         Hands' = [Hands EXCEPT ![t] = s], Order' = Order, out' = out \ {s}
  PROVE  Pool!PoolStep
<1>1. Pool!PoolClaim(t, s)  BY PoolIs, PoolIsPrimed DEF Pool!PoolClaim, Hands
<1> QED BY <1>1 DEF Pool!PoolStep

------------------------------------------------------------------------------
(* Most steps leave the lists and what is held alone.                          *)

LEMMA Constant == Serials \in Nat /\ Serials # 0 /\ MaxIndex \in Nat
BY SizesAssumption, SerialsAssumption

LEMMA CallIs ==
  ASSUME Typed, NEW t \in Threads
  PROVE  call[t] \in CallRecords /\ From(call[t]) \in Lists /\ To(call[t]) \in Lists
BY DEF Typed, From, To, Lists

(* Of the element that a thread holds, nothing is on a list. *)
LEMMA HeldApart ==
  ASSUME Apart, NEW t \in Threads, call[t].pc \in Holding
  PROVE  /\ \A l \in Lists : call[t].at \notin Elems(Order[l])
         /\ call[t].at \notin out
         /\ \A u \in Threads : call[u].pc \in Holding /\ call[u].at = call[t].at => u = t
BY DEF Apart, Held

(* The call of a thread that does not move, while nothing that it has read of   *)
(* the lists changes.                                                           *)
LEMMA OtherStays ==
  ASSUME NEW c, NEW m, NEW max, NEW b, NEW v, NEW n, NEW h, NEW o,
         CallGood(c, m, max, b, v, n, h, o),
         NEW b2, NEW v2, NEW n2, NEW h2, NEW o2,
         b \subseteq b2, c.pc = "give" => v2[c.at] = v[c.at],
         c.pc \in Reading =>
            /\ h2[From(c)].serial = h[From(c)].serial
            /\ c.at \in Elems(o2[From(c)]) /\ c.passed = 0
               => /\ c.at \in Elems(o[From(c)]) /\ h2[From(c)].at = h[From(c)].at
                  /\ n2[c.at] = n[c.at]
  PROVE  CallGood(c, m, max, b2, v2, n2, h2, o2)
<1>1. c.pc \in Reading => ReadGood(c, max, b2, n2, h2[From(c)], Elems(o2[From(c)]))
  BY DEF CallGood, ReadGood
<1>2. c.pc \in Holding => HoldGood(c, b2, v2)
  BY DEF CallGood, HoldGood
<1> QED BY <1>1, <1>2 DEF CallGood

(* A step of t that leaves alone the lists, what is held and what is out. *)
LEMMA Quiet ==
  ASSUME FLInv, NEW t \in Threads, UNCHANGED <<mode, limit, head, out>>,
         blocks \subseteq blocks', next' \in [Elements -> 0..MaxIndex],
         NEW c \in CallRecords, call' = [call EXCEPT ![t] = c],
         \A x \in Slots : Links'[x] = Links[x] \/ (call[t].pc \in Holding /\ x = call[t].at),
         \A x \in Slots : next'[x] = next[x] \/ BlockFor[x] \notin blocks
                                            \/ (call[t].pc \in Holding /\ x = call[t].at),
         c.pc \in Holding <=> call[t].pc \in Holding,
         c.pc \in Holding => c.at = call[t].at,
         CallGood(c, mode, limit, blocks', next', Links', head, Order)
  PROVE  FLInv' /\ UNCHANGED Pool!poolVars
<1> USE DEF FLInv
<1>1. Typed'
  <2>1. call' \in [Threads -> CallRecords]  BY DEF Typed
  <2>2. \A x \in out : BlockFor[x] \in blocks'  BY DEF Typed
  <2> QED BY <2>1, <2>2 DEF Typed
<1>2. call'[t] = c /\ \A u \in Threads : u # t => call'[u] = call[u]  BY DEF Typed
<1>3. \A l \in Lists : Elems(Order[l]) \subseteq Slots
  BY DEF Chains, Chain, Elems
<1>4. ASSUME NEW l \in Lists PROVE Order'[l] = Order[l] /\ Chain(Order'[l], head'[l].at, Links')
  <2>1. \A x \in Elems(Order[l]) : Links'[x] = Links[x]  BY <1>3, HeldApart
  <2> QED BY <2>1, OrderStays
<1>5. Order' = Order  BY <1>4 DEF Order
<1>6. Chains'  BY <1>4 DEF Chains
<1>7. Held' = Held /\ \A u \in Held : call'[u].at = call[u].at  BY <1>2 DEF Held
<1>8. Apart'  BY <1>5, <1>7 DEF Apart
<1>9. ASSUME NEW u \in Threads
      PROVE  CallGood(call'[u], mode', limit', blocks', next', Links', head', Order')
  <2>1. CASE u = t  BY <1>2, <1>5, <2>1
  <2>2. CASE u # t
    <3> DEFINE d == call[u]
    <3>1. CallGood(d, mode, limit, blocks, next, Links, head, Order) /\ call'[u] = d
      BY <1>2, <2>2 DEF Calls
    <3>2. d.pc = "give" => next'[d.at] = next[d.at]
      <4> SUFFICES ASSUME d.pc = "give" PROVE next'[d.at] = next[d.at]  OBVIOUS
      <4>1. d.pc \in Holding  BY DEF Holding
      <4>2. d.at \in Slots /\ BlockFor[d.at] \in blocks  BY <3>1, <4>1 DEF CallGood, HoldGood
      <4>3. ~(call[t].pc \in Holding /\ d.at = call[t].at)  BY <2>2, <4>1, HeldApart
      <4> QED BY <4>2, <4>3
    <3>3. From(d) \in Lists  BY CallIs
    <3>4. d.at \in Elems(Order[From(d)]) => Links'[d.at] = Links[d.at]
      BY <1>3, <3>3, HeldApart
    <3> HIDE DEF d
    <3>5. CallGood(d, mode, limit, blocks', next', Links', head, Order)
      BY <3>1, <3>2, <3>4, OtherStays
    <3> QED BY <1>5, <3>1, <3>5
  <2> QED BY <2>1, <2>2
<1>10. Hands' = Hands
  <2>1. \A u \in Threads : Carried(u)' = Carried(u)
    BY <1>2 DEF Carried, Holding
  <2> QED BY <2>1 DEF Hands
<1>11. UNCHANGED Pool!poolVars  BY <1>5, <1>10, MapsStutter
<1> QED BY <1>1, <1>6, <1>8, <1>9, <1>11 DEF Calls

(* The simplest of them change only the call of t, which held nothing. *)
LEMMA QuietCall ==
  ASSUME FLInv, NEW t \in Threads, UNCHANGED <<mode, limit, head, next, blocks, out>>,
         NEW c \in CallRecords, call' = [call EXCEPT ![t] = c],
         c.pc \in Holding <=> call[t].pc \in Holding,
         c.pc \in Holding => c.at = call[t].at,
         CallGood(c, mode, limit, blocks, next, Links, head, Order)
  PROVE  FLInv' /\ UNCHANGED Pool!poolVars
<1>1. Links' = Links  BY LinksStay
<1>2. next' \in [Elements -> 0..MaxIndex]  BY DEF FLInv, Typed
<1> QED BY <1>1, <1>2, Quiet

LEMMA IdleIs == Idle \in CallRecords /\ Blank \in Words
BY Constant DEF Idle, CallRecords, Blank, Words

LEMMA EnterQuiet ==
  ASSUME FLInv, NEW t \in Threads,
         NEW name, \/ name \in {"push", "pop"} /\ mode = "values"
                   \/ name = "next" /\ mode = "ids",
         Enter(t, name)
  PROVE  FLInv' /\ UNCHANGED Pool!poolVars
<1> DEFINE c == [call[t] EXCEPT !.name = name, !.pc = "load"]
<1>1. call[t] = Idle /\ call \in [Threads -> CallRecords]  BY DEF Enter, FLInv, Typed
<1>2. c \in CallRecords /\ c.pc = "load" /\ c.passed = 0 /\ c.name = name
  <2>1. name \in {"next", "push", "pop"}  OBVIOUS
  <2>2. call[t] \in CallRecords /\ call[t].passed = 0  BY <1>1 DEF Idle
  <2> QED BY <2>1, <2>2 DEF CallRecords
<1>3. call' = [call EXCEPT ![t] = c]  BY <1>1 DEF Enter
<1>4. CallGood(c, mode, limit, blocks, next, Links, head, Order)
  <2> HIDE DEF c
  <2> QED BY <1>2 DEF CallGood, Reading, Holding
<1>5. call[t].pc = "idle"  BY <1>1 DEF Idle
<1> HIDE DEF c
<1>6. c.pc \notin Holding /\ call[t].pc \notin Holding  BY <1>2, <1>5 DEF Holding
<1>7. UNCHANGED <<mode, limit, head, next, blocks, out>>  BY DEF Enter
<1> QED BY <1>2, <1>3, <1>4, <1>6, <1>7, QuietCall

LEMMA LoadQuiet ==
  ASSUME FLInv, NEW t \in Threads, Load(t)
  PROVE  FLInv' /\ UNCHANGED Pool!poolVars
<1> DEFINE d == call[t]
           w == head[From(d)]
<1>1. /\ d \in CallRecords /\ d.pc = "load" /\ From(d) \in Lists /\ w \in Words
      /\ call \in [Threads -> CallRecords]
  BY CallIs DEF Load, FLInv, Typed
<1>2. CallGood(d, mode, limit, blocks, next, Links, head, Order)  BY DEF FLInv, Calls
<1>3. d.name \in {"next", "push", "pop"} /\ d.passed = 0  BY <1>1, <1>2 DEF CallGood
<1>4. UNCHANGED <<mode, limit, head, next, blocks, out>>  BY DEF Load
<1>5. d.pc \notin Holding  BY <1>1 DEF Holding
<1>6. CASE Return(t)
  <2>1. call' = [call EXCEPT ![t] = Idle]  BY <1>6 DEF Return
  <2>2. Idle.pc = "idle" /\ Idle.name = "none"  BY DEF Idle
  <2>3. CallGood(Idle, mode, limit, blocks, next, Links, head, Order)
    BY <2>2 DEF CallGood, Reading, Holding
  <2>4. Idle.pc \notin Holding  BY <2>2 DEF Holding
  <2> QED BY <1>4, <1>5, <2>1, <2>3, <2>4, IdleIs, QuietCall
<1>7. CASE ~Return(t)
  <2> DEFINE c == [d EXCEPT !.word = w, !.at = w.at,
                            !.pc = IF BlockFor[w.at] \in blocks THEN "next" ELSE "grow"]
  <2>1. /\ w.at < limit /\ w.at \in Slots
        /\ call' = [call EXCEPT ![t] = c]
    BY <1>1, <1>7 DEF Load
  <2>2. /\ c \in CallRecords /\ c.name = d.name /\ c.word = w /\ c.at = w.at /\ c.passed = 0
        /\ c.pc = IF BlockFor[w.at] \in blocks THEN "next" ELSE "grow"
    BY <1>1, <1>3 DEF CallRecords, Words, Reading
  <2> HIDE DEF c
  <2>3. c.pc \in {"next", "grow"} /\ c.pc \notin Holding /\ c.pc \in Reading
    BY <2>2 DEF Holding, Reading
  <2>4. From(c) = From(d)  BY <2>2 DEF From
  <2>5. w.serial \in 0..Serials-1  BY <1>1 DEF Words
  <2>6. w.serial = (w.serial + 0) % Serials
    <3>1. w.serial \in Nat /\ w.serial < Serials  BY <2>5, Constant
    <3> HIDE DEF w
    <3> QED BY <3>1, Constant
  <2>7. ReadGood(c, limit, blocks, Links, w, Elems(Order[From(c)]))
    <3>1. c.passed <= Serials - 1  BY <2>2, Constant
    <3> HIDE DEF w
    <3> QED BY <1>3, <2>1, <2>2, <2>3, <2>6, <3>1 DEF ReadGood
  <2>8. CallGood(c, mode, limit, blocks, next, Links, head, Order)
    BY <1>2, <2>2, <2>3, <2>4, <2>7 DEF CallGood
  <2> QED BY <1>4, <1>5, <2>1, <2>2, <2>3, <2>8, QuietCall
<1> QED BY <1>6, <1>7

LEMMA ReadNextQuiet ==
  ASSUME FLInv, NEW t \in Threads, ReadNext(t)
  PROVE  FLInv' /\ UNCHANGED Pool!poolVars
<1> DEFINE d == call[t]
           c == [d EXCEPT !.link = next[d.at], !.pc = "take"]
<1>1. d \in CallRecords /\ d.pc = "next" /\ call \in [Threads -> CallRecords]
  BY CallIs DEF ReadNext, FLInv, Typed
<1>2. CallGood(d, mode, limit, blocks, next, Links, head, Order)  BY DEF FLInv, Calls
<1>3. ReadGood(d, limit, blocks, Links, head[From(d)], Elems(Order[From(d)]))
  BY <1>1, <1>2 DEF CallGood, Reading
<1>4. d.at \in Slots /\ BlockFor[d.at] \in blocks  BY <1>1, <1>3 DEF ReadGood
<1>5. next[d.at] = Links[d.at] /\ next[d.at] \in 0..MaxIndex
  BY <1>4, SlotsIn DEF Links, FLInv, Typed
<1>6. call' = [call EXCEPT ![t] = c] /\ UNCHANGED <<mode, limit, head, next, blocks, out>>
  BY <1>1 DEF ReadNext
<1> HIDE DEF d
<1>7. /\ c \in CallRecords /\ c.name = d.name /\ c.word = d.word /\ c.at = d.at
      /\ c.passed = d.passed /\ c.link = next[d.at] /\ c.pc = "take"
  BY <1>1, <1>5 DEF CallRecords, Reading
<1> HIDE DEF c
<1>8. c.pc \notin Holding /\ d.pc \notin Holding /\ c.pc \in Reading /\ From(c) = From(d)
  BY <1>1, <1>7 DEF Holding, Reading, From
<1>9. ReadGood(c, limit, blocks, Links, head[From(c)], Elems(Order[From(c)]))
  BY <1>3, <1>4, <1>5, <1>7, <1>8 DEF ReadGood
<1>10. CallGood(c, mode, limit, blocks, next, Links, head, Order)
  BY <1>2, <1>7, <1>8, <1>9 DEF CallGood
<1> QED BY <1>6, <1>7, <1>8, <1>10, QuietCall DEF d

LEMMA TakeFailsQuiet ==
  ASSUME FLInv, NEW t \in Threads, TakeFails(t)
  PROVE  FLInv' /\ UNCHANGED Pool!poolVars
<1> DEFINE d == call[t]
           c == [Idle EXCEPT !.name = d.name, !.pc = "load"]
<1>1. d \in CallRecords /\ d.pc = "take"  BY CallIs DEF TakeFails, FLInv
<1>2. CallGood(d, mode, limit, blocks, next, Links, head, Order)  BY DEF FLInv, Calls
<1>3. d.name \in {"next", "push", "pop"}  BY <1>1, <1>2 DEF CallGood, ReadGood, Reading
<1>4. call' = [call EXCEPT ![t] = c] /\ UNCHANGED <<mode, limit, head, next, blocks, out>>
  BY DEF TakeFails
<1> HIDE DEF d
<1>5. c \in CallRecords /\ c.name = d.name /\ c.pc = "load" /\ c.passed = 0
  <2>1. Idle.passed = 0  BY DEF Idle
  <2> QED BY <1>3, <2>1, IdleIs DEF CallRecords
<1> HIDE DEF c
<1>6. c.pc \notin Holding /\ d.pc \notin Holding /\ c.pc \notin Reading
  BY <1>1, <1>5 DEF Holding, Reading
<1>7. CallGood(c, mode, limit, blocks, next, Links, head, Order)
  BY <1>2, <1>3, <1>5, <1>6 DEF CallGood
<1> QED BY <1>4, <1>5, <1>6, <1>7, QuietCall DEF d

LEMMA ReadTopQuiet ==
  ASSUME FLInv, NEW t \in Threads, ReadTop(t)
  PROVE  FLInv' /\ UNCHANGED Pool!poolVars
<1> DEFINE d == call[t]
           c == [d EXCEPT !.word = head[To(d)], !.pc = "hook"]
<1>1. d \in CallRecords /\ d.pc = "top" /\ head[To(d)] \in Words
      /\ call \in [Threads -> CallRecords]
  BY CallIs DEF ReadTop, FLInv, Typed
<1>2. CallGood(d, mode, limit, blocks, next, Links, head, Order)  BY DEF FLInv, Calls
<1>3. HoldGood(d, blocks, next)  BY <1>1, <1>2 DEF CallGood, Holding
<1>4. call' = [call EXCEPT ![t] = c] /\ UNCHANGED <<mode, limit, head, next, blocks, out>>
  BY <1>1 DEF ReadTop
<1> HIDE DEF d
<1>5. c \in CallRecords /\ c.name = d.name /\ c.pc = "hook" /\ c.at = d.at
  BY <1>1 DEF CallRecords, Holding
<1> HIDE DEF c
<1>6. c.pc \in Holding /\ d.pc \in Holding /\ c.pc \notin Reading
  BY <1>1, <1>5 DEF Holding, Reading
<1>7. HoldGood(c, blocks, next)  BY <1>3, <1>5 DEF HoldGood
<1>8. CallGood(c, mode, limit, blocks, next, Links, head, Order)
  BY <1>2, <1>5, <1>6, <1>7 DEF CallGood
<1> QED BY <1>4, <1>5, <1>6, <1>8, QuietCall DEF d

LEMMA GiveFailsQuiet ==
  ASSUME FLInv, NEW t \in Threads, GiveFails(t)
  PROVE  FLInv' /\ UNCHANGED Pool!poolVars
<1> DEFINE d == call[t]
           c == [d EXCEPT !.pc = "top"]
<1>1. d \in CallRecords /\ d.pc = "give" /\ call \in [Threads -> CallRecords]
  BY CallIs DEF GiveFails, FLInv, Typed
<1>2. CallGood(d, mode, limit, blocks, next, Links, head, Order)  BY DEF FLInv, Calls
<1>3. HoldGood(d, blocks, next)  BY <1>1, <1>2 DEF CallGood, Holding
<1>4. call' = [call EXCEPT ![t] = c] /\ UNCHANGED <<mode, limit, head, next, blocks, out>>
  BY <1>1 DEF GiveFails, Goto
<1> HIDE DEF d
<1>5. c \in CallRecords /\ c.name = d.name /\ c.pc = "top" /\ c.at = d.at
  BY <1>1 DEF CallRecords, Holding
<1> HIDE DEF c
<1>6. c.pc \in Holding /\ d.pc \in Holding /\ c.pc \notin Reading
  BY <1>1, <1>5 DEF Holding, Reading
<1>7. HoldGood(c, blocks, next)  BY <1>3, <1>5 DEF HoldGood
<1>8. CallGood(c, mode, limit, blocks, next, Links, head, Order)
  BY <1>2, <1>5, <1>6, <1>7 DEF CallGood
<1> QED BY <1>4, <1>5, <1>6, <1>8, QuietCall DEF d

(* Grow() makes of a block what Links already says of it. *)
LEMMA GrowQuiet ==
  ASSUME FLInv, NEW t \in Threads, Grow(t)
  PROVE  FLInv' /\ UNCHANGED Pool!poolVars
<1> DEFINE d == call[t]
           b == BlockFor[d.at]
           c == [d EXCEPT !.pc = "next"]
<1>1. d \in CallRecords /\ d.pc = "grow" /\ call \in [Threads -> CallRecords]
      /\ next \in [Elements -> 0..MaxIndex]
  BY CallIs DEF Grow, FLInv, Typed
<1>2. CallGood(d, mode, limit, blocks, next, Links, head, Order)  BY DEF FLInv, Calls
<1>3. ReadGood(d, limit, blocks, Links, head[From(d)], Elems(Order[From(d)]))
  BY <1>1, <1>2 DEF CallGood, Reading
<1>4. /\ blocks' = blocks \cup {b} /\ next' = IF b \in blocks THEN next ELSE Linked(b)
      /\ call' = [call EXCEPT ![t] = c] /\ UNCHANGED <<mode, limit, head, out>>
  BY <1>1 DEF Grow, Goto
<1>5. blocks \subseteq blocks' /\ b \in blocks'  BY <1>4
<1> HIDE DEF b
<1>6. ASSUME NEW x \in Slots
      PROVE  Links'[x] = Links[x] /\ (next'[x] = next[x] \/ BlockFor[x] \notin blocks)
  <2>1. /\ Links[x] = (IF BlockFor[x] \in blocks THEN next[x] ELSE x + 1)
        /\ Links'[x] = (IF BlockFor[x] \in blocks' THEN next'[x] ELSE x + 1)
    BY DEF Links
  <2>2. CASE b \in blocks  BY <1>4, <2>1, <2>2
  <2>3. CASE b \notin blocks
    <3>1. next'[x] = IF BlockFor[x] = b THEN x + 1 ELSE next[x]
      BY <1>4, <2>3, SlotsIn DEF Linked
    <3> QED BY <1>4, <2>1, <2>3, <3>1
  <2> QED BY <2>2, <2>3
<1>7. next' \in [Elements -> 0..MaxIndex]
  <2>1. \A x \in Slots : x + 1 \in 0..MaxIndex
    BY SlotsIn, Constant DEF Elements
  <2>2. Linked(b) \in [Elements -> 0..MaxIndex]  BY <1>1, <2>1 DEF Linked
  <2> QED BY <1>1, <1>4, <2>2
<1>8. Links' = Links  BY <1>6 DEF Links
<1>9. b = BlockFor[d.at]  BY DEF b
<1> HIDE DEF d
<1>10. /\ c \in CallRecords /\ c.name = d.name /\ c.word = d.word /\ c.at = d.at
       /\ c.passed = d.passed /\ c.pc = "next"
  BY <1>1 DEF CallRecords, Reading
<1> HIDE DEF c
<1>11. c.pc \notin Holding /\ d.pc \notin Holding /\ c.pc \in Reading /\ From(c) = From(d)
  BY <1>1, <1>10 DEF Holding, Reading, From
<1>12. ReadGood(c, limit, blocks', Links', head[From(c)], Elems(Order[From(c)]))
  BY <1>1, <1>3, <1>5, <1>8, <1>9, <1>10, <1>11 DEF ReadGood
<1>13. CallGood(c, mode, limit, blocks', next', Links', head, Order)
  BY <1>2, <1>10, <1>11, <1>12 DEF CallGood
<1> QED BY <1>4, <1>5, <1>6, <1>7, <1>10, <1>11, <1>13, Quiet DEF d

LEMMA HookQuiet ==
  ASSUME FLInv, NEW t \in Threads, Hook(t)
  PROVE  FLInv' /\ UNCHANGED Pool!poolVars
<1> DEFINE d == call[t]
           c == [d EXCEPT !.pc = "give"]
<1>1. d \in CallRecords /\ d.pc = "hook" /\ call \in [Threads -> CallRecords]
      /\ next \in [Elements -> 0..MaxIndex]
  BY CallIs DEF Hook, FLInv, Typed
<1>2. CallGood(d, mode, limit, blocks, next, Links, head, Order)  BY DEF FLInv, Calls
<1>3. HoldGood(d, blocks, next)  BY <1>1, <1>2 DEF CallGood, Holding
<1>4. /\ next' = [next EXCEPT ![d.at] = d.word.at]
      /\ call' = [call EXCEPT ![t] = c] /\ UNCHANGED <<mode, limit, head, blocks, out>>
  BY <1>1 DEF Hook, Goto
<1> HIDE DEF d
<1>5. d.at \in Slots /\ d.at \in Elements /\ d.word.at \in 0..MaxIndex
  BY <1>1, <1>3, SlotsIn DEF HoldGood, CallRecords, Words
<1>6. /\ next' \in [Elements -> 0..MaxIndex] /\ next'[d.at] = d.word.at
      /\ \A x \in Slots : x # d.at => next'[x] = next[x]
  BY <1>1, <1>4, <1>5, SlotsIn
<1>7. \A x \in Slots : x # d.at => Links'[x] = Links[x]
  BY <1>4, <1>6 DEF Links
<1>8. /\ c \in CallRecords /\ c.name = d.name /\ c.word = d.word /\ c.at = d.at
      /\ c.pc = "give"
  BY <1>1 DEF CallRecords, Holding
<1> HIDE DEF c
<1>9. c.pc \in Holding /\ d.pc \in Holding /\ c.pc \notin Reading
  BY <1>1, <1>8 DEF Holding, Reading
<1>10. HoldGood(c, blocks', next')  BY <1>3, <1>4, <1>6, <1>8 DEF HoldGood
<1>11. CallGood(c, mode, limit, blocks', next', Links', head, Order)
  BY <1>2, <1>8, <1>9, <1>10 DEF CallGood
<1>12. blocks \subseteq blocks'  BY <1>4
<1> QED BY <1>4, <1>6, <1>7, <1>8, <1>9, <1>11, <1>12, Quiet DEF d

------------------------------------------------------------------------------
(* Serial numbers.                                                             *)
Wrapped(a) == IF a < Serials THEN a ELSE a - Serials

LEMMA Wraps ==
  ASSUME NEW a \in Nat, a < 2 * Serials
  PROVE  a % Serials = Wrapped(a)
<1>1. a % Serials = IF a < Serials THEN a ELSE a - Serials  BY Constant
<1> QED BY <1>1 DEF Wrapped

LEMMA SerialSame ==
  ASSUME NEW a \in 0..Serials-1, NEW p \in 0..Serials-1, a = (a + p) % Serials
  PROVE  p = 0
<1>1. a + p \in Nat /\ a + p < 2 * Serials  BY Constant
<1>2. (a + p) % Serials = Wrapped(a + p)  BY <1>1, Wraps, Zenon
<1>3. a = Wrapped(a + p)  BY <1>2, Zenon
<1> QED BY ONLY <1>3, Constant, a \in 0..Serials-1, p \in 0..Serials-1 DEF Wrapped

LEMMA SerialNext ==
  ASSUME NEW a \in 0..Serials-1, NEW p \in 0..Serials-1, p + 1 <= Serials - 1
  PROVE  IncrementSerial((a + p) % Serials) = (a + (p + 1)) % Serials
<1>1. a + p \in Nat /\ a + p < 2 * Serials  BY Constant
<1>2. (a + p) % Serials = Wrapped(a + p)  BY <1>1, Wraps, Zenon
<1>3. a + (p + 1) \in Nat /\ a + (p + 1) < 2 * Serials  BY Constant
<1>4. (a + (p + 1)) % Serials = Wrapped(a + (p + 1))  BY <1>3, Wraps, Zenon
<1> DEFINE r == Wrapped(a + p)
<1>5. r \in Nat /\ r < Serials  BY <1>1, Constant DEF Wrapped
<1>6. r + 1 \in Nat /\ r + 1 < 2 * Serials  BY <1>5, Constant
<1>7. (r + 1) % Serials = Wrapped(r + 1)  BY <1>6, Wraps, Zenon
<1>8. IncrementSerial((a + p) % Serials) = Wrapped(r + 1)
  BY <1>2, <1>7, Zenon DEF IncrementSerial
<1>9. Wrapped(r + 1) = Wrapped(a + (p + 1))
  BY ONLY <1>1, Constant, a \in 0..Serials-1, p \in 0..Serials-1, p + 1 <= Serials - 1
  DEF Wrapped, r
<1> QED BY <1>4, <1>8, <1>9, Zenon

LEMMA SerialIn == ASSUME NEW s \in 0..Serials-1 PROVE IncrementSerial(s) \in 0..Serials-1
<1>1. s + 1 \in Nat /\ s + 1 < 2 * Serials  BY Constant
<1>2. (s + 1) % Serials = Wrapped(s + 1)  BY <1>1, Wraps, Zenon
<1>3. Wrapped(s + 1) \in 0..Serials-1
  BY ONLY Constant, s \in 0..Serials-1 DEF Wrapped
<1> QED BY <1>2, <1>3, Zenon DEF IncrementSerial

------------------------------------------------------------------------------
(* The steps by which an element goes from one place to another.               *)

(* release() takes back an element that is out. *)
LEMMA ReleaseClaims ==
  ASSUME FLInv, NEW t \in Threads, NEW x \in Elements, Release(t, x)
  PROVE  FLInv' /\ Pool!PoolStep
<1> USE DEF FLInv
<1> DEFINE d == call[t]
           c == [d EXCEPT !.name = "release", !.pc = "top", !.at = x]
<1>1. /\ d \in CallRecords /\ d.pc = "idle" /\ mode = "ids" /\ x \in out /\ x \in Slots
      /\ call \in [Threads -> CallRecords] /\ BlockFor[x] \in blocks /\ x \in 0..MaxIndex
  <2>1. d = Idle /\ x \in out /\ mode = "ids"  BY DEF Release
  <2>2. d.pc = "idle"  BY <2>1 DEF Idle
  <2> QED BY <2>1, <2>2, SlotsIn DEF Typed
<1>2. /\ out' = out \ {x} /\ UNCHANGED <<mode, limit, head, next, blocks>>
      /\ call' = [call EXCEPT ![t] = c]
  BY <1>1 DEF Release
<1> HIDE DEF d
<1>3. c \in CallRecords /\ c.name = "release" /\ c.pc = "top" /\ c.at = x
  BY <1>1 DEF CallRecords, Holding
<1> HIDE DEF c
<1>4. c.pc \in Holding /\ d.pc \notin Holding /\ c.pc \notin Reading
  BY <1>1, <1>3 DEF Holding, Reading
<1>5. call' \in [Threads -> CallRecords] /\ call'[t] = c
      /\ \A u \in Threads : u # t => call'[u] = call[u]
  BY <1>1, <1>2, <1>3
<1>6. Typed'  BY <1>2, <1>5 DEF Typed
<1>7. Links' = Links  BY <1>2, LinksStay
<1>8. ASSUME NEW l \in Lists PROVE Order'[l] = Order[l] /\ Chain(Order'[l], head'[l].at, Links')
  <2>1. head'[l].at = head[l].at  BY <1>2
  <2> QED BY <1>7, <2>1, OrderStays
<1>9. Order' = Order  BY <1>8 DEF Order
<1>10. Chains'  BY <1>8 DEF Chains
<1>11. /\ t \notin Held /\ Held' = Held \cup {t} /\ call'[t].at = x
       /\ \A u \in Held : call'[u].at = call[u].at
  BY <1>3, <1>4, <1>5 DEF Held, d
<1>12. Apart'
  <2>1. \A l \in Lists : x \notin Elems(Order[l])  BY <1>1 DEF Apart
  <2>2. \A u \in Held : call[u].at # x  BY <1>1 DEF Apart
  <2> QED BY <1>2, <1>9, <1>11, <2>1, <2>2 DEF Apart
<1>13. ASSUME NEW u \in Threads
       PROVE  CallGood(call'[u], mode', limit', blocks', next', Links', head', Order')
  <2>1. CASE u = t
    <3>1. HoldGood(c, blocks, next)  BY <1>1, <1>3 DEF HoldGood
    <3>2. CallGood(c, mode, limit, blocks, next, Links, head, Order)
      BY <1>1, <1>3, <1>4, <3>1 DEF CallGood
    <3> QED BY <1>2, <1>5, <1>7, <1>9, <2>1, <3>2
  <2>2. CASE u # t  BY <1>2, <1>5, <1>7, <1>9, <2>2 DEF Calls
  <2> QED BY <2>1, <2>2
<1>14. Calls'  BY <1>13 DEF Calls
<1>15. Hands[t] = None /\ Hands' = [Hands EXCEPT ![t] = x]
  <2>1. Carried(t) = None /\ Carried(t)' = x
    BY <1>3, <1>4, <1>5 DEF Carried, Holding, d
  <2>2. \A u \in Threads : u # t => Carried(u)' = Carried(u)  BY <1>5 DEF Carried
  <2> QED BY <2>1, <2>2 DEF Hands
<1>16. Pool!PoolStep  BY <1>1, <1>2, <1>9, <1>15, MapsClaim
<1> QED BY <1>6, <1>10, <1>12, <1>14, <1>16

(* A compare-and-set that finds the word it has read finds the list as it was: *)
(* the element is the first one, and what was read of _next stands.            *)
LEMMA TakeFinds ==
  ASSUME FLInv, NEW t \in Threads, call[t].pc = "take",
         head[From(call[t])] = call[t].word
  PROVE  LET d == call[t]  l == From(d) IN
         /\ d.at \in Slots /\ d.at < limit /\ BlockFor[d.at] \in blocks
         /\ d.name \in {"next", "push", "pop"}
         /\ head[l].at = d.at /\ d.link = Links[d.at]
         /\ Order[l] # <<>> /\ Order[l] \in Seq(Slots) /\ Head(Order[l]) = d.at
         /\ d.at \in Elems(Order[l])
<1> DEFINE d == call[t]
           l == From(d)
<1>1. d \in CallRecords /\ l \in Lists /\ head[l] \in Words
  BY CallIs DEF FLInv, Typed
<1>2. CallGood(d, mode, limit, blocks, next, Links, head, Order)  BY DEF FLInv, Calls
<1>3. Chain(Order[l], head[l].at, Links)  BY <1>1 DEF FLInv, Chains
<1> HIDE DEF l
<1>4. d.pc = "take" /\ head[l] = d.word /\ l = From(d)  BY DEF l
<1> HIDE DEF d
<1>5. ReadGood(d, limit, blocks, Links, head[l], Elems(Order[l]))
  BY <1>2, <1>4 DEF CallGood, Reading
<1>6. /\ d.at \in Slots /\ d.at < limit /\ BlockFor[d.at] \in blocks
      /\ d.name \in {"next", "push", "pop"} /\ head[l].at = d.at
  BY <1>4, <1>5 DEF ReadGood
<1>7. d.passed = 0
  <2>1. d.word.serial \in 0..Serials-1 /\ d.passed \in Nat  BY <1>1 DEF CallRecords, Words
  <2>2. d.passed <= Serials - 1 /\ d.word.serial = (d.word.serial + d.passed) % Serials
    BY <1>4, <1>5 DEF ReadGood
  <2>3. d.passed \in 0..Serials-1  BY <2>1, <2>2, Constant
  <2> QED BY <2>1, <2>2, <2>3, SerialSame, Zenon
<1>8. /\ Order[l] # <<>> /\ Order[l] \in Seq(Slots) /\ Head(Order[l]) = d.at
      /\ d.at \in Elems(Order[l])
  BY <1>3, <1>6, ChainTail
<1>9. d.link = Links[d.at]  BY <1>4, <1>5, <1>7, <1>8 DEF ReadGood
<1> QED BY <1>6, <1>8, <1>9 DEF d, l

(* What it does to the lists, and to what the others have read of them. *)
LEMMA TakeShortens ==
  ASSUME FLInv, NEW t \in Threads, Take(t)
  PROVE  LET d == call[t]  l == From(d) IN
         /\ head' \in [Lists -> Words] /\ Chains' /\ Links' = Links
         /\ Order'[l] = Tail(Order[l]) /\ Elems(Order'[l]) = Elems(Order[l]) \ {d.at}
         /\ \A k \in Lists : k # l => Order'[k] = Order[k]
         /\ \A u \in Threads :
               CallGood(call[u], mode, limit, blocks, next, Links', head', Order')
               \/ u = t
<1> USE DEF FLInv
<1> DEFINE d == call[t]
           l == From(d)
<1>1. /\ d \in CallRecords /\ l \in Lists /\ d.link \in 0..MaxIndex
      /\ head \in [Lists -> Words] /\ d.pc = "take" /\ head[l] = d.word
      /\ head' = [head EXCEPT ![l].at = d.link] /\ UNCHANGED <<mode, limit, next, blocks>>
  BY CallIs DEF Take, Typed, CallRecords
<1>2. /\ d.at \in Slots /\ head[l].at = d.at /\ d.link = Links[d.at]
      /\ Order[l] # <<>> /\ d.at \in Elems(Order[l])
  BY <1>1, TakeFinds
<1> HIDE DEF l, d
<1>3. /\ head' \in [Lists -> Words] /\ head'[l].at = d.link /\ head'[l].serial = head[l].serial
      /\ \A k \in Lists : k # l => head'[k] = head[k]
  BY <1>1 DEF Words
<1>4. Links' = Links  BY <1>1, LinksStay
<1>5. Chain(Order[l], d.at, Links)  BY <1>1, <1>2 DEF Chains
<1>6. /\ Chain(Tail(Order[l]), Links[d.at], Links)
      /\ Elems(Tail(Order[l])) = Elems(Order[l]) \ {d.at}
  BY <1>2, <1>5, ChainTail
<1>7. Chain(Tail(Order[l]), head'[l].at, Links')  BY <1>2, <1>3, <1>4, <1>6
<1>8. Order'[l] = Tail(Order[l])  BY <1>1, <1>7, OrderBecomes
<1>9. ASSUME NEW k \in Lists, k # l
      PROVE  Order'[k] = Order[k] /\ Chain(Order'[k], head'[k].at, Links')
  <2>1. head'[k].at = head[k].at  BY <1>3, <1>9
  <2> QED BY <1>4, <2>1, OrderStays
<1>10. Chains'  BY <1>7, <1>8, <1>9 DEF Chains
<1>11. Elems(Order'[l]) = Elems(Order[l]) \ {d.at}  BY <1>6, <1>8
<1>12. ASSUME NEW u \in Threads
       PROVE  CallGood(call[u], mode, limit, blocks, next, Links', head', Order')
  <2> DEFINE c == call[u]
  <2>1. CallGood(c, mode, limit, blocks, next, Links, head, Order) /\ From(c) \in Lists
    BY CallIs DEF Calls
  <2> HIDE DEF c
  <2>2. ASSUME c.pc \in Reading
        PROVE  /\ head'[From(c)].serial = head[From(c)].serial
               /\ c.at \in Elems(Order'[From(c)]) /\ c.passed = 0
                  => /\ c.at \in Elems(Order[From(c)]) /\ head'[From(c)].at = head[From(c)].at
                     /\ Links'[c.at] = Links[c.at]
    <3>1. CASE From(c) # l  BY <1>3, <1>4, <1>9, <2>1, <3>1
    <3>2. CASE From(c) = l
      <4>1. ReadGood(c, limit, blocks, Links, head[l], Elems(Order[l]))
        BY <2>1, <2>2, <3>2 DEF CallGood
      <4>2. c.passed = 0 /\ c.at \in Elems(Order[l]) => c.at = d.at
        BY <1>2, <4>1 DEF ReadGood
      <4>3. ~(c.at \in Elems(Order'[l]) /\ c.passed = 0)  BY <1>11, <4>2
      <4> QED BY <1>3, <3>2, <4>3
    <3> QED BY <3>1, <3>2
  <2>3. blocks \subseteq blocks  OBVIOUS
  <2>4. CallGood(c, mode, limit, blocks, next, Links', head', Order')
    BY ONLY <2>1, <2>2, <2>3, OtherStays
  <2> QED BY <2>4 DEF c
<1> QED BY <1>3, <1>4, <1>8, <1>9, <1>10, <1>11, <1>12 DEF d, l

(* next() takes an element out. *)
LEMMA TakeOut ==
  ASSUME FLInv, NEW t \in Threads, Take(t), call[t].name = "next"
  PROVE  FLInv' /\ Pool!PoolStep
<1> USE DEF FLInv
<1> DEFINE d == call[t]
<1>1. /\ d \in CallRecords /\ d.pc = "take" /\ d.name = "next" /\ From(d) = "empty"
      /\ head[From(d)] = d.word
      /\ UNCHANGED <<mode, limit, next, blocks>> /\ out' = out \cup {d.at}
      /\ call' = [call EXCEPT ![t] = Idle] /\ call \in [Threads -> CallRecords]
  BY CallIs DEF Take, Return, From, Typed
<1>2. /\ d.at \in Slots /\ BlockFor[d.at] \in blocks /\ d.at \in Elems(Order["empty"])
  BY <1>1, TakeFinds
<1>3. /\ head' \in [Lists -> Words] /\ Chains' /\ Links' = Links
      /\ Elems(Order'["empty"]) = Elems(Order["empty"]) \ {d.at}
      /\ Order'["stored"] = Order["stored"]
      /\ \A u \in Threads :
               CallGood(call[u], mode, limit, blocks, next, Links', head', Order') \/ u = t
  BY <1>1, TakeShortens DEF Lists
<1>4. /\ call' \in [Threads -> CallRecords] /\ call'[t] = Idle
      /\ \A u \in Threads : u # t => call'[u] = call[u]
  BY <1>1, IdleIs
<1>5. Idle.pc = "idle" /\ Idle.name = "none"  BY DEF Idle
<1>6. Typed'  BY <1>1, <1>2, <1>3, <1>4 DEF Typed
<1>7. Held' = Held /\ \A u \in Held : call'[u].at = call[u].at
  BY <1>1, <1>4, <1>5 DEF Held, Holding
<1>8. Apart'
  <2>1. d.at \notin Elems(Order["stored"])  BY <1>2 DEF Apart
  <2>2. \A u \in Held : call[u].at # d.at  BY <1>2 DEF Apart, Lists
  <2> HIDE DEF d
  <2>3. \A l \in Lists : Elems(Order'[l]) \subseteq Elems(Order[l]) /\ d.at \notin Elems(Order'[l])
    BY <1>3, <2>1 DEF Lists
  <2>4. \A l \in Lists : Elems(Order'[l]) \cap out' = {}  BY <1>1, <2>3 DEF Apart
  <2>5. \A l \in Lists, u \in Held' : call'[u].at \notin Elems(Order'[l])
    BY <1>7, <2>3 DEF Apart
  <2>6. Elems(Order'["empty"]) \cap Elems(Order'["stored"]) = {}
    BY <2>3 DEF Apart, Lists
  <2>7. \A u \in Held' : call'[u].at \notin out'  BY <1>1, <1>7, <2>2 DEF Apart
  <2>8. \A u, v \in Held' : call'[u].at = call'[v].at => u = v  BY <1>7 DEF Apart
  <2> QED BY <2>4, <2>5, <2>6, <2>7, <2>8 DEF Apart
<1>9. Calls'
  <2>1. mode \in Modes  BY DEF Typed
  <2>2. CallGood(Idle, mode, limit, blocks, next, Links', head', Order')
    BY <1>5, <2>1 DEF CallGood, Reading, Holding, Modes
  <2>3. ASSUME NEW u \in Threads
        PROVE  CallGood(call'[u], mode', limit', blocks', next', Links', head', Order')
    BY <1>1, <1>3, <1>4, <2>2
  <2> QED BY <2>3 DEF Calls
<1>10. Hands' = Hands
  <2>1. \A u \in Threads : Carried(u)' = Carried(u)
    BY <1>1, <1>4, <1>5 DEF Carried
  <2> QED BY <2>1 DEF Hands
<1>11. Pool!PoolStep  BY <1>1, <1>2, <1>3, <1>10, MapsNext
<1> QED BY <1>3, <1>6, <1>8, <1>9, <1>11

(* push() and pop() take one in the hand: the one they have found, as long as   *)
(* it is in the first block.                                                    *)
LEMMA TakeInHand ==
  ASSUME FirstBlockOnly, FLInv, NEW t \in Threads, Take(t), call[t].name # "next"
  PROVE  FLInv' /\ Pool!PoolStep
<1> USE DEF FLInv
<1> DEFINE d == call[t]
           l == From(d)
           c == [d EXCEPT !.at = IndexInBlock(d.at), !.pc = "top"]
<1>1. /\ d \in CallRecords /\ d.pc = "take" /\ head[l] = d.word /\ l \in Lists
      /\ UNCHANGED <<mode, limit, next, blocks, out>>
      /\ call' = [call EXCEPT ![t] = c] /\ call \in [Threads -> CallRecords]
  BY CallIs DEF Take, Carry, Typed
<1>2. /\ d.at \in Slots /\ BlockFor[d.at] \in blocks /\ d.at \in Elems(Order[l])
      /\ d.at < limit /\ d.name \in {"push", "pop"}
      /\ Order[l] # <<>> /\ Head(Order[l]) = d.at
  BY <1>1, TakeFinds
<1>3. CallGood(d, mode, limit, blocks, next, Links, head, Order)  BY DEF Calls
<1>4. mode = "values"  BY <1>2, <1>3 DEF CallGood, Typed, Modes
<1>5. limit <= Sizes[1]  BY <1>4 DEF FirstBlockOnly, Typed
<1>6. IndexInBlock(d.at) = d.at
  <2>1. d.at \in Nat  BY <1>2, SlotsIn
  <2>2. limit \in Nat
    <3>1. limit \in 1..MaxIndex  BY <1>4, LimitsAssumption DEF Typed, Modes
    <3> QED BY <3>1, Constant
  <2>3. Sizes # <<>> /\ Sizes[1] \in Nat
    BY SizesAssumption DEF FirstBlockOnly
  <2>4. d.at < Sizes[1]  BY <1>2, <1>5, <2>1, <2>2, <2>3
  <2> QED BY <1>2, <2>3, <2>4, FirstBlock
<1>7. /\ head' \in [Lists -> Words] /\ Chains' /\ Links' = Links
      /\ Order'[l] = Tail(Order[l]) /\ Elems(Order'[l]) = Elems(Order[l]) \ {d.at}
      /\ \A k \in Lists : k # l => Order'[k] = Order[k]
      /\ \A u \in Threads :
               CallGood(call[u], mode, limit, blocks, next, Links', head', Order') \/ u = t
  BY TakeShortens
<1>8. l = IF d.name = "pop" THEN "stored" ELSE "empty"  BY DEF From
<1>9. d.at \in 0..MaxIndex  BY <1>2, SlotsIn
<1> HIDE DEF l, d
<1>10. c \in CallRecords /\ c.at = d.at /\ c.pc = "top" /\ c.name = d.name
  BY <1>1, <1>6, <1>9 DEF CallRecords, Holding
<1> HIDE DEF c
<1>11. /\ call' \in [Threads -> CallRecords] /\ call'[t] = c
       /\ \A u \in Threads : u # t => call'[u] = call[u]
  BY <1>1, <1>10
<1>12. Typed'  BY <1>1, <1>7, <1>11 DEF Typed
<1>13. c.pc \in Holding /\ c.pc \notin Reading /\ d.pc \notin Holding
  BY <1>1, <1>10 DEF Holding, Reading
<1>14. /\ t \notin Held /\ Held' = Held \cup {t} /\ call'[t].at = d.at
       /\ \A u \in Held : call'[u].at = call[u].at
  BY <1>10, <1>11, <1>13 DEF Held, d
<1>15. Apart'
  <2>1. \A k \in Lists : k # l => d.at \notin Elems(Order[k])
    BY <1>1, <1>2 DEF Apart, Lists
  <2>2. \A u \in Held : call[u].at # d.at  BY <1>1, <1>2 DEF Apart
  <2>3. d.at \notin out  BY <1>1, <1>2 DEF Apart
  <2>4. \A k \in Lists : Elems(Order'[k]) \subseteq Elems(Order[k]) /\ d.at \notin Elems(Order'[k])
    <3>1. ASSUME NEW k \in Lists
          PROVE  Elems(Order'[k]) \subseteq Elems(Order[k]) /\ d.at \notin Elems(Order'[k])
      <4>1. CASE k = l  BY <1>7, <4>1
      <4>2. CASE k # l  BY <1>7, <2>1, <4>2
      <4> QED BY <4>1, <4>2
    <3> QED BY <3>1
  <2>5. \A k \in Lists : Elems(Order'[k]) \cap out' = {}  BY <1>1, <2>4 DEF Apart
  <2>6. \A k \in Lists, u \in Held' : call'[u].at \notin Elems(Order'[k])
    BY <1>14, <2>4 DEF Apart
  <2>7. Elems(Order'["empty"]) \cap Elems(Order'["stored"]) = {}
    BY <2>4 DEF Apart, Lists
  <2>8. \A u \in Held' : call'[u].at \notin out'  BY <1>1, <1>14, <2>3 DEF Apart
  <2>9. \A u, v \in Held' : call'[u].at = call'[v].at => u = v  BY <1>14, <2>2 DEF Apart
  <2> QED BY <2>5, <2>6, <2>7, <2>8, <2>9 DEF Apart
<1>16. Calls'
  <2>1. HoldGood(c, blocks, next)  BY <1>2, <1>10 DEF HoldGood
  <2>2. CallGood(c, mode, limit, blocks, next, Links', head', Order')
    BY <1>2, <1>4, <1>10, <1>13, <2>1 DEF CallGood
  <2>3. ASSUME NEW u \in Threads
        PROVE  CallGood(call'[u], mode', limit', blocks', next', Links', head', Order')
    BY <1>1, <1>7, <1>11, <2>2
  <2> QED BY <2>3 DEF Calls
<1>17. Hands[t] = None /\ Hands' = [Hands EXCEPT ![t] = d.at]
  <2>1. Carried(t) = None /\ Carried(t)' = d.at
    BY <1>10, <1>11, <1>13 DEF Carried, Holding, d
  <2>2. \A u \in Threads : u # t => Carried(u)' = Carried(u)  BY <1>11 DEF Carried
  <2> QED BY <2>1, <2>2 DEF Hands
<1>18. Pool!PoolStep
  <2>1. CASE d.name = "pop"
    <3>1. l = "stored"  BY <1>8, <2>1
    <3>2. Order["stored"] # <<>> /\ Head(Order["stored"]) = d.at
          /\ Order'["stored"] = Tail(Order["stored"]) /\ Order'["empty"] = Order["empty"]
      BY <1>2, <1>7, <3>1 DEF Lists
    <3> QED BY <1>1, <1>17, <3>2, MapsTop
  <2>2. CASE d.name # "pop"
    <3>1. l = "empty"  BY <1>8, <2>2
    <3>2. /\ d.at \in Elems(Order["empty"]) /\ Order'["stored"] = Order["stored"]
          /\ Elems(Order'["empty"]) = Elems(Order["empty"]) \ {d.at}
      BY <1>2, <1>7, <3>1 DEF Lists
    <3> QED BY <1>1, <1>2, <1>17, <3>2, MapsFill
  <2> QED BY <2>1, <2>2
<1> QED BY <1>7, <1>12, <1>15, <1>16, <1>18

(* A release puts the element on the list, whoever read the list before. *)
LEMMA GiveLengthens ==
  ASSUME FLInv, NEW t \in Threads, Give(t)
  PROVE  LET d == call[t]  l == To(d) IN
         /\ head' \in [Lists -> Words] /\ Chains' /\ Links' = Links
         /\ Order'[l] = <<d.at>> \o Order[l] /\ Elems(Order'[l]) = Elems(Order[l]) \cup {d.at}
         /\ \A k \in Lists : k # l => Order'[k] = Order[k]
         /\ \A u \in Threads : u # t =>
               /\ call'[u] \in CallRecords
               /\ call'[u].pc = call[u].pc /\ call'[u].at = call[u].at
               /\ CallGood(call'[u], mode, limit, blocks, next, Links', head', Order')
<1> USE DEF FLInv
<1> DEFINE d == call[t]
           l == To(d)
           top == [at |-> d.at, serial |-> IncrementSerial(head[l].serial)]
<1>1. /\ d \in CallRecords /\ l \in Lists /\ head \in [Lists -> Words] /\ d.pc = "give"
      /\ head[l] = d.word /\ Unwrapped(l) /\ head' = [head EXCEPT ![l] = top]
      /\ UNCHANGED <<mode, limit, next, blocks>>
  BY CallIs DEF Give, Typed
<1>2. CallGood(d, mode, limit, blocks, next, Links, head, Order)  BY DEF Calls
<1>3. /\ d.at \in Slots /\ BlockFor[d.at] \in blocks /\ next[d.at] = head[l].at
  BY <1>1, <1>2 DEF CallGood, HoldGood, Holding
<1>4. Links[d.at] = head[l].at  BY <1>3 DEF Links
<1>5. d.at \notin Elems(Order[l])  BY <1>1, HeldApart DEF Holding
<1>6. call' = [u \in Threads |-> IF u = t THEN Idle
                 ELSE IF u \in Between(l) THEN [call[u] EXCEPT !.passed = @ + 1] ELSE call[u]]
  BY DEF Give
<1>7. \A u \in Threads : u # t => call[u] \in CallRecords /\ From(call[u]) \in Lists
  BY CallIs
<1>8. \A u \in Threads : CallGood(call[u], mode, limit, blocks, next, Links, head, Order)
  BY DEF Calls
<1> HIDE DEF l, d
<1>9. top \in Words
  <2>1. IncrementSerial(head[l].serial) \in 0..Serials-1  BY <1>1, SerialIn DEF Words
  <2>2. d.at \in 0..MaxIndex  BY <1>3, SlotsIn
  <2> QED BY <2>1, <2>2 DEF Words
<1>10. top.at = d.at /\ top.serial = IncrementSerial(head[l].serial)  OBVIOUS
<1> HIDE DEF top
<1>11. /\ head' \in [Lists -> Words] /\ head'[l] = top
       /\ \A k \in Lists : k # l => head'[k] = head[k]
  BY <1>1, <1>9
<1>12. Links' = Links  BY <1>1, LinksStay
<1>13. Chain(Order[l], head[l].at, Links)  BY <1>1 DEF Chains
<1>14. /\ Chain(<<d.at>> \o Order[l], d.at, Links)
       /\ Elems(<<d.at>> \o Order[l]) = Elems(Order[l]) \cup {d.at}
  BY <1>3, <1>4, <1>5, <1>13, ChainPush
<1>15. Chain(<<d.at>> \o Order[l], head'[l].at, Links')  BY <1>10, <1>11, <1>12, <1>14
<1>16. Order'[l] = <<d.at>> \o Order[l]  BY <1>1, <1>15, OrderBecomes
<1>17. ASSUME NEW k \in Lists, k # l
       PROVE  Order'[k] = Order[k] /\ Chain(Order'[k], head'[k].at, Links')
  <2>1. head'[k].at = head[k].at  BY <1>11, <1>17
  <2> QED BY <1>12, <2>1, OrderStays
<1>18. Chains'  BY <1>15, <1>16, <1>17 DEF Chains
<1>19. Elems(Order'[l]) = Elems(Order[l]) \cup {d.at}  BY <1>14, <1>16
<1>20. ASSUME NEW u \in Threads, u # t
       PROVE  /\ call'[u] \in CallRecords
              /\ call'[u].pc = call[u].pc /\ call'[u].at = call[u].at
              /\ CallGood(call'[u], mode, limit, blocks, next, Links', head', Order')
  <2> DEFINE c == call[u]
             e == [c EXCEPT !.passed = @ + 1]
  <2>1. /\ CallGood(c, mode, limit, blocks, next, Links, head, Order) /\ From(c) \in Lists
        /\ c \in CallRecords
    BY <1>7, <1>8, <1>20
  <2>2. u \in Between(l) <=> c.pc \in Reading /\ From(c) = l  BY DEF Between, Reading
  <2>3. u \in Between(l) => c.passed < Serials - 1  BY <1>1 DEF Unwrapped
  <2>4. call'[u] = IF u \in Between(l) THEN e ELSE c  BY <1>6, <1>20
  <2> HIDE DEF c
  <2>5. CASE u \in Between(l)
    <3>1. /\ e \in CallRecords /\ e.passed = c.passed + 1 /\ e.pc = c.pc /\ e.at = c.at
          /\ e.name = c.name /\ e.word = c.word /\ c.passed \in Nat
          /\ c.word.serial \in 0..Serials-1
      BY <2>1 DEF CallRecords, Words
    <3> HIDE DEF e
    <3>2. ReadGood(c, limit, blocks, Links, head[l], Elems(Order[l]))
      BY <2>1, <2>2, <2>5 DEF CallGood
    <3>3. /\ head[l].serial = (c.word.serial + c.passed) % Serials
          /\ c.passed \in 0..Serials-1 /\ c.passed + 1 <= Serials - 1
      BY <2>3, <2>5, <3>1, <3>2, Constant DEF ReadGood
    <3>4. head'[l].serial = (c.word.serial + e.passed) % Serials
      <4>1. IncrementSerial((c.word.serial + c.passed) % Serials)
               = (c.word.serial + (c.passed + 1)) % Serials
        BY <3>1, <3>3, SerialNext
      <4>2. head'[l].serial = IncrementSerial(head[l].serial)  BY <1>10, <1>11
      <4> QED BY <3>1, <3>3, <4>1, <4>2, Zenon
    <3>5. e.passed # 0 /\ e.passed <= Serials - 1  BY <3>1, <3>3, Constant
    <3>6. From(e) = l  BY <2>2, <2>5, <3>1 DEF From
    <3> DEFINE h == head'[l]
    <3>7. h.serial = (e.word.serial + e.passed) % Serials  BY <3>1, <3>4
    <3> HIDE DEF h
    <3>8. ReadGood(e, limit, blocks, Links', h, Elems(Order'[l]))
      BY <3>1, <3>2, <3>5, <3>7 DEF ReadGood
    <3>9. CallGood(e, mode, limit, blocks, next, Links', head', Order')
      BY <2>1, <2>2, <2>5, <3>1, <3>6, <3>8 DEF CallGood, h, Reading, Holding
    <3> QED BY <2>4, <2>5, <3>1, <3>9 DEF c
  <2>6. CASE u \notin Between(l)
    <3>1. c.pc \in Reading => From(c) # l  BY <2>2, <2>6
    <3>2. ASSUME c.pc \in Reading
          PROVE  /\ head'[From(c)].serial = head[From(c)].serial
                 /\ c.at \in Elems(Order'[From(c)]) /\ c.passed = 0
                    => /\ c.at \in Elems(Order[From(c)]) /\ head'[From(c)].at = head[From(c)].at
                       /\ Links'[c.at] = Links[c.at]
      BY <1>11, <1>12, <1>17, <2>1, <3>1, <3>2
    <3>3. blocks \subseteq blocks  OBVIOUS
    <3>4. CallGood(c, mode, limit, blocks, next, Links', head', Order')
      BY ONLY <2>1, <3>2, <3>3, OtherStays
    <3> QED BY <2>1, <2>4, <2>6, <3>4 DEF c
  <2> QED BY <2>5, <2>6
<1> QED BY <1>11, <1>12, <1>16, <1>17, <1>18, <1>19, <1>20 DEF d, l

LEMMA GivePuts ==
  ASSUME FLInv, NEW t \in Threads, Give(t)
  PROVE  FLInv' /\ Pool!PoolStep
<1> USE DEF FLInv
<1> DEFINE d == call[t]
           l == To(d)
<1>1. /\ d \in CallRecords /\ l \in Lists /\ d.pc = "give" /\ d.pc \in Holding
      /\ UNCHANGED <<mode, limit, next, blocks, out>>
      /\ l = IF d.name = "push" THEN "stored" ELSE "empty"
  BY CallIs DEF Give, Typed, To, Holding
<1>2. d.at \in Slots
  <2>1. CallGood(d, mode, limit, blocks, next, Links, head, Order)  BY DEF Calls
  <2> QED BY <1>1, <2>1 DEF CallGood, HoldGood
<1>3. /\ head' \in [Lists -> Words] /\ Chains' /\ Links' = Links
      /\ Order'[l] = <<d.at>> \o Order[l] /\ Elems(Order'[l]) = Elems(Order[l]) \cup {d.at}
      /\ \A k \in Lists : k # l => Order'[k] = Order[k]
      /\ \A u \in Threads : u # t =>
               /\ call'[u] \in CallRecords
               /\ call'[u].pc = call[u].pc /\ call'[u].at = call[u].at
               /\ CallGood(call'[u], mode, limit, blocks, next, Links', head', Order')
  BY GiveLengthens
<1>4. /\ \A k \in Lists : d.at \notin Elems(Order[k])
      /\ d.at \notin out
      /\ \A u \in Threads : call[u].pc \in Holding /\ call[u].at = d.at => u = t
  BY <1>1, HeldApart
<1>5. call'[t] = Idle /\ DOMAIN call' = Threads
      /\ call' = [u \in Threads |-> call'[u]]
  BY DEF Give
<1>6. Idle.pc = "idle" /\ Idle.name = "none" /\ Idle.pc \notin Holding
  BY DEF Idle, Holding
<1> HIDE DEF l
<1>7. Typed'
  <2>1. \A u \in Threads : call'[u] \in CallRecords  BY <1>3, <1>5, IdleIs
  <2>2. call' \in [Threads -> CallRecords]  BY <1>5, <2>1
  <2> QED BY <1>1, <1>3, <2>2 DEF Typed
<1>8. Held' = Held \ {t} /\ \A u \in Held \ {t} : call'[u].at = call[u].at
  <2>1. \A u \in Threads : u # t => (call'[u].pc \in Holding <=> call[u].pc \in Holding)
    BY <1>3
  <2>2. ~(call'[t].pc \in Holding)  BY <1>5, <1>6
  <2> QED BY <1>3, <2>1, <2>2 DEF Held
<1>9. Apart'
  <2>1. \A u \in Held \ {t} : call[u].at # d.at  BY <1>4 DEF Held
  <2> HIDE DEF d
  <2>2. ASSUME NEW k \in Lists
        PROVE  /\ Elems(Order'[k]) \subseteq Elems(Order[k]) \cup {d.at}
               /\ d.at \in Elems(Order'[k]) => k = l
    <3>1. CASE k = l  BY <1>3, <3>1
    <3>2. CASE k # l  BY <1>3, <1>4, <3>2
    <3> QED BY <3>1, <3>2
  <2>3. \A k \in Lists : Elems(Order'[k]) \cap out' = {}  BY <1>1, <1>4, <2>2 DEF Apart
  <2>4. \A k \in Lists, u \in Held' : call'[u].at \notin Elems(Order'[k])
    BY <1>8, <2>1, <2>2 DEF Apart
  <2>5. Elems(Order'["empty"]) \cap Elems(Order'["stored"]) = {}
    <3>1. "empty" \in Lists /\ "stored" \in Lists  BY DEF Lists
    <3>2. ~(d.at \in Elems(Order'["empty"]) /\ d.at \in Elems(Order'["stored"]))
      BY <2>2, <3>1
    <3> QED BY <2>2, <3>1, <3>2 DEF Apart
  <2>6. \A u \in Held' : call'[u].at \notin out'  BY <1>1, <1>8 DEF Apart
  <2>7. \A u, v \in Held' : call'[u].at = call'[v].at => u = v  BY <1>8 DEF Apart
  <2> QED BY <2>3, <2>4, <2>5, <2>6, <2>7 DEF Apart
<1>10. Calls'
  <2>1. mode \in Modes  BY DEF Typed
  <2>2. CallGood(Idle, mode, limit, blocks, next, Links', head', Order')
    BY <1>6, <2>1 DEF CallGood, Reading, Holding, Modes
  <2>3. ASSUME NEW u \in Threads
        PROVE  CallGood(call'[u], mode', limit', blocks', next', Links', head', Order')
    BY <1>1, <1>3, <1>5, <2>2
  <2> QED BY <2>3 DEF Calls
<1>11. Hands[t] = d.at /\ Hands' = [Hands EXCEPT ![t] = None] /\ Hands[t] # None
  <2>1. Carried(t) = d.at /\ Carried(t)' = None
    BY <1>1, <1>5, <1>6 DEF Carried, Holding
  <2>2. \A u \in Threads : u # t => Carried(u)' = Carried(u)  BY <1>3 DEF Carried
  <2> QED BY <1>2, <2>1, <2>2, SlotsIn DEF Hands
<1>12. Pool!PoolStep
  <2>1. CASE d.name = "push"
    <3>1. l = "stored"  BY <1>1, <2>1
    <3>2. Order'["stored"] = <<Hands[t]>> \o Order["stored"] /\ Order'["empty"] = Order["empty"]
      BY <1>3, <1>11, <3>1 DEF Lists
    <3> QED BY <1>1, <1>11, <3>2, MapsSave
  <2>2. CASE d.name # "push"
    <3>1. l = "empty"  BY <1>1, <2>2
    <3>2. /\ Elems(Order'["empty"]) = Elems(Order["empty"]) \cup {Hands[t]}
          /\ Order'["stored"] = Order["stored"]
      BY <1>3, <1>11, <3>1 DEF Lists
    <3> QED BY <1>1, <1>11, <3>2, MapsSpare
  <2> QED BY <2>1, <2>2
<1> QED BY <1>3, <1>7, <1>9, <1>10, <1>12

------------------------------------------------------------------------------
(* The invariant and the refinement.                                           *)

LEMMA InitGood ==
  ASSUME Init
  PROVE  FLInv /\ Pool!PoolInit
<1>1. /\ mode \in Modes /\ limit \in Limits[mode] /\ blocks = {} /\ out = {}
      /\ next = [x \in Elements |-> 0] /\ call = [t \in Threads |-> Idle]
      /\ head["empty"].at = 0 /\ head["stored"] = Blank /\ head \in [Lists -> Words]
  BY IdleIs, Constant DEF Init, Lists, Words, Blank
<1>2. \A x \in Slots : Links[x] = x + 1  BY <1>1 DEF Links
<1>3. PICK s : Chain(s, 0, Links) /\ Elems(s) = Slots  BY <1>2, ChainAll
<1>4. Order["empty"] = s
  <2>1. WalkFrom(0, Links) = s  BY <1>3, WalkIs
  <2> QED BY <1>1, <2>1 DEF Order, Walk, Lists
<1>5. Chain(<<>>, MaxIndex, Links)
  <2>1. <<>> \in Seq(Slots) /\ Len(<<>>) = 0  OBVIOUS
  <2>2. \A i \in 0..0 : Goes(<<>>, MaxIndex, Links, i) \notin Slots  BY SlotsIn DEF Goes
  <2> QED BY <2>1, <2>2 DEF Chain
<1>6. Order["stored"] = <<>>
  <2>1. WalkFrom(MaxIndex, Links) = <<>>  BY <1>5, WalkIs
  <2> QED BY <1>1, <2>1 DEF Order, Walk, Lists, Blank
<1>7. Chains  BY <1>1, <1>3, <1>4, <1>5, <1>6 DEF Chains, Lists, Blank
<1>8. Typed  BY <1>1, IdleIs, Constant DEF Typed
<1>9. \A t \in Threads : call[t] = Idle /\ call[t].pc = "idle" /\ call[t].name = "none"
  BY <1>1 DEF Idle
<1>10. Held = {} /\ Elems(Order["stored"]) = {}  BY <1>6, <1>9 DEF Held, Holding, Elems
<1>11. Apart  BY <1>1, <1>10 DEF Apart
<1>12. Calls  BY <1>9 DEF Calls, CallGood, Reading, Holding
<1>13. Hands = [t \in Threads |-> None]  BY <1>9 DEF Hands, Carried
<1>14. Pool!PoolInit
  BY <1>1, <1>3, <1>4, <1>6, <1>13, PoolIs DEF Pool!PoolInit, Hands
<1> QED BY <1>7, <1>8, <1>11, <1>12, <1>14 DEF FLInv

LEMMA StepGood ==
  ASSUME FirstBlockOnly, FLInv, [Next]_vars
  PROVE  FLInv' /\ [Pool!PoolStep]_(Pool!poolVars)
<1>1. ASSUME NEW t \in Threads, Step(t) PROVE FLInv' /\ [Pool!PoolStep]_(Pool!poolVars)
  <2>1. CASE Load(t)  BY <2>1, LoadQuiet
  <2>2. CASE Grow(t)  BY <2>2, GrowQuiet
  <2>3. CASE ReadNext(t)  BY <2>3, ReadNextQuiet
  <2>4. CASE Take(t)  BY <2>4, TakeOut, TakeInHand
  <2>5. CASE TakeFails(t)  BY <2>5, TakeFailsQuiet
  <2>6. CASE ReadTop(t)  BY <2>6, ReadTopQuiet
  <2>7. CASE Hook(t)  BY <2>7, HookQuiet
  <2>8. CASE Give(t)  BY <2>8, GivePuts
  <2>9. CASE GiveFails(t)  BY <2>9, GiveFailsQuiet
  <2> QED BY <1>1, <2>1, <2>2, <2>3, <2>4, <2>5, <2>6, <2>7, <2>8, <2>9 DEF Step
<1>2. ASSUME NEW t \in Threads, Push(t) \/ Pop(t) \/ NextId(t)
      PROVE  FLInv' /\ [Pool!PoolStep]_(Pool!poolVars)
  BY <1>2, EnterQuiet DEF Push, Pop, NextId
<1>3. ASSUME NEW t \in Threads, NEW x \in Elements, Release(t, x)
      PROVE  FLInv' /\ [Pool!PoolStep]_(Pool!poolVars)
  BY <1>3, ReleaseClaims
<1>4. CASE UNCHANGED vars
  <2>1. UNCHANGED <<mode, limit, head, next, blocks, out, call>>  BY <1>4 DEF vars
  <2>2. Links' = Links  BY <2>1, LinksStay
  <2>3. Order' = Order  BY <2>1, <2>2 DEF Order, Walk
  <2>4. Held' = Held /\ Hands' = Hands  BY <2>1 DEF Held, Hands, Carried
  <2>5. Typed' /\ Chains' /\ Apart' /\ Calls'
    BY <2>1, <2>2, <2>3, <2>4 DEF FLInv, Typed, Chains, Apart, Calls
  <2> QED BY <2>1, <2>3, <2>4, <2>5, MapsStutter DEF FLInv
<1> QED BY <1>1, <1>2, <1>3, <1>4 DEF Next

(* What iFreeList keeps to: its two lists end and hold each element once, an     *)
(* element is in one place, and a compare-and-set that finds the word it has     *)
(* read finds the list it has read.                                              *)
THEOREM FreeListInvariant ==
  ASSUME FirstBlockOnly PROVE Spec => []FLInv
<1>1. Init => FLInv  BY InitGood
<1>2. FLInv /\ [Next]_vars => FLInv'  BY StepGood
<1> QED BY <1>1, <1>2, PTL DEF Spec

(* next(), release(), push() and pop() do what the pool promises, each at one     *)
(* of its compare-and-sets, whatever other threads do in between.                 *)
THEOREM FreeListImplementsPool ==
  ASSUME FirstBlockOnly PROVE Spec => BehavesAsPool
<1>1. Init => Pool!PoolInit  BY InitGood
<1>2. FLInv /\ [Next]_vars => [Pool!PoolStep]_(Pool!poolVars)  BY StepGood
<1> QED BY <1>1, <1>2, FreeListInvariant, PTL DEF Spec, BehavesAsPool, Pool!PoolSpec

(* No element is handed out twice: it is spare, saved once, in one thread's hand  *)
(* or out.                                                                        *)
THEOREM FreeListOnePlace ==
  ASSUME FirstBlockOnly PROVE Spec => []Pool!OnePlace
<1>1. FLInv => Pool!OnePlace
  <2> SUFFICES ASSUME FLInv PROVE Pool!OnePlace  OBVIOUS
  <2>1. /\ Elems(Order["empty"]) = {Walk("empty")[i] : i \in DOMAIN Walk("empty")}
        /\ Order["stored"] = Walk("stored") /\ "stored" \in Lists /\ "empty" \in Lists
    BY PoolIs DEF Lists
  <2>2. Pool!SavedSlots = Elems(Order["stored"])  BY <2>1 DEF Pool!SavedSlots, Elems
  <2>3. \A i, j \in DOMAIN Order["stored"] : Order["stored"][i] = Order["stored"][j] => i = j
    BY <2>1 DEF FLInv, Chains, Chain
  <2>4. \A t \in Threads : IF t \in Held THEN Carried(t) = call[t].at ELSE Carried(t) = None
    BY DEF Held, Holding, Carried
  <2>5. \A t, u \in Threads : Carried(t) = Carried(u) /\ Carried(t) # None => t = u
    BY <2>4 DEF FLInv, Apart
  <2>6. \A l \in Lists : Elems(Order[l]) \subseteq Slots
    BY DEF FLInv, Chains, Chain, Elems
  <2>7. None \notin out /\ \A l \in Lists : None \notin Elems(Order[l])
    BY <2>6, SlotsIn DEF FLInv, Typed
  <2>8. \A t \in Threads : /\ Carried(t) \notin out
                           /\ \A l \in Lists : Carried(t) \notin Elems(Order[l])
    BY <2>4, <2>7 DEF FLInv, Apart
  <2>9. /\ Elems(Order["empty"]) \cap out = {} /\ Elems(Order["stored"]) \cap out = {}
        /\ Elems(Order["empty"]) \cap Elems(Order["stored"]) = {}
    BY <2>1 DEF FLInv, Apart
  <2> QED BY <2>1, <2>2, <2>3, <2>5, <2>8, <2>9 DEF Pool!OnePlace
<1> QED BY <1>1, FreeListInvariant, PTL

------------------------------------------------------------------------------
(* The pool by itself, whatever keeps to it.                                   *)
VARIABLES spare, saved, hand, given
AnyPool == INSTANCE SlotPool WITH out <- given

PoolTypeOK ==
    /\ spare \in SUBSET Slots /\ given \in SUBSET Slots
    /\ saved \in Seq(Slots)
    /\ hand \in [Threads -> Slots \cup {None}]

PoolInv == PoolTypeOK /\ AnyPool!OnePlace

(* What a value put on top does to the stack of saved slots ... *)
LEMMA SavedPush ==
    ASSUME NEW s \in Slots, saved \in Seq(Slots), saved' = <<s>> \o saved
    PROVE  /\ saved' \in Seq(Slots)
           /\ AnyPool!SavedSlots' = AnyPool!SavedSlots \cup {s}
           /\ s \notin AnyPool!SavedSlots /\ (\A i, j \in DOMAIN saved : saved[i] = saved[j] => i = j)
              => \A i, j \in DOMAIN saved' : saved'[i] = saved'[j] => i = j
<1>1. saved' \in Seq(Slots) /\ Len(saved') = Len(saved) + 1  OBVIOUS
<1>2. saved'[1] = s /\ \A i \in DOMAIN saved : saved'[i+1] = saved[i]  OBVIOUS
<1>3. \A i \in DOMAIN saved' : i = 1 \/ i - 1 \in DOMAIN saved  BY <1>1
<1>4. \A i \in DOMAIN saved : i + 1 \in DOMAIN saved'  BY <1>1
<1>5. 1 \in DOMAIN saved'  BY <1>1
<1>6. \A i \in DOMAIN saved' : i # 1 => saved'[i] = saved[i-1]
  BY <1>1, <1>2, <1>3
<1>7. AnyPool!SavedSlots' = AnyPool!SavedSlots \cup {s}
  <2>1. ASSUME NEW x \in AnyPool!SavedSlots' PROVE x \in AnyPool!SavedSlots \cup {s}
    <3>1. PICK i \in DOMAIN saved' : x = saved'[i]  BY <2>1 DEF AnyPool!SavedSlots
    <3> QED BY <1>2, <1>3, <1>6, <3>1 DEF AnyPool!SavedSlots
  <2>2. ASSUME NEW x \in AnyPool!SavedSlots \cup {s} PROVE x \in AnyPool!SavedSlots'
    <3>1. CASE x = s  BY <1>2, <1>5, <3>1 DEF AnyPool!SavedSlots
    <3>2. CASE x # s
      <4>1. PICK i \in DOMAIN saved : x = saved[i]  BY <2>2, <3>2 DEF AnyPool!SavedSlots
      <4> QED BY <1>2, <1>4, <4>1 DEF AnyPool!SavedSlots
    <3> QED BY <3>1, <3>2
  <2> QED BY <2>1, <2>2
<1>8. ASSUME s \notin AnyPool!SavedSlots,
             \A i, j \in DOMAIN saved : saved[i] = saved[j] => i = j,
             NEW i \in DOMAIN saved', NEW j \in DOMAIN saved', saved'[i] = saved'[j]
      PROVE  i = j
  <2>1. i \in Int /\ j \in Int  BY <1>1
  <2>2. i # 1 => i - 1 \in DOMAIN saved /\ saved'[i] \in AnyPool!SavedSlots
    BY <1>3, <1>6 DEF AnyPool!SavedSlots
  <2>3. j # 1 => j - 1 \in DOMAIN saved /\ saved'[j] \in AnyPool!SavedSlots
    BY <1>3, <1>6 DEF AnyPool!SavedSlots
  <2>4. CASE i = 1 \/ j = 1  BY <1>2, <1>8, <2>2, <2>3, <2>4
  <2>5. CASE i # 1 /\ j # 1
    <3>1. saved[i-1] = saved[j-1]  BY <1>6, <1>8, <2>5
    <3>2. i - 1 = j - 1  BY <1>8, <2>2, <2>3, <2>5, <3>1
    <3> QED BY <2>1, <3>2
  <2> QED BY <2>4, <2>5
<1> QED BY <1>1, <1>7, <1>8

(* ... and what taking the top one does. *)
LEMMA SavedPop ==
    ASSUME saved \in Seq(Slots), saved # <<>>, saved' = Tail(saved)
    PROVE  /\ saved' \in Seq(Slots) /\ Head(saved) \in Slots
           /\ AnyPool!SavedSlots = AnyPool!SavedSlots' \cup {Head(saved)}
           /\ (\A i, j \in DOMAIN saved : saved[i] = saved[j] => i = j)
              => /\ Head(saved) \notin AnyPool!SavedSlots'
                 /\ \A i, j \in DOMAIN saved' : saved'[i] = saved'[j] => i = j
<1>1. saved' \in Seq(Slots) /\ Head(saved) \in Slots /\ Len(saved) = Len(saved') + 1
  OBVIOUS
<1>2. Head(saved) = saved[1] /\ 1 \in DOMAIN saved  BY <1>1
<1>3. \A i \in DOMAIN saved' : i \in Nat /\ i + 1 \in DOMAIN saved /\ saved'[i] = saved[i+1]
  BY <1>1
<1>4. \A i \in DOMAIN saved : i # 1 => i - 1 \in DOMAIN saved' /\ saved'[i-1] = saved[i]
  BY <1>1, <1>3
<1>5. AnyPool!SavedSlots = AnyPool!SavedSlots' \cup {Head(saved)}
  <2>1. ASSUME NEW x \in AnyPool!SavedSlots PROVE x \in AnyPool!SavedSlots' \cup {Head(saved)}
    <3>1. PICK i \in DOMAIN saved : x = saved[i]  BY <2>1 DEF AnyPool!SavedSlots
    <3> QED BY <1>2, <1>4, <3>1 DEF AnyPool!SavedSlots
  <2>2. ASSUME NEW x \in AnyPool!SavedSlots' \cup {Head(saved)} PROVE x \in AnyPool!SavedSlots
    <3>1. CASE x = Head(saved)  BY <1>2, <3>1 DEF AnyPool!SavedSlots
    <3>2. CASE x # Head(saved)
      <4>1. PICK i \in DOMAIN saved' : x = saved'[i]  BY <2>2, <3>2 DEF AnyPool!SavedSlots
      <4> QED BY <1>3, <4>1 DEF AnyPool!SavedSlots
    <3> QED BY <3>1, <3>2
  <2> QED BY <2>1, <2>2
<1>6. ASSUME \A i, j \in DOMAIN saved : saved[i] = saved[j] => i = j
      PROVE  /\ Head(saved) \notin AnyPool!SavedSlots'
             /\ \A i, j \in DOMAIN saved' : saved'[i] = saved'[j] => i = j
  <2>1. ASSUME NEW i \in DOMAIN saved' PROVE saved'[i] # Head(saved)
    <3>1. saved'[i] = saved[i+1] /\ i + 1 \in DOMAIN saved /\ i + 1 # 1  BY <1>1, <1>3
    <3> QED BY <1>2, <1>6, <3>1
  <2>2. ASSUME NEW i \in DOMAIN saved', NEW j \in DOMAIN saved', saved'[i] = saved'[j]
        PROVE  i = j
    <3>1. saved[i+1] = saved[j+1]  BY <1>3, <2>2
    <3>2. i + 1 = j + 1  BY <1>3, <1>6, <3>1
    <3> QED BY <1>3, <3>2
  <2> QED BY <2>1, <2>2 DEF AnyPool!SavedSlots
<1> QED BY <1>1, <1>5, <1>6

LEMMA InitPoolInv ==
    ASSUME AnyPool!PoolInit
    PROVE  PoolInv
  BY SlotsIn
  DEF AnyPool!PoolInit, PoolInv, PoolTypeOK, AnyPool!OnePlace, AnyPool!SavedSlots

(* A thread's step moves the slot in its hand from one place to another. *)
LEMMA StepPoolInv ==
    ASSUME PoolInv, [AnyPool!PoolStep]_(AnyPool!poolVars)
    PROVE  PoolInv'
<1>9. None \notin Slots  BY SlotsIn
<1> USE <1>9 DEF PoolInv, PoolTypeOK
<1>0. AnyPool!SavedSlots \subseteq Slots  BY DEF AnyPool!SavedSlots
<1>1. ASSUME NEW t \in Threads, AnyPool!PoolSave(t) PROVE PoolInv'
  <2>1. hand[t] \in Slots /\ saved' = <<hand[t]>> \o saved
    BY <1>1 DEF AnyPool!PoolSave
  <2>2. hand[t] \notin AnyPool!SavedSlots  BY DEF AnyPool!OnePlace
  <2>3. /\ saved' \in Seq(Slots) /\ AnyPool!SavedSlots' = AnyPool!SavedSlots \cup {hand[t]}
        /\ \A i, j \in DOMAIN saved' : saved'[i] = saved'[j] => i = j
    BY <2>1, <2>2, SavedPush DEF AnyPool!OnePlace
  <2> QED BY <1>0, <1>1, <2>1, <2>3 DEF AnyPool!PoolSave, AnyPool!OnePlace
<1>2. ASSUME NEW t \in Threads, AnyPool!PoolTop(t) PROVE PoolInv'
  <2>1. /\ saved' \in Seq(Slots) /\ Head(saved) \in Slots
        /\ AnyPool!SavedSlots = AnyPool!SavedSlots' \cup {Head(saved)}
        /\ Head(saved) \notin AnyPool!SavedSlots'
        /\ \A i, j \in DOMAIN saved' : saved'[i] = saved'[j] => i = j
    BY <1>2, SavedPop DEF AnyPool!PoolTop, AnyPool!OnePlace
  <2> QED BY <1>0, <1>2, <2>1 DEF AnyPool!PoolTop, AnyPool!OnePlace
<1>3. ASSUME UNCHANGED saved PROVE AnyPool!SavedSlots' = AnyPool!SavedSlots
  BY <1>3 DEF AnyPool!SavedSlots
<1>4. ASSUME NEW t \in Threads, AnyPool!PoolSpare(t) PROVE PoolInv'
  BY <1>0, <1>3, <1>4 DEF AnyPool!PoolSpare, AnyPool!OnePlace
<1>5. ASSUME NEW t \in Threads, NEW s \in Slots, AnyPool!PoolClaim(t, s) PROVE PoolInv'
  BY <1>0, <1>3, <1>5 DEF AnyPool!PoolClaim, AnyPool!OnePlace
<1>6. ASSUME NEW t \in Threads, NEW s \in Slots, AnyPool!PoolFill(t, s) PROVE PoolInv'
  BY <1>0, <1>3, <1>6 DEF AnyPool!PoolFill, AnyPool!OnePlace
<1>7. ASSUME NEW s \in Slots, AnyPool!PoolNext(s) PROVE PoolInv'
  BY <1>0, <1>3, <1>7 DEF AnyPool!PoolNext, AnyPool!OnePlace
<1>8. CASE UNCHANGED AnyPool!poolVars
  BY <1>3, <1>8 DEF AnyPool!poolVars, AnyPool!OnePlace
<1> QED BY <1>1, <1>2, <1>4, <1>5, <1>6, <1>7, <1>8 DEF AnyPool!PoolStep

(* What the pool promises: no two threads get the same element of the free list, *)
(* and none gets one that is still stored or out.                               *)
THEOREM PoolOnePlace == AnyPool!PoolSpec => []AnyPool!OnePlace
<1>1. AnyPool!PoolInit => PoolInv  BY InitPoolInv
<1>2. PoolInv /\ [AnyPool!PoolStep]_(AnyPool!poolVars) => PoolInv'  BY StepPoolInv
<1>3. PoolInv => AnyPool!OnePlace  BY DEF PoolInv
<1> QED BY <1>1, <1>2, <1>3, PTL DEF AnyPool!PoolSpec
==============================================================================
