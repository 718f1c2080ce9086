-------------------------- MODULE UserMemoryProofs --------------------------
(***************************************************************************)
(* Proofs about modules Vm and SigFrame: for every number of pages and     *)
(* processes, every layout of the user pages and every argument of sbrk(); *)
(* and for every size of the stack, the page, siginfo_t and ucontext, and  *)
(* any values in the registers.                                            *)
(*                                                                         *)
(* PagesAccounted: all references to pages are one function from the       *)
(* places of page tables to pages (Owned); it is injective, and its range, *)
(* the free and the lost pages are a partition (Exact).  walk() and        *)
(* mappages() fill empty places with pages of the free list, mm_free() and *)
(* the loops of mm_remap() empty places.  That they miss none needs to be  *)
(* known of every loop in progress: what is mapped lies in the areas or in *)
(* the part of the present one that has been gone through (Within).        *)
(*                                                                         *)
(* AreasSound and RemapKeeps: the areas are always program, heap and stack *)
(* (Plain), and the new end of the heap is below the stack (RemapLayout).  *)
(*                                                                         *)
(* Frames: the frames on the user stack lie one below the other, and every *)
(* context, the running one and the saved ones alike, keeps its sp at or   *)
(* below the frame it runs on top of (FramesNest).  So neither a push nor  *)
(* a nested frame reaches a ucontext, and the restorer finds sp where      *)
(* do_signal() had put it.                                                 *)
(***************************************************************************)
EXTENDS Vm, SigFrame, FiniteSetTheorems, SequenceTheorems, TLAPS

-----------------------------------------------------------------------------
(* The free list *)

\* A set of naturals has a least element.
LEMMA MinLemma ==
    ASSUME NEW S, S \subseteq Nat, S # {}
    PROVE  Min(S) \in S /\ \A y \in S : Min(S) <= y
<1> DEFINE R == OpToRel(<, Nat)
<1>1. \A x, y \in Nat : x < y => <<x, y>> \in R
  BY DEF OpToRel
<1>2. IsWellFoundedOn(R, Nat)
  BY NatLessThanWellFounded
<1>3. \E x \in S : \A y \in S : ~ (<<y, x>> \in R)
  <2> HIDE DEF R
  <2> QED
    BY <1>2, WFMin
<1>4. \E x \in S : \A y \in S : ~ (y < x)
  <2> HIDE DEF R
  <2> QED
    BY <1>1, <1>3, Zenon
<1>5. \E x \in S : \A y \in S : x <= y
  BY <1>4, SMT
<1> QED
  BY <1>5 DEF Min

\* The pages of the free list below p.
Below(S, p) == {q \in S : q < p}

\* A finite set of pages has a k-th smallest element, for every k up to its size.
LEMMA RankLemma ==
    ASSUME NEW S, S \subseteq Nat, IsFiniteSet(S), NEW k \in 1 .. Cardinality(S)
    PROVE  \E p \in S : Cardinality(Below(S, p)) = k - 1
<1> DEFINE Good(i) == \E p \in S : Cardinality(Below(S, p)) = i - 1
           Bad == {i \in 1 .. Cardinality(S) : ~Good(i)}
<1>1. Cardinality(S) \in Nat
  BY FS_CardinalityType
<1>2. ASSUME NEW p PROVE IsFiniteSet(Below(S, p)) /\ Cardinality(Below(S, p)) \in Nat
  <2>1. Below(S, p) \in SUBSET S
    BY DEF Below
  <2> QED
    BY <2>1, FS_Subset, FS_CardinalityType
<1>3. SUFFICES Bad = {}
  OBVIOUS
<1>4. SUFFICES ASSUME Bad # {} PROVE FALSE
  OBVIOUS
<1>5. PICK i \in Bad : \A j \in Bad : i <= j
  <2>1. Bad \subseteq Nat
    BY <1>1
  <2> HIDE DEF Bad
  <2> QED
    BY <2>1, <1>4, MinLemma
<1>6. i \in 1 .. Cardinality(S) /\ ~Good(i) /\ i \in Nat
  BY <1>1, <1>5
<1>7. CASE i = 1
  <2>1. S # {}
    BY <1>1, <1>6, FS_EmptySet
  <2>2. PICK p \in S : \A y \in S : p <= y
    BY <2>1, MinLemma
  <2>3. Below(S, p) = {}
    <3>1. \A y \in S : ~(y < p)
      BY <2>2
    <3> QED
      BY <3>1 DEF Below
  <2>4. Cardinality(Below(S, p)) = 0
    BY <2>3, FS_EmptySet
  <2> QED
    BY <2>4, <1>6, <1>7
<1>8. CASE i > 1
  <2>1. i - 1 \in 1 .. Cardinality(S) /\ ~(i <= i - 1)
    BY <1>1, <1>6, <1>8
  <2>2. Good(i - 1)
    BY <2>1, <1>5
  <2>3. PICK p \in S : Cardinality(Below(S, p)) = i - 2
    BY <2>2, <1>6
  <2> DEFINE Up == {q \in S : q > p}
  <2>4. /\ p \notin Below(S, p) /\ IsFiniteSet(Below(S, p) \cup {p})
        /\ Cardinality(Below(S, p) \cup {p}) = i - 1
    <3>1. p \notin Below(S, p)
      BY DEF Below
    <3>2. Cardinality(Below(S, p) \cup {p}) = Cardinality(Below(S, p)) + 1
          /\ IsFiniteSet(Below(S, p) \cup {p})
      BY <3>1, <1>2, FS_AddElement
    <3> QED
      BY <3>1, <3>2, <2>3, <1>6
  <2>5. CASE Up = {}
    <3>1. \A q \in S : q < p \/ q = p
      <4>1. \A q \in S : q \in Nat /\ ~(q > p)
        BY <2>5
      <4> QED
        BY <4>1
    <3>2. S = Below(S, p) \cup {p}
      BY <3>1, Zenon DEF Below
    <3>3. Cardinality(S) = i - 1
      BY <3>2, <2>4
    <3> QED
      BY <3>3, <1>1, <1>6
  <2>6. CASE Up # {}
    <3>1. PICK u \in Up : \A y \in Up : u <= y
      <4>1. Up \subseteq Nat
        OBVIOUS
      <4> HIDE DEF Up
      <4> QED
        BY <4>1, <2>6, MinLemma
    <3>2. Below(S, u) = Below(S, p) \cup {p}
      <4>1. \A q \in S : q < u <=> q < p \/ q = p
        <5>1. u \in S /\ u \in Nat /\ p \in Nat /\ u > p
          BY <3>1
        <5>2. \A q \in S : q \in Nat /\ (q > p => u <= q)
          BY <3>1
        <5> QED
          BY <5>1, <5>2
      <4> QED
        BY <4>1, Zenon DEF Below
    <3> QED
      BY <3>1, <3>2, <2>4, <1>6
  <2> QED
    BY <2>5, <2>6
<1> QED
  BY <1>6, <1>7, <1>8

\* kallocpage() returns free pages, a different one every time, as long as there
\* are any.
LEMMA NthLemma ==
    ASSUME free \subseteq Page
    PROVE  /\ Cardinality(free) \in Nat
           /\ \A k \in 1 .. Cardinality(free) : Nth(k) \in free
           /\ \A k, l \in 1 .. Cardinality(free) : Nth(k) = Nth(l) => k = l
<1>1. Page \subseteq Nat /\ IsFiniteSet(Page)
  <2>1. NPAGE \in Int /\ 1 \in Int
    BY VmAssumption
  <2> QED
    BY <2>1, FS_Interval DEF Page
<1>2. free \subseteq Nat /\ IsFiniteSet(free) /\ Cardinality(free) \in Nat
  BY <1>1, FS_Subset, FS_CardinalityType
<1>3. ASSUME NEW k \in 1 .. Cardinality(free)
      PROVE  Nth(k) \in free /\ Cardinality(Below(free, Nth(k))) = k - 1
  <2>1. \E p \in free : Cardinality(Below(free, p)) = k - 1
    BY <1>2, RankLemma
  <2> QED
    BY <2>1 DEF Nth, Below
<1>4. ASSUME NEW k \in 1 .. Cardinality(free), NEW l \in 1 .. Cardinality(free),
             Nth(k) = Nth(l)
      PROVE  k = l
  BY <1>2, <1>3, <1>4
<1> QED
  BY <1>2, <1>3, <1>4

-----------------------------------------------------------------------------
(* Who refers to which page *)

\* The places that can refer to a page: the root, the tables and the leaf
\* entries of every address space.
Place == ({"root"} \X Mm \X {0}) \cup ({"tab"} \X Mm \X Table)
            \cup ({"pte"} \X Mm \X Va)

Owned == [y \in Place |-> IF y[1] = "root" THEN root[y[2]]
                          ELSE IF y[1] = "tab" THEN tab[y[2]][y[3]]
                          ELSE pte[y[2]][y[3]]]

\* Every page is free, lost or referred to from exactly one place.
Exact(h, f, l) ==
    /\ \A y, z \in Place : h[y] # NoPage /\ h[y] = h[z] => y = z
    /\ \A y \in Place : h[y] \notin f /\ h[y] \notin l
    /\ f \cap l = {}
    /\ \A p \in Page : p \in f \/ p \in l \/ \E y \in Place : h[y] = p

\* Free pages, each given to an unused place of its own.
LEMMA TakeLemma ==
    ASSUME NEW h, NEW g, NEW f, NEW l, NEW X, X \subseteq Place,
           f \subseteq Page, Exact(h, f, l),
           \A y \in X : h[y] = NoPage /\ g[y] \in f,
           \A y, z \in X : g[y] = g[z] => y = z,
           \A y \in Place \ X : g[y] = h[y]
    PROVE  Exact(g, f \ {g[y] : y \in X}, l)
<1>1. \A y, z \in Place : g[y] # NoPage /\ g[y] = g[z] => y = z
  BY DEF Exact
<1>2. \A y \in Place : g[y] \notin f \ {g[z] : z \in X} /\ g[y] \notin l
  BY DEF Exact
<1>3. (f \ {g[y] : y \in X}) \cap l = {}
  BY DEF Exact
<1>4. ASSUME NEW p \in Page
      PROVE  \/ p \in f \ {g[y] : y \in X} \/ p \in l
             \/ \E y \in Place : g[y] = p
  <2>1. NoPage # p
    BY DEF Page, NoPage
  <2> QED
    BY <2>1 DEF Exact
<1> QED
  BY <1>1, <1>2, <1>3, <1>4 DEF Exact

\* Pages given back: nothing refers to them any more.
LEMMA GiveLemma ==
    ASSUME NEW h, NEW g, NEW f, NEW l, NEW X, X \subseteq Place,
           NoPage \notin f, Exact(h, f, l), NoPage \notin l,
           \A y \in X : g[y] = NoPage,
           \A y \in Place \ X : g[y] = h[y]
    PROVE  Exact(g, f \cup ({h[y] : y \in X} \ {NoPage}), l)
<1> DEFINE back == {h[y] : y \in X} \ {NoPage}
<1>1. \A y, z \in Place : g[y] # NoPage /\ g[y] = g[z] => y = z
  BY DEF Exact
<1>2. \A y \in Place : g[y] \notin f \cup back /\ g[y] \notin l
  BY DEF Exact
<1>3. (f \cup back) \cap l = {}
  BY DEF Exact
<1>4. ASSUME NEW p \in Page
      PROVE  p \in f \cup back \/ p \in l \/ \E y \in Place : g[y] = p
  <2>1. NoPage # p
    BY DEF Page, NoPage
  <2> QED
    BY <2>1 DEF Exact
<1> QED
  BY <1>1, <1>2, <1>3, <1>4 DEF Exact

\* The places, one kind after the other.
LEMMA PlaceLemma ==
    /\ \A m \in Mm : /\ <<"root", m, 0>> \in Place
                     /\ Owned[<<"root", m, 0>>] = root[m]
    /\ \A m \in Mm : \A k \in Table : /\ <<"tab", m, k>> \in Place
                                      /\ Owned[<<"tab", m, k>>] = tab[m][k]
    /\ \A m \in Mm : \A v \in Va : /\ <<"pte", m, v>> \in Place
                                   /\ Owned[<<"pte", m, v>>] = pte[m][v]
    /\ \A y \in Place :
          \/ \E m \in Mm : y = <<"root", m, 0>>
          \/ \E m \in Mm : \E k \in Table : y = <<"tab", m, k>>
          \/ \E m \in Mm : \E v \in Va : y = <<"pte", m, v>>
BY DEF Place, Owned

\* The same for the owners after a step.
LEMMA PlacePrimed ==
    /\ \A m \in Mm : Owned'[<<"root", m, 0>>] = root'[m]
    /\ \A m \in Mm : \A k \in Table : Owned'[<<"tab", m, k>>] = tab'[m][k]
    /\ \A m \in Mm : \A v \in Va : Owned'[<<"pte", m, v>>] = pte'[m][v]
BY DEF Place, Owned

\* Counting the references is what PagesAccounted does.
LEMMA ExactLemma ==
    ASSUME Exact(Owned, free, lost)
    PROVE  PagesAccounted
<1> SUFFICES ASSUME NEW p \in Page
             PROVE  Refs(p) + (IF p \in free THEN 1 ELSE 0)
                            + (IF p \in lost THEN 1 ELSE 0) = 1
  BY DEF PagesAccounted
<1> DEFINE R == {m \in Mm : root[m] = p}
           T == {x \in Mm \X Table : tab[x[1]][x[2]] = p}
           L == {x \in Mm \X Va : pte[x[1]][x[2]] = p}
<1>1. p # NoPage
  BY DEF Page, NoPage
<1>2. /\ \A m \in R : Owned[<<"root", m, 0>>] = p /\ <<"root", m, 0>> \in Place
      /\ \A x \in T : /\ Owned[<<"tab", x[1], x[2]>>] = p
                      /\ <<"tab", x[1], x[2]>> \in Place
      /\ \A x \in L : /\ Owned[<<"pte", x[1], x[2]>>] = p
                      /\ <<"pte", x[1], x[2]>> \in Place
  BY PlaceLemma
<1>3. \A y, z \in Place : Owned[y] = p /\ Owned[z] = p => y = z
  BY <1>1 DEF Exact
<1>4. Refs(p) = Cardinality(R) + Cardinality(T) + Cardinality(L)
  BY DEF Refs
<1>5. CASE p \in free \/ p \in lost
  <2>1. \A y \in Place : Owned[y] # p
    BY <1>5 DEF Exact
  <2>2. R = {} /\ T = {} /\ L = {}
    BY <2>1, <1>2
  <2>3. ~(p \in free /\ p \in lost)
    BY DEF Exact
  <2>4. Refs(p) = 0
    <3> HIDE DEF R, T, L
    <3>1. Cardinality({}) = 0
      BY FS_EmptySet
    <3> QED
      BY <2>2, <3>1, <1>4
  <2> QED
    BY <2>3, <2>4, <1>5
<1>6. CASE p \notin free /\ p \notin lost
  <2>1. PICK y \in Place : Owned[y] = p
    BY <1>6 DEF Exact
  <2>2. CASE \E m \in Mm : y = <<"root", m, 0>>
    <3>1. PICK m \in Mm : y = <<"root", m, 0>>
      BY <2>2
    <3>2. R = {m}
      <4>1. m \in R
        BY <2>1, <3>1, PlaceLemma
      <4>2. \A n \in R : <<"root", n, 0>> = y
        BY <2>1, <1>2, <1>3
      <4> QED
        BY <4>1, <4>2, <3>1
    <3>3. T = {} /\ L = {}
      <4>1. \A x \in T : <<"tab", x[1], x[2]>> = y
        BY <2>1, <1>2, <1>3
      <4>2. \A x \in L : <<"pte", x[1], x[2]>> = y
        BY <2>1, <1>2, <1>3
      <4> QED
        BY <4>1, <4>2, <3>1
    <3>4. Refs(p) = 1
      <4> HIDE DEF R, T, L
      <4>1. Cardinality({}) = 0 /\ \A x : Cardinality({x}) = 1
        BY FS_EmptySet, FS_Singleton
      <4>2. Cardinality(R) + Cardinality(T) + Cardinality(L) = 1
        <5>1. \/ Cardinality(R) = 1 /\ Cardinality(T) = 0 /\ Cardinality(L) = 0
              \/ Cardinality(R) = 0 /\ Cardinality(T) = 1 /\ Cardinality(L) = 0
              \/ Cardinality(R) = 0 /\ Cardinality(T) = 0 /\ Cardinality(L) = 1
          BY <3>2, <3>3, <4>1, Zenon
        <5> QED
          BY <5>1
      <4> QED
        BY <4>2, <1>4
    <3> QED
      BY <3>4, <1>6
  <2>3. CASE \E m \in Mm : \E k \in Table : y = <<"tab", m, k>>
    <3>1. PICK m \in Mm, k \in Table : y = <<"tab", m, k>>
      BY <2>3
    <3>2. T = {<<m, k>>}
      <4>1. <<m, k>> \in T
        BY <2>1, <3>1, PlaceLemma
      <4>2. \A x \in T : <<"tab", x[1], x[2]>> = y
        BY <2>1, <1>2, <1>3
      <4>3. \A x \in T : x[1] = m /\ x[2] = k
        BY <4>2, <3>1
      <4>4. \A x \in Mm \X Table : x = <<x[1], x[2]>>
        OBVIOUS
      <4>5. \A x \in T : x = <<m, k>>
        BY <4>3, <4>4, Zenon
      <4> QED
        BY <4>1, <4>5, Zenon
    <3>3. R = {} /\ L = {}
      <4>1. \A n \in R : <<"root", n, 0>> = y
        BY <2>1, <1>2, <1>3
      <4>2. \A x \in L : <<"pte", x[1], x[2]>> = y
        BY <2>1, <1>2, <1>3
      <4> QED
        BY <4>1, <4>2, <3>1
    <3>4. Refs(p) = 1
      <4> HIDE DEF R, T, L
      <4>1. Cardinality({}) = 0 /\ \A x : Cardinality({x}) = 1
        BY FS_EmptySet, FS_Singleton
      <4>2. Cardinality(R) + Cardinality(T) + Cardinality(L) = 1
        <5>1. \/ Cardinality(R) = 1 /\ Cardinality(T) = 0 /\ Cardinality(L) = 0
              \/ Cardinality(R) = 0 /\ Cardinality(T) = 1 /\ Cardinality(L) = 0
              \/ Cardinality(R) = 0 /\ Cardinality(T) = 0 /\ Cardinality(L) = 1
          BY <3>2, <3>3, <4>1, Zenon
        <5> QED
          BY <5>1
      <4> QED
        BY <4>2, <1>4
    <3> QED
      BY <3>4, <1>6
  <2>4. CASE \E m \in Mm : \E v \in Va : y = <<"pte", m, v>>
    <3>1. PICK m \in Mm, v \in Va : y = <<"pte", m, v>>
      BY <2>4
    <3>2. L = {<<m, v>>}
      <4>1. <<m, v>> \in L
        BY <2>1, <3>1, PlaceLemma
      <4>2. \A x \in L : <<"pte", x[1], x[2]>> = y
        BY <2>1, <1>2, <1>3
      <4>3. \A x \in L : x[1] = m /\ x[2] = v
        BY <4>2, <3>1
      <4>4. \A x \in Mm \X Va : x = <<x[1], x[2]>>
        OBVIOUS
      <4>5. \A x \in L : x = <<m, v>>
        BY <4>3, <4>4, Zenon
      <4> QED
        BY <4>1, <4>5, Zenon
    <3>3. R = {} /\ T = {}
      <4>1. \A n \in R : <<"root", n, 0>> = y
        BY <2>1, <1>2, <1>3
      <4>2. \A x \in T : <<"tab", x[1], x[2]>> = y
        BY <2>1, <1>2, <1>3
      <4> QED
        BY <4>1, <4>2, <3>1
    <3>4. Refs(p) = 1
      <4> HIDE DEF R, T, L
      <4>1. Cardinality({}) = 0 /\ \A x : Cardinality({x}) = 1
        BY FS_EmptySet, FS_Singleton
      <4>2. Cardinality(R) + Cardinality(T) + Cardinality(L) = 1
        <5>1. \/ Cardinality(R) = 1 /\ Cardinality(T) = 0 /\ Cardinality(L) = 0
              \/ Cardinality(R) = 0 /\ Cardinality(T) = 1 /\ Cardinality(L) = 0
              \/ Cardinality(R) = 0 /\ Cardinality(T) = 0 /\ Cardinality(L) = 1
          BY <3>2, <3>3, <4>1, Zenon
        <5> QED
          BY <5>1
      <4> QED
        BY <4>2, <1>4
    <3> QED
      BY <3>4, <1>6
  <2> QED
    BY <2>2, <2>3, <2>4, PlaceLemma
<1> QED
  BY <1>5, <1>6

-----------------------------------------------------------------------------
(* The inductive invariant for PagesAccounted *)

\* Areas lie below TRAPFRAME.
UserArea == [s : 0 .. VaTop - 2, e : 0 .. VaTop - 2]
BoundedAreas == /\ vmas \in [Mm -> Seq(UserArea)]
                /\ todo \in [Task -> Seq(UserArea)]

\* An address space that is not in use has nothing.
UnusedEmpty == \A m \in Mm : root[m] = NoPage =>
    tab[m] = NoTables /\ pte[m] = NoPtes /\ vmas[m] = <<>>

\* Nobody shares the address space it has or the one it builds.
OwnSpaces ==
    /\ \A t \in Task : new[t] # NoMm <=> pc[t] = "map"
    /\ \A t \in Task : cur[t] # NoMm => root[cur[t]] # NoPage
    /\ \A t \in Task : new[t] # NoMm => root[new[t]] # NoPage
    /\ \A t, u \in Task : cur[t] # NoMm /\ cur[t] = cur[u] => t = u
    /\ \A t, u \in Task : new[t] # NoMm /\ new[t] = new[u] => t = u
    /\ \A t, u \in Task : new[t] # NoMm => new[t] # cur[u]

\* The child of a fork() in progress has no memory, and one parent.
Children ==
    /\ \A t \in Task : pc[t] = "map" /\ child[t] # t => cur[child[t]] = NoMm
    /\ \A t, u \in Task :
          pc[t] = "map" /\ pc[u] = "map" /\ child[t] = child[u] => t = u

\* vma_brk exists.
HasHeap(areas) == \E i \in DOMAIN areas : areas[i].s = HeapStart
HeapThere(t) ==
    /\ cur[t] # NoMm => HasHeap(vmas[cur[t]])
    /\ new[t] # NoMm => HasHeap(vmas[new[t]]) \/ HasHeap(todo[t])

\* What is mapped lies in an area, or is what mm_remap() has mapped so far ...
Mapped(m) == {v \in Va : pte[m][v] # NoPage}
InRemap(t) == pc[t] \in {"remap", "trim", "err"}
CurWithin(t) ==
    /\ cur[t] # NoMm /\ ~InRemap(t) => Mapped(cur[t]) \subseteq Covered(vmas[cur[t]])
    /\ InRemap(t) =>
         /\ cur[t] # NoMm /\ PageUp(end[t]) <= VaTop - 2
         /\ HeapStart <= va[t] /\ (va[t] <= PageUp(end[t]) \/ va[t] = HeapStart)
         /\ Mapped(cur[t]) \subseteq Covered(vmas[cur[t]]) \cup (HeapStart .. va[t] - 1)

\* ... or what mm_mappages() has mapped so far.
NewWithin(t) == pc[t] = "map" =>
    /\ todo[t] = <<>> => Mapped(new[t]) \subseteq Covered(vmas[new[t]])
    /\ todo[t] # <<>> =>
         /\ Head(todo[t]).s <= va[t]
         /\ va[t] <= Head(todo[t]).e \/ va[t] = Head(todo[t]).s
         /\ Mapped(new[t]) \subseteq
               Covered(vmas[new[t]]) \cup (Head(todo[t]).s .. va[t] - 1)

Within(t) == HeapThere(t) /\ CurWithin(t) /\ NewWithin(t)

Maybe == Page \cup {NoPage}

\* The types of what the allocator and the page tables hold, and the others.
SpaceTypes ==
    /\ free \subseteq Page /\ lost \subseteq Page
    /\ root \in [Mm -> Maybe]
    /\ tab \in [Mm -> [Table -> Maybe]]
    /\ pte \in [Mm -> [Va -> Maybe]]
OperTypes ==
    /\ cur \in [Task -> Mm \cup {NoMm}] /\ brk \in [Task -> 0 .. Word - 1]
    /\ pc \in [Task -> PCs] /\ new \in [Task -> Mm \cup {NoMm}]
    /\ child \in [Task -> Task]
    /\ va \in [Task -> 0 .. VaTop - 2] /\ end \in [Task -> 0 .. Word - 1]

SpaceInv == /\ SpaceTypes /\ OperTypes /\ BoundedAreas
            /\ UnusedEmpty /\ OwnSpaces /\ Children
            /\ \A t \in Task : Within(t)
PageInv == SpaceInv /\ Exact(Owned, free, lost)

-----------------------------------------------------------------------------
(* walk(va, 1) *)

\* What the assumption on the constants says of the numbers.
LEMMA ConstantsLemma ==
    /\ NPAGE \in Nat /\ VaTop \in Nat /\ PGSIZE \in Nat /\ PGSIZE > 0
    /\ Word \in Nat /\ Word > 0
    /\ HeapStart \in Nat /\ HeapStart >= 1 /\ HeapStart <= VaTop - 2
    /\ HeapStart * PGSIZE \in 0 .. Word - 1
    /\ 0 \in Va /\ VaTop - 1 \in Va /\ 0 .. VaTop - 2 \subseteq Va
    /\ NoPage \notin Page /\ NoMm \notin Mm
<1>1. /\ NPAGE \in Nat /\ VaTop \in Nat /\ PGSIZE \in Nat /\ PGSIZE > 0
      /\ Word \in Nat /\ Stack.s \in Nat /\ Stack.e \in Nat
      /\ HeapStart \in Nat /\ HeapStart >= 1 /\ HeapStart <= VaTop - 2
  BY VmAssumption
<1>2. \A a, b, c \in Nat : a <= b => a * c <= b * c /\ a * c \in Nat
  OBVIOUS
<1>3. HeapStart * PGSIZE <= VaTop * PGSIZE /\ HeapStart * PGSIZE \in Nat
      /\ VaTop * PGSIZE \in Nat
  <2>1. HeapStart <= VaTop
    BY <1>1
  <2> QED
    BY <2>1, <1>1, <1>2
<1>4. Word > VaTop * PGSIZE
  BY VmAssumption
<1>5. HeapStart * PGSIZE \in 0 .. Word - 1 /\ Word > 0
  BY <1>1, <1>3, <1>4
<1> QED
  BY <1>1, <1>5 DEF Va, NoPage, Page, NoMm, Mm

\* The two tables of an address are different.
LEMMA PathLemma ==
    ASSUME NEW v \in Va
    PROVE  /\ Path(v)[1] \in Table /\ Path(v)[2] \in Table
           /\ Path(v)[1] # Path(v)[2] /\ Len(Path(v)) = 2
<1>1. Path(v)[1] \in Range(Path(v)) /\ Path(v)[2] \in Range(Path(v))
  BY DEF Path, Range
<1>2. Path(v)[1][1] = 2 /\ Path(v)[2][1] = 1
  BY DEF Path
<1> QED
  BY <1>1, <1>2 DEF Table, Path

\* The missing tables are listed once each, and are missing.
LEMMA MissingLemma ==
    ASSUME NEW m \in Mm, NEW v \in Va
    PROVE  /\ Len(Missing(m, v)) \in Nat
           /\ DOMAIN Missing(m, v) = 1 .. Len(Missing(m, v))
           /\ \A i \in DOMAIN Missing(m, v) :
                 /\ Missing(m, v)[i] \in Table
                 /\ tab[m][Missing(m, v)[i]] = NoPage
           /\ \A i, j \in DOMAIN Missing(m, v) :
                 Missing(m, v)[i] = Missing(m, v)[j] => i = j
<1> DEFINE a == Path(v)[1]
           b == Path(v)[2]
           s == Missing(m, v)
<1>1. a \in Table /\ b \in Table /\ a # b
  BY PathLemma
<1>2. s = (IF tab[m][a] = NoPage THEN <<a>> ELSE <<>>)
             \o (IF tab[m][b] = NoPage THEN <<b>> ELSE <<>>)
  BY DEF Missing
<1> HIDE DEF a, b, s
<1>3. CASE tab[m][a] = NoPage /\ tab[m][b] = NoPage
  <2>1. s = <<a>> \o <<b>>
    BY <1>2, <1>3, Zenon
  <2>2. Len(s) = 2 /\ DOMAIN s = 1 .. 2 /\ s[1] = a /\ s[2] = b
    BY <2>1
  <2>3. \A i \in 1 .. 2 : i = 1 \/ i = 2
    OBVIOUS
  <2> QED
    BY <2>2, <2>3, <1>1, <1>3 DEF s
<1>4. CASE tab[m][a] = NoPage /\ tab[m][b] # NoPage
  <2>1. s = <<a>>
    BY <1>2, <1>4
  <2>2. Len(s) = 1 /\ DOMAIN s = 1 .. 1 /\ s[1] = a
    BY <2>1
  <2>3. \A i \in 1 .. 1 : i = 1
    OBVIOUS
  <2> QED
    BY <2>2, <2>3, <1>1, <1>4 DEF s
<1>5. CASE tab[m][a] # NoPage /\ tab[m][b] = NoPage
  <2>1. s = <<b>>
    BY <1>2, <1>5
  <2>2. Len(s) = 1 /\ DOMAIN s = 1 .. 1 /\ s[1] = b
    BY <2>1
  <2>3. \A i \in 1 .. 1 : i = 1
    OBVIOUS
  <2> QED
    BY <2>2, <2>3, <1>1, <1>5 DEF s
<1>6. CASE tab[m][a] # NoPage /\ tab[m][b] # NoPage
  <2>1. s = <<>>
    BY <1>2, <1>6
  <2>2. Len(s) = 0 /\ DOMAIN s = 1 .. 0
    BY <2>1
  <2> QED
    BY <2>2 DEF s
<1> QED
  BY <1>3, <1>4, <1>5, <1>6

\* walk() keeps the tables that are there and gives free pages, all different,
\* to missing ones; when there are enough pages, the next one is different too.
LEMMA WalkedLemma ==
    ASSUME NEW m \in Mm, NEW v \in Va, free \subseteq Page
    PROVE  /\ \A k \in Table : Walked(m, v)[k] # tab[m][k] =>
                 tab[m][k] = NoPage /\ Walked(m, v)[k] \in free
           /\ \A k, l \in Table :
                 /\ Walked(m, v)[k] # tab[m][k] /\ Walked(m, v)[l] # tab[m][l]
                 /\ Walked(m, v)[k] = Walked(m, v)[l]
                 => k = l
           /\ Enough(m, v, 1) =>
                 /\ Nth(Len(Missing(m, v)) + 1) \in free
                 /\ \A k \in Table : Walked(m, v)[k] # tab[m][k] =>
                       Walked(m, v)[k] # Nth(Len(Missing(m, v)) + 1)
           /\ Walked(m, v) = [k \in Table |-> Walked(m, v)[k]]
<1> DEFINE need == Missing(m, v)
           n == Cardinality(free)
           got == {i \in DOMAIN need : i <= n}
           W == Walked(m, v)
<1>1. n \in Nat /\ Len(need) \in Nat /\ DOMAIN need = 1 .. Len(need)
  BY NthLemma, MissingLemma
<1>2. /\ \A i \in got : need[i] \in Table /\ tab[m][need[i]] = NoPage
                        /\ i \in 1 .. n /\ i <= Len(need)
      /\ \A i, j \in got : need[i] = need[j] => i = j
  BY <1>1, MissingLemma
<1>3. W = [k \in Table |-> IF \E i \in got : need[i] = k
                           THEN Nth(CHOOSE i \in got : need[i] = k) ELSE tab[m][k]]
  BY DEF Walked
<1> HIDE DEF W, got, need, n
<1>4. ASSUME NEW k \in Table, W[k] # tab[m][k]
      PROVE  \E i \in got : need[i] = k /\ W[k] = Nth(i)
  BY <1>3, <1>4
<1>5. \A i \in got : Nth(i) \in free
  BY <1>2, NthLemma DEF n
<1>6. \A i, j \in got : Nth(i) = Nth(j) => i = j
  BY <1>2, NthLemma DEF n
<1>7. ASSUME Enough(m, v, 1)
      PROVE  /\ Nth(Len(need) + 1) \in free
             /\ \A i \in got : Nth(i) # Nth(Len(need) + 1)
  <2>1. Len(need) + 1 <= n
    BY <1>7 DEF Enough, n, need
  <2>2. Len(need) + 1 \in 1 .. n /\ \A i \in got : i # Len(need) + 1
    BY <2>1, <1>1, <1>2
  <2> QED
    BY <2>2, <1>2, NthLemma DEF n
<1>8. \A k \in Table : W[k] # tab[m][k] => tab[m][k] = NoPage /\ W[k] \in free
  BY <1>2, <1>4, <1>5
<1>9. \A k, l \in Table : W[k] # tab[m][k] /\ W[l] # tab[m][l] /\ W[k] = W[l] => k = l
  BY <1>4, <1>6
<1>10. W = [k \in Table |-> W[k]]
  BY <1>3
<1>11. Enough(m, v, 1) => /\ Nth(Len(need) + 1) \in free
                          /\ \A k \in Table : W[k] # tab[m][k] => W[k] # Nth(Len(need) + 1)
  BY <1>4, <1>7
<1> QED
  BY <1>8, <1>9, <1>10, <1>11 DEF W, need

-----------------------------------------------------------------------------
(* What the operations do to the owners of pages *)

\* walk() fails for want of a page: some tables are new.
LEMMA WalkExact ==
    ASSUME SpaceTypes, Exact(Owned, free, lost), NEW m \in Mm, NEW v \in Va,
           tab' = [tab EXCEPT ![m] = Walked(m, v)],
           free' = free \ TablePages(Walked(m, v)),
           UNCHANGED <<lost, root, pte>>
    PROVE  SpaceTypes' /\ Exact(Owned, free, lost)'
<1> DEFINE W == Walked(m, v)
           K == {k \in Table : W[k] # tab[m][k]}
           X == {<<"tab", m, k>> : k \in K}
<1>1. /\ \A k \in Table : W[k] # tab[m][k] => tab[m][k] = NoPage /\ W[k] \in free
      /\ \A k, l \in K : W[k] = W[l] => k = l
      /\ W = [k \in Table |-> W[k]]
  BY WalkedLemma DEF SpaceTypes
<1> HIDE DEF W
<1>2. tab'[m] = W /\ \A n \in Mm \ {m} : tab'[n] = tab[n]
  BY DEF SpaceTypes, W
<1>3. SpaceTypes'
  <2>1. W \in [Table -> Maybe]
    BY <1>1 DEF SpaceTypes, Maybe
  <2>2. tab' \in [Mm -> [Table -> Maybe]]
    BY <2>1 DEF SpaceTypes, W
  <2> QED
    BY <2>2 DEF SpaceTypes
<1>4. X \subseteq Place
  BY PlaceLemma
<1>5. \A y \in X : Owned[y] = NoPage /\ Owned'[y] \in free
  BY <1>1, <1>2, PlaceLemma, PlacePrimed
<1>6. \A k \in K : Owned'[<<"tab", m, k>>] = W[k]
  BY <1>2, PlacePrimed
<1>7. \A y, z \in X : Owned'[y] = Owned'[z] => y = z
  BY <1>1, <1>6
<1>8. \A y \in Place \ X : Owned'[y] = Owned[y]
  <2> TAKE y \in Place \ X
  <2>1. CASE \E n \in Mm : y = <<"root", n, 0>>
    BY <2>1, PlaceLemma, PlacePrimed
  <2>2. CASE \E n \in Mm : \E k \in Table : y = <<"tab", n, k>>
    <3>1. PICK n \in Mm, k \in Table : y = <<"tab", n, k>>
      BY <2>2
    <3>2. tab'[n][k] = tab[n][k]
      BY <3>1, <1>2
    <3> QED
      BY <3>1, <3>2, PlaceLemma, PlacePrimed
  <2>3. CASE \E n \in Mm : \E w \in Va : y = <<"pte", n, w>>
    BY <2>3, PlaceLemma, PlacePrimed
  <2> QED
    BY <2>1, <2>2, <2>3, PlaceLemma
<1>9. free' = free \ {Owned'[y] : y \in X}
  <2>1. \A k \in Table \ K : W[k] \notin free
    <3>1. \A k \in Table : tab[m][k] \notin free
      <4>1. \A y \in Place : Owned[y] \notin free
        BY DEF Exact
      <4> QED
        BY <4>1, PlaceLemma
    <3> QED
      BY <3>1
  <2>2. \A p \in free : p \in TablePages(W) <=> \E k \in K : p = W[k]
    BY <2>1, ConstantsLemma DEF TablePages, SpaceTypes
  <2>3. \A p \in free : p \in {Owned'[y] : y \in X} <=> \E k \in K : p = W[k]
    BY <1>6
  <2> QED
    BY <2>2, <2>3 DEF W
<1>10. Exact(Owned', free', lost)
  <2> DEFINE g == Owned'
  <2>1. free \subseteq Page
    BY DEF SpaceTypes
  <2>2. /\ X \subseteq Place /\ \A y \in Place \ X : g[y] = Owned[y]
        /\ \A y \in X : Owned[y] = NoPage /\ g[y] \in free
        /\ \A y, z \in X : g[y] = g[z] => y = z
        /\ free' = free \ {g[y] : y \in X}
    BY <1>4, <1>5, <1>7, <1>8, <1>9
  <2>3. Exact(g, free', lost)
    <3> HIDE DEF X, g
    <3>1. Exact(g, free \ {g[y] : y \in X}, lost)
      BY <2>1, <2>2, TakeLemma
    <3> QED
      BY <2>2, <3>1
  <2> QED
    BY <2>3
<1> QED
  BY <1>3, <1>10 DEF Exact

\* walk() succeeds and a page is mapped.
LEMMA MapExact ==
    ASSUME SpaceTypes, Exact(Owned, free, lost), NEW m \in Mm, NEW v \in Va,
           pte[m][v] = NoPage, Enough(m, v, 1),
           NEW page, page = Nth(Len(Missing(m, v)) + 1),
           tab' = [tab EXCEPT ![m] = Walked(m, v)],
           pte' = [pte EXCEPT ![m][v] = page],
           free' = free \ ({page} \cup TablePages(Walked(m, v))),
           UNCHANGED <<lost, root>>
    PROVE  SpaceTypes' /\ Exact(Owned, free, lost)'
<1> DEFINE W == Walked(m, v)
           K == {k \in Table : W[k] # tab[m][k]}
           X == {<<"tab", m, k>> : k \in K} \cup {<<"pte", m, v>>}
<1>1. /\ \A k \in Table : W[k] # tab[m][k] => tab[m][k] = NoPage /\ W[k] \in free
      /\ \A k, l \in K : W[k] = W[l] => k = l
      /\ page \in free /\ \A k \in K : W[k] # page
      /\ W = [k \in Table |-> W[k]]
  BY WalkedLemma DEF SpaceTypes
<1> HIDE DEF W
<1>2. /\ tab'[m] = W /\ \A n \in Mm \ {m} : tab'[n] = tab[n]
      /\ pte'[m][v] = page
      /\ \A n \in Mm, w \in Va : <<n, w>> # <<m, v>> => pte'[n][w] = pte[n][w]
  BY DEF SpaceTypes, W
<1>3. SpaceTypes'
  <2>1. W \in [Table -> Maybe]
    BY <1>1 DEF SpaceTypes, Maybe
  <2>2. tab' \in [Mm -> [Table -> Maybe]]
    BY <2>1 DEF SpaceTypes, W
  <2>3. pte' \in [Mm -> [Va -> Maybe]]
    BY <1>1 DEF SpaceTypes, Maybe
  <2> QED
    BY <2>2, <2>3 DEF SpaceTypes
<1>4. X \subseteq Place
  BY PlaceLemma
<1>5. /\ \A k \in K : Owned'[<<"tab", m, k>>] = W[k]
      /\ Owned'[<<"pte", m, v>>] = page
  BY <1>2, PlacePrimed
<1>6. \A y \in X : Owned[y] = NoPage /\ Owned'[y] \in free
  BY <1>1, <1>5, PlaceLemma, SMTT(30)
<1>7. \A y, z \in X : Owned'[y] = Owned'[z] => y = z
  BY <1>1, <1>5
<1>8. \A y \in Place \ X : Owned'[y] = Owned[y]
  <2> TAKE y \in Place \ X
  <2>1. CASE \E n \in Mm : y = <<"root", n, 0>>
    BY <2>1, PlaceLemma, PlacePrimed
  <2>2. CASE \E n \in Mm : \E k \in Table : y = <<"tab", n, k>>
    <3>1. PICK n \in Mm, k \in Table : y = <<"tab", n, k>>
      BY <2>2
    <3>2. tab'[n][k] = tab[n][k]
      BY <3>1, <1>2
    <3> QED
      BY <3>1, <3>2, PlaceLemma, PlacePrimed
  <2>3. CASE \E n \in Mm : \E w \in Va : y = <<"pte", n, w>>
    <3>1. PICK n \in Mm, w \in Va : y = <<"pte", n, w>>
      BY <2>3
    <3>2. pte'[n][w] = pte[n][w]
      BY <3>1, <1>2
    <3> QED
      BY <3>1, <3>2, PlaceLemma, PlacePrimed
  <2> QED
    BY <2>1, <2>2, <2>3, PlaceLemma
<1>9. free' = free \ {Owned'[y] : y \in X}
  <2>1. \A k \in Table \ K : W[k] \notin free
    <3>1. \A k \in Table : tab[m][k] \notin free
      <4>1. \A y \in Place : Owned[y] \notin free
        BY DEF Exact
      <4> QED
        BY <4>1, PlaceLemma
    <3> QED
      BY <3>1
  <2>2. \A p \in free : p \in {page} \cup TablePages(W)
                           <=> p = page \/ \E k \in K : p = W[k]
    BY <2>1, ConstantsLemma DEF TablePages, SpaceTypes
  <2>3. \A p \in free : p \in {Owned'[y] : y \in X}
                           <=> p = page \/ \E k \in K : p = W[k]
    BY <1>5
  <2> QED
    BY <2>2, <2>3 DEF W
<1>10. Exact(Owned', free', lost)
  <2> DEFINE g == Owned'
  <2>1. free \subseteq Page
    BY DEF SpaceTypes
  <2>2. /\ X \subseteq Place /\ \A y \in Place \ X : g[y] = Owned[y]
        /\ \A y \in X : Owned[y] = NoPage /\ g[y] \in free
        /\ \A y, z \in X : g[y] = g[z] => y = z
        /\ free' = free \ {g[y] : y \in X}
    BY <1>4, <1>6, <1>7, <1>8, <1>9
  <2>3. Exact(g, free', lost)
    <3> HIDE DEF X, g
    <3>1. Exact(g, free \ {g[y] : y \in X}, lost)
      BY <2>1, <2>2, TakeLemma
    <3> QED
      BY <2>2, <3>1
  <2> QED
    BY <2>3
<1> QED
  BY <1>3, <1>10 DEF Exact

\* mm_free() gives back everything, if what is mapped lies in an area or in H.
LEMMA DropExact ==
    ASSUME SpaceTypes, Exact(Owned, free, lost), NEW m \in Mm, NEW H,
           root[m] # NoPage, Mapped(m) \subseteq Covered(vmas[m]) \cup H,
           free' = free \cup MmPages(m) \cup Frames(m, H), Drop(m), lost' = lost
    PROVE  SpaceTypes' /\ Exact(Owned, free, lost)'
<1> DEFINE X == {<<"root", m, 0>>} \cup {<<"tab", m, k>> : k \in Table}
                   \cup {<<"pte", m, v>> : v \in Va}
           g == Owned'
<1>1. /\ root'[m] = NoPage /\ \A n \in Mm \ {m} : root'[n] = root[n]
      /\ \A k \in Table : tab'[m][k] = NoPage
      /\ \A n \in Mm \ {m} : tab'[n] = tab[n]
      /\ \A v \in Va : pte'[m][v] = NoPage
      /\ \A n \in Mm \ {m} : pte'[n] = pte[n]
  BY DEF Drop, SpaceTypes, NoTables, NoPtes
<1>2. X \subseteq Place
  BY PlaceLemma
<1>3. \A y \in X : g[y] = NoPage
  BY <1>1, PlacePrimed
<1>4. \A y \in Place \ X : g[y] = Owned[y]
  <2> TAKE y \in Place \ X
  <2>1. CASE \E n \in Mm : y = <<"root", n, 0>>
    <3>1. PICK n \in Mm : y = <<"root", n, 0>>
      BY <2>1
    <3> QED
      BY <3>1, <1>1, PlaceLemma, PlacePrimed
  <2>2. CASE \E n \in Mm : \E k \in Table : y = <<"tab", n, k>>
    <3>1. PICK n \in Mm, k \in Table : y = <<"tab", n, k>>
      BY <2>2
    <3>2. n # m
      BY <3>1
    <3> QED
      BY <3>1, <3>2, <1>1, PlaceLemma, PlacePrimed
  <2>3. CASE \E n \in Mm : \E w \in Va : y = <<"pte", n, w>>
    <3>1. PICK n \in Mm, w \in Va : y = <<"pte", n, w>>
      BY <2>3
    <3>2. n # m
      BY <3>1
    <3> QED
      BY <3>1, <3>2, <1>1, PlaceLemma, PlacePrimed
  <2> QED
    BY <2>1, <2>2, <2>3, PlaceLemma
<1>5. free' = free \cup ({Owned[y] : y \in X} \ {NoPage})
  <2> DEFINE Back(p) == p # NoPage /\ \/ p = root[m]
                                      \/ \E k \in Table : p = tab[m][k]
                                      \/ \E v \in Va : p = pte[m][v]
  <2>1. ASSUME NEW p PROVE p \in MmPages(m) \cup Frames(m, H) <=> Back(p)
    <3>1. \A v \in Va : pte[m][v] # NoPage => v \in Covered(vmas[m]) \/ v \in H
      BY DEF Mapped
    <3>2. p \in Frames(m, Covered(vmas[m])) \cup Frames(m, H)
            <=> p # NoPage /\ \E v \in Va : p = pte[m][v]
      BY <3>1 DEF Frames
    <3>3. p \in TablePages(tab[m]) <=> p # NoPage /\ \E k \in Table : p = tab[m][k]
      BY DEF TablePages
    <3> QED
      BY <3>2, <3>3 DEF MmPages
  <2>2. ASSUME NEW p PROVE p \in {Owned[y] : y \in X} \ {NoPage} <=> Back(p)
    <3>1. /\ Owned[<<"root", m, 0>>] = root[m]
          /\ \A k \in Table : Owned[<<"tab", m, k>>] = tab[m][k]
          /\ \A v \in Va : Owned[<<"pte", m, v>>] = pte[m][v]
      BY PlaceLemma
    <3> QED
      BY <3>1, ZenonT(40)
  <2> HIDE DEF Back, X
  <2>3. MmPages(m) \cup Frames(m, H) = {Owned[y] : y \in X} \ {NoPage}
    BY <2>1, <2>2
  <2> QED
    BY <2>3
<1>6. Exact(g, free', lost)
  <2>1. NoPage \notin free /\ NoPage \notin lost
    BY ConstantsLemma DEF SpaceTypes
  <2> HIDE DEF X, g
  <2>2. Exact(g, free \cup ({Owned[y] : y \in X} \ {NoPage}), lost)
    BY <2>1, <1>2, <1>3, <1>4, GiveLemma
  <2> QED
    BY <2>2, <1>5
<1>7. SpaceTypes'
  <2>1. root' \in [Mm -> Maybe] /\ tab' \in [Mm -> [Table -> Maybe]]
        /\ pte' \in [Mm -> [Va -> Maybe]]
    BY DEF Drop, SpaceTypes, NoTables, NoPtes, Maybe
  <2>2. \A y \in Place : Owned[y] \in Maybe
    BY PlaceLemma DEF SpaceTypes
  <2>3. free' \subseteq Page
    BY <2>2, <1>2, <1>5 DEF SpaceTypes, Maybe
  <2> QED
    BY <2>1, <2>3 DEF SpaceTypes
<1> QED
  BY <1>6, <1>7 DEF Exact

\* Some leaf entries are cleared and their pages given back.
LEMMA UnmapExact ==
    ASSUME SpaceTypes, Exact(Owned, free, lost), NEW t, NEW S, cur[t] \in Mm,
           Unmap(t, S), UNCHANGED <<lost, root, tab>>
    PROVE  SpaceTypes' /\ Exact(Owned, free, lost)'
<1> DEFINE m == cur[t]
           X == {<<"pte", m, v>> : v \in S \cap Va}
           g == Owned'
<1>1. /\ \A v \in S \cap Va : pte'[m][v] = NoPage
      /\ \A v \in Va \ S : pte'[m][v] = pte[m][v]
      /\ \A n \in Mm \ {m} : pte'[n] = pte[n]
  BY DEF Unmap, SpaceTypes
<1>2. free' = free \cup Frames(m, S) /\ m \in Mm
  BY DEF Unmap
<1>3. pte' \in [Mm -> [Va -> Maybe]]
  BY DEF Unmap, SpaceTypes, Maybe
<1> HIDE DEF m
<1>4. X \subseteq Place
  BY <1>2, PlaceLemma
<1>5. \A y \in X : g[y] = NoPage
  BY <1>1, <1>2, PlacePrimed
<1>6. \A y \in Place \ X : g[y] = Owned[y]
  <2> TAKE y \in Place \ X
  <2>1. CASE \E n \in Mm : y = <<"root", n, 0>>
    BY <2>1, PlaceLemma, PlacePrimed
  <2>2. CASE \E n \in Mm : \E k \in Table : y = <<"tab", n, k>>
    BY <2>2, PlaceLemma, PlacePrimed
  <2>3. CASE \E n \in Mm : \E w \in Va : y = <<"pte", n, w>>
    <3>1. PICK n \in Mm, w \in Va : y = <<"pte", n, w>>
      BY <2>3
    <3>2. pte'[n][w] = pte[n][w]
      BY <3>1, <1>1
    <3> QED
      BY <3>1, <3>2, PlaceLemma, PlacePrimed
  <2> QED
    BY <2>1, <2>2, <2>3, PlaceLemma
<1>7. free' = free \cup ({Owned[y] : y \in X} \ {NoPage})
  <2>1. \A v \in S \cap Va : Owned[<<"pte", m, v>>] = pte[m][v]
    BY <1>2, PlaceLemma
  <2>2. {Owned[y] : y \in X} = {pte[m][v] : v \in S \cap Va}
    BY <2>1
  <2> QED
    BY <2>2, <1>2 DEF Frames
<1>8. Exact(g, free', lost)
  <2>1. NoPage \notin free /\ NoPage \notin lost
    BY ConstantsLemma DEF SpaceTypes
  <2> HIDE DEF X, g
  <2>2. Exact(g, free \cup ({Owned[y] : y \in X} \ {NoPage}), lost)
    BY <2>1, <1>4, <1>5, <1>6, GiveLemma
  <2> QED
    BY <2>2, <1>7
<1>9. SpaceTypes'
  <2>1. free' \subseteq Page
    BY <1>2 DEF SpaceTypes, Frames, Maybe
  <2> QED
    BY <2>1, <1>3 DEF SpaceTypes
<1> QED
  BY <1>8, <1>9 DEF Exact

\* mm_create() for task t succeeds with the unused address space m.
Created(t, c, areas, m) ==
    /\ root[m] = NoPage /\ root'[m] # NoPage
    /\ \A n \in Mm \ {m} : root'[n] = root[n] /\ tab'[n] = tab[n]
    /\ pc' = [pc EXCEPT ![t] = "map"]
    /\ new' = [new EXCEPT ![t] = m] /\ child' = [child EXCEPT ![t] = c]
    /\ todo' = [todo EXCEPT ![t] = areas]
    /\ va' = [va EXCEPT ![t] = Head(areas).s]
    /\ UNCHANGED <<pte, vmas, end, panicked>>

\* It succeeds, or only the free and the lost pages change.
LEMMA CreateExact ==
    ASSUME SpaceTypes, UnusedEmpty, Exact(Owned, free, lost),
           NEW t, NEW c, NEW areas, Create(t, c, areas)
    PROVE  /\ SpaceTypes' /\ Exact(Owned, free, lost)'
           /\ \/ /\ UNCHANGED <<root, tab, pte, vmas, pc, oper>>
                 /\ panicked' = TRUE \/ panicked' = panicked
              \/ \E m \in Mm : Created(t, c, areas, m)
<1> DEFINE m == Min({i \in Mm : root[i] = NoPage})
           top == VaTop - 1
           have == Cardinality(free)
           a == Path(top)[1]
           b == Path(top)[2]
           X == {<<"root", m, 0>>, <<"tab", m, a>>, <<"tab", m, b>>}
           g == Owned'
<1>1. m \in Mm /\ root[m] = NoPage
  <2>1. {i \in Mm : root[i] = NoPage} # {}
    BY DEF Create
  <2>2. {i \in Mm : root[i] = NoPage} \subseteq Nat
    BY VmAssumption DEF Mm
  <2>3. m \in {i \in Mm : root[i] = NoPage}
    BY <2>1, <2>2, MinLemma
  <2> QED
    BY <2>3
<1>2. /\ have \in Nat /\ \A k \in 1 .. have : Nth(k) \in free
      /\ \A k, l \in 1 .. have : Nth(k) = Nth(l) => k = l
  BY NthLemma DEF SpaceTypes
<1>3. a \in Table /\ b \in Table /\ a # b /\ Len(Path(top)) = 2
  <2>1. top \in Va
    BY ConstantsLemma
  <2> HIDE DEF top
  <2> QED
    BY <2>1, PathLemma
<1>4. CASE have = 0
  <2>1. panicked' = TRUE /\ UNCHANGED <<space, pc, oper>>
    BY <1>4 DEF Create
  <2>2. Owned' = Owned
    BY <2>1 DEF Owned, space
  <2> QED
    BY <2>1, <2>2 DEF SpaceTypes, Exact, space
<1>5. CASE have \in 1 .. 2
  <2> DEFINE gone == {Nth(i) : i \in 2 .. have}
  <2>1. /\ free' = free \ gone /\ lost' = lost \cup gone
        /\ UNCHANGED <<root, tab, pte, vmas, pc, oper, panicked>>
    BY <1>3, <1>5 DEF Create
  <2>2. gone \subseteq free
    BY <1>2
  <2> HIDE DEF gone
  <2>3. g = Owned
    BY <2>1 DEF Owned
  <2>4. SpaceTypes'
    BY <2>1, <2>2 DEF SpaceTypes
  <2>5. Exact(Owned, free', lost')
    BY <2>1, <2>2 DEF Exact
  <2> QED
    BY <2>1, <2>3, <2>4, <2>5 DEF Exact
<1>6. CASE have > 2
  <2>1. /\ free' = free \ {Nth(i) : i \in 1 .. Len(Path(top)) + 1}
        /\ root' = [root EXCEPT ![m] = Nth(1)]
        /\ tab' = [tab EXCEPT ![m] = [k \in Table |->
              IF k = a THEN Nth(2) ELSE IF k = b THEN Nth(3) ELSE NoPage]]
        /\ pc' = [pc EXCEPT ![t] = "map"]
        /\ new' = [new EXCEPT ![t] = m] /\ child' = [child EXCEPT ![t] = c]
        /\ todo' = [todo EXCEPT ![t] = areas]
        /\ va' = [va EXCEPT ![t] = Head(areas).s]
        /\ UNCHANGED <<lost, pte, vmas, end, panicked>>
    <3>1. ~(have = 0) /\ ~(have \in 1 .. Len(Path(top)))
      <4>1. have \in Nat /\ have > 2 /\ Len(Path(top)) = 2
        BY <1>2, <1>3, <1>6
      <4> HIDE DEF have, top
      <4> QED
        BY <4>1
    <3> QED
      BY <3>1 DEF Create
  <2>2. /\ Nth(1) \in free /\ Nth(2) \in free /\ Nth(3) \in free
        /\ Nth(1) # Nth(2) /\ Nth(1) # Nth(3) /\ Nth(2) # Nth(3)
    BY <1>2, <1>6
  <2>3. free' = free \ {Nth(1), Nth(2), Nth(3)}
    <3>1. \A i : i \in 1 .. 2 + 1 <=> i = 1 \/ i = 2 \/ i = 3
      OBVIOUS
    <3>2. {Nth(i) : i \in 1 .. Len(Path(top)) + 1} = {Nth(1), Nth(2), Nth(3)}
      BY <3>1, <1>3
    <3> QED
      BY <3>2, <2>1
  <2> HIDE DEF m, a, b
  <2>4. /\ root'[m] = Nth(1) /\ tab'[m][a] = Nth(2) /\ tab'[m][b] = Nth(3)
        /\ \A k \in Table \ {a, b} : tab'[m][k] = NoPage
        /\ \A n \in Mm \ {m} : root'[n] = root[n] /\ tab'[n] = tab[n]
        /\ tab[m] = NoTables
    BY <1>1, <1>3, <2>1 DEF SpaceTypes, UnusedEmpty
  <2>5. SpaceTypes'
    <3>1. root' \in [Mm -> Maybe]
      BY <2>1, <2>2 DEF SpaceTypes, Maybe
    <3>2. tab' \in [Mm -> [Table -> Maybe]]
      BY <2>1, <2>2 DEF SpaceTypes, Maybe
    <3> QED
      BY <3>1, <3>2, <2>1, <2>3 DEF SpaceTypes
  <2>6. X \subseteq Place
    BY <1>1, <1>3, PlaceLemma
  <2>7. /\ Owned[<<"root", m, 0>>] = NoPage /\ g[<<"root", m, 0>>] = Nth(1)
        /\ Owned[<<"tab", m, a>>] = NoPage /\ g[<<"tab", m, a>>] = Nth(2)
        /\ Owned[<<"tab", m, b>>] = NoPage /\ g[<<"tab", m, b>>] = Nth(3)
    BY <1>1, <1>3, <2>4, PlaceLemma, PlacePrimed DEF NoTables
  <2>8. \A y \in Place \ X : g[y] = Owned[y]
    <3> TAKE y \in Place \ X
    <3>1. CASE \E n \in Mm : y = <<"root", n, 0>>
      <4>1. PICK n \in Mm : y = <<"root", n, 0>>
        BY <3>1
      <4> QED
        BY <4>1, <2>4, PlaceLemma, PlacePrimed
    <3>2. CASE \E n \in Mm : \E k \in Table : y = <<"tab", n, k>>
      <4>1. PICK n \in Mm, k \in Table : y = <<"tab", n, k>>
        BY <3>2
      <4>2. tab'[n][k] = tab[n][k]
        <5>1. n # m \/ (n = m /\ k # a /\ k # b)
          BY <4>1
        <5> QED
          BY <5>1, <2>4 DEF NoTables
      <4> QED
        BY <4>1, <4>2, PlaceLemma, PlacePrimed
    <3>3. CASE \E n \in Mm : \E w \in Va : y = <<"pte", n, w>>
      BY <3>3, <2>1, PlaceLemma, PlacePrimed
    <3> QED
      BY <3>1, <3>2, <3>3, PlaceLemma
  <2>9. Exact(g, free', lost)
    <3>1. \A y \in X : Owned[y] = NoPage /\ g[y] \in free
      BY <2>2, <2>7
    <3>2. \A y, z \in X : g[y] = g[z] => y = z
      BY <2>2, <2>7
    <3>3. free' = free \ {g[y] : y \in X} /\ free \subseteq Page
      BY <2>3, <2>7 DEF SpaceTypes
    <3> HIDE DEF X, g
    <3>4. Exact(g, free \ {g[y] : y \in X}, lost)
      BY <3>1, <3>2, <3>3, <2>6, <2>8, TakeLemma
    <3> QED
      BY <3>3, <3>4
  <2>10. Created(t, c, areas, m)
    <3>1. root'[m] # NoPage
      BY <2>2, <2>4, ConstantsLemma DEF SpaceTypes
    <3> QED
      BY <3>1, <1>1, <2>1, <2>4 DEF Created
  <2> QED
    BY <1>1, <2>1, <2>5, <2>9, <2>10 DEF Exact
<1>7. have = 0 \/ have \in 1 .. 2 \/ have > 2
  <2>1. have \in Nat
    BY <1>2
  <2> HIDE DEF have
  <2> QED
    BY <2>1
<1> QED
  BY <1>4, <1>5, <1>6, <1>7

-----------------------------------------------------------------------------
(* Every action keeps the invariant *)

\* A task whose own state and whose address spaces do not change.
Untouched(u) ==
    /\ cur'[u] = cur[u] /\ pc'[u] = pc[u] /\ new'[u] = new[u]
    /\ todo'[u] = todo[u] /\ va'[u] = va[u] /\ end'[u] = end[u]
    /\ cur[u] # NoMm => pte'[cur[u]] = pte[cur[u]] /\ vmas'[cur[u]] = vmas[cur[u]]
    /\ new[u] # NoMm => pte'[new[u]] = pte[new[u]] /\ vmas'[new[u]] = vmas[new[u]]

\* What is mapped for such a task stays within its areas.
LEMMA UntouchedLemma ==
    ASSUME NEW u \in Task, OwnSpaces, Within(u), Untouched(u)
    PROVE  Within(u)'
<1>1. HeapThere(u)'
  BY DEF Within, HeapThere, Untouched
<1>2. CurWithin(u)'
  <2>1. InRemap(u)' = InRemap(u) /\ (InRemap(u) => cur[u] # NoMm)
    BY DEF Within, CurWithin, InRemap, Untouched
  <2>2. cur[u] # NoMm => /\ (Mapped(cur[u]))' = Mapped(cur[u])
                         /\ (Covered(vmas[cur[u]]))' = Covered(vmas[cur[u]])
    BY DEF Mapped, Untouched
  <2>3. (PageUp(end[u]))' = PageUp(end[u])
    BY DEF PageUp, Untouched
  <2> QED
    BY <2>1, <2>2, <2>3 DEF Within, CurWithin, Untouched
<1>3. NewWithin(u)'
  <2>1. pc[u] = "map" => new[u] # NoMm
    BY DEF OwnSpaces
  <2>2. new[u] # NoMm => /\ (Mapped(new[u]))' = Mapped(new[u])
                         /\ (Covered(vmas[new[u]]))' = Covered(vmas[new[u]])
    BY DEF Mapped, Untouched
  <2> QED
    BY <2>1, <2>2 DEF Within, NewWithin, Untouched
<1> QED
  BY <1>1, <1>2, <1>3 DEF Within

\* mm_create(): the new address space is empty.
LEMMA CreatedStep ==
    ASSUME PageInv, NEW t \in Task, NEW c \in Task, NEW areas \in Seq(UserArea),
           HasHeap(areas), pc[t] = "user", c = t \/ cur[c] = NoMm,
           \A u \in Task : pc[u] = "map" => child[u] # c,
           Create(t, c, areas), UNCHANGED <<cur, brk>>
    PROVE  PageInv'
<1>1. /\ SpaceTypes' /\ Exact(Owned, free, lost)'
      /\ \/ /\ UNCHANGED <<root, tab, pte, vmas, pc, oper>>
            /\ panicked' = TRUE \/ panicked' = panicked
         \/ \E m \in Mm : Created(t, c, areas, m)
  BY CreateExact DEF PageInv, SpaceInv
<1>2. CASE UNCHANGED <<root, tab, pte, vmas, pc, oper>>
  <2>1. OperTypes' /\ BoundedAreas' /\ UnusedEmpty' /\ OwnSpaces' /\ Children'
    BY <1>2 DEF PageInv, SpaceInv, OperTypes, BoundedAreas, UnusedEmpty,
                OwnSpaces, Children, oper
  <2>2. \A u \in Task : Untouched(u)
    BY <1>2 DEF Untouched, oper
  <2>3. \A u \in Task : Within(u)'
    BY <2>2, UntouchedLemma DEF PageInv, SpaceInv
  <2> QED
    BY <1>1, <2>1, <2>3 DEF PageInv, SpaceInv
<1>3. CASE \E m \in Mm : Created(t, c, areas, m)
  <2>1. PICK m \in Mm : Created(t, c, areas, m)
    BY <1>3
  <2>2. areas # <<>> /\ Head(areas) \in UserArea
    BY DEF HasHeap
  <2>3. OperTypes' /\ BoundedAreas'
    <3>1. Head(areas).s \in 0 .. VaTop - 2
      BY <2>2 DEF UserArea
    <3> QED
      BY <2>1, <3>1 DEF PageInv, SpaceInv, OperTypes, BoundedAreas, Created, PCs
  <2>4. UnusedEmpty'
    BY <2>1 DEF PageInv, SpaceInv, UnusedEmpty, Created
  <2>5. \A u \in Task : cur[u] # m /\ new[u] # m
    BY <2>1 DEF PageInv, SpaceInv, OwnSpaces, Created, NoMm, Mm
  <2>6. new'[t] = m /\ pc'[t] = "map" /\ child'[t] = c /\ new[t] = NoMm
        /\ todo'[t] = areas /\ va'[t] = Head(areas).s
        /\ \A u \in Task \ {t} : /\ new'[u] = new[u] /\ pc'[u] = pc[u]
                                 /\ child'[u] = child[u] /\ todo'[u] = todo[u]
                                 /\ va'[u] = va[u]
    BY <2>1 DEF PageInv, SpaceInv, OperTypes, BoundedAreas, OwnSpaces, Created
  <2>7. \A n \in Mm : root[n] # NoPage => root'[n] # NoPage
    BY <2>1 DEF Created
  <2>8. m # NoMm /\ \A u \in Task : cur[u] \in Mm \cup {NoMm} /\ new[u] \in Mm \cup {NoMm}
    BY ConstantsLemma DEF PageInv, SpaceInv, OperTypes
  <2>9. OwnSpaces'
    BY <2>1, <2>5, <2>6, <2>7, <2>8 DEF PageInv, SpaceInv, OwnSpaces, Created
  <2>10. Children'
    BY <2>6 DEF PageInv, SpaceInv, Children
  <2>11. \A u \in Task \ {t} : Untouched(u)
    BY <2>1, <2>6 DEF Untouched, Created
  <2>12. \A u \in Task \ {t} : Within(u)'
    BY <2>11, UntouchedLemma DEF PageInv, SpaceInv
  <2>13. Within(t)'
    <3>1. pte'[m] = NoPtes /\ vmas' = vmas /\ pte' = pte
      BY <2>1 DEF PageInv, SpaceInv, UnusedEmpty, Created
    <3>2. HeapThere(t)'
      BY <2>6, <3>1 DEF PageInv, SpaceInv, Within, HeapThere
    <3>3. CurWithin(t)'
      <4>1. cur[t] # NoMm => Mapped(cur[t]) \subseteq Covered(vmas[cur[t]])
        BY DEF PageInv, SpaceInv, Within, CurWithin, InRemap
      <4> QED
        BY <4>1, <2>6, <3>1 DEF CurWithin, InRemap, Mapped
    <3>4. NewWithin(t)'
      <4>1. (Mapped(new[t]))' = {}
        BY <2>6, <3>1 DEF Mapped, NoPtes
      <4>2. Head(areas).s \in Int
        BY <2>2 DEF UserArea
      <4> QED
        BY <4>1, <4>2, <2>2, <2>6 DEF NewWithin
    <3> QED
      BY <3>2, <3>3, <3>4 DEF Within
  <2> QED
    BY <1>1, <2>3, <2>4, <2>9, <2>10, <2>12, <2>13 DEF PageInv, SpaceInv
<1> QED
  BY <1>1, <1>2, <1>3

\* load_user_elf() and mm_copy() begin, or mm_create() fails.
LEMMA ExecForkStep ==
    ASSUME PageInv, NEW t \in Task, Exec(t) \/ Fork(t)
    PROVE  PageInv'
<1>1. CASE Exec(t)
  <2> DEFINE areas == << [s |-> 0, e |-> HeapStart],
                         [s |-> HeapStart, e |-> HeapStart], Stack >>
  <2>1. areas \in Seq(UserArea)
    <3>1. Stack \in UserArea
      <4>1. Stack \in [s : Nat, e : Nat] /\ Stack.s <= VaTop - 2 /\ Stack.e <= VaTop - 2
            /\ VaTop \in Nat
        BY VmAssumption
      <4> QED
        BY <4>1 DEF UserArea
    <3>2. /\ [s |-> 0, e |-> HeapStart] \in UserArea
          /\ [s |-> HeapStart, e |-> HeapStart] \in UserArea
      BY ConstantsLemma DEF UserArea
    <3> QED
      BY <3>1, <3>2
  <2>2. HasHeap(areas)
    <3>1. 2 \in DOMAIN areas /\ areas[2].s = HeapStart
      OBVIOUS
    <3> QED
      BY <3>1 DEF HasHeap
  <2>3. \A u \in Task : pc[u] = "map" => child[u] # t
    BY <1>1 DEF Exec, Ready, PageInv, SpaceInv, Children
  <2>4. pc[t] = "user" /\ Create(t, t, areas) /\ UNCHANGED <<cur, brk>>
    BY <1>1 DEF Exec, Ready
  <2> HIDE DEF areas
  <2> QED
    BY <2>1, <2>2, <2>3, <2>4, CreatedStep
<1>2. CASE Fork(t)
  <2>1. PICK c \in Task :
          /\ Ready(t) /\ cur[t] # NoMm
          /\ cur[c] = NoMm /\ \A u \in Task : pc[u] = "map" => child[u] # c
          /\ Create(t, c, vmas[cur[t]])
          /\ UNCHANGED <<cur, brk>>
    BY <1>2 DEF Fork
  <2>2. vmas[cur[t]] \in Seq(UserArea) /\ HasHeap(vmas[cur[t]])
    BY <2>1 DEF PageInv, SpaceInv, OperTypes, BoundedAreas, Within, HeapThere
  <2> QED
    BY <2>1, <2>2, CreatedStep DEF Ready
<1> QED
  BY <1>1, <1>2

\* The address spaces of the others are not those of t.
LEMMA OthersLemma ==
    ASSUME PageInv, NEW t \in Task, NEW u \in Task, u # t
    PROVE  /\ cur[t] # NoMm => cur[u] # cur[t] /\ new[u] # cur[t]
           /\ new[t] # NoMm => cur[u] # new[t] /\ new[u] # new[t]
BY DEF PageInv, SpaceInv, OwnSpaces

\* Only the task t moves, and only in the address space m, which stays in use.
OnlyIn(t, m) ==
    /\ UNCHANGED <<root, cur>>
    /\ \A n \in Mm \ {m} : tab'[n] = tab[n] /\ pte'[n] = pte[n] /\ vmas'[n] = vmas[n]
    /\ \A u \in Task \ {t} : /\ pc'[u] = pc[u] /\ child'[u] = child[u]
                             /\ todo'[u] = todo[u] /\ va'[u] = va[u] /\ end'[u] = end[u]
    /\ \A u \in Task : new'[u] = new[u]
    /\ \/ pc'[t] = pc[t] /\ child'[t] = child[t]
       \/ pc[t] # "map" /\ pc'[t] # "map"
    /\ m # NoMm /\ m \in {cur[t], new[t]}

\* A step of t in one of its address spaces does not concern the others.
LEMMA OnlyInLemma ==
    ASSUME PageInv, NEW t \in Task, NEW m \in Mm, OnlyIn(t, m)
    PROVE  /\ UnusedEmpty' /\ OwnSpaces' /\ Children'
           /\ \A u \in Task \ {t} : Within(u)'
<1>1. UnusedEmpty'
  <2>1. root[m] # NoPage
    BY DEF OnlyIn, PageInv, SpaceInv, OwnSpaces
  <2> QED
    BY <2>1 DEF OnlyIn, PageInv, SpaceInv, UnusedEmpty
<1>2. OwnSpaces'
  <2>1. \A u \in Task : pc'[u] = "map" <=> pc[u] = "map"
    BY DEF OnlyIn
  <2> QED
    BY <2>1 DEF OnlyIn, PageInv, SpaceInv, OwnSpaces
<1>3. Children'
  <2>1. \A u \in Task : pc'[u] = "map" <=> pc[u] = "map"
    BY DEF OnlyIn
  <2> QED
    BY <2>1 DEF OnlyIn, PageInv, SpaceInv, Children
<1>4. ASSUME NEW u \in Task \ {t} PROVE Within(u)'
  <2>1. cur[u] # m /\ new[u] # m
    BY OthersLemma DEF OnlyIn
  <2>2. cur[u] \in Mm \cup {NoMm} /\ new[u] \in Mm \cup {NoMm}
    BY DEF PageInv, SpaceInv, OperTypes
  <2>3. Untouched(u)
    BY <2>1, <2>2 DEF OnlyIn, Untouched
  <2> QED
    BY <2>3, UntouchedLemma DEF PageInv, SpaceInv
<1> QED
  BY <1>1, <1>2, <1>3, <1>4

\* Head and tail of the areas that are still to be mapped.
LEMMA TodoLemma ==
    ASSUME NEW s \in Seq(UserArea), s # <<>>
    PROVE  /\ Head(s) \in UserArea /\ Tail(s) \in Seq(UserArea)
           /\ Head(s).s \in 0 .. VaTop - 2 /\ Head(s).e \in 0 .. VaTop - 2
           /\ Head(s) = s[1]
           /\ \A i \in DOMAIN s : i # 1 => i - 1 \in DOMAIN Tail(s) /\ Tail(s)[i - 1] = s[i]
           /\ HasHeap(s) => Head(s).s = HeapStart \/ HasHeap(Tail(s))
<1>1. Head(s) \in UserArea /\ Tail(s) \in Seq(UserArea) /\ Head(s) = s[1]
  OBVIOUS
<1>2. \A i \in DOMAIN s : i # 1 => i - 1 \in DOMAIN Tail(s) /\ Tail(s)[i - 1] = s[i]
  BY HeadTailProperties
<1>3. HasHeap(s) => Head(s).s = HeapStart \/ HasHeap(Tail(s))
  BY <1>1, <1>2, Zenon DEF HasHeap
<1> QED
  BY <1>1, <1>2, <1>3 DEF UserArea

\* mm_mappages() maps one page.
LEMMA MapPageStep ==
    ASSUME PageInv, NEW t \in Task, MapPage(t)
    PROVE  PageInv'
<1> DEFINE m == new[t]
           v == va[t]
           a == Head(todo[t])
           page == Nth(Len(Missing(m, v)) + 1)
<1>1. /\ pc[t] = "map" /\ todo[t] # <<>> /\ v < a.e
      /\ pte[m][v] = NoPage /\ Enough(m, v, 1)
      /\ tab' = [tab EXCEPT ![m] = Walked(m, v)]
      /\ pte' = [pte EXCEPT ![m][v] = page]
      /\ free' = free \ ({page} \cup TablePages(Walked(m, v)))
      /\ va' = [va EXCEPT ![t] = v + 1]
      /\ UNCHANGED <<lost, root, vmas, cur, brk, pc, new, child, todo, end, panicked>>
  BY DEF MapPage, Mapping
<1>2. m \in Mm /\ m # NoMm /\ v \in Va /\ v \in 0 .. VaTop - 2
  <2>1. m # NoMm
    BY <1>1 DEF PageInv, SpaceInv, OwnSpaces
  <2>2. m \in Mm \cup {NoMm} /\ v \in 0 .. VaTop - 2
    BY DEF PageInv, SpaceInv, OperTypes
  <2> QED
    BY <2>1, <2>2, ConstantsLemma
<1>3. a \in UserArea /\ a.e \in 0 .. VaTop - 2 /\ a.s \in 0 .. VaTop - 2
  BY <1>1, TodoLemma DEF PageInv, SpaceInv, BoundedAreas
<1>4. SpaceTypes' /\ Exact(Owned, free, lost)'
  <2> HIDE DEF m, v, page
  <2>1. page = Nth(Len(Missing(m, v)) + 1)
    BY DEF page
  <2> QED
    BY <1>1, <1>2, <2>1, MapExact DEF PageInv, SpaceInv
<1>5. OperTypes' /\ BoundedAreas'
  <2>1. v + 1 \in 0 .. VaTop - 2
    <3>1. v < a.e /\ VaTop \in Nat
      BY <1>1, ConstantsLemma
    <3> HIDE DEF v, a
    <3> QED
      BY <1>2, <1>3, <3>1
  <2> QED
    BY <1>1, <2>1 DEF PageInv, SpaceInv, OperTypes, BoundedAreas
<1>6. OnlyIn(t, m)
  BY <1>1, <1>2 DEF OnlyIn, PageInv, SpaceInv, SpaceTypes, OperTypes
<1>7. /\ UnusedEmpty' /\ OwnSpaces' /\ Children'
      /\ \A u \in Task \ {t} : Within(u)'
  BY <1>1, <1>2, <1>6, OnlyInLemma
<1>8. Within(t)'
  <2>1. cur[t] # m
    BY <1>2 DEF PageInv, SpaceInv, OwnSpaces
  <2>2. HeapThere(t)'
    BY <1>1 DEF PageInv, SpaceInv, Within, HeapThere
  <2>3. CurWithin(t)'
    <3>1. ~InRemap(t) /\ ~InRemap(t)'
      BY <1>1 DEF InRemap
    <3>2. cur[t] # NoMm => pte'[cur[t]] = pte[cur[t]]
      BY <1>6, <2>1 DEF OnlyIn, PageInv, SpaceInv, OperTypes
    <3>3. cur[t] # NoMm => Mapped(cur[t]) \subseteq Covered(vmas[cur[t]])
      BY <3>1 DEF PageInv, SpaceInv, Within, CurWithin
    <3> QED
      BY <1>1, <3>1, <3>2, <3>3 DEF CurWithin, Mapped
  <2>4. NewWithin(t)'
    <3>1. /\ a.s <= v /\ (v <= a.e \/ v = a.s)
          /\ Mapped(m) \subseteq Covered(vmas[m]) \cup (a.s .. v - 1)
      BY <1>1 DEF PageInv, SpaceInv, Within, NewWithin
    <3>2. \A w \in Va : pte'[m][w] # NoPage => pte[m][w] # NoPage \/ w = v
      BY <1>1, <1>2 DEF PageInv, SpaceInv, SpaceTypes
    <3>3. \A w : w \in a.s .. v - 1 \/ w = v => w \in a.s .. ((v + 1) - 1)
      BY <1>2, <1>3, <3>1
    <3>4. (Mapped(m))' \subseteq Covered(vmas[m]) \cup (a.s .. ((v + 1) - 1))
      BY <1>1, <3>1, <3>2, <3>3 DEF Mapped
    <3>5. a.s <= v + 1 /\ v + 1 <= a.e
      BY <1>1, <1>2, <1>3, <3>1
    <3>6. va'[t] = v + 1 /\ todo'[t] = todo[t] /\ new'[t] = m /\ vmas' = vmas
      BY <1>1 DEF PageInv, SpaceInv, OperTypes
    <3> QED
      BY <1>1, <3>4, <3>5, <3>6 DEF NewWithin
  <2> QED
    BY <2>2, <2>3, <2>4 DEF Within
<1> QED
  BY <1>4, <1>5, <1>7, <1>8 DEF PageInv, SpaceInv

\* What adding an area to the list covers.
LEMMA CoveredLemma ==
    ASSUME NEW a \in UserArea, NEW s \in Seq(UserArea)
    PROVE  /\ <<a>> \o s \in Seq(UserArea)
           /\ Covered(s) \subseteq Covered(<<a>> \o s)
           /\ Pages(a) \subseteq Covered(<<a>> \o s)
           /\ HasHeap(s) \/ a.s = HeapStart => HasHeap(<<a>> \o s)
<1> DEFINE r == <<a>> \o s
<1>1. /\ r \in Seq(UserArea) /\ Len(r) = Len(s) + 1 /\ r[1] = a
      /\ \A i \in 1 .. Len(s) : r[i + 1] = s[i]
  OBVIOUS
<1>2. 1 \in DOMAIN r /\ \A i \in DOMAIN s : i + 1 \in DOMAIN r /\ r[i + 1] = s[i]
  BY <1>1
<1> HIDE DEF r
<1>3. a \in Range(r) /\ \A b \in Range(s) : b \in Range(r)
  BY <1>1, <1>2 DEF Range
<1>4. Covered(s) \subseteq Covered(r) /\ Pages(a) \subseteq Covered(r)
  BY <1>3 DEF Covered
<1>5. HasHeap(s) \/ a.s = HeapStart => HasHeap(r)
  BY <1>1, <1>2 DEF HasHeap
<1> QED
  BY <1>1, <1>4, <1>5 DEF r

\* mm_mappages() adds the area to the list.
LEMMA MapAreaStep ==
    ASSUME PageInv, NEW t \in Task, MapArea(t)
    PROVE  PageInv'
<1> DEFINE m == new[t]
           v == va[t]
           a == Head(todo[t])
           rest == Tail(todo[t])
           w == IF rest = <<>> THEN 0 ELSE Head(rest).s
<1>1. /\ pc[t] = "map" /\ todo[t] # <<>> /\ v >= a.e
      /\ vmas' = [vmas EXCEPT ![m] = <<a>> \o @]
      /\ todo' = [todo EXCEPT ![t] = rest]
      /\ va' = [va EXCEPT ![t] = w]
      /\ UNCHANGED <<free, lost, root, tab, pte, cur, brk, pc, new, child, end>>
  BY DEF MapArea, Mapping
<1>2. m \in Mm /\ m # NoMm /\ v \in 0 .. VaTop - 2
  <2>1. m # NoMm
    BY <1>1 DEF PageInv, SpaceInv, OwnSpaces
  <2>2. m \in Mm \cup {NoMm} /\ v \in 0 .. VaTop - 2
    BY DEF PageInv, SpaceInv, OperTypes
  <2> QED
    BY <2>1, <2>2
<1>3. /\ a \in UserArea /\ a.e \in 0 .. VaTop - 2 /\ a.s \in 0 .. VaTop - 2
      /\ rest \in Seq(UserArea) /\ todo[t] \in Seq(UserArea) /\ vmas[m] \in Seq(UserArea)
  BY <1>1, <1>2, TodoLemma DEF PageInv, SpaceInv, BoundedAreas
<1>4. w \in 0 .. VaTop - 2 /\ (rest # <<>> => w = Head(rest).s /\ Head(rest) \in UserArea)
  <2> HIDE DEF rest
  <2> QED
    BY <1>3, TodoLemma, ConstantsLemma
<1> HIDE DEF w, rest
<1>5. /\ vmas'[m] = <<a>> \o vmas[m] /\ \A n \in Mm \ {m} : vmas'[n] = vmas[n]
      /\ todo'[t] = rest /\ \A u \in Task \ {t} : todo'[u] = todo[u]
      /\ va'[t] = w /\ \A u \in Task \ {t} : va'[u] = va[u]
  BY <1>1, <1>2 DEF PageInv, SpaceInv, BoundedAreas, OperTypes
<1>6. SpaceTypes' /\ Exact(Owned, free, lost)'
  <2>1. Owned' = Owned
    BY <1>1 DEF Owned
  <2> QED
    BY <1>1, <2>1 DEF PageInv, SpaceInv, SpaceTypes, Exact
<1>7. OperTypes'
  BY <1>1, <1>4 DEF PageInv, SpaceInv, OperTypes
<1>8. BoundedAreas'
  <2>1. <<a>> \o vmas[m] \in Seq(UserArea)
    BY <1>3, CoveredLemma
  <2> HIDE DEF a, m
  <2> QED
    BY <1>1, <1>3, <2>1 DEF PageInv, SpaceInv, BoundedAreas
<1>9. OnlyIn(t, m)
  BY <1>1, <1>2, <1>5 DEF OnlyIn
<1>10. /\ UnusedEmpty' /\ OwnSpaces' /\ Children'
       /\ \A u \in Task \ {t} : Within(u)'
  BY <1>1, <1>2, <1>9, OnlyInLemma
<1>11. Within(t)'
  <2>1. cur[t] # m
    BY <1>2 DEF PageInv, SpaceInv, OwnSpaces
  <2>2. cur[t] # NoMm => vmas'[cur[t]] = vmas[cur[t]]
    BY <1>5, <2>1 DEF PageInv, SpaceInv, OperTypes
  <2>3. HeapThere(t)'
    <3>1. cur[t] # NoMm => HasHeap(vmas[cur[t]])
      BY DEF PageInv, SpaceInv, Within, HeapThere
    <3>2. HasHeap(vmas[m]) \/ HasHeap(todo[t])
      BY <1>2 DEF PageInv, SpaceInv, Within, HeapThere
    <3>3. HasHeap(todo[t]) => a.s = HeapStart \/ HasHeap(rest)
      BY <1>1, <1>3, TodoLemma DEF rest
    <3>4. HasHeap(vmas[m]) \/ a.s = HeapStart => HasHeap(<<a>> \o vmas[m])
      BY <1>3, CoveredLemma
    <3>5. HasHeap(vmas'[m]) \/ HasHeap(todo'[t])
      BY <3>2, <3>3, <3>4, <1>5
    <3> QED
      BY <3>1, <3>5, <2>2, <1>1 DEF HeapThere
  <2>4. CurWithin(t)'
    <3>1. ~InRemap(t) /\ ~InRemap(t)'
      BY <1>1 DEF InRemap
    <3>2. cur[t] # NoMm => Mapped(cur[t]) \subseteq Covered(vmas[cur[t]])
      BY <3>1 DEF PageInv, SpaceInv, Within, CurWithin
    <3> QED
      BY <1>1, <2>2, <3>1, <3>2 DEF CurWithin, Mapped
  <2>5. NewWithin(t)'
    <3>1. /\ a.s <= v /\ (v <= a.e \/ v = a.s)
          /\ Mapped(m) \subseteq Covered(vmas[m]) \cup (a.s .. v - 1)
      BY <1>1 DEF PageInv, SpaceInv, Within, NewWithin
    <3>2. a.s .. v - 1 \subseteq Pages(a)
      <4>1. v \in Int /\ a.s \in Int /\ a.e \in Int /\ v >= a.e
        BY <1>1, <1>2, <1>3
      <4> HIDE DEF v, a
      <4> QED
        BY <4>1, <3>1 DEF Pages
    <3>3. Mapped(m) \subseteq Covered(<<a>> \o vmas[m])
      BY <3>1, <3>2, <1>3, CoveredLemma
    <3>4. (Mapped(new[t]))' \subseteq Covered(vmas'[m])
      BY <3>3, <1>1, <1>5 DEF Mapped
    <3>5. rest # <<>> => w = Head(rest).s /\ w \in Int
      BY <1>4
    <3> QED
      BY <3>4, <3>5, <1>1, <1>5 DEF NewWithin
  <2> QED
    BY <2>3, <2>4, <2>5 DEF Within
<1> QED
  BY <1>6, <1>7, <1>8, <1>10, <1>11 DEF PageInv, SpaceInv

\* mm_free(m) of an address space that nobody but t has: what is left of the
\* invariant, before cur and new change.
LEMMA DropStep ==
    ASSUME PageInv, NEW m \in Mm, Drop(m)
    PROVE  /\ UnusedEmpty' /\ vmas' \in [Mm -> Seq(UserArea)]
           /\ \A n \in Mm \ {m} : /\ root'[n] = root[n] /\ pte'[n] = pte[n]
                                  /\ vmas'[n] = vmas[n]
<1>1. /\ \A n \in Mm \ {m} : /\ root'[n] = root[n] /\ pte'[n] = pte[n]
                             /\ tab'[n] = tab[n] /\ vmas'[n] = vmas[n]
      /\ root'[m] = NoPage /\ tab'[m] = NoTables /\ pte'[m] = NoPtes /\ vmas'[m] = <<>>
  BY DEF Drop, PageInv, SpaceInv, SpaceTypes, BoundedAreas
<1>2. UnusedEmpty'
  BY <1>1 DEF PageInv, SpaceInv, UnusedEmpty
<1>3. <<>> \in Seq(UserArea)
  OBVIOUS
<1>4. vmas' \in [Mm -> Seq(UserArea)]
  BY <1>3 DEF Drop, PageInv, SpaceInv, BoundedAreas
<1> QED
  BY <1>1, <1>2, <1>4

\* The operation of t is over.
LEMMA FinishLemma ==
    ASSUME PageInv, NEW t \in Task, Finish(t)
    PROVE  /\ pc'[t] = "user" /\ new'[t] = NoMm /\ child'[t] = t
           /\ todo'[t] = <<>> /\ va'[t] = 0 /\ end'[t] = 0
           /\ \A u \in Task \ {t} :
                 /\ pc'[u] = pc[u] /\ new'[u] = new[u] /\ child'[u] = child[u]
                 /\ todo'[u] = todo[u] /\ va'[u] = va[u] /\ end'[u] = end[u]
           /\ pc' \in [Task -> PCs] /\ new' \in [Task -> Mm \cup {NoMm}]
           /\ child' \in [Task -> Task] /\ todo' \in [Task -> Seq(UserArea)]
           /\ va' \in [Task -> 0 .. VaTop - 2] /\ end' \in [Task -> 0 .. Word - 1]
<1>1. 0 \in 0 .. VaTop - 2 /\ 0 \in 0 .. Word - 1 /\ <<>> \in Seq(UserArea)
  BY ConstantsLemma
<1> QED
  BY <1>1 DEF Finish, PageInv, SpaceInv, OperTypes, BoundedAreas, PCs

\* mm_mappages() fails: freevma() and mm_free() give back exactly what is there.
LEMMA MapFailStep ==
    ASSUME PageInv, NEW t \in Task, MapFail(t)
    PROVE  PageInv'
<1> DEFINE m == new[t]
           v == va[t]
           a == Head(todo[t])
           half == IF Refused(t) THEN {} ELSE Pages(Head(todo[t]))
<1>1. /\ pc[t] = "map" /\ todo[t] # <<>> /\ v < a.e
      /\ free' = free \cup MmPages(m) \cup Frames(m, half)
      /\ Drop(m) /\ Finish(t) /\ UNCHANGED <<lost, cur, brk, panicked>>
  BY DEF MapFail, Mapping
<1>2. m \in Mm /\ m # NoMm /\ v \in 0 .. VaTop - 2 /\ root[m] # NoPage
  <2>1. m # NoMm /\ root[m] # NoPage
    BY <1>1 DEF PageInv, SpaceInv, OwnSpaces
  <2>2. m \in Mm \cup {NoMm} /\ v \in 0 .. VaTop - 2
    BY DEF PageInv, SpaceInv, OperTypes
  <2> QED
    BY <2>1, <2>2
<1>3. a.e \in 0 .. VaTop - 2 /\ a.s \in 0 .. VaTop - 2
  BY <1>1, TodoLemma DEF PageInv, SpaceInv, BoundedAreas
<1>4. Mapped(m) \subseteq Covered(vmas[m]) \cup half
  <2>1. Mapped(m) \subseteq Covered(vmas[m]) \cup (a.s .. v - 1)
    BY <1>1 DEF PageInv, SpaceInv, Within, NewWithin
  <2>2. a.s .. v - 1 \subseteq half
    <3>1. CASE Refused(t)
      <4>1. v = a.s /\ v \in Int
        BY <3>1, <1>2 DEF Refused
      <4> QED
        BY <4>1
    <3>2. CASE ~Refused(t)
      <4>1. v < a.e /\ v \in Int /\ a.s \in Int /\ a.e \in Int
        BY <1>1, <1>2, <1>3
      <4>2. a.s .. v - 1 \subseteq Pages(a)
        <5> HIDE DEF a, v
        <5> QED
          BY <4>1 DEF Pages
      <4> QED
        BY <4>2, <3>2
    <3> QED
      BY <3>1, <3>2
  <2> QED
    BY <2>1, <2>2
<1>5. SpaceTypes' /\ Exact(Owned, free, lost)'
  <2> HIDE DEF m, half
  <2> QED
    BY <1>1, <1>2, <1>4, DropExact DEF PageInv, SpaceInv
<1>6. /\ UnusedEmpty' /\ vmas' \in [Mm -> Seq(UserArea)]
      /\ \A n \in Mm \ {m} : /\ root'[n] = root[n] /\ pte'[n] = pte[n]
                             /\ vmas'[n] = vmas[n]
  BY <1>1, <1>2, DropStep
<1>7. OperTypes' /\ BoundedAreas'
  BY <1>1, <1>6, FinishLemma DEF PageInv, SpaceInv, OperTypes, BoundedAreas
<1>8. \A u \in Task : cur[u] # m /\ (u # t => new[u] # m)
  BY <1>2 DEF PageInv, SpaceInv, OwnSpaces
<1>9. \A u \in Task : cur[u] \in Mm \cup {NoMm} /\ new[u] \in Mm \cup {NoMm}
  BY DEF PageInv, SpaceInv, OperTypes
<1>10. /\ pc'[t] = "user" /\ new'[t] = NoMm /\ cur' = cur
       /\ \A u \in Task \ {t} : pc'[u] = pc[u] /\ new'[u] = new[u] /\ child'[u] = child[u]
  BY <1>1, FinishLemma
<1>11. OwnSpaces'
  <2>1. OwnSpaces
    BY DEF PageInv, SpaceInv
  <2>2. \A u \in Task : cur'[u] # NoMm => root'[cur'[u]] # NoPage
    BY <2>1, <1>6, <1>8, <1>9, <1>10 DEF OwnSpaces
  <2>3. \A u \in Task : new'[u] # NoMm => u # t /\ new'[u] = new[u]
    BY <1>10
  <2>4. \A u \in Task : new'[u] # NoMm => root'[new'[u]] # NoPage
    BY <2>1, <2>3, <1>6, <1>8, <1>9 DEF OwnSpaces
  <2>5. \A u \in Task : new'[u] # NoMm <=> pc'[u] = "map"
    BY <2>1, <1>10 DEF OwnSpaces
  <2>6. \A u, x \in Task : cur'[u] # NoMm /\ cur'[u] = cur'[x] => u = x
    BY <2>1, <1>10, Zenon DEF OwnSpaces
  <2>7. \A u, x \in Task : new'[u] # NoMm /\ new'[u] = new'[x] => u = x
    <3>1. \A u, x \in Task : new[u] # NoMm /\ new[u] = new[x] => u = x
      BY <2>1, Zenon DEF OwnSpaces
    <3> QED
      BY <2>3, <3>1
  <2>8. \A u, x \in Task : new'[u] # NoMm => new'[u] # cur'[x]
    <3>1. \A u, x \in Task : new[u] # NoMm => new[u] # cur[x]
      BY <2>1, Zenon DEF OwnSpaces
    <3> QED
      BY <2>3, <3>1, <1>10
  <2> QED
    BY <2>2, <2>4, <2>5, <2>6, <2>7, <2>8, Zenon DEF OwnSpaces
<1>12. Children'
  BY <1>10 DEF PageInv, SpaceInv, Children
<1>13. ASSUME NEW u \in Task \ {t} PROVE Within(u)'
  <2>1. Untouched(u)
    BY <1>1, <1>6, <1>8, <1>9, FinishLemma DEF Untouched
  <2> QED
    BY <2>1, UntouchedLemma DEF PageInv, SpaceInv
<1>14. Within(t)'
  <2>1. cur[t] # NoMm => pte'[cur[t]] = pte[cur[t]] /\ vmas'[cur[t]] = vmas[cur[t]]
    BY <1>6, <1>8, <1>9
  <2>2. ~InRemap(t) /\ ~InRemap(t)'
    BY <1>1, <1>10 DEF InRemap
  <2>3. cur[t] # NoMm => Mapped(cur[t]) \subseteq Covered(vmas[cur[t]])
    BY <2>2 DEF PageInv, SpaceInv, Within, CurWithin
  <2>4. CurWithin(t)'
    BY <1>10, <2>1, <2>2, <2>3 DEF CurWithin, Mapped
  <2>5. HeapThere(t)'
    BY <1>10, <2>1 DEF PageInv, SpaceInv, Within, HeapThere
  <2>6. NewWithin(t)'
    BY <1>10 DEF NewWithin
  <2> QED
    BY <2>4, <2>5, <2>6 DEF Within
<1> QED
  BY <1>5, <1>6, <1>7, <1>11, <1>12, <1>13, <1>14 DEF PageInv, SpaceInv

\* The address space of t goes, if t is not in the middle of mm_remap().
LEMMA FreeExact ==
    ASSUME PageInv, NEW t \in Task, ~InRemap(t), cur[t] # NoMm,
           free' = free \cup MmPages(cur[t]), Drop(cur[t]), lost' = lost
    PROVE  SpaceTypes' /\ Exact(Owned, free, lost)' /\ cur[t] \in Mm
<1>1. cur[t] \in Mm /\ root[cur[t]] # NoPage
  BY DEF PageInv, SpaceInv, OperTypes, OwnSpaces
<1>2. Mapped(cur[t]) \subseteq Covered(vmas[cur[t]]) \cup {}
  BY DEF PageInv, SpaceInv, Within, CurWithin
<1>3. free' = free \cup MmPages(cur[t]) \cup Frames(cur[t], {})
  BY DEF Frames
<1> QED
  BY <1>1, <1>2, <1>3, DropExact DEF PageInv, SpaceInv

\* freeproc() gives back the whole address space.
LEMMA FreeProcStep ==
    ASSUME PageInv, NEW t \in Task, FreeProc(t)
    PROVE  PageInv'
<1> DEFINE m == cur[t]
<1>1. /\ pc[t] = "user" /\ m # NoMm /\ free' = free \cup MmPages(m) /\ Drop(m)
      /\ cur' = [cur EXCEPT ![t] = NoMm] /\ brk' = [brk EXCEPT ![t] = 0]
      /\ UNCHANGED <<lost, pc, oper, panicked>>
  BY DEF FreeProc, Ready
<1>2. SpaceTypes' /\ Exact(Owned, free, lost)' /\ m \in Mm
  BY <1>1, FreeExact DEF InRemap
<1>3. /\ UnusedEmpty' /\ vmas' \in [Mm -> Seq(UserArea)]
      /\ \A n \in Mm \ {m} : /\ root'[n] = root[n] /\ pte'[n] = pte[n]
                             /\ vmas'[n] = vmas[n]
  BY <1>1, <1>2, DropStep
<1>4. OperTypes' /\ BoundedAreas'
  BY <1>1, <1>3, ConstantsLemma DEF PageInv, SpaceInv, OperTypes, BoundedAreas, oper
<1>5. /\ \A u \in Task \ {t} : cur[u] # m
      /\ \A u \in Task : new[u] # m
      /\ \A u \in Task : cur[u] \in Mm \cup {NoMm} /\ new[u] \in Mm \cup {NoMm}
  BY <1>1 DEF PageInv, SpaceInv, OwnSpaces, OperTypes
<1>6. cur'[t] = NoMm /\ \A u \in Task \ {t} : cur'[u] = cur[u]
  BY <1>1 DEF PageInv, SpaceInv, OperTypes
<1>7. OwnSpaces'
  <2>1. OwnSpaces /\ pc' = pc /\ new' = new
    BY <1>1 DEF PageInv, SpaceInv, oper
  <2>2. \A u \in Task : cur'[u] # NoMm => u # t /\ cur'[u] = cur[u]
    BY <1>6
  <2>3. \A u \in Task : /\ cur'[u] # NoMm => root'[cur'[u]] # NoPage
                        /\ new'[u] # NoMm => root'[new'[u]] # NoPage
    BY <2>1, <2>2, <1>3, <1>5 DEF OwnSpaces
  <2>4. \A u, x \in Task : cur'[u] # NoMm /\ cur'[u] = cur'[x] => u = x
    <3>1. \A u, x \in Task : cur[u] # NoMm /\ cur[u] = cur[x] => u = x
      BY <2>1, Zenon DEF OwnSpaces
    <3> QED
      BY <3>1, <2>2
  <2>5. \A u, x \in Task : new'[u] # NoMm => new'[u] # cur'[x]
    <3>1. \A u, x \in Task : new[u] # NoMm => new[u] # cur[x]
      BY <2>1, Zenon DEF OwnSpaces
    <3> QED
      BY <3>1, <2>1, <2>2
  <2> QED
    BY <2>1, <2>3, <2>4, <2>5 DEF OwnSpaces
<1>8. Children'
  BY <1>1, <1>6 DEF PageInv, SpaceInv, Children, oper
<1>9. ASSUME NEW u \in Task \ {t} PROVE Within(u)'
  <2>1. Untouched(u)
    BY <1>1, <1>3, <1>5, <1>6 DEF Untouched, oper
  <2> QED
    BY <2>1, UntouchedLemma DEF PageInv, SpaceInv
<1>10. Within(t)'
  <2>1. pc'[t] = "user" /\ new'[t] = NoMm
    BY <1>1 DEF PageInv, SpaceInv, OwnSpaces, oper
  <2> QED
    BY <2>1, <1>6 DEF Within, HeapThere, CurWithin, NewWithin, InRemap
<1> QED
  BY <1>2, <1>3, <1>4, <1>7, <1>8, <1>9, <1>10 DEF PageInv, SpaceInv

\* The end of fork() and of exec(), which frees the old address space.
LEMMA MapDoneStep ==
    ASSUME PageInv, NEW t \in Task, MapDone(t), NEW c \in Task, c = child[t]
    PROVE  PageInv'
<1> DEFINE old == cur[t]
           m == new[t]
           b == IF c = t THEN HeapStart * PGSIZE ELSE brk[t]
<1>1. /\ pc[t] = "map" /\ todo[t] = <<>>
      /\ cur' = [cur EXCEPT ![c] = m]
      /\ brk' = [brk EXCEPT ![c] = b]
      /\ Finish(t) /\ UNCHANGED <<lost, panicked>>
      /\ \/ c = t /\ old # NoMm /\ free' = free \cup MmPages(old) /\ Drop(old)
         \/ ~(c = t /\ old # NoMm) /\ UNCHANGED <<free, root, tab, pte, vmas>>
  BY DEF MapDone
<1>2. OwnSpaces /\ Children
  BY DEF PageInv, SpaceInv
<1>3. /\ c \in Task /\ m \in Mm /\ m # NoMm /\ root[m] # NoPage /\ m # old
      /\ \A u \in Task : cur[u] # m /\ (u # t => new[u] # m)
      /\ \A u \in Task : cur[u] \in Mm \cup {NoMm} /\ new[u] \in Mm \cup {NoMm}
  <2>1. m # NoMm
    BY <1>1, <1>2 DEF OwnSpaces
  <2>2. m \in Mm \cup {NoMm} /\ c \in Task
    BY DEF PageInv, SpaceInv, OperTypes
  <2>3. \A u \in Task : cur[u] \in Mm \cup {NoMm} /\ new[u] \in Mm \cup {NoMm}
    BY DEF PageInv, SpaceInv, OperTypes
  <2>4. root[m] # NoPage /\ \A u \in Task : cur[u] # m /\ (u # t => new[u] # m)
    BY <2>1, <1>2 DEF OwnSpaces
  <2> QED
    BY <2>1, <2>2, <2>3, <2>4
<1>4. cur[c] = NoMm \/ c = t
  BY <1>1, <1>2 DEF Children
<1>5. /\ SpaceTypes' /\ Exact(Owned, free, lost)'
      /\ UnusedEmpty' /\ vmas' \in [Mm -> Seq(UserArea)]
      /\ \A n \in Mm : n # old \/ c # t =>
            root'[n] = root[n] /\ pte'[n] = pte[n] /\ vmas'[n] = vmas[n]
  <2>1. CASE c = t /\ old # NoMm /\ free' = free \cup MmPages(old) /\ Drop(old)
    <3>1. ~InRemap(t)
      BY <1>1 DEF InRemap
    <3>2. SpaceTypes' /\ Exact(Owned, free, lost)' /\ old \in Mm
      BY <1>1, <2>1, <3>1, FreeExact
    <3>3. /\ UnusedEmpty' /\ vmas' \in [Mm -> Seq(UserArea)]
          /\ \A n \in Mm \ {old} : /\ root'[n] = root[n] /\ pte'[n] = pte[n]
                                   /\ vmas'[n] = vmas[n]
      BY <2>1, <3>2, DropStep
    <3> QED
      BY <3>2, <3>3, <2>1
  <2>2. CASE UNCHANGED <<free, root, tab, pte, vmas>>
    <3>1. Owned' = Owned
      BY <2>2 DEF Owned
    <3> QED
      BY <1>1, <2>2, <3>1 DEF PageInv, SpaceInv, SpaceTypes, Exact, UnusedEmpty,
                              BoundedAreas
  <2> QED
    BY <1>1, <2>1, <2>2
<1>6. OperTypes' /\ BoundedAreas'
  <2>1. b \in 0 .. Word - 1
    BY ConstantsLemma DEF PageInv, SpaceInv, OperTypes
  <2> HIDE DEF b, m
  <2>2. cur' \in [Task -> Mm \cup {NoMm}] /\ brk' \in [Task -> 0 .. Word - 1]
    BY <1>1, <1>3, <2>1 DEF PageInv, SpaceInv, OperTypes
  <2> QED
    BY <1>1, <1>5, <2>2, FinishLemma DEF OperTypes, BoundedAreas
<1>7. cur'[c] = m /\ \A u \in Task \ {c} : cur'[u] = cur[u]
  BY <1>1, <1>3 DEF PageInv, SpaceInv, OperTypes
<1>8. /\ pc'[t] = "user" /\ new'[t] = NoMm
      /\ \A u \in Task \ {t} :
            /\ pc'[u] = pc[u] /\ new'[u] = new[u] /\ child'[u] = child[u]
            /\ todo'[u] = todo[u] /\ va'[u] = va[u] /\ end'[u] = end[u]
  BY <1>1, FinishLemma
<1>9. \A u \in Task \ {t} : cur[u] # NoMm => cur[u] # old
  BY <1>2 DEF OwnSpaces
<1>10. \A u \in Task : new[u] # NoMm => new[u] # old
  BY <1>2 DEF OwnSpaces
<1> HIDE DEF m, old
<1>11. OwnSpaces'
  <2>1. \A u \in Task : new'[u] # NoMm => u # t /\ new'[u] = new[u]
    BY <1>8
  <2>2. \A u \in Task : new'[u] # NoMm <=> pc'[u] = "map"
    <3>1. \A u \in Task : new[u] # NoMm <=> pc[u] = "map"
      BY <1>2, Zenon DEF OwnSpaces
    <3> QED
      BY <3>1, <1>8
  <2>3. \A u \in Task : new'[u] # NoMm => root'[new'[u]] # NoPage
    BY <2>1, <1>2, <1>3, <1>5, <1>10 DEF OwnSpaces
  <2>4. \A u \in Task \ {c} : cur'[u] # NoMm => root'[cur'[u]] # NoPage
    <3> TAKE u \in Task \ {c}
    <3> HAVE cur'[u] # NoMm
    <3>1. cur'[u] = cur[u] /\ cur[u] \in Mm /\ root[cur[u]] # NoPage
      BY <1>2, <1>3, <1>7 DEF OwnSpaces
    <3>2. cur[u] # old \/ c # t
      BY <3>1, <1>9
    <3> QED
      BY <3>1, <3>2, <1>5
  <2>5. \A u \in Task : cur'[u] # NoMm => root'[cur'[u]] # NoPage
    BY <2>4, <1>3, <1>5, <1>7
  <2>6. \A u, x \in Task : cur'[u] # NoMm /\ cur'[u] = cur'[x] => u = x
    <3>1. \A u, x \in Task : cur[u] # NoMm /\ cur[u] = cur[x] => u = x
      BY <1>2, Zenon DEF OwnSpaces
    <3> QED
      BY <3>1, <1>3, <1>7
  <2>7. \A u, x \in Task : new'[u] # NoMm /\ new'[u] = new'[x] => u = x
    <3>1. \A u, x \in Task : new[u] # NoMm /\ new[u] = new[x] => u = x
      BY <1>2, Zenon DEF OwnSpaces
    <3> QED
      BY <2>1, <3>1
  <2>8. \A u, x \in Task : new'[u] # NoMm => new'[u] # cur'[x]
    <3>1. \A u, x \in Task : new[u] # NoMm => new[u] # cur[x]
      BY <1>2, Zenon DEF OwnSpaces
    <3> QED
      BY <2>1, <3>1, <1>3, <1>7
  <2> QED
    BY <2>2, <2>3, <2>5, <2>6, <2>7, <2>8, Zenon DEF OwnSpaces
<1>12. Children'
  <2>1. \A u \in Task : pc'[u] = "map" =>
           u # t /\ pc[u] = "map" /\ child'[u] = child[u] /\ child[u] # c
    BY <1>1, <1>2, <1>8 DEF Children
  <2>2. \A u \in Task : child[u] \in Task
    BY DEF PageInv, SpaceInv, OperTypes
  <2>3. \A u \in Task : pc'[u] = "map" /\ child'[u] # u => cur'[child'[u]] = NoMm
    BY <2>1, <2>2, <1>2, <1>7 DEF Children
  <2>4. \A u, x \in Task : pc'[u] = "map" /\ pc'[x] = "map" /\ child'[u] = child'[x]
                              => u = x
    BY <2>1, <1>2 DEF Children
  <2> QED
    BY <2>3, <2>4 DEF Children
<1>13. ASSUME NEW u \in Task, u # t, u # c PROVE Within(u)'
  <2>1. cur'[u] = cur[u] /\ cur[u] \in Mm \cup {NoMm} /\ new[u] \in Mm \cup {NoMm}
    BY <1>13, <1>3, <1>7
  <2>2. cur[u] # NoMm => pte'[cur[u]] = pte[cur[u]] /\ vmas'[cur[u]] = vmas[cur[u]]
    BY <2>1, <1>5, <1>9, <1>13
  <2>3. new[u] # NoMm => pte'[new[u]] = pte[new[u]] /\ vmas'[new[u]] = vmas[new[u]]
    BY <2>1, <1>5, <1>10
  <2>4. Untouched(u)
    BY <2>1, <2>2, <2>3, <1>8, <1>13 DEF Untouched
  <2> QED
    BY <2>4, UntouchedLemma DEF PageInv, SpaceInv
<1>14. /\ pte'[m] = pte[m] /\ vmas'[m] = vmas[m]
       /\ HasHeap(vmas[m]) /\ Mapped(m) \subseteq Covered(vmas[m])
  <2>1. pte'[m] = pte[m] /\ vmas'[m] = vmas[m]
    BY <1>3, <1>5
  <2>2. Mapped(m) \subseteq Covered(vmas[m])
    BY <1>1 DEF PageInv, SpaceInv, Within, NewWithin, m
  <2>3. ~HasHeap(<<>>)
    BY DEF HasHeap
  <2>4. HasHeap(vmas[m])
    BY <2>3, <1>1, <1>3 DEF PageInv, SpaceInv, Within, HeapThere, m
  <2> QED
    BY <2>1, <2>2, <2>4
<1>15. HasHeap(vmas'[cur'[c]]) /\ (Mapped(cur[c]))' \subseteq (Covered(vmas[cur[c]]))'
  BY <1>7, <1>14 DEF Mapped
<1>16. CASE c = t
  <2>1. Within(t)'
    <3>1. ~InRemap(t)'
      BY <1>8 DEF InRemap
    <3> QED
      BY <3>1, <1>8, <1>15, <1>16 DEF Within, HeapThere, CurWithin, NewWithin
  <2> QED
    BY <2>1, <1>5, <1>6, <1>11, <1>12, <1>13, <1>16 DEF PageInv, SpaceInv
<1>17. CASE c # t
  <2>1. Within(t)'
    <3>1. ~InRemap(t) /\ ~InRemap(t)'
      BY <1>1, <1>8 DEF InRemap
    <3>2. cur'[t] = cur[t] /\ \A n \in Mm : pte'[n] = pte[n] /\ vmas'[n] = vmas[n]
      BY <1>5, <1>7, <1>17
    <3>3. cur[t] # NoMm => /\ Mapped(cur[t]) \subseteq Covered(vmas[cur[t]])
                           /\ HasHeap(vmas[cur[t]]) /\ cur[t] \in Mm
      BY <3>1, <1>3 DEF PageInv, SpaceInv, Within, CurWithin, HeapThere
    <3>4. cur'[t] # NoMm => /\ (Mapped(cur[t]))' \subseteq (Covered(vmas[cur[t]]))'
                            /\ HasHeap(vmas'[cur'[t]])
      BY <3>2, <3>3 DEF Mapped
    <3> QED
      BY <3>1, <3>4, <1>8 DEF Within, HeapThere, CurWithin, NewWithin
  <2>2. Within(c)'
    <3>1. ~InRemap(c) /\ ~InRemap(c)'
      <4>1. cur[c] = NoMm
        BY <1>4, <1>17
      <4>2. ~InRemap(c)
        BY <4>1, <1>3 DEF PageInv, SpaceInv, Within, CurWithin
      <4> QED
        BY <4>2, <1>3, <1>8, <1>17 DEF InRemap
    <3>2. /\ pc'[c] = pc[c] /\ new'[c] = new[c] /\ todo'[c] = todo[c] /\ va'[c] = va[c]
          /\ \A n \in Mm : pte'[n] = pte[n] /\ vmas'[n] = vmas[n]
      BY <1>3, <1>5, <1>8, <1>17
    <3>3. new[c] \in Mm \cup {NoMm} /\ (pc[c] = "map" => new[c] # NoMm)
      BY <1>2, <1>3 DEF OwnSpaces
    <3>4. HeapThere(c)'
      <4>1. new[c] # NoMm => HasHeap(vmas[new[c]]) \/ HasHeap(todo[c])
        BY <1>3 DEF PageInv, SpaceInv, Within, HeapThere
      <4> QED
        BY <4>1, <3>2, <3>3, <1>15 DEF HeapThere
    <3>5. NewWithin(c)'
      <4>1. NewWithin(c)
        BY <1>3 DEF PageInv, SpaceInv, Within
      <4>2. new[c] # NoMm => (Mapped(new[c]))' = Mapped(new[c])
                              /\ (Covered(vmas[new[c]]))' = Covered(vmas[new[c]])
        BY <3>2, <3>3 DEF Mapped
      <4> QED
        BY <4>1, <4>2, <3>2, <3>3 DEF NewWithin
    <3> QED
      BY <3>1, <3>4, <3>5, <1>15 DEF Within, CurWithin
  <2> QED
    BY <2>1, <2>2, <1>5, <1>6, <1>11, <1>12, <1>13, <1>17 DEF PageInv, SpaceInv
<1> QED
  BY <1>16, <1>17

\* sys_sbrk(), up to the loops of mm_remap().
LEMMA SbrkStep ==
    ASSUME PageInv, NEW t \in Task, SbrkNear(t) \/ SbrkFar(t)
    PROVE  PageInv'
<1>1. CASE SbrkNear(t)
  <2>1. PICK n \in Increments :
          /\ brk' = [brk EXCEPT ![t] = NewBrk(t, n)]
          /\ UNCHANGED <<space, cur, pc, oper, panicked>>
    BY <1>1 DEF SbrkNear
  <2>2. NewBrk(t, n) \in 0 .. Word - 1
    <3>1. n \in Int /\ brk[t] \in Int /\ Word \in Nat /\ Word > 0
      BY VmAssumption, ConstantsLemma DEF PageInv, SpaceInv, OperTypes
    <3> QED
      BY <3>1 DEF NewBrk
  <2>3. Owned' = Owned
    BY <2>1 DEF Owned, space
  <2>4. SpaceTypes' /\ Exact(Owned, free, lost)'
    BY <2>1, <2>3 DEF PageInv, SpaceInv, SpaceTypes, Exact, space
  <2>5. OperTypes' /\ BoundedAreas' /\ UnusedEmpty' /\ OwnSpaces' /\ Children'
    BY <2>1, <2>2 DEF PageInv, SpaceInv, OperTypes, BoundedAreas, UnusedEmpty,
                      OwnSpaces, Children, space, oper
  <2>6. \A u \in Task : Untouched(u)
    BY <2>1 DEF Untouched, space, oper
  <2>7. \A u \in Task : Within(u)'
    BY <2>6, UntouchedLemma DEF PageInv, SpaceInv
  <2> QED
    BY <2>4, <2>5, <2>7 DEF PageInv, SpaceInv
<1>2. CASE SbrkFar(t)
  <2>1. PICK n \in Increments :
          /\ Ready(t) /\ cur[t] # NoMm /\ RemapAllowed(t, PageUp(NewBrk(t, n)))
          /\ pc' = [pc EXCEPT ![t] = "remap"]
          /\ va' = [va EXCEPT ![t] = HeapStart]
          /\ end' = [end EXCEPT ![t] = NewBrk(t, n)]
          /\ UNCHANGED <<space, cur, brk, new, child, todo, panicked>>
    BY <1>2 DEF SbrkFar
  <2> DEFINE b == NewBrk(t, n)
  <2>2. b \in 0 .. Word - 1
    <3>1. n \in Int /\ brk[t] \in Int /\ Word \in Nat /\ Word > 0
      BY VmAssumption, ConstantsLemma DEF PageInv, SpaceInv, OperTypes
    <3> QED
      BY <3>1 DEF NewBrk
  <2>3. PageUp(b) <= VaTop - 2
    BY <2>1 DEF RemapAllowed
  <2> HIDE DEF b
  <2>4. HeapStart \in 0 .. VaTop - 2
    BY ConstantsLemma
  <2>5. /\ pc'[t] = "remap" /\ va'[t] = HeapStart /\ end'[t] = b
        /\ \A u \in Task \ {t} : pc'[u] = pc[u] /\ va'[u] = va[u] /\ end'[u] = end[u]
    BY <2>1 DEF PageInv, SpaceInv, OperTypes, b
  <2>6. Owned' = Owned
    BY <2>1 DEF Owned, space
  <2>7. SpaceTypes' /\ Exact(Owned, free, lost)'
    BY <2>1, <2>6 DEF PageInv, SpaceInv, SpaceTypes, Exact, space
  <2>8. OperTypes' /\ BoundedAreas'
    BY <2>1, <2>2, <2>4 DEF PageInv, SpaceInv, OperTypes, BoundedAreas, PCs, space, b
  <2>9. OnlyIn(t, cur[t]) /\ cur[t] \in Mm
    <3>1. UNCHANGED <<root, tab, pte, vmas, cur, new, child, todo>>
          /\ pc[t] = "user" /\ pc'[t] = "remap" /\ cur[t] # NoMm
      BY <2>1, <2>5 DEF space, Ready
    <3>2. cur[t] \in Mm
      BY <3>1 DEF PageInv, SpaceInv, OperTypes
    <3> QED
      BY <3>1, <3>2, <2>5 DEF OnlyIn
  <2>10. /\ UnusedEmpty' /\ OwnSpaces' /\ Children'
         /\ \A u \in Task \ {t} : Within(u)'
    BY <2>9, OnlyInLemma
  <2>11. Within(t)'
    <3>1. UNCHANGED <<pte, vmas, cur, new, todo>> /\ ~InRemap(t) /\ InRemap(t)'
      BY <2>1, <2>5 DEF space, InRemap, Ready
    <3>2. HeapThere(t)'
      BY <3>1 DEF PageInv, SpaceInv, Within, HeapThere
    <3>3. Mapped(cur[t]) \subseteq Covered(vmas[cur[t]])
      BY <2>1, <3>1 DEF PageInv, SpaceInv, Within, CurWithin
    <3>4. (PageUp(end[t]))' = PageUp(b)
      BY <2>5 DEF PageUp
    <3>5. HeapStart \in Int
      BY ConstantsLemma
    <3>6. CurWithin(t)'
      BY <2>1, <2>3, <2>5, <3>1, <3>3, <3>4, <3>5 DEF CurWithin, Mapped
    <3>7. NewWithin(t)'
      BY <2>5 DEF NewWithin
    <3> QED
      BY <3>2, <3>6, <3>7 DEF Within
  <2> QED
    BY <2>7, <2>8, <2>10, <2>11 DEF PageInv, SpaceInv
<1> QED
  BY <1>1, <1>2

\* What is known of a task inside mm_remap().
LEMMA RemapLemma ==
    ASSUME PageInv, NEW t \in Task, InRemap(t)
    PROVE  /\ cur[t] \in Mm /\ cur[t] # NoMm /\ new[t] = NoMm /\ pc[t] # "map"
           /\ va[t] \in 0 .. VaTop - 2 /\ va[t] \in Va
           /\ end[t] \in 0 .. Word - 1 /\ PageUp(end[t]) \in Nat
           /\ PageUp(end[t]) <= VaTop - 2
           /\ HeapStart <= va[t] /\ (va[t] <= PageUp(end[t]) \/ va[t] = HeapStart)
           /\ Mapped(cur[t]) \subseteq Covered(vmas[cur[t]]) \cup (HeapStart .. va[t] - 1)
           /\ HasHeap(vmas[cur[t]]) /\ vmas[cur[t]] \in Seq(UserArea)
<1>1. CurWithin(t) /\ HeapThere(t)
  BY DEF PageInv, SpaceInv, Within
<1>2. cur[t] # NoMm /\ pc[t] # "map"
  BY <1>1 DEF CurWithin, InRemap
<1>3. cur[t] \in Mm /\ new[t] = NoMm
  BY <1>2 DEF PageInv, SpaceInv, OperTypes, OwnSpaces
<1>4. va[t] \in 0 .. VaTop - 2 /\ va[t] \in Va /\ end[t] \in 0 .. Word - 1
  BY ConstantsLemma DEF PageInv, SpaceInv, OperTypes
<1>5. PageUp(end[t]) \in Nat
  <2>1. \A x, y, w \in Int : x >= 0 /\ y > 0 /\ w > 0 => (((x + y) - 1) % w) \in Nat
    OBVIOUS
  <2>2. \A x, y \in Nat : y > 0 => (x \div y) \in Nat
    OBVIOUS
  <2>3. (((end[t] + PGSIZE) - 1) % Word) \in Nat
    BY <1>4, <2>1, ConstantsLemma
  <2>4. (end[t] + PGSIZE) - 1 = end[t] + PGSIZE - 1
    BY <1>4, ConstantsLemma
  <2> QED
    BY <2>2, <2>3, <2>4, ConstantsLemma DEF PageUp
<1>6. vmas[cur[t]] \in Seq(UserArea) /\ HasHeap(vmas[cur[t]])
  BY <1>1, <1>2, <1>3 DEF PageInv, SpaceInv, BoundedAreas, HeapThere
<1> QED
  BY <1>1, <1>2, <1>3, <1>4, <1>5, <1>6 DEF CurWithin

\* A step of the first loop that maps a page, or only moves on.
LEMMA RemapPageStep ==
    ASSUME PageInv, NEW t \in Task, RemapPage(t)
    PROVE  PageInv'
<1> DEFINE m == cur[t]
           v == va[t]
           page == Nth(Len(Missing(m, v)) + 1)
           up == PageUp(end[t])
<1>1. /\ pc[t] = "remap" /\ v < up
      /\ va' = [va EXCEPT ![t] = v + 1]
      /\ UNCHANGED <<lost, root, vmas, cur, brk, pc, new, child, todo, end, panicked>>
      /\ \/ pte[m][v] # NoPage /\ UNCHANGED <<tab, pte, free>>
         \/ /\ pte[m][v] = NoPage /\ Enough(m, v, 1)
            /\ tab' = [tab EXCEPT ![m] = Walked(m, v)]
            /\ pte' = [pte EXCEPT ![m][v] = page]
            /\ free' = free \ ({page} \cup TablePages(Walked(m, v)))
  BY DEF RemapPage, Remapping
<1>2. InRemap(t) /\ InRemap(t)'
  BY <1>1 DEF InRemap
<1>3. /\ m \in Mm /\ m # NoMm /\ new[t] = NoMm /\ v \in 0 .. VaTop - 2 /\ v \in Va
      /\ up \in Nat /\ up <= VaTop - 2 /\ HeapStart <= v
      /\ Mapped(m) \subseteq Covered(vmas[m]) \cup (HeapStart .. v - 1)
      /\ HasHeap(vmas[m])
  BY <1>2, RemapLemma
<1>4. SpaceTypes' /\ Exact(Owned, free, lost)'
  <2>1. CASE UNCHANGED <<tab, pte, free>>
    <3>1. Owned' = Owned
      BY <1>1, <2>1 DEF Owned
    <3> QED
      BY <1>1, <2>1, <3>1 DEF PageInv, SpaceInv, SpaceTypes, Exact
  <2>2. CASE /\ pte[m][v] = NoPage /\ Enough(m, v, 1)
             /\ tab' = [tab EXCEPT ![m] = Walked(m, v)]
             /\ pte' = [pte EXCEPT ![m][v] = page]
             /\ free' = free \ ({page} \cup TablePages(Walked(m, v)))
    <3>1. page = Nth(Len(Missing(m, v)) + 1)
      OBVIOUS
    <3>2. UNCHANGED <<lost, root>>
      BY <1>1
    <3> HIDE DEF m, v, page
    <3> QED
      BY <1>3, <2>2, <3>1, <3>2, MapExact DEF PageInv, SpaceInv
  <2> QED
    BY <1>1, <2>1, <2>2
<1>5. OperTypes' /\ BoundedAreas'
  <2>1. v + 1 \in 0 .. VaTop - 2
    <3>1. v < up /\ VaTop \in Nat
      BY <1>1, ConstantsLemma
    <3> HIDE DEF v, up
    <3> QED
      BY <1>3, <3>1
  <2> QED
    BY <1>1, <2>1 DEF PageInv, SpaceInv, OperTypes, BoundedAreas
<1>6. /\ \A n \in Mm \ {m} : tab'[n] = tab[n] /\ pte'[n] = pte[n]
      /\ \A w \in Va : pte'[m][w] # NoPage => pte[m][w] # NoPage \/ w = v
  BY <1>1, <1>3 DEF PageInv, SpaceInv, SpaceTypes
<1>7. va'[t] = v + 1 /\ \A u \in Task \ {t} : va'[u] = va[u]
  BY <1>1 DEF PageInv, SpaceInv, OperTypes
<1>8. OnlyIn(t, m)
  <2>1. UNCHANGED <<root, vmas, cur, new, pc, child, todo, end>>
    BY <1>1
  <2> QED
    BY <2>1, <1>3, <1>6, <1>7 DEF OnlyIn
<1>9. /\ UnusedEmpty' /\ OwnSpaces' /\ Children'
      /\ \A u \in Task \ {t} : Within(u)'
  BY <1>3, <1>8, OnlyInLemma
<1>10. Within(t)'
  <2>1. HeapThere(t)'
    BY <1>1 DEF PageInv, SpaceInv, Within, HeapThere
  <2>2. NewWithin(t)'
    BY <1>1 DEF NewWithin
  <2>3. /\ \A w : w \in HeapStart .. v - 1 \/ w = v => w \in HeapStart .. ((v + 1) - 1)
        /\ HeapStart <= v + 1 /\ v + 1 <= up
    <3>1. v < up /\ v \in Int /\ HeapStart \in Int /\ HeapStart <= v
      BY <1>1, <1>3, ConstantsLemma
    <3> HIDE DEF v, up
    <3> QED
      BY <1>3, <3>1
  <2>4. (Mapped(cur[t]))' \subseteq Covered(vmas[m]) \cup (HeapStart .. ((v + 1) - 1))
    BY <1>1, <1>3, <1>6, <2>3 DEF Mapped
  <2>5. (PageUp(end[t]))' = up /\ cur'[t] = m /\ vmas' = vmas
    BY <1>1 DEF PageUp
  <2>6. CurWithin(t)'
    BY <1>2, <1>3, <1>7, <2>3, <2>4, <2>5 DEF CurWithin
  <2> QED
    BY <2>1, <2>2, <2>6 DEF Within
<1> QED
  BY <1>4, <1>5, <1>9, <1>10 DEF PageInv, SpaceInv

\* The first loop ends, or fails: the leaf entries stay.
LEMMA RemapMovesStep ==
    ASSUME PageInv, NEW t \in Task, RemapNoPage(t) \/ RemapMapped(t)
    PROVE  PageInv'
<1> DEFINE m == cur[t]
           v == va[t]
<1>1. /\ pc[t] = "remap" /\ UNCHANGED <<lost, root, pte, vmas, cur, brk, oper, panicked>>
      /\ \/ /\ pc' = [pc EXCEPT ![t] = "err"]
            /\ tab' = [tab EXCEPT ![m] = Walked(m, v)]
            /\ free' = free \ TablePages(Walked(m, v))
         \/ pc' = [pc EXCEPT ![t] = "trim"] /\ UNCHANGED <<tab, free>>
  BY DEF RemapNoPage, RemapMapped, Remapping, space
<1>2. InRemap(t)
  BY <1>1 DEF InRemap
<1>3. /\ m \in Mm /\ m # NoMm /\ new[t] = NoMm /\ v \in Va
      /\ PageUp(end[t]) <= VaTop - 2
      /\ HeapStart <= v /\ (v <= PageUp(end[t]) \/ v = HeapStart)
      /\ Mapped(m) \subseteq Covered(vmas[m]) \cup (HeapStart .. v - 1)
  BY <1>2, RemapLemma
<1>4. SpaceTypes' /\ Exact(Owned, free, lost)'
  <2>1. CASE UNCHANGED <<tab, free>>
    <3>1. Owned' = Owned
      BY <1>1, <2>1 DEF Owned
    <3> QED
      BY <1>1, <2>1, <3>1 DEF PageInv, SpaceInv, SpaceTypes, Exact
  <2>2. CASE /\ tab' = [tab EXCEPT ![m] = Walked(m, v)]
             /\ free' = free \ TablePages(Walked(m, v))
    <3>1. UNCHANGED <<lost, root, pte>>
      BY <1>1
    <3> HIDE DEF m, v
    <3> QED
      BY <1>3, <2>2, <3>1, WalkExact DEF PageInv, SpaceInv
  <2> QED
    BY <1>1, <2>1, <2>2
<1>5. /\ pc'[t] \in {"trim", "err"} /\ \A u \in Task \ {t} : pc'[u] = pc[u]
      /\ pc' \in [Task -> PCs]
  BY <1>1 DEF PageInv, SpaceInv, OperTypes, PCs
<1>6. OperTypes' /\ BoundedAreas'
  BY <1>1, <1>5 DEF PageInv, SpaceInv, OperTypes, BoundedAreas, oper
<1>7. \A n \in Mm \ {m} : tab'[n] = tab[n]
  BY <1>1, <1>3 DEF PageInv, SpaceInv, SpaceTypes
<1>8. OnlyIn(t, m)
  <2>1. UNCHANGED <<root, vmas, pte, cur, new, child, todo, va, end>>
        /\ pc[t] # "map" /\ pc'[t] # "map"
    BY <1>1, <1>5 DEF oper
  <2> QED
    BY <2>1, <1>3, <1>5, <1>7 DEF OnlyIn
<1>9. /\ UnusedEmpty' /\ OwnSpaces' /\ Children'
      /\ \A u \in Task \ {t} : Within(u)'
  BY <1>3, <1>8, OnlyInLemma
<1>10. Within(t)'
  <2>1. InRemap(t)' /\ UNCHANGED <<pte, vmas, cur, va, end, new, todo>>
    BY <1>1, <1>5 DEF InRemap, oper
  <2>2. HeapThere(t)'
    BY <2>1 DEF PageInv, SpaceInv, Within, HeapThere
  <2>3. NewWithin(t)'
    BY <1>5 DEF NewWithin
  <2>4. CurWithin(t)'
    BY <1>3, <2>1 DEF CurWithin, Mapped, PageUp
  <2> QED
    BY <2>2, <2>3, <2>4 DEF Within
<1> QED
  BY <1>4, <1>6, <1>9, <1>10 DEF PageInv, SpaceInv

\* vma_brk is one of the areas of t.
LEMMA HeapLemma ==
    ASSUME NEW t, HasHeap(vmas[cur[t]]), vmas[cur[t]] \in Seq(UserArea)
    PROVE  /\ HeapAt(t) \in DOMAIN vmas[cur[t]]
           /\ Heap(t) = vmas[cur[t]][HeapAt(t)] /\ Heap(t).s = HeapStart
           /\ Heap(t) \in UserArea /\ Heap(t).e \in Int
<1>1. /\ HeapAt(t) \in DOMAIN vmas[cur[t]]
      /\ vmas[cur[t]][HeapAt(t)].s = HeapStart
  BY DEF HasHeap, HeapAt
<1>2. Heap(t) = vmas[cur[t]][HeapAt(t)]
  BY DEF Heap
<1>3. Heap(t) \in UserArea
  <2> DEFINE s == vmas[cur[t]]
             j == HeapAt(t)
  <2>1. s \in Seq(UserArea) /\ j \in DOMAIN s
    BY <1>1
  <2> HIDE DEF s, j
  <2>2. s[j] \in UserArea
    BY <2>1
  <2> QED
    BY <2>2, <1>2 DEF s, j
<1>4. Heap(t).e \in Int
  BY <1>3 DEF UserArea
<1> QED
  BY <1>1, <1>2, <1>3, <1>4

\* The page with number v lies in one of the areas.
LEMMA InAreas ==
    ASSUME NEW areas, NEW v
    PROVE  v \in Covered(areas) <=> \E i \in DOMAIN areas : v \in Pages(areas[i])
BY DEF Covered, Range

\* The types after the end of mm_remap().
LEMMA RemapEnds ==
    ASSUME PageInv, NEW t \in Task, InRemap(t), NEW S, Unmap(t, S), Finish(t),
           UNCHANGED <<lost, root, tab, cur>>,
           vmas' \in [Mm -> Seq(UserArea)], HasHeap(vmas'[cur[t]]),
           brk' \in [Task -> 0 .. Word - 1],
           \A n \in Mm \ {cur[t]} : vmas'[n] = vmas[n],
           \A v \in Va \ S : pte[cur[t]][v] # NoPage => v \in Covered(vmas'[cur[t]])
    PROVE  PageInv'
<1> DEFINE m == cur[t]
<1>1. m \in Mm /\ m # NoMm /\ new[t] = NoMm /\ pc[t] # "map"
  BY RemapLemma
<1>2. SpaceTypes' /\ Exact(Owned, free, lost)'
  BY <1>1, UnmapExact DEF PageInv, SpaceInv
<1>3. OperTypes' /\ BoundedAreas'
  BY FinishLemma DEF PageInv, SpaceInv, OperTypes, BoundedAreas
<1>4. \A n \in Mm \ {m} : pte'[n] = pte[n]
  BY <1>1 DEF Unmap, PageInv, SpaceInv, SpaceTypes
<1>5. OnlyIn(t, m)
  <2>1. /\ pc'[t] = "user" /\ new'[t] = NoMm
        /\ \A u \in Task \ {t} :
              /\ pc'[u] = pc[u] /\ new'[u] = new[u] /\ child'[u] = child[u]
              /\ todo'[u] = todo[u] /\ va'[u] = va[u] /\ end'[u] = end[u]
    BY FinishLemma
  <2> QED
    BY <1>1, <1>4, <2>1 DEF OnlyIn
<1>6. /\ UnusedEmpty' /\ OwnSpaces' /\ Children'
      /\ \A u \in Task \ {t} : Within(u)'
  BY <1>1, <1>5, OnlyInLemma
<1>7. Within(t)'
  <2>1. pc'[t] = "user" /\ new'[t] = NoMm
    BY FinishLemma
  <2>2. \A v \in Va : pte'[m][v] # NoPage => v \notin S /\ pte[m][v] # NoPage
    BY <1>1 DEF Unmap, PageInv, SpaceInv, SpaceTypes
  <2>3. (Mapped(cur[t]))' \subseteq (Covered(vmas[cur[t]]))'
    BY <2>2 DEF Mapped
  <2> QED
    BY <2>1, <2>3 DEF Within, HeapThere, CurWithin, NewWithin, InRemap
<1> QED
  BY <1>2, <1>3, <1>6, <1>7 DEF PageInv, SpaceInv

\* The error path of mm_remap() gives back what its first loop has mapped.
LEMMA RemapErrStep ==
    ASSUME PageInv, NEW t \in Task, RemapErr(t)
    PROVE  PageInv'
<1> DEFINE m == cur[t]
           up == PageUp(end[t])
           h == Heap(t)
<1>1. /\ pc[t] = "err" /\ Unmap(t, Undone(t)) /\ Finish(t)
      /\ UNCHANGED <<lost, root, tab, vmas, cur, brk, panicked>>
  BY DEF RemapErr, Remapping
<1>2. InRemap(t)
  BY <1>1 DEF InRemap
<1>3. /\ m \in Mm /\ va[t] \in Int /\ up \in Nat
      /\ va[t] <= up \/ va[t] = HeapStart
      /\ Mapped(m) \subseteq Covered(vmas[m]) \cup (HeapStart .. va[t] - 1)
      /\ HasHeap(vmas[m]) /\ vmas[m] \in Seq(UserArea)
  BY <1>2, RemapLemma
<1>4. /\ HeapAt(t) \in DOMAIN vmas[m] /\ h = vmas[m][HeapAt(t)] /\ h.s = HeapStart
      /\ h.e \in Int
  BY <1>3, HeapLemma
<1>5. ASSUME NEW v \in Va \ Undone(t), pte[m][v] # NoPage PROVE v \in Covered(vmas[m])
  <2>1. CASE v \in HeapStart .. va[t] - 1
    <3>1. HeapStart \in Int /\ v \in Int /\ v >= HeapStart /\ v < va[t]
      BY <2>1, <1>3, ConstantsLemma
    <3>2. v \in Pages(h)
      <4>1. v \notin (HeapStart .. up - 1) \ Pages(h)
        BY <1>5 DEF Undone
      <4>2. v \in HeapStart .. up - 1
        <5> HIDE DEF up
        <5> QED
          BY <3>1, <1>3
      <4> QED
        BY <4>1, <4>2
    <3> QED
      BY <3>2, <1>4, InAreas
  <2>2. CASE v \notin HeapStart .. va[t] - 1
    BY <2>2, <1>3, <1>5 DEF Mapped
  <2> QED
    BY <2>1, <2>2
<1>6. /\ vmas' \in [Mm -> Seq(UserArea)] /\ HasHeap(vmas'[m])
      /\ brk' \in [Task -> 0 .. Word - 1] /\ \A n \in Mm \ {m} : vmas'[n] = vmas[n]
      /\ UNCHANGED <<lost, root, tab, cur>>
  BY <1>1, <1>3 DEF PageInv, SpaceInv, BoundedAreas, OperTypes
<1>7. \A v \in Va \ Undone(t) : pte[m][v] # NoPage => v \in Covered(vmas'[m])
  BY <1>1, <1>5
<1> QED
  BY <1>1, <1>2, <1>6, <1>7, RemapEnds

\* The list of areas with a new end of the heap.
LEMMA NewEnd ==
    ASSUME NEW s \in Seq(UserArea), NEW i \in DOMAIN s, NEW x \in 0 .. VaTop - 2
    PROVE  LET r == [s EXCEPT ![i].e = x]
           IN  /\ r \in Seq(UserArea) /\ DOMAIN r = DOMAIN s
               /\ r[i].s = s[i].s /\ r[i].e = x
               /\ \A j \in DOMAIN s : j # i => r[j] = s[j]
<1> DEFINE r == [s EXCEPT ![i].e = x]
<1>1. s[i] \in UserArea
  OBVIOUS
<1>2. [s[i] EXCEPT !.e = x] \in UserArea
  BY <1>1 DEF UserArea
<1>3. r = [s EXCEPT ![i] = [s[i] EXCEPT !.e = x]]
  OBVIOUS
<1>4. r \in Seq(UserArea) /\ DOMAIN r = DOMAIN s
  BY <1>2, <1>3
<1>5. r[i].s = s[i].s /\ r[i].e = x
  BY <1>1 DEF UserArea
<1> QED
  BY <1>4, <1>5

\* The second loop of mm_remap() and the new end of the heap.
LEMMA RemapTrimStep ==
    ASSUME PageInv, NEW t \in Task, RemapTrim(t)
    PROVE  PageInv'
<1> DEFINE m == cur[t]
           up == PageUp(end[t])
           h == Heap(t)
           i == HeapAt(t)
           S == Pages(h) \ (HeapStart .. up - 1)
           r == [vmas[m] EXCEPT ![i].e = up]
<1>1. /\ pc[t] = "trim" /\ Unmap(t, S) /\ Finish(t)
      /\ vmas' = [vmas EXCEPT ![m][i].e = up]
      /\ brk' = [brk EXCEPT ![t] = end[t]]
      /\ UNCHANGED <<lost, root, tab, cur, panicked>>
  BY DEF RemapTrim, Remapping
<1>2. InRemap(t)
  BY <1>1 DEF InRemap
<1>3. /\ m \in Mm /\ va[t] \in Int /\ up \in Nat /\ up <= VaTop - 2
      /\ va[t] <= up \/ va[t] = HeapStart
      /\ end[t] \in 0 .. Word - 1
      /\ Mapped(m) \subseteq Covered(vmas[m]) \cup (HeapStart .. va[t] - 1)
      /\ HasHeap(vmas[m]) /\ vmas[m] \in Seq(UserArea)
  BY <1>2, RemapLemma
<1>4. /\ i \in DOMAIN vmas[m] /\ h = vmas[m][i] /\ h.s = HeapStart
      /\ h.e \in Int
  BY <1>3, HeapLemma
<1>5. /\ r \in Seq(UserArea) /\ DOMAIN r = DOMAIN vmas[m]
      /\ r[i].s = HeapStart /\ r[i].e = up
      /\ \A j \in DOMAIN vmas[m] : j # i => r[j] = vmas[m][j]
  <2>1. up \in 0 .. VaTop - 2
    <3>1. VaTop \in Int
      BY ConstantsLemma
    <3> HIDE DEF up
    <3> QED
      BY <1>3, <3>1
  <2> HIDE DEF i, up, m, h
  <2> QED
    BY <2>1, <1>3, <1>4, NewEnd
<1>6. /\ vmas'[m] = r /\ \A n \in Mm \ {m} : vmas'[n] = vmas[n]
      /\ vmas' \in [Mm -> Seq(UserArea)]
  <2>1. vmas \in [Mm -> Seq(UserArea)] /\ vmas' = [vmas EXCEPT ![m] = r]
    BY <1>1 DEF PageInv, SpaceInv, BoundedAreas
  <2> HIDE DEF r, m
  <2> QED
    BY <2>1, <1>3, <1>5
<1> HIDE DEF r, i, h, up, m
<1>7. ASSUME NEW v \in Va \ S, pte[m][v] # NoPage PROVE v \in Covered(r)
  <2>1. v \in Int /\ HeapStart \in Int
    BY ConstantsLemma DEF Va
  <2>2. v \in HeapStart .. up - 1 => v \in Covered(r)
    <3>1. Pages(r[i]) = HeapStart .. up - 1
      BY <1>5 DEF Pages
    <3> QED
      BY <3>1, <1>4, <1>5, InAreas
  <2>3. CASE v \in HeapStart .. va[t] - 1
    <3>1. v \in HeapStart .. up - 1
      BY <2>1, <2>3, <1>3
    <3> QED
      BY <3>1, <2>2
  <2>4. CASE v \in Covered(vmas[m])
    <3>1. PICK j \in DOMAIN vmas[m] : v \in Pages(vmas[m][j])
      BY <2>4, InAreas
    <3>2. CASE j = i
      <4>1. v \in HeapStart .. up - 1
        BY <3>1, <3>2, <1>4, <1>7
      <4> QED
        BY <4>1, <2>2
    <3>3. CASE j # i
      BY <3>1, <3>3, <1>5, InAreas
    <3> QED
      BY <3>2, <3>3
  <2> QED
    BY <2>3, <2>4, <1>3, <1>7 DEF Mapped
<1>8. /\ HasHeap(vmas'[m]) /\ brk' \in [Task -> 0 .. Word - 1]
  BY <1>1, <1>3, <1>4, <1>5, <1>6 DEF HasHeap, PageInv, SpaceInv, OperTypes
<1>9. \A v \in Va \ S : pte[m][v] # NoPage => v \in Covered(vmas'[m])
  BY <1>6, <1>7
<1> HIDE DEF S
<1> QED
  BY <1>1, <1>2, <1>6, <1>8, <1>9, RemapEnds DEF m

-----------------------------------------------------------------------------
(* Theorems *)

\* Nothing is mapped at first.
LEMMA PageInit == Init => PageInv
<1> SUFFICES ASSUME Init PROVE PageInv
  OBVIOUS
<1>1. /\ SpaceTypes
      /\ cur \in [Task -> Mm \cup {NoMm}] /\ brk \in [Task -> 0 .. Word - 1]
      /\ pc \in [Task -> PCs] /\ new \in [Task -> Mm \cup {NoMm}]
      /\ child \in [Task -> Task]
      /\ va \in [Task -> 0 .. VaTop - 2] /\ end \in [Task -> 0 .. Word - 1]
  BY ConstantsLemma DEF Init, SpaceTypes, Maybe, PCs
<1>2. <<>> \in Seq(UserArea)
  OBVIOUS
<1>3. BoundedAreas
  BY <1>2 DEF Init, BoundedAreas
<1>4. UnusedEmpty /\ OwnSpaces /\ Children
  BY DEF Init, UnusedEmpty, OwnSpaces, Children, NoTables, NoPtes
<1>5. \A t \in Task : Within(t)
  BY DEF Init, Within, HeapThere, CurWithin, NewWithin, InRemap
<1>6. Exact(Owned, free, lost)
  <2>1. \A y \in Place : Owned[y] = NoPage
    BY PlaceLemma DEF Init
  <2> QED
    BY <2>1, ConstantsLemma DEF Init, Exact
<1> QED
  BY <1>1, <1>3, <1>4, <1>5, <1>6 DEF PageInv, SpaceInv, OperTypes

\* A stuttering step keeps the invariant.
LEMMA PageStutter == ASSUME PageInv, UNCHANGED vars PROVE PageInv'
<1>1. Owned' = Owned
  BY DEF Owned, vars, space
<1>2. SpaceTypes' /\ Exact(Owned, free, lost)'
  BY <1>1 DEF PageInv, SpaceInv, SpaceTypes, Exact, vars, space
<1>3. OperTypes' /\ BoundedAreas' /\ UnusedEmpty' /\ OwnSpaces' /\ Children'
  BY DEF PageInv, SpaceInv, OperTypes, BoundedAreas, UnusedEmpty,
         OwnSpaces, Children, vars, space, oper
<1>4. \A u \in Task : Untouched(u)
  BY DEF Untouched, vars, space, oper
<1>5. \A u \in Task : Within(u)'
  BY <1>4, UntouchedLemma DEF PageInv, SpaceInv
<1> QED
  BY <1>2, <1>3, <1>5 DEF PageInv, SpaceInv

\* The invariant is inductive.
LEMMA PageStep == ASSUME PageInv, [Next]_vars PROVE PageInv'
<1>1. CASE \E t \in Task : Exec(t) \/ Fork(t)
  BY <1>1, ExecForkStep
<1>2. CASE \E t \in Task : FreeProc(t)
  BY <1>2, FreeProcStep
<1>3. CASE \E t \in Task : MapPage(t)
  BY <1>3, MapPageStep
<1>4. CASE \E t \in Task : MapArea(t)
  BY <1>4, MapAreaStep
<1>5. CASE \E t \in Task : MapFail(t)
  BY <1>5, MapFailStep
<1>6. CASE \E t \in Task : MapDone(t)
  <2>1. PICK t \in Task : MapDone(t)
    BY <1>6
  <2>2. child[t] \in Task
    BY DEF PageInv, SpaceInv, OperTypes
  <2> QED
    BY <2>1, <2>2, MapDoneStep
<1>7. CASE \E t \in Task : SbrkNear(t) \/ SbrkFar(t)
  BY <1>7, SbrkStep
<1>8. CASE \E t \in Task : RemapPage(t)
  BY <1>8, RemapPageStep
<1>9. CASE \E t \in Task : RemapNoPage(t) \/ RemapMapped(t)
  BY <1>9, RemapMovesStep
<1>10. CASE \E t \in Task : RemapTrim(t)
  BY <1>10, RemapTrimStep
<1>11. CASE \E t \in Task : RemapErr(t)
  BY <1>11, RemapErrStep
<1>12. CASE UNCHANGED vars
  BY <1>12, PageStutter
<1> QED
  BY <1>1, <1>2, <1>3, <1>4, <1>5, <1>6, <1>7, <1>8, <1>9, <1>10, <1>11, <1>12
     DEF Next

\* The inductive invariant holds.
THEOREM PagesStayOwned == Spec => []PageInv
BY PageInit, PageStep, PTL DEF Spec

\* Every physical page is free, lost or referred to exactly once, in the middle
\* of fork(), exec() and sbrk() and after each of their failures: kallocpage()
\* and kfreepage() in os/kalloc.c are always called for the right page.
THEOREM PagesAreAccounted == Spec => []PagesAccounted
<1>1. PageInv => PagesAccounted
  BY ExactLemma DEF PageInv
<1> QED
  BY <1>1, PagesStayOwned, PTL

-----------------------------------------------------------------------------
(* The layout of an address space *)

\* The areas that load_user_elf() makes, with any heap below the stack.
Prog == [s |-> 0, e |-> HeapStart]
Known(a) == \/ a = Prog
            \/ a = Stack
            \/ a.s = HeapStart /\ a.e \in HeapStart .. Stack.s
Plain(s) == /\ \A i \in DOMAIN s : Known(s[i])
            /\ \A i, j \in DOMAIN s : s[i].s = s[j].s => i = j
HasStack(s) == \E i \in DOMAIN s : s[i] = Stack

\* The heap among the areas s ends with the page of b.
HoldsBrk(s, b) == \A i \in DOMAIN s : s[i].s = HeapStart =>
    b \in HeapStart * PGSIZE .. s[i].e * PGSIZE /\ PageUp(b) = s[i].e

\* All pages of the areas of t are mapped, unless t has overrun its heap.
CurLayout(t) == cur[t] # NoMm /\ t \notin overrun =>
    /\ Plain(vmas[cur[t]]) /\ HasStack(vmas[cur[t]])
    /\ Covered(vmas[cur[t]]) \subseteq Mapped(cur[t])
    /\ HoldsBrk(vmas[cur[t]], brk[t])

\* mm_remap() moves the end of the heap below the stack.
RemapLayout(t) == InRemap(t) /\ t \notin overrun =>
    /\ HeapStart .. va[t] - 1 \subseteq Mapped(cur[t])
    /\ PageUp(end[t]) \in HeapStart .. Stack.s
    /\ end[t] \in HeapStart * PGSIZE .. PageUp(end[t]) * PGSIZE
    /\ pc[t] = "trim" => va[t] >= PageUp(end[t])

\* What exec() builds is clean, and what a fork() by a clean parent builds.
Clean(t) == child[t] = t \/ t \notin overrun

\* fork() and exec() build the same layout.
ChildBrk(t) == IF child[t] = t THEN HeapStart * PGSIZE ELSE brk[t]
NewAreas(t) ==
    /\ Plain(vmas[new[t]]) /\ Plain(todo[t])
    /\ HasStack(vmas[new[t]]) \/ HasStack(todo[t])
    /\ Covered(vmas[new[t]]) \subseteq Mapped(new[t])
    /\ todo[t] # <<>> => Head(todo[t]).s .. va[t] - 1 \subseteq Mapped(new[t])
    /\ HoldsBrk(vmas[new[t]], ChildBrk(t)) /\ HoldsBrk(todo[t], ChildBrk(t))
    /\ \A i \in DOMAIN vmas[new[t]], j \in DOMAIN todo[t] :
          vmas[new[t]][i].s # todo[t][j].s
NewLayout(t) == pc[t] = "map" => /\ child[t] # t => cur[t] # NoMm
                                 /\ Clean(t) => NewAreas(t)

Layout(t) == CurLayout(t) /\ RemapLayout(t) /\ NewLayout(t)

\* The inductive invariant for AreasSound.
LayoutInv == PageInv /\ \A t \in Task : Layout(t)

\* The constants, as numbers.
LEMMA LayoutConstants ==
    /\ Stack.s \in Nat /\ Stack.e \in Nat /\ HeapStart < Stack.s
    /\ Stack.s < Stack.e /\ Stack.e <= VaTop - 2 /\ Stack \in UserArea
    /\ Prog \in UserArea /\ [s |-> HeapStart, e |-> HeapStart] \in UserArea
<1>1. /\ Stack \in [s : Nat, e : Nat] /\ Stack.s < Stack.e /\ Stack.e <= VaTop - 2
      /\ VaTop \in Nat
  BY VmAssumption
<1>2. Stack.s \in Nat /\ Stack.e \in Nat /\ Stack.s <= VaTop - 2
  BY <1>1
<1>3. Stack \in UserArea
  BY <1>1, <1>2 DEF UserArea
<1>4. Prog \in UserArea /\ [s |-> HeapStart, e |-> HeapStart] \in UserArea
  BY ConstantsLemma DEF UserArea, Prog
<1>5. HeapStart < Stack.s
  <2>1. HeapStart \in 1 .. Stack.s - 1
    BY VmAssumption
  <2> QED
    BY <2>1, <1>2
<1> QED
  BY <1>1, <1>2, <1>3, <1>4, <1>5

\* PGROUNDUP(b) / PGSIZE, away from the end of the word.
LEMMA PageUpLemma ==
    ASSUME NEW b \in Nat, NEW T \in Nat, T < VaTop, b <= T * PGSIZE
    PROVE  /\ PageUp(b) \in Nat /\ b <= PageUp(b) * PGSIZE
           /\ \A k \in Nat : b <= k * PGSIZE => PageUp(b) <= k
           /\ \A k \in Nat : k * PGSIZE <= b => k <= PageUp(b)
<1> DEFINE x == (b + PGSIZE) - 1
           u == x \div PGSIZE
<1>1. PGSIZE \in Nat /\ PGSIZE > 0 /\ Word \in Nat /\ VaTop \in Nat
      /\ Word > VaTop * PGSIZE
  BY ConstantsLemma, VmAssumption
<1>2. \A i, j, c \in Nat : i <= j => i * c <= j * c
  OBVIOUS
<1>3. \A i, c \in Nat : i * c \in Nat /\ (i + 1) * c = i * c + c
  OBVIOUS
<1>4. T * PGSIZE + PGSIZE <= VaTop * PGSIZE
  <2>1. T + 1 <= VaTop /\ T + 1 \in Nat
    BY <1>1
  <2>2. (T + 1) * PGSIZE <= VaTop * PGSIZE
    BY <2>1, <1>1, <1>2
  <2> QED
    BY <2>2, <1>1, <1>3
<1>5. x \in Nat /\ x < Word
  <2>1. T * PGSIZE \in Nat /\ VaTop * PGSIZE \in Nat
    BY <1>1, <1>3
  <2> QED
    BY <2>1, <1>1, <1>4
<1>6. x % Word = x
  <2> HIDE DEF x
  <2> QED
    BY <1>1, <1>5
<1>7. PageUp(b) = u
  <2>1. b + PGSIZE - 1 = x
    BY <1>1
  <2> QED
    BY <2>1, <1>6 DEF PageUp
<1>8. u \in Nat /\ u * PGSIZE <= x /\ x < u * PGSIZE + PGSIZE
  <2> HIDE DEF x
  <2>1. \A y, c \in Nat : c > 0 => /\ (y \div c) \in Nat /\ (y \div c) * c <= y
                                   /\ y < (y \div c) * c + c
    OBVIOUS
  <2> QED
    BY <2>1, <1>1, <1>5
<1> HIDE DEF u
<1>9. b <= u * PGSIZE
  <2>1. u * PGSIZE \in Nat
    BY <1>1, <1>3, <1>8
  <2> QED
    BY <2>1, <1>1, <1>8
<1>10. ASSUME NEW k \in Nat, b <= k * PGSIZE PROVE u <= k
  <2> SUFFICES ASSUME k + 1 <= u PROVE FALSE
    BY <1>8
  <2>1. (k + 1) * PGSIZE <= u * PGSIZE
    BY <1>1, <1>2, <1>8
  <2>2. k * PGSIZE + PGSIZE <= x
    <3>1. u * PGSIZE \in Nat /\ k * PGSIZE \in Nat /\ (k + 1) * PGSIZE = k * PGSIZE + PGSIZE
      BY <1>1, <1>3, <1>8
    <3> QED
      BY <2>1, <3>1, <1>1, <1>5, <1>8
  <2>3. k * PGSIZE \in Nat
    BY <1>1, <1>3
  <2> QED
    BY <2>2, <2>3, <1>1, <1>10
<1>11. ASSUME NEW k \in Nat, k * PGSIZE <= b PROVE k <= u
  <2> SUFFICES ASSUME u + 1 <= k PROVE FALSE
    BY <1>8
  <2>1. (u + 1) * PGSIZE <= k * PGSIZE
    BY <1>1, <1>2, <1>8
  <2>2. u * PGSIZE \in Nat /\ k * PGSIZE \in Nat /\ (u + 1) * PGSIZE = u * PGSIZE + PGSIZE
    BY <1>1, <1>3, <1>8
  <2> QED
    BY <2>1, <2>2, <1>1, <1>9, <1>11
<1> QED
  BY <1>7, <1>8, <1>9, <1>10, <1>11

\* A new process has an empty heap.
LEMMA FirstBrk ==
    /\ PageUp(HeapStart * PGSIZE) = HeapStart
    /\ HoldsBrk(<<Prog, [s |-> HeapStart, e |-> HeapStart], Stack>>, HeapStart * PGSIZE)
<1> DEFINE s == <<Prog, [s |-> HeapStart, e |-> HeapStart], Stack>>
           b == HeapStart * PGSIZE
<1>1. b \in Nat /\ HeapStart \in Nat /\ HeapStart < VaTop /\ HeapStart >= 1 /\ b <= b
  BY ConstantsLemma
<1>2. PageUp(b) = HeapStart
  <2>1. PageUp(b) \in Nat /\ PageUp(b) <= HeapStart /\ HeapStart <= PageUp(b)
    BY <1>1, PageUpLemma
  <2> HIDE DEF b
  <2> QED
    BY <2>1, <1>1
<1>3. DOMAIN s = 1 .. 3 /\ s[1].s = 0 /\ s[2].s = HeapStart /\ s[2].e = HeapStart
      /\ s[3] = Stack
  BY DEF Prog
<1>4. Stack.s # HeapStart
  BY <1>1, LayoutConstants
<1> HIDE DEF s
<1>5. \A i \in DOMAIN s : s[i].s = HeapStart => i = 2
  BY <1>1, <1>3, <1>4
<1>6. b \in HeapStart * PGSIZE .. HeapStart * PGSIZE
  <2>1. b = HeapStart * PGSIZE
    OBVIOUS
  <2> HIDE DEF b
  <2> QED
    BY <2>1, <1>1
<1>7. HoldsBrk(s, b)
  BY <1>2, <1>3, <1>5, <1>6 DEF HoldsBrk
<1> QED
  BY <1>2, <1>7 DEF s

\* The areas do not overlap, and only the heap lies between program and stack.
LEMMA PlainLemma ==
    ASSUME NEW s, Plain(s), NEW i \in DOMAIN s, NEW j \in DOMAIN s, i # j
    PROVE  /\ Pages(s[i]) \cap Pages(s[j]) = {}
           /\ s[i].s = HeapStart => Pages(s[j]) \cap (HeapStart .. Stack.s - 1) = {}
<1>1. Known(s[i]) /\ Known(s[j]) /\ s[i].s # s[j].s
  BY DEF Plain
<1>2. /\ HeapStart \in Nat /\ Stack.s \in Nat /\ Stack.e \in Nat /\ HeapStart < Stack.s
      /\ HeapStart >= 1
  BY ConstantsLemma, LayoutConstants
<1>3. /\ Pages(Prog) = 0 .. HeapStart - 1 /\ Pages(Stack) = Stack.s .. Stack.e - 1
      /\ Prog.s = 0
  BY DEF Pages, Prog
<1>4. ASSUME NEW a, a.s = HeapStart, a.e \in HeapStart .. Stack.s
      PROVE  Pages(a) \subseteq HeapStart .. Stack.s - 1
  BY <1>2, <1>4 DEF Pages
<1>5. /\ Pages(Prog) \cap Pages(Stack) = {}
      /\ Pages(Prog) \cap (HeapStart .. Stack.s - 1) = {}
      /\ Pages(Stack) \cap (HeapStart .. Stack.s - 1) = {}
  BY <1>2, <1>3
<1> QED
  BY <1>1, <1>4, <1>5 DEF Known

\* The layout says nothing of a process that has overrun its heap.
LEMMA LayoutOverrun ==
    ASSUME NEW t \in Task, t \in overrun', pc'[t] # "map" PROVE Layout(t)'
BY DEF Layout, CurLayout, RemapLayout, NewLayout

\* A task whose state and address spaces stay the same keeps its layout.
LEMMA LayoutUntouched ==
    ASSUME PageInv, NEW u \in Task, Layout(u), Untouched(u),
           brk'[u] = brk[u], child'[u] = child[u], u \in overrun' <=> u \in overrun
    PROVE  Layout(u)'
<1>1. InRemap(u) => cur[u] # NoMm
  BY RemapLemma
<1>2. cur[u] # NoMm => /\ (Mapped(cur[u]))' = Mapped(cur[u])
                       /\ vmas'[cur'[u]] = vmas[cur[u]]
  BY DEF Mapped, Untouched
<1>3. pc[u] = "map" => new[u] # NoMm
  BY DEF PageInv, SpaceInv, OwnSpaces
<1>4. new[u] # NoMm => /\ (Mapped(new[u]))' = Mapped(new[u])
                       /\ vmas'[new'[u]] = vmas[new[u]]
  BY DEF Mapped, Untouched
<1>5. CurLayout(u)'
  BY <1>2 DEF Layout, CurLayout, Untouched
<1>6. RemapLayout(u)'
  <2>1. (PageUp(end[u]))' = PageUp(end[u]) /\ InRemap(u)' = InRemap(u)
    BY DEF PageUp, InRemap, Untouched
  <2>2. pc'[u] = pc[u] /\ va'[u] = va[u] /\ end'[u] = end[u]
    BY DEF Untouched
  <2> QED
    BY <2>1, <2>2, <1>1, <1>2 DEF Layout, RemapLayout
<1>7. NewLayout(u)'
  <2>1. ChildBrk(u)' = ChildBrk(u)
    BY DEF ChildBrk
  <2>2. /\ pc'[u] = pc[u] /\ todo'[u] = todo[u] /\ va'[u] = va[u] /\ cur'[u] = cur[u]
    BY DEF Untouched
  <2>3. Clean(u)' <=> Clean(u)
    BY DEF Clean
  <2>4. pc[u] = "map" /\ NewAreas(u) => NewAreas(u)'
    BY <2>1, <2>2, <1>3, <1>4 DEF NewAreas
  <2> QED
    BY <2>2, <2>3, <2>4 DEF Layout, NewLayout
<1> QED
  BY <1>5, <1>6, <1>7 DEF Layout

\* When only t moves, and only in m, the others keep their layout.
LEMMA LayoutOnlyIn ==
    ASSUME LayoutInv, NEW t \in Task, NEW m \in Mm, OnlyIn(t, m),
           NEW u \in Task, u # t, brk'[u] = brk[u], u \in overrun' <=> u \in overrun
    PROVE  Layout(u)'
<1>1. cur[u] # m /\ new[u] # m
  BY OthersLemma DEF OnlyIn, LayoutInv
<1>2. cur[u] \in Mm \cup {NoMm} /\ new[u] \in Mm \cup {NoMm}
  BY DEF LayoutInv, PageInv, SpaceInv, OperTypes
<1>3. Untouched(u) /\ child'[u] = child[u]
  BY <1>1, <1>2 DEF OnlyIn, Untouched
<1> QED
  BY <1>3, LayoutUntouched DEF LayoutInv

\* mm_create() with areas of the known layout.
LEMMA LayoutCreate ==
    ASSUME LayoutInv, PageInv', NEW t \in Task, NEW c \in Task,
           NEW areas \in Seq(UserArea), areas # <<>>,
           c = t \/ t \notin overrun =>
              /\ Plain(areas) /\ HasStack(areas)
              /\ HoldsBrk(areas, IF c = t THEN HeapStart * PGSIZE ELSE brk[t]),
           c # t => cur[t] # NoMm,
           pc[t] = "user", Create(t, c, areas), UNCHANGED <<cur, brk, overrun>>
    PROVE  LayoutInv'
<1>1. \/ UNCHANGED <<root, tab, pte, vmas, pc, oper>>
      \/ \E m \in Mm : Created(t, c, areas, m)
  BY CreateExact DEF LayoutInv, PageInv, SpaceInv
<1>2. CASE UNCHANGED <<root, tab, pte, vmas, pc, oper>>
  <2>1. \A u \in Task : /\ Untouched(u) /\ brk'[u] = brk[u] /\ child'[u] = child[u]
                        /\ (u \in overrun' <=> u \in overrun)
    BY <1>2 DEF Untouched, oper
  <2>2. \A u \in Task : Layout(u)'
    BY <2>1, LayoutUntouched DEF LayoutInv
  <2> QED
    BY <2>2 DEF LayoutInv
<1>3. CASE \E m \in Mm : Created(t, c, areas, m)
  <2>1. PICK m \in Mm : Created(t, c, areas, m)
    BY <1>3
  <2>2. /\ new'[t] = m /\ pc'[t] = "map" /\ child'[t] = c
        /\ todo'[t] = areas /\ va'[t] = Head(areas).s
        /\ \A u \in Task \ {t} : /\ new'[u] = new[u] /\ pc'[u] = pc[u]
                                 /\ child'[u] = child[u] /\ todo'[u] = todo[u]
                                 /\ va'[u] = va[u]
        /\ UNCHANGED <<pte, vmas, end, cur, brk, overrun>>
    BY <2>1 DEF LayoutInv, PageInv, SpaceInv, OperTypes, BoundedAreas, Created
  <2>4. ASSUME NEW u \in Task \ {t} PROVE Layout(u)'
    <3>1. /\ Untouched(u) /\ brk'[u] = brk[u] /\ child'[u] = child[u]
          /\ (u \in overrun' <=> u \in overrun)
      BY <2>2 DEF Untouched
    <3> QED
      BY <3>1, LayoutUntouched DEF LayoutInv
  <2>5. Layout(t)'
    <3>1. CurLayout(t)'
      BY <2>2 DEF LayoutInv, Layout, CurLayout, Mapped
    <3>2. RemapLayout(t)'
      BY <2>2 DEF RemapLayout, InRemap
    <3>3. NewLayout(t)'
      <4>1. vmas'[m] = <<>>
        BY <2>1 DEF Created, LayoutInv, PageInv, SpaceInv, UnusedEmpty
      <4>2. Covered(<<>>) = {} /\ DOMAIN << >> = {}
        BY DEF Covered, Range
      <4>3. HoldsBrk(<<>>, ChildBrk(t)')
        BY DEF HoldsBrk
      <4>4. Head(areas).s .. Head(areas).s - 1 = {}
        <5>1. Head(areas).s \in Int
          BY TodoLemma
        <5> QED
          BY <5>1
      <4>5. ChildBrk(t)' = IF c = t THEN HeapStart * PGSIZE ELSE brk[t]
        BY <2>2 DEF ChildBrk
      <4>6. Clean(t)' <=> c = t \/ t \notin overrun
        BY <2>2 DEF Clean
      <4>7. Plain(<<>>)
        BY DEF Plain
      <4>8. Clean(t)' => NewAreas(t)'
        BY <4>1, <4>2, <4>3, <4>4, <4>5, <4>6, <4>7, <2>2 DEF NewAreas
      <4> QED
        BY <4>8, <2>2 DEF NewLayout
    <3> QED
      BY <3>1, <3>2, <3>3 DEF Layout
  <2> QED
    BY <2>4, <2>5 DEF LayoutInv
<1> QED
  BY <1>1, <1>2, <1>3

\* load_user_elf() and mm_copy() begin with a plain list of areas.
LEMMA LayoutExecFork ==
    ASSUME LayoutInv, PageInv', NEW t \in Task, Exec(t) \/ Fork(t)
    PROVE  LayoutInv'
<1>1. CASE Exec(t)
  <2> DEFINE areas == << [s |-> 0, e |-> HeapStart],
                         [s |-> HeapStart, e |-> HeapStart], Stack >>
  <2>1. /\ DOMAIN areas = 1 .. 3 /\ areas[1] = Prog /\ areas[3] = Stack
        /\ areas[2] = [s |-> HeapStart, e |-> HeapStart]
        /\ areas = << Prog, [s |-> HeapStart, e |-> HeapStart], Stack >>
        /\ areas # <<>>
    BY DEF Prog
  <2>2. areas \in Seq(UserArea)
    BY LayoutConstants DEF Prog
  <2>3. pc[t] = "user" /\ Create(t, t, areas) /\ UNCHANGED <<cur, brk, overrun>>
    BY <1>1 DEF Exec, Ready
  <2>4. HoldsBrk(areas, HeapStart * PGSIZE)
    BY <2>1, FirstBrk
  <2> HIDE DEF areas
  <2>5. Plain(areas)
    <3>1. /\ HeapStart \in Nat /\ Stack.s \in Nat /\ HeapStart < Stack.s /\ HeapStart >= 1
      BY ConstantsLemma, LayoutConstants
    <3>2. areas[1].s = 0 /\ areas[2].s = HeapStart /\ areas[3].s = Stack.s
      BY <2>1 DEF Prog
    <3>3. \A i, j \in DOMAIN areas : areas[i].s = areas[j].s => i = j
      <4>1. \A i \in DOMAIN areas : i = 1 \/ i = 2 \/ i = 3
        BY <2>1
      <4>2. areas[1].s # areas[2].s /\ areas[1].s # areas[3].s /\ areas[2].s # areas[3].s
        BY <3>1, <3>2
      <4> QED
        BY <4>1, <4>2, Zenon
    <3>4. Known(areas[1]) /\ Known(areas[2]) /\ Known(areas[3])
      BY <2>1, <3>1 DEF Known
    <3> QED
      BY <2>1, <3>3, <3>4 DEF Plain
  <2>6. HasStack(areas)
    BY <2>1 DEF HasStack
  <2> QED
    BY <2>1, <2>2, <2>3, <2>4, <2>5, <2>6, LayoutCreate
<1>2. CASE Fork(t)
  <2>1. PICK c \in Task :
          /\ pc[t] = "user" /\ cur[t] # NoMm /\ cur[c] = NoMm
          /\ Create(t, c, vmas[cur[t]])
          /\ UNCHANGED <<cur, brk, overrun>>
    BY <1>2 DEF Fork, Ready
  <2>2. c # t /\ cur[t] \in Mm
    BY <2>1 DEF LayoutInv, PageInv, SpaceInv, OperTypes
  <2>3. vmas[cur[t]] \in Seq(UserArea) /\ HasHeap(vmas[cur[t]])
    BY <2>1, <2>2 DEF LayoutInv, PageInv, SpaceInv, BoundedAreas, Within, HeapThere
  <2>4. t \notin overrun =>
          /\ Plain(vmas[cur[t]]) /\ HasStack(vmas[cur[t]])
          /\ HoldsBrk(vmas[cur[t]], brk[t])
    BY <2>1 DEF LayoutInv, Layout, CurLayout
  <2>5. vmas[cur[t]] # <<>>
    BY <2>3 DEF HasHeap
  <2> QED
    BY <2>1, <2>2, <2>3, <2>4, <2>5, LayoutCreate
<1> QED
  BY <1>1, <1>2

\* One area moves from the list of what is to be mapped to the front of the list
\* of the address space.
LEMMA FrontLemma ==
    ASSUME NEW s \in Seq(UserArea), s # <<>>, NEW q \in Seq(UserArea)
    PROVE  LET r == <<Head(s)>> \o q
           IN  /\ r \in Seq(UserArea) /\ 1 \in DOMAIN s /\ Head(s) = s[1]
               /\ \A i \in DOMAIN Tail(s) : /\ i + 1 \in DOMAIN s /\ i + 1 # 1
                                            /\ Tail(s)[i] = s[i + 1]
               /\ \A i \in DOMAIN s : \/ i = 1
                                      \/ i - 1 \in DOMAIN Tail(s) /\ Tail(s)[i - 1] = s[i]
               /\ 1 \in DOMAIN r /\ r[1] = s[1]
               /\ \A i \in DOMAIN q : i + 1 \in DOMAIN r /\ r[i + 1] = q[i]
               /\ \A i \in DOMAIN r : \/ i = 1
                                      \/ i - 1 \in DOMAIN q /\ r[i] = q[i - 1]
               /\ \A i \in DOMAIN Tail(s), j \in DOMAIN Tail(s) : i + 1 = j + 1 => i = j
               /\ \A i, j \in DOMAIN r : i - 1 = j - 1 => i = j
<1> DEFINE a == Head(s)
           r == <<a>> \o q
           n == Tail(s)
<1>1. /\ a \in UserArea /\ a = s[1] /\ n \in Seq(UserArea)
      /\ Len(s) \in Nat /\ Len(s) > 0 /\ Len(n) = Len(s) - 1
      /\ \A i \in 1 .. Len(n) : n[i] = s[i + 1]
  BY HeadTailProperties
<1>2. DOMAIN s = 1 .. Len(s) /\ DOMAIN n = 1 .. Len(n) /\ DOMAIN q = 1 .. Len(q)
      /\ Len(q) \in Nat
  BY <1>1
<1> HIDE DEF a, n
<1>3. /\ r \in Seq(UserArea) /\ Len(r) = Len(q) + 1 /\ r[1] = a
      /\ \A i \in 1 .. Len(q) : r[i + 1] = q[i]
  BY <1>1
<1>4. DOMAIN r = 1 .. Len(r)
  BY <1>3
<1> HIDE DEF r
<1>5. /\ \A i \in DOMAIN n : i + 1 \in DOMAIN s /\ i + 1 # 1 /\ n[i] = s[i + 1]
      /\ \A i \in DOMAIN s : i = 1 \/ (i - 1 \in DOMAIN n /\ n[i - 1] = s[i])
      /\ 1 \in DOMAIN s
  <2>1. \A i \in DOMAIN n : i + 1 \in DOMAIN s /\ i + 1 # 1 /\ n[i] = s[i + 1]
    BY <1>1, <1>2
  <2>2. \A i \in DOMAIN s : i = 1 \/ (i - 1 \in 1 .. Len(n) /\ i = (i - 1) + 1)
    BY <1>1, <1>2
  <2>3. \A i \in DOMAIN s : i = 1 \/ (i - 1 \in DOMAIN n /\ n[i - 1] = s[i])
    BY <2>2, <1>1, <1>2
  <2> QED
    BY <2>1, <2>3, <1>1, <1>2
<1>6. /\ 1 \in DOMAIN r /\ r[1] = s[1]
      /\ \A i \in DOMAIN q : i + 1 \in DOMAIN r /\ r[i + 1] = q[i]
      /\ \A i \in DOMAIN r : i = 1 \/ (i - 1 \in DOMAIN q /\ r[i] = q[i - 1])
  <2>1. 1 \in DOMAIN r /\ r[1] = s[1]
    BY <1>1, <1>2, <1>3, <1>4
  <2>2. \A i \in DOMAIN q : i + 1 \in DOMAIN r /\ r[i + 1] = q[i]
    BY <1>2, <1>3, <1>4
  <2>3. \A i \in DOMAIN r : i = 1 \/ (i - 1 \in 1 .. Len(q) /\ i = (i - 1) + 1)
    BY <1>2, <1>3, <1>4
  <2>4. \A i \in DOMAIN r : i = 1 \/ (i - 1 \in DOMAIN q /\ r[i] = q[i - 1])
    BY <2>3, <1>2, <1>3
  <2> QED
    BY <2>1, <2>2, <2>4
<1>7. \A i, j \in Int : (i + 1 = j + 1 => i = j) /\ (i - 1 = j - 1 => i = j)
  OBVIOUS
<1>8. DOMAIN n \subseteq Int /\ DOMAIN r \subseteq Int
  BY <1>2, <1>4
<1>9. /\ \A i \in DOMAIN n, j \in DOMAIN n : i + 1 = j + 1 => i = j
      /\ \A i, j \in DOMAIN r : i - 1 = j - 1 => i = j
  BY <1>7, <1>8
<1> QED
  BY <1>1, <1>3, <1>5, <1>6, <1>9 DEF r, a, n

\* The mapped area moves to the list of the address space.
LEMMA LayoutMapArea ==
    ASSUME LayoutInv, PageInv', NEW t \in Task, MapArea(t)
    PROVE  LayoutInv'
<1> DEFINE m == new[t]
           s == todo[t]
           q == vmas[m]
           n == Tail(s)
           r == <<Head(s)>> \o q
           B == ChildBrk(t)
           w == IF n = <<>> THEN 0 ELSE Head(n).s
<1>1. /\ pc[t] = "map" /\ s # <<>> /\ va[t] >= Head(s).e
      /\ vmas' = [vmas EXCEPT ![m] = r]
      /\ todo' = [todo EXCEPT ![t] = n]
      /\ va' = [va EXCEPT ![t] = w]
      /\ UNCHANGED <<free, lost, root, tab, pte, cur, brk, pc, new, child, end,
                   overrun>>
  BY DEF MapArea, Mapping
<1>2. m \in Mm /\ m # NoMm /\ va[t] \in Int
  <2>1. m # NoMm
    BY <1>1 DEF LayoutInv, PageInv, SpaceInv, OwnSpaces
  <2>2. m \in Mm \cup {NoMm} /\ va[t] \in 0 .. VaTop - 2
    BY DEF LayoutInv, PageInv, SpaceInv, OperTypes
  <2> QED
    BY <2>1, <2>2
<1>3. s \in Seq(UserArea) /\ q \in Seq(UserArea)
  BY <1>2 DEF LayoutInv, PageInv, SpaceInv, BoundedAreas
<1>4. /\ Head(s) = s[1] /\ Head(s).s \in Int /\ Head(s).e \in Int /\ n \in Seq(UserArea)
      /\ n # <<>> => Head(n).s \in Int
  <2>1. Head(s) = s[1] /\ Head(s).s \in Int /\ Head(s).e \in Int /\ n \in Seq(UserArea)
    BY <1>1, <1>3, TodoLemma
  <2>2. n # <<>> => Head(n).s \in Int
    <3> HIDE DEF n
    <3> QED
      BY <2>1, TodoLemma
  <2> QED
    BY <2>1, <2>2
<1>5. /\ vmas'[m] = r /\ \A k \in Mm \ {m} : vmas'[k] = vmas[k]
      /\ todo'[t] = n /\ \A u \in Task \ {t} : todo'[u] = todo[u]
      /\ va'[t] = w /\ \A u \in Task \ {t} : va'[u] = va[u]
  BY <1>1, <1>2 DEF LayoutInv, PageInv, SpaceInv, BoundedAreas, OperTypes
<1>6. Clean(t) => Plain(s) /\ Plain(q)
  BY <1>1 DEF LayoutInv, Layout, NewLayout, NewAreas
<1>7. NewLayout(t) /\ CurLayout(t)
  BY DEF LayoutInv, Layout
<1>8. /\ Clean(t) =>
           /\ HasStack(q) \/ HasStack(s)
           /\ Covered(q) \subseteq Mapped(m)
           /\ Head(s).s .. va[t] - 1 \subseteq Mapped(m)
           /\ HoldsBrk(q, B) /\ HoldsBrk(s, B)
           /\ \A i \in DOMAIN q, j \in DOMAIN s : q[i].s # s[j].s
      /\ child[t] # t => cur[t] # NoMm
  BY <1>1, <1>7 DEF NewLayout, NewAreas
<1>9. /\ 1 \in DOMAIN s
      /\ \A i \in DOMAIN n : i + 1 \in DOMAIN s /\ i + 1 # 1 /\ n[i] = s[i + 1]
      /\ \A i \in DOMAIN s : i = 1 \/ (i - 1 \in DOMAIN n /\ n[i - 1] = s[i])
      /\ 1 \in DOMAIN r /\ r[1] = s[1]
      /\ \A i \in DOMAIN q : i + 1 \in DOMAIN r /\ r[i + 1] = q[i]
      /\ \A i \in DOMAIN r : i = 1 \/ (i - 1 \in DOMAIN q /\ r[i] = q[i - 1])
      /\ \A i \in DOMAIN n, j \in DOMAIN n : i + 1 = j + 1 => i = j
      /\ \A i, j \in DOMAIN r : i - 1 = j - 1 => i = j
  BY <1>1, <1>3, FrontLemma
<1>10. OnlyIn(t, m)
  BY <1>1, <1>2, <1>5 DEF OnlyIn
<1> HIDE DEF m, s, q, n, r, B, w
<1>11. Clean(t) => Plain(r) /\ Plain(n)
  <2> SUFFICES ASSUME Clean(t) PROVE Plain(r) /\ Plain(n)
    OBVIOUS
  <2>1. \A i \in DOMAIN r : Known(r[i])
    BY <1>6, <1>9 DEF Plain
  <2>2. \A i \in DOMAIN n : Known(n[i])
    BY <1>6, <1>9 DEF Plain
  <2>3. \A i, j \in DOMAIN n : n[i].s = n[j].s => i = j
    BY <1>6, <1>9 DEF Plain
  <2>4. \A i, j \in DOMAIN r : r[i].s = r[j].s => i = j
    BY <1>6, <1>8, <1>9 DEF Plain
  <2> QED
    BY <2>1, <2>2, <2>3, <2>4 DEF Plain
<1>13. \A u \in Task \ {t} : Layout(u)'
  BY <1>1, <1>2, <1>10, LayoutOnlyIn
<1>14. Layout(t)'
  <2>1. CurLayout(t)'
    <3>1. cur[t] # NoMm => vmas'[cur[t]] = vmas[cur[t]]
      <4>1. cur[t] # m /\ cur[t] \in Mm \cup {NoMm}
        BY <1>2 DEF LayoutInv, PageInv, SpaceInv, OwnSpaces, OperTypes, m
      <4> QED
        BY <4>1, <1>5
    <3> QED
      BY <3>1, <1>1, <1>7 DEF CurLayout, Mapped
  <2>2. RemapLayout(t)'
    BY <1>1 DEF RemapLayout, InRemap
  <2>3. ASSUME Clean(t) PROVE NewAreas(t)'
    <3>1. HasStack(r) \/ HasStack(n)
      BY <2>3, <1>8, <1>9 DEF HasStack
    <3>2. Covered(r) \subseteq Mapped(m)
      <4> SUFFICES ASSUME NEW v \in Covered(r) PROVE v \in Mapped(m)
        OBVIOUS
      <4>1. PICK i \in DOMAIN r : v \in Pages(r[i])
        BY InAreas
      <4>2. CASE i = 1
        <5>1. v \in Head(s).s .. va[t] - 1
          BY <4>1, <4>2, <1>1, <1>2, <1>4, <1>9 DEF Pages
        <5> QED
          BY <5>1, <2>3, <1>8
      <4>3. CASE i - 1 \in DOMAIN q /\ r[i] = q[i - 1]
        BY <4>1, <4>3, <2>3, <1>8, InAreas
      <4> QED
        BY <4>2, <4>3, <1>9
    <3>3. n # <<>> => w .. w - 1 = {} /\ w = Head(n).s
      BY <1>4 DEF w
    <3>4. HoldsBrk(r, B) /\ HoldsBrk(n, B)
      BY <2>3, <1>8, <1>9 DEF HoldsBrk
    <3>5. \A i \in DOMAIN r, j \in DOMAIN n : r[i].s # n[j].s
      BY <2>3, <1>6, <1>8, <1>9 DEF Plain
    <3>6. /\ (Mapped(new[t]))' = Mapped(m) /\ vmas'[new'[t]] = r /\ ChildBrk(t)' = B
          /\ pc'[t] = "map" /\ todo'[t] = n /\ va'[t] = w /\ cur' = cur /\ child' = child
      BY <1>1, <1>5 DEF Mapped, ChildBrk, m, B
    <3>7. n # <<>> => Head(n).s .. w - 1 \subseteq Mapped(m)
      BY <3>3
    <3> QED
      BY <2>3, <3>1, <3>2, <3>4, <3>5, <3>6, <3>7, <1>11 DEF NewAreas
  <2>4. NewLayout(t)'
    <3>1. (Clean(t)' <=> Clean(t)) /\ child' = child /\ cur' = cur
      BY <1>1 DEF Clean
    <3> QED
      BY <2>3, <3>1, <1>8 DEF NewLayout
  <2> QED
    BY <2>1, <2>2, <2>4 DEF Layout
<1> QED
  BY <1>13, <1>14 DEF LayoutInv

\* mm_mappages() maps one page more of the area at hand.
LEMMA LayoutMapPage ==
    ASSUME LayoutInv, PageInv', NEW t \in Task, MapPage(t)
    PROVE  LayoutInv'
<1> DEFINE m == new[t]
           v == va[t]
           a == Head(todo[t])
           page == Nth(Len(Missing(m, v)) + 1)
<1>1. /\ pc[t] = "map" /\ todo[t] # <<>> /\ Enough(m, v, 1)
      /\ tab' = [tab EXCEPT ![m] = Walked(m, v)]
      /\ pte' = [pte EXCEPT ![m][v] = page]
      /\ va' = [va EXCEPT ![t] = v + 1]
      /\ UNCHANGED <<lost, root, vmas, cur, brk, pc, new, child, todo, end, overrun>>
  BY DEF MapPage, Mapping
<1>2. m \in Mm /\ m # NoMm /\ v \in Va /\ v \in Int
  <2>1. m # NoMm
    BY <1>1 DEF LayoutInv, PageInv, SpaceInv, OwnSpaces
  <2>2. m \in Mm \cup {NoMm} /\ v \in 0 .. VaTop - 2
    BY DEF LayoutInv, PageInv, SpaceInv, OperTypes
  <2> QED
    BY <2>1, <2>2, ConstantsLemma
<1>3. page # NoPage
  <2>1. free \subseteq Page
    BY DEF LayoutInv, PageInv, SpaceInv, SpaceTypes
  <2>2. page \in free
    <3> HIDE DEF m, v
    <3> QED
      BY <1>1, <1>2, <2>1, WalkedLemma
  <2> QED
    BY <2>1, <2>2, ConstantsLemma
<1>4. /\ \A n \in Mm \ {m} : tab'[n] = tab[n] /\ pte'[n] = pte[n]
      /\ pte'[m][v] = page
      /\ \A w \in Va : pte[m][w] # NoPage /\ w # v => pte'[m][w] # NoPage
      /\ va'[t] = v + 1 /\ \A u \in Task \ {t} : va'[u] = va[u]
  BY <1>1, <1>2 DEF LayoutInv, PageInv, SpaceInv, SpaceTypes, OperTypes
<1>5. OnlyIn(t, m)
  <2>1. UNCHANGED <<root, vmas, cur, new, pc, child, todo, end>>
    BY <1>1
  <2> QED
    BY <2>1, <1>2, <1>4 DEF OnlyIn
<1>6. \A u \in Task \ {t} : Layout(u)'
  BY <1>1, <1>2, <1>5, LayoutOnlyIn
<1>7. NewLayout(t) /\ CurLayout(t)
  BY DEF LayoutInv, Layout
<1>8. Layout(t)'
  <2>1. CurLayout(t)'
    <3>1. cur[t] # NoMm => pte'[cur[t]] = pte[cur[t]]
      <4>1. cur[t] # m /\ cur[t] \in Mm \cup {NoMm}
        BY <1>2 DEF LayoutInv, PageInv, SpaceInv, OwnSpaces, OperTypes
      <4> QED
        BY <4>1, <1>4
    <3> QED
      BY <3>1, <1>1, <1>7 DEF CurLayout, Mapped
  <2>2. RemapLayout(t)'
    BY <1>1 DEF RemapLayout, InRemap
  <2>3. Mapped(m) \cup {v} \subseteq (Mapped(new[t]))'
    BY <1>1, <1>2, <1>3, <1>4 DEF Mapped
  <2>4. a.s .. ((v + 1) - 1) \subseteq (a.s .. v - 1) \cup {v}
    <3>1. a.s \in Int
      BY <1>1, TodoLemma DEF LayoutInv, PageInv, SpaceInv, BoundedAreas
    <3> HIDE DEF a, v
    <3> QED
      BY <3>1, <1>2
  <2>5. ChildBrk(t)' = ChildBrk(t) /\ (Clean(t)' <=> Clean(t))
    BY <1>1 DEF ChildBrk, Clean
  <2>6. ASSUME Clean(t) PROVE NewAreas(t)'
    <3>1. NewAreas(t)
      BY <2>6, <1>1, <1>7 DEF NewLayout
    <3>2. a.s .. va'[t] - 1 \subseteq (Mapped(new[t]))'
      BY <2>3, <2>4, <3>1, <1>1, <1>4 DEF NewAreas
    <3>3. Covered(vmas[m]) \subseteq (Mapped(new[t]))'
      BY <2>3, <3>1 DEF NewAreas
    <3> QED
      BY <2>5, <3>1, <3>2, <3>3, <1>1 DEF NewAreas
  <2>7. NewLayout(t)'
    BY <2>5, <2>6, <1>1, <1>7 DEF NewLayout
  <2> QED
    BY <2>1, <2>2, <2>7 DEF Layout
<1> QED
  BY <1>6, <1>8 DEF LayoutInv

\* The address space of a failed fork() or exec() goes.
LEMMA LayoutMapFail ==
    ASSUME LayoutInv, PageInv', NEW t \in Task, MapFail(t)
    PROVE  LayoutInv'
<1> DEFINE m == new[t]
<1>1. /\ pc[t] = "map" /\ Drop(m) /\ Finish(t) /\ UNCHANGED <<cur, brk, overrun>>
      /\ PageInv
  BY DEF MapFail, Mapping, LayoutInv
<1>2. /\ \A u \in Task : cur[u] \in Mm \cup {NoMm} /\ new[u] \in Mm \cup {NoMm}
      /\ OwnSpaces
  BY <1>1 DEF PageInv, SpaceInv, OperTypes
<1>3. m \in Mm /\ m # NoMm /\ \A u \in Task : cur[u] # m /\ (u # t => new[u] # m)
  BY <1>1, <1>2 DEF OwnSpaces
<1>4. \A n \in Mm \ {m} : pte'[n] = pte[n] /\ vmas'[n] = vmas[n]
  BY <1>1, <1>3, DropStep
<1>5. /\ pc'[t] = "user" /\ todo'[t] = <<>>
      /\ \A u \in Task \ {t} :
            /\ pc'[u] = pc[u] /\ new'[u] = new[u] /\ child'[u] = child[u]
            /\ todo'[u] = todo[u] /\ va'[u] = va[u] /\ end'[u] = end[u]
  BY <1>1, FinishLemma
<1>8. ASSUME NEW u \in Task \ {t} PROVE Layout(u)'
  <2>1. cur[u] # NoMm => cur[u] \in Mm \ {m}
    BY <1>2, <1>3
  <2>2. new[u] # NoMm => new[u] \in Mm \ {m}
    BY <1>2, <1>3
  <2>3. /\ Untouched(u) /\ brk'[u] = brk[u] /\ child'[u] = child[u]
        /\ (u \in overrun' <=> u \in overrun)
    BY <2>1, <2>2, <1>1, <1>4, <1>5 DEF Untouched
  <2> QED
    BY <2>3, LayoutUntouched DEF LayoutInv
<1>9. Layout(t)'
  <2>1. cur[t] # NoMm => pte'[cur[t]] = pte[cur[t]] /\ vmas'[cur[t]] = vmas[cur[t]]
    BY <1>2, <1>3, <1>4
  <2>2. CurLayout(t)'
    BY <2>1, <1>1 DEF LayoutInv, Layout, CurLayout, Mapped
  <2> QED
    BY <2>2, <1>5 DEF Layout, RemapLayout, InRemap, NewLayout
<1> QED
  BY <1>8, <1>9 DEF LayoutInv

\* A freed process has no layout.
LEMMA LayoutFreeProc ==
    ASSUME LayoutInv, PageInv', NEW t \in Task, FreeProc(t)
    PROVE  LayoutInv'
<1> DEFINE m == cur[t]
<1>1. /\ pc[t] = "user" /\ m # NoMm /\ Drop(m)
      /\ cur' = [cur EXCEPT ![t] = NoMm] /\ brk' = [brk EXCEPT ![t] = 0]
      /\ overrun' = overrun \ {t} /\ UNCHANGED <<pc, oper>> /\ PageInv
  BY DEF FreeProc, Ready, LayoutInv
<1>2. /\ \A u \in Task : cur[u] \in Mm \cup {NoMm} /\ new[u] \in Mm \cup {NoMm}
      /\ OwnSpaces
  BY <1>1 DEF PageInv, SpaceInv, OperTypes
<1>3. m \in Mm /\ \A u \in Task : new[u] # m /\ (u # t => cur[u] # m)
  BY <1>1, <1>2 DEF OwnSpaces
<1>4. \A n \in Mm \ {m} : pte'[n] = pte[n] /\ vmas'[n] = vmas[n]
  BY <1>1, <1>3, DropStep
<1>5. /\ cur'[t] = NoMm
      /\ \A u \in Task \ {t} : cur'[u] = cur[u] /\ brk'[u] = brk[u]
  BY <1>1 DEF PageInv, SpaceInv, OperTypes
<1>8. ASSUME NEW u \in Task \ {t} PROVE Layout(u)'
  <2>1. cur[u] # NoMm => cur[u] \in Mm \ {m}
    BY <1>2, <1>3
  <2>2. new[u] # NoMm => new[u] \in Mm \ {m}
    BY <1>2, <1>3
  <2>3. /\ Untouched(u) /\ brk'[u] = brk[u] /\ child'[u] = child[u]
        /\ (u \in overrun' <=> u \in overrun)
    BY <2>1, <2>2, <1>1, <1>4, <1>5 DEF Untouched, oper
  <2> QED
    BY <2>3, LayoutUntouched DEF LayoutInv
<1>9. Layout(t)'
  BY <1>1, <1>5 DEF Layout, CurLayout, RemapLayout, InRemap, NewLayout
<1> QED
  BY <1>8, <1>9 DEF LayoutInv

\* The finished address space becomes that of the child, or of exec()'s caller.
LEMMA LayoutMapDone ==
    ASSUME LayoutInv, PageInv', NEW t \in Task, MapDone(t),
           NEW c \in Task, c = child[t]
    PROVE  LayoutInv'
<1> DEFINE old == cur[t]
           m == new[t]
           B == ChildBrk(t)
<1>1. /\ pc[t] = "map" /\ todo[t] = <<>> /\ PageInv
      /\ cur' = [cur EXCEPT ![c] = m]
      /\ brk' = [brk EXCEPT ![c] = B]
      /\ overrun' = {u \in Task : IF u = c THEN c # t /\ t \in overrun ELSE u \in overrun}
      /\ Finish(t)
      /\ \/ c = t /\ old # NoMm /\ Drop(old)
         \/ ~(c = t /\ old # NoMm) /\ UNCHANGED <<pte, vmas>>
  BY DEF MapDone, ChildBrk, LayoutInv
<1>2. /\ \A u \in Task : cur[u] \in Mm \cup {NoMm} /\ new[u] \in Mm \cup {NoMm}
      /\ OwnSpaces /\ Children
  BY <1>1 DEF PageInv, SpaceInv, OperTypes
<1>3. m \in Mm /\ m # NoMm /\ \A u \in Task : cur[u] # m /\ (u # t => new[u] # m)
  BY <1>1, <1>2 DEF OwnSpaces
<1>4. \A n \in Mm : n # old \/ c # t => pte'[n] = pte[n] /\ vmas'[n] = vmas[n]
  <2>1. CASE c = t /\ old # NoMm /\ Drop(old)
    <3>1. old \in Mm
      BY <2>1, <1>2
    <3>2. \A n \in Mm \ {old} : pte'[n] = pte[n] /\ vmas'[n] = vmas[n]
      BY <2>1, <3>1, <1>1, DropStep
    <3> QED
      BY <2>1, <3>2
  <2>2. CASE UNCHANGED <<pte, vmas>>
    BY <2>2
  <2> QED
    BY <1>1, <2>1, <2>2
<1>5. /\ cur'[c] = m /\ brk'[c] = B
      /\ \A u \in Task \ {c} : cur'[u] = cur[u] /\ brk'[u] = brk[u]
  BY <1>1 DEF PageInv, SpaceInv, OperTypes
<1>6. /\ pc'[t] = "user" /\ todo'[t] = <<>>
      /\ \A u \in Task \ {t} :
            /\ pc'[u] = pc[u] /\ new'[u] = new[u] /\ child'[u] = child[u]
            /\ todo'[u] = todo[u] /\ va'[u] = va[u] /\ end'[u] = end[u]
  BY <1>1, FinishLemma
<1>7. c = t \/ cur[c] = NoMm
  BY <1>1, <1>2 DEF Children
<1>8. /\ c \in overrun' <=> c # t /\ t \in overrun
      /\ \A u \in Task \ {c} : u \in overrun' <=> u \in overrun
  BY <1>1
<1>10. \A u \in Task \ {t} : cur[u] # NoMm => cur[u] \in Mm /\ (cur[u] # old \/ c # t)
  BY <1>2 DEF OwnSpaces
<1>11. \A u \in Task \ {t} : new[u] # NoMm => new[u] \in Mm /\ (new[u] # old \/ c # t)
  BY <1>2 DEF OwnSpaces
<1>12. ASSUME NEW u \in Task, u # t, u # c PROVE Layout(u)'
  <2>1. /\ Untouched(u) /\ brk'[u] = brk[u] /\ child'[u] = child[u]
        /\ (u \in overrun' <=> u \in overrun)
    BY <1>4, <1>5, <1>6, <1>8, <1>10, <1>11, <1>12 DEF Untouched
  <2> QED
    BY <2>1, LayoutUntouched DEF LayoutInv
<1>13. CurLayout(c)'
  <2> SUFFICES ASSUME c \notin overrun' PROVE CurLayout(c)'
    BY DEF CurLayout
  <2>1. NewLayout(t) /\ Clean(t)
    BY <1>8 DEF LayoutInv, Layout, Clean
  <2>2. ~HasStack(<<>>)
    BY DEF HasStack
  <2>3. /\ Plain(vmas[m]) /\ HasStack(vmas[m]) /\ Covered(vmas[m]) \subseteq Mapped(m)
        /\ HoldsBrk(vmas[m], B)
    BY <2>1, <2>2, <1>1 DEF NewLayout, NewAreas
  <2>4. pte'[m] = pte[m] /\ vmas'[m] = vmas[m]
    BY <1>3, <1>4
  <2>5. (Mapped(cur[c]))' = Mapped(m) /\ vmas'[cur'[c]] = vmas[m]
    BY <2>4, <1>5 DEF Mapped
  <2> HIDE DEF B, m
  <2> QED
    BY <2>3, <2>5, <1>5 DEF CurLayout
<1>14. CASE c = t
  <2>1. Layout(t)'
    BY <1>6, <1>13, <1>14 DEF Layout, RemapLayout, InRemap, NewLayout
  <2> QED
    BY <2>1, <1>12, <1>14 DEF LayoutInv
<1>15. CASE c # t
  <2>1. Layout(t)'
    <3>1. cur'[t] = cur[t] /\ brk'[t] = brk[t]
          /\ \A n \in Mm : pte'[n] = pte[n] /\ vmas'[n] = vmas[n]
      BY <1>4, <1>5, <1>15
    <3>2. cur[t] # NoMm => /\ (Mapped(cur[t]))' = Mapped(cur[t])
                           /\ vmas'[cur'[t]] = vmas[cur[t]]
      BY <3>1, <1>2 DEF Mapped
    <3>3. CurLayout(t)'
      BY <3>1, <3>2, <1>8, <1>15 DEF LayoutInv, Layout, CurLayout
    <3> QED
      BY <3>3, <1>6 DEF Layout, RemapLayout, InRemap, NewLayout
  <2>2. Layout(c)'
    <3>1. ~InRemap(c)'
      <4>1. cur[c] = NoMm
        BY <1>7, <1>15
      <4>2. ~InRemap(c)
        BY <4>1, <1>1, RemapLemma
      <4> QED
        BY <4>2, <1>6, <1>15 DEF InRemap
    <3>2. RemapLayout(c)'
      BY <3>1 DEF RemapLayout
    <3>3. NewLayout(c)'
      <4>1. CASE pc[c] # "map"
        BY <4>1, <1>6, <1>15 DEF NewLayout
      <4>2. CASE pc[c] = "map"
        <5>1. new[c] \in Mm
          BY <4>2, <1>2 DEF OwnSpaces
        <5>2. child[c] = c
          <6>1. NewLayout(c)
            BY DEF LayoutInv, Layout
          <6> QED
            BY <6>1, <4>2, <1>7, <1>15 DEF NewLayout
        <5> QED
          BY <5>2, <4>2, <1>1, <1>2, <1>15 DEF Children
      <4> QED
        BY <4>1, <4>2
    <3> QED
      BY <3>2, <3>3, <1>13 DEF Layout
  <2> QED
    BY <2>1, <2>2, <1>12 DEF LayoutInv
<1> QED
  BY <1>14, <1>15

\* The heap of t: it ends below the stack and with the page of brk.
LEMMA HeapLayout ==
    ASSUME LayoutInv, NEW t \in Task, cur[t] # NoMm, t \notin overrun
    PROVE  /\ cur[t] \in Mm /\ vmas[cur[t]] \in Seq(UserArea) /\ Plain(vmas[cur[t]])
           /\ HeapAt(t) \in DOMAIN vmas[cur[t]]
           /\ Heap(t) = vmas[cur[t]][HeapAt(t)] /\ Heap(t).s = HeapStart
           /\ Heap(t).e \in HeapStart .. Stack.s
           /\ brk[t] \in HeapStart * PGSIZE .. Heap(t).e * PGSIZE
           /\ PageUp(brk[t]) = Heap(t).e
<1>1. cur[t] \in Mm /\ HasHeap(vmas[cur[t]])
  BY DEF LayoutInv, PageInv, SpaceInv, OperTypes, Within, HeapThere
<1>2. vmas[cur[t]] \in Seq(UserArea) /\ Plain(vmas[cur[t]])
  BY <1>1 DEF LayoutInv, PageInv, SpaceInv, BoundedAreas, Layout, CurLayout
<1>3. /\ HeapAt(t) \in DOMAIN vmas[cur[t]]
      /\ Heap(t) = vmas[cur[t]][HeapAt(t)] /\ Heap(t).s = HeapStart
  BY <1>1, <1>2, HeapLemma
<1>4. Heap(t).e \in HeapStart .. Stack.s
  <2>1. Known(Heap(t))
    BY <1>2, <1>3 DEF Plain
  <2>2. Heap(t) # Prog /\ Heap(t) # Stack
    <3>1. HeapStart \in Nat /\ HeapStart >= 1 /\ HeapStart < Stack.s /\ Stack.s \in Nat
      BY ConstantsLemma, LayoutConstants
    <3>2. Prog.s = 0
      BY DEF Prog
    <3> QED
      BY <1>3, <3>1, <3>2
  <2> QED
    BY <2>1, <2>2 DEF Known
<1>5. HoldsBrk(vmas[cur[t]], brk[t])
  BY DEF LayoutInv, Layout, CurLayout
<1> QED
  BY <1>1, <1>2, <1>3, <1>4, <1>5 DEF HoldsBrk

\* A brk whose page number does not wrap around to 0 lies in that page.
LEMMA NewBrkLemma ==
    ASSUME NEW b \in 0 .. Word - 1, PageUp(b) >= 1
    PROVE  PageUp(b) \in Nat /\ b <= PageUp(b) * PGSIZE
<1> DEFINE x == (b + PGSIZE) - 1
           y == x % Word
           u == y \div PGSIZE
<1>1. PGSIZE \in Nat /\ PGSIZE > 0 /\ Word \in Nat /\ Word > PGSIZE
  <2>1. PGSIZE \in Nat /\ PGSIZE > 0 /\ Word \in Nat /\ VaTop \in Nat
        /\ Word > VaTop * PGSIZE /\ VaTop >= 1
    BY ConstantsLemma, VmAssumption
  <2>2. \A i, c \in Nat : i >= 1 => i * c >= c /\ i * c \in Nat
    OBVIOUS
  <2> QED
    BY <2>1, <2>2
<1>2. x \in Nat /\ b \in Nat /\ x = b + (PGSIZE - 1) /\ b < Word
  BY <1>1
<1>3. PageUp(b) = u
  BY <1>1, <1>2 DEF PageUp
<1>4. y \in Nat /\ (x < Word => y = x) /\ (x >= Word => y = x - Word)
  <2>1. x < Word + Word
    BY <1>1, <1>2
  <2>2. \A w \in Nat, i \in Nat : w > 0 /\ i < w + w =>
          /\ i % w \in Nat /\ (i < w => i % w = i) /\ (i >= w => i % w = i - w)
    OBVIOUS
  <2> HIDE DEF x
  <2> QED
    BY <2>1, <2>2, <1>1, <1>2
<1>5. u \in Nat /\ y < u * PGSIZE + PGSIZE /\ u * PGSIZE <= y /\ u * PGSIZE \in Nat
  <2>1. \A i, c \in Nat : c > 0 => /\ (i \div c) \in Nat /\ (i \div c) * c <= i
                                   /\ i < (i \div c) * c + c /\ (i \div c) * c \in Nat
    OBVIOUS
  <2> HIDE DEF y
  <2> QED
    BY <2>1, <1>1, <1>4
<1> HIDE DEF u, y
<1>6. u * PGSIZE >= PGSIZE
  <2>1. \A i, c \in Nat : i >= 1 => i * c >= c
    OBVIOUS
  <2>2. u >= 1
    BY <1>3
  <2> QED
    BY <2>1, <2>2, <1>1, <1>5
<1>7. x < Word
  <2> SUFFICES ASSUME x >= Word PROVE FALSE
    BY <1>1, <1>2
  <2>1. y = x - Word
    BY <1>4
  <2> HIDE DEF x
  <2> QED
    BY <2>1, <1>1, <1>2, <1>5, <1>6
<1> QED
  <2>1. b + (PGSIZE - 1) < u * PGSIZE + PGSIZE
    BY <1>2, <1>4, <1>5, <1>7
  <2> QED
    BY <2>1, <1>1, <1>2, <1>3, <1>5

\* brk is unsigned.
LEMMA NewBrkType ==
    ASSUME PageInv, NEW t \in Task, NEW n \in Increments
    PROVE  NewBrk(t, n) \in 0 .. Word - 1
<1>1. brk[t] \in Int /\ n \in Int /\ Word \in Nat /\ Word > 0
  BY VmAssumption, ConstantsLemma DEF PageInv, SpaceInv, OperTypes
<1>2. \A x \in Int, w \in Nat : w > 0 => x % w \in 0 .. w - 1
  OBVIOUS
<1>3. brk[t] + n \in Int
  BY <1>1
<1> QED
  BY <1>1, <1>2, <1>3 DEF NewBrk

\* sbrk() within the last page of the heap.
LEMMA LayoutSbrkNear ==
    ASSUME LayoutInv, PageInv', NEW t \in Task, SbrkNear(t)
    PROVE  LayoutInv'
<1>1. PICK n \in Increments :
        /\ pc[t] = "user" /\ cur[t] # NoMm
        /\ NewBrk(t, n) >= HeapStart * PGSIZE /\ PageUp(NewBrk(t, n)) = Heap(t).e
        /\ brk' = [brk EXCEPT ![t] = NewBrk(t, n)]
        /\ UNCHANGED <<space, cur, pc, oper, overrun>>
  BY DEF SbrkNear, Ready
<1> DEFINE b == NewBrk(t, n)
           m == cur[t]
<1>2. b \in 0 .. Word - 1
  BY NewBrkType DEF LayoutInv
<1>3. ASSUME t \notin overrun
      PROVE  HoldsBrk(vmas[m], b)
  <2>1. /\ HeapAt(t) \in DOMAIN vmas[m] /\ Heap(t) = vmas[m][HeapAt(t)]
        /\ Heap(t).s = HeapStart /\ Plain(vmas[m]) /\ Heap(t).e \in HeapStart .. Stack.s
    BY <1>1, <1>3, HeapLayout
  <2>2. PageUp(b) = Heap(t).e /\ b >= HeapStart * PGSIZE
    BY <1>1
  <2>3. HeapStart \in Nat /\ HeapStart >= 1 /\ PGSIZE \in Nat /\ HeapStart * PGSIZE \in Int
    BY ConstantsLemma
  <2> HIDE DEF b
  <2>4. PageUp(b) >= 1
    BY <2>1, <2>2, <2>3
  <2>5. b <= Heap(t).e * PGSIZE /\ Heap(t).e \in Nat
    BY <2>2, <2>4, <1>2, NewBrkLemma
  <2>6. Heap(t).e * PGSIZE \in Int
    BY <2>3, <2>5
  <2>7. b \in HeapStart * PGSIZE .. Heap(t).e * PGSIZE
    BY <2>2, <2>3, <2>5, <2>6, <1>2
  <2> QED
    BY <2>1, <2>2, <2>7 DEF HoldsBrk, Plain
<1>6. brk'[t] = b /\ \A u \in Task \ {t} : brk'[u] = brk[u]
  BY <1>1 DEF LayoutInv, PageInv, SpaceInv, OperTypes
<1> HIDE DEF b
<1>7. ASSUME NEW u \in Task \ {t} PROVE Layout(u)'
  <2>1. /\ Untouched(u) /\ child'[u] = child[u] /\ brk'[u] = brk[u]
        /\ (u \in overrun' <=> u \in overrun)
    BY <1>1, <1>6 DEF Untouched, space, oper
  <2> QED
    BY <2>1, LayoutUntouched DEF LayoutInv
<1>8. Layout(t)'
  <2>1. UNCHANGED <<pte, vmas, cur, pc>> /\ pc[t] = "user"
    BY <1>1 DEF space
  <2>2. CurLayout(t)'
    BY <2>1, <1>1, <1>3, <1>6 DEF LayoutInv, Layout, CurLayout, Mapped
  <2> QED
    BY <2>1, <2>2 DEF Layout, RemapLayout, InRemap, NewLayout
<1> QED
  BY <1>7, <1>8 DEF LayoutInv

\* sbrk() begins to move the end of the heap, which stays below the stack.
LEMMA LayoutSbrkFar ==
    ASSUME LayoutInv, PageInv', NEW t \in Task, SbrkFar(t)
    PROVE  LayoutInv'
<1>1. PICK n \in Increments :
        /\ pc[t] = "user" /\ cur[t] # NoMm
        /\ NewBrk(t, n) >= HeapStart * PGSIZE
        /\ RemapAllowed(t, PageUp(NewBrk(t, n)))
        /\ pc' = [pc EXCEPT ![t] = "remap"]
        /\ va' = [va EXCEPT ![t] = HeapStart]
        /\ end' = [end EXCEPT ![t] = NewBrk(t, n)]
        /\ overrun' = IF PageUp(NewBrk(t, n)) \in HeapStart .. Stack.e
                      THEN overrun ELSE overrun \cup {t}
        /\ UNCHANGED <<space, cur, brk, new, child, todo>>
  BY DEF SbrkFar, Ready
<1> DEFINE b == NewBrk(t, n)
           m == cur[t]
           up == PageUp(b)
<1>2. b \in 0 .. Word - 1 /\ b >= HeapStart * PGSIZE
  BY <1>1, NewBrkType DEF LayoutInv
<1>3. RemapAllowed(t, up)
  BY <1>1
<1>4. /\ t \in overrun' \/ (t \notin overrun /\ up \in HeapStart .. Stack.e)
      /\ \A u \in Task \ {t} : u \in overrun' <=> u \in overrun
  BY <1>1
<1>5. /\ pc'[t] = "remap" /\ va'[t] = HeapStart /\ end'[t] = b
      /\ \A u \in Task \ {t} : pc'[u] = pc[u] /\ va'[u] = va[u] /\ end'[u] = end[u]
  BY <1>1 DEF LayoutInv, PageInv, SpaceInv, OperTypes
<1>6. ASSUME NEW u \in Task \ {t} PROVE Layout(u)'
  <2>1. /\ Untouched(u) /\ child'[u] = child[u] /\ brk'[u] = brk[u]
        /\ (u \in overrun' <=> u \in overrun)
    BY <1>1, <1>4, <1>5 DEF Untouched, space
  <2> QED
    BY <2>1, LayoutUntouched DEF LayoutInv
<1> HIDE DEF b
<1>7. ASSUME t \notin overrun' PROVE Layout(t)'
  <2>1. /\ m \in Mm /\ HeapAt(t) \in DOMAIN vmas[m] /\ Heap(t) = vmas[m][HeapAt(t)]
        /\ Heap(t).s = HeapStart /\ Plain(vmas[m])
    BY <1>1, <1>4, <1>7, HeapLayout
  <2>2. up \in HeapStart .. Stack.e /\ t \notin overrun
    BY <1>4, <1>7
  <2>3. /\ Stack.s \in Nat /\ Stack.e \in Nat /\ HeapStart \in Nat /\ HeapStart < Stack.s
        /\ HeapStart >= 1
    BY ConstantsLemma, LayoutConstants
  <2>4. up >= 1 /\ up \in Nat
    BY <2>2, <2>3
  <2>5. b <= up * PGSIZE
    BY <2>4, <1>2, NewBrkLemma
  <2> HIDE DEF up
  <2>6. up \in HeapStart .. Stack.s
    <3>1. CASE up = HeapStart
      BY <2>3, <3>1
    <3>2. CASE up # HeapStart
      <4>1. Stack \in Others(t)
        <5>1. PICK i \in DOMAIN vmas[m] : vmas[m][i] = Stack
          BY <2>2, <1>1 DEF LayoutInv, Layout, CurLayout, HasStack
        <5>2. i # HeapAt(t)
          BY <5>1, <2>1, <2>3
        <5> QED
          BY <5>1, <5>2 DEF Others
      <4>2. ~Overlap([s |-> HeapStart, e |-> up], Others(t))
        BY <1>3 DEF RemapAllowed
      <4>3. ~(up > Stack.s /\ up <= Stack.e)
        BY <3>2, <4>1, <4>2 DEF Overlap
      <4> QED
        BY <4>3, <2>2, <2>3
    <3> QED
      BY <3>1, <3>2
  <2>7. b \in HeapStart * PGSIZE .. up * PGSIZE
    <3>1. HeapStart * PGSIZE \in Int /\ up * PGSIZE \in Int
      BY <2>4, ConstantsLemma
    <3> QED
      BY <3>1, <2>5, <1>2
  <2>8. UNCHANGED <<pte, vmas, cur, brk>>
    BY <1>1 DEF space
  <2>9. CurLayout(t)'
    BY <2>2, <2>8 DEF LayoutInv, Layout, CurLayout, Mapped
  <2>10. HeapStart .. HeapStart - 1 = {}
    BY <2>3
  <2>11. (PageUp(end[t]))' = up
    BY <1>5 DEF PageUp, up
  <2>12. RemapLayout(t)'
    BY <2>6, <2>7, <2>10, <2>11, <1>5 DEF RemapLayout
  <2> QED
    BY <2>9, <2>12, <1>5 DEF Layout, NewLayout
<1>8. CASE t \in overrun'
  BY <1>5, <1>6, <1>8, LayoutOverrun DEF LayoutInv
<1> QED
  BY <1>6, <1>7, <1>8 DEF LayoutInv

\* The first loop of mm_remap() only adds pages.
LEMMA LayoutRemapPage ==
    ASSUME LayoutInv, PageInv', NEW t \in Task, RemapPage(t)
    PROVE  /\ LayoutInv'
           /\ t \notin overrun =>
                \A v \in Covered(vmas[cur[t]]) : pte'[cur[t]][v] = pte[cur[t]][v]
           /\ \A n \in Mm \ {cur[t]} : pte'[n] = pte[n]
<1> DEFINE m == cur[t]
           v == va[t]
           page == Nth(Len(Missing(m, v)) + 1)
<1>1. /\ pc[t] = "remap" /\ PageInv
      /\ va' = [va EXCEPT ![t] = v + 1]
      /\ UNCHANGED <<lost, root, vmas, cur, brk, pc, new, child, todo, end, overrun>>
      /\ \/ pte[m][v] # NoPage /\ UNCHANGED <<tab, pte>>
         \/ /\ pte[m][v] = NoPage /\ Enough(m, v, 1)
            /\ tab' = [tab EXCEPT ![m] = Walked(m, v)]
            /\ pte' = [pte EXCEPT ![m][v] = page]
  BY DEF RemapPage, Remapping, LayoutInv
<1>2. InRemap(t) /\ InRemap(t)'
  BY <1>1 DEF InRemap
<1>3. m \in Mm /\ m # NoMm /\ v \in Va /\ v \in Int
  <2>1. m \in Mm /\ m # NoMm /\ v \in Va /\ v \in 0 .. VaTop - 2
    BY <1>1, <1>2, RemapLemma
  <2> QED
    BY <2>1
<1>4. Enough(m, v, 1) => page # NoPage
  <2>1. free \subseteq Page
    BY DEF LayoutInv, PageInv, SpaceInv, SpaceTypes
  <2> SUFFICES ASSUME Enough(m, v, 1) PROVE page # NoPage
    OBVIOUS
  <2>2. page \in free
    <3> HIDE DEF m, v
    <3> QED
      BY <1>3, <2>1, WalkedLemma
  <2> QED
    BY <2>1, <2>2, ConstantsLemma
<1>5. /\ \A n \in Mm \ {m} : tab'[n] = tab[n] /\ pte'[n] = pte[n]
      /\ pte'[m][v] # NoPage
      /\ \A w \in Va : pte[m][w] # NoPage => pte'[m][w] = pte[m][w]
  <2>1. tab \in [Mm -> [Table -> Maybe]] /\ pte \in [Mm -> [Va -> Maybe]]
    BY <1>1 DEF PageInv, SpaceInv, SpaceTypes
  <2>2. CASE pte[m][v] # NoPage /\ UNCHANGED <<tab, pte>>
    BY <2>2
  <2>3. CASE /\ pte[m][v] = NoPage /\ page # NoPage
             /\ tab' = [tab EXCEPT ![m] = Walked(m, v)]
             /\ pte' = [pte EXCEPT ![m][v] = page]
    <3> HIDE DEF m, v, page
    <3>1. \A n \in Mm \ {m} : tab'[n] = tab[n] /\ pte'[n] = pte[n]
      BY <2>1, <2>3, <1>3
    <3>2. pte'[m] = [pte[m] EXCEPT ![v] = page] /\ pte[m] \in [Va -> Maybe]
      BY <2>1, <2>3, <1>3
    <3> QED
      BY <3>1, <3>2, <2>3, <1>3
  <2> QED
    BY <2>2, <2>3, <1>1, <1>4
<1>6. va'[t] = v + 1 /\ \A u \in Task \ {t} : va'[u] = va[u]
  BY <1>1 DEF PageInv, SpaceInv, OperTypes
<1>7. OnlyIn(t, m)
  <2>1. UNCHANGED <<root, vmas, cur, new, pc, child, todo, end>>
    BY <1>1
  <2> QED
    BY <2>1, <1>3, <1>5, <1>6 DEF OnlyIn
<1>8. \A u \in Task \ {t} : Layout(u)'
  BY <1>1, <1>3, <1>7, LayoutOnlyIn
<1>9. CurLayout(t) /\ RemapLayout(t)
  BY DEF LayoutInv, Layout
<1>10. t \notin overrun => Covered(vmas[m]) \subseteq Mapped(m)
  BY <1>3, <1>9 DEF CurLayout
<1>11. ASSUME t \notin overrun PROVE Layout(t)'
  <2>1. Mapped(m) \cup {v} \subseteq (Mapped(cur[t]))' /\ overrun' = overrun
    BY <1>1, <1>3, <1>5 DEF Mapped
  <2>2. CurLayout(t)'
    BY <2>1, <1>1, <1>9, <1>11 DEF CurLayout
  <2>3. HeapStart .. ((v + 1) - 1) \subseteq (HeapStart .. v - 1) \cup {v}
    <3>1. HeapStart \in Int
      BY ConstantsLemma
    <3> HIDE DEF v
    <3> QED
      BY <3>1, <1>3
  <2>4. HeapStart .. va'[t] - 1 \subseteq (Mapped(cur[t]))'
    BY <2>1, <2>3, <1>2, <1>6, <1>9, <1>11 DEF RemapLayout
  <2>5. (PageUp(end[t]))' = PageUp(end[t])
    BY <1>1 DEF PageUp
  <2>6. RemapLayout(t)'
    BY <2>4, <2>5, <1>1, <1>2, <1>9, <1>11 DEF RemapLayout
  <2> QED
    BY <2>2, <2>6, <1>1 DEF Layout, NewLayout
<1>12. ASSUME t \in overrun PROVE Layout(t)'
  BY <1>1, <1>12, LayoutOverrun
<1>13. t \notin overrun => \A w \in Covered(vmas[m]) : pte'[m][w] = pte[m][w]
  BY <1>5, <1>10 DEF Mapped
<1> QED
  BY <1>5, <1>8, <1>11, <1>12, <1>13 DEF LayoutInv

\* The first loop of mm_remap() ends, with or without success.
LEMMA LayoutRemapMoves ==
    ASSUME LayoutInv, PageInv', NEW t \in Task,
           RemapNoPage(t) \/ RemapMapped(t)
    PROVE  LayoutInv' /\ pte' = pte
<1>1. /\ pc[t] = "remap" /\ UNCHANGED <<pte, vmas, cur, brk, oper, overrun>>
      /\ \/ pc' = [pc EXCEPT ![t] = "err"]
         \/ pc' = [pc EXCEPT ![t] = "trim"] /\ va[t] >= PageUp(end[t])
  BY DEF RemapNoPage, RemapMapped, Remapping, space
<1>2. /\ pc'[t] = "err" \/ (pc'[t] = "trim" /\ va[t] >= PageUp(end[t]))
      /\ \A u \in Task \ {t} : pc'[u] = pc[u]
  BY <1>1 DEF LayoutInv, PageInv, SpaceInv, OperTypes
<1>3. ASSUME NEW u \in Task \ {t} PROVE Layout(u)'
  <2>1. /\ Untouched(u) /\ child'[u] = child[u] /\ brk'[u] = brk[u]
        /\ (u \in overrun' <=> u \in overrun)
    BY <1>1, <1>2 DEF Untouched, oper
  <2> QED
    BY <2>1, LayoutUntouched DEF LayoutInv
<1>4. Layout(t)'
  <2>1. CurLayout(t) /\ RemapLayout(t) /\ InRemap(t)
    BY <1>1 DEF LayoutInv, Layout, InRemap
  <2>2. CurLayout(t)'
    BY <2>1, <1>1 DEF CurLayout, Mapped
  <2>3. /\ (PageUp(end[t]))' = PageUp(end[t])
        /\ va' = va /\ end' = end /\ cur' = cur /\ overrun' = overrun
    BY <1>1 DEF PageUp, oper
  <2>4. (Mapped(cur[t]))' = Mapped(cur[t])
    BY <1>1 DEF Mapped
  <2>5. RemapLayout(t)'
    BY <2>1, <2>3, <2>4, <1>2 DEF RemapLayout
  <2> QED
    BY <2>2, <2>5, <1>2 DEF Layout, NewLayout
<1> QED
  BY <1>1, <1>3, <1>4 DEF LayoutInv

\* The end of mm_remap(): what it gives back is in none of the areas.
LEMMA LayoutRemapEnds ==
    ASSUME LayoutInv, PageInv', NEW t \in Task, InRemap(t),
           NEW S, Unmap(t, S), Finish(t), UNCHANGED <<root, tab, cur, overrun>>,
           \A n \in Mm \ {cur[t]} : vmas'[n] = vmas[n],
           \A u \in Task \ {t} : brk'[u] = brk[u],
           t \notin overrun =>
              /\ Plain(vmas'[cur[t]]) /\ HasStack(vmas'[cur[t]])
              /\ HoldsBrk(vmas'[cur[t]], brk'[t])
              /\ Covered(vmas'[cur[t]]) \subseteq Mapped(cur[t]) \ S
    PROVE  LayoutInv'
<1> DEFINE m == cur[t]
<1>1. m \in Mm /\ m # NoMm /\ new[t] = NoMm /\ pc[t] # "map" /\ PageInv
  BY RemapLemma DEF LayoutInv
<1>2. /\ \A n \in Mm \ {m} : pte'[n] = pte[n]
      /\ \A v \in Va \ S : pte'[m][v] = pte[m][v]
  BY <1>1 DEF Unmap, PageInv, SpaceInv, SpaceTypes
<1>3. /\ pc'[t] = "user" /\ new'[t] = NoMm /\ todo'[t] = <<>>
      /\ \A u \in Task \ {t} :
            /\ pc'[u] = pc[u] /\ new'[u] = new[u] /\ child'[u] = child[u]
            /\ todo'[u] = todo[u] /\ va'[u] = va[u] /\ end'[u] = end[u]
  BY <1>1, FinishLemma
<1>4. OnlyIn(t, m)
  BY <1>1, <1>2, <1>3 DEF OnlyIn
<1>5. \A u \in Task \ {t} : Layout(u)'
  BY <1>1, <1>4, LayoutOnlyIn
<1>6. Layout(t)'
  <2>1. t \notin overrun => Covered(vmas'[m]) \subseteq (Mapped(cur[t]))'
    BY <1>2 DEF Mapped
  <2>2. CurLayout(t)'
    BY <2>1 DEF CurLayout
  <2> QED
    BY <2>2, <1>3 DEF Layout, RemapLayout, InRemap, NewLayout
<1> QED
  BY <1>5, <1>6 DEF LayoutInv

\* A process that has overrun its heap does not disturb the others.
LEMMA LayoutOverrunEnds ==
    ASSUME LayoutInv, PageInv', NEW t \in Task, RemapErr(t) \/ RemapTrim(t),
           t \in overrun
    PROVE  LayoutInv'
<1>1. InRemap(t) /\ Finish(t) /\ UNCHANGED <<root, tab, cur, overrun>>
  BY DEF RemapErr, RemapTrim, Remapping, InRemap
<1>2. cur[t] \in Mm
  BY <1>1, RemapLemma DEF LayoutInv
<1>3. /\ \A n \in Mm \ {cur[t]} : vmas'[n] = vmas[n]
      /\ \A u \in Task \ {t} : brk'[u] = brk[u]
  BY <1>2 DEF RemapErr, RemapTrim, LayoutInv, PageInv, SpaceInv, BoundedAreas, OperTypes
<1>4. \E S : Unmap(t, S)
  BY Zenon DEF RemapErr, RemapTrim
<1> QED
  BY <1>1, <1>3, <1>4, LayoutRemapEnds

\* The error path of mm_remap() leaves the old areas as they were.
LEMMA LayoutRemapErr ==
    ASSUME LayoutInv, PageInv', NEW t \in Task, RemapErr(t), t \notin overrun
    PROVE  /\ LayoutInv'
           /\ \A v \in Covered(vmas[cur[t]]) : pte'[cur[t]][v] = pte[cur[t]][v]
           /\ \A n \in Mm \ {cur[t]} : pte'[n] = pte[n]
<1> DEFINE m == cur[t]
           up == PageUp(end[t])
           h == Heap(t)
           i == HeapAt(t)
<1>1. /\ pc[t] = "err" /\ Unmap(t, Undone(t)) /\ Finish(t) /\ PageInv
      /\ UNCHANGED <<lost, root, tab, vmas, cur, brk, overrun>>
  BY DEF RemapErr, Remapping, LayoutInv
<1>2. InRemap(t)
  BY <1>1 DEF InRemap
<1>3. m \in Mm /\ m # NoMm
  BY <1>1, <1>2, RemapLemma
<1>4. /\ Plain(vmas[m]) /\ i \in DOMAIN vmas[m] /\ h = vmas[m][i] /\ h.s = HeapStart
      /\ h.e \in HeapStart .. Stack.s
  BY <1>3, HeapLayout
<1>5. up \in HeapStart .. Stack.s
  BY <1>2 DEF LayoutInv, Layout, RemapLayout
<1>6. /\ HasStack(vmas[m]) /\ Covered(vmas[m]) \subseteq Mapped(m)
      /\ HoldsBrk(vmas[m], brk[t])
  BY <1>3 DEF LayoutInv, Layout, CurLayout
<1>7. HeapStart \in Nat /\ Stack.s \in Nat
  BY ConstantsLemma, LayoutConstants
<1>8. Covered(vmas[m]) \cap Undone(t) = {}
  <2> SUFFICES ASSUME NEW v \in Covered(vmas[m]), v \in Undone(t) PROVE FALSE
    OBVIOUS
  <2>1. v \in HeapStart .. up - 1 /\ v \notin Pages(h)
    BY DEF Undone
  <2> HIDE DEF h, up, i
  <2>2. v \in HeapStart .. Stack.s - 1 /\ v \notin Pages(h)
    BY <2>1, <1>5, <1>7
  <2>3. PICK j \in DOMAIN vmas[m] : v \in Pages(vmas[m][j])
    BY InAreas
  <2>4. j # i
    BY <2>2, <2>3, <1>4
  <2>5. Pages(vmas[m][j]) \cap (HeapStart .. Stack.s - 1) = {}
    <3> DEFINE s == vmas[m]
    <3>1. Plain(s) /\ i \in DOMAIN s /\ j \in DOMAIN s /\ i # j /\ s[i].s = HeapStart
      BY <2>4, <1>4
    <3> HIDE DEF s
    <3>2. Pages(s[j]) \cap (HeapStart .. Stack.s - 1) = {}
      BY <3>1, PlainLemma
    <3> QED
      BY <3>2 DEF s
  <2> QED
    BY <2>2, <2>3, <2>5
<1>9. /\ \A n \in Mm \ {m} : pte'[n] = pte[n]
      /\ \A v \in Va \ Undone(t) : pte'[m][v] = pte[m][v]
  BY <1>1, <1>3 DEF Unmap, PageInv, SpaceInv, SpaceTypes
<1>10. \A v \in Covered(vmas[m]) : pte'[m][v] = pte[m][v]
  BY <1>6, <1>8, <1>9 DEF Mapped
<1>11. LayoutInv'
  <2>1. /\ vmas' = vmas /\ brk' = brk /\ UNCHANGED <<root, tab, cur, overrun>>
        /\ Unmap(t, Undone(t)) /\ Finish(t)
    BY <1>1
  <2>2. Covered(vmas'[m]) \subseteq Mapped(m) \ Undone(t)
    BY <2>1, <1>6, <1>8
  <2>3. Plain(vmas'[m]) /\ HasStack(vmas'[m]) /\ HoldsBrk(vmas'[m], brk'[t])
    BY <2>1, <1>4, <1>6
  <2>4. /\ \A n \in Mm \ {m} : vmas'[n] = vmas[n]
        /\ \A u \in Task \ {t} : brk'[u] = brk[u]
    BY <2>1
  <2> QED
    BY <1>2, <2>1, <2>2, <2>3, <2>4, LayoutRemapEnds
<1> QED
  BY <1>9, <1>10, <1>11

\* The second loop of mm_remap(): the heap ends where brk is.
LEMMA LayoutRemapTrim ==
    ASSUME LayoutInv, PageInv', NEW t \in Task, RemapTrim(t), t \notin overrun
    PROVE  LayoutInv' /\ \A n \in Mm \ {cur[t]} : pte'[n] = pte[n]
<1> DEFINE m == cur[t]
           up == PageUp(end[t])
           h == Heap(t)
           i == HeapAt(t)
           S == Pages(h) \ (HeapStart .. up - 1)
           s == vmas[m]
           r == [s EXCEPT ![i].e = up]
<1>1. /\ pc[t] = "trim" /\ Unmap(t, S) /\ Finish(t) /\ PageInv
      /\ vmas' = [vmas EXCEPT ![m][i].e = up]
      /\ brk' = [brk EXCEPT ![t] = end[t]]
      /\ UNCHANGED <<lost, root, tab, cur, overrun>>
  BY DEF RemapTrim, Remapping, LayoutInv
<1>2. InRemap(t)
  BY <1>1 DEF InRemap
<1>3. /\ m \in Mm /\ m # NoMm /\ up \in Nat /\ up <= VaTop - 2
      /\ va[t] \in 0 .. VaTop - 2
  BY <1>1, <1>2, RemapLemma
<1>4. /\ Plain(s) /\ i \in DOMAIN s /\ h = s[i] /\ h.s = HeapStart
      /\ h.e \in HeapStart .. Stack.s /\ s \in Seq(UserArea)
  BY <1>3, HeapLayout
<1>5. /\ up \in HeapStart .. Stack.s /\ HeapStart .. va[t] - 1 \subseteq Mapped(m)
      /\ end[t] \in HeapStart * PGSIZE .. up * PGSIZE /\ va[t] >= up
  BY <1>1, <1>2 DEF LayoutInv, Layout, RemapLayout
<1>6. HasStack(s) /\ Covered(s) \subseteq Mapped(m)
  BY <1>3 DEF LayoutInv, Layout, CurLayout
<1>7. /\ r \in Seq(UserArea) /\ DOMAIN r = DOMAIN s
      /\ r[i].s = HeapStart /\ r[i].e = up
      /\ \A j \in DOMAIN s : j # i => r[j] = s[j]
  <2>1. up \in 0 .. VaTop - 2
    <3>1. VaTop \in Int
      BY ConstantsLemma
    <3> HIDE DEF up
    <3> QED
      BY <1>3, <3>1
  <2> HIDE DEF i, up, s, h
  <2> QED
    BY <2>1, <1>4, NewEnd
<1>8. /\ vmas'[m] = r /\ \A n \in Mm \ {m} : vmas'[n] = vmas[n]
  <2>1. vmas \in [Mm -> Seq(UserArea)] /\ vmas' = [vmas EXCEPT ![m] = r]
    BY <1>1 DEF PageInv, SpaceInv, BoundedAreas
  <2> HIDE DEF r, m
  <2> QED
    BY <2>1, <1>3
<1>9. brk'[t] = end[t] /\ \A u \in Task \ {t} : brk'[u] = brk[u]
  BY <1>1 DEF PageInv, SpaceInv, OperTypes
<1>10. \A n \in Mm \ {m} : pte'[n] = pte[n]
  BY <1>1, <1>3 DEF Unmap, PageInv, SpaceInv, SpaceTypes
<1>11. HeapStart \in Nat /\ Stack.s \in Nat /\ HeapStart < Stack.s
  BY ConstantsLemma, LayoutConstants
<1>12. PageUp(end[t]) = up
  OBVIOUS
<1> HIDE DEF r, i, h, up, s
<1>13. Plain(r)
  <2>1. \A j \in DOMAIN r : r[j].s = s[j].s
    BY <1>4, <1>7
  <2>2. \A j \in DOMAIN r : Known(r[j])
    BY <1>4, <1>5, <1>7 DEF Plain, Known
  <2>3. \A j, k \in DOMAIN r : r[j].s = r[k].s => j = k
    BY <2>1, <1>4, <1>7 DEF Plain
  <2> QED
    BY <2>2, <2>3 DEF Plain
<1>14. HasStack(r)
  <2>1. PICK j \in DOMAIN s : s[j] = Stack
    BY <1>6 DEF HasStack
  <2>2. j # i
    BY <2>1, <1>4, <1>11
  <2> QED
    BY <2>1, <2>2, <1>7 DEF HasStack
<1>15. HoldsBrk(r, end[t])
  <2>1. \A j \in DOMAIN r : r[j].s = HeapStart => j = i
    BY <1>4, <1>7, <1>13 DEF Plain
  <2> QED
    BY <2>1, <1>5, <1>7, <1>12 DEF HoldsBrk
<1>16. Covered(r) \subseteq Mapped(m) \ S
  <2> SUFFICES ASSUME NEW v \in Covered(r) PROVE v \in Mapped(m) /\ v \notin S
    OBVIOUS
  <2>1. PICK j \in DOMAIN r : v \in Pages(r[j])
    BY InAreas
  <2>2. CASE j = i
    <3>1. v \in HeapStart .. up - 1
      BY <2>1, <2>2, <1>7 DEF Pages
    <3>2. v \in HeapStart .. va[t] - 1
      BY <3>1, <1>3, <1>5, <1>11
    <3> QED
      BY <3>1, <3>2, <1>5
  <2>3. CASE j # i
    <3>1. v \in Pages(s[j]) /\ j \in DOMAIN s
      BY <2>1, <2>3, <1>7
    <3>2. v \in Mapped(m)
      BY <3>1, <1>6, InAreas
    <3>3. Pages(s[i]) \cap Pages(s[j]) = {}
      BY <3>1, <2>3, <1>4, PlainLemma
    <3> QED
      BY <3>1, <3>2, <3>3, <1>4
  <2> QED
    BY <2>2, <2>3
<1>17. LayoutInv'
  <2>1. /\ Unmap(t, S) /\ Finish(t) /\ UNCHANGED <<root, tab, cur, overrun>>
        /\ Plain(vmas'[m]) /\ HasStack(vmas'[m]) /\ HoldsBrk(vmas'[m], brk'[t])
        /\ Covered(vmas'[m]) \subseteq Mapped(m) \ S
    BY <1>1, <1>8, <1>9, <1>13, <1>14, <1>15, <1>16
  <2> HIDE DEF S
  <2> QED
    BY <1>2, <1>8, <1>9, <2>1, LayoutRemapEnds
<1> QED
  BY <1>10, <1>17

-----------------------------------------------------------------------------
(* Theorems about the layout *)

\* There is no address space at first.
LEMMA LayoutInit == ASSUME Init PROVE LayoutInv
<1>1. PageInv
  BY PageInit
<1>4. \A t \in Task : cur[t] = NoMm /\ pc[t] = "user"
  BY DEF Init
<1>5. \A t \in Task : Layout(t)
  BY <1>4 DEF Layout, CurLayout, RemapLayout, NewLayout, InRemap
<1> QED
  BY <1>1, <1>5 DEF LayoutInv

\* A stuttering step keeps the layout.
LEMMA LayoutStutter == ASSUME LayoutInv, PageInv', UNCHANGED vars PROVE LayoutInv'
<1>1. \A u \in Task : /\ Untouched(u) /\ brk'[u] = brk[u] /\ child'[u] = child[u]
                      /\ (u \in overrun' <=> u \in overrun)
  BY DEF Untouched, vars, space, oper
<1>2. \A u \in Task : Layout(u)'
  BY <1>1, LayoutUntouched DEF LayoutInv
<1> QED
  BY <1>2 DEF LayoutInv

\* Every step keeps the layout of every address space.
LEMMA LayoutStep == ASSUME LayoutInv, [Next]_vars PROVE LayoutInv'
<1>0. PageInv'
  BY PageStep DEF LayoutInv
<1>1. CASE \E t \in Task : Exec(t) \/ Fork(t)
  BY <1>0, <1>1, LayoutExecFork
<1>2. CASE \E t \in Task : FreeProc(t)
  BY <1>0, <1>2, LayoutFreeProc
<1>3. CASE \E t \in Task : MapPage(t)
  BY <1>0, <1>3, LayoutMapPage
<1>4. CASE \E t \in Task : MapArea(t)
  BY <1>0, <1>4, LayoutMapArea
<1>5. CASE \E t \in Task : MapFail(t)
  BY <1>0, <1>5, LayoutMapFail
<1>6. CASE \E t \in Task : MapDone(t)
  <2>1. PICK t \in Task : MapDone(t)
    BY <1>6
  <2>2. child[t] \in Task
    BY DEF LayoutInv, PageInv, SpaceInv, OperTypes
  <2> QED
    BY <1>0, <2>1, <2>2, LayoutMapDone
<1>7. CASE \E t \in Task : SbrkNear(t)
  BY <1>0, <1>7, LayoutSbrkNear
<1>8. CASE \E t \in Task : SbrkFar(t)
  BY <1>0, <1>8, LayoutSbrkFar
<1>9. CASE \E t \in Task : RemapPage(t)
  BY <1>0, <1>9, LayoutRemapPage
<1>10. CASE \E t \in Task : RemapNoPage(t) \/ RemapMapped(t)
  BY <1>0, <1>10, LayoutRemapMoves
<1>11. CASE \E t \in Task : RemapTrim(t)
  BY <1>0, <1>11, LayoutRemapTrim, LayoutOverrunEnds
<1>12. CASE \E t \in Task : RemapErr(t)
  BY <1>0, <1>12, LayoutRemapErr, LayoutOverrunEnds
<1>13. CASE UNCHANGED vars
  BY <1>0, <1>13, LayoutStutter
<1> QED
  BY <1>1, <1>2, <1>3, <1>4, <1>5, <1>6, <1>7, <1>8, <1>9, <1>10, <1>11, <1>12,
     <1>13 DEF Next

\* What is left of the type invariant.
LEMMA FlagsStep ==
    ASSUME PageInv, panicked \in BOOLEAN, overrun \subseteq Task, [Next]_vars
    PROVE  panicked' \in BOOLEAN /\ overrun' \subseteq Task
<1>1. ASSUME NEW t, NEW c, NEW areas, Create(t, c, areas)
      PROVE  panicked' \in BOOLEAN
  <2>1. \/ panicked' = TRUE \/ panicked' = panicked
        \/ \E m \in Mm : Created(t, c, areas, m)
    BY <1>1, CreateExact DEF PageInv, SpaceInv
  <2> QED
    BY <2>1, Zenon DEF Created
<1>2. CASE \E t \in Task : Exec(t) \/ Fork(t)
  BY <1>1, <1>2, Zenon DEF Exec, Fork
<1>3. CASE \E t \in Task : MapArea(t)
  <2>1. PICK t \in Task : MapArea(t)
    BY <1>3
  <2>2. overrun' = overrun
    BY <2>1, Zenon DEF MapArea
  <2>3. panicked' = (child[t] # t
           /\ \E v \in Pages(Head(todo[t])) : pte[cur[t]][v] = NoPage)
    BY <2>1, Zenon DEF MapArea, CopyFaults
  <2>4. panicked' \in BOOLEAN
    BY <2>3
  <2> QED
    BY <2>2, <2>4
<1>4. ASSUME NEW t \in Task,
             \/ MapPage(t) \/ MapFail(t) \/ SbrkNear(t) \/ RemapPage(t)
             \/ RemapNoPage(t) \/ RemapMapped(t) \/ RemapTrim(t) \/ RemapErr(t)
      PROVE  panicked' = panicked /\ overrun' = overrun
  BY <1>4, Zenon DEF MapPage, MapFail, SbrkNear, RemapPage, RemapNoPage, RemapMapped,
     RemapTrim, RemapErr
<1>5. ASSUME NEW t \in Task, FreeProc(t) \/ MapDone(t) \/ SbrkFar(t)
      PROVE  panicked' = panicked /\ overrun' \subseteq Task
  <2>1. panicked' = panicked
    BY <1>5, Zenon DEF FreeProc, MapDone, SbrkFar
  <2>2. \/ overrun' = overrun \ {t} \/ overrun' = overrun \/ overrun' = overrun \cup {t}
        \/ \E c : overrun' = {u \in Task : IF u = c THEN c # t /\ t \in overrun
                                           ELSE u \in overrun}
    BY <1>5, Zenon DEF FreeProc, MapDone, SbrkFar
  <2> QED
    BY <2>1, <2>2
<1>6. CASE UNCHANGED vars
  BY <1>6, Zenon DEF vars
<1> QED
  BY <1>2, <1>3, <1>4, <1>5, <1>6, Zenon DEF Next

\* The invariants imply the type invariant.
LEMMA TypesLemma == 
    ASSUME PageInv, panicked \in BOOLEAN, overrun \subseteq Task PROVE TypeOK
<1>1. UserArea \subseteq Area
  <2>1. VaTop \in Nat
    BY VmAssumption
  <2>2. 0 .. VaTop - 2 \subseteq 0 .. VaTop
    BY <2>1
  <2> QED
    BY <2>2 DEF UserArea, Area
<1>2. \A s \in Seq(UserArea) : s \in Seq(Area)
  BY <1>1
<1>3. vmas \in [Mm -> Seq(Area)] /\ todo \in [Task -> Seq(Area)]
  BY <1>2 DEF PageInv, SpaceInv, BoundedAreas
<1>4. /\ free \subseteq Page /\ lost \subseteq Page
      /\ root \in [Mm -> Page \cup {NoPage}]
      /\ tab \in [Mm -> [Table -> Page \cup {NoPage}]]
      /\ pte \in [Mm -> [Va -> Page \cup {NoPage}]]
  BY DEF PageInv, SpaceInv, SpaceTypes, Maybe
<1>5. OperTypes
  BY DEF PageInv, SpaceInv
<1> QED
  BY <1>3, <1>4, <1>5, Zenon DEF TypeOK, OperTypes

\* Areas, page table and brk agree between operations.
LEMMA LayoutSound ==
    ASSUME LayoutInv PROVE AreasMapped /\ AreasDisjoint /\ HeapHoldsBrk
<1>1. AreasMapped
  <2> SUFFICES ASSUME NEW t \in Task \ overrun, pc[t] = "user", cur[t] # NoMm
               PROVE  Mapped(cur[t]) = Covered(vmas[cur[t]])
    BY DEF AreasMapped, Mapped
  <2>1. Covered(vmas[cur[t]]) \subseteq Mapped(cur[t])
    BY DEF LayoutInv, Layout, CurLayout
  <2>2. Mapped(cur[t]) \subseteq Covered(vmas[cur[t]])
    BY DEF LayoutInv, PageInv, SpaceInv, Within, CurWithin, InRemap
  <2> QED
    BY <2>1, <2>2
<1>2. AreasDisjoint
  <2> SUFFICES ASSUME NEW t \in Task \ overrun, cur[t] # NoMm,
                      NEW i \in DOMAIN vmas[cur[t]], NEW j \in DOMAIN vmas[cur[t]], i # j
               PROVE  Pages(vmas[cur[t]][i]) \cap Pages(vmas[cur[t]][j]) = {}
    BY DEF AreasDisjoint
  <2>1. Plain(vmas[cur[t]])
    BY DEF LayoutInv, Layout, CurLayout
  <2> QED
    BY <2>1, PlainLemma
<1>3. HeapHoldsBrk
  BY HeapLayout DEF HeapHoldsBrk
<1> QED
  BY <1>1, <1>2, <1>3

\* For every argument of sbrk(): the areas of a process never overlap, exactly
\* their pages are mapped between system calls, and p->brk lies in the last page of
\* the heap, as mm_remap(), mm_copy() and load_user_elf() undo every failure.  Only a
\* process that has taken its heap past the stack or round the end of the word is
\* excepted, with its children; the others do not notice, nor does what it exec()s.
THEOREM AreasAreSound == Spec => []AreasSound
<1> DEFINE Inv == LayoutInv /\ panicked \in BOOLEAN /\ overrun \subseteq Task
<1>1. Init => Inv
  BY LayoutInit, Zenon DEF Init
<1>2. Inv /\ [Next]_vars => Inv'
  BY LayoutStep, FlagsStep DEF LayoutInv
<1>3. Inv => AreasSound
  <2> SUFFICES ASSUME LayoutInv, panicked \in BOOLEAN, overrun \subseteq Task
               PROVE  AreasSound
    OBVIOUS
  <2>1. TypeOK
    BY TypesLemma DEF LayoutInv
  <2> QED
    BY <2>1, LayoutSound DEF AreasSound
<1> QED
  BY <1>1, <1>2, <1>3, PTL DEF Spec

\* A step of u changes page tables only of the address spaces of u.
LEMMA OwnTables ==
    ASSUME PageInv, NEW u \in Task,
           \/ Exec(u) \/ Fork(u) \/ FreeProc(u)
           \/ MapPage(u) \/ MapArea(u) \/ MapFail(u) \/ MapDone(u)
           \/ SbrkNear(u) \/ SbrkFar(u) \/ RemapPage(u) \/ RemapNoPage(u)
           \/ RemapMapped(u) \/ RemapTrim(u) \/ RemapErr(u)
    PROVE  \A n \in Mm : n # cur[u] /\ n # new[u] => pte'[n] = pte[n]
<1> SUFFICES ASSUME NEW n \in Mm, n # cur[u], n # new[u] PROVE pte'[n] = pte[n]
  OBVIOUS
<1>0. pte \in [Mm -> [Va -> Maybe]]
  BY DEF PageInv, SpaceInv, SpaceTypes
<1>1. ASSUME NEW c, NEW areas, Create(u, c, areas) PROVE pte' = pte
  BY <1>1, CreateExact DEF PageInv, SpaceInv, Created
<1>2. CASE Exec(u) \/ Fork(u)
  BY <1>1, <1>2 DEF Exec, Fork
<1>3. CASE FreeProc(u) \/ MapFail(u) \/ MapDone(u)
  BY <1>0, <1>3 DEF FreeProc, MapFail, MapDone, Drop
<1>4. CASE MapPage(u)
  BY <1>0, <1>4 DEF MapPage
<1>5. CASE RemapPage(u)
  BY <1>0, <1>5 DEF RemapPage
<1>6. CASE RemapTrim(u) \/ RemapErr(u)
  BY <1>0, <1>6 DEF RemapTrim, RemapErr, Unmap
<1>7. CASE MapArea(u) \/ SbrkNear(u) \/ SbrkFar(u) \/ RemapNoPage(u) \/ RemapMapped(u)
  BY <1>7 DEF MapArea, SbrkNear, SbrkFar, RemapNoPage, RemapMapped, space
<1> QED
  BY <1>2, <1>3, <1>4, <1>5, <1>6, <1>7

\* While mm_remap() grows the heap of a process that has not overrun it, by any
\* amount that ends below the stack, or its error path gives up, no
\* page of the areas of that process is moved or unmapped, whatever the other
\* processes do meanwhile.
THEOREM RemapKeepsPages == Spec => RemapKeeps
<1> DEFINE Kept(t) ==
             \A v \in Covered(vmas[cur[t]]) : pte'[cur[t]][v] = pte[cur[t]][v]
<1>1. ASSUME LayoutInv, [Next]_vars, NEW t \in Task \ overrun, pc[t] \in {"remap", "err"}
      PROVE  Kept(t)
  <2>1. /\ PageInv /\ OwnSpaces /\ cur[t] # NoMm /\ cur[t] \in Mm
        /\ new[t] = NoMm
    BY <1>1, RemapLemma DEF LayoutInv, PageInv, SpaceInv, OwnSpaces, InRemap
  <2>2. PageInv'
    BY <1>1, PageStep DEF LayoutInv
  <2>3. ASSUME NEW u \in Task, u # t,
               \/ Exec(u) \/ Fork(u) \/ FreeProc(u)
               \/ MapPage(u) \/ MapArea(u) \/ MapFail(u) \/ MapDone(u)
               \/ SbrkNear(u) \/ SbrkFar(u) \/ RemapPage(u) \/ RemapNoPage(u)
               \/ RemapMapped(u) \/ RemapTrim(u) \/ RemapErr(u)
        PROVE  Kept(t)
    <3>1. cur[t] # cur[u] /\ cur[t] # new[u]
      BY <2>1, <2>3 DEF OwnSpaces
    <3> QED
      BY <3>1, <2>1, <2>3, OwnTables
  <2>4. CASE RemapPage(t)
    BY <2>2, <2>4, <1>1, LayoutRemapPage
  <2>5. CASE RemapErr(t)
    BY <2>2, <2>5, <1>1, LayoutRemapErr
  <2>6. CASE RemapNoPage(t) \/ RemapMapped(t)
    BY <2>2, <2>6, <1>1, LayoutRemapMoves
  <2>7. CASE UNCHANGED vars
    BY <2>7 DEF vars, space
  <2>8. ~(\/ Exec(t) \/ Fork(t) \/ FreeProc(t)
          \/ MapPage(t) \/ MapArea(t) \/ MapFail(t) \/ MapDone(t)
          \/ SbrkNear(t) \/ SbrkFar(t) \/ RemapTrim(t))
    BY <1>1, Zenon DEF Exec, Fork, FreeProc, MapPage, MapArea, MapFail, MapDone,
       SbrkNear, SbrkFar, RemapTrim, Ready, Mapping, Remapping
  <2> QED
    BY <1>1, <2>3, <2>4, <2>5, <2>6, <2>7, <2>8 DEF Next
<1>2. LayoutInv /\ [Next]_vars =>
        [\A t \in Task \ overrun : pc[t] \in {"remap", "err"} => Kept(t)]_vars
  BY <1>1
<1>3. Init => LayoutInv
  BY LayoutInit
<1>4. LayoutInv /\ [Next]_vars => LayoutInv'
  BY LayoutStep
<1> QED
  BY <1>2, <1>3, <1>4, PTL DEF Spec, RemapKeeps

-----------------------------------------------------------------------------
(* Signal frames *)

\* What the context c may look like on top of i - 1 frames: its sp is not above
\* the topmost of them, the restorer has it exactly there, and a handler returns
\* to the restorer.
RunsAt(c, i) ==
    /\ i = 1 => c.sp <= Top /\ c.epc = "main"
    /\ i > 1 => /\ c.sp <= entry[i - 1]
                /\ c.epc = "restorer" => c.sp = entry[i - 1]
                /\ c.epc = "handler" => c.ra = "restorer"

\* The frames lie below the contexts that they interrupted, each below the next.
FramesNest ==
    /\ RunsAt(tf, Len(entry) + 1)
    /\ \A i \in DOMAIN saved : RunsAt(saved[i], i)
    /\ \A i \in DOMAIN entry : entry[i] + INFO_SIZE + UC_SIZE <= saved[i].sp
    /\ \A i, j \in DOMAIN entry : i < j => entry[j] <= entry[i]

\* The inductive invariant.
FrameInv == FrameTypeOK /\ FramesNest /\ FramesIntact

-----------------------------------------------------------------------------
(* Arithmetic and sequences *)

\* PGROUNDDOWN() rounds down.
LEMMA RoundLemma ==
    ASSUME NEW a \in Nat
    PROVE  PGROUNDDOWN(a) \in Nat /\ PGROUNDDOWN(a) <= a
<1>1. STACK_PGSIZE \in Nat /\ STACK_PGSIZE > 0
  BY FrameAssumption
<1>2. \A p \in Nat \ {0} : (a \div p) * p \in Nat /\ (a \div p) * p <= a
  OBVIOUS
<1> QED
  BY <1>1, <1>2 DEF PGROUNDDOWN

\* The frame that do_signal() makes room for fits between the new sp and the old.
LEMMA NewSpLemma ==
    ASSUME NEW sp \in 0 .. Top, sp - UC_SIZE - INFO_SIZE >= 0
    PROVE  /\ NewSp(sp) \in Nat
           /\ NewSp(sp) + INFO_SIZE + UC_SIZE <= sp
           /\ NewSp(sp) \in Addr /\ NewSp(sp) + INFO_SIZE \in Addr
<1>1. /\ UC_SIZE \in Nat /\ UC_SIZE > 0 /\ INFO_SIZE \in Nat /\ INFO_SIZE > 0
      /\ Top \in Nat
  BY FrameAssumption
<1>2. sp - UC_SIZE - INFO_SIZE \in Nat
  BY <1>1
<1>3. NewSp(sp) \in Nat /\ NewSp(sp) <= sp - UC_SIZE - INFO_SIZE
  BY <1>2, RoundLemma DEF NewSp
<1> QED
  BY <1>1, <1>3 DEF Addr

\* The histories without their last entries.
LEMMA FramesFrontLemma ==
    ASSUME NEW S, NEW s \in Seq(S), Len(s) > 0
    PROVE  /\ Front(s) \in Seq(S)
           /\ Len(Front(s)) = Len(s) - 1
           /\ \A i \in 1 .. Len(s) - 1 : Front(s)[i] = s[i]
           /\ Last(s) = s[Len(s)] /\ Last(s) \in S
<1> DEFINE n == Len(s) - 1
<1>1. Len(s) \in Nat /\ \A i \in 1 .. Len(s) : s[i] \in S
  OBVIOUS
<1>2. Front(s) = SubSeq(s, 1, n) /\ Last(s) = s[Len(s)]
  BY DEF Front, Last
<1>3. /\ n \in Int /\ n >= 0 /\ n - 1 + 1 = n
      /\ \A i \in 1 .. n : s[i] \in S /\ 1 + i - 1 = i
  BY <1>1
<1>4. /\ SubSeq(s, 1, n) \in Seq(S)
      /\ Len(SubSeq(s, 1, n)) = IF 1 <= n THEN n - 1 + 1 ELSE 0
      /\ \A i \in 1 .. n - 1 + 1 : SubSeq(s, 1, n)[i] = s[1 + i - 1]
  <2> HIDE DEF n
  <2> QED
    BY <1>3, SubSeqProperties
<1>5. /\ Len(SubSeq(s, 1, n)) = n
      /\ \A i \in 1 .. n : SubSeq(s, 1, n)[i] = s[i]
  <2> HIDE DEF n
  <2> QED
    BY <1>3, <1>4
<1> QED
  BY <1>1, <1>2, <1>4, <1>5

\* The words of the ucontexts are on the stack, at or above the topmost frame.
LEMMA FramesOnStack ==
    ASSUME FrameInv, NEW i \in 1 .. Len(entry)
    PROVE  /\ entry[i] \in 0 .. Top /\ saved[i] \in Context
           /\ UcAddr(entry[i]) \in Addr
           /\ tf.sp <= entry[i]
<1>1. /\ UC_SIZE \in Nat /\ UC_SIZE > 0 /\ INFO_SIZE \in Nat /\ INFO_SIZE > 0
      /\ Top \in Nat
  BY FrameAssumption
<1>2. /\ tf \in Context /\ saved \in Seq(Context) /\ entry \in Seq(0 .. Top)
      /\ Len(saved) = Len(entry)
  BY DEF FrameInv, FrameTypeOK
<1>3. entry[i] \in 0 .. Top /\ saved[i] \in Context
  <2>1. entry[i] \in 0 .. Top
    BY <1>2, ElementOfSeq
  <2>2. saved[i] \in Context
    BY <1>2, ElementOfSeq
  <2> QED
    BY <2>1, <2>2
<1>4. saved[i].sp \in 0 .. Top /\ tf.sp \in 0 .. Top
  BY <1>2, <1>3 DEF Context
<1>5. entry[i] + INFO_SIZE + UC_SIZE <= saved[i].sp
  BY DEF FrameInv, FramesNest
<1>6. UcAddr(entry[i]) \in Addr
  BY <1>1, <1>3, <1>4, <1>5 DEF UcAddr, Addr
<1> DEFINE n == Len(entry)
<1>7. n \in Nat /\ n >= 1 /\ n \in 1 .. n /\ n + 1 > 1 /\ n + 1 - 1 = n
      /\ (i < n \/ i = n) /\ DOMAIN entry = 1 .. n
  BY <1>2
<1>8. tf.sp <= entry[n]
  <2> HIDE DEF n
  <2>1. RunsAt(tf, n + 1)
    BY DEF FrameInv, FramesNest, n
  <2> QED
    BY <2>1, <1>7 DEF RunsAt
<1>9. entry[n] \in 0 .. Top /\ entry[n] <= entry[i]
  <2>1. entry[n] \in 0 .. Top
    BY <1>2, <1>7, ElementOfSeq
  <2>2. i < n => entry[n] <= entry[i]
    BY <1>7 DEF FrameInv, FramesNest
  <2> HIDE DEF n
  <2> QED
    BY <2>1, <2>2, <1>1, <1>3, <1>7
<1> QED
  <2> HIDE DEF n
  <2> QED
    BY <1>1, <1>3, <1>4, <1>6, <1>8, <1>9

\* A step of the program that stays below the topmost frame.
LEMMA ProgramStep ==
    ASSUME FrameInv, tf' \in Context, RunsAt(tf', Len(entry) + 1),
           mem' \in [Addr -> Seq(Context)],
           \A i \in 1 .. Len(entry) : mem'[UcAddr(entry[i])] = mem[UcAddr(entry[i])],
           saved' = saved, entry' = entry
    PROVE  FrameInv'
<1>1. FrameTypeOK'
  BY DEF FrameInv, FrameTypeOK
<1>2. FramesNest'
  BY DEF FrameInv, FramesNest, RunsAt
<1>3. FramesIntact'
  BY DEF FrameInv, FramesIntact, FrameTypeOK, UcAddr
<1> QED
  BY <1>1, <1>2, <1>3 DEF FrameInv

-----------------------------------------------------------------------------
(* The invariant, action by action *)

\* Before the first instruction there are no frames.
LEMMA FrameInvInit == FrameInit => FrameInv
<1> SUFFICES ASSUME FrameInit PROVE FrameInv
  OBVIOUS
<1>1. Top \in Nat /\ 0 \in Val
  BY FrameAssumption
<1>2. tf \in Context
  BY <1>1 DEF FrameInit, Context, Code
<1>3. mem \in [Addr -> Seq(Context)]
  BY DEF FrameInit
<1>4. saved = <<>> /\ entry = <<>> /\ tf.sp = Top /\ tf.epc = "main"
  BY DEF FrameInit
<1>5. FrameTypeOK
  BY <1>2, <1>3, <1>4 DEF FrameTypeOK
<1>6. FramesNest
  BY <1>1, <1>4 DEF FramesNest, RunsAt
<1> QED
  BY <1>4, <1>5, <1>6 DEF FrameInv, FramesIntact

\* The user context that the step starts from: n frames, the topmost at Base.
LEMMA RunningContext ==
    ASSUME FrameInv
    PROVE  /\ Len(entry) \in Nat
           /\ tf.sp \in 0 .. Top /\ Base \in 0 .. Top /\ tf.sp <= Base
           /\ tf.epc \in Code /\ tf.ra \in Code
           /\ tf.epc \in {"handler", "restorer"} => Len(entry) > 0
           /\ tf.epc = "restorer" => tf.sp = Base
           /\ tf.epc = "handler" => tf.ra = "restorer"
           /\ Len(entry) > 0 => Base = entry[Len(entry)]
           /\ Len(entry) = 0 => Base = Top
<1>1. /\ tf \in Context /\ entry \in Seq(0 .. Top) /\ Top \in Nat
      /\ RunsAt(tf, Len(entry) + 1)
  BY FrameAssumption DEF FrameInv, FrameTypeOK, FramesNest
<1>2. tf.sp \in 0 .. Top /\ tf.epc \in Code /\ tf.ra \in Code
  BY <1>1 DEF Context
<1>3. Len(entry) \in Nat
  BY <1>1
<1>4. Len(entry) = 0 => Base = Top
  BY <1>1, EmptySeq DEF Base
<1>5. Len(entry) > 0 => Base = entry[Len(entry)] /\ Base \in 0 .. Top
  BY <1>1 DEF Base, Last
<1>6. CASE Len(entry) = 0
  <2>1. tf.epc = "main" /\ tf.sp <= Top
    BY <1>1, <1>6 DEF RunsAt
  <2> QED
    BY <2>1, <1>1, <1>2, <1>3, <1>4, <1>6
<1>7. CASE Len(entry) > 0
  <2>1. Len(entry) + 1 > 1 /\ Len(entry) + 1 - 1 = Len(entry)
    BY <1>3, <1>7
  <2>2. /\ tf.sp <= entry[Len(entry)]
        /\ tf.epc = "restorer" => tf.sp = entry[Len(entry)]
        /\ tf.epc = "handler" => tf.ra = "restorer"
    BY <2>1, <1>1 DEF RunsAt
  <2> QED
    BY <2>2, <1>2, <1>3, <1>5, <1>7
<1> QED
  BY <1>3, <1>6, <1>7

\* A context that runs at or below Base, and in the restorer exactly there, runs
\* on top of the frames.
LEMMA RunsOnTop ==
    ASSUME FrameInv, NEW c, c.sp \in 0 .. Top, c.sp <= Base,
           Len(entry) = 0 => c.epc = "main",
           c.epc = "restorer" => c.sp = Base,
           c.epc = "handler" => c.ra = "restorer"
    PROVE  RunsAt(c, Len(entry) + 1)
<1>1. Len(entry) \in Nat /\ Top \in Nat
  BY RunningContext, FrameAssumption
<1>2. Len(entry) + 1 - 1 = Len(entry) /\ (Len(entry) + 1 = 1 <=> Len(entry) = 0)
      /\ (Len(entry) + 1 > 1 <=> Len(entry) > 0)
  BY <1>1
<1> QED
  BY <1>1, <1>2, RunningContext DEF RunsAt

\* The program's instructions: they stay below the topmost frame.
LEMMA ProgramKeeps ==
    ASSUME FrameInv, Compute \/ Push \/ Pop \/ HandlerReturns
    PROVE  FrameInv'
<1>1. /\ tf \in Context /\ mem \in [Addr -> Seq(Context)] /\ Top \in Nat
      /\ DOMAIN tf = {"epc", "sp", "ra", "a0", "a1", "a2", "t6", "s0"}
  BY FrameAssumption DEF FrameInv, FrameTypeOK, Context
<1>2. CASE Compute
  <2>1. PICK v \in Val, r \in {"a0", "t6", "s0"} : tf' = [tf EXCEPT ![r] = v]
    BY <1>2 DEF Compute
  <2>2. /\ tf' \in Context /\ tf'.sp = tf.sp
        /\ tf'.epc = tf.epc /\ tf'.ra = tf.ra
    <3>1. CASE r = "a0"
      BY <2>1, <1>1, <3>1 DEF Context
    <3>2. CASE r = "t6"
      BY <2>1, <1>1, <3>2 DEF Context
    <3>3. CASE r = "s0"
      BY <2>1, <1>1, <3>3 DEF Context
    <3> QED
      BY <2>1, <3>1, <3>2, <3>3
  <2>3. tf.epc \in {"main", "handler"} /\ mem' = mem /\ saved' = saved /\ entry' = entry
    BY <1>2 DEF Compute
  <2>4. RunsAt(tf', Len(entry) + 1)
    BY <2>2, RunningContext, RunsOnTop DEF Code
  <2> QED
    BY <1>1, <2>2, <2>3, <2>4, ProgramStep
<1>3. CASE Push
  <2>1. /\ tf.sp > 0 /\ tf' = [tf EXCEPT !.sp = @ - 1]
        /\ mem' = [mem EXCEPT ![tf.sp - 1] = <<>>]
        /\ saved' = saved /\ entry' = entry /\ tf.epc \in {"main", "handler"}
    BY <1>3 DEF Push
  <2>2. tf.sp \in 0 .. Top /\ tf.sp <= Base /\ Base \in 0 .. Top
    BY RunningContext
  <2>3. tf.sp - 1 \in 0 .. Top /\ tf.sp - 1 \in Addr /\ tf.sp - 1 <= Base
    BY <2>1, <2>2, <1>1 DEF Addr
  <2>4. tf' \in Context /\ tf'.sp = tf.sp - 1 /\ tf'.epc = tf.epc /\ tf'.ra = tf.ra
    BY <2>1, <2>3, <1>1 DEF Context
  <2>5. mem' \in [Addr -> Seq(Context)]
    <3>1. <<>> \in Seq(Context)
      OBVIOUS
    <3> QED
      BY <3>1, <2>1, <2>3, <1>1
  <2>6. ASSUME NEW i \in 1 .. Len(entry)
        PROVE  mem'[UcAddr(entry[i])] = mem[UcAddr(entry[i])]
    <3>1. /\ UcAddr(entry[i]) \in Addr /\ entry[i] \in 0 .. Top
          /\ tf.sp <= entry[i]
      BY FramesOnStack
    <3>2. UcAddr(entry[i]) # tf.sp - 1
      BY <3>1, <2>2, FrameAssumption DEF UcAddr
    <3> QED
      BY <3>1, <3>2, <2>1, <1>1
  <2>7. RunsAt(tf', Len(entry) + 1)
    <3>1. /\ Len(entry) = 0 => tf'.epc = "main"
          /\ tf'.epc # "restorer"
          /\ tf'.epc = "handler" => tf'.ra = "restorer"
      BY <2>1, <2>4, RunningContext
    <3> QED
      BY <3>1, <2>3, <2>4, RunsOnTop
  <2> QED
    BY <2>1, <2>4, <2>5, <2>6, <2>7, ProgramStep
<1>4. CASE Pop
  <2>1. /\ tf.sp < Base /\ tf' = [tf EXCEPT !.sp = @ + 1] /\ mem' = mem
        /\ saved' = saved /\ entry' = entry /\ tf.epc \in {"main", "handler"}
    BY <1>4 DEF Pop
  <2>2. tf.sp \in 0 .. Top /\ Base \in 0 .. Top
    BY RunningContext
  <2>3. tf.sp + 1 \in 0 .. Top /\ tf.sp + 1 <= Base
    BY <2>1, <2>2, <1>1
  <2>4. tf' \in Context /\ tf'.sp = tf.sp + 1 /\ tf'.epc = tf.epc /\ tf'.ra = tf.ra
    BY <2>1, <2>3, <1>1 DEF Context
  <2>5. RunsAt(tf', Len(entry) + 1)
    <3>1. /\ Len(entry) = 0 => tf'.epc = "main"
          /\ tf'.epc # "restorer"
          /\ tf'.epc = "handler" => tf'.ra = "restorer"
      BY <2>1, <2>4, RunningContext
    <3> QED
      BY <3>1, <2>3, <2>4, RunsOnTop
  <2> QED
    BY <1>1, <2>1, <2>4, <2>5, ProgramStep
<1>5. CASE HandlerReturns
  <2>1. /\ tf.epc = "handler" /\ tf.sp = Base /\ tf' = [tf EXCEPT !.epc = tf.ra]
        /\ mem' = mem /\ saved' = saved /\ entry' = entry
    BY <1>5 DEF HandlerReturns
  <2>2. /\ tf.ra = "restorer" /\ Len(entry) > 0 /\ tf.sp \in 0 .. Top
        /\ Base \in 0 .. Top
    BY <2>1, RunningContext
  <2>3. tf' \in Context /\ tf'.sp = Base /\ tf'.epc = "restorer"
    BY <2>1, <2>2, <1>1 DEF Context, Code
  <2>4. RunsAt(tf', Len(entry) + 1)
    BY <2>2, <2>3, RunningContext, RunsOnTop
  <2> QED
    BY <1>1, <2>1, <2>3, <2>4, ProgramStep
<1> QED
  BY <1>2, <1>3, <1>4, <1>5

\* do_signal() writes below the interrupted sp only, and the frame's ucontext is
\* the interrupted context.
LEMMA FrameWritten ==
    ASSUME FrameInv, tf.sp - UC_SIZE - INFO_SIZE >= 0
    PROVE  /\ WithFrame(NewSp(tf.sp)) \in [Addr -> Seq(Context)]
           /\ WithFrame(NewSp(tf.sp))[UcAddr(NewSp(tf.sp))] = <<tf>>
           /\ \A a \in Addr : a >= tf.sp => WithFrame(NewSp(tf.sp))[a] = mem[a]
<1> DEFINE sp == NewSp(tf.sp)
<1>1. /\ UC_SIZE \in Nat /\ UC_SIZE > 0 /\ INFO_SIZE \in Nat /\ INFO_SIZE > 0
      /\ Top \in Nat
  BY FrameAssumption
<1>2. tf \in Context /\ mem \in [Addr -> Seq(Context)] /\ tf.sp \in 0 .. Top
  BY RunningContext DEF FrameInv, FrameTypeOK
<1>3. sp \in Nat /\ sp + INFO_SIZE + UC_SIZE <= tf.sp /\ sp + INFO_SIZE \in Addr
  BY <1>2, NewSpLemma
<1>4. <<>> \in Seq(Context) /\ <<tf>> \in Seq(Context)
  BY <1>2
<1> HIDE DEF sp
<1>5. WithFrame(sp) \in [Addr -> Seq(Context)]
  BY <1>2, <1>4 DEF WithFrame
<1>6. UcAddr(sp) \in sp + INFO_SIZE .. sp + INFO_SIZE + UC_SIZE - 1
      /\ UcAddr(sp) \notin sp .. sp + INFO_SIZE - 1 /\ UcAddr(sp) \in Addr
  BY <1>1, <1>3 DEF UcAddr
<1>7. WithFrame(sp)[UcAddr(sp)] = <<tf>>
  BY <1>6 DEF WithFrame
<1>8. ASSUME NEW a \in Addr, a >= tf.sp
      PROVE  WithFrame(sp)[a] = mem[a]
  <2>1. /\ a \notin sp + INFO_SIZE .. sp + INFO_SIZE + UC_SIZE - 1
        /\ a \notin sp .. sp + INFO_SIZE - 1
    BY <1>1, <1>2, <1>3, <1>8 DEF Addr
  <2> QED
    BY <2>1 DEF WithFrame
<1> QED
  BY <1>5, <1>7, <1>8 DEF sp

\* do_signal(): one more frame, below the interrupted sp.
LEMMA DoSignalKeeps ==
    ASSUME FrameInv, DoSignal
    PROVE  FrameInv'
<1> DEFINE sp == NewSp(tf.sp)
           n == Len(entry)
<1>1. /\ UC_SIZE \in Nat /\ UC_SIZE > 0 /\ INFO_SIZE \in Nat /\ INFO_SIZE > 0
      /\ Top \in Nat
  BY FrameAssumption
<1>2. /\ tf \in Context /\ mem \in [Addr -> Seq(Context)]
      /\ saved \in Seq(Context) /\ entry \in Seq(0 .. Top)
      /\ Len(saved) = n /\ n \in Nat /\ tf.sp \in 0 .. Top
  BY RunningContext DEF FrameInv, FrameTypeOK
<1>3. /\ tf.sp - UC_SIZE - INFO_SIZE >= 0
      /\ mem' = WithFrame(sp)
      /\ tf' = [tf EXCEPT !.epc = "handler", !.sp = sp, !.ra = "restorer",
                          !.a0 = SigNo, !.a1 = sp, !.a2 = sp + INFO_SIZE]
      /\ saved' = Append(saved, tf) /\ entry' = Append(entry, sp)
  BY DEF DoSignal
<1>4. /\ sp \in Nat /\ sp + INFO_SIZE + UC_SIZE <= tf.sp
      /\ sp \in Addr /\ sp + INFO_SIZE \in Addr /\ sp \in 0 .. Top
  BY <1>1, <1>2, <1>3, NewSpLemma
<1>5. /\ mem' \in [Addr -> Seq(Context)]
      /\ mem'[UcAddr(sp)] = <<tf>>
      /\ \A a \in Addr : a >= tf.sp => mem'[a] = mem[a]
  BY <1>3, FrameWritten
<1> HIDE DEF sp
<1>6. /\ tf' \in Context /\ tf'.sp = sp /\ tf'.epc = "handler"
      /\ tf'.ra = "restorer"
  BY <1>2, <1>3, <1>4 DEF Context, Code
<1>7. /\ saved' \in Seq(Context) /\ Len(saved') = n + 1 /\ saved'[n + 1] = tf
      /\ \A i \in 1 .. n : saved'[i] = saved[i]
  BY <1>2, <1>3, AppendProperties
<1>8. /\ entry' \in Seq(0 .. Top) /\ Len(entry') = n + 1 /\ entry'[n + 1] = sp
      /\ \A i \in 1 .. n : entry'[i] = entry[i]
  <2>1. Len(entry) = n
    BY DEF n
  <2> HIDE DEF n
  <2> QED
    BY <2>1, <1>2, <1>3, <1>4, AppendProperties
<1>9. \A i \in 1 .. n : /\ entry[i] \in 0 .. Top
                        /\ UcAddr(entry[i]) \in Addr /\ tf.sp <= entry[i]
                        /\ entry[i] + INFO_SIZE + UC_SIZE <= saved[i].sp
                        /\ RunsAt(saved[i], i)
                        /\ mem[UcAddr(entry[i])] = <<saved[i]>>
  BY <1>2, FramesOnStack, SMTT(30) DEF FrameInv, FramesNest, FramesIntact
<1>10. \A i, j \in 1 .. n : i < j => entry[j] <= entry[i]
  BY <1>2, SMTT(30) DEF FrameInv, FramesNest
<1>11. RunsAt(tf, n + 1)
  BY DEF FrameInv, FramesNest
<1> HIDE DEF n
<1>12. DOMAIN entry' = 1 .. n + 1 /\ DOMAIN saved' = 1 .. n + 1
  BY <1>7, <1>8
<1>13. \A i \in 1 .. n + 1 : i \in 1 .. n \/ i = n + 1
  BY <1>2
<1>14. FrameTypeOK'
  BY <1>5, <1>6, <1>7, <1>8 DEF FrameTypeOK
<1>15. FramesNest'
  <2>1. RunsAt(tf, Len(entry) + 1)'
    <3>1. n + 1 + 1 # 1 /\ n + 1 + 1 > 1 /\ n + 1 + 1 - 1 = n + 1 /\ sp <= sp
      BY <1>2, <1>4
    <3> QED
      BY <3>1, <1>6, <1>8 DEF RunsAt
  <2>2. ASSUME NEW i \in 1 .. n + 1
        PROVE  RunsAt(saved[i], i)'
    <3>1. i > 1 => i - 1 \in 1 .. n
      BY <1>2
    <3>2. i > 1 => entry'[i - 1] = entry[i - 1]
      BY <3>1, <1>8
    <3>3. RunsAt(saved'[i], i)
      BY <1>7, <1>9, <1>11, <1>13
    <3> QED
      BY <3>2, <3>3 DEF RunsAt
  <2>3. ASSUME NEW i \in 1 .. n + 1
        PROVE  entry'[i] + INFO_SIZE + UC_SIZE <= saved'[i].sp
    BY <1>4, <1>7, <1>8, <1>9, <1>13
  <2>4. ASSUME NEW i \in 1 .. n + 1, NEW j \in 1 .. n + 1, i < j
        PROVE  entry'[j] <= entry'[i]
    <3>1. i \in 1 .. n
      BY <2>4, <1>2
    <3>2. CASE j = n + 1
      <4>1. entry'[j] = sp /\ entry'[i] = entry[i] /\ entry[i] \in 0 .. Top
            /\ tf.sp <= entry[i]
        BY <3>1, <3>2, <1>8, <1>9
      <4> QED
        BY <4>1, <1>1, <1>2, <1>4
    <3>3. CASE j \in 1 .. n
      BY <2>4, <3>1, <3>3, <1>8, <1>10
    <3> QED
      BY <3>2, <3>3, <1>13
  <2> QED
    BY <2>1, <2>2, <2>3, <2>4, <1>12 DEF FramesNest
<1>16. FramesIntact'
  <2> SUFFICES ASSUME NEW i \in 1 .. n + 1
               PROVE  mem'[UcAddr(entry'[i])] = <<saved'[i]>>
    BY <1>12 DEF FramesIntact, UcAddr
  <2>1. CASE i = n + 1
    BY <2>1, <1>5, <1>7, <1>8
  <2>2. CASE i \in 1 .. n
    <3>1. UcAddr(entry[i]) >= tf.sp /\ UcAddr(entry[i]) \in Addr
      <4>1. entry[i] \in 0 .. Top /\ tf.sp <= entry[i] /\ UcAddr(entry[i]) \in Addr
        BY <2>2, <1>9
      <4>2. UcAddr(entry[i]) = entry[i] + INFO_SIZE
        BY DEF UcAddr
      <4> HIDE DEF UcAddr
      <4> QED
        BY <4>1, <4>2, <1>1, <1>2
    <3>2. entry'[i] = entry[i] /\ saved'[i] = saved[i] /\ mem[UcAddr(entry[i])] = <<saved[i]>>
      BY <2>2, <1>7, <1>8, <1>9
    <3>3. mem'[UcAddr(entry[i])] = mem[UcAddr(entry[i])]
      BY <3>1, <1>5
    <3> QED
      BY <3>2, <3>3
  <2> QED
    BY <2>1, <2>2, <1>13
<1> QED
  BY <1>14, <1>15, <1>16 DEF FrameInv

\* What sys_sigreturn() finds: the topmost frame, where do_signal() put it.
LEMMA ReturnsTopmost ==
    ASSUME FrameInv, tf.epc = "restorer"
    PROVE  /\ Len(entry) > 0 /\ Len(saved) = Len(entry)
           /\ mem[UcAddr(tf.sp)] = <<Last(saved)>>
           /\ Last(saved) = saved[Len(entry)]
           /\ Last(saved) \in Context
<1>1. Len(entry) > 0 /\ tf.sp = entry[Len(entry)] /\ Len(entry) \in Nat
  BY RunningContext
<1>2. Len(saved) = Len(entry) /\ saved \in Seq(Context) /\ entry \in Seq(0 .. Top)
  BY DEF FrameInv, FrameTypeOK
<1>3. Last(saved) = saved[Len(entry)] /\ Last(saved) \in Context
  BY <1>1, <1>2, FramesFrontLemma
<1>4. Len(entry) \in DOMAIN entry
  BY <1>1, <1>2
<1> QED
  BY <1>1, <1>2, <1>3, <1>4 DEF FrameInv, FramesIntact

\* sys_sigreturn(): the topmost frame is given up, and the context it held runs.
LEMMA SigreturnKeeps ==
    ASSUME FrameInv, SysSigreturn
    PROVE  FrameInv' /\ tf' = Restored(Last(saved))
<1> DEFINE n == Len(entry)
           c == Last(saved)
<1>1. /\ mem \in [Addr -> Seq(Context)]
      /\ saved \in Seq(Context) /\ entry \in Seq(0 .. Top)
      /\ Len(saved) = n /\ n \in Nat /\ 0 \in Val
  BY RunningContext, FrameAssumption DEF FrameInv, FrameTypeOK
<1>2. n > 0 /\ c = saved[n] /\ c \in Context /\ mem[UcAddr(tf.sp)] = <<c>>
  BY ReturnsTopmost DEF SysSigreturn
<1>3. /\ tf' = Restored(c) /\ mem' = mem
      /\ saved' = Front(saved) /\ entry' = Front(entry)
  BY <1>2 DEF SysSigreturn
<1>4. /\ saved' \in Seq(Context) /\ Len(saved') = n - 1
      /\ \A i \in 1 .. n - 1 : saved'[i] = saved[i]
  BY <1>1, <1>2, <1>3, FramesFrontLemma
<1>5. /\ entry' \in Seq(0 .. Top) /\ Len(entry') = n - 1
      /\ \A i \in 1 .. n - 1 : entry'[i] = entry[i]
  BY <1>1, <1>2, <1>3, FramesFrontLemma
<1>6. RunsAt(c, n)
  <2>1. n \in DOMAIN saved
    BY <1>1, <1>2
  <2> QED
    BY <2>1, <1>2 DEF FrameInv, FramesNest
<1>7. \A i \in 1 .. n : /\ entry[i] + INFO_SIZE + UC_SIZE <= saved[i].sp
                        /\ RunsAt(saved[i], i)
                        /\ mem[UcAddr(entry[i])] = <<saved[i]>>
  BY <1>1 DEF FrameInv, FramesNest, FramesIntact
<1>8. \A i, j \in 1 .. n : i < j => entry[j] <= entry[i]
  BY <1>1, SMTT(30) DEF FrameInv, FramesNest
<1> HIDE DEF n, c
<1>9. /\ tf' \in Context /\ tf'.sp = c.sp /\ tf'.epc = c.epc /\ tf'.ra = c.ra
  BY <1>1, <1>2, <1>3 DEF Restored, Context
<1>10. /\ DOMAIN entry' = 1 .. n - 1 /\ DOMAIN saved' = 1 .. n - 1
       /\ \A i \in 1 .. n - 1 : i \in 1 .. n
       /\ n - 1 + 1 = n
  BY <1>1, <1>2, <1>4, <1>5
<1>11. \A i \in 1 .. n : i > 1 => i - 1 \in 1 .. n - 1
  BY <1>1
<1>12. FrameTypeOK'
  BY <1>1, <1>3, <1>4, <1>5, <1>9 DEF FrameTypeOK
<1>13. FramesNest'
  <2>1. RunsAt(tf, Len(entry) + 1)'
    <3>1. n \in 1 .. n
      BY <1>1, <1>2
    <3>2. n > 1 => entry'[n - 1] = entry[n - 1]
      BY <3>1, <1>5, <1>11
    <3> QED
      BY <3>2, <1>5, <1>6, <1>9, <1>10 DEF RunsAt
  <2>2. ASSUME NEW i \in 1 .. n - 1
        PROVE  RunsAt(saved[i], i)'
    <3>1. i > 1 => entry'[i - 1] = entry[i - 1]
      BY <1>5, <1>10, <1>11
    <3> QED
      BY <3>1, <1>4, <1>7, <1>10 DEF RunsAt
  <2>3. ASSUME NEW i \in 1 .. n - 1
        PROVE  entry'[i] + INFO_SIZE + UC_SIZE <= saved'[i].sp
    BY <1>4, <1>5, <1>7, <1>10
  <2>4. ASSUME NEW i \in 1 .. n - 1, NEW j \in 1 .. n - 1, i < j
        PROVE  entry'[j] <= entry'[i]
    BY <2>4, <1>5, <1>8, <1>10
  <2> QED
    BY <2>1, <2>2, <2>3, <2>4, <1>10 DEF FramesNest
<1>14. FramesIntact'
  BY <1>3, <1>4, <1>5, <1>7, <1>10 DEF FramesIntact, UcAddr
<1> QED
  BY <1>3, <1>12, <1>13, <1>14 DEF FrameInv, c

-----------------------------------------------------------------------------
(* The theorems *)

\* The invariant holds in every state: nesting handlers, pushes and returns in
\* any order.
LEMMA FrameInvariant == FrameSpec => []FrameInv
<1>1. FrameInv /\ [FrameNext]_frameVars => FrameInv'
  <2> SUFFICES ASSUME FrameInv, [FrameNext]_frameVars PROVE FrameInv'
    OBVIOUS
  <2>1. CASE UNCHANGED frameVars
    BY <2>1 DEF frameVars, FrameInv, FrameTypeOK, FramesNest, RunsAt,
                FramesIntact, UcAddr
  <2> QED
    BY <2>1, ProgramKeeps, DoSignalKeeps, SigreturnKeeps DEF FrameNext
<1> QED
  BY <1>1, FrameInvInit, PTL DEF FrameSpec

\* The frames that do_signal() puts on the user stack (os/signal/ksignal.c) stay
\* intact until sys_sigreturn() takes them off, for every depth of nesting, every
\* stack and page size, and whatever the handlers push.
THEOREM FramesStayIntact == FrameSpec => []FrameSound
<1>1. FrameInv => FrameSound
  BY DEF FrameInv, FrameSound
<1> QED
  BY <1>1, FrameInvariant, PTL

\* do_signal() writes nothing at or above the sp that it interrupts.
THEOREM LiveStackIsKept == FrameSpec => LiveStackKept
<1>1. FrameInv => (DoSignal => \A a \in tf.sp .. Top - 1 : mem'[a] = mem[a])
  <2> SUFFICES ASSUME FrameInv, DoSignal, NEW a \in tf.sp .. Top - 1
               PROVE  mem'[a] = mem[a]
    OBVIOUS
  <2>1. tf.sp \in 0 .. Top /\ Top \in Nat
    BY RunningContext, FrameAssumption
  <2>2. a \in Addr /\ a >= tf.sp
    BY <2>1 DEF Addr
  <2> QED
    BY <2>2, FrameWritten DEF DoSignal
<1> QED
  BY <1>1, FrameInvariant, PTL DEF LiveStackKept

\* sys_sigreturn() gives the interrupted context back, a0 and t6 excepted.
THEOREM ContextIsRestored == FrameSpec => ContextRestored
<1>1. FrameInv => (SysSigreturn => \A r \in DOMAIN tf \ {"a0", "t6"} :
                                      tf'[r] = Last(saved)[r])
  <2> SUFFICES ASSUME FrameInv, SysSigreturn,
                      NEW r \in DOMAIN tf \ {"a0", "t6"}
               PROVE  tf'[r] = Last(saved)[r]
    OBVIOUS
  <2>1. tf' = Restored(Last(saved)) /\ Last(saved) \in Context
    BY SigreturnKeeps, ReturnsTopmost DEF SysSigreturn
  <2>2. r \in {"epc", "sp", "ra", "a1", "a2", "s0"}
    BY DEF FrameInv, FrameTypeOK, Context
  <2> QED
    BY <2>1, <2>2 DEF Restored, Context
<1> QED
  BY <1>1, FrameInvariant, PTL DEF ContextRestored

=============================================================================
