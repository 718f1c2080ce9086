--------------------------------- MODULE Vm ---------------------------------
(***************************************************************************)
(* User memory: physical pages (kallocpage(), kfreepage() of os/kalloc.c), *)
(* page tables and areas (os/vm.c), and their users fork(), load_user_elf, *)
(* sys_sbrk() and freeproc(), with every way of running out of memory.     *)
(*                                                                         *)
(* An address space belongs to one process and is used under mm->lock, so  *)
(* operations of two processes meet only in the page allocator: one        *)
(* iteration of a mapping loop is one step.  Virtual addresses are page    *)
(* numbers, except for brk.  Which free page is taken does not matter: the *)
(* smallest.  Flags and contents of pages are left out, and the objects    *)
(* struct mm and struct vma, whose allocators are not exhausted.           *)
(***************************************************************************)
EXTENDS Integers, Sequences, FiniteSets, FiniteSetsExt, SequencesExt

CONSTANTS NPAGE,      \* pages of the allocator
          Task,       \* processes
          NMM,        \* bound on address spaces, two for each process
          VaTop,      \* user pages; the last two are TRAPFRAME and TRAMPOLINE
          Span,       \* <<s1, s2>>: pages under a last-level table, under the other
          HeapStart,  \* the program occupies 0 .. HeapStart - 1
          Stack,      \* [s, e] of the user stack
          PGSIZE,     \* the unit of brk and sbrk()
          Word,       \* 2^64: brk is unsigned
          Increments  \* the arguments of sbrk()

ASSUME VmAssumption ==
    /\ NPAGE \in Nat /\ NMM \in Nat \ {0} /\ IsFiniteSet(Task)
    /\ VaTop \in Nat /\ PGSIZE \in Nat \ {0} /\ Increments \subseteq Int
    /\ Word \in Nat /\ Word > VaTop * PGSIZE /\ Word % PGSIZE = 0
    /\ Span[1] \in Nat \ {0} /\ Span[2] \in Nat \ {0}
    /\ \A i \in 1 .. 2 : (VaTop - 1) \div Span[i] = (VaTop - 2) \div Span[i]
    /\ Stack \in [s : Nat, e : Nat]
    /\ HeapStart \in 1 .. Stack.s - 1 /\ Stack.s < Stack.e /\ Stack.e <= VaTop - 2

Page == 1 .. NPAGE
NoPage == 0
Mm == 1 .. NMM
NoMm == 0
Va == 0 .. VaTop - 1
Area == [s : 0 .. VaTop, e : 0 .. VaTop]

\* The tables on the way to an address, the higher level first.
Path(v) == << <<2, v \div Span[2]>>, <<1, v \div Span[1]>> >>
Table == UNION {Range(Path(v)) : v \in Va}

VARIABLES
    free,      \* kmem.freelist
    lost,      \* pages that nobody refers to any more
    root, tab, pte, vmas, \* struct mm: root page, tables, leaf entries, areas
    cur, brk,  \* p->mm and p->brk
    pc, new, child, todo, va, end, \* the operation of a process, see PCs
    panicked,
    overrun    \* history: processes whose sbrk() took the heap past the stack or
               \* round the end of the word, and the children they had since

space == <<free, lost, root, tab, pte, vmas>>
oper == <<new, child, todo, va, end>>
vars == <<space, cur, brk, pc, oper, panicked, overrun>>

\* "user"   no operation
\* "map"    fork() or exec(): mm_mappages() of the areas todo in the mm new
\* "remap"  sbrk(): the first loop of mm_remap()
\* "trim"   ... its second loop
\* "err"    ... its error path
PCs == {"user", "map", "remap", "trim", "err"}

TypeOK ==
    /\ free \subseteq Page /\ lost \subseteq Page
    /\ root \in [Mm -> Page \cup {NoPage}]
    /\ tab \in [Mm -> [Table -> Page \cup {NoPage}]]
    /\ pte \in [Mm -> [Va -> Page \cup {NoPage}]]
    /\ vmas \in [Mm -> Seq(Area)]
    /\ cur \in [Task -> Mm \cup {NoMm}] /\ brk \in [Task -> 0 .. Word - 1]
    /\ pc \in [Task -> PCs] /\ new \in [Task -> Mm \cup {NoMm}]
    /\ child \in [Task -> Task] /\ todo \in [Task -> Seq(Area)]
    /\ va \in [Task -> 0 .. VaTop - 2] /\ end \in [Task -> 0 .. Word - 1]
    /\ panicked \in BOOLEAN /\ overrun \subseteq Task

\* No process has memory yet; the first one is started by load_init_app().
Init ==
    /\ free = Page /\ lost = {}
    /\ root = [m \in Mm |-> NoPage]
    /\ tab = [m \in Mm |-> [k \in Table |-> NoPage]]
    /\ pte = [m \in Mm |-> [v \in Va |-> NoPage]]
    /\ vmas = [m \in Mm |-> <<>>]
    /\ cur = [t \in Task |-> NoMm] /\ brk = [t \in Task |-> 0]
    /\ pc = [t \in Task |-> "user"] /\ new = [t \in Task |-> NoMm]
    /\ child = [t \in Task |-> t] /\ todo = [t \in Task |-> <<>>]
    /\ va = [t \in Task |-> 0] /\ end = [t \in Task |-> 0]
    /\ panicked = FALSE /\ overrun = {}

-----------------------------------------------------------------------------
(* Helpers *)

\* The k-th page that kallocpage() will return.
Nth(k) == CHOOSE p \in free : Cardinality({q \in free : q < p}) = k - 1

Pages(a) == a.s .. a.e - 1
Covered(areas) == UNION {Pages(a) : a \in Range(areas)}

\* vma_check_overlap(): is an end of the area a inside one of the others?
Overlap(a, others) ==
    /\ a.s # a.e
    /\ \E o \in others : \/ a.s < o.e /\ a.s >= o.s
                         \/ a.e > o.s /\ a.e <= o.e

\* The tables that walk(va, 1) has to allocate.
Missing(m, v) == LET IfMissing(k) == IF tab[m][k] = NoPage THEN <<k>> ELSE <<>>
                 IN  IfMissing(Path(v)[1]) \o IfMissing(Path(v)[2])

\* Does walk(va, 1) get its tables and, if leaf is 1, is a page left?
Enough(m, v, leaf) == Len(Missing(m, v)) + leaf <= Cardinality(free)

\* tab after walk(va, 1): as many of the missing tables as there are pages.
Walked(m, v) ==
    LET need == Missing(m, v)
        got == {i \in DOMAIN need : i <= Cardinality(free)}
    IN  [k \in Table |-> IF \E i \in got : need[i] = k
                         THEN Nth(CHOOSE i \in got : need[i] = k) ELSE tab[m][k]]

TablePages(ts) == {ts[k] : k \in Table} \ {NoPage}
Frames(m, S) == {pte[m][v] : v \in S \cap Va} \ {NoPage}

\* What mm_free() gives back: the pages of all areas, the tables and the root.
MmPages(m) == Frames(m, Covered(vmas[m])) \cup TablePages(tab[m]) \cup {root[m]}

NoTables == [k \in Table |-> NoPage]
NoPtes == [v \in Va |-> NoPage]

-----------------------------------------------------------------------------
(* mm_create(): a root and the tables of the trampoline.                   *)

\* Task t wants to fill a new address space with areas for task c.
Create(t, c, areas) ==
    LET m == Min({i \in Mm : root[i] = NoPage})
        top == VaTop - 1
        have == Cardinality(free)
    IN  /\ \E i \in Mm : root[i] = NoPage
        /\ CASE have = 0 ->   \* release() of a lock that is not held
                  panicked' = TRUE /\ UNCHANGED <<space, pc, oper>>
             [] have \in 1 .. Len(Path(top)) ->  \* only the root is given back
                  /\ free' = free \ {Nth(i) : i \in 2 .. have}
                  /\ lost' = lost \cup {Nth(i) : i \in 2 .. have}
                  /\ UNCHANGED <<root, tab, pte, vmas, pc, oper, panicked>>
             [] OTHER ->
                  /\ free' = free \ {Nth(i) : i \in 1 .. Len(Path(top)) + 1}
                  /\ root' = [root EXCEPT ![m] = Nth(1)]
                  /\ tab' = [tab EXCEPT ![m] = [k \in Table |->
                        IF k = Path(top)[1] THEN Nth(2)
                        ELSE IF k = Path(top)[2] THEN Nth(3) ELSE NoPage]]
                  /\ pc' = [pc EXCEPT ![t] = "map"]
                  /\ new' = [new EXCEPT ![t] = m] /\ child' = [child EXCEPT ![t] = c]
                  /\ todo' = [todo EXCEPT ![t] = areas]
                  /\ va' = [va EXCEPT ![t] = Head(areas).s]
                  /\ UNCHANGED <<lost, pte, vmas, end, panicked>>

Ready(t) == ~panicked /\ pc[t] = "user"

\* load_user_elf(): program, empty heap, stack.  Also the start of the first
\* process.
Exec(t) ==
    /\ Ready(t)
    /\ cur[t] # NoMm \/ \A u \in Task : cur[u] = NoMm /\ pc[u] = "user"
    /\ Create(t, t, << [s |-> 0, e |-> HeapStart],
                       [s |-> HeapStart, e |-> HeapStart], Stack >>)
    /\ UNCHANGED <<cur, brk, overrun>>

\* fork(): mm_copy() of the areas of the parent.
Fork(t) == \E c \in Task :
    /\ Ready(t) /\ cur[t] # NoMm
    /\ cur[c] = NoMm /\ \A u \in Task : pc[u] = "map" => child[u] # c
    /\ Create(t, c, vmas[cur[t]])
    /\ UNCHANGED <<cur, brk, overrun>>

-----------------------------------------------------------------------------
(* mm_mappages() *)

Mapping(t) == ~panicked /\ pc[t] = "map" /\ todo[t] # <<>>

\* vma_check_overlap() of the area, made before its first page.
Refused(t) == LET a == Head(todo[t])
              IN  va[t] = a.s /\ Overlap(a, Range(vmas[new[t]]))

\* One page is mapped.
MapPage(t) ==
    LET m == new[t]
        v == va[t]
        page == Nth(Len(Missing(m, v)) + 1)
    IN  /\ Mapping(t) /\ v < Head(todo[t]).e /\ ~Refused(t)
        /\ pte[m][v] = NoPage /\ Enough(m, v, 1)
        /\ tab' = [tab EXCEPT ![m] = Walked(m, v)]
        /\ pte' = [pte EXCEPT ![m][v] = page]
        /\ free' = free \ ({page} \cup TablePages(Walked(m, v)))
        /\ va' = [va EXCEPT ![t] = v + 1]
        /\ UNCHANGED <<lost, root, vmas, cur, brk, pc, new, child, todo, end,
                       panicked, overrun>>

\* fork() copies the pages of the area a: one that the parent has lost is a fault
\* in the kernel.
CopyFaults(t, a) == child[t] # t /\ \E v \in Pages(a) : pte[cur[t]][v] = NoPage

\* All pages are mapped: the area is added to the list.
MapArea(t) ==
    LET a == Head(todo[t])
        rest == Tail(todo[t])
    IN  /\ Mapping(t) /\ va[t] >= a.e /\ ~Refused(t)
        /\ vmas' = [vmas EXCEPT ![new[t]] = <<a>> \o @]
        /\ todo' = [todo EXCEPT ![t] = rest]
        /\ va' = [va EXCEPT ![t] = IF rest = <<>> THEN 0 ELSE Head(rest).s]
        /\ panicked' = CopyFaults(t, a)
        /\ UNCHANGED <<free, lost, root, tab, pte, cur, brk, pc, new, child, end,
                       overrun>>

Finish(t) ==
    /\ pc' = [pc EXCEPT ![t] = "user"] /\ new' = [new EXCEPT ![t] = NoMm]
    /\ child' = [child EXCEPT ![t] = t] /\ todo' = [todo EXCEPT ![t] = <<>>]
    /\ va' = [va EXCEPT ![t] = 0] /\ end' = [end EXCEPT ![t] = 0]

\* mm_free(m)
Drop(m) ==
    /\ root' = [root EXCEPT ![m] = NoPage] /\ tab' = [tab EXCEPT ![m] = NoTables]
    /\ pte' = [pte EXCEPT ![m] = NoPtes] /\ vmas' = [vmas EXCEPT ![m] = <<>>]

\* Mutant: the half-mapped area is not given back.
MapFailKeep(t) ==
    LET m == new[t]
        v == va[t]
    IN  /\ Mapping(t) /\ v < Head(todo[t]).e
        /\ Refused(t) \/ pte[m][v] # NoPage \/ ~Enough(m, v, 1)
        /\ free' = free \cup MmPages(m)
        /\ Drop(m)
        /\ Finish(t)
        /\ UNCHANGED <<lost, cur, brk, panicked, overrun>>

\* The area overlaps, an entry is in use, or memory has run out: freevma() of
\* the half-mapped area, and the callers' mm_free() of the new address space.
MapFail(t) ==
    LET m == new[t]
        v == va[t]
        half == IF Refused(t) THEN {} ELSE Pages(Head(todo[t]))
    IN  /\ Mapping(t) /\ v < Head(todo[t]).e
        /\ Refused(t) \/ pte[m][v] # NoPage \/ ~Enough(m, v, 1)
        /\ free' = free \cup MmPages(m) \cup Frames(m, half)
        /\ Drop(m)
        /\ Finish(t)
        /\ UNCHANGED <<lost, cur, brk, panicked, overrun>>

\* exec() frees the old address space only now; fork() lets the child go.
MapDone(t) ==
    LET c == child[t]
        old == cur[t]
    IN  /\ ~panicked /\ pc[t] = "map" /\ todo[t] = <<>>
        /\ IF c = t /\ old # NoMm THEN free' = free \cup MmPages(old) /\ Drop(old)
                                  ELSE UNCHANGED <<free, root, tab, pte, vmas>>
        /\ cur' = [cur EXCEPT ![c] = new[t]]
        /\ brk' = [brk EXCEPT ![c] = IF c = t THEN HeapStart * PGSIZE ELSE brk[t]]
        /\ overrun' = {u \in Task : IF u = c THEN c # t /\ t \in overrun
                                    ELSE u \in overrun}
        /\ Finish(t)
        /\ UNCHANGED <<lost, panicked>>

-----------------------------------------------------------------------------
(* sys_sbrk() and mm_remap() *)

\* Index and value of vma_brk in the list of t.
HeapAt(t) == CHOOSE i \in DOMAIN vmas[cur[t]] : vmas[cur[t]][i].s = HeapStart
Heap(t) == vmas[cur[t]][HeapAt(t)]
Others(t) == {vmas[cur[t]][i] : i \in DOMAIN vmas[cur[t]] \ {HeapAt(t)}}

PageUp(b) == ((b + PGSIZE - 1) % Word) \div PGSIZE

\* new_brk, and the comparison with vm_start, which is unsigned.
NewBrk(t, n) == (brk[t] + n) % Word

\* The overlap test of mm_remap(): both ends of the new range, not its inside, so
\* a range that contains the stack passes.
\* Bound: a heap that reaches TRAPFRAME is left out.
RemapAllowed(t, e) ==
    e <= VaTop - 2 /\ ~Overlap([s |-> HeapStart, e |-> e], Others(t))

\* sbrk() within the last page: no mapping changes.
SbrkNear(t) == \E n \in Increments :
    LET b == NewBrk(t, n)
    IN  /\ Ready(t) /\ cur[t] # NoMm
        /\ b >= HeapStart * PGSIZE /\ PageUp(b) = Heap(t).e
        /\ brk' = [brk EXCEPT ![t] = b]
        /\ UNCHANGED <<space, cur, pc, oper, panicked, overrun>>

\* sbrk() that moves the end of the heap: mm_remap() begins.
SbrkFar(t) == \E n \in Increments :
    LET b == NewBrk(t, n)
    IN  /\ Ready(t) /\ cur[t] # NoMm
        /\ b >= HeapStart * PGSIZE /\ PageUp(b) # Heap(t).e
        /\ RemapAllowed(t, PageUp(b))
        /\ pc' = [pc EXCEPT ![t] = "remap"]
        /\ va' = [va EXCEPT ![t] = HeapStart] /\ end' = [end EXCEPT ![t] = b]
        /\ overrun' = IF PageUp(b) \in HeapStart .. Stack.e
                      THEN overrun ELSE overrun \cup {t}
        /\ UNCHANGED <<space, cur, brk, new, child, todo, panicked>>

Remapping(t, label) == ~panicked /\ pc[t] = label

\* First loop: keep the page that is there, or map a new one.
RemapPage(t) ==
    LET m == cur[t]
        v == va[t]
        page == Nth(Len(Missing(m, v)) + 1)
    IN  /\ Remapping(t, "remap") /\ v < PageUp(end[t])
        /\ \/ pte[m][v] # NoPage /\ UNCHANGED <<tab, pte, free>>
           \/ /\ pte[m][v] = NoPage /\ Enough(m, v, 1)
              /\ tab' = [tab EXCEPT ![m] = Walked(m, v)]
              /\ pte' = [pte EXCEPT ![m][v] = page]
              /\ free' = free \ ({page} \cup TablePages(Walked(m, v)))
        /\ va' = [va EXCEPT ![t] = v + 1]
        /\ UNCHANGED <<lost, root, vmas, cur, brk, pc, new, child, todo, end,
                       panicked, overrun>>

\* No memory: tables that were allocated stay, the error path follows.
RemapNoPage(t) ==
    LET m == cur[t]
        v == va[t]
    IN  /\ Remapping(t, "remap") /\ v < PageUp(end[t])
        /\ pte[m][v] = NoPage /\ ~Enough(m, v, 1)
        /\ tab' = [tab EXCEPT ![m] = Walked(m, v)]
        /\ free' = free \ TablePages(Walked(m, v))
        /\ pc' = [pc EXCEPT ![t] = "err"]
        /\ UNCHANGED <<lost, root, pte, vmas, cur, brk, oper, panicked, overrun>>

RemapMapped(t) ==
    /\ Remapping(t, "remap") /\ va[t] >= PageUp(end[t])
    /\ pc' = [pc EXCEPT ![t] = "trim"]
    /\ UNCHANGED <<space, cur, brk, oper, panicked, overrun>>

\* Unmap and free the pages S of t.
Unmap(t, S) ==
    /\ free' = free \cup Frames(cur[t], S)
    /\ pte' = [pte EXCEPT ![cur[t]] = [v \in Va |-> IF v \in S THEN NoPage ELSE @[v]]]

\* Second loop: pages behind the new end are given back; then the area and brk
\* change.
RemapTrim(t) ==
    /\ Remapping(t, "trim")
    /\ Unmap(t, Pages(Heap(t)) \ (HeapStart .. PageUp(end[t]) - 1))
    /\ vmas' = [vmas EXCEPT ![cur[t]][HeapAt(t)].e = PageUp(end[t])]
    /\ brk' = [brk EXCEPT ![t] = end[t]]
    /\ Finish(t)
    /\ UNCHANGED <<lost, root, tab, cur, panicked, overrun>>

\* Mutant: every page of the range is taken away.
UndoneAll(t) == HeapStart .. PageUp(end[t]) - 1

\* Mutant: nothing is taken back.
UndoneNone(t) == {}

\* The pages that the error path unmaps: those outside the old area.
Undone(t) == (HeapStart .. PageUp(end[t]) - 1) \ Pages(Heap(t))

RemapErr(t) ==
    /\ Remapping(t, "err")
    /\ Unmap(t, Undone(t))
    /\ Finish(t)
    /\ UNCHANGED <<lost, root, tab, vmas, cur, brk, panicked, overrun>>

-----------------------------------------------------------------------------
\* freeproc() of a process that has exited; somebody remains to call wait().
FreeProc(t) ==
    /\ Ready(t) /\ cur[t] # NoMm
    /\ \E u \in Task \ {t} : cur[u] # NoMm
    /\ free' = free \cup MmPages(cur[t])
    /\ Drop(cur[t])
    /\ cur' = [cur EXCEPT ![t] = NoMm] /\ brk' = [brk EXCEPT ![t] = 0]
    /\ overrun' = overrun \ {t}
    /\ UNCHANGED <<lost, pc, oper, panicked>>

Next == \/ \E t \in Task :
              \/ Exec(t) \/ Fork(t) \/ FreeProc(t)
              \/ MapPage(t) \/ MapArea(t) \/ MapFail(t) \/ MapDone(t)
              \/ SbrkNear(t) \/ SbrkFar(t) \/ RemapPage(t) \/ RemapNoPage(t)
              \/ RemapMapped(t) \/ RemapTrim(t) \/ RemapErr(t)
        \/ panicked /\ UNCHANGED vars

Spec == Init /\ [][Next]_vars

-----------------------------------------------------------------------------
(* Properties *)

\* How many references there are to the physical page p.
Refs(p) == Cardinality({m \in Mm : root[m] = p})
           + Cardinality({x \in Mm \X Table : tab[x[1]][x[2]] = p})
           + Cardinality({x \in Mm \X Va : pte[x[1]][x[2]] = p})

\* Every page is on the free list or has exactly one owner, in the middle of
\* every operation and after every failure: none is freed while in use, given
\* out twice, or leaked (but for the table that mm_create() forgets, see lost).
PagesAccounted == \A p \in Page :
    Refs(p) + (IF p \in free THEN 1 ELSE 0) + (IF p \in lost THEN 1 ELSE 0) = 1

\* Between operations exactly the pages of a process's areas are mapped, however
\* many of its sbrk(), fork() and exec() calls have failed.
AreasMapped == \A t \in Task \ overrun : pc[t] = "user" /\ cur[t] # NoMm =>
    {v \in Va : pte[cur[t]][v] # NoPage} = Covered(vmas[cur[t]])

\* The areas of a process do not overlap.
AreasDisjoint == \A t \in Task \ overrun : cur[t] # NoMm =>
    LET areas == vmas[cur[t]]
    IN  \A i, j \in DOMAIN areas : i # j => Pages(areas[i]) \cap Pages(areas[j]) = {}

\* p->brk always lies in the heap and in its last page, in a forked child and
\* after a failed sbrk() too.
HeapHoldsBrk == \A t \in Task \ overrun : pc[t] = "user" /\ cur[t] # NoMm =>
    /\ brk[t] \in HeapStart * PGSIZE .. Heap(t).e * PGSIZE
    /\ PageUp(brk[t]) = Heap(t).e

\* The list of areas, the page table and p->brk agree between operations, also
\* when sbrk(), fork() or exec() ran out of memory half way, and whatever other
\* processes have done to theirs.  Only a process that has itself made one of the
\* two calls of sbrk() that the code should refuse is excepted, until its exec().
AreasSound == TypeOK /\ AreasMapped /\ AreasDisjoint /\ HeapHoldsBrk

\* While mm_remap() of such a process grows the heap or gives up, no page that
\* the program already has is moved or taken away.
RemapKeeps ==
    [][\A t \in Task \ overrun : pc[t] \in {"remap", "err"} =>
          \A v \in Covered(vmas[cur[t]]) : pte'[cur[t]][v] = pte[cur[t]][v]]_vars

-----------------------------------------------------------------------------
(* What the documents say and the code does not do *)

\* "restore every mapping back" (vm.c:347): after an sbrk() that fails, too, every
\* page of the process is mapped, those of its stack included.
MappingsRestored == \A t \in Task : pc[t] = "user" /\ cur[t] # NoMm =>
    \A v \in Covered(vmas[cur[t]]) : pte[cur[t]][v] # NoPage

\* "userprog requested to shrink brk, but underflow" (syscall.c:137): a request that
\* takes brk below the start of the heap, read as a signed number, is refused.
UnderflowRefused == \A t \in Task : cur[t] # NoMm =>
    (IF brk[t] < Word \div 2 THEN brk[t] ELSE brk[t] - Word) >= HeapStart * PGSIZE
=============================================================================
