----------------------------- MODULE GlibcHeap -----------------------------
(***************************************************************************)
(* The walks over the glibc heap in src/scripts/gef.py: the commands       *)
(* `heap bins tcache', `heap bins fast', `heap bins unsorted|small|large', *)
(* `heap arenas', `heap chunks' and GlibcArena.verify().  They follow      *)
(* pointers and sizes of the debugged process, which may be corrupt, so    *)
(* the memory is arbitrary: any cell may point to any cell, to NULL or to  *)
(* an address that cannot be read.  One iteration of a loop is one step.   *)
(***************************************************************************)
EXTENDS GefCommand

CONSTANTS
    Cells,      \* addresses of chunks, or of arenas, in a linked structure
    Threads,    \* threads with a tcache, numbers as in GDB
    HeapSize,   \* units of memory in a heap walked by size
    MaxChunk    \* bound on the size of a chunk, in units

ASSUME HeapBounds == /\ Cells \subseteq Nat \ {0} /\ IsFiniteSet(Cells)
                     /\ Threads \subseteq Nat \ {0}
                     /\ HeapSize \in Nat /\ MaxChunk \in Nat

NULL == 0
Bad == -1        \* an address that cannot be read: gdb.MemoryError
NoTcache == -2   \* find_tcache() returns 0
Header == 1000   \* the bin header inside the arena, linked like a chunk

Pointers == Cells \cup {NULL, Bad}

\* What a list is, whatever walks it: the cells reached from `from', and how
\* it ends.
Closed(next, S) == \A c \in S : next[c] \in DOMAIN next => next[c] \in S
Reached(next, from) ==
    {c \in DOMAIN next : from \in DOMAIN next /\
        \A S \in SUBSET DOMAIN next : (from \in S /\ Closed(next, S)) => c \in S}
HowItEnds(next, from) ==
    CASE from = NULL \/ \E c \in Reached(next, from) : next[c] = NULL -> "nil"
      [] \E c \in Reached(next, from) : next[c] = Bad -> "corrupted"
      [] OTHER -> "loop"

-----------------------------------------------------------------------------
(* heap bins tcache, heap bins fast: singly linked lists.                   *)

\* What find_tcache() and tcachebin() give for a thread: a head chunk, none, a
\* head that cannot be read, or no tcache at all.
TcacheHeads == Pointers \cup {NoTcache}

ListsJob(cmd, next, heads, asked, selected) ==
    /\ job = [cmd |-> cmd, next |-> next, heads |-> heads, asked |-> asked,
              selected |-> selected]
    /\ st = [status |-> "walking", todo |-> asked, pos |-> NULL,
             seen |-> {}, thread |-> selected,
             found |-> [t \in Threads |-> {}], ends |-> [t \in Threads |-> "none"]]

\* GlibcHeapTcachebinsCommand.do_invoke(): the threads asked for, in ascending
\* order, whichever is selected.
TcacheInit ==
    \E next \in [Cells -> Pointers], heads \in [Threads -> TcacheHeads],
       asked \in SUBSET Threads \ {{}}, selected \in Threads :
        ListsJob("tcache", next, heads, asked, selected)

\* GlibcHeapFastbinsYCommand.do_invoke(): every list of the arena, here as many
\* as there are threads; its loop is the one of the tcaches.
FastInit ==
    \E next \in [Cells -> Pointers], heads \in [Threads -> Pointers], selected \in Threads :
        ListsJob("fast", next, heads, Threads, selected)

\* sorted(): the lists are gone through in ascending order.
Lowest(todo) == CHOOSE t \in todo : \A u \in todo : t <= u

\* The next list: `thread.switch()', then the head chunk is read outside the
\* try block, so that a head that cannot be read ends the command.
NextList ==
    LET t == Lowest(st.todo)
        head == job.heads[t]
        switched == [st EXCEPT !.thread = IF job.cmd = "tcache" THEN t ELSE @]
    IN /\ Walking({"tcache", "fast"})
       /\ st.pos = NULL /\ st.todo # {}
       /\ UNCHANGED job
       /\ st' = CASE head = Bad -> [switched EXCEPT !.status = "raised"]
                  [] head \in {NULL, NoTcache} ->
                        [switched EXCEPT !.todo = @ \ {t}, !.ends[t] = "nil"]
                  [] OTHER -> [switched EXCEPT !.pos = head, !.seen = {}]

\* Mutant: the set of visited chunks is not consulted.
NextChunkNoLoopCheck ==
    LET t == Lowest(st.todo)
        next == job.next[st.pos]
        done(how) == [st EXCEPT !.todo = @ \ {t}, !.pos = NULL, !.ends[t] = how,
                                !.found[t] = st.seen \cup {st.pos}]
    IN /\ Walking({"tcache", "fast"})
       /\ st.pos # NULL
       /\ UNCHANGED job
       /\ st' = CASE next = NULL -> done("nil")
                  [] next = Bad -> done("corrupted")
                  [] OTHER -> [st EXCEPT !.seen = @ \cup {st.pos}, !.pos = next]

\* The body of `while True': a chunk seen before is a loop; a next chunk that
\* cannot be read is reported as corrupted.
NextChunk ==
    LET t == Lowest(st.todo)
        next == job.next[st.pos]
        done(how) == [st EXCEPT !.todo = @ \ {t}, !.pos = NULL, !.ends[t] = how,
                                !.found[t] = st.seen \cup {st.pos}]
    IN /\ Walking({"tcache", "fast"})
       /\ st.pos # NULL
       /\ UNCHANGED job
       /\ st' = CASE st.pos \in st.seen -> done("loop")
                  [] st.pos \notin st.seen /\ next = NULL -> done("nil")
                  [] st.pos \notin st.seen /\ next = Bad -> done("corrupted")
                  [] OTHER -> [st EXCEPT !.seen = @ \cup {st.pos}, !.pos = next]

\* `current_thread.switch()'.
ListsEnd ==
    /\ Walking({"tcache", "fast"})
    /\ st.pos = NULL /\ st.todo = {}
    /\ st' = [st EXCEPT !.status = "done", !.thread = job.selected]
    /\ UNCHANGED job

-----------------------------------------------------------------------------
(* heap bins unsorted|small|large, heap arenas, verify(): rings.           *)

\* A bin is a ring through its header, whose fd and bk are bin[0] and bin[1].
BinInit ==
    \E next \in [Cells \cup {Header} -> Cells \cup {Header, NULL, Bad}],
       bk \in Cells \cup {Header, NULL, Bad} :
        /\ job = [cmd |-> "bin", next |-> next, bk |-> bk]
        /\ st = [status |-> "walking", pos |-> next[Header], head |-> NULL, found |-> 0,
                 fresh |-> TRUE]

\* GlibcHeapBinsCommand.pprint_bin(), before its loop: an arena that is not
\* initialised has null pointers; the end of the list is read from the last
\* chunk.
BinStart ==
    /\ Walking({"bin"}) /\ st.fresh
    /\ UNCHANGED job
    /\ st' = CASE st.pos = NULL /\ job.bk = NULL -> [st EXCEPT !.status = "invalid"]
               [] job.bk \notin DOMAIN job.next -> [st EXCEPT !.status = "raised"]
               [] OTHER -> [st EXCEPT !.head = job.next[job.bk], !.fresh = FALSE]

\* Mutant: the walk stops at the last chunk instead of after it.
BinChunkStopsEarly ==
    /\ Walking({"bin"}) /\ ~st.fresh
    /\ UNCHANGED job
    /\ st' = CASE st.pos \in {st.head, job.bk} -> [st EXCEPT !.status = "done"]
               [] st.pos \notin DOMAIN job.next -> [st EXCEPT !.status = "raised"]
               [] OTHER -> [st EXCEPT !.pos = job.next[st.pos], !.found = @ + 1]

\* `while fd != head'; the count is not bounded by anything else.
BinChunk ==
    /\ Walking({"bin"}) /\ ~st.fresh
    /\ UNCHANGED job
    /\ st' = CASE st.pos = st.head -> [st EXCEPT !.status = "done"]
               [] st.pos # st.head /\ st.pos \notin DOMAIN job.next ->
                    [st EXCEPT !.status = "raised"]
               [] OTHER -> [st EXCEPT !.pos = job.next[st.pos],
                                      !.found = IF @ > Cardinality(Cells) THEN @ ELSE @ + 1]

\* GlibcHeapSmallBinsCommand and GlibcHeapLargeBinsCommand: what pprint_bin()
\* returned for each bin is added up, until one is negative.
BinsInit ==
    \E counts \in [1 .. 3 -> -1 .. 2] :
        /\ job = [cmd |-> "bins", counts |-> counts]
        /\ st = [status |-> "walking", next |-> 1, total |-> 0, bins |-> 0]

BinsStep ==
    LET count == job.counts[st.next]
    IN /\ Walking({"bins"})
       /\ UNCHANGED job
       /\ st' = IF st.next > Len(job.counts) \/ count < 0 THEN [st EXCEPT !.status = "done"]
                ELSE [st EXCEPT !.next = @ + 1, !.total = @ + count,
                                !.bins = IF count > 0 THEN @ + 1 ELSE @]

\* GlibcArena.__iter__() from the main arena, and GlibcArena.verify() of a
\* candidate, over the `next' pointers of the arenas.
ArenasInit ==
    \E cmd \in {"arenas", "verify"}, next \in [Cells -> Pointers], first \in Cells :
        /\ job = [cmd |-> cmd, next |-> next, first |-> first]
        /\ st = [status |-> "walking", pos |-> first, found |-> {}]

\* __iter__(): yield, and stop at NULL or at the main arena.
ArenaIter ==
    LET next == job.next[st.pos]
        listed == [st EXCEPT !.found = @ \cup {st.pos}]
    IN /\ Walking({"arenas"})
       /\ UNCHANGED job
       /\ st' = CASE next \in {NULL, job.first} -> [listed EXCEPT !.status = "done"]
                  [] next = Bad -> [listed EXCEPT !.status = "raised"]
                  [] OTHER -> [listed EXCEPT !.pos = next]

\* verify(): any exception, also the one of reading NULL, means no arena.
ArenaVerify ==
    LET next == job.next[st.pos]
    IN /\ Walking({"verify"})
       /\ UNCHANGED job
       /\ st' = CASE next = job.first -> [st EXCEPT !.status = "done"]
                  [] next \in {NULL, Bad} -> [st EXCEPT !.status = "raised"]
                  [] OTHER -> [st EXCEPT !.pos = next, !.found = @ \cup {next}]

-----------------------------------------------------------------------------
(* heap chunks: a heap walked by the sizes of its chunks.                   *)

NoTop == HeapSize + 1   \* the top chunk of the main arena is elsewhere

\* dump_chunks_arena(): the main arena ends at its top chunk, a heap of another
\* arena where its heap_info says, here the end of the mapped memory.
ChunksInit ==
    \E size \in [0 .. HeapSize - 1 -> 0 .. MaxChunk], top \in 0 .. HeapSize - 1,
       main, summary \in BOOLEAN, min \in {0, 2}, count \in {-1, 1} :
        /\ job = [cmd |-> "chunks", size |-> size, top |-> top, main |-> main,
                  mainTop |-> IF main THEN top ELSE NoTop,
                  end |-> IF main THEN top + size[top] ELSE HeapSize,
                  summary |-> summary, min |-> min, count |-> count]
        /\ st = [status |-> "walking", pos |-> 0, listed |-> {}, left |-> count]

\* should_process_chunk()
ShouldProcess(size) == size >= job.min

\* One iteration of the loop of dump_chunks_heap() and of GlibcChunk.__iter__().
ChunkStep ==
    LET pos == st.pos
        size == job.size[pos]
        listed == [st EXCEPT !.listed = @ \cup {pos}]
        counted == [listed EXCEPT !.left = @ - 1]
        body == IF ShouldProcess(size) THEN counted ELSE st
    IN /\ Walking({"chunks"})
       /\ UNCHANGED job
       /\ st' = CASE ~job.summary /\ pos = job.top ->
                        [(IF ShouldProcess(size) THEN listed ELSE st) EXCEPT !.status = "done"]
                  [] (job.summary \/ pos # job.top) /\ pos > job.end ->
                        [st EXCEPT !.status = "corrupted"]
                  [] (job.summary \/ pos # job.top) /\ pos <= job.end
                     /\ ShouldProcess(size) /\ st.left = 0 -> [st EXCEPT !.status = "done"]
                  [] OTHER ->
                        IF pos = job.mainTop \/ size = 0
                        THEN [body EXCEPT !.status = "done"]
                        ELSE IF pos + size \notin DOMAIN job.size
                             THEN [body EXCEPT !.status = "raised"]
                             ELSE [body EXCEPT !.pos = pos + size]

-----------------------------------------------------------------------------
HeapInit == TcacheInit \/ FastInit \/ BinInit \/ BinsInit \/ ArenasInit \/ ChunksInit

HeapNext == \/ NextList \/ NextChunk \/ ListsEnd
            \/ BinStart \/ BinChunk \/ BinsStep
            \/ ArenaIter \/ ArenaVerify
            \/ ChunkStep

HeapSpec == HeapInit /\ [][HeapNext]_vars

-----------------------------------------------------------------------------
(* Properties.                                                             *)

\* Whatever a corrupt tcache or fastbin looks like, its list is shown as it is:
\* every chunk of it once, and a loop, or a chunk that cannot be read, reported
\* exactly when the list has one; and the command gives the selected thread
\* back, having switched to each thread it was asked about.
ListsExact ==
    (job.cmd \in {"tcache", "fast"} /\ st.status = "done") =>
        /\ st.thread = job.selected
        /\ \A t \in job.asked : job.heads[t] \in Cells =>
            /\ st.found[t] = Reached(job.next, job.heads[t])
            /\ st.ends[t] = HowItEnds(job.next, job.heads[t])

\* A ring through the header: each chunk of it once, bk the last.
WellFormedBin ==
    LET ring == Reached(job.next, Header)
    IN /\ \A c \in ring : job.next[c] \in DOMAIN job.next
       /\ Header \in Reached(job.next, job.next[Header])
       /\ job.bk \in ring /\ job.next[job.bk] = Header

\* The first n of the counts added up.
Total(counts, n) ==
    LET f[k \in Nat] == IF k \notin DOMAIN counts THEN 0 ELSE f[k - 1] + counts[k]
    IN f[n]

\* The count of chunks in an intact bin is right, the counts of the bins before
\* the first invalid one are added up, and verify() accepts exactly
\* the candidates whose `next' pointers lead back to them; the arenas listed
\* are those of the ring.
RingsExact ==
    /\ (job.cmd = "bin" /\ Ended /\ WellFormedBin) =>
            st.status = "done" /\ st.found = Cardinality(Reached(job.next, Header)) - 1
    /\ (job.cmd = "bins" /\ Ended) =>
            \E n \in 0 .. Len(job.counts) :
                /\ \A i \in 1 .. n : job.counts[i] >= 0
                /\ n < Len(job.counts) => job.counts[n + 1] < 0
                /\ st.total = Total(job.counts, n)
                /\ st.bins = Cardinality({i \in 1 .. n : job.counts[i] > 0})
    /\ (job.cmd = "verify" /\ Ended) =>
            (st.status = "done" <=> job.first \in Reached(job.next, job.next[job.first]))
    /\ (job.cmd = "arenas" /\ st.status = "done") =>
            st.found = Reached(job.next, job.first)

\* The chunks of a heap by their sizes: the first at its start, each next where
\* the one before ends, up to the top chunk.
TrueChunks ==
    {c \in 0 .. job.top :
        \A S \in SUBSET (0 .. job.top) :
            (0 \in S /\ \A d \in S : d + job.size[d] <= job.top => d + job.size[d] \in S) => c \in S}

\* On a heap that is intact up to its top chunk, `heap chunks' lists every
\* chunk and nothing else; a size filter hides only the chunks it should, and a
\* count cuts the list short but never below the count.  (A summary of an arena
\* other than the main one is left out: it does not stop at the top chunk.)
ChunksExact ==
    (job.cmd = "chunks" /\ Ended /\ job.top \in TrueChunks /\ (job.main \/ ~job.summary)) =>
        LET shown == {c \in TrueChunks : ShouldProcess(job.size[c])}
        IN /\ st.status = "done"
           /\ st.listed \subseteq shown
           /\ \A c \in st.listed, d \in shown : d < c => d \in st.listed
           /\ job.count = -1 => st.listed = shown
           /\ job.count >= 0 /\ Cardinality(shown) > job.count =>
                Cardinality(st.listed) \in {job.count, job.count + 1}

\* What the commands show of the heap is what is there.
HeapShown == ListsExact /\ RingsExact /\ ChunksExact

\* The ring walks remember nothing, and end only on memory that leads them out;
\* the others end on any memory.
LeadsOut ==
    CASE job.cmd = "bin" -> WellFormedBin
      [] job.cmd \in {"arenas", "verify"} ->
            \E c \in Reached(job.next, job.first) : job.next[c] \in {NULL, Bad, job.first}
      [] OTHER -> TRUE

=============================================================================
