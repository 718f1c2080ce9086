------------------------------ MODULE GefScan ------------------------------
(***************************************************************************)
(* The commands of src/scripts/gef.py that scan the memory of the debugged *)
(* process: `search-pattern', `dereference' (dereference_from), the        *)
(* instructions before the current one (gef_disassemble), `pattern create' *)
(* and `pattern search', and the reading of the memory map.                *)
(*                                                                         *)
(* Memory is a function on 0 .. MemSize - 1; one iteration of a loop is    *)
(* one step.                                                               *)
(***************************************************************************)
EXTENDS GefCommand

CONSTANTS
    MemSize,   \* bytes of memory
    Letters,   \* letters of the cyclic pattern, 1 .. Letters
    MaxInsn    \* longest instruction, 15 in the code

ASSUME ScanBounds == MemSize \in Nat \ {0} /\ Letters \in Nat \ {0, 1} /\ MaxInsn \in Nat \ {0}

At == 0 .. MemSize - 1

-----------------------------------------------------------------------------
(* search-pattern                                                           *)

AnyByte == 2   \* a character, like `.', that a regular expression takes for any byte

\* search_pattern() searches a section up to its last byte but one, do_invoke()
\* a range as given.  `unread' is a byte that cannot be read, or MemSize; `broken' a
\* pattern that is no regular expression.  (Patterns that match more or fewer bytes
\* than they have characters are left out.)
SearchInit ==
    \E mem \in [At -> {0, 1}], len \in 1 .. 2, step \in 2 .. 3, section, broken \in BOOLEAN,
       unread \in {0, MemSize - 1, MemSize} :
        \E pattern \in [0 .. len - 1 -> {0, 1, AnyByte}] :
            /\ job = [cmd |-> "search", mem |-> mem, pattern |-> pattern, len |-> len,
                      step |-> step, unread |-> unread, broken |-> broken,
                      end |-> IF section THEN MemSize - 1 ELSE MemSize]
            /\ st = [status |-> "walking", chunk |-> 0, pos |-> 0, found |-> {}]

\* re.finditer(): also the text that was typed is a regular expression.
Matches(o) ==
    /\ o + job.len <= MemSize
    /\ \A i \in DOMAIN job.pattern : job.pattern[i] \in {job.mem[o + i], AnyByte}

\* Mutant: the last chunk is as long as the others.
ChunkEndWhole(c) == IF c + job.step > MemSize THEN MemSize ELSE c + job.step

ChunkEnd(c) == IF c + job.step > job.end THEN job.end ELSE c + job.step

\* search_pattern_by_address(): the next match in the chunk, or the next chunk.
\* A chunk that cannot be read ends the search with nothing.
SearchStep ==
    LET hits == {o \in st.pos .. ChunkEnd(st.chunk) - job.len : Matches(o)}
        first == CHOOSE o \in hits : \A p \in hits : o <= p
    IN /\ Walking({"search"})
       /\ UNCHANGED job
       /\ st' = IF st.chunk >= job.end THEN [st EXCEPT !.status = "done"]
                ELSE IF job.unread \in st.chunk .. ChunkEnd(st.chunk) - 1
                     THEN [st EXCEPT !.status = "unreadable", !.found = {}]
                ELSE IF job.broken THEN [st EXCEPT !.status = "raised"]
                ELSE IF hits # {} THEN [st EXCEPT !.found = @ \cup {first}, !.pos = first + job.len]
                ELSE [st EXCEPT !.chunk = @ + job.step, !.pos = st.chunk + job.step]

-----------------------------------------------------------------------------
(* dereference                                                              *)

Unreadable == -1   \* dereferencing it raises gdb.MemoryError
Plain == -2        \* a value that is no address of a mapped section

\* Every pointer of the memory is tried, so that the walk may start at address 0.
\* `hidden' are addresses of a mapping for which lookup_address() gives no section,
\* such as those of the x86 kernel.
DerefInit ==
    \E next \in [At -> At \cup {Unreadable, Plain}], max \in {2, 10},
       hidden \in {{}, {0}, {MemSize - 1}} :
        /\ job = [cmd |-> "deref", next |-> next, max |-> max, hidden |-> hidden]
        /\ st = [status |-> "walking", chain |-> <<0>>, seen |-> {}, left |-> max, mark |-> "none"]

\* Mutant: the address is not added to seen_addrs.
NotedNot(addr) == st.seen

Noted(addr) == st.seen \cup {addr}

\* dereference_from(), one iteration of its loop.  An address that cannot be read is
\* shown twice.
DerefStep ==
    LET addr == Last(st.chain)
        deref == job.next[addr]
        enters == addr \notin job.hidden /\ st.left > 0
        fresh == enters /\ addr \notin st.seen
        done(mark) == [st EXCEPT !.status = "done", !.mark = mark]
    IN /\ Walking({"deref"})
       /\ UNCHANGED job
       /\ st' = CASE ~enters -> done("none")
                  [] enters /\ ~fresh -> done("loop")
                  [] fresh /\ deref = Unreadable ->
                        [done("unreadable") EXCEPT !.chain = Append(@, addr)]
                  [] fresh /\ deref = Plain -> done("value")
                  [] fresh /\ deref \in At ->
                        [st EXCEPT !.chain = Append(@, deref), !.seen = Noted(addr), !.left = @ - 1]

-----------------------------------------------------------------------------
(* The instructions before the current one.                                 *)

\* Every address disassembles to something: a length, 0 for "(bad)", which is
\* one byte long.  `fixed' is the instruction length of a fixed-length ABI.
PrevInit ==
    \E len \in [At -> 0 .. MaxInsn], cur \in At, n \in 1 .. 2, fixed \in {0, 2} :
        /\ fixed # 0 => \A a \in At : len[a] = fixed
        /\ job = [cmd |-> "prev", len |-> len, cur |-> cur, n |-> n, fixed |-> fixed]
        /\ st = [status |-> "walking", back |-> MaxInsn * n, start |-> -1, shown |-> <<>>]

Size(a) == IF job.len[a] = 0 THEN 1 ELSE job.len[a]

\* gdb_disassemble(start, end_pc=cur)
Listing(start) ==
    LET path[a \in 0 .. MemSize + MaxInsn] ==
            IF a > job.cur THEN <<>> ELSE <<a>> \o path[a + Size(a)]
    IN path[start]

\* Mutant: one instruction too many is sliced away.
GuessShort(insns) ==
    IF Len(insns) < job.n + 1 \/ Last(insns) # job.cur THEN {}
    ELSE LET last == SubSeq(insns, Len(insns) - job.n + 1, Len(insns))
         IN IF \A i \in DOMAIN last : job.len[last[i]] # 0 THEN {Head(last)} ELSE {}

\* The checks on one guess: long enough, ends at the current instruction, and
\* its last n + 1 instructions are valid.
Guess(insns) ==
    IF Len(insns) < job.n + 1 \/ Last(insns) # job.cur THEN {}
    ELSE LET last == SubSeq(insns, Len(insns) - job.n, Len(insns))
         IN IF \A i \in DOMAIN last : job.len[last[i]] # 0 THEN {Head(last)} ELSE {}

\* gdb_get_nth_previous_instruction_address(): guesses from far to near; one
\* that is not mapped ends the search.
PrevStep ==
    LET from == job.cur - st.back
        found(a) == [st EXCEPT !.status = "listing", !.start = a]
    IN /\ Walking({"prev"})
       /\ UNCHANGED job
       /\ st' = IF job.fixed # 0
                THEN found(IF job.cur > job.n * job.fixed THEN job.cur - job.n * job.fixed ELSE 0)
                ELSE IF st.back = 0 \/ from < 0 THEN [st EXCEPT !.status = "listing"]
                ELSE IF Guess(Listing(from)) # {}
                     THEN found(CHOOSE a \in Guess(Listing(from)) : TRUE)
                ELSE [st EXCEPT !.back = @ - 1]

\* gef_disassemble(): at most n instructions from there, up to the current one;
\* a start at address 0 counts as none.
PrevList ==
    LET listed == IF st.start <= 0 THEN <<>> ELSE Listing(st.start)
        before == SelectSeq(listed, LAMBDA a : a # job.cur)
    IN /\ job.cmd = "prev" /\ st.status = "listing"
       /\ UNCHANGED job
       /\ st' = [st EXCEPT !.status = "done",
                           !.shown = Append(SubSeq(before, 1, IF job.n < Len(before) THEN job.n
                                                              ELSE Len(before)), job.cur)]

-----------------------------------------------------------------------------
(* pattern create, pattern search                                           *)

\* de_bruijn(): db(t, p) on the array a, with what it yields.
RECURSIVE Db(_, _, _, _)
Db(n, t, p, a) ==
    IF t > n
    THEN [a |-> a, out |-> IF n % p = 0 THEN [j \in 1 .. p |-> a[j] + 1] ELSE <<>>]
    ELSE LET same == Db(n, t + 1, p, [a EXCEPT ![t] = a[t - p]])
             more(acc, j) ==
                LET r == Db(n, t + 1, t, [acc.a EXCEPT ![t] = j])
                IN [a |-> r.a, out |-> acc.out \o r.out]
         IN FoldLeft(more, same, [i \in 1 .. Letters - 1 - a[t - p] |-> a[t - p] + i])

DeBruijn(n) == Db(n, 1, 1, [i \in 0 .. Letters * n - 1 |-> 0]).out

\* generate_cyclic_pattern(): at most `length' letters.
CyclicPattern(length, n) ==
    LET all == DeBruijn(n) IN SubSeq(all, 1, IF length < Len(all) THEN length ELSE Len(all))

\* bytearray.find()
Find(text, word) ==
    LET at == {o \in 0 .. Len(text) - Len(word) : SubSeq(text, o + 1, o + Len(word)) = word}
    IN IF at = {} THEN -1 ELSE CHOOSE o \in at : \A p \in at : o <= p

None == -1

\* The pattern `pattern create' makes, and what `pattern search' is given: a string,
\* or a register of `ptr' bytes that the process filled from offset `at' of the pattern.
\* The value in it may be a mapped address, where the process has put the pattern from
\* offset `there' on.  `again' is the pattern made again, of any length; `little' is
\* the endianness of the process.
PatternInit ==
    \E n \in 2 .. 3, ptr \in 2 .. 3, length, size \in 3 .. 9, little, string \in BOOLEAN :
        LET text == CyclicPattern(length, n)
        IN \E at \in 0 .. Len(text) - ptr, there \in {None} \cup 0 .. Len(text) - ptr :
            /\ n <= ptr
            /\ string => there = None
            /\ job = [cmd |-> "pattern", n |-> n, ptr |-> ptr, text |-> text, at |-> at,
                      there |-> there, again |-> CyclicPattern(size, n), little |-> little,
                      string |-> string]
            /\ st = [status |-> "walking", offset |-> None]

\* The lowest n bytes of a number in memory, in the order they have there.
LowBytes(offset) ==
    LET skip == IF job.little THEN 0 ELSE job.ptr - job.n
    IN SubSeq(job.text, offset + skip + 1, offset + skip + job.n)

\* The string, or the number, which is the one it points to if it is an address.
Sought ==
    IF job.string THEN SubSeq(job.text, job.at + 1, job.at + job.n)
    ELSE LowBytes(IF job.there # None THEN job.there ELSE job.at)

\* Mutant: the two byte orders are looked for the other way round.
OrdersSwapped ==
    IF job.little /\ ~job.string THEN <<Reverse(Sought), Sought>> ELSE <<Sought, Reverse(Sought)>>

\* What is looked for, in turn: of a number the little endian bytes and the big
\* endian ones; a string reversed and as it is.
Orders ==
    IF job.little /\ ~job.string THEN <<Sought, Reverse(Sought)>> ELSE <<Reverse(Sought), Sought>>

\* PatternSearchCommand.search()
PatternStep ==
    /\ Walking({"pattern"})
    /\ UNCHANGED job
    /\ st' = [status |-> "found",
              offset |-> IF Find(job.again, Orders[1]) >= 0 THEN Find(job.again, Orders[1])
                         ELSE Find(job.again, Orders[2])]

-----------------------------------------------------------------------------
(* The memory map.                                                          *)

\* The sources of a map, in the order they are tried: `info proc mappings',
\* the file of procfs and `monitor info mem'.  A source is missing or a list of
\* lines, of which some cannot be parsed.  (gef.arch.maps, which would replace
\* them, is None for the architectures of the file.)
Lines == UNION {[1 .. n -> {"good", "bad"}] : n \in 0 .. 2}
Missing == <<"missing">>

MapsInit ==
    \E sources \in [1 .. 3 -> Lines \cup {Missing}] :
        /\ job = [cmd |-> "maps", sources |-> sources]
        /\ st = [status |-> "walking", source |-> 1, line |-> 1, sections |-> {}]

\* Mutant: the sections read from the source that failed are kept.
NextSourceKeeps ==
    IF st.source = 3 THEN [st EXCEPT !.status = "raised"]
    ELSE [st EXCEPT !.source = @ + 1, !.line = 1]

NextSource ==
    IF st.source = 3 THEN [st EXCEPT !.status = "raised"]
    ELSE [st EXCEPT !.source = @ + 1, !.line = 1, !.sections = {}]

\* __parse_maps() and the three parsers: a line that cannot be parsed raises in
\* the first two, and the sections read so far are dropped; the third skips it.
\* `info proc mappings' without a line is an error of its own.
MapsStep ==
    LET lines == job.sources[st.source]
    IN /\ Walking({"maps"})
       /\ UNCHANGED job
       /\ st' = IF lines = Missing \/ (st.source = 1 /\ lines = <<>>) THEN NextSource
                ELSE IF st.line > Len(lines) THEN [st EXCEPT !.status = "done"]
                ELSE IF lines[st.line] = "good"
                     THEN [st EXCEPT !.sections = @ \cup {st.line}, !.line = @ + 1]
                ELSE IF st.source = 3 THEN [st EXCEPT !.line = @ + 1]
                ELSE NextSource

-----------------------------------------------------------------------------
ScanInit == SearchInit \/ DerefInit \/ PrevInit \/ PatternInit \/ MapsInit

ScanNext == SearchStep \/ DerefStep \/ PrevStep \/ PrevList \/ PatternStep \/ MapsStep

-----------------------------------------------------------------------------
(* Properties.                                                             *)

\* `search-pattern' reports matches inside the range only, which do not overlap, and
\* every match that lies inside one of the pieces in which memory is read, but for those
\* a reported one overlaps; matches across two pieces are missed.
SearchExact ==
    (job.cmd = "search" /\ st.status = "done") =>
        /\ \A o \in st.found : Matches(o) /\ o + job.len <= job.end
        /\ \A o \in At :
              (/\ Matches(o) /\ o + job.len <= job.end
               /\ o \div job.step = (o + job.len - 1) \div job.step) =>
                \E f \in st.found : f \in (o - job.len + 1) .. o
        /\ \A o, p \in st.found : o < p => o + job.len <= p

\* The chain shown for a pointer is the one in memory, however it ends: a loop is
\* reported exactly when the chain comes back to an address within the limit on its
\* length; a value or an address that cannot be read, which is repeated, is its last
\* item; and without a mark it stops at the limit or at an address without a section.
ChainExact ==
    (job.cmd = "deref" /\ Ended) =>
        LET bad == st.mark = "unreadable"
            chain == IF bad THEN Front(st.chain) ELSE st.chain
            last == Last(chain)
            again == \E i \in 1 .. Len(chain) - 1 : chain[i] = last
        IN /\ \A i \in 1 .. Len(chain) - 1 :
                chain[i + 1] = job.next[chain[i]] /\ chain[i] \notin job.hidden
           /\ \A i, j \in 1 .. Len(chain) - 1 : i # j => chain[i] # chain[j]
           /\ st.mark = "loop" <=> again /\ Len(chain) <= job.max
           /\ bad <=> Len(chain) <= job.max /\ last \notin job.hidden /\ job.next[last] = Unreadable
           /\ bad => Last(st.chain) = last
           /\ st.mark = "value" => job.next[last] = Plain
           /\ st.mark = "none" => Len(chain) = job.max + 1 \/ last \in job.hidden

\* The instructions shown before the current one run into it: each ends where
\* the next begins and the last ends at the current instruction, and they are
\* as many as asked for, if there are any and the start is not cut at 0.
PrevContiguous ==
    (job.cmd = "prev" /\ st.status = "done" /\ (job.fixed # 0 => job.cur % job.fixed = 0)) =>
        /\ \A i \in 1 .. Len(st.shown) - 1 : st.shown[i] + Size(st.shown[i]) = st.shown[i + 1]
        /\ Last(st.shown) = job.cur
        /\ (job.fixed = 0 /\ Len(st.shown) > 1) => Len(st.shown) = job.n + 1

\* On a little endian machine the offset told for a register is the one it was filled
\* from, if it is no address, and if it is one, the one of the value there, as long as
\* enough of the pattern is made again: every n letters of it are at one place only.
\* (On a big endian machine, and for a string, the reverse may occur too, and is
\* looked for first.)
PatternExact ==
    (job.cmd = "pattern" /\ st.status = "found" /\ job.little /\ ~job.string) =>
        LET offset == IF job.there # None THEN job.there ELSE job.at
        IN offset + job.n <= Len(job.again) => st.offset = offset

\* The map is never a mix: it is the whole list of the first source in which
\* every line can be parsed, or what `monitor info mem' gives.
MapsWhole ==
    (job.cmd = "maps" /\ st.status = "done") =>
        LET whole(s) == /\ job.sources[s] # Missing
                        /\ \A i \in DOMAIN job.sources[s] : job.sources[s][i] = "good"
                        /\ s = 1 => job.sources[s] # <<>>
        IN /\ \A s \in 1 .. st.source - 1 : ~whole(s)
           /\ st.source < 3 => whole(st.source)
           /\ st.sections = {i \in DOMAIN job.sources[st.source] : job.sources[st.source][i] = "good"}

\* What a scan of memory shows is what is there: matches, pointer chains, the
\* instructions before the current one, offsets in a pattern and the memory map,
\* though memory is read in pieces, loops, decodes to nothing or is told in part.
ScanExact == SearchExact /\ ChainExact /\ PrevContiguous /\ PatternExact /\ MapsWhole

=============================================================================
