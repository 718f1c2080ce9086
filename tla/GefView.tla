------------------------------ MODULE GefView ------------------------------
(***************************************************************************)
(* Commands of src/scripts/gef.py that show memory piece by piece, and the *)
(* state they keep from one call to the next: the repeat count behind      *)
(* `dereference' and `hexdump', the recursion of `pcustom', the buffer and *)
(* the terminal of the output, and the main and selected arenas of the     *)
(* heap commands.                                                          *)
(***************************************************************************)
EXTENDS GefContext

CONSTANT MaxCalls   \* bound on the calls in a row

ASSUME ViewBounds == MaxCalls \in Nat

-----------------------------------------------------------------------------
(* dereference, hexdump: windows over memory.                               *)

\* A command is typed, repeated with the Enter key, or run by a script; `nb' is
\* the length asked for, negative to look backwards, and `down' the setting
\* context.grow_stack_down.
WindowInit ==
    \E kind \in {"dereference", "words", "bytes"}, nb \in {-2, -1, 1, 2}, down \in BOOLEAN,
       calls \in [1 .. MaxCalls -> {"typed", "enter", "script"}] :
        /\ kind # "dereference" => nb > 0 /\ ~down
        /\ calls[1] = "typed"
        /\ job = [cmd |-> "window", kind |-> kind, nb |-> nb, down |-> down, calls |-> calls]
        /\ st = [status |-> "walking", repeat |-> 0, shown |-> <<>>]

\* GenericCommand.__set_repeat_count(): the history has no new line after Enter.
RepeatCount(call) == IF call = "enter" THEN st.repeat + 1 ELSE 0

\* range(from, to, step)
UpTo(from, to) == [i \in 1 .. (IF to > from THEN to - from ELSE 0) |-> from + i - 1]
DownTo(from, to) == [i \in 1 .. (IF from > to THEN from - to ELSE 0) |-> from - i + 1]

\* Mutant: looking backwards begins one word late.
DerefWindowShifted(nb, r) ==
    CASE job.down /\ nb > 0 -> DownTo(nb * (r + 1) - 1, r * nb - 1)
      [] job.down /\ nb < 0 -> DownTo(r * nb, nb * (r + 1))
      [] ~job.down /\ nb > 0 -> UpTo(r * nb, nb * (r + 1))
      [] OTHER -> UpTo(nb * (r + 1), r * nb)

\* The words DereferenceCommand.do_invoke() shows.
DerefWindow(nb, r) ==
    CASE job.down /\ nb > 0 -> DownTo(nb * (r + 1) - 1, r * nb - 1)
      [] job.down /\ nb < 0 -> DownTo(r * nb, nb * (r + 1))
      [] ~job.down /\ nb > 0 -> UpTo(r * nb, nb * (r + 1))
      [] OTHER -> UpTo(nb * (r + 1) + 1, r * nb + 1)

\* The bytes, or the lines of words, HexdumpCommand.do_invoke() shows.
HexWindow(nb, r) == [i \in 1 .. nb |-> (i - 1) + r * nb]

ShowWindow ==
    LET r == RepeatCount(job.calls[Len(st.shown) + 1])
        window == IF job.kind = "dereference" THEN DerefWindow(job.nb, r) ELSE HexWindow(job.nb, r)
    IN /\ Walking({"window"})
       /\ UNCHANGED job
       /\ st' = IF Len(st.shown) = MaxCalls THEN [st EXCEPT !.status = "done"]
                ELSE [st EXCEPT !.repeat = r, !.shown = Append(@, window)]

-----------------------------------------------------------------------------
(* pcustom                                                                  *)

PlainField == 0     \* a field that is neither a structure nor a pointer to one
NoMemory == -1      \* a pointer to memory that cannot be read
Nodes == {1, 2}

\* Structures in memory with two fields each: a plain field, a pointer to a
\* structure, or, in node 1, node 2 itself (kind "in").  The manager finds the
\* types of the nodes in `known'.
PcustomInit ==
    \E to \in [Nodes -> [1 .. 2 -> Nodes \cup {PlainField, NoMemory}]], within \in BOOLEAN,
       known \in SUBSET Nodes, max \in 0 .. 3 :
        /\ within => to[1][1] = 2
        /\ job = [cmd |-> "pcustom", to |-> to, known |-> known, max |-> max,
                  in |-> IF within THEN {<<1, 1>>} ELSE {}]
        /\ st = [status |-> "walking", stack |-> <<[node |-> 1, depth |-> 0, field |-> 1]>>,
                 shown |-> {}, cut |-> FALSE]

\* Structure.apply_at(): entering a structure, or its next field.
ApplyAt ==
    LET top == Last(st.stack)
        target == job.to[top.node][top.field]
        follows == \/ <<top.node, top.field>> \in job.in
                   \/ target \in job.known \cup {NoMemory}
        back == [st EXCEPT !.stack = Front(@)]
        next == [st EXCEPT !.stack[Len(st.stack)].field = @ + 1,
                           !.shown = @ \cup {<<top.node, top.depth>>}]
    IN /\ Walking({"pcustom"})
       /\ UNCHANGED job
       /\ st' = CASE st.stack = <<>> -> [st EXCEPT !.status = "done"]
                  [] st.stack # <<>> /\ top.depth >= job.max -> [back EXCEPT !.cut = TRUE]
                  [] st.stack # <<>> /\ top.depth < job.max
                     /\ (top.node = NoMemory \/ top.field = 3) -> back
                  [] OTHER ->
                        IF ~follows THEN next
                        ELSE [next EXCEPT !.stack = Append(@, [node |-> target, field |-> 1,
                                                               depth |-> top.depth + 1])]

-----------------------------------------------------------------------------
(* The output of the commands.                                              *)

NoBuffer == <<<<0, 0>>>>   \* there is no command 0 that prints

\* Each command prints a line, may run another command, which prints one too,
\* and may raise; the setting context.redirect may have changed since the last.
OutputInit ==
    \E commands \in [1 .. MaxCalls -> [tty : {"", "a", "b"}, nested : BOOLEAN]] :
        /\ job = [cmd |-> "output", commands |-> commands]
        /\ st = [status |-> "walking", done |-> 0, buffer |-> NoBuffer, tty |-> "",
                 out |-> <<>>, lost |-> FALSE]

\* gef_print() of command i, and of the command it runs, whose own wrapper finds
\* the buffer and leaves it alone.
PrintedBy(i) == IF job.commands[i].nested THEN <<<<i, 1>>, <<i, 2>>>> ELSE <<<<i, 1>>>>

\* bufferize(): whether the command raises or not, the buffer is written to the
\* terminal, which is opened when it is not open yet; when that raises, the
\* buffer stays, and every later command finds it and writes into it.
Bufferize ==
    LET i == st.done + 1
        tty == job.commands[i].tty
        text == (IF st.buffer = NoBuffer THEN <<>> ELSE st.buffer) \o PrintedBy(i)
    IN /\ Walking({"output"}) /\ st.done < MaxCalls
       /\ UNCHANGED job
       /\ \/ /\ st.buffer = NoBuffer
             /\ st' = [st EXCEPT !.done = i, !.tty = tty, !.out = @ \o text]
          \/ /\ st.buffer = NoBuffer /\ tty \notin {"", st.tty}
             /\ st' = [st EXCEPT !.done = i, !.buffer = text, !.lost = TRUE]
          \/ /\ st.buffer # NoBuffer
             /\ st' = [st EXCEPT !.done = i, !.buffer = text]

OutputEnd ==
    /\ Walking({"output"}) /\ st.done = MaxCalls
    /\ st' = [st EXCEPT !.status = "done"]
    /\ UNCHANGED job

-----------------------------------------------------------------------------
(* The main arena and the selected one.                                     *)

\* Arenas 1 and 2 are linked to each other; 3 is not linked to them.  `verified'
\* are the addresses GlibcArena.verify() accepts.
NoArena == 0
Listed(main) == IF main = NoArena THEN {} ELSE IF main = 3 THEN {3} ELSE {1, 2}

ArenaInit ==
    /\ job \in [cmd : {"arena"}, config : BOOLEAN, symbol : {NoArena, 1, 3}, hook : {NoArena, 1, 3},
               brute : BOOLEAN, verified : SUBSET {1, 2, 3},
               ops : [1 .. MaxCalls -> {"main", "selected", "set 2", "set 3", "reset"}]]
    /\ job.config => job.symbol = NoArena
    /\ job.config \/ job.symbol # NoArena =>      \* not looked at
            job.hook = NoArena /\ ~job.brute
    /\ st = [status |-> "walking", done |-> 0, main |-> NoArena, selected |-> NoArena,
             set |-> NoArena]

\* find_main_arena_addr(): the symbol, the offset from __malloc_hook, then every
\* address in turn.  The offset of the settings, if it is set, is a text where
\* a number is needed: the search raises.  A result is kept by an lru_cache
\* that reset_caches() of the manager does not clear, so it is the arena of the
\* first process of the debugger; the job describes that process.
FindMainArena ==
    CASE job.config -> NoArena
      [] ~job.config /\ job.symbol # NoArena -> job.symbol
      [] ~job.config /\ job.symbol = NoArena /\ job.hook \in job.verified -> job.hook
      [] OTHER -> IF job.brute /\ job.verified # {}
                  THEN CHOOSE a \in job.verified : \A b \in job.verified : a <= b
                  ELSE NoArena

\* GefHeapManager.main_arena: found when first asked for, and then selected.
WithMain(s) ==
    IF s.main # NoArena \/ FindMainArena = NoArena THEN s
    ELSE [s EXCEPT !.main = FindMainArena, !.selected = FindMainArena]

\* GefHeapManager.selected_arena
WithSelected(s) ==
    IF s.selected # NoArena THEN s
    ELSE LET m == WithMain(s) IN [m EXCEPT !.selected = m.main]

\* GlibcHeapSetArenaCommand: an arena of the list is selected, another one
\* becomes the main arena.
SetArena(s, a) ==
    LET m == WithMain(s)
    IN IF a \in Listed(m.main) THEN [m EXCEPT !.selected = a, !.set = a]
       ELSE [m EXCEPT !.main = a]

ArenaStep ==
    LET op == job.ops[st.done + 1]
        next == [st EXCEPT !.done = @ + 1]
    IN /\ Walking({"arena"})
       /\ UNCHANGED job
       /\ st' = IF st.done = MaxCalls THEN [st EXCEPT !.status = "done"]
                ELSE CASE op = "main" -> WithMain(next)
                       [] op = "selected" -> WithSelected(next)
                       [] op = "set 2" -> SetArena(next, 2)
                       [] op = "set 3" -> SetArena(next, 3)
                       [] OTHER -> [next EXCEPT !.main = NoArena, !.selected = NoArena,
                                                !.set = NoArena]

-----------------------------------------------------------------------------
\* The commands that are given as a series of calls.
SeriesInit == WindowInit \/ OutputInit \/ ArenaInit

ViewInit == SeriesInit \/ PcustomInit \/ ContextInit

ViewNext == ShowWindow \/ ApplyAt \/ Bufferize \/ OutputEnd \/ ArenaStep \/ ContextNext

SeriesSpec == SeriesInit /\ [][ViewNext]_vars

-----------------------------------------------------------------------------
(* Properties.                                                             *)

\* Word w is in one of the windows from .. to, and only in one place.
ShownOnce(from, to, w) ==
    \E i \in from .. to : \E j \in DOMAIN st.shown[i] :
        /\ st.shown[i][j] = w
        /\ \A k \in from .. to : \A l \in DOMAIN st.shown[k] :
                st.shown[k][l] = w => k = i /\ l = j

\* Repeating a command with Enter goes on where it stopped: since it was last
\* typed, or run by a script, the windows shown cover the words from the
\* address on, or back from it, each exactly once.
WindowsTile ==
    (job.cmd = "window" /\ Ended) =>
        \A from \in {i \in 1 .. MaxCalls : job.calls[i] # "enter"} :
            \A to \in from .. MaxCalls : (\A i \in from + 1 .. to : job.calls[i] = "enter") =>
                LET n == (to - from + 1) * (IF job.nb > 0 THEN job.nb ELSE -job.nb)
                    words == IF job.nb > 0 THEN 0 .. n - 1 ELSE 1 - n .. 0
                IN /\ \A i \in from .. to : \A j \in DOMAIN st.shown[i] : st.shown[i][j] \in words
                   /\ \A w \in words : ShownOnce(from, to, w)

\* `pcustom' follows pointers through structures that point to each other and
\* still ends: it shows each structure it knows at every depth below the limit
\* at which a path leads to it, nothing deeper, and says when it was cut.
NodesAt ==
    LET at[d \in 0 .. job.max] ==
            IF d = 0 THEN {1}
            ELSE {n \in Nodes : \E p \in at[d - 1], f \in 1 .. 2 :
                    job.to[p][f] = n /\ (n \in job.known \/ <<p, f>> \in job.in)}
    IN at
PcustomExact ==
    (job.cmd = "pcustom" /\ Ended) =>
        /\ st.shown = {p \in Nodes \X (0 .. job.max) : p[2] < job.max /\ p[1] \in NodesAt[p[2]]}
        /\ NodesAt[job.max] # {} => st.cut

\* What the first n commands have printed.
Printed(n) ==
    LET f[k \in Nat] == IF k \notin 1 .. MaxCalls THEN <<>> ELSE f[k - 1] \o PrintedBy(k)
    IN f[n]

\* No output is lost or written twice, also of a command that raises or runs
\* another: everything printed has reached the terminal when a command returns,
\* in order.  (Opening a terminal that fails breaks this for good.)
OutputComplete ==
    job.cmd = "output" =>
        Printed(st.done) = IF st.lost THEN st.out \o st.buffer ELSE st.out

\* The main arena comes from its symbol, from the user or from an address that
\* looks like an arena; the one the user selected stays selected until it is
\* reset, and otherwise the selected arena is one of the main arena's list
\* unless the user replaced the main arena.
ArenaChosen ==
    job.cmd = "arena" =>
        /\ st.main \in job.verified \cup {NoArena, job.symbol, 2, 3}
        /\ (st.main = 3 /\ job.symbol # 3) =>
                3 \in job.verified \/ \E i \in 1 .. st.done : job.ops[i] = "set 3"
        /\ st.main = 2 => 2 \in job.verified \/ \E i \in 1 .. st.done : job.ops[i] = "set 2"
        /\ st.set # NoArena => st.selected = st.set
        /\ (st.selected # NoArena /\ \A i \in 1 .. st.done : job.ops[i] \notin {"set 2", "set 3"}) =>
                st.selected \in Listed(st.main)

\* What the commands show and remember is right over a series of calls and stops.
ViewsExact == WindowsTile /\ PcustomExact /\ OutputComplete /\ ArenaChosen /\ ContextOfThisStop

=============================================================================
