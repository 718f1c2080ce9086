------------------------------ MODULE GefEdit ------------------------------
(***************************************************************************)
(* The commands of src/scripts/gef.py that change the debugged process:    *)
(* `nop', `skipi', `patch', `edit-flags', `hijack-fd', `trace-run' and     *)
(* `entry-break'.  Each changes it in several steps, of which any may      *)
(* fail, and an exception ends the command where it is.                    *)
(***************************************************************************)
EXTENDS GefCommand

CONSTANTS
    CodeSize,   \* bytes of mapped code, at 0 .. CodeSize - 1
    MaxTrace    \* bound on the instructions traced

ASSUME EditBounds == CodeSize \in Nat \ {0} /\ MaxTrace \in Nat

Code == 0 .. CodeSize - 1
Unmapped == -1

-----------------------------------------------------------------------------
(* nop, skipi                                                               *)

\* The code is a length for every address, as in a disassembly from there.
CodeInit ==
    \E len \in [Code -> 1 .. 2], addr \in Code, items \in 1 .. 3, force \in BOOLEAN,
       mode \in {"insn", "bytes", "nops", "both"}, nop \in 1 .. 2, cmd \in {"nop", "skipi"} :
        /\ cmd = "skipi" => mode = "insn" /\ ~force /\ nop = 1
        /\ job = [cmd |-> cmd, len |-> len, addr |-> addr, items |-> items, mode |-> mode,
                  force |-> force, nop |-> nop]
        /\ st = [status |-> "walking", total |-> 0, ins |-> addr, written |-> {}, pc |-> addr]

EndOf(len, a) == a + len[a]
Fits(len, a) == a \in Code /\ EndOf(len, a) <= CodeSize

\* The address a, or the one behind the instruction at a, if an instruction can
\* be read there.
Readable(len, a) == IF Fits(len, a) THEN a ELSE Unmapped
Following(len, a) == IF a = Unmapped THEN Unmapped ELSE Readable(len, EndOf(len, a))

\* gef_instruction_n(): the n-th instruction after a, all of them readable.
InstructionN(len, a, n) ==
    LET f[k \in Nat] == IF k = 0 THEN Readable(len, a) ELSE Following(len, f[k - 1])
    IN f[n]

\* SkipiCommand.do_invoke()
Skipi ==
    LET last == InstructionN(job.len, job.addr, job.items - 1)
    IN /\ Walking({"skipi"})
       /\ UNCHANGED job
       /\ st' = IF last = Unmapped THEN [st EXCEPT !.status = "raised"]
                ELSE [st EXCEPT !.status = "done", !.pc = EndOf(job.len, last)]

\* NopCommand.do_invoke(), up to its loop: how many bytes, and whether they are
\* whole nops.
NopSize ==
    LET last == InstructionN(job.len, job.addr, job.items - 1)
        total == CASE job.mode = "bytes" -> job.items
                   [] job.mode = "nops" -> job.items * job.nop
                   [] OTHER -> EndOf(job.len, last) - job.addr
        refused == \/ job.mode = "both"
                   \/ job.mode = "insn" /\ last = Unmapped
                   \/ total % job.nop # 0 /\ ~job.force
    IN /\ Walking({"nop"}) /\ st.total = 0
       /\ UNCHANGED job
       /\ st' = IF refused THEN [st EXCEPT !.status = "refused"]
                ELSE IF ~Fits(job.len, job.addr) THEN [st EXCEPT !.status = "raised"]
                ELSE [st EXCEPT !.total = total]

\* Its loop over the instructions that will be overwritten, and the write.
NopWalk ==
    LET target == job.addr + st.total
    IN /\ Walking({"nop"}) /\ st.total > 0
       /\ UNCHANGED job
       /\ st' = IF EndOf(job.len, st.ins) < target
                THEN IF st.ins + 1 \notin Code THEN [st EXCEPT !.status = "refused"]
                     ELSE IF InstructionN(job.len, st.ins, 1) = Unmapped THEN [st EXCEPT !.status = "raised"]
                     ELSE [st EXCEPT !.ins = InstructionN(job.len, st.ins, 1)]
                ELSE IF (EndOf(job.len, st.ins) # target /\ ~job.force) \/ target - 1 \notin Code
                THEN [st EXCEPT !.status = "refused"]
                ELSE [st EXCEPT !.status = "done", !.written = job.addr .. target - 1]

-----------------------------------------------------------------------------
(* patch                                                                    *)

Wrong == 99   \* a value that cannot be evaluated

\* Bytes have two values here, and a value may need more than its size.
PatchInit ==
    \E values \in UNION {[1 .. n -> {-1, 1, 6, Wrong}] : n \in 1 .. 3}, addr \in Code,
       size \in 1 .. 2, little \in BOOLEAN :
        /\ job = [cmd |-> "patch", values |-> values, addr |-> addr, size |-> size,
                  little |-> little]
        /\ st = [status |-> "walking", done |-> 0, mem |-> [a \in Code |-> "old"]]

\* struct.pack() of the value cut to its size, byte i.
Packed(value, i) == ((value % 2^job.size) \div 2^(IF job.little THEN i ELSE job.size - 1 - i)) % 2

\* PatchCommand.do_invoke(), one value.
PatchValue ==
    LET value == job.values[st.done + 1]
        at == job.addr + st.done * job.size
    IN /\ Walking({"patch"})
       /\ UNCHANGED job
       /\ st' = IF st.done = Len(job.values) THEN [st EXCEPT !.status = "done"]
                ELSE IF value = Wrong \/ at + job.size > CodeSize THEN [st EXCEPT !.status = "raised"]
                ELSE [st EXCEPT !.done = @ + 1,
                                !.mem = [a \in Code |-> IF a \in at .. at + job.size - 1
                                                        THEN Packed(value, a - at) ELSE @[a]]]

-----------------------------------------------------------------------------
(* edit-flags                                                               *)

FlagNames == {"carry", "zero"}
FlagActions == {"+", "-", "~", "?"}
NoValue == <<>>   \* the cache holds nothing, or a value as a sequence of one

FlagsInit ==
    \E flags \in [FlagNames -> BOOLEAN],
       args \in UNION {[1 .. n -> FlagActions \X (FlagNames \cup {"other"})] : n \in 0 .. 2} :
        /\ job = [cmd |-> "flags", flags |-> flags, args |-> args]
        /\ st = [status |-> "walking", done |-> 0, reg |-> flags, cache |-> NoValue]

\* Mutant: the cached register survives its change.
RegisterChangedKeeps(cache) == cache

\* regchanged_handler(), which GDB calls as the register is set.
RegisterChanged(cache) == NoValue

Valid(arg) == arg[1] # "?" /\ arg[2] \in FlagNames

Applied(reg, arg) ==
    [f \in FlagNames |-> IF f # arg[2] THEN reg[f]
                         ELSE CASE arg[1] = "+" -> TRUE
                                [] arg[1] = "-" -> FALSE
                                [] OTHER -> ~reg[f]]

\* FlagsCommand.do_invoke(), one argument: the register is read through the
\* cache of Architecture.register().
EditFlag ==
    LET arg == job.args[st.done + 1]
        old == IF st.cache = NoValue THEN st.reg ELSE st.cache[1]
    IN /\ Walking({"flags"})
       /\ UNCHANGED job
       /\ st' = IF st.done = Len(job.args) THEN [st EXCEPT !.status = "done"]
                ELSE IF ~Valid(arg) THEN [st EXCEPT !.done = @ + 1]
                ELSE [st EXCEPT !.done = @ + 1, !.reg = Applied(old, arg),
                                !.cache = RegisterChanged(<<old>>)]

-----------------------------------------------------------------------------
(* hijack-fd                                                                *)

Old == 1     \* the descriptor that is redirected
Fresh == 2   \* the one the process gets

HijackInit ==
    \E socket \in BOOLEAN :
        /\ job = [cmd |-> "hijack", socket |-> socket]
        /\ st = [status |-> "walking", phase |-> "open", fds |-> [f \in {Old} |-> "tty"],
                 new |-> 0, stack |-> "own"]

\* A call in the process raises, returns -1 or succeeds.
Calls == {"raises", "fails", "succeeds"}
Raised == [st EXCEPT !.status = "raised"]

\* socket() or open() in the process.
HijackOpen ==
    /\ Walking({"hijack"}) /\ st.phase = "open"
    /\ UNCHANGED job
    /\ \E call \in Calls :
        LET next == [st EXCEPT !.phase = IF job.socket THEN "connect" ELSE "dup"]
        IN st' = CASE call = "raises" -> Raised
                   [] call = "fails" -> [next EXCEPT !.new = -1]
                   [] OTHER -> [next EXCEPT !.new = Fresh,
                                            !.fds = [f \in {Old, Fresh} |->
                                                        IF f = Fresh THEN "output" ELSE @[f]]]

\* The address is written over the lowest bytes of the stack, if the maps have
\* one, connect() is called and the bytes are put back.
HijackConnect ==
    /\ Walking({"hijack"}) /\ st.phase = "connect"
    /\ UNCHANGED job
    /\ \E call \in Calls :
        /\ call = "succeeds" => st.new # -1
        /\ st' \in CASE call = "raises" -> {Raised, [Raised EXCEPT !.stack = "address"]}
                     [] call = "fails" -> {[st EXCEPT !.status = "refused"]}
                     [] OTHER -> {[st EXCEPT !.phase = "dup"]}

\* dup2(), and then close(); what they return is not looked at.
HijackDup ==
    /\ Walking({"hijack"}) /\ st.phase = "dup"
    /\ UNCHANGED job
    /\ \/ st' = Raised
       \/ st' = [st EXCEPT !.phase = "close",
                           !.fds[Old] = IF st.new = Fresh THEN st.fds[Fresh] ELSE @]

HijackClose ==
    /\ Walking({"hijack"}) /\ st.phase = "close"
    /\ UNCHANGED job
    /\ \/ st' = Raised
       \/ st' = [st EXCEPT !.status = "done", !.fds = [f \in {Old} |-> @[f]]]

-----------------------------------------------------------------------------
(* trace-run, entry-break                                                   *)

\* `depth' is the call depth to follow, and st.delta how deep the process is
\* below the frame the trace began in.
TraceInit ==
    \E depth \in 0 .. 1 :
        /\ job = [cmd |-> "trace", depth |-> depth]
        /\ st = [status |-> "walking", delta |-> 0, traced |-> 0, hidden |-> TRUE]

\* TraceRunCommand.start_tracing(), one iteration: the process steps, or
\* finishes a function that is too deep; it reaches the end, GDB raises, which
\* ends the trace, or the user interrupts, which ends the command.
TraceStep ==
    LET ended(how) == [st EXCEPT !.status = how, !.hidden = how = "raised"]
    IN /\ Walking({"trace"}) /\ st.traced < MaxTrace
       /\ UNCHANGED job
       /\ \/ \E how \in {"done", "interrupted", "raised"} : st' = ended(how)
          \/ \E d \in IF st.delta <= job.depth THEN {-1, 0, 1} ELSE {-1} :
                st' = [st EXCEPT !.delta = @ + d, !.traced = @ + 1]

\* What becomes of an entry point symbol: GDB does not know it, the program
\* runs, or the breakpoint is set and `run' raises; or the target is remote.
EntryInit ==
    \E symbols \in UNION {[1 .. n -> {"unknown", "runs", "fails", "remote"}] : n \in 0 .. 3},
       pie \in BOOLEAN :
        /\ job = [cmd |-> "entry", symbols |-> symbols, pie |-> pie]
        /\ st = [status |-> "walking", next |-> 1, bp |-> 0, bps |-> {}, hidden |-> FALSE]

\* EntryPointBreakCommand.do_invoke(), one symbol.
EntrySymbol ==
    LET set == [st EXCEPT !.bp = st.next, !.bps = @ \cup {st.next}]
    IN /\ Walking({"entry"}) /\ st.next <= Len(job.symbols)
       /\ UNCHANGED job
       /\ st' = CASE job.symbols[st.next] = "unknown" -> [st EXCEPT !.next = @ + 1]
                  [] job.symbols[st.next] = "fails" -> [set EXCEPT !.next = @ + 1]
                  [] OTHER -> [set EXCEPT !.status = "started"]

\* No symbol will do: the last breakpoint is deleted, and the entry point of
\* the file, numbered 0, takes its place; a position independent program is run
\* up to its first library with the context hidden.
EntryPoint ==
    LET cleared == [st EXCEPT !.bps = @ \ {st.bp}]
    IN /\ Walking({"entry"}) /\ st.next > Len(job.symbols)
       /\ UNCHANGED job
       /\ \/ st' = [cleared EXCEPT !.status = "started", !.bps = @ \cup {0}]
          \/ st' = [cleared EXCEPT !.status = "raised", !.hidden = job.pie,
                                   !.bps = @ \cup (IF job.pie THEN {} ELSE {0})]

-----------------------------------------------------------------------------
EditInit == CodeInit \/ PatchInit \/ FlagsInit \/ HijackInit \/ TraceInit \/ EntryInit

EditNext == \/ Skipi \/ NopSize \/ NopWalk \/ PatchValue \/ EditFlag
            \/ HijackOpen \/ HijackConnect \/ HijackDup \/ HijackClose
            \/ TraceStep \/ EntrySymbol \/ EntryPoint

EditSpec == EditInit /\ [][EditNext]_vars

-----------------------------------------------------------------------------
(* Properties.                                                             *)

\* Where whole instructions end, counted from the address of the command.
Boundaries ==
    {EndOf(job.len, InstructionN(job.len, job.addr, n)) :
        n \in {k \in 0 .. CodeSize : InstructionN(job.len, job.addr, k) # Unmapped}}

\* `nop' writes all of its bytes or none, only mapped ones, and unless forced
\* leaves no instruction and no nop cut in two; `skipi' stops at an instruction.
CodeWhole ==
    /\ job.cmd = "nop" =>
        IF st.status # "done" THEN st.written = {}
        ELSE /\ st.written = job.addr .. job.addr + st.total - 1
             /\ st.written \subseteq Code
             /\ ~job.force => job.addr + st.total \in Boundaries /\ st.total % job.nop = 0
    /\ (job.cmd = "skipi" /\ Ended) =>
        st.pc \in IF st.status = "done" THEN Boundaries ELSE {job.addr}

\* `patch' leaves a prefix of its values in memory, each cut to its size in the
\* byte order of the machine, and no other byte changed: all of them when it
\* succeeds, those before the first that fails when it does not.
PatchPrefix ==
    (job.cmd = "patch" /\ Ended) =>
        LET weight(i) == 2^(IF job.little THEN i ELSE 1 - i)
            back(at) == IF job.size = 1 THEN st.mem[at]
                        ELSE st.mem[at] * weight(0) + st.mem[at + 1] * weight(1)
        IN /\ \A k \in 1 .. st.done :
                /\ job.values[k] # Wrong
                /\ back(job.addr + (k - 1) * job.size) = job.values[k] % 2^job.size
           /\ \A a \in Code \ (job.addr .. job.addr + st.done * job.size - 1) : st.mem[a] = "old"
           /\ st.status = "done" => st.done = Len(job.values)

\* The flags with the valid ones of the first n arguments applied.
FlagsAfter(flags, args, n) ==
    LET f[k \in Nat] == IF k = 0 THEN flags
                        ELSE IF Valid(args[k]) THEN Applied(f[k - 1], args[k]) ELSE f[k - 1]
    IN f[n]

\* No flag is lost: the register ends up with every valid argument applied, in
\* order, although it is read through a cache before each is.
FlagsApplied ==
    (job.cmd = "flags" /\ Ended) =>
        st.reg = FlagsAfter(job.flags, job.args, Len(job.args))

\* A `hijack-fd' that reports success leaves no extra descriptor; it has
\* redirected the old one if the new one was opened; and it gives the stack its
\* bytes back unless the call of connect() raised.  One that fails leaves the
\* old descriptor alone, but for the last call, the close() of the new one.
HijackClean ==
    (job.cmd = "hijack" /\ Ended) =>
        /\ st.status = "done" => DOMAIN st.fds = {Old}
        /\ st.fds[Old] = IF st.phase = "close" /\ st.new = Fresh THEN "output" ELSE "tty"
        /\ st.stack = "own" \/ (st.status = "raised" /\ st.phase = "connect")

\* The context comes back after `trace-run' and `entry-break' unless they are
\* cut short by an exception, and the process is started with a breakpoint
\* ahead of it: the one of the symbol, or the entry point's in place of the
\* last one tried.
StartsWatched ==
    /\ (job.cmd = "trace" /\ Ended /\ st.status # "raised") => ~st.hidden
    /\ (job.cmd = "entry" /\ st.status = "started") =>
        /\ ~st.hidden
        /\ IF 0 \in st.bps THEN st.bp \notin st.bps \ {0} ELSE st.bp = st.next /\ st.bp \in st.bps

\* The commands that change the process do the whole of what they say, or stop
\* at a step that failed.
EditsExact == CodeWhole /\ PatchPrefix /\ FlagsApplied /\ HijackClean /\ StartsWatched

=============================================================================
