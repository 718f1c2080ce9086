# A verification of the xv6-style kernel with signals and of its debugging tools

The repository is a small RISC-V kernel (`os/`), derived from uCore/xv6, for one or several
harts, to which POSIX-like signals were added (`os/signal/`, `report2.md`). With it come the tools
it is built and debugged with: three small scripts and the GDB extension `scripts/gef.py`, by far
the longest file. This directory holds TLA+ models of the kernel's concurrent core, of the parts of
the extension that keep state or follow the memory of a live process, and of the scripts; the TLC
configurations that check them on small instances; and TLAPS proofs, for every value of the
constants, about all the models of the kernel and about the sessions, breakpoints and settings of the
debugger. `PROJECT.json` maps every definition to the lines it models and lists the runs, the hazards
and the disagreements between code and documents.

## 1. Inventory

| Component | State | Operations | Interaction | What makes it correct |
|---|---|---|---|---|
| Scheduler (`sched.c`, `proc.c` sleep/wakeup) | `p->state`, `p->sleep_chan`, `c->proc`, run queue | `scheduler`, `sched`, `yield`, `sleep`, `wakeup`, `add_task` | every CPU runs the loop; processes, interrupt handlers and signal senders make others RUNNABLE | nobody is queued twice or lost, kernel stacks are not shared, `p->lock` crosses `swtch()` correctly, no starvation |
| Run queue (`queue.c`) | ring `data[]`, `front`, `tail`, `empty` | `push_queue`, `pop_queue` | shared by all CPUs under `q->lock` | FIFO through every wrap-around; no overflow |
| Signals (`signal/ksignal.c`, `trap.c`) | `sigpending`, `sigmask`, `sa[]`, `killed`, `need_stop` | `sigaction`, `sigprocmask`, `sigpending`, `sigkill`, `sigreturn`, `do_signal`, `siginit_fork`, `siginit_exec`, stop in `usertrapret` | senders change another process's words; the process changes its own on the way to user mode, without `p->lock` | no signal lost or doubled, masks nest, SIGKILL kills, SIGCONT resumes |
| Signal frames (`ksignal.c`, `syscall.c`) | trapframe, user stack | frame construction, `sys_sigreturn` | kernel writes user memory that the program also uses | frames do not overlap, the interrupted context comes back |
| Process families (`proc.c`) | process table, `parent`, `pid`, `killed`, `wait_lock` | `allocproc`, `fork`, `exit`, `wait`, `kill`, SIGCHLD | parents, children and killers on several CPUs, three kinds of locks | no orphan, no lost wakeup, zombies are reaped |
| Traps (`trap.c`) | `need_stop`, ticks | `usertrap`, `usertrapret`, `kernel_trap` | drives signals and the scheduler | part of the models above |
| System calls (`syscall.c`) | - | dispatcher and thin wrappers | - | return value stored in `a0` |
| Locks, interrupt nesting (`lock.c`) | owner, `noff`, `interrupt_on` | `acquire`, `release`, `push_off`, `pop_off` | every component | balance; no re-acquisition |
| Console (`console.c`) | input ring with indices r, w, e | `consintr`, `user_console_read/write` | interrupt handler and readers | no byte lost or reordered; a full line wakes the reader |
| User memory (`vm.c`), user copy (`uaccess.c`) | page tables, VMAs | map, remap, copy, free | page faults, system calls | no overlapping areas, failures undo their work |
| Allocators (`kalloc.c`) | free lists | page and object allocation | all CPUs | no block given out twice |
| Boot (`main.c`, `smp.c`) | `booted[]`, init order | boot CPU, secondary CPUs | shared initialisation | nothing used before it is initialised |
| Loader (but for the address space it builds), kernel page tables, devices, printing, assembly, user programs | - | sequential or I/O | - | not modelled |
| Debugger sessions (`gef.py`: `gef.memory`, `gef.session`, event handlers) | caches of maps, lookups and the pid; the remote session; connected handlers | `run`, `attach`, `gef-remote`, stop, continue, exit, new object file | GDB's events arrive in any order between commands | no command is told about an earlier process; handlers are exchanged in pairs |
| `pie` breakpoints | virtual and real breakpoints | `pie breakpoint`, `delete`, `run`, `attach`, `remote` | uses the cached map of the session | the real breakpoints are those of the present base |
| Heap tracker (`heap-analysis-helper`) | lists of allocated and freed chunks, watchpoints | breakpoints at entry and return of `malloc` and its kin | threads of the traced program interleave | the lists are those of the heap; nothing outlives the program |
| Settings and aliases | `gef.config`, aliases, `~/.gef.rc` | `gef config`, `save`, `restore`, `aliases`, start-up | the next start reads what this one wrote | what was saved comes back |
| Context | messages, watches, old registers, selected thread and frame | one pane after the other at each stop | breakpoints push messages; panes switch threads | shows this stop, not an earlier one |
| Heap commands, searching, viewing | loop state, repeat counts, selected arena, output buffer | `heap ...`, `search-pattern`, `dereference`, `hexdump`, `pattern`, `pcustom` | read arbitrary, possibly corrupt, memory | show what is there, and end |
| Editing | code, memory, flags, descriptors, breakpoints | `nop`, `patch`, `skipi`, `edit-flags`, `hijack-fd`, `trace-run`, `entry-break` | several changes, each may fail | done whole, or stopped at the failing step |
| Architectures | - | `is_branch_taken()` of seven families | reads flags or registers | says what the CPU will do |
| File formats and display of the extension (ELF, checksec, colours, help) | - | output | - | not modelled |
| Build scripts (`pack.py`, `kernel.ld`, `kernelld.py`, `sv39.py`) | - | write the program table, lay out the kernel, decode addresses | `get_elf()` searches the table; `kvmmake()` maps the kernel by the symbols of `kernel.ld` (the script `kernelld.py` writes is not used) | every program is found by its name; parts with different permissions share no page |

Hard behaviours: the lock of a process is acquired on one stack and released on another;
`exit()` releases `wait_lock` in its middle; `do_signal()` and `usertrapret()` use words that
senders change; a process that is about to sleep races with whoever kills, stops or wakes it;
slots of the process table are reused while other CPUs still hold pointers to them; frames of
nested handlers share a stack with the program. In the debugger: events of GDB come between the
commands that fill and use a cache; an exception ends a command or a handler in its middle; two
threads are inside `malloc()` at once; the memory that a loop follows is whatever a broken program
left.

## 2. Modules

`ProcLife`, `Fifo` and `LineInput` are abstract specifications. `Sched` implements `ProcLife`,
`TaskQueue` implements `Fifo`, `Console` implements `LineInput`. The proofs about a module `M` are in
`MProofs`, for `Sched`, `TaskQueue`, `Signal`, `Proc` and `Console`; in `UserMemoryProofs` for `Vm` and
`SigFrame`; in `GefProofs` for `GefSession`, `PieBreak`, `HeapTrace` and `GefConfig`; and in
`GefCommandProofs` for `GlibcHeap`, `GefArch`, `GefEdit` and the series of calls of `GefView`.
`Signal`, `SigFrame` and `Proc` are three views of the rest that meet at well-defined places: `Sched` abstracts the queue
that `TaskQueue` refines; `Signal` and `Proc` rely on `Sched!NoStarvation` for their fairness;
`Signal` counts the frames whose bytes `SigFrame` lays out; `Proc` sends the SIGCHLD and SIGKILL
that `Signal` delivers. `Console` and `Vm` stand for themselves: of the others they need only that
a sleeper that is woken runs again. `PieBreak` extends `GefSession`; with `HeapTrace` and
`GefConfig` they are instantiated in `MCGefSession`. `GlibcHeap`, `GefArch`, `GefScan`, `GefEdit`,
`GefContext`, `GefView` and `BuildScripts` extend `GefCommand`, the form of a command at work, and
are instantiated in `MCGefCommands`. `MC*` modules and cfgs give the instances. Definitions whose comment
starts with "Mutant:" are faulty variants of the next definition; they are not part of any
specification and exist to show that each property notices the fault.

### Sched - scheduler and run states
Several CPUs, each with a program counter: `loop` and `fetched` in `scheduler()`, `entered`
and `back` on the two sides of `swtch()`, `run` for the process, `fork` while `fork()` holds
`np->lock`. A critical section of `p->lock` is one step except across `swtch()` and in `fork()`,
where `lock[p]` is a variable. Every assignment to `p->state` in the kernel is an action:
`Yield`, `Sleep`, `Stop`, `Exit`, `AllocProc`, `ForkDone`, `ForkFail`, `Wakeup`, `SignalWake`,
`SignalCont`, `Reap`, `Dispatch`. Which process may signal or reap which is left open here (any),
so that the results do not depend on families. `lk` of `sleep(chan, lk)` matters only for lost
wakeups, which is the subject of `Proc`.

### TaskQueue - the ring buffer
`data`, `front`, `tail`, `empty` as in `struct queue`, the array being longer than the ring, as
in the code (`QUEUE_SIZE` against `NPROC`). `PushQueue` has the precondition that the entry is
not queued; it is what `Sched!NoDuplicates` proves for the callers. The array is mapped to a
sequence by `Contents`.

### Signal - delivery to one process
One process T and whoever sends it signals. T's path through `usertrap()`, `do_signal()` and
`usertrapret()` is split at every access to shared words; `sys_sigkill()` holds T's lock and is
split likewise. With `MultiCore`, an unlocked read-modify-write of `sigpending` may store a word
derived from an older load. Without it (the `make run` configuration) a sender runs only while T
is off the CPU. `fork()` continues as the child. History variables (`owed`, `last`,
`masks`) record what the program and the senders asked for. T blocks in `wait()` and `sys_sleep()`,
whose loops look at `killed`, or in `user_console_read()`, whose loop does not. `iskilled()` and the
store of the exit code in `exit()` are two critical sections of `p->lock` (`ExitWith`, `ExitDead`). The numbering of the signals is the
code's, because `do_signal()` scans in numerical order. Left out: `siginfo_t` contents;
`sys_sigpending()`, which changes nothing.

### SigFrame - the frame on the user stack
Registers and stack words around `do_signal()` and `sys_sigreturn()`; a signal may arrive at any
instruction of a program that pushes, pops and computes, and in its handlers. The sizes are scaled
(page of 4 words, siginfo 1, ucontext 2). `Restored` includes the store of the return value into
`a0` by `syscall()`.

### Proc - families
All slots run `fork()`, `wait()`, `exit()`, `kill()` and SIGKILL against each other. `wait_lock`,
and the `p->lock`s that are held while another is taken, are variables; the scans of
`allocproc()` and of `findByPid()` inside `kill()` go slot by slot as in the code. Pids of free
slots are kept (0 before first use, -1 after) because the searches compare them. `fork()` may run
out of memory before it takes `p->lock` (`AllocProc`) and after (`ForkFail`), so that failing is no
way out of a wait for that lock. `Calls` says which system calls the program in each slot makes.
RUNNABLE stands for RUNNABLE and RUNNING. Exit codes are left out.

### Console - line input
The ring `buf` with the indices `r`, `w`, `e`, which are words that wrap. `consintr()` is one step
per key; a reader keeps `cons.lock` from byte to byte and releases it in `sleep()` only, so `lock`
is a variable. Signals wake readers as well (`Signalled`). `LineInput` is what the ring promises: a
line that is edited in private, and a queue of finished characters. The refinement mapping reads
both out of the ring (`Window`). The scaled ring has three characters and indices modulo 6, so that
every alignment of the indices with the ring and with the word occurs.

### Vm - user memory
Physical pages, the tables of each address space, its leaf entries and its list of areas. fork()
and exec() fill a new address space area by area and page by page (`MapPage`, `MapArea`), sbrk()
runs the loops of `mm_remap()`; each allocation is a step, and may fail. Address spaces are only
used under their own lock, so that processes meet in the page allocator alone. `lost` collects the
tables that a failing `mm_create()` forgets (`vm.c:118`). Bounds: the heap does not reach
TRAPFRAME; the objects `struct mm` and `struct vma` do not run out.

### GefSession, PieBreak - what the debugger knows about the process
GDB runs one Python handler or command at a time, so each is one action; between `continue` and the
next event the process runs and GDB may deliver a stop, an exit, a new object file or a change of
memory. `caches` records of which process, in which layout and through which session the maps, the
lookups and the pid were read; `lasting` is what no reset empties, the version of libc and the address
of the main arena. `GdbMaps` says whether GDB can be asked for the memory map (version 11): an older one
leaves it to the file that a remote session downloaded at its set-up (`copy`). A remote session exchanges
the handler of new object files in `connect()` and back in `close()`; each of its steps may raise, which
leaves what the earlier ones did. Only the mode of gdbserver is modelled: `rr` reads the local files,
and for qemu the session writes a file of its own. In `PieBreak` a process is its own base address, and
GDB numbers its breakpoints in order and may refuse one, which is reported and passed over.

### HeapTrace - the heap tracker
A thread enters a function (the breakpoint fires), the allocator acts, the call returns (the finish
breakpoint fires): three steps, so two threads' calls overlap. `tracker` holds the lists as the code
keeps them; `live`, `seen`, `reused` and `blind` record what the heap really is and whether a call
the handlers do not see or misread has been made. A watchpoint whose memory is handed out again is
disabled and forgotten (`disabled`). The user may start tracing in the middle of a call.

### GefConfig - settings
`gef.config`, the aliases and the file as sets of keys and texts. The file is written without and
read with interpolation, so a text is classed by its percent signs. Keys keep the order in which
they are written, since an exception during the reading loses the keys that come after.

### GefCommand and the commands
`job` is what a command was given, the memory included; `st` is the state of its loop. One iteration
is one step, and every exception the code lets through is a status of its own.
- `GlibcHeap`: tcache and fast bins (which remember what they saw), the other bins, the list of
  arenas and `verify()` (which do not), the walk over chunks by size with its filters. Pointers are
  arbitrary: any cell may point to any cell, to NULL or to memory that cannot be read.
- `GefArch`: everything that the seven families take for a conditional branch (synonyms as one
  mnemonic), with the flags that a comparison of two words leaves, or the registers, against what the
  CPU does with it. Tests of names let through more than branches: `movs` on ARM, any `b.` on
  AArch64, any `b` on RISC-V, branches on another condition field on PowerPC; these are in it. Not in
  it: flags left by other instructions than a comparison, and the delay slots of SPARC and MIPS.
- `GefScan`: the chunk-wise search for a regular expression, pointer chains, the disassembly of
  previous instructions, the cyclic pattern and the search in it for a string, a register or what the
  register points to, the three sources of the memory map.
- `GefEdit`: the editing commands, each split at its system calls and memory accesses.
- `GefContext`: stops and continues with the panes in between, one step each, and the state that
  survives from stop to stop.
- `GefView`: windows over repeated calls, the recursion of `pcustom`, the output buffer with its
  terminal, the main and the selected arena.
- `BuildScripts`: `pack.py` composed with `get_elf()`, the regions of `kernel.ld`, by which the kernel
  maps itself, and of the script `kernelld.py` writes, which the Makefile does not link with; the bit
  fields of `sv39.py` against the kernel's macros.

## 3. Runs

| Run | Instance | Shows |
|---|---|---|
| `sched` | 4 processes, 2 CPUs, 2 channels, fair | queue, stack and lock invariants, refinement of `ProcLife`, every RUNNABLE process runs |
| `rings` | task queue: NPROC 3, array of 5; console: ring of 3, two letters, two readers, fair | FIFO, no panic; refinement of `LineInput`, nobody sleeps on input, a full ring empties |
| `signal` | one core, SIGKILL, SIGTERM, SIGCHLD, SIGSTOP, SIGCONT, two nested handlers | exact pending set, masks, no stale handlers, SIGCONT wins, a killed process dies of it |
| `signal_live` | one core, fair, handlers that unblock | killed processes die unless they read the console or are stopped, deliverable signals are taken |
| `signal_smp` | several cores, SIGKILL, SIGTERM, SIGSTOP, SIGCONT | masks, handlers, exit codes and no re-entry in spite of the data races |
| `proc` | 3 slots, 4 pids, two killers, fair | parents alive, no lost wakeup, orphans are reaped |
| `user_memory` | 21 pages, 2 processes of 8 virtual pages; sbrk() of -3, 1, 4 and 10 half pages, the first below 0 and the last past the stack; 8 words of stack, two frames | pages accounted for, failures undone, areas disjoint, brk in the heap; frames intact, live data kept, context restored |
| `gef_session` | 3 processes, 2 remote sessions, 2 virtual breakpoints, 4 real ones, a GDB older than 11; 2 threads on 2 heap addresses, lists of 2; 4 settings, 2 starts of 3 commands | caches fresh, handlers paired, breakpoints at the present base; exact heap lists and watchpoints, nothing but disabled watchpoints outlives the program; saved settings come back |
| `gef_commands` | 3 cells, heaps of 4 units, words of 3 bits, memory of 5 bytes, 3 calls in a row, fair | each command shows or does what it should on every such memory, and ends |

Most invariants of a module are conjuncts of the one its run checks, each with its own definition
and comment: `QueueSound`, `RingSound`, `StateSound`, `FamilySound`, `FrameSound`, `ReaderSound`,
`AreasSound`, `PieFollows`, `WatchesExact`, `SavedComesBack`, `EditsExact`, `ViewsExact`,
`ScanExact` and `ScriptsExact`; of the last two each conjunct has a mutant of its own in `PROJECT.json`. The first seven of these include the type invariant of their module.

Four processes and two CPUs allow every pairwise race plus third parties that reuse a slot; the
proofs remove the bound for the safety properties of the kernel's modules. Two frames reach nesting and the full stack;
in `Proc`, one pid more than there are slots lets a slot be reused while an exiting process still
holds a pointer to it. The cycle of `proc_lock_cycle` needs four slots (the child's before those of
the victim and the victim's parent, and init's is the first); `OrphansReaped`, which exempts such a
cycle and a panic, is checked with three, where there is none. `PID` and `exec()` (`image` 0 and 1) are the only counters that are capped,
in the guards. In `Proc` all processes may be asleep for ever (`wait()` for a pid that never
exits), which is why deadlock checking is off there. It is off in the runs of the debugger as
well: a command that has ended does nothing more, and the counters of processes, sessions and
commands are used up (`Max...` in the guards). Everywhere else it is on.

Three processes let the caches of one meet its successor's successor; two remote sessions let the
second begin while traces of the first remain. In `gef_commands` three cells give every shape of a
list (straight, closed, closed with a tail, cut off by bad memory) and 3 bits every combination of
the flags. `MCGefSession` sets one of its three independent parts in motion in each behaviour
(`part`), `MCRings` one of its two; the `VIEW Tracked` of the former leaves out what neither a guard
nor a property of the run reads: the last report, `disabled`, `lasting`, and `seen` once `blind` holds. Threads and the offsets of breakpoints are
interchangeable, and symmetric in the runs.

In `Vm`, 21 pages are enough for two processes but not for two with heaps, nor for a third
address space, and for one whose heap grows over its stack: every allocation of fork(), exec() and sbrk() fails in some state. `MCUserMemory`
moves either `Vm` or `SigFrame`, which share no state, in each behaviour (`part`). `Shape`, in its
`VIEW`, identifies states that differ only in which physical page is where. That is sound because no
guard looks at the number of a page, as long as every page has one owner - and `PagesAccounted`,
which says so, is part of the view.

### Runs that end in a counterexample
Each checks one statement of a document, a comment or an assertion that the code does not meet.

| Run | Statement | What happens |
|---|---|---|
| `signal_smp_lost` | the fields are accessed under `p->lock` | `do_signal()` and a sender overwrite each other's update of `sigpending` |
| `proc_lock_cycle` | locks are let go of to avoid a deadlock | `fork()` waits for its own lock with the child's held, `kill()` for the child's with the victim's held |
| `proc_stale_parent` | SIGCHLD goes to the parent | `parent_proc` is read before `wait_lock`; the slot may have a new owner |

The following are definitions too, in a section of their own at the end of their modules, but no run of
the project: TLC refutes each when it is put into the configuration of the run named, in place of the
properties there and without a `VIEW` (`NothingLeft` with one process, thread and address, to keep the
run short).

| Definition | In | Statement | What happens |
|---|---|---|---|
| `KillEndsReader` | `signal_live` | SIGKILL terminates the process (`README.md:42` of the repository) | a process that reads the console is woken, does not look at `killed` and sleeps again (`console.c:223`) |
| `KillEndsStopped` | `signal_live` | the same | only a SLEEPING process is woken, not a STOPPED one (`ksignal.c:442`) |
| `MappingsRestored` | `user_memory` | every mapping is restored when `mm_remap()` fails | the range contains the stack, whose pages the error path frees (`vm.c:349`) |
| `UnderflowRefused` | `user_memory` | a request to shrink brk below the heap is refused | the comparison is unsigned; a brk below 0 passes (`syscall.c:136`) |
| `LayoutIsPresent` | `gef_session` | the cache is reset properly | an older GDB shows a remote process in the layout it had at the connection, which was downloaded once (`gef.py:11227`) |
| `ArenaIsPresent` | `gef_session` | all caches are freed | the address of the main arena is kept for the next process (`gef.py:10757`) |
| `NothingLeft` | `gef_session` | everything is cleaned for the next execution (`gef.py:9449`) | a watchpoint on memory that was handed out again is disabled, unlisted and so never deleted (`gef.py:4270`) |
| `ReasonIsTrue` | `gef_commands` | the reason shown with a verdict holds | `bge` of RISC-V is TAKEN "rs1>=rs2" when rs1 is the smaller (`gef.py:2532`) |
| `CanonicalTaken` | `gef_commands` | addresses whose bit 38 and higher bits are all 0 conform to Sv39 (`sv39.py:12`) | `sv39.py` refuses them (`sv39.py:21`) |

### Observations
The models contain these behaviours too; each is a short path of the named module.
- `sys_sigreturn()` restores every register from the frame, but then `a0` becomes its return value
  (`syscall.c:240`), and the saved context has no `t6` to restore (`ksignal.c:358`), although the
  repository's `README.md:32` lets the program continue where it was. `ContextRestored` excepts both.
- A SIGKILL sent on another core between the test of `killed` and `sleep()` wakes nobody
  (`proc.c:305`): `Signal`, `BlockTest`, `SendStart`, `SendAct`, `Sleep`. This is why `KilledDies`
  is checked for one core.
- `setkilled()` overwrites `p->killed`: a fault or a default action between SIGKILL and `exit()`
  replaces the exit code -14 that `README.md:42` of the repository promises. `ExitReason` states
  what does hold: the last reason decides. On several cores a SIGKILL may also come too late, between
  `iskilled()` (`trap.c:199`) and the store of the exit code (`proc.c:371`): `killed` is then set,
  and the exit code is another.
- A SIGCONT that is pending when SIGSTOP is sent stays pending, is handled after it (8 after 7) and
  cancels the stop (`ksignal.c:120`).
- SIGSTOP makes a sleeper RUNNABLE (`ksignal.c:459`), but `wait()` and `sys_sleep()` only look at
  `killed` and sleep again; `Delivered` therefore exempts sleeping processes.
- `exit()` sends SIGCHLD only `if (!wakeinit)`: not when the process has children (`proc.c:348`).
- `kill()` and `findByPid()` match free slots for the pids 0 and -1; `killed` is then set there,
  `allocproc()` does not reset it, and the next process of the slot is born killed.
- `kill()` calls `sys_sigkill()` with the victim's lock held (`proc.c:400`); `findByPid()` takes the
  locks of all slots up to the parent's. When the victim comes first, `acquire()` panics
  (`lock.c:19`): `KillScan` sets `panicked`. Two `kill()`s alone cannot wait for each other: the one
  whose victim has the lower slot panics on it before it gets to the other's.
- On several cores, a SIGCONT sent between the clearing of `need_stop` and `acquire(&p->lock)` in
  `usertrapret()` (`trap.c:231`) has no effect and the process stays STOPPED, although `report2.md:166`
  lets SIGCONT end the stop. `ContResumes` is therefore checked for one core; with `MultiCore` and
  the signals 7 and 8 TLC finds this behaviour.
- `vma_check_overlap()` looks at the ends of the new area only (`vm.c:202`). A single sbrk() that
  goes past the stack (4 GB up) is accepted; with 128 MB it runs out of memory, and the error path of
  `mm_remap()` frees the stack (`MappingsRestored`). A fork() after that reads an unmapped page in the
  kernel (`CopyFaults`).
- sbrk() compares the signed `new_brk` with the unsigned `vm_start` (`syscall.c:136`): a sum in the
  last page below 0 gives back the whole heap, with `vm_end` 0 (`UnderflowRefused`). A lower sum is a
  range beyond TRAPFRAME, which the model leaves out.
- `mm_create()` without a free page releases a lock that it does not hold (`vm.c:121`), which panics;
  with one or two pages it frees the root but not the tables below it.

In the debugger extension (lines of `scripts/gef.py` are in `PROJECT.json`):
- Sessions: when `connect()` fails the local handler stays disconnected; an exception in `setup()`
  leaves `remote_initializing` set, or a session in force whose maps were never fetched; the version of
  libc is never forgotten. A failed `run` leaves the context hidden. `failed` in `HandlersPaired` marks
  the states after a failed set-up.
- `pie`: a real breakpoint that the user deletes by number makes a later `pie run` or `pie delete` abort.
  A breakpoint that GDB refuses is reported, its old real one is gone and the command goes on.
- Heap tracker: `malloc(0)` is not tracked; a NULL result is listed as a chunk; `calloc()` is listed
  with its first argument as size; the return of `realloc()` lists the old chunk again; a watchpoint
  may stay inside a chunk that has been handed out again; typing the command twice leaves breakpoints
  behind.
- Settings: a value that its hook refuses has been stored already; a `%` in a value makes the
  restoring at start-up raise; `%%` comes back as `%`; settings of a plugin come back as their defaults
  when the plugin is loaded late; names of aliases are lower-cased.
- Heap commands: the ring walks (other bins, arenas, `verify()`) remember nothing and do not end on a
  closed loop without the header; a summary with a mapped chunk raises; `--count n` prints the top
  chunk on top of n; `tcache` leaves another thread selected when a list head cannot be read; 7 of 10
  fast bins are shown; `set-arena` with an address that is not listed changes the main arena, not the
  selected one.
- Branches: `bge` of RISC-V is inverted (`gef.py:2532`) and `bgt`, and all that begins with `b` and is
  no branch, raises; `jl` of x86 compares bits at different places, and `jcxz` looks at all of `rcx`;
  signed branches of SPARC, `hs`/`lo`/`al` of AArch64, comparisons of registers that GDB shows with the
  other signedness, ARM instructions like `movs` and PowerPC branches on fields other than 0 are wrong.
  `Misjudged` lists these cases, and `BranchPredicted` says that the verdict is wrong in exactly them.
- Searching: a match across two chunks is missed, the last byte of a section is not searched, one
  unreadable chunk drops everything; text that is not announced as `--regex` is a regular expression
  too, and raises if it is not one. A pattern longer than the alphabet allows is silently short;
  `pattern search` of a register that holds an address looks for what is there, and of a string
  for its reverse first. `dereference` shows an address that cannot be read twice.
- Editing: `hijack-fd` reports success for descriptor -1, and an exception between its calls leaves the
  socket open and the stack changed; `entry-break` leaves breakpoints of symbols tried before; an
  exception other than `gdb.error` in `trace-run` leaves the context hidden.
- Output: when the terminal cannot be opened the buffer stays, and later output is never printed.
- Context: an unknown pane raises `KeyError`, although the comment at `gef.py:7489` says it is skipped,
  and the output stays redirected; a memory error in the panes of threads or trace leaves another
  thread or frame selected; a register that GDB shows as negative is always marked as changed.
- Scripts: `get_elf()` compares a prefix, so that it relies on the sorting of `pack.py` and runs the
  wrong program for a name that is only the beginning of one.

### Fairness
- `Sched`: `scheduler()` is an endless loop and `fork()` ends (weak fairness). A process gives up
  the CPU again and again if it can: the timer interrupts user mode, and system calls end (strong
  fairness of `Leave`, because `Leave` is disabled while the process is inside `fork()`).
- `Signal`: the kernel path and the dispatch of T (strong, since other senders may hold T's lock in
  between; `Sched!NoStarvation` is why a RUNNABLE T runs), the timer interrupt (strong), the
  critical section of the sender (weak). Nothing is assumed of the program, of wakeups or of signals.
- `Console`: a reader inside `read()` proceeds (strong: others may take `cons.lock` in between).
  Nothing is assumed of the keyboard.
- `MCGefCommands`: a command that has begun goes on (weak); GDB does nothing else meanwhile. Nothing
  is assumed of the traced program.
- `Proc`: every process in the kernel proceeds (strong: spinlocks are contended, but whoever holds
  one goes on - unless he waits for another; no step is assumed that would break such a wait), and
  init returns to `wait()` again and again, as the loop of `user/src/init.c` does.

## 4. Proofs

`SchedProofs` proves for all finite sets of processes and CPUs that the conjunction
`IInv` = `TypeOK`, `CpuInv`, `NoDuplicates`, `RunnableIsHeld`, `StackExclusive`, `LockHandover`
is inductive. None of the last four is inductive alone: that `SwitchedBack` does not queue a
process twice needs the lock (a waker is kept out between `sched()` and the release in
`scheduler()`), the lock's meaning needs the CPU's program counter (`CpuInv`: which of `cproc` and
`local` are set at which `pc`), and that a slot is not freed under a running CPU needs both. From
`IInv` follow
- `RunQueueSound`: the invariant `QueueSound` that the run `sched` checks (types, no duplicates, no
  overflow);
- `RunQueueCorrect`, `KernelStackSafe`, `LockHandedOver`, `TypeCorrect`;
- `QueueNeverOverflows`: an injective sequence over `Proc` is no longer than `Cardinality(Proc)`;
- `RefinesLife`: every step is a step of `ProcLife` or a stutter.

`TaskQueueProofs` proves the ring buffer correct for every `NPROC` and `QUEUE_SIZE >= NPROC`. Its
inductive invariant says that `empty` implies `front = tail`, that the queued entries are distinct
processes, and hence that a full ring contains all of them - so that a push, whose argument is not queued,
never meets a full ring (`NeverPanics`, and with the types `RingStaysSound`). `RingIsFifo` shows that `Contents` changes by `Append` and
`Tail`, with the wrap-around handled in `SlotOf`.

`SignalProofs`, for any subset of the ten signals, any masks and any depth of nesting:
- `StateIsSound` (`StateSound`), with one CPU and with several. The invariant `StateInv` adds that
  a process between `iskilled()` and the end of `exit()` carries the reason that `iskilled()` saw,
  up to a late SIGKILL (`LeavesWithReason`), that
  the frame of a level holds the mask of the level below it (`FramesKeepMasks`), that everything
  above a frame blocks its signal (`HandlersBlock`), and that a signal `do_signal()` has taken stays
  unblocked until its handler is entered (`TakenUnblocked`); `MaskRestored` and `NoReentry` are about
  one frame at a time and are not inductive without them.
- `PendingIsExact` (`PendingExact`) and `ContAlwaysResumes` (`ContResumes`), for one CPU
  (`~MultiCore`). A sender runs only while T is off the CPU (`OneAtATime`), so a word that is about
  to be stored into `sigpending` is the one in memory (`WordsFresh`); `StopIsLast` and `NoteIsLast`
  follow a SIGSTOP through the pending word, `do_signal()`, `need_stop` and the STOPPED state. The
  hypothesis is needed: with several CPUs `signal_smp_lost` refutes the first, and section 3 describes
  how the second fails.

`ProcProofs`, for a process table of any size, any bound on the pids and any `Calls`:
- `FamilyIsSound` (`FamilySound`). Besides `ParentAlive` the invariant needs what the locks protect:
  who scans or leaves holds `wait_lock` (`WaitLocks`), the slot that `fork()` fills in is locked and
  USED (`SlotLocks`), and init never leaves (`InitLives`), which is why it can be everybody's parent.
- `NoWakeupIsLost` (`NoLostWakeup`), with `WaitInv`: nobody about to sleep has a child to reap, and
  the parent of a process between its wakeup and its ZOMBIE state is awake.

`UserMemoryProofs` on `SigFrame`, for every stack, page and frame size that fits: the inductive invariant
`FramesNest` says that frames lie one below the other and that each context, running or saved, keeps
its sp at or below the frame it runs on. From it `FramesStayIntact` (`FrameSound`), `LiveStackIsKept`
and `ContextIsRestored`, the two action properties.

`ConsoleProofs`, for every buffer size, every word that it divides and any number of readers:
`ReadersAreSound` (`ReaderSound`) and `ConsoleIsLineInput`, the refinement of `LineInput`.
`IndicesOrdered` (going round from `r` one meets `w`, then `e`, at most one buffer away) is what makes
the slots from `r` to `e` different although the indices wrap; `LineClean` (no newline in the
unfinished line) is what makes `^U` stop at `w`.

`UserMemoryProofs` on `Vm`, for any number of pages, processes and address spaces, and any layout:
- `PagesAreAccounted` (`PagesAccounted`), without further hypotheses. `Refs` counts; the proof turns
  the counts into one injective function from the places in page tables to pages (`Owned`, `Exact`,
  `ExactLemma`). That `mm_free()` gives back everything needs `Within`: what is mapped lies in an
  area or in the part that the loop in progress has gone through; and that it gives back nothing of
  others needs `OwnSpaces`. The whole is `PageInv` (`PagesStayOwned`).
- `AreasAreSound` (`AreasSound`) and `RemapKeepsPages` (`RemapKeeps`), for every argument of sbrk().
  They speak of the processes outside `overrun`, a history variable: a process enters it by a call
  whose new heap contains the whole stack or whose end wraps around to 0, the two that the code
  should refuse and does not (section 3), hands it on by fork() and leaves it by exec(). `LayoutInv`
  says of the others that their list of areas consists of program, heap and stack, that all its pages
  are mapped, and that the end of the heap, present and future, lies below the stack (`NewBrkLemma`:
  an end that does not wrap is where `PGROUNDUP()` says); that an overrun heap harms nobody else is
  `OwnSpaces`, and that exec() starts afresh is `Clean`.

`GefProofs`, for any number of processes, sessions and breakpoints, any set of settings, any
number of starts and commands, and any heap:
- `CachesAreFresh` (`CachesFresh`) and `HandlersArePaired` (`HandlersPaired`), over the steps of
  `GefSession` and `PieBreak` together, with an old GDB and with a new one. `SessionInv` relates each
  cache to the process, layout and session it was read from, and numbers the session objects, so that
  `close()` disconnects its own handler only. What `lasting` and the copy of a session hold is not part
  of the property: `ArenaIsPresent` and `LayoutIsPresent` say what is wrong with them;
- `PieAlwaysFollows` (`PieFollows`), on top of `SessionInv`, which says that the base taken from the
  cached maps is that of the present process. `PieInv` adds that GDB's numbers are used once and
  that the numbers of virtual breakpoints are below the counter. `At` is what `instantiate()` leaves of a
  breakpoint: at the base, or without a real one where GDB refused it. What the loops over all
  breakpoints do is proved by induction: `Induction` is the principle with a set in the place of
  the predicate, `LoopExists` gives the states a loop goes through;
- `SavedAlwaysComesBack` (`SavedComesBack`). `ConfigInv` adds that all built-in settings exist and
  the bools among them are bools, in the session and in the file, and that the file's alias names
  are in lower case: these are what makes reading back the inverse of writing;
- `TrackerIsExact` (`TrackerExact`) and `WatchesAreExact` (`WatchesExact`), for any number of
  threads, addresses and tracked chunks and any combination of the `check_*` settings, when the
  command is typed at most once in an execution (`MaxSets = 1`, as in the run): typed twice, it
  forgets its first set of breakpoints, which outlives `clean()`, and both properties are false.
  `free()` moves its chunk between the lists before the allocator acts and `malloc()` after, so
  the lists are compared with the heap corrected by the calls in flight (`InUse`, `GivenBack` in
  `ListsOK`), and a freed chunk without a watchpoint is one whose `free()` has not returned
  (`WatchOK`). `CallsOK` says that chunks do not overlap and that no two calls hold the same one;
  `CommandOK` what is left behind when the command is off. `RemoveLemma` is what removing from a
  list while iterating over it does: all that does not match is kept, and the match is gone when
  there is only one, which `Distinct` guarantees.

`GefCommandProofs`, for the commands of the debugger taken by themselves (`BranchSpec`, `EditSpec`,
`HeapSpec`, `SeriesSpec`: a command or a series of them, and the steps it takes until it ends):
- `BranchIsPredicted` (`BranchPredicted`), for registers of any width and all operands. The core is
  `CompareLemma`: the difference of two words wraps exactly when there is a borrow, and its sign,
  corrected by the overflow flag, is the order of the two's complement values. `Conditions` puts
  every condition in terms of these; one lemma for each architecture then compares its table with
  the conditions, and `ReadLemma` covers registers that GDB gives as signed or unsigned numbers.
  Each lemma is an equivalence: the verdict is right if and only if the case is not one of
  `Misjudged`, so that the list is no excuse for more than is wrong;
- `EditsAreExact` (`EditsExact`), for code of any size and any division of it into instructions. The
  arguments of the commands are those of the model (up to three instructions or values, of one
  byte or two). `EditInv` is the disjunction of one invariant per command. `CodeInv`: `nop` walks
  along the instructions that follow its address, so that a walk that meets the target exactly
  has found a boundary; that an instruction can only be as many places away as there are bytes
  (`InstructionsAdvance`) bounds the search in `Boundaries`. `PatchInv`: the values so far lie one
  behind the other and do not reach into each other (`Apart`). `FlagsInv`: the register is the one
  that the arguments so far give, and nothing is cached in between. `HijackInv`, `TraceInv`,
  `EntryInv`: the descriptors, the context and the breakpoints at each stage. That recursive
  functions such as `InstructionN` have the value their definition says is proved with `LoopExists`;
- `HeapIsShown` (`HeapShown`), for any finite number of cells and threads, a heap of any size and
  memory of any contents. What is there (`Reached`, `TrueChunks`) is defined as the least set that
  has a beginning and is closed under a step, so that no proof needs a path (`ReachedLemma`). A walk
  keeps a set that is closed but for the cell it stands on (`Walked`); where that cell leads nowhere
  or back, the set is all there is (`WalkEnds`). This holds for any pointers in `ListInv` and
  `ArenasInv`, whose walks may meet a cell again. The bins remember nothing, so that `BinInv` counts
  right only on an intact ring: the chunks counted and the rest of the ring are apart, since
  otherwise the chunks counted would be closed without the header (`RingAdvance`). In `heap chunks`
  no chunk begins between a chunk and the next (`ChunkAdvance`), so that the chunks below the
  walk are listed and nothing else (`ChunksInv`), whatever the filters left out;
- `SeriesAreExact` (`ViewsExact` of `dereference`, `hexdump`, the output and the arenas), for any
  number of calls. `WindowInv`: each window shown is the one of its repetition (`WindowLemma`), so that
  those since the last call that was no repetition have each word once (`WordsLemma`). `OutputInv`:
  a buffer is only left open once the terminal could not be opened, and what has been printed is what
  is out and, from then on, in the buffer. `ChosenInv`: where the main arena comes from, and that
  what the user selected stays selected until a reset; without a `set-arena` the selected arena
  is the main one, or none is.

Assumptions are the named `ASSUME`s of the modules (finite sets, distinct null values, ring not
longer than its array, frames that fit a page, a word that the buffer size divides, and
`PowersOfTwo`, the arithmetic of `2^i` that the provers do not know), and the two
hypotheses named above, `~MultiCore` and `MaxSets = 1`.

Only model-checked:
- liveness, which needs fairness and ENABLED, outside the proof system: `NoStarvation`,
  `KilledDies`, `Delivered`, `OrphansReaped`, `RoomAgain`, `CommandsEnd`;
- the properties of `GefScan` and of `BuildScripts`, whose results are computed by folds or recursive
  definitions over a list, where a proof would be an induction over data (de Bruijn sequences,
  decoders, tables);
- `ViewsExact` of `pcustom`, and of the context (`ContextOfThisStop`): their models have fixed bounds
  and no parameter, so that a theorem would say no more than the run does.

## 5. Plan

1. Done: `ProcLife`, `Sched`, `Fifo`, `TaskQueue`, their proofs; `Signal`, `SigFrame`, `Proc`,
   `LineInput`, `Console`, `Vm`; the debugger's modules and `BuildScripts`.
2. `Intr` (`push_off`/`pop_off` and the lock owner), `Boot` (order of initialisation, `tickslock`).
3. `Kalloc` (the object allocator), `Uaccess` and `Umalloc` as algorithms against flat reference
   definitions.
4. `Proc`: exit codes; `wait(pid)` of a process that is not a child.
5. Theorems, done: all safety properties of `Sched`, `TaskQueue`, `Signal`, `SigFrame`, `Proc`,
   `Console`, `Vm`, `GefSession`, `PieBreak`, `HeapTrace`, `GefConfig`, `GlibcHeap`,
   `GefArch`, `GefEdit` and the series of `GefView`. Left: `GefScan`, `BuildScripts`, and the
   parts of `GefView` and `GefContext` that TLC checks completely.

## 6. Not modelled

ELF headers, contents and flags of pages, kernel page tables, device registers, printing, assembly (its effect is in `Sched` and
`SigFrame`), `drivers/dw_mmc.c` (not called), user programs (they are the open environment of the
models). The SIGKILL branch of `do_signal()` is dead code: `sys_sigkill()` never makes
SIGKILL pending; so it has no action. `SIGSTOP` and `SIGCONT` are sent by processes only; the console
has no job control.

Of `gef.py`: what only formats and prints (help, colours, `vmmap`, `xinfo`, `got`, `checksec`,
`elf-info`, the source and code panes), the parsing of ELF files and of glibc's structures, the
assembling through external libraries, the tables of system calls and calling conventions, and the
convenience functions. They keep no state that a later command uses, and a model of them would be a
copy of their formats.
