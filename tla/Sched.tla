------------------------------- MODULE Sched -------------------------------
(***************************************************************************)
(* The scheduler and the run states of processes: os/sched.c, and every    *)
(* place of os/proc.c, os/trap.c, os/loader.c and os/signal/ksignal.c that *)
(* changes p->state or calls add_task().                                   *)
(*                                                                         *)
(* A section of code between acquire(&p->lock) and release(&p->lock) is    *)
(* one step, except where the lock is held across a context switch (a CPU  *)
(* takes p->lock, swtch()es, and the other side releases it) or across a   *)
(* second acquire (fork()): there `lock' records the holder.  The run      *)
(* queue is a sequence; module TaskQueue models its ring buffer.           *)
(***************************************************************************)
EXTENDS Naturals, Sequences, FiniteSets, Functions

CONSTANTS Proc,     \* the slots of pool[NPROC]
          Cpu,      \* the harts that run scheduler()
          Chan,     \* the addresses processes sleep on
          InitProc, \* the slot of the init process (load_init_app)
          NoProc, NoCpu, NoChan

ASSUME ConstAssumption ==
    /\ IsFiniteSet(Proc) /\ IsFiniteSet(Cpu)
    /\ InitProc \in Proc
    /\ NoProc \notin Proc /\ NoCpu \notin Cpu /\ NoChan \notin Chan

VARIABLES
    state,      \* p->state
    sleep_chan, \* p->sleep_chan
    lock,       \* the CPU holding p->lock across the steps of this model
    task_queue, \* the run queue
    cproc,      \* c->proc, the process a CPU is executing
    pc,         \* where a CPU is, see PCs
    local       \* the local variable p of scheduler(), np of fork()

vars == <<state, sleep_chan, lock, task_queue, cproc, pc, local>>

\* "loop"    top of the for(;;) of scheduler()
\* "fetched" after fetch_task(), before acquire(&p->lock)
\* "entered" on the process's kernel stack, p->lock still held by scheduler()
\* "run"     executing the process, in user mode or in a system call
\* "fork"    inside fork(), np->lock held, p->lock not yet
\* "back"    back on the scheduler's stack, p->lock held by the process's sched()
PCs == {"loop", "fetched", "entered", "run", "fork", "back"}

ProcState == {"UNUSED", "USED", "SLEEPING", "RUNNABLE", "RUNNING",
              "ZOMBIE", "STOPPED"}

TypeOK ==
    /\ state \in [Proc -> ProcState]
    /\ sleep_chan \in [Proc -> Chan \cup {NoChan}]
    /\ lock \in [Proc -> Cpu \cup {NoCpu}]
    /\ task_queue \in Seq(Proc)
    /\ cproc \in [Cpu -> Proc \cup {NoProc}]
    /\ pc \in [Cpu -> PCs]
    /\ local \in [Cpu -> Proc \cup {NoProc}]

\* proc_init() leaves every slot UNUSED; load_init_app() then makes the init
\* process RUNNABLE before any CPU enters scheduler().
Init ==
    /\ state = [p \in Proc |-> IF p = InitProc THEN "RUNNABLE" ELSE "UNUSED"]
    /\ sleep_chan = [p \in Proc |-> NoChan]
    /\ lock = [p \in Proc |-> NoCpu]
    /\ task_queue = <<InitProc>>
    /\ cproc = [c \in Cpu |-> NoProc]
    /\ pc = [c \in Cpu |-> "loop"]
    /\ local = [c \in Cpu |-> NoProc]

-----------------------------------------------------------------------------
(* scheduler() *)

\* An empty queue: all_dead() would panic, otherwise wait for an interrupt and
\* look again.
Idle(c) ==
    /\ pc[c] = "loop"
    /\ task_queue = <<>>
    /\ \E p \in Proc : state[p] # "UNUSED"
    /\ UNCHANGED vars

\* fetch_task() pops the head of the queue.
Fetch(c) ==
    /\ pc[c] = "loop"
    /\ task_queue # <<>>
    /\ local' = [local EXCEPT ![c] = Head(task_queue)]
    /\ task_queue' = Tail(task_queue)
    /\ pc' = [pc EXCEPT ![c] = "fetched"]
    /\ UNCHANGED <<state, sleep_chan, lock, cproc>>

\* acquire(&p->lock) and swtch() to the process; a process that is no longer
\* RUNNABLE is skipped.
Dispatch(c) ==
    LET p == local[c]
        ok == state[p] = "RUNNABLE"
    IN  /\ pc[c] = "fetched"
        /\ lock[p] = NoCpu
        /\ state' = [state EXCEPT ![p] = IF ok THEN "RUNNING" ELSE @]
        /\ lock' = [lock EXCEPT ![p] = IF ok THEN c ELSE @]
        /\ cproc' = [cproc EXCEPT ![c] = IF ok THEN p ELSE @]
        /\ pc' = [pc EXCEPT ![c] = IF ok THEN "entered" ELSE "loop"]
        /\ local' = [local EXCEPT ![c] = NoProc]
        /\ UNCHANGED <<sleep_chan, task_queue>>

\* Mutant: first_sched_ret() without its release().
EnterLocked(c) ==
    /\ pc[c] = "entered"
    /\ sleep_chan' = [sleep_chan EXCEPT ![cproc[c]] = NoChan]
    /\ pc' = [pc EXCEPT ![c] = "run"]
    /\ UNCHANGED <<state, lock, task_queue, cproc, local>>

\* The process's side of the switch: first_sched_ret(), or the return of
\* sched() into yield(), sleep() (which forgets the channel) or usertrapret().
\* All of them release(&p->lock).
Enter(c) ==
    /\ pc[c] = "entered"
    /\ sleep_chan' = [sleep_chan EXCEPT ![cproc[c]] = NoChan]
    /\ lock' = [lock EXCEPT ![cproc[c]] = NoCpu]
    /\ pc' = [pc EXCEPT ![c] = "run"]
    /\ UNCHANGED <<state, task_queue, cproc, local>>

\* Mutant: the yielding process goes to the front of the queue.
SwitchedBackFront(c) ==
    LET p == cproc[c]
    IN  /\ pc[c] = "back"
        /\ cproc' = [cproc EXCEPT ![c] = NoProc]
        /\ task_queue' = IF state[p] = "RUNNABLE" THEN <<p>> \o task_queue
                                                  ELSE task_queue
        /\ lock' = [lock EXCEPT ![p] = NoCpu]
        /\ pc' = [pc EXCEPT ![c] = "loop"]
        /\ UNCHANGED <<state, sleep_chan, local>>

\* The scheduler's side of the switch back: a RUNNABLE process is queued only
\* now that its context is saved; then release(&p->lock).
SwitchedBack(c) ==
    LET p == cproc[c]
    IN  /\ pc[c] = "back"
        /\ cproc' = [cproc EXCEPT ![c] = NoProc]
        /\ task_queue' = IF state[p] = "RUNNABLE" THEN Append(task_queue, p)
                                                  ELSE task_queue
        /\ lock' = [lock EXCEPT ![p] = NoCpu]
        /\ pc' = [pc EXCEPT ![c] = "loop"]
        /\ UNCHANGED <<state, sleep_chan, local>>

-----------------------------------------------------------------------------
(* What the running process does with its own state.  Each takes p->lock,  *)
(* changes p->state and calls sched(), which keeps the lock for scheduler(). *)

GiveUp(c, s, ch) ==
    /\ pc[c] = "run"
    /\ lock[cproc[c]] = NoCpu
    /\ lock' = [lock EXCEPT ![cproc[c]] = c]
    /\ state' = [state EXCEPT ![cproc[c]] = s]
    /\ sleep_chan' = [sleep_chan EXCEPT ![cproc[c]] = ch]
    /\ pc' = [pc EXCEPT ![c] = "back"]
    /\ UNCHANGED <<task_queue, cproc, local>>

\* yield(), from usertrap() on a timer interrupt.
Yield(c) == GiveUp(c, "RUNNABLE", NoChan)

\* sleep(ch, lk), from wait(), sys_sleep() and the console.
Sleep(c) == \E ch \in Chan : GiveUp(c, "SLEEPING", ch)

\* usertrapret() with need_stop set by SIGSTOP.
Stop(c) == GiveUp(c, "STOPPED", NoChan)

\* Mutant: exit() without its test for init_proc.
ExitInit(c) == GiveUp(c, "ZOMBIE", NoChan)

\* The end of exit(); init panics instead.
Exit(c) == cproc[c] # InitProc /\ GiveUp(c, "ZOMBIE", NoChan)

\* allocproc() called by fork(): the scan locks one slot at a time, so any slot
\* may be the first one found UNUSED.  It returns with the slot's lock held.
AllocProc(c) == \E np \in Proc :
    /\ pc[c] = "run"
    /\ lock[np] = NoCpu
    /\ state[np] = "UNUSED"
    /\ state' = [state EXCEPT ![np] = "USED"]
    /\ sleep_chan' = [sleep_chan EXCEPT ![np] = NoChan]
    /\ lock' = [lock EXCEPT ![np] = c]
    /\ local' = [local EXCEPT ![c] = np]
    /\ pc' = [pc EXCEPT ![c] = "fork"]
    /\ UNCHANGED <<task_queue, cproc>>

\* The rest of a successful fork(): under np->lock and p->lock the child
\* becomes RUNNABLE and is queued.
ForkDone(c) ==
    LET np == local[c]
    IN  /\ pc[c] = "fork"
        /\ lock[cproc[c]] = NoCpu
        /\ state' = [state EXCEPT ![np] = "RUNNABLE"]
        /\ task_queue' = Append(task_queue, np)
        /\ lock' = [lock EXCEPT ![np] = NoCpu]
        /\ local' = [local EXCEPT ![c] = NoProc]
        /\ pc' = [pc EXCEPT ![c] = "run"]
        /\ UNCHANGED <<sleep_chan, cproc>>

\* mm_create() or mm_copy() failed: freeproc(np) and release.
ForkFail(c) ==
    LET np == local[c]
    IN  /\ pc[c] = "fork"
        /\ state' = [state EXCEPT ![np] = "UNUSED"]
        /\ sleep_chan' = [sleep_chan EXCEPT ![np] = NoChan]
        /\ lock' = [lock EXCEPT ![np] = NoCpu]
        /\ local' = [local EXCEPT ![c] = NoProc]
        /\ pc' = [pc EXCEPT ![c] = "run"]
        /\ UNCHANGED <<task_queue, cproc>>

-----------------------------------------------------------------------------
(* What code running on CPU c does to another process p.  It is a system    *)
(* call of the process on c, or an interrupt handler on c.                  *)

CanCall(c) == pc[c] \in {"loop", "run"}

MakeRunnable(p) ==
    /\ lock[p] = NoCpu
    /\ state' = [state EXCEPT ![p] = "RUNNABLE"]
    /\ task_queue' = Append(task_queue, p)
    /\ UNCHANGED <<sleep_chan, lock, cproc, pc, local>>

\* Mutant: wakeup() without add_task().
WakeupNoTask(c, p) ==
    /\ CanCall(c)
    /\ sleep_chan[p] \in Chan
    /\ state[p] = "SLEEPING"
    /\ lock[p] = NoCpu
    /\ state' = [state EXCEPT ![p] = "RUNNABLE"]
    /\ UNCHANGED <<sleep_chan, lock, task_queue, cproc, pc, local>>

\* One iteration of wakeup(ch) that finds a sleeper.
Wakeup(c, p) ==
    /\ CanCall(c)
    /\ sleep_chan[p] \in Chan
    /\ state[p] = "SLEEPING"
    /\ MakeRunnable(p)

\* sys_sigkill() of SIGKILL, SIGSTOP or SIGCHLD, and kill(), pull a process
\* out of sleep() whatever it sleeps on.
SignalWake(c, p) ==
    /\ pc[c] = "run"
    /\ state[p] = "SLEEPING"
    /\ MakeRunnable(p)

\* Mutant: SIGCONT without the test for STOPPED queues a queued process again.
SignalContAny(c, p) ==
    /\ pc[c] = "run"
    /\ state[p] \in {"STOPPED", "RUNNABLE"}
    /\ MakeRunnable(p)

\* sys_sigkill() of SIGCONT.
SignalCont(c, p) ==
    /\ pc[c] = "run"
    /\ state[p] = "STOPPED"
    /\ MakeRunnable(p)

\* Mutant: wait() reads child->state without acquire(&child->lock).
ReapUnlocked(c, p) ==
    /\ pc[c] = "run"
    /\ state[p] = "ZOMBIE"
    /\ state' = [state EXCEPT ![p] = "UNUSED"]
    /\ sleep_chan' = [sleep_chan EXCEPT ![p] = NoChan]
    /\ UNCHANGED <<lock, task_queue, cproc, pc, local>>

\* wait() finds a ZOMBIE child: freeproc(child).
Reap(c, p) ==
    /\ pc[c] = "run"
    /\ lock[p] = NoCpu
    /\ state[p] = "ZOMBIE"
    /\ state' = [state EXCEPT ![p] = "UNUSED"]
    /\ sleep_chan' = [sleep_chan EXCEPT ![p] = NoChan]
    /\ UNCHANGED <<lock, task_queue, cproc, pc, local>>

-----------------------------------------------------------------------------
Scheduler(c) == Fetch(c) \/ Dispatch(c) \/ Enter(c) \/ SwitchedBack(c)

Leave(c) == Yield(c) \/ Sleep(c) \/ Stop(c) \/ Exit(c)

Next == \E c \in Cpu :
    \/ Idle(c) \/ Fetch(c) \/ Dispatch(c) \/ Enter(c) \/ SwitchedBack(c)
    \/ Yield(c) \/ Sleep(c) \/ Stop(c) \/ Exit(c)
    \/ AllocProc(c) \/ ForkDone(c) \/ ForkFail(c)
    \/ \E p \in Proc : Wakeup(c, p) \/ SignalWake(c, p) \/ SignalCont(c, p)
                         \/ Reap(c, p)

Spec == Init /\ [][Next]_vars

\* scheduler() never stops; fork() ends; the timer takes the CPU from a process
\* that keeps coming back to user mode (Leave is disabled only inside fork()).
Fairness == \A c \in Cpu :
    /\ WF_vars(Scheduler(c))
    /\ WF_vars(ForkDone(c) \/ ForkFail(c))
    /\ SF_vars(Leave(c))

FairSpec == Spec /\ Fairness

-----------------------------------------------------------------------------
(* Properties *)

\* No process is in the run queue twice: a double add_task() (two wakers, or a
\* waker and the scheduler's own re-queueing) would run it on two CPUs at once.
NoDuplicates == IsInjective(task_queue)

\* CPU c is about to dispatch p, or to put it back into the queue.
Holds(c, p) == \/ pc[c] = "fetched" /\ local[c] = p
               \/ pc[c] = "back" /\ cproc[c] = p /\ state[p] = "RUNNABLE"

\* No process is lost and none is scheduled by mistake: it is RUNNABLE exactly
\* when the queue or one CPU has it, never both.  In particular the
\* "not RUNNABLE, skip it" branch of scheduler() is never taken.
RunnableIsHeld == \A p \in Proc :
    /\ state[p] = "RUNNABLE" <=> \/ p \in Range(task_queue)
                                 \/ \E c \in Cpu : Holds(c, p)
    /\ \A c \in Cpu : Holds(c, p) => p \notin Range(task_queue)
    /\ \A c, d \in Cpu : Holds(c, p) /\ Holds(d, p) => c = d

\* A kernel stack is used by one CPU at a time, the slot of a process is not
\* freed or reused while a CPU is still on its stack, and a process is RUNNING
\* exactly while a CPU executes it.
StackExclusive == \A p \in Proc :
    /\ \A c, d \in Cpu : cproc[c] = p /\ cproc[d] = p => c = d
    /\ \A c \in Cpu : cproc[c] = p => state[p] \notin {"UNUSED", "USED"}
    /\ state[p] = "RUNNING" <=>
          \E c \in Cpu : cproc[c] = p /\ pc[c] \in {"entered", "run", "fork"}

\* p->lock is handed over with the context switch: whoever is on the other side
\* of swtch() holds it (the assertions of scheduler() and sched()), and nobody
\* keeps it otherwise.
LockHandover == \A p \in Proc, c \in Cpu :
    lock[p] = c <=> \/ pc[c] \in {"entered", "back"} /\ cproc[c] = p
                    \/ pc[c] = "fork" /\ local[c] = p

\* push_queue() never panics with "queue overflow": the ring of NPROC entries
\* is large enough for every interleaving of wakers.
NoOverflow == Len(task_queue) <= Cardinality(Proc)

\* The run queue is well formed under every race of wakers, fork(), exit() and
\* the scheduler: its state is typed, it fits in the ring that push_queue() has
\* for it, and it holds no process twice.
QueueSound == TypeOK /\ NoOverflow /\ NoDuplicates

\* Every process that is RUNNABLE gets a CPU.
NoStarvation == \A p \in Proc : state[p] = "RUNNABLE" ~> state[p] = "RUNNING"

\* The scheduler implements the life cycle of ProcLife.
Life == INSTANCE ProcLife WITH NumCpu <- Cardinality(Cpu)
ImplementsLife == Life!Spec
=============================================================================
