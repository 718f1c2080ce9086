-------------------------------- MODULE Proc --------------------------------
(***************************************************************************)
(* Families of processes: fork(), exit(), wait() and kill() of os/proc.c,  *)
(* and the two ways they use sys_sigkill() (SIGKILL from a program,        *)
(* SIGCHLD from exit() and kill()).  Scheduling is module Sched: here      *)
(* RUNNABLE stands for RUNNABLE and RUNNING, and every process that is not *)
(* asleep may take the next step (several CPUs).                           *)
(*                                                                         *)
(* wait_lock is held from step to step.  So is p->lock where the code      *)
(* takes a second p->lock under it: np->lock in fork(), the victim's lock  *)
(* in kill().  A loop that locks the slots one by one while it holds       *)
(* wait_lock is one step, taken when none of the locks is held: parents    *)
(* and zombies only change under wait_lock.                                *)
(***************************************************************************)
EXTENDS Integers, FiniteSets, FiniteSetsExt

CONSTANTS NPROC,    \* the size of the process table
          MaxPid,   \* bound on the pids given out
          Calls     \* the system calls that the program in each slot may make

ASSUME ProcAssumption ==
    /\ NPROC \in Nat \ {0} /\ MaxPid \in Nat \ {0}
    /\ Calls \in [0 .. NPROC - 1 -> SUBSET {"fork", "wait", "exit", "kill", "sigkill"}]

Slot == 0 .. NPROC - 1
None == -1        \* NULL, and no lock holder
InitProc == 0     \* load_init_app() takes the first slot and pid 1

VARIABLES
    state, pid, parent, killed, \* struct proc
    plock,      \* the process that holds a slot's p->lock between steps
    wait_lock,  \* the process that holds wait_lock
    PID,        \* the next pid of allocpid()
    pc,         \* where a process is, see PCs
    want,       \* the pid argument of wait(), 0 for any child
    other,      \* the slot a process works on: np, parent_proc, the victim
    ppid,       \* the pid that SIGCHLD is sent to
    index,      \* the loop variable of allocproc(), and of findByPid() in kill()
    panicked    \* the argument of panic(), or "no"

locals == <<want, other, ppid, index>>
vars == <<state, pid, parent, killed, plock, wait_lock, PID, pc, locals,
          panicked>>

\* "user"   user mode
\* "alloc"  fork(), in the loop of allocproc()
\* "fork"   np allocated, np->lock held
\* "wait"   wait(), before acquire(&wait_lock)
\* "scan"   wait_lock held, at the top of the loop
\* "sleep"  nothing to reap: about to sleep(p, &wait_lock)
\* "exit"   exit(), parent_proc read, before acquire(&wait_lock)
\* "notify" wait_lock released to send SIGCHLD
\* "last"   before the last part of exit(), without wait_lock
\* "dead"   the parent is woken, wait_lock held, not yet ZOMBIE
\* "kill"   kill(), victim locked, in findByPid() of its parent
PCs == {"user", "alloc", "fork", "wait", "scan", "sleep", "exit", "notify",
        "last", "dead", "kill"}

TypeOK ==
    /\ state \in [Slot -> {"UNUSED", "USED", "RUNNABLE", "SLEEPING", "ZOMBIE"}]
    /\ pid \in [Slot -> -1 .. MaxPid] /\ PID \in 1 .. MaxPid + 1
    /\ parent \in [Slot -> Slot \cup {None}]
    /\ killed \in [Slot -> BOOLEAN]
    /\ plock \in [Slot -> Slot \cup {None}] /\ wait_lock \in Slot \cup {None}
    /\ pc \in [Slot -> PCs]
    /\ want \in [Slot -> 0 .. MaxPid]
    /\ other \in [Slot -> Slot \cup {None}]
    /\ ppid \in [Slot -> -1 .. MaxPid] /\ index \in [Slot -> Slot]
    /\ panicked \in {"no", "init process exited", "already acquired"}

\* proc_init() zeroes the slots; load_init_app() starts init.
Init ==
    /\ state = [p \in Slot |-> IF p = InitProc THEN "RUNNABLE" ELSE "UNUSED"]
    /\ pid = [p \in Slot |-> IF p = InitProc THEN 1 ELSE 0]
    /\ PID = 2
    /\ parent = [p \in Slot |-> None]
    /\ killed = [p \in Slot |-> FALSE]
    /\ plock = [p \in Slot |-> None] /\ wait_lock = None
    /\ pc = [p \in Slot |-> "user"]
    /\ want = [p \in Slot |-> 0] /\ other = [p \in Slot |-> None]
    /\ ppid = [p \in Slot |-> 0] /\ index = [p \in Slot |-> 0]
    /\ panicked = "no"

\* p executes at the given place.
At(p, label) == panicked = "no" /\ state[p] = "RUNNABLE" /\ pc[p] = label

\* The program of p makes a system call.
Calling(p, call) == At(p, "user") /\ call \in Calls[p]

Free(S) == \A p \in S : plock[p] = None
Children(p) == {c \in Slot : parent[c] = p}

\* state after wakeup(): the sleepers among S become RUNNABLE.
Woken(S) == [p \in Slot |-> IF p \in S /\ state[p] = "SLEEPING"
                            THEN "RUNNABLE" ELSE state[p]]

\* The slot that a scan for a pid stops at: UNUSED slots have a pid too, 0
\* before their first use and -1 after it.
Found(x) == LET S == {p \in Slot : pid[p] = x}
            IN  IF S = {} THEN None ELSE Min(S)

-----------------------------------------------------------------------------
(* fork() *)

Fork(p) ==
    /\ Calling(p, "fork") /\ PID <= MaxPid
    /\ pc' = [pc EXCEPT ![p] = "alloc"]
    /\ UNCHANGED <<state, pid, parent, killed, plock, wait_lock, PID, locals,
                   panicked>>

\* One iteration of allocproc() and, in the slot it finds, mm_create().  The lock of
\* that slot stays held, and np->killed is not touched; but without memory for
\* mm_create() the slot is freed again at once.  No slot: fork() returns -ENOMEM.
AllocProc(p) ==
    LET i == index[p]
        found == state[i] = "UNUSED" /\ PID <= MaxPid
        done == found \/ i = NPROC - 1
    IN  /\ At(p, "alloc") /\ Free({i})
        /\ \/ /\ found
              /\ state' = [state EXCEPT ![i] = "USED"]
              /\ pid' = [pid EXCEPT ![i] = PID]
              /\ plock' = [plock EXCEPT ![i] = p]
              /\ other' = [other EXCEPT ![p] = i]
              /\ pc' = [pc EXCEPT ![p] = "fork"]
              /\ UNCHANGED killed
           \/ /\ found
              /\ pid' = [pid EXCEPT ![i] = -1]
              /\ killed' = [killed EXCEPT ![i] = FALSE]
              /\ pc' = [pc EXCEPT ![p] = "user"]
              /\ UNCHANGED <<state, plock, other>>
           \/ /\ ~found
              /\ pc' = [pc EXCEPT ![p] = IF done THEN "user" ELSE "alloc"]
              /\ UNCHANGED <<state, pid, killed, plock, other>>
        /\ parent' = [parent EXCEPT ![i] = IF found THEN None ELSE @]
        /\ PID' = IF found THEN PID + 1 ELSE PID
        /\ index' = [index EXCEPT ![p] = IF done THEN 0 ELSE i + 1]
        /\ UNCHANGED <<wait_lock, want, ppid, panicked>>

\* The child becomes RUNNABLE, under np->lock and p->lock.
ForkDone(p) ==
    LET np == other[p]
    IN  /\ At(p, "fork") /\ Free({p})
        /\ state' = [state EXCEPT ![np] = "RUNNABLE"]
        /\ parent' = [parent EXCEPT ![np] = p]
        /\ plock' = [plock EXCEPT ![np] = None]
        /\ pc' = [pc EXCEPT ![p] = "user", ![np] = "user"]
        /\ other' = [other EXCEPT ![p] = None]
        /\ UNCHANGED <<pid, killed, wait_lock, PID, want, ppid, index, panicked>>

\* mm_copy() has no memory: freeproc(np), after p->lock was taken and released.
ForkFail(p) ==
    LET np == other[p]
    IN  /\ At(p, "fork") /\ Free({p})
        /\ state' = [state EXCEPT ![np] = "UNUSED"]
        /\ pid' = [pid EXCEPT ![np] = -1]
        /\ killed' = [killed EXCEPT ![np] = FALSE]
        /\ plock' = [plock EXCEPT ![np] = None]
        /\ pc' = [pc EXCEPT ![p] = "user"]
        /\ other' = [other EXCEPT ![p] = None]
        /\ UNCHANGED <<parent, wait_lock, PID, want, ppid, index, panicked>>

-----------------------------------------------------------------------------
(* wait() *)

Wait(p) ==
    /\ Calling(p, "wait")
    /\ \E x \in 0 .. PID - 1 : /\ p = InitProc => x = 0
                               /\ want' = [want EXCEPT ![p] = x]
    /\ pc' = [pc EXCEPT ![p] = "wait"]
    /\ UNCHANGED <<state, pid, parent, killed, plock, wait_lock, PID, other,
                   ppid, index, panicked>>

WaitLock(p) ==
    /\ At(p, "wait") /\ wait_lock = None
    /\ wait_lock' = p
    /\ pc' = [pc EXCEPT ![p] = "scan"]
    /\ UNCHANGED <<state, pid, parent, killed, plock, PID, locals, panicked>>

\* Mutant: the loop of wait() stops before the last slot.
ReapableShort(p) == {c \in Children(p) : /\ state[c] = "ZOMBIE" /\ c < NPROC - 1
                                        /\ want[p] \in {0, pid[c]}}

\* The children that wait() would take.
Reapable(p) == {c \in Children(p) : state[c] = "ZOMBIE"
                                      /\ want[p] \in {0, pid[c]}}

\* A child has exited: freeproc(child), release(&wait_lock).
Reap(p) ==
    /\ At(p, "scan") /\ Free(Slot \ {p})
    /\ Reapable(p) # {}
    /\ LET c == Min(Reapable(p))
       IN  /\ state' = [state EXCEPT ![c] = "UNUSED"]
           /\ pid' = [pid EXCEPT ![c] = -1]
           /\ killed' = [killed EXCEPT ![c] = FALSE]
           /\ parent' = [parent EXCEPT ![c] = None]
    /\ wait_lock' = None
    /\ pc' = [pc EXCEPT ![p] = "user"] /\ want' = [want EXCEPT ![p] = 0]
    /\ UNCHANGED <<plock, PID, other, ppid, index, panicked>>

\* No children, or killed: return -ECHILD.  Otherwise sleep.
WaitNone(p) ==
    /\ At(p, "scan") /\ Free(Slot \ {p})
    /\ Reapable(p) = {}
    /\ IF Children(p) = {} \/ killed[p]
       THEN /\ wait_lock' = None
            /\ pc' = [pc EXCEPT ![p] = "user"] /\ want' = [want EXCEPT ![p] = 0]
       ELSE pc' = [pc EXCEPT ![p] = "sleep"] /\ UNCHANGED <<wait_lock, want>>
    /\ UNCHANGED <<state, pid, parent, killed, plock, PID, other, ppid, index,
                   panicked>>

\* sleep(p, &wait_lock): p->lock, then release(&wait_lock).
Sleep(p) ==
    /\ At(p, "sleep") /\ Free({p})
    /\ state' = [state EXCEPT ![p] = "SLEEPING"]
    /\ wait_lock' = None
    /\ pc' = [pc EXCEPT ![p] = "wait"]
    /\ UNCHANGED <<pid, parent, killed, plock, PID, locals, panicked>>

-----------------------------------------------------------------------------
(* exit() *)

\* exit() of the program, or of usertrap() when p was killed; parent_proc is read
\* without a lock.  init exits only when it is killed, and exit() panics then.
Exit(p) ==
    /\ Calling(p, "exit") \/ (At(p, "user") /\ killed[p])
    /\ IF p = InitProc
       THEN killed[p] /\ panicked' = "init process exited" /\ UNCHANGED <<pc, other>>
       ELSE /\ pc' = [pc EXCEPT ![p] = "exit"]
            /\ other' = [other EXCEPT ![p] = parent[p]]
            /\ UNCHANGED panicked
    /\ UNCHANGED <<state, pid, parent, killed, plock, wait_lock, PID, want, ppid,
                   index>>

\* Mutant: the children are left with their dead parent.
ReparentNone(p) ==
    /\ At(p, "exit") /\ wait_lock = None /\ Free(Slot)
    /\ state' = state /\ parent' = parent
    /\ IF Children(p) = {} /\ other[p] \notin {None, InitProc}
       THEN ppid' = [ppid EXCEPT ![p] = pid[other[p]]]
            /\ pc' = [pc EXCEPT ![p] = "notify"]
       ELSE pc' = [pc EXCEPT ![p] = "last"] /\ UNCHANGED ppid
    /\ UNCHANGED <<pid, killed, plock, wait_lock, PID, want, other, index,
                   panicked>>

\* Under wait_lock: the children go to init, which is woken if there are any;
\* if there are none SIGCHLD is due, unless the parent is init.
Reparent(p) ==
    /\ At(p, "exit") /\ wait_lock = None /\ Free(Slot)
    /\ parent' = [c \in Slot |-> IF parent[c] = p THEN InitProc ELSE parent[c]]
    /\ state' = IF Children(p) # {} THEN Woken({InitProc}) ELSE state
    /\ IF Children(p) = {} /\ other[p] \notin {None, InitProc}
       THEN ppid' = [ppid EXCEPT ![p] = pid[other[p]]]
            /\ pc' = [pc EXCEPT ![p] = "notify"]
       ELSE pc' = [pc EXCEPT ![p] = "last"] /\ UNCHANGED ppid
    /\ UNCHANGED <<pid, killed, plock, wait_lock, PID, want, other, index,
                   panicked>>

\* sys_sigkill(ppid, SIGCHLD, code), without wait_lock: wakes the addressee.
Notify(p) ==
    LET t == Found(ppid[p])
    IN  /\ At(p, "notify") /\ Free({t} \cap Slot)
        /\ state' = Woken({t})
        /\ pc' = [pc EXCEPT ![p] = "last"] /\ ppid' = [ppid EXCEPT ![p] = 0]
        /\ UNCHANGED <<pid, parent, killed, plock, wait_lock, PID, want, other,
                       index, panicked>>

\* Mutant: the parent is woken before wait_lock is taken again.
WakeParentEarly(p) ==
    /\ At(p, "last") /\ Free(Slot)
    /\ state' = Woken({parent[p]})
    /\ pc' = [pc EXCEPT ![p] = "dead"]
    /\ UNCHANGED <<wait_lock, pid, parent, killed, plock, PID, locals, panicked>>

\* acquire(&wait_lock); wakeup(p->parent), whoever that is by now ...
WakeParent(p) ==
    /\ At(p, "last") /\ wait_lock = None /\ Free(Slot)
    /\ state' = Woken({parent[p]})
    /\ wait_lock' = p
    /\ pc' = [pc EXCEPT ![p] = "dead"]
    /\ UNCHANGED <<pid, parent, killed, plock, PID, locals, panicked>>

\* ... and p is a ZOMBIE before wait_lock is released.
Dead(p) ==
    /\ At(p, "dead") /\ Free({p})
    /\ state' = [state EXCEPT ![p] = "ZOMBIE"]
    /\ wait_lock' = None
    /\ other' = [other EXCEPT ![p] = None]
    /\ pc' = [pc EXCEPT ![p] = "user"]
    /\ UNCHANGED <<pid, parent, killed, plock, PID, want, ppid, index, panicked>>

-----------------------------------------------------------------------------
(* Signals that kill *)

\* sys_sigkill(x, SIGKILL).
SysSigkill(p) == \E x \in -1 .. PID - 1 :
    LET t == Found(x)
    IN  /\ Calling(p, "sigkill")
        /\ t # None /\ Free({t})
        /\ killed' = [killed EXCEPT ![t] = TRUE]
        /\ state' = Woken({t})
        /\ UNCHANGED <<pid, parent, plock, wait_lock, PID, pc, locals, panicked>>

\* kill(x): kill the victim and keep its lock; if it has a parent, find it.
Kill(p) == \E x \in -1 .. PID - 1 :
    LET v == Found(x)
    IN  /\ Calling(p, "kill")
        /\ v # None /\ Free({v})
        /\ killed' = [killed EXCEPT ![v] = TRUE]
        /\ state' = Woken({v})
        /\ IF parent[v] = None THEN UNCHANGED <<plock, other, ppid, index, pc>>
           ELSE /\ plock' = [plock EXCEPT ![v] = p]
                /\ other' = [other EXCEPT ![p] = v]
                /\ ppid' = [ppid EXCEPT ![p] = pid[parent[v]]]
                /\ index' = [index EXCEPT ![p] = 0]
                /\ pc' = [pc EXCEPT ![p] = "kill"]
        /\ UNCHANGED <<pid, parent, wait_lock, PID, want, panicked>>

\* One iteration of findByPid() in sys_sigkill(parent->pid, SIGCHLD).  acquire()
\* panics on a lock this CPU already holds; that of the victim is one.
KillScan(p) ==
    LET i == index[p]
        v == other[p]
        done == pid[i] = ppid[p] \/ i = NPROC - 1
    IN  /\ At(p, "kill")
        /\ IF i = v
           THEN panicked' = "already acquired"
                /\ UNCHANGED <<state, plock, other, ppid, index, pc>>
           ELSE /\ Free({i}) /\ UNCHANGED panicked
                /\ state' = IF pid[i] = ppid[p] THEN Woken({i}) ELSE state
                /\ index' = [index EXCEPT ![p] = IF done THEN 0 ELSE i + 1]
                /\ pc' = [pc EXCEPT ![p] = IF done THEN "user" ELSE "kill"]
                /\ plock' = [plock EXCEPT ![v] = IF done THEN None ELSE p]
                /\ other' = [other EXCEPT ![p] = IF done THEN None ELSE v]
                /\ ppid' = [ppid EXCEPT ![p] = IF done THEN 0 ELSE @]
        /\ UNCHANGED <<pid, parent, killed, wait_lock, PID, want>>

-----------------------------------------------------------------------------
\* What a process in the kernel does next.
Kernel(p) == \/ AllocProc(p) \/ ForkDone(p) \/ ForkFail(p)
             \/ WaitLock(p) \/ Reap(p) \/ WaitNone(p) \/ Sleep(p)
             \/ Reparent(p) \/ Notify(p) \/ WakeParent(p) \/ Dead(p)
             \/ KillScan(p)

Next == \/ \E p \in Slot : \/ Fork(p) \/ Wait(p) \/ Exit(p) \/ SysSigkill(p)
                           \/ Kill(p) \/ Kernel(p)
        \/ panicked # "no" /\ UNCHANGED vars

Spec == Init /\ [][Next]_vars

\* A process in the kernel goes on (Sched!NoStarvation; spinlocks are released
\* again and again), and init returns to wait() again and again, whatever else it
\* does in between (user/src/init.c).
Fairness == /\ \A p \in Slot : SF_vars(Kernel(p))
            /\ SF_vars(Wait(InitProc))

FairSpec == Spec /\ Fairness

-----------------------------------------------------------------------------
(* Properties *)

\* Nobody is orphaned: every process but init has a parent that is alive and has
\* not yet given its children away, so that somebody can wait() for it.
ParentAlive == \A c \in Slot \ {InitProc} :
    state[c] \in {"RUNNABLE", "SLEEPING", "ZOMBIE"} =>
        /\ parent[c] # None
        /\ state[parent[c]] \in {"RUNNABLE", "SLEEPING"}
        /\ pc[parent[c]] \notin {"notify", "last", "dead"}

\* The family tree is sound while exit(), fork(), wait() and kill() of several
\* processes interleave: typed, and every process has a parent that lives.
FamilySound == TypeOK /\ ParentAlive

\* No wakeup is lost between wait() and exit(): a process does not sleep in
\* wait() while a child it waits for is a ZOMBIE.
NoLostWakeup == \A p \in Slot : state[p] = "SLEEPING" => Reapable(p) = {}

\* The slot whose lock p asks for while it holds that of another.
Awaited(p) == IF pc[p] = "fork" THEN p ELSE index[p]

\* Some processes wait for each other's locks, for ever.
Deadlocked == \E S \in SUBSET Slot :
    /\ S # {}
    /\ \A p \in S : pc[p] \in {"fork", "kill"} /\ plock[Awaited(p)] \in S \ {p}

\* Every orphan that exits is reaped by init, unless the kernel stops before: on
\* a panic(), or on the cyclic wait for locks that NoDeadlock is about.
OrphansReaped == \A c \in Slot :
    state[c] = "ZOMBIE" /\ parent[c] = InitProc
       ~> state[c] = "UNUSED" \/ panicked # "no" \/ Deadlocked

-----------------------------------------------------------------------------
(* What the documents say and the code does not do *)

\* ksignal.c:440: SIGKILL writes killed itself, "to avoid the problem of taking a
\* lock twice"; and proc.c:355 lets go of a lock "to avoid a deadlock".  But fork()
\* takes p->lock with np->lock held, and kill() the locks of all slots with the
\* victim's: nobody waits for a lock for ever?
NoDeadlock == ~Deadlocked

\* report2.md 5.3.3: the process that SIGCHLD is sent to is the parent, or one
\* that was the parent and is exiting itself.
SigchldToParent == \A p, t \in Slot :
    pc[p] = "notify" /\ pid[t] = ppid[p] /\ state[t] \in {"RUNNABLE", "SLEEPING"}
       => parent[p] = t \/ pc[t] \in {"notify", "last", "dead"}
=============================================================================
