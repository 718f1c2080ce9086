------------------------------- MODULE Signal -------------------------------
(***************************************************************************)
(* Signal delivery: os/signal/ksignal.c with the trap path that drives it  *)
(* (usertrap() and usertrapret() of os/trap.c), for one process T and any  *)
(* number of other processes that send it signals.                         *)
(*                                                                         *)
(* sys_sigkill() holds T's p->lock throughout, so at most one sender is    *)
(* inside it; `snd' is that sender.  do_signal() and usertrapret() touch   *)
(* sigpending and need_stop WITHOUT p->lock, so with MultiCore their loads *)
(* and stores interleave with the sender's.  An update x |= b or x &= ~b   *)
(* of the shared word is a load followed by a store, and the store writes  *)
(* either the word derived from the value loaded before (another CPU wrote *)
(* in between) or the one derived from the current value.                  *)
(*                                                                         *)
(* Without MultiCore (`make run') a sender only runs while T is off the    *)
(* CPU: the kernel is not preempted, T gives up the CPU only in yield(),   *)
(* sleep() and the stop of usertrapret().                                  *)
(***************************************************************************)
EXTENDS Integers, Sequences, FiniteSets, SequencesExt

CONSTANTS Signals,   \* the signal numbers in use, a subset of SIGMIN .. SIGMAX
          MultiCore, \* TRUE: T and its senders run on different CPUs
          Catch,     \* the signals whose action the program changes
          Masks,     \* the signal sets the program passes to the kernel
          Unblock,   \* TRUE: the program's handlers unblock signals too
          MaxFrames  \* how many signal frames fit on the user stack

SIGKILL == 4
SIGTERM == 5
SIGCHLD == 6
SIGSTOP == 7
SIGCONT == 8

ASSUME SignalAssumption ==
    /\ Signals \subseteq 1 .. 10 /\ Signals # {}
    /\ MultiCore \in BOOLEAN
    /\ Catch \subseteq Signals \ {SIGKILL, SIGSTOP}
    /\ Masks \subseteq SUBSET Signals
    /\ Unblock \in BOOLEAN
    /\ MaxFrames \in Nat

VARIABLES
    state,      \* p->state of T
    pc,         \* where T is, see PCs
    signo, tmp, \* the loop variable of do_signal(), the word it loaded
    sigpending, sigmask, sa, killed, need_stop, \* T's struct proc and ksignal
    exit_code,  \* the argument of exit(), p->exit_code once T is a ZOMBIE
    frames,     \* the signal frames on T's user stack, oldest first
    image,      \* which program T executes, counting exec() calls
    snd,        \* the sender inside sys_sigkill()
    \* History of what was asked for, to state the properties with:
    owed,       \* signals sent and neither taken nor cancelled by SIGCONT
    last,       \* the last of SIGSTOP and SIGCONT that was sent, 0 for none
    masks       \* the mask the program asked for, per handler nesting level

proc == <<state, pc, signo, tmp>>
ksignal == <<sigpending, sigmask, sa, killed, need_stop>>
user == <<exit_code, frames, image>>
history == <<owed, last, masks>>
vars == <<proc, ksignal, user, snd, history>>

\* "user"     user mode
\* "alive"    after the trap is handled, before the first iskilled() test
\* "tick"     the same, after a timer interrupt: yield() follows
\* "scan"     do_signal(), at the test of signo
\* "store"    ... before the store of sigdelset()
\* "act"      ... after it
\* "cont", "cstore"  ... SIGCONT: at the test for a pending SIGSTOP, and before
\*            the store that removes it
\* "alive2"   the second iskilled() test
\* "ret"      usertrapret(), at the test of need_stop
\* "stop"     ... need_stop cleared, before acquire(&p->lock)
\* "loop"     the loop of a blocking system call that looks at p->killed
\*            (wait, sleep)
\* "sleep"    ... after its iskilled() test, before sleep()
\* "read"     the loop of user_console_read(), which does not look at it
\* "exit"     exit(), before it takes p->lock for the last time
PCs == {"user", "alive", "tick", "scan", "store", "act", "cont", "cstore",
        "alive2", "ret", "stop", "loop", "sleep", "read", "exit"}

\* The handler functions of the program that runs as the i-th image.
Handler(i) == IF i = 0 THEN "H0" ELSE "H1"

Dispositions == {"DFL", "IGN", "H0", "H1"}

Idle == [pc |-> "idle", signo |-> 0, tmp |-> {}]

TypeOK ==
    /\ state \in {"RUNNING", "RUNNABLE", "SLEEPING", "STOPPED", "ZOMBIE"}
    /\ pc \in PCs /\ signo \in Signals /\ tmp \subseteq Signals
    /\ sigpending \subseteq Signals /\ sigmask \subseteq Signals
    /\ sa \in [Signals -> [h : Dispositions, mask : SUBSET Signals]]
    /\ killed \in -20 .. 0 /\ need_stop \in BOOLEAN /\ exit_code \in -20 .. 0
    /\ frames \in Seq([signo : Signals, mask : SUBSET Signals])
    /\ Len(frames) <= MaxFrames
    /\ image \in 0 .. 1
    /\ snd \in [pc : {"idle", "store", "act", "cont", "cstore"},
                signo : Signals \cup {0}, tmp : SUBSET Signals]
    /\ owed \subseteq Signals /\ last \in {0, SIGSTOP, SIGCONT}
    /\ masks \in Seq(SUBSET Signals) /\ Len(masks) = Len(frames) + 1

First == CHOOSE s \in Signals : \A t \in Signals : s <= t
Final == CHOOSE s \in Signals : \A t \in Signals : t <= s
Following(s) == CHOOSE t \in Signals : t > s /\ \A u \in Signals : u > s => t <= u

\* siginit(), then the first return to user mode.
Init ==
    /\ state = "RUNNING" /\ pc = "user" /\ signo = First /\ tmp = {}
    /\ sigpending = {} /\ sigmask = {} /\ killed = 0 /\ need_stop = FALSE
    /\ sa = [s \in Signals |-> [h |-> "DFL", mask |-> {}]]
    /\ exit_code = 0 /\ frames = <<>> /\ image = 0
    /\ snd = Idle
    /\ owed = {} /\ last = 0 /\ masks = <<{}>>

At(label) == state = "RUNNING" /\ pc = label
LockFree == snd = Idle  \* acquire(&p->lock) by T succeeds

-----------------------------------------------------------------------------
(* Traps from user mode *)

Goto(label) == pc' = label /\ UNCHANGED <<state, signo, tmp>>

\* The call of exit(code).  iskilled() has released p->lock by now, and exit()
\* takes it again only after it has dealt with the children and the parent.
ExitWith(code) ==
    /\ Goto("exit") /\ exit_code' = code
    /\ UNCHANGED <<ksignal, frames, image, snd, history>>

\* The end of exit(): p->exit_code and ZOMBIE, under p->lock.
ExitDead ==
    /\ At("exit") /\ LockFree
    /\ state' = "ZOMBIE"
    /\ UNCHANGED <<pc, signo, tmp, ksignal, user, snd, history>>

\* A timer or device interrupt: nothing happens before the iskilled() test.
Interrupt ==
    /\ At("user")
    /\ \E label \in {"alive", "tick"} : Goto(label)
    /\ UNCHANGED <<ksignal, user, snd, history>>

\* handle_pgfault() on a bad address, unknown_trap(): setkilled(p, -2 or -3).
PageFault ==
    /\ At("user") /\ LockFree
    /\ killed' \in {-2, -3}
    /\ Goto("alive")
    /\ UNCHANGED <<sigpending, sigmask, sa, need_stop, user, snd, history>>

\* A system call of a killed process: exit(killed) before it starts.
EcallKilled == At("user") /\ LockFree /\ killed # 0 /\ ExitWith(killed)

\* Mutant: usertrap() does not test iskilled() before syscall().
EcallAnyway == At("user") /\ LockFree

\* Any other system call gets as far as syscall().
Ecall == At("user") /\ LockFree /\ killed = 0

\* sys_sigaction() with a handler, SIG_IGN or SIG_DFL.  SIGKILL and SIGSTOP are
\* refused with -EINVAL, which changes nothing.
SysSigaction ==
    /\ Ecall
    /\ \E s \in Catch, m \in Masks, h \in {"DFL", "IGN", Handler(image)} :
          sa' = [sa EXCEPT ![s] = [h |-> h, mask |-> m]]
    /\ Goto("alive")
    /\ UNCHANGED <<sigpending, sigmask, killed, need_stop, user, snd, history>>

\* sys_sigprocmask(): SIG_BLOCK, SIG_UNBLOCK and SIG_SETMASK.  Which of them the
\* handlers of the program use is up to the program.
SysSigprocmask ==
    /\ Ecall
    /\ \E set \in Masks :
         \/ sigmask' = sigmask \cup set
         \/ (Unblock \/ frames = <<>>) /\ sigmask' = sigmask \ set
         \/ (Unblock \/ frames = <<>>) /\ sigmask' = set
    /\ masks' = [masks EXCEPT ![Len(masks)] = sigmask']
    /\ Goto("alive")
    /\ UNCHANGED <<sigpending, sa, killed, need_stop, user, snd,
                   owed, last>>

\* Mutant: sys_sigreturn() forgets the signal mask.
SysSigreturnNoMask ==
    /\ Ecall
    /\ frames # <<>>
    /\ frames' = Front(frames) /\ masks' = Front(masks)
    /\ Goto("alive")
    /\ UNCHANGED <<sigmask, sigpending, sa, killed, need_stop, exit_code, image,
                   snd, owed, last>>

\* sys_sigreturn(), called by the restorer when the handler returns.
SysSigreturn ==
    /\ Ecall
    /\ frames # <<>>
    /\ sigmask' = Last(frames).mask
    /\ frames' = Front(frames) /\ masks' = Front(masks)
    /\ Goto("alive")
    /\ UNCHANGED <<sigpending, sa, killed, need_stop, exit_code, image, snd,
                   owed, last>>

\* sys_sigkill(getpid(), s): T holds its own lock, so this is one step.
SysSigkillSelf == \E s \in Signals :
    /\ Ecall
    /\ killed' = IF s = SIGKILL THEN -10 - s ELSE killed
    /\ sigpending' = IF s = SIGKILL THEN sigpending
                     ELSE (sigpending \ (IF s = SIGCONT THEN {SIGSTOP} ELSE {}))
                             \cup {s}
    /\ owed' = IF s = SIGKILL THEN owed
               ELSE (owed \ (IF s = SIGCONT THEN {SIGSTOP} ELSE {})) \cup {s}
    /\ need_stop' = (s # SIGCONT /\ need_stop)
    /\ last' = IF s \in {SIGSTOP, SIGCONT} THEN s ELSE last
    /\ Goto("alive")
    /\ UNCHANGED <<sigmask, sa, user, snd, masks>>

\* exec(): a new user stack, and siginit_exec().
SysExec ==
    /\ Ecall
    /\ image = 0 /\ image' = 1
    /\ sa' = [s \in Signals |->
                [h |-> IF sa[s].h = "IGN" THEN "IGN" ELSE "DFL", mask |-> {}]]
    /\ frames' = <<>> /\ masks' = <<sigmask>>
    /\ Goto("alive")
    /\ UNCHANGED <<sigpending, sigmask, killed, need_stop, exit_code, snd,
                   owed, last>>

\* Mutant: siginit_fork() copies the pending signals to the child.
SysForkPending ==
    /\ Ecall
    /\ need_stop' = FALSE
    /\ state' = "RUNNABLE" /\ pc' = "ret"
    /\ owed' = {} /\ last' = 0
    /\ UNCHANGED <<sigpending, signo, tmp, sigmask, sa, killed, user, snd, masks>>

\* fork(): from here on T is the child, with a copy of the parent's memory and
\* siginit_fork().  Its first step is first_sched_ret(), then usertrapret().
SysFork ==
    /\ Ecall
    /\ sigpending' = {} /\ need_stop' = FALSE
    /\ state' = "RUNNABLE" /\ pc' = "ret"
    /\ owed' = {} /\ last' = 0
    /\ UNCHANGED <<signo, tmp, sigmask, sa, killed, user, snd, masks>>

\* wait() or sys_sleep().
SysBlock == Ecall /\ Goto("loop") /\ UNCHANGED <<ksignal, user, snd, history>>

\* sys_read() of the console.
SysRead == Ecall /\ Goto("read") /\ UNCHANGED <<ksignal, user, snd, history>>

\* sys_yield()
SysYield ==
    /\ Ecall
    /\ state' = "RUNNABLE" /\ pc' = "alive"
    /\ UNCHANGED <<signo, tmp, ksignal, user, snd, history>>

\* sys_exit()
SysExit == Ecall /\ ExitWith(0)

-----------------------------------------------------------------------------
(* The loop of a blocking system call: leave when killed or when the event  *)
(* has happened, else sleep() and look again.                               *)

BlockTest ==
    /\ At("loop")
    /\ \/ Goto("alive")
       \/ killed = 0 /\ Goto("sleep")
    /\ UNCHANGED <<ksignal, user, snd, history>>

Sleep ==
    /\ At("sleep") /\ LockFree
    /\ state' = "SLEEPING" /\ pc' = "loop"
    /\ UNCHANGED <<signo, tmp, ksignal, user, snd, history>>

\* user_console_read(): a line has arrived, or sleep() until one has, killed or
\* not.
ReadTest ==
    /\ At("read")
    /\ \/ Goto("alive")
       \/ LockFree /\ state' = "SLEEPING" /\ UNCHANGED <<pc, signo, tmp>>
    /\ UNCHANGED <<ksignal, user, snd, history>>

\* wakeup() by whoever makes the event happen.
Wakeup ==
    /\ state = "SLEEPING" /\ LockFree
    /\ state' = "RUNNABLE"
    /\ UNCHANGED <<pc, signo, tmp, ksignal, user, snd, history>>

\* scheduler() resumes T where it left off.
Dispatch ==
    /\ state = "RUNNABLE" /\ LockFree
    /\ state' = "RUNNING"
    /\ UNCHANGED <<pc, signo, tmp, ksignal, user, snd, history>>

-----------------------------------------------------------------------------
(* The way back to user mode *)

\* "are we still alive?"  A timer interrupt yields the CPU here.
Alive ==
    /\ \E label \in {"alive", "tick"} : At(label)
    /\ LockFree
    /\ \/ killed # 0 /\ ExitWith(killed)
       \/ /\ killed = 0
          /\ state' = IF pc = "tick" THEN "RUNNABLE" ELSE "RUNNING"
          /\ pc' = "scan" /\ signo' = First
          /\ UNCHANGED <<tmp, ksignal, user, snd, history>>

\* Mutant: the loop ends before SIGMAX.
ContinueShort ==
    /\ IF signo = Final \/ Following(signo) = Final
       THEN pc' = "alive2" /\ signo' = signo
       ELSE pc' = "scan" /\ signo' = Following(signo)
    /\ UNCHANGED <<state, tmp>>

\* continue: on to the next signal, or out of the loop.
Continue ==
    /\ IF signo = Final THEN pc' = "alive2" /\ signo' = signo
                        ELSE pc' = "scan" /\ signo' = Following(signo)
    /\ UNCHANGED <<state, tmp>>

\* SIGKILL, SIGSTOP and SIGCONT are handled before the mask is looked at.
Unblockable == {SIGKILL, SIGSTOP, SIGCONT}

\* Not pending, or blocked: continue.
ScanSkip ==
    /\ At("scan")
    /\ signo \notin sigpending \/ signo \in sigmask \ Unblockable
    /\ Continue
    /\ UNCHANGED <<ksignal, user, snd, history>>

\* Pending and deliverable: sigdelset() loads the word ...
ScanTake ==
    /\ At("scan")
    /\ signo \in sigpending /\ signo \notin sigmask \ Unblockable
    /\ pc' = "store" /\ tmp' = sigpending
    /\ UNCHANGED <<state, signo, ksignal, user, snd, history>>

\* ... and stores it without the signal.
ScanStore ==
    /\ At("store")
    /\ \E word \in {tmp, sigpending} : sigpending' = word \ {signo}
    /\ owed' = owed \ {signo}
    /\ pc' = "act" /\ tmp' = {}
    /\ UNCHANGED <<state, signo, sigmask, sa, killed, need_stop, user, snd,
                   last, masks>>

\* SIGSTOP only leaves a note for usertrapret().
ActStop ==
    /\ At("act") /\ signo = SIGSTOP
    /\ need_stop' = TRUE
    /\ Continue
    /\ UNCHANGED <<sigpending, sigmask, sa, killed, user, snd, history>>

\* SIGCONT takes the note back, and then looks for a pending SIGSTOP.
ActCont ==
    /\ At("act") /\ signo = SIGCONT
    /\ need_stop' = FALSE
    /\ Goto("cont")
    /\ UNCHANGED <<sigpending, sigmask, sa, killed, user, snd, history>>

ContTest ==
    /\ At("cont")
    /\ IF SIGSTOP \in sigpending
       THEN pc' = "cstore" /\ tmp' = sigpending /\ UNCHANGED <<state, signo>>
       ELSE Continue
    /\ UNCHANGED <<ksignal, user, snd, history>>

\* Ordinary signals: a handler, or the default action.
Ordinary == At("act") /\ signo \notin Unblockable

\* SIG_IGN, or SIG_DFL for SIGCHLD.
ActIgnore ==
    /\ Ordinary
    /\ sa[signo].h = "IGN" \/ (signo = SIGCHLD /\ sa[signo].h = "DFL")
    /\ Continue
    /\ UNCHANGED <<ksignal, user, snd, history>>

\* SIG_DFL: setkilled(p, -10 - signo).
ActDefault ==
    /\ Ordinary /\ LockFree
    /\ signo # SIGCHLD /\ sa[signo].h = "DFL"
    /\ killed' = -10 - signo
    /\ Continue
    /\ UNCHANGED <<sigpending, sigmask, sa, need_stop, user, snd, history>>

Caught == Ordinary /\ sa[signo].h \notin {"DFL", "IGN"}

\* The frame does not fit on the user stack: copy_to_user() fails and the
\* signal is dropped.
ActNoStack ==
    /\ Caught
    /\ Len(frames) = MaxFrames
    /\ Continue
    /\ UNCHANGED <<ksignal, user, snd, history>>

\* Mutant: the handler runs with only sa_mask added.
BlockedInHandlerNoSelf(s) == sigmask \cup sa[s].mask

\* What is blocked while the handler of s runs.
BlockedInHandler(s) == sigmask \cup sa[s].mask \cup {s}

\* Push the frame, block, and enter the handler: one signal per pass.
ActHandler ==
    /\ Caught
    /\ Len(frames) < MaxFrames
    /\ frames' = Append(frames, [signo |-> signo, mask |-> sigmask])
    /\ sigmask' = BlockedInHandler(signo)
    /\ masks' = Append(masks, BlockedInHandler(signo))
    /\ Goto("alive2")
    /\ UNCHANGED <<sigpending, sa, killed, need_stop, exit_code, image, snd,
                   owed, last>>

\* The store of SIGCONT's sigdelset(SIGSTOP).
ContStore ==
    /\ At("cstore")
    /\ \E word \in {tmp, sigpending} : sigpending' = word \ {SIGSTOP}
    /\ owed' = owed \ {SIGSTOP}
    /\ IF signo = Final THEN pc' = "alive2" /\ signo' = signo
                        ELSE pc' = "scan" /\ signo' = Following(signo)
    /\ tmp' = {}
    /\ UNCHANGED <<state, sigmask, sa, killed, need_stop, user, snd,
                   last, masks>>

\* "are we still alive? pending signals may kill us."
Alive2 ==
    /\ At("alive2") /\ LockFree
    /\ \/ killed # 0 /\ ExitWith(killed)
       \/ killed = 0 /\ Goto("ret") /\ UNCHANGED <<ksignal, user, snd, history>>

\* usertrapret() tests and clears need_stop without the lock ...
ReturnTest ==
    /\ At("ret")
    /\ IF need_stop THEN Goto("stop") ELSE Goto("user")
    /\ need_stop' = FALSE
    /\ UNCHANGED <<sigpending, sigmask, sa, killed, user, snd, history>>

\* ... and then takes it to stop.  A resumed process goes on to user mode.
Stop ==
    /\ At("stop") /\ LockFree
    /\ state' = "STOPPED" /\ pc' = "user"
    /\ UNCHANGED <<signo, tmp, ksignal, user, snd, history>>

-----------------------------------------------------------------------------
(* sys_sigkill() called by another process, holding T's p->lock *)

\* findByPid() locks T, siginfo is filled in, sigaddset() loads the word.  (What
\* a signal to a ZOMBIE changes, nobody reads any more.)
SendStart ==
    /\ LockFree /\ state # "ZOMBIE"
    /\ MultiCore \/ state # "RUNNING"
    /\ \E s \in Signals :
         snd' = [pc |-> IF s = SIGKILL THEN "act" ELSE "store", signo |-> s,
                 tmp |-> sigpending]
    /\ UNCHANGED <<proc, ksignal, user, history>>

\* sigaddset() stores the word with the signal.
SendStore ==
    /\ snd.pc = "store"
    /\ \E word \in {snd.tmp, sigpending} : sigpending' = word \cup {snd.signo}
    /\ owed' = owed \cup {snd.signo}
    /\ snd' = [snd EXCEPT !.pc = "act", !.tmp = {}]
    /\ UNCHANGED <<proc, sigmask, sa, killed, need_stop, user,
                   last, masks>>

\* The signals whose sender pulls T out of sleep().
Waking == {SIGKILL, SIGSTOP, SIGCHLD}

\* Mutant: SIGKILL leaves a sleeping process alone.
WokenNoKill(s) == state = "SLEEPING" /\ s \in {SIGSTOP, SIGCHLD}

\* T is SLEEPING and becomes RUNNABLE.
Woken(s) == state = "SLEEPING" /\ s \in Waking

\* Mutant: SIGCONT leaves a stopped process alone.
ContinuedNever(s) == FALSE

\* T is STOPPED and becomes RUNNABLE.
Continued(s) == state = "STOPPED" /\ s = SIGCONT

\* The rest, up to release(&p->lock); SIGCONT still has to cancel SIGSTOP.
SendAct ==
    /\ snd.pc = "act"
    /\ state' = IF Woken(snd.signo) \/ Continued(snd.signo)
                THEN "RUNNABLE" ELSE state
    /\ killed' = IF snd.signo = SIGKILL THEN -10 - SIGKILL ELSE killed
    /\ need_stop' = (snd.signo # SIGCONT /\ need_stop)
    /\ snd' = IF snd.signo = SIGCONT THEN [snd EXCEPT !.pc = "cont"] ELSE Idle
    /\ last' = IF snd.signo \in {SIGSTOP, SIGCONT} THEN snd.signo ELSE last
    /\ UNCHANGED <<pc, signo, tmp, sigpending, sigmask, sa, user, owed, masks>>

SendContTest ==
    /\ snd.pc = "cont"
    /\ snd' = IF SIGSTOP \in sigpending
              THEN [snd EXCEPT !.pc = "cstore", !.tmp = sigpending] ELSE Idle
    /\ UNCHANGED <<proc, ksignal, user, history>>

SendContStore ==
    /\ snd.pc = "cstore"
    /\ \E word \in {snd.tmp, sigpending} : sigpending' = word \ {SIGSTOP}
    /\ owed' = owed \ {SIGSTOP}
    /\ snd' = Idle
    /\ UNCHANGED <<proc, sigmask, sa, killed, need_stop, user,
                   last, masks>>

-----------------------------------------------------------------------------
\* What T does in user mode; nothing of this is bound to happen.
Program == \/ PageFault \/ SysSigaction \/ SysSigprocmask \/ SysSigreturn
           \/ SysSigkillSelf \/ SysExec \/ SysFork \/ SysBlock
           \/ SysRead \/ SysYield \/ SysExit

\* What T does in the kernel.
Kernel == \/ EcallKilled \/ ExitDead \/ BlockTest \/ Sleep \/ ReadTest \/ Alive
          \/ ScanSkip \/ ScanTake \/ ScanStore
          \/ ActStop \/ ActCont \/ ContTest \/ ContStore
          \/ ActIgnore \/ ActDefault \/ ActNoStack \/ ActHandler
          \/ Alive2 \/ ReturnTest \/ Stop

SenderGoesOn == SendStore \/ SendAct \/ SendContTest \/ SendContStore

\* T is gone until wait() frees its slot.
Gone == state = "ZOMBIE" /\ UNCHANGED vars

Next == \/ Interrupt \/ Program \/ Kernel \/ Dispatch \/ Wakeup
        \/ SendStart \/ SenderGoesOn \/ Gone

Spec == Init /\ [][Next]_vars

\* The kernel path and the sender's critical section always go on; a RUNNABLE
\* process is scheduled (Sched!NoStarvation) even if senders keep taking its
\* lock; a process in user mode is interrupted again and again by the timer.
\* Nothing is assumed about signals, wakeups or the program.
Fairness == /\ SF_vars(Kernel) /\ SF_vars(Dispatch) /\ SF_vars(Interrupt)
            /\ WF_vars(SenderGoesOn)

FairSpec == Spec /\ Fairness

-----------------------------------------------------------------------------
(* Properties *)

\* A process that SIGCONT was sent to after the last SIGSTOP is not left
\* stopped: neither the flag need_stop nor the STOPPED state outlives SIGCONT.
ContResumes == state = "STOPPED" /\ LockFree => last = SIGSTOP

\* The word sigpending holds exactly the signals sent and not yet taken: none
\* is lost, and none is delivered twice.
PendingExact == sigpending = owed

\* Nested handlers return to the signal mask they interrupted: the kernel's mask
\* is the one that the program asked for at the present nesting level.
MaskRestored == sigmask = Last(masks)

\* As long as handlers do not unblock signals, no handler is entered again
\* before it has returned, however deep other signals nest on top of it.
NoReentry == Unblock \/ \A i, j \in DOMAIN frames :
                           frames[i].signo = frames[j].signo => i = j

\* After exec() no handler address of the old program can be called.
HandlersOfImage ==
    \A s \in Signals : sa[s].h \in {"DFL", "IGN", Handler(image)}

\* A process that has been killed dies of it: it neither starts a system call
\* nor exits of its own accord in between, and the code of the last reason to
\* die is the one that its parent sees.  With several CPUs a SIGKILL may come
\* too late for that, when T is already on its way out: from between the last
\* iskilled() test and the store of the exit code.
ExitReason == state = "ZOMBIE" =>
    \/ exit_code = killed
    \/ MultiCore /\ killed = -10 - SIGKILL

\* The signal state of a process is its own, whatever nests, forks and execs:
\* typed, with the mask of the present nesting level (struct ksignal.mask), the
\* handlers of the program it executes (ksignal.sa), and no handler entered
\* again by its own signal; and what it exits with is what killed it.
StateSound == TypeOK /\ MaskRestored /\ HandlersOfImage /\ NoReentry /\ ExitReason

\* T sleeps until there is console input.
Reading == state = "SLEEPING" /\ pc = "read"

\* A process that is SIGKILLed, or faults, dies wherever it is: in user mode, on
\* its way through the kernel, or asleep in wait() or sys_sleep(); only SIGSTOP
\* and the wait for console input, which do not look at p->killed, hold it back,
\* and only as long as they last.
KilledDies == killed # 0 ~> state \in {"ZOMBIE", "STOPPED"} \/ Reading

\* A pending signal that is not blocked is taken by T, unless T blocks it,
\* sleeps, is stopped or dies first: no signal starves behind others, and
\* SIGSTOP and SIGCONT are taken whatever the mask says.
Delivered == \A s \in Signals \ {SIGKILL} :
    LET blocked == s \in sigmask \ {SIGSTOP, SIGCONT}
    IN  s \in sigpending /\ ~blocked
           ~> \/ s \notin sigpending \/ blocked
              \/ state \in {"SLEEPING", "STOPPED", "ZOMBIE"}

-----------------------------------------------------------------------------
(* What the documents say and the code does not do *)

\* README.md of the repository, checkpoint 2: SIGKILL ends the process, here one
\* that reads from the console.
KillEndsReader == killed = -10 - SIGKILL /\ Reading ~> state = "ZOMBIE"

\* The same of one that SIGSTOP has stopped.
KillEndsStopped == killed = -10 - SIGKILL /\ state = "STOPPED" ~> state = "ZOMBIE"

=============================================================================
