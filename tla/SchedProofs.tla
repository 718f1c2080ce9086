---------------------------- MODULE SchedProofs ----------------------------
(***************************************************************************)
(* Proofs about module Sched, for any number of processes, CPUs and        *)
(* channels.  The argument: p->lock is held from the moment a process      *)
(* gives up its CPU until scheduler() has put it away (LockHandover), so   *)
(* whoever else can lock a process finds it off every kernel stack, and    *)
(* whoever makes it RUNNABLE is the only one to queue it.                  *)
(***************************************************************************)
EXTENDS Sched, FunctionTheorems, FiniteSetTheorems, SequenceTheorems, TLAPS

\* What a CPU's program counter says about its c->proc and its local variable.
CpuInv == \A c \in Cpu :
    /\ cproc[c] = NoProc <=> pc[c] \in {"loop", "fetched"}
    /\ local[c] = NoProc <=> pc[c] \notin {"fetched", "fork"}
    /\ pc[c] = "fork" => state[local[c]] = "USED"

IInv == /\ TypeOK
        /\ CpuInv
        /\ NoDuplicates
        /\ RunnableIsHeld
        /\ StackExclusive
        /\ LockHandover

-----------------------------------------------------------------------------
(* The run queue as a set *)

\* push_queue() adds exactly the process it is given, and keeps the entries
\* distinct if that process was not queued before.
LEMMA AppendLemma ==
    ASSUME NEW q \in Seq(Proc), NEW p \in Proc
    PROVE  /\ Append(q, p) \in Seq(Proc)
           /\ Range(Append(q, p)) = Range(q) \cup {p}
           /\ IsInjective(q) /\ p \notin Range(q) => IsInjective(Append(q, p))
<1>1. /\ Append(q, p) \in Seq(Proc)
      /\ DOMAIN Append(q, p) = 1 .. (Len(q) + 1)
      /\ DOMAIN q = 1 .. Len(q) /\ Len(q) \in Nat
      /\ \A i \in 1 .. Len(q) : Append(q, p)[i] = q[i]
      /\ Append(q, p)[Len(q) + 1] = p
  OBVIOUS
<1>2. Range(Append(q, p)) = Range(q) \cup {p}
  BY <1>1 DEF Range
<1>3. IsInjective(q) /\ p \notin Range(q) => IsInjective(Append(q, p))
  BY <1>1 DEF Range, IsInjective
<1> QED
  BY <1>1, <1>2, <1>3

\* pop_queue() takes the head out of the set of queued processes.
LEMMA TailLemma ==
    ASSUME NEW q \in Seq(Proc), q # <<>>
    PROVE  /\ Tail(q) \in Seq(Proc)
           /\ Head(q) \in Proc
           /\ Range(q) = Range(Tail(q)) \cup {Head(q)}
           /\ IsInjective(q) => /\ IsInjective(Tail(q))
                                /\ Head(q) \notin Range(Tail(q))
<1>1. /\ Tail(q) \in Seq(Proc) /\ Head(q) \in Proc
      /\ Len(q) \in Nat /\ Len(q) > 0
      /\ DOMAIN q = 1 .. Len(q)
      /\ DOMAIN Tail(q) = 1 .. (Len(q) - 1)
      /\ \A i \in 1 .. (Len(q) - 1) : Tail(q)[i] = q[i + 1]
      /\ Head(q) = q[1]
  OBVIOUS
<1>2. ASSUME NEW i \in 1 .. Len(q), i # 1
      PROVE  i - 1 \in 1 .. (Len(q) - 1) /\ Tail(q)[i - 1] = q[i]
  BY <1>1, <1>2
<1>3. ASSUME NEW x \in Range(q)
      PROVE  x \in Range(Tail(q)) \cup {Head(q)}
  <2>1. PICK i \in 1 .. Len(q) : x = q[i]
    BY <1>1 DEF Range
  <2>2. CASE i = 1
    BY <1>1, <2>1, <2>2
  <2>3. CASE i # 1
    BY <1>1, <1>2, <2>1, <2>3 DEF Range
  <2> QED
    BY <2>2, <2>3
<1>4. Range(Tail(q)) \cup {Head(q)} \subseteq Range(q)
  BY <1>1 DEF Range
<1>5. IsInjective(q) => IsInjective(Tail(q)) /\ Head(q) \notin Range(Tail(q))
  BY <1>1 DEF Range, IsInjective
<1> QED
  BY <1>1, <1>3, <1>4, <1>5

-----------------------------------------------------------------------------
(* The invariant *)

\* The state that proc_init() and load_init_app() leave satisfies the invariant.
LEMMA InitInv == Init => IInv
<1> SUFFICES ASSUME Init PROVE IInv
  OBVIOUS
<1> USE ConstAssumption
<1>1. TypeOK
  BY DEF Init, TypeOK, ProcState, PCs
<1>2. CpuInv
  BY DEF Init, CpuInv
<1>3. /\ NoDuplicates /\ Range(task_queue) = {InitProc}
  BY DEF Init, NoDuplicates, IsInjective, Range
<1>4. RunnableIsHeld
  BY <1>3 DEF Init, RunnableIsHeld, Holds
<1>5. StackExclusive
  BY DEF Init, StackExclusive
<1>6. LockHandover
  BY DEF Init, LockHandover
<1> QED
  BY <1>1, <1>2, <1>3, <1>4, <1>5, <1>6 DEF IInv

\* A process that can be locked and is not RUNNING is on no CPU's stack, and is
\* no child under construction in fork().
LEMMA OffCpu ==
    ASSUME IInv, NEW p \in Proc, lock[p] = NoCpu, state[p] # "RUNNING",
           NEW c \in Cpu
    PROVE  cproc[c] # p /\ ~(pc[c] = "fork" /\ local[c] = p)
  BY ConstAssumption
  DEF IInv, TypeOK, PCs, CpuInv, StackExclusive, LockHandover

\* Giving up the CPU keeps the invariant, whatever the new state.
LEMMA GiveUpInv ==
    ASSUME IInv, NEW c \in Cpu, NEW ch \in Chan \cup {NoChan},
           NEW s \in {"RUNNABLE", "SLEEPING", "STOPPED", "ZOMBIE"},
           GiveUp(c, s, ch)
    PROVE  IInv'
<1> USE ConstAssumption
<1>1. cproc[c] \in Proc /\ state[cproc[c]] = "RUNNING"
  BY DEF IInv, TypeOK, CpuInv, GiveUp, StackExclusive
<1>2. TypeOK'
  BY <1>1 DEF IInv, TypeOK, GiveUp, PCs, ProcState
<1>3. CpuInv' /\ NoDuplicates'
  BY <1>1 DEF IInv, TypeOK, GiveUp, CpuInv, NoDuplicates
<1>4. RunnableIsHeld'
  BY <1>1 DEF IInv, TypeOK, GiveUp, RunnableIsHeld, Holds, CpuInv, StackExclusive
<1>5. StackExclusive'
  BY <1>1 DEF IInv, TypeOK, GiveUp, StackExclusive
<1>6. LockHandover'
  BY <1>1 DEF IInv, TypeOK, GiveUp, LockHandover, CpuInv, StackExclusive
<1> QED
  BY <1>2, <1>3, <1>4, <1>5, <1>6 DEF IInv

\* Waking a process that sleeps or is stopped keeps the invariant.
LEMMA MakeRunnableInv ==
    ASSUME IInv, NEW p \in Proc, state[p] \in {"SLEEPING", "STOPPED"},
           MakeRunnable(p)
    PROVE  IInv'
<1> USE ConstAssumption
<1>1. \A c \in Cpu : cproc[c] # p /\ ~(pc[c] = "fork" /\ local[c] = p)
  BY OffCpu DEF MakeRunnable
<1>2. p \notin Range(task_queue) /\ \A c \in Cpu : ~Holds(c, p)
  BY DEF IInv, RunnableIsHeld
<1>3. /\ task_queue' \in Seq(Proc)
      /\ Range(task_queue') = Range(task_queue) \cup {p}
      /\ NoDuplicates'
  BY <1>2, AppendLemma DEF IInv, TypeOK, MakeRunnable, NoDuplicates
<1>4. TypeOK'
  BY <1>3 DEF IInv, TypeOK, MakeRunnable, ProcState
<1>5. CpuInv'
  BY <1>1 DEF IInv, TypeOK, MakeRunnable, CpuInv
<1>6. RunnableIsHeld'
  BY <1>1, <1>2, <1>3 DEF IInv, TypeOK, MakeRunnable, RunnableIsHeld, Holds
<1>7. StackExclusive' /\ LockHandover'
  BY <1>1 DEF IInv, TypeOK, MakeRunnable, StackExclusive, LockHandover
<1> QED
  BY <1>3, <1>4, <1>5, <1>6, <1>7 DEF IInv

\* Every action keeps the invariant.
LEMMA NextInv == IInv /\ [Next]_vars => IInv'
<1> SUFFICES ASSUME IInv, [Next]_vars PROVE IInv'
  OBVIOUS
<1> USE ConstAssumption
<1>1. CASE UNCHANGED vars
  BY <1>1 DEF IInv, vars, TypeOK, CpuInv, NoDuplicates, RunnableIsHeld, Holds,
              StackExclusive, LockHandover
<1>2. ASSUME NEW c \in Cpu, Fetch(c) PROVE IInv'
  <2>1. /\ task_queue' \in Seq(Proc) /\ local'[c] \in Proc
        /\ Range(task_queue) = Range(task_queue') \cup {local'[c]}
        /\ NoDuplicates' /\ local'[c] \notin Range(task_queue')
    BY <1>2, TailLemma DEF IInv, TypeOK, Fetch, NoDuplicates
  <2>2. TypeOK' /\ CpuInv'
    BY <1>2, <2>1 DEF IInv, TypeOK, Fetch, CpuInv, PCs
  <2>3. RunnableIsHeld'
    BY <1>2, <2>1 DEF IInv, TypeOK, Fetch, RunnableIsHeld, Holds, CpuInv
  <2>4. StackExclusive' /\ LockHandover'
    BY <1>2 DEF IInv, TypeOK, Fetch, StackExclusive, LockHandover
  <2> QED
    BY <2>1, <2>2, <2>3, <2>4 DEF IInv
<1>3. ASSUME NEW c \in Cpu, Dispatch(c) PROVE IInv'
  <2>1. local[c] \in Proc /\ state[local[c]] = "RUNNABLE"
    BY <1>3 DEF IInv, TypeOK, CpuInv, Dispatch, RunnableIsHeld, Holds
  <2>2. TypeOK' /\ CpuInv' /\ NoDuplicates'
    BY <1>3, <2>1 DEF IInv, TypeOK, Dispatch, CpuInv, PCs, ProcState, NoDuplicates
  <2>3. RunnableIsHeld'
    BY <1>3, <2>1 DEF IInv, TypeOK, Dispatch, RunnableIsHeld, Holds, CpuInv
  <2>4. StackExclusive'
    <3>1. \A d \in Cpu : cproc[d] # local[c]
      BY <1>3, <2>1, OffCpu DEF Dispatch
    <3> QED
      BY <1>3, <2>1, <3>1 DEF IInv, TypeOK, Dispatch, StackExclusive, CpuInv
  <2>5. LockHandover'
    BY <1>3, <2>1 DEF IInv, TypeOK, Dispatch, LockHandover, CpuInv
  <2> QED
    BY <2>2, <2>3, <2>4, <2>5 DEF IInv
<1>4. ASSUME NEW c \in Cpu, Enter(c) PROVE IInv'
  <2>1. cproc[c] \in Proc
    BY <1>4 DEF IInv, TypeOK, CpuInv, Enter
  <2>2. TypeOK' /\ CpuInv' /\ NoDuplicates'
    BY <1>4, <2>1 DEF IInv, TypeOK, Enter, CpuInv, PCs, NoDuplicates
  <2>3. RunnableIsHeld'
    BY <1>4, <2>1 DEF IInv, TypeOK, Enter, RunnableIsHeld, Holds
  <2>4. StackExclusive'
    BY <1>4, <2>1 DEF IInv, TypeOK, Enter, StackExclusive
  <2>5. LockHandover'
    BY <1>4, <2>1 DEF IInv, TypeOK, Enter, LockHandover, CpuInv, StackExclusive
  <2> QED
    BY <2>2, <2>3, <2>4, <2>5 DEF IInv
<1>5. ASSUME NEW c \in Cpu, SwitchedBack(c) PROVE IInv'
  <2> DEFINE p == cproc[c]
  <2>1. /\ p \in Proc /\ lock[p] = c
        /\ state[p] = "RUNNABLE" => Holds(c, p)
    BY <1>5 DEF IInv, TypeOK, CpuInv, SwitchedBack, LockHandover, Holds
  <2>2. /\ task_queue' \in Seq(Proc) /\ NoDuplicates'
        /\ Range(task_queue') = IF state[p] = "RUNNABLE"
                                THEN Range(task_queue) \cup {p}
                                ELSE Range(task_queue)
    BY <1>5, <2>1, AppendLemma
    DEF IInv, TypeOK, SwitchedBack, NoDuplicates, RunnableIsHeld
  <2>3. TypeOK' /\ CpuInv'
    BY <1>5, <2>1, <2>2 DEF IInv, TypeOK, SwitchedBack, CpuInv, PCs
  <2>4. RunnableIsHeld'
    BY <1>5, <2>1, <2>2 DEF IInv, TypeOK, SwitchedBack, RunnableIsHeld, Holds
  <2>5. StackExclusive'
    BY <1>5, <2>1 DEF IInv, TypeOK, SwitchedBack, StackExclusive
  <2>6. LockHandover'
    BY <1>5, <2>1 DEF IInv, TypeOK, SwitchedBack, LockHandover, CpuInv
  <2> QED
    BY <2>2, <2>3, <2>4, <2>5, <2>6 DEF IInv
<1>6. ASSUME NEW c \in Cpu, Yield(c) \/ Sleep(c) \/ Stop(c) \/ Exit(c)
      PROVE  IInv'
  BY <1>6, GiveUpInv DEF Yield, Sleep, Stop, Exit
<1>7. ASSUME NEW c \in Cpu, AllocProc(c) PROVE IInv'
  <2>1. PICK np \in Proc :
            /\ pc[c] = "run"
            /\ lock[np] = NoCpu
            /\ state[np] = "UNUSED"
            /\ state' = [state EXCEPT ![np] = "USED"]
            /\ sleep_chan' = [sleep_chan EXCEPT ![np] = NoChan]
            /\ lock' = [lock EXCEPT ![np] = c]
            /\ local' = [local EXCEPT ![c] = np]
            /\ pc' = [pc EXCEPT ![c] = "fork"]
            /\ UNCHANGED <<task_queue, cproc>>
    BY <1>7 DEF AllocProc
  <2>2. \A d \in Cpu : cproc[d] # np /\ ~(pc[d] = "fork" /\ local[d] = np)
    BY <2>1, OffCpu
  <2>3. TypeOK' /\ CpuInv' /\ NoDuplicates'
    BY <2>1, <2>2 DEF IInv, TypeOK, CpuInv, PCs, ProcState, NoDuplicates
  <2>4. RunnableIsHeld'
    BY <2>1, <2>2 DEF IInv, TypeOK, RunnableIsHeld, Holds
  <2>5. StackExclusive'
    BY <2>1, <2>2 DEF IInv, TypeOK, StackExclusive
  <2>6. LockHandover'
    BY <2>1, <2>2 DEF IInv, TypeOK, LockHandover
  <2> QED
    BY <2>3, <2>4, <2>5, <2>6 DEF IInv
<1>8. ASSUME NEW c \in Cpu, ForkDone(c) PROVE IInv'
  <2> DEFINE np == local[c]
  <2>1. /\ np \in Proc /\ state[np] = "USED" /\ lock[np] = c
        /\ \A d \in Cpu : cproc[d] # np /\ ~Holds(d, np)
        /\ np \notin Range(task_queue)
    BY <1>8 DEF IInv, TypeOK, CpuInv, ForkDone, StackExclusive, LockHandover,
                RunnableIsHeld, PCs
  <2>2. /\ task_queue' \in Seq(Proc) /\ NoDuplicates'
        /\ Range(task_queue') = Range(task_queue) \cup {np}
    BY <1>8, <2>1, AppendLemma DEF IInv, TypeOK, ForkDone, NoDuplicates
  <2>3. TypeOK'
    BY <1>8, <2>1, <2>2 DEF IInv, TypeOK, ForkDone, PCs, ProcState
  <2>4. CpuInv'
    BY <1>8, <2>1 DEF IInv, TypeOK, ForkDone, CpuInv, LockHandover
  <2>5. RunnableIsHeld'
    BY <1>8, <2>1, <2>2 DEF IInv, TypeOK, ForkDone, RunnableIsHeld, Holds
  <2>6. StackExclusive'
    BY <1>8, <2>1 DEF IInv, TypeOK, ForkDone, StackExclusive
  <2>7. LockHandover'
    BY <1>8, <2>1 DEF IInv, TypeOK, ForkDone, LockHandover
  <2> QED
    BY <2>2, <2>3, <2>4, <2>5, <2>6, <2>7 DEF IInv
<1>9. ASSUME NEW c \in Cpu, ForkFail(c) PROVE IInv'
  <2> DEFINE np == local[c]
  <2>1. /\ np \in Proc /\ state[np] = "USED" /\ lock[np] = c
        /\ \A d \in Cpu : cproc[d] # np
    BY <1>9 DEF IInv, TypeOK, CpuInv, ForkFail, StackExclusive, LockHandover
  <2>2. TypeOK' /\ NoDuplicates'
    BY <1>9, <2>1 DEF IInv, TypeOK, ForkFail, PCs, ProcState, NoDuplicates
  <2>3. CpuInv'
    BY <1>9, <2>1 DEF IInv, TypeOK, ForkFail, CpuInv, LockHandover
  <2>4. RunnableIsHeld'
    BY <1>9, <2>1 DEF IInv, TypeOK, ForkFail, RunnableIsHeld, Holds
  <2>5. StackExclusive'
    BY <1>9, <2>1 DEF IInv, TypeOK, ForkFail, StackExclusive
  <2>6. LockHandover'
    BY <1>9, <2>1 DEF IInv, TypeOK, ForkFail, LockHandover
  <2> QED
    BY <2>2, <2>3, <2>4, <2>5, <2>6 DEF IInv
<1>10. ASSUME NEW c \in Cpu, NEW p \in Proc,
              Wakeup(c, p) \/ SignalWake(c, p) \/ SignalCont(c, p)
       PROVE  IInv'
  BY <1>10, MakeRunnableInv DEF Wakeup, SignalWake, SignalCont
<1>11. ASSUME NEW c \in Cpu, NEW p \in Proc, Reap(c, p) PROVE IInv'
  <2>1. \A d \in Cpu : cproc[d] # p /\ ~(pc[d] = "fork" /\ local[d] = p)
    BY <1>11, OffCpu DEF Reap
  <2>2. TypeOK' /\ CpuInv' /\ NoDuplicates'
    BY <1>11, <2>1 DEF IInv, TypeOK, Reap, CpuInv, ProcState, NoDuplicates
  <2>3. RunnableIsHeld'
    BY <1>11, <2>1 DEF IInv, TypeOK, Reap, RunnableIsHeld, Holds
  <2>4. StackExclusive' /\ LockHandover'
    BY <1>11, <2>1 DEF IInv, TypeOK, Reap, StackExclusive, LockHandover
  <2> QED
    BY <2>2, <2>3, <2>4 DEF IInv
<1>12. ASSUME NEW c \in Cpu, Idle(c) PROVE IInv'
  BY <1>1, <1>12 DEF Idle
<1> QED
  BY <1>1, <1>2, <1>3, <1>4, <1>5, <1>6, <1>7, <1>8, <1>9, <1>10, <1>11, <1>12
  DEF Next

-----------------------------------------------------------------------------
(* Consequences of the invariant *)

\* A queue without duplicates is no longer than the process table.
LEMMA QueueFits == IInv => NoOverflow
<1> SUFFICES ASSUME IInv PROVE NoOverflow
  OBVIOUS
<1>1. task_queue \in Seq(Proc) /\ IsInjective(task_queue)
  BY DEF IInv, TypeOK, NoDuplicates
<1>2. /\ Len(task_queue) \in Nat
      /\ task_queue \in [1 .. Len(task_queue) -> Proc]
  BY <1>1
<1>3. task_queue \in Injection(1 .. Len(task_queue), Proc)
  BY <1>1, <1>2 DEF Injection, IsInjective
<1>4. Cardinality(1 .. Len(task_queue)) <= Cardinality(Proc)
  BY <1>3, FS_Injection, ConstAssumption
<1>5. Cardinality(1 .. Len(task_queue)) = Len(task_queue)
  BY <1>2, FS_Interval, SMTT(30)
<1> QED
  BY <1>4, <1>5 DEF NoOverflow

\* If every RUNNING process is the c->proc of some CPU, no more processes are
\* RUNNING than there are CPUs.
LEMMA RunningFits ==
    ASSUME NEW st, NEW cp,
           \A p \in Proc : st[p] = "RUNNING" => \E c \in Cpu : cp[c] = p
    PROVE  Cardinality(Life!RunningSet(st)) <= Cardinality(Cpu)
<1> DEFINE R == Life!RunningSet(st)
           f == [p \in R |-> CHOOSE c \in Cpu : cp[c] = p]
<1>1. \A p \in R : \E c \in Cpu : cp[c] = p
  BY DEF Life!RunningSet
<1>2. \A p \in R : f[p] \in Cpu /\ cp[f[p]] = p
  BY <1>1
<1>3. f \in Injection(R, Cpu)
  BY <1>2 DEF Injection, IsInjective
<1> QED
  BY <1>3, FS_Injection, ConstAssumption

\* Every step of the scheduler is a legal change of one slot's state, or none.
LEMMA StepRefines == IInv /\ IInv' /\ [Next]_vars => [Life!Next]_state
<1> SUFFICES ASSUME IInv, IInv', [Next]_vars, state' # state
             PROVE  Life!Next
  BY DEF vars
<1>1. Cardinality(Life!RunningSet(state')) <= Cardinality(Cpu)
  <2>1. \A p \in Proc : state'[p] = "RUNNING" => \E c \in Cpu : cproc'[c] = p
    BY DEF IInv, StackExclusive
  <2> QED
    BY <2>1, RunningFits
<1> SUFFICES \E p \in Proc : \E s \in Life!Successors(p) :
                 state' = [state EXCEPT ![p] = s]
  BY <1>1 DEF Life!Next, Life!Cardinality, Cardinality
<1> USE ConstAssumption DEF Life!Successors
<1>2. PICK c \in Cpu :
         \/ Dispatch(c) \/ Yield(c) \/ Sleep(c) \/ Stop(c) \/ Exit(c)
         \/ AllocProc(c) \/ ForkDone(c) \/ ForkFail(c)
         \/ \E p \in Proc : Wakeup(c, p) \/ SignalWake(c, p)
                               \/ SignalCont(c, p) \/ Reap(c, p)
  BY DEF Next, Idle, Fetch, Enter, SwitchedBack, vars
<1>3. CASE Dispatch(c)
  <2>1. local[c] \in Proc /\ state[local[c]] = "RUNNABLE"
    BY <1>3 DEF IInv, TypeOK, CpuInv, Dispatch, RunnableIsHeld, Holds
  <2> QED
    BY <1>3, <2>1 DEF Dispatch
<1>4. CASE Yield(c) \/ Sleep(c) \/ Stop(c) \/ Exit(c)
  <2>1. cproc[c] \in Proc /\ state[cproc[c]] = "RUNNING"
    BY <1>4 DEF IInv, TypeOK, CpuInv, StackExclusive, Yield, Sleep, Stop, Exit, GiveUp
  <2> QED
    BY <1>4, <2>1 DEF Yield, Sleep, Stop, Exit, GiveUp
<1>5. CASE AllocProc(c)
  BY <1>5 DEF AllocProc
<1>6. CASE ForkDone(c) \/ ForkFail(c)
  <2>1. local[c] \in Proc /\ state[local[c]] = "USED"
    BY <1>6 DEF IInv, TypeOK, CpuInv, ForkDone, ForkFail
  <2> QED
    BY <1>6, <2>1 DEF ForkDone, ForkFail
<1>7. ASSUME NEW p \in Proc, Wakeup(c, p) \/ SignalWake(c, p)
                               \/ SignalCont(c, p) \/ Reap(c, p)
      PROVE  \E q \in Proc : \E s \in Life!Successors(q) :
                 state' = [state EXCEPT ![q] = s]
  BY <1>7 DEF Wakeup, SignalWake, SignalCont, Reap, MakeRunnable
<1> QED
  BY <1>2, <1>3, <1>4, <1>5, <1>6, <1>7

-----------------------------------------------------------------------------
(* Theorems *)

\* The inductive invariant holds in every reachable state of the scheduler.
THEOREM Invariance == Spec => []IInv
  BY InitInv, NextInv, PTL DEF Spec

\* Type correctness of the scheduler's state (os/proc.h, os/sched.c).
THEOREM TypeCorrect == Spec => []TypeOK
  BY Invariance, PTL DEF IInv

\* However many wakers race with scheduler(), a process is queued once, is never
\* lost, and the "not RUNNABLE" branch of scheduler() is dead code.
THEOREM RunQueueCorrect == Spec => [](NoDuplicates /\ RunnableIsHeld)
  BY Invariance, PTL DEF IInv

\* A kernel stack is never shared by two CPUs, nor freed while in use: wait()
\* cannot reap a ZOMBIE whose CPU has not left it yet.
THEOREM KernelStackSafe == Spec => []StackExclusive
  BY Invariance, PTL DEF IInv

\* The hand-over of p->lock across swtch(), asserted in scheduler() and sched().
THEOREM LockHandedOver == Spec => []LockHandover
  BY Invariance, PTL DEF IInv

\* push_queue() never reaches its "queue overflow" panic.
THEOREM QueueNeverOverflows == Spec => []NoOverflow
  BY Invariance, QueueFits, PTL

\* The run queue of os/sched.c stays well formed under every race of wakers: it
\* fits its ring and holds no process twice.
THEOREM RunQueueSound == Spec => []QueueSound
<1>1. IInv => QueueSound
  BY QueueFits DEF IInv, QueueSound
<1> QED
  BY Invariance, <1>1, PTL

\* The scheduler implements the life cycle of a process-table slot.
THEOREM RefinesLife == Spec => ImplementsLife
<1>1. Init => Life!Init
  BY DEF Init, Life!Init
<1>2. IInv /\ IInv' /\ [Next]_vars => [Life!Next]_state
  BY StepRefines
<1> QED
  BY <1>1, <1>2, Invariance, PTL DEF Spec, ImplementsLife, Life!Spec
=============================================================================
