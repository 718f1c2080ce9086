------------------------------ MODULE ProcLife ------------------------------
(***************************************************************************)
(* What the kernel promises about the life of a slot of the process table  *)
(* (enum procstate of os/proc.h), seen from outside the scheduler: which   *)
(* changes of p->state are legal, that slots change state one at a time,   *)
(* and that no more processes run at once than there are CPUs.  Locks, the *)
(* run queue and the CPUs' program counters are hidden; module Sched is    *)
(* shown to implement this specification.                                  *)
(***************************************************************************)
EXTENDS Naturals, FiniteSets

CONSTANTS Proc,     \* the slots of pool[NPROC]
          InitProc, \* the slot load_init_app() gives to the init process
          NumCpu    \* how many CPUs run the scheduler

VARIABLE state

ProcState == {"UNUSED", "USED", "SLEEPING", "RUNNABLE", "RUNNING",
              "ZOMBIE", "STOPPED"}

\* The states that p->state may take next.  UNUSED -> USED is allocproc(),
\* USED -> UNUSED a fork() that ran out of memory, ZOMBIE -> UNUSED wait();
\* SLEEPING and STOPPED are only left for the run queue, and init never dies.
Successors(p) ==
    CASE state[p] = "UNUSED"   -> {"USED"}
      [] state[p] = "USED"     -> {"RUNNABLE", "UNUSED"}
      [] state[p] = "RUNNABLE" -> {"RUNNING"}
      [] state[p] = "RUNNING"  ->
            {"RUNNABLE", "SLEEPING", "STOPPED"}
               \cup (IF p = InitProc THEN {} ELSE {"ZOMBIE"})
      [] state[p] = "SLEEPING" -> {"RUNNABLE"}
      [] state[p] = "STOPPED"  -> {"RUNNABLE"}
      [] state[p] = "ZOMBIE"   -> {"UNUSED"}

RunningSet(st) == {p \in Proc : st[p] = "RUNNING"}

Init == state = [p \in Proc |-> IF p = InitProc THEN "RUNNABLE" ELSE "UNUSED"]

Next == \E p \in Proc : \E s \in Successors(p) :
            /\ state' = [state EXCEPT ![p] = s]
            /\ Cardinality(RunningSet(state')) <= NumCpu

Spec == Init /\ [][Next]_state
=============================================================================
