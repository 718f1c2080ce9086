----------------------------- MODULE ProcProofs -----------------------------
(***************************************************************************)
(* Proofs about module Proc, for a process table of any size, any bound on *)
(* the pids and any system calls of the programs.                          *)
(*                                                                         *)
(* FamilySound: a parent gives its children to init before it is "dead",   *)
(* init never dies (InitLives), and a slot is only taken by allocproc()    *)
(* while nobody else holds its lock (SlotLocks), so that no process that   *)
(* is somebody's parent is freed or allocated again.                       *)
(*                                                                         *)
(* NoLostWakeup: wait() decides to sleep, and exit() wakes the parent and  *)
(* becomes a ZOMBIE, each in one critical section of wait_lock (WaitLocks).*)
(* So between the last look of wait() and its sleep no child becomes a     *)
(* ZOMBIE, and between the wakeup of exit() and the ZOMBIE the parent does *)
(* not fall asleep (WaitInv).                                              *)
(***************************************************************************)
EXTENDS Proc, WellFoundedInduction, TLAPS

\* Who is in a critical section of wait_lock holds it, and runs.
WaitLocks == \A p \in Slot :
    pc[p] \in {"scan", "sleep", "dead"} => wait_lock = p /\ state[p] = "RUNNABLE"

\* fork() and kill() keep the lock of the slot they work on, and the slot that
\* fork() fills in is nobody else's.
SlotLocks == \A p \in Slot :
    /\ pc[p] \in {"fork", "kill"} => other[p] \in Slot /\ plock[other[p]] = p
    /\ pc[p] = "fork" => state[other[p]] = "USED"

\* init never leaves: exit() panics instead.
InitLives == /\ state[InitProc] \in {"RUNNABLE", "SLEEPING"}
             /\ pc[InitProc] \notin {"exit", "notify", "last", "dead"}

\* The inductive invariant for FamilySound.
FamilyInv == TypeOK /\ WaitLocks /\ SlotLocks /\ InitLives /\ ParentAlive

\* Nothing to reap is waiting for a process that is about to sleep, or asleep,
\* and the parent of a process that is about to be a ZOMBIE is awake.
WaitInv == \A p \in Slot :
    /\ state[p] = "SLEEPING" \/ pc[p] = "sleep" => Reapable(p) = {}
    /\ pc[p] = "dead" => state[parent[p]] # "SLEEPING"

-----------------------------------------------------------------------------
(* The model's operators *)

\* A set of slots that is not empty has a first one.
LEMMA MinLemma ==
    ASSUME NEW S, S \subseteq Nat, S # {}
    PROVE  Min(S) \in S
<1> DEFINE R == OpToRel(<, Nat)
<1>1. \A x, y \in Nat : x < y => <<x, y>> \in R
  BY DEF OpToRel
<1>2. IsWellFoundedOn(R, Nat)
  BY NatLessThanWellFounded
<1>3. \E x \in S : \A y \in S : ~ (<<y, x>> \in R)
  <2> HIDE DEF R
  <2> QED
    BY <1>2, WFMin
<1>4. \E x \in S : \A y \in S : ~ (y < x)
  <2> HIDE DEF R
  <2> QED
    BY <1>1, <1>3, Zenon
<1>5. \E x \in S : \A y \in S : x <= y
  BY <1>4, SMT
<1> QED
  BY <1>5 DEF Min

\* A slot is a natural number, and None is not a slot.
LEMMA SlotLemma == /\ Slot \subseteq Nat /\ None \notin Slot
                   /\ InitProc \in Slot /\ NPROC - 1 \in Slot
  BY ProcAssumption DEF Slot, None, InitProc

\* findByPid() returns a slot with that pid, or none.
LEMMA FoundLemma ==
    ASSUME NEW x, Found(x) # None
    PROVE  Found(x) \in Slot
<1> DEFINE S == {p \in Slot : pid[p] = x}
<1>1. S # {} /\ Found(x) = Min(S)
  BY DEF Found
<1>2. S \subseteq Slot /\ S \subseteq Nat
  BY SlotLemma
<1> QED
  BY <1>1, <1>2, MinLemma

\* wait() takes one of the children that it may take.
LEMMA ReapLemma ==
    ASSUME NEW p, Reapable(p) # {}
    PROVE  /\ Min(Reapable(p)) \in Slot
           /\ parent[Min(Reapable(p))] = p
           /\ state[Min(Reapable(p))] = "ZOMBIE"
<1>1. Reapable(p) \subseteq Slot /\ Reapable(p) \subseteq Nat
  BY SlotLemma DEF Reapable, Children
<1>2. Min(Reapable(p)) \in Reapable(p)
  BY <1>1, MinLemma
<1> QED
  BY <1>2 DEF Reapable, Children

\* wakeup() changes nobody's state but that of sleepers.
LEMMA WokenLemma ==
    ASSUME NEW S, TypeOK
    PROVE  /\ Woken(S) \in
                [Slot -> {"UNUSED", "USED", "RUNNABLE", "SLEEPING", "ZOMBIE"}]
           /\ \A p \in Slot : \/ Woken(S)[p] = state[p]
                              \/ state[p] = "SLEEPING" /\ Woken(S)[p] = "RUNNABLE"
           /\ \A p \in Slot \cap S : Woken(S)[p] # "SLEEPING"
  BY DEF TypeOK, Woken

-----------------------------------------------------------------------------
(* Types and locks *)

\* The type invariant with names for the ranges of its numbers, so that the
\* proofs expand them only where arithmetic is needed.
PidRange == -1 .. MaxPid
NextPidRange == 1 .. MaxPid + 1
WantRange == 0 .. MaxPid
States == {"UNUSED", "USED", "RUNNABLE", "SLEEPING", "ZOMBIE"}
Panics == {"no", "init process exited", "already acquired"}
Flags == BOOLEAN

Typed ==
    /\ state \in [Slot -> States]
    /\ pid \in [Slot -> PidRange] /\ PID \in NextPidRange
    /\ parent \in [Slot -> Slot \cup {None}]
    /\ killed \in [Slot -> Flags]
    /\ plock \in [Slot -> Slot \cup {None}] /\ wait_lock \in Slot \cup {None}
    /\ pc \in [Slot -> PCs]
    /\ want \in [Slot -> WantRange]
    /\ other \in [Slot -> Slot \cup {None}]
    /\ ppid \in [Slot -> PidRange] /\ index \in [Slot -> Slot]
    /\ panicked \in Panics

\* The two ways to write the types agree, before and after a step.
LEMMA TypedLemma == (TypeOK <=> Typed) /\ (TypeOK' <=> Typed')
  BY DEF TypeOK, Typed, PidRange, NextPidRange, WantRange, States, Panics, Flags

\* The numbers that the actions store are in range.
LEMMA RangeLemma ==
    /\ 0 \in WantRange /\ 0 \in PidRange /\ -1 \in PidRange /\ 0 \in Slot
    /\ \A x \in NextPidRange : \A y \in 0 .. x - 1 : y \in WantRange
    /\ \A x \in NextPidRange :
          x <= MaxPid => x \in PidRange /\ x + 1 \in NextPidRange
    /\ \A i \in Slot : i # NPROC - 1 => i + 1 \in Slot
    /\ TRUE \in Flags /\ FALSE \in Flags
<1>1. MaxPid \in Nat /\ NPROC \in Nat /\ NPROC > 0
  BY ProcAssumption
<1> QED
  BY <1>1 DEF WantRange, PidRange, NextPidRange, Slot, Flags

\* What an iteration of allocproc() does, by its outcome: a slot for the child, no
\* memory for it, or a slot that is in use.
LEMMA AllocLemma ==
    ASSUME Typed, NEW p \in Slot, AllocProc(p)
    PROVE  LET i == index[p]
           IN  /\ i \in Slot /\ plock[i] = None
               /\ At(p, "alloc") /\ UNCHANGED <<wait_lock, want, ppid, panicked>>
               /\ \E j \in Slot : index' = [index EXCEPT ![p] = j]
               /\ \/ /\ state[i] = "UNUSED" /\ PID <= MaxPid
                     /\ parent' = [parent EXCEPT ![i] = None] /\ PID' = PID + 1
                     /\ \/ /\ state' = [state EXCEPT ![i] = "USED"]
                           /\ pid' = [pid EXCEPT ![i] = PID]
                           /\ plock' = [plock EXCEPT ![i] = p]
                           /\ other' = [other EXCEPT ![p] = i]
                           /\ pc' = [pc EXCEPT ![p] = "fork"]
                           /\ killed' = killed
                        \/ /\ pid' = [pid EXCEPT ![i] = -1]
                           /\ killed' = [killed EXCEPT ![i] = FALSE]
                           /\ pc' = [pc EXCEPT ![p] = "user"]
                           /\ UNCHANGED <<state, plock, other>>
                  \/ /\ UNCHANGED <<state, pid, killed, plock, other, parent, PID>>
                     /\ \E l \in {"user", "alloc"} : pc' = [pc EXCEPT ![p] = l]
<1> DEFINE i == index[p]
           found == state[i] = "UNUSED" /\ PID <= MaxPid
           done == found \/ i = NPROC - 1
<1>1. i \in Slot /\ plock[i] = None /\ At(p, "alloc")
  BY DEF AllocProc, Free, Typed
<1>2. /\ UNCHANGED <<wait_lock, want, ppid, panicked>>
      /\ index' = [index EXCEPT ![p] = IF done THEN 0 ELSE i + 1]
      /\ parent' = [parent EXCEPT ![i] = IF found THEN None ELSE parent[i]]
      /\ PID' = IF found THEN PID + 1 ELSE PID
  BY DEF AllocProc
<1>3. (IF done THEN 0 ELSE i + 1) \in Slot
  BY <1>1, RangeLemma
<1>4. CASE found
  <2>1. parent' = [parent EXCEPT ![i] = None] /\ PID' = PID + 1
    BY <1>2, <1>4
  <2>2. \/ /\ state' = [state EXCEPT ![i] = "USED"]
           /\ pid' = [pid EXCEPT ![i] = PID]
           /\ plock' = [plock EXCEPT ![i] = p]
           /\ other' = [other EXCEPT ![p] = i]
           /\ pc' = [pc EXCEPT ![p] = "fork"]
           /\ killed' = killed
        \/ /\ pid' = [pid EXCEPT ![i] = -1]
           /\ killed' = [killed EXCEPT ![i] = FALSE]
           /\ pc' = [pc EXCEPT ![p] = "user"]
           /\ UNCHANGED <<state, plock, other>>
    BY <1>4 DEF AllocProc
  <2> HIDE DEF done
  <2> QED
    BY <1>1, <1>2, <1>3, <1>4, <2>1, <2>2
<1>5. CASE ~found
  <2>1. parent' = parent /\ PID' = PID
    BY <1>1, <1>2, <1>5 DEF Typed
  <2>2. /\ UNCHANGED <<state, pid, killed, plock, other>>
        /\ \E l \in {"user", "alloc"} : pc' = [pc EXCEPT ![p] = l]
    BY <1>5 DEF AllocProc
  <2> HIDE DEF done
  <2> QED
    BY <1>1, <1>2, <1>3, <1>5, <2>1, <2>2
<1> QED
  BY <1>4, <1>5

\* Every step keeps the types.
LEMMA TypeStep == ASSUME FamilyInv, [Next]_vars PROVE TypeOK'
<1> USE SlotLemma, RangeLemma
<1>1. TypeOK /\ Typed
  BY TypedLemma DEF FamilyInv
<1>2. SUFFICES Typed'
  BY TypedLemma
<1>3. ASSUME NEW p \in Slot, AllocProc(p) PROVE Typed'
  <2> DEFINE i == index[p]
  <2>1. /\ i \in Slot /\ UNCHANGED <<wait_lock, want, ppid, panicked>>
        /\ \E j \in Slot : index' = [index EXCEPT ![p] = j]
    BY <1>1, <1>3, AllocLemma
  <2>2. index' \in [Slot -> Slot]
    BY <1>1, <2>1 DEF Typed
  <2>3. CASE /\ parent' = [parent EXCEPT ![i] = None] /\ PID' = PID + 1
             /\ PID <= MaxPid
    <3>1. PID \in PidRange /\ PID' \in NextPidRange
      BY <1>1, <2>3 DEF Typed
    <3>2. parent' \in [Slot -> Slot \cup {None}]
      BY <1>1, <2>1, <2>3 DEF Typed
    <3>3. CASE /\ state' = [state EXCEPT ![i] = "USED"]
               /\ pid' = [pid EXCEPT ![i] = PID]
               /\ plock' = [plock EXCEPT ![i] = p]
               /\ other' = [other EXCEPT ![p] = i]
               /\ pc' = [pc EXCEPT ![p] = "fork"]
               /\ killed' = killed
      <4> HIDE DEF i
      <4>1. pc' \in [Slot -> PCs]
        BY <1>1, <3>3 DEF Typed, PCs
      <4> QED
        BY <1>1, <2>1, <2>2, <3>1, <3>2, <3>3, <4>1 DEF Typed, States
    <3>4. CASE /\ pid' = [pid EXCEPT ![i] = -1]
               /\ killed' = [killed EXCEPT ![i] = FALSE]
               /\ pc' = [pc EXCEPT ![p] = "user"]
               /\ UNCHANGED <<state, plock, other>>
      <4> HIDE DEF i
      <4>1. pc' \in [Slot -> PCs]
        BY <1>1, <3>4 DEF Typed, PCs
      <4> QED
        BY <1>1, <2>1, <2>2, <3>1, <3>2, <3>4, <4>1 DEF Typed
    <3> QED
      BY <1>1, <1>3, <2>3, <3>3, <3>4, AllocLemma
  <2>4. CASE /\ UNCHANGED <<state, pid, killed, plock, other, parent, PID>>
             /\ \E l \in {"user", "alloc"} : pc' = [pc EXCEPT ![p] = l]
    <3>1. pc' \in [Slot -> PCs]
      BY <1>1, <2>4 DEF Typed, PCs
    <3> QED
      BY <1>1, <2>1, <2>2, <2>4, <3>1 DEF Typed
  <2> QED
    BY <1>1, <1>3, <2>3, <2>4, AllocLemma
<1>4. ASSUME NEW p \in Slot, ForkDone(p) \/ ForkFail(p) PROVE Typed'
  <2>1. CASE ForkDone(p)
    BY <1>1, <2>1 DEF Typed, ForkDone, PCs, States
  <2>2. CASE ForkFail(p)
    BY <1>1, <2>2 DEF Typed, ForkFail, PCs, States
  <2> QED
    BY <1>4, <2>1, <2>2
<1>5. ASSUME NEW p \in Slot, Fork(p) \/ WaitLock(p) PROVE Typed'
  BY <1>1, <1>5 DEF Typed, Fork, WaitLock, PCs, locals
<1>6. ASSUME NEW p \in Slot, Wait(p) PROVE Typed'
  <2>1. \A x \in 0 .. PID - 1 : x \in WantRange
    BY <1>1 DEF Typed
  <2> QED
    BY <1>1, <1>6, <2>1 DEF Typed, Wait, PCs
<1>7. ASSUME NEW p \in Slot, Reap(p) PROVE Typed'
  BY <1>1, <1>7 DEF Typed, Reap, PCs, States
<1>8. ASSUME NEW p \in Slot, WaitNone(p) PROVE Typed'
  BY <1>1, <1>8 DEF Typed, WaitNone, PCs
<1>9. ASSUME NEW p \in Slot, Sleep(p) \/ Dead(p) PROVE Typed'
  BY <1>1, <1>9 DEF Typed, Sleep, Dead, PCs, States, locals
<1>10. ASSUME NEW p \in Slot, Exit(p) PROVE Typed'
  <2>1. /\ UNCHANGED <<state, pid, parent, killed, plock, wait_lock, PID, want,
                       ppid, index>>
        /\ panicked' \in {panicked, "init process exited"}
        /\ \/ UNCHANGED <<pc, other>>
           \/ /\ pc' = [pc EXCEPT ![p] = "exit"]
              /\ other' = [other EXCEPT ![p] = parent[p]]
    BY <1>10 DEF Exit
  <2>2. panicked' \in Panics
    BY <1>1, <2>1 DEF Typed, Panics
  <2>3. pc' \in [Slot -> PCs] /\ other' \in [Slot -> Slot \cup {None}]
    <3>1. parent[p] \in Slot \cup {None} /\ "exit" \in PCs
      BY <1>1 DEF Typed, PCs
    <3>2. /\ pc \in [Slot -> PCs] /\ other \in [Slot -> Slot \cup {None}]
      BY <1>1 DEF Typed
    <3> QED
      BY <2>1, <3>1, <3>2
  <2> QED
    BY <1>1, <2>1, <2>2, <2>3 DEF Typed
<1>11. ASSUME NEW p \in Slot, Reparent(p) PROVE Typed'
  <2>1. ppid' \in [Slot -> PidRange] /\ pc' \in [Slot -> PCs]
    <3>1. \/ /\ pc' = [pc EXCEPT ![p] = "last"] /\ ppid' = ppid
          \/ /\ pc' = [pc EXCEPT ![p] = "notify"]
             /\ other[p] # None /\ ppid' = [ppid EXCEPT ![p] = pid[other[p]]]
      BY <1>11 DEF Reparent
    <3>2. other[p] # None => pid[other[p]] \in PidRange
      BY <1>1 DEF Typed
    <3> QED
      BY <1>1, <3>1, <3>2 DEF Typed, PCs
  <2>2. parent' \in [Slot -> Slot \cup {None}]
    BY <1>1, <1>11 DEF Typed, Reparent
  <2>3. state' = state \/ state' = Woken({InitProc})
    BY <1>11 DEF Reparent
  <2>4. state' \in [Slot -> States]
    BY <1>1, <2>3, WokenLemma DEF Typed, States
  <2> QED
    BY <1>1, <1>11, <2>1, <2>2, <2>4 DEF Typed, Reparent
<1>12. ASSUME NEW p \in Slot, Notify(p) \/ WakeParent(p) PROVE Typed'
  <2>1. state' \in [Slot -> States]
    BY <1>1, <1>12, WokenLemma DEF Notify, WakeParent, States
  <2> QED
    BY <1>1, <1>12, <2>1 DEF Typed, Notify, WakeParent, PCs, locals
<1>13. ASSUME NEW p \in Slot, SysSigkill(p) PROVE Typed'
  <2>1. PICK t : /\ killed' = [killed EXCEPT ![t] = TRUE] /\ state' = Woken({t})
                 /\ UNCHANGED <<pid, parent, plock, wait_lock, PID, pc, locals,
                                panicked>>
    BY <1>13 DEF SysSigkill
  <2>2. state' \in [Slot -> States]
    BY <1>1, <2>1, WokenLemma DEF States
  <2> QED
    BY <1>1, <2>1, <2>2 DEF Typed, locals
<1>14. ASSUME NEW p \in Slot, Kill(p) PROVE Typed'
  <2>1. PICK v \in Slot :
          /\ killed' = [killed EXCEPT ![v] = TRUE] /\ state' = Woken({v})
          /\ IF parent[v] = None THEN UNCHANGED <<plock, other, ppid, index, pc>>
             ELSE /\ plock' = [plock EXCEPT ![v] = p]
                  /\ other' = [other EXCEPT ![p] = v]
                  /\ ppid' = [ppid EXCEPT ![p] = pid[parent[v]]]
                  /\ index' = [index EXCEPT ![p] = 0]
                  /\ pc' = [pc EXCEPT ![p] = "kill"]
          /\ UNCHANGED <<pid, parent, wait_lock, PID, want, panicked>>
    BY <1>14, FoundLemma DEF Kill
  <2>2. state' \in [Slot -> States]
    BY <1>1, <2>1, WokenLemma DEF States
  <2>3. parent[v] # None => pid[parent[v]] \in PidRange
    BY <1>1 DEF Typed
  <2>4. CASE parent[v] = None
    BY <1>1, <2>1, <2>2, <2>4 DEF Typed
  <2>5. CASE parent[v] # None
    <3>1. ppid' \in [Slot -> PidRange]
      BY <1>1, <2>1, <2>3, <2>5 DEF Typed
    <3>2. pc' \in [Slot -> PCs] /\ killed' \in [Slot -> Flags]
      BY <1>1, <2>1, <2>5 DEF Typed, PCs
    <3>3. /\ plock' \in [Slot -> Slot \cup {None}]
          /\ other' \in [Slot -> Slot \cup {None}]
          /\ index' \in [Slot -> Slot]
      BY <1>1, <2>1, <2>5 DEF Typed
    <3> QED
      BY <1>1, <2>1, <2>2, <3>1, <3>2, <3>3 DEF Typed
  <2> QED
    BY <2>4, <2>5
<1>15. ASSUME NEW p \in Slot, KillScan(p) PROVE Typed'
  <2> DEFINE i == index[p]
             done == pid[i] = ppid[p] \/ i = NPROC - 1
  <2>1. (IF done THEN 0 ELSE i + 1) \in Slot
    BY <1>1 DEF Typed
  <2>2. state' \in [Slot -> States]
    <3>1. state' = state \/ state' = Woken({i})
      BY <1>15 DEF KillScan
    <3> QED
      BY <1>1, <3>1, WokenLemma DEF Typed, States
  <2>3. /\ UNCHANGED <<pid, parent, killed, wait_lock, PID, want>>
        /\ panicked' \in Panics
    BY <1>1, <1>15 DEF KillScan, Typed, Panics
  <2>4. CASE i = other[p]
    BY <1>1, <1>15, <2>2, <2>3, <2>4 DEF KillScan, Typed
  <2>5. CASE i # other[p]
    <3>1. PICK done2 \in BOOLEAN :
            /\ index' = [index EXCEPT ![p] = IF done2 THEN 0 ELSE i + 1]
            /\ pc' = [pc EXCEPT ![p] = IF done2 THEN "user" ELSE "kill"]
            /\ plock' = [plock EXCEPT ![other[p]] = IF done2 THEN None ELSE p]
            /\ other' = [other EXCEPT ![p] = IF done2 THEN None ELSE other[p]]
            /\ ppid' = [ppid EXCEPT ![p] = IF done2 THEN 0 ELSE ppid[p]]
            /\ (IF done2 THEN 0 ELSE i + 1) \in Slot
      BY <1>15, <2>1, <2>5 DEF KillScan
    <3> QED
      BY <1>1, <2>2, <2>3, <3>1 DEF Typed, PCs
  <2> QED
    BY <2>4, <2>5
<1>16. CASE UNCHANGED vars
  BY <1>1, <1>16 DEF Typed, vars, locals
<1> QED
  BY <1>3, <1>4, <1>5, <1>6, <1>7, <1>8, <1>9, <1>10, <1>11, <1>12, <1>13,
     <1>14, <1>15, <1>16 DEF Next, Kernel

\* Everybody's critical section of wait_lock is his alone.
LEMMA WaitLocksStep == ASSUME FamilyInv, [Next]_vars PROVE WaitLocks'
<1> USE SlotLemma DEF At, Calling
<1>1. TypeOK /\ Typed /\ WaitLocks /\ SlotLocks
  BY TypedLemma DEF FamilyInv
<1>2. ASSUME NEW p \in Slot, Fork(p) \/ Wait(p) \/ Exit(p) PROVE WaitLocks'
  BY <1>1, <1>2 DEF Fork, Wait, Exit, Typed, WaitLocks
<1>3. ASSUME NEW p \in Slot, AllocProc(p) PROVE WaitLocks'
  <2> DEFINE i == index[p]
  <2>1. /\ i \in Slot /\ wait_lock' = wait_lock /\ pc[p] = "alloc"
        /\ \E l \in {"fork", "user", "alloc"} : pc' = [pc EXCEPT ![p] = l]
        /\ \/ state' = state
           \/ state[i] = "UNUSED" /\ state' = [state EXCEPT ![i] = "USED"]
    BY <1>1, <1>3, AllocLemma
  <2> HIDE DEF i
  <2> QED
    BY <1>1, <2>1 DEF Typed, WaitLocks
<1>4. ASSUME NEW p \in Slot, ForkDone(p) \/ ForkFail(p) PROVE WaitLocks'
  BY <1>1, <1>4 DEF ForkDone, ForkFail, Typed, WaitLocks, SlotLocks
<1>5. ASSUME NEW p \in Slot, WaitLock(p) PROVE WaitLocks'
  BY <1>1, <1>5 DEF WaitLock, Typed, WaitLocks
<1>6. ASSUME NEW p \in Slot, Reap(p) PROVE WaitLocks'
  BY <1>1, <1>6, ReapLemma DEF Reap, Typed, WaitLocks
<1>7. ASSUME NEW p \in Slot, WaitNone(p) \/ Sleep(p) \/ Dead(p) PROVE WaitLocks'
  BY <1>1, <1>7 DEF WaitNone, Sleep, Dead, Typed, WaitLocks
<1>8. ASSUME NEW p \in Slot, Reparent(p) PROVE WaitLocks'
  BY <1>1, <1>8, WokenLemma DEF Reparent, Typed, WaitLocks
<1>9. ASSUME NEW p \in Slot, Notify(p) \/ WakeParent(p) PROVE WaitLocks'
  BY <1>1, <1>9, WokenLemma DEF Notify, WakeParent, Typed, WaitLocks
<1>10. ASSUME NEW p \in Slot, SysSigkill(p) \/ Kill(p) PROVE WaitLocks'
  <2>1. PICK t : state' = Woken({t})
    BY <1>10 DEF SysSigkill, Kill
  <2>2. pc' = pc \/ pc' = [pc EXCEPT ![p] = "kill"]
    BY <1>10 DEF SysSigkill, Kill
  <2>3. wait_lock' = wait_lock
    BY <1>10 DEF SysSigkill, Kill
  <2> QED
    BY <1>1, <2>1, <2>2, <2>3, WokenLemma DEF Typed, WaitLocks
<1>11. ASSUME NEW p \in Slot, KillScan(p) PROVE WaitLocks'
  <2>1. state' = state \/ state' = Woken({index[p]})
    BY <1>11 DEF KillScan
  <2>2. \A q \in Slot : pc'[q] \in {pc[q], "user", "kill"}
    BY <1>1, <1>11, ZenonT(40) DEF KillScan, Typed
  <2>3. wait_lock' = wait_lock
    BY <1>11 DEF KillScan
  <2> QED
    BY <1>1, <2>1, <2>2, <2>3, WokenLemma DEF WaitLocks
<1>12. CASE UNCHANGED vars
  BY <1>1, <1>12 DEF vars, WaitLocks
<1> QED
  BY <1>2, <1>3, <1>4, <1>5, <1>6, <1>7, <1>8, <1>9, <1>10, <1>11, <1>12
     DEF Next, Kernel

\* What a step of p may do to the slots that others have locked: nothing.
SlotEffect(p) ==
    /\ \A q \in Slot \ {p} : other'[q] = other[q] /\ pc'[q] \in {pc[q], "user"}
    /\ \A i \in Slot : plock'[i] # plock[i] => plock[i] \in {p, None}
    /\ \A i \in Slot : state[i] = "USED" /\ plock[i] # p => state'[i] = "USED"
    /\ pc'[p] \in {"fork", "kill"} =>
          other'[p] \in Slot /\ plock'[other'[p]] = p
    /\ pc'[p] = "fork" => state'[other'[p]] = "USED"

\* The slot that fork() or kill() has locked stays locked, and USED.
LEMMA SlotLocksStep == ASSUME FamilyInv, [Next]_vars PROVE SlotLocks'
<1> USE SlotLemma DEF At, Calling, SlotEffect
<1>1. TypeOK /\ Typed /\ SlotLocks
  BY TypedLemma DEF FamilyInv
<1>2. ASSUME NEW p \in Slot, Fork(p) \/ Wait(p) PROVE SlotEffect(p)
  BY <1>1, <1>2 DEF Fork, Wait, Typed, locals
<1>3. ASSUME NEW p \in Slot, Exit(p) PROVE SlotEffect(p)
  <2>1. CASE p = InitProc
    BY <1>3, <2>1 DEF Exit
  <2>2. CASE p # InitProc
    BY <1>1, <1>3, <2>2 DEF Exit, Typed
  <2> QED
    BY <2>1, <2>2
<1>4. ASSUME NEW p \in Slot, AllocProc(p) PROVE SlotEffect(p)
  <2> DEFINE i == index[p]
  <2>1. /\ i \in Slot /\ plock[i] = None
        /\ \/ /\ state[i] = "UNUSED"
              /\ state' = [state EXCEPT ![i] = "USED"]
              /\ plock' = [plock EXCEPT ![i] = p]
              /\ other' = [other EXCEPT ![p] = i]
              /\ pc' = [pc EXCEPT ![p] = "fork"]
           \/ /\ UNCHANGED <<state, plock, other>>
              /\ \E l \in {"user", "alloc"} : pc' = [pc EXCEPT ![p] = l]
    BY <1>1, <1>4, AllocLemma
  <2> HIDE DEF i
  <2> QED
    BY <1>1, <2>1 DEF Typed
<1>5. ASSUME NEW p \in Slot, ForkDone(p) PROVE SlotEffect(p)
  BY <1>1, <1>5 DEF ForkDone, Typed, SlotLocks
<1>6. ASSUME NEW p \in Slot, ForkFail(p) PROVE SlotEffect(p)
  BY <1>1, <1>6 DEF ForkFail, Typed, SlotLocks
<1>7. ASSUME NEW p \in Slot, WaitLock(p) PROVE SlotEffect(p)
  BY <1>1, <1>7 DEF WaitLock, Typed, locals
<1>8. ASSUME NEW p \in Slot, Reap(p) PROVE SlotEffect(p)
  BY <1>1, <1>8, ReapLemma DEF Reap, Typed
<1>9. ASSUME NEW p \in Slot, WaitNone(p) PROVE SlotEffect(p)
  <2>1. \E l \in {"user", "sleep"} : pc' = [pc EXCEPT ![p] = l]
    BY <1>9 DEF WaitNone
  <2>2. UNCHANGED <<state, plock, other>>
    BY <1>9 DEF WaitNone
  <2> QED
    BY <1>1, <2>1, <2>2 DEF Typed
<1>10. ASSUME NEW p \in Slot, Sleep(p) PROVE SlotEffect(p)
  BY <1>1, <1>10 DEF Sleep, Typed, locals
<1>11. ASSUME NEW p \in Slot, Dead(p) PROVE SlotEffect(p)
  BY <1>1, <1>11 DEF Dead, Typed
<1>12. ASSUME NEW p \in Slot, Reparent(p) PROVE SlotEffect(p)
  <2>1. /\ \E l \in {"last", "notify"} : pc' = [pc EXCEPT ![p] = l]
        /\ UNCHANGED <<plock, other>>
    BY <1>12 DEF Reparent
  <2>2. state' = state \/ state' = Woken({InitProc})
    BY <1>12 DEF Reparent
  <2> QED
    BY <1>1, <2>1, <2>2, WokenLemma DEF Typed
<1>13. ASSUME NEW p \in Slot, Notify(p) \/ WakeParent(p) PROVE SlotEffect(p)
  <2>1. /\ \E l \in {"last", "dead"} : pc' = [pc EXCEPT ![p] = l]
        /\ UNCHANGED <<plock, other>>
        /\ \E S : state' = Woken(S)
    BY <1>13 DEF Notify, WakeParent, locals
  <2> QED
    BY <1>1, <2>1, WokenLemma DEF Typed
<1>14. ASSUME NEW p \in Slot, SysSigkill(p) PROVE SlotEffect(p)
  <2>1. /\ UNCHANGED <<pc, plock, other>> /\ pc[p] = "user"
        /\ \E S : state' = Woken(S)
    BY <1>14 DEF SysSigkill, locals
  <2> QED
    BY <1>1, <2>1, WokenLemma
<1>15. ASSUME NEW p \in Slot, Kill(p) PROVE SlotEffect(p)
  <2>1. PICK v \in Slot :
          /\ plock[v] = None /\ state' = Woken({v})
          /\ \/ UNCHANGED <<plock, other, pc>>
             \/ /\ plock' = [plock EXCEPT ![v] = p]
                /\ other' = [other EXCEPT ![p] = v]
                /\ pc' = [pc EXCEPT ![p] = "kill"]
    BY <1>15, FoundLemma DEF Kill, Free
  <2>2. pc[p] = "user"
    BY <1>15 DEF Kill
  <2> QED
    BY <1>1, <2>1, <2>2, WokenLemma DEF Typed
<1>16. ASSUME NEW p \in Slot, KillScan(p) PROVE SlotEffect(p)
  <2>1. other[p] \in Slot /\ plock[other[p]] = p /\ pc[p] = "kill"
    BY <1>1, <1>16 DEF KillScan, SlotLocks
  <2>2. \/ UNCHANGED <<plock, other, pc>>
        \/ /\ plock' = [plock EXCEPT ![other[p]] = None]
           /\ other' = [other EXCEPT ![p] = None]
           /\ pc' = [pc EXCEPT ![p] = "user"]
        \/ /\ plock' = [plock EXCEPT ![other[p]] = p]
           /\ other' = [other EXCEPT ![p] = other[p]]
           /\ pc' = [pc EXCEPT ![p] = "kill"]
    BY <1>16 DEF KillScan
  <2>3. state' = state \/ state' = Woken({index[p]})
    BY <1>16 DEF KillScan
  <2> QED
    BY <1>1, <2>1, <2>2, <2>3, WokenLemma DEF Typed
<1>17. ASSUME NEW p \in Slot, SlotEffect(p) PROVE SlotLocks'
  <2>1. ASSUME NEW q \in Slot, pc'[q] \in {"fork", "kill"}
        PROVE  /\ other'[q] \in Slot /\ plock'[other'[q]] = q
               /\ pc'[q] = "fork" => state'[other'[q]] = "USED"
    <3>1. CASE q = p
      BY <1>17, <2>1, <3>1
    <3>2. CASE q # p
      <4>1. other'[q] = other[q] /\ pc[q] = pc'[q]
        BY <1>17, <2>1, <3>2
      <4>2. /\ other[q] \in Slot /\ plock[other[q]] = q
            /\ pc[q] = "fork" => state[other[q]] = "USED"
        BY <1>1, <2>1, <4>1 DEF SlotLocks
      <4>3. q \notin {p, None}
        BY <3>2
      <4>4. plock'[other[q]] = q
        BY <1>17, <4>2, <4>3
      <4>5. pc[q] = "fork" => state'[other[q]] = "USED"
        BY <1>17, <4>2, <4>3
      <4> QED
        BY <4>1, <4>2, <4>4, <4>5
    <3> QED
      BY <3>1, <3>2
  <2> QED
    BY <2>1 DEF SlotLocks
<1>18. CASE UNCHANGED vars
  BY <1>1, <1>18 DEF vars, SlotLocks, locals
<1> QED
  BY <1>2, <1>3, <1>4, <1>5, <1>6, <1>7, <1>8, <1>9, <1>10, <1>11, <1>12, <1>13,
     <1>14, <1>15, <1>16, <1>17, <1>18 DEF Next, Kernel

-----------------------------------------------------------------------------
(* FamilySound *)

Living == {"RUNNABLE", "SLEEPING"}
Leaving == {"notify", "last", "dead"}

\* What a step of p does to families: who appears is a child of p, who is given
\* away goes to init, nobody dies who is not at the end of exit(), and nobody
\* gets there who has not given his children away.
FamilyEffect(p) ==
    /\ \A c \in Slot : state'[c] \in Living \cup {"ZOMBIE"} =>
         \/ /\ state[c] \in Living \cup {"ZOMBIE"}
            /\ parent'[c] \in {parent[c], InitProc}
         \/ parent'[c] = p /\ pc'[p] = "user" /\ state'[p] = "RUNNABLE"
    /\ \A q \in Slot : state[q] \in Living => state'[q] \in Living \/ pc[q] = "dead"
    /\ \A q \in Slot : pc[q] \notin Leaving /\ pc'[q] \in Leaving =>
         pc[q] = "exit" /\ (q = InitProc \/ \A c \in Slot : parent'[c] # q)
    /\ pc[InitProc] # "exit" => pc'[InitProc] # "exit"

\* init lives, and so does everybody's parent.
LEMMA FamilyStep == ASSUME FamilyInv, [Next]_vars PROVE (InitLives /\ ParentAlive)'
<1> USE SlotLemma DEF At, Calling, FamilyEffect, Living, Leaving
<1>1. TypeOK /\ Typed /\ SlotLocks
  BY TypedLemma DEF FamilyInv
<1>2. InitLives /\ ParentAlive
  BY DEF FamilyInv
<1>3. ASSUME NEW p \in Slot, Fork(p) \/ Wait(p) \/ WaitLock(p)
      PROVE  FamilyEffect(p)
  BY <1>1, <1>3 DEF Fork, Wait, WaitLock, Typed
<1>4. ASSUME NEW p \in Slot, Exit(p) PROVE FamilyEffect(p)
  <2>1. UNCHANGED <<state, parent>>
    BY <1>4 DEF Exit
  <2>2. UNCHANGED pc \/ (p # InitProc /\ pc' = [pc EXCEPT ![p] = "exit"])
    BY <1>4 DEF Exit
  <2> QED
    BY <1>1, <2>1, <2>2 DEF Typed
<1>5. ASSUME NEW p \in Slot, AllocProc(p) PROVE FamilyEffect(p)
  <2> DEFINE i == index[p]
  <2>1. /\ i \in Slot
        /\ \E l \in {"fork", "user", "alloc"} : pc' = [pc EXCEPT ![p] = l]
        /\ \/ UNCHANGED <<state, parent>>
           \/ /\ state[i] = "UNUSED"
              /\ state' = state \/ state' = [state EXCEPT ![i] = "USED"]
              /\ parent' = [parent EXCEPT ![i] = None]
    BY <1>1, <1>5, AllocLemma
  <2> HIDE DEF i
  <2> QED
    BY <1>1, <2>1 DEF Typed
<1>6. ASSUME NEW p \in Slot, ForkDone(p) PROVE FamilyEffect(p)
  <2>1. other[p] \in Slot /\ state[other[p]] = "USED"
    BY <1>1, <1>6 DEF ForkDone, SlotLocks
  <2> QED
    BY <1>1, <1>6, <2>1 DEF ForkDone, Typed
<1>7. ASSUME NEW p \in Slot, ForkFail(p) PROVE FamilyEffect(p)
  <2>1. other[p] \in Slot /\ state[other[p]] = "USED"
    BY <1>1, <1>7 DEF ForkFail, SlotLocks
  <2> QED
    BY <1>1, <1>7, <2>1 DEF ForkFail, Typed
<1>8. ASSUME NEW p \in Slot, Reap(p) PROVE FamilyEffect(p)
  <2> DEFINE c == Min(Reapable(p))
  <2>1. c \in Slot /\ state[c] = "ZOMBIE"
    BY <1>8, ReapLemma DEF Reap
  <2>2. /\ state' = [state EXCEPT ![c] = "UNUSED"]
        /\ parent' = [parent EXCEPT ![c] = None]
        /\ pc' = [pc EXCEPT ![p] = "user"]
    BY <1>8 DEF Reap
  <2> HIDE DEF c
  <2> QED
    BY <1>1, <2>1, <2>2 DEF Typed
<1>9. ASSUME NEW p \in Slot, WaitNone(p) PROVE FamilyEffect(p)
  <2>1. /\ \E l \in {"user", "sleep"} : pc' = [pc EXCEPT ![p] = l]
        /\ UNCHANGED <<state, parent>>
    BY <1>9 DEF WaitNone
  <2> QED
    BY <1>1, <2>1 DEF Typed
<1>10. ASSUME NEW p \in Slot, Sleep(p) \/ Dead(p) PROVE FamilyEffect(p)
  BY <1>1, <1>10 DEF Sleep, Dead, Typed
<1>11. ASSUME NEW p \in Slot, Reparent(p) PROVE FamilyEffect(p)
  <2>1. /\ \E l \in {"last", "notify"} : pc' = [pc EXCEPT ![p] = l]
        /\ pc[p] = "exit"
    BY <1>11 DEF Reparent
  <2>2. state' = state \/ state' = Woken({InitProc})
    BY <1>11 DEF Reparent
  <2>3. /\ \A c \in Slot : parent'[c] \in {parent[c], InitProc}
        /\ p = InitProc \/ \A c \in Slot : parent'[c] # p
    BY <1>1, <1>11 DEF Reparent, Typed
  <2> QED
    BY <1>1, <2>1, <2>2, <2>3, WokenLemma DEF Typed
<1>12. ASSUME NEW p \in Slot, Notify(p) \/ WakeParent(p) PROVE FamilyEffect(p)
  <2>1. /\ \E l \in {"last", "dead"} : pc' = [pc EXCEPT ![p] = l]
        /\ pc[p] \in {"notify", "last"} /\ parent' = parent
        /\ \E S : state' = Woken(S)
    BY <1>12 DEF Notify, WakeParent
  <2> QED
    BY <1>1, <2>1, WokenLemma DEF Typed
<1>13. ASSUME NEW p \in Slot, SysSigkill(p) \/ Kill(p) PROVE FamilyEffect(p)
  <2>1. /\ pc' = pc \/ pc' = [pc EXCEPT ![p] = "kill"]
        /\ parent' = parent
        /\ \E S : state' = Woken(S)
    BY <1>13 DEF SysSigkill, Kill
  <2> QED
    BY <1>1, <2>1, WokenLemma DEF Typed
<1>14. ASSUME NEW p \in Slot, KillScan(p) PROVE FamilyEffect(p)
  <2>1. /\ pc' = pc \/ \E l \in {"user", "kill"} : pc' = [pc EXCEPT ![p] = l]
        /\ parent' = parent
    BY <1>14 DEF KillScan
  <2>2. state' = state \/ \E S : state' = Woken(S)
    BY <1>14 DEF KillScan
  <2> QED
    BY <1>1, <2>1, <2>2, WokenLemma DEF Typed
<1>15. ASSUME NEW p \in Slot, FamilyEffect(p) PROVE (InitLives /\ ParentAlive)'
  <2>1. InitLives'
    BY <1>2, <1>15 DEF InitLives
  <2>2. ASSUME NEW c \in Slot \ {InitProc}, state'[c] \in Living \cup {"ZOMBIE"}
        PROVE  /\ parent'[c] # None
               /\ state'[parent'[c]] \in Living
               /\ pc'[parent'[c]] \notin Leaving
    <3>1. CASE parent'[c] = p /\ pc'[p] = "user" /\ state'[p] = "RUNNABLE"
      BY <3>1
    <3>2. CASE parent'[c] = InitProc
      BY <2>1, <3>2 DEF InitLives
    <3>3. CASE state[c] \in Living \cup {"ZOMBIE"} /\ parent'[c] = parent[c]
      <4>1. /\ parent[c] # None
            /\ state[parent[c]] \in Living
            /\ pc[parent[c]] \notin Leaving
        BY <1>2, <3>3 DEF ParentAlive
      <4>2. parent[c] \in Slot
        BY <1>1, <4>1 DEF Typed
      <4>3. state'[parent[c]] \in Living
        BY <1>15, <4>1, <4>2
      <4>4. pc'[parent[c]] \notin Leaving
        BY <1>2, <1>15, <3>3, <4>1, <4>2 DEF InitLives
      <4> QED
        BY <3>3, <4>1, <4>3, <4>4
    <3> QED
      BY <1>15, <2>2, <3>1, <3>2, <3>3
  <2>3. ParentAlive'
    BY <2>2 DEF ParentAlive
  <2> QED
    BY <2>1, <2>3
<1>16. CASE UNCHANGED vars
  BY <1>2, <1>16 DEF vars, InitLives, ParentAlive
<1> QED
  BY <1>3, <1>4, <1>5, <1>6, <1>7, <1>8, <1>9, <1>10, <1>11, <1>12, <1>13,
     <1>14, <1>15, <1>16 DEF Next, Kernel

\* The invariant of the families holds in every state.
LEMMA FamilyInvariant == Spec => []FamilyInv
<1>1. Init => FamilyInv
  <2> SUFFICES ASSUME Init PROVE FamilyInv
    OBVIOUS
  <2>1. Typed
    <3>1. 1 \in PidRange /\ 2 \in NextPidRange
      BY ProcAssumption DEF PidRange, NextPidRange
    <3> QED
      BY <3>1, SlotLemma, RangeLemma DEF Init, Typed, States, PCs, Panics
  <2>2. WaitLocks /\ SlotLocks /\ InitLives /\ ParentAlive
    BY SlotLemma DEF Init, WaitLocks, SlotLocks, InitLives, ParentAlive
  <2> QED
    BY <2>1, <2>2, TypedLemma DEF FamilyInv
<1>2. FamilyInv /\ [Next]_vars => FamilyInv'
  BY TypeStep, WaitLocksStep, SlotLocksStep, FamilyStep DEF FamilyInv
<1> QED
  BY <1>1, <1>2, PTL DEF Spec

\* Whatever fork(), exit(), wait(), kill() and signals of any number of processes
\* do to each other, every process has a living parent that can wait() for it.
THEOREM FamilyIsSound == Spec => []FamilySound
<1>1. FamilyInv => FamilySound
  BY DEF FamilyInv, FamilySound
<1> QED
  BY <1>1, FamilyInvariant, PTL

-----------------------------------------------------------------------------
(* NoLostWakeup *)

\* p is asleep in wait(), or about to be.
Rests(p) == state[p] = "SLEEPING" \/ pc[p] = "sleep"

\* wait() of p would take c.
Waited(p, c) == parent[c] = p /\ state[c] = "ZOMBIE" /\ want[p] \in {0, pid[c]}

\* The invariant of wait() is kept by every step.
LEMMA WaitInvLemma ==
    WaitInv <=> /\ \A p, c \in Slot : ~(Rests(p) /\ Waited(p, c))
                /\ \A c \in Slot : pc[c] = "dead" => state[parent[c]] # "SLEEPING"
<1>1. \A p : Reapable(p) = {c \in Slot : Waited(p, c)}
  BY DEF Reapable, Children, Waited
<1> QED
  BY <1>1 DEF WaitInv, Rests

\* Who is at the end of exit() has a parent.
LEMMA LeaverLemma ==
    ASSUME FamilyInv, NEW c \in Slot, pc[c] \in {"last", "dead"},
           state[c] = "RUNNABLE"
    PROVE  parent[c] \in Slot
  BY SlotLemma DEF FamilyInv, TypeOK, InitLives, ParentAlive

\* Steps that have nothing to do with wait_lock: wakeups, and moves of p to a
\* place that is neither "sleep" nor "dead".
LEMMA QuietStep ==
    ASSUME FamilyInv, WaitInv, NEW p \in Slot,
           UNCHANGED <<parent, want, pid>>,
           state' = state \/ \E S : state' = Woken(S),
           pc' = pc \/ \E l \in PCs \ {"sleep", "dead"} : pc' = [pc EXCEPT ![p] = l]
    PROVE  WaitInv'
<1>1. \A q \in Slot : /\ state'[q] = "SLEEPING" => state[q] = "SLEEPING"
                      /\ state'[q] = "ZOMBIE" => state[q] = "ZOMBIE"
                      /\ pc'[q] \in {"sleep", "dead"} => pc'[q] = pc[q]
  <2>1. TypeOK /\ Typed
    BY TypedLemma DEF FamilyInv
  <2> QED
    BY <2>1, WokenLemma DEF Typed
<1>2. \A q, c \in Slot : ~(Rests(q)' /\ Waited(q, c)')
  <2>1. \A q, c \in Slot : Rests(q)' /\ Waited(q, c)' => Rests(q) /\ Waited(q, c)
    BY <1>1 DEF Rests, Waited
  <2> QED
    BY <2>1, WaitInvLemma
<1>3. \A c \in Slot : pc'[c] = "dead" => state'[parent'[c]] # "SLEEPING"
  <2>1. SUFFICES ASSUME NEW c \in Slot, pc'[c] = "dead"
                 PROVE  state'[parent[c]] # "SLEEPING"
    OBVIOUS
  <2>2. pc[c] = "dead" /\ state[parent[c]] # "SLEEPING"
    BY <1>1, <2>1, WaitInvLemma
  <2>3. parent[c] \in Slot
    BY <2>2, LeaverLemma DEF FamilyInv, WaitLocks
  <2> QED
    BY <1>1, <2>2, <2>3
<1> QED
  BY <1>2, <1>3 DEF WaitInv, Rests, Waited, Reapable, Children

\* wait_lock makes "nothing to reap, so sleep" and "wake the parent, then be a
\* ZOMBIE" exclude each other.
LEMMA WaitStep == ASSUME FamilyInv, WaitInv, [Next]_vars PROVE WaitInv'
<1> USE SlotLemma DEF At, Calling
<1>1. /\ TypeOK /\ Typed /\ WaitLocks /\ SlotLocks
      /\ \A p, c \in Slot : ~(Rests(p) /\ Waited(p, c))
      /\ \A c \in Slot : pc[c] = "dead" => state[parent[c]] # "SLEEPING"
  BY TypedLemma, WaitInvLemma DEF FamilyInv
<1> DEFINE Asleep == \A p, c \in Slot : ~(Rests(p)' /\ Waited(p, c)')
           Awake == \A c \in Slot : pc'[c] = "dead" => state'[parent'[c]] # "SLEEPING"
<1>2. ASSUME Asleep, Awake PROVE WaitInv'
  BY <1>2 DEF WaitInv, Rests, Waited, Reapable, Children
<1>3. ASSUME NEW p \in Slot, Fork(p) \/ Exit(p) \/ Notify(p) \/ WaitLock(p)
      PROVE  WaitInv'
  <2>1. /\ UNCHANGED <<parent, want, pid>>
        /\ state' = state \/ \E S : state' = Woken(S)
        /\ \/ pc' = pc
           \/ \E l \in PCs \ {"sleep", "dead"} : pc' = [pc EXCEPT ![p] = l]
    BY <1>3 DEF Fork, Exit, Notify, WaitLock, locals, PCs
  <2> QED
    BY <2>1, QuietStep
<1>4. ASSUME NEW p \in Slot, SysSigkill(p) \/ Kill(p) \/ KillScan(p)
      PROVE  WaitInv'
  <2>1. /\ UNCHANGED <<parent, want, pid>>
        /\ state' = state \/ \E S : state' = Woken(S)
        /\ \/ pc' = pc
           \/ \E l \in PCs \ {"sleep", "dead"} : pc' = [pc EXCEPT ![p] = l]
    BY <1>4 DEF SysSigkill, Kill, KillScan, locals, PCs
  <2> QED
    BY <2>1, QuietStep
<1>5. ASSUME NEW p \in Slot, Wait(p) PROVE WaitInv'
  <2>1. /\ UNCHANGED <<state, parent, pid>> /\ state[p] = "RUNNABLE"
        /\ \A q \in Slot \ {p} : want'[q] = want[q] /\ pc'[q] = pc[q]
        /\ pc'[p] = "wait"
    BY <1>1, <1>5 DEF Wait, Typed
  <2>2. Asleep
    BY <1>1, <2>1 DEF Rests, Waited
  <2>3. Awake
    BY <1>1, <2>1
  <2> QED
    BY <1>2, <2>2, <2>3
<1>6. ASSUME NEW p \in Slot, AllocProc(p) PROVE WaitInv'
  <2> DEFINE i == index[p]
  <2>1. /\ i \in Slot /\ want' = want
        /\ \E l \in {"fork", "user", "alloc"} : pc' = [pc EXCEPT ![p] = l]
    BY <1>1, <1>6, AllocLemma
  <2>2. CASE UNCHANGED <<state, parent, pid>>
    BY <2>1, <2>2, QuietStep DEF PCs
  <2>3. CASE /\ state[i] = "UNUSED"
             /\ state' = state \/ state' = [state EXCEPT ![i] = "USED"]
             /\ parent' = [parent EXCEPT ![i] = None]
             /\ \E x : pid' = [pid EXCEPT ![i] = x]
    <3> HIDE DEF i
    <3>1. /\ \A q \in Slot \ {i} :
                state'[q] = state[q] /\ parent'[q] = parent[q] /\ pid'[q] = pid[q]
          /\ state'[i] \in {"UNUSED", "USED"}
          /\ \A q \in Slot : pc'[q] \in {"sleep", "dead"} => pc'[q] = pc[q]
      BY <1>1, <2>1, <2>3 DEF Typed
    <3>2. pc[i] \notin {"sleep", "dead"}
      BY <1>1, <2>1, <2>3 DEF WaitLocks
    <3>3. Asleep
      BY <1>1, <2>1, <3>1, <3>2 DEF Rests, Waited
    <3>4. Awake
      <4>1. ASSUME NEW c \in Slot, pc'[c] = "dead"
            PROVE  state'[parent'[c]] # "SLEEPING"
        <5>1. pc[c] = "dead" /\ c # i
          BY <3>1, <3>2, <4>1
        <5>2. parent'[c] = parent[c] /\ parent[c] \in Slot
          BY <1>1, <3>1, <5>1, LeaverLemma DEF WaitLocks
        <5> QED
          BY <1>1, <3>1, <5>1, <5>2
      <4> QED
        BY <4>1
    <3> QED
      BY <1>2, <3>3, <3>4
  <2> QED
    BY <1>1, <1>6, <2>2, <2>3, AllocLemma
<1>7. ASSUME NEW p \in Slot, ForkDone(p) \/ ForkFail(p) PROVE WaitInv'
  <2> DEFINE np == other[p]
  <2>1. np \in Slot /\ state[np] = "USED" /\ pc[np] # "dead"
    BY <1>1, <1>7 DEF ForkDone, ForkFail, SlotLocks, WaitLocks
  <2>2. /\ \A q \in Slot \ {np} :
             state'[q] = state[q] /\ parent'[q] = parent[q] /\ pid'[q] = pid[q]
        /\ want' = want
        /\ state'[np] \in {"RUNNABLE", "UNUSED"}
        /\ \A q \in Slot : pc'[q] \in {pc[q], "user"}
    BY <1>1, <1>7, <2>1 DEF ForkDone, ForkFail, Typed
  <2>3. pc[np] # "sleep" /\ pc'[np] # "dead"
    BY <1>1, <2>1, <2>2 DEF WaitLocks
  <2> HIDE DEF np
  <2>4. Asleep
    BY <1>1, <2>1, <2>2, <2>3 DEF Rests, Waited
  <2>5. Awake
    <3>1. ASSUME NEW c \in Slot, pc'[c] = "dead"
          PROVE  state'[parent'[c]] # "SLEEPING"
      <4>1. pc[c] = "dead" /\ c # np
        BY <2>1, <2>2, <3>1
      <4>2. parent'[c] = parent[c] /\ parent[c] \in Slot
        BY <1>1, <2>2, <4>1, LeaverLemma DEF WaitLocks
      <4> QED
        BY <1>1, <2>2, <4>1, <4>2
    <3> QED
      BY <3>1
  <2> QED
    BY <1>2, <2>4, <2>5
<1>8. ASSUME NEW p \in Slot, Reap(p) PROVE WaitInv'
  <2> DEFINE r == Min(Reapable(p))
  <2>1. r \in Slot /\ state[r] = "ZOMBIE" /\ pc[r] # "dead"
    BY <1>1, <1>8, ReapLemma DEF Reap, WaitLocks
  <2>2. /\ \A q \in Slot \ {r} :
             state'[q] = state[q] /\ parent'[q] = parent[q] /\ pid'[q] = pid[q]
        /\ state'[r] = "UNUSED"
    BY <1>1, <1>8, <2>1 DEF Reap, Typed
  <2>3. /\ \A q \in Slot \ {p} : want'[q] = want[q] /\ pc'[q] = pc[q]
        /\ pc'[p] = "user" /\ state[p] = "RUNNABLE"
    BY <1>1, <1>8 DEF Reap, Typed
  <2> HIDE DEF r
  <2>4. Asleep
    BY <1>1, <2>1, <2>2, <2>3 DEF Rests, Waited
  <2>5. Awake
    <3>1. ASSUME NEW c \in Slot, pc'[c] = "dead"
          PROVE  state'[parent'[c]] # "SLEEPING"
      <4>1. pc[c] = "dead" /\ c # r
        BY <2>1, <2>3, <3>1
      <4>2. parent'[c] = parent[c] /\ parent[c] \in Slot
        BY <1>1, <2>2, <4>1, LeaverLemma DEF WaitLocks
      <4> QED
        BY <1>1, <2>2, <4>1, <4>2
    <3> QED
      BY <3>1
  <2> QED
    BY <1>2, <2>4, <2>5
<1>9. ASSUME NEW p \in Slot, WaitNone(p) PROVE WaitInv'
  <2>1. /\ UNCHANGED <<state, parent, pid>>
        /\ \A q \in Slot \ {p} : want'[q] = want[q] /\ pc'[q] = pc[q]
        /\ state[p] = "RUNNABLE"
        /\ \/ pc'[p] = "user"
           \/ pc'[p] = "sleep" /\ want'[p] = want[p]
    BY <1>1, <1>9 DEF WaitNone, Typed
  <2>2. \A c \in Slot : ~Waited(p, c)
    BY <1>9 DEF WaitNone, Reapable, Children, Waited
  <2>3. Asleep
    BY <1>1, <2>1, <2>2 DEF Rests, Waited
  <2>4. Awake
    BY <1>1, <2>1
  <2> QED
    BY <1>2, <2>3, <2>4
<1>10. ASSUME NEW p \in Slot, Sleep(p) PROVE WaitInv'
  <2>1. /\ UNCHANGED <<parent, pid, want>>
        /\ \A q \in Slot \ {p} : state'[q] = state[q] /\ pc'[q] = pc[q]
        /\ pc[p] = "sleep" /\ state'[p] = "SLEEPING" /\ pc'[p] = "wait"
    BY <1>1, <1>10 DEF Sleep, Typed, locals
  <2>2. Asleep
    BY <1>1, <2>1 DEF Rests, Waited
  <2>3. Awake
    BY <1>1, <2>1 DEF WaitLocks
  <2> QED
    BY <1>2, <2>2, <2>3
<1>11. ASSUME NEW p \in Slot, Reparent(p) PROVE WaitInv'
  <2>1. /\ \A q \in Slot : pc[q] \notin {"sleep", "dead"}
        /\ \E l \in {"last", "notify"} : pc' = [pc EXCEPT ![p] = l]
        /\ UNCHANGED <<pid, want>>
    BY <1>1, <1>11 DEF Reparent, WaitLocks
  <2>2. \A q \in Slot : pc'[q] \notin {"sleep", "dead"}
    BY <1>1, <2>1 DEF Typed
  <2>3. \A c \in Slot : parent'[c] = IF parent[c] = p THEN InitProc ELSE parent[c]
    BY <1>11 DEF Reparent
  <2>4. CASE Children(p) = {}
    <3>1. \A c \in Slot : parent'[c] = parent[c]
      BY <2>3, <2>4 DEF Children
    <3>2. state' = state
      BY <1>11, <2>4 DEF Reparent
    <3>3. Asleep
      BY <1>1, <2>1, <2>2, <3>1, <3>2 DEF Rests, Waited
    <3> QED
      BY <1>2, <2>2, <3>3
  <2>5. CASE Children(p) # {}
    <3>1. state' = Woken({InitProc})
      BY <1>11, <2>5 DEF Reparent
    <3>2. /\ state'[InitProc] # "SLEEPING"
          /\ \A q \in Slot : /\ state'[q] = "SLEEPING" => state[q] = "SLEEPING"
                             /\ state'[q] = "ZOMBIE" => state[q] = "ZOMBIE"
      BY <1>1, <3>1, WokenLemma
    <3>3. Asleep
      BY <1>1, <2>1, <2>2, <2>3, <3>2 DEF Rests, Waited
    <3> QED
      BY <1>2, <2>2, <3>3
  <2> QED
    BY <2>4, <2>5
<1>12. ASSUME NEW p \in Slot, WakeParent(p) PROVE WaitInv'
  <2>1. /\ UNCHANGED <<parent, pid, want>>
        /\ \A q \in Slot : pc[q] \notin {"sleep", "dead"}
        /\ pc' = [pc EXCEPT ![p] = "dead"]
        /\ state' = Woken({parent[p]})
    BY <1>1, <1>12 DEF WakeParent, WaitLocks, locals
  <2>2. parent[p] \in Slot
    BY <1>12, LeaverLemma DEF WakeParent
  <2>3. /\ state'[parent[p]] # "SLEEPING"
        /\ \A q \in Slot : /\ state'[q] = "SLEEPING" => state[q] = "SLEEPING"
                           /\ state'[q] = "ZOMBIE" => state[q] = "ZOMBIE"
    BY <1>1, <2>1, <2>2, WokenLemma
  <2>4. \A q \in Slot : pc'[q] # "sleep" /\ (pc'[q] = "dead" => q = p)
    BY <1>1, <2>1 DEF Typed
  <2>5. Asleep
    BY <1>1, <2>1, <2>3, <2>4 DEF Rests, Waited
  <2>6. Awake
    BY <2>1, <2>3, <2>4
  <2> QED
    BY <1>2, <2>5, <2>6
<1>13. ASSUME NEW p \in Slot, Dead(p) PROVE WaitInv'
  <2>1. /\ UNCHANGED <<parent, pid, want>>
        /\ \A q \in Slot \ {p} : state'[q] = state[q] /\ pc'[q] = pc[q]
        /\ state'[p] = "ZOMBIE" /\ pc'[p] = "user" /\ pc[p] = "dead"
        /\ state[p] = "RUNNABLE"
    BY <1>1, <1>13 DEF Dead, Typed
  <2>2. \A q \in Slot : pc[q] # "sleep" /\ (pc[q] = "dead" => q = p)
    BY <1>1, <2>1 DEF WaitLocks
  <2>3. parent[p] \in Slot /\ state[parent[p]] # "SLEEPING"
    BY <1>1, <2>1, LeaverLemma
  <2>4. Asleep
    <3>1. ASSUME NEW q \in Slot, NEW c \in Slot, Rests(q)', Waited(q, c)'
          PROVE  FALSE
      <4>1. q # p /\ state[q] = "SLEEPING"
        BY <2>1, <2>2, <3>1 DEF Rests
      <4>2. CASE c = p
        BY <2>1, <2>3, <3>1, <4>1, <4>2 DEF Waited
      <4>3. CASE c # p
        BY <1>1, <2>1, <3>1, <4>1, <4>3 DEF Waited, Rests
      <4> QED
        BY <4>2, <4>3
    <3> QED
      BY <3>1
  <2>5. Awake
    BY <2>1, <2>2
  <2> QED
    BY <1>2, <2>4, <2>5
<1>14. CASE UNCHANGED vars
  BY <1>1, <1>2, <1>14 DEF vars, locals, Rests, Waited
<1> QED
  BY <1>3, <1>4, <1>5, <1>6, <1>7, <1>8, <1>9, <1>10, <1>11, <1>12, <1>13, <1>14
     DEF Next, Kernel

\* No wakeup is lost between wait() and exit(), for any number of processes: who
\* sleeps in wait() has no ZOMBIE child that it waits for.
THEOREM NoWakeupIsLost == Spec => []NoLostWakeup
<1>1. Init => WaitInv
  BY SlotLemma DEF Init, WaitInv
<1>2. FamilyInv /\ WaitInv /\ [Next]_vars => WaitInv'
  BY WaitStep
<1>3. WaitInv => NoLostWakeup
  BY DEF WaitInv, NoLostWakeup
<1> QED
  BY <1>1, <1>2, <1>3, FamilyInvariant, PTL DEF Spec
=============================================================================
