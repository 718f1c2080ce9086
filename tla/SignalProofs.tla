---------------------------- MODULE SignalProofs ----------------------------
(***************************************************************************)
(* Proofs about module Signal, for any set of signals, any masks and any   *)
(* depth of nested handlers.                                               *)
(*                                                                         *)
(* StateSound holds with one CPU or several: mask, frames and dispositions *)
(* are written by T itself only, and each frame keeps the mask of the      *)
(* level below it (FramesKeepMasks), which contains the signals of the     *)
(* handlers that run there (HandlersBlock).                                *)
(*                                                                         *)
(* PendingExact and ContResumes are proved for one CPU (~MultiCore), where *)
(* they hold because a sender never runs while T does (OneAtATime), so     *)
(* that no word loaded from sigpending is stale when it is stored back     *)
(* (WordsFresh).  With several CPUs the former is false: see run           *)
(* signal_smp_lost.                                                        *)
(***************************************************************************)
EXTENDS Signal, SequenceTheorems, TLAPS

\* The sender inside sys_sigkill() sends a signal, and T is not gone.
SenderSound ==
    /\ snd.pc # "idle" => snd.signo \in Signals
    /\ state = "ZOMBIE" => snd = Idle

\* A frame holds the mask of the nesting level it interrupted ...
FramesKeepMasks == \A i \in DOMAIN frames : frames[i].mask = masks[i]

\* ... and what runs above it blocks the signal it was pushed for.
HandlersBlock == Unblock \/
    \A i \in DOMAIN frames, j \in DOMAIN masks :
        i < j => frames[i].signo \in masks[j]

\* The signal that do_signal() has taken was not blocked, and still is not.
TakenUnblocked == pc \in {"store", "act"} => signo \notin sigmask \ Unblockable

\* Once T is in exit() it is alone with its exit code, but for a SIGKILL from
\* another CPU.
LeavesWithReason ==
    /\ state = "ZOMBIE" => pc = "exit"
    /\ pc = "exit" => /\ state \in {"RUNNING", "ZOMBIE"}
                      /\ MultiCore \/ snd = Idle
                      /\ \/ exit_code = killed
                         \/ MultiCore /\ killed = -10 - SIGKILL

\* The inductive invariant for StateSound.
StateInv == /\ TypeOK /\ SenderSound
            /\ MaskRestored /\ FramesKeepMasks
            /\ HandlersBlock /\ TakenUnblocked /\ NoReentry
            /\ HandlersOfImage
            /\ LeavesWithReason

\* One CPU: T and a sender are never both in the middle of something.
OneAtATime ==
    /\ snd # Idle => state # "RUNNING"
    /\ state # "RUNNING" => pc \notin {"store", "act", "cont", "cstore", "stop"}

\* The word that is about to be stored back is still the one in memory.
WordsFresh ==
    /\ pc \in {"store", "cstore"} => tmp = sigpending
    /\ snd.pc \in {"store", "cstore"} => snd.tmp = sigpending

\* The inductive invariant for PendingExact.
PendingInv == OneAtATime /\ WordsFresh /\ PendingExact

\* A SIGSTOP that is pending, taken or carried out was sent after the
\* last SIGCONT, but for the sender that is just about to say so.
StopIsLast ==
    /\ SIGSTOP \in sigpending => \/ last = SIGSTOP
                                 \/ snd.pc = "act" /\ snd.signo = SIGSTOP
                                 \/ snd.pc \in {"cont", "cstore"}
    /\ pc \in {"store", "act"} /\ signo = SIGSTOP => last = SIGSTOP
    /\ pc = "stop" => last = SIGSTOP
    /\ state = "STOPPED" => last = SIGSTOP

\* The note that do_signal() leaves for usertrapret() likewise.
NoteIsLast == need_stop => last = SIGSTOP

\* The inductive invariant for ContResumes.
ContInv == PendingInv /\ StopIsLast /\ NoteIsLast
-----------------------------------------------------------------------------
(* The order of the signal numbers *)

\* A set of signal numbers has a first and a last member.
LEMMA BoundsExist ==
    ASSUME NEW S, S \subseteq 1 .. 10, S # {}
    PROVE  /\ \E s \in S : \A t \in S : s <= t
           /\ \E s \in S : \A t \in S : t <= s
<1> DEFINE Low(n) == \A t \in S : t >= n
           High(n) == \A t \in S : t <= n
<1>1. \A t \in S : t \in Int /\ 1 <= t /\ t <= 10
  OBVIOUS
<1>2. Low(1) /\ High(10) /\ ~Low(11) /\ ~High(0)
  <2>1. PICK x : x \in S
    OBVIOUS
  <2>2. Low(1) /\ High(10)
    BY <1>1
  <2> QED
    BY <1>1, <2>1, <2>2
<1>3. \E n \in 1 .. 10 : Low(n) /\ ~Low(n + 1)
  <2> HIDE DEF Low
  <2> QED
    BY <1>2
<1>4. \E n \in 1 .. 10 : High(n) /\ ~High(n - 1)
  <2> HIDE DEF High
  <2> QED
    BY <1>2
<1> QED
  BY <1>1, <1>3, <1>4

\* The loop of do_signal() runs over the signal numbers in use.
LEMMA LoopSignals ==
    /\ First \in Signals
    /\ \A s \in Signals : s # Final => Following(s) \in Signals
<1>1. First \in Signals
  BY BoundsExist, SignalAssumption DEF First
<1>2. Final \in Signals /\ \A t \in Signals : t <= Final
  BY BoundsExist, SignalAssumption DEF Final
<1>3. ASSUME NEW s \in Signals, s # Final
      PROVE  Following(s) \in Signals
  <2> DEFINE S == {t \in Signals : t > s}
  <2>1. Final \in S /\ S \subseteq 1 .. 10
    <3>1. Signals \subseteq 1 .. 10
      BY SignalAssumption
    <3>2. Final > s
      BY <1>2, <1>3, <3>1
    <3> QED
      BY <1>2, <3>1, <3>2
  <2>2. \E t \in S : \A u \in S : t <= u
    BY <2>1, BoundsExist
  <2>3. \E t \in Signals : t > s /\ \A u \in Signals : u > s => t <= u
    BY <2>2
  <2> QED
    BY <2>3 DEF Following
<1> QED
  BY <1>1, <1>3
-----------------------------------------------------------------------------
(* StateSound, for one CPU and for several *)

\* The stack of frames without its top.
LEMMA FrontLemma ==
    ASSUME NEW S, NEW s \in Seq(S), Len(s) > 0
    PROVE  /\ Front(s) \in Seq(S)
           /\ Len(Front(s)) = Len(s) - 1
           /\ \A i \in 1 .. Len(s) - 1 : Front(s)[i] = s[i]
           /\ Last(s) = s[Len(s)] /\ Last(s) \in S
<1>1. Len(s) \in Nat /\ \A i \in 1 .. Len(s) : s[i] \in S
  OBVIOUS
<1>2. Front(s) = SubSeq(s, 1, Len(s) - 1) /\ Last(s) = s[Len(s)]
  BY DEF Front, Last
<1> DEFINE n == Len(s) - 1
<1>3. n \in Int /\ n >= 0 /\ n - 1 + 1 = n /\ \A i \in 1 .. n : s[i] \in S /\ 1 + i - 1 = i
  BY <1>1
<1>4. /\ SubSeq(s, 1, n) \in Seq(S)
      /\ Len(SubSeq(s, 1, n)) = IF 1 <= n THEN n - 1 + 1 ELSE 0
      /\ \A i \in 1 .. n - 1 + 1 : SubSeq(s, 1, n)[i] = s[1 + i - 1]
  <2> HIDE DEF n
  <2> QED
    BY <1>3, SubSeqProperties
<1>5. /\ Len(SubSeq(s, 1, n)) = n
      /\ \A i \in 1 .. n : SubSeq(s, 1, n)[i] = s[i]
  <2> HIDE DEF n
  <2> QED
    BY <1>3, <1>4
<1> QED
  BY <1>1, <1>2, <1>4, <1>5

\* Every action keeps the types, and a sender never outlives T.
LEMMA TypeStep == ASSUME TypeOK, SenderSound, [Next]_vars
                  PROVE  TypeOK' /\ SenderSound'
<1> USE SignalAssumption DEF TypeOK, SenderSound, Idle, PCs, At, LockFree, Goto
<1>1. CASE Interrupt
  BY <1>1 DEF Interrupt, ksignal, user, history
<1>2. CASE PageFault
  BY <1>2 DEF PageFault, user, history
<1>3. CASE SysSigaction
  BY <1>3 DEF SysSigaction, Ecall, Handler, Dispositions, user, history
<1>4. CASE SysSigprocmask
  <2>1. sigmask' \subseteq Signals
    BY <1>4, ZenonT(40) DEF SysSigprocmask
  <2>2. masks' \in Seq(SUBSET Signals) /\ Len(masks') = Len(masks)
    <3>1. masks' = [masks EXCEPT ![Len(masks)] = sigmask']
      BY <1>4 DEF SysSigprocmask
    <3> QED
      BY <2>1, <3>1, ExceptSeq
  <2> QED
    BY <1>4, <2>1, <2>2 DEF SysSigprocmask, Ecall, user
<1>5. CASE SysSigreturn
  <2>1. Len(frames) > 0 /\ Len(masks) > 0
    BY <1>5 DEF SysSigreturn
  <2>2. /\ frames' \in Seq([signo : Signals, mask : SUBSET Signals])
        /\ masks' \in Seq(SUBSET Signals)
        /\ Len(frames') = Len(frames) - 1 /\ Len(masks') = Len(masks) - 1
        /\ sigmask' \subseteq Signals
    <3>1. frames' = Front(frames) /\ masks' = Front(masks)
          /\ sigmask' = Last(frames).mask
      BY <1>5 DEF SysSigreturn
    <3>2. Last(frames) \in [signo : Signals, mask : SUBSET Signals]
      BY <2>1, FrontLemma
    <3> QED
      BY <2>1, <3>1, <3>2, FrontLemma
  <2> QED
    BY <1>5, <2>2 DEF SysSigreturn, Ecall
<1>6. CASE SysSigkillSelf
  BY <1>6 DEF SysSigkillSelf, Ecall, SIGKILL, SIGSTOP, SIGCONT, user
<1>7. CASE SysExec
  BY <1>7 DEF SysExec, Ecall, Dispositions
<1>8. CASE SysFork
  BY <1>8 DEF SysFork, Ecall, user
<1>9. CASE SysBlock \/ SysRead \/ SysYield \/ SysExit \/ EcallKilled
  BY <1>9 DEF SysBlock, SysRead, SysYield, SysExit, EcallKilled, Ecall, ExitWith,
              ksignal, user, history
<1>10. CASE ExitDead \/ BlockTest \/ Sleep \/ ReadTest \/ Wakeup \/ Dispatch
  BY <1>10, ZenonT(40) DEF ExitDead, BlockTest, Sleep, ReadTest, Wakeup, Dispatch, ksignal, user, history
<1>11. CASE Alive \/ Alive2
  BY <1>11, LoopSignals DEF Alive, Alive2, ExitWith, ksignal, user, history
<1>12. CASE ScanSkip \/ ScanTake \/ ContTest \/ ActIgnore \/ ActNoStack
  <2>1. /\ UNCHANGED <<state, ksignal, user, snd, history>>
        /\ pc' \in PCs /\ signo' \in Signals /\ tmp' \subseteq Signals
    BY <1>12, LoopSignals, ZenonT(40) DEF ScanSkip, ScanTake, ContTest, ActIgnore,
         ActNoStack, Continue
  <2> QED
    BY <2>1 DEF ksignal, user, history
<1>13. CASE ScanStore \/ ContStore
  <2>1. /\ sigpending' \subseteq Signals /\ owed' \subseteq Signals
        /\ pc' \in PCs /\ signo' \in Signals /\ tmp' \subseteq Signals
    <3>1. CASE ScanStore
      BY <3>1 DEF ScanStore
    <3>2. CASE ContStore
      <4>1. sigpending' \subseteq Signals /\ owed' \subseteq Signals /\ tmp' = {}
        BY <3>2, ZenonT(40) DEF ContStore
      <4>2. CASE signo = Final
        BY <3>2, <4>1, <4>2 DEF ContStore
      <4>3. CASE signo # Final
        <5>1. pc' = "scan" /\ signo' = Following(signo)
          BY <3>2, <4>3 DEF ContStore
        <5> QED
          BY <4>1, <4>3, <5>1, LoopSignals
      <4> QED
        BY <4>2, <4>3
    <3> QED
      BY <1>13, <3>1, <3>2
  <2> QED
    BY <1>13, <2>1 DEF ScanStore, ContStore, user
<1>14. CASE ActStop \/ ActCont
  BY <1>14, LoopSignals, ZenonT(40) DEF ActStop, ActCont, Continue, user, history
<1>15. CASE ActDefault
  BY <1>15, LoopSignals DEF ActDefault, Ordinary, Continue, user, history
<1>16. CASE ActHandler
  <2>1. /\ BlockedInHandler(signo) \in SUBSET Signals
        /\ [signo |-> signo, mask |-> sigmask]
              \in [signo : Signals, mask : SUBSET Signals]
    BY DEF BlockedInHandler
  <2>2. /\ frames' \in Seq([signo : Signals, mask : SUBSET Signals])
        /\ masks' \in Seq(SUBSET Signals)
        /\ Len(frames') = Len(frames) + 1 /\ Len(masks') = Len(masks) + 1
        /\ sigmask' \subseteq Signals
    BY <1>16, <2>1, AppendProperties DEF ActHandler
  <2> QED
    BY <1>16, <2>2 DEF ActHandler
<1>17. CASE ReturnTest \/ Stop
  BY <1>17 DEF ReturnTest, Stop, ksignal, user, history
<1>18. CASE SendStart
  BY <1>18 DEF SendStart, proc, ksignal, user, history
<1>19. CASE SendStore
  <2>1. /\ state # "ZOMBIE" /\ snd.signo \in Signals
        /\ snd' = [snd EXCEPT !.pc = "act", !.tmp = {}]
    BY <1>19 DEF SendStore
  <2>2. /\ snd' \in [pc : {"idle", "store", "act", "cont", "cstore"},
                     signo : Signals \cup {0}, tmp : SUBSET Signals]
        /\ snd'.signo = snd.signo
    BY <2>1
  <2>3. sigpending' \subseteq Signals /\ owed' \subseteq Signals
    BY <1>19, <2>1 DEF SendStore
  <2> QED
    BY <1>19, <2>1, <2>2, <2>3 DEF SendStore, proc, user
<1>20. CASE SendAct
  <2>1. state # "ZOMBIE" /\ snd.signo \in Signals
    BY <1>20 DEF SendAct
  <2>2. /\ snd' \in [pc : {"idle", "store", "act", "cont", "cstore"},
                     signo : Signals \cup {0}, tmp : SUBSET Signals]
        /\ snd'.pc = "idle" \/ snd'.signo = snd.signo
    BY <1>20, <2>1 DEF SendAct
  <2>3. /\ state' \in {state, "RUNNABLE"} /\ killed' \in -20 .. 0
        /\ need_stop' \in BOOLEAN /\ last' \in {0, SIGSTOP, SIGCONT}
    BY <1>20, <2>1 DEF SendAct, SIGKILL
  <2> QED
    BY <1>20, <2>1, <2>2, <2>3 DEF SendAct, user
<1>21. CASE SendContTest \/ SendContStore
  <2>1. state # "ZOMBIE" /\ snd.signo \in Signals
    BY <1>21 DEF SendContTest, SendContStore
  <2>2. /\ snd' \in [pc : {"idle", "store", "act", "cont", "cstore"},
                     signo : Signals \cup {0}, tmp : SUBSET Signals]
        /\ snd'.pc = "idle" \/ snd'.signo = snd.signo
    <3>1. CASE SendContTest
      BY <2>1, <3>1 DEF SendContTest
    <3>2. CASE SendContStore
      BY <3>2 DEF SendContStore
    <3> QED
      BY <1>21, <3>1, <3>2
  <2>3. sigpending' \subseteq Signals /\ owed' \subseteq Signals
    BY <1>21 DEF SendContTest, SendContStore, ksignal, history
  <2>4. UNCHANGED <<state, pc, signo, tmp, sigmask, sa, killed, need_stop, exit_code, frames,
                    image, last, masks>>
    BY <1>21 DEF SendContTest, SendContStore, proc, ksignal, user, history
  <2> QED
    BY <2>1, <2>2, <2>3, <2>4
<1>22. CASE UNCHANGED vars
  BY <1>22 DEF vars, proc, ksignal, user, history
<1> QED
  BY <1>1, <1>2, <1>3, <1>4, <1>5, <1>6, <1>7, <1>8, <1>9, <1>10, <1>11, <1>12,
     <1>13, <1>14, <1>15, <1>16, <1>17, <1>18, <1>19, <1>20, <1>21, <1>22
     DEF Next, Program, Kernel, SenderGoesOn, Gone

\* Only three system calls and the entry of a handler touch mask or frames.
LEMMA MaskFrame ==
    ASSUME [Next]_vars, ~SysSigprocmask, ~SysSigreturn, ~SysExec, ~ActHandler
    PROVE  UNCHANGED <<sigmask, frames, masks>>
<1> USE DEF ksignal, user, history
<1>1. CASE Interrupt \/ Program
  BY <1>1 DEF Interrupt, Program, PageFault, SysSigaction, SysSigkillSelf, SysFork,
       SysBlock, SysRead, SysYield, SysExit, ExitWith
<1>2. CASE Kernel
  BY <1>2 DEF Kernel, EcallKilled, ExitDead, BlockTest, Sleep, ReadTest, Alive, ScanSkip, ScanTake,
       ScanStore, ActStop, ActCont, ContTest, ContStore, ActIgnore, ActDefault,
       ActNoStack, Alive2, ReturnTest, Stop, ExitWith
<1>3. CASE Dispatch \/ Wakeup \/ SendStart \/ SenderGoesOn
  BY <1>3 DEF Dispatch, Wakeup, SendStart, SenderGoesOn, SendStore, SendAct,
       SendContTest, SendContStore
<1>4. CASE UNCHANGED vars
  BY <1>4 DEF vars
<1> QED
  BY <1>1, <1>2, <1>3, <1>4 DEF Next, Gone

\* The mask follows the nesting of the handlers, and no handler nests in itself.
LEMMA MaskStep ==
    ASSUME StateInv, [Next]_vars
    PROVE  (MaskRestored /\ FramesKeepMasks /\ HandlersBlock /\ NoReentry)'
<1> DEFINE Frame == [signo : Signals, mask : SUBSET Signals]
<1>1. /\ frames \in Seq(Frame) /\ masks \in Seq(SUBSET Signals)
      /\ Len(masks) = Len(frames) + 1 /\ Len(frames) \in Nat
      /\ DOMAIN frames = 1 .. Len(frames) /\ DOMAIN masks = 1 .. Len(masks)
      /\ Unblock \in BOOLEAN
  BY SignalAssumption DEF StateInv, TypeOK
<1>2. sigmask = masks[Len(masks)]
  BY DEF StateInv, MaskRestored, Last
<1>3. /\ \A i \in DOMAIN frames : frames[i].mask = masks[i]
      /\ ~Unblock => \A i \in DOMAIN frames, j \in DOMAIN masks :
                        i < j => frames[i].signo \in masks[j]
      /\ ~Unblock => \A i, j \in DOMAIN frames :
                        frames[i].signo = frames[j].signo => i = j
  BY <1>1 DEF StateInv, FramesKeepMasks, HandlersBlock, NoReentry
<1>4. SUFFICES /\ sigmask' = masks'[Len(masks')]
               /\ \A i \in DOMAIN frames' : frames'[i].mask = masks'[i]
               /\ ~Unblock => \A i \in DOMAIN frames', j \in DOMAIN masks' :
                                 i < j => frames'[i].signo \in masks'[j]
               /\ ~Unblock => \A i, j \in DOMAIN frames' :
                                 frames'[i].signo = frames'[j].signo => i = j
  BY <1>1 DEF MaskRestored, FramesKeepMasks, HandlersBlock, NoReentry, Last
<1>5. CASE SysSigprocmask
  <2>1. /\ masks' = [masks EXCEPT ![Len(masks)] = sigmask']
        /\ frames' = frames
        /\ sigmask \subseteq sigmask' \/ Unblock \/ frames = <<>>
    BY <1>5 DEF SysSigprocmask, user
  <2>2. /\ DOMAIN masks' = DOMAIN masks /\ Len(masks') = Len(masks)
        /\ \A j \in DOMAIN masks :
              masks'[j] = IF j = Len(masks) THEN sigmask' ELSE masks[j]
    <3>1. sigmask' \subseteq Signals
      BY <1>5, SignalAssumption, ZenonT(40) DEF SysSigprocmask, StateInv, TypeOK
    <3> QED
      BY <1>1, <2>1, <3>1, ExceptSeq
  <2> QED
    BY <1>1, <1>2, <1>3, <2>1, <2>2
<1>6. CASE SysSigreturn
  <2>1. /\ Len(frames) > 0 /\ Len(masks) > 0
        /\ frames' = Front(frames) /\ masks' = Front(masks)
        /\ sigmask' = Last(frames).mask
    BY <1>1, <1>6 DEF SysSigreturn
  <2>2. /\ frames' \in Seq(Frame)
        /\ Len(frames') = Len(frames) - 1
        /\ \A i \in 1 .. Len(frames) - 1 : frames'[i] = frames[i]
        /\ sigmask' = frames[Len(frames)].mask
    <3> HIDE DEF Frame
    <3> QED
      BY <1>1, <2>1, FrontLemma
  <2>3. /\ masks' \in Seq(SUBSET Signals)
        /\ Len(masks') = Len(masks) - 1
        /\ \A i \in 1 .. Len(masks) - 1 : masks'[i] = masks[i]
    BY <1>1, <2>1, FrontLemma
  <2>4. /\ DOMAIN frames' = 1 .. Len(frames) - 1
        /\ DOMAIN masks' = 1 .. Len(frames) /\ Len(masks') = Len(frames)
        /\ \A i \in 1 .. Len(frames) : masks'[i] = masks[i]
        /\ Len(frames) \in DOMAIN frames
        /\ DOMAIN frames' \subseteq DOMAIN frames
        /\ DOMAIN masks' \subseteq DOMAIN masks
    BY <1>1, <2>1, <2>2, <2>3, SMTT(30)
  <2> QED
    BY <1>1, <1>3, <2>2, <2>4
<1>7. CASE SysExec
  <2>1. frames' = <<>> /\ masks' = <<sigmask>> /\ sigmask' = sigmask
    BY <1>7 DEF SysExec
  <2> QED
    BY <2>1
<1>8. CASE ActHandler
  <2>1. /\ frames' = Append(frames, [signo |-> signo, mask |-> sigmask])
        /\ masks' = Append(masks, BlockedInHandler(signo))
        /\ sigmask' = BlockedInHandler(signo)
        /\ signo \in sigmask' /\ sigmask \subseteq sigmask'
        /\ sigmask' \in SUBSET Signals
        /\ [signo |-> signo, mask |-> sigmask] \in Frame
    BY <1>8 DEF ActHandler, BlockedInHandler, Caught, Ordinary, At, StateInv, TypeOK
  <2>2. signo \notin sigmask
    BY <1>8 DEF ActHandler, Caught, Ordinary, At, StateInv, TakenUnblocked
  <2>3. /\ frames' \in Seq(Frame) /\ masks' \in Seq(SUBSET Signals)
        /\ Len(frames') = Len(frames) + 1 /\ Len(masks') = Len(masks) + 1
        /\ \A i \in 1 .. Len(frames) : frames'[i] = frames[i]
        /\ frames'[Len(masks)] = [signo |-> signo, mask |-> sigmask]
        /\ \A i \in 1 .. Len(masks) : masks'[i] = masks[i]
        /\ masks'[Len(masks) + 1] = sigmask'
    BY <1>1, <2>1, AppendProperties
  <2>4. /\ sigmask' = masks'[Len(masks')]
        /\ \A i \in DOMAIN frames' : frames'[i].mask = masks'[i]
    BY <1>1, <1>2, <1>3, <2>3
  <2>5. ASSUME ~Unblock
        PROVE  \A i \in DOMAIN frames : frames[i].signo \in sigmask
    BY <1>1, <1>2, <1>3, <2>5
  <2>6. ASSUME ~Unblock
        PROVE  \A i \in DOMAIN frames', j \in DOMAIN masks' :
                  i < j => frames'[i].signo \in masks'[j]
    BY <1>1, <1>3, <2>1, <2>3, <2>5, <2>6
  <2>7. ASSUME ~Unblock
        PROVE  \A i, j \in DOMAIN frames' :
                  frames'[i].signo = frames'[j].signo => i = j
    BY <1>1, <1>3, <2>2, <2>3, <2>5, <2>7
  <2> QED
    BY <2>4, <2>6, <2>7
<1>9. CASE ~SysSigprocmask /\ ~SysSigreturn /\ ~SysExec /\ ~ActHandler
  BY <1>2, <1>3, <1>9, MaskFrame
<1> QED
  BY <1>5, <1>6, <1>7, <1>8, <1>9

\* do_signal() acts on a signal with the mask it tested.
LEMMA TakenStep == ASSUME TakenUnblocked, [Next]_vars PROVE TakenUnblocked'
<1> USE DEF TakenUnblocked, At, Goto
<1>1. CASE Interrupt \/ Program
  BY <1>1 DEF Interrupt, Program, PageFault, SysSigaction, SysSigprocmask,
       SysSigreturn, SysSigkillSelf, SysExec, SysFork, SysBlock, SysRead, SysYield, SysExit,
       Ecall, ExitWith
<1>2. CASE EcallKilled \/ ExitDead \/ BlockTest \/ Sleep \/ ReadTest
           \/ Alive \/ Alive2 \/ ReturnTest \/ Stop
  BY <1>2 DEF EcallKilled, ExitDead, BlockTest, Sleep, ReadTest, Alive, Alive2, ReturnTest, Stop,
       ExitWith
<1>3. CASE ScanSkip \/ ActStop \/ ActCont \/ ContTest \/ ContStore \/ ActIgnore
           \/ ActDefault \/ ActNoStack \/ ActHandler
  BY <1>3 DEF ScanSkip, ActStop, ActCont, ContTest, ContStore, ActIgnore,
       ActDefault, ActNoStack, ActHandler, Continue
<1>4. CASE ScanTake
  BY <1>4 DEF ScanTake, ksignal
<1>5. CASE ScanStore
  BY <1>5 DEF ScanStore
<1>6. CASE Dispatch \/ Wakeup \/ SendStart \/ SenderGoesOn \/ UNCHANGED vars
  BY <1>6 DEF Dispatch, Wakeup, SendStart, SenderGoesOn, SendStore, SendAct,
       SendContTest, SendContStore, vars, proc, ksignal
<1> QED
  BY <1>1, <1>2, <1>3, <1>4, <1>5, <1>6 DEF Next, Kernel, Gone

\* exec() forgets the handlers of the old program, and sigaction() installs
\* those of the present one.
LEMMA HandlersStep == ASSUME TypeOK, HandlersOfImage, [Next]_vars
                      PROVE  HandlersOfImage'
<1> USE DEF HandlersOfImage, Handler
<1>1. CASE SysSigaction
  BY <1>1 DEF SysSigaction, TypeOK, user
<1>2. CASE SysExec
  BY <1>2 DEF SysExec
<1>3. CASE ~SysSigaction /\ ~SysExec
  <2> USE DEF ksignal, user
  <2>1. CASE Interrupt \/ Program
    BY <1>3, <2>1 DEF Interrupt, Program, PageFault, SysSigprocmask, SysSigreturn,
         SysSigkillSelf, SysFork, SysBlock, SysRead, SysYield, SysExit, ExitWith
  <2>2. CASE Kernel
    BY <2>2 DEF Kernel, EcallKilled, ExitDead, BlockTest, Sleep, ReadTest, Alive, ScanSkip, ScanTake,
         ScanStore, ActStop, ActCont, ContTest, ContStore, ActIgnore, ActDefault,
         ActNoStack, ActHandler, Alive2, ReturnTest, Stop, ExitWith
  <2>3. CASE Dispatch \/ Wakeup \/ SendStart \/ SenderGoesOn \/ UNCHANGED vars
    BY <2>3 DEF Dispatch, Wakeup, SendStart, SenderGoesOn, SendStore, SendAct,
         SendContTest, SendContStore, vars
  <2> QED
    BY <1>3, <2>1, <2>2, <2>3 DEF Next, Gone
<1> QED
  BY <1>1, <1>2, <1>3

\* T exits with p->killed, and nobody sends to a process that is gone.
LEMMA ExitStep == ASSUME SenderSound, LeavesWithReason, [Next]_vars PROVE LeavesWithReason'
<1> USE DEF LeavesWithReason, At, Goto, ExitWith, LockFree, ksignal, user
<1>1. CASE Interrupt \/ Program
  BY <1>1 DEF Interrupt, Program, PageFault, SysSigaction, SysSigprocmask,
       SysSigreturn, SysSigkillSelf, SysExec, SysFork, SysBlock, SysRead, SysYield, SysExit,
       Ecall
<1>2. CASE EcallKilled \/ Alive \/ Alive2
  BY <1>2 DEF EcallKilled, Alive, Alive2
<1>3. CASE ExitDead \/ BlockTest \/ Sleep \/ ReadTest \/ ReturnTest \/ Stop
  BY <1>3 DEF ExitDead, BlockTest, Sleep, ReadTest, ReturnTest, Stop
<1>4. CASE ScanSkip \/ ScanTake \/ ScanStore \/ ActStop \/ ActCont \/ ContTest
           \/ ContStore \/ ActIgnore \/ ActDefault \/ ActNoStack \/ ActHandler
  BY <1>4 DEF ScanSkip, ScanTake, ScanStore, ActStop, ActCont, ContTest, ContStore,
       ActIgnore, ActDefault, ActNoStack, ActHandler, Continue, Ordinary, Caught
<1>5. CASE Dispatch \/ Wakeup
  BY <1>5 DEF Dispatch, Wakeup
<1>6. CASE SendStart
  BY <1>6 DEF SendStart, proc
<1>7. CASE SendStore \/ SendContTest \/ SendContStore
  BY <1>7 DEF SendStore, SendContTest, SendContStore, Idle, proc
<1>8. CASE SendAct
  <2>1. pc = "exit" => MultiCore /\ state = "RUNNING"
    BY <1>8 DEF SendAct, Idle, SenderSound
  <2>2. pc' = pc /\ exit_code' = exit_code
    BY <1>8 DEF SendAct
  <2>3. killed' = killed \/ killed' = -10 - SIGKILL
    BY <1>8, Zenon DEF SendAct
  <2>4. state' = state \/ (state' = "RUNNABLE" /\ state \in {"SLEEPING", "STOPPED"})
    BY <1>8 DEF SendAct, Woken, Continued
  <2> QED
    BY <2>1, <2>2, <2>3, <2>4
<1>9. CASE UNCHANGED vars
  BY <1>9 DEF vars, proc
<1> QED
  BY <1>1, <1>2, <1>3, <1>4, <1>5, <1>6, <1>7, <1>8, <1>9
     DEF Next, Kernel, SenderGoesOn, Gone

\* The inductive invariant holds.
LEMMA StateInvariant == Spec => []StateInv
<1>1. Init => StateInv
  <2> SUFFICES ASSUME Init PROVE StateInv
    OBVIOUS
  <2> USE DEF Init
  <2>1. frames = <<>> /\ masks = <<{}>> /\ Len(masks) = 1 /\ masks[1] = {}
    OBVIOUS
  <2>2. masks \in Seq(SUBSET Signals)
    BY <2>1
  <2>3. TypeOK
    <3>1. /\ frames \in Seq([signo : Signals, mask : SUBSET Signals])
          /\ Len(frames) = 0 /\ 0 <= MaxFrames
      BY <2>1, SignalAssumption
    <3>2. sa \in [Signals -> [h : Dispositions, mask : SUBSET Signals]]
      BY DEF Dispositions
    <3>3. snd \in [pc : {"idle", "store", "act", "cont", "cstore"},
                   signo : Signals \cup {0}, tmp : SUBSET Signals]
      BY DEF Idle
    <3>4. /\ state = "RUNNING" /\ pc \in PCs /\ signo \in Signals
          /\ killed \in -20 .. 0 /\ need_stop \in BOOLEAN /\ exit_code \in -20 .. 0
          /\ image \in 0 .. 1 /\ last \in {0, SIGSTOP, SIGCONT}
      <4>1. pc \in PCs /\ signo \in Signals
        BY LoopSignals DEF PCs
      <4>2. killed = 0 /\ exit_code = 0 /\ image = 0 /\ last = 0
        OBVIOUS
      <4>3. need_stop \in BOOLEAN
        <5>1. need_stop = FALSE
          OBVIOUS
        <5> QED
          BY <5>1, Zenon
      <4>4. killed \in -20 .. 0 /\ exit_code \in -20 .. 0 /\ image \in 0 .. 1
        BY <4>2
      <4> QED
        BY <4>1, <4>2, <4>3, <4>4
    <3>5. tmp = {} /\ sigpending = {} /\ sigmask = {} /\ owed = {}
      OBVIOUS
    <3> HIDE DEF Init
    <3> QED
      BY <2>1, <2>2, <3>1, <3>2, <3>3, <3>4, <3>5 DEF TypeOK
  <2>4. MaskRestored /\ FramesKeepMasks /\ HandlersBlock /\ NoReentry
    BY <2>1 DEF MaskRestored, FramesKeepMasks, HandlersBlock, NoReentry, Last
  <2>5. SenderSound /\ TakenUnblocked /\ HandlersOfImage /\ LeavesWithReason
    BY DEF SenderSound, Idle, TakenUnblocked, HandlersOfImage, LeavesWithReason
  <2> QED
    BY <2>3, <2>4, <2>5 DEF StateInv
<1>2. StateInv /\ [Next]_vars => StateInv'
  BY TypeStep, MaskStep, TakenStep, HandlersStep, ExitStep DEF StateInv
<1> QED
  BY <1>1, <1>2, PTL DEF Spec

\* The signal state of a process is its own, for any signals, masks and nesting,
\* with one CPU and with several: types, the mask of do_signal() and
\* sys_sigreturn(), the handlers of the program that runs, no handler entered
\* again, and the exit code of the last reason to die.
THEOREM StateIsSound == Spec => []StateSound
<1>1. StateInv => StateSound
  BY DEF StateInv, StateSound, LeavesWithReason, ExitReason
<1> QED
  BY <1>1, StateInvariant, PTL

-----------------------------------------------------------------------------
(* PendingExact and ContResumes, for one CPU *)

\* On one CPU a sender finds T in yield(), in sleep(), stopped or gone, never in
\* the middle of do_signal() or usertrapret().
LEMMA OneStep == ASSUME ~MultiCore, OneAtATime, [Next]_vars PROVE OneAtATime'
<1> USE DEF OneAtATime, At, Goto
<1>1. CASE Interrupt \/ Program
  BY <1>1 DEF Interrupt, Program, PageFault, SysSigaction, SysSigprocmask,
       SysSigreturn, SysSigkillSelf, SysExec, SysFork, SysBlock, SysRead, SysYield, SysExit,
       Ecall, LockFree, ExitWith
<1>2. CASE EcallKilled \/ ExitDead \/ BlockTest \/ Sleep \/ ReadTest
           \/ Alive \/ Alive2 \/ ReturnTest \/ Stop
  BY <1>2 DEF EcallKilled, ExitDead, BlockTest, Sleep, ReadTest, Alive, Alive2, ReturnTest, Stop,
       LockFree, ExitWith
<1>3. CASE ScanSkip \/ ScanTake \/ ScanStore \/ ActStop \/ ActCont \/ ContTest
           \/ ContStore \/ ActIgnore \/ ActDefault \/ ActNoStack \/ ActHandler
  BY <1>3 DEF ScanSkip, ScanTake, ScanStore, ActStop, ActCont, ContTest, ContStore,
       ActIgnore, ActDefault, ActNoStack, ActHandler, Continue, Ordinary, Caught
<1>4. CASE Dispatch \/ Wakeup \/ SendStart
  BY <1>4 DEF Dispatch, Wakeup, SendStart, LockFree, proc
<1>5. CASE SenderGoesOn
  BY <1>5 DEF SenderGoesOn, SendStore, SendAct, SendContTest, SendContStore,
       Woken, Continued, Idle, proc
<1>6. CASE UNCHANGED vars
  BY <1>6 DEF vars, proc
<1> QED
  BY <1>1, <1>2, <1>3, <1>4, <1>5, <1>6 DEF Next, Kernel, Gone

\* Who is between the load and the store of sigpending is alone with it.
LEMMA PendingStep ==
    ASSUME ~MultiCore, TypeOK, PendingInv, [Next]_vars
    PROVE  PendingInv'
<1>1. OneAtATime'
  BY OneStep DEF PendingInv
<1>2. WordsFresh' /\ PendingExact'
  <2> USE DEF PendingInv, OneAtATime, WordsFresh, PendingExact, At, Goto
  <2>0. CASE SysSigkillSelf \/ SysFork
    <3>1. snd.pc = "idle" /\ snd' = snd /\ pc' \in {"alive", "ret"}
      BY <2>0 DEF SysSigkillSelf, SysFork, Ecall, LockFree, Idle
    <3>2. sigpending' = owed'
      BY <2>0 DEF SysSigkillSelf, SysFork
    <3> QED
      BY <3>1, <3>2
  <2>1. CASE Interrupt \/ (Program /\ ~SysSigkillSelf /\ ~SysFork)
    BY <2>1 DEF Interrupt, Program, PageFault, SysSigaction, SysSigprocmask,
         SysSigreturn, SysExec, SysBlock, SysRead, SysYield, SysExit, Ecall, ExitWith,
         ksignal, history
  <2>2. CASE EcallKilled \/ ExitDead \/ BlockTest \/ Sleep \/ ReadTest
           \/ Alive \/ Alive2 \/ ReturnTest \/ Stop
    BY <2>2 DEF EcallKilled, ExitDead, BlockTest, Sleep, ReadTest, Alive, Alive2, ReturnTest, Stop,
         ExitWith, ksignal, history
  <2>3. CASE ScanSkip \/ ScanTake \/ ContTest
    BY <2>3 DEF ScanSkip, ScanTake, ContTest, Continue, Idle, ksignal, history
  <2>4. CASE ScanStore \/ ContStore
    BY <2>4 DEF ScanStore, ContStore, Idle
  <2>5. CASE ActStop \/ ActCont \/ ActIgnore \/ ActDefault \/ ActNoStack \/ ActHandler
    BY <2>5 DEF ActStop, ActCont, ActIgnore, ActDefault, ActNoStack, ActHandler,
         Continue, Ordinary, Caught, ksignal, history
  <2>6. CASE Dispatch \/ Wakeup \/ SendStart
    BY <2>6 DEF Dispatch, Wakeup, SendStart, LockFree, proc, ksignal, history
  <2>7. CASE SendStore
    BY <2>7 DEF SendStore, Idle, TypeOK, proc
  <2>8. CASE SendAct
    BY <2>8 DEF SendAct, Idle, TypeOK
  <2>9. CASE SendContTest
    BY <2>9 DEF SendContTest, Idle, TypeOK, proc, ksignal, history
  <2>10. CASE SendContStore
    BY <2>10 DEF SendContStore, Idle, proc
  <2>11. CASE UNCHANGED vars
    BY <2>11 DEF vars, proc, ksignal, history
  <2> QED
    BY <2>0, <2>1, <2>2, <2>3, <2>4, <2>5, <2>6, <2>7, <2>8, <2>9, <2>10, <2>11
       DEF Next, Program, Kernel, SenderGoesOn, Gone
<1> QED
  BY <1>1, <1>2 DEF PendingInv

\* On one CPU no signal is lost and none is delivered twice: sigpending holds
\* exactly what sys_sigkill() was asked to send and do_signal() has not taken.
THEOREM PendingIsExact == ASSUME ~MultiCore PROVE Spec => []PendingExact
<1>1. Init => PendingInv
  BY DEF Init, PendingInv, OneAtATime, WordsFresh, PendingExact, Idle
<1>2. StateInv /\ PendingInv /\ [Next]_vars => PendingInv'
  BY PendingStep DEF StateInv
<1>3. PendingInv => PendingExact
  BY DEF PendingInv
<1> QED
  BY <1>1, <1>2, <1>3, StateInvariant, PTL DEF Spec

\* A SIGSTOP that is pending, taken or carried out is the last one sent.
LEMMA StopStep ==
    ASSUME ~MultiCore, TypeOK, ContInv, [Next]_vars
    PROVE  StopIsLast'
<1> USE DEF ContInv, PendingInv, OneAtATime, WordsFresh, StopIsLast, At, Goto
<1>1. CASE SysSigkillSelf
  <2>1. /\ snd' = snd /\ snd.pc = "idle"
        /\ state' = "RUNNING" /\ pc' = "alive"
    BY <1>1 DEF SysSigkillSelf, Ecall, LockFree, Idle
  <2>2. SIGSTOP \in sigpending' => last' = SIGSTOP
    <3>1. SIGSTOP \in sigpending => last = SIGSTOP
      BY <2>1
    <3>2. PICK s \in Signals :
            /\ sigpending' = IF s = SIGKILL THEN sigpending
                 ELSE (sigpending \ (IF s = SIGCONT THEN {SIGSTOP} ELSE {}))
                         \cup {s}
            /\ last' = IF s \in {SIGSTOP, SIGCONT} THEN s ELSE last
      BY <1>1 DEF SysSigkillSelf
    <3> QED
      BY <3>1, <3>2 DEF SIGKILL, SIGSTOP, SIGCONT
  <2> QED
    BY <2>1, <2>2
<1>2. CASE SysFork
  BY <1>2 DEF SysFork, Ecall
<1>3. CASE Interrupt \/ (Program /\ ~SysSigkillSelf /\ ~SysFork)
  BY <1>3 DEF Interrupt, Program, PageFault, SysSigaction, SysSigprocmask,
       SysSigreturn, SysExec, SysBlock, SysRead, SysYield, SysExit, Ecall, ExitWith,
       ksignal, history
<1>4. CASE EcallKilled \/ ExitDead \/ BlockTest \/ Sleep \/ ReadTest
           \/ Alive \/ Alive2
  BY <1>4 DEF EcallKilled, ExitDead, BlockTest, Sleep, ReadTest, Alive, Alive2, ExitWith, ksignal,
       history
<1>5. CASE ReturnTest \/ Stop
  BY <1>5 DEF ReturnTest, Stop, NoteIsLast, ksignal, history
<1>6. CASE ScanSkip \/ ScanTake \/ ContTest \/ ActIgnore \/ ActDefault \/ ActNoStack
           \/ ActHandler
  BY <1>6 DEF ScanSkip, ScanTake, ContTest, ActIgnore, ActDefault, ActNoStack,
       ActHandler, Continue, Ordinary, Caught, Idle, ksignal, history
<1>7. CASE ScanStore \/ ContStore
  BY <1>7 DEF ScanStore, ContStore, Idle
<1>8. CASE ActStop \/ ActCont
  BY <1>8 DEF ActStop, ActCont, Continue, history
<1>9. CASE Dispatch \/ Wakeup \/ SendStart
  <2>1. snd.pc = "idle"
    BY <1>9 DEF Dispatch, Wakeup, SendStart, LockFree, Idle
  <2>2. UNCHANGED <<sigpending, last, pc, signo>>
    BY <1>9 DEF Dispatch, Wakeup, SendStart, proc, ksignal, history
  <2>3. state' \in {"RUNNING", "RUNNABLE", state}
    BY <1>9 DEF Dispatch, Wakeup, SendStart, proc
  <2> QED
    BY <2>1, <2>2, <2>3
<1>10. CASE SendStore
  BY <1>10 DEF SendStore, Idle, TypeOK, proc
<1>11. CASE SendAct
  <2>1. /\ snd # Idle /\ UNCHANGED <<pc, signo, sigpending>>
        /\ state # "RUNNING" /\ pc \notin {"store", "act", "stop"}
    BY <1>11 DEF SendAct, Idle
  <2>2. CASE snd.signo = SIGCONT
    <3>1. snd'.pc = "cont" /\ state' # "STOPPED"
      BY <1>11, <2>2 DEF SendAct, Continued, TypeOK
    <3> QED
      BY <2>1, <3>1
  <2>3. CASE snd.signo = SIGSTOP
    <3>1. last' = SIGSTOP
      BY <1>11, <2>3 DEF SendAct
    <3> QED
      BY <3>1
  <2>4. CASE snd.signo \notin {SIGSTOP, SIGCONT}
    <3>1. last' = last /\ state' \in {state, "RUNNABLE"}
      BY <1>11, <2>4 DEF SendAct
    <3>2. SIGSTOP \in sigpending => last = SIGSTOP
      BY <1>11, <2>4 DEF SendAct
    <3> QED
      BY <2>1, <3>1, <3>2
  <2> QED
    BY <2>2, <2>3, <2>4
<1>12. CASE SendContTest
  BY <1>12 DEF SendContTest, Idle, TypeOK, proc, ksignal, history
<1>13. CASE SendContStore
  BY <1>13 DEF SendContStore, Idle, proc
<1>14. CASE UNCHANGED vars
  BY <1>14 DEF vars, proc, ksignal, history
<1> QED
  BY <1>1, <1>2, <1>3, <1>4, <1>5, <1>6, <1>7, <1>8, <1>9, <1>10, <1>11, <1>12,
     <1>13, <1>14 DEF Next, Program, Kernel, SenderGoesOn, Gone

\* So is the one that need_stop stands for.
LEMMA NoteStep ==
    ASSUME ~MultiCore, ContInv, [Next]_vars
    PROVE  NoteIsLast'
<1> USE DEF ContInv, NoteIsLast
<1>1. CASE SysSigkillSelf
  <2>1. PICK s \in Signals :
          /\ need_stop' = (s # SIGCONT /\ need_stop)
          /\ last' = IF s \in {SIGSTOP, SIGCONT} THEN s ELSE last
    BY <1>1 DEF SysSigkillSelf
  <2> QED
    BY <2>1
<1>2. CASE SendAct
  <2>1. /\ need_stop' = (snd.signo # SIGCONT /\ need_stop)
        /\ last' = IF snd.signo \in {SIGSTOP, SIGCONT} THEN snd.signo ELSE last
    BY <1>2 DEF SendAct
  <2> QED
    BY <2>1
<1>3. CASE ActStop
  BY <1>3 DEF ActStop, At, StopIsLast, history
<1>4. CASE SysFork \/ ActCont \/ ReturnTest
  <2>1. need_stop' = FALSE
    BY <1>4 DEF SysFork, ActCont, ReturnTest
  <2> QED
    BY <2>1
<1>5. CASE Interrupt \/ (Program /\ ~SysSigkillSelf /\ ~SysFork)
  BY <1>5 DEF Interrupt, Program, PageFault, SysSigaction, SysSigprocmask,
       SysSigreturn, SysExec, SysBlock, SysRead, SysYield, SysExit, ExitWith, ksignal, history
<1>6. CASE Kernel /\ ~ActStop /\ ~ActCont /\ ~ReturnTest
  BY <1>6 DEF Kernel, EcallKilled, ExitDead, BlockTest, Sleep, ReadTest, Alive, ScanSkip, ScanTake,
       ScanStore, ContTest, ContStore, ActIgnore, ActDefault, ActNoStack,
       ActHandler, Alive2, Stop, ExitWith, ksignal, history
<1>7. CASE Dispatch \/ Wakeup \/ SendStart \/ SendStore \/ SendContTest
           \/ SendContStore \/ UNCHANGED vars
  BY <1>7 DEF Dispatch, Wakeup, SendStart, SendStore, SendContTest, SendContStore,
       vars, ksignal, history
<1> QED
  BY <1>1, <1>2, <1>3, <1>4, <1>5, <1>6, <1>7
     DEF Next, Program, Kernel, SenderGoesOn, Gone

\* On one CPU SIGCONT resumes: a process that is STOPPED with nobody inside
\* sys_sigkill() has got no SIGCONT since its last SIGSTOP, whichever of the
\* pending word, need_stop and the STOPPED state the two signals met in.
THEOREM ContAlwaysResumes == ASSUME ~MultiCore PROVE Spec => []ContResumes
<1>1. Init => ContInv
  <2>1. Init => PendingInv /\ StopIsLast
    BY DEF Init, PendingInv, OneAtATime, WordsFresh, PendingExact, StopIsLast, Idle
  <2>2. Init => NoteIsLast
    BY DEF Init, NoteIsLast
  <2> QED
    BY <2>1, <2>2 DEF ContInv
<1>2. StateInv /\ ContInv /\ [Next]_vars => ContInv'
  BY PendingStep, StopStep, NoteStep DEF StateInv, ContInv
<1>3. ContInv => ContResumes
  BY DEF ContInv, StopIsLast, ContResumes
<1> QED
  BY <1>1, <1>2, <1>3, StateInvariant, PTL DEF Spec
=============================================================================
