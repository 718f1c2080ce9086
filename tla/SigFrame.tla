------------------------------ MODULE SigFrame ------------------------------
(***************************************************************************)
(* The user context around a signal handler: how do_signal() saves it on   *)
(* the user stack and enters the handler, and how sys_sigreturn() brings   *)
(* it back (os/signal/ksignal.c), with the store of the return value by    *)
(* syscall() (os/syscall.c).  Which signal is delivered when is module     *)
(* Signal; here one may arrive at any instruction of the program.          *)
(*                                                                         *)
(* Registers: epc, sp, ra, the arguments a0 .. a2, t6, and s0 standing for *)
(* the others, which are all treated alike.  The stack is an array of      *)
(* words with the frame sizes and the page size scaled down.               *)
(***************************************************************************)
EXTENDS Integers, Sequences, SequencesExt

CONSTANTS Top,     \* USTACK_START; the stack occupies the words 0 .. Top - 1
          STACK_PGSIZE, INFO_SIZE, UC_SIZE, \* page, siginfo_t and ucontext in words
          Val      \* the values of a0, t6 and s0; 0 is one of them

ASSUME FrameAssumption ==
    /\ STACK_PGSIZE \in Nat \ {0} /\ INFO_SIZE \in Nat \ {0} /\ UC_SIZE \in Nat \ {0}
    /\ INFO_SIZE + UC_SIZE <= STACK_PGSIZE
    /\ Top \in Nat /\ Top % STACK_PGSIZE = 0
    /\ Val \subseteq Nat /\ 0 \in Val

Code == {"main", "handler", "restorer"}
Addr == 0 .. Top - 1
SigNo == 5   \* the signal number passed in a0

Context == [epc : Code, sp : 0 .. Top, ra : Code, a0 : Val \cup {SigNo},
            a1 : Val \cup Addr, a2 : Val \cup Addr, t6 : Val, s0 : Val]

VARIABLES tf,      \* the user registers, saved in the trapframe in the kernel
          mem,     \* the user stack: <<uc>> in the words of a ucontext, else <<>>
          saved,   \* history: the contexts that handlers have interrupted
          entry    \* history: the value of sp at the handlers' first instructions

frameVars == <<tf, mem, saved, entry>>

FrameTypeOK ==
    /\ tf \in Context
    /\ mem \in [Addr -> Seq(Context)]
    /\ saved \in Seq(Context) /\ entry \in Seq(0 .. Top)
    /\ Len(saved) = Len(entry)

FrameInit ==
    /\ tf = [epc |-> "main", sp |-> Top, ra |-> "main", a0 |-> 0, a1 |-> 0,
             a2 |-> 0, t6 |-> 0, s0 |-> 0]
    /\ mem = [a \in Addr |-> <<>>]
    /\ saved = <<>> /\ entry = <<>>

-----------------------------------------------------------------------------
(* The program.  It may not touch the stack above the frame it runs in.     *)

Base == IF entry = <<>> THEN Top ELSE Last(entry)

\* An instruction that computes.
Compute ==
    /\ tf.epc \in {"main", "handler"}
    /\ \E v \in Val, r \in {"a0", "t6", "s0"} : tf' = [tf EXCEPT ![r] = v]
    /\ UNCHANGED <<mem, saved, entry>>

Push ==
    /\ tf.epc \in {"main", "handler"} /\ tf.sp > 0
    /\ tf' = [tf EXCEPT !.sp = @ - 1]
    /\ mem' = [mem EXCEPT ![tf.sp - 1] = <<>>]
    /\ UNCHANGED <<saved, entry>>

Pop ==
    /\ tf.epc \in {"main", "handler"} /\ tf.sp < Base
    /\ tf' = [tf EXCEPT !.sp = @ + 1]
    /\ UNCHANGED <<mem, saved, entry>>

\* The handler returns to sa_restorer, with sp as it found it.
HandlerReturns ==
    /\ tf.epc = "handler" /\ tf.sp = Base
    /\ tf' = [tf EXCEPT !.epc = tf.ra]
    /\ UNCHANGED <<mem, saved, entry>>

-----------------------------------------------------------------------------
(* The kernel *)

PGROUNDDOWN(a) == (a \div STACK_PGSIZE) * STACK_PGSIZE

\* Mutant: the size of siginfo_t is forgotten.
NewSpTight(sp) == PGROUNDDOWN(sp - UC_SIZE)

\* Where the frame goes: below sp, at the start of a page.
NewSp(sp) == PGROUNDDOWN(sp - UC_SIZE - INFO_SIZE)

\* siginfo_t at the new sp and the ucontext behind it.
WithFrame(sp) ==
    [a \in Addr |-> CASE a \in sp .. sp + INFO_SIZE - 1 -> <<>>
                      [] a \in sp + INFO_SIZE
                                .. sp + INFO_SIZE + UC_SIZE - 1 -> <<tf>>
                      [] OTHER -> mem[a]]

\* do_signal() with a handler.  A frame below the stack cannot be copied, and
\* the signal is dropped.
DoSignal ==
    LET sp == NewSp(tf.sp)
    IN  /\ tf.sp - UC_SIZE - INFO_SIZE >= 0
        /\ mem' = WithFrame(sp)
        /\ tf' = [tf EXCEPT !.epc = "handler", !.sp = sp, !.ra = "restorer",
                            !.a0 = SigNo, !.a1 = sp, !.a2 = sp + INFO_SIZE]
        /\ saved' = Append(saved, tf) /\ entry' = Append(entry, sp)

\* Mutant: sys_sigreturn() reads siginfo_t as the ucontext's first word.
UcAddrLow(sp) == sp

\* Where sys_sigreturn() expects the ucontext.
UcAddr(sp) == sp + INFO_SIZE

\* Mutant: sp is left where the handler had it.
RestoredNoSp(uc) == [uc EXCEPT !.t6 = 0, !.a0 = 0, !.sp = tf.sp]

\* The registers after sys_sigreturn() and syscall(): regs[] has no room for
\* t6, which becomes 0, and a0 becomes the return value, 0.
Restored(uc) == [uc EXCEPT !.t6 = 0, !.a0 = 0]

\* sys_sigreturn() from the restorer.
SysSigreturn ==
    /\ tf.epc = "restorer"
    /\ mem[UcAddr(tf.sp)] # <<>>
    /\ tf' = Restored(mem[UcAddr(tf.sp)][1])
    /\ saved' = Front(saved) /\ entry' = Front(entry)
    /\ UNCHANGED mem

FrameNext == Compute \/ Push \/ Pop \/ HandlerReturns \/ DoSignal \/ SysSigreturn

FrameSpec == FrameInit /\ [][FrameNext]_frameVars

-----------------------------------------------------------------------------
(* Properties *)

\* Until a handler returns, the ucontext in its frame is the context that it
\* interrupted: neither nested frames nor the handlers' own use of the stack
\* overwrite it.
FramesIntact == \A i \in DOMAIN entry : mem[UcAddr(entry[i])] = <<saved[i]>>

\* The user stack stays typed and every frame on it intact, however the handlers
\* nest and whatever they do with the stack.
FrameSound == FrameTypeOK /\ FramesIntact

\* The kernel writes the frame below the interrupted sp only: what the program
\* keeps on its stack survives a signal at any instruction.
LiveStackKept ==
    [][DoSignal => \A a \in tf.sp .. Top - 1 : mem'[a] = mem[a]]_frameVars

\* A handler that returns, returns to the instruction and the stack that it
\* interrupted, with every register restored except a0 and t6.
ContextRestored ==
    [][SysSigreturn => \A r \in DOMAIN tf \ {"a0", "t6"} :
                          tf'[r] = Last(saved)[r]]_frameVars
=============================================================================
