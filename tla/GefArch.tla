------------------------------ MODULE GefArch ------------------------------
(***************************************************************************)
(* What the debugger extension says of the conditional branch the process  *)
(* is stopped at: is_conditional_branch() and is_branch_taken() of the     *)
(* architectures of src/scripts/gef.py.  The verdict is computed from the  *)
(* flag register, or from the registers compared, and must be what the CPU *)
(* is about to do.                                                         *)
(*                                                                         *)
(* A job is an instruction, the Width-bit numbers compared (the flags are  *)
(* the ones a comparison of the two leaves), and whether GDB gives the     *)
(* registers a signed type.  The form "other" is what the tests of names    *)
(* let through: on ARM an instruction that is no branch and ends in the    *)
(* letters of a condition, on PowerPC a branch on another field of the     *)
(* condition register.                                                     *)
(***************************************************************************)
EXTENDS GefCommand

CONSTANT Width   \* bits of a register

ASSUME WidthBound == Width \in Nat \ {0}

\* Arithmetic, for the proofs.
ASSUME PowersOfTwo ==
    \A i \in 0 .. Width : 2^i \in Nat \ {0} /\ (i > 0 => 2^i = 2 * 2^(i - 1))

Words == 0 .. 2^Width - 1
Signed(w) == IF w >= 2^(Width - 1) THEN w - 2^Width ELSE w

-----------------------------------------------------------------------------
(* The CPU: what a comparison of a with b leaves in the flags, and what the *)
(* conditions mean.                                                         *)

Difference(a, b) == (a - b) % 2^Width
Negative(a, b) == Signed(Difference(a, b)) < 0
Overflow(a, b) == Signed(a) - Signed(b) # Signed(Difference(a, b))
Bit(w, i) == (w \div 2^i) % 2
ParityEven(a, b) ==   \* of the low 8 bits
    Cardinality({i \in 0 .. Width - 1 : i < 8 /\ Bit(Difference(a, b), i) = 1}) % 2 = 0

\* The condition a mnemonic names, in the vocabulary of ARM and, for the parity,
\* of x86.
Meaning(a, b) ==
    [eq |-> a = b, ne |-> a # b,
     lt |-> Signed(a) < Signed(b), le |-> Signed(a) <= Signed(b),
     gt |-> Signed(a) > Signed(b), ge |-> Signed(a) >= Signed(b),
     cc |-> a < b, ls |-> a <= b, hi |-> a > b, cs |-> a >= b,
     mi |-> Negative(a, b), pl |-> ~Negative(a, b),
     vs |-> Overflow(a, b), vc |-> ~Overflow(a, b),
     pe |-> ParityEven(a, b), po |-> ~ParityEven(a, b)]

\* Flags after a comparison; the carry of ARM is the complement of a borrow.
Flags(a, b, borrow) == [Z |-> a = b, N |-> Negative(a, b), V |-> Overflow(a, b),
                        C |-> (a < b) = borrow, P |-> ParityEven(a, b)]

-----------------------------------------------------------------------------
(* The verdicts, and the condition each mnemonic stands for.                *)

\* ARM.is_conditional_branch() and is_branch_taken(): by the last two letters of the
\* mnemonic, be it that of a branch or of another instruction (`movs').
ArmConditions == {"eq", "ne", "lt", "le", "gt", "ge", "vs", "vc", "mi", "pl", "hi", "ls",
                  "cc", "cs"}
ArmTaken(f) ==
    [eq |-> f.Z, ne |-> ~f.Z, lt |-> f.N # f.V, le |-> f.Z \/ f.N # f.V,
     gt |-> ~f.Z /\ f.N = f.V, ge |-> f.N = f.V, vs |-> f.V, vc |-> ~f.V,
     mi |-> f.N, pl |-> ~f.N, hi |-> f.C /\ ~f.Z, ls |-> ~f.C \/ f.Z,
     cs |-> f.C, cc |-> ~f.C]

\* AARCH64.is_branch_taken(): branches on a register; all others that begin with
\* `b.' as on ARM, where a condition that ARM has no case for is not taken.
Aarch64Register == {"cbz", "cbnz", "tbz", "tbnz"}
Aarch64NoCase == {"hs", "lo", "al"}
Aarch64Taken(op, i) ==
    [cbnz |-> op # 0, cbz |-> op = 0, tbnz |-> Bit(op, i) # 0, tbz |-> Bit(op, i) = 0]

\* X86.is_branch_taken(), one mnemonic for each group of synonyms.  `jl'
\* compares the two masked flags, which are at different bits, and not whether
\* they are set.  `jcxz', `jecxz' and `jrcxz', which test the lower b bits of the
\* register, are one group that looks at the whole of it.
X86Bit == [O |-> 11, S |-> 7]
CxTaken(cx) == cx = 0
X86Taken(f) ==
    LET masked(set, bit) == IF set THEN 2^bit ELSE 0
    IN [ja |-> ~f.C /\ ~f.Z, jae |-> ~f.C, jb |-> f.C, jbe |-> f.C \/ f.Z,
        je |-> f.Z, jne |-> ~f.Z, jg |-> ~f.Z /\ f.V = f.N, jge |-> f.N = f.V,
        jl |-> masked(f.V, X86Bit.O) # masked(f.N, X86Bit.S),
        jle |-> f.Z \/ f.V # f.N, jo |-> f.V, jno |-> ~f.V, jp |-> f.P, jnp |-> ~f.P,
        js |-> f.N, jns |-> ~f.N]
X86Means ==
    [ja |-> "hi", jae |-> "cs", jb |-> "cc", jbe |-> "ls", je |-> "eq", jne |-> "ne",
     jg |-> "gt", jge |-> "ge", jl |-> "lt", jle |-> "le", jo |-> "vs", jno |-> "vc",
     jp |-> "pe", jnp |-> "po", js |-> "mi", jns |-> "pl"]

\* PowerPC.is_branch_taken(): on the outcome of a comparison in the bits 28 to 31 of
\* $cr, field 0 of the register, whichever field the operands name.
Outcome(a, b) == IF a = b THEN "equal" ELSE IF Signed(a) < Signed(b) THEN "less" ELSE "greater"
PowerPCTaken(cr0) ==
    [beq |-> cr0 = "equal", bne |-> cr0 # "equal", ble |-> cr0 \in {"equal", "less"},
     blt |-> cr0 = "less", bge |-> cr0 \in {"equal", "greater"}, bgt |-> cr0 = "greater"]
PowerPCMeans == [beq |-> "eq", bne |-> "ne", ble |-> "le", blt |-> "lt", bge |-> "ge", bgt |-> "gt"]

\* SPARC.is_branch_taken().
SparcTaken(f) ==
    [be |-> f.Z, bne |-> ~f.Z, bg |-> ~f.Z /\ (~f.N \/ ~f.V), bge |-> ~f.N \/ ~f.V,
     bgu |-> ~f.C /\ ~f.Z, bgeu |-> ~f.C, bl |-> f.N /\ f.V, blu |-> f.C,
     ble |-> f.Z \/ f.N \/ f.V, bleu |-> f.C \/ f.Z, bneg |-> f.N, bpos |-> ~f.N,
     bvs |-> f.V, bvc |-> ~f.V, bcs |-> f.C, bcc |-> ~f.C]
SparcMeans ==
    [be |-> "eq", bne |-> "ne", bg |-> "gt", bge |-> "ge", bgu |-> "hi", bgeu |-> "cs",
     bl |-> "lt", blu |-> "cc", ble |-> "le", bleu |-> "ls", bneg |-> "mi", bpos |-> "pl",
     bvs |-> "vs", bvc |-> "vc", bcs |-> "cc", bcc |-> "cs"]

\* RISCV.is_branch_taken(): the condition without its `z' and `u'; a condition
\* that is not unsigned compares in two's complement, and a register GDB gave
\* as a negative number is lowered once more, which keeps the order.  Every
\* instruction that begins with `b' gets here; there is no case for `gt', nor for
\* those that are no branches.
Read(w, signed) == IF signed THEN Signed(w) ELSE w
TwosComplement(v) == IF v < 0 \/ v >= 2^(Width - 1) THEN v - 2^Width ELSE v

\* Mutant: the registers are compared as GDB gives them.
RiscvTakenRaw(cond, unsigned, x, y) ==
    CASE cond = "eq" -> x = y
      [] cond = "ne" -> x # y
      [] cond = "lt" -> x < y
      [] cond = "le" -> x <= y
      [] cond = "ge" -> x < y

RiscvTaken(cond, unsigned, x, y) ==
    LET rs1 == IF unsigned THEN x ELSE TwosComplement(x)
        rs2 == IF unsigned THEN y ELSE TwosComplement(y)
    IN CASE cond = "eq" -> rs1 = rs2
         [] cond = "ne" -> rs1 # rs2
         [] cond = "lt" -> rs1 < rs2
         [] cond = "le" -> rs1 <= rs2
         [] cond = "ge" -> rs1 < rs2
RiscvNoCase == {"gt", "no_branch"}
RiscvConditions == {"eq", "ne", "lt", "le", "ge"} \cup RiscvNoCase
RiscvUnsigned == [lt |-> "cc", le |-> "ls", ge |-> "cs", gt |-> "hi"]

\* MIPS.is_branch_taken(): registers as GDB gives them.
MipsTaken(x, y) ==
    [beq |-> x = y, bne |-> x # y, beqz |-> x = 0, bnez |-> x # 0,
     bgtz |-> x > 0, bgez |-> x >= 0, bltz |-> x < 0, blez |-> x <= 0]
MipsMeans == [beq |-> "eq", bne |-> "ne", beqz |-> "eq", bnez |-> "ne",
              bgtz |-> "gt", bgez |-> "ge", bltz |-> "lt", blez |-> "le"]

-----------------------------------------------------------------------------
\* Each architecture with what it takes for a conditional branch.
Branches ==
    {<<"arm", m, FALSE>> : m \in ArmConditions}
    \cup {<<"aarch64", m, FALSE>> : m \in ArmConditions \cup Aarch64Register \cup Aarch64NoCase}
    \cup {<<"x86", m, FALSE>> : m \in DOMAIN X86Means \cup {"jcxz"}}
    \cup {<<"ppc", m, FALSE>> : m \in DOMAIN PowerPCMeans}
    \cup {<<"sparc", m, FALSE>> : m \in DOMAIN SparcMeans}
    \cup {<<"riscv", c, FALSE>> : c \in RiscvConditions}
    \cup {<<"riscv", c, TRUE>> : c \in DOMAIN RiscvUnsigned}
    \cup {<<"mips", m, FALSE>> : m \in DOMAIN MipsMeans}

\* A mnemonic that compares with zero has b = 0.
ZeroForms == {"beqz", "bnez", "bgtz", "bgez", "bltz", "blez", "cbz", "cbnz"}

BranchInit ==
    \E br \in Branches, a, b \in Words, signed, other \in BOOLEAN,
       cr0 \in {"less", "greater", "equal"} :
        /\ br[2] \in ZeroForms => b = 0
        /\ br[2] \in {"tbz", "tbnz"} => b < Width
        /\ br[2] = "jcxz" => b \in 1 .. Width
        /\ br[1] \notin {"arm", "ppc"} => ~other
        /\ br[1] # "ppc" \/ ~other => cr0 = Outcome(a, b)
        /\ job = [cmd |-> "branch", arch |-> br[1], mnemo |-> br[2], unsigned |-> br[3],
                  a |-> a, b |-> b, signed |-> signed, other |-> other, cr0 |-> cr0]
        /\ st = [status |-> "walking", taken |-> FALSE]

\* is_branch_taken() of the architecture.
IsBranchTaken ==
    LET m == job.mnemo
        borrow == Flags(job.a, job.b, TRUE)
        x == Read(job.a, job.signed)
        y == Read(job.b, job.signed)
        done(verdict) == [st EXCEPT !.status = "done", !.taken = verdict]
    IN /\ Walking({"branch"})
       /\ UNCHANGED job
       /\ st' = CASE job.arch = "x86" /\ m = "jcxz" -> done(CxTaken(job.a))
                  [] job.arch = "x86" /\ m # "jcxz" -> done(X86Taken(borrow)[m])
                  [] job.arch = "sparc" -> done(SparcTaken(borrow)[m])
                  [] job.arch = "ppc" -> done(PowerPCTaken(job.cr0)[m])
                  [] job.arch = "mips" -> done(MipsTaken(x, y)[m])
                  [] job.arch = "aarch64" /\ m \in Aarch64Register ->
                        done(Aarch64Taken(job.a, job.b)[m])
                  [] job.arch = "aarch64" /\ m \in Aarch64NoCase -> done(FALSE)
                  [] job.arch = "riscv" /\ m \in RiscvNoCase -> [st EXCEPT !.status = "raised"]
                  [] job.arch = "riscv" /\ m \notin RiscvNoCase ->
                        done(RiscvTaken(m, job.unsigned, x, y))
                  [] OTHER -> done(ArmTaken(Flags(job.a, job.b, FALSE))[m])

BranchSpec == BranchInit /\ [][IsBranchTaken]_vars

-----------------------------------------------------------------------------
(* Properties.                                                             *)

\* What the CPU does.  What is no branch goes on to the next instruction.
Taken ==
    LET means == Meaning(job.a, job.b)
        m == job.mnemo
    IN CASE job.arch = "x86" /\ m = "jcxz" -> job.a % 2^job.b = 0
         [] job.arch = "x86" /\ m # "jcxz" -> means[X86Means[m]]
         [] job.arch = "sparc" -> means[SparcMeans[m]]
         [] job.arch = "ppc" -> means[PowerPCMeans[m]]
         [] job.arch = "mips" -> means[MipsMeans[m]]
         [] job.arch = "arm" /\ job.other -> FALSE
         [] job.arch = "aarch64" /\ m = "cbz" -> means.eq
         [] job.arch = "aarch64" /\ m = "cbnz" -> means.ne
         [] job.arch = "aarch64" /\ m = "hs" -> means.cs
         [] job.arch = "aarch64" /\ m = "lo" -> means.cc
         [] job.arch = "aarch64" /\ m = "al" -> TRUE
         [] m \in {"tbz", "tbnz"} -> (Bit(job.a, job.b) = 1) = (m = "tbnz")
         [] job.arch = "riscv" /\ m = "no_branch" -> FALSE
         [] job.arch = "riscv" /\ job.unsigned -> means[RiscvUnsigned[m]]
         [] OTHER -> means[m]

\* The verdicts that are wrong.
\*   RISC-V:  `gt', and what is no branch, has no case; `ge' is inverted; unsigned
\*            comparisons are of signed numbers when GDB gives the registers so.
\*   x86:     `jl' with both flags set; `jcxz' by bits it does not test.
\*   SPARC:   the signed conditions, but for numbers without sign and overflow.
\*   MIPS:    signed comparisons of registers that GDB gives as unsigned.
\*   ARM:     other instructions; AArch64: conditions without a case, when they hold.
\*   PowerPC: branches on another field, when field 0 says otherwise.
Misjudged ==
    LET m == job.mnemo
        N == Negative(job.a, job.b)
        V == Overflow(job.a, job.b)
        split == (Signed(job.a) < 0) # (Signed(job.b) < 0)
        asSigned == job.unsigned /\ job.signed
    IN CASE job.arch = "riscv" ->
                \/ m \in RiscvNoCase
                \/ m = "ge" /\ ~(asSigned /\ split)
                \/ m \in {"lt", "le"} /\ asSigned /\ split
         [] job.arch = "x86" ->
                \/ m = "jl" /\ N /\ V
                \/ m = "jcxz" /\ job.a # 0 /\ job.a % 2^job.b = 0
         [] job.arch = "sparc" ->
                \/ m \in {"bg", "bge", "bl"} /\ (N \/ V)
                \/ m = "ble" /\ N /\ V
         [] job.arch = "mips" ->
                m \in {"bgtz", "bgez", "bltz", "blez"} /\ ~job.signed /\ Signed(job.a) < 0
         [] job.arch = "arm" -> job.other /\ Meaning(job.a, job.b)[m]
         [] job.arch = "aarch64" -> m \in Aarch64NoCase /\ Taken
         [] job.arch = "ppc" -> job.other /\ PowerPCTaken(job.cr0)[m] # Taken

\* The verdict shown for an instruction is what the CPU is about to do, in all cases
\* but the Misjudged ones, which are exactly those that are wrong: the conditions over
\* flags agree with the comparison of the numbers that set them at every value, the
\* smallest and the largest number included.
BranchPredicted ==
    (job.cmd = "branch" /\ Ended) =>
        ((st.status = "done" /\ st.taken = Taken) <=> ~Misjudged)

-----------------------------------------------------------------------------
(* What the documents say and the code does not do *)

\* gef.py:2532 "if rs1 < rs2: taken, reason = True, f"{rs1}>={rs2}"": the reason that
\* is shown with the verdict TAKEN holds of the registers.
ReasonIsTrue ==
    (job.cmd = "branch" /\ job.arch = "riscv" /\ job.mnemo = "ge" /\ st.status = "done" /\ st.taken)
        => Read(job.a, job.signed) >= Read(job.b, job.signed)

=============================================================================
