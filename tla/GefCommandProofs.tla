-------------------------- MODULE GefCommandProofs --------------------------
(***************************************************************************)
(* Proofs about the debugger's commands: the verdicts of is_branch_taken() *)
(* (module GefArch), for registers of any width, the commands that change  *)
(* the process (module GefEdit), for code of any size, the commands that   *)
(* show glibc's heap (module GlibcHeap), for memory of any contents, and   *)
(* the commands that keep a state from call to call (module GefView), for  *)
(* any number of calls.                                                    *)
(*                                                                         *)
(* Branches: what a comparison leaves in the flags is put in terms of the  *)
(* three things a condition can ask for, the equality of the operands, a   *)
(* borrow (the unsigned order) and the sign corrected by the overflow (the *)
(* signed order); each architecture's table of conditions is then a case   *)
(* analysis on these.  MIPS and RISC-V compare registers, which GDB gives  *)
(* as signed or as unsigned numbers.                                       *)
(*                                                                         *)
(* Edits: every command has an invariant of its own that says what the     *)
(* steps so far have done, in terms of the walk (`nop', `skipi'), of the   *)
(* prefix of the arguments (`patch', `flags'), of the descriptors open     *)
(* (`hijack-fd'), of the context hidden (`trace-run') or of the            *)
(* breakpoints set (`entry-break').  A command only takes its own steps,   *)
(* so that the disjunction of these invariants is inductive (EditInv).     *)
(*                                                                         *)
(* Heap: what a walk along next pointers must show is the least set that   *)
(* has the first cell and is closed under the pointers (ReachedLemma); a   *)
(* walk has seen a set that is closed but for the cell it stands on        *)
(* (Walked), so that where it ends it has seen it all (WalkEnds).  An      *)
(* intact ring of a bin is never entered again but at its header           *)
(* (RingAdvance), and no chunk begins between one chunk and the next       *)
(* (ChunkAdvance).  Each command has its invariant, as above (HeapInv).    *)
(*                                                                         *)
(* Series of calls: each window shown is the one of its repetition, and    *)
(* the windows of consecutive repetitions tile the words (WindowInv); the  *)
(* output of the commands so far is in the terminal or, once it could not  *)
(* be opened, in the buffer (OutputInv); the main arena is one that was    *)
(* found or asked for, and so is the selected one (ChosenInv).             *)
(***************************************************************************)
EXTENDS GlibcHeap, GefArch, GefEdit, GefView, FiniteSetTheorems, SequenceTheorems,
        WellFoundedInduction, TLAPS

-----------------------------------------------------------------------------
(* Comparisons *)

\* The sign bit of a register, and the number of its values.
Half == 2^(Width - 1)
Modulus == 2^Width

\* A register has twice as many values as its sign bit is worth.
LEMMA Powers == Half \in Nat \ {0} /\ Modulus = 2 * Half /\ Words = 0 .. Modulus - 1
<1>1. Width \in 0 .. Width /\ Width - 1 \in 0 .. Width /\ Width > 0
  BY WidthBound
<1>2. 2^Width = 2 * 2^(Width - 1) /\ 2^(Width - 1) \in Nat \ {0}
  BY <1>1, PowersOfTwo
<1> QED
  BY <1>2 DEF Half, Modulus, Words

\* The two's complement value of a word.
LEMMA SignedLemma == \A w : Signed(w) = IF w >= Half THEN w - Modulus ELSE w
  BY DEF Signed, Half, Modulus

\* The difference of two words wraps around exactly when there is a borrow.
LEMMA DifferenceLemma ==
    ASSUME NEW a \in Words, NEW b \in Words
    PROVE  Difference(a, b) = IF a >= b THEN a - b ELSE a - b + Modulus
<1>1. Difference(a, b) = (a - b) % Modulus
  BY DEF Difference, Modulus
<1>2. a \in Nat /\ b \in Nat /\ a < Modulus /\ b < Modulus /\ Modulus \in Nat \ {0}
  BY Powers
<1>3. CASE a >= b
  <2>1. a - b \in Nat /\ a - b < Modulus
    BY <1>2, <1>3
  <2> QED
    BY <1>1, <1>2, <1>3, <2>1
<1>4. CASE ~(a >= b)
  <2>1. a - b \in Int /\ a - b < 0 /\ 0 - Modulus < a - b
    BY <1>2, <1>4
  <2> QED
    BY <1>1, <1>2, <1>4, <2>1
<1> QED
  BY <1>3, <1>4

\* What the flags say of a comparison.
LEMMA CompareLemma ==
    ASSUME NEW a \in Words, NEW b \in Words
    PROVE  /\ Signed(a) < Signed(b) <=> ~(Negative(a, b) <=> Overflow(a, b))
           /\ Signed(a) = Signed(b) <=> a = b
           /\ Signed(a) \in Int /\ Signed(b) \in Int /\ a \in Int /\ b \in Int
<1> DEFINE d == Difference(a, b)
<1>1. d = IF a >= b THEN a - b ELSE a - b + Modulus
  BY DifferenceLemma
<1>2. /\ a \in 0 .. Modulus - 1 /\ b \in 0 .. Modulus - 1
      /\ Half \in Nat \ {0} /\ Modulus = 2 * Half
  BY Powers
<1> HIDE DEF d
<1>3. /\ Signed(a) = IF a >= Half THEN a - Modulus ELSE a
      /\ Signed(b) = IF b >= Half THEN b - Modulus ELSE b
      /\ Signed(d) = IF d >= Half THEN d - Modulus ELSE d
  BY SignedLemma
<1>4. /\ Negative(a, b) <=> Signed(d) < 0
      /\ Overflow(a, b) <=> Signed(a) - Signed(b) # Signed(d)
  BY DEF Negative, Overflow, d
<1> QED
  BY <1>1, <1>2, <1>3, <1>4

\* The conditions in terms of the flags N and V, of equality and of the borrow.
LEMMA Conditions ==
    ASSUME NEW a \in Words, NEW b \in Words
    PROVE  LET Q == Meaning(a, b)
               N == Negative(a, b)
               V == Overflow(a, b)
           IN  /\ N \in BOOLEAN /\ V \in BOOLEAN
               /\ Q.eq = (a = b) /\ Q.ne = ~(a = b)
               /\ Q.lt = (N # V) /\ Q.ge = (N = V)
               /\ Q.le = (a = b \/ N # V) /\ Q.gt = (~(a = b) /\ N = V)
               /\ Q.cc = (a < b) /\ Q.cs = ~(a < b)
               /\ Q.ls = (a < b \/ a = b) /\ Q.hi = (~(a < b) /\ ~(a = b))
               /\ Q.mi = N /\ Q.pl = ~N /\ Q.vs = V /\ Q.vc = ~V
<1> DEFINE N == Negative(a, b)
           V == Overflow(a, b)
           x == Signed(a)
           y == Signed(b)
           Q == Meaning(a, b)
           lt == x < y
           z == a = b
           c == a < b
<1>1. /\ x < y <=> ~(N <=> V)
      /\ x = y <=> a = b
      /\ x \in Int /\ y \in Int /\ a \in Int /\ b \in Int
  BY CompareLemma
<1>2. /\ Q.eq = (a = b) /\ Q.ne = (a # b) /\ Q.lt = (x < y) /\ Q.le = (x <= y)
      /\ Q.gt = (x > y) /\ Q.ge = (x >= y) /\ Q.cc = (a < b) /\ Q.ls = (a <= b)
      /\ Q.hi = (a > b) /\ Q.cs = (a >= b) /\ Q.mi = N /\ Q.pl = ~N /\ Q.vs = V /\ Q.vc = ~V
  BY DEF Meaning
<1>3. /\ (x > y) = (~(a = b) /\ ~(x < y)) /\ (x >= y) = ~(x < y) /\ (x <= y) = (a = b \/ x < y)
      /\ (a > b) = (~(a < b) /\ ~(a = b)) /\ (a <= b) = (a < b \/ a = b) /\ (a >= b) = ~(a < b)
  BY <1>1
<1>4. N \in BOOLEAN /\ V \in BOOLEAN /\ z \in BOOLEAN /\ c \in BOOLEAN /\ lt \in BOOLEAN
  BY DEF Negative, Overflow
<1>5. lt = ~(N <=> V)
  BY <1>1
<1> HIDE DEF Q, N, V
<1>6. /\ Q.lt = lt /\ Q.ge = ~lt /\ Q.le = (z \/ lt) /\ Q.gt = (~z /\ ~lt)
      /\ Q.cc = c /\ Q.cs = ~c /\ Q.ls = (c \/ z) /\ Q.hi = (~c /\ ~z)
      /\ Q.eq = z /\ Q.ne = ~z
  BY <1>2, <1>3
<1> HIDE DEF x, y, z, c, lt
<1>7. lt = (N # V) /\ (~lt) = (N = V)
  BY <1>4, <1>5, Zenon
<1>8. /\ Q.lt = (N # V) /\ Q.ge = (N = V)
      /\ Q.le = (z \/ N # V) /\ Q.gt = (~z /\ N = V)
  BY <1>6, <1>7, Zenon
<1> QED
  BY <1>2, <1>4, <1>6, <1>8 DEF N, V, Q, z, c

\* ARM: the carry is set when there is no borrow.
LEMMA ArmLemma ==
    ASSUME NEW a \in Words, NEW b \in Words, NEW m \in ArmConditions
    PROVE  /\ ArmTaken(Flags(a, b, FALSE))[m] = Meaning(a, b)[m]
           /\ Meaning(a, b)[m] \in BOOLEAN
<1> DEFINE N == Negative(a, b)
           V == Overflow(a, b)
           z == a = b
           c == a < b
           F == Flags(a, b, FALSE)
           T == ArmTaken(F)
           Q == Meaning(a, b)
<1>1. /\ Q.eq = z /\ Q.ne = ~z /\ Q.lt = (N # V) /\ Q.ge = (N = V)
      /\ Q.le = (z \/ N # V) /\ Q.gt = (~z /\ N = V) /\ Q.cc = c /\ Q.cs = ~c
      /\ Q.ls = (c \/ z) /\ Q.hi = (~c /\ ~z)
      /\ Q.mi = N /\ Q.pl = ~N /\ Q.vs = V /\ Q.vc = ~V
      /\ N \in BOOLEAN /\ V \in BOOLEAN
  BY Conditions
<1>2. F.Z = z /\ F.N = N /\ F.V = V /\ F.C = ~c
  BY DEF Flags
<1>3. m \in {"eq", "ne", "lt", "le", "gt", "ge", "cc", "ls", "hi", "cs", "mi", "pl", "vs", "vc"}
  BY DEF ArmConditions
<1> HIDE DEF F, Q
<1>4. /\ T.eq = F.Z /\ T.ne = ~F.Z /\ T.lt = (F.N # F.V) /\ T.le = (F.Z \/ F.N # F.V)
      /\ T.gt = (~F.Z /\ F.N = F.V) /\ T.ge = (F.N = F.V) /\ T.vs = F.V /\ T.vc = ~F.V
      /\ T.mi = F.N /\ T.pl = ~F.N /\ T.hi = (F.C /\ ~F.Z) /\ T.ls = (~F.C \/ F.Z)
      /\ T.cs = F.C /\ T.cc = ~F.C
  BY DEF ArmTaken
<1> HIDE DEF T, N, V
<1>5. c \in BOOLEAN /\ z \in BOOLEAN
  OBVIOUS
<1> HIDE DEF c, z
<1>6. (~~c) = c
  BY <1>5, Zenon
<1>12. /\ Q.eq \in BOOLEAN /\ Q.ne \in BOOLEAN /\ Q.lt \in BOOLEAN /\ Q.ge \in BOOLEAN
       /\ Q.le \in BOOLEAN /\ Q.gt \in BOOLEAN /\ Q.cc \in BOOLEAN /\ Q.cs \in BOOLEAN
       /\ Q.ls \in BOOLEAN /\ Q.hi \in BOOLEAN /\ Q.mi \in BOOLEAN /\ Q.pl \in BOOLEAN
       /\ Q.vs \in BOOLEAN /\ Q.vc \in BOOLEAN
  BY <1>1, <1>5
<1>7. /\ T.eq = Q.eq /\ T.ne = Q.ne /\ T.mi = Q.mi /\ T.pl = Q.pl /\ T.vs = Q.vs /\ T.vc = Q.vc
  BY <1>1, <1>2, <1>4
<1>8. /\ T.lt = Q.lt /\ T.ge = Q.ge /\ T.le = Q.le /\ T.gt = Q.gt
  BY <1>1, <1>2, <1>4, Zenon
<1>9. /\ T.cc = Q.cc /\ T.cs = Q.cs /\ T.ls = Q.ls /\ T.hi = Q.hi
  BY <1>1, <1>2, <1>4, <1>6, Zenon
<1> HIDE DEF T, Q
<1>10. /\ T["eq"] = Q["eq"] /\ T["ne"] = Q["ne"] /\ T["lt"] = Q["lt"] /\ T["ge"] = Q["ge"]
       /\ T["le"] = Q["le"] /\ T["gt"] = Q["gt"] /\ T["cc"] = Q["cc"] /\ T["cs"] = Q["cs"]
       /\ T["ls"] = Q["ls"] /\ T["hi"] = Q["hi"] /\ T["mi"] = Q["mi"] /\ T["pl"] = Q["pl"]
       /\ T["vs"] = Q["vs"] /\ T["vc"] = Q["vc"]
  BY <1>7, <1>8, <1>9
<1>11. T[m] = Q[m]
  BY <1>3, <1>10, Zenon
<1>13. Q[m] \in BOOLEAN
  BY <1>3, <1>12
<1> QED
  BY <1>11, <1>13 DEF T, F, Q

-----------------------------------------------------------------------------
(* Architectures that branch on flags *)

\* The conditions of x86: the carry is the borrow.
LEMMA X86Lemma ==
    ASSUME NEW a \in Words, NEW b \in Words, NEW m \in DOMAIN X86Means
    PROVE  X86Taken(Flags(a, b, TRUE))[m] = Meaning(a, b)[X86Means[m]]
               <=> ~(m = "jl" /\ Negative(a, b) /\ Overflow(a, b))
<1> DEFINE N == Negative(a, b)
           V == Overflow(a, b)
           z == a = b
           c == a < b
           F == Flags(a, b, TRUE)
           T == X86Taken(F)
           Q == Meaning(a, b)
           p == ParityEven(a, b)
           masked(set, bit) == IF set THEN 2^bit ELSE 0
           jl == masked(F.V, 11) # masked(F.N, 7)
<1>1. /\ Q.eq = z /\ Q.ne = ~z /\ Q.lt = (N # V) /\ Q.ge = (N = V)
      /\ Q.le = (z \/ N # V) /\ Q.gt = (~z /\ N = V) /\ Q.cc = c /\ Q.cs = ~c
      /\ Q.ls = (c \/ z) /\ Q.hi = (~c /\ ~z)
      /\ Q.mi = N /\ Q.pl = ~N /\ Q.vs = V /\ Q.vc = ~V
      /\ N \in BOOLEAN /\ V \in BOOLEAN
  BY Conditions
<1>14. Q.pe = p /\ Q.po = ~p
  BY DEF Meaning
<1>2. F.Z = z /\ F.N = N /\ F.V = V /\ F.C = c /\ F.P = p
  BY DEF Flags
<1>3. m \in {"ja", "jae", "jb", "jbe", "je", "jne", "jg", "jge", "jl", "jle", "jo", "jno",
             "jp", "jnp", "js", "jns"}
  BY DEF X86Means
<1> HIDE DEF F, Q
<1>4. /\ T.ja = (~F.C /\ ~F.Z) /\ T.jae = ~F.C /\ T.jb = F.C /\ T.jbe = (F.C \/ F.Z)
      /\ T.je = F.Z /\ T.jne = ~F.Z /\ T.jg = (~F.Z /\ F.V = F.N) /\ T.jge = (F.N = F.V)
      /\ T.jl = jl /\ T.jle = (F.Z \/ F.V # F.N) /\ T.jo = F.V /\ T.jno = ~F.V
      /\ T.js = F.N /\ T.jns = ~F.N /\ T.jp = F.P /\ T.jnp = ~F.P
  BY DEF X86Taken, X86Bit
<1>5. 2^11 # 0 /\ 2^7 # 0 /\ 2^11 # 2^7
  OBVIOUS
<1> HIDE DEF T, N, V, c, z, p
<1>15. N /\ V => jl = TRUE /\ (N # V) = FALSE
  BY <1>1, <1>2, <1>5
<1>6. ~(N /\ V) => jl = (N # V)
  <2>1. CASE N = FALSE /\ V = FALSE
    BY <2>1, <1>2, <1>5
  <2>2. CASE N = TRUE /\ V = FALSE
    BY <2>2, <1>2, <1>5
  <2>3. CASE N = FALSE /\ V = TRUE
    BY <2>3, <1>2, <1>5
  <2> QED
    BY <1>1, <2>1, <2>2, <2>3, Zenon
<1> HIDE DEF jl
<1>7. /\ T.ja = Q.hi /\ T.jae = Q.cs /\ T.jb = Q.cc /\ T.jbe = Q.ls /\ T.je = Q.eq
      /\ T.jne = Q.ne /\ T.jo = Q.vs /\ T.jno = Q.vc /\ T.js = Q.mi /\ T.jns = Q.pl
      /\ T.jp = Q.pe /\ T.jnp = Q.po
  BY <1>1, <1>2, <1>4, <1>14, Zenon
<1>8. (V = N) = (N = V) /\ (V # N) = (N # V)
  BY Zenon
<1>9. T.jg = Q.gt /\ T.jge = Q.ge /\ T.jle = Q.le
  BY <1>1, <1>2, <1>4, <1>8, Zenon
<1>10. ~(N /\ V) => T.jl = Q.lt
  BY <1>1, <1>4, <1>6, Zenon
<1>16. N /\ V => T.jl # Q.lt
  <2> SUFFICES ASSUME N /\ V PROVE T.jl # Q.lt
    OBVIOUS
  <2>1. T.jl = TRUE /\ Q.lt = FALSE
    BY <1>1, <1>4, <1>15, Zenon
  <2> QED
    BY <2>1
<1> DEFINE M(n) == Q[X86Means[n]]
<1>11. /\ T["ja"] = M("ja") /\ T["jae"] = M("jae") /\ T["jb"] = M("jb") /\ T["jbe"] = M("jbe")
       /\ T["je"] = M("je") /\ T["jne"] = M("jne") /\ T["jg"] = M("jg") /\ T["jge"] = M("jge")
       /\ T["jle"] = M("jle") /\ T["jo"] = M("jo") /\ T["jno"] = M("jno") /\ T["js"] = M("js")
       /\ T["jns"] = M("jns") /\ T["jp"] = M("jp") /\ T["jnp"] = M("jnp")
       /\ M("jl") = Q.lt
  BY <1>7, <1>9 DEF X86Means
<1>13. m # "jl" => T[m] = M(m)
  <2> HIDE DEF M
  <2> QED
    BY <1>3, <1>11, Zenon
<1>17. m = "jl" => (T[m] = M(m) <=> ~(N /\ V))
  BY <1>10, <1>11, <1>16
<1>18. T[m] = M(m) <=> ~(m = "jl" /\ N /\ V)
  BY <1>13, <1>17
<1> QED
  BY <1>18 DEF T, F, Q, N, V

\* x86: the jumps on a part of rcx look at the whole.
LEMMA CxLemma ==
    ASSUME NEW a \in Words, NEW b \in 1 .. Width
    PROVE  CxTaken(a) = (a % 2^b = 0) <=> ~(a # 0 /\ a % 2^b = 0)
<1>1. a \in Nat /\ 2^b \in Nat \ {0}
  BY Powers, PowersOfTwo, WidthBound
<1>2. a = 0 => a % 2^b = 0
  BY <1>1
<1> QED
  BY <1>2 DEF CxTaken

\* PowerPC: the three bits of a field are the three outcomes of a comparison.
LEMMA PowerPCLemma ==
    ASSUME NEW a \in Words, NEW b \in Words, NEW m \in DOMAIN PowerPCMeans
    PROVE  PowerPCTaken(Outcome(a, b))[m] = Meaning(a, b)[PowerPCMeans[m]]
<1> DEFINE o == Outcome(a, b)
           T == PowerPCTaken(o)
           Q == Meaning(a, b)
           x == Signed(a)
           y == Signed(b)
           M(n) == Q[PowerPCMeans[n]]
<1>1. (x = y <=> a = b) /\ x \in Int /\ y \in Int
  BY CompareLemma
<1>2. /\ Q.eq = (a = b) /\ Q.ne = (a # b) /\ Q.lt = (x < y) /\ Q.le = (x <= y)
      /\ Q.gt = (x > y) /\ Q.ge = (x >= y)
  BY DEF Meaning
<1>3. o = IF a = b THEN "equal" ELSE IF x < y THEN "less" ELSE "greater"
  BY DEF Outcome
<1> HIDE DEF o
<1>4. /\ T.beq = (o = "equal") /\ T.bne = (o # "equal") /\ T.ble = (o \in {"equal", "less"})
      /\ T.blt = (o = "less") /\ T.bge = (o \in {"equal", "greater"}) /\ T.bgt = (o = "greater")
  BY DEF PowerPCTaken
<1>5. m \in {"beq", "bne", "ble", "blt", "bge", "bgt"}
  BY DEF PowerPCMeans
<1> HIDE DEF T, Q, x, y
<1>6. /\ T.beq = Q.eq /\ T.bne = Q.ne /\ T.ble = Q.le /\ T.blt = Q.lt /\ T.bge = Q.ge
      /\ T.bgt = Q.gt
  BY <1>1, <1>2, <1>3, <1>4
<1>7. /\ T["beq"] = M("beq") /\ T["bne"] = M("bne") /\ T["ble"] = M("ble")
      /\ T["blt"] = M("blt") /\ T["bge"] = M("bge") /\ T["bgt"] = M("bgt")
  BY <1>6 DEF PowerPCMeans
<1>8. T[m] = M(m)
  <2> HIDE DEF M
  <2> QED
    BY <1>5, <1>7, Zenon
<1> QED
  BY <1>8 DEF T, Q, o

\* SPARC: the conditions of the integer condition codes.
LEMMA SparcLemma ==
    ASSUME NEW a \in Words, NEW b \in Words, NEW m \in DOMAIN SparcMeans
    PROVE  SparcTaken(Flags(a, b, TRUE))[m] = Meaning(a, b)[SparcMeans[m]]
               <=> ~(\/ m \in {"bg", "bge", "bl"} /\ (Negative(a, b) \/ Overflow(a, b))
                     \/ m = "ble" /\ Negative(a, b) /\ Overflow(a, b))
<1> DEFINE N == Negative(a, b)
           V == Overflow(a, b)
           z == a = b
           c == a < b
           F == Flags(a, b, TRUE)
           T == SparcTaken(F)
           Q == Meaning(a, b)
           M(n) == Q[SparcMeans[n]]
<1>1. /\ Q.eq = z /\ Q.ne = ~z /\ Q.cc = c /\ Q.cs = ~c
      /\ Q.ls = (c \/ z) /\ Q.hi = (~c /\ ~z)
      /\ Q.mi = N /\ Q.pl = ~N /\ Q.vs = V /\ Q.vc = ~V
      /\ Q.lt = (N # V) /\ Q.ge = (N = V) /\ Q.le = (z \/ N # V) /\ Q.gt = (~z /\ N = V)
      /\ N \in BOOLEAN /\ V \in BOOLEAN
  BY Conditions
<1>8. z => ~N /\ ~V
  <2> SUFFICES ASSUME a = b PROVE ~N /\ ~V
    OBVIOUS
  <2>1. Difference(a, b) = 0
    BY DifferenceLemma, Powers
  <2>2. Signed(0) = 0 /\ Signed(a) - Signed(b) = 0
    BY SignedLemma, CompareLemma, Powers
  <2> QED
    BY <2>1, <2>2 DEF Negative, Overflow
<1>2. F.Z = z /\ F.N = N /\ F.V = V /\ F.C = c
  BY DEF Flags
<1>3. m \in {"be", "bne", "bgu", "bgeu", "blu", "bleu", "bneg", "bpos", "bvs", "bvc", "bcs",
             "bcc", "bg", "bge", "bl", "ble"}
  BY DEF SparcMeans
<1> HIDE DEF F, Q
<1>4. /\ T.be = F.Z /\ T.bne = ~F.Z /\ T.bgu = (~F.C /\ ~F.Z) /\ T.bgeu = ~F.C /\ T.blu = F.C
      /\ T.bleu = (F.C \/ F.Z) /\ T.bneg = F.N /\ T.bpos = ~F.N /\ T.bvs = F.V /\ T.bvc = ~F.V
      /\ T.bcs = F.C /\ T.bcc = ~F.C
      /\ T.bg = (~F.Z /\ (~F.N \/ ~F.V)) /\ T.bge = (~F.N \/ ~F.V) /\ T.bl = (F.N /\ F.V)
      /\ T.ble = (F.Z \/ F.N \/ F.V)
  BY DEF SparcTaken
<1>9. z \in BOOLEAN
  OBVIOUS
<1> HIDE DEF T, N, V, c, z
<1>5. /\ T.be = Q.eq /\ T.bne = Q.ne /\ T.bgu = Q.hi /\ T.bgeu = Q.cs /\ T.blu = Q.cc
      /\ T.bleu = Q.ls /\ T.bneg = Q.mi /\ T.bpos = Q.pl /\ T.bvs = Q.vs /\ T.bvc = Q.vc
      /\ T.bcs = Q.cc /\ T.bcc = Q.cs
  BY <1>1, <1>2, <1>4, Zenon
<1>6. /\ T["be"] = M("be") /\ T["bne"] = M("bne") /\ T["bgu"] = M("bgu")
      /\ T["bgeu"] = M("bgeu") /\ T["blu"] = M("blu") /\ T["bleu"] = M("bleu")
      /\ T["bneg"] = M("bneg") /\ T["bpos"] = M("bpos") /\ T["bvs"] = M("bvs")
      /\ T["bvc"] = M("bvc") /\ T["bcs"] = M("bcs") /\ T["bcc"] = M("bcc")
      /\ M("bg") = Q.gt /\ M("bge") = Q.ge /\ M("bl") = Q.lt /\ M("ble") = Q.le
  BY <1>5 DEF SparcMeans
<1>10. /\ T.bg = Q.gt <=> ~(N \/ V)
       /\ T.bge = Q.ge <=> ~(N \/ V)
       /\ T.bl = Q.lt <=> ~(N \/ V)
       /\ T.ble = Q.le <=> ~(N /\ V)
  <2>1. CASE N = TRUE /\ V = TRUE /\ z = FALSE
    BY <1>1, <1>2, <1>4, <2>1
  <2>2. CASE N = TRUE /\ V = FALSE /\ z = FALSE
    BY <1>1, <1>2, <1>4, <2>2
  <2>3. CASE N = FALSE /\ V = TRUE /\ z = FALSE
    BY <1>1, <1>2, <1>4, <2>3
  <2>4. CASE N = FALSE /\ V = FALSE /\ z = FALSE
    BY <1>1, <1>2, <1>4, <2>4
  <2>5. CASE N = FALSE /\ V = FALSE /\ z = TRUE
    BY <1>1, <1>2, <1>4, <2>5
  <2> QED
    BY <1>1, <1>8, <1>9, <2>1, <2>2, <2>3, <2>4, <2>5
<1>11. m \notin {"bg", "bge", "bl", "ble"} => T[m] = M(m)
  <2> HIDE DEF M
  <2> QED
    BY <1>3, <1>6, Zenon
<1>12. /\ m \in {"bg", "bge", "bl"} => (T[m] = M(m) <=> ~(N \/ V))
       /\ m = "ble" => (T[m] = M(m) <=> ~(N /\ V))
  BY <1>6, <1>10
<1>7. T[m] = M(m) <=> ~(\/ m \in {"bg", "bge", "bl"} /\ (N \/ V)
                        \/ m = "ble" /\ N /\ V)
  <2> HIDE DEF M
  <2> QED
    BY <1>11, <1>12
<1> QED
  BY <1>7 DEF T, F, Q, N, V

-----------------------------------------------------------------------------
(* Architectures that branch on registers *)

\* What the registers of RISC-V and MIPS look like to gef.
LEMMA ReadLemma ==
    ASSUME NEW a \in Words, NEW b \in Words, NEW s \in BOOLEAN
    PROVE  LET x == Read(a, s)
               y == Read(b, s)
               u == TwosComplement(x)
               v == TwosComplement(y)
           IN  /\ x \in Int /\ y \in Int /\ u \in Int /\ v \in Int
               /\ x = y <=> a = b
               /\ b = 0 => y = 0
               /\ s => x = Signed(a) /\ y = Signed(b)
               /\ ~s => x = a /\ y = b
               /\ u = v <=> a = b
               /\ u < v <=> Signed(a) < Signed(b)
               /\ u <= v <=> Signed(a) <= Signed(b)
<1> DEFINE x == Read(a, s)
           y == Read(b, s)
           u == TwosComplement(x)
           v == TwosComplement(y)
<1>1. /\ a \in 0 .. Modulus - 1 /\ b \in 0 .. Modulus - 1
      /\ Half \in Nat \ {0} /\ Modulus = 2 * Half
  BY Powers
<1>2. /\ Signed(a) = IF a >= Half THEN a - Modulus ELSE a
      /\ Signed(b) = IF b >= Half THEN b - Modulus ELSE b
  BY SignedLemma
<1>3. x = (IF s THEN Signed(a) ELSE a) /\ y = (IF s THEN Signed(b) ELSE b)
  BY DEF Read
<1> HIDE DEF x, y
<1>4. /\ u = IF x < 0 \/ x >= Half THEN x - Modulus ELSE x
      /\ v = IF y < 0 \/ y >= Half THEN y - Modulus ELSE y
  BY DEF TwosComplement, Half, Modulus
<1> HIDE DEF u, v
<1> DEFINE Facts == /\ x \in Int /\ y \in Int /\ u \in Int /\ v \in Int
                    /\ x = y <=> a = b
                    /\ b = 0 => y = 0
                    /\ s => x = Signed(a) /\ y = Signed(b)
                    /\ ~s => x = a /\ y = b
                    /\ u = v <=> a = b
                    /\ u < v <=> Signed(a) < Signed(b)
                    /\ u <= v <=> Signed(a) <= Signed(b)
<1>5. s => Facts
  <2> SUFFICES ASSUME s PROVE Facts
    OBVIOUS
  <2>1. x = Signed(a) /\ y = Signed(b)
    BY <1>3
  <2> QED
    BY <1>1, <1>2, <1>4, <2>1
<1>6. ~s => Facts
  <2> SUFFICES ASSUME ~s PROVE Facts
    OBVIOUS
  <2>1. x = a /\ y = b
    BY <1>3
  <2> QED
    BY <1>1, <1>2, <1>4, <2>1
<1> QED
  BY <1>5, <1>6 DEF x, y, u, v

\* RISC-V: the signed comparisons.
LEMMA RiscvLemma ==
    ASSUME NEW a \in Words, NEW b \in Words, NEW s \in BOOLEAN,
           NEW m \in {"eq", "ne", "lt", "le", "ge"}
    PROVE  RiscvTaken(m, FALSE, Read(a, s), Read(b, s)) = Meaning(a, b)[m] <=> m # "ge"
<1> DEFINE u == TwosComplement(Read(a, s))
           v == TwosComplement(Read(b, s))
           T == RiscvTaken(m, FALSE, Read(a, s), Read(b, s))
           Q == Meaning(a, b)
<1>1. (u = v <=> a = b) /\ (u < v <=> Signed(a) < Signed(b)) /\ (u <= v <=> Signed(a) <= Signed(b))
  BY ReadLemma
<1>8. Signed(a) \in Int /\ Signed(b) \in Int
  BY CompareLemma
<1> SUFFICES T = Q[m] <=> m # "ge"
  OBVIOUS
<1> HIDE DEF u, v, T, Q
<1>2. CASE m = "eq"
  <2>1. T = (u = v) /\ Q[m] = (a = b)
    BY <1>2 DEF RiscvTaken, Meaning, T, Q, u, v
  <2> QED
    BY <1>1, <1>2, <2>1
<1>3. CASE m = "ne"
  <2>1. T = (u # v) /\ Q[m] = (a # b)
    BY <1>3 DEF RiscvTaken, Meaning, T, Q, u, v
  <2> QED
    BY <1>1, <1>3, <2>1
<1>4. CASE m = "lt"
  <2>1. T = (u < v) /\ Q[m] = (Signed(a) < Signed(b))
    BY <1>4 DEF RiscvTaken, Meaning, T, Q, u, v
  <2> QED
    BY <1>1, <1>4, <2>1
<1>5. CASE m = "le"
  <2>1. T = (u <= v) /\ Q[m] = (Signed(a) <= Signed(b))
    BY <1>5 DEF RiscvTaken, Meaning, T, Q, u, v
  <2> QED
    BY <1>1, <1>5, <2>1
<1>6. CASE m = "ge"
  <2>1. T = (u < v) /\ Q[m] = (Signed(a) >= Signed(b))
    BY <1>6 DEF RiscvTaken, Meaning, T, Q, u, v
  <2> QED
    BY <1>1, <1>6, <1>8, <2>1
<1> QED
  BY <1>2, <1>3, <1>4, <1>5, <1>6

\* RISC-V: the unsigned comparisons are wrong where the signs of the registers
\* change the order, and `ge' is inverted.
LEMMA RiscvUnsignedLemma ==
    ASSUME NEW a \in Words, NEW b \in Words, NEW s \in BOOLEAN, NEW m \in {"lt", "le", "ge"}
    PROVE  LET split == (Signed(a) < 0) # (Signed(b) < 0)
               right == RiscvTaken(m, TRUE, Read(a, s), Read(b, s))
                            = Meaning(a, b)[RiscvUnsigned[m]]
           IN  /\ m \in {"lt", "le"} => (right <=> ~(s /\ split))
               /\ m = "ge" => (right <=> s /\ split)
<1> DEFINE x == Read(a, s)
           y == Read(b, s)
           split == (Signed(a) < 0) # (Signed(b) < 0)
<1>1. /\ a \in 0 .. Modulus - 1 /\ b \in 0 .. Modulus - 1
      /\ Half \in Nat \ {0} /\ Modulus = 2 * Half
  BY Powers
<1>2. /\ Signed(a) = IF a >= Half THEN a - Modulus ELSE a
      /\ Signed(b) = IF b >= Half THEN b - Modulus ELSE b
  BY SignedLemma
<1>3. x = (IF s THEN Signed(a) ELSE a) /\ y = (IF s THEN Signed(b) ELSE b)
  BY DEF Read
<1>4. (split <=> (a >= Half <=> ~(b >= Half))) /\ split \in BOOLEAN
  <2>1. (Signed(a) < 0 <=> a >= Half) /\ (Signed(b) < 0 <=> b >= Half)
    BY <1>1, <1>2
  <2> QED
    BY <2>1
<1> HIDE DEF x, y, split
<1>5. /\ x \in Int /\ y \in Int
      /\ ((x < y) = (a < b)) <=> ~(s /\ split)
      /\ ((x <= y) = (a <= b)) <=> ~(s /\ split)
      /\ ((x < y) = (a >= b)) <=> (s /\ split)
  <2>1. CASE s = FALSE
    <3>1. x = a /\ y = b
      BY <1>3, <2>1
    <3> QED
      BY <1>1, <2>1, <3>1
  <2>2. CASE s = TRUE
    <3>1. x = Signed(a) /\ y = Signed(b)
      BY <1>3, <2>2
    <3>2. x = (IF a >= Half THEN a - Modulus ELSE a) /\ y = (IF b >= Half THEN b - Modulus ELSE b)
      BY <1>2, <3>1
    <3>3. CASE a >= Half /\ b >= Half
      BY <1>1, <1>4, <2>2, <3>2, <3>3
    <3>4. CASE a >= Half /\ ~(b >= Half)
      BY <1>1, <1>4, <2>2, <3>2, <3>4
    <3>5. CASE ~(a >= Half) /\ b >= Half
      BY <1>1, <1>4, <2>2, <3>2, <3>5
    <3>6. CASE ~(a >= Half) /\ ~(b >= Half)
      BY <1>1, <1>4, <2>2, <3>2, <3>6
    <3> QED
      BY <3>3, <3>4, <3>5, <3>6
  <2> QED
    BY <2>1, <2>2
<1> DEFINE T == RiscvTaken(m, TRUE, x, y)
           Q == Meaning(a, b)[RiscvUnsigned[m]]
           right == T = Q
<1> SUFFICES /\ m \in {"lt", "le"} => (right <=> ~(s /\ split))
             /\ m = "ge" => (right <=> s /\ split)
  BY DEF x, y, split
<1> HIDE DEF T, Q
<1>6. CASE m = "lt"
  <2>1. T = (x < y) /\ Q = (a < b)
    BY <1>6 DEF RiscvTaken, RiscvUnsigned, Meaning, T, Q
  <2> QED
    BY <1>5, <1>6, <2>1
<1>7. CASE m = "le"
  <2>1. T = (x <= y) /\ Q = (a <= b)
    BY <1>7 DEF RiscvTaken, RiscvUnsigned, Meaning, T, Q
  <2> QED
    BY <1>5, <1>7, <2>1
<1>8. CASE m = "ge"
  <2>1. T = (x < y) /\ Q = (a >= b)
    BY <1>8 DEF RiscvTaken, RiscvUnsigned, Meaning, T, Q
  <2> QED
    BY <1>5, <1>8, <2>1
<1> QED
  BY <1>6, <1>7, <1>8

\* MIPS: comparisons with each other and with zero.
LEMMA MipsLemma ==
    ASSUME NEW a \in Words, NEW b \in Words, NEW s \in BOOLEAN, NEW m \in DOMAIN MipsMeans,
           m \in ZeroForms => b = 0
    PROVE  MipsTaken(Read(a, s), Read(b, s))[m] = Meaning(a, b)[MipsMeans[m]]
               <=> ~(m \in {"bgtz", "bgez", "bltz", "blez"} /\ ~s /\ Signed(a) < 0)
<1> DEFINE x == Read(a, s)
           y == Read(b, s)
           T == MipsTaken(x, y)
           Q == Meaning(a, b)
           X == Signed(a)
           Y == Signed(b)
           M(n) == Q[MipsMeans[n]]
<1>1. /\ x = y <=> a = b
      /\ b = 0 => y = 0
      /\ s => x = X /\ y = Y
      /\ ~s => x = a
  BY ReadLemma
<1>11. /\ a \in Nat /\ X \in Int
       /\ X < 0 => a > 0
       /\ ~(X < 0) => X = a
       /\ b = 0 => Y = 0
  BY Powers, SignedLemma
<1>2. /\ Q["eq"] = (a = b) /\ Q["ne"] = (a # b) /\ Q["lt"] = (X < Y) /\ Q["le"] = (X <= Y)
      /\ Q["gt"] = (X > Y) /\ Q["ge"] = (X >= Y)
  BY DEF Meaning
<1>3. /\ T["beq"] = (x = y) /\ T["bne"] = (x # y) /\ T["beqz"] = (x = 0) /\ T["bnez"] = (x # 0)
      /\ T["bgtz"] = (x > 0) /\ T["bgez"] = (x >= 0) /\ T["bltz"] = (x < 0) /\ T["blez"] = (x <= 0)
  BY DEF MipsTaken
<1>4. m \in {"beq", "bne", "beqz", "bnez", "bgtz", "bgez", "bltz", "blez"}
  BY DEF MipsMeans
<1>5. /\ M("beq") = Q["eq"] /\ M("bne") = Q["ne"] /\ M("beqz") = Q["eq"] /\ M("bnez") = Q["ne"]
      /\ M("bgtz") = Q["gt"] /\ M("bgez") = Q["ge"] /\ M("bltz") = Q["lt"] /\ M("blez") = Q["le"]
  BY DEF MipsMeans
<1> HIDE DEF T, Q, x, y, X, Y, M
<1>6. T["beq"] = M("beq") /\ T["bne"] = M("bne")
  BY <1>1, <1>2, <1>3, <1>5
<1>7. b = 0 => T["beqz"] = M("beqz") /\ T["bnez"] = M("bnez")
  BY <1>1, <1>2, <1>3, <1>5
<1>8. b = 0 /\ (s \/ ~(X < 0)) =>
          /\ T["bgtz"] = M("bgtz") /\ T["bgez"] = M("bgez")
          /\ T["bltz"] = M("bltz") /\ T["blez"] = M("blez")
  BY <1>1, <1>2, <1>3, <1>5, <1>11
<1>12. b = 0 /\ ~s /\ X < 0 =>
          /\ T["bgtz"] # M("bgtz") /\ T["bgez"] # M("bgez")
          /\ T["bltz"] # M("bltz") /\ T["blez"] # M("blez")
  BY <1>1, <1>2, <1>3, <1>5, <1>11
<1>9. /\ m \in {"beqz", "bnez"} => b = 0
      /\ m \in {"bgtz", "bgez", "bltz", "blez"} => b = 0
  BY DEF ZeroForms
<1>10. m \notin {"bgtz", "bgez", "bltz", "blez"} => T[m] = M(m)
  BY <1>4, <1>6, <1>7, <1>9, Zenon
<1>13. /\ m \in {"bgtz", "bgez", "bltz", "blez"} /\ (s \/ ~(X < 0)) => T[m] = M(m)
       /\ m \in {"bgtz", "bgez", "bltz", "blez"} /\ ~s /\ X < 0 => T[m] # M(m)
  BY <1>8, <1>9, <1>12, Zenon
<1>14. T[m] = M(m) <=> ~(m \in {"bgtz", "bgez", "bltz", "blez"} /\ ~s /\ X < 0)
  BY <1>10, <1>13
<1> QED
  BY <1>14 DEF T, Q, x, y, X, M

\* AArch64: the branches on a register, and on one of its bits.
LEMMA Aarch64Lemma ==
    ASSUME NEW a \in Words, NEW b \in Words, NEW m \in Aarch64Register,
           m \in ZeroForms => b = 0,
           m \in {"tbz", "tbnz"} => b < Width
    PROVE  /\ m = "cbz" => Aarch64Taken(a, b)[m] = Meaning(a, b).eq
           /\ m = "cbnz" => Aarch64Taken(a, b)[m] = Meaning(a, b).ne
           /\ m \in {"tbz", "tbnz"} => Aarch64Taken(a, b)[m] = ((Bit(a, b) = 1) = (m = "tbnz"))
<1>1. Meaning(a, b).eq = (a = b) /\ Meaning(a, b).ne = (a # b)
  BY DEF Meaning
<1> DEFINE B == Bit(a, b)
           T == Aarch64Taken(a, b)
<1>2. T["cbnz"] = (a # 0) /\ T["cbz"] = (a = 0) /\ T["tbnz"] = (B # 0) /\ T["tbz"] = (B = 0)
  BY DEF Aarch64Taken
<1>3. b < Width => B \in {0, 1}
  <2>1. a \in Nat /\ b \in Nat
    BY Powers
  <2> SUFFICES ASSUME b < Width PROVE B \in {0, 1}
    OBVIOUS
  <2>2. 2^b \in Nat \ {0}
    BY <2>1, WidthBound, PowersOfTwo
  <2>3. a \div 2^b \in Int
    BY <2>1, <2>2
  <2> QED
    BY <2>3 DEF Bit
<1> HIDE DEF B, T
<1>4. CASE m = "cbz"
  BY <1>1, <1>2, <1>4 DEF T, ZeroForms
<1>5. CASE m = "cbnz"
  BY <1>1, <1>2, <1>5 DEF T, ZeroForms
<1>6. CASE m = "tbz"
  <2>1. (B = 0) = ((B = 1) = FALSE)
    BY <1>3, <1>6
  <2> QED
    BY <1>2, <1>6, <2>1 DEF T, B
<1>7. CASE m = "tbnz"
  <2>1. (B # 0) = ((B = 1) = TRUE)
    BY <1>3, <1>7
  <2> QED
    BY <1>2, <1>7, <2>1 DEF T, B
<1> QED
  BY <1>4, <1>5, <1>6, <1>7 DEF Aarch64Register

-----------------------------------------------------------------------------
(* is_branch_taken() *)

\* A branch that the command was asked about.
BranchJob ==
    /\ job.cmd = "branch"
    /\ <<job.arch, job.mnemo, job.unsigned>> \in Branches
    /\ job.a \in Words /\ job.b \in Words /\ job.signed \in BOOLEAN
    /\ job.mnemo \in ZeroForms => job.b = 0
    /\ job.mnemo \in {"tbz", "tbnz"} => job.b < Width
    /\ job.mnemo = "jcxz" => job.b \in 1 .. Width
    /\ job.other \in BOOLEAN /\ (job.arch \notin {"arm", "ppc"} => ~job.other)
    /\ ~job.other => job.cr0 = Outcome(job.a, job.b) \/ job.arch # "ppc"

\* The inductive invariant.
BranchInv ==
    /\ BranchJob
    /\ st.status = "walking" => st = [status |-> "walking", taken |-> FALSE]
    /\ BranchPredicted

\* The branches of each architecture.
LEMMA Architectures ==
    ASSUME BranchJob
    PROVE  \/ job.arch \in {"arm", "aarch64"} /\ job.mnemo \in ArmConditions
           \/ job.arch = "aarch64" /\ job.mnemo \in Aarch64Register
           \/ job.arch = "aarch64" /\ job.mnemo \in Aarch64NoCase
           \/ job.arch = "x86" /\ job.mnemo \in DOMAIN X86Means
           \/ job.arch = "x86" /\ job.mnemo = "jcxz"
           \/ job.arch = "ppc" /\ job.mnemo \in DOMAIN PowerPCMeans
           \/ job.arch = "sparc" /\ job.mnemo \in DOMAIN SparcMeans
           \/ job.arch = "riscv" /\ job.mnemo \in RiscvConditions /\ job.unsigned = FALSE
           \/ job.arch = "riscv" /\ job.mnemo \in DOMAIN RiscvUnsigned /\ job.unsigned = TRUE
           \/ job.arch = "mips" /\ job.mnemo \in DOMAIN MipsMeans
<1> DEFINE D == ArmConditions
           R == Aarch64Register
           H == Aarch64NoCase
           X == DOMAIN X86Means
           P == DOMAIN PowerPCMeans
           S == DOMAIN SparcMeans
           U == DOMAIN RiscvUnsigned
           M == DOMAIN MipsMeans
<1> HIDE DEF D, R, H, X, P, S, U, M
<1>1. <<job.arch, job.mnemo, job.unsigned>> \in
         {<<"arm", m, FALSE>> : m \in D}
         \cup {<<"aarch64", m, FALSE>> : m \in D \cup R \cup H}
         \cup {<<"x86", m, FALSE>> : m \in X \cup {"jcxz"}}
         \cup {<<"ppc", m, FALSE>> : m \in P}
         \cup {<<"sparc", m, FALSE>> : m \in S}
         \cup {<<"riscv", c, FALSE>> : c \in RiscvConditions}
         \cup {<<"riscv", c, TRUE>> : c \in U}
         \cup {<<"mips", m, FALSE>> : m \in M}
  BY Zenon DEF BranchJob, Branches, D, R, H, X, P, S, U, M
<1>2. \/ job.arch \in {"arm", "aarch64"} /\ job.mnemo \in D
      \/ job.arch = "aarch64" /\ job.mnemo \in R
      \/ job.arch = "aarch64" /\ job.mnemo \in H
      \/ job.arch = "x86" /\ job.mnemo \in X
      \/ job.arch = "x86" /\ job.mnemo = "jcxz"
      \/ job.arch = "ppc" /\ job.mnemo \in P
      \/ job.arch = "sparc" /\ job.mnemo \in S
      \/ job.arch = "riscv" /\ job.mnemo \in RiscvConditions /\ job.unsigned = FALSE
      \/ job.arch = "riscv" /\ job.mnemo \in U /\ job.unsigned = TRUE
      \/ job.arch = "mips" /\ job.mnemo \in M
  BY <1>1
<1> QED
  BY <1>2, Zenon DEF D, R, H, X, P, S, U, M

\* What a verdict leaves in the state.
LEMMA DoneLemma ==
    ASSUME NEW s, NEW f, NEW v, s = [status |-> "walking", taken |-> f]
    PROVE  [s EXCEPT !.status = "done", !.taken = v] = [status |-> "done", taken |-> v]
<1> DEFINE r == [s EXCEPT !.status = "done", !.taken = v]
<1>1. DOMAIN r = {"status", "taken"} /\ r["status"] = "done" /\ r["taken"] = v
  OBVIOUS
<1>2. r = [k \in {"status", "taken"} |-> r[k]]
  BY <1>1
<1> HIDE DEF r
<1>3. r = [status |-> "done", taken |-> v]
  BY <1>1, <1>2
<1> QED
  BY <1>3 DEF r

\* One call of is_branch_taken().
LEMMA VerdictLemma ==
    ASSUME BranchJob, IsBranchTaken,
           st = [status |-> "walking", taken |-> FALSE]
    PROVE  (st'.status = "done" /\ st'.taken = Taken) <=> ~Misjudged
<1> DEFINE m == job.mnemo
           a == job.a
           b == job.b
           s == job.signed
           x == Read(a, s)
           y == Read(b, s)
           borrow == Flags(a, b, TRUE)
           carry == Flags(a, b, FALSE)
           means == Meaning(a, b)
           split == (Signed(a) < 0) # (Signed(b) < 0)
           asSigned == job.unsigned /\ s
           Is(v) == st' = [status |-> "done", taken |-> v]
           done(v) == [st EXCEPT !.status = "done", !.taken = v]
<1>1. a \in Words /\ b \in Words /\ s \in BOOLEAN
  BY DEF BranchJob
<1>2. \A v : done(v) = [status |-> "done", taken |-> v]
  <2>1. st = [status |-> "walking", taken |-> FALSE]
    OBVIOUS
  <2> QED
    BY <2>1, DoneLemma, Zenon
<1>3. \A v : Is(v) => ((st'.status = "done" /\ st'.taken = Taken) <=> v = Taken)
  OBVIOUS
<1>4. st' = CASE job.arch = "x86" /\ m = "jcxz" -> done(CxTaken(a))
              [] job.arch = "x86" /\ m # "jcxz" -> done(X86Taken(borrow)[m])
              [] job.arch = "sparc" -> done(SparcTaken(borrow)[m])
              [] job.arch = "ppc" -> done(PowerPCTaken(job.cr0)[m])
              [] job.arch = "mips" -> done(MipsTaken(x, y)[m])
              [] job.arch = "aarch64" /\ m \in Aarch64Register -> done(Aarch64Taken(a, b)[m])
              [] job.arch = "aarch64" /\ m \in Aarch64NoCase -> done(FALSE)
              [] job.arch = "riscv" /\ m \in RiscvNoCase -> [st EXCEPT !.status = "raised"]
              [] job.arch = "riscv" /\ m \notin RiscvNoCase ->
                    done(RiscvTaken(m, job.unsigned, x, y))
              [] OTHER -> done(ArmTaken(carry)[m])
  BY DEF IsBranchTaken
<1>5. Taken = CASE job.arch = "x86" /\ m = "jcxz" -> a % 2^b = 0
                [] job.arch = "x86" /\ m # "jcxz" -> means[X86Means[m]]
                [] job.arch = "sparc" -> means[SparcMeans[m]]
                [] job.arch = "ppc" -> means[PowerPCMeans[m]]
                [] job.arch = "mips" -> means[MipsMeans[m]]
                [] job.arch = "arm" /\ job.other -> FALSE
                [] job.arch = "aarch64" /\ m = "cbz" -> means.eq
                [] job.arch = "aarch64" /\ m = "cbnz" -> means.ne
                [] job.arch = "aarch64" /\ m = "hs" -> means.cs
                [] job.arch = "aarch64" /\ m = "lo" -> means.cc
                [] job.arch = "aarch64" /\ m = "al" -> TRUE
                [] m \in {"tbz", "tbnz"} -> (Bit(a, b) = 1) = (m = "tbnz")
                [] job.arch = "riscv" /\ m = "no_branch" -> FALSE
                [] job.arch = "riscv" /\ job.unsigned -> means[RiscvUnsigned[m]]
                [] OTHER -> means[m]
  BY DEF Taken
<1>20. /\ job.arch = "x86" =>
             (Misjudged <=> \/ m = "jl" /\ Negative(a, b) /\ Overflow(a, b)
                            \/ m = "jcxz" /\ a # 0 /\ a % 2^b = 0)
       /\ job.arch = "sparc" =>
             (Misjudged <=>
                \/ m \in {"bg", "bge", "bl"} /\ (Negative(a, b) \/ Overflow(a, b))
                \/ m = "ble" /\ Negative(a, b) /\ Overflow(a, b))
       /\ job.arch = "mips" =>
             (Misjudged <=>
                m \in {"bgtz", "bgez", "bltz", "blez"} /\ ~s /\ Signed(a) < 0)
       /\ job.arch = "arm" => (Misjudged <=> job.other /\ means[m])
       /\ job.arch = "aarch64" => (Misjudged <=> m \in Aarch64NoCase /\ Taken)
       /\ job.arch = "ppc" => (Misjudged <=> job.other /\ PowerPCTaken(job.cr0)[m] # Taken)
  BY DEF Misjudged
<1>21. job.arch = "riscv" =>
             (Misjudged <=> \/ m \in RiscvNoCase
                            \/ m = "ge" /\ ~(asSigned /\ split)
                            \/ m \in {"lt", "le"} /\ asSigned /\ split)
  BY DEF Misjudged
<1> DEFINE Goal == (st'.status = "done" /\ st'.taken = Taken) <=> ~Misjudged
<1> HIDE DEF m, a, b, s, x, y, borrow, carry, means, split, asSigned
<1> HIDE DEF done
<1>22. \A v : st' = done(v) /\ (v = Taken <=> ~Misjudged) => Goal
  BY <1>2, <1>3, Zenon
<1> SUFFICES Goal
  BY DEF Goal
<1> HIDE DEF Goal
<1>6. CASE job.arch = "x86" /\ m \in DOMAIN X86Means
  <2>1. m \notin {"jcxz", "tbz", "tbnz"}
    BY <1>6 DEF X86Means
  <2>2. X86Taken(borrow)[m] = means[X86Means[m]]
            <=> ~(m = "jl" /\ Negative(a, b) /\ Overflow(a, b))
    BY <1>1, <1>6, X86Lemma DEF borrow, means
  <2>3. st' = done(X86Taken(borrow)[m]) /\ Taken = means[X86Means[m]]
    BY <1>4, <1>5, <1>6, <2>1
  <2>4. X86Taken(borrow)[m] = Taken <=> ~Misjudged
    BY <1>6, <1>20, <2>1, <2>2, <2>3, Zenon
  <2> QED
    BY <1>22, <2>3, <2>4, Zenon
<1>14. CASE job.arch = "x86" /\ m = "jcxz"
  <2>1. b \in 1 .. Width
    BY <1>14 DEF BranchJob, m, b
  <2>2. CxTaken(a) = (a % 2^b = 0) <=> ~(a # 0 /\ a % 2^b = 0)
    BY <1>1, <2>1, CxLemma
  <2>3. st' = done(CxTaken(a)) /\ Taken = (a % 2^b = 0)
    BY <1>4, <1>5, <1>14
  <2>5. Misjudged <=> a # 0 /\ a % 2^b = 0
    BY <1>14, <1>20
  <2>4. CxTaken(a) = Taken <=> ~Misjudged
    BY <2>2, <2>3, <2>5, Zenon
  <2> QED
    BY <1>22, <2>3, <2>4, Zenon
<1>7. CASE job.arch = "sparc" /\ m \in DOMAIN SparcMeans
  <2>2. SparcTaken(borrow)[m] = means[SparcMeans[m]]
            <=> ~(\/ m \in {"bg", "bge", "bl"} /\ (Negative(a, b) \/ Overflow(a, b))
                  \/ m = "ble" /\ Negative(a, b) /\ Overflow(a, b))
    BY <1>1, <1>7, SparcLemma DEF borrow, means
  <2>1. m \notin {"tbz", "tbnz"}
    BY <1>7 DEF SparcMeans
  <2>3. st' = done(SparcTaken(borrow)[m]) /\ Taken = means[SparcMeans[m]]
    BY <1>4, <1>5, <1>7, <2>1
  <2>4. SparcTaken(borrow)[m] = Taken <=> ~Misjudged
    BY <1>7, <1>20, <2>2, <2>3, Zenon
  <2> QED
    BY <1>22, <2>3, <2>4, Zenon
<1>8. CASE job.arch = "ppc" /\ m \in DOMAIN PowerPCMeans
  <2>2. m \notin {"tbz", "tbnz"}
    BY <1>8 DEF PowerPCMeans
  <2>3. st' = done(PowerPCTaken(job.cr0)[m]) /\ Taken = means[PowerPCMeans[m]]
    BY <1>4, <1>5, <1>8, <2>2
  <2>1. ~job.other => PowerPCTaken(job.cr0)[m] = Taken
    <3> SUFFICES ASSUME ~job.other PROVE PowerPCTaken(job.cr0)[m] = Taken
      OBVIOUS
    <3>1. job.cr0 = Outcome(a, b)
      BY <1>8 DEF BranchJob, a, b
    <3>2. PowerPCTaken(Outcome(a, b))[m] = means[PowerPCMeans[m]]
      BY <1>1, <1>8, PowerPCLemma DEF means
    <3> QED
      BY <2>3, <3>1, <3>2
  <2>4. PowerPCTaken(job.cr0)[m] = Taken <=> ~Misjudged
    BY <1>8, <1>20, <2>1, Zenon
  <2> QED
    BY <1>22, <2>3, <2>4, Zenon
<1>9. CASE job.arch = "mips" /\ m \in DOMAIN MipsMeans
  <2>2. m \in ZeroForms => b = 0
    BY DEF BranchJob, m, b
  <2>1. MipsTaken(x, y)[m] = means[MipsMeans[m]]
            <=> ~(m \in {"bgtz", "bgez", "bltz", "blez"} /\ ~s /\ Signed(a) < 0)
    BY <1>1, <1>9, <2>2, MipsLemma DEF x, y, means
  <2>5. m \notin {"tbz", "tbnz"}
    BY <1>9 DEF MipsMeans
  <2>3. st' = done(MipsTaken(x, y)[m]) /\ Taken = means[MipsMeans[m]]
    BY <1>4, <1>5, <1>9, <2>5
  <2>4. MipsTaken(x, y)[m] = Taken <=> ~Misjudged
    BY <1>9, <1>20, <2>1, <2>3, Zenon
  <2> QED
    BY <1>22, <2>3, <2>4, Zenon
<1>15. CASE job.arch = "riscv" /\ m \in RiscvNoCase
  <2>1. st'.status = "raised"
    BY <1>4, <1>15
  <2>2. Misjudged
    BY <1>15, <1>21
  <2> QED
    BY <2>1, <2>2 DEF Goal
<1>10. CASE job.arch = "riscv" /\ m \in RiscvConditions \ RiscvNoCase /\ job.unsigned = FALSE
  <2>1. m \in {"eq", "ne", "lt", "le", "ge"} /\ m # "no_branch" /\ m \notin RiscvNoCase
    BY <1>10 DEF RiscvConditions, RiscvNoCase
  <2>2. RiscvTaken(m, FALSE, x, y) = means[m] <=> m # "ge"
    BY <1>1, <2>1, RiscvLemma DEF x, y, means
  <2>5. m \notin {"tbz", "tbnz"}
    BY <2>1
  <2>3. st' = done(RiscvTaken(m, FALSE, x, y)) /\ Taken = means[m]
    BY <1>4, <1>5, <1>10, <2>1, <2>5
  <2>6. ~asSigned
    BY <1>10 DEF asSigned
  <2>7. Misjudged <=> m = "ge"
    BY <1>10, <1>21, <2>1, <2>6, Zenon
  <2>4. RiscvTaken(m, FALSE, x, y) = Taken <=> ~Misjudged
    BY <2>2, <2>3, <2>7, Zenon
  <2> QED
    BY <1>22, <2>3, <2>4, Zenon
<1>11. CASE job.arch = "riscv" /\ m \in DOMAIN RiscvUnsigned \ RiscvNoCase /\ job.unsigned = TRUE
  <2>1. m \in {"lt", "le", "ge"} /\ m # "no_branch" /\ m \notin RiscvNoCase
    BY <1>11 DEF RiscvUnsigned, RiscvNoCase
  <2>6. asSigned = s
    BY <1>1, <1>11 DEF asSigned
  <2> DEFINE right == RiscvTaken(m, TRUE, x, y) = means[RiscvUnsigned[m]]
             p == asSigned /\ split
  <2>2. /\ m \in {"lt", "le"} => (right <=> ~(s /\ split))
        /\ m = "ge" => (right <=> s /\ split)
    BY <1>1, <2>1, RiscvUnsignedLemma DEF x, y, means, split
  <2>5. m \notin {"tbz", "tbnz"}
    BY <2>1
  <2>3. st' = done(RiscvTaken(m, TRUE, x, y)) /\ Taken = means[RiscvUnsigned[m]]
    BY <1>4, <1>5, <1>11, <2>1, <2>5
  <2>10. p <=> s /\ split
    BY <2>6
  <2> HIDE DEF right
  <2>7. Misjudged <=> (m = "ge" /\ ~p) \/ (m \in {"lt", "le"} /\ p)
    BY <1>11, <1>21, <2>1, Zenon
  <2> HIDE DEF p
  <2>8. right <=> ~Misjudged
    <3>1. CASE m = "ge"
      <4>1. m \notin {"lt", "le"}
        BY <3>1
      <4>2. Misjudged <=> ~p
        BY <2>7, <3>1, <4>1
      <4>3. right <=> p
        BY <2>2, <2>10, <3>1
      <4> QED
        BY <4>2, <4>3
    <3>2. CASE m \in {"lt", "le"}
      <4>1. m # "ge"
        BY <3>2
      <4>2. Misjudged <=> p
        BY <2>7, <3>2, <4>1
      <4>3. right <=> ~p
        BY <2>2, <2>10, <3>2
      <4> QED
        BY <4>2, <4>3
    <3> QED
      BY <2>1, <3>1, <3>2
  <2>4. RiscvTaken(m, TRUE, x, y) = Taken <=> ~Misjudged
    BY <2>3, <2>8, Zenon DEF right
  <2> QED
    BY <1>22, <2>3, <2>4, Zenon
<1>12. CASE job.arch \in {"arm", "aarch64"} /\ m \in ArmConditions
  <2>1. ArmTaken(carry)[m] = means[m] /\ means[m] \in BOOLEAN
    BY <1>1, <1>12, ArmLemma DEF carry, means
  <2>2. m \notin {"tbz", "tbnz", "cbz", "cbnz", "hs", "lo", "al"} \cup Aarch64Register \cup Aarch64NoCase
    BY <1>12 DEF ArmConditions, Aarch64Register, Aarch64NoCase
  <2>3. st' = done(ArmTaken(carry)[m])
    BY <1>4, <1>12, <2>2
  <2>4. CASE job.arch = "arm" /\ job.other
    <3>1. Taken = FALSE /\ (Misjudged <=> means[m])
      <4>1. Taken = FALSE
        BY <1>5, <2>2, <2>4
      <4>2. Misjudged <=> means[m]
        BY <1>20, <2>4, Zenon
      <4> QED
        BY <4>1, <4>2
    <3>2. ArmTaken(carry)[m] = Taken <=> ~Misjudged
      <4> DEFINE v == means[m]
                 w == ArmTaken(carry)[m]
      <4> HIDE DEF v, w
      <4>1. w = v /\ v \in BOOLEAN /\ (Misjudged <=> v)
        BY <2>1, <3>1 DEF v, w
      <4>2. w = Taken <=> ~Misjudged
        BY <3>1, <4>1, Zenon
      <4> QED
        BY <4>2 DEF w
    <3> QED
      BY <1>22, <2>3, <3>2, Zenon
  <2>5. CASE job.arch = "aarch64" \/ ~job.other
    <3>1. Taken = means[m]
      BY <1>5, <1>12, <2>2, <2>5
    <3>2. ~Misjudged
      BY <1>12, <1>20, <2>2, <2>5
    <3>3. ArmTaken(carry)[m] = Taken <=> ~Misjudged
      BY <2>1, <3>1, <3>2
    <3> QED
      BY <1>22, <2>3, <3>3, Zenon
  <2> QED
    BY <1>12, <2>4, <2>5
<1>16. CASE job.arch = "aarch64" /\ m \in Aarch64NoCase
  <2>1. m \in {"hs", "lo", "al"} /\ m \notin Aarch64Register
    BY <1>16 DEF Aarch64NoCase, Aarch64Register
  <2>2. st' = done(FALSE)
    BY <1>4, <1>16, <2>1
  <2>3. Taken \in BOOLEAN
    <3>1. /\ m = "hs" => Taken = means.cs
          /\ m = "lo" => Taken = means.cc
          /\ m = "al" => Taken = TRUE
      BY <1>5, <1>16
    <3>2. means.cs = (a >= b) /\ means.cc = (a < b)
      BY DEF means, Meaning
    <3>3. means.cs \in BOOLEAN /\ means.cc \in BOOLEAN
      BY <3>2
    <3> QED
      BY <2>1, <3>1, <3>3, Zenon
  <2>4. FALSE = Taken <=> ~Misjudged
    BY <1>16, <1>20, <2>3, Zenon
  <2> QED
    BY <1>22, <2>2, <2>4, Zenon
<1>13. CASE job.arch = "aarch64" /\ m \in Aarch64Register
  <2>1. (m \in ZeroForms => b = 0) /\ (m \in {"tbz", "tbnz"} => b < Width)
    BY DEF BranchJob, m, b
  <2>2. /\ m = "cbz" => Aarch64Taken(a, b)[m] = means.eq
        /\ m = "cbnz" => Aarch64Taken(a, b)[m] = means.ne
        /\ m \in {"tbz", "tbnz"} => Aarch64Taken(a, b)[m] = ((Bit(a, b) = 1) = (m = "tbnz"))
    BY <1>1, <1>13, <2>1, Aarch64Lemma DEF means
  <2>4. m \in {"cbz", "cbnz", "tbz", "tbnz"} /\ m \notin Aarch64NoCase
    BY <1>13 DEF Aarch64Register, Aarch64NoCase
  <2>3. st' = done(Aarch64Taken(a, b)[m])
    BY <1>4, <1>13, <2>4
  <2>5. /\ m = "cbz" => Taken = means.eq
        /\ m = "cbnz" => Taken = means.ne
        /\ m \in {"tbz", "tbnz"} => Taken = ((Bit(a, b) = 1) = (m = "tbnz"))
    <3>1. CASE m = "cbz"
      BY <1>5, <1>13, <3>1
    <3>2. CASE m = "cbnz"
      BY <1>5, <1>13, <3>2
    <3>3. CASE m \in {"tbz", "tbnz"}
      BY <1>5, <1>13, <3>3
    <3> QED
      BY <2>4, <3>1, <3>2, <3>3, Zenon
  <2>8. Aarch64Taken(a, b)[m] = Taken
    <3>1. m = "cbz" \/ m = "cbnz" \/ m \in {"tbz", "tbnz"}
      BY <2>4
    <3> QED
      BY <2>2, <2>5, <3>1, Zenon
  <2>9. ~Misjudged
    BY <1>13, <1>20, <2>4
  <2> QED
    BY <1>22, <2>3, <2>8, <2>9, Zenon
<1> QED
  BY <1>6, <1>7, <1>8, <1>9, <1>10, <1>11, <1>12, <1>13, <1>14, <1>15, <1>16, Architectures
  DEF m, RiscvNoCase

\* The verdict shown for a conditional branch of x86, ARM, AArch64, PowerPC, SPARC, MIPS
\* and RISC-V is what the CPU is about to do, for registers of any width and all
\* operands, in every case but the Misjudged ones, and in none of those.
THEOREM BranchIsPredicted == BranchSpec => []BranchPredicted
<1>1. BranchInit => BranchInv
  <2> SUFFICES ASSUME BranchInit PROVE BranchInv
    OBVIOUS
  <2>1. PICK br \in Branches, a \in Words, b \in Words, signed \in BOOLEAN,
             other \in BOOLEAN, cr0 \in {"less", "greater", "equal"} :
            /\ br[2] \in ZeroForms => b = 0
            /\ br[2] \in {"tbz", "tbnz"} => b < Width
            /\ br[2] = "jcxz" => b \in 1 .. Width
            /\ br[1] \notin {"arm", "ppc"} => ~other
            /\ br[1] # "ppc" \/ ~other => cr0 = Outcome(a, b)
            /\ job = [cmd |-> "branch", arch |-> br[1], mnemo |-> br[2], unsigned |-> br[3],
                      a |-> a, b |-> b, signed |-> signed, other |-> other, cr0 |-> cr0]
            /\ st = [status |-> "walking", taken |-> FALSE]
    BY DEF BranchInit
  <2>2. br = <<br[1], br[2], br[3]>>
    <3> DEFINE Triple(A, M, u) == {<<A, m, u>> : m \in M}
    <3>1. ASSUME NEW A, NEW M, NEW u, br \in Triple(A, M, u) PROVE br = <<br[1], br[2], br[3]>>
      BY <3>1
    <3>2. \E A, M, u : br \in Triple(A, M, u)
      <4> HIDE DEF Triple
      <4>1. Branches =
                Triple("arm", ArmConditions, FALSE)
                \cup Triple("aarch64", ArmConditions \cup Aarch64Register \cup Aarch64NoCase, FALSE)
                \cup Triple("x86", DOMAIN X86Means \cup {"jcxz"}, FALSE)
                \cup Triple("ppc", DOMAIN PowerPCMeans, FALSE)
                \cup Triple("sparc", DOMAIN SparcMeans, FALSE)
                \cup Triple("riscv", RiscvConditions, FALSE)
                \cup Triple("riscv", DOMAIN RiscvUnsigned, TRUE)
                \cup Triple("mips", DOMAIN MipsMeans, FALSE)
        BY Zenon DEF Branches, Triple
      <4> QED
        BY <4>1, Zenon
    <3> QED
      BY <3>1, <3>2, Zenon
  <2>3. BranchJob
    BY <2>1, <2>2 DEF BranchJob
  <2>4. BranchPredicted
    BY <2>1 DEF BranchPredicted, Ended
  <2> QED
    BY <2>1, <2>3, <2>4 DEF BranchInv
<1>2. BranchInv /\ [IsBranchTaken]_vars => BranchInv'
  <2> SUFFICES ASSUME BranchInv, [IsBranchTaken]_vars PROVE BranchInv'
    OBVIOUS
  <2>1. CASE UNCHANGED vars
    <3>1. job' = job /\ st' = st
      BY <2>1 DEF vars
    <3>2. (Misjudged' <=> Misjudged) /\ Taken' = Taken
      BY <3>1 DEF Misjudged, Taken
    <3>3. BranchJob' /\ BranchPredicted'
      BY <3>1, <3>2 DEF BranchInv, BranchJob, BranchPredicted, Ended
    <3> QED
      BY <3>1, <3>3 DEF BranchInv
  <2>2. CASE IsBranchTaken
    <3>1. job' = job /\ st = [status |-> "walking", taken |-> FALSE]
      BY <2>2 DEF BranchInv, IsBranchTaken, Walking
    <3>2. BranchJob /\ BranchJob'
      BY <3>1 DEF BranchInv, BranchJob
    <3>3. (Misjudged' <=> Misjudged) /\ Taken' = Taken
      BY <3>1 DEF Misjudged, Taken
    <3>4. (st'.status = "done" /\ st'.taken = Taken) <=> ~Misjudged
      BY <2>2, <3>1, <3>2, VerdictLemma
    <3>5. BranchPredicted'
      BY <3>3, <3>4 DEF BranchPredicted
    <3>6. st'.status # "walking"
      BY <2>2, <3>1 DEF IsBranchTaken
    <3> QED
      BY <3>2, <3>5, <3>6 DEF BranchInv
  <2> QED
    BY <2>1, <2>2
<1>3. BranchInv => BranchPredicted
  BY DEF BranchInv
<1> QED
  BY <1>1, <1>2, <1>3, PTL DEF BranchSpec

-----------------------------------------------------------------------------
(* Loops written as recursive functions *)

\* Induction, for a set in the place of a predicate.
LEMMA Induction ==
    ASSUME NEW S, 0 \in S, \A n \in Nat : n \in S => n + 1 \in S
    PROVE  \A n \in Nat : n \in S
<1> DEFINE R == OpToRel(<, Nat)
           T == {n \in Nat : n \notin S}
<1> SUFFICES ASSUME T # {} PROVE FALSE
  OBVIOUS
<1>1. \A x, y \in Nat : x < y => <<x, y>> \in R
  BY DEF OpToRel
<1>2. IsWellFoundedOn(R, Nat)
  BY NatLessThanWellFounded
<1>3. T \subseteq Nat
  OBVIOUS
<1>4. \E x \in T : \A y \in T : ~ (<<y, x>> \in R)
  <2> HIDE DEF R, T
  <2> QED
    BY <1>2, <1>3, WFMin
<1>5. PICK x \in T : \A y \in T : ~ (y < x)
  <2> HIDE DEF R, T
  <2> QED
    BY <1>1, <1>3, <1>4
<1>6. x \in Nat /\ x # 0 /\ x \notin S
  OBVIOUS
<1>7. x - 1 \in Nat /\ x - 1 < x /\ (x - 1) + 1 = x
  BY <1>6
<1>8. x - 1 \in S
  BY <1>5, <1>7
<1> QED
  BY <1>6, <1>7, <1>8

\* The states a loop goes through exist when its steps stay in a set.
Loop(F, x0, Step) ==
    \A n \in Nat : F[n] = Step[<<n, IF n = 0 THEN x0 ELSE F[n - 1]>>]

LEMMA LoopExists ==
    ASSUME NEW V, NEW x0 \in V, NEW Step \in [Nat \X V -> V]
    PROVE  \E F \in [Nat -> V] : Loop(F, x0, Step)
<1> DEFINE Before(g, i) == IF i = 0 THEN x0 ELSE g[i - 1]
           Approx(n, g) == /\ g \in [0 .. n -> V]
                           /\ \A i \in 0 .. n : g[i] = Step[<<i, Before(g, i)>>]
           S == {n \in Nat : \E g : Approx(n, g)}
<1>1. 0 \in S
  <2> DEFINE y == Step[<<0, x0>>]
             g == [i \in 0 .. 0 |-> y]
  <2>1. y \in V
    OBVIOUS
  <2>2. g \in [0 .. 0 -> V] /\ \A i \in 0 .. 0 : i = 0 /\ g[i] = y
    BY <2>1
  <2>3. Approx(0, g)
    BY <2>2
  <2> QED
    BY <2>3
<1>2. ASSUME NEW n \in Nat, n \in S PROVE n + 1 \in S
  <2>1. PICK g : Approx(n, g)
    BY <1>2
  <2> DEFINE y == Step[<<n + 1, g[n]>>]
             h == [i \in 0 .. (n + 1) |-> IF i = n + 1 THEN y ELSE g[i]]
  <2>2. g[n] \in V /\ y \in V
    BY <2>1
  <2> HIDE DEF y
  <2>3. /\ h \in [0 .. (n + 1) -> V] /\ h[n + 1] = y
        /\ \A i \in 0 .. n : h[i] = g[i]
    BY <2>1, <2>2
  <2> HIDE DEF h
  <2>4. ASSUME NEW i \in 0 .. (n + 1) PROVE h[i] = Step[<<i, Before(h, i)>>]
    <3>1. CASE i = n + 1
      <4>1. Before(h, i) = g[n]
        BY <2>3, <3>1
      <4> QED
        BY <2>3, <3>1, <4>1 DEF y
    <3>2. CASE i \in 0 .. n
      <4>1. h[i] = g[i] /\ (i # 0 => i - 1 \in 0 .. n /\ h[i - 1] = g[i - 1])
        BY <2>3, <3>2
      <4>2. Before(h, i) = Before(g, i)
        BY <4>1
      <4>3. g[i] = Step[<<i, Before(g, i)>>]
        BY <2>1, <3>2
      <4> QED
        BY <4>1, <4>2, <4>3
    <3> QED
      BY <3>1, <3>2
  <2>5. Approx(n + 1, h)
    BY <2>3, <2>4
  <2> QED
    BY <2>5
<1>3. \A n \in Nat : \E g : Approx(n, g)
  <2> HIDE DEF S
  <2>1. \A n \in Nat : n \in S
    BY <1>1, <1>2, Induction
  <2> QED
    BY <2>1 DEF S
<1>4. ASSUME NEW m \in Nat, NEW n \in Nat, NEW g, NEW h, Approx(m, g), Approx(n, h)
      PROVE  \A i \in Nat : i <= m /\ i <= n => g[i] = h[i]
  <2> DEFINE E == {i \in Nat : i <= m /\ i <= n => g[i] = h[i]}
  <2>1. 0 \in E
    <3>1. g[0] = Step[<<0, x0>>] /\ h[0] = Step[<<0, x0>>]
      BY <1>4
    <3> QED
      BY <3>1
  <2>2. ASSUME NEW i \in Nat, i \in E PROVE i + 1 \in E
    <3> SUFFICES ASSUME i + 1 <= m, i + 1 <= n PROVE g[i + 1] = h[i + 1]
      OBVIOUS
    <3>1. /\ i + 1 \in 0 .. m /\ i + 1 \in 0 .. n /\ (i + 1) - 1 = i /\ i + 1 # 0
          /\ g[i] = h[i]
      BY <2>2
    <3>2. g[i + 1] = Step[<<i + 1, Before(g, i + 1)>>] /\ h[i + 1] = Step[<<i + 1, Before(h, i + 1)>>]
      BY <1>4, <3>1
    <3>3. Before(g, i + 1) = Before(h, i + 1)
      BY <3>1
    <3> QED
      BY <3>2, <3>3
  <2>3. \A i \in Nat : i \in E
    <3> HIDE DEF E
    <3> QED
      BY <2>1, <2>2, Induction
  <2> QED
    BY <2>3
<1> DEFINE G(n) == CHOOSE g : Approx(n, g)
           F == [n \in Nat |-> G(n)[n]]
<1>5. \A n \in Nat : Approx(n, G(n))
  <2> HIDE DEF Approx
  <2> QED
    BY <1>3
<1> HIDE DEF G
<1>6. F \in [Nat -> V]
  BY <1>5
<1>7. ASSUME NEW n \in Nat PROVE F[n] = Step[<<n, Before(F, n)>>]
  <2>1. Approx(n, G(n)) /\ n \in 0 .. n /\ F[n] = G(n)[n]
    BY <1>5
  <2>2. F[n] = Step[<<n, Before(G(n), n)>>]
    BY <2>1
  <2>3. Before(G(n), n) = Before(F, n)
    <3>1. CASE n = 0
      BY <3>1
    <3>2. CASE n # 0
      <4>1. n - 1 \in Nat /\ n - 1 <= n /\ n - 1 <= n - 1
        BY <3>2
      <4>2. Approx(n - 1, G(n - 1))
        BY <1>5, <4>1
      <4> HIDE DEF Approx
      <4>3. G(n)[n - 1] = G(n - 1)[n - 1]
        BY <1>4, <2>1, <4>1, <4>2
      <4>4. F[n - 1] = G(n - 1)[n - 1]
        BY <4>1
      <4> QED
        BY <3>2, <4>3, <4>4
    <3> QED
      BY <3>1, <3>2
  <2> QED
    BY <2>2, <2>3
<1>8. Loop(F, x0, Step)
  BY <1>7 DEF Loop
<1> QED
  BY <1>6, <1>8

-----------------------------------------------------------------------------
(* nop and skipi *)

\* How the bytes of the code are grouped into instructions.
Lengths == [Code -> 1 .. 2]
Places == Code \cup {Unmapped}

\* The instruction behind one that can be read is in the code or past its end.
LEMMA FollowingLemma ==
    ASSUME NEW len \in Lengths, NEW a \in Places
    PROVE  /\ Readable(len, a) \in Places /\ Following(len, a) \in Places
           /\ Readable(len, a) # Unmapped => Readable(len, a) = a /\ Fits(len, a)
           /\ Following(len, a) # Unmapped =>
                 /\ a # Unmapped /\ Following(len, a) = EndOf(len, a)
                 /\ Fits(len, Following(len, a)) /\ a + 1 <= Following(len, a)
<1>1. a \in Code => len[a] \in 1 .. 2 /\ a \in Int
  BY DEF Lengths, Code
<1> QED
  BY <1>1 DEF Places, Readable, Following, Fits, EndOf, Unmapped

\* What gef_instruction_n() computes.
LEMMA InstructionLemma ==
    ASSUME NEW len \in Lengths, NEW a \in Code
    PROVE  LET I(n) == InstructionN(len, a, n)
           IN  /\ I(0) = Readable(len, a)
               /\ \A n \in Nat : I(n) \in Places /\ I(n + 1) = Following(len, I(n))
<1> DEFINE V == Places
           x0 == Unmapped
           Body(i, x) == IF i = 0 THEN Readable(len, a) ELSE Following(len, x)
           Before(g, i) == IF i = 0 THEN x0 ELSE g[i - 1]
           f == CHOOSE g : g = [k \in Nat |-> IF k = 0 THEN Readable(len, a)
                                              ELSE Following(len, g[k - 1])]
           Step == [p \in Nat \X V |-> Body(p[1], p[2])]
<1>1. \A n : InstructionN(len, a, n) = f[n]
  BY DEF InstructionN
<1>2. a \in V /\ x0 \in V
  BY DEF Places
<1>3. \A i \in Nat, x \in V : Body(i, x) \in V
  BY <1>2, FollowingLemma
<1>4. Step \in [Nat \X V -> V] /\ \A i \in Nat, x \in V : Step[<<i, x>>] = Body(i, x)
  <2> HIDE DEF V, Body
  <2> QED
    BY <1>3
<1> HIDE DEF Step, V, x0
<1>5. PICK F \in [Nat -> V] : Loop(F, x0, Step)
  BY <1>2, <1>4, LoopExists
<1>6. \A i \in Nat : F[i] = IF i = 0 THEN Readable(len, a) ELSE Following(len, F[i - 1])
  <2> SUFFICES ASSUME NEW i \in Nat
               PROVE F[i] = IF i = 0 THEN Readable(len, a) ELSE Following(len, F[i - 1])
    OBVIOUS
  <2>1. F[i] = Step[<<i, Before(F, i)>>]
    BY <1>5 DEF Loop
  <2>2. Before(F, i) \in V
    BY <1>2, <1>5
  <2>3. F[i] = Body(i, Before(F, i))
    <3> HIDE DEF Before, Body
    <3> QED
      BY <1>4, <2>1, <2>2
  <2> QED
    BY <2>3
<1>7. F = [k \in Nat |-> IF k = 0 THEN Readable(len, a) ELSE Following(len, F[k - 1])]
  BY <1>6
<1>8. f = [k \in Nat |-> IF k = 0 THEN Readable(len, a) ELSE Following(len, f[k - 1])]
  BY <1>7
<1> HIDE DEF f
<1>9. f[0] = Readable(len, a) /\ \A n \in Nat : f[n + 1] = Following(len, f[n])
  <2>1. \A k \in Nat : f[k] = IF k = 0 THEN Readable(len, a) ELSE Following(len, f[k - 1])
    BY <1>8
  <2> QED
    BY <2>1
<1> DEFINE S == {n \in Nat : f[n] \in V}
<1>10. 0 \in S
  BY <1>2, <1>9, FollowingLemma DEF V
<1>11. \A n \in Nat : n \in S => n + 1 \in S
  BY <1>9, FollowingLemma DEF V
<1>12. \A n \in Nat : n \in S
  <2> HIDE DEF S
  <2> QED
    BY <1>10, <1>11, Induction
<1> QED
  BY <1>1, <1>9, <1>12 DEF V

\* The n-th instruction lies at least n bytes behind the first.
LEMMA InstructionsAdvance ==
    ASSUME NEW len \in Lengths, NEW a \in Code, NEW n \in Nat,
           InstructionN(len, a, n) # Unmapped
    PROVE  /\ a + n <= InstructionN(len, a, n) /\ InstructionN(len, a, n) \in Code
           /\ Fits(len, InstructionN(len, a, n)) /\ n \in 0 .. CodeSize
<1> DEFINE I(k) == InstructionN(len, a, k)
           Good(k) == I(k) # Unmapped => a + k <= I(k) /\ I(k) \in Code /\ Fits(len, I(k))
           S == {k \in Nat : Good(k)}
<1>1. /\ I(0) = Readable(len, a)
      /\ \A k \in Nat : I(k) \in Places /\ I(k + 1) = Following(len, I(k))
  BY InstructionLemma
<1>2. a \in Places /\ a \in Int
  BY DEF Places, Code
<1> HIDE DEF I
<1>3. 0 \in S
  <2>1. I(0) # Unmapped => I(0) = a /\ Fits(len, a)
    BY <1>1, <1>2, FollowingLemma
  <2> QED
    BY <1>2, <2>1
<1>4. ASSUME NEW k \in Nat, k \in S PROVE k + 1 \in S
  <2> SUFFICES ASSUME I(k + 1) # Unmapped PROVE a + (k + 1) <= I(k + 1) /\ Fits(len, I(k + 1))
    BY DEF Fits
  <2>1. I(k) \in Places /\ I(k + 1) = Following(len, I(k))
    BY <1>1
  <2>2. I(k) # Unmapped /\ Fits(len, I(k + 1)) /\ I(k) + 1 <= I(k + 1)
    BY <2>1, FollowingLemma
  <2>3. a + k <= I(k) /\ I(k) \in Int
    BY <1>4, <2>2 DEF Code
  <2>4. I(k + 1) \in Int
    BY <2>2 DEF Fits, Code
  <2> QED
    BY <1>2, <2>2, <2>3, <2>4
<1>5. n \in S
  <2> HIDE DEF S
  <2> QED
    BY <1>3, <1>4, Induction
<1>6. I(n) # Unmapped
  BY DEF I
<1>7. a + n <= I(n) /\ I(n) \in Code /\ Fits(len, I(n))
  BY <1>5, <1>6
<1>8. n \in 0 .. CodeSize
  BY <1>2, <1>7, EditBounds DEF Code
<1> QED
  BY <1>7, <1>8 DEF I

\* The steps of `nop' and `skipi'.
CodeJob ==
    /\ job.cmd \in {"nop", "skipi"}
    /\ job.len \in Lengths /\ job.addr \in Code /\ job.items \in 1 .. 3
    /\ job.nop \in 1 .. 2 /\ job.force \in BOOLEAN
    /\ job.mode \in {"insn", "bytes", "nops", "both"}

\* The states of the two commands.
CodeStates == [status : {"walking", "done", "refused", "raised"}, total : Int, ins : Int,
               written : SUBSET Int, pc : Int]

\* The walk is at an instruction, counted from the address of the command.
CodeInv ==
    /\ CodeJob /\ st \in CodeStates
    /\ job.cmd = "nop" =>
        /\ st.status # "done" => st.written = {}
        /\ (st.status = "walking" /\ st.total = 0) => st.ins = job.addr
        /\ (st.status = "walking" /\ st.total # 0) =>
            /\ \E k \in Nat : /\ InstructionN(job.len, job.addr, k) = st.ins
                              /\ InstructionN(job.len, job.addr, k) # Unmapped
            /\ ~job.force => st.total % job.nop = 0
    /\ (job.cmd = "skipi" /\ st.status # "done") => st.pc = job.addr
    /\ CodeWhole

\* The walk is at an instruction as long as it is counted from one.
LEMMA BoundaryLemma ==
    ASSUME NEW k \in Nat, CodeJob, InstructionN(job.len, job.addr, k) # Unmapped
    PROVE  EndOf(job.len, InstructionN(job.len, job.addr, k)) \in Boundaries
<1>1. k \in 0 .. CodeSize
  BY InstructionsAdvance DEF CodeJob
<1> QED
  BY <1>1 DEF Boundaries

\* What the instructions asked for end at.
LEMMA EndLemma ==
    ASSUME NEW len \in Lengths, NEW a \in Code, NEW n \in Nat, InstructionN(len, a, n) # Unmapped
    PROVE  EndOf(len, InstructionN(len, a, n)) \in Int
<1> DEFINE i == InstructionN(len, a, n)
<1>1. i \in Code
  BY InstructionsAdvance
<1> HIDE DEF i
<1>2. i \in Int /\ len[i] \in Int
  BY <1>1 DEF Lengths, Code
<1>3. EndOf(len, i) \in Int
  BY <1>2 DEF EndOf
<1> QED
  BY <1>3 DEF i

\* The walk starts at the first instruction.
LEMMA CodeInitOK == CodeInit => CodeInv
<1> SUFFICES ASSUME CodeInit PROVE CodeInv
  OBVIOUS
<1>1. PICK len \in [Code -> 1 .. 2], addr \in Code, items \in 1 .. 3, force \in BOOLEAN,
           mode \in {"insn", "bytes", "nops", "both"}, nop \in 1 .. 2, cmd \in {"nop", "skipi"} :
        /\ cmd = "skipi" => mode = "insn" /\ ~force /\ nop = 1
        /\ job = [cmd |-> cmd, len |-> len, addr |-> addr, items |-> items, mode |-> mode,
                  force |-> force, nop |-> nop]
        /\ st = [status |-> "walking", total |-> 0, ins |-> addr, written |-> {}, pc |-> addr]
  BY Zenon DEF CodeInit
<1>2. /\ job.cmd = cmd /\ job.len = len /\ job.addr = addr /\ job.items = items
      /\ job.nop = nop /\ job.force = force /\ job.mode = mode
      /\ st.status = "walking" /\ st.total = 0 /\ st.ins = addr /\ st.written = {} /\ st.pc = addr
  BY <1>1
<1>3. addr \in Int
  BY DEF Code
<1>4. CodeJob /\ st \in CodeStates
  BY <1>1, <1>2, <1>3 DEF CodeJob, CodeStates, Lengths
<1>5. CodeWhole
  BY <1>2 DEF CodeWhole, Ended
<1> QED
  BY <1>2, <1>4, <1>5 DEF CodeInv

\* `skipi' moves the program counter over the instructions asked for.
LEMMA SkipiStep ==
    ASSUME CodeInv, Skipi
    PROVE  CodeInv'
<1> DEFINE last == InstructionN(job.len, job.addr, job.items - 1)
<1>1. /\ job' = job /\ job.cmd = "skipi" /\ st \in CodeStates /\ st.status = "walking"
      /\ CodeJob /\ st.pc = job.addr /\ job.items - 1 \in Nat
  BY DEF Skipi, Walking, CodeInv, CodeJob
<1>2. CodeJob' /\ Boundaries' = Boundaries
  BY <1>1 DEF CodeJob, Boundaries
<1> HIDE DEF last
<1>3. CASE last = Unmapped
  <2>1. st' = [st EXCEPT !.status = "raised"]
    BY <1>3 DEF Skipi, last
  <2>2. st' \in CodeStates /\ st'.status = "raised" /\ st'.pc = job.addr
    BY <1>1, <2>1 DEF CodeStates
  <2>3. CodeWhole'
    BY <1>1, <2>2 DEF CodeWhole, Ended
  <2> QED
    BY <1>1, <1>2, <2>2, <2>3 DEF CodeInv
<1>4. CASE last # Unmapped
  <2>1. st' = [st EXCEPT !.status = "done", !.pc = EndOf(job.len, last)]
    BY <1>4 DEF Skipi, last
  <2>2. EndOf(job.len, last) \in Boundaries
    BY <1>1, <1>4, BoundaryLemma DEF last
  <2>3. EndOf(job.len, last) \in Int
    BY <1>1, <1>4, EndLemma DEF last, CodeJob
  <2>4. st' \in CodeStates /\ st'.status = "done" /\ st'.pc = EndOf(job.len, last)
    BY <1>1, <2>1, <2>3 DEF CodeStates
  <2>5. CodeWhole'
    <3>1. st'.pc \in Boundaries'
      BY <1>2, <2>2, <2>4
    <3> QED
      BY <1>1, <2>4, <3>1 DEF CodeWhole
  <2> QED
    BY <1>1, <1>2, <2>4, <2>5 DEF CodeInv
<1> QED
  BY <1>3, <1>4

\* The first pass of `nop' adds up the sizes of the instructions.
LEMMA NopSizeStep ==
    ASSUME CodeInv, NopSize
    PROVE  CodeInv'
<1> DEFINE last == InstructionN(job.len, job.addr, job.items - 1)
           total == CASE job.mode = "bytes" -> job.items
                      [] job.mode = "nops" -> job.items * job.nop
                      [] OTHER -> EndOf(job.len, last) - job.addr
           refused == \/ job.mode = "both"
                      \/ job.mode = "insn" /\ last = Unmapped
                      \/ total % job.nop # 0 /\ ~job.force
<1>1. /\ job' = job /\ job.cmd = "nop" /\ st \in CodeStates /\ st.status = "walking"
      /\ st.total = 0 /\ st.written = {} /\ st.ins = job.addr /\ CodeJob /\ job.items - 1 \in Nat
  BY DEF NopSize, Walking, CodeInv, CodeJob
<1>2. CodeJob' /\ Boundaries' = Boundaries
  BY <1>1 DEF CodeJob, Boundaries
<1>3. st' = IF refused THEN [st EXCEPT !.status = "refused"]
            ELSE IF ~Fits(job.len, job.addr) THEN [st EXCEPT !.status = "raised"]
            ELSE [st EXCEPT !.total = total]
  BY DEF NopSize
<1> HIDE DEF refused
<1>4. CASE st' \in {[st EXCEPT !.status = "refused"], [st EXCEPT !.status = "raised"]}
  <2>1. st' \in CodeStates /\ st'.status \in {"refused", "raised"} /\ st'.written = {}
    BY <1>1, <1>4 DEF CodeStates
  <2>2. CodeWhole'
    BY <1>1, <2>1 DEF CodeWhole
  <2> QED
    BY <1>1, <1>2, <2>1, <2>2 DEF CodeInv
<1>5. CASE ~refused /\ Fits(job.len, job.addr)
  <2>1. st' = [st EXCEPT !.total = total]
    BY <1>3, <1>5
  <2>2. total \in Int /\ (~job.force => total % job.nop = 0)
    <3>1. ~job.force => total % job.nop = 0
      BY <1>5 DEF refused
    <3>2. job.items \in Int /\ job.items * job.nop \in Int
      BY <1>1 DEF CodeJob
    <3>3. CASE job.mode \in {"bytes", "nops"}
      BY <3>1, <3>2, <3>3
    <3>4. CASE job.mode \notin {"bytes", "nops"}
      <4>1. job.mode = "insn" /\ last # Unmapped
        BY <1>1, <1>5, <3>4 DEF refused, CodeJob
      <4>2. EndOf(job.len, last) \in Int /\ job.addr \in Int
        BY <1>1, <4>1, EndLemma DEF CodeJob, Code
      <4> HIDE DEF last
      <4>3. total = EndOf(job.len, last) - job.addr
        BY <3>4
      <4> HIDE DEF total
      <4> QED
        BY <3>1, <4>2, <4>3
    <3> QED
      BY <3>3, <3>4
  <2> HIDE DEF total
  <2>3. st' \in CodeStates /\ st'.status = "walking" /\ st'.written = {} /\ st'.ins = job.addr
        /\ st'.total = total
    BY <1>1, <2>1, <2>2 DEF CodeStates
  <2>4. InstructionN(job.len, job.addr, 0) = job.addr /\ job.addr # Unmapped
    <3>1. job.addr # Unmapped
      BY <1>1 DEF CodeJob, Code, Unmapped
    <3>2. InstructionN(job.len, job.addr, 0) = Readable(job.len, job.addr)
      BY <1>1, InstructionLemma DEF CodeJob
    <3> QED
      BY <1>5, <3>1, <3>2 DEF Readable
  <2>5. CodeWhole'
    BY <1>1, <2>3 DEF CodeWhole
  <2>6. \E k \in Nat : /\ InstructionN(job.len, job.addr, k) = st'.ins
                       /\ InstructionN(job.len, job.addr, k) # Unmapped
    BY <2>3, <2>4
  <2> QED
    BY <1>1, <1>2, <2>2, <2>3, <2>5, <2>6 DEF CodeInv
<1> QED
  BY <1>3, <1>4, <1>5

\* The second pass writes one instruction's worth of filler after the other.
LEMMA NopWalkStep ==
    ASSUME CodeInv, NopWalk
    PROVE  CodeInv'
<1> DEFINE target == job.addr + st.total
           len == job.len
           next == InstructionN(len, st.ins, 1)
<1>1. /\ job' = job /\ job.cmd = "nop" /\ st \in CodeStates /\ st.status = "walking"
      /\ st.total > 0 /\ st.total \in Int /\ st.written = {} /\ CodeJob
      /\ ~job.force => st.total % job.nop = 0
      /\ \E k \in Nat : /\ InstructionN(len, job.addr, k) = st.ins
                        /\ InstructionN(len, job.addr, k) # Unmapped
  BY DEF NopWalk, Walking, CodeInv, CodeStates
<1>2. CodeJob' /\ Boundaries' = Boundaries
  BY <1>1 DEF CodeJob, Boundaries
<1>3. st' = IF EndOf(len, st.ins) < target
            THEN IF st.ins + 1 \notin Code THEN [st EXCEPT !.status = "refused"]
                 ELSE IF next = Unmapped THEN [st EXCEPT !.status = "raised"]
                 ELSE [st EXCEPT !.ins = next]
            ELSE IF (EndOf(len, st.ins) # target /\ ~job.force) \/ target - 1 \notin Code
            THEN [st EXCEPT !.status = "refused"]
            ELSE [st EXCEPT !.status = "done", !.written = job.addr .. target - 1]
  BY DEF NopWalk
<1>4. PICK k \in Nat : /\ InstructionN(len, job.addr, k) = st.ins
                       /\ InstructionN(len, job.addr, k) # Unmapped
  BY <1>1
<1>5. len \in Lengths /\ job.addr \in Code /\ job.addr \in Int /\ st.ins # Unmapped
  BY <1>1, <1>4 DEF CodeJob, Code
<1>6. st.ins \in Code /\ Fits(len, st.ins) /\ EndOf(len, st.ins) \in Boundaries
  BY <1>1, <1>4, <1>5, InstructionsAdvance, BoundaryLemma
<1> HIDE DEF len, next, target
<1>7. CASE st' \in {[st EXCEPT !.status = "refused"], [st EXCEPT !.status = "raised"]}
  <2>1. st' \in CodeStates /\ st'.status \in {"refused", "raised"} /\ st'.written = {}
    BY <1>1, <1>7 DEF CodeStates
  <2>2. CodeWhole'
    BY <1>1, <2>1 DEF CodeWhole
  <2> QED
    BY <1>1, <1>2, <2>1, <2>2 DEF CodeInv
<1>8. CASE next # Unmapped /\ st' = [st EXCEPT !.ins = next]
  <2>1. /\ InstructionN(len, st.ins, 0) = Readable(len, st.ins)
        /\ InstructionN(len, st.ins, 0 + 1) = Following(len, InstructionN(len, st.ins, 0))
    BY <1>5, <1>6, InstructionLemma
  <2>2. Readable(len, st.ins) = st.ins
    BY <1>6 DEF Readable
  <2>3. next = Following(len, st.ins)
    BY <2>1, <2>2 DEF next
  <2>4. InstructionN(len, job.addr, k + 1) = next
    BY <1>4, <1>5, <2>3, InstructionLemma
  <2>5. next \in Code
    BY <1>5, <1>8, <2>4, InstructionsAdvance
  <2>6. /\ st' \in CodeStates /\ st'.status = "walking" /\ st'.written = {} /\ st'.ins = next
        /\ st'.total = st.total
    BY <1>1, <1>8, <2>5 DEF CodeStates, Code
  <2>7. CodeWhole'
    BY <1>1, <2>6 DEF CodeWhole
  <2>8. \E j \in Nat : /\ InstructionN(job.len, job.addr, j) = st'.ins
                       /\ InstructionN(job.len, job.addr, j) # Unmapped
    BY <1>8, <2>4, <2>6 DEF len
  <2> QED
    BY <1>1, <1>2, <2>6, <2>7, <2>8 DEF CodeInv
<1>9. CASE /\ EndOf(len, st.ins) # target => job.force
           /\ target - 1 \in Code
           /\ st' = [st EXCEPT !.status = "done", !.written = job.addr .. target - 1]
  <2>1. target \in Int /\ target = job.addr + st.total
    BY <1>1, <1>5 DEF target
  <2> DEFINE W == job.addr .. target - 1
  <2>2. W \subseteq Code /\ W \in SUBSET Int
    BY <1>5, <1>9, <2>1, EditBounds DEF Code
  <2>3. W = job.addr .. job.addr + st.total - 1
    <3>1. target - 1 = job.addr + st.total - 1
      BY <1>1, <1>5, <2>1
    <3> QED
      BY <3>1
  <2> HIDE DEF W
  <2>4. st' = [st EXCEPT !.status = "done", !.written = W]
    BY <1>9 DEF W
  <2>5. st' \in CodeStates /\ st'.status = "done" /\ st'.written = W /\ st'.total = st.total
    BY <1>1, <2>2, <2>4 DEF CodeStates
  <2>6. ~job.force => job.addr + st.total \in Boundaries' /\ st'.total % job.nop = 0
    BY <1>1, <1>2, <1>6, <1>9, <2>1, <2>5
  <2>7. CodeWhole'
    <3>1. st'.written = job.addr .. job.addr + st'.total - 1
      BY <2>3, <2>5
    <3> QED
      BY <1>1, <2>2, <2>5, <2>6, <3>1 DEF CodeWhole
  <2> QED
    BY <1>1, <1>2, <2>5, <2>7 DEF CodeInv
<1> QED
  BY <1>3, <1>7, <1>8, <1>9

\* `nop' and `skipi' take no other steps.
LEMMA CodeStep ==
    ASSUME CodeInv, [EditNext]_vars
    PROVE  CodeInv'
<1>1. CASE UNCHANGED vars
  <2>1. job' = job /\ st' = st
    BY <1>1 DEF vars
  <2>2. Boundaries' = Boundaries
    BY <2>1 DEF Boundaries
  <2>3. CodeWhole'
    BY <2>1, <2>2 DEF CodeInv, CodeWhole, Ended
  <2> QED
    BY <2>1, <2>3 DEF CodeInv, CodeJob
<1>2. CASE EditNext
  <2>1. job.cmd \in {"nop", "skipi"}
    BY DEF CodeInv, CodeJob
  <2>2. Skipi \/ NopSize \/ NopWalk
    BY <1>2, <2>1 DEF EditNext, PatchValue, EditFlag, HijackOpen, HijackConnect, HijackDup,
                      HijackClose, TraceStep, EntrySymbol, EntryPoint, Walking
  <2> QED
    BY <2>2, SkipiStep, NopSizeStep, NopWalkStep
<1> QED
  BY <1>1, <1>2

-----------------------------------------------------------------------------
(* hijack-fd, trace-run and entry-break *)

\* `hijack-fd'.
HijackStates == [status : {"walking", "done", "refused", "raised"},
                 phase : {"open", "connect", "dup", "close"},
                 fds : [{Old} -> {"tty", "output"}] \cup [{Old, Fresh} -> {"tty", "output"}],
                 new : {0, -1, Fresh}, stack : {"own", "address"}]

\* The old descriptor is redirected by dup2() and by nothing else, and only the
\* new one is there in addition.
HijackInv ==
    /\ job.cmd = "hijack" /\ st \in HijackStates
    /\ st.new = Fresh => st.status = "done" \/ (DOMAIN st.fds = {Old, Fresh} /\ st.fds[Fresh] = "output")
    /\ st.fds[Old] = IF st.phase = "close" /\ st.new = Fresh THEN "output" ELSE "tty"
    /\ st.status = "done" => DOMAIN st.fds = {Old} /\ st.phase = "close"
    /\ st.phase = "open" => st.new = 0
    /\ st.stack = "own" \/ (st.status = "raised" /\ st.phase = "connect")

\* Nothing is redirected at first.
LEMMA HijackInitOK == HijackInit => HijackInv
<1> SUFFICES ASSUME HijackInit PROVE HijackInv
  OBVIOUS
<1>1. job.cmd = "hijack" /\ st = [status |-> "walking", phase |-> "open",
           fds |-> [f \in {Old} |-> "tty"], new |-> 0, stack |-> "own"]
  BY DEF HijackInit
<1>2. [f \in {Old} |-> "tty"] \in [{Old} -> {"tty", "output"}]
  OBVIOUS
<1> QED
  BY <1>1, <1>2 DEF HijackInv, HijackStates, Old, Fresh

\* Each of the calls injected, and each that fails.
LEMMA HijackStep ==
    ASSUME HijackInv, [EditNext]_vars
    PROVE  HijackInv'
<1>1. CASE UNCHANGED vars
  BY <1>1 DEF HijackInv, vars
<1>2. CASE EditNext
  <2>1. HijackOpen \/ HijackConnect \/ HijackDup \/ HijackClose
    BY <1>2 DEF HijackInv, EditNext, Skipi, NopSize, NopWalk, PatchValue, EditFlag, TraceStep,
                EntrySymbol, EntryPoint, Walking
  <2>2. job' = job /\ st \in HijackStates /\ st.status = "walking" /\ job.cmd = "hijack"
    BY <2>1 DEF HijackInv, HijackOpen, HijackConnect, HijackDup, HijackClose, Walking
  <2>3. CASE st' = Raised \/ st' = [st EXCEPT !.status = "refused"]
    BY <2>2, <2>3 DEF HijackInv, HijackStates, Raised
  <2>4. CASE HijackOpen
    <3>1. st.phase = "open" /\ st.new = 0 /\ st.stack = "own" /\ st.fds[Old] = "tty"
      BY <2>2, <2>4 DEF HijackInv, HijackOpen
    <3> DEFINE p == IF job.socket THEN "connect" ELSE "dup"
               fds == [f \in {Old, Fresh} |-> IF f = Fresh THEN "output" ELSE st.fds[f]]
    <3>2. \/ st' = Raised
          \/ st' = [st EXCEPT !.phase = p, !.new = -1]
          \/ st' = [st EXCEPT !.phase = p, !.new = Fresh, !.fds = fds]
      BY <2>4 DEF HijackOpen
    <3>3. p \in {"connect", "dup"}
      OBVIOUS
    <3>4. /\ fds \in [{Old, Fresh} -> {"tty", "output"}] /\ fds[Fresh] = "output"
          /\ fds[Old] = "tty" /\ DOMAIN fds = {Old, Fresh}
      BY <3>1 DEF Old, Fresh
    <3> HIDE DEF p, fds
    <3>5. CASE st' = [st EXCEPT !.phase = p, !.new = -1]
      <4>1. /\ st'.phase = p /\ st'.new = -1 /\ st'.fds = st.fds /\ st'.stack = "own"
            /\ st'.status = "walking" /\ st' \in HijackStates
        BY <2>2, <3>1, <3>3, <3>5 DEF HijackStates
      <4>2. st'.new # Fresh
        BY <4>1 DEF Fresh
      <4> QED
        BY <2>2, <3>1, <3>3, <4>1, <4>2 DEF HijackInv
    <3>6. CASE st' = [st EXCEPT !.phase = p, !.new = Fresh, !.fds = fds]
      BY <2>2, <3>1, <3>3, <3>4, <3>6 DEF HijackInv, HijackStates
    <3> QED
      BY <2>3, <3>2, <3>5, <3>6
  <2>5. CASE HijackConnect
    <3>1. st.phase = "connect"
      BY <2>5 DEF HijackConnect
    <3>2. \/ st' = Raised \/ st' = [Raised EXCEPT !.stack = "address"]
          \/ st' = [st EXCEPT !.status = "refused"] \/ st' = [st EXCEPT !.phase = "dup"]
      BY <2>5 DEF HijackConnect
    <3>3. CASE st' = [Raised EXCEPT !.stack = "address"]
      BY <2>2, <3>1, <3>3 DEF HijackInv, HijackStates, Raised
    <3>4. CASE st' = [st EXCEPT !.phase = "dup"]
      BY <2>2, <3>1, <3>4 DEF HijackInv, HijackStates
    <3> QED
      BY <2>3, <3>2, <3>3, <3>4
  <2>6. CASE HijackDup
    <3>1. st.phase = "dup"
      BY <2>6 DEF HijackDup
    <3> DEFINE v == IF st.new = Fresh THEN st.fds[Fresh] ELSE st.fds[Old]
               fds == [st.fds EXCEPT ![Old] = v]
    <3>2. st' = Raised \/ st' = [st EXCEPT !.phase = "close", !.fds = fds]
      BY <2>6 DEF HijackDup
    <3>3. /\ v = IF st.new = Fresh THEN "output" ELSE "tty"
          /\ Old \in DOMAIN st.fds
      BY <2>2, <3>1 DEF HijackInv, HijackStates
    <3> HIDE DEF v
    <3>4. /\ fds \in [{Old} -> {"tty", "output"}] \cup [{Old, Fresh} -> {"tty", "output"}]
          /\ fds[Old] = v /\ DOMAIN fds = DOMAIN st.fds
          /\ st.new = Fresh => fds[Fresh] = st.fds[Fresh]
      BY <2>2, <3>3 DEF HijackStates, Old, Fresh
    <3> HIDE DEF fds
    <3>5. CASE st' = [st EXCEPT !.phase = "close", !.fds = fds]
      BY <2>2, <3>1, <3>3, <3>4, <3>5 DEF HijackInv, HijackStates
    <3> QED
      BY <2>3, <3>2, <3>5
  <2>7. CASE HijackClose
    <3>1. st.phase = "close"
      BY <2>7 DEF HijackClose
    <3> DEFINE fds == [f \in {Old} |-> st.fds[f]]
    <3>2. st' = Raised \/ st' = [st EXCEPT !.status = "done", !.fds = fds]
      BY <2>7 DEF HijackClose
    <3>3. fds \in [{Old} -> {"tty", "output"}] /\ fds[Old] = st.fds[Old] /\ DOMAIN fds = {Old}
      BY <2>2 DEF HijackStates
    <3> HIDE DEF fds
    <3>4. CASE st' = [st EXCEPT !.status = "done", !.fds = fds]
      BY <2>2, <3>1, <3>3, <3>4 DEF HijackInv, HijackStates
    <3> QED
      BY <2>3, <3>2, <3>4
  <2> QED
    BY <2>1, <2>4, <2>5, <2>6, <2>7
<1> QED
  BY <1>1, <1>2

\* What a `hijack-fd' that has ended leaves behind.
LEMMA HijackOK == HijackInv => HijackClean
  BY DEF HijackInv, HijackClean

\* The context is shown again when a `trace-run' is over, unless by an exception.
TraceInv ==
    /\ job.cmd = "trace"
    /\ st \in [status : {"walking", "done", "interrupted", "raised"}, delta : Int, traced : Nat,
               hidden : BOOLEAN]
    /\ st.status \in {"done", "interrupted"} => ~st.hidden
    /\ job.depth \in Nat

\* Every way a `trace-run' can end.
LEMMA TraceOK ==
    /\ TraceInit => TraceInv
    /\ TraceInv /\ [EditNext]_vars => TraceInv'
    /\ TraceInv => StartsWatched
<1>1. TraceInit => TraceInv
  BY DEF TraceInit, TraceInv
<1>2. ASSUME TraceInv, [EditNext]_vars PROVE TraceInv'
  <2>1. CASE UNCHANGED vars
    BY <1>2, <2>1 DEF TraceInv, vars
  <2>2. CASE EditNext
    <3>1. TraceStep
      BY <1>2, <2>2 DEF TraceInv, EditNext, Skipi, NopSize, NopWalk, PatchValue, EditFlag,
              HijackOpen, HijackConnect, HijackDup, HijackClose, EntrySymbol, EntryPoint, Walking
    <3>2. CASE \E how \in {"done", "interrupted", "raised"} :
                    st' = [st EXCEPT !.status = how, !.hidden = how = "raised"]
      <4>1. PICK how \in {"done", "interrupted", "raised"} :
                    st' = [st EXCEPT !.status = how, !.hidden = how = "raised"]
        BY <3>2
      <4> QED
        BY <1>2, <3>1, <4>1 DEF TraceInv, TraceStep
    <3>3. CASE \E d \in {-1, 0, 1} : st' = [st EXCEPT !.delta = @ + d, !.traced = @ + 1]
      <4>1. PICK d \in {-1, 0, 1} : st' = [st EXCEPT !.delta = @ + d, !.traced = @ + 1]
        BY <3>3
      <4>2. st.delta + d \in Int /\ st.traced + 1 \in Nat
        BY <1>2 DEF TraceInv
      <4>3. job' = job
        BY <3>1 DEF TraceStep
      <4> QED
        BY <1>2, <4>1, <4>2, <4>3 DEF TraceInv
    <3>4. \/ \E how \in {"done", "interrupted", "raised"} :
                    st' = [st EXCEPT !.status = how, !.hidden = how = "raised"]
          \/ \E d \in {-1, 0, 1} : st' = [st EXCEPT !.delta = @ + d, !.traced = @ + 1]
      BY <3>1 DEF TraceStep
    <3> QED
      BY <3>2, <3>3, <3>4
  <2> QED
    BY <1>2, <2>1, <2>2
<1>3. TraceInv => StartsWatched
  BY DEF TraceInv, StartsWatched, Ended
<1> QED
  BY <1>1, <1>2, <1>3

\* Breakpoints are numbered by the symbols tried, from 1.
EntryStates == [status : {"walking", "started", "raised"}, next : Nat \ {0}, bp : Nat,
                bps : SUBSET Nat, hidden : BOOLEAN]

\* While symbols are tried the entry point has no breakpoint, and nothing is hidden.
EntryInv ==
    /\ job.cmd = "entry" /\ job.pie \in BOOLEAN /\ st \in EntryStates
    /\ st.status = "walking" => 0 \notin st.bps /\ ~st.hidden
    /\ StartsWatched

\* `entry-break' tries the symbols in turn and then the entry point.
LEMMA EntryOK ==
    /\ EntryInit => EntryInv
    /\ EntryInv /\ [EditNext]_vars => EntryInv'
<1>1. EntryInit => EntryInv
  BY DEF EntryInit, EntryInv, EntryStates, StartsWatched
<1>2. ASSUME EntryInv, [EditNext]_vars PROVE EntryInv'
  <2>1. CASE UNCHANGED vars
    BY <1>2, <2>1 DEF EntryInv, StartsWatched, vars
  <2>2. CASE EditNext
    <3>1. EntrySymbol \/ EntryPoint
      BY <1>2, <2>2 DEF EntryInv, EditNext, Skipi, NopSize, NopWalk, PatchValue, EditFlag,
              HijackOpen, HijackConnect, HijackDup, HijackClose, TraceStep, Walking
    <3>2. /\ job' = job /\ job.cmd = "entry" /\ job.pie \in BOOLEAN /\ st \in EntryStates /\ st.status = "walking"
          /\ 0 \notin st.bps /\ st.hidden = FALSE
          /\ st.next \in Nat \ {0} /\ st.bp \in Nat /\ st.bps \in SUBSET Nat
      BY <1>2, <3>1 DEF EntryInv, EntryStates, EntrySymbol, EntryPoint, Walking
    <3>3. CASE EntrySymbol
      <4> DEFINE B == st.bps \cup {st.next}
      <4>1. B \in SUBSET Nat /\ 0 \notin B /\ st.next \in B /\ st.next + 1 \in Nat \ {0}
        BY <3>2
      <4> HIDE DEF B
      <4>2. \/ st' = [st EXCEPT !.next = st.next + 1]
            \/ st' = [st EXCEPT !.bp = st.next, !.bps = B, !.next = st.next + 1]
            \/ st' = [st EXCEPT !.bp = st.next, !.bps = B, !.status = "started"]
        BY <3>3 DEF EntrySymbol, B
      <4>3. CASE st' = [st EXCEPT !.next = st.next + 1]
        BY <3>2, <4>1, <4>3 DEF EntryInv, EntryStates, StartsWatched
      <4>4. CASE st' = [st EXCEPT !.bp = st.next, !.bps = B, !.next = st.next + 1]
        BY <3>2, <4>1, <4>4 DEF EntryInv, EntryStates, StartsWatched
      <4>5. CASE st' = [st EXCEPT !.bp = st.next, !.bps = B, !.status = "started"]
        BY <3>2, <4>1, <4>5 DEF EntryInv, EntryStates, StartsWatched
      <4> QED
        BY <4>2, <4>3, <4>4, <4>5
    <3>4. CASE EntryPoint
      <4> DEFINE B == (st.bps \ {st.bp}) \cup {0}
                 C == (st.bps \ {st.bp}) \cup (IF job.pie THEN {} ELSE {0})
                 h == job.pie
      <4>1. B \in SUBSET Nat /\ 0 \in B /\ st.bp \notin B \ {0} /\ C \in SUBSET Nat
        BY <3>2
      <4> HIDE DEF B, C
      <4>2. \/ st' = [st EXCEPT !.status = "started", !.bps = B]
            \/ st' = [st EXCEPT !.status = "raised", !.hidden = job.pie, !.bps = C]
        BY <3>4 DEF EntryPoint, B, C
      <4>3. CASE st' = [st EXCEPT !.status = "started", !.bps = B]
        BY <3>2, <4>1, <4>3 DEF EntryInv, EntryStates, StartsWatched
      <4>4. CASE st' = [st EXCEPT !.status = "raised", !.hidden = job.pie, !.bps = C]
        BY <3>2, <4>1, <4>4 DEF EntryInv, EntryStates, StartsWatched
      <4> QED
        BY <4>2, <4>3, <4>4
    <3> QED
      BY <3>1, <3>3, <3>4
  <2> QED
    BY <1>2, <2>1, <2>2
<1> QED
  BY <1>1, <1>2

-----------------------------------------------------------------------------
(* flags *)

\* The values of the flags register.
Registers == [FlagNames -> BOOLEAN]

\* The arguments of `flags' are applied one at a time.
LEMMA FlagsAfterLemma ==
    ASSUME NEW flags \in Registers, NEW args
    PROVE  LET A(n) == FlagsAfter(flags, args, n)
           IN  /\ A(0) = flags
               /\ \A n \in Nat : A(n + 1) = IF Valid(args[n + 1]) THEN Applied(A(n), args[n + 1])
                                            ELSE A(n)
<1> DEFINE V == Registers
           x0 == flags
           Next(i, x) == IF Valid(args[i]) THEN Applied(x, args[i]) ELSE x
           Body(i, x) == IF i = 0 THEN flags ELSE Next(i, x)
           Before(g, i) == IF i = 0 THEN x0 ELSE g[i - 1]
           f == CHOOSE g : g = [k \in Nat |-> IF k = 0 THEN flags
                                              ELSE IF Valid(args[k]) THEN Applied(g[k - 1], args[k])
                                              ELSE g[k - 1]]
           Step == [p \in Nat \X V |-> Body(p[1], p[2])]
<1>1. \A n : FlagsAfter(flags, args, n) = f[n]
  BY DEF FlagsAfter
<1>2. ASSUME NEW reg \in V, NEW arg PROVE Applied(reg, arg) \in V
  BY DEF Applied, Registers
<1>3. \A i \in Nat, x \in V : Body(i, x) \in V
  <2> HIDE DEF V
  <2> QED
    BY <1>2 DEF V
<1>4. Step \in [Nat \X V -> V] /\ \A i \in Nat, x \in V : Step[<<i, x>>] = Body(i, x)
  <2> HIDE DEF V, Body
  <2> QED
    BY <1>3
<1>5. x0 \in V
  OBVIOUS
<1> HIDE DEF Step, V, x0
<1>6. PICK F \in [Nat -> V] : Loop(F, x0, Step)
  BY <1>4, <1>5, LoopExists
<1>7. \A i \in Nat : F[i] = IF i = 0 THEN flags ELSE Next(i, F[i - 1])
  <2> SUFFICES ASSUME NEW i \in Nat PROVE F[i] = IF i = 0 THEN flags ELSE Next(i, F[i - 1])
    OBVIOUS
  <2>1. F[i] = Step[<<i, Before(F, i)>>]
    BY <1>6 DEF Loop
  <2>2. Before(F, i) \in V
    BY <1>5, <1>6
  <2>3. F[i] = Body(i, Before(F, i))
    <3> HIDE DEF Before, Body
    <3> QED
      BY <1>4, <2>1, <2>2
  <2> HIDE DEF Next
  <2> QED
    BY <2>3
<1>8. F = [k \in Nat |-> IF k = 0 THEN flags ELSE Next(k, F[k - 1])]
  <2> HIDE DEF Next
  <2> QED
    BY <1>7
<1>9. f = [k \in Nat |-> IF k = 0 THEN flags ELSE Next(k, f[k - 1])]
  <2>1. F = [k \in Nat |-> IF k = 0 THEN flags
                           ELSE IF Valid(args[k]) THEN Applied(F[k - 1], args[k]) ELSE F[k - 1]]
    BY <1>8
  <2>2. f = [k \in Nat |-> IF k = 0 THEN flags
                           ELSE IF Valid(args[k]) THEN Applied(f[k - 1], args[k]) ELSE f[k - 1]]
    BY <2>1
  <2> HIDE DEF f
  <2> QED
    BY <2>2
<1> HIDE DEF f
<1>10. f[0] = flags /\ \A n \in Nat : f[n + 1] = Next(n + 1, f[n])
  <2> HIDE DEF Next
  <2>1. \A k \in Nat : f[k] = IF k = 0 THEN flags ELSE Next(k, f[k - 1])
    BY <1>9
  <2> QED
    BY <2>1
<1> QED
  BY <1>1, <1>10

\* The arguments so far have been applied, the ones it does not know skipped.
FlagsInv ==
    /\ job.cmd = "flags" /\ job.flags \in Registers
    /\ st \in [status : {"walking", "done"}, done : Nat, reg : Registers, cache : {NoValue}]
    /\ st.reg = FlagsAfter(job.flags, job.args, st.done)
    /\ st.status = "done" => st.done = Len(job.args)

\* `flags' applies one argument with each step.
LEMMA FlagsOK ==
    /\ FlagsInit => FlagsInv
    /\ FlagsInv /\ [EditNext]_vars => FlagsInv'
    /\ FlagsInv => FlagsApplied
<1>1. ASSUME FlagsInit PROVE FlagsInv
  <2>1. PICK flags \in [FlagNames -> BOOLEAN] : \E args :
            /\ job = [cmd |-> "flags", flags |-> flags, args |-> args]
            /\ st = [status |-> "walking", done |-> 0, reg |-> flags, cache |-> NoValue]
    BY <1>1 DEF FlagsInit
  <2>2. FlagsAfter(job.flags, job.args, 0) = job.flags
    BY <2>1, FlagsAfterLemma DEF Registers
  <2> QED
    BY <2>1, <2>2 DEF FlagsInv, Registers
<1>2. ASSUME FlagsInv, [EditNext]_vars PROVE FlagsInv'
  <2>1. CASE UNCHANGED vars
    BY <1>2, <2>1 DEF FlagsInv, vars
  <2>2. CASE EditNext
    <3>1. EditFlag
      BY <1>2, <2>2 DEF FlagsInv, EditNext, Skipi, NopSize, NopWalk, PatchValue, TraceStep,
              HijackOpen, HijackConnect, HijackDup, HijackClose, EntrySymbol, EntryPoint, Walking
    <3> DEFINE arg == job.args[st.done + 1]
               r == Applied(st.reg, arg)
    <3>2. /\ job' = job /\ job.flags \in Registers /\ job.cmd = "flags" /\ st.cache = NoValue
          /\ st.status = "walking" /\ st.done \in Nat /\ st.reg \in Registers
          /\ st \in [status : {"walking", "done"}, done : Nat, reg : Registers, cache : {NoValue}]
          /\ st.reg = FlagsAfter(job.flags, job.args, st.done)
      BY <1>2, <3>1 DEF FlagsInv, EditFlag, Walking
    <3>3. FlagsAfter(job.flags, job.args, st.done + 1) = IF Valid(arg) THEN r ELSE st.reg
      BY <3>2, FlagsAfterLemma
    <3>4. r \in Registers
      BY <3>2 DEF Applied, Registers
    <3>5. st' = IF st.done = Len(job.args) THEN [st EXCEPT !.status = "done"]
                ELSE IF ~Valid(arg) THEN [st EXCEPT !.done = st.done + 1]
                ELSE [st EXCEPT !.done = st.done + 1, !.reg = r, !.cache = NoValue]
      BY <3>1, <3>2 DEF EditFlag, RegisterChanged
    <3> HIDE DEF arg, r
    <3>6. CASE st.done = Len(job.args)
      BY <3>2, <3>5, <3>6 DEF FlagsInv
    <3>7. CASE st.done # Len(job.args) /\ ~Valid(arg)
      <4>1. st' = [st EXCEPT !.done = st.done + 1]
        BY <3>5, <3>7
      <4>2. /\ st' \in [status : {"walking", "done"}, done : Nat, reg : Registers, cache : {NoValue}]
            /\ st'.status = "walking" /\ st'.done = st.done + 1 /\ st'.reg = st.reg
        BY <3>2, <4>1
      <4> QED
        BY <3>2, <3>3, <3>7, <4>2 DEF FlagsInv
    <3>8. CASE st.done # Len(job.args) /\ Valid(arg)
      <4>1. st' = [st EXCEPT !.done = st.done + 1, !.reg = r, !.cache = NoValue]
        BY <3>5, <3>8
      <4>2. /\ st' \in [status : {"walking", "done"}, done : Nat, reg : Registers, cache : {NoValue}]
            /\ st'.status = "walking" /\ st'.done = st.done + 1 /\ st'.reg = r
        <5>1. /\ st'.status = st.status /\ st'.done = st.done + 1 /\ st'.reg = r /\ st'.cache = NoValue
              /\ DOMAIN st' = DOMAIN st
          BY <3>2, <4>1
        <5>2. st' = [st EXCEPT !.done = st.done + 1, !.reg = r]
          BY <3>2, <4>1
        <5>3. /\ st'.status \in {"walking", "done"} /\ st'.done \in Nat
              /\ st'.reg \in Registers /\ st'.cache \in {NoValue}
          BY <3>2, <3>4, <5>1
        <5>4. st' = [status |-> st'.status, done |-> st'.done, reg |-> st'.reg, cache |-> st'.cache]
          BY <3>2, <5>2
        <5>5. st' \in [status : {"walking", "done"}, done : Nat, reg : Registers, cache : {NoValue}]
          <6> DEFINE a == st'.status  b == st'.done  c == st'.reg  d == st'.cache
          <6> HIDE DEF a, b, c, d
          <6>1. [status |-> a, done |-> b, reg |-> c, cache |-> d]
                   \in [status : {"walking", "done"}, done : Nat, reg : Registers, cache : {NoValue}]
            BY <5>3 DEF a, b, c, d
          <6> QED
            BY <5>4, <6>1 DEF a, b, c, d
        <5> QED
          BY <3>2, <5>1, <5>5
      <4> QED
        BY <3>2, <3>3, <3>8, <4>2 DEF FlagsInv
    <3> QED
      BY <3>6, <3>7, <3>8
  <2> QED
    BY <1>2, <2>1, <2>2
<1>3. FlagsInv => FlagsApplied
  BY DEF FlagsInv, FlagsApplied, Ended
<1> QED
  BY <1>1, <1>2, <1>3

-----------------------------------------------------------------------------
(* patch *)

\* `patch': the bytes at `at' are those of v.
Holds(mem, size, little, at, v) ==
    /\ \A i \in 0 .. size - 1 : mem[at + i] \in {0, 1}
    /\ size = 1 => mem[at + 0] = v % 2
    /\ size = 2 /\ little => mem[at + 0] + 2 * mem[at + 1] = v % 4
    /\ size = 2 /\ ~little => 2 * mem[at + 0] + mem[at + 1] = v % 4

\* The bytes of the code: as they were, or of a value written.
Bytes == {"old", 0, 1}
PatchStates == [status : {"walking", "done", "raised"}, done : Nat, mem : [Code -> Bytes]]

\* A `patch', of values of one byte or two.
PatchJob ==
    /\ job.cmd = "patch" /\ job.size \in 1 .. 2 /\ job.little \in BOOLEAN /\ job.addr \in Code
    /\ job.values \in Seq(Int)

\* The values so far are in memory, and the bytes behind them as they were.
PatchInv ==
    /\ PatchJob /\ st \in PatchStates
    /\ st.done <= Len(job.values)
    /\ \A k \in 1 .. st.done :
        /\ job.values[k] # Wrong
        /\ Holds(st.mem, job.size, job.little, job.addr + (k - 1) * job.size, job.values[k])
    /\ \A a \in Code \ (job.addr .. job.addr + st.done * job.size - 1) : st.mem[a] = "old"
    /\ st.status = "done" => st.done = Len(job.values)

\* Nothing is written at first.
LEMMA PatchInitOK == PatchInit => PatchInv
<1> SUFFICES ASSUME PatchInit PROVE PatchInv
  OBVIOUS
<1>1. PICK values \in UNION {[1 .. n -> {-1, 1, 6, Wrong}] : n \in 1 .. 3}, addr \in Code,
           size \in 1 .. 2, little \in BOOLEAN :
        /\ job = [cmd |-> "patch", values |-> values, addr |-> addr, size |-> size,
                  little |-> little]
        /\ st = [status |-> "walking", done |-> 0, mem |-> [a \in Code |-> "old"]]
  BY Zenon DEF PatchInit
<1>2. values \in Seq(Int)
  <2>1. PICK n \in 1 .. 3 : values \in [1 .. n -> {-1, 1, 6, Wrong}]
    BY <1>1
  <2>2. values \in [1 .. n -> Int] /\ n \in Nat
    BY <2>1 DEF Wrong
  <2> QED
    BY <2>2
<1>3. /\ job.cmd = "patch" /\ job.values = values /\ job.addr = addr /\ job.size = size
      /\ job.little = little /\ st.status = "walking" /\ st.done = 0
      /\ st.mem = [a \in Code |-> "old"]
  BY <1>1
<1>4. st \in PatchStates
  BY <1>1 DEF PatchStates, Bytes
<1> QED
  BY <1>1, <1>2, <1>3, <1>4 DEF PatchInv, PatchJob

\* A value's bytes in the byte order of the process.
LEMMA PackedLemma ==
    ASSUME NEW v \in Int, PatchJob
    PROVE  /\ \A i \in 0 .. job.size - 1 : Packed(v, i) \in {0, 1}
           /\ job.size = 1 => Packed(v, 0) = v % 2
           /\ job.size = 2 /\ job.little => Packed(v, 0) + 2 * Packed(v, 1) = v % 4
           /\ job.size = 2 /\ ~job.little => 2 * Packed(v, 0) + Packed(v, 1) = v % 4
<1>1. 2^0 = 1 /\ 2^1 = 2 /\ 2^2 = 4
  OBVIOUS
<1>2. v % 2 \in {0, 1} /\ (v % 4) \div 1 = v % 4 /\ v % 4 \in 0 .. 3 /\ (v % 2) \div 1 = v % 2
      /\ (v % 2) % 2 = v % 2
  OBVIOUS
<1>3. (v % 4) % 2 \in {0, 1} /\ ((v % 4) \div 2) % 2 \in {0, 1}
  BY <1>2
<1>4. ((v % 4) % 2) + 2 * (((v % 4) \div 2) % 2) = v % 4
  BY <1>2
<1>5. CASE job.size = 1
  <2>1. Packed(v, 0) = v % 2
    BY <1>1, <1>2, <1>5 DEF Packed
  <2> QED
    BY <1>2, <1>5, <2>1
<1>6. CASE job.size = 2 /\ job.little
  <2>1. Packed(v, 0) = (v % 4) % 2 /\ Packed(v, 1) = ((v % 4) \div 2) % 2
    BY <1>1, <1>2, <1>6 DEF Packed
  <2>2. \A i \in 0 .. job.size - 1 : i = 0 \/ i = 1
    BY <1>6
  <2> QED
    BY <1>3, <1>4, <1>6, <2>1, <2>2
<1>7. CASE job.size = 2 /\ ~job.little
  <2>1. Packed(v, 1) = (v % 4) % 2 /\ Packed(v, 0) = ((v % 4) \div 2) % 2
    BY <1>1, <1>2, <1>7 DEF Packed
  <2>2. \A i \in 0 .. job.size - 1 : i = 0 \/ i = 1
    BY <1>7
  <2> QED
    BY <1>3, <1>4, <1>7, <2>1, <2>2
<1> QED
  BY <1>5, <1>6, <1>7 DEF PatchJob

\* What is in memory when a `patch' ends.
LEMMA PatchOK == PatchInv => PatchPrefix
<1> SUFFICES ASSUME PatchInv, job.cmd = "patch", Ended PROVE PatchPrefix
  BY DEF PatchPrefix
<1> DEFINE weight(i) == 2^(IF job.little THEN i ELSE 1 - i)
           back(at) == IF job.size = 1 THEN st.mem[at]
                       ELSE st.mem[at] * weight(0) + st.mem[at + 1] * weight(1)
<1>1. 2^0 = 1 /\ 2^1 = 2 /\ 2^2 = 4
  OBVIOUS
<1>2. /\ \A k \in 1 .. st.done :
          /\ job.values[k] # Wrong
          /\ Holds(st.mem, job.size, job.little, job.addr + (k - 1) * job.size, job.values[k])
      /\ job.size \in {1, 2} /\ job.little \in BOOLEAN
      /\ job.addr \in Int /\ st.done \in Nat
  BY DEF PatchInv, PatchJob, PatchStates, Code
<1>3. ASSUME NEW k \in 1 .. st.done
      PROVE  back(job.addr + (k - 1) * job.size) = job.values[k] % 2^job.size
  <2> DEFINE at == job.addr + (k - 1) * job.size
             v == job.values[k]
             x == st.mem[at]
             y == st.mem[at + 1]
  <2>1. Holds(st.mem, job.size, job.little, at, v) /\ at \in Int
    BY <1>2 DEF Code
  <2> HIDE DEF at, v
  <2>2. CASE job.size = 1
    <3>1. at + 0 = at /\ 2^job.size = 2
      BY <1>1, <2>1, <2>2
    <3>2. x = v % 2 /\ back(at) = x
      BY <2>1, <2>2, <3>1 DEF Holds
    <3> QED
      BY <3>1, <3>2 DEF at, v
  <2>3. CASE job.size = 2
    <3>1. at + 0 = at /\ 2^job.size = 4
      BY <1>1, <2>1, <2>3
    <3>2. x \in Int /\ y \in Int
      <4>1. 0 \in 0 .. job.size - 1 /\ 1 \in 0 .. job.size - 1
        BY <2>3
      <4> QED
        BY <2>1, <3>1, <4>1 DEF Holds
    <3>3. CASE job.little
      <4>1. weight(0) = 1 /\ weight(1) = 2 /\ x + 2 * y = v % 4
        BY <1>1, <2>1, <2>3, <3>1, <3>3 DEF Holds
      <4>2. back(at) = x * 1 + y * 2
        BY <2>3, <4>1
      <4> HIDE DEF x, y, back
      <4> QED
        BY <3>1, <3>2, <4>1, <4>2 DEF at, v
    <3>4. CASE ~job.little
      <4>1. weight(0) = 2 /\ weight(1) = 1 /\ 2 * x + y = v % 4
        BY <1>1, <2>1, <2>3, <3>1, <3>4 DEF Holds
      <4>2. back(at) = x * 2 + y * 1
        BY <2>3, <4>1
      <4> HIDE DEF x, y, back
      <4> QED
        BY <3>1, <3>2, <4>1, <4>2 DEF at, v
    <3> QED
      BY <3>3, <3>4
  <2> QED
    BY <1>2, <2>2, <2>3
<1> QED
  BY <1>2, <1>3 DEF PatchPrefix, PatchInv

\* Values do not overlap.
LEMMA Apart ==
    ASSUME NEW s \in 1 .. 2, NEW n \in Nat
    PROVE  /\ n * s \in Nat /\ (n + 1) * s = n * s + s
           /\ \A k \in 1 .. n : (k - 1) * s \in Nat /\ (k - 1) * s + s <= n * s
<1>1. CASE s = 1
  BY <1>1
<1>2. CASE s = 2
  BY <1>2
<1> QED
  BY <1>1, <1>2

\* One value is written behind the last.
LEMMA PatchStep ==
    ASSUME PatchInv, PatchValue
    PROVE  PatchInv'
<1> DEFINE value == job.values[st.done + 1]
           s == job.size
           at == job.addr + st.done * s
           new == [a \in Code |-> IF a \in at .. at + s - 1
                                  THEN Packed(value, a - at) ELSE st.mem[a]]
<1>1. /\ job' = job /\ PatchJob /\ st \in PatchStates /\ st.status = "walking"
      /\ st.done \in Nat /\ st.done <= Len(job.values) /\ st.mem \in [Code -> Bytes]
      /\ Len(job.values) \in Nat
  BY DEF PatchInv, PatchJob, PatchStates, PatchValue, Walking
<1>2. PatchJob'
  BY <1>1 DEF PatchJob
<1>3. /\ \A k \in 1 .. st.done :
            /\ job.values[k] # Wrong
            /\ Holds(st.mem, s, job.little, job.addr + (k - 1) * s, job.values[k])
      /\ \A a \in Code \ (job.addr .. job.addr + st.done * s - 1) : st.mem[a] = "old"
  BY DEF PatchInv
<1>4. st' = IF st.done = Len(job.values) THEN [st EXCEPT !.status = "done"]
            ELSE IF value = Wrong \/ at + s > CodeSize THEN [st EXCEPT !.status = "raised"]
            ELSE [st EXCEPT !.done = st.done + 1, !.mem = new]
  BY DEF PatchValue
<1>5. s \in 1 .. 2 /\ job.addr \in Nat /\ job.addr \in Int
  BY <1>1 DEF PatchJob, Code
<1> HIDE DEF new, value
<1>6. CASE \/ st.done = Len(job.values) /\ st' = [st EXCEPT !.status = "done"]
           \/ st' = [st EXCEPT !.status = "raised"]
  <2>1. /\ st' \in PatchStates /\ st'.done = st.done /\ st'.mem = st.mem
        /\ st'.status = "done" => st.done = Len(job.values)
    BY <1>1, <1>6 DEF PatchStates
  <2> HIDE DEF s
  <2> QED
    BY <1>1, <1>2, <1>3, <2>1 DEF PatchInv, s
<1>7. CASE /\ st.done # Len(job.values) /\ value # Wrong /\ ~(at + s > CodeSize)
           /\ st' = [st EXCEPT !.done = st.done + 1, !.mem = new]
  <2>1. /\ st.done + 1 \in Nat /\ st.done + 1 <= Len(job.values)
        /\ value \in Int
    <3>1. st.done + 1 \in 1 .. Len(job.values)
      BY <1>1, <1>7
    <3> QED
      BY <1>1, <3>1 DEF PatchJob, value
  <2> DEFINE n == st.done
             off == n * s
  <2>2. /\ off \in Nat /\ (n + 1) * s = off + s
        /\ \A k \in 1 .. n : (k - 1) * s \in Nat /\ (k - 1) * s + s <= off
    BY <1>1, <1>5, Apart
  <2>3. at = job.addr + off
    OBVIOUS
  <2> HIDE DEF off, at, s
  <2>4. /\ at \in Nat /\ at + s <= CodeSize
        /\ \A a \in Int : a >= job.addr /\ a < at + s => a \in Code
    BY <1>5, <1>7, <2>2, <2>3, EditBounds DEF Code
  <2>5. /\ \A i \in 0 .. s - 1 : Packed(value, i) \in {0, 1}
        /\ s = 1 => Packed(value, 0) = value % 2
        /\ s = 2 /\ job.little => Packed(value, 0) + 2 * Packed(value, 1) = value % 4
        /\ s = 2 /\ ~job.little => 2 * Packed(value, 0) + Packed(value, 1) = value % 4
    BY <1>1, <2>1, PackedLemma DEF s
  <2>6. \A i \in 0 .. s - 1 : new[at + i] = Packed(value, i)
    <3> SUFFICES ASSUME NEW i \in 0 .. s - 1 PROVE new[at + i] = Packed(value, i)
      OBVIOUS
    <3>1. at + i \in at .. at + s - 1 /\ at + i \in Code /\ (at + i) - at = i
      BY <1>5, <2>2, <2>3, <2>4
    <3> QED
      BY <3>1 DEF new
  <2>7. \A a \in Code : a < at \/ a >= at + s => new[a] = st.mem[a]
    <3> SUFFICES ASSUME NEW a \in Code, a < at \/ a >= at + s PROVE new[a] = st.mem[a]
      OBVIOUS
    <3>1. a \notin at .. at + s - 1
      BY <1>5, <2>4 DEF Code
    <3> QED
      BY <3>1 DEF new
  <2>8. new \in [Code -> Bytes]
    <3> SUFFICES ASSUME NEW a \in Code PROVE new[a] \in Bytes
      BY DEF new
    <3>1. CASE a \in at .. at + s - 1
      <4>1. a - at \in 0 .. s - 1
        BY <1>5, <2>4, <3>1 DEF Code
      <4> QED
        BY <2>5, <3>1, <4>1 DEF new, Bytes
    <3>2. CASE a \notin at .. at + s - 1
      BY <1>1, <3>2 DEF new
    <3> QED
      BY <3>1, <3>2
  <2>9. st' \in PatchStates /\ st'.done = n + 1 /\ st'.mem = new /\ st'.status = "walking"
    BY <1>1, <1>7, <2>1, <2>8 DEF PatchStates
  <2>10. ASSUME NEW k \in 1 .. n + 1
         PROVE  /\ job.values[k] # Wrong
                /\ Holds(new, s, job.little, job.addr + (k - 1) * s, job.values[k])
    <3>1. CASE k \in 1 .. n
      <4> DEFINE p == job.addr + (k - 1) * s
                 v == job.values[k]
      <4>1. Holds(st.mem, s, job.little, p, v) /\ v # Wrong
        BY <1>3, <3>1
      <4>2. p \in Int /\ p >= job.addr /\ p + s <= at
        BY <1>5, <2>2, <2>3, <3>1
      <4> HIDE DEF p, v
      <4>3. \A i \in 0 .. s - 1 : new[p + i] = st.mem[p + i]
        <5> SUFFICES ASSUME NEW i \in 0 .. s - 1 PROVE new[p + i] = st.mem[p + i]
          OBVIOUS
        <5>1. p + i \in Int /\ p + i >= job.addr /\ p + i < at
          BY <1>5, <2>4, <4>2
        <5> QED
          BY <1>5, <2>4, <2>7, <5>1
      <4>4. Holds(new, s, job.little, p, v)
        BY <1>5, <4>1, <4>3 DEF Holds
      <4> QED
        BY <4>1, <4>4 DEF p, v
    <3>2. CASE k = n + 1
      <4>1. job.addr + (k - 1) * s = at /\ job.values[k] = value
        <5>1. k - 1 = n
          BY <1>1, <3>2
        <5> QED
          BY <2>3, <3>2, <5>1 DEF off, value
      <4>2. Holds(new, s, job.little, at, value)
        BY <1>5, <2>5, <2>6 DEF Holds
      <4> QED
        BY <1>7, <4>1, <4>2
    <3> QED
      BY <1>1, <3>1, <3>2
  <2>11. ASSUME NEW a \in Code \ (job.addr .. job.addr + (n + 1) * s - 1)
         PROVE  new[a] = "old"
    <3>1. a \in Int /\ (a < job.addr \/ a >= at + s)
      BY <1>5, <2>2, <2>3, <2>11 DEF Code
    <3>2. a \notin job.addr .. job.addr + off - 1
      BY <1>5, <2>2, <2>3, <3>1
    <3>3. a < at \/ a >= at + s
      BY <1>5, <2>2, <2>3, <3>1
    <3> QED
      BY <1>3, <2>7, <3>2, <3>3 DEF off
  <2> QED
    BY <1>1, <1>2, <2>1, <2>9, <2>10, <2>11 DEF PatchInv, s
<1> QED
  BY <1>4, <1>6, <1>7

\* `patch' takes no other steps.
LEMMA PatchNext ==
    ASSUME PatchInv, [EditNext]_vars
    PROVE  PatchInv'
<1>1. CASE UNCHANGED vars
  BY <1>1 DEF PatchInv, PatchJob, vars
<1>2. CASE EditNext
  <2>1. PatchValue
    BY <1>2 DEF PatchInv, PatchJob, EditNext, Skipi, NopSize, NopWalk, EditFlag, HijackOpen,
                HijackConnect, HijackDup, HijackClose, TraceStep, EntrySymbol, EntryPoint, Walking
  <2> QED
    BY <2>1, PatchStep
<1> QED
  BY <1>1, <1>2

\* The inductive invariant: the invariant of the command at work.
EditInv == CodeInv \/ PatchInv \/ FlagsInv \/ HijackInv \/ TraceInv \/ EntryInv

\* The commands that change the process do the whole of what they say, or stop
\* at a step that failed, for code of any size, however its bytes are grouped
\* into instructions: `nop' and `skipi' keep to whole instructions, `patch'
\* leaves a prefix of its values, no flag is lost, `hijack-fd' leaves no extra
\* descriptor, and `trace-run' and `entry-break' leave the process watched.
THEOREM EditsAreExact == EditSpec => []EditsExact
<1>1. EditInit => EditInv
  BY CodeInitOK, PatchInitOK, FlagsOK, HijackInitOK, TraceOK, EntryOK, Zenon DEF EditInit, EditInv
<1>2. EditInv /\ [EditNext]_vars => EditInv'
  BY CodeStep, PatchNext, FlagsOK, HijackStep, TraceOK, EntryOK, Zenon DEF EditInv
<1>3. EditInv => EditsExact
  <2>1. CASE CodeInv
    BY <2>1 DEF CodeInv, CodeJob, EditsExact, PatchPrefix, FlagsApplied, HijackClean, StartsWatched
  <2>2. CASE PatchInv
    <3>1. job.cmd = "patch" /\ PatchPrefix
      BY <2>2, PatchOK DEF PatchInv, PatchJob
    <3> QED
      BY <3>1 DEF EditsExact, CodeWhole, FlagsApplied, HijackClean, StartsWatched
  <2>3. CASE FlagsInv
    <3>1. job.cmd = "flags" /\ FlagsApplied
      BY <2>3, FlagsOK DEF FlagsInv
    <3> QED
      BY <3>1 DEF EditsExact, CodeWhole, PatchPrefix, HijackClean, StartsWatched
  <2>4. CASE HijackInv
    <3>1. job.cmd = "hijack" /\ HijackClean
      BY <2>4, HijackOK DEF HijackInv
    <3> QED
      BY <3>1 DEF EditsExact, CodeWhole, PatchPrefix, FlagsApplied, StartsWatched
  <2>5. CASE TraceInv
    <3>1. job.cmd = "trace" /\ StartsWatched
      BY <2>5, TraceOK DEF TraceInv
    <3> QED
      BY <3>1 DEF EditsExact, CodeWhole, PatchPrefix, FlagsApplied, HijackClean
  <2>6. CASE EntryInv
    <3>1. job.cmd = "entry" /\ StartsWatched
      BY <2>6 DEF EntryInv
    <3> QED
      BY <3>1 DEF EditsExact, CodeWhole, PatchPrefix, FlagsApplied, HijackClean
  <2> QED
    BY <2>1, <2>2, <2>3, <2>4, <2>5, <2>6 DEF EditInv
<1> QED
  BY <1>1, <1>2, <1>3, PTL DEF EditSpec

-----------------------------------------------------------------------------
(* heap bins tcache and heap bins fast *)

\* What is reached from a cell: the cell itself, what a reached cell points to,
\* and nothing outside a set that has the cell and is closed.
LEMMA ReachedLemma ==
    ASSUME NEW next, NEW from
    PROVE  /\ Reached(next, from) \subseteq DOMAIN next
           /\ from \in DOMAIN next => from \in Reached(next, from)
           /\ \A c \in Reached(next, from) :
                next[c] \in DOMAIN next => next[c] \in Reached(next, from)
           /\ \A S \in SUBSET DOMAIN next :
                (from \in S /\ Closed(next, S)) => Reached(next, from) \subseteq S
<1>1. Reached(next, from) \subseteq DOMAIN next
  BY DEF Reached
<1>2. from \in DOMAIN next => from \in Reached(next, from)
  BY DEF Reached
<1>3. ASSUME NEW c \in Reached(next, from), next[c] \in DOMAIN next
      PROVE  next[c] \in Reached(next, from)
  BY <1>3 DEF Reached, Closed
<1>4. ASSUME NEW S \in SUBSET DOMAIN next, from \in S, Closed(next, S)
      PROVE  Reached(next, from) \subseteq S
  BY <1>4 DEF Reached
<1> QED
  BY <1>1, <1>2, <1>3, <1>4

\* The special addresses are not cells.
LEMMA NotCells == NULL \notin Cells /\ Bad \notin Cells /\ NoTcache \notin Cells /\ NULL # Bad
  BY HeapBounds DEF NULL, Bad, NoTcache

\* A set of numbers has a lowest.
LEMMA LowestLemma ==
    ASSUME NEW todo \in SUBSET Threads, todo # {}
    PROVE  Lowest(todo) \in todo
<1> DEFINE R == OpToRel(<, Nat)
<1>1. \A x, y \in Nat : x < y => <<x, y>> \in R
  BY DEF OpToRel
<1>2. IsWellFoundedOn(R, Nat)
  BY NatLessThanWellFounded
<1>3. todo \subseteq Nat
  BY HeapBounds
<1>4. \E x \in todo : \A y \in todo : ~ (<<y, x>> \in R)
  <2> HIDE DEF R
  <2> QED
    BY <1>2, <1>3, WFMin
<1>5. \E x \in todo : \A y \in todo : ~ (y < x)
  <2> HIDE DEF R
  <2> QED
    BY <1>1, <1>3, <1>4, Zenon
<1>6. \E x \in todo : \A y \in todo : x <= y
  BY <1>3, <1>5, SMT
<1> QED
  BY <1>6 DEF Lowest

-----------------------------------------------------------------------------

\* The walk along a list: what was seen was reached, and points to what was
\* seen or to where the walk is.
Walked(next, from, seen, pos) ==
    /\ pos \in Cells /\ from \in seen \cup {pos}
    /\ seen \cup {pos} \subseteq Reached(next, from)
    /\ \A c \in seen : next[c] \in seen \cup {pos}

\* A list is what the walk has seen when it cannot go on.
LEMMA WalkEnds ==
    ASSUME NEW next \in [Cells -> Pointers], NEW from \in Cells, NEW seen \in SUBSET Cells, NEW pos,
           Walked(next, from, seen, pos)
    PROVE  /\ pos \in seen => /\ Reached(next, from) = seen \cup {pos}
                              /\ HowItEnds(next, from) = "loop"
           /\ next[pos] = NULL => /\ Reached(next, from) = seen \cup {pos}
                                  /\ HowItEnds(next, from) = "nil"
           /\ (next[pos] = Bad) => /\ Reached(next, from) = seen \cup {pos}
                                  /\ HowItEnds(next, from) = "corrupted"
           /\ (pos \notin seen /\ next[pos] \notin {NULL, Bad}) =>
                Walked(next, from, seen \cup {pos}, next[pos])
<1> DEFINE S == seen \cup {pos}
           R == Reached(next, from)
<1>1. /\ DOMAIN next = Cells /\ S \in SUBSET Cells /\ from \in S /\ S \subseteq R /\ from # NULL
      /\ \A c \in seen : next[c] \in S
      /\ \A c \in Cells : next[c] \in Cells \cup {NULL, Bad}
  BY NotCells DEF Walked, Pointers
<1>2. ASSUME next[pos] \in S \cup {NULL, Bad} PROVE R = S
  <2>1. Closed(next, S)
    BY <1>1, <1>2, NotCells DEF Closed
  <2> QED
    BY <1>1, <2>1, ReachedLemma
<1>3. ASSUME pos \in seen PROVE R = S /\ HowItEnds(next, from) = "loop"
  <2>1. R = S
    BY <1>1, <1>2, <1>3
  <2>2. \A c \in R : next[c] \notin {NULL, Bad}
    BY <1>1, <1>3, <2>1, NotCells
  <2> QED
    BY <1>1, <2>1, <2>2 DEF HowItEnds
<1>4. ASSUME next[pos] = NULL PROVE R = S /\ HowItEnds(next, from) = "nil"
  <2>1. R = S
    BY <1>2, <1>4
  <2>2. \E c \in R : next[c] = NULL
    BY <1>4, <2>1
  <2>3. \A c \in R : next[c] # Bad
    BY <1>1, <1>4, <2>1, NotCells
  <2> QED
    BY <2>1, <2>2, <2>3 DEF HowItEnds
<1>5. ASSUME next[pos] = Bad PROVE R = S /\ HowItEnds(next, from) = "corrupted"
  <2>1. R = S
    BY <1>2, <1>5
  <2>2. \A c \in R : next[c] # NULL
    BY <1>1, <1>5, <2>1, NotCells
  <2>3. \E c \in R : next[c] = Bad
    BY <1>5, <2>1
  <2> QED
    BY <1>1, <2>1, <2>2, <2>3 DEF HowItEnds
<1>6. ASSUME pos \notin seen, next[pos] \notin {NULL, Bad}
      PROVE  Walked(next, from, S, next[pos])
  <2>1. next[pos] \in Cells
    BY <1>1, <1>6
  <2>2. next[pos] \in R
    BY <1>1, <2>1, ReachedLemma
  <2> QED
    BY <1>1, <2>1, <2>2 DEF Walked
<1> QED
  BY <1>3, <1>4, <1>5, <1>6

\* The states of `heap bins tcache' and `heap bins fast'.
ListStates ==
    [status : {"walking", "raised", "done"}, todo : SUBSET Threads, pos : Cells \cup {NULL},
     seen : SUBSET Cells, thread : Threads, found : [Threads -> SUBSET Cells],
     ends : [Threads -> {"none", "nil", "corrupted", "loop"}]]

\* What the walks over the free lists are asked for.
ListJob ==
    /\ job.cmd \in {"tcache", "fast"}
    /\ job.next \in [Cells -> Pointers] /\ job.heads \in [Threads -> TcacheHeads]
    /\ job.asked \in SUBSET Threads /\ job.selected \in Threads

\* The list of thread t has been shown.
Shown(t, found, ends) ==
    job.heads[t] \in Cells =>
        /\ found[t] = Reached(job.next, job.heads[t])
        /\ ends[t] = HowItEnds(job.next, job.heads[t])

\* The lists gone through are shown, and the walk is along the next one.
ListInv ==
    /\ ListJob /\ st \in ListStates
    /\ \A t \in job.asked \ st.todo : Shown(t, st.found, st.ends)
    /\ st.status = "done" => st.todo = {} /\ st.thread = job.selected
    /\ st.pos # NULL =>
        /\ st.todo # {} /\ job.heads[Lowest(st.todo)] \in Cells
        /\ Walked(job.next, job.heads[Lowest(st.todo)], st.seen, st.pos)

\* Nothing is shown at first.
LEMMA ListInitOK == TcacheInit \/ FastInit => ListInv
<1> SUFFICES ASSUME NEW cmd \in {"tcache", "fast"}, NEW next \in [Cells -> Pointers],
                    NEW heads \in [Threads -> TcacheHeads], NEW asked \in SUBSET Threads,
                    NEW selected \in Threads, ListsJob(cmd, next, heads, asked, selected)
             PROVE  ListInv
  <2>1. \A heads \in [Threads -> Pointers] : heads \in [Threads -> TcacheHeads]
    BY DEF TcacheHeads
  <2> QED
    BY <2>1 DEF TcacheInit, FastInit
<1>1. ListJob /\ job.asked = asked
  BY DEF ListsJob, ListJob
<1>2. st \in ListStates
  BY DEF ListsJob, ListStates
<1>3. st.todo = asked /\ st.pos = NULL /\ st.status = "walking"
  BY DEF ListsJob
<1> QED
  BY <1>1, <1>2, <1>3 DEF ListInv

\* A list that is gone through, with what was found and how it ended.
LEMMA ListDone ==
    ASSUME ListInv, job' = job, st' \in ListStates, st.status = "walking",
           NEW t \in st.todo, st'.status = "walking", st'.pos = NULL, st'.todo = st.todo \ {t},
           \A u \in Threads \ {t} : st'.found[u] = st.found[u] /\ st'.ends[u] = st.ends[u],
           Shown(t, st'.found, st'.ends)
    PROVE  ListInv'
<1>1. ListJob'
  BY DEF ListInv, ListJob
<1>2. job.asked \in SUBSET Threads /\ st.todo \in SUBSET Threads
  BY DEF ListInv, ListJob, ListStates
<1>3. ASSUME NEW u \in job.asked \ st'.todo PROVE Shown(u, st'.found, st'.ends)
  <2>1. CASE u = t
    BY <2>1
  <2>2. CASE u # t
    <3>1. u \in job.asked \ st.todo /\ u \in Threads \ {t}
      BY <1>2, <2>2
    <3>2. Shown(u, st.found, st.ends)
      BY <3>1 DEF ListInv
    <3> QED
      BY <3>1, <3>2 DEF Shown
  <2> QED
    BY <2>1, <2>2
<1>4. \A u \in job'.asked \ st'.todo : Shown(u, st.found, st.ends)'
  BY <1>3 DEF Shown
<1> QED
  BY <1>1, <1>4 DEF ListInv

\* The next list: an arena without a tcache or an empty list ends at once.
LEMMA NextListStep == ListInv /\ NextList => ListInv'
<1> SUFFICES ASSUME ListInv, NextList PROVE ListInv'
  OBVIOUS
<1> DEFINE t == Lowest(st.todo)
           head == job.heads[t]
           thread == IF job.cmd = "tcache" THEN t ELSE st.thread
<1>1. /\ st \in ListStates /\ job' = job /\ st.status = "walking" /\ st.pos = NULL
      /\ st.todo # {} /\ st.todo \in SUBSET Threads /\ st.thread \in Threads
      /\ st.found \in [Threads -> SUBSET Cells]
      /\ st.ends \in [Threads -> {"none", "nil", "corrupted", "loop"}]
      /\ ListJob /\ job.heads \in [Threads -> TcacheHeads]
  BY DEF ListInv, ListJob, ListStates, NextList, Walking
<1>2. t \in st.todo /\ t \in Threads /\ thread \in Threads /\ head \in TcacheHeads
  BY <1>1, LowestLemma
<1>3. st' = CASE head = Bad -> [st EXCEPT !.thread = thread, !.status = "raised"]
              [] head \in {NULL, NoTcache} ->
                    [st EXCEPT !.thread = thread, !.todo = st.todo \ {t}, !.ends[t] = "nil"]
              [] OTHER -> [st EXCEPT !.thread = thread, !.pos = head, !.seen = {}]
  BY <1>1 DEF NextList
<1> HIDE DEF t, head, thread
<1>4. CASE head = Bad
  <2>1. st' = [st EXCEPT !.thread = thread, !.status = "raised"]
    BY <1>3, <1>4 DEF NULL, NoTcache, Bad
  <2>2. /\ st' \in ListStates /\ st'.todo = st.todo /\ st'.found = st.found /\ st'.ends = st.ends
        /\ st'.status = "raised" /\ st'.pos = NULL
    BY <1>1, <1>2, <2>1 DEF ListStates
  <2> QED
    BY <1>1, <2>2 DEF ListInv, ListJob, Shown
<1>5. CASE head \in {NULL, NoTcache}
  <2>1. st' = [st EXCEPT !.thread = thread, !.todo = st.todo \ {t}, !.ends[t] = "nil"]
    BY <1>3, <1>5 DEF NULL, NoTcache, Bad
  <2>2. /\ st' \in ListStates /\ st'.todo = st.todo \ {t} /\ st'.found = st.found
        /\ st'.ends = [st.ends EXCEPT ![t] = "nil"]
        /\ st'.status = "walking" /\ st'.pos = NULL
    BY <1>1, <1>2, <2>1 DEF ListStates
  <2>3. Shown(t, st'.found, st'.ends)
    BY <1>5, NotCells DEF Shown, head
  <2>4. \A u \in Threads \ {t} : st'.found[u] = st.found[u] /\ st'.ends[u] = st.ends[u]
    BY <1>1, <2>2
  <2> QED
    BY <1>1, <1>2, <2>2, <2>3, <2>4, ListDone
<1>6. CASE head \notin {Bad, NULL, NoTcache}
  <2>1. st' = [st EXCEPT !.thread = thread, !.pos = head, !.seen = {}]
    BY <1>3, <1>6
  <2>2. head \in Cells
    BY <1>2, <1>6 DEF TcacheHeads, Pointers
  <2>3. /\ st' \in ListStates /\ st'.todo = st.todo /\ st'.found = st.found /\ st'.ends = st.ends
        /\ st'.status = "walking" /\ st'.pos = head /\ st'.seen = {}
    BY <1>1, <1>2, <2>1, <2>2 DEF ListStates
  <2>4. Walked(job.next, head, {}, head)
    <3>1. DOMAIN job.next = Cells
      BY <1>1 DEF ListJob
    <3> QED
      BY <2>2, <3>1, ReachedLemma DEF Walked
  <2> QED
    BY <1>1, <2>2, <2>3, <2>4 DEF ListInv, ListJob, Shown, head, t
<1> QED
  BY <1>4, <1>5, <1>6

\* A list is walked until it ends, one way or another.
LEMMA NextChunkStep == ListInv /\ NextChunk => ListInv'
<1> SUFFICES ASSUME ListInv, NextChunk PROVE ListInv'
  OBVIOUS
<1> DEFINE t == Lowest(st.todo)
           from == job.heads[t]
           n == job.next[st.pos]
           here == st.seen \cup {st.pos}
           done(how) == [st EXCEPT !.todo = st.todo \ {t}, !.pos = NULL, !.ends[t] = how,
                                   !.found[t] = here]
<1>1. /\ st \in ListStates /\ job' = job /\ st.status = "walking" /\ st.pos # NULL
      /\ st.todo # {} /\ st.todo \in SUBSET Threads /\ st.thread \in Threads
      /\ st.seen \in SUBSET Cells
      /\ st.found \in [Threads -> SUBSET Cells]
      /\ st.ends \in [Threads -> {"none", "nil", "corrupted", "loop"}]
      /\ ListJob /\ job.next \in [Cells -> Pointers]
      /\ from \in Cells /\ Walked(job.next, from, st.seen, st.pos)
  BY DEF ListInv, ListJob, ListStates, NextChunk, Walking
<1>2. t \in st.todo /\ t \in Threads /\ st.pos \in Cells /\ here \in SUBSET Cells
      /\ n \in Pointers
  BY <1>1, LowestLemma DEF Walked
<1>3. st' = CASE st.pos \in st.seen -> done("loop")
              [] st.pos \notin st.seen /\ n = NULL -> done("nil")
              [] st.pos \notin st.seen /\ n = Bad -> done("corrupted")
              [] OTHER -> [st EXCEPT !.seen = here, !.pos = n]
  BY <1>1 DEF NextChunk
<1>4. ASSUME NEW how \in {"loop", "nil", "corrupted"}, st' = done(how),
             Reached(job.next, from) = here, HowItEnds(job.next, from) = how
      PROVE  ListInv'
  <2>1. st' = [st EXCEPT !.todo = st.todo \ {t}, !.pos = NULL, !.ends[t] = how, !.found[t] = here]
    BY <1>4
  <2> HIDE DEF here, t
  <2>2. /\ st' \in ListStates /\ st'.todo = st.todo \ {t}
        /\ st'.found = [st.found EXCEPT ![t] = here]
        /\ st'.ends = [st.ends EXCEPT ![t] = how]
        /\ st'.status = "walking" /\ st'.pos = NULL
    BY <1>1, <1>2, <2>1 DEF ListStates
  <2>3. st'.found[t] = here /\ st'.ends[t] = how
    BY <1>1, <1>2, <2>2
  <2>4. Shown(t, st'.found, st'.ends)
    BY <1>4, <2>3 DEF Shown
  <2>5. \A u \in Threads \ {t} : st'.found[u] = st.found[u] /\ st'.ends[u] = st.ends[u]
    BY <1>1, <2>2
  <2> QED
    BY <1>1, <1>2, <2>2, <2>4, <2>5, ListDone
<1> HIDE DEF done, n
<1>5. CASE st.pos \in st.seen
  <2>1. st' = done("loop")
    BY <1>3, <1>5
  <2> QED
    <3>1. Reached(job.next, from) = here /\ HowItEnds(job.next, from) = "loop"
      BY <1>1, <1>5, WalkEnds
    <3> HIDE DEF here, from
    <3> QED
      BY <1>4, <2>1, <3>1
<1>6. CASE st.pos \notin st.seen /\ n = NULL
  <2>1. st' = done("nil")
    BY <1>3, <1>6, NotCells
  <2> QED
    BY <1>1, <1>4, <1>6, <2>1, WalkEnds DEF n
<1>7. CASE st.pos \notin st.seen /\ n = Bad
  <2>1. st' = done("corrupted")
    BY <1>3, <1>7, NotCells
  <2> QED
    BY <1>1, <1>4, <1>7, <2>1, WalkEnds DEF n
<1>8. CASE st.pos \notin st.seen /\ n \notin {NULL, Bad}
  <2>1. st' = [st EXCEPT !.seen = here, !.pos = n]
    BY <1>3, <1>8
  <2>2. n \in Cells /\ Walked(job.next, from, here, n)
    BY <1>1, <1>2, <1>8, WalkEnds DEF n, Pointers
  <2> HIDE DEF here
  <2>3. /\ st' \in ListStates /\ st'.todo = st.todo /\ st'.found = st.found /\ st'.ends = st.ends
        /\ st'.status = "walking" /\ st'.pos = n /\ st'.seen = here
    BY <1>1, <1>2, <2>1, <2>2 DEF ListStates
  <2> QED
    BY <1>1, <2>2, <2>3 DEF ListInv, ListJob, Shown
<1> QED
  BY <1>5, <1>6, <1>7, <1>8

\* The tcaches and fastbins are shown as they are.
LEMMA ListOK ==
    /\ ListInv /\ [HeapNext]_vars => ListInv'
    /\ ListInv => HeapShown
<1>1. ASSUME ListInv, [HeapNext]_vars PROVE ListInv'
  <2>1. CASE UNCHANGED vars
    BY <1>1, <2>1 DEF ListInv, ListJob, Shown, vars
  <2>2. CASE ListsEnd
    <3>1. /\ st \in ListStates /\ job' = job /\ st.pos = NULL /\ st.todo = {}
          /\ job.selected \in Threads /\ ListJob
          /\ st' = [st EXCEPT !.status = "done", !.thread = job.selected]
      BY <1>1, <2>2 DEF ListInv, ListJob, ListsEnd
    <3>2. /\ st' \in ListStates /\ st'.todo = {} /\ st'.found = st.found /\ st'.ends = st.ends
          /\ st'.status = "done" /\ st'.pos = NULL /\ st'.thread = job.selected
      BY <3>1 DEF ListStates
    <3> QED
      BY <1>1, <3>1, <3>2 DEF ListInv, ListJob, Shown
  <2>3. CASE NextList \/ NextChunk
    BY <1>1, <2>3, NextListStep, NextChunkStep
  <2> QED
    BY <1>1, <2>1, <2>2, <2>3 DEF HeapNext, ListInv, ListJob, BinStart, BinChunk, BinsStep,
       ArenaIter, ArenaVerify, ChunkStep, Walking
<1>2. ASSUME ListInv PROVE HeapShown
  <2>1. job.cmd \in {"tcache", "fast"}
    BY <1>2 DEF ListInv, ListJob
  <2>2. ListsExact
    BY <1>2 DEF ListsExact, ListInv, Shown
  <2> QED
    BY <2>1, <2>2 DEF HeapShown, RingsExact, ChunksExact
<1> QED
  BY <1>1, <1>2

-----------------------------------------------------------------------------
(* heap arenas *)

\* The walks over the arenas.
ArenasJob ==
    /\ job.cmd \in {"arenas", "verify"}
    /\ job.next \in [Cells -> Pointers] /\ job.first \in Cells

\* The states of the walks over the arenas.
ArenaStates == [status : {"walking", "raised", "done"}, pos : Cells, found : SUBSET Cells]

\* __iter__(): what was listed was reached, and points to what was listed or is next.
IterInv ==
    /\ job.first \in st.found \cup {st.pos}
    /\ st.found \cup {st.pos} \subseteq Reached(job.next, job.first)
    /\ st.status = "walking" => \A c \in st.found : job.next[c] \in st.found \cup {st.pos}
    /\ st.status = "done" => st.found = Reached(job.next, job.first)

\* verify(): the same, from what the candidate points to, and never the candidate.
VerifyInv ==
    LET R == Reached(job.next, job.next[job.first])
    IN /\ job.first \notin st.found /\ st.found \subseteq R
       /\ st.pos \in st.found \cup {job.first}
       /\ st.pos # job.first => job.next[job.first] \in st.found
       /\ \A c \in st.found : c = st.pos \/ job.next[c] \in st.found
       /\ st.status = "done" => job.first \in R
       /\ st.status = "raised" => job.first \notin R

\* The invariant of the walks over the arenas.
ArenasInv ==
    /\ ArenasJob /\ st \in ArenaStates
    /\ job.cmd = "arenas" => IterInv
    /\ job.cmd = "verify" => VerifyInv

\* The walk starts at main_arena.
LEMMA ArenasInitOK == ArenasInit => ArenasInv
<1> SUFFICES ASSUME ArenasInit PROVE ArenasInv
  OBVIOUS
<1>1. /\ ArenasJob /\ st = [status |-> "walking", pos |-> job.first, found |-> {}]
  BY DEF ArenasInit, ArenasJob
<1>2. st \in ArenaStates /\ st.pos = job.first /\ st.found = {} /\ st.status = "walking"
  BY <1>1 DEF ArenaStates, ArenasJob
<1>3. job.first \in Reached(job.next, job.first)
  BY <1>1, ReachedLemma DEF ArenasJob
<1> QED
  BY <1>1, <1>2, <1>3 DEF ArenasInv, IterInv, VerifyInv

\* `heap arenas` goes on to the next arena or is back at the first.
LEMMA IterStep == ArenasInv /\ ArenaIter => ArenasInv'
<1> SUFFICES ASSUME ArenasInv, ArenaIter PROVE ArenasInv'
  OBVIOUS
<1> DEFINE n == job.next[st.pos]
           here == st.found \cup {st.pos}
           R == Reached(job.next, job.first)
<1>1. /\ job' = job /\ ArenasJob /\ job.cmd = "arenas" /\ st \in ArenaStates
      /\ st.status = "walking" /\ st.pos \in Cells /\ st.found \in SUBSET Cells
      /\ DOMAIN job.next = Cells /\ n \in Cells \cup {NULL, Bad} /\ job.first \in Cells
      /\ job.first \in here /\ here \subseteq R /\ \A c \in st.found : job.next[c] \in here
      /\ here \in SUBSET Cells
  BY DEF ArenasInv, ArenasJob, ArenaStates, IterInv, ArenaIter, Walking, Pointers
<1>2. st' = CASE n \in {NULL, job.first} -> [st EXCEPT !.found = here, !.status = "done"]
              [] n = Bad -> [st EXCEPT !.found = here, !.status = "raised"]
              [] OTHER -> [st EXCEPT !.found = here, !.pos = n]
  BY <1>1 DEF ArenaIter
<1>3. ArenasJob' /\ Reached(job.next, job.first)' = R
  BY <1>1 DEF ArenasJob
<1> HIDE DEF n, here, R
<1>4. CASE n \in {NULL, job.first}
  <2>1. st' = [st EXCEPT !.found = here, !.status = "done"]
    BY <1>1, <1>2, <1>4, NotCells
  <2>2. /\ st' \in ArenaStates /\ st'.found = here /\ st'.status = "done" /\ st'.pos = st.pos
    BY <1>1, <2>1 DEF ArenaStates
  <2>3. Closed(job.next, here)
    BY <1>1, <1>4, NotCells DEF Closed, here, n
  <2>4. R = here
    <3>1. R \subseteq here
      BY <1>1, <2>3, ReachedLemma DEF R
    <3> QED
      BY <1>1, <3>1
  <2> QED
    BY <1>1, <1>3, <2>2, <2>4 DEF ArenasInv, IterInv, here
<1>5. CASE n = Bad
  <2>1. st' = [st EXCEPT !.found = here, !.status = "raised"]
    BY <1>1, <1>2, <1>5, NotCells
  <2>2. /\ st' \in ArenaStates /\ st'.found = here /\ st'.status = "raised" /\ st'.pos = st.pos
    BY <1>1, <2>1 DEF ArenaStates
  <2> QED
    BY <1>1, <1>3, <2>2 DEF ArenasInv, IterInv, here
<1>6. CASE n \notin {NULL, Bad, job.first}
  <2>1. st' = [st EXCEPT !.found = here, !.pos = n]
    BY <1>1, <1>2, <1>6
  <2>2. /\ st' \in ArenaStates /\ st'.found = here /\ st'.status = "walking" /\ st'.pos = n
    BY <1>1, <1>6, <2>1 DEF ArenaStates
  <2>3. n \in R
    BY <1>1, <1>6, ReachedLemma DEF R, n, here
  <2>4. \A c \in here : job.next[c] \in here \cup {n}
    BY <1>1 DEF here, n
  <2> QED
    BY <1>1, <1>3, <2>2, <2>3, <2>4 DEF ArenasInv, IterInv
<1> QED
  BY <1>4, <1>5, <1>6

\* The check of a candidate for main_arena goes on, or has its verdict.
LEMMA VerifyStep == ArenasInv /\ ArenaVerify => ArenasInv'
<1> SUFFICES ASSUME ArenasInv, ArenaVerify PROVE ArenasInv'
  OBVIOUS
<1> DEFINE n == job.next[st.pos]
           a == job.next[job.first]
           R == Reached(job.next, a)
<1>1. /\ job' = job /\ ArenasJob /\ job.cmd = "verify" /\ st \in ArenaStates
      /\ st.status = "walking" /\ st.pos \in Cells /\ st.found \in SUBSET Cells
      /\ DOMAIN job.next = Cells /\ n \in Cells \cup {NULL, Bad} /\ job.first \in Cells
      /\ job.first \notin st.found /\ st.found \subseteq R
      /\ st.pos \in st.found \cup {job.first}
      /\ st.pos # job.first => a \in st.found
      /\ \A c \in st.found : c = st.pos \/ job.next[c] \in st.found
  BY DEF ArenasInv, ArenasJob, ArenaStates, VerifyInv, ArenaVerify, Walking, Pointers
<1>2. st' = CASE n = job.first -> [st EXCEPT !.status = "done"]
              [] n \in {NULL, Bad} -> [st EXCEPT !.status = "raised"]
              [] OTHER -> [st EXCEPT !.pos = n, !.found = st.found \cup {n}]
  BY <1>1 DEF ArenaVerify
<1>3. ArenasJob' /\ R' = R
  BY <1>1 DEF ArenasJob
<1>4. n \in Cells => n \in R
  BY <1>1, ReachedLemma
<1> HIDE DEF R
<1>5. CASE n = job.first
  <2>1. st' = [st EXCEPT !.status = "done"]
    BY <1>1, <1>2, <1>5, NotCells
  <2>2. /\ st' \in ArenaStates /\ st'.found = st.found /\ st'.status = "done" /\ st'.pos = st.pos
    BY <1>1, <2>1 DEF ArenaStates
  <2> QED
    BY <1>1, <1>3, <1>4, <1>5, <2>2 DEF ArenasInv, VerifyInv, R
<1>6. CASE n \in {NULL, Bad}
  <2>1. st' = [st EXCEPT !.status = "raised"]
    BY <1>1, <1>2, <1>6, NotCells
  <2>2. /\ st' \in ArenaStates /\ st'.found = st.found /\ st'.status = "raised" /\ st'.pos = st.pos
    BY <1>1, <2>1 DEF ArenaStates
  <2>3. job.first \notin R
    <3>1. CASE st.pos = job.first
      BY <1>6, <3>1, <1>1, NotCells DEF R, Reached
    <3>2. CASE st.pos # job.first
      <4>1. Closed(job.next, st.found)
        BY <1>1, <1>6, NotCells DEF Closed
      <4>2. R \subseteq st.found
        BY <1>1, <3>2, <4>1, ReachedLemma DEF R
      <4> QED
        BY <1>1, <4>2
    <3> QED
      BY <3>1, <3>2
  <2> QED
    BY <1>1, <1>3, <2>2, <2>3 DEF ArenasInv, VerifyInv, R
<1>7. CASE n \notin {NULL, Bad, job.first}
  <2>1. st' = [st EXCEPT !.pos = n, !.found = st.found \cup {n}]
    BY <1>1, <1>2, <1>7
  <2>2. /\ st' \in ArenaStates /\ st'.found = st.found \cup {n} /\ st'.status = "walking"
        /\ st'.pos = n
    BY <1>1, <1>7, <2>1 DEF ArenaStates
  <2>3. n \in Cells /\ n \in R /\ n # job.first
    BY <1>1, <1>4, <1>7
  <2>4. \A c \in st'.found : c = n \/ job.next[c] \in st'.found
    BY <1>1, <2>2
  <2>5. a \in st'.found
    BY <1>1, <2>2
  <2> QED
    BY <1>1, <1>3, <2>2, <2>3, <2>4, <2>5 DEF ArenasInv, VerifyInv, R
<1> QED
  BY <1>5, <1>6, <1>7

\* What the walks over the arenas end with.
LEMMA ArenasOK ==
    /\ ArenasInv /\ [HeapNext]_vars => ArenasInv'
    /\ ArenasInv => HeapShown
<1>1. ASSUME ArenasInv, [HeapNext]_vars PROVE ArenasInv'
  <2>1. CASE UNCHANGED vars
    BY <1>1, <2>1 DEF ArenasInv, ArenasJob, IterInv, VerifyInv, vars
  <2>2. CASE ArenaIter \/ ArenaVerify
    BY <1>1, <2>2, IterStep, VerifyStep
  <2> QED
    BY <1>1, <2>1, <2>2 DEF HeapNext, ArenasInv, ArenasJob, NextList, NextChunk, ListsEnd,
       BinStart, BinChunk, BinsStep, ChunkStep, Walking
<1>2. ASSUME ArenasInv PROVE HeapShown
  <2>1. job.cmd \in {"arenas", "verify"} /\ st.status \in {"walking", "raised", "done"}
    BY <1>2 DEF ArenasInv, ArenasJob, ArenaStates
  <2>2. CASE job.cmd = "arenas"
    BY <1>2, <2>2 DEF ArenasInv, IterInv, HeapShown, ListsExact, RingsExact, ChunksExact
  <2>3. CASE job.cmd = "verify"
    BY <1>2, <2>1, <2>3 DEF ArenasInv, VerifyInv, HeapShown, ListsExact, RingsExact, ChunksExact, Ended
  <2> QED
    BY <2>1, <2>2, <2>3
<1> QED
  BY <1>1, <1>2

-----------------------------------------------------------------------------
(* heap bins unsorted, small and large *)

\* What a bin is made of.
Ring == Cells \cup {Header}

\* `heap bins unsorted|small|large', one bin.
BinJob ==
    /\ job.cmd = "bin" /\ job.next \in [Ring -> Ring \cup {NULL, Bad}]
    /\ job.bk \in Ring \cup {NULL, Bad}

\* The states of a walk along a bin.
BinStates ==
    [status : {"walking", "invalid", "raised", "done"}, pos : Ring \cup {NULL, Bad},
     head : Ring \cup {NULL, Bad}, found : Nat, fresh : BOOLEAN]

\* The chunks V have been counted, all of them between the header and pos.
Rounded(V, pos, found) ==
    /\ V \in SUBSET Cells /\ Header \notin V /\ pos \notin V
    /\ V \cup {pos} \subseteq Reached(job.next, Header)
    /\ job.next[Header] \in V \cup {pos}
    /\ \A c \in V : job.next[c] \in V \cup {pos}
    /\ found = Cardinality(V)

\* The chunks counted are those from the header to where the walk is.
BinInv ==
    /\ BinJob /\ st \in BinStates
    /\ WellFormedBin =>
        /\ st.fresh => st.status = "walking" /\ st.pos = job.next[Header] /\ st.found = 0
        /\ ~st.fresh => /\ st.head = Header /\ st.status \in {"walking", "done"}
                        /\ \E V \in SUBSET Cells : Rounded(V, st.pos, st.found)
        /\ st.status = "done" => ~st.fresh /\ st.pos = Header

\* Nothing of the bin has been read at first.
LEMMA BinInitOK == BinInit => BinInv
<1> SUFFICES ASSUME BinInit PROVE BinInv
  OBVIOUS
<1>1. PICK next \in [Ring -> Ring \cup {NULL, Bad}], bk \in Ring \cup {NULL, Bad} :
        /\ job = [cmd |-> "bin", next |-> next, bk |-> bk]
        /\ st = [status |-> "walking", pos |-> next[Header], head |-> NULL, found |-> 0,
                 fresh |-> TRUE]
  <2>1. Cells \cup {Header, NULL, Bad} = Ring \cup {NULL, Bad}
    BY DEF Ring
  <2> QED
    BY <2>1 DEF BinInit, Ring
<1>2. Header \in Ring /\ next[Header] \in Ring \cup {NULL, Bad}
  BY DEF Ring
<1>3. BinJob /\ st \in BinStates
  BY <1>1, <1>2 DEF BinJob, BinStates
<1>4. st.fresh /\ st.status = "walking" /\ st.pos = job.next[Header] /\ st.found = 0
  BY <1>1
<1> QED
  BY <1>3, <1>4 DEF BinInv

\* In an intact bin the walk does not come back to a chunk before the header.
LEMMA RingAdvance ==
    ASSUME BinJob, WellFormedBin, NEW V, NEW pos, NEW found, Rounded(V, pos, found), pos # Header
    PROVE  /\ pos \in Cells /\ job.next[pos] \in Ring
           /\ found \in Nat /\ found <= Cardinality(Cells)
           /\ Rounded(V \cup {pos}, job.next[pos], found + 1)
<1> DEFINE S == V \cup {pos}
           R == Reached(job.next, Header)
           n == job.next[pos]
<1>1. /\ DOMAIN job.next = Ring /\ R \subseteq Ring /\ pos \in R /\ S \subseteq R
      /\ Header \in Reached(job.next, job.next[Header])
      /\ \A c \in R : job.next[c] \in Ring
  BY ReachedLemma DEF BinJob, WellFormedBin, Rounded
<1>2. pos \in Cells /\ S \in SUBSET Cells /\ S \in SUBSET Ring /\ n \in Ring
  BY <1>1 DEF Ring, Rounded
<1>3. n \in R
  BY <1>1, <1>2, ReachedLemma
<1>4. n \notin S
  <2> SUFFICES ASSUME n \in S PROVE FALSE
    OBVIOUS
  <2>1. Closed(job.next, S)
    BY DEF Closed, Rounded
  <2>2. Reached(job.next, job.next[Header]) \subseteq S
    BY <1>1, <1>2, <2>1, ReachedLemma DEF Rounded
  <2> QED
    BY <1>1, <2>2 DEF Rounded
<1>5. IsFiniteSet(V) /\ Cardinality(V) <= Cardinality(Cells) /\ Cardinality(V) \in Nat
  BY FS_Subset, FS_CardinalityType, HeapBounds DEF Rounded
<1>6. Cardinality(S) = found + 1
  BY <1>5, FS_AddElement DEF Rounded
<1>7. Rounded(S, n, found + 1)
  BY <1>1, <1>2, <1>3, <1>4, <1>6 DEF Rounded
<1> QED
  BY <1>2, <1>5, <1>7 DEF Rounded

\* Back at the header all chunks have been counted.
LEMMA RingClosed ==
    ASSUME BinJob, WellFormedBin, NEW V, NEW found, Rounded(V, Header, found)
    PROVE  found = Cardinality(Reached(job.next, Header)) - 1
<1> DEFINE S == V \cup {Header}
           R == Reached(job.next, Header)
<1>1. DOMAIN job.next = Ring /\ S \subseteq R /\ S \in SUBSET Ring
  BY DEF BinJob, Rounded, Ring
<1>2. Closed(job.next, S)
  BY DEF Closed, Rounded
<1>3. R \subseteq S
  BY <1>1, <1>2, ReachedLemma
<1>4. R = S
  BY <1>1, <1>3
<1>5. IsFiniteSet(V) /\ Cardinality(V) \in Nat
  BY FS_Subset, FS_CardinalityType, HeapBounds DEF Rounded
<1>6. Cardinality(S) = Cardinality(V) + 1
  BY <1>5, FS_AddElement DEF Rounded
<1>7. Cardinality(R) = found + 1 /\ found \in Nat
  BY <1>4, <1>5, <1>6 DEF Rounded
<1> QED
  BY <1>7

\* The header of a bin is unreadable, points to itself, or to the first chunk.
LEMMA BinStartStep == BinInv /\ BinStart => BinInv'
<1> SUFFICES ASSUME BinInv, BinStart PROVE BinInv'
  OBVIOUS
<1>1. /\ job' = job /\ BinJob /\ st \in BinStates /\ st.fresh /\ st.status = "walking"
      /\ WellFormedBin => st.pos = job.next[Header] /\ st.found = 0
      /\ DOMAIN job.next = Ring
  BY DEF BinInv, BinStart, BinJob, Walking
<1>2. st' = CASE st.pos = NULL /\ job.bk = NULL -> [st EXCEPT !.status = "invalid"]
              [] job.bk \notin Ring -> [st EXCEPT !.status = "raised"]
              [] OTHER -> [st EXCEPT !.head = job.next[job.bk], !.fresh = FALSE]
  BY <1>1 DEF BinStart
<1>3. BinJob' /\ WellFormedBin' = WellFormedBin
  BY <1>1 DEF BinJob, WellFormedBin
<1>4. ASSUME st' \in {[st EXCEPT !.status = "invalid"], [st EXCEPT !.status = "raised"]},
             ~WellFormedBin
      PROVE  BinInv'
  <2>1. st' \in BinStates
    BY <1>1, <1>4 DEF BinStates
  <2> QED
    BY <1>3, <1>4, <2>1 DEF BinInv
<1>5. ASSUME WellFormedBin PROVE job.bk \in Ring /\ job.next[job.bk] = Header /\ job.next[Header] \in Ring
                                 /\ job.next[Header] \in Reached(job.next, Header)
  BY <1>1, <1>5, ReachedLemma DEF WellFormedBin, Ring
<1>6. CASE job.bk \notin Ring
  <2>1. ~WellFormedBin
    BY <1>5, <1>6
  <2>2. st' \in {[st EXCEPT !.status = "invalid"], [st EXCEPT !.status = "raised"]}
    BY <1>2, <1>6
  <2> QED
    BY <1>4, <2>1, <2>2
<1>7. CASE job.bk \in Ring
  <2>1. job.bk # NULL
    BY <1>7, NotCells DEF Ring, NULL, Header
  <2>2. st' = [st EXCEPT !.head = job.next[job.bk], !.fresh = FALSE]
    BY <1>2, <1>7, <2>1
  <2>3. job.next[job.bk] \in Ring \cup {NULL, Bad}
    BY <1>1, <1>7 DEF BinJob
  <2>4. /\ st' \in BinStates /\ st'.head = job.next[job.bk] /\ ~st'.fresh /\ st'.pos = st.pos
        /\ st'.found = st.found /\ st'.status = "walking"
    BY <1>1, <2>2, <2>3 DEF BinStates
  <2>5. ASSUME WellFormedBin PROVE Rounded({}, st'.pos, st'.found)
    BY <1>1, <1>5, <2>4, <2>5, FS_EmptySet DEF Rounded
  <2>6. WellFormedBin => \E V \in SUBSET Cells : Rounded(V, st'.pos, st'.found)
    BY <2>5
  <2>7. \A V \in SUBSET Cells : Rounded(V, st.pos, st.found)' = Rounded(V, st'.pos, st'.found)
    BY <1>1 DEF Rounded
  <2> QED
    BY <1>3, <1>5, <2>4, <2>6, <2>7 DEF BinInv
<1> QED
  BY <1>6, <1>7

\* One chunk of the bin after the other, until the header.
LEMMA BinChunkStep == BinInv /\ BinChunk => BinInv'
<1> SUFFICES ASSUME BinInv, BinChunk PROVE BinInv'
  OBVIOUS
<1> DEFINE more == IF st.found > Cardinality(Cells) THEN st.found ELSE st.found + 1
<1>1. /\ job' = job /\ BinJob /\ st \in BinStates /\ ~st.fresh /\ st.status = "walking"
      /\ st.found \in Nat /\ st.pos \in Ring \cup {NULL, Bad}
      /\ WellFormedBin => st.head = Header /\ \E V \in SUBSET Cells : Rounded(V, st.pos, st.found)
      /\ DOMAIN job.next = Ring
  BY DEF BinInv, BinChunk, BinJob, BinStates, Walking
<1>2. st' = CASE st.pos = st.head -> [st EXCEPT !.status = "done"]
              [] st.pos # st.head /\ st.pos \notin Ring -> [st EXCEPT !.status = "raised"]
              [] OTHER -> [st EXCEPT !.pos = job.next[st.pos], !.found = more]
  BY <1>1 DEF BinChunk
<1>3. BinJob' /\ WellFormedBin' = WellFormedBin
      /\ \A V \in SUBSET Cells : Rounded(V, st.pos, st.found)' = Rounded(V, st'.pos, st'.found)
  BY <1>1 DEF BinJob, WellFormedBin, Rounded
<1>4. CASE st.pos = st.head
  <2>1. /\ st' \in BinStates /\ st'.pos = st.pos /\ st'.found = st.found /\ ~st'.fresh
        /\ st'.head = st.head /\ st'.status = "done"
    BY <1>1, <1>2, <1>4 DEF BinStates
  <2> QED
    BY <1>1, <1>3, <1>4, <2>1 DEF BinInv
<1>5. CASE st.pos # st.head /\ st.pos \notin Ring
  <2>1. /\ st' \in BinStates
    BY <1>1, <1>2, <1>5 DEF BinStates
  <2>2. ~WellFormedBin
    <3> SUFFICES ASSUME WellFormedBin PROVE FALSE
      OBVIOUS
    <3> QED
      BY <1>1, <1>5, ReachedLemma DEF Rounded
  <2> QED
    BY <1>3, <2>1, <2>2 DEF BinInv
<1>6. CASE st.pos # st.head /\ st.pos \in Ring
  <2>1. st' = [st EXCEPT !.pos = job.next[st.pos], !.found = more]
    BY <1>2, <1>6
  <2>2. job.next[st.pos] \in Ring \cup {NULL, Bad} /\ more \in Nat
    BY <1>1, <1>6 DEF BinJob
  <2> HIDE DEF more
  <2>3. /\ st' \in BinStates /\ st'.pos = job.next[st.pos] /\ st'.found = more /\ ~st'.fresh
        /\ st'.head = st.head /\ st'.status = "walking"
    BY <1>1, <2>1, <2>2 DEF BinStates
  <2>4. ASSUME WellFormedBin PROVE \E V \in SUBSET Cells : Rounded(V, st'.pos, st'.found)
    <3>1. PICK V \in SUBSET Cells : Rounded(V, st.pos, st.found)
      BY <1>1, <2>4
    <3>2. st.pos # Header
      BY <1>1, <1>6, <2>4
    <3>3. /\ st.pos \in Cells /\ st.found <= Cardinality(Cells)
          /\ Rounded(V \cup {st.pos}, job.next[st.pos], st.found + 1)
      BY <1>1, <2>4, <3>1, <3>2, RingAdvance
    <3>4. Cardinality(Cells) \in Nat
      BY FS_CardinalityType, HeapBounds
    <3>5. more = st.found + 1
      BY <1>1, <3>3, <3>4 DEF more
    <3> QED
      BY <2>3, <3>3, <3>5
  <2> QED
    BY <1>1, <1>3, <2>3, <2>4 DEF BinInv
<1> QED
  BY <1>4, <1>5, <1>6

\* What the walk along a bin ends with.
LEMMA BinOK ==
    /\ BinInv /\ [HeapNext]_vars => BinInv'
    /\ BinInv => HeapShown
<1>1. ASSUME BinInv, [HeapNext]_vars PROVE BinInv'
  <2>1. CASE UNCHANGED vars
    BY <1>1, <2>1 DEF BinInv, BinJob, WellFormedBin, Rounded, vars
  <2>2. CASE BinStart \/ BinChunk
    BY <1>1, <2>2, BinStartStep, BinChunkStep
  <2> QED
    BY <1>1, <2>1, <2>2 DEF HeapNext, BinInv, BinJob, NextList, NextChunk, ListsEnd,
       ArenaIter, ArenaVerify, BinsStep, ChunkStep, Walking
<1>2. ASSUME BinInv PROVE HeapShown
  <2>1. job.cmd = "bin" /\ BinJob
    BY <1>2 DEF BinInv, BinJob
  <2>2. ASSUME WellFormedBin, st.status # "walking"
        PROVE  st.status = "done" /\ st.found = Cardinality(Reached(job.next, Header)) - 1
    <3>1. st.status = "done" /\ st.pos = Header /\ \E V \in SUBSET Cells : Rounded(V, Header, st.found)
      BY <1>2, <2>2 DEF BinInv
    <3> QED
      BY <2>1, <2>2, <3>1, RingClosed
  <2> QED
    BY <2>1, <2>2 DEF HeapShown, ListsExact, RingsExact, ChunksExact, Ended
<1> QED
  BY <1>1, <1>2

\* The counts added up one at a time.
LEMMA TotalLemma ==
    ASSUME NEW counts \in Seq(Int)
    PROVE  /\ Total(counts, 0) = 0
           /\ \A n \in Nat : n < Len(counts) => Total(counts, n + 1) = Total(counts, n) + counts[n + 1]
           /\ \A n \in Nat : Total(counts, n) \in Int
<1> DEFINE V == Int
           x0 == 0
           Body(i, x) == IF i \notin DOMAIN counts THEN 0 ELSE x + counts[i]
           Before(g, i) == IF i = 0 THEN x0 ELSE g[i - 1]
           f == CHOOSE g : g = [k \in Nat |-> IF k \notin DOMAIN counts THEN 0 ELSE g[k - 1] + counts[k]]
           Step == [p \in Nat \X Int |-> Body(p[1], p[2])]
<1>1. \A n : Total(counts, n) = f[n]
  BY DEF Total
<1>2. \A i \in Nat, x \in Int : Body(i, x) \in Int
  OBVIOUS
<1>3. Step \in [Nat \X Int -> Int] /\ \A i \in Nat, x \in Int : Step[<<i, x>>] = Body(i, x)
  <2> HIDE DEF Body
  <2> QED
    BY <1>2
<1>14. x0 \in V /\ Step \in [Nat \X V -> V]
  BY <1>3
<1> HIDE DEF Step, V, x0
<1>4. PICK F \in [Nat -> V] : Loop(F, x0, Step)
  BY <1>14, LoopExists
<1>5. \A i \in Nat : F[i] = IF i \notin DOMAIN counts THEN 0 ELSE F[i - 1] + counts[i]
  <2> SUFFICES ASSUME NEW i \in Nat
               PROVE F[i] = IF i \notin DOMAIN counts THEN 0 ELSE F[i - 1] + counts[i]
    OBVIOUS
  <2>1. F[i] = Step[<<i, Before(F, i)>>]
    BY <1>4 DEF Loop
  <2>2. Before(F, i) \in Int
    BY <1>4 DEF V, x0
  <2>3. F[i] = Body(i, Before(F, i))
    <3> HIDE DEF Before, Body
    <3> QED
      BY <1>3, <2>1, <2>2
  <2>4. i \in DOMAIN counts => i # 0
    OBVIOUS
  <2> QED
    BY <2>3, <2>4
<1>6. F = [k \in Nat |-> IF k \notin DOMAIN counts THEN 0 ELSE F[k - 1] + counts[k]]
  BY <1>5
<1>7. f = [k \in Nat |-> IF k \notin DOMAIN counts THEN 0 ELSE f[k - 1] + counts[k]]
  BY <1>6
<1> HIDE DEF f
<1>8. \A k \in Nat : f[k] = IF k \notin DOMAIN counts THEN 0 ELSE f[k - 1] + counts[k]
  BY <1>7
<1>9. DOMAIN counts = 1 .. Len(counts) /\ Len(counts) \in Nat /\ \A i \in DOMAIN counts : counts[i] \in Int
  OBVIOUS
<1>10. f[0] = 0 /\ \A n \in Nat : n < Len(counts) => f[n + 1] = f[n] + counts[n + 1]
  BY <1>8, <1>9
<1> DEFINE S == {n \in Nat : f[n] \in Int}
<1>11. 0 \in S
  BY <1>10
<1>12. \A n \in Nat : n \in S => n + 1 \in S
  <2> SUFFICES ASSUME NEW n \in Nat, f[n] \in Int PROVE f[n + 1] \in Int
    OBVIOUS
  <2>1. f[n + 1] = IF n + 1 \notin DOMAIN counts THEN 0 ELSE f[(n + 1) - 1] + counts[n + 1]
    BY <1>8
  <2> QED
    BY <1>9, <2>1
<1>13. \A n \in Nat : n \in S
  <2> HIDE DEF S
  <2> QED
    BY <1>11, <1>12, Induction
<1> QED
  BY <1>1, <1>10, <1>13

\* The states of the count of the bins.
BinsStates == [status : {"walking", "done"}, next : Nat \ {0}, total : Int, bins : Nat]

\* The bins that are not empty among the first n.
Filled(n) == {i \in 1 .. n : job.counts[i] > 0}

\* The bins before the next one are valid and have been added up.
BinsInv ==
    /\ job.cmd = "bins" /\ job.counts \in Seq(Int) /\ st \in BinsStates
    /\ st.next - 1 <= Len(job.counts)
    /\ \A i \in 1 .. st.next - 1 : job.counts[i] >= 0
    /\ st.total = Total(job.counts, st.next - 1)
    /\ st.bins = Cardinality(Filled(st.next - 1))
    /\ st.status = "done" => (st.next <= Len(job.counts) => job.counts[st.next] < 0)

\* The bins are counted up to the first whose walk failed.
LEMMA BinsOK ==
    /\ BinsInit => BinsInv
    /\ BinsInv /\ [HeapNext]_vars => BinsInv'
    /\ BinsInv => HeapShown
<1>1. ASSUME BinsInit PROVE BinsInv
  <2>1. PICK counts \in [1 .. 3 -> -1 .. 2] :
            /\ job = [cmd |-> "bins", counts |-> counts]
            /\ st = [status |-> "walking", next |-> 1, total |-> 0, bins |-> 0]
    BY <1>1 DEF BinsInit
  <2>2. counts \in [1 .. 3 -> Int]
    OBVIOUS
  <2>3. counts \in Seq(Int)
    <3>1. \A k \in Nat : \A s \in [1 .. k -> Int] : s \in Seq(Int)
      OBVIOUS
    <3> QED
      BY <2>2, <3>1
  <2>4. job.cmd = "bins" /\ job.counts = counts /\ st \in BinsStates /\ st.next = 1
        /\ st.total = 0 /\ st.bins = 0 /\ st.status = "walking"
    BY <2>1 DEF BinsStates
  <2>5. Filled(0) = {} /\ Cardinality({}) = 0
    BY FS_EmptySet DEF Filled
  <2>6. Total(counts, 0) = 0 /\ Len(counts) \in Nat
    BY <2>3, TotalLemma
  <2>7. st.next - 1 = 0
    BY <2>4
  <2>8. \A i \in 1 .. st.next - 1 : job.counts[i] >= 0
    BY <2>7
  <2>9. st.total = Total(job.counts, st.next - 1)
    BY <2>4, <2>6, <2>7
  <2>10. st.bins = Cardinality(Filled(st.next - 1))
    BY <2>4, <2>5, <2>7
  <2>11. st.next - 1 <= Len(job.counts)
    BY <2>4, <2>6, <2>7
  <2>12. job.counts \in Seq(Int)
    BY <2>3, <2>4
  <2> QED
    BY <2>4, <2>8, <2>9, <2>10, <2>11, <2>12 DEF BinsInv
<1>2. ASSUME BinsInv, [HeapNext]_vars PROVE BinsInv'
  <2>1. CASE UNCHANGED vars
    BY <1>2, <2>1 DEF BinsInv, Filled, vars
  <2>2. CASE BinsStep
    <3> DEFINE n == st.next
               count == job.counts[n]
    <3>1. /\ job' = job /\ job.cmd = "bins" /\ job.counts \in Seq(Int) /\ st \in BinsStates
          /\ n \in Nat \ {0} /\ st.total \in Int /\ st.bins \in Nat /\ st.status = "walking"
          /\ n - 1 <= Len(job.counts) /\ \A i \in 1 .. n - 1 : job.counts[i] >= 0
          /\ st.total = Total(job.counts, n - 1) /\ st.bins = Cardinality(Filled(n - 1))
      BY <1>2, <2>2 DEF BinsInv, BinsStates, BinsStep, Walking
    <3>2. st' = IF n > Len(job.counts) \/ count < 0 THEN [st EXCEPT !.status = "done"]
                ELSE [st EXCEPT !.next = n + 1, !.total = st.total + count,
                                !.bins = IF count > 0 THEN st.bins + 1 ELSE st.bins]
      BY <2>2 DEF BinsStep
    <3>3. \A k : Filled(k)' = Filled(k)
      BY <3>1 DEF Filled
    <3>4. CASE n > Len(job.counts) \/ count < 0
      <4>1. /\ st' \in BinsStates /\ st'.next = n /\ st'.total = st.total /\ st'.bins = st.bins
            /\ st'.status = "done"
        BY <3>1, <3>2, <3>4 DEF BinsStates
      <4>2. n <= Len(job.counts) => count < 0
        BY <3>1, <3>4
      <4> QED
        BY <3>1, <3>3, <4>1, <4>2 DEF BinsInv
    <3>5. CASE n <= Len(job.counts) /\ ~(count < 0)
      <4> DEFINE total == st.total + count
                 bins == IF count > 0 THEN st.bins + 1 ELSE st.bins
      <4>1. n \in DOMAIN job.counts /\ count \in Int /\ count >= 0 /\ Len(job.counts) \in Nat
        BY <3>1, <3>5
      <4>2. st' = [st EXCEPT !.next = n + 1, !.total = total, !.bins = bins]
        BY <3>1, <3>2, <3>5, <4>1
      <4> HIDE DEF n, count
      <4>3. total \in Int /\ bins \in Nat /\ n + 1 \in Nat \ {0}
        BY <3>1, <4>1
      <4>4. total = Total(job.counts, n)
        <5>1. n - 1 \in Nat /\ n - 1 < Len(job.counts) /\ (n - 1) + 1 = n
          BY <3>1, <3>5, <4>1
        <5>2. Total(job.counts, (n - 1) + 1) = Total(job.counts, n - 1) + job.counts[(n - 1) + 1]
          BY <3>1, <5>1, TotalLemma
        <5> QED
          BY <3>1, <5>1, <5>2 DEF count
      <4>5. bins = Cardinality(Filled(n))
        <5>1. IsFiniteSet(Filled(n - 1))
          <6>0. n - 1 \in Int /\ 1 \in Int
            BY <3>1
          <6>1. IsFiniteSet(1 .. n - 1)
            BY <6>0, FS_Interval
          <6> QED
            BY <6>1, FS_Subset DEF Filled
        <5>2. n \notin Filled(n - 1)
          BY <3>1 DEF Filled
        <5>3. CASE count > 0
          <6>1. Filled(n) = Filled(n - 1) \cup {n}
            BY <3>1, <5>3 DEF Filled, count
          <6>2. Cardinality(Filled(n - 1) \cup {n}) = Cardinality(Filled(n - 1)) + 1
            BY <5>1, <5>2, FS_AddElement
          <6> QED
            BY <3>1, <5>3, <6>1, <6>2
        <5>4. CASE ~(count > 0)
          <6>1. Filled(n) = Filled(n - 1)
            BY <3>1, <5>4 DEF Filled, count
          <6> QED
            BY <3>1, <5>4, <6>1
        <5> QED
          BY <5>3, <5>4
      <4> HIDE DEF total, bins
      <4>6. /\ st' \in BinsStates /\ st'.next = n + 1 /\ st'.total = total /\ st'.bins = bins
            /\ st'.status = "walking"
        BY <3>1, <4>2, <4>3 DEF BinsStates
      <4>7. \A i \in 1 .. n : job.counts[i] >= 0
        BY <3>1, <4>1 DEF count
      <4>8. (n + 1) - 1 = n
        BY <3>1
      <4> QED
        BY <3>1, <3>3, <3>5, <4>4, <4>5, <4>6, <4>7, <4>8 DEF BinsInv, n
    <3>7. n \in Int /\ Len(job.counts) \in Int
      BY <3>1
    <3> QED
      BY <3>4, <3>5, <3>7
  <2> QED
    BY <1>2, <2>1, <2>2 DEF HeapNext, BinsInv, NextList, NextChunk, ListsEnd, BinStart, BinChunk,
       ArenaIter, ArenaVerify, ChunkStep, Walking
<1>3. ASSUME BinsInv PROVE HeapShown
  <2>1. job.cmd = "bins"
    BY <1>3 DEF BinsInv
  <2> DEFINE n == st.next - 1
  <2>2. ASSUME st.status # "walking"
        PROVE  /\ n \in 0 .. Len(job.counts)
               /\ \A i \in 1 .. n : job.counts[i] >= 0
               /\ n < Len(job.counts) => job.counts[n + 1] < 0
               /\ st.total = Total(job.counts, n)
               /\ st.bins = Cardinality({i \in 1 .. n : job.counts[i] > 0})
    BY <1>3, <2>2 DEF BinsInv, BinsStates, Filled
  <2> HIDE DEF n
  <2> QED
    BY <2>1, <2>2 DEF HeapShown, ListsExact, RingsExact, ChunksExact, Ended
<1> QED
  BY <1>1, <1>2, <1>3

-----------------------------------------------------------------------------
(* heap chunks *)

\* `heap chunks'.
ChunksJob ==
    /\ job.cmd = "chunks" /\ job.size \in [0 .. HeapSize - 1 -> 0 .. MaxChunk]
    /\ job.top \in 0 .. HeapSize - 1 /\ job.main \in BOOLEAN /\ job.summary \in BOOLEAN
    /\ job.min \in {0, 2} /\ job.count \in {-1, 1}
    /\ job.mainTop = IF job.main THEN job.top ELSE NoTop
    /\ job.end = IF job.main THEN job.top + job.size[job.top] ELSE HeapSize

\* The states of the walk over the heap.
ChunkStates ==
    [status : {"walking", "done", "corrupted", "raised"}, pos : 0 .. HeapSize - 1,
     listed : SUBSET (0 .. HeapSize - 1), left : Int]

\* The heap is intact, and the walk is one that stops at the top chunk.
Intact == job.top \in TrueChunks /\ (job.main \/ ~job.summary)

\* The chunks below p that are to be listed.
ShownBelow(p) == {c \in TrueChunks : c < p /\ ShouldProcess(job.size[c])}

\* The walk is at a chunk, none before it reaches beyond it, and those before it are listed.
ChunksInv ==
    /\ ChunksJob /\ st \in ChunkStates
    /\ (st.status = "walking" /\ Intact) =>
        /\ st.pos \in TrueChunks
        /\ \A d \in TrueChunks : d < st.pos => d + job.size[d] <= st.pos
        /\ st.listed = ShownBelow(st.pos)
        /\ st.left = job.count - Cardinality(st.listed)
        /\ job.count = -1 \/ st.left >= 0
    /\ ChunksExact

\* The chunks of a heap are the least set that has the first and follows the sizes.
LEMMA TrueChunksLemma ==
    ASSUME ChunksJob
    PROVE  /\ TrueChunks \subseteq 0 .. job.top /\ 0 \in TrueChunks
           /\ \A d \in TrueChunks : d \in Nat /\ job.size[d] \in Nat
           /\ \A d \in TrueChunks :
                d + job.size[d] <= job.top => d + job.size[d] \in TrueChunks
           /\ \A S \in SUBSET (0 .. job.top) :
                (0 \in S /\ \A d \in S : d + job.size[d] <= job.top => d + job.size[d] \in S)
                    => TrueChunks \subseteq S
<1>1. job.top \in Nat /\ job.top \in 0 .. HeapSize - 1 /\ HeapSize \in Nat /\ MaxChunk \in Nat
  BY HeapBounds DEF ChunksJob
<1>2. TrueChunks \subseteq 0 .. job.top
  BY DEF TrueChunks
<1>3. 0 \in TrueChunks
  BY <1>1 DEF TrueChunks
<1>4. \A d \in 0 .. job.top : d \in Nat /\ job.size[d] \in Nat
  BY <1>1 DEF ChunksJob
<1>5. ASSUME NEW d \in TrueChunks, d + job.size[d] <= job.top
      PROVE  d + job.size[d] \in TrueChunks
  <2>1. d \in 0 .. job.top /\ d \in Nat /\ job.size[d] \in Nat
    BY <1>2, <1>4
  <2>2. d + job.size[d] \in 0 .. job.top
    BY <1>1, <1>5, <2>1
  <2> QED
    BY <1>5, <2>2 DEF TrueChunks
<1>6. ASSUME NEW S \in SUBSET (0 .. job.top), 0 \in S,
             \A d \in S : d + job.size[d] <= job.top => d + job.size[d] \in S
      PROVE  TrueChunks \subseteq S
  BY <1>6 DEF TrueChunks
<1> QED
  BY <1>2, <1>3, <1>4, <1>5, <1>6

\* From a chunk that is not the top the next one is ahead, at the top at most,
\* and nothing lies in between.
LEMMA ChunkAdvance ==
    ASSUME ChunksJob, job.top \in TrueChunks, NEW p \in TrueChunks, p # job.top,
           \A d \in TrueChunks : d < p => d + job.size[d] <= p
    PROVE  /\ job.size[p] # 0 /\ p + job.size[p] \in TrueChunks
           /\ \A d \in TrueChunks : d < p + job.size[p] => d <= p
           /\ \A d \in TrueChunks : d < p + job.size[p] => d + job.size[d] <= p + job.size[p]
<1> DEFINE n == p + job.size[p]
           S == {c \in TrueChunks : c <= p}
           T == {c \in TrueChunks : c <= p \/ c >= n}
<1>1. /\ job.top \in Nat /\ p \in 0 .. job.top /\ p \in Nat /\ job.size[p] \in Nat /\ 0 \in TrueChunks
      /\ \A d \in TrueChunks : d \in 0 .. job.top /\ d \in Nat /\ job.size[d] \in Nat
  BY TrueChunksLemma DEF ChunksJob
<1>2. n \in Nat /\ n >= p
  BY <1>1
<1>3. S \in SUBSET (0 .. job.top) /\ 0 \in S /\ T \in SUBSET (0 .. job.top) /\ 0 \in T
  <2>1. \A c \in TrueChunks : c \in 0 .. job.top
    BY <1>1
  <2>2. 0 <= p
    BY <1>1
  <2>3. 0 \in S /\ 0 \in T
    BY <1>1, <2>2
  <2> HIDE DEF n
  <2> QED
    BY <2>1, <2>3
<1>4. n <= job.top /\ n # p
  <2> SUFFICES ASSUME ~(n <= job.top) \/ n = p PROVE FALSE
    OBVIOUS
  <2>1. ASSUME NEW d \in S, d + job.size[d] <= job.top PROVE d + job.size[d] \in S
    <3>1. d + job.size[d] \in TrueChunks
      BY <2>1, TrueChunksLemma
    <3>2. CASE d < p
      BY <2>1, <3>1, <3>2
    <3>3. CASE d = p
      BY <1>1, <2>1, <3>1, <3>3
    <3> QED
      BY <1>1, <3>2, <3>3
  <2>2. TrueChunks \subseteq S
    BY <1>3, <2>1, TrueChunksLemma
  <2> QED
    BY <1>1, <2>2
<1>5. n \in TrueChunks /\ job.size[p] # 0
  BY <1>1, <1>4, TrueChunksLemma
<1>6. TrueChunks \subseteq T
  <2>1. ASSUME NEW d \in T, d + job.size[d] <= job.top PROVE d + job.size[d] \in T
    <3>1. d + job.size[d] \in TrueChunks /\ d \in Nat /\ job.size[d] \in Nat
      BY <1>1, <2>1, TrueChunksLemma
    <3>2. CASE d < p
      BY <2>1, <3>1, <3>2
    <3>3. CASE d = p
      BY <1>1, <1>2, <3>1, <3>3
    <3>4. CASE d >= n
      BY <1>2, <3>1, <3>4
    <3> QED
      BY <1>1, <2>1, <3>1, <3>2, <3>3, <3>4
  <2> QED
    BY <1>3, <2>1, TrueChunksLemma
<1>7. \A d \in TrueChunks : d < n => d <= p
  <2> SUFFICES ASSUME NEW d \in TrueChunks, d < n PROVE d <= p
    OBVIOUS
  <2>1. d \in T
    BY <1>6
  <2> QED
    BY <1>1, <1>2, <2>1
<1>8. \A d \in TrueChunks : d < n => d + job.size[d] <= n
  <2> SUFFICES ASSUME NEW d \in TrueChunks, d < n PROVE d + job.size[d] <= n
    OBVIOUS
  <2>1. d = p \/ d < p
    BY <1>1, <1>7
  <2>2. CASE d = p
    BY <1>2, <2>2
  <2>3. CASE d < p
    <3>1. d + job.size[d] <= p /\ d \in Nat /\ job.size[d] \in Nat
      BY <1>1, <2>3
    <3> QED
      BY <1>1, <1>2, <3>1
  <2> QED
    BY <2>1, <2>2, <2>3
<1> QED
  BY <1>5, <1>7, <1>8

\* Processing a chunk adds it to those below, and their number grows by one.
LEMMA ShownGrows ==
    ASSUME ChunksJob, NEW p \in TrueChunks
    PROVE  /\ IsFiniteSet(ShownBelow(p)) /\ Cardinality(ShownBelow(p)) \in Nat
           /\ p \notin ShownBelow(p)
           /\ IsFiniteSet(ShownBelow(p) \cup {p})
           /\ Cardinality(ShownBelow(p) \cup {p}) = Cardinality(ShownBelow(p)) + 1
<1>1. job.top \in Int /\ p \in Nat /\ TrueChunks \subseteq 0 .. job.top
  BY TrueChunksLemma DEF ChunksJob
<1>2. IsFiniteSet(0 .. job.top)
  BY <1>1, FS_Interval
<1>3. ShownBelow(p) \in SUBSET (0 .. job.top)
  BY <1>1 DEF ShownBelow
<1>4. IsFiniteSet(ShownBelow(p))
  BY <1>2, <1>3, FS_Subset
<1>5. p \notin ShownBelow(p)
  BY <1>1 DEF ShownBelow
<1> QED
  BY <1>4, <1>5, FS_CardinalityType, FS_AddElement

\* The walk over the heap starts at its base.
LEMMA ChunksInitOK == ChunksInit => ChunksInv
<1> SUFFICES ASSUME ChunksInit PROVE ChunksInv
  OBVIOUS
<1>1. PICK size \in [0 .. HeapSize - 1 -> 0 .. MaxChunk], top \in 0 .. HeapSize - 1,
           main, summary \in BOOLEAN, min \in {0, 2}, count \in {-1, 1} :
        /\ job = [cmd |-> "chunks", size |-> size, top |-> top, main |-> main,
                  mainTop |-> IF main THEN top ELSE NoTop,
                  end |-> IF main THEN top + size[top] ELSE HeapSize,
                  summary |-> summary, min |-> min, count |-> count]
        /\ st = [status |-> "walking", pos |-> 0, listed |-> {}, left |-> count]
  BY Zenon DEF ChunksInit
<1>2. ChunksJob
  BY <1>1 DEF ChunksJob
<1>3. 0 \in 0 .. HeapSize - 1
  BY HeapBounds
<1>4. /\ st \in ChunkStates /\ st.status = "walking" /\ st.pos = 0 /\ st.listed = {}
      /\ st.left = job.count /\ job.count \in {-1, 1}
  BY <1>1, <1>3 DEF ChunkStates
<1>5. 0 \in TrueChunks /\ \A d \in TrueChunks : ~(d < 0)
  BY <1>2, TrueChunksLemma
<1>6. ShownBelow(0) = {}
  BY <1>5 DEF ShownBelow
<1>7. Cardinality({}) = 0
  BY FS_EmptySet
<1>8. ChunksExact
  BY <1>4 DEF ChunksExact, Ended
<1> QED
  BY <1>2, <1>4, <1>5, <1>6, <1>7, <1>8 DEF ChunksInv

\* The list is complete when the walk ends with all chunks below the top listed, and the top.
LEMMA AllShown ==
    ASSUME ChunksJob
    PROVE  {c \in TrueChunks : ShouldProcess(job.size[c])} =
                IF job.top \in TrueChunks /\ ShouldProcess(job.size[job.top])
                THEN ShownBelow(job.top) \cup {job.top} ELSE ShownBelow(job.top)
<1>1. job.top \in Nat /\ \A c \in TrueChunks : c \in Nat /\ c <= job.top
  BY TrueChunksLemma DEF ChunksJob
<1>2. \A c \in TrueChunks : c = job.top \/ c < job.top
  BY <1>1
<1> HIDE DEF ShouldProcess
<1> QED
  BY <1>1, <1>2 DEF ShownBelow

\* One iteration of the loop ends it or goes on to the next chunk.
LEMMA ChunkStepOK == ChunksInv /\ ChunkStep => ChunksInv'
<1> SUFFICES ASSUME ChunksInv, ChunkStep PROVE ChunksInv'
  OBVIOUS
<1> DEFINE p == st.pos
           size == job.size[p]
           process == ShouldProcess(size)
           with == st.listed \cup {p}
           listed == IF process THEN with ELSE st.listed
           left == IF process THEN st.left - 1 ELSE st.left
           All == {c \in TrueChunks : ShouldProcess(job.size[c])}
<1>1. /\ job' = job /\ ChunksJob /\ st \in ChunkStates /\ st.status = "walking"
      /\ p \in 0 .. HeapSize - 1 /\ st.left \in Int /\ st.listed \in SUBSET (0 .. HeapSize - 1)
      /\ job.summary \in BOOLEAN /\ job.main \in BOOLEAN
  BY DEF ChunksInv, ChunkStep, Walking, ChunksJob, ChunkStates
<1>2. /\ HeapSize \in Nat /\ MaxChunk \in Nat /\ p \in Nat /\ size \in Nat
      /\ DOMAIN job.size = 0 .. HeapSize - 1
      /\ job.top \in 0 .. HeapSize - 1 /\ job.top \in Nat /\ job.size[job.top] \in Nat
      /\ job.count \in {-1, 1}
      /\ listed \in SUBSET (0 .. HeapSize - 1) /\ with \in SUBSET (0 .. HeapSize - 1)
      /\ left \in Int
  <2>1. HeapSize \in Nat /\ MaxChunk \in Nat
    BY HeapBounds
  <2>2. job.size[p] \in 0 .. MaxChunk /\ job.size[job.top] \in 0 .. MaxChunk
    BY <1>1 DEF ChunksJob
  <2>3. /\ DOMAIN job.size = 0 .. HeapSize - 1 /\ job.top \in 0 .. HeapSize - 1
        /\ job.count \in {-1, 1}
    BY <1>1 DEF ChunksJob
  <2>4. /\ p \in Nat /\ size \in Nat /\ job.top \in Nat /\ job.size[job.top] \in Nat
    BY <1>1, <2>1, <2>2, <2>3
  <2>5. with \in SUBSET (0 .. HeapSize - 1)
    BY <1>1
  <2>6. listed \in SUBSET (0 .. HeapSize - 1)
    BY <1>1, <2>5
  <2>7. left \in Int
    BY <1>1
  <2>. QED
    BY <2>1, <2>3, <2>4, <2>5, <2>6, <2>7
<1>3. /\ ChunksJob' /\ Intact' = Intact /\ TrueChunks' = TrueChunks
      /\ \A q : ShownBelow(q)' = ShownBelow(q)
      /\ \A c : ShouldProcess(c)' = ShouldProcess(c)
  BY <1>1 DEF ChunksJob, Intact, TrueChunks, ShownBelow, ShouldProcess
<1>4. ASSUME Intact
      PROVE  /\ p \in TrueChunks /\ job.top \in TrueChunks /\ p <= job.top
             /\ \A d \in TrueChunks : d < p => d + job.size[d] <= p
             /\ st.listed = ShownBelow(p)
             /\ st.left = job.count - Cardinality(st.listed)
             /\ job.count = -1 \/ st.left >= 0
             /\ Cardinality(st.listed) \in Nat
             /\ Cardinality(with) = Cardinality(st.listed) + 1
             /\ job.main \/ ~job.summary
             /\ p <= job.end
  <2>1. /\ p \in TrueChunks /\ job.top \in TrueChunks
        /\ \A d \in TrueChunks : d < p => d + job.size[d] <= p
        /\ st.listed = ShownBelow(p)
        /\ st.left = job.count - Cardinality(st.listed)
        /\ job.count = -1 \/ st.left >= 0
        /\ job.main \/ ~job.summary
    BY <1>1, <1>4 DEF ChunksInv, Intact
  <2>2. p <= job.top
    BY <1>1, <2>1, TrueChunksLemma
  <2>3. Cardinality(st.listed) \in Nat /\ Cardinality(with) = Cardinality(st.listed) + 1
    BY <1>1, <2>1, ShownGrows
  <2>4. p <= job.end
    BY <1>1, <1>2, <2>2 DEF ChunksJob
  <2> QED
    BY <2>1, <2>2, <2>3, <2>4
\* An end that shows the list as it should be.
<1>5. ASSUME st' \in ChunkStates, st'.status # "walking",
             Intact => /\ st'.status = "done" /\ st'.listed \subseteq All
                       /\ \A c \in st'.listed, d \in All : d < c => d \in st'.listed
                       /\ job.count = -1 => st'.listed = All
                       /\ (job.count >= 0 /\ Cardinality(All) > job.count) =>
                            Cardinality(st'.listed) \in {job.count, job.count + 1}
      PROVE  ChunksInv'
  <2>1. ChunksExact'
    BY <1>1, <1>3, <1>5 DEF ChunksExact, Intact, Ended
  <2> QED
    BY <1>3, <1>5, <2>1 DEF ChunksInv
<1>6. \A c \in All : c \in Nat
  BY <1>1, TrueChunksLemma
<1>7. All = IF job.top \in TrueChunks /\ ShouldProcess(job.size[job.top])
            THEN ShownBelow(job.top) \cup {job.top} ELSE ShownBelow(job.top)
  BY <1>1, AllShown
\* An end at the top chunk.
<1>8. ASSUME st' \in ChunkStates, st'.status = "done", st'.listed = listed, p = job.top
      PROVE  ChunksInv'
  <2>1. ASSUME Intact PROVE listed = All
    BY <1>4, <1>7, <1>8, <2>1
  <2>2. ASSUME Intact, job.count >= 0, Cardinality(All) > job.count
        PROVE  Cardinality(listed) \in {job.count, job.count + 1}
    <3>1. Cardinality(listed) \in {Cardinality(st.listed), Cardinality(st.listed) + 1}
      BY <1>4, <2>2
    <3>2. Cardinality(st.listed) <= job.count /\ job.count \in Int /\ Cardinality(st.listed) \in Nat
      BY <1>2, <1>4, <2>2
    <3>3. Cardinality(listed) > job.count
      BY <2>1, <2>2
    <3> HIDE DEF listed
    <3> QED
      BY <3>1, <3>2, <3>3
  <2> HIDE DEF listed, All
  <2> QED
    BY <1>5, <1>8, <2>1, <2>2
<1> DEFINE body == IF process THEN [st EXCEPT !.listed = with, !.left = st.left - 1] ELSE st
           top == IF process THEN [st EXCEPT !.listed = with] ELSE st
           atTop == ~job.summary /\ p = job.top
           full == process /\ st.left = 0
<1>9. st' = CASE atTop -> [top EXCEPT !.status = "done"]
              [] ~atTop /\ p > job.end -> [st EXCEPT !.status = "corrupted"]
              [] ~atTop /\ p <= job.end /\ full -> [st EXCEPT !.status = "done"]
              [] OTHER -> IF p = job.mainTop \/ size = 0 THEN [body EXCEPT !.status = "done"]
                          ELSE IF p + size \notin 0 .. HeapSize - 1 THEN [body EXCEPT !.status = "raised"]
                          ELSE [body EXCEPT !.pos = p + size]
  <2>1. /\ ~atTop <=> (job.summary \/ p # job.top)
        /\ (~atTop /\ p <= job.end /\ full) <=>
                ((job.summary \/ p # job.top) /\ p <= job.end /\ process /\ st.left = 0)
    BY <1>1
  <2> QED
    BY <1>2, <2>1 DEF ChunkStep
<1>10. /\ body \in ChunkStates /\ body.listed = listed /\ body.left = left /\ body.pos = p
       /\ body.status = "walking"
       /\ top \in ChunkStates /\ top.listed = listed
  BY <1>1, <1>2 DEF ChunkStates
<1> HIDE DEF body, top, listed, left, with, All, process
<1>11. CASE atTop
  <2>1. st' = [top EXCEPT !.status = "done"]
    BY <1>9, <1>11
  <2>2. st' \in ChunkStates /\ st'.status = "done" /\ st'.listed = listed
    BY <1>10, <2>1 DEF ChunkStates
  <2> QED
    BY <1>8, <1>11, <2>2
<1>12. CASE ~atTop /\ p > job.end
  <2>1. st' = [st EXCEPT !.status = "corrupted"]
    <3>1. ~(p <= job.end)
      <4>1. job.end \in Int /\ p \in Int
        BY <1>1, <1>2 DEF ChunksJob
      <4> QED
        BY <1>12, <4>1
    <3> QED
      BY <1>9, <1>12, <3>1
  <2>2. st' \in ChunkStates /\ st'.status = "corrupted"
    BY <1>1, <2>1 DEF ChunkStates
  <2>3. job.end \in Int
    BY <1>1, <1>2 DEF ChunksJob
  <2>4. ~Intact
    BY <1>2, <1>4, <1>12, <2>3
  <2> QED
    BY <1>5, <2>2, <2>4
<1>13. CASE ~atTop /\ p <= job.end /\ full
  <2>1. st' = [st EXCEPT !.status = "done"]
    <3>1. ~(p > job.end)
      <4>1. job.end \in Int /\ p \in Int
        BY <1>1, <1>2 DEF ChunksJob
      <4> QED
        BY <1>13, <4>1
    <3> QED
      BY <1>9, <1>13, <3>1
  <2>2. st' \in ChunkStates /\ st'.status = "done" /\ st'.listed = st.listed
    BY <1>1, <2>1 DEF ChunkStates
  <2>3. ASSUME Intact
        PROVE  /\ job.count # -1 /\ Cardinality(st.listed) = job.count
               /\ st.listed \subseteq All
               /\ \A c \in st.listed, d \in All : d < c => d \in st.listed
    <3>1. job.count # -1 /\ Cardinality(st.listed) = job.count
      BY <1>2, <1>4, <1>13, <2>3
    <3>2. st.listed = ShownBelow(p)
      BY <1>4, <2>3
    <3>3. st.listed \subseteq All
      BY <3>2 DEF ShownBelow, All
    <3>4. ASSUME NEW c \in st.listed, NEW d \in All, d < c PROVE d \in st.listed
      <4>1. c \in Nat /\ d \in Nat /\ c < p /\ p \in Nat
        BY <1>2, <1>6, <3>2, <3>3 DEF ShownBelow
      <4>2. d < p
        BY <3>4, <4>1
      <4> QED
        BY <3>2, <4>2 DEF ShownBelow, All
    <3> QED
      BY <3>1, <3>3, <3>4
  <2> QED
    BY <1>5, <2>2, <2>3
<1>14. CASE ~atTop /\ p <= job.end /\ ~full
  <2>1. st' = IF p = job.mainTop \/ size = 0 THEN [body EXCEPT !.status = "done"]
              ELSE IF p + size \notin 0 .. HeapSize - 1 THEN [body EXCEPT !.status = "raised"]
              ELSE [body EXCEPT !.pos = p + size]
    <3>1. ~(p > job.end)
      <4>1. job.end \in Int /\ p \in Int
        BY <1>1, <1>2 DEF ChunksJob
      <4> QED
        BY <1>14, <4>1
    <3> QED
      BY <1>9, <1>14, <3>1
  <2>2. ASSUME Intact, p # job.top
        PROVE  /\ size # 0 /\ p + size \in TrueChunks
               /\ \A d \in TrueChunks : d < p + size => d <= p
               /\ \A d \in TrueChunks : d < p + size => d + job.size[d] <= p + size
    BY <1>1, <1>4, <2>2, ChunkAdvance
  <2>3. ASSUME Intact PROVE p = job.mainTop <=> p = job.top
    <3>1. NoTop > HeapSize
      BY <1>2 DEF NoTop
    <3>2. p = job.top => job.main
      BY <1>1, <1>4, <1>14, <2>3
    <3> QED
      BY <1>1, <1>2, <3>1, <3>2 DEF ChunksJob
  <2>4. CASE p = job.mainTop \/ size = 0
    <3>1. st' = [body EXCEPT !.status = "done"]
      BY <2>1, <2>4
    <3>2. st' \in ChunkStates /\ st'.status = "done" /\ st'.listed = listed
      BY <1>10, <3>1 DEF ChunkStates
    <3>3. Intact => p = job.top
      BY <2>2, <2>3, <2>4
    <3>4. CASE Intact
      BY <1>8, <3>2, <3>3, <3>4
    <3>5. CASE ~Intact
      BY <1>5, <3>2, <3>5
    <3> QED
      BY <3>4, <3>5
  <2>5. CASE ~(p = job.mainTop \/ size = 0) /\ p + size \notin 0 .. HeapSize - 1
    <3>1. st' = [body EXCEPT !.status = "raised"]
      BY <2>1, <2>5
    <3>2. st' \in ChunkStates /\ st'.status = "raised"
      BY <1>10, <3>1 DEF ChunkStates
    <3>3. ~Intact
      <4> SUFFICES ASSUME Intact PROVE FALSE
        OBVIOUS
      <4>1. p + size \in TrueChunks
        BY <2>2, <2>3, <2>5
      <4> QED
        BY <1>1, <1>2, <2>5, <4>1, TrueChunksLemma
    <3> QED
      BY <1>5, <3>2, <3>3
  <2>6. CASE ~(p = job.mainTop \/ size = 0) /\ p + size \in 0 .. HeapSize - 1
    <3>1. st' = [body EXCEPT !.pos = p + size]
      BY <2>1, <2>6
    <3>2. /\ st' \in ChunkStates /\ st'.status = "walking" /\ st'.listed = listed
          /\ st'.pos = p + size /\ st'.left = left
      <4> DEFINE n == p + size
      <4>1. n \in 0 .. HeapSize - 1 /\ st' = [body EXCEPT !.pos = n]
        BY <2>6, <3>1
      <4> HIDE DEF n
      <4>2. st' \in ChunkStates /\ st'.status = "walking" /\ st'.listed = listed
            /\ st'.pos = n /\ st'.left = left
        BY <1>10, <4>1 DEF ChunkStates
      <4> QED
        BY <4>2 DEF n
    <3>3. ASSUME Intact
          PROVE  /\ p + size \in TrueChunks
                 /\ \A d \in TrueChunks : d < p + size => d + job.size[d] <= p + size
                 /\ listed = ShownBelow(p + size)
                 /\ left = job.count - Cardinality(listed)
                 /\ job.count = -1 \/ left >= 0
      <4>1. p # job.top
        BY <2>3, <2>6, <3>3
      <4>2. \A d \in TrueChunks : d \in Nat /\ (d < p + size <=> d = p \/ d < p)
        <5>1. \A d \in TrueChunks : d \in Nat
          BY <1>1, TrueChunksLemma
        <5> QED
          BY <1>2, <2>2, <3>3, <4>1, <5>1
      <4>3. listed = ShownBelow(p + size)
        BY <1>4, <3>3, <4>2 DEF listed, with, process, ShownBelow
      <4>4. /\ left = job.count - Cardinality(listed)
            /\ job.count = -1 \/ left >= 0
        <5>1. CASE process
          BY <1>2, <1>1, <1>4, <1>14, <3>3, <5>1 DEF listed, left
        <5>2. CASE ~process
          BY <1>4, <3>3, <5>2 DEF listed, left
        <5> QED
          BY <5>1, <5>2
      <4> QED
        BY <2>2, <3>3, <4>1, <4>3, <4>4
    <3>4. ChunksExact'
      BY <3>2 DEF ChunksExact, Ended
    <3> HIDE DEF size, p
    <3> QED
      BY <1>1, <1>3, <3>2, <3>3, <3>4 DEF ChunksInv
  <2> QED
    BY <2>4, <2>5, <2>6
<1> QED
  <2>1. job.end \in Int /\ p \in Int
    BY <1>1, <1>2 DEF ChunksJob
  <2>2. p > job.end \/ p <= job.end
    BY <2>1
  <2> QED
    BY <1>11, <1>12, <1>13, <1>14, <2>2

\* What the walk over the chunks ends with.
LEMMA ChunksOK ==
    /\ ChunksInv /\ [HeapNext]_vars => ChunksInv'
    /\ ChunksInv => HeapShown
<1>1. ASSUME ChunksInv, [HeapNext]_vars PROVE ChunksInv'
  <2>1. CASE UNCHANGED vars
    <3>1. job' = job /\ st' = st
      BY <2>1 DEF vars
    <3>2. /\ ChunksJob' = ChunksJob /\ Intact' = Intact /\ TrueChunks' = TrueChunks
          /\ \A q : ShownBelow(q)' = ShownBelow(q)
          /\ ChunksExact' = ChunksExact
      BY <3>1 DEF ChunksJob, Intact, TrueChunks, ShownBelow, ShouldProcess, ChunksExact, Ended
    <3> QED
      BY <1>1, <3>1, <3>2 DEF ChunksInv
  <2>2. CASE ChunkStep
    BY <1>1, <2>2, ChunkStepOK
  <2> QED
    BY <1>1, <2>1, <2>2 DEF HeapNext, ChunksInv, ChunksJob, NextList, NextChunk, ListsEnd,
       BinStart, BinChunk, ArenaIter, ArenaVerify, BinsStep, Walking
<1>2. ASSUME ChunksInv PROVE HeapShown
  BY <1>2 DEF ChunksInv, ChunksJob, HeapShown, ListsExact, RingsExact
<1> QED
  BY <1>1, <1>2

\* The inductive invariant: the invariant of the command at work.
HeapInv == ListInv \/ BinInv \/ BinsInv \/ ArenasInv \/ ChunksInv

\* What a heap command has shown when it ends is what is there: every chunk of
\* each free list up to where the list really ends, however its pointers are
\* damaged, every arena of the ring, every chunk of an intact bin, the bins up to
\* the first that cannot be read, and every chunk of an intact heap.
THEOREM HeapIsShown == HeapSpec => []HeapShown
<1>1. HeapInit => HeapInv
  BY ListInitOK, BinInitOK, BinsOK, ArenasInitOK, ChunksInitOK DEF HeapInit, HeapInv
<1>2. HeapInv /\ [HeapNext]_vars => HeapInv'
  BY ListOK, BinOK, BinsOK, ArenasOK, ChunksOK DEF HeapInv
<1>3. HeapInv => HeapShown
  BY ListOK, BinOK, BinsOK, ArenasOK, ChunksOK DEF HeapInv
<1> QED
  BY <1>1, <1>2, <1>3, PTL DEF HeapSpec

-----------------------------------------------------------------------------
(* dereference and hexdump *)

\* How many words one window has.
Size == IF job.nb > 0 THEN job.nb ELSE -job.nb

\* The window that a call shows when it is the r-th repetition.
WindowAt(r) == IF job.kind = "dereference" THEN DerefWindow(job.nb, r) ELSE HexWindow(job.nb, r)

\* A `dereference' or `hexdump', called again and again.
WindowJob ==
    /\ job.cmd = "window" /\ job.nb \in {-2, -1, 1, 2} /\ job.down \in BOOLEAN
    /\ job.kind # "dereference" => job.nb > 0 /\ ~job.down
    /\ job.calls \in [1 .. MaxCalls -> {"typed", "enter", "script"}]

\* Word j of the r-th window.
Word(r, j) ==
    IF job.nb < 0
    THEN IF job.down THEN 1 - (r * Size + j) ELSE 1 - (r * Size + Size - j + 1)
    ELSE IF job.down THEN r * Size + Size - j ELSE r * Size + j - 1

\* The sign of the length asked for is the direction.
LEMMA SizeLemma ==
    ASSUME job.nb \in {-2, -1, 1, 2}
    PROVE  \/ job.nb > 0 /\ ~(job.nb < 0) /\ Size \in {1, 2} /\ job.nb = Size
           \/ ~(job.nb > 0) /\ job.nb < 0 /\ Size \in {1, 2} /\ job.nb = 0 - Size
<1>1. PICK x \in Int : x = job.nb
  OBVIOUS
<1>2. x \in {-2, -1, 1, 2}
  BY <1>1
<1>3. Size = IF x > 0 THEN x ELSE -x
  BY <1>1, Zenon DEF Size
<1>4. CASE x > 0
  <2>1. x \in {1, 2} /\ ~(x < 0)
    BY <1>2, <1>4
  <2>2. Size = x
    BY <1>3, <1>4
  <2> QED
    BY <1>1, <1>4, <2>1, <2>2
<1>5. CASE ~(x > 0)
  <2>1. 0 - x \in {1, 2} /\ x < 0 /\ -x = 0 - x /\ x = 0 - (0 - x)
    BY <1>2, <1>5
  <2>2. Size = 0 - x
    BY <1>3, <1>5, <2>1
  <2>3. job.nb < 0 /\ ~(job.nb > 0)
    BY <1>1, <1>5, <2>1, Zenon
  <2>4. job.nb = 0 - Size
    BY <1>1, <2>1, <2>2, Zenon
  <2>5. Size \in {1, 2}
    BY <2>1, <2>2, Zenon
  <2> QED
    BY <2>3, <2>4, <2>5
<1> QED
  BY <1>4, <1>5

\* What range() yields.
LEMMA RangeLemma ==
    ASSUME NEW a \in Int, NEW n \in Nat
    PROVE  /\ UpTo(a, a + n) = [i \in 1 .. n |-> a + i - 1]
           /\ DownTo(a, a - n) = [i \in 1 .. n |-> a - i + 1]
<1>1. n > 0 => a + n > a /\ a > a - n /\ (a + n) - a = n /\ a - (a - n) = n
  OBVIOUS
<1>2. n = 0 => ~(a + n > a) /\ ~(a > a - n)
  OBVIOUS
<1>3. (IF a + n > a THEN (a + n) - a ELSE 0) = n /\ (IF a > a - n THEN a - (a - n) ELSE 0) = n
  BY <1>1, <1>2
<1> QED
  BY <1>3, Zenon DEF UpTo, DownTo

\* The r-th window covers Size words, those behind the r * Size before it.
LEMMA WindowLemma ==
    ASSUME WindowJob, NEW r \in Nat
    PROVE  /\ Size \in Nat \ {0} /\ Size \in {1, 2}
           /\ \A j \in 1 .. Size : Word(r, j) \in Int
           /\ WindowAt(r) = [j \in 1 .. Size |-> Word(r, j)]
<1> DEFINE m == r * Size
<1>0. \/ job.nb > 0 /\ ~(job.nb < 0) /\ Size \in {1, 2} /\ job.nb = Size
      \/ ~(job.nb > 0) /\ job.nb < 0 /\ Size \in {1, 2} /\ job.nb = 0 - Size
  BY SizeLemma DEF WindowJob
<1>1. /\ Size \in {1, 2} /\ m \in Nat
      /\ job.nb > 0 => r * job.nb = m /\ job.nb * (r + 1) = m + Size
      /\ job.nb < 0 => r * job.nb = 0 - m /\ job.nb * (r + 1) = (0 - m) - Size
  <2>1. ASSUME NEW k \in {1, 2}
        PROVE  /\ r * k \in Nat /\ k * (r + 1) = r * k + k
               /\ r * (0 - k) = 0 - r * k /\ (0 - k) * (r + 1) = (0 - r * k) - k
    <3>1. CASE k = 1
      BY <3>1
    <3>2. CASE k = 2
      BY <3>2
    <3> QED
      BY <3>1, <3>2
  <2>2. Size \in {1, 2}
    BY <1>0
  <2> QED
    BY <1>0, <2>1, <2>2, Zenon
<1>2. CASE job.nb > 0 /\ job.down
  <2>1. WindowAt(r) = DownTo(job.nb * (r + 1) - 1, r * job.nb - 1)
    BY <1>2 DEF WindowAt, DerefWindow, WindowJob
  <2>2. WindowAt(r) = DownTo(m + Size - 1, (m + Size - 1) - Size)
    BY <1>1, <1>2, <2>1
  <2>a. (m + Size - 1) \in Int /\ Size \in Nat
    BY <1>1
  <2>b. DownTo((m + Size - 1), (m + Size - 1) - Size) = [i \in 1 .. Size |-> (m + Size - 1) - i + 1]
    <3> HIDE DEF m
    <3> QED
      BY <2>a, RangeLemma, Zenon
  <2>3. WindowAt(r) = [j \in 1 .. Size |-> (m + Size - 1) - j + 1]
    BY <2>2, <2>b, Zenon
  <2>4. \A j \in 1 .. Size : Word(r, j) = (m + Size - 1) - j + 1 /\ Word(r, j) \in Int
    BY <1>1, <1>2 DEF Word
  <2> QED
    BY <1>1, <2>3, <2>4
<1>3. CASE job.nb < 0 /\ job.down
  <2>1. WindowAt(r) = DownTo(r * job.nb, job.nb * (r + 1))
    BY <1>3, <1>1 DEF WindowAt, DerefWindow, WindowJob
  <2>2. WindowAt(r) = DownTo(0 - m, (0 - m) - Size)
    BY <1>1, <1>3, <2>1
  <2>a. 0 - m \in Int /\ Size \in Nat
    BY <1>1
  <2>b. DownTo(0 - m, (0 - m) - Size) = [i \in 1 .. Size |-> (0 - m) - i + 1]
    <3> HIDE DEF m
    <3> QED
      BY <2>a, RangeLemma, Zenon
  <2>3. WindowAt(r) = [j \in 1 .. Size |-> (0 - m) - j + 1]
    BY <2>2, <2>b, Zenon
  <2>4. \A j \in 1 .. Size : Word(r, j) = (0 - m) - j + 1 /\ Word(r, j) \in Int
    BY <1>1, <1>3 DEF Word
  <2> QED
    BY <1>1, <2>3, <2>4
<1>4. CASE job.nb < 0 /\ ~job.down
  <2>1. WindowAt(r) = UpTo(job.nb * (r + 1) + 1, r * job.nb + 1)
    BY <1>4, <1>1 DEF WindowAt, DerefWindow, WindowJob
  <2>2. WindowAt(r) = UpTo((0 - m) - Size + 1, ((0 - m) - Size + 1) + Size)
    BY <1>1, <1>4, <2>1
  <2>a. ((0 - m) - Size + 1) \in Int /\ Size \in Nat
    BY <1>1
  <2>b. UpTo(((0 - m) - Size + 1), ((0 - m) - Size + 1) + Size) = [i \in 1 .. Size |-> ((0 - m) - Size + 1) + i - 1]
    <3> HIDE DEF m
    <3> QED
      BY <2>a, RangeLemma, Zenon
  <2>3. WindowAt(r) = [j \in 1 .. Size |-> ((0 - m) - Size + 1) + j - 1]
    BY <2>2, <2>b, Zenon
  <2>4. \A j \in 1 .. Size : Word(r, j) = ((0 - m) - Size + 1) + j - 1 /\ Word(r, j) \in Int
    BY <1>1, <1>4 DEF Word
  <2> QED
    BY <1>1, <2>3, <2>4
<1>5. CASE job.nb > 0 /\ ~job.down /\ job.kind = "dereference"
  <2>1. WindowAt(r) = UpTo(r * job.nb, job.nb * (r + 1))
    BY <1>5 DEF WindowAt, DerefWindow, WindowJob
  <2>2. WindowAt(r) = UpTo(m, m + Size)
    BY <1>1, <1>5, <2>1
  <2>a. m \in Int /\ Size \in Nat
    BY <1>1
  <2>b. UpTo(m, m + Size) = [i \in 1 .. Size |-> m + i - 1]
    <3> HIDE DEF m
    <3> QED
      BY <2>a, RangeLemma, Zenon
  <2>3. WindowAt(r) = [j \in 1 .. Size |-> m + j - 1]
    BY <2>2, <2>b, Zenon
  <2>4. \A j \in 1 .. Size : Word(r, j) = m + j - 1 /\ Word(r, j) \in Int
    BY <1>1, <1>5 DEF Word
  <2> QED
    BY <1>1, <2>3, <2>4
<1>6. CASE job.nb > 0 /\ ~job.down /\ job.kind # "dereference"
  <2>a. WindowAt(r) = [i \in 1 .. job.nb |-> (i - 1) + r * job.nb]
    BY <1>6, Zenon DEF WindowAt, HexWindow
  <2>1. WindowAt(r) = [j \in 1 .. Size |-> (j - 1) + m]
    BY <1>0, <1>1, <1>6, <2>a
  <2>2. \A j \in 1 .. Size : Word(r, j) = (j - 1) + m /\ Word(r, j) \in Int
    BY <1>1, <1>6 DEF Word
  <2> QED
    BY <1>1, <2>1, <2>2
<1>7. job.down \in BOOLEAN /\ (job.nb > 0 \/ job.nb < 0)
      /\ (job.kind # "dereference" => job.nb > 0 /\ ~job.down)
  BY <1>0 DEF WindowJob
<1>8. Size \in Nat \ {0}
  BY <1>1
<1> HIDE DEF m
<1> QED
  BY <1>0, <1>1, <1>2, <1>3, <1>4, <1>5, <1>6, <1>7, <1>8

\* The words of the first n windows, each once.
LEMMA WordsLemma ==
    ASSUME WindowJob, NEW N \in Nat \ {0}
    PROVE  LET n == N * Size
               words == IF job.nb > 0 THEN 0 .. n - 1 ELSE 1 - n .. 0
           IN /\ \A r \in 0 .. N - 1, j \in 1 .. Size : Word(r, j) \in words
              /\ \A w \in words : \E r \in 0 .. N - 1, j \in 1 .. Size : Word(r, j) = w
              /\ \A r, q \in 0 .. N - 1 : \A j, l \in 1 .. Size :
                    Word(r, j) = Word(q, l) => r = q /\ j = l
<1> DEFINE n == N * Size
           words == IF job.nb > 0 THEN 0 .. n - 1 ELSE 1 - n .. 0
<1>0. \/ job.nb > 0 /\ ~(job.nb < 0) /\ Size \in {1, 2} /\ job.nb = Size
      \/ ~(job.nb > 0) /\ job.nb < 0 /\ Size \in {1, 2} /\ job.nb = 0 - Size
  BY SizeLemma DEF WindowJob
<1>1. PICK k \in {1, 2} : Size = k
  BY <1>0
<1>2. job.down \in BOOLEAN
  BY DEF WindowJob
<1>3. ASSUME NEW w \in Int
      PROVE  w \in words <=> IF job.nb < 0 THEN 0 - w \in 0 .. N * k - 1 ELSE w \in 0 .. N * k - 1
  BY <1>0, <1>1
<1>4. words \subseteq Int
  BY <1>0, <1>1
<1> HIDE DEF words
\* How far a word is from the first one.
<1> DEFINE Far(r, j) == r * k + (IF job.down THEN (IF job.nb < 0 THEN j - 1 ELSE k - j)
                                             ELSE (IF job.nb < 0 THEN k - j ELSE j - 1))
<1>5. ASSUME NEW r \in 0 .. N - 1, NEW j \in 1 .. k
      PROVE  /\ Far(r, j) \in 0 .. N * k - 1
             /\ Word(r, j) = IF job.nb < 0 THEN 0 - Far(r, j) ELSE Far(r, j)
  <2>1. CASE k = 1
    BY <1>1, <1>2, <2>1 DEF Word
  <2>2. CASE k = 2
    BY <1>1, <1>2, <2>2 DEF Word
  <2> QED
    BY <2>1, <2>2
<1>6. ASSUME NEW d \in 0 .. N * k - 1
      PROVE  \E r \in 0 .. N - 1, j \in 1 .. k : Far(r, j) = d
  <2>1. CASE k = 1
    <3>1. d \in 0 .. N - 1 /\ Far(d, 1) = d
      BY <2>1
    <3> QED
      BY <2>1, <3>1
  <2>2. CASE k = 2
    <3>1. PICK q \in 0 .. N - 1, m \in 0 .. 1 : d = q * 2 + m
      <4>1. d \div 2 \in 0 .. N - 1 /\ d % 2 \in 0 .. 1 /\ d = (d \div 2) * 2 + (d % 2)
        BY <2>2
      <4> QED
        BY <4>1
    <3>2. 2 - m \in 1 .. 2 /\ m + 1 \in 1 .. 2
      OBVIOUS
    <3>3. Far(q, 2 - m) = d \/ Far(q, m + 1) = d
      BY <2>2, <3>1, <1>2
    <3> QED
      BY <2>2, <3>2, <3>3
  <2> QED
    BY <2>1, <2>2
<1>7. ASSUME NEW r \in 0 .. N - 1, NEW q \in 0 .. N - 1, NEW j \in 1 .. k, NEW l \in 1 .. k,
             Far(r, j) = Far(q, l)
      PROVE  r = q /\ j = l
  <2>1. CASE k = 1
    BY <1>7, <2>1
  <2>2. CASE k = 2
    BY <1>7, <1>2, <2>2
  <2> QED
    BY <2>1, <2>2
<1> HIDE DEF Far
<1>8. ASSUME NEW r \in 0 .. N - 1, NEW j \in 1 .. Size PROVE Word(r, j) \in words
  BY <1>1, <1>3, <1>5
<1>9. ASSUME NEW w \in words
      PROVE  \E r \in 0 .. N - 1, j \in 1 .. Size : Word(r, j) = w
  <2> DEFINE d == IF job.nb < 0 THEN 0 - w ELSE w
  <2>1. d \in 0 .. N * k - 1 /\ w = IF job.nb < 0 THEN 0 - d ELSE d
    BY <1>3, <1>4
  <2> HIDE DEF d
  <2>2. PICK r \in 0 .. N - 1, j \in 1 .. k : Far(r, j) = d
    BY <1>6, <2>1
  <2> QED
    BY <1>1, <1>5, <2>1, <2>2
<1>10. ASSUME NEW r \in 0 .. N - 1, NEW q \in 0 .. N - 1, NEW j \in 1 .. Size, NEW l \in 1 .. Size,
              Word(r, j) = Word(q, l)
       PROVE  r = q /\ j = l
  <2>1. j \in 1 .. k /\ l \in 1 .. k
    BY <1>1
  <2>2. Far(r, j) \in Int /\ Far(q, l) \in Int
    BY <1>5, <2>1
  <2>3. Far(r, j) = Far(q, l)
    BY <1>5, <1>10, <2>1, <2>2
  <2> QED
    BY <1>7, <2>1, <2>3
<1> QED
  BY <1>8, <1>9, <1>10 DEF words

\* Call `to' repeats the call `from'.
Repeats(from, to) ==
    /\ from \in 1 .. MaxCalls /\ job.calls[from] # "enter"
    /\ \A i \in from + 1 .. to : job.calls[i] = "enter"

\* Every window shown is the one of its repetition.
WindowInv ==
    /\ WindowJob
    /\ st \in [status : {"walking", "done"}, repeat : Nat, shown : Seq(Seq(Int))]
    /\ Len(st.shown) <= MaxCalls
    /\ st.status = "done" => Len(st.shown) = MaxCalls
    /\ \A i \in 1 .. Len(st.shown) : \A from \in 1 .. i :
            Repeats(from, i) => st.shown[i] = WindowAt(i - from)
    /\ \A from \in 1 .. Len(st.shown) :
            Repeats(from, Len(st.shown)) => st.repeat = Len(st.shown) - from

\* Nothing has been shown at first.
LEMMA WindowInitOK == WindowInit => WindowInv
<1> SUFFICES ASSUME WindowInit PROVE WindowInv
  OBVIOUS
<1>1. WindowJob
  BY DEF WindowInit, WindowJob
<1>2. st = [status |-> "walking", repeat |-> 0, shown |-> <<>>]
  BY DEF WindowInit
<1>3. st \in [status : {"walking", "done"}, repeat : Nat, shown : Seq(Seq(Int))]
  BY <1>2
<1>4. Len(st.shown) = 0
  BY <1>2
<1> QED
  BY <1>1, <1>2, <1>3, <1>4, ViewBounds DEF WindowInv

\* One more call shows one more window.
LEMMA WindowStep == WindowInv /\ ShowWindow => WindowInv'
<1> SUFFICES ASSUME WindowInv, ShowWindow PROVE WindowInv'
  OBVIOUS
<1> DEFINE n == Len(st.shown)
           r == RepeatCount(job.calls[n + 1])
<1>1. /\ job' = job /\ WindowJob /\ n \in Nat /\ n <= MaxCalls /\ MaxCalls \in Nat
      /\ st \in [status : {"walking", "done"}, repeat : Nat, shown : Seq(Seq(Int))]
      /\ st.shown \in Seq(Seq(Int)) /\ st.repeat \in Nat
  BY ViewBounds DEF WindowInv, ShowWindow
<1>2. /\ WindowJob' /\ \A k \in Nat : WindowAt(k)' = WindowAt(k)
      /\ \A from, to : Repeats(from, to)' = Repeats(from, to)
  BY <1>1 DEF WindowJob, WindowAt, DerefWindow, HexWindow, UpTo, DownTo, Repeats
<1>3. CASE n = MaxCalls
  <2>1. st' = [st EXCEPT !.status = "done"]
    BY <1>3 DEF ShowWindow
  <2>2. st'.status = "done" /\ st'.repeat = st.repeat /\ st'.shown = st.shown
        /\ st' \in [status : {"walking", "done"}, repeat : Nat, shown : Seq(Seq(Int))]
    BY <1>1, <2>1
  <2> QED
    BY <1>1, <1>2, <1>3, <2>2 DEF WindowInv
<1>4. CASE n # MaxCalls
  <2>1. /\ r \in Nat /\ n + 1 <= MaxCalls /\ n + 1 \in 1 .. MaxCalls
        /\ job.calls[n + 1] # "enter" => r = 0
        /\ job.calls[n + 1] = "enter" => r = st.repeat + 1
    BY <1>1, <1>4 DEF RepeatCount, WindowJob
  <2>2. WindowAt(r) \in Seq(Int)
    <3> HIDE DEF r
    <3>1. /\ Size \in Nat /\ WindowAt(r) = [j \in 1 .. Size |-> Word(r, j)]
          /\ \A j \in 1 .. Size : Word(r, j) \in Int
      BY <1>1, <2>1, WindowLemma
    <3> QED
      BY <3>1
  <2>3. st' = [st EXCEPT !.repeat = r, !.shown = Append(@, WindowAt(r))]
    BY <1>4, Zenon DEF ShowWindow, WindowAt
  <2> HIDE DEF r
  <2>4. st'.repeat = r /\ st'.status = st.status /\ st'.shown = Append(st.shown, WindowAt(r))
    BY <1>1, <2>3
  <2>5. /\ st'.shown \in Seq(Seq(Int)) /\ Len(st'.shown) = n + 1
        /\ \A i \in 1 .. n : st'.shown[i] = st.shown[i]
        /\ st'.shown[n + 1] = WindowAt(r)
    BY <1>1, <2>2, <2>4
  <2>6. st' \in [status : {"walking", "done"}, repeat : Nat, shown : Seq(Seq(Int))]
    BY <1>1, <2>1, <2>3, <2>4, <2>5
  <2>7. st'.status = "walking"
    BY <2>4 DEF ShowWindow, Walking
  <2>8. ASSUME NEW from \in 1 .. n + 1, Repeats(from, n + 1)
        PROVE  r = n + 1 - from
    <3>1. CASE from = n + 1
      BY <1>1, <2>1, <2>8, <3>1 DEF Repeats
    <3>2. CASE from # n + 1
      <4>1. from \in 1 .. n /\ Repeats(from, n) /\ job.calls[n + 1] = "enter"
        BY <1>1, <2>8, <3>2 DEF Repeats
      <4>2. st.repeat = n - from
        BY <4>1 DEF WindowInv
      <4> QED
        BY <1>1, <2>1, <4>1, <4>2
    <3> QED
      BY <3>1, <3>2
  <2>9. ASSUME NEW i \in 1 .. n + 1, NEW from \in 1 .. i, Repeats(from, i)
        PROVE  st'.shown[i] = WindowAt(i - from)
    <3>1. CASE i = n + 1
      <4>1. r = i - from
        BY <2>8, <2>9, <3>1
      <4> QED
        BY <2>5, <3>1, <4>1
    <3>2. CASE i # n + 1
      <4>1. i \in 1 .. n
        BY <1>1, <3>2
      <4> QED
        BY <2>5, <2>9, <4>1 DEF WindowInv
    <3> QED
      BY <3>1, <3>2
  <2>10. \A i \in 1 .. n + 1 : \A from \in 1 .. i : i - from \in Nat
    BY <1>1
  <2>a. PICK m \in Nat : m = n + 1
    BY <1>1
  <2>11. \A i \in 1 .. m : \A from \in 1 .. i :
                Repeats(from, i)' => st'.shown[i] = WindowAt(i - from)'
    BY <1>2, <2>9, <2>10, <2>a
  <2>12. \A from \in 1 .. m : Repeats(from, m)' => st'.repeat = m - from
    BY <1>2, <2>4, <2>8, <2>a
  <2>13. Len(st'.shown) = m /\ m <= MaxCalls /\ st'.status # "done"
    BY <2>1, <2>5, <2>7, <2>a
  <2> HIDE DEF n
  <2> QED
    BY <1>2, <2>6, <2>11, <2>12, <2>13 DEF WindowInv
<1> QED
  BY <1>3, <1>4

\* The windows since the last call that was no repetition tile the words.
LEMMA WindowOK ==
    /\ WindowInit => WindowInv
    /\ WindowInv => ViewsExact
    /\ WindowInv /\ [ViewNext]_vars => WindowInv'
<1>1. ASSUME WindowInv PROVE ViewsExact
  <2>0. WindowJob /\ job.cmd = "window"
    BY <1>1 DEF WindowInv, WindowJob
  <2>1. ASSUME Ended, NEW from \in 1 .. MaxCalls, job.calls[from] # "enter",
               NEW to \in from .. MaxCalls, \A i \in from + 1 .. to : job.calls[i] = "enter"
        PROVE  LET n == (to - from + 1) * Size
                   words == IF job.nb > 0 THEN 0 .. n - 1 ELSE 1 - n .. 0
               IN /\ \A i \in from .. to : \A j \in DOMAIN st.shown[i] : st.shown[i][j] \in words
                  /\ \A w \in words : ShownOnce(from, to, w)
    <3> DEFINE N == to - from + 1
               n == N * Size
               words == IF job.nb > 0 THEN 0 .. n - 1 ELSE 1 - n .. 0
    <3>1. MaxCalls \in Nat /\ N \in Nat \ {0} /\ from \in Nat /\ to \in Nat /\ Len(st.shown) = MaxCalls
      BY <1>1, <2>1, ViewBounds DEF WindowInv, Ended
    <3>2. ASSUME NEW i \in from .. to
          PROVE  i - from \in 0 .. N - 1 /\ st.shown[i] = [j \in 1 .. Size |-> Word(i - from, j)]
      <4>1. i \in 1 .. MaxCalls /\ from \in 1 .. i /\ Repeats(from, i) /\ i - from \in 0 .. N - 1
        BY <2>1, <3>1 DEF Repeats
      <4>2. st.shown[i] = WindowAt(i - from)
        BY <1>1, <3>1, <4>1 DEF WindowInv
      <4>3. i - from \in Nat
        BY <4>1, <3>1
      <4> QED
        BY <2>0, <4>1, <4>2, <4>3, WindowLemma, Zenon
    <3>3. /\ \A r \in 0 .. N - 1, j \in 1 .. Size : Word(r, j) \in words
          /\ \A w \in words : \E r \in 0 .. N - 1, j \in 1 .. Size : Word(r, j) = w
          /\ \A r, q \in 0 .. N - 1 : \A j, l \in 1 .. Size :
                    Word(r, j) = Word(q, l) => r = q /\ j = l
      <4> HIDE DEF N
      <4> QED
        BY <2>0, <3>1, WordsLemma
    <3> HIDE DEF words
    <3>4. \A i \in from .. to : \A j \in DOMAIN st.shown[i] : st.shown[i][j] \in words
      <4> SUFFICES ASSUME NEW i \in from .. to, NEW j \in DOMAIN st.shown[i]
                   PROVE  st.shown[i][j] \in words
        OBVIOUS
      <4>1. j \in 1 .. Size /\ st.shown[i][j] = Word(i - from, j) /\ i - from \in 0 .. N - 1
        BY <3>2
      <4> QED
        BY <3>3, <4>1
    <3>5. ASSUME NEW w \in words PROVE ShownOnce(from, to, w)
      <4>1. PICK r \in 0 .. N - 1, j \in 1 .. Size : Word(r, j) = w
        BY <3>3
      <4>2. r + from \in from .. to /\ (r + from) - from = r
        BY <3>1
      <4>3. j \in DOMAIN st.shown[r + from] /\ st.shown[r + from][j] = w
        BY <3>2, <4>1, <4>2
      <4>4. ASSUME NEW k \in from .. to, NEW l \in DOMAIN st.shown[k], st.shown[k][l] = w
            PROVE  k = r + from /\ l = j
        <5>1. k - from \in 0 .. N - 1 /\ l \in 1 .. Size /\ Word(k - from, l) = w
          BY <3>2, <4>4
        <5>a. PICK q \in 0 .. N - 1 : q = k - from
          BY <5>1
        <5>b. q = r /\ l = j
          BY <3>3, <4>1, <5>1, <5>a
        <5>2. k - from = r /\ l = j
          BY <5>a, <5>b
        <5> QED
          BY <3>1, <5>2
      <4> QED
        BY <4>2, <4>3, <4>4, Zenon DEF ShownOnce
    <3> QED
      BY <3>4, <3>5 DEF words
  <2>2. WindowsTile
    BY <2>1 DEF WindowsTile, Size
  <2> QED
    BY <2>0, <2>2 DEF ViewsExact, PcustomExact, OutputComplete, ArenaChosen, ContextOfThisStop
<1>2. ASSUME WindowInv, [ViewNext]_vars PROVE WindowInv'
  <2>1. job.cmd = "window"
    BY <1>2 DEF WindowInv, WindowJob
  <2>2. CASE UNCHANGED vars
    <3>1. job' = job /\ st' = st
      BY <2>2 DEF vars
    <3>2. /\ WindowJob' = WindowJob /\ \A k : WindowAt(k)' = WindowAt(k)
          /\ \A from, to : Repeats(from, to)' = Repeats(from, to)
      BY <3>1 DEF WindowJob, WindowAt, DerefWindow, HexWindow, UpTo, DownTo, Repeats
    <3> QED
      BY <1>2, <3>1, <3>2 DEF WindowInv
  <2>3. CASE ViewNext
    <3>1. ShowWindow
      BY <2>1, <2>3 DEF ViewNext, ApplyAt, Bufferize, OutputEnd, ArenaStep, ContextNext, Walking,
         PushAndStop, TypeContext, SetRegister, ContinueHooks, MemoryWatch, MemoryUnwatch,
         MemoryReset, ContextPane, Prompt
    <3> QED
      BY <1>2, <3>1, WindowStep
  <2> QED
    BY <1>2, <2>2, <2>3
<1> QED
  BY <1>1, <1>2, WindowInitOK

-----------------------------------------------------------------------------
(* The output of the commands *)

\* A line is named by the command that printed it.
Line == (Nat \ {0}) \X Nat

\* A series of commands that print, each to the terminal set for it.
OutputJob ==
    /\ job.cmd = "output"
    /\ job.commands \in [1 .. MaxCalls -> [tty : {"", "a", "b"}, nested : BOOLEAN]]

\* What one command prints are lines of its own.
LEMMA PrintedByLemma ==
    ASSUME OutputJob, NEW i \in 1 .. MaxCalls
    PROVE  PrintedBy(i) \in Seq(Line)
<1>1. i \in Nat \ {0}
  BY ViewBounds
<1>2. <<i, 1>> \in Line /\ <<i, 2>> \in Line
  BY <1>1 DEF Line
<1> QED
  BY <1>2 DEF PrintedBy

\* What the commands have printed, one command after the other.
LEMMA PrintedLemma ==
    ASSUME OutputJob
    PROVE  /\ Printed(0) = <<>>
           /\ \A n \in Nat : n < MaxCalls => Printed(n + 1) = Printed(n) \o PrintedBy(n + 1)
<1> DEFINE V == Seq(Line)
           x0 == <<>>
           Body(i, x) == IF i \notin 1 .. MaxCalls THEN <<>> ELSE x \o PrintedBy(i)
           Before(g, i) == IF i = 0 THEN x0 ELSE g[i - 1]
           f == CHOOSE g : g = [k \in Nat |-> IF k \notin 1 .. MaxCalls THEN <<>> ELSE g[k - 1] \o PrintedBy(k)]
           Step == [p \in Nat \X V |-> Body(p[1], p[2])]
<1>1. \A n : Printed(n) = f[n]
  BY DEF Printed
<1>2. \A i \in Nat, x \in V : Body(i, x) \in V
  <2> SUFFICES ASSUME NEW i \in Nat, NEW x \in V PROVE Body(i, x) \in V
    OBVIOUS
  <2>1. CASE i \in 1 .. MaxCalls
    <3>1. PrintedBy(i) \in Seq(Line)
      BY <2>1, PrintedByLemma
    <3> QED
      BY <2>1, <3>1
  <2>2. CASE i \notin 1 .. MaxCalls
    BY <2>2
  <2> QED
    BY <2>1, <2>2
<1>3. Step \in [Nat \X V -> V] /\ \A i \in Nat, x \in V : Step[<<i, x>>] = Body(i, x)
  <2> HIDE DEF Body, V
  <2> QED
    BY <1>2
<1>14. x0 \in V
  OBVIOUS
<1> HIDE DEF Step, V, x0
<1>4. PICK F \in [Nat -> V] : Loop(F, x0, Step)
  BY <1>3, <1>14, LoopExists
<1>5. \A i \in Nat : F[i] = IF i \notin 1 .. MaxCalls THEN <<>> ELSE F[i - 1] \o PrintedBy(i)
  <2> SUFFICES ASSUME NEW i \in Nat
               PROVE F[i] = IF i \notin 1 .. MaxCalls THEN <<>> ELSE F[i - 1] \o PrintedBy(i)
    OBVIOUS
  <2>1. F[i] = Step[<<i, Before(F, i)>>]
    BY <1>4 DEF Loop
  <2>2. Before(F, i) \in V
    BY <1>4, <1>14
  <2>3. F[i] = Body(i, Before(F, i))
    <3> HIDE DEF Before, Body
    <3> QED
      BY <1>3, <2>1, <2>2
  <2>4. i \in 1 .. MaxCalls => i # 0
    OBVIOUS
  <2> QED
    BY <2>3, <2>4
<1>6. F = [k \in Nat |-> IF k \notin 1 .. MaxCalls THEN <<>> ELSE F[k - 1] \o PrintedBy(k)]
  BY <1>5
<1>7. f = [k \in Nat |-> IF k \notin 1 .. MaxCalls THEN <<>> ELSE f[k - 1] \o PrintedBy(k)]
  BY <1>6
<1> HIDE DEF f
<1>8. \A k \in Nat : f[k] = IF k \notin 1 .. MaxCalls THEN <<>> ELSE f[k - 1] \o PrintedBy(k)
  BY <1>7
<1>9. f[0] = <<>>
  BY <1>8
<1>10. ASSUME NEW n \in Nat, n < MaxCalls PROVE f[n + 1] = f[n] \o PrintedBy(n + 1)
  <2>1. n + 1 \in Nat /\ n + 1 \in 1 .. MaxCalls /\ (n + 1) - 1 = n
    BY <1>10, ViewBounds
  <2> QED
    BY <1>8, <2>1
<1> QED
  BY <1>1, <1>9, <1>10

\* A buffer is open only once the terminal could not be opened.
OutputInv ==
    /\ OutputJob
    /\ st \in [status : {"walking", "done"}, done : 0 .. MaxCalls, buffer : Seq(Nat \X Nat),
               tty : {"", "a", "b"}, out : Seq(Line), lost : BOOLEAN]
    /\ IF st.lost THEN st.buffer \in Seq(Line) /\ Printed(st.done) = st.out \o st.buffer
       ELSE st.buffer = NoBuffer /\ Printed(st.done) = st.out

\* No output of the commands is taken for the buffer that is not there.
LEMMA NoBufferLemma == NoBuffer \notin Seq(Line) /\ NoBuffer \in Seq(Nat \X Nat)
<1>1. ASSUME NoBuffer \in Seq(Line) PROVE FALSE
  <2>1. NoBuffer[1] \in Line
    BY <1>1 DEF NoBuffer
  <2> QED
    BY <2>1 DEF NoBuffer, Line
<1> QED
  BY <1>1 DEF NoBuffer

\* What has been printed is out, or in the buffer that was left open.
LEMMA OutputOK ==
    /\ OutputInit => OutputInv
    /\ OutputInv => ViewsExact
    /\ OutputInv /\ [ViewNext]_vars => OutputInv'
<1>1. ASSUME OutputInit PROVE OutputInv
  <2>1. OutputJob
    <3>1. PICK commands \in [1 .. MaxCalls -> [tty : {"", "a", "b"}, nested : BOOLEAN]] :
                job = [cmd |-> "output", commands |-> commands]
      BY <1>1 DEF OutputInit
    <3>2. job.cmd = "output" /\ job.commands = commands
      BY <3>1
    <3> QED
      BY <3>1, <3>2 DEF OutputJob
  <2>2. st = [status |-> "walking", done |-> 0, buffer |-> NoBuffer, tty |-> "",
              out |-> <<>>, lost |-> FALSE]
    BY <1>1 DEF OutputInit
  <2>3. Printed(0) = <<>>
    BY <2>1, PrintedLemma
  <2>4. st \in [status : {"walking", "done"}, done : 0 .. MaxCalls, buffer : Seq(Nat \X Nat),
                tty : {"", "a", "b"}, out : Seq(Line), lost : BOOLEAN]
    <3>1. 0 \in 0 .. MaxCalls /\ <<>> \in Seq(Line)
      BY ViewBounds
    <3> QED
      BY <2>2, <3>1, NoBufferLemma
  <2> QED
    BY <2>1, <2>2, <2>3, <2>4 DEF OutputInv
<1>2. ASSUME OutputInv PROVE ViewsExact
  BY <1>2 DEF OutputInv, OutputJob, ViewsExact, WindowsTile, PcustomExact, OutputComplete, ArenaChosen,
     ContextOfThisStop
<1>3. ASSUME OutputInv, [ViewNext]_vars PROVE OutputInv'
  <2>1. OutputJob /\ job.cmd = "output"
    BY <1>3 DEF OutputInv, OutputJob
  <2>2. ASSUME job' = job PROVE OutputJob' /\ \A n : Printed(n)' = Printed(n)
    BY <2>1, <2>2 DEF OutputJob, Printed, PrintedBy
  <2>3. CASE UNCHANGED vars
    BY <1>3, <2>2, <2>3 DEF vars, OutputInv
  <2>4. CASE OutputEnd
    <3>1. job' = job /\ st' = [st EXCEPT !.status = "done"]
      BY <2>4 DEF OutputEnd
    <3>2. /\ st'.done = st.done /\ st'.buffer = st.buffer /\ st'.out = st.out /\ st'.lost = st.lost
          /\ st' \in [status : {"walking", "done"}, done : 0 .. MaxCalls, buffer : Seq(Nat \X Nat),
                      tty : {"", "a", "b"}, out : Seq(Line), lost : BOOLEAN]
      BY <1>3, <3>1 DEF OutputInv
    <3> QED
      BY <1>3, <2>2, <3>1, <3>2 DEF OutputInv
  <2>5. CASE Bufferize
    <3> DEFINE i == st.done + 1
               tty == job.commands[i].tty
               before == IF st.buffer = NoBuffer THEN <<>> ELSE st.buffer
               text == before \o PrintedBy(i)
    <3>1. job' = job /\ i \in 1 .. MaxCalls /\ st.done \in Nat /\ st.done < MaxCalls
          /\ i \in 0 .. MaxCalls
      <4>1. st.done \in 0 .. MaxCalls
        BY <1>3 DEF OutputInv
      <4>2. job' = job /\ st.done < MaxCalls
        BY <2>5, Zenon DEF Bufferize
      <4> QED
        BY <4>1, <4>2, ViewBounds
    <3>2. tty \in {"", "a", "b"}
      BY <2>1, <3>1 DEF OutputJob
    <3>3. PrintedBy(i) \in Seq(Line) /\ Printed(i) = Printed(st.done) \o PrintedBy(i)
      BY <2>1, <3>1, PrintedByLemma, PrintedLemma
    <3>4. /\ st.out \in Seq(Line) /\ before \in Seq(Line) /\ text \in Seq(Line)
          /\ Printed(st.done) = st.out \o before
      <4>1. st.out \in Seq(Line) /\ st.lost \in BOOLEAN
        BY <1>3 DEF OutputInv
      <4>2. CASE st.lost
        <5>1. st.buffer \in Seq(Line) /\ Printed(st.done) = st.out \o st.buffer
          BY <1>3, <4>2 DEF OutputInv
        <5>2. st.buffer # NoBuffer
          BY <5>1, NoBufferLemma
        <5>3. before = st.buffer
          BY <5>2
        <5>4. before \o PrintedBy(i) \in Seq(Line)
          <6> HIDE DEF before
          <6> QED
            BY <3>3, <5>1, <5>3
        <5> QED
          BY <4>1, <5>1, <5>3, <5>4, Zenon
      <4>3. CASE ~st.lost
        <5>1. st.buffer = NoBuffer /\ Printed(st.done) = st.out
          BY <1>3, <4>3 DEF OutputInv
        <5>2. st.out \o <<>> = st.out
          BY <4>1, ConcatEmptySeq
        <5>3. before = <<>> /\ before \in Seq(Line)
          BY <5>1
        <5>4. before \o PrintedBy(i) \in Seq(Line)
          <6> HIDE DEF before
          <6> QED
            BY <3>3, <5>3
        <5> QED
          BY <4>1, <5>1, <5>2, <5>3, <5>4, Zenon
      <4> QED
        BY <4>1, <4>2, <4>3
    <3>5. Printed(i) = st.out \o text
      <4> HIDE DEF before
      <4>1. (st.out \o before) \o PrintedBy(i) = st.out \o (before \o PrintedBy(i))
        <5> DEFINE p == PrintedBy(i)
        <5>1. p \in Seq(Line) /\ before \in Seq(Line) /\ st.out \in Seq(Line)
          BY <3>3, <3>4
        <5> HIDE DEF p
        <5>2. (st.out \o before) \o p = st.out \o (before \o p)
          <6>1. \A a, b, c \in Seq(Line) : (a \o b) \o c = a \o (b \o c)
            BY ConcatAssociative
          <6> QED
            BY <5>1, <6>1, Zenon
        <5> QED
          BY <5>2 DEF p
      <4> QED
        BY <3>3, <3>4, <4>1
    <3>6. text \in Seq(Nat \X Nat)
      <4>1. Line \subseteq Nat \X Nat
        BY DEF Line
      <4> HIDE DEF text
      <4> QED
        BY <3>4, <4>1
    <3>7. \/ /\ st.buffer = NoBuffer
             /\ st' = [st EXCEPT !.done = i, !.tty = tty, !.out = @ \o text]
          \/ /\ st.buffer = NoBuffer
             /\ st' = [st EXCEPT !.done = i, !.buffer = text, !.lost = TRUE]
          \/ /\ st.buffer # NoBuffer
             /\ st' = [st EXCEPT !.done = i, !.buffer = text]
      BY <2>5, Zenon DEF Bufferize
    <3>8. (st.buffer = NoBuffer) <=> ~st.lost
      BY <1>3, NoBufferLemma DEF OutputInv
    <3>9. st.out \o text \in Seq(Line)
      BY <3>4
    <3>10. PICK k : k = i
      OBVIOUS
    <3> HIDE DEF i, tty, text
    <3>11. CASE /\ st.buffer = NoBuffer
                /\ st' = [st EXCEPT !.done = i, !.tty = tty, !.out = @ \o text]
      <4>1. /\ st'.done = k /\ st'.buffer = st.buffer /\ st'.out = st.out \o text /\ ~st'.lost
            /\ st' \in [status : {"walking", "done"}, done : 0 .. MaxCalls, buffer : Seq(Nat \X Nat),
                        tty : {"", "a", "b"}, out : Seq(Line), lost : BOOLEAN]
        BY <1>3, <3>1, <3>2, <3>8, <3>9, <3>10, <3>11 DEF OutputInv
      <4> QED
        BY <2>2, <3>1, <3>5, <3>10, <3>11, <4>1 DEF OutputInv, NoBuffer
    <3>12. CASE st' = [st EXCEPT !.done = i, !.buffer = text, !.lost = TRUE]
      <4>1. /\ st'.done = k /\ st'.buffer = text /\ st'.out = st.out /\ st'.lost
            /\ st' \in [status : {"walking", "done"}, done : 0 .. MaxCalls, buffer : Seq(Nat \X Nat),
                        tty : {"", "a", "b"}, out : Seq(Line), lost : BOOLEAN]
        BY <1>3, <3>1, <3>6, <3>10, <3>12 DEF OutputInv
      <4> QED
        BY <2>2, <3>1, <3>4, <3>5, <3>10, <4>1 DEF OutputInv
    <3>13. CASE st.lost /\ st' = [st EXCEPT !.done = i, !.buffer = text]
      <4>1. /\ st'.done = k /\ st'.buffer = text /\ st'.out = st.out /\ st'.lost
            /\ st' \in [status : {"walking", "done"}, done : 0 .. MaxCalls, buffer : Seq(Nat \X Nat),
                        tty : {"", "a", "b"}, out : Seq(Line), lost : BOOLEAN]
        BY <1>3, <3>1, <3>6, <3>10, <3>13 DEF OutputInv
      <4> QED
        BY <2>2, <3>1, <3>4, <3>5, <3>10, <4>1 DEF OutputInv
    <3> QED
      BY <3>7, <3>8, <3>11, <3>12, <3>13
  <2> QED
    BY <1>3, <2>1, <2>3, <2>4, <2>5 DEF ViewNext, ShowWindow, ApplyAt, ArenaStep, ContextNext, Walking,
         PushAndStop, TypeContext, SetRegister, ContinueHooks, MemoryWatch, MemoryUnwatch,
         MemoryReset, ContextPane, Prompt
<1> QED
  BY <1>1, <1>2, <1>3

-----------------------------------------------------------------------------
(* The main arena and the selected one *)

\* A series of heap commands, and where their main arena can be found.
ChosenJob ==
    /\ job.cmd = "arena" /\ job.symbol \in {0, 1, 3} /\ job.hook \in {0, 1, 3}
    /\ job.config \in BOOLEAN /\ job.brute \in BOOLEAN /\ job.verified \in SUBSET {1, 2, 3}
    /\ job.ops \in [1 .. MaxCalls -> {"main", "selected", "set 2", "set 3", "reset"}]

\* NoArena, and the arenas.
Arenas == {0, 1, 2, 3}

\* The states of the series.
ChosenStates == [status : {"walking", "done"}, done : 0 .. MaxCalls, main : Arenas,
                selected : Arenas, set : Arenas]

\* One of the first n calls asked for arena a.
AskedFor(a, n) ==
    \E i \in 1 .. n : (a = 2 /\ job.ops[i] = "set 2") \/ (a = 3 /\ job.ops[i] = "set 3")

\* Where the main arena s of the first n calls may come from, and what was
\* selected.
Chosen(s, n) ==
    /\ s.main = 3 /\ job.symbol # 3 => 3 \in job.verified \/ AskedFor(3, n)
    /\ s.main = 2 => 2 \in job.verified \/ AskedFor(2, n)
    /\ s.main = 1 => 1 \in job.verified \/ job.symbol = 1
    /\ s.set # 0 => s.main # 0 /\ s.selected = s.set
    /\ ~AskedFor(2, n) /\ ~AskedFor(3, n) => s.selected \in {0, s.main}

\* The invariant of the series.
ChosenInv == ChosenJob /\ st \in ChosenStates /\ Chosen(st, st.done)

\* The search for the main arena finds the symbol or an address that looks like one.
LEMMA FindLemma ==
    ASSUME ChosenJob
    PROVE  /\ FindMainArena \in Arenas
           /\ FindMainArena = 0 \/ FindMainArena = job.symbol \/ FindMainArena \in job.verified
<1> DEFINE least == CHOOSE a \in job.verified : \A b \in job.verified : a <= b
<1>1. job.verified # {} => least \in job.verified
  <2> SUFFICES ASSUME job.verified # {} PROVE least \in job.verified
    OBVIOUS
  <2>1. job.verified \subseteq {1, 2, 3}
    BY DEF ChosenJob
  <2>2. \E a \in job.verified : \A b \in job.verified : a <= b
    <3>1. CASE 1 \in job.verified
      BY <2>1, <3>1
    <3>2. CASE 1 \notin job.verified /\ 2 \in job.verified
      <4>1. \A b \in job.verified : b \in {2, 3}
        BY <2>1, <3>2
      <4> QED
        BY <3>2, <4>1
    <3>3. CASE 1 \notin job.verified /\ 2 \notin job.verified
      <4>1. \A b \in job.verified : b = 3
        BY <2>1, <3>3
      <4> QED
        BY <4>1
    <3> QED
      BY <3>1, <3>2, <3>3
  <2> QED
    BY <2>2
<1>2. job.verified \subseteq Arenas /\ job.symbol \in Arenas
  BY DEF ChosenJob, Arenas
<1>3. \/ FindMainArena = 0 \/ FindMainArena = job.symbol
      \/ FindMainArena = job.hook /\ job.hook \in job.verified
      \/ FindMainArena = least /\ job.verified # {}
  <2>1. job.config \in BOOLEAN
    BY DEF ChosenJob
  <2>2. CASE job.config
    BY <2>2 DEF FindMainArena, NoArena
  <2>3. CASE ~job.config /\ job.symbol # NoArena
    BY <2>3 DEF FindMainArena, NoArena
  <2>4. CASE ~job.config /\ job.symbol = NoArena /\ job.hook \in job.verified
    BY <2>4 DEF FindMainArena, NoArena
  <2>5. CASE ~job.config /\ job.symbol = NoArena /\ job.hook \notin job.verified
    <3>1. FindMainArena = IF job.brute /\ job.verified # {} THEN least ELSE NoArena
      BY <2>5 DEF FindMainArena
    <3> QED
      BY <3>1 DEF NoArena
  <2> QED
    BY <2>1, <2>2, <2>3, <2>4, <2>5
<1> HIDE DEF least
<1> QED
  BY <1>1, <1>2, <1>3 DEF Arenas

\* The main arena is looked for unless it is known, and is then selected.
LEMMA WithMainLemma ==
    ASSUME ChosenJob, NEW s \in ChosenStates, NEW n \in Nat, Chosen(s, n)
    PROVE  WithMain(s) \in ChosenStates /\ Chosen(WithMain(s), n) /\ WithMain(s).done = s.done
<1>1. CASE s.main # 0 \/ FindMainArena = 0
  BY <1>1 DEF WithMain, NoArena
<1>2. CASE s.main = 0 /\ FindMainArena # 0
  <2> DEFINE f == FindMainArena
  <2>1. f \in Arenas /\ f # 0 /\ (f = job.symbol \/ f \in job.verified)
    BY <1>2, FindLemma
  <2>2. WithMain(s) = [s EXCEPT !.main = f, !.selected = f]
    BY <1>2 DEF WithMain, NoArena
  <2> HIDE DEF f
  <2>3. /\ WithMain(s) \in ChosenStates /\ WithMain(s).done = s.done
        /\ WithMain(s).main = f /\ WithMain(s).selected = f /\ WithMain(s).set = s.set
    BY <2>1, <2>2 DEF ChosenStates, Arenas
  <2>4. s.set = 0
    BY <1>2 DEF Chosen
  <2>5. job.symbol \in {0, 1, 3}
    BY DEF ChosenJob
  <2> QED
    <3>1. PICK x : x = WithMain(s)
      OBVIOUS
    <3>2. x.main = f /\ x.selected = f /\ x.set = 0
      BY <2>3, <2>4, <3>1
    <3>3. x.main = 3 /\ job.symbol # 3 => 3 \in job.verified
      BY <2>1, <3>2
    <3>4. x.main = 2 => 2 \in job.verified
      BY <2>1, <2>5, <3>2
    <3>5. x.main = 1 => 1 \in job.verified \/ job.symbol = 1
      BY <2>1, <3>2
    <3>6. x.set = 0
      BY <3>2
    <3>7. x.selected \in {0, x.main}
      BY <3>2
    <3>8. Chosen(x, n)
      BY <3>3, <3>4, <3>5, <3>6, <3>7 DEF Chosen
    <3> QED
      BY <2>3, <3>1, <3>8
<1> QED
  BY <1>1, <1>2

\* A command that needs an arena takes the main one unless one is selected.
LEMMA WithSelectedLemma ==
    ASSUME ChosenJob, NEW s \in ChosenStates, NEW n \in Nat, Chosen(s, n)
    PROVE  WithSelected(s) \in ChosenStates /\ Chosen(WithSelected(s), n) /\ WithSelected(s).done = s.done
<1>1. CASE s.selected # 0
  BY <1>1 DEF WithSelected, NoArena
<1>2. CASE s.selected = 0
  <2> DEFINE m == WithMain(s)
  <2>1. m \in ChosenStates /\ Chosen(m, n) /\ m.done = s.done
    BY WithMainLemma
  <2>2. WithSelected(s) = [m EXCEPT !.selected = m.main]
    BY <1>2 DEF WithSelected, NoArena
  <2>3. m.set = 0
    <3>1. s.set = 0
      BY <1>2 DEF Chosen
    <3> QED
      BY <3>1 DEF WithMain, ChosenStates, Arenas
  <2> HIDE DEF m
  <2>4. /\ WithSelected(s) \in ChosenStates /\ WithSelected(s).done = m.done
        /\ WithSelected(s).main = m.main /\ WithSelected(s).selected = m.main
        /\ WithSelected(s).set = 0
    BY <2>1, <2>2, <2>3 DEF ChosenStates, Arenas
  <2> QED
    BY <2>1, <2>4 DEF Chosen
<1> QED
  BY <1>1, <1>2

\* An arena in the list of the main one is selected, any other becomes the main one.
LEMMA SetArenaLemma ==
    ASSUME ChosenJob, NEW s \in ChosenStates, NEW n \in Nat, Chosen(s, n), NEW a \in {2, 3}, AskedFor(a, n)
    PROVE  SetArena(s, a) \in ChosenStates /\ Chosen(SetArena(s, a), n) /\ SetArena(s, a).done = s.done
<1>0. PICK m \in ChosenStates : m = WithMain(s)
  BY WithMainLemma
<1>1. Chosen(m, n) /\ m.done = s.done /\ a \in Arenas /\ a # 0
  <2>1. Chosen(WithMain(s), n) /\ WithMain(s).done = s.done
    BY WithMainLemma
  <2>3. a \in Arenas /\ a # 0
    BY DEF Arenas
  <2> QED
    BY <1>0, <2>1, <2>3
<1>2. SetArena(s, a) = IF a \in Listed(m.main) THEN [m EXCEPT !.selected = a, !.set = a]
                       ELSE [m EXCEPT !.main = a]
  BY <1>0, Zenon DEF SetArena
<1>3. CASE a \in Listed(m.main)
  <2>1. m.main # 0
    BY <1>3 DEF Listed, NoArena
  <2>2. /\ SetArena(s, a) \in ChosenStates /\ SetArena(s, a).done = m.done
        /\ SetArena(s, a).main = m.main /\ SetArena(s, a).selected = a /\ SetArena(s, a).set = a
    <3>1. SetArena(s, a) = [m EXCEPT !.selected = a, !.set = a]
      BY <1>2, <1>3, Zenon
    <3> QED
      BY <1>1, <3>1 DEF ChosenStates, Arenas
  <2> QED
    <3>1. PICK x : x = SetArena(s, a)
      OBVIOUS
    <3>2. x.main = m.main /\ x.selected = a /\ x.set = a
      BY <2>2, <3>1
    <3>3. AskedFor(2, n) \/ AskedFor(3, n)
      OBVIOUS
    <3>4. /\ x.main = 3 /\ job.symbol # 3 => 3 \in job.verified \/ AskedFor(3, n)
          /\ x.main = 2 => 2 \in job.verified \/ AskedFor(2, n)
          /\ x.main = 1 => 1 \in job.verified \/ job.symbol = 1
      BY <1>1, <3>2 DEF Chosen
    <3>5. Chosen(x, n)
      BY <2>1, <3>2, <3>3, <3>4, Zenon DEF Chosen
    <3> QED
      BY <1>1, <2>2, <3>1, <3>5
<1>4. CASE a \notin Listed(m.main)
  <2>1. /\ SetArena(s, a) \in ChosenStates /\ SetArena(s, a).done = m.done
        /\ SetArena(s, a).main = a /\ SetArena(s, a).selected = m.selected
        /\ SetArena(s, a).set = m.set
    <3>1. SetArena(s, a) = [m EXCEPT !.main = a]
      BY <1>2, <1>4, Zenon
    <3> QED
      BY <1>1, <3>1 DEF ChosenStates, Arenas
  <2>2. CASE a = 2
    <3>1. PICK x : x = SetArena(s, a)
      OBVIOUS
    <3>2. x.main = 2 /\ x.selected = m.selected /\ x.set = m.set
      BY <2>1, <2>2, <3>1
    <3>3. AskedFor(2, n)
      BY <2>2
    <3>4. m.set # 0 => m.selected = m.set
      BY <1>1 DEF Chosen
    <3>5. x.main # 0 /\ x.main # 1 /\ (x.main = 2 => AskedFor(2, n)) /\ (x.main = 3 => AskedFor(3, n))
      BY <3>2, <3>3
    <3>6. x.set # 0 => x.selected = x.set
      BY <3>2, <3>4
    <3>7. AskedFor(2, n) \/ AskedFor(3, n)
      BY <3>3
    <3>8. Chosen(x, n)
      BY <3>5, <3>6, <3>7, Zenon DEF Chosen
    <3> QED
      BY <1>1, <2>1, <3>1, <3>8
  <2>3. CASE a = 3
    <3>1. PICK x : x = SetArena(s, a)
      OBVIOUS
    <3>2. x.main = 3 /\ x.selected = m.selected /\ x.set = m.set
      BY <2>1, <2>3, <3>1
    <3>3. AskedFor(3, n)
      BY <2>3
    <3>4. m.set # 0 => m.selected = m.set
      BY <1>1 DEF Chosen
    <3>5. x.main # 0 /\ x.main # 1 /\ (x.main = 2 => AskedFor(2, n)) /\ (x.main = 3 => AskedFor(3, n))
      BY <3>2, <3>3
    <3>6. x.set # 0 => x.selected = x.set
      BY <3>2, <3>4
    <3>7. AskedFor(2, n) \/ AskedFor(3, n)
      BY <3>3
    <3>8. Chosen(x, n)
      BY <3>5, <3>6, <3>7, Zenon DEF Chosen
    <3> QED
      BY <1>1, <2>1, <3>1, <3>8
  <2> QED
    BY <2>2, <2>3, Zenon
<1> QED
  BY <1>3, <1>4

\* The provenance of the arenas is kept by every call.
LEMMA ChosenOK ==
    /\ ArenaInit => ChosenInv
    /\ ChosenInv => ViewsExact
    /\ ChosenInv /\ [ViewNext]_vars => ChosenInv'
<1>1. ASSUME ArenaInit PROVE ChosenInv
  <2>4. 0 \in 0 .. MaxCalls /\ 0 \in Arenas
    BY ViewBounds DEF Arenas
  <2>2. ChosenJob
    BY <1>1 DEF ArenaInit, ChosenJob, NoArena
  <2>3. st = [status |-> "walking", done |-> 0, main |-> 0, selected |-> 0, set |-> 0]
    BY <1>1 DEF ArenaInit, NoArena
  <2>5. st \in ChosenStates
    BY <2>3, <2>4 DEF ChosenStates, Arenas
  <2> QED
    BY <2>2, <2>3, <2>5 DEF ChosenInv, Chosen
<1>2. ASSUME ChosenInv PROVE ViewsExact
  <2>1. job.cmd = "arena" /\ ChosenJob /\ st \in ChosenStates /\ Chosen(st, st.done) /\ st.main \in Arenas
    BY <1>2 DEF ChosenInv, ChosenJob, ChosenStates, Arenas
  <2>2. ArenaChosen
    <3>1. st.main \in job.verified \cup {NoArena, job.symbol, 2, 3}
      <4>1. st.main \in {0, 1, 2, 3}
        BY <2>1 DEF Arenas
      <4>2. st.main = 1 => 1 \in job.verified \/ job.symbol = 1
        BY <2>1 DEF Chosen
      <4> QED
        BY <4>1, <4>2 DEF NoArena
    <3>2. /\ (st.main = 3 /\ job.symbol # 3) =>
                3 \in job.verified \/ \E i \in 1 .. st.done : job.ops[i] = "set 3"
          /\ st.main = 2 => 2 \in job.verified \/ \E i \in 1 .. st.done : job.ops[i] = "set 2"
      <4>1. ASSUME AskedFor(3, st.done)
            PROVE  \E i \in 1 .. st.done : job.ops[i] = "set 3"
        <5>1. PICK i \in 1 .. st.done :
                \/ (3 = 2 /\ job.ops[i] = "set 2")
                \/ (3 = 3 /\ job.ops[i] = "set 3")
          BY <4>1, Zenon DEF AskedFor
        <5>2. 3 # 2
          OBVIOUS
        <5> QED
          BY <5>1, <5>2, Zenon
      <4>2. ASSUME AskedFor(2, st.done)
            PROVE  \E i \in 1 .. st.done : job.ops[i] = "set 2"
        <5>1. PICK i \in 1 .. st.done :
                \/ (2 = 2 /\ job.ops[i] = "set 2")
                \/ (2 = 3 /\ job.ops[i] = "set 3")
          BY <4>2, Zenon DEF AskedFor
        <5>2. 2 # 3
          OBVIOUS
        <5> QED
          BY <5>1, <5>2, Zenon
      <4> QED
        BY <2>1, <4>1, <4>2, Zenon DEF Chosen
    <3>3. st.set # NoArena => st.selected = st.set
      BY <2>1 DEF Chosen, NoArena
    <3>4. ASSUME st.selected # NoArena, \A i \in 1 .. st.done : job.ops[i] \notin {"set 2", "set 3"}
          PROVE  st.selected \in Listed(st.main)
      <4>1. ~AskedFor(2, st.done) /\ ~AskedFor(3, st.done)
        BY <3>4 DEF AskedFor
      <4>2. st.selected = st.main /\ st.main # 0
        BY <2>1, <3>4, <4>1 DEF Chosen, NoArena
      <4> QED
        BY <2>1, <4>2 DEF Listed, NoArena, Arenas
    <3> QED
      BY <3>1, <3>2, <3>3, <3>4 DEF ArenaChosen
  <2> QED
    BY <2>1, <2>2 DEF ViewsExact, WindowsTile, PcustomExact, OutputComplete, ContextOfThisStop
<1>3. ASSUME ChosenInv, [ViewNext]_vars PROVE ChosenInv'
  <2>1. ChosenJob /\ job.cmd = "arena" /\ st \in ChosenStates /\ Chosen(st, st.done)
    BY <1>3 DEF ChosenInv, ChosenJob
  <2>2. ASSUME job' = job
        PROVE  ChosenJob' /\ \A s, n : Chosen(s, n)' = Chosen(s, n)
    <3>1. ChosenJob'
      BY <2>1, <2>2 DEF ChosenJob
    <3>2. \A a, n : AskedFor(a, n)' = AskedFor(a, n)
      BY <2>2 DEF AskedFor
    <3>3. \A s, n : Chosen(s, n)' = Chosen(s, n)
      BY <2>2, <3>2, Zenon DEF Chosen
    <3> QED
      BY <3>1, <3>3
  <2>3. CASE UNCHANGED vars
    BY <2>1, <2>2, <2>3 DEF vars, ChosenInv, ChosenStates, Arenas
  <2>4. CASE ArenaStep
    <3> DEFINE op == job.ops[st.done + 1]
               next == [st EXCEPT !.done = @ + 1]
               reset == [next EXCEPT !.main = NoArena, !.selected = NoArena, !.set = NoArena]
    <3>0. job' = job
      BY <2>4 DEF ArenaStep
    <3>1. CASE st.done = MaxCalls
      <4>1. st' = [st EXCEPT !.status = "done"]
        BY <2>4, <3>1, Zenon DEF ArenaStep
      <4>2. st' \in ChosenStates /\ st'.done = st.done /\ st'.main = st.main
            /\ st'.selected = st.selected /\ st'.set = st.set
        BY <2>1, <4>1 DEF ChosenStates, Arenas
      <4>3. Chosen(st', st'.done)
        BY <2>1, <4>2 DEF Chosen
      <4> QED
        BY <2>2, <3>0, <4>2, <4>3 DEF ChosenInv, ChosenStates, Arenas
    <3>2. CASE st.done # MaxCalls
      <4>1. st.done \in Nat /\ st.done + 1 \in 1 .. MaxCalls /\ st.done + 1 \in 0 .. MaxCalls
        BY <2>1, <3>2, ViewBounds DEF ChosenStates, Arenas
      <4>2. PICK k \in Nat : k = st.done + 1
        BY <4>1
      <4>3. next \in ChosenStates /\ next.done = k /\ next.main = st.main /\ next.selected = st.selected
            /\ next.set = st.set
        BY <2>1, <4>1, <4>2 DEF ChosenStates, Arenas
      <4>4. op \in {"main", "selected", "set 2", "set 3", "reset"}
        BY <2>1, <4>1 DEF ChosenJob
      <4>5. \A a : AskedFor(a, st.done) => AskedFor(a, k)
        <5>1. 1 .. st.done \subseteq 1 .. k
          BY <4>1, <4>2
        <5> QED
          BY <5>1, Zenon DEF AskedFor
      <4>6. Chosen(next, k)
        BY <2>1, <4>3, <4>5 DEF Chosen
      <4>7. /\ op = "set 2" => AskedFor(2, k)
            /\ op = "set 3" => AskedFor(3, k)
        <5>1. k \in 1 .. k /\ job.ops[k] = op
          BY <4>1, <4>2
        <5> HIDE DEF op
        <5> QED
          BY <5>1 DEF AskedFor
      <4>8. /\ op = "main" => st' = WithMain(next)
            /\ op = "selected" => st' = WithSelected(next)
            /\ op = "set 2" => st' = SetArena(next, 2)
            /\ op = "set 3" => st' = SetArena(next, 3)
            /\ op = "reset" => st' = reset
        <5>1. st' = CASE op = "main" -> WithMain(next)
                      [] op = "selected" -> WithSelected(next)
                      [] op = "set 2" -> SetArena(next, 2)
                      [] op = "set 3" -> SetArena(next, 3)
                      [] OTHER -> reset
          BY <2>4, <3>2, Zenon DEF ArenaStep
        <5> HIDE DEF op, next, reset
        <5> QED
          BY <5>1
      <4>9. reset \in ChosenStates /\ Chosen(reset, k) /\ reset.done = k
        <5>1. reset \in ChosenStates /\ reset.done = k /\ reset.main = 0 /\ reset.selected = 0 /\ reset.set = 0
          <6>1. PICK x \in ChosenStates : x = next
            BY <4>3
          <6>2. reset = [x EXCEPT !.main = 0, !.selected = 0, !.set = 0] /\ x.done = k
            BY <4>3, <6>1 DEF NoArena
          <6> HIDE DEF next, reset
          <6> QED
            BY <6>1, <6>2 DEF ChosenStates, Arenas
        <5> QED
          BY <5>1 DEF Chosen
      <4> HIDE DEF op, next, reset
      <4>10. st' \in ChosenStates /\ Chosen(st', k) /\ st'.done = k
        <5>1. CASE op = "main"
          BY <2>1, <4>3, <4>6, <4>8, <5>1, WithMainLemma
        <5>2. CASE op = "selected"
          BY <2>1, <4>3, <4>6, <4>8, <5>2, WithSelectedLemma
        <5>3. CASE op = "set 2"
          <6>1. AskedFor(2, k) /\ 2 \in {2, 3}
            BY <4>7, <5>3 DEF AskedFor
          <6>2. /\ SetArena(next, 2) \in ChosenStates /\ Chosen(SetArena(next, 2), k)
                /\ SetArena(next, 2).done = next.done
            BY <2>1, <4>3, <4>6, <6>1, SetArenaLemma, Zenon
          <6> QED
            BY <4>3, <4>8, <5>3, <6>2
        <5>4. CASE op = "set 3"
          <6>1. AskedFor(3, k) /\ 3 \in {2, 3}
            BY <4>7, <5>4 DEF AskedFor
          <6>2. /\ SetArena(next, 3) \in ChosenStates /\ Chosen(SetArena(next, 3), k)
                /\ SetArena(next, 3).done = next.done
            BY <2>1, <4>3, <4>6, <6>1, SetArenaLemma, Zenon
          <6> QED
            BY <4>3, <4>8, <5>4, <6>2
        <5>5. CASE op = "reset"
          BY <4>8, <4>9, <5>5
        <5> QED
          BY <4>4, <5>1, <5>2, <5>3, <5>4, <5>5
      <4> QED
        BY <2>2, <3>0, <4>10 DEF ChosenInv, ChosenStates, Arenas
    <3> QED
      BY <3>1, <3>2
  <2> QED
    BY <1>3, <2>1, <2>3, <2>4 DEF ViewNext, ShowWindow, ApplyAt, Bufferize, OutputEnd, ContextNext, Walking,
         PushAndStop, TypeContext, SetRegister, ContinueHooks, MemoryWatch, MemoryUnwatch,
         MemoryReset, ContextPane, Prompt
<1> QED
  BY <1>1, <1>2, <1>3

\* The inductive invariant: the invariant of the series at work.
SeriesInv == WindowInv \/ OutputInv \/ ChosenInv

\* Whatever a command keeps from one call to the next is used as it should be,
\* for any number of calls in a row: `dereference' and `hexdump' repeated with
\* Enter show adjacent windows, each word once; no line of the output is lost,
\* written twice or out of order; and the main arena is one that was found or
\* asked for, the selected one the user's or else one of the main arena's list.
THEOREM SeriesAreExact == SeriesSpec => []ViewsExact
<1>1. SeriesInit => SeriesInv
  BY WindowOK, OutputOK, ChosenOK DEF SeriesInit, SeriesInv
<1>2. SeriesInv /\ [ViewNext]_vars => SeriesInv'
  BY WindowOK, OutputOK, ChosenOK DEF SeriesInv
<1>3. SeriesInv => ViewsExact
  BY WindowOK, OutputOK, ChosenOK DEF SeriesInv
<1> QED
  BY <1>1, <1>2, <1>3, PTL DEF SeriesSpec
=============================================================================
