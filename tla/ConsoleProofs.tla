--------------------------- MODULE ConsoleProofs ---------------------------
(***************************************************************************)
(* Proofs about module Console, for every size of the buffer, every range  *)
(* of the indices that the size divides, and any number of readers.        *)
(*                                                                         *)
(* The argument: going round from r one meets w and then e, at most the    *)
(* size of the buffer away (IndicesOrdered), so the characters from r to e *)
(* are in different slots although the indices wrap, and storing at e      *)
(* overwrites none of them; and no newline is in the unfinished line       *)
(* (LineClean), so ^U takes back all of it.                                *)
(***************************************************************************)
EXTENDS Console, SequenceTheorems, TLAPS

\* The three indices in their order, and the characters between them fit.
IndicesOrdered ==
    /\ Minus(w, r) + Minus(e, w) = Minus(e, r)
    /\ Minus(e, r) <= INPUT_BUF_SIZE

\* The character at distance i from the index a.
At(a, i) == buf[Slot(Plus(a, i))]

\* The line that is being edited holds nothing that ends a line.
LineClean == \A i \in 0 .. Minus(e, w) - 1 : At(w, i) \notin {NL, EOF}

\* The inductive invariant.
ConsInv == ConsoleTypeOK /\ NoSleepOnInput /\ IndicesOrdered /\ LineClean

-----------------------------------------------------------------------------
(* Arithmetic of the indices *)

\* The assumptions on the sizes, for the arithmetic.
LEMMA Sizes ==
    /\ INPUT_BUF_SIZE \in Nat /\ INPUT_BUF_SIZE > 0
    /\ Word \in Nat /\ Word > INPUT_BUF_SIZE
    /\ Word % INPUT_BUF_SIZE = 0
  BY ConsoleAssumption

\* Differences that wrap, without %.
LEMMA MinusLemma ==
    ASSUME NEW a \in 0 .. Word - 1, NEW b \in 0 .. Word - 1
    PROVE  /\ Minus(a, b) \in 0 .. Word - 1
           /\ Minus(a, b) = IF a >= b THEN a - b ELSE a - b + Word
<1>1. \A W \in Nat, x \in Int : 0 <= x /\ x < W => x % W = x
  OBVIOUS
<1>2. \A W \in Nat, x \in Int : -W < x /\ x < 0 => x % W = x + W
  OBVIOUS
<1>3. CASE a >= b
  BY <1>1, <1>3, Sizes DEF Minus
<1>4. CASE a < b
  <2>1. a - b \in Int /\ -Word < a - b /\ a - b < 0
    BY <1>4, Sizes
  <2>2. (a - b) % Word = a - b + Word
    BY <2>1, <1>2, Sizes
  <2> QED
    BY <2>1, <2>2, <1>4, Sizes DEF Minus
<1> QED
  BY <1>3, <1>4

\* The same for sums.
LEMMA PlusLemma ==
    ASSUME NEW a \in 0 .. Word - 1, NEW k \in 0 .. Word - 1
    PROVE  /\ Plus(a, k) \in 0 .. Word - 1
           /\ Plus(a, k) = IF a + k < Word THEN a + k ELSE (a + k) - Word
<1>1. \A W \in Nat, x \in Int : 0 <= x /\ x < W => x % W = x
  OBVIOUS
<1>2. \A W \in Nat, x \in Int : W <= x /\ x < 2 * W => x % W = x - W
  OBVIOUS
<1>3. CASE a + k < Word
  BY <1>1, <1>3, Sizes DEF Plus
<1>4. CASE a + k >= Word
  <2>1. a + k \in Int /\ Word <= a + k /\ a + k < 2 * Word
    BY <1>4, Sizes
  <2>2. (a + k) % Word = (a + k) - Word
    BY <2>1, <1>2, Sizes
  <2> QED
    BY <2>1, <2>2, <1>4, Sizes DEF Plus
<1> QED
  BY <1>3, <1>4, Sizes

\* Quotient and remainder.
LEMMA DivLemma ==
    ASSUME NEW x \in Nat, NEW b \in Nat, b > 0
    PROVE  /\ x \div b \in Nat /\ x % b \in 0 .. b - 1
           /\ x = (x \div b) * b + (x % b)
<1>1. x \div b \in Nat
  OBVIOUS
<1>2. x % b \in 0 .. b - 1
  OBVIOUS
<1>3. x % b = x - b * (x \div b)
  OBVIOUS
<1>4. ASSUME NEW q \in Nat, NEW m \in Nat, m = x - b * q
      PROVE  x = q * b + m
  BY <1>4
<1> DEFINE q == x \div b
           m == x % b
<1>5. q \in Nat /\ m \in Nat /\ m = x - b * q
  BY <1>1, <1>2, <1>3
<1> HIDE DEF q, m
<1>6. x = q * b + m
  BY <1>4, <1>5
<1> QED
  BY <1>1, <1>2, <1>6 DEF q, m

\* Multiples of b that are less than b apart are equal.
LEMMA MultipleLemma ==
    ASSUME NEW p \in Int, NEW q \in Int, NEW b \in Nat, b > 0,
           p * b - q * b < b, q * b - p * b < b
    PROVE  p = q
<1>1. CASE p > q
  <2>1. PICK d \in Nat : p = q + 1 + d
    <3>1. p - q - 1 \in Nat /\ p = q + 1 + (p - q - 1)
      BY <1>1
    <3> QED
      BY <3>1
  <2>2. p * b = q * b + b + d * b /\ d * b >= 0
    BY <2>1
  <2> QED
    BY <2>2
<1>2. CASE q > p
  <2>1. PICK d \in Nat : q = p + 1 + d
    <3>1. q - p - 1 \in Nat /\ q = p + 1 + (q - p - 1)
      BY <1>2
    <3> QED
      BY <3>1
  <2>2. q * b = p * b + b + d * b /\ d * b >= 0
    BY <2>1
  <2> QED
    BY <2>2
<1> QED
  BY <1>1, <1>2

\* The size divides the range of the indices: the slots go on as if they did not
\* wrap.
LEMMA SlotWraps ==
    ASSUME NEW x \in Nat, x >= Word
    PROVE  Slot(x - Word) = Slot(x)
<1> DEFINE b == INPUT_BUF_SIZE
<1>1. b \in Nat /\ b > 0 /\ Word \in Nat /\ x - Word \in Nat
  BY Sizes
<1>2. PICK q \in Nat : Word = q * b
  <2>1. Word = (Word \div b) * b + (Word % b) /\ Word \div b \in Nat
    BY <1>1, DivLemma
  <2> QED
    BY <2>1, Sizes
<1> HIDE DEF b
<1>3. PICK s \in Nat, t \in 0 .. b - 1 : x = s * b + t /\ t = x % b
  BY <1>1, DivLemma
<1>4. PICK u \in Nat, v \in 0 .. b - 1 : x - Word = u * b + v /\ v = (x - Word) % b
  BY <1>1, DivLemma
<1>5. s * b + t = u * b + q * b + v
  BY <1>1, <1>2, <1>3, <1>4
<1>6. (u + q) * b = u * b + q * b /\ s * b \in Int /\ u * b \in Int /\ q * b \in Int
  BY <1>1, <1>2, <1>3, <1>4
<1>7. s * b - (u + q) * b < b /\ (u + q) * b - s * b < b
  BY <1>1, <1>5, <1>6
<1>8. s = u + q
  <2>1. s \in Int /\ u + q \in Int
    OBVIOUS
  <2> QED
    BY <1>1, <1>7, <2>1, MultipleLemma
<1>9. t = v
  BY <1>5, <1>6, <1>8
<1> QED
  BY <1>3, <1>4, <1>9 DEF Slot, b

\* Characters less than the size of the buffer apart are in different slots.
LEMMA SlotApart ==
    ASSUME NEW a \in 0 .. Word - 1,
           NEW i \in 0 .. INPUT_BUF_SIZE - 1, NEW j \in 0 .. INPUT_BUF_SIZE - 1, i # j
    PROVE  Slot(Plus(a, i)) # Slot(Plus(a, j))
<1> DEFINE b == INPUT_BUF_SIZE
<1>1. b \in Nat /\ b > 0 /\ a \in Nat /\ i \in Nat /\ j \in Nat /\ Word \in Nat
  BY Sizes
<1>2. Slot(Plus(a, i)) = (a + i) % b /\ Slot(Plus(a, j)) = (a + j) % b
  <2>1. ASSUME NEW k \in 0 .. INPUT_BUF_SIZE - 1
        PROVE  Slot(Plus(a, k)) = (a + k) % b
    <3>1. k \in 0 .. Word - 1 /\ a + k \in Nat
      BY Sizes
    <3>2. CASE a + k < Word
      <4>1. Plus(a, k) = a + k
        BY <3>1, <3>2, PlusLemma
      <4> QED
        BY <4>1 DEF Slot
    <3>3. CASE a + k >= Word
      <4>1. Plus(a, k) = (a + k) - Word
        BY <3>1, <3>3, <1>1, PlusLemma
      <4>2. Slot((a + k) - Word) = Slot(a + k)
        <5> DEFINE y == a + k
        <5>1. y \in Nat /\ y >= Word
          BY <3>1, <3>3
        <5> HIDE DEF y
        <5>2. Slot(y - Word) = Slot(y)
          BY <5>1, SlotWraps
        <5> QED
          BY <5>2 DEF y
      <4> QED
        BY <4>1, <4>2 DEF Slot
    <3> QED
      BY <3>1, <3>2, <3>3, <1>1
  <2> QED
    BY <2>1
<1> HIDE DEF b
<1>3. PICK s \in Nat, t \in 0 .. b - 1 : a + i = s * b + t /\ t = (a + i) % b
  <2> DEFINE y == a + i
  <2>1. y \in Nat
    BY <1>1
  <2> HIDE DEF y
  <2>2. y \div b \in Nat /\ y % b \in 0 .. b - 1 /\ y = (y \div b) * b + (y % b)
    BY <1>1, <2>1, DivLemma
  <2> QED
    BY <2>2 DEF y
<1>4. PICK u \in Nat, v \in 0 .. b - 1 : a + j = u * b + v /\ v = (a + j) % b
  <2> DEFINE y == a + j
  <2>1. y \in Nat
    BY <1>1
  <2> HIDE DEF y
  <2>2. y \div b \in Nat /\ y % b \in 0 .. b - 1 /\ y = (y \div b) * b + (y % b)
    BY <1>1, <2>1, DivLemma
  <2> QED
    BY <2>2 DEF y
<1>5. SUFFICES ASSUME t = v PROVE FALSE
  BY <1>2, <1>3, <1>4
<1>6. s * b \in Int /\ u * b \in Int /\ s \in Int /\ u \in Int
  BY <1>1
<1>7. i - j = s * b - u * b /\ i - j < b /\ j - i < b
  BY <1>1, <1>3, <1>4, <1>5, <1>6 DEF b
<1>8. s * b - u * b < b /\ u * b - s * b < b
  BY <1>1, <1>6, <1>7
<1>9. s = u
  BY <1>1, <1>6, <1>8, MultipleLemma
<1> QED
  BY <1>1, <1>7, <1>9, <1>6

\* A slot is in the buffer.
LEMMA SlotRange ==
    ASSUME NEW a \in 0 .. Word - 1
    PROVE  Slot(a) \in 0 .. INPUT_BUF_SIZE - 1
  BY Sizes, DivLemma DEF Slot

\* Moving along the ring.
LEMMA RingLemma ==
    ASSUME NEW a \in 0 .. Word - 1, NEW b \in 0 .. Word - 1
    PROVE  /\ Minus(b, a) = 0 <=> a = b
           /\ Plus(a, Minus(b, a)) = b
           /\ Minus(b, a) < Word - 1 => Minus(Plus(b, 1), a) = Minus(b, a) + 1
           /\ a # b => Minus(Minus(b, 1), a) = Minus(b, a) - 1
           /\ a # b => Minus(b, Plus(a, 1)) = Minus(b, a) - 1
           /\ Plus(b, 1) \in 0 .. Word - 1 /\ Minus(b, 1) \in 0 .. Word - 1
<1>1. Word \in Nat /\ Word > 1 /\ 1 \in 0 .. Word - 1
  BY Sizes
<1>2. /\ Minus(b, a) \in 0 .. Word - 1
      /\ Minus(b, a) = IF b >= a THEN b - a ELSE b - a + Word
  BY MinusLemma
<1>3. /\ Minus(b, a) = 0 <=> a = b
      /\ Plus(a, Minus(b, a)) = b
  <2>1. Plus(a, Minus(b, a)) =
          IF a + Minus(b, a) < Word THEN a + Minus(b, a) ELSE (a + Minus(b, a)) - Word
    BY <1>2, PlusLemma
  <2>2. Minus(b, a) = 0 <=> a = b
    BY <1>1, <1>2
  <2> QED
    BY <1>1, <1>2, <2>1, <2>2
<1>4. /\ Plus(b, 1) \in 0 .. Word - 1
      /\ Plus(b, 1) = IF b + 1 < Word THEN b + 1 ELSE (b + 1) - Word
  BY <1>1, PlusLemma
<1>5. /\ Plus(a, 1) \in 0 .. Word - 1
      /\ Plus(a, 1) = IF a + 1 < Word THEN a + 1 ELSE (a + 1) - Word
  BY <1>1, PlusLemma
<1>6. /\ Minus(b, 1) \in 0 .. Word - 1
      /\ Minus(b, 1) = IF b >= 1 THEN b - 1 ELSE b - 1 + Word
  BY <1>1, MinusLemma
<1>7. Minus(b, a) < Word - 1 => Minus(Plus(b, 1), a) = Minus(b, a) + 1
  <2>1. Minus(Plus(b, 1), a) =
          IF Plus(b, 1) >= a THEN Plus(b, 1) - a ELSE Plus(b, 1) - a + Word
    BY <1>4, MinusLemma
  <2> QED
    BY <1>1, <1>2, <1>4, <2>1
<1>8. a # b => Minus(Minus(b, 1), a) = Minus(b, a) - 1
  <2>1. Minus(Minus(b, 1), a) =
          IF Minus(b, 1) >= a THEN Minus(b, 1) - a ELSE Minus(b, 1) - a + Word
    BY <1>6, MinusLemma
  <2> QED
    BY <1>1, <1>2, <1>6, <2>1
<1>9. a # b => Minus(b, Plus(a, 1)) = Minus(b, a) - 1
  <2>1. Minus(b, Plus(a, 1)) =
          IF b >= Plus(a, 1) THEN b - Plus(a, 1) ELSE b - Plus(a, 1) + Word
    BY <1>5, MinusLemma
  <2> QED
    BY <1>1, <1>2, <1>5, <2>1
<1> QED
  BY <1>3, <1>4, <1>6, <1>7, <1>8, <1>9

\* Two steps along the ring are one.
LEMMA StepsLemma ==
    ASSUME NEW a \in 0 .. Word - 1, NEW i \in Nat, NEW j \in Nat, i + j < Word
    PROVE  Plus(Plus(a, i), j) = Plus(a, i + j)
<1>1. Word \in Nat /\ i \in 0 .. Word - 1 /\ j \in 0 .. Word - 1
      /\ i + j \in 0 .. Word - 1
  BY Sizes
<1>2. /\ Plus(a, i) \in 0 .. Word - 1
      /\ Plus(a, i) = IF a + i < Word THEN a + i ELSE (a + i) - Word
  BY <1>1, PlusLemma
<1>3. Plus(a, i + j) = IF a + (i + j) < Word THEN a + (i + j) ELSE (a + (i + j)) - Word
  BY <1>1, PlusLemma
<1>4. Plus(Plus(a, i), j) =
        IF Plus(a, i) + j < Word THEN Plus(a, i) + j ELSE (Plus(a, i) + j) - Word
  BY <1>1, <1>2, PlusLemma
<1> QED
  BY <1>1, <1>2, <1>3, <1>4

\* A step back from b is one forward from a.
LEMMA BackLemma ==
    ASSUME NEW a \in 0 .. Word - 1, NEW b \in 0 .. Word - 1,
           NEW j \in 1 .. Minus(b, a)
    PROVE  Minus(b, j) = Plus(a, Minus(b, a) - j)
<1>1. /\ Word \in Nat /\ Minus(b, a) \in 0 .. Word - 1
      /\ Minus(b, a) = IF b >= a THEN b - a ELSE b - a + Word
  BY Sizes, MinusLemma
<1>2. j \in 0 .. Word - 1 /\ Minus(b, a) - j \in 0 .. Word - 1
  BY <1>1
<1>3. Minus(b, j) = IF b >= j THEN b - j ELSE b - j + Word
  BY <1>2, MinusLemma
<1>4. Plus(a, Minus(b, a) - j) =
        IF a + (Minus(b, a) - j) < Word
        THEN a + (Minus(b, a) - j) ELSE (a + (Minus(b, a) - j)) - Word
  BY <1>2, PlusLemma
<1> QED
  BY <1>1, <1>2, <1>3, <1>4

-----------------------------------------------------------------------------
(* The invariant *)

\* The static struct of the console.
LEMMA ConsInit == InitConsole => ConsInv
<1> SUFFICES ASSUME InitConsole PROVE ConsInv
  OBVIOUS
<1>1. /\ r = 0 /\ w = 0 /\ e = 0 /\ 0 \in 0 .. Word - 1 /\ MaxRead \in Nat
      /\ 0 \in 0 .. MaxRead
  BY Sizes, ConsoleAssumption DEF InitConsole
<1>2. Minus(w, r) = 0 /\ Minus(e, w) = 0 /\ Minus(e, r) = 0
  BY <1>1, RingLemma
<1>3. ConsoleTypeOK
  BY <1>1 DEF InitConsole, ConsoleTypeOK, Stored, Places
<1>4. NoSleepOnInput
  BY DEF InitConsole, NoSleepOnInput
<1>5. IndicesOrdered
  BY <1>2, Sizes DEF IndicesOrdered
<1>6. LineClean
  BY <1>2 DEF LineClean
<1> QED
  BY <1>3, <1>4, <1>5, <1>6 DEF ConsInv

\* Distances between the indices, and where w and e are seen from r.
LEMMA Distances ==
    ASSUME ConsInv
    PROVE  /\ r \in 0 .. Word - 1 /\ w \in 0 .. Word - 1 /\ e \in 0 .. Word - 1
           /\ Minus(w, r) \in Nat /\ Minus(e, w) \in Nat /\ Minus(e, r) \in Nat
           /\ Minus(w, r) + Minus(e, w) = Minus(e, r)
           /\ Minus(e, r) <= INPUT_BUF_SIZE
           /\ Minus(e, r) < Word - 1 \/ Minus(e, r) = INPUT_BUF_SIZE
           /\ Plus(r, Minus(e, r)) = e
           /\ \A i \in Nat : Minus(w, r) + i < Word =>
                                Plus(w, i) = Plus(r, Minus(w, r) + i)
<1>1. r \in 0 .. Word - 1 /\ w \in 0 .. Word - 1 /\ e \in 0 .. Word - 1
  BY DEF ConsInv, ConsoleTypeOK
<1>2. /\ Minus(w, r) \in Nat /\ Minus(e, w) \in Nat /\ Minus(e, r) \in Nat
      /\ Minus(w, r) + Minus(e, w) = Minus(e, r)
      /\ Minus(e, r) <= INPUT_BUF_SIZE
  BY <1>1, MinusLemma DEF ConsInv, IndicesOrdered
<1>3. Plus(r, Minus(e, r)) = e /\ Plus(r, Minus(w, r)) = w
  BY <1>1, RingLemma
<1>4. \A i \in Nat : Minus(w, r) + i < Word => Plus(w, i) = Plus(r, Minus(w, r) + i)
  BY <1>1, <1>2, <1>3, StepsLemma
<1>5. Minus(e, r) < Word - 1 \/ Minus(e, r) = INPUT_BUF_SIZE
  BY <1>2, Sizes
<1> QED
  BY <1>1, <1>2, <1>3, <1>4, <1>5

\* consintr() stores a character: everything from r to e stays where it is.
LEMMA PutLemma ==
    ASSUME ConsInv, NEW key \in Key, ConsPut(key),
           NEW c, c = IF key = CR THEN NL ELSE key
    PROVE  /\ c \in Stored /\ r' = r /\ e' = Plus(e, 1)
           /\ Minus(e', r) = Minus(e, r) + 1
           /\ Minus(e, r) < INPUT_BUF_SIZE
           /\ buf' \in [0 .. INPUT_BUF_SIZE - 1 -> Stored]
           /\ \A i \in 0 .. Minus(e, r) - 1 : buf'[Slot(Plus(r, i))] = At(r, i)
           /\ buf'[Slot(Plus(r, Minus(e, r)))] = c
           /\ IF c \in {NL, EOF} \/ Minus(e, r) + 1 = INPUT_BUF_SIZE
              THEN w' = e' /\ WakeReaders
              ELSE w' = w /\ at' = at
           /\ holder' = holder /\ n' = n /\ target' = target
<1> DEFINE t == Minus(e, r)
<1>1. /\ key \in Letter \cup {NL, CR, EOF} /\ t < INPUT_BUF_SIZE
      /\ buf' = [buf EXCEPT ![Slot(e)] = c] /\ e' = Plus(e, 1)
      /\ IF EndsLine(c, Plus(e, 1)) THEN w' = Plus(e, 1) /\ WakeReaders
                                    ELSE w' = w /\ at' = at
      /\ r' = r /\ holder' = holder /\ n' = n /\ target' = target
  BY DEF ConsPut
<1>2. c \in Stored
  BY <1>1 DEF Stored
<1>3. /\ r \in 0 .. Word - 1 /\ e \in 0 .. Word - 1 /\ t \in Nat /\ t < Word - 1
      /\ Plus(r, t) = e /\ buf \in [0 .. INPUT_BUF_SIZE - 1 -> Stored]
  <2>1. t < Word - 1
    BY <1>1, Distances, Sizes
  <2> QED
    BY <2>1, Distances DEF ConsInv, ConsoleTypeOK
<1>4. Minus(e', r) = t + 1
  BY <1>1, <1>3, RingLemma
<1> HIDE DEF t
<1>5. Slot(e) \in 0 .. INPUT_BUF_SIZE - 1
  BY <1>3, SlotRange
<1>6. buf' \in [0 .. INPUT_BUF_SIZE - 1 -> Stored] /\ buf'[Slot(Plus(r, t))] = c
  BY <1>1, <1>2, <1>3, <1>5
<1>7. ASSUME NEW i \in 0 .. t - 1
      PROVE  buf'[Slot(Plus(r, i))] = At(r, i)
  <2>1. /\ i \in 0 .. INPUT_BUF_SIZE - 1 /\ t \in 0 .. INPUT_BUF_SIZE - 1 /\ i # t
        /\ i \in 0 .. Word - 1
    BY <1>1, <1>3, Sizes
  <2>2. Slot(Plus(r, i)) # Slot(e)
    BY <2>1, <1>3, SlotApart
  <2>3. Slot(Plus(r, i)) \in 0 .. INPUT_BUF_SIZE - 1
    BY <2>1, <1>3, PlusLemma, SlotRange
  <2> QED
    BY <2>2, <2>3, <1>1, <1>3 DEF At
<1>8. EndsLine(c, Plus(e, 1)) <=> c \in {NL, EOF} \/ t + 1 = INPUT_BUF_SIZE
  BY <1>1, <1>4 DEF EndsLine
<1> QED
  BY <1>1, <1>2, <1>4, <1>6, <1>7, <1>8 DEF t

\* ^U takes back the whole line.
LEMMA KillLemma ==
    ASSUME ConsInv
    PROVE  Killed = Minus(e, w) /\ Minus(e, Killed) = w
<1> DEFINE l == Minus(e, w)
           K(k) == /\ \A j \in 1 .. k : buf[Slot(Minus(e, j))] # NL
                   /\ k = Minus(e, w) \/ buf[Slot(Minus(e, k + 1))] = NL
<1>1. l \in Nat /\ w \in 0 .. Word - 1 /\ e \in 0 .. Word - 1 /\ l \in 0 .. Word - 1
  BY Distances, MinusLemma
<1>2. ASSUME NEW j \in 1 .. l
      PROVE  buf[Slot(Minus(e, j))] # NL
  <2>1. Minus(e, j) = Plus(w, l - j)
    BY <1>1, BackLemma
  <2>2. l - j \in 0 .. l - 1
    BY <1>1
  <2> QED
    BY <2>1, <2>2 DEF ConsInv, LineClean, At
<1>3. l \in 0 .. l /\ K(l)
  BY <1>1, <1>2
<1>4. ASSUME NEW k \in 0 .. l, K(k)
      PROVE  k = l
  <2>1. SUFFICES ASSUME k # l PROVE FALSE
    OBVIOUS
  <2>2. k + 1 \in 1 .. l
    BY <1>1, <2>1
  <2> QED
    BY <2>1, <2>2, <1>2, <1>4
<1>5. Killed = CHOOSE k \in 0 .. l : K(k)
  BY DEF Killed
<1>6. Killed = l
  <2> HIDE DEF K
  <2> QED
    BY <1>3, <1>4, <1>5
<1>7. Minus(e, l) = w
  <2>1. CASE l = 0
    <3>1. e = w /\ 0 \in 0 .. Word - 1
      BY <2>1, <1>1, RingLemma, Sizes
    <3>2. Minus(e, 0) = e
      BY <3>1, <1>1, MinusLemma
    <3> QED
      BY <2>1, <3>1, <3>2
  <2>2. CASE l > 0
    <3>1. l \in 1 .. l /\ l - l = 0 /\ 0 \in 0 .. Word - 1
      BY <1>1, <2>2, Sizes
    <3>2. Minus(e, l) = Plus(w, 0)
      BY <3>1, <1>1, BackLemma
    <3>3. Plus(w, 0) = w
      <4>1. Plus(w, 0) = IF w + 0 < Word THEN w + 0 ELSE (w + 0) - Word
        BY <3>1, <1>1, PlusLemma
      <4> QED
        BY <4>1, <1>1, Sizes
    <3> QED
      BY <3>2, <3>3
  <2> QED
    BY <1>1, <2>1, <2>2
<1> QED
  BY <1>6, <1>7

\* A reader takes a character: r moves towards w.
LEMMA TakeLemma ==
    ASSUME ConsInv, r # w
    PROVE  /\ Plus(r, 1) \in 0 .. Word - 1
           /\ Minus(w, Plus(r, 1)) = Minus(w, r) - 1
           /\ Minus(e, Plus(r, 1)) = Minus(e, r) - 1
           /\ Minus(w, r) > 0 /\ Minus(e, r) > 0
<1>1. /\ r \in 0 .. Word - 1 /\ w \in 0 .. Word - 1 /\ e \in 0 .. Word - 1
      /\ Minus(w, r) \in Nat /\ Minus(e, w) \in Nat /\ Minus(e, r) \in Nat
      /\ Minus(w, r) + Minus(e, w) = Minus(e, r)
  BY Distances
<1>2. Minus(w, r) # 0 /\ Minus(w, Plus(r, 1)) = Minus(w, r) - 1
      /\ Plus(r, 1) \in 0 .. Word - 1
  BY <1>1, RingLemma
<1>3. Minus(e, r) # 0
  BY <1>1, <1>2
<1>4. r # e
  BY <1>1, <1>3, RingLemma
<1>5. Minus(e, Plus(r, 1)) = Minus(e, r) - 1
  BY <1>1, <1>4, RingLemma
<1> QED
  BY <1>1, <1>2, <1>3, <1>5

\* A step that keeps the buffer, w and e keeps the line.
LEMMA KeepsLine ==
    ASSUME LineClean, buf' = buf, w' = w, e' = e
    PROVE  LineClean'
  BY DEF LineClean, At, Minus, Plus, Slot

\* Steps of the interrupt handler.
LEMMA InterruptKeeps ==
    ASSUME ConsInv, Interrupt
    PROVE  ConsInv'
<1>1. PICK key \in Key : ConsPut(key) \/ ConsDelete(key) \/ ConsKill(key)
  BY DEF Interrupt
<1>2. /\ buf \in [0 .. INPUT_BUF_SIZE - 1 -> Stored]
      /\ r \in 0 .. Word - 1 /\ w \in 0 .. Word - 1 /\ e \in 0 .. Word - 1
      /\ holder \in Reader \cup {NoReader} /\ at \in [Reader -> Places]
      /\ n \in [Reader -> 0 .. MaxRead] /\ target \in [Reader -> 0 .. MaxRead]
      /\ Minus(w, r) \in Nat /\ Minus(e, w) \in Nat /\ Minus(e, r) \in Nat
      /\ Minus(w, r) + Minus(e, w) = Minus(e, r) /\ Minus(e, r) <= INPUT_BUF_SIZE
  BY Distances DEF ConsInv, ConsoleTypeOK
<1>3. NoSleepOnInput /\ LineClean
  BY DEF ConsInv
<1>4. CASE ConsPut(key)
  <2> DEFINE c == IF key = CR THEN NL ELSE key
             t == Minus(e, r)
             done == c \in {NL, EOF} \/ t + 1 = INPUT_BUF_SIZE
  <2>1. /\ c \in Stored /\ r' = r /\ e' = Plus(e, 1)
        /\ Minus(e', r) = t + 1 /\ t < INPUT_BUF_SIZE
        /\ buf' \in [0 .. INPUT_BUF_SIZE - 1 -> Stored]
        /\ \A i \in 0 .. t - 1 : buf'[Slot(Plus(r, i))] = At(r, i)
        /\ buf'[Slot(Plus(r, t))] = c
        /\ IF done THEN w' = e' /\ WakeReaders ELSE w' = w /\ at' = at
        /\ holder' = holder /\ n' = n /\ target' = target
    BY <1>4, PutLemma
  <2>2. e' \in 0 .. Word - 1 /\ w' \in 0 .. Word - 1
    BY <1>2, <2>1, RingLemma
  <2>3. at' \in [Reader -> Places]
    BY <1>2, <2>1 DEF WakeReaders, Places
  <2>4. ConsoleTypeOK'
    BY <1>2, <2>1, <2>2, <2>3 DEF ConsoleTypeOK
  <2>5. NoSleepOnInput'
    BY <1>2, <1>3, <2>1 DEF NoSleepOnInput, WakeReaders
  <2> HIDE DEF c, t
  <2>6. t \in Nat /\ t = Minus(e, r)
    BY <1>2 DEF t
  <2>7. CASE done
    <3>1. Minus(e', w') = 0 /\ Minus(w', r') = t + 1 /\ Minus(e', r') = t + 1
      BY <2>1, <2>2, <2>7, RingLemma
    <3>2. IndicesOrdered'
      BY <3>1, <2>1, <2>6, Sizes DEF IndicesOrdered, Minus
    <3>3. LineClean'
      BY <3>1 DEF LineClean, Minus
    <3> QED
      BY <2>4, <2>5, <3>2, <3>3 DEF ConsInv
  <2>8. CASE ~done
    <3>1. w' = w /\ r' = r /\ Minus(e, w) < Word - 1
      BY <1>2, <2>1, <2>6, <2>8, Sizes
    <3>2. Minus(e', w') = Minus(e, w) + 1 /\ Minus(e', r') = t + 1
      BY <1>2, <2>1, <3>1, RingLemma
    <3>3. IndicesOrdered'
      <4>1. Minus(w', r') + Minus(e', w') = Minus(e', r')
            /\ Minus(e', r') <= INPUT_BUF_SIZE
        BY <1>2, <2>1, <2>6, <3>1, <3>2, Sizes, SMTT(30)
      <4> QED
        BY <4>1 DEF IndicesOrdered, Minus
    <3>4. ASSUME NEW i \in 0 .. Minus(e, w)
          PROVE  buf'[Slot(Plus(w, i))] \notin {NL, EOF}
      <4> DEFINE k == Minus(w, r) + i
      <4>1. k \in 0 .. t /\ k < Word /\ i \in Nat
        <5>1. /\ Minus(w, r) \in Nat /\ Minus(e, w) \in Nat /\ t \in Nat
              /\ Minus(w, r) + Minus(e, w) = t /\ t < INPUT_BUF_SIZE
          BY <1>2, <2>1, <2>6
        <5> QED
          BY <5>1, Sizes
      <4>2. Plus(w, i) = Plus(r, k)
        BY <4>1, Distances
      <4>3. CASE k = t
        BY <4>2, <4>3, <2>1, <2>8
      <4>4. CASE k # t
        <5>1. k \in 0 .. t - 1 /\ i \in 0 .. Minus(e, w) - 1
          BY <1>2, <2>6, <4>1, <4>4
        <5>2. buf'[Slot(Plus(w, i))] = At(w, i)
          BY <5>1, <4>2, <2>1 DEF At
        <5> QED
          BY <5>1, <5>2, <1>3 DEF LineClean
      <4> QED
        BY <4>3, <4>4
    <3>5. LineClean'
      <4>1. \A i \in 0 .. Minus(e', w') - 1 : i \in 0 .. Minus(e, w)
        BY <3>2, <1>2
      <4>2. \A i \in 0 .. Minus(e', w') - 1 : buf'[Slot(Plus(w', i))] \notin {NL, EOF}
        BY <4>1, <3>1, <3>4
      <4> QED
        BY <4>2 DEF LineClean, At, Minus, Plus, Slot
    <3> QED
      BY <2>4, <2>5, <3>3, <3>5 DEF ConsInv
  <2> QED
    BY <2>7, <2>8
<1>5. CASE ConsDelete(key)
  <2>1. /\ e # w /\ e' = Minus(e, 1) /\ buf' = buf /\ r' = r /\ w' = w
        /\ holder' = holder /\ at' = at /\ n' = n /\ target' = target
    BY <1>5 DEF ConsDelete
  <2>2. /\ e' \in 0 .. Word - 1 /\ Minus(e', w) = Minus(e, w) - 1
        /\ Minus(e, w) # 0
    BY <1>2, <2>1, RingLemma
  <2>3. Minus(e, r) # 0
    BY <1>2, <2>2
  <2>4. Minus(e', r) = Minus(e, r) - 1
    BY <1>2, <2>1, <2>3, RingLemma
  <2>5. ConsoleTypeOK' /\ NoSleepOnInput'
    BY <1>2, <1>3, <2>1, <2>2 DEF ConsoleTypeOK, NoSleepOnInput
  <2>6. IndicesOrdered'
    <3>1. /\ Minus(w', r') = Minus(w, r)
          /\ Minus(e', w') = Minus(e, w) - 1 /\ Minus(e', r') = Minus(e, r) - 1
      BY <2>1, <2>2, <2>4
    <3>2. Minus(w', r') + Minus(e', w') = Minus(e', r')
          /\ Minus(e', r') <= INPUT_BUF_SIZE
      BY <3>1, Distances, Sizes
    <3> QED
      BY <3>2 DEF IndicesOrdered, Minus
  <2>7. LineClean'
    <3>1. \A i \in 0 .. Minus(e', w') - 1 : i \in 0 .. Minus(e, w) - 1
      BY <1>2, <2>1, <2>2
    <3>2. \A i \in 0 .. Minus(e', w') - 1 : buf'[Slot(Plus(w', i))] \notin {NL, EOF}
      BY <3>1, <2>1, <1>3 DEF LineClean, At
    <3> QED
      BY <3>2 DEF LineClean, At, Minus, Plus, Slot
  <2> QED
    BY <2>5, <2>6, <2>7 DEF ConsInv
<1>6. CASE ConsKill(key)
  <2>1. /\ e' = w /\ buf' = buf /\ r' = r /\ w' = w
        /\ holder' = holder /\ at' = at /\ n' = n /\ target' = target
    BY <1>6, KillLemma DEF ConsKill
  <2>2. Minus(e', w') = 0 /\ Minus(e', r') = Minus(w, r) /\ Minus(w', r') = Minus(w, r)
    BY <1>2, <2>1, RingLemma
  <2>3. ConsoleTypeOK' /\ NoSleepOnInput'
    BY <1>2, <1>3, <2>1 DEF ConsoleTypeOK, NoSleepOnInput
  <2>4. IndicesOrdered'
    <3>1. Minus(w', r') + Minus(e', w') = Minus(e', r')
          /\ Minus(e', r') <= INPUT_BUF_SIZE
      BY <1>2, <2>2, Sizes
    <3> QED
      BY <3>1 DEF IndicesOrdered, Minus
  <2>5. LineClean'
    BY <2>2 DEF LineClean, Minus
  <2> QED
    BY <2>3, <2>4, <2>5 DEF ConsInv
<1> QED
  BY <1>1, <1>4, <1>5, <1>6

\* Steps of a reader.
LEMMA ReaderKeeps ==
    ASSUME ConsInv, NEW p \in Reader, ReadStart(p) \/ Signalled(p) \/ Reading(p)
    PROVE  ConsInv'
<1>1. /\ buf \in [0 .. INPUT_BUF_SIZE - 1 -> Stored]
      /\ r \in 0 .. Word - 1 /\ w \in 0 .. Word - 1 /\ e \in 0 .. Word - 1
      /\ holder \in Reader \cup {NoReader} /\ at \in [Reader -> Places]
      /\ n \in [Reader -> 0 .. MaxRead] /\ target \in [Reader -> 0 .. MaxRead]
      /\ Minus(w, r) \in Nat /\ Minus(e, w) \in Nat /\ Minus(e, r) \in Nat
      /\ Minus(w, r) + Minus(e, w) = Minus(e, r) /\ Minus(e, r) <= INPUT_BUF_SIZE
      /\ MaxRead \in Nat /\ 0 \in 0 .. MaxRead
  BY Distances, ConsoleAssumption, SMTT(30) DEF ConsInv, ConsoleTypeOK
<1>2. NoSleepOnInput /\ LineClean /\ IndicesOrdered
  BY DEF ConsInv
<1>3. buf' = buf /\ w' = w /\ e' = e
  BY DEF ReadStart, Signalled, Reading, ReadLock, ReadSleep, ReadEOF, ReadByte
<1>4. LineClean'
  BY <1>2, <1>3, KeepsLine
<1>5. r' = r \/ (r # w /\ r' = Plus(r, 1))
  BY DEF ReadStart, Signalled, Reading, ReadLock, ReadSleep, ReadEOF, ReadByte
<1>6. r' \in 0 .. Word - 1 /\ IndicesOrdered'
  <2>1. CASE r' = r
    BY <1>1, <1>2, <1>3, <2>1 DEF IndicesOrdered, Minus
  <2>2. CASE r # w /\ r' = Plus(r, 1)
    <3>1. /\ r' \in 0 .. Word - 1 /\ Minus(e', w') = Minus(e, w)
          /\ Minus(w', r') = Minus(w, r) - 1 /\ Minus(e', r') = Minus(e, r) - 1
      BY <1>3, <2>2, TakeLemma
    <3>2. /\ Minus(w', r') + Minus(e', w') = Minus(e', r')
          /\ Minus(e', r') <= INPUT_BUF_SIZE
      BY <3>1, Distances, Sizes
    <3> QED
      BY <3>1, <3>2 DEF IndicesOrdered, Minus
  <2> QED
    BY <1>5, <2>1, <2>2
<1>7. holder' \in Reader \cup {NoReader} /\ at' \in [Reader -> Places]
  BY <1>1 DEF ReadStart, Signalled, Reading, ReadLock, ReadSleep, ReadEOF, ReadByte,
              Return, Places
<1>8. n' \in [Reader -> 0 .. MaxRead] /\ target' \in [Reader -> 0 .. MaxRead]
  <2>1. CASE ReadStart(p)
    BY <1>1, <2>1 DEF ReadStart
  <2>2. CASE Signalled(p) \/ ReadLock(p) \/ ReadSleep(p)
    BY <1>1, <2>2 DEF Signalled, ReadLock, ReadSleep
  <2>3. CASE ReadEOF(p)
    BY <1>1, <2>3 DEF ReadEOF, Return
  <2>4. CASE ReadByte(p)
    <3>1. CASE Return(p)
      BY <1>1, <3>1 DEF Return
    <3>2. CASE n[p] > 1 /\ n' = [n EXCEPT ![p] = @ - 1] /\ target' = target
      <4>1. n[p] - 1 \in 0 .. MaxRead
        BY <1>1, <3>2
      <4> QED
        BY <1>1, <3>2, <4>1
    <3> QED
      BY <2>4, <3>1, <3>2 DEF ReadByte
  <2> QED
    BY <2>1, <2>2, <2>3, <2>4 DEF Reading
<1>9. ConsoleTypeOK'
  BY <1>1, <1>3, <1>6, <1>7, <1>8 DEF ConsoleTypeOK
<1>10. NoSleepOnInput'
  <2>1. CASE r' = r
    BY <1>1, <1>2, <1>3, <2>1
       DEF NoSleepOnInput, ReadStart, Signalled, Reading, ReadLock, ReadSleep,
           ReadEOF, ReadByte, Return
  <2>2. CASE r # w /\ (ReadEOF(p) \/ ReadByte(p))
    BY <1>1, <1>2, <2>2 DEF NoSleepOnInput, ReadEOF, ReadByte, Return
  <2> QED
    BY <1>5, <2>1, <2>2 DEF ReadStart, Signalled, Reading, ReadLock, ReadSleep,
                            ReadEOF, ReadByte
<1> QED
  BY <1>4, <1>6, <1>9, <1>10 DEF ConsInv

\* The invariant holds in every state.
LEMMA ConsInvariant == ConsoleSpec => []ConsInv
<1>1. ConsInv /\ [ConsoleNext]_consoleVars => ConsInv'
  <2> SUFFICES ASSUME ConsInv, [ConsoleNext]_consoleVars PROVE ConsInv'
    OBVIOUS
  <2>1. CASE UNCHANGED consoleVars
    <3>1. LineClean'
      BY <2>1, KeepsLine DEF consoleVars, ConsInv
    <3> QED
      BY <2>1, <3>1 DEF consoleVars, ConsInv, ConsoleTypeOK, NoSleepOnInput, IndicesOrdered, Minus
  <2> QED
    BY <2>1, InterruptKeeps, ReaderKeeps DEF ConsoleNext
<1> QED
  BY <1>1, ConsInit, PTL DEF ConsoleSpec

-----------------------------------------------------------------------------
(* The theorems *)

\* The indices stay 32-bit words, and no reader of user_console_read()
\* (os/console.c) sleeps on input that has arrived, for any number of readers
\* and any length of the buffer.
THEOREM ReadersAreSound == ConsoleSpec => []ReaderSound
<1>1. ConsInv => ReaderSound
  BY DEF ConsInv, ReaderSound
<1> QED
  BY <1>1, ConsInvariant, PTL

-----------------------------------------------------------------------------
(* The ring implements the edited line and the queue of finished input *)

\* The two windows as sequences.
WindowsOK ==
    /\ Window(r, w) \in Seq(Stored) /\ Len(Window(r, w)) = Minus(w, r)
    /\ Window(w, e) \in Seq(Stored) /\ Len(Window(w, e)) = Minus(e, w)
    /\ \A i \in 1 .. Minus(w, r) : Window(r, w)[i] = buf[Slot(Plus(r, i - 1))]
    /\ \A i \in 1 .. Minus(e, w) : Window(w, e)[i] = buf[Slot(Plus(w, i - 1))]

\* A window of at most a word is a sequence of stored characters.
LEMMA WindowLemma ==
    ASSUME ConsoleTypeOK, NEW a \in 0 .. Word - 1, NEW b \in 0 .. Word - 1
    PROVE  /\ Window(a, b) \in Seq(Stored)
           /\ Len(Window(a, b)) = Minus(b, a)
           /\ \A i \in 1 .. Minus(b, a) : Window(a, b)[i] = buf[Slot(Plus(a, i - 1))]
<1> DEFINE d == Minus(b, a)
<1>1. d \in Nat /\ d < Word /\ Word \in Nat
  <2>1. d \in 0 .. Word - 1
    BY MinusLemma
  <2> HIDE DEF d
  <2> QED
    BY <2>1, Sizes
<1>2. ASSUME NEW i \in 1 .. d
      PROVE  buf[Slot(Plus(a, i - 1))] \in Stored
  <2>1. i - 1 \in 0 .. Word - 1
    BY <1>1
  <2>2. Slot(Plus(a, i - 1)) \in 0 .. INPUT_BUF_SIZE - 1
    BY <2>1, PlusLemma, SlotRange
  <2> QED
    BY <2>2 DEF ConsoleTypeOK
<1>3. Window(a, b) = [i \in 1 .. d |-> buf[Slot(Plus(a, i - 1))]]
  BY DEF Window
<1> HIDE DEF d
<1>4. Window(a, b) \in Seq(Stored) /\ Len(Window(a, b)) = d
  BY <1>1, <1>2, <1>3
<1>5. \A i \in 1 .. d : Window(a, b)[i] = buf[Slot(Plus(a, i - 1))]
  BY <1>3
<1> QED
  BY <1>4, <1>5 DEF d

\* The windows in a state of the console.
LEMMA WindowsLemma == ConsInv => WindowsOK
<1> SUFFICES ASSUME ConsInv PROVE WindowsOK
  OBVIOUS
<1>1. ConsoleTypeOK /\ r \in 0 .. Word - 1 /\ w \in 0 .. Word - 1 /\ e \in 0 .. Word - 1
  BY DEF ConsInv, ConsoleTypeOK
<1> QED
  BY <1>1, WindowLemma DEF WindowsOK

\* A character is stored: appended to the line, or the line with it is passed on.
LEMMA PutRefines ==
    ASSUME ConsInv, WindowsOK, WindowsOK', NEW key \in Key, ConsPut(key)
    PROVE  Input!Next
<1> DEFINE c == IF key = CR THEN NL ELSE key
           t == Minus(e, r)
           rd == Minus(w, r)
           ln == Minus(e, w)
           ready == Window(r, w)
           line == Window(w, e)
           ready2 == Window(r, w)'
           line2 == Window(w, e)'
           done == c \in {NL, EOF} \/ t + 1 = INPUT_BUF_SIZE
<1>1. /\ c \in Stored /\ r' = r /\ e' = Plus(e, 1)
      /\ Minus(e', r) = t + 1 /\ t < INPUT_BUF_SIZE
      /\ \A i \in 0 .. t - 1 : buf'[Slot(Plus(r, i))] = At(r, i)
      /\ buf'[Slot(Plus(r, t))] = c
      /\ IF done THEN w' = e' ELSE w' = w
  BY PutLemma
<1>2. /\ r \in 0 .. Word - 1 /\ w \in 0 .. Word - 1 /\ e \in 0 .. Word - 1
      /\ e' \in 0 .. Word - 1
      /\ t \in Nat /\ rd \in Nat /\ ln \in Nat /\ rd + ln = t /\ t < Word - 1
      /\ \A i \in Nat : rd + i < Word => Plus(w, i) = Plus(r, rd + i)
  <2>1. /\ r \in 0 .. Word - 1 /\ w \in 0 .. Word - 1 /\ e \in 0 .. Word - 1
        /\ t \in Nat /\ rd \in Nat /\ ln \in Nat /\ rd + ln = t
        /\ \A i \in Nat : rd + i < Word => Plus(w, i) = Plus(r, rd + i)
    BY Distances
  <2>2. t < Word - 1
    BY <1>1, <2>1, Sizes
  <2>3. e' \in 0 .. Word - 1
    BY <1>1, <2>1, RingLemma
  <2> QED
    BY <2>1, <2>2, <2>3
<1>3. /\ ready \in Seq(Stored) /\ Len(ready) = rd
      /\ line \in Seq(Stored) /\ Len(line) = ln
      /\ \A i \in 1 .. rd : ready[i] = buf[Slot(Plus(r, i - 1))]
      /\ \A i \in 1 .. ln : line[i] = buf[Slot(Plus(w, i - 1))]
  BY DEF WindowsOK
<1>4. /\ ready2 \in Seq(Stored) /\ Len(ready2) = Minus(w', r')
      /\ line2 \in Seq(Stored) /\ Len(line2) = Minus(e', w')
      /\ \A i \in 1 .. Minus(w', r') : ready2[i] = buf'[Slot(Plus(r', i - 1))]
      /\ \A i \in 1 .. Minus(e', w') : line2[i] = buf'[Slot(Plus(w', i - 1))]
  BY DEF WindowsOK, Minus, Plus, Slot
<1> HIDE DEF c, t, rd, ln, ready, line, ready2, line2
<1>5. \A i \in 1 .. rd : buf'[Slot(Plus(r, i - 1))] = ready[i]
  <2> SUFFICES ASSUME NEW i \in 1 .. rd
               PROVE  buf'[Slot(Plus(r, i - 1))] = ready[i]
    OBVIOUS
  <2>1. i - 1 \in 0 .. t - 1
    BY <1>2
  <2>2. buf'[Slot(Plus(r, i - 1))] = At(r, i - 1)
    BY <2>1, <1>1
  <2> QED
    BY <2>2, <1>3 DEF At
<1>6. ASSUME NEW i \in 1 .. ln
      PROVE  /\ Plus(w, i - 1) = Plus(r, rd + (i - 1))
             /\ buf'[Slot(Plus(w, i - 1))] = line[i]
  <2>1. i - 1 \in Nat /\ rd + (i - 1) \in 0 .. t - 1 /\ rd + (i - 1) < Word
    <3>1. t \in Nat /\ rd \in Nat /\ ln \in Nat /\ rd + ln = t /\ t < Word - 1
      BY <1>2
    <3> QED
      BY <3>1, Sizes
  <2>2. Plus(w, i - 1) = Plus(r, rd + (i - 1))
    BY <2>1, <1>2
  <2>3. buf'[Slot(Plus(r, rd + (i - 1)))] = At(r, rd + (i - 1))
    BY <2>1, <1>1
  <2> QED
    BY <2>2, <2>3, <1>3 DEF At
<1>7. CASE done
  <2>1. w' = e'
    BY <1>1, <1>7
  <2>2. Minus(w', r') = t + 1 /\ Minus(e', w') = 0
    BY <1>1, <1>2, <2>1, RingLemma
  <2>3. line2 = <<>>
    BY <1>4, <2>2
  <2> DEFINE all == ready \o line
             new == Append(all, c)
  <2>4. /\ all \in Seq(Stored) /\ Len(all) = t
        /\ \A i \in 1 .. t : all[i] = IF i <= rd THEN ready[i] ELSE line[i - rd]
    BY <1>2, <1>3, ConcatProperties, ZenonT(40)
  <2> HIDE DEF all
  <2>5. /\ new \in Seq(Stored) /\ Len(new) = t + 1 /\ new[t + 1] = c
        /\ \A i \in 1 .. t : new[i] = all[i]
    BY <2>4, <1>1, AppendProperties
  <2> HIDE DEF new
  <2>6. ASSUME NEW i \in 1 .. t + 1
        PROVE  ready2[i] = new[i]
    <3>1. ready2[i] = buf'[Slot(Plus(r, i - 1))]
      BY <1>1, <1>4, <2>2
    <3>2. CASE i \in 1 .. rd
      <4>1. i \in 1 .. t /\ i <= rd
        BY <3>2, <1>2
      <4> QED
        BY <4>1, <3>1, <3>2, <1>5, <2>4, <2>5
    <3>3. CASE i \in rd + 1 .. t
      <4>1. i \in 1 .. t /\ ~(i <= rd) /\ i - rd \in 1 .. ln
            /\ rd + ((i - rd) - 1) = i - 1
        BY <3>3, <1>2
      <4>2. Plus(w, (i - rd) - 1) = Plus(r, i - 1)
            /\ buf'[Slot(Plus(w, (i - rd) - 1))] = line[i - rd]
        BY <4>1, <1>6
      <4> QED
        BY <4>1, <4>2, <3>1, <2>4, <2>5
    <3>4. CASE i = t + 1
      <4>1. i - 1 = t
        BY <3>4, <1>2
      <4> QED
        BY <4>1, <3>1, <3>4, <1>1, <2>5
    <3> QED
      BY <3>2, <3>3, <3>4, <1>2
  <2>7. ready2 = new
    BY <1>4, <2>2, <2>5, <2>6, SeqEqual
  <2>8. Input!Type(c)
    <3>1. Len(ready) + Len(line) < INPUT_BUF_SIZE
      BY <1>1, <1>2, <1>3
    <3>2. c \in {NL, EOF} \/ Len(ready) + Len(line) + 1 = INPUT_BUF_SIZE
      BY <1>2, <1>3, <1>7
    <3> QED
      BY <3>1, <3>2, <2>3, <2>7 DEF Input!Type, new, all, ready, line, ready2, line2
  <2> QED
    BY <1>1, <2>8 DEF Input!Next
<1>8. CASE ~done
  <2>1. w' = w /\ r' = r
    BY <1>1, <1>8
  <2>2. Minus(w', r') = rd /\ Minus(e', w') = ln + 1
    <3>1. ln < Word - 1
      BY <1>2, Sizes
    <3> QED
      BY <3>1, <1>1, <1>2, <2>1, RingLemma DEF rd, ln
  <2>3. ready2 = ready
    <3>1. \A i \in 1 .. rd : ready2[i] = ready[i]
      BY <1>4, <1>5, <2>1, <2>2
    <3> QED
      BY <3>1, <1>3, <1>4, <2>2, SeqEqual
  <2> DEFINE new == Append(line, c)
  <2>4. /\ new \in Seq(Stored) /\ Len(new) = ln + 1 /\ new[ln + 1] = c
        /\ \A i \in 1 .. ln : new[i] = line[i]
    BY <1>1, <1>3, AppendProperties
  <2> HIDE DEF new
  <2>5. ASSUME NEW i \in 1 .. ln + 1
        PROVE  line2[i] = new[i]
    <3>1. line2[i] = buf'[Slot(Plus(w, i - 1))]
      BY <1>4, <2>1, <2>2
    <3>2. CASE i \in 1 .. ln
      BY <3>1, <3>2, <1>6, <2>4
    <3>3. CASE i = ln + 1
      <4>1. i - 1 = ln /\ ln \in Nat /\ rd + ln < Word
        BY <3>3, <1>2, Sizes
      <4>2. Plus(w, ln) = Plus(r, rd + ln)
        BY <4>1, <1>2
      <4>3. Plus(w, i - 1) = Plus(r, t)
        BY <4>1, <4>2, <1>2
      <4> QED
        BY <3>1, <3>3, <4>3, <1>1, <2>4
    <3> QED
      BY <3>2, <3>3, <1>2
  <2>6. line2 = new
    BY <1>4, <2>2, <2>4, <2>5, SeqEqual
  <2>7. Input!Type(c)
    <3>1. Len(ready) + Len(line) < INPUT_BUF_SIZE
      BY <1>1, <1>2, <1>3
    <3>2. ~(c \in {NL, EOF} \/ Len(ready) + Len(line) + 1 = INPUT_BUF_SIZE)
      BY <1>2, <1>3, <1>8
    <3> QED
      BY <3>1, <3>2, <2>3, <2>6 DEF Input!Type, new, ready, line, ready2, line2
  <2> QED
    BY <1>1, <2>7 DEF Input!Next
<1> QED
  BY <1>7, <1>8

\* Front and Tail of a sequence, element by element.
LEMMA FrontLemma ==
    ASSUME NEW S, NEW s \in Seq(S), Len(s) > 0
    PROVE  /\ Input!Front(s) \in Seq(S)
           /\ Len(Input!Front(s)) = Len(s) - 1
           /\ \A i \in 1 .. Len(s) - 1 : Input!Front(s)[i] = s[i]
<1> DEFINE m == Len(s) - 1
<1>1. Len(s) \in Nat /\ \A i \in 1 .. Len(s) : s[i] \in S
  OBVIOUS
<1>2. Input!Front(s) = SubSeq(s, 1, m)
  BY DEF Input!Front
<1>3. /\ m \in Int /\ m >= 0 /\ m - 1 + 1 = m
      /\ \A i \in 1 .. m : s[i] \in S /\ 1 + i - 1 = i
  BY <1>1
<1>4. /\ SubSeq(s, 1, m) \in Seq(S)
      /\ Len(SubSeq(s, 1, m)) = IF 1 <= m THEN m - 1 + 1 ELSE 0
      /\ \A i \in 1 .. m - 1 + 1 : SubSeq(s, 1, m)[i] = s[1 + i - 1]
  <2> HIDE DEF m
  <2> QED
    BY <1>3, SubSeqProperties
<1>5. /\ Len(SubSeq(s, 1, m)) = m
      /\ \A i \in 1 .. m : SubSeq(s, 1, m)[i] = s[i]
  <2> HIDE DEF m
  <2> QED
    BY <1>3, <1>4
<1> QED
  BY <1>2, <1>4, <1>5

\* The delete key takes the last character of the line, ^U all of them.
LEMMA EditRefines ==
    ASSUME ConsInv, WindowsOK, WindowsOK', NEW key \in Key,
           ConsDelete(key) \/ ConsKill(key)
    PROVE  Input!Next \/ (Window(r, w)' = Window(r, w) /\ Window(w, e)' = Window(w, e))
<1> DEFINE rd == Minus(w, r)
           ln == Minus(e, w)
           line == Window(w, e)
           line2 == Window(w, e)'
<1>1. /\ r \in 0 .. Word - 1 /\ w \in 0 .. Word - 1 /\ e \in 0 .. Word - 1
      /\ rd \in Nat /\ ln \in Nat
  BY Distances
<1>2. buf' = buf /\ r' = r /\ w' = w
  BY DEF ConsDelete, ConsKill
<1>3. Window(r, w)' = Window(r, w)
  BY <1>2 DEF Window, Minus, Plus, Slot
<1>4. /\ line \in Seq(Stored) /\ Len(line) = ln
      /\ \A i \in 1 .. ln : line[i] = buf[Slot(Plus(w, i - 1))]
  BY DEF WindowsOK
<1>5. /\ line2 \in Seq(Stored) /\ Len(line2) = Minus(e', w)
      /\ \A i \in 1 .. Minus(e', w) : line2[i] = buf[Slot(Plus(w, i - 1))]
  BY <1>2 DEF WindowsOK, Minus, Plus, Slot
<1> HIDE DEF line, line2
<1>6. CASE ConsDelete(key)
  <2>1. e # w /\ e' = Minus(e, 1)
    BY <1>6 DEF ConsDelete
  <2>2. ln # 0 /\ Minus(e', w) = ln - 1
    BY <1>1, <2>1, RingLemma
  <2>3. Len(line) > 0 /\ line # <<>>
    BY <1>1, <1>4, <2>2
  <2>4. /\ Input!Front(line) \in Seq(Stored) /\ Len(Input!Front(line)) = ln - 1
        /\ \A i \in 1 .. ln - 1 : Input!Front(line)[i] = line[i]
    BY <1>4, <2>3, FrontLemma
  <2>5. \A i \in 1 .. ln - 1 : line2[i] = line[i]
    <3>1. \A i \in 1 .. ln - 1 : i \in 1 .. ln
      BY <1>1
    <3> QED
      BY <1>4, <1>5, <2>2, <3>1
  <2>6. line2 = Input!Front(line)
    BY <1>5, <2>2, <2>4, <2>5, SeqEqual
  <2> QED
    BY <1>3, <2>3, <2>6 DEF Input!Next, Input!Erase, line, line2
<1>7. CASE ConsKill(key)
  <2>1. e' = w
    BY <1>7, KillLemma DEF ConsKill
  <2>2. Minus(e', w) = 0
    BY <1>1, <2>1, RingLemma
  <2>3. line2 = <<>>
    BY <1>5, <2>2
  <2> QED
    BY <1>3, <2>3 DEF Input!Next, Input!EraseLine, line, line2
<1> QED
  BY <1>6, <1>7

\* A reader takes the first finished character, or none.
LEMMA ReadRefines ==
    ASSUME ConsInv, WindowsOK, WindowsOK', NEW p \in Reader,
           ReadStart(p) \/ Signalled(p) \/ Reading(p)
    PROVE  Input!Next \/ (Window(r, w)' = Window(r, w) /\ Window(w, e)' = Window(w, e))
<1> DEFINE rd == Minus(w, r)
           ready == Window(r, w)
           ready2 == Window(r, w)'
<1>1. buf' = buf /\ w' = w /\ e' = e
  BY DEF ReadStart, Signalled, Reading, ReadLock, ReadSleep, ReadEOF, ReadByte
<1>2. r' = r \/ (r # w /\ r' = Plus(r, 1))
  BY DEF ReadStart, Signalled, Reading, ReadLock, ReadSleep, ReadEOF, ReadByte
<1>3. Window(w, e)' = Window(w, e)
  BY <1>1 DEF Window, Minus, Plus, Slot
<1>4. CASE r' = r
  BY <1>1, <1>3, <1>4 DEF Window, Minus, Plus, Slot
<1>5. CASE r # w /\ r' = Plus(r, 1)
  <2>1. /\ r \in 0 .. Word - 1 /\ rd \in Nat /\ rd > 0 /\ rd < Word
        /\ Minus(w, r') = rd - 1
    <3>1. r \in 0 .. Word - 1 /\ w \in 0 .. Word - 1
      BY Distances
    <3>2. rd \in 0 .. Word - 1
      BY <3>1, MinusLemma
    <3>3. rd > 0 /\ Minus(w, r') = rd - 1
      BY <1>5, TakeLemma
    <3> HIDE DEF rd
    <3> QED
      BY <3>1, <3>2, <3>3, Sizes
  <2>2. /\ ready \in Seq(Stored) /\ Len(ready) = rd
        /\ \A i \in 1 .. rd : ready[i] = buf[Slot(Plus(r, i - 1))]
    BY DEF WindowsOK
  <2>3. /\ ready2 \in Seq(Stored) /\ Len(ready2) = rd - 1
        /\ \A i \in 1 .. rd - 1 : ready2[i] = buf[Slot(Plus(r', i - 1))]
    BY <1>1, <2>1 DEF WindowsOK, Minus, Plus, Slot
  <2> HIDE DEF rd, ready, ready2
  <2>4. ready # <<>>
    BY <2>1, <2>2
  <2>5. /\ Tail(ready) \in Seq(Stored) /\ Len(Tail(ready)) = rd - 1
        /\ \A i \in 1 .. rd - 1 : Tail(ready)[i] = ready[i + 1]
    BY <2>2, <2>4, HeadTailProperties
  <2>6. ASSUME NEW i \in 1 .. rd - 1
        PROVE  ready2[i] = Tail(ready)[i]
    <3>1. /\ i - 1 \in Nat /\ 1 + (i - 1) < Word /\ 1 + (i - 1) = (i + 1) - 1
          /\ i + 1 \in 1 .. rd
      BY <2>1, Sizes
    <3>2. Plus(Plus(r, 1), i - 1) = Plus(r, 1 + (i - 1))
      BY <3>1, <2>1, StepsLemma
    <3>3. ready[i + 1] = buf[Slot(Plus(r, (i + 1) - 1))]
      BY <3>1, <2>2
    <3>4. ready2[i] = buf[Slot(Plus(Plus(r, 1), i - 1))]
      BY <1>5, <2>3
    <3>5. Plus(Plus(r, 1), i - 1) = Plus(r, (i + 1) - 1)
      BY <3>1, <3>2
    <3> QED
      BY <3>3, <3>4, <3>5, <2>5
  <2>7. ready2 = Tail(ready)
    BY <2>3, <2>5, <2>6, SeqEqual
  <2> QED
    BY <1>3, <2>4, <2>7 DEF Input!Next, Input!Take, ready, ready2
<1> QED
  BY <1>2, <1>4, <1>5

\* Every step of the console is a step of the edited line and its queue.
LEMMA StepRefines ==
    ConsInv /\ WindowsOK /\ WindowsOK' /\ [ConsoleNext]_consoleVars
       => [Input!Next]_<<Window(r, w), Window(w, e)>>
<1> SUFFICES ASSUME ConsInv, WindowsOK, WindowsOK', [ConsoleNext]_consoleVars
             PROVE  \/ Input!Next
                    \/ Window(r, w)' = Window(r, w) /\ Window(w, e)' = Window(w, e)
  OBVIOUS
<1>1. CASE UNCHANGED consoleVars
  BY <1>1 DEF consoleVars, Window, Minus, Plus, Slot
<1>2. CASE Interrupt
  BY <1>2, PutRefines, EditRefines DEF Interrupt
<1>3. CASE \E p \in Reader : ReadStart(p) \/ Signalled(p) \/ Reading(p)
  BY <1>3, ReadRefines
<1> QED
  BY <1>1, <1>2, <1>3 DEF ConsoleNext

\* The ring of os/console.c implements an edited line and a queue of finished
\* input: nothing is lost, repeated, reordered or seen too early, through every
\* wrap-around of the indices, for every size of the buffer.
THEOREM ConsoleIsLineInput == ConsoleSpec => IsLineInput
<1>1. InitConsole => Input!Init
  <2> SUFFICES ASSUME InitConsole PROVE Window(r, w) = <<>> /\ Window(w, e) = <<>>
    BY DEF Input!Init
  <2>1. WindowsOK /\ Minus(w, r) = 0 /\ Minus(e, w) = 0
    <3>1. r = 0 /\ w = 0 /\ e = 0 /\ 0 \in 0 .. Word - 1
      BY Sizes DEF InitConsole
    <3> QED
      BY <3>1, ConsInit, WindowsLemma, RingLemma
  <2> QED
    BY <2>1 DEF WindowsOK
<1> QED
  BY <1>1, StepRefines, WindowsLemma, ConsInvariant, PTL
     DEF ConsoleSpec, IsLineInput, Input!Spec, Input!vars
=============================================================================
