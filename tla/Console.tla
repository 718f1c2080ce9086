------------------------------ MODULE Console ------------------------------
(***************************************************************************)
(* Console input, os/console.c: the ring cons.buf with its indices r, w    *)
(* and e, filled and edited by the UART interrupt and emptied by readers.  *)
(*                                                                         *)
(* consintr() runs under cons.lock and is one step.  A reader keeps        *)
(* cons.lock from one byte to the next and gives it up only in sleep(), so *)
(* `holder' records which reader has it.  The indices are words that wrap  *)
(* around.  Echo, ^P and ^Q only print and are left out.                   *)
(***************************************************************************)
EXTENDS Integers, FiniteSets

CONSTANTS INPUT_BUF_SIZE,
          Word,     \* 2^32, the range of the indices
          Letter,   \* the characters without a special meaning
          NL, CR, EOF, DEL, KILL, \* newline, return, ^D, delete and ^U
          Reader,   \* the processes that read
          NoReader,
          MaxRead   \* bound on the length argument of read()

ASSUME ConsoleAssumption ==
    /\ INPUT_BUF_SIZE \in Nat \ {0} /\ Word \in Nat
    /\ Word > INPUT_BUF_SIZE /\ Word % INPUT_BUF_SIZE = 0
    /\ {NL, CR, EOF, DEL, KILL} \cap Letter = {}
    /\ Cardinality({NL, CR, EOF, DEL, KILL}) = 5
    /\ NoReader \notin Reader /\ MaxRead \in Nat \ {0}

Stored == Letter \cup {NL, EOF}   \* what can be in the buffer

VARIABLES buf, r, w, e,  \* cons
          holder,        \* the reader that holds cons.lock
          at,            \* where a reader is, see Places
          n, target      \* its variables: bytes left and bytes asked for

consoleVars == <<buf, r, w, e, holder, at, n, target>>

\* "user"   not reading
\* "loop"   in the loop, holding cons.lock
\* "sleep"  in sleep(&cons, &cons.lock)
\* "woken"  before acquire(&cons.lock), at first or after a wakeup
Places == {"user", "loop", "sleep", "woken"}

ConsoleTypeOK ==
    /\ buf \in [0 .. INPUT_BUF_SIZE - 1 -> Stored]
    /\ r \in 0 .. Word - 1 /\ w \in 0 .. Word - 1 /\ e \in 0 .. Word - 1
    /\ holder \in Reader \cup {NoReader}
    /\ at \in [Reader -> Places]
    /\ n \in [Reader -> 0 .. MaxRead] /\ target \in [Reader -> 0 .. MaxRead]

\* Unsigned arithmetic of the indices.
Plus(i, k) == (i + k) % Word
Minus(i, k) == (i - k) % Word

Slot(i) == i % INPUT_BUF_SIZE

\* A static struct: zeroes, of which EOF stands for the buffer's.
InitConsole ==
    /\ buf = [i \in 0 .. INPUT_BUF_SIZE - 1 |-> EOF]
    /\ r = 0 /\ w = 0 /\ e = 0
    /\ holder = NoReader
    /\ at = [p \in Reader |-> "user"]
    /\ n = [p \in Reader |-> 0] /\ target = [p \in Reader |-> 0]

-----------------------------------------------------------------------------
(* consintr(c) *)

\* wakeup(&cons)
WakeReaders == at' = [p \in Reader |-> IF at[p] = "sleep" THEN "woken" ELSE at[p]]

\* Mutant: only a newline or ^D ends a line, a full buffer does not.
EndsLineFull(c, end) == c \in {NL, EOF}

\* A line is passed on when it is complete or when the buffer is full.
EndsLine(c, end) == c \in {NL, EOF} \/ Minus(end, r) = INPUT_BUF_SIZE

\* Mutant: ^D is passed on without a wakeup.
ConsPutQuiet(key) ==
    LET c == IF key = CR THEN NL ELSE key
        end == Plus(e, 1)
    IN  /\ holder = NoReader /\ key \in Letter \cup {NL, CR, EOF}
        /\ Minus(e, r) < INPUT_BUF_SIZE
        /\ buf' = [buf EXCEPT ![Slot(e)] = c]
        /\ e' = end
        /\ w' = IF EndsLine(c, end) THEN end ELSE w
        /\ IF c = NL THEN WakeReaders ELSE UNCHANGED at
        /\ UNCHANGED <<r, holder, n, target>>

\* Any other key: stored if there is room (otherwise it is lost).
ConsPut(key) ==
    LET c == IF key = CR THEN NL ELSE key
        end == Plus(e, 1)
    IN  /\ holder = NoReader /\ key \in Letter \cup {NL, CR, EOF}
        /\ Minus(e, r) < INPUT_BUF_SIZE
        /\ buf' = [buf EXCEPT ![Slot(e)] = c]
        /\ e' = end
        /\ IF EndsLine(c, end) THEN w' = end /\ WakeReaders
                               ELSE UNCHANGED <<w, at>>
        /\ UNCHANGED <<r, holder, n, target>>

\* Mutant: the delete key goes back into the previous line.
ConsDeleteAny(key) ==
    /\ holder = NoReader /\ key = DEL
    /\ e # r
    /\ e' = Minus(e, 1)
    /\ UNCHANGED <<buf, r, w, holder, at, n, target>>

\* The delete key.
ConsDelete(key) ==
    /\ holder = NoReader /\ key = DEL
    /\ e # w
    /\ e' = Minus(e, 1)
    /\ UNCHANGED <<buf, r, w, holder, at, n, target>>

\* How many characters ^U takes back: up to w, or to a newline.
Killed == CHOOSE k \in 0 .. Minus(e, w) :
             /\ \A j \in 1 .. k : buf[Slot(Minus(e, j))] # NL
             /\ k = Minus(e, w) \/ buf[Slot(Minus(e, k + 1))] = NL

ConsKill(key) ==
    /\ holder = NoReader /\ key = KILL
    /\ e' = Minus(e, Killed)
    /\ UNCHANGED <<buf, r, w, holder, at, n, target>>

-----------------------------------------------------------------------------
(* user_console_read(); a length of 0 returns at once *)

ReadStart(p) ==
    /\ at[p] = "user"
    /\ \E len \in 1 .. MaxRead : /\ n' = [n EXCEPT ![p] = len]
                                 /\ target' = [target EXCEPT ![p] = len]
    /\ at' = [at EXCEPT ![p] = "woken"]
    /\ UNCHANGED <<buf, r, w, e, holder>>

ReadLock(p) ==
    /\ at[p] = "woken" /\ holder = NoReader
    /\ holder' = p
    /\ at' = [at EXCEPT ![p] = "loop"]
    /\ UNCHANGED <<buf, r, w, e, n, target>>

\* sleep(&cons, &cons.lock)
ReadSleep(p) ==
    /\ at[p] = "loop" /\ r = w
    /\ holder' = NoReader
    /\ at' = [at EXCEPT ![p] = "sleep"]
    /\ UNCHANGED <<buf, r, w, e, n, target>>

\* A signal makes a sleeper runnable; the loop does not look for the reason.
Signalled(p) ==
    /\ at[p] = "sleep"
    /\ at' = [at EXCEPT ![p] = "woken"]
    /\ UNCHANGED <<buf, r, w, e, holder, n, target>>

Return(p) ==
    /\ holder' = NoReader
    /\ at' = [at EXCEPT ![p] = "user"]
    /\ n' = [n EXCEPT ![p] = 0] /\ target' = [target EXCEPT ![p] = 0]

\* ^D ends the read.  It is kept for the next one if this one has bytes.
ReadEOF(p) ==
    /\ at[p] = "loop" /\ r # w
    /\ buf[Slot(r)] = EOF
    /\ r' = IF n[p] < target[p] THEN r ELSE Plus(r, 1)
    /\ Return(p)
    /\ UNCHANGED <<buf, w, e>>

\* A byte is copied to the user; a newline and a full buffer end the read, and
\* so does a failing copy_to_user(), which loses the byte.
ReadByte(p) ==
    /\ at[p] = "loop" /\ r # w
    /\ buf[Slot(r)] # EOF
    /\ r' = Plus(r, 1)
    /\ \/ Return(p)
       \/ /\ buf[Slot(r)] # NL /\ n[p] > 1
          /\ n' = [n EXCEPT ![p] = @ - 1]
          /\ UNCHANGED <<holder, at, target>>
    /\ UNCHANGED <<buf, w, e>>

-----------------------------------------------------------------------------
Key == Letter \cup {NL, CR, EOF, DEL, KILL}

Interrupt == \E key \in Key : ConsPut(key) \/ ConsDelete(key) \/ ConsKill(key)

Reading(p) == ReadLock(p) \/ ReadSleep(p) \/ ReadEOF(p) \/ ReadByte(p)

ConsoleNext == Interrupt \/ \E p \in Reader : ReadStart(p) \/ Signalled(p) \/ Reading(p)

ConsoleSpec == InitConsole /\ [][ConsoleNext]_consoleVars

\* A reader in the kernel goes on, even if others keep taking cons.lock.
ReadersProceed == \A p \in Reader : SF_consoleVars(Reading(p))

FairConsoleSpec == ConsoleSpec /\ ReadersProceed

-----------------------------------------------------------------------------
(* Properties *)

\* The characters between two indices, oldest first.
Window(from, to) == [i \in 1 .. Minus(to, from) |-> buf[Slot(Plus(from, i - 1))]]

\* The three indices implement an edited line and a queue of finished input:
\* nothing is lost, repeated, reordered or seen by a reader before its line is
\* complete, wherever the indices are and through every wrap-around.
Input == INSTANCE LineInput WITH
            Capacity <- INPUT_BUF_SIZE, Char <- Stored, Enders <- {NL, EOF},
            ready <- Window(r, w), line <- Window(w, e)
IsLineInput == Input!Spec

\* No reader sleeps while there is input, a full buffer without newline and a
\* ^D included: every line wakes the readers, and none goes to sleep late.
NoSleepOnInput == \A p \in Reader : at[p] = "sleep" => r = w

\* The indices of the ring are 32-bit numbers that wrap, and no reader sleeps
\* on input that has arrived.
ReaderSound == ConsoleTypeOK /\ NoSleepOnInput

\* The console does not lock up when it is full: as long as somebody reads,
\* there is room for a key again and again, though the line be unfinished.
RoomAgain ==
    Minus(e, r) = INPUT_BUF_SIZE /\ (\E p \in Reader : at[p] # "user")
       ~> Minus(e, r) < INPUT_BUF_SIZE \/ \A p \in Reader : at[p] = "user"
=============================================================================
