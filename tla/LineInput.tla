----------------------------- MODULE LineInput -----------------------------
(***************************************************************************)
(* What the console promises: typed characters are edited in a line that   *)
(* readers do not see; a line that is complete, or that fills the buffer,  *)
(* is appended to what readers take, one character at a time and in order. *)
(***************************************************************************)
EXTENDS Naturals, Sequences, SequencesExt

CONSTANTS Capacity, \* of the buffer, ready characters and the line together
          Char,     \* characters that can be stored
          Enders    \* the characters that complete a line

VARIABLES ready, line

vars == <<ready, line>>

Init == ready = <<>> /\ line = <<>>

Type(c) ==
    LET full == Len(ready) + Len(line) + 1 = Capacity
    IN  /\ Len(ready) + Len(line) < Capacity
        /\ IF c \in Enders \/ full
           THEN ready' = Append(ready \o line, c) /\ line' = <<>>
           ELSE line' = Append(line, c) /\ UNCHANGED ready

Erase == line # <<>> /\ line' = Front(line) /\ UNCHANGED ready

EraseLine == line # <<>> /\ line' = <<>> /\ UNCHANGED ready

Take == ready # <<>> /\ ready' = Tail(ready) /\ UNCHANGED line

Next == (\E c \in Char : Type(c)) \/ Erase \/ EraseLine \/ Take

Spec == Init /\ [][Next]_vars
=============================================================================
