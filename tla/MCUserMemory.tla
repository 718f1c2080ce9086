---------------------------- MODULE MCUserMemory ----------------------------
(***************************************************************************)
(* Instance of Vm and SigFrame: the address spaces of two processes, and   *)
(* the signal frames on the stack inside one.  Neither looks at the state  *)
(* of the other, so `part` says which of them moves.                       *)
(***************************************************************************)
EXTENDS Vm, SigFrame

VARIABLE part

\* Eight user pages: program 0, heap 1 and 2, stack 3 and 4, one that is free,
\* trapframe and trampoline.  From an empty heap the smallest increment takes
\* brk below address 0 and the largest takes it past the stack.
MCSpan == <<2, 4>>
MCStack == [s |-> 3, e |-> 5]
MCIncrements == {-3, 1, 4, 10}

\* States that differ only in which page is where behave alike, as long as every
\* page has one owner: TLC tells states apart by what is mapped, not by what to.
Shape == <<Cardinality(free), Cardinality(lost), PagesAccounted,
           {m \in Mm : root[m] # NoPage},
           {x \in Mm \X Table : tab[x[1]][x[2]] # NoPage},
           {x \in Mm \X Va : pte[x[1]][x[2]] # NoPage},
           vmas, cur, brk, pc, oper, panicked, overrun>>

\* The part that rests is in its initial state.
Moving == IF part = "spaces" THEN <<part, Shape>> ELSE <<part, frameVars>>

MCInit == Init /\ FrameInit /\ part \in {"spaces", "frames"}

MCNext ==
    /\ UNCHANGED part
    /\ \/ part = "spaces" /\ Next /\ UNCHANGED frameVars
       \/ part = "frames" /\ FrameNext /\ UNCHANGED vars

MCSpec == MCInit /\ [][MCNext]_<<part, vars, frameVars>>
=============================================================================
