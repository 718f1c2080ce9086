-------------------------------- MODULE Fifo --------------------------------
(***************************************************************************)
(* What the run queue promises: a first-in first-out list.  A pop of an    *)
(* empty queue returns NULL.                                               *)
(***************************************************************************)
EXTENDS Sequences

CONSTANTS Elem, \* the pointers that are queued
          NoElem

VARIABLES items, \* the queued pointers, oldest first
          ret    \* what the last pop returned

Init == items = <<>> /\ ret = NoElem

Push(e) == items' = Append(items, e) /\ ret' = ret

Pop == IF items = <<>> THEN items' = items /\ ret' = NoElem
                       ELSE items' = Tail(items) /\ ret' = Head(items)

Next == Pop \/ \E e \in Elem : Push(e)

Spec == Init /\ [][Next]_<<items, ret>>
=============================================================================
