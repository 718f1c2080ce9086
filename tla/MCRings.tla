------------------------------ MODULE MCRings ------------------------------
(***************************************************************************)
(* Instance of TaskQueue and Console, the two rings of the kernel.  They   *)
(* share no state, so `part` says which of them moves.                     *)
(***************************************************************************)
EXTENDS TaskQueue, Console

VARIABLE part

MCInit == InitQueue /\ InitConsole /\ part \in {"tasks", "console"}

MCNext ==
    /\ UNCHANGED part
    /\ \/ part = "tasks" /\ QueueNext /\ UNCHANGED consoleVars
       \/ part = "console" /\ ConsoleNext /\ UNCHANGED queueVars

\* While the queue moves, no reader is inside read() and none has to proceed.
MCSpec == MCInit /\ [][MCNext]_<<part, queueVars, consoleVars>> /\ ReadersProceed
=============================================================================
