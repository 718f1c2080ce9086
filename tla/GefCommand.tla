----------------------------- MODULE GefCommand -----------------------------
(***************************************************************************)
(* A command of the debugger extension at work: `job' is what it was given *)
(* (the command, its arguments and the memory it reads, which does not     *)
(* change while the process is stopped) and `st' is the state of its loop. *)
(* GDB runs one command at a time, and a command runs until its loop ends. *)
(***************************************************************************)
EXTENDS Integers, Sequences, FiniteSets, SequencesExt

VARIABLES job, st

vars == <<job, st>>

\* The status of a command: "walking" until its loop ends, then how it ended.
Walking(cmds) == job.cmd \in cmds /\ st.status = "walking"

Ended == st.status # "walking"

=============================================================================
