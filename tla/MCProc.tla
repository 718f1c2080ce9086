------------------------------- MODULE MCProc -------------------------------
(* Instances of Proc for TLC: the system calls of the programs. *)
EXTENDS Proc, TLC

\* Everybody forks, waits and exits; all but init kill.
AnyCalls == [p \in 0 .. 2 |-> {"fork", "wait", "exit"}
                                \cup (IF p = InitProc THEN {} ELSE {"kill", "sigkill"})]

\* Nobody kills.
NoKill == [p \in 0 .. 2 |-> {"fork", "wait", "exit"}]

\* Four slots.  Enough for a fork() and a kill() that wait for each other: the
\* child's slot must come before those of the victim and of its parent.
FourCalls == <<{"exit"}, {"fork", "kill"}, {"fork"}>> @@ 0 :> {"fork", "wait"}
=============================================================================
