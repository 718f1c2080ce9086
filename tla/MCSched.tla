------------------------------ MODULE MCSched ------------------------------
(* Instance of Sched for TLC, with mutated forms of its definitions. *)
EXTENDS Sched
=============================================================================
