------------------------------ MODULE MCSignal ------------------------------
(* Instance of Signal for TLC. *)
EXTENDS Signal
=============================================================================
