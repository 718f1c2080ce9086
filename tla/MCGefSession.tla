---------------------------- MODULE MCGefSession ----------------------------
(***************************************************************************)
(* Instance of PieBreak, and with it of GefSession, of HeapTrace and of    *)
(* GefConfig.  The session with its `pie` breakpoints, the tracker of the  *)
(* heap and the configuration share no state, so each behaviour has all of *)
(* them but one at rest: `part` says which of them moves.                  *)
(***************************************************************************)
EXTENDS PieBreak, HeapTrace, GefConfig, TLC

VARIABLE part

\* The threads are interchangeable, and so are the offsets of breakpoints.
Symmetry == Permutations(Threads) \cup Permutations(Offsets)

\* No guard and no invariant of the run reads the last report, `disabled` or `lasting`
\* (HeapInspect fills the caches as Inspect does), and nothing reads `seen` once
\* `blind` holds (both are reset together).
Tracked == <<part, mode, proc, born, layout, caches, sess, made, ui, failed, pieVars,
             configVars, alive, live, calls, [tracker EXCEPT !.report = "none"],
             sets, owned, hooks, hw, IF blind THEN {} ELSE seen, reused, blind>>

MCInit ==
    /\ Init /\ TraceInit /\ ConfigInit
    /\ part \in {"session", "heap", "config"}

MCNext ==
    /\ UNCHANGED part
    /\ \/ part = "session" /\ Next /\ UNCHANGED <<traceVars, configVars>>
       \/ part = "heap" /\ TraceNext /\ UNCHANGED <<vars, configVars>>
       \/ part = "config" /\ ConfigNext /\ UNCHANGED <<vars, traceVars>>

MCSpec == MCInit /\ [][MCNext]_<<part, vars, traceVars, configVars>>
=============================================================================
