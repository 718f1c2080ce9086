------------------------------ MODULE PieBreak ------------------------------
(***************************************************************************)
(* The `pie` commands of src/scripts/gef.py: breakpoints at offsets from    *)
(* the base of a position independent program.  A virtual breakpoint has a *)
(* real GDB breakpoint only once a process has told its base, and is       *)
(* instantiated again for every process.  The base comes from the cached   *)
(* memory map, so the commands depend on the session of GefSession.        *)
(*                                                                         *)
(* Every process has its own base: the base of process p is written p.     *)
(***************************************************************************)
EXTENDS GefSession

CONSTANTS
    Offsets,   \* offsets the user sets breakpoints at
    MaxVbp,    \* bound on the virtual breakpoints created
    MaxNum     \* bound on the numbers GDB gives

ASSUME PieBounds == MaxVbp \in Nat /\ MaxNum \in Nat

VARIABLES
    vbps,      \* gef.session.pie_breakpoints: vbp_num -> [off, num]
    counter,   \* gef.session.pie_counter
    real,      \* GDB's breakpoints made by `pie`: number -> [base, off]
    nextNum,   \* the next number GDB gives
    placed     \* history: a `pie` command went through all of them for proc

pieVars == <<vbps, counter, real, nextNum, placed>>
vars == <<sessionVars, pieVars>>

Pies == [vbps |-> vbps, real |-> real, next |-> nextNum, ok |-> TRUE]

-----------------------------------------------------------------------------
\* Mutant: the old real breakpoint is not destroyed.
InstantiateLeaks(st, v, base, refused) ==
    [st EXCEPT !.vbps[v].num = st.next,
               !.real = [n \in DOMAIN @ \cup {st.next} |->
                            IF n = st.next THEN [base |-> base, off |-> st.vbps[v].off] ELSE @[n]],
               !.next = @ + 1]

\* PieVirtualBreakpoint.instantiate(): the old real breakpoint is deleted
\* first.  GDB raises when the user has deleted it already, which ends the
\* command; a new one that GDB refuses is reported, and the command goes on.
Instantiate(st, v, base, refused) ==
    LET old == st.vbps[v].num
        kept == [n \in DOMAIN st.real \ {old} |-> st.real[n]]
    IN IF old # 0 /\ old \notin DOMAIN st.real
       THEN [st EXCEPT !.ok = FALSE]
       ELSE IF v \in refused
       THEN [st EXCEPT !.vbps[v].num = 0, !.real = kept]
       ELSE [st EXCEPT
                !.vbps[v].num = st.next,
                !.real = [n \in DOMAIN kept \cup {st.next} |->
                            IF n = st.next THEN [base |-> base, off |-> st.vbps[v].off]
                            ELSE kept[n]],
                !.next = @ + 1]

\* `for bp_ins in gef.session.pie_breakpoints.values(): bp_ins.instantiate()`,
\* in the order of their numbers, until one raises.
InstantiateAll(st, base, refused) ==
    LET upTo[v \in Nat] ==
            LET before == IF v = 0 THEN st ELSE upTo[v - 1]
            IN IF v \in DOMAIN st.vbps /\ before.ok
               THEN Instantiate(before, v, base, refused)
               ELSE before
    IN upTo[MaxVbp]

SetPies(st) ==
    /\ st.next <= MaxNum
    /\ vbps' = st.vbps /\ real' = st.real /\ nextNum' = st.next

\* What every `pie` command ends with: the base is taken from the maps, in the
\* caches `c`, and all breakpoints are instantiated.  The command raises when there
\* are no maps, or when the path that GDB has of the program is not in them, as
\* that of a local copy of a remote program.
Place(st, c) ==
    \/ SetPies(st) /\ placed' = FALSE
    \/ /\ c.maps # NoView
       /\ \E refused \in SUBSET DOMAIN st.vbps :
            LET all == InstantiateAll(st, c.maps.proc, refused)
            IN SetPies(all) /\ placed' = all.ok

-----------------------------------------------------------------------------
PieInit ==
    /\ vbps = [v \in {} |-> 0] /\ counter = 1
    /\ real = [n \in {} |-> 0] /\ nextNum = 1
    /\ placed = TRUE

\* PieBreakpointCommand: a new virtual breakpoint, and if a process is alive
\* all of them are instantiated.
PieBreakpoint ==
    /\ mode = "prompt" /\ counter <= MaxVbp
    /\ counter' = counter + 1
    /\ \E off \in Offsets :
        LET v == counter
            st == [Pies EXCEPT !.vbps =
                    [w \in DOMAIN vbps \cup {v} |->
                        IF w = v THEN [off |-> off, num |-> 0] ELSE vbps[w]]]
            filled == FillMaps(caches, proc, layout, sess)
        IN \/ /\ proc = 0
              /\ SetPies(st) /\ UNCHANGED <<caches, placed>>
           \/ /\ proc # 0
              /\ Place(st, filled) /\ caches' = filled
    /\ UNCHANGED <<mode, proc, born, layout, lasting, sess, made, ui, failed>>

\* PieDeleteCommand.delete_bp(): for each, the real breakpoint is deleted and
\* then the virtual one; the command ends at the first that raises.
DeleteOne(st, v) ==
    LET num == st.vbps[v].num
    IN IF num # 0 /\ num \notin DOMAIN st.real
       THEN [st EXCEPT !.ok = FALSE]
       ELSE [st EXCEPT !.real = [n \in DOMAIN @ \ {num} |-> @[n]],
                       !.vbps = [w \in DOMAIN @ \ {v} |-> @[w]]]

DeleteAll(st, which) ==
    LET upTo[v \in Nat] ==
            LET before == IF v = 0 THEN st ELSE upTo[v - 1]
            IN IF v \in which /\ before.ok THEN DeleteOne(before, v) ELSE before
    IN upTo[MaxVbp]

PieDelete ==
    /\ mode = "prompt"
    /\ \E which \in SUBSET DOMAIN vbps \ {{}} : SetPies(DeleteAll(Pies, which))
    /\ UNCHANGED <<sessionVars, counter, placed>>

\* GDB's own `delete N`.
UserDelete ==
    /\ mode = "prompt"
    /\ \E n \in DOMAIN real : real' = [m \in DOMAIN real \ {n} |-> real[m]]
    /\ UNCHANGED <<sessionVars, vbps, counter, nextNum, placed>>

\* PieRunCommand: the process is run to its first shared-library event with
\* the context hidden, then the breakpoints are moved and it continues.
\*   "raises":  GDB cannot run the program; the context stays hidden and
\*              stop-on-solib-events stays set.
\*   "ends":    the program ends before any such event, there are no maps.
PieRun ==
    /\ mode = "prompt"
    /\ sess' = AfterKill(sess)
    /\ UNCHANGED <<lasting, made, failed, counter>>
    /\ \/ /\ proc' = 0 /\ layout' = 0 /\ UNCHANGED <<born, mode>>
          /\ caches' = CachesAfterKill
          /\ ui' = [hidden |-> TRUE, solib |-> TRUE]
          /\ UNCHANGED <<vbps, real, nextNum>> /\ placed' = FALSE
       \/ /\ born < MaxProc /\ born' = born + 1 /\ proc' = 0 /\ layout' = 0 /\ UNCHANGED mode
          /\ caches' = ResetAllCaches(caches)
          /\ ui' = [hidden |-> FALSE, solib |-> FALSE]
          /\ UNCHANGED <<vbps, real, nextNum>> /\ placed' = FALSE
       \/ /\ NewProcess
          /\ caches' = FillMaps(ResetAllCaches(caches), born + 1, 0, AfterKill(sess))
          /\ ui' = [hidden |-> FALSE, solib |-> FALSE]
          /\ Place(Pies, caches')
          /\ mode' = IF placed' THEN "running" ELSE "prompt"

\* PieAttachCommand, when GDB can attach.
PieAttach ==
    LET s == AfterKill(sess)
    IN /\ mode = "prompt"
       /\ NewProcess
       /\ sess' = s
       /\ \E seen \in StopHandler(CachesAfterKill, born + 1, 0, s, ui.hidden) :
            LET filled == FillMaps(seen, born + 1, 0, s)
            IN /\ Place(Pies, filled)
               /\ caches' \in Context(filled, born + 1, 0, s, ui.hidden)
       /\ UNCHANGED <<mode, lasting, made, ui, failed, counter>>

\* PieRemoteCommand: gef-remote reports its errors without raising, so the
\* command goes on.  If gef-remote has done nothing, because a session is in force
\* or for its arguments, that is with the process that is there.
PieRemote ==
    /\ mode = "prompt"
    /\ \/ /\ sess.remote = NoRemote
          /\ \E outcome \in {"refused", "broken", "ok"} : GefRemoteOutcome(outcome, TRUE)
       \/ /\ proc # 0
          /\ caches' \in Context(FillMaps(caches, proc, layout, sess), proc, layout, sess,
                                 ui.hidden)
          /\ UNCHANGED <<proc, born, layout, sess, made, ui, failed>>
    /\ Place(Pies, caches')
    /\ UNCHANGED <<mode, lasting, counter>>

-----------------------------------------------------------------------------
Init == SessionInit /\ PieInit

\* A new process has another base: nothing is placed for it until a `pie`
\* command says so.
SessionStep ==
    /\ SessionNext
    /\ placed' = (placed /\ proc' = proc)
    /\ UNCHANGED <<vbps, counter, real, nextNum>>

Next ==
    \/ SessionStep
    \/ PieBreakpoint \/ PieDelete \/ UserDelete \/ PieRun \/ PieAttach \/ PieRemote

Spec == Init /\ [][Next]_vars

-----------------------------------------------------------------------------
(* Properties.                                                             *)

\* No real breakpoint leaks and none is shared: each that a `pie` command has
\* made and GDB still has belongs to exactly one virtual breakpoint, through
\* re-runs, deletions behind gef's back and commands that end half way.
PieOwned ==
    \A n \in DOMAIN real :
        \E v \in DOMAIN vbps : /\ vbps[v].num = n
                               /\ real[n].off = vbps[v].off
                               /\ \A w \in DOMAIN vbps \ {v} : vbps[w].num # n

\* The breakpoints follow the process: once a `pie` command has gone through,
\* and until another process is started without one, no virtual breakpoint has a
\* real one at the base of an earlier process: GDB has it at the present base, or
\* refused it, or the user has deleted it.
PiePlaced ==
    (placed /\ proc # 0) =>
        \A v \in DOMAIN vbps :
            vbps[v].num \in DOMAIN real =>
                real[vbps[v].num] = [base |-> proc, off |-> vbps[v].off]

\* Real and virtual breakpoints correspond, and follow the process.
PieFollows == PieOwned /\ PiePlaced
=============================================================================
