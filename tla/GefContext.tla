----------------------------- MODULE GefContext -----------------------------
(***************************************************************************)
(* The context that src/scripts/gef.py shows whenever the process stops:   *)
(* its panes in the order of the layout, the messages that breakpoints     *)
(* leave for it, the registers it marks as changed, and the memory ranges  *)
(* the user watches.  The state lives on from stop to stop; one step is an *)
(* event of the debugger or one pane.                                      *)
(***************************************************************************)
EXTENDS GefCommand

Watchable == {1, 2}          \* addresses to watch
Values == {-1, 0}            \* of a register as GDB gives it: some are signed
Masked(value) == value % 4   \* align_address()

\* What the panes have shown, each as a sequence of one element.
Nothing == [messages |-> <<>>, watches |-> <<>>, marked |-> <<>>]

\* A name with a minus sign before it ("off") is passed over; "unknown" stands
\* for any name that ContextCommand.layout_mapping does not have.
Panes == {"regs", "memory", "threads", "trace", "extra"}
Layouts ==
    {<<p, q, "extra">> : p \in {"threads", "trace", "off", "unknown"}, q \in {"regs", "memory"}}
    \cup {<<"regs", "memory", "threads", "trace", "extra">>}

-----------------------------------------------------------------------------
\* `raw' is the setting show_registers_raw; `redirect' is a terminal that can be
\* written to.  The process is running, and no hook has run yet.  `due' and
\* `before' say what this stop should show: its messages, and the value the
\* register had when the process was last continued.
ContextInit ==
    \E layout \in Layouts, enable, raw, redirect \in BOOLEAN :
        /\ raw \/ redirect => enable
        /\ job = [cmd |-> "context", layout |-> layout, enable |-> enable, raw |-> raw,
                  redirect |-> redirect]
        /\ st = [status |-> "running", layout |-> <<>>, messages |-> 0, watches |-> {},
                 reg |-> 0, old |-> 0, logging |-> FALSE, selected |-> "user",
                 asked |-> <<>>, seen |-> Nothing, due |-> 0, before |-> 0, cut |-> FALSE]

\* ContextCommand.do_invoke(), up to its loop over the panes.
Begin(s, layout) ==
    IF ~job.enable THEN [s EXCEPT !.status = "shown"]
    ELSE [s EXCEPT !.status = "walking", !.layout = layout, !.asked = layout, !.seen = Nothing,
                   !.logging = @ \/ job.redirect]

\* The process stops, where a breakpoint pushes a message (NamedBreakpoint and
\* others, n = 1) or not, and hook_stop_handler() runs the context.  GDB has
\* selected the thread that stopped.
PushAndStop ==
    /\ job.cmd = "context" /\ st.status = "running"
    /\ UNCHANGED job
    /\ \E value \in Values, n \in 0 .. 1 :
        st' = Begin([st EXCEPT !.reg = value, !.messages = @ + n, !.due = n,
                               !.selected = "user", !.cut = FALSE, !.asked = <<>>,
                               !.seen = Nothing], job.layout)

\* The process is stopped and GDB takes commands.
Prompt == job.cmd = "context" /\ st.status \in {"shown", "raised"}

\* `context PANE', typed.
TypeContext ==
    /\ Prompt
    /\ UNCHANGED job
    /\ \E pane \in Panes : st' = Begin(st, <<pane>>)

\* `set $reg = value'.
SetRegister ==
    /\ Prompt
    /\ UNCHANGED job
    /\ \E value \in Values : st' = [st EXCEPT !.reg = value, !.asked = <<>>, !.seen = Nothing]

\* The hooks of ContextCommand on a continue event: update_registers(), of a
\* register that can be read, and empty_extra_messages().
ContinueHooks == Prompt /\ UNCHANGED job
    /\ st' = [st EXCEPT !.status = "running", !.old = st.reg, !.messages = 0,
                        !.before = st.reg, !.asked = <<>>, !.seen = Nothing]

Watched(ranges) == [st EXCEPT !.watches = ranges, !.asked = <<>>, !.seen = Nothing]

\* MemoryWatchCommand, MemoryUnwatchCommand, MemoryWatchResetCommand.
MemoryWatch == Prompt /\ UNCHANGED job
    /\ \E a \in Watchable : st' = Watched(st.watches \cup {a})
MemoryUnwatch == Prompt /\ UNCHANGED job
    /\ \E a \in Watchable : st' = Watched(st.watches \ {a})
MemoryReset == Prompt /\ UNCHANGED job
    /\ st' = Watched({})

-----------------------------------------------------------------------------
(* The panes.                                                               *)

Rest == [st EXCEPT !.layout = Tail(@)]
Failed == [st EXCEPT !.status = "raised", !.cut = TRUE]

\* Whether the pane of the registers marks the register: context_regs() masks
\* the old value, the command `registers' it otherwise runs does not.
Marked == Masked(st.reg) # IF job.raw THEN Masked(st.old) ELSE st.old

\* context_regs(): of whatever thread is selected by now.  In the raw form, a
\* register that cannot be read raises; the exceptions of the command
\* `registers' end in GenericCommand.invoke().
ContextRegs ==
    {IF st.selected = "user" THEN [Rest EXCEPT !.seen.marked = <<Marked>>] ELSE Rest}
    \cup (IF job.raw THEN {Rest, Failed} ELSE {})

\* context_memory(): each range is shown by a command of its own, so that one
\* that cannot be read does not hide the others.
ContextMemory == [Rest EXCEPT !.seen.watches = <<st.watches>>]

\* context_additional_information()
ContextExtra == [Rest EXCEPT !.seen.messages = <<st.messages>>]

\* context_threads() selects one thread after the other, context_trace() one
\* frame, and at its end what was selected before.  An exception leaves it where
\* it was: a gdb.MemoryError goes on with the next pane, others end the command.
ContextThreads ==
    {Rest} \cup {[s EXCEPT !.selected = "other", !.cut = TRUE] : s \in {Rest, Failed}}
ContextTrace == ContextThreads

\* One pane of the loop of do_invoke(); a name that is not in layout_mapping
\* raises KeyError, which it does not catch.  At the end the redirection ends.
ContextPane ==
    /\ Walking({"context"})
    /\ UNCHANGED job
    /\ IF st.layout = <<>>
       THEN st' = [st EXCEPT !.status = "shown", !.logging = @ /\ ~job.redirect]
       ELSE LET pane == Head(st.layout)
            IN st' \in CASE pane = "regs" -> ContextRegs
                         [] pane = "memory" -> {ContextMemory}
                         [] pane = "threads" -> ContextThreads
                         [] pane = "trace" -> ContextTrace
                         [] pane = "extra" -> {ContextExtra}
                         [] pane = "off" -> {Rest}
                         [] pane = "unknown" -> {Failed}

ContextNext ==
    \/ PushAndStop \/ TypeContext \/ SetRegister \/ ContinueHooks
    \/ MemoryWatch \/ MemoryUnwatch \/ MemoryReset
    \/ ContextPane

-----------------------------------------------------------------------------
(* Properties.                                                             *)

\* What the context shows is of this stop: every message that its breakpoints
\* pushed and none of an earlier stop; every watched range; a register marked
\* whenever it changed since the process was last continued, and in the raw
\* form only then.  A pane that cannot read memory does not hide the panes after
\* it, and unless some pane raised, the user's thread and frame are selected
\* again and the output is no longer redirected.
ContextOfThisStop ==
    job.cmd = "context" =>
        LET seen == st.seen
            changed == st.reg # st.before
            complete == st.status = "shown"
        IN /\ seen.messages \in {<<>>, <<st.due>>}
           /\ complete /\ "extra" \in ToSet(st.asked) => seen.messages # <<>>
           /\ seen.watches \in {<<>>, <<st.watches>>}
           /\ complete /\ "memory" \in ToSet(st.asked) => seen.watches # <<>>
           /\ seen.marked # <<>> =>
                /\ changed => seen.marked[1]
                /\ (job.raw /\ seen.marked[1]) => changed
           /\ complete => ~st.logging
           /\ ~st.cut => st.selected = "user"

=============================================================================
