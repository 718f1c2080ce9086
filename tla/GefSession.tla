----------------------------- MODULE GefSession -----------------------------
(***************************************************************************)
(* The session kept by the debugger extension src/scripts/gef.py: what it  *)
(* caches about the debugged process, the GDB events that empty the        *)
(* caches, and remote sessions, which replace the handler of new object    *)
(* files while they last.                                                  *)
(*                                                                         *)
(* GDB and the debugged process are the environment.  GDB runs one Python  *)
(* handler or command at a time, so each is one action; the process runs   *)
(* (mode "running") between `continue` and the next event.                 *)
(***************************************************************************)
EXTENDS Naturals, Sequences, FiniteSets

CONSTANTS
    GdbMaps,      \* GDB is version 11 or later: it can be asked for the memory map
    MaxProc,      \* bound on the processes started or connected to
    MaxSessions   \* bound on the GefRemoteSessionManager objects created

ASSUME SessionBounds == MaxProc \in Nat /\ MaxSessions \in Nat
ASSUME GdbVersion == GdbMaps \in BOOLEAN

VARIABLES
    mode,      \* "prompt" or "running"
    proc,      \* the debugged process, 0 when there is none
    born,      \* processes so far
    layout,    \* version of the process's memory map
    caches,    \* gef.memory.__maps, the lru_cached lookups, gef.session._pid
    lasting,   \* what no reset empties: gef.libc._version, find_main_arena_addr()
    sess,      \* gef.session.remote, remote_initializing, new_objfile handlers
    made,      \* remote sessions so far
    ui,        \* gef.ui.context_hidden and GDB's stop-on-solib-events
    failed     \* history: setting up a remote session has failed

sessionVars == <<mode, proc, born, layout, caches, lasting, sess, made, ui, failed>>

None == "none"

\* A session keeps the layout its set-up found in /proc/PID/maps and downloaded.
NoCopy == 2
NoRemote == [id |-> 0, by |-> None, copy |-> NoCopy]
NoView == [proc |-> 0, layout |-> 0, via |-> None]
EmptyCaches == [maps |-> NoView, lookup |-> NoView, pid |-> 0]

\* Where the maps are read: gef.session.maps asks the remote session if there is
\* one, and otherwise the local /proc.
Via(s) == IF s.remote = NoRemote THEN "local" ELSE "remote"

\* __parse_maps(): `info proc mappings` of a GDB that has it shows the present
\* layout; an older one leaves it to the procfs, where a remote session has the
\* file it once downloaded, or none.  Without any map the command raises.
MapsRead(p, l, s) ==
    LET shown == IF GdbMaps \/ s.remote = NoRemote THEN l ELSE s.remote.copy
    IN IF shown = NoCopy THEN NoView ELSE [proc |-> p, layout |-> shown, via |-> Via(s)]

-----------------------------------------------------------------------------
(* Caches.                                                                 *)

\* Mutant: the lookups cached with lru_cache are forgotten.
ResetManagersOnly(c) == [EmptyCaches EXCEPT !.lookup = c.lookup]

\* reset_all_caches(): the lru_caches of the functions of the module, then what the
\* managers of memory, heap, session and arch reset.  gef.libc is not among them,
\* and the heap manager resets its attributes but not its lru_cache: `lasting` is
\* what is left.
ResetAllCaches(c) == EmptyCaches

\* GefMemoryManager.maps and GefSessionManager.pid: computed when not cached.
FillMaps(c, p, l, s) ==
    [c EXCEPT !.maps = IF @ = NoView THEN MapsRead(p, l, s) ELSE @,
              !.pid = IF @ = 0 THEN p ELSE @]

\* lookup_address() and process_lookup_path() search the cached maps, and
\* their own result is cached.
FillLookup(c, p, l, s) ==
    LET m == FillMaps(c, p, l, s)
    IN [m EXCEPT !.lookup = IF @ = NoView THEN m.maps ELSE @]

\* What a command that prints about memory leaves in the caches: nothing, the
\* maps, or the maps and a lookup.
Inspected(c, p, l, s) == {c, FillMaps(c, p, l, s), FillLookup(c, p, l, s)}

\* The command `context` returns at once when the context is hidden.
Context(c, p, l, s, hidden) == IF hidden THEN {c} ELSE Inspected(c, p, l, s)

\* hook_stop_handler(): reset, then `context`.
StopHandler(c, p, l, s, hidden) == Context(ResetAllCaches(c), p, l, s, hidden)

-----------------------------------------------------------------------------
(* Remote sessions.                                                        *)

\* Mutant: close() does not connect the local handler again.
CloseForgetsLocal(s) ==
    [s EXCEPT !.hooked = @ \ {s.remote.id}, !.remote = NoRemote, !.initializing = FALSE]

\* exit_handler() with a remote session: close() disconnects the handler of the
\* session and connects new_objfile_handler again.  A session made by the
\* `target remote` hook has connected none: disconnecting it raises, and the
\* exception is caught before the second half.
CloseRemote(s) ==
    IF s.remote = NoRemote
    THEN s
    ELSE [s EXCEPT !.hooked = @ \ {s.remote.id},
                   !.local = IF s.remote.id \in s.hooked THEN @ + 1 ELSE @,
                   !.remote = NoRemote,
                   !.initializing = FALSE]

\* GefRemoteSessionManager.connect(): the local handler is disconnected (a
\* SystemError is ignored when it is not there), the session's is connected.
Connect(s, id) ==
    [s EXCEPT !.local = IF @ > 0 THEN @ - 1 ELSE @, !.hooked = @ \cup {id}]

\* A process that is still there is killed before another one is debugged,
\* which emits the exit event.
AfterKill(s) == IF proc = 0 THEN s ELSE CloseRemote(s)
CachesAfterKill == IF proc = 0 THEN caches ELSE ResetAllCaches(caches)

-----------------------------------------------------------------------------
SessionInit ==
    /\ mode = "prompt"
    /\ proc = 0 /\ born = 0 /\ layout = 0
    /\ caches = EmptyCaches
    /\ lasting = [libc |-> 0, arena |-> 0]
    /\ sess = [remote |-> NoRemote, initializing |-> FALSE, local |-> 1, hooked |-> {}]
    /\ made = 0
    /\ ui = [hidden |-> FALSE, solib |-> FALSE]
    /\ failed = FALSE

\* A new process, stopped at the prompt or running.
NewProcess == /\ born < MaxProc
              /\ born' = born + 1
              /\ proc' = born + 1
              /\ layout' = 0

\* GDB's own `run`.
Run ==
    /\ mode = "prompt"
    /\ NewProcess
    /\ mode' = "running"
    /\ sess' = AfterKill(sess)
    /\ caches' = CachesAfterKill
    /\ UNCHANGED <<lasting, made, ui, failed>>

Continue ==
    /\ mode = "prompt" /\ proc # 0
    /\ mode' = "running"
    /\ UNCHANGED <<proc, born, layout, caches, lasting, sess, made, ui, failed>>

\* A shared object is loaded: new_objfile_handler(), when connected, empties
\* the caches and asks for gef.session.root, hence the pid; the handler of a
\* remote session only downloads the file.
NewObjfile ==
    /\ mode = "running"
    /\ layout' = 1 - layout
    /\ caches' = IF sess.local > 0
                 THEN [ResetAllCaches(caches) EXCEPT !.pid = proc]
                 ELSE caches
    /\ UNCHANGED <<mode, proc, born, lasting, sess, made, ui, failed>>

\* The process maps or unmaps memory; no event tells.
Remap ==
    /\ mode = "running"
    /\ layout' = 1 - layout
    /\ UNCHANGED <<mode, proc, born, caches, lasting, sess, made, ui, failed>>

\* FormatStringBreakpoint.stop() looks an address up and returns False: the
\* caches are filled in the middle of a run and no stop event follows.
SilentBreakpoint ==
    /\ mode = "running"
    /\ caches' = FillLookup(ResetAllCaches(caches), proc, layout, sess)
    /\ UNCHANGED <<mode, proc, born, layout, lasting, sess, made, ui, failed>>

Stop ==
    /\ mode = "running"
    /\ mode' = "prompt"
    /\ caches' \in StopHandler(caches, proc, layout, sess, ui.hidden)
    /\ UNCHANGED <<proc, born, layout, lasting, sess, made, ui, failed>>

\* exit_handler(), for a process that ends or is killed or detached.
Exit ==
    /\ proc # 0
    /\ mode' = "prompt"
    /\ proc' = 0 /\ layout' = 0
    /\ caches' = ResetAllCaches(caches)
    /\ sess' = CloseRemote(sess)
    /\ UNCHANGED <<born, lasting, made, ui, failed>>

\* A command that reads the maps or looks an address up, and memchanged_handler
\* or regchanged_handler after the user has changed memory or a register.
Inspect ==
    /\ mode = "prompt" /\ proc # 0
    /\ caches' \in Inspected(caches, proc, layout, sess) \cup {ResetAllCaches(caches)}
    /\ caches' # caches
    /\ UNCHANGED <<mode, proc, born, layout, lasting, sess, made, ui, failed>>

\* gef.libc.version: the version, when it is not known, is found in the maps.
FillLibc(k, c) == IF k.libc = 0 THEN [k EXCEPT !.libc = c.maps.proc] ELSE k

\* A heap command asks for the version, then find_main_arena_addr() for the address,
\* which raises when it finds none.
HeapInspect ==
    /\ mode = "prompt" /\ proc # 0
    /\ caches' = IF lasting.libc = 0 THEN FillMaps(caches, proc, layout, sess) ELSE caches
    /\ LET known == FillLibc(lasting, caches')
       IN lasting' \in {known} \cup
             (IF known.libc # 0 /\ known.arena = 0 THEN {[known EXCEPT !.arena = proc]} ELSE {})
    /\ UNCHANGED <<mode, proc, born, layout, sess, made, ui, failed>>

-----------------------------------------------------------------------------
\* RemoteCommand.do_invoke() once its arguments are accepted.  The context is
\* hidden while GDB connects.
\*   "refused":  connect() returns False; remote and remote_initializing are
\*               reset, the handlers are not.
\*   "broken":   GDB is connected and setup() raises (a file that cannot be
\*               fetched, no ELF); nothing is reset.
\*   "ok":       the session is in force, the caches are emptied, `context`.  The
\*               maps are in its copy unless fetching them was reported to fail.
\* `pie remote` then goes on and reads the maps, if there are any.
GefRemoteOutcome(outcome, reads) ==
    LET linked == Connect(AfterKill(sess), made + 1)
        then(c, s) == IF reads THEN FillMaps(c, born + 1, 0, s) ELSE c
    IN /\ made < MaxSessions /\ made' = made + 1
       /\ ui' = [ui EXCEPT !.hidden = FALSE]
       /\ \/ /\ outcome = "refused"
             /\ proc' = 0 /\ layout' = 0 /\ UNCHANGED born
             /\ sess' = [linked EXCEPT !.initializing = FALSE]
             /\ caches' = CachesAfterKill
             /\ failed' = TRUE
          \/ /\ outcome = "broken" /\ NewProcess
             /\ sess' = [linked EXCEPT !.initializing = TRUE]
             /\ caches' = then(ResetAllCaches(caches), sess')
             /\ failed' = TRUE
          \/ /\ outcome = "ok" /\ NewProcess
             /\ \E copy \in {0, NoCopy} :
                    sess' = [linked EXCEPT
                                !.initializing = FALSE,
                                !.remote = [id |-> made + 1, by |-> "gef-remote", copy |-> copy]]
             /\ \E seen \in Inspected(ResetAllCaches(caches), born + 1, 0, sess') :
                    caches' = then(seen, sess')
             /\ failed' = failed

GefRemote ==
    /\ mode = "prompt"
    /\ sess.remote = NoRemote
    /\ \E outcome \in {"refused", "broken", "ok"} : GefRemoteOutcome(outcome, FALSE)
    /\ UNCHANGED <<mode, lasting>>

\* GDB's `target remote` followed by target_remote_posthook(): the stop event
\* comes before the session exists.  The hook does nothing while
\* remote_initializing is set.  A setup() that raises, before or after it empties
\* the caches, leaves the session in force.
TargetRemote ==
    LET s == AfterKill(sess)
        hooked(copy) ==
            [s EXCEPT !.remote = [id |-> made + 1, by |-> "posthook", copy |-> copy]]
    IN /\ mode = "prompt"
       /\ NewProcess
       /\ \E seen \in StopHandler(CachesAfterKill, born + 1, 0, s, ui.hidden) :
            \/ /\ s.initializing
               /\ sess' = s /\ caches' = seen
               /\ UNCHANGED <<made, failed>>
            \/ /\ ~s.initializing /\ made < MaxSessions
               /\ made' = made + 1
               /\ \E copy \in {0, NoCopy} : sess' = hooked(copy)
               /\ \/ caches' \in {seen, ResetAllCaches(seen)} /\ failed' = TRUE
                  \/ caches' = ResetAllCaches(seen) /\ failed' = failed
       /\ UNCHANGED <<mode, lasting, ui>>

SessionNext ==
    \/ Run \/ Continue \/ NewObjfile \/ Remap \/ SilentBreakpoint \/ Stop \/ Exit
    \/ Inspect \/ HeapInspect \/ GefRemote \/ TargetRemote

-----------------------------------------------------------------------------
(* Properties.                                                             *)

\* What a command at the prompt is told about memory: the maps, the looked-up
\* sections and the pid in the caches are those of the process that is debugged
\* now, as it is laid out now, seen through the session in force, whichever events
\* were delivered, or lost to a disconnected handler, before.  Where GDB cannot be
\* asked, a remote process is shown as the session in force once downloaded it.
CachesFresh ==
    mode = "prompt" =>
        /\ caches.pid \in {0, proc}
        /\ \A c \in {caches.maps, caches.lookup} \ {NoView} :
            /\ c.proc = proc
            /\ c.layout = IF c.via = "remote" /\ ~GdbMaps THEN sess.remote.copy ELSE layout
            /\ failed \/ c.via = Via(sess)

-----------------------------------------------------------------------------
(* What the documents say and the code does not do *)

\* gef.py:8667 "GEF handles properly the cache reset under "normal" scenario": no
\* command at the prompt is told of a layout the process no longer has.
LayoutIsPresent ==
    mode = "prompt" =>
        \A c \in {caches.maps, caches.lookup} \ {NoView} : c.layout = layout

\* gef.py:157 "Free all caches": what is cached about the heap is of the process
\* that is there, as is the rest.
ArenaIsPresent == (mode = "prompt" /\ proc # 0) => lasting.arena \in {0, proc}

\* The handlers of new object files are exchanged in pairs: the local one is
\* never connected twice; while a gef-remote session is in force its handler
\* is connected instead of the local one; and when none is in force, and none
\* failed to come up, the local handler alone is back and no session is half
\* initialised, however often local and remote sessions alternate.
HandlersPaired ==
    /\ sess.local <= 1
    /\ sess.remote.by = "gef-remote" => sess.remote.id \in sess.hooked /\ sess.local = 0
    /\ (sess.remote.by # "gef-remote" /\ ~failed) =>
            sess.local = 1 /\ sess.hooked = {} /\ ~sess.initializing
=============================================================================
