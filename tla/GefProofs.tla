----------------------------- MODULE GefProofs -----------------------------
(***************************************************************************)
(* Proofs about the debugger extension: the session of module GefSession,  *)
(* with the `pie` commands of module PieBreak, which change it too, for    *)
(* any number of processes, remote sessions and breakpoints; the settings  *)
(* and aliases of module GefConfig, for any set of settings and any number *)
(* of starts and commands; and the heap tracker of module HeapTrace, for   *)
(* any number of threads, addresses and tracked chunks.                    *)
(*                                                                         *)
(* Caches: whatever a run leaves in them, every way back to the prompt     *)
(* empties them first, and at the prompt they are only filled from the     *)
(* process that is there (CachesTrue).  Handlers: a session object         *)
(* disconnects the handler it has connected and no other, because the      *)
(* objects are numbered and the `target remote` hook connects none         *)
(* (SessOK).  Settings: whatever the user types, the built-in settings     *)
(* exist and the file holds what a save wrote (ConfigInv), so that a start *)
(* finds values it can compare and alias names that differ.  Tracker: a    *)
(* call moves its chunk between the lists before or after the allocator    *)
(* acts, so the lists are compared with the heap and the calls in flight   *)
(* (InUse, GivenBack); the calls of two threads never hold the same chunk  *)
(* (PairOK), so that none can take another's entry away (TraceInv).        *)
(***************************************************************************)
EXTENDS PieBreak, HeapTrace, GefConfig, Integers, FiniteSetTheorems, SequenceTheorems,
        WellFoundedInduction, TLAPS

Flags == BOOLEAN
Views == [proc : Nat, layout : {0, 1}, via : {"none", "local", "remote"}]
Caches == [maps : Views, lookup : Views, pid : Nat]
Remotes == [id : Nat, by : {"none", "gef-remote", "posthook"}, copy : {0, 1, NoCopy}]
Sessions == [remote : Remotes, initializing : Flags, local : {0, 1},
             hooked : SUBSET Nat]

\* The view x, when there is one, is of process p laid out as l, or as the session
\* s has it, and seen through s unless a session has failed to come up.
ViewTrue(x, p, l, s, f) ==
    x # NoView =>
        /\ x.proc = p
        /\ x.layout = IF x.via = "remote" /\ ~GdbMaps THEN s.remote.copy ELSE l
        /\ f \/ x.via = Via(s)

CachesTrue(c, p, l, s, f) ==
    /\ c \in Caches
    /\ c.pid \in {0, p}
    /\ ViewTrue(c.maps, p, l, s, f)
    /\ ViewTrue(c.lookup, p, l, s, f)

\* The session s after m session objects, f saying that one has failed: a
\* gef-remote session has its handler connected in the place of the local one, one
\* made by the hook has none, and without failures no other handler is connected.
SessOK(s, f, m) ==
    /\ s \in Sessions /\ m \in Nat
    /\ s.remote.id <= m
    /\ \A h \in s.hooked : h <= m
    /\ s.remote.by = "none" => s.remote = NoRemote
    /\ s.remote.by = "posthook" => s.remote.id \notin s.hooked
    /\ s.remote.by = "gef-remote" =>
            /\ s.remote.id \in s.hooked /\ s.local = 0
            /\ f \/ (s.hooked = {s.remote.id} /\ s.initializing = FALSE)
    /\ s.remote.by # "gef-remote" =>
            f \/ (s.local = 1 /\ s.hooked = {} /\ s.initializing = FALSE)

\* The inductive invariant.
SessionInv ==
    /\ mode \in {"prompt", "running"} /\ failed \in Flags
    /\ proc \in Nat /\ born \in Nat /\ layout \in {0, 1} /\ caches \in Caches
    /\ mode = "running" => proc # 0
    /\ proc = 0 => caches = EmptyCaches /\ sess.remote = NoRemote
    /\ mode = "prompt" => CachesTrue(caches, proc, layout, sess, failed)
    /\ SessOK(sess, failed, made)

-----------------------------------------------------------------------------
(* Caches *)

\* Empty caches say nothing.
LEMMA EmptyTrue ==
    ASSUME NEW p, NEW l, NEW s, NEW f
    PROVE  EmptyCaches \in Caches /\ CachesTrue(EmptyCaches, p, l, s, f)
<1>1. NoView \in Views
  BY DEF NoView, Views, None
<1> QED
  BY <1>1 DEF CachesTrue, EmptyCaches, Caches, ViewTrue

\* What is read of the maps is true.
LEMMA ReadTrue ==
    ASSUME NEW p \in Nat, NEW l \in {0, 1}, NEW s \in Sessions, NEW f
    PROVE  MapsRead(p, l, s) \in Views /\ ViewTrue(MapsRead(p, l, s), p, l, s, f)
<1> DEFINE shown == IF GdbMaps \/ s.remote = NoRemote THEN l ELSE s.remote.copy
           x == [proc |-> p, layout |-> shown, via |-> Via(s)]
<1>1. shown \in {0, 1, NoCopy} /\ 0 # NoCopy /\ 1 # NoCopy
  BY DEF Sessions, Remotes, NoCopy
<1>2. NoView \in Views /\ ViewTrue(NoView, p, l, s, f)
  BY DEF NoView, Views, None, ViewTrue
<1>3. /\ Via(s) \in {"local", "remote"}
      /\ shown = IF Via(s) = "remote" /\ ~GdbMaps THEN s.remote.copy ELSE l
  BY GdbVersion DEF Via
<1>4. MapsRead(p, l, s) = IF shown = NoCopy THEN NoView ELSE x
  BY DEF MapsRead
<1> HIDE DEF shown
<1>5. /\ x.proc = p /\ x.layout = shown /\ x.via = Via(s)
      /\ shown # NoCopy => x \in Views
  BY <1>1, <1>3 DEF Views
<1> HIDE DEF x
<1>6. ViewTrue(x, p, l, s, f)
  BY <1>3, <1>5 DEF ViewTrue
<1> QED
  BY <1>2, <1>4, <1>5, <1>6

\* Filling true caches keeps them true.
LEMMA FillTrue ==
    ASSUME NEW c, NEW p \in Nat, NEW l \in {0, 1}, NEW s \in Sessions, NEW f,
           CachesTrue(c, p, l, s, f)
    PROVE  /\ CachesTrue(FillMaps(c, p, l, s), p, l, s, f)
           /\ CachesTrue(FillLookup(c, p, l, s), p, l, s, f)
<1> DEFINE w == MapsRead(p, l, s)
           m == FillMaps(c, p, l, s)
<1>1. w \in Views /\ ViewTrue(w, p, l, s, f)
  BY ReadTrue
<1>2. /\ m = [c EXCEPT !.maps = IF @ = NoView THEN w ELSE @,
                       !.pid = IF @ = 0 THEN p ELSE @]
      /\ FillLookup(c, p, l, s) = [m EXCEPT !.lookup = IF @ = NoView THEN m.maps ELSE @]
  BY DEF FillMaps, FillLookup
<1> HIDE DEF w, m
<1>3. CachesTrue(m, p, l, s, f)
  <2>1. c \in Caches
    BY DEF CachesTrue
  <2>2. /\ m \in Caches /\ m.pid \in {0, p} /\ m.lookup = c.lookup
        /\ m.maps = c.maps \/ m.maps = w
    BY <1>1, <1>2, <2>1 DEF CachesTrue, Caches
  <2> QED
    BY <1>1, <2>2 DEF CachesTrue
<1>4. ASSUME NEW d, d = [m EXCEPT !.lookup = IF @ = NoView THEN m.maps ELSE @]
      PROVE  CachesTrue(d, p, l, s, f)
  <2>1. m \in Caches
    BY <1>3 DEF CachesTrue
  <2>2. /\ d \in Caches /\ d.pid = m.pid /\ d.maps = m.maps
        /\ d.lookup = m.lookup \/ d.lookup = m.maps
    BY <1>4, <2>1 DEF Caches
  <2> QED
    BY <1>3, <2>2 DEF CachesTrue
<1> QED
  BY <1>2, <1>3, <1>4 DEF m

\* A command that prints about memory, and `context`.
LEMMA InspectTrue ==
    ASSUME NEW c, NEW p \in Nat, NEW l \in {0, 1}, NEW s \in Sessions, NEW f,
           CachesTrue(c, p, l, s, f)
    PROVE  /\ \A d \in Inspected(c, p, l, s) : CachesTrue(d, p, l, s, f)
           /\ \A hidden : \A d \in Context(c, p, l, s, hidden) : CachesTrue(d, p, l, s, f)
  BY FillTrue DEF Inspected, Context

\* The handler of the stop event empties the caches before it fills them.
LEMMA StopTrue ==
    ASSUME NEW c, NEW p \in Nat, NEW l \in {0, 1}, NEW s \in Sessions, NEW f, NEW hidden
    PROVE  \A d \in StopHandler(c, p, l, s, hidden) : CachesTrue(d, p, l, s, f)
<1>1. CachesTrue(ResetAllCaches(c), p, l, s, f)
  BY EmptyTrue DEF ResetAllCaches
<1> QED
  BY <1>1, InspectTrue DEF StopHandler

\* What was seen without a remote session is as true with one that failed.
LEMMA FailedTrue ==
    ASSUME NEW c, NEW p, NEW l, NEW s, NEW u, CachesTrue(c, p, l, s, FALSE),
           s.remote = NoRemote
    PROVE  CachesTrue(c, p, l, u, TRUE)
<1>1. Via(s) = "local" /\ "local" # "remote"
  BY DEF Via
<1> QED
  BY <1>1 DEF CachesTrue, ViewTrue

-----------------------------------------------------------------------------
(* Sessions *)

\* exit_handler() leaves no session, and the local handler back in its place.
LEMMA CloseOK ==
    ASSUME NEW s, NEW f, NEW m, SessOK(s, f, m)
    PROVE  SessOK(CloseRemote(s), f, m) /\ CloseRemote(s).remote = NoRemote
<1>1. CASE s.remote = NoRemote
  BY <1>1 DEF CloseRemote
<1>2. CASE s.remote # NoRemote
  <2> DEFINE t == CloseRemote(s)
  <2>1. s \in Sessions /\ m \in Nat
    BY DEF SessOK
  <2>2. t = [s EXCEPT !.hooked = @ \ {s.remote.id},
                      !.local = IF s.remote.id \in s.hooked THEN @ + 1 ELSE @,
                      !.remote = NoRemote, !.initializing = FALSE]
    BY <1>2 DEF CloseRemote
  <2>3. s.remote.id \in s.hooked => s.local = 0
    BY <1>2 DEF SessOK, Sessions, Remotes
  <2> HIDE DEF t
  <2>4. NoRemote \in Remotes /\ NoRemote.id = 0 /\ NoRemote.by = "none" /\ FALSE \in Flags
    BY DEF NoRemote, Remotes, None, NoCopy, Flags
  <2>5. /\ t.hooked = s.hooked \ {s.remote.id}
        /\ t.local = IF s.remote.id \in s.hooked THEN s.local + 1 ELSE s.local
        /\ t.remote = NoRemote /\ t.initializing = FALSE
    BY <2>1, <2>2 DEF Sessions
  <2>6. t \in Sessions
    <3>1. s.local \in {0, 1} /\ s.hooked \in SUBSET Nat
      BY <2>1 DEF Sessions
    <3>2. /\ (IF s.remote.id \in s.hooked THEN s.local + 1 ELSE s.local) \in {0, 1}
          /\ s.hooked \ {s.remote.id} \in SUBSET Nat
      BY <3>1, <2>3
    <3> QED
      BY <2>1, <2>2, <2>4, <3>2 DEF Sessions
  <2>7. f \/ (t.local = 1 /\ t.hooked = {})
    <3>1. CASE s.remote.by = "gef-remote"
      BY <3>1, <2>5 DEF SessOK
    <3>2. CASE s.remote.by # "gef-remote"
      BY <3>2, <2>5 DEF SessOK
    <3> QED
      BY <3>1, <3>2
  <2>8. SessOK(t, f, m)
    BY <2>1, <2>4, <2>5, <2>6, <2>7 DEF SessOK
  <2> QED
    BY <2>5, <2>8 DEF t
<1> QED
  BY <1>1, <1>2

\* The same for the process that GDB kills before it debugs another.
LEMMA AfterKillOK ==
    ASSUME SessionInv
    PROVE  SessOK(AfterKill(sess), failed, made) /\ AfterKill(sess).remote = NoRemote
  BY CloseOK DEF SessionInv, AfterKill

\* connect() exchanges the handlers; the new object's number is fresh.
LEMMA ConnectOK ==
    ASSUME NEW s, NEW f, NEW m, SessOK(s, f, m), s.remote = NoRemote
    PROVE  /\ Connect(s, m + 1) \in Sessions
           /\ Connect(s, m + 1).remote = NoRemote
           /\ Connect(s, m + 1).local = 0
           /\ m + 1 \in Connect(s, m + 1).hooked
           /\ \A h \in Connect(s, m + 1).hooked : h <= m + 1
           /\ f \/ Connect(s, m + 1).hooked = {m + 1}
<1> DEFINE t == Connect(s, m + 1)
<1>1. s \in Sessions /\ m \in Nat /\ s.local \in {0, 1} /\ s.hooked \in SUBSET Nat
  BY DEF SessOK, Sessions
<1>2. t = [s EXCEPT !.local = IF @ > 0 THEN @ - 1 ELSE @, !.hooked = @ \cup {m + 1}]
  BY DEF Connect
<1> HIDE DEF t
<1>3. m + 1 \in Nat /\ (s.local > 0 => s.local - 1 = 0) /\ (~(s.local > 0) => s.local = 0)
  BY <1>1
<1>4. /\ t.remote = s.remote /\ t.local = 0
      /\ t.hooked = s.hooked \cup {m + 1}
      /\ t \in Sessions
  BY <1>1, <1>2, <1>3 DEF Sessions
<1>5. \A h \in s.hooked : h <= m + 1
  BY <1>1 DEF SessOK
<1>6. f \/ s.hooked = {}
  BY DEF SessOK, NoRemote, None
<1> QED
  BY <1>1, <1>3, <1>4, <1>5, <1>6 DEF t

-----------------------------------------------------------------------------
(* The invariant, action by action *)

\* What an action has to show about the state it leads to.
LEMMA NewState ==
    ASSUME mode' \in {"prompt", "running"}, failed' \in Flags,
           proc' \in Nat, born' \in Nat, layout' \in {0, 1}, caches' \in Caches,
           mode' = "running" => proc' # 0,
           proc' = 0 => caches' = EmptyCaches /\ sess'.remote = NoRemote,
           mode' = "prompt" =>
                CachesTrue(caches', proc', layout', sess', failed'),
           SessOK(sess', failed', made')
    PROVE  SessionInv'
  BY DEF SessionInv

\* The types, and that a process that GDB starts or connects to is not process 0.
LEMMA OldState ==
    ASSUME SessionInv
    PROVE  /\ mode \in {"prompt", "running"} /\ failed \in Flags
           /\ proc \in Nat /\ born \in Nat /\ layout \in {0, 1} /\ caches \in Caches
           /\ NewProcess => /\ born' \in Nat /\ proc' \in Nat /\ proc' # 0
                            /\ proc' = born + 1 /\ layout' = 0
           /\ 1 - layout \in {0, 1}
           /\ CachesAfterKill \in Caches
           /\ proc = 0 => CachesAfterKill = EmptyCaches
           /\ proc # 0 => CachesAfterKill = EmptyCaches
           /\ sess \in Sessions /\ AfterKill(sess) \in Sessions
<1>1. /\ mode \in {"prompt", "running"} /\ failed \in Flags
      /\ proc \in Nat /\ born \in Nat /\ layout \in {0, 1} /\ caches \in Caches
      /\ proc = 0 => caches = EmptyCaches
  BY DEF SessionInv
<1>2. EmptyCaches \in Caches
  BY EmptyTrue
<1>3. sess \in Sessions /\ AfterKill(sess) \in Sessions
  BY AfterKillOK DEF SessionInv, SessOK
<1> QED
  BY <1>1, <1>2, <1>3 DEF NewProcess, CachesAfterKill, ResetAllCaches

\* The start: no process, nothing cached, the local handler connected.
LEMMA SessionStart == SessionInit => SessionInv
<1> SUFFICES ASSUME SessionInit PROVE SessionInv
  OBVIOUS
<1>1. /\ mode = "prompt" /\ proc = 0 /\ born = 0 /\ layout = 0
      /\ caches = EmptyCaches /\ made = 0 /\ failed = FALSE
      /\ sess = [remote |-> NoRemote, initializing |-> FALSE, local |-> 1, hooked |-> {}]
  BY DEF SessionInit
<1>2. caches \in Caches /\ CachesTrue(caches, proc, layout, sess, failed)
  BY <1>1, EmptyTrue
<1>3. /\ NoRemote \in Remotes /\ NoRemote.id = 0 /\ NoRemote.by = "none"
      /\ FALSE \in Flags
  BY DEF NoRemote, Remotes, None, NoCopy, Flags
<1>4. /\ sess.remote = NoRemote /\ sess.initializing = FALSE
      /\ sess.local = 1 /\ sess.hooked = {}
  BY <1>1
<1>5. sess \in Sessions
  BY <1>1, <1>3 DEF Sessions
<1>6. SessOK(sess, failed, made)
  BY <1>1, <1>3, <1>4, <1>5 DEF SessOK
<1> QED
  BY <1>1, <1>2, <1>3, <1>4, <1>6 DEF SessionInv

\* Events while the process runs: nothing is claimed of the caches until it stops.
LEMMA RunningKeeps ==
    ASSUME SessionInv,
           Run \/ Continue \/ NewObjfile \/ Remap \/ SilentBreakpoint \/ Stop \/ Exit
    PROVE  SessionInv'
<1>1. SessOK(sess, failed, made) /\ (mode = "running" => proc # 0)
  BY DEF SessionInv
<1>2. EmptyCaches \in Caches
      /\ \A p, l, s, f : CachesTrue(EmptyCaches, p, l, s, f)
  BY EmptyTrue
<1>3. CASE Run
  <2>1. /\ mode' = "running" /\ NewProcess /\ sess' = AfterKill(sess)
        /\ caches' = CachesAfterKill /\ made' = made /\ failed' = failed
    BY <1>3 DEF Run
  <2> QED
    BY <2>1, OldState, AfterKillOK, NewState
<1>4. CASE Continue
  BY <1>1, <1>4, OldState, NewState DEF Continue
<1>5. CASE NewObjfile
  <2>1. /\ mode = "running" /\ mode' = mode /\ proc' = proc /\ born' = born
        /\ sess' = sess /\ made' = made /\ failed' = failed /\ layout' = 1 - layout
        /\ caches' \in {caches, [EmptyCaches EXCEPT !.pid = proc]}
    BY <1>5 DEF NewObjfile, ResetAllCaches
  <2>2. [EmptyCaches EXCEPT !.pid = proc] \in Caches
    BY <1>2, OldState DEF Caches
  <2> QED
    BY <2>1, <2>2, <1>1, OldState, NewState
<1>6. CASE Remap
  BY <1>1, <1>6, OldState, NewState DEF Remap
<1>7. CASE SilentBreakpoint
  <2>1. /\ mode = "running" /\ mode' = mode /\ proc' = proc /\ born' = born
        /\ sess' = sess /\ made' = made /\ failed' = failed /\ layout' = layout
        /\ caches' = FillLookup(EmptyCaches, proc, layout, sess)
    BY <1>7 DEF SilentBreakpoint, ResetAllCaches
  <2>2. CachesTrue(caches', proc, layout, sess, failed)
    BY <2>1, <1>2, OldState, FillTrue
  <2>3. caches' \in Caches
    BY <2>2 DEF CachesTrue
  <2> QED
    BY <2>1, <2>3, <1>1, OldState, NewState
<1>8. CASE Stop
  <2>1. /\ mode = "running" /\ mode' = "prompt" /\ proc' = proc /\ born' = born
        /\ sess' = sess /\ made' = made /\ failed' = failed /\ layout' = layout
        /\ caches' \in StopHandler(caches, proc, layout, sess, ui.hidden)
    BY <1>8 DEF Stop
  <2>2. CachesTrue(caches', proc, layout, sess, failed)
    BY <2>1, OldState, StopTrue
  <2>3. caches' \in Caches
    BY <2>2 DEF CachesTrue
  <2> QED
    BY <2>1, <2>2, <2>3, <1>1, OldState, NewState
<1>9. CASE Exit
  <2>1. /\ mode' = "prompt" /\ proc' = 0 /\ layout' = 0 /\ caches' = EmptyCaches
        /\ sess' = CloseRemote(sess) /\ born' = born /\ made' = made /\ failed' = failed
    BY <1>9 DEF Exit, ResetAllCaches
  <2> QED
    BY <2>1, <1>1, <1>2, CloseOK, OldState, NewState
<1> QED
  BY <1>3, <1>4, <1>5, <1>6, <1>7, <1>8, <1>9

\* A command at the prompt.
LEMMA InspectKeeps ==
    ASSUME SessionInv, Inspect \/ HeapInspect
    PROVE  SessionInv'
<1>1. /\ mode = "prompt" /\ proc # 0 /\ mode' = mode /\ proc' = proc /\ born' = born
      /\ layout' = layout /\ sess' = sess /\ made' = made /\ failed' = failed
      /\ caches' \in Inspected(caches, proc, layout, sess) \cup {EmptyCaches}
  BY DEF Inspect, HeapInspect, Inspected, ResetAllCaches
<1>2. SessOK(sess, failed, made) /\ CachesTrue(caches, proc, layout, sess, failed)
  BY <1>1 DEF SessionInv
<1>3. CachesTrue(caches', proc, layout, sess, failed)
  <2>1. \A d \in Inspected(caches, proc, layout, sess) :
            CachesTrue(d, proc, layout, sess, failed)
    BY <1>2, OldState, InspectTrue
  <2>2. CachesTrue(EmptyCaches, proc, layout, sess, failed)
    BY EmptyTrue
  <2> QED
    BY <1>1, <2>1, <2>2
<1>4. caches' \in Caches
  BY <1>3 DEF CachesTrue
<1> QED
  BY <1>1, <1>2, <1>3, <1>4, OldState, NewState

\* gef-remote, however it ends; also as a part of `pie remote`.
LEMMA GefRemoteKeeps ==
    ASSUME SessionInv, mode = "prompt", mode' = mode, sess.remote = NoRemote,
           NEW outcome, NEW reads, GefRemoteOutcome(outcome, reads)
    PROVE  SessionInv'
<1> DEFINE linked == Connect(AfterKill(sess), made + 1)
           new(copy) == [id |-> made + 1, by |-> "gef-remote", copy |-> copy]
           then(c, s) == IF reads THEN FillMaps(c, born + 1, 0, s) ELSE c
<1>1. made \in Nat /\ made + 1 \in Nat /\ made' = made + 1
  BY DEF SessionInv, SessOK, GefRemoteOutcome
<1>2. /\ linked \in Sessions /\ linked.remote = NoRemote /\ linked.local = 0
      /\ made + 1 \in linked.hooked /\ \A h \in linked.hooked : h <= made + 1
      /\ failed \/ linked.hooked = {made + 1}
  BY AfterKillOK, ConnectOK
<1>3. EmptyCaches \in Caches
      /\ \A p, l, s, f : CachesTrue(EmptyCaches, p, l, s, f)
  BY EmptyTrue
<1>4. /\ NoRemote.id = 0 /\ NoRemote.by = "none" /\ NoRemote \in Remotes
      /\ FALSE \in Flags /\ TRUE \in Flags
      /\ \A copy \in {0, NoCopy} :
            new(copy) \in Remotes /\ new(copy).id = made + 1 /\ new(copy).by = "gef-remote"
  BY <1>1 DEF NoRemote, None, Remotes, NoCopy, Flags
<1>5. \/ outcome = "refused" /\ proc' = 0 /\ layout' = 0 /\ born' = born
         /\ sess' = [linked EXCEPT !.initializing = FALSE]
         /\ caches' = CachesAfterKill /\ failed' = TRUE
      \/ outcome = "broken" /\ NewProcess
         /\ sess' = [linked EXCEPT !.initializing = TRUE]
         /\ caches' = then(EmptyCaches, sess') /\ failed' = TRUE
      \/ outcome = "ok" /\ NewProcess
         /\ \E copy \in {0, NoCopy} :
                sess' = [linked EXCEPT !.initializing = FALSE, !.remote = new(copy)]
         /\ \E c \in Inspected(EmptyCaches, born + 1, 0, sess') : caches' = then(c, sess')
         /\ failed' = failed
  BY DEF GefRemoteOutcome, ResetAllCaches
<1>t. ASSUME NEW c, NEW f, proc' \in Nat, proc' = born + 1, layout' = 0, sess' \in Sessions,
             CachesTrue(c, proc', layout', sess', f), caches' = then(c, sess')
      PROVE  CachesTrue(caches', proc', layout', sess', f) /\ caches' \in Caches
  <2>1. 0 \in {0, 1} /\ born + 1 \in Nat
    BY <1>t
  <2>2. CachesTrue(caches', proc', layout', sess', f)
    <3>1. CASE reads
      BY <1>t, <2>1, <3>1, FillTrue
    <3>2. CASE ~reads
      BY <1>t, <3>2
    <3> QED
      BY <3>1, <3>2
  <2> QED
    BY <2>2 DEF CachesTrue
<1> HIDE DEF linked, new, then
<1>6. ASSUME NEW b \in Flags, sess' = [linked EXCEPT !.initializing = b], failed' = TRUE
      PROVE  SessOK(sess', failed', made') /\ sess'.remote = NoRemote
  <2>1. /\ sess' \in Sessions /\ sess'.remote = NoRemote
        /\ sess'.hooked = linked.hooked
    BY <1>2, <1>6 DEF Sessions
  <2> QED
    BY <1>1, <1>2, <1>4, <1>6, <2>1 DEF SessOK
<1>7. CASE outcome = "refused" /\ proc' = 0 /\ layout' = 0 /\ born' = born
           /\ sess' = [linked EXCEPT !.initializing = FALSE]
           /\ caches' = CachesAfterKill /\ failed' = TRUE
  <2>1. caches' = EmptyCaches
    BY <1>7, OldState
  <2> QED
    BY <1>3, <1>4, <1>6, <1>7, <2>1, OldState, NewState
<1>8. CASE outcome = "broken" /\ NewProcess
           /\ sess' = [linked EXCEPT !.initializing = TRUE]
           /\ caches' = then(EmptyCaches, sess') /\ failed' = TRUE
  <2>1. /\ proc' = born + 1 /\ layout' = 0 /\ proc' \in Nat /\ proc' # 0 /\ born' \in Nat
    BY <1>8, OldState
  <2>2. SessOK(sess', failed', made') /\ sess'.remote = NoRemote
    BY <1>4, <1>6, <1>8
  <2>3. sess' \in Sessions
    BY <2>2 DEF SessOK
  <2>4. CachesTrue(caches', proc', layout', sess', failed') /\ caches' \in Caches
    BY <1>3, <1>8, <1>t, <2>1, <2>3
  <2> QED
    BY <1>4, <1>8, <2>1, <2>2, <2>4, OldState, NewState
<1>9. CASE outcome = "ok" /\ NewProcess
           /\ \E copy \in {0, NoCopy} :
                  sess' = [linked EXCEPT !.initializing = FALSE, !.remote = new(copy)]
           /\ \E c \in Inspected(EmptyCaches, born + 1, 0, sess') : caches' = then(c, sess')
           /\ failed' = failed
  <2>0. PICK copy \in {0, NoCopy} :
             sess' = [linked EXCEPT !.initializing = FALSE, !.remote = new(copy)]
    BY <1>9
  <2>1. /\ sess' \in Sessions /\ sess'.remote = new(copy) /\ sess'.hooked = linked.hooked
        /\ sess'.local = linked.local /\ sess'.initializing = FALSE
    BY <1>2, <1>4, <2>0 DEF Sessions
  <2>2. SessOK(sess', failed', made')
    BY <1>1, <1>2, <1>4, <1>9, <2>1 DEF SessOK
  <2>3. /\ proc' = born + 1 /\ layout' = 0 /\ proc' \in Nat /\ proc' # 0
        /\ born' \in Nat /\ 0 \in {0, 1}
    BY <1>9, OldState
  <2>4. PICK c \in Inspected(EmptyCaches, born + 1, 0, sess') : caches' = then(c, sess')
    BY <1>9
  <2>5. CachesTrue(c, proc', layout', sess', failed')
    BY <1>3, <1>9, <2>1, <2>3, <2>4, InspectTrue
  <2>6. CachesTrue(caches', proc', layout', sess', failed') /\ caches' \in Caches
    BY <1>t, <2>1, <2>3, <2>4, <2>5
  <2> QED
    BY <1>9, <2>2, <2>3, <2>6, OldState, NewState
<1> QED
  BY <1>5, <1>7, <1>8, <1>9

\* `target remote` and its hook.
LEMMA TargetRemoteKeeps ==
    ASSUME SessionInv, TargetRemote
    PROVE  SessionInv'
<1> DEFINE s == AfterKill(sess)
           new(copy) == [id |-> made + 1, by |-> "posthook", copy |-> copy]
           hooked(copy) == [s EXCEPT !.remote = new(copy)]
<1>1. made \in Nat /\ made + 1 \in Nat
  BY DEF SessionInv, SessOK
<1>2. SessOK(s, failed, made) /\ s.remote = NoRemote /\ s \in Sessions
  BY AfterKillOK DEF SessOK
<1>3. /\ NoRemote.id = 0 /\ NoRemote.by = "none" /\ TRUE \in Flags
      /\ \A copy \in {0, NoCopy} :
            new(copy) \in Remotes /\ new(copy).id = made + 1 /\ new(copy).by = "posthook"
  BY <1>1 DEF NoRemote, None, Remotes, NoCopy, Flags
<1>4. /\ mode = "prompt" /\ mode' = mode /\ NewProcess
      /\ \E read \in StopHandler(CachesAfterKill, born + 1, 0, s, ui.hidden) :
           \/ sess' = s /\ caches' = read /\ made' = made /\ failed' = failed
           \/ /\ made' = made + 1 /\ \E copy \in {0, NoCopy} : sess' = hooked(copy)
              /\ \/ caches' \in {read, EmptyCaches} /\ failed' = TRUE
                 \/ caches' = EmptyCaches /\ failed' = failed
  BY DEF TargetRemote, ResetAllCaches
<1>5. PICK read \in StopHandler(CachesAfterKill, born + 1, 0, s, ui.hidden) :
           \/ sess' = s /\ caches' = read /\ made' = made /\ failed' = failed
           \/ /\ made' = made + 1 /\ \E copy \in {0, NoCopy} : sess' = hooked(copy)
              /\ \/ caches' \in {read, EmptyCaches} /\ failed' = TRUE
                 \/ caches' = EmptyCaches /\ failed' = failed
  BY <1>4
<1>6. /\ proc' = born + 1 /\ layout' = 0 /\ proc' \in Nat /\ proc' # 0
      /\ born' \in Nat /\ 0 \in {0, 1} /\ born + 1 \in Nat
  BY <1>4, OldState
<1>7. \A f : CachesTrue(read, proc', layout', s, f)
  BY <1>2, <1>6, StopTrue
<1>e. EmptyCaches \in Caches /\ \A p, l, t, f : CachesTrue(EmptyCaches, p, l, t, f)
  BY EmptyTrue
<1>8. ASSUME NEW copy \in {0, NoCopy}
      PROVE  SessOK(hooked(copy), failed, made + 1) /\ SessOK(hooked(copy), TRUE, made + 1)
  <2> DEFINE n == new(copy)
             h == hooked(copy)
  <2>0. n \in Remotes /\ n.id = made + 1 /\ n.by = "posthook" /\ h = [s EXCEPT !.remote = n]
    BY <1>3
  <2> HIDE DEF s, new, n, hooked, h
  <2>2. /\ h \in Sessions /\ h.remote = n /\ h.hooked = s.hooked
        /\ h.local = s.local /\ h.initializing = s.initializing
    BY <1>2, <2>0 DEF Sessions
  <2>3. /\ \A x \in s.hooked : x \in Nat /\ x <= made
        /\ failed \/ (s.local = 1 /\ s.hooked = {} /\ s.initializing = FALSE)
    BY <1>2, <1>3 DEF SessOK, Sessions
  <2>4. (\A x \in s.hooked : x <= made + 1) /\ made + 1 \notin s.hooked
    BY <2>3, <1>1
  <2> QED
    BY <1>1, <2>0, <2>2, <2>3, <2>4 DEF SessOK, h
<1> HIDE DEF s, hooked
<1>9. CASE sess' = s /\ caches' = read /\ made' = made /\ failed' = failed
  <2>1. caches' \in Caches
    BY <1>7, <1>9 DEF CachesTrue
  <2> QED
    BY <1>2, <1>4, <1>6, <1>7, <1>9, <2>1, OldState, NewState
<1>10. CASE /\ made' = made + 1 /\ \E copy \in {0, NoCopy} : sess' = hooked(copy)
            /\ \/ caches' \in {read, EmptyCaches} /\ failed' = TRUE
               \/ caches' = EmptyCaches /\ failed' = failed
  <2>1. SessOK(sess', failed', made')
    BY <1>8, <1>10
  <2>2. CachesTrue(read, proc', layout', sess', TRUE)
    BY <1>2, <1>7, FailedTrue
  <2>3. CachesTrue(caches', proc', layout', sess', failed')
    BY <1>10, <1>e, <2>2
  <2>4. caches' \in Caches
    BY <2>3 DEF CachesTrue
  <2> QED
    BY <1>3, <1>4, <1>6, <1>10, <2>1, <2>3, <2>4, OldState, NewState
<1> QED
  BY <1>5, <1>9, <1>10

\* The `pie` commands that fill the caches, or start, attach to or connect to a
\* process.
LEMMA PieKeeps ==
    ASSUME SessionInv, PieBreakpoint \/ PieRun \/ PieAttach \/ PieRemote
    PROVE  SessionInv'
<1>1. /\ SessOK(sess, failed, made)
      /\ mode = "prompt" => CachesTrue(caches, proc, layout, sess, failed)
      /\ proc = 0 => caches = EmptyCaches /\ sess.remote = NoRemote
  BY DEF SessionInv
<1>2. EmptyCaches \in Caches
      /\ \A p, l, s, f : CachesTrue(EmptyCaches, p, l, s, f)
  BY EmptyTrue
<1>3. CASE PieBreakpoint
  <2>1. /\ mode = "prompt" /\ mode' = mode /\ proc' = proc /\ born' = born
        /\ layout' = layout /\ sess' = sess /\ made' = made /\ failed' = failed
    BY <1>3 DEF PieBreakpoint
  <2>2. \/ caches' = caches
        \/ proc # 0 /\ caches' = FillMaps(caches, proc, layout, sess)
    BY <1>3 DEF PieBreakpoint
  <2>3. CachesTrue(caches', proc, layout, sess, failed)
    BY <1>1, <2>1, <2>2, OldState, FillTrue
  <2>4. caches' \in Caches
    BY <2>3 DEF CachesTrue
  <2> QED
    BY <1>1, <2>1, <2>2, <2>3, <2>4, OldState, NewState
<1>4. CASE PieRun
  <2>1. /\ mode = "prompt" /\ sess' = AfterKill(sess) /\ made' = made /\ failed' = failed
        /\ \/ proc' = 0 /\ layout' = 0 /\ born' = born /\ mode' = mode
              /\ caches' = CachesAfterKill
           \/ proc' = 0 /\ layout' = 0 /\ born' = born + 1 /\ mode' = mode
              /\ caches' = EmptyCaches
           \/ /\ NewProcess /\ mode' \in {"prompt", "running"}
              /\ caches' = FillMaps(EmptyCaches, born + 1, 0, AfterKill(sess))
    BY <1>4 DEF PieRun, ResetAllCaches
  <2>2. SessOK(sess', failed', made') /\ sess'.remote = NoRemote
    BY <2>1, AfterKillOK
  <2>3. CASE proc' = 0 /\ layout' = 0 /\ born' \in {born, born + 1} /\ mode' = mode
             /\ caches' = EmptyCaches
    <3>1. born' \in Nat /\ proc' \in Nat
      BY <2>3, OldState
    <3> QED
      BY <1>2, <2>1, <2>2, <2>3, <3>1, OldState, NewState
  <2>4. CASE /\ NewProcess /\ mode' \in {"prompt", "running"}
             /\ caches' = FillMaps(EmptyCaches, born + 1, 0, AfterKill(sess))
    <3>1. /\ proc' = born + 1 /\ layout' = 0 /\ proc' \in Nat /\ proc' # 0
          /\ born' \in Nat /\ 0 \in {0, 1}
      BY <2>4, OldState
    <3>2. CachesTrue(caches', proc', layout', sess', failed')
      BY <1>2, <2>1, <2>4, <3>1, OldState, FillTrue
    <3>3. caches' \in Caches
      BY <3>2 DEF CachesTrue
    <3> QED
      BY <2>1, <2>2, <2>4, <3>1, <3>2, <3>3, OldState, NewState
  <2>5. CachesAfterKill = EmptyCaches
    BY OldState
  <2> QED
    BY <2>1, <2>3, <2>4, <2>5
<1>5. CASE PieAttach
  <2>1. /\ mode = "prompt" /\ mode' = mode /\ NewProcess /\ sess' = AfterKill(sess)
        /\ made' = made /\ failed' = failed
    BY <1>5 DEF PieAttach
  <2>2. PICK read \in StopHandler(CachesAfterKill, born + 1, 0, AfterKill(sess), ui.hidden) :
             caches' \in Context(FillMaps(read, born + 1, 0, AfterKill(sess)), born + 1, 0,
                                AfterKill(sess), ui.hidden)
    BY <1>5 DEF PieAttach
  <2>3. /\ proc' = born + 1 /\ layout' = 0 /\ proc' \in Nat /\ proc' # 0
        /\ born' \in Nat /\ 0 \in {0, 1}
    BY <2>1, OldState
  <2>4. CachesTrue(read, proc', layout', AfterKill(sess), failed)
    BY <2>3, OldState, StopTrue
  <2>5. CachesTrue(caches', proc', layout', sess', failed')
    BY <2>1, <2>2, <2>3, <2>4, OldState, FillTrue, InspectTrue
  <2>6. caches' \in Caches
    BY <2>5 DEF CachesTrue
  <2> QED
    BY <2>1, <2>3, <2>5, <2>6, AfterKillOK, OldState, NewState
<1>6. CASE PieRemote
  <2>1. mode = "prompt" /\ mode' = mode
    BY <1>6 DEF PieRemote
  <2>2. CASE /\ sess.remote = NoRemote
             /\ \E outcome \in {"refused", "broken", "ok"} : GefRemoteOutcome(outcome, TRUE)
    BY <2>1, <2>2, GefRemoteKeeps
  <2>3. CASE /\ proc # 0
             /\ caches' \in Context(FillMaps(caches, proc, layout, sess), proc, layout, sess,
                                    ui.hidden)
             /\ UNCHANGED <<proc, born, layout, sess, made, ui, failed>>
    <3>1. CachesTrue(caches', proc, layout, sess, failed)
      BY <1>1, <2>1, <2>3, OldState, FillTrue, InspectTrue
    <3>2. caches' \in Caches
      BY <3>1 DEF CachesTrue
    <3> QED
      BY <1>1, <2>1, <2>3, <3>1, <3>2, OldState, NewState
  <2> QED
    BY <1>6, <2>2, <2>3 DEF PieRemote
<1> QED
  BY <1>3, <1>4, <1>5, <1>6

-----------------------------------------------------------------------------
(* The theorems *)

\* The invariant holds in every state of the session with its `pie` commands.
LEMMA SessionInvariant == Spec => []SessionInv
<1>1. Init => SessionInv
  BY SessionStart DEF Init
<1>2. SessionInv /\ [Next]_vars => SessionInv'
  <2> SUFFICES ASSUME SessionInv, [Next]_vars PROVE SessionInv'
    OBVIOUS
  <2>1. ASSUME UNCHANGED sessionVars PROVE SessionInv'
    BY <2>1 DEF sessionVars, SessionInv
  <2>2. CASE UNCHANGED vars
    BY <2>1, <2>2 DEF vars
  <2>3. CASE SessionStep
    <3>1. CASE GefRemote
      <4>1. PICK outcome \in {"refused", "broken", "ok"} : GefRemoteOutcome(outcome, FALSE)
        BY <3>1 DEF GefRemote
      <4> QED
        BY <3>1, <4>1, GefRemoteKeeps DEF GefRemote
    <3> QED
      BY <2>3, <3>1, RunningKeeps, InspectKeeps, TargetRemoteKeeps
         DEF SessionStep, SessionNext
  <2>4. CASE PieDelete \/ UserDelete
    BY <2>1, <2>4 DEF PieDelete, UserDelete
  <2> QED
    BY <2>2, <2>3, <2>4, PieKeeps DEF Next
<1> QED
  BY <1>1, <1>2, PTL DEF Spec

\* Commands at the prompt are never answered from a stale cache (reset_all_caches()
\* and the event handlers of scripts/gef.py), whichever handlers are connected.
THEOREM CachesAreFresh == Spec => []CachesFresh
<1>1. SessionInv => CachesFresh
  <2> SUFFICES ASSUME SessionInv, mode = "prompt",
                      NEW c \in {caches.maps, caches.lookup} \ {NoView}
               PROVE  /\ caches.pid \in {0, proc}
                      /\ c.proc = proc
                      /\ c.layout = IF c.via = "remote" /\ ~GdbMaps
                                    THEN sess.remote.copy ELSE layout
                      /\ failed \/ c.via = Via(sess)
    BY DEF CachesFresh, SessionInv, CachesTrue
  <2> QED
    BY DEF SessionInv, CachesTrue, ViewTrue
<1> QED
  BY <1>1, SessionInvariant, PTL

\* The handlers of new object files are exchanged in pairs by connect() and close()
\* of GefRemoteSessionManager, in any sequence of local and remote sessions.
THEOREM HandlersArePaired == Spec => []HandlersPaired
<1>1. SessionInv => HandlersPaired
  <2> SUFFICES ASSUME SessionInv PROVE HandlersPaired
    OBVIOUS
  <2>1. sess.local \in {0, 1}
    BY DEF SessionInv, SessOK, Sessions
  <2>2. sess.local <= 1
    BY <2>1
  <2> QED
    BY <2>2 DEF SessionInv, SessOK, HandlersPaired
<1> QED
  BY <1>1, SessionInvariant, PTL

-----------------------------------------------------------------------------
(* Loops.                                                                  *)

\* Induction, for a set in the place of a predicate.
LEMMA Induction ==
    ASSUME NEW S, 0 \in S, \A n \in Nat : n \in S => n + 1 \in S
    PROVE  \A n \in Nat : n \in S
<1> DEFINE R == OpToRel(<, Nat)
           T == {n \in Nat : n \notin S}
<1> SUFFICES ASSUME T # {} PROVE FALSE
  OBVIOUS
<1>1. \A x, y \in Nat : x < y => <<x, y>> \in R
  BY DEF OpToRel
<1>2. IsWellFoundedOn(R, Nat)
  BY NatLessThanWellFounded
<1>3. T \subseteq Nat
  OBVIOUS
<1>4. \E x \in T : \A y \in T : ~ (<<y, x>> \in R)
  <2> HIDE DEF R, T
  <2> QED
    BY <1>2, <1>3, WFMin
<1>5. PICK x \in T : \A y \in T : ~ (y < x)
  <2> HIDE DEF R, T
  <2> QED
    BY <1>1, <1>3, <1>4
<1>6. x \in Nat /\ x # 0 /\ x \notin S
  OBVIOUS
<1>7. x - 1 \in Nat /\ x - 1 < x /\ (x - 1) + 1 = x
  BY <1>6
<1>8. x - 1 \in S
  BY <1>5, <1>7
<1> QED
  BY <1>6, <1>7, <1>8

\* The states a loop goes through exist when its steps stay in a set.
Loop(F, x0, Step) ==
    \A n \in Nat : F[n] = Step[<<n, IF n = 0 THEN x0 ELSE F[n - 1]>>]

LEMMA LoopExists ==
    ASSUME NEW V, NEW x0 \in V, NEW Step \in [Nat \X V -> V]
    PROVE  \E F \in [Nat -> V] : Loop(F, x0, Step)
<1> DEFINE Before(g, i) == IF i = 0 THEN x0 ELSE g[i - 1]
           Approx(n, g) == /\ g \in [0 .. n -> V]
                           /\ \A i \in 0 .. n : g[i] = Step[<<i, Before(g, i)>>]
           S == {n \in Nat : \E g : Approx(n, g)}
<1>1. 0 \in S
  <2> DEFINE y == Step[<<0, x0>>]
             g == [i \in 0 .. 0 |-> y]
  <2>1. y \in V
    OBVIOUS
  <2>2. g \in [0 .. 0 -> V] /\ \A i \in 0 .. 0 : i = 0 /\ g[i] = y
    BY <2>1
  <2>3. Approx(0, g)
    BY <2>2
  <2> QED
    BY <2>3
<1>2. ASSUME NEW n \in Nat, n \in S PROVE n + 1 \in S
  <2>1. PICK g : Approx(n, g)
    BY <1>2
  <2> DEFINE y == Step[<<n + 1, g[n]>>]
             h == [i \in 0 .. (n + 1) |-> IF i = n + 1 THEN y ELSE g[i]]
  <2>2. g[n] \in V /\ y \in V
    BY <2>1
  <2> HIDE DEF y
  <2>3. /\ h \in [0 .. (n + 1) -> V] /\ h[n + 1] = y
        /\ \A i \in 0 .. n : h[i] = g[i]
    BY <2>1, <2>2
  <2> HIDE DEF h
  <2>4. ASSUME NEW i \in 0 .. (n + 1) PROVE h[i] = Step[<<i, Before(h, i)>>]
    <3>1. CASE i = n + 1
      <4>1. Before(h, i) = g[n]
        BY <2>3, <3>1
      <4> QED
        BY <2>3, <3>1, <4>1 DEF y
    <3>2. CASE i \in 0 .. n
      <4>1. h[i] = g[i] /\ (i # 0 => i - 1 \in 0 .. n /\ h[i - 1] = g[i - 1])
        BY <2>3, <3>2
      <4>2. Before(h, i) = Before(g, i)
        BY <4>1
      <4>3. g[i] = Step[<<i, Before(g, i)>>]
        BY <2>1, <3>2
      <4> QED
        BY <4>1, <4>2, <4>3
    <3> QED
      BY <3>1, <3>2
  <2>5. Approx(n + 1, h)
    BY <2>3, <2>4
  <2> QED
    BY <2>5
<1>3. \A n \in Nat : \E g : Approx(n, g)
  <2> HIDE DEF S
  <2>1. \A n \in Nat : n \in S
    BY <1>1, <1>2, Induction
  <2> QED
    BY <2>1 DEF S
<1>4. ASSUME NEW m \in Nat, NEW n \in Nat, NEW g, NEW h, Approx(m, g), Approx(n, h)
      PROVE  \A i \in Nat : i <= m /\ i <= n => g[i] = h[i]
  <2> DEFINE E == {i \in Nat : i <= m /\ i <= n => g[i] = h[i]}
  <2>1. 0 \in E
    <3>1. g[0] = Step[<<0, x0>>] /\ h[0] = Step[<<0, x0>>]
      BY <1>4
    <3> QED
      BY <3>1
  <2>2. ASSUME NEW i \in Nat, i \in E PROVE i + 1 \in E
    <3> SUFFICES ASSUME i + 1 <= m, i + 1 <= n PROVE g[i + 1] = h[i + 1]
      OBVIOUS
    <3>1. /\ i + 1 \in 0 .. m /\ i + 1 \in 0 .. n /\ (i + 1) - 1 = i /\ i + 1 # 0
          /\ g[i] = h[i]
      BY <2>2
    <3>2. g[i + 1] = Step[<<i + 1, Before(g, i + 1)>>] /\ h[i + 1] = Step[<<i + 1, Before(h, i + 1)>>]
      BY <1>4, <3>1
    <3>3. Before(g, i + 1) = Before(h, i + 1)
      BY <3>1
    <3> QED
      BY <3>2, <3>3
  <2>3. \A i \in Nat : i \in E
    <3> HIDE DEF E
    <3> QED
      BY <2>1, <2>2, Induction
  <2> QED
    BY <2>3
<1> DEFINE G(n) == CHOOSE g : Approx(n, g)
           F == [n \in Nat |-> G(n)[n]]
<1>5. \A n \in Nat : Approx(n, G(n))
  <2> HIDE DEF Approx
  <2> QED
    BY <1>3
<1> HIDE DEF G
<1>6. F \in [Nat -> V]
  BY <1>5
<1>7. ASSUME NEW n \in Nat PROVE F[n] = Step[<<n, Before(F, n)>>]
  <2>1. Approx(n, G(n)) /\ n \in 0 .. n /\ F[n] = G(n)[n]
    BY <1>5
  <2>2. F[n] = Step[<<n, Before(G(n), n)>>]
    BY <2>1
  <2>3. Before(G(n), n) = Before(F, n)
    <3>1. CASE n = 0
      BY <3>1
    <3>2. CASE n # 0
      <4>1. n - 1 \in Nat /\ n - 1 <= n /\ n - 1 <= n - 1
        BY <3>2
      <4>2. Approx(n - 1, G(n - 1))
        BY <1>5, <4>1
      <4> HIDE DEF Approx
      <4>3. G(n)[n - 1] = G(n - 1)[n - 1]
        BY <1>4, <2>1, <4>1, <4>2
      <4>4. F[n - 1] = G(n - 1)[n - 1]
        BY <4>1
      <4> QED
        BY <3>2, <4>3, <4>4
    <3> QED
      BY <3>1, <3>2
  <2> QED
    BY <2>2, <2>3
<1>8. Loop(F, x0, Step)
  BY <1>7 DEF Loop
<1> QED
  BY <1>6, <1>8

-----------------------------------------------------------------------------
(* Breakpoints.                                                            *)

Vbp == [off : Offsets, num : Nat]
RealBp == [base : Nat, off : Offsets]
Tables(X) == UNION {[D -> X] : D \in SUBSET Nat}

\* Virtual breakpoints vb, real ones re and the next number of GDB fit together:
\* numbers are used once, and a real breakpoint belongs to a virtual one.
PiesOK(vb, re, nx) ==
    /\ vb \in Tables(Vbp) /\ re \in Tables(RealBp) /\ nx \in Nat /\ nx # 0
    /\ \A v \in DOMAIN vb : vb[v].num < nx
    /\ \A n \in DOMAIN re :
          n # 0 /\ n < nx /\ \E v \in DOMAIN vb : vb[v].num = n /\ vb[v].off = re[n].off
    /\ \A v, w \in DOMAIN vb : v # w /\ vb[v].num # 0 => vb[v].num # vb[w].num

\* The virtual breakpoint v is at the base b, unless GDB has refused it or the user
\* has deleted it.
At(vb, re, v, b) ==
    vb[v].num \in DOMAIN re => re[vb[v].num] = [base |-> b, off |-> vb[v].off]

\* A state of the commands, and the states whose virtual breakpoints are D.
PiesOf(vb, re, nx, o) == [vbps |-> vb, real |-> re, next |-> nx, ok |-> o]
PieStates(D) ==
    {s \in [vbps : [D -> Vbp], real : Tables(RealBp), next : Nat, ok : Flags] :
        PiesOK(s.vbps, s.real, s.next)}

\* A table is a function.
LEMMA TableLemma ==
    ASSUME NEW X, NEW f
    PROVE  f \in Tables(X) <=> DOMAIN f \subseteq Nat /\ f \in [DOMAIN f -> X]
<1>1. ASSUME f \in Tables(X) PROVE DOMAIN f \subseteq Nat /\ f \in [DOMAIN f -> X]
  <2>1. PICK D \in SUBSET Nat : f \in [D -> X]
    BY <1>1 DEF Tables
  <2> QED
    BY <2>1
<1>2. ASSUME DOMAIN f \subseteq Nat, f \in [DOMAIN f -> X] PROVE f \in Tables(X)
  BY <1>2 DEF Tables
<1> QED
  BY <1>1, <1>2

\* A virtual breakpoint that gets the number nx, at the base b.
LEMMA PlaceLemma ==
    ASSUME NEW vb, NEW re, NEW nx, PiesOK(vb, re, nx), NEW v \in DOMAIN vb, NEW b \in Nat,
           NEW vb2 \in [DOMAIN vb -> Vbp], vb2[v].num = nx, vb2[v].off = vb[v].off,
           \A w \in DOMAIN vb : w # v => vb2[w] = vb[w],
           NEW kept, kept = DOMAIN re \ {vb[v].num},
           NEW re2 \in [kept \cup {nx} -> RealBp],
           re2[nx].base = b, re2[nx].off = vb[v].off,
           \A n \in kept : n # nx => re2[n] = re[n]
    PROVE  /\ PiesOK(vb2, re2, nx + 1) /\ DOMAIN vb2 = DOMAIN vb
           /\ At(vb2, re2, v, b)
           /\ \A w \in DOMAIN vb : w # v /\ At(vb, re, w, b) => At(vb2, re2, w, b)
<1>1. /\ DOMAIN vb \subseteq Nat /\ vb \in [DOMAIN vb -> Vbp]
      /\ DOMAIN re \subseteq Nat /\ re \in [DOMAIN re -> RealBp]
      /\ nx \in Nat /\ nx # 0
  BY TableLemma DEF PiesOK
<1>4. /\ DOMAIN vb2 = DOMAIN vb /\ vb2 \in [DOMAIN vb -> Vbp]
      /\ vb2[v].num = nx /\ vb2[v].off = vb[v].off
      /\ \A w \in DOMAIN vb : w # v => vb2[w] = vb[w]
  OBVIOUS
<1>5. re2[nx] \in RealBp
  OBVIOUS
<1>6. /\ DOMAIN re2 = kept \cup {nx} /\ re2[nx] = [base |-> b, off |-> vb[v].off]
      /\ \A n \in kept : n # nx /\ re2[n] = re[n] /\ n \in DOMAIN re /\ n # vb[v].num
  <2>1. re2[nx] = [base |-> b, off |-> vb[v].off]
    BY <1>5 DEF RealBp
  <2> QED
    BY <1>1, <2>1 DEF PiesOK
<1>7. re2 \in [DOMAIN re2 -> RealBp] /\ DOMAIN re2 \subseteq Nat
  BY <1>1, <1>6
<1>8. vb2 \in Tables(Vbp) /\ re2 \in Tables(RealBp)
  BY <1>1, <1>4, <1>7, TableLemma
<1>9. \A w \in DOMAIN vb : vb[w].num \in Nat /\ vb[w].num < nx /\ vb[w].num # nx
  BY <1>1 DEF Vbp, PiesOK
<1>10. \A w \in DOMAIN vb2 : vb2[w].num < nx + 1
  BY <1>1, <1>4, <1>9
<1>11. ASSUME NEW n \in DOMAIN re2
       PROVE n # 0 /\ n < nx + 1 /\ \E w \in DOMAIN vb2 : vb2[w].num = n /\ vb2[w].off = re2[n].off
  <2>1. CASE n = nx
    <3>1. vb2[v].num = n /\ vb2[v].off = re2[n].off
      BY <2>1, <1>4, <1>6
    <3> QED
      BY <1>1, <1>4, <2>1, <3>1
  <2>2. CASE n \in kept
    <3>1. n \in DOMAIN re /\ n # vb[v].num /\ re2[n] = re[n]
      BY <1>6, <2>2
    <3>2. n # 0 /\ n < nx
      BY <3>1 DEF PiesOK
    <3>3. PICK w \in DOMAIN vb : vb[w].num = n /\ vb[w].off = re[n].off
      BY <3>1 DEF PiesOK
    <3>4. w # v /\ vb2[w] = vb[w]
      BY <1>4, <3>1, <3>3
    <3> QED
      BY <1>1, <1>4, <3>1, <3>2, <3>3, <3>4
  <2> QED
    BY <1>6, <2>1, <2>2
<1>12. ASSUME NEW w \in DOMAIN vb2, NEW u \in DOMAIN vb2, w # u, vb2[w].num # 0
       PROVE  vb2[w].num # vb2[u].num
  BY <1>4, <1>9, <1>12 DEF PiesOK
<1>13. PiesOK(vb2, re2, nx + 1)
  <2>1. nx + 1 \in Nat /\ nx + 1 # 0
    BY <1>1
  <2> QED
    BY <1>8, <1>10, <1>11, <1>12, <2>1 DEF PiesOK
<1>14. At(vb2, re2, v, b)
  BY <1>1, <1>4, <1>6 DEF At
<1>15. ASSUME NEW w \in DOMAIN vb, w # v, At(vb, re, w, b) PROVE At(vb2, re2, w, b)
  <2>1. vb2[w] = vb[w] /\ vb[w].num # nx
    BY <1>4, <1>9, <1>15
  <2>2. CASE vb[w].num \in DOMAIN re2
    <3>1. vb[w].num \in kept
      BY <1>6, <2>1, <2>2
    <3> QED
      BY <1>6, <1>15, <2>1, <3>1 DEF At
  <2>3. CASE vb[w].num \notin DOMAIN re2
    BY <2>1, <2>3 DEF At
  <2> QED
    BY <2>2, <2>3
<1> QED
  BY <1>4, <1>13, <1>14, <1>15

\* A virtual breakpoint that loses its real one.
LEMMA RefusedLemma ==
    ASSUME NEW vb, NEW re, NEW nx, PiesOK(vb, re, nx), NEW v \in DOMAIN vb, NEW b,
           NEW vb2 \in [DOMAIN vb -> Vbp], vb2[v].num = 0,
           \A w \in DOMAIN vb : w # v => vb2[w] = vb[w],
           NEW kept, kept = [n \in DOMAIN re \ {vb[v].num} |-> re[n]]
    PROVE  /\ PiesOK(vb2, kept, nx) /\ DOMAIN vb2 = DOMAIN vb
           /\ At(vb2, kept, v, b)
           /\ \A w \in DOMAIN vb : w # v /\ At(vb, re, w, b) => At(vb2, kept, w, b)
<1>1. /\ DOMAIN vb \subseteq Nat /\ vb \in [DOMAIN vb -> Vbp]
      /\ DOMAIN re \subseteq Nat /\ re \in [DOMAIN re -> RealBp]
      /\ nx \in Nat /\ nx # 0 /\ 0 < nx
  BY TableLemma DEF PiesOK
<1>2. /\ DOMAIN kept = DOMAIN re \ {vb[v].num} /\ kept \in [DOMAIN kept -> RealBp]
      /\ \A n \in DOMAIN kept : n \in DOMAIN re /\ n # vb[v].num /\ kept[n] = re[n] /\ n # 0
  BY <1>1 DEF PiesOK
<1>3. vb2 \in Tables(Vbp) /\ kept \in Tables(RealBp) /\ DOMAIN vb2 = DOMAIN vb
  BY <1>1, <1>2, TableLemma
<1>4. \A w \in DOMAIN vb2 : vb2[w].num < nx
  BY <1>1, <1>3 DEF PiesOK
<1>5. ASSUME NEW n \in DOMAIN kept
      PROVE n # 0 /\ n < nx /\ \E w \in DOMAIN vb2 : vb2[w].num = n /\ vb2[w].off = kept[n].off
  <2>1. n \in DOMAIN re /\ n # vb[v].num /\ kept[n] = re[n]
    BY <1>2
  <2>2. PICK w \in DOMAIN vb : vb[w].num = n /\ vb[w].off = re[n].off
    BY <2>1 DEF PiesOK
  <2> QED
    BY <1>2, <1>3, <2>1, <2>2 DEF PiesOK
<1>6. \A w, u \in DOMAIN vb2 : w # u /\ vb2[w].num # 0 => vb2[w].num # vb2[u].num
  BY <1>3 DEF PiesOK
<1>7. PiesOK(vb2, kept, nx)
  BY <1>1, <1>3, <1>4, <1>5, <1>6 DEF PiesOK
<1>8. At(vb2, kept, v, b)
  BY <1>2 DEF At
<1>9. \A w \in DOMAIN vb : w # v /\ At(vb, re, w, b) => At(vb2, kept, w, b)
  BY <1>2 DEF At
<1> QED
  BY <1>3, <1>7, <1>8, <1>9

\* What is known of every member of PieStates(D).
LEMMA PieStateLemma ==
    ASSUME NEW D \in SUBSET Nat
    PROVE  /\ \A vb, re, nx, o :
                 PiesOf(vb, re, nx, o) \in PieStates(D)
                   <=> PiesOK(vb, re, nx) /\ DOMAIN vb = D /\ o \in Flags
           /\ \A s \in PieStates(D) :
                 /\ s = PiesOf(s.vbps, s.real, s.next, s.ok)
                 /\ PiesOK(s.vbps, s.real, s.next) /\ DOMAIN s.vbps = D /\ s.ok \in Flags
<1>1. ASSUME NEW vb, NEW re, NEW nx, NEW o
      PROVE  PiesOf(vb, re, nx, o) \in PieStates(D)
                <=> PiesOK(vb, re, nx) /\ DOMAIN vb = D /\ o \in Flags
  <2> DEFINE s == PiesOf(vb, re, nx, o)
  <2>1. s.vbps = vb /\ s.real = re /\ s.next = nx /\ s.ok = o
    BY DEF PiesOf
  <2>2. PiesOK(vb, re, nx) => vb \in [DOMAIN vb -> Vbp] /\ re \in Tables(RealBp) /\ nx \in Nat
    BY TableLemma DEF PiesOK
  <2>3. s \in PieStates(D) => PiesOK(vb, re, nx) /\ DOMAIN vb = D /\ o \in Flags
    BY <2>1 DEF PieStates
  <2>4. ASSUME PiesOK(vb, re, nx), DOMAIN vb = D, o \in Flags PROVE s \in PieStates(D)
    <3>1. s \in [vbps : [D -> Vbp], real : Tables(RealBp), next : Nat, ok : Flags]
      BY <2>2, <2>4 DEF PiesOf
    <3> HIDE DEF s
    <3> QED
      BY <2>1, <2>4, <3>1 DEF PieStates
  <2> QED
    BY <2>3, <2>4
<1>2. ASSUME NEW s \in PieStates(D)
      PROVE  /\ s = PiesOf(s.vbps, s.real, s.next, s.ok)
             /\ PiesOK(s.vbps, s.real, s.next) /\ DOMAIN s.vbps = D /\ s.ok \in Flags
  BY DEF PieStates, PiesOf
<1> QED
  BY <1>1, <1>2

\* PieVirtualBreakpoint.instantiate()
LEMMA InstantiateLemma ==
    ASSUME NEW D \in SUBSET Nat, NEW s \in PieStates(D), NEW v \in D, NEW b \in Nat,
           NEW refused
    PROVE  LET q == Instantiate(s, v, b, refused)
           IN  /\ q \in PieStates(D)
               /\ q.ok => /\ At(q.vbps, q.real, v, b)
                          /\ \A w \in D : w # v /\ At(s.vbps, s.real, w, b)
                                            => At(q.vbps, q.real, w, b)
<1> DEFINE vb == s.vbps
           re == s.real
           nx == s.next
           q == Instantiate(s, v, b, refused)
           left == [n \in DOMAIN re \ {vb[v].num} |-> re[n]]
           kept == DOMAIN left
           vb0 == [vb EXCEPT ![v].num = 0]
           vb2 == [vb EXCEPT ![v].num = nx]
           re2 == [n \in kept \cup {nx} |->
                      IF n = nx THEN [base |-> b, off |-> vb[v].off] ELSE left[n]]
<1>1. s = PiesOf(vb, re, nx, s.ok) /\ PiesOK(vb, re, nx) /\ DOMAIN vb = D /\ s.ok \in Flags
  BY PieStateLemma
<1>2. PICK no : no = FALSE
  OBVIOUS
<1>3. CASE vb[v].num # 0 /\ vb[v].num \notin DOMAIN re
  <2>1. q = [s EXCEPT !.ok = no]
    BY <1>2, <1>3 DEF Instantiate
  <2> HIDE DEF vb, re, nx, q
  <2>2. q = PiesOf(vb, re, nx, no)
    BY <1>1, <2>1 DEF PiesOf
  <2>3. no \in Flags
    BY <1>2 DEF Flags
  <2>4. q \in PieStates(D)
    BY <1>1, <2>2, <2>3, PieStateLemma
  <2>5. q.ok = no
    BY <2>2 DEF PiesOf
  <2> QED
    BY <1>2, <2>4, <2>5 DEF q
<1>4. CASE ~(vb[v].num # 0 /\ vb[v].num \notin DOMAIN re) /\ v \in refused
  <2>1. q = [s EXCEPT !.vbps[v].num = 0, !.real = left]
    BY <1>4 DEF Instantiate
  <2>2. q = [s EXCEPT !.real = left, !.vbps = vb0]
    BY <2>1
  <2>3. /\ PiesOK(vb0, left, nx) /\ DOMAIN vb0 = D
        /\ At(vb0, left, v, b)
        /\ \A w \in D : w # v /\ At(vb, re, w, b) => At(vb0, left, w, b)
    <3>1. vb \in [D -> Vbp]
      BY <1>1, TableLemma DEF PiesOK
    <3>2. /\ vb[v] \in Vbp /\ [vb[v] EXCEPT !.num = 0] \in Vbp
          /\ [vb[v] EXCEPT !.num = 0].num = 0
      BY <3>1 DEF Vbp
    <3>3. vb0 = [vb EXCEPT ![v] = [vb[v] EXCEPT !.num = 0]]
      OBVIOUS
    <3>4. /\ vb0 \in [D -> Vbp] /\ vb0[v].num = 0
          /\ \A w \in D : w # v => vb0[w] = vb[w]
      BY <3>1, <3>2, <3>3
    <3>5. left = [n \in DOMAIN re \ {vb[v].num} |-> re[n]]
      OBVIOUS
    <3> HIDE DEF vb, re, nx, vb0, left
    <3>6. /\ v \in DOMAIN vb /\ PiesOK(vb, re, nx) /\ vb0 \in [DOMAIN vb -> Vbp]
          /\ vb0[v].num = 0 /\ \A w \in DOMAIN vb : w # v => vb0[w] = vb[w]
      BY <1>1, <3>4
    <3>7. /\ PiesOK(vb0, left, nx) /\ DOMAIN vb0 = DOMAIN vb
          /\ At(vb0, left, v, b)
          /\ \A w \in DOMAIN vb : w # v /\ At(vb, re, w, b) => At(vb0, left, w, b)
      BY <3>5, <3>6, RefusedLemma, SMTT(40)
    <3> QED
      BY <1>1, <3>7
  <2> HIDE DEF vb, re, nx, vb0, left, q
  <2>4. q = PiesOf(vb0, left, nx, s.ok)
    <3>1. PICK o : o = s.ok
      OBVIOUS
    <3>2. q = [PiesOf(vb, re, nx, o) EXCEPT !.real = left, !.vbps = vb0]
      BY <1>1, <2>2, <3>1
    <3>3. q = PiesOf(vb0, left, nx, o)
      BY <3>2 DEF PiesOf
    <3> QED
      BY <3>1, <3>3
  <2>5. q.vbps = vb0 /\ q.real = left
    BY <2>4 DEF PiesOf
  <2>6. q \in PieStates(D)
    BY <1>1, <2>3, <2>4, PieStateLemma
  <2> QED
    BY <2>3, <2>5, <2>6 DEF q, vb, re
<1>5. CASE ~(vb[v].num # 0 /\ vb[v].num \notin DOMAIN re) /\ v \notin refused
  <2>1. q = [s EXCEPT !.vbps[v].num = nx, !.real = re2, !.next = @ + 1]
    BY <1>5 DEF Instantiate
  <2>2. q = [s EXCEPT !.vbps = vb2, !.real = re2, !.next = nx + 1]
    BY <2>1
  <2>3. /\ PiesOK(vb2, re2, nx + 1) /\ DOMAIN vb2 = D
        /\ At(vb2, re2, v, b)
        /\ \A w \in D : w # v /\ At(vb, re, w, b) => At(vb2, re2, w, b)
    <3>1. /\ vb \in [D -> Vbp] /\ re \in [DOMAIN re -> RealBp] /\ nx \in Nat
      BY <1>1, TableLemma DEF PiesOK
    <3>2. /\ vb[v] \in Vbp /\ [vb[v] EXCEPT !.num = nx] \in Vbp
          /\ [vb[v] EXCEPT !.num = nx].num = nx
          /\ [vb[v] EXCEPT !.num = nx].off = vb[v].off
      BY <3>1 DEF Vbp
    <3>3. vb2 = [vb EXCEPT ![v] = [vb[v] EXCEPT !.num = nx]]
      OBVIOUS
    <3>4. /\ vb2 \in [D -> Vbp] /\ vb2[v].num = nx /\ vb2[v].off = vb[v].off
          /\ \A w \in D : w # v => vb2[w] = vb[w]
      BY <3>1, <3>2, <3>3
    <3>5. [base |-> b, off |-> vb[v].off] \in RealBp
      BY <3>2 DEF RealBp, Vbp
    <3>6. /\ re2 \in [kept \cup {nx} -> RealBp] /\ re2[nx] = [base |-> b, off |-> vb[v].off]
          /\ \A n \in kept : n # nx => re2[n] = re[n]
      BY <3>1, <3>5
    <3>7. kept = DOMAIN re \ {vb[v].num}
      OBVIOUS
    <3> HIDE DEF vb, re, nx, left, kept, vb2, re2
    <3>8. /\ v \in DOMAIN vb /\ PiesOK(vb, re, nx) /\ vb2 \in [DOMAIN vb -> Vbp]
          /\ \A w \in DOMAIN vb : w # v => vb2[w] = vb[w]
          /\ vb2[v].num = nx /\ vb2[v].off = vb[v].off
      BY <1>1, <3>4
    <3>9. re2[nx].base = b /\ re2[nx].off = vb[v].off
      BY <3>6
    <3>10. /\ PiesOK(vb2, re2, nx + 1) /\ DOMAIN vb2 = DOMAIN vb
           /\ At(vb2, re2, v, b)
           /\ \A w \in DOMAIN vb : w # v /\ At(vb, re, w, b) => At(vb2, re2, w, b)
      BY <3>6, <3>7, <3>8, <3>9, PlaceLemma, SMTT(40)
    <3> QED
      BY <1>1, <3>10
  <2> HIDE DEF vb, re, nx, vb2, re2, q
  <2>4. q = PiesOf(vb2, re2, nx + 1, s.ok)
    <3>1. PICK o : o = s.ok
      OBVIOUS
    <3>2. q = PiesOf(vb2, re2, nx + 1, o)
      BY <1>1, <2>2, <3>1 DEF PiesOf
    <3> QED
      BY <3>1, <3>2
  <2>5. q.vbps = vb2 /\ q.real = re2
    BY <2>4 DEF PiesOf
  <2>6. q \in PieStates(D)
    BY <1>1, <2>3, <2>4, PieStateLemma
  <2> QED
    BY <2>3, <2>5, <2>6 DEF q, vb, re
<1> QED
  BY <1>3, <1>4, <1>5

\* The loop over all of them: if it goes through, all are at the base.
LEMMA InstantiateAllLemma ==
    ASSUME NEW D \in SUBSET Nat, NEW s \in PieStates(D), NEW b \in Nat, NEW refused,
           \A v \in D : v <= MaxVbp
    PROVE  LET q == InstantiateAll(s, b, refused)
           IN  q \in PieStates(D) /\ (q.ok => \A v \in D : At(q.vbps, q.real, v, b))
<1> DEFINE V == PieStates(D)
           Body(v, x) == IF v \in D /\ x.ok THEN Instantiate(x, v, b, refused) ELSE x
           Before(g, v) == IF v = 0 THEN s ELSE g[v - 1]
           upTo == CHOOSE g : g = [v \in Nat |-> Body(v, Before(g, v))]
           Step == [p \in Nat \X V |-> Body(p[1], p[2])]
<1>1. MaxVbp \in Nat /\ DOMAIN s.vbps = D
  BY PieBounds, PieStateLemma
<1>2. InstantiateAll(s, b, refused) = upTo[MaxVbp]
  BY <1>1 DEF InstantiateAll
<1>3. \A v \in Nat, x \in V : Body(v, x) \in V
  BY InstantiateLemma
<1>4. Step \in [Nat \X V -> V] /\ \A v \in Nat, x \in V : Step[<<v, x>>] = Body(v, x)
  <2> HIDE DEF Body
  <2> QED
    BY <1>3
<1> HIDE DEF Step
<1>5. PICK F \in [Nat -> V] : Loop(F, s, Step)
  BY <1>4, LoopExists
<1>6. \A v \in Nat : F[v] = Body(v, Before(F, v))
  <2> SUFFICES ASSUME NEW v \in Nat PROVE F[v] = Body(v, Before(F, v))
    OBVIOUS
  <2>1. F[v] = Step[<<v, Before(F, v)>>]
    BY <1>5 DEF Loop
  <2>2. Before(F, v) \in V
    BY <1>5
  <2> HIDE DEF Body, Before
  <2> QED
    BY <1>4, <2>1, <2>2
<1>7. F = [v \in Nat |-> Body(v, Before(F, v))]
  <2> HIDE DEF Body, Before
  <2> QED
    BY <1>6
<1>8. upTo = [v \in Nat |-> Body(v, Before(upTo, v))]
  <2> HIDE DEF Body, Before
  <2> QED
    BY <1>7
<1> HIDE DEF upTo
<1>9. \A v \in Nat : upTo[v] = Body(v, Before(upTo, v))
  <2> HIDE DEF Body, Before
  <2> QED
    BY <1>8
<1> DEFINE Done(n) == /\ upTo[n] \in V
                      /\ upTo[n].ok => \A v \in D : v <= n => At(upTo[n].vbps, upTo[n].real, v, b)
           S == {n \in Nat : Done(n)}
<1>10. ASSUME NEW n \in Nat, NEW x \in V, upTo[n] = Body(n, x),
              x.ok => \A v \in D : v < n => At(x.vbps, x.real, v, b)
       PROVE  Done(n)
  <2>1. CASE n \in D /\ x.ok
    <3>1. /\ upTo[n] = Instantiate(x, n, b, refused)
      BY <1>10, <2>1
    <3>2. \A v \in D : v <= n => v = n \/ (v # n /\ v < n)
      OBVIOUS
    <3> QED
      BY <1>10, <2>1, <3>1, <3>2, InstantiateLemma
  <2>2. CASE ~(n \in D /\ x.ok)
    <3>1. upTo[n] = x
      BY <1>10, <2>2
    <3>2. x.ok => \A v \in D : v <= n => v < n
      BY <2>2
    <3> QED
      BY <1>10, <3>1, <3>2
  <2> QED
    BY <2>1, <2>2
<1>11. 0 \in S
  <2>1. upTo[0] = Body(0, s) /\ \A v \in D : ~(v < 0)
    BY <1>9
  <2> QED
    BY <1>10, <2>1
<1>12. ASSUME NEW n \in Nat, n \in S PROVE n + 1 \in S
  <2>1. upTo[n + 1] = Body(n + 1, upTo[n])
    BY <1>9
  <2>2. \A v \in D : v < n + 1 => v <= n
    OBVIOUS
  <2> QED
    BY <1>10, <1>12, <2>1, <2>2
<1>13. Done(MaxVbp)
  <2> HIDE DEF Done, S
  <2>1. \A n \in Nat : n \in S
    BY <1>11, <1>12, Induction
  <2> QED
    BY <1>1, <2>1 DEF S
<1> QED
  BY <1>2, <1>13

\* The tables f and g agree, and f has no more entries.
PartOf(f, g) == DOMAIN f \subseteq DOMAIN g /\ \A x \in DOMAIN f : f[x] = g[x]

\* The states that deletions leave of the tables vb and re.
Fewer(vb, re) ==
    {s \in [vbps : Tables(Vbp), real : Tables(RealBp), next : Nat, ok : Flags] :
        /\ PiesOK(s.vbps, s.real, s.next)
        /\ PartOf(s.vbps, vb) /\ PartOf(s.real, re)}

\* PieDeleteCommand.delete_bp(), for one virtual breakpoint.
LEMMA DeleteOneLemma ==
    ASSUME NEW vb0, NEW re0, NEW s \in Fewer(vb0, re0), NEW v
    PROVE  DeleteOne(s, v) \in Fewer(vb0, re0)
<1> DEFINE vb == s.vbps
           re == s.real
           nx == s.next
           q == DeleteOne(s, v)
           re2 == [n \in DOMAIN re \ {vb[v].num} |-> re[n]]
           vb2 == [w \in DOMAIN vb \ {v} |-> vb[w]]
<1>1. /\ s = PiesOf(vb, re, nx, s.ok) /\ PiesOK(vb, re, nx) /\ s.ok \in Flags
      /\ PartOf(vb, vb0) /\ PartOf(re, re0)
  BY DEF Fewer, PiesOf
<1>2. ASSUME NEW a, NEW c, NEW o \in Flags,
             PiesOK(a, c, nx), PartOf(a, vb0), PartOf(c, re0)
      PROVE  PiesOf(a, c, nx, o) \in Fewer(vb0, re0)
  <2> DEFINE r == PiesOf(a, c, nx, o)
  <2>1. r.vbps = a /\ r.real = c /\ r.next = nx
    BY DEF PiesOf
  <2>2. r \in [vbps : Tables(Vbp), real : Tables(RealBp), next : Nat, ok : Flags]
    BY <1>2 DEF PiesOf, PiesOK
  <2> HIDE DEF r, nx
  <2>3. r \in Fewer(vb0, re0)
    BY <1>2, <2>1, <2>2 DEF Fewer
  <2> QED
    BY <2>3 DEF r
<1>3. CASE vb[v].num # 0 /\ vb[v].num \notin DOMAIN re
  <2>1. PICK no : no = FALSE
    OBVIOUS
  <2>2. q = [s EXCEPT !.ok = no]
    BY <1>3, <2>1 DEF DeleteOne
  <2>3. no \in Flags
    BY <2>1 DEF Flags
  <2> HIDE DEF vb, re, nx, q
  <2>4. q = PiesOf(vb, re, nx, no)
    BY <1>1, <2>2 DEF PiesOf
  <2> QED
    BY <1>1, <1>2, <2>3, <2>4 DEF q
<1>4. CASE ~(vb[v].num # 0 /\ vb[v].num \notin DOMAIN re)
  <2>1. q = [s EXCEPT !.real = re2, !.vbps = vb2]
    BY <1>4 DEF DeleteOne
  <2>2. /\ DOMAIN vb \subseteq Nat /\ vb \in [DOMAIN vb -> Vbp]
        /\ DOMAIN re \subseteq Nat /\ re \in [DOMAIN re -> RealBp]
    BY <1>1, TableLemma DEF PiesOK
  <2>3. /\ DOMAIN vb2 = DOMAIN vb \ {v} /\ DOMAIN re2 = DOMAIN re \ {vb[v].num}
        /\ vb2 \in [DOMAIN vb2 -> Vbp] /\ re2 \in [DOMAIN re2 -> RealBp]
        /\ \A w \in DOMAIN vb2 : vb2[w] = vb[w]
        /\ \A n \in DOMAIN re2 : re2[n] = re[n]
    BY <2>2
  <2> HIDE DEF vb, re, nx, vb2, re2, q
  <2>4. vb2 \in Tables(Vbp) /\ re2 \in Tables(RealBp)
    BY <2>2, <2>3, TableLemma
  <2>5. PartOf(vb2, vb0) /\ PartOf(re2, re0)
    BY <1>1, <2>3 DEF PartOf
  <2>6. \A n \in DOMAIN re2 :
           n # 0 /\ n < nx /\ \E w \in DOMAIN vb2 : vb2[w].num = n /\ vb2[w].off = re2[n].off
    <3> SUFFICES ASSUME NEW n \in DOMAIN re2
                 PROVE  n # 0 /\ n < nx
                        /\ \E w \in DOMAIN vb2 : vb2[w].num = n /\ vb2[w].off = re2[n].off
      OBVIOUS
    <3>1. n \in DOMAIN re /\ n # vb[v].num
      BY <2>3
    <3>2. PICK w \in DOMAIN vb : vb[w].num = n /\ vb[w].off = re[n].off
      BY <1>1, <3>1 DEF PiesOK
    <3>3. w \in DOMAIN vb2
      BY <2>3, <3>1, <3>2
    <3> QED
      BY <1>1, <2>3, <3>1, <3>2, <3>3 DEF PiesOK
  <2>7. PiesOK(vb2, re2, nx)
    BY <1>1, <2>3, <2>4, <2>6 DEF PiesOK
  <2>8. q = PiesOf(vb2, re2, nx, s.ok)
    <3>1. PICK o : o = s.ok
      OBVIOUS
    <3>2. q = [PiesOf(vb, re, nx, o) EXCEPT !.real = re2, !.vbps = vb2]
      BY <1>1, <2>1, <3>1
    <3>3. q = PiesOf(vb2, re2, nx, o)
      BY <3>2 DEF PiesOf
    <3> QED
      BY <3>1, <3>3
  <2> QED
    BY <1>1, <1>2, <2>5, <2>7, <2>8 DEF q
<1> QED
  BY <1>3, <1>4

\* The loop of delete_bp().
LEMMA DeleteAllLemma ==
    ASSUME NEW vb0, NEW re0, NEW s \in Fewer(vb0, re0), NEW which
    PROVE  DeleteAll(s, which) \in Fewer(vb0, re0)
<1> DEFINE V == Fewer(vb0, re0)
           Body(v, x) == IF v \in which /\ x.ok THEN DeleteOne(x, v) ELSE x
           Before(g, v) == IF v = 0 THEN s ELSE g[v - 1]
           upTo == CHOOSE g : g = [v \in Nat |-> Body(v, Before(g, v))]
           Step == [p \in Nat \X V |-> Body(p[1], p[2])]
<1>1. MaxVbp \in Nat
  BY PieBounds
<1>2. DeleteAll(s, which) = upTo[MaxVbp]
  BY <1>1 DEF DeleteAll
<1>3. \A v \in Nat, x \in V : Body(v, x) \in V
  BY DeleteOneLemma
<1> HIDE DEF V
<1>4. Step \in [Nat \X V -> V] /\ \A v \in Nat, x \in V : Step[<<v, x>>] = Body(v, x)
  <2> HIDE DEF Body
  <2> QED
    BY <1>3
<1> HIDE DEF Step
<1>s. s \in V
  BY DEF V
<1>5. PICK F \in [Nat -> V] : Loop(F, s, Step)
  BY <1>4, <1>s, LoopExists
<1>6. \A v \in Nat : F[v] = Body(v, Before(F, v))
  <2> SUFFICES ASSUME NEW v \in Nat PROVE F[v] = Body(v, Before(F, v))
    OBVIOUS
  <2>1. F[v] = Step[<<v, Before(F, v)>>]
    BY <1>5 DEF Loop
  <2>2. Before(F, v) \in V
    BY <1>5, <1>s
  <2> HIDE DEF Body, Before
  <2> QED
    BY <1>4, <2>1, <2>2
<1>7. F = [v \in Nat |-> Body(v, Before(F, v))]
  <2> HIDE DEF Body, Before
  <2> QED
    BY <1>6
<1>8. upTo = [v \in Nat |-> Body(v, Before(upTo, v))]
  <2> HIDE DEF Body, Before
  <2> QED
    BY <1>7
<1> HIDE DEF upTo
<1>9. \A v \in Nat : upTo[v] = Body(v, Before(upTo, v))
  <2> HIDE DEF Body, Before
  <2> QED
    BY <1>8
<1> DEFINE S == {n \in Nat : upTo[n] \in V}
<1>10. 0 \in S
  <2>1. upTo[0] = Body(0, s)
    BY <1>9
  <2> HIDE DEF Body
  <2> QED
    BY <1>3, <1>s, <2>1
<1>11. ASSUME NEW n \in Nat, n \in S PROVE n + 1 \in S
  <2>1. upTo[n + 1] = Body(n + 1, upTo[n]) /\ upTo[n] \in V /\ n + 1 \in Nat
    BY <1>9, <1>11
  <2> HIDE DEF Body
  <2>2. upTo[n + 1] \in V
    BY <1>3, <2>1
  <2> QED
    BY <2>1, <2>2
<1>12. upTo[MaxVbp] \in V
  <2> HIDE DEF S
  <2>1. \A n \in Nat : n \in S
    BY <1>10, <1>11, Induction
  <2> QED
    BY <1>1, <2>1 DEF S
<1> QED
  BY <1>2, <1>12 DEF V

\* The inductive invariant of the `pie` commands, on top of that of the session.
PieInv ==
    /\ PiesOK(vbps, real, nextNum)
    /\ counter \in Nat /\ \A v \in DOMAIN vbps : v < counter /\ v <= MaxVbp
    /\ placed /\ proc # 0 => \A v \in DOMAIN vbps : At(vbps, real, v, proc)

\* The commands take the base of the process at hand from the cached maps.
LEMMA BaseLemma ==
    ASSUME NEW c, NEW p, NEW l, NEW s, NEW f, CachesTrue(c, p, l, s, f), c.maps # NoView
    PROVE  c.maps.proc = p
  BY DEF CachesTrue, ViewTrue

\* All virtual breakpoints are moved to the base b.
LEMMA MovedLemma ==
    ASSUME NEW vb, NEW re, NEW nx, PiesOK(vb, re, nx), \A v \in DOMAIN vb : v <= MaxVbp,
           NEW b \in Nat, NEW o \in Flags, NEW refused
    PROVE  LET q == InstantiateAll(PiesOf(vb, re, nx, o), b, refused)
           IN  /\ PiesOK(q.vbps, q.real, q.next) /\ DOMAIN q.vbps = DOMAIN vb
               /\ q.ok => \A v \in DOMAIN vb : At(q.vbps, q.real, v, b)
<1>1. DOMAIN vb \in SUBSET Nat
  BY TableLemma DEF PiesOK
<1>2. PiesOf(vb, re, nx, o) \in PieStates(DOMAIN vb)
  BY <1>1, PieStateLemma
<1> DEFINE q == InstantiateAll(PiesOf(vb, re, nx, o), b, refused)
<1>3. q \in PieStates(DOMAIN vb) /\ (q.ok => \A v \in DOMAIN vb : At(q.vbps, q.real, v, b))
  BY <1>1, <1>2, InstantiateAllLemma
<1> HIDE DEF q
<1>4. PiesOK(q.vbps, q.real, q.next) /\ DOMAIN q.vbps = DOMAIN vb
  BY <1>1, <1>3, PieStateLemma
<1> QED
  BY <1>3, <1>4 DEF q

\* A step after which all virtual breakpoints vb are at the base of the process,
\* if no exception has ended the command.
LEMMA MovedStep ==
    ASSUME NEW vb, NEW re, NEW nx, PiesOK(vb, re, nx), NEW o \in Flags,
           \A v \in DOMAIN vb : v < counter' /\ v <= MaxVbp, counter' \in Nat,
           proc' \in Nat, NEW refused,
           LET q == InstantiateAll(PiesOf(vb, re, nx, o), proc', refused)
           IN SetPies(q) /\ placed' = q.ok
    PROVE  PieInv'
<1> DEFINE q == InstantiateAll(PiesOf(vb, re, nx, o), proc', refused)
<1>1. /\ PiesOK(q.vbps, q.real, q.next) /\ DOMAIN q.vbps = DOMAIN vb
      /\ q.ok => \A v \in DOMAIN vb : At(q.vbps, q.real, v, proc')
  <2>1. PICK b \in Nat : b = proc'
    OBVIOUS
  <2> QED
    BY <2>1, MovedLemma
<1>2. vbps' = q.vbps /\ real' = q.real /\ nextNum' = q.next /\ placed' = q.ok
  BY DEF SetPies
<1> HIDE DEF q
<1> QED
  BY <1>1, <1>2 DEF PieInv

\* No breakpoints yet.
LEMMA PieStart == PieInit => PieInv
<1> SUFFICES ASSUME PieInit PROVE PieInv
  OBVIOUS
<1>1. DOMAIN vbps = {} /\ DOMAIN real = {} /\ nextNum = 1 /\ counter = 1
      /\ vbps \in [{} -> Vbp] /\ real \in [{} -> RealBp]
  BY DEF PieInit
<1>2. vbps \in Tables(Vbp) /\ real \in Tables(RealBp)
  BY <1>1, TableLemma
<1> QED
  BY <1>1, <1>2 DEF PieInv, PiesOK

\* `pie breakpoint'
LEMMA PieBreakpointKeeps ==
    ASSUME SessionInv, PieInv, PieBreakpoint PROVE PieInv'
<1>1. /\ mode = "prompt" /\ counter <= MaxVbp /\ counter' = counter + 1 /\ proc' = proc
      /\ counter \in Nat /\ counter' \in Nat /\ MaxVbp \in Nat
  BY PieBounds DEF PieBreakpoint, PieInv
<1>2. PICK off \in Offsets :
        LET v == counter
            s == [Pies EXCEPT !.vbps =
                    [w \in DOMAIN vbps \cup {v} |->
                        IF w = v THEN [off |-> off, num |-> 0] ELSE vbps[w]]]
            filled == FillMaps(caches, proc, layout, sess)
        IN \/ /\ proc = 0
              /\ SetPies(s) /\ UNCHANGED <<caches, placed>>
           \/ /\ proc # 0
              /\ Place(s, filled) /\ caches' = filled
  BY DEF PieBreakpoint
<1> DEFINE vb == [w \in DOMAIN vbps \cup {counter} |->
                     IF w = counter THEN [off |-> off, num |-> 0] ELSE vbps[w]]
           s == [Pies EXCEPT !.vbps = vb]
           c == FillMaps(caches, proc, layout, sess)
           b == c.maps.proc
           all(refused) == InstantiateAll(s, b, refused)
<1>3. PICK o : o = TRUE
  OBVIOUS
<1>4. s = PiesOf(vb, real, nextNum, o) /\ o \in Flags
  <2>1. Pies = PiesOf(vbps, real, nextNum, o)
    BY <1>3 DEF Pies, PiesOf
  <2> HIDE DEF vb
  <2>2. [PiesOf(vbps, real, nextNum, o) EXCEPT !.vbps = vb] = PiesOf(vb, real, nextNum, o)
    BY DEF PiesOf
  <2> QED
    BY <1>3, <2>1, <2>2 DEF Flags
<1>5. /\ PiesOK(vb, real, nextNum) /\ \A v \in DOMAIN vb : v < counter' /\ v <= MaxVbp
  <2>1. /\ DOMAIN vbps \subseteq Nat /\ vbps \in [DOMAIN vbps -> Vbp] /\ PiesOK(vbps, real, nextNum)
        /\ \A v \in DOMAIN vbps : v < counter /\ v <= MaxVbp
    BY TableLemma DEF PieInv, PiesOK
  <2>2. [off |-> off, num |-> 0] \in Vbp
    BY DEF Vbp
  <2>3. /\ DOMAIN vb = DOMAIN vbps \cup {counter} /\ vb \in [DOMAIN vb -> Vbp]
        /\ vb[counter].num = 0 /\ counter \notin DOMAIN vbps
        /\ \A w \in DOMAIN vbps : vb[w] = vbps[w]
    BY <1>1, <2>1, <2>2
  <2> HIDE DEF vb
  <2>4. vb \in Tables(Vbp)
    BY <1>1, <2>1, <2>3, TableLemma
  <2>5. \A v \in DOMAIN vb : v < counter' /\ v <= MaxVbp
    BY <1>1, <2>1, <2>3
  <2>6. \A v \in DOMAIN vb : vb[v].num < nextNum
    BY <2>1, <2>3 DEF PiesOK
  <2>7. \A n \in DOMAIN real : /\ n # 0 /\ n < nextNum
          /\ \E v \in DOMAIN vb : vb[v].num = n /\ vb[v].off = real[n].off
    BY <2>1, <2>3 DEF PiesOK
  <2>8. \A v, w \in DOMAIN vb : v # w /\ vb[v].num # 0 => vb[v].num # vb[w].num
    BY <2>1, <2>3 DEF PiesOK
  <2> QED
    BY <2>1, <2>4, <2>5, <2>6, <2>7, <2>8 DEF PiesOK
<1>6. \/ SetPies(s) /\ proc = 0
      \/ SetPies(s) /\ placed' = FALSE
      \/ /\ proc # 0 /\ c.maps # NoView
         /\ \E refused : SetPies(all(refused)) /\ placed' = all(refused).ok
  BY <1>2 DEF Place
<1>b. proc # 0 /\ c.maps # NoView => b = proc' /\ proc' \in Nat
  <2>1. /\ CachesTrue(caches, proc, layout, sess, failed)
        /\ proc \in Nat /\ layout \in {0, 1} /\ sess \in Sessions
    BY <1>1, OldState DEF SessionInv
  <2>2. CachesTrue(c, proc, layout, sess, failed)
    BY <2>1, FillTrue
  <2> QED
    BY <1>1, <2>1, <2>2, BaseLemma
<1> HIDE DEF vb, s, c, b
<1>7. ASSUME SetPies(s), proc = 0 \/ placed' = FALSE PROVE PieInv'
  <2>1. vbps' = vb /\ real' = real /\ nextNum' = nextNum
    <3>1. s.vbps = vb /\ s.real = real /\ s.next = nextNum
      BY <1>4 DEF PiesOf
    <3> QED
      BY <1>7, <3>1 DEF SetPies
  <2> QED
    BY <1>1, <1>5, <1>7, <2>1 DEF PieInv
<1>8. ASSUME b = proc', proc' \in Nat, NEW refused,
             SetPies(all(refused)), placed' = all(refused).ok
      PROVE  PieInv'
  BY <1>1, <1>4, <1>5, <1>8, MovedStep
<1> HIDE DEF all
<1> QED
  BY <1>6, <1>7, <1>8, <1>b

\* The `pie` commands that start, attach to or connect to a process.
LEMMA PieProcessKeeps ==
    ASSUME SessionInv, PieInv, PieRun \/ PieAttach \/ PieRemote PROVE PieInv'
<1>1. /\ PiesOK(vbps, real, nextNum) /\ counter \in Nat
      /\ \A v \in DOMAIN vbps : v < counter /\ v <= MaxVbp
  BY DEF PieInv
<1>2. counter' = counter
  BY DEF PieRun, PieAttach, PieRemote
<1>3. PICK o : o = TRUE
  OBVIOUS
<1>4. Pies = PiesOf(vbps, real, nextNum, o) /\ o \in Flags
  BY <1>3 DEF Pies, PiesOf, Flags
<1>5. ASSUME UNCHANGED <<vbps, real, nextNum>>, proc' = 0 \/ placed' = FALSE PROVE PieInv'
  BY <1>1, <1>2, <1>5 DEF PieInv
<1>6. ASSUME SetPies(Pies), placed' = FALSE PROVE PieInv'
  <2>1. vbps' = vbps /\ real' = real /\ nextNum' = nextNum
    BY <1>6 DEF SetPies, Pies
  <2> QED
    BY <1>5, <1>6, <2>1
<1>7. ASSUME NEW b, b = proc', proc' \in Nat, NEW refused,
             SetPies(InstantiateAll(Pies, b, refused)),
             placed' = InstantiateAll(Pies, b, refused).ok
      PROVE  PieInv'
  BY <1>1, <1>2, <1>4, <1>7, MovedStep
<1>8. ASSUME NEW c, proc' \in Nat, Place(Pies, c), c.maps # NoView => c.maps.proc = proc'
      PROVE  PieInv'
  BY <1>6, <1>7, <1>8 DEF Place
<1>9. CASE PieRun
  <2>1. CASE UNCHANGED <<vbps, real, nextNum>> /\ placed' = FALSE
    BY <1>5, <2>1
  <2> DEFINE filled == FillMaps(ResetAllCaches(caches), born + 1, 0, AfterKill(sess))
  <2>2. CASE NewProcess /\ caches' = filled /\ Place(Pies, caches')
    <3>1. proc' = born + 1 /\ born + 1 \in Nat /\ 0 \in {0, 1}
      BY <2>2 DEF NewProcess, SessionInv
    <3>2. CachesTrue(ResetAllCaches(caches), born + 1, 0, AfterKill(sess), failed)
      BY EmptyTrue DEF ResetAllCaches
    <3>3. CachesTrue(filled, born + 1, 0, AfterKill(sess), failed)
      BY <3>1, <3>2, OldState, FillTrue
    <3>4. filled.maps # NoView => filled.maps.proc = proc'
      BY <3>1, <3>3, BaseLemma
    <3>5. Place(Pies, filled)
      BY <2>2 DEF Place
    <3> HIDE DEF filled
    <3> QED
      BY <1>8, <3>1, <3>4, <3>5
  <2> QED
    BY <1>9, <2>1, <2>2 DEF PieRun
<1>10. CASE PieAttach
  <2> DEFINE t == AfterKill(sess)
             filled(c) == FillMaps(c, born + 1, 0, t)
  <2>1. PICK c \in StopHandler(CachesAfterKill, born + 1, 0, t, ui.hidden) :
             Place(Pies, filled(c))
    BY <1>10 DEF PieAttach
  <2>2. proc' = born + 1 /\ born + 1 \in Nat /\ 0 \in {0, 1}
    BY <1>10 DEF PieAttach, NewProcess, SessionInv
  <2>3. CachesTrue(c, born + 1, 0, t, failed)
    BY <2>1, <2>2, OldState, StopTrue
  <2>4. CachesTrue(filled(c), born + 1, 0, t, failed)
    BY <2>2, <2>3, OldState, FillTrue
  <2>5. filled(c).maps # NoView => filled(c).maps.proc = proc'
    BY <2>2, <2>4, BaseLemma
  <2> HIDE DEF filled
  <2> QED
    BY <1>8, <2>1, <2>2, <2>5
<1>11. CASE PieRemote
  <2>1. mode' = "prompt" /\ Place(Pies, caches')
    BY <1>11 DEF PieRemote
  <2>2. SessionInv'
    BY <1>11, PieKeeps
  <2>3. proc' \in Nat /\ CachesTrue(caches', proc', layout', sess', failed')
    BY <2>1, <2>2 DEF SessionInv
  <2>4. caches'.maps # NoView => caches'.maps.proc = proc'
    BY <2>3 DEF CachesTrue, ViewTrue
  <2>5. PICK c : c = caches'
    OBVIOUS
  <2>6. Place(Pies, c)
    BY <2>1, <2>5 DEF Place
  <2> QED
    BY <1>8, <2>3, <2>4, <2>5, <2>6
<1> QED
  BY <1>9, <1>10, <1>11

\* Deletions, by `pie delete' or behind its back, leave the others in their places.
LEMMA PieDeleteKeeps ==
    ASSUME PieInv, PieDelete \/ UserDelete PROVE PieInv'
<1>1. /\ PiesOK(vbps, real, nextNum) /\ counter \in Nat
      /\ \A v \in DOMAIN vbps : v < counter /\ v <= MaxVbp
      /\ placed /\ proc # 0 => \A v \in DOMAIN vbps : At(vbps, real, v, proc)
  BY DEF PieInv
<1>2. counter' = counter /\ placed' = placed /\ proc' = proc
  BY DEF PieDelete, UserDelete, sessionVars
<1>3. ASSUME PiesOK(vbps', real', nextNum'), PartOf(vbps', vbps), PartOf(real', real)
      PROVE  PieInv'
  <2>1. \A v \in DOMAIN vbps' : v \in DOMAIN vbps /\ vbps'[v] = vbps[v]
    BY <1>3 DEF PartOf
  <2>2. \A n \in DOMAIN real' : n \in DOMAIN real /\ real'[n] = real[n]
    BY <1>3 DEF PartOf
  <2>3. ASSUME NEW v \in DOMAIN vbps', NEW b, At(vbps, real, v, b)
        PROVE  At(vbps', real', v, b)
    BY <2>1, <2>2, <2>3 DEF At
  <2> QED
    BY <1>1, <1>2, <1>3, <2>1, <2>3 DEF PieInv
<1>4. CASE PieDelete
  <2>1. PICK which \in SUBSET DOMAIN vbps \ {{}} : SetPies(DeleteAll(Pies, which))
    BY <1>4 DEF PieDelete
  <2>2. PICK o : o = TRUE
    OBVIOUS
  <2>3. Pies = PiesOf(vbps, real, nextNum, o) /\ o \in Flags
    BY <2>2 DEF Pies, PiesOf, Flags
  <2>4. Pies \in Fewer(vbps, real)
    <3>1. /\ Pies.vbps = vbps /\ Pies.real = real /\ Pies.next = nextNum
      BY <2>3 DEF PiesOf
    <3>2. Pies \in [vbps : Tables(Vbp), real : Tables(RealBp), next : Nat, ok : Flags]
      BY <1>1, <2>3 DEF PiesOf, PiesOK
    <3> QED
      BY <1>1, <3>1, <3>2 DEF Fewer, PartOf
  <2> DEFINE q == DeleteAll(Pies, which)
  <2>5. q \in Fewer(vbps, real)
    BY <2>4, DeleteAllLemma
  <2>6. vbps' = q.vbps /\ real' = q.real /\ nextNum' = q.next
    BY <2>1 DEF SetPies
  <2> HIDE DEF q
  <2>7. PiesOK(q.vbps, q.real, q.next) /\ PartOf(q.vbps, vbps) /\ PartOf(q.real, real)
    BY <2>5 DEF Fewer
  <2> QED
    BY <1>3, <2>6, <2>7
<1>5. CASE UserDelete
  <2>1. PICK n \in DOMAIN real : real' = [m \in DOMAIN real \ {n} |-> real[m]]
    BY <1>5 DEF UserDelete
  <2>2. vbps' = vbps /\ nextNum' = nextNum
    BY <1>5 DEF UserDelete
  <2>3. DOMAIN real \subseteq Nat /\ real \in [DOMAIN real -> RealBp]
    BY <1>1, TableLemma DEF PiesOK
  <2>4. /\ DOMAIN real' = DOMAIN real \ {n} /\ real' \in [DOMAIN real' -> RealBp]
        /\ \A m \in DOMAIN real' : real'[m] = real[m]
    BY <2>1, <2>3
  <2>5. PICK re : re = real'
    OBVIOUS
  <2>6. re \in Tables(RealBp)
    BY <2>3, <2>4, <2>5, TableLemma
  <2>7. PiesOK(vbps', real', nextNum')
    BY <1>1, <2>2, <2>4, <2>5, <2>6 DEF PiesOK
  <2> QED
    BY <1>3, <2>2, <2>4, <2>7 DEF PartOf
<1> QED
  BY <1>4, <1>5

\* Every real breakpoint belongs to one virtual breakpoint, and after a `pie`
\* command that has gone through all are at the base of the process debugged now
\* (PieVirtualBreakpoint of scripts/gef.py), for any number of breakpoints and
\* processes.
THEOREM PieAlwaysFollows == Spec => []PieFollows
<1>1. Init => PieInv
  BY PieStart DEF Init
<1>2. SessionInv /\ PieInv /\ [Next]_vars => PieInv'
  <2> SUFFICES ASSUME SessionInv, PieInv, [Next]_vars PROVE PieInv'
    OBVIOUS
  <2>1. CASE UNCHANGED vars
    BY <2>1 DEF vars, pieVars, sessionVars, PieInv
  <2>2. CASE SessionStep
    <3>1. /\ placed' = (placed /\ proc' = proc) /\ vbps' = vbps /\ counter' = counter
          /\ real' = real /\ nextNum' = nextNum
      BY <2>2 DEF SessionStep
    <3> QED
      BY <3>1 DEF PieInv
  <2> QED
    BY <2>1, <2>2, PieBreakpointKeeps, PieProcessKeeps, PieDeleteKeeps DEF Next
<1>3. PieInv => PieFollows
  <2> SUFFICES ASSUME PieInv PROVE PieOwned /\ PiePlaced
    BY DEF PieFollows
  <2>1. PieOwned
    <3> SUFFICES ASSUME NEW n \in DOMAIN real
                 PROVE  \E v \in DOMAIN vbps : /\ vbps[v].num = n
                                               /\ real[n].off = vbps[v].off
                                               /\ \A w \in DOMAIN vbps \ {v} : vbps[w].num # n
      BY DEF PieOwned
    <3>1. n # 0 /\ \E v \in DOMAIN vbps : vbps[v].num = n /\ vbps[v].off = real[n].off
      BY DEF PieInv, PiesOK
    <3> QED
      BY <3>1 DEF PieInv, PiesOK
  <2>2. PiePlaced
    BY DEF PieInv, PiePlaced, At
  <2> QED
    BY <2>1, <2>2
<1> QED
  BY <1>1, <1>2, <1>3, SessionInvariant, PTL DEF Spec

-----------------------------------------------------------------------------
(* Settings and aliases.                                                   *)

Names == {"b", "u", "U"}
Cmds == {"word", "pct", "builtin"}
Truths == {"True", "False"}

\* All settings of the built-in commands exist, and those that are bools are.
SettingsOK(cfg) == Core \subseteq DOMAIN cfg /\ \A k \in BoolKeys : cfg[k] \in Truths

\* What is in the file was written by `gef save'.
FileOK(file) ==
    /\ \A k \in BoolKeys \cap DOMAIN file.cfg : file.cfg[k] \in Truths
    /\ DOMAIN file.aliases \subseteq {"b", "u"}
    /\ \A n \in DOMAIN file.aliases : file.aliases[n] \in Cmds

\* The inductive invariant for SavedComesBack.
ConfigInv ==
    /\ SettingsOK(config) /\ FileOK(rc)
    /\ aliases \in Seq(Names \X Cmds)
    /\ starts \in Nat /\ typed \in Nat
    /\ SettingsPersist /\ AliasesPersist

\* A session as a record.
SessionOf(c, a, p, o) == [config |-> c, aliases |-> a, plugin |-> p, ok |-> o]

\* The aliases all are those of a list, and after them those of a file that can
\* be read, once each.
Merged(all, list, file) ==
    /\ all \in Seq(Names \X Cmds) /\ Len(all) >= Len(list)
    /\ \A i \in 1 .. Len(list) : all[i] = list[i]
    /\ \A i \in DOMAIN all : i > Len(list) =>
          /\ all[i][1] \in DOMAIN file.aliases
          /\ all[i][2] = file.aliases[all[i][1]]
          /\ \A j \in DOMAIN all : j > Len(list) /\ all[i][1] = all[j][1] => i = j
    /\ \A n \in DOMAIN file.aliases :
          file.aliases[n] = "pct" \/ \E i \in DOMAIN all : all[i][1] = n

\* What reload() of a file leaves of a session with the settings c and the
\* aliases a, when B are the settings that both have.
Reloaded(q, c, a, p, file, B) ==
    /\ SettingsOK(q.config) /\ q.aliases \in Seq(Names \X Cmds)
    /\ q = SessionOf(q.config, q.aliases, p, q.ok)
    /\ \A k \in B :
         /\ (\A b \in B : file.cfg[b] = "pct" => k < b)
               => q.config[k] = file.cfg[k] \/ file.cfg[k] = "pctpct"
         /\ (\E b \in B : file.cfg[b] = "pct" /\ ~(k < b)) => q.config[k] = c[k]
    /\ q.ok => q.aliases = RestoredAliases(a, file.aliases)

\* The settings that are built in are no plugin's.
LEMMA CoreLemma ==
    /\ PluginKey \notin Core /\ Core \subseteq Nat /\ BoolKeys \subseteq Core
    /\ \A k \in BoolKeys : k # DirKey
  BY ConfigBounds DEF Core

\* Loading a plugin changes its own setting only.
LEMMA LoadLemma ==
    ASSUME NEW c, NEW a, NEW p, NEW o, SettingsOK(c), NEW outcome
    PROVE  LET q == Load(SessionOf(c, a, p, o), outcome)
           IN  q.aliases = a /\ SettingsOK(q.config) /\ \A k \in Core : q.config[k] = c[k]
<1> DEFINE s == SessionOf(c, a, p, o)
           q == Load(s, outcome)
           d == AddSetting(c, PluginKey)
<1>1. s.aliases = a /\ s.config = c
  BY DEF SessionOf
<1>2. DOMAIN c \subseteq DOMAIN d /\ \A k \in DOMAIN c : k # PluginKey => d[k] = c[k]
  BY DEF AddSetting, Put
<1> HIDE DEF d
<1>3. q.aliases = a /\ (q.config = c \/ q.config = d)
  <2>1. CASE s.plugin = "loaded"
    BY <2>1, <1>1 DEF Load
  <2>2. CASE s.plugin # "loaded"
    <3> DEFINE x == IF outcome = "ok" THEN "loaded" ELSE "missing"
               y == IF outcome = "before" THEN s.config ELSE AddSetting(s.config, PluginKey)
    <3>1. q = [s EXCEPT !.plugin = x, !.config = y]
      BY <2>2 DEF Load
    <3>2. y = c \/ y = d
      BY <1>1 DEF d
    <3> HIDE DEF x, y
    <3>3. q.aliases = a /\ q.config = y
      BY <3>1 DEF SessionOf
    <3> QED
      BY <3>2, <3>3
  <2> QED
    BY <2>1, <2>2
<1> HIDE DEF q
<1>4. SettingsOK(q.config) /\ \A k \in Core : q.config[k] = c[k]
  BY <1>2, <1>3, CoreLemma DEF SettingsOK
<1> QED
  BY <1>3, <1>4 DEF q

LEMMA LoadExtraLemma ==
    ASSUME NEW c, NEW a, NEW p, NEW o, SettingsOK(c), NEW outcome
    PROVE  LET q == LoadExtraPlugins(SessionOf(c, a, p, o), outcome)
           IN  q.aliases = a /\ SettingsOK(q.config) /\ \A k \in Core : q.config[k] = c[k]
<1> DEFINE q == LoadExtraPlugins(SessionOf(c, a, p, o), outcome)
           s == SessionOf(c, a, p, o)
           t == Load(SessionOf(c, a, p, o), outcome)
<1>1. s.aliases = a /\ s.config = c
  BY DEF SessionOf
<1>2. t.aliases = a /\ SettingsOK(t.config) /\ \A k \in Core : t.config[k] = c[k]
  BY LoadLemma
<1>3. q = s \/ q = t
  BY DEF LoadExtraPlugins
<1> HIDE DEF q, s, t
<1>4. q.aliases = a /\ SettingsOK(q.config) /\ \A k \in Core : q.config[k] = c[k]
  BY <1>1, <1>2, <1>3
<1> QED
  BY <1>4 DEF q

\* A set of positions in a list has a last one.
LEMMA LastLemma ==
    ASSUME NEW n \in Nat, NEW S, S \subseteq 1 .. n, S # {}
    PROVE  \E x \in S : \A y \in S : y <= x
<1> DEFINE R == OpToRel(<, Nat)
           T == {n - x : x \in S}
<1>1. \A x, y \in Nat : x < y => <<x, y>> \in R
  BY DEF OpToRel
<1>2. IsWellFoundedOn(R, Nat)
  BY NatLessThanWellFounded
<1>3. T \subseteq Nat /\ T # {}
  <2>1. \A x \in S : n - x \in Nat
    OBVIOUS
  <2> QED
    BY <2>1
<1>4. \E x \in T : \A y \in T : ~ (<<y, x>> \in R)
  <2> HIDE DEF R, T
  <2> QED
    BY <1>2, <1>3, WFMin
<1>5. PICK t \in T : \A y \in T : ~ (y < t)
  <2> HIDE DEF R, T
  <2> QED
    BY <1>1, <1>3, <1>4
<1>6. PICK x \in S : t = n - x
  BY <1>5
<1>7. ASSUME NEW y \in S PROVE y <= x
  <2>1. ~(n - y < n - x)
    BY <1>5, <1>6
  <2> QED
    BY <2>1, <1>6
<1> QED
  BY <1>7

\* The names in a file are in lower case.
LEMMA LowerLemma ==
    /\ \A n \in Names : Lower(n) \in {"b", "u"}
    /\ \A n \in {"b", "u"} : Lower(n) = n
  BY DEF Lower, Names

\* What `gef save' writes.
LEMMA FileLemma ==
    ASSUME NEW cfg, NEW list \in Seq(Names \X Cmds), SettingsOK(cfg)
    PROVE  /\ FileOK(FileOf(cfg, list))
           /\ DOMAIN FileOf(cfg, list).aliases = {Lower(list[i][1]) : i \in DOMAIN list}
           /\ \A i \in DOMAIN list :
                (\A j \in DOMAIN list : Lower(list[j][1]) = Lower(list[i][1]) => j = i)
                => FileOf(cfg, list).aliases[Lower(list[i][1])] = list[i][2]
<1> DEFINE last(n) == CHOOSE i \in DOMAIN list :
                            /\ Lower(list[i][1]) = n
                            /\ \A j \in DOMAIN list : Lower(list[j][1]) = n => j <= i
           D == {Lower(list[i][1]) : i \in DOMAIN list}
           f == [n \in D |-> list[last(n)][2]]
<1>1. FileOf(cfg, list) = [cfg |-> cfg, aliases |-> f]
  BY DEF FileOf
<1>2. Len(list) \in Nat /\ DOMAIN list = 1 .. Len(list)
      /\ \A i \in DOMAIN list : list[i][1] \in Names /\ list[i][2] \in Cmds
  <2>1. \A i \in DOMAIN list : list[i] \in Names \X Cmds
    OBVIOUS
  <2> QED
    BY <2>1
<1>3. ASSUME NEW n \in D
      PROVE  /\ last(n) \in DOMAIN list /\ Lower(list[last(n)][1]) = n
  <2> DEFINE S == {i \in DOMAIN list : Lower(list[i][1]) = n}
  <2>1. S \subseteq 1 .. Len(list) /\ S # {}
    BY <1>2
  <2>2. \E i \in S : \A j \in S : j <= i
    <3> HIDE DEF S
    <3> QED
      BY <1>2, <2>1, LastLemma
  <2>3. \E i \in DOMAIN list :
            /\ Lower(list[i][1]) = n
            /\ \A j \in DOMAIN list : Lower(list[j][1]) = n => j <= i
    BY <2>2
  <2> QED
    BY <2>3
<1> HIDE DEF last
<1>4. D \subseteq {"b", "u"}
  BY <1>2, LowerLemma
<1>5. \A n \in D : f[n] \in Cmds
  BY <1>2, <1>3
<1>6. FileOK(FileOf(cfg, list))
  <2>1. DOMAIN f = D
    OBVIOUS
  <2> HIDE DEF f, D
  <2>2. FileOf(cfg, list).cfg = cfg /\ FileOf(cfg, list).aliases = f
    BY <1>1
  <2> QED
    BY <2>1, <2>2, <1>4, <1>5 DEF FileOK, SettingsOK
<1>7. ASSUME NEW i \in DOMAIN list,
             \A j \in DOMAIN list : Lower(list[j][1]) = Lower(list[i][1]) => j = i
      PROVE  f[Lower(list[i][1])] = list[i][2]
  <2>1. Lower(list[i][1]) \in D
    OBVIOUS
  <2>2. last(Lower(list[i][1])) = i
    BY <1>3, <1>7, <2>1
  <2> QED
    BY <2>1, <2>2
<1>8. DOMAIN f = D
  OBVIOUS
<1> HIDE DEF f
<1>9. FileOf(cfg, list).aliases = f
  BY <1>1
<1> QED
  BY <1>6, <1>7, <1>8, <1>9

\* The aliases read back: behind those that are there already, the others of
\* the file that can be read, each once.
LEMMA RestoredLemma ==
    ASSUME NEW list \in Seq(Names \X Cmds), NEW file, FileOK(file)
    PROVE  Merged(RestoredAliases(list, file.aliases), list, file)
<1> DEFINE f == file.aliases
           S == {n \in DOMAIN f : Readable(f[n]) /\ ~Named(list, n)}
           names == SetToSeq(S)
           new == [i \in 1 .. Len(names) |-> <<names[i], Reads(f[names[i]])>>]
           all == list \o new
<1>1. DOMAIN f \subseteq {"b", "u"} /\ \A n \in DOMAIN f : f[n] \in Cmds
  BY DEF FileOK
<1>2. IsFiniteSet(S)
  <2>1. IsFiniteSet({"b"} \cup {"u"})
    BY FS_Singleton, FS_AddElement
  <2>2. S \in SUBSET ({"b"} \cup {"u"})
    BY <1>1
  <2> QED
    BY <2>1, <2>2, FS_Subset
<1>3. /\ Cardinality(S) \in Nat
      /\ names \in [1 .. Cardinality(S) -> S] /\ IsInjective(names)
      /\ \A n \in S : \E i \in 1 .. Cardinality(S) : names[i] = n
  <2> HIDE DEF S
  <2>1. Cardinality(S) \in Nat /\ ExistsBijection(1 .. Cardinality(S), S)
    BY <1>2, FS_CardinalityType
  <2>2. \E g \in [1 .. Cardinality(S) -> S] : IsInjective(g)
    BY <2>1, Zenon DEF ExistsBijection, Bijection, Injection
  <2>3. names \in [1 .. Cardinality(S) -> S] /\ IsInjective(names)
    BY <2>2, Zenon DEF SetToSeq
  <2> HIDE DEF names
  <2>4. names \in Injection(1 .. Cardinality(S), S)
    BY <2>3 DEF Injection
  <2>5. Cardinality(1 .. Cardinality(S)) = Cardinality(S)
    BY <2>1, FS_Interval
  <2>6. names \in Surjection(1 .. Cardinality(S), S)
    BY <1>2, <2>4, <2>5, FS_Injection
  <2> QED
    BY <2>1, <2>3, <2>6 DEF Surjection
<1> DEFINE c == Cardinality(S)
           l == Len(list)
<1>4. Len(names) = c /\ DOMAIN names = 1 .. c
  <2>0. c \in Nat /\ names \in [1 .. c -> S]
    BY <1>3
  <2> HIDE DEF names, c, S
  <2>1. names \in Seq(S)
    BY <2>0
  <2> QED
    BY <2>0, <2>1
<1>5. \A n \in S : n \in DOMAIN f /\ n \in {"b", "u"} /\ Reads(f[n]) = f[n] /\ f[n] \in Cmds
  BY <1>1 DEF Reads, Cmds
<1> HIDE DEF names, S
<1>6. /\ new \in Seq(Names \X Cmds) /\ Len(new) = c /\ DOMAIN new = 1 .. c
      /\ \A i \in 1 .. c : /\ new[i] = <<names[i], f[names[i]]>> /\ names[i] \in S
                           /\ new[i][1] = names[i] /\ new[i][2] = f[names[i]]
  <2>1. \A i \in 1 .. c : names[i] \in S
    BY <1>3
  <2>2. new = [i \in 1 .. c |-> <<names[i], Reads(f[names[i]])>>]
    BY <1>4
  <2>3. \A i \in 1 .. c : new[i] = <<names[i], f[names[i]]>> /\ new[i] \in Names \X Cmds
    BY <2>1, <2>2, <1>5 DEF Names
  <2>4. new \in [1 .. c -> Names \X Cmds]
    BY <2>2, <2>3
  <2>5. c \in Nat
    BY <1>3
  <2> HIDE DEF new, c
  <2> QED
    BY <2>1, <2>3, <2>4, <2>5
<1> HIDE DEF new
<1>7. RestoredAliases(list, f) = all
  BY DEF RestoredAliases, new, names, S
<1>8. /\ all \in Seq(Names \X Cmds) /\ Len(all) = l + c /\ DOMAIN all = 1 .. l + c
      /\ \A i \in 1 .. l : all[i] = list[i]
      /\ \A i \in 1 .. c : all[l + i] = new[i]
      /\ l \in Nat /\ c \in Nat
  BY <1>3, <1>6, ConcatProperties
<1> HIDE DEF all, l, c
<1>9. \A i \in DOMAIN all : i > l =>
         /\ i - l \in 1 .. c /\ all[i] = new[i - l]
         /\ all[i][1] = names[i - l] /\ all[i][2] = f[all[i][1]] /\ all[i][1] \in S
  <2> SUFFICES ASSUME NEW i \in DOMAIN all, i > l
               PROVE  /\ i - l \in 1 .. c /\ all[i] = new[i - l]
                      /\ all[i][1] = names[i - l] /\ all[i][2] = f[all[i][1]]
                      /\ all[i][1] \in S
    OBVIOUS
  <2>1. i - l \in 1 .. c /\ l + (i - l) = i
    BY <1>8
  <2>2. all[i] = new[i - l]
    BY <1>8, <2>1
  <2> QED
    BY <1>6, <2>1, <2>2
<1>10. \A i, j \in DOMAIN all : i > l /\ j > l /\ all[i][1] = all[j][1] => i = j
  <2> SUFFICES ASSUME NEW i \in DOMAIN all, NEW j \in DOMAIN all, i > l, j > l,
                      all[i][1] = all[j][1]
               PROVE  i = j
    OBVIOUS
  <2>1. i - l \in 1 .. c /\ j - l \in 1 .. c /\ names[i - l] = names[j - l]
    BY <1>9
  <2>2. i - l = j - l
    BY <2>1, <1>3, <1>4 DEF IsInjective
  <2> QED
    BY <2>2, <1>8
<1>11. ASSUME NEW n \in DOMAIN f, f[n] # "pct"
       PROVE  \E i \in DOMAIN all : all[i][1] = n
  <2>1. CASE Named(list, n)
    <3>1. PICK i \in DOMAIN list : list[i][1] = n
      BY <2>1 DEF Named
    <3>2. i \in 1 .. l
      BY DEF l
    <3>3. i \in DOMAIN all /\ all[i] = list[i]
      BY <1>8, <3>2
    <3> QED
      BY <3>1, <3>3
  <2>2. CASE ~Named(list, n)
    <3>1. n \in S
      BY <1>11, <2>2 DEF S, Readable
    <3>2. PICK i \in 1 .. c : names[i] = n
      BY <3>1, <1>3 DEF c
    <3>3. l + i \in DOMAIN all /\ all[l + i] = new[i]
      BY <1>8
    <3> QED
      BY <1>6, <3>2, <3>3
  <2> QED
    BY <2>1, <2>2
<1>12. \A i \in DOMAIN all : i > l => all[i][1] \in DOMAIN f
  BY <1>5, <1>9
<1>13. Len(all) >= Len(list) /\ \A i \in 1 .. Len(list) : all[i] = list[i]
  BY <1>8 DEF l
<1>14. Len(list) = l
  BY DEF l
<1> HIDE DEF f
<1>15. /\ \A i \in DOMAIN all : i > Len(list) =>
             /\ all[i][1] \in DOMAIN f /\ all[i][2] = f[all[i][1]]
             /\ \A j \in DOMAIN all : j > Len(list) /\ all[i][1] = all[j][1] => i = j
       /\ \A n \in DOMAIN f : f[n] = "pct" \/ \E i \in DOMAIN all : all[i][1] = n
  BY <1>9, <1>10, <1>11, <1>12, <1>14
<1> QED
  BY <1>7, <1>8, <1>13, <1>15 DEF f, Merged

\* Reading the file back.
LEMMA ReloadLemma ==
    ASSUME NEW c, NEW a \in Seq(Names \X Cmds), NEW p, NEW o, SettingsOK(c),
           NEW file, FileOK(file), NEW B, B = DOMAIN c \cap DOMAIN file.cfg
    PROVE  Reloaded(Reload(SessionOf(c, a, p, o), file), c, a, p, file, B)
<1> DEFINE s == SessionOf(c, a, p, o)
           q == Reload(s, file)
           raising == {k \in B : ~Readable(file.cfg[k])}
           reached == {k \in B : \A b \in raising : k < b}
           g == [k \in DOMAIN c |->
                    IF k \in reached THEN RestoredValue(k, file.cfg[k]) ELSE c[k]]
           l == IF raising = {} THEN RestoredAliases(a, file.aliases) ELSE a
           ok == (raising = {})
<1>1. s.config = c /\ s.aliases = a
  BY DEF SessionOf
<1>2. q = [s EXCEPT !.config = g, !.aliases = l, !.ok = ok]
  BY <1>1 DEF Reload
<1>3. l \in Seq(Names \X Cmds)
  BY RestoredLemma DEF Merged
<1>4. DOMAIN g = DOMAIN c /\ \A k \in DOMAIN c :
         g[k] = IF k \in reached THEN RestoredValue(k, file.cfg[k]) ELSE c[k]
  OBVIOUS
<1>5. ok = TRUE => l = RestoredAliases(a, file.aliases)
  OBVIOUS
<1> HIDE DEF g, l, ok
<1>6. q = SessionOf(g, l, p, ok)
  BY <1>2 DEF SessionOf
<1>7. q.config = g /\ q.aliases = l /\ q.plugin = p /\ q.ok = ok
  BY <1>6 DEF SessionOf
<1>8. \A k \in B : (\A b \in B : file.cfg[b] = "pct" => k < b) <=> k \in reached
  BY DEF Readable
<1>9. \A k \in B : /\ k \in reached => g[k] = file.cfg[k] \/ file.cfg[k] = "pctpct"
                   /\ k \notin reached => g[k] = c[k]
  <2> SUFFICES ASSUME NEW k \in B
               PROVE  /\ k \in reached => g[k] = file.cfg[k] \/ file.cfg[k] = "pctpct"
                      /\ k \notin reached => g[k] = c[k]
    OBVIOUS
  <2>1. RestoredValue(k, file.cfg[k]) = file.cfg[k] \/ file.cfg[k] = "pctpct"
    <3>1. CASE k \in BoolKeys
      <4>1. file.cfg[k] \in Truths
        BY <3>1 DEF FileOK
      <4> QED
        BY <3>1, <4>1 DEF RestoredValue, Truths
    <3>2. CASE k \notin BoolKeys
      BY <3>2 DEF RestoredValue, Reads
    <3> QED
      BY <3>1, <3>2
  <2> HIDE DEF reached
  <2> QED
    BY <1>4, <2>1
<1>10. SettingsOK(g)
  <2>1. \A k \in BoolKeys : RestoredValue(k, file.cfg[k]) \in Truths
    BY DEF RestoredValue, Truths
  <2> HIDE DEF reached
  <2> QED
    BY <1>4, <2>1, CoreLemma DEF SettingsOK
<1> HIDE DEF reached
<1>11. \A k \in B :
          /\ (\A b \in B : file.cfg[b] = "pct" => k < b)
                => g[k] = file.cfg[k] \/ file.cfg[k] = "pctpct"
          /\ (\E b \in B : file.cfg[b] = "pct" /\ ~(k < b)) => g[k] = c[k]
  BY <1>8, <1>9
<1>12. q.ok => q.aliases = RestoredAliases(a, file.aliases)
  BY <1>5, <1>7 DEF ok
<1>13. SettingsOK(q.config) /\ q.aliases \in Seq(Names \X Cmds)
       /\ q = SessionOf(q.config, q.aliases, p, q.ok)
  BY <1>3, <1>6, <1>7, <1>10
<1> HIDE DEF q
<1>14. \A k \in B :
          /\ (\A b \in B : file.cfg[b] = "pct" => k < b)
                => q.config[k] = file.cfg[k] \/ file.cfg[k] = "pctpct"
          /\ (\E b \in B : file.cfg[b] = "pct" /\ ~(k < b)) => q.config[k] = c[k]
  BY <1>7, <1>11
<1> QED
  BY <1>12, <1>13, <1>14 DEF q, Reloaded

\* GefCommand.setup() finds the defaults.
LEMMA FirstLemma ==
    /\ FirstSession = SessionOf([k \in Core |-> Default(k)], <<Builtin>>, "unknown", TRUE)
    /\ SettingsOK([k \in Core |-> Default(k)])
    /\ <<Builtin>> \in Seq(Names \X Cmds)
<1>1. SettingsOK([k \in Core |-> Default(k)])
  BY CoreLemma DEF SettingsOK, Default, Truths
<1>2. Builtin \in Names \X Cmds
  BY DEF Builtin, Names, Cmds
<1>3. <<Builtin>> \in Seq(Names \X Cmds)
  BY <1>2
<1> QED
  BY <1>1, <1>3 DEF FirstSession, SessionOf

\* Nothing is saved and nothing restored yet.
LEMMA ConfigInitial == ConfigInit => ConfigInv
<1> SUFFICES ASSUME ConfigInit PROVE ConfigInv
  OBVIOUS
<1>1. config = [k \in Core |-> Default(k)] /\ aliases = <<Builtin>>
  BY DEF ConfigInit, Become0, FirstSession
<1>2. SettingsOK(config) /\ aliases \in Seq(Names \X Cmds)
  BY <1>1, FirstLemma
<1>3. FileOK(rc)
  BY DEF ConfigInit, NoRc, FileOK
<1>4. ~JustStarted /\ starts \in Nat /\ typed \in Nat
  BY DEF ConfigInit, JustStarted
<1> QED
  BY <1>2, <1>3, <1>4 DEF ConfigInv, SettingsPersist, AliasesPersist

\* A command of the user, of which nothing is claimed before the next start.
LEMMA TypedLemma ==
    ASSUME ConfigInv, Type, SettingsOK(config'), FileOK(rc'),
           aliases' \in Seq(Names \X Cmds)
    PROVE  ConfigInv'
<1>1. typed' = typed + 1 /\ starts' = starts /\ typed \in Nat /\ starts \in Nat
  BY DEF Type, ConfigInv
<1>2. ~JustStarted' /\ starts' \in Nat /\ typed' \in Nat
  BY <1>1 DEF JustStarted
<1> QED
  BY <1>2 DEF ConfigInv, SettingsPersist, AliasesPersist

\* `gef config'
LEMMA GefConfigSetStep == ASSUME ConfigInv, GefConfigSet PROVE ConfigInv'
<1>1. /\ Type /\ rc' = rc
      /\ SettingsOK(config) /\ FileOK(rc) /\ aliases \in Seq(Names \X Cmds)
  BY DEF GefConfigSet, ConfigInv
<1>2. PICK k \in DOMAIN config : \E text \in Texts(k) :
        IF k \in BoolKeys /\ text = "maybe" THEN Become(Session) ELSE SetItem(k, text)
  BY DEF GefConfigSet
<1>0. PICK text \in Texts(k) :
        IF k \in BoolKeys /\ text = "maybe" THEN Become(Session) ELSE SetItem(k, text)
  BY <1>2
<1>o. PICK o : o = TRUE
  OBVIOUS
<1> DEFINE d == [config EXCEPT ![k] = text]
<1>3. Session.config = config /\ Session.aliases = aliases
  BY DEF Session
<1>4. [Session EXCEPT !.config[k] = text] = SessionOf(d, aliases, plugin, o)
  <2>1. [Session EXCEPT !.config[k] = text] = [Session EXCEPT !.config = d]
    BY <1>3
  <2>2. Session = SessionOf(config, aliases, plugin, o)
    BY <1>o DEF Session, SessionOf
  <2> HIDE DEF d
  <2>3. [SessionOf(config, aliases, plugin, o) EXCEPT !.config = d]
          = SessionOf(d, aliases, plugin, o)
    BY DEF SessionOf
  <2> QED
    BY <2>1, <2>2, <2>3
<1>5. ASSUME ~(k \in BoolKeys /\ text = "maybe") PROVE SettingsOK(d)
  <2>1. ASSUME k \in BoolKeys PROVE text \in Truths
    <3>1. Texts(k) = {"True", "False", "maybe"}
      <4>1. k # DirKey
        BY <2>1, CoreLemma
      <4> QED
        BY <2>1, <4>1 DEF Texts
    <3> QED
      BY <1>5, <2>1, <3>1 DEF Truths
  <2> QED
    BY <1>1, <2>1, CoreLemma DEF SettingsOK
<1> HIDE DEF d
<1>6. SettingsOK(config') /\ aliases' = aliases
  <2>1. CASE k \in BoolKeys /\ text = "maybe"
    BY <1>1, <1>0, <1>3, <2>1 DEF Become
  <2>2. CASE ~(k \in BoolKeys /\ text = "maybe")
    <3>1. SetItem(k, text)
      BY <1>0, <2>2
    <3>2. CASE Become(SessionOf(d, aliases, plugin, o))
      BY <1>5, <2>2, <3>2 DEF Become, SessionOf
    <3>3. CASE \E outcome \in Outcomes :
                  Become(LoadExtraPlugins(SessionOf(d, aliases, plugin, o), outcome))
      <4>1. PICK outcome \in Outcomes :
              Become(LoadExtraPlugins(SessionOf(d, aliases, plugin, o), outcome))
        BY <3>3
      <4> DEFINE q == LoadExtraPlugins(SessionOf(d, aliases, plugin, o), outcome)
      <4>2. config' = q.config /\ aliases' = q.aliases
        BY <4>1 DEF Become
      <4>3. SettingsOK(d)
        BY <1>5, <2>2
      <4> HIDE DEF d
      <4>4. q.aliases = aliases /\ SettingsOK(q.config)
        BY <4>3, LoadExtraLemma
      <4> QED
        BY <4>2, <4>4
    <3> QED
      BY <1>4, <3>1, <3>2, <3>3 DEF SetItem
  <2> QED
    BY <2>1, <2>2
<1> QED
  BY <1>1, <1>6, TypedLemma

\* `gef save'
LEMMA GefSaveStep == ASSUME ConfigInv, GefSave PROVE ConfigInv'
<1>1. /\ Type /\ rc' = FileOf(config, aliases) /\ config' = config /\ aliases' = aliases
      /\ SettingsOK(config) /\ aliases \in Seq(Names \X Cmds)
  BY DEF GefSave, ConfigInv
<1>2. FileOK(rc')
  BY <1>1, FileLemma
<1> QED
  BY <1>1, <1>2, TypedLemma

\* `gef restore'
LEMMA GefRestoreStep == ASSUME ConfigInv, GefRestore PROVE ConfigInv'
<1> DEFINE q == Reload(Session, rc)
<1>1. /\ Type /\ rc' = rc /\ config' = q.config /\ aliases' = q.aliases
      /\ SettingsOK(config) /\ FileOK(rc) /\ aliases \in Seq(Names \X Cmds)
  BY DEF GefRestore, ConfigInv, Become
<1>2. Session = SessionOf(config, aliases, plugin, TRUE)
  BY DEF Session, SessionOf
<1>3. SettingsOK(q.config) /\ q.aliases \in Seq(Names \X Cmds)
  <2> DEFINE r == Reload(SessionOf(config, aliases, plugin, TRUE), rc)
  <2>1. SettingsOK(r.config) /\ r.aliases \in Seq(Names \X Cmds)
    <3>1. Reloaded(r, config, aliases, plugin, rc, DOMAIN config \cap DOMAIN rc.cfg)
      <4>1. PICK o : o = TRUE
        OBVIOUS
      <4> QED
        BY <1>1, <4>1, ReloadLemma
    <3> HIDE DEF r
    <3> QED
      BY <3>1 DEF Reloaded
  <2> QED
    BY <1>2, <2>1
<1> QED
  BY <1>1, <1>3, TypedLemma

\* `aliases add' and `aliases rm'
LEMMA AliasesStep == ASSUME ConfigInv, AliasesAdd \/ AliasesRm PROVE ConfigInv'
<1>1. /\ Type /\ rc' = rc /\ config' = config
      /\ SettingsOK(config) /\ FileOK(rc) /\ aliases \in Seq(Names \X Cmds)
  BY DEF AliasesAdd, AliasesRm, ConfigInv
<1>2. CASE AliasesAdd
  <2>1. PICK name \in Names, cmd \in {"word", "pct"} :
          aliases' = GefAlias(aliases, name, cmd)
    BY <1>2 DEF AliasesAdd, Names
  <2>2. <<name, cmd>> \in Names \X Cmds
    BY DEF Cmds
  <2>3. aliases' = aliases \/ aliases' = Append(aliases, <<name, cmd>>)
    BY <2>1 DEF GefAlias
  <2>4. Append(aliases, <<name, cmd>>) \in Seq(Names \X Cmds)
    BY <1>1, <2>2, AppendProperties
  <2> QED
    BY <1>1, <2>3, <2>4, TypedLemma
<1>3. CASE AliasesRm
  <2>1. PICK i \in DOMAIN aliases : aliases' = RemoveAt(aliases, i)
    BY <1>3 DEF AliasesRm
  <2>2. i \in 1 .. Len(aliases) /\ Len(aliases) \in Nat
    BY <1>1
  <2>3. /\ SubSeq(aliases, 1, i - 1) \in Seq(Names \X Cmds)
        /\ SubSeq(aliases, i + 1, Len(aliases)) \in Seq(Names \X Cmds)
    BY <1>1, <2>2, SubSeqProperties
  <2>4. aliases' \in Seq(Names \X Cmds)
    BY <2>1, <2>3, ConcatProperties DEF RemoveAt
  <2> QED
    BY <1>1, <2>4, TypedLemma
<1> QED
  BY <1>2, <1>3

\* The hook after `source'
LEMMA SourceHookStep == ASSUME ConfigInv, SourceHook PROVE ConfigInv'
<1>1. /\ Type /\ rc' = rc
      /\ SettingsOK(config) /\ FileOK(rc) /\ aliases \in Seq(Names \X Cmds)
  BY DEF SourceHook, ConfigInv
<1>2. PICK outcome \in Outcomes : Become(Load(Session, outcome))
  BY DEF SourceHook
<1> DEFINE q == Load(Session, outcome)
<1>3. config' = q.config /\ aliases' = q.aliases
  BY <1>2 DEF Become
<1>o. PICK o : o = TRUE
  OBVIOUS
<1>4. Session = SessionOf(config, aliases, plugin, o)
  BY <1>o DEF Session, SessionOf
<1>5. SettingsOK(q.config) /\ q.aliases = aliases
  <2>1. /\ Load(SessionOf(config, aliases, plugin, o), outcome).aliases = aliases
        /\ SettingsOK(Load(SessionOf(config, aliases, plugin, o), outcome).config)
    BY <1>1, LoadLemma
  <2> QED
    BY <1>4, <2>1
<1> QED
  BY <1>1, <1>3, <1>5, TypedLemma

\* Gef.setup() of the next start.
LEMMA RestartStep == ASSUME ConfigInv, Restart PROVE ConfigInv'
<1> DEFINE first == [k \in Core |-> Default(k)]
           built == <<Builtin>>
           q == Reload(FirstSession, rc)
<1>1. /\ rc' = rc /\ typed' = 0 /\ starts' = starts + 1 /\ starts \in Nat /\ FileOK(rc)
  BY DEF Restart, ConfigInv
<1>2. PICK outcome \in Outcomes :
        /\ Become(IF q.ok THEN LoadExtraPlugins(q, outcome) ELSE q)
        /\ startup' = IF q.ok THEN "ready" ELSE "aborted"
  BY DEF Restart
<1>3. /\ FirstSession = SessionOf(first, built, "unknown", TRUE)
      /\ SettingsOK(first) /\ built \in Seq(Names \X Cmds)
      /\ DOMAIN first = Core /\ \A k \in Core : first[k] = Default(k)
  BY FirstLemma
<1>4. built \in Seq(Names \X Cmds) /\ Len(built) = 1 /\ built[1][1] = "b"
  BY <1>3 DEF Builtin
<1> HIDE DEF first, built
<1> DEFINE B == Core \cap DOMAIN rc.cfg
<1>r. Reloaded(q, first, built, "unknown", rc, B)
  <2>1. PICK o, p, c, a : o = TRUE /\ p = "unknown" /\ c = first /\ a = built
    OBVIOUS
  <2>2. /\ B = DOMAIN c \cap DOMAIN rc.cfg /\ SettingsOK(c)
        /\ a \in Seq(Names \X Cmds) /\ FileOK(rc)
    BY <1>1, <1>3, <2>1
  <2> HIDE DEF B
  <2>3. Reloaded(Reload(SessionOf(c, a, p, o), rc), c, a, p, rc, B)
    BY <2>2, ReloadLemma
  <2> QED
    BY <1>3, <2>1, <2>3
<1>5. /\ SettingsOK(q.config) /\ q.aliases \in Seq(Names \X Cmds)
      /\ q = SessionOf(q.config, q.aliases, "unknown", q.ok)
      /\ \A k \in Core \cap DOMAIN rc.cfg :
           /\ (\A b \in Core \cap DOMAIN rc.cfg : rc.cfg[b] = "pct" => k < b)
                 => q.config[k] = rc.cfg[k] \/ rc.cfg[k] = "pctpct"
           /\ (\E b \in Core \cap DOMAIN rc.cfg : rc.cfg[b] = "pct" /\ ~(k < b))
                 => q.config[k] = Default(k)
      /\ q.ok => q.aliases = RestoredAliases(built, rc.aliases)
  <2> HIDE DEF q
  <2> QED
    BY <1>r, <1>3 DEF Reloaded
<1> HIDE DEF q
<1>6. /\ SettingsOK(config') /\ aliases' = q.aliases
      /\ \A k \in Core : config'[k] = q.config[k]
  <2>1. CASE ~q.ok
    BY <1>2, <1>5, <2>1 DEF Become
  <2>2. CASE q.ok
    <3> DEFINE r == LoadExtraPlugins(q, outcome)
    <3>1. config' = r.config /\ aliases' = r.aliases
      BY <1>2, <2>2 DEF Become
    <3>2. /\ r.aliases = q.aliases /\ SettingsOK(r.config)
          /\ \A k \in Core : r.config[k] = q.config[k]
      BY <1>5, LoadExtraLemma
    <3> QED
      BY <3>1, <3>2
  <2> QED
    BY <2>1, <2>2
<1>7. SettingsPersist'
  <2> SUFFICES ASSUME NEW k \in Core \cap DOMAIN rc.cfg
               PROVE  IF \A j \in Core \cap DOMAIN rc.cfg : j <= k => rc.cfg[j] # "pct"
                      THEN config'[k] = rc.cfg[k] \/ rc.cfg[k] = "pctpct"
                      ELSE config'[k] = Default(k)
    BY <1>1 DEF SettingsPersist
  <2>1. k \in Nat /\ \A j \in Core : j \in Nat
    BY CoreLemma
  <2>2. \A j \in Core : (j <= k) <=> ~(k < j)
    BY <2>1
  <2>3. config'[k] = q.config[k]
    BY <1>6
  <2>4. CASE \A j \in Core \cap DOMAIN rc.cfg : j <= k => rc.cfg[j] # "pct"
    BY <1>5, <2>2, <2>3, <2>4, Zenon
  <2>5. CASE ~(\A j \in Core \cap DOMAIN rc.cfg : j <= k => rc.cfg[j] # "pct")
    BY <1>5, <2>2, <2>3, <2>5, Zenon
  <2> QED
    BY <2>4, <2>5
<1>8. AliasesPersist'
  <2> DEFINE all == aliases'
  <2> SUFFICES ASSUME startup' = "ready", NEW n \in DOMAIN rc.aliases,
                      rc.aliases[n] # "pct", n # "b"
               PROVE  /\ n \in DOMAIN FileOf(config', all).aliases
                      /\ FileOf(config', all).aliases[n] = rc.aliases[n]
    BY <1>1 DEF AliasesPersist, Builtin
  <2>1. all = RestoredAliases(built, rc.aliases)
    BY <1>2, <1>5, <1>6
  <2>2. /\ all \in Seq(Names \X Cmds) /\ all[1] = built[1]
        /\ \A i \in DOMAIN all : i > 1 =>
              /\ all[i][1] \in DOMAIN rc.aliases /\ all[i][2] = rc.aliases[all[i][1]]
              /\ \A j \in DOMAIN all : j > 1 /\ all[i][1] = all[j][1] => i = j
        /\ \E i \in DOMAIN all : all[i][1] = n
    <3>1. Merged(all, built, rc)
      BY <1>1, <1>4, <2>1, RestoredLemma
    <3> HIDE DEF all
    <3> QED
      BY <3>1, <1>4 DEF Merged
  <2>3. PICK i \in DOMAIN all : all[i][1] = n
    BY <2>2
  <2>4. \A j \in DOMAIN all : j \in Nat /\ (j = 1 \/ j > 1)
    BY <2>2
  <2>5. i > 1 /\ all[i][2] = rc.aliases[n]
    BY <1>4, <2>2, <2>3, <2>4
  <2>6. n \in {"b", "u"} /\ Lower(n) = n
    BY <1>1, LowerLemma DEF FileOK
  <2>7. ASSUME NEW j \in DOMAIN all, Lower(all[j][1]) = n PROVE j = i
    <3>1. j > 1
      <4>1. Lower("b") = "b"
        BY DEF Lower
      <4> QED
        BY <4>1, <1>4, <2>2, <2>4, <2>7
    <3>2. all[j][1] \in {"b", "u"}
      BY <1>1, <2>2, <3>1 DEF FileOK
    <3>3. all[j][1] = n
      BY <2>7, <3>2, LowerLemma
    <3> QED
      BY <2>2, <2>3, <2>5, <3>1, <3>3
  <2> HIDE DEF all
  <2>8. /\ DOMAIN FileOf(config', all).aliases = {Lower(all[j][1]) : j \in DOMAIN all}
        /\ FileOf(config', all).aliases[Lower(all[i][1])] = all[i][2]
    <3>1. SettingsOK(config') /\ all \in Seq(Names \X Cmds) /\ Lower(all[i][1]) = n
      BY <1>6, <2>2, <2>3, <2>6
    <3>2. \A j \in DOMAIN all : Lower(all[j][1]) = Lower(all[i][1]) => j = i
      BY <2>7, <3>1
    <3> QED
      BY <3>1, <3>2, FileLemma
  <2> QED
    BY <2>3, <2>5, <2>6, <2>8
<1>9. starts' \in Nat /\ typed' \in Nat
  BY <1>1
<1> QED
  BY <1>1, <1>5, <1>6, <1>7, <1>8, <1>9 DEF ConfigInv

\* What `gef save' wrote comes back at the next start of scripts/gef.py, for any
\* set of settings and any number of starts and commands, whatever plugins fail to
\* load, up to the first value that cannot be read.
THEOREM SavedAlwaysComesBack == ConfigSpec => []SavedComesBack
<1>1. ConfigInv /\ [ConfigNext]_configVars => ConfigInv'
  <2> SUFFICES ASSUME ConfigInv, [ConfigNext]_configVars PROVE ConfigInv'
    OBVIOUS
  <2>1. CASE UNCHANGED configVars
    <3>1. /\ config' = config /\ aliases' = aliases /\ startup' = startup
          /\ rc' = rc /\ starts' = starts /\ typed' = typed
      BY <2>1 DEF configVars
    <3>2. (FileOf(config, aliases).aliases)' = FileOf(config, aliases).aliases
      BY <3>1
    <3>3. SettingsPersist' /\ AliasesPersist'
      BY <3>1, <3>2 DEF ConfigInv, SettingsPersist, AliasesPersist, JustStarted
    <3> QED
      BY <3>1, <3>3 DEF ConfigInv
  <2> QED
    BY <2>1, GefConfigSetStep, GefSaveStep, GefRestoreStep, AliasesStep, SourceHookStep,
       RestartStep DEF ConfigNext
<1>2. ConfigInv => SavedComesBack
  BY DEF ConfigInv, SavedComesBack
<1> QED
  BY <1>1, <1>2, ConfigInitial, PTL DEF ConfigSpec

-----------------------------------------------------------------------------
(* The heap tracker.                                                       *)

\* Calls and lists.
Fns == {"none", "malloc", "realloc", "free"}
Phases == {"out", "in", "done"}
Calls == [fn : Fns, phase : Phases, ptr : Nat, size : Nat, asked : Nat, res : Nat, rets : {0, 1}]
Chunks == Nat \X Nat
Reports == {"none", "overlap", "free_null", "double_free", "weird_free"}
Trackers == [alloc : Seq(Chunks), freed : Seq(Chunks), wps : Seq(Nat), report : Reports]

\* The call c takes the chunk a from the heap.
Takes(c, a) == c.phase = "in" /\ c.size > 0 /\ c.ptr = a

\* A chunk that free() is about to take, and one that a call is about to return.
Freeing(a) == \E t \in Threads : calls[t].fn = "free" /\ Takes(calls[t], a)
Pending(a) == \E t \in Threads : calls[t].res = a

\* The chunks in use do not overlap.
HeapOK(heap) ==
    /\ DOMAIN heap \subseteq Addr
    /\ \A a \in DOMAIN heap : heap[a] \in Nat \ {0}
    /\ \A a, b \in DOMAIN heap : a < b => a + heap[a] <= b

\* A call by itself.
CallOK(c, heap) ==
    /\ c.phase # "done" \/ c.fn = "free" => c.res = NULL
    /\ c.fn = "malloc" => c.ptr = NULL
    /\ c.fn = "realloc" => c.size > 0 /\ c.ptr # NULL
    /\ c.fn = "none" => c = Idle
    /\ c.fn # "none" => c.phase # "out"
    /\ c.res # NULL => c.res \in DOMAIN heap
    /\ c.ptr # NULL /\ Takes(c, c.ptr) => c.ptr \in DOMAIN heap

\* Two calls of different threads.
PairOK(c, d) ==
    /\ c.res # NULL => c.res # d.res
    /\ c.ptr # NULL /\ Takes(c, c.ptr) => ~Takes(d, c.ptr) /\ d.res # c.ptr

\* The heap and the calls in flight.
CallsOK ==
    /\ HeapOK(live) /\ calls \in [Threads -> Calls]
    /\ \A t \in Threads : CallOK(calls[t], live)
    /\ \A t, u \in Threads : t # u => PairOK(calls[t], calls[u])

\* The command: off, nothing is recorded and no call has a breakpoint waiting at
\* its return; on, the program runs and clean() will find its breakpoints.
CommandOK ==
    /\ sets \in {0, 1}
    /\ sets = 0 => /\ tracker = NoChunks /\ seen = {}
                   /\ hooks = 0 /\ ~owned /\ hw
                   /\ \A t \in Threads : calls[t].rets = 0
    /\ sets = 1 => alive /\ hooks = 1 /\ owned
    /\ ~alive => live = [a \in {} |-> 0] /\ calls = [t \in Threads |-> Idle]
    /\ tracker \in Trackers

\* No address is listed twice.
Distinct(list) == \A i, j \in DOMAIN list : i # j => list[i][1] # list[j][1]

\* What the lists say of an address: its traced chunk is in use, or has been
\* given back and not been handed out again.
InUse(a) == a \in seen /\ a \in DOMAIN live /\ ~Freeing(a) /\ ~Pending(a)
GivenBack(a) == a \in seen /\ (a \notin DOMAIN live \/ Freeing(a) \/ Pending(a))

\* A chunk that realloc() is about to replace was allocated before the command.
ReallocUnseen ==
    \A t \in Threads : calls[t].fn = "realloc" /\ calls[t].phase = "in" => calls[t].ptr \notin seen

\* The lists are exact, calls in flight included.
Lists ==
    /\ Distinct(tracker.alloc) /\ Distinct(tracker.freed)
    /\ Addresses(tracker.alloc) \subseteq Addr
    /\ \A a \in Addr : /\ a \in Addresses(tracker.alloc) <=> InUse(a)
                       /\ a \in Addresses(tracker.freed) <=> GivenBack(a)
    /\ ReallocUnseen

ListsOK == (sets = 1 /\ ~blind) => Lists

\* The return of the call c creates the watchpoint of a.
WillWatch(c, a) == c.fn = "free" /\ c.rets = 1 /\ c.ptr = a

Watched(a) ==
    \/ a \in Range(tracker.wps) \/ a \in reused
    \/ \E t \in Threads : WillWatch(calls[t], a)

\* Every freed chunk is watched, or will be when its free() returns.
WatchOK == ("uaf" \in Checks /\ sets = 1) => \A a \in Addresses(tracker.freed) : Watched(a)

\* The state of the loop of RemoveWhileIterating.
KeptStates(X) == [kept : Seq(X), next : Nat]

\* What of the first n elements of a list is left in the state x of the loop.
Left(list, M, n, x) ==
    n <= Len(list) =>
        /\ \A i \in DOMAIN x.kept : \E j \in DOMAIN list : j <= n /\ x.kept[i] = list[j]
        /\ \A j \in DOMAIN list : j <= n /\ list[j] \notin M =>
              \E i \in DOMAIN x.kept : x.kept[i] = list[j]
        /\ Distinct(list) => Distinct(x.kept)
        /\ (\A j, k \in DOMAIN list : list[j] \in M /\ list[k] \in M => j = k) =>
              /\ \A i \in DOMAIN x.kept : x.kept[i] \notin M
              /\ x.next # n + 1 => \E j \in DOMAIN list : j <= n /\ list[j] \in M

\* One element of the list.
LEMMA VisitLemma ==
    ASSUME NEW X, NEW list \in Seq(X), NEW M, NEW n \in Nat, NEW x \in KeptStates(X),
           Left(list, M, n, x)
    PROVE  LET y == Visit(list, M, n + 1, x)
           IN  y \in KeptStates(X) /\ Left(list, M, n + 1, y)
<1> DEFINE e == list[n + 1]
           k == x.kept
           l == Append(k, e)
           y == Visit(list, M, n + 1, x)
<1>1. CASE n + 1 \notin DOMAIN list
  <2>1. y = x /\ ~(n + 1 <= Len(list))
    BY <1>1 DEF Visit
  <2> QED
    BY <2>1 DEF Left
<1>2. CASE n + 1 \in DOMAIN list
  <2>1. /\ e \in X /\ k \in Seq(X) /\ n <= Len(list)
        /\ \A j \in DOMAIN list : j \in Nat
        /\ \A j \in DOMAIN list : j <= n + 1 => j <= n \/ j = n + 1
        /\ \A j \in DOMAIN list : j <= n => j <= n + 1 /\ j # n + 1
    BY <1>2 DEF KeptStates
  <2>2. /\ DOMAIN l = DOMAIN k \cup {Len(k) + 1} /\ Len(k) + 1 \notin DOMAIN k
        /\ \A i \in DOMAIN k : l[i] = k[i]
        /\ l[Len(k) + 1] = e /\ l \in Seq(X)
    BY <2>1
  <2>3. /\ \A i \in DOMAIN k : \E j \in DOMAIN list : j <= n /\ k[i] = list[j]
        /\ \A j \in DOMAIN list : j <= n /\ list[j] \notin M => \E i \in DOMAIN k : k[i] = list[j]
        /\ Distinct(list) => Distinct(k)
        /\ (\A j, i \in DOMAIN list : list[j] \in M /\ list[i] \in M => j = i) =>
              /\ \A i \in DOMAIN k : k[i] \notin M
              /\ x.next # n + 1 => \E j \in DOMAIN list : j <= n /\ list[j] \in M
    BY <2>1 DEF Left
  <2>4. CASE n + 1 = x.next /\ e \in M
    <3>1. y.kept = k /\ y \in KeptStates(X)
      BY <1>2, <2>1, <2>4 DEF Visit, KeptStates
    <3> HIDE DEF e, l, y, k
    <3>2. \A i \in DOMAIN k : \E j \in DOMAIN list : j <= n + 1 /\ k[i] = list[j]
      BY <2>1, <2>3
    <3>3. \A j \in DOMAIN list : j <= n + 1 /\ list[j] \notin M => \E i \in DOMAIN k : k[i] = list[j]
      BY <2>1, <2>3, <2>4 DEF e
    <3>4. \E j \in DOMAIN list : j <= n + 1 /\ list[j] \in M
      BY <1>2, <2>1, <2>4 DEF e
    <3>5. Left(list, M, n + 1, y)
      BY <2>3, <3>1, <3>2, <3>3, <3>4 DEF Left
    <3> QED
      BY <3>1, <3>5 DEF y
  <2>5. CASE ~(n + 1 = x.next /\ e \in M)
    <3>1. y = [kept |-> l, next |-> n + 1 + 1]
      BY <1>2, <2>5 DEF Visit
    <3> HIDE DEF e, l, y, k
    <3>2. y.kept = l /\ y.next = n + 1 + 1 /\ y \in KeptStates(X)
      BY <2>2, <3>1 DEF KeptStates
    <3>3. \A i \in DOMAIN l : \E j \in DOMAIN list : j <= n + 1 /\ l[i] = list[j]
      <4>1. \A i \in DOMAIN k : \E j \in DOMAIN list : j <= n + 1 /\ l[i] = list[j]
        BY <2>1, <2>2, <2>3
      <4>2. n + 1 <= n + 1 /\ l[Len(k) + 1] = list[n + 1]
        BY <2>2 DEF e
      <4> QED
        BY <1>2, <2>2, <4>1, <4>2
    <3>4. \A j \in DOMAIN list : j <= n + 1 /\ list[j] \notin M => \E i \in DOMAIN l : l[i] = list[j]
      BY <2>1, <2>2, <2>3 DEF e
    <3>5. ASSUME Distinct(list) PROVE Distinct(l)
      <4>1. \A i \in DOMAIN k : k[i][1] # e[1]
        BY <1>2, <2>1, <2>3, <3>5 DEF Distinct, e
      <4>2. Distinct(k)
        BY <2>3, <3>5
      <4> QED
        BY <2>2, <4>1, <4>2 DEF Distinct
    <3>6. ASSUME \A j, i \in DOMAIN list : list[j] \in M /\ list[i] \in M => j = i
          PROVE  \A i \in DOMAIN l : l[i] \notin M
      <4>1. e \notin M
        <5>1. CASE n + 1 = x.next
          BY <2>5, <5>1
        <5>2. CASE n + 1 # x.next
          <6>1. PICK j \in DOMAIN list : j <= n /\ list[j] \in M
            BY <2>3, <3>6, <5>2
          <6> QED
            BY <1>2, <2>1, <3>6, <6>1 DEF e
        <5> QED
          BY <5>1, <5>2
      <4> QED
        BY <2>2, <2>3, <3>6, <4>1
    <3>7. Left(list, M, n + 1, y)
      BY <3>2, <3>3, <3>4, <3>5, <3>6 DEF Left
    <3> QED
      BY <3>2, <3>7 DEF y
  <2> QED
    BY <2>4, <2>5
<1> QED
  BY <1>1, <1>2

\* What `for x in l: if x matches: l.remove(x)' does.
LEMMA RemoveLemma ==
    ASSUME NEW X, NEW list \in Seq(X), NEW M
    PROVE  LET r == RemoveWhileIterating(list, M)
           IN  /\ r \in Seq(X)
               /\ \A i \in DOMAIN r : \E j \in DOMAIN list : r[i] = list[j]
               /\ \A j \in DOMAIN list : list[j] \notin M => \E i \in DOMAIN r : r[i] = list[j]
               /\ Distinct(list) => Distinct(r)
               /\ (\A j, k \in DOMAIN list : list[j] \in M /\ list[k] \in M => j = k)
                     => \A i \in DOMAIN r : r[i] \notin M
<1> DEFINE V == KeptStates(X)
           x0 == [kept |-> <<>>, next |-> 1]
           Before(g, i) == IF i = 0 THEN x0 ELSE g[i - 1]
           upTo == CHOOSE g : g = [i \in Nat |-> Visit(list, M, i, Before(g, i))]
           Step == [p \in Nat \X V |-> Visit(list, M, p[1], p[2])]
<1>2. RemoveWhileIterating(list, M) = upTo[Len(list)].kept
  BY DEF RemoveWhileIterating
<1>4. \A i \in Nat, x \in V : Visit(list, M, i, x) \in V
  <2> SUFFICES ASSUME NEW i \in Nat, NEW x \in V PROVE Visit(list, M, i, x) \in V
    OBVIOUS
  <2>1. i \in DOMAIN list => Append(x.kept, list[i]) \in Seq(X)
    BY DEF KeptStates
  <2> QED
    BY <2>1 DEF Visit, KeptStates
<1>5. x0 \in V
  BY DEF KeptStates
<1>6. Step \in [Nat \X V -> V] /\ \A i \in Nat, x \in V : Step[<<i, x>>] = Visit(list, M, i, x)
  <2> HIDE DEF V
  <2> QED
    BY <1>4
<1> HIDE DEF Step, V, x0
<1>7. PICK F \in [Nat -> V] : Loop(F, x0, Step)
  BY <1>5, <1>6, LoopExists
<1>8. \A i \in Nat : F[i] = Visit(list, M, i, Before(F, i))
  <2> SUFFICES ASSUME NEW i \in Nat PROVE F[i] = Visit(list, M, i, Before(F, i))
    OBVIOUS
  <2>1. F[i] = Step[<<i, Before(F, i)>>]
    BY <1>7 DEF Loop
  <2>2. Before(F, i) \in V
    BY <1>5, <1>7
  <2> HIDE DEF Before
  <2> QED
    BY <1>6, <2>1, <2>2
<1>9. F = [i \in Nat |-> Visit(list, M, i, Before(F, i))]
  <2> HIDE DEF Before
  <2> QED
    BY <1>8
<1>10. upTo = [i \in Nat |-> Visit(list, M, i, Before(upTo, i))]
  <2> HIDE DEF Before
  <2> QED
    BY <1>9
<1> HIDE DEF upTo
<1>11. \A i \in Nat : upTo[i] = Visit(list, M, i, Before(upTo, i))
  <2> HIDE DEF Before
  <2> QED
    BY <1>10
<1> DEFINE S == {n \in Nat : upTo[n] \in V /\ Left(list, M, n, upTo[n])}
<1>12. 0 \in S
  <2>1. upTo[0] = x0
    <3>1. 0 \notin DOMAIN list
      OBVIOUS
    <3>2. upTo[0] = Visit(list, M, 0, x0)
      BY <1>11
    <3> QED
      BY <3>1, <3>2 DEF Visit
  <2>2. Left(list, M, 0, x0)
    <3>1. x0.kept = <<>> /\ x0.next = 0 + 1 /\ \A j \in DOMAIN list : ~(j <= 0)
      BY DEF x0
    <3> QED
      BY <3>1 DEF Left, Distinct
  <2> QED
    BY <1>5, <2>1, <2>2
<1>13. ASSUME NEW n \in Nat, n \in S PROVE n + 1 \in S
  <2>1. upTo[n + 1] = Visit(list, M, n + 1, upTo[n])
    BY <1>11
  <2>2. upTo[n] \in KeptStates(X) /\ Left(list, M, n, upTo[n])
    BY <1>13 DEF V
  <2>3. upTo[n + 1] \in V /\ Left(list, M, n + 1, upTo[n + 1])
    BY <2>1, <2>2, VisitLemma DEF V
  <2> QED
    BY <2>3
<1>14. upTo[Len(list)] \in V /\ Left(list, M, Len(list), upTo[Len(list)])
  <2>1. Len(list) \in Nat
    OBVIOUS
  <2> HIDE DEF S
  <2>2. \A n \in Nat : n \in S
    BY <1>12, <1>13, Induction
  <2>3. Len(list) \in S
    BY <2>1, <2>2
  <2> QED
    BY <2>3 DEF S
<1>15. upTo[Len(list)].kept \in Seq(X)
  BY <1>14 DEF V, KeptStates
<1>16. Len(list) <= Len(list) /\ \A j \in DOMAIN list : j <= Len(list)
  OBVIOUS
<1> QED
  BY <1>2, <1>14, <1>15, <1>16 DEF Left

\* Addresses of a list that has got longer.
LEMMA AppendLemma ==
    ASSUME NEW list \in Seq(Chunks), NEW c \in Chunks
    PROVE  LET r == Append(list, c)
           IN  /\ r \in Seq(Chunks) /\ Addresses(r) = Addresses(list) \cup {c[1]}
               /\ Distinct(list) /\ c[1] \notin Addresses(list) => Distinct(r)
<1> DEFINE r == Append(list, c)
           n == Len(list) + 1
<1>1. /\ r \in Seq(Chunks) /\ DOMAIN r = DOMAIN list \cup {n} /\ n \notin DOMAIN list
      /\ r[n] = c /\ \A i \in DOMAIN list : r[i] = list[i]
  OBVIOUS
<1> HIDE DEF r, n
<1>2. Addresses(r) = Addresses(list) \cup {c[1]}
  BY <1>1 DEF Addresses
<1>3. Distinct(list) /\ c[1] \notin Addresses(list) => Distinct(r)
  BY <1>1 DEF Distinct, Addresses
<1> QED
  BY <1>1, <1>2, <1>3 DEF r

\* A part of a list of chunks.
LEMMA SliceLemma ==
    ASSUME NEW list, NEW p \in Int, NEW q \in Int, \A j \in p .. q : list[j] \in Chunks
    PROVE  LET s == SubSeq(list, p, q)
           IN  /\ s \in Seq(Chunks) /\ Len(s) = IF p <= q THEN q - p + 1 ELSE 0
               /\ \A j \in 1 .. q - p + 1 : s[j] = list[p + j - 1]
<1>1. SubSeq(list, p, q) \in Seq(Chunks)
  BY SubSeqProperties
<1>2. Len(SubSeq(list, p, q)) = IF p <= q THEN q - p + 1 ELSE 0
  BY SubSeqProperties
<1>3. \A j \in 1 .. q - p + 1 : SubSeq(list, p, q)[j] = list[p + j - 1]
  BY SubSeqProperties
<1> QED
  BY <1>1, <1>2, <1>3

\* Addresses of a list that has got shorter.
LEMMA RemoveAtLemma ==
    ASSUME NEW list \in Seq(Chunks), NEW i \in DOMAIN list
    PROVE  LET r == RemoveAt(list, i)
           IN  /\ r \in Seq(Chunks)
               /\ Distinct(list) => /\ Distinct(r)
                                    /\ Addresses(r) = Addresses(list) \ {list[i][1]}
<1> DEFINE r == RemoveAt(list, i)
           n == Len(list)
           b == SubSeq(list, 1, i - 1)
           c == SubSeq(list, i + 1, n)
           From(j) == IF j < i THEN j ELSE j + 1
<1>1. i \in 1 .. n /\ n \in Nat /\ DOMAIN list = 1 .. n
  OBVIOUS
<1> HIDE DEF r
<1>3. r = b \o c
  BY DEF RemoveAt, r
<1>b. /\ b \in Seq(Chunks) /\ Len(b) = i - 1
      /\ \A j \in 1 .. (i - 1) : b[j] = list[j]
  <2>1. 1 \in Int /\ i - 1 \in Int /\ \A j \in 1 .. (i - 1) : list[j] \in Chunks
    BY <1>1
  <2>2. /\ b \in Seq(Chunks) /\ Len(b) = IF 1 <= i - 1 THEN (i - 1) - 1 + 1 ELSE 0
        /\ \A j \in 1 .. (i - 1) - 1 + 1 : b[j] = list[1 + j - 1]
    BY <2>1, SliceLemma
  <2> HIDE DEF b
  <2>3. \A j \in 1 .. (i - 1) : b[j] = list[j]
    <3> SUFFICES ASSUME NEW j \in 1 .. (i - 1) PROVE b[j] = list[j]
      OBVIOUS
    <3>1. j \in 1 .. (i - 1) - 1 + 1 /\ 1 + j - 1 = j
      BY <1>1
    <3> QED
      BY <2>2, <3>1
  <2> QED
    BY <1>1, <2>2, <2>3
<1>c. /\ c \in Seq(Chunks) /\ Len(c) = n - i
      /\ \A j \in 1 .. (n - i) : c[j] = list[i + j]
  <2>1. i + 1 \in Int /\ n \in Int /\ \A j \in (i + 1) .. n : list[j] \in Chunks
    BY <1>1
  <2>2. /\ c \in Seq(Chunks) /\ Len(c) = IF i + 1 <= n THEN n - (i + 1) + 1 ELSE 0
        /\ \A j \in 1 .. n - (i + 1) + 1 : c[j] = list[(i + 1) + j - 1]
    BY <2>1, SliceLemma
  <2> HIDE DEF c, n
  <2>3. \A j \in 1 .. (n - i) : c[j] = list[i + j]
    <3> SUFFICES ASSUME NEW j \in 1 .. (n - i) PROVE c[j] = list[i + j]
      OBVIOUS
    <3>1. j \in 1 .. n - (i + 1) + 1 /\ (i + 1) + j - 1 = i + j
      BY <1>1
    <3> QED
      BY <2>2, <3>1
  <2> QED
    BY <1>1, <2>2, <2>3
<1> HIDE DEF b, c, n
<1>2. /\ r \in Seq(Chunks) /\ Len(r) = Len(b) + Len(c)
      /\ \A j \in 1 .. Len(b) + Len(c) : r[j] = IF j <= Len(b) THEN b[j] ELSE c[j - Len(b)]
  BY <1>b, <1>c, <1>3, ConcatProperties, Zenon
<1>4. /\ r \in Seq(Chunks) /\ DOMAIN r = 1 .. (n - 1)
      /\ \A j \in 1 .. (i - 1) : r[j] = list[j]
      /\ \A j \in i .. (n - 1) : r[j] = c[j - (i - 1)]
  <2>1. Len(b) = i - 1 /\ Len(b) + Len(c) = n - 1
    BY <1>1, <1>b, <1>c
  <2>2. ASSUME NEW j \in 1 .. (i - 1) PROVE r[j] = list[j]
    <3>1. j \in 1 .. Len(b) + Len(c) /\ j <= Len(b)
      BY <1>1, <2>1
    <3>2. r[j] = b[j]
      BY <1>2, <3>1
    <3> QED
      BY <1>b, <3>2
  <2>3. ASSUME NEW j \in i .. (n - 1) PROVE r[j] = c[j - (i - 1)]
    <3>1. j \in 1 .. Len(b) + Len(c) /\ ~(j <= Len(b))
      BY <1>1, <2>1
    <3> QED
      BY <1>2, <2>1, <3>1
  <2>4. DOMAIN r = 1 .. Len(r)
    BY <1>2
  <2> QED
    BY <1>2, <2>1, <2>2, <2>3, <2>4
<1>5. \A j \in DOMAIN r : From(j) \in DOMAIN list /\ From(j) # i /\ r[j] = list[From(j)]
  <2> SUFFICES ASSUME NEW j \in 1 .. (n - 1)
               PROVE  From(j) \in 1 .. n /\ From(j) # i /\ r[j] = list[From(j)]
    BY <1>1, <1>4
  <2>1. CASE j < i
    <3>1. j \in 1 .. (i - 1)
      BY <1>1, <2>1
    <3> QED
      BY <1>1, <1>4, <2>1, <3>1
  <2>2. CASE ~(j < i)
    <3>1. j - (i - 1) \in 1 .. (n - i) /\ i + (j - (i - 1)) = j + 1 /\ j \in i .. (n - 1)
      BY <1>1, <2>2
    <3>2. r[j] = list[j + 1]
      BY <1>c, <1>4, <3>1
    <3> QED
      BY <1>1, <2>2, <3>2
  <2> QED
    BY <2>1, <2>2
<1>6. \A k \in DOMAIN list : k # i => \E j \in DOMAIN r : From(j) = k
  <2> SUFFICES ASSUME NEW k \in 1 .. n, k # i
               PROVE  \E j \in 1 .. (n - 1) : From(j) = k
    BY <1>1, <1>4
  <2>1. CASE k < i
    <3>1. k \in 1 .. (n - 1) /\ From(k) = k
      BY <1>1, <2>1
    <3> QED
      BY <3>1
  <2>2. CASE i < k
    <3>1. k - 1 \in 1 .. (n - 1) /\ From(k - 1) = k
      BY <1>1, <2>2
    <3> QED
      BY <3>1
  <2> QED
    BY <1>1, <2>1, <2>2
<1>7. \A j, k \in DOMAIN r : j # k => From(j) # From(k)
  BY <1>1, <1>4
<1> HIDE DEF From
<1>8. ASSUME Distinct(list)
      PROVE  Distinct(r) /\ Addresses(r) = Addresses(list) \ {list[i][1]}
  <2>1. Distinct(r)
    BY <1>5, <1>7, <1>8 DEF Distinct
  <2>2. ASSUME NEW a \in Addresses(r) PROVE a \in Addresses(list) \ {list[i][1]}
    <3>1. PICK j \in DOMAIN r : a = r[j][1]
      BY <2>2 DEF Addresses
    <3> QED
      BY <1>5, <1>8, <3>1 DEF Addresses, Distinct
  <2>3. ASSUME NEW a \in Addresses(list), a # list[i][1] PROVE a \in Addresses(r)
    <3>1. PICK k \in DOMAIN list : a = list[k][1]
      BY <2>3 DEF Addresses
    <3>2. PICK j \in DOMAIN r : From(j) = k
      BY <1>6, <2>3, <3>1
    <3>3. r[j][1] = a
      BY <1>5, <3>1, <3>2
    <3> QED
      BY <3>3 DEF Addresses
  <2> QED
    BY <2>1, <2>2, <2>3
<1> QED
  BY <1>4, <1>8 DEF r

\* The first entry of an address.
LEMMA FirstEntryLemma ==
    ASSUME NEW list \in Seq(Chunks), NEW a, a \in Addresses(list)
    PROVE  LET at == {i \in DOMAIN list : list[i][1] = a}
               i == CHOOSE k \in at : \A j \in at : k <= j
           IN  at # {} /\ i \in DOMAIN list /\ list[i][1] = a
<1> DEFINE at == {i \in DOMAIN list : list[i][1] = a}
           S == {n \in Nat : (\E i \in at : i <= n) => \E k \in at : \A j \in at : k <= j}
<1>1. at # {} /\ at \subseteq Nat \ {0}
  BY DEF Addresses
<1> HIDE DEF at
<1>2. 0 \in S
  BY <1>1
<1>3. ASSUME NEW n \in Nat, n \in S PROVE n + 1 \in S
  <2> SUFFICES ASSUME \E i \in at : i <= n + 1
               PROVE  \E k \in at : \A j \in at : k <= j
    OBVIOUS
  <2>1. CASE \E i \in at : i <= n
    BY <1>3, <2>1
  <2>2. CASE ~(\E i \in at : i <= n)
    <3>1. PICK i \in at : i <= n + 1
      OBVIOUS
    <3>2. \A j \in at : i <= j
      BY <1>1, <2>2, <3>1
    <3> QED
      BY <3>2
  <2> QED
    BY <2>1, <2>2
<1>4. \A n \in Nat : n \in S
  <2> HIDE DEF S
  <2> QED
    BY <1>2, <1>3, Induction
<1>5. PICK n \in at : TRUE
  BY <1>1
<1>6. \E k \in at : \A j \in at : k <= j
  <2>1. n \in Nat /\ n <= n
    BY <1>1, <1>5
  <2> QED
    BY <1>4, <1>5, <2>1
<1> DEFINE i == CHOOSE k \in at : \A j \in at : k <= j
<1>7. i \in at
  BY <1>6
<1> HIDE DEF i
<1>8. i \in DOMAIN list /\ list[i][1] = a
  BY <1>7 DEF at
<1> QED
  BY <1>1, <1>8 DEF at, i

\* The fields of the tracker.
LEMMA TrackerLemma ==
    ASSUME NEW tr \in Trackers
    PROVE  /\ tr.alloc \in Seq(Chunks) /\ tr.freed \in Seq(Chunks)
           /\ tr.wps \in Seq(Nat) /\ tr.report \in Reports
  BY DEF Trackers

\* TraceMallocRetBreakpoint.stop adds nothing to the freed chunks and removes
\* no watchpoint outside the new chunk.
LEMMA MallocRetLemma ==
    ASSUME NEW tr \in Trackers, NEW loc \in Nat, NEW size \in Nat, NEW header
    PROVE  LET r == MallocRet(tr, loc, size, header)
           IN  /\ r \in Trackers
               /\ \A a \in Addresses(r.freed) : a \in Addresses(tr.freed)
               /\ \A a \in Range(tr.wps) : a \notin Block(loc, size) => a \in Range(r.wps)
<1> DEFINE f == RemoveWhileIterating(tr.freed, ItemsAt(tr.freed, loc))
           B == Block(loc, size)
           w == RemoveWhileIterating(tr.wps, B)
           r == MallocRet(tr, loc, size, header)
<1>1. f \in Seq(Chunks) /\ \A i \in DOMAIN f : \E j \in DOMAIN tr.freed : f[i] = tr.freed[j]
  BY TrackerLemma, RemoveLemma
<1>2. /\ w \in Seq(Nat)
      /\ \A j \in DOMAIN tr.wps : tr.wps[j] \notin Block(loc, size) =>
            \E i \in DOMAIN w : w[i] = tr.wps[j]
  <2> HIDE DEF B
  <2>1. tr.wps \in Seq(Nat)
    BY TrackerLemma
  <2>2. /\ w \in Seq(Nat)
        /\ \A j \in DOMAIN tr.wps : tr.wps[j] \notin B => \E i \in DOMAIN w : w[i] = tr.wps[j]
    BY <2>1, RemoveLemma
  <2> QED
    BY <2>2 DEF B
<1>3. <<loc, size>> \in Chunks /\ Append(tr.alloc, <<loc, size>>) \in Seq(Chunks)
  BY TrackerLemma DEF Chunks
<1> HIDE DEF f, w
<1>4. r \in Trackers /\ r.freed = f /\ r.wps = w
  <2> DEFINE p == [tr EXCEPT !.freed = f, !.wps = w]
  <2>1. p \in Trackers /\ p.freed = f /\ p.wps = w /\ p.alloc = tr.alloc
    <3>1. f \in Seq(Chunks) /\ w \in Seq(Nat)
      BY <1>1, <1>2
    <3> QED
      BY <3>1 DEF Trackers
  <2>2. r = [p EXCEPT !.report = "overlap"] \/ r = [p EXCEPT !.alloc = Append(@, <<loc, size>>)]
    BY DEF MallocRet, f, w
  <2>3. "overlap" \in Reports
    BY DEF Reports
  <2> HIDE DEF r, p
  <2> QED
    BY <1>3, <2>1, <2>2, <2>3 DEF Trackers
<1> HIDE DEF r
<1>5. \A a \in Addresses(r.freed) : a \in Addresses(tr.freed)
  BY <1>1, <1>4 DEF Addresses
<1>6. \A a \in Range(tr.wps) : a \notin Block(loc, size) => a \in Range(r.wps)
  BY <1>2, <1>4 DEF Range
<1> QED
  BY <1>4, <1>5, <1>6 DEF r

\* It moves the address of the new chunk from the freed list, where it is at
\* most once, to the allocated one, when no tracked chunk is in the way.
LEMMA MallocRetExact ==
    ASSUME NEW tr \in Trackers, NEW loc \in Nat, NEW size \in Nat, NEW header,
           Distinct(tr.alloc), Distinct(tr.freed), loc \notin Addresses(tr.alloc),
           OverlapStops(tr.alloc, loc, header) = {}
    PROVE  LET r == MallocRet(tr, loc, size, header)
           IN  /\ Distinct(r.alloc) /\ Addresses(r.alloc) = Addresses(tr.alloc) \cup {loc}
               /\ Distinct(r.freed) /\ Addresses(r.freed) = Addresses(tr.freed) \ {loc}
<1> DEFINE M == ItemsAt(tr.freed, loc)
           f == RemoveWhileIterating(tr.freed, M)
           w == RemoveWhileIterating(tr.wps, Block(loc, size))
           l == Append(tr.alloc, <<loc, size>>)
           r == MallocRet(tr, loc, size, header)
<1>1. \A j \in DOMAIN tr.freed : tr.freed[j] \in M <=> tr.freed[j][1] = loc
  BY DEF ItemsAt, ToSet
<1> HIDE DEF M
<1>2. \A j, k \in DOMAIN tr.freed : tr.freed[j] \in M /\ tr.freed[k] \in M => j = k
  BY <1>1 DEF Distinct
<1>3. /\ \A i \in DOMAIN f : \E j \in DOMAIN tr.freed : f[i] = tr.freed[j]
      /\ \A j \in DOMAIN tr.freed : tr.freed[j] \notin M => \E i \in DOMAIN f : f[i] = tr.freed[j]
      /\ Distinct(f)
      /\ \A i \in DOMAIN f : f[i] \notin M
  <2> DEFINE list == tr.freed
  <2>1. list \in Seq(Chunks)
    BY TrackerLemma
  <2>2. Distinct(list) /\ \A j, k \in DOMAIN list : list[j] \in M /\ list[k] \in M => j = k
    BY <1>2
  <2> HIDE DEF list
  <2>3. /\ \A i \in DOMAIN RemoveWhileIterating(list, M) :
              \E j \in DOMAIN list : RemoveWhileIterating(list, M)[i] = list[j]
        /\ \A j \in DOMAIN list : list[j] \notin M =>
              \E i \in DOMAIN RemoveWhileIterating(list, M) :
                  RemoveWhileIterating(list, M)[i] = list[j]
    BY <2>1, RemoveLemma
  <2>4. Distinct(RemoveWhileIterating(list, M))
    BY <2>1, <2>2, RemoveLemma
  <2>5. \A i \in DOMAIN RemoveWhileIterating(list, M) : RemoveWhileIterating(list, M)[i] \notin M
    BY <2>1, <2>2, RemoveLemma
  <2> QED
    BY <2>3, <2>4, <2>5 DEF list
<1> HIDE DEF f
<1>4. Addresses(f) = Addresses(tr.freed) \ {loc}
  <2>1. ASSUME NEW a \in Addresses(f) PROVE a \in Addresses(tr.freed) \ {loc}
    <3>1. PICK i \in DOMAIN f : a = f[i][1]
      BY <2>1 DEF Addresses
    <3>2. PICK j \in DOMAIN tr.freed : f[i] = tr.freed[j]
      BY <1>3, <3>1
    <3> QED
      BY <1>1, <1>3, <3>1, <3>2 DEF Addresses
  <2>2. ASSUME NEW a \in Addresses(tr.freed), a # loc PROVE a \in Addresses(f)
    <3>1. PICK j \in DOMAIN tr.freed : a = tr.freed[j][1]
      BY <2>2 DEF Addresses
    <3>2. PICK i \in DOMAIN f : f[i] = tr.freed[j]
      BY <1>1, <1>3, <2>2, <3>1
    <3> QED
      BY <3>1, <3>2 DEF Addresses
  <2> QED
    BY <2>1, <2>2
<1>5. <<loc, size>> \in Chunks /\ <<loc, size>>[1] = loc
  BY DEF Chunks
<1>6. Distinct(l) /\ Addresses(l) = Addresses(tr.alloc) \cup {loc}
  BY <1>5, TrackerLemma, AppendLemma
<1>7. r.alloc = l /\ r.freed = f
  <2> DEFINE p == [tr EXCEPT !.freed = f, !.wps = w]
  <2> HIDE DEF w, l
  <2>1. p.alloc = tr.alloc /\ p.freed = f /\ DOMAIN p = {"alloc", "freed", "wps", "report"}
    BY DEF Trackers
  <2>2. r = [p EXCEPT !.alloc = l]
    <3>2. r = IF (IF "heap_overlap" \in Checks THEN OverlapStops(p.alloc, loc, header) ELSE {}) # {}
              THEN [p EXCEPT !.report = "overlap"]
              ELSE [p EXCEPT !.alloc = Append(@, <<loc, size>>)]
      BY DEF MallocRet, f, w, M
    <3> HIDE DEF p, r
    <3> QED
      BY <2>1, <3>2 DEF l
  <2> HIDE DEF r, p
  <2> QED
    BY <2>1, <2>2
<1> HIDE DEF r, l
<1> QED
  BY <1>3, <1>4, <1>6, <1>7 DEF r

\* TraceReallocRetBreakpoint.stop touches only the allocated chunks.
LEMMA ReallocRetLemma ==
    ASSUME NEW tr \in Trackers, NEW ptr \in Nat, NEW newloc \in Nat, NEW size \in Nat
    PROVE  LET r == ReallocRet(tr, ptr, newloc, size)
           IN  r \in Trackers /\ r.freed = tr.freed /\ r.wps = tr.wps
<1> DEFINE at == {i \in DOMAIN tr.alloc : tr.alloc[i][1] = ptr}
           i == CHOOSE k \in at : \A j \in at : k <= j
           r == ReallocRet(tr, ptr, newloc, size)
<1>1. \E l \in Seq(Chunks) : r = [tr EXCEPT !.alloc = l]
  <2>1. CASE at = {}
    <3>1. Append(tr.alloc, <<newloc, size>>) \in Seq(Chunks)
      BY TrackerLemma DEF Chunks
    <3>2. r = [tr EXCEPT !.alloc = Append(tr.alloc, <<newloc, size>>)]
      BY <2>1 DEF ReallocRet
    <3> HIDE DEF r
    <3> QED
      BY <3>1, <3>2
  <2>2. CASE at # {}
    <3>1. ptr \in Addresses(tr.alloc)
      BY <2>2 DEF Addresses
    <3>2. i \in DOMAIN tr.alloc
      BY <3>1, TrackerLemma, FirstEntryLemma
    <3>3. r = [tr EXCEPT !.alloc = Append(RemoveAt(tr.alloc, i), tr.alloc[i])]
      BY <2>2 DEF ReallocRet
    <3> HIDE DEF i, r
    <3>4. RemoveAt(tr.alloc, i) \in Seq(Chunks) /\ tr.alloc[i] \in Chunks
      BY <3>2, TrackerLemma, RemoveAtLemma
    <3>5. Append(RemoveAt(tr.alloc, i), tr.alloc[i]) \in Seq(Chunks)
      BY <3>4
    <3> QED
      BY <3>3, <3>5
  <2> QED
    BY <2>1, <2>2
<1> HIDE DEF r
<1>2. PICK l \in Seq(Chunks) : r = [tr EXCEPT !.alloc = l]
  BY <1>1
<1>3. r \in Trackers /\ r.freed = tr.freed /\ r.wps = tr.wps
  BY <1>2 DEF Trackers
<1> QED
  BY <1>3 DEF r

\* TraceFreeBreakpoint.stop touches the lists only for a chunk that is listed
\* as allocated and not as freed.
Frees(tr, addr) == addr # NULL /\ addr \notin Addresses(tr.freed) /\ addr \in Addresses(tr.alloc)

LEMMA FreeEntryLemma ==
    ASSUME NEW tr \in Trackers, NEW addr \in Nat
    PROVE  LET r == FreeEntry(tr, addr)
           IN  /\ r \in Trackers /\ r.wps = tr.wps
               /\ ~Frees(tr, addr) => r.alloc = tr.alloc /\ r.freed = tr.freed
               /\ Frees(tr, addr) =>
                    /\ Addresses(r.freed) = Addresses(tr.freed) \cup {addr}
                    /\ Distinct(tr.freed) => Distinct(r.freed)
                    /\ Distinct(tr.alloc) => /\ Distinct(r.alloc)
                                             /\ Addresses(r.alloc) = Addresses(tr.alloc) \ {addr}
<1> DEFINE at == {i \in DOMAIN tr.alloc : tr.alloc[i][1] = addr}
           i == CHOOSE k \in at : \A j \in at : k <= j
           r == FreeEntry(tr, addr)
<1>0. at = {} <=> addr \notin Addresses(tr.alloc)
  BY DEF Addresses
<1>1. CASE ~Frees(tr, addr)
  <2>1. r = tr \/ \E c \in {"free_null", "double_free", "weird_free"} : r = [tr EXCEPT !.report = c]
    BY <1>0, <1>1 DEF FreeEntry, Frees
  <2> HIDE DEF r, at, i
  <2>2. {"free_null", "double_free", "weird_free"} \subseteq Reports
    BY DEF Reports
  <2>3. r \in Trackers /\ r.wps = tr.wps /\ r.alloc = tr.alloc /\ r.freed = tr.freed
    BY <2>1, <2>2 DEF Trackers
  <2> QED
    BY <1>1, <2>3 DEF r
<1>2. CASE Frees(tr, addr)
  <2> DEFINE l == RemoveAt(tr.alloc, i)
             f == Append(tr.freed, tr.alloc[i])
  <2>1. i \in DOMAIN tr.alloc /\ tr.alloc[i][1] = addr
    BY <1>2, TrackerLemma, FirstEntryLemma DEF Frees
  <2>2. r = [tr EXCEPT !.alloc = l, !.freed = f]
    BY <1>0, <1>2 DEF FreeEntry, Frees
  <2> HIDE DEF r, i, at
  <2>3. l \in Seq(Chunks) /\ tr.alloc[i] \in Chunks
        /\ (Distinct(tr.alloc) => Distinct(l) /\ Addresses(l) = Addresses(tr.alloc) \ {addr})
    BY <2>1, TrackerLemma, RemoveAtLemma
  <2>4. /\ f \in Seq(Chunks) /\ Addresses(f) = Addresses(tr.freed) \cup {addr}
        /\ Distinct(tr.freed) => Distinct(f)
    BY <1>2, <2>1, <2>3, TrackerLemma, AppendLemma DEF Frees
  <2> HIDE DEF l, f
  <2>5. r \in Trackers /\ r.wps = tr.wps /\ r.alloc = l /\ r.freed = f
    BY <2>2, <2>3, <2>4 DEF Trackers
  <2> QED
    BY <1>2, <2>3, <2>4, <2>5 DEF r
<1> QED
  BY <1>1, <1>2

\* One thread's call changes to c, nothing of the debugger's command does.
Turn(t, c) ==
    /\ calls' = [calls EXCEPT ![t] = c]
    /\ alive /\ alive' = alive /\ sets' = sets /\ owned' = owned /\ hooks' = hooks /\ hw' = hw
    /\ ~blind' => ~blind

\* The call c is entered.
Entered(t, c) ==
    /\ Turn(t, c) /\ calls[t] = Idle
    /\ c \in Calls /\ c.phase = "in" /\ c.res = NULL /\ (c.rets # 0 => sets = 1)
    /\ live' = live /\ seen' = seen /\ reused' = reused

\* What a history flag that is only ever raised says when it is down.
LEMMA BlindLemma ==
    ASSUME NEW b, NEW d, NEW p, d = (b \/ p)
    PROVE  /\ ~d => ~b /\ ~p
           /\ ~b /\ ~p => ~d
  OBVIOUS

\* Entering a call.
LEMMA EnterLemma ==
    ASSUME NEW t \in Threads, NEW c \in Calls, NEW tr, Enter(t, c, tr),
           c.phase = "in", c.res = NULL, c.rets # 0 => sets = 1
    PROVE  /\ Entered(t, c) /\ tracker' = tr
           /\ c.fn = "realloc" /\ sets = 1 => blind'
<1>1. ~blind' => ~blind /\ ~(c.fn = "realloc" /\ sets > 0)
  BY BlindLemma, Zenon DEF Enter
<1>2. /\ calls' = [calls EXCEPT ![t] = c] /\ alive /\ calls[t] = Idle
      /\ alive' = alive /\ sets' = sets /\ owned' = owned /\ hooks' = hooks /\ hw' = hw
      /\ live' = live /\ seen' = seen /\ reused' = reused /\ tracker' = tr
  BY DEF Enter
<1>3. Turn(t, c)
  BY <1>1, <1>2, Zenon DEF Turn
<1>4. Entered(t, c)
  BY <1>2, <1>3 DEF Entered
<1>5. sets = 1 => sets > 0
  OBVIOUS
<1> QED
  BY <1>1, <1>2, <1>4, <1>5, Zenon

\* The call of a thread that is in none.
LEMMA IdleLemma == /\ Idle \in Calls /\ Idle.phase = "out" /\ Idle.fn = "none" /\ Idle.ptr = NULL
                   /\ Idle.res = NULL /\ Idle.size = 0 /\ Idle.rets = 0
  BY DEF Idle, Calls, Fns, Phases, NULL

\* Entering malloc() or calloc() leaves the lists alone.
LEMMA MallocEntered ==
    ASSUME NEW t \in Threads, sets \in {0, 1}, EnterMalloc(t) \/ EnterCalloc(t)
    PROVE  \E c \in Calls : /\ Entered(t, c) /\ tracker' = Quiet
                            /\ c.fn = "malloc" /\ c.ptr = NULL
<1>1. CASE EnterMalloc(t)
  <2>1. PICK size \in 0 .. MaxSize :
            Enter(t, [Idle EXCEPT !.fn = "malloc", !.phase = "in", !.size = size, !.asked = size,
                                  !.rets = IF size = 0 THEN 0 ELSE sets], Quiet)
    BY <1>1 DEF EnterMalloc
  <2> DEFINE n == IF size = 0 THEN 0 ELSE sets
             c == [Idle EXCEPT !.fn = "malloc", !.phase = "in", !.size = size, !.asked = size,
                               !.rets = n]
  <2>0. size \in Nat /\ n \in {0, 1} /\ (n # 0 => sets = 1)
    BY Bounds
  <2>3. Enter(t, c, Quiet)
    BY <2>1
  <2> HIDE DEF n
  <2>2. /\ c \in Calls /\ c.phase = "in" /\ c.res = NULL /\ (c.rets # 0 => sets = 1)
        /\ c.fn = "malloc" /\ c.ptr = NULL
    BY <2>0, IdleLemma DEF Calls, Fns, Phases
  <2> HIDE DEF c
  <2>4. Entered(t, c) /\ tracker' = Quiet
    BY <2>2, <2>3, EnterLemma
  <2> QED
    BY <2>2, <2>4
<1>2. CASE EnterCalloc(t)
  <2>1. PICK nmemb \in 1 .. MaxSize, size \in 1 .. MaxSize :
            Enter(t, [Idle EXCEPT !.fn = "malloc", !.phase = "in", !.size = nmemb * size,
                                  !.asked = nmemb, !.rets = sets], Quiet)
    BY <1>2 DEF EnterCalloc
  <2> DEFINE m == nmemb * size
             c == [Idle EXCEPT !.fn = "malloc", !.phase = "in", !.size = m,
                               !.asked = nmemb, !.rets = sets]
  <2>0. m \in Nat /\ nmemb \in Nat
    BY Bounds
  <2>3. Enter(t, c, Quiet)
    BY <2>1
  <2> HIDE DEF m
  <2>2. /\ c \in Calls /\ c.phase = "in" /\ c.res = NULL /\ (c.rets # 0 => sets = 1)
        /\ c.fn = "malloc" /\ c.ptr = NULL
    BY <2>0, IdleLemma DEF Calls, Fns, Phases
  <2> HIDE DEF c
  <2>4. Entered(t, c) /\ tracker' = Quiet
    BY <2>2, <2>3, EnterLemma
  <2> QED
    BY <2>2, <2>4
<1> QED
  BY <1>1, <1>2

\* Entering realloc() ends the tracker's view of the heap if the command is on.
LEMMA ReallocEntered ==
    ASSUME NEW t \in Threads, sets \in {0, 1}, HeapOK(live), EnterRealloc(t)
    PROVE  \E c \in Calls : /\ Entered(t, c) /\ tracker' = Quiet /\ (sets = 1 => blind')
                            /\ c.fn = "realloc" /\ c.size > 0
                            /\ c.ptr \in DOMAIN live /\ c.ptr \notin InFlight
<1>1. PICK ptr \in DOMAIN live \ InFlight, size \in 1 .. MaxSize :
            Enter(t, [Idle EXCEPT !.fn = "realloc", !.phase = "in", !.ptr = ptr, !.size = size,
                                  !.asked = size, !.rets = sets], Quiet)
  BY DEF EnterRealloc
<1> DEFINE c == [Idle EXCEPT !.fn = "realloc", !.phase = "in", !.ptr = ptr, !.size = size,
                             !.asked = size, !.rets = sets]
<1>2. ptr \in Nat /\ size \in Nat /\ size > 0
  BY Bounds DEF HeapOK, Addr
<1>3. Enter(t, c, Quiet)
  BY <1>1
<1>4. /\ c \in Calls /\ c.phase = "in" /\ c.res = NULL /\ (c.rets # 0 => sets = 1)
      /\ c.fn = "realloc" /\ c.ptr = ptr /\ c.size > 0
  BY <1>2, IdleLemma DEF Calls, Fns, Phases
<1> HIDE DEF c
<1>5. Entered(t, c) /\ tracker' = Quiet /\ (sets = 1 => blind')
  BY <1>3, <1>4, EnterLemma
<1> QED
  BY <1>4, <1>5

\* The chunk that a call of free() takes.
Owns(ptr) ==
    /\ ptr \in DOMAIN live
    /\ \A u \in Threads : calls[u].phase = "in" /\ calls[u].size > 0 => calls[u].ptr # ptr

\* Entering free() runs the handler once if the command is on.
LEMMA FreeEntered ==
    ASSUME NEW t \in Threads, sets \in {0, 1}, HeapOK(live), EnterFree(t)
    PROVE  \E c \in Calls :
                /\ Entered(t, c) /\ c.fn = "free"
                /\ tracker' = IF sets = 0 THEN Quiet ELSE FreeEntry(Quiet, c.ptr)
                /\ c.ptr # NULL => c.ptr \in Addr /\ \A u \in Threads : calls[u].res # c.ptr
                /\ c.size = IF Owns(c.ptr) THEN live[c.ptr] ELSE 0
                /\ c.rets = IF FreeWatched(tracker, c.ptr) /\ sets > 0 THEN 1 ELSE 0
<1> DEFINE taken == {u \in Threads : calls[u].phase = "in" /\ calls[u].size > 0}
           owns(ptr) == ptr \in DOMAIN live \ {calls[u].ptr : u \in taken}
           call(ptr) == [Idle EXCEPT !.fn = "free", !.phase = "in", !.ptr = ptr,
                             !.size = IF owns(ptr) THEN live[ptr] ELSE 0,
                             !.rets = IF FreeWatched(tracker, ptr) /\ sets > 0 THEN 1 ELSE 0]
           once(ptr) == IF sets = 0 THEN Quiet ELSE FreeEntry(Quiet, ptr)
<1>1. PICK ptr \in {NULL} \cup (Addr \ {calls[u].res : u \in Threads}) :
            Enter(t, call(ptr), once(ptr))
  <2>1. PICK ptr \in {NULL} \cup (Addr \ {calls[u].res : u \in Threads}) :
            LET handler(tr) == FreeEntry(tr, ptr)
            IN  Enter(t, call(ptr), Repeat(handler, sets, Quiet))
    BY DEF EnterFree
  <2> DEFINE handler(tr) == FreeEntry(tr, ptr)
             times == CHOOSE f : f = [k \in 0 .. sets |-> IF k = 0 THEN Quiet ELSE handler(f[k - 1])]
             g == [k \in 0 .. sets |-> IF k = 0 THEN Quiet ELSE handler(Quiet)]
  <2>2. Repeat(handler, sets, Quiet) = once(ptr)
    <3>1. g = [k \in 0 .. sets |-> IF k = 0 THEN Quiet ELSE handler(g[k - 1])]
      <4> SUFFICES ASSUME NEW k \in 0 .. sets, k # 0 PROVE g[k - 1] = Quiet
        BY Zenon
      <4> QED
        OBVIOUS
    <3>2. times = [k \in 0 .. sets |-> IF k = 0 THEN Quiet ELSE handler(times[k - 1])]
      BY <3>1
    <3> HIDE DEF times
    <3>3. times[sets] = once(ptr)
      <4>1. times[0] = Quiet /\ (sets = 1 => times[1] = handler(times[0]))
        BY <3>2
      <4> QED
        BY <4>1
    <3> QED
      BY <3>3 DEF Repeat, times
  <2> HIDE DEF call, once
  <2>3. Enter(t, call(ptr), once(ptr))
    BY <2>1, <2>2 DEF Repeat
  <2> QED
    BY <2>1, <2>3
<1>2. owns(ptr) <=> Owns(ptr)
  BY DEF Owns
<1> HIDE DEF owns
<1>3. ptr \in Nat /\ (Owns(ptr) => live[ptr] \in Nat)
  BY Bounds DEF HeapOK, Addr, NULL, Owns
<1> DEFINE s == IF owns(ptr) THEN live[ptr] ELSE 0
           n == IF FreeWatched(tracker, ptr) /\ sets > 0 THEN 1 ELSE 0
           c == [Idle EXCEPT !.fn = "free", !.phase = "in", !.ptr = ptr, !.size = s, !.rets = n]
<1>4. s \in Nat /\ n \in {0, 1} /\ (n # 0 => sets = 1)
  BY <1>2, <1>3
<1>5. Enter(t, c, once(ptr))
  BY <1>1
<1> HIDE DEF s, n
<1>6. /\ c \in Calls /\ c.phase = "in" /\ c.res = NULL /\ (c.rets # 0 => sets = 1)
      /\ c.fn = "free" /\ c.ptr = ptr /\ c.size = s /\ c.rets = n
  BY <1>3, <1>4, IdleLemma DEF Calls, Fns, Phases
<1> HIDE DEF c
<1>7. Entered(t, c) /\ tracker' = once(ptr)
  <2> HIDE DEF once
  <2> QED
    BY <1>5, <1>6, EnterLemma
<1>8. ptr # NULL => ptr \in Addr /\ \A u \in Threads : calls[u].res # ptr
  <2> HIDE DEF call, once
  <2> QED
    BY <1>1
<1> QED
  BY <1>2, <1>6, <1>7, <1>8 DEF s, n

\* The allocator acts on the call of t, which becomes c.
Acted(t, c) ==
    /\ Turn(t, c) /\ calls[t].phase = "in"
    /\ c \in Calls /\ c.phase = "done" /\ c.fn = calls[t].fn /\ c.ptr = calls[t].ptr
    /\ c.size = calls[t].size /\ c.rets = calls[t].rets
    /\ tracker' = tracker /\ seen' = seen /\ reused' = reused

\* The allocator answers a call.
LEMMA ActLemma ==
    ASSUME NEW t \in Threads, NEW res \in Nat, NEW heap, calls \in [Threads -> Calls],
           Act(t, res, heap)
    PROVE  \E c \in Calls : Acted(t, c) /\ c.res = res /\ live' = heap
<1> DEFINE c == [calls[t] EXCEPT !.phase = "done", !.res = res]
<1>1. calls[t] \in Calls
  OBVIOUS
<1>2. /\ c \in Calls /\ c.phase = "done" /\ c.fn = calls[t].fn /\ c.ptr = calls[t].ptr
      /\ c.size = calls[t].size /\ c.rets = calls[t].rets /\ c.res = res
  BY <1>1 DEF Calls, Phases
<1>3. calls' = [calls EXCEPT ![t] = c]
  BY DEF Act
<1> HIDE DEF c
<1>4. /\ alive /\ calls[t].phase = "in" /\ live' = heap
      /\ alive' = alive /\ sets' = sets /\ owned' = owned /\ hooks' = hooks /\ hw' = hw
      /\ seen' = seen /\ reused' = reused /\ tracker' = tracker /\ blind' = blind
  BY DEF Act
<1>5. Turn(t, c)
  BY <1>3, <1>4, Zenon DEF Turn
<1>6. Acted(t, c)
  BY <1>2, <1>4, <1>5 DEF Acted
<1> QED
  BY <1>2, <1>4, <1>6

\* A call returns.
LEMMA MallocReturned ==
    ASSUME NEW t \in Threads, calls \in [Threads -> Calls], ReturnMalloc(t)
    PROVE  /\ Turn(t, Idle) /\ live' = live
           /\ calls[t].fn = "malloc" /\ calls[t].phase = "done"
           /\ \E header \in HeadersRead :
                tracker' = IF calls[t].rets = 0 THEN Quiet
                           ELSE MallocRet(Quiet, calls[t].res, calls[t].asked, header)
           /\ seen' = IF calls[t].rets = 1 THEN seen \cup {calls[t].res}
                      ELSE seen \ {calls[t].res}
           /\ reused' = IF calls[t].rets = 1 THEN reused \cup Block(calls[t].res, calls[t].asked)
                        ELSE reused
           /\ sets = 1 /\ ~blind' => calls[t].rets = 1 /\ calls[t].res # NULL
<1> DEFINE n == calls[t].rets
           loc == calls[t].res
           size == calls[t].asked
<1>1. n \in {0, 1}
  BY DEF Calls
<1>2. PICK header \in HeadersRead :
            LET handler(tr) == MallocRet(tr, loc, size, header)
            IN  tracker' = Repeat(handler, n, Quiet)
  BY DEF ReturnMalloc
<1>3. tracker' = IF n = 0 THEN Quiet ELSE MallocRet(Quiet, loc, size, header)
  <2> DEFINE handler(tr) == MallocRet(tr, loc, size, header)
             times == CHOOSE f : f = [k \in 0 .. n |-> IF k = 0 THEN Quiet ELSE handler(f[k - 1])]
             g == [k \in 0 .. n |-> IF k = 0 THEN Quiet ELSE handler(Quiet)]
  <2> HIDE DEF n, loc, size
  <2>1. g = [k \in 0 .. n |-> IF k = 0 THEN Quiet ELSE handler(g[k - 1])]
    <3> SUFFICES ASSUME NEW k \in 0 .. n, k # 0 PROVE g[k - 1] = Quiet
      BY Zenon
    <3> QED
      BY <1>1
  <2>2. times = [k \in 0 .. n |-> IF k = 0 THEN Quiet ELSE handler(times[k - 1])]
    BY <2>1
  <2>3. tracker' = times[n]
    BY <1>2 DEF Repeat
  <2> HIDE DEF times
  <2>4. times[0] = Quiet /\ (n = 1 => times[1] = handler(times[0]))
    BY <1>1, <2>2
  <2> QED
    BY <1>1, <2>3, <2>4
<1>4. /\ calls' = [calls EXCEPT ![t] = Idle] /\ alive /\ live' = live
      /\ calls[t].fn = "malloc" /\ calls[t].phase = "done"
      /\ alive' = alive /\ sets' = sets /\ owned' = owned /\ hooks' = hooks /\ hw' = hw
      /\ seen' = IF n > 0 THEN seen \cup {loc} ELSE seen \ {loc}
      /\ reused' = IF n > 0 THEN reused \cup Block(loc, size) ELSE reused
  BY DEF ReturnMalloc
<1>5. blind' = (blind \/ (sets > 0 /\ (n = 0 \/ loc = NULL)))
  BY DEF ReturnMalloc
<1>6. (n = 1 => n > 0) /\ (n > 0 => n = 1) /\ (sets = 1 => sets > 0)
  BY <1>1
<1>7. ~blind' => ~blind /\ ~(sets > 0 /\ (n = 0 \/ loc = NULL))
  <2> HIDE DEF n, loc
  <2> QED
    BY <1>5, BlindLemma, Zenon
<1>8. Turn(t, Idle)
  BY <1>4, <1>7, Zenon DEF Turn
<1>9. sets = 1 /\ ~blind' => n = 1 /\ loc # NULL
  <2> HIDE DEF n, loc
  <2> QED
    BY <1>1, <1>6, <1>7
<1> QED
  BY <1>3, <1>4, <1>6, <1>8, <1>9

LEMMA ReallocReturned ==
    ASSUME NEW t \in Threads, calls \in [Threads -> Calls], ReturnRealloc(t)
    PROVE  /\ Turn(t, Idle) /\ live' = live /\ seen' = seen /\ reused' = reused
           /\ calls[t].fn = "realloc" /\ calls[t].phase = "done"
           /\ tracker' = IF calls[t].rets = 0 THEN Quiet
                         ELSE ReallocRet(Quiet, calls[t].ptr, calls[t].res, calls[t].asked)
           /\ sets = 1 => blind'
<1> DEFINE n == calls[t].rets
           handler(tr) == ReallocRet(tr, calls[t].ptr, calls[t].res, calls[t].asked)
           times == CHOOSE f : f = [k \in 0 .. n |-> IF k = 0 THEN Quiet ELSE handler(f[k - 1])]
           g == [k \in 0 .. n |-> IF k = 0 THEN Quiet ELSE handler(Quiet)]
<1>1. n \in {0, 1}
  BY DEF Calls
<1>2. tracker' = times[n]
  BY DEF ReturnRealloc, Repeat
<1>3. tracker' = IF n = 0 THEN Quiet ELSE handler(Quiet)
  <2> HIDE DEF n
  <2>1. g = [k \in 0 .. n |-> IF k = 0 THEN Quiet ELSE handler(g[k - 1])]
    <3> SUFFICES ASSUME NEW k \in 0 .. n, k # 0 PROVE g[k - 1] = Quiet
      BY Zenon
    <3> QED
      BY <1>1
  <2>2. times = [k \in 0 .. n |-> IF k = 0 THEN Quiet ELSE handler(times[k - 1])]
    BY <2>1
  <2> HIDE DEF times
  <2>3. times[0] = Quiet /\ (n = 1 => times[1] = handler(times[0]))
    BY <1>1, <2>2
  <2> QED
    BY <1>1, <1>2, <2>3
<1>4. /\ calls' = [calls EXCEPT ![t] = Idle] /\ alive /\ live' = live
      /\ calls[t].fn = "realloc" /\ calls[t].phase = "done"
      /\ alive' = alive /\ sets' = sets /\ owned' = owned /\ hooks' = hooks /\ hw' = hw
      /\ seen' = seen /\ reused' = reused
  BY DEF ReturnRealloc
<1>5. blind' = (blind \/ sets > 0)
  BY DEF ReturnRealloc
<1>6. sets = 1 => sets > 0
  OBVIOUS
<1>7. ~blind' => ~blind /\ ~(sets > 0)
  BY <1>5, BlindLemma, Zenon
<1>8. Turn(t, Idle)
  BY <1>4, <1>7, Zenon DEF Turn
<1> QED
  BY <1>3, <1>4, <1>6, <1>7, <1>8, Zenon

LEMMA FreeReturned ==
    ASSUME NEW t \in Threads, calls \in [Threads -> Calls], ReturnFree(t)
    PROVE  /\ Turn(t, Idle) /\ live' = live /\ seen' = seen
           /\ calls[t].fn = "free" /\ calls[t].phase = "done"
           /\ tracker' = IF calls[t].rets = 1 THEN FreeRet(Quiet, calls[t].ptr) ELSE Quiet
           /\ reused' = IF calls[t].rets = 1 THEN reused \ {calls[t].ptr} ELSE reused
<1>1. calls[t].rets > 0 <=> calls[t].rets = 1
  BY DEF Calls
<1>2. /\ calls' = [calls EXCEPT ![t] = Idle] /\ alive /\ live' = live
      /\ calls[t].fn = "free" /\ calls[t].phase = "done"
      /\ alive' = alive /\ sets' = sets /\ owned' = owned /\ hooks' = hooks /\ hw' = hw
      /\ seen' = seen /\ blind' = blind
  BY DEF ReturnFree
<1>3. /\ tracker' = IF calls[t].rets > 0 THEN FreeRet(Quiet, calls[t].ptr) ELSE Quiet
      /\ reused' = IF calls[t].rets > 0 THEN reused \ {calls[t].ptr} ELSE reused
  BY DEF ReturnFree
<1>4. Turn(t, Idle)
  BY <1>2, Zenon DEF Turn
<1> QED
  BY <1>1, <1>2, <1>3, <1>4

\* A step of one thread keeps the calls apart if its own call stays apart.
LEMMA TurnCalls ==
    ASSUME NEW t \in Threads, NEW c \in Calls, CallsOK, Turn(t, c),
           HeapOK(live'), CallOK(c, live'),
           \A u \in Threads \ {t} : /\ CallOK(calls[u], live')
                                    /\ PairOK(c, calls[u]) /\ PairOK(calls[u], c)
    PROVE  CallsOK'
<1>1. /\ calls' \in [Threads -> Calls] /\ calls'[t] = c
      /\ \A u \in Threads \ {t} : calls'[u] = calls[u]
  BY DEF Turn, CallsOK
<1>2. \A u \in Threads : CallOK(calls'[u], live')
  BY <1>1
<1>3. \A u, v \in Threads : u # v => PairOK(calls'[u], calls'[v])
  <2> SUFFICES ASSUME NEW u \in Threads, NEW v \in Threads, u # v
               PROVE  PairOK(calls'[u], calls'[v])
    OBVIOUS
  <2>1. PairOK(calls[u], calls[v])
    BY DEF CallsOK
  <2> QED
    BY <1>1, <2>1
<1> QED
  BY <1>1, <1>2, <1>3 DEF CallsOK

\* What CallsOK says of one thread.
LEMMA CallsFacts ==
    ASSUME CallsOK, NEW t \in Threads
    PROVE  /\ HeapOK(live) /\ calls[t] \in Calls /\ calls \in [Threads -> Calls]
           /\ CallOK(calls[t], live)
           /\ \A u \in Threads \ {t} : /\ CallOK(calls[u], live) /\ calls[u] \in Calls
                                       /\ PairOK(calls[t], calls[u]) /\ PairOK(calls[u], calls[t])
  BY DEF CallsOK

\* Entering a call: the chunk it is about is in no other call.
LEMMA EnterKeepsCalls ==
    ASSUME CallsOK, sets \in {0, 1}, NEW t \in Threads,
           EnterMalloc(t) \/ EnterCalloc(t) \/ EnterRealloc(t) \/ EnterFree(t)
    PROVE  CallsOK'
<1>1. CASE EnterMalloc(t) \/ EnterCalloc(t)
  <2>1. PICK c \in Calls : Entered(t, c) /\ c.fn = "malloc" /\ c.ptr = NULL
    BY <1>1, MallocEntered
  <2>2. CallOK(c, live)
    BY <2>1 DEF Entered, CallOK
  <2>3. ASSUME NEW u \in Threads \ {t} PROVE PairOK(c, calls[u]) /\ PairOK(calls[u], c)
    BY <2>1 DEF Entered, PairOK, Takes
  <2>4. live' = live /\ Turn(t, c)
    BY <2>1 DEF Entered
  <2> QED
    BY <2>2, <2>3, <2>4, CallsFacts, TurnCalls
<1>2. CASE EnterRealloc(t)
  <2>1. PICK c \in Calls : /\ Entered(t, c) /\ c.fn = "realloc" /\ c.size > 0
                           /\ c.ptr \in DOMAIN live /\ c.ptr \notin InFlight
    BY <1>2, CallsFacts, ReallocEntered
  <2>2. c.ptr # NULL
    BY <2>1, CallsFacts DEF HeapOK, Addr, NULL
  <2>3. CallOK(c, live)
    BY <2>1, <2>2 DEF Entered, CallOK
  <2>4. ASSUME NEW u \in Threads \ {t} PROVE PairOK(c, calls[u]) /\ PairOK(calls[u], c)
    <3>1. c.ptr # calls[u].ptr /\ c.ptr # calls[u].res
      BY <2>1 DEF InFlight
    <3> QED
      BY <2>1, <2>2, <3>1 DEF Entered, PairOK, Takes
  <2>5. live' = live /\ Turn(t, c)
    BY <2>1 DEF Entered
  <2> QED
    BY <2>3, <2>4, <2>5, CallsFacts, TurnCalls
<1>3. CASE EnterFree(t)
  <2>1. PICK c \in Calls :
            /\ Entered(t, c) /\ c.fn = "free"
            /\ c.ptr # NULL => c.ptr \in Addr /\ \A u \in Threads : calls[u].res # c.ptr
            /\ c.size = IF Owns(c.ptr) THEN live[c.ptr] ELSE 0
    BY <1>3, CallsFacts, FreeEntered
  <2>2. c.size > 0 => Owns(c.ptr)
    BY <2>1
  <2>3. CallOK(c, live)
    BY <2>1, <2>2 DEF Entered, CallOK, Owns, Takes
  <2>4. ASSUME NEW u \in Threads \ {t} PROVE PairOK(c, calls[u]) /\ PairOK(calls[u], c)
    BY <2>1, <2>2 DEF Entered, PairOK, Takes, Owns
  <2>5. live' = live /\ Turn(t, c)
    BY <2>1 DEF Entered
  <2> QED
    BY <2>3, <2>4, <2>5, CallsFacts, TurnCalls
<1> QED
  BY <1>1, <1>2, <1>3

\* Returning from a call.
LEMMA ReturnKeepsCalls ==
    ASSUME CallsOK, NEW t \in Threads, ReturnMalloc(t) \/ ReturnRealloc(t) \/ ReturnFree(t)
    PROVE  CallsOK'
<1>1. Turn(t, Idle) /\ live' = live
  BY CallsFacts, MallocReturned, ReallocReturned, FreeReturned
<1>2. CallOK(Idle, live)
  BY IdleLemma DEF CallOK
<1>3. ASSUME NEW u \in Threads \ {t} PROVE PairOK(Idle, calls[u]) /\ PairOK(calls[u], Idle)
  BY IdleLemma DEF PairOK, Takes
<1> QED
  BY <1>1, <1>2, <1>3, IdleLemma, CallsFacts, TurnCalls

\* A new chunk next to chunks that do not overlap.
LEMMA NewChunk ==
    ASSUME NEW heap, HeapOK(heap), NEW size \in Nat \ {0}, NEW used, NEW a \in Room(size, used),
           \A b \in DOMAIN heap : Block(b, heap[b]) \subseteq used
    PROVE  /\ a \in Addr /\ a \notin DOMAIN heap /\ HeapOK(With(heap, a, size))
           /\ DOMAIN With(heap, a, size) = DOMAIN heap \cup {a}
<1> DEFINE h == With(heap, a, size)
<1>1. a \in Addr /\ \A x \in Block(a, size) : x \notin used
  BY DEF Room
<1>2. a \in Int /\ DOMAIN heap \subseteq Int /\ Addr \subseteq Int
  BY Bounds, <1>1 DEF Addr, HeapOK
<1>3. \A b \in DOMAIN heap : heap[b] \in Nat \ {0} /\ b \in Int
  BY <1>2 DEF HeapOK
<1>4. ASSUME NEW b \in DOMAIN heap PROVE (b <= a => b + heap[b] <= a) /\ (a <= b => a + size <= b)
  <2>1. a \notin Block(b, heap[b]) /\ b \notin Block(a, size)
    <3>1. a \in Block(a, size) /\ b \in Block(b, heap[b])
      BY <1>2, <1>3 DEF Block
    <3> QED
      BY <1>1, <3>1
  <2> QED
    BY <1>2, <1>3, <2>1 DEF Block
<1>5. a \notin DOMAIN heap
  BY <1>2, <1>3, <1>4
<1>6. /\ DOMAIN h = DOMAIN heap \cup {a} /\ h[a] = size
      /\ \A b \in DOMAIN heap : h[b] = heap[b]
  BY <1>5 DEF With
<1> HIDE DEF h
<1>7. HeapOK(h)
  <2>1. DOMAIN h \subseteq Addr /\ \A b \in DOMAIN h : h[b] \in Nat \ {0}
    BY <1>1, <1>3, <1>6 DEF HeapOK
  <2>2. ASSUME NEW b \in DOMAIN h, NEW d \in DOMAIN h, b < d PROVE b + h[b] <= d
    <3>1. CASE b = a
      BY <1>2, <1>4, <1>6, <2>2, <3>1
    <3>2. CASE b # a /\ d = a
      BY <1>2, <1>4, <1>6, <2>2, <3>2
    <3>3. CASE b # a /\ d # a
      BY <1>6, <2>2, <3>3 DEF HeapOK
    <3> QED
      BY <3>1, <3>2, <3>3
  <2> QED
    BY <2>1, <2>2 DEF HeapOK
<1> QED
  BY <1>1, <1>5, <1>6, <1>7 DEF h

\* A chunk less.
LEMMA LessChunk ==
    ASSUME NEW heap, HeapOK(heap), NEW a
    PROVE  HeapOK(Without(heap, a)) /\ DOMAIN Without(heap, a) = DOMAIN heap \ {a}
           /\ \A b \in DOMAIN heap \ {a} : Without(heap, a)[b] = heap[b]
  BY DEF HeapOK, Without

\* The allocator hands out a free block or takes the chunk of the call.
LEMMA ActKeepsCalls ==
    ASSUME CallsOK, NEW t \in Threads, ActMalloc(t) \/ ActRealloc(t) \/ ActFree(t)
    PROVE  /\ CallsOK'
           /\ \E c \in Calls : 
                /\ Acted(t, c)
                /\ \/ /\ c.fn \in {"malloc", "realloc"} /\ c.res = NULL /\ live' = live
                   \/ /\ c.fn = "malloc" /\ c.res \in Addr \ DOMAIN live
                      /\ DOMAIN live' = DOMAIN live \cup {c.res}
                   \/ /\ c.fn = "realloc" /\ c.res \in Addr \ (DOMAIN live \ {c.ptr})
                      /\ DOMAIN live' = (DOMAIN live \ {c.ptr}) \cup {c.res}
                   \/ /\ c.fn = "free" /\ c.res = NULL
                      /\ DOMAIN live' = IF c.size > 0 THEN DOMAIN live \ {c.ptr} ELSE DOMAIN live
<1> DEFINE d == calls[t]
<1>0. /\ HeapOK(live) /\ d \in Calls /\ calls \in [Threads -> Calls] /\ CallOK(d, live)
      /\ d.size \in Nat /\ d.ptr \in Nat
  BY CallsFacts DEF Calls
<1>a. NULL \in Nat /\ NULL \notin Addr /\ Addr \subseteq Nat
  BY Bounds DEF NULL, Addr
<1> HIDE DEF d
<1>1. ASSUME NEW c \in Calls, Acted(t, c), c.res = NULL, live' = live PROVE CallsOK'
  <2>1. CallOK(c, live) /\ Turn(t, c)
    <3>1. d.phase = "in" /\ d.fn # "none"
      BY <1>0, <1>1, IdleLemma DEF CallOK, Acted, d
    <3> QED
      BY <1>0, <1>1, <3>1 DEF CallOK, Acted, Takes, d
  <2>2. ASSUME NEW u \in Threads \ {t} PROVE PairOK(c, calls[u]) /\ PairOK(calls[u], c)
    BY <1>1, CallsFacts DEF PairOK, Acted, Takes
  <2> QED
    BY <1>0, <1>1, <2>1, <2>2, CallsFacts, TurnCalls
<1>2. CASE ActMalloc(t)
  <2> DEFINE size == Max1(d.size)
  <2>1. d.fn = "malloc" /\ (Act(t, NULL, live) \/ \E a \in Room(size, Used) : Act(t, a, With(live, a, size)))
    BY <1>2 DEF ActMalloc, d
  <2>2. CASE Act(t, NULL, live)
    <3>1. PICK c \in Calls : Acted(t, c) /\ c.res = NULL /\ live' = live
      BY <1>0, <1>a, <2>2, ActLemma
    <3>2. c.fn = "malloc"
      BY <2>1, <3>1 DEF Acted, d
    <3> QED
      BY <1>1, <3>1, <3>2
  <2>3. CASE \E a \in Room(size, Used) : Act(t, a, With(live, a, size))
    <3>1. PICK a \in Room(size, Used) : Act(t, a, With(live, a, size))
      BY <2>3
    <3>2. size \in Nat \ {0}
      BY <1>0 DEF Max1
    <3> HIDE DEF size
    <3>3. \A b \in DOMAIN live : Block(b, live[b]) \subseteq Used
      BY DEF Used
    <3>4. /\ a \in Addr /\ a \notin DOMAIN live /\ HeapOK(With(live, a, size))
          /\ DOMAIN With(live, a, size) = DOMAIN live \cup {a}
      BY <1>0, <3>1, <3>2, <3>3, NewChunk
    <3>5. a \in Nat
      BY <1>a, <3>4
    <3>6. PICK c \in Calls : Acted(t, c) /\ c.res = a /\ live' = With(live, a, size)
      BY <1>0, <3>1, <3>5, ActLemma
    <3>7. c.fn = "malloc" /\ c.phase = "done" /\ c.ptr = d.ptr /\ Turn(t, c)
      BY <2>1, <3>6 DEF Acted, d
    <3>8. HeapOK(live') /\ DOMAIN live' = DOMAIN live \cup {a}
      BY <3>4, <3>6
    <3>9. CallOK(c, live')
      BY <1>0, <2>1, <3>6, <3>7, <3>8 DEF CallOK, Takes
    <3>10. ASSUME NEW u \in Threads \ {t}
           PROVE  CallOK(calls[u], live') /\ PairOK(c, calls[u]) /\ PairOK(calls[u], c)
      <4>1. CallOK(calls[u], live) /\ calls[u] \in Calls /\ PairOK(calls[u], d)
        BY CallsFacts DEF d
      <4>2. CallOK(calls[u], live')
        BY <3>8, <4>1 DEF CallOK
      <4>3. PairOK(c, calls[u])
        BY <1>a, <3>4, <3>6, <3>7, <4>1 DEF CallOK, PairOK, Takes
      <4>4. PairOK(calls[u], c)
        BY <1>a, <3>4, <3>6, <3>7, <4>1 DEF CallOK, PairOK, Takes
      <4> QED
        BY <4>2, <4>3, <4>4
    <3>11. CallsOK'
      BY <3>7, <3>8, <3>9, <3>10, TurnCalls
    <3> QED
      BY <3>4, <3>6, <3>7, <3>8, <3>11
  <2> QED
    BY <2>1, <2>2, <2>3
<1>3. CASE ActRealloc(t)
  <2> DEFINE rest == Without(live, d.ptr)
             used == Used \ Block(d.ptr, live[d.ptr])
  <2>1. /\ d.fn = "realloc" /\ d.phase = "in"
        /\ Act(t, NULL, live) \/ \E a \in Room(d.size, used) : Act(t, a, With(rest, a, d.size))
    BY <1>3 DEF ActRealloc, d
  <2>2. CASE Act(t, NULL, live)
    <3>1. PICK c \in Calls : Acted(t, c) /\ c.res = NULL /\ live' = live
      BY <1>0, <1>a, <2>2, ActLemma
    <3>2. c.fn = "realloc"
      BY <2>1, <3>1 DEF Acted, d
    <3> QED
      BY <1>1, <3>1, <3>2
  <2>3. CASE \E a \in Room(d.size, used) : Act(t, a, With(rest, a, d.size))
    <3>1. PICK a \in Room(d.size, used) : Act(t, a, With(rest, a, d.size))
      BY <2>3
    <3>2. d.size \in Nat \ {0} /\ d.ptr # NULL /\ d.ptr \in DOMAIN live /\ Takes(d, d.ptr)
      BY <1>0, <2>1 DEF CallOK, Takes
    <3>3. /\ HeapOK(rest) /\ DOMAIN rest = DOMAIN live \ {d.ptr}
          /\ \A b \in DOMAIN rest : rest[b] = live[b]
      BY <1>0, LessChunk
    <3>4. \A b \in DOMAIN rest : Block(b, rest[b]) \subseteq used
      <4> SUFFICES ASSUME NEW b \in DOMAIN live, b # d.ptr,
                          NEW x \in Block(b, live[b])
                   PROVE  x \in Used /\ x \notin Block(d.ptr, live[d.ptr])
        BY <3>3
      <4>1. x \in Used
        BY DEF Used
      <4>2. /\ b \in Int /\ live[b] \in Int /\ d.ptr \in Int /\ live[d.ptr] \in Int
            /\ b < d.ptr => b + live[b] <= d.ptr
            /\ d.ptr < b => d.ptr + live[d.ptr] <= b
        <5> DEFINE p == d.ptr
        <5>1. p \in DOMAIN live
          BY <3>2
        <5> HIDE DEF p
        <5>2. b \in Nat /\ p \in Nat /\ live[b] \in Nat /\ live[p] \in Nat /\ b # p
          BY <1>0, <1>a, <5>1 DEF HeapOK, p
        <5>3. (b < p => b + live[b] <= p) /\ (p < b => p + live[p] <= b)
          BY <1>0, <5>1 DEF HeapOK
        <5> QED
          BY <5>2, <5>3 DEF p
      <4>3. x \notin Block(d.ptr, live[d.ptr])
        BY <4>2 DEF Block
      <4> QED
        BY <4>1, <4>3
    <3> HIDE DEF rest, used
    <3>5. /\ a \in Addr /\ a \notin DOMAIN rest /\ HeapOK(With(rest, a, d.size))
          /\ DOMAIN With(rest, a, d.size) = DOMAIN rest \cup {a}
      <4> DEFINE s == d.size
      <4>1. s \in Nat \ {0} /\ a \in Room(s, used)
        BY <3>1, <3>2
      <4> HIDE DEF s
      <4>2. /\ a \in Addr /\ a \notin DOMAIN rest /\ HeapOK(With(rest, a, s))
            /\ DOMAIN With(rest, a, s) = DOMAIN rest \cup {a}
        BY <3>3, <3>4, <4>1, NewChunk
      <4> QED
        BY <4>2 DEF s
    <3>6. a \in Nat
      BY <1>a, <3>5
    <3>7. PICK c \in Calls : Acted(t, c) /\ c.res = a /\ live' = With(rest, a, d.size)
      BY <1>0, <3>1, <3>6, ActLemma
    <3>8. c.fn = "realloc" /\ c.phase = "done" /\ c.ptr = d.ptr /\ c.size = d.size /\ Turn(t, c)
      BY <2>1, <3>7 DEF Acted, d
    <3>9. HeapOK(live') /\ DOMAIN live' = (DOMAIN live \ {d.ptr}) \cup {a}
      BY <3>3, <3>5, <3>7
    <3>10. CallOK(c, live')
      BY <3>2, <3>7, <3>8, <3>9 DEF CallOK, Takes
    <3>11. ASSUME NEW u \in Threads \ {t}
           PROVE  CallOK(calls[u], live') /\ PairOK(c, calls[u]) /\ PairOK(calls[u], c)
      <4>1. CallOK(calls[u], live) /\ calls[u] \in Calls /\ PairOK(d, calls[u])
        BY CallsFacts DEF d
      <4>2. calls[u].res # d.ptr /\ ~Takes(calls[u], d.ptr)
        BY <3>2, <4>1 DEF PairOK
      <4>3. CallOK(calls[u], live')
        BY <3>9, <4>1, <4>2 DEF CallOK, Takes
      <4>4. PairOK(c, calls[u])
        BY <1>a, <3>3, <3>5, <3>7, <3>8, <4>1, <4>2 DEF CallOK, PairOK, Takes
      <4>5. PairOK(calls[u], c)
        BY <1>a, <3>3, <3>5, <3>7, <3>8, <4>1, <4>2 DEF CallOK, PairOK, Takes
      <4> QED
        BY <4>3, <4>4, <4>5
    <3>12. CallsOK'
      BY <3>8, <3>9, <3>10, <3>11, TurnCalls
    <3> QED
      BY <3>3, <3>5, <3>7, <3>8, <3>9, <3>12
  <2> QED
    BY <2>1, <2>2, <2>3
<1>4. CASE ActFree(t)
  <2> DEFINE heap == IF d.size > 0 THEN Without(live, d.ptr) ELSE live
  <2>1. d.fn = "free" /\ Act(t, NULL, heap)
    BY <1>4 DEF ActFree, d
  <2>2. HeapOK(heap) /\ DOMAIN heap = IF d.size > 0 THEN DOMAIN live \ {d.ptr} ELSE DOMAIN live
    BY <1>0, LessChunk
  <2> HIDE DEF heap
  <2>3. PICK c \in Calls : Acted(t, c) /\ c.res = NULL /\ live' = heap
    BY <1>0, <1>a, <2>1, ActLemma
  <2>4. /\ c.fn = "free" /\ c.phase = "done" /\ c.ptr = d.ptr /\ c.size = d.size /\ Turn(t, c)
        /\ d.phase = "in"
    BY <2>1, <2>3 DEF Acted, d
  <2>5. CallOK(c, live')
    BY <2>3, <2>4 DEF CallOK, Takes
  <2>6. ASSUME NEW u \in Threads \ {t}
        PROVE  CallOK(calls[u], live') /\ PairOK(c, calls[u]) /\ PairOK(calls[u], c)
    <3>1. /\ CallOK(calls[u], live) /\ calls[u] \in Calls /\ PairOK(d, calls[u])
          /\ PairOK(calls[u], d)
      BY CallsFacts DEF d
    <3>2. d.size > 0 /\ d.ptr # NULL => calls[u].res # d.ptr /\ ~Takes(calls[u], d.ptr)
      BY <2>4, <3>1 DEF PairOK, Takes
    <3>3. CallOK(calls[u], live')
      BY <2>2, <2>3, <3>1, <3>2 DEF CallOK, Takes
    <3>4. PairOK(c, calls[u]) /\ PairOK(calls[u], c)
      BY <2>3, <2>4 DEF PairOK, Takes
    <3> QED
      BY <3>3, <3>4
  <2>7. CallsOK'
    BY <2>2, <2>3, <2>4, <2>5, <2>6, TurnCalls
  <2>8. DOMAIN live' = IF c.size > 0 THEN DOMAIN live \ {c.ptr} ELSE DOMAIN live
    BY <2>2, <2>3, <2>4
  <2> QED
    BY <2>3, <2>4, <2>7, <2>8
<1> QED
  BY <1>2, <1>3, <1>4

\* Starting to handle a call clears the report and nothing else.
LEMMA QuietLemma ==
    ASSUME tracker \in Trackers
    PROVE  /\ Quiet \in Trackers /\ Quiet.alloc = tracker.alloc /\ Quiet.freed = tracker.freed
           /\ Quiet.wps = tracker.wps /\ (tracker = NoChunks => Quiet = NoChunks)
<1>1. "none" \in Reports
  BY DEF Reports
<1>2. /\ Quiet \in Trackers /\ Quiet.alloc = tracker.alloc /\ Quiet.freed = tracker.freed
      /\ Quiet.wps = tracker.wps
  BY <1>1 DEF Quiet, Trackers
<1>3. tracker = NoChunks => Quiet = NoChunks
  BY DEF Quiet, NoChunks
<1> QED
  BY <1>2, <1>3

\* A step of one thread leaves the command alone.
LEMMA TurnCommand ==
    ASSUME NEW t \in Threads, NEW c \in Calls, CommandOK, calls \in [Threads -> Calls],
           Turn(t, c), c.rets # 0 => sets = 1, tracker' \in Trackers,
           sets = 0 => tracker' = tracker /\ seen' = {}
    PROVE  CommandOK'
<1>1. /\ sets' = sets /\ alive /\ alive' = alive /\ hooks' = hooks /\ owned' = owned /\ hw' = hw
      /\ \A u \in Threads \ {t} : calls'[u] = calls[u]
      /\ calls'[t] = c
  BY DEF Turn
<1>2. c.rets # 0 => c.rets = 1
  BY DEF Calls
<1>3. sets = 0 => \A u \in Threads : calls'[u].rets = 0
  BY <1>1, <1>2 DEF CommandOK
<1>4. sets' \in {0, 1} /\ alive'
  BY <1>1, Zenon DEF CommandOK
<1>5. sets' = 0 => /\ tracker' = NoChunks /\ seen' = {} /\ hooks' = 0 /\ ~owned' /\ hw'
                   /\ \A u \in Threads : calls'[u].rets = 0
  BY <1>1, <1>3, Zenon DEF CommandOK
<1>6. sets' = 1 => alive' /\ hooks' = 1 /\ owned'
  BY <1>1, Zenon DEF CommandOK
<1> QED
  BY <1>4, <1>5, <1>6, Zenon DEF CommandOK

LEMMA EnterKeepsCommand ==
    ASSUME CallsOK, CommandOK, NEW t \in Threads,
           EnterMalloc(t) \/ EnterCalloc(t) \/ EnterRealloc(t) \/ EnterFree(t)
    PROVE  CommandOK'
<1>1. sets \in {0, 1} /\ tracker \in Trackers /\ (sets = 0 => tracker = NoChunks /\ seen = {})
      /\ HeapOK(live) /\ calls \in [Threads -> Calls]
  BY DEF CommandOK, CallsOK
<1>2. PICK c \in Calls : /\ Entered(t, c)
                         /\ \/ tracker' = Quiet
                            \/ tracker' = IF sets = 0 THEN Quiet ELSE FreeEntry(Quiet, c.ptr)
  BY <1>1, MallocEntered, ReallocEntered, FreeEntered
<1>3. c.ptr \in Nat
  BY <1>2 DEF Calls
<1>4. FreeEntry(Quiet, c.ptr) \in Trackers
  BY <1>1, <1>3, QuietLemma, FreeEntryLemma
<1>5. tracker' \in Trackers /\ (sets = 0 => tracker' = tracker /\ seen' = {})
  BY <1>1, <1>2, <1>4, QuietLemma DEF Entered
<1> QED
  BY <1>1, <1>2, <1>5, TurnCommand DEF Entered

LEMMA ActKeepsCommand ==
    ASSUME CommandOK, calls \in [Threads -> Calls], NEW t \in Threads, NEW c \in Calls,
           Acted(t, c)
    PROVE  CommandOK'
<1>1. sets \in {0, 1} /\ tracker \in Trackers /\ (sets = 0 => calls[t].rets = 0 /\ seen = {})
  BY DEF CommandOK
<1> QED
  BY <1>1, TurnCommand DEF Acted

LEMMA ReturnKeepsCommand ==
    ASSUME CallsOK, CommandOK, NEW t \in Threads,
           ReturnMalloc(t) \/ ReturnRealloc(t) \/ ReturnFree(t)
    PROVE  CommandOK'
<1>1. /\ sets \in {0, 1} /\ tracker \in Trackers
      /\ sets = 0 => tracker = NoChunks /\ seen = {} /\ calls[t].rets = 0
      /\ calls \in [Threads -> Calls]
  BY DEF CommandOK, CallsOK
<1>2. /\ calls[t].ptr \in Nat /\ calls[t].res \in Nat /\ calls[t].asked \in Nat
      /\ calls[t].rets \in {0, 1}
  BY <1>1 DEF Calls
<1>3. Turn(t, Idle) /\ tracker' \in Trackers /\ (sets = 0 => tracker' = tracker /\ seen' = {})
  <2>1. CASE ReturnMalloc(t)
    <3>1. PICK header : tracker' = IF calls[t].rets = 0 THEN Quiet
                           ELSE MallocRet(Quiet, calls[t].res, calls[t].asked, header)
      BY <1>1, <2>1, MallocReturned
    <3>2. MallocRet(Quiet, calls[t].res, calls[t].asked, header) \in Trackers
      BY <1>1, <1>2, QuietLemma, MallocRetLemma
    <3>3. tracker' \in Trackers /\ (sets = 0 => tracker' = tracker)
      BY <1>1, <3>1, <3>2, QuietLemma
    <3>4. Turn(t, Idle) /\ (sets = 0 => seen' = {})
      BY <1>1, <2>1, MallocReturned
    <3> QED
      BY <3>3, <3>4
  <2>2. CASE ReturnRealloc(t)
    <3>1. ReallocRet(Quiet, calls[t].ptr, calls[t].res, calls[t].asked) \in Trackers
      BY <1>1, <1>2, QuietLemma, ReallocRetLemma
    <3> QED
      BY <1>1, <2>2, <3>1, QuietLemma, ReallocReturned
  <2>3. CASE ReturnFree(t)
    <3>1. FreeRet(Quiet, calls[t].ptr) \in Trackers
      <4>1. Quiet \in Trackers /\ Append(Quiet.wps, calls[t].ptr) \in Seq(Nat)
        BY <1>1, <1>2, QuietLemma, TrackerLemma
      <4> QED
        BY <4>1 DEF FreeRet, Trackers
    <3> QED
      BY <1>1, <2>3, <3>1, QuietLemma, FreeReturned
  <2> QED
    BY <2>1, <2>2, <2>3
<1> QED
  BY <1>1, <1>3, IdleLemma, TurnCommand

-----------------------------------------------------------------------------
\* The calls of the other threads.
FreeingBut(t, a) == \E u \in Threads \ {t} : calls[u].fn = "free" /\ Takes(calls[u], a)
PendingBut(t, a) == \E u \in Threads \ {t} : calls[u].res = a
\* The call c is a free() that takes a.
FreesCall(c, a) == c.fn = "free" /\ Takes(c, a)

\* Freeing and Pending before and after a step of t.
LEMMA TurnFreeing ==
    ASSUME NEW t \in Threads, NEW c \in Calls, calls \in [Threads -> Calls], Turn(t, c), NEW a
    PROVE  /\ Freeing(a)' <=> (FreesCall(c, a) \/ FreeingBut(t, a))
           /\ Freeing(a) <=> (FreesCall(calls[t], a) \/ FreeingBut(t, a))
           /\ Pending(a)' <=> (c.res = a \/ PendingBut(t, a))
           /\ Pending(a) <=> (calls[t].res = a \/ PendingBut(t, a))
<1>1. calls'[t] = c /\ \A u \in Threads \ {t} : calls'[u] = calls[u]
  BY DEF Turn
<1> QED
  BY <1>1 DEF Freeing, Pending, FreeingBut, PendingBut, FreesCall

LEMMA TurnRealloc ==
    ASSUME NEW t \in Threads, NEW c \in Calls, calls \in [Threads -> Calls], Turn(t, c),
           ~(c.fn = "realloc" /\ c.phase = "in"), ReallocUnseen, seen' = seen
    PROVE  ReallocUnseen'
<1>1. calls'[t] = c /\ \A u \in Threads \ {t} : calls'[u] = calls[u]
  BY DEF Turn
<1> QED
  BY <1>1 DEF ReallocUnseen

\* A step that touches neither the lists nor what they stand for.
LEMMA SameLists ==
    ASSUME Lists, tracker'.alloc = tracker.alloc, tracker'.freed = tracker.freed,
           \A a \in Addr : (InUse(a)' <=> InUse(a)) /\ (GivenBack(a)' <=> GivenBack(a)),
           ReallocUnseen'
    PROVE  Lists'
  BY DEF Lists

\* The lists when a call is entered: free() moves a chunk it takes, and reports
\* the address of any other.
LEMMA EnterKeepsLists ==
    ASSUME CallsOK, CommandOK, ListsOK, NEW t \in Threads,
           EnterMalloc(t) \/ EnterCalloc(t) \/ EnterRealloc(t) \/ EnterFree(t)
    PROVE  ListsOK'
<1>1. /\ sets \in {0, 1} /\ tracker \in Trackers
      /\ HeapOK(live) /\ calls \in [Threads -> Calls]
  BY DEF CommandOK, CallsOK
<1>2. Addr \subseteq Nat /\ NULL \notin Addr
  BY Bounds DEF Addr, NULL
<1>3. CASE EnterMalloc(t) \/ EnterCalloc(t)
  <2>1. PICK c \in Calls : Entered(t, c) /\ tracker' = Quiet /\ c.fn = "malloc"
    BY <1>1, <1>3, MallocEntered
  <2> SUFFICES ASSUME sets' = 1, ~blind' PROVE Lists'
    BY DEF ListsOK
  <2>2. Lists /\ Turn(t, c) /\ live' = live /\ seen' = seen /\ c.res = NULL /\ calls[t] = Idle
    BY <2>1, Zenon DEF ListsOK, Entered, Turn
  <2>3. ASSUME NEW a \in Addr PROVE (InUse(a)' <=> InUse(a)) /\ (GivenBack(a)' <=> GivenBack(a))
    <3>1. (Freeing(a)' <=> Freeing(a)) /\ (Pending(a)' <=> Pending(a))
      BY <1>1, <1>2, <2>1, <2>2, TurnFreeing, IdleLemma DEF FreesCall
    <3> QED
      BY <2>2, <3>1 DEF InUse, GivenBack
  <2>4. tracker'.alloc = tracker.alloc /\ tracker'.freed = tracker.freed
    BY <1>1, <2>1, QuietLemma
  <2>5. ReallocUnseen'
    BY <1>1, <2>1, <2>2, TurnRealloc DEF Lists
  <2> QED
    BY <2>2, <2>3, <2>4, <2>5, SameLists
<1>4. CASE EnterRealloc(t)
  <2>1. PICK c \in Calls : Entered(t, c) /\ (sets = 1 => blind')
    BY <1>1, <1>4, ReallocEntered
  <2>2. sets' = sets
    BY <2>1 DEF Entered, Turn
  <2> QED
    BY <2>1, <2>2, Zenon DEF ListsOK
<1>5. CASE EnterFree(t)
  <2>1. PICK c \in Calls :
                /\ Entered(t, c) /\ c.fn = "free"
                /\ tracker' = IF sets = 0 THEN Quiet ELSE FreeEntry(Quiet, c.ptr)
                /\ c.ptr # NULL => c.ptr \in Addr /\ \A u \in Threads : calls[u].res # c.ptr
                /\ c.size = IF Owns(c.ptr) THEN live[c.ptr] ELSE 0
    BY <1>1, <1>5, FreeEntered
  <2> DEFINE p == c.ptr
  <2> SUFFICES ASSUME sets' = 1, ~blind' PROVE Lists'
    BY DEF ListsOK
  <2>2. /\ Lists /\ Turn(t, c) /\ live' = live /\ seen' = seen /\ c.res = NULL /\ calls[t] = Idle
        /\ sets = 1 /\ c.phase = "in"
    BY <2>1, Zenon DEF ListsOK, Entered, Turn
  <2>3. tracker' = FreeEntry(Quiet, p) /\ p \in Nat
    BY <2>1, <2>2 DEF Calls
  <2>4. ReallocUnseen'
    BY <1>1, <2>1, <2>2, TurnRealloc DEF Lists
  <2>5. Quiet \in Trackers /\ Quiet.alloc = tracker.alloc /\ Quiet.freed = tracker.freed
    BY <1>1, QuietLemma
  <2>6. ASSUME NEW a \in Addr
        PROVE  /\ Pending(a)' <=> Pending(a)
               /\ Freeing(a)' <=> Freeing(a) \/ (a = p /\ Owns(p))
    <3>1. /\ Pending(a)' <=> Pending(a)
          /\ Freeing(a)' <=> Freeing(a) \/ FreesCall(c, a)
      BY <1>1, <1>2, <2>1, <2>2, TurnFreeing, IdleLemma DEF FreesCall, Takes
    <3>2. Owns(p) => live[p] \in Nat \ {0}
      BY <1>1 DEF Owns, HeapOK
    <3>3. c.size > 0 <=> Owns(p)
      BY <2>1, <3>2
    <3>4. FreesCall(c, a) <=> (a = p /\ Owns(p))
      BY <2>1, <2>2, <3>3 DEF FreesCall, Takes
    <3> QED
      BY <3>1, <3>4
  <2>7. Owns(p) => p \in DOMAIN live /\ p \in Addr /\ ~Freeing(p) /\ ~Pending(p)
    <3>1. Owns(p) => p \in Addr
      BY <1>1 DEF Owns, HeapOK
    <3>2. Owns(p) => ~Freeing(p)
      BY DEF Owns, Freeing, Takes
    <3> QED
      BY <1>2, <2>1, <3>1, <3>2 DEF Owns, Pending
  <2> HIDE DEF p
  <2>8. CASE ~Frees(Quiet, p)
    <3>1. tracker'.alloc = tracker.alloc /\ tracker'.freed = tracker.freed
      BY <2>3, <2>5, <2>8, FreeEntryLemma
    <3>2. Owns(p) => p \notin seen
      <4>1. SUFFICES ASSUME Owns(p), p \in seen PROVE FALSE
        OBVIOUS
      <4>2. InUse(p) /\ ~GivenBack(p) /\ p \in Addr
        BY <2>7, <4>1 DEF InUse, GivenBack
      <4>3. p \in Addresses(tracker.alloc) /\ p \notin Addresses(tracker.freed)
        BY <2>2, <4>2 DEF Lists
      <4> QED
        BY <1>2, <2>5, <2>8, <4>2, <4>3 DEF Frees
    <3>3. ASSUME NEW a \in Addr PROVE (InUse(a)' <=> InUse(a)) /\ (GivenBack(a)' <=> GivenBack(a))
      BY <2>2, <2>6, <3>2 DEF InUse, GivenBack
    <3> QED
      BY <2>2, <2>4, <3>1, <3>3, SameLists
  <2>9. CASE Frees(Quiet, p)
    <3>1. /\ Distinct(tracker.alloc) /\ Distinct(tracker.freed)
          /\ Addresses(tracker.alloc) \subseteq Addr
          /\ p \in Addresses(tracker.alloc)
      BY <2>2, <2>5, <2>9 DEF Lists, Frees
    <3>2. /\ Distinct(tracker'.alloc) /\ Distinct(tracker'.freed)
          /\ Addresses(tracker'.freed) = Addresses(tracker.freed) \cup {p}
          /\ Addresses(tracker'.alloc) = Addresses(tracker.alloc) \ {p}
      BY <2>3, <2>5, <2>9, <3>1, FreeEntryLemma
    <3>3. p \in Addr /\ InUse(p)
      BY <2>2, <3>1 DEF Lists
    <3>4. Owns(p)
      <4> SUFFICES ASSUME NEW u \in Threads, calls[u].phase = "in", calls[u].size > 0
                   PROVE  calls[u].ptr # p
        BY <3>3 DEF Owns, InUse
      <4>1. calls[u] \in Calls /\ CallOK(calls[u], live)
        BY <1>1 DEF CallsOK
      <4>2. calls[u].fn = "malloc" => calls[u].ptr = NULL
        BY <4>1 DEF CallOK
      <4>3. calls[u].fn # "none"
        BY <4>1, IdleLemma DEF CallOK
      <4>4. calls[u].fn = "realloc" => calls[u].ptr # p
        BY <2>2, <3>3 DEF Lists, ReallocUnseen, InUse
      <4>5. calls[u].fn = "free" => calls[u].ptr # p
        BY <3>3 DEF InUse, Freeing, Takes
      <4>6. calls[u].fn \in {"none", "malloc", "realloc", "free"}
        BY <4>1 DEF Calls, Fns
      <4> QED
        BY <1>2, <3>3, <4>2, <4>3, <4>4, <4>5, <4>6
    <3>5. ASSUME NEW a \in Addr
          PROVE  /\ a \in Addresses(tracker'.alloc) <=> InUse(a)'
                 /\ a \in Addresses(tracker'.freed) <=> GivenBack(a)'
      <4>1. /\ a \in Addresses(tracker.alloc) <=> InUse(a)
            /\ a \in Addresses(tracker.freed) <=> GivenBack(a)
        BY <2>2 DEF Lists
      <4>2. (InUse(a)' <=> InUse(a) /\ a # p) /\ (GivenBack(a)' <=> GivenBack(a) \/ a = p)
        BY <2>2, <2>6, <3>3, <3>4 DEF InUse, GivenBack
      <4> QED
        BY <3>2, <4>1, <4>2
    <3> QED
      BY <2>4, <3>1, <3>2, <3>5 DEF Lists
  <2> QED
    BY <2>8, <2>9
<1> QED
  BY <1>3, <1>4, <1>5

\* The lists when the allocator acts: what it gives away is pending until the
\* return, what it takes was moved before.
LEMMA ActKeepsLists ==
    ASSUME CallsOK, CommandOK, ListsOK, NEW t \in Threads,
           ActMalloc(t) \/ ActRealloc(t) \/ ActFree(t)
    PROVE  ListsOK'
<1>1. PICK c \in Calls :
        /\ Acted(t, c)
        /\ \/ /\ c.fn \in {"malloc", "realloc"} /\ c.res = NULL /\ live' = live
           \/ /\ c.fn = "malloc" /\ c.res \in Addr \ DOMAIN live
              /\ DOMAIN live' = DOMAIN live \cup {c.res}
           \/ /\ c.fn = "realloc" /\ c.res \in Addr \ (DOMAIN live \ {c.ptr})
              /\ DOMAIN live' = (DOMAIN live \ {c.ptr}) \cup {c.res}
           \/ /\ c.fn = "free" /\ c.res = NULL
              /\ DOMAIN live' = IF c.size > 0 THEN DOMAIN live \ {c.ptr} ELSE DOMAIN live
  BY ActKeepsCalls
<1> SUFFICES ASSUME sets' = 1, ~blind' PROVE Lists'
  BY DEF ListsOK
<1>2. /\ Lists /\ Turn(t, c) /\ seen' = seen /\ tracker' = tracker /\ c.phase = "done"
      /\ calls[t].phase = "in" /\ c.fn = calls[t].fn /\ c.ptr = calls[t].ptr
      /\ c.size = calls[t].size
  BY <1>1, Zenon DEF ListsOK, Acted, Turn
<1>3. /\ calls \in [Threads -> Calls] /\ CallOK(calls[t], live) /\ calls[t].res = NULL
      /\ Addr \subseteq Nat /\ NULL \notin Addr
  BY <1>2, Bounds, CallsFacts DEF CallOK, Addr, NULL
<1>4. ReallocUnseen'
  BY <1>2, <1>3, TurnRealloc DEF Lists
<1>5. ASSUME NEW a \in Addr PROVE (InUse(a)' <=> InUse(a)) /\ (GivenBack(a)' <=> GivenBack(a))
  <2>1. /\ Freeing(a)' <=> FreeingBut(t, a)
        /\ Freeing(a) <=> (FreesCall(calls[t], a) \/ FreeingBut(t, a))
        /\ Pending(a)' <=> (c.res = a \/ PendingBut(t, a))
        /\ Pending(a) <=> PendingBut(t, a)
    BY <1>2, <1>3, TurnFreeing DEF FreesCall, Takes
  <2>2. c.fn # "free" => ~FreesCall(calls[t], a)
    BY <1>2 DEF FreesCall
  <2>3. CASE c.fn \in {"malloc", "realloc"} /\ c.res = NULL /\ live' = live
    BY <1>2, <1>3, <2>1, <2>2, <2>3 DEF InUse, GivenBack
  <2>4. CASE /\ c.fn = "malloc" /\ c.res \in Addr \ DOMAIN live
             /\ DOMAIN live' = DOMAIN live \cup {c.res}
    <3>1. CASE a = c.res
      BY <1>2, <2>1, <2>2, <2>4, <3>1 DEF InUse, GivenBack
    <3>2. CASE a # c.res
      BY <1>2, <2>1, <2>2, <2>4, <3>2 DEF InUse, GivenBack
    <3> QED
      BY <3>1, <3>2
  <2>5. CASE /\ c.fn = "realloc" /\ c.res \in Addr \ (DOMAIN live \ {c.ptr})
             /\ DOMAIN live' = (DOMAIN live \ {c.ptr}) \cup {c.res}
    <3>1. c.ptr \notin seen
      BY <1>2, <2>5 DEF Lists, ReallocUnseen
    <3>2. CASE a = c.ptr
      BY <1>2, <3>1, <3>2 DEF InUse, GivenBack
    <3>3. CASE a # c.ptr /\ a = c.res
      BY <1>2, <2>1, <2>2, <2>5, <3>3 DEF InUse, GivenBack
    <3>4. CASE a # c.ptr /\ a # c.res
      BY <1>2, <2>1, <2>2, <2>5, <3>4 DEF InUse, GivenBack
    <3> QED
      BY <3>2, <3>3, <3>4
  <2>6. CASE /\ c.fn = "free" /\ c.res = NULL
             /\ DOMAIN live' = IF c.size > 0 THEN DOMAIN live \ {c.ptr} ELSE DOMAIN live
    <3>1. FreesCall(calls[t], a) <=> (c.size > 0 /\ a = c.ptr)
      BY <1>2, <2>6 DEF FreesCall, Takes
    <3>2. CASE c.size > 0 /\ a = c.ptr
      BY <1>2, <2>1, <2>6, <3>1, <3>2 DEF InUse, GivenBack
    <3>3. CASE ~(c.size > 0 /\ a = c.ptr)
      <4>1. a \in DOMAIN live' <=> a \in DOMAIN live
        BY <2>6, <3>3
      <4>2. (Freeing(a)' <=> Freeing(a)) /\ (Pending(a)' <=> Pending(a))
        BY <1>3, <2>1, <2>6, <3>1, <3>3
      <4> QED
        BY <1>2, <4>1, <4>2 DEF InUse, GivenBack
    <3> QED
      BY <3>2, <3>3
  <2> QED
    BY <1>1, <2>3, <2>4, <2>5, <2>6
<1> QED
  BY <1>2, <1>4, <1>5, SameLists

\* No tracked chunk is in the way of one that the allocator just handed out.
LEMMA NoOverlap ==
    ASSUME HeapOK(live), NEW list \in Seq(Chunks), Addresses(list) \subseteq DOMAIN live,
           NEW loc \in DOMAIN live, NEW header,
           \A a \in Addresses(list) : header[a] = live[a]
    PROVE  OverlapStops(list, loc, header) = {}
<1> SUFFICES ASSUME NEW i \in DOMAIN list
             PROVE  LET a == list[i][1] IN a # NULL /\ ~(a < loc /\ loc < a + header[a])
  BY Zenon DEF OverlapStops
<1> DEFINE a == list[i][1]
<1>1. a \in Addresses(list)
  BY DEF Addresses
<1> HIDE DEF a
<1>2. a \in DOMAIN live /\ header[a] = live[a]
  BY <1>1
<1>3. a \in Addr /\ loc \in Addr /\ live[a] \in Nat /\ (a < loc => a + live[a] <= loc)
  BY <1>2 DEF HeapOK
<1>4. a \in Nat /\ loc \in Nat /\ a # NULL
  BY <1>3, Bounds DEF Addr, NULL
<1>5. a # NULL /\ ~(a < loc /\ loc < a + header[a])
  BY <1>2, <1>3, <1>4
<1> QED
  BY <1>5 DEF a

\* The headers of chunks in use are intact.
LEMMA HeaderLemma ==
    ASSUME NEW header \in HeadersRead, NEW a \in DOMAIN live, a \in Addr
    PROVE  header[a] = live[a]
  BY DEF HeadersRead, Headers

\* The lists when a call returns.
LEMMA ReturnKeepsLists ==
    ASSUME CallsOK, CommandOK, ListsOK, NEW t \in Threads,
           ReturnMalloc(t) \/ ReturnRealloc(t) \/ ReturnFree(t)
    PROVE  ListsOK'
<1>1. /\ sets \in {0, 1} /\ tracker \in Trackers
      /\ HeapOK(live) /\ calls \in [Threads -> Calls]
  BY DEF CommandOK, CallsOK
<1>2. Addr \subseteq Nat /\ NULL \notin Addr
  BY Bounds DEF Addr, NULL
<1>3. Quiet \in Trackers /\ Quiet.alloc = tracker.alloc /\ Quiet.freed = tracker.freed
  BY <1>1, QuietLemma
<1>4. CASE ReturnMalloc(t)
  <2> DEFINE loc == calls[t].res
             size == calls[t].asked
  <2> SUFFICES ASSUME sets' = 1, ~blind' PROVE Lists'
    BY DEF ListsOK
  <2>1. Turn(t, Idle) /\ live' = live /\ calls[t].fn = "malloc" /\ calls[t].phase = "done"
    BY <1>1, <1>4, MallocReturned
  <2>2. sets = 1 /\ Lists
    BY <2>1, Zenon DEF Turn, ListsOK
  <2>3. calls[t].rets = 1 /\ loc # NULL /\ seen' = seen \cup {loc}
    BY <1>1, <1>4, <2>2, MallocReturned
  <2>4. PICK header \in HeadersRead : tracker' = MallocRet(Quiet, loc, size, header)
    BY <1>1, <1>4, <2>3, MallocReturned
  <2>5. loc \in Nat /\ size \in Nat /\ loc \in DOMAIN live /\ loc \in Addr
    BY <1>1, <2>3, CallsFacts DEF Calls, CallOK, HeapOK
  <2>6. ASSUME NEW u \in Threads \ {t}
        PROVE  calls[u].res # loc /\ ~Takes(calls[u], loc)
    BY <2>3, CallsFacts DEF PairOK, Takes
  <2> HIDE DEF loc, size
  <2>7. ASSUME NEW a \in Addr
        PROVE  /\ Freeing(a)' <=> Freeing(a)
               /\ Pending(a)' <=> Pending(a) /\ a # loc
               /\ a = loc => Pending(a) /\ ~Freeing(a)
    <3>1. /\ Freeing(a)' <=> FreeingBut(t, a)
          /\ Freeing(a) <=> FreeingBut(t, a)
          /\ Pending(a)' <=> PendingBut(t, a)
          /\ Pending(a) <=> (loc = a \/ PendingBut(t, a))
      BY <1>1, <1>2, <2>1, TurnFreeing, IdleLemma DEF FreesCall, Takes, loc
    <3>2. ~FreeingBut(t, loc) /\ ~PendingBut(t, loc)
      BY <2>6 DEF FreeingBut, PendingBut
    <3> QED
      BY <3>1, <3>2
  <2>8. /\ Distinct(tracker.alloc) /\ Distinct(tracker.freed)
        /\ Addresses(tracker.alloc) \subseteq Addr
        /\ \A a \in Addr : /\ a \in Addresses(tracker.alloc) <=> InUse(a)
                           /\ a \in Addresses(tracker.freed) <=> GivenBack(a)
        /\ ReallocUnseen
    BY <2>2 DEF Lists
  <2>9. loc \notin Addresses(tracker.alloc) /\ Addresses(tracker.alloc) \subseteq DOMAIN live
    BY <2>5, <2>7, <2>8 DEF InUse
  <2>10. OverlapStops(tracker.alloc, loc, header) = {}
    <3>1. \A a \in Addresses(tracker.alloc) : header[a] = live[a]
      BY <2>8, <2>9, HeaderLemma
    <3>2. tracker.alloc \in Seq(Chunks)
      BY <1>1, TrackerLemma
    <3> QED
      BY <1>1, <2>5, <2>9, <3>1, <3>2, NoOverlap
  <2>11. /\ Distinct(tracker'.alloc) /\ Addresses(tracker'.alloc) = Addresses(tracker.alloc) \cup {loc}
         /\ Distinct(tracker'.freed) /\ Addresses(tracker'.freed) = Addresses(tracker.freed) \ {loc}
    BY <1>3, <2>4, <2>5, <2>8, <2>9, <2>10, MallocRetExact
  <2>12. ReallocUnseen'
    <3> SUFFICES ASSUME NEW u \in Threads, calls'[u].fn = "realloc", calls'[u].phase = "in"
                 PROVE  calls'[u].ptr \notin seen \cup {loc}
      BY <2>3 DEF ReallocUnseen
    <3>1. u # t /\ calls'[u] = calls[u]
      BY <1>1, <2>1, IdleLemma DEF Turn
    <3>2. CallOK(calls[u], live)
      BY DEF CallsOK
    <3>3. Takes(calls[u], calls[u].ptr)
      BY <3>1, <3>2 DEF Takes, CallOK
    <3>4. calls[u].ptr # loc
      BY <2>6, <3>1, <3>3
    <3> QED
      BY <2>8, <3>1, <3>4 DEF ReallocUnseen
  <2>13. ASSUME NEW a \in Addr
         PROVE  /\ a \in Addresses(tracker'.alloc) <=> InUse(a)'
                /\ a \in Addresses(tracker'.freed) <=> GivenBack(a)'
    <3>1. CASE a = loc
      BY <2>1, <2>3, <2>5, <2>7, <2>11, <3>1 DEF InUse, GivenBack
    <3>2. CASE a # loc
      <4>1. (InUse(a)' <=> InUse(a)) /\ (GivenBack(a)' <=> GivenBack(a))
        BY <2>1, <2>3, <2>7, <3>2 DEF InUse, GivenBack
      <4> QED
        BY <2>8, <2>11, <3>2, <4>1
    <3> QED
      BY <3>1, <3>2
  <2> QED
    BY <2>5, <2>8, <2>11, <2>12, <2>13 DEF Lists
<1>5. CASE ReturnRealloc(t)
  <2>1. sets' = sets /\ (sets = 1 => blind')
    BY <1>1, <1>5, ReallocReturned DEF Turn
  <2> QED
    BY <2>1, Zenon DEF ListsOK
<1>6. CASE ReturnFree(t)
  <2>1. /\ Turn(t, Idle) /\ live' = live /\ seen' = seen
        /\ calls[t].fn = "free" /\ calls[t].phase = "done"
        /\ tracker' = IF calls[t].rets = 1 THEN FreeRet(Quiet, calls[t].ptr) ELSE Quiet
    BY <1>1, <1>6, FreeReturned
  <2> SUFFICES ASSUME sets' = 1, ~blind' PROVE Lists'
    BY DEF ListsOK
  <2>2. Lists
    BY <2>1, Zenon DEF Turn, ListsOK
  <2>3. tracker'.alloc = tracker.alloc /\ tracker'.freed = tracker.freed
    BY <1>3, <2>1 DEF FreeRet, Trackers
  <2>4. ReallocUnseen'
    BY <1>1, <2>1, <2>2, IdleLemma, TurnRealloc DEF Lists
  <2>5. ASSUME NEW a \in Addr PROVE (InUse(a)' <=> InUse(a)) /\ (GivenBack(a)' <=> GivenBack(a))
    <3>1. calls[t].res = NULL
      BY <2>1, CallsFacts DEF CallOK
    <3>2. (Freeing(a)' <=> Freeing(a)) /\ (Pending(a)' <=> Pending(a))
      BY <1>1, <1>2, <2>1, <3>1, TurnFreeing, IdleLemma DEF FreesCall, Takes
    <3> QED
      BY <2>1, <3>2 DEF InUse, GivenBack
  <2> QED
    BY <2>2, <2>3, <2>4, <2>5, SameLists
<1> QED
  BY <1>4, <1>5, <1>6

\* A step of one thread keeps the freed chunks watched if its own do.
LEMMA TurnWatch ==
    ASSUME CommandOK, WatchOK, NEW t \in Threads, NEW c \in Calls, calls \in [Threads -> Calls],
           Turn(t, c),
           "uaf" \in Checks /\ sets = 1 =>
              \A a \in Addresses(tracker'.freed) :
                \/ WillWatch(c, a) \/ a \in Range(tracker'.wps) \/ a \in reused'
                \/ /\ a \in Addresses(tracker.freed)
                   /\ ~WillWatch(calls[t], a)
                   /\ a \in Range(tracker.wps) => a \in Range(tracker'.wps)
                   /\ a \in reused => a \in reused'
    PROVE  WatchOK'
<1>1. /\ calls'[t] = c /\ sets' = sets
      /\ \A u \in Threads \ {t} : calls'[u] = calls[u]
  BY DEF Turn
<1> SUFFICES ASSUME "uaf" \in Checks, sets = 1, NEW a \in Addresses(tracker'.freed)
             PROVE  Watched(a)'
  BY <1>1 DEF WatchOK
<1>2. CASE WillWatch(c, a)
  BY <1>1, <1>2 DEF Watched
<1>3. CASE a \in Range(tracker'.wps) \/ a \in reused'
  BY <1>3 DEF Watched
<1>4. CASE /\ a \in Addresses(tracker.freed)
           /\ ~WillWatch(calls[t], a)
           /\ a \in Range(tracker.wps) => a \in Range(tracker'.wps)
           /\ a \in reused => a \in reused'
  <2>1. Watched(a)
    BY <1>4 DEF WatchOK
  <2>2. (\E u \in Threads : WillWatch(calls[u], a)) => \E u \in Threads : WillWatch(calls'[u], a)
    BY <1>1, <1>4
  <2> QED
    BY <1>4, <2>1, <2>2 DEF Watched
<1> QED
  BY <1>2, <1>3, <1>4

LEMMA EnterKeepsWatch ==
    ASSUME CallsOK, CommandOK, WatchOK, NEW t \in Threads,
           EnterMalloc(t) \/ EnterCalloc(t) \/ EnterRealloc(t) \/ EnterFree(t)
    PROVE  WatchOK'
<1>1. /\ sets \in {0, 1} /\ tracker \in Trackers
      /\ HeapOK(live) /\ calls \in [Threads -> Calls]
  BY DEF CommandOK, CallsOK
<1>2. /\ Quiet \in Trackers /\ Quiet.alloc = tracker.alloc /\ Quiet.freed = tracker.freed
      /\ Quiet.wps = tracker.wps
  BY <1>1, QuietLemma
<1>3. ASSUME NEW c \in Calls, Entered(t, c), tracker' = Quiet PROVE WatchOK'
  <2>1. Turn(t, c) /\ reused' = reused /\ \A a : ~WillWatch(calls[t], a)
    BY <1>3, IdleLemma DEF Entered, WillWatch
  <2> QED
    BY <1>1, <1>2, <1>3, <2>1, TurnWatch
<1>4. CASE EnterMalloc(t) \/ EnterCalloc(t) \/ EnterRealloc(t)
  <2>1. PICK c \in Calls : Entered(t, c) /\ tracker' = Quiet
    BY <1>1, <1>4, MallocEntered, ReallocEntered
  <2> QED
    BY <1>3, <2>1
<1>5. CASE EnterFree(t)
  <2>1. PICK c \in Calls :
                /\ Entered(t, c) /\ c.fn = "free"
                /\ tracker' = IF sets = 0 THEN Quiet ELSE FreeEntry(Quiet, c.ptr)
                /\ c.rets = IF FreeWatched(tracker, c.ptr) /\ sets > 0 THEN 1 ELSE 0
    BY <1>1, <1>5, FreeEntered
  <2>2. CASE sets = 0
    BY <1>3, <2>1, <2>2
  <2>3. CASE sets = 1
    <3> DEFINE p == c.ptr
    <3>1. /\ Turn(t, c) /\ reused' = reused /\ tracker' = FreeEntry(Quiet, p) /\ p \in Nat
          /\ \A a : ~WillWatch(calls[t], a)
      BY <2>1, <2>3, IdleLemma DEF Entered, WillWatch, Calls
    <3> HIDE DEF p
    <3>2. /\ tracker'.wps = tracker.wps
          /\ ~Frees(Quiet, p) => tracker'.freed = tracker.freed
          /\ Frees(Quiet, p) => Addresses(tracker'.freed) = Addresses(tracker.freed) \cup {p}
      BY <1>2, <3>1, FreeEntryLemma
    <3>3. "uaf" \in Checks /\ Frees(Quiet, p) => WillWatch(c, p)
      <4>1. "uaf" \in Checks /\ Frees(Quiet, p) => FreeWatched(tracker, p)
        BY <1>2 DEF Frees, FreeWatched
      <4> QED
        BY <2>1, <2>3, <4>1 DEF WillWatch, p
    <3>4. "uaf" \in Checks /\ sets = 1 =>
              \A a \in Addresses(tracker'.freed) :
                \/ WillWatch(c, a) \/ a \in Range(tracker'.wps) \/ a \in reused'
                \/ /\ a \in Addresses(tracker.freed)
                   /\ ~WillWatch(calls[t], a)
                   /\ a \in Range(tracker.wps) => a \in Range(tracker'.wps)
                   /\ a \in reused => a \in reused'
      BY <3>1, <3>2, <3>3
    <3> QED
      BY <1>1, <3>1, <3>4, TurnWatch
  <2> QED
    BY <1>1, <2>2, <2>3
<1> QED
  BY <1>4, <1>5

LEMMA ActKeepsWatch ==
    ASSUME CommandOK, WatchOK, calls \in [Threads -> Calls], NEW t \in Threads, NEW c \in Calls,
           Acted(t, c)
    PROVE  WatchOK'
<1>1. /\ Turn(t, c) /\ tracker' = tracker /\ reused' = reused
      /\ \A a : WillWatch(c, a) <=> WillWatch(calls[t], a)
  BY DEF Acted, WillWatch
<1> QED
  BY <1>1, TurnWatch

LEMMA ReturnKeepsWatch ==
    ASSUME CallsOK, CommandOK, WatchOK, NEW t \in Threads,
           ReturnMalloc(t) \/ ReturnRealloc(t) \/ ReturnFree(t)
    PROVE  WatchOK'
<1>1. tracker \in Trackers /\ calls \in [Threads -> Calls]
  BY DEF CommandOK, CallsOK
<1>2. /\ Quiet \in Trackers /\ Quiet.freed = tracker.freed /\ Quiet.wps = tracker.wps
  BY <1>1, QuietLemma
<1>3. /\ calls[t].ptr \in Nat /\ calls[t].res \in Nat /\ calls[t].asked \in Nat
      /\ calls[t].rets \in {0, 1}
  BY <1>1 DEF Calls
<1>4. CASE ReturnMalloc(t)
  <2> DEFINE B == Block(calls[t].res, calls[t].asked)
  <2>1. Turn(t, Idle) /\ \A a : ~WillWatch(calls[t], a)
    BY <1>1, <1>4, MallocReturned DEF WillWatch
  <2>2. reused' = IF calls[t].rets = 1 THEN reused \cup B ELSE reused
    BY <1>1, <1>4, MallocReturned
  <2>3. PICK header : tracker' = IF calls[t].rets = 0 THEN Quiet
                           ELSE MallocRet(Quiet, calls[t].res, calls[t].asked, header)
    BY <1>1, <1>4, MallocReturned
  <2>4. LET r == MallocRet(Quiet, calls[t].res, calls[t].asked, header)
        IN  /\ \A a \in Addresses(r.freed) : a \in Addresses(tracker.freed)
            /\ \A a \in Range(tracker.wps) : a \notin B => a \in Range(r.wps)
    BY <1>2, <1>3, MallocRetLemma
  <2> HIDE DEF B
  <2>5. /\ \A a \in Addresses(tracker'.freed) : a \in Addresses(tracker.freed)
        /\ \A a \in Range(tracker.wps) : a \in Range(tracker'.wps) \/ a \in reused'
        /\ \A a \in reused : a \in reused'
    <3>1. CASE calls[t].rets = 0
      BY <1>2, <2>2, <2>3, <3>1
    <3>2. CASE calls[t].rets = 1
      BY <2>2, <2>3, <2>4, <3>2
    <3> QED
      BY <1>3, <3>1, <3>2
  <2>6. \A a \in Addresses(tracker'.freed) :
                \/ WillWatch(Idle, a) \/ a \in Range(tracker'.wps) \/ a \in reused'
                \/ /\ a \in Addresses(tracker.freed)
                   /\ ~WillWatch(calls[t], a)
                   /\ a \in Range(tracker.wps) => a \in Range(tracker'.wps)
                   /\ a \in reused => a \in reused'
    BY <2>1, <2>5
  <2> QED
    BY <1>1, <2>1, <2>6, IdleLemma, TurnWatch
<1>5. CASE ReturnRealloc(t)
  <2>1. Turn(t, Idle) /\ reused' = reused /\ \A a : ~WillWatch(calls[t], a)
    BY <1>1, <1>5, ReallocReturned DEF WillWatch
  <2> DEFINE p == calls[t].ptr
             l == calls[t].res
             n == calls[t].asked
             r == ReallocRet(Quiet, p, l, n)
  <2>2. r.freed = tracker.freed /\ r.wps = tracker.wps
    <3>1. p \in Nat /\ l \in Nat /\ n \in Nat
      BY <1>3
    <3> HIDE DEF p, l, n
    <3>2. r.freed = Quiet.freed /\ r.wps = Quiet.wps
      BY <1>2, <3>1, ReallocRetLemma
    <3> QED
      BY <1>2, <3>2
  <2>3. tracker'.freed = tracker.freed /\ tracker'.wps = tracker.wps
    BY <1>1, <1>2, <1>5, <2>2, ReallocReturned
  <2> QED
    BY <1>1, <2>1, <2>3, IdleLemma, TurnWatch
<1>6. CASE ReturnFree(t)
  <2> DEFINE p == calls[t].ptr
  <2>1. /\ Turn(t, Idle) /\ calls[t].fn = "free"
        /\ tracker' = IF calls[t].rets = 1 THEN FreeRet(Quiet, p) ELSE Quiet
        /\ reused' = IF calls[t].rets = 1 THEN reused \ {p} ELSE reused
    BY <1>1, <1>6, FreeReturned
  <2>2. CASE calls[t].rets = 0
    <3>1. tracker' = Quiet /\ reused' = reused /\ \A a : ~WillWatch(calls[t], a)
      BY <2>1, <2>2 DEF WillWatch
    <3> QED
      BY <1>1, <1>2, <2>1, <3>1, IdleLemma, TurnWatch
  <2>3. CASE calls[t].rets = 1
    <3>1. /\ tracker' = FreeRet(Quiet, p) /\ reused' = reused \ {p}
          /\ \A a : WillWatch(calls[t], a) => a = p
      BY <2>1, <2>3 DEF WillWatch
    <3>2. p \in Nat /\ tracker.wps \in Seq(Nat)
      BY <1>1, <1>3, TrackerLemma
    <3> HIDE DEF p
    <3>3. tracker'.freed = tracker.freed /\ tracker'.wps = Append(tracker.wps, p)
      BY <1>2, <3>1 DEF FreeRet, Trackers
    <3>4. p \in Range(tracker'.wps) /\ \A a \in Range(tracker.wps) : a \in Range(tracker'.wps)
      <4> DEFINE w == tracker.wps
                 n == Len(w) + 1
      <4>1. /\ DOMAIN Append(w, p) = DOMAIN w \cup {n} /\ Append(w, p)[n] = p
            /\ \A i \in DOMAIN w : Append(w, p)[i] = w[i]
        BY <3>2
      <4> HIDE DEF w, n
      <4>2. p \in Range(Append(w, p)) /\ \A a \in Range(w) : a \in Range(Append(w, p))
        BY <4>1 DEF Range
      <4> QED
        BY <3>3, <4>2 DEF w
    <3>5. \A a \in Addresses(tracker'.freed) :
                \/ WillWatch(Idle, a) \/ a \in Range(tracker'.wps) \/ a \in reused'
                \/ /\ a \in Addresses(tracker.freed)
                   /\ ~WillWatch(calls[t], a)
                   /\ a \in Range(tracker.wps) => a \in Range(tracker'.wps)
                   /\ a \in reused => a \in reused'
      BY <3>1, <3>3, <3>4
    <3> QED
      BY <1>1, <2>1, <3>5, IdleLemma, TurnWatch
  <2> QED
    BY <1>3, <2>2, <2>3
<1> QED
  BY <1>4, <1>5, <1>6

-----------------------------------------------------------------------------
\* The inductive invariant of the tracker.
TraceInv == CallsOK /\ CommandOK /\ ListsOK /\ WatchOK

\* The lists at the start of an execution.
LEMMA EmptyLists ==
    /\ NoChunks \in Trackers
    /\ NoChunks.alloc = <<>> /\ NoChunks.freed = <<>>
    /\ Addresses(<<>>) = {} /\ Distinct(<<>>)
  BY DEF NoChunks, Trackers, Reports, Addresses, Distinct

\* No thread is in a call, and no chunk is in use.
LEMMA IdleCalls ==
    ASSUME NEW heap, heap = [a \in {} |-> 0],
           NEW cs, cs = [t \in Threads |-> Idle]
    PROVE  /\ HeapOK(heap) /\ cs \in [Threads -> Calls]
           /\ \A t \in Threads : cs[t] = Idle
           /\ \A t \in Threads : CallOK(cs[t], heap)
           /\ \A t, u \in Threads : t # u => PairOK(cs[t], cs[u])
<1>1. HeapOK(heap)
  BY DEF HeapOK
<1>2. cs \in [Threads -> Calls] /\ \A t \in Threads : cs[t] = Idle
  BY IdleLemma
<1>3. CallOK(Idle, heap) /\ PairOK(Idle, Idle)
  BY IdleLemma DEF CallOK, PairOK, Takes
<1> QED
  BY <1>1, <1>2, <1>3

\* The invariant at the start ...
LEMMA TraceInitOK == TraceInit => TraceInv
<1> SUFFICES ASSUME TraceInit PROVE TraceInv
  OBVIOUS
<1>0. /\ ~alive /\ live = [a \in {} |-> 0] /\ calls = [t \in Threads |-> Idle]
      /\ tracker = NoChunks /\ sets = 0 /\ ~owned /\ hooks = 0 /\ hw /\ seen = {}
  BY Zenon DEF TraceInit
<1>1. CallsOK
  BY <1>0, IdleCalls DEF CallsOK
<1>2. CommandOK
  <2>1. \A t \in Threads : calls[t].rets = 0
    BY <1>0, IdleLemma
  <2>2. sets \in {0, 1} /\ sets # 1
    BY <1>0
  <2> QED
    BY <1>0, <2>1, <2>2, EmptyLists, Zenon DEF CommandOK
<1>3. ListsOK /\ WatchOK
  BY <1>0 DEF ListsOK, WatchOK
<1> QED
  BY <1>1, <1>2, <1>3 DEF TraceInv

\* ... when the program starts ...
LEMMA StartOK == TraceInv /\ ProgramStart => TraceInv'
<1> SUFFICES ASSUME TraceInv, ProgramStart PROVE TraceInv'
  OBVIOUS
<1>1. /\ ~alive /\ alive' /\ live' = live /\ calls' = calls /\ tracker' = tracker /\ sets' = sets
      /\ owned' = owned /\ hooks' = hooks /\ hw' = hw /\ seen' = seen /\ reused' = reused
      /\ blind' = blind
  BY Zenon DEF ProgramStart
<1>2. CallsOK'
  BY <1>1 DEF TraceInv, CallsOK
<1>3. sets = 0
  BY <1>1 DEF TraceInv, CommandOK
<1>4. CommandOK'
  BY <1>1, Zenon DEF TraceInv, CommandOK
<1>5. ListsOK' /\ WatchOK'
  BY <1>1, <1>3 DEF ListsOK, WatchOK
<1> QED
  BY <1>2, <1>4, <1>5 DEF TraceInv

\* ... when the command is typed, once in an execution ...
LEMMA SetupOK == MaxSets = 1 /\ TraceInv /\ Setup => TraceInv'
<1> SUFFICES ASSUME MaxSets = 1, TraceInv, Setup PROVE TraceInv'
  OBVIOUS
<1>1. /\ alive /\ alive' = alive /\ live' = live /\ calls' = calls /\ tracker' = tracker
      /\ sets < MaxSets /\ sets' = sets + 1 /\ owned' /\ hooks' = hooks + 1 /\ seen' = seen
  BY Zenon DEF Setup
<1>2. sets = 0 /\ sets' = 1
  BY <1>1 DEF TraceInv, CommandOK
<1>3. hooks = 0 /\ tracker = NoChunks /\ seen = {}
  BY <1>2 DEF TraceInv, CommandOK
<1>4. CallsOK'
  BY <1>1 DEF TraceInv, CallsOK
<1>5. CommandOK'
  <2>1. hooks' = 1 /\ sets' \in {0, 1} /\ sets' # 0
    BY <1>1, <1>2, <1>3
  <2> QED
    BY <1>1, <1>3, <2>1, EmptyLists, Zenon DEF CommandOK
<1>6. tracker'.alloc = <<>> /\ tracker'.freed = <<>> /\ seen' = {}
  BY <1>1, <1>3, EmptyLists
<1>7. Lists'
  BY <1>6, EmptyLists DEF Lists, InUse, GivenBack, ReallocUnseen
<1>8. WatchOK'
  BY <1>6, EmptyLists DEF WatchOK
<1> QED
  BY <1>4, <1>5, <1>7, <1>8 DEF TraceInv, ListsOK

\* ... when the program ends inside whatever calls ...
LEMMA ExitOK == TraceInv /\ ProgramExit => TraceInv'
<1> SUFFICES ASSUME TraceInv, ProgramExit PROVE TraceInv'
  OBVIOUS
<1>1. /\ ~alive' /\ live' = [a \in {} |-> 0] /\ calls' = [t \in Threads |-> Idle] /\ Clean
  BY Zenon DEF ProgramExit
<1>2. CallsOK'
  BY <1>1, IdleCalls DEF CallsOK
<1>3. /\ sets' = 0 /\ tracker' = NoChunks /\ seen' = {} /\ hooks' = 0 /\ ~owned' /\ hw'
  <2>1. CASE sets = 0
    <3>1. ~owned
      BY <2>1 DEF TraceInv, CommandOK
    <3>2. /\ sets' = sets /\ owned' = owned /\ hooks' = hooks /\ hw' = hw /\ tracker' = tracker
          /\ seen' = seen
      BY <1>1, <3>1, Zenon DEF Clean
    <3> QED
      BY <2>1, <3>2, Zenon DEF TraceInv, CommandOK
  <2>2. CASE sets = 1
    <3>1. hooks = 1 /\ owned
      BY <2>2 DEF TraceInv, CommandOK
    <3>2. hooks > 0
      BY <3>1
    <3>3. /\ sets' = sets - 1 /\ ~owned' /\ hooks' = hooks - 1 /\ hw' /\ tracker' = NoChunks
          /\ seen' = {}
      BY <1>1, <3>1, <3>2, Zenon DEF Clean
    <3>4. sets' = 0 /\ hooks' = 0
      BY <2>2, <3>1, <3>3
    <3> QED
      BY <3>3, <3>4
  <2> QED
    BY <2>1, <2>2 DEF TraceInv, CommandOK
<1>4. CommandOK'
  <2>1. \A t \in Threads : calls'[t].rets = 0
    BY <1>1, IdleLemma
  <2>2. sets' \in {0, 1} /\ sets' # 1
    BY <1>3
  <2> QED
    BY <1>1, <1>3, <2>1, <2>2, EmptyLists, Zenon DEF CommandOK
<1>5. ListsOK' /\ WatchOK'
  BY <1>3 DEF ListsOK, WatchOK
<1> QED
  BY <1>2, <1>4, <1>5 DEF TraceInv

\* ... and in every step.
LEMMA TraceStep == MaxSets = 1 /\ TraceInv /\ [TraceNext]_traceVars => TraceInv'
<1> SUFFICES ASSUME MaxSets = 1, TraceInv, [TraceNext]_traceVars PROVE TraceInv'
  OBVIOUS
<1>0. CallsOK /\ CommandOK /\ ListsOK /\ WatchOK /\ sets \in {0, 1} /\ calls \in [Threads -> Calls]
  BY DEF TraceInv, CommandOK, CallsOK
<1>1. CASE ProgramStart
  BY <1>1, StartOK
<1>2. CASE Setup
  BY <1>2, SetupOK
<1>3. CASE ProgramExit
  BY <1>3, ExitOK
<1>4. ASSUME NEW t \in Threads,
             EnterMalloc(t) \/ EnterCalloc(t) \/ EnterRealloc(t) \/ EnterFree(t)
      PROVE  TraceInv'
  BY <1>0, <1>4, EnterKeepsCalls, EnterKeepsCommand, EnterKeepsLists, EnterKeepsWatch DEF TraceInv
<1>5. ASSUME NEW t \in Threads, ActMalloc(t) \/ ActRealloc(t) \/ ActFree(t)
      PROVE  TraceInv'
  <2>1. PICK c \in Calls : Acted(t, c)
    BY <1>0, <1>5, ActKeepsCalls
  <2> QED
    BY <1>0, <1>5, <2>1, ActKeepsCalls, ActKeepsCommand, ActKeepsLists, ActKeepsWatch DEF TraceInv
<1>6. ASSUME NEW t \in Threads, ReturnMalloc(t) \/ ReturnRealloc(t) \/ ReturnFree(t)
      PROVE  TraceInv'
  BY <1>0, <1>6, ReturnKeepsCalls, ReturnKeepsCommand, ReturnKeepsLists, ReturnKeepsWatch DEF TraceInv
<1>7. CASE UNCHANGED traceVars
  <2>1. CallsOK'
    BY <1>0, <1>7 DEF traceVars, CallsOK
  <2>2. CommandOK'
    BY <1>0, <1>7, Zenon DEF traceVars, CommandOK
  <2>3. ListsOK'
    BY <1>0, <1>7 DEF traceVars, ListsOK, Lists, InUse, GivenBack, ReallocUnseen, Freeing, Pending
  <2>4. WatchOK'
    BY <1>0, <1>7 DEF traceVars, WatchOK, Watched
  <2> QED
    BY <2>1, <2>2, <2>3, <2>4 DEF TraceInv
<1> QED
  BY <1>1, <1>2, <1>3, <1>4, <1>5, <1>6, <1>7 DEF TraceNext

\* The invariant implies the two properties of the tracker.
LEMMA TraceInvExact == TraceInv => TrackerExact /\ WatchesExact
<1> SUFFICES ASSUME TraceInv PROVE TrackerExact /\ WatchesExact
  OBVIOUS
<1>1. TrackerExact
  <2> SUFFICES ASSUME sets = 1, ~blind, NEW a \in Addr \ InFlight
               PROVE  /\ a \in Addresses(tracker.alloc) <=> (a \in DOMAIN live /\ a \in seen)
                      /\ a \in Addresses(tracker.freed) <=> (a \notin DOMAIN live /\ a \in seen)
    BY DEF TrackerExact
  <2>1. Lists
    BY DEF TraceInv, ListsOK
  <2>2. ~Freeing(a) /\ ~Pending(a)
    BY DEF InFlight, Freeing, Pending, Takes
  <2> QED
    BY <2>1, <2>2 DEF Lists, InUse, GivenBack
<1>2. FreedIsWatched
  <2> SUFFICES ASSUME "uaf" \in Checks, sets = 1, NEW a \in Addresses(tracker.freed) \ InFlight
               PROVE  a \in Range(tracker.wps) \/ a \in reused
    BY DEF FreedIsWatched
  <2>1. Watched(a)
    BY DEF TraceInv, WatchOK
  <2>2. \A t \in Threads : ~WillWatch(calls[t], a)
    BY DEF InFlight, WillWatch
  <2> QED
    BY <2>1, <2>2 DEF Watched
<1>3. CleanBetweenRuns
  <2> SUFFICES ASSUME ~alive
               PROVE  tracker = NoChunks /\ sets = 0 /\ hooks = 0 /\ ~owned /\ hw
    BY Zenon DEF CleanBetweenRuns
  <2>1. sets \in {0, 1} /\ (sets = 1 => alive)
    BY Zenon DEF TraceInv, CommandOK
  <2>2. sets = 0
    BY <2>1
  <2> QED
    BY <2>2, Zenon DEF TraceInv, CommandOK
<1> QED
  BY <1>1, <1>2, <1>3 DEF WatchesExact

\* When the command is typed at most once in an execution (typed twice, one of
\* its sets of breakpoints outlives it), the lists of allocated and freed chunks
\* are exact outside the calls in flight, for any number of threads, heap and
\* settings: a "double free" or "weird free" that TraceFreeBreakpoint reports is
\* one, however the calls of the threads interleave.
THEOREM TrackerIsExact == MaxSets = 1 => (TraceSpec => []TrackerExact)
<1> SUFFICES ASSUME MaxSets = 1 PROVE TraceSpec => []TrackerExact
  OBVIOUS
<1>1. TraceInit => TraceInv
  BY TraceInitOK
<1>2. TraceInv /\ [TraceNext]_traceVars => TraceInv'
  BY TraceStep
<1>3. TraceInv => TrackerExact
  BY TraceInvExact
<1> QED
  BY <1>1, <1>2, <1>3, PTL DEF TraceSpec

\* Under the same condition every freed chunk carries a watchpoint until a traced
\* allocation covers it, although the handlers remove watchpoints from the list
\* they iterate over, and the program's end leaves nothing behind.
THEOREM WatchesAreExact == MaxSets = 1 => (TraceSpec => []WatchesExact)
<1> SUFFICES ASSUME MaxSets = 1 PROVE TraceSpec => []WatchesExact
  OBVIOUS
<1>1. TraceInit => TraceInv
  BY TraceInitOK
<1>2. TraceInv /\ [TraceNext]_traceVars => TraceInv'
  BY TraceStep
<1>3. TraceInv => WatchesExact
  BY TraceInvExact
<1> QED
  BY <1>1, <1>2, <1>3, PTL DEF TraceSpec

=============================================================================
