----------------------------- MODULE HeapTrace -----------------------------
(***************************************************************************)
(* The command heap-analysis-helper of the debugger extension              *)
(* src/scripts/gef.py: breakpoints on malloc(), calloc(), realloc() and    *)
(* free() keep a list of the chunks in use, a list of the freed ones and a *)
(* list of watchpoints on freed chunks, and stop the program when a call   *)
(* contradicts the lists.                                                  *)
(*                                                                         *)
(* The traced program and its allocator are the environment: threads enter *)
(* a call (the breakpoint of the function fires), the allocator acts, and  *)
(* the call returns (the FinishBreakpoint fires).  The three are separate  *)
(* steps, so calls of two threads interleave.  An address is counted in    *)
(* units of 2 * ptrsize bytes, the smallest distance of two chunks.        *)
(***************************************************************************)
EXTENDS Integers, Sequences, FiniteSets, SequencesExt

CONSTANTS
    Threads,     \* threads of the traced program
    MaxAddr,     \* heap addresses are 1 .. MaxAddr, 0 is NULL
    MaxSize,     \* bound on the size of a request
    MaxTracked,  \* bound on the length of the lists
    MaxSets,     \* how often the user may type the command in one execution
    Checks       \* the check_* settings that are on

ASSUME Bounds == /\ MaxAddr \in Nat /\ MaxSize \in Nat
                 /\ MaxTracked \in Nat /\ MaxSets \in Nat
                 /\ Checks \subseteq
                        {"free_null", "double_free", "weird_free", "uaf", "heap_overlap"}

VARIABLES
    alive,     \* the program runs under the debugger
    live,      \* the allocator: address of a chunk in use -> its size
    calls,     \* the call each thread is in
    tracker,   \* the three lists of gef.session and the last report
    disabled,  \* addresses of watchpoints that are in GDB, disabled, but in no list
    sets,      \* sets of trace breakpoints that exist in GDB
    owned,     \* bp_malloc, bp_calloc, bp_free and bp_realloc are valid
    hooks,     \* how often clean() is connected to the exit event
    hw,        \* "can-use-hw-watchpoints"
    seen,      \* history: addresses whose last allocation was traced
    reused,    \* history: addresses handed out again inside a traced chunk
    blind      \* history: the tracker missed or misread an allocation

traceVars == <<alive, live, calls, tracker, disabled, sets, owned, hooks, hw, seen,
               reused, blind>>

Addr == 1 .. MaxAddr
NULL == 0
Idle == [fn |-> "none", phase |-> "out", ptr |-> NULL, size |-> 0, asked |-> 0,
         res |-> NULL, rets |-> 0]

NoChunks == [alloc |-> <<>>, freed |-> <<>>, wps |-> <<>>, report |-> "none"]

Addresses(list) == {list[i][1] : i \in DOMAIN list}
Block(a, size) == a .. (a + size - 1)
ItemsAt(list, a) == {item \in ToSet(list) : item[1] = a}
InFlight == {calls[t].ptr : t \in Threads} \cup {calls[t].res : t \in Threads}

-----------------------------------------------------------------------------
(* The handlers, as functions from the tracker's lists to its lists.       *)

\* `for x in l: if x matches: l.remove(x)`: removing an element moves the one
\* behind it to the position the iterator has passed, so that the next one
\* looked at is the second behind it.
Visit(list, matches, i, before) ==
    IF i \notin DOMAIN list THEN before
    ELSE IF i = before.next /\ list[i] \in matches
    THEN [kept |-> before.kept, next |-> i + 2]
    ELSE [kept |-> Append(before.kept, list[i]), next |-> i + 1]
RemoveWhileIterating(list, matches) ==
    LET upTo[i \in Nat] ==
            Visit(list, matches, i, IF i = 0 THEN [kept |-> <<>>, next |-> 1] ELSE upTo[i - 1])
    IN upTo[Len(list)].kept

\* The addresses of the watchpoints that are in one list and no more in a later one.
Dropped(before, after) ==
    LET count(list, a) == Cardinality({i \in DOMAIN list : list[i] = a})
    IN {a \in Range(before) : count(after, a) < count(before, a)}

\* The first tracked chunk that stops TraceMallocRetBreakpoint's overlap loop:
\* reading the header of a chunk at NULL raises, a chunk the new one lies in
\* is an overlap; a chunk at the same address is skipped as a false positive.
OverlapStops(alloc, loc, header) ==
    {i \in DOMAIN alloc :
        LET a == alloc[i][1]
        IN a = NULL \/ (a < loc /\ loc < a + header[a])}

\* Mutated forms of MallocRet: the freed list is not popped; the range of the
\* new chunk is taken one unit too far.
MallocRetKeepsFreed(tr, loc, size, header) ==
    [tr EXCEPT !.wps = RemoveWhileIterating(@, Block(loc, size)),
               !.alloc = Append(@, <<loc, size>>)]
MallocRetOffByOne(tr, loc, size, header) ==
    [tr EXCEPT !.freed = RemoveWhileIterating(@, ItemsAt(@, loc)),
               !.wps = RemoveWhileIterating(@, Block(loc, size + 1)),
               !.alloc = Append(@, <<loc, size>>)]

\* TraceMallocRetBreakpoint.stop
MallocRet(tr, loc, size, header) ==
    LET popped == [tr EXCEPT
            !.freed = RemoveWhileIterating(@, ItemsAt(@, loc)),
            !.wps = RemoveWhileIterating(@, Block(loc, size))]
        stops == IF "heap_overlap" \in Checks
                 THEN OverlapStops(popped.alloc, loc, header) ELSE {}
    IN IF stops # {}
       THEN [popped EXCEPT !.report = "overlap"]
       ELSE [popped EXCEPT !.alloc = Append(@, <<loc, size>>)]

\* TraceReallocRetBreakpoint.stop: a tracked chunk is popped and the popped
\* item, with its old address and size, is appended again.
ReallocRet(tr, ptr, newloc, size) ==
    LET at == {i \in DOMAIN tr.alloc : tr.alloc[i][1] = ptr}
        i == CHOOSE k \in at : \A j \in at : k <= j
    IN IF at = {}
       THEN [tr EXCEPT !.alloc = Append(@, <<newloc, size>>)]
       ELSE [tr EXCEPT !.alloc = Append(RemoveAt(@, i), tr.alloc[i])]

\* TraceFreeBreakpoint.stop
FreeEntry(tr, addr) ==
    LET at == {i \in DOMAIN tr.alloc : tr.alloc[i][1] = addr}
        i == CHOOSE k \in at : \A j \in at : k <= j
        reports(check) == IF check \in Checks THEN [tr EXCEPT !.report = check] ELSE tr
    IN CASE addr = NULL -> reports("free_null")
         [] addr # NULL /\ addr \in Addresses(tr.freed) -> reports("double_free")
         [] addr # NULL /\ addr \notin Addresses(tr.freed) /\ at = {} -> reports("weird_free")
         [] OTHER -> [tr EXCEPT !.alloc = RemoveAt(@, i),
                                !.freed = Append(@, tr.alloc[i])]

\* Whether that stop leaves a TraceFreeRetBreakpoint behind.
FreeWatched(tr, addr) ==
    /\ "uaf" \in Checks
    /\ addr # NULL
    /\ addr \notin Addresses(tr.freed)
    /\ addr \in Addresses(tr.alloc)

\* TraceFreeRetBreakpoint.stop: the watchpoint is created enabled.
FreeRet(tr, addr) == [tr EXCEPT !.wps = Append(@, addr)]

\* Every set of breakpoints runs the handler once.
Repeat(Handler(_), n, tr) ==
    LET times[k \in 0 .. n] == IF k = 0 THEN tr ELSE Handler(times[k - 1])
    IN times[n]

-----------------------------------------------------------------------------
(* The traced program: entering a call.                                    *)

Enter(t, call, tr) ==
    /\ alive /\ calls[t] = Idle
    /\ Len(tracker.alloc) < MaxTracked /\ Len(tracker.wps) < MaxTracked
    /\ calls' = [calls EXCEPT ![t] = call]
    /\ tracker' = tr
    /\ blind' = (blind \/ (call.fn = "realloc" /\ sets > 0))
    /\ UNCHANGED <<alive, live, disabled, sets, owned, hooks, hw, seen, reused>>

Quiet == [tracker EXCEPT !.report = "none"]

\* TraceMallocBreakpoint.stop takes the first argument for the size, which for
\* calloc(nmemb, size) is nmemb, and asserts that it is not 0.
EnterMalloc(t) == \E size \in 0 .. MaxSize :
    Enter(t, [Idle EXCEPT !.fn = "malloc", !.phase = "in", !.size = size, !.asked = size,
                          !.rets = IF size = 0 THEN 0 ELSE sets], Quiet)

EnterCalloc(t) == \E nmemb, size \in 1 .. MaxSize :
    /\ nmemb * size <= MaxSize
    /\ Enter(t, [Idle EXCEPT !.fn = "malloc", !.phase = "in", !.size = nmemb * size,
                             !.asked = nmemb, !.rets = sets], Quiet)

\* TraceReallocBreakpoint.stop; the program passes a chunk it owns.
EnterRealloc(t) == \E ptr \in DOMAIN live \ InFlight, size \in 1 .. MaxSize :
    Enter(t, [Idle EXCEPT !.fn = "realloc", !.phase = "in", !.ptr = ptr, !.size = size,
                          !.asked = size, !.rets = sets], Quiet)

\* The program may free a chunk, NULL, or by mistake any address it was given;
\* the allocator gives back a chunk in use that no other call is about.
EnterFree(t) == \E ptr \in {NULL} \cup (Addr \ {calls[u].res : u \in Threads}) :
    LET handler(tr) == FreeEntry(tr, ptr)
        taken == {u \in Threads : calls[u].phase = "in" /\ calls[u].size > 0}
        owns == ptr \in DOMAIN live \ {calls[u].ptr : u \in taken}
    IN Enter(t, [Idle EXCEPT !.fn = "free", !.phase = "in", !.ptr = ptr,
                             !.size = IF owns THEN live[ptr] ELSE 0,
                             !.rets = IF FreeWatched(tracker, ptr) /\ sets > 0 THEN 1 ELSE 0],
             Repeat(handler, sets, Quiet))

-----------------------------------------------------------------------------
(* The allocator acts.                                                     *)

Max1(n) == IF n = 0 THEN 1 ELSE n
Used == UNION {Block(a, live[a]) : a \in DOMAIN live}
Room(size, used) == {a \in Addr : Block(a, size) \subseteq Addr \ used}
Without(f, a) == [x \in DOMAIN f \ {a} |-> f[x]]
With(f, a, v) == [x \in DOMAIN f \cup {a} |-> IF x = a THEN v ELSE f[x]]

Act(t, res, heap) ==
    /\ alive /\ calls[t].phase = "in"
    /\ calls' = [calls EXCEPT ![t].phase = "done", ![t].res = res]
    /\ live' = heap
    /\ UNCHANGED <<alive, tracker, disabled, sets, owned, hooks, hw, seen, reused, blind>>

ActMalloc(t) ==
    /\ calls[t].fn = "malloc"
    /\ LET size == Max1(calls[t].size)
       IN \/ Act(t, NULL, live)
          \/ \E a \in Room(size, Used) : Act(t, a, With(live, a, size))

ActRealloc(t) ==
    /\ calls[t].fn = "realloc" /\ calls[t].phase = "in"
    /\ LET ptr == calls[t].ptr
           rest == Without(live, ptr)
           used == Used \ Block(ptr, live[ptr])
       IN \/ Act(t, NULL, live)
          \/ \E a \in Room(calls[t].size, used) :
                Act(t, a, With(rest, a, calls[t].size))

ActFree(t) ==
    /\ calls[t].fn = "free"
    /\ Act(t, NULL, IF calls[t].size > 0 THEN Without(live, calls[t].ptr) ELSE live)

-----------------------------------------------------------------------------
(* The call returns.                                                       *)

\* Headers the debugger may read: those of chunks in use are intact, those of
\* addresses that stay listed after the chunk has gone may hold anything.
Headers == {h \in [Addr -> 0 .. MaxSize] : \A a \in DOMAIN live : h[a] = live[a]}
StaleListed == Addresses(tracker.alloc) \ (DOMAIN live \cup {NULL})
HeadersRead ==
    IF StaleListed = {}
    THEN {[a \in Addr |-> IF a \in DOMAIN live THEN live[a] ELSE 0]}
    ELSE Headers

ReturnMalloc(t) ==
    /\ alive /\ calls[t].fn = "malloc" /\ calls[t].phase = "done"
    /\ LET loc == calls[t].res
           size == calls[t].asked
           n == calls[t].rets
       IN /\ \E header \in HeadersRead :
                LET handler(tr) == MallocRet(tr, loc, size, header)
                IN tracker' = Repeat(handler, n, Quiet)
          /\ disabled' = disabled \cup Dropped(tracker.wps, tracker'.wps)
          /\ seen' = IF n > 0 THEN seen \cup {loc} ELSE seen \ {loc}
          /\ reused' = IF n > 0 THEN reused \cup Block(loc, size) ELSE reused
          /\ blind' = (blind \/ (sets > 0 /\ (n = 0 \/ loc = NULL)))
    /\ calls' = [calls EXCEPT ![t] = Idle]
    /\ UNCHANGED <<alive, live, sets, owned, hooks, hw>>

ReturnRealloc(t) ==
    /\ alive /\ calls[t].fn = "realloc" /\ calls[t].phase = "done"
    /\ LET handler(tr) == ReallocRet(tr, calls[t].ptr, calls[t].res, calls[t].asked)
       IN tracker' = Repeat(handler, calls[t].rets, Quiet)
    /\ blind' = (blind \/ sets > 0)
    /\ calls' = [calls EXCEPT ![t] = Idle]
    /\ UNCHANGED <<alive, live, disabled, sets, owned, hooks, hw, seen, reused>>

ReturnFree(t) ==
    /\ alive /\ calls[t].fn = "free" /\ calls[t].phase = "done"
    /\ LET ptr == calls[t].ptr
           watched == calls[t].rets > 0
       IN /\ tracker' = IF watched THEN FreeRet(Quiet, ptr) ELSE Quiet
          /\ reused' = IF watched THEN reused \ {ptr} ELSE reused
    /\ calls' = [calls EXCEPT ![t] = Idle]
    /\ UNCHANGED <<alive, live, disabled, sets, owned, hooks, hw, seen, blind>>

-----------------------------------------------------------------------------
(* The command and the life of the program.                                *)

TraceInit ==
    /\ alive = FALSE
    /\ live = [a \in {} |-> 0]
    /\ calls = [t \in Threads |-> Idle]
    /\ tracker = NoChunks
    /\ disabled = {}
    /\ sets = 0 /\ owned = FALSE /\ hooks = 0 /\ hw = TRUE
    /\ seen = {} /\ reused = {} /\ blind = FALSE

ProgramStart ==
    /\ ~alive
    /\ alive' = TRUE
    /\ UNCHANGED <<live, calls, tracker, disabled, sets, owned, hooks, hw, seen,
                   reused, blind>>

\* HeapAnalysisCommand.setup: new breakpoints, the old ones (if any) stay in
\* GDB without an owner, and clean() is connected once more.
Setup ==
    /\ alive /\ sets < MaxSets
    /\ sets' = sets + 1 /\ owned' = TRUE /\ hooks' = hooks + 1 /\ hw' = FALSE
    /\ UNCHANGED <<alive, live, calls, tracker, disabled, seen, reused, blind>>

\* HeapAnalysisCommand.clean, called once for every connection: deleting
\* breakpoints that are gone raises before anything else is done, so that
\* only a first call with valid breakpoints has an effect.  Of the watchpoints it
\* deletes those that are listed.
Clean ==
    IF hooks > 0 /\ owned
    THEN /\ sets' = sets - 1 /\ owned' = FALSE /\ hooks' = hooks - 1 /\ hw' = TRUE
         /\ tracker' = NoChunks
         /\ seen' = {} /\ reused' = {} /\ blind' = FALSE
    ELSE UNCHANGED <<sets, owned, hooks, hw, tracker, seen, reused, blind>>

\* The program ends, whatever its threads are doing: GDB drops the
\* FinishBreakpoints of the calls in flight and emits the exit event.
ProgramExit ==
    /\ alive
    /\ alive' = FALSE
    /\ live' = [a \in {} |-> 0]
    /\ calls' = [t \in Threads |-> Idle]
    /\ disabled' = disabled
    /\ Clean

TraceNext ==
    \/ ProgramStart \/ Setup \/ ProgramExit
    \/ \E t \in Threads :
        \/ EnterMalloc(t) \/ EnterCalloc(t) \/ EnterRealloc(t) \/ EnterFree(t)
        \/ ActMalloc(t) \/ ActRealloc(t) \/ ActFree(t)
        \/ ReturnMalloc(t) \/ ReturnRealloc(t) \/ ReturnFree(t)

TraceSpec == TraceInit /\ [][TraceNext]_traceVars

-----------------------------------------------------------------------------
(* Properties.                                                             *)

\* The lists of heap_allocated_chunks and heap_freed_chunks are exact: outside
\* the calls in flight, an address is listed as allocated when it is the start
\* of a traced chunk in use, and as freed when its traced chunk has been given
\* back and not been handed out again.  In particular "double free" and "weird
\* free" are reported for the calls that deserve it, whatever the threads do.
\* Only allocations the handlers do not see or misread (malloc(0), realloc(),
\* a call that returns NULL, a call entered before the command) end this.
TrackerExact ==
    (sets = 1 /\ ~blind) =>
        \A a \in Addr \ InFlight :
            /\ a \in Addresses(tracker.alloc) <=> (a \in DOMAIN live /\ a \in seen)
            /\ a \in Addresses(tracker.freed) <=> (a \notin DOMAIN live /\ a \in seen)

\* No use after free goes unwatched: with check_uaf on, every freed chunk
\* carries an enabled watchpoint from the return of free() until a traced
\* allocation has covered its address, however many watchpoints the handlers
\* of other threads removed in between.
FreedIsWatched ==
    ("uaf" \in Checks /\ sets = 1) =>
        \A a \in Addresses(tracker.freed) \ InFlight :
            a \in Range(tracker.wps) \/ a \in reused

\* Of what the command set up or recorded nothing outlives the program, even if it
\* ends inside a traced call, but for the watchpoints that are disabled by then.
CleanBetweenRuns ==
    ~alive => /\ tracker = NoChunks
              /\ sets = 0 /\ hooks = 0 /\ ~owned /\ hw

\* The enabled watchpoints are those of the freed chunks of this execution.
WatchesExact == FreedIsWatched /\ CleanBetweenRuns

-----------------------------------------------------------------------------
(* What the documents say and the code does not do *)

\* gef.py:9449: "when inferior quits, we need to clean everything for a next
\* execution": no watchpoint of the tracker is left in GDB?
NothingLeft == ~alive => disabled = {}

=============================================================================
