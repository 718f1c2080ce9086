----------------------------- MODULE TaskQueue -----------------------------
(***************************************************************************)
(* The ring buffer of os/queue.c, as os/sched.c uses it for task_queue.    *)
(* Both operations run under q->lock, so each is one step.  The array has  *)
(* QUEUE_SIZE entries but the indices wrap at NPROC.  add_task() pushes a  *)
(* process only when it is not queued (Sched!NoDuplicates, proved there).  *)
(***************************************************************************)
EXTENDS Naturals, FiniteSets

CONSTANTS Elem,       \* the processes of the pool
          NoElem,     \* NULL
          NPROC,      \* the size of the process table
          QUEUE_SIZE  \* the size of the array data[]

ASSUME SizeAssumption ==
    /\ NPROC \in Nat \ {0} /\ QUEUE_SIZE \in Nat /\ NPROC <= QUEUE_SIZE
    /\ IsFiniteSet(Elem) /\ Cardinality(Elem) = NPROC
    /\ NoElem \notin Elem

VARIABLES data, front, tail, \* struct queue
          empty,             \* q->empty
          ret,               \* what the last pop_queue() returned
          panicked           \* push_queue() called panic("queue overflow")

queueVars == <<data, front, tail, empty, ret, panicked>>

QueueTypeOK ==
    /\ data \in [0 .. QUEUE_SIZE - 1 -> Elem \cup {NoElem}]
    /\ front \in 0 .. NPROC - 1
    /\ tail \in 0 .. NPROC - 1
    /\ empty \in BOOLEAN
    /\ ret \in Elem \cup {NoElem}
    /\ panicked \in BOOLEAN

\* How many entries are queued: front = tail means none or all.
Count == IF empty THEN 0
         ELSE IF front < tail THEN tail - front
         ELSE NPROC - front + tail

\* The array index of the i-th entry, i = 1 being the oldest.
SlotOf(i) == IF front + i - 1 < NPROC THEN front + i - 1
                                      ELSE front + i - 1 - NPROC

\* The queued pointers, oldest first.
Contents == [i \in 1 .. Count |-> data[SlotOf(i)]]

-----------------------------------------------------------------------------
\* init_queue() on a static, zeroed struct queue.
InitQueue ==
    /\ data = [i \in 0 .. QUEUE_SIZE - 1 |-> NoElem]
    /\ front = 0 /\ tail = 0 /\ empty = TRUE
    /\ ret = NoElem /\ panicked = FALSE

\* The successor of an index.
Step(i) == (i + 1) % NPROC

\* Mutant: push_queue() takes front = tail for full without testing q->empty.
PushQueueFull(e) ==
    /\ e \notin {Contents[i] : i \in DOMAIN Contents}
    /\ ~panicked
    /\ IF front = tail
       THEN panicked' = TRUE /\ UNCHANGED <<data, tail, empty>>
       ELSE /\ empty' = FALSE
            /\ data' = [data EXCEPT ![tail] = e]
            /\ tail' = Step(tail)
            /\ panicked' = FALSE
    /\ UNCHANGED <<front, ret>>

\* push_queue()
PushQueue(e) ==
    /\ e \notin {Contents[i] : i \in DOMAIN Contents}
    /\ ~panicked
    /\ IF ~empty /\ front = tail
       THEN panicked' = TRUE /\ UNCHANGED <<data, tail, empty>>
       ELSE /\ empty' = FALSE
            /\ data' = [data EXCEPT ![tail] = e]
            /\ tail' = Step(tail)
            /\ panicked' = FALSE
    /\ UNCHANGED <<front, ret>>

\* Mutant: pop_queue() forgets to set q->empty when it takes the last entry.
PopQueueStale ==
    /\ ~panicked
    /\ IF empty
       THEN ret' = NoElem /\ UNCHANGED <<front, empty>>
       ELSE /\ ret' = data[front]
            /\ front' = Step(front)
            /\ empty' = empty
    /\ UNCHANGED <<data, tail, panicked>>

\* pop_queue()
PopQueue ==
    /\ ~panicked
    /\ IF empty
       THEN ret' = NoElem /\ UNCHANGED <<front, empty>>
       ELSE /\ ret' = data[front]
            /\ front' = Step(front)
            /\ empty' = (front' = tail)
    /\ UNCHANGED <<data, tail, panicked>>

QueueNext == PopQueue \/ \E e \in Elem : PushQueue(e)

QueueSpec == InitQueue /\ [][QueueNext]_queueVars

-----------------------------------------------------------------------------
(* Properties *)

\* The ring is a FIFO: nothing is lost, duplicated or reordered at any
\* position of front and tail, through every wrap-around, full or empty.
Queue == INSTANCE Fifo WITH items <- Contents
IsFifo == Queue!Spec

\* push_queue() never panics: a full ring holds every process of the pool, and
\* the one that is pushed is not in it.
NoPanic == ~panicked

\* front and tail stay inside the ring and push_queue() never panics, after any
\* number of wrap-arounds and at every fill level.
RingSound == QueueTypeOK /\ NoPanic
=============================================================================
