-------------------------- MODULE TaskQueueProofs --------------------------
(***************************************************************************)
(* The ring buffer of os/queue.c implements a FIFO for every NPROC, and    *)
(* never overflows.                                                        *)
(***************************************************************************)
EXTENDS TaskQueue, Sequences, FunctionTheorems, FiniteSetTheorems, SequenceTheorems, TLAPS

IInv == /\ QueueTypeOK
        /\ empty => front = tail
        /\ \A i \in 1 .. Count : data[SlotOf(i)] \in Elem
        /\ \A i, j \in 1 .. Count : data[SlotOf(i)] = data[SlotOf(j)] => i = j
        /\ ~panicked

\* An index wraps from NPROC - 1 to 0.
LEMMA StepLemma ==
    ASSUME NEW i \in 0 .. NPROC - 1
    PROVE  /\ Step(i) \in 0 .. NPROC - 1
           /\ Step(i) = IF i = NPROC - 1 THEN 0 ELSE i + 1
  BY SizeAssumption DEF Step

\* The slots of the queued entries are distinct indices of the ring, and the
\* slot behind the last one is tail.
LEMMA SlotLemma ==
    ASSUME IInv
    PROVE  /\ Count \in 0 .. NPROC
           /\ \A i \in 1 .. NPROC : SlotOf(i) \in 0 .. NPROC - 1
           /\ \A i, j \in 1 .. NPROC : SlotOf(i) = SlotOf(j) => i = j
           /\ Count < NPROC => SlotOf(Count + 1) = tail
           /\ Count = NPROC <=> ~empty /\ front = tail
  BY SizeAssumption DEF IInv, QueueTypeOK, Count, SlotOf

\* A push into a ring that is not full appends to the contents.
LEMMA PushLemma ==
    ASSUME IInv, NEW e \in Elem, PushQueue(e), empty \/ front # tail
    PROVE  /\ Count < NPROC
           /\ Count' = Count + 1
           /\ \A i \in 1 .. Count : data'[SlotOf(i)'] = data[SlotOf(i)]
           /\ \A k : k = Count + 1 => data'[SlotOf(k)'] = e
<1>1. Count \in 0 .. NPROC - 1 /\ SlotOf(Count + 1) = tail
  BY SlotLemma, SizeAssumption
<1>2. Count' = Count + 1
  <2>1. /\ front \in 0 .. NPROC - 1 /\ tail \in 0 .. NPROC - 1
        /\ empty \in BOOLEAN /\ empty => front = tail
    BY DEF IInv, QueueTypeOK
  <2>2. /\ tail' = IF tail = NPROC - 1 THEN 0 ELSE tail + 1
        /\ front' = front /\ empty' = FALSE
    BY <2>1, StepLemma DEF PushQueue
  <2>3. CASE empty
    BY <2>1, <2>2, <2>3, SizeAssumption DEF Count
  <2>4. CASE ~empty /\ front < tail
    BY <2>1, <2>2, <2>4, SizeAssumption DEF Count
  <2>5. CASE ~empty /\ tail < front
    BY <2>1, <2>2, <2>5, SizeAssumption DEF Count
  <2> QED
    BY <2>1, <2>3, <2>4, <2>5, SizeAssumption
<1>3. \A i : SlotOf(i)' = SlotOf(i)
  BY DEF SlotOf, PushQueue
<1>4. data' = [data EXCEPT ![tail] = e]
  BY DEF PushQueue
<1>5. \A i \in 1 .. Count : SlotOf(i) \in 0 .. NPROC - 1 /\ SlotOf(i) # tail
  BY <1>1, SlotLemma, SizeAssumption
<1>6. tail \in DOMAIN data
  BY SizeAssumption DEF IInv, QueueTypeOK
<1>7. \A i \in 1 .. Count : data'[SlotOf(i)'] = data[SlotOf(i)]
  BY <1>3, <1>4, <1>5
<1>8. \A k : k = Count + 1 => data'[SlotOf(k)'] = e
  BY <1>1, <1>3, <1>4, <1>6
<1> QED
  BY <1>1, <1>2, <1>7, <1>8, SizeAssumption

\* A pop from a ring that is not empty removes the oldest entry.
LEMMA PopLemma ==
    ASSUME IInv, PopQueue, ~empty
    PROVE  /\ Count > 0
           /\ Count' = Count - 1
           /\ \A i \in 1 .. Count - 1 : data'[SlotOf(i)'] = data[SlotOf(i + 1)]
           /\ ret' = data[SlotOf(1)]
<1>1. /\ front \in 0 .. NPROC - 1 /\ tail \in 0 .. NPROC - 1
      /\ empty \in BOOLEAN
  BY DEF IInv, QueueTypeOK
<1>2. /\ front' = IF front = NPROC - 1 THEN 0 ELSE front + 1
      /\ tail' = tail /\ data' = data /\ ret' = data[front]
      /\ empty' = (front' = tail)
  BY <1>1, StepLemma DEF PopQueue
<1>3. Count > 0 /\ Count' = Count - 1
  <2>1. Count = IF front < tail THEN tail - front ELSE NPROC - front + tail
    BY DEF Count
  <2>2. CASE front' = tail
    <3>1. Count' = 0
      BY <1>2, <2>2 DEF Count
    <3> QED
      BY <1>1, <1>2, <2>1, <2>2, <3>1, SizeAssumption
  <2>3. CASE front' # tail
    <3>1. Count' = IF front' < tail THEN tail - front'
                                    ELSE NPROC - front' + tail
      BY <1>2, <2>3 DEF Count
    <3> QED
      BY <1>1, <1>2, <2>1, <2>3, <3>1, SizeAssumption
  <2> QED
    BY <2>2, <2>3
<1>4. SlotOf(1) = front
  BY <1>1, SizeAssumption DEF SlotOf
<1>5. ASSUME NEW i \in 1 .. NPROC - 1
      PROVE  SlotOf(i)' = SlotOf(i + 1)
  BY <1>1, <1>2, SizeAssumption DEF SlotOf
<1>6. Count - 1 <= NPROC - 1 /\ Count \in Nat
  BY SlotLemma, SizeAssumption
<1>7. ASSUME NEW i \in 1 .. Count - 1
      PROVE  data'[SlotOf(i)'] = data[SlotOf(i + 1)]
  <2>1. i \in 1 .. NPROC - 1
    BY <1>6, SizeAssumption
  <2> QED
    BY <1>2, <1>5, <2>1
<1> QED
  BY <1>2, <1>3, <1>4, <1>7

\* A full ring of distinct entries holds every process, so the one that is
\* pushed, which is not in it, finds room.
LEMMA RoomLemma ==
    ASSUME IInv, NEW e \in Elem, PushQueue(e)
    PROVE  empty \/ front # tail
<1> SUFFICES ASSUME ~empty /\ front = tail PROVE FALSE
  OBVIOUS
<1> DEFINE f == [i \in 1 .. NPROC |-> data[SlotOf(i)]]
<1>1. Count = NPROC
  BY SlotLemma
<1>2. f \in Injection(1 .. NPROC, Elem)
  BY <1>1 DEF IInv, Injection, IsInjective
<1>3. Cardinality(1 .. NPROC) = Cardinality(Elem)
  BY FS_Interval, SizeAssumption
<1>4. f \in Surjection(1 .. NPROC, Elem)
  BY <1>2, <1>3, FS_Injection, SizeAssumption
<1>5. PICK i \in 1 .. NPROC : data[SlotOf(i)] = e
  BY <1>4 DEF Surjection
<1> QED
  BY <1>1, <1>5 DEF PushQueue, Contents

-----------------------------------------------------------------------------
(* The invariant *)

\* init_queue() establishes the invariant.
LEMMA InitInv == InitQueue => IInv
<1> SUFFICES ASSUME InitQueue PROVE IInv
  OBVIOUS
<1>1. /\ data \in [0 .. QUEUE_SIZE - 1 -> Elem \cup {NoElem}]
      /\ front \in 0 .. NPROC - 1 /\ tail \in 0 .. NPROC - 1 /\ front = tail
  BY SizeAssumption DEF InitQueue
<1>2. empty \in BOOLEAN /\ panicked \in BOOLEAN /\ ~panicked
  BY DEF InitQueue
<1>3. Count = 0 /\ ret \in Elem \cup {NoElem}
  BY DEF InitQueue, Count
<1> QED
  BY <1>1, <1>2, <1>3 DEF IInv, QueueTypeOK

\* push_queue() and pop_queue() keep the invariant.
LEMMA NextInv == IInv /\ [QueueNext]_queueVars => IInv'
<1> SUFFICES ASSUME IInv, [QueueNext]_queueVars PROVE IInv'
  OBVIOUS
<1>1. CASE UNCHANGED queueVars
  BY <1>1 DEF IInv, queueVars, QueueTypeOK, Count, SlotOf
<1>2. ASSUME NEW e \in Elem, PushQueue(e) PROVE IInv'
  <2>1. /\ empty \/ front # tail
        /\ Count < NPROC /\ Count \in Nat
        /\ Count' = Count + 1
        /\ \A i \in 1 .. Count : data'[SlotOf(i)'] = data[SlotOf(i)]
        /\ \A k : k = Count + 1 => data'[SlotOf(k)'] = e
    BY <1>2, RoomLemma, PushLemma, SlotLemma
  <2>2. /\ tail' = Step(tail) /\ empty' = FALSE /\ panicked' = FALSE
        /\ data' = [data EXCEPT ![tail] = e] /\ UNCHANGED <<front, ret>>
    BY <1>2, <2>1 DEF PushQueue
  <2>3. QueueTypeOK'
    BY <2>2, StepLemma DEF IInv, QueueTypeOK
  <2>4. \A i \in 1 .. Count : data[SlotOf(i)] # e
    BY <1>2 DEF PushQueue, Contents
  <2>5. \A i \in 1 .. Count' : i \in 1 .. Count \/ i = Count + 1
    BY <2>1
  <2>6. \A i \in 1 .. Count' : data'[SlotOf(i)'] \in Elem
    BY <2>1, <2>5 DEF IInv
  <2>7. \A i, j \in 1 .. Count' :
            data'[SlotOf(i)'] = data'[SlotOf(j)'] => i = j
    BY <2>1, <2>4, <2>5 DEF IInv
  <2> QED
    BY <2>2, <2>3, <2>6, <2>7 DEF IInv
<1>3. ASSUME PopQueue, empty PROVE IInv'
  BY <1>3 DEF PopQueue, IInv, QueueTypeOK, Count, SlotOf
<1>4. ASSUME PopQueue, ~empty PROVE IInv'
  <2>1. /\ Count > 0 /\ Count \in Nat
        /\ Count' = Count - 1
        /\ \A i \in 1 .. Count - 1 : data'[SlotOf(i)'] = data[SlotOf(i + 1)]
        /\ ret' = data[SlotOf(1)]
    BY <1>4, PopLemma, SlotLemma
  <2>2. /\ front' = Step(front) /\ empty' = (front' = tail)
        /\ UNCHANGED <<data, tail, panicked>>
    BY <1>4 DEF PopQueue
  <2>3. ret' \in Elem
    BY <2>1 DEF IInv
  <2>4. QueueTypeOK'
    BY <2>2, <2>3, StepLemma DEF IInv, QueueTypeOK
  <2>5. \A i \in 1 .. Count' : i \in 1 .. Count - 1 /\ i + 1 \in 1 .. Count
    BY <2>1
  <2>6. \A i \in 1 .. Count' : data'[SlotOf(i)'] \in Elem
    BY <2>1, <2>5 DEF IInv
  <2>7. \A i, j \in 1 .. Count' :
            data'[SlotOf(i)'] = data'[SlotOf(j)'] => i = j
    <3> SUFFICES ASSUME NEW i \in 1 .. Count', NEW j \in 1 .. Count',
                        data'[SlotOf(i)'] = data'[SlotOf(j)']
                 PROVE  i = j
      OBVIOUS
    <3>1. data[SlotOf(i + 1)] = data[SlotOf(j + 1)]
      BY <2>1, <2>5
    <3>2. i + 1 = j + 1
      BY <2>5, <3>1 DEF IInv
    <3> QED
      BY <3>2, <2>1
  <2> QED
    BY <2>2, <2>4, <2>6, <2>7 DEF IInv
<1> QED
  BY <1>1, <1>2, <1>3, <1>4 DEF QueueNext

-----------------------------------------------------------------------------
(* Theorems *)

\* The inductive invariant of the ring.
THEOREM Invariance == QueueSpec => []IInv
  BY InitInv, NextInv, PTL DEF QueueSpec

\* front and tail stay inside the ring (os/queue.h).
THEOREM TypeCorrect == QueueSpec => []QueueTypeOK
  BY Invariance, PTL DEF IInv

\* push_queue() never panics with "queue overflow" (os/queue.c).
THEOREM NeverPanics == QueueSpec => []NoPanic
  BY Invariance, PTL DEF IInv, NoPanic

\* The ring of os/queue.h stays in shape and never panics, for every NPROC.
THEOREM RingStaysSound == QueueSpec => []RingSound
  BY TypeCorrect, NeverPanics, PTL DEF RingSound

\* The contents are a sequence of Count processes.
ContentsOK == Contents \in Seq(Elem) /\ Len(Contents) = Count

\* The contents of the ring are a sequence of processes of length Count.
LEMMA ContentsType == IInv => ContentsOK
<1> SUFFICES ASSUME IInv PROVE ContentsOK
  OBVIOUS
<1>1. Count \in Nat /\ \A i \in 1 .. Count : data[SlotOf(i)] \in Elem
  BY SlotLemma, SizeAssumption DEF IInv
<1> QED
  BY <1>1 DEF Contents, ContentsOK

\* Every step of the ring is a step of the FIFO.
LEMMA StepRefines ==
    IInv /\ ContentsOK /\ ContentsOK' /\ [QueueNext]_queueVars
       => [Queue!Next]_<<Contents, ret>>
<1> SUFFICES ASSUME IInv, ContentsOK, ContentsOK', [QueueNext]_queueVars
             PROVE  [Queue!Next]_<<Contents, ret>>
  OBVIOUS
<1>0. /\ Contents \in Seq(Elem) /\ Len(Contents) = Count
      /\ Contents' \in Seq(Elem) /\ Len(Contents') = Count'
      /\ Count \in Nat /\ Count' \in Nat
  BY LenProperties DEF ContentsOK
<1>1. CASE UNCHANGED queueVars
  BY <1>1 DEF queueVars, Contents, Count, SlotOf
<1>2. ASSUME NEW e \in Elem, PushQueue(e) PROVE Queue!Next
  <2>1. /\ Count' = Count + 1
        /\ \A i \in 1 .. Count : data'[SlotOf(i)'] = data[SlotOf(i)]
        /\ \A k : k = Count + 1 => data'[SlotOf(k)'] = e
    BY <1>2, RoomLemma, PushLemma, SlotLemma
  <2>2. \A i \in 1 .. Count + 1 :
            Contents'[i] = IF i = Count + 1 THEN e ELSE Contents[i]
    BY <1>0, <2>1 DEF Contents
  <2>3. /\ Append(Contents, e) \in Seq(Elem)
        /\ Len(Append(Contents, e)) = Count + 1
        /\ \A i \in 1 .. Count + 1 :
              Append(Contents, e)[i] = IF i = Count + 1 THEN e ELSE Contents[i]
    BY <1>0
  <2>4. Contents' = Append(Contents, e)
    BY <1>0, <2>1, <2>2, <2>3, SeqEqual
  <2> QED
    BY <1>2, <2>4 DEF PushQueue, Queue!Next, Queue!Push
<1>3. ASSUME PopQueue, empty PROVE Queue!Next
  <2>1. Contents = <<>> /\ Contents' = Contents
    <3>1. Count = 0 /\ Count' = 0
      BY <1>3 DEF PopQueue, Count
    <3> QED
      BY <1>0, <3>1
  <2> QED
    BY <1>3, <2>1 DEF PopQueue, Queue!Next, Queue!Pop
<1>4. ASSUME PopQueue, ~empty PROVE Queue!Next
  <2>1. /\ Count > 0 /\ Count' = Count - 1
        /\ \A i \in 1 .. Count - 1 : data'[SlotOf(i)'] = data[SlotOf(i + 1)]
        /\ ret' = data[SlotOf(1)]
    BY <1>4, PopLemma
  <2>2. Contents # <<>> /\ Head(Contents) = Contents[1] /\ 1 \in 1 .. Count
    BY <1>0, <2>1
  <2>3. ret' = Head(Contents)
    BY <2>1, <2>2 DEF Contents
  <2>4. /\ Tail(Contents) \in Seq(Elem) /\ Len(Tail(Contents)) = Count - 1
        /\ \A i \in 1 .. Count - 1 : Tail(Contents)[i] = Contents[i + 1]
    BY <1>0, <2>2, HeadTailProperties
  <2>5. \A i \in 1 .. Count - 1 : Contents'[i] = Contents[i + 1]
    <3>1. \A i \in 1 .. Count - 1 : i \in 1 .. Count' /\ i + 1 \in 1 .. Count
      BY <1>0, <2>1
    <3> QED
      BY <2>1, <3>1 DEF Contents
  <2>6. Contents' = Tail(Contents)
    BY <1>0, <2>1, <2>4, <2>5, SeqEqual
  <2> QED
    BY <2>2, <2>3, <2>6 DEF Queue!Next, Queue!Pop
<1> QED
  BY <1>1, <1>2, <1>3, <1>4 DEF QueueNext

\* os/queue.c is a FIFO, for every size of the process table.
THEOREM RingIsFifo == QueueSpec => IsFifo
<1>1. InitQueue => Queue!Init
  <2> SUFFICES ASSUME InitQueue PROVE Contents = <<>> /\ ret = NoElem
    BY DEF Queue!Init
  <2>1. Count = 0 /\ ret = NoElem
    BY DEF InitQueue, Count
  <2> QED
    BY <2>1 DEF Contents
<1> QED
  BY <1>1, StepRefines, ContentsType, Invariance, PTL DEF QueueSpec, IsFifo, Queue!Spec
=============================================================================
