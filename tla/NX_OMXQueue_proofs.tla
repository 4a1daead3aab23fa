------------------------- MODULE NX_OMXQueue_proofs -------------------------
(* The ring buffer's invariants, and that it implements the bounded FIFO,    *)
(* for every capacity up to NX_MAX_QUEUE_ELEMENT and every set of elements.  *)
EXTENDS NX_OMXQueue, TLAPS

\* The inductive invariant: the typing of the structure, the agreement of head,
\* tail and curElements, and that every live slot holds a pushed element.
IInv == TypeOK /\ RingConsistent /\ NoGarbage

\* The step of an index around the ring stays inside it, and is the increment
\* except at the end.
LEMMA WrapStep ==
  ASSUME NEW m \in Nat \ {0}, NEW k \in 0 .. m - 1
  PROVE  /\ (k + 1) % m \in 0 .. m - 1
         /\ (k + 1) % m = IF k + 1 = m THEN 0 ELSE k + 1
  OBVIOUS

\* Reducing an index that is already inside the ring does nothing, and the first
\* one outside it becomes 0.
LEMMA WrapEnd ==
  ASSUME NEW m \in Nat \ {0}, NEW k \in 0 .. m
  PROVE  k % m = IF k = m THEN 0 ELSE k
  OBVIOUS

\* Slot 0 is inside every ring.
LEMMA ZeroWrap == ASSUME NEW m \in Nat \ {0} PROVE 0 % m = 0
  OBVIOUS

\* The initial state is typed, its ring is empty and consistent.
LEMMA InitIInv == Init => IInv
<1> SUFFICES ASSUME Init PROVE IInv
  OBVIOUS
<1>1. /\ pElements \in [Slots -> Elements \cup {Garbage}]
      /\ head \in Slots
      /\ tail \in Slots
  BY QueueAssumption DEF Init, Slots
<1>2. /\ maxElement \in 0..NX_MAX_QUEUE_ELEMENT
      /\ curElements \in 0..NX_MAX_QUEUE_ELEMENT
  BY QueueAssumption DEF Init
<1>3. bEnabled \in BOOLEAN /\ deinit \in BOOLEAN
  BY DEF Init
<1>4. RingConsistent /\ NoGarbage
  BY DEF Init, RingConsistent, NoGarbage
<1> QED
  BY <1>1, <1>2, <1>3, <1>4 DEF IInv, TypeOK

\* Clearing the structure re-establishes the part of the invariant that is about
\* the slots and the indices.
LEMMA ClearedRing ==
  ASSUME Cleared, maxElement' \in 0..NX_MAX_QUEUE_ELEMENT
  PROVE  /\ pElements' \in [Slots -> Elements \cup {Garbage}]
         /\ head' \in Slots
         /\ tail' \in Slots
         /\ curElements' \in 0..NX_MAX_QUEUE_ELEMENT
         /\ RingConsistent'
         /\ NoGarbage'
<1>1. /\ pElements' \in [Slots -> Elements \cup {Garbage}]
      /\ head' \in Slots
      /\ tail' \in Slots
      /\ curElements' \in 0..NX_MAX_QUEUE_ELEMENT
  BY QueueAssumption DEF Cleared, Slots
<1>2. NoGarbage'
  BY DEF Cleared, NoGarbage
<1>3. RingConsistent'
  <2>1. CASE maxElement' = 0
    BY <2>1 DEF Cleared, RingConsistent
  <2>2. CASE maxElement' # 0
    <3>1. maxElement' \in Nat \ {0}
      BY <2>2, QueueAssumption
    <3>2. SlotAt(curElements)' = 0
      <4>1. head' = 0 /\ curElements' = 0
        BY DEF Cleared
      <4>2. head' + curElements' = 0
        BY <4>1
      <4>3. head' + curElements' < maxElement'
        BY <3>1, <4>1
      <4> QED
        BY <4>2, <4>3 DEF SlotAt
    <3>3. SlotAt(curElements)' % maxElement' = 0
      BY <3>1, <3>2, ZeroWrap
    <3> QED
      BY <3>1, <3>3 DEF Cleared, RingConsistent
  <2> QED
    BY <2>1, <2>2
<1> QED
  BY <1>1, <1>2, <1>3

\* Where an enabled queue that is not full writes: the first slot after the live
\* ones.
LEMMA PushSlots ==
  ASSUME IInv, curElements < maxElement
  PROVE  /\ head \in 0 .. maxElement - 1
         /\ tail \in 0 .. maxElement - 1
         /\ maxElement \in Nat \ {0}
         /\ maxElement <= NX_MAX_QUEUE_ELEMENT
         /\ curElements \in 0 .. maxElement - 1
         /\ tail = SlotAt(curElements)
         /\ tail \in Slots
         /\ \A i \in 0 .. curElements - 1 : SlotAt(i) # tail /\ SlotAt(i) \in Slots
<1> USE DEF IInv
<1>1. /\ maxElement \in Nat \ {0}
      /\ maxElement <= NX_MAX_QUEUE_ELEMENT
      /\ curElements \in 0 .. maxElement - 1
  BY QueueAssumption DEF TypeOK
<1>2. head \in 0 .. maxElement - 1 /\ tail = SlotAt(curElements) % maxElement
  BY <1>1 DEF TypeOK, RingConsistent, Slots
<1>3. SlotAt(curElements) \in 0 .. maxElement - 1
  BY <1>1, <1>2 DEF SlotAt
<1>4. SlotAt(curElements) % maxElement = SlotAt(curElements)
  BY <1>1, <1>3, WrapEnd
<1>5. \A i \in 0 .. curElements - 1 : SlotAt(i) # SlotAt(curElements) /\ SlotAt(i) \in Slots
  BY <1>1, <1>2, QueueAssumption DEF SlotAt, Slots
<1> QED
  BY <1>1, <1>2, <1>3, <1>4, <1>5 DEF TypeOK

\* A push writes the one slot that is not live, so the live ones are unharmed.
LEMMA PushIInv ==
  ASSUME IInv, NEW e \in Elements, NX_PushQueue(e)
  PROVE  IInv'
<1> USE DEF IInv
<1>0. curElements < maxElement
  BY DEF NX_PushQueue
<1>1. /\ head \in 0 .. maxElement - 1
      /\ tail \in 0 .. maxElement - 1
      /\ maxElement \in Nat \ {0}
      /\ maxElement <= NX_MAX_QUEUE_ELEMENT
      /\ curElements \in 0 .. maxElement - 1
      /\ tail = SlotAt(curElements)
      /\ tail \in Slots
      /\ \A i \in 0 .. curElements - 1 : SlotAt(i) # tail /\ SlotAt(i) \in Slots
  BY <1>0, PushSlots
<1>2. tail' \in 0 .. maxElement - 1 /\ tail' = IF tail + 1 = maxElement THEN 0 ELSE tail + 1
  BY <1>1, WrapStep DEF NX_PushQueue
<1>3. /\ pElements' \in [Slots -> Elements \cup {Garbage}]
      /\ head' \in Slots
      /\ tail' \in Slots
      /\ maxElement' \in 0..NX_MAX_QUEUE_ELEMENT
      /\ curElements' \in 0..NX_MAX_QUEUE_ELEMENT
  BY <1>1, <1>2, QueueAssumption DEF NX_PushQueue, TypeOK, Slots
<1>4. bEnabled' \in BOOLEAN /\ deinit' \in BOOLEAN
  BY DEF NX_PushQueue, TypeOK
<1>5. RingConsistent'
  <2>1. /\ curElements' = curElements + 1
        /\ head' = head
        /\ maxElement' = maxElement
    BY DEF NX_PushQueue
  <2>2. SlotAt(curElements)' = tail'
    BY <1>1, <1>2, <2>1 DEF SlotAt
  <2>3. tail' = SlotAt(curElements)' % maxElement
    BY <1>1, <1>2, <2>2, WrapEnd
  <2> QED
    BY <1>1, <2>1, <2>3 DEF RingConsistent
<1>6. NoGarbage'
  <2> SUFFICES ASSUME NEW i \in 0 .. curElements
               PROVE  pElements'[SlotAt(i)] \in Elements
    BY <1>1 DEF NoGarbage, NX_PushQueue, SlotAt
  <2>1. CASE i = curElements
    BY <1>1, <2>1 DEF NX_PushQueue, TypeOK
  <2>2. CASE i # curElements
    BY <1>1, <2>2 DEF NX_PushQueue, TypeOK, NoGarbage
  <2> QED
    BY <2>1, <2>2
<1> QED
  BY <1>3, <1>4, <1>5, <1>6 DEF TypeOK

\* A pop shifts the live slots by one place.
LEMMA PopIInv ==
  ASSUME IInv, NX_PopQueue
  PROVE  IInv'
<1> USE DEF IInv
<1>1. /\ head \in 0 .. maxElement - 1
      /\ maxElement \in 1 .. NX_MAX_QUEUE_ELEMENT
      /\ curElements \in 1 .. maxElement
  BY QueueAssumption DEF NX_PopQueue, TypeOK, RingConsistent, Slots
<1>2. /\ head' \in 0 .. maxElement - 1
      /\ head' = IF head + 1 = maxElement THEN 0 ELSE head + 1
  BY <1>1, WrapStep DEF NX_PopQueue
<1>3. /\ pElements' \in [Slots -> Elements \cup {Garbage}]
      /\ head' \in Slots
      /\ tail' \in Slots
      /\ maxElement' \in 0..NX_MAX_QUEUE_ELEMENT
      /\ curElements' \in 0..NX_MAX_QUEUE_ELEMENT
  BY <1>1, <1>2, QueueAssumption DEF NX_PopQueue, TypeOK, Slots
<1>4. bEnabled' \in BOOLEAN /\ deinit' \in BOOLEAN
  BY DEF NX_PopQueue, TypeOK
<1>5. \A i \in 0 .. curElements - 1 : SlotAt(i)' \in 0 .. maxElement /\
          (i # curElements - 1 => SlotAt(i)' = SlotAt(i + 1))
  BY <1>1, <1>2 DEF NX_PopQueue, SlotAt
<1>6. RingConsistent'
  <2>1. /\ curElements' = curElements - 1
        /\ maxElement' = maxElement
        /\ tail' = tail
    BY DEF NX_PopQueue
  <2>2. SlotAt(curElements)' % maxElement = SlotAt(curElements) % maxElement
    <3>1. /\ SlotAt(curElements)' \in 0 .. maxElement
          /\ SlotAt(curElements) \in 0 .. maxElement
      BY <1>1, <1>2, <2>1 DEF SlotAt
    <3> QED
      BY <1>1, <1>2, <2>1, <3>1, WrapEnd DEF SlotAt
  <2> QED
    BY <1>1, <1>2, <2>1, <2>2 DEF RingConsistent
<1>7. NoGarbage'
  BY <1>1, <1>5 DEF NoGarbage, NX_PopQueue
<1> QED
  BY <1>3, <1>4, <1>6, <1>7 DEF TypeOK

\* Every step of the queue preserves the invariant.
LEMMA NextIInv == IInv /\ [Next]_vars => IInv'
<1> SUFFICES ASSUME IInv, [Next]_vars PROVE IInv'
  OBVIOUS
<1>1. ASSUME NEW n \in 0..NX_MAX_QUEUE_ELEMENT, NX_InitQueue(n) PROVE IInv'
  <2>1. bEnabled' \in BOOLEAN /\ deinit' \in BOOLEAN
    BY <1>1 DEF NX_InitQueue, IInv, TypeOK
  <2> QED
    BY <1>1, <2>1, ClearedRing DEF NX_InitQueue, IInv, TypeOK
<1>2. CASE NX_InitQueueFails
  <2>1. bEnabled' \in BOOLEAN /\ deinit' \in BOOLEAN
    BY <1>2 DEF NX_InitQueueFails, IInv, TypeOK
  <2>2. maxElement' \in 0..NX_MAX_QUEUE_ELEMENT
    BY <1>2, QueueAssumption DEF NX_InitQueueFails
  <2> QED
    BY <1>2, <2>1, <2>2, ClearedRing DEF NX_InitQueueFails, IInv, TypeOK
<1>3. ASSUME NEW e \in Elements, NX_PushQueue(e) PROVE IInv'
  BY <1>3, PushIInv
<1>4. CASE NX_PopQueue
  BY <1>4, PopIInv
<1>5. CASE NX_DeinitQueueDisable
  <2>1. bEnabled' \in BOOLEAN /\ deinit' \in BOOLEAN
    BY <1>5 DEF NX_DeinitQueueDisable
  <2>2. UNCHANGED <<pElements, head, tail, maxElement, curElements>>
    BY <1>5 DEF NX_DeinitQueueDisable
  <2> QED
    BY <2>1, <2>2 DEF IInv, TypeOK, RingConsistent, NoGarbage, SlotAt
<1>6. CASE NX_DeinitQueueClear
  <2>1. bEnabled' \in BOOLEAN /\ deinit' \in BOOLEAN
    BY <1>6 DEF NX_DeinitQueueClear
  <2>2. maxElement' \in 0..NX_MAX_QUEUE_ELEMENT
    BY <1>6, QueueAssumption DEF NX_DeinitQueueClear
  <2> QED
    BY <1>6, <2>1, <2>2, ClearedRing DEF NX_DeinitQueueClear, IInv, TypeOK
<1>7. CASE UNCHANGED vars
  BY <1>7 DEF vars, IInv, TypeOK, RingConsistent, NoGarbage, SlotAt
<1> QED
  BY <1>1, <1>2, <1>3, <1>4, <1>5, <1>6, <1>7 DEF Next

\* The indices and the count of the ring agree in every reachable state, and no
\* live slot is ever a cleared one.
THEOREM RingSafety == Spec => [](TypeOK /\ RingConsistent /\ NoGarbage)
<1>1. IInv => TypeOK /\ RingConsistent /\ NoGarbage
  BY DEF IInv
<1> QED
  BY InitIInv, NextIInv, <1>1, PTL DEF Spec

-----------------------------------------------------------------------------
(* Refinement: the steps of the ring buffer are steps of the bounded FIFO.   *)

\* The contents of the ring are a sequence of curElements pushed elements.
LEMMA ContentsSeq ==
  IInv => Contents \in Seq(Elements) /\ Len(Contents) = curElements
<1> SUFFICES ASSUME IInv
             PROVE  Contents \in Seq(Elements) /\ Len(Contents) = curElements
  OBVIOUS
<1>1. curElements \in Nat
  BY DEF IInv, TypeOK
<1>2. \A i \in 1 .. curElements : pElements[SlotAt(i - 1)] \in Elements
  BY <1>1 DEF IInv, NoGarbage
<1> QED
  BY <1>1, <1>2 DEF Contents

\* The initial contents are empty.
LEMMA InitFifo == Init => Fifo!FifoInit
<1> SUFFICES ASSUME Init PROVE Fifo!FifoInit
  OBVIOUS
<1>1. Contents = << >>
  BY DEF Init, Contents
<1>2. maxElement = 0
  BY DEF Init
<1>3. bEnabled = FALSE
  BY DEF Init
<1> QED
  BY <1>1, <1>2, <1>3 DEF Fifo!FifoInit

\* Cleared contents are empty.
LEMMA ClearedContents == ASSUME Cleared PROVE Contents' = << >>
  BY DEF Cleared, Contents

\* A push appends its element to the contents.
LEMMA PushContents ==
  ASSUME IInv, NEW e \in Elements, NX_PushQueue(e)
  PROVE  Contents' = Append(Contents, e) /\ Len(Contents) < maxElement
<1>1. /\ head \in 0 .. maxElement - 1
      /\ maxElement \in Nat \ {0}
      /\ curElements \in 0 .. maxElement - 1
      /\ tail = SlotAt(curElements)
      /\ tail \in Slots
      /\ \A i \in 0 .. curElements - 1 : SlotAt(i) # tail
  <2>1. curElements < maxElement
    BY DEF NX_PushQueue
  <2> QED
    BY <2>1, PushSlots
<1>2. /\ curElements' = curElements + 1
      /\ head' = head
      /\ maxElement' = maxElement
      /\ pElements' = [pElements EXCEPT ![tail] = e]
      /\ pElements \in [Slots -> Elements \cup {Garbage}]
  BY DEF NX_PushQueue, IInv, TypeOK
<1>3. \A i : SlotAt(i)' = SlotAt(i)
  BY <1>2 DEF SlotAt
<1>4. \A i \in 1 .. curElements : Contents'[i] = Contents[i]
  <2> SUFFICES ASSUME NEW i \in 1 .. curElements PROVE Contents'[i] = Contents[i]
    OBVIOUS
  <2>1. SlotAt(i - 1)' = SlotAt(i - 1) /\ SlotAt(i - 1) # tail
    BY <1>1, <1>3
  <2>2. pElements'[SlotAt(i - 1)] = pElements[SlotAt(i - 1)]
    BY <1>2, <2>1
  <2> QED
    BY <1>1, <1>2, <2>1, <2>2 DEF Contents
<1>5. Contents'[curElements + 1] = e
  <2>1. PICK c \in Nat : c = curElements
    BY <1>1
  <2>2. SlotAt(c)' = tail
    BY <1>1, <1>3, <2>1
  <2>3. pElements'[tail] = e
    BY <1>1, <1>2
  <2>4. Contents'[c + 1] = pElements'[SlotAt(c)']
    BY <1>2, <2>1 DEF Contents
  <2> QED
    BY <2>1, <2>2, <2>3, <2>4
<1>6. IInv'
  BY PushIInv
<1>7. IInv' => (Contents \in Seq(Elements) /\ Len(Contents) = curElements)'
  BY ContentsSeq, PTL
<1>8. /\ Contents \in Seq(Elements)
      /\ Len(Contents) = curElements
      /\ Contents' \in Seq(Elements)
      /\ Len(Contents') = curElements + 1
  BY <1>2, <1>6, <1>7, ContentsSeq
<1> QED
  BY <1>1, <1>4, <1>5, <1>8

\* A pop removes the oldest element of the contents.
LEMMA PopContents ==
  ASSUME IInv, NX_PopQueue
  PROVE  Contents' = Tail(Contents) /\ Contents # << >>
<1>1. /\ head \in 0 .. maxElement - 1
      /\ maxElement \in Nat \ {0}
      /\ curElements \in 1 .. maxElement
  BY QueueAssumption DEF NX_PopQueue, IInv, TypeOK, RingConsistent, Slots
<1>2. /\ curElements' = curElements - 1
      /\ maxElement' = maxElement
      /\ pElements' = pElements
  BY DEF NX_PopQueue
<1>3. head' = IF head + 1 = maxElement THEN 0 ELSE head + 1
  BY <1>1, WrapStep DEF NX_PopQueue
<1>4. \A i \in 0 .. curElements - 2 : SlotAt(i)' = SlotAt(i + 1)
  BY <1>1, <1>2, <1>3 DEF SlotAt
<1>5. \A i \in 1 .. curElements - 1 : Contents'[i] = Contents[i + 1]
  <2> SUFFICES ASSUME NEW i \in 1 .. curElements - 1
               PROVE  Contents'[i] = Contents[i + 1]
    OBVIOUS
  <2>1. SlotAt(i - 1)' = SlotAt(i)
    BY <1>1, <1>4
  <2>2. Contents'[i] = pElements[SlotAt(i)]
    BY <1>1, <1>2, <2>1 DEF Contents
  <2>3. Contents[i + 1] = pElements[SlotAt(i)]
    BY <1>1 DEF Contents
  <2> QED
    BY <2>2, <2>3
<1>6. IInv'
  BY PopIInv
<1>7. IInv' => (Contents \in Seq(Elements) /\ Len(Contents) = curElements)'
  BY ContentsSeq, PTL
<1>8. /\ Contents \in Seq(Elements)
      /\ Len(Contents) = curElements
      /\ Contents' \in Seq(Elements)
      /\ Len(Contents') = curElements - 1
  BY <1>2, <1>6, <1>7, ContentsSeq
<1> QED
  BY <1>1, <1>5, <1>8

\* Every step of the ring buffer is a step of the FIFO or leaves it unchanged.
LEMMA NextFifo == IInv /\ [Next]_vars => [Fifo!FifoNext]_(Fifo!fifoVars)
<1> SUFFICES ASSUME IInv, [Next]_vars PROVE [Fifo!FifoNext]_(Fifo!fifoVars)
  OBVIOUS
<1>1. ASSUME NEW n \in 0..NX_MAX_QUEUE_ELEMENT, NX_InitQueue(n) PROVE Fifo!FifoNext
  <2>1. Contents' = << >>
    BY <1>1, ClearedContents DEF NX_InitQueue
  <2> QED
    BY <1>1, <2>1 DEF NX_InitQueue, Fifo!Open, Fifo!FifoNext
<1>2. CASE NX_InitQueueFails
  <2>1. Contents' = << >>
    BY <1>2, ClearedContents DEF NX_InitQueueFails
  <2> QED
    BY <1>2, <2>1 DEF NX_InitQueueFails, Fifo!FailOpen, Fifo!FifoNext
<1>3. ASSUME NEW e \in Elements, NX_PushQueue(e) PROVE Fifo!FifoNext
  <2>1. Contents' = Append(Contents, e) /\ Len(Contents) < maxElement
    BY <1>3, PushContents
  <2> QED
    BY <1>3, <2>1 DEF NX_PushQueue, Fifo!Put, Fifo!FifoNext
<1>4. CASE NX_PopQueue
  <2>1. Contents' = Tail(Contents) /\ Contents # << >>
    BY <1>4, PopContents
  <2> QED
    BY <1>4, <2>1 DEF NX_PopQueue, Fifo!Take, Fifo!FifoNext
<1>5. CASE NX_DeinitQueueDisable
  <2>1. Contents' = Contents
    BY <1>5 DEF NX_DeinitQueueDisable, Contents, SlotAt
  <2> QED
    BY <1>5, <2>1 DEF NX_DeinitQueueDisable, Fifo!Close, Fifo!FifoNext
<1>6. CASE NX_DeinitQueueClear
  <2>1. Contents' = << >>
    BY <1>6, ClearedContents DEF NX_DeinitQueueClear
  <2> QED
    BY <1>6, <2>1 DEF NX_DeinitQueueClear, Fifo!FailOpen, Fifo!FifoNext
<1>7. CASE UNCHANGED vars
  <2>1. Contents' = Contents
    BY <1>7 DEF vars, Contents, SlotAt
  <2> QED
    BY <1>7, <2>1 DEF vars, Fifo!fifoVars
<1> QED
  BY <1>1, <1>2, <1>3, <1>4, <1>5, <1>6, <1>7 DEF Next

\* The ring buffer of NX_OMXQueue.c implements a bounded FIFO, however its
\* operations interleave.
THEOREM RingImplementsFIFO == Spec => ImplementsFIFO
<1>1. Spec => []IInv
  BY InitIInv, NextIInv, PTL DEF Spec
<1> QED
  BY <1>1, InitFifo, NextFifo, PTL DEF Spec, ImplementsFIFO, Fifo!FifoSpec

=============================================================================

