---------------------------- MODULE NX_OMXQueue ----------------------------
(* The ring buffer every OMX component queues its commands and its buffer    *)
(* headers in (omx/common/NX_OMXQueue.c).                                    *)
EXTENDS Integers, Sequences

CONSTANTS Elements,
          NX_MAX_QUEUE_ELEMENT,   \* slots of the array, 128 in the code
          Garbage                 \* a slot NxMemset cleared (a NULL pointer)

ASSUME QueueAssumption == /\ NX_MAX_QUEUE_ELEMENT \in Nat \ {0}
                          /\ Garbage \notin Elements

VARIABLES pElements,     \* the array of slots
          head,          \* slot of the oldest element
          tail,          \* slot the next push writes
          maxElement,    \* the size given to NX_InitQueue
          curElements,   \* how many elements are held
          bEnabled,      \* FALSE before NX_InitQueue and from NX_DeinitQueue on
          deinit         \* a thread is inside NX_DeinitQueue, between unlock and memset

vars == <<pElements, head, tail, maxElement, curElements, bEnabled, deinit>>

Slots == 0 .. NX_MAX_QUEUE_ELEMENT - 1

\* NxMemset( pQueue, 0, sizeof(NX_QUEUE) )
Cleared == /\ pElements' = [s \in Slots |-> Garbage]
           /\ head' = 0
           /\ tail' = 0
           /\ curElements' = 0

Init == /\ pElements = [s \in Slots |-> Garbage]
        /\ head = 0
        /\ tail = 0
        /\ maxElement = 0
        /\ curElements = 0
        /\ bEnabled = FALSE
        /\ deinit = FALSE

\* NX_InitQueue succeeds for every size the array can hold, 0 included.  The
\* components call it on a structure that is not in use.
NX_InitQueue(maxNumElement) ==
    /\ ~bEnabled
    /\ ~deinit
    /\ maxNumElement <= NX_MAX_QUEUE_ELEMENT
    /\ Cleared
    /\ maxElement' = maxNumElement
    /\ bEnabled' = TRUE
    /\ UNCHANGED deinit

\* It fails on a size that is too large, or when the mutex cannot be made; the
\* structure has been cleared by then.
NX_InitQueueFails ==
    /\ ~bEnabled
    /\ ~deinit
    /\ Cleared
    /\ maxElement' = 0
    /\ bEnabled' = FALSE
    /\ UNCHANGED deinit

\* Mutant: a push that wraps tail at the end of the array, not of the ring.
Mut_PushQueueNoWrap(pElement) ==
    /\ curElements < maxElement
    /\ bEnabled
    /\ pElements' = [pElements EXCEPT ![tail] = pElement]
    /\ tail' = (tail + 1) % NX_MAX_QUEUE_ELEMENT
    /\ curElements' = curElements + 1
    /\ UNCHANGED <<head, maxElement, bEnabled, deinit>>

NX_PushQueue(pElement) ==
    /\ curElements < maxElement
    /\ bEnabled
    /\ pElements' = [pElements EXCEPT ![tail] = pElement]
    /\ tail' = (tail + 1) % maxElement
    /\ curElements' = curElements + 1
    /\ UNCHANGED <<head, maxElement, bEnabled, deinit>>

\* Mutant: a pop that never wraps head.
Mut_PopQueueNoWrap ==
    /\ curElements # 0
    /\ bEnabled
    /\ head' = head + 1
    /\ curElements' = curElements - 1
    /\ UNCHANGED <<pElements, tail, maxElement, bEnabled, deinit>>

NX_PopQueue ==
    /\ curElements # 0
    /\ bEnabled
    /\ head' = (head + 1) % maxElement
    /\ curElements' = curElements - 1
    /\ UNCHANGED <<pElements, tail, maxElement, bEnabled, deinit>>

\* What NX_GetNextQueuInfo and NX_PopQueue hand to their caller.
NextElement == pElements[head]

\* NX_DeinitQueue disables the queue under its mutex, and clears it after the
\* unlock: other threads still call the queue in between.
NX_DeinitQueueDisable ==
    /\ ~deinit
    /\ bEnabled' = FALSE
    /\ deinit' = TRUE
    /\ UNCHANGED <<pElements, head, tail, maxElement, curElements>>

NX_DeinitQueueClear ==
    /\ deinit
    /\ Cleared
    /\ maxElement' = 0
    /\ bEnabled' = FALSE
    /\ deinit' = FALSE

Next == \/ \E n \in 0..NX_MAX_QUEUE_ELEMENT : NX_InitQueue(n)
        \/ NX_InitQueueFails
        \/ \E e \in Elements : NX_PushQueue(e)
        \/ NX_PopQueue
        \/ NX_DeinitQueueDisable
        \/ NX_DeinitQueueClear

Spec == Init /\ [][Next]_vars

-----------------------------------------------------------------------------
TypeOK == /\ pElements \in [Slots -> Elements \cup {Garbage}]
          /\ head \in Slots /\ tail \in Slots
          /\ maxElement \in 0..NX_MAX_QUEUE_ELEMENT
          /\ curElements \in 0..NX_MAX_QUEUE_ELEMENT
          /\ bEnabled \in BOOLEAN
          /\ deinit \in BOOLEAN

\* The slot i places after head.
SlotAt(i) == IF head + i < maxElement THEN head + i ELSE head + i - maxElement

\* The queue as a sequence: the slots from head on, around the end of the array.
Contents == [i \in 1..curElements |-> pElements[SlotAt(i - 1)]]

\* head, tail and curElements are three views of one fact, kept by three
\* separate assignments of NX_PushQueue and NX_PopQueue: tail is curElements
\* slots after head, around the end of the array, and no index leaves it.
RingConsistent == /\ curElements <= maxElement
                  /\ maxElement # 0 => /\ head < maxElement
                                       /\ tail = SlotAt(curElements) % maxElement
                  /\ maxElement = 0 => head = 0 /\ tail = 0

\* What a pop of an enabled queue yields was pushed: never a cleared slot and,
\* by the refinement below, never a slot already popped.
NoGarbage == \A i \in 0 .. curElements - 1 : pElements[SlotAt(i)] \in Elements

Fifo == INSTANCE BoundedFIFO WITH MaxCapacity <- NX_MAX_QUEUE_ELEMENT,
          fifo <- Contents, capacity <- maxElement, open <- bEnabled

\* The ring buffer implements the bounded FIFO.
ImplementsFIFO == Fifo!FifoSpec
=============================================================================
