---------------------------- MODULE BoundedFIFO ----------------------------
(* What the OMX queue promises its users: a FIFO of bounded capacity that    *)
(* can be closed.  A closed queue neither accepts nor yields an element.     *)
(* NX_OMXQueue implements this specification.                                *)
EXTENDS Naturals, Sequences

CONSTANTS Elements,      \* what may be queued (OMX buffer headers, commands)
          MaxCapacity    \* NX_MAX_QUEUE_ELEMENT

VARIABLES fifo,          \* the elements held, oldest first
          capacity,      \* how many it may hold
          open           \* does it accept and yield elements

fifoVars == <<fifo, capacity, open>>

FifoInit == /\ fifo = << >>
            /\ capacity = 0
            /\ open = FALSE

\* (Re)opening empties the queue and fixes its capacity.
Open(n) == /\ fifo' = << >>
           /\ capacity' = n
           /\ open' = TRUE

\* An initialisation that fails leaves an empty, closed queue.
FailOpen == /\ fifo' = << >>
            /\ capacity' = 0
            /\ open' = FALSE

Put(e) == /\ open
          /\ Len(fifo) < capacity
          /\ fifo' = Append(fifo, e)
          /\ UNCHANGED <<capacity, open>>

Take == /\ open
        /\ fifo # << >>
        /\ fifo' = Tail(fifo)
        /\ UNCHANGED <<capacity, open>>

Close == /\ open' = FALSE
         /\ UNCHANGED <<fifo, capacity>>

\* The storage of a closed queue is cleared.
Clear == /\ ~open
         /\ fifo' = << >>
         /\ capacity' = 0
         /\ UNCHANGED open

FifoNext == \/ \E n \in 0..MaxCapacity : Open(n)
            \/ FailOpen
            \/ \E e \in Elements : Put(e)
            \/ Take
            \/ Close
            \/ Clear

FifoSpec == FifoInit /\ [][FifoNext]_fifoVars
=============================================================================
