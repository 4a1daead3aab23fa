------------------------- MODULE CountingSemaphore -------------------------
(* What the OMX components expect of a semaphore: a count between zero and a *)
(* maximum; a post adds one unless the maximum is reached, and a pend that   *)
(* completes takes one that is there.                                        *)
EXTENDS Naturals

CONSTANT Maximum

VARIABLE count

SemInit == count \in 0..Maximum

SemPost == count < Maximum /\ count' = count + 1

SemTake == count > 0 /\ count' = count - 1

SemSpec == SemInit /\ [][SemPost \/ SemTake]_count
=============================================================================
