-------------------------- MODULE NX_OMXSemaphore --------------------------
(* omx/common/NX_OMXSemaphore.c: a counting semaphore made of a pthread      *)
(* mutex, a condition variable and nValue.  A thread whose pend finds zero   *)
(* waits for a signal; when it has been signalled it competes for the mutex  *)
(* again and takes one without looking at nValue a second time ("if", not    *)
(* "while").                                                                 *)
EXTENDS Integers

CONSTANTS
  Threads,       \* the threads that pend
  Posters,       \* the threads that post
  nMaxValue,
  Modulus        \* of uint32, made small

ASSUME SemaphoreAssumption ==
  /\ nMaxValue \in Nat \ {0}
  /\ Modulus \in Nat /\ nMaxValue < Modulus

\* The discipline of use under which the semaphore is one: a single thread
\* pends it.
SinglePender == \A t, u \in Threads : t = u

VARIABLES
  nValue,
  pend           \* per thread: "no", "waiting" in pthread_cond_wait, "signalled"

vars == <<nValue, pend>>

Init == /\ nValue \in 0..nMaxValue
        /\ pend = [t \in Threads |-> "no"]

\* nValue-- on an unsigned integer.
Decremented == (nValue - 1 + Modulus) % Modulus

\* NX_PendSem up to the wait, or to its end if there is no need to wait.
NX_PendSem(t) ==
  /\ pend[t] = "no"
  /\ \/ /\ nValue = 0
        /\ pend' = [pend EXCEPT ![t] = "waiting"]
        /\ UNCHANGED nValue
     \/ /\ nValue # 0
        /\ nValue' = Decremented
        /\ UNCHANGED pend

\* pthread_cond_wait returns with the mutex held; the rest of NX_PendSem.
Wake(t) ==
  /\ pend[t] = "signalled"
  /\ nValue' = Decremented
  /\ pend' = [pend EXCEPT ![t] = "no"]

Mut_PostSemUnbounded ==
  /\ nValue' = nValue + 1
  /\ \/ /\ \A t \in Threads : pend[t] # "waiting"
        /\ UNCHANGED pend
     \/ \E t \in Threads : /\ pend[t] = "waiting"
                           /\ pend' = [pend EXCEPT ![t] = "signalled"]
Mut_PostSemNoSignal ==
  /\ nValue' = IF nValue >= nMaxValue THEN nValue ELSE nValue + 1
  /\ UNCHANGED pend
\* NX_PostSem: the count stops at nMaxValue, the signal is sent all the same.
\* It wakes one waiting thread, if there is one.
NX_PostSem ==
  /\ nValue' = IF nValue >= nMaxValue THEN nValue ELSE nValue + 1
  /\ \/ /\ \A t \in Threads : pend[t] # "waiting"
        /\ UNCHANGED pend
     \/ \E t \in Threads : /\ pend[t] = "waiting"
                           /\ pend' = [pend EXCEPT ![t] = "signalled"]

Next == \/ \E t \in Threads : NX_PendSem(t) \/ Wake(t)
        \/ \E p \in Posters : NX_PostSem

Spec == Init /\ [][Next]_vars

-----------------------------------------------------------------------------
TypeOK == /\ nValue \in 0 .. Modulus - 1
          /\ pend \in [Threads -> {"no", "waiting", "signalled"}]

\* The comment in NX_PendSem: a post that comes before the pend must not be
\* lost, and the thread must not wait then.  No thread sleeps while the count
\* is not zero, and a thread that is woken finds what it was woken for.
NoLostPost == \A t \in Threads : /\ pend[t] = "waiting" => nValue = 0
                                 /\ pend[t] = "signalled" => nValue > 0

Counting == INSTANCE CountingSemaphore WITH Maximum <- nMaxValue, count <- nValue

\* With its one pender the semaphore is the counting semaphore the components
\* are written for: it neither exceeds its maximum nor wraps below zero.
ImplementsCounting == Counting!SemSpec
=============================================================================
