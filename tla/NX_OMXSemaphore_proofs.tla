----------------------- MODULE NX_OMXSemaphore_proofs -----------------------
(* NX_OMXSemaphore.c is a counting semaphore for every maximum and every     *)
(* number of posters, as long as a single thread pends it.                   *)
EXTENDS NX_OMXSemaphore, TLAPS

\* The count stays within the maximum, not only within the machine word.
Bounded == nValue \in 0..nMaxValue

IInv == TypeOK /\ Bounded /\ NoLostPost

\* Taking one from a count that is there does not wrap.
LEMMA DecrementedAbove ==
  ASSUME nValue \in 1..nMaxValue
  PROVE  Decremented = nValue - 1
<1>1. nValue - 1 \in 0 .. Modulus - 1
  BY SemaphoreAssumption
<1>2. QED
  BY <1>1, SemaphoreAssumption DEF Decremented

\* A semaphore just created satisfies the invariant.
LEMMA InitIInv == Init => IInv
BY SemaphoreAssumption DEF Init, IInv, TypeOK, Bounded, NoLostPost

\* A pend keeps the invariant: the only pender waits at zero, or takes one.
LEMMA PendIInv ==
  ASSUME SinglePender, IInv, NEW t \in Threads, NX_PendSem(t)
  PROVE  IInv'
<1>1. CASE nValue = 0
  <2>1. nValue' = nValue /\ pend' = [pend EXCEPT ![t] = "waiting"]
    BY <1>1 DEF NX_PendSem
  <2>2. QED
    BY <1>1, <2>1 DEF IInv, TypeOK, Bounded, NoLostPost, SinglePender
<1>2. CASE nValue # 0
  <2>1. nValue' = Decremented /\ pend' = pend /\ pend[t] = "no"
    BY <1>2 DEF NX_PendSem
  <2>2. nValue \in 1..nMaxValue
    BY <1>2, SemaphoreAssumption DEF IInv, Bounded
  <2>3. nValue' = nValue - 1
    BY <2>1, <2>2, DecrementedAbove
  <2>4. \A u \in Threads : pend[u] = "no"
    BY <2>1 DEF SinglePender
  <2>5. QED
    BY <2>1, <2>2, <2>3, <2>4, SemaphoreAssumption DEF IInv, TypeOK, Bounded, NoLostPost
<1>3. QED
  BY <1>1, <1>2

\* The woken thread finds the count it was woken for: nobody else pends.
LEMMA WakeIInv ==
  ASSUME SinglePender, IInv, NEW t \in Threads, Wake(t)
  PROVE  IInv' /\ nValue > 0 /\ nValue' = nValue - 1
<1>1. nValue \in 1..nMaxValue
  BY SemaphoreAssumption DEF IInv, Bounded, NoLostPost, Wake
<1>2. nValue' = nValue - 1
  BY <1>1, DecrementedAbove DEF Wake
<1>3. pend' = [u \in Threads |-> "no"]
  BY DEF Wake, SinglePender, IInv, TypeOK
<1>4. QED
  BY <1>1, <1>2, <1>3, SemaphoreAssumption DEF IInv, TypeOK, Bounded, NoLostPost

\* A post either finds the pender asleep, at zero, and wakes it, or leaves it.
LEMMA PostIInv ==
  ASSUME SinglePender, IInv, NX_PostSem
  PROVE  IInv' /\ (nValue' = nValue \/ (nValue < nMaxValue /\ nValue' = nValue + 1))
<1>1. nValue' = nValue \/ (nValue < nMaxValue /\ nValue' = nValue + 1)
  BY SemaphoreAssumption DEF NX_PostSem, IInv, Bounded
<1>2. nValue' >= nValue /\ nValue' \in 0..nMaxValue /\ nValue' > 0
  BY SemaphoreAssumption DEF NX_PostSem, IInv, Bounded
<1>3. CASE \A t \in Threads : pend[t] # "waiting"
  <2>1. pend' = pend
    BY <1>3 DEF NX_PostSem
  <2>2. QED
    BY <1>1, <1>2, <1>3, <2>1, SemaphoreAssumption DEF IInv, TypeOK, Bounded, NoLostPost
<1>4. CASE \E t \in Threads : pend[t] = "waiting"
  <2>1. PICK t \in Threads : pend[t] = "waiting" /\ pend' = [pend EXCEPT ![t] = "signalled"]
    BY <1>4 DEF NX_PostSem
  <2>2. \A u \in Threads : pend'[u] = "signalled"
    BY <2>1 DEF SinglePender, IInv, TypeOK
  <2>3. pend' \in [Threads -> {"no", "waiting", "signalled"}]
    BY <2>1 DEF IInv, TypeOK
  <2>4. QED
    BY <1>1, <1>2, <2>2, <2>3, SemaphoreAssumption DEF IInv, TypeOK, Bounded, NoLostPost
<1>5. QED
  BY <1>3, <1>4

\* So every step keeps the invariant.
LEMMA NextIInv == SinglePender /\ IInv /\ [Next]_vars => IInv'
<1> SUFFICES ASSUME SinglePender, IInv, [Next]_vars
             PROVE  IInv'
  OBVIOUS
<1>1. CASE Next
  BY <1>1, PendIInv, WakeIInv, PostIInv DEF Next
<1>2. CASE UNCHANGED vars
  BY <1>2 DEF vars, IInv, TypeOK, Bounded, NoLostPost
<1>3. QED
  BY <1>1, <1>2

\* NX_PendSem and NX_PostSem lose no post: the pender sleeps only at zero and,
\* once signalled, finds a count above zero.
THEOREM NoPostIsLost ==
  ASSUME SinglePender
  PROVE  Spec => []NoLostPost
<1>0. IInv /\ [Next]_vars => IInv'
  BY NextIInv
<1>1. Spec => []IInv
  BY <1>0, InitIInv, PTL DEF Spec
<1>2. IInv => NoLostPost
  BY DEF IInv
<1>3. QED
  BY <1>1, <1>2, PTL

\* NX_OMXSemaphore.c refines the counting semaphore for its single pender.
THEOREM SemaphoreCounts ==
  ASSUME SinglePender
  PROVE  Spec => ImplementsCounting
<1>0. IInv /\ [Next]_vars => IInv'
  BY NextIInv
<1>1. Spec => []IInv
  BY <1>0, InitIInv, PTL DEF Spec
<1>2. Init => Counting!SemInit
  BY DEF Init, Counting!SemInit
<1>3. IInv /\ [Next]_vars => [Counting!SemPost \/ Counting!SemTake]_nValue
  <2> SUFFICES ASSUME IInv, [Next]_vars
               PROVE  [Counting!SemPost \/ Counting!SemTake]_nValue
    OBVIOUS
  <2>1. ASSUME NEW t \in Threads, NX_PendSem(t)
        PROVE  [Counting!SemPost \/ Counting!SemTake]_nValue
    <3>1. CASE nValue = 0
      BY <2>1, <3>1 DEF NX_PendSem
    <3>2. CASE nValue # 0
      <4>1. nValue \in 1..nMaxValue
        BY <3>2, SemaphoreAssumption DEF IInv, Bounded
      <4>2. nValue' = nValue - 1
        BY <2>1, <3>2, <4>1, DecrementedAbove DEF NX_PendSem
      <4>3. QED
        BY <4>1, <4>2 DEF Counting!SemTake
    <3>3. QED
      BY <3>1, <3>2
  <2>2. ASSUME NEW t \in Threads, Wake(t)
        PROVE  [Counting!SemPost \/ Counting!SemTake]_nValue
    BY <2>2, WakeIInv DEF Counting!SemTake
  <2>3. ASSUME NX_PostSem
        PROVE  [Counting!SemPost \/ Counting!SemTake]_nValue
    BY <2>3, PostIInv DEF Counting!SemPost
  <2>4. CASE UNCHANGED vars
    BY <2>4 DEF vars
  <2>5. QED
    BY <2>1, <2>2, <2>3, <2>4 DEF Next
<1>4. QED
  BY <1>1, <1>2, <1>3, PTL DEF Spec, ImplementsCounting, Counting!SemSpec
=============================================================================
