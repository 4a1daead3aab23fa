---------------------- MODULE NX_OMXVideoEncoder_proofs ----------------------
(* The OMX video encoder for any number of buffers, maxima of its semaphores, *)
(* and failures of the VPU: what its two threads and its client rely on.      *)
EXTENDS NX_OMXVideoEncoder, FiniteSetTheorems, TLAPS

\* A client that asks for the transitions the component handles, but not for
\* Pause -> Idle, ...
Transitions == {<<"Loaded", "Idle">>, <<"Idle", "Executing">>, <<"Executing", "Idle">>,
                <<"Idle", "Loaded">>, <<"Idle", "Pause">>, <<"Executing", "Pause">>,
                <<"Pause", "Executing">>}
Orderly == ClientTransitions \subseteq Transitions
\* ... and one that has passed the output buffers, two at least, before the frames.
Prefilling == PrefillsOutput /\ \E a, b \in OutBufs : a # b

-----------------------------------------------------------------------------
(* The parts of the inductive invariant.                                     *)

Commands == States \cup {"FlushIn", "FlushOut", "FlushAll"} \cup CtrlCommands
Opening  == {"alloc", "open", "created", "created_wait", "idle"}      \* Loaded -> Idle
Stopping == {"return", "settle"}                                      \* Executing -> Idle
Closing  == {"join", "free", "free2", "loaded"}                       \* Idle -> Loaded

StateTyped ==
  /\ told \in States /\ eCurState \in States /\ eNewState \in States
  /\ outstanding \in BOOLEAN /\ cmd \in Commands \cup {"none"} /\ late \subseteq Buffers
  /\ cmdPc \in {"wait", "exec", "lock_wait", "unlock", "event"}
               \cup Opening \cup Stopping \cup Closing
BufferTyped ==
  /\ owner \in [Buffers -> {"none", "client", "comp"}] /\ lost \subseteq Buffers
  /\ inQueue \in Seq([buf : InBufs, eos : BOOLEAN]) /\ outQueue \in Seq(OutBufs)
  /\ returnedTwice \in BOOLEAN /\ bSendCodecSpecificInfo \in BOOLEAN
ThreadTyped ==
  /\ hVpuCodec \in BOOLEAN /\ eCmdBufThread \in {"RUN", "PAUSE", "EXIT"}
  /\ bufPc \in {"none", "start", "test", "ctrl", "ctrl_wait", "inner", "change", "check", "encode",
                "exited"}
SemTyped ==
  /\ hBufAllocSem \in 0..AllocMax /\ hBufChangeSem \in NoSem..ChangeMax
  /\ hBufCtrlSem \in 0 .. Modulus - 1
  /\ ctrlPend \in [{"command", "buffer"} -> {"no", "waiting", "signalled"}]
Typed == StateTyped /\ BufferTyped /\ ThreadTyped /\ SemTyped

\* Where the command thread is says what it carries out: the client waits for
\* an answer, and the component is in the state the transition starts from.
Carried ==
  /\ cmdPc = "wait" <=> ~outstanding
  /\ cmdPc \in Opening  => cmd = "Idle" /\ eCurState = "Loaded"
  /\ cmdPc \in Stopping => cmd = "Idle" /\ eCurState = "Executing"
  /\ cmdPc \in Closing  => cmd = "Loaded" /\ eCurState = "Idle"
  /\ cmdPc \in {"lock_wait", "unlock"} => cmd \notin States
  /\ cmdPc = "event" => cmd = eCurState
  /\ cmdPc # "wait" /\ cmd \in States => eNewState = cmd

\* The codec is open between the two transitions.
Opened ==
  /\ eCurState \in {"Executing", "Pause"} => hVpuCodec
  /\ eCurState = "Idle" /\ cmdPc \notin Closing => hVpuCodec
  /\ cmdPc \in {"created", "created_wait", "idle"} => hVpuCodec

\* An orderly client knows the state, unless EncoderOpen failed or the event is
\* still to come, and asks for transitions from there; once the buffers are
\* returned the queues hold only what was accepted late.
Known ==
  /\ told = eCurState \/ eCurState = "Loaded" \/ cmdPc = "event"
  /\ cmdPc = "exec" /\ cmd \in States => <<told, cmd>> \in Transitions
Bufs(s) == {s[i].buf : i \in DOMAIN s}
Emptied ==
  eCurState \in {"Loaded", "Idle"} \/ cmdPc = "settle"
  => Bufs(inQueue) \cup Range(outQueue) \subseteq late

StateInv == Carried /\ Opened /\ (Orderly => Known /\ Emptied)

\* The thread lives no longer than its semaphore, and a stop posts it.
Noticed ==
  /\ bufPc \notin {"none", "exited"} => hBufChangeSem >= 0
  /\ StopIsNoticed

\* Whose the buffers are.
OnceIn(s)  == \A i, j \in DOMAIN s : s[i].buf = s[j].buf => i = j
OnceOut(s) == \A i, j \in DOMAIN s : s[i] = s[j] => i = j
NoEos(s)   == \A i \in DOMAIN s : ~s[i].eos

Owned ==
  /\ \A b \in Buffers : owner[b] = "comp" <=> b \in Bufs(inQueue) \cup Range(outQueue) \cup lost
  /\ lost \cap (Bufs(inQueue) \cup Range(outQueue)) = {}
Once  == OnceIn(inQueue) /\ OnceOut(outQueue)

\* Before the sequence header every frame finds all output buffers queued.
Filled ==
  ~bSendCodecSpecificInfo =>
    /\ inQueue # << >> => Range(outQueue) = OutBufs
    /\ NoEos(inQueue)
    /\ ~(cmdPc = "exec" /\ cmd = "FlushOut")

BufferInv == Owned /\ Once /\ (Prefilling => Filled /\ ~returnedTwice)

IInv == Typed /\ StateInv /\ Noticed /\ BufferInv

-----------------------------------------------------------------------------
(* Lemmas about the queues.                                                  *)

Frames == [buf : InBufs, eos : BOOLEAN]

\* NX_PushQueue on a sequence, slot by slot.
LEMMA AppendAt ==
  ASSUME NEW S, NEW s \in Seq(S), NEW x \in S
  PROVE  /\ Append(s, x) \in Seq(S) /\ DOMAIN s = 1..Len(s)
         /\ DOMAIN Append(s, x) = 1 .. Len(s) + 1 /\ Append(s, x)[Len(s) + 1] = x
         /\ \A i \in 1..Len(s) : Append(s, x)[i] = s[i]
OBVIOUS

\* NX_PopQueue on a sequence, slot by slot.
LEMMA TailAt ==
  ASSUME NEW S, NEW s \in Seq(S), s # << >>
  PROVE  /\ Tail(s) \in Seq(S) /\ DOMAIN s = 1..Len(s) /\ Len(s) \in Nat \ {0}
         /\ DOMAIN Tail(s) = 1 .. Len(s) - 1 /\ Head(s) = s[1] /\ Head(s) \in S
         /\ \A i \in 1 .. Len(s) - 1 : Tail(s)[i] = s[i + 1]
OBVIOUS

\* A frame pushed on the input queue.
LEMMA InAppend ==
  ASSUME NEW s \in Seq(Frames), NEW r \in Frames
  PROVE  /\ Bufs(Append(s, r)) = Bufs(s) \cup {r.buf}
         /\ OnceIn(s) /\ r.buf \notin Bufs(s) => OnceIn(Append(s, r))
         /\ NoEos(s) /\ ~r.eos => NoEos(Append(s, r))
<1> DEFINE a == Append(s, r)
<1>1. /\ DOMAIN s = 1..Len(s) /\ DOMAIN a = 1 .. Len(s) + 1 /\ Len(s) \in Nat
      /\ a[Len(s) + 1] = r /\ \A i \in 1..Len(s) : a[i] = s[i]
  BY AppendAt
<1> HIDE DEF a
<1>2. Bufs(a) = Bufs(s) \cup {r.buf}
  BY <1>1 DEF Bufs
<1>3. OnceIn(s) /\ r.buf \notin Bufs(s) => OnceIn(a)
  BY <1>1 DEF Bufs, OnceIn
<1>4. NoEos(s) /\ ~r.eos => NoEos(a)
  BY <1>1 DEF NoEos
<1>5. QED
  BY <1>2, <1>3, <1>4 DEF a

\* A frame popped from the input queue.
LEMMA InTail ==
  ASSUME NEW s \in Seq(Frames), s # << >>
  PROVE  /\ Bufs(s) = Bufs(Tail(s)) \cup {Head(s).buf}
         /\ OnceIn(s) => OnceIn(Tail(s)) /\ Head(s).buf \notin Bufs(Tail(s))
         /\ NoEos(s) => NoEos(Tail(s)) /\ ~Head(s).eos
<1> DEFINE a == Tail(s)
<1>1. /\ DOMAIN s = 1..Len(s) /\ DOMAIN a = 1 .. Len(s) - 1 /\ Len(s) \in Nat \ {0}
      /\ Head(s) = s[1] /\ \A i \in 1 .. Len(s) - 1 : a[i] = s[i + 1]
  BY TailAt
<1> HIDE DEF a
<1>2. /\ 1 \in DOMAIN s /\ \A i \in DOMAIN a : i + 1 \in DOMAIN s /\ i + 1 # 1
      /\ \A i \in DOMAIN s : i = 1 \/ (i - 1 \in DOMAIN a /\ s[i] = a[i - 1])
      /\ \A i \in DOMAIN a : a[i] = s[i + 1]
      /\ \A i, j \in DOMAIN a : i + 1 = j + 1 => i = j
  BY <1>1
<1>3. /\ Bufs(s) = Bufs(a) \cup {Head(s).buf}
      /\ OnceIn(s) => OnceIn(a) /\ Head(s).buf \notin Bufs(a)
  <2>1. Bufs(s) \subseteq Bufs(a) \cup {s[1].buf}
    BY <1>2 DEF Bufs
  <2>2. Bufs(a) \cup {s[1].buf} \subseteq Bufs(s)
    BY <1>2 DEF Bufs
  <2>3. ASSUME OnceIn(s)
        PROVE  OnceIn(a)
    BY <1>2, <2>3 DEF OnceIn
  <2>4. ASSUME OnceIn(s)
        PROVE  s[1].buf \notin Bufs(a)
    BY <1>2, <2>4 DEF OnceIn, Bufs
  <2>5. QED
    BY <1>1, <2>1, <2>2, <2>3, <2>4
<1>4. NoEos(s) => NoEos(a) /\ ~Head(s).eos
  BY <1>1 DEF NoEos
<1>5. QED
  BY <1>3, <1>4 DEF a

\* A buffer pushed on the output queue.
LEMMA OutAppend ==
  ASSUME NEW s \in Seq(OutBufs), NEW b \in OutBufs
  PROVE  /\ Range(Append(s, b)) = Range(s) \cup {b}
         /\ OnceOut(s) /\ b \notin Range(s) => OnceOut(Append(s, b))
<1> DEFINE a == Append(s, b)
<1>1. /\ DOMAIN s = 1..Len(s) /\ DOMAIN a = 1 .. Len(s) + 1 /\ Len(s) \in Nat
      /\ a[Len(s) + 1] = b /\ \A i \in 1..Len(s) : a[i] = s[i]
  BY AppendAt
<1> HIDE DEF a
<1>2. Range(a) = Range(s) \cup {b}
  BY <1>1 DEF Range
<1>3. OnceOut(s) /\ b \notin Range(s) => OnceOut(a)
  BY <1>1 DEF Range, OnceOut
<1>4. QED
  BY <1>2, <1>3 DEF a

\* A buffer popped from the output queue.
LEMMA OutTail ==
  ASSUME NEW s \in Seq(OutBufs), s # << >>
  PROVE  /\ Range(s) = Range(Tail(s)) \cup {Head(s)}
         /\ OnceOut(s) => OnceOut(Tail(s)) /\ Head(s) \notin Range(Tail(s))
<1> DEFINE a == Tail(s)
<1>1. /\ DOMAIN s = 1..Len(s) /\ DOMAIN a = 1 .. Len(s) - 1 /\ Len(s) \in Nat \ {0}
      /\ Head(s) = s[1] /\ \A i \in 1 .. Len(s) - 1 : a[i] = s[i + 1]
  BY TailAt
<1> HIDE DEF a
<1>2. /\ 1 \in DOMAIN s /\ \A i \in DOMAIN a : i + 1 \in DOMAIN s /\ i + 1 # 1
      /\ \A i \in DOMAIN s : i = 1 \/ (i - 1 \in DOMAIN a /\ s[i] = a[i - 1])
      /\ \A i \in DOMAIN a : a[i] = s[i + 1]
      /\ \A i, j \in DOMAIN a : i + 1 = j + 1 => i = j
  BY <1>1
<1>3. /\ Range(s) = Range(a) \cup {Head(s)}
      /\ OnceOut(s) => OnceOut(a) /\ Head(s) \notin Range(a)
  <2>1. Range(s) \subseteq Range(a) \cup {s[1]}
    BY <1>2 DEF Range
  <2>2. Range(a) \cup {s[1]} \subseteq Range(s)
    BY <1>2 DEF Range
  <2>3. ASSUME OnceOut(s)
        PROVE  OnceOut(a)
    BY <1>2, <2>3 DEF OnceOut
  <2>4. ASSUME OnceOut(s)
        PROVE  s[1] \notin Range(a)
    BY <1>2, <2>4 DEF OnceOut, Range
  <2>5. QED
    BY <1>1, <2>1, <2>2, <2>3, <2>4
<1>4. QED
  BY <1>3 DEF a

\* What a queue holds: buffers of its port, and nothing if it is empty.
LEMMA HeldInPort ==
  ASSUME BufferTyped
  PROVE  /\ Bufs(inQueue) \subseteq InBufs /\ Range(outQueue) \subseteq OutBufs
         /\ Bufs(<< >>) = {} /\ Range(<< >>) = {}
         /\ OnceIn(<< >>) /\ OnceOut(<< >>) /\ NoEos(<< >>)
<1>1. /\ \A i \in DOMAIN inQueue : inQueue[i] \in Frames
      /\ \A i \in DOMAIN outQueue : outQueue[i] \in OutBufs
  <2>1. inQueue \in Seq(Frames) /\ outQueue \in Seq(OutBufs)
    BY DEF BufferTyped, Frames
  <2>2. QED
    BY <2>1
<1>2. DOMAIN << >> = {}
  OBVIOUS
<1>3. QED
  BY <1>1, <1>2 DEF Bufs, Range, Frames, OnceIn, OnceOut, NoEos

\* NX_VidEncCommandProc empties the queues of the ports flushed.
LEMMA FlushedPortsAre ==
  /\ cmd = "FlushIn" => FlushedPorts = {"in"}
  /\ cmd = "FlushOut" => FlushedPorts = {"out"}
  /\ cmd \notin {"FlushIn", "FlushOut"} => FlushedPorts = {"in", "out"}
BY DEF FlushedPorts

-----------------------------------------------------------------------------
(* Steps that leave the buffers alone, and the control semaphore.            *)

\* The parts of the invariant that nearly every step needs.
LEMMA TypedParts ==
  ASSUME IInv
  PROVE  /\ StateTyped /\ BufferTyped /\ ThreadTyped /\ SemTyped /\ Carried /\ Opened /\ Noticed
         /\ Owned /\ Once
BY DEF IInv, Typed, StateInv, BufferInv

\* A step of the command thread or of the client that keeps the buffers keeps
\* all that is said of them, but for a new FlushOut.
LEMMA BuffersKept ==
  ASSUME IInv, UNCHANGED bufferVars,
         cmdPc' = "exec" /\ cmd' = "FlushOut" =>
           (PrefillsOutput => bSendCodecSpecificInfo) \/ UNCHANGED <<cmdPc, cmd>>
  PROVE  BufferTyped' /\ BufferInv'
<1>1. UNCHANGED <<owner, lost, returnedTwice, inQueue, outQueue, bSendCodecSpecificInfo>>
  BY DEF bufferVars
<1>2. BufferTyped /\ Owned /\ Once /\ (Prefilling => Filled /\ ~returnedTwice)
  BY DEF IInv, Typed, BufferInv
<1>3. BufferTyped' /\ Owned' /\ Once'
  BY <1>1, <1>2 DEF BufferTyped, Owned, Once
<1>4. Prefilling => Filled' /\ ~returnedTwice'
  BY <1>1, <1>2 DEF Filled, Prefilling
<1>5. QED
  BY <1>3, <1>4 DEF BufferInv

\* NX_PostSem, NX_PendSem and the wake-up keep the semaphore within its word.
LEMMA CtrlInWord ==
  ASSUME SemTyped,
         \/ Ctrl!NX_PostSem
         \/ \E t \in {"command", "buffer"} : Ctrl!NX_PendSem(t) \/ Ctrl!Wake(t)
  PROVE  /\ hBufCtrlSem' \in 0 .. Modulus - 1
         /\ ctrlPend' \in [{"command", "buffer"} -> {"no", "waiting", "signalled"}]
<1>1. hBufCtrlSem \in 0 .. Modulus - 1 /\ Modulus \in Nat /\ Modulus > 1
  BY EncoderAssumption DEF SemTyped
<1>2. (hBufCtrlSem - 1 + Modulus) % Modulus \in 0 .. Modulus - 1
  BY <1>1
<1>3. CASE Ctrl!NX_PostSem
  BY <1>1, <1>3 DEF Ctrl!NX_PostSem, SemTyped
<1>4. ASSUME NEW t \in {"command", "buffer"}, Ctrl!NX_PendSem(t)
      PROVE  /\ hBufCtrlSem' \in 0 .. Modulus - 1
             /\ ctrlPend' \in [{"command", "buffer"} -> {"no", "waiting", "signalled"}]
  BY <1>1, <1>2, <1>4 DEF Ctrl!NX_PendSem, Ctrl!Decremented, SemTyped
<1>5. ASSUME NEW t \in {"command", "buffer"}, Ctrl!Wake(t)
      PROVE  /\ hBufCtrlSem' \in 0 .. Modulus - 1
             /\ ctrlPend' \in [{"command", "buffer"} -> {"no", "waiting", "signalled"}]
  BY <1>1, <1>2, <1>5 DEF Ctrl!Wake, Ctrl!Decremented, SemTyped
<1>6. QED
  BY <1>3, <1>4, <1>5

\* NX_PostSem on the other semaphores.
LEMMA PostInRange ==
  ASSUME NEW max \in Nat \ {0}, NEW v \in NoSem..max
  PROVE  Post(v, max) \in NoSem..max /\ Post(v, max) >= v /\ (v >= 0 => Post(v, max) > 0)
BY DEF Post, NoSem

\* A post of hBufAllocSem stays below its maximum.
LEMMA PostAllocInRange ==
  ASSUME SemTyped
  PROVE  Post(hBufAllocSem, AllocMax) \in 0..AllocMax
BY EncoderAssumption DEF Post, SemTyped

\* A post of hBufChangeSem leaves a count for the thread, if there is a semaphore.
LEMMA PostChange ==
  ASSUME SemTyped
  PROVE  /\ Post(hBufChangeSem, ChangeMax) \in NoSem..ChangeMax
         /\ hBufChangeSem \in Int /\ Post(hBufChangeSem, ChangeMax) \in Int
         /\ Post(hBufChangeSem, ChangeMax) >= hBufChangeSem
         /\ hBufChangeSem >= 0 => Post(hBufChangeSem, ChangeMax) > 0
BY EncoderAssumption, PostInRange DEF SemTyped, NoSem

\* A step of the command thread that neither touches the buffers nor stops the
\* encoding thread.
LEMMA CommandStep ==
  ASSUME IInv, UNCHANGED bufferVars, StateTyped', StateInv',
         cmdPc' = "exec" => UNCHANGED <<cmdPc, cmd>>,
         hBufAllocSem' \in 0..AllocMax,
         hBufCtrlSem' \in 0 .. Modulus - 1,
         ctrlPend' \in [{"command", "buffer"} -> {"no", "waiting", "signalled"}],
         hVpuCodec' \in BOOLEAN, UNCHANGED <<hBufChangeSem, bufPc>>,
         eCmdBufThread' = eCmdBufThread \/ eCmdBufThread' = "RUN"
  PROVE  IInv'
<1>1. BufferTyped' /\ BufferInv'
  BY BuffersKept
<1>2. ThreadTyped' /\ SemTyped'
  BY TypedParts DEF ThreadTyped, SemTyped
<1>3. Noticed'
  BY TypedParts DEF Noticed, StopIsNoticed
<1>4. QED
  BY <1>1, <1>2, <1>3 DEF IInv, Typed

-----------------------------------------------------------------------------
(* The client.                                                               *)

\* The client sends a command; the queues stay as they are.
LEMMA CommandIsSent ==
  ASSUME IInv, ClientSends
  PROVE  IInv'
<1>1. PICK c \in Commands :
        /\ Send(c) /\ (c \in States => <<told, c>> \in ClientTransitions)
        /\ (c = "FlushOut" => (PrefillsOutput => bSendCodecSpecificInfo))
  BY EncoderAssumption DEF ClientSends, Commands, States
<1>2. /\ ~outstanding /\ outstanding' = TRUE /\ cmd' = c /\ cmdPc' = "exec"
      /\ eNewState' = IF c \in States THEN c ELSE eNewState
      /\ UNCHANGED bufferVars
      /\ UNCHANGED <<told, late, eCurState, hBufAllocSem, hBufChangeSem, hBufCtrlSem, ctrlPend>>
      /\ UNCHANGED <<hVpuCodec, eCmdBufThread, bufPc>>
      /\ UNCHANGED <<inQueue, outQueue>>
  BY <1>1 DEF Send, ctrlVars, bufferVars
<1>3. StateTyped' /\ ThreadTyped' /\ SemTyped'
  BY <1>1, <1>2, TypedParts DEF StateTyped, ThreadTyped, SemTyped, Commands
<1>4. Carried' /\ Opened' /\ cmdPc = "wait"
  BY <1>1, <1>2, TypedParts DEF Carried, Opened, StateTyped, Opening, Stopping, Closing
<1>5. Orderly => Known' /\ Emptied'
  <2> SUFFICES ASSUME Orderly
               PROVE  Known' /\ Emptied'
    OBVIOUS
  <2>1. Known /\ Emptied
    BY DEF IInv, StateInv
  <2>2. c \in States => <<told, c>> \in Transitions
    BY <1>1 DEF Orderly
  <2>3. QED
    BY <1>2, <1>4, <2>1, <2>2 DEF Known, Emptied
<1>6. Noticed'
  BY <1>2, TypedParts DEF Noticed, StopIsNoticed
<1>7. BufferTyped' /\ BufferInv'
  BY <1>1, <1>2, BuffersKept
<1>8. QED
  BY <1>3, <1>4, <1>5, <1>6, <1>7 DEF IInv, Typed, StateInv

\* A buffer that is created or freed is in no queue.
LEMMA PopulationStep ==
  ASSUME IInv, NEW b \in Buffers, NEW to \in {"none", "client"}, owner[b] # "comp",
         owner' = [owner EXCEPT ![b] = to], hBufAllocSem' \in 0..AllocMax,
         UNCHANGED <<clientVars, stateVars, lost, returnedTwice, inQueue, outQueue,
                     bSendCodecSpecificInfo, ctrlVars, hBufChangeSem, hVpuCodec, eCmdBufThread,
                     cmdPc, bufPc>>
  PROVE  IInv'
<1>1. /\ UNCHANGED <<told, outstanding, eCurState, eNewState, cmd, hBufCtrlSem, ctrlPend, lost>>
      /\ UNCHANGED <<late, returnedTwice, inQueue, outQueue, bSendCodecSpecificInfo>>
      /\ UNCHANGED hBufChangeSem
      /\ UNCHANGED <<hVpuCodec, eCmdBufThread, cmdPc, bufPc>>
  BY DEF clientVars, stateVars, ctrlVars
<1>2. StateTyped' /\ ThreadTyped' /\ SemTyped' /\ Noticed' /\ Carried' /\ Opened'
  BY <1>1, TypedParts
     DEF StateTyped, ThreadTyped, SemTyped, Noticed, StopIsNoticed, Carried, Opened
<1>3. (Orderly => Known' /\ Emptied') /\ Once' /\ (Prefilling => Filled' /\ ~returnedTwice')
  BY <1>1 DEF IInv, StateInv, BufferInv, Known, Emptied, Once, Filled
<1>4. BufferTyped' /\ Owned'
  <2>1. \A d \in Buffers : owner'[d] = "comp" <=> owner[d] = "comp"
    BY TypedParts DEF BufferTyped
  <2>2. owner' \in [Buffers -> {"none", "client", "comp"}]
    BY TypedParts DEF BufferTyped
  <2>3. QED
    BY <1>1, <2>1, <2>2, TypedParts DEF BufferTyped, Owned
<1>5. QED
  BY <1>2, <1>3, <1>4 DEF IInv, Typed, StateInv, BufferInv

\* UseBuffer, AllocateBuffer and FreeBuffer touch no buffer the component has.
LEMMA BuffersAreCreated ==
  ASSUME IInv, ClientAllocates \/ ClientFrees
  PROVE  IInv'
<1>1. ASSUME NEW p \in {"in", "out"}, NEW b \in BufsOf(p), UseBuffer(p, b)
      PROVE  IInv'
  <2>1. b \in Buffers /\ owner[b] = "none"
    BY <1>1 DEF BufsOf, Buffers, UseBuffer
  <2>2. hBufAllocSem' \in 0..AllocMax
    BY <1>1, TypedParts, PostAllocInRange DEF UseBuffer, SemTyped
  <2>3. QED
    BY <1>1, <2>1, <2>2, PopulationStep DEF UseBuffer
<1>2. ASSUME NEW p \in {"in", "out"}, NEW b \in BufsOf(p), FreeBuffer(p, b)
      PROVE  IInv'
  <2>1. b \in Buffers /\ owner[b] = "client"
    BY <1>2 DEF BufsOf, Buffers, FreeBuffer
  <2>2. hBufAllocSem' \in 0..AllocMax
    BY <1>2, TypedParts, PostAllocInRange DEF FreeBuffer, SemTyped
  <2>3. QED
    BY <1>2, <2>1, <2>2, PopulationStep DEF FreeBuffer
<1>3. QED
  BY <1>1, <1>2 DEF ClientAllocates, ClientFrees

\* Between the return of the buffers and the store of the state none is accepted.
LEMMA RefusedMeanwhile ==
  ASSUME IInv, AcceptsBuffers
  PROVE  cmdPc # "settle"
BY TypedParts DEF Carried, AcceptsBuffers, Stopping, States

\* What passing a buffer does, whichever its port.
LEMMA PassStep ==
  ASSUME IInv, NEW b \in Buffers, Passes(b)
  PROVE  /\ StateTyped' /\ ThreadTyped' /\ SemTyped' /\ Noticed' /\ Carried' /\ Opened'
         /\ Orderly => Known'
         /\ eCurState' # "Loaded" /\ cmdPc' # "settle" /\ Accepted(b)
         /\ owner' \in [Buffers -> {"none", "client", "comp"}] /\ owner[b] = "client"
         /\ \A d \in Buffers : owner'[d] = "comp" <=> owner[d] = "comp" \/ d = b
         /\ UNCHANGED <<lost, returnedTwice, bSendCodecSpecificInfo, cmdPc, cmd, eCurState>>
<1>1. /\ UNCHANGED <<told, outstanding, eCurState, eNewState, cmd, hBufCtrlSem, ctrlPend, lost>>
      /\ UNCHANGED <<returnedTwice, bSendCodecSpecificInfo, hBufAllocSem, hVpuCodec>>
      /\ UNCHANGED <<eCmdBufThread, cmdPc, bufPc>>
      /\ owner[b] = "client" /\ owner' = [owner EXCEPT ![b] = "comp"]
      /\ hBufChangeSem' = Post(hBufChangeSem, ChangeMax)
      /\ eCurState # "Loaded" /\ AcceptsBuffers /\ Accepted(b)
  BY DEF Passes, stateVars, ctrlVars
<1>2. StateTyped' /\ ThreadTyped' /\ Carried' /\ Opened'
  BY <1>1, TypedParts DEF StateTyped, ThreadTyped, Carried, Opened, Accepted
<1>3. SemTyped' /\ Noticed'
  BY <1>1, TypedParts, PostChange DEF SemTyped, Noticed, StopIsNoticed
<1>4. (Orderly => Known') /\ eCurState' # "Loaded" /\ cmdPc' # "settle"
  BY <1>1, RefusedMeanwhile DEF IInv, StateInv, Known
<1>5. /\ owner' \in [Buffers -> {"none", "client", "comp"}]
      /\ \A d \in Buffers : owner'[d] = "comp" <=> owner[d] = "comp" \/ d = b
  BY <1>1, TypedParts DEF BufferTyped
<1>6. QED
  BY <1>1, <1>2, <1>3, <1>4, <1>5

\* EmptyThisBuffer puts the client's frame into the input queue.
LEMMA FrameIsPassed ==
  ASSUME IInv, NEW b \in InBufs, NEW eos \in BOOLEAN, NX_BaseEmptyThisBuffer(b, eos)
  PROVE  IInv'
<1> DEFINE r == [buf |-> b, eos |-> eos]
<1>1. /\ b \in Buffers /\ Passes(b) /\ inQueue' = Append(inQueue, r) /\ outQueue' = outQueue
      /\ PrefillsOutput /\ ~bSendCodecSpecificInfo => ~eos /\ Range(outQueue) = OutBufs
  BY DEF NX_BaseEmptyThisBuffer, Buffers
<1>2. /\ inQueue \in Seq(Frames) /\ outQueue \in Seq(OutBufs) /\ lost \subseteq Buffers
      /\ returnedTwice \in BOOLEAN /\ bSendCodecSpecificInfo \in BOOLEAN /\ r \in Frames
      /\ r.buf = b /\ r.eos = eos
  BY TypedParts DEF BufferTyped, Frames
<1>3. /\ Bufs(inQueue') = Bufs(inQueue) \cup {b}
      /\ OnceIn(inQueue) /\ b \notin Bufs(inQueue) => OnceIn(inQueue')
      /\ NoEos(inQueue) /\ ~eos => NoEos(inQueue')
      /\ inQueue' \in Seq(Frames)
  BY <1>1, <1>2, InAppend, AppendAt
<1> HIDE DEF r
<1>4. b \notin Bufs(inQueue) \cup Range(outQueue) \cup lost
  BY <1>1, PassStep, TypedParts DEF Owned
<1>5. BufferTyped'
  BY <1>1, <1>2, <1>3, PassStep DEF BufferTyped, Frames
<1>6. Owned' /\ Once'
  BY <1>1, <1>3, <1>4, PassStep, TypedParts DEF Owned, Once
<1>7. Prefilling => Filled' /\ ~returnedTwice'
  BY <1>1, <1>3, PassStep DEF IInv, BufferInv, Filled, Prefilling
<1>8. Orderly => Emptied'
  BY <1>1, <1>3, PassStep DEF IInv, StateInv, Emptied, Accepted
<1>9. QED
  BY <1>1, <1>5, <1>6, <1>7, <1>8, PassStep DEF IInv, Typed, StateInv, BufferInv

\* FillThisBuffer puts the client's buffer into the output queue.
LEMMA OutputIsPassed ==
  ASSUME IInv, NEW b \in OutBufs, NX_BaseFillThisBuffer(b)
  PROVE  IInv'
<1>1. /\ b \in Buffers /\ Passes(b) /\ outQueue' = Append(outQueue, b) /\ inQueue' = inQueue
  BY DEF NX_BaseFillThisBuffer, Buffers
<1>2. /\ inQueue \in Seq(Frames) /\ outQueue \in Seq(OutBufs) /\ lost \subseteq Buffers
      /\ returnedTwice \in BOOLEAN /\ bSendCodecSpecificInfo \in BOOLEAN
  BY TypedParts DEF BufferTyped, Frames
<1>3. /\ Range(outQueue') = Range(outQueue) \cup {b}
      /\ OnceOut(outQueue) /\ b \notin Range(outQueue) => OnceOut(outQueue')
      /\ outQueue' \in Seq(OutBufs)
  BY <1>1, <1>2, OutAppend, AppendAt
<1>4. b \notin Bufs(inQueue) \cup Range(outQueue) \cup lost
  BY <1>1, PassStep, TypedParts DEF Owned
<1>5. BufferTyped'
  BY <1>1, <1>2, <1>3, PassStep DEF BufferTyped, Frames
<1>6. Owned' /\ Once'
  BY <1>1, <1>3, <1>4, PassStep, TypedParts DEF Owned, Once
<1>7. Prefilling => Filled' /\ ~returnedTwice'
  BY <1>1, <1>3, PassStep DEF IInv, BufferInv, Filled, Prefilling
<1>8. Orderly => Emptied'
  BY <1>1, <1>3, PassStep DEF IInv, StateInv, Emptied, Accepted
<1>9. QED
  BY <1>1, <1>5, <1>6, <1>7, <1>8, PassStep DEF IInv, Typed, StateInv, BufferInv

-----------------------------------------------------------------------------
(* The command thread.                                                       *)

\* A transition the code does not handle changes nothing.
LEMMA TransitionIsRefused ==
  ASSUME IInv, RefuseTransition
  PROVE  IInv'
<1>1. /\ cmdPc = "exec" /\ cmd \in States /\ <<eCurState, cmd>> \notin Handled
      /\ outstanding' = FALSE /\ cmdPc' = "wait" /\ told' = IF cmd = eCurState THEN told ELSE cmd
      /\ UNCHANGED bufferVars
      /\ UNCHANGED <<eCurState, eNewState, cmd, hBufCtrlSem, ctrlPend, hBufAllocSem, hBufChangeSem>>
      /\ UNCHANGED <<hVpuCodec, eCmdBufThread, bufPc, inQueue, outQueue, late>>
  BY DEF RefuseTransition, Exec, stateVars, ctrlVars, bufferVars
<1>2. StateTyped'
  BY <1>1, TypedParts DEF StateTyped
<1>3. Carried' /\ Opened'
  BY <1>1, TypedParts DEF Carried, Opened, Opening, Stopping, Closing
<1>4. Orderly => Known' /\ Emptied'
  <2> SUFFICES ASSUME Orderly
               PROVE  Known' /\ Emptied'
    OBVIOUS
  <2>1. Known /\ Emptied
    BY DEF IInv, StateInv
  <2>2. <<told, cmd>> \in Handled
    BY <1>1, <2>1 DEF Known, Transitions, Handled, StoredOnly
  <2>3. eCurState = "Loaded"
    BY <1>1, <2>1, <2>2 DEF Known
  <2>4. QED
    BY <1>1, <2>1, <2>3 DEF Known, Emptied
<1>5. QED
  BY <1>1, <1>2, <1>3, <1>4, CommandStep, TypedParts DEF StateInv, SemTyped, ThreadTyped

\* A transition that waits for the ports takes a count of hBufAllocSem.
LEMMA AllocIsPended ==
  ASSUME IInv, PendAlloc
  PROVE  IInv'
<1>1. /\ hBufAllocSem > 0 /\ hBufAllocSem' = hBufAllocSem - 1
      /\ UNCHANGED bufferVars
      /\ UNCHANGED <<told, outstanding, eCurState, eNewState, cmd, hBufCtrlSem, ctrlPend>>
      /\ UNCHANGED <<hBufChangeSem, hVpuCodec, eCmdBufThread, bufPc, inQueue, outQueue, late>>
  BY DEF PendAlloc, stateVars, ctrlVars, clientVars, bufferVars
<1>2. \/ cmdPc = "exec" /\ cmd = "Idle" /\ eCurState = "Loaded" /\ cmdPc' = "alloc"
      \/ cmdPc = "alloc" /\ cmdPc' = "open"
      \/ cmdPc = "free" /\ cmdPc' = "free2"
      \/ cmdPc = "free2" /\ cmdPc' = "loaded"
  BY DEF PendAlloc, Exec
<1>3. StateTyped' /\ hBufAllocSem' \in 0..AllocMax
  BY <1>1, <1>2, TypedParts, EncoderAssumption DEF StateTyped, SemTyped, Opening, Closing
<1>4. Carried' /\ Opened'
  BY <1>1, <1>2, TypedParts DEF Carried, Opened, Opening, Stopping, Closing
<1>5. Orderly => Known' /\ Emptied'
  BY <1>1, <1>2 DEF IInv, StateInv, Known, Emptied
<1>6. QED
  BY <1>1, <1>2, <1>3, <1>4, <1>5, CommandStep, TypedParts DEF StateInv, SemTyped, ThreadTyped

\* The state of a command that has been answered.
LEMMA AnswerStep ==
  ASSUME IInv, Answer, cmdPc # "wait", hVpuCodec' \in BOOLEAN,
         UNCHANGED <<eCurState, inQueue, outQueue>>,
         cmd \in States => eCurState = cmd \/ eCurState = "Loaded",
         eCurState # "Loaded" => hVpuCodec'
  PROVE  StateTyped' /\ StateInv' /\ cmdPc' = "wait"
<1>1. /\ outstanding' = FALSE /\ cmdPc' = "wait" /\ UNCHANGED <<late, eNewState, cmd>>
      /\ told' = IF cmd \in States THEN cmd ELSE told
  BY DEF Answer
<1>2. StateTyped'
  BY <1>1, TypedParts DEF StateTyped
<1>3. Carried' /\ Opened'
  BY <1>1 DEF Carried, Opened, Opening, Stopping, Closing
<1>4. Orderly => Known' /\ Emptied'
  <2>1. cmdPc = "event" => cmd \in States
    BY TypedParts DEF Carried, StateTyped
  <2>2. QED
    BY <1>1, <2>1 DEF IInv, StateInv, Known, Emptied
<1>5. QED
  BY <1>1, <1>2, <1>3, <1>4 DEF StateInv

\* The state asked for has been stored, and is to be reported.
LEMMA StoreStep ==
  ASSUME IInv, UNCHANGED <<told, outstanding, eNewState, cmd, hVpuCodec, inQueue, outQueue>>,
         cmdPc # "wait", cmdPc' = "event", cmd \in States, eCurState' = cmd,
         late' = late \/ (late' = {} /\ cmd = "Executing"),
         cmd # "Loaded" => hVpuCodec,
         Orderly /\ cmd \in {"Loaded", "Idle"}
           => eCurState \in {"Loaded", "Idle"} \/ cmdPc = "settle"
  PROVE  StateTyped' /\ StateInv'
<1>1. StateTyped'
  BY TypedParts DEF StateTyped
<1>2. Carried' /\ Opened'
  BY TypedParts DEF Carried, Opened, Opening, Stopping, Closing, StateTyped
<1>3. Orderly => Known' /\ Emptied'
  BY DEF IInv, StateInv, Known, Emptied
<1>4. QED
  BY <1>1, <1>2, <1>3 DEF StateInv

\* The codec does not open: the component is back in Loaded.
LEMMA OpenFails ==
  ASSUME IInv, EncoderOpenFails
  PROVE  IInv'
<1>1. /\ cmdPc = "open" /\ hVpuCodec' \in BOOLEAN /\ Answer /\ UNCHANGED bufferVars
      /\ UNCHANGED <<eCurState, hBufCtrlSem, ctrlPend, hBufAllocSem, hBufChangeSem, eCmdBufThread>>
      /\ UNCHANGED <<bufPc, inQueue, outQueue>>
  BY DEF EncoderOpenFails, ctrlVars, bufferVars
<1>2. eCurState = "Loaded"
  BY <1>1, TypedParts DEF Carried, Opening
<1>3. StateTyped' /\ StateInv' /\ cmdPc' = "wait"
  BY <1>1, <1>2, AnswerStep DEF States
<1>4. QED
  BY <1>1, <1>3, CommandStep, TypedParts DEF SemTyped, ThreadTyped

\* The codec opens and the encoding thread is created.
LEMMA ThreadIsCreated ==
  ASSUME IInv, EncoderOpen
  PROVE  IInv'
<1>1. /\ cmdPc = "open" /\ hVpuCodec' = TRUE /\ eCmdBufThread' = "PAUSE" /\ hBufCtrlSem' = 0
      /\ ctrlPend' = [t \in {"command", "buffer"} |-> "no"] /\ hBufChangeSem' = 0
      /\ bufPc' = "start" /\ cmdPc' = "created" /\ UNCHANGED bufferVars
      /\ UNCHANGED <<told, outstanding, eCurState, eNewState, cmd, hBufAllocSem>>
      /\ UNCHANGED <<inQueue, outQueue, late>>
  BY DEF EncoderOpen, clientVars, stateVars, bufferVars
<1>2. StateTyped' /\ ThreadTyped' /\ SemTyped'
  BY <1>1, TypedParts, EncoderAssumption DEF StateTyped, ThreadTyped, SemTyped, Opening, NoSem
<1>3. Carried' /\ Opened' /\ Noticed'
  BY <1>1, TypedParts
     DEF Carried, Opened, Noticed, StopIsNoticed, Opening, Stopping, Closing
<1>4. Orderly => Known' /\ Emptied'
  BY <1>1 DEF IInv, StateInv, Known, Emptied
<1>5. BufferTyped' /\ BufferInv'
  BY <1>1, BuffersKept
<1>6. QED
  BY <1>2, <1>3, <1>4, <1>5 DEF IInv, Typed, StateInv

\* A step that only moves between the places of one command.
LEMMA PlaceStep ==
  ASSUME IInv, UNCHANGED <<clientVars, stateVars, bufferVars, hBufAllocSem, hBufChangeSem>>,
         UNCHANGED <<hVpuCodec, eCmdBufThread, bufPc>>,
         hBufCtrlSem' \in 0 .. Modulus - 1,
         ctrlPend' \in [{"command", "buffer"} -> {"no", "waiting", "signalled"}],
         \/ cmdPc \in {"created", "created_wait"} /\ cmdPc' \in {"created_wait", "idle"}
         \/ cmdPc \in {"exec", "lock_wait"} /\ cmd \notin States
            /\ cmdPc' \in {"lock_wait", "unlock"}
  PROVE  IInv'
<1>1. UNCHANGED <<told, outstanding, late, eCurState, eNewState, cmd, inQueue, outQueue>>
  BY DEF clientVars, stateVars, bufferVars
<1>2. StateTyped'
  BY <1>1, TypedParts DEF StateTyped, Opening
<1>3. Carried' /\ Opened'
  BY <1>1, TypedParts DEF Carried, Opened, Opening, Stopping, Closing
<1>4. Orderly => Known' /\ Emptied'
  BY <1>1 DEF IInv, StateInv, Known, Emptied
<1>5. QED
  BY <1>2, <1>3, <1>4, CommandStep, TypedParts DEF StateInv, SemTyped, ThreadTyped

\* The command thread pends hBufCtrlSem for the new thread or for a flush.
LEMMA CtrlIsPended ==
  ASSUME IInv, PendCtrl \/ WakeCtrl \/ UnlockCtrl
  PROVE  IInv'
<1>1. CASE PendCtrl
  <2>1. \/ cmdPc = "created" /\ cmdPc' \in {"created_wait", "idle"}
        \/ cmdPc = "exec" /\ cmd \notin States /\ cmdPc' \in {"lock_wait", "unlock"}
    BY <1>1, EncoderAssumption DEF PendCtrl, Exec, States
  <2>2. Ctrl!NX_PendSem("command")
    BY <1>1 DEF PendCtrl
  <2>3. /\ hBufCtrlSem' \in 0 .. Modulus - 1
        /\ ctrlPend' \in [{"command", "buffer"} -> {"no", "waiting", "signalled"}]
    BY <2>2, CtrlInWord, TypedParts
  <2>4. QED
    BY <1>1, <2>1, <2>3, PlaceStep DEF PendCtrl
<1>2. CASE WakeCtrl
  <2>1. \/ cmdPc = "created_wait" /\ cmdPc' = "idle"
        \/ cmdPc = "lock_wait" /\ cmd \notin States /\ cmdPc' = "unlock"
    BY <1>2, TypedParts DEF WakeCtrl, Carried
  <2>2. Ctrl!Wake("command")
    BY <1>2 DEF WakeCtrl
  <2>3. /\ hBufCtrlSem' \in 0 .. Modulus - 1
        /\ ctrlPend' \in [{"command", "buffer"} -> {"no", "waiting", "signalled"}]
    BY <2>2, CtrlInWord, TypedParts
  <2>4. QED
    BY <1>2, <2>1, <2>3, PlaceStep DEF WakeCtrl
<1>3. CASE UnlockCtrl
  <2>1. /\ cmdPc = "unlock" /\ Ctrl!NX_PostSem /\ Answer /\ UNCHANGED bufferVars
        /\ UNCHANGED <<eCurState, hBufAllocSem, hBufChangeSem, hVpuCodec, eCmdBufThread, bufPc>>
        /\ UNCHANGED <<inQueue, outQueue>>
    BY <1>3 DEF UnlockCtrl, bufferVars
  <2>2. /\ cmd \notin States
        /\ (eCurState # "Loaded" => hVpuCodec) /\ hVpuCodec \in BOOLEAN
    BY <2>1, TypedParts DEF Carried, Opened, StateTyped, ThreadTyped, Closing, States
  <2>3. StateTyped' /\ StateInv' /\ cmdPc' = "wait"
    BY <2>1, <2>2, AnswerStep
  <2>4. /\ hBufCtrlSem' \in 0 .. Modulus - 1
        /\ ctrlPend' \in [{"command", "buffer"} -> {"no", "waiting", "signalled"}]
    BY <2>1, CtrlInWord, TypedParts
  <2>5. QED
    BY <2>1, <2>2, <2>3, <2>4, CommandStep, TypedParts DEF SemTyped
<1>4. QED
  BY <1>1, <1>2, <1>3

\* The state a transition waited for is stored; the queues hold nothing old then.
LEMMA TransitionSettles ==
  ASSUME IInv, Settle
  PROVE  IInv'
<1>1. /\ cmdPc' = "event" /\ UNCHANGED bufferVars
      /\ UNCHANGED <<told, outstanding, late, eNewState, cmd, hBufCtrlSem, ctrlPend>>
      /\ UNCHANGED <<hBufAllocSem, hBufChangeSem, hVpuCodec, eCmdBufThread, bufPc>>
      /\ UNCHANGED <<inQueue, outQueue>>
      /\ \/ cmdPc \in {"idle", "settle"} /\ eCurState' = "Idle"
         \/ cmdPc = "loaded" /\ eCurState' = "Loaded"
  BY DEF Settle, clientVars, ctrlVars, bufferVars
<1>2. /\ cmd = eCurState' /\ cmd \in States /\ (cmd # "Loaded" => hVpuCodec)
      /\ eCurState \in {"Loaded", "Idle"} \/ cmdPc = "settle"
  BY <1>1, TypedParts DEF Carried, Opened, Opening, Stopping, Closing, States
<1>3. StateTyped' /\ StateInv'
  BY <1>1, <1>2, StoreStep
<1>4. QED
  BY <1>1, <1>3, CommandStep, TypedParts DEF SemTyped, ThreadTyped

\* Idle -> Executing posts hBufCtrlSem and tells the thread to run.
LEMMA ExecutionStarts ==
  ASSUME IInv, IdleToExecuting
  PROVE  IInv'
<1>1. /\ cmdPc = "exec" /\ cmd = "Executing" /\ eCurState = "Idle" /\ eCmdBufThread' = "RUN"
      /\ Ctrl!NX_PostSem /\ eCurState' = "Executing" /\ late' = {} /\ cmdPc' = "event"
      /\ UNCHANGED bufferVars /\ UNCHANGED <<told, outstanding, eNewState, cmd>>
      /\ UNCHANGED <<hBufAllocSem, hBufChangeSem, hVpuCodec, bufPc, inQueue, outQueue>>
  BY DEF IdleToExecuting, Exec, bufferVars
<1>2. hVpuCodec = TRUE
  BY <1>1, TypedParts DEF Opened, Closing, ThreadTyped
<1>3. StateTyped' /\ StateInv'
  BY <1>1, <1>2, StoreStep DEF States
<1>4. /\ hBufCtrlSem' \in 0 .. Modulus - 1
      /\ ctrlPend' \in [{"command", "buffer"} -> {"no", "waiting", "signalled"}]
  BY <1>1, CtrlInWord, TypedParts
<1>5. QED
  BY <1>1, <1>2, <1>3, <1>4, CommandStep, TypedParts DEF SemTyped

\* Transitions from and to Pause only store the state.
LEMMA PauseIsStored ==
  ASSUME IInv, PauseTransitions
  PROVE  IInv'
<1>1. /\ cmdPc = "exec" /\ <<eCurState, cmd>> \in StoredOnly /\ eCurState' = cmd
      /\ cmdPc' = "event" /\ UNCHANGED bufferVars
      /\ UNCHANGED <<told, outstanding, late, eNewState, cmd, hBufCtrlSem, ctrlPend>>
      /\ UNCHANGED <<hBufAllocSem, hBufChangeSem, hVpuCodec, eCmdBufThread, bufPc>>
      /\ UNCHANGED <<inQueue, outQueue>>
  BY DEF PauseTransitions, Exec, clientVars, ctrlVars, bufferVars
<1>2. /\ cmd \in {"Pause", "Executing", "Idle"} /\ eCurState \in {"Idle", "Executing", "Pause"}
      /\ cmd = "Idle" => eCurState = "Pause"
  BY <1>1 DEF StoredOnly
<1>3. hVpuCodec = TRUE
  BY <1>1, <1>2, TypedParts DEF Opened, Closing, ThreadTyped
<1>4. Orderly => cmd # "Idle"
  BY <1>1, <1>2 DEF IInv, StateInv, Known, Transitions, States
<1>5. StateTyped' /\ StateInv'
  BY <1>1, <1>2, <1>3, <1>4, StoreStep DEF States
<1>6. QED
  BY <1>1, <1>3, <1>5, CommandStep, TypedParts DEF SemTyped

\* The event reports the state that is stored.
LEMMA StateIsReported ==
  ASSUME IInv, SendEvent
  PROVE  IInv'
<1>1. /\ cmdPc = "event" /\ Answer /\ UNCHANGED bufferVars
      /\ UNCHANGED <<eCurState, hBufCtrlSem, ctrlPend, hBufAllocSem, hBufChangeSem>>
      /\ UNCHANGED <<hVpuCodec, eCmdBufThread, bufPc, inQueue, outQueue>>
  BY DEF SendEvent, ctrlVars, bufferVars
<1>2. cmd = eCurState /\ (eCurState # "Loaded" => hVpuCodec) /\ hVpuCodec \in BOOLEAN
  BY <1>1, TypedParts DEF Carried, Opened, Closing, States, StateTyped, ThreadTyped
<1>3. StateTyped' /\ StateInv' /\ cmdPc' = "wait"
  BY <1>1, <1>2, AnswerStep
<1>4. QED
  BY <1>1, <1>2, <1>3, CommandStep, TypedParts DEF SemTyped

\* A stop or an exit posts the buffer change semaphore.
LEMMA StopStep ==
  ASSUME IInv, cmdPc = "exec", cmd \in States, UNCHANGED bufferVars, UNCHANGED clientVars,
         UNCHANGED <<eCurState, eNewState, cmd, hBufAllocSem, bufPc>>,
         hBufChangeSem' = Post(hBufChangeSem, ChangeMax),
         eCmdBufThread' \in {"PAUSE", "EXIT"}, hVpuCodec' \in BOOLEAN,
         hBufCtrlSem' \in 0 .. Modulus - 1,
         ctrlPend' \in [{"command", "buffer"} -> {"no", "waiting", "signalled"}],
         \/ cmd = "Idle" /\ eCurState = "Executing" /\ cmdPc' = "return" /\ hVpuCodec' = hVpuCodec
         \/ cmd = "Loaded" /\ eCurState = "Idle" /\ cmdPc' = "join"
  PROVE  IInv'
<1>1. UNCHANGED <<told, outstanding, late, inQueue, outQueue>>
  BY DEF clientVars, bufferVars
<1>2. StateTyped' /\ ThreadTyped' /\ SemTyped'
  BY <1>1, TypedParts, PostChange DEF StateTyped, ThreadTyped, SemTyped, Stopping, Closing
<1>3. Carried' /\ Opened'
  BY <1>1, TypedParts DEF Carried, Opened, Opening, Stopping, Closing
<1>4. Noticed'
  BY TypedParts, PostChange DEF Noticed, StopIsNoticed
<1>5. Orderly => Known' /\ Emptied'
  BY <1>1 DEF IInv, StateInv, Known, Emptied
<1>6. BufferTyped' /\ BufferInv'
  BY BuffersKept
<1>7. QED
  BY <1>2, <1>3, <1>4, <1>5, <1>6 DEF IInv, Typed, StateInv

\* A stop or an exit is stored before the thread is woken.
LEMMA ExecutionStops ==
  ASSUME IInv, ExecutingToIdle \/ IdleToLoaded
  PROVE  IInv'
<1>1. CASE ExecutingToIdle
  <2>1. UNCHANGED <<hBufCtrlSem, ctrlPend, eCurState, eNewState, cmd>>
    BY <1>1 DEF ExecutingToIdle, ctrlVars, stateVars
  <2>2. QED
    BY <1>1, <2>1, StopStep, TypedParts DEF ExecutingToIdle, Exec, SemTyped, ThreadTyped, States
<1>2. CASE IdleToLoaded
  <2>1. UNCHANGED <<eCurState, eNewState, cmd>> /\ Ctrl!NX_PostSem
    BY <1>2 DEF IdleToLoaded, stateVars
  <2>2. /\ hBufCtrlSem' \in 0 .. Modulus - 1
        /\ ctrlPend' \in [{"command", "buffer"} -> {"no", "waiting", "signalled"}]
    BY <2>1, CtrlInWord, TypedParts
  <2>3. QED
    BY <1>2, <2>1, <2>2, StopStep DEF IdleToLoaded, Exec, States
<1>3. QED
  BY <1>1, <1>2

\* The thread was joined, and the codec is closed behind it.
LEMMA ThreadIsJoined ==
  ASSUME IInv, JoinBufThread
  PROVE  IInv'
<1>1. /\ cmdPc = "join" /\ bufPc' = "none" /\ cmdPc' = "free" /\ hBufChangeSem' = NoSem
      /\ UNCHANGED bufferVars
      /\ UNCHANGED <<told, outstanding, eCurState, eNewState, cmd, hBufCtrlSem, ctrlPend>>
      /\ UNCHANGED <<hBufAllocSem, hVpuCodec, eCmdBufThread, inQueue, outQueue, late>>
  BY DEF JoinBufThread, clientVars, stateVars, ctrlVars, bufferVars
<1>2. StateTyped' /\ ThreadTyped' /\ SemTyped' /\ Noticed'
  BY <1>1, TypedParts, EncoderAssumption
     DEF StateTyped, ThreadTyped, SemTyped, Noticed, StopIsNoticed, NoSem, Closing
<1>3. Carried' /\ Opened'
  BY <1>1, TypedParts DEF Carried, Opened, Opening, Stopping, Closing
<1>4. Orderly => Known' /\ Emptied'
  BY <1>1 DEF IInv, StateInv, Known, Emptied
<1>5. BufferTyped' /\ BufferInv'
  BY <1>1, BuffersKept
<1>6. QED
  BY <1>2, <1>3, <1>4, <1>5 DEF IInv, Typed, StateInv

\* What the queues held belongs to the client again.
LEMMA GivenBack ==
  ASSUME IInv, NEW G, owner' = Returned(G), G \subseteq Buffers
  PROVE  /\ owner' \in [Buffers -> {"none", "client", "comp"}]
         /\ \A b \in Buffers : owner'[b] = "comp" <=> owner[b] = "comp" /\ b \notin G
BY TypedParts DEF BufferTyped, Returned

\* A flush or a stop gives every queued buffer back.
LEMMA BuffersAreReturned ==
  ASSUME IInv, ReturnBuffers
  PROVE  IInv'
<1>1. /\ owner' = Returned(Flushed)
      /\ inQueue' = IF "in" \in FlushedPorts THEN << >> ELSE inQueue
      /\ outQueue' = IF "out" \in FlushedPorts THEN << >> ELSE outQueue
      /\ UNCHANGED <<eCurState, lost, returnedTwice, bSendCodecSpecificInfo, hBufCtrlSem, ctrlPend>>
      /\ UNCHANGED <<hBufAllocSem, hBufChangeSem, hVpuCodec, eCmdBufThread, bufPc, eNewState, cmd>>
      /\ late' = late
  BY DEF ReturnBuffers, ctrlVars, clientVars, Answer
<1>2. \/ /\ cmdPc = "return" /\ cmdPc' = "settle" /\ UNCHANGED <<told, outstanding>>
         /\ cmd = "Idle" /\ eCurState = "Executing" /\ FlushedPorts = {"in", "out"}
      \/ /\ cmdPc = "exec" /\ cmdPc' = "wait" /\ outstanding' = FALSE /\ told' = told
         /\ cmd \in {"FlushIn", "FlushOut", "FlushAll"} /\ cmd \notin States
  <2>1. cmdPc = "return" => cmd = "Idle" /\ eCurState = "Executing"
    BY TypedParts DEF Carried, Stopping
  <2>2. QED
    BY <2>1, FlushedPortsAre DEF ReturnBuffers, clientVars, Answer, Exec, States
<1>3. /\ StateTyped' /\ ThreadTyped' /\ SemTyped' /\ Noticed'
  BY <1>1, <1>2, TypedParts
     DEF StateTyped, ThreadTyped, SemTyped, Noticed, StopIsNoticed, Stopping
<1>4. Carried' /\ Opened'
  BY <1>1, <1>2, TypedParts DEF Carried, Opened, Opening, Stopping, Closing
<1>5. Orderly => Known'
  BY <1>1, <1>2, TypedParts DEF IInv, StateInv, Known
<1>6. Flushed = (IF "in" \in FlushedPorts THEN Bufs(inQueue) ELSE {})
                \cup (IF "out" \in FlushedPorts THEN Range(outQueue) ELSE {})
  BY DEF Flushed, Bufs
<1>7. /\ Bufs(inQueue) \subseteq InBufs /\ Range(outQueue) \subseteq OutBufs
      /\ Bufs(<< >>) = {} /\ Range(<< >>) = {} /\ InBufs \cap OutBufs = {}
      /\ OnceIn(<< >>) /\ OnceOut(<< >>) /\ NoEos(<< >>)
  BY HeldInPort, TypedParts, EncoderAssumption
<1>8. /\ Bufs(inQueue') = Bufs(inQueue) \ Flushed /\ Range(outQueue') = Range(outQueue) \ Flushed
  BY <1>1, <1>6, <1>7
<1>9. /\ Flushed \subseteq Buffers /\ owner' \in [Buffers -> {"none", "client", "comp"}]
      /\ \A b \in Buffers : owner'[b] = "comp" <=> owner[b] = "comp" /\ b \notin Flushed
  BY <1>1, <1>6, <1>7, GivenBack DEF Buffers
<1>10. BufferTyped'
  <2>1. << >> \in Seq([buf : InBufs, eos : BOOLEAN]) /\ << >> \in Seq(OutBufs)
    OBVIOUS
  <2>2. QED
    BY <1>1, <1>9, <2>1, TypedParts DEF BufferTyped
<1>11. Owned' /\ Once'
  <2>1. lost \cap Flushed = {}
    BY <1>6, TypedParts DEF Owned
  <2>2. Owned'
    BY <1>1, <1>8, <1>9, <2>1, TypedParts DEF Owned
  <2>3. QED
    BY <1>1, <1>7, <2>2, TypedParts DEF Once
<1>12. Prefilling => Filled' /\ ~returnedTwice'
  <2> SUFFICES ASSUME Prefilling
               PROVE  Filled' /\ ~returnedTwice'
    OBVIOUS
  <2>1. Filled /\ ~returnedTwice
    BY DEF IInv, BufferInv
  <2>2. ~bSendCodecSpecificInfo => "in" \in FlushedPorts
    BY <1>2, <2>1, FlushedPortsAre DEF Filled
  <2>3. QED
    BY <1>1, <1>2, <1>7, <2>1, <2>2 DEF Filled
<1>13. Orderly => Emptied'
  BY <1>1, <1>2, <1>7, <1>8 DEF IInv, StateInv, Emptied
<1>14. QED
  BY <1>3, <1>4, <1>5, <1>10, <1>11, <1>12, <1>13 DEF IInv, Typed, StateInv, BufferInv

-----------------------------------------------------------------------------
(* The encoding thread.                                                      *)

\* A step of the thread that touches no buffer.
LEMMA ThreadStep ==
  ASSUME IInv, UNCHANGED bufferVars, ThreadTyped', SemTyped', Noticed',
         UNCHANGED <<clientVars, stateVars, hVpuCodec, cmdPc>>
  PROVE  IInv'
<1>1. /\ UNCHANGED <<told, outstanding, late, eCurState, eNewState, cmd, cmdPc, hVpuCodec>>
      /\ UNCHANGED <<inQueue, outQueue>>
  BY DEF clientVars, stateVars, bufferVars
<1>2. StateTyped' /\ Carried' /\ Opened'
  BY <1>1, TypedParts DEF StateTyped, Carried, Opened
<1>3. Orderly => Known' /\ Emptied'
  BY <1>1 DEF IInv, StateInv, Known, Emptied
<1>4. BufferTyped' /\ BufferInv'
  BY <1>1, BuffersKept
<1>5. QED
  BY <1>2, <1>3, <1>4 DEF IInv, Typed, StateInv

\* The thread starts, tests its command and pends its semaphores.
LEMMA ThreadGoesOn ==
  ASSUME IInv, BufStart \/ BufTest \/ BufPendCtrl \/ BufPendChange
  PROVE  IInv'
<1>1. CASE BufStart
  <2>1. /\ bufPc = "start" /\ bufPc' = "test" /\ Ctrl!NX_PostSem
        /\ UNCHANGED <<hBufAllocSem, hBufChangeSem, eCmdBufThread, hVpuCodec>>
    BY <1>1 DEF BufStart
  <2>2. ThreadTyped' /\ SemTyped' /\ Noticed'
    BY <2>1, TypedParts, CtrlInWord DEF ThreadTyped, SemTyped, Noticed, StopIsNoticed
  <2>3. QED
    BY <1>1, <2>2, ThreadStep DEF BufStart
<1>2. CASE BufTest
  <2>1. UNCHANGED <<hBufAllocSem, hBufChangeSem, hBufCtrlSem, ctrlPend, eCmdBufThread, hVpuCodec>>
    BY <1>2 DEF BufTest, ctrlVars
  <2>2. ThreadTyped' /\ SemTyped' /\ Noticed'
    BY <1>2, <2>1, TypedParts DEF BufTest, ThreadTyped, SemTyped, Noticed, StopIsNoticed
  <2>3. QED
    BY <1>2, <2>2, ThreadStep DEF BufTest
<1>3. CASE BufPendCtrl
  <2>1. /\ bufPc \in {"ctrl", "ctrl_wait"} /\ bufPc' \in {"ctrl_wait", "inner"}
        /\ Ctrl!NX_PendSem("buffer") \/ Ctrl!Wake("buffer")
        /\ UNCHANGED <<hBufAllocSem, hBufChangeSem, eCmdBufThread, hVpuCodec>>
    BY <1>3 DEF BufPendCtrl
  <2>2. /\ hBufCtrlSem' \in 0 .. Modulus - 1
        /\ ctrlPend' \in [{"command", "buffer"} -> {"no", "waiting", "signalled"}]
    BY <2>1, CtrlInWord, TypedParts
  <2>3. ThreadTyped' /\ SemTyped' /\ Noticed'
    BY <2>1, <2>2, TypedParts DEF ThreadTyped, SemTyped, Noticed, StopIsNoticed
  <2>4. QED
    BY <1>3, <2>3, ThreadStep DEF BufPendCtrl
<1>4. CASE BufPendChange
  <2>1. /\ bufPc = "change" /\ hBufChangeSem > 0 /\ hBufChangeSem' = hBufChangeSem - 1
        /\ bufPc' = "check"
        /\ UNCHANGED <<hBufAllocSem, hBufCtrlSem, ctrlPend, eCmdBufThread, hVpuCodec>>
    BY <1>4 DEF BufPendChange, ctrlVars
  <2>2. ThreadTyped' /\ SemTyped' /\ Noticed'
    BY <2>1, TypedParts, EncoderAssumption
       DEF ThreadTyped, SemTyped, Noticed, StopIsNoticed, NoSem
  <2>3. QED
    BY <1>4, <2>2, ThreadStep DEF BufPendChange
<1>5. QED
  BY <1>1, <1>2, <1>3, <1>4

\* What EncodeFrame does with the frame at the head of the input queue and the
\* outputs R it pops: each goes back to the client, or is lost.
LEMMA EncodeStep ==
  ASSUME IInv, inQueue # << >>, inQueue' = Tail(inQueue),
         NEW R \in SUBSET OutBufs, NEW L \in SUBSET Buffers, NEW G \in SUBSET Buffers,
         G \cup L = R \cup {Head(inQueue).buf}, G \cap L = {}, R \subseteq Range(outQueue),
         outQueue' \in Seq(OutBufs), Range(outQueue') = Range(outQueue) \ R, OnceOut(outQueue'),
         lost' = lost \cup L,
         \A b \in Buffers : owner'[b] = "comp" <=> owner[b] = "comp" /\ b \notin G,
         owner' \in [Buffers -> {"none", "client", "comp"}],
         returnedTwice' \in BOOLEAN, bSendCodecSpecificInfo' \in BOOLEAN,
         Prefilling => ~returnedTwice',
         Prefilling /\ ~bSendCodecSpecificInfo' => ~bSendCodecSpecificInfo /\ R = {},
         UNCHANGED <<cmdPc, cmd>>
  PROVE  /\ BufferTyped' /\ BufferInv'
         /\ Bufs(inQueue') \subseteq Bufs(inQueue) /\ Range(outQueue') \subseteq Range(outQueue)
<1>1. /\ inQueue \in Seq(Frames) /\ outQueue \in Seq(OutBufs) /\ lost \subseteq Buffers
      /\ Owned /\ Once
  BY TypedParts DEF BufferTyped, Frames
<1> DEFINE f == Head(inQueue).buf
<1>2. /\ Bufs(inQueue) = Bufs(inQueue') \cup {f}
      /\ OnceIn(inQueue) => OnceIn(inQueue') /\ f \notin Bufs(inQueue')
      /\ NoEos(inQueue) => NoEos(inQueue')
      /\ inQueue' \in Seq(Frames)
  BY <1>1, InTail, TailAt
<1>3. /\ Bufs(inQueue) \subseteq InBufs /\ Range(outQueue) \subseteq OutBufs
      /\ InBufs \cap OutBufs = {} /\ Bufs(inQueue) \subseteq Buffers
  BY HeldInPort, TypedParts, EncoderAssumption DEF Buffers
<1> HIDE DEF f
<1>4. BufferTyped'
  BY <1>1, <1>2 DEF BufferTyped, Frames
<1>5. Bufs(inQueue') = Bufs(inQueue) \ {f} /\ f \in Bufs(inQueue) /\ f \notin OutBufs
  BY <1>1, <1>2, <1>3 DEF Once
<1>6. G \cup L = R \cup {f}
  BY DEF f
<1>7. lost' \cap (Bufs(inQueue') \cup Range(outQueue')) = {}
  BY <1>1, <1>3, <1>5, <1>6 DEF Owned
<1>8. \A b \in Buffers :
        owner'[b] = "comp" <=> b \in Bufs(inQueue') \cup Range(outQueue') \cup lost'
  BY <1>1, <1>3, <1>5, <1>6 DEF Owned
<1>9. Owned' /\ Once'
  BY <1>1, <1>2, <1>7, <1>8 DEF Owned, Once
<1>10. Prefilling => Filled' /\ ~returnedTwice'
  <2>1. Prefilling => Filled
    BY DEF IInv, BufferInv
  <2>2. QED
    BY <1>2, <2>1 DEF Filled
<1>11. QED
  BY <1>4, <1>5, <1>9, <1>10 DEF BufferInv

\* EncodeFrame with each of its outcomes.
LEMMA FrameIsEncoded ==
  ASSUME IInv, BufEncode
  PROVE  IInv'
<1>1. /\ bufPc = "encode" /\ bufPc' = "inner"
      /\ UNCHANGED <<told, outstanding, late, eCurState, eNewState, cmd, hBufCtrlSem, ctrlPend>>
      /\ UNCHANGED <<hBufAllocSem, hBufChangeSem, hVpuCodec, eCmdBufThread, cmdPc>>
  BY DEF BufEncode, clientVars, stateVars, ctrlVars
<1>2. /\ StateTyped' /\ ThreadTyped' /\ SemTyped' /\ Noticed' /\ Carried' /\ Opened'
      /\ Orderly => Known'
  BY <1>1, TypedParts
     DEF StateTyped, ThreadTyped, SemTyped, Noticed, StopIsNoticed, Carried, Opened, Known, IInv,
         StateInv
<1>3. CASE inQueue = << >> \/ outQueue = << >>
  <2>1. UNCHANGED bufferVars
    BY <1>3 DEF BufEncode
  <2>2. QED
    BY <1>1, <1>2, <2>1, ThreadStep DEF clientVars, stateVars
<1>4. CASE inQueue # << >> /\ outQueue # << >>
  <2> DEFINE f == Head(inQueue).buf  o == Head(outQueue)
  <2>1. /\ inQueue' = Tail(inQueue) /\ (EncodeEos \/ EncodeGivesUp \/ EncodeOutput)
    BY <1>4 DEF BufEncode
  <2>2. /\ inQueue \in Seq(Frames) /\ outQueue \in Seq(OutBufs) /\ Once
        /\ returnedTwice \in BOOLEAN /\ bSendCodecSpecificInfo \in BOOLEAN
    BY TypedParts DEF BufferTyped, Frames
  <2>3. /\ o \in OutBufs /\ Tail(outQueue) \in Seq(OutBufs) /\ o \in Range(outQueue)
        /\ Range(Tail(outQueue)) = Range(outQueue) \ {o} /\ OnceOut(Tail(outQueue))
    BY <1>4, <2>2, OutTail, TailAt DEF Once
  <2>4. /\ f \in InBufs /\ f \in Buffers /\ o \in Buffers /\ f \notin OutBufs
    <3>1. Head(inQueue) \in Frames
      BY <1>4, <2>2, TailAt
    <3>2. QED
      BY <2>3, <3>1, EncoderAssumption DEF Buffers, Frames
  <2>5. /\ Prefilling /\ ~bSendCodecSpecificInfo =>
             ~Head(inQueue).eos /\ Range(outQueue) = OutBufs
        /\ Prefilling => ~returnedTwice
    BY <1>4, <2>2, InTail DEF IInv, BufferInv, Filled
  <2>6. ~(Prefilling /\ ~bSendCodecSpecificInfo /\ Len(outQueue) = 1)
    <3> SUFFICES ASSUME Prefilling, ~bSendCodecSpecificInfo, Len(outQueue) = 1
                 PROVE  FALSE
      OBVIOUS
    <3>1. \A b \in OutBufs : b = outQueue[1]
      <4>1. DOMAIN outQueue = {1}
        BY <2>2
      <4>2. QED
        BY <2>5, <4>1 DEF Range
    <3>2. QED
      BY <3>1 DEF Prefilling
  <2>7. /\ BufferTyped' /\ BufferInv'
        /\ Bufs(inQueue') \subseteq Bufs(inQueue) /\ Range(outQueue') \subseteq Range(outQueue)
    <3>1. CASE EncodeEos
      <4>1. /\ outQueue' = Tail(outQueue) /\ owner' = Returned({f, o}) /\ Head(inQueue).eos
            /\ UNCHANGED <<lost, returnedTwice, bSendCodecSpecificInfo>>
        BY <3>1 DEF EncodeEos
      <4> DEFINE R == {o}  L == {}  G == {f, o}
      <4>2. /\ owner' \in [Buffers -> {"none", "client", "comp"}]
            /\ \A b \in Buffers : owner'[b] = "comp" <=> owner[b] = "comp" /\ b \notin G
        <5>1. G \subseteq Buffers /\ owner' = Returned(G)
          BY <2>4, <4>1
        <5> HIDE DEF G
        <5>2. QED
          BY <5>1, GivenBack
      <4>3. Prefilling => bSendCodecSpecificInfo
        BY <2>5, <4>1
      <4>4. /\ R \in SUBSET OutBufs /\ L \in SUBSET Buffers /\ G \in SUBSET Buffers
            /\ G \cup L = R \cup {f} /\ G \cap L = {} /\ R \subseteq Range(outQueue)
            /\ outQueue' \in Seq(OutBufs) /\ Range(outQueue') = Range(outQueue) \ R
            /\ OnceOut(outQueue') /\ lost' = lost \cup L
        BY <2>3, <2>4, <4>1
      <4>5. /\ returnedTwice' \in BOOLEAN /\ bSendCodecSpecificInfo' \in BOOLEAN
            /\ Prefilling => ~returnedTwice' /\ bSendCodecSpecificInfo'
        BY <2>2, <2>5, <4>1, <4>3
      <4> HIDE DEF R, L, G
      <4>6. QED
        BY <1>1, <1>4, <2>1, <4>2, <4>4, <4>5, EncodeStep
    <3>2. CASE EncodeGivesUp
      <4>1. /\ outQueue' = outQueue /\ lost' = lost \cup {f}
            /\ UNCHANGED <<owner, returnedTwice, bSendCodecSpecificInfo>>
        BY <3>2 DEF EncodeGivesUp
      <4> DEFINE R == {}  L == {f}  G == {}
      <4>2. /\ R \in SUBSET OutBufs /\ L \in SUBSET Buffers /\ G \in SUBSET Buffers
            /\ G \cup L = R \cup {f} /\ G \cap L = {} /\ R \subseteq Range(outQueue)
            /\ outQueue' \in Seq(OutBufs) /\ Range(outQueue') = Range(outQueue) \ R
            /\ OnceOut(outQueue') /\ lost' = lost \cup L /\ R = {}
        BY <2>2, <2>4, <4>1 DEF Once
      <4>3. /\ owner' \in [Buffers -> {"none", "client", "comp"}]
            /\ \A b \in Buffers : owner'[b] = "comp" <=> owner[b] = "comp" /\ b \notin G
        BY <4>1, TypedParts DEF BufferTyped
      <4> HIDE DEF R, L, G
      <4>4. QED
        BY <1>1, <2>1, <1>4, <2>2, <2>5, <4>1, <4>2, <4>3, EncodeStep
    <3>3. CASE EncodeOutput
      <4> DEFINE dsi   == ~bSendCodecSpecificInfo
                 alone == dsi /\ Len(outQueue) = 1
                 frame == IF dsi /\ ~alone THEN outQueue[2] ELSE o
                 gone  == IF dsi THEN {o} ELSE {}
      <4>1. /\ outQueue' = IF dsi /\ ~alone THEN Tail(Tail(outQueue)) ELSE Tail(outQueue)
            /\ bSendCodecSpecificInfo' = TRUE
            /\ \/ /\ owner' = Returned(gone \cup {frame, f})
                  /\ returnedTwice' = (returnedTwice \/ alone) /\ UNCHANGED lost
               \/ /\ owner' = Returned(gone) /\ lost' = lost \cup ({frame, f} \ gone)
                  /\ UNCHANGED returnedTwice
        BY <3>3 DEF EncodeOutput
      <4>2. returnedTwice' \in BOOLEAN /\ (Prefilling => ~returnedTwice')
        <5>1. returnedTwice' = returnedTwice \/ returnedTwice' = (returnedTwice \/ alone)
          BY <4>1
        <5>2. alone \in BOOLEAN /\ (Prefilling => ~alone)
          BY <2>6
        <5> HIDE DEF alone
        <5>3. QED
          BY <2>2, <2>5, <5>1, <5>2
      <4> DEFINE R == gone \cup {frame}
      <4>3. /\ R \in SUBSET OutBufs /\ R \subseteq Range(outQueue)
            /\ gone \subseteq R /\ frame \in R
            /\ outQueue' \in Seq(OutBufs) /\ Range(outQueue') = Range(outQueue) \ R
            /\ OnceOut(outQueue')
        <5>1. CASE dsi /\ ~alone
          <6> DEFINE t == Tail(outQueue)
          <6>0. /\ t \in Seq(OutBufs) /\ OnceOut(t)
                /\ DOMAIN t = 1 .. Len(outQueue) - 1 /\ Len(outQueue) \in Nat \ {0}
                /\ \A i \in 1 .. Len(outQueue) - 1 : t[i] = outQueue[i + 1]
            BY <1>4, <2>2, <2>3, TailAt
          <6> HIDE DEF t
          <6>1. t # << >> /\ outQueue[2] = Head(t)
            <7>1. Len(outQueue) # 1
              BY <5>1
            <7>2. 1 \in DOMAIN t /\ t[1] = outQueue[2]
              <8> DEFINE n == Len(outQueue)
              <8>1. n \in Nat \ {0} /\ n # 1
                BY <6>0, <7>1
              <8> HIDE DEF n
              <8>2. 1 \in 1 .. n - 1 /\ 1 + 1 = 2
                BY <8>1
              <8>3. QED
                BY <6>0, <8>2 DEF n
            <7>3. t # << >>
              BY <7>2
            <7>4. QED
              BY <6>0, <7>2, <7>3, TailAt
          <6>2. /\ Tail(t) \in Seq(OutBufs) /\ Range(Tail(t)) = Range(t) \ {Head(t)}
                /\ OnceOut(Tail(t)) /\ Head(t) \in Range(t) /\ Head(t) \in OutBufs
            BY <6>0, <6>1, OutTail, TailAt
          <6>3. R = {o, Head(t)} /\ outQueue' = Tail(t)
            BY <4>1, <5>1, <6>1 DEF t
          <6>4. Range(t) = Range(outQueue) \ {o}
            BY <2>3 DEF t
          <6>5. QED
            BY <2>3, <5>1, <6>1, <6>2, <6>3, <6>4
        <5>2. CASE ~(dsi /\ ~alone)
          <6>1. R = {o} /\ outQueue' = Tail(outQueue) /\ frame = o
            BY <4>1, <5>2
          <6>2. QED
            BY <2>3, <6>1
        <5>3. QED
          BY <5>1, <5>2
      <4> HIDE DEF frame, gone, alone, dsi
      <4>4. PICK G \in SUBSET Buffers, L \in SUBSET Buffers :
              /\ owner' = Returned(G) /\ lost' = lost \cup L /\ G \cap L = {}
              /\ G \cup L = R \cup {f}
        <5>1. R \cup {f} \subseteq Buffers
          BY <2>4, <4>3 DEF Buffers
        <5>2. CASE owner' = Returned(gone \cup {frame, f}) /\ UNCHANGED lost
          <6>1. /\ gone \cup {frame, f} \in SUBSET Buffers /\ {} \in SUBSET Buffers
                /\ lost' = lost \cup {} /\ (gone \cup {frame, f}) \cap {} = {}
                /\ (gone \cup {frame, f}) \cup {} = R \cup {f}
            BY <5>1, <5>2
          <6>2. QED
            BY <5>2, <6>1
        <5>3. CASE owner' = Returned(gone) /\ lost' = lost \cup ({frame, f} \ gone)
          <6>1. /\ gone \in SUBSET Buffers /\ {frame, f} \ gone \in SUBSET Buffers
                /\ gone \cap ({frame, f} \ gone) = {}
                /\ gone \cup ({frame, f} \ gone) = R \cup {f}
            BY <4>3, <5>1
          <6>2. QED
            BY <5>3, <6>1
        <5>4. QED
          BY <4>1, <5>2, <5>3
      <4>5. /\ owner' \in [Buffers -> {"none", "client", "comp"}]
            /\ \A b \in Buffers : owner'[b] = "comp" <=> owner[b] = "comp" /\ b \notin G
        BY <4>4, GivenBack
      <4> HIDE DEF R
      <4>6. QED
        BY <1>1, <1>4, <2>1, <4>1, <4>2, <4>3, <4>4, <4>5, EncodeStep
    <3>4. QED
      BY <2>1, <3>1, <3>2, <3>3
  <2>8. Orderly => Emptied'
    BY <1>1, <2>7 DEF IInv, StateInv, Emptied
  <2>9. QED
    BY <1>2, <2>7, <2>8 DEF IInv, Typed, StateInv
<1>5. QED
  BY <1>3, <1>4

-----------------------------------------------------------------------------
(* All steps, and what follows.                                              *)

\* A component just created satisfies the invariant.
LEMMA InitIInv == Init => IInv
<1> SUFFICES ASSUME Init
             PROVE  IInv
  OBVIOUS
<1>1. inQueue = << >> /\ outQueue = << >> /\ Bufs(<< >>) = {} /\ Range(<< >>) = {}
  BY DEF Init, Bufs, Range
<1>2. /\ << >> \in Seq([buf : InBufs, eos : BOOLEAN]) /\ << >> \in Seq(OutBufs)
      /\ OnceIn(<< >>) /\ OnceOut(<< >>) /\ NoEos(<< >>)
  BY DEF OnceIn, OnceOut, NoEos
<1>3. StateTyped /\ ThreadTyped /\ SemTyped
  <2>1. StateTyped /\ ThreadTyped
    BY DEF Init, StateTyped, ThreadTyped, States
  <2>2. 0 \in 0..AllocMax /\ NoSem \in NoSem..ChangeMax /\ 0 \in 0 .. Modulus - 1
    BY EncoderAssumption DEF NoSem
  <2>3. QED
    BY <2>1, <2>2 DEF Init, SemTyped
<1>4. BufferTyped
  BY <1>1, <1>2 DEF Init, BufferTyped
<1>5. Carried /\ Opened /\ Known /\ Emptied /\ Noticed
  BY <1>1 DEF Init, Carried, Opened, Known, Emptied, Noticed, StopIsNoticed, Opening, Stopping,
              Closing
<1>6. Owned /\ Once /\ Filled /\ ~returnedTwice
  BY <1>1, <1>2 DEF Init, Owned, Once, Filled
<1>7. QED
  BY <1>3, <1>4, <1>5, <1>6 DEF IInv, Typed, StateInv, BufferInv

\* Every step of the client and of both threads keeps the invariant.
LEMMA NextIInv == IInv /\ [Next]_vars => IInv'
<1> SUFFICES ASSUME IInv, [Next]_vars
             PROVE  IInv'
  OBVIOUS
<1>1. CASE Client
  BY <1>1, CommandIsSent, BuffersAreCreated, FrameIsPassed, OutputIsPassed DEF Client
<1>2. CASE CommandThread
  BY <1>2, TransitionIsRefused, AllocIsPended, OpenFails, ThreadIsCreated, CtrlIsPended,
     TransitionSettles, StateIsReported, ExecutionStarts, PauseIsStored, ExecutionStops,
     ThreadIsJoined, BuffersAreReturned DEF CommandThread
<1>3. CASE BufThread
  BY <1>3, ThreadGoesOn, FrameIsEncoded DEF BufThread
<1>4. CASE UNCHANGED vars
  <2>1. /\ UNCHANGED bufferVars
        /\ UNCHANGED <<clientVars, stateVars, hVpuCodec, cmdPc>>
        /\ UNCHANGED <<hBufAllocSem, hBufChangeSem, hBufCtrlSem, ctrlPend, eCmdBufThread, bufPc>>
    BY <1>4 DEF vars, ctrlVars
  <2>2. ThreadTyped' /\ SemTyped' /\ Noticed'
    BY <2>1, TypedParts DEF ThreadTyped, SemTyped, Noticed, StopIsNoticed
  <2>3. QED
    BY <2>1, <2>2, ThreadStep
<1>5. QED
  BY <1>1, <1>2, <1>3, <1>4 DEF Next

\* The invariant holds in every state.
LEMMA Invariance == Spec => []IInv
<1>1. QED
  BY InitIInv, NextIInv, PTL DEF Spec

\* The two queues together are as long as the set of buffers they hold.
LEMMA QueuedCounted ==
  ASSUME BufferTyped, Once
  PROVE  Cardinality(Bufs(inQueue) \cup Range(outQueue)) = Len(inQueue) + Len(outQueue)
<1> DEFINE m == Len(inQueue)  n == Len(outQueue)
           S == Bufs(inQueue) \cup Range(outQueue)
           at == [i \in 1 .. m + n |-> IF i <= m THEN inQueue[i].buf ELSE outQueue[i - m]]
<1>1. /\ m \in Nat /\ n \in Nat /\ DOMAIN inQueue = 1..m /\ DOMAIN outQueue = 1..n
  BY DEF BufferTyped
<1>2. /\ Bufs(inQueue) \subseteq InBufs /\ Range(outQueue) \subseteq OutBufs
      /\ InBufs \cap OutBufs = {}
  BY HeldInPort, EncoderAssumption
<1> HIDE DEF m, n
<1>3. /\ \A i \in 1..m : i \in 1 .. m + n /\ at[i] = inQueue[i].buf
      /\ \A j \in 1..n : j + m \in 1 .. m + n /\ at[j + m] = outQueue[j]
      /\ \A i \in 1 .. m + n : i \in 1..m \/ (i - m \in 1..n /\ at[i] = outQueue[i - m])
  BY <1>1
<1> HIDE DEF at
<1>4. /\ \A i \in 1..m : inQueue[i].buf \in Bufs(inQueue)
      /\ \A j \in 1..n : outQueue[j] \in Range(outQueue)
      /\ \A b \in Bufs(inQueue) : \E i \in 1..m : inQueue[i].buf = b
      /\ \A b \in Range(outQueue) : \E j \in 1..n : outQueue[j] = b
      /\ \A i, j \in 1..m : inQueue[i].buf = inQueue[j].buf => i = j
      /\ \A i, j \in 1..n : outQueue[i] = outQueue[j] => i = j
  BY <1>1 DEF Bufs, Range, Once, OnceIn, OnceOut
<1>5. at \in [1 .. m + n -> S]
  <2>1. \A i \in 1 .. m + n : at[i] \in S
    BY <1>3, <1>4
  <2>2. at = [i \in 1 .. m + n |-> at[i]]
    BY DEF at
  <2>3. QED
    BY <2>1, <2>2
<1>6. \A i, j \in 1 .. m + n : at[i] = at[j] => i = j
  <2> SUFFICES ASSUME NEW i \in 1 .. m + n, NEW j \in 1 .. m + n, at[i] = at[j]
               PROVE  i = j
    OBVIOUS
  <2>1. CASE i \in 1..m /\ j \in 1..m
    BY <1>3, <1>4, <2>1
  <2>2. CASE i \notin 1..m /\ j \notin 1..m
    BY <1>1, <1>3, <1>4, <2>2
  <2>3. CASE i \in 1..m /\ j \notin 1..m
    BY <1>2, <1>3, <1>4, <2>3
  <2>4. CASE i \notin 1..m /\ j \in 1..m
    BY <1>2, <1>3, <1>4, <2>4
  <2>5. QED
    BY <2>1, <2>2, <2>3, <2>4
<1>7. \A b \in S : \E i \in 1 .. m + n : at[i] = b
  BY <1>3, <1>4
<1>8. at \in Bijection(1 .. m + n, S)
  BY <1>5, <1>6, <1>7 DEF Bijection, Injection, IsInjective, Surjection
<1>9. ExistsBijection(1 .. m + n, S) /\ m + n \in Nat
  BY <1>1, <1>8 DEF ExistsBijection
<1>10. QED
  BY <1>9, FS_CountingElements DEF m, n

-----------------------------------------------------------------------------
\* For any buffers, maxima and errors the state of the encoder has its types.
THEOREM TypeCorrect == Spec => []TypeOK
<1>1. IInv => TypeOK
  BY HeldInPort, TypedParts
     DEF TypeOK, StateTyped, BufferTyped, ThreadTyped, SemTyped, Ctrl!TypeOK
<1>2. QED
  BY Invariance, <1>1, PTL

\* A client that passes the output buffers before the frames gets no buffer it
\* has, and the component has in its queues, once each, what EncodeFrame lost
\* apart, the buffers it was passed and did not return (EmptyThisBuffer,
\* FillThisBuffer, EncodeFrame, the flushes).
THEOREM BuffersAreOwnedOnce ==
  ASSUME Prefilling
  PROVE  Spec => []BufferOwnership
<1>1. IInv => BufferOwnership
  <2> SUFFICES ASSUME IInv
               PROVE  BufferOwnership
    OBVIOUS
  <2>1. Queued = Bufs(inQueue) \cup Range(outQueue)
    BY DEF Queued, Bufs
  <2>2. Queued \ lost = Queued
    BY <2>1, TypedParts DEF Owned
  <2>3. Queued \subseteq Buffers /\ lost \subseteq Buffers
    BY <2>1, HeldInPort, TypedParts DEF Buffers, BufferTyped
  <2>4. Queued \cup lost = {b \in Buffers : owner[b] = "comp"}
    BY <2>1, <2>3, TypedParts DEF Owned
  <2>5. Len(inQueue) + Len(outQueue) = Cardinality(Queued \ lost)
    BY <2>1, <2>2, QueuedCounted, TypedParts
  <2>6. ~returnedTwice
    BY DEF IInv, BufferInv
  <2>7. QED
    BY <2>4, <2>5, <2>6 DEF BufferOwnership
<1>2. QED
  BY Invariance, <1>1, PTL

\* A client that is told of Idle, if it does not ask for Pause -> Idle, has every
\* queued buffer back but those it had accepted between the store of eCurState
\* and that event: Executing -> Idle has returned the others, and what came in
\* while it did was refused.
THEOREM IdleIsEmpty ==
  ASSUME Orderly
  PROVE  Spec => []IdleHoldsNothing
<1>1. IInv => IdleHoldsNothing
  <2> SUFFICES ASSUME IInv, told = "Idle", ~outstanding
               PROVE  Queued \subseteq late
    BY DEF IdleHoldsNothing
  <2>1. eCurState \in {"Loaded", "Idle"}
    BY TypedParts DEF IInv, StateInv, Known, Carried
  <2>2. QED
    BY <2>1 DEF IInv, StateInv, Emptied, Queued, Bufs
<1>2. QED
  BY Invariance, <1>1, PTL

\* Without Pause -> Idle the encoding thread meets no frame once EncoderClose
\* has closed the codec, but those that an idle component accepted late.
THEOREM FramesMeetTheCodec ==
  ASSUME Orderly
  PROVE  Spec => []EncodesWithCodec
<1>1. IInv => EncodesWithCodec
  <2> SUFFICES ASSUME IInv, inQueue # << >>, ~hVpuCodec
               PROVE  Head(inQueue).buf \in late
    BY DEF EncodesWithCodec
  <2>1. eCurState \in {"Loaded", "Idle"}
    BY TypedParts DEF Opened, StateTyped, States
  <2>2. Bufs(inQueue) \subseteq late
    BY <2>1 DEF IInv, StateInv, Emptied
  <2>3. QED
    BY <2>2, InTail, TypedParts DEF BufferTyped, Frames
<1>2. QED
  BY Invariance, <1>1, PTL

\* A stop that falls between the encoding thread's test and its sleep wakes it.
THEOREM StopsAreNoticed == Spec => []StopIsNoticed
<1>1. IInv => StopIsNoticed
  BY DEF IInv, Noticed
<1>2. QED
  BY Invariance, <1>1, PTL
=============================================================================
