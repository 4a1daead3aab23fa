---------------------- MODULE NX_OMXVideoDecoder_proofs ----------------------
(* The OMX video decoder for any number of buffers, maxima of its semaphores, *)
(* client and stream: what its two threads and its client rely on.            *)
EXTENDS NX_OMXVideoDecoder, FiniteSetTheorems, TLAPS

\* A client that asks for the transitions the component handles, or for the
\* state it is told, but not for Pause -> Idle; or one that never pauses, but may
\* ask a component that is loaded to, which is refused, and then for Loaded
\* again; ...
Transitions == (Handled \ {<<"Pause", "Idle">>}) \cup {<<s, s>> : s \in States}
Mistakes == {<<"Loaded", "Pause">>, <<"Pause", "Loaded">>, <<"Loaded", "Idle">>,
             <<"Idle", "Loaded">>, <<"Idle", "Executing">>, <<"Executing", "Idle">>}
            \cup {<<s, s>> : s \in {"Loaded", "Idle", "Executing"}}
Erring == ClientTransitions \subseteq Mistakes
Orderly == ClientTransitions \subseteq Transitions \/ Erring
\* ... one that moreover disables the ports one by one; ...
OneByOne == Orderly /\ "all" \notin PortArgs
\* ... and one that disables none and is not asked to.
Settled == Orderly /\ PortArgs = {} /\ ~Reconfigures

-----------------------------------------------------------------------------
(* The parts of the inductive invariant.                                     *)

Commands == [cmd : {"StateSet"}, arg : States]
            \cup [cmd : {"Flush"}, arg : FlushArgs]
            \cup [cmd : {"PortDisable", "PortEnable"}, arg : PortArgs]
Change(s) == [cmd |-> "StateSet", arg |-> s]
Pending == IF cmdPc = "wait" THEN Head(cmdQueue) ELSE cmd
Waiting == {"pend_in", "pend_out", "finish"}

StateTyped ==
  /\ told \in States /\ outstanding \in 0..1
  /\ eCurState \in States /\ eNewState \in States
  /\ cmdQueue = << >> \/ \E c \in Commands : cmdQueue = <<c>>
  /\ cmd \in Commands \cup {None}
  /\ cmdPc \in {"wait", "exec", "join", "post", "open", "return", "settle", "event"} \cup Waiting
BufferTyped ==
  /\ bEnableThumbNailMode \in Modes /\ owner \in [Buffers -> {"none", "client", "comp"}]
  /\ inQueue \in Seq([buf : InBufs, eos : BOOLEAN]) /\ outQueue \in Seq(OutBufs)
  /\ outBufferUseFlag \subseteq OutBufs /\ curOutBuffers \in Int
ThreadTyped ==
  /\ asked \in BOOLEAN
  /\ bEnabled \in [Ports -> BOOLEAN] /\ outUsableBuffers \in Nat /\ hBufAllocSem \in 0..AllocMax
  /\ hBufCtrlSem \in {NoSem, 0, 1} /\ hBufChangeSem \in NoSem..ChangeMax
  /\ eCmdBufThread \in {"RUN", "PAUSE", "EXIT"}
  /\ bufPc \in {"none", "start", "test", "ctrl", "inner", "change", "check", "lock", "decode",
                "eos", "exited"}

\* The client waits for the one command that is queued or executed; where the
\* thread is in it says which it is, and from which state it started.
Carried ==
  /\ outstanding = 0 <=> cmdPc = "wait" /\ cmdQueue = << >>
  /\ cmdPc # "wait" => cmdQueue = << >> /\ cmd # None
  /\ cmdPc \in Waiting => \/ cmd = Change("Idle") /\ eCurState = "Loaded"
                          \/ cmd = Change("Loaded") /\ eCurState = "Idle"
  /\ cmdPc = "join" => cmd = Change("Loaded") /\ eCurState = "Idle"
  /\ cmdPc = "post" => cmd = Change("Executing") /\ eCurState = "Idle"
  /\ cmdPc = "open" => cmd = Change("Executing") /\ eCurState = "Executing"
  /\ cmdPc \in {"return", "settle"} => cmd = Change("Idle") /\ eCurState = "Executing"
  /\ cmdPc = "event" => cmd = Change(eCurState)
  /\ outstanding = 1 /\ Pending.cmd = "StateSet" => eNewState = Pending.arg

\* The thread lives no longer than its semaphores, and a stop posts one; a thread
\* that goes to sleep has been given a reason.
Posted ==
  /\ SemaphoresOutliveThread
  /\ StopIsNoticed
  /\ bufPc \in {"test", "ctrl"} /\ hBufCtrlSem = 0 /\ eCmdBufThread = "RUN" /\ cmdPc # "post"
     => \E p \in Ports : ~bEnabled[p]

\* Whose the buffers are: a queue has each once, and of the two ways to hold an
\* output buffer one is used.
InOnce  == \A i, j \in DOMAIN inQueue : inQueue[i].buf = inQueue[j].buf => i = j
OutOnce == \A i, j \in DOMAIN outQueue : outQueue[i] = outQueue[j] => i = j
Owned   == \A b \in Buffers : owner[b] = "comp" <=> b \in InHeld \cup OutHeld
Flags   == IF bEnableThumbNailMode THEN outBufferUseFlag = {} /\ curOutBuffers = 0
           ELSE outQueue = << >> /\ curOutBuffers = Cardinality(outBufferUseFlag)
Held == InOnce /\ OutOnce /\ Owned /\ Flags

\* An orderly client knows the state, and gets the one it asked for; the answer
\* to a refused Loaded -> Pause misleads it until it asks for Loaded.
Misled == Erring /\ told = "Pause" /\ eCurState = "Loaded" /\ cmdPc \in {"wait", "exec"}
Known ==
  /\ told = eCurState \/ cmdPc \in {"open", "event"} \/ Misled
  /\ cmdPc = "event" /\ eCurState = "Loaded" => told = "Idle"
  /\ outstanding = 1 /\ Pending.cmd = "StateSet" /\ cmdPc \in {"wait", "exec"}
     => <<told, Pending.arg>> \in ClientTransitions
  /\ outstanding = 0 \/ Pending.cmd # "StateSet"
     => eNewState = eCurState \/ (Misled /\ eNewState = "Pause")
  /\ Erring => eCurState # "Pause"
\* The client that asks a loaded component to pause has no buffer.
Refused == eCurState = "Loaded" /\ eNewState = "Pause"
Unfilled == Refused => \A b \in Buffers : owner[b] = "none"
\* A component that is idle, or about to be, holds only what it has accepted
\* since.
Emptied == eCurState \in {"Loaded", "Idle"} \/ cmdPc = "settle"
           => InHeld \cup OutHeld \subseteq late

\* The buffers counted exist, but for the time in which the client frees them
\* and Idle -> Loaded has not reset the count.
Closing == /\ outstanding = 1 /\ Pending = Change("Loaded") /\ eCurState = "Idle"
           /\ cmdPc # "finish"
Usable ==
  /\ outUsableBuffers <= Cardinality(Allocated("out")) \/ Closing
  /\ eNewState = "Loaded" => outUsableBuffers = 0 \/ Closing
  /\ ~bEnabled["out"] /\ ~asked => outUsableBuffers = 0
  /\ Refused => outUsableBuffers = 0

\* Populating and emptying: the counts that have been posted and those that have
\* been taken are those of the ports that are done.
Full(p)  == Allocated(p) = BufsOf(p) /\ BufsOf(p) # {}
Empty(p) == Allocated(p) = {}
Number(a, b) == (IF a THEN 1 ELSE 0) + (IF b THEN 1 ELSE 0)
Taken == IF cmdPc = "pend_out" THEN 1 ELSE IF cmdPc = "finish" THEN 2 ELSE 0
Population ==
  /\ bEnabled["in"] /\ bEnabled["out"]
  /\ eCurState = "Loaded" /\ eNewState # "Idle" => hBufAllocSem = 0 /\ Empty("in") /\ Empty("out")
  /\ eCurState = "Loaded" /\ eNewState = "Idle"
     => hBufAllocSem + Taken <= Number(Full("in"), Full("out"))
  /\ eCurState = "Idle" /\ eNewState = "Loaded"
     => hBufAllocSem + Taken <= Number(Empty("in"), Empty("out"))
  /\ eCurState # "Loaded" /\ (eCurState # "Idle" \/ eNewState # "Loaded")
     => hBufAllocSem = 0 /\ Full("in") /\ Full("out")

\* The invariant, by the state it is about.
StateInv  == StateTyped /\ Carried /\ (Orderly => Known)
ThreadInv == ThreadTyped /\ Posted
BufferInv == BufferTyped /\ Held
IInv == /\ StateInv /\ ThreadInv /\ BufferInv /\ late \subseteq Buffers
        /\ Orderly  => Unfilled /\ Emptied
        /\ OneByOne => Usable
        /\ Settled  => Population

-----------------------------------------------------------------------------
(* Lemmas about the queues and the sets of buffers.                          *)

Frames     == [buf : InBufs, eos : BOOLEAN]
Bufs(s)    == {s[i].buf : i \in DOMAIN s}
OnceIn(s)  == \A i, j \in DOMAIN s : s[i].buf = s[j].buf => i = j
OnceOut(s) == \A i, j \in DOMAIN s : s[i] = s[j] => i = j

\* What Append does, place by place.
LEMMA AppendAt ==
  ASSUME NEW S, NEW s \in Seq(S), NEW x \in S
  PROVE  /\ Append(s, x) \in Seq(S) /\ DOMAIN s = 1..Len(s)
         /\ DOMAIN Append(s, x) = 1 .. Len(s) + 1 /\ Append(s, x)[Len(s) + 1] = x
         /\ \A i \in 1..Len(s) : Append(s, x)[i] = s[i]
OBVIOUS

\* What Tail leaves, place by place.
LEMMA TailAt ==
  ASSUME NEW S, NEW s \in Seq(S), s # << >>
  PROVE  /\ Tail(s) \in Seq(S) /\ DOMAIN s = 1..Len(s) /\ Len(s) \in Nat \ {0}
         /\ DOMAIN Tail(s) = 1 .. Len(s) - 1 /\ Head(s) = s[1] /\ Head(s) \in S
         /\ \A i \in 1 .. Len(s) - 1 : Tail(s)[i] = s[i + 1]
OBVIOUS

\* An input buffer is queued.
LEMMA InAppend ==
  ASSUME NEW s \in Seq(Frames), NEW r \in Frames
  PROVE  /\ Bufs(Append(s, r)) = Bufs(s) \cup {r.buf}
         /\ OnceIn(s) /\ r.buf \notin Bufs(s) => OnceIn(Append(s, r))
<1> DEFINE a == Append(s, r)
<1>1. /\ DOMAIN s = 1..Len(s) /\ DOMAIN a = 1 .. Len(s) + 1 /\ Len(s) \in Nat
      /\ a[Len(s) + 1] = r /\ \A i \in 1..Len(s) : a[i] = s[i]
  BY AppendAt
<1> HIDE DEF a
<1>2. Bufs(a) = Bufs(s) \cup {r.buf}
  BY <1>1 DEF Bufs
<1>3. OnceIn(s) /\ r.buf \notin Bufs(s) => OnceIn(a)
  BY <1>1 DEF Bufs, OnceIn
<1>4. QED
  BY <1>2, <1>3 DEF a

\* The oldest input buffer is popped.
LEMMA InTail ==
  ASSUME NEW s \in Seq(Frames), s # << >>
  PROVE  /\ Bufs(s) = Bufs(Tail(s)) \cup {Head(s).buf}
         /\ OnceIn(s) => OnceIn(Tail(s)) /\ Head(s).buf \notin Bufs(Tail(s))
<1> DEFINE a == Tail(s)
<1>1. /\ DOMAIN s = 1..Len(s) /\ DOMAIN a = 1 .. Len(s) - 1 /\ Len(s) \in Nat \ {0}
      /\ Head(s) = s[1] /\ \A i \in 1 .. Len(s) - 1 : a[i] = s[i + 1]
  BY TailAt
<1> HIDE DEF a
<1>2. /\ 1 \in DOMAIN s /\ \A i \in DOMAIN a : i + 1 \in DOMAIN s /\ i + 1 # 1
      /\ \A i \in DOMAIN s : i = 1 \/ (i - 1 \in DOMAIN a /\ s[i] = a[i - 1])
      /\ \A i \in DOMAIN a : a[i] = s[i + 1]
      /\ \A i, j \in DOMAIN a : i + 1 = j + 1 => i = j
  BY <1>1
<1>3. Bufs(s) \subseteq Bufs(a) \cup {s[1].buf}
  BY <1>2 DEF Bufs
<1>4. Bufs(a) \cup {s[1].buf} \subseteq Bufs(s)
  BY <1>2 DEF Bufs
<1>5. OnceIn(s) => OnceIn(a)
  BY <1>2 DEF OnceIn
<1>6. OnceIn(s) => s[1].buf \notin Bufs(a)
  BY <1>2 DEF OnceIn, Bufs
<1>7. QED
  BY <1>1, <1>3, <1>4, <1>5, <1>6 DEF a

\* An output buffer is queued.
LEMMA OutAppend ==
  ASSUME NEW s \in Seq(OutBufs), NEW b \in OutBufs
  PROVE  /\ Range(Append(s, b)) = Range(s) \cup {b}
         /\ OnceOut(s) /\ b \notin Range(s) => OnceOut(Append(s, b))
<1> DEFINE a == Append(s, b)
<1>1. /\ DOMAIN s = 1..Len(s) /\ DOMAIN a = 1 .. Len(s) + 1 /\ Len(s) \in Nat
      /\ a[Len(s) + 1] = b /\ \A i \in 1..Len(s) : a[i] = s[i]
  BY AppendAt
<1> HIDE DEF a
<1>2. Range(a) = Range(s) \cup {b}
  BY <1>1 DEF Range
<1>3. OnceOut(s) /\ b \notin Range(s) => OnceOut(a)
  BY <1>1 DEF Range, OnceOut
<1>4. QED
  BY <1>2, <1>3 DEF a

\* The oldest output buffer is popped.
LEMMA OutTail ==
  ASSUME NEW s \in Seq(OutBufs), s # << >>
  PROVE  /\ Range(s) = Range(Tail(s)) \cup {Head(s)}
         /\ OnceOut(s) => OnceOut(Tail(s)) /\ Head(s) \notin Range(Tail(s))
<1> DEFINE a == Tail(s)
<1>1. /\ DOMAIN s = 1..Len(s) /\ DOMAIN a = 1 .. Len(s) - 1 /\ Len(s) \in Nat \ {0}
      /\ Head(s) = s[1] /\ \A i \in 1 .. Len(s) - 1 : a[i] = s[i + 1]
  BY TailAt
<1> HIDE DEF a
<1>2. /\ 1 \in DOMAIN s /\ \A i \in DOMAIN a : i + 1 \in DOMAIN s /\ i + 1 # 1
      /\ \A i \in DOMAIN s : i = 1 \/ (i - 1 \in DOMAIN a /\ s[i] = a[i - 1])
      /\ \A i \in DOMAIN a : a[i] = s[i + 1]
      /\ \A i, j \in DOMAIN a : i + 1 = j + 1 => i = j
  BY <1>1
<1>3. Range(s) \subseteq Range(a) \cup {s[1]}
  BY <1>2 DEF Range
<1>4. Range(a) \cup {s[1]} \subseteq Range(s)
  BY <1>2 DEF Range
<1>5. OnceOut(s) => OnceOut(a)
  BY <1>2 DEF OnceOut
<1>6. OnceOut(s) => s[1] \notin Range(a)
  BY <1>2 DEF OnceOut, Range
<1>7. QED
  BY <1>1, <1>3, <1>4, <1>5, <1>6 DEF a

\* The state functions of the specification in those terms.
LEMMA HeldIs ==
  /\ InHeld = Bufs(inQueue) /\ InHeld' = Bufs(inQueue')
  /\ InOnce = OnceIn(inQueue) /\ InOnce' = OnceIn(inQueue')
  /\ OutOnce = OnceOut(outQueue) /\ OutOnce' = OnceOut(outQueue')
BY DEF InHeld, Bufs, InOnce, OnceIn, OutOnce, OnceOut

\* An empty queue.
LEMMA EmptyQueue ==
  /\ Bufs(<< >>) = {} /\ Range(<< >>) = {} /\ OnceIn(<< >>) /\ OnceOut(<< >>)
<1>1. DOMAIN << >> = {}
  OBVIOUS
<1>2. QED
  BY <1>1 DEF Bufs, Range, OnceIn, OnceOut

\* What the component holds are buffers of their ports.
LEMMA HeldInPort ==
  ASSUME BufferTyped
  PROVE  /\ InHeld \subseteq InBufs /\ OutHeld \subseteq OutBufs /\ InHeld \cap OutHeld = {}
         /\ Range(outQueue) \subseteq OutBufs
<1>1. inQueue \in Seq(Frames) /\ outQueue \in Seq(OutBufs)
  BY DEF BufferTyped, Frames
<1>2. /\ \A i \in DOMAIN inQueue : inQueue[i] \in Frames
      /\ \A i \in DOMAIN outQueue : outQueue[i] \in OutBufs
  BY <1>1
<1>3. InHeld \subseteq InBufs /\ Range(outQueue) \subseteq OutBufs
  BY <1>2 DEF InHeld, Range, Frames
<1>4. QED
  BY <1>3, DecoderAssumption DEF OutHeld, BufferTyped

\* NX_PostSem counts up, or stays at the maximum.
LEMMA PostChange ==
  ASSUME ThreadTyped
  PROVE  /\ Post(hBufChangeSem, ChangeMax) \in NoSem..ChangeMax
         /\ hBufChangeSem \in Int /\ Post(hBufChangeSem, ChangeMax) \in Int
         /\ Post(hBufChangeSem, ChangeMax) # NoSem
         /\ hBufChangeSem # NoSem => Post(hBufChangeSem, ChangeMax) > 0
<1>1. ChangeMax \in Nat \ {0} /\ hBufChangeSem \in NoSem..ChangeMax
  BY DecoderAssumption DEF ThreadTyped
<1>2. QED
  BY <1>1 DEF Post, NoSem

\* hBufCtrlSem saturates at one.
LEMMA PostCtrlIs ==
  ASSUME ThreadTyped
  PROVE  /\ Post(hBufCtrlSem, 1) \in {NoSem, 0, 1} /\ Post(hBufCtrlSem, 1) # NoSem
         /\ hBufCtrlSem # NoSem => Post(hBufCtrlSem, 1) = 1
BY DEF ThreadTyped, Post, NoSem

\* hBufAllocSem counts one more, or stays at its maximum.
LEMMA PostAlloc ==
  ASSUME ThreadTyped
  PROVE  /\ Post(hBufAllocSem, AllocMax) \in 0..AllocMax
         /\ Post(hBufAllocSem, AllocMax) <= hBufAllocSem + 1
         /\ hBufAllocSem \in Nat
BY DecoderAssumption DEF ThreadTyped, Post

-----------------------------------------------------------------------------
(* The command and the state.                                                *)

\* What a command is, and what a change of state.
LEMMA CommandsAre ==
  /\ \A c \in Commands : c # None /\ c.cmd \in {"StateSet", "Flush", "PortDisable", "PortEnable"}
  /\ \A c \in Commands : c.cmd = "StateSet" => c.arg \in States /\ c = Change(c.arg)
  /\ \A s \in States : Change(s) \in Commands /\ Change(s).cmd = "StateSet" /\ Change(s).arg = s
  /\ \A s, t \in States : Change(s) = Change(t) => s = t
BY DEF Commands, Change, None

\* The thread and the buffers have no part in it.
LEMMA StateKept ==
  ASSUME StateInv, UNCHANGED <<told, outstanding, eCurState, eNewState, cmdQueue, cmd, cmdPc>>
  PROVE  StateInv'
BY DEF StateInv, StateTyped, Carried, Known, Misled, Pending

\* The client sends one command at a time.
LEMMA SendState ==
  ASSUME StateInv, ClientSends
  PROVE  StateInv'
<1> DEFINE Sent == \E c \in Commands :
                     /\ NX_BaseSendCommand(c)
                     /\ c.cmd = "StateSet" => <<told, c.arg>> \in ClientTransitions
<1>0. Sent
  <2>1. ASSUME NEW s \in States, <<told, s>> \in ClientTransitions, NX_BaseSendCommand(Change(s))
        PROVE  Sent
    BY <2>1, CommandsAre
  <2>2. ASSUME NEW c \in Commands, c.cmd # "StateSet", NX_BaseSendCommand(c)
        PROVE  Sent
    BY <2>2
  <2> HIDE DEF Sent
  <2>3. \/ \E s \in States : <<told, s>> \in ClientTransitions /\ NX_BaseSendCommand(Change(s))
        \/ \E a \in FlushArgs : NX_BaseSendCommand([cmd |-> "Flush", arg |-> a])
        \/ \E a \in PortArgs : NX_BaseSendCommand([cmd |-> "PortDisable", arg |-> a])
        \/ \E a \in PortArgs : NX_BaseSendCommand([cmd |-> "PortEnable", arg |-> a])
    BY Zenon DEF ClientSends, Change
  <2>5. ASSUME NEW a \in FlushArgs, NX_BaseSendCommand([cmd |-> "Flush", arg |-> a])
        PROVE  Sent
    <3>1. [cmd |-> "Flush", arg |-> a] \in Commands
      BY DEF Commands
    <3>2. QED
      BY <2>2, <2>5, <3>1
  <2>6. ASSUME NEW a \in PortArgs, NEW k \in {"PortDisable", "PortEnable"},
               NX_BaseSendCommand([cmd |-> k, arg |-> a])
        PROVE  Sent
    <3>1. [cmd |-> k, arg |-> a] \in Commands
      BY DEF Commands
    <3>2. QED
      BY <2>2, <2>6, <3>1
  <2>7. QED
    BY <2>1, <2>3, <2>5, <2>6
<1>1. PICK c \in Commands : /\ NX_BaseSendCommand(c)
                            /\ c.cmd = "StateSet" => <<told, c.arg>> \in ClientTransitions
  BY <1>0
<1>2. /\ outstanding = 0 /\ outstanding' = 1 /\ cmdQueue' = Append(cmdQueue, c)
      /\ eNewState' = IF c.cmd = "StateSet" THEN c.arg ELSE eNewState
      /\ UNCHANGED <<told, eCurState, cmd, cmdPc>>
  BY <1>1 DEF NX_BaseSendCommand
<1>3. cmdPc = "wait" /\ cmdQueue' = <<c>> /\ Pending' = c
  BY <1>2 DEF StateInv, Carried, Pending
<1>4. StateTyped'
  BY <1>2, <1>3, CommandsAre DEF StateInv, StateTyped
<1>5. Carried'
  BY <1>2, <1>3 DEF Carried, Waiting
<1>6. Orderly => Known'
  BY <1>1, <1>2, <1>3 DEF StateInv, Known, Misled, Erring
<1>7. QED
  BY <1>4, <1>5, <1>6 DEF StateInv, Orderly, Erring

\* The thread takes the command that the client waits for.
LEMMA TakeState ==
  ASSUME StateInv, TakeCommand
  PROVE  StateInv'
<1>1. /\ cmdPc = "wait" /\ cmdQueue # << >> /\ cmd' = Head(cmdQueue) /\ cmdQueue' = Tail(cmdQueue)
      /\ cmdPc' = "exec" /\ UNCHANGED <<told, outstanding, eCurState, eNewState>>
  BY DEF TakeCommand, clientVars
<1>2. PICK c \in Commands : cmdQueue = <<c>>
  BY <1>1 DEF StateInv, StateTyped
<1>3. cmd' = c /\ cmdQueue' = << >> /\ Pending = c /\ Pending' = c /\ outstanding = 1
  BY <1>1, <1>2 DEF Pending, StateInv, StateTyped, Carried
<1>4. StateTyped' /\ Carried'
  BY <1>1, <1>2, <1>3, CommandsAre DEF StateInv, StateTyped, Carried, Waiting
<1>5. Orderly => Known'
  BY <1>1, <1>2, <1>3 DEF StateInv, Known, Misled
<1>6. QED
  BY <1>4, <1>5 DEF StateInv

\* The misled client asks for Loaded, and for nothing else.
LEMMA MisledAsks ==
  ASSUME StateInv, Known, Misled, outstanding = 1, Pending.cmd = "StateSet"
  PROVE  Pending.arg = "Loaded"
<1>1. told = "Pause" /\ <<told, Pending.arg>> \in Mistakes
  BY DEF Known, Misled, Erring
<1>2. QED
  BY <1>1 DEF Mistakes

\* Where the thread is in a command it goes on to another place, the state as
\* it is.
LEMMA GoesOn ==
  ASSUME StateInv, UNCHANGED <<told, outstanding, eNewState, cmdQueue, cmd>>,
         cmdPc \notin {"wait", "open", "event"}, cmd.cmd = "StateSet",
         \/ eCurState' = eCurState /\ cmdPc' \in Waiting
            /\ \/ cmd = Change("Idle") /\ eCurState = "Loaded"
               \/ cmd = Change("Loaded") /\ eCurState = "Idle"
         \/ eCurState' = eCurState /\ cmdPc' = "join" /\ cmd = Change("Loaded")
            /\ eCurState = "Idle"
         \/ eCurState' = eCurState /\ cmdPc' = "post" /\ cmd = Change("Executing")
            /\ eCurState = "Idle"
         \/ eCurState' = "Executing" /\ cmdPc' = "open" /\ cmd = Change("Executing")
            /\ eCurState = "Idle"
         \/ eCurState' = eCurState /\ cmdPc' \in {"return", "settle"} /\ cmd = Change("Idle")
            /\ eCurState = "Executing"
  PROVE  StateInv'
<1>1. Pending = cmd /\ Pending' = cmd /\ cmdPc' \notin {"wait", "exec", "event"}
  BY DEF Pending, Waiting
<1>2. StateTyped'
  BY DEF StateInv, StateTyped, States
<1>3. Carried'
  BY <1>1 DEF StateInv, Carried, Waiting
<1>4. ASSUME Orderly
      PROVE  Known'
  <2>1. Known /\ outstanding = 1
    BY <1>4 DEF StateInv, StateTyped, Carried
  <2>2. ~Misled
    <3>1. SUFFICES ASSUME Misled PROVE FALSE
      OBVIOUS
    <3>2. cmd.arg = "Loaded" /\ eCurState = "Loaded" /\ cmdPc = "exec"
      BY <1>1, <2>1, <3>1, MisledAsks DEF Misled
    <3>3. QED
      BY <3>2 DEF Change
  <2>3. told = eCurState /\ eCurState' # "Pause"
    BY <2>1, <2>2 DEF Known
  <2>4. QED
    BY <1>1, <2>1, <2>3 DEF Known
<1>5. QED
  BY <1>2, <1>3, <1>4 DEF StateInv

\* The steps of the changes of state that take several.
LEMMA GoesOnState ==
  ASSUME StateInv, \/ LoadedToIdle \/ IdleToLoaded \/ JoinBufThread
                   \/ \E p \in Ports : PendAlloc(p)
                   \/ IdleToExecuting \/ PostCtrl \/ ExecutingToIdle \/ ReturnAllBuffers
  PROVE  StateInv'
<1>1. CASE LoadedToIdle \/ IdleToLoaded \/ IdleToExecuting \/ ExecutingToIdle
  <2>1. /\ UNCHANGED <<told, outstanding, eNewState, eCurState, cmdQueue, cmd>>
        /\ cmdPc = "exec"
        /\ \/ cmdPc' = "pend_in" /\ cmd = Change("Idle") /\ eCurState = "Loaded"
           \/ cmdPc' = "join" /\ cmd = Change("Loaded") /\ eCurState = "Idle"
           \/ cmdPc' = "post" /\ cmd = Change("Executing") /\ eCurState = "Idle"
           \/ cmdPc' = "return" /\ cmd = Change("Idle") /\ eCurState = "Executing"
    BY <1>1 DEF LoadedToIdle, IdleToLoaded, IdleToExecuting, ExecutingToIdle, StateSet, Change,
         clientVars
  <2>2. cmd.cmd = "StateSet"
    BY <2>1 DEF Change
  <2>3. QED
    BY <2>1, <2>2, GoesOn DEF Waiting
<1>2. CASE JoinBufThread \/ PostCtrl \/ ReturnAllBuffers
  <2>1. /\ UNCHANGED <<told, outstanding, eNewState, cmdQueue, cmd>>
        /\ \/ cmdPc = "join" /\ cmdPc' = "pend_in" /\ eCurState' = eCurState
           \/ cmdPc = "post" /\ cmdPc' = "open" /\ eCurState' = "Executing"
           \/ cmdPc = "return" /\ cmdPc' = "settle" /\ eCurState' = eCurState
    BY <1>2 DEF JoinBufThread, PostCtrl, ReturnAllBuffers, clientVars
  <2>2. /\ cmdPc = "join" => cmd = Change("Loaded") /\ eCurState = "Idle"
        /\ cmdPc = "post" => cmd = Change("Executing") /\ eCurState = "Idle"
        /\ cmdPc = "return" => cmd = Change("Idle") /\ eCurState = "Executing"
    BY DEF StateInv, Carried
  <2>3. cmd.cmd = "StateSet"
    BY <2>1, <2>2 DEF Change
  <2>4. QED
    BY <2>1, <2>2, <2>3, GoesOn DEF Waiting
<1>3. ASSUME NEW p \in Ports, PendAlloc(p)
      PROVE  StateInv'
  <2>1. /\ UNCHANGED <<told, outstanding, eNewState, eCurState, cmdQueue, cmd>>
        /\ cmdPc \in Waiting /\ cmdPc' \in Waiting
    BY <1>3 DEF PendAlloc, clientVars, Waiting, Ports
  <2>2. \/ cmd = Change("Idle") /\ eCurState = "Loaded"
        \/ cmd = Change("Loaded") /\ eCurState = "Idle"
    BY <2>1 DEF StateInv, Carried
  <2>3. cmd.cmd = "StateSet" /\ cmdPc \notin {"wait", "open", "event"}
    BY <2>1, <2>2 DEF Change, Waiting
  <2>4. QED
    BY <2>1, <2>2, <2>3, GoesOn
<1>4. QED
  BY <1>1, <1>2, <1>3

\* The state after a command, as the client hears of it.
LEMMA Answered ==
  ASSUME StateInv, cmdPc # "wait", eCurState' \in States,
         told' \in States, outstanding' = 0, cmd' = None, cmdPc' = "wait",
         UNCHANGED <<eNewState, cmdQueue>>, Erring => eCurState' # "Pause",
         Orderly => \/ told' = eCurState' /\ eNewState = eCurState'
                    \/ Erring /\ told' = "Pause" /\ eCurState' = "Loaded"
                       /\ eNewState \in {"Loaded", "Pause"}
  PROVE  StateInv'
BY DEF StateInv, StateTyped, Carried, Known, Misled, Pending, Waiting

\* The state asked for is stored, or is what it is already, and is to be reported.
LEMMA StoresState ==
  ASSUME StateInv, UNCHANGED <<told, outstanding, eNewState, cmdQueue, cmd>>,
         cmdPc # "wait", cmdPc' = "event", eCurState' \in States, cmd = Change(eCurState'),
         Erring => eCurState' # "Pause",
         eCurState' = "Loaded" => eCurState = "Idle" /\ cmdPc = "finish"
  PROVE  StateInv'
<1>1. Pending = cmd /\ Pending' = cmd /\ cmd.cmd = "StateSet" /\ outstanding = 1
  BY DEF Pending, Change, StateInv, StateTyped, Carried
<1>2. StateTyped'
  BY DEF StateInv, StateTyped
<1>3. Carried'
  BY <1>1 DEF StateInv, Carried, Waiting
<1>4. ASSUME Orderly
      PROVE  Known'
  BY <1>1, <1>4 DEF StateInv, Known, Misled
<1>5. QED
  BY <1>2, <1>3, <1>4 DEF StateInv

\* The steps that do so.
LEMMA StoreState ==
  ASSUME StateInv, \/ FinishLoadedToIdle \/ FinishIdleToLoaded \/ openVideoCodec
                   \/ PauseTransitions \/ FinishExecutingToIdle
  PROVE  StateInv'
<1>1. CASE FinishLoadedToIdle \/ FinishIdleToLoaded \/ openVideoCodec \/ FinishExecutingToIdle
  <2>1. /\ UNCHANGED <<told, outstanding, eNewState, cmdQueue, cmd>> /\ cmdPc' = "event"
        /\ \/ cmdPc = "finish" /\ eCurState = "Loaded" /\ eCurState' = "Idle"
           \/ cmdPc = "finish" /\ eCurState = "Idle" /\ eCurState' = "Loaded"
           \/ cmdPc = "open" /\ eCurState' = eCurState
           \/ cmdPc = "settle" /\ eCurState' = "Idle"
    BY <1>1 DEF FinishLoadedToIdle, FinishIdleToLoaded, openVideoCodec, FinishExecutingToIdle,
         clientVars
  <2>2. /\ cmdPc # "wait" /\ cmd = Change(eCurState') /\ eCurState' \in States \ {"Pause"}
        /\ eCurState' = "Loaded" => eCurState = "Idle" /\ cmdPc = "finish"
    BY <2>1 DEF StateInv, Carried, Waiting, States
  <2>3. QED
    BY <2>1, <2>2, StoresState
<1>2. CASE PauseTransitions
  <2>1. PICK s \in States : /\ StateSet(s) /\ <<eCurState, s>> \in Handled
                            /\ s = "Pause" \/ eCurState = "Pause"
                            /\ eCurState' = s
    BY <1>2 DEF PauseTransitions
  <2>2. /\ cmdPc = "exec" /\ cmd = Change(s) /\ cmdPc' = "event"
        /\ UNCHANGED <<told, outstanding, eNewState, cmdQueue, cmd>>
    BY <1>2, <2>1 DEF PauseTransitions, StateSet, Change, clientVars
  <2>3. s # "Loaded"
    BY <2>1 DEF Handled
  <2>4. ~Erring
    <3>1. SUFFICES ASSUME Erring PROVE FALSE
      OBVIOUS
    <3>2. Known /\ Pending.cmd = "StateSet" /\ Pending.arg = s /\ outstanding = 1
      BY <2>2, <3>1 DEF Orderly, Change, Pending, StateInv, StateTyped, Carried
    <3>3. s = "Pause" /\ eCurState \in {"Idle", "Executing"}
      BY <2>1, <3>1, <3>2 DEF Handled, Known
    <3>4. ~Misled
      BY <3>2, <3>3, MisledAsks
    <3>5. <<eCurState, s>> \in Mistakes
      BY <2>2, <3>1, <3>2, <3>4 DEF Known, Erring
    <3>6. QED
      BY <3>3, <3>5 DEF Mistakes
  <2>5. QED
    BY <2>1, <2>2, <2>3, <2>4, StoresState
<1>3. QED
  BY <1>1, <1>2

\* The steps that answer a change of state: with the state that was asked for, or
\* with the state as it is.
LEMMA AnswerState ==
  ASSUME StateInv, SameState \/ IncorrectTransition \/ SendEvent
  PROVE  StateInv'
<1>1. /\ cmdPc # "wait" => Pending = cmd /\ outstanding = 1 /\ cmd \in Commands
      /\ outstanding = 1 /\ Pending.cmd = "StateSet" => eNewState = Pending.arg
      /\ eNewState \in States /\ eCurState \in States
      /\ Orderly => Known
      /\ Erring => eCurState # "Pause"
  BY DEF Pending, StateInv, Carried, StateTyped, Orderly, Known
<1>2. CASE SameState
  <2>1. /\ cmdPc = "exec" /\ cmd = Change(eCurState) /\ told' = eCurState
        /\ outstanding' = 0 /\ cmd' = None /\ cmdPc' = "wait"
        /\ UNCHANGED <<eCurState, eNewState, cmdQueue>>
    BY <1>2 DEF SameState, StateSet, Change
  <2>2. eNewState = eCurState
    BY <1>1, <2>1 DEF Change
  <2>3. QED
    BY <1>1, <2>1, <2>2, Answered
<1>3. ASSUME NEW s \in States, cmdPc # "wait", cmd = Change(s), Answer, eCurState' \in States,
             UNCHANGED <<eNewState, cmdQueue>>, Erring => eCurState' # "Pause",
             Orderly => \/ eCurState' = s
                        \/ Erring /\ s = "Pause" /\ eCurState' = "Loaded"
      PROVE  StateInv'
  <2>1. cmd.cmd = "StateSet" /\ cmd.arg = s
    BY <1>3 DEF Change
  <2>2. told' = s /\ outstanding' = 0 /\ cmd' = None /\ cmdPc' = "wait" /\ eNewState = s
    BY <1>1, <1>3, <2>1 DEF Answer
  <2>3. QED
    BY <1>3, <2>2, Answered
<1>4. CASE IncorrectTransition
  <2>1. PICK s \in States \ {eCurState} : StateSet(s) /\ <<eCurState, s>> \notin Handled
    BY <1>4 DEF IncorrectTransition
  <2>2. /\ cmdPc = "exec" /\ cmd = Change(s) /\ Answer
        /\ UNCHANGED <<eCurState, eNewState, cmdQueue>>
    BY <1>4, <2>1 DEF IncorrectTransition, StateSet, Change
  <2>3. ASSUME Orderly
        PROVE  Erring /\ s = "Pause" /\ eCurState = "Loaded"
    <3>1. cmd.cmd = "StateSet" /\ cmd.arg = s
      BY <2>2 DEF Change
    <3>2. Known /\ Pending.arg = s /\ outstanding = 1 /\ Pending.cmd = "StateSet"
      BY <1>1, <2>2, <2>3, <3>1
    <3>3. s # eCurState /\ <<eCurState, s>> \notin Handled
      BY <2>1
    <3>4. ~Misled
      BY <3>2, <3>3, MisledAsks DEF Misled
    <3>5. <<eCurState, s>> \in ClientTransitions
      BY <2>2, <3>2, <3>4 DEF Known
    <3>6. Erring
      BY <2>3, <3>3, <3>5 DEF Orderly, Transitions
    <3>7. <<eCurState, s>> \in Mistakes /\ eCurState # "Pause"
      BY <1>1, <3>5, <3>6 DEF Erring
    <3>8. QED
      BY <3>3, <3>6, <3>7 DEF Mistakes, Handled
  <2>4. QED
    BY <1>1, <1>3, <2>2, <2>3
<1>5. CASE SendEvent
  <2>1. /\ cmdPc = "event" /\ Answer /\ UNCHANGED <<eCurState, eNewState, cmdQueue>>
    BY <1>5 DEF SendEvent
  <2>2. cmd = Change(eCurState)
    BY <2>1 DEF StateInv, Carried
  <2>3. QED
    BY <1>1, <1>3, <2>1, <2>2
<1>6. QED
  BY <1>2, <1>4, <1>5

\* The commands about ports leave the state.
LEMMA PortCommandState ==
  ASSUME StateInv, CommandFlush \/ CommandPortDisable \/ CommandPortEnable
  PROVE  StateInv'
<1>1. /\ cmdPc = "exec" /\ cmd.cmd # "StateSet" /\ Answer
      /\ UNCHANGED <<eCurState, eNewState, cmdQueue>>
  BY DEF CommandFlush, CommandPortDisable, CommandPortEnable
<1>2. told' = told /\ outstanding' = 0 /\ cmd' = None /\ cmdPc' = "wait"
  BY <1>1 DEF Answer
<1>3. /\ Orderly => \/ told = eCurState /\ eNewState = eCurState
                    \/ Erring /\ told = "Pause" /\ eCurState = "Loaded"
                       /\ eNewState \in {"Loaded", "Pause"}
      /\ Erring => eCurState # "Pause"
  BY <1>1 DEF StateInv, Known, Misled, Pending, Orderly
<1>4. told \in States /\ eCurState \in States
  BY DEF StateInv, StateTyped
<1>5. QED
  BY <1>1, <1>2, <1>3, <1>4, Answered

\* The steps of the others.
LEMMA OtherState ==
  ASSUME StateInv, \/ ClientSetsMode \/ ClientAllocates \/ ClientFrees \/ ClientPassesBuffers
                   \/ BufThread \/ UNCHANGED vars
  PROVE  StateInv'
<1>1. UNCHANGED <<told, outstanding, eCurState, eNewState, cmdQueue, cmd, cmdPc>>
  BY DEF ClientSetsMode, ClientAllocates, ClientFrees, ClientPassesBuffers, NX_VidDec_UseBuffer,
       NX_VidDec_AllocateBuffer, NX_VidDec_FreeBuffer, NX_BaseEmptyThisBuffer,
       NX_VidDec_FillThisBuffer, BufThread, BufStart, BufTest, BufPendCtrl, BufPendChange,
       BufCheck, BufLock, BufDecode, BufEos, vars, clientVars
<1>2. QED
  BY <1>1, StateKept

\* Every step keeps what the client and the command thread know of each other.
LEMMA NextState == StateInv /\ [Next]_vars => StateInv'
BY SendState, TakeState, GoesOnState, StoreState, AnswerState, PortCommandState, OtherState
   DEF Next, CommandThread

-----------------------------------------------------------------------------
(* The threads and their semaphores.                                         *)

\* The parts of ThreadInv by name.
LEMMA ThreadParts ==
  ASSUME ThreadInv
  PROVE  /\ ThreadTyped /\ SemaphoresOutliveThread /\ StopIsNoticed
         /\ bufPc \in {"test", "ctrl"} /\ hBufCtrlSem = 0 /\ eCmdBufThread = "RUN"
            /\ cmdPc # "post" => \E p \in Ports : ~bEnabled[p]
BY DEF ThreadInv, Posted

\* Steps that leave the thread, its orders and the ports alone.
LEMMA ThreadKept ==
  ASSUME ThreadInv, UNCHANGED <<asked, bEnabled, hBufCtrlSem, hBufChangeSem, eCmdBufThread, bufPc>>,
         outUsableBuffers' \in Nat, hBufAllocSem' \in 0..AllocMax,
         cmdPc' # "post" => cmdPc # "post"
  PROVE  ThreadInv'
BY DEF ThreadInv, ThreadTyped, Posted, SemaphoresOutliveThread, StopIsNoticed

\* The client's buffers are counted and announced.
LEMMA ClientThread ==
  ASSUME ThreadInv, \/ ClientSends \/ ClientSetsMode \/ ClientAllocates \/ ClientFrees
                    \/ ClientPassesBuffers
  PROVE  ThreadInv'
<1>1. CASE ClientSends \/ ClientSetsMode
  <2>1. UNCHANGED <<asked, portVars, semVars, eCmdBufThread, bufPc, cmdPc>>
    BY <1>1 DEF ClientSends, NX_BaseSendCommand, ClientSetsMode, clientVars
  <2>2. QED
    BY <2>1, ThreadKept, ThreadParts DEF portVars, semVars, ThreadTyped
<1>2. CASE ClientAllocates \/ ClientFrees
  <2>1. /\ UNCHANGED <<asked, bEnabled, semVars, eCmdBufThread, bufPc, cmdPc>>
        /\ outUsableBuffers' \in {outUsableBuffers, outUsableBuffers + 1}
        /\ hBufAllocSem' \in {hBufAllocSem, Post(hBufAllocSem, AllocMax)}
    BY <1>2 DEF ClientAllocates, ClientFrees, NX_VidDec_UseBuffer, NX_VidDec_AllocateBuffer,
         NX_VidDec_FreeBuffer, clientVars
  <2>2. hBufAllocSem' \in 0..AllocMax /\ outUsableBuffers' \in Nat
    BY <2>1, ThreadParts, PostAlloc DEF ThreadTyped
  <2>3. QED
    BY <2>1, <2>2, ThreadKept DEF semVars
<1>3. CASE ClientPassesBuffers
  <2>1. /\ UNCHANGED <<asked, bEnabled, outUsableBuffers, hBufAllocSem>>
        /\ UNCHANGED <<hBufCtrlSem, eCmdBufThread, bufPc, cmdPc>>
        /\ hBufChangeSem' = Post(hBufChangeSem, ChangeMax)
    BY <1>3 DEF ClientPassesBuffers, NX_BaseEmptyThisBuffer, NX_VidDec_FillThisBuffer, clientVars,
         portVars
  <2>2. ThreadTyped'
    BY <2>1, ThreadParts, PostChange DEF ThreadTyped
  <2>3. SemaphoresOutliveThread' /\ StopIsNoticed'
    BY <2>1, ThreadParts, PostChange DEF SemaphoresOutliveThread, StopIsNoticed
  <2>4. QED
    BY <2>1, <2>2, <2>3 DEF ThreadInv, Posted
<1>4. QED
  BY <1>1, <1>2, <1>3

\* Commands that neither stop nor wake the thread.
LEMMA QuietThread ==
  ASSUME ThreadInv, \/ TakeCommand \/ SameState \/ IncorrectTransition \/ LoadedToIdle \/ SendEvent
                    \/ FinishIdleToLoaded \/ openVideoCodec \/ PauseTransitions
                    \/ ReturnAllBuffers \/ FinishExecutingToIdle \/ CommandFlush
                    \/ UNCHANGED vars
  PROVE  ThreadInv'
<1>1. UNCHANGED <<asked, portVars, semVars, eCmdBufThread, bufPc>>
  BY DEF TakeCommand, SameState, IncorrectTransition, LoadedToIdle, FinishIdleToLoaded,
       openVideoCodec, PauseTransitions, ReturnAllBuffers, FinishExecutingToIdle, CommandFlush,
       SendEvent, Answer, clientVars, vars
<1>2. cmdPc # "post" \/ cmdPc' = cmdPc
  BY DEF TakeCommand, SameState, IncorrectTransition, LoadedToIdle, FinishIdleToLoaded,
       openVideoCodec, PauseTransitions, ReturnAllBuffers, FinishExecutingToIdle, CommandFlush,
       SendEvent, StateSet, vars
<1>3. QED
  BY <1>1, <1>2, ThreadKept, ThreadParts DEF portVars, semVars, ThreadTyped

\* PendSem( hBufAllocSem ).
LEMMA PendAllocThread ==
  ASSUME ThreadInv, NEW p \in Ports, PendAlloc(p)
  PROVE  ThreadInv'
<1>1. /\ UNCHANGED <<asked, bEnabled, hBufCtrlSem, hBufChangeSem, eCmdBufThread, bufPc>>
      /\ cmdPc # "post"
      /\ hBufAllocSem' = IF bEnabled[p] THEN hBufAllocSem - 1 ELSE hBufAllocSem
      /\ bEnabled[p] => hBufAllocSem > 0
      /\ outUsableBuffers' \in {0, outUsableBuffers}
  BY DEF PendAlloc, clientVars, semVars, Ports
<1>2. hBufAllocSem \in 0..AllocMax /\ AllocMax \in Nat /\ outUsableBuffers \in Nat
  BY ThreadParts, DecoderAssumption DEF ThreadTyped
<1>3. hBufAllocSem' \in 0..AllocMax
  <2>1. CASE bEnabled[p]
    BY <1>1, <1>2, <2>1
  <2>2. CASE ~bEnabled[p]
    BY <1>1, <1>2, <2>2
  <2>3. QED
    BY <2>1, <2>2
<1>4. QED
  BY <1>1, <1>2, <1>3, ThreadKept

\* A thread told to stop is posted; one told to run is posted before the
\* command goes on.
LEMMA OrdersThread ==
  ASSUME ThreadInv, \/ IdleToLoaded \/ JoinBufThread \/ FinishLoadedToIdle \/ IdleToExecuting
                    \/ PostCtrl \/ ExecutingToIdle
  PROVE  ThreadInv'
<1>1. CASE IdleToLoaded \/ ExecutingToIdle
  <2>1. /\ UNCHANGED <<asked, bEnabled, outUsableBuffers, hBufAllocSem, bufPc>>
        /\ eCmdBufThread' \in {"EXIT", "PAUSE"}
        /\ hBufCtrlSem' \in {hBufCtrlSem, Post(hBufCtrlSem, 1)}
        /\ hBufChangeSem' = Post(hBufChangeSem, ChangeMax)
    BY <1>1 DEF IdleToLoaded, ExecutingToIdle, clientVars, portVars
  <2>2. ThreadTyped'
    BY <2>1, ThreadParts, PostChange, PostCtrlIs DEF ThreadTyped
  <2>3. SemaphoresOutliveThread' /\ StopIsNoticed'
    BY <2>1, ThreadParts, PostChange, PostCtrlIs DEF SemaphoresOutliveThread, StopIsNoticed
  <2>4. QED
    BY <2>1, <2>2, <2>3, ThreadParts DEF ThreadInv, Posted
<1>2. CASE JoinBufThread \/ FinishLoadedToIdle
  <2>1. /\ UNCHANGED <<asked, bEnabled, outUsableBuffers, hBufAllocSem>>
        /\ \/ /\ bufPc' = "none" /\ hBufCtrlSem' = NoSem /\ hBufChangeSem' = NoSem
              /\ eCmdBufThread' = eCmdBufThread
           \/ bufPc' = "start" /\ hBufCtrlSem' = 0 /\ hBufChangeSem' = 0 /\ eCmdBufThread' = "PAUSE"
    BY <1>2 DEF JoinBufThread, FinishLoadedToIdle, clientVars, portVars
  <2>2. ThreadTyped'
    BY <2>1, ThreadParts, DecoderAssumption DEF ThreadTyped, NoSem
  <2>3. QED
    BY <2>1, <2>2 DEF ThreadInv, Posted, SemaphoresOutliveThread, StopIsNoticed, NoSem
<1>3. CASE IdleToExecuting
  <2>1. /\ UNCHANGED <<asked, bEnabled, outUsableBuffers, hBufAllocSem, bufPc>>
        /\ UNCHANGED <<hBufCtrlSem, hBufChangeSem>>
        /\ eCmdBufThread' = "RUN" /\ cmdPc' = "post"
    BY <1>3 DEF IdleToExecuting, clientVars, portVars, semVars
  <2>2. QED
    BY <2>1, ThreadParts
       DEF ThreadInv, ThreadTyped, Posted, SemaphoresOutliveThread, StopIsNoticed
<1>4. CASE PostCtrl
  <2>1. /\ UNCHANGED <<asked, bEnabled, outUsableBuffers, hBufAllocSem, bufPc>>
        /\ UNCHANGED <<hBufChangeSem, eCmdBufThread>>
        /\ hBufCtrlSem' = Post(hBufCtrlSem, 1)
    BY <1>4 DEF PostCtrl, clientVars, portVars
  <2>2. bufPc \in {"test", "ctrl"} => hBufCtrlSem' = 1
    BY <2>1, ThreadParts, PostCtrlIs DEF SemaphoresOutliveThread
  <2>3. ThreadTyped' /\ SemaphoresOutliveThread'
    BY <2>1, ThreadParts, PostCtrlIs DEF ThreadTyped, SemaphoresOutliveThread
  <2>4. QED
    BY <2>1, <2>2, <2>3, ThreadParts DEF ThreadInv, Posted, StopIsNoticed
<1>5. QED
  BY <1>1, <1>2, <1>3, <1>4

\* The thread is woken when a port is enabled.
LEMMA PortsThread ==
  ASSUME ThreadInv, CommandPortDisable \/ CommandPortEnable
  PROVE  ThreadInv'
<1>1. CASE CommandPortDisable
  <2>1. /\ UNCHANGED <<hBufAllocSem, hBufCtrlSem, hBufChangeSem, eCmdBufThread, bufPc>>
        /\ bEnabled' = [p \in Ports |-> IF p \in PortsOf(cmd.arg) THEN FALSE ELSE bEnabled[p]]
        /\ outUsableBuffers' \in {0, outUsableBuffers}
        /\ MutexFree /\ cmdPc = "exec"
    BY <1>1 DEF CommandPortDisable, semVars
  <2>2. bEnabled' \in [Ports -> BOOLEAN] /\ \A p \in Ports : ~bEnabled[p] => ~bEnabled'[p]
    BY <2>1, ThreadParts DEF ThreadTyped
  <2>3. asked' \in BOOLEAN
    <3>1. asked' = (asked /\ "out" \notin PortsOf(cmd.arg))
      BY <1>1 DEF CommandPortDisable
    <3>2. QED
      BY <3>1
  <2>4. ThreadTyped'
    <3>1. outUsableBuffers' \in Nat
      BY <2>1, ThreadParts DEF ThreadTyped
    <3>2. UNCHANGED <<hBufAllocSem, hBufCtrlSem, hBufChangeSem, eCmdBufThread, bufPc>>
      BY <2>1
    <3>3. QED
      BY <2>2, <2>3, <3>1, <3>2, ThreadParts DEF ThreadTyped
  <2>5. QED
    BY <2>1, <2>2, <2>4, ThreadParts
       DEF ThreadInv, Posted, SemaphoresOutliveThread, StopIsNoticed
<1>2. CASE CommandPortEnable
  <2>1. /\ UNCHANGED <<asked, outUsableBuffers, hBufAllocSem, hBufChangeSem, eCmdBufThread, bufPc>>
        /\ bEnabled' = [p \in Ports |-> IF p \in PortsOf(cmd.arg) THEN TRUE ELSE bEnabled[p]]
        /\ hBufCtrlSem' = Post(hBufCtrlSem, 1)
    BY <1>2 DEF CommandPortEnable
  <2>2. bEnabled' \in [Ports -> BOOLEAN] /\ \A p \in Ports : bEnabled[p] => bEnabled'[p]
    BY <2>1, ThreadParts DEF ThreadTyped
  <2>3. bufPc \in {"test", "ctrl"} => hBufCtrlSem' = 1
    BY <2>1, ThreadParts, PostCtrlIs DEF SemaphoresOutliveThread
  <2>4. ThreadTyped' /\ SemaphoresOutliveThread'
    BY <2>1, <2>2, ThreadParts, PostCtrlIs DEF ThreadTyped, SemaphoresOutliveThread
  <2>5. QED
    BY <2>1, <2>2, <2>3, <2>4, ThreadParts DEF ThreadInv, Posted, StopIsNoticed
<1>3. QED
  BY <1>1, <1>2

\* What a decoding does besides the buffers: it may end the thread, or disable
\* the output port and ask the client for new buffers.
LEMMA DecodeEffect ==
  ASSUME BufDecode
  PROVE  /\ bufPc = "decode" /\ bufPc' \in {"eos", "exited"}
         /\ UNCHANGED <<told, outstanding, eCurState, eNewState, cmdQueue, cmd, cmdPc>>
         /\ UNCHANGED <<hBufAllocSem, outUsableBuffers, hBufCtrlSem, hBufChangeSem, eCmdBufThread>>
         /\ \/ UNCHANGED <<asked, bEnabled>>
            \/ asked' = TRUE /\ bEnabled' = [bEnabled EXCEPT !["out"] = FALSE] /\ Reconfigures
BY DEF BufDecode, DecodeNothing, DecodeError, DecodeInitialize, DecodeReconfigure, DecodeOutput,
     semVars

\* The buffer thread's own steps: it sleeps only after its tests.
LEMMA BufThreadThread ==
  ASSUME ThreadInv, BufThread
  PROVE  ThreadInv'
<1>1. CASE BufStart \/ BufTest
  <2>1. /\ UNCHANGED <<asked, bEnabled, outUsableBuffers, hBufAllocSem>>
        /\ UNCHANGED <<hBufChangeSem, eCmdBufThread, cmdPc>>
        /\ \/ bufPc = "start" /\ hBufCtrlSem' = Post(hBufCtrlSem, 1) /\ bufPc' = "test"
           \/ /\ hBufCtrlSem' = hBufCtrlSem
              /\ \/ bufPc = "test" /\ bufPc' \in {"exited", "ctrl"}
                 \/ bufPc = "inner" /\ eCmdBufThread = "RUN" /\ bufPc' = "change"
                 \/ bufPc = "inner" /\ eCmdBufThread # "RUN" /\ bufPc' = "test"
    BY <1>1 DEF BufStart, BufTest, clientVars, portVars, semVars
  <2>2. QED
    BY <2>1, ThreadParts, PostCtrlIs
       DEF ThreadInv, ThreadTyped, Posted, SemaphoresOutliveThread, StopIsNoticed
<1>2. CASE BufPendCtrl \/ BufPendChange
  <2>1. /\ UNCHANGED <<asked, bEnabled, outUsableBuffers, hBufAllocSem, eCmdBufThread, cmdPc>>
        /\ \/ /\ bufPc = "ctrl" /\ bufPc' = "inner" /\ hBufCtrlSem > 0
              /\ hBufCtrlSem' = hBufCtrlSem - 1 /\ hBufChangeSem' = hBufChangeSem
           \/ /\ bufPc = "change" /\ bufPc' = "check" /\ hBufChangeSem > 0
              /\ hBufChangeSem' = hBufChangeSem - 1 /\ hBufCtrlSem' = hBufCtrlSem
    BY <1>2 DEF BufPendCtrl, BufPendChange, clientVars, portVars
  <2>2. hBufChangeSem \in NoSem..ChangeMax /\ ChangeMax \in Nat /\ hBufCtrlSem \in {NoSem, 0, 1}
    BY ThreadParts, DecoderAssumption DEF ThreadTyped
  <2>3. ThreadTyped' /\ SemaphoresOutliveThread'
    BY <2>1, <2>2, ThreadParts DEF ThreadTyped, SemaphoresOutliveThread, NoSem
  <2>4. QED
    BY <2>1, <2>3 DEF ThreadInv, Posted, StopIsNoticed
<1>3. CASE BufCheck \/ BufLock
  <2>1. /\ UNCHANGED <<asked, bEnabled, outUsableBuffers, hBufAllocSem>>
        /\ UNCHANGED <<hBufCtrlSem, eCmdBufThread, cmdPc>>
        /\ hBufChangeSem' \in {hBufChangeSem, Post(hBufChangeSem, ChangeMax)}
        /\ bufPc \in {"check", "lock"}
        /\ \/ bufPc' = "test" /\ eCmdBufThread # "RUN"
           \/ bufPc' = "test" /\ \E p \in Ports : ~bEnabled[p]
           \/ bufPc' \in {"lock", "decode"}
    BY <1>3 DEF BufCheck, BufLock, clientVars, portVars, semVars
  <2>2. ThreadTyped' /\ SemaphoresOutliveThread'
    BY <2>1, ThreadParts, PostChange DEF ThreadTyped, SemaphoresOutliveThread
  <2>3. QED
    BY <2>1, <2>2 DEF ThreadInv, Posted, StopIsNoticed
<1>4. CASE BufDecode \/ BufEos
  <2>1. /\ UNCHANGED <<cmdPc, hBufAllocSem, outUsableBuffers>>
        /\ UNCHANGED <<hBufCtrlSem, hBufChangeSem, eCmdBufThread>>
        /\ bufPc \notin {"none", "exited"} /\ bufPc' \in {"eos", "exited", "inner"}
        /\ \/ UNCHANGED <<asked, bEnabled>>
           \/ asked' = TRUE /\ bEnabled' = [bEnabled EXCEPT !["out"] = FALSE]
    BY <1>4, DecodeEffect DEF BufEos, clientVars, portVars, semVars
  <2>2. asked' \in BOOLEAN /\ bEnabled' \in [Ports -> BOOLEAN]
    BY <2>1, ThreadParts DEF ThreadTyped
  <2>3. ThreadTyped' /\ SemaphoresOutliveThread'
    BY <2>1, <2>2, ThreadParts DEF ThreadTyped, SemaphoresOutliveThread
  <2>4. QED
    BY <2>1, <2>3 DEF ThreadInv, Posted, StopIsNoticed
<1>5. QED
  BY <1>1, <1>2, <1>3, <1>4 DEF BufThread

\* Every step keeps the thread from losing a wakeup, or its semaphores.
LEMMA NextThread == ThreadInv /\ [Next]_vars => ThreadInv'
BY ClientThread, QuietThread, PendAllocThread, OrdersThread, PortsThread, BufThreadThread
   DEF Next, CommandThread

-----------------------------------------------------------------------------
(* The buffers.                                                              *)

\* The parts of BufferInv by name, and what follows for the sets.
LEMMA BufferParts ==
  ASSUME BufferInv
  PROVE  /\ BufferTyped /\ InOnce /\ OutOnce /\ Owned /\ Flags
         /\ InHeld \subseteq InBufs /\ OutHeld \subseteq OutBufs /\ InHeld \cap OutHeld = {}
         /\ inQueue \in Seq(Frames) /\ outQueue \in Seq(OutBufs)
         /\ IsFiniteSet(outBufferUseFlag)
<1>1. BufferTyped /\ InOnce /\ OutOnce /\ Owned /\ Flags
  BY DEF BufferInv, Held
<1>2. IsFiniteSet(outBufferUseFlag)
  BY <1>1, DecoderAssumption, FS_Subset DEF BufferTyped
<1>3. QED
  BY <1>1, <1>2, HeldInPort DEF BufferTyped, Frames

\* Steps that leave the buffers.
LEMMA BufferKept ==
  ASSUME BufferInv, UNCHANGED <<bEnableThumbNailMode, owner>>,
         UNCHANGED <<inQueue, outQueue, outBufferUseFlag, curOutBuffers>>
  PROVE  BufferInv'
BY DEF BufferInv, BufferTyped, Held, InOnce, OutOnce, Owned, InHeld, OutHeld, Flags

\* A sequence with nothing in it.
LEMMA NothingIn ==
  ASSUME NEW S, NEW s \in Seq(S), Range(s) = {}
  PROVE  s = << >>
<1>1. s # << >> => 1 \in DOMAIN s
  OBVIOUS
<1>2. QED
  BY <1>1 DEF Range

\* The mode changes while nothing is held in either way.
LEMMA ModeBuffer ==
  ASSUME BufferInv, ClientSetsMode
  PROVE  BufferInv'
<1>1. /\ \A b \in Buffers : owner[b] = "none"
      /\ bEnableThumbNailMode' \in Modes
      /\ UNCHANGED <<owner, inQueue, outQueue, outBufferUseFlag, curOutBuffers>>
  BY DEF ClientSetsMode, queueVars
<1>2. InHeld = {} /\ OutHeld = {}
  BY <1>1, BufferParts DEF Owned, Buffers
<1>3. outQueue = << >> /\ outBufferUseFlag = {} /\ curOutBuffers = 0
  <2>1. CASE bEnableThumbNailMode
    BY <1>2, <2>1, NothingIn, BufferParts DEF OutHeld, Flags
  <2>2. CASE ~bEnableThumbNailMode
    BY <1>2, <2>2, FS_EmptySet, BufferParts DEF OutHeld, Flags
  <2>3. QED
    BY <2>1, <2>2
<1>4. InHeld' = {} /\ OutHeld' = {}
  BY <1>1, <1>2, <1>3, EmptyQueue, HeldIs DEF OutHeld
<1>5. BufferTyped' /\ InOnce' /\ OutOnce'
  BY <1>1, BufferParts, HeldIs DEF BufferTyped
<1>6. Owned' /\ Flags'
  BY <1>1, <1>3, <1>4, FS_EmptySet DEF Owned, Flags
<1>7. QED
  BY <1>5, <1>6 DEF BufferInv, Held

\* What is created or freed is not held.
LEMMA PopulationBuffer ==
  ASSUME BufferInv, ClientAllocates \/ ClientFrees
  PROVE  BufferInv'
<1>1. PICK b \in Buffers, to \in {"none", "client"} :
        /\ owner[b] # "comp" /\ owner' = [owner EXCEPT ![b] = to]
        /\ UNCHANGED <<bEnableThumbNailMode, inQueue, outQueue, outBufferUseFlag, curOutBuffers>>
  BY DEF ClientAllocates, ClientFrees, NX_VidDec_UseBuffer, NX_VidDec_AllocateBuffer,
     NX_VidDec_FreeBuffer, queueVars, Ports, BufsOf, Buffers
<1>2. /\ owner' \in [Buffers -> {"none", "client", "comp"}]
      /\ \A d \in Buffers : owner'[d] = "comp" <=> owner[d] = "comp"
  BY <1>1, BufferParts DEF BufferTyped
<1>3. BufferTyped' /\ InOnce' /\ OutOnce' /\ Flags'
  BY <1>1, <1>2, BufferParts, HeldIs DEF BufferTyped, Flags
<1>4. InHeld' = InHeld /\ OutHeld' = OutHeld
  BY <1>1 DEF InHeld, OutHeld
<1>5. Owned'
  BY <1>2, <1>4, BufferParts DEF Owned
<1>6. QED
  BY <1>3, <1>5 DEF BufferInv, Held

\* A buffer passed to the component is one it did not hold.
LEMMA PassedBuffer ==
  ASSUME BufferInv, NEW b \in Buffers, owner[b] = "client",
         owner' = [owner EXCEPT ![b] = "comp"],
         (InHeld \cup OutHeld)' = (InHeld \cup OutHeld) \cup {b}
  PROVE  owner' \in [Buffers -> {"none", "client", "comp"}] /\ Owned'
<1>1. /\ owner' \in [Buffers -> {"none", "client", "comp"}]
      /\ \A d \in Buffers : owner'[d] = "comp" <=> owner[d] = "comp" \/ d = b
  BY BufferParts DEF BufferTyped
<1>2. QED
  BY <1>1, BufferParts DEF Owned

\* The client passes an input buffer.
LEMMA EmptyThisBuffer ==
  ASSUME BufferInv, NEW b \in InBufs, NEW eos \in BOOLEAN, NX_BaseEmptyThisBuffer(b, eos)
  PROVE  BufferInv'
<1> DEFINE r == [buf |-> b, eos |-> eos]
<1>1. /\ owner[b] = "client" /\ owner' = [owner EXCEPT ![b] = "comp"]
      /\ inQueue' = Append(inQueue, r)
      /\ UNCHANGED <<bEnableThumbNailMode, outQueue, outBufferUseFlag, curOutBuffers>>
  BY DEF NX_BaseEmptyThisBuffer
<1>2. r \in Frames /\ r.buf = b /\ b \in Buffers
  BY DEF Frames, Buffers
<1> HIDE DEF r
<1>3. b \notin InHeld
  BY <1>1, <1>2, BufferParts DEF Owned
<1>4. InHeld' = InHeld \cup {b} /\ InOnce' /\ inQueue' \in Seq(Frames)
  BY <1>1, <1>2, <1>3, InAppend, AppendAt, BufferParts, HeldIs
<1>5. OutHeld' = OutHeld /\ OutOnce' /\ Flags'
  BY <1>1, BufferParts, HeldIs DEF OutHeld, Flags
<1>6. owner' \in [Buffers -> {"none", "client", "comp"}] /\ Owned'
  BY <1>1, <1>2, <1>4, <1>5, PassedBuffer
<1>7. BufferTyped'
  BY <1>1, <1>4, <1>6, BufferParts DEF BufferTyped, Frames
<1>8. QED
  BY <1>4, <1>5, <1>6, <1>7 DEF BufferInv, Held

\* The client passes an output buffer, to the queue or with a flag.
LEMMA FillThisBuffer ==
  ASSUME BufferInv, NEW b \in OutBufs, NX_VidDec_FillThisBuffer(b)
  PROVE  BufferInv'
<1>1. /\ owner[b] = "client" /\ owner' = [owner EXCEPT ![b] = "comp"]
      /\ UNCHANGED <<bEnableThumbNailMode, inQueue>>
      /\ bEnableThumbNailMode => /\ outQueue' = Append(outQueue, b)
                                 /\ UNCHANGED <<outBufferUseFlag, curOutBuffers>>
      /\ ~bEnableThumbNailMode => /\ outBufferUseFlag' = outBufferUseFlag \cup {b}
                                  /\ curOutBuffers' = curOutBuffers + 1
                                  /\ outQueue' = outQueue
  BY DEF NX_VidDec_FillThisBuffer
<1>2. b \in Buffers /\ b \notin OutHeld
  BY <1>1, BufferParts DEF Owned, Buffers
<1>3. InHeld' = InHeld /\ InOnce'
  BY <1>1, BufferParts, HeldIs
<1>4. /\ OutHeld' = OutHeld \cup {b} /\ OutOnce' /\ Flags'
      /\ outQueue' \in Seq(OutBufs) /\ outBufferUseFlag' \subseteq OutBufs /\ curOutBuffers' \in Int
  <2>1. CASE bEnableThumbNailMode
    <3>1. outQueue' = Append(outQueue, b) /\ UNCHANGED <<outBufferUseFlag, curOutBuffers>>
      BY <1>1, <2>1
    <3>2. b \notin Range(outQueue) /\ OnceOut(outQueue) /\ outQueue \in Seq(OutBufs)
      BY <1>2, <2>1, BufferParts, HeldIs DEF OutHeld
    <3>3. /\ Range(outQueue') = Range(outQueue) \cup {b} /\ OnceOut(outQueue')
          /\ outQueue' \in Seq(OutBufs)
      BY <3>1, <3>2, OutAppend, AppendAt
    <3>4. OutHeld' = OutHeld \cup {b} /\ OutOnce'
      BY <1>1, <2>1, <3>3, HeldIs DEF OutHeld
    <3>5. Flags' /\ outBufferUseFlag' \subseteq OutBufs /\ curOutBuffers' \in Int
      BY <1>1, <2>1, <3>1, BufferParts DEF Flags, BufferTyped
    <3>6. QED
      BY <3>3, <3>4, <3>5
  <2>2. CASE ~bEnableThumbNailMode
    <3>1. Cardinality(outBufferUseFlag \cup {b}) = Cardinality(outBufferUseFlag) + 1
      BY <1>2, <2>2, FS_AddElement, BufferParts DEF OutHeld
    <3>2. OutHeld' = OutHeld \cup {b} /\ OutOnce' /\ outQueue' \in Seq(OutBufs)
      BY <1>1, <2>2, BufferParts, HeldIs DEF OutHeld
    <3>3. outQueue = << >> /\ curOutBuffers = Cardinality(outBufferUseFlag)
      BY <2>2, BufferParts DEF Flags
    <3>4. curOutBuffers' = Cardinality(outBufferUseFlag')
      BY <1>1, <2>2, <3>1, <3>3
    <3>5. Flags'
      BY <1>1, <2>2, <3>3, <3>4 DEF Flags
    <3>6. outBufferUseFlag' \subseteq OutBufs /\ curOutBuffers' \in Int
      BY <1>1, <2>2, BufferParts DEF BufferTyped
    <3>7. QED
      BY <3>2, <3>5, <3>6
  <2>3. QED
    BY <2>1, <2>2
<1>5. owner' \in [Buffers -> {"none", "client", "comp"}] /\ Owned'
  BY <1>1, <1>2, <1>3, <1>4, PassedBuffer
<1>6. BufferTyped'
  BY <1>1, <1>4, <1>5, BufferParts DEF BufferTyped
<1>7. QED
  BY <1>3, <1>4, <1>5, <1>6 DEF BufferInv, Held

\* What goes back to the client was held, and no buffer is created or freed.
LEMMA ReturnedBuffer ==
  ASSUME BufferInv, NEW S, S \subseteq InHeld \cup OutHeld, owner' = Returned(S),
         (InHeld \cup OutHeld)' = (InHeld \cup OutHeld) \ S
  PROVE  /\ owner' \in [Buffers -> {"none", "client", "comp"}] /\ Owned'
         /\ \A b \in Buffers : owner'[b] = "none" <=> owner[b] = "none"
<1>1. /\ \A b \in Buffers : owner'[b] = IF b \in S THEN "client" ELSE owner[b]
      /\ owner' \in [Buffers -> {"none", "client", "comp"}]
  BY BufferParts DEF Returned, BufferTyped
<1>2. \A b \in Buffers : owner[b] = "comp" <=> b \in InHeld \cup OutHeld
  BY BufferParts DEF Owned
<1>3. \A b \in Buffers : owner'[b] = "comp" <=> b \in (InHeld \cup OutHeld)'
  BY <1>1, <1>2
<1>4. \A b \in Buffers : owner'[b] = "none" <=> owner[b] = "none"
  BY <1>1, <1>2
<1>5. QED
  BY <1>1, <1>3, <1>4 DEF Owned

\* A port that is flushed holds nothing, and its count is that of its flags.
LEMMA FlushedIn ==
  ASSUME FlushVideoInputPort
  PROVE  InHeld' = {} /\ InOnce' /\ inQueue' \in Seq(Frames)
BY EmptyQueue, HeldIs DEF FlushVideoInputPort

\* The same of the output port, in either mode.
LEMMA FlushedOut ==
  ASSUME BufferInv, FlushVideoOutputPort, UNCHANGED bEnableThumbNailMode
  PROVE  /\ OutHeld' = {} /\ OutOnce' /\ Flags' /\ outQueue' \in Seq(OutBufs)
         /\ outBufferUseFlag' \subseteq OutBufs /\ curOutBuffers' \in Int
<1>1. CASE bEnableThumbNailMode
  <2>1. outQueue' = << >> /\ UNCHANGED <<outBufferUseFlag, curOutBuffers>>
    BY <1>1 DEF FlushVideoOutputPort
  <2>2. QED
    BY <1>1, <2>1, EmptyQueue, HeldIs, BufferParts DEF OutHeld, Flags, BufferTyped
<1>2. CASE ~bEnableThumbNailMode
  <2>1. /\ outQueue' = outQueue /\ outBufferUseFlag' = {}
        /\ curOutBuffers' = curOutBuffers - Cardinality(outBufferUseFlag)
    BY <1>2 DEF FlushVideoOutputPort
  <2>2. /\ outQueue = << >> /\ curOutBuffers = Cardinality(outBufferUseFlag)
        /\ Cardinality(outBufferUseFlag) \in Nat
    BY <1>2, BufferParts, FS_CardinalityType DEF Flags
  <2>3. curOutBuffers' = 0 /\ Cardinality({}) = 0
    BY <2>1, <2>2, FS_EmptySet
  <2>4. OutHeld' = {} /\ Flags'
    BY <1>2, <2>1, <2>2, <2>3 DEF OutHeld, Flags
  <2>5. QED
    BY <2>1, <2>3, <2>4, BufferParts, HeldIs
<1>3. QED
  BY <1>1, <1>2

\* A flush of some ports gives back what they hold, and nothing else.
LEMMA FlushedBuffer ==
  ASSUME BufferInv, NEW ports \in SUBSET Ports, FlushPorts(ports), UNCHANGED bEnableThumbNailMode
  PROVE  /\ BufferInv' /\ \A b \in Buffers : owner'[b] = "none" <=> owner[b] = "none"
         /\ (InHeld \cup OutHeld)' \subseteq InHeld \cup OutHeld
<1>1. /\ InHeld' = (IF "in" \in ports THEN {} ELSE InHeld) /\ InOnce' /\ inQueue' \in Seq(Frames)
  <2>1. CASE "in" \in ports
    BY <2>1, FlushedIn DEF FlushPorts
  <2>2. CASE "in" \notin ports
    BY <2>2, BufferParts, HeldIs DEF FlushPorts
  <2>3. QED
    BY <2>1, <2>2
<1>2. /\ OutHeld' = (IF "out" \in ports THEN {} ELSE OutHeld) /\ OutOnce' /\ Flags'
      /\ outQueue' \in Seq(OutBufs) /\ outBufferUseFlag' \subseteq OutBufs /\ curOutBuffers' \in Int
  <2>1. CASE "out" \in ports
    BY <2>1, FlushedOut DEF FlushPorts
  <2>2. CASE "out" \notin ports
    BY <2>2, BufferParts, HeldIs DEF FlushPorts, OutHeld, Flags, BufferTyped
  <2>3. QED
    BY <2>1, <2>2
<1> DEFINE S == (IF "in" \in ports THEN InHeld ELSE {}) \cup
                (IF "out" \in ports THEN OutHeld ELSE {})
<1>3. /\ S \subseteq InHeld \cup OutHeld /\ owner' = Returned(S)
      /\ (InHeld \cup OutHeld)' = (InHeld \cup OutHeld) \ S
  BY <1>1, <1>2, BufferParts DEF FlushPorts
<1> HIDE DEF S
<1>4. /\ owner' \in [Buffers -> {"none", "client", "comp"}] /\ Owned'
      /\ \A b \in Buffers : owner'[b] = "none" <=> owner[b] = "none"
  BY <1>3, ReturnedBuffer
<1>5. BufferTyped'
  BY <1>1, <1>2, <1>4, BufferParts DEF BufferTyped, Frames
<1>6. QED
  BY <1>1, <1>2, <1>3, <1>4, <1>5 DEF BufferInv, Held

\* ReturnAllBuffers is a flush of both ports.
LEMMA ReturnAll ==
  ASSUME BufferInv, ReturnAllBuffers
  PROVE  /\ BufferInv' /\ \A b \in Buffers : owner'[b] = "none" <=> owner[b] = "none"
         /\ (InHeld \cup OutHeld)' = {}
<1>1. /\ FlushVideoInputPort /\ FlushVideoOutputPort /\ owner' = Returned(InHeld \cup OutHeld)
      /\ UNCHANGED bEnableThumbNailMode
  BY DEF ReturnAllBuffers
<1>2. InHeld' = {} /\ OutHeld' = {}
  BY <1>1, FlushedIn, FlushedOut
<1>3. FlushPorts(Ports)
  BY <1>1 DEF FlushPorts, Ports
<1>4. QED
  BY <1>1, <1>2, <1>3, FlushedBuffer

\* The ports of a command are ports that the client flushes, enables or disables.
LEMMA PortsAre ==
  ASSUME StateInv, cmdPc = "exec", cmd.cmd \in {"Flush", "PortDisable", "PortEnable"}
  PROVE  /\ PortsOf(cmd.arg) \in SUBSET Ports /\ cmd.arg \in Ports \cup {"all"}
         /\ cmd.cmd \in {"PortDisable", "PortEnable"} => cmd.arg \in PortArgs
<1>1. cmd \in Commands
  BY DEF StateInv, StateTyped, Carried
<1>2. /\ cmd.arg \in FlushArgs \cup PortArgs
      /\ cmd.cmd \in {"PortDisable", "PortEnable"} => cmd.arg \in PortArgs
  BY <1>1 DEF Commands
<1>3. cmd.arg \in Ports \cup {"all"}
  BY <1>2, DecoderAssumption
<1>4. QED
  BY <1>2, <1>3 DEF PortsOf

\* A frame leaves in an output buffer: one that is held, or nothing leaves.
LEMMA FrameLeaves ==
  ASSUME BufferInv, NEW b \in OutBufs, OutputFrame(b), OutAvailable,
         UNCHANGED bEnableThumbNailMode
  PROVE  /\ OutHeld' = OutHeld \ {b} /\ OutOnce' /\ Flags' /\ outQueue' \in Seq(OutBufs)
         /\ outBufferUseFlag' \subseteq OutBufs /\ curOutBuffers' \in Int
<1>1. CASE bEnableThumbNailMode
  <2>1. /\ b = Head(outQueue) /\ outQueue' = Tail(outQueue) /\ outQueue # << >>
        /\ UNCHANGED <<outBufferUseFlag, curOutBuffers>>
    BY <1>1 DEF OutputFrame, OutAvailable
  <2>2. outQueue \in Seq(OutBufs) /\ OnceOut(outQueue)
    BY BufferParts, HeldIs
  <2>3. /\ Range(outQueue') = Range(outQueue) \ {b} /\ OnceOut(outQueue')
        /\ outQueue' \in Seq(OutBufs)
    BY <2>1, <2>2, OutTail, TailAt
  <2>4. OutHeld' = OutHeld \ {b} /\ OutOnce'
    BY <1>1, <2>3, HeldIs DEF OutHeld
  <2>5. Flags' /\ outBufferUseFlag' \subseteq OutBufs /\ curOutBuffers' \in Int
    BY <1>1, <2>1, BufferParts DEF Flags, BufferTyped
  <2>6. QED
    BY <2>3, <2>4, <2>5
<1>2. CASE ~bEnableThumbNailMode
  <2>1. /\ outBufferUseFlag' = outBufferUseFlag \ {b} /\ outQueue' = outQueue
        /\ curOutBuffers' = IF b \in outBufferUseFlag THEN curOutBuffers - 1 ELSE curOutBuffers
    BY <1>2 DEF OutputFrame
  <2>2. outQueue = << >> /\ curOutBuffers = Cardinality(outBufferUseFlag)
    BY <1>2, BufferParts DEF Flags
  <2>3. curOutBuffers' = Cardinality(outBufferUseFlag')
    <3>1. Cardinality(outBufferUseFlag \ {b}) =
            IF b \in outBufferUseFlag THEN Cardinality(outBufferUseFlag) - 1
            ELSE Cardinality(outBufferUseFlag)
      BY FS_RemoveElement, BufferParts
    <3>2. QED
      BY <2>1, <2>2, <3>1
  <2>4. Flags'
    BY <1>2, <2>1, <2>2, <2>3 DEF Flags
  <2>5. OutHeld' = OutHeld \ {b} /\ OutOnce' /\ outQueue' \in Seq(OutBufs)
    BY <1>2, <2>1, BufferParts, HeldIs DEF OutHeld
  <2>6. outBufferUseFlag' \subseteq OutBufs /\ curOutBuffers' \in Int
    BY <2>1, BufferParts DEF BufferTyped
  <2>7. QED
    BY <2>4, <2>5, <2>6
<1>3. QED
  BY <1>1, <1>2

\* A frame is in an output buffer.
LEMMA FrameBuffersAre == ASSUME BufferInv PROVE FrameBuffers \subseteq OutBufs
BY BufferParts DEF FrameBuffers

\* What a decoding does to the buffers: the input buffer goes back, and the
\* output buffer with a frame.
LEMMA DecodeGives ==
  ASSUME BufferInv, BufDecode
  PROVE  \/ UNCHANGED <<owner, inQueue, outQueue, outBufferUseFlag, curOutBuffers>>
         \/ /\ inQueue # << >> /\ inQueue' = Tail(inQueue) /\ OutAvailable
            /\ \/ /\ UNCHANGED <<outQueue, outBufferUseFlag, curOutBuffers>>
                  /\ owner' = Returned({Head(inQueue).buf})
               \/ \E b \in OutBufs :
                    /\ OutputFrame(b)
                    /\ owner' = Returned({Head(inQueue).buf} \cup ({b} \cap OutHeld))
<1>1. CASE CanDecode /\ DecodeFrame
  <2>1. inQueue # << >> /\ inQueue' = Tail(inQueue) /\ OutAvailable
    BY <1>1 DEF BufDecode, CanDecode
  <2>2. CASE DecodeNothing \/ DecodeError \/ DecodeInitialize \/ DecodeReconfigure
    BY <2>1, <2>2 DEF DecodeNothing, DecodeError, DecodeInitialize, DecodeReconfigure, NoOutput
  <2>3. CASE DecodeOutput
    BY <2>1, <2>3, FrameBuffersAre DEF DecodeOutput
  <2>4. QED
    BY <1>1, <2>2, <2>3 DEF BufDecode
<1>2. CASE ~(CanDecode /\ DecodeFrame)
  BY <1>2 DEF BufDecode, queueVars
<1>3. QED
  BY <1>1, <1>2

\* The decoding of an input buffer gives back what it takes.
LEMMA DecodeBuffer ==
  ASSUME BufferInv, BufDecode
  PROVE  /\ BufferInv' /\ \A b \in Buffers : owner'[b] = "none" <=> owner[b] = "none"
         /\ (InHeld \cup OutHeld)' \subseteq InHeld \cup OutHeld
<1>0. UNCHANGED bEnableThumbNailMode
  BY DEF BufDecode
<1>1. CASE UNCHANGED <<owner, inQueue, outQueue, outBufferUseFlag, curOutBuffers>>
  BY <1>0, <1>1, BufferKept DEF InHeld, OutHeld
<1>2. CASE inQueue # << >> /\ inQueue' = Tail(inQueue) /\ OutAvailable
  <2> DEFINE h == Head(inQueue).buf
  <2>1. inQueue \in Seq(Frames) /\ OnceIn(inQueue) /\ InHeld = Bufs(inQueue)
    BY BufferParts, HeldIs
  <2>2. /\ Bufs(inQueue) = Bufs(Tail(inQueue)) \cup {h} /\ OnceIn(Tail(inQueue))
        /\ h \notin Bufs(Tail(inQueue)) /\ Tail(inQueue) \in Seq(Frames)
    BY <1>2, <2>1, InTail, TailAt
  <2>3. h \in InHeld /\ InHeld' = InHeld \ {h} /\ InOnce' /\ inQueue' \in Seq(Frames)
    BY <1>2, <2>1, <2>2, HeldIs
  <2>4. ASSUME NEW S \in SUBSET OutHeld, OutHeld' = OutHeld \ S, OutOnce', Flags',
               outQueue' \in Seq(OutBufs), outBufferUseFlag' \subseteq OutBufs,
               curOutBuffers' \in Int, owner' = Returned({h} \cup S)
        PROVE  /\ BufferInv' /\ \A b \in Buffers : owner'[b] = "none" <=> owner[b] = "none"
               /\ (InHeld \cup OutHeld)' \subseteq InHeld \cup OutHeld
    <3> HIDE DEF h
    <3>1. /\ {h} \cup S \subseteq InHeld \cup OutHeld
          /\ (InHeld \cup OutHeld)' = (InHeld \cup OutHeld) \ ({h} \cup S)
      BY <2>3, <2>4, BufferParts
    <3>2. /\ owner' \in [Buffers -> {"none", "client", "comp"}] /\ Owned'
          /\ \A b \in Buffers : owner'[b] = "none" <=> owner[b] = "none"
      BY <2>4, <3>1, ReturnedBuffer
    <3>3. BufferTyped'
      BY <1>0, <2>3, <2>4, <3>2, BufferParts DEF BufferTyped, Frames
    <3>4. QED
      BY <2>3, <2>4, <3>1, <3>2, <3>3 DEF BufferInv, Held
  <2> HIDE DEF h
  <2>5. CASE /\ UNCHANGED <<outQueue, outBufferUseFlag, curOutBuffers>>
             /\ owner' = Returned({h})
    <3>1. /\ OutHeld' = OutHeld \ {} /\ OutOnce' /\ Flags' /\ outQueue' \in Seq(OutBufs)
          /\ outBufferUseFlag' \subseteq OutBufs /\ curOutBuffers' \in Int
      BY <1>0, <2>5, BufferParts, HeldIs DEF OutHeld, Flags, BufferTyped
    <3>2. {} \in SUBSET OutHeld /\ owner' = Returned({h} \cup {})
      BY <2>5
    <3>3. QED
      BY <2>4, <3>1, <3>2
  <2>6. ASSUME NEW b \in OutBufs, OutputFrame(b), owner' = Returned({h} \cup ({b} \cap OutHeld))
        PROVE  /\ BufferInv' /\ \A d \in Buffers : owner'[d] = "none" <=> owner[d] = "none"
               /\ (InHeld \cup OutHeld)' \subseteq InHeld \cup OutHeld
    <3>1. /\ OutHeld' = OutHeld \ {b} /\ OutOnce' /\ Flags' /\ outQueue' \in Seq(OutBufs)
          /\ outBufferUseFlag' \subseteq OutBufs /\ curOutBuffers' \in Int
      BY <1>0, <1>2, <2>6, FrameLeaves
    <3>2. {b} \cap OutHeld \in SUBSET OutHeld /\ OutHeld' = OutHeld \ ({b} \cap OutHeld)
      BY <3>1
    <3>3. QED
      BY <2>4, <2>6, <3>1, <3>2
  <2>7. \/ /\ UNCHANGED <<outQueue, outBufferUseFlag, curOutBuffers>> /\ owner' = Returned({h})
        \/ UNCHANGED <<owner, inQueue, outQueue, outBufferUseFlag, curOutBuffers>>
        \/ \E b \in OutBufs : OutputFrame(b) /\ owner' = Returned({h} \cup ({b} \cap OutHeld))
    BY DecodeGives DEF h
  <2>8. QED
    BY <1>1, <2>5, <2>6, <2>7
<1>3. QED
  BY <1>1, <1>2, DecodeGives

\* So does the end of the stream.
LEMMA EosBuffer ==
  ASSUME BufferInv, BufEos
  PROVE  /\ BufferInv' /\ \A b \in Buffers : owner'[b] = "none" <=> owner[b] = "none"
         /\ (InHeld \cup OutHeld)' \subseteq InHeld \cup OutHeld
<1>1. UNCHANGED <<bEnableThumbNailMode, inQueue>>
  BY DEF BufEos
<1>2. CASE ~(bStartEoS /\ OutAvailable)
  <2>1. UNCHANGED <<owner, outQueue, outBufferUseFlag, curOutBuffers>>
    BY <1>2 DEF BufEos, NoOutput
  <2>2. QED
    BY <1>1, <2>1, BufferKept DEF InHeld, OutHeld
<1>3. CASE bStartEoS /\ OutAvailable
  <2>1. PICK b \in OutBufs : OutputFrame(b) /\ owner' = Returned({b} \cap OutHeld)
    BY <1>3, FrameBuffersAre DEF BufEos
  <2>2. /\ OutHeld' = OutHeld \ {b} /\ OutOnce' /\ Flags' /\ outQueue' \in Seq(OutBufs)
        /\ outBufferUseFlag' \subseteq OutBufs /\ curOutBuffers' \in Int
    BY <1>1, <1>3, <2>1, FrameLeaves
  <2>3. InHeld' = InHeld /\ InOnce' /\ inQueue' \in Seq(Frames)
    BY <1>1, BufferParts, HeldIs
  <2>4. /\ {b} \cap OutHeld \subseteq InHeld \cup OutHeld
        /\ (InHeld \cup OutHeld)' = (InHeld \cup OutHeld) \ ({b} \cap OutHeld)
    BY <2>2, <2>3, BufferParts
  <2>5. /\ owner' \in [Buffers -> {"none", "client", "comp"}] /\ Owned'
        /\ \A d \in Buffers : owner'[d] = "none" <=> owner[d] = "none"
    BY <2>1, <2>4, ReturnedBuffer
  <2>6. BufferTyped'
    BY <1>1, <2>2, <2>3, <2>5, BufferParts DEF BufferTyped, Frames
  <2>7. QED
    BY <2>2, <2>3, <2>4, <2>5, <2>6 DEF BufferInv, Held
<1>4. QED
  BY <1>2, <1>3

\* Most steps leave the buffers where they are.
LEMMA OtherBuffer ==
  ASSUME \/ ClientSends
         \/ TakeCommand \/ SameState \/ IncorrectTransition \/ SendEvent \/ LoadedToIdle
         \/ FinishLoadedToIdle \/ IdleToLoaded \/ JoinBufThread \/ FinishIdleToLoaded
         \/ (\E p \in Ports : PendAlloc(p)) \/ IdleToExecuting \/ PostCtrl \/ openVideoCodec
         \/ PauseTransitions \/ ExecutingToIdle \/ FinishExecutingToIdle \/ CommandPortEnable
         \/ BufStart \/ BufTest \/ BufPendCtrl \/ BufPendChange \/ BufCheck
         \/ BufLock \/ UNCHANGED vars
  PROVE  /\ UNCHANGED <<bEnableThumbNailMode, owner>>
         /\ UNCHANGED <<inQueue, outQueue, outBufferUseFlag, curOutBuffers>>
BY DEF ClientSends, NX_BaseSendCommand, TakeCommand, SameState, IncorrectTransition, SendEvent,
     LoadedToIdle, FinishLoadedToIdle, IdleToLoaded, JoinBufThread, FinishIdleToLoaded, PendAlloc,
     IdleToExecuting, PostCtrl, openVideoCodec, PauseTransitions, ExecutingToIdle,
     FinishExecutingToIdle, CommandPortEnable, BufStart, BufTest, BufPendCtrl, BufPendChange,
     BufCheck, BufLock, vars, queueVars

\* CommandFlush and CommandPortDisable flush their ports.
LEMMA FlushCommands ==
  ASSUME StateInv, BufferInv, CommandFlush \/ CommandPortDisable
  PROVE  /\ BufferInv' /\ \A b \in Buffers : owner'[b] = "none" <=> owner[b] = "none"
         /\ (InHeld \cup OutHeld)' \subseteq InHeld \cup OutHeld
<1>1. /\ cmdPc = "exec" /\ cmd.cmd \in {"Flush", "PortDisable", "PortEnable"}
      /\ FlushPorts(PortsOf(cmd.arg)) /\ UNCHANGED bEnableThumbNailMode
  BY DEF CommandFlush, CommandPortDisable
<1>2. QED
  BY <1>1, PortsAre, FlushedBuffer

\* Every step keeps each buffer in one place.
LEMMA NextBuffer == StateInv /\ BufferInv /\ [Next]_vars => BufferInv'
<1> SUFFICES ASSUME StateInv, BufferInv, [Next]_vars PROVE BufferInv'
  OBVIOUS
<1>1. CASE ClientPassesBuffers
  BY <1>1, EmptyThisBuffer, FillThisBuffer DEF ClientPassesBuffers
<1>2. CASE CommandThread
  BY <1>2, OtherBuffer, BufferKept, ReturnAll, FlushCommands DEF CommandThread
<1>3. CASE BufThread
  BY <1>3, OtherBuffer, BufferKept, DecodeBuffer, EosBuffer DEF BufThread
<1>4. QED
  BY <1>1, <1>2, <1>3, OtherBuffer, BufferKept, ModeBuffer, PopulationBuffer DEF Next

-----------------------------------------------------------------------------
(* An idle component holds nothing but what came late.                       *)

\* What the component holds is what it owns.
LEMMA HeldIsOwned == BufferInv => InHeld \cup OutHeld = {d \in Buffers : owner[d] = "comp"}
BY BufferParts DEF Owned, Buffers

\* Only the client creates and frees buffers, and only it gives the component
\* more of them.
LEMMA OwnerStep ==
  ASSUME StateInv, BufferInv, [Next]_vars
  PROVE  /\ \/ ClientAllocates \/ ClientFrees
            \/ \A b \in Buffers : owner'[b] = "none" <=> owner[b] = "none"
         /\ ClientPassesBuffers \/ (InHeld \cup OutHeld)' \subseteq InHeld \cup OutHeld
<1> DEFINE Kept  == \A b \in Buffers : owner'[b] = "none" <=> owner[b] = "none"
           Fewer == (InHeld \cup OutHeld)' \subseteq InHeld \cup OutHeld
<1>1. ASSUME UNCHANGED <<bEnableThumbNailMode, owner>>,
             UNCHANGED <<inQueue, outQueue, outBufferUseFlag, curOutBuffers>>
      PROVE  Kept /\ Fewer
  BY <1>1 DEF InHeld, OutHeld
<1>2. CASE CommandThread
  <2>1. CASE ReturnAllBuffers
    BY <2>1, ReturnAll
  <2>2. CASE CommandFlush \/ CommandPortDisable
    BY <2>2, FlushCommands
  <2>3. QED
    BY <1>1, <1>2, <2>1, <2>2, OtherBuffer DEF CommandThread
<1>3. CASE BufThread
  BY <1>1, <1>3, OtherBuffer, DecodeBuffer, EosBuffer DEF BufThread
<1>4. CASE ClientSends \/ UNCHANGED vars
  BY <1>1, <1>4, OtherBuffer
<1>5. CASE ClientSetsMode
  <2>1. owner' = owner
    BY <1>5 DEF ClientSetsMode
  <2>2. BufferInv'
    BY <1>5, ModeBuffer
  <2>3. (InHeld \cup OutHeld = {d \in Buffers : owner[d] = "comp"})'
    BY <2>2, HeldIsOwned, PTL
  <2>4. QED
    BY <2>1, <2>3, HeldIsOwned
<1>6. CASE ClientAllocates \/ ClientFrees
  <2>1. UNCHANGED <<bEnableThumbNailMode, inQueue, outQueue, outBufferUseFlag, curOutBuffers>>
    BY <1>6 DEF ClientAllocates, ClientFrees, NX_VidDec_UseBuffer, NX_VidDec_AllocateBuffer,
       NX_VidDec_FreeBuffer, queueVars
  <2>2. QED
    BY <1>6, <2>1 DEF InHeld, OutHeld
<1>7. CASE ClientPassesBuffers
  <2>1. PICK b \in Buffers : owner[b] = "client" /\ owner' = [owner EXCEPT ![b] = "comp"]
    BY <1>7 DEF ClientPassesBuffers, NX_BaseEmptyThisBuffer, NX_VidDec_FillThisBuffer, Buffers
  <2>2. QED
    BY <1>7, <2>1, BufferParts DEF BufferTyped
<1>8. QED
  BY <1>2, <1>3, <1>4, <1>5, <1>6, <1>7 DEF Next

\* How the state changes when the client is orderly, and where the command
\* thread is then.
LEMMA StateStep ==
  ASSUME StateInv, Orderly, [Next]_vars
  PROVE  \/ eCurState' = eCurState
         \/ FinishLoadedToIdle \/ FinishIdleToLoaded \/ PostCtrl \/ FinishExecutingToIdle
         \/ /\ PauseTransitions /\ cmdPc = "exec" /\ cmdPc' = "event"
            /\ eCurState # "Loaded" /\ eCurState' \in {"Executing", "Pause"}
<1>1. CASE PauseTransitions
  <2>1. PICK s \in States : /\ StateSet(s) /\ <<eCurState, s>> \in Handled
                            /\ s = "Pause" \/ eCurState = "Pause"
                            /\ eCurState' = s
    BY <1>1 DEF PauseTransitions
  <2>2. cmdPc = "exec" /\ cmd = Change(s) /\ cmdPc' = "event"
    BY <1>1, <2>1 DEF PauseTransitions, StateSet, Change
  <2>3. cmd.cmd = "StateSet" /\ cmd.arg = s /\ Pending = cmd /\ outstanding = 1
    BY <2>2 DEF Change, Pending, StateInv, StateTyped, Carried
  <2>4. told = eCurState /\ <<told, s>> \in ClientTransitions
        /\ (Erring => eCurState # "Pause")
    <3>1. eCurState # "Loaded" /\ Known
      BY <2>1 DEF Handled, StateInv
    <3>2. QED
      BY <2>2, <2>3, <3>1 DEF Known, Misled
  <2>5. /\ eCurState # "Loaded" /\ s # "Loaded"
        /\ s = "Idle" => eCurState = "Pause"
    BY <2>1 DEF Handled
  <2>6. s # "Idle"
    BY <2>4, <2>5 DEF Orderly, Transitions
  <2>7. QED
    BY <1>1, <2>1, <2>2, <2>5, <2>6 DEF States
<1>2. CASE CommandThread
  BY <1>1, <1>2 DEF CommandThread, TakeCommand, SameState, IncorrectTransition, SendEvent,
     LoadedToIdle, IdleToLoaded, JoinBufThread, PendAlloc, IdleToExecuting, openVideoCodec,
     ExecutingToIdle, ReturnAllBuffers, CommandFlush, CommandPortDisable, CommandPortEnable
<1>3. CASE ~CommandThread
  BY <1>3 DEF Next, ClientSends, NX_BaseSendCommand, ClientSetsMode, ClientAllocates, ClientFrees,
     ClientPassesBuffers, NX_VidDec_UseBuffer, NX_VidDec_AllocateBuffer, NX_VidDec_FreeBuffer,
     NX_BaseEmptyThisBuffer, NX_VidDec_FillThisBuffer, BufThread, BufStart, BufTest, BufPendCtrl,
     BufPendChange, BufCheck, BufLock, BufDecode, BufEos, vars
<1>4. QED
  BY <1>2, <1>3

\* The place at which the buffers have been returned.
LEMMA SettleStep ==
  ASSUME [Next]_vars, cmdPc' = "settle"
  PROVE  cmdPc = "settle" \/ ReturnAllBuffers
BY DEF Next, CommandThread, TakeCommand, SameState, IncorrectTransition, SendEvent, LoadedToIdle,
     FinishLoadedToIdle, IdleToLoaded, JoinBufThread, FinishIdleToLoaded, PendAlloc,
     IdleToExecuting, PostCtrl, openVideoCodec, PauseTransitions, ExecutingToIdle,
     FinishExecutingToIdle, CommandFlush, CommandPortDisable, CommandPortEnable, Answer,
     ClientSends, NX_BaseSendCommand, ClientSetsMode, ClientAllocates, ClientFrees,
     ClientPassesBuffers, NX_VidDec_UseBuffer, NX_VidDec_AllocateBuffer, NX_VidDec_FreeBuffer,
     NX_BaseEmptyThisBuffer, NX_VidDec_FillThisBuffer, BufThread, BufStart, BufTest, BufPendCtrl,
     BufPendChange, BufCheck, BufLock, BufDecode, BufEos, vars

\* What the creation of a header does.
LEMMA AllocateEffect ==
  ASSUME BufferInv, ClientAllocates
  PROVE  \E p \in Ports, b \in Buffers :
           /\ b \in BufsOf(p)
           /\ bEnabled[p] /\ owner[b] = "none" /\ owner' = [owner EXCEPT ![b] = "client"]
           /\ eNewState \in {"Idle", "Executing"}
           /\ hBufAllocSem' = IF Allocated(p) \cup {b} = BufsOf(p)
                              THEN Post(hBufAllocSem, AllocMax) ELSE hBufAllocSem
           /\ \/ outUsableBuffers' = outUsableBuffers
              \/ p = "out" /\ outUsableBuffers' = outUsableBuffers + 1
           /\ UNCHANGED <<told, outstanding, asked, eCurState, eNewState>>
           /\ UNCHANGED <<cmdQueue, cmd, cmdPc, bEnabled>>
BY DEF ClientAllocates, NX_VidDec_UseBuffer, NX_VidDec_AllocateBuffer, clientVars,
   BufsOf, Buffers

\* What the freeing of one does.
LEMMA FreeEffect ==
  ASSUME BufferInv, ClientFrees
  PROVE  \E p \in Ports, b \in Buffers :
           /\ b \in BufsOf(p)
           /\ eNewState = "Loaded" \/ (~bEnabled[p] /\ ~asked)
           /\ owner[b] = "client" /\ owner' = [owner EXCEPT ![b] = "none"]
           /\ hBufAllocSem' = IF Allocated(p) = {b} THEN Post(hBufAllocSem, AllocMax)
                              ELSE hBufAllocSem
           /\ outUsableBuffers' = outUsableBuffers
           /\ UNCHANGED <<told, outstanding, asked, eCurState, eNewState>>
           /\ UNCHANGED <<cmdQueue, cmd, cmdPc, bEnabled>>
BY DEF ClientFrees, NX_VidDec_FreeBuffer, clientVars, BufsOf, Buffers

\* How a loaded component comes to be asked to pause, and by whom.
LEMMA RefusedStep ==
  ASSUME StateInv, Orderly, [Next]_vars, Refused'
  PROVE  Refused \/ (ClientSends /\ told = "Loaded" /\ eCurState = "Loaded" /\ eNewState = "Loaded")
<1>1. CASE eCurState' # eCurState
  <2>1. FinishIdleToLoaded
    BY <1>1, StateStep DEF Refused, FinishLoadedToIdle, PostCtrl, FinishExecutingToIdle
  <2>2. cmdPc = "finish" /\ eCurState = "Idle" /\ eNewState' = eNewState
    BY <2>1 DEF FinishIdleToLoaded
  <2>3. outstanding = 1 /\ Pending = Change("Loaded")
    BY <2>2 DEF StateInv, StateTyped, Carried, Pending, Waiting
  <2>4. eNewState = "Loaded"
    BY <2>3 DEF StateInv, Carried, Change
  <2>5. QED
    BY <2>2, <2>4 DEF Refused
<1>2. CASE ClientSends /\ eCurState' = eCurState
  <2>1. outstanding = 0
    BY <1>2 DEF ClientSends, NX_BaseSendCommand
  <2>2. /\ told = eCurState \/ Misled
        /\ eNewState = eCurState \/ (Misled /\ eNewState = "Pause")
    BY <2>1 DEF StateInv, Known, Carried
  <2>3. CASE Misled
    <3>1. PICK s \in States : /\ <<told, s>> \in ClientTransitions
                              /\ NX_BaseSendCommand(Change(s))
      BY <1>2, <2>3 DEF ClientSends, Misled, Change
    <3>2. told = "Pause" /\ <<told, s>> \in Mistakes
      BY <2>3, <3>1 DEF Misled, Erring
    <3>3. s = "Loaded"
      BY <3>2 DEF Mistakes
    <3>4. eNewState' = "Loaded"
      BY <3>1, <3>3, CommandsAre DEF NX_BaseSendCommand, States
    <3>5. QED
      BY <3>4 DEF Refused
  <2>4. QED
    BY <1>2, <2>2, <2>3 DEF Refused
<1>3. CASE ~ClientSends /\ eCurState' = eCurState
  <2>1. eNewState' = eNewState
    BY <1>3 DEF Next, CommandThread, TakeCommand, SameState, IncorrectTransition, SendEvent,
       LoadedToIdle, FinishLoadedToIdle, IdleToLoaded, JoinBufThread, FinishIdleToLoaded, PendAlloc,
       IdleToExecuting, PostCtrl, openVideoCodec, PauseTransitions, ExecutingToIdle,
       ReturnAllBuffers, FinishExecutingToIdle, CommandFlush, CommandPortDisable,
       CommandPortEnable, ClientSetsMode, ClientAllocates, ClientFrees,
       ClientPassesBuffers, NX_VidDec_UseBuffer, NX_VidDec_AllocateBuffer, NX_VidDec_FreeBuffer,
       NX_BaseEmptyThisBuffer, NX_VidDec_FillThisBuffer, BufThread, BufStart, BufTest,
       BufPendCtrl, BufPendChange, BufCheck, BufLock, BufDecode, BufEos, vars
  <2>2. QED
    BY <1>3, <2>1 DEF Refused
<1>4. QED
  BY <1>1, <1>2, <1>3

\* The client has no buffer while a loaded component refuses to pause.
LEMMA NextUnfilled ==
  ASSUME StateInv, BufferInv, Orderly, Unfilled, [Next]_vars
  PROVE  Unfilled'
<1> SUFFICES ASSUME Refused' PROVE \A b \in Buffers : owner'[b] = "none"
  BY DEF Unfilled
<1>1. CASE ~Refused
  <2>1. ClientSends /\ told = "Loaded"
    BY <1>1, RefusedStep
  <2>2. owner' = owner
    BY <2>1 DEF ClientSends, NX_BaseSendCommand
  <2>3. ClientReady
    BY <2>1 DEF ClientSends
  <2>4. QED
    BY <2>1, <2>2, <2>3 DEF ClientReady
<1>2. CASE Refused
  <2>1. /\ \A b \in Buffers : owner[b] = "none"
        /\ owner \in [Buffers -> {"none", "client", "comp"}]
    BY <1>2, BufferParts DEF Unfilled, BufferTyped
  <2>2. ~ClientAllocates
    BY <1>2, AllocateEffect DEF Refused
  <2>3. CASE ClientFrees
    BY <2>1, <2>3, FreeEffect
  <2>4. CASE ~ClientFrees
    BY <2>1, <2>2, <2>4, OwnerStep
  <2>5. QED
    BY <2>3, <2>4
<1>3. QED
  BY <1>1, <1>2

\* What an orderly client passes is not accepted by a loaded component, nor by one
\* that is about to be idle; one that is idle notes it.
LEMMA PassedLate ==
  ASSUME StateInv, BufferInv, Orderly, Unfilled, ClientPassesBuffers
  PROVE  /\ eCurState # "Loaded" /\ cmdPc # "settle" /\ UNCHANGED <<eCurState, cmdPc>>
         /\ \E b \in Buffers : /\ (InHeld \cup OutHeld)' \subseteq (InHeld \cup OutHeld) \cup {b}
                              /\ Accepted(b)
<1>1. told \in {"Executing", "Pause"} /\ AcceptsBuffers /\ UNCHANGED <<eCurState, cmdPc>>
  BY DEF ClientPassesBuffers, NX_BaseEmptyThisBuffer, NX_VidDec_FillThisBuffer, ClientPasses
<1>2. eCurState # "Loaded"
  <2>1. PICK b \in Buffers : owner[b] = "client"
    BY DEF ClientPassesBuffers, NX_BaseEmptyThisBuffer, NX_VidDec_FillThisBuffer, Buffers
  <2>2. ~Misled
    <3>1. SUFFICES ASSUME Misled PROVE FALSE
      OBVIOUS
    <3>2. eCurState = "Loaded" /\ eNewState \in {"Loaded", "Pause"}
      <4>1. eCurState = "Loaded" /\ Known
        BY <3>1 DEF StateInv, Misled
      <4>2. CASE outstanding = 1 /\ Pending.cmd = "StateSet"
        BY <4>1, <4>2, <3>1, MisledAsks DEF StateInv, Carried
      <4>3. CASE ~(outstanding = 1 /\ Pending.cmd = "StateSet")
        BY <4>1, <4>3 DEF StateInv, StateTyped, Known
      <4>4. QED
        BY <4>1, <4>2, <4>3
    <3>3. eNewState # "Pause"
      BY <2>1, <3>2 DEF Unfilled, Refused
    <3>4. QED
      BY <1>1, <3>2, <3>3 DEF AcceptsBuffers
  <2>3. QED
    BY <1>1, <2>2 DEF StateInv, Known, Carried
<1>3. cmdPc = "settle" => eNewState = "Idle" /\ eCurState = "Executing"
  <2>1. cmdPc = "settle" => /\ Pending = Change("Idle") /\ eCurState = "Executing"
                            /\ outstanding = 1
    BY DEF StateInv, StateTyped, Carried, Pending
  <2>2. QED
    BY <2>1 DEF StateInv, Carried, Change
<1>4. (InHeld \cup OutHeld = {d \in Buffers : owner[d] = "comp"})'
  <2>1. BufferInv'
    BY EmptyThisBuffer, FillThisBuffer DEF ClientPassesBuffers
  <2>2. QED
    BY <2>1, HeldIsOwned, PTL
<1>5. PICK b \in Buffers : /\ Accepted(b) /\ owner[b] = "client"
                          /\ owner' = [owner EXCEPT ![b] = "comp"]
  BY DEF ClientPassesBuffers, NX_BaseEmptyThisBuffer, NX_VidDec_FillThisBuffer, Buffers
<1>6. (InHeld \cup OutHeld)' \subseteq (InHeld \cup OutHeld) \cup {b}
  BY <1>4, <1>5, BufferParts, HeldIsOwned DEF BufferTyped
<1>7. QED
  BY <1>1, <1>2, <1>3, <1>5, <1>6 DEF AcceptsBuffers

\* Only the buffers that are passed are noted, and that is forgotten when the
\* component executes.
LEMMA LateStep ==
  ASSUME [Next]_vars
  PROVE  ClientPassesBuffers \/ late' = late \/ (PostCtrl /\ late' = {})
<1>1. CASE CommandThread
  BY <1>1 DEF CommandThread, TakeCommand, SameState, IncorrectTransition, SendEvent, LoadedToIdle,
     FinishLoadedToIdle, IdleToLoaded, JoinBufThread, FinishIdleToLoaded, PendAlloc,
     IdleToExecuting, PostCtrl, openVideoCodec, PauseTransitions, ExecutingToIdle,
     ReturnAllBuffers, FinishExecutingToIdle, CommandFlush, CommandPortDisable,
     CommandPortEnable, Answer, clientVars
<1>2. CASE BufThread
  BY <1>2 DEF BufThread, BufStart, BufTest, BufPendCtrl, BufPendChange, BufCheck, BufLock,
     BufDecode, BufEos, clientVars
<1>3. QED
  BY <1>1, <1>2 DEF Next, ClientSends, NX_BaseSendCommand, ClientSetsMode, ClientAllocates,
     ClientFrees, NX_VidDec_UseBuffer, NX_VidDec_AllocateBuffer, NX_VidDec_FreeBuffer,
     clientVars, vars

\* What is noted are buffers.
LEMMA NextLate ==
  ASSUME late \subseteq Buffers, [Next]_vars
  PROVE  late' \subseteq Buffers
<1>1. CASE ClientPassesBuffers
  <2>1. PICK b \in Buffers : Accepted(b)
    BY <1>1 DEF ClientPassesBuffers, NX_BaseEmptyThisBuffer, NX_VidDec_FillThisBuffer, Buffers
  <2>2. QED
    BY <2>1 DEF Accepted
<1>2. QED
  BY <1>1, LateStep

\* A component that is idle, or is about to be, holds only late buffers.
LEMMA NextEmptied ==
  ASSUME StateInv, BufferInv, Orderly, Unfilled, Emptied, [Next]_vars
  PROVE  Emptied'
<1>1. CASE ClientPassesBuffers
  BY <1>1, PassedLate DEF Emptied, Accepted
<1>2. CASE ReturnAllBuffers
  BY <1>2, ReturnAll DEF Emptied
<1>3. CASE PostCtrl
  BY <1>3 DEF Emptied, PostCtrl
<1>4. CASE ~ClientPassesBuffers /\ ~ReturnAllBuffers /\ ~PostCtrl
  <2>1. /\ (InHeld \cup OutHeld)' \subseteq InHeld \cup OutHeld
        /\ cmdPc' = "settle" => cmdPc = "settle"
        /\ late' = late
    BY <1>4, OwnerStep, SettleStep, LateStep
  <2>2. eCurState' \in {"Loaded", "Idle"} => eCurState \in {"Loaded", "Idle"} \/ cmdPc = "settle"
    BY StateStep DEF FinishLoadedToIdle, FinishIdleToLoaded, PostCtrl, FinishExecutingToIdle
  <2>3. QED
    BY <2>1, <2>2 DEF Emptied
<1>5. QED
  BY <1>1, <1>2, <1>3, <1>4

-----------------------------------------------------------------------------
(* The output buffers that are counted as usable exist.                      *)

\* The headers of the ports, and how many there are of one.
LEMMA AllocatedAre ==
  /\ Allocated("in") = {b \in InBufs : owner[b] # "none"}
  /\ Allocated("out") = {b \in OutBufs : owner[b] # "none"}
  /\ IsFiniteSet(Allocated("out")) /\ Cardinality(Allocated("out")) \in Nat
<1>1. /\ Allocated("in") = {b \in InBufs : owner[b] # "none"}
      /\ Allocated("out") = {b \in OutBufs : owner[b] # "none"}
  BY DEF Allocated, BufsOf
<1>2. IsFiniteSet(Allocated("out"))
  BY <1>1, DecoderAssumption, FS_Subset
<1>3. QED
  BY <1>1, <1>2, FS_CardinalityType

\* The same after a step.
LEMMA AllocatedAfter ==
  /\ Allocated("in")' = {b \in InBufs : owner'[b] # "none"}
  /\ Allocated("out")' = {b \in OutBufs : owner'[b] # "none"}
  /\ IsFiniteSet(Allocated("out")') /\ Cardinality(Allocated("out")') \in Nat
<1>1. /\ Allocated("in")' = {b \in InBufs : owner'[b] # "none"}
      /\ Allocated("out")' = {b \in OutBufs : owner'[b] # "none"}
  BY DEF Allocated, BufsOf
<1>2. IsFiniteSet(Allocated("out")')
  BY <1>1, DecoderAssumption, FS_Subset
<1>3. QED
  BY <1>1, <1>2, FS_CardinalityType

\* Steps other than the client's creating and freeing leave the ports' headers.
LEMMA AllocatedKept ==
  ASSUME StateInv, BufferInv, [Next]_vars, ~ClientAllocates, ~ClientFrees
  PROVE  Allocated("in")' = Allocated("in") /\ Allocated("out")' = Allocated("out")
<1>1. \A b \in Buffers : owner'[b] = "none" <=> owner[b] = "none"
  BY OwnerStep
<1>2. QED
  BY <1>1, AllocatedAre, AllocatedAfter DEF Buffers

\* How the set of headers of the port changes by it.
LEMMA AllocateOne ==
  ASSUME BufferInv, NEW p \in Ports, NEW b \in BufsOf(p), owner[b] = "none",
         owner' = [owner EXCEPT ![b] = "client"], NEW q \in Ports
  PROVE  /\ Allocated(q)' = (IF q = p THEN Allocated(q) \cup {b} ELSE Allocated(q))
         /\ b \notin Allocated(q)
<1>1. owner \in [Buffers -> {"none", "client", "comp"}] /\ b \in Buffers
  BY BufferParts DEF BufferTyped, BufsOf, Buffers
<1>2. \A d \in Buffers : owner'[d] = IF d = b THEN "client" ELSE owner[d]
  BY <1>1
<1>3. InBufs \cap OutBufs = {}
  BY DecoderAssumption
<1>4. QED
  BY <1>1, <1>2, <1>3 DEF Allocated, BufsOf, Buffers, Ports

\* The same of a header that is freed.
LEMMA FreeOne ==
  ASSUME BufferInv, NEW p \in Ports, NEW b \in BufsOf(p), owner[b] = "client",
         owner' = [owner EXCEPT ![b] = "none"], NEW q \in Ports
  PROVE  /\ Allocated(q)' = (IF q = p THEN Allocated(q) \ {b} ELSE Allocated(q))
         /\ b \in Allocated(p)
<1>1. owner \in [Buffers -> {"none", "client", "comp"}] /\ b \in Buffers
  BY BufferParts DEF BufferTyped, BufsOf, Buffers
<1>2. \A d \in Buffers : owner'[d] = IF d = b THEN "none" ELSE owner[d]
  BY <1>1
<1>3. InBufs \cap OutBufs = {}
  BY DecoderAssumption
<1>4. QED
  BY <1>1, <1>2, <1>3 DEF Allocated, BufsOf, Buffers, Ports

\* The time in which the client may free buffers that are still counted ends with
\* the PendSem for the output port.
LEMMA ClosingStep ==
  ASSUME StateInv, Orderly, [Next]_vars, Closing, ~\E p \in Ports : PendAlloc(p)
  PROVE  Closing'
<1>1. outstanding = 1 /\ Pending = Change("Loaded") /\ eCurState = "Idle" /\ cmdPc # "finish"
  BY DEF Closing
<1>2. cmdPc # "wait" => cmd = Change("Loaded") /\ cmd.cmd = "StateSet"
  BY <1>1 DEF Pending, Change
<1>3. cmdPc \notin {"post", "open", "return", "settle", "event"}
  BY <1>1, <1>2, CommandsAre DEF StateInv, Carried, States
<1>4. CASE TakeCommand
  BY <1>1, <1>4 DEF TakeCommand, Closing, Pending, clientVars
<1>5. CASE IdleToLoaded \/ JoinBufThread
  <2>1. /\ UNCHANGED <<outstanding, cmd, eCurState>>
        /\ cmdPc # "wait" /\ cmdPc' \in {"join", "pend_in"}
    BY <1>5 DEF IdleToLoaded, JoinBufThread, StateSet, clientVars
  <2>2. QED
    BY <1>1, <2>1 DEF Closing, Pending
<1>6. ~LoadedToIdle /\ ~IdleToExecuting /\ ~ExecutingToIdle /\ ~PauseTransitions
      /\ ~SameState /\ ~IncorrectTransition
  <2>1. \A s \in States : StateSet(s) => s = "Loaded"
    BY <1>2, CommandsAre DEF StateSet, Change, States
  <2>2. <<"Idle", "Loaded">> \in Handled
    BY DEF Handled
  <2>3. QED
    BY <1>1, <2>1, <2>2 DEF LoadedToIdle, IdleToExecuting, ExecutingToIdle, PauseTransitions,
       SameState, IncorrectTransition, States
<1>7. ~FinishLoadedToIdle /\ ~FinishIdleToLoaded /\ ~PostCtrl /\ ~openVideoCodec
      /\ ~ReturnAllBuffers /\ ~FinishExecutingToIdle
      /\ ~CommandFlush /\ ~CommandPortDisable /\ ~CommandPortEnable /\ ~SendEvent
  BY <1>1, <1>2, <1>3 DEF FinishLoadedToIdle, FinishIdleToLoaded, PostCtrl, openVideoCodec,
     ReturnAllBuffers, FinishExecutingToIdle, CommandFlush, CommandPortDisable,
     CommandPortEnable, SendEvent
<1>8. CASE ~CommandThread
  <2>1. ~ClientSends
    BY <1>1 DEF ClientSends, NX_BaseSendCommand
  <2>2. UNCHANGED <<outstanding, eCurState, cmdQueue, cmd, cmdPc>>
    BY <1>8, <2>1 DEF Next, ClientSetsMode, ClientAllocates, ClientFrees,
       ClientPassesBuffers, NX_VidDec_UseBuffer, NX_VidDec_AllocateBuffer, NX_VidDec_FreeBuffer,
       NX_BaseEmptyThisBuffer, NX_VidDec_FillThisBuffer, BufThread, BufStart, BufTest,
       BufPendCtrl, BufPendChange, BufCheck, BufLock, BufDecode, BufEos, vars, clientVars
  <2>3. QED
    BY <1>1, <2>2 DEF Closing, Pending
<1>9. QED
  BY <1>4, <1>5, <1>6, <1>7, <1>8 DEF CommandThread

\* Steps that leave the count, the buffers and what the client may do with them.
LEMMA UsableKept ==
  ASSUME Usable, UNCHANGED <<outUsableBuffers, eNewState>>, Allocated("out")' = Allocated("out"),
         Closing => Closing', Refused' => Refused,
         ~bEnabled'["out"] /\ ~asked' => ~bEnabled["out"] /\ ~asked
  PROVE  Usable'
BY DEF Usable

\* The count starts again.
LEMMA UsableReset == outUsableBuffers' = 0 => Usable'
BY AllocatedAfter DEF Usable

\* The client asks for Loaded only in the state Idle (or Loaded).
LEMMA SendUsable ==
  ASSUME StateInv, BufferInv, Orderly, Usable, ClientSends
  PROVE  Usable'
<1>1. /\ outstanding = 0 /\ outstanding' = 1
      /\ UNCHANGED <<outUsableBuffers, asked, bEnabled, owner, eCurState, cmdPc>>
  BY DEF ClientSends, NX_BaseSendCommand, portVars
<1>2. Allocated("out")' = Allocated("out") /\ ~Closing
  BY <1>1, AllocatedAre, AllocatedAfter DEF Closing
<1>3. /\ cmdPc = "wait" /\ (told = eCurState \/ Misled)
      /\ eNewState = eCurState \/ (Misled /\ Refused)
  BY <1>1 DEF StateInv, Known, Carried, Misled, Refused
<1>4. eNewState' = "Loaded" => outUsableBuffers = 0 \/ Closing'
  <2>0. eCurState = "Loaded" => outUsableBuffers = 0
    BY <1>2, <1>3 DEF Usable
  <2>1. StateInv'
    BY SendState
  <2>2. outstanding' = 1 /\ cmdPc' = "wait" /\ told' = told
    BY <1>1, <1>3 DEF ClientSends, NX_BaseSendCommand
  <2>3. Pending'.cmd = "StateSet" => /\ <<told', Pending'.arg>> \in ClientTransitions
                                     /\ eNewState' = Pending'.arg
    BY <2>1, <2>2 DEF StateInv, Known, Carried
  <2>4. Pending'.cmd # "StateSet" /\ eNewState' = "Loaded" => eCurState = "Loaded"
    BY <1>1, <2>1 DEF StateInv, Known
  <2>5. Pending' \in Commands
    BY <2>1, <2>2 DEF StateInv, StateTyped, Carried, Pending
  <2>6. ASSUME eNewState' = "Loaded", Pending'.cmd = "StateSet"
        PROVE  outUsableBuffers = 0 \/ Closing'
    <3>1. Pending' = Change("Loaded") /\ <<told, "Loaded">> \in ClientTransitions
      BY <2>2, <2>3, <2>5, <2>6, CommandsAre
    <3>2. CASE Misled
      BY <2>0, <3>2 DEF Misled
    <3>3. CASE ~Misled
      <4>1. eCurState = told /\ eNewState = told /\ (Erring => eCurState # "Pause")
        BY <1>1, <1>3, <3>3 DEF StateInv, Known
      <4>2. told \in {"Idle", "Loaded"}
        BY <3>1, <4>1 DEF Orderly, Transitions, Handled, Erring, Mistakes
      <4>3. CASE told = "Idle"
        BY <1>1, <1>3, <2>2, <3>1, <4>1, <4>3 DEF Closing
      <4>4. CASE told = "Loaded"
        BY <2>0, <4>1, <4>4
      <4>5. QED
        BY <4>2, <4>3, <4>4
    <3>4. QED
      BY <3>2, <3>3
  <2>7. QED
    BY <2>0, <2>4, <2>6
<1>5. Refused' => outUsableBuffers = 0
  <2>1. Refused' => Refused \/ eNewState = "Loaded"
    BY RefusedStep DEF Next
  <2>2. QED
    BY <1>2, <2>1 DEF Usable
<1>6. QED
  BY <1>1, <1>2, <1>4, <1>5 DEF Usable

\* A header is counted when it is created, and freed when it is not counted.
LEMMA PopulationUsable ==
  ASSUME BufferInv, ThreadTyped, Usable, ClientAllocates \/ ClientFrees
  PROVE  Usable'
<1>0. /\ outUsableBuffers \in Nat /\ IsFiniteSet(Allocated("out"))
      /\ Cardinality(Allocated("out")) \in Nat /\ Cardinality(Allocated("out")') \in Nat
  BY AllocatedAre, AllocatedAfter DEF ThreadTyped
<1>1. CASE ClientAllocates
  <2>1. PICK p \in Ports, b \in Buffers :
           /\ b \in BufsOf(p)
           /\ bEnabled[p] /\ owner[b] = "none" /\ owner' = [owner EXCEPT ![b] = "client"]
           /\ eNewState \in {"Idle", "Executing"}
           /\ \/ outUsableBuffers' = outUsableBuffers
              \/ p = "out" /\ outUsableBuffers' = outUsableBuffers + 1
           /\ UNCHANGED <<told, outstanding, asked, eCurState, eNewState>>
           /\ UNCHANGED <<cmdQueue, cmd, cmdPc, bEnabled>>
    BY <1>1, AllocateEffect
  <2>2. Closing' = Closing
    BY <2>1 DEF Closing, Pending
  <2>3. CASE p = "out"
    <3>1. Allocated("out")' = Allocated("out") \cup {b} /\ b \notin Allocated("out")
      BY <2>1, <2>3, AllocateOne
    <3>2. Cardinality(Allocated("out")') = Cardinality(Allocated("out")) + 1
      BY <1>0, <3>1, FS_AddElement
    <3>3. outUsableBuffers' <= outUsableBuffers + 1
      BY <1>0, <2>1
    <3>4. outUsableBuffers' <= Cardinality(Allocated("out")') \/ Closing'
      <4>1. outUsableBuffers <= Cardinality(Allocated("out")) \/ Closing
        BY DEF Usable
      <4>2. outUsableBuffers' \in Nat
        BY <1>0, <2>1
      <4>3. QED
        BY <1>0, <2>2, <3>2, <3>3, <4>1, <4>2
    <3>5. QED
      BY <2>1, <2>3, <3>4 DEF Usable, Refused
  <2>4. CASE p # "out"
    <3>1. Allocated("out")' = Allocated("out") /\ outUsableBuffers' = outUsableBuffers
      BY <2>1, <2>4, AllocateOne DEF Ports
    <3>2. QED
      BY <2>1, <2>2, <3>1, UsableKept DEF Refused
  <2>5. QED
    BY <2>3, <2>4
<1>2. CASE ClientFrees
  <2>1. PICK p \in Ports, b \in Buffers :
           /\ b \in BufsOf(p)
           /\ eNewState = "Loaded" \/ (~bEnabled[p] /\ ~asked)
           /\ owner[b] = "client" /\ owner' = [owner EXCEPT ![b] = "none"]
           /\ outUsableBuffers' = outUsableBuffers
           /\ UNCHANGED <<told, outstanding, asked, eCurState, eNewState>>
           /\ UNCHANGED <<cmdQueue, cmd, cmdPc, bEnabled>>
    BY <1>2, FreeEffect
  <2>2. Closing' = Closing
    BY <2>1 DEF Closing, Pending
  <2>3. CASE p = "out"
    <3>1. outUsableBuffers = 0 \/ Closing
      BY <2>1, <2>3 DEF Usable
    <3>2. outUsableBuffers' <= Cardinality(Allocated("out")') \/ Closing'
      BY <1>0, <2>1, <2>2, <3>1
    <3>3. QED
      BY <2>1, <2>2, <3>2 DEF Usable, Refused
  <2>4. CASE p # "out"
    <3>1. Allocated("out")' = Allocated("out")
      BY <2>1, <2>4, FreeOne DEF Ports
    <3>2. QED
      BY <2>1, <2>2, <3>1, UsableKept DEF Refused
  <2>5. QED
    BY <2>3, <2>4
<1>3. QED
  BY <1>1, <1>2

\* The PendSem for the output port resets the count on the way to Loaded.
LEMMA PendAllocUsable ==
  ASSUME StateInv, BufferInv, Orderly, Usable, NEW p \in Ports, PendAlloc(p)
  PROVE  Usable'
<1>1. /\ UNCHANGED <<outstanding, asked, eNewState, eCurState, cmd, cmdQueue, bEnabled, owner>>
      /\ cmdPc \in Waiting
      /\ \/ p = "in" /\ cmdPc' = "pend_out" /\ outUsableBuffers' = outUsableBuffers
         \/ p = "out" /\ eCurState = "Idle" /\ outUsableBuffers' = 0
         \/ p = "out" /\ eCurState # "Idle" /\ outUsableBuffers' = outUsableBuffers
  BY DEF PendAlloc, clientVars, Ports, Waiting
<1>2. Allocated("out")' = Allocated("out")
  BY <1>1, AllocatedAre, AllocatedAfter
<1>3. CASE outUsableBuffers' = 0
  BY <1>3, UsableReset
<1>4. CASE p = "in" /\ cmdPc' = "pend_out" /\ outUsableBuffers' = outUsableBuffers
  <2>1. Closing => Closing'
    BY <1>1, <1>4 DEF Closing, Pending, Waiting
  <2>2. QED
    BY <1>1, <1>2, <1>4, <2>1, UsableKept DEF Refused
<1>5. CASE p = "out" /\ eCurState # "Idle" /\ outUsableBuffers' = outUsableBuffers
  <2>1. ~Closing
    BY <1>5 DEF Closing
  <2>2. QED
    BY <1>1, <1>2, <1>5, <2>1, UsableKept DEF Refused
<1>6. QED
  BY <1>1, <1>3, <1>4, <1>5

\* The port commands: the client that disables the ports one by one has the count
\* reset with the output port.
LEMMA PortsUsable ==
  ASSUME StateInv, BufferInv, ThreadTyped, OneByOne, Usable, CommandPortDisable \/ CommandPortEnable
  PROVE  Usable'
<1>0. /\ cmdPc = "exec" /\ cmd.cmd \in {"PortDisable", "PortEnable"}
      /\ eNewState' = eNewState /\ Refused' = Refused
  BY DEF CommandPortDisable, CommandPortEnable, Refused
<1>1. ~Closing
  <2>1. Change("Loaded").cmd = "StateSet" /\ Pending = cmd
    BY <1>0 DEF Change, Pending
  <2>2. QED
    BY <1>0, <2>1 DEF Closing
<1>2. cmd.arg \in Ports
  BY <1>0, PortsAre DEF OneByOne
<1>3. Allocated("out")' = Allocated("out")
  <2>1. \A b \in Buffers : owner'[b] = "none" <=> owner[b] = "none"
    BY FlushCommands DEF CommandPortEnable
  <2>2. QED
    BY <2>1, AllocatedAre, AllocatedAfter DEF Buffers
<1>4. CASE CommandPortDisable /\ cmd.arg = "out"
  BY <1>4, UsableReset DEF CommandPortDisable
<1>5. CASE CommandPortDisable /\ cmd.arg # "out"
  <2>1. "out" \notin PortsOf(cmd.arg)
    BY <1>2, <1>5 DEF PortsOf, Ports
  <2>2. /\ outUsableBuffers' = outUsableBuffers
        /\ asked' <=> asked
        /\ bEnabled'["out"] <=> bEnabled["out"]
    BY <1>5, <2>1 DEF CommandPortDisable, Ports
  <2>3. QED
    BY <1>0, <1>1, <1>3, <2>2, UsableKept
<1>6. CASE CommandPortEnable
  <2>1. UNCHANGED <<outUsableBuffers, asked>> /\ (bEnabled["out"] => bEnabled'["out"])
    BY <1>6 DEF CommandPortEnable, Ports
  <2>2. QED
    BY <1>0, <1>1, <1>3, <2>1, UsableKept
<1>7. QED
  BY <1>4, <1>5, <1>6

\* The other steps leave the count and the ports, or disable the output port and
\* ask the client for new buffers.
LEMMA OtherUsable ==
  ASSUME [Next]_vars, ~ClientSends, ~ClientAllocates, ~ClientFrees,
         ~\E p \in Ports : PendAlloc(p), ~CommandPortDisable, ~CommandPortEnable
  PROVE  /\ UNCHANGED <<outUsableBuffers, eNewState, hBufAllocSem>>
         /\ UNCHANGED <<asked, bEnabled>> \/ (asked' /\ BufDecode)
BY DecodeEffect DEF Next, ClientSetsMode, ClientPassesBuffers, NX_BaseEmptyThisBuffer,
   NX_VidDec_FillThisBuffer, CommandThread, TakeCommand, SameState, IncorrectTransition,
   SendEvent, LoadedToIdle, FinishLoadedToIdle, IdleToLoaded, JoinBufThread, FinishIdleToLoaded,
   IdleToExecuting, PostCtrl, openVideoCodec, PauseTransitions, ExecutingToIdle, ReturnAllBuffers,
   FinishExecutingToIdle, CommandFlush, BufThread, BufStart, BufTest, BufPendCtrl, BufPendChange,
   BufCheck, BufLock, BufEos, vars, clientVars, portVars

\* With a client that disables the ports one by one every buffer that is counted
\* exists, but for the time in which Idle -> Loaded frees them.
LEMMA NextUsable ==
  ASSUME StateInv, BufferInv, ThreadTyped, OneByOne, Usable, [Next]_vars
  PROVE  Usable'
<1>1. Orderly
  BY DEF OneByOne
<1>2. CASE ClientSends
  BY <1>1, <1>2, SendUsable
<1>3. CASE ClientAllocates \/ ClientFrees
  BY <1>3, PopulationUsable
<1>4. CASE \E p \in Ports : PendAlloc(p)
  BY <1>1, <1>4, PendAllocUsable
<1>5. CASE CommandPortDisable \/ CommandPortEnable
  BY <1>5, PortsUsable
<1>6. CASE /\ ~ClientSends /\ ~ClientAllocates /\ ~ClientFrees
           /\ ~(\E p \in Ports : PendAlloc(p)) /\ ~CommandPortDisable /\ ~CommandPortEnable
  <2>1. /\ UNCHANGED <<outUsableBuffers, eNewState>>
        /\ UNCHANGED <<asked, bEnabled>> \/ asked'
    BY <1>6, OtherUsable
  <2>2. /\ Allocated("out")' = Allocated("out") /\ (Closing => Closing')
        /\ Refused' => Refused
    BY <1>1, <1>6, AllocatedKept, ClosingStep, RefusedStep
  <2>3. QED
    BY <2>1, <2>2, UsableKept
<1>7. QED
  BY <1>2, <1>3, <1>4, <1>5, <1>6

-----------------------------------------------------------------------------
(* The component reports Loaded when its ports are empty.                    *)

\* The parts of Population by name: each state has its own.
LEMMA PopulationParts ==
  ASSUME Population
  PROVE  /\ bEnabled["in"] /\ bEnabled["out"]
         /\ eCurState = "Loaded" /\ eNewState # "Idle"
            => hBufAllocSem = 0 /\ Empty("in") /\ Empty("out")
         /\ eCurState = "Loaded" /\ eNewState = "Idle"
            => hBufAllocSem + Taken <= Number(Full("in"), Full("out"))
         /\ eCurState = "Idle" /\ eNewState = "Loaded"
            => hBufAllocSem + Taken <= Number(Empty("in"), Empty("out"))
         /\ eCurState # "Loaded" /\ (eCurState # "Idle" \/ eNewState # "Loaded")
            => hBufAllocSem = 0 /\ Full("in") /\ Full("out")
BY DEF Population

\* How many of two things are so.
LEMMA NumberIs ==
  ASSUME NEW a \in BOOLEAN, NEW b \in BOOLEAN
  PROVE  Number(a, b) \in 0..2 /\ (Number(a, b) = 2 => a /\ b)
BY DEF Number

\* One of them becomes so, and at most one more is counted.
LEMMA NumberGrows ==
  ASSUME NEW a \in BOOLEAN, NEW b \in BOOLEAN, NEW c \in BOOLEAN,
         NEW m \in Nat, NEW n \in Nat, NEW t \in 0..2,
         ~a, m = n \/ (m <= n + 1 /\ c)
  PROVE  /\ n + t <= Number(a, b) => m + t <= Number(c, b)
         /\ n + t <= Number(b, a) => m + t <= Number(b, c)
<1>1. CASE c
  BY <1>1 DEF Number
<1>2. CASE ~c
  BY <1>2 DEF Number
<1>3. QED
  BY <1>1, <1>2

\* Full and empty are true or false, of the state and of the next one.
LEMMA FullEmpty ==
  /\ \A p \in Ports : Full(p) \in BOOLEAN /\ Empty(p) \in BOOLEAN
  /\ \A p \in Ports : Full(p)' \in BOOLEAN /\ Empty(p)' \in BOOLEAN
  /\ \A p \in Ports : Full(p)' = (Allocated(p)' = BufsOf(p) /\ BufsOf(p) # {})
  /\ \A p \in Ports : Empty(p)' = (Allocated(p)' = {})
  /\ Full("in")' = (Allocated("in")' = InBufs /\ InBufs # {})
  /\ Full("out")' = (Allocated("out")' = OutBufs /\ OutBufs # {})
  /\ Empty("in")' = (Allocated("in")' = {}) /\ Empty("out")' = (Allocated("out")' = {})
BY DEF Full, Empty, BufsOf

\* The state that an orderly client has asked for.
LEMMA NewStateIs ==
  ASSUME StateInv, Orderly
  PROVE  /\ eCurState = "Loaded" => eNewState \in {"Loaded", "Idle", "Pause"}
         /\ eCurState \in {"Executing", "Pause"} => eNewState # "Loaded"
<1>0. /\ outstanding = 1 /\ Pending.cmd = "StateSet" => eNewState = Pending.arg
      /\ Known /\ outstanding \in 0..1
  BY DEF StateInv, StateTyped, Carried
<1>1. CASE outstanding = 0 \/ Pending.cmd # "StateSet"
  BY <1>0, <1>1 DEF Known, Misled
<1>2. CASE outstanding = 1 /\ Pending.cmd = "StateSet" /\ cmdPc \in {"wait", "exec"}
  <2>1. CASE Misled
    BY <1>0, <1>2, <2>1, MisledAsks DEF Misled
  <2>2. CASE ~Misled
    <3>1. <<eCurState, eNewState>> \in ClientTransitions /\ (Erring => eCurState # "Pause")
      BY <1>0, <1>2, <2>2 DEF Known
    <3>2. \/ <<eCurState, eNewState>> \in Transitions
          \/ <<eCurState, eNewState>> \in Mistakes /\ eCurState # "Pause"
      BY <3>1 DEF Orderly, Erring
    <3>3. QED
      BY <3>2 DEF Transitions, Handled, Mistakes
  <2>3. QED
    BY <2>1, <2>2
<1>3. CASE outstanding = 1 /\ Pending.cmd = "StateSet" /\ cmdPc \notin {"wait", "exec"}
  <2>1. Pending = cmd /\ eNewState = cmd.arg
    BY <1>3 DEF StateInv, Carried, Pending
  <2>2. \/ cmd = Change("Idle") \/ cmd = Change(eCurState)
        \/ cmd = Change("Loaded") /\ eCurState = "Idle"
        \/ cmd = Change("Executing") /\ eCurState # "Loaded"
    BY <1>3 DEF StateInv, StateTyped, Carried, Waiting
  <2>3. QED
    BY <1>3, <2>1, <2>2 DEF Change
<1>4. QED
  BY <1>0, <1>1, <1>2, <1>3

\* Steps that leave the ports and the state.
LEMMA PopulationKept ==
  ASSUME Population, UNCHANGED <<bEnabled, hBufAllocSem, eCurState, eNewState>>, Taken' = Taken,
         Allocated("in")' = Allocated("in"), Allocated("out")' = Allocated("out")
  PROVE  Population'
<1>1. /\ Full("in")' = Full("in") /\ Full("out")' = Full("out")
      /\ Empty("in")' = Empty("in") /\ Empty("out")' = Empty("out")
  BY FullEmpty DEF Full, Empty, BufsOf
<1>2. /\ Number(Full("in"), Full("out"))' = Number(Full("in"), Full("out"))
      /\ Number(Empty("in"), Empty("out"))' = Number(Empty("in"), Empty("out"))
  BY <1>1 DEF Number
<1>3. QED
  BY <1>1, <1>2 DEF Population

\* A client whose component has answered asks for the next state.
LEMMA SendPopulation ==
  ASSUME StateInv, ThreadTyped, BufferInv, Orderly, Population, ClientSends
  PROVE  Population'
<1>1. /\ outstanding = 0 /\ UNCHANGED <<bEnabled, hBufAllocSem, eCurState, owner, cmdPc>>
  BY DEF ClientSends, NX_BaseSendCommand, portVars
<1>2. /\ cmdPc = "wait" /\ Taken' = 0
      /\ eNewState = eCurState \/ (eCurState = "Loaded" /\ eNewState = "Pause")
  BY <1>1 DEF StateInv, Known, Misled, Carried, Taken
<1>3. /\ Full("in")' = Full("in") /\ Full("out")' = Full("out")
      /\ Empty("in")' = Empty("in") /\ Empty("out")' = Empty("out")
  BY <1>1, AllocatedAre, AllocatedAfter, FullEmpty DEF Full, Empty, BufsOf
<1>4. /\ Number(Full("in"), Full("out"))' \in 0..2
      /\ Number(Empty("in"), Empty("out"))' \in 0..2
  BY FullEmpty, NumberIs DEF Ports, Number
<1>5. hBufAllocSem = 0
  BY <1>2, PopulationParts
<1>6. hBufAllocSem' + Taken' = 0
  BY <1>1, <1>2, <1>5
<1>7. CASE eCurState = "Loaded"
  BY <1>1, <1>2, <1>3, <1>4, <1>5, <1>6, <1>7, PopulationParts DEF Population
<1>8. CASE eCurState # "Loaded"
  BY <1>1, <1>2, <1>3, <1>4, <1>5, <1>6, <1>8, PopulationParts DEF Population
<1>9. QED
  BY <1>7, <1>8

\* A header that is created belongs to Loaded -> Idle, and the one that fills its
\* port is the one that is posted.
LEMMA AllocatePopulation ==
  ASSUME StateInv, ThreadTyped, BufferInv, Orderly, Population, ClientAllocates
  PROVE  Population'
<1>1. PICK p \in Ports, b \in Buffers :
         /\ b \in BufsOf(p)
         /\ bEnabled[p] /\ owner[b] = "none" /\ owner' = [owner EXCEPT ![b] = "client"]
         /\ eNewState \in {"Idle", "Executing"}
         /\ hBufAllocSem' = IF Allocated(p) \cup {b} = BufsOf(p)
                            THEN Post(hBufAllocSem, AllocMax) ELSE hBufAllocSem
         /\ UNCHANGED <<told, outstanding, asked, eCurState, eNewState>>
         /\ UNCHANGED <<cmdQueue, cmd, cmdPc, bEnabled>>
  BY AllocateEffect
<1>2. \A q \in Ports : Allocated(q)' = IF q = p THEN Allocated(q) \cup {b} ELSE Allocated(q)
  BY <1>1, AllocateOne
<1>3. b \notin Allocated(p)
  BY <1>1, AllocateOne
<1>4. ~Full(p)
  BY <1>1, <1>3 DEF Full
<1>5. eCurState = "Loaded" /\ eNewState = "Idle"
  BY <1>1, <1>4, PopulationParts, NewStateIs DEF StateInv, StateTyped, States, Ports
<1>6. Taken' = Taken /\ Taken \in 0..2
  BY <1>1 DEF Taken
<1>7. hBufAllocSem \in Nat /\ hBufAllocSem' \in Nat
      /\ (hBufAllocSem' = hBufAllocSem \/ (hBufAllocSem' <= hBufAllocSem + 1 /\ Full(p)'))
  <2>1. CASE Allocated(p) \cup {b} = BufsOf(p)
    BY <1>1, <1>2, <2>1, PostAlloc, FullEmpty
  <2>2. CASE Allocated(p) \cup {b} # BufsOf(p)
    BY <1>1, <2>2, PostAlloc
  <2>3. QED
    BY <2>1, <2>2
<1>8. \A q \in Ports : q # p => Full(q)' = Full(q)
  BY <1>2, FullEmpty DEF Full
<1>9. hBufAllocSem' + Taken' <= Number(Full("in"), Full("out"))'
  <2>1. hBufAllocSem + Taken <= Number(Full("in"), Full("out"))
    BY <1>5, PopulationParts
  <2>2. Number(Full("in"), Full("out"))' = Number(Full("in")', Full("out")')
    BY DEF Number
  <2>3. CASE p = "in"
    <3>1. Full("out")' = Full("out") /\ ~Full("in") /\ Full("in")' \in BOOLEAN
          /\ Full("in") \in BOOLEAN /\ Full("out") \in BOOLEAN
      BY <1>4, <1>8, <2>3, FullEmpty DEF Ports
    <3>2. QED
      BY <1>6, <1>7, <2>1, <2>2, <2>3, <3>1, NumberGrows
  <2>4. CASE p = "out"
    <3>1. Full("in")' = Full("in") /\ ~Full("out") /\ Full("out")' \in BOOLEAN
          /\ Full("in") \in BOOLEAN /\ Full("out") \in BOOLEAN
      BY <1>4, <1>8, <2>4, FullEmpty DEF Ports
    <3>2. QED
      BY <1>6, <1>7, <2>1, <2>2, <2>4, <3>1, NumberGrows
  <2>5. QED
    BY <2>3, <2>4 DEF Ports
<1>10. QED
  BY <1>1, <1>5, <1>9, PopulationParts DEF Population

\* One that is freed belongs to Idle -> Loaded, and the one that empties its port
\* is the one that is posted.
LEMMA FreePopulation ==
  ASSUME StateInv, ThreadTyped, BufferInv, Orderly, Population, ClientFrees
  PROVE  Population'
<1>1. PICK p \in Ports, b \in Buffers :
         /\ b \in BufsOf(p)
         /\ eNewState = "Loaded" \/ (~bEnabled[p] /\ ~asked)
         /\ owner[b] = "client" /\ owner' = [owner EXCEPT ![b] = "none"]
         /\ hBufAllocSem' = IF Allocated(p) = {b} THEN Post(hBufAllocSem, AllocMax)
                            ELSE hBufAllocSem
         /\ UNCHANGED <<told, outstanding, asked, eCurState, eNewState>>
         /\ UNCHANGED <<cmdQueue, cmd, cmdPc, bEnabled>>
  BY FreeEffect
<1>2. \A q \in Ports : Allocated(q)' = IF q = p THEN Allocated(q) \ {b} ELSE Allocated(q)
  BY <1>1, FreeOne
<1>3. b \in Allocated(p)
  BY <1>1, FreeOne
<1>4. ~Empty(p)
  BY <1>3 DEF Empty
<1>5. eNewState = "Loaded" /\ eCurState = "Idle"
  <2>1. bEnabled[p]
    BY PopulationParts DEF Ports
  <2>2. eNewState = "Loaded"
    BY <1>1, <2>1
  <2>3. eCurState # "Loaded"
    BY <1>4, <2>2, PopulationParts DEF Ports
  <2>4. QED
    BY <2>2, <2>3, NewStateIs DEF StateInv, StateTyped, States
<1>6. Taken' = Taken /\ Taken \in 0..2
  BY <1>1 DEF Taken
<1>7. hBufAllocSem \in Nat /\ hBufAllocSem' \in Nat
      /\ (hBufAllocSem' = hBufAllocSem \/ (hBufAllocSem' <= hBufAllocSem + 1 /\ Empty(p)'))
  <2>1. CASE Allocated(p) = {b}
    BY <1>1, <1>2, <2>1, PostAlloc, FullEmpty
  <2>2. CASE Allocated(p) # {b}
    BY <1>1, <2>2, PostAlloc
  <2>3. QED
    BY <2>1, <2>2
<1>8. \A q \in Ports : q # p => Empty(q)' = Empty(q)
  BY <1>2, FullEmpty DEF Empty
<1>9. hBufAllocSem' + Taken' <= Number(Empty("in"), Empty("out"))'
  <2>1. hBufAllocSem + Taken <= Number(Empty("in"), Empty("out"))
    BY <1>5, PopulationParts
  <2>2. Number(Empty("in"), Empty("out"))' = Number(Empty("in")', Empty("out")')
    BY DEF Number
  <2>3. CASE p = "in"
    <3>1. Empty("out")' = Empty("out") /\ ~Empty("in") /\ Empty("in")' \in BOOLEAN
          /\ Empty("in") \in BOOLEAN /\ Empty("out") \in BOOLEAN
      BY <1>4, <1>8, <2>3, FullEmpty DEF Ports
    <3>2. QED
      BY <1>6, <1>7, <2>1, <2>2, <2>3, <3>1, NumberGrows
  <2>4. CASE p = "out"
    <3>1. Empty("in")' = Empty("in") /\ ~Empty("out") /\ Empty("out")' \in BOOLEAN
          /\ Empty("in") \in BOOLEAN /\ Empty("out") \in BOOLEAN
      BY <1>4, <1>8, <2>4, FullEmpty DEF Ports
    <3>2. QED
      BY <1>6, <1>7, <2>1, <2>2, <2>4, <3>1, NumberGrows
  <2>5. QED
    BY <2>3, <2>4 DEF Ports
<1>10. QED
  BY <1>1, <1>5, <1>9, PopulationParts DEF Population

\* A count is taken for the port that is waited for.
LEMMA PendAllocPopulation ==
  ASSUME StateInv, ThreadTyped, Population, NEW p \in Ports, PendAlloc(p)
  PROVE  Population'
<1>1. /\ UNCHANGED <<bEnabled, eCurState, eNewState, owner, outstanding, cmd>>
      /\ cmdPc \in Waiting
      /\ hBufAllocSem' = IF bEnabled[p] THEN hBufAllocSem - 1 ELSE hBufAllocSem
      /\ \/ cmdPc = "pend_in" /\ cmdPc' = "pend_out"
         \/ cmdPc = "pend_out" /\ cmdPc' = "finish"
  BY DEF PendAlloc, clientVars, Ports, Waiting
<1>2. /\ hBufAllocSem' = hBufAllocSem - 1 /\ hBufAllocSem \in Nat
      /\ Taken' = Taken + 1 /\ Taken \in 0..2
  <2>1. bEnabled[p]
    BY PopulationParts DEF Ports
  <2>2. QED
    BY <1>1, <2>1 DEF Taken, ThreadTyped
<1>3. hBufAllocSem' + Taken' = hBufAllocSem + Taken
  BY <1>2
<1>4. /\ Full("in")' = Full("in") /\ Full("out")' = Full("out")
      /\ Empty("in")' = Empty("in") /\ Empty("out")' = Empty("out")
  BY <1>1, AllocatedAre, AllocatedAfter, FullEmpty DEF Full, Empty, BufsOf
<1>5. /\ Number(Full("in"), Full("out"))' = Number(Full("in"), Full("out"))
      /\ Number(Empty("in"), Empty("out"))' = Number(Empty("in"), Empty("out"))
  BY <1>4 DEF Number
<1>6. \/ eCurState = "Loaded" /\ eNewState = "Idle"
      \/ eCurState = "Idle" /\ eNewState = "Loaded"
  <2>1. Pending = cmd /\ outstanding = 1
    BY <1>1 DEF StateInv, StateTyped, Carried, Pending, Waiting
  <2>2. QED
    BY <1>1, <2>1 DEF StateInv, Carried, Change
<1>7. QED
  BY <1>1, <1>3, <1>5, <1>6, PopulationParts DEF Population

\* The state changes when both ports are done, or with all buffers in place.
LEMMA StatePopulation ==
  ASSUME StateInv, ThreadTyped, BufferInv, Settled, Population, [Next]_vars,
         eCurState' # eCurState
  PROVE  Population'
<1>0. Orderly
  BY DEF Settled
<1>1. \/ FinishLoadedToIdle \/ FinishIdleToLoaded \/ PostCtrl \/ FinishExecutingToIdle
      \/ /\ PauseTransitions /\ cmdPc = "exec" /\ cmdPc' = "event"
         /\ eCurState # "Loaded" /\ eCurState' \in {"Executing", "Pause"}
  BY <1>0, StateStep
<1>2. UNCHANGED <<owner, bEnabled, hBufAllocSem, eNewState>>
  BY <1>1 DEF FinishLoadedToIdle, FinishIdleToLoaded, PostCtrl, FinishExecutingToIdle,
     PauseTransitions, portVars
<1>3. /\ Full("in")' = Full("in") /\ Full("out")' = Full("out")
      /\ Empty("in")' = Empty("in") /\ Empty("out")' = Empty("out")
  BY <1>2, AllocatedAre, AllocatedAfter, FullEmpty DEF Full, Empty, BufsOf
<1>4. cmdPc # "wait" /\ Pending = cmd /\ outstanding = 1
  BY <1>1 DEF FinishLoadedToIdle, FinishIdleToLoaded, PostCtrl, FinishExecutingToIdle,
     Pending, StateInv, StateTyped, Carried
<1>5. /\ Number(Full("in"), Full("out")) \in 0..2 /\ hBufAllocSem \in Nat
      /\ Number(Empty("in"), Empty("out")) \in 0..2
      /\ Number(Full("in"), Full("out")) = 2 => Full("in") /\ Full("out")
      /\ Number(Empty("in"), Empty("out")) = 2 => Empty("in") /\ Empty("out")
  BY NumberIs, FullEmpty DEF Ports, ThreadTyped
<1>6. CASE FinishLoadedToIdle
  <2>1. Taken = 2 /\ eCurState = "Loaded" /\ eCurState' = "Idle" /\ cmd = Change("Idle")
    BY <1>6 DEF FinishLoadedToIdle, Taken, StateInv, Carried, Waiting
  <2>2. eNewState = "Idle"
    BY <1>4, <2>1 DEF StateInv, Carried, Change
  <2>3. hBufAllocSem = 0 /\ Full("in") /\ Full("out")
    BY <1>5, <2>1, <2>2, PopulationParts
  <2>4. QED
    BY <1>2, <1>3, <2>1, <2>2, <2>3, PopulationParts DEF Population
<1>7. CASE FinishIdleToLoaded
  <2>1. Taken = 2 /\ eCurState = "Idle" /\ eCurState' = "Loaded" /\ cmd = Change("Loaded")
    BY <1>7 DEF FinishIdleToLoaded, Taken, StateInv, Carried, Waiting
  <2>2. eNewState = "Loaded"
    BY <1>4, <2>1 DEF StateInv, Carried, Change
  <2>3. hBufAllocSem = 0 /\ Empty("in") /\ Empty("out")
    BY <1>5, <2>1, <2>2, PopulationParts
  <2>4. QED
    BY <1>2, <1>3, <2>1, <2>2, <2>3, PopulationParts DEF Population
<1>8. CASE PostCtrl \/ FinishExecutingToIdle
  <2>1. /\ eCurState \in {"Idle", "Executing"} /\ eCurState' \in {"Idle", "Executing"}
        /\ cmd \in {Change("Executing"), Change("Idle")}
    BY <1>8 DEF PostCtrl, FinishExecutingToIdle, StateInv, Carried
  <2>2. eNewState \in {"Executing", "Idle"}
    BY <1>4, <2>1 DEF StateInv, Carried, Change
  <2>3. hBufAllocSem = 0 /\ Full("in") /\ Full("out")
    BY <2>1, <2>2, PopulationParts
  <2>4. QED
    BY <1>2, <1>3, <2>1, <2>2, <2>3, PopulationParts DEF Population
<1>9. CASE PauseTransitions /\ eCurState # "Loaded" /\ eCurState' \in {"Executing", "Pause"}
  <2>1. PICK s \in States : StateSet(s) /\ eCurState' = s
    BY <1>9 DEF PauseTransitions
  <2>2. eNewState = s /\ s \in {"Executing", "Pause"}
    BY <1>4, <1>9, <2>1 DEF StateSet, StateInv, Carried
  <2>3. hBufAllocSem = 0 /\ Full("in") /\ Full("out")
    BY <1>9, <2>2, PopulationParts
  <2>4. QED
    BY <1>2, <1>3, <1>9, <2>2, <2>3, PopulationParts DEF Population
<1>10. QED
  BY <1>1, <1>6, <1>7, <1>8, <1>9

\* The other steps take no count.
LEMMA TakenStep ==
  ASSUME [Next]_vars, eCurState' = eCurState, ~\E p \in Ports : PendAlloc(p)
  PROVE  Taken' = Taken
BY DEF Taken, Next, CommandThread, TakeCommand, SameState, IncorrectTransition, SendEvent,
     LoadedToIdle, FinishLoadedToIdle, IdleToLoaded, JoinBufThread, FinishIdleToLoaded,
     IdleToExecuting, PostCtrl, openVideoCodec, PauseTransitions, ExecutingToIdle, ReturnAllBuffers,
     FinishExecutingToIdle, CommandFlush, CommandPortDisable, CommandPortEnable, Answer, StateSet,
     ClientSends, NX_BaseSendCommand, ClientSetsMode, ClientAllocates, ClientFrees,
     ClientPassesBuffers, NX_VidDec_UseBuffer, NX_VidDec_AllocateBuffer, NX_VidDec_FreeBuffer,
     NX_BaseEmptyThisBuffer, NX_VidDec_FillThisBuffer, BufThread, BufStart, BufTest, BufPendCtrl,
     BufPendChange, BufCheck, BufLock, BufDecode, BufEos, vars

\* With a client that leaves the ports enabled the counts of hBufAllocSem are
\* those of the ports that are done.
LEMMA NextPopulation ==
  ASSUME StateInv, ThreadTyped, BufferInv, Settled, Population, [Next]_vars
  PROVE  Population'
<1>0. Orderly /\ PortArgs = {} /\ ~Reconfigures
  BY DEF Settled
<1>1. CASE ClientSends
  BY <1>0, <1>1, SendPopulation
<1>2. CASE ClientAllocates
  BY <1>0, <1>2, AllocatePopulation
<1>3. CASE ClientFrees
  BY <1>0, <1>3, FreePopulation
<1>4. CASE \E p \in Ports : PendAlloc(p)
  BY <1>4, PendAllocPopulation
<1>5. CASE eCurState' # eCurState
  BY <1>5, StatePopulation
<1>6. ~CommandPortDisable /\ ~CommandPortEnable
  BY <1>0, PortsAre DEF CommandPortDisable, CommandPortEnable
<1>7. CASE /\ ~ClientSends /\ ~ClientAllocates /\ ~ClientFrees
           /\ ~(\E p \in Ports : PendAlloc(p)) /\ eCurState' = eCurState
  <2>1. UNCHANGED <<eNewState, hBufAllocSem>> /\ (bEnabled' = bEnabled \/ BufDecode)
    BY <1>6, <1>7, OtherUsable
  <2>2. bEnabled' = bEnabled
    BY <1>0, <2>1, DecodeEffect
  <2>3. Allocated("in")' = Allocated("in") /\ Allocated("out")' = Allocated("out")
    BY <1>7, AllocatedKept
  <2>4. Taken' = Taken
    BY <1>7, TakenStep
  <2>5. QED
    BY <1>7, <2>1, <2>2, <2>3, <2>4, PopulationKept
<1>8. QED
  BY <1>1, <1>2, <1>3, <1>4, <1>5, <1>7

-----------------------------------------------------------------------------
(* The invariant, and what it says of the properties.                        *)

\* The component as ComponentInit leaves it.
LEMMA InitIInv == Init => IInv
<1> SUFFICES ASSUME Init PROVE IInv
  OBVIOUS
<1>1. /\ told = "Loaded" /\ outstanding = 0 /\ asked = FALSE /\ owner = [b \in Buffers |-> "none"]
      /\ eCurState = "Loaded" /\ eNewState = "Loaded" /\ cmdQueue = << >>
      /\ bEnabled = [p \in Ports |-> TRUE] /\ bEnableThumbNailMode \in Modes
      /\ hBufAllocSem = 0 /\ hBufCtrlSem = NoSem /\ hBufChangeSem = NoSem
      /\ inQueue = << >> /\ outQueue = << >> /\ outBufferUseFlag = {} /\ curOutBuffers = 0
      /\ outUsableBuffers = 0 /\ eCmdBufThread = "PAUSE"
      /\ cmd = None /\ cmdPc = "wait" /\ bufPc = "none" /\ late = {}
  BY DEF Init
<1>2. StateInv
  BY <1>1 DEF StateInv, StateTyped, Carried, Known, States, Waiting
<1>3. ThreadInv
  <2>1. asked \in BOOLEAN /\ bEnabled \in [Ports -> BOOLEAN]
    BY <1>1
  <2>2. hBufAllocSem \in 0..AllocMax /\ hBufChangeSem \in NoSem..ChangeMax
    BY <1>1, DecoderAssumption DEF NoSem
  <2>3. QED
    BY <1>1, <2>1, <2>2 DEF ThreadInv, ThreadTyped, Posted, SemaphoresOutliveThread, StopIsNoticed
<1>4. InHeld = {} /\ OutHeld = {} /\ InOnce /\ OutOnce
  BY <1>1, EmptyQueue, HeldIs DEF OutHeld
<1>5. BufferInv
  <2>1. BufferTyped
    BY <1>1 DEF BufferTyped
  <2>2. Owned /\ Flags
    BY <1>1, <1>4, FS_EmptySet DEF Owned, Flags
  <2>3. QED
    BY <1>4, <2>1, <2>2 DEF BufferInv, Held
<1>6. Unfilled /\ Emptied
  BY <1>1, <1>4 DEF Unfilled, Emptied
<1>7. Usable
  BY <1>1, AllocatedAre DEF Usable
<1>8. Population
  BY <1>1, AllocatedAre DEF Population, Empty, Ports, Buffers
<1>9. QED
  BY <1>1, <1>2, <1>3, <1>5, <1>6, <1>7, <1>8 DEF IInv

\* Every step of the client and of the two threads keeps it.
LEMMA NextIInv == IInv /\ [Next]_vars => IInv'
<1> SUFFICES ASSUME IInv, [Next]_vars PROVE IInv'
  OBVIOUS
<1>1. StateInv /\ ThreadInv /\ BufferInv /\ ThreadTyped
  BY DEF IInv, ThreadInv
<1>2. StateInv' /\ ThreadInv' /\ BufferInv' /\ late' \subseteq Buffers
  BY <1>1, NextState, NextThread, NextBuffer, NextLate DEF IInv
<1>3. Orderly => Unfilled' /\ Emptied'
  BY <1>1, NextUnfilled, NextEmptied DEF IInv
<1>4. OneByOne => Usable'
  BY <1>1, NextUsable DEF IInv
<1>5. Settled => Population'
  BY <1>1, NextPopulation DEF IInv
<1>6. QED
  BY <1>2, <1>3, <1>4, <1>5 DEF IInv, Orderly, Erring, OneByOne, Settled

\* It holds in every reachable state.
THEOREM Invariance == Spec => []IInv
BY InitIInv, NextIInv, PTL DEF Spec

\* Every variable has its type, whatever the client asks for: the semaphores stay
\* within their maxima, and each thread is where its code can be.
THEOREM TypeCorrect == Spec => []TypeOK
<1>1. IInv => TypeOK
  BY DEF IInv, StateInv, StateTyped, ThreadInv, ThreadTyped, BufferInv, BufferTyped, Waiting, TypeOK
<1>2. QED
  BY Invariance, <1>1, PTL

\* A queue that has each buffer once has as many as it has places.
LEMMA OutCounts ==
  ASSUME NEW s \in Seq(OutBufs), OnceOut(s)
  PROVE  Cardinality(Range(s)) = Len(s)
<1>1. s \in Injection(1..Len(s), Range(s)) /\ s \in Surjection(1..Len(s), Range(s))
  BY DEF Injection, Surjection, IsInjective, Range, OnceOut
<1>2. IsFiniteSet(1..Len(s)) /\ Cardinality(1..Len(s)) = Len(s)
  <2>1. Len(s) \in Nat
    OBVIOUS
  <2>2. QED
    BY <2>1, FS_Interval
<1>3. QED
  BY <1>1, <1>2, FS_Surjection

\* The same of the input queue, by the sequence of its buffers.
LEMMA InCounts ==
  ASSUME BufferInv
  PROVE  Cardinality(InHeld) = Len(inQueue)
<1> DEFINE s == [i \in 1..Len(inQueue) |-> inQueue[i].buf]
<1>1. inQueue \in Seq(Frames) /\ InOnce /\ Len(inQueue) \in Nat /\ DOMAIN inQueue = 1..Len(inQueue)
  BY BufferParts
<1>2. s \in Injection(1..Len(inQueue), InHeld) /\ s \in Surjection(1..Len(inQueue), InHeld)
  BY <1>1 DEF Injection, Surjection, IsInjective, InHeld, InOnce
<1>3. IsFiniteSet(1..Len(inQueue)) /\ Cardinality(1..Len(inQueue)) = Len(inQueue)
  BY <1>1, FS_Interval
<1>4. QED
  BY <1>2, <1>3, FS_Surjection

\* What the component holds is in one place of it and is its own, and in native
\* window mode curOutBuffers counts the flags (EmptyThisBuffer, FillThisBuffer,
\* the decoding, the flushes).
THEOREM BuffersAreOwnedOnce == Spec => []BufferOwnership
<1>1. IInv => BufferOwnership
  <2> SUFFICES ASSUME IInv PROVE BufferOwnership
    OBVIOUS
  <2>1. BufferInv
    BY DEF IInv
  <2>2. Cardinality(InHeld) = Len(inQueue)
    BY <2>1, InCounts
  <2>3. Cardinality(OutHeld) = IF bEnableThumbNailMode THEN Len(outQueue) ELSE curOutBuffers
    BY <2>1, BufferParts, HeldIs, OutCounts DEF OutHeld, Flags
  <2>4. QED
    BY <2>1, <2>2, <2>3, HeldIsOwned DEF BufferOwnership
<1>2. QED
  BY Invariance, <1>1, PTL

\* Executing -> Idle has returned every buffer before it stores the state, and
\* what the client passes until then is refused: a client told of Idle has all
\* but the late buffers, those accepted between the store and the event.
THEOREM IdleIsEmpty ==
  ASSUME Orderly
  PROVE  Spec => []IdleHoldsNothing
<1>1. IInv => IdleHoldsNothing
  BY DEF IInv, StateInv, Carried, Known, Misled, Emptied, IdleHoldsNothing
<1>2. QED
  BY Invariance, <1>1, PTL

\* Idle -> Executing and the enabling of a port wake the thread, whichever of its
\* tests it has passed: it never sleeps on hBufCtrlSem when it should run.
THEOREM ControlIsNotLost == Spec => []NoLostControl
<1>1. IInv => NoLostControl
  BY DEF IInv, ThreadInv, Posted, NoLostControl
<1>2. QED
  BY Invariance, <1>1, PTL

\* A thread told to pause or to exit finds a buffer change (the dummy one of
\* Executing -> Idle and Idle -> Loaded), and does not sleep on.
THEOREM StopsAreNoticed == Spec => []StopIsNoticed
<1>1. IInv => StopIsNoticed
  BY DEF IInv, ThreadInv, Posted
<1>2. QED
  BY Invariance, <1>1, PTL

\* Idle -> Loaded joins the thread before it destroys the semaphores.
THEOREM SemaphoresOutlive == Spec => []SemaphoresOutliveThread
<1>1. IInv => SemaphoresOutliveThread
  BY DEF IInv, ThreadInv, Posted
<1>2. QED
  BY Invariance, <1>1, PTL

\* When the thread is about to initialize the codec, the first outUsableBuffers of
\* the output buffers exist: InitializeCodaVpu registers no buffer that has been
\* freed, unless a late frame sets it off in an idle component.
THEOREM RegisteredBuffersExist ==
  ASSUME OneByOne
  PROVE  Spec => []RegistersExistingBuffers
<1>1. IInv => RegistersExistingBuffers
  <2> SUFFICES ASSUME IInv, CanDecode, ~(outUsableBuffers <= Cardinality(Allocated("out")))
               PROVE  eCurState = "Idle" /\ Head(inQueue).buf \in late
    BY DEF RegistersExistingBuffers
  <2>1. BufferInv /\ Emptied /\ Usable
    BY DEF IInv, OneByOne
  <2>2. eCurState = "Idle"
    BY <2>1 DEF Usable, Closing
  <2>3. Head(inQueue).buf \in InHeld
    BY <2>1, BufferParts, InTail, HeldIs DEF CanDecode
  <2>4. QED
    BY <2>1, <2>2, <2>3 DEF Emptied
<1>2. QED
  BY Invariance, <1>1, PTL

\* Idle -> Loaded waits until both ports have been emptied, and takes no count that
\* another population left behind.
THEOREM LoadedIsEmpty ==
  ASSUME Settled
  PROVE  Spec => []LoadedIsUnpopulated
<1>1. IInv => LoadedIsUnpopulated
  <2> SUFFICES ASSUME IInv, told = "Loaded", outstanding = 0
               PROVE  Empty("in") /\ Empty("out")
    BY DEF LoadedIsUnpopulated, Empty, Ports
  <2>1. StateInv /\ Population /\ Orderly
    BY DEF IInv, Settled
  <2>2. eCurState = "Loaded" /\ eNewState = "Loaded"
    BY <2>1 DEF StateInv, Carried, Known, Misled
  <2>3. QED
    BY <2>1, <2>2, PopulationParts
<1>2. QED
  BY Invariance, <1>1, PTL
=============================================================================
