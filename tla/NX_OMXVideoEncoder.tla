------------------------ MODULE NX_OMXVideoEncoder ------------------------
(* The OMX video encoder (omx/components/video/coda960_video_encoder): the   *)
(* client, the command thread and the encoding thread.  Unlike in the video  *)
(* decoder the command thread and the encoding thread both pend hBufCtrlSem, *)
(* so that semaphore is the one of NX_OMXSemaphore, condition variable       *)
(* included; the others have one pender each and are counts.  Each section   *)
(* under hBufMutex is one action.                                            *)
EXTENDS Integers, Sequences, FiniteSets, Functions

CONSTANTS
  InBufs, OutBufs,
  ChangeMax, AllocMax, Modulus,  \* semaphore maxima, and that of uint32
  EncodeFails,                   \* may the VPU, ion or mmap report an error
  PrefillsOutput,                \* until the sequence header is out, the client sends
                                 \* frames only, with every output buffer passed before
  CtrlCommands,                  \* commands that pend hBufCtrlSem the client sends
  ClientTransitions              \* the state changes the client asks for

ASSUME EncoderAssumption ==
  /\ InBufs \cap OutBufs = {}
  /\ ChangeMax \in Nat \ {0} /\ AllocMax \in Nat \ {0} /\ Modulus \in Nat /\ Modulus > 1
  /\ EncodeFails \in BOOLEAN /\ PrefillsOutput \in BOOLEAN
  /\ CtrlCommands \subseteq {"PortDisable", "PortEnable", "MarkBuffer"}

States == {"Loaded", "Idle", "Executing", "Pause"}

ASSUME ClientAssumption == ClientTransitions \subseteq States \X States

Buffers == InBufs \cup OutBufs
BufsOf(p) == IF p = "in" THEN InBufs ELSE OutBufs
NoSem == -1

VARIABLES
  told, outstanding,             \* client: reported state; has it an open command
  late,                          \* history: the buffers last accepted when eCurState was Idle
  owner,                         \* "none", "client", "comp"
  lost,                          \* history: buffers an error of EncodeFrame left behind
  returnedTwice,                 \* history: some buffer went to a client that had it
  eCurState, eNewState,
  hBufAllocSem, hBufChangeSem,
  hBufCtrlSem, ctrlPend,         \* nValue of the semaphore, and who waits in it
  inQueue, outQueue,
  bSendCodecSpecificInfo,        \* TRUE from the start: a codec without such information
  hVpuCodec, eCmdBufThread,
  cmd, cmdPc, bufPc

clientVars == <<told, outstanding, late>>
stateVars  == <<eCurState, eNewState, cmd>>
bufferVars == <<owner, lost, returnedTwice, inQueue, outQueue, bSendCodecSpecificInfo>>
ctrlVars   == <<hBufCtrlSem, ctrlPend>>
vars == <<clientVars, stateVars, bufferVars, ctrlVars, hBufAllocSem, hBufChangeSem, hVpuCodec,
          eCmdBufThread, cmdPc, bufPc>>

Ctrl == INSTANCE NX_OMXSemaphore WITH
          Threads <- {"command", "buffer"}, Posters <- {"command", "buffer"},
          nMaxValue <- 1, nValue <- hBufCtrlSem, pend <- ctrlPend

Mut_PostUnbounded(value, max) == value + 1
Post(value, max) == IF value >= max THEN value ELSE value + 1
Queued == {inQueue[i].buf : i \in DOMAIN inQueue} \cup Range(outQueue)
Allocated(p) == {b \in BufsOf(p) : owner[b] # "none"}
Returned(bufs) == [b \in Buffers |-> IF b \in bufs THEN "client" ELSE owner[b]]

-----------------------------------------------------------------------------
Init ==
  /\ told = "Loaded" /\ outstanding = FALSE /\ late = {}
  /\ owner = [b \in Buffers |-> "none"] /\ lost = {} /\ returnedTwice = FALSE
  /\ eCurState = "Loaded" /\ eNewState = "Loaded"
  /\ hBufAllocSem = 0 /\ hBufChangeSem = NoSem
  /\ hBufCtrlSem = 0 /\ ctrlPend = [t \in {"command", "buffer"} |-> "no"]
  /\ inQueue = << >> /\ outQueue = << >>
  /\ bSendCodecSpecificInfo \in BOOLEAN
  /\ hVpuCodec = FALSE /\ eCmdBufThread = "PAUSE"
  /\ cmd = "none" /\ cmdPc = "wait" /\ bufPc = "none"

-----------------------------------------------------------------------------
(* The client.                                                               *)

\* NX_BaseSendCommand.
Send(c) ==
  /\ ~outstanding /\ outstanding' = TRUE
  /\ cmd' = c /\ cmdPc' = "exec"
  /\ eNewState' = IF c \in States THEN c ELSE eNewState
  /\ UNCHANGED <<told, late, eCurState, bufferVars, ctrlVars, hBufAllocSem, hBufChangeSem,
                 hVpuCodec, eCmdBufThread, bufPc>>

ClientSends ==
  \/ \E s \in States : /\ <<told, s>> \in ClientTransitions
                       /\ told = "Loaded" => \A b \in Buffers : owner[b] = "none"
                       /\ Send(s)
  \/ told = "Executing" /\ \E c \in {"FlushIn", "FlushAll"} : Send(c)
  \/ /\ told = "Executing"
     /\ PrefillsOutput => bSendCodecSpecificInfo
     /\ Send("FlushOut")
  \/ told = "Executing" /\ \E c \in CtrlCommands : Send(c)

\* NX_VidEncUseBuffer, NX_BaseAllocateBuffer: both only while Loaded -> Idle.
UseBuffer(p, b) ==
  /\ eCurState = "Loaded" /\ eNewState = "Idle"
  /\ owner[b] = "none"
  /\ owner' = [owner EXCEPT ![b] = "client"]
  /\ hBufAllocSem' = IF Allocated(p) \cup {b} = BufsOf(p) THEN Post(hBufAllocSem, AllocMax)
                     ELSE hBufAllocSem
  /\ UNCHANGED <<clientVars, stateVars, lost, returnedTwice, inQueue, outQueue,
                 bSendCodecSpecificInfo, ctrlVars, hBufChangeSem, hVpuCodec, eCmdBufThread, cmdPc,
                 bufPc>>

\* NX_BaseFreeBuffer.
FreeBuffer(p, b) ==
  /\ eNewState = "Loaded"
  /\ owner[b] = "client"
  /\ owner' = [owner EXCEPT ![b] = "none"]
  /\ hBufAllocSem' = IF Allocated(p) = {b} THEN Post(hBufAllocSem, AllocMax) ELSE hBufAllocSem
  /\ UNCHANGED <<clientVars, stateVars, lost, returnedTwice, inQueue, outQueue,
                 bSendCodecSpecificInfo, ctrlVars, hBufChangeSem, hVpuCodec, eCmdBufThread, cmdPc,
                 bufPc>>

ClientAllocates == \E p \in {"in", "out"} : \E b \in BufsOf(p) : UseBuffer(p, b)
ClientFrees     == \E p \in {"in", "out"} : \E b \in BufsOf(p) : FreeBuffer(p, b)

Mut_AcceptsByCurrentState == eCurState \in {"Idle", "Pause", "Executing"}
\* The state test of NX_BaseEmptyThisBuffer and NX_BaseFillThisBuffer.
AcceptsBuffers ==
  IF eCurState = eNewState THEN eCurState \in {"Idle", "Pause", "Executing"}
  ELSE ~(eNewState = "Idle" /\ eCurState \in {"Executing", "Pause"})

\* The window that late is about: a StateSet to Idle has stored eCurState, and
\* its event has not reached the client yet.  What passes the test there stays
\* in a component that has already given back all it held.
Accepted(b) == late' = IF eCurState = "Idle" THEN late \cup {b} ELSE late \ {b}

\* The client passes buffers once it has been told that the component executes.
\* (To a component whose EncoderOpen failed it passes none: there is no
\* semaphore, and NX_PostSem would abort on its assertion.)
Passes(b) == /\ told \in {"Executing", "Pause"}
             /\ eCurState # "Loaded"
             /\ owner[b] = "client"
             /\ AcceptsBuffers
             /\ owner' = [owner EXCEPT ![b] = "comp"]
             /\ hBufChangeSem' = Post(hBufChangeSem, ChangeMax)
             /\ Accepted(b)
             /\ UNCHANGED <<told, outstanding, stateVars, lost, returnedTwice,
                            bSendCodecSpecificInfo, ctrlVars, hBufAllocSem, hVpuCodec,
                            eCmdBufThread, cmdPc, bufPc>>

NX_BaseEmptyThisBuffer(b, eos) ==
  /\ PrefillsOutput /\ ~bSendCodecSpecificInfo => ~eos /\ Range(outQueue) = OutBufs
  /\ Passes(b)
  /\ inQueue' = Append(inQueue, [buf |-> b, eos |-> eos])
  /\ UNCHANGED outQueue

NX_BaseFillThisBuffer(b) ==
  /\ Passes(b)
  /\ outQueue' = Append(outQueue, b)
  /\ UNCHANGED inQueue

Client == \/ ClientSends \/ ClientAllocates \/ ClientFrees
          \/ \E b \in InBufs, eos \in BOOLEAN : NX_BaseEmptyThisBuffer(b, eos)
          \/ \E b \in OutBufs : NX_BaseFillThisBuffer(b)

-----------------------------------------------------------------------------
(* The command thread: NX_VidEncCommandProc, NX_VidEncStateTransition.       *)

Exec(c) == cmdPc = "exec" /\ cmd = c

\* The event at the end of the command: a StateSet reports the state asked for.
Answer == /\ outstanding' = FALSE /\ cmdPc' = "wait"
          /\ told' = IF cmd \in States THEN cmd ELSE told
          /\ UNCHANGED <<late, eNewState, cmd>>

\* SendEvent at the end of NX_VidEncCommandProc, for a StateSet that has stored
\* the new state some steps earlier.  The other commands change nothing that is
\* shared between their last step and the event, and answer in that step.
SendEvent ==
  /\ cmdPc = "event"
  /\ Answer
  /\ UNCHANGED <<eCurState, bufferVars, ctrlVars, hBufAllocSem, hBufChangeSem, hVpuCodec,
                 eCmdBufThread, bufPc>>

\* The transitions of NX_VidEncStateTransition that only store the state.
StoredOnly == {<<"Idle", "Pause">>, <<"Executing", "Pause">>, <<"Pause", "Executing">>,
               <<"Pause", "Idle">>}
Handled == StoredOnly \cup {<<"Loaded", "Idle">>, <<"Idle", "Loaded">>, <<"Idle", "Executing">>,
                            <<"Executing", "Idle">>}

\* The error of any other transition is not looked at, and the state asked for
\* is reported; only a change to the current state is reported as an error.
RefuseTransition ==
  /\ \E s \in States : Exec(s) /\ <<eCurState, s>> \notin Handled
  /\ outstanding' = FALSE /\ cmdPc' = "wait"
  /\ told' = IF cmd = eCurState THEN told ELSE cmd
  /\ UNCHANGED <<late, stateVars, bufferVars, ctrlVars, hBufAllocSem, hBufChangeSem, hVpuCodec,
                 eCmdBufThread, bufPc>>

\* PendSem( hBufAllocSem ) once per port.
PendAlloc ==
  /\ hBufAllocSem > 0 /\ hBufAllocSem' = hBufAllocSem - 1
  /\ \/ Exec("Idle") /\ eCurState = "Loaded" /\ cmdPc' = "alloc"
     \/ cmdPc = "alloc" /\ cmdPc' = "open"
     \/ cmdPc = "free" /\ cmdPc' = "free2"
     \/ cmdPc = "free2" /\ cmdPc' = "loaded"
  /\ UNCHANGED <<clientVars, stateVars, bufferVars, ctrlVars, hBufChangeSem, hVpuCodec,
                 eCmdBufThread, bufPc>>

\* EncoderOpen fails: the transition is given up, and answered all the same.
EncoderOpenFails ==
  /\ EncodeFails /\ cmdPc = "open"
  /\ hVpuCodec' \in BOOLEAN
  /\ Answer
  /\ UNCHANGED <<eCurState, bufferVars, ctrlVars, hBufAllocSem, hBufChangeSem, eCmdBufThread,
                 bufPc>>

\* EncoderOpen, and the semaphores and the thread are created.
EncoderOpen ==
  /\ cmdPc = "open"
  /\ hVpuCodec' = TRUE
  /\ eCmdBufThread' = "PAUSE"
  /\ hBufCtrlSem' = 0 /\ ctrlPend' = [t \in {"command", "buffer"} |-> "no"]
  /\ hBufChangeSem' = 0
  /\ bufPc' = "start"
  /\ cmdPc' = "created"
  /\ UNCHANGED <<clientVars, stateVars, bufferVars, hBufAllocSem>>

\* "Wait thread creation": PendSem( hBufCtrlSem ).  The commands about ports
\* and marks use the same semaphore as a lock.
PendCtrl ==
  /\ \/ cmdPc = "created" /\ cmdPc' = IF hBufCtrlSem = 0 THEN "created_wait" ELSE "idle"
     \/ \E c \in CtrlCommands : /\ Exec(c)
                                /\ cmdPc' = IF hBufCtrlSem = 0 THEN "lock_wait" ELSE "unlock"
  /\ Ctrl!NX_PendSem("command")
  /\ UNCHANGED <<clientVars, stateVars, bufferVars, hBufAllocSem, hBufChangeSem, hVpuCodec,
                 eCmdBufThread, bufPc>>

WakeCtrl ==
  /\ \/ cmdPc = "created_wait" /\ cmdPc' = "idle"
     \/ cmdPc = "lock_wait" /\ cmdPc' = "unlock"
  /\ Ctrl!Wake("command")
  /\ UNCHANGED <<clientVars, stateVars, bufferVars, hBufAllocSem, hBufChangeSem, hVpuCodec,
                 eCmdBufThread, bufPc>>

UnlockCtrl ==
  /\ cmdPc = "unlock"
  /\ Ctrl!NX_PostSem
  /\ Answer
  /\ UNCHANGED <<eCurState, bufferVars, hBufAllocSem, hBufChangeSem, hVpuCodec, eCmdBufThread,
                 bufPc>>

\* The state is stored: Loaded -> Idle, Executing -> Idle, Idle -> Loaded.  After
\* Executing -> Idle a client that still knows the component to be executing can
\* have buffers accepted that nobody returns.
Settle ==
  /\ \/ cmdPc \in {"idle", "settle"} /\ eCurState' = "Idle"
     \/ cmdPc = "loaded" /\ eCurState' = "Loaded"
  /\ cmdPc' = "event"
  /\ UNCHANGED <<clientVars, eNewState, cmd, bufferVars, ctrlVars, hBufAllocSem, hBufChangeSem,
                 hVpuCodec, eCmdBufThread, bufPc>>

IdleToExecuting ==
  /\ Exec("Executing") /\ eCurState = "Idle"
  /\ eCmdBufThread' = "RUN"
  /\ Ctrl!NX_PostSem
  /\ eCurState' = "Executing"
  /\ late' = {}
  /\ cmdPc' = "event"
  /\ UNCHANGED <<told, outstanding, eNewState, cmd, bufferVars, hBufAllocSem, hBufChangeSem,
                 hVpuCodec, bufPc>>

PauseTransitions ==
  /\ \E s \in States : Exec(s) /\ <<eCurState, s>> \in StoredOnly
  /\ eCurState' = cmd
  /\ cmdPc' = "event"
  /\ UNCHANGED <<clientVars, eNewState, cmd, bufferVars, ctrlVars, hBufAllocSem, hBufChangeSem,
                 hVpuCodec, eCmdBufThread, bufPc>>

Mut_ExecutingToIdleNoDummy ==
  /\ Exec("Idle") /\ eCurState = "Executing"
  /\ eCmdBufThread' = "PAUSE"
  /\ cmdPc' = "return"
  /\ UNCHANGED <<clientVars, stateVars, bufferVars, ctrlVars, hBufAllocSem, hBufChangeSem,
                 hVpuCodec, bufPc>>
\* Executing -> Idle: stop the thread ...
ExecutingToIdle ==
  /\ Exec("Idle") /\ eCurState = "Executing"
  /\ eCmdBufThread' = "PAUSE"
  /\ hBufChangeSem' = Post(hBufChangeSem, ChangeMax)
  /\ cmdPc' = "return"
  /\ UNCHANGED <<clientVars, stateVars, bufferVars, ctrlVars, hBufAllocSem, hVpuCodec, bufPc>>

\* What OMX_CommandFlush and Executing -> Idle return.
Mut_FlushedInputOnly == IF cmd = "FlushOut" THEN {} ELSE {"in"}
FlushedPorts == CASE cmd = "FlushIn" -> {"in"}
                  [] cmd = "FlushOut" -> {"out"}
                  [] OTHER -> {"in", "out"}
Flushed == {inQueue[i].buf : i \in {j \in DOMAIN inQueue : "in" \in FlushedPorts}}
           \cup {b \in Range(outQueue) : "out" \in FlushedPorts}

\* ... and return what the queues hold, under hBufMutex.
ReturnBuffers ==
  /\ \/ cmdPc = "return" /\ cmdPc' = "settle" /\ UNCHANGED <<clientVars, eNewState, cmd>>
     \/ (\E c \in {"FlushIn", "FlushOut", "FlushAll"} : Exec(c)) /\ Answer
  /\ owner' = Returned(Flushed)
  /\ inQueue' = IF "in" \in FlushedPorts THEN << >> ELSE inQueue
  /\ outQueue' = IF "out" \in FlushedPorts THEN << >> ELSE outQueue
  /\ UNCHANGED <<eCurState, lost, returnedTwice, bSendCodecSpecificInfo, ctrlVars, hBufAllocSem,
                 hBufChangeSem, hVpuCodec, eCmdBufThread, bufPc>>

\* Idle -> Loaded: EncoderClose, tell the thread to exit ...
IdleToLoaded ==
  /\ Exec("Loaded") /\ eCurState = "Idle"
  /\ hVpuCodec' = FALSE
  /\ eCmdBufThread' = "EXIT"
  /\ hBufChangeSem' = Post(hBufChangeSem, ChangeMax)
  /\ Ctrl!NX_PostSem
  /\ cmdPc' = "join"
  /\ UNCHANGED <<clientVars, stateVars, bufferVars, hBufAllocSem, bufPc>>

\* ... join it, and destroy the semaphores.
JoinBufThread ==
  /\ cmdPc = "join" /\ bufPc = "exited"
  /\ bufPc' = "none" /\ cmdPc' = "free"
  /\ hBufChangeSem' = NoSem
  /\ UNCHANGED <<clientVars, stateVars, bufferVars, ctrlVars, hBufAllocSem, hVpuCodec,
                 eCmdBufThread>>

CommandThread ==
  \/ RefuseTransition \/ PendAlloc \/ EncoderOpenFails \/ EncoderOpen \/ PendCtrl \/ WakeCtrl
  \/ UnlockCtrl \/ Settle \/ SendEvent \/ IdleToExecuting \/ PauseTransitions \/ ExecutingToIdle
  \/ ReturnBuffers \/ IdleToLoaded \/ JoinBufThread

-----------------------------------------------------------------------------
(* The encoding thread: NX_VidEncBufferMgmtThread.                           *)

\* "Thread Creation Semaphore".
BufStart ==
  /\ bufPc = "start" /\ bufPc' = "test"
  /\ Ctrl!NX_PostSem
  /\ UNCHANGED <<clientVars, stateVars, bufferVars, hBufAllocSem, hBufChangeSem, hVpuCodec,
                 eCmdBufThread, cmdPc>>

\* The tests of the loops, and the one after the buffer change.
BufTest ==
  /\ \/ bufPc = "test" /\ bufPc' = IF eCmdBufThread = "EXIT" THEN "exited" ELSE "ctrl"
     \/ bufPc = "inner" /\ bufPc' = IF eCmdBufThread = "RUN" THEN "change" ELSE "test"
     \/ bufPc = "check" /\ bufPc' = IF eCmdBufThread = "RUN" THEN "encode" ELSE "test"
  /\ UNCHANGED <<clientVars, stateVars, bufferVars, ctrlVars, hBufAllocSem, hBufChangeSem,
                 hVpuCodec, eCmdBufThread, cmdPc>>

\* "Thread Control Semaphore".
BufPendCtrl ==
  /\ \/ /\ bufPc = "ctrl" /\ bufPc' = IF hBufCtrlSem = 0 THEN "ctrl_wait" ELSE "inner"
        /\ Ctrl!NX_PendSem("buffer")
     \/ /\ bufPc = "ctrl_wait" /\ bufPc' = "inner"
        /\ Ctrl!Wake("buffer")
  /\ UNCHANGED <<clientVars, stateVars, bufferVars, hBufAllocSem, hBufChangeSem, hVpuCodec,
                 eCmdBufThread, cmdPc>>

BufPendChange ==
  /\ bufPc = "change" /\ hBufChangeSem > 0
  /\ hBufChangeSem' = hBufChangeSem - 1
  /\ bufPc' = "check"
  /\ UNCHANGED <<clientVars, stateVars, bufferVars, ctrlVars, hBufAllocSem, hVpuCodec,
                 eCmdBufThread, cmdPc>>

Mut_EncodeEosKeepsOutput == /\ Head(inQueue).eos
                            /\ outQueue' = Tail(outQueue)
                            /\ owner' = Returned({Head(inQueue).buf})
                            /\ UNCHANGED <<lost, returnedTwice, bSendCodecSpecificInfo>>
\* EncodeFrame pops an input; an end of stream gives an empty output.
EncodeEos == /\ Head(inQueue).eos
             /\ outQueue' = Tail(outQueue)
             /\ owner' = Returned({Head(inQueue).buf, Head(outQueue)})
             /\ UNCHANGED <<lost, returnedTwice, bSendCodecSpecificInfo>>

\* It returns an error before it pops an output: the input stays behind.
EncodeGivesUp == /\ EncodeFails /\ ~Head(inQueue).eos
                 /\ lost' = lost \cup {Head(inQueue).buf}
                 /\ UNCHANGED <<owner, outQueue, returnedTwice, bSendCodecSpecificInfo>>

\* The first output carries the sequence header, and the frame is for the next
\* one.  If there is no next one the pop fails and pOutBuf is still the first.
\* NX_VidEncEncodeFrame may fail after that.
EncodeOutput ==
  LET first == Head(outQueue)
      dsi   == ~bSendCodecSpecificInfo
      alone == dsi /\ Len(outQueue) = 1
      frame == IF dsi /\ ~alone THEN outQueue[2] ELSE first
      gone  == IF dsi THEN {first} ELSE {}
  IN /\ ~Head(inQueue).eos
     /\ outQueue' = IF dsi /\ ~alone THEN Tail(Tail(outQueue)) ELSE Tail(outQueue)
     /\ bSendCodecSpecificInfo' = TRUE
     /\ \/ /\ owner' = Returned(gone \cup {frame, Head(inQueue).buf})
           /\ returnedTwice' = (returnedTwice \/ alone)
           /\ UNCHANGED lost
        \/ /\ EncodeFails
           /\ owner' = Returned(gone)
           /\ lost' = lost \cup ({frame, Head(inQueue).buf} \ gone)
           /\ UNCHANGED returnedTwice

BufEncode ==
  /\ bufPc = "encode" /\ bufPc' = "inner"
  /\ IF inQueue # << >> /\ outQueue # << >>
     THEN /\ inQueue' = Tail(inQueue)
          /\ EncodeEos \/ EncodeGivesUp \/ EncodeOutput
     ELSE UNCHANGED bufferVars
  /\ UNCHANGED <<clientVars, stateVars, ctrlVars, hBufAllocSem, hBufChangeSem, hVpuCodec,
                 eCmdBufThread, cmdPc>>

BufThread == BufStart \/ BufTest \/ BufPendCtrl \/ BufPendChange \/ BufEncode

-----------------------------------------------------------------------------
Next == Client \/ CommandThread \/ BufThread

Spec == Init /\ [][Next]_vars

\* Both threads are scheduled and the client populates and empties its ports.
FairSpec == Spec /\ WF_vars(CommandThread) /\ WF_vars(BufThread)
                 /\ WF_vars(ClientAllocates) /\ WF_vars(ClientFrees)

-----------------------------------------------------------------------------
TypeOK ==
  /\ told \in States /\ eCurState \in States /\ eNewState \in States
  /\ late \subseteq Buffers
  /\ owner \in [Buffers -> {"none", "client", "comp"}]
  /\ hBufAllocSem \in 0..AllocMax /\ hBufChangeSem \in NoSem..ChangeMax
  /\ Ctrl!TypeOK
  /\ Range(outQueue) \subseteq OutBufs
  /\ eCmdBufThread \in {"RUN", "PAUSE", "EXIT"}

\* Every buffer the component was given and has not given back is in one of its
\* queues, once, unless EncodeFrame failed on it; no buffer goes to a client
\* that has it.  A thread that runs on after a flush, and EncodeFrame with its
\* two pops for a sequence header, use no buffer that was returned.
BufferOwnership ==
  /\ Queued \cup lost = {b \in Buffers : owner[b] = "comp"}
  /\ Len(inQueue) + Len(outQueue) = Cardinality(Queued \ lost)
  /\ ~returnedTwice

\* A client that was told of Idle has all the buffers EncodeFrame has not lost,
\* and what it passed until the state changed was refused; only the late ones,
\* passed between the change and its event, stay in the component.
IdleHoldsNothing ==
  told = "Idle" /\ ~outstanding => Queued \subseteq late

\* EncoderClose comes before the thread is told to exit: even so, a thread that
\* is about to encode a frame has an open codec, unless the frame came late.
EncodesWithCodec ==
  bufPc = "encode" /\ inQueue # << >> /\ outQueue # << >>
  => hVpuCodec \/ Head(inQueue).buf \in late

\* A thread that must stop does not sleep on the buffer change semaphore.
StopIsNoticed == bufPc = "change" /\ eCmdBufThread # "RUN" => hBufChangeSem > 0

\* "Wait thread creation": a Loaded -> Idle that has created the thread
\* completes.
CreationCompletes == (cmdPc = "created") ~> (eCurState = "Idle")
=============================================================================
