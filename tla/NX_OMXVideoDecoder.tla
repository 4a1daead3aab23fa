------------------------ MODULE NX_OMXVideoDecoder ------------------------
(* The OMX video decoder component (omx/components/video/                    *)
(* coda960_video_decoder/NX_OMXVideoDecoder.c on top of omx/components/base) *)
(* as three threads that share its structure: the IL client that calls the   *)
(* component's methods, the command thread (NX_BaseCommandThread) that       *)
(* executes the commands it sends, and the buffer management thread that     *)
(* decodes.  hBufMutex is not a variable: every section it protects is one   *)
(* action, except that of the buffer thread, which holds it while bufPc is   *)
(* in Locked.  The semaphores are counting semaphores (NX_OMXSemaphore).     *)
EXTENDS Integers, Sequences, FiniteSets, Functions

CONSTANTS
  InBufs, OutBufs,       \* buffer headers of the two ports (nBufferCountActual)
  MinBuffers,            \* seqOut.minBuffers of the stream
  ChangeMax, AllocMax,   \* nMaxValue of hBufChangeSem (2*1024), hBufAllocSem (16)
  Modes,                 \* the values of bEnableThumbNailMode a client sets
  ClientTransitions,     \* the state changes the client asks for
  FlushArgs, PortArgs,   \* the ports it flushes, and disables and enables
  Reconfigures           \* may the stream ask for new output buffers

Ports     == {"in", "out"}
States    == {"Loaded", "Idle", "Executing", "Pause"}
NoSem     == -1          \* a semaphore handle that is NULL
Buffers   == InBufs \cup OutBufs
BufsOf(p) == IF p = "in" THEN InBufs ELSE OutBufs
None      == [cmd |-> "none", arg |-> "none"]

ASSUME DecoderAssumption ==
  /\ IsFiniteSet(InBufs) /\ IsFiniteSet(OutBufs) /\ InBufs \cap OutBufs = {}
  /\ MinBuffers \in Nat \ {0} /\ ChangeMax \in Nat \ {0} /\ AllocMax \in Nat \ {0}
  /\ Modes \subseteq BOOLEAN /\ Modes # {} /\ Reconfigures \in BOOLEAN
  /\ ClientTransitions \subseteq States \X States
  /\ FlushArgs \subseteq Ports \cup {"all"} /\ PortArgs \subseteq Ports \cup {"all"}

VARIABLES
  told,                  \* client: the state the last completed StateSet reported
  outstanding,           \* client: its commands that have not been answered
  asked,                 \* client: the output port must be reconfigured
  late,                  \* history: the buffers last accepted when eCurState was Idle
  owner,                 \* who holds each buffer: "none" (not allocated), "client", "comp"
  eCurState, eNewState, cmdQueue, bEnabled,
  bEnableThumbNailMode,  \* output through a queue instead of native windows
  hBufAllocSem, hBufCtrlSem, hBufChangeSem,
  inQueue,               \* pInputPortQueue: records [buf, eos]
  outQueue,              \* pOutputPortQueue (thumbnail mode)
  outBufferUseFlag,      \* native mode: the output buffers with the flag set
  curOutBuffers, outUsableBuffers, minRequiredFrameBuffer,
  bStartEoS, bInitialized, bInterlaced,
  hVpuCodec, DecodeFrame,  \* is the handle, the function pointer, not NULL
  eCmdBufThread,         \* "RUN", "PAUSE", "EXIT"
  cmd, cmdPc,            \* command thread: the command it executes, and where
  bufPc                  \* buffer thread

clientVars == <<told, outstanding, asked, late>>
portVars   == <<bEnabled, hBufAllocSem, outUsableBuffers>>
queueVars  == <<inQueue, outQueue, outBufferUseFlag, curOutBuffers, bStartEoS>>
codecVars  == <<minRequiredFrameBuffer, bInitialized, bInterlaced, hVpuCodec, DecodeFrame>>
semVars    == <<hBufCtrlSem, hBufChangeSem>>
vars == <<clientVars, owner, bEnableThumbNailMode, eCurState, eNewState, cmdQueue, portVars, semVars,
          queueVars, codecVars, eCmdBufThread, cmd, cmdPc, bufPc>>

-----------------------------------------------------------------------------
(* Helpers                                                                   *)

Mut_PostUnbounded(value, max) == value + 1
\* NX_PostSem: the count saturates at nMaxValue.
Post(value, max) == IF value >= max THEN value ELSE value + 1

\* The buffer headers of a port that exist (nAllocatedBuf of them).
Allocated(p) == {b \in BufsOf(p) : owner[b] # "none"}

\* The buffer thread is inside pthread_mutex_lock .. unlock.
Locked == {"decode", "eos"}
MutexFree == bufPc \notin Locked

InHeld  == {inQueue[i].buf : i \in DOMAIN inQueue}
OutHeld == IF bEnableThumbNailMode THEN Range(outQueue) ELSE outBufferUseFlag

\* The test that guards decoding and the EOS processing.
OutAvailable == IF bEnableThumbNailMode THEN outQueue # << >>
                ELSE curOutBuffers > minRequiredFrameBuffer

\* EmptyBufferDone or FillBufferDone for every buffer of a set.
Returned(bufs) == [b \in Buffers |-> IF b \in bufs THEN "client" ELSE owner[b]]

-----------------------------------------------------------------------------
(* NX_VideoDecoder_ComponentInit: the state a client finds.                  *)
Init ==
  /\ told = "Loaded" /\ outstanding = 0 /\ asked = FALSE /\ late = {}
  /\ owner = [b \in Buffers |-> "none"]
  /\ eCurState = "Loaded" /\ eNewState = "Loaded"
  /\ cmdQueue = << >>
  /\ bEnabled = [p \in Ports |-> TRUE] /\ bEnableThumbNailMode \in Modes
  /\ hBufAllocSem = 0 /\ hBufCtrlSem = NoSem /\ hBufChangeSem = NoSem
  /\ inQueue = << >> /\ outQueue = << >>
  /\ outBufferUseFlag = {} /\ curOutBuffers = 0
  /\ outUsableBuffers = 0 /\ minRequiredFrameBuffer = 1
  /\ bStartEoS = FALSE /\ bInitialized = FALSE /\ bInterlaced = FALSE
  /\ hVpuCodec = FALSE /\ DecodeFrame = FALSE
  /\ eCmdBufThread = "PAUSE"
  /\ cmd = None /\ cmdPc = "wait" /\ bufPc = "none"

-----------------------------------------------------------------------------
(* The IL client.  It sends one command at a time, passes buffers while it   *)
(* knows the component to be executing (or paused), and frees only buffers   *)
(* it holds.                                                                 *)

\* NX_BaseSendCommand: eNewState changes in the client's own thread.
NX_BaseSendCommand(c) ==
  /\ outstanding = 0
  /\ outstanding' = 1
  /\ eNewState' = IF c.cmd = "StateSet" THEN c.arg ELSE eNewState
  /\ cmdQueue' = Append(cmdQueue, c)
  /\ UNCHANGED <<bEnableThumbNailMode, told, asked, late, owner, eCurState, portVars, semVars,
                 queueVars, codecVars, eCmdBufThread, cmd, cmdPc, bufPc>>

PortsOf(arg) == IF arg = "all" THEN Ports ELSE {arg}

\* The client asks for a new state once it has done its own part of the last
\* one: it has freed its buffers, or populated the enabled ports.
ClientReady ==
  /\ told = "Loaded" => \A b \in Buffers : owner[b] = "none"
  /\ told \in {"Idle", "Executing"} => \A p \in Ports : bEnabled[p] => Allocated(p) = BufsOf(p)

\* What the client asks for, and when: it enables a port again once it has
\* freed the buffers of it.
ClientSends ==
  \/ \E s \in States : /\ <<told, s>> \in ClientTransitions
                       /\ ClientReady
                       /\ NX_BaseSendCommand([cmd |-> "StateSet", arg |-> s])
  \/ \E a \in FlushArgs : /\ told = "Executing"
                          /\ NX_BaseSendCommand([cmd |-> "Flush", arg |-> a])
  \/ \E a \in PortArgs : /\ told = "Executing"
                         /\ (\A p \in PortsOf(a) : bEnabled[p]) \/ (asked /\ a = "out")
                         /\ NX_BaseSendCommand([cmd |-> "PortDisable", arg |-> a])
  \/ \E a \in PortArgs : /\ told = "Executing" /\ ~asked
                         /\ \A p \in PortsOf(a) : ~bEnabled[p] /\ Allocated(p) = {}
                         /\ NX_BaseSendCommand([cmd |-> "PortEnable", arg |-> a])

\* OMX_IndexEnableAndroidNativeBuffers and OMX_IndexVideoDecoderThumbnailMode of
\* NX_VidDec_SetParameter, which a client uses while it knows the component to
\* be loaded.
ClientSetsMode ==
  /\ told = "Loaded" /\ outstanding = 0 /\ \A b \in Buffers : owner[b] = "none"
  /\ bEnableThumbNailMode' \in Modes \ {bEnableThumbNailMode}
  /\ UNCHANGED <<clientVars, owner, eCurState, eNewState, cmdQueue, portVars, semVars, queueVars,
                 codecVars, eCmdBufThread, cmd, cmdPc, bufPc>>

\* NX_VidDec_UseBuffer: the header of an empty place is created; the last one
\* populates the port.
NX_VidDec_UseBuffer(p, b) ==
  /\ eNewState \in {"Idle", "Executing"}
  /\ owner[b] = "none"
  /\ owner' = [owner EXCEPT ![b] = "client"]
  /\ outUsableBuffers' = IF p = "out" THEN outUsableBuffers + 1 ELSE outUsableBuffers
  /\ hBufAllocSem' = IF Allocated(p) \cup {b} = BufsOf(p) THEN Post(hBufAllocSem, AllocMax)
                     ELSE hBufAllocSem
  /\ UNCHANGED <<bEnableThumbNailMode, clientVars, eCurState, eNewState, cmdQueue, bEnabled,
                 semVars, queueVars, codecVars, eCmdBufThread, cmd, cmdPc, bufPc>>

\* NX_VidDec_AllocateBuffer: the same for buffers of the component's own memory;
\* it is for the first population only and does not count usable buffers.
NX_VidDec_AllocateBuffer(p, b) ==
  /\ eCurState = "Loaded" /\ eNewState = "Idle"
  /\ owner[b] = "none"
  /\ owner' = [owner EXCEPT ![b] = "client"]
  /\ hBufAllocSem' = IF Allocated(p) \cup {b} = BufsOf(p) THEN Post(hBufAllocSem, AllocMax)
                     ELSE hBufAllocSem
  /\ UNCHANGED <<bEnableThumbNailMode, clientVars, eCurState, eNewState, cmdQueue, bEnabled,
                 outUsableBuffers, semVars, queueVars, codecVars, eCmdBufThread, cmd, cmdPc,
                 bufPc>>

\* NX_VidDec_FreeBuffer: the last one empties the port.
NX_VidDec_FreeBuffer(p, b) ==
  /\ owner[b] = "client"
  /\ owner' = [owner EXCEPT ![b] = "none"]
  /\ hBufAllocSem' = IF Allocated(p) = {b} THEN Post(hBufAllocSem, AllocMax) ELSE hBufAllocSem
  /\ UNCHANGED <<bEnableThumbNailMode, clientVars, eCurState, eNewState, cmdQueue, bEnabled,
                 outUsableBuffers, semVars, queueVars, codecVars, eCmdBufThread, cmd, cmdPc,
                 bufPc>>

ClientAllocates ==
  \E p \in Ports : \E b \in BufsOf(p) :
    /\ bEnabled[p]
    /\ \/ told \in {"Loaded", "Idle"} /\ eNewState = "Idle"
       \/ told = "Executing" /\ outstanding = 0
    /\ \/ NX_VidDec_UseBuffer(p, b)
       \/ (p = "in" \/ bEnableThumbNailMode) /\ NX_VidDec_AllocateBuffer(p, b)

ClientFrees ==
  \E p \in Ports : \E b \in BufsOf(p) :
    /\ \/ eNewState = "Loaded"
       \/ told = "Executing" /\ ~bEnabled[p] /\ ~asked /\ outstanding = 0
    /\ NX_VidDec_FreeBuffer(p, b)

Mut_AcceptsByCurrentState == eCurState \in {"Idle", "Pause", "Executing"}
\* The state test shared by NX_BaseEmptyThisBuffer and NX_VidDec_FillThisBuffer.
AcceptsBuffers ==
  IF eCurState = eNewState THEN eCurState \in {"Idle", "Pause", "Executing"}
  ELSE ~(eNewState = "Idle" /\ eCurState \in {"Executing", "Pause"})

\* The client's own rule on when it passes a buffer of a port: it may still do
\* so while a command it sent is executed.
ClientPasses(p) == /\ told \in {"Executing", "Pause"}
                   /\ bEnabled[p]

\* The window that late is about: a StateSet to Idle has stored eCurState, and
\* its event has not reached the client yet.  What passes the test there stays
\* in a component that has already given back all it held.
Accepted(b) == late' = IF eCurState = "Idle" THEN late \cup {b} ELSE late \ {b}

\* NX_BaseEmptyThisBuffer: not under hBufMutex.
NX_BaseEmptyThisBuffer(b, eos) ==
  /\ ClientPasses("in")
  /\ owner[b] = "client"
  /\ AcceptsBuffers
  /\ inQueue' = Append(inQueue, [buf |-> b, eos |-> eos])
  /\ owner' = [owner EXCEPT ![b] = "comp"]
  /\ hBufChangeSem' = Post(hBufChangeSem, ChangeMax)
  /\ Accepted(b)
  /\ UNCHANGED <<bEnableThumbNailMode, told, outstanding, asked, eCurState, eNewState, cmdQueue,
                 portVars, hBufCtrlSem, outQueue, outBufferUseFlag, curOutBuffers, bStartEoS,
                 codecVars, eCmdBufThread, cmd, cmdPc, bufPc>>

NX_VidDec_FillThisBuffer(b) ==
  /\ ClientPasses("out")
  /\ owner[b] = "client"
  /\ MutexFree
  /\ AcceptsBuffers
  /\ IF bEnableThumbNailMode
     THEN /\ outQueue' = Append(outQueue, b)
          /\ UNCHANGED <<outBufferUseFlag, curOutBuffers>>
     ELSE /\ outBufferUseFlag' = outBufferUseFlag \cup {b}
          /\ curOutBuffers' = curOutBuffers + 1
          /\ UNCHANGED outQueue
  /\ owner' = [owner EXCEPT ![b] = "comp"]
  /\ hBufChangeSem' = Post(hBufChangeSem, ChangeMax)
  /\ Accepted(b)
  /\ UNCHANGED <<bEnableThumbNailMode, told, outstanding, asked, eCurState, eNewState, cmdQueue,
                 portVars, hBufCtrlSem, inQueue, bStartEoS, codecVars, eCmdBufThread, cmd, cmdPc,
                 bufPc>>

ClientPassesBuffers == \/ \E b \in InBufs, eos \in BOOLEAN : NX_BaseEmptyThisBuffer(b, eos)
                       \/ \E b \in OutBufs : NX_VidDec_FillThisBuffer(b)

-----------------------------------------------------------------------------
(* The command thread: NX_BaseCommandThread and NX_VidDec_CommandProc.       *)

StateSet(s) == cmdPc = "exec" /\ cmd = [cmd |-> "StateSet", arg |-> s]

\* The client learns that its command is done, a StateSet with its new state.
Answer == /\ outstanding' = 0
          /\ told' = IF cmd.cmd = "StateSet" THEN cmd.arg ELSE told
          /\ cmd' = None
          /\ cmdPc' = "wait"
          /\ UNCHANGED late

\* SendEvent( OMX_EventCmdComplete ) at the end of NX_VidDec_CommandProc: a
\* StateSet has stored the new state some steps earlier.  The other commands
\* change nothing that is shared between their last step and the event, and
\* answer in that step.
SendEvent ==
  /\ cmdPc = "event"
  /\ Answer
  /\ UNCHANGED <<bEnableThumbNailMode, asked, owner, eCurState, eNewState, cmdQueue, portVars,
                 semVars, queueVars, codecVars, eCmdBufThread, bufPc>>

\* PendSem( hSemCmd ) and the pop of the command.
TakeCommand ==
  /\ cmdPc = "wait"
  /\ cmdQueue # << >>
  /\ cmd' = Head(cmdQueue)
  /\ cmdQueue' = Tail(cmdQueue)
  /\ cmdPc' = "exec"
  /\ UNCHANGED <<bEnableThumbNailMode, clientVars, owner, eCurState, eNewState, portVars, semVars,
                 queueVars, codecVars, eCmdBufThread, bufPc>>

\* A StateSet to the current state is answered with OMX_ErrorSameState; the
\* client that gets an error asks NX_BaseGetState.
SameState ==
  /\ StateSet(eCurState)
  /\ told' = eCurState
  /\ outstanding' = 0 /\ cmd' = None /\ cmdPc' = "wait"
  /\ UNCHANGED <<bEnableThumbNailMode, asked, late, owner, eCurState, eNewState, cmdQueue,
                 portVars, semVars, queueVars, codecVars, eCmdBufThread, bufPc>>

\* NX_VidDec_StateTransition refuses the others; its error is not looked at.
Handled == {<<"Loaded", "Idle">>, <<"Idle", "Loaded">>, <<"Idle", "Executing">>,
            <<"Idle", "Pause">>, <<"Executing", "Idle">>, <<"Executing", "Pause">>,
            <<"Pause", "Idle">>, <<"Pause", "Executing">>}

IncorrectTransition ==
  /\ \E s \in States \ {eCurState} : StateSet(s) /\ <<eCurState, s>> \notin Handled
  /\ Answer
  /\ UNCHANGED <<bEnableThumbNailMode, asked, owner, eCurState, eNewState, cmdQueue, portVars,
                 semVars, queueVars, codecVars, eCmdBufThread, bufPc>>

\* Loaded -> Idle first waits until the client has populated the ports.
LoadedToIdle ==
  /\ StateSet("Idle") /\ eCurState = "Loaded"
  /\ cmdPc' = "pend_in"
  /\ UNCHANGED <<bEnableThumbNailMode, clientVars, owner, eCurState, eNewState, cmdQueue, portVars,
                 semVars, queueVars, codecVars, eCmdBufThread, cmd, bufPc>>

Mut_IdleToLoadedNoPost ==
  /\ StateSet("Loaded") /\ eCurState = "Idle"
  /\ eCmdBufThread' = "EXIT"
  /\ cmdPc' = "join"
  /\ UNCHANGED <<bEnableThumbNailMode, clientVars, owner, eCurState, eNewState, cmdQueue, portVars,
                 semVars, queueVars, codecVars, cmd, bufPc>>
\* Idle -> Loaded first tells the buffer thread to exit.
IdleToLoaded ==
  /\ StateSet("Loaded") /\ eCurState = "Idle"
  /\ eCmdBufThread' = "EXIT"
  /\ hBufChangeSem' = Post(hBufChangeSem, ChangeMax)
  /\ hBufCtrlSem' = Post(hBufCtrlSem, 1)
  /\ cmdPc' = "join"
  /\ UNCHANGED <<bEnableThumbNailMode, clientVars, owner, eCurState, eNewState, cmdQueue, portVars,
                 queueVars, codecVars, cmd, bufPc>>

Mut_DestroyWithoutJoin ==
  /\ cmdPc = "join"
  /\ hBufChangeSem' = NoSem /\ hBufCtrlSem' = NoSem
  /\ cmdPc' = "pend_in"
  /\ UNCHANGED <<bEnableThumbNailMode, clientVars, owner, eCurState, eNewState, cmdQueue, portVars,
                 queueVars, codecVars, eCmdBufThread, cmd, bufPc>>
\* pthread_join, and the two semaphores are destroyed.
JoinBufThread ==
  /\ cmdPc = "join"
  /\ bufPc = "exited"
  /\ bufPc' = "none"
  /\ hBufChangeSem' = NoSem /\ hBufCtrlSem' = NoSem
  /\ cmdPc' = "pend_in"
  /\ UNCHANGED <<bEnableThumbNailMode, clientVars, owner, eCurState, eNewState, cmdQueue, portVars,
                 queueVars, codecVars, eCmdBufThread, cmd>>

Mut_PendAllocKeepsCount(p) ==
  /\ cmdPc = (IF p = "in" THEN "pend_in" ELSE "pend_out")
  /\ bEnabled[p] => hBufAllocSem > 0
  /\ hBufAllocSem' = IF bEnabled[p] THEN hBufAllocSem - 1 ELSE hBufAllocSem
  /\ cmdPc' = IF p = "in" THEN "pend_out" ELSE "finish"
  /\ UNCHANGED <<bEnableThumbNailMode, clientVars, owner, eCurState, eNewState, cmdQueue, bEnabled,
                 outUsableBuffers, semVars, queueVars, codecVars, eCmdBufThread, cmd, bufPc>>
Mut_PendAllocOnePort(p) ==
  /\ cmdPc = (IF p = "in" THEN "pend_in" ELSE "pend_out")
  /\ p = "in" => hBufAllocSem > 0
  /\ hBufAllocSem' = IF p = "in" THEN hBufAllocSem - 1 ELSE hBufAllocSem
  /\ outUsableBuffers' = IF p = "out" /\ eCurState = "Idle" THEN 0 ELSE outUsableBuffers
  /\ cmdPc' = IF p = "in" THEN "pend_out" ELSE "finish"
  /\ UNCHANGED <<bEnableThumbNailMode, clientVars, owner, eCurState, eNewState, cmdQueue, bEnabled,
                 semVars, queueVars, codecVars, eCmdBufThread, cmd, bufPc>>
\* PendSem( hBufAllocSem ) for one port, if it is enabled.
PendAlloc(p) ==
  /\ cmdPc = (IF p = "in" THEN "pend_in" ELSE "pend_out")
  /\ bEnabled[p] => hBufAllocSem > 0
  /\ hBufAllocSem' = IF bEnabled[p] THEN hBufAllocSem - 1 ELSE hBufAllocSem
  /\ outUsableBuffers' = IF p = "out" /\ eCurState = "Idle" THEN 0 ELSE outUsableBuffers
  /\ cmdPc' = IF p = "in" THEN "pend_out" ELSE "finish"
  /\ UNCHANGED <<bEnableThumbNailMode, clientVars, owner, eCurState, eNewState, cmdQueue, bEnabled,
                 semVars, queueVars, codecVars, eCmdBufThread, cmd, bufPc>>

\* Loaded -> Idle: the semaphores and the buffer thread are created.
FinishLoadedToIdle ==
  /\ cmdPc = "finish" /\ eCurState = "Loaded"
  /\ eCmdBufThread' = "PAUSE"
  /\ hBufCtrlSem' = 0 /\ hBufChangeSem' = 0
  /\ bStartEoS' = FALSE
  /\ bufPc' = "start"
  /\ eCurState' = "Idle"
  /\ cmdPc' = "event"
  /\ UNCHANGED <<bEnableThumbNailMode, clientVars, owner, eNewState, cmdQueue, portVars, inQueue,
                 outQueue, outBufferUseFlag, curOutBuffers, codecVars, cmd>>

\* Idle -> Loaded: closeVideoCodec, which only does something to an open codec.
FinishIdleToLoaded ==
  /\ cmdPc = "finish" /\ eCurState = "Idle"
  /\ hVpuCodec' = FALSE
  /\ bInitialized' = (bInitialized /\ ~hVpuCodec)
  /\ bInterlaced' = (bInterlaced /\ ~hVpuCodec)
  /\ bStartEoS' = FALSE
  /\ eCurState' = "Loaded"
  /\ cmdPc' = "event"
  /\ UNCHANGED <<bEnableThumbNailMode, clientVars, owner, eNewState, cmdQueue, portVars, semVars,
                 inQueue, outQueue, outBufferUseFlag, curOutBuffers, minRequiredFrameBuffer,
                 DecodeFrame, eCmdBufThread, cmd, bufPc>>

\* Idle -> Executing: the thread is released before the codec is opened.
IdleToExecuting ==
  /\ StateSet("Executing") /\ eCurState = "Idle"
  /\ eCmdBufThread' = "RUN"
  /\ cmdPc' = "post"
  /\ UNCHANGED <<bEnableThumbNailMode, clientVars, owner, eCurState, eNewState, cmdQueue, portVars,
                 semVars, queueVars, codecVars, cmd, bufPc>>

PostCtrl ==
  /\ cmdPc = "post"
  /\ hBufCtrlSem' = Post(hBufCtrlSem, 1)
  /\ eCurState' = "Executing"
  /\ late' = {}
  /\ cmdPc' = "open"
  /\ UNCHANGED <<bEnableThumbNailMode, told, outstanding, asked, owner, eNewState, cmdQueue,
                 portVars, hBufChangeSem, queueVars, codecVars, eCmdBufThread, cmd, bufPc>>

\* openVideoCodec may fail; its result is not looked at.
openVideoCodec ==
  /\ cmdPc = "open"
  /\ DecodeFrame' = TRUE
  /\ hVpuCodec' \in BOOLEAN
  /\ cmdPc' = "event"
  /\ UNCHANGED <<bEnableThumbNailMode, clientVars, owner, eCurState, eNewState, cmdQueue, portVars,
                 semVars, queueVars, minRequiredFrameBuffer, bInitialized, bInterlaced,
                 eCmdBufThread, cmd, bufPc>>

\* The transitions from and to Pause only store the state.
PauseTransitions ==
  /\ \E s \in States : /\ StateSet(s)
                       /\ <<eCurState, s>> \in Handled
                       /\ s = "Pause" \/ eCurState = "Pause"
                       /\ eCurState' = s
  /\ cmdPc' = "event"
  /\ UNCHANGED <<bEnableThumbNailMode, clientVars, owner, eNewState, cmdQueue, portVars, semVars,
                 queueVars, codecVars, eCmdBufThread, cmd, bufPc>>

Mut_ExecutingToIdleNoDummy ==
  /\ StateSet("Idle") /\ eCurState = "Executing"
  /\ eCmdBufThread' = "PAUSE"
  /\ cmdPc' = "return"
  /\ UNCHANGED <<bEnableThumbNailMode, clientVars, owner, eCurState, eNewState, cmdQueue, portVars,
                 semVars, queueVars, codecVars, cmd, bufPc>>
\* Executing -> Idle: stop the thread with a dummy buffer change ...
ExecutingToIdle ==
  /\ StateSet("Idle") /\ eCurState = "Executing"
  /\ eCmdBufThread' = "PAUSE"
  /\ hBufChangeSem' = Post(hBufChangeSem, ChangeMax)
  /\ cmdPc' = "return"
  /\ UNCHANGED <<bEnableThumbNailMode, clientVars, owner, eCurState, eNewState, cmdQueue, portVars,
                 hBufCtrlSem, queueVars, codecVars, cmd, bufPc>>

\* The loops that give back the buffers of the two ports.
FlushVideoInputPort == inQueue' = << >>
Mut_FlushOutputKeepsCount ==
  /\ outQueue' = IF bEnableThumbNailMode THEN << >> ELSE outQueue
  /\ outBufferUseFlag' = IF bEnableThumbNailMode THEN outBufferUseFlag ELSE {}
  /\ UNCHANGED curOutBuffers
FlushVideoOutputPort ==
  /\ outQueue' = IF bEnableThumbNailMode THEN << >> ELSE outQueue
  /\ outBufferUseFlag' = IF bEnableThumbNailMode THEN outBufferUseFlag ELSE {}
  /\ curOutBuffers' = IF bEnableThumbNailMode THEN curOutBuffers
                      ELSE curOutBuffers - Cardinality(outBufferUseFlag)

\* ... return the buffers of both ports under hBufMutex ...
ReturnAllBuffers ==
  /\ cmdPc = "return"
  /\ MutexFree
  /\ FlushVideoInputPort /\ FlushVideoOutputPort
  /\ owner' = Returned(InHeld \cup OutHeld)
  /\ cmdPc' = "settle"
  /\ UNCHANGED <<bEnableThumbNailMode, clientVars, eCurState, eNewState, cmdQueue, portVars,
                 semVars, bStartEoS, codecVars, eCmdBufThread, cmd, bufPc>>

\* ... and only then, without the mutex, change the state: from here to the
\* event a client that still knows the component to be executing can have
\* buffers accepted that nobody returns.
FinishExecutingToIdle ==
  /\ cmdPc = "settle"
  /\ eCurState' = "Idle"
  /\ cmdPc' = "event"
  /\ UNCHANGED <<bEnableThumbNailMode, clientVars, owner, eNewState, cmdQueue, portVars, semVars,
                 queueVars, codecVars, eCmdBufThread, cmd, bufPc>>

\* The buffers of the ports a command is about go back to the client.
FlushPorts(ports) ==
  /\ IF "in" \in ports THEN FlushVideoInputPort ELSE UNCHANGED inQueue
  /\ IF "out" \in ports THEN FlushVideoOutputPort
     ELSE UNCHANGED <<outQueue, outBufferUseFlag, curOutBuffers>>
  /\ owner' = Returned((IF "in" \in ports THEN InHeld ELSE {}) \cup
                       (IF "out" \in ports THEN OutHeld ELSE {}))

CommandFlush ==
  /\ cmdPc = "exec" /\ cmd.cmd = "Flush"
  /\ MutexFree
  /\ FlushPorts(PortsOf(cmd.arg))
  /\ bStartEoS' = FALSE
  /\ Answer
  /\ UNCHANGED <<bEnableThumbNailMode, asked, eCurState, eNewState, cmdQueue, portVars, semVars,
                 codecVars, eCmdBufThread, bufPc>>

\* outUsableBuffers is reset when the output port alone is disabled.
CommandPortDisable ==
  /\ cmdPc = "exec" /\ cmd.cmd = "PortDisable"
  /\ MutexFree
  /\ FlushPorts(PortsOf(cmd.arg))
  /\ bEnabled' = [p \in Ports |-> IF p \in PortsOf(cmd.arg) THEN FALSE ELSE bEnabled[p]]
  /\ outUsableBuffers' = IF cmd.arg = "out" THEN 0 ELSE outUsableBuffers
  /\ asked' = (asked /\ "out" \notin PortsOf(cmd.arg))
  /\ Answer
  /\ UNCHANGED <<bEnableThumbNailMode, eCurState, eNewState, cmdQueue, hBufAllocSem, semVars,
                 bStartEoS, codecVars, eCmdBufThread, bufPc>>

Mut_PortEnableNoPost ==
  /\ cmdPc = "exec" /\ cmd.cmd = "PortEnable"
  /\ bEnabled' = [p \in Ports |-> IF p \in PortsOf(cmd.arg) THEN TRUE ELSE bEnabled[p]]
  /\ Answer
  /\ UNCHANGED <<bEnableThumbNailMode, asked, owner, eCurState, eNewState, cmdQueue, hBufAllocSem,
                 outUsableBuffers, semVars, queueVars, codecVars, eCmdBufThread, bufPc>>
\* Enabling a port wakes a buffer thread that waits because of a disabled one.
CommandPortEnable ==
  /\ cmdPc = "exec" /\ cmd.cmd = "PortEnable"
  /\ bEnabled' = [p \in Ports |-> IF p \in PortsOf(cmd.arg) THEN TRUE ELSE bEnabled[p]]
  /\ hBufCtrlSem' = Post(hBufCtrlSem, 1)
  /\ Answer
  /\ UNCHANGED <<bEnableThumbNailMode, asked, owner, eCurState, eNewState, cmdQueue, hBufAllocSem,
                 outUsableBuffers, hBufChangeSem, queueVars, codecVars, eCmdBufThread, bufPc>>

CommandThread ==
  \/ TakeCommand \/ SameState \/ IncorrectTransition \/ SendEvent
  \/ LoadedToIdle \/ FinishLoadedToIdle
  \/ IdleToLoaded \/ JoinBufThread \/ FinishIdleToLoaded
  \/ \E p \in Ports : PendAlloc(p)
  \/ IdleToExecuting \/ PostCtrl \/ openVideoCodec
  \/ PauseTransitions
  \/ ExecutingToIdle \/ ReturnAllBuffers \/ FinishExecutingToIdle
  \/ CommandFlush \/ CommandPortDisable \/ CommandPortEnable

-----------------------------------------------------------------------------
(* The buffer management thread: NX_VidDec_BufferMgmtThread.                 *)

\* PostSem( hBufCtrlSem ): the "thread creation" post, that nobody pends but
\* the thread itself.
BufStart ==
  /\ bufPc = "start"
  /\ hBufCtrlSem' = Post(hBufCtrlSem, 1)
  /\ bufPc' = "test"
  /\ UNCHANGED <<bEnableThumbNailMode, clientVars, owner, eCurState, eNewState, cmdQueue, portVars,
                 hBufChangeSem, queueVars, codecVars, eCmdBufThread, cmd, cmdPc>>

\* The tests of the two loops.
BufTest ==
  /\ \/ bufPc = "test" /\ bufPc' = IF eCmdBufThread = "EXIT" THEN "exited" ELSE "ctrl"
     \/ bufPc = "inner" /\ bufPc' = IF eCmdBufThread = "RUN" THEN "change" ELSE "test"
  /\ UNCHANGED <<bEnableThumbNailMode, clientVars, owner, eCurState, eNewState, cmdQueue, portVars,
                 semVars, queueVars, codecVars, eCmdBufThread, cmd, cmdPc>>

\* PendSem( hBufCtrlSem ) of the outer loop.
BufPendCtrl ==
  /\ bufPc = "ctrl" /\ hBufCtrlSem > 0
  /\ hBufCtrlSem' = hBufCtrlSem - 1
  /\ bufPc' = "inner"
  /\ UNCHANGED <<bEnableThumbNailMode, clientVars, owner, eCurState, eNewState, cmdQueue, portVars,
                 hBufChangeSem, queueVars, codecVars, eCmdBufThread, cmd, cmdPc>>

\* PendSem( hBufChangeSem ) of the inner loop.
BufPendChange ==
  /\ bufPc = "change" /\ hBufChangeSem > 0
  /\ hBufChangeSem' = hBufChangeSem - 1
  /\ bufPc' = "check"
  /\ UNCHANGED <<bEnableThumbNailMode, clientVars, owner, eCurState, eNewState, cmdQueue, portVars,
                 hBufCtrlSem, queueVars, codecVars, eCmdBufThread, cmd, cmdPc>>

\* The tests after it: leave the loop on a new thread command; on a disabled
\* port give the buffer change back and leave; or go for hBufMutex.
BufCheck ==
  /\ bufPc = "check"
  /\ \/ /\ eCmdBufThread # "RUN"
        /\ bufPc' = "test"
        /\ UNCHANGED hBufChangeSem
     \/ /\ eCmdBufThread = "RUN"
        /\ \E p \in Ports : ~bEnabled[p]
        /\ hBufChangeSem' = Post(hBufChangeSem, ChangeMax)
        /\ bufPc' = "test"
     \/ /\ eCmdBufThread = "RUN"
        /\ \A p \in Ports : bEnabled[p]
        /\ bufPc' = "lock"
        /\ UNCHANGED hBufChangeSem
  /\ UNCHANGED <<bEnableThumbNailMode, clientVars, owner, eCurState, eNewState, cmdQueue, portVars,
                 hBufCtrlSem, queueVars, codecVars, eCmdBufThread, cmd, cmdPc>>

\* pthread_mutex_lock( hBufMutex ): the command thread may have returned every
\* buffer and gone on since the tests, which are not repeated.
BufLock ==
  /\ bufPc = "lock"
  /\ bufPc' = "decode"
  /\ UNCHANGED <<bEnableThumbNailMode, clientVars, owner, eCurState, eNewState, cmdQueue, portVars,
                 semVars, queueVars, codecVars, eCmdBufThread, cmd, cmdPc>>

\* A frame leaves the component in output buffer b: FillBufferDone.  The codec
\* names a frame by its buffer; if the component no longer holds that buffer
\* the frame is dropped ("Unexpected Buffer Handling").
OutputFrame(b) ==
  IF bEnableThumbNailMode
  THEN /\ b = Head(outQueue)
       /\ outQueue' = Tail(outQueue)
       /\ UNCHANGED <<outBufferUseFlag, curOutBuffers>>
  ELSE /\ outBufferUseFlag' = outBufferUseFlag \ {b}
       /\ curOutBuffers' = IF b \in outBufferUseFlag THEN curOutBuffers - 1 ELSE curOutBuffers
       /\ UNCHANGED outQueue

\* The outcomes of DecodeFrame for the input buffer it popped.  EmptyBufferDone
\* of that buffer is in BufDecode.
NoOutput == UNCHANGED <<outQueue, outBufferUseFlag, curOutBuffers>>

\* The buffer only starts the EOS processing, carries codec configuration, or
\* yields no frame yet.
DecodeNothing == /\ NoOutput
                 /\ owner' = Returned({Head(inQueue).buf})
                 /\ bufPc' = "eos"
                 /\ UNCHANGED <<bEnabled, asked, codecVars>>

\* seqOut.minBuffers at the end of InitializeCodaVpu: the sequence of an
\* interlaced stream is not parsed again.
SeqMinBuffers == IF bInterlaced THEN 0 ELSE MinBuffers

\* The VPU, or its initialisation, reports an error: the thread exits.
DecodeError == /\ NoOutput
               /\ minRequiredFrameBuffer' \in
                    {minRequiredFrameBuffer} \cup (IF ~bInitialized /\ hVpuCodec THEN {SeqMinBuffers} ELSE {})
               /\ owner' = Returned({Head(inQueue).buf})
               /\ bufPc' = "exited"
               /\ UNCHANGED <<bEnabled, asked, bInitialized, bInterlaced, hVpuCodec, DecodeFrame>>

\* InitializeCodaVpu succeeds.
DecodeInitialize == /\ ~bInitialized /\ hVpuCodec
                    /\ bInitialized' = TRUE
                    /\ minRequiredFrameBuffer' = SeqMinBuffers
                    /\ NoOutput
                    /\ owner' = Returned({Head(inQueue).buf})
                    /\ bufPc' = "eos"
                    /\ UNCHANGED <<bEnabled, asked, bInterlaced, hVpuCodec, DecodeFrame>>

\* InitializeCodaVpu finds an interlaced stream: the output port is disabled
\* and the client is asked to reconfigure it.
DecodeReconfigure == /\ Reconfigures /\ ~bEnableThumbNailMode
                     /\ ~bInitialized /\ hVpuCodec /\ ~bInterlaced
                     /\ bInterlaced' = TRUE
                     /\ bEnabled' = [bEnabled EXCEPT !["out"] = FALSE]
                     /\ asked' = TRUE
                     /\ NoOutput
                     /\ owner' = Returned({Head(inQueue).buf})
                     /\ bufPc' = "eos"
                     /\ UNCHANGED <<minRequiredFrameBuffer, bInitialized, hVpuCodec, DecodeFrame>>

\* The buffer of a frame: without deinterlacing it is the codec's choice,
\* otherwise GetUsableBufferIdx finds one that the component holds.  It passes
\* over the one it found last: if that is the only one held it returns -1, and
\* the frame is dropped like one whose buffer is not held.
FrameBuffers == IF bInterlaced /\ Cardinality(OutHeld) > 1 THEN OutHeld ELSE OutBufs

\* A frame is output.
DecodeOutput == /\ bInitialized /\ hVpuCodec
                /\ \E b \in FrameBuffers :
                     /\ OutputFrame(b)
                     /\ owner' = Returned({Head(inQueue).buf} \cup ({b} \cap OutHeld))
                /\ bufPc' = "eos"
                /\ UNCHANGED <<bEnabled, asked, codecVars>>

\* NX_VidDec_Transform, if there is something to decode and room for it.
CanDecode == ~bStartEoS /\ inQueue # << >> /\ OutAvailable

BufDecode ==
  /\ bufPc = "decode"
  /\ IF CanDecode /\ DecodeFrame
     THEN /\ inQueue' = Tail(inQueue)
          /\ bStartEoS' = Head(inQueue).eos
          /\ \/ DecodeNothing \/ DecodeError \/ DecodeInitialize
             \/ DecodeReconfigure \/ DecodeOutput
     ELSE /\ bufPc' = "eos"
          /\ UNCHANGED <<owner, queueVars, codecVars, bEnabled, asked>>
  /\ UNCHANGED <<bEnableThumbNailMode, told, outstanding, late, eCurState, eNewState, cmdQueue,
                 hBufAllocSem, outUsableBuffers, semVars, eCmdBufThread, cmd, cmdPc>>

\* processEOS: a delayed frame or, when the codec has none left, an empty
\* buffer with the EOS flag.
BufEos ==
  /\ bufPc = "eos"
  /\ bufPc' = "inner"
  /\ IF bStartEoS /\ OutAvailable
     THEN \E b \in FrameBuffers : /\ OutputFrame(b)
                                  /\ owner' = Returned({b} \cap OutHeld)
     ELSE NoOutput /\ UNCHANGED owner
  /\ UNCHANGED <<bEnableThumbNailMode, clientVars, eCurState, eNewState, cmdQueue, portVars,
                 semVars, inQueue, bStartEoS, codecVars, eCmdBufThread, cmd, cmdPc>>

BufThread == \/ BufStart \/ BufTest \/ BufPendCtrl \/ BufPendChange \/ BufCheck
             \/ BufLock \/ BufDecode \/ BufEos

-----------------------------------------------------------------------------
Next == \/ ClientSends \/ ClientSetsMode \/ ClientAllocates \/ ClientFrees \/ ClientPassesBuffers
        \/ CommandThread
        \/ BufThread

Spec == Init /\ [][Next]_vars

\* The two threads are scheduled, hBufMutex starves nobody who waits for it, and
\* the client does its part of the state transitions that wait for it: it
\* populates and empties the ports.
WaitsForMutex == ReturnAllBuffers \/ CommandFlush \/ CommandPortDisable
FairSpec == /\ Spec
            /\ SF_vars(WaitsForMutex)
            /\ WF_vars(CommandThread)
            /\ WF_vars(BufThread)
            /\ WF_vars(ClientAllocates)
            /\ WF_vars(ClientFrees)

-----------------------------------------------------------------------------
(* Properties                                                                *)

TypeOK ==
  /\ told \in States /\ outstanding \in 0..1 /\ asked \in BOOLEAN /\ late \subseteq Buffers
  /\ owner \in [Buffers -> {"none", "client", "comp"}]
  /\ eCurState \in States /\ eNewState \in States
  /\ bEnabled \in [Ports -> BOOLEAN] /\ bEnableThumbNailMode \in Modes
  /\ hBufAllocSem \in 0..AllocMax
  /\ hBufCtrlSem \in {NoSem, 0, 1} /\ hBufChangeSem \in NoSem..ChangeMax
  /\ outBufferUseFlag \subseteq OutBufs
  /\ curOutBuffers \in Int
  /\ eCmdBufThread \in {"RUN", "PAUSE", "EXIT"}
  /\ cmdPc \in {"wait", "exec", "pend_in", "pend_out", "join", "finish", "post", "open",
              "return", "settle", "event"}
  /\ bufPc \in {"none", "start", "test", "ctrl", "inner", "change", "check", "lock", "decode",
              "eos", "exited"}

\* A buffer the component holds is in exactly one place of it, and nothing it
\* holds belongs to the client or has been freed: no buffer is lost inside the
\* component and none is returned twice.  In native window mode curOutBuffers,
\* which gates decoding, counts the flags that are set.
BufferOwnership ==
  /\ InHeld \cup OutHeld = {b \in Buffers : owner[b] = "comp"}
  /\ Cardinality(InHeld) = Len(inQueue)
  /\ Cardinality(OutHeld) = IF bEnableThumbNailMode THEN Len(outQueue) ELSE curOutBuffers

\* When the client has been told that the component is idle or loaded, it has
\* every buffer back that it passed before the component became idle, whatever
\* the buffer thread was doing meanwhile.
IdleHoldsNothing ==
  told \in {"Idle", "Loaded"} /\ outstanding = 0 => InHeld \cup OutHeld \subseteq late

\* The buffer thread never sleeps on its control semaphore while it should run:
\* of the state change, the port commands and the thread's own reactions to
\* them, none loses the wakeup, in whatever order they meet.
NoLostControl ==
  (/\ bufPc = "ctrl" /\ hBufCtrlSem = 0
   /\ eCmdBufThread = "RUN" /\ cmdPc # "post")
  => \E p \in Ports : ~bEnabled[p]

\* The thread sleeps on the buffer change semaphore only while there is nothing
\* to do for it that it has not been told of: a thread that must stop finds a
\* count.
StopIsNoticed == bufPc = "change" /\ eCmdBufThread # "RUN" => hBufChangeSem > 0

\* Idle -> Loaded takes the semaphores away: by then no thread uses them.
SemaphoresOutliveThread ==
  bufPc \notin {"none", "exited"} => hBufCtrlSem # NoSem /\ hBufChangeSem # NoSem

\* What InitializeCodaVpu registers with the VPU, pOutputBuffers[0 ..
\* outUsableBuffers-1], are buffers that exist, unless it is a late buffer that
\* sets it off in an idle component.
RegistersExistingBuffers ==
  bufPc = "decode" /\ CanDecode /\ ~bInitialized
  => \/ outUsableBuffers <= Cardinality(Allocated("out"))
     \/ eCurState = "Idle" /\ Head(inQueue).buf \in late

\* Every command the thread takes is executed to its end, unless the component
\* keeps a late buffer: Idle -> Loaded then waits for ever for a client that
\* cannot free it.
CommandsComplete ==
  (cmdPc # "wait") ~> (cmdPc = "wait" \/ late \cap (InHeld \cup OutHeld) # {})

\* "Wait buffer free": the component reports Loaded only when the enabled ports
\* have no buffer left.
LoadedIsUnpopulated ==
  told = "Loaded" /\ outstanding = 0 => \A p \in Ports : bEnabled[p] => Allocated(p) = {}
=============================================================================
