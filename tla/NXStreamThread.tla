--------------------------- MODULE NXStreamThread ---------------------------
(* A camera stream: NXStreamThread and NXStream of the camera HAL, with      *)
(* PreviewThread's loop, the command thread that starts and stops it, and    *)
(* the binder thread that releases the stream.  setState is one assignment:  *)
(* its compare-and-swap on the value just read fails only if another thread  *)
(* sets the state in between, as if that thread had come second.             *)
EXTENDS Integers, Sequences, FiniteSets, Functions

CONSTANTS
  Buffers,             \* the buffers of the window, all of them registered
  MaxBuffers,          \* what initBuffer takes of them
  ARCH_S5P6818,        \* there a v4l2_dqbuf that fails is tried again
  Fails,               \* may a call of the device or of the window fail
  Polls, WaitCount,    \* timeOut of stop (5), waitCount of start (10)
  SkipFrames           \* frames skipped after each start
ASSUME StreamAssumption ==
  /\ IsFiniteSet(Buffers)
  /\ MaxBuffers \in 1..Cardinality(Buffers)
  /\ ARCH_S5P6818 \in BOOLEAN /\ Fails \in BOOLEAN
  /\ Polls \in Nat /\ WaitCount \in Nat /\ SkipFrames \in Nat

NoBuffer == "none"
Zoom     == "zoom"     \* a buffer of the zoom controller

VARIABLES
  UseZoom,             \* frames pass through the scaler
  State,
  loop,                \* where the stream thread is; "none" while ~mRunning
  InitialSkipCount,
  filled,              \* the buffer the loop has in hand
  service,             \* window: buffers the camera service has
  queue, BufferInited, \* NXStream
  device, streaming,   \* V4L2: buffers queued to the device, in order
  present,             \* is the stream in Streams
  listening,           \* is it among the listeners of the command thread
  pc, left,            \* the two threads that call start and stop; tries left
  trouble              \* history: "error" of a call, "timeout" of a stop

streamVars == <<service, queue, BufferInited>>
deviceVars == <<device, streaming>>
loopVars   == <<loop, InitialSkipCount, filled>>
callerVars == <<present, listening, pc, left>>
vars == <<UseZoom, State, loopVars, streamVars, deviceVars, callerVars, trouble>>

Callers == {"command", "binder"}
GoTo(a, place) == pc' = [pc EXCEPT ![a] = place]

\* NXStreamManager::allocateStream has made the thread and its stream.
Init ==
  /\ UseZoom \in BOOLEAN
  /\ State = "EXIT" /\ loop = "none" /\ InitialSkipCount = 0 /\ filled = NoBuffer
  /\ service = Buffers /\ queue = << >> /\ BufferInited = FALSE
  /\ device = << >> /\ streaming = FALSE
  /\ present = TRUE /\ listening = TRUE
  /\ pc = [a \in Callers |-> "idle"] /\ left = [a \in Callers |-> 0]
  /\ trouble = {}

-----------------------------------------------------------------------------
(* start, called by onCommand for a preview request; the command thread      *)
(* holds ListenerMutex until onCommand returns.                              *)

OnPreviewCommand ==
  /\ pc["command"] = "idle" /\ listening
  /\ GoTo("command", "start")
  /\ left' = [left EXCEPT !["command"] = WaitCount]
  /\ UNCHANGED <<UseZoom, State, loopVars, streamVars, deviceVars, present, listening, trouble>>

Mut_StartIgnoresRun ==
  /\ pc["command"] = "start"
  /\ loop' = IF State # "RUNNING" /\ loop = "none" THEN "ready" ELSE loop
  /\ GoTo("command", IF State = "RUNNING" THEN "idle" ELSE "started")
  /\ UNCHANGED <<UseZoom, State, InitialSkipCount, filled, streamVars, deviceVars, present,
                 listening, left, trouble>>
\* A running thread is left alone; one that is being stopped is waited for, a
\* number of times.  Then Thread::run, unless its thread still runs.
StartRuns ==
  /\ pc["command"] = "start"
  /\ IF State = "WAIT_EXIT" /\ left["command"] > 0
     THEN left' = [left EXCEPT !["command"] = @ - 1] /\ UNCHANGED <<pc, loop>>
     ELSE /\ UNCHANGED left
          /\ IF State = "EXIT" /\ present /\ loop = "none"
             THEN loop' = "ready" /\ GoTo("command", "started")
             ELSE UNCHANGED loop /\ GoTo("command", "idle")
  /\ UNCHANGED <<UseZoom, State, InitialSkipCount, filled, streamVars, deviceVars, present,
                 listening, trouble>>

StartSetsState ==
  /\ pc["command"] = "started"
  /\ State' = "RUNNING"
  /\ GoTo("command", "idle")
  /\ UNCHANGED <<UseZoom, loopVars, streamVars, deviceVars, present, listening, left, trouble>>

-----------------------------------------------------------------------------
(* stop(true), called by CaptureThread::onCommand and by releaseStream.      *)

\* A capture request stops the preview first.  (The client sends none for a
\* preview it is releasing: nothing would keep the two stops apart.)
OnCaptureCommand ==
  /\ pc["command"] = "idle" /\ listening
  /\ GoTo("command", "stop")
  /\ UNCHANGED <<UseZoom, State, loopVars, streamVars, deviceVars, present, listening, left,
                 trouble>>

Mut_ReleaseStreamKeepsListener ==
  /\ pc["binder"] = "idle"
  /\ GoTo("binder", "stop")
  /\ UNCHANGED <<UseZoom, State, loopVars, streamVars, deviceVars, present, listening, left,
                 trouble>>
\* releaseStream: removeListener waits for the command thread's onCommand.
ReleaseStream ==
  /\ pc["binder"] = "idle" /\ pc["command"] = "idle"
  /\ listening' = FALSE
  /\ GoTo("binder", "stop")
  /\ UNCHANGED <<UseZoom, State, loopVars, streamVars, deviceVars, present, left, trouble>>

\* Where a caller goes on after stop.
AfterStop(a) == IF a = "command" THEN "stopped" ELSE "remove"

StopTests(a) ==
  /\ pc[a] = "stop"
  /\ GoTo(a, IF State = "EXIT" THEN AfterStop(a) ELSE "ask")
  /\ UNCHANGED <<UseZoom, State, loopVars, streamVars, deviceVars, present, listening, left,
                 trouble>>

StopAsks(a) ==
  /\ pc[a] = "ask"
  /\ State' = "WAIT_EXIT"
  /\ left' = [left EXCEPT ![a] = Polls]
  /\ GoTo(a, "poll")
  /\ UNCHANGED <<UseZoom, loopVars, streamVars, deviceVars, present, listening, trouble>>

Mut_StopPollsForever(a) ==
  /\ pc[a] = "poll" /\ State # "EXIT"
  /\ left' = [left EXCEPT ![a] = @ - 1]
  /\ UNCHANGED <<UseZoom, State, loopVars, streamVars, deviceVars, present, listening, pc,
                 trouble>>
StopPolls(a) ==
  /\ pc[a] = "poll" /\ State # "EXIT" /\ left[a] > 0
  /\ left' = [left EXCEPT ![a] = @ - 1]
  /\ UNCHANGED <<UseZoom, State, loopVars, streamVars, deviceVars, present, listening, pc,
                 trouble>>

\* The thread has exited in time, or is declared to have: then nothing is
\* flushed.
StopGivesUp(a) ==
  /\ pc[a] = "poll"
  /\ \/ State = "EXIT" /\ left[a] > 0 /\ GoTo(a, "flush") /\ UNCHANGED trouble
     \/ left[a] = 0 /\ GoTo(a, "off") /\ trouble' = trouble \cup {"timeout"}
  /\ State' = "EXIT"
  /\ UNCHANGED <<UseZoom, loopVars, streamVars, deviceVars, present, listening, left>>

Mut_FlushBufferKeepsQueue(a) ==
  /\ pc[a] = "flush"
  /\ service' = service \cup Range(queue)
  /\ BufferInited' = FALSE
  /\ GoTo(a, "off")
  /\ UNCHANGED <<UseZoom, State, loopVars, queue, deviceVars, present, listening, left, trouble>>
\* flushBuffer of the active stream: every queued buffer is cancelled.
FlushBuffer(a) ==
  /\ pc[a] = "flush"
  /\ service' = service \cup Range(queue)
  /\ queue' = << >> /\ BufferInited' = FALSE
  /\ GoTo(a, "off")
  /\ UNCHANGED <<UseZoom, State, loopVars, deviceVars, present, listening, left, trouble>>

Mut_StreamOffSkipped(a) ==
  /\ pc[a] = "off"
  /\ GoTo(a, AfterStop(a))
  /\ UNCHANGED <<UseZoom, State, loopVars, streamVars, deviceVars, present, listening, left,
                 trouble>>
\* v4l2_streamoff takes the device's buffers away.
StreamOff(a) ==
  /\ pc[a] = "off"
  /\ device' = << >> /\ streaming' = FALSE
  /\ GoTo(a, AfterStop(a))
  /\ UNCHANGED <<UseZoom, State, loopVars, streamVars, present, listening, left, trouble>>

\* The preview is stopped and the capture thread starts; onCommand returns.
CaptureStarts ==
  /\ pc["command"] = "stopped"
  /\ GoTo("command", "idle")
  /\ UNCHANGED <<UseZoom, State, loopVars, streamVars, deviceVars, present, listening, left,
                 trouble>>

\* removeStream, release, and the manager forgets the thread.
RemoveStream ==
  /\ pc["binder"] = "remove"
  /\ present' = FALSE
  /\ GoTo("binder", "gone")
  /\ UNCHANGED <<UseZoom, State, loopVars, streamVars, deviceVars, listening, left, trouble>>

\* A later allocateStream makes a new thread and stream, for a new window.
AllocateStream ==
  /\ pc["binder"] = "gone" /\ loop = "none"
  /\ UseZoom' \in BOOLEAN
  /\ State' = "EXIT" /\ loop' = "none" /\ InitialSkipCount' = 0 /\ filled' = NoBuffer
  /\ service' = Buffers /\ queue' = << >> /\ BufferInited' = FALSE
  /\ present' = TRUE /\ listening' = TRUE
  /\ GoTo("binder", "idle")
  /\ trouble' = IF streaming THEN {"error"} ELSE {}
  /\ UNCHANGED <<deviceVars, left>>

-----------------------------------------------------------------------------
(* The stream thread: PreviewThread's readyToRun and threadLoop.             *)

LoopAt(place) == loop = place
LoopLeaves == UNCHANGED <<UseZoom, callerVars>>

\* threadLoop returns false; Thread clears mRunning a moment later.
ThreadEnds ==
  /\ LoopAt("ending") /\ loop' = "none"
  /\ LoopLeaves
  /\ UNCHANGED <<State, InitialSkipCount, filled, streamVars, deviceVars, trouble>>

\* The macros ERROR_EXIT and CHECK_AND_EXIT.
ErrorExit == /\ Fails
             /\ State' = "EXIT" /\ loop' = "ending"
             /\ trouble' = trouble \cup {"error"}
             /\ UNCHANGED <<UseZoom, callerVars, InitialSkipCount, filled>>

Mut_CheckAndExitRunsOn(place, next) ==
  /\ LoopAt(place)
  /\ State' = IF State = "WAIT_EXIT" THEN "EXIT" ELSE State
  /\ loop' = next
  /\ LoopLeaves
  /\ UNCHANGED <<InitialSkipCount, filled, streamVars, deviceVars, trouble>>
CheckAndExit(place, next) ==
  /\ LoopAt(place)
  /\ IF State = "WAIT_EXIT" THEN State' = "EXIT" /\ loop' = "ending"
                            ELSE UNCHANGED State /\ loop' = next
  /\ LoopLeaves
  /\ UNCHANGED <<InitialSkipCount, filled, streamVars, deviceVars, trouble>>

\* initBuffer: up to MaxBuffers buffers of the window, fewer if it fails.
InitBuffer ==
  /\ BufferInited' = TRUE
  /\ IF BufferInited THEN UNCHANGED <<service, queue>>
     ELSE \E q \in UNION {[1..n -> service] : n \in 0..MaxBuffers} :
            /\ Len(q) = Cardinality(Range(q))
            /\ Fails \/ Len(q) = MaxBuffers
            /\ queue' = queue \o q
            /\ service' = service \ Range(q)

Mut_ReadyToRunNewestFirst ==
  /\ LoopAt("ready") /\ loop' = "dqbuf"
  /\ ~streaming
  /\ InitBuffer
  /\ device' = IF UseZoom THEN [i \in 1..MaxBuffers |-> Zoom]
               ELSE [i \in DOMAIN queue' |-> queue'[Len(queue') + 1 - i]]
  /\ streaming' = TRUE
  /\ InitialSkipCount' = SkipFrames
  /\ LoopLeaves
  /\ UNCHANGED <<State, filled, trouble>>
\* The queue goes to the device oldest buffer first, or else the zoom buffers.
ReadyToRun ==
  /\ LoopAt("ready") /\ loop' = "dqbuf"
  /\ ~streaming
  /\ InitBuffer
  /\ device' = IF UseZoom THEN [i \in 1..MaxBuffers |-> Zoom] ELSE queue'
  /\ streaming' = TRUE
  /\ InitialSkipCount' = SkipFrames
  /\ LoopLeaves
  /\ UNCHANGED <<State, filled, trouble>>

\* readyToRun fails: the thread ends and State stays what it is.  A device that
\* still streams refuses v4l2_reqbuf; without zoom it is switched off then.
ReadyFails ==
  /\ LoopAt("ready") /\ loop' = "none"
  /\ Fails
  /\ InitBuffer
  /\ \/ UNCHANGED deviceVars
     \/ ~UseZoom /\ device' = << >> /\ streaming' = FALSE
  /\ trouble' = trouble \cup {"error"}
  /\ LoopLeaves
  /\ UNCHANGED <<State, InitialSkipCount, filled>>

\* v4l2_dqbuf waits for a frame ...
Dqbuf ==
  /\ LoopAt("dqbuf")
  /\ streaming /\ device # << >>
  /\ filled' = Head(device) /\ device' = Tail(device)
  /\ loop' = IF InitialSkipCount > 0 THEN "skip" ELSE IF UseZoom THEN "zoom" ELSE "check1"
  /\ LoopLeaves
  /\ UNCHANGED <<State, InitialSkipCount, streamVars, streaming, trouble>>

\* ... and fails on a device that was switched off, or broke.
DqbufFails ==
  /\ LoopAt("dqbuf")
  /\ ~streaming \/ Fails
  /\ IF ARCH_S5P6818 THEN UNCHANGED <<State, loop>> ELSE State' = "EXIT" /\ loop' = "ending"
  /\ trouble' = IF streaming THEN trouble \cup {"error"} ELSE trouble
  /\ LoopLeaves
  /\ UNCHANGED <<InitialSkipCount, filled, streamVars, deviceVars>>

\* The oldest buffer of the stream goes back to the service, if there is one.
PopQueue == /\ service' = service \cup (IF queue = << >> THEN {} ELSE {Head(queue)})
            /\ queue' = IF queue = << >> THEN queue ELSE Tail(queue)

SkipFrame ==
  /\ LoopAt("skip") /\ loop' = "check2"
  /\ InitialSkipCount' = InitialSkipCount - 1
  /\ PopQueue
  /\ LoopLeaves
  /\ UNCHANGED <<State, filled, BufferInited, deviceVars, trouble>>

\* getNextBuffer and handleZoom: the frame is scaled into the oldest buffer.  The
\* head of an empty queue is whatever the memory in front of the vector says.
HandleZoom ==
  /\ LoopAt("zoom")
  /\ UNCHANGED <<streamVars, deviceVars>>
  /\ \/ /\ filled' \in IF queue = << >> THEN Buffers \cup {NoBuffer} ELSE {Head(queue)}
        /\ loop' = "check1" /\ LoopLeaves /\ UNCHANGED <<State, InitialSkipCount, trouble>>
     \/ queue = << >> /\ ErrorExit

EnqueueBuffer ==
  /\ LoopAt("enqueue")
  /\ PopQueue
  /\ UNCHANGED <<BufferInited, deviceVars>>
  /\ \/ loop' = "check2" /\ LoopLeaves /\ UNCHANGED <<State, InitialSkipCount, filled, trouble>>
     \/ ErrorExit

DequeueBuffer ==
  /\ LoopAt("dequeue")
  /\ UNCHANGED <<BufferInited, deviceVars>>
  /\ \/ /\ \E b \in service : /\ service' = service \ {b}
                              /\ queue' = Append(queue, b)
                              /\ filled' = b
        /\ loop' = "qbuf" /\ LoopLeaves
        /\ UNCHANGED <<State, InitialSkipCount, trouble>>
     \/ ErrorExit /\ UNCHANGED <<service, queue>>

Qbuf ==
  /\ LoopAt("qbuf")
  /\ UNCHANGED <<streamVars, streaming>>
  /\ \/ /\ device' = Append(device, IF UseZoom THEN Zoom ELSE filled)
        /\ loop' = "check3" /\ LoopLeaves
        /\ UNCHANGED <<State, InitialSkipCount, filled, trouble>>
     \/ ErrorExit /\ UNCHANGED device

StreamThread ==
  \/ ThreadEnds \/ ReadyToRun \/ ReadyFails \/ Dqbuf \/ DqbufFails \/ SkipFrame \/ HandleZoom
  \/ CheckAndExit("check1", "enqueue") \/ EnqueueBuffer
  \/ CheckAndExit("check2", "dequeue") \/ DequeueBuffer
  \/ Qbuf \/ CheckAndExit("check3", "dqbuf")

-----------------------------------------------------------------------------
Next ==
  \/ OnPreviewCommand \/ StartRuns \/ StartSetsState
  \/ OnCaptureCommand \/ CaptureStarts
  \/ ReleaseStream \/ RemoveStream \/ AllocateStream
  \/ \E a \in Callers : \/ StopTests(a) \/ StopAsks(a) \/ StopPolls(a) \/ StopGivesUp(a)
                        \/ FlushBuffer(a) \/ StreamOff(a)
  \/ StreamThread

Spec == Init /\ [][Next]_vars

-----------------------------------------------------------------------------
LoopPlaces == {"none", "ready", "dqbuf", "skip", "zoom", "check1", "enqueue", "check2", "dequeue",
               "qbuf", "check3", "ending"}

TypeOK ==
  /\ State \in {"EXIT", "RUNNING", "WAIT_EXIT"}
  /\ loop \in LoopPlaces
  /\ InitialSkipCount \in 0..SkipFrames
  /\ service \subseteq Buffers /\ Range(queue) \subseteq Buffers
  /\ Range(device) \subseteq Buffers \cup {Zoom}
  /\ left \in [Callers -> 0..Polls + WaitCount]

\* Every buffer of the window is with the service or in the stream's queue,
\* once: no cancel, flush, failure or restart duplicates or drops one.
EachBufferOnce ==
  /\ service \cap Range(queue) = {}
  /\ service \cup Range(queue) = Buffers
  /\ Len(queue) = Cardinality(Range(queue))

\* The buffer enqueueBuffer is about to give to the service is the one that has
\* the frame: the device's order and the queue's agree through skipped frames,
\* failures, flushes and restarts.  (enqueueBuffer does not look at dqIdx.)
FrameOrder == loop = "enqueue" /\ queue # << >> => filled = Head(queue)

\* "must be called when stopped": the stream is taken from under no thread that
\* uses it, if the stop before has not timed out.
RemovedWhenStopped ==
  ~present /\ "timeout" \notin trouble => loop \in {"none", "ending"}

\* The same without the exception.
StoppedOnRelease == ~present => loop \in {"none", "ending"}

\* A stream that is removed with no error and no timeout has given every buffer
\* back to the window.
RemovedHoldsNothing == ~present /\ trouble = {} => service = Buffers

\* A thread that says it is running has a thread, unless that ran into an error.
RunningHasThread == State = "RUNNING" /\ "error" \notin trouble => loop \notin {"none", "ending"}

\* When the capture thread starts, the preview's device is off, unless the
\* preview had ended by an error or the stop timed out: a thread that is slow in
\* readyToRun switches the device on after the stop switched it off.
StoppedIsOff == pc["command"] = "stopped" /\ trouble = {} => ~streaming
=============================================================================
