------------------------ MODULE NXCameraHWInterface2 ------------------------
(* The control side of the camera HAL: the camera service that queues        *)
(* requests and allocates and releases streams (NXCameraHWInterface2,        *)
(* NXStreamManager), the command thread that carries the requests to the     *)
(* stream threads (NXCommandThread), and the stream threads themselves       *)
(* (NXStreamThread: preview with ZSL, capture, record, callback), which stop *)
(* each other and look into each other's streams.  What a thread does with   *)
(* its buffers is in NXStreamThread; the sensor's parameters, zoom and EXIF  *)
(* of a request are left out.  Threads carry the name of the stream they are *)
(* made for, their active stream once they have started.                     *)
EXTENDS Naturals, Sequences, FiniteSets, Functions

CONSTANTS
  ARCH_S5P4418,       \* there a record thread stops the preview first
  Formats,            \* what the service allocates streams for
  Requests,           \* the requests it queues: sequences of stream ids
  MaxQueued,          \* bound: requests waiting in its queue
  MaxStreams,         \* bound: streams the client has at a time
  AfterRace,          \* bound: does the client ask for anything new after a race
  Polls, WaitCount    \* timeOut of stop (5), waitCount of start (10)

Threads == {"PREVIEW", "CAPTURE", "RECORD", "CALLBACK"}
Ids     == Threads \cup {"ZSL"}

ASSUME CameraAssumption ==
  /\ ARCH_S5P4418 \in BOOLEAN /\ AfterRace \in BOOLEAN
  /\ Formats \subseteq {"OPAQUE", "YUV", "BLOB", "ZSL"}
  /\ Requests \subseteq Seq(Ids)
  /\ {MaxQueued, MaxStreams, Polls, WaitCount} \subseteq Nat

NoThread == "none"
Old      == "old"     \* a thread object that only the manager's table still has

VARIABLES
  requests,           \* the service's request queue
  signalConsumer,     \* the service notifies the next request (dequeue had none)
  notifying,          \* ... and is about to
  MsgReceived, command, todo,    \* command thread: where, and the rest of a request
  StreamThreads, CommandListeners,  \* stream id -> thread
  Streams,            \* thread -> its streams
  interlace,          \* the record thread copies the preview's frames
  allocated,          \* the streams the client has
  service,            \* the thread that allocates and releases: where, which stream
  State, loop,        \* of each stream thread; loop is "none" while ~mRunning
  call,               \* who is inside start or stop, of which thread, and where
  shared,             \* history: preview and ZSL once had one thread
  excuse,             \* history: "race" once two callers were inside start or stop of one
                      \*   thread, or a stop gave up on a thread that was alive; else "under"
                      \*   once a stream was released before one that looks into it
  gone                \* history: without excuse a stream or thread was used that is gone

queueVars == <<requests, signalConsumer, notifying, MsgReceived>>
commandVars == <<command, todo>>
tableVars == <<StreamThreads, CommandListeners, Streams, interlace, allocated, shared>>
threadVars == <<State, loop>>
history == <<excuse, gone>>
vars == <<queueVars, commandVars, tableVars, service, threadVars, call, history>>

Callers == {"command", "service", "RECORD"}
Resting == [at |-> "none", of |-> NoThread, left |-> 0]
Calls(a, op, t, n) == call' = [call EXCEPT ![a] = [at |-> op, of |-> t, left |-> n]]
Excused(c, what) == excuse' = IF excuse # "race" /\ c THEN what ELSE excuse
Uses(present) == gone' = (gone \/ (excuse = "none" /\ ~present))
Crosses(a, t) == \E b \in Callers \ {a} : call[b].at # "none" /\ call[b].of = t

TypeOK ==
  /\ requests \in Seq(Seq(Ids)) /\ Len(requests) <= MaxQueued
  /\ signalConsumer \in BOOLEAN /\ notifying \in BOOLEAN /\ MsgReceived \in BOOLEAN
  /\ command \in {"wait", "dequeue", "drained", "callback", "capture"} /\ todo \in Seq(Ids)
  /\ StreamThreads \in [Ids -> Threads \cup {NoThread, Old}]
  /\ CommandListeners \in [Ids -> Threads \cup {NoThread}]
  /\ Streams \in [Threads -> SUBSET Ids] /\ interlace \in BOOLEAN /\ allocated \subseteq Ids
  /\ service \in [at : {"idle", "register", "stop", "remove"}, id : Ids \cup {NoThread}]
  /\ State \in [Threads -> {"EXIT", "RUNNING", "WAIT_EXIT"}]
  /\ loop \in [Threads -> {"none", "ready", "ready2", "run", "peek", "self", "ending"}]
  /\ call \in [Callers -> [at : {"none", "start", "started", "stop", "ask", "poll", "flush"},
                           of : Threads \cup {NoThread}, left : 0..Polls + WaitCount]]
  /\ excuse \in {"none", "race", "under"} /\ shared \in BOOLEAN /\ gone \in BOOLEAN

Init ==
  /\ requests = << >> /\ signalConsumer = TRUE /\ notifying = FALSE /\ MsgReceived = FALSE
  /\ command = "wait" /\ todo = << >>
  /\ StreamThreads = [i \in Ids |-> NoThread] /\ CommandListeners = [i \in Ids |-> NoThread]
  /\ Streams = [t \in Threads |-> {}] /\ interlace = FALSE
  /\ allocated = {} /\ service = [at |-> "idle", id |-> NoThread]
  /\ State = [t \in Threads |-> "EXIT"] /\ loop = [t \in Threads |-> "none"]
  /\ call = [a \in Callers |-> Resting]
  /\ shared = FALSE /\ excuse = "none" /\ gone = FALSE

\* getStreamThread(id)->isRunning(), for a thread that may be missing.
IsRunning(id) == StreamThreads[id] \in Threads /\ State[StreamThreads[id]] = "RUNNING"
-----------------------------------------------------------------------------
(* The camera service's request queue, and NXCommandThread.                  *)

ClientGoesOn == AfterRace \/ excuse # "race"

\* The service notifies the device of the first request after one that found
\* the queue empty.
EnqueueRequest(r) ==
  /\ Len(requests) < MaxQueued /\ Range(r) \subseteq allocated /\ ClientGoesOn
  /\ requests' = Append(requests, r)
  /\ notifying' = (notifying \/ signalConsumer) /\ signalConsumer' = FALSE
  /\ UNCHANGED <<MsgReceived, commandVars, tableVars, service, threadVars, call, history>>

Mut_WakeupSignalsOnly ==
  /\ notifying /\ notifying' = FALSE /\ MsgReceived' = (command = "wait")
  /\ UNCHANGED <<requests, signalConsumer, commandVars, tableVars, service, threadVars, call,
                 history>>
\* wakeup: a flag, for a command thread that is not waiting yet.
Wakeup ==
  /\ notifying /\ notifying' = FALSE /\ MsgReceived' = TRUE
  /\ UNCHANGED <<requests, signalConsumer, commandVars, tableVars, service, threadVars, call,
                 history>>

\* threadLoop, up to processCommand.
ThreadLoop ==
  /\ command = "wait" /\ MsgReceived
  /\ MsgReceived' = FALSE /\ command' = "dequeue"
  /\ UNCHANGED <<requests, signalConsumer, notifying, todo, tableVars, service, threadVars, call,
                 history>>

\* processCommand: all requests there are.
DequeueRequest ==
  /\ command = "dequeue"
  /\ IF requests = << >>
     THEN signalConsumer' = TRUE /\ command' = "drained" /\ UNCHANGED <<requests, todo>>
     ELSE /\ todo' = Head(requests) /\ requests' = Tail(requests)
          /\ command' = "callback" /\ UNCHANGED signalConsumer
  /\ UNCHANGED <<notifying, MsgReceived, tableVars, service, threadVars, call, history>>

\* The listeners are called back without a request, which makes none of them do
\* anything, and the loop comes back to its wait.
NoMoreRequests ==
  /\ command = "drained" /\ command' = "wait"
  /\ UNCHANGED <<queueVars, todo, tableVars, service, threadVars, call, history>>

\* The command thread holds ListenerMutex from the first listener to the last.
ListenerMutexFree == command \in {"wait", "dequeue", "drained"}

\* doListenersCallback: onCommand of the next stream's listener.  A capture
\* stops the preview first, unless something is recorded.
OnCommand ==
  /\ command = "callback" /\ call["command"] = Resting
  /\ IF todo = << >>
     THEN command' = "dequeue" /\ UNCHANGED <<todo, call, excuse>>
     ELSE LET t == CommandListeners[Head(todo)]
              p == StreamThreads["PREVIEW"]
          IN /\ todo' = Tail(todo)
             /\ \/ /\ t = NoThread \/ Head(todo) = "ZSL"
                   /\ UNCHANGED <<command, call, excuse>>
                \/ /\ t = "CAPTURE" /\ ~IsRunning("RECORD") /\ p # NoThread
                   /\ command' = "capture"
                   /\ Calls("command", "stop", p, 0) /\ Excused(Crosses("command", p), "race")
                \/ /\ t \in Threads /\ Head(todo) # "ZSL"
                   /\ t = "CAPTURE" => IsRunning("RECORD") \/ p = NoThread
                   /\ UNCHANGED command /\ Calls("command", "start", t, WaitCount)
                   /\ Excused(Crosses("command", t), "race")
  /\ UNCHANGED <<queueVars, tableVars, service, threadVars, gone>>

\* The preview is stopped: the capture starts.
CaptureGoesOn ==
  /\ command = "capture" /\ call["command"] = Resting
  /\ command' = "callback" /\ Calls("command", "start", "CAPTURE", WaitCount)
  /\ Excused(Crosses("command", "CAPTURE"), "race")
  /\ UNCHANGED <<queueVars, todo, tableVars, service, threadVars, gone>>
-----------------------------------------------------------------------------
(* NXStreamThread::start, which only the command thread calls, and stop.     *)

CallOnly == UNCHANGED <<queueVars, commandVars, tableVars, service>>
EndCall(a) == call' = [call EXCEPT ![a] = Resting]
GoesTo(a, place) == call' = [call EXCEPT ![a].at = place]

\* See StartRuns of NXStreamThread.
StartRuns ==
  LET c == call["command"] t == c.of
  IN /\ c.at = "start"
     /\ \/ /\ State[t] = "WAIT_EXIT" /\ c.left > 0
           /\ call' = [call EXCEPT !["command"].left = @ - 1] /\ UNCHANGED loop
        \/ /\ State[t] = "EXIT" /\ t \in Streams[t] /\ loop[t] = "none"
           /\ loop' = [loop EXCEPT ![t] = "ready"] /\ GoesTo("command", "started")
        \/ /\ \/ State[t] = "RUNNING"
              \/ State[t] = "WAIT_EXIT" /\ c.left = 0
              \/ State[t] = "EXIT" /\ ~(t \in Streams[t] /\ loop[t] = "none")
           /\ EndCall("command") /\ UNCHANGED loop
     /\ CallOnly /\ UNCHANGED <<State, history>>

StartSetsState ==
  /\ call["command"].at = "started"
  /\ State' = [State EXCEPT ![call["command"].of] = "RUNNING"] /\ EndCall("command")
  /\ CallOnly /\ UNCHANGED <<loop, history>>

StopTests(a) ==
  /\ call[a].at = "stop"
  /\ IF State[call[a].of] = "EXIT" THEN EndCall(a) ELSE GoesTo(a, "ask")
  /\ CallOnly /\ UNCHANGED <<threadVars, history>>

StopAsks(a) ==
  /\ call[a].at = "ask"
  /\ State' = [State EXCEPT ![call[a].of] = "WAIT_EXIT"]
  /\ call' = [call EXCEPT ![a].at = "poll", ![a].left = Polls]
  /\ CallOnly /\ UNCHANGED <<loop, history>>

Mut_StopPollsForever(a) ==
  /\ call[a].at = "poll" /\ State[call[a].of] # "EXIT"
  /\ call' = [call EXCEPT ![a].left = IF @ = 0 THEN Polls + WaitCount + 1 ELSE @ - 1]
  /\ CallOnly /\ UNCHANGED <<threadVars, history>>
StopPolls(a) ==
  /\ call[a].at = "poll" /\ State[call[a].of] # "EXIT" /\ call[a].left > 0
  /\ call' = [call EXCEPT ![a].left = @ - 1]
  /\ CallOnly /\ UNCHANGED <<threadVars, history>>

Mut_StopGivesUpQuietly(a) ==
  LET t == call[a].of
  IN /\ call[a].at = "poll"
     /\ \/ State[t] = "EXIT" /\ call[a].left > 0 /\ GoesTo(a, "flush") /\ UNCHANGED excuse
        \/ call[a].left = 0 /\ EndCall(a) /\ Excused(loop[t] \notin {"none", "ending"}, "race")
     /\ CallOnly /\ UNCHANGED <<threadVars, gone>>
\* The thread has exited in time, or is declared to have: then it is not flushed.
StopGivesUp(a) ==
  LET t == call[a].of
  IN /\ call[a].at = "poll"
     /\ \/ State[t] = "EXIT" /\ call[a].left > 0 /\ GoesTo(a, "flush") /\ UNCHANGED excuse
        \/ call[a].left = 0 /\ EndCall(a) /\ Excused(loop[t] \notin {"none", "ending"}, "race")
     /\ State' = [State EXCEPT ![t] = "EXIT"]
     /\ CallOnly /\ UNCHANGED <<loop, gone>>

\* getActiveStream, flushBuffer and v4l2_streamoff.
StopFlushes(a) ==
  /\ call[a].at = "flush" /\ EndCall(a)
  /\ Uses(call[a].of \in Streams[call[a].of])
  /\ CallOnly /\ UNCHANGED <<threadVars, excuse>>

StreamCalls ==
  \/ StartRuns \/ StartSetsState
  \/ \E a \in Callers : StopTests(a) \/ StopAsks(a) \/ StopPolls(a) \/ StopGivesUp(a) \/ StopFlushes(a)
-----------------------------------------------------------------------------
(* allocateStream and releaseStream.                                         *)

ServiceAt(place) == service.at = place
ServiceGoes(place, id) == service' = [at |-> place, id |-> id]

whatStreamAllocate(format) ==
  CASE format = "OPAQUE" -> IF StreamThreads["PREVIEW"] = NoThread THEN "PREVIEW" ELSE "RECORD"
    [] format = "YUV"    -> "CALLBACK"
    [] format = "BLOB"   -> "CAPTURE"
    [] format = "ZSL"    -> "ZSL"

\* NXStreamManager::allocateStream: a new thread, or the preview's for ZSL.  One
\* whose predecessor has not ended yet is left out.
AllocateStream(format) ==
  LET id == whatStreamAllocate(format)
      t  == IF id = "ZSL" THEN StreamThreads["PREVIEW"] ELSE id
  IN /\ ServiceAt("idle") /\ StreamThreads[id] = NoThread
     /\ Cardinality(allocated) < MaxStreams /\ ClientGoesOn
     /\ t \in Threads
     /\ IF id = "ZSL"
        THEN /\ Streams' = [Streams EXCEPT ![t] = @ \cup {id}] /\ shared' = TRUE
             /\ StreamThreads' = [StreamThreads EXCEPT ![id] = t] /\ UNCHANGED <<interlace, State>>
        ELSE /\ loop[t] = "none"
             /\ Streams' = [Streams EXCEPT ![t] = {id}]
             /\ StreamThreads' = [i \in Ids |-> IF i = id THEN t
                                                ELSE IF StreamThreads[i] = t THEN Old
                                                ELSE StreamThreads[i]]
             /\ State' = [State EXCEPT ![t] = "EXIT"]
             /\ interlace' \in (IF id = "RECORD" THEN BOOLEAN ELSE {interlace})
             /\ UNCHANGED shared
     /\ ServiceGoes("register", id)
     /\ UNCHANGED <<queueVars, commandVars, CommandListeners, allocated, loop, call, history>>

RegisterListener ==
  LET id == service.id
  IN /\ ServiceAt("register") /\ ListenerMutexFree
     /\ CommandListeners' = [CommandListeners EXCEPT ![id] = StreamThreads[id]]
     /\ allocated' = allocated \cup {id} /\ ServiceGoes("idle", NoThread)
     /\ UNCHANGED <<queueVars, commandVars, StreamThreads, Streams, interlace, shared, threadVars,
                    call, history>>

\* The threads that look into the stream of another.
LooksInto(id) ==
  CASE id = "PREVIEW" -> {"CALLBACK", "RECORD"} [] id = "RECORD" -> {"CAPTURE"} [] OTHER -> {}

Mut_ReleaseStreamKeepsListener(id) ==
  LET t == StreamThreads[id]
  IN /\ ServiceAt("idle") /\ id \in allocated /\ ListenerMutexFree
     /\ allocated' = allocated \ {id}
     /\ Calls("service", "stop", t, 0)
     /\ Excused(Crosses("service", t), "race")
     /\ ServiceGoes("remove", id)
     /\ UNCHANGED <<queueVars, commandVars, StreamThreads, CommandListeners, Streams, interlace,
                    shared, threadVars, gone>>
\* releaseStream: removeListener waits for the command thread's onCommand.
ReleaseStream(id) ==
  LET t == StreamThreads[id]
  IN /\ ServiceAt("idle") /\ id \in allocated /\ ListenerMutexFree
     /\ CommandListeners' = [CommandListeners EXCEPT ![id] = NoThread]
     /\ allocated' = allocated \ {id}
     /\ Calls("service", "stop", t, 0)
     /\ IF \E u \in LooksInto(id) : u \in allocated \/ loop[u] # "none"
        THEN Excused(TRUE, IF Crosses("service", t) THEN "race" ELSE "under")
        ELSE Excused(Crosses("service", t), "race")
     /\ ServiceGoes("remove", id)
     /\ UNCHANGED <<queueVars, commandVars, StreamThreads, Streams, interlace, shared, threadVars,
                    gone>>

Mut_RemoveStreamAtOnce ==
  LET id == service.id t == StreamThreads[id]
  IN /\ ServiceAt("remove")
     /\ Streams' = [Streams EXCEPT ![t] = @ \ {id}]
     /\ StreamThreads' = IF Streams[t] = {id} THEN [StreamThreads EXCEPT ![id] = NoThread]
                         ELSE StreamThreads
     /\ ServiceGoes("idle", NoThread)
     /\ UNCHANGED <<queueVars, commandVars, CommandListeners, interlace, allocated, shared,
                    threadVars, call, history>>
\* removeStream of the thread; without streams it is released and removed.
RemoveStream ==
  LET id == service.id t == StreamThreads[id]
  IN /\ ServiceAt("remove") /\ call["service"] = Resting
     /\ Streams' = [Streams EXCEPT ![t] = @ \ {id}]
     /\ StreamThreads' = IF Streams[t] = {id} THEN [StreamThreads EXCEPT ![id] = NoThread]
                         ELSE StreamThreads
     /\ ServiceGoes("idle", NoThread)
     /\ UNCHANGED <<queueVars, commandVars, CommandListeners, interlace, allocated, shared,
                    threadVars, call, history>>
-----------------------------------------------------------------------------
(* The stream threads: readyToRun and threadLoop, as far as the others see   *)
(* them.                                                                     *)

LoopOnly == UNCHANGED <<queueVars, commandVars, tableVars, service>>
LoopGoes(t, place) == loop' = [loop EXCEPT ![t] = place]
Steady == UNCHANGED <<State, call, history>>

\* Does thread t copy the frames of the preview.
Copies(t) == t = "CALLBACK" \/ (t = "RECORD" /\ interlace)
StopsPreview(t) == t = "RECORD" /\ ~interlace /\ ARCH_S5P4418

\* readyToRun succeeds, or fails and leaves the state alone; a record thread
\* that does not copy wants a running preview, on S5P4418 after it stopped it.
ReadyToRun(t) ==
  /\ LoopOnly
  /\ \/ loop[t] = "ready" /\ LoopGoes(t, "ending") /\ Steady
     \/ /\ loop[t] = "ready" /\ (t # "RECORD" \/ interlace)
        /\ LoopGoes(t, "run") /\ Steady
     \/ /\ loop[t] = "ready" /\ StopsPreview(t)
        /\ LoopGoes(t, "ready2")
        /\ LET p == StreamThreads["PREVIEW"]
           IN IF p \in Threads
              THEN /\ Calls("RECORD", "stop", p, 0) /\ Excused(Crosses("RECORD", p), "race")
                   /\ UNCHANGED <<State, gone>>
              ELSE Uses(FALSE) /\ UNCHANGED <<State, call, excuse>>
     \/ /\ t = "RECORD" /\ ~interlace
        /\ IF ARCH_S5P4418 THEN loop[t] = "ready2" /\ call["RECORD"] = Resting
                           ELSE loop[t] = "ready"
        /\ LoopGoes(t, IF IsRunning("PREVIEW") THEN "run" ELSE "ending") /\ Steady

\* CHECK_AND_EXIT; the capture has none.
CheckAndExit(t) ==
  /\ loop[t] \in {"run", "peek"} /\ t # "CAPTURE" /\ State[t] = "WAIT_EXIT"
  /\ LoopGoes(t, "ending") /\ State' = [State EXCEPT ![t] = "EXIT"]
  /\ LoopOnly /\ UNCHANGED <<call, history>>

\* ERROR_EXIT; a record thread whose v4l2_dqbuf fails leaves its state alone.
ErrorExit(t) ==
  /\ loop[t] = "run" /\ LoopGoes(t, "ending")
  /\ \/ State' = [State EXCEPT ![t] = "EXIT"]
     \/ t = "RECORD" /\ ~interlace /\ UNCHANGED State
  /\ LoopOnly /\ UNCHANGED <<call, history>>

\* The test that another thread is running, and what is read of it then.
Looks(t) ==
  /\ loop[t] = "run"
  /\ \/ Copies(t) /\ IsRunning("PREVIEW")
     \/ t = "CAPTURE" /\ IsRunning("RECORD")
  /\ LoopGoes(t, "peek") /\ Steady /\ LoopOnly

GetLastBuffer(t) ==
  LET o == IF t = "CAPTURE" THEN "RECORD" ELSE "PREVIEW"
  IN /\ loop[t] = "peek" /\ (t # "CAPTURE" => State[t] # "WAIT_EXIT")
     /\ Uses(o \in Streams[o])
     /\ LoopGoes(t, IF t = "CAPTURE" THEN "self" ELSE "run")
     /\ LoopOnly /\ UNCHANGED <<State, call, excuse>>

\* A capture that has its picture stops itself, without waiting.
CaptureShoots ==
  /\ loop["CAPTURE"] = "run" /\ ~IsRunning("RECORD")
  /\ LoopGoes("CAPTURE", "self") /\ Steady /\ LoopOnly

CaptureStopsItself ==
  /\ loop["CAPTURE"] = "self" /\ LoopGoes("CAPTURE", "ending")
  /\ State' = [State EXCEPT !["CAPTURE"] = "EXIT"]
  /\ Uses(State["CAPTURE"] = "EXIT" \/ "CAPTURE" \in Streams["CAPTURE"])
  /\ LoopOnly /\ UNCHANGED <<call, excuse>>

\* Thread clears mRunning a moment after the loop has ended.
ThreadEnds(t) ==
  /\ loop[t] = "ending" /\ LoopGoes(t, "none") /\ Steady /\ LoopOnly

StreamThread(t) ==
  \/ ReadyToRun(t) \/ CheckAndExit(t) \/ ErrorExit(t) \/ Looks(t) \/ GetLastBuffer(t)
  \/ ThreadEnds(t)
-----------------------------------------------------------------------------
CommandThread == ThreadLoop \/ DequeueRequest \/ NoMoreRequests \/ OnCommand \/ CaptureGoesOn

Next ==
  \/ \E r \in Requests : EnqueueRequest(r)
  \/ Wakeup \/ CommandThread \/ StreamCalls
  \/ \E f \in Formats : AllocateStream(f)
  \/ RegisterListener \/ RemoveStream
  \/ \E i \in Ids : ReleaseStream(i)
  \/ \E t \in Threads : StreamThread(t)
  \/ CaptureShoots \/ CaptureStopsItself

Spec == Init /\ [][Next]_vars
-----------------------------------------------------------------------------
(* Properties.                                                               *)

\* wakeup sets a flag, processCommand drains the queue, and the service notifies
\* only after the queue was found empty: the command thread never waits for a
\* notification that has come and gone while requests are queued.
NoRequestLost == requests # << >> /\ command = "wait" => MsgReceived \/ notifying

\* The listeners of the command thread, the manager's table, the threads'
\* streams and the client's streams agree at every step: who is called back
\* still has its stream, and, unless preview and ZSL ever shared a thread (either
\* order of releasing them leaves a stale entry), the manager knows exactly the
\* streams the client has.
RegistryConsistent ==
  /\ \A i \in Ids : CommandListeners[i] # NoThread =>
       StreamThreads[i] = CommandListeners[i] /\ i \in Streams[CommandListeners[i]]
  /\ (ServiceAt("idle") /\ ~shared => {i \in Ids : StreamThreads[i] # NoThread} = allocated)

\* State, which three threads and the loop itself set without a lock: WAIT_EXIT
\* always has somebody waiting (or start could never succeed again), and a
\* thread that says EXIT is not in its loop, unless a stop gave up on it or two
\* callers met in start and stop.
StateIsHonest ==
  \A t \in Threads :
    /\ State[t] = "WAIT_EXIT" => \E a \in Callers : call[a].at = "poll" /\ call[a].of = t
    /\ (State[t] = "EXIT" /\ loop[t] \notin {"none", "ending"} =>
          excuse = "race" \/ (call["command"].at = "started" /\ call["command"].of = t))

\* The threads look at each other's state first and at each other's streams
\* later: if the client releases a stream after those that look into it, and
\* starts and stops do not meet, no thread reaches for a stream that was removed,
\* its own, which every turn of its loop asks for, included.
NothingGoneIsUsed ==
  /\ ~gone
  /\ \A t \in Threads :
       loop[t] \notin {"none", "ending"} => t \in Streams[t] \/ excuse = "race"
=============================================================================
