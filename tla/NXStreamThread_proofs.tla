------------------------ MODULE NXStreamThread_proofs ------------------------
(* What a stop of a camera stream leaves behind, for every number of         *)
(* buffers, of polls and of frames: no thread, no device that runs, no       *)
(* buffer of the window; and which buffer the window gets with a frame.      *)
EXTENDS NXStreamThread, FiniteSetTheorems, TLAPS

Places == {"idle", "start", "started", "stop", "ask", "poll", "flush", "off", "stopped",
           "remove", "gone"}
Kinds == {"error", "timeout"}
AtRest == {"none", "ending"}          \* a thread that uses the stream no more

\* What the invariants below say of each variable by itself.
Typed ==
  /\ State \in {"EXIT", "RUNNING", "WAIT_EXIT"}
  /\ loop \in LoopPlaces
  /\ pc \in [Callers -> Places]
  /\ trouble \in SUBSET Kinds

\* ListenerMutex: a release comes after the onCommand that is under way, and no
\* other one follows.
Mutex == pc["binder"] # "idle" => pc["command"] = "idle" /\ ~listening

Presence == ~present => pc["binder"] = "gone"

\* After the poll the stop has declared the thread to have exited, and the state
\* stays so; start sets RUNNING only after Thread::run.
Declared ==
  \/ pc["command"] \in {"started", "flush", "off", "stopped"}
  \/ pc["binder"] \in {"flush", "off", "remove", "gone"}
  => State = "EXIT"

\* The exit that is waited for is waited for by somebody.
Asked == State = "WAIT_EXIT" => pc["command"] = "poll" \/ pc["binder"] = "poll"

\* A declared exit is a real one, but for a timeout and for a thread just run.
Exited == State = "EXIT" /\ pc["command"] # "started" /\ "timeout" \notin trouble => loop \in AtRest

\* The thread just run is alive when start sets RUNNING: its v4l2_dqbuf does not
\* fail, for nobody switches its device off.
Starting == pc["command"] = "started" /\ "error" \notin trouble
            => loop = "ready" \/ (loop \notin AtRest /\ streaming)

Works == trouble = {} /\ loop \notin AtRest \cup {"ready"} => streaming

\* A thread that exited leaves the device on and buffers in the queue: only
\* until the stop it exited for has switched off and flushed.
DeviceOff == State = "EXIT" /\ trouble = {} /\ streaming
             => \/ pc["command"] \in {"started", "poll", "flush", "off"}
                \/ pc["binder"] \in {"poll", "flush", "off"}
QueueEmpty == State = "EXIT" /\ trouble = {} /\ queue # << >>
              => \/ pc["command"] \in {"started", "poll", "flush"}
                 \/ pc["binder"] \in {"poll", "flush"}

IInv == /\ Typed /\ Mutex /\ Presence /\ Declared /\ Asked /\ Exited /\ Starting /\ Works
        /\ RunningHasThread /\ DeviceOff /\ QueueEmpty

\* EachBufferOnce without the cardinality.
Held == /\ queue \in Seq(Buffers)
        /\ service \cap Range(queue) = {}
        /\ service \cup Range(queue) = Buffers
        /\ IsInjective(queue)

-----------------------------------------------------------------------------
USE DEF Places, Kinds, AtRest, LoopPlaces, Callers

\* A stream just allocated has no thread, no buffer and a device that is off.
LEMMA InitIInv == Init => IInv
BY DEF Init, IInv, Typed, Mutex, Presence, Declared, Asked, Exited, Starting, Works,
       RunningHasThread,
       DeviceOff, QueueEmpty

(* The two callers.  None of their steps but StartRuns and AllocateStream     *)
(* moves the stream thread.                                                   *)

\* start runs a thread only where the last one has ended.
LEMMA StartIInv ==
  ASSUME IInv, OnPreviewCommand \/ StartRuns \/ StartSetsState
  PROVE  IInv'
<1>1. CASE OnPreviewCommand
  BY <1>1 DEF OnPreviewCommand, GoTo, loopVars, streamVars, deviceVars, IInv, Typed, Mutex,
         Presence, Declared, Asked, Exited, Starting, Works, RunningHasThread,
         DeviceOff, QueueEmpty
<1>2. CASE StartRuns
  BY <1>2 DEF StartRuns, GoTo, streamVars, deviceVars, IInv, Typed, Mutex, Presence, Declared,
         Asked, Exited, Starting, Works, RunningHasThread,
         DeviceOff, QueueEmpty
<1>3. CASE StartSetsState
  BY <1>3 DEF StartSetsState, GoTo, loopVars, streamVars, deviceVars, IInv, Typed, Mutex,
         Presence, Declared, Asked, Exited, Starting, Works, RunningHasThread,
         DeviceOff, QueueEmpty
<1>4. QED
  BY <1>1, <1>2, <1>3

\* What comes before and after the stops of a capture and of a release.
LEMMA CommandIInv ==
  ASSUME IInv, \/ OnCaptureCommand \/ CaptureStarts
               \/ ReleaseStream \/ RemoveStream \/ AllocateStream
  PROVE  IInv'
<1>1. CASE OnCaptureCommand
  BY <1>1 DEF OnCaptureCommand, GoTo, loopVars, streamVars, deviceVars, IInv, Typed, Mutex,
         Presence, Declared, Asked, Exited, Starting, Works, RunningHasThread,
         DeviceOff, QueueEmpty
<1>2. CASE CaptureStarts
  BY <1>2 DEF CaptureStarts, GoTo, loopVars, streamVars, deviceVars, IInv, Typed, Mutex,
         Presence, Declared, Asked, Exited, Starting, Works, RunningHasThread,
         DeviceOff, QueueEmpty
<1>3. CASE ReleaseStream
  BY <1>3 DEF ReleaseStream, GoTo, loopVars, streamVars, deviceVars, IInv, Typed, Mutex,
         Presence, Declared, Asked, Exited, Starting, Works, RunningHasThread,
         DeviceOff, QueueEmpty
<1>4. CASE RemoveStream
  BY <1>4 DEF RemoveStream, GoTo, loopVars, streamVars, deviceVars, IInv, Typed, Mutex,
         Presence, Declared, Asked, Exited, Starting, Works, RunningHasThread,
         DeviceOff, QueueEmpty
<1>5. CASE AllocateStream
  BY <1>5 DEF AllocateStream, GoTo, deviceVars, IInv, Typed, Mutex, Presence, Declared, Asked,
         Exited, Starting, Works, RunningHasThread,
         DeviceOff, QueueEmpty
<1>6. QED
  BY <1>1, <1>2, <1>3, <1>4, <1>5

\* A stop that does not time out goes on only when the thread has exited.
LEMMA StopIInv ==
  ASSUME IInv, NEW a \in Callers,
         \/ StopTests(a) \/ StopAsks(a) \/ StopPolls(a) \/ StopGivesUp(a)
         \/ FlushBuffer(a) \/ StreamOff(a)
  PROVE  IInv'
<1>1. CASE StopTests(a)
  BY <1>1 DEF StopTests, AfterStop, GoTo, loopVars, streamVars, deviceVars, IInv, Typed, Mutex,
         Presence, Declared, Asked, Exited, Starting, Works, RunningHasThread,
         DeviceOff, QueueEmpty
<1>2. CASE StopAsks(a)
  BY <1>2 DEF StopAsks, GoTo, loopVars, streamVars, deviceVars, IInv, Typed, Mutex, Presence,
         Declared, Asked, Exited, Starting, Works, RunningHasThread,
         DeviceOff, QueueEmpty
<1>3. CASE StopPolls(a)
  BY <1>3 DEF StopPolls, loopVars, streamVars, deviceVars, IInv, Typed, Mutex, Presence,
         Declared, Asked, Exited, Starting, Works, RunningHasThread,
         DeviceOff, QueueEmpty
<1>4. CASE StopGivesUp(a)
  BY <1>4 DEF StopGivesUp, GoTo, loopVars, streamVars, deviceVars, IInv, Typed, Mutex, Presence,
         Declared, Asked, Exited, Starting, Works, RunningHasThread,
         DeviceOff, QueueEmpty
<1>5. CASE FlushBuffer(a)
  BY <1>5 DEF FlushBuffer, GoTo, loopVars, deviceVars, IInv, Typed, Mutex, Presence, Declared,
         Asked, Exited, Starting, Works, RunningHasThread,
         DeviceOff, QueueEmpty
<1>6. CASE StreamOff(a)
  BY <1>6 DEF StreamOff, AfterStop, GoTo, loopVars, streamVars, IInv, Typed, Mutex, Presence,
         Declared, Asked, Exited, Starting, Works, RunningHasThread,
         DeviceOff, QueueEmpty
<1>7. QED
  BY <1>1, <1>2, <1>3, <1>4, <1>5, <1>6

(* The stream thread.                                                         *)

\* A thread that goes on leaves the state alone: whatever it does to the
\* buffers, the stream is not yet declared to have exited.
LEMMA GoesOnIInv ==
  ASSUME IInv, loop \in LoopPlaces \ (AtRest \cup {"ready"}),
         loop' \in LoopPlaces \ (AtRest \cup {"ready"}),
         UNCHANGED <<State, streaming, trouble, callerVars>>
  PROVE  IInv'
BY DEF callerVars, IInv, Typed, Mutex, Presence, Declared, Asked, Exited, Starting, Works,
       RunningHasThread,
         DeviceOff, QueueEmpty

\* A thread that gives up says so in the state, and an error excuses the rest.
LEMMA ErrorIInv ==
  ASSUME IInv, ErrorExit, streaming' = streaming
  PROVE  IInv'
BY DEF ErrorExit, callerVars, IInv, Typed, Mutex, Presence, Declared, Asked, Exited, Starting,
       Works, RunningHasThread,
         DeviceOff, QueueEmpty

\* A thread that obeys WAIT_EXIT leaves its buffers to the stop that waits.
LEMMA CheckIInv ==
  ASSUME IInv, NEW place \in LoopPlaces \ (AtRest \cup {"ready"}),
         NEW next \in LoopPlaces \ (AtRest \cup {"ready"}), CheckAndExit(place, next)
  PROVE  IInv'
<1>1. CASE State = "WAIT_EXIT"
  BY <1>1 DEF CheckAndExit, LoopAt, LoopLeaves, callerVars, streamVars, deviceVars, IInv, Typed,
         Mutex, Presence, Declared, Asked, Exited, Starting, Works, RunningHasThread,
         DeviceOff, QueueEmpty
<1>2. CASE State # "WAIT_EXIT"
  BY <1>2, GoesOnIInv DEF CheckAndExit, LoopAt, LoopLeaves, deviceVars
<1>3. QED
  BY <1>1, <1>2

\* The steps of the stream thread, one by one.
LEMMA ThreadIInv == ASSUME IInv, StreamThread PROVE IInv'
<1>1. CASE ThreadEnds
  BY <1>1 DEF ThreadEnds, LoopAt, LoopLeaves, callerVars, streamVars, deviceVars, IInv, Typed,
         Mutex, Presence, Declared, Asked, Exited, Starting, Works, RunningHasThread,
         DeviceOff, QueueEmpty
<1>2. CASE ReadyToRun
  BY <1>2 DEF ReadyToRun, LoopAt, LoopLeaves, callerVars, IInv, Typed, Mutex, Presence,
         Declared, Asked, Exited, Starting, Works, RunningHasThread,
         DeviceOff, QueueEmpty
<1>3. CASE ReadyFails
  BY <1>3 DEF ReadyFails, LoopAt, LoopLeaves, callerVars, IInv, Typed, Mutex, Presence,
         Declared, Asked, Exited, Starting, Works, RunningHasThread,
         DeviceOff, QueueEmpty
<1>4. CASE Dqbuf
  BY <1>4, GoesOnIInv DEF Dqbuf, LoopAt, LoopLeaves
<1>5. CASE DqbufFails
  BY <1>5 DEF DqbufFails, LoopAt, LoopLeaves, callerVars, streamVars, deviceVars, IInv, Typed,
         Mutex, Presence, Declared, Asked, Exited, Starting, Works, RunningHasThread,
         DeviceOff, QueueEmpty
<1>6. CASE SkipFrame
  BY <1>6, GoesOnIInv DEF SkipFrame, LoopAt, LoopLeaves, deviceVars
<1>7. CASE HandleZoom
  BY <1>7, GoesOnIInv, ErrorIInv DEF HandleZoom, LoopAt, LoopLeaves, deviceVars
<1>8. CASE EnqueueBuffer
  BY <1>8, GoesOnIInv, ErrorIInv DEF EnqueueBuffer, LoopAt, LoopLeaves, deviceVars
<1>9. CASE DequeueBuffer
  BY <1>9, GoesOnIInv, ErrorIInv DEF DequeueBuffer, LoopAt, LoopLeaves, deviceVars
<1>10. CASE Qbuf
  BY <1>10, GoesOnIInv, ErrorIInv DEF Qbuf, LoopAt, LoopLeaves
<1>11. CASE \/ CheckAndExit("check1", "enqueue") \/ CheckAndExit("check2", "dequeue")
            \/ CheckAndExit("check3", "dqbuf")
  BY <1>11, CheckIInv
<1>12. QED
  BY <1>1, <1>2, <1>3, <1>4, <1>5, <1>6, <1>7, <1>8, <1>9, <1>10, <1>11 DEF StreamThread

\* The control invariant is inductive.
LEMMA NextIInv == IInv /\ [Next]_vars => IInv'
<1>1. ASSUME IInv, UNCHANGED vars PROVE IInv'
  BY <1>1 DEF vars, loopVars, streamVars, deviceVars, callerVars, IInv, Typed, Mutex, Presence,
         Declared, Asked, Exited, Starting, Works, RunningHasThread,
         DeviceOff, QueueEmpty
<1>2. QED
  BY <1>1, StartIInv, CommandIInv, StopIInv, ThreadIInv DEF Next

-----------------------------------------------------------------------------
(* The buffers.  What the stream does to its queue, by its range.             *)

\* What two sequences hold together.
LEMMA RangeConcat ==
  ASSUME NEW S, NEW s \in Seq(S), NEW t \in Seq(S)
  PROVE  Range(s \o t) = Range(s) \cup Range(t)
<1>1. \A i \in DOMAIN t : (s \o t)[i + Len(s)] = t[i] /\ i + Len(s) \in DOMAIN (s \o t)
  OBVIOUS
<1>2. \A i \in DOMAIN s : (s \o t)[i] = s[i] /\ i \in DOMAIN (s \o t)
  OBVIOUS
<1>3. \A i \in DOMAIN (s \o t) : \/ i \in DOMAIN s
                                 \/ i - Len(s) \in DOMAIN t /\ (s \o t)[i] = t[i - Len(s)]
  OBVIOUS
<1>4. Range(t) \subseteq Range(s \o t)
  BY <1>1 DEF Range
<1>5. Range(s) \subseteq Range(s \o t)
  BY <1>2 DEF Range
<1>6. Range(s \o t) \subseteq Range(s) \cup Range(t)
  BY <1>2, <1>3 DEF Range
<1>7. QED
  BY <1>4, <1>5, <1>6

\* What is left of a sequence without its head.
LEMMA RangeTail ==
  ASSUME NEW S, NEW s \in Seq(S), s # << >>
  PROVE  Range(s) = {Head(s)} \cup Range(Tail(s))
<1>1. \A i \in DOMAIN Tail(s) : i + 1 \in DOMAIN s /\ Tail(s)[i] = s[i + 1]
  OBVIOUS
<1>2. \A i \in DOMAIN s : i = 1 \/ (i - 1 \in DOMAIN Tail(s) /\ Tail(s)[i - 1] = s[i])
  OBVIOUS
<1>3. 1 \in DOMAIN s /\ Head(s) = s[1]
  OBVIOUS
<1>4. {Head(s)} \cup Range(Tail(s)) \subseteq Range(s)
  BY <1>1, <1>3 DEF Range
<1>5. Range(s) \subseteq {Head(s)} \cup Range(Tail(s))
  BY <1>2, <1>3 DEF Range
<1>6. QED
  BY <1>4, <1>5

\* A sequence has as many elements as places just if no element comes twice.
LEMMA InjectiveCounts ==
  ASSUME NEW S, NEW s \in Seq(S)
  PROVE  IsInjective(s) <=> Len(s) = Cardinality(Range(s))
<1>1. s \in Surjection(1..Len(s), Range(s))
  BY DEF Surjection, Range
<1>2. IsFiniteSet(1..Len(s)) /\ Cardinality(1..Len(s)) = Len(s)
  <2>1. Len(s) \in Nat
    OBVIOUS
  <2>2. QED
    BY <2>1, FS_Interval
<1>3. s \in Injection(1..Len(s), Range(s)) <=> IsInjective(s)
  BY <1>1 DEF Injection, Surjection, IsInjective
<1>4. QED
  BY <1>1, <1>2, <1>3, FS_Surjection

\* enqueueBuffer and cancelBuffer give one buffer away.
LEMMA PopHeld == ASSUME Held, PopQueue PROVE Held'
<1>1. CASE queue = << >>
  BY <1>1 DEF Held, PopQueue
<1>2. CASE queue # << >>
  <2>1. queue' = Tail(queue) /\ service' = service \cup {Head(queue)}
    BY <1>2 DEF PopQueue
  <2>2. Range(queue) = {Head(queue)} \cup Range(Tail(queue))
    BY <1>2, RangeTail DEF Held
  <2>3. IsInjective(Tail(queue)) /\ Head(queue) \notin Range(Tail(queue))
    <3>1. \A i \in DOMAIN Tail(queue) : i + 1 \in DOMAIN queue /\ Tail(queue)[i] = queue[i + 1]
      BY <1>2 DEF Held
    <3>2. 1 \in DOMAIN queue /\ Head(queue) = queue[1] /\ DOMAIN Tail(queue) \subseteq Nat \ {0}
      BY <1>2 DEF Held
    <3>3. QED
      BY <3>1, <3>2 DEF Held, IsInjective, Range
  <2>4. queue' \in Seq(Buffers)
    BY <1>2, <2>1 DEF Held
  <2>5. QED
    BY <2>1, <2>2, <2>3, <2>4 DEF Held
<1>3. QED
  BY <1>1, <1>2

\* Two sequences without repetition and without a common element.
LEMMA InjectiveConcat ==
  ASSUME NEW S, NEW s \in Seq(S), NEW t \in Seq(S), IsInjective(s), IsInjective(t),
         Range(s) \cap Range(t) = {}
  PROVE  IsInjective(s \o t)
<1> SUFFICES ASSUME NEW i \in DOMAIN (s \o t), NEW j \in DOMAIN (s \o t),
                    (s \o t)[i] = (s \o t)[j]
             PROVE  i = j
  BY DEF IsInjective
<1>1. \A k \in DOMAIN (s \o t) :
        \/ k \in DOMAIN s /\ (s \o t)[k] = s[k]
        \/ k - Len(s) \in DOMAIN t /\ (s \o t)[k] = t[k - Len(s)]
  OBVIOUS
<1>2. i \in Int /\ j \in Int /\ Len(s) \in Int
  OBVIOUS
<1>3. CASE i \in DOMAIN s /\ j \in DOMAIN s
  BY <1>1, <1>3 DEF IsInjective
<1>4. CASE i - Len(s) \in DOMAIN t /\ j - Len(s) \in DOMAIN t
  BY <1>1, <1>2, <1>4 DEF IsInjective
<1>5. CASE i \in DOMAIN s /\ j - Len(s) \in DOMAIN t
  <2>1. (s \o t)[i] = s[i] /\ (s \o t)[j] = t[j - Len(s)]
    BY <1>5
  <2>2. QED
    BY <1>5, <2>1 DEF Range
<1>6. CASE j \in DOMAIN s /\ i - Len(s) \in DOMAIN t
  <2>1. (s \o t)[j] = s[j] /\ (s \o t)[i] = t[i - Len(s)]
    BY <1>6
  <2>2. QED
    BY <1>6, <2>1 DEF Range
<1>7. QED
  BY <1>1, <1>3, <1>4, <1>5, <1>6

\* dequeueBuffer takes one buffer, initBuffer several, each from the service.
LEMMA TakeHeld ==
  ASSUME Held, NEW q \in Seq(service), IsInjective(q),
         queue' = queue \o q, service' = service \ Range(q)
  PROVE  Held'
<1>1. Range(q) \subseteq service
  BY DEF Range
<1>2. q \in Seq(Buffers)
  BY DEF Held
<1>3. Range(queue') = Range(queue) \cup Range(q)
  BY <1>2, RangeConcat DEF Held
<1>4. IsInjective(queue')
  BY <1>1, <1>2, InjectiveConcat DEF Held
<1>5. QED
  BY <1>1, <1>2, <1>3, <1>4 DEF Held

\* initBuffer takes different buffers, since each leaves the service.
LEMMA InitBufferHeld == ASSUME Held, InitBuffer PROVE Held'
<1>1. CASE BufferInited
  BY <1>1 DEF InitBuffer, Held
<1>2. CASE ~BufferInited
  <2>1. PICK n \in 0..MaxBuffers : \E r \in [1..n -> service] :
          /\ Len(r) = Cardinality(Range(r))
          /\ queue' = queue \o r
          /\ service' = service \ Range(r)
    BY <1>2 DEF InitBuffer
  <2>2. PICK q \in [1..n -> service] : /\ Len(q) = Cardinality(Range(q))
                                       /\ queue' = queue \o q
                                       /\ service' = service \ Range(q)
    BY <2>1
  <2>3. q \in Seq(service)
    BY <2>1, <2>2
  <2>4. QED
    BY <2>2, <2>3, InjectiveCounts, TakeHeld
<1>3. QED
  BY <1>1, <1>2

\* dequeueBuffer is a taking of one.
LEMMA DequeueHeld == ASSUME Held, DequeueBuffer PROVE Held'
<1>1. CASE UNCHANGED <<service, queue>>
  BY <1>1 DEF Held
<1>2. ASSUME NEW b \in service, service' = service \ {b}, queue' = Append(queue, b)
      PROVE  Held'
  <2>1. <<b>> \in Seq(service) /\ IsInjective(<<b>>) /\ Range(<<b>>) = {b}
    BY DEF IsInjective, Range
  <2>2. queue' = queue \o <<b>>
    BY <1>2 DEF Held
  <2>3. QED
    BY <1>2, <2>1, <2>2, TakeHeld
<1>3. QED
  BY <1>1, <1>2 DEF DequeueBuffer

\* At first the service has all of them.
LEMMA InitHeld == Init => Held
BY DEF Init, Held, Range, IsInjective

\* The buffer invariant is inductive; most steps leave the buffers alone.
LEMMA NextHeld == Held /\ [Next]_vars => Held'
<1> SUFFICES ASSUME Held, [Next]_vars PROVE Held'
  OBVIOUS
<1>1. CASE UNCHANGED <<service, queue>>
  BY <1>1 DEF Held
<1>2. CASE ReadyToRun \/ ReadyFails
  BY <1>2, InitBufferHeld DEF ReadyToRun, ReadyFails
<1>3. CASE SkipFrame \/ EnqueueBuffer
  BY <1>3, PopHeld DEF SkipFrame, EnqueueBuffer
<1>4. CASE DequeueBuffer
  BY <1>4, DequeueHeld
<1>5. ASSUME NEW a \in Callers, FlushBuffer(a) PROVE Held'
  BY <1>5 DEF FlushBuffer, Held, Range, IsInjective
<1>6. CASE AllocateStream
  BY <1>6 DEF AllocateStream, Held, Range, IsInjective
<1>7. ASSUME Next PROVE \/ UNCHANGED <<service, queue>>
                        \/ ReadyToRun \/ ReadyFails \/ SkipFrame \/ EnqueueBuffer \/ DequeueBuffer
                        \/ AllocateStream \/ \E a \in Callers : FlushBuffer(a)
  BY <1>7 DEF Next, StreamThread, OnPreviewCommand, StartRuns, StartSetsState, OnCaptureCommand,
       CaptureStarts, ReleaseStream, RemoveStream, StopTests, StopAsks, StopPolls, StopGivesUp,
       StreamOff, ThreadEnds, Dqbuf, DqbufFails, HandleZoom, CheckAndExit, Qbuf, streamVars
<1>8. QED
  BY <1>1, <1>2, <1>3, <1>4, <1>5, <1>6, <1>7 DEF vars, streamVars

-----------------------------------------------------------------------------
(* The frames.  Without zoom the device's queue is the stream's, short of the *)
(* buffer the loop has in hand; with zoom the frame is scaled into the oldest.*)

\* What the invariants below say of the remaining variables by themselves.
Counted ==
  /\ InitialSkipCount \in 0..SkipFrames
  /\ loop = "skip" => InitialSkipCount > 0
  /\ left \in [Callers -> 0..Polls + WaitCount]
  /\ device \in Seq(Buffers \cup {Zoom})
  /\ loop = "qbuf" => filled \in Buffers

\* A stop flushes only the stream of a thread that has exited in time.
Flushing == \A a \in Callers : (pc[a] = "poll" /\ State = "EXIT") \/ pc[a] = "flush"
                               => loop \in AtRest

\* Between two frames the device has the stream's buffers, in the same order.
Between == {"dqbuf", "check2", "dequeue", "check3"}
Together == ~UseZoom /\ streaming /\ loop \in Between => device = queue

\* The buffer in hand is the stream's oldest ...
Oldest == ~UseZoom /\ loop \in {"skip", "check1", "enqueue"}
          => queue # << >> /\ filled = Head(queue)
Scaled == loop \in {"check1", "enqueue"} /\ queue # << >> => filled = Head(queue)

\* ... and the device has the others; or it is the newest, and the device has
\* all but that one.
Others == ~UseZoom /\ streaming /\ loop \in {"skip", "check1", "enqueue"} => device = Tail(queue)
Newest == ~UseZoom /\ streaming /\ loop = "qbuf" => queue = Append(device, filled)

Zooms == loop = "zoom" => UseZoom

InOrder == Together /\ Oldest /\ Scaled /\ Others /\ Newest /\ Zooms

\* A thread not yet started has no frame in hand.
LEMMA InitFrames == Init => Counted /\ Flushing /\ InOrder
BY StreamAssumption DEF Init, Counted, Flushing, InOrder, Together, Oldest, Scaled, Others,
       Newest, Zooms, Between

\* A stop waits for WAIT_EXIT to become EXIT, and that is the thread's doing;
\* no start runs a thread before the stop is over.
LEMMA NextFlushing == IInv /\ Flushing /\ [Next]_vars => Flushing'
<1> SUFFICES ASSUME IInv, Flushing, [Next]_vars PROVE Flushing'
  OBVIOUS
<1>1. CASE UNCHANGED <<pc, State, loop>>
  BY <1>1 DEF Flushing
<1>2. CASE OnPreviewCommand \/ StartRuns \/ StartSetsState \/ OnCaptureCommand \/ CaptureStarts
  BY <1>2 DEF OnPreviewCommand, StartRuns, StartSetsState, OnCaptureCommand, CaptureStarts, GoTo,
       loopVars, IInv, Typed, Mutex, Flushing
<1>3. CASE ReleaseStream \/ RemoveStream \/ AllocateStream
  BY <1>3 DEF ReleaseStream, RemoveStream, AllocateStream, GoTo, loopVars, IInv, Typed, Mutex,
       Flushing
<1>4. ASSUME NEW a \in Callers, \/ StopTests(a) \/ StopAsks(a) \/ StopPolls(a) \/ StopGivesUp(a)
                                \/ FlushBuffer(a) \/ StreamOff(a)
      PROVE  Flushing'
  BY <1>4 DEF StopTests, StopAsks, StopPolls, StopGivesUp, FlushBuffer, StreamOff, AfterStop,
       GoTo, loopVars, IInv, Typed, Mutex, Flushing
<1>5. ASSUME StreamThread PROVE Flushing'
  <2>1. pc' = pc
    BY <1>5 DEF StreamThread, ThreadEnds, ReadyToRun, ReadyFails, Dqbuf, DqbufFails, SkipFrame,
         HandleZoom, CheckAndExit, EnqueueBuffer, DequeueBuffer, Qbuf, ErrorExit, LoopLeaves,
         callerVars
  <2>2. (State' = State /\ loop \notin AtRest) \/ loop' \in AtRest
    BY <1>5 DEF StreamThread, ThreadEnds, ReadyToRun, ReadyFails, Dqbuf, DqbufFails, SkipFrame,
         HandleZoom, CheckAndExit, EnqueueBuffer, DequeueBuffer, Qbuf, ErrorExit, LoopAt
  <2>3. QED
    BY <2>1, <2>2 DEF Flushing
<1>6. QED
  BY <1>1, <1>2, <1>3, <1>4, <1>5 DEF Next, vars, loopVars, callerVars

\* Steps that leave the frames alone.
LEMMA SameCounted ==
  ASSUME Counted, UNCHANGED <<InitialSkipCount, filled, device>>,
         left' \in [Callers -> 0..Polls + WaitCount],
         loop' = loop \/ loop' \in LoopPlaces \ {"skip", "qbuf"}
  PROVE  Counted'
BY DEF Counted

\* The tries left are never less than none.
LEMMA CallerCounted ==
  ASSUME Counted, \/ OnPreviewCommand \/ StartRuns \/ StartSetsState
                  \/ OnCaptureCommand \/ CaptureStarts
                  \/ ReleaseStream \/ RemoveStream \/ AllocateStream
  PROVE  Counted'
<1>1. CASE OnPreviewCommand
  BY <1>1, StreamAssumption, SameCounted DEF OnPreviewCommand, loopVars, deviceVars, Counted
<1>2. CASE StartRuns
  <2>1. left' \in [Callers -> 0..Polls + WaitCount]
    BY <1>2, StreamAssumption DEF StartRuns, Counted
  <2>2. QED
    BY <1>2, <2>1, SameCounted DEF StartRuns, deviceVars
<1>3. CASE StartSetsState \/ OnCaptureCommand \/ CaptureStarts \/ ReleaseStream \/ RemoveStream
  BY <1>3, SameCounted DEF StartSetsState, OnCaptureCommand, CaptureStarts, ReleaseStream,
       RemoveStream, loopVars, deviceVars, Counted
<1>4. CASE AllocateStream
  BY <1>4, StreamAssumption DEF AllocateStream, deviceVars, Counted
<1>5. QED
  BY <1>1, <1>2, <1>3, <1>4

\* A stop counts its polls down, or begins them.
LEMMA StopCounted ==
  ASSUME Counted, NEW a \in Callers,
         \/ StopTests(a) \/ StopAsks(a) \/ StopPolls(a) \/ StopGivesUp(a)
         \/ FlushBuffer(a) \/ StreamOff(a)
  PROVE  Counted'
<1>1. CASE StopTests(a) \/ StopGivesUp(a) \/ FlushBuffer(a)
  BY <1>1, SameCounted DEF StopTests, StopGivesUp, FlushBuffer, loopVars, deviceVars, Counted
<1>2. CASE StopAsks(a)
  <2>1. left' \in [Callers -> 0..Polls + WaitCount]
    BY <1>2, StreamAssumption DEF StopAsks, Counted
  <2>2. QED
    BY <1>2, <2>1, SameCounted DEF StopAsks, loopVars, deviceVars
<1>3. CASE StopPolls(a)
  <2>1. left' \in [Callers -> 0..Polls + WaitCount]
    BY <1>3, StreamAssumption DEF StopPolls, Counted
  <2>2. QED
    BY <1>3, <2>1, SameCounted DEF StopPolls, loopVars, deviceVars
<1>4. CASE StreamOff(a)
  BY <1>4 DEF StreamOff, loopVars, Counted
<1>5. QED
  BY <1>1, <1>2, <1>3, <1>4

\* The frames still to be skipped are counted down to none.
LEMMA ThreadCounted ==
  ASSUME Counted, Held, Held', StreamThread
  PROVE  Counted'
<1>0. left' = left /\ left \in [Callers -> 0..Polls + WaitCount]
  BY DEF StreamThread, ThreadEnds, ReadyToRun, ReadyFails, Dqbuf, DqbufFails, SkipFrame,
       HandleZoom, CheckAndExit, EnqueueBuffer, DequeueBuffer, Qbuf, ErrorExit, LoopLeaves,
       callerVars, Counted
<1>1. CASE ThreadEnds
  BY <1>0, <1>1, SameCounted DEF ThreadEnds, deviceVars
<1>2. CASE ReadyToRun
  <2>1. device' \in Seq(Buffers \cup {Zoom})
    <3>1. CASE UseZoom
      <4>1. MaxBuffers \in Nat
        BY StreamAssumption, FS_CardinalityType
      <4>2. device' = [i \in 1..MaxBuffers |-> Zoom]
        BY <1>2, <3>1 DEF ReadyToRun
      <4>3. QED
        BY <4>1, <4>2
    <3>2. CASE ~UseZoom
      BY <1>2, <3>2 DEF ReadyToRun, Held
    <3>3. QED
      BY <3>1, <3>2
  <2>2. InitialSkipCount' = SkipFrames /\ loop' = "dqbuf"
    BY <1>2 DEF ReadyToRun
  <2>3. QED
    BY <1>0, <2>1, <2>2, StreamAssumption DEF Counted
<1>3. CASE ReadyFails
  <2>1. device' = device \/ device' = << >>
    BY <1>3 DEF ReadyFails, deviceVars
  <2>2. device' \in Seq(Buffers \cup {Zoom})
    <3>1. << >> \in Seq(Buffers \cup {Zoom}) /\ device \in Seq(Buffers \cup {Zoom})
      BY DEF Counted
    <3>2. QED
      BY <2>1, <3>1
  <2>3. InitialSkipCount' = InitialSkipCount /\ loop' = "none"
    BY <1>3 DEF ReadyFails
  <2>4. QED
    BY <1>0, <2>2, <2>3 DEF Counted
<1>4. CASE Dqbuf
  <2>1. device # << >> /\ device' = Tail(device) /\ InitialSkipCount' = InitialSkipCount
    BY <1>4 DEF Dqbuf
  <2>2. loop' # "qbuf" /\ (loop' = "skip" => InitialSkipCount > 0)
    BY <1>4 DEF Dqbuf
  <2>3. device' \in Seq(Buffers \cup {Zoom})
    BY <2>1 DEF Counted
  <2>4. QED
    BY <1>0, <2>1, <2>2, <2>3 DEF Counted
<1>5. CASE DqbufFails \/ HandleZoom
  BY <1>0, <1>5 DEF DqbufFails, HandleZoom, ErrorExit, LoopAt, deviceVars, Counted
<1>6. CASE SkipFrame
  BY <1>0, <1>6, StreamAssumption DEF SkipFrame, LoopAt, deviceVars, Counted
<1>7. CASE EnqueueBuffer
  BY <1>0, <1>7, SameCounted DEF EnqueueBuffer, ErrorExit, deviceVars
<1>8. CASE DequeueBuffer
  <2>1. CASE ErrorExit
    BY <1>0, <1>8, <2>1, SameCounted DEF DequeueBuffer, ErrorExit, deviceVars
  <2>2. CASE filled' \in service /\ InitialSkipCount' = InitialSkipCount /\ loop' = "qbuf"
    BY <1>0, <1>8, <2>2 DEF DequeueBuffer, deviceVars, Counted, Held
  <2>3. QED
    BY <1>8, <2>1, <2>2 DEF DequeueBuffer
<1>9. CASE Qbuf
  <2>1. CASE ErrorExit
    BY <1>0, <1>9, <2>1, SameCounted DEF Qbuf, ErrorExit
  <2>2. CASE /\ device' = Append(device, IF UseZoom THEN Zoom ELSE filled)
             /\ loop' = "check3" /\ UNCHANGED <<InitialSkipCount, filled>>
    <3>1. (IF UseZoom THEN Zoom ELSE filled) \in Buffers \cup {Zoom}
      BY <1>9 DEF Qbuf, LoopAt, Counted
    <3>2. device' \in Seq(Buffers \cup {Zoom})
      BY <2>2, <3>1 DEF Counted
    <3>3. QED
      BY <1>0, <2>2, <3>2 DEF Counted
  <2>3. QED
    BY <1>9, <2>1, <2>2 DEF Qbuf
<1>10. CASE \/ CheckAndExit("check1", "enqueue") \/ CheckAndExit("check2", "dequeue")
            \/ CheckAndExit("check3", "dqbuf")
  BY <1>0, <1>10, SameCounted DEF CheckAndExit, deviceVars
<1>11. QED
  BY <1>1, <1>2, <1>3, <1>4, <1>5, <1>6, <1>7, <1>8, <1>9, <1>10 DEF StreamThread

\* The types and counters are inductive, with the buffers held.
LEMMA NextCounted == Counted /\ Held /\ Held' /\ [Next]_vars => Counted'
<1>1. ASSUME Counted, UNCHANGED vars PROVE Counted'
  BY <1>1 DEF vars, loopVars, deviceVars, callerVars, Counted
<1>2. QED
  BY <1>1, CallerCounted, StopCounted, ThreadCounted DEF Next

\* A thread at rest, or one just run, has no frame in hand.
LEMMA RestInOrder == ASSUME loop' \in AtRest \cup {"ready"} PROVE InOrder'
BY DEF InOrder, Together, Oldest, Scaled, Others, Newest, Zooms, Between

\* A device that is switched off is not asked for its order.
LEMMA SameInOrder ==
  ASSUME InOrder, UNCHANGED <<UseZoom, filled, loop, queue>>,
         UNCHANGED deviceVars \/ streaming' = FALSE
  PROVE  InOrder'
BY DEF deviceVars, InOrder, Together, Oldest, Scaled, Others, Newest, Zooms, Between

\* The callers: a flush comes when the thread is at rest.
LEMMA CallerInOrder ==
  ASSUME InOrder, Flushing, NEW a \in Callers,
         \/ OnPreviewCommand \/ StartRuns \/ StartSetsState \/ OnCaptureCommand \/ CaptureStarts
         \/ ReleaseStream \/ RemoveStream \/ AllocateStream
         \/ StopTests(a) \/ StopAsks(a) \/ StopPolls(a) \/ StopGivesUp(a)
         \/ FlushBuffer(a) \/ StreamOff(a)
  PROVE  InOrder'
<1>1. CASE \/ OnPreviewCommand \/ StartSetsState \/ OnCaptureCommand \/ CaptureStarts
           \/ ReleaseStream \/ RemoveStream
  BY <1>1, SameInOrder DEF OnPreviewCommand, StartSetsState, OnCaptureCommand, CaptureStarts,
       ReleaseStream, RemoveStream, loopVars, streamVars
<1>2. CASE StartRuns
  BY <1>2, SameInOrder, RestInOrder DEF StartRuns, streamVars
<1>3. CASE AllocateStream
  BY <1>3, RestInOrder DEF AllocateStream
<1>4. CASE StopTests(a) \/ StopAsks(a) \/ StopPolls(a) \/ StopGivesUp(a) \/ StreamOff(a)
  BY <1>4, SameInOrder DEF StopTests, StopAsks, StopPolls, StopGivesUp, StreamOff, loopVars,
       streamVars
<1>5. CASE FlushBuffer(a)
  BY <1>5, RestInOrder DEF FlushBuffer, Flushing, loopVars
<1>6. QED
  BY <1>1, <1>2, <1>3, <1>4, <1>5

\* The thread: the device gives its oldest buffer, and that one or its place in
\* the queue is the next to go; a new buffer is the last of both.
LEMMA ThreadInOrder ==
  ASSUME InOrder, Counted, Held, StreamThread
  PROVE  InOrder'
<1>1. CASE ThreadEnds \/ ReadyFails
  BY <1>1, RestInOrder DEF ThreadEnds, ReadyFails
<1>2. CASE ReadyToRun
  BY <1>2 DEF ReadyToRun, LoopLeaves, InOrder, Together, Oldest, Scaled, Others, Newest, Zooms,
       Between
<1>3. CASE Dqbuf
  BY <1>3 DEF Dqbuf, LoopAt, LoopLeaves, streamVars, InOrder, Together, Oldest, Scaled, Others,
       Newest, Zooms, Between
<1>4. CASE DqbufFails
  BY <1>4, SameInOrder, RestInOrder DEF DqbufFails, LoopLeaves, streamVars
<1>5. CASE SkipFrame \/ EnqueueBuffer
  <2>1. CASE ErrorExit
    BY <2>1, RestInOrder DEF ErrorExit
  <2>2. CASE /\ loop \in {"skip", "enqueue"} /\ loop' = "check2"
             /\ PopQueue /\ UNCHANGED <<UseZoom, device, streaming>>
    BY <2>2 DEF PopQueue, InOrder, Together, Oldest, Scaled, Others, Newest, Zooms, Between
  <2>3. QED
    BY <1>5, <2>1, <2>2 DEF SkipFrame, EnqueueBuffer, LoopAt, LoopLeaves, deviceVars
<1>6. CASE HandleZoom
  <2>1. CASE ErrorExit
    BY <1>6, <2>1, RestInOrder DEF HandleZoom, ErrorExit, streamVars, deviceVars
  <2>2. CASE /\ queue # << >> => filled' = Head(queue)
             /\ loop = "zoom" /\ loop' = "check1" /\ UNCHANGED <<UseZoom, queue, device, streaming>>
    BY <2>2 DEF InOrder, Together, Oldest, Scaled, Others, Newest, Zooms, Between
  <2>3. QED
    BY <1>6, <2>1, <2>2 DEF HandleZoom, LoopAt, LoopLeaves, streamVars, deviceVars
<1>7. CASE DequeueBuffer
  <2>1. CASE ErrorExit
    BY <2>1, RestInOrder DEF ErrorExit
  <2>2. CASE /\ queue' = Append(queue, filled') /\ loop' = "qbuf"
             /\ UNCHANGED <<UseZoom, device, streaming>>
    BY <1>7, <2>2 DEF DequeueBuffer, LoopAt, InOrder, Together, Oldest, Scaled, Others, Newest,
         Zooms, Between
  <2>3. QED
    BY <1>7, <2>1, <2>2 DEF DequeueBuffer, LoopLeaves, deviceVars
<1>8. CASE Qbuf
  <2>1. CASE ErrorExit
    BY <2>1, RestInOrder DEF ErrorExit
  <2>2. CASE /\ device' = Append(device, IF UseZoom THEN Zoom ELSE filled)
             /\ loop' = "check3" /\ UNCHANGED <<UseZoom, queue, streaming>>
    BY <1>8, <2>2 DEF Qbuf, LoopAt, InOrder, Together, Oldest, Scaled, Others, Newest, Zooms,
         Between
  <2>3. QED
    BY <1>8, <2>1, <2>2 DEF Qbuf, LoopLeaves, streamVars
<1>9. CASE \/ CheckAndExit("check1", "enqueue") \/ CheckAndExit("check2", "dequeue")
           \/ CheckAndExit("check3", "dqbuf")
  <2>1. CASE loop' = "ending"
    BY <2>1, RestInOrder
  <2>2. CASE loop' # "ending"
    BY <1>9, <2>2 DEF CheckAndExit, LoopAt, LoopLeaves, streamVars, deviceVars, InOrder, Together,
         Oldest, Scaled, Others, Newest, Zooms, Between
  <2>3. QED
    BY <2>1, <2>2
<1>10. QED
  BY <1>1, <1>2, <1>3, <1>4, <1>5, <1>6, <1>7, <1>8, <1>9 DEF StreamThread

\* The order of the frames is inductive: nobody but the thread, while it has a
\* frame in hand, and a flush that finds it at rest, moves the buffers.
LEMMA NextInOrder == InOrder /\ Flushing /\ Counted /\ Held /\ [Next]_vars => InOrder'
<1>1. ASSUME InOrder, UNCHANGED vars PROVE InOrder'
  BY <1>1, SameInOrder DEF vars, loopVars, streamVars
<1>2. QED
  BY <1>1, CallerInOrder, ThreadInOrder DEF Next, Callers

-----------------------------------------------------------------------------
Frames == Counted /\ Flushing /\ InOrder

\* All these invariants hold in every reachable state.
LEMMA Invariant == Spec => [](IInv /\ Held /\ Frames)
<1>1. Init => IInv /\ Held /\ Frames
  BY InitIInv, InitHeld, InitFrames DEF Frames
<1>2. IInv /\ Held /\ Frames /\ [Next]_vars => (IInv /\ Held /\ Frames)'
  BY NextIInv, NextHeld, NextCounted, NextFlushing, NextInOrder DEF Frames
<1>3. QED
  BY <1>1, <1>2, PTL DEF Spec

\* NXStreamThread::stop before removeStream: whatever the frames, the failures
\* and the slowness of the thread, a stream that is removed after a stop that
\* did not time out is used by no thread.
THEOREM StreamRemovedWhenStopped == Spec => []RemovedWhenStopped
<1>1. IInv /\ Held => RemovedWhenStopped
  BY DEF IInv, RemovedWhenStopped, Presence, Mutex, Declared, Exited
<1>2. QED
  BY <1>1, Invariant, PTL

\* NXStreamThread::start sets RUNNING after Thread::run, and yet a thread that
\* says RUNNING is alive unless it met an error.
THEOREM StreamRunningHasThread == Spec => []RunningHasThread
<1>1. IInv /\ Held => RunningHasThread
  BY DEF IInv
<1>2. QED
  BY <1>1, Invariant, PTL

\* CaptureThread::onCommand: the preview's device is off when the capture's
\* thread starts.
THEOREM StreamStoppedIsOff == Spec => []StoppedIsOff
<1>1. IInv /\ Held => StoppedIsOff
  BY DEF IInv, StoppedIsOff, Mutex, Declared, DeviceOff
<1>2. QED
  BY <1>1, Invariant, PTL

\* The queue and the window share the buffers of the window at all times.
THEOREM StreamEachBufferOnce == Spec => []EachBufferOnce
<1>1. Held => EachBufferOnce
  BY InjectiveCounts DEF Held, EachBufferOnce
<1>2. QED
  BY <1>1, Invariant, PTL

\* NXStream::flushBuffer on the way of every stop: a stream removed without
\* trouble has given all its buffers back.
THEOREM StreamRemovedHoldsNothing == Spec => []RemovedHoldsNothing
<1>1. ASSUME IInv, Held PROVE RemovedHoldsNothing
  <2>1. ~present /\ trouble = {} => queue = << >>
    BY <1>1 DEF IInv, Presence, Mutex, Declared, QueueEmpty
  <2>2. queue = << >> => Range(queue) = {}
    BY DEF Range
  <2>3. QED
    BY <1>1, <2>1, <2>2 DEF RemovedHoldsNothing, Held
<1>2. IInv /\ Held => RemovedHoldsNothing
  BY <1>1
<1>3. QED
  BY <1>2, Invariant, PTL

\* The state of a stream and of its thread has its type: no counter leaves its
\* bounds and the device is given nothing but buffers.
THEOREM StreamTypeCorrect == Spec => []TypeOK
<1>1. ASSUME IInv, Held, Frames PROVE TypeOK
  <2>1. Range(queue) \subseteq Buffers /\ service \subseteq Buffers
    BY <1>1 DEF Held
  <2>2. Range(device) \subseteq Buffers \cup {Zoom}
    BY <1>1 DEF Frames, Counted, Range
  <2>3. QED
    BY <1>1, <2>1, <2>2 DEF IInv, Typed, Frames, Counted, TypeOK
<1>2. IInv /\ Held /\ Frames => TypeOK
  BY <1>1
<1>3. QED
  BY <1>2, Invariant, PTL

\* NXStream::enqueueBuffer gives away the oldest buffer whatever index
\* v4l2_dqbuf returned, and it is the buffer with the frame.
THEOREM StreamFramesInOrder == Spec => []FrameOrder
<1>1. IInv /\ Held /\ Frames => FrameOrder
  BY DEF Frames, InOrder, Scaled, FrameOrder
<1>2. QED
  BY <1>1, Invariant, PTL
=============================================================================
