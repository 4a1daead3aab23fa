-------------------- MODULE NXCameraHWInterface2_proofs --------------------
(* The control side of the camera for any requests, any number of streams     *)
(* and any timeouts: no request is lost, the tables agree, a thread that says *)
(* EXIT has left its loop, and nothing that is gone is used.                  *)
EXTENDS NXCameraHWInterface2, TLAPS

Active(t) == loop[t] \notin {"none", "ending"}     \* the thread is in its loop
Calling(a) == call[a].at # "none"
Asking(a) == call[a].at \in {"ask", "poll", "flush"}   \* in stop, past its test of State
NoRace == excuse # "race"

\* TypeOK, by the part that an action touches.
QueueTyped ==
  /\ requests \in Seq(Seq(Ids)) /\ Len(requests) <= MaxQueued
  /\ signalConsumer \in BOOLEAN /\ notifying \in BOOLEAN /\ MsgReceived \in BOOLEAN
CommandTyped ==
  command \in {"wait", "dequeue", "drained", "callback", "capture"} /\ todo \in Seq(Ids)
TableTyped ==
  /\ StreamThreads \in [Ids -> Threads \cup {NoThread, Old}]
  /\ CommandListeners \in [Ids -> Threads \cup {NoThread}]
  /\ Streams \in [Threads -> SUBSET Ids] /\ interlace \in BOOLEAN /\ allocated \subseteq Ids
  /\ shared \in BOOLEAN
ServiceTyped == service \in [at : {"idle", "register", "stop", "remove"}, id : Ids \cup {NoThread}]
ThreadTyped ==
  /\ State \in [Threads -> {"EXIT", "RUNNING", "WAIT_EXIT"}]
  /\ loop \in [Threads -> {"none", "ready", "ready2", "run", "peek", "self", "ending"}]
CallTyped ==
  call \in [Callers -> [at : {"none", "start", "started", "stop", "ask", "poll", "flush"},
                        of : Threads \cup {NoThread}, left : 0..Polls + WaitCount]]
HistoryTyped == excuse \in {"none", "race", "under"} /\ gone \in BOOLEAN
Typed == /\ QueueTyped /\ CommandTyped /\ TableTyped /\ ServiceTyped /\ ThreadTyped
         /\ CallTyped /\ HistoryTyped

\* A service that does not notify is one whose command thread will come back to
\* the queue, or has been notified.
Notified ==
  /\ signalConsumer => requests = << >>
  /\ ~signalConsumer => MsgReceived \/ notifying \/ command \in {"dequeue", "callback", "capture"}

\* Whose thread is whose.  The manager may keep ZSL's entry when its stream is gone.
Mapped ==
  /\ \A t \in Threads : StreamThreads[t] \in {NoThread, t} /\ Streams[t] \subseteq {t, "ZSL"}
  /\ \A t \in Threads : "ZSL" \in Streams[t] => t = "PREVIEW" /\ StreamThreads[t] = t
  /\ StreamThreads["ZSL"] \in {NoThread, Old, "PREVIEW"}
Present(i) == StreamThreads[i] \in Threads /\ i \in Streams[StreamThreads[i]]
Busy == IF service.at = "idle" THEN {} ELSE {service.id}    \* neither allocated nor free
Listed ==
  /\ \A i \in allocated : CommandListeners[i] = StreamThreads[i] /\ Present(i)
  /\ \A i \in Ids \ allocated : CommandListeners[i] = NoThread
  /\ \A i \in Busy : i \in Ids \ allocated /\ Present(i)
  /\ ~shared => /\ StreamThreads["ZSL"] = NoThread /\ "ZSL" \notin Streams["PREVIEW"]
                /\ \A i \in Ids : StreamThreads[i] # NoThread <=> i \in allocated \cup Busy

\* Where a caller of start and stop is.
Places ==
  /\ \A a \in Callers : Calling(a) => call[a].of \in Threads
  /\ \A a \in {"service", "RECORD"} : call[a].at \notin {"start", "started"}
  /\ Calling("service") => service.at = "remove" /\ call["service"].of = StreamThreads[service.id]
  /\ Calling("RECORD") => loop["RECORD"] = "ready2"
  /\ Calling("command") => command \in {"callback", "capture"}
\* Only a thread whose listener is registered is started.
Listening ==
  /\ command = "capture" => CommandListeners["CAPTURE"] = "CAPTURE"
  /\ call["command"].at \in {"start", "started"} =>
       CommandListeners[call["command"].of] = call["command"].of

\* Without a race: one caller at a time is inside start or stop of a thread, a
\* thread that runs, or that somebody has asked to stop, has its stream ...
Alone ==
  NoRace => \A a, b \in Callers : a # b /\ Calling(a) /\ Calling(b) => call[a].of # call[b].of
Streamed == NoRace => \A t \in Threads : State[t] # "EXIT" \/ Active(t) => t \in Streams[t]
Reached == NoRace => \A a \in Callers : Asking(a) => call[a].of \in Streams[call[a].of]
\* ... and a stream is removed when its thread has stopped.
Stopped ==
  NoRace /\ service.at = "remove" /\ service.id \in Threads
         /\ call["service"].at \in {"none", "flush"} =>
    /\ State[service.id] = "EXIT" /\ ~Active(service.id)
    /\ \A a \in Callers \ {"service"} : call[a].of = service.id => ~Asking(a)

\* Without any excuse, a stream is removed when nobody looks into it.
Other(t) == IF t = "CAPTURE" THEN "RECORD" ELSE "PREVIEW"
Unwatched ==
  excuse = "none" =>
    /\ service.at = "remove" =>
         \A u \in LooksInto(service.id) : u \notin allocated /\ loop[u] = "none"
    /\ "RECORD" \in allocated \cup Busy \/ loop["RECORD"] # "none" =>
         StreamThreads["PREVIEW"] = "PREVIEW"
    /\ \A t \in Threads : loop[t] = "peek" => t # "PREVIEW" /\ Other(t) \in Streams[Other(t)]

TableInv == Mapped /\ Listed
CallInv == Places /\ Listening
OrderInv == Alone /\ Streamed /\ Reached /\ Stopped
IInv == Typed /\ Notified /\ TableInv /\ CallInv /\ StateIsHonest /\ OrderInv /\ Unwatched /\ ~gone
-----------------------------------------------------------------------------
(* The names.                                                                *)

\* The names of threads, streams and callers, and which are different.
LEMMA Names ==
  /\ "PREVIEW" \in Threads /\ "CAPTURE" \in Threads /\ "RECORD" \in Threads
  /\ "CALLBACK" \in Threads
  /\ \A t \in Threads : t \in Ids /\ t # "ZSL" /\ t # NoThread /\ t # Old
  /\ \A i \in Ids : i \in Threads \/ i = "ZSL"
  /\ "ZSL" \in Ids /\ "ZSL" \notin Threads /\ NoThread \notin Ids /\ NoThread # Old
  /\ "command" \in Callers /\ "service" \in Callers /\ "RECORD" \in Callers
  /\ \A a \in Callers : a \in {"command", "service", "RECORD"}
BY DEF Threads, Ids, Callers, NoThread, Old

\* A call of start or stop is at one of its places, or there is none.
LEMMA CallKinds ==
  ASSUME CallTyped, NEW a \in Callers
  PROVE  /\ call[a].at \in {"none", "start", "started", "stop", "ask", "poll", "flush"}
         /\ call[a].of \in Threads \cup {NoThread} /\ call[a].left \in 0..Polls + WaitCount
         /\ call[a] = Resting => call[a].at = "none"
BY DEF CallTyped, Resting

-----------------------------------------------------------------------------
(* The command queue and the steps of a stream thread.                       *)

\* A step that is of requests only.
LEMMA QueueStep ==
  ASSUME IInv, UNCHANGED <<tableVars, service, threadVars, call, history>>,
         QueueTyped', CommandTyped', Notified', command' = "capture" => command = "capture",
         command \in {"callback", "capture"} => command' \in {"callback", "capture"}
  PROVE  IInv'
<1>1. /\ UNCHANGED <<StreamThreads, CommandListeners, Streams, interlace, allocated, shared>>
      /\ UNCHANGED <<service, State, loop, call, excuse, gone>>
  BY DEF tableVars, threadVars, history
<1>2. Typed'
  BY <1>1 DEF IInv, Typed, TableTyped, ServiceTyped, ThreadTyped, CallTyped, HistoryTyped
<1>3. TableInv'
  BY <1>1 DEF IInv, TableInv, Mapped, Listed, Present, Busy
<1>4. CallInv'
  BY <1>1 DEF IInv, CallInv, Places, Listening, Calling
<1>5. (StateIsHonest /\ OrderInv)'
  BY <1>1 DEF IInv, StateIsHonest, OrderInv, Alone, Streamed, Reached, Stopped, NoRace, Calling,
              Asking, Active
<1>6. (Unwatched /\ ~gone)'
  BY <1>1 DEF IInv, Unwatched, LooksInto, Busy, Other
<1>7. QED
  BY <1>2, <1>3, <1>4, <1>5, <1>6 DEF IInv

\* Requests arrive, wake the command thread and are dequeued; no other thread sees that.
LEMMA QueueSteps ==
  ASSUME IInv, (\E r \in Requests : EnqueueRequest(r)) \/ Wakeup \/ ThreadLoop \/ DequeueRequest
               \/ NoMoreRequests
  PROVE  IInv'
<1>1. QueueTyped /\ CommandTyped /\ Notified
  BY DEF IInv, Typed
<1>2. CASE \E r \in Requests : EnqueueRequest(r)
  <2>1. PICK r \in Requests : EnqueueRequest(r)
    BY <1>2
  <2>2. QueueTyped'
    <3>1. /\ requests' = Append(requests, r) /\ requests \in Seq(Seq(Ids)) /\ r \in Seq(Ids)
          /\ Len(requests) < MaxQueued /\ MaxQueued \in Nat
      BY <1>1, <2>1, CameraAssumption DEF EnqueueRequest, QueueTyped
    <3>2. requests' \in Seq(Seq(Ids)) /\ Len(requests') <= MaxQueued
      BY <3>1
    <3>3. signalConsumer' \in BOOLEAN /\ notifying' \in BOOLEAN /\ MsgReceived' \in BOOLEAN
      BY <1>1, <2>1 DEF EnqueueRequest, QueueTyped
    <3>4. QED
      BY <3>2, <3>3 DEF QueueTyped
  <2>3. Notified' /\ CommandTyped' /\ command' = command
    BY <1>1, <2>1 DEF EnqueueRequest, Notified, commandVars, CommandTyped, QueueTyped
  <2>4. QED
    BY <2>1, <2>2, <2>3, QueueStep DEF EnqueueRequest
<1>3. CASE Wakeup
  <2>1. QueueTyped' /\ CommandTyped' /\ Notified' /\ command' = command
    BY <1>1, <1>3 DEF Wakeup, QueueTyped, CommandTyped, Notified, commandVars
  <2>2. QED
    BY <1>3, <2>1, QueueStep DEF Wakeup
<1>4. CASE ThreadLoop
  <2>1. QueueTyped' /\ CommandTyped' /\ Notified'
    BY <1>1, <1>4 DEF ThreadLoop, QueueTyped, CommandTyped, Notified
  <2>2. QED
    BY <1>4, <2>1, QueueStep DEF ThreadLoop
<1>5. CASE DequeueRequest
  <2>1. QueueTyped' /\ CommandTyped' /\ Notified'
    <3>1. CASE requests = << >>
      BY <1>1, <1>5, <3>1 DEF DequeueRequest, QueueTyped, CommandTyped, Notified
    <3>2. CASE requests # << >>
      <4>1. /\ Tail(requests) \in Seq(Seq(Ids)) /\ Head(requests) \in Seq(Ids)
            /\ Len(Tail(requests)) <= MaxQueued
        BY <1>1, <3>2, CameraAssumption DEF QueueTyped
      <4>2. QED
        BY <1>1, <1>5, <3>2, <4>1 DEF DequeueRequest, QueueTyped, CommandTyped, Notified
    <3>3. QED
      BY <3>1, <3>2
  <2>2. QED
    BY <1>5, <2>1, QueueStep DEF DequeueRequest
<1>6. CASE NoMoreRequests
  <2>1. QueueTyped' /\ CommandTyped' /\ Notified'
    BY <1>1, <1>6 DEF NoMoreRequests, QueueTyped, CommandTyped, Notified, queueVars
  <2>2. QED
    BY <1>6, <2>1, QueueStep DEF NoMoreRequests
<1>7. QED
  BY <1>2, <1>3, <1>4, <1>5, <1>6

\* A step that is of threads and calls only.
LEMMA ThreadStep ==
  ASSUME IInv, UNCHANGED <<queueVars, commandVars, tableVars, service>>,
         (ThreadTyped /\ CallTyped /\ HistoryTyped)', CallInv', StateIsHonest', OrderInv',
         Unwatched', ~gone'
  PROVE  IInv'
<1>1. /\ UNCHANGED <<requests, signalConsumer, notifying, MsgReceived, command, todo, service>>
      /\ UNCHANGED <<StreamThreads, CommandListeners, Streams, interlace, allocated, shared>>
  BY DEF queueVars, commandVars, tableVars
<1>2. Typed' /\ Notified'
  BY <1>1 DEF IInv, Typed, QueueTyped, CommandTyped, TableTyped, ServiceTyped, Notified
<1>3. TableInv'
  BY <1>1 DEF IInv, TableInv, Mapped, Listed, Present, Busy
<1>4. QED
  BY <1>2, <1>3 DEF IInv

\* A thread goes to another place of its loop, or leaves it and says EXIT.
LEMMA LoopStep ==
  ASSUME IInv, NEW t \in Threads, NEW place, LoopOnly, LoopGoes(t, place),
         UNCHANGED <<call, excuse>>,
         place \in {"none", "ready2", "run", "peek", "self", "ending"},
         loop[t] # "none", place \notin {"none", "ending"} => Active(t),
         t = "RECORD" => loop[t] # "ready2" \/ ~Calling("RECORD"),
         State' = State \/ (State' = [State EXCEPT ![t] = "EXIT"] /\ place = "ending"),
         place = "peek" /\ excuse = "none" => t # "PREVIEW" /\ Other(t) \in Streams[Other(t)],
         gone' = FALSE
  PROVE  IInv'
<1>1. Typed /\ TableInv /\ CallInv /\ StateIsHonest /\ OrderInv /\ Unwatched
  BY DEF IInv
<1>2. ThreadTyped /\ CallTyped /\ HistoryTyped /\ ServiceTyped
  BY <1>1 DEF Typed
<1>3. /\ UNCHANGED <<service, StreamThreads, CommandListeners, Streams, allocated, command>>
      /\ UNCHANGED <<queueVars, commandVars, tableVars, service>>
  BY DEF LoopOnly, commandVars, tableVars
<1>4. /\ loop'[t] = place /\ \A u \in Threads \ {t} : loop'[u] = loop[u] /\ State'[u] = State[u]
      /\ State'[t] = State[t] \/ (State'[t] = "EXIT" /\ place = "ending")
  BY <1>2 DEF ThreadTyped, LoopGoes
<1>5. \A u \in Threads : Active(u)' => Active(u)
  BY <1>4 DEF Active
<1>6. (ThreadTyped /\ CallTyped /\ HistoryTyped)'
  BY <1>2 DEF ThreadTyped, CallTyped, HistoryTyped, LoopGoes
<1>7. CallInv'
  BY <1>1, <1>3, <1>4, Names DEF CallInv, Places, Listening, Calling
<1>8. StateIsHonest'
  BY <1>1, <1>4, <1>5, Names DEF StateIsHonest, Active
<1>9. OrderInv'
  <2>1. Alone' /\ Reached'
    BY <1>1, <1>3 DEF OrderInv, Alone, Reached, NoRace, Calling, Asking
  <2>2. Streamed'
    BY <1>1, <1>3, <1>4, <1>5 DEF OrderInv, Streamed, NoRace
  <2>3. Stopped'
    BY <1>1, <1>3, <1>4, <1>5 DEF OrderInv, Stopped, NoRace, Asking
  <2>4. QED
    BY <2>1, <2>2, <2>3 DEF OrderInv
<1>10. Unwatched'
  <2>1. \A u \in Ids : LooksInto(u) \subseteq Threads
    BY DEF LooksInto, Threads
  <2>2. service.at = "remove" => service.id \in Ids
    BY <1>1 DEF TableInv, Listed, Busy
  <2>3. QED
    BY <1>1, <1>3, <1>4, <2>1, <2>2, Names DEF Unwatched, Busy, Other
<1>11. QED
  BY <1>3, <1>6, <1>7, <1>8, <1>9, <1>10, ThreadStep

\* What a stream thread finds: its own stream, and the streams it looks into.
LEMMA OwnStream ==
  ASSUME IInv, NEW t \in Threads, Active(t), NoRace
  PROVE  t \in Streams[t]
BY DEF IInv, OrderInv, Streamed

\* A thread whose state is RUNNING has its stream in the table.
LEMMA RunningStream ==
  ASSUME IInv, NEW t \in Threads, IsRunning(t), NoRace
  PROVE  t \in Streams[t]
<1>1. StreamThreads[t] = t /\ State[t] = "RUNNING"
  BY Names DEF IInv, TableInv, Mapped, IsRunning
<1>2. QED
  BY <1>1 DEF IInv, OrderInv, Streamed

\* A thread sees EXIT or fails, and leaves its loop.
LEMMA ThreadExits ==
  ASSUME IInv, NEW t \in Threads, CheckAndExit(t) \/ ErrorExit(t) \/ ThreadEnds(t)
  PROVE  IInv'
<1>1. HistoryTyped /\ ~gone
  BY DEF IInv, Typed
<1>2. /\ LoopOnly /\ UNCHANGED <<call, excuse, gone>> /\ loop[t] \in {"run", "peek", "ending"}
      /\ gone' = FALSE
  BY <1>1 DEF CheckAndExit, ErrorExit, ThreadEnds, Steady, history, HistoryTyped
<1>3. CASE CheckAndExit(t) \/ ErrorExit(t)
  <2>1. LoopGoes(t, "ending") /\ (State' = State \/ State' = [State EXCEPT ![t] = "EXIT"])
    BY <1>3 DEF CheckAndExit, ErrorExit
  <2>2. QED
    BY <1>2, <2>1, LoopStep
<1>4. CASE ThreadEnds(t)
  <2>1. LoopGoes(t, "none") /\ State' = State
    BY <1>4 DEF ThreadEnds, Steady
  <2>2. QED
    BY <1>2, <2>1, LoopStep
<1>5. QED
  BY <1>3, <1>4

\* A thread finds that the one it copies from runs; the stream of that one is there.
LEMMA ThreadLooks ==
  ASSUME IInv, NEW t \in Threads, Looks(t) \/ (CaptureShoots /\ t = "CAPTURE")
  PROVE  IInv'
<1>1. HistoryTyped /\ ~gone
  BY DEF IInv, Typed
<1>2. /\ LoopOnly /\ UNCHANGED <<call, excuse, gone>> /\ loop[t] = "run" /\ Active(t)
      /\ gone' = FALSE /\ State' = State
  BY <1>1 DEF Looks, CaptureShoots, Steady, history, HistoryTyped, Active
<1>3. CASE Looks(t)
  <2>1. IsRunning(Other(t)) /\ Other(t) \in Threads /\ LoopGoes(t, "peek")
    BY <1>3, Names DEF Looks, Copies, Other
  <2>2. excuse = "none" => Other(t) \in Streams[Other(t)]
    BY <2>1, RunningStream DEF NoRace
  <2>3. t # "PREVIEW"
    BY <1>3 DEF Looks, Copies
  <2>4. QED
    BY <1>2, <2>1, <2>2, <2>3, LoopStep
<1>4. CASE CaptureShoots /\ t = "CAPTURE"
  <2>1. LoopGoes(t, "self")
    BY <1>4 DEF CaptureShoots
  <2>2. QED
    BY <1>2, <2>1, LoopStep
<1>5. QED
  BY <1>3, <1>4

\* It reads that stream's last buffer; the stream is still there.
LEMMA ThreadUses ==
  ASSUME IInv, NEW t \in Threads, GetLastBuffer(t) \/ (CaptureStopsItself /\ t = "CAPTURE")
  PROVE  IInv'
<1>1. HistoryTyped /\ ~gone
  BY DEF IInv, Typed
<1>2. LoopOnly /\ UNCHANGED <<call, excuse>> /\ loop[t] \in {"peek", "self"} /\ Active(t)
  BY DEF GetLastBuffer, CaptureStopsItself, Active
<1>3. CASE GetLastBuffer(t)
  <2>1. PICK place \in {"self", "run"} : LoopGoes(t, place)
    BY <1>3 DEF GetLastBuffer
  <2>2. loop[t] = "peek" /\ Uses(Other(t) \in Streams[Other(t)])
    BY <1>3 DEF GetLastBuffer, Other
  <2>3. gone' = FALSE
    BY <1>1, <2>2 DEF IInv, Unwatched, Uses, HistoryTyped
  <2>4. State' = State
    BY <1>3 DEF GetLastBuffer
  <2>5. QED
    BY <1>2, <2>1, <2>3, <2>4, LoopStep
<1>4. CASE CaptureStopsItself /\ t = "CAPTURE"
  <2>1. /\ LoopGoes(t, "ending") /\ State' = [State EXCEPT ![t] = "EXIT"]
        /\ Uses(State[t] = "EXIT" \/ t \in Streams[t])
    BY <1>4 DEF CaptureStopsItself
  <2>2. gone' = FALSE
    BY <1>1, <1>2, <2>1, OwnStream DEF Uses, HistoryTyped, NoRace
  <2>3. QED
    BY <1>2, <2>1, <2>2, LoopStep
<1>5. QED
  BY <1>3, <1>4

\* A call of start or stop begins.  If it meets another, that is a race.
LEMMA CallOrder ==
  ASSUME IInv, NEW a \in Callers, NEW t \in Threads, NEW op \in {"start", "stop"}, NEW n,
         Calls(a, op, t, n), ~Calling(a), NoRace' => NoRace /\ ~Crosses(a, t),
         UNCHANGED <<State, Streams>>, a # "service" => UNCHANGED service,
         \A u \in Threads : Active(u)' => Active(u)
  PROVE  StateIsHonest' /\ OrderInv'
<1>1. StateIsHonest /\ OrderInv /\ CallTyped
  BY DEF IInv, Typed
<1>2. /\ call'[a].at = op /\ call'[a].of = t /\ \A b \in Callers \ {a} : call'[b] = call[b]
      /\ call[a].at = "none"
  <2>1. call[a].at = "none"
    BY DEF Calling
  <2>2. QED
    BY <1>1, <2>1 DEF Calls, CallTyped
<1>3. StateIsHonest'
  BY <1>1, <1>2, Names DEF StateIsHonest, Active, NoRace
<1>4. Alone'
  BY <1>1, <1>2 DEF OrderInv, Alone, Calling, Crosses
<1>5. Streamed' /\ Reached'
  BY <1>1, <1>2 DEF OrderInv, Streamed, Reached, Asking
<1>6. Stopped'
  <2>1. CASE a = "service"
    BY <1>2, <2>1 DEF Stopped
  <2>2. CASE a # "service"
    BY <1>1, <1>2, <2>2, Names DEF OrderInv, Stopped, Asking
  <2>3. QED
    BY <2>1, <2>2
<1>7. QED
  BY <1>3, <1>4, <1>5, <1>6 DEF OrderInv

\* readyToRun of a thread; the record thread's may stop the preview first.
LEMMA ThreadReadies ==
  ASSUME IInv, NEW t \in Threads, ReadyToRun(t)
  PROVE  IInv'
<1>1. HistoryTyped /\ CallTyped /\ ThreadTyped /\ ~gone /\ LoopOnly
  BY DEF IInv, Typed, ReadyToRun
<1>2. ASSUME NEW place \in {"run", "ending"}, LoopGoes(t, place), Steady,
             loop[t] = "ready" \/ (loop[t] = "ready2" /\ call["RECORD"] = Resting)
      PROVE  IInv'
  <2>1. UNCHANGED <<State, call, excuse>> /\ gone' = FALSE
    BY <1>1, <1>2 DEF Steady, history, HistoryTyped
  <2>2. /\ loop[t] # "none" /\ Active(t)
        /\ (t = "RECORD" => loop[t] # "ready2" \/ ~Calling("RECORD"))
    BY <1>1, <1>2, CallKinds, Names DEF Active, Calling
  <2>3. QED
    BY <1>1, <1>2, <2>1, <2>2, LoopStep
<1>3. CASE loop[t] = "ready" /\ StopsPreview(t) /\ LoopGoes(t, "ready2")
           /\ StreamThreads["PREVIEW"] \notin Threads /\ Uses(FALSE)
           /\ UNCHANGED <<State, call, excuse>>
  <2>1. t = "RECORD" /\ loop[t] # "none" /\ Active(t)
    BY <1>3 DEF StopsPreview, Active
  <2>2. gone' = FALSE
    BY <1>1, <1>3, <2>1, Names DEF IInv, Unwatched, Uses, HistoryTyped
  <2>3. QED
    BY <1>1, <1>3, <2>1, <2>2, LoopStep
<1>4. ASSUME NEW p \in Threads, loop[t] = "ready", StopsPreview(t), LoopGoes(t, "ready2"),
             Calls("RECORD", "stop", p, 0), Excused(Crosses("RECORD", p), "race"),
             UNCHANGED <<State, gone>>
      PROVE  IInv'
  <2>1. /\ UNCHANGED <<service, StreamThreads, CommandListeners, Streams, allocated, command>>
        /\ UNCHANGED <<queueVars, commandVars, tableVars, service>>
    BY <1>1 DEF LoopOnly, commandVars, tableVars
  <2>2. /\ t = "RECORD" /\ loop'[t] = "ready2" /\ \A u \in Threads \ {t} : loop'[u] = loop[u]
        /\ loop' \in [Threads -> {"none", "ready", "ready2", "run", "peek", "self", "ending"}]
    BY <1>1, <1>4 DEF ThreadTyped, LoopGoes, StopsPreview
  <2>3. ~Calling("RECORD")
    BY <1>4, <2>2 DEF IInv, CallInv, Places
  <2>4. /\ NoRace' => NoRace /\ ~Crosses("RECORD", p)
        /\ excuse' \in {"none", "race", "under"} /\ (excuse' = "none" => excuse = "none")
    BY <1>1, <1>4 DEF Excused, NoRace, HistoryTyped
  <2>5. (ThreadTyped /\ CallTyped /\ HistoryTyped)'
    <3>1. 0 \in 0..Polls + WaitCount
      BY CameraAssumption
    <3>2. QED
      BY <1>1, <1>4, <2>2, <2>4, <3>1, Names DEF ThreadTyped, CallTyped, HistoryTyped, Calls
  <2>6. CallInv'
    <3>1. /\ call'["RECORD"].at = "stop" /\ call'["RECORD"].of = p
          /\ \A b \in Callers \ {"RECORD"} : call'[b] = call[b]
      BY <1>1, <1>4, Names DEF Calls, CallTyped
    <3>2. QED
      BY <1>1, <2>1, <2>2, <3>1, Names DEF IInv, CallInv, Places, Listening, Calling
  <2>7. StateIsHonest' /\ OrderInv'
    <3>1. \A u \in Threads : Active(u)' => Active(u)
      BY <1>4, <2>2 DEF Active
    <3>2. QED
      BY <1>4, <2>1, <2>3, <2>4, <3>1, CallOrder, Names
  <2>8. Unwatched'
    <3>1. \A u \in Ids : LooksInto(u) \subseteq Threads
      BY DEF LooksInto, Threads
    <3>2. service.at = "remove" => service.id \in Ids
      BY DEF IInv, TableInv, Listed, Busy
    <3>3. (excuse' = "none" => excuse = "none") /\ loop["RECORD"] # "none"
      BY <1>4, <2>2, <2>4
    <3>4. /\ \A u \in Threads : loop'[u] = "none" <=> loop[u] = "none"
          /\ \A u \in Threads : loop'[u] = "peek" <=> loop[u] = "peek"
      BY <1>4, <2>2
    <3>5. /\ UNCHANGED <<service, StreamThreads, Streams, allocated>> /\ "RECORD" \in Threads
      BY <2>1, <2>2, <1>4
    <3>6. Unwatched
      BY DEF IInv
    <3>7. ASSUME excuse' = "none", service'.at = "remove", NEW u \in LooksInto(service'.id)
          PROVE  u \notin allocated' /\ loop'[u] = "none"
      BY <3>1, <3>2, <3>3, <3>4, <3>5, <3>6, <3>7 DEF Unwatched
    <3>8. ASSUME excuse' = "none"
          PROVE  StreamThreads'["PREVIEW"] = "PREVIEW"
      BY <3>3, <3>5, <3>6, <3>8 DEF Unwatched
    <3>9. ASSUME excuse' = "none", NEW u \in Threads, loop'[u] = "peek"
          PROVE  u # "PREVIEW" /\ Other(u) \in Streams'[Other(u)]
      BY <3>3, <3>4, <3>5, <3>6, <3>9 DEF Unwatched
    <3>10. QED
      BY <3>7, <3>8, <3>9 DEF Unwatched
  <2>9. QED
    BY <1>4, <2>1, <2>5, <2>6, <2>7, <2>8, ThreadStep DEF IInv
<1>5. QED
  BY <1>2, <1>3, <1>4 DEF ReadyToRun, Copies

-----------------------------------------------------------------------------
(* The command thread.                                                       *)

\* A step of the command thread that leaves the requests, the table and the loops alone.
LEMMA CommandStep ==
  ASSUME IInv, UNCHANGED <<queueVars, tableVars, service, threadVars, gone>>,
         command \in {"callback", "capture"}, command' \in {"dequeue", "callback", "capture"},
         (CommandTyped /\ CallTyped /\ HistoryTyped)', CallInv', StateIsHonest', OrderInv',
         excuse' = "none" => excuse = "none"
  PROVE  IInv'
<1>1. /\ UNCHANGED <<StreamThreads, CommandListeners, Streams, interlace, allocated, shared>>
      /\ UNCHANGED <<requests, signalConsumer, notifying, MsgReceived, service, State, loop>>
  BY DEF queueVars, tableVars, threadVars
<1>2. Typed' /\ Notified'
  BY <1>1 DEF IInv, Typed, QueueTyped, TableTyped, ServiceTyped, ThreadTyped, Notified
<1>3. TableInv'
  BY <1>1 DEF IInv, TableInv, Mapped, Listed, Present, Busy
<1>4. Unwatched'
  BY <1>1 DEF IInv, Unwatched, LooksInto, Busy, Other
<1>5. QED
  BY <1>2, <1>3, <1>4 DEF IInv

\* The command thread calls start or stop.
LEMMA CommandCalls ==
  ASSUME IInv, NEW t \in Threads, NEW op \in {"start", "stop"}, NEW n \in 0..Polls + WaitCount,
         Calls("command", op, t, n), Excused(Crosses("command", t), "race"),
         UNCHANGED <<queueVars, tableVars, service, threadVars, gone>>,
         call["command"] = Resting, command \in {"callback", "capture"},
         command' \in {"callback", "capture"}, CommandTyped',
         op = "start" => CommandListeners[t] = t,
         command' = "capture" => CommandListeners["CAPTURE"] = "CAPTURE"
  PROVE  IInv'
<1>1. HistoryTyped /\ CallTyped /\ CallInv
  BY DEF IInv, Typed
<1>2. /\ UNCHANGED <<StreamThreads, CommandListeners, Streams, interlace, allocated, shared>>
      /\ UNCHANGED <<service, State, loop, gone>>
  BY DEF tableVars, threadVars
<1>3. ~Calling("command")
  BY <1>1, CallKinds, Names DEF Calling
<1>4. /\ NoRace' => NoRace /\ ~Crosses("command", t)
      /\ HistoryTyped' /\ (excuse' = "none" => excuse = "none")
  BY <1>1, <1>2 DEF Excused, NoRace, HistoryTyped
<1>5. CallTyped'
  BY <1>1, Names DEF CallTyped, Calls
<1>6. CallInv'
  <2>1. /\ call'["command"].at = op /\ call'["command"].of = t
        /\ \A b \in Callers \ {"command"} : call'[b] = call[b]
    BY <1>1, Names DEF CallTyped, Calls
  <2>2. QED
    BY <1>1, <1>2, <2>1, Names DEF CallInv, Places, Listening, Calling
<1>7. StateIsHonest' /\ OrderInv'
  <2>1. \A u \in Threads : Active(u)' => Active(u)
    BY <1>2 DEF Active
  <2>2. QED
    BY <1>2, <1>3, <1>4, <2>1, CallOrder, Names
<1>8. QED
  BY <1>4, <1>5, <1>6, <1>7, CommandStep

\* onCommand starts or stops threads of the listeners it finds.
LEMMA CommandIsCarriedOut ==
  ASSUME IInv, OnCommand
  PROVE  IInv'
<1>1. /\ Typed /\ CommandTyped /\ CallTyped /\ HistoryTyped /\ CallInv /\ StateIsHonest
      /\ OrderInv
      /\ TableInv /\ TableTyped
  BY DEF IInv, Typed
<1>2. /\ UNCHANGED <<queueVars, tableVars, service, threadVars, gone>> /\ command = "callback"
      /\ call["command"] = Resting
      /\ UNCHANGED <<StreamThreads, CommandListeners, Streams, service, State, loop, gone>>
  BY DEF OnCommand, tableVars, threadVars
<1>3. ASSUME command' \in {"dequeue", "callback"}, UNCHANGED <<call, excuse>>, CommandTyped'
      PROVE  IInv'
  <2>1. (CallTyped /\ HistoryTyped)'
    BY <1>1, <1>2, <1>3 DEF CallTyped, HistoryTyped
  <2>2. CallInv'
    <3>1. ~Calling("command")
      BY <1>1, <1>2, CallKinds, Names DEF Calling
    <3>2. QED
      BY <1>1, <1>2, <1>3, <3>1, Names DEF CallInv, Places, Listening, Calling
  <2>3. (StateIsHonest /\ OrderInv)'
    BY <1>1, <1>2, <1>3
       DEF StateIsHonest, OrderInv, Alone, Streamed, Reached, Stopped, NoRace, Calling,
           Asking, Active
  <2>4. QED
    BY <1>2, <1>3, <2>1, <2>2, <2>3, CommandStep
<1>4. CASE todo = << >>
  BY <1>1, <1>2, <1>3, <1>4 DEF OnCommand, CommandTyped
<1>5. CASE todo # << >>
  <2> DEFINE i == Head(todo)
             t == CommandListeners[Head(todo)]
             p == StreamThreads["PREVIEW"]
  <2>1. i \in Ids /\ Tail(todo) \in Seq(Ids)
    BY <1>1, <1>5 DEF CommandTyped
  <2>2. t \in Threads /\ i # "ZSL" => t = i
    BY <1>1, <2>1, Names DEF TableInv, Mapped, Listed
  <2>3. p # NoThread => p \in Threads
    BY <1>1, Names DEF TableInv, Mapped
  <2>4. /\ todo' = Tail(todo)
        /\ \/ /\ t = NoThread \/ i = "ZSL"
              /\ UNCHANGED <<command, call, excuse>>
           \/ /\ t = "CAPTURE" /\ ~IsRunning("RECORD") /\ p # NoThread
              /\ command' = "capture"
              /\ Calls("command", "stop", p, 0) /\ Excused(Crosses("command", p), "race")
           \/ /\ t \in Threads /\ i # "ZSL"
              /\ UNCHANGED command /\ Calls("command", "start", t, WaitCount)
              /\ Excused(Crosses("command", t), "race")
    BY <1>5 DEF OnCommand
  <2>5. CommandTyped'
    BY <1>2, <2>1, <2>4 DEF CommandTyped
  <2>6. 0 \in 0..Polls + WaitCount /\ WaitCount \in 0..Polls + WaitCount
    BY CameraAssumption
  <2> HIDE DEF t, p, i
  <2>7. CASE UNCHANGED <<command, call, excuse>>
    BY <1>2, <1>3, <2>5, <2>7
  <2>8. CASE /\ t = "CAPTURE" /\ p # NoThread /\ command' = "capture"
             /\ Calls("command", "stop", p, 0) /\ Excused(Crosses("command", p), "race")
    <3>1. CommandListeners["CAPTURE"] = "CAPTURE"
      BY <1>1, <2>1, <2>8, Names DEF TableInv, Mapped, Listed, t, i
    <3>2. QED
      BY <1>2, <2>3, <2>5, <2>6, <2>8, <3>1, CommandCalls
  <2>9. CASE /\ t \in Threads /\ i # "ZSL" /\ UNCHANGED command
             /\ Calls("command", "start", t, WaitCount)
             /\ Excused(Crosses("command", t), "race")
    <3>1. CommandListeners[t] = t
      BY <2>2, <2>9 DEF t, i
    <3>2. QED
      BY <1>2, <2>5, <2>6, <2>9, <3>1, CommandCalls
  <2>10. QED
    BY <2>4, <2>7, <2>8, <2>9
<1>6. QED
  BY <1>4, <1>5

\* A capture request starts the capture once its stop of the preview has returned.
LEMMA CaptureIsStarted ==
  ASSUME IInv, CaptureGoesOn
  PROVE  IInv'
<1>1. CommandTyped /\ CommandListeners["CAPTURE"] = "CAPTURE"
  BY DEF IInv, Typed, CallInv, Listening, CaptureGoesOn
<1>2. CommandTyped' /\ WaitCount \in 0..Polls + WaitCount
  BY <1>1, CameraAssumption DEF CommandTyped, CaptureGoesOn
<1>3. QED
  BY <1>1, <1>2, CommandCalls, Names DEF CaptureGoesOn

-----------------------------------------------------------------------------
(* Inside start and stop.                                                    *)

\* What a caller that is inside start or stop knows.
LEMMA CallerKnows ==
  ASSUME IInv, NEW a \in Callers, Calling(a)
  PROVE  /\ call[a].of \in Threads
         /\ call[a].at \in {"start", "started"} => a = "command"
         /\ NoRace => \A b \in Callers \ {a} : Calling(b) => call[b].of # call[a].of
         /\ NoRace /\ State[call[a].of] # "EXIT" => call[a].of \in Streams[call[a].of]
         /\ NoRace /\ Asking(a) => call[a].of \in Streams[call[a].of]
<1>1. CallInv /\ OrderInv
  BY DEF IInv
<1>2. call[a].of \in Threads /\ (call[a].at \in {"start", "started"} => a = "command")
  BY <1>1, Names DEF CallInv, Places
<1>3. QED
  BY <1>1, <1>2 DEF OrderInv, Alone, Streamed, Reached

\* A call that goes on, ends, or changes State; the thread starts at most.
LEMMA StartGoesOn ==
  ASSUME IInv, StartRuns
  PROVE  IInv'
<1> DEFINE c == call["command"]
           t == c.of
<1>1. /\ ThreadTyped /\ CallTyped /\ HistoryTyped /\ CallInv /\ StateIsHonest /\ OrderInv
      /\ Unwatched /\ TableInv
  BY DEF IInv, Typed
<1>2. /\ UNCHANGED <<queueVars, commandVars, tableVars, service>> /\ c.at = "start"
      /\ UNCHANGED <<State, excuse, gone>>
      /\ UNCHANGED <<service, StreamThreads, CommandListeners, Streams, allocated, command>>
  BY DEF StartRuns, CallOnly, history, commandVars, tableVars
<1>3. t \in Threads /\ Calling("command") /\ CommandListeners[t] = t
  BY <1>1, <1>2, Names DEF CallInv, Places, Listening, Calling
<1>4. t \in allocated /\ t \in Streams[t] /\ (service.at # "idle" => t # service.id)
  BY <1>1, <1>3, Names DEF TableInv, Listed, Present, Mapped, Busy
<1>5. HistoryTyped' /\ ~gone'
  BY <1>1, <1>2 DEF HistoryTyped, IInv
<1>6. ASSUME UNCHANGED loop, CallTyped', call'["command"].at \in {"none", "start"},
             call'["command"].at = "start" => call'["command"].of = t,
             \A b \in Callers \ {"command"} : call'[b] = call[b]
      PROVE  IInv'
  <2>1. ThreadTyped' /\ CallInv'
    BY <1>1, <1>2, <1>3, <1>6, Names DEF ThreadTyped, CallInv, Places, Listening, Calling
  <2>2. StateIsHonest'
    BY <1>1, <1>2, <1>6, Names DEF StateIsHonest
  <2>3. OrderInv'
    BY <1>1, <1>2, <1>3, <1>6, Names
       DEF OrderInv, Alone, Streamed, Reached, Stopped, NoRace, Calling, Asking, Active
  <2>4. Unwatched'
    BY <1>1, <1>2, <1>6 DEF Unwatched, Busy, Other, LooksInto
  <2>5. QED
    BY <1>2, <1>5, <1>6, <2>1, <2>2, <2>3, <2>4, ThreadStep
<1>7. CASE State[t] = "WAIT_EXIT" /\ c.left > 0 /\ UNCHANGED loop
           /\ call' = [call EXCEPT !["command"].left = @ - 1]
  <2>1. c.left \in 0..Polls + WaitCount /\ c.left - 1 \in 0..Polls + WaitCount
    BY <1>1, <1>7, CallKinds, CameraAssumption, Names
  <2>2. /\ call'["command"] = [c EXCEPT !.left = @ - 1]
        /\ \A b \in Callers \ {"command"} : call'[b] = call[b]
    BY <1>1, <1>7, Names DEF CallTyped
  <2>3. CallTyped' /\ call'["command"].at = c.at /\ call'["command"].of = c.of
    BY <1>1, <1>7, <2>1, Names DEF CallTyped
  <2>4. QED
    BY <1>2, <1>6, <1>7, <2>2, <2>3
<1>8. CASE EndCall("command") /\ UNCHANGED loop
  <2>1. /\ CallTyped' /\ call'["command"].at = "none"
        /\ \A b \in Callers \ {"command"} : call'[b] = call[b]
    BY <1>1, <1>8, CameraAssumption, Names DEF CallTyped, EndCall, Resting
  <2>2. QED
    BY <1>6, <1>8, <2>1
<1>9. CASE /\ State[t] = "EXIT" /\ t \in Streams[t] /\ loop[t] = "none"
           /\ loop' = [loop EXCEPT ![t] = "ready"] /\ GoesTo("command", "started")
  <2>1. /\ CallTyped' /\ call'["command"].at = "started" /\ call'["command"].of = t
        /\ \A b \in Callers \ {"command"} : call'[b] = call[b]
    BY <1>1, <1>9, Names DEF CallTyped, GoesTo
  <2>2. /\ ThreadTyped' /\ loop'[t] = "ready" /\ \A u \in Threads \ {t} : loop'[u] = loop[u]
    BY <1>1, <1>2, <1>3, <1>9 DEF ThreadTyped
  <2> HIDE DEF t, c
  <2>3. CallInv'
    BY <1>1, <1>2, <1>3, <1>9, <2>1, <2>2, Names DEF CallInv, Places, Listening, Calling
  <2>4. StateIsHonest'
    BY <1>1, <1>2, <1>9, <2>1, <2>2, Names DEF StateIsHonest, t, c
  <2>5. OrderInv'
    <3>1. Alone' /\ Reached'
      BY <1>1, <1>2, <1>3, <2>1, Names DEF OrderInv, Alone, Reached, NoRace, Calling, Asking,
                                           t, c
    <3>2. Streamed'
      BY <1>1, <1>2, <1>4, <2>2 DEF OrderInv, Streamed, NoRace, Active
    <3>3. Stopped'
      BY <1>1, <1>2, <1>4, <2>1, <2>2, Names DEF OrderInv, Stopped, NoRace, Active, Asking
    <3>4. QED
      BY <3>1, <3>2, <3>3 DEF OrderInv
  <2>6. Unwatched'
    BY <1>1, <1>2, <1>4, <2>2, Names DEF Unwatched, Busy, Other, LooksInto
  <2>7. QED
    BY <1>2, <1>5, <2>1, <2>2, <2>3, <2>4, <2>5, <2>6, ThreadStep
<1>10. QED
  BY <1>7, <1>8, <1>9 DEF StartRuns

\* start writes RUNNING, unless the thread says otherwise first.
LEMMA StartSays ==
  ASSUME IInv, StartSetsState
  PROVE  IInv'
<1> DEFINE t == call["command"].of
<1>1. /\ ThreadTyped /\ CallTyped /\ HistoryTyped /\ CallInv /\ StateIsHonest /\ OrderInv
      /\ Unwatched /\ TableInv
  BY DEF IInv, Typed
<1>2. /\ UNCHANGED <<queueVars, commandVars, tableVars, service>>
      /\ call["command"].at = "started" /\ UNCHANGED <<loop, excuse, gone>>
      /\ UNCHANGED <<service, StreamThreads, CommandListeners, Streams, allocated, command>>
  BY DEF StartSetsState, CallOnly, history, commandVars, tableVars
<1>3. t \in Threads /\ Calling("command") /\ CommandListeners[t] = t
  BY <1>1, <1>2, Names DEF CallInv, Places, Listening, Calling
<1>4. t \in allocated /\ t \in Streams[t] /\ (service.at # "idle" => t # service.id)
  BY <1>1, <1>3, Names DEF TableInv, Listed, Present, Mapped, Busy
<1>5. HistoryTyped' /\ ~gone'
  BY <1>1, <1>2 DEF HistoryTyped, IInv
<1>6. /\ CallTyped' /\ call'["command"].at = "none"
      /\ \A b \in Callers \ {"command"} : call'[b] = call[b]
  BY <1>1, CameraAssumption, Names DEF StartSetsState, CallTyped, EndCall, Resting
<1>7. /\ ThreadTyped' /\ State'[t] = "RUNNING" /\ \A u \in Threads \ {t} : State'[u] = State[u]
  BY <1>1, <1>2, <1>3 DEF StartSetsState, ThreadTyped
<1>8. CallInv'
  BY <1>1, <1>2, <1>6, Names DEF CallInv, Places, Listening, Calling
<1>9. StateIsHonest'
  BY <1>1, <1>2, <1>6, <1>7, Names DEF StateIsHonest
<1> HIDE DEF t
<1>10. OrderInv'
  <2>1. Alone' /\ Reached'
    BY <1>1, <1>2, <1>6, Names DEF OrderInv, Alone, Reached, NoRace, Calling, Asking
  <2>2. Streamed'
    BY <1>1, <1>2, <1>4, <1>7 DEF OrderInv, Streamed, NoRace, Active
  <2>3. Stopped'
    BY <1>1, <1>2, <1>4, <1>6, <1>7, Names DEF OrderInv, Stopped, NoRace, Active, Asking
  <2>4. QED
    BY <2>1, <2>2, <2>3 DEF OrderInv
<1>11. Unwatched'
  BY <1>1, <1>2 DEF Unwatched, Busy, Other, LooksInto
<1>12. QED
  BY <1>2, <1>5, <1>6, <1>7, <1>8, <1>9, <1>10, <1>11, ThreadStep

\* A step of stop: what is the same for all of them.
LEMMA StopStep ==
  ASSUME IInv, NEW a \in Callers, call[a].at \in {"stop", "ask", "poll", "flush"},
         UNCHANGED <<queueVars, commandVars, tableVars, service, loop>>,
         call'[a].at \in {"none", "ask", "poll", "flush"},
         call'[a].at # "none" => call'[a].of = call[a].of,
         \A b \in Callers \ {a} : call'[b] = call[b],
         (ThreadTyped /\ CallTyped /\ HistoryTyped)', NoRace' => NoRace,
         excuse' = "none" => excuse = "none",
         (StateIsHonest /\ Streamed /\ Reached /\ Stopped)', ~gone'
  PROVE  IInv'
<1>1. CallInv /\ OrderInv /\ Unwatched
  BY DEF IInv
<1>2. UNCHANGED <<service, StreamThreads, CommandListeners, Streams, allocated, command, loop>>
  BY DEF commandVars, tableVars
<1>3. CallInv'
  BY <1>1, <1>2, Names DEF CallInv, Places, Listening, Calling
<1>4. Alone'
  BY <1>1 DEF OrderInv, Alone, Calling
<1>5. Unwatched'
  BY <1>1, <1>2 DEF Unwatched, Busy, Other, LooksInto
<1>6. QED
  BY <1>3, <1>4, <1>5, ThreadStep DEF OrderInv

\* Nobody starts a thread that another is stopping.
LEMMA StoppedThread ==
  ASSUME IInv, NEW a \in Callers, call[a].at \in {"stop", "poll"}, NoRace,
         State[call[a].of] = "EXIT"
  PROVE  ~Active(call[a].of)
<1>1. Calling(a) /\ call[a].of \in Threads
  BY CallerKnows DEF Calling
<1>2. ~(call["command"].at = "started" /\ call["command"].of = call[a].of)
  BY <1>1, CallerKnows, Names DEF Calling
<1>3. QED
  BY <1>1, <1>2 DEF IInv, StateIsHonest, Active, NoRace

\* The service is inside stop only for the stream it releases.
LEMMA ServiceStops ==
  ASSUME IInv, Calling("service"), service.id \in Threads
  PROVE  call["service"].of = service.id
BY Names DEF IInv, CallInv, Places, TableInv, Mapped, Listed, Busy, Present

\* stop tests whether there is a thread to stop ...
LEMMA StopIsTested ==
  ASSUME IInv, NEW a \in Callers, StopTests(a)
  PROVE  IInv'
<1> DEFINE t == call[a].of
<1>1. /\ ThreadTyped /\ CallTyped /\ HistoryTyped /\ StateIsHonest /\ OrderInv
  BY DEF IInv, Typed
<1>2. /\ UNCHANGED <<queueVars, commandVars, tableVars, service, loop>> /\ call[a].at = "stop"
      /\ UNCHANGED <<State, excuse, gone>> /\ Calling(a)
      /\ UNCHANGED <<service, Streams>>
  BY DEF StopTests, CallOnly, threadVars, history, tableVars, Calling
<1>3. /\ CallTyped' /\ \A b \in Callers \ {a} : call'[b] = call[b]
      /\ IF State[t] = "EXIT" THEN call'[a].at = "none"
         ELSE call'[a].at = "ask" /\ call'[a].of = t
  <2>1. CASE State[t] = "EXIT"
    BY <1>1, <2>1, CameraAssumption DEF StopTests, CallTyped, EndCall, Resting
  <2>2. CASE State[t] # "EXIT"
    BY <1>1, <2>2 DEF StopTests, CallTyped, GoesTo
  <2>3. QED
    BY <2>1, <2>2
<1>4. t \in Threads
  BY <1>2, CallerKnows
<1>5. NoRace /\ State[t] # "EXIT" => t \in Streams[t]
  BY <1>2, CallerKnows
<1>6. NoRace => \A b \in Callers \ {a} : Calling(b) => call[b].of # t
  BY <1>2, CallerKnows
<1>7. NoRace /\ State[t] = "EXIT" => ~Active(t)
  BY <1>2, StoppedThread
<1>8. a = "service" /\ service.id \in Threads => t = service.id
  BY <1>2, ServiceStops
<1> HIDE DEF t
<1>9. (ThreadTyped /\ HistoryTyped)' /\ ~gone' /\ (NoRace' => NoRace)
  BY <1>1, <1>2 DEF ThreadTyped, HistoryTyped, NoRace, IInv
<1>10. StateIsHonest'
  BY <1>1, <1>2, <1>3, Names DEF StateIsHonest
<1>11. Streamed' /\ Reached'
  BY <1>1, <1>2, <1>3, <1>5 DEF OrderInv, Streamed, Reached, NoRace, Active, Asking
<1>12. Stopped'
  <2>1. CASE a = "service"
    BY <1>2, <1>3, <1>6, <1>7, <1>8, <2>1, Names
       DEF Stopped, NoRace, Active, Asking, Calling
  <2>2. CASE a # "service"
    BY <1>1, <1>2, <1>3, <2>2, Names DEF OrderInv, Stopped, NoRace, Active, Asking
  <2>3. QED
    BY <2>1, <2>2
<1>13. QED
  BY <1>2, <1>3, <1>9, <1>10, <1>11, <1>12, StopStep DEF t

\* ... asks it ...
LEMMA StopIsAsked ==
  ASSUME IInv, NEW a \in Callers, StopAsks(a)
  PROVE  IInv'
<1> DEFINE t == call[a].of
<1>1. /\ ThreadTyped /\ CallTyped /\ HistoryTyped /\ StateIsHonest /\ OrderInv
  BY DEF IInv, Typed
<1>2. /\ UNCHANGED <<queueVars, commandVars, tableVars, service, loop>> /\ call[a].at = "ask"
      /\ UNCHANGED <<excuse, gone>> /\ Calling(a) /\ Asking(a)
      /\ UNCHANGED <<service, Streams>>
  BY DEF StopAsks, CallOnly, history, tableVars, Calling, Asking
<1>3. /\ CallTyped' /\ \A b \in Callers \ {a} : call'[b] = call[b]
      /\ call'[a].at = "poll" /\ call'[a].of = t
  <2>1. Polls \in 0..Polls + WaitCount
    BY CameraAssumption
  <2>2. QED
    BY <1>1, <2>1 DEF StopAsks, CallTyped
<1>4. t \in Threads
  BY <1>2, CallerKnows
<1>5. NoRace => t \in Streams[t]
  BY <1>2, CallerKnows
<1>6. ThreadTyped' /\ State'[t] = "WAIT_EXIT" /\ \A u \in Threads \ {t} : State'[u] = State[u]
  BY <1>1, <1>2, <1>4 DEF StopAsks, ThreadTyped
<1> HIDE DEF t
<1>7. HistoryTyped' /\ ~gone' /\ (NoRace' => NoRace)
  BY <1>1, <1>2 DEF HistoryTyped, NoRace, IInv
<1>8. StateIsHonest'
  BY <1>1, <1>2, <1>3, <1>6, Names DEF StateIsHonest
<1>9. Streamed' /\ Reached'
  BY <1>1, <1>2, <1>3, <1>5, <1>6 DEF OrderInv, Streamed, Reached, NoRace, Active, Asking
<1>10. Stopped'
  <2>1. CASE a = "service"
    BY <1>3, <2>1 DEF Stopped
  <2>2. CASE a # "service"
    BY <1>1, <1>2, <1>3, <1>6, <2>2, Names DEF OrderInv, Stopped, NoRace, Active, Asking, t
  <2>3. QED
    BY <2>1, <2>2
<1>11. QED
  BY <1>2, <1>3, <1>6, <1>7, <1>8, <1>9, <1>10, StopStep DEF t

\* ... polls its state ...
LEMMA StopIsPolled ==
  ASSUME IInv, NEW a \in Callers, StopPolls(a)
  PROVE  IInv'
<1>1. /\ ThreadTyped /\ CallTyped /\ HistoryTyped /\ StateIsHonest /\ OrderInv
  BY DEF IInv, Typed
<1>2. /\ UNCHANGED <<queueVars, commandVars, tableVars, service, loop>> /\ call[a].at = "poll"
      /\ UNCHANGED <<State, excuse, gone, service, Streams>>
  BY DEF StopPolls, CallOnly, threadVars, history, tableVars
<1>3. /\ CallTyped' /\ \A b \in Callers \ {a} : call'[b] = call[b]
      /\ call'[a].at = "poll" /\ call'[a].of = call[a].of
  <2>1. call[a].left \in 0..Polls + WaitCount /\ call[a].left - 1 \in 0..Polls + WaitCount
    BY <1>1, CallKinds, CameraAssumption DEF StopPolls
  <2>2. QED
    BY <1>1, <2>1 DEF StopPolls, CallTyped
<1>4. (ThreadTyped /\ HistoryTyped)' /\ ~gone' /\ (NoRace' => NoRace)
  BY <1>1, <1>2 DEF ThreadTyped, HistoryTyped, NoRace, IInv
<1>5. StateIsHonest'
  BY <1>1, <1>2, <1>3, Names DEF StateIsHonest
<1>6. (Streamed /\ Reached /\ Stopped)'
  <2>1. \A b \in Callers : call'[b].at = call[b].at /\ call'[b].of = call[b].of
    BY <1>2, <1>3
  <2>2. QED
    BY <1>1, <1>2, <2>1, Names DEF OrderInv, Streamed, Reached, Stopped, NoRace, Active, Asking
<1>7. QED
  BY <1>2, <1>3, <1>4, <1>5, <1>6, StopStep

\* ... gives up after the last poll ...
LEMMA StopEnds ==
  ASSUME IInv, NEW a \in Callers, StopGivesUp(a)
  PROVE  IInv'
<1> DEFINE t == call[a].of
<1>1. /\ ThreadTyped /\ CallTyped /\ HistoryTyped /\ StateIsHonest /\ OrderInv
  BY DEF IInv, Typed
<1>2. /\ UNCHANGED <<queueVars, commandVars, tableVars, service, loop>> /\ call[a].at = "poll"
      /\ UNCHANGED gone /\ Calling(a) /\ Asking(a) /\ UNCHANGED <<service, Streams>>
  BY DEF StopGivesUp, CallOnly, tableVars, Calling, Asking
<1>3. /\ CallTyped' /\ \A b \in Callers \ {a} : call'[b] = call[b]
      /\ call'[a].at \in {"none", "flush"} /\ (call'[a].at # "none" => call'[a].of = t)
  BY <1>1, CameraAssumption DEF StopGivesUp, CallTyped, EndCall, GoesTo, Resting
<1>4. t \in Threads
  BY <1>2, CallerKnows
<1>5. NoRace => t \in Streams[t] /\ \A b \in Callers \ {a} : Calling(b) => call[b].of # t
  BY <1>2, CallerKnows
<1>6. ThreadTyped' /\ State'[t] = "EXIT" /\ \A u \in Threads \ {t} : State'[u] = State[u]
  BY <1>1, <1>2, <1>4 DEF StopGivesUp, ThreadTyped
<1>7. /\ State[t] = "EXIT" \/ (NoRace' => ~Active(t))
      /\ HistoryTyped' /\ (NoRace' => NoRace) /\ (excuse' = "none" => excuse = "none")
  BY <1>1, <1>2 DEF StopGivesUp, Excused, HistoryTyped, NoRace, Active
<1>8. NoRace /\ State[t] = "EXIT" => ~Active(t)
  BY <1>2, StoppedThread
<1>9. a = "service" /\ service.id \in Threads => t = service.id
  BY <1>2, ServiceStops
<1> HIDE DEF t
<1>10. ~gone' /\ \A u \in Threads : Active(u)' <=> Active(u)
  BY <1>2 DEF IInv, Active
<1>11. StateIsHonest'
  <2>1. NoRace' => ~Active(t)
    BY <1>7, <1>8
  <2>2. \A u \in Threads \ {t} :
          /\ State'[u] = "WAIT_EXIT" =>
               \E b \in Callers : call'[b].at = "poll" /\ call'[b].of = u
          /\ State'[u] = "EXIT" /\ Active(u) =>
               ~NoRace' \/ (call'["command"].at = "started" /\ call'["command"].of = u)
    BY <1>1, <1>2, <1>3, <1>6, <1>7, Names DEF StateIsHonest, NoRace, Active, t
  <2>3. QED
    BY <1>2, <1>4, <1>6, <2>1, <2>2 DEF StateIsHonest, NoRace, Active
<1>12. Streamed' /\ Reached'
  BY <1>1, <1>2, <1>3, <1>5, <1>6, <1>7, <1>10 DEF OrderInv, Streamed, Reached, Asking
<1>13. Stopped'
  <2>1. CASE a = "service"
    BY <1>2, <1>3, <1>4, <1>5, <1>6, <1>7, <1>8, <1>9, <1>10, <2>1, Names
       DEF Stopped, Asking, Calling
  <2>2. CASE a # "service"
    BY <1>1, <1>2, <1>3, <1>6, <1>7, <1>10, <2>2, Names DEF OrderInv, Stopped, Asking, t
  <2>3. QED
    BY <2>1, <2>2
<1>14. QED
  BY <1>2, <1>3, <1>6, <1>7, <1>10, <1>11, <1>12, <1>13, StopStep DEF t

\* ... or switches the stream off and returns.
LEMMA StopIsFlushed ==
  ASSUME IInv, NEW a \in Callers, StopFlushes(a)
  PROVE  IInv'
<1>1. /\ ThreadTyped /\ CallTyped /\ HistoryTyped /\ StateIsHonest /\ OrderInv
  BY DEF IInv, Typed
<1>2. /\ UNCHANGED <<queueVars, commandVars, tableVars, service, loop>> /\ call[a].at = "flush"
      /\ UNCHANGED <<State, excuse, service, Streams>> /\ Calling(a) /\ Asking(a)
  BY DEF StopFlushes, CallOnly, threadVars, tableVars, Calling, Asking
<1>3. /\ CallTyped' /\ \A b \in Callers \ {a} : call'[b] = call[b]
      /\ call'[a].at = "none"
  BY <1>1, CameraAssumption DEF StopFlushes, CallTyped, EndCall, Resting
<1>4. gone' = FALSE
  <2>1. NoRace => call[a].of \in Streams[call[a].of]
    BY <1>2, CallerKnows
  <2>2. Uses(call[a].of \in Streams[call[a].of]) /\ ~gone
    BY DEF StopFlushes, IInv
  <2>3. QED
    BY <1>1, <2>1, <2>2 DEF Uses, NoRace, HistoryTyped
<1>5. (ThreadTyped /\ HistoryTyped)' /\ (NoRace' => NoRace)
  BY <1>1, <1>2, <1>4 DEF ThreadTyped, HistoryTyped, NoRace
<1>6. StateIsHonest'
  BY <1>1, <1>2, <1>3, Names DEF StateIsHonest
<1>7. (Streamed /\ Reached /\ Stopped)'
  BY <1>1, <1>2, <1>3, Names DEF OrderInv, Streamed, Reached, Stopped, NoRace, Active, Asking
<1>8. QED
  BY <1>2, <1>3, <1>4, <1>5, <1>6, <1>7, StopStep

-----------------------------------------------------------------------------
(* The service allocates and releases streams.                               *)

\* The stream of a format is one of the streams, RECORD only with a preview.
LEMMA FormatStream ==
  ASSUME NEW f \in Formats
  PROVE  /\ whatStreamAllocate(f) \in Ids
         /\ whatStreamAllocate(f) = "RECORD" => StreamThreads["PREVIEW"] # NoThread
BY CameraAssumption, Names DEF whatStreamAllocate

\* The service leaves the requests, the command thread and the calls alone.
LEMMA ServiceStep ==
  ASSUME IInv, UNCHANGED <<queueVars, commandVars, call, history>>,
         (TableTyped /\ ServiceTyped /\ ThreadTyped)', TableInv', CallInv', StateIsHonest',
         OrderInv', Unwatched'
  PROVE  IInv'
<1>1. UNCHANGED <<requests, signalConsumer, notifying, MsgReceived, command, todo, call,
                  excuse, gone>>
  BY DEF queueVars, commandVars, history
<1>2. Typed'
  BY <1>1 DEF IInv, Typed, QueueTyped, CommandTyped, CallTyped, HistoryTyped
<1>3. Notified' /\ ~gone'
  BY <1>1 DEF IInv, Notified
<1>4. QED
  BY <1>2, <1>3 DEF IInv

\* ZSL is added to the preview's thread.
LEMMA ZslIsAllocated ==
  ASSUME IInv, NEW f \in Formats, AllocateStream(f), whatStreamAllocate(f) = "ZSL"
  PROVE  IInv'
<1>1. /\ TableTyped /\ ThreadTyped /\ CallTyped /\ TableInv /\ CallInv /\ StateIsHonest
      /\ OrderInv
      /\ Unwatched
  BY DEF IInv, Typed
<1>2. /\ service.at = "idle" /\ StreamThreads["ZSL"] = NoThread
      /\ StreamThreads["PREVIEW"] \in Threads
      /\ Streams' = [Streams EXCEPT ![StreamThreads["PREVIEW"]] = @ \cup {"ZSL"}]
      /\ shared' = TRUE
      /\ StreamThreads' = [StreamThreads EXCEPT !["ZSL"] = StreamThreads["PREVIEW"]]
      /\ service' = [at |-> "register", id |-> "ZSL"]
      /\ UNCHANGED <<queueVars, commandVars, CommandListeners, allocated, loop, call, history>>
      /\ UNCHANGED <<interlace, State>>
  BY DEF AllocateStream, ServiceAt, ServiceGoes
<1>3. StreamThreads["PREVIEW"] = "PREVIEW"
  BY <1>1, <1>2, Names DEF TableInv, Mapped
<1>4. /\ Streams'["PREVIEW"] = Streams["PREVIEW"] \cup {"ZSL"}
      /\ \A t \in Threads \ {"PREVIEW"} : Streams'[t] = Streams[t]
      /\ StreamThreads'["ZSL"] = "PREVIEW"
      /\ \A t \in Threads : StreamThreads'[t] = StreamThreads[t]
      /\ service'.at = "register" /\ service'.id = "ZSL" /\ UNCHANGED <<excuse, gone, command>>
      /\ "ZSL" \notin allocated
  BY <1>1, <1>2, <1>3, Names DEF TableTyped, history, commandVars, TableInv, Listed, Present
<1>5. (TableTyped /\ ServiceTyped /\ ThreadTyped)'
  BY <1>1, <1>2, <1>3, Names DEF TableTyped, ServiceTyped, ThreadTyped
<1>6. TableInv'
  <2>1. Mapped'
    BY <1>1, <1>3, <1>4, Names DEF TableInv, Mapped
  <2>2. Listed'
    <3>1. \A i \in allocated : i \in Threads /\ StreamThreads[i] = i /\ i \in Streams[i]
      BY <1>1, <1>4, Names DEF TableInv, Listed, Mapped, TableTyped, Present
    <3>2. QED
      BY <1>1, <1>2, <1>3, <1>4, <3>1, Names DEF TableInv, Listed, Present, Busy
  <2>3. QED
    BY <2>1, <2>2 DEF TableInv
<1>7. CallInv'
  BY <1>1, <1>2, <1>4, Names DEF CallInv, Places, Listening, Calling
<1>8. StateIsHonest'
  BY <1>1, <1>2, <1>4 DEF StateIsHonest
<1>9. OrderInv'
  BY <1>1, <1>2, <1>4 DEF OrderInv, Alone, Streamed, Reached, Stopped, NoRace, Calling,
                          Asking, Active
<1>10. Unwatched'
  BY <1>1, <1>2, <1>4, Names DEF Unwatched, Busy, Other
<1>11. QED
  BY <1>2, <1>5, <1>6, <1>7, <1>8, <1>9, <1>10, ServiceStep

\* A new thread; the stale entries of its predecessor stay behind.
LEMMA ThreadIsAllocated ==
  ASSUME IInv, NEW f \in Formats, AllocateStream(f), whatStreamAllocate(f) # "ZSL"
  PROVE  IInv'
<1> DEFINE t == whatStreamAllocate(f)
<1>1. /\ TableTyped /\ ThreadTyped /\ CallTyped /\ TableInv /\ CallInv /\ StateIsHonest
      /\ OrderInv
      /\ Unwatched
  BY DEF IInv, Typed
<1>2. /\ service.at = "idle" /\ StreamThreads[t] = NoThread /\ t \in Threads /\ loop[t] = "none"
      /\ Streams' = [Streams EXCEPT ![t] = {t}]
      /\ StreamThreads' = [i \in Ids |-> IF i = t THEN t
                                         ELSE IF StreamThreads[i] = t THEN Old
                                         ELSE StreamThreads[i]]
      /\ State' = [State EXCEPT ![t] = "EXIT"] /\ UNCHANGED shared
      /\ service' = [at |-> "register", id |-> t]
      /\ UNCHANGED <<queueVars, commandVars, CommandListeners, allocated, loop, call, history>>
  BY DEF AllocateStream, ServiceAt, ServiceGoes
<1>3. interlace' \in BOOLEAN
  BY <1>1 DEF AllocateStream, TableTyped
<1>4. t = "RECORD" => StreamThreads["PREVIEW"] # NoThread
  BY FormatStream
<1> HIDE DEF t
<1>5. t \notin allocated /\ \A i \in allocated : i # "ZSL" \/ t # "PREVIEW"
  BY <1>1, <1>2, Names DEF TableInv, Listed, Present, Mapped
<1>6. /\ Streams'[t] = {t} /\ \A u \in Threads \ {t} : Streams'[u] = Streams[u]
      /\ State'[t] = "EXIT" /\ \A u \in Threads \ {t} : State'[u] = State[u]
      /\ StreamThreads'[t] = t /\ \A u \in Threads \ {t} : StreamThreads'[u] = StreamThreads[u]
      /\ StreamThreads'["ZSL"] = IF StreamThreads["ZSL"] = t THEN Old ELSE StreamThreads["ZSL"]
      /\ service'.at = "register" /\ service'.id = t
      /\ UNCHANGED <<excuse, gone, command, loop, call, allocated, CommandListeners, shared>>
  BY <1>1, <1>2, Names DEF TableTyped, ThreadTyped, TableInv, Mapped, history, commandVars
<1>7. (TableTyped /\ ServiceTyped /\ ThreadTyped)'
  BY <1>1, <1>2, <1>3, Names DEF TableTyped, ServiceTyped, ThreadTyped
<1>8. TableInv'
  <2>1. Mapped'
    BY <1>1, <1>2, <1>6, Names DEF TableInv, Mapped
  <2>2. Listed'
    BY <1>1, <1>2, <1>5, <1>6, Names DEF TableInv, Mapped, Listed, Present, Busy, TableTyped
  <2>3. QED
    BY <2>1, <2>2 DEF TableInv
<1>9. CallInv'
  BY <1>1, <1>2, <1>6, Names DEF CallInv, Places, Listening, Calling
<1>10. StateIsHonest'
  BY <1>1, <1>2, <1>6 DEF StateIsHonest
<1>11. OrderInv'
  BY <1>1, <1>2, <1>6
     DEF OrderInv, Alone, Streamed, Reached, Stopped, NoRace, Calling, Asking, Active
<1>12. Unwatched'
  <2>1. "PREVIEW" = t \/ StreamThreads'["PREVIEW"] = StreamThreads["PREVIEW"]
    BY <1>6, Names
  <2>2. t = "RECORD" => StreamThreads["PREVIEW"] = "PREVIEW"
    BY <1>1, <1>4, Names DEF TableInv, Mapped
  <2>3. QED
    BY <1>1, <1>2, <1>6, <2>1, <2>2, Names DEF Unwatched, Busy, Other
<1>13. QED
  BY <1>2, <1>7, <1>8, <1>9, <1>10, <1>11, <1>12, ServiceStep

\* A new stream's thread becomes a listener of the command thread.
LEMMA ListenerIsRegistered ==
  ASSUME IInv, RegisterListener
  PROVE  IInv'
<1> DEFINE id == service.id
<1>1. /\ TableTyped /\ ThreadTyped /\ CallTyped /\ TableInv /\ CallInv /\ StateIsHonest /\ OrderInv
      /\ Unwatched
  BY DEF IInv, Typed
<1>2. /\ service.at = "register" /\ command \notin {"callback", "capture"}
      /\ CommandListeners' = [CommandListeners EXCEPT ![id] = StreamThreads[id]]
      /\ allocated' = allocated \cup {id} /\ service' = [at |-> "idle", id |-> NoThread]
      /\ UNCHANGED <<queueVars, commandVars, StreamThreads, Streams, interlace, shared, threadVars,
                     call, history>>
  BY DEF RegisterListener, ServiceAt, ServiceGoes, ListenerMutexFree
<1>3. id \in Ids \ allocated /\ Present(id)
  BY <1>1, <1>2 DEF TableInv, Listed, Busy
<1> HIDE DEF id
<1>4. /\ CommandListeners'[id] = StreamThreads[id]
      /\ \A i \in Ids \ {id} : CommandListeners'[i] = CommandListeners[i]
      /\ service'.at = "idle" /\ UNCHANGED <<excuse, gone, command, State, loop>>
  BY <1>1, <1>2, <1>3 DEF TableTyped, history, commandVars, threadVars
<1>5. (TableTyped /\ ServiceTyped /\ ThreadTyped)'
  BY <1>1, <1>2, <1>3, <1>4, Names DEF TableTyped, ServiceTyped, ThreadTyped, Present
<1>6. TableInv'
  BY <1>1, <1>2, <1>3, <1>4 DEF TableInv, Mapped, Listed, Present, Busy, id
<1>7. CallInv'
  BY <1>1, <1>2, <1>4, Names DEF CallInv, Places, Listening, Calling
<1>8. StateIsHonest'
  BY <1>1, <1>2, <1>4 DEF StateIsHonest
<1>9. OrderInv'
  BY <1>1, <1>2, <1>4
     DEF OrderInv, Alone, Streamed, Reached, Stopped, NoRace, Calling, Asking, Active
<1>10. Unwatched'
  BY <1>1, <1>2, <1>4 DEF Unwatched, Busy, Other, id
<1>11. QED
  BY <1>2, <1>5, <1>6, <1>7, <1>8, <1>9, <1>10, ServiceStep

\* A stream is released: its listener goes first, then its thread is stopped.
LEMMA StreamIsReleased ==
  ASSUME IInv, NEW id \in Ids, ReleaseStream(id)
  PROVE  IInv'
<1> DEFINE t == StreamThreads[id]
<1>1. /\ TableTyped /\ ThreadTyped /\ CallTyped /\ HistoryTyped /\ TableInv /\ CallInv
      /\ StateIsHonest /\ OrderInv /\ Unwatched
  BY DEF IInv, Typed
<1>2. /\ service.at = "idle" /\ command \notin {"callback", "capture"} /\ id \in allocated
      /\ CommandListeners' = [CommandListeners EXCEPT ![id] = NoThread]
      /\ allocated' = allocated \ {id} /\ service' = [at |-> "remove", id |-> id]
      /\ Calls("service", "stop", t, 0)
      /\ UNCHANGED <<queueVars, commandVars, StreamThreads, Streams, interlace, shared,
                       threadVars, gone>>
  BY DEF ReleaseStream, ServiceAt, ServiceGoes, ListenerMutexFree
<1>3. t \in Threads /\ Present(id)
  BY <1>1, <1>2 DEF TableInv, Listed, Present
<1>4. /\ NoRace' => NoRace /\ ~Crosses("service", t)
      /\ HistoryTyped' /\ (excuse' = "none" => excuse = "none")
      /\ excuse' = "none" => \A u \in LooksInto(id) : u \notin allocated /\ loop[u] = "none"
  <2>1. CASE \E u \in LooksInto(id) : u \in allocated \/ loop[u] # "none"
    <3>1. Excused(TRUE, IF Crosses("service", t) THEN "race" ELSE "under")
      BY <2>1 DEF ReleaseStream
    <3>2. QED
      BY <1>1, <1>2, <3>1 DEF Excused, NoRace, HistoryTyped
  <2>2. CASE ~\E u \in LooksInto(id) : u \in allocated \/ loop[u] # "none"
    <3>1. Excused(Crosses("service", t), "race")
      BY <2>2 DEF ReleaseStream
    <3>2. QED
      BY <1>1, <1>2, <2>2, <3>1 DEF Excused, NoRace, HistoryTyped
  <2>3. QED
    BY <2>1, <2>2
<1>5. ~Calling("service") /\ ~Calling("command")
  BY <1>1, <1>2 DEF CallInv, Places
<1>6. CallTyped' /\ call'["service"].at = "stop" /\ call'["service"].of = t
      /\ \A b \in Callers \ {"service"} : call'[b] = call[b]
  <2>1. 0 \in 0..Polls + WaitCount
    BY CameraAssumption
  <2>2. QED
    BY <1>1, <1>2, <1>3, <2>1, Names DEF CallTyped, Calls
<1> HIDE DEF t
<1>7. /\ CommandListeners'[id] = NoThread
      /\ \A i \in Ids \ {id} : CommandListeners'[i] = CommandListeners[i]
      /\ service'.at = "remove" /\ service'.id = id /\ UNCHANGED <<command, State, loop>>
  BY <1>1, <1>2 DEF TableTyped, commandVars, threadVars
<1>8. (TableTyped /\ ServiceTyped /\ ThreadTyped)'
  BY <1>1, <1>2, <1>7, Names DEF TableTyped, ServiceTyped, ThreadTyped
<1>9. TableInv'
  <2>1. Mapped'
    BY <1>1, <1>2 DEF TableInv, Mapped
  <2>2. Listed'
    BY <1>1, <1>2, <1>3, <1>7 DEF TableInv, Listed, Present, Busy
  <2>3. QED
    BY <2>1, <2>2 DEF TableInv
<1>10. CallInv'
  BY <1>1, <1>2, <1>3, <1>5, <1>6, <1>7, Names DEF CallInv, Places, Listening, Calling, t
<1>11. StateIsHonest' /\ OrderInv'
  <2>1. \A u \in Threads : Active(u)' => Active(u)
    BY <1>7 DEF Active
  <2>2. QED
    BY <1>2, <1>3, <1>4, <1>5, <1>7, <2>1, CallOrder, Names
<1>12. Unwatched'
  BY <1>1, <1>2, <1>4, <1>7 DEF Unwatched, Busy, Other
<1>13. UNCHANGED <<requests, signalConsumer, notifying, MsgReceived, command, todo>>
  BY <1>2 DEF queueVars, commandVars
<1>14. Typed'
  BY <1>4, <1>6, <1>8, <1>13 DEF IInv, Typed, QueueTyped, CommandTyped
<1>15. Notified' /\ ~gone'
  BY <1>2, <1>13 DEF IInv, Notified
<1>16. QED
  BY <1>9, <1>10, <1>11, <1>12, <1>14, <1>15 DEF IInv

\* The stream is removed when its thread was stopped.
LEMMA StreamIsRemoved ==
  ASSUME IInv, RemoveStream
  PROVE  IInv'
<1> DEFINE id == service.id
           t == StreamThreads[id]
<1>1. /\ TableTyped /\ ThreadTyped /\ CallTyped /\ HistoryTyped /\ TableInv /\ CallInv
      /\ StateIsHonest /\ OrderInv /\ Unwatched
  BY DEF IInv, Typed
<1>2. /\ service.at = "remove" /\ call["service"] = Resting
      /\ Streams' = [Streams EXCEPT ![t] = @ \ {id}]
      /\ StreamThreads' = IF Streams[t] = {id} THEN [StreamThreads EXCEPT ![id] = NoThread]
                                               ELSE StreamThreads
      /\ service' = [at |-> "idle", id |-> NoThread]
      /\ UNCHANGED <<queueVars, commandVars, CommandListeners, interlace, allocated, shared,
                     threadVars, call, history>>
  BY DEF RemoveStream, ServiceAt, ServiceGoes
<1>3. id \in Ids \ allocated /\ t \in Threads /\ id \in Streams[t] /\ (id \in Threads => t = id)
      /\ (id \notin Threads => id = "ZSL" /\ t = "PREVIEW")
  BY <1>1, <1>2, Names DEF TableInv, Listed, Mapped, Busy, Present
<1>4. ~Calling("service") /\ call["service"].at = "none"
  BY <1>1, <1>2, CallKinds, Names DEF Calling
<1>5. NoRace /\ id \in Threads =>
        /\ State[id] = "EXIT" /\ ~Active(id)
        /\ \A a \in Callers : call[a].of = id => ~Asking(a)
  BY <1>1, <1>2, <1>4, Names DEF OrderInv, Stopped, Asking
<1> HIDE DEF t, id
<1>6. /\ Streams'[t] = Streams[t] \ {id} /\ \A u \in Threads \ {t} : Streams'[u] = Streams[u]
      /\ \A i \in Ids \ {id} : StreamThreads'[i] = StreamThreads[i]
      /\ StreamThreads'[id] = IF Streams[t] = {id} THEN NoThread ELSE StreamThreads[id]
      /\ service'.at = "idle"
      /\ UNCHANGED <<excuse, gone, command, State, loop, allocated, CommandListeners, call, shared>>
  BY <1>1, <1>2, <1>3, Names DEF TableTyped, history, commandVars, threadVars
<1>7. (TableTyped /\ ServiceTyped /\ ThreadTyped)'
  BY <1>1, <1>2, <1>3, <1>6, Names DEF TableTyped, ServiceTyped, ThreadTyped
<1>8. TableInv'
  <2>1. Mapped'
    BY <1>1, <1>3, <1>6, Names DEF TableInv, Mapped, TableTyped
  <2>2. \A i \in allocated : i # id /\ Present(i)'
    BY <1>1, <1>3, <1>6, Names DEF TableInv, Listed, Mapped, Present, TableTyped
  <2>3. ~shared => Streams[t] = {id}
    BY <1>1, <1>3, Names DEF TableInv, Listed, Mapped, TableTyped, t
  <2>4. Listed'
    BY <1>1, <1>2, <1>3, <1>6, <2>2, <2>3, Names DEF TableInv, Listed, Busy, TableTyped, id
  <2>5. QED
    BY <2>1, <2>4 DEF TableInv
<1>9. CallInv'
  BY <1>1, <1>2, <1>4, <1>6, Names DEF CallInv, Places, Listening, Calling
<1>10. StateIsHonest'
  BY <1>1, <1>6 DEF StateIsHonest
<1>11. OrderInv'
  <2>1. NoRace => \A u \in Threads : u \in Streams[u] =>
          u \in Streams'[u] \/ (State[u] = "EXIT" /\ ~Active(u)
                                /\ \A a \in Callers : call[a].of = u => ~Asking(a))
    BY <1>3, <1>5, <1>6, Names
  <2>2. Alone' /\ Stopped'
    BY <1>1, <1>6 DEF OrderInv, Alone, Stopped, NoRace, Calling
  <2>3. Streamed'
    BY <1>1, <1>6, <2>1 DEF OrderInv, Streamed, NoRace, Active
  <2>4. Reached'
    <3>1. \A a \in Callers : Asking(a) => call[a].of \in Threads
      BY <1>1 DEF CallInv, Places, Calling, Asking
    <3>2. QED
      BY <1>1, <1>6, <2>1, <3>1 DEF OrderInv, Reached, NoRace, Asking
  <2>5. QED
    BY <2>2, <2>3, <2>4 DEF OrderInv
<1>12. Unwatched'
  <2>1. excuse = "none" => \A u \in LooksInto(id) : u \notin allocated /\ loop[u] = "none"
    BY <1>1, <1>2 DEF Unwatched, id
  <2>2. LooksInto("PREVIEW") = {"CALLBACK", "RECORD"} /\ LooksInto("RECORD") = {"CAPTURE"}
    BY DEF LooksInto
  <2>3. \A u \in Threads : excuse = "none" /\ loop[u] = "peek" => Other(u) # id
    <3>1. SUFFICES ASSUME NEW u \in Threads, excuse = "none", loop[u] = "peek"
                   PROVE  Other(u) # id
      OBVIOUS
    <3>2. CASE u = "CAPTURE"
      BY <2>1, <2>2, <3>1, <3>2 DEF Other
    <3>3. CASE u \in {"CALLBACK", "RECORD"}
      BY <2>1, <2>2, <3>1, <3>3 DEF Other
    <3>4. CASE u = "PREVIEW"
      BY <1>1, <3>1, <3>4 DEF Unwatched
    <3>5. QED
      BY <3>2, <3>3, <3>4 DEF Threads
  <2>4. QED
    BY <1>1, <1>3, <1>6, <2>1, <2>2, <2>3, Names DEF Unwatched, Busy, Other
<1>13. QED
  BY <1>2, <1>7, <1>8, <1>9, <1>10, <1>11, <1>12, ServiceStep

-----------------------------------------------------------------------------
(* All steps, and what follows.                                              *)

\* Without streams and requests the invariant holds.
LEMMA InitIInv == Init => IInv
<1> SUFFICES ASSUME Init
             PROVE  IInv
  OBVIOUS
<1>1. QueueTyped /\ CommandTyped
  <2>1. << >> \in Seq(Seq(Ids)) /\ << >> \in Seq(Ids) /\ Len(<< >>) = 0
    OBVIOUS
  <2>2. MaxQueued \in Nat
    BY CameraAssumption
  <2>3. /\ requests = << >> /\ todo = << >> /\ command = "wait"
        /\ signalConsumer = TRUE /\ notifying = FALSE /\ MsgReceived = FALSE
    BY DEF Init
  <2>4. Len(requests) <= MaxQueued
    BY <2>1, <2>2, <2>3
  <2>5. QED
    BY <2>1, <2>3, <2>4 DEF QueueTyped, CommandTyped
<1>2. CallTyped
  <2>1. 0 \in 0..Polls + WaitCount
    BY CameraAssumption
  <2>2. QED
    BY <2>1 DEF Init, CallTyped, Resting
<1>3. TableTyped /\ ServiceTyped /\ ThreadTyped /\ HistoryTyped
  BY Names DEF Init, TableTyped, ServiceTyped, ThreadTyped, HistoryTyped
<1>4. Notified /\ TableInv
  BY Names DEF Init, Notified, TableInv, Mapped, Listed, Busy
<1>5. CallInv
  BY Names DEF Init, CallInv, Places, Listening, Calling, Resting
<1>6. StateIsHonest /\ OrderInv
  BY Names DEF Init, StateIsHonest, OrderInv, Alone, Streamed, Reached, Stopped, Calling, Asking,
               Active, Resting
<1>7. Unwatched /\ ~gone
  BY Names DEF Init, Unwatched, Busy
<1>8. QED
  BY <1>1, <1>2, <1>3, <1>4, <1>5, <1>6, <1>7 DEF IInv, Typed

\* Every step of every thread keeps the invariant.
LEMMA NextIInv == IInv /\ [Next]_vars => IInv'
<1> SUFFICES ASSUME IInv, [Next]_vars
             PROVE  IInv'
  OBVIOUS
<1>1. CASE (\E r \in Requests : EnqueueRequest(r)) \/ Wakeup
  BY <1>1, QueueSteps
<1>2. CASE CommandThread
  BY <1>2, QueueSteps, CommandIsCarriedOut, CaptureIsStarted DEF CommandThread
<1>3. CASE StreamCalls
  BY <1>3, StartGoesOn, StartSays, StopIsTested, StopIsAsked, StopIsPolled, StopEnds, StopIsFlushed
     DEF StreamCalls
<1>4. CASE \E f \in Formats : AllocateStream(f)
  BY <1>4, ZslIsAllocated, ThreadIsAllocated
<1>5. CASE RegisterListener \/ RemoveStream \/ \E i \in Ids : ReleaseStream(i)
  BY <1>5, ListenerIsRegistered, StreamIsRemoved, StreamIsReleased
<1>6. CASE \E t \in Threads : StreamThread(t)
  BY <1>6, ThreadReadies, ThreadExits, ThreadLooks, ThreadUses DEF StreamThread
<1>7. CASE CaptureShoots \/ CaptureStopsItself
  BY <1>7, ThreadLooks, ThreadUses, Names
<1>8. CASE UNCHANGED vars
  <2>1. UNCHANGED <<queueVars, commandVars, tableVars, service, threadVars, call, history>>
    BY <1>8 DEF vars
  <2>2. QueueTyped' /\ CommandTyped' /\ Notified' /\ command' = command
    BY <2>1 DEF IInv, Typed, QueueTyped, CommandTyped, Notified, queueVars, commandVars
  <2>3. QED
    BY <2>1, <2>2, QueueStep
<1>9. QED
  BY <1>1, <1>2, <1>3, <1>4, <1>5, <1>6, <1>7, <1>8 DEF Next

\* The invariant holds in every state.
LEMMA Invariance == Spec => []IInv
<1>1. QED
  BY InitIInv, NextIInv, PTL DEF Spec

\* The types: queues within their bounds, no count of polls below zero.
THEOREM TypeCorrect == Spec => []TypeOK
<1>1. IInv => TypeOK
  BY DEF IInv, Typed, QueueTyped, CommandTyped, TableTyped, ServiceTyped, ThreadTyped, CallTyped,
         HistoryTyped, TypeOK
<1>2. QED
  BY Invariance, <1>1, PTL

\* While requests are queued the command thread is at work, notified, or about
\* to be (CameraService's signalConsumer, wakeup and processCommand).
THEOREM RequestsAreNotified == Spec => []NoRequestLost
<1>1. IInv => NoRequestLost
  BY DEF IInv, Typed, QueueTyped, Notified, NoRequestLost
<1>2. QED
  BY Invariance, <1>1, PTL

\* The listeners, the manager's table, the threads' streams and the client's
\* streams agree (allocateStream, registerListener, removeListener, releaseStream).
THEOREM TablesAgree == Spec => []RegistryConsistent
<1>1. IInv => RegistryConsistent
  <2> SUFFICES ASSUME IInv
               PROVE  RegistryConsistent
    OBVIOUS
  <2>1. TableTyped /\ Listed
    BY DEF IInv, Typed, TableInv
  <2>2. \A i \in Ids : CommandListeners[i] # NoThread =>
          StreamThreads[i] = CommandListeners[i] /\ i \in Streams[CommandListeners[i]]
    BY <2>1 DEF Listed, Present
  <2>3. ServiceAt("idle") /\ ~shared => {i \in Ids : StreamThreads[i] # NoThread} = allocated
    BY <2>1 DEF Listed, Busy, ServiceAt, TableTyped
  <2>4. QED
    BY <2>2, <2>3 DEF RegistryConsistent
<1>2. QED
  BY Invariance, <1>1, PTL

\* State tells the truth about the loop, and WAIT_EXIT has somebody waiting, as
\* long as starts and stops do not meet (start, stop and threadLoop).
THEOREM StatesAreHonest == Spec => []StateIsHonest
<1>1. IInv => StateIsHonest
  BY DEF IInv
<1>2. QED
  BY Invariance, <1>1, PTL

\* A stream that is released after those that look into it is used by nobody
\* once it is gone (releaseStream, getLastBuffer, stop and the loops).
THEOREM NothingGoneIsReached == Spec => []NothingGoneIsUsed
<1>1. IInv => NothingGoneIsUsed
  BY DEF IInv, OrderInv, Streamed, NoRace, Active, NothingGoneIsUsed
<1>2. QED
  BY Invariance, <1>1, PTL
=============================================================================
