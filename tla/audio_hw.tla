------------------------------ MODULE audio_hw ------------------------------
(* The audio HAL (src/audio/audio_hw.c): two output streams share one          *)
(* playback card, any number of input streams share one capture card, and the  *)
(* mixer's route follows the devices and the source that are in use.           *)
(* What runs under adev->lock and the stream's lock is one step.  A write and  *)
(* a read keep the stream's lock, without adev->lock, until the PCM returns;   *)
(* opening and closing an input take no lock for the words they share          *)
(* (stream_in_refcount, pcm_config_in), so they are taken step by step.        *)
(* The build is the one without USES_CARD_SPDIF: there is no HDMI output.      *)
EXTENDS Integers, FiniteSets

CONSTANTS
  Outs,        \* the output types: OUTPUT_DEEP_BUF, OUTPUT_LOW_LATENCY
  Ins,         \* bound: the input streams that may be allocated at a time
  OutDevices,  \* the sets of output devices a client routes to
  InDevices,   \* the sets of input devices a client routes to, AUDIO_DEVICE_BIT_IN stripped
  Sources,     \* the audio sources a client sets
  MaxRefused   \* bound: stream_in_refcount when an open is refused

ASSUME AudioAssumption ==
  /\ IsFiniteSet(Outs) /\ IsFiniteSet(Ins) /\ Outs \cap Ins = {} /\ "NULL" \notin Outs \cup Ins
  /\ OutDevices \subseteq SUBSET {"SPEAKER", "WIRED_HEADSET", "WIRED_HEADPHONE", "AUX_DIGITAL"}
  /\ {} \notin OutDevices
  /\ Sources \subseteq {"MIC", "CAMCORDER", "VOICE_RECOGNITION", "VOICE_COMMUNICATION"}
  /\ {} \notin InDevices /\ InDevices # {}
  /\ MaxRefused \in Nat

VARIABLES
  outputs,         \* the slots of adev->outputs that hold a stream
  allocated,       \* the streams whose memory is not freed
  closing,         \* each stream's place in its close function
  standby, device, \* of every stream
  pcm,             \* a stream's handle: "null", "open", or "stale" when it was closed
  call,            \* who holds the stream's lock without adev->lock: "write", "read", "sleep"
  startFailed,     \* the streams whose last pcm_open failed (history)
  input_source_of, \* of every input stream
  refcount,        \* of the cards pcm_out and pcm_in
  out_device, input_source, in_device, cur_route_id,  \* of the audio_device
  mixer,           \* the paths that were last applied
  stream_in_refcount, pcm_config_in,
  overlapped       \* an input was opened or closed while another was (history)

svars == <<allocated, closing, standby, device, pcm, call, startFailed, input_source_of>>
avars == <<out_device, input_source, in_device, cur_route_id, mixer>>
ivars == <<stream_in_refcount, pcm_config_in, overlapped>>
vars == <<outputs, svars, refcount, avars, ivars>>

-----------------------------------------------------------------------------
(* Routes.  A path is the pair of the use and the hardware end it names.       *)
get_output_device_id(d) ==
  CASE d \in {{"SPEAKER", "WIRED_HEADSET"}, {"SPEAKER", "WIRED_HEADPHONE"}} -> "SPEAKER_AND_HEADSET"
    [] d = {"SPEAKER"} -> "SPEAKER"
    [] d = {"WIRED_HEADSET"} -> "HEADSET"
    [] d = {"WIRED_HEADPHONE"} -> "HEADPHONES"
    [] OTHER -> "NONE"

get_input_source_id(s) == IF s = "DEFAULT" THEN "NONE" ELSE s

NoPath == <<"none", "none">>
\* cur_route_id before the first route: no route has the id 0.
NoRouteId == <<"0", "0">>
OutputRoute(s, d) ==
  IF d = "SPEAKER_AND_HEADSET" THEN <<"any", "speaker-and-headphones">>
  ELSE <<IF s = "CAMCORDER" THEN "MIC" ELSE s, IF d = "SPEAKER" THEN "speaker" ELSE "headphones">>
InputRoute(s, d) ==
  IF d = "SPEAKER_AND_HEADSET" THEN <<"any", "main-mic">>
  ELSE IF s = "CAMCORDER" THEN <<"MIC", "second-mic">>
  ELSE <<s, IF d = "HEADSET" THEN "headset-mic" ELSE "main-mic">>

\* What select_devices applies for a source, an output and the input's device.
Route(s, o, ind) ==
  [output |-> IF o = "NONE" THEN NoPath ELSE OutputRoute(IF s = "NONE" THEN "MIC" ELSE s, o),
   input |-> IF s = "NONE" THEN NoPath
             ELSE IF o # "NONE" THEN InputRoute(s, o)
             ELSE InputRoute(s, IF ind = {"WIRED_HEADSET"} THEN "HEADSET" ELSE "SPEAKER")]

\* The same id as the last one is not applied again, whatever in_device became.
select_devices(src, outd, ind) ==
  LET s == get_input_source_id(src)
      o == get_output_device_id(outd)
  IN /\ cur_route_id' = <<s, o>>
     /\ mixer' = IF <<s, o>> = cur_route_id THEN mixer ELSE Route(s, o, ind)

-----------------------------------------------------------------------------
Streams == Outs \cup Ins
Card(x) == IF x \in Outs THEN "pcm_out" ELSE "pcm_in"
Usable(x) == x \in allocated /\ closing[x] = "no"
Unlocked(x) == call[x] = "idle"

Init ==
  /\ outputs = {} /\ allocated = {}
  /\ closing = [x \in Streams |-> "no"]
  /\ standby = [x \in Streams |-> TRUE]
  /\ device = [x \in Streams |-> {}]
  /\ pcm = [x \in Streams |-> "null"]
  /\ call = [x \in Streams |-> "idle"]
  /\ startFailed = {}
  /\ input_source_of = [i \in Ins |-> "DEFAULT"]
  /\ refcount = [c \in {"pcm_out", "pcm_in"} |-> 0]
  /\ out_device = {} /\ input_source = "DEFAULT" /\ in_device = {}
  /\ cur_route_id = NoRouteId /\ mixer = [output |-> NoPath, input |-> NoPath]
  /\ stream_in_refcount = 0 /\ pcm_config_in = "NULL" /\ overlapped = FALSE

\* pcm_open succeeded: the stream holds the card.
CardTaken(x) ==
  /\ pcm' = [pcm EXCEPT ![x] = "open"]
  /\ refcount' = [refcount EXCEPT ![Card(x)] = @ + 1]
  /\ standby' = [standby EXCEPT ![x] = FALSE]
  /\ startFailed' = startFailed \ {x}

\* Mutant: the card is counted before the open is tested.
Mut_CardRefusedCounts(x) ==
  /\ pcm' = [pcm EXCEPT ![x] = "stale"]
  /\ startFailed' = startFailed \cup {x}
  /\ refcount' = [refcount EXCEPT ![Card(x)] = @ + 1]
  /\ UNCHANGED standby

\* pcm_open failed: the handle is closed but not forgotten.
CardRefused(x) ==
  /\ pcm' = [pcm EXCEPT ![x] = "stale"]
  /\ startFailed' = startFailed \cup {x}
  /\ UNCHANGED <<refcount, standby>>

\* The part of the two standby functions that gives the card back.
CardGivenBack(x) ==
  /\ refcount' = [refcount EXCEPT ![Card(x)] = @ - 1]
  /\ pcm' = [pcm EXCEPT ![x] = "null"]
  /\ standby' = [standby EXCEPT ![x] = TRUE]

-----------------------------------------------------------------------------
(* Output streams.                                                             *)
\* Mutant: the stream itself is not left out.
Mut_output_devices(o) == UNION {device[p] : p \in {q \in outputs : ~standby[q]}}
output_devices(o) == UNION {device[p] : p \in {q \in outputs \ {o} : ~standby[q]}}

\* Mutant: a stream in standby gives the card back again.
Mut_do_output_standby(o) ==
  /\ CardGivenBack(o)
  /\ out_device' = output_devices(o)
  /\ UNCHANGED <<cur_route_id, mixer>>

\* With a stream in standby it does nothing.  The route is left alone when no
\* output device is active.
do_output_standby(o) ==
  IF standby[o] THEN UNCHANGED <<refcount, pcm, standby, out_device, cur_route_id, mixer>>
  ELSE /\ CardGivenBack(o)
       /\ out_device' = output_devices(o)
       /\ IF output_devices(o) = {} THEN UNCHANGED <<cur_route_id, mixer>>
          ELSE select_devices(input_source, output_devices(o), in_device)

adev_open_output_stream(o, d) ==
  /\ o \notin outputs /\ o \notin allocated      \* -EBUSY otherwise
  /\ outputs' = outputs \cup {o} /\ allocated' = allocated \cup {o}
  /\ device' = [device EXCEPT ![o] = d]
  /\ standby' = [standby EXCEPT ![o] = TRUE]
  /\ pcm' = [pcm EXCEPT ![o] = "null"]
  /\ startFailed' = startFailed \ {o}
  /\ UNCHANGED <<closing, call, input_source_of, refcount, avars, ivars>>

\* out_write up to the unlock of adev->lock.  A card that is held, or that does
\* not open, ends the write, and its data is dropped.
out_write(o) ==
  /\ Usable(o) /\ Unlocked(o)
  /\ \/ /\ ~standby[o]
        /\ call' = [call EXCEPT ![o] = "write"]
        /\ UNCHANGED <<pcm, refcount, standby, startFailed, avars>>
     \/ /\ standby[o] /\ refcount["pcm_out"] = 0
        /\ \/ /\ CardTaken(o)
              /\ call' = [call EXCEPT ![o] = "write"]
              /\ out_device' = out_device \cup device[o]
              /\ select_devices(input_source, out_device \cup device[o], in_device)
              /\ UNCHANGED <<input_source, in_device>>
           \/ CardRefused(o) /\ UNCHANGED <<call, avars>>
  /\ UNCHANGED <<outputs, allocated, closing, device, input_source_of, ivars>>

\* pcm_write returns and out->lock is released.
out_write_returns(o) ==
  /\ call[o] = "write"
  /\ call' = [call EXCEPT ![o] = "idle"]
  /\ UNCHANGED <<outputs, allocated, closing, standby, device, pcm, startFailed,
                 input_source_of, refcount, avars, ivars>>

out_standby(o) ==
  /\ Usable(o) /\ Unlocked(o) /\ ~standby[o]
  /\ do_output_standby(o)
  /\ UNCHANGED <<outputs, allocated, closing, device, call, startFailed, input_source_of,
                 input_source, in_device, ivars>>

\* Moving to or from the digital output puts the stream into standby.
MovesDigital(val) == "AUX_DIGITAL" \in val \cup out_device

out_set_parameters(o, val) ==
  /\ Usable(o) /\ Unlocked(o) /\ device[o] # val
  /\ device' = [device EXCEPT ![o] = val]
  /\ IF MovesDigital(val) THEN do_output_standby(o)
     ELSE /\ IF standby[o] THEN UNCHANGED <<out_device, cur_route_id, mixer>>
             ELSE /\ out_device' = output_devices(o) \cup val
                  /\ select_devices(input_source, output_devices(o) \cup val, in_device)
          /\ UNCHANGED <<refcount, pcm, standby>>
  /\ UNCHANGED <<outputs, allocated, closing, call, startFailed, input_source_of,
                 input_source, in_device, ivars>>

\* adev_close_output_stream: out_standby, the slot under adev->lock, free.
CloseOutputStandby(o) ==
  /\ Usable(o) /\ Unlocked(o) /\ o \in Outs
  /\ closing' = [closing EXCEPT ![o] = "slot"]
  /\ do_output_standby(o)
  /\ UNCHANGED <<outputs, allocated, device, call, startFailed, input_source_of,
                 input_source, in_device, ivars>>

CloseOutputSlot(o) ==
  /\ closing[o] = "slot"
  /\ closing' = [closing EXCEPT ![o] = "free"]
  /\ outputs' = outputs \ {o}
  /\ UNCHANGED <<allocated, standby, device, pcm, call, startFailed, input_source_of,
                 refcount, avars, ivars>>

CloseOutputFree(o) ==
  /\ closing[o] = "free" /\ o \in Outs
  /\ closing' = [closing EXCEPT ![o] = "no"]
  /\ allocated' = allocated \ {o}
  /\ device' = [device EXCEPT ![o] = {}] /\ pcm' = [pcm EXCEPT ![o] = "null"]
  /\ startFailed' = startFailed \ {o}
  /\ UNCHANGED <<outputs, standby, call, input_source_of, refcount, avars, ivars>>

-----------------------------------------------------------------------------
(* Input streams.                                                              *)
InputBusy(i) == closing[i] \notin {"no", "leaked"} \/ call[i] = "open"
\* Another thread is inside adev_open_input_stream or adev_close_input_stream.
Overlaps(i) == \E j \in Ins \ {i} : InputBusy(j)

\* stream_in_refcount++ and --, without a lock: while another thread is in
\* either function one of two updates may be lost.
Updated(i, new) == {new} \cup (IF Overlaps(i) THEN {stream_in_refcount} ELSE {})

\* The first line of adev_open_input_stream counts the stream.
OpenInputCounts(i) ==
  /\ i \notin allocated /\ call[i] = "idle" /\ closing[i] = "no"
  /\ call' = [call EXCEPT ![i] = "open"]
  /\ stream_in_refcount' \in Updated(i, stream_in_refcount + 1)
  /\ overlapped' = (overlapped \/ Overlaps(i))
  /\ UNCHANGED <<outputs, allocated, closing, standby, device, pcm, startFailed,
                 input_source_of, refcount, avars, pcm_config_in>>

\* The stream is made, and its configuration is the one the HAL computes with.
OpenInputReturns(i, d) ==
  /\ call[i] = "open"
  /\ call' = [call EXCEPT ![i] = "idle"]
  /\ allocated' = allocated \cup {i}
  /\ device' = [device EXCEPT ![i] = d]
  /\ input_source_of' = [input_source_of EXCEPT ![i] = "DEFAULT"]
  /\ standby' = [standby EXCEPT ![i] = TRUE] /\ pcm' = [pcm EXCEPT ![i] = "null"]
  /\ pcm_config_in' = i
  /\ UNCHANGED <<outputs, closing, startFailed, refcount, avars,
                 stream_in_refcount, overlapped>>

\* A channel mask that is refused, or memory that runs out: the count stays.
OpenInputRefused(i) ==
  /\ call[i] = "open" /\ stream_in_refcount <= MaxRefused
  /\ call' = [call EXCEPT ![i] = "idle"]
  /\ UNCHANGED <<outputs, allocated, closing, standby, device, pcm, startFailed,
                 input_source_of, refcount, avars, ivars>>

do_input_standby(i) ==
  IF standby[i] THEN UNCHANGED <<refcount, pcm, standby, avars>>
  ELSE /\ CardGivenBack(i)
       /\ input_source' = "DEFAULT" /\ in_device' = {}
       /\ select_devices("DEFAULT", out_device, {})
       /\ UNCHANGED out_device

in_standby(i) ==
  /\ Usable(i) /\ Unlocked(i) /\ ~standby[i]
  /\ do_input_standby(i)
  /\ UNCHANGED <<outputs, allocated, closing, device, call, startFailed, input_source_of, ivars>>

\* in_read up to the unlock of adev->lock; a read that cannot start sleeps for
\* the time of the buffer with in->lock held.
in_read(i) ==
  /\ Usable(i) /\ Unlocked(i)
  /\ \/ /\ ~standby[i]
        /\ call' = [call EXCEPT ![i] = "read"]
        /\ UNCHANGED <<pcm, refcount, standby, startFailed, avars>>
     \/ /\ standby[i] /\ refcount["pcm_in"] = 0
        /\ \/ /\ CardTaken(i)
              /\ call' = [call EXCEPT ![i] = "read"]
              /\ input_source' = input_source_of[i] /\ in_device' = device[i]
              /\ select_devices(input_source_of[i], out_device, device[i])
              /\ UNCHANGED out_device
           \/ /\ CardRefused(i)
              /\ call' = [call EXCEPT ![i] = "sleep"]
              /\ UNCHANGED avars
     \/ /\ standby[i] /\ refcount["pcm_in"] # 0
        /\ call' = [call EXCEPT ![i] = "sleep"]
        /\ UNCHANGED <<pcm, refcount, standby, startFailed, avars>>
  /\ UNCHANGED <<outputs, allocated, closing, device, input_source_of, ivars>>

\* pcm_read, or the resampler with pcm_config_in, returns; in->lock is released.
in_read_returns(i) ==
  /\ call[i] \in {"read", "sleep"}
  /\ call' = [call EXCEPT ![i] = "idle"]
  /\ UNCHANGED <<outputs, allocated, closing, standby, device, pcm, startFailed,
                 input_source_of, refcount, avars, ivars>>

\* The new source or device is applied at once when the stream captures.
in_set_parameters(i, src, d) ==
  /\ Usable(i) /\ Unlocked(i) /\ <<src, d>> # <<input_source_of[i], device[i]>>
  /\ input_source_of' = [input_source_of EXCEPT ![i] = src]
  /\ device' = [device EXCEPT ![i] = d]
  /\ IF standby[i] THEN UNCHANGED avars
     ELSE /\ input_source' = src /\ in_device' = d
          /\ select_devices(src, out_device, d)
          /\ UNCHANGED out_device
  /\ UNCHANGED <<outputs, allocated, closing, standby, pcm, call, startFailed, refcount, ivars>>

\* Mutant: every close ends its stream, as without stream_in_refcount.
Mut_CloseInputEndsAlways(i) ==
  /\ Usable(i) /\ Unlocked(i) /\ i \in Ins
  /\ closing' = [closing EXCEPT ![i] = "standby"]
  /\ overlapped' = (overlapped \/ Overlaps(i))
  /\ UNCHANGED <<outputs, allocated, standby, device, pcm, call, startFailed,
                 input_source_of, refcount, avars, stream_in_refcount, pcm_config_in>>

\* adev_close_input_stream: only the last reference ends the stream; the others
\* are dropped, and their memory and the card they may hold stay.
CloseInputTests(i) ==
  /\ Usable(i) /\ Unlocked(i) /\ i \in Ins
  /\ closing' = [closing EXCEPT ![i] = IF stream_in_refcount = 1 THEN "standby" ELSE "uncount"]
  /\ overlapped' = (overlapped \/ Overlaps(i))
  /\ UNCHANGED <<outputs, allocated, standby, device, pcm, call, startFailed,
                 input_source_of, refcount, avars, stream_in_refcount, pcm_config_in>>

CloseInputStandby(i) ==
  /\ closing[i] = "standby"
  /\ closing' = [closing EXCEPT ![i] = "free"]
  /\ do_input_standby(i)
  /\ UNCHANGED <<outputs, allocated, device, call, startFailed, input_source_of, ivars>>

CloseInputFree(i) ==
  /\ closing[i] = "free" /\ i \in Ins
  /\ closing' = [closing EXCEPT ![i] = "config"]
  /\ allocated' = allocated \ {i}
  /\ device' = [device EXCEPT ![i] = {}] /\ pcm' = [pcm EXCEPT ![i] = "null"]
  /\ input_source_of' = [input_source_of EXCEPT ![i] = "DEFAULT"]
  /\ startFailed' = startFailed \ {i}
  /\ UNCHANGED <<outputs, standby, call, refcount, avars, ivars>>

CloseInputClearsConfig(i) ==
  /\ closing[i] = "config"
  /\ closing' = [closing EXCEPT ![i] = "uncount"]
  /\ pcm_config_in' = "NULL"
  /\ UNCHANGED <<outputs, allocated, standby, device, pcm, call, startFailed,
                 input_source_of, refcount, avars, stream_in_refcount, overlapped>>

\* A stream that was not freed is never used again.
CloseInputUncounts(i) ==
  /\ closing[i] = "uncount"
  /\ closing' = [closing EXCEPT ![i] = IF i \in allocated THEN "leaked" ELSE "no"]
  /\ stream_in_refcount' \in Updated(i, stream_in_refcount - 1)
  /\ UNCHANGED <<outputs, allocated, standby, device, pcm, call, startFailed,
                 input_source_of, refcount, avars, pcm_config_in, overlapped>>

-----------------------------------------------------------------------------
OutputStep(o) ==
  \/ \E d \in OutDevices : adev_open_output_stream(o, d) \/ out_set_parameters(o, d)
  \/ out_write(o) \/ out_write_returns(o) \/ out_standby(o)
  \/ CloseOutputStandby(o) \/ CloseOutputSlot(o) \/ CloseOutputFree(o)

InputStep(i) ==
  \/ OpenInputCounts(i) \/ OpenInputRefused(i)
  \/ \E d \in InDevices : OpenInputReturns(i, d)
  \/ in_read(i) \/ in_read_returns(i) \/ in_standby(i)
  \/ \E src \in Sources \cup {input_source_of[i]}, d \in InDevices : in_set_parameters(i, src, d)
  \/ CloseInputTests(i) \/ CloseInputStandby(i) \/ CloseInputFree(i)
  \/ CloseInputClearsConfig(i) \/ CloseInputUncounts(i)

Next == (\E o \in Outs : OutputStep(o)) \/ (\E i \in Ins : InputStep(i))
Spec == Init /\ [][Next]_vars

-----------------------------------------------------------------------------
TypeOK ==
  /\ outputs \subseteq Outs /\ allocated \subseteq Streams /\ startFailed \subseteq allocated
  /\ closing \in [Streams -> {"no", "slot", "standby", "free", "config", "uncount", "leaked"}]
  /\ standby \in [Streams -> BOOLEAN]
  /\ device \in [Streams -> OutDevices \cup InDevices \cup {{}}]
  /\ pcm \in [Streams -> {"null", "open", "stale"}]
  /\ call \in [Streams -> {"idle", "open", "write", "read", "sleep"}]
  /\ input_source_of \in [Ins -> Sources \cup {"DEFAULT"}]
  /\ refcount \in [{"pcm_out", "pcm_in"} -> Nat]
  /\ out_device \subseteq UNION OutDevices /\ in_device \in InDevices \cup {{}}
  /\ input_source \in Sources \cup {"DEFAULT"}
  /\ stream_in_refcount \in Int /\ pcm_config_in \in Ins \cup {"NULL"}
  /\ overlapped \in BOOLEAN

\* A card's refcount is the number of PCM handles that are open on it, at most
\* one, and the handle belongs to a stream that is not in standby and was not
\* freed: no order of starts, failed starts, standbys and closes leaves a card
\* held by nobody (which would silence every later stream) or opens it twice.
CardHeldOnce ==
  \A c \in DOMAIN refcount :
    LET holders == {x \in Streams : Card(x) = c /\ pcm[x] = "open"}
    IN /\ refcount[c] = Cardinality(holders) /\ refcount[c] <= 1
       /\ holders = {x \in Streams : Card(x) = c /\ ~standby[x]}
       /\ holders \subseteq allocated

\* The audio_device's devices and source are those of the streams that are not
\* in standby, whatever order the others were re-routed, stopped or closed in,
\* and the mixer has the paths for them: both paths when an output has a route,
\* and with none still an input path of the source that is captured, or none
\* when nothing is captured.  (With no output route a change of the input device
\* alone is not applied: select_devices compares only source and output.)
RouteFollowsActive ==
  LET playing == {o \in outputs : ~standby[o]}
      capturing == {i \in Ins : ~standby[i]}
      s == get_input_source_id(input_source)
      o == get_output_device_id(out_device)
  IN /\ out_device = UNION {device[p] : p \in playing}
     /\ capturing = {} => (input_source = "DEFAULT" /\ in_device = {})
     /\ \A i \in capturing : input_source = input_source_of[i] /\ in_device = device[i]
     /\ o # "NONE" => mixer = Route(s, o, in_device)
     /\ s = "NONE" => mixer.input = NoPath
     /\ s # "NONE" => \E d \in {"SPEAKER", "HEADSET", "SPEAKER_AND_HEADSET"} :
                        mixer.input = InputRoute(s, d)

\* What is freed or closed is not used.  A stream in adev->outputs, which
\* output_devices reads without its lock, is allocated; a write or a read has an
\* open handle; a stale handle, which out_get_presentation_position would use,
\* is left only by a pcm_open that failed.  While inputs are opened and closed
\* one at a time, pcm_config_in is the configuration of an allocated stream
\* during every read (the resampler dereferences it), and it points to freed
\* memory only inside adev_close_input_stream.
NothingFreedIsUsed ==
  /\ outputs \subseteq allocated
  /\ \A x \in Streams :
       /\ call[x] \in {"write", "read"} => (x \in allocated /\ pcm[x] = "open")
       /\ (x \in allocated /\ pcm[x] = "stale") => (x \in startFailed /\ standby[x])
       /\ (call[x] = "read" /\ ~overlapped) => pcm_config_in \in allocated
  /\ ~overlapped => (pcm_config_in \in allocated \cup {"NULL"}
                     \/ closing[pcm_config_in] = "config")
=============================================================================
