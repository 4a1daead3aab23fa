--------------------------- MODULE audio_hw_proofs ---------------------------
(* The audio HAL for any number of streams, devices and sources: a card has   *)
(* one holder, the route is that of the streams that play and capture, and    *)
(* nothing that was freed is used.                                            *)
EXTENDS audio_hw, FiniteSetTheorems, TLAPS

\* TypeOK without the audio_device, whose words follow from the streams'.
Typed ==
  /\ outputs \subseteq Outs /\ allocated \subseteq Streams /\ startFailed \subseteq allocated
  /\ closing \in [Streams -> {"no", "slot", "standby", "free", "config", "uncount", "leaked"}]
  /\ standby \in [Streams -> BOOLEAN]
  /\ device \in [Streams -> OutDevices \cup InDevices \cup {{}}]
  /\ pcm \in [Streams -> {"null", "open", "stale"}]
  /\ call \in [Streams -> {"idle", "open", "write", "read", "sleep"}]
  /\ input_source_of \in [Ins -> Sources \cup {"DEFAULT"}]
  /\ refcount \in [{"pcm_out", "pcm_in"} -> Int]
  /\ stream_in_refcount \in Int /\ pcm_config_in \in Ins \cup {"NULL"}
  /\ overlapped \in BOOLEAN

\* An output stream has output devices, an input stream input devices.
DeviceKinds ==
  /\ \A o \in Outs : device[o] \in OutDevices \cup {{}}
  /\ \A i \in Ins : device[i] \in InDevices \cup {{}}

\* The card's refcount is one exactly when a stream is out of standby, which is
\* when its handle is open.
Cards ==
  /\ \A x \in Streams : pcm[x] = "open" <=> ~standby[x]
  /\ \A x \in Streams : ~standby[x] => refcount[Card(x)] = 1
  /\ \A x, y \in Streams : Card(x) = Card(y) /\ ~standby[x] /\ ~standby[y] => x = y
  /\ \A c \in {"pcm_out", "pcm_in"} :
       refcount[c] # 0 => \E x \in Streams : Card(x) = c /\ ~standby[x]

\* Where a stream is in its life: what each place of its close function leaves
\* of it, and who may be inside a call.
OutLife ==
  \A o \in Outs :
    /\ closing[o] \in {"no", "slot", "free"} /\ call[o] \in {"idle", "write"}
    /\ o \in outputs <=> (o \in allocated /\ closing[o] # "free")
    /\ closing[o] # "no" => o \in allocated
InLife ==
  \A i \in Ins :
    /\ closing[i] # "slot" /\ call[i] # "write"
    /\ closing[i] \in {"standby", "free", "leaked"} => i \in allocated
    /\ closing[i] = "config" => i \notin allocated
    /\ call[i] = "open" => i \notin allocated
Life ==
  \A x \in Streams :
    /\ ~standby[x] => x \in allocated /\ closing[x] \notin {"slot", "free"}
    /\ closing[x] # "no" => call[x] = "idle"
    /\ call[x] \in {"write", "read"} => ~standby[x]
    /\ pcm[x] = "stale" => x \in startFailed /\ standby[x]

-----------------------------------------------------------------------------
(* Inputs that are opened and closed one at a time.                            *)
Live(i) == i \in allocated /\ closing[i] = "no"
Ending(i) == closing[i] \in {"standby", "free", "config"}

\* The inputs that stream_in_refcount counts, but for the opens refused.
Counted == {i \in Ins : call[i] = "open" \/ Live(i) \/ Ending(i) \/ closing[i] = "uncount"}

Alone == ~overlapped => \A i, j \in Ins : InputBusy(i) /\ InputBusy(j) => i = j
CountsAll == ~overlapped => stream_in_refcount >= Cardinality(Counted)
\* A stream is ended only when no other one is left to read.
EndsLast == ~overlapped => \A i, j \in Ins : Ending(i) /\ Live(j) => i = j
ConfigLives ==
  ~overlapped => /\ \A i \in Ins : Live(i) => pcm_config_in \in allocated
                 /\ \/ pcm_config_in \in allocated \cup {"NULL"}
                    \/ closing[pcm_config_in] = "config"

-----------------------------------------------------------------------------
(* The route.                                                                  *)
OutDeviceIsPlaying ==
  /\ \A o \in Outs : ~standby[o] => out_device = device[o]
  /\ (\A o \in Outs : standby[o]) => out_device = {}
InputIsCapturing ==
  /\ \A i \in Ins : ~standby[i] => input_source = input_source_of[i] /\ in_device = device[i]
  /\ (\A i \in Ins : standby[i]) => input_source = "DEFAULT" /\ in_device = {}
\* The last route was for the source of now, and for the output of now when
\* there is one: a standby of the only output leaves the route alone.
RouteId ==
  LET s == get_input_source_id(input_source)
      o == get_output_device_id(out_device)
  IN /\ o # "NONE" => cur_route_id = <<s, o>>
     /\ \/ cur_route_id = NoRouteId /\ s = "NONE"
        \/ \E p \in {"SPEAKER", "HEADSET", "HEADPHONES", "SPEAKER_AND_HEADSET", "NONE"} :
             cur_route_id = <<s, p>>
MixerIsRoute ==
  IF cur_route_id = NoRouteId THEN mixer = [output |-> NoPath, input |-> NoPath]
  ELSE mixer \in {Route(cur_route_id[1], cur_route_id[2], d) : d \in {{}, {"WIRED_HEADSET"}}}

StreamInv == Typed /\ DeviceKinds /\ Cards /\ OutLife /\ InLife /\ Life
InputInv == Alone /\ CountsAll /\ EndsLast /\ ConfigLives
RouteInv == OutDeviceIsPlaying /\ InputIsCapturing /\ RouteId /\ MixerIsRoute
IInv == StreamInv /\ InputInv /\ RouteInv

-----------------------------------------------------------------------------
USE AudioAssumption DEF Streams, vars, svars, avars, ivars

\* No stream, no route: what the constructor leaves satisfies the invariant.
LEMMA InitIInv == Init => IInv
<1> SUFFICES ASSUME Init PROVE IInv
  OBVIOUS
<1>1. StreamInv
  <2>1. Typed /\ DeviceKinds
    <3>1. refcount \in [{"pcm_out", "pcm_in"} -> Int]
      BY DEF Init
    <3>2. /\ closing \in [Streams -> {"no", "slot", "standby", "free", "config", "uncount",
                                     "leaked"}]
          /\ pcm \in [Streams -> {"null", "open", "stale"}]
      BY DEF Init
    <3>3. standby \in [Streams -> BOOLEAN]
      BY DEF Init
    <3>4. device \in [Streams -> OutDevices \cup InDevices \cup {{}}]
      BY DEF Init
    <3>5. /\ call \in [Streams -> {"idle", "open", "write", "read", "sleep"}]
          /\ input_source_of \in [Ins -> Sources \cup {"DEFAULT"}]
      BY DEF Init
    <3>6. QED
      BY <3>1, <3>2, <3>3, <3>4, <3>5 DEF Init, Typed, DeviceKinds
  <2>2. Cards
    BY DEF Init, Cards
  <2>3. OutLife /\ InLife /\ Life
    BY DEF Init, OutLife, InLife, Life
  <2>4. QED
    BY <2>1, <2>2, <2>3 DEF StreamInv
<1>2. Counted = {}
  BY DEF Init, Counted, Live, Ending
<1>3. InputInv
  BY <1>2, FS_EmptySet
     DEF Init, InputInv, Alone, CountsAll, EndsLast, ConfigLives, InputBusy, Live, Ending
<1>4. RouteInv
  BY DEF Init, RouteInv, OutDeviceIsPlaying, InputIsCapturing, RouteId, MixerIsRoute,
         get_output_device_id, get_input_source_id
<1>5. QED
  BY <1>1, <1>3, <1>4 DEF IInv

-----------------------------------------------------------------------------
(* What the operators that the actions share do to the invariant's parts.      *)

\* pcm_open and pcm_close keep the types of the handle and of the refcount.
LEMMA HandleTyped ==
  ASSUME Typed, NEW x \in Streams, CardTaken(x) \/ CardRefused(x) \/ CardGivenBack(x)
  PROVE  /\ pcm' \in [Streams -> {"null", "open", "stale"}]
         /\ standby' \in [Streams -> BOOLEAN]
         /\ refcount' \in [{"pcm_out", "pcm_in"} -> Int]
<1>1. CASE CardTaken(x)
  <2>1. refcount' \in [{"pcm_out", "pcm_in"} -> Int]
    BY <1>1 DEF CardTaken, Typed, Card
  <2>2. QED
    BY <2>1, <1>1 DEF CardTaken, Typed
<1>2. CASE CardRefused(x)
  BY <1>2 DEF CardRefused, Typed
<1>3. CASE CardGivenBack(x)
  <2>1. refcount' \in [{"pcm_out", "pcm_in"} -> Int]
    BY <1>3 DEF CardGivenBack, Typed, Card
  <2>2. QED
    BY <2>1, <1>3 DEF CardGivenBack, Typed
<1>4. QED
  BY <1>1, <1>2, <1>3

\* The playback card has one holder: the others that output_devices looks at
\* are in standby.
LEMMA NoOtherPlays ==
  ASSUME StreamInv, NEW o \in Outs, ~standby[o]
  PROVE  output_devices(o) = {}
<1>1. {q \in outputs \ {o} : ~standby[q]} = {}
  BY DEF StreamInv, Typed, Cards, Card
<1>2. QED
  BY <1>1 DEF output_devices

\* A playback card that nobody holds: no output device is in use.
LEMMA NobodyPlays ==
  ASSUME StreamInv, RouteInv, refcount["pcm_out"] = 0
  PROVE  (\A o \in Outs : standby[o]) /\ out_device = {}
<1>1. \A o \in Outs : standby[o]
  BY DEF StreamInv, Typed, Cards, Card
<1>2. QED
  BY <1>1 DEF RouteInv, OutDeviceIsPlaying

\* get_output_device_id gives one of five ids, and no device has none.
LEMMA DeviceIds ==
  /\ \A d : get_output_device_id(d) \in
              {"SPEAKER", "HEADSET", "HEADPHONES", "SPEAKER_AND_HEADSET", "NONE"}
  /\ get_output_device_id({}) = "NONE"
BY DEF get_output_device_id

\* select_devices leaves the mixer with the route it was asked for, applied now
\* or, with the same id, before.
LEMMA RouteSelected ==
  ASSUME MixerIsRoute, NEW src, NEW outd, NEW ind, select_devices(src, outd, ind),
         input_source' = src, out_device' = outd
  PROVE  RouteId' /\ MixerIsRoute'
<1> DEFINE s == get_input_source_id(src)
           o == get_output_device_id(outd)
<1>1. cur_route_id' = <<s, o>> /\ <<s, o>> # NoRouteId
  BY DeviceIds DEF select_devices, NoRouteId
<1>2. mixer' \in {Route(s, o, d) : d \in {{}, {"WIRED_HEADSET"}}}
  <2>1. CASE <<s, o>> = cur_route_id
    BY <2>1, <1>1 DEF select_devices, MixerIsRoute
  <2>2. CASE <<s, o>> # cur_route_id
    <3>1. mixer' = Route(s, o, ind)
      BY <2>2 DEF select_devices
    <3>2. ind # {"WIRED_HEADSET"} => Route(s, o, ind) = Route(s, o, {})
      BY DEF Route
    <3>3. QED
      BY <3>1, <3>2
  <2>3. QED
    BY <2>1, <2>2
<1>3. RouteId'
  BY <1>1, DeviceIds DEF RouteId
<1>4. MixerIsRoute'
  BY <1>1, <1>2 DEF MixerIsRoute
<1>5. QED
  BY <1>3, <1>4

\* The standby of the only output leaves the route alone.
LEMMA RouteKept ==
  ASSUME RouteId, MixerIsRoute, out_device' \in {out_device, {}},
         UNCHANGED <<input_source, cur_route_id, mixer>>
  PROVE  RouteId' /\ MixerIsRoute'
BY DeviceIds DEF RouteId, MixerIsRoute

\* A step that leaves the audio_device and the streams out of standby alone.
LEMMA RouteUntouched ==
  ASSUME RouteInv, UNCHANGED <<avars, standby>>,
         \A x \in Streams : ~standby[x] => device'[x] = device[x],
         \A i \in Ins : ~standby[i] => input_source_of'[i] = input_source_of[i]
  PROVE  RouteInv'
BY DEF RouteInv, OutDeviceIsPlaying, InputIsCapturing, RouteId, MixerIsRoute

\* A step that leaves the words alone that opening and closing inputs share,
\* and every input's place in it.
LEMMA InputsUntouched ==
  ASSUME StreamInv, InputInv, UNCHANGED ivars,
         \A i \in Ins : closing'[i] = closing[i] /\ (i \in allocated' <=> i \in allocated),
         \A i \in Ins : call'[i] = "open" <=> call[i] = "open"
  PROVE  InputInv'
<1>1. \A i \in Ins : /\ InputBusy(i)' <=> InputBusy(i)
                     /\ Live(i)' <=> Live(i)
                     /\ Ending(i)' <=> Ending(i)
  BY DEF InputBusy, Live, Ending
<1>2. Counted' = Counted
  BY <1>1 DEF Counted
<1>3. (Alone /\ CountsAll /\ EndsLast)'
  BY <1>1, <1>2 DEF InputInv, Alone, CountsAll, EndsLast
<1>4. ConfigLives'
  BY <1>1 DEF InputInv, ConfigLives, StreamInv, Typed
<1>5. QED
  BY <1>3, <1>4 DEF InputInv

\* The inputs that stream_in_refcount counts can be counted.
LEMMA CountedFinite == IsFiniteSet(Counted) /\ Cardinality(Counted) \in Nat
<1>1. Counted \in SUBSET Ins
  BY DEF Counted
<1>2. IsFiniteSet(Counted)
  BY <1>1, FS_Subset
<1>3. QED
  BY <1>2, FS_CardinalityType

-----------------------------------------------------------------------------
(* Output streams.                                                            *)

\* A stream that is opened is in standby and holds nothing.
LEMMA OutputOpens ==
  ASSUME IInv, NEW o \in Outs, NEW d \in OutDevices,
         adev_open_output_stream(o, d)
  PROVE  IInv'
<1>1. StreamInv /\ InputInv /\ RouteInv
  BY DEF IInv
<1>2. StreamInv'
  BY <1>1
     DEF adev_open_output_stream, StreamInv, Typed, DeviceKinds, Cards, OutLife, InLife,
         Life, Card
<1>3. InputInv'
  BY <1>1, InputsUntouched
     DEF adev_open_output_stream, StreamInv, Typed, OutLife, InLife, Life
<1>4. RouteInv'
  BY <1>1
     DEF adev_open_output_stream, RouteInv, OutDeviceIsPlaying, InputIsCapturing, RouteId,
         MixerIsRoute, StreamInv, Typed, OutLife, Life
<1>5. QED
  BY <1>2, <1>3, <1>4 DEF IInv

\* A write that starts the stream takes the card only when nobody has it.
LEMMA OutputWrites ==
  ASSUME IInv, NEW o \in Outs,
         out_write(o)
  PROVE  IInv'
<1>1. StreamInv /\ InputInv /\ RouteInv
  BY DEF IInv
<1>2. StreamInv'
  <2>1. (Typed /\ DeviceKinds)'
    <3>1. startFailed' \subseteq allocated
      BY <1>1 DEF out_write, Usable, Unlocked, CardTaken, CardRefused, StreamInv, Typed
    <3>2. QED
      BY <1>1, HandleTyped, <3>1
         DEF out_write, Usable, Unlocked, StreamInv, Typed, DeviceKinds
  <2>2. Cards'
    BY <1>1
       DEF out_write, Usable, Unlocked, CardTaken, CardRefused, CardGivenBack, StreamInv,
           Typed, Cards, Card, OutLife, InLife, Life
  <2>3. (OutLife /\ InLife /\ Life)'
    BY <1>1
       DEF out_write, Usable, Unlocked, CardTaken, CardRefused, CardGivenBack, StreamInv,
           Typed, Cards, OutLife, InLife, Life
  <2>4. QED
    BY <2>1, <2>2, <2>3 DEF StreamInv
<1>3. InputInv'
  BY <1>1, InputsUntouched
     DEF out_write, Usable, Unlocked, StreamInv, Typed, OutLife, InLife, Life
<1>4. RouteInv'
  <2>1. CASE UNCHANGED <<standby, avars>>
    BY <1>1, <2>1, RouteUntouched DEF out_write, StreamInv, Typed
  <2>2. CASE CardTaken(o) /\ refcount["pcm_out"] = 0
          /\ out_device' = out_device \cup device[o]
          /\ select_devices(input_source, out_device \cup device[o], in_device)
          /\ UNCHANGED <<input_source, in_device, device, input_source_of>>
    <3>1. (\A p \in Outs : standby[p]) /\ out_device' = device[o]
      BY <1>1, <2>2, NobodyPlays
    <3>2. (RouteId /\ MixerIsRoute)'
      BY <1>1, <2>2, RouteSelected DEF RouteInv
    <3>3. (OutDeviceIsPlaying /\ InputIsCapturing)'
      BY <1>1, <2>2, <3>1
         DEF CardTaken, RouteInv, OutDeviceIsPlaying, InputIsCapturing, StreamInv, Typed
    <3>4. QED
      BY <3>2, <3>3 DEF RouteInv
  <2>3. QED
    BY <2>1, <2>2 DEF out_write, CardRefused
<1>5. QED
  BY <1>2, <1>3, <1>4 DEF IInv

\* The end of a write changes nothing but the lock.
LEMMA OutputWriteReturns ==
  ASSUME IInv, NEW o \in Outs,
         out_write_returns(o)
  PROVE  IInv'
<1>1. StreamInv /\ InputInv /\ RouteInv
  BY DEF IInv
<1>2. StreamInv'
  BY <1>1
     DEF out_write_returns, StreamInv, Typed, DeviceKinds, Cards, OutLife, InLife, Life,
         Card
<1>3. InputInv'
  BY <1>1, InputsUntouched DEF out_write_returns, StreamInv, Typed, OutLife, InLife, Life
<1>4. RouteInv'
  BY <1>1, RouteUntouched DEF out_write_returns, StreamInv, Typed, Life
<1>5. QED
  BY <1>2, <1>3, <1>4 DEF IInv

\* A standby gives the card back, and with it the devices.
LEMMA OutputStandby ==
  ASSUME IInv, NEW o \in Outs,
         out_standby(o)
  PROVE  IInv'
<1>1. StreamInv /\ InputInv /\ RouteInv
  BY DEF IInv
<1>2. StreamInv'
  <2>1. (Typed /\ DeviceKinds)'
    BY <1>1, HandleTyped
       DEF out_standby, do_output_standby, Usable, Unlocked, StreamInv, Typed, DeviceKinds
  <2>2. Cards'
    BY <1>1
       DEF out_standby, do_output_standby, Usable, Unlocked, CardTaken, CardRefused,
           CardGivenBack, StreamInv, Typed, Cards, Card, OutLife, InLife, Life
  <2>3. (OutLife /\ InLife /\ Life)'
    BY <1>1
       DEF out_standby, do_output_standby, Usable, Unlocked, CardTaken, CardRefused,
           CardGivenBack, StreamInv, Typed, Cards, OutLife, InLife, Life
  <2>4. QED
    BY <2>1, <2>2, <2>3 DEF StreamInv
<1>3. InputInv'
  BY <1>1, InputsUntouched DEF out_standby, StreamInv, Typed, OutLife, InLife, Life
<1>4. RouteInv'
  <2>1. CASE standby[o]
    BY <1>1, <2>1, RouteUntouched DEF out_standby, do_output_standby, StreamInv, Typed
  <2>2. CASE ~standby[o]
    <3>1. out_device' = {} /\ standby' = [standby EXCEPT ![o] = TRUE]
          /\ UNCHANGED <<input_source, in_device, cur_route_id, mixer>>
      BY <1>1, <2>2, NoOtherPlays DEF out_standby, do_output_standby, CardGivenBack
    <3>2. (RouteId /\ MixerIsRoute)'
      BY <1>1, <3>1, RouteKept DEF RouteInv
    <3>3. (OutDeviceIsPlaying /\ InputIsCapturing)'
      BY <1>1, <2>2, <3>1
         DEF out_standby, RouteInv, OutDeviceIsPlaying, InputIsCapturing, StreamInv, Typed,
             Cards, Card
    <3>4. QED
      BY <3>2, <3>3 DEF RouteInv
  <2>3. QED
    BY <2>1, <2>2
<1>5. QED
  BY <1>2, <1>3, <1>4 DEF IInv

\* A move to or from the digital output is a standby; another one is applied
\* when the stream plays.
LEMMA OutputSetParameters ==
  ASSUME IInv, NEW o \in Outs, NEW d \in OutDevices,
         out_set_parameters(o, d)
  PROVE  IInv'
<1>1. StreamInv /\ InputInv /\ RouteInv
  BY DEF IInv
<1>2. StreamInv'
  <2>1. (Typed /\ DeviceKinds)'
    BY <1>1, HandleTyped
       DEF out_set_parameters, do_output_standby, Usable, Unlocked, StreamInv, Typed,
           DeviceKinds
  <2>2. Cards'
    BY <1>1
       DEF out_set_parameters, do_output_standby, Usable, Unlocked, CardTaken, CardRefused,
           CardGivenBack, StreamInv, Typed, Cards, Card, OutLife, InLife, Life
  <2>3. (OutLife /\ InLife /\ Life)'
    BY <1>1
       DEF out_set_parameters, do_output_standby, Usable, Unlocked, CardTaken, CardRefused,
           CardGivenBack, StreamInv, Typed, Cards, OutLife, InLife, Life
  <2>4. QED
    BY <2>1, <2>2, <2>3 DEF StreamInv
<1>3. InputInv'
  BY <1>1, InputsUntouched DEF out_set_parameters, StreamInv, Typed, OutLife, InLife, Life
<1>4. RouteInv'
  <2>1. CASE standby[o]
    BY <1>1, <2>1, RouteUntouched
       DEF out_set_parameters, do_output_standby, StreamInv, Typed
  <2>2. CASE ~standby[o] /\ MovesDigital(d)
    <3>1. out_device' = {} /\ standby' = [standby EXCEPT ![o] = TRUE]
          /\ UNCHANGED <<input_source, in_device, cur_route_id, mixer>>
      BY <1>1, <2>2, NoOtherPlays DEF out_set_parameters, do_output_standby, CardGivenBack
    <3>2. (RouteId /\ MixerIsRoute)'
      BY <1>1, <3>1, RouteKept DEF RouteInv
    <3>3. (OutDeviceIsPlaying /\ InputIsCapturing)'
      BY <1>1, <2>2, <3>1
         DEF out_set_parameters, RouteInv, OutDeviceIsPlaying, InputIsCapturing, StreamInv,
             Typed, Cards, Card
    <3>4. QED
      BY <3>2, <3>3 DEF RouteInv
  <2>3. CASE ~standby[o] /\ ~MovesDigital(d)
    <3>1. out_device' = d /\ select_devices(input_source, d, in_device)
          /\ UNCHANGED <<standby, input_source, in_device, input_source_of>>
      BY <1>1, <2>3, NoOtherPlays DEF out_set_parameters
    <3>2. (RouteId /\ MixerIsRoute)'
      BY <1>1, <3>1, RouteSelected DEF RouteInv
    <3>3. (OutDeviceIsPlaying /\ InputIsCapturing)'
      BY <1>1, <2>3, <3>1
         DEF out_set_parameters, RouteInv, OutDeviceIsPlaying, InputIsCapturing, StreamInv,
             Typed, Cards, Card
    <3>4. QED
      BY <3>2, <3>3 DEF RouteInv
  <2>4. QED
    BY <2>1, <2>2, <2>3
<1>5. QED
  BY <1>2, <1>3, <1>4 DEF IInv

\* adev_close_output_stream begins with the standby ...
LEMMA OutputCloseStandby ==
  ASSUME IInv, NEW o \in Outs,
         CloseOutputStandby(o)
  PROVE  IInv'
<1>1. StreamInv /\ InputInv /\ RouteInv
  BY DEF IInv
<1>2. StreamInv'
  <2>1. (Typed /\ DeviceKinds)'
    BY <1>1, HandleTyped
       DEF CloseOutputStandby, do_output_standby, Usable, Unlocked, StreamInv, Typed,
           DeviceKinds
  <2>2. Cards'
    BY <1>1
       DEF CloseOutputStandby, do_output_standby, Usable, Unlocked, CardTaken, CardRefused,
           CardGivenBack, StreamInv, Typed, Cards, Card, OutLife, InLife, Life
  <2>3. (OutLife /\ InLife /\ Life)'
    BY <1>1
       DEF CloseOutputStandby, do_output_standby, Usable, Unlocked, CardTaken, CardRefused,
           CardGivenBack, StreamInv, Typed, Cards, OutLife, InLife, Life
  <2>4. QED
    BY <2>1, <2>2, <2>3 DEF StreamInv
<1>3. InputInv'
  BY <1>1, InputsUntouched DEF CloseOutputStandby, StreamInv, Typed, OutLife, InLife, Life
<1>4. RouteInv'
  <2>1. CASE standby[o]
    BY <1>1, <2>1, RouteUntouched
       DEF CloseOutputStandby, do_output_standby, StreamInv, Typed
  <2>2. CASE ~standby[o]
    <3>1. out_device' = {} /\ standby' = [standby EXCEPT ![o] = TRUE]
          /\ UNCHANGED <<input_source, in_device, cur_route_id, mixer>>
      BY <1>1, <2>2, NoOtherPlays DEF CloseOutputStandby, do_output_standby, CardGivenBack
    <3>2. (RouteId /\ MixerIsRoute)'
      BY <1>1, <3>1, RouteKept DEF RouteInv
    <3>3. (OutDeviceIsPlaying /\ InputIsCapturing)'
      BY <1>1, <2>2, <3>1
         DEF CloseOutputStandby, RouteInv, OutDeviceIsPlaying, InputIsCapturing, StreamInv,
             Typed, Cards, Card
    <3>4. QED
      BY <3>2, <3>3 DEF RouteInv
  <2>3. QED
    BY <2>1, <2>2
<1>5. QED
  BY <1>2, <1>3, <1>4 DEF IInv

\* ... so that the slot it empties and the memory it frees are not a holder's.
LEMMA OutputCloseEnds ==
  ASSUME IInv, NEW o \in Outs,
         CloseOutputSlot(o) \/ CloseOutputFree(o)
  PROVE  IInv'
<1>1. StreamInv /\ InputInv /\ RouteInv
  BY DEF IInv
<1>2. StreamInv'
  BY <1>1
     DEF CloseOutputSlot, CloseOutputFree, StreamInv, Typed, DeviceKinds, Cards, OutLife,
         InLife, Life, Card
<1>3. InputInv'
  BY <1>1, InputsUntouched
     DEF CloseOutputSlot, CloseOutputFree, StreamInv, Typed, OutLife, InLife, Life
<1>4. RouteInv'
  BY <1>1, RouteUntouched DEF CloseOutputSlot, CloseOutputFree, StreamInv, Typed, Life
<1>5. QED
  BY <1>2, <1>3, <1>4 DEF IInv

-----------------------------------------------------------------------------
(* Input streams.                                                             *)

\* The open counts its stream before anything else.
LEMMA InputOpens ==
  ASSUME IInv, NEW i \in Ins,
         OpenInputCounts(i)
  PROVE  IInv'
<1>1. StreamInv /\ InputInv /\ RouteInv
  BY DEF IInv
<1>2. StreamInv'
  BY <1>1
     DEF OpenInputCounts, Updated, StreamInv, Typed, DeviceKinds, Cards, OutLife, InLife,
         Life, Card
<1>3. InputInv'
  <2>1. (Alone /\ EndsLast /\ ConfigLives)'
    BY <1>1
       DEF OpenInputCounts, StreamInv, Typed, InLife, Life, Overlaps, InputInv, Alone,
           EndsLast, ConfigLives, InputBusy, Live, Ending
  <2>2. CountsAll'
    <3>1. Counted' = Counted \cup {i} /\ i \notin Counted
      BY <1>1 DEF OpenInputCounts, StreamInv, Typed, InLife, Life, Counted, Live, Ending
    <3>2. Cardinality(Counted') = Cardinality(Counted) + 1
      BY <3>1, CountedFinite, FS_AddElement
    <3>3. ~overlapped' => ~overlapped /\ stream_in_refcount' = stream_in_refcount + 1
      BY DEF OpenInputCounts, Updated
    <3>4. QED
      BY <1>1, <3>2, <3>3, CountedFinite DEF InputInv, CountsAll, StreamInv, Typed
  <2>3. QED
    BY <2>1, <2>2 DEF InputInv
<1>4. RouteInv'
  BY <1>1, RouteUntouched DEF OpenInputCounts, StreamInv, Typed, Life
<1>5. QED
  BY <1>2, <1>3, <1>4 DEF IInv

\* The stream that is made is counted already, and pcm_config_in is its.
LEMMA InputOpenReturns ==
  ASSUME IInv, NEW i \in Ins, NEW d \in InDevices,
         OpenInputReturns(i, d)
  PROVE  IInv'
<1>1. StreamInv /\ InputInv /\ RouteInv
  BY DEF IInv
<1>2. StreamInv'
  BY <1>1
     DEF OpenInputReturns, StreamInv, Typed, DeviceKinds, Cards, OutLife, InLife, Life,
         Card
<1>3. InputInv'
  <2>1. (Alone /\ EndsLast /\ ConfigLives)'
    BY <1>1
       DEF OpenInputReturns, StreamInv, Typed, InLife, Life, Overlaps, InputInv, Alone,
           EndsLast, ConfigLives, InputBusy, Live, Ending
  <2>2. CountsAll'
    <3>1. Counted' = Counted
      BY <1>1 DEF OpenInputReturns, StreamInv, Typed, InLife, Life, Counted, Live, Ending
    <3>2. QED
      BY <1>1, <3>1 DEF OpenInputReturns, InputInv, CountsAll
  <2>3. QED
    BY <2>1, <2>2 DEF InputInv
<1>4. RouteInv'
  BY <1>1
     DEF OpenInputReturns, RouteInv, OutDeviceIsPlaying, InputIsCapturing, RouteId,
         MixerIsRoute, StreamInv, Typed, InLife, Life
<1>5. QED
  BY <1>2, <1>3, <1>4 DEF IInv

\* An open that is refused leaves its count.
LEMMA InputOpenRefused ==
  ASSUME IInv, NEW i \in Ins,
         OpenInputRefused(i)
  PROVE  IInv'
<1>1. StreamInv /\ InputInv /\ RouteInv
  BY DEF IInv
<1>2. StreamInv'
  BY <1>1
     DEF OpenInputRefused, StreamInv, Typed, DeviceKinds, Cards, OutLife, InLife, Life,
         Card
<1>3. InputInv'
  <2>1. (Alone /\ EndsLast /\ ConfigLives)'
    BY <1>1
       DEF OpenInputRefused, StreamInv, Typed, InLife, Life, Overlaps, InputInv, Alone,
           EndsLast, ConfigLives, InputBusy, Live, Ending
  <2>2. CountsAll'
    <3>1. Counted' = Counted \ {i} /\ i \in Counted
      BY <1>1 DEF OpenInputRefused, StreamInv, Typed, InLife, Life, Counted, Live, Ending
    <3>2. Cardinality(Counted') = Cardinality(Counted) - 1
      BY <3>1, CountedFinite, FS_RemoveElement
    <3>3. UNCHANGED <<overlapped, stream_in_refcount>>
      BY DEF OpenInputRefused
    <3>4. QED
      BY <1>1, <3>2, <3>3, CountedFinite DEF InputInv, CountsAll, StreamInv, Typed
  <2>3. QED
    BY <2>1, <2>2 DEF InputInv
<1>4. RouteInv'
  BY <1>1, RouteUntouched DEF OpenInputRefused, StreamInv, Typed, Life
<1>5. QED
  BY <1>2, <1>3, <1>4 DEF IInv

\* A read that starts the stream takes the card only when nobody has it.
LEMMA InputReads ==
  ASSUME IInv, NEW i \in Ins,
         in_read(i)
  PROVE  IInv'
<1>1. StreamInv /\ InputInv /\ RouteInv
  BY DEF IInv
<1>2. StreamInv'
  <2>1. (Typed /\ DeviceKinds)'
    <3>1. startFailed' \subseteq allocated
      BY <1>1 DEF in_read, Usable, Unlocked, CardTaken, CardRefused, StreamInv, Typed
    <3>2. QED
      BY <1>1, HandleTyped, <3>1
         DEF in_read, Usable, Unlocked, StreamInv, Typed, DeviceKinds
  <2>2. Cards'
    BY <1>1
       DEF in_read, Usable, Unlocked, CardTaken, CardRefused, CardGivenBack, StreamInv,
           Typed, Cards, Card, OutLife, InLife, Life
  <2>3. (OutLife /\ InLife /\ Life)'
    BY <1>1
       DEF in_read, Usable, Unlocked, CardTaken, CardRefused, CardGivenBack, StreamInv,
           Typed, Cards, OutLife, InLife, Life
  <2>4. QED
    BY <2>1, <2>2, <2>3 DEF StreamInv
<1>3. InputInv'
  BY <1>1, InputsUntouched
     DEF in_read, Usable, Unlocked, StreamInv, Typed, OutLife, InLife, Life
<1>4. RouteInv'
  <2>1. CASE UNCHANGED <<standby, avars>>
    BY <1>1, <2>1, RouteUntouched DEF in_read, StreamInv, Typed
  <2>2. CASE CardTaken(i) /\ refcount["pcm_in"] = 0
          /\ input_source' = input_source_of[i] /\ in_device' = device[i]
          /\ select_devices(input_source_of[i], out_device, device[i])
          /\ UNCHANGED <<out_device, device, input_source_of>>
    <3>1. \A j \in Ins : standby[j]
      BY <1>1, <2>2 DEF StreamInv, Typed, Cards, Card
    <3>2. (RouteId /\ MixerIsRoute)'
      BY <1>1, <2>2, RouteSelected DEF RouteInv
    <3>3. (OutDeviceIsPlaying /\ InputIsCapturing)'
      BY <1>1, <2>2, <3>1
         DEF CardTaken, RouteInv, OutDeviceIsPlaying, InputIsCapturing, StreamInv, Typed
    <3>4. QED
      BY <3>2, <3>3 DEF RouteInv
  <2>3. QED
    BY <2>1, <2>2 DEF in_read, CardRefused
<1>5. QED
  BY <1>2, <1>3, <1>4 DEF IInv

\* The end of a read changes nothing but the lock.
LEMMA InputReadReturns ==
  ASSUME IInv, NEW i \in Ins,
         in_read_returns(i)
  PROVE  IInv'
<1>1. StreamInv /\ InputInv /\ RouteInv
  BY DEF IInv
<1>2. StreamInv'
  BY <1>1
     DEF in_read_returns, StreamInv, Typed, DeviceKinds, Cards, OutLife, InLife, Life, Card
<1>3. InputInv'
  BY <1>1, InputsUntouched DEF in_read_returns, StreamInv, Typed, OutLife, InLife, Life
<1>4. RouteInv'
  BY <1>1, RouteUntouched DEF in_read_returns, StreamInv, Typed, Life
<1>5. QED
  BY <1>2, <1>3, <1>4 DEF IInv

\* A standby gives the card back, and with it the source.
LEMMA InputStandby ==
  ASSUME IInv, NEW i \in Ins,
         in_standby(i)
  PROVE  IInv'
<1>1. StreamInv /\ InputInv /\ RouteInv
  BY DEF IInv
<1>2. StreamInv'
  <2>1. (Typed /\ DeviceKinds)'
    BY <1>1, HandleTyped
       DEF in_standby, do_input_standby, Usable, Unlocked, StreamInv, Typed, DeviceKinds
  <2>2. Cards'
    BY <1>1
       DEF in_standby, do_input_standby, Usable, Unlocked, CardTaken, CardRefused,
           CardGivenBack, StreamInv, Typed, Cards, Card, OutLife, InLife, Life
  <2>3. (OutLife /\ InLife /\ Life)'
    BY <1>1
       DEF in_standby, do_input_standby, Usable, Unlocked, CardTaken, CardRefused,
           CardGivenBack, StreamInv, Typed, Cards, OutLife, InLife, Life
  <2>4. QED
    BY <2>1, <2>2, <2>3 DEF StreamInv
<1>3. InputInv'
  BY <1>1, InputsUntouched DEF in_standby, StreamInv, Typed, OutLife, InLife, Life
<1>4. RouteInv'
  <2>1. CASE standby[i]
    BY <1>1, <2>1, RouteUntouched DEF in_standby, do_input_standby, StreamInv, Typed
  <2>2. CASE ~standby[i]
    <3>1. /\ input_source' = "DEFAULT" /\ in_device' = {} /\ out_device' = out_device
          /\ select_devices("DEFAULT", out_device, {})
          /\ standby' = [standby EXCEPT ![i] = TRUE]
      BY <1>1, <2>2 DEF in_standby, do_input_standby, CardGivenBack
    <3>2. (RouteId /\ MixerIsRoute)'
      BY <1>1, <3>1, RouteSelected DEF RouteInv
    <3>3. (OutDeviceIsPlaying /\ InputIsCapturing)'
      BY <1>1, <2>2, <3>1
         DEF in_standby, RouteInv, OutDeviceIsPlaying, InputIsCapturing, StreamInv, Typed,
             Cards, Card
    <3>4. QED
      BY <3>2, <3>3 DEF RouteInv
  <2>3. QED
    BY <2>1, <2>2
<1>5. QED
  BY <1>2, <1>3, <1>4 DEF IInv

\* A new source or device is applied at once when the stream captures.
LEMMA InputSetParameters ==
  ASSUME IInv, NEW i \in Ins, NEW src \in Sources \cup {input_source_of[i]},
         NEW d \in InDevices,
         in_set_parameters(i, src, d)
  PROVE  IInv'
<1>1. StreamInv /\ InputInv /\ RouteInv
  BY DEF IInv
<1>2. StreamInv'
  BY <1>1
     DEF in_set_parameters, Usable, Unlocked, StreamInv, Typed, DeviceKinds, Cards, OutLife,
         InLife, Life, Card
<1>3. InputInv'
  BY <1>1, InputsUntouched DEF in_set_parameters, StreamInv, Typed, OutLife, InLife, Life
<1>4. RouteInv'
  <2>1. CASE standby[i]
    BY <1>1, <2>1, RouteUntouched DEF in_set_parameters, StreamInv, Typed
  <2>2. CASE ~standby[i]
    <3>1. /\ input_source' = src /\ in_device' = d /\ out_device' = out_device
          /\ select_devices(src, out_device, d)
      BY <2>2 DEF in_set_parameters
    <3>2. (RouteId /\ MixerIsRoute)'
      BY <1>1, <3>1, RouteSelected DEF RouteInv
    <3>3. (OutDeviceIsPlaying /\ InputIsCapturing)'
      BY <1>1, <2>2, <3>1
         DEF in_set_parameters, RouteInv, OutDeviceIsPlaying, InputIsCapturing, StreamInv,
             Typed, Cards, Card
    <3>4. QED
      BY <3>2, <3>3 DEF RouteInv
  <2>3. QED
    BY <2>1, <2>2
<1>5. QED
  BY <1>2, <1>3, <1>4 DEF IInv

\* A close that finds the count 1 finds no other stream alive: two streams that
\* are counted make two.
LEMMA InputCloseTests ==
  ASSUME IInv, NEW i \in Ins,
         CloseInputTests(i)
  PROVE  IInv'
<1>1. StreamInv /\ InputInv /\ RouteInv
  BY DEF IInv
<1>2. StreamInv'
  BY <1>1
     DEF CloseInputTests, Usable, Unlocked, StreamInv, Typed, DeviceKinds, Cards, OutLife,
         InLife, Life, Card
<1>3. InputInv'
  <2>1. ~overlapped /\ stream_in_refcount = 1 => \A j \in Ins : Live(j) => j = i
    <3> SUFFICES ASSUME ~overlapped, stream_in_refcount = 1, NEW j \in Ins, Live(j), j # i
                 PROVE  FALSE
      OBVIOUS
    <3>1. {i} \cup {j} \in SUBSET Counted
      BY DEF CloseInputTests, Usable, Live, Counted
    <3>2. Cardinality({i} \cup {j}) = 2
      <4>1. IsFiniteSet({i}) /\ Cardinality({i}) = 1
        BY FS_Singleton
      <4>2. Cardinality({i} \cup {j}) = IF j \in {i} THEN Cardinality({i}) ELSE Cardinality({i}) + 1
        BY <4>1, FS_AddElement, Zenon
      <4>3. Cardinality({i} \cup {j}) = Cardinality({i}) + 1
        <5>1. j \notin {i}
          OBVIOUS
        <5>2. QED
          BY <4>2, <5>1
      <4>4. QED
        BY <4>1, <4>3
    <3>3. Cardinality(Counted) >= 2
      BY <3>1, <3>2, CountedFinite, FS_Subset
    <3>4. QED
      BY <1>1, <3>3, CountedFinite DEF InputInv, CountsAll
  <2>2. (Alone /\ EndsLast /\ ConfigLives)'
    BY <1>1, <2>1
       DEF CloseInputTests, StreamInv, Typed, InLife, Life, Usable, Overlaps, InputInv,
           Alone, EndsLast, ConfigLives, InputBusy, Live, Ending
  <2>3. Counted' = Counted
    BY <1>1
       DEF CloseInputTests, StreamInv, Typed, InLife, Life, Usable, Counted, Live, Ending
  <2>4. CountsAll'
    BY <1>1, <2>3 DEF CloseInputTests, InputInv, CountsAll
  <2>5. QED
    BY <2>2, <2>4 DEF InputInv
<1>4. RouteInv'
  BY <1>1, RouteUntouched DEF CloseInputTests, StreamInv, Typed, Life
<1>5. QED
  BY <1>2, <1>3, <1>4 DEF IInv

\* The last stream is put into standby ...
LEMMA InputCloseStandby ==
  ASSUME IInv, NEW i \in Ins,
         CloseInputStandby(i)
  PROVE  IInv'
<1>1. StreamInv /\ InputInv /\ RouteInv
  BY DEF IInv
<1>2. StreamInv'
  <2>1. (Typed /\ DeviceKinds)'
    BY <1>1, HandleTyped
       DEF CloseInputStandby, do_input_standby, StreamInv, Typed, DeviceKinds
  <2>2. Cards'
    BY <1>1
       DEF CloseInputStandby, do_input_standby, CardTaken, CardRefused, CardGivenBack,
           StreamInv, Typed, Cards, Card, OutLife, InLife, Life
  <2>3. (OutLife /\ InLife /\ Life)'
    BY <1>1
       DEF CloseInputStandby, do_input_standby, CardTaken, CardRefused, CardGivenBack,
           StreamInv, Typed, Cards, OutLife, InLife, Life
  <2>4. QED
    BY <2>1, <2>2, <2>3 DEF StreamInv
<1>3. InputInv'
  <2>1. (Alone /\ EndsLast /\ ConfigLives)'
    BY <1>1
       DEF CloseInputStandby, StreamInv, Typed, InLife, Life, Overlaps, InputInv, Alone,
           EndsLast, ConfigLives, InputBusy, Live, Ending
  <2>2. CountsAll'
    <3>1. Counted' = Counted
      BY <1>1 DEF CloseInputStandby, StreamInv, Typed, InLife, Life, Counted, Live, Ending
    <3>2. QED
      BY <1>1, <3>1 DEF CloseInputStandby, InputInv, CountsAll
  <2>3. QED
    BY <2>1, <2>2 DEF InputInv
<1>4. RouteInv'
  <2>1. CASE standby[i]
    BY <1>1, <2>1, RouteUntouched DEF CloseInputStandby, do_input_standby, StreamInv, Typed
  <2>2. CASE ~standby[i]
    <3>1. /\ input_source' = "DEFAULT" /\ in_device' = {} /\ out_device' = out_device
          /\ select_devices("DEFAULT", out_device, {})
          /\ standby' = [standby EXCEPT ![i] = TRUE]
      BY <1>1, <2>2 DEF CloseInputStandby, do_input_standby, CardGivenBack
    <3>2. (RouteId /\ MixerIsRoute)'
      BY <1>1, <3>1, RouteSelected DEF RouteInv
    <3>3. (OutDeviceIsPlaying /\ InputIsCapturing)'
      BY <1>1, <2>2, <3>1
         DEF CloseInputStandby, RouteInv, OutDeviceIsPlaying, InputIsCapturing, StreamInv,
             Typed, Cards, Card
    <3>4. QED
      BY <3>2, <3>3 DEF RouteInv
  <2>3. QED
    BY <2>1, <2>2
<1>5. QED
  BY <1>2, <1>3, <1>4 DEF IInv

\* ... freed, while pcm_config_in still points to it, which no stream is left
\* to use ...
LEMMA InputCloseFree ==
  ASSUME IInv, NEW i \in Ins,
         CloseInputFree(i)
  PROVE  IInv'
<1>1. StreamInv /\ InputInv /\ RouteInv
  BY DEF IInv
<1>2. StreamInv'
  BY <1>1
     DEF CloseInputFree, StreamInv, Typed, DeviceKinds, Cards, OutLife, InLife, Life, Card
<1>3. InputInv'
  <2>1. (Alone /\ EndsLast /\ ConfigLives)'
    BY <1>1
       DEF CloseInputFree, StreamInv, Typed, InLife, Life, Overlaps, InputInv, Alone,
           EndsLast, ConfigLives, InputBusy, Live, Ending
  <2>2. CountsAll'
    <3>1. Counted' = Counted
      BY <1>1 DEF CloseInputFree, StreamInv, Typed, InLife, Life, Counted, Live, Ending
    <3>2. QED
      BY <1>1, <3>1 DEF CloseInputFree, InputInv, CountsAll
  <2>3. QED
    BY <2>1, <2>2 DEF InputInv
<1>4. RouteInv'
  BY <1>1, RouteUntouched DEF CloseInputFree, StreamInv, Typed, Life
<1>5. QED
  BY <1>2, <1>3, <1>4 DEF IInv

\* ... until it is cleared.
LEMMA InputCloseClears ==
  ASSUME IInv, NEW i \in Ins,
         CloseInputClearsConfig(i)
  PROVE  IInv'
<1>1. StreamInv /\ InputInv /\ RouteInv
  BY DEF IInv
<1>2. StreamInv'
  BY <1>1
     DEF CloseInputClearsConfig, StreamInv, Typed, DeviceKinds, Cards, OutLife, InLife,
         Life, Card
<1>3. InputInv'
  <2>1. (Alone /\ EndsLast /\ ConfigLives)'
    BY <1>1
       DEF CloseInputClearsConfig, StreamInv, Typed, InLife, Life, Overlaps, InputInv,
           Alone, EndsLast, ConfigLives, InputBusy, Live, Ending
  <2>2. CountsAll'
    <3>1. Counted' = Counted
      BY <1>1
         DEF CloseInputClearsConfig, StreamInv, Typed, InLife, Life, Counted, Live, Ending
    <3>2. QED
      BY <1>1, <3>1 DEF CloseInputClearsConfig, InputInv, CountsAll
  <2>3. QED
    BY <2>1, <2>2 DEF InputInv
<1>4. RouteInv'
  BY <1>1, RouteUntouched DEF CloseInputClearsConfig, StreamInv, Typed, Life
<1>5. QED
  BY <1>2, <1>3, <1>4 DEF IInv

\* The stream is no longer counted, in or out of memory.
LEMMA InputCloseUncounts ==
  ASSUME IInv, NEW i \in Ins,
         CloseInputUncounts(i)
  PROVE  IInv'
<1>1. StreamInv /\ InputInv /\ RouteInv
  BY DEF IInv
<1>2. StreamInv'
  BY <1>1
     DEF CloseInputUncounts, Updated, StreamInv, Typed, DeviceKinds, Cards, OutLife, InLife,
         Life, Card
<1>3. InputInv'
  <2>1. (Alone /\ EndsLast /\ ConfigLives)'
    BY <1>1
       DEF CloseInputUncounts, StreamInv, Typed, InLife, Life, Overlaps, InputInv, Alone,
           EndsLast, ConfigLives, InputBusy, Live, Ending
  <2>2. CountsAll'
    <3>1. Counted' = Counted \ {i} /\ i \in Counted
      BY <1>1 DEF CloseInputUncounts, StreamInv, Typed, InLife, Life, Counted, Live, Ending
    <3>2. Cardinality(Counted') = Cardinality(Counted) - 1
      BY <3>1, CountedFinite, FS_RemoveElement
    <3>3. ~overlapped => ~Overlaps(i)
      BY <1>1 DEF CloseInputUncounts, InputInv, Alone, Overlaps, InputBusy
    <3>4. ~overlapped' => ~overlapped /\ stream_in_refcount' = stream_in_refcount - 1
      BY <3>3 DEF CloseInputUncounts, Updated
    <3>5. QED
      BY <1>1, <3>2, <3>4, CountedFinite DEF InputInv, CountsAll, StreamInv, Typed
  <2>3. QED
    BY <2>1, <2>2 DEF InputInv
<1>4. RouteInv'
  BY <1>1, RouteUntouched DEF CloseInputUncounts, StreamInv, Typed, Life
<1>5. QED
  BY <1>2, <1>3, <1>4 DEF IInv

-----------------------------------------------------------------------------
\* Every step of every stream keeps the invariant.
LEMMA NextIInv == IInv /\ [Next]_vars => IInv'
<1> SUFFICES ASSUME IInv, [Next]_vars PROVE IInv'
  OBVIOUS
<1>1. CASE \E o \in Outs : OutputStep(o)
  <2>1. PICK o \in Outs : OutputStep(o)
    BY <1>1
  <2>2. QED
    BY <2>1, OutputOpens, OutputSetParameters, OutputWrites, OutputWriteReturns, OutputStandby,
       OutputCloseStandby, OutputCloseEnds DEF OutputStep
<1>2. CASE \E i \in Ins : InputStep(i)
  <2>1. PICK i \in Ins : InputStep(i)
    BY <1>2
  <2>2. QED
    BY <2>1, InputOpens, InputOpenReturns, InputOpenRefused, InputReads, InputReadReturns,
       InputStandby, InputSetParameters, InputCloseTests, InputCloseStandby, InputCloseFree,
       InputCloseClears, InputCloseUncounts DEF InputStep
<1>3. CASE UNCHANGED vars
  <2>1. StreamInv'
    BY <1>3 DEF IInv, StreamInv, Typed, DeviceKinds, Cards, OutLife, InLife, Life
  <2>2. InputInv'
    BY <1>3, InputsUntouched DEF IInv
  <2>3. RouteInv'
    BY <1>3, RouteUntouched DEF IInv
  <2>4. QED
    BY <2>1, <2>2, <2>3 DEF IInv
<1>4. QED
  BY <1>1, <1>2, <1>3 DEF Next

\* The invariant holds in every state.
LEMMA Invariance == Spec => []IInv
BY InitIInv, NextIInv, PTL DEF Spec

\* The audio_device's words are those of a stream, or those of no stream, and a
\* refcount is 0 or 1.
LEMMA ImpliesTypeOK == IInv => TypeOK
<1> SUFFICES ASSUME IInv PROVE TypeOK
  OBVIOUS
<1>1. Typed /\ DeviceKinds /\ Cards
  BY DEF IInv, StreamInv
<1>2. \A c \in {"pcm_out", "pcm_in"} : refcount[c] \in Nat
  BY <1>1 DEF Typed, Cards
<1>3. out_device \subseteq UNION OutDevices
  <2>1. CASE \A o \in Outs : standby[o]
    BY <2>1 DEF IInv, RouteInv, OutDeviceIsPlaying
  <2>2. CASE \E o \in Outs : ~standby[o]
    <3>1. PICK o \in Outs : ~standby[o]
      BY <2>2
    <3>2. out_device \in OutDevices \cup {{}}
      BY <1>1, <3>1 DEF IInv, RouteInv, OutDeviceIsPlaying, DeviceKinds
    <3>3. QED
      BY <3>2
  <2>3. QED
    BY <2>1, <2>2
<1>4. in_device \in InDevices \cup {{}} /\ input_source \in Sources \cup {"DEFAULT"}
  BY <1>1 DEF IInv, RouteInv, InputIsCapturing, Typed, DeviceKinds
<1>5. refcount \in [{"pcm_out", "pcm_in"} -> Nat]
  BY <1>1, <1>2 DEF Typed
<1>6. QED
  BY <1>1, <1>3, <1>4, <1>5 DEF Typed, TypeOK

Holders(c) == {x \in Streams : Card(x) = c /\ pcm[x] = "open"}

\* A card's holders are none or one stream, and its refcount counts them.
LEMMA ImpliesCardHeldOnce == IInv => CardHeldOnce
<1> SUFFICES ASSUME IInv PROVE CardHeldOnce
  OBVIOUS
<1>1. Typed /\ Cards /\ Life
  BY DEF IInv, StreamInv
<1>2. SUFFICES ASSUME NEW c \in {"pcm_out", "pcm_in"}
               PROVE  /\ refcount[c] = Cardinality(Holders(c)) /\ refcount[c] <= 1
                      /\ Holders(c) = {x \in Streams : Card(x) = c /\ ~standby[x]}
                      /\ Holders(c) \subseteq allocated
  <2>1. DOMAIN refcount = {"pcm_out", "pcm_in"}
    BY <1>1 DEF Typed
  <2>2. QED
    BY <2>1, Zenon DEF CardHeldOnce, Holders
<1>3. Holders(c) = {x \in Streams : Card(x) = c /\ ~standby[x]} /\ Holders(c) \subseteq allocated
  BY <1>1 DEF Cards, Life, Holders
<1>4. refcount[c] = Cardinality(Holders(c)) /\ refcount[c] <= 1
  <2>1. CASE Holders(c) = {}
    <3>1. refcount[c] = 0
      BY <1>1, <1>3, <2>1 DEF Cards
    <3>2. QED
      BY <2>1, <3>1, FS_EmptySet
  <2>2. CASE Holders(c) # {}
    <3>1. PICK x \in Streams : Card(x) = c /\ ~standby[x]
      BY <1>3, <2>2
    <3>2. Holders(c) = {x} /\ refcount[c] = 1
      BY <1>1, <1>3, <3>1 DEF Cards
    <3>3. Cardinality({x}) = 1
      BY FS_Singleton, Zenon
    <3>4. QED
      BY <3>2, <3>3
  <2>3. QED
    BY <2>1, <2>2
<1>5. QED
  BY <1>3, <1>4

\* Every route with an input has one of the three input paths of its source.
LEMMA InputPaths ==
  ASSUME NEW s, s # "NONE", NEW o, NEW ind,
         o \in {"SPEAKER", "HEADSET", "HEADPHONES", "SPEAKER_AND_HEADSET", "NONE"}
  PROVE  \E d \in {"SPEAKER", "HEADSET", "SPEAKER_AND_HEADSET"} :
           Route(s, o, ind).input = InputRoute(s, d)
BY DEF Route, InputRoute

\* The devices in use are those of the streams out of standby, and so is the route.
LEMMA ImpliesRouteFollowsActive == IInv => RouteFollowsActive
<1> SUFFICES ASSUME IInv PROVE RouteFollowsActive
  OBVIOUS
<1> DEFINE playing == {o \in outputs : ~standby[o]}
           s == get_input_source_id(input_source)
           o == get_output_device_id(out_device)
<1>1. StreamInv /\ RouteInv
  BY DEF IInv
<1>2. out_device = UNION {device[p] : p \in playing}
  <2>1. CASE playing = {}
    BY <1>1, <2>1 DEF StreamInv, Typed, OutLife, Life, RouteInv, OutDeviceIsPlaying
  <2>2. CASE playing # {}
    <3>1. PICK p \in Outs : ~standby[p]
      BY <1>1, <2>2 DEF StreamInv, Typed
    <3>2. playing = {p}
      BY <1>1, <3>1 DEF StreamInv, Typed, Cards, Card, OutLife, Life
    <3>3. QED
      BY <1>1, <3>1, <3>2 DEF RouteInv, OutDeviceIsPlaying
  <2>3. QED
    BY <2>1, <2>2
<1>3. cur_route_id = NoRouteId => s = "NONE" /\ o = "NONE"
  BY <1>1, DeviceIds DEF RouteInv, RouteId, NoRouteId
<1>4. cur_route_id # NoRouteId =>
        \E p \in {"SPEAKER", "HEADSET", "HEADPHONES", "SPEAKER_AND_HEADSET", "NONE"} : \E d :
          mixer = Route(s, p, d) /\ (o # "NONE" => p = o)
  BY <1>1 DEF RouteInv, RouteId, MixerIsRoute
<1>5. o # "NONE" => mixer = Route(s, o, in_device)
  <2>1. \A d : o # "NONE" => Route(s, o, d) = Route(s, o, in_device)
    BY DEF Route
  <2>2. QED
    BY <1>3, <1>4, <2>1
<1>6. s = "NONE" => mixer.input = NoPath
  <2>1. CASE cur_route_id = NoRouteId
    BY <1>1, <2>1 DEF RouteInv, MixerIsRoute
  <2>2. CASE cur_route_id # NoRouteId
    BY <1>4, <2>2 DEF Route
  <2>3. QED
    BY <2>1, <2>2
<1>7. s # "NONE" => \E d \in {"SPEAKER", "HEADSET", "SPEAKER_AND_HEADSET"} :
                     mixer.input = InputRoute(s, d)
  BY <1>3, <1>4, InputPaths
<1>8. QED
  BY <1>1, <1>2, <1>5, <1>6, <1>7 DEF RouteFollowsActive, RouteInv, InputIsCapturing

\* A stream in use is allocated, and an input has its pcm_config_in.
LEMMA ImpliesNothingFreedIsUsed == IInv => NothingFreedIsUsed
BY DEF IInv, StreamInv, InputInv, Typed, Cards, OutLife, InLife, Life, ConfigLives, Live,
       NothingFreedIsUsed

-----------------------------------------------------------------------------
\* For any streams, devices and sources the state of the audio HAL has its types.
THEOREM TypeCorrect == Spec => []TypeOK
BY Invariance, ImpliesTypeOK, PTL

\* For any number of streams a card's refcount is the number of handles open on
\* it, at most one, of a stream that is out of standby and not freed: no order of
\* starts, failed starts, standbys and closes leaves a card held by nobody.
THEOREM CardsAreHeldOnce == Spec => []CardHeldOnce
BY Invariance, ImpliesCardHeldOnce, PTL

\* For any devices and sources the audio_device's words are those of the streams
\* that play and capture, and the mixer's paths are the route for them.
THEOREM RouteFollows == Spec => []RouteFollowsActive
BY Invariance, ImpliesRouteFollowsActive, PTL

\* For any number of streams no write, no read and no look at adev->outputs uses
\* what was freed; nor does a read's resampler, while inputs are opened and closed
\* one at a time.
THEOREM FreedIsUnused == Spec => []NothingFreedIsUsed
BY Invariance, ImpliesNothingFreedIsUsed, PTL
=============================================================================
