# Verification of the slsiap hardware abstraction layer

This directory models the parts of the Nexell/Samsung S5P4418/S5P6818 Android HAL
that carry its own concurrent logic: the OMX video components with the queue and
the semaphore under them, the ffmpeg extractor that feeds them, the camera HAL (its
preview stream in detail, and the control of all its threads), and the audio HAL.
TLC checks small instances (`*.cfg`), TLAPS proves theorems for every instance
(`*_proofs.tla`). `PROJECT.json` lists components, runs, mutants, the source lines
of every definition, hazards, findings and theorems.

## 1. Inventory

### Parts that are modelled

| part | source | state it keeps | operations |
|---|---|---|---|
| OMX queue | `omx/common/NX_OMXQueue.c` | ring of 128 slots, head, tail, count, enabled | init, push, pop, peek, count, deinit |
| OMX semaphore | `omx/common/NX_OMXSemaphore.c` | `nValue`, maximum, mutex and condition variable | create, pend, post, destroy |
| OMX base component | `omx/components/base` | states, port definitions, command queue | SendCommand, Empty/FillThisBuffer, command thread |
| video decoder | `coda960_video_decoder/NX_OMXVideoDecoder.c`, `NX_MPEG4Decoder.c` | port buffers, use flags, decoder flags, three semaphores, thread command | Use/Allocate/FreeBuffer, FillThisBuffer, state transitions, flush, port enable/disable, decoding loop |
| video encoder | `coda960_video_encoder/NX_OMXVideoEncoder.c` | the same with queues on both ports | the same, encoding loop, sequence header |
| ffmpeg extractor | `omx/extractor/ffmpeg/FFmpegExtractor.cpp` | packet queue per track, seek request, end flags, abort request | reader thread, a source's read and seek, stop |
| camera stream | `camera/NXStreamThread.*`, `NXStream.*`, `PreviewThread.cpp`, with callers in `CaptureThread.cpp`, `NXCameraHWInterface2.cpp` | thread state, buffer queue of the stream, device queue | start, stop, readyToRun, threadLoop, allocate, release |
| camera control | `camera/NXCommandThread.cpp`, `NXCameraHWInterface2.cpp`, `NXStreamManager.cpp`, `RecordThread.cpp`, `CaptureThread.cpp`, `CallbackThread.cpp`, `InterlaceRecordThread.cpp` | request queue, wake-up flag, table of streams, listeners, state of each stream thread | wakeup, processCommand, onCommand, allocateStream, releaseStream, stream threads' exits |
| audio HAL | `audio/audio_hw.c` | two outputs and any number of inputs, two cards with a count, routing, shared input configuration | open, write/read, standby, set_parameters, close |

How they meet: an IL client (stagefright's ACodec) calls a component's methods and
sends commands. The command thread takes them from an OMX queue and executes the
whole handler; the buffer thread decodes or encodes under `hBufMutex`. They tell
each other things through `eCmdBufThread`, `eNewState` and three semaphores:
`hBufAllocSem` (a port was populated or emptied), `hBufCtrlSem` (run, or look at
your command), `hBufChangeSem` (a buffer arrived). In the camera HAL the command
thread calls `onCommand` of each listener under `ListenerMutex`, and the binder
thread allocates and releases streams; both talk to the stream thread only by its
atomic state and by polling it. Stream threads act on each other too: a record
thread stops the preview (S5P4418), a callback or interlace record thread copies the
preview's last buffer, a capture copies the record's. The extractor's reader thread
fills a queue per track, each track is read by its own thread, which may ask the
reader to seek; they share plain words besides the queues. The audio HAL is called
from any number of threads; `adev->lock` and each stream's lock order them, except
in opening and closing inputs.

What is hard there: a wake-up between a test and a sleep; commands that collapse
in a semaphore of maximum one; two threads that pend the same semaphore; buffers
that arrive while a transition returns all buffers; ports disabled while the
decoder runs; a stop that times out while its thread is late; errors in the middle
of a frame; two queues (stream and device) that must stay in step; a seek request
that is cleared while another is made; a thread joined with a lock held that others
need; threads that test each other's state first and use each other's streams
later; a card count that must survive failed opens; globals shared without a lock.

What makes each part correct: every buffer has one owner and comes back on Idle
(decoder, encoder, camera); a command, a read, a stop ends (decoder, extractor); a
wake-up is not lost (semaphore, decoder, camera control); a seek is answered from its
own place (extractor); tables and threads agree (camera control); a card is held by
one living stream and the mixer has its route (audio).

### Not modelled

The models cover the parts in which threads of this repository meet. They are a
small share of its lines, and will stay so; about 140,000 lines count as
implementation, and most of them hold no behaviour of this program:

* `modules/vr` (34,000 lines): the ARM Mali Utgard kernel driver under other names.
* `libsensors/invense` (25,000): InvenSense's motion library and HAL.
* `omx/codec` (22,000): ffmpeg's public headers; `kernel-headers` (3,500): copies of
  kernel headers; `prebuilt`, `lib_jpeg`, `libhapticapi`: vendor libraries and demos.
* `libcamerasensor`, `v4l2`, `include` (10,000): register tables, ioctl wrappers,
  declarations.
* `camera/native_window_test`, `camera/test` and the other test programs.

What is left are about 30,000 lines of HAL code. In them:

* EXIF, zoom and scaler code, JPEG glue, colour conversion, bit-stream parsers,
  Annex B conversion, codec headers: data conversion without shared state.
* gralloc, ion, lights, keystore, SPI update: wrappers of ioctl and sysfs without a
  protocol of their own.
* OMX core and audio decoder, decoder time stamps, HDMI switch of hwc, GPS threads,
  the camera's sensor thread: worth modelling, not done yet (section 3).
* Within the modelled components: parameter methods (table look-ups), ComponentInit
  and DeInit of the OMX components beyond the initial state, `pause`/`resume` of the
  stream thread (nobody calls them), reprocessing streams, the extractor's tracks
  that the reader opens late and its time stamps, volume, mute, ramp, resampler data
  and `adev_close` of the audio HAL.

## 2. Modules

| module | what it is |
|---|---|
| `BoundedFIFO`, `CountingSemaphore` | abstract specifications of queue and semaphore |
| `NX_OMXQueue`, `NX_OMXSemaphore` | the C code, each shown to implement its abstraction |
| `NX_OMXVideoDecoder` | client, command thread and buffer thread of the decoder |
| `NX_OMXVideoEncoder` | the same for the encoder; uses `NX_OMXSemaphore` by INSTANCE |
| `FFmpegExtractor` | reader thread, the sources' reads and seeks, stop |
| `NXStreamThread` | camera preview stream: command thread, binder thread, stream thread, device |
| `NXCameraHWInterface2` | camera control: service, command thread, table of streams, all stream threads and the calls between them |
| `audio_hw` | audio streams, cards, routes |
| `*_proofs` | theorems with their inductive invariants |
| `MC_*` | instances: the client's transitions, symmetry sets |

Conventions. A variable has the name of the field it stands for. A section under a
mutex is one action, unless the code waits inside it. `cmdPc`, `bufPc`, `pc` and
`loop` say where a thread is; a place exists for each point where another thread
can come in between. Buffers are model values; a frame's data is not modelled, an
end-of-stream flag is. Actions named `Mut_...` are not part of any specification:
each is the action after it with a plausible mistake, and shows that a property
notices it.

### NX_OMXQueue

Each operation is atomic under the queue's mutex, except `NX_DeinitQueue`, which
clears the structure after the unlock (`deinit` is the moment between). Its
refinement mapping reads the live slots from `head` on as the FIFO's sequence.

### NX_OMXSemaphore

`NX_PendSem` is split at `pthread_cond_wait`: `pend` says whether a thread waits or
was signalled. It decrements after the wait without a second test ("if", not
"while"), as an unsigned number (`Modulus` for 2^32). The construction is a
counting semaphore if a single thread pends it: `SinglePender`. Spurious wake-ups
of `pthread_cond_wait` are left out. The decoder's semaphores have one pender
each, so its model uses counts; the encoder's `hBufCtrlSem` has two.

### NX_OMXVideoDecoder

Client: `NX_BaseSendCommand`, `NX_VidDec_UseBuffer`, `..._AllocateBuffer`,
`..._FreeBuffer`, `NX_BaseEmptyThisBuffer`, `NX_VidDec_FillThisBuffer`. Command
thread: one action per stretch of a transition between two waits. Buffer thread:
`BufTest` .. `BufEos` and the five outcomes of `Decode...`. In native window mode
output buffers are flags plus a count; in thumbnail mode they are a queue; the
client chooses while the component is loaded (`ClientSetsMode`).

A StateSet stores the new state and reports it later, so these are two steps: the
store (`FinishExecutingToIdle` and its like, `cmdPc` "event" after it) and `SendEvent`.
Between them `eCurState` is Idle and equals `eNewState`, and the client still knows
Executing: `AcceptsBuffers` lets its buffers in, and nobody returns them. The history
variable `late` holds these buffers until the next Idle -> Executing; the properties
about an idle component exempt them and nothing else (what becomes of them is told in
section 5). The other commands change nothing that is shared between their
last step and their event. `BufLock` is the moment in which the decoding thread has
passed its tests and waits for `hBufMutex`: the command thread may return every buffer
and go on meanwhile.

The client sends one command at a time and passes buffers that it owns. It does
not disable both ports with one command: `PortDisable(ALL)` does not reset
`outUsableBuffers`. What the VPU answers, and when a stream asks for other output
buffers (`Reconfigures`), is a choice. Facts of the code the model keeps: a second
Idle -> Executing opens the codec again without closing it; PortDisable also
reports flushes; each count of `hBufChangeSem` decodes at most one frame, so the end
of a short stream can wait for the next buffer.

### NX_OMXVideoEncoder

The store of a state and its event are two steps as in the decoder (`Settle`,
`SendEvent`, `late`); here a late frame can also be encoded after `EncoderClose`.
`lost` collects the buffers that an error inside `EncodeFrame` leaves in no queue,
`returnedTwice` records a buffer handed to a client that already has it. The client
rules (`PrefillsOutput`) keep the sequence header from meeting a single output
buffer, in which case the code returns that buffer twice. Pause -> Idle, which
returns no buffer and stops no thread, is in the module but not among the runs'
transitions.

### FFmpegExtractor

An operation on a packet queue is one step (each queue has a mutex); `mSeekReq`,
`mSeekPos`, `mEOF2`, `mAbortRequest` and the end flags are read and written step by
step. `rpc` is the reader's place in `readerEntry`, `spc` a source's place in `read`,
`ctl` the thread that stops the sources. A packet is its position in the file and the
number of the seek it was read under; that number (`gen`), `reqGen`, `want`, `overlap`
and `lost` are history, for the properties. `mVideoEOSReceived` is uninitialised until
the reader starts, so Init chooses it. `av_read_frame` and `avformat_seek_file` are
external and may fail (`failed`); an error in the middle of the file (`Unreadable`)
without `pb->error` is taken for the end of the file. At the end of the file the code
puts end-of-stream packets on every turn; `MaxEos` bounds how many wait in a queue.

A failed seek leaves no flush packet and an I/O error no end of stream, so reads hang
in both cases; two sources that seek at once can erase each other's request. The
properties exempt these (`failed`, `lost`, `overlap`), and `WaitsForUnread`: a reader
whose byte limit is used up by a track nobody reads starves the other by design.

### NXCameraHWInterface2

Where `NXStreamThread` follows the buffers of one stream, this module follows all
threads and leaves the buffers out. `call[a]` is a caller (command thread, service,
record thread) inside start or stop of a thread, `loop[t]` the thread. `peek` is the
moment between a thread's test that another one is running and its reading of that
one's stream. The service's request queue is external: it notifies the first
request after a dequeue that found nothing. `StreamThreads` may name an `Old` thread
object, which the table keeps alive after its stream was released (the preview/ZSL
pair). The capture is the thread without CHECK_AND_EXIT, which stops itself.

`excuse` is a history variable: `"race"` once two callers were inside start or stop of
one thread or a stop gave up on a live one, `"under"` once the client released a
stream before one that looks into it. The code promises little after either, and the
properties say exactly what is then exempt. With `AfterRace` FALSE the client asks for
nothing new after a race; what is under way still ends.

### audio_hw

What runs under `adev->lock` and the stream's lock is one action. A write or read
keeps the stream's lock alone until the PCM returns (`call`). Opening and closing an
input share `stream_in_refcount` and `pcm_config_in` without any lock, so they are
several actions, and an update of the count may be lost when they overlap
(`Updated`). A close that is not the last only uncounts: the stream leaks with the
card it may hold (`"leaked"`). Paths are pairs of use and hardware end, in place of
the names `route_configs` lists. The build is the one without `USES_CARD_SPDIF`: the
other, the default of `audio/Android.mk:38`, does not compile (`out_select_sndcard`
has an `else` inside the braces of its `if`), so HDMI output and `disabled` do not
occur.

### NXStreamThread

`pc["command"]` is the command thread inside `onCommand` (start for a preview
request, stop for a capture request), `pc["binder"]` the binder thread inside
`releaseStream`; `loop` is the stream thread. `setState`'s compare-and-swap is an
assignment: it fails only if another thread sets the state in between, and then
the outcome is that of the two assignments in the other order. `Thread::run`, the
V4L2 device and the native window are external: run refuses a thread whose last
one has not ended, the device keeps its buffers in order, fails when switched off,
and anything may fail when `Fails`. `trouble` is a history of errors and timeouts,
which several properties exempt because the code gives no promise then. A capture
request for a preview that is being released is left out: nothing in the HAL
orders the two stops, and the client does not send it. A new stream is allocated only
when the last one's thread has ended, since a second thread on the same device is
beyond this module. With zoom and an empty queue `getNextBuffer` reads in front of the
vector: the model goes on with any buffer or none, or leaves by ERROR_EXIT.

## 3. Plan

Done, in this order: queue, semaphore, decoder, encoder, camera stream; proofs of
queue, semaphore and camera stream; decoder with both output modes in one
behaviour; extractor; camera control (command thread, stream table, record, capture,
callback, interlace); audio HAL; proofs of decoder, encoder, extractor, camera
control, audio HAL and of the rest of the camera stream, so that every invariant a
passing run checks is the statement of a theorem.

Next:

1. Proofs of action properties and refinements on the same invariants: decoder and
   encoder as a ledger of buffers (passed, held, returned, each once), the camera's
   request queue as a queue with a consumer, the audio cards as locks. Weaker
   hypotheses: what is left of `BuffersAreOwnedOnce` of the encoder when one output
   buffer meets the sequence header, of `IdleIsEmpty` when Pause -> Idle is asked for.
2. Time stamp slots of the decoder (`PushVideoTimeStamp`, `PopVideoTimeStamp`)
   against a bag whose minimum is taken.
3. The command thread of the base component: queued commands at the end of a
   component's life, a full command queue whose failed push is still posted.
4. Audio decoder (the encoder's two-pender pattern); OMX core's component table.
5. HDMI scenario switch of hwc; precapture of the camera's sensor thread; GPS threads.

## 4. Runs

| run | what it asks | instance |
|---|---|---|
| `omx_queue` | ring invariants, refinement of `BoundedFIFO` | 3 slots, sizes 0..3, 2 elements: every wrap of head and tail at every size |
| `omx_semaphore` | no lost post, refinement of `CountingSemaphore` | one pender, maximum 60 below a modulus of 64: saturation and wrap are both in reach |
| `vdec_modes` | ownership with the count of the use flags, idle holds only late buffers, no lost control wake-up, stop noticed, registered buffers exist | 1+2 buffers, native window and thumbnail mode, both ports disabled and enabled, stream-driven reconfiguration, flushes, a transition that fails |
| `vdec_live` | every command ends, unless a late buffer stays inside; Loaded is unpopulated; semaphores outlive their thread | 1+2 buffers, pauses, flushes, fairness |
| `vdec_loaded` | finding, see below | 2+2 buffers, output port re-populated |
| `venc_threads` | ownership, idle, codec open, stop noticed, through errors | 2+2 buffers, all transitions but Pause -> Idle and Idle -> Pause, PortEnable |
| `venc_creation` | finding, see below | 2+2 buffers, fairness |
| `camera_stream` | buffers, frame order, what a stop leaves behind | 3 buffers of which 2 are queued, 2 polls, 1 wait of start, 1 skipped frame, anything may fail, zoom on or off |
| `camera_release` | finding, see below | the same |
| `extractor` | seeks answered from their place, flush packets separate seeks, nobody waits for a dead reader, reads and stops return | a file of one audio and two video packets, the last a key frame that may be unreadable; 2 seeks, a byte limit of 0, so that one packet fills the queues; fairness |
| `camera_control` | no lost request, tables agree, thread states honest, nothing removed is used | S5P4418; opaque, picture and ZSL streams (preview, record, interlace record, capture), 2 at a time, 1 queued request |
| `audio` | a card has at most one living holder, the route follows the active streams, nothing freed is used | 2 outputs, 2 inputs, 2 output devices, 1 source, opens that fail or are refused |

Why the bounds are enough. Two buffers per port are needed for an order, for a flush
with several buffers and for an output that is held while the other is free; a third
adds no new case, since no code counts beyond "none", "one" and "all". `venc_threads`
and `vdec_loaded` have two on each port, `vdec_modes`, where the client does more, two
output buffers and one input buffer. One count more than a port population needs is
available in `hBufAllocSem` (`AllocMax` 3 for 16), so stale counts appear, but in
`vdec_modes`, none of whose properties is about them; `ChangeMax` 1 or 2 (2048 in the
code) makes the buffer change semaphore saturate, which the code never reaches in
practice, so the runs cover more. The camera's polls, waits and skipped frames are
counters that only decide how long something lasts: the values are the smallest with a
first, a last and, for polls, a middle one; the theorems cover all others. Buffers of
a port are interchangeable, hence the symmetry sets, which no run with a temporal
property uses.

The extractor's file has a packet of the other track in front of, and a key frame
behind, the place sought, so that reads drop packets for each of their reasons. With
`MAX_QUEUE_SIZE` 0 the reader waits whenever a packet is queued, which is the tightest
a queue can be; the limits of the single tracks never decide then, since the limit on
bytes comes first. The safety theorems hold for every limit; that reads return when
the tracks' limits decide is not checked. Two seeks are needed for one to overtake the
other. In `camera_control` two streams at a time allow every pair of threads that act
on each other. The interlace record thread copies the preview as the callback thread
does, in the same steps, so no YUV stream is allocated; a capture beside a record
occurs only after the client released the preview, and the orderly case, which takes
three streams, is left to the theorems. Two outputs and two inputs in `audio` are
every output the build has, and for inputs the smallest number that can overlap; the
third input would be a third copy of an overlap that the history variable already
excuses. One output device plays on the analog path and one is digital, which standby
treats differently. More streams, devices, sources, buffers, seeks and larger limits
are covered by the theorems of section 6.

The transition Idle -> Pause stores the state and nothing else, so the runs leave it out
to stay small; the theorems have it.

`CHECK_DEADLOCK FALSE` appears where the system may stop: the decoder and the encoder,
whose Idle -> Loaded waits for ever for a late buffer (section 5), the encoder also
because its command thread can hang at the start (finding 2); the extractor, which is
over when its sources are stopped; the camera control, whose client stops after a race
(`AfterRace`).

Fairness (`FairSpec`). Threads of the component are scheduled again and again: weak
fairness of command and buffer thread. Taking `hBufMutex` in the decoder has strong fairness: a
default pthread mutex promises less, but the buffer thread sleeps on a semaphore
outside of the mutex after each frame. The client eventually populates ports when
a transition waits for it and frees buffers when it was asked to: without that the
code waits for ever by design. Nothing is assumed of the client's other calls, nor
of the stream. In the extractor the reader, each source inside `read` and the stopping
thread are weakly fair: each of their waits is a poll or a condition variable of a
queue, and `mExtractorLock` is held for a few steps only, or until the join ends.
Nobody need call `read` or `stop`. The camera and audio runs check safety only.

## 5. Findings

1. `vdec_loaded` (`NX_OMXVideoDecoder.c:1133`): populating and emptying a port in
   Executing leaves counts in `hBufAllocSem`, so a later Idle -> Loaded ("Wait
   buffer free") completes with all buffers still allocated.
2. `venc_creation` (`NX_OMXVideoEncoder.c:828`): the encoding thread posts
   `hBufCtrlSem` for its creator and pends it itself; if it takes its own count
   the command thread waits for ever. The audio decoder has the same code.
3. `camera_release` (`NXStreamThread.cpp:207`): after five polls `stop` sets
   `STATE_EXIT` itself; `releaseStream` then removes the streams, against "must be
   called when stopped", while the late thread still uses them.

A buffer that stays in an idle component. Executing -> Idle returns all buffers, unlocks
`hBufMutex`, then stores Idle (`NX_OMXVideoDecoder.c:1239`, `NX_OMXVideoEncoder.c:929`)
and sends the event last (`:1515`, `:1092`). A buffer passed in between is accepted
(`NX_OMXBaseComponent.c:350`) and not returned, although the comments above both buffer
threads say "return all buffers on the each port" (`:1554`, `:1126`). The client cannot
free it, so the next Idle -> Loaded waits for ever (decoder `:1137`), and a thread that is
past its test processes it in the idle component: the decoder may then register buffers
that were freed, the encoder may encode after `EncoderClose` (`:843`). The models have
all of this (`late`); the properties except it, since it is what the code does. To see
the trace, check `told = "Idle" /\ outstanding = 0 => InHeld \cup OutHeld = {}` in
`vdec_live`.

Seen while modelling, and without a run of its own because the text of the code
settles it: the comment table at `NX_OMXVideoDecoder.c:1550` says that Pause stops
the decoding thread and Pause -> Executing releases it, but the transitions only store
the state. On S5P4418 `RecordThread::readyToRun` stops the preview and then gives up
because the preview is not running, while `start` sets RUNNING for the thread that
has gone; a record thread whose `v4l2_dqbuf` fails also leaves RUNNING behind. On
S5P6818 a preview whose stop timed out tries `v4l2_dqbuf` for ever on a device that
is off. `GetUsableBufferIdx` of the decoder never looks at the index it returned last,
so with one buffer held it can return -1. `select_devices` of the audio HAL compares
source and output only, so a change of the input device alone is not applied while no
output plays.

## 6. Proofs

All by TLAPS with Z3, Zenon and LS4, under the named ASSUMEs of the modules. Where a
theorem needs more, its statement says so with a named hypothesis (`SinglePender`,
`Orderly`, `OneByOne`, `Settled`, `Prefilling`), explained below; the constants of each
passing run satisfy the hypotheses of the theorems about its properties. In each
module `IInv` (or the invariant named) is inductive: one lemma per action or group of
actions, put together in `Invariance`, from which each theorem follows.

* `NX_OMXQueue_proofs`. `RingSafety` (the ring is consistent) and
  `RingImplementsFIFO`, for every capacity and element set (`QueueAssumption`).
  Inductive invariant: typing, `RingConsistent`, and that live slots hold pushed
  elements. The refinement compares the sequences slot by slot: a push writes the
  slot behind the last, a pop moves every index by one, with the wrap by cases
  (`WrapStep`, `WrapEnd`).
* `NX_OMXSemaphore_proofs`. `NoPostIsLost` and `SemaphoreCounts`, for every maximum
  below the modulus, under `SinglePender`, which is an assumption of the theorems
  because the encoder breaks it. `NoLostPost` is inductive with the bound of the
  count: the only pender sleeps at zero, and nobody takes the count it is woken for.
* `NX_OMXVideoDecoder_proofs`. `TypeCorrect`, `BuffersAreOwnedOnce`, `ControlIsNotLost`,
  `StopsAreNoticed`, `SemaphoresOutlive` for every client and any numbers of buffers and
  maxima; `IdleIsEmpty` (but for late buffers) for `Orderly`, `RegisteredBuffersExist`
  for `OneByOne`, `LoadedIsEmpty` for `Settled` clients. `Orderly`: the client asks for
  transitions the component handles, or for the state it is told, but not for Pause ->
  Idle; or it never pauses and asks a loaded component to by mistake, is refused, and
  asks for Loaded. `OneByOne`: it does not disable both ports with one command.
  `Settled`: no port is disabled at all; `vdec_loaded` shows what happens otherwise. The
  invariant has a part for each kind of state. `Carried` and `Known`: what command is
  under way, in which state it started, what the client believes (`Misled` after a
  refusal). `Posted`: a thread told to run or to stop is posted, whichever test it has
  passed. `Held`: a buffer is in one place (`InOnce`, `OutOnce`, `Owned`), and
  `curOutBuffers` counts `Flags`. `Emptied`, that what an idle component holds is
  `late`, is not inductive alone: it needs `Known` (from the return of the buffers to
  the store `eNewState` refuses what comes, and a loaded component is given nothing) and
  that a thread which still decodes a late frame takes only what is held. `Usable`
  bounds `outUsableBuffers` by the buffers that exist, but for the time (`Closing`) in
  which the client frees them and Idle -> Loaded has not reset the count. `Population`
  bounds the posted and taken counts of `hBufAllocSem` by the ports that are done, which
  is why no count may be left over from an earlier population.
* `NX_OMXVideoEncoder_proofs`. `TypeCorrect` and `StopsAreNoticed` for every client;
  `IdleIsEmpty` and `FramesMeetTheCodec` for `Orderly` ones, who do not ask for
  Pause -> Idle (that transition returns nothing and stops nobody), both but for the late
  buffers; `BuffersAreOwnedOnce` for `Prefilling` ones, who pass all output buffers, two
  at least, before the first frame:
  with a single one queued the sequence header is returned in the buffer that then takes
  the frame. `Filled` is that discipline as an invariant: until the header is sent, a
  queued frame finds all output buffers queued. `Owned` has `lost` beside the queues, so
  that what an error in `EncodeFrame` drops stays the component's.
* `FFmpegExtractor_proofs`. For any tracks, file, key frames, seek positions, limits and
  callers: `TypeCorrect`, `DeadReaderHasTold`, `FlushPacketsSeparate`, `SeeksAreHonoured`.
  `Told`: each place of the reader's exit says which queues it has aborted. `FlushGen`:
  the flush packets in a queue are of the seek that placed the file, but while the
  reader is on its way to put the next ones. The seek itself needs seven facts: who holds
  `mExtractorLock` and for which seek (`Locked`, `Wanted`), that a request not yet cleared
  is that of a read which still waits, with no flush packet before it and nothing behind
  (`Unserved`), that the file was placed for it (`FileIsThere`), that no old flush packet
  comes between the flush and the request (`Emptied`), and so that the packets ahead of
  the read are of its seek (`Honours`) and the one returned is (`Returned`).
* `NXCameraHWInterface2_proofs`. For any formats, requests, polls, waits and either chip:
  `TypeCorrect`, `RequestsAreNotified`, `TablesAgree`, `StatesAreHonest`,
  `NothingGoneIsReached`. `Notified` is the hand-shake between `signalConsumer`, the
  wake-up flag and the dequeue. `Mapped` and `Listed` say whose thread is whose while the
  service is between two of its tables. `OrderInv` holds while no two callers have met in one
  thread: one caller at a time (`Alone`), a thread that runs or is asked to stop has its
  stream (`Streamed`, `Reached`), and is at rest when the stream goes (`Stopped`).
  `Unwatched` adds that a stream is removed when no thread looks into it; without it
  `NothingGoneIsUsed` is not inductive, since a thread tests another one's state and uses
  its stream a step later.
* `audio_hw_proofs`. For any number of outputs and inputs, any devices and sources, and
  any failed opens: `TypeCorrect`, `CardsAreHeldOnce`, `RouteFollows`, `FreedIsUnused`.
  `Cards` ties handle, standby flag and `refcount` of each card; `OutLife`, `InLife` and
  `Life` say what each place of a close leaves of a stream, so that the one that is freed
  is no holder. `InputInv` counts the inputs that `stream_in_refcount` stands for while
  opens and closes do not overlap: a close that finds 1 finds no other stream alive, so
  `pcm_config_in` lives as long as a reader. `RouteInv` says that the device words are
  those of the streams out of standby, and that the mixer is the route of `cur_route_id`,
  which may be that of an output that has just gone into standby (`RouteId`).
* `NXStreamThread_proofs`. For any buffers, polls, waits, skipped frames and either
  chip: `StreamTypeCorrect`, `StreamRemovedWhenStopped`, `StreamRunningHasThread`,
  `StreamStoppedIsOff`, `StreamEachBufferOnce`, `StreamRemovedHoldsNothing`,
  `StreamFramesInOrder`. The control invariant `IInv` connects three threads: `Mutex` (a
  release excludes commands), `Declared` (after its poll a caller finds EXIT, and only
  start changes it), `Exited` (without a timeout, EXIT means that the thread touches the
  stream no more, but for a thread just run), `Asked`, `Starting`, `Works`, and
  `DeviceOff` and `QueueEmpty` (what an exited thread left on is cleaned up by the stop
  that waits for it). None of the properties is inductive by itself: that RUNNING has a
  thread, for instance, needs that nobody switches the device off between `Thread::run`
  and the assignment of RUNNING. `Held` is the buffer invariant, with injectivity in place
  of cardinality; `InjectiveCounts` translates. `InOrder` is that of the frames: device
  and stream hold the same buffers in the same order, but for the one in the thread's
  hand, which is the oldest of the stream before it is given away and the newest after
  (`Together`, `Oldest`, `Others`, `Newest`); `Flushing` keeps stops out of the way.

Every invariant that a passing run checks is stated by a theorem. Model-checked only:
the liveness properties `CommandsComplete`, `ReadsReturn` and `StopsReturn`, because
fairness and ENABLED are beyond the prover used, and the three findings, which are
counterexamples. What a history variable exempts in a property (`trouble`, `excuse`,
`overlap`, `failed`, `overlapped`, `late`) it exempts in the theorem too.
