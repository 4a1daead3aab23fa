--------------------------- MODULE FFmpegExtractor ---------------------------
(* The ffmpeg extractor (src/omx/extractor/ffmpeg/FFmpegExtractor.cpp): one    *)
(* reader thread takes packets out of the file and puts them into a queue per  *)
(* track, every track's source takes them out from its own thread, may ask     *)
(* for a seek before it does, and a control thread stops the sources.          *)
(* Each queue has a mutex, so one operation on a queue is one step.  What no   *)
(* mutex covers, the words the threads share (mSeekReq, mSeekPos, mEOF2,       *)
(* mAbortRequest, the EOS flags), is read and written step by step.  The       *)
(* payload, its conversion to Annex B, the codecs' headers and the tracks the  *)
(* reader creates late are left out.                                           *)
EXTENDS Naturals, Sequences, FiniteSets

CONSTANTS
  Tracks,        \* the tracks of this file: "video", "audio" or both
  File,          \* the tracks of the file's packets, in file order
  Keys,          \* the packets that are key frames
  Unreadable,    \* the packets whose reading may fail without an I/O error
  SeekTargets,   \* the positions a client seeks to
  MIN_FRAMES, MIN_AUDIOQ_SIZE, MAX_QUEUE_SIZE,  \* sizes counted in packets
  MaxSeeks,      \* bound: seeks asked for in a behaviour
  MaxEos         \* bound: end-of-stream packets waiting in a queue

ASSUME ExtractorAssumption ==
  /\ Tracks \subseteq {"video", "audio"} /\ Tracks # {}
  /\ File \in Seq({"video", "audio", "other"})
  /\ Keys \subseteq DOMAIN File /\ Unreadable \subseteq DOMAIN File
  /\ SeekTargets \subseteq DOMAIN File
  /\ {MIN_FRAMES, MIN_AUDIOQ_SIZE, MAX_QUEUE_SIZE, MaxSeeks} \subseteq Nat
  /\ MaxEos \in Nat \ {0}

VARIABLES
  rpc,          \* the reader's place in readerEntry
  rpkt,         \* the packet the reader holds
  filePos, fileGen,  \* the demuxer's position, and the seek that set it (history)
  queue,        \* the packets of each track
  abort_request,\* the tracks whose queue is aborted
  StreamIdx,    \* the tracks whose stream index is >= 0
  mSeekReq, mSeekPos, mEOF2, mAbortRequest,
  EOSReceived,  \* mVideoEOSReceived, mAudioEOSReceived
  mExtractorLock,  \* who holds it
  spc,          \* each source's place in read
  seeking, waitKeyPkt, mNeedStartKey, mFirstKeyPktTimestamp,
  pkt,          \* the packet a source is about to return
  ctl,          \* the control thread: what it stops, and how far it is
  stopped,      \* the sources that were stopped
  reqGen,       \* seeks asked for (history)
  want,         \* the seek each source's read asked for (history)
  overlap,      \* a seek was asked for while another's read had not returned (history)
  lost,         \* a request was cleared that had not been served (history)
  failed        \* the file could not be read or sought (history)

rvars == <<rpc, rpkt, filePos, fileGen>>
qvars == <<queue, abort_request, StreamIdx>>
svars == <<spc, seeking, waitKeyPkt, mNeedStartKey, mFirstKeyPktTimestamp, pkt, want>>
seekvars == <<mSeekReq, mSeekPos, mEOF2, reqGen, overlap, lost>>
vars == <<rvars, qvars, svars, seekvars, mAbortRequest, EOSReceived, mExtractorLock,
          ctl, stopped, failed>>

-----------------------------------------------------------------------------
NoOne == "nobody"
Positions == 0..Len(File) + 1        \* 0: no position
FlushPkt(g) == [kind |-> "flush", pos |-> 0, gen |-> g]
EosPkt == [kind |-> "eos", pos |-> 0, gen |-> 0]
DataPkt(p, g) == [kind |-> "data", pos |-> p, gen |-> g]
Packets == [kind : {"flush", "eos", "data"}, pos : Positions, gen : 0..MaxSeeks]
Data(q) == SelectSeq(q, LAMBDA p : p.kind = "data")
\* PacketQueue.size: flush and end packets have no bytes.
Bytes(t) == IF t \in Tracks THEN Len(Data(queue[t])) ELSE 0
EosIn(q) == Cardinality({i \in DOMAIN q : q[i].kind = "eos"})

TypeOK ==
  /\ rpc \in {"start", "loop", "seek", "flushA", "flushV", "clear", "eosV", "eosA",
              "eosTest", "read", "put", "wait", "closeA", "waitA", "closeV", "waitV", "dead"}
  /\ rpkt \in Packets /\ filePos \in Positions /\ fileGen \in 0..MaxSeeks
  /\ queue \in [Tracks -> Seq(Packets)]
  /\ abort_request \subseteq Tracks /\ StreamIdx \subseteq Tracks
  /\ mSeekReq \in BOOLEAN /\ mSeekPos \in Positions /\ mEOF2 \in BOOLEAN
  /\ mAbortRequest \in BOOLEAN /\ EOSReceived \in [Tracks -> BOOLEAN]
  /\ mExtractorLock \in Tracks \cup {NoOne, "stop"}
  /\ spc \in [Tracks -> {"idle", "seek", "flushA", "flushV", "request", "get", "eos", "return"}]
  /\ seeking \subseteq Tracks /\ waitKeyPkt \subseteq Tracks /\ mNeedStartKey \subseteq Tracks
  /\ mFirstKeyPktTimestamp \in [Tracks -> Positions]
  /\ pkt \in [Tracks -> Packets] /\ want \in [Tracks -> 0..MaxSeeks]
  /\ ctl \in [at : {"idle", "lock", "join"}, of : Tracks \cup {"extractor", NoOne}]
  /\ stopped \subseteq Tracks \cup {"extractor"}
  /\ reqGen \in 0..MaxSeeks
  /\ {overlap, lost, failed} \subseteq BOOLEAN

\* The constructor, up to the tracks' sources: the queues start with a flush
\* packet, the reader thread is created, and until it starts mVideoEOSReceived
\* holds whatever the memory held (nothing reads mAudioEOSReceived before).
Init ==
  /\ rpc = "start" /\ rpkt = EosPkt /\ filePos = 1 /\ fileGen = 0
  /\ queue = [t \in Tracks |-> <<FlushPkt(0)>>]
  /\ abort_request = {} /\ StreamIdx = Tracks
  /\ mSeekReq = FALSE /\ mSeekPos = 0 /\ mEOF2 = FALSE /\ mAbortRequest = FALSE
  /\ \E b \in BOOLEAN : EOSReceived = [t \in Tracks |-> t = "video" /\ b]
  /\ mExtractorLock = NoOne
  /\ spc = [t \in Tracks |-> "idle"] /\ seeking = {} /\ waitKeyPkt = {}
  /\ mNeedStartKey = Tracks /\ mFirstKeyPktTimestamp = [t \in Tracks |-> 0]
  /\ pkt = [t \in Tracks |-> EosPkt] /\ want = [t \in Tracks |-> 0]
  /\ ctl = [at |-> "idle", of |-> NoOne] /\ stopped = {}
  /\ reqGen = 0 /\ overlap = FALSE /\ lost = FALSE /\ failed = FALSE

\* packet_queue_flush of track t, if the extractor has the track.
Flushed(t) == IF t \in StreamIdx THEN [queue EXCEPT ![t] = << >>] ELSE queue
Put(q, t, p) == IF t \in StreamIdx THEN [q EXCEPT ![t] = Append(@, p)] ELSE q
-----------------------------------------------------------------------------
(* The reader thread.                                                        *)

ReaderGoes(next) == rpc' = next /\ UNCHANGED <<rpkt, filePos, fileGen>>
ReaderOnly == UNCHANGED <<svars, mExtractorLock, ctl, stopped>>
NotSeeking == UNCHANGED seekvars

\* readerEntry starts.
ReaderStarts ==
  /\ rpc = "start" /\ ReaderGoes("loop")
  /\ mEOF2' = FALSE /\ EOSReceived' = [t \in Tracks |-> FALSE]
  /\ ReaderOnly
  /\ UNCHANGED <<qvars, mSeekReq, mSeekPos, reqGen, overlap, lost, mAbortRequest, failed>>

\* Too many bytes in all, or enough of each track.
Full ==
  \/ Bytes("audio") + Bytes("video") > MAX_QUEUE_SIZE
  \/ /\ "audio" \notin StreamIdx \/ Bytes("audio") > MIN_AUDIOQ_SIZE
     /\ "video" \notin StreamIdx \/ Len(queue["video"]) > MIN_FRAMES

\* The top of the loop: the abort request, the seek request, full queues, the
\* end of the file.  The words are read one after the other, but what they lead
\* to is a step of its own, so reading them at one instant loses nothing; a
\* seek that comes in between is seen by the second test of mSeekReq.
ReaderLoop ==
  /\ rpc = "loop"
  /\ ReaderGoes(CASE mAbortRequest -> "closeA"
                  [] ~mAbortRequest /\ mSeekReq -> "seek"
                  [] ~mAbortRequest /\ ~mSeekReq /\ Full -> "loop"
                  [] ~mAbortRequest /\ ~mSeekReq /\ ~Full /\ mEOF2 -> "eosV"
                  [] OTHER -> "read")
  /\ ReaderOnly /\ NotSeeking /\ UNCHANGED <<qvars, mAbortRequest, EOSReceived, failed>>

\* avformat_seek_file goes to whatever mSeekPos is by now, or fails.
AvformatSeekFile ==
  /\ rpc = "seek"
  /\ \/ rpc' = "flushA" /\ filePos' = mSeekPos /\ fileGen' = reqGen /\ UNCHANGED <<rpkt, failed>>
     \/ ReaderGoes("clear") /\ failed' = TRUE
  /\ ReaderOnly /\ NotSeeking /\ UNCHANGED <<qvars, mAbortRequest, EOSReceived>>

Mut_ReaderFlushMarksOnly(at, t, next) ==
  /\ rpc = at /\ ReaderGoes(next)
  /\ queue' = Put(queue, t, FlushPkt(fileGen))
  /\ ReaderOnly /\ NotSeeking
  /\ UNCHANGED <<abort_request, StreamIdx, mAbortRequest, EOSReceived, failed>>

\* One track's queue is flushed and marked; nobody else puts packets, so the
\* two operations are one step.
ReaderFlush(at, t, next) ==
  /\ rpc = at /\ ReaderGoes(next)
  /\ queue' = Put(Flushed(t), t, FlushPkt(fileGen))
  /\ ReaderOnly /\ NotSeeking
  /\ UNCHANGED <<abort_request, StreamIdx, mAbortRequest, EOSReceived, failed>>

ReaderClearsSeek ==
  /\ rpc = "clear" /\ ReaderGoes("loop")
  /\ mSeekReq' = FALSE /\ mEOF2' = FALSE
  /\ lost' = (lost \/ (mSeekReq /\ reqGen # fileGen /\ ~failed))
  /\ ReaderOnly
  /\ UNCHANGED <<qvars, mSeekPos, reqGen, overlap, mAbortRequest, EOSReceived, failed>>

\* An end-of-stream packet for one track.  The code puts one on every turn of
\* the loop at the end of the file; past MaxEos the model leaves them out.
ReaderPutsEos(at, t, next) ==
  /\ rpc = at /\ ReaderGoes(next)
  /\ queue' = IF t \in StreamIdx /\ EosIn(queue[t]) < MaxEos THEN Put(queue, t, EosPkt)
                                                             ELSE queue
  /\ ReaderOnly /\ NotSeeking
  /\ UNCHANGED <<abort_request, StreamIdx, mAbortRequest, EOSReceived, failed>>

\* mAutoExit: when everything was taken the reader leaves for good.
ReaderTestsEnd ==
  /\ rpc = "eosTest"
  /\ LET drained == ~mSeekReq /\ Bytes("audio") + Bytes("video") = 0
     IN /\ ReaderGoes(IF drained THEN "closeA" ELSE "loop")
        /\ mEOF2' = IF mSeekReq \/ drained THEN mEOF2 ELSE FALSE
  /\ ReaderOnly
  /\ UNCHANGED <<qvars, mSeekReq, mSeekPos, reqGen, overlap, lost, mAbortRequest, EOSReceived,
                 failed>>

Mut_AvReadFramePastEnd ==
  /\ rpc = "read"
  /\ rpc' = "put" /\ rpkt' = DataPkt(filePos, fileGen) /\ filePos' = filePos + 1
  /\ ReaderOnly /\ NotSeeking
  /\ UNCHANGED <<qvars, fileGen, mAbortRequest, EOSReceived, failed>>

\* av_read_frame: a packet; the end of the file, or an error in the middle of it
\* that is taken for the end, until the next turn tries again; or an I/O error,
\* after which the reader waits for the abort request and feeds nobody.
AvReadFrame ==
  /\ rpc = "read"
  /\ \/ /\ filePos <= Len(File)
        /\ rpc' = "put" /\ rpkt' = DataPkt(filePos, fileGen) /\ filePos' = filePos + 1
        /\ UNCHANGED <<fileGen, mEOF2, failed>>
     \/ /\ filePos > Len(File) \/ filePos \in Unreadable
        /\ ReaderGoes("loop") /\ mEOF2' = TRUE /\ UNCHANGED failed
     \/ ReaderGoes("wait") /\ mEOF2' = TRUE /\ failed' = TRUE
  /\ ReaderOnly
  /\ UNCHANGED <<qvars, mSeekReq, mSeekPos, reqGen, overlap, lost, mAbortRequest, EOSReceived>>

ReaderPuts ==
  /\ rpc = "put" /\ rpc' = "loop" /\ rpkt' = EosPkt /\ UNCHANGED <<filePos, fileGen>>
  /\ queue' = Put(queue, File[rpkt.pos], rpkt)
  /\ ReaderOnly /\ NotSeeking
  /\ UNCHANGED <<abort_request, StreamIdx, mAbortRequest, EOSReceived, failed>>

ReaderWaits ==
  /\ rpc = "wait" /\ mAbortRequest /\ ReaderGoes("closeA")
  /\ ReaderOnly /\ NotSeeking /\ UNCHANGED <<qvars, mAbortRequest, EOSReceived, failed>>

Mut_StreamComponentKeepsQueue(at, t, wait, next) ==
  /\ rpc = at /\ ReaderGoes(IF t \in StreamIdx THEN wait ELSE next)
  /\ ReaderOnly /\ NotSeeking /\ UNCHANGED <<qvars, mAbortRequest, EOSReceived, failed>>

\* stream_component_close, first half: abort the queue, so that a source that
\* waits on it is told the end.
StreamComponentAbort(at, t, wait, next) ==
  /\ rpc = at /\ ReaderGoes(IF t \in StreamIdx THEN wait ELSE next)
  /\ abort_request' = abort_request \cup (StreamIdx \cap {t})
  /\ ReaderOnly /\ NotSeeking
  /\ UNCHANGED <<queue, StreamIdx, mAbortRequest, EOSReceived, failed>>

Mut_StreamComponentCloseWaits(at, t, next) ==
  /\ rpc = at /\ EOSReceived[t] /\ ReaderGoes(next)
  /\ queue' = [queue EXCEPT ![t] = << >>] /\ StreamIdx' = StreamIdx \ {t}
  /\ ReaderOnly /\ NotSeeking
  /\ UNCHANGED <<abort_request, mAbortRequest, EOSReceived, failed>>

\* Second half: once the source was told, or at once under an abort request,
\* end the queue and forget the stream.
StreamComponentClose(at, t, next) ==
  /\ rpc = at /\ (mAbortRequest \/ EOSReceived[t]) /\ ReaderGoes(next)
  /\ queue' = [queue EXCEPT ![t] = << >>] /\ StreamIdx' = StreamIdx \ {t}
  /\ ReaderOnly /\ NotSeeking
  /\ UNCHANGED <<abort_request, mAbortRequest, EOSReceived, failed>>

readerEntry ==
  \/ ReaderStarts \/ ReaderLoop \/ AvformatSeekFile
  \/ ReaderFlush("flushA", "audio", "flushV") \/ ReaderFlush("flushV", "video", "clear")
  \/ ReaderClearsSeek
  \/ ReaderPutsEos("eosV", "video", "eosA") \/ ReaderPutsEos("eosA", "audio", "eosTest")
  \/ ReaderTestsEnd \/ AvReadFrame \/ ReaderPuts \/ ReaderWaits
  \/ StreamComponentAbort("closeA", "audio", "waitA", "closeV")
  \/ StreamComponentClose("waitA", "audio", "closeV")
  \/ StreamComponentAbort("closeV", "video", "waitV", "dead")
  \/ StreamComponentClose("waitV", "video", "dead")
-----------------------------------------------------------------------------
(* A track's source: FFMpegSource::read, which holds the source's mLock.     *)

SourceGoes(s, next) == spc' = [spc EXCEPT ![s] = next]
SourceOnly == UNCHANGED <<rvars, mAbortRequest, ctl, stopped, failed>>

SeekPlaces == {"seek", "flushA", "flushV", "request"}

\* read is called, with or without a seek.  Sources that are being stopped
\* are not read any more.
Read(s) ==
  /\ spc[s] = "idle" /\ s \notin stopped /\ ctl.of \notin {s, "extractor"}
  /\ "extractor" \notin stopped
  /\ \/ SourceGoes(s, "get")
     \/ /\ reqGen + Cardinality({t \in Tracks : spc[t] \in SeekPlaces}) < MaxSeeks
        /\ SourceGoes(s, "seek")
  /\ mNeedStartKey' = mNeedStartKey \ {s}
  /\ waitKeyPkt' = waitKeyPkt \cup (mNeedStartKey \cap {s})
  /\ SourceOnly
  /\ UNCHANGED <<qvars, seekvars, EOSReceived, mExtractorLock, mFirstKeyPktTimestamp, pkt,
                 seeking, want>>

\* stream_seek, which holds mExtractorLock from here on: while the video is
\* playing, its source seeks for both.
StreamSeek(s) ==
  /\ spc[s] = "seek" /\ mExtractorLock = NoOne
  /\ IF s = "audio" /\ StreamIdx = {"video", "audio"} /\ ~EOSReceived["video"]
     THEN SourceGoes(s, "get") /\ UNCHANGED <<mExtractorLock, want, overlap>>
     ELSE /\ SourceGoes(s, "flushA") /\ mExtractorLock' = s
          /\ want' = [want EXCEPT ![s] = reqGen + 1]
          /\ overlap' = (overlap \/ \E t \in Tracks \ {s} : spc[t] # "idle" /\ want[t] # 0)
  /\ SourceOnly
  /\ UNCHANGED <<qvars, mSeekReq, mSeekPos, mEOF2, reqGen, lost, EOSReceived, seeking,
                 waitKeyPkt, mNeedStartKey, mFirstKeyPktTimestamp, pkt>>

Mut_StreamSeekKeepsPackets(s, at, t, next) ==
  /\ spc[s] = at /\ SourceGoes(s, next)
  /\ SourceOnly
  /\ UNCHANGED <<qvars, seekvars, EOSReceived, mExtractorLock, seeking,
                 waitKeyPkt, mNeedStartKey, mFirstKeyPktTimestamp, pkt, want>>

\* ... empty one queue after the other ...
StreamSeekFlush(s, at, t, next) ==
  /\ spc[s] = at /\ SourceGoes(s, next)
  /\ queue' = Flushed(t)
  /\ SourceOnly
  /\ UNCHANGED <<abort_request, StreamIdx, seekvars, EOSReceived, mExtractorLock, seeking,
                 waitKeyPkt, mNeedStartKey, mFirstKeyPktTimestamp, pkt, want>>

\* The request itself; read goes on with seeking set.
StreamSeekRequest(s) ==
  /\ spc[s] = "request" /\ SourceGoes(s, "get")
  /\ mSeekPos' \in SeekTargets /\ mSeekReq' = TRUE /\ mEOF2' = FALSE
  /\ reqGen' = reqGen + 1
  /\ seeking' = seeking \cup {s} /\ mExtractorLock' = NoOne
  /\ SourceOnly
  /\ UNCHANGED <<qvars, overlap, lost, want, EOSReceived, waitKeyPkt, mNeedStartKey,
                 mFirstKeyPktTimestamp, pkt>>

\* A seeking read drops everything in front of the flush packet, the end included.
DroppedBySeek(s, p) == p.kind # "flush" /\ s \in seeking

\* packet_queue_get and what read does with the packet: drop all up to the
\* flush packet of a seek, then all up to a key frame, then what is older than
\* the key frame.
PacketQueueGet(s) ==
  /\ spc[s] = "get"
  /\ IF s \in abort_request
     THEN /\ SourceGoes(s, "eos")
          /\ UNCHANGED <<queue, seeking, waitKeyPkt, mFirstKeyPktTimestamp, pkt>>
     ELSE /\ queue[s] # << >>
          /\ queue' = [queue EXCEPT ![s] = Tail(@)]
          /\ LET p == Head(queue[s])
                 dropped == DroppedBySeek(s, p)
                 ended == p.kind = "eos" /\ ~dropped
                 unkeyed == s \in waitKeyPkt /\ s = "video" /\ p.pos \notin Keys
                 first == IF mFirstKeyPktTimestamp[s] = 0 THEN p.pos ELSE mFirstKeyPktTimestamp[s]
                 usable == p.kind = "data" /\ ~dropped /\ ~unkeyed
             IN /\ seeking' = IF p.kind = "flush" THEN seeking \ {s} ELSE seeking
                /\ waitKeyPkt' = CASE p.kind = "flush" /\ s \in seeking -> waitKeyPkt \cup {s}
                                   [] usable -> waitKeyPkt \ {s}
                                   [] OTHER -> waitKeyPkt
                /\ mFirstKeyPktTimestamp' = [mFirstKeyPktTimestamp EXCEPT ![s] =
                     CASE p.kind = "flush" -> 0 [] usable -> first [] OTHER -> @]
                /\ SourceGoes(s, CASE ended -> "eos" [] usable /\ p.pos >= first -> "return"
                                   [] OTHER -> "get")
                /\ pkt' = [pkt EXCEPT ![s] = IF usable /\ p.pos >= first THEN p ELSE @]
  /\ SourceOnly
  /\ UNCHANGED <<abort_request, StreamIdx, seekvars, EOSReceived, mExtractorLock,
                 mNeedStartKey, want>>

\* read's locals end with it.
Returns(s) ==
  /\ SourceGoes(s, "idle") /\ pkt' = [pkt EXCEPT ![s] = EosPkt]
  /\ seeking' = seeking \ {s} /\ waitKeyPkt' = waitKeyPkt \ {s}
  /\ want' = [want EXCEPT ![s] = 0]

\* reachedEOS, and read returns the end of the stream.
ReachedEOS(s) ==
  /\ spc[s] = "eos" /\ mExtractorLock = NoOne /\ Returns(s)
  /\ EOSReceived' = [EOSReceived EXCEPT ![s] = TRUE]
  /\ SourceOnly
  /\ UNCHANGED <<qvars, seekvars, mExtractorLock, mNeedStartKey, mFirstKeyPktTimestamp>>

\* read makes the buffer and returns.
ReadReturns(s) ==
  /\ spc[s] = "return" /\ Returns(s)
  /\ SourceOnly
  /\ UNCHANGED <<qvars, seekvars, EOSReceived, mExtractorLock, mNeedStartKey,
                 mFirstKeyPktTimestamp>>

SourceSteps(s) ==
  \/ StreamSeek(s) \/ StreamSeekFlush(s, "flushA", "audio", "flushV")
  \/ StreamSeekFlush(s, "flushV", "video", "request") \/ StreamSeekRequest(s)
  \/ PacketQueueGet(s) \/ ReachedEOS(s) \/ ReadReturns(s)
-----------------------------------------------------------------------------
(* The control thread: FFMpegSource::stop of each source, or the extractor's *)
(* destructor once nobody reads.                                             *)

ControlOnly == UNCHANGED <<rvars, qvars, svars, seekvars, EOSReceived, failed>>

Stop(s) ==
  /\ ctl.at = "idle" /\ stopped \cap {s, "extractor"} = {}
  /\ s = "extractor" => \A t \in Tracks : spc[t] = "idle"
  /\ ctl' = [at |-> "lock", of |-> s]
  /\ ControlOnly /\ UNCHANGED <<mAbortRequest, mExtractorLock, stopped>>

\* stopReaderThread, under the source's mLock and the extractor's lock: the
\* reader is told, or it was joined before (only the first stop joins it).
StopReaderThread ==
  /\ ctl.at = "lock" /\ (ctl.of \in Tracks => spc[ctl.of] = "idle")
  /\ mExtractorLock = NoOne
  /\ IF stopped = {}
     THEN /\ ctl' = [ctl EXCEPT !.at = "join"] /\ mExtractorLock' = "stop"
          /\ mAbortRequest' = TRUE /\ UNCHANGED stopped
     ELSE /\ ctl' = [at |-> "idle", of |-> NoOne] /\ stopped' = stopped \cup {ctl.of}
          /\ UNCHANGED <<mAbortRequest, mExtractorLock>>
  /\ ControlOnly

Join ==
  /\ ctl.at = "join" /\ rpc = "dead"
  /\ ctl' = [at |-> "idle", of |-> NoOne] /\ stopped' = stopped \cup {ctl.of}
  /\ mExtractorLock' = NoOne
  /\ ControlOnly /\ UNCHANGED mAbortRequest

Next ==
  \/ readerEntry
  \/ \E s \in Tracks : Read(s) \/ SourceSteps(s)
  \/ \E s \in Tracks \cup {"extractor"} : Stop(s)
  \/ StopReaderThread \/ Join

Spec == Init /\ [][Next]_vars

\* The threads run; a client need neither read nor stop.
FairSpec ==
  /\ Spec
  /\ WF_vars(readerEntry) /\ \A s \in Tracks : WF_vars(SourceSteps(s))
  /\ WF_vars(StopReaderThread) /\ WF_vars(Join)
-----------------------------------------------------------------------------
(* Properties.                                                               *)

\* stream_seek and the reader flush a queue twice, read drops what is in front
\* of the flush packet: as long as one source seeks at a time, a read that asked
\* for a seek returns a packet from the place that seek went to.  The reader
\* clears mSeekReq with no lock against stream_seek, and yet a request is cleared
\* unserved only if two sources were in a seeking read at once.
SeekIsHonoured ==
  /\ \A s \in Tracks : spc[s] = "return" => overlap \/ failed \/ pkt[s].gen >= want[s]
  /\ lost => overlap

\* Behind a flush packet in a queue come only packets of the seek it stands
\* for, however the seeks fall between the reader's steps.
FlushSeparates ==
  \A t \in Tracks : \A i, j \in DOMAIN queue[t] :
    i < j /\ queue[t][i].kind = "flush" /\ queue[t][j].kind = "data"
      => queue[t][j].gen = queue[t][i].gen

\* A reader that has gone has aborted every queue: no source waits for a
\* packet that nobody will put.
NobodyWaitsForDeadReader == rpc = "dead" => abort_request = Tracks

\* At the end of the file the reader tells one track after the other, and waits
\* for its source to come for it; and a reader whose queues hold too many bytes
\* waits for the track that has them to be read.
WaitsForUnread ==
  \/ /\ Bytes("audio") + Bytes("video") > MAX_QUEUE_SIZE
     /\ \E t \in Tracks : Bytes(t) > 0 /\ spc[t] = "idle"
  \/ rpc = "waitA" /\ spc["audio"] = "idle"
  \/ rpc = "waitV" /\ spc["video"] = "idle"

\* Every read comes back, through seeks, the end of the file, the reader's
\* own exit at the end and the stop of another source, unless the file failed,
\* a seek was overwritten, or the reader waits for a track that nobody reads.
ReadsReturn ==
  \A s \in Tracks : spc[s] # "idle" ~> (spc[s] = "idle" \/ lost \/ failed \/ WaitsForUnread)

\* stop joins the reader with mExtractorLock held: the reader, which may be
\* waiting for a source to be told the end, and that source, which needs the
\* lock for it, must not keep stop waiting; nor may a reader that waits for an
\* unread track once the abort request is made.  (The exceptions are for a stop
\* that still waits for its source.)
StopsReturn ==
  (ctl.at # "idle")
  ~> (ctl.at = "idle" \/ (ctl.at = "lock" /\ (lost \/ failed \/ WaitsForUnread)))
=============================================================================
